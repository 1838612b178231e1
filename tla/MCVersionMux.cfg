SPECIFICATION Spec
CONSTANTS
  Versions = {v1, v2, v3}
  Requests = {q1, q2}
  Removers = {r1}
  NoVersion = NoVersion
  NoTimer = NoTimer
  RemoveTimeout = 2
INVARIANTS MuxInv
PROPERTIES TimerHonoured RemoveIdempotent ImplementsLease
