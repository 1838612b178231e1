SPECIFICATION FairSpec
CONSTANTS
  Versions = {v1, v2}
  Requests = {q1}
  Removers = {r1}
  NoVersion = NoVersion
  NoTimer = NoTimer
  RemoveTimeout = 2

PROPERTIES RemoveReturns
