SPECIFICATION Spec
CONSTANTS
  Versions = {1, 2}
  Clients = {}
  NoTimer = NoTimer
  RemoveTimeout = 1
  Distributed = TRUE
  MaxBuilds = 1
  MayDrop = TRUE
INVARIANTS NoPanic
