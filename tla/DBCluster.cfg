SPECIFICATION Spec
CONSTANTS
  Versions = {1, 2, 3}
  Clients = {}
  NoTimer = NoTimer
  RemoveTimeout = 1
  Distributed = TRUE
  MaxBuilds = 1
  MayDrop = FALSE
INVARIANTS NoPanic ServedOpen
PROPERTIES RollForward MuxContract
