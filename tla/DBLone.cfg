SPECIFICATION FairSpec
CONSTANTS
  Versions = {1, 2}
  Clients = {c1}
  NoTimer = NoTimer
  RemoveTimeout = 1
  Distributed = FALSE
  MaxBuilds = 1
  MayDrop = TRUE
INVARIANTS DBInv
PROPERTIES LatestServed
CHECK_DEADLOCK FALSE
