SPECIFICATION FairSpec
CONSTANTS
  Peers = {n1, n2, n3}
  NoPeer = NoPeer
  Malformed = {n3}
  Partitions = {1, 2}
  NoPartition = 0
INVARIANTS WinnerOnly NotFoundHonest BadGatewayHonest ServeInv
PROPERTIES RequestEnds
CHECK_DEADLOCK FALSE
