SPECIFICATION FairSpec
CONSTANTS
  Nodes = {n1, n2}
  Partitions = {1, 2}
  Choices = {{1}, {2}, {1, 2}}
  Manifests = {{}, {1}, {1, 2}}
  Failing = {n1}
  MaxLosses = 1
   
PROPERTIES ReadyHappens MirrorConverges
CHECK_DEADLOCK FALSE
