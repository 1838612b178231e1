SPECIFICATION Spec
CONSTANTS
  Nodes = {"a", "b", "c"}
  Shards = {"A", "B", "C"}
  Partitions = {1}
  shardID <- mcShardID
  replication = 2
  Patient = TRUE
INVARIANTS RingInv ClosestSelect FullyReplicated
