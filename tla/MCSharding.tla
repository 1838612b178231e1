----------------------------- MODULE MCSharding -----------------------------
(* Three nodes, each a shard of its own. *)
EXTENDS Sharding

mcShardID == [n \in Nodes |-> IF n = "a" THEN "A" ELSE IF n = "b" THEN "B" ELSE "C"]
=============================================================================
