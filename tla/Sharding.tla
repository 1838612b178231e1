------------------------------ MODULE Sharding ------------------------------
(***************************************************************************)
(* How the nodes of a cluster decide, each on its own, which partitions of *)
(* a version to load: peers.go (the list of nodes in zookeeper, mirrored   *)
(* with a delay, and the hash ring made of it) and pickLocalPartitions     *)
(* (partitions.go).  The ring is seen from a partition: the order in which *)
(* GetN would meet the shards, the same at every node.                     *)
(***************************************************************************)
EXTENDS Naturals, FiniteSets

CONSTANTS Nodes, Shards, Partitions,
          shardID,       \* the shard of each node; nodes may share one
          replication,   \* sharding.replication
          Patient        \* the first update comes before the wait is over

VARIABLES rank,      \* position of each shard in the ring, seen from a partition
          nodes,     \* the nodes registered in zookeeper
          peers,     \* p.peers of each node
          ring,      \* p.ring of each node, a set of shards
          phase,     \* off, converging (waitToConverge), running, loaded
          selected   \* partitions.selected of each node

vars == <<rank, nodes, peers, ring, phase, selected>>

ASSUME ShardingAssumption ==
  /\ IsFiniteSet(Shards) /\ shardID \in [Nodes -> Shards]
  /\ replication \in Nat \ {0} /\ Patient \in BOOLEAN

\* A hash collision apart, no two shards are at the same point.
Rankings == {f \in [Shards -> Nat] : \A s, t \in Shards : f[s] = f[t] => s = t}

\* consistent.GetN: the n shards of a ring that are closest to a partition, all
\* of them if there are not as many, none for an empty ring.
GetN(p, r, n) == {s \in r : Cardinality({t \in r : rank[p][t] < rank[p][s]}) < n}

Init ==
  /\ rank \in [Partitions -> {f \in [Shards -> 1..Cardinality(Shards)] :
                                \A s, t \in Shards : f[s] = f[t] => s = t}]
  /\ nodes = {}
  /\ peers = [n \in Nodes |-> {}] /\ ring = [n \in Nodes |-> {}]
  /\ phase = [n \in Nodes |-> "off"] /\ selected = [n \in Nodes |-> {}]

\* initCluster: register, watch the nodes, and wait.
watchPeers(n) ==
  /\ phase[n] = "off"
  /\ nodes' = nodes \cup {n}
  /\ phase' = [phase EXCEPT ![n] = "converging"]
  /\ UNCHANGED <<rank, peers, ring, selected>>

\* Mutant: a node does not put itself on its ring.
updatePeersOthers(n) ==
  /\ phase[n] # "off"
  /\ peers' = [peers EXCEPT ![n] = nodes \ {n}]
  /\ ring' = [ring EXCEPT ![n] = {shardID[m] : m \in nodes \ {n}}]
  /\ UNCHANGED <<rank, nodes, phase, selected>>

\* An update of the list of nodes; the node's own shard is always in the ring.
updatePeers(n) ==
  /\ phase[n] # "off"
  /\ peers' = [peers EXCEPT ![n] = nodes \ {n}]
  /\ ring' = [ring EXCEPT ![n] = {shardID[m] : m \in nodes \ {n}} \cup {shardID[n]}]
  /\ UNCHANGED <<rank, nodes, phase, selected>>

\* The list has been stable, or nothing was heard of it, for TimeToConverge.
waitToConverge(n) ==
  /\ phase[n] = "converging" /\ (Patient => ring[n] # {})
  /\ phase' = [phase EXCEPT ![n] = "running"]
  /\ UNCHANGED <<rank, nodes, peers, ring, selected>>

\* peers.pick, as far as pickLocalPartitions looks at it: is the node itself
\* one of the replicas?
picksSelf(n, p) == shardID[n] \in GetN(p, ring[n], replication)

\* Mutant: one replica too few is asked of the ring.
pickFewer(n) ==
  /\ phase[n] = "running"
  /\ selected' = [selected EXCEPT ![n] =
       {p \in Partitions : shardID[n] \in GetN(p, ring[n], replication - 1)}]
  /\ phase' = [phase EXCEPT ![n] = "loaded"]
  /\ UNCHANGED <<rank, nodes, peers, ring>>

\* A version is found: newVersion picks the partitions, once and for all.
pickLocalPartitions(n) ==
  /\ phase[n] = "running"
  /\ selected' = [selected EXCEPT ![n] = {p \in Partitions : picksSelf(n, p)}]
  /\ phase' = [phase EXCEPT ![n] = "loaded"]
  /\ UNCHANGED <<rank, nodes, peers, ring>>

\* A node's session expires, and is made again by its zkWatcher.
sessionExpired(n) ==
  /\ n \in nodes /\ nodes' = nodes \ {n}
  /\ UNCHANGED <<rank, peers, ring, phase, selected>>
sessionRestored(n) ==
  /\ phase[n] # "off" /\ n \notin nodes /\ nodes' = nodes \cup {n}
  /\ UNCHANGED <<rank, peers, ring, phase, selected>>

Next == \E n \in Nodes :
  \/ watchPeers(n) \/ updatePeers(n) \/ waitToConverge(n) \/ pickLocalPartitions(n)
  \/ sessionExpired(n) \/ sessionRestored(n)

Spec == Init /\ [][Next]_vars

-----------------------------------------------------------------------------
(* Properties. *)

\* Every variable keeps its type.
TypeOK ==
  /\ rank \in [Partitions -> Rankings] /\ nodes \subseteq Nodes
  /\ peers \in [Nodes -> SUBSET Nodes] /\ ring \in [Nodes -> SUBSET Shards]
  /\ phase \in [Nodes -> {"off", "converging", "running", "loaded"}]
  /\ selected \in [Nodes -> SUBSET Partitions]

\* The strengthening that ClosestSelect needs: a ring holds its node's shard from
\* the first update on, and a node that stops waiting has had an update.
RingInv ==
  /\ TypeOK
  /\ \A n \in Nodes : ring[n] # {} => shardID[n] \in ring[n]
  /\ Patient => \A n \in Nodes : phase[n] \in {"running", "loaded"} => ring[n] # {}

\* Whatever a node knew of the others when it picked, it loads each partition of
\* which its shard is one of the closest of all shards: nodes that start at
\* different times, or lose their sessions, make for overreplication only.
ClosestSelect ==
  \A n \in Nodes : phase[n] = "loaded" =>
    \A p \in Partitions :
      shardID[n] \in GetN(p, Shards, replication) => p \in selected[n]

\* Once a node of every shard has picked, each partition is loaded by as many
\* shards as sharding.replication asks for, or by all there are.
FullyReplicated ==
  (\A s \in Shards : \E n \in Nodes : phase[n] = "loaded" /\ shardID[n] = s) =>
    \A p \in Partitions :
      LET by == {shardID[n] : n \in {m \in Nodes : p \in selected[m]}}
      IN Cardinality(by) >= replication \/ by = Shards
=============================================================================
