--------------------------- MODULE ShardingProofs ---------------------------
(***************************************************************************)
(* Nodes that pick their partitions from any partial view of the cluster   *)
(* never underreplicate: for every set of nodes, shards and partitions,    *)
(* every ring order and every replication factor.                          *)
(***************************************************************************)
EXTENDS Sharding, FiniteSetTheorems, TLAPS

\* A shard that is among the n closest of all shards is among the n closest of
\* every ring that it is on: a smaller ring has fewer shards before it.
LEMMA ClosestInSubring ==
  ASSUME NEW p, NEW r \in SUBSET Shards, NEW s \in r, NEW n \in Nat,
         s \in GetN(p, Shards, n)
  PROVE  s \in GetN(p, r, n)
<1> DEFINE before(x) == {t \in x : rank[p][t] < rank[p][s]}
<1>1. IsFiniteSet(before(Shards))
  BY ShardingAssumption, FS_Subset, before(Shards) \subseteq Shards
<1>2. before(r) \subseteq before(Shards)
  OBVIOUS
<1>3. /\ IsFiniteSet(before(r))
      /\ Cardinality(before(r)) <= Cardinality(before(Shards))
  BY <1>1, <1>2, FS_Subset
<1>4. Cardinality(before(r)) \in Nat /\ Cardinality(before(Shards)) \in Nat
  BY <1>1, <1>3, FS_CardinalityType
<1>5. Cardinality(before(Shards)) < n
  BY DEF GetN
<1>6. Cardinality(before(r)) < n
  <2> HIDE DEF before
  <2> QED BY <1>3, <1>4, <1>5
<1> QED BY <1>6 DEF GetN

LEMMA RingInit == Init => RingInv /\ ClosestSelect
<1> SUFFICES ASSUME Init PROVE RingInv /\ ClosestSelect
  OBVIOUS
<1>1. Cardinality(Shards) \in Nat
  BY ShardingAssumption, FS_CardinalityType
<1>2. rank \in [Partitions -> Rankings]
  BY <1>1 DEF Init, Rankings
<1>3. TypeOK
  BY <1>2 DEF Init, TypeOK
<1> QED BY <1>3 DEF Init, RingInv, ClosestSelect

\* Every step keeps the strengthened type invariant.
LEMMA RingStep == RingInv /\ [Next]_vars => RingInv'
<1> SUFFICES ASSUME RingInv, [Next]_vars PROVE RingInv'
  OBVIOUS
<1> USE ShardingAssumption DEF RingInv, TypeOK
<1>1. CASE UNCHANGED vars
  BY <1>1 DEF vars
<1>2. ASSUME NEW n \in Nodes, watchPeers(n) PROVE RingInv'
  BY <1>2 DEF watchPeers
<1>3. ASSUME NEW n \in Nodes, updatePeers(n) PROVE RingInv'
  <2>1. {shardID[m] : m \in nodes \ {n}} \cup {shardID[n]} \in SUBSET Shards
    OBVIOUS
  <2>2. TypeOK'
    BY <1>3, <2>1 DEF updatePeers
  <2>3. \A m \in Nodes : ring'[m] # {} => shardID[m] \in ring'[m]
    BY <1>3 DEF updatePeers
  <2>4. \A m \in Nodes : ring[m] # {} => ring'[m] # {}
    BY <1>3 DEF updatePeers
  <2> QED BY <1>3, <2>2, <2>3, <2>4 DEF updatePeers
<1>4. ASSUME NEW n \in Nodes, waitToConverge(n) PROVE RingInv'
  BY <1>4 DEF waitToConverge
<1>5. ASSUME NEW n \in Nodes, pickLocalPartitions(n) PROVE RingInv'
  BY <1>5 DEF pickLocalPartitions
<1>6. ASSUME NEW n \in Nodes, sessionExpired(n) PROVE RingInv'
  BY <1>6 DEF sessionExpired
<1>7. ASSUME NEW n \in Nodes, sessionRestored(n) PROVE RingInv'
  BY <1>7 DEF sessionRestored
<1> QED BY <1>1, <1>2, <1>3, <1>4, <1>5, <1>6, <1>7 DEF Next

\* Only pickLocalPartitions changes what ClosestSelect is about, and it is where
\* the lemma on smaller rings is used.
LEMMA SelectStep ==
  ASSUME Patient
  PROVE  RingInv /\ ClosestSelect /\ [Next]_vars => ClosestSelect'
<1> SUFFICES ASSUME RingInv, ClosestSelect, [Next]_vars PROVE ClosestSelect'
  OBVIOUS
<1>1. ASSUME NEW n \in Nodes, pickLocalPartitions(n) PROVE ClosestSelect'
  <2>1. ring[n] \in SUBSET Shards /\ shardID[n] \in ring[n]
    BY <1>1 DEF pickLocalPartitions, RingInv, TypeOK
  <2>2. \A p \in Partitions :
          shardID[n] \in GetN(p, Shards, replication) => picksSelf(n, p)
    BY <2>1, ClosestInSubring, ShardingAssumption DEF picksSelf
  <2>3. rank' = rank /\ \A p, r : GetN(p, r, replication)' = GetN(p, r, replication)
    BY <1>1 DEF pickLocalPartitions, GetN
  <2>4. \A p \in Partitions :
          shardID[n] \in GetN(p, Shards, replication) => p \in selected'[n]
    BY <1>1, <2>2 DEF pickLocalPartitions, RingInv, TypeOK
  <2>5. \A m \in Nodes \ {n} : phase'[m] = phase[m] /\ selected'[m] = selected[m]
    BY <1>1 DEF pickLocalPartitions, RingInv, TypeOK
  <2> QED BY <2>3, <2>4, <2>5 DEF ClosestSelect, GetN
<1>2. ASSUME /\ rank' = rank /\ selected' = selected
             /\ \A m \in Nodes : phase'[m] = "loaded" => phase[m] = "loaded"
      PROVE ClosestSelect'
  BY <1>2 DEF ClosestSelect, GetN
<1>3. ASSUME NEW n \in Nodes, watchPeers(n) PROVE ClosestSelect'
  BY <1>2, <1>3 DEF watchPeers, RingInv, TypeOK
<1>4. ASSUME NEW n \in Nodes, waitToConverge(n) PROVE ClosestSelect'
  BY <1>2, <1>4 DEF waitToConverge, RingInv, TypeOK
<1>5. ASSUME NEW n \in Nodes,
             updatePeers(n) \/ sessionExpired(n) \/ sessionRestored(n)
      PROVE ClosestSelect'
  BY <1>2, <1>5 DEF updatePeers, sessionExpired, sessionRestored
<1>6. CASE UNCHANGED vars
  BY <1>2, <1>6 DEF vars
<1> QED BY <1>1, <1>3, <1>4, <1>5, <1>6 DEF Next

\* The rings of all nodes are well formed: updatePeers puts a node's own shard on
\* its ring, and waitToConverge does not end before the first update.
THEOREM RingsAreWellFormed == Spec => []RingInv
<1>1. Init => RingInv
  BY RingInit
<1>2. RingInv /\ [Next]_vars => RingInv'
  BY RingStep
<1> QED BY <1>1, <1>2, PTL DEF Spec

\* If nodes wait for their first update of the list of nodes, each of them loads
\* every partition of which its shard is one of the closest, whatever it knows
\* of the cluster at the time.
THEOREM NeverUnderreplicates ==
  ASSUME Patient
  PROVE  Spec => []ClosestSelect
<1>1. Init => RingInv /\ ClosestSelect
  BY RingInit
<1>2. RingInv /\ ClosestSelect /\ [Next]_vars => RingInv' /\ ClosestSelect'
  BY RingStep, SelectStep
<1> QED BY <1>1, <1>2, PTL DEF Spec

\* Of some shards, one is the closest to a partition.
LEMMA Closest ==
  ASSUME TypeOK, NEW p \in Partitions, NEW T \in SUBSET Shards, T # {}
  PROVE  \E s \in T : \A t \in T : ~(rank[p][t] < rank[p][s])
<1> DEFINE R == {rank[p][s] : s \in T}
<1>1. \A s \in T : rank[p][s] \in Nat
  BY DEF TypeOK, Rankings
<1>2. R \subseteq Nat /\ R # {}
  BY <1>1
<1>3. PICK m \in R : \A k \in R : ~(<<k, m>> \in OpToRel(<, Nat))
  <2> HIDE DEF R
  <2> QED BY <1>2, NatLessThanWellFounded, WFMin, Zenon
<1>4. \A k \in R : ~(k < m)
  BY <1>2, <1>3, Zenon DEF OpToRel
<1> QED BY <1>4

\* GetN finds as many shards as it is asked for, unless there are fewer: those
\* before the closest one it leaves out are among the ones it takes.
LEMMA GetNEnough ==
  ASSUME TypeOK, NEW p \in Partitions, NEW n \in Nat
  PROVE  Cardinality(GetN(p, Shards, n)) >= n \/ GetN(p, Shards, n) = Shards
<1> DEFINE G == GetN(p, Shards, n)
           before(s) == {t \in Shards : rank[p][t] < rank[p][s]}
<1>1. SUFFICES ASSUME G # Shards PROVE Cardinality(G) >= n
  OBVIOUS
<1>2. G \subseteq Shards /\ \A s \in Shards : s \in G <=> Cardinality(before(s)) < n
  BY DEF GetN
<1>3. PICK s \in Shards \ G : \A t \in Shards \ G : ~(rank[p][t] < rank[p][s])
  <2>1. Shards \ G \in SUBSET Shards /\ Shards \ G # {}
    BY <1>1, <1>2
  <2> HIDE DEF G
  <2> QED BY <2>1, Closest, Zenon
<1>4. before(s) \subseteq G
  BY <1>2, <1>3
<1>5. IsFiniteSet(G) /\ IsFiniteSet(before(s))
  <2>1. before(s) \subseteq Shards
    OBVIOUS
  <2> HIDE DEF G, before
  <2> QED BY <1>2, <2>1, ShardingAssumption, FS_Subset
<1>6. Cardinality(before(s)) <= Cardinality(G)
  <2> HIDE DEF G, before
  <2> QED BY <1>4, <1>5, FS_Subset
<1>7. Cardinality(before(s)) \in Nat /\ Cardinality(G) \in Nat
  <2> HIDE DEF G, before
  <2> QED BY <1>5, FS_CardinalityType
<1>8. ~(Cardinality(before(s)) < n)
  <2> HIDE DEF G, before
  <2> QED BY <1>2, <1>3
<1> HIDE DEF G, before
<1> QED BY <1>6, <1>7, <1>8

\* So once a node of every shard has loaded its share, no partition has fewer
\* replicas than sharding.replication, or it has one in every shard.
THEOREM ReplicatesFully ==
  ASSUME Patient
  PROVE  Spec => []FullyReplicated
<1>1. ASSUME RingInv, ClosestSelect PROVE FullyReplicated
  <2> SUFFICES ASSUME \A s \in Shards : \E n \in Nodes : phase[n] = "loaded" /\ shardID[n] = s,
                      NEW p \in Partitions
               PROVE  LET by == {shardID[n] : n \in {m \in Nodes : p \in selected[m]}}
                      IN Cardinality(by) >= replication \/ by = Shards
    BY DEF FullyReplicated
  <2> DEFINE by == {shardID[n] : n \in {m \in Nodes : p \in selected[m]}}
             G == GetN(p, Shards, replication)
  <2>1. by \subseteq Shards
    BY ShardingAssumption
  <2>2. G \subseteq Shards
    BY DEF GetN
  <2>3. G \subseteq by
    BY <1>1, <2>2 DEF ClosestSelect
  <2>4. Cardinality(G) >= replication \/ G = Shards
    BY <1>1, GetNEnough, ShardingAssumption DEF RingInv
  <2> HIDE DEF by, G
  <2>5. IsFiniteSet(by) /\ IsFiniteSet(G)
    BY <2>1, <2>2, ShardingAssumption, FS_Subset
  <2>6. Cardinality(G) <= Cardinality(by)
    BY <2>3, <2>5, FS_Subset
  <2>7. Cardinality(G) \in Nat /\ Cardinality(by) \in Nat
    BY <2>5, FS_CardinalityType
  <2>8. Cardinality(by) >= replication \/ by = Shards
    BY <2>1, <2>3, <2>4, <2>6, <2>7, ShardingAssumption
  <2> QED BY <2>8 DEF by
<1>2. Spec => []RingInv /\ []ClosestSelect
  BY RingsAreWellFormed, NeverUnderreplicates
<1> QED BY <1>1, <1>2, PTL
=============================================================================
