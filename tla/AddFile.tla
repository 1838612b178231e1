------------------------------ MODULE AddFile ------------------------------
(***************************************************************************)
(* version.addFileKeys (build.go): the nodes that load a version each read *)
(* the same file, keep the keys of the partitions they need, and skip the  *)
(* rest of a file that seems to hold only keys of one other partition.     *)
(* The file is a reducer's output, of hadoop or of cascading.  It is read  *)
(* in lockstep: what a node does with a key depends on the keys before it  *)
(* alone.                                                                  *)
(***************************************************************************)
EXTENDS KeyPartition, FiniteSets

CONSTANTS Nodes,
          Bytes, MaxLen,   \* bounds: bytes and length of keys
          Totals,          \* bound: numbers of partitions
          Threshold,       \* 5000 in the code
          MaxKeys          \* bound: keys in the file

ASSUME AddFileAssumption ==
  /\ IsFiniteSet(Nodes) /\ Bytes \subseteq 0..255 /\ Totals \subseteq Nat \ {0}
  /\ {MaxLen, Threshold, MaxKeys} \subseteq Nat

VARIABLES numPartitions,
          file,        \* the partitioner, and the reducer that wrote the file
          keys,        \* number of keys read
          odd,         \* how many of them have not the partition of most
          below,       \* one had a hash within 31 below zero
          needed,      \* partitions.needed() of each node
          reader,      \* the call of addFileKeys at each node
          last         \* the last key read, and the nodes that stored it

vars == <<numPartitions, file, keys, odd, below, needed, reader, last>>

NoPartition == -1
Strings == UNION {[1..n -> Bytes] : n \in 1..MaxLen}
Partitions == 0..(numPartitions - 1)
Partitioners == {"hadoop", "cascading"}

\* What is to be known of the keys of each file: their partitions, and whether
\* their hash is within 31 below zero.
KeysOf ==
  [t \in Totals |-> [p \in Partitioners |-> [r \in 0..(t - 1) |->
    {[at |-> partitionsOf(s, t), below |-> String_hashCode(s) \in -31..-1] :
       s \in {s \in Strings : Reducer(p, s, t) = r}}]]]

\* The partition of most of the file's keys.
Usual == (IF file.by = "hadoop" THEN file.reducer ELSE file.reducer - 31) % numPartitions

Start == [at |-> "scan", canAssumePartition |-> TRUE, assumedPartition |-> NoPartition,
          assumedFor |-> 0]

Init ==
  /\ numPartitions \in Totals
  /\ file \in [by : Partitioners, reducer : Partitions]
  /\ keys = 0 /\ odd = 0 /\ below = FALSE
  /\ needed \in {f \in [Nodes -> SUBSET Partitions] :
                   UNION {f[n] : n \in Nodes} = Partitions}
  /\ reader = [n \in Nodes |-> Start]
  /\ last = [key |-> [normal |-> 0, alternate |-> 0], at |-> {}]

\* Mutant: a pathological key in its alternate partition's file is taken for a
\* key of its normal one, though the assumption stays.
assumePlain(r, k) ==
  IF ~r.canAssumePartition THEN [r |-> r, partition |-> k.normal]
  ELSE IF r.assumedPartition = NoPartition
  THEN [r |-> [r EXCEPT !.assumedPartition = k.normal], partition |-> k.normal]
  ELSE IF k.normal = r.assumedPartition
  THEN [r |-> [r EXCEPT !.assumedFor = @ + 1], partition |-> k.normal]
  ELSE IF k.alternate = r.assumedPartition
  THEN [r |-> r, partition |-> k.normal]
  ELSE [r |-> [r EXCEPT !.canAssumePartition = FALSE], partition |-> k.normal]

\* The assumption after a key, and the partition the key is taken for.
assume(r, k) ==
  IF ~r.canAssumePartition THEN [r |-> r, partition |-> k.normal]
  ELSE IF r.assumedPartition = NoPartition
  THEN [r |-> [r EXCEPT !.assumedPartition = k.normal], partition |-> k.normal]
  ELSE IF k.normal = r.assumedPartition
  THEN [r |-> [r EXCEPT !.assumedFor = @ + 1], partition |-> k.normal]
  ELSE IF k.alternate = r.assumedPartition
  THEN [r |-> r, partition |-> k.alternate]
  ELSE [r |-> [r EXCEPT !.canAssumePartition = FALSE], partition |-> k.normal]

\* One iteration of the loop at a node.
scan(n, k) ==
  LET a == assume(reader[n], k)
      wanted == a.partition \in needed[n]
      skip == a.r.canAssumePartition /\ a.r.assumedFor > Threshold
  IN [r |-> IF ~wanted /\ skip THEN [a.r EXCEPT !.at = "skipped"] ELSE a.r,
      stored |-> wanted]

\* The nodes read the next key of the file.  Hashes near the ends of their range
\* are rare: no more than Threshold keys have another partition than most.
addFileKeys ==
  /\ keys < MaxKeys
  /\ \E k \in KeysOf[numPartitions][file.by][file.reducer] :
       /\ k.at.normal # Usual => odd < Threshold
       /\ odd' = IF k.at.normal # Usual THEN odd + 1 ELSE odd
       /\ below' = (below \/ k.below)
       /\ reader' = [n \in Nodes |->
                       IF reader[n].at = "scan" THEN scan(n, k.at).r ELSE reader[n]]
       /\ last' = [key |-> k.at,
                   at |-> {n \in Nodes : reader[n].at = "scan" /\ scan(n, k.at).stored}]
  /\ keys' = keys + 1
  /\ UNCHANGED <<numPartitions, file, needed>>

\* A record that cannot be read or stored ends the call with an error.
addFileError(n) ==
  /\ reader[n].at = "scan"
  /\ reader' = [reader EXCEPT ![n].at = "error"]
  /\ UNCHANGED <<numPartitions, file, keys, odd, below, needed, last>>

Next == addFileKeys \/ \E n \in Nodes : addFileError(n)
Spec == Init /\ [][Next]_vars

-----------------------------------------------------------------------------
(* Properties. *)

TypeOK ==
  /\ file \in [by : Partitioners, reducer : Partitions]
  /\ keys \in 0..MaxKeys /\ odd \in 0..Threshold /\ below \in BOOLEAN
  /\ needed \in [Nodes -> SUBSET Partitions]
  /\ reader \in [Nodes ->
       [at : {"scan", "skipped", "error"}, canAssumePartition : BOOLEAN,
        assumedPartition : Partitions \cup {NoPartition}, assumedFor : 0..MaxKeys]]
  /\ last \in [key : [normal : Partitions, alternate : Partitions],
               at : SUBSET Nodes]

\* A reducer's file is recognised ("it's safe to assume that this file only
\* contains that partition"): a node that has assumed the partition of most of its
\* keys gives that up only for a key whose hash is within 31 below zero.  And both
\* partitions of a key are partitions of the version, whatever its hash.
FileRecognised ==
  \A n \in Nodes :
    reader[n].assumedPartition = Usual /\ ~below => reader[n].canAssumePartition
FileInv == TypeOK /\ FileRecognised

\* The key read last is stored by all of the nodes that need one of its two
\* partitions, the same one for all, and by no other.  Nodes whose call failed
\* revert the file, and do not count.
Home ==
  \E p \in {last.key.normal, last.key.alternate} :
    \A n \in Nodes : reader[n].at # "error" => (n \in last.at <=> p \in needed[n])

\* The skipping of files loses no key of a reducer's file, and the nodes agree on
\* where it is, as long as no key has a hash within 31 below zero.
KeyHasHome == keys > 0 /\ ~below => Home
=============================================================================
