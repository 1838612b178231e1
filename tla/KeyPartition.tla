---------------------------- MODULE KeyPartition ----------------------------
(***************************************************************************)
(* hashCode and KeyPartition (blocks/hashcode.go): the partition of a key, *)
(* and the second one a pathological key may be found in.  The int32       *)
(* arithmetic is done in -Half..Half-1, with Half = 2^31 in the code.      *)
(***************************************************************************)
EXTENDS Integers, Sequences

CONSTANT Half

ASSUME HalfAssumption == Half \in Nat /\ Half > 255

\* Conversion to int32, and & math.MaxInt32.
int32(x) == ((x + Half) % (2 * Half)) - Half
positive(hc) == hc % Half

\* Mutant: the sum saturates instead of wrapping around.
hashCodeSaturated(b) ==
  LET v[i \in 0..Len(b)] ==
        IF i = 0 THEN 0
        ELSE IF v[i - 1] * 31 + b[i] >= Half THEN Half - 1 ELSE v[i - 1] * 31 + b[i]
  IN v[Len(b)]

\* v after each byte of a key, wrapping around at each of them.
hashCode(b) ==
  LET v[i \in 0..Len(b)] == IF i = 0 THEN 0 ELSE int32(int32(v[i - 1] * 31) + b[i])
  IN v[Len(b)]

alternatePathologicalKeyPartition(hc, total) ==
  IF hc > Half - 1 - 32
  THEN LET tupleHC == positive(int32(hc + 31)) % total
           rotate == total - (31 % total)
       IN (tupleHC + rotate) % total
  ELSE -1

\* KeyPartition(key, total).
partitionsOf(key, total) ==
  LET normal == positive(hashCode(key)) % total
      alternate == alternatePathologicalKeyPartition(hashCode(key), total)
  IN [normal |-> normal, alternate |-> IF alternate = -1 THEN normal ELSE alternate]

-----------------------------------------------------------------------------
(* What the files are made by: java.lang.String#hashCode, a polynomial, and  *)
(* the reducer to which hadoop, or cascading with its tuples, sends a key.   *)

String_hashCode(s) ==
  LET sum[i \in 0..Len(s)] ==
        IF i = 0 THEN 0 ELSE s[i] * 31^(Len(s) - i) + sum[i - 1]
  IN int32(sum[Len(s)])

Reducer(partitioner, key, total) ==
  CASE partitioner = "hadoop" -> positive(String_hashCode(key)) % total
    [] partitioner = "cascading" -> positive(int32(String_hashCode(key) + 31)) % total
=============================================================================
