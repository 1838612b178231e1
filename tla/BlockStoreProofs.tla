-------------------------- MODULE BlockStoreProofs --------------------------
(***************************************************************************)
(* Proofs about BlockStore, for any keys, partitions and files and any     *)
(* number of faults: StoreInv is inductive, and the promises of Get and of *)
(* the manifest follow from it.                                            *)
(***************************************************************************)
EXTENDS BlockStore, TLAPS

\* The store is empty when the first process starts.
LEMMA InitInv == Init => StoreInv
<1> SUFFICES ASSUME Init PROVE StoreInv
  OBVIOUS
<1>1. TypeOK
  BY StoreAssumption DEF Init, TypeOK, NoManifest, Blk
<1>2. DataInv
  BY DEF Init, DataInv, HoldsAll, NoManifest
<1>3. CountInv
  BY DEF Init, CountInv, NoManifest
<1>4. FileInv
  BY DEF Init, FileInv, NoManifest
<1>5. QED
  BY <1>1, <1>2, <1>3, <1>4 DEF StoreInv

\* initBlockStore claims what the manifest claims, of blocks that are there.
LEMMA StartInv ==
  ASSUME StoreInv, NEW sel \in SUBSET Partitions, start(sel)
  PROVE StoreInv'
<1> USE DEF StoreInv, start, diskVars, buildVars
<1>1. TypeOK'
  BY DEF TypeOK, Blk
<1>2. DataInv'
  BY DEF DataInv, HoldsAll, Held
<1>3. CountInv'
  BY DEF CountInv
<1>4. FileInv'
  BY DEF FileInv, Loads, readManifest, loadBlock, TypeOK
<1>5. QED
  BY <1>1, <1>2, <1>3, <1>4

\* A crash leaves the disk as it is, and a deletion leaves it empty.
LEMMA LostInv ==
  ASSUME StoreInv, crash \/ delete
  PROVE StoreInv'
<1> USE DEF StoreInv, crash, delete, Lost, Fault, diskVars
<1>1. TypeOK'
  BY StoreAssumption DEF TypeOK, NoManifest, Blk
<1>2. DataInv'
  BY DEF DataInv, HoldsAll, Held, NoManifest
<1>3. CountInv'
  BY StoreAssumption DEF CountInv, TypeOK, NoManifest, Blk
<1>4. FileInv'
  BY DEF FileInv, NoManifest
<1>5. QED
  BY <1>1, <1>2, <1>3, <1>4

\* A build that starts has a number no block has.
LEMMA BuildInv ==
  ASSUME StoreInv, build
  PROVE StoreInv'
<1> USE DEF StoreInv, build, diskVars, storeVars
<1>1. attempt \in Nat /\ faults \in 0..MaxFaults /\ MaxFaults \in Nat
  BY StoreAssumption DEF TypeOK
<1>2. attempt' <= MaxFaults + 1
  BY <1>1, StoreAssumption DEF CountInv, TypeOK
<1>3. TypeOK'
  BY <1>1, <1>2 DEF TypeOK
<1>4. DataInv'
  BY StoreAssumption DEF DataInv, HoldsAll, Held, TypeOK
<1>5. CountInv'
  <2>1. \A i \in Blocks \cup manifest.blocks : i[2] \in Nat
    BY DEF TypeOK, Blk
  <2>2. QED
    BY <1>1, <2>1 DEF CountInv, FileInv
<1>6. FileInv'
  BY DEF FileInv
<1>7. QED
  BY <1>3, <1>4, <1>5, <1>6

\* The manifest is created when all new blocks are in Blocks.
LEMMA CreateInv ==
  ASSUME StoreInv, createManifest
  PROVE StoreInv'
<1> USE DEF StoreInv, createManifest, Fault, buildVars
<1>1. TypeOK'
  BY StoreAssumption DEF TypeOK, NoManifest, Blk
<1>2. DataInv'
  BY StoreAssumption DEF DataInv, HoldsAll, Held, NoManifest, FileInv
<1>3. CountInv'
  BY StoreAssumption DEF CountInv, NoManifest, TypeOK
<1>4. FileInv'
  BY DEF FileInv, NoManifest
<1>5. QED
  BY <1>1, <1>2, <1>3, <1>4

\* The manifest is written from Blocks, which hold what is selected.
LEMMA WriteInv ==
  ASSUME StoreInv, writeManifest
  PROVE StoreInv'
<1> USE DEF StoreInv, writeManifest, Fault, storeVars
<1>1. TypeOK'
  BY StoreAssumption DEF TypeOK
<1>2. DataInv'
  BY DEF DataInv, HoldsAll, Held
<1>3. CountInv'
  BY StoreAssumption DEF CountInv, TypeOK
<1>4. FileInv'
  BY DEF FileInv
<1>5. QED
  BY <1>1, <1>2, <1>3, <1>4

\* Revert deletes new blocks only.
LEMMA RevertInv ==
  ASSUME StoreInv, Revert
  PROVE StoreInv'
<1> USE DEF StoreInv, Revert, buildVars
<1>1. TypeOK'
  BY DEF TypeOK
<1>2. DataInv'
  BY DEF DataInv, HoldsAll, Held
<1>3. CountInv'
  BY DEF CountInv
<1>4. FileInv'
  BY DEF FileInv
<1>5. QED
  BY <1>1, <1>2, <1>3, <1>4

\* Save moves one new block into Blocks, or fails.
LEMMA SaveInv ==
  ASSUME StoreInv, NEW i \in Blk, saveBlock(i)
  PROVE StoreInv'
<1> USE DEF StoreInv, saveBlock, Fault, diskVars, buildVars
<1>1. TypeOK'
  BY StoreAssumption DEF TypeOK
<1>2. DataInv'
  BY DEF DataInv, HoldsAll, Held
<1>3. CountInv'
  BY StoreAssumption DEF CountInv, TypeOK
<1>4. FileInv'
  <2>1. newBlocks \cap manifest.blocks = {}
    BY StoreAssumption DEF CountInv, TypeOK
  <2>2. QED
    BY <2>1 DEF FileInv
<1>5. QED
  BY <1>1, <1>2, <1>3, <1>4

\* What Add does for some of the wanted keys of a file: the new blocks are of the
\* build's number, they keep what they have, and they get these keys.
LEMMA AddFacts ==
  ASSUME StoreInv, pc = "add", NEW ks \in SUBSET Keys, Add(ks)
  PROVE  /\ newBlocks' \subseteq Blk /\ onDisk' \subseteq Blk
         /\ content' \in [Blk -> SUBSET Keys]
         /\ newBlocks \subseteq newBlocks' /\ onDisk \subseteq onDisk'
         /\ newBlocks' \subseteq onDisk' 
         /\ \A i \in newBlocks' \ newBlocks : i[2] = attempt
         /\ \A i \in Blk : content[i] \subseteq content'[i]
         /\ \A k \in ks : \E i \in newBlocks' : i[1] = normal[k] /\ k \in content'[i]
<1>1. attempt \in 1..(MaxFaults + 1)
  BY StoreAssumption DEF StoreInv, CountInv, TypeOK
<1>2. \A k \in ks : <<normal[k], attempt>> \in Blk
  BY <1>1, StoreAssumption DEF Blk
<1> DEFINE new(k) == <<normal[k], attempt>>
<1>3. /\ newBlocks' = newBlocks \cup {new(k) : k \in ks}
      /\ onDisk' = onDisk \cup {new(k) : k \in ks}
      /\ content' = [i \in Blk |-> content[i] \cup {k \in ks : new(k) = i}]
  BY DEF Add
<1>4. \A k \in ks : new(k) \in Blk /\ new(k)[1] = normal[k] /\ new(k)[2] = attempt
  BY <1>2
<1> HIDE DEF new
<1>5. content' \in [Blk -> SUBSET Keys]
  BY <1>3 DEF StoreInv, TypeOK
<1>6. \A i \in Blk : content[i] \subseteq content'[i]
  BY <1>3
<1>7. \A k \in ks : \E i \in newBlocks' : i[1] = normal[k] /\ k \in content'[i]
  BY <1>3, <1>4
<1>8. QED
  BY <1>3, <1>4, <1>5, <1>6, <1>7 DEF StoreInv, TypeOK, FileInv

\* A file's wanted keys are in new blocks once it was read.
LEMMA AddInv ==
  ASSUME StoreInv, NEW f \in Files, addFile(f)
  PROVE StoreInv'
<1>1. PICK ks \in SUBSET Wanted(f) :
        /\ Add(ks)
        /\ \/ ks = Wanted(f) /\ todo' = todo \ {f} /\ pc' = pc /\ faults' = faults
           \/ Fault /\ pc' = "revert" /\ todo' = todo
  BY DEF addFile
<1>2. ks \in SUBSET Keys /\ pc = "add" /\ todo # {} /\ saved = {}
  BY <1>1 DEF addFile, Wanted, StoreInv, FileInv
<1>3. /\ newBlocks' \subseteq Blk /\ onDisk' \subseteq Blk
      /\ content' \in [Blk -> SUBSET Keys]
      /\ newBlocks \subseteq newBlocks' /\ onDisk \subseteq onDisk'
      /\ newBlocks' \subseteq onDisk' 
      /\ \A i \in newBlocks' \ newBlocks : i[2] = attempt
      /\ \A i \in Blk : content[i] \subseteq content'[i]
      /\ \A k \in ks : \E i \in newBlocks' : i[1] = normal[k] /\ k \in content'[i]
  BY <1>1, <1>2, AddFacts
<1>4. UNCHANGED <<manifest, selected, local, needed, built, attempt, Blocks, saved, halfSaved>>
  BY DEF addFile
<1>5. TypeOK'
  BY <1>1, <1>2, <1>3, <1>4, StoreAssumption DEF StoreInv, TypeOK, Fault
<1>6. DataInv'
  <2>1. \A k \in Keys, bs \in SUBSET Blk : Held(k, bs) => Held(k, bs)'
    BY <1>3 DEF Held
  <2>2. ASSUME pc' = "add", NEW k \in Keys, home[k] \in needed', fileOf[k] \notin todo'
        PROVE  Held(k, newBlocks)'
    <3>1. CASE fileOf[k] = f
      BY <1>1, <1>3, <1>4, <2>2, <3>1 DEF Wanted, Held
    <3>2. CASE fileOf[k] # f
      BY <1>1, <1>2, <1>3, <1>4, <2>2, <3>2 DEF StoreInv, DataInv, TypeOK, Held
    <3>3. QED
      BY <3>1, <3>2
  <2>3. HoldsAll(local, Blocks)' /\ HoldsAll(manifest.selected, manifest.blocks)'
    BY <1>3, <1>4 DEF StoreInv, DataInv, TypeOK, HoldsAll, Held
  <2>4. QED
    BY <1>1, <1>2, <1>4, <2>2, <2>3 DEF StoreInv, DataInv
<1>7. CountInv'
  BY <1>1, <1>2, <1>3, <1>4, StoreAssumption DEF StoreInv, CountInv, TypeOK, Fault
<1>8. FileInv'
  <2>1. newBlocks' \cap Blocks = {} /\ newBlocks' \cap manifest.blocks = {}
    BY <1>2, <1>3, StoreAssumption DEF StoreInv, CountInv, FileInv, TypeOK
  <2>2. QED
    BY <1>1, <1>2, <1>3, <1>4, <2>1 DEF StoreInv, FileInv
<1>9. QED
  BY <1>5, <1>6, <1>7, <1>8 DEF StoreInv

-----------------------------------------------------------------------------
\* StoreInv always holds, through errors, retries, crashes and restarts with any
\* choice of partitions.
THEOREM StoreSafe == Spec => []StoreInv
<1>1. StoreInv /\ [Next]_vars => StoreInv'
  <2> SUFFICES ASSUME StoreInv, [Next]_vars PROVE StoreInv'
    OBVIOUS
  <2>1. CASE UNCHANGED vars
    BY <2>1, SMTT(30)
       DEF vars, diskVars, buildVars, storeVars, StoreInv, TypeOK, DataInv, CountInv, FileInv,
           HoldsAll, Held
  <2>2. CASE Next
    BY <2>2, StartInv, LostInv, BuildInv, CreateInv, WriteInv, RevertInv, SaveInv, AddInv DEF Next
  <2>3. QED
    BY <2>1, <2>2
<1>2. QED
  BY <1>1, InitInv, PTL DEF Spec

\* Get finds every key of every partition that the node claims.
THEOREM ClaimsAreComplete == Spec => []ClaimedComplete
<1>1. StoreInv => ClaimedComplete
  BY DEF StoreInv, DataInv, HoldsAll, Held, ClaimedComplete, Get
<1>2. QED
  BY <1>1, StoreSafe, PTL

\* A manifest that loads claims only what its blocks hold.
THEOREM RestartsAreSafe == Spec => []RestartSafe
<1>1. StoreInv => RestartSafe
  BY DEF StoreInv, DataInv, HoldsAll, Held, RestartSafe
<1>2. QED
  BY <1>1, StoreSafe, PTL

\* The blocks of a manifest stay on disk unless a Save was cut short.
THEOREM ManifestsLoad == Spec => []ManifestLoads
<1>1. StoreInv => ManifestLoads
  BY DEF StoreInv, FileInv, ManifestLoads, Loads, readManifest, loadBlock
<1>2. QED
  BY <1>1, StoreSafe, PTL
=============================================================================
