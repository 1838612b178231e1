----------------------------- MODULE BlockStore -----------------------------
(***************************************************************************)
(* The block store of one version (blocks/block_store.go, block_writer.go, *)
(* manifest.go) with what drives it: initBlockStore (version.go) when the  *)
(* process starts, and version.build (build.go), which is tried again      *)
(* after an error.  The process may crash between any two writes.  That    *)
(* addFileKeys takes each key for the same partition at each node is the   *)
(* subject of module AddFile; here home says which.                        *)
(***************************************************************************)
EXTENDS Naturals, FiniteSets

CONSTANTS Keys, Partitions, Files,
          normal, alternate,  \* KeyPartition of each key
          home,               \* the partition addFileKeys takes a key for
          fileOf,             \* the file that a key is in
          MaxFaults           \* bound: errors and crashes

ASSUME StoreAssumption ==
  /\ normal \in [Keys -> Partitions] /\ alternate \in [Keys -> Partitions]
  /\ home \in [Keys -> Partitions] /\ fileOf \in [Keys -> Files]
  /\ \A k \in Keys : home[k] \in {normal[k], alternate[k]}
  /\ MaxFaults \in Nat

VARIABLES onDisk,     \* the block files in the version's directory
          content,    \* the keys that were written to each of them
          manifest,   \* .manifest: none, torn (created, not written), or ok
          pc,         \* the process is down, idle, or somewhere in build
          selected, local,  \* of partitions: chosen, and claimed to be here
          needed,     \* what the build loads
          todo,       \* files it has still to read
          newBlocks, Blocks,
          saved,      \* of newBlocks, those that Save has put into Blocks
          built, attempt, faults,
          halfSaved   \* history: Save failed with some blocks saved

storeVars == <<newBlocks, Blocks, saved>>
diskVars == <<onDisk, content, manifest>>
buildVars == <<needed, todo, built, attempt>>
vars == <<diskVars, pc, selected, local, buildVars, storeVars, faults, halfSaved>>

\* A block is named after its partition and a uuid, here the number of the build.
Blk == Partitions \X (1..(MaxFaults + 1))
NoManifest == [state |-> "none", blocks |-> {}, selected |-> {}]

Init ==
  /\ onDisk = {} /\ content = [i \in Blk |-> {}] /\ manifest = NoManifest
  /\ pc = "down" /\ selected = {} /\ local = {} /\ needed = {} /\ todo = {}
  /\ newBlocks = {} /\ Blocks = {} /\ saved = {}
  /\ built = FALSE /\ attempt = 0 /\ faults = 0 /\ halfSaved = FALSE

Fault == faults < MaxFaults /\ faults' = faults + 1

-----------------------------------------------------------------------------
(* Opening and closing. *)

\* NewFromManifest: the manifest can be read (a torn one is no JSON), and every
\* block of it opened.
readManifest == manifest.state = "ok"
loadBlock(i) == i \in onDisk
Loads == readManifest /\ \A i \in manifest.blocks : loadBlock(i)

\* Mutant: a store that loads is taken for one of the partitions chosen now.
startClaiming(sel) ==
  /\ pc = "down" /\ pc' = "idle" /\ selected' = sel
  /\ Blocks' = (IF Loads THEN manifest.blocks ELSE {})
  /\ local' = (IF Loads THEN sel ELSE {})
  /\ UNCHANGED <<diskVars, buildVars, newBlocks, saved, faults, halfSaved>>

\* initBlockStore, after the peers of the moment decided on the partitions.
start(sel) ==
  /\ pc = "down" /\ pc' = "idle" /\ selected' = sel
  /\ Blocks' = (IF Loads THEN manifest.blocks ELSE {})
  /\ local' = (IF Loads THEN manifest.selected ELSE {})
  /\ UNCHANGED <<diskVars, buildVars, newBlocks, saved, faults, halfSaved>>

Lost ==
  /\ pc' = "down" /\ selected' = {} /\ local' = {} /\ needed' = {} /\ todo' = {}
  /\ newBlocks' = {} /\ Blocks' = {} /\ saved' = {} /\ built' = FALSE

crash ==
  /\ pc # "down" /\ Fault /\ Lost
  /\ UNCHANGED <<diskVars, attempt, halfSaved>>

\* Mutant: the manifest outlives the blocks.
deleteBlocks ==
  /\ pc = "idle" /\ Fault /\ Lost
  /\ onDisk' = {} /\ UNCHANGED manifest
  /\ UNCHANGED <<content, attempt, halfSaved>>

\* version.close and delete, once no build works on the store.
delete ==
  /\ pc = "idle" /\ Fault /\ Lost
  /\ onDisk' = {} /\ manifest' = NoManifest
  /\ UNCHANGED <<content, attempt, halfSaved>>

-----------------------------------------------------------------------------
(* version.build. *)

build ==
  /\ pc = "idle" /\ ~built
  /\ IF selected \subseteq local
     THEN built' = TRUE /\ UNCHANGED <<pc, needed, todo, attempt>>
     ELSE /\ needed' = selected \ local /\ todo' = Files /\ pc' = "add"
          /\ attempt' = attempt + 1 /\ UNCHANGED built
  /\ UNCHANGED <<diskVars, selected, local, storeVars, faults, halfSaved>>

\* Add, for each of some keys.
Add(ks) ==
  LET new(k) == <<normal[k], attempt>>
  IN /\ newBlocks' = newBlocks \cup {new(k) : k \in ks}
     /\ onDisk' = onDisk \cup {new(k) : k \in ks}
     /\ content' = [i \in Blk |-> content[i] \cup {k \in ks : new(k) = i}]

Wanted(f) == {k \in Keys : fileOf[k] = f /\ home[k] \in needed}

\* Mutant: a file that cannot be read to its end is left at that.
addFileLenient(f) ==
  /\ pc = "add" /\ f \in todo /\ todo' = todo \ {f}
  /\ \/ Add(Wanted(f)) /\ UNCHANGED faults
     \/ Fault /\ \E ks \in SUBSET Wanted(f) : Add(ks)
  /\ UNCHANGED <<manifest, pc, selected, local, needed, built, attempt, Blocks, saved, halfSaved>>

\* A file is added, or an error or a cancel ends the build, with some of its
\* keys added.
addFile(f) ==
  /\ pc = "add" /\ f \in todo
  /\ \/ Add(Wanted(f)) /\ todo' = todo \ {f} /\ UNCHANGED <<pc, faults>>
     \/ Fault /\ pc' = "revert" /\ UNCHANGED todo /\ \E ks \in SUBSET Wanted(f) : Add(ks)
  /\ UNCHANGED <<manifest, selected, local, needed, built, attempt, Blocks, saved, halfSaved>>

\* Save: one block after the other, then the manifest.
saveBlock(i) ==
  /\ pc = "add" /\ todo = {} /\ i \in newBlocks \ saved
  /\ \/ /\ Blocks' = Blocks \cup {i} /\ saved' = saved \cup {i}
        /\ UNCHANGED <<pc, faults, halfSaved>>
     \/ /\ Fault /\ pc' = "revert" /\ UNCHANGED <<Blocks, saved>>
        /\ IF saved = {} THEN UNCHANGED halfSaved ELSE halfSaved' = TRUE
  /\ UNCHANGED <<diskVars, selected, local, buildVars, newBlocks>>

\* os.Create truncates the manifest, or fails.
createManifest ==
  /\ pc = "add" /\ todo = {} /\ saved = newBlocks
  /\ newBlocks' = {} /\ saved' = {}
  /\ \/ manifest' = [NoManifest EXCEPT !.state = "torn"] /\ pc' = "write" /\ UNCHANGED faults
     \/ Fault /\ pc' = "revert" /\ UNCHANGED manifest
  /\ UNCHANGED <<onDisk, content, selected, local, buildVars, Blocks, halfSaved>>

\* Mutant: the manifest claims every partition.
writeManifestAll ==
  /\ pc = "write"
  /\ \/ /\ manifest' = [state |-> "ok", blocks |-> Blocks, selected |-> Partitions]
        /\ local' = local \cup needed /\ built' = TRUE /\ pc' = "idle" /\ UNCHANGED faults
     \/ Fault /\ pc' = "revert" /\ UNCHANGED <<manifest, local, built>>
  /\ UNCHANGED <<onDisk, content, selected, needed, todo, attempt, storeVars, halfSaved>>

\* The manifest is written, and updateLocalPartitions called, or the write fails.
writeManifest ==
  /\ pc = "write"
  /\ \/ /\ manifest' = [state |-> "ok", blocks |-> Blocks, selected |-> selected]
        /\ local' = local \cup needed /\ built' = TRUE /\ pc' = "idle" /\ UNCHANGED faults
     \/ Fault /\ pc' = "revert" /\ UNCHANGED <<manifest, local, built>>
  /\ UNCHANGED <<onDisk, content, selected, needed, todo, attempt, storeVars, halfSaved>>

\* Mutant: the build is not left after an error.
RevertStuck ==
  /\ pc = "revert"
  /\ onDisk' = onDisk \ newBlocks /\ newBlocks' = {} /\ saved' = {}
  /\ UNCHANGED <<content, manifest, pc, selected, local, buildVars, Blocks, faults, halfSaved>>

\* Revert deletes the files of newBlocks, those that Save put into Blocks included.
Revert ==
  /\ pc = "revert" /\ pc' = "idle"
  /\ onDisk' = onDisk \ newBlocks /\ newBlocks' = {} /\ saved' = {}
  /\ UNCHANGED <<content, manifest, selected, local, buildVars, Blocks, faults, halfSaved>>

Next ==
  \/ crash \/ delete \/ build \/ createManifest \/ writeManifest \/ Revert
  \/ \E sel \in SUBSET Partitions : start(sel)
  \/ \E f \in Files : addFile(f)
  \/ \E i \in Blk : saveBlock(i)
Spec == Init /\ [][Next]_vars

\* The process is restarted, a build goes on, and is tried again by refresh.
FairSpec == Spec /\ WF_vars(Next)

-----------------------------------------------------------------------------
(* Properties. *)

\* Get, for a key of the version's files: the blocks of both its partitions are
\* looked through.
Get(k) ==
  LET of(p) == {i \in Blocks : i[1] = p}
      here == of(normal[k]) \cup of(alternate[k])
  IN CASE here = {} -> "ErrPartitionNotFound"
       [] \E i \in here : k \in content[i] -> "found"
       [] OTHER -> "nil"

TypeOK ==
  /\ onDisk \subseteq Blk /\ content \in [Blk -> SUBSET Keys]
  /\ manifest \in [state : {"none", "torn", "ok"}, blocks : SUBSET Blk, selected : SUBSET Partitions]
  /\ pc \in {"down", "idle", "add", "write", "revert"}
  /\ selected \subseteq Partitions /\ local \subseteq Partitions /\ needed \subseteq Partitions
  /\ todo \subseteq Files
  /\ newBlocks \subseteq Blk /\ Blocks \subseteq Blk /\ saved \subseteq newBlocks
  /\ attempt \in 0..(MaxFaults + 1) /\ faults \in 0..MaxFaults

\* Get finds every key of every partition that the node claims, whatever builds
\* failed, at which write, before the one that succeeded or the last restart.
ClaimedComplete == \A k \in Keys : home[k] \in local => Get(k) = "found"

\* A manifest that loads names blocks with every key of the partitions it claims:
\* whenever the process dies, the next one claims only what it has.
RestartSafe ==
  Loads => \A k \in Keys : home[k] \in manifest.selected =>
             \E i \in manifest.blocks : i[1] \in {normal[k], alternate[k]} /\ k \in content[i]

\* No file of a written manifest is deleted, so that the work is not lost with the
\* next restart, unless some Save failed between two blocks: "Revert removes any
\* unflushed blocks", and then also some that a later manifest names.
ManifestLoads == manifest.state = "ok" /\ ~halfSaved => Loads

\* The inductive invariant behind them.  DataInv: the blocks of a claim hold its
\* keys, new blocks what the build needs of the files it has read, and Blocks what
\* it needs when the manifest is to be written.
Held(k, bs) == \E i \in bs : i[1] = normal[k] /\ k \in content[i]
HoldsAll(ps, bs) == \A k \in Keys : home[k] \in ps => Held(k, bs)
DataInv ==
  /\ HoldsAll(local, Blocks) /\ HoldsAll(manifest.selected, manifest.blocks)
  /\ pc = "add" => \A k \in Keys : home[k] \in needed /\ fileOf[k] \notin todo => Held(k, newBlocks)
  /\ pc = "write" => HoldsAll(needed, Blocks)
  /\ pc \in {"add", "write"} => selected \subseteq local \cup needed

\* Each build but one has cost a fault.  New blocks are of the build's number, what
\* a manifest names is older, and of Blocks only what Save has put there is new.
CountInv ==
  /\ attempt <= faults + (IF pc \in {"add", "write"} \/ built THEN 1 ELSE 0)
  /\ pc \in {"add", "write", "revert"} => ~built /\ attempt > 0
  /\ \A i \in newBlocks : i[2] = attempt
  /\ \A i \in Blocks \cup manifest.blocks : i[2] <= attempt
  /\ pc = "add" => \A i \in (Blocks \ saved) \cup manifest.blocks : i[2] < attempt

\* What is deleted by Revert is new, and not in Blocks unless Save was cut short.
FileInv ==
  /\ pc \notin {"add", "revert"} => newBlocks = {}
  /\ newBlocks \cap Blocks = saved /\ newBlocks \subseteq onDisk
  /\ pc = "revert" => newBlocks \cap manifest.blocks = {} /\ (saved # {} => halfSaved)
  /\ pc = "add" /\ todo # {} => saved = {}
  /\ ~halfSaved => Blocks \subseteq onDisk /\ manifest.blocks \subseteq onDisk

StoreInv == TypeOK /\ DataInv /\ CountInv /\ FileInv

\* The node's share of the version is built in the end, whatever was left on disk.
BuiltInTheEnd == <>[](built /\ selected \subseteq local)
=============================================================================
