------------------------------- MODULE Build -------------------------------
(***************************************************************************)
(* The life of the versions of one db on the local disk: newVersion and    *)
(* switchVersion, version.build with its three locks, version.close and    *)
(* delete, and cleanupStore.  Which version becomes current, and when      *)
(* mux.remove returns, is the subject of module DB; here both happen at    *)
(* any moment the code allows.  The state that setState keeps for the      *)
(* status page is left out: no other code reads it.                        *)
(***************************************************************************)
EXTENDS Naturals, FiniteSets

CONSTANTS Versions,      \* version names, numbers in their order
          MaxLoads,      \* slots of the global multilock; 0: there is none
          MaxBuilds,     \* bound: goroutines queued on a version's buildLock
          Leftovers      \* what an earlier process may have left of a version

ASSUME BuildAssumption ==
  /\ Versions \subseteq Nat \ {0} /\ IsFiniteSet(Versions)
  /\ MaxLoads \in Nat /\ MaxBuilds \in Nat \ {0}
  /\ Leftovers \subseteq {"none", "empty", "junk", "saved"}

VARIABLES disk,      \* each version's directory: none, empty, junk (blocks without
                     \* a manifest) or saved
          mux,       \* keys of mux.versions
          current,   \* name of the current version, or 0
          obj,       \* the version objects
          build,     \* where the holder of a version's buildLock is
          others,    \* slots of the multilock that other dbs hold
          sw,        \* the holder of refreshLock
          missed,    \* history: on disk, but backfillVersions did not open them
          removals,  \* goroutines of removeVersion not yet in cleanupLock
          cleaner    \* the holder of cleanupLock

vars == <<disk, mux, current, obj, build, others, sw, missed, removals, cleaner>>

NoObject == [made |-> FALSE,
             local |-> FALSE,      \* its partitions are in partitions.local
             built |-> FALSE, queued |-> 0,
             waiting |-> FALSE,    \* switchVersion's goroutine waits for ready
             cancelled |-> FALSE,  \* cancel is closed
             closing |-> FALSE,    \* the goroutine of close waits for buildLock
             closed |-> FALSE,     \* the block store is closed
             advertised |-> FALSE] \* partitions.shouldAdvertise

Free == [pc |-> "free", version |-> 0, todo |-> {}]
Idle == [pc |-> "free", version |-> 0, todo |-> {}, backfill |-> FALSE]

\* The directories are what an earlier process left, crashed or not;
\* backfillVersions looks at the last three versions that upstream lists.
Init ==
  /\ disk \in [Versions -> Leftovers]
  /\ mux = {} /\ current = 0 /\ removals = {} /\ others = 0
  /\ obj = [v \in Versions |-> NoObject]
  /\ build = [v \in Versions |-> "none"]
  /\ \E backend \in SUBSET Versions :
       sw = [pc |-> "backfill", version |-> 0, backfill |-> TRUE,
             todo |-> {v \in backend : Cardinality({w \in backend : w > v}) < 3}]
  /\ missed = {v \in Versions \ sw.todo : disk[v] # "none"}
  /\ cleaner = Free

-----------------------------------------------------------------------------
(* refreshLock: backfillVersions, refresh and switchVersion. *)

\* newVersion: a manifest that loads makes its partitions local.
newVersion(v) ==
  obj' = [obj EXCEPT ![v] =
            [NoObject EXCEPT !.made = TRUE, !.local = (disk[v] = "saved")]]

\* newVersion of the newest version left fails, or the version is made and goes
\* on to switchVersion.
backfillNext ==
  /\ sw.pc = "backfill"
  /\ \E v \in sw.todo :
       /\ \A w \in sw.todo : w <= v
       /\ \/ /\ sw' = [sw EXCEPT !.todo = @ \ {v}]
             /\ missed' = IF disk[v] = "none" THEN missed ELSE missed \cup {v}
             /\ UNCHANGED obj
          \/ /\ newVersion(v) /\ UNCHANGED missed
             /\ sw' = [sw EXCEPT !.pc = "prepare", !.version = v, !.todo = @ \ {v}]
  /\ UNCHANGED <<disk, mux, current, build, others, removals, cleaner>>

\* The end of backfillVersions: go cleanupStore.
backfillDone ==
  /\ sw.pc = "backfill" /\ sw.todo = {}
  /\ sw' = Idle
  /\ removals' = removals \cup {0}
  /\ UNCHANGED <<disk, mux, current, obj, build, others, cleaner, missed>>

\* refresh with a version newer than the current one that is not in the mux.
refresh(v) ==
  /\ sw.pc = "free" /\ v > current /\ v \notin mux /\ ~obj[v].made
  /\ newVersion(v)
  /\ sw' = [Idle EXCEPT !.pc = "prepare", !.version = v]
  /\ UNCHANGED <<disk, mux, current, build, others, removals, cleaner, missed>>

\* refresh with a version in the pipeline: go build again.
refreshRetry(v) ==
  /\ sw.pc = "free" /\ v > current /\ v \in mux
  /\ obj[v].queued < MaxBuilds
  /\ obj' = [obj EXCEPT ![v].queued = @ + 1]
  /\ UNCHANGED <<disk, mux, current, build, others, sw, removals, cleaner, missed>>

switchPrepare ==
  LET v == sw.version
  IN /\ sw.pc = "prepare"
     /\ mux' = mux \cup {v}
     /\ obj' = [obj EXCEPT ![v].queued = @ + 1]
     /\ sw' = [sw EXCEPT !.pc = "advertise"]
     /\ UNCHANGED <<disk, current, build, others, removals, cleaner, missed>>

\* db.upgrade, its sweep included.
upgrade(v) ==
  IF v < current
  THEN removals' = removals \cup {v} /\ UNCHANGED current
  ELSE current' = v /\ removals' = removals \cup {w \in mux : w < v}

\* advertisePartitions; a version that is ready is upgraded to at once, which
\* ends a backfill, for any other a goroutine waits.
switchAdvertise ==
  LET v == sw.version
      pc == IF sw.backfill THEN "backfill" ELSE "free"
  IN /\ sw.pc = "advertise"
     /\ \/ /\ upgrade(v)
           /\ obj' = [obj EXCEPT ![v].advertised = TRUE]
           /\ sw' = [sw EXCEPT !.pc = pc, !.version = 0, !.todo = {}]
        \/ /\ obj' = [obj EXCEPT ![v] = [@ EXCEPT !.advertised = TRUE, !.waiting = TRUE]]
           /\ sw' = [sw EXCEPT !.pc = pc, !.version = 0]
           /\ UNCHANGED <<current, removals>>
     /\ UNCHANGED <<disk, mux, build, others, cleaner, missed>>

upgradeWhenReady(v) ==
  /\ obj[v].waiting
  /\ upgrade(v)
  /\ obj' = [obj EXCEPT ![v].waiting = FALSE]
  /\ UNCHANGED <<disk, mux, build, others, sw, cleaner, missed>>

-----------------------------------------------------------------------------
(* version.build.  It holds vs.buildLock from "db" on, db.buildLock from     *)
(* "slot" on and a slot of the multilock from "check" on, and drops all of   *)
(* them when it returns.                                                     *)

HoldsDB == {"slot", "check", "files", "save", "revert"}
HoldsSlot == HoldsDB \ {"slot"}

goOn(v, pc) == build' = [build EXCEPT ![v] = pc]

buildLock(v) ==
  /\ obj[v].queued > 0 /\ build[v] = "none"
  /\ obj' = [obj EXCEPT ![v].queued = @ - 1]
  /\ goOn(v, IF obj[v].built THEN "none" ELSE "db")
  /\ UNCHANGED <<disk, mux, current, others, sw, removals, cleaner, missed>>

\* The db-wide lock; nothing is checked here.
buildLockDB(v) ==
  /\ build[v] = "db"
  /\ \A w \in Versions : build[w] \notin HoldsDB
  /\ goOn(v, "slot")
  /\ UNCHANGED <<disk, mux, current, obj, others, sw, removals, cleaner, missed>>

SlotsTaken == others + Cardinality({w \in Versions : build[w] \in HoldsSlot})

buildLockSlot(v) ==
  /\ build[v] = "slot"
  /\ MaxLoads = 0 \/ SlotsTaken < MaxLoads
  /\ goOn(v, "check")
  /\ UNCHANGED <<disk, mux, current, obj, others, sw, removals, cleaner, missed>>

\* Builds of other dbs take slots and give them back.
otherBuild ==
  /\ \/ MaxLoads > 0 /\ SlotsTaken < MaxLoads /\ others' = others + 1
     \/ others > 0 /\ others' = others - 1
  /\ UNCHANGED <<disk, mux, current, obj, build, sw, removals, cleaner, missed>>

\* Nothing is needed; or the directory is made, or cannot be made.
buildCheck(v) ==
  /\ build[v] = "check"
  /\ \/ /\ obj[v].local
        /\ obj' = [obj EXCEPT ![v].built = TRUE]
        /\ goOn(v, "none") /\ UNCHANGED disk
     \/ /\ ~obj[v].local
        /\ disk' = [disk EXCEPT ![v] = IF @ = "none" THEN "empty" ELSE @]
        /\ goOn(v, "files") /\ UNCHANGED obj
     \/ ~obj[v].local /\ goOn(v, "none") /\ UNCHANGED <<disk, obj>>
  /\ UNCHANGED <<mux, current, others, sw, removals, cleaner, missed>>

\* Mutant: addFiles without its check of cancel.
addFileBlind(v) ==
  /\ build[v] = "files"
  /\ \/ goOn(v, "revert") /\ UNCHANGED disk
     \/ /\ disk[v] # "none"
        /\ disk' = [disk EXCEPT ![v] = "junk"]
        /\ \E pc \in {"files", "save"} : goOn(v, pc)
  /\ UNCHANGED <<mux, current, obj, others, sw, removals, cleaner, missed>>

\* One round of addFiles: a cancel, an error, or the blocks of one file more,
\* for which the directory must still be there.
addFile(v) ==
  /\ build[v] = "files"
  /\ \/ goOn(v, "revert") /\ UNCHANGED disk
     \/ /\ ~obj[v].cancelled /\ disk[v] # "none"
        /\ disk' = [disk EXCEPT ![v] = "junk"]
        /\ \E pc \in {"files", "save"} : goOn(v, pc)
  /\ UNCHANGED <<mux, current, obj, others, sw, removals, cleaner, missed>>

\* Mutant: an error of blockStore.Save is not noticed.
buildSaveBlind(v) ==
  /\ build[v] = "save"
  /\ disk' \in {disk, [disk EXCEPT ![v] = "saved"]}
  /\ obj' = [obj EXCEPT ![v] = [@ EXCEPT !.local = TRUE, !.built = TRUE]]
  /\ goOn(v, "none")
  /\ UNCHANGED <<mux, current, others, sw, removals, cleaner, missed>>

\* blockStore.Save fails, or writes the manifest; then updateLocalPartitions,
\* built, and the locks are dropped.
buildSave(v) ==
  /\ build[v] = "save"
  /\ \/ goOn(v, "revert") /\ UNCHANGED <<disk, obj>>
     \/ /\ disk[v] # "none"
        /\ disk' = [disk EXCEPT ![v] = "saved"]
        /\ obj' = [obj EXCEPT ![v] = [@ EXCEPT !.local = TRUE, !.built = TRUE]]
        /\ goOn(v, "none")
  /\ UNCHANGED <<mux, current, others, sw, removals, cleaner, missed>>

\* Mutant: after an error the locks are not dropped.
buildRevertStuck(v) ==
  /\ build[v] = "revert"
  /\ \E left \in {"empty", "junk"} :
       disk' = [disk EXCEPT ![v] = IF @ = "junk" THEN left ELSE @]
  /\ UNCHANGED <<mux, current, obj, build, others, sw, removals, cleaner, missed>>

\* Revert deletes the new blocks; junk of an earlier process stays.
buildRevert(v) ==
  /\ build[v] = "revert"
  /\ \E left \in {"empty", "junk"} :
       disk' = [disk EXCEPT ![v] = IF @ = "junk" THEN left ELSE @]
  /\ goOn(v, "none")
  /\ UNCHANGED <<mux, current, obj, others, sw, removals, cleaner, missed>>

-----------------------------------------------------------------------------
(* cleanupLock: removeVersion and cleanupStore. *)

removeVersion(v) ==
  /\ v \in removals \ {0} /\ cleaner = Free
  /\ removals' = removals \ {v}
  /\ cleaner' = IF v \in mux THEN [Free EXCEPT !.pc = "remove", !.version = v] ELSE Free
  /\ UNCHANGED <<disk, mux, current, obj, build, others, sw, missed>>

\* mux.remove returns; version.close; version.delete.
removeNext ==
  LET v == cleaner.version
  IN /\ \/ /\ cleaner.pc = "remove"
           /\ mux' = mux \ {v}
           /\ cleaner' = [cleaner EXCEPT !.pc = "close"]
           /\ UNCHANGED <<disk, obj>>
        \/ /\ cleaner.pc = "close"
           /\ obj' = [obj EXCEPT ![v] = [@ EXCEPT !.cancelled = TRUE, !.closing = TRUE]]
           /\ cleaner' = [cleaner EXCEPT !.pc = "delete"]
           /\ UNCHANGED <<disk, mux>>
        \/ /\ cleaner.pc = "delete"
           /\ disk' = [disk EXCEPT ![v] = "none"]
           /\ cleaner' = Free
           /\ UNCHANGED <<mux, obj>>
     /\ UNCHANGED <<current, build, others, sw, removals, missed>>

\* Mutant: the store is closed without waiting for the building goroutine.
closeStoreNow(v) ==
  /\ obj[v].closing
  /\ obj' = [obj EXCEPT ![v] = [@ EXCEPT !.closing = FALSE, !.closed = TRUE,
                                         !.advertised = FALSE]]
  /\ UNCHANGED <<disk, mux, current, build, others, sw, removals, cleaner, missed>>

\* The goroutine of version.close, which takes vs.buildLock.
closeStore(v) ==
  /\ obj[v].closing /\ build[v] = "none"
  /\ obj' = [obj EXCEPT ![v] = [@ EXCEPT !.closing = FALSE, !.closed = TRUE,
                                         !.advertised = FALSE]]
  /\ UNCHANGED <<disk, mux, current, build, others, sw, removals, cleaner, missed>>

\* cleanupStore: list the directories, then for each look whether the mux has
\* it, and clear it if not.
cleanupList ==
  /\ 0 \in removals /\ cleaner = Free
  /\ removals' = removals \ {0}
  /\ cleaner' = [pc |-> "scan", version |-> 0,
                 todo |-> {v \in Versions : disk[v] # "none"}]
  /\ UNCHANGED <<disk, mux, current, obj, build, others, sw, missed>>

cleanupCheck ==
  /\ cleaner.pc = "scan"
  /\ \/ cleaner.todo = {} /\ cleaner' = Free
     \/ \E v \in cleaner.todo :
          cleaner' = [pc |-> IF v \in mux THEN "scan" ELSE "clear",
                      version |-> IF v \in mux THEN 0 ELSE v,
                      todo |-> cleaner.todo \ {v}]
  /\ UNCHANGED <<disk, mux, current, obj, build, others, sw, removals, missed>>

cleanupClear ==
  /\ cleaner.pc = "clear"
  /\ disk' = [disk EXCEPT ![cleaner.version] = "none"]
  /\ cleaner' = [cleaner EXCEPT !.pc = "scan", !.version = 0]
  /\ UNCHANGED <<mux, current, obj, build, others, sw, removals, missed>>

-----------------------------------------------------------------------------
BuildStep(v) ==
  \/ buildLock(v) \/ buildLockDB(v) \/ buildLockSlot(v) \/ buildCheck(v)
  \/ addFile(v) \/ buildSave(v) \/ buildRevert(v)
SwitchStep == backfillNext \/ backfillDone \/ switchPrepare \/ switchAdvertise
CleanupStep ==
  \/ removeNext \/ cleanupList \/ cleanupCheck \/ cleanupClear
  \/ \E v \in Versions : removeVersion(v)

Next ==
  \/ SwitchStep \/ CleanupStep \/ otherBuild
  \/ \E v \in Versions :
       BuildStep(v) \/ closeStore(v) \/ refresh(v) \/ refreshRetry(v)
       \/ upgradeWhenReady(v)

Spec == Init /\ [][Next]_vars

\* Builds and closings that can go on do, those of other dbs end, and nobody
\* waits for ever for db.buildLock (a Mutex) or for a slot (a channel) that
\* others take again and again.
FairSpec ==
  /\ Spec
  /\ WF_vars(otherBuild /\ others' < others)
  /\ \A v \in Versions : SF_vars(BuildStep(v)) /\ WF_vars(closeStore(v))

-----------------------------------------------------------------------------
(* Properties. *)

ObjType ==
  [made : BOOLEAN, local : BOOLEAN, built : BOOLEAN, queued : 0..MaxBuilds,
   waiting : BOOLEAN, cancelled : BOOLEAN, closing : BOOLEAN, closed : BOOLEAN,
   advertised : BOOLEAN]

\* Every variable keeps its type, and builds never hold more slots of the
\* multilock than there are.
TypeOK ==
  /\ disk \in [Versions -> {"none", "empty", "junk", "saved"}]
  /\ mux \subseteq Versions /\ current \in Versions \cup {0}
  /\ obj \in [Versions -> ObjType]
  /\ build \in [Versions -> {"none", "db"} \cup HoldsDB]
  /\ others \in Nat /\ (MaxLoads > 0 => SlotsTaken <= MaxLoads)
  /\ sw \in [pc : {"backfill", "free", "prepare", "advertise"},
             version : Versions \cup {0}, todo : SUBSET Versions, backfill : BOOLEAN]
  /\ missed \subseteq Versions /\ removals \subseteq Versions \cup {0}
  /\ cleaner \in [pc : {"free", "remove", "close", "delete", "scan", "clear"},
                  version : Versions \cup {0}, todo : SUBSET Versions]

\* What partitions.local claims of a version that can be asked for is on disk:
\* neither cleanupStore nor a removal deletes it under the version's feet.  (A
\* version that backfillVersions could not open is unknown to cleanupStore, which
\* may clear it while refresh opens it.)
LocalOnDisk == \A v \in mux \ missed : obj[v].local => disk[v] = "saved"

\* A version that was closed and deleted does not come back to the disk through
\* a build that was running or queued meanwhile.
GoneStaysGone ==
  \A v \in Versions :
    obj[v].cancelled /\ cleaner.version # v => disk[v] \in {"none", "empty"}

\* The inductive invariant behind them.  A version enters when switchVersion gives
\* it to the mux: until then it is not built, closed or deleted.
Entered(v) == obj[v].made /\ ~(sw.pc = "prepare" /\ sw.version = v)

\* Backfilling goes from the newest version down and is over before cleanupStore
\* begins: what it left aside is too old to be opened, or could not be opened.
SwitchInv ==
  /\ sw.pc \in {"prepare", "advertise"} =>
       sw.version \in Versions /\ obj[sw.version].made /\ \A w \in sw.todo : w < sw.version
  /\ sw.pc = "prepare" => disk[sw.version] = "none" \/ sw.version \in missed \/ sw.backfill
  /\ (sw.pc = "backfill" => sw.backfill) /\ (sw.pc = "free" => ~sw.backfill)
  /\ \A w \in sw.todo : ~obj[w].made
  /\ IF sw.backfill THEN 0 \notin removals /\ cleaner.pc \notin {"scan", "clear"}
     ELSE sw.todo = {}
  /\ \A v \in Versions : ~obj[v].made /\ disk[v] # "none" =>
       v \in missed \/ v \in sw.todo \/ v < current

\* A version's object, its directory and its build.  version.close closes the
\* block store when no build works on it, and a build that comes later leaves the
\* store alone.
VersionInv ==
  \A v \in Versions :
    /\ ~Entered(v) => /\ v \notin mux /\ build[v] = "none" /\ obj[v].queued = 0
                      /\ ~obj[v].cancelled
    /\ ~obj[v].made => obj[v] = NoObject
    /\ (v \in mux \/ ~Entered(v)) /\ v \notin missed /\ obj[v].local => disk[v] = "saved"
    /\ build[v] \in {"files", "save", "revert"} => ~obj[v].local
    /\ obj[v].closing \/ obj[v].closed => obj[v].cancelled
    /\ obj[v].closed => build[v] # "save"
    /\ obj[v].cancelled /\ cleaner.version # v =>
         disk[v] \in {"none", "empty"} /\ (build[v] = "save" => disk[v] = "none")

\* What a removal deletes is out of the mux for good, and so is what cleanupStore
\* is about to clear, if backfillVersions did not miss it.
Cleanable(v) == v \in missed \/ Entered(v) \/ (~obj[v].made /\ v < current)
CleanerInv ==
  LET v == cleaner.version
  IN /\ cleaner.pc \in {"remove", "close", "delete"} =>
          v \in Versions /\ Entered(v) /\ (cleaner.pc # "remove" => v \notin mux)
     /\ cleaner.pc = "clear" => v \in Versions /\ Cleanable(v) /\ (v \in missed \/ v \notin mux)
     /\ cleaner.pc \in {"scan", "clear"} => \A w \in cleaner.todo : Cleanable(w)
     /\ cleaner.pc = "scan" => v = 0

\* db.buildLock is held by one version's build.
LockInv == \A v, w \in Versions : build[v] \in HoldsDB /\ build[w] \in HoldsDB => v = w

BuildInv == TypeOK /\ SwitchInv /\ VersionInv /\ CleanerInv /\ LockInv

\* "This happens once the building goroutine gets the cancel and exits": a
\* version that version.close was called for does not wait for its closing for
\* ever, through all the locks.
CloseHappens == \A v \in Versions : []<>(~obj[v].closing)
=============================================================================
