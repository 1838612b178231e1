---------------------------- MODULE BuildProofs ----------------------------
(***************************************************************************)
(* What is on disk of a version agrees with what its object claims, for    *)
(* any number of versions, queued builds and slots of the multilock.       *)
(* First the steps of version.build and of the closing of a version, which *)
(* change one version's object, directory and build; then those of         *)
(* backfillVersions, refresh, switchVersion and of the clean-up.           *)
(***************************************************************************)
EXTENDS Build, FiniteSetTheorems, TLAPS

-----------------------------------------------------------------------------
(* The slots of the multilock. *)

Holders == {w \in Versions : build[w] \in HoldsSlot}

LEMMA HoldersFinite ==
  ASSUME TypeOK PROVE IsFiniteSet(Holders) /\ Cardinality(Holders) \in Nat
  BY BuildAssumption, FS_Subset, FS_CardinalityType, Holders \subseteq Versions DEF Holders

\* A step after which no more builds hold a slot takes none.
LEMMA SlotsKept ==
  ASSUME TypeOK, others' = others, Holders' \subseteq Holders
  PROVE  MaxLoads > 0 => SlotsTaken' <= MaxLoads
<1>1. Cardinality(Holders') <= Cardinality(Holders) /\ Cardinality(Holders') \in Nat
  BY HoldersFinite, FS_Subset, FS_CardinalityType
<1>2. SlotsTaken = others + Cardinality(Holders) /\ SlotsTaken' = others' + Cardinality(Holders')
  BY DEF SlotsTaken, Holders
<1> QED BY <1>1, <1>2, HoldersFinite, BuildAssumption DEF TypeOK

\* A build that finds a slot free may take it.
LEMMA SlotTaken ==
  ASSUME TypeOK, others' = others, NEW v \in Versions, Holders' \subseteq Holders \cup {v},
         MaxLoads = 0 \/ SlotsTaken < MaxLoads
  PROVE  MaxLoads > 0 => SlotsTaken' <= MaxLoads
<1>1. IsFiniteSet(Holders \cup {v}) /\ Cardinality(Holders \cup {v}) <= Cardinality(Holders) + 1
  <2>1. IsFiniteSet(Holders) /\ Cardinality(Holders) \in Nat
    BY HoldersFinite
  <2>2. /\ IsFiniteSet(Holders \cup {v})
        /\ Cardinality(Holders \cup {v}) =
             IF v \in Holders THEN Cardinality(Holders) ELSE Cardinality(Holders) + 1
    BY <2>1, FS_AddElement
  <2> QED BY <2>1, <2>2
<1>2. Cardinality(Holders') <= Cardinality(Holders) + 1 /\ Cardinality(Holders') \in Nat
  BY <1>1, HoldersFinite, FS_Subset, FS_CardinalityType
<1>3. SlotsTaken = others + Cardinality(Holders) /\ SlotsTaken' = others' + Cardinality(Holders')
  BY DEF SlotsTaken, Holders
<1> QED BY <1>2, <1>3, HoldersFinite, BuildAssumption DEF TypeOK

-----------------------------------------------------------------------------
(* Steps of one version: its object, its directory and its build change. *)

Fits(v, o, d, pc) ==
  /\ Entered(v) /\ o \in ObjType /\ o.made /\ d \in {"none", "empty", "junk", "saved"}
  /\ pc \in {"none", "db"} \cup HoldsDB
  /\ obj' = [obj EXCEPT ![v] = o] /\ disk' = [disk EXCEPT ![v] = d]
  /\ build' = [build EXCEPT ![v] = pc]
  /\ UNCHANGED <<mux, current, others, sw, missed, removals, cleaner>>
  /\ MaxLoads > 0 => SlotsTaken' <= MaxLoads
  /\ v \in mux /\ v \notin missed /\ o.local => d = "saved"
  /\ pc \in {"files", "save", "revert"} => ~o.local
  /\ o.closing \/ o.closed => o.cancelled
  /\ o.closed => pc # "save"
  /\ o.cancelled /\ cleaner.version # v =>
       d \in {"none", "empty"} /\ (pc = "save" => d = "none")
  /\ pc \in HoldsDB => \A w \in Versions \ {v} : build[w] \notin HoldsDB

LEMMA VersionKeeps ==
  ASSUME BuildInv, NEW v \in Versions, NEW o, NEW d, NEW pc, Fits(v, o, d, pc)
  PROVE  BuildInv'
<1> USE DEF BuildInv, Fits
<1>1. /\ obj'[v] = o /\ disk'[v] = d /\ build'[v] = pc
      /\ \A w \in Versions \ {v} : obj'[w] = obj[w] /\ disk'[w] = disk[w] /\ build'[w] = build[w]
  BY DEF TypeOK
<1>2. TypeOK'
  BY DEF TypeOK
<1>3. \A w \in Versions : Entered(w)' = Entered(w)
  BY <1>1 DEF Entered
<1>4. \A w \in Versions : obj'[w].made <=> obj[w].made
  BY <1>1 DEF Entered
<1>5. SwitchInv'
  BY <1>1, <1>4 DEF SwitchInv, Entered, TypeOK
<1>6. VersionInv'
  <2> SUFFICES ASSUME NEW w \in Versions
               PROVE  VersionInv!(w)'
    BY DEF VersionInv
  <2>1. CASE w = v
    BY <1>1, <1>3, <2>1
  <2>2. CASE w # v
    BY <1>1, <1>3, <2>2 DEF VersionInv
  <2> QED BY <2>1, <2>2
<1>7. CleanerInv'
  BY <1>3, <1>4 DEF CleanerInv, Cleanable, TypeOK
<1>8. LockInv'
  BY <1>1 DEF LockInv
<1> QED BY <1>2, <1>5, <1>6, <1>7, <1>8

LEMMA VersionFacts ==
  ASSUME BuildInv, NEW v \in Versions
  PROVE  /\ TypeOK /\ obj[v] \in ObjType /\ disk[v] \in {"none", "empty", "junk", "saved"}
         /\ build[v] \in {"none", "db"} \cup HoldsDB
         /\ obj = [obj EXCEPT ![v] = obj[v]] /\ disk = [disk EXCEPT ![v] = disk[v]]
         /\ build = [build EXCEPT ![v] = build[v]]
         /\ build[v] # "none" \/ obj[v].queued > 0 \/ obj[v].closing => Entered(v)
         /\ Entered(v) => obj[v].made
         /\ v \in mux => Entered(v)
         /\ VersionInv!(v)
         /\ build[v] \in HoldsDB => \A w \in Versions \ {v} : build[w] \notin HoldsDB
  BY BuildAssumption DEF BuildInv, TypeOK, VersionInv, LockInv, Entered, ObjType

\* A build that holds a slot already, or drops it, takes none.
LEMMA SlotKept ==
  ASSUME BuildInv, NEW v \in Versions, NEW pc, goOn(v, pc), UNCHANGED others,
         pc \in HoldsSlot => build[v] \in HoldsSlot
  PROVE  MaxLoads > 0 => SlotsTaken' <= MaxLoads
<1>1. Holders' \subseteq Holders
  BY DEF goOn, Holders, BuildInv, TypeOK
<1> QED BY <1>1, SlotsKept DEF BuildInv

LEMMA BuildLockKeeps ==
  ASSUME BuildInv, NEW v \in Versions, buildLock(v) PROVE BuildInv'
<1> DEFINE o == [obj[v] EXCEPT !.queued = @ - 1]
           pc == IF obj[v].built THEN "none" ELSE "db"
<1>1. /\ obj' = [obj EXCEPT ![v] = o] /\ goOn(v, pc) /\ disk' = disk
      /\ UNCHANGED <<mux, current, others, sw, missed, removals, cleaner>>
      /\ obj[v].queued > 0 /\ build[v] = "none"
  BY VersionFacts DEF buildLock
<1>2. obj[v] \in ObjType
  BY VersionFacts
<1>3. /\ o \in ObjType /\ o.made = obj[v].made /\ o.local = obj[v].local
      /\ o.cancelled = obj[v].cancelled /\ o.closing = obj[v].closing /\ o.closed = obj[v].closed
  BY <1>1, <1>2, BuildAssumption DEF ObjType
<1>4. pc \in {"none", "db"} /\ pc \notin HoldsDB \cup HoldsSlot
  BY DEF HoldsDB, HoldsSlot
<1>5. MaxLoads > 0 => SlotsTaken' <= MaxLoads
  BY <1>1, <1>4, SlotKept
<1> HIDE DEF o, pc
<1>6. Fits(v, o, disk[v], pc)
  BY <1>1, <1>3, <1>4, <1>5, VersionFacts DEF Fits, goOn
<1> QED BY <1>6, VersionKeeps

LEMMA BuildLockDBKeeps ==
  ASSUME BuildInv, NEW v \in Versions, buildLockDB(v) PROVE BuildInv'
<1>1. /\ UNCHANGED <<obj, disk, mux, current, others, sw, missed, removals, cleaner>>
      /\ goOn(v, "slot") /\ build[v] = "db" /\ \A w \in Versions : build[w] \notin HoldsDB
  BY DEF buildLockDB
<1>2. "slot" \in HoldsDB /\ "slot" \notin HoldsSlot
  BY DEF HoldsDB, HoldsSlot
<1>3. MaxLoads > 0 => SlotsTaken' <= MaxLoads
  BY <1>1, <1>2, SlotKept
<1>4. Fits(v, obj[v], disk[v], "slot")
  BY <1>1, <1>2, <1>3, VersionFacts DEF Fits, goOn
<1> QED BY <1>4, VersionKeeps

LEMMA BuildLockSlotKeeps ==
  ASSUME BuildInv, NEW v \in Versions, buildLockSlot(v) PROVE BuildInv'
<1>1. /\ UNCHANGED <<obj, disk, mux, current, others, sw, missed, removals, cleaner>>
      /\ goOn(v, "check") /\ build[v] = "slot" /\ (MaxLoads = 0 \/ SlotsTaken < MaxLoads)
  BY DEF buildLockSlot
<1>2. "slot" \in HoldsDB /\ "check" \in HoldsDB
  BY DEF HoldsDB
<1>3. Holders' \subseteq Holders \cup {v}
  BY <1>1 DEF goOn, Holders, BuildInv, TypeOK
<1>4. MaxLoads > 0 => SlotsTaken' <= MaxLoads
  BY <1>1, <1>3, SlotTaken DEF BuildInv
<1>5. Fits(v, obj[v], disk[v], "check")
  BY <1>1, <1>2, <1>4, VersionFacts DEF Fits, goOn
<1> QED BY <1>5, VersionKeeps

\* The steps of a build that holds its slot: they go on, or end with "none".
Holds(v, o, d, pc) ==
  /\ build[v] \in HoldsSlot /\ pc \in HoldsSlot \cup {"none"} /\ goOn(v, pc)
  /\ o \in ObjType /\ d \in {"none", "empty", "junk", "saved"}
  /\ o.made /\ o.cancelled = obj[v].cancelled /\ o.closing = obj[v].closing
  /\ o.closed = obj[v].closed
  /\ obj' = [obj EXCEPT ![v] = o] /\ disk' = [disk EXCEPT ![v] = d]
  /\ UNCHANGED <<mux, current, others, sw, missed, removals, cleaner>>
  /\ v \in mux /\ v \notin missed /\ o.local => d = "saved"
  /\ pc \in {"files", "save", "revert"} => ~o.local
  /\ pc = "save" => build[v] = "save" \/ ~o.cancelled
  /\ o.cancelled /\ cleaner.version # v => d \in {"none", "empty"} /\ (pc = "save" => d = "none")
LEMMA HolderKeeps ==
  ASSUME BuildInv, NEW v \in Versions, NEW o, NEW d, NEW pc, Holds(v, o, d, pc)
  PROVE  BuildInv'
<1> USE DEF Holds
<1>1. HoldsSlot \subseteq HoldsDB /\ "none" \notin HoldsDB
  BY DEF HoldsSlot, HoldsDB
<1>2. MaxLoads > 0 => SlotsTaken' <= MaxLoads
  BY <1>1, SlotKept
<1>3. Fits(v, o, d, pc)
  BY <1>1, <1>2, VersionFacts DEF Fits, goOn
<1> QED BY <1>3, VersionKeeps

LEMMA BuildCheckKeeps ==
  ASSUME BuildInv, NEW v \in Versions, buildCheck(v) PROVE BuildInv'
<1>0. obj[v] \in ObjType /\ disk \in [Versions -> {"none", "empty", "junk", "saved"}]
  BY VersionFacts DEF TypeOK
<1>1. /\ UNCHANGED <<mux, current, others, sw, missed, removals, cleaner>>
      /\ build[v] = "check" /\ obj[v].made
  BY VersionFacts DEF buildCheck
<1>2. {"check", "files"} \subseteq HoldsSlot
  BY DEF HoldsSlot, HoldsDB
<1>3. CASE obj[v].local /\ obj' = [obj EXCEPT ![v].built = TRUE] /\ goOn(v, "none") /\ UNCHANGED disk
  <2> DEFINE o == [obj[v] EXCEPT !.built = TRUE]
  <2>1. obj' = [obj EXCEPT ![v] = o]
    BY <1>3, VersionFacts
  <2>2. /\ o \in ObjType /\ o.made = obj[v].made /\ o.local = obj[v].local
        /\ o.cancelled = obj[v].cancelled /\ o.closing = obj[v].closing /\ o.closed = obj[v].closed
    BY <1>0, Zenon DEF ObjType
  <2> HIDE DEF o
  <2>3. /\ disk' = [disk EXCEPT ![v] = disk[v]] /\ disk[v] \in {"none", "empty", "junk", "saved"}
        /\ v \in mux /\ v \notin missed /\ o.local => disk[v] = "saved"
        /\ o.cancelled /\ cleaner.version # v => disk[v] \in {"none", "empty"}
    BY <1>0, <1>3, <2>2, VersionFacts
  <2>4. Holds(v, o, disk[v], "none")
    BY <1>1, <1>2, <1>3, <2>1, <2>2, <2>3, Zenon DEF Holds
  <2> QED BY <2>4, HolderKeeps
<1>4. CASE /\ ~obj[v].local /\ goOn(v, "files") /\ UNCHANGED obj
           /\ disk' = [disk EXCEPT ![v] = IF @ = "none" THEN "empty" ELSE @]
  <2> DEFINE d == IF disk[v] = "none" THEN "empty" ELSE disk[v]
  <2>1. disk' = [disk EXCEPT ![v] = d]
    BY <1>4
  <2>2. d \in {"none", "empty", "junk", "saved"} /\ (disk[v] = "empty" => d = "empty")
        /\ (disk[v] = "none" => d = "empty")
    BY <1>0
  <2> HIDE DEF d
  <2>3. obj[v].cancelled /\ cleaner.version # v => d \in {"none", "empty"}
    BY <2>2, VersionFacts
  <2>4. obj' = [obj EXCEPT ![v] = obj[v]] /\ "files" # "save"
    BY <1>4, VersionFacts
  <2>5. Holds(v, obj[v], d, "files")
    BY <1>0, <1>1, <1>2, <1>4, <2>1, <2>2, <2>3, <2>4, Zenon DEF Holds
  <2> QED BY <2>5, HolderKeeps
<1>5. CASE ~obj[v].local /\ goOn(v, "none") /\ UNCHANGED <<disk, obj>>
  <2>1. Holds(v, obj[v], disk[v], "none")
    BY <1>1, <1>2, <1>5, VersionFacts DEF Holds
  <2> QED BY <2>1, HolderKeeps
<1> QED BY <1>3, <1>4, <1>5 DEF buildCheck

LEMMA AddFileKeeps ==
  ASSUME BuildInv, NEW v \in Versions, addFile(v) PROVE BuildInv'
<1>1. /\ UNCHANGED <<obj, mux, current, others, sw, missed, removals, cleaner>>
      /\ build[v] = "files" /\ obj[v].made
  BY VersionFacts DEF addFile
<1>2. {"files", "save", "revert"} \subseteq HoldsSlot
  BY DEF HoldsSlot, HoldsDB
<1>3. CASE goOn(v, "revert") /\ UNCHANGED disk
  <2>1. Holds(v, obj[v], disk[v], "revert")
    BY <1>1, <1>2, <1>3, VersionFacts DEF Holds
  <2> QED BY <2>1, HolderKeeps
<1>4. ASSUME ~obj[v].cancelled, disk' = [disk EXCEPT ![v] = "junk"],
             NEW pc \in {"files", "save"}, goOn(v, pc)
      PROVE  BuildInv'
  <2>1. Holds(v, obj[v], "junk", pc)
    BY <1>1, <1>2, <1>4, VersionFacts DEF Holds
  <2> QED BY <2>1, HolderKeeps
<1> QED BY <1>3, <1>4 DEF addFile

LEMMA BuildSaveKeeps ==
  ASSUME BuildInv, NEW v \in Versions, buildSave(v) PROVE BuildInv'
<1>0. obj[v] \in ObjType
  BY VersionFacts
<1>1. /\ UNCHANGED <<mux, current, others, sw, missed, removals, cleaner>>
      /\ build[v] = "save" /\ obj[v].made
  BY VersionFacts DEF buildSave
<1>2. {"save", "revert"} \subseteq HoldsSlot
  BY DEF HoldsSlot, HoldsDB
<1>3. CASE goOn(v, "revert") /\ UNCHANGED <<disk, obj>>
  <2>1. Holds(v, obj[v], disk[v], "revert")
    BY <1>1, <1>2, <1>3, VersionFacts DEF Holds
  <2> QED BY <2>1, HolderKeeps
<1>4. CASE /\ disk[v] # "none" /\ disk' = [disk EXCEPT ![v] = "saved"] /\ goOn(v, "none")
           /\ obj' = [obj EXCEPT ![v] = [@ EXCEPT !.local = TRUE, !.built = TRUE]]
  <2> DEFINE o == [obj[v] EXCEPT !.local = TRUE, !.built = TRUE]
  <2>1. obj' = [obj EXCEPT ![v] = o]
    BY <1>4
  <2>2. /\ o \in ObjType /\ o.made = obj[v].made /\ o.cancelled = obj[v].cancelled
        /\ o.closing = obj[v].closing /\ o.closed = obj[v].closed
    BY <1>0, Zenon DEF ObjType
  <2>3. ~(obj[v].cancelled /\ cleaner.version # v)
    BY <1>1, <1>4, VersionFacts
  <2> HIDE DEF o
  <2>4. Holds(v, o, "saved", "none")
    BY <1>1, <1>2, <1>4, <2>1, <2>2, <2>3, Zenon DEF Holds
  <2> QED BY <2>4, HolderKeeps
<1> QED BY <1>3, <1>4 DEF buildSave

LEMMA BuildRevertKeeps ==
  ASSUME BuildInv, NEW v \in Versions, buildRevert(v) PROVE BuildInv'
<1>1. /\ UNCHANGED <<obj, mux, current, others, sw, missed, removals, cleaner>>
      /\ build[v] = "revert" /\ goOn(v, "none") /\ obj[v].made /\ ~obj[v].local
  BY VersionFacts DEF buildRevert
<1>2. PICK left \in {"empty", "junk"} :
        disk' = [disk EXCEPT ![v] = IF @ = "junk" THEN left ELSE @]
  BY Zenon DEF buildRevert
<1> DEFINE d == IF disk[v] = "junk" THEN left ELSE disk[v]
<1>3. disk' = [disk EXCEPT ![v] = d]
  BY <1>2
<1>4. d \in {"none", "empty", "junk", "saved"} /\ (disk[v] \in {"none", "empty"} => d = disk[v])
  BY VersionFacts
<1>5. "revert" \in HoldsSlot
  BY DEF HoldsSlot, HoldsDB
<1> HIDE DEF d
<1>6. Holds(v, obj[v], d, "none")
  BY <1>1, <1>3, <1>4, <1>5, VersionFacts DEF Holds
<1> QED BY <1>6, HolderKeeps

\* closeStore and refreshRetry leave the build and the directory alone.
LEMMA ObjectKeeps ==
  ASSUME BuildInv, NEW v \in Versions, Entered(v), NEW o \in ObjType, o.made,
         o.local = obj[v].local, o.cancelled = obj[v].cancelled,
         o.closing \/ o.closed => o.cancelled, o.closed => build[v] # "save",
         obj' = [obj EXCEPT ![v] = o],
         UNCHANGED <<disk, mux, current, build, others, sw, missed, removals, cleaner>>
  PROVE  BuildInv'
<1>1. MaxLoads > 0 => SlotsTaken' <= MaxLoads
  BY SlotsKept DEF Holders, BuildInv
<1>2. Fits(v, o, disk[v], build[v])
  BY <1>1, VersionFacts DEF Fits
<1> QED BY <1>2, VersionKeeps

LEMMA CloseStoreKeeps ==
  ASSUME BuildInv, NEW v \in Versions, closeStore(v) PROVE BuildInv'
<1> DEFINE o == [obj[v] EXCEPT !.closing = FALSE, !.closed = TRUE, !.advertised = FALSE]
<1>0. obj[v] \in ObjType /\ Entered(v) /\ obj[v].made /\ obj[v].cancelled
  BY VersionFacts DEF closeStore
<1>1. /\ obj' = [obj EXCEPT ![v] = o] /\ build[v] = "none"
      /\ UNCHANGED <<disk, mux, current, build, others, sw, missed, removals, cleaner>>
  BY DEF closeStore
<1>2. o \in ObjType /\ o.made = obj[v].made /\ o.local = obj[v].local /\ o.cancelled = obj[v].cancelled
  BY <1>0, Zenon DEF ObjType
<1> HIDE DEF o
<1> QED BY <1>0, <1>1, <1>2, ObjectKeeps, Zenon

LEMMA RefreshRetryKeeps ==
  ASSUME BuildInv, NEW v \in Versions, refreshRetry(v) PROVE BuildInv'
<1> DEFINE o == [obj[v] EXCEPT !.queued = @ + 1]
<1>0. obj[v] \in ObjType /\ Entered(v) /\ obj[v].made /\ obj[v].queued < MaxBuilds
  BY VersionFacts DEF refreshRetry
<1>1. /\ obj' = [obj EXCEPT ![v] = o]
      /\ UNCHANGED <<disk, mux, current, build, others, sw, missed, removals, cleaner>>
  BY DEF refreshRetry
<1>2. /\ o \in ObjType /\ o.made = obj[v].made /\ o.local = obj[v].local
      /\ o.cancelled = obj[v].cancelled /\ o.closing = obj[v].closing /\ o.closed = obj[v].closed
  <2>1. obj[v].queued + 1 \in 0..MaxBuilds
    BY <1>0, BuildAssumption DEF ObjType
  <2> QED BY <1>0, <2>1, Zenon DEF ObjType
<1> HIDE DEF o
<1> QED BY <1>0, <1>1, <1>2, VersionFacts, ObjectKeeps, Zenon

-----------------------------------------------------------------------------
(* Steps that change no version's build. *)

LEMMA OtherBuildKeeps == ASSUME BuildInv, otherBuild PROVE BuildInv'
<1>1. UNCHANGED <<disk, mux, current, obj, build, sw, missed, removals, cleaner>>
  BY DEF otherBuild
<1>2. others' \in Nat /\ (MaxLoads > 0 => SlotsTaken' <= MaxLoads)
  <2>1. SlotsTaken = others + Cardinality(Holders) /\ SlotsTaken' = others' + Cardinality(Holders)
    BY <1>1 DEF SlotsTaken, Holders
  <2>2. Cardinality(Holders) \in Nat /\ others \in Nat /\ MaxLoads \in Nat
        /\ (MaxLoads > 0 => SlotsTaken <= MaxLoads)
    BY HoldersFinite, BuildAssumption DEF BuildInv, TypeOK
  <2>3. \/ others' = others + 1 /\ SlotsTaken < MaxLoads
        \/ others > 0 /\ others' = others - 1
    BY DEF otherBuild
  <2> QED BY <2>1, <2>2, <2>3
<1>3. TypeOK'
  BY <1>1, <1>2 DEF BuildInv, TypeOK
<1>4. SwitchInv' /\ LockInv'
  BY <1>1 DEF BuildInv, SwitchInv, LockInv
<1>5. VersionInv' /\ CleanerInv'
  BY <1>1 DEF BuildInv, VersionInv, CleanerInv, Cleanable, Entered
<1> QED BY <1>3, <1>4, <1>5 DEF BuildInv

\* The versions keep their types and the locks their holders when no build goes on.
LEMMA TypeKeeps ==
  ASSUME BuildInv, UNCHANGED <<build, others>>,
         disk' \in [Versions -> {"none", "empty", "junk", "saved"}],
         mux' \subseteq Versions, current' \in Versions \cup {0}, obj' \in [Versions -> ObjType],
         sw' \in [pc : {"backfill", "free", "prepare", "advertise"},
                  version : Versions \cup {0}, todo : SUBSET Versions, backfill : BOOLEAN],
         missed' \subseteq Versions, removals' \subseteq Versions \cup {0},
         cleaner' \in [pc : {"free", "remove", "close", "delete", "scan", "clear"},
                       version : Versions \cup {0}, todo : SUBSET Versions]
  PROVE  TypeOK' /\ LockInv'
<1>1. MaxLoads > 0 => SlotsTaken' <= MaxLoads
  BY DEF SlotsTaken, BuildInv, TypeOK
<1> QED BY <1>1 DEF TypeOK, LockInv, BuildInv

LEMMA Numbers ==
  ASSUME TypeOK
  PROVE  Versions \subseteq Nat /\ current \in Nat /\ sw.todo \subseteq Nat
<1>1. \A v \in Versions : v \in Nat /\ v > 0
  BY BuildAssumption
<1>2. sw.todo \subseteq Versions /\ current \in Versions \cup {0}
  BY DEF TypeOK
<1> QED BY <1>1, <1>2

LEMMA NewVersionType ==
  ASSUME BuildInv, NEW v \in Versions, newVersion(v), obj[v] = NoObject
  PROVE  /\ obj' \in [Versions -> ObjType] /\ obj'[v].made /\ obj'[v].queued = 0
         /\ ~obj'[v].cancelled /\ ~obj'[v].closing /\ ~obj'[v].closed
         /\ obj'[v].local => disk[v] = "saved"
         /\ \A w \in Versions \ {v} : obj'[w] = obj[w]
<1> DEFINE saved == disk[v] = "saved"
           o == [NoObject EXCEPT !.made = TRUE, !.local = saved]
<1>0. saved \in BOOLEAN /\ (saved => disk[v] = "saved") /\ 0 \in 0..MaxBuilds
  BY BuildAssumption
<1>1. obj' = [obj EXCEPT ![v] = o] /\ obj \in [Versions -> ObjType]
  BY DEF newVersion, BuildInv, TypeOK
<1> HIDE DEF saved
<1>2. /\ o \in ObjType /\ o.made /\ o.queued = 0 /\ ~o.cancelled /\ ~o.closing /\ ~o.closed
      /\ o.local = saved
  <2>1. CASE saved = TRUE
    BY <1>0, <2>1, Zenon DEF ObjType, NoObject
  <2>2. CASE saved = FALSE
    BY <1>0, <2>2, Zenon DEF ObjType, NoObject
  <2> QED BY <1>0, <2>1, <2>2, Zenon
<1> HIDE DEF o
<1> QED BY <1>0, <1>1, <1>2

\* newVersion takes a version that sw has, to switchVersion.
LEMMA PrepareKeeps ==
  ASSUME BuildInv, NEW v \in Versions, ~obj[v].made, newVersion(v),
         UNCHANGED <<disk, mux, current, build, others, removals, cleaner, missed>>,
         sw.pc \in {"free", "backfill"},
         sw' \in [pc : {"backfill", "free", "prepare", "advertise"},
                  version : Versions \cup {0}, todo : SUBSET Versions, backfill : BOOLEAN],
         sw'.pc = "prepare", sw'.version = v, sw'.backfill = sw.backfill,
         sw'.todo = sw.todo \ {v}, \A w \in sw.todo : w <= v,
         v \in sw.todo \/ v > current
  PROVE  BuildInv'
<1> TypeOK /\ SwitchInv /\ VersionInv /\ CleanerInv /\ LockInv
  BY DEF BuildInv
<1>0. obj[v] = NoObject
  BY DEF VersionInv
<1>1. /\ obj' \in [Versions -> ObjType] /\ obj'[v].made /\ obj'[v].queued = 0
      /\ ~obj'[v].cancelled /\ ~obj'[v].closing /\ ~obj'[v].closed
      /\ obj'[v].local => disk[v] = "saved"
      /\ \A w \in Versions \ {v} : obj'[w] = obj[w]
  BY <1>0, NewVersionType
<1>2. TypeOK' /\ LockInv'
  BY <1>1, TypeKeeps DEF TypeOK
<1>3. \A w \in Versions : Entered(w)' <=> Entered(w)
  BY <1>1 DEF Entered
<1>4. v \in Nat /\ current \in Nat /\ sw.todo \subseteq Nat
  BY Numbers
<1>5. SwitchInv'
  <2>1. disk[v] = "none" \/ v \in missed \/ sw.backfill
    BY <1>4 DEF SwitchInv
  <2>2. \A w \in sw'.todo : w < v
    BY <1>4
  <2>3. \A w \in Versions : ~obj'[w].made /\ disk[w] # "none" =>
          w \in missed \/ w \in sw'.todo \/ w < current
    BY <1>1 DEF SwitchInv
  <2>4. \A w \in sw'.todo : ~obj'[w].made
    BY <1>1 DEF SwitchInv, TypeOK
  <2> QED BY <1>1, <2>1, <2>2, <2>3, <2>4 DEF SwitchInv
<1>6. VersionInv'
  <2> SUFFICES ASSUME NEW w \in Versions PROVE VersionInv!(w)'
    BY DEF VersionInv
  <2>1. CASE w = v
    <3>1. ~Entered(v) /\ v \notin mux /\ build[v] = "none"
      BY DEF VersionInv, Entered
    <3> QED BY <1>1, <1>3, <2>1, <3>1
  <2>2. CASE w # v
    BY <1>1, <1>3, <2>2 DEF VersionInv
  <2> QED BY <2>1, <2>2
<1>7. CleanerInv'
  <2>1. cleaner.pc \in {"scan", "clear"} => sw.todo = {} /\ v > current
    BY DEF SwitchInv
  <2>2. \A w \in Versions : cleaner.pc \in {"scan", "clear"} /\ Cleanable(w) => Cleanable(w)'
    BY <1>1, <1>3, <1>4, <2>1 DEF Cleanable
  <2> QED BY <1>3, <2>2 DEF CleanerInv, TypeOK
<1> QED BY <1>2, <1>5, <1>6, <1>7 DEF BuildInv


LEMMA RefreshKeeps == ASSUME BuildInv, NEW v \in Versions, refresh(v) PROVE BuildInv'
<1>1. /\ ~obj[v].made /\ newVersion(v) /\ sw.pc = "free" /\ v > current
      /\ UNCHANGED <<disk, mux, current, build, others, removals, cleaner, missed>>
      /\ sw' = [Idle EXCEPT !.pc = "prepare", !.version = v]
  BY DEF refresh
<1>2. ~sw.backfill /\ sw.todo = {} /\ sw.backfill = FALSE
  BY <1>1 DEF BuildInv, SwitchInv, TypeOK
<1>3. /\ sw' \in [pc : {"backfill", "free", "prepare", "advertise"},
                  version : Versions \cup {0}, todo : SUBSET Versions, backfill : BOOLEAN]
      /\ sw'.pc = "prepare" /\ sw'.version = v /\ sw'.backfill = FALSE /\ sw'.todo = {}
  BY <1>1, Zenon DEF Idle
<1> QED BY <1>1, <1>2, <1>3, PrepareKeeps, Zenon

LEMMA BackfillNextKeeps == ASSUME BuildInv, backfillNext PROVE BuildInv'
<1> TypeOK /\ SwitchInv /\ VersionInv /\ CleanerInv /\ LockInv
  BY DEF BuildInv
<1>1. sw.pc = "backfill" /\ UNCHANGED <<disk, mux, current, build, others, removals, cleaner>>
  BY DEF backfillNext
<1>2. PICK v \in sw.todo :
        /\ \A w \in sw.todo : w <= v
        /\ \/ /\ sw' = [sw EXCEPT !.todo = @ \ {v}] /\ UNCHANGED obj
              /\ missed' = IF disk[v] = "none" THEN missed ELSE missed \cup {v}
           \/ /\ newVersion(v) /\ UNCHANGED missed
              /\ sw' = [sw EXCEPT !.pc = "prepare", !.version = v, !.todo = @ \ {v}]
  BY Zenon DEF backfillNext
<1>3. v \in Versions /\ sw.backfill
  BY <1>1 DEF TypeOK, SwitchInv
<1>4. CASE /\ sw' = [sw EXCEPT !.todo = @ \ {v}] /\ UNCHANGED obj
           /\ missed' = IF disk[v] = "none" THEN missed ELSE missed \cup {v}
  <2>1. /\ sw' \in [pc : {"backfill", "free", "prepare", "advertise"},
                    version : Versions \cup {0}, todo : SUBSET Versions, backfill : BOOLEAN]
        /\ sw'.pc = "backfill" /\ sw'.todo = sw.todo \ {v} /\ sw'.backfill
    BY <1>1, <1>3, <1>4 DEF TypeOK
  <2>2. missed \subseteq missed' /\ missed' \subseteq missed \cup {v} /\ (disk[v] # "none" => v \in missed')
    BY <1>4
  <2>3. TypeOK' /\ LockInv'
    BY <1>1, <1>3, <1>4, <2>1, <2>2, TypeKeeps DEF TypeOK
  <2>4. SwitchInv'
    BY <1>1, <1>4, <2>1, <2>2 DEF SwitchInv
  <2>5. \A w \in Versions : Entered(w)' <=> Entered(w)
    BY <1>1, <1>4, <2>1 DEF Entered
  <2>6. VersionInv'
    <3> SUFFICES ASSUME NEW w \in Versions PROVE VersionInv!(w)'
      BY DEF VersionInv
    <3> QED BY <1>1, <1>4, <2>2, <2>5 DEF VersionInv
  <2>7. CleanerInv'
    BY <1>1, <1>3, <1>4, <2>2, <2>5 DEF CleanerInv, SwitchInv
  <2> QED BY <2>3, <2>4, <2>6, <2>7 DEF BuildInv
<1>5. CASE /\ newVersion(v) /\ UNCHANGED missed
           /\ sw' = [sw EXCEPT !.pc = "prepare", !.version = v, !.todo = @ \ {v}]
  <2>1. /\ sw' \in [pc : {"backfill", "free", "prepare", "advertise"},
                    version : Versions \cup {0}, todo : SUBSET Versions, backfill : BOOLEAN]
        /\ sw'.pc = "prepare" /\ sw'.version = v /\ sw'.todo = sw.todo \ {v}
        /\ sw'.backfill = sw.backfill
    BY <1>1, <1>3, <1>5, Zenon DEF TypeOK
  <2>2. ~obj[v].made
    BY DEF SwitchInv
  <2> QED BY <1>1, <1>2, <1>3, <1>5, <2>1, <2>2, PrepareKeeps, Zenon
<1> QED BY <1>2, <1>4, <1>5

\* No clause of the invariant can tell the objects from what they were.
SameObjects ==
  \A w \in Versions : /\ obj'[w].made = obj[w].made /\ obj'[w].local = obj[w].local
                      /\ obj'[w].queued = obj[w].queued /\ obj'[w].cancelled = obj[w].cancelled
                      /\ obj'[w].closing = obj[w].closing /\ obj'[w].closed = obj[w].closed
                      /\ obj[w] = NoObject => obj'[w] = NoObject

\* A step that leaves the objects made, the mux and the directories as they are
\* keeps what is said of versions.
LEMMA SameVersions ==
  ASSUME BuildInv, UNCHANGED <<disk, mux, build>>, missed' = missed,
         \A w \in Versions : Entered(w)' <=> Entered(w),
         SameObjects,
         \A w \in Versions : obj[w].cancelled /\ cleaner'.version # w =>
                               cleaner.version # w \/ disk[w] = "none"
  PROVE  VersionInv'
<1> SUFFICES ASSUME NEW w \in Versions PROVE VersionInv!(w)'
  BY DEF VersionInv
<1> QED BY DEF BuildInv, VersionInv, SameObjects

LEMMA BackfillDoneKeeps == ASSUME BuildInv, backfillDone PROVE BuildInv'
<1> TypeOK /\ SwitchInv /\ VersionInv /\ CleanerInv /\ LockInv
  BY DEF BuildInv
<1>1. /\ sw.pc = "backfill" /\ sw.todo = {} /\ sw' = Idle /\ removals' = removals \cup {0}
      /\ UNCHANGED <<disk, mux, current, obj, build, others, cleaner, missed>>
  BY DEF backfillDone
<1>2. /\ sw' \in [pc : {"backfill", "free", "prepare", "advertise"},
                  version : Versions \cup {0}, todo : SUBSET Versions, backfill : BOOLEAN]
      /\ sw'.pc = "free" /\ sw'.todo = {} /\ ~sw'.backfill
  BY <1>1 DEF Idle
<1>3. TypeOK' /\ LockInv'
  BY <1>1, <1>2, TypeKeeps DEF TypeOK
<1>4. SwitchInv'
  BY <1>1, <1>2 DEF SwitchInv
<1>5. \A w \in Versions : Entered(w)' <=> Entered(w)
  BY <1>1, <1>2 DEF Entered
<1>6. VersionInv'
  BY <1>1, <1>5, SameVersions DEF SameObjects
<1>7. CleanerInv'
  BY <1>1, <1>5 DEF CleanerInv, Cleanable, TypeOK
<1> QED BY <1>3, <1>4, <1>6, <1>7 DEF BuildInv

\* switchVersion gives the version to the mux.
LEMMA SwitchPrepareKeeps == ASSUME BuildInv, switchPrepare PROVE BuildInv'
<1> TypeOK /\ SwitchInv /\ VersionInv /\ CleanerInv /\ LockInv
  BY DEF BuildInv
<1>0. PICK v : v = sw.version
  OBVIOUS
<1> DEFINE o == [obj[v] EXCEPT !.queued = @ + 1]
<1>1. /\ sw.pc = "prepare" /\ mux' = mux \cup {v} /\ obj' = [obj EXCEPT ![v] = o]
      /\ sw' = [sw EXCEPT !.pc = "advertise"]
      /\ UNCHANGED <<disk, current, build, others, removals, cleaner, missed>>
  BY <1>0 DEF switchPrepare, TypeOK
<1>2. v \in Versions /\ obj[v].made /\ ~Entered(v) /\ v \notin mux /\ build[v] = "none"
      /\ obj[v].queued = 0 /\ ~obj[v].cancelled /\ obj[v] \in ObjType
  BY <1>0, <1>1 DEF SwitchInv, VersionInv, Entered, TypeOK
<1>3. /\ o \in ObjType /\ o.made = obj[v].made /\ o.local = obj[v].local
      /\ o.cancelled = obj[v].cancelled /\ o.closing = obj[v].closing /\ o.closed = obj[v].closed
  <2>1. obj[v].queued + 1 \in 0..MaxBuilds
    BY <1>2, BuildAssumption
  <2> QED BY <1>2, <2>1, Zenon DEF ObjType
<1>4. obj'[v] = o /\ obj' \in [Versions -> ObjType] /\ \A w \in Versions \ {v} : obj'[w] = obj[w]
  BY <1>1, <1>2, <1>3 DEF TypeOK
<1>5. /\ sw' \in [pc : {"backfill", "free", "prepare", "advertise"},
                  version : Versions \cup {0}, todo : SUBSET Versions, backfill : BOOLEAN]
      /\ sw'.pc = "advertise" /\ sw'.version = v /\ sw'.todo = sw.todo
      /\ sw'.backfill = sw.backfill
  BY <1>0, <1>1 DEF TypeOK
<1> HIDE DEF o
<1>6. TypeOK' /\ LockInv'
  BY <1>1, <1>2, <1>4, <1>5, TypeKeeps DEF TypeOK
<1>7. Entered(v)' /\ \A w \in Versions \ {v} : Entered(w)' <=> Entered(w)
  BY <1>0, <1>1, <1>2, <1>3, <1>4, <1>5, Zenon DEF Entered
<1>8. SwitchInv'
  <2>1. sw.todo \subseteq Versions /\ \A w \in Versions : obj'[w].made = obj[w].made
    BY <1>2, <1>3, <1>4, Zenon DEF TypeOK
  <2>2. disk' = disk /\ missed' = missed /\ removals' = removals /\ cleaner' = cleaner
        /\ current' = current
    BY <1>1
  <2> QED BY <1>0, <1>1, <1>2, <1>5, <2>1, <2>2 DEF SwitchInv
<1>9. VersionInv'
  <2> SUFFICES ASSUME NEW w \in Versions PROVE VersionInv!(w)'
    BY DEF VersionInv
  <2>1. CASE w = v
    BY <1>1, <1>2, <1>3, <1>4, <1>7, <2>1, Zenon DEF VersionInv
  <2>2. CASE w # v
    BY <1>1, <1>4, <1>7, <2>2 DEF VersionInv
  <2> QED BY <2>1, <2>2
<1>10. CleanerInv'
  <2>1. \A w \in Versions : Cleanable(w) => Cleanable(w)'
    BY <1>1, <1>2, <1>3, <1>4, <1>7 DEF Cleanable
  <2>2. cleaner.pc \in {"remove", "close", "delete"} => cleaner.version # v
    BY <1>2 DEF CleanerInv
  <2>3. cleaner.pc = "clear" => cleaner.version # v \/ v \in missed
    BY <1>2 DEF CleanerInv, Cleanable
  <2> QED BY <1>1, <1>7, <2>1, <2>2, <2>3 DEF CleanerInv, TypeOK
<1> QED BY <1>6, <1>8, <1>9, <1>10 DEF BuildInv

LEMMA UpgradeFacts ==
  ASSUME TypeOK, NEW v \in Versions, upgrade(v)
  PROVE  /\ current' \in Versions \cup {0} /\ \A w \in Nat : w < current \/ w < v => w < current'
         /\ removals' \subseteq Versions \cup {0} /\ (0 \in removals' => 0 \in removals)
<1>1. v \in Nat /\ current \in Nat /\ 0 \notin Versions /\ mux \subseteq Versions
  BY Numbers, BuildAssumption DEF TypeOK
<1>2. /\ current' \in {current, v} /\ (v < current => current' = current)
      /\ (~(v < current) => current' = v)
      /\ removals' \subseteq removals \cup {v} \cup mux
  BY DEF upgrade
<1>3. \A w \in Nat : w < current \/ w < v => w < current'
  BY <1>1, <1>2
<1>4. removals \subseteq Versions \cup {0} /\ current \in Versions \cup {0}
  BY DEF TypeOK
<1> QED BY <1>1, <1>2, <1>3, <1>4

\* advertised and waiting are what no clause of the invariant reads.
LEMMA FlagFacts ==
  ASSUME BuildInv, NEW v \in Versions, obj[v] # NoObject, NEW a \in BOOLEAN, NEW b \in BOOLEAN,
         obj' = [obj EXCEPT ![v] = [@ EXCEPT !.advertised = a, !.waiting = b]]
  PROVE  obj' \in [Versions -> ObjType] /\ SameObjects
<1> DEFINE o == [obj[v] EXCEPT !.advertised = a, !.waiting = b]
<1>1. obj \in [Versions -> ObjType] /\ obj' = [obj EXCEPT ![v] = o] /\ obj[v] \in ObjType
  BY DEF BuildInv, TypeOK
<1>2. /\ o \in ObjType /\ o.made = obj[v].made /\ o.local = obj[v].local
      /\ o.queued = obj[v].queued /\ o.cancelled = obj[v].cancelled
      /\ o.closing = obj[v].closing /\ o.closed = obj[v].closed
  BY <1>1, Zenon DEF ObjType
<1> HIDE DEF o
<1> QED BY <1>1, <1>2 DEF SameObjects

\* switchVersion's second half, and its goroutine.
SwitchReturns(v) ==
  /\ sw.pc = "advertise" /\ sw.version = v
  /\ sw' \in [pc : {"backfill", "free"}, version : {0}, todo : SUBSET Versions, backfill : BOOLEAN]
  /\ sw'.backfill = sw.backfill /\ (sw'.pc = "backfill" <=> sw.backfill)
  /\ sw'.todo = sw.todo \/ (sw'.todo = {} /\ upgrade(v))
LEMMA UpgradeKeeps ==
  ASSUME BuildInv, NEW v \in Versions, obj' \in [Versions -> ObjType],
         SameObjects,
         upgrade(v) \/ UNCHANGED <<current, removals>>,
         UNCHANGED <<disk, mux, build, others, cleaner, missed>>,
         sw' = sw \/ SwitchReturns(v)
  PROVE  BuildInv'
<1> TypeOK /\ SwitchInv /\ VersionInv /\ CleanerInv /\ LockInv
  BY DEF BuildInv
<1>1. /\ current' \in Versions \cup {0} /\ \A w \in Nat : w < current => w < current'
      /\ removals' \subseteq Versions \cup {0} /\ (0 \in removals' => 0 \in removals)
  BY UpgradeFacts DEF TypeOK
<1>2. /\ sw' \in [pc : {"backfill", "free", "prepare", "advertise"},
                  version : Versions \cup {0}, todo : SUBSET Versions, backfill : BOOLEAN]
      /\ sw'.backfill = sw.backfill
      /\ sw'.todo \subseteq sw.todo
  BY DEF TypeOK, SwitchReturns
<1>3. TypeOK' /\ LockInv'
  BY <1>1, <1>2, TypeKeeps DEF TypeOK
<1>4. \A w \in Versions : Entered(w)' <=> Entered(w)
  BY DEF Entered, SwitchReturns, SameObjects
<1>5. Versions \subseteq Nat
  BY Numbers
<1>6. \A w \in Versions : ~obj[w].made /\ disk[w] # "none" =>
        w \in missed \/ w \in sw'.todo \/ w < current'
  <2> SUFFICES ASSUME NEW w \in Versions, ~obj[w].made, disk[w] # "none", w \in sw.todo
               PROVE  w \in sw'.todo \/ w < current'
    BY <1>1, <1>5 DEF SwitchInv
  <2>1. CASE sw'.todo = sw.todo
    BY <2>1
  <2>2. CASE sw'.todo # sw.todo
    <3>1. w < v /\ upgrade(v)
      BY <2>2 DEF SwitchInv, SwitchReturns
    <3> QED BY <1>5, <3>1, UpgradeFacts
  <2> QED BY <2>1, <2>2
<1>7. SwitchInv'
  <2>1. CASE sw' = sw
    BY <1>1, <1>6, <2>1 DEF SwitchInv, TypeOK, SameObjects
  <2>2. CASE sw' # sw
    BY <1>1, <1>2, <1>6, <2>2 DEF SwitchInv, SwitchReturns, TypeOK, SameObjects
  <2> QED BY <2>1, <2>2
<1>8. VersionInv'
  BY <1>4, SameVersions
<1>9. CleanerInv'
  BY <1>1, <1>4, <1>5, Zenon DEF CleanerInv, Cleanable, TypeOK, SameObjects
<1> QED BY <1>3, <1>7, <1>8, <1>9 DEF BuildInv

LEMMA SwitchAdvertiseKeeps == ASSUME BuildInv, switchAdvertise PROVE BuildInv'
<1> TypeOK /\ SwitchInv /\ VersionInv /\ CleanerInv /\ LockInv
  BY DEF BuildInv
<1>0. PICK v : v = sw.version
  OBVIOUS
<1> DEFINE pc == IF sw.backfill THEN "backfill" ELSE "free"
<1>1. /\ sw.pc = "advertise" /\ UNCHANGED <<disk, mux, build, others, cleaner, missed>>
      /\ v \in Versions /\ obj[v] \in ObjType /\ obj[v] # NoObject
  BY <1>0 DEF switchAdvertise, SwitchInv, NoObject, TypeOK
<1>2. CASE /\ upgrade(v) /\ obj' = [obj EXCEPT ![v].advertised = TRUE]
           /\ sw' = [sw EXCEPT !.pc = pc, !.version = 0, !.todo = {}]
  <2>1. obj' = [obj EXCEPT ![v] = [@ EXCEPT !.advertised = TRUE, !.waiting = obj[v].waiting]]
    BY <1>1, <1>2, Zenon DEF TypeOK, ObjType
  <2>2. /\ sw' \in [pc : {"backfill", "free"}, version : {0},
                    todo : SUBSET Versions, backfill : BOOLEAN]
        /\ sw'.backfill = sw.backfill /\ sw'.pc = pc /\ sw'.todo = {}
    BY <1>2, Zenon DEF TypeOK
  <2>3. obj[v].waiting \in BOOLEAN
    BY <1>1 DEF ObjType
  <2>4. obj' \in [Versions -> ObjType] /\ SameObjects
    BY <1>1, <2>1, <2>3, FlagFacts, Zenon
  <2>5. SwitchReturns(v)
    BY <1>0, <1>1, <1>2, <2>2 DEF SwitchReturns
  <2> QED BY <1>1, <1>2, <2>4, <2>5, UpgradeKeeps, Zenon
<1>3. CASE /\ obj' = [obj EXCEPT ![v] = [@ EXCEPT !.advertised = TRUE, !.waiting = TRUE]]
           /\ sw' = [sw EXCEPT !.pc = pc, !.version = 0] /\ UNCHANGED <<current, removals>>
  <2>1. /\ sw' \in [pc : {"backfill", "free"}, version : {0},
                    todo : SUBSET Versions, backfill : BOOLEAN]
        /\ sw'.backfill = sw.backfill /\ sw'.pc = pc /\ sw'.todo = sw.todo
    BY <1>3, Zenon DEF TypeOK
  <2>2. obj' \in [Versions -> ObjType] /\ SameObjects
    BY <1>1, <1>3, FlagFacts, Zenon
  <2>3. SwitchReturns(v)
    BY <1>0, <1>1, <1>3, <2>1 DEF SwitchReturns
  <2> QED BY <1>1, <1>3, <2>2, <2>3, UpgradeKeeps
<1> QED BY <1>0, <1>2, <1>3 DEF switchAdvertise

LEMMA UpgradeWhenReadyKeeps ==
  ASSUME BuildInv, NEW v \in Versions, upgradeWhenReady(v) PROVE BuildInv'
<1>1. /\ obj[v].waiting /\ upgrade(v) /\ obj' = [obj EXCEPT ![v].waiting = FALSE]
      /\ UNCHANGED <<disk, mux, build, others, sw, cleaner, missed>>
  BY DEF upgradeWhenReady
<1>2. obj[v] \in ObjType /\ obj \in [Versions -> ObjType] /\ obj[v] # NoObject
  BY <1>1 DEF BuildInv, TypeOK, NoObject
<1>3. obj' = [obj EXCEPT ![v] = [@ EXCEPT !.advertised = obj[v].advertised, !.waiting = FALSE]]
  BY <1>1, <1>2, Zenon DEF ObjType
<1>4. obj[v].advertised \in BOOLEAN
  BY <1>2 DEF ObjType
<1>5. obj' \in [Versions -> ObjType] /\ SameObjects
  BY <1>2, <1>3, <1>4, FlagFacts, Zenon
<1> QED BY <1>1, <1>5, UpgradeKeeps, Zenon

-----------------------------------------------------------------------------
(* removeVersion and cleanupStore. *)

CleanerType == [pc : {"free", "remove", "close", "delete", "scan", "clear"},
                version : Versions \cup {0}, todo : SUBSET Versions]

\* cleanupLock passes on, and nothing else happens.
LEMMA CleanerKeeps ==
  ASSUME BuildInv, UNCHANGED <<disk, mux, current, obj, build, others, sw, missed>>,
         removals' \subseteq removals, cleaner' \in CleanerType, cleaner.version = 0,
         sw.backfill => cleaner'.pc \notin {"scan", "clear"}, CleanerInv'
  PROVE  BuildInv'
<1>1. TypeOK' /\ LockInv'
  BY TypeKeeps DEF BuildInv, TypeOK, CleanerType
<1>2. SwitchInv'
  BY DEF BuildInv, SwitchInv
<1>3. \A w \in Versions : w # 0
  BY BuildAssumption
<1>4. VersionInv'
  <2>1. \A w \in Versions : Entered(w)' <=> Entered(w)
    BY DEF Entered
  <2> QED BY <1>3, <2>1, SameVersions DEF SameObjects
<1> QED BY <1>1, <1>2, <1>4 DEF BuildInv

LEMMA RemoveVersionKeeps ==
  ASSUME BuildInv, NEW v \in Versions, removeVersion(v) PROVE BuildInv'
<1>1. /\ cleaner = Free /\ removals' = removals \ {v}
      /\ UNCHANGED <<disk, mux, current, obj, build, others, sw, missed>>
      /\ cleaner' = IF v \in mux THEN [Free EXCEPT !.pc = "remove", !.version = v] ELSE Free
  BY DEF removeVersion
<1>2. /\ cleaner.version = 0 /\ cleaner' \in CleanerType
      /\ \/ cleaner'.pc = "free"
         \/ cleaner'.pc = "remove" /\ cleaner'.version = v /\ v \in mux
  BY <1>1, Zenon DEF Free, CleanerType
<1>3. v \in mux => Entered(v)'
  BY <1>1, VersionFacts DEF Entered
<1>4. CleanerInv'
  BY <1>2, <1>3 DEF CleanerInv, Entered
<1> QED BY <1>1, <1>2, <1>4, CleanerKeeps

LEMMA CleanupListKeeps == ASSUME BuildInv, cleanupList PROVE BuildInv'
<1> DEFINE todo == {v \in Versions : disk[v] # "none"}
<1>1. /\ 0 \in removals /\ cleaner = Free /\ removals' = removals \ {0}
      /\ UNCHANGED <<disk, mux, current, obj, build, others, sw, missed>>
      /\ cleaner' = [pc |-> "scan", version |-> 0, todo |-> todo]
  BY DEF cleanupList
<1>2. ~sw.backfill /\ sw.todo = {}
  BY <1>1 DEF BuildInv, SwitchInv
<1>3. \A w \in todo : Cleanable(w)'
  <2>1. \A w \in todo : Cleanable(w)
    BY <1>2 DEF BuildInv, SwitchInv, Cleanable, Entered
  <2> QED BY <1>1, <2>1 DEF Cleanable, Entered
<1>4. /\ cleaner' \in CleanerType /\ cleaner.version = 0
      /\ cleaner'.pc = "scan" /\ cleaner'.version = 0 /\ cleaner'.todo = todo
  BY <1>1 DEF CleanerType, Free
<1> HIDE DEF todo
<1>5. CleanerInv'
  BY <1>3, <1>4 DEF CleanerInv
<1> QED BY <1>1, <1>2, <1>4, <1>5, CleanerKeeps

LEMMA CleanupCheckKeeps == ASSUME BuildInv, cleanupCheck PROVE BuildInv'
<1>1. /\ cleaner.pc = "scan"
      /\ UNCHANGED <<disk, mux, current, obj, build, others, sw, missed, removals>>
  BY DEF cleanupCheck
<1>2. /\ cleaner.version = 0 /\ ~sw.backfill /\ \A w \in cleaner.todo : Cleanable(w)
      /\ cleaner.todo \subseteq Versions
  BY <1>1 DEF BuildInv, CleanerInv, SwitchInv, TypeOK
<1>3. \A w : Cleanable(w) => Cleanable(w)'
  BY <1>1 DEF Cleanable, Entered
<1>4. CASE cleaner' = Free
  <2>1. cleaner' \in CleanerType /\ cleaner'.pc = "free"
    BY <1>4 DEF Free, CleanerType
  <2>2. CleanerInv'
    BY <2>1 DEF CleanerInv
  <2> QED BY <1>1, <1>2, <2>1, <2>2, CleanerKeeps
<1>5. ASSUME NEW v \in cleaner.todo,
             cleaner' = [pc |-> IF v \in mux THEN "scan" ELSE "clear",
                         version |-> IF v \in mux THEN 0 ELSE v,
                         todo |-> cleaner.todo \ {v}]
      PROVE  BuildInv'
  <2>1. /\ cleaner' \in CleanerType /\ cleaner'.todo = cleaner.todo \ {v}
        /\ \/ cleaner'.pc = "scan" /\ cleaner'.version = 0
           \/ cleaner'.pc = "clear" /\ cleaner'.version = v /\ v \notin mux
    BY <1>2, <1>5 DEF CleanerType
  <2>2. CleanerInv'
    BY <1>1, <1>2, <1>3, <1>5, <2>1 DEF CleanerInv
  <2> QED BY <1>1, <1>2, <2>1, <2>2, CleanerKeeps
<1> QED BY <1>4, <1>5 DEF cleanupCheck

\* A directory is deleted.
LEMMA DeleteKeeps ==
  ASSUME BuildInv, NEW v \in Versions, disk' = [disk EXCEPT ![v] = "none"],
         UNCHANGED <<mux, current, obj, build, others, sw, removals, missed>>,
         cleaner.version = v, cleaner.pc \in {"delete", "clear"},
         cleaner' \in CleanerType, cleaner'.pc \in {"free", "scan"}, cleaner'.version = 0,
         cleaner'.pc = "scan" => cleaner.pc = "clear" /\ cleaner'.todo = cleaner.todo
  PROVE  BuildInv'
<1> TypeOK /\ SwitchInv /\ VersionInv /\ CleanerInv /\ LockInv
  BY DEF BuildInv
<1>1. /\ disk' \in [Versions -> {"none", "empty", "junk", "saved"}]
      /\ disk'[v] = "none" /\ \A w \in Versions \ {v} : disk'[w] = disk[w]
  BY DEF TypeOK
<1>2. TypeOK' /\ LockInv'
  BY <1>1, TypeKeeps DEF TypeOK, CleanerType
<1>3. SwitchInv'
  BY <1>1 DEF SwitchInv, TypeOK
<1>4. \A w \in Versions : (Entered(w)' <=> Entered(w)) /\ (Cleanable(w) => Cleanable(w)')
  BY DEF Entered, Cleanable
<1>5. v \in missed \/ (v \notin mux /\ (Entered(v) \/ ~obj[v].made))
  BY DEF CleanerInv, Cleanable
<1>6. VersionInv'
  <2> SUFFICES ASSUME NEW w \in Versions PROVE VersionInv!(w)'
    BY DEF VersionInv
  <2>1. CASE w = v
    <3>1. ~obj[v].made => ~obj[v].local
      BY DEF VersionInv, NoObject
    <3> QED BY <1>1, <1>4, <1>5, <2>1, <3>1 DEF VersionInv
  <2>2. CASE w # v
    BY <1>1, <1>4, <2>2 DEF VersionInv
  <2> QED BY <2>1, <2>2
<1>7. CleanerInv'
  BY <1>4 DEF CleanerInv, TypeOK
<1> QED BY <1>2, <1>3, <1>6, <1>7 DEF BuildInv

LEMMA RemoveNextKeeps == ASSUME BuildInv, removeNext PROVE BuildInv'
<1> TypeOK /\ SwitchInv /\ VersionInv /\ CleanerInv /\ LockInv
  BY DEF BuildInv
<1>0. PICK v : v = cleaner.version
  OBVIOUS
<1>1. UNCHANGED <<current, build, others, sw, removals, missed>> /\ cleaner \in CleanerType
  BY DEF removeNext, TypeOK, CleanerType
<1>2. CASE /\ cleaner.pc = "remove" /\ mux' = mux \ {v}
           /\ cleaner' = [cleaner EXCEPT !.pc = "close"] /\ UNCHANGED <<disk, obj>>
  <2>1. v \in Versions /\ Entered(v)
    BY <1>0, <1>2 DEF CleanerInv
  <2>2. cleaner' \in CleanerType /\ cleaner'.pc = "close" /\ cleaner'.version = v
    BY <1>0, <1>1, <1>2 DEF CleanerType
  <2>3. TypeOK' /\ LockInv'
    BY <1>1, <1>2, <2>2, TypeKeeps DEF TypeOK, CleanerType
  <2>4. \A w \in Versions : Entered(w)' <=> Entered(w)
    BY <1>1, <1>2 DEF Entered
  <2>5. SwitchInv'
    BY <1>1, <1>2, <2>2 DEF SwitchInv
  <2>6. VersionInv'
    <3> SUFFICES ASSUME NEW w \in Versions PROVE VersionInv!(w)'
      BY DEF VersionInv
    <3> QED BY <1>0, <1>1, <1>2, <2>2, <2>4 DEF VersionInv
  <2>7. CleanerInv'
    BY <1>2, <2>1, <2>2, <2>4 DEF CleanerInv
  <2> QED BY <2>3, <2>5, <2>6, <2>7 DEF BuildInv
<1>3. CASE /\ cleaner.pc = "close" /\ UNCHANGED <<disk, mux>>
           /\ obj' = [obj EXCEPT ![v] = [@ EXCEPT !.cancelled = TRUE, !.closing = TRUE]]
           /\ cleaner' = [cleaner EXCEPT !.pc = "delete"]
  <2> DEFINE o == [obj[v] EXCEPT !.cancelled = TRUE, !.closing = TRUE]
  <2>1. v \in Versions /\ Entered(v) /\ v \notin mux /\ obj[v] \in ObjType
    BY <1>0, <1>3 DEF CleanerInv, TypeOK
  <2>2. cleaner' \in CleanerType /\ cleaner'.pc = "delete" /\ cleaner'.version = v
    BY <1>0, <1>1, <1>3 DEF CleanerType
  <2>3. /\ o \in ObjType /\ o.made = obj[v].made /\ o.local = obj[v].local /\ o.cancelled
        /\ o.closed = obj[v].closed
    BY <2>1, Zenon DEF ObjType
  <2>4. obj' \in [Versions -> ObjType] /\ obj'[v] = o /\ \A w \in Versions \ {v} : obj'[w] = obj[w]
    BY <1>3, <2>1, <2>3 DEF TypeOK
  <2> HIDE DEF o
  <2>5. TypeOK' /\ LockInv'
    BY <1>1, <1>3, <2>2, <2>4, TypeKeeps DEF TypeOK, CleanerType
  <2>6. \A w \in Versions : (Entered(w)' <=> Entered(w)) /\ (obj'[w].made <=> obj[w].made)
    BY <1>1, <2>3, <2>4 DEF Entered
  <2>7. SwitchInv'
    BY <1>1, <1>3, <2>2, <2>6 DEF SwitchInv, TypeOK
  <2>8. VersionInv'
    <3> SUFFICES ASSUME NEW w \in Versions PROVE VersionInv!(w)'
      BY DEF VersionInv
    <3>1. CASE w = v
      BY <1>1, <1>3, <2>1, <2>2, <2>3, <2>4, <2>6, <3>1 DEF VersionInv, Entered
    <3>2. CASE w # v
      BY <1>0, <1>1, <1>3, <2>2, <2>4, <2>6, <3>2 DEF VersionInv
    <3> QED BY <3>1, <3>2
  <2>9. CleanerInv'
    BY <1>3, <2>1, <2>2, <2>6 DEF CleanerInv
  <2> QED BY <2>5, <2>7, <2>8, <2>9 DEF BuildInv
<1>4. CASE /\ cleaner.pc = "delete" /\ disk' = [disk EXCEPT ![v] = "none"] /\ cleaner' = Free
           /\ UNCHANGED <<mux, obj>>
  <2>1. v \in Versions
    BY <1>0, <1>4 DEF CleanerInv
  <2>2. cleaner' \in CleanerType /\ cleaner'.pc = "free" /\ cleaner'.version = 0
    BY <1>4 DEF CleanerType, Free
  <2> QED BY <1>0, <1>1, <1>4, <2>1, <2>2, DeleteKeeps, Zenon
<1> QED BY <1>0, <1>2, <1>3, <1>4 DEF removeNext

LEMMA CleanupClearKeeps == ASSUME BuildInv, cleanupClear PROVE BuildInv'
<1>0. PICK v : v = cleaner.version
  OBVIOUS
<1>1. /\ cleaner.pc = "clear" /\ disk' = [disk EXCEPT ![v] = "none"]
      /\ cleaner' = [cleaner EXCEPT !.pc = "scan", !.version = 0]
      /\ UNCHANGED <<mux, current, obj, build, others, sw, removals, missed>>
  BY <1>0 DEF cleanupClear
<1>2. v \in Versions /\ cleaner \in CleanerType
  BY <1>0, <1>1 DEF BuildInv, CleanerInv, TypeOK, CleanerType
<1>3. /\ cleaner' \in CleanerType /\ cleaner'.pc = "scan" /\ cleaner'.version = 0
      /\ cleaner'.todo = cleaner.todo
  BY <1>1, <1>2, Zenon DEF CleanerType
<1> QED BY <1>0, <1>1, <1>2, <1>3, DeleteKeeps, Zenon

-----------------------------------------------------------------------------
(* The theorems. *)

LEMMA BuildInit == Init => BuildInv
<1> SUFFICES ASSUME Init PROVE BuildInv
  OBVIOUS
<1>1. PICK backend \in SUBSET Versions :
        sw = [pc |-> "backfill", version |-> 0, backfill |-> TRUE,
              todo |-> {v \in backend : Cardinality({w \in backend : w > v}) < 3}]
  BY Zenon DEF Init
<1>2. /\ sw \in [pc : {"backfill", "free", "prepare", "advertise"},
                 version : Versions \cup {0}, todo : SUBSET Versions, backfill : BOOLEAN]
      /\ sw.pc = "backfill" /\ sw.backfill
  BY <1>1
<1>3. NoObject \in ObjType /\ ~NoObject.made /\ ~NoObject.local /\ ~NoObject.cancelled
      /\ ~NoObject.closing /\ ~NoObject.closed /\ NoObject.queued = 0
  BY BuildAssumption DEF NoObject, ObjType
<1>4. cleaner \in CleanerType /\ cleaner.pc = "free" /\ cleaner.version = 0
  BY DEF Init, Free, CleanerType
<1>5. obj = [v \in Versions |-> NoObject] /\ build = [v \in Versions |-> "none"]
      /\ mux = {} /\ removals = {} /\ others = 0 /\ current = 0
      /\ missed = {v \in Versions \ sw.todo : disk[v] # "none"}
      /\ disk \in [Versions -> {"none", "empty", "junk", "saved"}]
  BY BuildAssumption, Zenon DEF Init
<1>6. MaxLoads > 0 => SlotsTaken <= MaxLoads
  <2>1. {w \in Versions : build[w] \in HoldsSlot} = {}
    BY <1>5 DEF HoldsSlot, HoldsDB
  <2> QED BY <1>5, <2>1, FS_EmptySet, BuildAssumption DEF SlotsTaken
<1>7. TypeOK
  BY <1>2, <1>3, <1>4, <1>5, <1>6 DEF TypeOK, CleanerType
<1>8. SwitchInv
  BY <1>2, <1>3, <1>4, <1>5 DEF SwitchInv
<1>9. VersionInv
  BY <1>2, <1>3, <1>5 DEF VersionInv, Entered
<1>10. CleanerInv /\ LockInv
  BY <1>4, <1>5 DEF CleanerInv, LockInv, HoldsDB
<1> QED BY <1>7, <1>8, <1>9, <1>10 DEF BuildInv

LEMMA BuildNext == BuildInv /\ [Next]_vars => BuildInv'
<1> SUFFICES ASSUME BuildInv, [Next]_vars PROVE BuildInv'
  OBVIOUS
<1>1. CASE UNCHANGED vars
  <2>1. TypeOK'
    BY <1>1 DEF vars, BuildInv, TypeOK, SlotsTaken
  <2>2. LockInv' /\ SwitchInv'
    BY <1>1 DEF vars, BuildInv, LockInv, SwitchInv
  <2>3. VersionInv' /\ CleanerInv'
    BY <1>1 DEF vars, BuildInv, VersionInv, CleanerInv, Cleanable, Entered
  <2> QED BY <2>1, <2>2, <2>3 DEF BuildInv
<1>2. CASE SwitchStep
  BY <1>2, BackfillNextKeeps, BackfillDoneKeeps, SwitchPrepareKeeps, SwitchAdvertiseKeeps
  DEF SwitchStep
<1>3. CASE CleanupStep
  BY <1>3, RemoveNextKeeps, CleanupListKeeps, CleanupCheckKeeps, CleanupClearKeeps,
     RemoveVersionKeeps DEF CleanupStep
<1>4. ASSUME NEW v \in Versions, BuildStep(v) PROVE BuildInv'
  BY <1>4, BuildLockKeeps, BuildLockDBKeeps, BuildLockSlotKeeps, BuildCheckKeeps, AddFileKeeps,
     BuildSaveKeeps, BuildRevertKeeps DEF BuildStep
<1>5. ASSUME NEW v \in Versions,
             closeStore(v) \/ refresh(v) \/ refreshRetry(v) \/ upgradeWhenReady(v)
      PROVE  BuildInv'
  BY <1>5, CloseStoreKeeps, RefreshKeeps, RefreshRetryKeeps, UpgradeWhenReadyKeeps
<1> QED BY <1>1, <1>2, <1>3, <1>4, <1>5, OtherBuildKeeps DEF Next

\* Backfilling, building, closing, removing and cleaning up keep out of each
\* other's way as BuildInv says, for any number of versions, of queued builds and
\* of slots of the multilock.
THEOREM BuildSafe == Spec => []BuildInv
  BY BuildInit, BuildNext, PTL DEF Spec

\* What a version in the mux claims to have is on disk: neither cleanupStore nor
\* removeVersion deletes it under the version's feet.
THEOREM LocalIsOnDisk == Spec => []LocalOnDisk
<1>1. BuildInv => LocalOnDisk
  BY DEF BuildInv, VersionInv, LocalOnDisk, TypeOK
<1> QED BY <1>1, BuildSafe, PTL

\* No build, running or queued when version.close and version.delete came, brings
\* a removed version back to the disk.
THEOREM GoneIsGone == Spec => []GoneStaysGone
<1>1. BuildInv => GoneStaysGone
  BY DEF BuildInv, VersionInv, GoneStaysGone
<1> QED BY <1>1, BuildSafe, PTL
=============================================================================
