------------------------------ MODULE DBProofs ------------------------------
(***************************************************************************)
(* Proofs about module DB, for any finite set of version names and of      *)
(* clients, distributed or not: the db keeps the contract of its           *)
(* versionMux, so what module VersionMuxProofs proves of the mux holds in  *)
(* the db; with that, DBInv is inductive and gives the rest.               *)
(***************************************************************************)
EXTENDS DB, Sequences, TLAPS

\* What the invariant of the mux says, in the db's terms.
LEMMA MuxFacts ==
  ASSUME Mux!MuxInv
  PROVE  /\ versions \subseteq Versions /\ prepared \subseteq Versions
         /\ retired \subseteq Versions /\ returned \subseteq Versions
         /\ current \in Versions \cup {NoVersion} /\ current \in versions \cup {NoVersion}
         /\ closeTimer \in [Versions -> {Cleanup, NoTimer}]
         /\ rm = [r \in {Cleanup} |-> rm[Cleanup]]
         /\ rm[Cleanup] \in [pc : {"idle", "arm", "timing", "delete", "waiting"},
                             version : Versions \cup {NoVersion}, left : Nat]
         /\ versions \subseteq prepared /\ returned \subseteq prepared \ versions
         /\ rm[Cleanup].pc = "idle" => rm[Cleanup].version = NoVersion
         /\ rm[Cleanup].pc # "idle" => rm[Cleanup].version \in retired
         /\ rm[Cleanup].pc \in {"arm", "timing", "delete"} => rm[Cleanup].version \in versions
         /\ rm[Cleanup].pc = "waiting" =>
              rm[Cleanup].version \in prepared \ (versions \cup returned)
         /\ \A v \in Versions : closeTimer[v] # NoTimer =>
              rm[Cleanup].pc = "timing" /\ rm[Cleanup].version = v
<1> USE DEF Mux!MuxInv
<1>1. /\ versions \subseteq Versions /\ prepared \subseteq Versions
      /\ retired \subseteq Versions /\ returned \subseteq Versions
      /\ current \in Versions \cup {NoVersion}
      /\ closeTimer \in [Versions -> {Cleanup, NoTimer}]
      /\ rm = [r \in {Cleanup} |-> rm[Cleanup]]
      /\ rm[Cleanup] \in [pc : {"idle", "arm", "timing", "delete", "waiting"},
                          version : Versions \cup {NoVersion}, left : Nat]
  BY DBAssumption DEF Mux!TypeOK, Mux!RemoverPC, Removers, current
<1>2. current \in versions \cup {NoVersion}
  BY DEF Mux!CurrentInv, current
<1>3. versions \subseteq prepared /\ returned \subseteq prepared \ versions
  BY DEF Mux!MapInv
<1>4. /\ rm[Cleanup].pc = "idle" => rm[Cleanup].version = NoVersion
      /\ rm[Cleanup].pc # "idle" => rm[Cleanup].version \in retired
      /\ rm[Cleanup].pc \in {"arm", "timing", "delete"} => rm[Cleanup].version \in versions
      /\ rm[Cleanup].pc = "waiting" =>
           rm[Cleanup].version \in prepared \ (versions \cup returned)
  BY DEF Mux!RemoverInv, Removers
<1>5. \A v \in Versions : closeTimer[v] # NoTimer =>
        rm[Cleanup].pc = "timing" /\ rm[Cleanup].version = v
  BY <1>1 DEF Mux!TimerInv, Removers
<1> QED BY <1>1, <1>2, <1>3, <1>4, <1>5

-----------------------------------------------------------------------------
(* The steps, one lemma each: the mux is used within its contract, and the *)
(* db's own part of the invariant is kept.                                 *)

Own == DBType /\ AgeInv /\ RefreshInv /\ CleanupInv /\ CloseInv /\ NoOrphan

Kept == Own' /\ [Mux!Next]_muxVars

\* A step of the mux that moves requests and the clock only.
MuxQuiet ==
  /\ UNCHANGED <<versions, closeTimer, currentVersion, prepared, retired, returned>>
  /\ rm'[Cleanup].pc = rm[Cleanup].pc /\ rm'[Cleanup].version = rm[Cleanup].version

LEMMA ServeQuiet ==
  ASSUME Mux!MuxInv, NEW q \in Requests, Mux!Serve(q)
  PROVE  MuxQuiet /\ Mux!Next
<1>1. Mux!Next
  BY DEF Mux!Next
<1>2. ASSUME NEW v, NEW timer, Mux!acquire(q, v, timer) PROVE MuxQuiet
  BY <1>2, MuxFacts DEF MuxQuiet, Mux!acquire
<1>3. ASSUME Mux!respondNone(q) PROVE MuxQuiet
  BY <1>3 DEF MuxQuiet, Mux!respondNone
<1> QED
  BY <1>1, <1>2, <1>3
     DEF MuxQuiet, Mux!Serve, Mux!getCurrent, Mux!getVersion, Mux!release

LEMMA TickQuiet ==
  ASSUME Mux!MuxInv, Mux!Tick
  PROVE  MuxQuiet /\ Mux!Next
  BY MuxFacts DEF MuxQuiet, Mux!Tick, Mux!Next, Removers

LEMMA SameQuiet ==
  ASSUME UNCHANGED muxVars PROVE MuxQuiet /\ [Mux!Next]_muxVars
  BY DEF MuxQuiet, muxVars

\* A step that touches neither the map nor the other goroutines moves the holder
\* of refreshLock to a state that fits.
LEMMA RefresherKeeps ==
  ASSUME DBInv, MuxQuiet, [Mux!Next]_muxVars,
         UNCHANGED <<backend, vs, up, removals, cleanup, dropped, late, panicked>>,
         refresher' \in RefresherState, RefreshInv', refresher'.pc # "closing",
         refresher.pc \in {"select", "upgrade"} =>
           refresher'.version = refresher.version /\ refresher'.pc = "upgrade"
  PROVE  Kept
<1> USE DEF DBInv, MuxQuiet
<1>1. DBType'
  BY DEF TypeOK, DBType
<1>2. AgeInv' /\ CleanupInv' /\ CloseInv'
  BY DEF AgeInv, CleanupInv, CloseInv, current
<1>3. NoOrphan'
  BY DEF NoOrphan, current
<1> QED BY <1>1, <1>2, <1>3 DEF Own, Kept

\* An object that gets, or loses, the goroutine that waits to upgrade to it.
LEMMA UpgraderSet ==
  ASSUME NEW o \in VersionState, NEW b \in BOOLEAN
  PROVE  /\ [o EXCEPT !.upgrader = b] \in VersionState
         /\ [o EXCEPT !.upgrader = b].upgrader = b
         /\ [o EXCEPT !.upgrader = b].cancelled = o.cancelled
         /\ [o EXCEPT !.upgrader = b].builds = o.builds
  BY Zenon DEF VersionState

LEMMA BackfillVersionsKeeps ==
  ASSUME DBInv, backfillVersions PROVE Kept
<1> USE DEF DBInv, TypeOK
<1>1. \/ \E T \in SUBSET backend :
           refresher' = [refresher EXCEPT !.pc = "next", !.todo = T]
      \/ refresher' = [refresher EXCEPT !.pc = "idle", !.backfill = FALSE]
  <2> DEFINE T == {v \in backend : Cardinality({w \in backend : w > v}) < 3}
  <2>1. T \in SUBSET backend
    OBVIOUS
  <2>2. \/ refresher' = [refresher EXCEPT !.pc = "next", !.todo = T]
        \/ refresher' = [refresher EXCEPT !.pc = "idle", !.backfill = FALSE]
    BY DEF backfillVersions
  <2> HIDE DEF T
  <2> QED BY <2>1, <2>2, Zenon
<1>2. /\ refresher.pc = "boot" /\ refresher.version \notin backend /\ prepared' = prepared
      /\ UNCHANGED <<backend, vs, up, removals, cleanup, dropped, late, panicked>>
  BY DBAssumption DEF RefreshInv, backfillVersions, DBType, NoVersion, muxVars
<1>3. RefreshInv'
  <2>1. CASE refresher' = [refresher EXCEPT !.pc = "idle", !.backfill = FALSE]
    BY <1>2, <2>1 DEF RefreshInv, DBType, RefresherState
  <2>2. ASSUME NEW T \in SUBSET backend,
               refresher' = [refresher EXCEPT !.pc = "next", !.todo = T]
        PROVE  RefreshInv'
    <3>1. /\ refresher'.pc = "next" /\ refresher'.todo = T
          /\ refresher'.version = refresher.version /\ refresher'.backfill = refresher.backfill
      BY <2>2 DEF DBType, RefresherState
    <3> QED BY <1>2, <3>1 DEF RefreshInv
  <2> QED BY <1>1, <2>1, <2>2, Zenon
<1>4. MuxQuiet /\ [Mux!Next]_muxVars
  BY SameQuiet DEF backfillVersions
<1>5. refresher' \in RefresherState
  BY <1>1, Zenon DEF DBType, RefresherState
<1> QED BY <1>1, <1>2, <1>3, <1>4, <1>5, RefresherKeeps, Zenon DEF DBType, RefresherState

LEMMA BackfillNextKeeps ==
  ASSUME DBInv, backfillNext PROVE Kept
<1> USE DEF DBInv, TypeOK, DBType, RefresherState
<1>1. MuxQuiet /\ [Mux!Next]_muxVars /\ refresher.pc = "next" /\ prepared' = prepared
  BY SameQuiet, Zenon DEF backfillNext, muxVars
<1>2. CASE refresher' = [refresher EXCEPT !.pc = "idle", !.backfill = FALSE]
  <2>1. RefreshInv'
    BY <1>1, <1>2, Zenon DEF RefreshInv, backfillNext
  <2> QED BY <1>1, <1>2, <2>1, RefresherKeeps, Zenon DEF backfillNext
<1>3. ASSUME NEW v \in refresher.todo,
             refresher' = [refresher EXCEPT !.pc = "create", !.version = v, !.todo = @ \ {v}]
      PROVE  Kept
  <2>1. RefreshInv'
    BY <1>1, <1>3, Zenon DEF RefreshInv, backfillNext
  <2>2. refresher' \in RefresherState
    BY <1>3, Zenon
  <2> QED BY <1>1, <1>3, <2>1, <2>2, RefresherKeeps, Zenon DEF backfillNext
<1> QED BY <1>2, <1>3, Zenon DEF backfillNext

LEMMA RefreshStartKeeps ==
  ASSUME DBInv, refreshStart PROVE Kept
<1> USE DEF refreshStart, DBInv, TypeOK, DBType, RefresherState
<1>1. MuxQuiet /\ [Mux!Next]_muxVars
  BY ServeQuiet DEF Mux!Serve, Requests
<1>2. RefreshInv'
  BY <1>1 DEF RefreshInv, MuxQuiet
<1> QED BY <1>1, <1>2, MuxFacts, RefresherKeeps, Zenon

LEMMA RefreshReleaseKeeps ==
  ASSUME DBInv, refreshRelease PROVE Kept
<1> USE DEF refreshRelease, goTo, DBInv, TypeOK, DBType, RefresherState
<1>1. MuxQuiet /\ [Mux!Next]_muxVars
  BY ServeQuiet, SameQuiet DEF Mux!Serve, Requests
<1>2. RefreshInv'
  BY <1>1 DEF RefreshInv, MuxQuiet
<1> QED BY <1>1, <1>2, RefresherKeeps

\* The newest version upstream is at least as new as every prepared one.
LEMMA RefreshListKeeps ==
  ASSUME DBInv, refreshList PROVE Kept
<1> USE DEF DBInv, TypeOK, DBType, RefresherState
<1>1. MuxQuiet /\ [Mux!Next]_muxVars /\ refresher.pc = "list" /\ prepared' = prepared
  BY SameQuiet, Zenon DEF refreshList, muxVars
<1>2. CASE goTo("idle")
  <2>1. RefreshInv'
    BY <1>1, <1>2 DEF RefreshInv, refreshList, goTo
  <2> QED BY <1>1, <1>2, <2>1, RefresherKeeps DEF refreshList, goTo
<1>3. ASSUME NEW v \in backend, \A w \in backend : w <= v,
             refresher' = [refresher EXCEPT !.pc = "check", !.version = v]
      PROVE  Kept
  <2>1. RefreshInv'
    BY <1>1, <1>3, Zenon DEF RefreshInv, AgeInv, refreshList
  <2>2. refresher' \in RefresherState
    BY <1>3, Zenon
  <2> QED BY <1>1, <1>3, <2>1, <2>2, RefresherKeeps, Zenon DEF refreshList
<1> QED BY <1>2, <1>3, Zenon DEF refreshList

\* A newest version that is not in the mux was never there: had it left, it would
\* be older than the current version.
LEMMA RefreshCheckKeeps ==
  ASSUME DBInv, refreshCheck PROVE Kept
<1> USE DEF refreshCheck, goTo, DBInv, TypeOK, DBType, RefresherState
<1>1. MuxQuiet /\ [Mux!Next]_muxVars
  BY ServeQuiet, SameQuiet DEF Mux!Serve, Requests, RefreshInv
<1>2. refresher.version \in versions \/ refresher.version \notin prepared
  <2> SUFFICES ASSUME refresher.version \in retired PROVE FALSE
    BY DEF AgeInv
  <2>1. refresher.version < current /\ current \in versions
    BY MuxFacts, DBAssumption DEF AgeInv, NoVersion
  <2>2. current <= refresher.version
    BY <2>1, MuxFacts DEF RefreshInv
  <2> QED BY <2>1, <2>2, MuxFacts, DBAssumption
<1>3. RefreshInv'
  BY <1>1, <1>2 DEF RefreshInv, MuxQuiet
<1> QED BY <1>1, <1>3, RefresherKeeps

-----------------------------------------------------------------------------
(* Steps that change version objects. *)

\* A step of a version's own goroutines: neither its cancel channel nor its
\* upgrader changes.
LEMMA ObjectKeeps ==
  ASSUME DBInv, NEW v \in Versions, NEW o \in VersionState,
         vs' = [vs EXCEPT ![v] = o],
         UNCHANGED <<muxVars, backend, refresher, up, removals, cleanup, dropped, late, panicked>>,
         o.cancelled = vs[v].cancelled, o.upgrader = vs[v].upgrader,
         o.builds # vs[v].builds => vs[v].builds > 0
  PROVE  Kept
<1> USE DEF DBInv, TypeOK, muxVars
<1>1. \A w \in Versions :
        /\ vs'[w].cancelled = vs[w].cancelled /\ vs'[w].upgrader = vs[w].upgrader
        /\ vs[w].builds = 0 => vs'[w].builds = 0
  BY DEF DBType
<1>2. DBType'
  BY DEF DBType
<1>3. AgeInv' /\ CleanupInv'
  BY <1>1 DEF AgeInv, CleanupInv, current
<1>4. RefreshInv'
  BY <1>1 DEF RefreshInv, DBType
<1>5. CloseInv'
  BY <1>1 DEF CloseInv
<1>6. NoOrphan'
  BY <1>1, MuxFacts DEF NoOrphan, current
<1> QED BY <1>2, <1>3, <1>4, <1>5, <1>6 DEF Own, Kept

LEMMA BuildKeeps ==
  ASSUME DBInv, NEW v \in Versions, build(v) PROVE Kept
<1>1. vs[v] \in VersionState /\ vs[v].builds > 0
  BY DEF DBInv, TypeOK, DBType, build
<1>2. PICK done \in BOOLEAN :
        vs' = [vs EXCEPT ![v] = [vs[v] EXCEPT !.builds = @ - 1, !.built = done,
                                     !.complete = @ \/ (done /\ ~Distributed)]]
  BY Zenon DEF build
<1> DEFINE o == [vs[v] EXCEPT !.builds = @ - 1, !.built = done,
                              !.complete = @ \/ (done /\ ~Distributed)]
<1>3. /\ o.cancelled = vs[v].cancelled /\ o.upgrader = vs[v].upgrader
      /\ vs' = [vs EXCEPT ![v] = o]
  BY <1>1, <1>2 DEF VersionState
<1>4. o \in VersionState
  <2>1. vs[v].builds - 1 \in 0..MaxBuilds
    BY <1>1, DBAssumption DEF VersionState
  <2>2. (vs[v].complete \/ (done /\ ~Distributed)) \in BOOLEAN
    OBVIOUS
  <2> QED BY <1>1, <2>1, <2>2, Zenon DEF VersionState
<1> HIDE DEF o
<1> QED BY <1>1, <1>3, <1>4, ObjectKeeps, Zenon DEF build

LEMMA CompleteKeeps ==
  ASSUME DBInv, NEW v \in Versions, peersComplete(v) \/ closeReady(v) PROVE Kept
<1>1. vs[v] \in VersionState
  BY DEF DBInv, TypeOK, DBType
<1>2. \E o \in VersionState : /\ vs' = [vs EXCEPT ![v] = o] /\ o.cancelled = vs[v].cancelled
                              /\ o.upgrader = vs[v].upgrader /\ o.builds = vs[v].builds
  <2>1. CASE vs' = [vs EXCEPT ![v].complete = TRUE]
    <3> DEFINE o == [vs[v] EXCEPT !.complete = TRUE]
    <3>1. o \in VersionState /\ o.cancelled = vs[v].cancelled
          /\ o.upgrader = vs[v].upgrader /\ o.builds = vs[v].builds
      BY <1>1, Zenon DEF VersionState
    <3> QED BY <2>1, <3>1, Zenon
  <2>2. CASE vs' = [vs EXCEPT ![v].ready = TRUE]
    <3> DEFINE o == [vs[v] EXCEPT !.ready = TRUE]
    <3>1. o \in VersionState /\ o.cancelled = vs[v].cancelled
          /\ o.upgrader = vs[v].upgrader /\ o.builds = vs[v].builds
      BY <1>1, Zenon DEF VersionState
    <3> QED BY <2>2, <3>1, Zenon
  <2> QED BY <2>1, <2>2 DEF peersComplete, closeReady
<1>3. UNCHANGED <<muxVars, backend, refresher, up, removals, cleanup, dropped, late, panicked>>
  BY DEF peersComplete, closeReady
<1> QED BY <1>2, <1>3, ObjectKeeps, Zenon

\* refreshLock's holder is done with a version.
LEMMA SwitchedFacts ==
  ASSUME DBInv, NEW wasReady \in BOOLEAN, switched(wasReady)
  PROVE  /\ refresher' \in RefresherState /\ refresher'.pc \in {"next", "idle"}
         /\ refresher'.version = refresher.version
         /\ refresher'.todo \subseteq refresher.todo
         /\ UNCHANGED <<backend, prepared>> => RefreshInv'
<1>1. refresher \in RefresherState
  BY DEF DBInv, TypeOK, DBType
<1>2. /\ refresher' \in RefresherState /\ refresher'.version = refresher.version
      /\ refresher'.todo \subseteq refresher.todo
      /\ refresher'.pc = (IF refresher.backfill THEN "next" ELSE "idle")
      /\ refresher'.backfill = refresher.backfill
  BY <1>1, Zenon DEF switched, RefresherState
<1> QED BY <1>1, <1>2 DEF DBInv, RefreshInv, RefresherState

LEMMA RefreshRetryKeeps ==
  ASSUME DBInv, refreshRetry PROVE Kept
<1> DEFINE v == refresher.version
           o == [vs[v] EXCEPT !.builds = @ + 1]
<1>0. v \in Versions /\ refresher \in RefresherState /\ vs \in [Versions -> VersionState]
  BY DEF DBInv, TypeOK, DBType, RefreshInv, refreshRetry
<1>1. MuxQuiet /\ [Mux!Next]_muxVars
  BY ServeQuiet DEF refreshRetry, Mux!Serve, Requests, DBInv
<1>2. /\ refresher' \in RefresherState /\ refresher'.pc = "idle" /\ refresher.pc = "retry"
      /\ refresher'.version = v /\ refresher'.todo = refresher.todo
      /\ refresher'.backfill = refresher.backfill
  BY <1>0 DEF refreshRetry, goTo, RefresherState
<1>3. o \in VersionState /\ o.cancelled = vs[v].cancelled /\ o.upgrader = vs[v].upgrader
  <2>1. vs[v].builds + 1 \in 0..MaxBuilds
    BY <1>0, DBAssumption DEF refreshRetry, VersionState
  <2> QED BY <1>0, <2>1 DEF VersionState
<1>4. vs' = [vs EXCEPT ![v] = o]
  BY <1>0 DEF refreshRetry, VersionState
<1> HIDE DEF o
<1>5. vs' \in [Versions -> VersionState] /\ \A w \in Versions :
        vs'[w].cancelled = vs[w].cancelled /\ vs'[w].upgrader = vs[w].upgrader
  BY <1>0, <1>3, <1>4
<1> HIDE DEF v
<1> USE DEF DBInv, TypeOK, MuxQuiet
<1>6. UNCHANGED <<backend, up, removals, cleanup, dropped, late, panicked>>
  BY DEF refreshRetry
<1>7. DBType'
  BY <1>2, <1>5, <1>6 DEF DBType
<1>8. AgeInv' /\ CleanupInv' /\ CloseInv'
  BY <1>1, <1>2, <1>5, <1>6 DEF AgeInv, CleanupInv, CloseInv, current
<1>9. RefreshInv'
  BY <1>0, <1>1, <1>2, <1>6 DEF RefreshInv, v
<1>10. NoOrphan'
  BY <1>1, <1>2, <1>5, <1>6, MuxFacts DEF NoOrphan, current
<1> QED BY <1>1, <1>7, <1>8, <1>9, <1>10 DEF Own, Kept

\* The version that is created is not in the mux, so nobody looks at its object yet.
LEMMA NewVersionKeeps ==
  ASSUME DBInv, newVersion PROVE Kept
<1> DEFINE v == refresher.version
<1>0. v \in Versions \ prepared /\ refresher \in RefresherState
      /\ vs \in [Versions -> VersionState] /\ refresher.pc = "create"
  BY Zenon DEF DBInv, TypeOK, DBType, RefreshInv, newVersion
<1>1. MuxQuiet /\ [Mux!Next]_muxVars
      /\ UNCHANGED <<backend, up, removals, cleanup, dropped, late, panicked>>
  BY SameQuiet, Zenon DEF newVersion
<1>2. CASE switched(FALSE) /\ UNCHANGED vs
  BY <1>0, <1>1, <1>2, SwitchedFacts, RefresherKeeps, Zenon DEF MuxQuiet
<1>3. ASSUME NEW complete \in BOOLEAN, goTo("prepare"),
             vs' = [vs EXCEPT ![v] =
               [NoObject EXCEPT !.made = TRUE, !.complete = complete, !.ready = complete]]
      PROVE  Kept
  <2> DEFINE o == [NoObject EXCEPT !.made = TRUE, !.complete = complete, !.ready = complete]
  <2>1. o \in VersionState /\ o.builds = 0 /\ o.upgrader = FALSE /\ o.cancelled = FALSE
    <3>1. NoObject \in VersionState
      <4>1. 0 \in 0..MaxBuilds
        BY DBAssumption
      <4> QED BY <4>1 DEF VersionState, NoObject
    <3>2. NoObject.builds = 0 /\ NoObject.upgrader = FALSE /\ NoObject.cancelled = FALSE
      BY DEF NoObject
    <3> QED BY <3>1, <3>2, Zenon DEF VersionState
  <2>2. vs' = [vs EXCEPT ![v] = o]
    BY <1>3
  <2> HIDE DEF o
  <2>3. vs' \in [Versions -> VersionState] /\ vs'[v] = o
        /\ \A w \in Versions \ {v} : vs'[w] = vs[w]
    BY <1>0, <2>1, <2>2
  <2>4. /\ refresher' \in RefresherState /\ refresher'.pc = "prepare"
        /\ refresher'.version = v /\ refresher'.todo = refresher.todo
        /\ refresher'.backfill = refresher.backfill
    BY <1>0, <1>3 DEF goTo, RefresherState
  <2> USE DEF DBInv, TypeOK, MuxQuiet
  <2>5. DBType'
    BY <1>1, <2>3, <2>4 DEF DBType
  <2>6. AgeInv' /\ CleanupInv' /\ CloseInv'
    BY <1>1, <2>1, <2>3, <2>4 DEF AgeInv, CleanupInv, CloseInv, current
  <2>7. RefreshInv'
    BY <1>0, <1>1, <2>1, <2>3, <2>4 DEF RefreshInv
  <2>8. NoOrphan'
    BY <1>0, <1>1, <2>3, <2>4, MuxFacts DEF NoOrphan, current
  <2> QED BY <1>1, <2>5, <2>6, <2>7, <2>8 DEF Own, Kept
<1> QED BY <1>2, <1>3, Zenon DEF newVersion

\* The version enters the mux for the first time: prepare does not panic.
LEMMA SwitchPrepareKeeps ==
  ASSUME DBInv, switchPrepare PROVE Kept
<1> DEFINE v == refresher.version
           o == [vs[v] EXCEPT !.builds = @ + 1]
<1>0. v \in Versions /\ v \notin prepared /\ v \notin versions /\ v \in backend
      /\ refresher \in RefresherState
      /\ vs \in [Versions -> VersionState] /\ refresher.pc = "prepare" /\ vs[v].builds = 0
  BY MuxFacts DEF DBInv, TypeOK, DBType, RefreshInv, switchPrepare
<1>1. Mux!prepare(v) /\ UNCHANGED <<panicked, backend, up, removals, cleanup, dropped, late>>
  BY <1>0 DEF switchPrepare
<1>2. Mux!Next
  BY <1>0, <1>1 DEF Mux!Next, Mux!Prepare
<1>3. /\ versions' = versions \cup {v} /\ prepared' = prepared \cup {v}
      /\ UNCHANGED <<currentVersion, rm, retired, returned>>
  BY <1>1 DEF Mux!prepare
<1>4. o \in VersionState /\ o.upgrader = vs[v].upgrader /\ o.cancelled = vs[v].cancelled
  BY <1>0, DBAssumption DEF VersionState
<1>5. vs' = [vs EXCEPT ![v] = o]
  BY <1>0 DEF switchPrepare
<1> HIDE DEF o
<1>6. vs' \in [Versions -> VersionState] /\ \A w \in Versions :
        vs'[w].upgrader = vs[w].upgrader /\ vs'[w].cancelled = vs[w].cancelled
  BY <1>0, <1>4, <1>5
<1>7. /\ refresher' \in RefresherState /\ refresher'.pc = "select"
      /\ refresher'.version = v /\ refresher'.todo = refresher.todo
      /\ refresher'.backfill = refresher.backfill
  BY <1>0 DEF switchPrepare, goTo, RefresherState
<1> USE DEF DBInv, TypeOK
<1>8. DBType'
  BY <1>1, <1>6, <1>7 DEF DBType
<1>9. AgeInv' /\ CleanupInv' /\ CloseInv'
  BY <1>0, <1>1, <1>3, <1>6, <1>7 DEF AgeInv, CleanupInv, CloseInv, current
<1>10. RefreshInv'
  BY <1>0, <1>1, <1>3, <1>7 DEF RefreshInv
<1>11. NoOrphan'
  BY <1>0, <1>1, <1>3, <1>6, <1>7, MuxFacts DEF NoOrphan, current
<1> QED BY <1>2, <1>8, <1>9, <1>10, <1>11 DEF Own, Kept

LEMMA SwitchSelectKeeps ==
  ASSUME DBInv, switchSelect PROVE Kept
<1> DEFINE v == refresher.version
<1>0. v \in prepared /\ v \in Versions /\ refresher \in RefresherState
      /\ vs \in [Versions -> VersionState] /\ refresher.pc = "select"
  BY MuxFacts DEF DBInv, TypeOK, DBType, RefreshInv, switchSelect
<1>1. MuxQuiet /\ [Mux!Next]_muxVars
      /\ UNCHANGED <<backend, up, removals, cleanup, dropped, late, panicked>>
  BY SameQuiet DEF switchSelect
<1>2. CASE goTo("upgrade") /\ UNCHANGED vs
  <2>1. /\ refresher' \in RefresherState /\ refresher'.pc = "upgrade"
        /\ refresher'.version = v /\ refresher'.todo = refresher.todo
        /\ refresher'.backfill = refresher.backfill
    BY <1>0, <1>2 DEF goTo, RefresherState
  <2>2. RefreshInv'
    BY <1>0, <1>1, <2>1 DEF RefreshInv, MuxQuiet, DBInv
  <2> QED BY <1>1, <1>2, <2>1, <2>2, RefresherKeeps
<1>3. CASE switched(FALSE) /\ vs' = [vs EXCEPT ![v].upgrader = TRUE]
  <2>1. vs' \in [Versions -> VersionState] /\ vs'[v].upgrader
        /\ \A w \in Versions : /\ vs'[w].cancelled = vs[w].cancelled
                               /\ w # v => vs'[w] = vs[w]
    <3> DEFINE o == [vs[v] EXCEPT !.upgrader = TRUE]
    <3>1. o \in VersionState /\ o.upgrader = TRUE /\ o.cancelled = vs[v].cancelled
      BY <1>0, UpgraderSet
    <3>2. vs' = [vs EXCEPT ![v] = o]
      BY <1>3
    <3> HIDE DEF o
    <3> QED BY <1>0, <3>1, <3>2
  <2>2. /\ refresher' \in RefresherState /\ refresher'.pc \in {"next", "idle"} /\ RefreshInv'
    BY <1>1, <1>3, SwitchedFacts, Zenon DEF MuxQuiet
  <2> USE DEF DBInv, TypeOK, MuxQuiet
  <2>3. DBType'
    BY <1>1, <2>1, <2>2 DEF DBType
  <2>4. AgeInv' /\ CleanupInv' /\ CloseInv'
    BY <1>0, <1>1, <2>1, <2>2 DEF AgeInv, CleanupInv, CloseInv, current
  <2>5. NoOrphan'
    BY <1>0, <1>1, <2>1, <2>2, MuxFacts DEF NoOrphan, current
  <2> QED BY <1>1, <2>2, <2>3, <2>4, <2>5 DEF Own, Kept
<1> QED BY <1>2, <1>3, Zenon DEF switchSelect

-----------------------------------------------------------------------------
(* upgrade, its sweep and the removals. *)

\* upgrade of a version that was prepared: mustGet finds it, or it is too old.
LEMMA UpgradeFacts ==
  ASSUME DBInv, NEW v \in prepared, NEW sync \in BOOLEAN, upgrade(v, sync)
  PROVE  /\ [Mux!Next]_muxVars
         /\ UNCHANGED <<versions, rm, prepared, retired, returned, panicked>>
         /\ up' \in [version : Versions \cup {NoVersion}, old : Versions \cup {NoVersion},
                     sync : BOOLEAN]
         /\ removals \subseteq removals' /\ removals' \subseteq Versions \X BOOLEAN
         /\ \A r \in removals' : r[1] < current'
         /\ \A w \in retired : w < current'
         /\ up' # NoUpgrade => up'.version = current' /\ up'.old < current'
         /\ up' = NoUpgrade => current' = current
         /\ v < current /\ up' = NoUpgrade => <<v, FALSE>> \in removals'
         /\ current' >= current
<1>0. /\ v \in Versions /\ v \in Nat /\ current \in Nat /\ current \in Versions \cup {NoVersion}
      /\ v \notin versions => v < current
      /\ removals \subseteq Versions \X BOOLEAN
      /\ \A w \in retired : w < current /\ w \in Nat
      /\ \A r \in removals : r[1] < current /\ r[1] \in Nat
  BY MuxFacts, DBAssumption DEF DBInv, TypeOK, DBType, AgeInv, NoVersion
<1>1. CASE v < current
  <2>1. UNCHANGED <<muxVars, up, panicked>> /\ up = NoUpgrade
        /\ removals' = removals \cup {<<v, FALSE>>}
    <3>1. v # current /\ ~(v > current) /\ current # NoVersion
      BY <1>0, <1>1 DEF NoVersion
    <3> QED BY <3>1, Zenon DEF upgrade
  <2>2. current' = current /\ UNCHANGED <<versions, rm, prepared, retired, returned>>
    BY <2>1 DEF muxVars, current
  <2>3. \A r \in removals' : r[1] < current
    <3>1. <<v, FALSE>>[1] = v
      OBVIOUS
    <3> QED BY <1>0, <1>1, <2>1, <3>1, Zenon
  <2>4. removals \subseteq removals' /\ removals' \subseteq Versions \X BOOLEAN
        /\ <<v, FALSE>> \in removals'
    <3>1. <<v, FALSE>> \in Versions \X BOOLEAN
      BY <1>0, Zenon
    <3> QED BY <1>0, <2>1, <3>1, Zenon
  <2>5. up' \in [version : Versions \cup {NoVersion}, old : Versions \cup {NoVersion},
                 sync : BOOLEAN]
    BY <2>1 DEF DBInv, TypeOK, DBType
  <2>6. current' >= current /\ \A w \in retired : w < current'
    BY <1>0, <2>2
  <2>7. \A r \in removals' : r[1] < current'
    BY <2>2, <2>3
  <2> QED BY <2>1, <2>2, <2>4, <2>5, <2>6, <2>7, Zenon
<1>2. CASE v = current
  <2>1. UNCHANGED <<muxVars, up, panicked, removals>> /\ up = NoUpgrade
    <3>1. ~(v < current) /\ ~(v > current) /\ current # NoVersion
      BY <1>0, <1>2, DBAssumption DEF NoVersion
    <3> QED BY <3>1, Zenon DEF upgrade
  <2>2. current' = current /\ UNCHANGED <<versions, rm, prepared, retired, returned>>
    BY <2>1 DEF muxVars, current
  <2> QED BY <1>0, <1>2, <2>1, <2>2 DEF DBInv, TypeOK, DBType
<1>3. CASE v > current
  <2>1. /\ Mux!upgrade(v) /\ UNCHANGED <<removals, panicked>>
        /\ up' = [version |-> v, old |-> current, sync |-> sync]
    <3>1. ~(v < current) /\ v # current /\ v \in versions
      BY <1>0, <1>3
    <3> QED BY <3>1, Zenon DEF upgrade
  <2>2. Mux!Next
    BY <1>0, <1>3, <2>1 DEF Mux!Next, Mux!Upgrade
  <2>3. current' = v /\ UNCHANGED <<versions, rm, prepared, retired, returned>>
    BY <2>1 DEF Mux!upgrade, current
  <2>4. up' # NoUpgrade
    BY <1>0, <2>1, DBAssumption DEF NoUpgrade, NoVersion
  <2> QED BY <1>0, <1>3, <2>1, <2>2, <2>3, <2>4
<1> QED BY <1>0, <1>1, <1>2, <1>3

LEMMA UpgradeSyncKeeps ==
  ASSUME DBInv, upgradeSync PROVE Kept
<1> DEFINE v == refresher.version
<1>0. v \in prepared /\ v \in Versions /\ refresher \in RefresherState /\ refresher.pc = "upgrade"
      /\ UNCHANGED <<backend, vs, cleanup, dropped, late>>
  BY MuxFacts DEF DBInv, TypeOK, DBType, RefreshInv, upgradeSync
<1>1. /\ [Mux!Next]_muxVars
      /\ UNCHANGED <<versions, rm, prepared, retired, returned, panicked>>
      /\ up' \in [version : Versions \cup {NoVersion}, old : Versions \cup {NoVersion},
                  sync : BOOLEAN]
      /\ removals \subseteq removals' /\ removals' \subseteq Versions \X BOOLEAN
      /\ \A r \in removals' : r[1] < current'
      /\ \A w \in retired : w < current'
      /\ up' # NoUpgrade => up'.version = current' /\ up'.old < current'
      /\ up' = NoUpgrade => current' = current
      /\ v < current /\ up' = NoUpgrade => <<v, FALSE>> \in removals'
      /\ up = NoUpgrade
  BY <1>0, UpgradeFacts, Zenon DEF upgradeSync, upgrade
<1>2. /\ refresher' \in RefresherState /\ RefreshInv' /\ refresher'.pc # "closing"
  <2>1. CASE switched(TRUE)
    BY <1>0, <1>1, <2>1, SwitchedFacts, Zenon
  <2>2. CASE goTo("sweep")
    <3>1. /\ refresher' \in RefresherState /\ refresher'.pc = "sweep"
          /\ refresher'.version = v /\ refresher'.todo = refresher.todo
          /\ refresher'.backfill = refresher.backfill
      BY <1>0, <2>2 DEF goTo, RefresherState
    <3> QED BY <1>0, <1>1, <3>1 DEF RefreshInv, DBInv
  <2> QED BY <2>1, <2>2, Zenon DEF upgradeSync
<1> USE DEF DBInv, TypeOK
<1>3. DBType'
  BY <1>0, <1>1, <1>2 DEF DBType
<1>4. AgeInv' /\ CleanupInv' /\ CloseInv'
  BY <1>0, <1>1, <1>2 DEF AgeInv, CleanupInv, CloseInv
<1>5. NoOrphan'
  BY <1>0, <1>1, Zenon DEF NoOrphan
<1> QED BY <1>1, <1>2, <1>3, <1>4, <1>5 DEF Own, Kept

LEMMA UpgradeWhenReadyKeeps ==
  ASSUME DBInv, NEW v \in Versions, upgradeWhenReady(v) PROVE Kept
<1>0. v \in prepared /\ vs \in [Versions -> VersionState]
      /\ UNCHANGED <<backend, refresher, cleanup, dropped, late>>
  BY DEF DBInv, TypeOK, DBType, AgeInv, upgradeWhenReady
<1>1. /\ [Mux!Next]_muxVars
      /\ UNCHANGED <<versions, rm, prepared, retired, returned, panicked>>
      /\ up' \in [version : Versions \cup {NoVersion}, old : Versions \cup {NoVersion},
                  sync : BOOLEAN]
      /\ removals \subseteq removals' /\ removals' \subseteq Versions \X BOOLEAN
      /\ \A r \in removals' : r[1] < current'
      /\ \A w \in retired : w < current'
      /\ up' # NoUpgrade => up'.version = current' /\ up'.old < current'
      /\ up' = NoUpgrade => current' = current
      /\ v < current /\ up' = NoUpgrade => <<v, FALSE>> \in removals'
      /\ up = NoUpgrade
  BY <1>0, UpgradeFacts, Zenon DEF upgradeWhenReady, upgrade
<1>2. vs' \in [Versions -> VersionState] /\ ~vs'[v].upgrader
      /\ \A w \in Versions : /\ vs'[w].cancelled = vs[w].cancelled
                             /\ vs'[w].builds = vs[w].builds
                             /\ w # v => vs'[w] = vs[w]
  BY <1>0, Zenon DEF upgradeWhenReady, VersionState
<1> USE DEF DBInv, TypeOK
<1>3. DBType'
  BY <1>0, <1>1, <1>2 DEF DBType
<1>4. AgeInv' /\ CleanupInv' /\ CloseInv'
  BY <1>0, <1>1, <1>2 DEF AgeInv, CleanupInv, CloseInv
<1>5. RefreshInv'
  BY <1>0, <1>1, <1>2 DEF RefreshInv, DBType
<1>6. NoOrphan'
  <2>1. CASE up' # NoUpgrade
    BY <2>1, Zenon DEF NoOrphan
  <2>2. CASE up' = NoUpgrade
    <3>1. current' = current /\ versions' = versions /\ refresher' = refresher
          /\ cleanup' = cleanup /\ removals \subseteq removals' /\ up = NoUpgrade
          /\ (v < current => <<v, FALSE>> \in removals')
      BY <1>0, <1>1, <2>2, Zenon
    <3>2. \A w \in versions : w # v => vs'[w] = vs[w]
      BY <1>2, MuxFacts
    <3>3. NoOrphan
      OBVIOUS
    <3>4. ASSUME NEW w \in versions, w < current, w # v
          PROVE  \/ \E wait \in BOOLEAN : <<w, wait>> \in removals'
                 \/ cleanup.version = w \/ vs'[w].upgrader
                 \/ refresher.version = w /\ refresher.pc \in {"select", "upgrade"}
      BY <3>1, <3>2, <3>3, <3>4, Zenon DEF NoOrphan
    <3> QED BY <3>1, <3>4, Zenon DEF NoOrphan
  <2> QED BY <2>1, <2>2, Zenon
<1> QED BY <1>1, <1>3, <1>4, <1>5, <1>6 DEF Own, Kept

\* The sweep takes everything older than the version upgrade has just switched to.
LEMMA UpgradeSweepKeeps ==
  ASSUME DBInv, upgradeSweep PROVE Kept
<1> DEFINE swept == {w \in versions : w = up.old \/ w < up.version}
<1>0. /\ removals' = removals \cup {<<w, w = up.old>> : w \in swept} /\ up' = NoUpgrade
      /\ UNCHANGED <<muxVars, backend, vs, cleanup, dropped, late, panicked>>
      /\ up.version = current /\ up.old < current
  BY DEF upgradeSweep, DBInv, AgeInv
<1>1. UNCHANGED <<versions, rm, prepared, retired, returned>> /\ current' = current
  BY <1>0 DEF muxVars, current
<1>2. refresher' \in RefresherState /\ RefreshInv'
      /\ (refresher'.pc # "closing" \/ refresher' = refresher)
      /\ (refresher' = refresher \/ up.sync)
  <2>1. CASE switched(TRUE) /\ up.sync
    BY <1>0, <1>1, <2>1, SwitchedFacts, Zenon
  <2>2. CASE UNCHANGED refresher
    BY <1>0, <1>1, <2>2 DEF RefreshInv, DBInv, TypeOK, DBType
  <2> QED BY <2>1, <2>2, Zenon DEF upgradeSweep
<1>3. removals \subseteq removals' /\ \A w \in swept : <<w, w = up.old>> \in removals'
  BY <1>0
<1>4. \A r \in removals' : r \in removals \/ \E w \in swept : r = <<w, w = up.old>>
  BY <1>0
<1>5. removals' \subseteq Versions \X BOOLEAN
  <2> SUFFICES ASSUME NEW r \in removals' PROVE r \in Versions \X BOOLEAN
    OBVIOUS
  <2>1. CASE r \in removals
    BY <2>1 DEF DBInv, TypeOK, DBType
  <2>2. ASSUME NEW w \in swept, r = <<w, w = up.old>> PROVE r \in Versions \X BOOLEAN
    <3>1. w \in Versions /\ (w = up.old) \in BOOLEAN
      BY MuxFacts DEF DBInv
    <3> QED BY <2>2, <3>1, Zenon
  <2> QED BY <1>4, <2>1, <2>2
<1>6. \A r \in removals' : r[1] < current
  <2> SUFFICES ASSUME NEW r \in removals' PROVE r[1] < current
    OBVIOUS
  <2>1. CASE r \in removals
    BY <2>1 DEF DBInv, AgeInv
  <2>2. ASSUME NEW w \in swept, r = <<w, w = up.old>> PROVE r[1] < current
    <3>1. r[1] = w
      BY <2>2
    <3> QED BY <1>0, <3>1
  <2> QED BY <1>4, <2>1, <2>2
<1> USE DEF DBInv, TypeOK
<1>7. DBType'
  BY <1>0, <1>2, <1>5 DEF DBType, NoUpgrade
<1>8. AgeInv' /\ CleanupInv' /\ CloseInv'
  BY <1>0, <1>1, <1>2, <1>6 DEF AgeInv, CleanupInv, CloseInv
<1>9. NoOrphan'
  <2> SUFFICES ASSUME NEW w \in versions, w < current
               PROVE  \E wait \in BOOLEAN : <<w, wait>> \in removals'
    BY <1>1 DEF NoOrphan
  <2>1. w \in swept /\ (w = up.old) \in BOOLEAN
    BY <1>0
  <2> QED BY <1>3, <2>1, Zenon
<1> QED BY <1>0, <1>2, <1>7, <1>8, <1>9 DEF Own, Kept

\* Only an older version is removed, so not the current one.
LEMMA RemoveVersionKeeps ==
  ASSUME DBInv, NEW v \in Versions, NEW shouldWait \in BOOLEAN, removeVersion(v, shouldWait)
  PROVE  Kept
<1> DEFINE began == v \in versions
<1>0. /\ <<v, shouldWait>> \in removals /\ cleanup = Unlocked
      /\ removals' = removals \ {<<v, shouldWait>>}
      /\ UNCHANGED <<backend, vs, refresher, up, dropped, late, panicked>>
      /\ v < current
  <2>1. <<v, shouldWait>>[1] = v
    OBVIOUS
  <2> QED BY <2>1 DEF removeVersion, DBInv, AgeInv
<1>1. Mux!removeBegin(Cleanup, v, shouldWait /\ Distributed)
  BY DEF removeVersion
<1>2. Mux!Next
  <2>1. v # currentVersion.version
    BY <1>0, MuxFacts, DBAssumption DEF DBInv, current, NoVersion
  <2>2. (shouldWait /\ Distributed) \in BOOLEAN
    OBVIOUS
  <2>3. Mux!Remove(Cleanup, v)
    BY <1>1, <2>1, <2>2, Zenon DEF Mux!Remove
  <2> QED BY <2>3 DEF Mux!Next, Removers
<1>3. /\ UNCHANGED <<versions, currentVersion, prepared, returned>>
      /\ retired' = retired \cup {v} /\ current' = current
      /\ rm[Cleanup].pc = "idle" /\ closeTimer[v] = NoTimer
  BY <1>1, MuxFacts DEF Mux!removeBegin, DBInv, current
<1>4. IF v \in versions
      THEN rm'[Cleanup].pc # "idle" /\ rm'[Cleanup].version = v
      ELSE rm' = rm
  BY <1>1, <1>3, MuxFacts DEF Mux!removeBegin, DBInv
<1>5. cleanup' = IF v \in versions THEN [pc |-> "remove", version |-> v] ELSE Unlocked
  BY <1>3, <1>4 DEF removeVersion
<1> USE DEF DBInv, TypeOK
<1>6. DBType'
  BY <1>0, <1>5 DEF DBType, Unlocked
<1>7. AgeInv'
  BY <1>0, <1>3 DEF AgeInv
<1>8. RefreshInv' /\ CloseInv' /\ CleanupInv'
  BY <1>0, <1>3, <1>4, <1>5 DEF RefreshInv, CloseInv, CleanupInv, Unlocked
<1>9. NoOrphan'
  <2> SUFFICES ASSUME NEW w \in versions, w < current
               PROVE  NoOrphan!(w)!2'
    BY <1>3 DEF NoOrphan
  <2>1. CASE w = v
    BY <1>5, <2>1
  <2>2. CASE w # v
    <3>1. \A wait \in BOOLEAN : <<w, wait>> \in removals => <<w, wait>> \in removals'
      BY <1>0, <2>2
    <3>2. cleanup.version # w
      BY <1>0, MuxFacts, DBAssumption DEF Unlocked, NoVersion
    <3> QED BY <1>0, <3>1, <3>2 DEF NoOrphan
  <2> QED BY <2>1, <2>2
<1> QED BY <1>2, <1>6, <1>7, <1>8, <1>9 DEF Own, Kept

\* The sections of mux.remove after the first.
LEMMA RemoveProgressKeeps ==
  ASSUME DBInv, removeProgress PROVE Kept
<1> DEFINE r == rm[Cleanup]
<1>0. /\ cleanup.pc = "remove" /\ r.pc # "idle" /\ cleanup.version = r.version
      /\ UNCHANGED <<backend, vs, refresher, up, removals, dropped, late, panicked>>
      /\ cleanup \in [pc : {"free", "remove", "close"}, version : Versions \cup {NoVersion}]
  BY DEF removeProgress, DBInv, TypeOK, DBType, CleanupInv
<1>1. Mux!Next
  BY DEF removeProgress, Mux!Next, Mux!RemoveStep, Removers
<1> USE DEF DBInv, TypeOK
<1>2. CASE (Mux!removeArm(Cleanup) \/ Mux!removeDelete(Cleanup)) /\ UNCHANGED cleanup
  <2>1. /\ versions' \subseteq versions /\ versions \ versions' \subseteq retired
        /\ UNCHANGED <<currentVersion, prepared, retired, returned>>
        /\ rm'[Cleanup].pc # "idle" /\ rm'[Cleanup].version = r.version
    BY <1>2, MuxFacts DEF Mux!removeArm, Mux!removeDelete
  <2>2. current' = current
    BY <2>1 DEF current
  <2>3. DBType' /\ AgeInv'
    BY <1>0, <1>2, <2>1, <2>2 DEF DBType, AgeInv
  <2>4. RefreshInv' /\ CloseInv' /\ CleanupInv'
    BY <1>0, <1>2, <2>1 DEF RefreshInv, CloseInv, CleanupInv
  <2>5. NoOrphan'
    BY <1>0, <1>2, <2>1, <2>2 DEF NoOrphan
  <2> QED BY <1>1, <2>3, <2>4, <2>5 DEF Own, Kept
<1>3. CASE Mux!removeReturn(Cleanup) /\ cleanup' = [cleanup EXCEPT !.pc = "close"]
  <2>1. /\ UNCHANGED <<versions, currentVersion, prepared, retired>>
        /\ returned' = returned \cup {r.version} /\ r.version \notin returned
        /\ rm'[Cleanup].pc = "idle"
    BY <1>3, MuxFacts DEF Mux!removeReturn, Mux!Inactive
  <2>2. current' = current
    BY <2>1 DEF current
  <2>3. cleanup'.pc = "close" /\ cleanup'.version = r.version
        /\ cleanup' \in [pc : {"free", "remove", "close"}, version : Versions \cup {NoVersion}]
    BY <1>0, <1>3
  <2>4. DBType' /\ AgeInv'
    BY <1>0, <2>1, <2>2, <2>3 DEF DBType, AgeInv
  <2>5. RefreshInv' /\ CloseInv' /\ CleanupInv'
    <3>1. RefreshInv'
      BY <1>0, <2>1 DEF RefreshInv
    <3>2. CloseInv'
      BY <1>0, <2>1, <2>3 DEF CloseInv
    <3>3. CleanupInv'
      BY <1>0, <2>1, <2>3 DEF CleanupInv
    <3> QED BY <3>1, <3>2, <3>3
  <2>6. NoOrphan'
    BY <1>0, <2>1, <2>2, <2>3 DEF NoOrphan
  <2> QED BY <1>1, <2>4, <2>5, <2>6 DEF Own, Kept
<1> QED BY <1>2, <1>3 DEF removeProgress

\* version.close touches the channel cancel only.
LEMMA CancelFacts ==
  ASSUME vs \in [Versions -> VersionState], NEW v \in Versions,
         vs' = [vs EXCEPT ![v].cancelled = TRUE]
  PROVE  /\ vs' \in [Versions -> VersionState]
         /\ \A w \in Versions : /\ vs'[w].upgrader = vs[w].upgrader
                                /\ vs'[w].builds = vs[w].builds
                                /\ w # v => vs'[w] = vs[w]
BY Zenon DEF VersionState

\* Without a drop, only what mux.remove returned is closed, and it was not before.
LEMMA RemoveCloseKeeps ==
  ASSUME DBInv, removeClose PROVE Kept
<1> DEFINE v == cleanup.version
<1>0. /\ cleanup.pc = "close" /\ cleanup' = Unlocked /\ v \in returned
      /\ v \in Versions /\ v \notin versions
      /\ vs \in [Versions -> VersionState]
      /\ UNCHANGED <<muxVars, backend, refresher, up, removals, dropped, late>>
  BY MuxFacts DEF removeClose, DBInv, TypeOK, DBType, CleanupInv
<1>1. UNCHANGED <<versions, rm, prepared, retired, returned>> /\ current' = current
  BY <1>0 DEF muxVars, current
<1>2. vs' \in [Versions -> VersionState]
      /\ \A w \in Versions : /\ vs'[w].upgrader = vs[w].upgrader
                             /\ vs'[w].builds = vs[w].builds
                             /\ w # v => vs'[w] = vs[w]
  <2>1. vs' = [vs EXCEPT ![v].cancelled = TRUE]
    BY DEF removeClose
  <2> QED BY <1>0, <2>1, CancelFacts, Zenon
<1>3. panicked' \in BOOLEAN /\ (~dropped => ~panicked')
  <2>1. panicked' = vs[v].cancelled
    BY DEF removeClose
  <2>2. ~dropped => vs[v].cancelled = FALSE
    BY <1>0 DEF DBInv, CloseInv, VersionState
  <2> QED BY <1>0, <2>1, <2>2 DEF VersionState
<1> HIDE DEF v
<1> USE DEF DBInv, TypeOK
<1>4. DBType'
  BY <1>0, <1>2, <1>3 DEF DBType, Unlocked
<1>5. AgeInv' /\ CleanupInv'
  BY <1>0, <1>1, <1>2 DEF AgeInv, CleanupInv, Unlocked
<1>6. RefreshInv'
  BY <1>0, <1>1, <1>2 DEF RefreshInv, DBType
<1>7. CloseInv'
  BY <1>0, <1>1, <1>2, <1>3 DEF CloseInv, Unlocked
<1>8. NoOrphan'
  BY <1>0, <1>1, <1>2, MuxFacts DEF NoOrphan, v
<1> QED BY <1>0, <1>4, <1>5, <1>6, <1>7, <1>8 DEF Own, Kept

LEMMA CloseDBKeeps ==
  ASSUME DBInv, closeDB PROVE Kept
<1>0. /\ MayDrop /\ dropped' = TRUE /\ late' \subseteq Clients
      /\ refresher.pc = "idle" /\ refresher \in RefresherState
      /\ UNCHANGED <<muxVars, backend, vs, up, removals, cleanup, panicked>>
  BY DEF closeDB, DBInv, TypeOK, DBType
<1>1. UNCHANGED <<versions, rm, prepared, retired, returned>> /\ current' = current
  BY <1>0 DEF muxVars, current
<1>2. /\ refresher' \in RefresherState /\ refresher'.pc = "closing" /\ refresher'.todo = versions
      /\ refresher'.version = refresher.version /\ refresher'.backfill = refresher.backfill
  BY <1>0, MuxFacts, Zenon DEF closeDB, DBInv, RefresherState
<1> USE DEF DBInv, TypeOK
<1>3. DBType'
  BY <1>0, <1>2 DEF DBType
<1>4. AgeInv' /\ CleanupInv' /\ CloseInv'
  BY <1>0, <1>1, <1>2 DEF AgeInv, CleanupInv, CloseInv
<1>5. RefreshInv'
  BY <1>0, <1>1, <1>2, MuxFacts DEF RefreshInv, AgeInv
<1>6. NoOrphan'
  BY <1>0, <1>1, <1>2 DEF NoOrphan
<1> QED BY <1>0, <1>3, <1>4, <1>5, <1>6 DEF Own, Kept

LEMMA CloseNextKeeps ==
  ASSUME DBInv, closeNext PROVE Kept
<1>0. /\ refresher.pc = "closing" /\ refresher \in RefresherState /\ dropped /\ ~refresher.backfill
      /\ vs \in [Versions -> VersionState]
      /\ UNCHANGED <<muxVars, backend, up, removals, cleanup, dropped, late>>
  BY DEF closeNext, DBInv, TypeOK, DBType, CloseInv, RefreshInv
<1>1. UNCHANGED <<versions, rm, prepared, retired, returned>> /\ current' = current
  BY <1>0 DEF muxVars, current
<1>2. /\ refresher' \in RefresherState /\ refresher'.pc \in {"closing", "idle"}
      /\ refresher'.todo \subseteq refresher.todo /\ refresher'.version = refresher.version
      /\ refresher'.backfill = refresher.backfill
  <2>1. CASE goTo("idle")
    BY <1>0, <2>1 DEF goTo, RefresherState
  <2>2. ASSUME NEW v \in refresher.todo, refresher' = [refresher EXCEPT !.todo = @ \ {v}]
        PROVE  <1>2!:
    BY <1>0, <2>2 DEF RefresherState
  <2> QED BY <2>1, <2>2 DEF closeNext
<1>3. /\ vs' \in [Versions -> VersionState]
      /\ \A w \in Versions : vs'[w].upgrader = vs[w].upgrader
      /\ panicked' \in BOOLEAN
  <2>1. CASE UNCHANGED <<vs, panicked>>
    BY <1>0, <2>1 DEF DBInv, TypeOK, DBType
  <2>2. ASSUME NEW v \in refresher.todo, vs' = [vs EXCEPT ![v].cancelled = TRUE],
               panicked' = vs[v].cancelled
        PROVE  <1>3!:
    <3>1. v \in Versions
      BY <1>0 DEF RefresherState
    <3> QED BY <1>0, <2>2, <3>1, CancelFacts, Zenon DEF VersionState
  <2> QED BY <2>1, <2>2 DEF closeNext
<1> USE DEF DBInv, TypeOK
<1>4. DBType'
  BY <1>0, <1>2, <1>3 DEF DBType
<1>5. AgeInv' /\ CleanupInv' /\ CloseInv'
  BY <1>0, <1>1, <1>3 DEF AgeInv, CleanupInv, CloseInv
<1>6. RefreshInv'
  BY <1>0, <1>1, <1>2 DEF RefreshInv
<1>7. NoOrphan'
  BY <1>0, <1>1, <1>2, <1>3, MuxFacts, Zenon DEF NoOrphan
<1> QED BY <1>0, <1>4, <1>5, <1>6, <1>7 DEF Own, Kept

-----------------------------------------------------------------------------
(* Requests, the clock and upstream. *)

LEMMA RequestKeeps ==
  ASSUME DBInv, MuxQuiet, [Mux!Next]_muxVars, late' \subseteq Clients,
         UNCHANGED <<backend, vs, refresher, up, removals, cleanup, dropped, panicked>>
  PROVE  Kept
<1> USE DEF DBInv, TypeOK, MuxQuiet
<1>1. DBType'
  BY DEF DBType
<1>2. current' = current
  BY DEF current
<1>3. AgeInv' /\ CleanupInv' /\ CloseInv'
  BY <1>2 DEF AgeInv, CleanupInv, CloseInv
<1>4. RefreshInv'
  BY <1>2 DEF RefreshInv
<1>5. NoOrphan'
  BY <1>2 DEF NoOrphan
<1> QED BY <1>1, <1>3, <1>4, <1>5 DEF Own, Kept

LEMMA ServeKeyKeeps ==
  ASSUME DBInv, NEW q \in Clients, serveKey(q) PROVE Kept
<1>1. Mux!Serve(q) /\ late' \subseteq Clients
  BY DEF serveKey, Mux!Serve, DBInv, TypeOK, DBType
<1> QED BY <1>1, ServeQuiet, RequestKeeps DEF serveKey, DBInv, Requests

LEMMA TickKeeps ==
  ASSUME DBInv, tick PROVE Kept
BY TickQuiet, RequestKeeps DEF tick, dbVars, DBInv, TypeOK, DBType

LEMMA PublishKeeps ==
  ASSUME DBInv, NEW v \in Versions, publish(v) PROVE Kept
<1> USE DEF DBInv, TypeOK, publish, muxVars
<1>1. DBType'
  BY DEF DBType
<1>2. AgeInv' /\ CleanupInv' /\ CloseInv' /\ NoOrphan'
  BY DEF AgeInv, CleanupInv, CloseInv, NoOrphan, current
<1>3. RefreshInv'
  BY DEF RefreshInv
<1> QED BY <1>1, <1>2, <1>3 DEF Own, Kept

\* Only upgrade changes the current version.
LEMMA OnlyUpgradeSwitches ==
  ASSUME [Next]_vars
  PROVE  \/ currentVersion' = currentVersion
         \/ upgradeSync \/ \E v \in Versions : upgradeWhenReady(v)
<1>1. ASSUME NEW q, Mux!Serve(q) PROVE currentVersion' = currentVersion
  BY <1>1, Zenon DEF Mux!Serve, Mux!getCurrent, Mux!getVersion, Mux!acquire, Mux!respondNone,
              Mux!release
<1>2. CASE BackfillStep \/ refreshStart \/ RefreshStep
  BY <1>1, <1>2, Zenon
     DEF BackfillStep, backfillVersions, backfillNext, refreshStart, RefreshStep,
         refreshRelease, refreshList, refreshCheck, refreshRetry, muxVars, Mux!Serve,
         Mux!getVersion, Mux!acquire
<1>3. CASE newVersion \/ switchPrepare \/ switchSelect \/ upgradeSweep
  BY <1>3, Zenon DEF newVersion, switchPrepare, switchSelect, upgradeSweep, muxVars, Mux!prepare
<1>4. CASE CleanupStep \/ closeDB \/ closeNext
  BY <1>4, Zenon DEF CleanupStep, removeProgress, removeClose, removeVersion, closeDB, closeNext,
              muxVars, Mux!removeBegin, Mux!removeArm, Mux!removeDelete, Mux!removeReturn
<1>5. ASSUME NEW v \in Versions,
             build(v) \/ closeReady(v) \/ peersComplete(v) \/ publish(v)
      PROVE  currentVersion' = currentVersion
  BY <1>5, Zenon DEF build, closeReady, peersComplete, publish, muxVars
<1>6. ASSUME NEW q \in Clients, serveKey(q) PROVE currentVersion' = currentVersion
  BY <1>1, <1>6 DEF serveKey, Mux!Serve
<1>7. CASE tick \/ UNCHANGED vars
  BY <1>7 DEF tick, Mux!Tick, vars, muxVars
<1> QED BY <1>2, <1>3, <1>4, <1>5, <1>6, <1>7 DEF Next, SwitchStep

-----------------------------------------------------------------------------
(* The db's own part of the invariant, and what follows from the whole. *)

LEMMA OwnInit == Init => Own
<1> SUFFICES ASSUME Init PROVE Own
  OBVIOUS
<1>1. /\ versions = {} /\ prepared = {} /\ retired = {} /\ returned = {}
      /\ rm[Cleanup].pc = "idle"
  BY DEF Init, Mux!Init, Mux!Inactive, Removers
<1>2. vs \in [Versions -> VersionState]
      /\ \A v \in Versions : vs[v].upgrader = FALSE /\ vs[v].cancelled = FALSE
  <2>1. 0 \in 0..MaxBuilds
    BY DBAssumption
  <2>2. NoObject \in VersionState /\ NoObject.upgrader = FALSE /\ NoObject.cancelled = FALSE
    BY <2>1 DEF VersionState, NoObject
  <2> QED BY <2>2 DEF Init
<1>3. DBType
  BY <1>2, Zenon DEF Init, DBType, RefresherState, NoUpgrade, Unlocked
<1>4. AgeInv /\ RefreshInv /\ CleanupInv /\ CloseInv /\ NoOrphan
  BY <1>1, <1>2, DBAssumption
     DEF Init, AgeInv, RefreshInv, CleanupInv, CloseInv, NoOrphan, Unlocked
<1> QED BY <1>3, <1>4 DEF Own

\* Every step is within the contract of the mux and keeps the db's own part.
LEMMA OwnStep ==
  ASSUME DBInv, [Next]_vars PROVE Kept
<1>1. CASE UNCHANGED vars
  BY <1>1, SameQuiet, RequestKeeps DEF vars, dbVars, DBInv, TypeOK, DBType
<1>2. CASE BackfillStep \/ refreshStart \/ RefreshStep
  BY <1>2, BackfillVersionsKeeps, BackfillNextKeeps, RefreshStartKeeps,
     RefreshReleaseKeeps, RefreshListKeeps, RefreshCheckKeeps, RefreshRetryKeeps
     DEF BackfillStep, RefreshStep
<1>3. CASE SwitchStep \/ upgradeSweep
  BY <1>3, NewVersionKeeps, SwitchPrepareKeeps, SwitchSelectKeeps,
     UpgradeSyncKeeps, UpgradeSweepKeeps DEF SwitchStep
<1>4. CASE CleanupStep \/ closeDB \/ closeNext
  BY <1>4, RemoveProgressKeeps, RemoveCloseKeeps, RemoveVersionKeeps,
     CloseDBKeeps, CloseNextKeeps DEF CleanupStep
<1>5. ASSUME NEW v \in Versions, \/ upgradeWhenReady(v) \/ build(v) \/ closeReady(v)
                                 \/ peersComplete(v) \/ publish(v)
      PROVE  Kept
  BY <1>5, UpgradeWhenReadyKeeps, BuildKeeps, CompleteKeeps, PublishKeeps
<1>6. ASSUME NEW q \in Clients, serveKey(q) PROVE Kept
  BY <1>6, ServeKeyKeeps
<1>7. CASE tick
  BY <1>7, TickKeeps
<1> QED BY <1>1, <1>2, <1>3, <1>4, <1>5, <1>6, <1>7 DEF Next

LEMMA NeverBack ==
  ASSUME DBInv, [Next]_vars PROVE currentVersion'.version >= current
<1>1. current \in Nat
  BY MuxFacts, DBAssumption DEF DBInv, NoVersion
<1>2. CASE currentVersion' = currentVersion
  BY <1>1, <1>2 DEF current
<1>3. CASE upgradeSync \/ \E v \in Versions : upgradeWhenReady(v)
  <2>1. PICK v \in prepared, sync \in BOOLEAN : upgrade(v, sync)
    BY <1>3, Zenon DEF upgradeSync, upgradeWhenReady, DBInv, RefreshInv, AgeInv
  <2> QED BY <2>1, UpgradeFacts, Zenon DEF current
<1> QED BY <1>2, <1>3, OnlyUpgradeSwitches

LEMMA InvGives == DBInv => ServedOpen /\ (MayDrop = FALSE => NoPanic)
<1>1. DBInv => ServedOpen
  BY DEF DBInv, Mux!MuxInv, Mux!HeldInv, CloseInv, ServedOpen, AgeInv, TypeOK, DBType
<1>2. DBInv => (MayDrop = FALSE => NoPanic)
  BY DEF DBInv, CloseInv, NoPanic
<1> QED BY <1>1, <1>2

LEMMA InvSplits == DBInv <=> Mux!MuxInv /\ Own
  BY DEF DBInv, Own, TypeOK, Mux!MuxInv

\* The clients and the refresh are finitely many requests.
LEMMA RequestsFinite == IsFiniteSet(Requests)
<1>1. PICK s \in Seq(Clients) : \A c \in Clients : \E n \in 1..Len(s) : s[n] = c
  BY DBAssumption DEF IsFiniteSet
<1> DEFINE t == Append(s, Refresh)
<1>2. t \in Seq(Requests) /\ Len(t) = Len(s) + 1 /\ t[Len(s) + 1] = Refresh
  BY DEF Requests
<1>3. \A n \in 1..Len(s) : t[n] = s[n]
  OBVIOUS
<1>4. ASSUME NEW r \in Requests PROVE \E n \in 1..Len(t) : t[n] = r
  BY <1>1, <1>2, <1>3 DEF Requests
<1> QED BY <1>2, <1>4 DEF IsFiniteSet

-----------------------------------------------------------------------------
(* The theorems about the mux, for the instance the db uses. *)

MuxProofs == INSTANCE VersionMuxProofs

\* The db gives the mux constants it works with.
LEMMA MuxConstants == MuxProofs!MuxAssumption
<1>1. MuxProofs!IsFiniteSet(Requests)
  BY RequestsFinite DEF IsFiniteSet, MuxProofs!IsFiniteSet
<1> QED BY <1>1, DBAssumption DEF MuxProofs!MuxAssumption, Removers, NoVersion

\* The two instances of VersionMux, the db's own and that of its proofs, have the
\* same invariant and the same steps.
LEMMA SameInv == Mux!MuxInv <=> MuxProofs!MuxInv
  BY DEF Mux!MuxInv, Mux!TypeOK, Mux!RemoverPC, Mux!Holders, Mux!Cardinality,
         Mux!IsFiniteSet, Mux!CountExact, Mux!CountCovers, Mux!MapInv, Mux!HeldInv,
         Mux!RemoverInv, Mux!TimerInv, Mux!CurrentInv,
         MuxProofs!MuxInv, MuxProofs!TypeOK, MuxProofs!RemoverPC, MuxProofs!Holders,
         MuxProofs!Cardinality, MuxProofs!IsFiniteSet, MuxProofs!CountExact,
         MuxProofs!CountCovers, MuxProofs!MapInv, MuxProofs!HeldInv,
         MuxProofs!RemoverInv, MuxProofs!TimerInv, MuxProofs!CurrentInv

LEMMA SameInit == Mux!Init => MuxProofs!Init
  BY DEF Mux!Init, Mux!Idle, Mux!Inactive,
         MuxProofs!Init, MuxProofs!Idle, MuxProofs!Inactive

LEMMA SameNext == [Mux!Next]_muxVars => [MuxProofs!Next]_MuxProofs!muxVars
  BY Zenon DEF muxVars, Mux!Next, Mux!Serve, Mux!getCurrent, Mux!getVersion, Mux!release,
         Mux!acquire, Mux!respondNone, Mux!Prepare, Mux!prepare, Mux!Upgrade,
         Mux!upgrade, Mux!Remove, Mux!removeBegin, Mux!RemoveStep, Mux!removeArm,
         Mux!removeDelete, Mux!removeReturn, Mux!Tick, Mux!Idle, Mux!Inactive,
         MuxProofs!muxVars, MuxProofs!codeVars, MuxProofs!Next, MuxProofs!Serve,
         MuxProofs!getCurrent, MuxProofs!getVersion, MuxProofs!release,
         MuxProofs!acquire, MuxProofs!respondNone, MuxProofs!Prepare,
         MuxProofs!prepare, MuxProofs!Upgrade, MuxProofs!upgrade, MuxProofs!Remove,
         MuxProofs!removeBegin, MuxProofs!RemoveStep, MuxProofs!removeArm,
         MuxProofs!removeDelete, MuxProofs!removeReturn, MuxProofs!Tick,
         MuxProofs!Idle, MuxProofs!Inactive

\* A step within the contract keeps the invariant of the mux.
LEMMA MuxKeeps == Mux!MuxInv /\ [Mux!Next]_muxVars => Mux!MuxInv'
<1>1. Mux!MuxInv' <=> MuxProofs!MuxInv'
  BY SameInv, PTL
<1> QED BY <1>1, SameInv, SameNext, MuxConstants, MuxProofs!MuxInvStep

-----------------------------------------------------------------------------
(* The invariant and what follows from it. *)

LEMMA DBInvInit == Init => DBInv
<1>1. Init => Mux!MuxInv
  BY SameInit, SameInv, MuxConstants, MuxProofs!MuxInvInit DEF Init
<1> QED BY <1>1, OwnInit, InvSplits

LEMMA DBInvStep == DBInv /\ [Next]_vars => DBInv'
<1> SUFFICES ASSUME DBInv, [Next]_vars PROVE DBInv'
  OBVIOUS
<1>1. Mux!MuxInv' /\ Own'
  BY OwnStep, InvSplits, MuxKeeps DEF Kept
<1>2. DBInv' <=> Mux!MuxInv' /\ Own'
  BY InvSplits, PTL
<1> QED BY <1>1, <1>2

\* The invariant of the db holds in every reachable state: in particular no older
\* version is left behind in the mux.
THEOREM DBSafe == Spec => []DBInv
BY DBInvInit, DBInvStep, PTL DEF Spec

\* The db keeps the caller's side of the mux's contract: it prepares a version
\* once, upgrades to none that is being removed and never removes the current one.
\* So everything VersionMuxProofs shows of the mux holds of the mux in a db.
THEOREM KeepsContract == Spec => MuxContract
<1>1. Init => Mux!Init
  BY DEF Init
<1>2. DBInv /\ [Next]_vars => [Mux!Next]_Mux!muxVars
  BY OwnStep DEF Kept, muxVars, Mux!muxVars, Mux!codeVars
<1> QED BY <1>1, <1>2, DBSafe, PTL DEF Spec, MuxContract, Mux!Spec

\* However versions get ready, the current one is never replaced by an older one.
THEOREM RollsForward == Spec => RollForward
<1>1. DBInv /\ [Next]_vars => currentVersion'.version >= current
  BY NeverBack
<1> QED BY <1>1, DBSafe, PTL DEF Spec, RollForward

\* As long as the db is not dropped, no request holds a version that was closed.
THEOREM ServedIsOpen == Spec => []ServedOpen
BY InvGives, DBSafe, PTL

\* A db that is not dropped never panics in prepare, mustGet or close.
THEOREM NeverPanics ==
  ASSUME MayDrop = FALSE PROVE Spec => []NoPanic
<1>1. DBInv => NoPanic
  BY InvGives
<1> QED BY <1>1, DBSafe, PTL
=============================================================================
