--------------------------------- MODULE DB ---------------------------------
(***************************************************************************)
(* One db of one node (db.go): the versions it finds upstream, prepares,   *)
(* switches to and removes, by goroutines that meet in refreshLock,        *)
(* upgradeLock and cleanupLock and in the versionMux (module VersionMux,   *)
(* whose methods are used here without its caller's contract).             *)
(*                                                                         *)
(* A version is its name, a positive number, as names are compared.  Here  *)
(* a build is one step with its outcome; its locks, the local directories, *)
(* cleanupStore and the closing of the stores are module Build.  The       *)
(* state shown on the status page (setState) is left out.                  *)
(***************************************************************************)
EXTENDS Naturals, FiniteSets

CONSTANTS Versions,      \* version names
          Clients,       \* request goroutines
          NoTimer,       \* the nil timer
          RemoveTimeout, \* versionRemoveTimeout, in ticks
          Distributed,   \* sequins.peers # nil
          MaxBuilds,     \* bound: build goroutines of a version at a time
          MayDrop        \* the db may disappear upstream

NoVersion == 0
Refresh == "refresh"     \* the references taken by refresh itself
Cleanup == "cleanup"     \* the holder of cleanupLock inside remove
Requests == Clients \cup {Refresh}
Removers == {Cleanup}

ASSUME DBAssumption ==
  /\ Versions \subseteq Nat \ {0} /\ IsFiniteSet(Versions)
  /\ IsFiniteSet(Clients) /\ Refresh \notin Clients
  /\ NoTimer # Cleanup
  /\ RemoveTimeout \in Nat \ {0} /\ MaxBuilds \in Nat \ {0}
  /\ {Distributed, MayDrop} \subseteq BOOLEAN

VARIABLES versions, closeTimer, currentVersion, count, req, rm,
          prepared, retired, returned, quiet   \* the versionMux
VARIABLES backend,     \* versions listed upstream
          vs,          \* the version objects
          refresher,   \* the holder of refreshLock: backfillVersions or refresh
          up,          \* the holder of upgradeLock, between the switch and the sweep
          removals,    \* started goroutines of removeVersion
          cleanup,     \* the holder of cleanupLock
          dropped,     \* refreshAll has taken the db out of sequins.dbs
          late,        \* clients that looked the db up before it was dropped
          panicked

Mux == INSTANCE VersionMux

muxVars == <<versions, closeTimer, currentVersion, count, req, rm,
             prepared, retired, returned, quiet>>
dbVars == <<backend, vs, refresher, up, removals, cleanup, dropped, late, panicked>>
vars == <<muxVars, dbVars>>

NoObject ==
  [made |-> FALSE,
   complete |-> FALSE,                    \* partitions.ready is closed
   ready |-> FALSE, cancelled |-> FALSE,  \* the channels ready and cancel are closed
   built |-> FALSE, builds |-> 0,         \* build goroutines still to run
   upgrader |-> FALSE]                    \* switchVersion's goroutine waits on ready

NoUpgrade == [version |-> NoVersion, old |-> NoVersion, sync |-> FALSE]
Unlocked == [pc |-> "free", version |-> NoVersion]

Init ==
  /\ Mux!Init
  /\ backend \in SUBSET Versions
  /\ vs = [v \in Versions |-> NoObject]
  /\ refresher = [pc |-> "boot", version |-> NoVersion, todo |-> {}, backfill |-> TRUE]
  /\ up = NoUpgrade /\ removals = {} /\ cleanup = Unlocked
  /\ dropped = FALSE /\ late = {} /\ panicked = FALSE

current == currentVersion.version

-----------------------------------------------------------------------------
(* backfillVersions and refresh, one at a time under refreshLock. *)

goTo(pc) == refresher' = [refresher EXCEPT !.pc = pc]

\* switchVersion is done with a version: backfill goes on to the next one, or
\* breaks when the version was ready; refresh returns.
switched(wasReady) ==
  refresher' = [refresher EXCEPT
                  !.pc = IF refresher.backfill THEN "next" ELSE "idle",
                  !.todo = IF wasReady THEN {} ELSE @]

\* The listing fails or is empty, or its last three versions are tried.
backfillVersions ==
  /\ refresher.pc = "boot"
  /\ \/ /\ backend # {}
        /\ refresher' = [refresher EXCEPT !.pc = "next",
             !.todo = {v \in backend : Cardinality({w \in backend : w > v}) < 3}]
     \/ refresher' = [refresher EXCEPT !.pc = "idle", !.backfill = FALSE]
  /\ UNCHANGED <<muxVars, backend, vs, up, removals, cleanup, dropped, late, panicked>>

\* The newest version left is tried, if there is one.
backfillNext ==
  /\ refresher.pc = "next"
  /\ \/ /\ refresher.todo = {}
        /\ refresher' = [refresher EXCEPT !.pc = "idle", !.backfill = FALSE]
     \/ \E v \in refresher.todo :
          /\ \A w \in refresher.todo : w <= v
          /\ refresher' = [refresher EXCEPT !.pc = "create", !.version = v, !.todo = @ \ {v}]
  /\ UNCHANGED <<muxVars, backend, vs, up, removals, cleanup, dropped, late, panicked>>

\* refresh reads the current version and releases it again: two critical
\* sections of the mux.  Refreshes that queued up on refreshLock may still run
\* after the db was dropped.
refreshStart ==
  /\ refresher.pc = "idle"
  /\ refresher' = [refresher EXCEPT !.pc = "release", !.version = current]
  /\ Mux!getCurrent(Refresh)
  /\ UNCHANGED <<backend, vs, up, removals, cleanup, dropped, late, panicked>>

refreshRelease ==
  /\ refresher.pc = "release"
  /\ IF req[Refresh].pc = "serving" THEN Mux!release(Refresh) ELSE UNCHANGED muxVars
  /\ goTo("list")
  /\ UNCHANGED <<backend, vs, up, removals, cleanup, dropped, late, panicked>>

\* ListVersions(after) fails, is empty, or has a latest version.
refreshList ==
  /\ refresher.pc = "list"
  /\ \/ goTo("idle")
     \/ \E v \in backend :
          /\ v > refresher.version /\ \A w \in backend : w <= v
          /\ refresher' = [refresher EXCEPT !.pc = "check", !.version = v]
  /\ UNCHANGED <<muxVars, backend, vs, up, removals, cleanup, dropped, late, panicked>>

\* Mutant: the pipeline is not looked at.
refreshCheckBlind ==
  /\ refresher.pc = "check"
  /\ goTo("create")
  /\ UNCHANGED <<muxVars, backend, vs, up, removals, cleanup, dropped, late, panicked>>

refreshCheck ==
  /\ refresher.pc = "check"
  /\ IF refresher.version \in versions
     THEN Mux!getVersion(Refresh, refresher.version) /\ goTo("retry")
     ELSE goTo("create") /\ UNCHANGED muxVars
  /\ UNCHANGED <<backend, vs, up, removals, cleanup, dropped, late, panicked>>

\* Mutant: a version in the pipeline is left to itself.
refreshNoRetry ==
  /\ refresher.pc = "retry"
  /\ Mux!release(Refresh)
  /\ goTo("idle")
  /\ UNCHANGED <<backend, vs, up, removals, cleanup, dropped, late, panicked>>

\* The version is already in the pipeline: its build is tried again.
refreshRetry ==
  /\ refresher.pc = "retry"
  /\ vs[refresher.version].builds < MaxBuilds
  /\ Mux!release(Refresh)
  /\ vs' = [vs EXCEPT ![refresher.version].builds = @ + 1]
  /\ goTo("idle")
  /\ UNCHANGED <<backend, up, removals, cleanup, dropped, late, panicked>>

\* newVersion fails (ListFiles), or makes the version; its partitions may all
\* be available already, here or at peers.
newVersion ==
  /\ refresher.pc = "create"
  /\ \/ switched(FALSE) /\ UNCHANGED vs
     \/ /\ goTo("prepare")
        /\ \E complete \in BOOLEAN :
             vs' = [vs EXCEPT ![refresher.version] =
               [NoObject EXCEPT !.made = TRUE, !.complete = complete, !.ready = complete]]
  /\ UNCHANGED <<muxVars, backend, up, removals, cleanup, dropped, late, panicked>>

\* switchVersion: prepare, which panics on a version that is there already,
\* and go build.
switchPrepare ==
  LET v == refresher.version
  IN /\ refresher.pc = "prepare"
     /\ vs' = [vs EXCEPT ![v].builds = @ + 1]
     /\ goTo("select")
     /\ IF v \in versions
        THEN panicked' = TRUE /\ UNCHANGED muxVars
        ELSE Mux!prepare(v) /\ UNCHANGED panicked
     /\ UNCHANGED <<backend, up, removals, cleanup, dropped, late>>

\* switchVersion: a version that is ready is switched to synchronously, any
\* other by a goroutine that waits for it.
switchSelect ==
  LET v == refresher.version
  IN /\ refresher.pc = "select"
     /\ IF vs[v].ready
        THEN goTo("upgrade") /\ UNCHANGED vs
        ELSE switched(FALSE) /\ vs' = [vs EXCEPT ![v].upgrader = TRUE]
     /\ UNCHANGED <<muxVars, backend, up, removals, cleanup, dropped, late, panicked>>

-----------------------------------------------------------------------------
(* upgrade, under upgradeLock. *)

\* Mutant: whatever gets ready becomes current.
upgradeAny(v, sync) ==
  /\ up = NoUpgrade
  /\ v \in versions
  /\ Mux!upgrade(v)
  /\ up' = [version |-> v, old |-> current, sync |-> sync]
  /\ UNCHANGED <<removals, panicked>>

\* Mutant: a version that got ready too late is left alone.
upgradeForget(v, sync) ==
  /\ up = NoUpgrade
  /\ \/ current # NoVersion /\ v <= current /\ UNCHANGED <<muxVars, up, removals, panicked>>
     \/ /\ current = NoVersion \/ v > current
        /\ v \in versions
        /\ Mux!upgrade(v)
        /\ up' = [version |-> v, old |-> current, sync |-> sync]
        /\ UNCHANGED <<removals, panicked>>

\* A version older than the current one is removed, the current one is left,
\* any other becomes current; mustGet panics if it is not in the mux.
upgrade(v, sync) ==
  /\ up = NoUpgrade
  /\ \/ /\ current # NoVersion /\ v < current
        /\ removals' = removals \cup {<<v, FALSE>>}
        /\ UNCHANGED <<muxVars, up, panicked>>
     \/ v = current /\ UNCHANGED <<muxVars, up, removals, panicked>>
     \/ /\ current = NoVersion \/ v > current
        /\ v \in versions
        /\ Mux!upgrade(v)
        /\ up' = [version |-> v, old |-> current, sync |-> sync]
        /\ UNCHANGED <<removals, panicked>>
     \/ /\ current = NoVersion \/ v > current
        /\ v \notin versions
        /\ panicked' = TRUE
        /\ UNCHANGED <<muxVars, up, removals>>

upgradeSync ==
  /\ refresher.pc = "upgrade"
  /\ upgrade(refresher.version, TRUE)
  /\ IF up' = NoUpgrade THEN switched(TRUE) ELSE goTo("sweep")
  /\ UNCHANGED <<backend, vs, cleanup, dropped, late>>

upgradeWhenReady(v) ==
  /\ vs[v].upgrader /\ vs[v].ready
  /\ upgrade(v, FALSE)
  /\ vs' = [vs EXCEPT ![v].upgrader = FALSE]
  /\ UNCHANGED <<backend, refresher, cleanup, dropped, late>>

\* Mutant: the new version is swept away with the old ones.
sweepAll ==
  /\ up # NoUpgrade
  /\ removals' = removals \cup
       {<<v, v = up.old>> : v \in {w \in versions : w <= up.version}}
  /\ up' = NoUpgrade
  /\ IF up.sync THEN switched(TRUE) ELSE UNCHANGED refresher
  /\ UNCHANGED <<muxVars, backend, vs, cleanup, dropped, late, panicked>>

\* The rest of upgrade: remove the old current version once it is unused, and
\* every other older version at once.
upgradeSweep ==
  /\ up # NoUpgrade
  /\ removals' = removals \cup
       {<<v, v = up.old>> : v \in {w \in versions : w = up.old \/ w < up.version}}
  /\ up' = NoUpgrade
  /\ IF up.sync THEN switched(TRUE) ELSE UNCHANGED refresher
  /\ UNCHANGED <<muxVars, backend, vs, cleanup, dropped, late, panicked>>

-----------------------------------------------------------------------------
(* removeVersion, under cleanupLock. *)

\* Mutant: the version is closed before mux.remove has waited for its requests.
removeVersionEarly(v, shouldWait) ==
  /\ <<v, shouldWait>> \in removals
  /\ cleanup = Unlocked
  /\ removals' = removals \ {<<v, shouldWait>>}
  /\ Mux!removeBegin(Cleanup, v, shouldWait /\ Distributed)
  /\ vs' = [vs EXCEPT ![v].cancelled = TRUE]
  /\ UNCHANGED <<backend, refresher, up, cleanup, dropped, late, panicked>>

removeVersion(v, shouldWait) ==
  /\ <<v, shouldWait>> \in removals
  /\ cleanup = Unlocked
  /\ removals' = removals \ {<<v, shouldWait>>}
  /\ Mux!removeBegin(Cleanup, v, shouldWait /\ Distributed)
  /\ cleanup' = IF rm'[Cleanup].pc = "idle" THEN Unlocked
                ELSE [pc |-> "remove", version |-> v]
  /\ UNCHANGED <<backend, vs, refresher, up, dropped, late, panicked>>

\* The steps of mux.remove.
removeProgress ==
  /\ cleanup.pc = "remove"
  /\ \/ (Mux!removeArm(Cleanup) \/ Mux!removeDelete(Cleanup)) /\ UNCHANGED cleanup
     \/ Mux!removeReturn(Cleanup) /\ cleanup' = [cleanup EXCEPT !.pc = "close"]
  /\ UNCHANGED <<backend, vs, refresher, up, removals, dropped, late, panicked>>

\* version.close closes the channel cancel, which panics the second time.
removeClose ==
  /\ cleanup.pc = "close"
  /\ cleanup' = Unlocked
  /\ panicked' = vs[cleanup.version].cancelled
  /\ vs' = [vs EXCEPT ![cleanup.version].cancelled = TRUE]
  /\ UNCHANGED <<muxVars, backend, refresher, up, removals, dropped, late>>

-----------------------------------------------------------------------------
(* Other goroutines. *)

\* build: nothing to do if it was done before or nothing is needed; otherwise it
\* fails (or is cancelled) or succeeds, which completes a lone node's version.
build(v) ==
  /\ vs[v].builds > 0
  /\ \E done \in BOOLEAN :
       /\ vs[v].built \/ (vs[v].complete /\ ~Distributed) => done
       /\ vs' = [vs EXCEPT ![v] =
         [vs[v] EXCEPT !.builds = @ - 1, !.built = done,
                       !.complete = @ \/ (done /\ ~Distributed)]]
  /\ UNCHANGED <<muxVars, backend, refresher, up, removals, cleanup, dropped, late, panicked>>

\* The partitions this node lacks appear at peers.
peersComplete(v) ==
  /\ Distributed /\ vs[v].made /\ ~vs[v].complete
  /\ vs' = [vs EXCEPT ![v].complete = TRUE]
  /\ UNCHANGED <<muxVars, backend, refresher, up, removals, cleanup, dropped, late, panicked>>

\* newVersion's goroutine closes ready, on a cancel too.
closeReady(v) ==
  /\ vs[v].made /\ ~vs[v].ready
  /\ vs[v].complete \/ vs[v].cancelled
  /\ vs' = [vs EXCEPT ![v].ready = TRUE]
  /\ UNCHANGED <<muxVars, backend, refresher, up, removals, cleanup, dropped, late, panicked>>

\* The db has disappeared upstream: refreshAll takes it out of sequins.dbs and
\* calls db.close, which closes, under refreshLock, what getAll returned.
closeDB ==
  /\ MayDrop /\ ~dropped /\ refresher.pc = "idle"
  /\ dropped' = TRUE
  /\ late' = {q \in Clients : req[q].pc = "idle"}
  /\ refresher' = [refresher EXCEPT !.pc = "closing", !.todo = versions]
  /\ UNCHANGED <<muxVars, backend, vs, up, removals, cleanup, panicked>>

closeNext ==
  /\ refresher.pc = "closing"
  /\ \/ /\ refresher.todo = {}
        /\ goTo("idle")
        /\ UNCHANGED <<vs, panicked>>
     \/ \E v \in refresher.todo :
          /\ refresher' = [refresher EXCEPT !.todo = @ \ {v}]
          /\ panicked' = vs[v].cancelled
          /\ vs' = [vs EXCEPT ![v].cancelled = TRUE]
  /\ UNCHANGED <<muxVars, backend, up, removals, cleanup, dropped, late>>

\* Requests reach the db once backfillVersions is done; one that has looked the
\* db up may enter it after it was dropped.
serveKey(q) ==
  /\ \/ /\ IF dropped THEN q \in late ELSE ~refresher.backfill
        /\ late' = late \ {q}
        /\ Mux!getCurrent(q) \/ \E v \in Versions : Mux!getVersion(q, v)
     \/ req[q].pc = "fallback" /\ Mux!getCurrent(q) /\ UNCHANGED late
     \/ Mux!release(q) /\ UNCHANGED late
  /\ UNCHANGED <<backend, vs, refresher, up, removals, cleanup, dropped, panicked>>

tick == Mux!Tick /\ UNCHANGED dbVars

publish(v) ==
  /\ v \notin backend /\ backend' = backend \cup {v}
  /\ UNCHANGED <<muxVars, vs, refresher, up, removals, cleanup, dropped, late, panicked>>

-----------------------------------------------------------------------------
BackfillStep == backfillVersions \/ backfillNext
RefreshStep == refreshRelease \/ refreshList \/ refreshCheck \/ refreshRetry
SwitchStep == newVersion \/ switchPrepare \/ switchSelect \/ upgradeSync
CleanupStep ==
  \/ removeProgress \/ removeClose
  \/ \E v \in Versions, shouldWait \in BOOLEAN : removeVersion(v, shouldWait)

Next ==
  /\ ~panicked
  /\ \/ BackfillStep \/ refreshStart \/ RefreshStep \/ SwitchStep
     \/ upgradeSweep \/ CleanupStep \/ closeDB \/ closeNext
     \/ \E v \in Versions :
          \/ upgradeWhenReady(v) \/ build(v) \/ closeReady(v)
          \/ peersComplete(v) \/ publish(v)
     \/ \E q \in Clients : serveKey(q)
     \/ tick

Spec == Init /\ [][Next]_vars

\* Goroutines that can go on do, refreshAll is called again and again (the
\* ticker), and what may fail (listing, creating, building) does not always fail.
FairSpec ==
  /\ Spec
  /\ WF_vars(BackfillStep) /\ WF_vars(refreshStart) /\ WF_vars(RefreshStep)
  /\ WF_vars(SwitchStep) /\ WF_vars(upgradeSweep) /\ WF_vars(CleanupStep)
  /\ WF_vars(closeNext) /\ WF_vars(tick)
  /\ SF_vars(refreshList /\ refresher'.pc = "check")
  /\ SF_vars(newVersion /\ refresher'.pc = "prepare")
  /\ \A v \in Versions :
       /\ WF_vars(upgradeWhenReady(v)) /\ WF_vars(closeReady(v)) /\ WF_vars(build(v))
       /\ SF_vars(build(v) /\ vs'[v].built)
  /\ \A q \in Clients : WF_vars(Mux!release(q) /\ UNCHANGED dbVars)

-----------------------------------------------------------------------------
(* Properties. *)

VersionState ==
  [made : BOOLEAN, complete : BOOLEAN, ready : BOOLEAN, cancelled : BOOLEAN,
   built : BOOLEAN, builds : 0..MaxBuilds, upgrader : BOOLEAN]
RefresherState ==
  [pc : {"boot", "next", "create", "prepare", "select", "upgrade", "sweep",
         "idle", "release", "list", "check", "retry", "closing"},
   version : Versions \cup {NoVersion}, todo : SUBSET Versions, backfill : BOOLEAN]

\* Every variable keeps its type; only versions are ever removed.
DBType ==
  /\ backend \subseteq Versions
  /\ vs \in [Versions -> VersionState]
  /\ refresher \in RefresherState
  /\ up \in [version : Versions \cup {NoVersion}, old : Versions \cup {NoVersion},
             sync : BOOLEAN]
  /\ removals \subseteq Versions \X BOOLEAN
  /\ cleanup \in [pc : {"free", "remove", "close"}, version : Versions \cup {NoVersion}]
  /\ dropped \in BOOLEAN /\ late \subseteq Clients /\ panicked \in BOOLEAN
TypeOK == Mux!TypeOK /\ DBType

\* "Make sure we always roll forward": the version getCurrent hands out is never
\* replaced by an older one, whatever the order in which versions get ready.
RollForward == [][currentVersion'.version >= current]_vars

\* Nothing panics: prepare is not called for a version that is there, upgrade
\* not for one that is gone, and no version is closed twice.
NoPanic == ~panicked

\* A version a request holds has not been closed: removeVersion closes what
\* mux.remove returned, and that is free of requests.  (db.close of a dropped db
\* closes what getAll returned, requests or not.)
ServedOpen ==
  ~dropped => \A q \in Requests : req[q].pc = "serving" => ~vs[req[q].version].cancelled

\* A version older than the current one is never left behind in the mux:
\* somebody is about to remove it, or to notice that it is too old.
NoOrphan ==
  \A v \in versions :
    v < current =>
      \/ \E wait \in BOOLEAN : <<v, wait>> \in removals
      \/ cleanup.version = v
      \/ vs[v].upgrader
      \/ up # NoUpgrade
      \/ refresher.version = v /\ refresher.pc \in {"select", "upgrade"}

\* The inductive invariant behind these properties.  Whatever is removed, or about
\* to be, is older than the current version, so a version that left the mux is;
\* refreshLock's holder prepares a version once: backfillVersions goes down a
\* listing none of which is prepared yet, and refresh, which prepares only the
\* newest version upstream, finds it in the mux if it was prepared before; and
\* only what mux.remove returned is closed, once, until db.close comes.
AgeInv ==
  /\ prepared \subseteq backend /\ prepared \ versions \subseteq retired
  /\ \A v \in retired : v < current
  /\ \A r \in removals : r[1] < current
  /\ up # NoUpgrade => up.version = current /\ up.old < current
  /\ \A v \in Versions : vs[v].upgrader => v \in prepared
RefreshInv ==
  LET v == refresher.version
  IN /\ refresher.todo \subseteq backend
     /\ refresher.pc = "boot" => prepared = {} /\ v = NoVersion
     /\ refresher.pc \in {"boot", "next"} => refresher.backfill
     /\ refresher.backfill =>
          /\ refresher.pc \in {"boot", "next", "create", "prepare", "select", "upgrade", "sweep"}
          /\ refresher.todo \cap (prepared \cup {v}) = {}
     /\ refresher.pc \in {"check", "retry", "create", "prepare"} => v \in backend
     /\ refresher.pc = "check" => \A w \in prepared : w <= v
     /\ refresher.pc \in {"create", "prepare"} => v \notin prepared
     /\ refresher.pc = "prepare" => vs[v].builds = 0
     /\ refresher.pc \in {"select", "upgrade"} => v \in prepared
CleanupInv ==
  /\ cleanup.pc = "free" => cleanup = Unlocked
  /\ cleanup.pc = "remove" <=> rm[Cleanup].pc # "idle"
  /\ cleanup.pc = "remove" => cleanup.version = rm[Cleanup].version
  /\ cleanup.pc = "close" => cleanup.version \in returned
CloseInv ==
  /\ dropped => MayDrop
  /\ ~dropped =>
       /\ ~panicked /\ refresher.pc # "closing"
       /\ \A v \in Versions :
            vs[v].cancelled => v \in returned /\ ~(cleanup.pc = "close" /\ cleanup.version = v)
DBInv ==
  /\ TypeOK /\ Mux!MuxInv
  /\ AgeInv /\ RefreshInv /\ CleanupInv /\ CloseInv /\ NoOrphan

\* On a lone node, as long as refreshes go on and listing, creating and building
\* do not fail for ever, every published version (or a newer one) gets served,
\* unless the db is dropped.
LatestServed == \A v \in Versions : v \in backend ~> current >= v \/ dropped

\* The db keeps the promises under which the mux is correct: it implements the
\* specification of module VersionMux, contract included.
MuxContract == Mux!Spec
=============================================================================
