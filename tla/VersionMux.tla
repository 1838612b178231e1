----------------------------- MODULE VersionMux -----------------------------
(***************************************************************************)
(* versionMux (version_mux.go): the versions of one db that a node can     *)
(* serve, the current one, and the reference counts and timers that keep a *)
(* version alive until its last request is done.                           *)
(*                                                                         *)
(* One action is one critical section of mux.lock.  The operators named    *)
(* after the methods carry the code's own conditions only; the caller's    *)
(* side of the contract (what db.go promises) is in Next.  Module DB uses  *)
(* the operators without that contract, and is checked to respect it.      *)
(***************************************************************************)
EXTENDS Naturals, FiniteSets

CONSTANTS Versions,        \* the version objects; a name is prepared once
          Requests,        \* goroutines that take and release references
          Removers,        \* goroutines inside remove
          NoVersion,       \* the nil *version
          NoTimer,         \* the nil *time.Timer
          RemoveTimeout    \* versionRemoveTimeout, in ticks of the clock

ASSUME MuxAssumption ==
  /\ IsFiniteSet(Requests)
  /\ NoVersion \notin Versions
  /\ NoTimer \notin Removers
  /\ \A r, s \in Removers : r = s   \* db.cleanupLock: one remove at a time
  /\ RemoveTimeout \in Nat \ {0}

VARIABLES versions,        \* keys of mux.versions
          closeTimer,      \* stored closeTimer: the remover that waits on it;
                           \* it is stored together with removing = true
          currentVersion,  \* the copied versionReferenceCount
          count,           \* counter of each version's WaitGroup
          req,             \* where each request is
          rm,              \* where each call of remove is
          prepared,        \* history: versions ever prepared
          retired,         \* history: versions remove was called for
          returned,        \* history: versions remove returned
          quiet            \* history: ticks since the last request for the version
                           \* a remover's timer runs for

codeVars == <<versions, closeTimer, currentVersion, count, req, rm>>
muxVars == <<codeVars, prepared, retired, returned, quiet>>

Idle == [pc |-> "idle", version |-> NoVersion]
Inactive == [pc |-> "idle", version |-> NoVersion, left |-> 0]

Init ==
  /\ versions = {}
  /\ closeTimer = [v \in Versions |-> NoTimer]
  /\ currentVersion = [version |-> NoVersion, closeTimer |-> NoTimer]
  /\ count = [v \in Versions |-> 0]
  /\ req = [q \in Requests |-> Idle]
  /\ rm = [r \in Removers |-> Inactive]
  /\ prepared = {} /\ retired = {} /\ returned = {}
  /\ quiet = [r \in Removers |-> 0]

-----------------------------------------------------------------------------
(* Requests. *)

\* Mutant: a request does not reset the timer.
acquireNoReset(q, v, timer) ==
  /\ count' = [count EXCEPT ![v] = @ + 1]
  /\ quiet' = [r \in Removers |-> IF rm[r].version = v THEN 0 ELSE quiet[r]]
  /\ req' = [req EXCEPT ![q] = [pc |-> "serving", version |-> v]]
  /\ UNCHANGED <<versions, closeTimer, currentVersion, rm, prepared, retired, returned>>

\* count.Add(1); a stored timer is reset, which is lost on a timer that has
\* already put its value into the channel the remover reads.
acquire(q, v, timer) ==
  /\ count' = [count EXCEPT ![v] = @ + 1]
  /\ rm' = IF timer = NoTimer \/ rm[timer].left = 0
           THEN rm ELSE [rm EXCEPT ![timer].left = RemoveTimeout]
  /\ quiet' = [r \in Removers |-> IF rm[r].version = v THEN 0 ELSE quiet[r]]
  /\ req' = [req EXCEPT ![q] = [pc |-> "serving", version |-> v]]
  /\ UNCHANGED <<versions, closeTimer, currentVersion, prepared, retired, returned>>

\* The request is answered without a version (404, or 501 to a peer).
respondNone(q) ==
  /\ req' = [req EXCEPT ![q] = Idle]
  /\ UNCHANGED <<versions, closeTimer, currentVersion, count, rm,
                 prepared, retired, returned, quiet>>

getCurrent(q) ==
  /\ req[q].pc \in {"idle", "fallback"}
  /\ IF currentVersion.version = NoVersion
     THEN respondNone(q)
     ELSE acquire(q, currentVersion.version, currentVersion.closeTimer)

\* A proxied request names its version; a miss falls back to getCurrent, in a
\* second critical section.
getVersion(q, v) ==
  /\ req[q].pc = "idle"
  /\ IF v \in versions
     THEN acquire(q, v, closeTimer[v])
     ELSE /\ req' = [req EXCEPT ![q] = [pc |-> "fallback", version |-> NoVersion]]
          /\ UNCHANGED <<versions, closeTimer, currentVersion, count, rm,
                         prepared, retired, returned, quiet>>

\* release finds the counter by name, in the map: nothing is decremented once
\* the version has left it.
release(q) ==
  /\ req[q].pc = "serving"
  /\ count' = IF req[q].version \in versions
              THEN [count EXCEPT ![req[q].version] = @ - 1] ELSE count
  /\ req' = [req EXCEPT ![q] = Idle]
  /\ UNCHANGED <<versions, closeTimer, currentVersion, rm,
                 prepared, retired, returned, quiet>>

-----------------------------------------------------------------------------
(* The db's side.  prepare and upgrade panic where their guard is false. *)

prepare(v) ==
  /\ v \notin versions
  /\ versions' = versions \cup {v}
  /\ closeTimer' = [closeTimer EXCEPT ![v] = NoTimer]
  /\ count' = [count EXCEPT ![v] = 0]
  /\ prepared' = prepared \cup {v}
  /\ UNCHANGED <<currentVersion, req, rm, retired, returned, quiet>>

\* Mutant: upgrade without mustGet.
upgradeUnchecked(v) ==
  /\ currentVersion' = [version |-> v, closeTimer |-> closeTimer[v]]
  /\ UNCHANGED <<versions, closeTimer, count, req, rm,
                 prepared, retired, returned, quiet>>

upgrade(v) ==
  /\ v \in versions
  /\ currentVersion' = [version |-> v, closeTimer |-> closeTimer[v]]
  /\ UNCHANGED <<versions, closeTimer, count, req, rm,
                 prepared, retired, returned, quiet>>

\* Mutant: remove does not look whether the version is still there.
removeBeginBlind(r, v, shouldWait) ==
  /\ rm[r].pc = "idle"
  /\ retired' = retired \cup {v}
  /\ rm' = IF closeTimer[v] # NoTimer THEN rm
           ELSE [rm EXCEPT ![r] = [pc |-> IF shouldWait THEN "arm" ELSE "delete",
                                   version |-> v, left |-> 0]]
  /\ UNCHANGED <<versions, closeTimer, currentVersion, count, req,
                 prepared, returned, quiet>>

\* First critical section of remove.  The flag removing is set in a copy; the
\* call returns nil when the version is gone or the stored flag was set.
removeBegin(r, v, shouldWait) ==
  /\ rm[r].pc = "idle"
  /\ retired' = retired \cup {v}
  /\ rm' = IF v \notin versions \/ closeTimer[v] # NoTimer THEN rm
           ELSE [rm EXCEPT ![r] = [pc |-> IF shouldWait THEN "arm" ELSE "delete",
                                   version |-> v, left |-> 0]]
  /\ UNCHANGED <<versions, closeTimer, currentVersion, count, req,
                 prepared, returned, quiet>>

\* The copy, with its timer and its flag, is stored back into the map.
removeArm(r) ==
  /\ rm[r].pc = "arm"
  /\ versions' = versions \cup {rm[r].version}
  /\ closeTimer' = [closeTimer EXCEPT ![rm[r].version] = r]
  /\ rm' = [rm EXCEPT ![r] = [pc |-> "timing", version |-> rm[r].version,
                               left |-> RemoveTimeout]]
  /\ quiet' = [quiet EXCEPT ![r] = 0]
  /\ UNCHANGED <<currentVersion, count, req, prepared, retired, returned>>

removeDelete(r) ==
  /\ \/ rm[r].pc = "delete"
     \/ rm[r].pc = "timing" /\ rm[r].left = 0
  /\ versions' = versions \ {rm[r].version}
  /\ closeTimer' = [closeTimer EXCEPT ![rm[r].version] = NoTimer]
  /\ rm' = [rm EXCEPT ![r].pc = "waiting"]
  /\ quiet' = [quiet EXCEPT ![r] = 0]
  /\ UNCHANGED <<currentVersion, count, req, prepared, retired, returned>>

\* Mutant: remove returns without count.Wait.
removeReturnNoWait(r) ==
  /\ rm[r].pc = "waiting"
  /\ returned' = returned \cup {rm[r].version}
  /\ rm' = [rm EXCEPT ![r] = Inactive]
  /\ UNCHANGED <<versions, closeTimer, currentVersion, count, req,
                 prepared, retired, quiet>>

\* count.Wait() returns, and the caller gets the version to close and delete.
removeReturn(r) ==
  /\ rm[r].pc = "waiting"
  /\ count[rm[r].version] = 0
  /\ returned' = returned \cup {rm[r].version}
  /\ rm' = [rm EXCEPT ![r] = Inactive]
  /\ UNCHANGED <<versions, closeTimer, currentVersion, count, req,
                 prepared, retired, quiet>>

\* The clock: every timer that still runs comes one tick closer to firing.
Tick ==
  /\ \E r \in Removers : rm[r].left > 0
  /\ rm' = [r \in Removers |->
              IF rm[r].left > 0 THEN [rm[r] EXCEPT !.left = @ - 1] ELSE rm[r]]
  /\ quiet' = [r \in Removers |->
                 IF rm[r].left > 0 THEN quiet[r] + 1 ELSE quiet[r]]
  /\ UNCHANGED <<versions, closeTimer, currentVersion, count, req,
                 prepared, retired, returned>>

-----------------------------------------------------------------------------
(* What db.go promises: a version object is prepared once; only a version  *)
(* no removal was asked for becomes current; the current one is not        *)
(* removed.                                                                *)

Serve(q) ==
  \/ getCurrent(q)
  \/ \E v \in Versions : getVersion(q, v)
  \/ release(q)

Prepare(v) == v \notin prepared /\ prepare(v)
Upgrade(v) == v \notin retired /\ upgrade(v)
Remove(r, v) ==
  /\ v # currentVersion.version
  /\ \E shouldWait \in BOOLEAN : removeBegin(r, v, shouldWait)
RemoveStep(r) == removeArm(r) \/ removeDelete(r) \/ removeReturn(r)

Next ==
  \/ \E q \in Requests : Serve(q)
  \/ \E v \in Versions : Prepare(v) \/ Upgrade(v)
  \/ \E r \in Removers : RemoveStep(r) \/ \E v \in Versions : Remove(r, v)
  \/ Tick

Spec == Init /\ [][Next]_muxVars

\* Requests finish (vs.serveKey is bounded by its timeouts), the clock runs
\* and goroutines that can go on do.
FairSpec ==
  /\ Spec
  /\ WF_muxVars(Tick)
  /\ \A q \in Requests : WF_muxVars(release(q))
  /\ \A r \in Removers : WF_muxVars(RemoveStep(r))

-----------------------------------------------------------------------------
(* Properties. *)

RemoverPC == {"idle", "arm", "timing", "delete", "waiting"}

\* Every variable of the mux keeps its type; in particular no WaitGroup
\* counter ever goes below zero, which would panic in release.
TypeOK ==
  /\ versions \subseteq Versions
  /\ closeTimer \in [Versions -> Removers \cup {NoTimer}]
  /\ currentVersion \in [version : Versions \cup {NoVersion},
                         closeTimer : Removers \cup {NoTimer}]
  /\ count \in [Versions -> Nat]
  /\ req \in [Requests -> [pc : {"idle", "fallback", "serving"},
                            version : Versions \cup {NoVersion}]]
  /\ rm \in [Removers -> [pc : RemoverPC, version : Versions \cup {NoVersion},
                          left : 0..RemoveTimeout]]
  /\ prepared \subseteq Versions /\ retired \subseteq Versions
  /\ returned \subseteq Versions
  /\ quiet \in [Removers -> 0..RemoveTimeout]

Holders(v) == {q \in Requests : req[q].pc = "serving" /\ req[q].version = v}

\* While a version is in mux.versions its WaitGroup counts exactly the
\* requests that got it from getCurrent or getVersion and have not released it.
CountExact == \A v \in versions : count[v] = Cardinality(Holders(v))

\* A version that remove has returned (removeVersion closes it and deletes its
\* files next) is held by no request, and no later request can get it.
RemovedUnused ==
  \A v \in returned :
    Holders(v) = {} /\ v \notin versions /\ v # currentVersion.version

\* The version getCurrent hands out is still in the map, so that release finds
\* its counter, and no remover waits for it.
CurrentHeld ==
  currentVersion.version # NoVersion =>
    /\ currentVersion.version \in versions
    /\ currentVersion.closeTimer = NoTimer
    /\ \A r \in Removers : rm[r].version # currentVersion.version

\* A removal timer fires only when its version has seen no request for the
\* whole of versionRemoveTimeout (getCurrent and getVersion reset it).
TimerHonoured ==
  [][\A r \in Removers :
       rm[r].left > 0 /\ rm'[r].left = 0 =>
         quiet'[r] >= RemoveTimeout]_muxVars

\* remove returns a version to at most one of its callers, so that
\* removeVersion closes it once, however often upgrade schedules its removal.
RemoveIdempotent ==
  [][\A r \in Removers : removeReturn(r) => rm[r].version \notin returned]_muxVars

\* The mux implements the abstract lease: handles are given out only for
\* versions not yet returned by remove, and remove returns a version only when
\* nobody holds it.
holding == [q \in Requests |->
              IF req[q].pc = "serving" THEN req[q].version ELSE NoVersion]
L == INSTANCE Lease WITH closed <- returned
ImplementsLease == L!Spec

\* The inductive invariant behind the properties above: where a call of remove
\* is determines whether its version is in the map, and a version out of the
\* map has a counter no lower than its holders.
CountCovers == \A v \in Versions : count[v] >= Cardinality(Holders(v))
MapInv == versions \subseteq prepared /\ returned \subseteq prepared \ versions
HeldInv ==
  \A q \in Requests : req[q].pc = "serving" => req[q].version \in prepared \ returned
RemoverInv ==
  \A r \in Removers :
    /\ rm[r].pc = "idle" => rm[r].version = NoVersion
    /\ rm[r].pc # "idle" => rm[r].version \in retired
    /\ rm[r].pc \in {"arm", "timing", "delete"} => rm[r].version \in versions
    /\ rm[r].pc = "waiting" => rm[r].version \in prepared \ (versions \cup returned)
TimerInv ==
  /\ \A r \in Removers :
       rm[r].left > 0 => /\ rm[r].pc = "timing"
                         /\ rm[r].left + quiet[r] = RemoveTimeout
                         /\ closeTimer[rm[r].version] = r
  /\ \A v \in Versions :
       closeTimer[v] # NoTimer =>
         /\ v \in retired
         /\ rm[closeTimer[v]].version = v /\ rm[closeTimer[v]].pc = "timing"
CurrentInv ==
  \/ currentVersion.version = NoVersion
  \/ /\ currentVersion.version \in versions \ retired
     /\ currentVersion.closeTimer = NoTimer
MuxInv ==
  /\ TypeOK /\ CountExact /\ CountCovers /\ MapInv /\ HeldInv
  /\ RemoverInv /\ TimerInv /\ CurrentInv

\* "we need to increment a reference count to the version when we pass one out
\* and decrement it after the request is done": so remove, which waits for the
\* count to reach zero, returns once the requests are done.
RemoveReturns ==
  \A r \in Removers : rm[r].pc = "waiting" ~> rm[r].pc # "waiting"
=============================================================================
