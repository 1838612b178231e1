-------------------------- MODULE VersionMuxProofs --------------------------
(***************************************************************************)
(* Proofs about module VersionMux: its type invariant, its inductive       *)
(* invariant MuxInv and what follows from it, for any finite set of        *)
(* requests, any set of versions and any timeout.                          *)
(***************************************************************************)
EXTENDS VersionMux, FiniteSetTheorems, TLAPS

\* A set of requests is finite, so the holders of a version can be counted.
LEMMA HoldersFinite ==
  \A v : IsFiniteSet(Holders(v)) /\ Cardinality(Holders(v)) \in Nat
<1>1. \A v : Holders(v) \subseteq Requests
  BY DEF Holders
<1>2. QED
  BY <1>1, FS_Subset, FS_CardinalityType, MuxAssumption

\* The same in the next state.
LEMMA HoldersFiniteNext ==
  \A v : IsFiniteSet(Holders(v)') /\ Cardinality(Holders(v)') \in Nat
<1>1. \A v : Holders(v)' \subseteq Requests
  BY DEF Holders
<1>2. QED
  BY <1>1, FS_Subset, FS_CardinalityType, MuxAssumption

\* One more holder: the request that getCurrent or getVersion serves.
LEMMA HoldersTake ==
  ASSUME NEW q \in Requests, NEW v, req[q].pc # "serving",
         req \in [Requests -> [pc : {"idle", "fallback", "serving"},
                               version : Versions \cup {NoVersion}]],
         req' = [req EXCEPT ![q] = [pc |-> "serving", version |-> v]]
  PROVE  /\ Cardinality(Holders(v)') = Cardinality(Holders(v)) + 1
         /\ \A w : w # v => Holders(w)' = Holders(w)
<1>1. Holders(v)' = Holders(v) \cup {q} /\ q \notin Holders(v)
  BY DEF Holders
<1>2. \A w : w # v => Holders(w)' = Holders(w)
  BY DEF Holders
<1>3. IsFiniteSet(Holders(v))
  BY HoldersFinite
<1>4. Cardinality(Holders(v) \cup {q}) = Cardinality(Holders(v)) + 1
  BY <1>1, <1>3, FS_AddElement, Zenon
<1>5. QED
  BY <1>1, <1>2, <1>4

\* One holder less: the request that is released.
LEMMA HoldersGive ==
  ASSUME NEW q \in Requests, NEW v, req[q].pc = "serving", req[q].version = v,
         req \in [Requests -> [pc : {"idle", "fallback", "serving"},
                               version : Versions \cup {NoVersion}]],
         req' = [req EXCEPT ![q] = Idle]
  PROVE  /\ Cardinality(Holders(v)') = Cardinality(Holders(v)) - 1
         /\ \A w : w # v => Holders(w)' = Holders(w)
<1>1. Holders(v)' = Holders(v) \ {q} /\ q \in Holders(v)
  BY DEF Holders, Idle
<1>2. \A w : w # v => Holders(w)' = Holders(w)
  BY DEF Holders, Idle
<1>3. QED
  BY <1>1, <1>2, HoldersFinite, FS_RemoveElement, SMTT(30)

\* A request that moves without serving leaves the holders alone.
LEMMA HoldersSame ==
  ASSUME NEW q \in Requests, NEW s, req[q].pc # "serving", s.pc # "serving",
         req \in [Requests -> [pc : {"idle", "fallback", "serving"},
                               version : Versions \cup {NoVersion}]],
         req' = [req EXCEPT ![q] = s]
  PROVE  \A w : Holders(w)' = Holders(w)
BY DEF Holders

-----------------------------------------------------------------------------
\* Initially nothing is held and nothing is removed.
LEMMA MuxInvInit == Init => MuxInv
<1> SUFFICES ASSUME Init PROVE MuxInv
  OBVIOUS
<1>1. TypeOK
  BY MuxAssumption DEF Init, TypeOK, Idle, Inactive, RemoverPC
<1>2. \A v : Holders(v) = {}
  BY DEF Init, Holders, Idle
<1>3. \A v : Cardinality(Holders(v)) = 0
  BY <1>2, FS_EmptySet
<1>4. CountExact /\ CountCovers
  BY <1>3 DEF Init, CountExact, CountCovers
<1>5. MapInv /\ HeldInv /\ RemoverInv /\ TimerInv /\ CurrentInv
  BY DEF Init, Idle, Inactive, MapInv, HeldInv, RemoverInv, TimerInv, CurrentInv
<1>6. QED
  BY <1>1, <1>4, <1>5 DEF MuxInv

\* getCurrent and getVersion hand out a version that is in the map.
LEMMA AcquireInv ==
  ASSUME MuxInv, NEW q \in Requests, NEW v \in versions,
         req[q].pc # "serving", acquire(q, v, closeTimer[v])
  PROVE  MuxInv'
<1> DEFINE timer == closeTimer[v]
<1> USE DEF MuxInv
<1>0. v \in Versions /\ v # NoVersion /\ timer \in Removers \cup {NoTimer}
  BY MuxAssumption DEF TypeOK
<1>1. TypeOK'
  BY <1>0, MuxAssumption DEF acquire, TypeOK
<1>2. /\ Cardinality(Holders(v)') = Cardinality(Holders(v)) + 1
      /\ \A w : w # v => Holders(w)' = Holders(w)
  BY HoldersTake, Zenon DEF acquire, TypeOK
<1>3. CountExact' /\ CountCovers'
  BY <1>0, <1>2, HoldersFinite DEF acquire, TypeOK, CountExact, CountCovers
<1>4. MapInv' /\ HeldInv' /\ CurrentInv'
  BY <1>0 DEF acquire, TypeOK, MapInv, HeldInv, CurrentInv
<1>5. RemoverInv'
  BY <1>0 DEF acquire, TypeOK, RemoverInv
<1>6. TimerInv'
  BY <1>0, MuxAssumption DEF acquire, TypeOK, TimerInv, RemoverInv
<1>7. QED
  BY <1>1, <1>3, <1>4, <1>5, <1>6

\* A request that finds no version, or only moves to its fallback.
LEMMA RequestInv ==
  ASSUME MuxInv, NEW q \in Requests, NEW s \in [pc : {"idle", "fallback"}, version : {NoVersion}],
         req[q].pc # "serving", req' = [req EXCEPT ![q] = s],
         UNCHANGED <<versions, closeTimer, currentVersion, count, rm,
                     prepared, retired, returned, quiet>>
  PROVE  MuxInv'
<1> USE DEF MuxInv
<1>1. TypeOK'
  BY DEF TypeOK
<1>2. \A w : Holders(w)' = Holders(w)
  BY HoldersSame, Zenon DEF TypeOK
<1>3. CountExact' /\ CountCovers'
  BY <1>2 DEF CountExact, CountCovers
<1>4. MapInv' /\ HeldInv' /\ RemoverInv' /\ TimerInv' /\ CurrentInv'
  BY DEF TypeOK, MapInv, HeldInv, RemoverInv, TimerInv, CurrentInv
<1>5. QED
  BY <1>1, <1>3, <1>4

\* release: the counter of a version in the map follows its holders down; that
\* of a version out of the map stays, which keeps it above them.
LEMMA ReleaseInv ==
  ASSUME MuxInv, NEW q \in Requests, release(q)
  PROVE  MuxInv'
<1> DEFINE v == req[q].version
<1> USE DEF MuxInv
<1>0. v \in Versions
  BY DEF release, HeldInv, MapInv, TypeOK
<1>1. PICK w \in Versions : w = v
  BY <1>0
<1>2. /\ Cardinality(Holders(w)') = Cardinality(Holders(w)) - 1
      /\ \A u : u # w => Holders(u)' = Holders(u)
  BY <1>1, HoldersGive, Zenon DEF release, TypeOK
<1>3. /\ count[w] >= Cardinality(Holders(w))
      /\ \A u \in Versions : Cardinality(Holders(u)) \in Nat /\ Cardinality(Holders(u)') \in Nat
  BY HoldersFinite, <1>2, HoldersFiniteNext DEF CountCovers
<1>4. count' = IF w \in versions THEN [count EXCEPT ![w] = @ - 1] ELSE count
  BY <1>1 DEF release
<1>5. TypeOK'
  <2>1. count' \in [Versions -> Nat]
    BY <1>2, <1>3, <1>4 DEF TypeOK
  <2>2. QED
    BY <2>1 DEF release, TypeOK, Idle
<1>6. CountExact' /\ CountCovers'
  BY <1>2, <1>3, <1>4 DEF release, TypeOK, CountExact, CountCovers
<1>7. MapInv' /\ HeldInv' /\ RemoverInv' /\ TimerInv' /\ CurrentInv'
  BY DEF release, Idle, TypeOK, MapInv, HeldInv, RemoverInv, TimerInv, CurrentInv
<1>8. QED
  BY <1>5, <1>6, <1>7

\* A step of a request.
LEMMA ServeInv ==
  ASSUME MuxInv, NEW q \in Requests, Serve(q)
  PROVE  MuxInv'
<1> USE DEF MuxInv
<1>1. CASE getCurrent(q)
  <2>1. CASE currentVersion.version = NoVersion
    BY <1>1, <2>1, RequestInv, Zenon DEF getCurrent, respondNone, Idle
  <2>2. CASE currentVersion.version # NoVersion
    <3>1. /\ currentVersion.version \in versions
          /\ currentVersion.closeTimer = closeTimer[currentVersion.version]
      BY <2>2 DEF CurrentInv, TimerInv, TypeOK
    <3>2. QED
      BY <1>1, <2>2, <3>1, AcquireInv DEF getCurrent
  <2>3. QED
    BY <2>1, <2>2
<1>2. ASSUME NEW v \in Versions, getVersion(q, v)
      PROVE  MuxInv'
  <2>1. CASE v \in versions
    BY <1>2, <2>1, AcquireInv DEF getVersion
  <2>2. CASE v \notin versions
    BY <1>2, <2>2, RequestInv, Zenon DEF getVersion
  <2>3. QED
    BY <2>1, <2>2
<1>3. CASE release(q)
  BY <1>3, ReleaseInv
<1>4. QED
  BY <1>1, <1>2, <1>3 DEF Serve

-----------------------------------------------------------------------------
\* A version is prepared once, so nobody holds it yet.
LEMMA PrepareInv ==
  ASSUME MuxInv, NEW v \in Versions, Prepare(v)
  PROVE  MuxInv'
<1> USE DEF MuxInv, Prepare, prepare
<1>1. TypeOK'
  BY DEF TypeOK
<1>2. \A w : Holders(w)' = Holders(w)
  BY DEF Holders
<1>3. Cardinality(Holders(v)) = 0
  <2>1. Holders(v) = {}
    BY DEF Holders, HeldInv
  <2>2. QED
    BY <2>1, FS_EmptySet
<1>4. CountExact' /\ CountCovers'
  <2>1. count' = [count EXCEPT ![v] = 0] /\ versions' = versions \cup {v}
    OBVIOUS
  <2>2. QED
    BY <1>2, <1>3, <2>1 DEF TypeOK, CountExact, CountCovers
<1>5. MapInv' /\ HeldInv' /\ RemoverInv' /\ CurrentInv'
  BY DEF TypeOK, MapInv, HeldInv, RemoverInv, CurrentInv
<1>6. TimerInv'
  BY DEF TypeOK, MapInv, RemoverInv, TimerInv
<1>7. QED
  BY <1>1, <1>4, <1>5, <1>6

\* The steps that leave requests and counters alone: upgrade, the sections of
\* remove and the clock.
LEMMA QuietInv ==
  ASSUME MuxInv, versions' \subseteq versions, UNCHANGED <<req, count, prepared>>,
         TypeOK', MapInv', RemoverInv', TimerInv', CurrentInv', HeldInv'
  PROVE  MuxInv'
<1>1. \A w : Holders(w)' = Holders(w)
  BY DEF Holders
<1>2. CountExact' /\ CountCovers'
  BY <1>1 DEF MuxInv, CountExact, CountCovers
<1>3. QED
  BY <1>2 DEF MuxInv

\* Only a version that was not retired becomes current.
LEMMA UpgradeInv ==
  ASSUME MuxInv, NEW v \in Versions, Upgrade(v)
  PROVE  MuxInv'
<1> USE DEF MuxInv, Upgrade, upgrade
<1>1. TypeOK'
  BY DEF TypeOK
<1>2. MapInv' /\ HeldInv' /\ RemoverInv' /\ TimerInv'
  BY DEF MapInv, HeldInv, RemoverInv, TimerInv
<1>3. CurrentInv'
  BY DEF CurrentInv, TimerInv, TypeOK
<1>4. QED
  BY <1>1, <1>2, <1>3, QuietInv

\* The first section of remove, never for the current version.
LEMMA RemoveInv ==
  ASSUME MuxInv, NEW r \in Removers, NEW v \in Versions, Remove(r, v)
  PROVE  MuxInv'
<1> USE DEF MuxInv, Remove, removeBegin
<1>1. TypeOK'
  BY MuxAssumption DEF TypeOK, RemoverPC
<1>2. MapInv' /\ HeldInv' /\ CurrentInv'
  BY DEF MapInv, HeldInv, CurrentInv, TypeOK
<1>3. RemoverInv'
  BY MuxAssumption DEF RemoverInv, TypeOK
<1>4. TimerInv'
  BY MuxAssumption DEF TimerInv, RemoverInv, TypeOK
<1>5. QED
  BY <1>1, <1>2, <1>3, <1>4, QuietInv

\* The later sections of remove.
LEMMA RemoveStepInv ==
  ASSUME MuxInv, NEW r \in Removers, RemoveStep(r)
  PROVE  MuxInv'
<1> USE DEF MuxInv
<1>0. \A s \in Removers : s = r
  BY MuxAssumption
<1>1. CASE removeArm(r)
  <2> USE <1>1 DEF removeArm
  <2>0. rm[r].version \in versions /\ rm[r].version \in Versions
    BY DEF RemoverInv, TypeOK
  <2>1. TypeOK'
    <3>1. rm' \in [Removers -> [pc : RemoverPC, version : Versions \cup {NoVersion},
                                left : 0..RemoveTimeout]]
      BY MuxAssumption DEF TypeOK, RemoverPC
    <3>2. quiet' \in [Removers -> 0..RemoveTimeout]
      BY MuxAssumption DEF TypeOK
    <3>3. QED
      BY <2>0, <3>1, <3>2 DEF TypeOK
  <2>2. MapInv' /\ HeldInv' /\ RemoverInv' /\ CurrentInv'
    BY <1>0 DEF MapInv, HeldInv, RemoverInv, CurrentInv, TypeOK
  <2>3. TimerInv'
    BY <1>0, MuxAssumption DEF TimerInv, RemoverInv, TypeOK
  <2>4. QED
    BY <2>1, <2>2, <2>3, QuietInv DEF RemoverInv
<1>2. CASE removeDelete(r)
  <2> USE <1>2 DEF removeDelete
  <2>1. TypeOK'
    BY MuxAssumption DEF TypeOK, RemoverInv, RemoverPC
  <2>2. MapInv' /\ HeldInv' /\ CurrentInv'
    BY DEF MapInv, HeldInv, RemoverInv, CurrentInv, TypeOK
  <2>3. RemoverInv'
    BY <1>0 DEF MapInv, RemoverInv, TypeOK
  <2>4. TimerInv'
    BY <1>0, MuxAssumption DEF TimerInv, RemoverInv, TypeOK
  <2>5. QED
    BY <2>1, <2>2, <2>3, <2>4, QuietInv
<1>3. CASE removeReturn(r)
  <2> USE <1>3 DEF removeReturn
  <2>1. TypeOK'
    BY MuxAssumption DEF TypeOK, RemoverInv, RemoverPC, Inactive
  <2>2. rm[r].version \in Versions /\ Holders(rm[r].version) = {}
    <3>1. PICK v \in Versions : v = rm[r].version
      BY DEF RemoverInv, TypeOK
    <3>2. Cardinality(Holders(v)) = 0
      BY <3>1, HoldersFinite DEF CountCovers
    <3>3. QED
      BY <3>1, <3>2, HoldersFinite, FS_EmptySet
  <2>3. MapInv' /\ CurrentInv'
    BY DEF MapInv, RemoverInv, CurrentInv, TypeOK
  <2>4. HeldInv'
    BY <2>2 DEF HeldInv, Holders
  <2>5. RemoverInv' /\ TimerInv'
    BY <1>0, MuxAssumption DEF TimerInv, RemoverInv, TypeOK, Inactive
  <2>6. QED
    BY <2>1, <2>3, <2>4, <2>5, QuietInv
<1>4. QED
  BY <1>1, <1>2, <1>3 DEF RemoveStep

\* The clock: what a timer loses, its version's quiet time gains.
LEMMA TickInv ==
  ASSUME MuxInv, Tick
  PROVE  MuxInv'
<1> USE DEF MuxInv, Tick
<1>1. TypeOK'
  <2>1. \A r \in Removers : rm[r].left > 0 => quiet[r] + 1 \in 0..RemoveTimeout
    BY MuxAssumption DEF TimerInv, TypeOK
  <2>2. QED
    BY <2>1, MuxAssumption DEF TypeOK
<1>2. MapInv' /\ HeldInv' /\ RemoverInv' /\ CurrentInv'
  BY DEF MapInv, HeldInv, RemoverInv, CurrentInv, TypeOK
<1>3. TimerInv'
  <2>1. \A r \in Removers :
          /\ rm'[r].version = rm[r].version /\ rm'[r].pc = rm[r].pc
          /\ rm[r].left = 0 => rm'[r].left = 0
          /\ rm[r].left > 0 => /\ rm'[r].left = rm[r].left - 1
                               /\ quiet'[r] = quiet[r] + 1
    BY DEF TypeOK
  <2>2. \A r \in Removers : rm[r].left \in Nat /\ quiet[r] \in Nat
    BY MuxAssumption DEF TypeOK
  <2>3. \A r \in Removers :
          rm'[r].left > 0 => /\ rm'[r].pc = "timing"
                             /\ rm'[r].left + quiet'[r] = RemoveTimeout
                             /\ closeTimer'[rm'[r].version] = r
    BY <2>1, <2>2, MuxAssumption DEF TimerInv
  <2>4. \A v \in Versions :
          closeTimer'[v] # NoTimer =>
            /\ v \in retired'
            /\ rm'[closeTimer'[v]].version = v /\ rm'[closeTimer'[v]].pc = "timing"
    BY <2>1 DEF TimerInv, TypeOK
  <2>5. QED
    BY <2>3, <2>4 DEF TimerInv
<1>4. QED
  BY <1>1, <1>2, <1>3, QuietInv

\* Every step of the mux preserves the inductive invariant.
LEMMA MuxInvStep == MuxInv /\ [Next]_muxVars => MuxInv'
<1> SUFFICES ASSUME MuxInv, [Next]_muxVars PROVE MuxInv'
  OBVIOUS
<1>1. CASE UNCHANGED muxVars
  BY <1>1 DEF muxVars, codeVars, MuxInv, TypeOK, CountExact, CountCovers, MapInv,
              HeldInv, RemoverInv, TimerInv, CurrentInv, Holders
<1>2. CASE \E q \in Requests : Serve(q)
  BY <1>2, ServeInv
<1>3. CASE \E v \in Versions : Prepare(v) \/ Upgrade(v)
  BY <1>3, PrepareInv, UpgradeInv
<1>4. CASE \E r \in Removers : RemoveStep(r) \/ \E v \in Versions : Remove(r, v)
  BY <1>4, RemoveStepInv, RemoveInv
<1>5. CASE Tick
  BY <1>5, TickInv
<1>6. QED
  BY <1>1, <1>2, <1>3, <1>4, <1>5 DEF Next

-----------------------------------------------------------------------------
\* The inductive invariant of the mux holds in every reachable state.
THEOREM MuxSafe == Spec => []MuxInv
<1>1. QED
  BY MuxInvInit, MuxInvStep, PTL DEF Spec

\* Type correctness: no counter goes below zero (release never panics), no
\* removal timer is out of its range.
THEOREM MuxTypeCorrect == Spec => []TypeOK
<1>1. MuxInv => TypeOK
  BY DEF MuxInv
<1>2. QED
  BY <1>1, MuxSafe, PTL

\* getCurrent, getVersion and release keep the counter of each version in the
\* map equal to the number of its holders.
THEOREM CountsAreExact == Spec => []CountExact
<1>1. MuxInv => CountExact
  BY DEF MuxInv
<1>2. QED
  BY <1>1, MuxSafe, PTL

\* A version that remove returned is in nobody's hands and cannot be got again.
THEOREM RemovedIsUnused == Spec => []RemovedUnused
<1>1. MuxInv => RemovedUnused
  BY MuxAssumption
     DEF MuxInv, TypeOK, RemovedUnused, MapInv, HeldInv, CurrentInv, Holders
<1>2. QED
  BY <1>1, MuxSafe, PTL

\* The current version is in the map and no call of remove works on it.
THEOREM CurrentIsHeld == Spec => []CurrentHeld
<1>1. MuxInv => CurrentHeld
  BY MuxAssumption DEF MuxInv, CurrentHeld, RemoverInv, CurrentInv
<1>2. QED
  BY <1>1, MuxSafe, PTL

\* Only the clock brings a running timer to zero, and then the version has been
\* without a request for all of RemoveTimeout.
THEOREM TimersAreHonoured == Spec => TimerHonoured
<1> DEFINE A == \A r \in Removers :
                  rm[r].left > 0 /\ rm'[r].left = 0 => quiet'[r] >= RemoveTimeout
<1>1. ASSUME MuxInv, MuxInv', [Next]_muxVars
      PROVE  A
  <2> SUFFICES ASSUME NEW r \in Removers, rm[r].left > 0, rm'[r].left = 0
               PROVE  quiet'[r] >= RemoveTimeout
    OBVIOUS
  <2> USE DEF MuxInv, TypeOK
  <2>0. rm[r].pc = "timing" /\ rm[r].left + quiet[r] = RemoveTimeout
        /\ rm[r].left \in Nat /\ quiet[r] \in Nat
    BY <1>1, MuxAssumption DEF TimerInv
  <2>1. CASE UNCHANGED muxVars
    BY <2>1 DEF muxVars, codeVars
  <2>2. ASSUME NEW q \in Requests, Serve(q) PROVE FALSE
    <3>1. ASSUME NEW v, NEW t \in Removers \cup {NoTimer}, acquire(q, v, t) PROVE FALSE
      BY <1>1, <2>0, <3>1, MuxAssumption DEF acquire
    <3>2. QED
      BY <1>1, <2>0, <2>2, <3>1
         DEF Serve, getCurrent, getVersion, release, respondNone
  <2>3. ASSUME NEW v \in Versions, Prepare(v) \/ Upgrade(v) PROVE FALSE
    BY <2>3 DEF Prepare, prepare, Upgrade, upgrade
  <2>4. ASSUME NEW s \in Removers, RemoveStep(s) \/ \E v \in Versions : Remove(s, v)
        PROVE  FALSE
    BY <1>1, <2>0, <2>4, MuxAssumption
       DEF RemoveStep, removeArm, removeDelete, removeReturn, Remove, removeBegin
  <2>5. CASE Tick
    BY <1>1, <2>0, <2>5, MuxAssumption DEF Tick
  <2>6. QED
    BY <1>1, <2>1, <2>2, <2>3, <2>4, <2>5 DEF Next
<1>2. MuxInv /\ MuxInv' /\ [Next]_muxVars => [A]_muxVars
  BY <1>1
<1>3. QED
  BY <1>2, MuxSafe, PTL DEF Spec, TimerHonoured

\* A version is returned by remove at most once.
THEOREM RemoveIsIdempotent == Spec => RemoveIdempotent
<1> DEFINE A == \A r \in Removers : removeReturn(r) => rm[r].version \notin returned
<1>1. MuxInv => [A]_muxVars
  BY DEF MuxInv, RemoverInv, removeReturn
<1>2. QED
  BY <1>1, MuxSafe, PTL DEF RemoveIdempotent

-----------------------------------------------------------------------------
\* The mux implements the lease: serving is Take, release is Give, the return
\* of remove is Close, and all other steps are invisible.
THEOREM MuxImplementsLease == Spec => ImplementsLease
<1>1. Init => L!Init
  BY DEF Init, L!Init, holding, Idle
<1>2. ASSUME MuxInv, [Next]_muxVars
      PROVE  [L!Next]_<<holding, returned>>
  <2> USE DEF MuxInv
  <2>1. CASE UNCHANGED muxVars
    BY <2>1 DEF muxVars, codeVars, holding
  <2>2. ASSUME NEW q \in Requests, NEW v \in versions, req[q].pc # "serving",
               NEW t, acquire(q, v, t)
        PROVE  L!Next
    <3>1. v \in Versions /\ v \notin returned /\ v # NoVersion
      BY <1>2, MuxAssumption DEF TypeOK, MapInv
    <3>2. holding[q] = NoVersion /\ holding' = [holding EXCEPT ![q] = v]
      BY <1>2, <2>2, Zenon DEF acquire, holding, TypeOK
    <3>3. L!Take(q, v)
      BY <2>2, <3>1, <3>2 DEF L!Take, acquire
    <3>4. QED
      BY <3>1, <3>3 DEF L!Next
  <2>3. ASSUME NEW q \in Requests, Serve(q)
        PROVE  [L!Next]_<<holding, returned>>
    <3>1. CASE release(q)
      <4>1. holding[q] # NoVersion
        BY <1>2, <3>1, MuxAssumption DEF release, holding, HeldInv, MapInv, TypeOK
      <4>2. holding' = [holding EXCEPT ![q] = NoVersion] /\ returned' = returned
        BY <1>2, <3>1, Zenon DEF release, holding, Idle, TypeOK
      <4>3. L!Give(q)
        BY <4>1, <4>2 DEF L!Give
      <4>4. QED
        BY <4>3 DEF L!Next
    <3>2. CASE getCurrent(q)
      <4>1. CASE currentVersion.version = NoVersion
        BY <1>2, <3>2, <4>1 DEF getCurrent, respondNone, holding, Idle, TypeOK
      <4>2. CASE currentVersion.version # NoVersion
        BY <1>2, <2>2, <3>2, <4>2 DEF getCurrent, CurrentInv
      <4>3. QED
        BY <4>1, <4>2
    <3>3. ASSUME NEW v \in Versions, getVersion(q, v)
          PROVE  [L!Next]_<<holding, returned>>
      <4>1. CASE v \in versions
        BY <2>2, <3>3, <4>1 DEF getVersion
      <4>2. CASE v \notin versions
        BY <1>2, <3>3, <4>2 DEF getVersion, holding, TypeOK
      <4>3. QED
        BY <4>1, <4>2
    <3>4. QED
      BY <2>3, <3>1, <3>2, <3>3 DEF Serve
  <2>4. ASSUME NEW r \in Removers, removeReturn(r)
        PROVE  L!Next
    <3>1. PICK v \in Versions : v = rm[r].version /\ v \notin returned
      BY <1>2, <2>4 DEF removeReturn, RemoverInv, TypeOK
    <3>2. Holders(v) = {}
      BY <1>2, <2>4, <3>1, HoldersFinite, FS_EmptySet DEF removeReturn, CountCovers
    <3>3. \A q \in Requests : holding[q] # v
      BY <3>2, MuxAssumption DEF Holders, holding
    <3>4. L!Close(v)
      BY <2>4, <3>1, <3>3 DEF L!Close, removeReturn, holding
    <3>5. QED
      BY <3>4 DEF L!Next
  <2>5. QED
    BY <1>2, <2>1, <2>3, <2>4
       DEF Next, Prepare, prepare, Upgrade, upgrade, Remove, removeBegin, RemoveStep,
           removeArm, removeDelete, Tick, holding
<1>3. QED
  BY <1>1, <1>2, MuxSafe, PTL DEF Spec, ImplementsLease, L!Spec
=============================================================================
