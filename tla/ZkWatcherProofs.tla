-------------------------- MODULE ZkWatcherProofs --------------------------
(***************************************************************************)
(* Proofs about module ZkWatcher, for any nodes and any number of changes  *)
(* and faults: cancelWatches never waits for a goroutine that is gone, and *)
(* a watch with one goroutine closes its channel once and replays nothing. *)
(***************************************************************************)
EXTENDS ZkWatcher, TLAPS

-----------------------------------------------------------------------------
(* The goroutines of a watch, counted by their state. *)

\* A goroutine ends.
LEMMA RemoveOne ==
  ASSUME NEW b \in [LoopState -> Nat], NEW l \in Running(b), NEW c, c = end(b, l)
  PROVE  /\ c \in [LoopState -> Nat] /\ Running(c) \subseteq Running(b)
         /\ Single(b) => Running(c) = {}
<1>1. l \in LoopState /\ b[l] > 0 /\ c \in [LoopState -> Nat]
  BY DEF Running, end
<1>2. \A k \in LoopState : c[k] = IF k = l THEN b[k] - 1 ELSE b[k]
  BY <1>1 DEF end
<1>3. Running(c) \subseteq Running(b)
  BY <1>1, <1>2 DEF Running
<1>4. Single(b) => Running(c) = {}
  BY <1>1, <1>2 DEF Running, Single
<1> QED BY <1>1, <1>3, <1>4

\* A goroutine starts.
LEMMA AddOne ==
  ASSUME NEW b \in [LoopState -> Nat], NEW l \in LoopState, NEW c, c = begin(b, l)
  PROVE  /\ c \in [LoopState -> Nat] /\ Running(c) = Running(b) \cup {l}
         /\ Running(b) = {} => Single(c)
<1>1. c \in [LoopState -> Nat]
  BY DEF begin
<1>2. \A k \in LoopState : c[k] = IF k = l THEN b[k] + 1 ELSE b[k]
  BY DEF begin
<1>3. Running(c) = Running(b) \cup {l}
  BY <1>1, <1>2 DEF Running
<1>4. Running(b) = {} => Single(c)
  BY <1>2, <1>3 DEF Running, Single
<1> QED BY <1>1, <1>3, <1>4

\* A goroutine goes on.
LEMMA ReplaceOne ==
  ASSUME NEW b \in [LoopState -> Nat], NEW l \in Running(b), NEW m \in LoopState,
         NEW c, c = replace(b, l, m)
  PROVE  /\ c \in [LoopState -> Nat] /\ Running(c) # {}
         /\ Single(b) => Single(c) /\ Running(c) = {m}
<1> DEFINE d == end(b, l)
<1>1. d \in [LoopState -> Nat] /\ (Single(b) => Running(d) = {})
  BY RemoveOne
<1>2. c = begin(d, m)
  BY DEF replace
<1> HIDE DEF d
<1>3. /\ c \in [LoopState -> Nat] /\ Running(c) = Running(d) \cup {m}
      /\ Running(d) = {} => Single(c)
  BY <1>1, <1>2, AddOne
<1> QED BY <1>1, <1>3

\* The goroutines of c are those of b, with other events.
Follows(b, c) ==
  /\ c \in [LoopState -> Nat] /\ (Running(c) = {} <=> Running(b) = {}) /\ (Single(b) => Single(c))
  /\ \A m \in Running(c) : \E l \in Running(b) : l.at = m.at /\ l.children = m.children

LEMMA FireFollows ==
  ASSUME NEW b \in [LoopState -> Nat], NEW ev \in {"fired", "bad"}, NEW c, c = Fire(b, ev)
  PROVE  Follows(b, c)
<1> DEFINE unfired(m) == [m EXCEPT !.ev = "armed"]
           fired(l) == [l EXCEPT !.ev = ev]
<1>1. ASSUME NEW m \in LoopState, m.ev = ev
      PROVE  /\ unfired(m) \in LoopState /\ unfired(m).ev = "armed" /\ fired(unfired(m)) = m
             /\ unfired(m).at = m.at /\ unfired(m).children = m.children
  BY <1>1 DEF LoopState
<1>2. ASSUME NEW l \in LoopState, l.ev = "armed"
      PROVE  fired(l) \in LoopState /\ fired(l).ev = ev /\ unfired(fired(l)) = l
  BY <1>2 DEF LoopState
<1>3. \A m \in LoopState :
        /\ m.ev = "armed" => c[m] = 0
        /\ m.ev = ev => c[m] = b[m] + b[unfired(m)]
        /\ m.ev # "armed" /\ m.ev # ev => c[m] = b[m]
  BY DEF Fire
<1>4. c = [l \in LoopState |-> c[l]]
  BY DEF Fire
<1> HIDE DEF unfired, fired
<1>5. c \in [LoopState -> Nat]
  BY <1>1, <1>3, <1>4
<1>6. ASSUME NEW m \in Running(c)
      PROVE  m \in LoopState /\ (m \in Running(b) \/ (m.ev = ev /\ unfired(m) \in Running(b)))
  <2>1. m \in LoopState /\ c[m] > 0
    BY <1>6 DEF Running
  <2>2. CASE m.ev = ev
    BY <1>1, <1>3, <2>1, <2>2 DEF Running
  <2>3. CASE m.ev # ev
    BY <1>3, <2>1, <2>3 DEF Running
  <2> QED BY <2>1, <2>2, <2>3
<1>7. ASSUME NEW l \in Running(b) PROVE Running(c) # {}
  <2>1. l \in LoopState /\ b[l] > 0
    BY <1>7 DEF Running
  <2>2. CASE l.ev = "armed"
    <3>1. fired(l) \in LoopState /\ c[fired(l)] = b[fired(l)] + b[l]
      BY <1>2, <1>3, <2>1, <2>2
    <3> QED BY <2>1, <3>1 DEF Running
  <2>3. CASE l.ev = ev
    <3>1. c[l] = b[l] + b[unfired(l)] /\ unfired(l) \in LoopState
      BY <1>1, <1>3, <2>1, <2>3
    <3> QED BY <2>1, <3>1 DEF Running
  <2>4. CASE l.ev # "armed" /\ l.ev # ev
    BY <1>3, <2>1, <2>4 DEF Running
  <2> QED BY <2>2, <2>3, <2>4
<1>8. \A m \in Running(c) : \E l \in Running(b) : l.at = m.at /\ l.children = m.children
  BY <1>1, <1>6
<1>9. ASSUME Single(b), NEW m \in Running(c), NEW n \in Running(c) PROVE m = n /\ c[m] = 1
  <2>1. PICK l \in Running(b) : Running(b) = {l} /\ b[l] = 1 /\ l \in LoopState
    BY <1>6, <1>9 DEF Single, Running
  <2>2. \A k \in LoopState : k # l => b[k] = 0
    BY <2>1 DEF Running
  <2>3. ASSUME NEW k \in Running(c)
        PROVE  /\ k \in LoopState /\ c[k] = 1
               /\ k = l \/ (k.ev = ev /\ k = fired(l))
               /\ k = l => l.ev # "armed"
    <3>1. k \in LoopState /\ (k = l \/ (k.ev = ev /\ unfired(k) = l)) /\ c[k] > 0
      BY <1>6, <2>1, <2>3 DEF Running
    <3>2. CASE k.ev = ev
      <4>1. unfired(k) \in LoopState /\ unfired(k).ev = "armed" /\ k = fired(unfired(k))
        BY <1>1, <3>1, <3>2
      <4>2. c[k] = b[k] + b[unfired(k)] /\ k # unfired(k)
        BY <1>3, <3>1, <3>2, <4>1
      <4> QED BY <2>1, <2>2, <3>1, <3>2, <4>1, <4>2
    <3>3. CASE k.ev # ev
      BY <1>3, <2>1, <3>1, <3>3
    <3> QED BY <3>2, <3>3
  <2>4. l.ev = "armed" \/ l.ev # "armed"
    OBVIOUS
  <2>5. l.ev # "armed" => m = l /\ n = l
    <3> SUFFICES ASSUME l.ev # "armed", NEW k \in Running(c) PROVE k = l
      OBVIOUS
    <3>1. k \in LoopState /\ (k = l \/ (k.ev = ev /\ unfired(k) = l))
      BY <1>6, <2>1
    <3> QED BY <1>1, <3>1
  <2> QED BY <2>3, <2>5
<1>10. Single(b) => Single(c)
  BY <1>9 DEF Single
<1>11. Running(c) = {} <=> Running(b) = {}
  BY <1>6, <1>7
<1> QED BY <1>5, <1>8, <1>10, <1>11 DEF Follows

-----------------------------------------------------------------------------
(* What steps leave alone. *)

LEMMA WatchInvAfter ==
  ASSUME ZkType', RunType', LoopType', LockInv', HeardInv', OnceInv' PROVE WatchInv'
BY DEF WatchInv, TypeOK

\* A step that takes no goroutine away from a watch, and leaves run where it is.
LEMMA HeardStays ==
  ASSUME HeardInv, RunType, UNCHANGED <<run, watchedNodes>>,
         \A w \in Watches : Running(loops[w]) # {} => Running(loops'[w]) # {}
  PROVE  HeardInv'
<1>1. Watched' = Watched /\ Watched \subseteq Watches /\ run.watches \subseteq Watches
  BY DEF Watched, RunType
<1> QED BY <1>1 DEF HeardInv

LEMMA LockStays ==
  ASSUME LockInv, UNCHANGED <<run, hooksLock, call, watchedNodes>> PROVE LockInv'
BY DEF LockInv, Watched

LEMMA FollowsItself == ASSUME NEW b, b \in [LoopState -> Nat] PROVE Follows(b, b)
BY DEF Follows

\* A step that only brings events to goroutines, or changes the children.
LEMMA OnceStays ==
  ASSUME OnceInv, ZkType, ZkType', LoopType,
         \A w \in Watches : Follows(loops[w], loops'[w]) /\ children'[w] >= children[w],
         UNCHANGED <<watchedNodes, updatesClosed, got, doubled, panicked>>
  PROVE  OnceInv'
<1>1. ASSUME NEW w \in Watches, Orderly(w) PROVE Orderly(w)'
  <2>1. /\ got[w] \in Nat /\ children[w] \in Nat /\ children'[w] \in Nat /\ children'[w] >= children[w]
        /\ loops[w] \in [LoopState -> Nat] /\ Follows(loops[w], loops'[w])
    BY DEF ZkType, LoopType
  <2>2. Single(loops'[w]) /\ (w \in updatesClosed => Running(loops'[w]) = {})
    BY <1>1, <2>1 DEF Follows, Orderly
  <2>3. got[w] <= children'[w]
    BY <1>1, <2>1 DEF Orderly
  <2>4. ASSUME NEW m \in Running(loops'[w]), m.at = "send"
        PROVE  got[w] <= m.children /\ m.children <= children'[w]
    <3>1. PICK l \in Running(loops[w]) : l.at = m.at /\ l.children = m.children
      BY <2>1 DEF Follows
    <3>2. l.children \in Nat /\ got[w] <= l.children /\ l.children <= children[w]
      BY <1>1, <2>1, <2>4, <3>1 DEF Orderly, LoopState, Running
    <3> QED BY <2>1, <3>1, <3>2
  <2> QED BY <2>2, <2>3, <2>4 DEF Orderly
<1> QED BY <1>1 DEF OnceInv

LEMMA LoopsStay ==
  ASSUME WatchInv, ZkType', UNCHANGED <<loopVars, children, watchedNodes>>
  PROVE  LoopType' /\ OnceInv'
<1>1. UNCHANGED <<loops, updatesClosed, got, doubled, panicked>>
  BY DEF loopVars
<1>2. LoopType'
  BY <1>1 DEF WatchInv, TypeOK, LoopType
<1>3. OnceInv'
  BY <1>1 DEF WatchInv, OnceInv, Orderly
<1> QED BY <1>2, <1>3

\* A step of the goroutines of one watch.
LEMMA OnceAt ==
  ASSUME OnceInv, LoopType, NEW w \in Watches, NEW c, loops' = [loops EXCEPT ![w] = c],
         children' = children, \A v \in Watches \ {w} : got'[v] = got[v],
         \A v \in Watches \ {w} : watchedNodes'[v] = watchedNodes[v],
         updatesClosed' \subseteq updatesClosed \cup {w}, updatesClosed' \subseteq Watches,
         w \in updatesClosed' => watchedNodes'[w] = "removed",
         ~doubled' => ~doubled /\ ~panicked' /\ Orderly(w)'
  PROVE  OnceInv'
<1>1. \A v \in Watches \ {w} : loops'[v] = loops[v]
  BY DEF LoopType
<1>2. ASSUME ~doubled', NEW v \in Watches \ {w} PROVE Orderly(v)'
  <2>1. Orderly(v)
    BY <1>2 DEF OnceInv
  <2> QED BY <1>1, <2>1 DEF Orderly
<1>3. \A v \in updatesClosed' : watchedNodes'[v] = "removed"
  BY DEF OnceInv
<1> QED BY <1>2, <1>3 DEF OnceInv

-----------------------------------------------------------------------------
(* Zookeeper. *)

\* Steps that touch neither hooks nor goroutines.
LEMMA AsideKeeps ==
  ASSUME WatchInv, recover \/ sessionError \/ close \/ \E e \in Ephemerals : expireOld(e)
  PROVE  WatchInv'
<1>1. UNCHANGED <<run, hookVars, loopVars, children, losses>>
  BY DEF recover, sessionError, close, expireOld, zkVars
<1>2. UNCHANGED <<hooksLock, call, ephemeralNodes, watchedNodes, loops>>
  BY <1>1 DEF hookVars, loopVars
<1>3. ZkType'
  BY ZkAssumption DEF WatchInv, TypeOK, ZkType, recover, sessionError, close, expireOld, zkVars
<1>4. RunType'
  <2>1. errs' \in BOOLEAN /\ closing' \in {"no", "send", "done"}
    BY Zenon DEF WatchInv, TypeOK, RunType, recover, sessionError, close, expireOld
  <2> QED BY <1>1, <1>2, <2>1 DEF WatchInv, TypeOK, RunType
<1>5. LockInv' /\ HeardInv'
  BY <1>1, <1>2, LockStays, HeardStays DEF WatchInv, TypeOK
<1> QED BY <1>1, <1>2, <1>3, <1>4, <1>5, LoopsStay, WatchInvAfter

\* Events: what BadEvent and a change of the children do to the goroutines.
LEMMA EventFollows ==
  ASSUME WatchInv,
         BadEvent \/ loops' = loops \/ \E w \in Watches : loops' = [loops EXCEPT ![w] = Fire(loops[w], "fired")]
  PROVE  loops' \in [Watches -> [LoopState -> Nat]] /\ \A w \in Watches : Follows(loops[w], loops'[w])
<1>1. loops \in [Watches -> [LoopState -> Nat]]
  BY DEF WatchInv, TypeOK, LoopType
<1>2. CASE BadEvent
  <2>1. loops' = [w \in Watches |-> Fire(loops[w], "bad")]
    BY <1>2 DEF BadEvent
  <2>2. \A w \in Watches : Follows(loops[w], loops'[w])
    BY <1>1, <2>1, FireFollows
  <2>3. \A w \in Watches : loops'[w] \in [LoopState -> Nat]
    BY <2>2 DEF Follows
  <2> QED BY <2>1, <2>2, <2>3
<1>3. CASE loops' = loops
  BY <1>1, <1>3, FollowsItself
<1>4. ASSUME NEW w \in Watches, loops' = [loops EXCEPT ![w] = Fire(loops[w], "fired")]
      PROVE  loops' \in [Watches -> [LoopState -> Nat]] /\ \A v \in Watches : Follows(loops[v], loops'[v])
  <2>1. Follows(loops[w], loops'[w])
    BY <1>1, <1>4, FireFollows
  <2>2. \A v \in Watches \ {w} : loops'[v] = loops[v]
    BY <1>1, <1>4
  <2>3. Fire(loops[w], "fired") \in [LoopState -> Nat]
    BY <1>1, FireFollows DEF Follows
  <2>4. loops' \in [Watches -> [LoopState -> Nat]]
    BY <1>1, <1>4, <2>3
  <2> QED BY <1>1, <2>1, <2>2, <2>4, FollowsItself
<1> QED BY <1>2, <1>3, <1>4

LEMMA EventKeeps ==
  ASSUME WatchInv, ZkType',
         BadEvent \/ loops' = loops \/ \E w \in Watches : loops' = [loops EXCEPT ![w] = Fire(loops[w], "fired")],
         \A w \in Watches : children'[w] >= children[w],
         UNCHANGED <<watchedNodes, updatesClosed, got, doubled, panicked>>
  PROVE  LoopType' /\ OnceInv' /\ \A w \in Watches : Running(loops[w]) # {} => Running(loops'[w]) # {}
<1>1. loops' \in [Watches -> [LoopState -> Nat]] /\ \A w \in Watches : Follows(loops[w], loops'[w])
  BY EventFollows
<1>2. \A w \in Watches : loops'[w] \in [LoopState -> Nat] /\ (Running(loops[w]) # {} => Running(loops'[w]) # {})
  BY <1>1 DEF Follows
<1>3. LoopType'
  BY <1>1, <1>2 DEF WatchInv, TypeOK, LoopType
<1>4. OnceInv'
  BY <1>1, OnceStays DEF WatchInv, TypeOK
<1> QED BY <1>2, <1>3, <1>4

LEMMA ChildrenGrow ==
  ASSUME WatchInv, children' = children PROVE \A w \in Watches : children'[w] >= children[w]
BY DEF WatchInv, TypeOK, ZkType

\* hiccup, expire and change leave run and its callers where they are.
LEMMA FaultKeeps ==
  ASSUME WatchInv, hiccup \/ expire \/ \E w \in Watches : change(w)
  PROVE  WatchInv'
<1>1. UNCHANGED <<errs, run, closing, hookVars, updatesClosed, got, doubled, panicked>>
  BY DEF hiccup, expire, change
<1>2. UNCHANGED <<hooksLock, call, ephemeralNodes, watchedNodes>>
  BY <1>1 DEF hookVars
<1>3. ZkType'
  BY ZkAssumption DEF WatchInv, TypeOK, ZkType, hiccup, expire, change
<1>4. \A w \in Watches : children'[w] >= children[w]
  BY ChildrenGrow DEF WatchInv, TypeOK, ZkType, hiccup, expire, change
<1>5. BadEvent \/ loops' = loops \/ \E w \in Watches : loops' = [loops EXCEPT ![w] = Fire(loops[w], "fired")]
  BY DEF hiccup, expire, change
<1>6. LoopType' /\ OnceInv' /\ \A w \in Watches : Running(loops[w]) # {} => Running(loops'[w]) # {}
  BY <1>1, <1>2, <1>3, <1>4, <1>5, EventKeeps
<1>7. RunType'
  BY <1>1, <1>2 DEF WatchInv, TypeOK, RunType
<1>8. LockInv' /\ HeardInv'
  BY <1>1, <1>2, <1>6, LockStays, HeardStays DEF WatchInv, TypeOK
<1> QED BY <1>3, <1>6, <1>7, <1>8, WatchInvAfter

-----------------------------------------------------------------------------
(* run. *)

\* Steps of run that leave the goroutines and the maps alone.
LEMMA RunKeeps ==
  ASSUME WatchInv, ZkType', RunType', LockInv', HeardInv',
         UNCHANGED <<loopVars, children, watchedNodes>>
  PROVE  WatchInv'
BY LoopsStay, WatchInvAfter

LEMMA ZkStays == ASSUME WatchInv, UNCHANGED <<zkVars, losses>> PROVE ZkType' /\ children' = children
BY DEF WatchInv, TypeOK, ZkType, zkVars

LEMMA SelectKeeps ==
  ASSUME WatchInv, runError \/ runWaited
  PROVE  WatchInv'
<1>1. UNCHANGED <<zkVars, closing, hookVars, loopVars, losses>>
  BY DEF runError, runWaited
<1>2. UNCHANGED <<hooksLock, call, ephemeralNodes, watchedNodes, loops>>
  BY <1>1 DEF hookVars, loopVars
<1>3. /\ run'.exiting = run.exiting /\ run'.nodes = run.nodes /\ run'.watches = run.watches
      /\ \/ run.at = "select" /\ run'.at = "lock"
         \/ run.at = "wait" /\ run'.at = "reconnect"
  BY DEF WatchInv, TypeOK, RunType, runError, runWaited, At
<1>4. RunType'
  <2>1. errs' \in BOOLEAN
    BY Zenon DEF WatchInv, TypeOK, RunType, runError, runWaited
  <2>2. \E p \in {"lock", "reconnect"} : run' = [run EXCEPT !.at = p]
    BY DEF runError, runWaited, At
  <2> QED BY <1>1, <1>2, <2>1, <2>2 DEF WatchInv, TypeOK, RunType
<1>5. Watched' = Watched
  BY <1>2 DEF Watched
<1>6. LockInv'
  BY <1>2, <1>3, <1>5 DEF WatchInv, LockInv
<1>7. HeardInv'
  BY <1>2, <1>3, <1>5 DEF WatchInv, HeardInv
<1> QED BY <1>1, <1>2, <1>4, <1>6, <1>7, ZkStays, RunKeeps

\* run takes hooksLock for the watches in ws, which are those of the map.
LEMMA LocksKeeps ==
  ASSUME WatchInv, cancelWatches \/ runHooks
  PROVE  WatchInv'
<1>1. UNCHANGED <<zkVars, errs, closing, call, ephemeralNodes, watchedNodes, loopVars, losses>>
  BY DEF cancelWatches, runHooks, lockForHooks
<1>2. hooksLock = "free" /\ hooksLock' = "run"
  BY DEF cancelWatches, runHooks, lockForHooks
<1>3. Watched' = Watched /\ Watched \subseteq Watches /\ loops' = loops
  BY <1>1 DEF Watched, loopVars
<1>4. /\ run'.exiting = run.exiting /\ run'.watches = Watched
      /\ \/ run.at = "lock" /\ run'.at = "cancel"
         \/ run.at = "hooksLock" /\ run'.at = "hooks"
  BY Zenon DEF WatchInv, TypeOK, RunType, cancelWatches, runHooks, lockForHooks
<1>5. RunType'
  <2>1. \E p \in {"cancel", "hooks"}, ns \in SUBSET Ephemerals :
          run' = [run EXCEPT !.at = p, !.nodes = ns, !.watches = Watched]
    <3>1. CASE cancelWatches
      <4>1. run' = [run EXCEPT !.at = "cancel", !.nodes = run.nodes, !.watches = Watched]
        BY <3>1, Zenon DEF cancelWatches, WatchInv, TypeOK, RunType
      <4> QED BY <4>1, Zenon DEF WatchInv, TypeOK, RunType
    <3>2. CASE runHooks
      BY <3>2, Zenon DEF runHooks, lockForHooks, Created
    <3> QED BY <3>1, <3>2, Zenon
  <2> QED BY <1>1, <1>2, <1>3, <2>1, Zenon DEF WatchInv, TypeOK, RunType
<1>6. LockInv'
  BY <1>1, <1>2, <1>3, <1>4 DEF WatchInv, LockInv
<1>7. HeardInv'
  BY <1>3, <1>4 DEF WatchInv, HeardInv
<1> QED BY <1>1, <1>5, <1>6, <1>7, ZkStays, RunKeeps

\* run gives hooksLock back: at the end of cancelWatches and of runHooks, or when a
\* hook has failed.
LEMMA UnlocksKeeps ==
  ASSUME WatchInv, ZkType', RunType', children' = children, hooksLock' = "free",
         run.at \in {"cancel", "hooks"}, run'.exiting = run.exiting,
         run'.at \in {"done", "wait", "select"},
         run'.at = "select" => run.at = "hooks" /\ run.watches = {},
         UNCHANGED <<call, watchedNodes, loopVars>>
  PROVE  WatchInv'
<1>1. Watched' = Watched /\ loops' = loops
  BY DEF Watched, loopVars
<1>2. LockInv'
  BY <1>1 DEF WatchInv, LockInv
<1>3. HeardInv'
  BY <1>1 DEF WatchInv, HeardInv
<1> QED BY <1>2, <1>3, RunKeeps

LEMMA UnlockKeeps ==
  ASSUME WatchInv, cancelWatchesDone \/ runHooksDone
  PROVE  WatchInv'
<1>1. UNCHANGED <<zkVars, errs, closing, call, ephemeralNodes, watchedNodes, loopVars, losses>>
  BY DEF cancelWatchesDone, runHooksDone
<1>2. hooksLock' = "free" /\ run.at \in {"cancel", "hooks"}
  BY DEF cancelWatchesDone, runHooksDone
<1>3. PICK p \in {"done", "wait", "select"} :
        /\ run' = [run EXCEPT !.at = p]
        /\ p = "select" => run.at = "hooks" /\ run.watches = {}
  BY DEF cancelWatchesDone, runHooksDone, At
<1>4. /\ run'.at = p /\ run'.exiting = run.exiting
      /\ run' \in [at : {"select", "lock", "cancel", "wait", "reconnect", "hooksLock", "hooks", "done"},
                   exiting : BOOLEAN, nodes : SUBSET Ephemerals, watches : SUBSET Watches]
  BY <1>3, Zenon DEF WatchInv, TypeOK, RunType
<1>5. RunType'
  BY <1>1, <1>2, <1>4 DEF WatchInv, TypeOK, RunType
<1> QED BY <1>1, <1>2, <1>3, <1>4, <1>5, ZkStays, UnlocksKeeps

LEMMA HookFailsKeeps ==
  ASSUME WatchInv, run.at = "hooks", hookFails, UNCHANGED <<zkVars, losses>>,
         UNCHANGED <<errs, closing, call, ephemeralNodes, watchedNodes, loopVars>>
  PROVE  WatchInv'
<1>1. run' = [run EXCEPT !.at = "wait", !.nodes = {}, !.watches = {}] /\ hooksLock' = "free"
  BY DEF hookFails
<1>2. /\ run'.at = "wait" /\ run'.exiting = run.exiting
      /\ run' \in [at : {"select", "lock", "cancel", "wait", "reconnect", "hooksLock", "hooks", "done"},
                   exiting : BOOLEAN, nodes : SUBSET Ephemerals, watches : SUBSET Watches]
  BY <1>1, Zenon DEF WatchInv, TypeOK, RunType
<1>3. RunType'
  BY <1>1, <1>2 DEF WatchInv, TypeOK, RunType
<1> QED BY <1>1, <1>2, <1>3, ZkStays, UnlocksKeeps

LEMMA HookCreateKeeps ==
  ASSUME WatchInv, NEW e \in Ephemerals, hookCreateEphemeral(e)
  PROVE  WatchInv'
<1>1. /\ UNCHANGED <<conn, children, notices, errs, closing, call, ephemeralNodes, watchedNodes, loopVars, losses>>
      /\ run.at = "hooks"
  BY DEF hookCreateEphemeral
<1>2. CASE hookFails /\ UNCHANGED tree
  BY <1>1, <1>2, HookFailsKeeps DEF zkVars
<1>3. CASE /\ tree' = [tree EXCEPT ![e] = "mine"] /\ hooksLock' = hooksLock
           /\ run' = [run EXCEPT !.nodes = @ \ {e}]
  <2>1. ZkType'
    BY <1>1, <1>3 DEF WatchInv, TypeOK, ZkType
  <2>2. RunType' /\ run'.at = run.at /\ run'.exiting = run.exiting /\ run'.watches = run.watches
    <3>1. run.nodes \ {e} \in SUBSET Ephemerals
      BY DEF WatchInv, TypeOK, RunType
    <3> QED BY <1>1, <1>3, <3>1, Zenon DEF WatchInv, TypeOK, RunType
  <2>3. Watched' = Watched /\ loops' = loops
    BY <1>1 DEF Watched, loopVars
  <2>4. LockInv'
    BY <1>1, <1>3, <2>2, <2>3 DEF WatchInv, LockInv
  <2>5. HeardInv'
    BY <2>2, <2>3 DEF WatchInv, HeardInv
  <2> QED BY <1>1, <2>1, <2>2, <2>4, <2>5, RunKeeps
<1> QED BY <1>2, <1>3 DEF hookCreateEphemeral

\* reconnect, and the shutdown of run: nobody waits for a goroutine after them.
LEMMA CloseConnKeeps ==
  ASSUME WatchInv, reconnect \/ shutdown
  PROVE  WatchInv'
<1>1. UNCHANGED <<children, notices, errs, hookVars, updatesClosed, got, doubled, panicked>>
  BY DEF reconnect, shutdown
<1>2. UNCHANGED <<hooksLock, call, ephemeralNodes, watchedNodes>>
  BY <1>1 DEF hookVars
<1>3. /\ run.at \in {"reconnect", "select", "wait"}
      /\ \/ run' = [run EXCEPT !.at = "lock", !.exiting = TRUE]
         \/ run' = [run EXCEPT !.at = "wait"]
         \/ run' = [run EXCEPT !.at = "hooksLock"]
  BY DEF reconnect, shutdown, At
<1>4. RunType'
  <2>1. closing' \in {"no", "send", "done"}
    BY DEF WatchInv, TypeOK, RunType, reconnect, shutdown
  <2>2. run' \in [at : {"select", "lock", "cancel", "wait", "reconnect", "hooksLock", "hooks", "done"},
                  exiting : BOOLEAN, nodes : SUBSET Ephemerals, watches : SUBSET Watches]
    BY <1>3, Zenon DEF WatchInv, TypeOK, RunType
  <2> QED BY <1>1, <1>2, <2>1, <2>2 DEF WatchInv, TypeOK, RunType
<1>5. run'.at \in {"wait", "hooksLock"} \/ (run'.at = "lock" /\ run'.exiting)
  BY <1>3, Zenon DEF WatchInv, TypeOK, RunType
<1>6. HeardInv'
  BY <1>5 DEF HeardInv
<1>7. LockInv'
  BY <1>2, <1>3, <1>5 DEF WatchInv, LockInv
<1>8. ZkType'
  <2>1. tree' \in [Ephemerals -> {"none", "mine", "old"}]
    BY DEF WatchInv, TypeOK, ZkType, reconnect, shutdown, CloseConn
  <2>2. conn' \in {"up", "connecting", "dead", "late"}
    BY DEF WatchInv, TypeOK, ZkType, reconnect, shutdown
  <2>3. losses' \in 0..MaxLosses /\ notices' \in 0..losses'
    BY <1>1, ZkAssumption DEF WatchInv, TypeOK, ZkType, reconnect, shutdown
  <2> QED BY <1>1, <2>1, <2>2, <2>3 DEF WatchInv, TypeOK, ZkType
<1>9. BadEvent \/ loops' = loops
  BY DEF reconnect, shutdown, CloseConn
<1>10. LoopType' /\ OnceInv'
  BY <1>1, <1>2, <1>8, <1>9, ChildrenGrow, EventKeeps
<1> QED BY <1>4, <1>6, <1>7, <1>8, <1>10, WatchInvAfter

-----------------------------------------------------------------------------
(* The goroutines of a watch. *)

\* After a step of the goroutines of w, in the order of zookeeper.
LEMMA OrderlyAfter ==
  ASSUME NEW w \in Watches, NEW c, loops'[w] = c, Single(c),
         w \in updatesClosed' => Running(c) = {}, got'[w] <= children'[w],
         \A l \in Running(c) : l.at = "send" => got'[w] <= l.children /\ l.children <= children'[w]
  PROVE  Orderly(w)'
BY DEF Orderly

\* What is known of the goroutines of w before a step.
LEMMA LoopFacts ==
  ASSUME WatchInv, NEW w \in Watches
  PROVE  /\ loops[w] \in [LoopState -> Nat] /\ DOMAIN loops = Watches
         /\ \A l \in Running(loops[w]) : l \in LoopState /\ l.children \in 0..MaxChanges
         /\ children[w] \in 0..MaxChanges /\ got[w] \in 0..MaxChanges
         /\ updatesClosed \subseteq Watches
         /\ ~doubled => ~panicked /\ Orderly(w)
         /\ w \in updatesClosed => watchedNodes[w] = "removed"
<1>1. \A l \in LoopState : l.children \in 0..MaxChanges
  BY ZkAssumption DEF LoopState
<1>2. \A l \in Running(loops[w]) : l \in LoopState
  BY DEF Running
<1>3. ~doubled => ~panicked /\ Orderly(w)
  BY DEF WatchInv, OnceInv
<1>4. w \in updatesClosed => watchedNodes[w] = "removed"
  BY DEF WatchInv, OnceInv
<1> QED BY <1>1, <1>2, <1>3, <1>4 DEF WatchInv, TypeOK, ZkType, LoopType

\* What a watch with one goroutine is known to satisfy.
LEMMA OnceFacts ==
  ASSUME WatchInv, NEW w \in Watches, ~doubled
  PROVE  /\ ~panicked /\ Orderly(w) /\ children[w] \in Nat /\ got[w] <= children[w]
         /\ children[w] <= children[w]
         /\ \A l \in Running(loops[w]) : l.children \in Nat /\ (l.at = "send" => got[w] <= l.children)
<1>1. ~panicked /\ Orderly(w)
  BY LoopFacts, Zenon
<1>2. children[w] \in Nat /\ \A l \in Running(loops[w]) : l.children \in Nat
  BY LoopFacts
<1> QED BY <1>1, <1>2 DEF Orderly

\* LoopType after a step that changes the goroutines of one watch.
LEMMA LoopTypeAt ==
  ASSUME WatchInv, NEW w \in Watches, NEW c, c \in [LoopState -> Nat], loops' = [loops EXCEPT ![w] = c],
         updatesClosed' \subseteq Watches, got' \in [Watches -> 0..MaxChanges],
         doubled' \in BOOLEAN, panicked' \in BOOLEAN
  PROVE  LoopType' /\ loops'[w] = c /\ \A v \in Watches \ {w} : loops'[v] = loops[v]
BY Zenon DEF WatchInv, TypeOK, LoopType

\* The goroutine ends, without children to offer left behind.
LEMMA RemovalOrderly ==
  ASSUME WatchInv, NEW w \in Watches, NEW l \in Running(loops[w]), ~doubled,
         NEW c, c = end(loops[w], l), loops'[w] = c, UNCHANGED <<got, children>>
  PROVE  Orderly(w)'
<1>1. Orderly(w) /\ loops[w] \in [LoopState -> Nat]
  BY LoopFacts
<1>2. Running(c) = {}
  BY <1>1, RemoveOne DEF Orderly
<1> QED BY <1>1, <1>2 DEF Orderly, Single

LEMMA CancelWatchKeeps ==
  ASSUME WatchInv, NEW w \in Watches, cancelWatch(w)
  PROVE  WatchInv'
<1>1. /\ run.at = "cancel" /\ w \in run.watches /\ run' = [run EXCEPT !.watches = @ \ {w}]
      /\ UNCHANGED <<zkVars, errs, closing, hookVars, updatesClosed, got, doubled, panicked, losses>>
  BY DEF cancelWatch
<1>2. PICK l \in Running(loops[w]) : loops' = [loops EXCEPT ![w] = end(loops[w], l)]
  BY Zenon DEF cancelWatch
<1> DEFINE c == end(loops[w], l)
<1>3. c \in [LoopState -> Nat]
  BY RemoveOne, LoopFacts
<1>4. UNCHANGED <<hooksLock, call, ephemeralNodes, watchedNodes>> /\ ZkType' /\ children' = children
  BY <1>1, ZkStays DEF hookVars
<1> HIDE DEF c
<1>5. LoopType' /\ loops'[w] = c /\ \A v \in Watches \ {w} : loops'[v] = loops[v]
  <2>1. got \in [Watches -> 0..MaxChanges] /\ updatesClosed \subseteq Watches
        /\ doubled \in BOOLEAN /\ panicked \in BOOLEAN
    BY Zenon DEF WatchInv, TypeOK, LoopType
  <2> QED BY <1>1, <1>2, <1>3, <2>1, LoopTypeAt, Zenon DEF c
<1>6. OnceInv'
  <2>1. ~doubled' => ~doubled /\ ~panicked' /\ Orderly(w)'
    BY <1>1, <1>4, <1>5, RemovalOrderly, LoopFacts DEF c
  <2>2. loops' = [loops EXCEPT ![w] = c] /\ (w \in updatesClosed' => watchedNodes'[w] = "removed")
    BY <1>1, <1>2, <1>4, LoopFacts DEF c
  <2> QED BY <1>1, <1>4, <2>1, <2>2, LoopFacts, OnceAt, Zenon DEF WatchInv, TypeOK
<1>7. RunType' /\ run'.at = "cancel" /\ run'.exiting = run.exiting /\ run'.watches = run.watches \ {w}
  <2>1. run.watches \ {w} \in SUBSET Watches
    BY DEF WatchInv, TypeOK, RunType
  <2> QED BY <1>1, <1>4, <2>1, Zenon DEF WatchInv, TypeOK, RunType
<1>8. Watched' = Watched
  BY <1>4 DEF Watched
<1>9. LockInv'
  BY <1>1, <1>4, <1>7, <1>8 DEF WatchInv, LockInv
<1>10. HeardInv'
  <2>1. ~run.exiting => \A v \in run.watches : Running(loops[v]) # {}
    BY <1>1 DEF WatchInv, HeardInv
  <2>2. run.watches \subseteq Watches
    BY DEF WatchInv, TypeOK, RunType
  <2> QED BY <1>5, <1>7, <2>1, <2>2 DEF HeardInv
<1> QED BY <1>4, <1>5, <1>6, <1>7, <1>9, <1>10, WatchInvAfter

\* A goroutine of watch w makes a step of its own.
OwnStep(w, c) ==
  /\ loops' = [loops EXCEPT ![w] = c]
  /\ UNCHANGED <<zkVars, run, closing, hookVars, doubled, losses>>
  /\ updatesClosed' \subseteq updatesClosed \cup {w}
  /\ \A v \in Watches \ {w} : got'[v] = got[v]

LEMMA OwnStepKeeps ==
  ASSUME WatchInv, NEW w \in Watches, NEW c, c \in [LoopState -> Nat], OwnStep(w, c),
         errs' \in BOOLEAN, panicked' \in BOOLEAN, got' \in [Watches -> 0..MaxChanges],
         w \in updatesClosed' => watchedNodes[w] = "removed",
         Running(c) # {} \/ watchedNodes[w] = "removed",
         ~doubled => ~panicked' /\ Orderly(w)'
  PROVE  WatchInv'
<1>1. UNCHANGED <<zkVars, run, closing, hookVars, doubled, losses>> /\ loops' = [loops EXCEPT ![w] = c]
  BY DEF OwnStep
<1>2. UNCHANGED <<hooksLock, call, ephemeralNodes, watchedNodes>> /\ ZkType' /\ children' = children
  BY <1>1, ZkStays DEF hookVars
<1>3. updatesClosed' \subseteq Watches /\ doubled' \in BOOLEAN
  BY Zenon DEF OwnStep, WatchInv, TypeOK, LoopType
<1>4. LoopType' /\ loops'[w] = c /\ \A v \in Watches \ {w} : loops'[v] = loops[v]
  BY <1>1, <1>3, LoopTypeAt, Zenon
<1>5. OnceInv'
  <2>1. ~doubled' => ~doubled /\ ~panicked' /\ Orderly(w)'
    BY <1>1
  <2>2. \A v \in Watches \ {w} : got'[v] = got[v] /\ watchedNodes'[v] = watchedNodes[v]
    BY <1>2 DEF OwnStep
  <2>3. updatesClosed' \subseteq updatesClosed \cup {w} /\ (w \in updatesClosed' => watchedNodes'[w] = "removed")
    BY <1>2 DEF OwnStep
  <2>4. OnceInv /\ LoopType
    BY DEF WatchInv, TypeOK
  <2> QED BY <1>1, <1>2, <1>3, <2>1, <2>2, <2>3, <2>4, OnceAt, Zenon
<1>6. RunType'
  BY <1>1, <1>2 DEF WatchInv, TypeOK, RunType
<1>7. LockInv'
  BY <1>1, <1>2, LockStays DEF WatchInv
<1>8. HeardInv'
  <2>1. Watched' = Watched /\ (Running(c) = {} => w \notin Watched) /\ Watched \subseteq Watches
    BY <1>2 DEF Watched
  <2>2. run.at \in {"cancel", "hooks"} => run.watches \subseteq Watched
    BY DEF WatchInv, LockInv
  <2>3. \A v \in Watched : Running(loops[v]) # {} => Running(loops'[v]) # {}
    BY <1>4, <2>1
  <2> QED BY <1>1, <2>1, <2>2, <2>3 DEF WatchInv, HeardInv
<1> QED BY <1>2, <1>4, <1>5, <1>6, <1>7, <1>8, WatchInvAfter

LEMMA WatchRemovedKeeps ==
  ASSUME WatchInv, NEW w \in Watches, watchRemoved(w)
  PROVE  WatchInv'
<1>1. /\ watchedNodes[w] = "removed"
      /\ UNCHANGED <<zkVars, errs, run, closing, hookVars, got, doubled, losses>>
  BY DEF watchRemoved
<1>2. PICK l \in Running(loops[w]) :
        /\ loops' = [loops EXCEPT ![w] = end(loops[w], l)]
        /\ \/ UNCHANGED <<updatesClosed, panicked>>
           \/ updatesClosed' = updatesClosed \cup {w} /\ panicked' = (w \in updatesClosed)
  BY Zenon DEF watchRemoved
<1> DEFINE c == end(loops[w], l)
<1>3. c \in [LoopState -> Nat]
  BY RemoveOne, LoopFacts
<1>4. OwnStep(w, c)
  BY <1>1, <1>2 DEF OwnStep
<1>5. loops'[w] = c /\ children' = children
  BY <1>1, <1>2, LoopFacts DEF zkVars
<1> HIDE DEF c
<1>6. ASSUME ~doubled PROVE ~panicked' /\ Orderly(w)'
  <2>1. Orderly(w)'
    BY <1>1, <1>5, <1>6, RemovalOrderly DEF c
  <2>2. ~panicked /\ Orderly(w)
    BY <1>6, LoopFacts
  <2>3. w \notin updatesClosed
    BY <2>2 DEF Orderly
  <2>4. CASE UNCHANGED <<updatesClosed, panicked>>
    BY <2>1, <2>2, <2>4
  <2>5. CASE panicked' = (w \in updatesClosed)
    BY <2>1, <2>3, <2>5, Zenon
  <2> QED BY <1>2, <2>4, <2>5
<1>7. errs' \in BOOLEAN /\ got' \in [Watches -> 0..MaxChanges]
  BY <1>1, Zenon DEF WatchInv, TypeOK, RunType, LoopType
<1>8. panicked' \in BOOLEAN
  <2>1. CASE UNCHANGED <<updatesClosed, panicked>>
    BY <2>1, Zenon DEF WatchInv, TypeOK, LoopType
  <2>2. CASE panicked' = (w \in updatesClosed)
    BY <2>2
  <2> QED BY <1>2, <2>1, <2>2
<1> QED BY <1>1, <1>3, <1>4, <1>6, <1>7, <1>8, OwnStepKeeps

\* A goroutine of watch w goes on as m, which offers nothing that is out of order.
LEMMA ReplacedKeeps ==
  ASSUME WatchInv, NEW w \in Watches, NEW l \in Running(loops[w]), NEW m \in LoopState,
         loops' = [loops EXCEPT ![w] = replace(loops[w], l, m)],
         UNCHANGED <<zkVars, run, closing, hookVars, updatesClosed, doubled, panicked, losses>>,
         errs' \in BOOLEAN, got' \in [Watches -> 0..MaxChanges],
         \A v \in Watches \ {w} : got'[v] = got[v],
         ~doubled => got'[w] <= children[w],
         m.at = "send" => m.children = children[w]
  PROVE  WatchInv'
<1> DEFINE c == replace(loops[w], l, m)
<1>1. c \in [LoopState -> Nat] /\ Running(c) # {} /\ (Single(loops[w]) => Single(c) /\ Running(c) = {m})
  BY ReplaceOne, LoopFacts
<1>2. OwnStep(w, c)
  BY DEF OwnStep
<1>3. loops'[w] = c /\ children' = children
  BY LoopFacts DEF zkVars
<1> HIDE DEF c
<1>4. ASSUME ~doubled PROVE ~panicked' /\ Orderly(w)'
  <2>1. ~panicked /\ Orderly(w) /\ children[w] \in Nat
    BY <1>4, OnceFacts
  <2>2. w \notin updatesClosed /\ Single(loops[w])
    BY <2>1 DEF Orderly
  <2>3. \A k \in Running(c) : k.at = "send" => got'[w] <= k.children /\ k.children <= children'[w]
    BY <1>1, <1>3, <1>4, <2>1, <2>2
  <2>4. Orderly(w)'
    BY <1>1, <1>3, <1>4, <2>2, <2>3 DEF Orderly
  <2> QED BY <2>1, <2>4
<1>5. panicked' \in BOOLEAN
  BY Zenon DEF WatchInv, TypeOK, LoopType
<1>6. w \in updatesClosed' => watchedNodes[w] = "removed"
  BY LoopFacts
<1> QED BY <1>1, <1>2, <1>4, <1>5, <1>6, OwnStepKeeps

LEMMA SendKeeps ==
  ASSUME WatchInv, NEW w \in Watches, sendUpdate(w)
  PROVE  WatchInv'
<1>1. UNCHANGED <<zkVars, errs, run, closing, hookVars, updatesClosed, doubled, losses>>
  BY DEF sendUpdate
<1>2. PICK l \in Running(loops[w]) :
        /\ l.at = "send"
        /\ IF w \in updatesClosed THEN panicked' = TRUE /\ UNCHANGED <<loops, got>>
           ELSE /\ loops' = [loops EXCEPT ![w] = replace(loops[w], l, Loop("wait", 0, l.ev))]
                /\ got' = [got EXCEPT ![w] = l.children] /\ UNCHANGED panicked
  BY DEF sendUpdate
<1>3. errs' \in BOOLEAN /\ l \in LoopState /\ l.children \in 0..MaxChanges
  BY <1>1, LoopFacts, Zenon DEF WatchInv, TypeOK, RunType
<1>4. CASE w \in updatesClosed
  <2>1. loops' = loops /\ got' = got /\ panicked' = TRUE
    BY <1>2, <1>4
  <2>2. Running(loops[w]) # {}
    BY LoopFacts
  <2>3. doubled
    BY <1>4, <2>2, LoopFacts DEF Orderly
  <2>4. LoopType'
    BY <1>1, <2>1 DEF WatchInv, TypeOK, LoopType
  <2>5. UNCHANGED <<hooksLock, call, ephemeralNodes, watchedNodes>>
    BY <1>1 DEF hookVars
  <2>6. OnceInv'
    BY <1>1, <2>3, <2>5 DEF WatchInv, OnceInv
  <2>7. RunType'
    BY <1>1, <2>5 DEF WatchInv, TypeOK, RunType
  <2>8. LockInv' /\ HeardInv'
    BY <1>1, <2>1, <2>5, LockStays, HeardStays DEF WatchInv, TypeOK
  <2> QED BY <1>1, <2>4, <2>6, <2>7, <2>8, ZkStays, WatchInvAfter
<1>5. CASE w \notin updatesClosed
  <2>1. Loop("wait", 0, l.ev) \in LoopState /\ Loop("wait", 0, l.ev).at = "wait"
    <3>1. l.ev \in {"armed", "fired", "bad"}
      BY <1>2, <1>3 DEF LoopState
    <3> QED BY <3>1 DEF Loop, LoopState
  <2>2. got' \in [Watches -> 0..MaxChanges] /\ got'[w] = l.children
        /\ \A v \in Watches \ {w} : got'[v] = got[v]
    BY <1>2, <1>3, <1>5 DEF WatchInv, TypeOK, LoopType
  <2>3. ~doubled => got'[w] <= children[w]
    BY <1>2, <2>2, LoopFacts DEF Orderly
  <2>4. UNCHANGED panicked /\ loops' = [loops EXCEPT ![w] = replace(loops[w], l, Loop("wait", 0, l.ev))]
    BY <1>2, <1>5
  <2>5. "wait" # "send"
    OBVIOUS
  <2> HIDE DEF Loop
  <2> QED BY <1>1, <1>3, <2>1, <2>2, <2>3, <2>4, <2>5, ReplacedKeeps, Zenon
<1> QED BY <1>4, <1>5

LEMMA EventOrReadKeeps ==
  ASSUME WatchInv, NEW w \in Watches, watchEvent(w) \/ watchRead(w)
  PROVE  WatchInv'
<1>1. UNCHANGED <<zkVars, run, closing, hookVars, updatesClosed, got, doubled, panicked, losses>>
  BY DEF watchEvent, watchRead
<1>2. \A p \in {"read", "bad", "err"} : Idle(p) \in LoopState /\ Idle(p).at = p
  BY ZkAssumption DEF Idle, Loop, LoopState
<1>3. Fresh(w) \in LoopState /\ Fresh(w).children = children[w]
  BY LoopFacts DEF Fresh, Loop, LoopState
<1>4. \E l \in Running(loops[w]), m \in {Idle("read"), Idle("bad"), Idle("err"), Fresh(w)} :
        loops' = [loops EXCEPT ![w] = replace(loops[w], l, m)]
  <2>1. CASE watchEvent(w)
    BY <2>1, Zenon DEF watchEvent
  <2>2. CASE watchRead(w)
    BY <2>2, Zenon DEF watchRead
  <2> QED BY <2>1, <2>2
<1>5. PICK l \in Running(loops[w]), m \in {Idle("read"), Idle("bad"), Idle("err"), Fresh(w)} :
        loops' = [loops EXCEPT ![w] = replace(loops[w], l, m)]
  BY <1>4, Zenon
<1>6. m \in LoopState /\ (m.at = "send" => m.children = children[w])
  BY <1>2, <1>3, <1>5
<1>7. errs' \in BOOLEAN
  BY Zenon DEF watchEvent, watchRead
<1>8. got' \in [Watches -> 0..MaxChanges] /\ (~doubled => got'[w] <= children[w])
  BY <1>1, LoopFacts DEF Orderly, WatchInv, TypeOK, LoopType
<1> QED BY <1>1, <1>5, <1>6, <1>7, <1>8, ReplacedKeeps, Zenon

\* runHooks sets a watch again.
LEMMA HookWatchKeeps ==
  ASSUME WatchInv, NEW w \in Watches, hookWatchChildren(w)
  PROVE  WatchInv'
<1>1. /\ UNCHANGED <<zkVars, errs, closing, call, ephemeralNodes, watchedNodes, updatesClosed, got, panicked, losses>>
      /\ run.at = "hooks" /\ w \in run.watches
  BY DEF hookWatchChildren, hookWatch
<1>2. CASE hookFails /\ UNCHANGED <<loops, doubled>>
  BY <1>1, <1>2, HookFailsKeeps DEF loopVars
<1>3. CASE /\ loops' = [loops EXCEPT ![w] = begin(loops[w], Fresh(w))]
           /\ doubled' = (doubled \/ Running(loops[w]) # {})
           /\ run' = [run EXCEPT !.watches = @ \ {w}] /\ UNCHANGED hooksLock
  <2> DEFINE c == begin(loops[w], Fresh(w))
  <2>1. ZkType' /\ children' = children
    BY <1>1, ZkStays
  <2>2. Fresh(w) \in LoopState /\ Fresh(w).children = children[w]
    BY LoopFacts DEF Fresh, Loop, LoopState
  <2>3. /\ c \in [LoopState -> Nat] /\ Running(c) = Running(loops[w]) \cup {Fresh(w)} /\ Running(c) # {}
        /\ Running(loops[w]) = {} => Single(c)
    <3>1. loops[w] \in [LoopState -> Nat]
      BY LoopFacts
    <3>2. /\ c \in [LoopState -> Nat] /\ Running(c) = Running(loops[w]) \cup {Fresh(w)}
          /\ Running(loops[w]) = {} => Single(c)
      BY <2>2, <3>1, AddOne
    <3> QED BY <3>2, Zenon
  <2> HIDE DEF c
  <2>4. watchedNodes[w] = "yes" /\ w \notin updatesClosed
    BY <1>1, LoopFacts DEF WatchInv, LockInv, Watched
  <2>5. doubled' \in BOOLEAN /\ (~doubled' => ~doubled /\ Running(loops[w]) = {})
    BY <1>3, Zenon
  <2>6. LoopType' /\ loops'[w] = c /\ \A v \in Watches \ {w} : loops'[v] = loops[v]
    <3>1. got \in [Watches -> 0..MaxChanges] /\ updatesClosed \subseteq Watches /\ panicked \in BOOLEAN
      BY Zenon DEF WatchInv, TypeOK, LoopType
    <3> QED BY <1>1, <1>3, <2>3, <2>5, <3>1, LoopTypeAt, Zenon DEF c
  <2>7. ASSUME ~doubled' PROVE ~doubled /\ ~panicked' /\ Orderly(w)'
    <3>1. ~doubled /\ Running(loops[w]) = {}
      BY <2>5, <2>7
    <3>2. ~panicked /\ got[w] <= children[w] /\ children[w] \in Nat
      BY <3>1, OnceFacts
    <3>3. Running(c) = {Fresh(w)} /\ Single(c)
      BY <2>3, <3>1
    <3>4. \A l \in Running(c) : got'[w] <= l.children /\ l.children <= children'[w]
      BY <1>1, <2>1, <2>2, <3>2, <3>3
    <3>5. Orderly(w)'
      BY <1>1, <2>1, <2>4, <2>6, <3>2, <3>3, <3>4 DEF Orderly
    <3> QED BY <1>1, <3>1, <3>2, <3>5
  <2>8. OnceInv'
    <3>1. loops' = [loops EXCEPT ![w] = c] /\ updatesClosed' \subseteq updatesClosed \cup {w}
          /\ updatesClosed' \subseteq Watches /\ w \notin updatesClosed'
      BY <1>1, <1>3, <2>4, LoopFacts DEF c
    <3>2. OnceInv /\ LoopType
      BY DEF WatchInv, TypeOK
    <3>3. \A v \in Watches \ {w} : got'[v] = got[v] /\ watchedNodes'[v] = watchedNodes[v]
      BY <1>1
    <3> QED BY <2>1, <2>7, <3>1, <3>2, <3>3, OnceAt, Zenon
  <2>9. RunType' /\ run'.at = run.at /\ run'.exiting = run.exiting /\ run'.watches = run.watches \ {w}
    <3>1. run.watches \ {w} \in SUBSET Watches
      BY DEF WatchInv, TypeOK, RunType
    <3> QED BY <1>1, <1>3, <3>1, Zenon DEF WatchInv, TypeOK, RunType
  <2>10. Watched' = Watched /\ Watched \subseteq Watches
    BY <1>1 DEF Watched
  <2>11. LockInv'
    BY <1>1, <1>3, <2>9, <2>10 DEF WatchInv, LockInv
  <2>12. HeardInv'
    <3>1. ~run.exiting => \A v \in Watched \ run.watches : Running(loops[v]) # {}
      BY <1>1 DEF WatchInv, HeardInv
    <3>2. ~run.exiting => \A v \in Watched \ run'.watches : Running(loops'[v]) # {}
      BY <2>3, <2>6, <2>9, <2>10, <3>1
    <3> QED BY <1>1, <2>9, <2>10, <3>2 DEF HeardInv
  <2> QED BY <2>1, <2>6, <2>8, <2>9, <2>11, <2>12, WatchInvAfter
<1> QED BY <1>2, <1>3 DEF hookWatchChildren, hookWatch

-----------------------------------------------------------------------------
(* The callers. *)

LEMMA CallNames == \A c \in Calls : c # <<>>
BY DEF Calls

\* A caller does not come in while run has hooksLock.
LEMMA EnterFacts ==
  ASSUME WatchInv, NEW c \in Calls, Enter(c)
  PROVE  /\ run.at \notin {"cancel", "hooks"} /\ hooksLock' = "free" /\ call' = <<>>
         /\ losses' \in 0..MaxLosses /\ losses' >= losses
<1>1. hooksLock # "run" /\ hooksLock' = "free" /\ call' = <<>>
  BY CallNames DEF WatchInv, LockInv, Enter
<1>2. losses \in 0..MaxLosses /\ MaxLosses \in Nat
  BY ZkAssumption DEF WatchInv, TypeOK, ZkType
<1>3. losses' = losses \/ (losses' = losses + 1 /\ Again(c) /\ Meant(c))
  BY DEF Enter
<1>4. Again(c) /\ Meant(c) => losses < MaxLosses
  BY DEF Again, Meant
<1> QED BY <1>1, <1>2, <1>3, <1>4 DEF WatchInv, LockInv

\* A call that leaves the watches alone.
LEMMA CallerKeeps ==
  ASSUME WatchInv, run.at \notin {"cancel", "hooks"}, hooksLock' = "free", call' = <<>>,
         losses' \in 0..MaxLosses, losses' >= losses,
         tree' \in [Ephemerals -> {"none", "mine", "old"}], errs' \in BOOLEAN,
         ephemeralNodes' \in [Ephemerals -> {"no", "yes", "removed"}],
         UNCHANGED <<conn, children, notices, run, closing, watchedNodes, loopVars>>
  PROVE  WatchInv'
<1>1. ZkType'
  BY ZkAssumption DEF WatchInv, TypeOK, ZkType
<1>2. RunType'
  BY DEF WatchInv, TypeOK, RunType
<1>3. LockInv'
  BY DEF WatchInv, LockInv
<1>4. HeardInv'
  BY HeardStays DEF WatchInv, TypeOK, loopVars
<1> QED BY <1>1, <1>2, <1>3, <1>4, LoopsStay, WatchInvAfter

LEMMA EphemeralKeeps ==
  ASSUME WatchInv, NEW e \in Ephemerals, createEphemeral(e) \/ removeEphemeral(e)
  PROVE  WatchInv'
<1>1. UNCHANGED <<conn, children, notices, run, closing, watchedNodes, loopVars>>
  BY DEF createEphemeral, removeEphemeral
<1>2. \E c \in Calls : Enter(c)
  BY DEF createEphemeral, removeEphemeral, Calls
<1>3. tree' \in [Ephemerals -> {"none", "mine", "old"}]
      /\ ephemeralNodes' \in [Ephemerals -> {"no", "yes", "removed"}]
  BY Zenon DEF createEphemeral, removeEphemeral, WatchInv, TypeOK, ZkType, RunType
<1>4. errs' \in BOOLEAN
  BY Zenon DEF createEphemeral, removeEphemeral, WatchInv, TypeOK, RunType
<1> QED BY <1>1, <1>2, <1>3, <1>4, EnterFacts, CallerKeeps

LEMMA LockHooksKeeps ==
  ASSUME WatchInv, NEW c \in Calls, lockHooks(c)
  PROVE  WatchInv'
<1>1. UNCHANGED <<zkVars, errs, run, closing, ephemeralNodes, watchedNodes, loopVars>>
  BY DEF lockHooks
<1>2. hooksLock = "free" /\ hooksLock' = "call" /\ call' = c /\ c # <<>>
  BY CallNames DEF lockHooks
<1>3. losses' \in 0..MaxLosses /\ losses' >= losses
  <2>1. losses \in 0..MaxLosses /\ MaxLosses \in Nat
    BY ZkAssumption DEF WatchInv, TypeOK, ZkType
  <2>2. losses' = losses \/ (losses' = losses + 1 /\ Again(c) /\ Meant(c))
    BY DEF lockHooks
  <2>3. Again(c) /\ Meant(c) => losses < MaxLosses
    BY DEF Again, Meant
  <2> QED BY <2>1, <2>2, <2>3
<1>4. ZkType' /\ children' = children
  BY <1>1, <1>3, ZkAssumption DEF WatchInv, TypeOK, ZkType, zkVars
<1>5. RunType'
  BY <1>1, <1>2 DEF WatchInv, TypeOK, RunType
<1>6. Watched' = Watched
  BY <1>1 DEF Watched
<1>7. \A w \in Watches : c = <<"watchChildren", w>> => watchedNodes[w] = "no"
  BY DEF lockHooks, Meant
<1>8. LockInv'
  BY <1>1, <1>2, <1>6, <1>7 DEF WatchInv, LockInv
<1>9. HeardInv'
  BY <1>1, HeardStays DEF WatchInv, TypeOK, loopVars
<1> QED BY <1>1, <1>4, <1>5, <1>8, <1>9, RunKeeps

LEMMA RemoveWatchKeeps ==
  ASSUME WatchInv, NEW w \in Watches, removeWatch(w)
  PROVE  WatchInv'
<1>1. UNCHANGED <<zkVars, errs, run, closing, ephemeralNodes, loopVars>>
      /\ watchedNodes' = [watchedNodes EXCEPT ![w] = "removed"]
  BY DEF removeWatch
<1>2. \E c \in Calls : Enter(c)
  BY DEF removeWatch, Calls
<1>3. /\ run.at \notin {"cancel", "hooks"} /\ hooksLock' = "free" /\ call' = <<>>
      /\ losses' \in 0..MaxLosses /\ losses' >= losses
  BY <1>2, EnterFacts
<1>4. ZkType' /\ UNCHANGED <<children, loops, updatesClosed, got, doubled, panicked>>
  BY <1>1, <1>3, ZkAssumption DEF WatchInv, TypeOK, ZkType, zkVars, loopVars
<1>5. RunType'
  BY <1>1, <1>3 DEF WatchInv, TypeOK, RunType
<1>6. LoopType'
  BY <1>4 DEF WatchInv, TypeOK, LoopType
<1>7. LockInv'
  BY <1>1, <1>3 DEF WatchInv, LockInv
<1>8. Watched' \subseteq Watched
  BY <1>1 DEF Watched, WatchInv, TypeOK, RunType
<1>9. HeardInv'
  BY <1>1, <1>3, <1>4, <1>8 DEF WatchInv, HeardInv
<1>10. OnceInv'
  <2>1. \A v \in updatesClosed' : watchedNodes'[v] = "removed"
    BY <1>1, <1>4 DEF WatchInv, TypeOK, RunType, LoopType, OnceInv
  <2>2. ~doubled' => ~panicked' /\ \A v \in Watches : Orderly(v)'
    BY <1>4 DEF WatchInv, OnceInv, Orderly
  <2> QED BY <2>1, <2>2 DEF OnceInv
<1> QED BY <1>4, <1>5, <1>6, <1>7, <1>9, <1>10, WatchInvAfter

LEMMA WatchChildrenKeeps ==
  ASSUME WatchInv, NEW w \in Watches, watchChildren(w)
  PROVE  WatchInv'
<1>1. UNCHANGED <<zkVars, run, closing, ephemeralNodes, updatesClosed, got, doubled, panicked>>
      /\ watchedNodes' = [watchedNodes EXCEPT ![w] = "yes"]
  BY DEF watchChildren
<1>2. <<"watchChildren", w>> \in Calls /\ Enter(<<"watchChildren", w>>)
  BY DEF watchChildren, Calls
<1>3. /\ run.at \notin {"cancel", "hooks"} /\ hooksLock' = "free" /\ call' = <<>>
      /\ losses' \in 0..MaxLosses /\ losses' >= losses
  BY <1>2, EnterFacts
<1>4. watchedNodes[w] = "no"
  BY <1>2 DEF Enter, Meant, WatchInv, LockInv
<1>5. w \notin updatesClosed
  BY <1>4, LoopFacts
<1>6. ZkType' /\ children' = children
  BY <1>1, <1>3, ZkAssumption DEF WatchInv, TypeOK, ZkType, zkVars
<1>7. RunType'
  <2>1. errs' \in BOOLEAN
    BY Zenon DEF watchChildren
  <2> QED BY <1>1, <1>3, <2>1 DEF WatchInv, TypeOK, RunType
<1>8. PICK l \in {Fresh(w), Idle("none")} : loops' = [loops EXCEPT ![w] = begin(NoLoops, l)]
  BY DEF watchChildren
<1>9. l \in LoopState /\ (l.at = "send" => l.children = children[w])
  <2>1. children[w] \in 0..MaxChanges
    BY LoopFacts
  <2>2. CASE l = Fresh(w)
    BY <2>1, <2>2 DEF Fresh, Loop, LoopState
  <2>3. CASE l = Idle("none")
    BY <2>3 DEF Idle, Loop, LoopState
  <2> QED BY <1>8, <2>2, <2>3
<1> DEFINE c == begin(NoLoops, l)
<1>10. c \in [LoopState -> Nat] /\ Running(c) = {l} /\ Single(c) /\ Running(c) # {}
  <2>1. NoLoops \in [LoopState -> Nat] /\ Running(NoLoops) = {}
    BY DEF NoLoops, Running
  <2>2. /\ c \in [LoopState -> Nat] /\ Running(c) = Running(NoLoops) \cup {l}
        /\ Running(NoLoops) = {} => Single(c)
    BY <1>9, <2>1, AddOne
  <2> QED BY <2>1, <2>2, Zenon
<1> HIDE DEF c
<1>11. LoopType' /\ loops'[w] = c /\ \A v \in Watches \ {w} : loops'[v] = loops[v]
  <2>1. got \in [Watches -> 0..MaxChanges] /\ updatesClosed \subseteq Watches
        /\ panicked \in BOOLEAN /\ doubled \in BOOLEAN
    BY Zenon DEF WatchInv, TypeOK, LoopType
  <2> QED BY <1>1, <1>8, <1>10, <2>1, LoopTypeAt, Zenon DEF c
<1>12. ASSUME ~doubled' PROVE ~doubled /\ ~panicked' /\ Orderly(w)'
  <2>1. ~doubled /\ got' = got
    BY <1>1, <1>12
  <2>2. ~panicked /\ got[w] <= children[w] /\ children[w] <= children[w]
    BY <2>1, OnceFacts
  <2>3. \A k \in Running(c) : k.at = "send" => got'[w] <= k.children /\ k.children <= children'[w]
    BY <1>6, <1>9, <1>10, <2>1, <2>2, Zenon
  <2>4. Orderly(w)'
    BY <1>1, <1>5, <1>6, <1>10, <1>11, <2>1, <2>2, <2>3 DEF Orderly
  <2> QED BY <1>1, <2>1, <2>2, <2>4
<1>13. OnceInv'
  <2>1. loops' = [loops EXCEPT ![w] = c] /\ updatesClosed' \subseteq updatesClosed \cup {w}
        /\ updatesClosed' \subseteq Watches /\ w \notin updatesClosed'
    BY <1>1, <1>5, <1>8, LoopFacts DEF c
  <2>2. OnceInv /\ LoopType
    BY DEF WatchInv, TypeOK
  <2>3. \A v \in Watches \ {w} : got'[v] = got[v] /\ watchedNodes'[v] = watchedNodes[v]
    BY <1>1 DEF WatchInv, TypeOK, RunType
  <2> QED BY <1>6, <1>12, <2>1, <2>2, <2>3, OnceAt, Zenon
<1>14. LockInv'
  BY <1>1, <1>3 DEF WatchInv, LockInv
<1>15. Watched' \subseteq Watched \cup {w} /\ Watched \subseteq Watches
  BY <1>1 DEF Watched, WatchInv, TypeOK, RunType
<1>16. HeardInv'
  BY <1>1, <1>3, <1>10, <1>11, <1>15 DEF WatchInv, HeardInv
<1> QED BY <1>6, <1>7, <1>11, <1>13, <1>14, <1>16, WatchInvAfter

-----------------------------------------------------------------------------
(* The invariant, and what follows. *)

LEMMA WatchInit == Init => WatchInv
<1> SUFFICES ASSUME Init PROVE WatchInv
  OBVIOUS
<1>1. ZkType
  BY ZkAssumption DEF Init, ZkType
<1>2. RunType
  BY Zenon DEF Init, RunType
<1>3. NoLoops \in [LoopState -> Nat] /\ Running(NoLoops) = {}
  BY DEF NoLoops, Running
<1>4. LoopType
  <2>1. updatesClosed \subseteq Watches /\ got \in [Watches -> 0..MaxChanges]
    BY ZkAssumption DEF Init
  <2>2. doubled \in BOOLEAN /\ panicked \in BOOLEAN
    BY Zenon DEF Init
  <2>3. loops \in [Watches -> [LoopState -> Nat]]
    BY <1>3, Zenon DEF Init
  <2> QED BY <2>1, <2>2, <2>3 DEF LoopType
<1>5. Watched = {}
  BY DEF Init, Watched
<1>6. LockInv /\ HeardInv
  BY <1>5 DEF Init, LockInv, HeardInv
<1>7. OnceInv
  BY <1>3 DEF Init, OnceInv, Orderly, Single
<1> QED BY <1>1, <1>2, <1>4, <1>6, <1>7 DEF WatchInv, TypeOK

LEMMA StutterKeeps == ASSUME WatchInv, UNCHANGED vars PROVE WatchInv'
<1>1. UNCHANGED <<zkVars, errs, run, closing, hookVars, loopVars, losses>>
  BY DEF vars
<1>2. UNCHANGED <<hooksLock, call, ephemeralNodes, watchedNodes, loops>>
  BY <1>1 DEF hookVars, loopVars
<1>3. RunType'
  BY <1>1, <1>2 DEF WatchInv, TypeOK, RunType
<1>4. LockInv' /\ HeardInv'
  BY <1>1, <1>2, LockStays, HeardStays DEF WatchInv, TypeOK
<1> QED BY <1>1, <1>2, <1>3, <1>4, ZkStays, RunKeeps

LEMMA WatchStep == WatchInv /\ [Next]_vars => WatchInv'
<1> SUFFICES ASSUME WatchInv, [Next]_vars PROVE WatchInv'
  OBVIOUS
<1>1. CASE RunStep
  BY <1>1, SelectKeeps, LocksKeeps, CancelWatchKeeps, UnlockKeeps, CloseConnKeeps,
     HookCreateKeeps, HookWatchKeeps DEF RunStep
<1>2. CASE ZkStep
  BY <1>2, AsideKeeps DEF ZkStep
<1>3. CASE CallStep
  BY <1>3, EphemeralKeeps, WatchChildrenKeeps, RemoveWatchKeeps DEF CallStep
<1>4. CASE hiccup \/ expire \/ close \/ shutdown
  BY <1>4, FaultKeeps, AsideKeeps, CloseConnKeeps
<1>5. ASSUME NEW w \in Watches, LoopStep(w) \/ sendUpdate(w) \/ change(w) PROVE WatchInv'
  BY <1>5, EventOrReadKeeps, WatchRemovedKeeps, SendKeeps, FaultKeeps DEF LoopStep
<1>6. ASSUME NEW c \in Calls, lockHooks(c) PROVE WatchInv'
  BY <1>6, LockHooksKeeps
<1>7. CASE UNCHANGED vars
  BY <1>7, StutterKeeps
<1> QED BY <1>1, <1>2, <1>3, <1>4, <1>5, <1>6, <1>7 DEF Next

\* The inductive invariant holds in every reachable state, for any nodes and any
\* number of changes and faults: type correctness, who holds hooksLock, which
\* watches have a goroutine, and that a single goroutine is in order.
THEOREM WatcherSafe == Spec => []WatchInv
BY WatchInit, WatchStep, PTL DEF Spec

\* Whenever cancelWatches runs for a reconnection, each watch that it has yet to
\* send to has a goroutine left: run does not wait for one that is gone, with
\* hooksLock held, whatever callers and earlier reconnections did.
THEOREM CancelIsHeard == Spec => []CancelHeard
<1>1. WatchInv => CancelHeard
  BY DEF WatchInv, HeardInv, CancelHeard
<1> QED BY <1>1, WatcherSafe, PTL

\* While no watch has had a second goroutine, hookWatchChildren closes no channel
\* twice and sends nothing on a closed one.
THEOREM ClosesOnce == Spec => []ClosedOnce
<1>1. WatchInv => ClosedOnce
  BY DEF WatchInv, OnceInv, ClosedOnce
<1> QED BY <1>1, WatcherSafe, PTL

\* Only the reader of updates takes children, and those of a watch with one
\* goroutine are not older than the last it took.
LEMMA SendsForward ==
  ASSUME WatchInv, [Next]_vars, ~doubled', NEW w \in Watches PROVE got'[w] >= got[w]
<1>1. got[w] \in Nat
  BY LoopFacts
<1>2. ASSUME NEW v \in Watches, sendUpdate(v) PROVE got'[w] >= got[w]
  <2>1. ~doubled
    BY <1>2 DEF sendUpdate
  <2>2. PICK l \in Running(loops[v]) :
          l.at = "send" /\ (got' = got \/ got' = [got EXCEPT ![v] = l.children])
    BY <1>2 DEF sendUpdate
  <2>3. l.children \in Nat /\ got[v] <= l.children
    BY <2>1, <2>2, OnceFacts
  <2>4. DOMAIN got = Watches
    BY DEF WatchInv, TypeOK, LoopType
  <2> QED BY <1>1, <2>2, <2>3, <2>4
<1>3. (\A v \in Watches : ~sendUpdate(v)) => got' = got
  <2> SUFFICES ASSUME \A v \in Watches : ~sendUpdate(v) PROVE got' = got
    OBVIOUS
  <2>1. CASE RunStep
    BY <2>1, Zenon DEF RunStep, runError, runWaited, cancelWatches, cancelWatch, cancelWatchesDone,
       reconnect, runHooks, lockForHooks, hookCreateEphemeral, hookWatchChildren, hookWatch,
       runHooksDone, loopVars
  <2>2. CASE ZkStep \/ CallStep
    BY <2>2, Zenon DEF ZkStep, CallStep, recover, sessionError, expireOld, createEphemeral,
       removeEphemeral, watchChildren, removeWatch, loopVars
  <2>3. CASE hiccup \/ expire \/ close \/ shutdown \/ \E c \in Calls : lockHooks(c)
    BY <2>3 DEF hiccup, expire, close, shutdown, lockHooks, loopVars
  <2>4. CASE \E v \in Watches : LoopStep(v) \/ change(v)
    BY <2>4 DEF LoopStep, watchEvent, watchRead, watchRemoved, change
  <2>5. CASE UNCHANGED vars
    BY <2>5 DEF vars, loopVars
  <2> QED BY <2>1, <2>2, <2>3, <2>4, <2>5 DEF Next
<1> QED BY <1>1, <1>2, <1>3

\* While no watch has had a second goroutine, the reader of updates gets the
\* children in the order zookeeper had them, across any number of reconnections.
THEOREM NeverReplays == Spec => NoReplay
<1>1. WatchInv /\ [Next]_vars => (~doubled' => \A w \in Watches : got'[w] >= got[w])
  BY SendsForward
<1> QED BY <1>1, WatcherSafe, PTL DEF Spec, NoReplay
============================================================================
