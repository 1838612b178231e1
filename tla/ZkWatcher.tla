----------------------------- MODULE ZkWatcher -----------------------------
(***************************************************************************)
(* zkWatcher (zk_watcher.go): its main loop, the goroutines that watch     *)
(* nodes, the callers that create and remove ephemerals and watches, and   *)
(* close, with the two locks and the channels between them.  Of zookeeper  *)
(* (external) there are sessions, ephemeral nodes and one-shot watches.    *)
(***************************************************************************)
EXTENDS Naturals, FiniteSets

CONSTANTS Watches,     \* nodes whose children are watched
          Ephemerals,  \* nodes this process creates
          MaxChanges,  \* bound: changes of the children of a node
          MaxLosses    \* bound: hiccups, lost sessions, failed reconnections, ephemerals
                       \* created again

ASSUME ZkAssumption ==
  /\ IsFiniteSet(Watches) /\ IsFiniteSet(Ephemerals)
  /\ MaxChanges \in Nat /\ MaxLosses \in Nat

VARIABLES conn,            \* the connection: up, connecting (again), dead, or late
          tree,            \* each ephemeral in zookeeper: none, mine, or old
          children,        \* of each watched node, as the number of its changes
          notices,         \* session events that a goroutine is about to send to errs
          errs,            \* the channel errs holds an error
          run,             \* the goroutine of run
          closing,         \* close: not called, sending (with the write lock), done
          hooksLock,       \* who holds it: free, run, or call
          call,            \* the call that holds hooksLock
          ephemeralNodes,  \* each node is in the map or not: no, yes, or removed
          watchedNodes,    \* the same (when removed, cancel is closed)
          loops,           \* how many goroutines of hookWatchChildren, by node and state
          updatesClosed,   \* the nodes whose updates channel was closed
          got,             \* the children that the reader of updates has last got
          doubled,         \* history: a node has got a second goroutine
          panicked, losses

zkVars == <<conn, tree, children, notices>>
hookVars == <<hooksLock, call, ephemeralNodes, watchedNodes>>
loopVars == <<loops, updatesClosed, got, doubled, panicked>>
vars == <<zkVars, errs, run, closing, hookVars, loopVars, losses>>

\* A goroutine of a watch offers children (send), waits for an event (wait), reads
\* the children again (read), or waits for cancel only: after a bad event (bad),
\* after an error (err), or in place of one that could not start (none).
LoopState ==
  [at : {"send"}, children : 0..MaxChanges, ev : {"armed", "fired", "bad"}]
    \cup [at : {"wait"}, children : {0}, ev : {"armed", "fired", "bad"}]
    \cup [at : {"read", "bad", "err", "none"}, children : {0}, ev : {"none"}]
Loop(at, c, ev) == [at |-> at, children |-> c, ev |-> ev]
Fresh(w) == Loop("send", children[w], "armed")
Idle(at) == Loop(at, 0, "none")
Receiving(l) == l.at # "read"

NoLoops == [l \in LoopState |-> 0]
Running(b) == {l \in LoopState : b[l] > 0}
begin(b, l) == [b EXCEPT ![l] = @ + 1]
end(b, l) == [b EXCEPT ![l] = @ - 1]
replace(b, l, m) == begin(end(b, l), m)

\* What becomes of a watch's goroutines when all their armed watches get event ev.
Fire(b, ev) ==
  [l \in LoopState |-> IF l.ev = "armed" THEN 0
                       ELSE IF l.ev = ev THEN b[l] + b[[l EXCEPT !.ev = "armed"]] ELSE b[l]]
BadEvent == loops' = [w \in Watches |-> Fire(loops[w], "bad")]

Usable == conn \in {"up", "late"}
\* RLock, as close holds the write lock while it sends; reconnect is one step.
CanRead == closing # "send"
Watched == {w \in Watches : watchedNodes[w] = "yes"}
Created == {e \in Ephemerals : ephemeralNodes[e] = "yes"}
At(p) == run' = [run EXCEPT !.at = p]

Init ==
  /\ conn = "up" /\ tree = [e \in Ephemerals |-> "none"] /\ children = [w \in Watches |-> 0]
  /\ notices = 0 /\ errs = FALSE /\ closing = "no" /\ losses = 0
  /\ run = [at |-> "select", exiting |-> FALSE, nodes |-> {}, watches |-> {}]
  /\ hooksLock = "free" /\ call = <<>> /\ ephemeralNodes = [e \in Ephemerals |-> "no"]
  /\ watchedNodes = [w \in Watches |-> "no"] /\ loops = [w \in Watches |-> NoLoops]
  /\ updatesClosed = {} /\ got = [w \in Watches |-> 0] /\ doubled = FALSE /\ panicked = FALSE

-----------------------------------------------------------------------------
(* Zookeeper. *)

\* The connection breaks.  Every watch gets an event that is not Ok.
hiccup ==
  /\ conn = "up" /\ losses < MaxLosses /\ losses' = losses + 1
  /\ conn' = "connecting" /\ BadEvent
  /\ UNCHANGED <<tree, children, notices, errs, run, closing, hookVars, updatesClosed, got, doubled, panicked>>
recover ==
  /\ conn = "connecting" /\ conn' = "up"
  /\ UNCHANGED <<tree, children, notices, errs, run, closing, hookVars, loopVars, losses>>

\* The session expires: the goroutine that reads its events has an error to send.
expire ==
  /\ conn \in {"up", "connecting"} /\ losses < MaxLosses /\ losses' = losses + 1
  /\ conn' = "dead" /\ tree' = [e \in Ephemerals |-> "none"] /\ BadEvent
  /\ notices' = notices + 1
  /\ UNCHANGED <<children, errs, run, closing, hookVars, updatesClosed, got, doubled, panicked>>
expireOld(e) ==
  /\ tree[e] = "old" /\ tree' = [tree EXCEPT ![e] = "none"]
  /\ UNCHANGED <<conn, children, notices, errs, run, closing, hookVars, loopVars, losses>>

\* Another node of the cluster changes the children of a watched node.
change(w) ==
  /\ children[w] < MaxChanges /\ children' = [children EXCEPT ![w] = @ + 1]
  /\ loops' = IF Usable THEN [loops EXCEPT ![w] = Fire(@, "fired")] ELSE loops
  /\ UNCHANGED <<conn, tree, notices, errs, run, closing, hookVars, updatesClosed, got, doubled, panicked, losses>>

\* The goroutine of reconnect that reads the session's events.
sessionError ==
  /\ notices > 0 /\ notices' = notices - 1 /\ errs' = TRUE
  /\ UNCHANGED <<conn, tree, children, run, closing, hookVars, loopVars, losses>>

\* What conn.Close does to the ephemerals of the session: they go at once, or,
\* if zookeeper does not hear of it, when the session expires.
CloseConn ==
  /\ tree' = [e \in Ephemerals |->
                IF tree[e] # "mine" THEN tree[e] ELSE IF Usable THEN "none" ELSE "old"]
  /\ BadEvent

-----------------------------------------------------------------------------
(* run. *)

\* Mutant: the error stays in errs.
runError_Peeks ==
  /\ run.at = "select" /\ errs /\ At("lock")
  /\ UNCHANGED <<zkVars, errs, closing, hookVars, loopVars, losses>>
\* The main select, and the one that waits before a reconnection.
runError ==
  /\ run.at = "select" /\ errs /\ errs' = FALSE /\ At("lock")
  /\ UNCHANGED <<zkVars, closing, hookVars, loopVars, losses>>
runWaited ==
  /\ run.at = "wait" /\ At("reconnect")
  /\ UNCHANGED <<zkVars, errs, closing, hookVars, loopVars, losses>>

\* cancelWatches: every watch is sent one value, which one goroutine takes.
cancelWatches ==
  /\ run.at = "lock" /\ hooksLock = "free" /\ hooksLock' = "run"
  /\ run' = [run EXCEPT !.at = "cancel", !.watches = Watched]
  /\ UNCHANGED <<zkVars, errs, closing, call, ephemeralNodes, watchedNodes, loopVars, losses>>
cancelWatch(w) ==
  /\ run.at = "cancel" /\ w \in run.watches /\ run' = [run EXCEPT !.watches = @ \ {w}]
  /\ \E l \in Running(loops[w]) :
       Receiving(l) /\ loops' = [loops EXCEPT ![w] = end(@, l)]
  /\ UNCHANGED <<zkVars, errs, closing, hookVars, updatesClosed, got, doubled, panicked, losses>>
cancelWatchesDone ==
  /\ run.at = "cancel" /\ run.watches = {} /\ hooksLock' = "free"
  /\ At(IF run.exiting THEN "done" ELSE "wait")
  /\ UNCHANGED <<zkVars, errs, closing, call, ephemeralNodes, watchedNodes, loopVars, losses>>

\* reconnect: the old connection is closed, and a new one opened in its place
\* unless zk.Dial fails at once; what fails later leaves one that is dead, or
\* that connects too late: calls use it, but nobody reads its session's events.
reconnect ==
  /\ run.at = "reconnect" /\ CanRead
  /\ \/ conn' = "up" /\ CloseConn /\ At("hooksLock") /\ UNCHANGED losses
     \/ conn' \in {"dead", "late"} /\ CloseConn /\ At("wait") /\ losses < MaxLosses /\ losses' = losses + 1
     \/ UNCHANGED <<conn, tree, loops>> /\ At("wait") /\ losses < MaxLosses /\ losses' = losses + 1
  /\ UNCHANGED <<children, notices, errs, closing, hookVars, updatesClosed, got, doubled, panicked>>

\* runHooks, which an error of one hook ends.
lockForHooks(watches) ==
  /\ run.at = "hooksLock" /\ hooksLock = "free" /\ hooksLock' = "run"
  /\ run' = [run EXCEPT !.at = "hooks", !.nodes = Created, !.watches = watches]
  /\ UNCHANGED <<zkVars, errs, closing, call, ephemeralNodes, watchedNodes, loopVars, losses>>
\* Mutant: the watches are not set again.
runHooks_NodesOnly == lockForHooks({})
runHooks == lockForHooks(Watched)
\* Mutant: an error returns without unlocking.
hookFails_Locked ==
  /\ run' = [run EXCEPT !.at = "wait", !.nodes = {}, !.watches = {}]
  /\ UNCHANGED hooksLock
hookFails ==
  /\ run' = [run EXCEPT !.at = "wait", !.nodes = {}, !.watches = {}]
  /\ hooksLock' = "free"
hookCreateEphemeral(e) ==
  /\ run.at = "hooks" /\ e \in run.nodes /\ CanRead
  /\ IF Usable /\ tree[e] = "none"
     THEN /\ tree' = [tree EXCEPT ![e] = "mine"]
          /\ run' = [run EXCEPT !.nodes = @ \ {e}] /\ UNCHANGED hooksLock
     ELSE hookFails /\ UNCHANGED tree
  /\ UNCHANGED <<conn, children, notices, errs, closing, call, ephemeralNodes, watchedNodes, loopVars, losses>>
hookWatch(w, l) ==
  /\ run.at = "hooks" /\ run.nodes = {} /\ w \in run.watches /\ CanRead
  /\ IF Usable
     THEN /\ loops' = [loops EXCEPT ![w] = begin(@, l)]
          /\ doubled' = (doubled \/ Running(loops[w]) # {})
          /\ run' = [run EXCEPT !.watches = @ \ {w}] /\ UNCHANGED hooksLock
     ELSE hookFails /\ UNCHANGED <<loops, doubled>>
  /\ UNCHANGED <<zkVars, errs, closing, call, ephemeralNodes, watchedNodes, updatesClosed, got, panicked, losses>>
\* Mutant: a watch that is set again first offers no children.
hookWatchChildren_Empty(w) == hookWatch(w, Loop("send", 0, "armed"))
hookWatchChildren(w) == hookWatch(w, Fresh(w))
runHooksDone ==
  /\ run.at = "hooks" /\ run.nodes = {} /\ run.watches = {} /\ hooksLock' = "free"
  /\ At("select")
  /\ UNCHANGED <<zkVars, errs, closing, call, ephemeralNodes, watchedNodes, loopVars, losses>>

-----------------------------------------------------------------------------
(* The goroutine of hookWatchChildren, for each node. *)

\* The reader of updates takes what is offered; to offer it on a closed channel
\* is a panic.
sendUpdate(w) ==
  /\ \E l \in Running(loops[w]) :
       /\ l.at = "send"
       /\ IF w \in updatesClosed THEN panicked' = TRUE /\ UNCHANGED <<loops, got>>
          ELSE /\ loops' = [loops EXCEPT ![w] = replace(@, l, Loop("wait", 0, l.ev))]
               /\ got' = [got EXCEPT ![w] = l.children] /\ UNCHANGED panicked
  /\ UNCHANGED <<zkVars, errs, run, closing, hookVars, updatesClosed, doubled, losses>>

\* Mutant: a bad event is not reported.
watchEvent_Quiet(w) ==
  /\ \E l \in Running(loops[w]) :
       /\ l.at = "wait" /\ l.ev \in {"fired", "bad"}
       /\ loops' = [loops EXCEPT ![w] = replace(@, l, Idle(IF l.ev = "fired" THEN "read" ELSE "bad"))]
  /\ UNCHANGED <<zkVars, errs, run, closing, hookVars, updatesClosed, got, doubled, panicked, losses>>
\* An event arrives: the children are read again, or the goroutine reports it.
watchEvent(w) ==
  /\ \E l \in Running(loops[w]) :
       /\ l.at = "wait" /\ l.ev \in {"fired", "bad"}
       /\ loops' = [loops EXCEPT ![w] = replace(@, l, Idle(IF l.ev = "fired" THEN "read" ELSE "bad"))]
       /\ errs' = (errs \/ l.ev = "bad")
  /\ UNCHANGED <<zkVars, run, closing, hookVars, updatesClosed, got, doubled, panicked, losses>>
watchRead(w) ==
  /\ CanRead
  /\ \E l \in Running(loops[w]) :
       /\ l.at = "read"
       /\ loops' = [loops EXCEPT ![w] = replace(@, l, IF Usable THEN Fresh(w) ELSE Idle("err"))]
       /\ errs' = (errs \/ ~Usable)
  /\ UNCHANGED <<zkVars, run, closing, hookVars, updatesClosed, got, doubled, panicked, losses>>

\* cancel is closed: the goroutine ends and closes the channels, unless it waits
\* for cancel without looking at what it gets.
watchRemoved(w) ==
  /\ watchedNodes[w] = "removed"
  /\ \E l \in Running(loops[w]) :
       /\ Receiving(l) /\ loops' = [loops EXCEPT ![w] = end(@, l)]
       /\ IF l.at \in {"bad", "none"} THEN UNCHANGED <<updatesClosed, panicked>>
          ELSE updatesClosed' = updatesClosed \cup {w} /\ panicked' = (w \in updatesClosed)
  /\ UNCHANGED <<zkVars, errs, run, closing, hookVars, got, doubled, losses>>

-----------------------------------------------------------------------------
(* The callers.  hooksLock lets one of them in at a time. *)

Calls ==
  ({"createEphemeral", "removeEphemeral"} \X Ephemerals)
    \cup ({"watchChildren", "removeWatch"} \X Watches)

\* What the callers do: a node is watched once; an ephemeral may be created
\* again (updateLocalPartitions does so), within the bound on faults.
Again(c) == c[1] = "createEphemeral" /\ ephemeralNodes[c[2]] # "no"
Meant(c) ==
  CASE c[1] = "createEphemeral" -> Again(c) => losses < MaxLosses
    [] c[1] = "removeEphemeral" -> ephemeralNodes[c[2]] = "yes"
    [] c[1] = "watchChildren" -> watchedNodes[c[2]] = "no"
    [] c[1] = "removeWatch" -> watchedNodes[c[2]] = "yes"

\* A call takes hooksLock and is done in one step, unless it has to wait for the
\* lock that close holds.
lockHooks(c) ==
  /\ hooksLock = "free" /\ Meant(c) /\ ~CanRead /\ c[1] # "removeWatch"
  /\ hooksLock' = "call" /\ call' = c
  /\ losses' = IF Again(c) THEN losses + 1 ELSE losses
  /\ UNCHANGED <<zkVars, errs, run, closing, ephemeralNodes, watchedNodes, loopVars>>
Enter(c) ==
  /\ call = c \/ (hooksLock = "free" /\ Meant(c))
  /\ hooksLock' = "free" /\ call' = <<>>
  /\ losses' = IF Again(c) /\ call # c THEN losses + 1 ELSE losses

createEphemeral(e) ==
  /\ CanRead /\ Enter(<<"createEphemeral", e>>)
  /\ ephemeralNodes' = [ephemeralNodes EXCEPT ![e] = "yes"]
  /\ IF Usable /\ tree[e] = "none"
     THEN tree' = [tree EXCEPT ![e] = "mine"] /\ UNCHANGED errs
     ELSE errs' = TRUE /\ UNCHANGED tree
  /\ UNCHANGED <<conn, children, notices, run, closing, watchedNodes, loopVars>>

\* The error of Delete is not looked at.
removeEphemeral(e) ==
  /\ CanRead /\ Enter(<<"removeEphemeral", e>>)
  /\ ephemeralNodes' = [ephemeralNodes EXCEPT ![e] = "removed"]
  /\ tree' = IF Usable THEN [tree EXCEPT ![e] = "none"] ELSE tree
  /\ UNCHANGED <<conn, children, notices, errs, run, closing, watchedNodes, loopVars>>

watchChildren(w) ==
  /\ CanRead /\ Enter(<<"watchChildren", w>>)
  /\ watchedNodes' = [watchedNodes EXCEPT ![w] = "yes"]
  /\ loops' = [loops EXCEPT ![w] = begin(NoLoops, IF Usable THEN Fresh(w) ELSE Idle("none"))]
  /\ errs' = (errs \/ ~Usable)
  /\ UNCHANGED <<zkVars, run, closing, ephemeralNodes, updatesClosed, got, doubled, panicked>>

removeWatch(w) ==
  /\ Enter(<<"removeWatch", w>>)
  /\ watchedNodes' = [watchedNodes EXCEPT ![w] = "removed"]
  /\ UNCHANGED <<zkVars, errs, run, closing, ephemeralNodes, loopVars>>

\* close takes the write lock and keeps it until run has received its value.
close ==
  /\ closing = "no" /\ closing' = "send"
  /\ UNCHANGED <<zkVars, errs, run, hookVars, loopVars, losses>>
\* Mutant: close does not unlock.
shutdown_Locked ==
  /\ closing = "send" /\ run.at \in {"select", "wait"}
  /\ run' = [run EXCEPT !.at = "lock", !.exiting = TRUE]
  /\ CloseConn /\ conn' = "dead"
  /\ UNCHANGED <<children, notices, errs, closing, hookVars, updatesClosed, got, doubled, panicked, losses>>
shutdown ==
  /\ closing = "send" /\ closing' = "done" /\ run.at \in {"select", "wait"}
  /\ run' = [run EXCEPT !.at = "lock", !.exiting = TRUE]
  /\ CloseConn /\ conn' = "dead"
  /\ UNCHANGED <<children, notices, errs, hookVars, updatesClosed, got, doubled, panicked, losses>>

RunStep ==
  \/ runError \/ runWaited \/ cancelWatches \/ (\E w \in Watches : cancelWatch(w))
  \/ cancelWatchesDone \/ reconnect \/ runHooks \/ (\E e \in Ephemerals : hookCreateEphemeral(e))
  \/ (\E w \in Watches : hookWatchChildren(w)) \/ runHooksDone
LoopStep(w) == watchEvent(w) \/ watchRead(w) \/ watchRemoved(w)
CallStep ==
  \/ \E e \in Ephemerals : createEphemeral(e) \/ removeEphemeral(e)
  \/ \E w \in Watches : watchChildren(w) \/ removeWatch(w)
ZkStep == recover \/ sessionError \/ \E e \in Ephemerals : expireOld(e)

Next ==
  /\ ~panicked
  /\ \/ RunStep \/ ZkStep \/ CallStep \/ hiccup \/ expire \/ close \/ shutdown
     \/ \E w \in Watches : LoopStep(w) \/ sendUpdate(w) \/ change(w)
     \/ \E c \in Calls : lockHooks(c)
Spec == Init /\ [][Next]_vars

\* Goroutines that can run do, the reader of updates keeps reading, and zookeeper
\* comes back and expires what it does not hear of.
Alive(A) == ~panicked /\ A
FairSpec ==
  /\ Spec
  /\ WF_vars(Alive(RunStep)) /\ WF_vars(Alive((call # <<>> /\ CallStep) \/ ZkStep \/ shutdown))
  /\ \A w \in Watches : WF_vars(Alive(LoopStep(w))) /\ SF_vars(Alive(sendUpdate(w)))

-----------------------------------------------------------------------------
(* Properties. *)

ZkType ==
  /\ conn \in {"up", "connecting", "dead", "late"} /\ tree \in [Ephemerals -> {"none", "mine", "old"}]
  /\ children \in [Watches -> 0..MaxChanges]
  /\ losses \in 0..MaxLosses /\ notices \in 0..losses
RunType ==
  /\ errs \in BOOLEAN /\ closing \in {"no", "send", "done"}
  /\ run \in [at : {"select", "lock", "cancel", "wait", "reconnect", "hooksLock", "hooks", "done"},
              exiting : BOOLEAN, nodes : SUBSET Ephemerals, watches : SUBSET Watches]
  /\ hooksLock \in {"free", "run", "call"} /\ call \in Calls \cup {<<>>}
  /\ ephemeralNodes \in [Ephemerals -> {"no", "yes", "removed"}]
  /\ watchedNodes \in [Watches -> {"no", "yes", "removed"}]
LoopType ==
  /\ loops \in [Watches -> [LoopState -> Nat]]
  /\ updatesClosed \subseteq Watches /\ got \in [Watches -> 0..MaxChanges]
  /\ doubled \in BOOLEAN /\ panicked \in BOOLEAN
TypeOK == ZkType /\ RunType /\ LoopType

\* cancelWatches sends on an unbuffered channel with hooksLock held: whenever it
\* runs for a reconnection, each watch it has yet to send to has a goroutine left
\* that can receive, whatever callers and earlier reconnections did.  And while no
\* watch has had a second goroutine, no channel is closed twice and nothing is sent
\* on a closed one.
CancelHeard ==
  run.at = "cancel" /\ ~run.exiting => \A w \in run.watches : Running(loops[w]) # {}
ClosedOnce == ~doubled => ~panicked
\* And each fault adds no more than one goroutine to a watch.
Goroutines(b) == UNION {{l} \X (1..b[l]) : l \in LoopState}
Size(b) == Cardinality(Goroutines(b))
FewGoroutines == \A w \in Watches : Size(loops[w]) <= MaxLosses + 2
ZkInv == TypeOK /\ CancelHeard /\ ClosedOnce /\ FewGoroutines

\* The inductive invariant behind these and NoReplay.  Who holds hooksLock, and what
\* is true while they do: the watches that run has yet to handle stay watched.
LockInv ==
  /\ hooksLock = "run" <=> run.at \in {"cancel", "hooks"}
  /\ hooksLock = "call" <=> call # <<>>
  /\ run.at \in {"cancel", "hooks"} => run.watches \subseteq Watched
  /\ \A w \in Watches : call = <<"watchChildren", w>> => watchedNodes[w] = "no"
\* Every node that is watched has a goroutine, but between cancelWatches and the
\* hook that sets the watch again.
HeardInv ==
  ~run.exiting =>
    /\ run.at \in {"select", "lock"} => \A w \in Watched : Running(loops[w]) # {}
    /\ run.at = "cancel" => \A w \in run.watches : Running(loops[w]) # {}
    /\ run.at = "hooks" => \A w \in Watched \ run.watches : Running(loops[w]) # {}
\* A watch with one goroutine: it is the one that closes updates, and it offers
\* nothing older than what the reader has.
Single(b) == \A l, m \in Running(b) : l = m /\ b[l] = 1
Orderly(w) ==
  /\ Single(loops[w]) /\ (w \in updatesClosed => Running(loops[w]) = {})
  /\ got[w] <= children[w]
  /\ \A l \in Running(loops[w]) :
       l.at = "send" => got[w] <= l.children /\ l.children <= children[w]
OnceInv ==
  /\ \A w \in updatesClosed : watchedNodes[w] = "removed"
  /\ ~doubled => ~panicked /\ \A w \in Watches : Orderly(w)
WatchInv == TypeOK /\ LockInv /\ HeardInv /\ OnceInv

\* While no watch has had a second goroutine, the reader of updates gets the
\* children in the order zookeeper had them, across any number of reconnections.
NoReplay == [][~doubled' => \A w \in Watches : got'[w] >= got[w]]_vars

Stopped == closing # "no" \/ panicked

\* Until close is called, run always comes back to its main select with every
\* ephemeral that was asked for in place: no order of calls, events and lost
\* sessions leaves it waiting for a lock or a goroutine, or a node forgotten.
RunReturns == []<>((run.at = "select" /\ \A e \in Created : tree[e] = "mine") \/ Stopped)

\* The reader of updates always comes to have the children as they are.
ChangeDelivered == []<>((\A w \in Watched : got[w] = children[w]) \/ Stopped)

\* While no watch has had a second goroutine, the watcher settles once zookeeper
\* does: it stops reconnecting, with its nodes in place and its readers up to date.
Settled ==
  /\ run.at = "select" /\ ~errs
  /\ \A e \in Created : tree[e] = "mine"
  /\ \A w \in Watched : got[w] = children[w]
Settles == <>[](Settled \/ doubled \/ Stopped)

\* close, which waits with the write lock held, hangs only on somebody who wants
\* that lock: run in reconnect or in a hook, a caller, or a goroutine that reads.
LockWanted ==
  \/ run.at \in {"reconnect", "hooks"} \/ call # <<>>
  \/ \E w \in Watches : \E l \in Running(loops[w]) : l.at = "read"
CloseReturns == []<>(closing # "send" \/ LockWanted \/ panicked)
=============================================================================
