------------------------------- MODULE Serve -------------------------------
(***************************************************************************)
(* ServeHTTP and version.serveKey (sequins.go, serve.go) in a cluster that *)
(* has one version of a db loaded: a client asks one node for one key; the *)
(* node answers from its own blocks or asks peers through version.proxy    *)
(* (module Proxy), the alternate partition after the normal one.  Peers    *)
(* answer with their own ServeHTTP; they go down, or drop the db, at any   *)
(* time.                                                                   *)
(***************************************************************************)
EXTENDS Proxy

CONSTANTS Partitions, NoPartition

ASSUME ServeAssumption == IsFiniteSet(Partitions) /\ NoPartition \notin Partitions

Nodes == Peers

VARIABLES numPartitions, \* zero if the version has no files
          node,     \* the node the client asks
          key,      \* its two partitions, and the one its file was read for
          have,     \* partitions.local of each node; the partition map is exact
          filled,   \* partitions in which the version has some other key
          up,       \* the nodes that answer
          dropped,  \* the nodes that do not have the db, or no version of it
          phase,    \* where serveKey is
          status    \* the status of the response

serveVars == <<numPartitions, node, key, have, filled, up, dropped, phase, status>>
vars == <<proxyVars, serveVars>>

\* KeyPartition gives two different partitions for a pathological key only; a
\* key that exists was loaded under one of the two, by all nodes that have it.
Keys == {k \in [normal : Partitions, alternate : Partitions,
                home : Partitions \cup {NoPartition}] :
           k.home \in {k.normal, k.alternate, NoPartition}}

\* Every partition is somewhere, or the version would not be served.
Init ==
  /\ node \in Nodes /\ key \in Keys
  /\ \/ /\ numPartitions = Cardinality(Partitions)
        /\ have \in {h \in [Nodes -> SUBSET Partitions] :
                       UNION {h[n] : n \in Nodes} = Partitions}
     \/ numPartitions = 0 /\ have = [n \in Nodes |-> {}] /\ key.home = NoPartition
  /\ filled \in SUBSET Partitions
  /\ up = Nodes /\ dropped \in {{}, {node}} /\ phase = "start" /\ status = 0
  /\ ProxyInit({})

\* blockStore.Get at a node.  Add puts a key into a block of its normal
\* partition, whatever partition it was loaded for.
Get(n) ==
  LET stored == key.home \in have[n]
      blockMap == (have[n] \cap filled) \cup (IF stored THEN {key.normal} ELSE {})
  IN IF {key.normal, key.alternate} \cap blockMap = {} THEN 500   \* ErrPartitionNotFound
     ELSE IF stored THEN 200 ELSE 404

HasLocally(n) == {key.normal, key.alternate} \cap have[n] # {}

\* getPeers: the remote nodes that have a partition.
getPeers(p) == {n \in Nodes \ {node} : p \in have[n]}

respond(s) == phase' = "done" /\ status' = s

\* ServeHTTP, versionMux.serveKey and version.serveKey for the client.  "To users,
\* we present a uniform 404" if there is no db or no version.
serveKey ==
  /\ phase = "start"
  /\ IF node \in dropped \/ numPartitions = 0 THEN respond(404) /\ UNCHANGED proxyVars
     ELSE IF HasLocally(node) THEN respond(Get(node)) /\ UNCHANGED proxyVars
     ELSE IF getPeers(key.normal) = {} THEN respond(502) /\ UNCHANGED proxyVars
     ELSE /\ phase' = "normal" /\ call(getPeers(key.normal))
          /\ UNCHANGED <<stopped, status>>
  /\ UNCHANGED <<numPartitions, node, key, have, filled, up, dropped>>

\* The status of a peer's answer: for a proxied request "we don't have this db" is
\* told from "we don't have this key", and it is not proxied further.
peerStatus(p) ==
  IF p \in dropped THEN 501 ELSE IF HasLocally(p) THEN Get(p) ELSE 500

peerAnswer(p, answer) ==
  /\ \/ p \in up /\ answer = (IF peerStatus(p) \in Answers THEN peerStatus(p) ELSE Failed)
     \/ (p \notin up \/ p \in cancelled \/ stopped) /\ answer = Failed
  /\ proxyAttempt(p, answer)
  /\ UNCHANGED serveVars

errorStatus(kind) ==
  CASE kind = "errNoAvailablePeers" -> 502
    [] kind = "errProxyTimeout" -> 504
    [] OTHER -> 500

\* Mutant: a timeout is reported as if no peer had been available.
serveProxied502 ==
  /\ at = "returned" /\ phase \in {"normal", "alternate"}
  /\ IF outcome.kind = "ok" THEN respond(outcome.answer) ELSE respond(502)
  /\ UNCHANGED <<proxyVars, numPartitions, node, key, have, filled, up, dropped>>

\* Mutant: when no peer is available the key is reported missing.
serveProxied404 ==
  /\ at = "returned" /\ phase \in {"normal", "alternate"}
  /\ IF outcome.kind = "ok" THEN respond(outcome.answer) ELSE respond(404)
  /\ UNCHANGED <<proxyVars, numPartitions, node, key, have, filled, up, dropped>>

\* serveProxied after proxy has returned.  A 404 for a pathological key is tried
\* again at the peers of the alternate partition, even if there is none; what is
\* left of the first call's attempts is cancelled, and answers to a channel that
\* nobody reads any more.
serveProxied ==
  /\ at = "returned" /\ phase \in {"normal", "alternate"}
  /\ IF phase = "normal" /\ outcome.kind = "ok" /\ outcome.answer = 404
        /\ key.alternate # key.normal
     THEN phase' = "alternate" /\ call(getPeers(key.alternate))
          /\ UNCHANGED <<stopped, status>>
     ELSE IF outcome.kind = "ok" THEN respond(outcome.answer) /\ UNCHANGED proxyVars
     ELSE respond(errorStatus(outcome.kind)) /\ UNCHANGED proxyVars
  /\ UNCHANGED <<numPartitions, node, key, have, filled, up, dropped>>

\* A peer crashes, or drops the db, which is gone upstream.  serveKey does not look
\* at either, so that they may as well happen after it.
nodeDown(n) ==
  /\ n \in up \ (dropped \cup {node}) /\ phase \in {"normal", "alternate"}
  /\ up' = up \ {n}
  /\ UNCHANGED <<proxyVars, numPartitions, node, key, have, filled, dropped, phase, status>>
dropDB(n) ==
  /\ n \in up \ (dropped \cup {node}) /\ phase \in {"normal", "alternate"}
  /\ dropped' = dropped \cup {n}
  /\ UNCHANGED <<proxyVars, numPartitions, node, key, have, filled, up, phase, status>>

AttemptStep ==
  \E p \in Peers, answer \in Answers \cup {Failed} : peerAnswer(p, answer)
LoopStep(A) == phase \in {"normal", "alternate"} /\ A /\ UNCHANGED serveVars

Next ==
  \/ serveKey \/ serveProxied \/ AttemptStep
  \/ LoopStep(Loop) \/ LoopStep(stageTimeout) \/ LoopStep(clientGone)
  \/ \E n \in Nodes : nodeDown(n) \/ dropDB(n)

Spec == Init /\ [][Next]_vars

\* The handler goes on, and the total timeout fires though stage timeouts do too.
FairSpec ==
  /\ Spec
  /\ WF_vars(serveKey \/ serveProxied \/ LoopStep(Loop)) /\ SF_vars(LoopStep(totalTimeout))

-----------------------------------------------------------------------------
(* Properties; those of the proxy loop alone are in module Proxy. *)

\* Neither a block nor a peer will ever answer for the key at node n.
Dead(n) == n \notin up \/ n \in dropped \/ n \in Malformed \/ Get(n) \notin Answers

\* A node that has the db answers 404 only for a key the version does not have,
\* whichever node it is and whatever became of its peers.  Keys with two partitions are another matter: a node that has one of
\* them does not ask the peers that have the other.
NotFoundHonest ==
  status = 404 /\ node \notin dropped /\ key.normal = key.alternate =>
    key.home = NoPartition

\* A client that still waits is told 502 only if no peer could have answered:
\* those that have one of the key's partitions are down, have dropped the db or
\* have no valid address, or hold no block for it.
BadGatewayHonest ==
  status = 502 /\ ~stopped =>
    \E p \in {key.normal, key.alternate} : \A n \in getPeers(p) : Dead(n)

\* The inductive invariant of the two.  Answers are what Get says at the peer that
\* gave them, and while the client waits a peer that was asked is still running,
\* has answered, or is dead.
AnswersTrue ==
  /\ \A r \in responses : r[2] \in Answers => HasLocally(r[1]) /\ Get(r[1]) = r[2]
  /\ outcome.kind = "ok" =>
       /\ outcome.peer \in Nodes /\ outcome.answer \in Answers
       /\ HasLocally(outcome.peer) /\ Get(outcome.peer) = outcome.answer
  /\ status = 404 => node \in dropped \/ key.home = NoPartition \/ \E n \in Nodes : HasLocally(n) /\ Get(n) = 404
Exhausts ==
  ~stopped =>
    /\ \A r \in responses : r[2] = Failed => Dead(r[1]) \/ at = "returned"
    /\ at # "returned" =>
         \A n \in asked \ untried : n \in running \cup Answered \/ Dead(n)
    /\ outcome.kind = "errNoAvailablePeers" => \A n \in asked : Dead(n)
ServeTypeOK ==
  /\ node \in Nodes /\ key \in Keys /\ have \in [Nodes -> SUBSET Partitions]
  /\ phase \in {"start", "normal", "alternate", "done"} /\ status \in {0, 200, 404, 500, 502, 504}
  /\ phase = "start" => at = "loop" /\ asked = {} /\ outcome = NoOutcome
  /\ phase = "done" => at = "returned" \/ asked = {}
  /\ phase # "done" => status = 0
  /\ phase = "normal" => asked = getPeers(key.normal)
  /\ phase = "alternate" => asked = getPeers(key.alternate)
  /\ numPartitions = 0 => key.home = NoPartition
ServeInv == ProxyInv /\ ServeTypeOK /\ AnswersTrue /\ Exhausts /\ BadGatewayHonest

\* Every request is answered, though peers stay silent and stage timeouts keep
\* firing in the loop of proxy.
RequestEnds == <>(phase = "done")
=============================================================================
