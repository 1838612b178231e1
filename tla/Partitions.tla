----------------------------- MODULE Partitions -----------------------------
(***************************************************************************)
(* The partition map of one version (partitions.go) at every node of a     *)
(* cluster, mirrored through zookeeper: what a node has, what it           *)
(* advertises, what it knows of the others, and when it finds the version  *)
(* ready.  Sessions are lost, nodes crash and restart with what they had   *)
(* saved.  Of zkWatcher (external services behind it included) the module  *)
(* keeps the ephemeral nodes, their re-creation and the delay of a watch.  *)
(***************************************************************************)
EXTENDS Naturals, FiniteSets

CONSTANTS Nodes, Partitions,
          Choices,     \* bound: what a node may have chosen
          Manifests,   \* bound: what an earlier process may have saved
          Failing,     \* the nodes that may crash or lose a session
          MaxLosses    \* bound: sessions lost and crashes

ASSUME PartitionsAssumption ==
  /\ IsFiniteSet(Nodes) /\ IsFiniteSet(Partitions)
  /\ Choices \cup Manifests \subseteq SUBSET Partitions
  /\ Failing \subseteq Nodes /\ MaxLosses \in Nat

VARIABLES zk,        \* the children of partitions/<db>/<version>: <<partition, node>>
          orphans,   \* those of sessions that ended but have not expired yet
          session,   \* of each node: up or down (reset by zkWatcher.run)
          node,      \* the partitions object of each node
          manifest,  \* SelectedPartitions of the manifest each node has on disk
          forgot,    \* history: a Save has dropped partitions of an earlier ring
          losses

vars == <<zk, orphans, session, node, manifest, forgot, losses>>

NoUpdate == [children |-> {}, fresh |-> FALSE]

Off == [run |-> "off", selected |-> {}, local |-> {}, remote |-> {}, numMissing |-> 0,
        readyClosed |-> FALSE, shouldAdvertise |-> FALSE,
        ephemeral |-> {},     \* zkWatcher.ephemeralNodes of this version
        seen |-> {},          \* the children when the watch was last set
        update |-> NoUpdate]  \* children read but not yet taken by sync

Mine(n) == {c \in zk : c[2] = n}
Owned(n) == Mine(n) \ orphans
Missing(o) == {p \in Partitions : p \notin o.local /\ \A c \in o.remote : c[1] # p}

\* Mutant: ready is closed when nothing is missing of the node's own selection.
updateMissingOwn(o) ==
  [o EXCEPT !.numMissing = Cardinality(Missing(o)),
            !.readyClosed = @ \/ o.selected \subseteq o.local]

\* Mutant: ready is closed when the node itself has every partition.
updateMissingLocal(o) ==
  [o EXCEPT !.numMissing = Cardinality(Missing(o)),
            !.readyClosed = @ \/ Partitions \subseteq o.local]

updateMissing(o) ==
  [o EXCEPT !.numMissing = Cardinality(Missing(o)),
            !.readyClosed = IF Missing(o) = {} THEN TRUE ELSE @]

\* Mutant: the remote partitions change, and the cached number of missing ones
\* does not.
remotePartitionsOnly(n, o, children) == [o EXCEPT !.remote = {c \in children : c[2] # n}]

\* updateRemotePartitions.
remotePartitions(n, o, children) ==
  updateMissing([o EXCEPT !.remote = {c \in children : c[2] # n}])

sessionEnds(n) ==
  /\ session' = [session EXCEPT ![n] = "down"]
  /\ orphans' = orphans \cup {c \in zk' : c[2] = n}

\* createEphemeral for every local partition.  To create a node that exists
\* already is an error, which makes zkWatcher reset the connection.
advertise(n, o) ==
  /\ zk' = IF session[n] = "up" THEN zk \cup (o.local \X {n}) ELSE zk
  /\ node' = [node EXCEPT ![n] = [o EXCEPT !.ephemeral = @ \cup o.local]]
  /\ IF \E p \in o.local : <<p, n>> \in zk THEN sessionEnds(n) ELSE UNCHANGED <<session, orphans>>

-----------------------------------------------------------------------------

\* Every partition is chosen by some node (module Sharding), and a node may have
\* a manifest of an earlier process, with what was chosen then.
Init ==
  /\ zk = {} /\ orphans = {} /\ losses = 0 /\ session = [n \in Nodes |-> "up"]
  /\ \E chosen \in [Nodes -> Choices] :
       /\ UNION {chosen[n] : n \in Nodes} = Partitions
       /\ node = [n \in Nodes |-> [Off EXCEPT !.selected = chosen[n]]]
  /\ manifest \in [Nodes -> Manifests] /\ forgot = FALSE

\* watchPartitions, which waits for the first update, and initBlockStore, which
\* makes the partitions of the manifest local.
watchPartitions(n) ==
  /\ node[n].run = "off" /\ session[n] = "up"
  /\ LET o == [Off EXCEPT !.run = "on", !.selected = node[n].selected, !.seen = zk]
     IN node' = [node EXCEPT ![n] =
                   updateMissing([remotePartitions(n, o, zk) EXCEPT !.local = manifest[n]])]
  /\ UNCHANGED <<zk, orphans, session, manifest, forgot, losses>>

\* advertisePartitions, called by switchVersion.
advertisePartitions(n) ==
  /\ node[n].run = "on" /\ ~node[n].shouldAdvertise
  /\ advertise(n, [node[n] EXCEPT !.shouldAdvertise = TRUE])
  /\ UNCHANGED <<manifest, forgot, losses>>

needed(n) == node[n].selected \ node[n].local

\* A build ends: the manifest is saved with the selected partitions, then
\* updateLocalPartitions adds the ones that were needed.
saveManifest(n) ==
  /\ node[n].run = "on" /\ needed(n) # {} /\ manifest[n] # node[n].selected
  /\ manifest' = [manifest EXCEPT ![n] = node[n].selected]
  /\ forgot' = (forgot \/ ~(manifest[n] \subseteq node[n].selected))
  /\ UNCHANGED <<zk, orphans, session, node, losses>>
updateLocalPartitions(n) ==
  /\ node[n].run = "on" /\ needed(n) # {} /\ manifest[n] = node[n].selected
  /\ LET o == updateMissing([node[n] EXCEPT !.local = @ \cup needed(n)])
     IN IF o.shouldAdvertise THEN advertise(n, o)
        ELSE node' = [node EXCEPT ![n] = o] /\ UNCHANGED <<zk, orphans, session>>
  /\ UNCHANGED <<manifest, forgot, losses>>

\* The watch fires: its goroutine reads the children, and sync takes them later.
hookWatchChildren(n) ==
  /\ node[n].run = "on" /\ session[n] = "up"
  /\ ~node[n].update.fresh /\ node[n].seen # zk
  /\ node' = [node EXCEPT ![n] =
                [@ EXCEPT !.seen = zk, !.update = [children |-> zk, fresh |-> TRUE]]]
  /\ UNCHANGED <<zk, orphans, session, manifest, forgot, losses>>
sync(n) ==
  /\ node[n].run = "on" /\ node[n].update.fresh
  /\ node' = [node EXCEPT ![n] =
       [remotePartitions(n, node[n], node[n].update.children) EXCEPT !.update = NoUpdate]]
  /\ UNCHANGED <<zk, orphans, session, manifest, forgot, losses>>

\* Mutant: a removed ephemeral node stays in the map, to be created again.
closeKept(n) ==
  /\ node[n].run = "on"
  /\ node' = [node EXCEPT ![n] =
                [@ EXCEPT !.run = "closed", !.shouldAdvertise = FALSE, !.update = NoUpdate]]
  /\ zk' = IF session[n] = "up" THEN zk \ (node[n].local \X {n}) ELSE zk
  /\ orphans' = orphans \cap zk'
  /\ UNCHANGED <<session, manifest, forgot, losses>>

\* partitions.close: unadvertisePartitions, which deletes nodes of any session
\* and ignores errors, and removeWatch.
close(n) ==
  /\ node[n].run = "on"
  /\ node' = [node EXCEPT ![n] =
                [@ EXCEPT !.run = "closed", !.shouldAdvertise = FALSE,
                          !.ephemeral = node[n].ephemeral \ node[n].local, !.update = NoUpdate]]
  /\ zk' = IF session[n] = "up" THEN zk \ (node[n].local \X {n}) ELSE zk
  /\ orphans' = orphans \cap zk'
  /\ UNCHANGED <<session, manifest, forgot, losses>>

\* The connection is lost, or the process dies.
disconnect(n) ==
  /\ losses < MaxLosses /\ losses' = losses + 1 /\ session[n] = "up"
  /\ UNCHANGED zk /\ sessionEnds(n)
  /\ UNCHANGED <<node, manifest, forgot>>
crash(n) ==
  /\ losses < MaxLosses /\ losses' = losses + 1 /\ node[n].run = "on"
  /\ node' = [node EXCEPT ![n] = [Off EXCEPT !.selected = node[n].selected]]
  /\ UNCHANGED zk /\ sessionEnds(n)
  /\ UNCHANGED <<manifest, forgot>>

\* A session that ended expires, or zkWatcher has closed it.
expire(n) ==
  /\ Mine(n) \cap orphans # {}
  /\ zk' = zk \ (Mine(n) \cap orphans) /\ orphans' = orphans \ Mine(n)
  /\ UNCHANGED <<session, node, manifest, forgot, losses>>

\* Mutant: the watches are not set again after a reconnection.
reconnectDeaf(n) ==
  /\ session[n] = "down" /\ \A p \in node[n].ephemeral : <<p, n>> \notin zk
  /\ session' = [session EXCEPT ![n] = "up"]
  /\ zk' = zk \cup (node[n].ephemeral \X {n})
  /\ node' = [node EXCEPT ![n].update = NoUpdate, ![n].seen = zk']
  /\ UNCHANGED <<orphans, manifest, forgot, losses>>

\* zkWatcher.run: reconnect and runHooks, which fails while a node of the old
\* session exists.  The goroutine of the watch is cancelled, with the update it
\* may hold, and a new one starts with what it reads.
reconnect(n) ==
  /\ session[n] = "down" /\ \A p \in node[n].ephemeral : <<p, n>> \notin zk
  /\ session' = [session EXCEPT ![n] = "up"]
  /\ zk' = zk \cup (node[n].ephemeral \X {n})
  /\ node' = IF node[n].run = "on"
             THEN [node EXCEPT ![n] =
                     [@ EXCEPT !.seen = zk', !.update = [children |-> zk', fresh |-> TRUE]]]
             ELSE node
  /\ UNCHANGED <<orphans, manifest, forgot, losses>>

Work(n) ==
  \/ watchPartitions(n) \/ advertisePartitions(n) \/ saveManifest(n)
  \/ updateLocalPartitions(n) \/ hookWatchChildren(n) \/ sync(n)
  \/ expire(n) \/ reconnect(n)

Next ==
  \/ \E n \in Nodes : Work(n) \/ close(n)
  \/ \E n \in Failing : disconnect(n) \/ crash(n)
Spec == Init /\ [][Next]_vars

\* Nodes do what they are about to do, and zookeeper comes back.
FairSpec == Spec /\ \A n \in Nodes : WF_vars(Work(n))

-----------------------------------------------------------------------------
(* Properties. *)

Children == SUBSET (Partitions \X Nodes)
NodeType ==
  [run : {"off", "on", "closed"}, selected : SUBSET Partitions, local : SUBSET Partitions,
   remote : Children, numMissing : Nat, readyClosed : BOOLEAN, shouldAdvertise : BOOLEAN,
   ephemeral : SUBSET Partitions, seen : Children,
   update : [children : Children, fresh : BOOLEAN]]
TypeOK ==
  /\ zk \in Children /\ orphans \subseteq zk /\ session \in [Nodes -> {"up", "down"}]
  /\ manifest \in [Nodes -> SUBSET Partitions] /\ node \in [Nodes -> NodeType]

\* Nobody has removed the version.
Kept == \A n \in Nodes : node[n].run # "closed"

\* What a node with a session advertises, it has: a peer that asks it for one of
\* these partitions is not told errProxiedIncorrectly.  What is left of a removed
\* version's advertisements belongs to sessions that are about to expire, and no
\* reconnection brings it back.
AdvertisedIsHeld ==
  \A n \in Nodes :
    /\ session[n] = "up" /\ node[n].run = "on" => \A c \in Owned(n) : c[1] \in node[n].local
    /\ node[n].run = "closed" => node[n].ephemeral = {} /\ Owned(n) = {}

\* missing() answers from a number that is computed whenever local or remote
\* change: it is never stale.  A node counts itself in local only.
MissingExact ==
  \A n \in Nodes :
    /\ node[n].run # "off" => node[n].numMissing = Cardinality(Missing(node[n]))
    /\ \A c \in node[n].remote : c[2] # n

\* "Waits until every partition represented in the cluster at least once": when a
\* node has found the version ready, every partition is in a manifest on some
\* node's disk, whatever crashed meanwhile, unless the nodes have begun to remove
\* the version or a Save has dropped what an earlier ring had chosen.
ReadyDurable ==
  Kept /\ ~forgot =>
    \A n \in Nodes : node[n].readyClosed =>
      \A p \in Partitions : \E m \in Nodes : p \in manifest[m]

\* The inductive invariant behind them.  What a node's session owns is what its
\* watcher would create again, and that the node has; a node without a session
\* owns nothing.  As long as nothing is removed or forgotten, all that is said to
\* be anywhere, in zookeeper, in an update under way or in a mirror, is in a
\* manifest there.
SessionInv ==
  \A n \in Nodes :
    /\ node[n].ephemeral \subseteq node[n].local
    /\ node[n].run # "on" => node[n].ephemeral = {}
    /\ \A c \in Owned(n) : session[n] = "up" /\ c[1] \in node[n].ephemeral
Saved(cs) == \A c \in cs : c[1] \in manifest[c[2]]
SavedInv ==
  Kept /\ ~forgot =>
    /\ Saved(zk)
    /\ \A n \in Nodes : /\ node[n].local \subseteq manifest[n]
                        /\ Saved(node[n].remote) /\ Saved(node[n].update.children)
PartitionsInv == TypeOK /\ MissingExact /\ SessionInv /\ SavedInv

\* Every node finds the version ready, through crashes and lost sessions, if no
\* one removes it.
ReadyHappens == <>[](Kept => \A n \in Nodes : node[n].readyClosed)

\* The mirror catches up: from some time on every node knows what the others
\* advertise, and all of them advertise what they have.
MirrorConverges ==
  <>[](Kept => \A n \in Nodes :
         /\ node[n].remote = {c \in zk : c[2] # n}
         /\ Mine(n) = node[n].local \X {n})
=============================================================================
