-------------------------- MODULE PartitionsProofs --------------------------
(***************************************************************************)
(* What the partition map says is true, for any number of nodes and        *)
(* partitions and any number of crashes and lost sessions: one lemma for   *)
(* each action of Partitions.                                              *)
(***************************************************************************)
EXTENDS Partitions, FiniteSetTheorems, TLAPS

\* updateMissing leaves the sets alone, and gets the number and ready right.
LEMMA MissingFacts ==
  ASSUME NEW o \in NodeType
  PROVE  /\ updateMissing(o) \in NodeType
         /\ updateMissing(o).numMissing = Cardinality(Missing(updateMissing(o)))
         /\ updateMissing(o).run = o.run /\ updateMissing(o).local = o.local
         /\ updateMissing(o).remote = o.remote /\ updateMissing(o).ephemeral = o.ephemeral
         /\ updateMissing(o).update = o.update /\ updateMissing(o).selected = o.selected
         /\ updateMissing(o).shouldAdvertise = o.shouldAdvertise
         /\ updateMissing(o).readyClosed => o.readyClosed \/ Missing(o) = {}
<1>1. Cardinality(Missing(o)) \in Nat
  BY PartitionsAssumption, FS_Subset, FS_CardinalityType, Missing(o) \subseteq Partitions DEF Missing
<1>2. updateMissing(o) \in NodeType
  BY <1>1, Zenon DEF updateMissing, NodeType
<1>3. Missing(updateMissing(o)) = Missing(o)
  BY DEF updateMissing, Missing, NodeType
<1> QED BY <1>2, <1>3, Zenon DEF updateMissing, NodeType

\* remotePartitions takes the children of the others.
LEMMA RemoteFacts ==
  ASSUME NEW n \in Nodes, NEW o \in NodeType, NEW cs \in Children
  PROVE  LET u == remotePartitions(n, o, cs)
         IN /\ u \in NodeType /\ u.numMissing = Cardinality(Missing(u))
            /\ u.run = o.run /\ u.local = o.local /\ u.ephemeral = o.ephemeral
            /\ u.remote = {c \in cs : c[2] # n} /\ u.update = o.update
            /\ u.selected = o.selected
            /\ u.readyClosed => o.readyClosed \/ Missing(u) = {}
<1> DEFINE r == [o EXCEPT !.remote = {c \in cs : c[2] # n}]
<1>1. r \in NodeType
  BY DEF NodeType, Children
<1>2. /\ r.run = o.run /\ r.local = o.local /\ r.ephemeral = o.ephemeral
      /\ r.remote = {c \in cs : c[2] # n} /\ r.update = o.update /\ r.readyClosed = o.readyClosed
      /\ r.selected = o.selected
  BY DEF NodeType
<1>3. Missing(updateMissing(r)) = Missing(r)
  BY <1>1, MissingFacts, Zenon DEF Missing
<1> HIDE DEF r
<1>4. remotePartitions(n, o, cs) = updateMissing(r)
  BY DEF remotePartitions, r
<1> QED BY <1>1, <1>2, <1>3, <1>4, MissingFacts

\* The conditions under which a step of node n keeps the invariants.  The last two
\* are about what is said to be saved, and may use that all of it was.
AllSaved == Kept /\ ~forgot /\ ~forgot'
SavedNext(cs) == \A c \in cs : c[1] \in manifest'[c[2]]
Fine(n, o) ==
  /\ o \in NodeType /\ node' = [node EXCEPT ![n] = o]
  /\ zk' \in Children /\ orphans' \subseteq zk' /\ session' \in [Nodes -> {"up", "down"}]
  /\ manifest' \in [Nodes -> SUBSET Partitions]
  /\ o.run # "off" => o.numMissing = Cardinality(Missing(o))
  /\ \A c \in o.remote : c[2] # n
  /\ o.ephemeral \subseteq o.local /\ (o.run # "on" => o.ephemeral = {})
  /\ \A m \in Nodes \ {n} : session'[m] = session[m]
  /\ \A c \in zk' \ orphans' : IF c[2] = n THEN session'[n] = "up" /\ c[1] \in o.ephemeral
                               ELSE c \in zk \ orphans
  /\ node[n].run = "closed" => o.run = "closed"
  /\ o.readyClosed => node[n].readyClosed \/ Missing(o) = {}
SaysSaved(n, o) ==
  /\ ~forgot' => ~forgot
  /\ AllSaved => \A m \in Nodes : manifest[m] \subseteq manifest'[m]
  /\ AllSaved /\ o.run # "closed" =>
       /\ SavedNext(zk' \ zk) /\ o.local \subseteq manifest'[n]
       /\ SavedNext(o.remote) /\ SavedNext(o.update.children)
LEMMA NodeKeeps ==
  ASSUME PartitionsInv, ReadyDurable, NEW n \in Nodes, NEW o, Fine(n, o), SaysSaved(n, o)
  PROVE  PartitionsInv' /\ ReadyDurable'
<1> USE DEF Fine, SaysSaved
<1> USE DEF PartitionsInv
<1>1. TypeOK'
  BY DEF TypeOK
<1>2. node'[n] = o /\ \A m \in Nodes \ {n} : node'[m] = node[m]
  BY DEF TypeOK
<1>3. MissingExact'
  <2>1. \A x : Missing(x)' = Missing(x)
    BY DEF Missing
  <2> QED BY <1>2, <2>1 DEF MissingExact
<1>4. SessionInv'
  <2> SUFFICES ASSUME NEW m \in Nodes
               PROVE  /\ node'[m].ephemeral \subseteq node'[m].local
                      /\ node'[m].run # "on" => node'[m].ephemeral = {}
                      /\ \A c \in Owned(m)' : session'[m] = "up" /\ c[1] \in node'[m].ephemeral
    BY DEF SessionInv
  <2>1. CASE m = n
    BY <1>2, <2>1 DEF Owned, Mine
  <2>2. CASE m # n
    BY <1>2, <2>2 DEF SessionInv, Owned, Mine
  <2> QED BY <2>1, <2>2
<1>5. Kept' => Kept /\ o.run # "closed"
  BY <1>2 DEF Kept
<1>6. SavedInv'
  <2> SUFFICES ASSUME Kept', ~forgot' PROVE SavedInv'
    BY DEF SavedInv
  <2>1. AllSaved /\ o.run # "closed"
    BY <1>5 DEF AllSaved
  <2>2. \A cs \in Children : Saved(cs) => SavedNext(cs)
    BY <2>1 DEF Saved, SavedNext, Children
  <2>3. Saved(zk)'
    BY <2>1, <2>2 DEF SavedInv, AllSaved, Saved, SavedNext, TypeOK
  <2>4. ASSUME NEW m \in Nodes
        PROVE  /\ node'[m].local \subseteq manifest'[m]
               /\ SavedNext(node'[m].remote) /\ SavedNext(node'[m].update.children)
    <3>1. CASE m = n
      BY <1>2, <2>1, <3>1
    <3>2. CASE m # n
      <4>1. node[m].remote \in Children /\ node[m].update.children \in Children
        BY DEF TypeOK, NodeType
      <4>2. SavedNext(node[m].remote) /\ SavedNext(node[m].update.children)
        BY <2>1, <2>2, <4>1 DEF SavedInv, AllSaved
      <4> QED BY <1>2, <2>1, <3>2, <4>2 DEF SavedInv, AllSaved
    <3> QED BY <3>1, <3>2
  <2> QED BY <2>3, <2>4 DEF SavedInv, Saved, SavedNext
<1>7. ReadyDurable'
  <2> SUFFICES ASSUME Kept', ~forgot', NEW m \in Nodes, node'[m].readyClosed,
                      NEW p \in Partitions
               PROVE  \E k \in Nodes : p \in manifest'[k]
    BY DEF ReadyDurable
  <2>1. AllSaved
    BY <1>5 DEF AllSaved
  <2>2. CASE node[m].readyClosed
    BY <2>1, <2>2 DEF ReadyDurable, AllSaved
  <2>3. CASE ~node[m].readyClosed
    <3>1. m = n /\ Missing(o) = {}
      BY <1>2, <2>3
    <3>2. p \in o.local \/ \E c \in o.remote : c[1] = p
      BY <3>1 DEF Missing
    <3>3. o.local \subseteq manifest'[n] /\ \A c \in o.remote : c[1] \in manifest'[c[2]] /\ c[2] \in Nodes
      BY <1>5, <2>1 DEF NodeType, Children, SavedNext
    <3> QED BY <3>2, <3>3
  <2> QED BY <2>2, <2>3
<1> QED BY <1>1, <1>3, <1>4, <1>6, <1>7

-----------------------------------------------------------------------------
(* The actions. *)

LEMMA PartitionsInit == Init => PartitionsInv /\ ReadyDurable
<1> SUFFICES ASSUME Init PROVE PartitionsInv /\ ReadyDurable
  OBVIOUS
<1>1. PICK chosen \in [Nodes -> Choices] : node = [n \in Nodes |-> [Off EXCEPT !.selected = chosen[n]]]
  BY DEF Init
<1>2. \A n \in Nodes : chosen[n] \in SUBSET Partitions
  BY PartitionsAssumption
<1>3. \A n \in Nodes :
        /\ node[n] \in NodeType /\ node[n].run = "off" /\ node[n].local = {}
        /\ node[n].remote = {} /\ node[n].ephemeral = {} /\ node[n].update.children = {}
        /\ ~node[n].readyClosed
  BY <1>1, <1>2, Zenon DEF Off, NoUpdate, NodeType, Children
<1>4. TypeOK
  <2>1. manifest \in [Nodes -> SUBSET Partitions]
    BY PartitionsAssumption DEF Init
  <2>2. node \in [Nodes -> NodeType]
    BY <1>1, <1>3
  <2> QED BY <2>1, <2>2 DEF Init, TypeOK, Children
<1>5. MissingExact /\ SessionInv /\ SavedInv /\ ReadyDurable
  BY <1>3, Zenon DEF Init, MissingExact, SessionInv, SavedInv, Saved, ReadyDurable, Owned, Mine
<1> QED BY <1>4, <1>5 DEF PartitionsInv

LEMMA WatchKeeps ==
  ASSUME PartitionsInv, ReadyDurable, NEW n \in Nodes, watchPartitions(n)
  PROVE  PartitionsInv' /\ ReadyDurable'
<1> USE DEF PartitionsInv
<1> DEFINE o1 == [Off EXCEPT !.run = "on", !.selected = node[n].selected, !.seen = zk]
           o2 == remotePartitions(n, o1, zk)
           o3 == [o2 EXCEPT !.local = manifest[n]]
           o == updateMissing(o3)
<1>1. zk \in Children /\ manifest[n] \in SUBSET Partitions /\ node[n] \in NodeType
      /\ session[n] = "up" /\ node[n].run = "off"
  BY DEF TypeOK, watchPartitions
<1>2. /\ o1 \in NodeType /\ o1.run = "on" /\ o1.ephemeral = {} /\ o1.update = NoUpdate
      /\ ~o1.readyClosed /\ o1.local = {}
  BY <1>1, Zenon DEF Off, NoUpdate, NodeType, Children
<1>3. /\ o2 \in NodeType /\ o2.run = "on" /\ o2.ephemeral = {} /\ o2.update = NoUpdate
      /\ o2.remote = {c \in zk : c[2] # n} /\ (o2.readyClosed => Missing(o2) = {}) /\ o2.local = {}
  <2> HIDE DEF o1
  <2> QED BY <1>1, <1>2, RemoteFacts
<1>4. /\ o3 \in NodeType /\ o3.run = "on" /\ o3.ephemeral = {} /\ o3.update = NoUpdate
      /\ o3.remote = {c \in zk : c[2] # n} /\ o3.local = manifest[n]
      /\ o3.readyClosed = o2.readyClosed
  <2> HIDE DEF o2
  <2> QED BY <1>1, <1>3 DEF NodeType
<1>5. Missing(o2) = {} => Missing(o3) = {}
  BY <1>3, <1>4 DEF Missing
<1>6. /\ o \in NodeType /\ o.run = "on" /\ o.ephemeral = {} /\ o.update = NoUpdate
      /\ o.remote = {c \in zk : c[2] # n} /\ o.local = manifest[n]
      /\ o.numMissing = Cardinality(Missing(o))
      /\ o.readyClosed => Missing(o3) = {}
  <2> HIDE DEF o3
  <2> QED BY <1>3, <1>4, <1>5, MissingFacts
<1>7. Missing(o) = Missing(o3)
  BY <1>4, <1>6 DEF Missing
<1>8. node' = [node EXCEPT ![n] = o] /\ UNCHANGED <<zk, orphans, session, manifest, forgot>>
  BY DEF watchPartitions
<1>9. \A c \in zk \ orphans : c[2] # n
  BY <1>1 DEF SessionInv, Owned, Mine
<1> HIDE DEF o1, o2, o3, o
<1>10. SaysSaved(n, o)
  BY <1>6, <1>8 DEF SaysSaved, AllSaved, SavedInv, Saved, SavedNext, NoUpdate
<1>11. Fine(n, o)
  BY <1>1, <1>6, <1>7, <1>8, <1>9 DEF Fine, TypeOK
<1> QED BY <1>10, <1>11, NodeKeeps

\* advertise creates nodes for what o has.
LEMMA AdvertiseKeeps ==
  ASSUME PartitionsInv, ReadyDurable, NEW n \in Nodes, NEW o \in NodeType, o.run = "on",
         o.numMissing = Cardinality(Missing(o)), \A c \in o.remote : c[2] # n,
         o.ephemeral = node[n].ephemeral, o.ephemeral \subseteq o.local,
         node[n].run = "on", o.readyClosed => node[n].readyClosed \/ Missing(o) = {},
         AllSaved => o.local \subseteq manifest[n] /\ Saved(o.remote) /\ Saved(o.update.children),
         advertise(n, o), UNCHANGED <<manifest, forgot>>
  PROVE  PartitionsInv' /\ ReadyDurable'
<1> USE DEF PartitionsInv
<1> DEFINE u == [o EXCEPT !.ephemeral = @ \cup o.local]
<1>1. /\ u \in NodeType /\ u.run = "on" /\ u.local = o.local /\ u.remote = o.remote
      /\ u.numMissing = o.numMissing /\ u.readyClosed = o.readyClosed /\ u.update = o.update
      /\ u.ephemeral = o.local
  BY DEF NodeType
<1>2. Missing(u) = Missing(o)
  BY <1>1 DEF Missing
<1>3. node' = [node EXCEPT ![n] = u]
  BY DEF advertise
<1>4. zk \subseteq zk' /\ zk' \ zk \subseteq o.local \X {n} /\ zk' \in Children
  BY DEF advertise, TypeOK, Children, NodeType
<1>5. /\ session' \in [Nodes -> {"up", "down"}] /\ \A m \in Nodes \ {n} : session'[m] = session[m]
      /\ orphans \subseteq orphans' /\ orphans' \subseteq zk'
  BY <1>4 DEF advertise, sessionEnds, TypeOK
<1>6. ASSUME NEW c \in zk' \ orphans', c[2] = n
      PROVE  session'[n] = "up" /\ c[1] \in o.local
  <2>1. session' = session /\ orphans' = orphans
    BY <1>6 DEF advertise, sessionEnds
  <2>2. CASE c \in zk
    BY <1>6, <2>1, <2>2 DEF SessionInv, Owned, Mine
  <2>3. CASE c \notin zk
    BY <1>4, <1>6, <2>1, <2>3 DEF advertise
  <2> QED BY <2>2, <2>3
<1>7. \A c \in zk' \ orphans' : c[2] # n => c \in zk \ orphans
  BY <1>4, <1>5
<1> HIDE DEF u
<1>8. Fine(n, u)
  BY <1>1, <1>2, <1>3, <1>4, <1>5, <1>6, <1>7, Zenon DEF Fine, TypeOK
<1>9. SaysSaved(n, u)
  BY <1>1, <1>4 DEF SaysSaved, Saved, SavedNext
<1> QED BY <1>8, <1>9, NodeKeeps

LEMMA AdvertisePartitionsKeeps ==
  ASSUME PartitionsInv, ReadyDurable, NEW n \in Nodes, advertisePartitions(n)
  PROVE  PartitionsInv' /\ ReadyDurable'
<1> USE DEF PartitionsInv
<1> DEFINE o == [node[n] EXCEPT !.shouldAdvertise = TRUE]
<1>1. node[n] \in NodeType /\ node[n].run = "on"
  BY DEF TypeOK, advertisePartitions
<1>2. /\ o \in NodeType /\ o.run = "on" /\ o.local = node[n].local /\ o.remote = node[n].remote
      /\ o.numMissing = node[n].numMissing /\ o.readyClosed = node[n].readyClosed
      /\ o.update = node[n].update /\ o.ephemeral = node[n].ephemeral
  BY <1>1, Zenon DEF NodeType
<1>3. Missing(o) = Missing(node[n])
  BY <1>2 DEF Missing
<1>4. advertise(n, o) /\ UNCHANGED <<manifest, forgot>>
  BY DEF advertisePartitions
<1> HIDE DEF o
<1>5. o.numMissing = Cardinality(Missing(o)) /\ \A c \in o.remote : c[2] # n
  BY <1>1, <1>2, <1>3 DEF MissingExact
<1>6. o.ephemeral \subseteq o.local
  BY <1>2 DEF SessionInv
<1>7. AllSaved => o.local \subseteq manifest[n] /\ Saved(o.remote) /\ Saved(o.update.children)
  BY <1>2 DEF SavedInv, AllSaved
<1> QED BY <1>1, <1>2, <1>4, <1>5, <1>6, <1>7, AdvertiseKeeps

\* What the invariants say of one node.
LEMMA NodeFacts ==
  ASSUME PartitionsInv, NEW n \in Nodes
  PROVE  /\ node[n] \in NodeType /\ node = [node EXCEPT ![n] = node[n]]
         /\ node[n].run # "off" => node[n].numMissing = Cardinality(Missing(node[n]))
         /\ \A c \in node[n].remote : c[2] # n
         /\ node[n].ephemeral \subseteq node[n].local
         /\ node[n].run # "on" => node[n].ephemeral = {}
         /\ \A c \in zk \ orphans : c[2] = n => session[n] = "up" /\ c[1] \in node[n].ephemeral
         /\ AllSaved => /\ Saved(zk) /\ node[n].local \subseteq manifest[n]
                        /\ Saved(node[n].remote) /\ Saved(node[n].update.children)
         /\ zk \in Children /\ orphans \subseteq zk
         /\ session \in [Nodes -> {"up", "down"}] /\ manifest \in [Nodes -> SUBSET Partitions]
  BY DEF PartitionsInv, TypeOK, MissingExact, SessionInv, SavedInv, AllSaved, Owned, Mine

LEMMA SaveKeeps ==
  ASSUME PartitionsInv, ReadyDurable, NEW n \in Nodes, saveManifest(n)
  PROVE  PartitionsInv' /\ ReadyDurable'
<1>1. UNCHANGED <<zk, orphans, session, node>>
      /\ manifest' = [manifest EXCEPT ![n] = node[n].selected]
      /\ (~forgot' => ~forgot /\ manifest[n] \subseteq node[n].selected)
  BY Zenon DEF saveManifest
<1>2. manifest' \in [Nodes -> SUBSET Partitions]
  BY <1>1, NodeFacts DEF NodeType
<1>3. AllSaved => \A m \in Nodes : manifest[m] \subseteq manifest'[m]
  BY <1>1, NodeFacts DEF AllSaved
<1>4. Fine(n, node[n])
  BY <1>1, <1>2, NodeFacts DEF Fine
<1>5. \A cs \in Children : AllSaved /\ Saved(cs) => SavedNext(cs)
  BY <1>3 DEF Saved, SavedNext, Children
<1>6. node[n].remote \in Children /\ node[n].update.children \in Children
  BY NodeFacts DEF NodeType
<1>7. SavedNext(zk' \ zk)
  BY <1>1 DEF SavedNext
<1>8. AllSaved => /\ SavedNext(node[n].remote) /\ SavedNext(node[n].update.children)
                  /\ node[n].local \subseteq manifest'[n]
  BY <1>3, <1>5, <1>6, NodeFacts
<1>9. SaysSaved(n, node[n])
  BY <1>1, <1>3, <1>7, <1>8 DEF SaysSaved
<1> QED BY <1>4, <1>9, NodeKeeps

LEMMA LocalKeeps ==
  ASSUME PartitionsInv, ReadyDurable, NEW n \in Nodes, updateLocalPartitions(n)
  PROVE  PartitionsInv' /\ ReadyDurable'
<1> DEFINE r == [node[n] EXCEPT !.local = @ \cup needed(n)]
           o == updateMissing(r)
<1>1. node[n].run = "on" /\ manifest[n] = node[n].selected /\ UNCHANGED <<manifest, forgot>>
      /\ \/ advertise(n, o)
         \/ node' = [node EXCEPT ![n] = o] /\ UNCHANGED <<zk, orphans, session>>
  BY DEF updateLocalPartitions
<1>2. /\ r \in NodeType /\ r.run = "on" /\ r.remote = node[n].remote /\ r.update = node[n].update
      /\ r.ephemeral = node[n].ephemeral /\ r.readyClosed = node[n].readyClosed
      /\ r.local = node[n].local \cup node[n].selected
  BY <1>1, NodeFacts DEF NodeType, needed
<1> HIDE DEF r
<1>3. /\ o \in NodeType /\ o.run = "on" /\ o.remote = node[n].remote /\ o.update = node[n].update
      /\ o.ephemeral = node[n].ephemeral /\ o.local = node[n].local \cup node[n].selected
      /\ o.numMissing = Cardinality(Missing(o))
      /\ o.readyClosed => node[n].readyClosed \/ Missing(r) = {}
  BY <1>2, MissingFacts
<1>4. Missing(r) = Missing(o)
  BY <1>2, <1>3 DEF Missing
<1>5. AllSaved => o.local \subseteq manifest[n] /\ Saved(o.remote) /\ Saved(o.update.children)
  BY <1>1, <1>3, NodeFacts
<1> HIDE DEF o
<1>6. CASE advertise(n, o)
  BY <1>1, <1>3, <1>4, <1>5, <1>6, NodeFacts, AdvertiseKeeps
<1>7. CASE node' = [node EXCEPT ![n] = o] /\ UNCHANGED <<zk, orphans, session>>
  <2>1. Fine(n, o)
    BY <1>1, <1>3, <1>4, <1>7, NodeFacts DEF Fine
  <2>2. SaysSaved(n, o)
    BY <1>1, <1>5, <1>7 DEF SaysSaved, Saved, SavedNext
  <2> QED BY <2>1, <2>2, NodeKeeps
<1> QED BY <1>1, <1>6, <1>7

LEMMA HookKeeps ==
  ASSUME PartitionsInv, ReadyDurable, NEW n \in Nodes, hookWatchChildren(n)
  PROVE  PartitionsInv' /\ ReadyDurable'
<1> DEFINE u == [children |-> zk, fresh |-> TRUE]
           o == [node[n] EXCEPT !.seen = zk, !.update = u]
<1>0. /\ node[n] \in NodeType /\ zk \in Children
      /\ u \in [children : Children, fresh : BOOLEAN] /\ u.children = zk
  BY NodeFacts
<1>1. node' = [node EXCEPT ![n] = o] /\ UNCHANGED <<zk, orphans, session, manifest, forgot>>
  BY NodeFacts DEF hookWatchChildren
<1> HIDE DEF u
<1>2. /\ o \in NodeType /\ o.run = node[n].run /\ o.remote = node[n].remote
      /\ o.numMissing = node[n].numMissing /\ o.update.children = zk /\ o.local = node[n].local
      /\ o.ephemeral = node[n].ephemeral /\ o.readyClosed = node[n].readyClosed
  BY <1>0, Zenon DEF NodeType
<1>3. Missing(o) = Missing(node[n])
  BY <1>2 DEF Missing
<1> HIDE DEF o
<1>4. Fine(n, o)
  BY <1>1, <1>2, <1>3, NodeFacts DEF Fine
<1>5. SaysSaved(n, o)
  BY <1>1, <1>2, NodeFacts DEF SaysSaved, Saved, SavedNext
<1> QED BY <1>4, <1>5, NodeKeeps

LEMMA SyncKeeps ==
  ASSUME PartitionsInv, ReadyDurable, NEW n \in Nodes, sync(n)
  PROVE  PartitionsInv' /\ ReadyDurable'
<1> DEFINE r == remotePartitions(n, node[n], node[n].update.children)
           o == [r EXCEPT !.update = NoUpdate]
<1>1. node' = [node EXCEPT ![n] = o] /\ UNCHANGED <<zk, orphans, session, manifest, forgot>>
  BY DEF sync
<1>2. node[n].update.children \in Children
  BY NodeFacts DEF NodeType
<1>3. /\ r \in NodeType /\ r.run = node[n].run /\ r.local = node[n].local
      /\ r.ephemeral = node[n].ephemeral /\ r.numMissing = Cardinality(Missing(r))
      /\ r.remote = {c \in node[n].update.children : c[2] # n}
      /\ r.readyClosed => node[n].readyClosed \/ Missing(r) = {}
  BY <1>2, NodeFacts, RemoteFacts
<1> HIDE DEF r
<1>4. /\ o \in NodeType /\ o.run = r.run /\ o.local = r.local /\ o.ephemeral = r.ephemeral
      /\ o.numMissing = r.numMissing /\ o.remote = r.remote /\ o.readyClosed = r.readyClosed
      /\ o.update.children = {}
  BY <1>3, Zenon DEF NodeType, NoUpdate, Children
<1>5. Missing(o) = Missing(r)
  BY <1>4 DEF Missing
<1> HIDE DEF o
<1>6. Fine(n, o)
  BY <1>1, <1>3, <1>4, <1>5, NodeFacts DEF Fine
<1>7. SaysSaved(n, o)
  BY <1>1, <1>3, <1>4, NodeFacts DEF SaysSaved, Saved, SavedNext
<1> QED BY <1>6, <1>7, NodeKeeps

LEMMA CloseKeeps ==
  ASSUME PartitionsInv, ReadyDurable, NEW n \in Nodes, close(n)
  PROVE  PartitionsInv' /\ ReadyDurable'
<1> DEFINE o == [node[n] EXCEPT !.run = "closed", !.shouldAdvertise = FALSE,
                                !.ephemeral = node[n].ephemeral \ node[n].local, !.update = NoUpdate]
<1>0. node[n] \in NodeType
  BY NodeFacts
<1>1. /\ node' = [node EXCEPT ![n] = o] /\ UNCHANGED <<session, manifest, forgot>>
      /\ zk' = IF session[n] = "up" THEN zk \ (node[n].local \X {n}) ELSE zk
      /\ orphans' = orphans \cap zk'
  BY DEF close
<1>2. /\ o \in NodeType /\ o.run = "closed" /\ o.remote = node[n].remote
      /\ o.numMissing = node[n].numMissing /\ o.local = node[n].local
      /\ o.ephemeral = node[n].ephemeral \ node[n].local /\ o.readyClosed = node[n].readyClosed
  BY <1>0, Zenon DEF NodeType, NoUpdate, Children
<1>3. Missing(o) = Missing(node[n])
  BY <1>2 DEF Missing
<1> HIDE DEF o
<1>4. o.ephemeral = {} /\ o.numMissing = Cardinality(Missing(o))
  <2>1. node[n].run = "on"
    BY DEF close
  <2> QED BY <1>2, <1>3, <2>1, NodeFacts
<1>5. zk' \subseteq zk /\ zk' \in Children
  BY <1>1, NodeFacts DEF Children
<1>6. \A c \in zk' \ orphans' : c[2] # n /\ c \in zk \ orphans
  <2> SUFFICES ASSUME NEW c \in zk' \ orphans', c[2] = n PROVE FALSE
    BY <1>1, <1>5
  <2>1. c \in zk \ orphans /\ c \in Partitions \X Nodes
    BY <1>1, <1>5, NodeFacts DEF Children
  <2>2. session[n] = "up" /\ c[1] \in node[n].local
    BY <2>1, NodeFacts
  <2> QED BY <1>1, <2>1, <2>2
<1>7. Fine(n, o)
  BY <1>1, <1>2, <1>3, <1>4, <1>5, <1>6, NodeFacts DEF Fine
<1>8. SaysSaved(n, o)
  BY <1>1, <1>2 DEF SaysSaved
<1> QED BY <1>7, <1>8, NodeKeeps

LEMMA DisconnectKeeps ==
  ASSUME PartitionsInv, ReadyDurable, NEW n \in Nodes, disconnect(n)
  PROVE  PartitionsInv' /\ ReadyDurable'
<1>1. /\ UNCHANGED <<zk, node, manifest, forgot>>
      /\ session' = [session EXCEPT ![n] = "down"] /\ orphans' = orphans \cup {c \in zk : c[2] = n}
  BY DEF disconnect, sessionEnds
<1>2. Fine(n, node[n])
  BY <1>1, NodeFacts DEF Fine
<1>3. SaysSaved(n, node[n])
  BY <1>1, NodeFacts DEF SaysSaved, Saved, SavedNext
<1> QED BY <1>2, <1>3, NodeKeeps

LEMMA CrashKeeps ==
  ASSUME PartitionsInv, ReadyDurable, NEW n \in Nodes, crash(n)
  PROVE  PartitionsInv' /\ ReadyDurable'
<1> DEFINE o == [Off EXCEPT !.selected = node[n].selected]
<1>0. node[n] \in NodeType /\ node[n].run = "on"
  BY NodeFacts DEF crash
<1>1. /\ UNCHANGED <<zk, manifest, forgot>> /\ node' = [node EXCEPT ![n] = o]
      /\ session' = [session EXCEPT ![n] = "down"] /\ orphans' = orphans \cup {c \in zk : c[2] = n}
  BY DEF crash, sessionEnds
<1>2. /\ o \in NodeType /\ o.run = "off" /\ o.remote = {} /\ o.local = {} /\ o.ephemeral = {}
      /\ ~o.readyClosed /\ o.update.children = {}
  BY <1>0, Zenon DEF NodeType, Off, NoUpdate, Children
<1> HIDE DEF o
<1>3. Fine(n, o)
  BY <1>0, <1>1, <1>2, NodeFacts DEF Fine
<1>4. SaysSaved(n, o)
  BY <1>1, <1>2 DEF SaysSaved, SavedNext
<1> QED BY <1>3, <1>4, NodeKeeps

LEMMA ExpireKeeps ==
  ASSUME PartitionsInv, ReadyDurable, NEW n \in Nodes, expire(n)
  PROVE  PartitionsInv' /\ ReadyDurable'
<1>1. /\ UNCHANGED <<session, node, manifest, forgot>>
      /\ zk' = zk \ (Mine(n) \cap orphans) /\ orphans' = orphans \ Mine(n)
  BY DEF expire
<1>2. zk' \in Children /\ orphans' \subseteq zk' /\ zk' \subseteq zk /\ zk' \ orphans' = zk \ orphans
  BY <1>1, NodeFacts DEF Mine, Children
<1>3. Fine(n, node[n])
  BY <1>1, <1>2, NodeFacts DEF Fine
<1>4. SaysSaved(n, node[n])
  BY <1>1, <1>2, NodeFacts DEF SaysSaved, Saved, SavedNext
<1> QED BY <1>3, <1>4, NodeKeeps

LEMMA ReconnectKeeps ==
  ASSUME PartitionsInv, ReadyDurable, NEW n \in Nodes, reconnect(n)
  PROVE  PartitionsInv' /\ ReadyDurable'
<1>1. /\ UNCHANGED <<orphans, manifest, forgot>> /\ session' = [session EXCEPT ![n] = "up"]
      /\ zk' = zk \cup (node[n].ephemeral \X {n}) /\ session[n] = "down"
  BY DEF reconnect
<1>2. /\ node[n] \in NodeType /\ zk' \in Children
      /\ \A c \in zk' \ zk : c[1] \in node[n].ephemeral /\ c[2] = n
  BY <1>1, NodeFacts DEF NodeType, Children
<1>3. \A c \in zk' \ orphans' : IF c[2] = n THEN session'[n] = "up" /\ c[1] \in node[n].ephemeral
                                ELSE c \in zk \ orphans
  BY <1>1, <1>2, NodeFacts
<1>4. AllSaved => SavedNext(zk')
  BY <1>1, <1>2, NodeFacts DEF Saved, SavedNext
<1>5. CASE node' = node
  <2>1. Fine(n, node[n])
    BY <1>1, <1>2, <1>3, <1>5, NodeFacts DEF Fine
  <2>2. SaysSaved(n, node[n])
    BY <1>1, <1>4, <1>5, NodeFacts DEF SaysSaved, Saved, SavedNext
  <2> QED BY <2>1, <2>2, NodeKeeps
<1>6. CASE node[n].run = "on"
  <2> DEFINE u == [children |-> zk', fresh |-> TRUE]
             o == [node[n] EXCEPT !.seen = zk', !.update = u]
  <2>1. node' = [node EXCEPT ![n] = o]
    BY <1>6 DEF reconnect
  <2>2. u \in [children : Children, fresh : BOOLEAN] /\ u.children = zk'
    BY <1>2
  <2> HIDE DEF u
  <2>3. /\ o \in NodeType /\ o.run = node[n].run /\ o.remote = node[n].remote
        /\ o.numMissing = node[n].numMissing /\ o.update.children = zk'
        /\ o.local = node[n].local /\ o.ephemeral = node[n].ephemeral
        /\ o.readyClosed = node[n].readyClosed
    BY <1>2, <2>2, Zenon DEF NodeType
  <2>4. Missing(o) = Missing(node[n])
    BY <2>3 DEF Missing
  <2> HIDE DEF o
  <2>5. Fine(n, o)
    BY <1>1, <1>2, <1>3, <2>1, <2>3, <2>4, NodeFacts DEF Fine
  <2>6. SaysSaved(n, o)
    BY <1>1, <1>4, <2>3, NodeFacts DEF SaysSaved, Saved, SavedNext
  <2> QED BY <2>5, <2>6, NodeKeeps
<1> QED BY <1>5, <1>6 DEF reconnect

-----------------------------------------------------------------------------
(* The theorems. *)

LEMMA PartitionsStep == PartitionsInv /\ ReadyDurable /\ [Next]_vars => PartitionsInv' /\ ReadyDurable'
<1> SUFFICES ASSUME PartitionsInv, ReadyDurable, [Next]_vars PROVE PartitionsInv' /\ ReadyDurable'
  OBVIOUS
<1>1. CASE UNCHANGED vars
  <2>1. UNCHANGED <<zk, orphans, session, node, manifest, forgot>>
    BY <1>1 DEF vars
  <2>2. TypeOK'
    BY <2>1 DEF PartitionsInv, TypeOK
  <2>3. MissingExact'
    BY <2>1 DEF PartitionsInv, MissingExact, Missing
  <2>4. SessionInv'
    BY <2>1 DEF PartitionsInv, SessionInv, Owned, Mine
  <2>5. SavedInv'
    BY <2>1 DEF PartitionsInv, SavedInv, Saved, Kept
  <2>6. ReadyDurable'
    BY <2>1 DEF ReadyDurable, Kept
  <2> QED BY <2>2, <2>3, <2>4, <2>5, <2>6 DEF PartitionsInv
<1>2. ASSUME NEW n \in Nodes, Work(n) \/ close(n) PROVE PartitionsInv' /\ ReadyDurable'
  BY <1>2, WatchKeeps, AdvertisePartitionsKeeps, SaveKeeps, LocalKeeps, HookKeeps, SyncKeeps,
     CloseKeeps, ExpireKeeps, ReconnectKeeps DEF Work
<1>3. ASSUME NEW n \in Failing, disconnect(n) \/ crash(n) PROVE PartitionsInv' /\ ReadyDurable'
  BY <1>3, DisconnectKeeps, CrashKeeps, PartitionsAssumption
<1> QED BY <1>1, <1>2, <1>3 DEF Next

\* In every cluster, whatever crashes and whatever sessions are lost, the cached
\* number of missing partitions is exact, a watcher re-creates only what its node
\* has, and what is said to be somewhere is in a manifest there.
THEOREM PartitionsSafe == Spec => []PartitionsInv
<1>1. Spec => [](PartitionsInv /\ ReadyDurable)
  BY PartitionsInit, PartitionsStep, PTL DEF Spec
<1> QED BY <1>1, PTL

\* A node advertises what it has, and a removed version is advertised no more
\* (advertisePartitions, unadvertisePartitions, runHooks).
THEOREM AdvertisementsAreHeld == Spec => []AdvertisedIsHeld
<1>1. PartitionsInv => AdvertisedIsHeld
  BY DEF PartitionsInv, SessionInv, AdvertisedIsHeld
<1> QED BY <1>1, PartitionsSafe, PTL

\* A version that a node has found ready is on the cluster's disks as a whole
\* (updateMissing closes ready; watchPartitions reads, saveManifest writes them).
THEOREM ReadyIsDurable == Spec => []ReadyDurable
<1>1. Spec => [](PartitionsInv /\ ReadyDurable)
  BY PartitionsInit, PartitionsStep, PTL DEF Spec
<1> QED BY <1>1, PTL
=============================================================================
