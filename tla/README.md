# A formal model of sequins

Sequins serves versions of key/value datasets that batch jobs publish in a
directory tree (local, HDFS, S3). A cluster shards each version over its nodes:
every node picks partitions from a hash ring, loads them to local disk,
advertises them in zookeeper, and proxies requests for the others. When a newer
version is complete in the cluster, every node switches to it on its own, keeps
the old one for a while for its peers, then closes and deletes it.

What is hard to get right is not any single function but the meeting of many
goroutines (requests, refreshes, builds, upgrades, removals, watches) over the
life of a version, and of many nodes with stale views of each other. The modules
here keep the control flow of the code (locks, critical sections, channels,
early returns, failures) and abstract the data: a version is a number, a
directory is one of four states, a served key is the pair of its partitions.

## Parts, modules and interactions

| Part | Code | Modules |
|---|---|---|
| version mux: reference counts, removal timers | `version_mux.go` | `VersionMux`, abstract: `Lease`, proofs: `VersionMuxProofs` |
| db: backfill, refresh, switch, upgrade, remove | `db.go`, `version.go`, part of `sequins.go` | `DB` (uses `VersionMux`), proofs: `DBProofs` |
| building, closing, deleting, cleaning the disk | `build.go`, `version.go`, `db.go`, `multilock/` | `Build`, proofs: `BuildProofs` |
| the block store of a version: blocks, manifest, crashes | `blocks/block_store.go`, `manifest.go`, `block_writer.go`, `build.go` | `BlockStore`, `MCBlockStore`, proofs: `BlockStoreProofs` |
| reading a file, the skip heuristic | `build.go` | `AddFile` |
| hash codes and partitions of keys | `blocks/hashcode.go` | `KeyPartition` (extended by `AddFile`) |
| peers, the ring, choosing partitions | `peers.go`, `partitions.go` | `Sharding`, `MCSharding`, proofs: `ShardingProofs` |
| the partition map, zookeeper sessions | `partitions.go` | `Partitions`, proofs: `PartitionsProofs` |
| the zookeeper watcher: main loop, watches, callers, close | `zk_watcher.go` | `ZkWatcher`, proofs: `ZkWatcherProofs` |
| proxying one request | `proxy.go` | `Proxy` (extended by `Serve`) |
| answering one request | `sequins.go` (`ServeHTTP`), `serve.go`, `blocks/block_store.go` | `Serve`, proofs: `ServeProofs` |

How they fit together:

- `DB` instantiates `VersionMux` and calls its operators, which carry the code's
  own conditions only. The rules under which the mux is correct (a version is
  prepared once, only newer versions become current, only old ones are removed)
  are stated in `VersionMux`'s `Next`; `DB!MuxContract == Mux!Spec` says that the
  db obeys them (checked and proved), so that everything proved of the mux holds
  of the db.
- `VersionMux` implements `Lease`: versions are taken, given back and closed,
  never closed while taken nor taken after.
- `Build` takes from `DB` that an upgrade or the end of a removal may come at any
  moment, and shows what that does to disk and builds. What `Build` has as one
  step, `Save` or `Revert` on a directory that is `junk` or `saved`, is taken
  apart in `BlockStore`, write by write.
- `ZkWatcher` shows what `Partitions` and `Sharding` take from `zk_watcher.go`:
  ephemerals are created again after a reconnection, a watch ends up with the
  children as they are, and never goes back, as long as it has one goroutine.
- `Sharding` shows that every partition is chosen by someone, which
  `Partitions` starts from; `Partitions` shows that the map is honest, which
  `Serve` starts from (`have` is exact). `AddFile!KeyHasHome` is what `Serve`
  assumes of where a key was stored; `KeyPartition` is why a key has two
  partitions.

## State and actions

**VersionMux.** `versions` (keys of the map), `closeTimer` and `count` per
version, `currentVersion` (a *copy* of the map's entry, as in the code), `req`
(where each request is), `rm` (where each call of `remove` is). One action per
critical section of `mux.lock`: `getCurrent`, `getVersion`, `release`,
`prepare`, `upgrade`, and `remove` in four (`removeBegin`, `removeArm`,
`removeDelete`, `removeReturn`). `release` looks the version up in the map and
does nothing if it is gone, as the code does. `removing` is set on a copy
and stored only when a timer is armed, so idempotence rests on there being one
remover at a time, which is `cleanupLock`. `Tick` is the clock; `quiet`,
`prepared`, `retired` and `returned` are history.

**DB.** `refresher` is the holder of `refreshLock` (backfill, refresh or close)
with its program counter, `up` the holder of `upgradeLock` between the switch and
the sweep, `removals` and `cleanup` the goroutines of `removeVersion`, `vs` the
version objects with their channels `ready` and `cancel`. `panicked` records the
panics of `prepare`, `mustGet` and of closing a closed channel. The reference
that `upgrade` takes for a moment is left out: the current version cannot be
removed while `upgradeLock` is held. `refresh`'s own reference is kept, because
an upgrade can come in between. Upstream listings, `newVersion` and builds may
fail.

**Build.** `disk` per version is `none`, `empty`, `junk` (blocks, no manifest) or
`saved`; `build` is where the holder of `vs.buildLock` is among the version's
lock, the db's lock, the slots of the multilock, the files, `Save` and `Revert`.
`missed` records the versions that were on disk and that `backfillVersions` did
not open, because upstream hid them or `newVersion` failed. Versions without
files are not modelled here.

**KeyPartition.** Operators only: `hashCode`, `partitionsOf` and
`alternatePathologicalKeyPartition` in an int of `2*Half` values that wraps as
the code's `int32` does. External: `String_hashCode`, Java's polynomial, and
`Reducer`, the file to which hadoop or cascading sends a key.

**AddFile.** The loop of `addFileKeys` at every node at once, key by key, with
`canAssumePartition`, `assumedPartition` and `assumedFor`. The file is any
sequence of keys that a reducer of hadoop or cascading would write; hashes near
the ends of their range are rare, so no more than `Threshold` keys differ from
the rest in their normal partition. `below` records a key whose hash is within
31 below zero.

**Sharding.** Zookeeper's list of nodes, each node's delayed copy, the ring
made of it, and what it selected. The hash ring is external: for each partition
some order of the shards, the same everywhere (`rank`).

**Partitions.** `zk` is the set of ephemerals, `orphans` those of sessions that
ended but have not expired, `node` each node's `partitions` object with the
update its watch goroutine may hold, `manifest` what is on disk, `forgot` that a
`Save` has dropped partitions that an earlier ring had chosen. The process
crashes, sessions end and expire. Re-creating an ephemeral that exists is an
error that resets the connection, as `hookCreateEphemeral` and `run` have it.

**ZkWatcher.** `conn`, `tree` and `children` are zookeeper's side: the
connection (up, connecting again, dead, or `late`, one that connected after
`reconnect` had given up on it), the ephemerals and a number that stands for a
node's children. `run` is where the main loop is (`select`, the two selects'
outcomes, `cancelWatches`, `reconnect`, `runHooks`), `errs` its channel of one
place, `closing` the caller of `close` that holds the write lock, `hooksLock`
and `call` the other callers, `loops` how many goroutines of each watch are in
each state: what one waits for and the event its one-shot watch has for it
(goroutines of a watch in the same state behave alike). One action
per channel operation or lock; `reconnect`, which holds the write lock
throughout, is one step. `doubled` records that a watch has got a second
goroutine.

**BlockStore.** `onDisk` and `content` are the block files, `manifest` is none,
torn (created, not yet written) or written; `newBlocks`, `Blocks` and `saved`
are the store's maps, `pc` the build. A build reads files one after the other,
saves blocks one after the other, creates and writes the manifest; each may
fail, and the process may crash between any two, to be started with another
choice of partitions. `halfSaved` records a `Save` that failed between two
blocks.

**Proxy, Serve.** One call of `proxy`: attempts and their outcomes, `outstanding`,
cancelled contexts, the four cases of the `select`. `Serve` adds the placement of
partitions, the key, nodes that go down or drop the db and the status of the
response. A peer answers by its own `ServeHTTP`: 501 without the db, 500 if it
was asked in error, what its blocks say otherwise.

## Runs

`X.cfg` is checked with `tlc -config X.cfg M`. In passing runs all named
properties hold; runs of the second table show, by a counterexample, that the
code does not do what a comment or the manual says (PROJECT.json quotes it).

| cfg | Module | Properties | Instance |
|---|---|---|---|
| MCVersionMux | VersionMux | MuxInv TimerHonoured RemoveIdempotent ImplementsLease | 3 versions, 2 requests, 1 remover, timeout 2 |
| DBCluster | DB | NoPanic ServedOpen RollForward MuxContract | 3 versions in a cluster |
| DBLone | DB | DBInv LatestServed | 2 versions, lone node, 1 client, the db may be dropped, fair |
| Build | Build | LocalOnDisk GoneStaysGone BuildInv CloseHappens | 2 versions, 1 slot shared with other dbs, directories of an earlier process, fair |
| MCBlockStore | MCBlockStore | ClaimedComplete RestartSafe ManifestLoads StoreInv BuiltInTheEnd | 2 partitions, 2 files, 4 keys, one of them of two partitions, 3 faults, fair |
| AddFile | AddFile | FileInv KeyHasHome | 2 nodes, up to 4 partitions, 7 keys of up to 2 bytes, 10-bit hashes, threshold 2 |
| MCSharding | MCSharding | RingInv ClosestSelect FullyReplicated | 3 nodes and shards, replication 2 |
| Partitions | Partitions | AdvertisedIsHeld ReadyDurable PartitionsInv ReadyHappens MirrorConverges | 2 nodes, 2 partitions, 1 crash or lost session, removals, manifests of another sharding, fair |
| ZkWatcher | ZkWatcher | ZkInv NoReplay RunReturns ChangeDelivered Settles CloseReturns | 1 watch, 1 ephemeral, 1 change, 2 hiccups, lost sessions or failed reconnections, fair |
| Serve | Serve | WinnerOnly NotFoundHonest BadGatewayHonest ServeInv RequestEnds | 3 nodes, one without a valid address, 2 partitions in any placement, any key, fair |

| cfg | Refuted | What happens |
|---|---|---|
| MCVersionMuxLeak | RemoveReturns | a request ends after its version left the map, `release` finds no counter, `remove` waits for ever |
| DBDropPanic | NoPanic | `db.close` wakes a waiting upgrader, whose removal closes a version again |

Every property of a passing run has a mutant, an operator marked "Mutant" before
the definition it would replace (a dropped guard, a missing reset, a swapped
order), under which TLC refutes the property. The invariants named `...Inv`
contain the module's `TypeOK` and, where there are proofs, are the inductive
invariants of them; narrower properties are listed beside them where they are
what a user of the component would ask for. `DBInv` contains `NoOrphan` (an older
version has somebody to remove it) and implies `ServedOpen`: in `DBCluster` the
only request is the one of `refresh`, in `DBLone` there is a client's as well.
`FileInv` of `AddFile` is `TypeOK`
and that a reducer's file is recognised, `ZkInv` is `TypeOK`, `CancelHeard`,
`ClosedOnce` and `FewGoroutines`; the inductive
invariant for it is `WatchInv`.

### Bounds

Three versions are the least for one current, one old and one newer version at
once, and for two that get ready out of order; `DBLone` has two, one of which
replaces the other under a request. Two requests suffice for a count
that differs from a flag, and for one late and one early request. A timeout of
two ticks tells a reset timer from one that is not. Two versions in `Build` make
one obsolete the other; one slot makes the multilock contended; an earlier
process has left a version saved or not at all (empty directories and blocks
without a manifest come up in the run itself, and nothing tells old from new
there). Two nodes and partitions let a partition be on none, one or both; at the
start a manifest has none, one or all of the partitions. `Failing` is one of
the two nodes, which with one failure in all loses nothing, since the nodes are
interchangeable. The hash's word is small enough for all sign changes to happen
within two bytes; the constants of the code that matter (31, 32, the masks) are
kept. `MaxBuilds` caps goroutines that would find nothing to do; `MaxLosses`
caps crashes. In `ZkWatcher` two losses give a second fault while the first is
being handled, and one change is what can be missed; two watches meet only in
`run`'s loops over them. Three faults in `BlockStore` are a failed `Save`, a
failed retry and a crash, with two blocks for `Save` to fail between. The threshold of 5000 keys is 2, of at most 7 keys.

Deadlock is checked where the system goes on for ever; runs of a single request
or file, of a dropped db and of a removed version end.

### Fairness

Weak fairness of goroutines that can go on, of the clock, and of requests (which
end by their timeouts). `refresh` is called by a ticker. Strong fairness is
assumed where something may fail but not always (`DB`), where a Go mutex or
channel is contended (`Build`; neither starves a waiter), and for the select
case of a timer that has fired (`Serve`: Go picks among ready cases at random).
Peers are not assumed to answer. In `ZkWatcher` the goroutines go on, zookeeper
comes back and expires what it does not hear of, and the reader of `updates`
(`sync` of `partitions.go` and `peers.go`) keeps reading; strong fairness of that
reader is Go's choice among ready cases. `BlockStore` needs only that something
goes on: faults are bounded. `ReadyHappens` and `MirrorConverges` are stated
for a version that no node removes, `LatestServed` for a db that is not dropped.

## Proofs

`VersionMuxProofs` proves, for any finite set of requests and any sets of
versions and timeouts, that `VersionMux!Spec` implies its type correctness,
`CountExact`, `RemovedUnused`, `CurrentHeld`, `TimerHonoured`,
`RemoveIdempotent` and that it implements `Lease`. The inductive invariant
`MuxInv` adds to `TypeOK`:

- `CountCovers` and `CountExact`: the count of a version is at least the number of
  its holders, and exactly that while the version is in the map. Both halves are needed: a
  leaked reference makes the count too large for ever, which is harmless to
  safety (it is `RemoveReturns` that fails), and `removeReturn`'s guard on zero
  gives "no holders" only because the count never undercounts.
- `MapInv`, `HeldInv`: what is held was prepared and not yet returned; what has
  been returned has left the map.
- `RemoverInv`: a remover past `removeBegin` owns its version; until the delete
  the version is in the map, after it no one can acquire it.
- `TimerInv`: an armed timer belongs to the remover that waits for it, and the
  time left and the time since the last request add up to the timeout.
- `CurrentInv`: the copy of the current version has no timer and no remover.

`MuxInvStep` has one lemma per action; counts are related to holders by lemmas on
cardinalities (`HoldersTake`, `HoldersGive`, `HoldersSame`).

`DBProofs` proves, for any finite sets of versions and clients, in a cluster or
not, `DBInv`, `MuxContract`, `RollForward` and `ServedOpen`, and `NoPanic` for a
db that is not dropped (for one that is, `DBDropPanic` refutes it). The mux's
contract and the db's own invariant need each other: the db keeps the contract
because of what it knows of ages and goroutines, and knows it only because the
mux behaves. So `DBInv` contains the mux's `MuxInv` and is carried one step at a
time: from `DBInv` each action is shown to be a step that `VersionMux` allows and
to keep the db's part (`OwnStep`); the mux's part is then kept by the lemma
`MuxInvStep` of `VersionMuxProofs`, which is instantiated at the end. The db's
part is:

- `AgeInv`: whatever is removed, or about to be, is older than the current
  version. This is why `upgrade` never meets a version that is gone, and why the
  sweep may remove what it found without holding a lock.
- `RefreshInv`: the holder of `refreshLock` prepares a version once.
  `backfillVersions` goes down a listing none of which is prepared yet; `refresh`
  takes the newest version upstream, which is in the mux if it ever was prepared,
  because nothing newer could have made it old.
- `CleanupInv`, `CloseInv`: `cleanupLock` is held by one remover, and only what
  `mux.remove` returned is closed, once, until `db.close` comes.
- `NoOrphan`.

`ShardingProofs` proves that rings are well formed (`RingInv`) and, assuming
that nodes wait for a first list (`Patient`), `ClosestSelect`: however stale or
partial its list of nodes was, a node of one of the closest shards has chosen the
partition. The argument is `ClosestInSubring`: a shard among the n closest of all
shards is among the n closest of any subset that holds it. From it follows
`FullyReplicated` (theorem `ReplicatesFully`): there are n closest shards, or all
of them (`GetNEnough`, since of the shards not taken one is closest), and a node
of each has chosen the partition.

`BlockStoreProofs` proves, for any keys, partitions, files and number of faults,
`ClaimedComplete`, `RestartSafe` and `ManifestLoads`. `StoreInv` adds to the type
of the variables: `DataInv`, what each set of blocks holds at each point of a
build (new blocks: what is needed of the files read so far; `Blocks`, when the
manifest is to be written: all that is needed; a manifest: all it claims);
`CountInv`, which dates blocks by the number of their build, so that what `Revert`
deletes is newer than what a manifest names; `FileInv`, that files of `Blocks` and
of the manifest are on disk until a `Save` is cut short.

`ServeProofs` proves, for any nodes, partitions, keys and placement,
`WinnerOnly`, `NotFoundHonest` and `BadGatewayHonest`. `ServeInv` contains the
books of the proxy loop (`ProxyInv`: `outstanding` counts the attempts that have
not been received, and the loop gives up only when nobody is left), that every
answer under way is what `Get` says at the peer that gave it (`AnswersTrue`), and
that a peer that was asked is running, has answered or can never answer
(`Exhausts`).

`PartitionsProofs` proves, for any nodes, partitions and number of failures,
`AdvertisedIsHeld` and `ReadyDurable`. `PartitionsInv` contains `MissingExact`
(the cached number is exact), `SessionInv` (what a session owns is what its
watcher would create again, and the node has it) and `SavedInv`: whatever is said
to be at a node, in zookeeper, in an update under way or in a mirror, however
stale, is in a manifest there. The last is what makes stale mirrors harmless.

`BuildProofs` proves for any versions and number of slots
`LocalOnDisk` and `GoneStaysGone`. `BuildInv` contains `SwitchInv` (backfilling
goes down from the newest version and is over before `cleanupStore` begins),
`VersionInv` (a version's object, directory and build at each point of its life),
`CleanerInv` (what is removed or cleared is out of the mux for good) and
`LockInv` (one holder of the db's lock). Its hardest case is `cleanupStore`
against a version that was listed before it was prepared: it is safe because
every such version is older than the current one, is in the mux, or was missed.

`ZkWatcherProofs` proves, for any nodes and any number of changes and faults,
`CancelHeard`, `ClosedOnce` and `NoReplay`. `WatchInv` contains `LockInv` (who
holds `hooksLock`, and that the watches `run` has yet to handle stay watched
while it does), `HeardInv` (a watched node has a goroutine, except between
`cancelWatches` and the hook that sets the watch again) and `OnceInv`: a channel
is closed only after `removeWatch`, and as long as no watch has had a second
goroutine, the one there is closes it and offers nothing older than what the
reader has. `HeardInv` is what keeps `run` from waiting for ever with the lock:
a goroutine ends only when `run` or `removeWatch` tells it to, so whoever removes
the last one also removes the watch or is about to set it again. `WatchInv`
implies `ZkInv` but for `FewGoroutines`; TLC also finds it to hold on the instance
of the run `zk_watcher`, which lists `ZkInv`, what a user would ask for.

The assumptions of all theorems are the named ASSUMEs of the modules (sets are
finite where something is counted, partitions of keys are partitions, bounds are
numbers); TLC evaluates them in every run.

Only model-checked: the liveness properties, `FewGoroutines` of `ZkWatcher`, and
`FileInv` and `KeyHasHome` of `AddFile`. Liveness under fairness is beyond the
prover. `FewGoroutines` needs an invariant of its own, which counts goroutines
against faults at each point of a reconnection. Also beyond the prover is what `AddFile` rests on: that `hashCode` agrees with Java's
polynomial for every key is an induction over the bytes of the key.

## Hard behaviours and their properties

PROJECT.json lists the hazards by source line. In short: requests against
removals (`ImplementsLease`, `ServedOpen`), versions ready out of order
(`RollForward`, `DBInv`), cancelled builds (`GoneStaysGone`, `BuildInv`,
`CloseHappens`), failed and repeated builds (`ClaimedComplete`, `BuiltInTheEnd`),
crashes and sessions (`RestartSafe`, `AdvertisedIsHeld`, `ReadyDurable`,
`MirrorConverges`), reconnections (`ZkInv`, `RunReturns`, `ChangeDelivered`,
`NoReplay`, `Settles`, `CloseReturns`), partial views (`ClosestSelect`), racing
answers and timeouts (`ServeInv`, `WinnerOnly`, `RequestEnds`), wrapping hashes
and skipped files (`FileInv`, `KeyHasHome`).

### Other disagreements met while modelling

Besides the two refuted properties, the modules contain behaviours that differ
from a comment or the manual, or that a property had to leave out:

- `refresh`'s own reference to the current version is lost like a request's, if
  an upgrade's removal comes between `getCurrent` and `release` (`db.go:93`).
- `db.close` closes versions that requests hold (`db.go:281`); `ServedOpen` is
  stated up to that.
- A version removed between `prepare` and `advertisePartitions` stays advertised
  (`db.go:143`, against `partitions.go:187-190`).
- A failed or cancelled build leaves an empty directory (`build.go:50-51`);
  `GoneStaysGone` allows for it.
- Nothing is checked under the db-wide lock (`build.go:31`), and a backfill
  starts downloads (`db.go:59`).
- `cleanupStore` may delete the directory of a version that was on disk but that
  `backfillVersions` did not open; `LocalOnDisk` leaves these (`missed`) out.
- After a change of the ring, `Save` forgets partitions that are local but no
  longer selected; `ReadyDurable` is stated up to that (`forgot`).
- A missing key of a partition without any key is a 500 (`serve.go:27`), a 404
  in the manual.
- A file that starts with many keys of one partition and goes on with others, as
  no reducer would write it, loses the others (`build.go:165`).
- A node that stops waiting before a first list of nodes has come has an empty
  ring and picks nothing (`peers.go:155`); `Patient` excludes it. Nodes of one
  shard that see different nodes choose different partitions.

- A node that has one of the two partitions of a pathological key looks it up
  locally only, and answers 404 though a peer has it (`serve.go:24`; the manual,
  1-4: "you can query any node in the cluster for any key"). `NotFoundHonest` is
  stated for keys of one partition.
- The alternate partition is computed for hashes close to the maximum, not for
  those within 31 below zero, where adding 31 changes the sign as well
  (`blocks/hashcode.go:80`, against the comment at 66-72). Such a key is lost when
  it is met in a file that is being skipped; `KeyHasHome` leaves it out (`below`).
- `Revert` after a `Save` that failed between two blocks deletes files that are in
  `Blocks` already (against the comment at `blocks/block_store.go:138-141`). The
  retry's manifest names them, does not load after a restart, and all is built
  again; `ManifestLoads` is stated up to that (`halfSaved`).
- `close` of the watcher keeps the write lock while it waits for `run`
  (`zk_watcher.go:413`), and hangs if `run`, a hook, a caller or a watch goroutine
  wants that lock: `CloseReturns` says that it hangs in no other case. After a
  shutdown in the middle of a reconnection the last `cancelWatches` waits for ever
  for goroutines that are gone.
- A watch goroutine that met a bad event drops what it gets from `cancel`
  (`zk_watcher.go:328`), so that `removeWatch` does not lead to the closing of
  `updates`, which the comment at 302-306 and `zk_watcher_test.go:177` expect.
- A watch that is set while the connection is down, between `reconnect` and
  `runHooks`, or once more after hooks that failed halfway, gets two goroutines
  (against `zk_watcher_test.go:149`, "there should only be a single watch open").
  From then on stale children may be replayed, reconnections may follow each
  other for ever and `removeWatch` may close a channel twice; `NoReplay`,
  `Settles` and `ClosedOnce` are stated up to that (`doubled`).
- The error of `Delete` is dropped by `removeEphemeral`, and after five attempts
  without a parent node `hookCreateEphemeral` reports success.

Known to be outside of the model: the unlocked `updateMissing` at the end of
`watchPartitions`; a version that vanishes upstream and is published again under
its name; the manifest's omission of compression and block size.

## Not modelled

- `sequins.go`: `init`, `start` and `shutdown` are straight-line code. `refreshAll`
  is modelled for one db that stays or goes. A db that is dropped and comes back
  is a second object over the directories of the first, whose refreshes, builds
  and removals may still run (`sequins.go:233`): its states are pairs of states of
  `DB` and `Build`, which are at the limit of what TLC explores as they are.
- A peer that has removed the version it is asked for answers from its current
  one (`version_mux.go:74`): `Serve` has one version and an exact partition map.
  It can happen if the map is stale, and then a client may see a newer version
  before its node serves it.
- `status.go`: it reads the state of the other parts, and no other part reads what
  it writes (`setState`). Met while reading: `TargetReplication` is never set, so
  that `UnderreplicatedPartitions` is always 0; a node is shown as AVAILABLE, with
  the partitions it has selected, before it has loaded any; ERROR stays after a
  retry has succeeded.
- `config.go`, `main.go`, `debug.go`: parsing, start-up and counters; the values
  that matter are CONSTANTS.
- The backends (`backend/`), block files, `blocks/iterpool.go` and
  `blocks/record.go`: pure I/O behind the listings, `Add` and `Get` of the modules.
- The zookeeper library and server, the hash ring, hadoop and cascading are
  external and modelled from how the code uses them.
