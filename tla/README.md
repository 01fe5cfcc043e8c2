# TLA+ models of the distributed cache

The repository is a distributed cache in Go. Every node runs the same program:
groups of cached entries in front of a data source, a local store, gRPC calls to
the peers that own a key, and etcd for membership. This directory models the
parts of it in which order, concurrency or failure decide whether the answer is
right, checks the models with TLC on small instances, and proves the central
invariants with TLAPS for every size.

All source paths below are relative to `src/cache/`.

## 1. Inventory

| Part | Source | State | Operations |
|---|---|---|---|
| Group | `group.go` | `mainCache`, `closed`, `done`, `syncTasks`, counters | `Get`, `Set`, `Delete`, `Close`, `load`, `loadData` |
| Sync worker pool | `group.go:233-408` | the channel `syncTasks`, four workers, `done` | offer of a task by `Set`/`Delete`, `syncWorker`, `processSyncTask` |
| Group table | `group.go:17-20, 411-448, 579-624` | `groups` under `groupsMu` | `NewGroup`, `GetGroup`, `DestroyGroup`, `DestroyAllGroups`, the end of `Close` |
| singleflight | `singleflight/singleflight.go` | a `sync.Map` of call objects | `Do`, `doCall` |
| ClientPicker | `peers.go` | `clients`, `consHash`, goroutines of migrations and removals | fetch, watch, `PickPeer*`, `GetAllPeers`, `Close` |
| Data migration | `peers.go:293-502` | none of its own | `MigrateDataAway`, `migrateDataToNewNode`, `migrateDataFromLeavingNode` |
| Hash ring | `consistenthash/` | sorted `keys`, `hashMap`, `nodeReplicas`, unhealthy set, request counts | `Add`, `Remove`, `Get*`, `Mark*`, balancer |
| gRPC client, server | `client.go`, `server.go` | connections; the server's lease | `Get`, `Set`, `Delete`, `Start`, `Stop`, `GracefulShutdown` |
| Registry | `registry/registry.go` | a leased key in etcd | `Register`, keep-alive |
| Cache | `cache.go` | `store`, flags `initialized` and `closed` | `Add*`, `Get`, `Delete`, `Clear`, `Len`, `Keys`, `Close` |
| lru2 store | `store/lru2.go` | per bucket two lists in arrays; a clock | `Get`, `GetValue`, `Set*`, `Delete`, `Clear`, `cleanupLoop` |
| lru store | `store/lru.go` | map, linked list, expirations, byte count | `Get`, `Set*`, `Delete`, `Clear`, `evict`, `cleanupLoop`, `Close` |
| Bloom filter | `bloomfilter/bloom.go` | bit array | `Add`, `Contains`, `Reset` |
| ByteView, `pb/`, example | | none | |

How they interact. `Group.Get` looks into `Cache`, and on a miss enters
singleflight; the leader asks the primary and then the replica of the key
(`PickPeerWithFallback` over the ring) and at last the getter, and every caller
adds the value to its own cache. A peer that is asked runs `Group.Get` itself.
`Group.Set` and `Group.Delete` write the local cache and put a task into the
channel without ever waiting; a worker carries a set to the two picked peers and
a delete to all, with a mark (`from_peer`) that keeps the receiver from passing
it on. Membership changes arrive as etcd events, put nodes on the ring unhealthy
and start migrations that make them healthy: every node sends the newcomer its
copies of the keys that are now the newcomer's. A node that shuts down gracefully
sends its copies to the two nodes next on the ring first. Handlers find their group
in the table `groups`; a group with a bloom filter answers "not found" for a key the
filter has not seen.

What is hard, and what makes each part right:

* **singleflight**: a newcomer between `wg.Done` and `m.Delete`; a `fn` that
  panics. Right: one `fn` per key at a time, no waiter without outcome, no key
  blocked for good, every `Do` returns.
* **Worker pool**: `Close` against requests that have passed their check; a full
  channel; an RPC that hangs (`Client.Set` has no deadline). Right: a task is
  processed once or dropped, none that was there at `Close` is left, requests
  never block.
* **Propagation and migration**: every node leaves itself out of its ring, RPCs are
  lost or served after their caller has given up, copies are sent to nodes that join
  and by nodes that leave while clients write. Right: owners hold the last set, also
  after a join or a leave; a new node has its keys before it is asked for them; no
  copy survives a delete; calls do not echo for ever and every migration ends.
* **Get across nodes**: two nodes that miss the same key call each other and each
  handler joins the flight that waits for it. Right: the deadline ends the circle
  and no failure of a peer becomes an error of `Get`.
* **Membership**: a migration that ends after its node has left. Right: no node is
  routed to before its migration, discovered nodes go online, leavers go, and no
  registered node stays unknown without a reason.
* **Ring**: any sequence of joins and departures. Right: exactly the members
  answer, each key's order never depends on third nodes, the replica takes over.
* **Stores**: links, maps and counters that must agree after any sequence; two
  copies of one key of different age; `Get` that locks twice.
* **Cache**: creation by whichever `Add` comes first, and `Close` in between.
* **Group table and filter**: groups replaced, closed and destroyed under calls that
  go on; the filter is written after the cache. Right: a closed group is not given
  out, lookups return, what was set passes the filter.

## 2. Modules

| Module | Models | Uses |
|---|---|---|
| `SingleFlight` | `Do`, `doCall`; each step of the leader's deferred function on its own | |
| `SyncPool` | the channel, its workers, the part of `Close` that ends them | |
| `Peers` | each node's view of the others, and whom it calls about a key | |
| `Replication` | `Set`, `Delete` and the fills of `Get` between nodes, for one key | `SyncPool`, `Peers` |
| `Migration` | nodes that join and leave, and the copies sent for them | `Replication` |
| `RemoteGet` | `Group.Get` between nodes, for one cold key | `SingleFlight`, `Peers` |
| `Membership` | fetch, watch, events, migration start and end, removal, `Close` | |
| `HashRing` | the ring, its lookups and the balancer | |
| `Recency`, `RecencyList` | abstract: a bounded list in order of use | |
| `LruSlab` | `cache.put/get/del/adjust` over the arrays; implements `RecencyList` | `RecencyList` |
| `Store` | the keys of a store | |
| `TwoLevel` | a bucket of `lru2Store` | `Recency`, `Store` |
| `LruList` | `lru.go` over `container/list` with its links | `Store` |
| `CacheStore` | the life of the store behind `Cache` | |
| `Bloom` | the filter, as operators on a set of bits | |
| `GroupLife` | a group from `NewGroup` to `Close`: table, filter, cache | `CacheStore`, `Bloom` |
| `*Proofs` | theorems of the module of that name; `GroupLifeProofs` of `CacheStore` too, `StoreProofs` of `TwoLevel` and `LruList`, `PickerProofs` of `Membership` and `HashRing` | `TLAPS` |
| `MC*` | the instance a `.cfg` of that name describes | |

Correspondence of state and actions to code, in short:

* `SingleFlight`: `m` is `Group.m`, `released`, `val`, `panicked` are the fields of a
  call object, `pc`, `key`, `call` a goroutine's place. `Do` is `LoadOrStore`;
  `FnReturns`/`FnPanics`, `WgDone`, `MapDelete` are the steps of `doCall`.
* `SyncPool`: `Admit` is the check of `g.closed`, `Submit` the `select` that sends or
  drops, `Take`/`SeeDone` the cases of the worker's `select`, `DrainTake` and `Exit`
  its drain loop, `Finish` the end of `processSyncTask`, `CloseFlag` and `CloseDone`
  the two steps of `Close`. `late` records tasks sent after `close(g.done)`.
* `Replication`: `Write` is `Set` or `Delete` up to the offer, `Begin`, `CallServed`,
  `CallFails`, `End` a worker's task, `ServeStray` a request served after its caller
  gave up, `Fetch` and `Fill` a `Get` that missed. Values are named by the write that
  made them; `doomed` records the writes that had returned when a delete was called.
  `up` are the nodes that run. `CallGivesUp` is a `Delete` to a node that is gone; a
  `Set` to it has no step, for it waits for ever.
* `Migration`: `Join` is `Server.Start` after the fetch of the node's picker, `news` the
  PUT events on their way, `Discover` their handling. `Read`, `Send`, `Mark` are
  `migrateDataToNewNode`: the read of the value into the batch, its sending, and
  `MarkHealthy`. `Leave`, `AwayRead`, `AwaySend`, `AwayStop` are `GracefulShutdown`. For
  one key, to list the keys and then to read the value is the same as to read the value
  at one of the two moments, so `Read` is one step; `AwayRead` is one per destination.
  Others do not notice that a node has left, as `members_deleted` shows. `stale`, `raced`
  and `came` are histories. The last node that runs does not leave
  (`ScenarioAssumption`): nobody could take its copies over.
* `Peers`: `Ring` is the order in which the key meets the nodes; `Nearest` is the first
  of some nodes on it, `FirstTwo` what `GetN(key, 2)` finds on a ring of these.
* `RemoteGet`: a goroutine's `stage` in `Group.Get`, its singleflight slot (one per
  node), the peer it asks (`ask`), the handler that serves it (`child`).
* `Membership`: one node's view. `clients` stands for `p.clients` and the ring's nodes,
  which change together. `missed` is a history: the peers this node lost sight of, for
  one of the reasons `ViewComplete` names. `migrating` counts the migrations that send to
  the node's present client, `stranded` those whose client was closed when the node was
  removed; `complete` and `early` are histories of what their ends did. `Close` is the
  end of the watch.
* `HashRing`: `vhash` is the hash of each virtual node: every injective placement is an
  initial state. `sort.Ints` is `InOrder` of the set of hashes, which are all different;
  the loop of a lookup is the places where a node is met first (`FirstMet`). The
  fractions of the balancer are cleared to whole numbers.
* `LruSlab`: arrays and links as in the code. `TwoLevel`: sequences, justified by
  `LruSlab`. A `Set` is two steps: `SetBegin` reads the clock and makes the entry, which
  waits in `begun` for the lock, and `Set` puts it into level 0; each call may have an
  expiration of its own (`cache.go:147`). A round of the cleaner is `CleanupFind`, which
  looks through both levels with a time read before the lock, and a `CleanupDelete` for
  each key it found; the bucket is locked for the whole round (`Unlocked` guards every
  other operation) but the clock ticks on. `LruList`: element 0
  is the list's root; elements nothing refers to are reused, as garbage collection
  would. `SetNew` leaves open whether its entry has expired by the time `evict` reads
  the clock.
* `CacheStore`: each atomic load is a step, and each critical section but two: the
  creation of the store (`InitLocked`, `InitDone`) and `Close` (`CloseLocked`,
  `CloseStore`, `CloseDone`) hold `c.mu` over the steps in which they write `store` and
  `initialized` one after the other, while the flag is read without the lock. `ticking`
  is the stores whose ticker runs; that the goroutine behind it never ends is in
  section 6.
* `GroupLife`: `job[p]` is the call a goroutine is in and its stage: `GetGroup` (in a
  handler), the check of `g.closed`, the filter, the cache (the steps of `CacheStore`),
  the load, the cache again and the filter again. `ending[g]` is how far `Group.Close`
  is; `DestroyGroup` takes the first step of `Close` and keeps `groupsMu`. `caught` and
  `racing` are histories: the calls past their check of `closed` when `Close` set it. The hashes of
  the keys are constants; sums wrap at `WordSize`.

`etcd`, `container/list` and the death of a process are not in the repository; they
are modelled from how the code uses them and marked external in `PROJECT.json`.
Definitions with a suffix and the comment FAULTY are plausible bugs; none is part of
a specification. Each is put in the place of the definition it follows to see that
the property named with it in `PROJECT.json` notices.

## 3. Runs

| Run | Instance | Shows |
|---|---|---|
| `flight` | 3 goroutines, 2 keys, 3 call objects, 2 outcomes | `OneFlightPerKey`, `ReleasedHasOutcome`, `RegisteredHasLeader`, `EveryDoReturns` |
| `pool` | 1 group, 2 workers, 4 tasks of which one may hang, channel of 2 | `TaskInOnePlace`, `EarlyTasksDrained`, `SubmitReturns`, `AcceptedRuns`, `WorkersExit` |
| `replication` | up to 4 nodes, 1 worker each, a join or a leave, 2 writes, 1 missed `Get`, one overlap or lost RPC | `OwnersHoldLastSet`, `NoDirtyCopy`, `OnlineNodeHasKey`, `PropagationEnds` |
| `remote_get` | 2 nodes, 3 goroutines, 2 client `Get`s, 1 node may stop | `PeerFailuresHidden`, `EveryGetReturns` |
| `members` | 2 peers and the node itself, 2 registrations, dials may fail | `OnlineAfterMigration`, `ViewComplete`, `DiscoveredGoesOnline`, `LeaverForgotten` |
| `ring` | 3 nodes, 2 virtual nodes each, all placements on 6 points | `LookupsReachMembers`, `NearestFirst`, `ReplicaTakesOver` |
| `slab` | 5 keys, 2 values, 4 nodes of the list | `BothWaysAgree`, `MapMatchesNodes`, refinement `ImplementsRecencyList` |
| `two_level` | 2 keys, levels of 1 and 2, 3 sets, 2 expirations, 3 clock values, 1 `Clear` | `ReadsLastWrite`, `NoResurrection`, `ExpiredNotServed`, `CleanupSparesFresh`, `ExpiredGoes` |
| `lru` | 2 keys, 2 `Get`s, values of 1 and 2 bytes, limit of 4 | `ListMatchesItems`, `BytesAreExact`, `ExpiryHasEntry`, `SetSurvivesItsEviction` |
| `store_life` | 2 callers, 3 calls, 2 keys, 2 stores, 2 groups, `Close` and `DestroyGroup` | `OneStore`, `NilStoreNeedsRace`, `SetThenContained`, `ClosedNotServed`, `StoreLeakNeedsRace`, `LookupsReturn` |
| `members_deleted` | as etcd behaves | **violates** `LeftIsUnhealthy` (section 6) |
| `store_nil` | 3 callers and a `Close` | **violates** `NoNilStore` (section 6) |

Why the bounds are enough to meet the interesting cases:

* `flight`: three goroutines are a leader, a follower and a newcomer; a call object
  is reused while an old follower still holds another. Two keys can be led at once.
* `pool`: more tasks than the channel holds, so that it drops; two workers, one of
  which the hanging RPC takes away, leaving the other to drain.
* `replication`: four nodes are the fewest of which a set leaves one out (a set
  reaches its node and two others), so that "both owners" says something, and the
  fewest in which a `Get` can leave a copy on a node no set reaches. The primary of the
  four may leave, and the node that then becomes an owner had not been sent the set. A
  third node joins two as primary: two nodes send it their copies, at their own pace.
  In the third scenario the node that leaves owns nothing and may hold an old copy.
  Both forms of
  the address (`listsSelf`) are initial states. One worker per node: with calls one at
  a time a second has nothing to do, and workers of different nodes still overlap.
  `MaxTrouble` counts the calls, joins and leaves that overlap others and the RPCs that
  fail together. `OwnersHoldLastSet` and `OnlineNodeHasKey` are stated for behaviours
  with neither, `NoDirtyCopy` also for overlaps, `PropagationEnds` for all.
* `remote_get`: two nodes always pick each other, which is the circle; with
  `listsSelf` a node picks itself too, and primary and replica are both asked. Three
  goroutines are the caller, the peer's handler and the call that comes back.
  `GetterFails` is FALSE: the property is about what peers do.
* `members`: two registrations let a node come, go and come back, while a migration to
  the client it had before still runs.
  `DeleteNames = {TRUE, FALSE}` lets DELETE events name the node or not:
  `handleWatchEvents` is written for events that do, etcd sends ones that do not.
  `LeaverForgotten` is about the first kind, `members_deleted` about the second.
* `ring`: as many points as virtual nodes, so that every cyclic order occurs, every
  point is also a key's hash, and the search wraps round. The nodes are symmetric.
  The bounds 1 and 3 for the replicas let the balancer want a change.
* `slab`: more keys than nodes, so that nodes are taken over; four nodes give a head,
  a tail and two between. Keys and values are symmetric.
* `two_level`: one place in level 0 makes every second set push an entry out, which
  then meets its older copy in level 1. With two expirations within three clock values a
  later `Set` can expire before the older copy, at once or by the order in which the
  two got the lock, and a key can be read before and after.
* `store_life`: two callers are two racing first `Add`s, or an `Add` and a `Get`; the
  third call meets what the first left. One caller is a gRPC handler, the other has the
  `*Group` at hand. The keys share a bit of the filter and one sum wraps. Close can let
  a second store come into being, and never a third.
* `lru`: two values fit with one byte each and do not with two; one more element than
  the keys and `Get`s can hold.

Runs with `CHECK_DEADLOCK FALSE` are those in which the system may stop: the clients'
operations are bounded, or `Close`, a stopped node or the balancer's lock-out ends all.

### Fairness

* Goroutines are scheduled: weak fairness of `doCall`'s steps (`flight`), of a worker's
  steps and of `Close` after its compare-and-swap (`pool`), of the node's own goroutines
  (`members`), of the cleaner's
  rounds, `CleanupFind` and each `CleanupDelete` (`two_level`). Clients are never assumed to call.
* `SubmitReturns` is stated under fairness of the request alone; that of the workers is
  a premise (`PoolFair`) of the two properties that need it.
* RPCs end, except those in `Stuck` (`pool`): `Client.Get` and `Client.Delete` have 3 s
  (`client.go:78, 93`), `Client.Set` none, so `pool` lets one hang. In `remote_get`
  fairness of a goroutine's step is what lets the 3 s pass; dropping `CallTimesOut`
  breaks `EveryGetReturns`. In `members` a migration ends while its target is up.
* `replication` assumes only that something goes on as long as anything can; that all
  comes to an end is then a fact about the steps, not about who is scheduled.
* `store_life`: a caller that can take a step does. `groupsMu` is held for one step at a
  time, except by `DestroyGroup`, which `LookupsReturn` excepts.

## 4. Proofs

Every obligation is checked by `tlapm`; nothing is assumed but the ASSUMEs of the
modules: the "none" values are not members of the sets they stand beside, sizes and
bounds are natural numbers, `Nodes` is finite with all of it on `Ring`, and a scenario
leaves a node behind. The sets of goroutines, keys, call
objects, groups, workers, tasks, callers, nodes and addresses are arbitrary, and so are
the capacities of the channel and the lists, and the filter's size and hashes.

* `SingleFlightProofs`: `FlightInvariance` (`Spec => []FlightInv`), and from it
  `OneFlight`, `OutcomeBeforeRelease`, `NoOrphanInMap`. "One `fn` per key" is not
  inductive by itself: the newcomer that leads finds no object under its key, and that
  nobody else leads follows only if each leader's object is in the map under the
  leader's key (`LeaderIsRegistered`) and is led by nobody else (`LeaderIsAlone`).
  `ClosedWhileRunning` ties the release of the waiters to the outcome.
* `SyncPoolProofs`: `PoolInvariance`, `OnePlaceForEachTask`, `NoEarlyTaskLeft`. A worker
  leaves only on an empty channel and only after `g.done` is closed (`ExitAfterDone`),
  so whatever is in the channel with a worker gone was sent late. That a task is in one
  place needs the places to be disjoint in pairs and each queue position to be unique.
* `GroupLifeProofs`: of `CacheStore`, `OneStoreAlways` and `FlagTellsOfStore`. Flag and
  store are written one after the other, so what is inductive says who is between the
  writes: `MuInv`, that `c.mu` has one holder, and that the flag and `c.store` agree
  while nobody holds it; `FindsStore`, that before `Close` a call past its look at the
  flag has a store. `FlagAgrees` is what a reader can rely on: without the lock the flag
  promises a store that is not there only between the two writes of `Close`.
  `GroupUsesCache`: every behaviour of a group is one of its cache, which carries these
  over to groups (`GroupHasOneStore`, `GroupFlagTells`). `NoNilWithoutRace` and
  `NoLeakWithoutRace` rest on the same invariant and on `Caught`: once `closed` is set, no
  call comes into the cache, and those that are there are in `caught`, the `Add`s that
  have still to see a store in `racing`; so whoever meets a nil store, or creates one
  after `Close`, was there before. `NoFalseNegatives`: bits are only ever added, whatever
  the hashes, the word size and the filter's size. `NoClosedGroupServed`: the invariant is
  inductive with the types of the table.
* `MigrationProofs`: `NoDirtyCopyLeft`, for any nodes, workers, channels and calls, with
  any overlaps and lost RPCs, while one node joins and one leaves. `NoDirtyCopy` speaks
  of quiet moments; `DirtyInv` says of every moment why it will hold: a value a `Delete`
  was to clear (`Dirty`) is on its way to no cache (`Comes`), and each node that still
  holds it has a delete coming from another one (`DeleteComes`). What is on its way when
  a delete is becomes `raced` with the next step; `Dirty` leaves it out at once
  (`Racing`). So while a delete is under way no value of `Dirty` comes, and no node comes
  or goes (`CleanOrNothing`): a worker that takes the delete finds every other node on its
  ring (`AllTold`), and `AwayStop` ends no worker that still has to tell one. What a `Get`
  or a migration reads from a cache is therefore never of `Dirty` either. That a set task
  is a value on its way keeps deliveries harmless; a call that fails sets `lossy`, and the
  rest is vacuous (`StrayIsLoss`). Joiners hold nothing (`JoinersFresh`).
* `MigrationProofs` again: `PlaceInvariance`, and from it `OwnersKeepLastSet` and
  `JoinedNodeHasKey`, for any nodes, ring, workers, channels and calls. Both properties
  are about runs in which calls, joins and leaves do not overlap (`trouble = 0`), and the
  invariant's first half, `OneByOne`, says what that leaves: either no node comes or goes
  or no task is anywhere, only the last call's tasks are under way, at most one `Get`
  fills, at most one node comes or goes (`Alone`); what the nodes know of each other, as
  who has left is still known (`Known`); that nothing is called between a join and its
  end (`Since`); what a `Delete` has cleared (`Cleared`). The second half, `Placed`, says
  where the last `Set` is. While it spreads, whoever is still to pass it on has it, and
  each of the two peers of a worker has it or is still in `todo` (`Spreads`); then the
  owners among the nodes that have been served have it (`OwnersHold`). A mover sends what
  its node has (`SendsOwn`); a node that leaves and owns the key sends it to each of the
  two nodes next (`Inherits`); a joined node has it as soon as one node that knows it has
  done its part (`Handed`), and no older one (`Fetched`). That the two peers a node picks,
  itself left out, cover the two owners is a matter of the order of the ring alone
  (`PickedAreOwners`, `FirstSendsToOwner`, `OwnersWhenOneLeft`), about the two nodes of a
  set that no other or only one other is ahead of (`AmongTwo`, `FirstTwoAre`). TLC found
  no violation of `PlaceInv` in the 3.7 million states of four nodes of which one may
  join and one leave, from any one to three to begin with.
* `MigrationProofs` and `RemoteGetProofs`: `MoveTypesKept` and `TypesKept`, the types of
  all variables. That a load asks two peers at most before the getter (`ask` stays in
  1..3) needs that a caller and its handler name each other (`AskInv`): else one failed
  call could be counted twice.
* `RemoteGetProofs`: `ImplementsSingleFlight`, `Spec => Flight!Spec`. Whatever peers
  answer, fail or time out, a node's loader takes only the steps of `Do` and `doCall`, so
  the invariant of `SingleFlightProofs` holds between nodes too. `FailuresHidden` rests on
  it: `GetInv` adds that nobody is in `Do` but to load (`InDoOnlyToLoad`) and that with a
  data source that works no call object ever holds an error (`NoErrorKept`). A leader
  finds its outcome by `ClosedWhileRunning`, a follower by `ReleasedHasOutcome`.
* `PickerProofs`, of `Membership`: `ViewInvariance`, and from it `NoRouteBeforeMigration` and
  `NoPeerForgotten`. That an unknown peer will be known is only true of the events on
  their way: `EveryPeerAccounted` says that a registered peer is known, lost sight of
  (`missed`), or announced by a PUT in the queue. `NoRouteBeforeMigration` needs that
  migrations send to nodes that have a client, and that a removal ends them
  (`PresentOnly`): what is credited to a node was sent to the client it has now. It
  excepts the returning nodes in `early`. `MigratedFirst` has no exception, for DELETE
  events as etcd sends them (`EtcdDeletes`): none names a node, so none is removed and no
  migration is cut off (`NobodyLeaves`).
* `PickerProofs`, of `HashRing`: `RingInvariance`, and from it `LookupsReach`,
  `NearestComesFirst` and `Failover`, for any nodes, replicas and placement without
  collisions. `RingInv` says what `keys` is: the points of the members in their one order
  (`InOrder`), with the owner of each in `hashMap`. That a set of numbers has just one
  order (`InOrderLists`, `ListIsInOrder`) is what `Add`'s sort and the loop of `Remove`
  come down to: taking a number off an ordered list leaves the order of the rest
  (`RemoveFirstInOrder`), and so does the whole loop, a fold (`RemovedInOrder`). A walk
  then comes to every point once, at growing distances (`VisitsAll`), so the first place
  of a node on it is its nearest point (`ReachIsFirst`).
* `LruSlabProofs`: `SlabInv` says that the nodes in use stand in one circle with the
  sentinel: an order `c` along which every `n` leads on and every `p` back. The six
  assignments of `adjust` move one place of the order to an end, and what holds of one
  direction holds of the other with the order read backwards. `MapMatches` needs besides
  that `hmap` and the nodes name each other. `SameFromBothEnds`: the recursive walks are
  shown to follow `c` by a minimal counterexample, no induction scheme being at hand.
  `SlabIsRecencyList` is the refinement, `Spec => ImplementsRecencyList`, operation by
  operation.
* `StoreProofs`, of `TwoLevel`: first what the operators of `Recency` do to a list whose keys are
  there once. `CacheInvariance` (`CacheInv`): what is live in level 0 is what the last
  `Set` wrote (`FirstIsLatest`); what is live in level 1 belongs to a key that was set and
  not deleted since (`SecondIsKnown`), and is what the last `Set` wrote if level 0 has
  neither that key live nor has pushed it out (`SecondIsLatest`); what a cleaner's round
  holds has expired (`CleaningExpired`). `DeletedStaysGone`, `NothingExpiredServed` and
  `CleanupSpares` follow. So does `ReadsReturnLastWrite`, with no hypothesis about
  expirations: two `Set`s of a key need not expire in the order in which they were made
  (`cache.go:147`, and `lru2.go:102` reads the clock before the lock at 106). A `Get` that
  finds the newer entry expired takes the older copy away with it (`lru2.go:64-69`), so
  level 1 can answer it only when level 0 has nothing of the key; `GetValue` deletes
  nothing, and is excepted once the newer entry has expired.
* `StoreProofs`, of `LruList`: `LruInvariance`, and from it `ListIsTheMap`,
  `UsedBytesExact`, `ExpiriesHaveEntries`, `SetSurvives` and `FrontIsNeverRoot`, for any
  keys, lengths, limit, elements and goroutines. `LruInv` says more of the list than
  `ListMatchesItems`: its elements are those of the map and no others have it as their
  list, which is what a `Get` asks at its second lock; and they are one circle, of which
  only the whole can be followed from the root (`Circle`), so that a list of positive
  length has a front and the last to be evicted is the one just set (`NewestIsLast`).
  `UsedBytesExact` is about a fold over a set. `LeastOf`, a set of numbers has a least,
  stands in for induction: `SumExists`, `SumSame` and `SumAnyOrder` look at a least set for
  which the claim fails. `FoldIsTotal` shows that the fold is such a sum. `LruList` assumes
  that no key is one of the two marks of `evictor`.

Only model-checked: the liveness properties, for fairness is beyond the prover. Every
invariant and every other action property a passing run checks is a theorem. The prover
knows nothing of `SelectSeq`, `SortSeq`, `:>` and `@@`, so `HashRing` and `Peers` do
without in what the theorems need.

## 5. Not modelled

* `migrateDataFromLeavingNode`, which only counts and logs, `SetLocalDirect`,
  `BloomFilter.Reset` and the unused lookups of the ring (`GetReplica`, `GetPredecessor`,
  `GetSuccessor`, `KeysBelongToNode`): nobody calls them or they change nothing.
* The sizing of the filter (`bloomfilter.New`), which is floating-point arithmetic.
* Several joins and leaves at once, and more than one key in a migration: a batch is a
  list of independent keys.
* Server options, TLS and CORS: no state.
* `PickPeer` for groups without replica-aware pickers, `PickPeerWithFallback`'s branch
  for an empty ring, and the 30 s context of `loadData`, which reaches only the getter.
* `onEvicted` of the stores beyond what `LruSlab` reports; statistics and logging.
* The watch or the lease that etcd closes, and a fetch that fails
  (`NewClientPicker` then fails).
* `ByteView`, generated code, the example program.

## 6. What the models show about the code

Two runs contradict a comment in the source; `PROJECT.json` quotes it.

* `members_deleted`: `handleWatchEvents` takes the address from the event's value,
  which a DELETE does not carry. A node that leaves stays on the ring, healthy
  (`peers.go:145`, against `server.go:170`).
* `store_nil`: `Cache` reads its flags before it takes the lock, and `Close` may set
  `store` to nil in between: the call then uses a nil store, a `Get` at `cache.go:117`
  (against `cache.go:107`), an `Add`, which is the shortest trace, at 96.
  `NilStoreNeedsRace` says that it happens to no other call.

Seen while the guards of the passing runs were chosen; each is a limit of what they
say, not a run:

* A `Get` that overlaps a `Delete` can add the old value after the broadcast has
  passed; with several workers the broadcast can overtake the task of an earlier
  `Set`; a batch read before a `Delete` may be sent after it (`group.go:156, 394`,
  `peers.go:409`). `NoDirtyCopy` covers overlapping calls and excepts exactly the
  values (`raced`) that were on their way while the `Delete` was.
* Both migrations send whatever copy the node has. One that a `Get` left there can be
  older than what the owners hold, and replaces it without any race (`peers.go:344`,
  against "no cached data is lost", `server.go:175`): `stale` in `OwnersHoldLastSet`. The same
  with a join: on five nodes the joiner gets the last `Set` from one node and then an old
  copy from another, which overwrites it, for nothing compares the two (`group.go:247`);
  `OnlineNodeHasKey` excepts it too, which on the four nodes of the run cannot be seen. A
  `Set` the leaving node accepts after the keys were listed is lost with it.
* With an address that the ring does not recognise as the node's own (`listsSelf`),
  `MigrateDataAway` counts the node among the two destinations, and only one other node
  gets the key (`peers.go:319`).
* A `Set` made while a node joins goes to healthy nodes only, so the joiner keeps the
  older value of its batch (`group.go:394`, `peers.go:409`).
* A node that has left stays on the other rings, and a `Set` picked to it keeps its
  sync worker for ever: `WaitForReady(true)` and no deadline (`client.go:43, 111`).
  `PropagationEnds` excepts it.
* A node that registers or leaves between the fetch and the start of the watch stays
  unknown, or known (`peers.go:125`); one that comes back within the 30 s after a
  DELETE is removed all the same (`152, 177`), one that could not be dialled is never
  tried again (`210`). `ViewComplete` names these three. `NewClient` waits for its
  connection with `p.mu` locked, so nobody picks a peer meanwhile. When etcd closes the
  keep-alive channel, the node stops without registering again (`registry.go:78`).
* A migration ends by marking its node healthy if the node has a client then, whichever
  that is (`peers.go:434`): a node that was removed and came back meanwhile is routed to
  before anything was sent to its new client. It takes a DELETE that names the node,
  which etcd does not send (`MigratedFirst`); `OnlineAfterMigration` excepts these nodes
  (`early`). A migration whose sends failed marks its node healthy as well
  (`peers.go:422, 435`), so "migrated to" means here that the migration
  has come to its end.
* A request that passed its check before `Close` can put its task into the channel
  after the workers have gone (`group.go:611`). `EarlyTasksDrained` says which.
* `cleanupLoop` deletes a key from both levels when either copy has expired, a fresh
  value in level 0 too (`lru2.go:450`). `CleanupSparesFresh` says what is spared. `Len`
  counts a key with two copies twice (`lru2.go:167`).
* When level 0 pushes a newer value out, level 1's older copy is served
  (`lru2.go:313`). `ReadsLastWrite` excepts these keys.
* `GetValue`, which the migrations read with (`cache.go:236`), goes on to level 1 when the
  entry in level 0 has expired, and may return an older value that expires later
  (`lru2.go:216-227`). `ReadsLastWrite` excepts that.
* `Clear` deletes the keys it has collected without a look at what they are by then: a
  `Set` in between is lost (`lru2.go:149`).
* Closing a store of type lru2 stops its ticker, and the loop over the ticker's channel
  waits for ever (`lru2.go:235, 420`): every `Close`, without any race, leaves a goroutine
  and the arrays behind (against "释放资源", resources are released, `cache.go:199`).
  `OneStore` and `StoreLeakNeedsRace` speak of the ticker and of `c.store`, not of it.
* `rebalanceNodes` calls `Remove` with the ring locked (`con_hash.go:462`): the model's
  `balancer = "stuck"`, after which no call of the ring returns. `GetN` returns
  unhealthy nodes (`con_hash.go:185` says not), `GetHealthy` with none healthy returns
  the last and not the first (`178`). Colliding hashes, or a node added twice, leave
  points that answer with the empty name (`82, 106`); `HashRing` leaves both out, the
  second because `ClientPicker` never does it. `KeysBelongToNode`, which nobody calls,
  collects the node in place of the key (`298`).
* In `lru.go` a `Clear` between the two locks of `Get` would tear the list (`77`);
  `Cache.mu` excludes it, and `LruList`'s `Clear` has that guard. An update never evicts,
  so `usedBytes` may exceed the limit (`117`); the asynchronous delete of an expired
  entry takes a value set since (`66`).
* An `Add` that passed its check before `Cache.Close` creates a store nobody closes, whose
  ticker runs on and whose entries nobody reads, for every reader looks at `closed` first
  (`cache.go:66, 103`). `StoreLeakNeedsRace` says that no other call does.
* `DestroyGroup` calls `Close` with `groupsMu` locked, which `Close` locks again
  (`group.go:580, 618`): it never returns, and no handler finds a group afterwards.
  `LookupsReturn` excepts that. `Close` deletes whatever group has its name, one that
  replaced it too (`619`).
* The filter has no false negatives for what was set or loaded on the same node
  (`SetThenContained`), and starts empty: a key that was never set on a node is not
  loaded there, though the data source or a peer has it (`group.go:122`). `New` with 0
  expected items makes a filter of 0 bits, whose first use divides by zero.

## 7. What is left

The parts of the system that can be modelled are, and the safety properties of the runs
are proved. What a change of the code would call for next:

1. Several joins and leaves at once, when peers learn of leaves (section 6,
   `members_deleted`): `Migration` with `Membership` in place of `news`.
2. More keys than one in a migration, when batches may be cut or retried.
