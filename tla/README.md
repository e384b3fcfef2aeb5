# A TLA+ project for pecs-registry

pecs-registry is a service registry and discovery library: a facade over a registry (etcd, Nacos or
an in-process one), an in-memory snapshot of the instances of each service that background tasks
keep up to date, selectors that pick an instance, and bridges that feed Tower and Tonic. This
project models the parts of it in which tasks, callers and the network interleave, model-checks
them with TLC on small instances, and proves the main safety results for every instance with TLAPS.

All paths are those of the repository's root directory `src/`; `directory.rs` alone means
`src/src/directory.rs`.

## The system

| Component | State | Operations | Talks to |
|---|---|---|---|
| `ServiceDirectory` (directory.rs) | `snapshots` (RCU map), `active_watches` (tokens, behind an async mutex), `listeners`, one watch task per watched service | `load_or_watch`, `ensure_watcher_started`, `run_watch_loop`, `apply_event`, `unwatch`, `shutdown` | asks the registry for lists and event streams; calls listeners; spawns persist tasks |
| Disk snapshot (directory.rs:77-103) | a file per service, a temporary file per service and process | `persist_to_disk`, `load_from_disk` | called by `load_or_watch` and `apply_event` |
| Bridges (discover.rs) | a bounded channel of changes, the known ids or endpoints (behind a mutex) | `discover_stream`, `tonic_channel_with_config`, their listener, `poll_next` | `load_or_watch` first, then `on_change` of the directory; the load balancer reads |
| `RegistryService` (lib.rs, builder.rs, config.rs) | none of its own | `register`, `deregister`, `discover`, `select_instance` | provider, directory, selector |
| `EtcdRegistry` (provider/etcd.rs) | client, `registered_key`, `lease_id`, `cancel_token` (a mutex each), a heartbeat task, a task and a channel of 64 per watch | `register`, `deregister`, `list_instances`, `watch` | etcd |
| `LocalRegistry` (provider/local.rs) | map of instances, broadcast channel of 128, `registered_key` | the same, and `add_instance`, `remove_instance`, `clear` | its streams |
| `NacosRegistry` (provider/nacos.rs) | `registered_instance` | the same; failures are ignored, and `watch` returns a stream that has ended | Nacos over HTTP |
| Selectors (selector/) | counters, current weights, hash rings, in-flight counts | `select` | called with a snapshot |

What is hard: every `.await` of `load_or_watch` lets other calls, `unwatch`, `shutdown` and the watch
task in between; the list and the subscription are two requests; a stream may break, lag or end;
cancellation is seen only at some awaits; `apply_event` replaces the snapshot, hands it to a detached
task and then calls listeners, none of it under a lock; a full channel drops changes; etcd leases run
out while the code believes in them. `PROJECT.json` lists these hazards one by one, each with the
properties that would catch it.

What makes each component correct:

- directory: one live watcher per watched service, reachable by `unwatch` and `shutdown`; a watched
  service's snapshot comes to equal the registry; calls return; cancelled tasks end;
- disk: `load_from_disk` finds a whole snapshot, whatever fails, unless two tasks wrote one file at once;
- bridges: the consumer ends up with the members (and endpoints) of the snapshot; nobody is blocked;
- etcd registration: the key is there while wanted, gone afterwards, and every heartbeat can be stopped;
- streams of the providers: a reader that lists after it has subscribed ends up with what the registry
  would answer; the task behind a stream ends;
- Nacos registration: what may be at the server can be deleted;
- selectors: the choice is a member, in proportion to the weights, stable on the ring, never in-flight
  counts below zero.

## The modules

| Module | Stands for | Uses |
|---|---|---|
| `Directory` | the directory for one service name, `RegistryService::register`, an abstract registry | - |
| `DirectoryProofs` | theorems about it | `Directory` |
| `Feeds`, `FeedsProofs` | what a stream of events ends with, for a reader that patches a list; lemmas | - |
| `Discover`, `DiscoverProofs` | both bridges and the notification part of `apply_event`; theorems | `Feeds` |
| `Bridged` | a directory with a bridge on it | extends `Directory`, instantiates `Discover` |
| `BridgedProofs` | theorems about it and about `MCBridged` | `MCBridged`, `DirectoryProofs`, an instance of `DiscoverProofs` |
| `RegistryCalls` | the calls of `register` and `deregister` a process makes | `Feeds` |
| `LocalRegistry` | the whole of local.rs for one service | `RegistryCalls` |
| `EtcdWatch` | one call of `EtcdRegistry::watch`, its task, `list_instances` | `Feeds` |
| `NacosRegistry` | `register` and `deregister` of nacos.rs | `RegistryCalls` |
| `DiskSnapshot` | the files under `persist_to_disk` | instantiates `AtomicSnapshot` |
| `AtomicSnapshot` | what the disk cache promises: a file replaced at once by pending snapshots, and damaged only by those that were not alone | - |
| `SourcesProofs` | theorems about these four, and about `MCSources` | `MCSources`, `FeedsProofs` |
| `EtcdRegistration` | `register`, its heartbeat task, `deregister`, etcd's leases | - |
| `EtcdRegistrationProofs` | theorems about it | `EtcdRegistration` |
| `Instances` | instances, weights and the lists callers bring | - |
| `P2C`, `WeightedRoundRobin`, `ConsistentHash`, `RoundRobin` | one selector each, the last with the tag filter | `Instances` |
| `Selectors` | the selector of a `RegistryService`: one of the four | these four |
| `P2CProofs`, `SelectorsProofs` | theorems about P2C, about the others and about `Selectors` | `P2C`, `Selectors` |
| `MCBridged` | `Bridged`, and `Discover` by itself with more ids, side by side | both |
| `MCSources` | `DiskSnapshot`, `LocalRegistry`, `EtcdWatch` and `NacosRegistry` side by side | these four |
| other `MC*` | instances for TLC | |

Operators whose comment begins with "Mutant of" are broken variants of the definition after them:
nothing refers to them, they show that each property can be violated by a plausible bug.

### Directory

A step of the model is the code between two awaits (or two lock operations). `call[c]` is the await
a call of `load_or_watch` stands at: `check` (lock of `active_watches`, directory.rs:126), `list`
(137, with the disk fallback 144), `insert` (before the RCU write of 156), `ensure` (lock, 170),
`watch` (179, lock held). `task[w]` does the same for `run_watch_loop`: `first` (spawned with a
stream), `top` (199), `connect` (203), `backoff` (207), `loop` (the select, 225), `list` (232) and
`reset` (233, before `apply_event`). A call spawns at most one task and makes at most one token, so
both carry its name. Every map of the code is keyed by service name and only `shutdown` spans names:
one name is modelled. A snapshot maps ids to values; the order of the list is left out.

`registry` and `stream` abstract the provider: a change updates the registry and is appended to
every open stream, so a stream tells of changes in order. `EtcdWatch` shows how far etcd's streams do
(`WatchTells`), and `LocalRegistry` what its own do when two calls change one id (`StreamTells`). `Break` cuts a stream short, `Lag` loses its oldest event
(local.rs:151). `BornClosed` is a provider whose `watch` returns a stream that has ended
(nacos.rs:302, etcd.rs:339), `MayBlank` one whose list hides a failure and is empty (nacos.rs:272-299;
`ListBlank`, `TaskListBlank`): the snapshot, and the disk snapshot with it, is then emptied until a
later list. `MayDrop` says that callers may drop the future of `load_or_watch`.
`persisted` holds every list handed to the disk; `ListFromDisk` may find any of them, which covers
what `DiskSnapshot` allows of a file that is not mixed (tasks may also rename in another order than
they were spawned in, so that an older snapshot stays); a mixed one does not parse and counts as none.

`RegistryService::deregister` is `Shutdown` followed by `Change`. `fresh` and `aligned` are history.

### Discover

An applier has replaced the snapshot and hands the list it made to the listener (`Hand`);
`NotifyBegin` .. `NotifyEnd` is the listener under the mutex of `known`, one `TrySend` for each change.
`initial` and `todo` are the changes still to be sent, as sets: hash sets and maps are walked in any
order, and `Due` says which may be sent next. For Tower removals come first (`Before`); for Tonic a changed URL is
removed and at once inserted (`Turned`), and what left is removed last. `EndsUp(i, v)` says that the
consumer has `v` for `i` once it has read all that is on its way. The consumer can read only when the bridge is `ready`: Tower gets the receiving end at
discover.rs:103, Tonic's balancer first polls its receiver when a request comes. In `Discover` the
lists are arbitrary.

### Bridged

Here they are those of the directory. `Opened` is the return of the `load_or_watch` the bridge made;
every step of the directory that runs `apply_event` (an event, a `Reset`, a register) also hands its
list over, and the actor does nothing else until its notification has ended (`Free`). What the
directory writes before `Listen` reaches no listener, and the watch task and a register may notify in
another order than they wrote: `ViewSettles` says that the consumer comes to show the registry all the
same, because every reconcile notifies again.

### Feeds, LocalRegistry, EtcdWatch

`EndsWith(list, s, i, v)` says that a reader that holds `list` and reads the events `s` ends with `v`
for the id `i`. The two providers are checked against it.

In `LocalRegistry` a `register` is three steps (the map, local.rs:80-89; the key, 91; the event, 94)
and a `deregister` three (104, 106-114, 115), which interleave with all other calls; `add_instance` and
`remove_instance` send under the lock and are one step. `queue[w]` is what a receiver of the broadcast
channel has still to get: it loses its oldest event when it is full, and `missed` notes it. An event of
another service takes a place and is filtered out. `untold` are the ids two calls changed at once, and
those `clear` took away, until they change again: for these the streams may end with the wrong value.

In `EtcdWatch` the task receives a response of one or more events, and passes them on one by one
(`Pass`), waiting for room; what does not parse is left out, and so is everything once the reader has
dropped the stream (`send` fails and is ignored, etcd.rs:371, 389). `Cut` breaks the connection with
whatever is lost on the way. `ListKeys` may come at any time.

Ids and keys are kept apart. The key of an instance is its id with the '/' at its ends trimmed, behind
the service's prefix (`KeyOf`, etcd.rs:77-85). The list and the puts carry the id that stands in the
JSON value; a delete carries what follows the last '/' of the key (`Segment`, 378-389). `Told` is that
conversion. `service_id` is any string (instance.rs:42), so a delete may name another instance, or none:
with the ids `c` and `b/c`, deleting `b/c` makes a reader drop `c` and keep `b/c`; with `c` and `c/` the
two share a key; and the delete of `c/` names `c`. `WatchTells` holds of the ids that end their own key
and nobody else's (`Plain`), whatever the other ids are; the run has one of them and the pair `c`, `b/c/`
beside it. Ids of one service that hold no '/' are all plain. Names of services are taken not to be
prefixes of each other up to a '/', since the watch of one would tell of the other's keys.

### NacosRegistry

Both calls note or take the instance and then make one request, of which nothing is known afterwards:
`Posted` leaves the instance at the server or not. `astray` notes that a DELETE failed, that a second
register overwrote the note of another instance, or that a deregister came between a note and its POST.

### DiskSnapshot

A file is an inode whose content is a sequence of blocks, each named after the task that wrote it.
`tokio::fs::write` is open-and-truncate, any number of writes at the task's own offset, close; then
the rename. `Fail` ends a task at any step, `Crash` ends all of them; what was written stays (a crash
of the process, not of the machine: the code does not sync). Every call spawns a task whether or not
earlier ones have ended, as the code does. Two history variables tell what that leads to: `mixed` are the
inodes that two tasks at work opened, or that a task renamed which did not write them (until a task
that finds nobody else on it truncates the inode); `joined` are the tasks that were at work together with another one. A mixed
file may be anything, `Readable` is violated (`disk_overlap`). What the code does keep:
`ReadableUnlessMixed`, any other file is whole, whatever a failure or a crash left under the temporary
name; and `ReplacedAtOnce`, a task that was alone replaces the file by its snapshot at once, also a
damaged one, and never damages it.

### EtcdRegistration

`task[t]` is the await the tth call of `register` and then its heartbeat task stands at: `swap`
(between the two locks, etcd.rs:146-151), `top` (169), `grant` (174, 111), `put` (124), `key` and
`lease` (the two locks, 129-130), `keep` (214), `beat` (239), `pause` (a sleep). `dereg` does it for
`deregister`. An unanswered put has been made or not (`PutUnanswered`, `Failed`); requests that
arrive after the answer was given up on are not modelled. `Expire` ends any lease; one that a task
renews ends only when the process stalls, at most `MaxStalls` times. `crossed` is history.

### Selectors

A call brings any list of `Lists`: callers hold snapshots of different ages. One service name is
modelled, and `Selectors` gives the service one kind of selector for good, so that the state spaces of
the four add up. In `P2C`, `step[c]` is the place in `select_with_guard`: `first` and `second` (before
the two scores are read), `chosen`, `insert` (between the two locks of `get_inflight_counter`), `add`
(before the `fetch_add`), `guard` (until it is dropped); counters are objects (`Arcs`), because two
callers may each make one. Scores are compared as fractions. In `WeightedRoundRobin` a select is one
step, under the write lock; weights are in hundredths. Current weights outlive the instances, so an
instance may bring one along when the members change (`carried`); `Proportional` says that none gets
further ahead of the share its weight gives it than one round, or one round and what it is `Owed` for that. In `ConsistentHash`, `at[c]` is the lock before
which a caller stands; hashes are numbers given by the instance, without ties, and a fingerprint is the
bytes it goes over. `FingerprintsTell` says that no two lists with other instances have one; it holds
in the run, and the code does not see to it. `RoundRobin` has `stage[c]` like `P2C`. `among`, `quiet`, `members`, `lead`,
`lastPool` and `turns` are history.

## The runs

| Run | What it asks | Bounds |
|---|---|---|
| `directory_safety` | `SoleWatcher`, `CaughtUp`, `OkMeansWatched`, types | 2 calls, 1 register, 1 id, 2 changes, 1 loss, disk, dropped futures; 1.3 M states |
| `directory_live` | `WatchedIsRunning`, `Converges`, `CancelledTaskEnds`, `CallReturns` | 2 calls, 1 id, 1 change, 1 loss, which may be an empty list |
| `directory_dropped` | `WatchedIsRunning`: violated | 1 call that may be dropped |
| `directory_born_closed` | `Converges`: violated | 1 call, streams that have ended |
| `directory_shutdown` | `ShutdownStaysEmpty`: violated | 1 call |
| `discover` | `MembersFollow`, `EndpointsFollow`, `BridgeReturns`, `AppliersGoOn`, `ViewSettles`, types | any lists: 2 ids, 2 URLs and a bad one, 2 writes; a directory: 1 call, 1 register, 1 id, 1 change; channel of 2; 0.23 M states |
| `discover_full` | `BridgeReturns`: violated | 2 ids, channel of 1 |
| `selectors` | `InFlightIsGuards`, `BusiestLoses`, `Proportional`, `OwnerServes`, `OnlyNewcomerGains`, `Rotation`, types | 2 callers, 3 instances, 12 lists, 3 keys, 2 places per instance, 6 draws |
| `sources` | `ReadableUnlessMixed`, `ReplacedAtOnce`, `StreamTells`, `WatchTells`, `PumpEnds`, `HeldIsNoted`, types | disk: 3 snapshots of 1 or 2 blocks whose tasks may overlap, 1 crash; local: 2 registers, 1 deregister, 2 other calls, 3 ids, channel of 2; etcd: 3 ids, one of them plain, 3 changes, channel of 1; Nacos: 2 registers, 1 deregister; 0.70 M states |
| `disk_overlap` | `Readable`: violated | 2 snapshots that overlap |
| `etcd` | `SoleKeeper`, `GoneInTheEnd`, `KeptRegistered`, types | 2 registers, 1 deregister, 2 leases |
| `etcd_stalled` | `KeptRegistered`: violated | 1 register, 1 stall |

Why the bounds are enough. Two calls are what it takes for a race for the lock, for two watchers, and
for a task that outlives its token while a second one starts; one id shows every order of events of
an id. Two changes put one event before a list
and one after it. A channel of two and two ids give a channel that is full and one that is not. A bridge
on a directory needs one id and one change for a list that is older than the snapshot and a reversal of
two notifications (the watch task's and the register's); the cases of more ids are those of the bridge by itself. Two
registers of any two ids overlap on one id or leave two keys for one `registered_key`; three events and a
channel of one fill the wire, the hand and the channel of a watch at once. Three persist tasks are two that
mix a file and one that is alone before or after them. An instance without a gRPC endpoint (`NoGrpc`) is in the
proofs and not in a run: with it `discover` takes five minutes. Two
leases are the one in use and the one left behind. Two callers race for a counter or a ring; three
instances are the fewest for which P2C draws and a list can lose one and keep a choice; the seeds give
every pair, and the weights hold one below each floor and two that differ by more than it. Deadlock is not checked: every one of these
systems may come to rest. `CallSymmetry` and `Alike` are used
only where no liveness is checked.

### What the violated runs show

- A future of `load_or_watch` dropped at directory.rs:179 leaves a token without a task; no later call
  starts one.
- With Nacos, or etcd disabled, the watch task spins through streams that have ended; each round makes
  a new interval (221) whose first tick is swallowed (222), so the reconcile never comes.
- A task that `shutdown` cancels inside its reconcile (232-233) puts the snapshot back.
- More initial instances than the channel has places block `discover_stream` and `tonic_channel`.
- Persist tasks of one service overlap on one temporary file and publish a mixed snapshot, which stays
  until a task that is alone replaces it.
- A renewal answered with TTL 0 counts as success (etcd.rs:252): the instance stays unregistered.

Met on the way and not stated as runs: a failed `try_send` is never repaired, since `known` is updated
all the same (discover.rs:86-100), and listeners are never removed; what is written between
`load_or_watch` and `on_change` is not notified, nor corrected before the next notification; an etcd
delete names the end of the key, so that with ids that hold a '/' a reader drops the wrong instance or
keeps a dead one until its next list (etcd.rs:379-383); the Tower bridge does not send an instance whose
endpoint changed (92), although README.md:213 speaks of changes; two concurrent calls of
`EtcdRegistry::register` leave a heartbeat nobody can cancel (`Racing = TRUE`); a task of an earlier
register, or a `deregister` that overlaps with a new `register`, can take the new key away (`crossed`); lists of ids
that run into each other have one fingerprint, and the ring of one serves the other (consistent_hash.rs:39);
an outage of Nacos overwrites the disk snapshot with an empty list, so that the fallback finds none;
Nacos instances are never renewed, although traits.rs:31 promises a heartbeat, and are deleted without the
`clusterName` they were registered with (nacos.rs:146-149, 211-217); their ids in a list (276) are not those
they registered with, so that `RegistryService::register` shows its own instance twice until the next
reconcile; requests with and without a tag share one round robin counter, so that a tagged instance may never have
a turn; `RegistryService::select_instance` takes no guard, so that `P2CSelector` counts nothing unless
its user calls `select_with_guard`.

## Fairness

- Directory: a call, a task or a register that can step does (weak fairness: the runtime polls what is
  ready). `tokio::select!` chooses at random among ready arms, so an arm that is ready again and again
  is taken (strong fairness on `Select`); the reconcile tick is left out of it, being ready only once
  its interval has passed, and a task without an event waits for it under weak fairness. The registry
  does not fail every request for ever (strong fairness on `Answered`). Nothing is assumed of new calls, `unwatch`,
  `shutdown`, changes and losses.
- Discover: the bridge, the listener and the appliers' notifications go on; the consumer need not read.
- Bridged: both of these, and a consumer that reads. An applier that waits for the mutex of `known`
  gets it (strong fairness on `Notifies`: the mutex is held for one notification, which awaits nothing),
  and the select of a task is taken although its listeners run in between.
- EtcdWatch: the task goes on, and a reader that has not left reads (the select of `run_watch_loop`).
- EtcdRegistration: as for the directory; grants, puts and first renewals asked for again and again
  succeed; a lease nobody renews ends. A working heartbeat need not break.
- DiskSnapshot, LocalRegistry, NacosRegistry, Selectors: safety only.

## What is proved

For every value of the constants, from the named assumptions on them:

- `DirectoryProofs`. `TypeCorrect`. `NoOrphanWatcher` (`SoleWatcher`) and `OkCallsAreWatched`
  (`OkMeansWatched`) from `WatchInv`: `SoleWatcher` alone is not inductive, since a call about to spawn
  could hold a token that was cancelled or replaced; `WatchInv` adds that the holder of the lock is in
  its subscription and owns the token, that tasks belong to calls that returned Ok, and that a
  cancelled token is never the active one. `WatcherRuns` (`WatchedIsRunning`) under `~MayDrop`.
  `SnapshotCatchesUp` (`CaughtUp`) from `StreamInv`: an open stream always holds the last word on every
  id it mentions (`Current`), a list taken while it is open is right on every other id (`Untouched`),
  and both survive appending a change (`SettledAppend`) and applying the head (`SettledTail`).
  `DrainedIsCurrent` follows: an aligned snapshot whose stream is drained is the registry.
- `FeedsProofs`. `EndsAppend` and `EndsTail`: what an event at the end of a stream does to what it ends
  with, and the one at its front once the reader has applied it.
- `DiscoverProofs`, for any lists, appliers and capacity. `ConsumerFollows`: types, `MembersFollow` and
  `EndpointsFollow`. These two speak of what is still to be sent, so they need more to be inductive:
  `Resting` says that there is nothing of it when nobody sends, that an applier in the listener has a list and
  that the consumer has nothing before it has the bridge; `LoneInserts` that an id is inserted once at
  most. `DiffsShape` says for both bridges which changes an id gets, `SendKeeps` that any
  change that is `Due` can go to the channel: for an id, a Remove before its Insert.
- `BridgedProofs`, for any calls, registers, ids, values and capacity. `ConsumerFollowsDirectory` is the same
  for a bridge on a directory: every step of it is a step of the bridge that an instance of
  `DiscoverProofs` has a lemma for, once what the directory hands over is known to be lists (`HeldOK`,
  `AppliedList`, from `DirectoryProofs`). The theorems `BridgesTypeCorrect`, `MembersAreFollowed` and
  `EndpointsAreFollowed` join it with the bridge that is fed with any lists, as the run does.
- `SourcesProofs`, each source for any constants, and `SourcesTypeCorrect` for the four side by side:
  - the file, for tasks that overlap as they like. `DiskTypeCorrect`, from `Opened`: who writes has a file.
    `AlwaysReadable` (`ReadableUnlessMixed`) and `ImplementsAbstract` (`ReplacedAtOnce`, the refinement of
    `AtomicSnapshot`) from `DiskInv`: two writers of one inode make it mixed (`Sole`), so an inode that is
    not has one writer, leads from the temporary name and holds what that task has written (`Content`);
    the published inode is never the temporary one (`FileWhole`); a task that has been alone since it
    was spawned writes no mixed inode (`Lonely`), so that its rename replaces.
  - the local registry. `LocalTypeCorrect`; `StreamsTell` (`StreamTells`). A list may be taken at any
    time, so what a reader has is not enough: `QueueOK` says that the events of every receiver, one that
    lost some included, are right for the list the map would answer now, `LoneOK` that of an id that is
    not `untold` at most one call has still to send, and sends what the map holds. `SendStep` and
    `SilentStep` carry both over every action.
  - the watch of etcd. `WatchTypeCorrect`; `WatchTellsTheList` (`WatchTells`) from `StreamOK`, the same
    about channel, hand and wire as one stream of messages; `ToldConcat` and `ToldHead` carry the conversion
    of ids through it, `PlainAlone` says that no change of another id tells of a plain one, and
    `EndsDrop` that an event that does not parse can be left out of the middle.
  - Nacos. `NacosTypeCorrect`; `ServerHoldsTheNoted` (`HeldIsNoted`) is inductive
    with the types.
- `P2CProofs`. `PickTwoDistinct`, for every seed and length. `GuardsBalance` (`InFlightIsGuards`) from
  `CounterInv`: who is about to count, or holds a guard, has the counter of the map (`OwnArc`), no two
  instances share one (`OneEach`), and an unused one reads zero (`NewZero`). `BusiestIsNotChosen`
  (`BusiestLoses`) from `ChoiceInv`, which says of each place in a select what the scores read so far are worth
  while nothing is counted; `P2CTypeCorrect`.
- `SelectorsProofs`.
  - the ring, for any hashes without ties. `NewcomerMovesNoOther`: two least distances that are equal
    belong to one place, so an owner that is not the newcomer was the owner before. `KeyHasItsOwner`
    (`OwnerServes`), under `FingerprintsTell`: `AscendingLists` says that a finite set of numbers has its
    ascending list, `LocateOwner` that the first place at or behind the key, around the ring, is the least
    distance; `RingShape` that the ring kept is that of a list with the fingerprint kept. Without
    `FingerprintsTell` the ring of another list serves, and it is false. `OwnersAgree` and
    `NewcomersAlone` (`OnlyNewcomerGains`) follow.
  - round robin. `EachInTurn` (`Rotation`) from `RRInv`: all who draw hold the counter of the map, and the
    turns are consecutive places of the pool, counted back from its last ticket (`RowTo`).
  - weights. `ChosenByWeight` (`Proportional`) from `WRRInv`: a member's current weight is what it carried
    less its lead (`LeadIsTaken`), their sum does not change (`SumIsKept`), and who is more than a round
    ahead is not more than a round below the average of the members (`NoneLeftBehind`), since only the greatest is chosen.
  - `SelectorsTypeCorrect`, and `SelectorsKeepPromises`: the selector of a service, of whichever kind,
    keeps all of these.
- `EtcdRegistrationProofs`. `TypeCorrect`; `HeartbeatCanBeStopped` (`SoleKeeper`) under `~Racing` from
  `KeeperInv`: between its two locks a register is alone and there is no token.

TLC evaluates the assumptions, and `FingerprintsTell`, on every run's constants. Every invariant of the runs
that pass, and their two action properties (`OkMeansWatched`, `ReplacedAtOnce`), are theorems. The hypotheses
`~MayDrop` and `~Racing` leave out what the violated runs, or the list after them, show.

Only model-checked is what must eventually happen, since liveness under fairness is beyond the prover:
`Converges`, `CancelledTaskEnds`, `CallReturns`, `BridgeReturns`, `AppliersGoOn`, `ViewSettles`,
`PumpEnds`, `GoneInTheEnd` and `KeptRegistered`.

The library's induction theorems take an operator, which the provers cannot instantiate. Where sums and
sorted lists need induction it is done with sets: a set of numbers has a least one (`NatMin`), so a family
of finite sets has a smallest (`LeastSubset`), and `SubsetInduction` and `SumsUpExists` follow.

## Not modelled

- Wording and logging, HTTP and gRPC encoding, keys' text beyond what `KeyOf` and `Segment` keep of it, the instance type, errors, the configuration
  and the builder: no state that changes. Timeouts and intervals have no length (a timer is a step that
  may come).
- Panics: a listener that panics ends the watch task that called it, whose token stays
  (directory.rs:299).
- More than one service name, and more than one bridge on a service: the maps are keyed by name, and
  only `shutdown` and the broadcast channel of `LocalRegistry` span names (`OtherService`). Two bridges
  share the directory and nothing else, but for the order in which one applier calls them.
- What is read after a failed `try_send`: it is never repaired, so nothing is promised.
- An etcd watch whose revision was compacted, and requests that arrive after their answer was given up
  on: both are inside the client library.
- `RandomSelector`: it keeps no state.
