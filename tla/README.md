# Verification of minidist

minidist is a small distributed store written in Go: a leaderless, quorum
replicated key-value store in the style of Dynamo, an object store on top of it
(objects are cut into replicated chunks), membership with gossip and a failure
detector, and the beginnings of a Raft control plane. This directory holds TLA+
modules that model it, the TLC configurations that check them on small
instances, and proofs that TLAPS checks for every size. `PROJECT.json` maps each
definition to the source lines it stands for and lists components, runs,
findings, hazards and theorems.

Run a check with `tlc -config KVWrites.cfg MCReplicatedKV`, a proof with
`tlapm ReplicatedKVProofs.tla`.

## The system

| Component | State | Operations | Talks to |
|---|---|---|---|
| Versioned values (`store/memory.go`) | a version is (Counter, NodeID); a value is data, version, tombstone flag | `CompareVersion`, `newer` | everything below |
| Quorum replication (`node/replication.go`, `node/version.go`) | the coordinator's last allocated counter; per request what the replicas answered | `Put`, `Get`, `Delete`, `nextVersion`, `replicateValue`, read repair | replicas over HTTP (`/internal/kv`), the ring, hints |
| Hinted handoff (`node/hint.go`, `node/background.go`) | per node, replica and key the newest write that could not be delivered; in memory only | `Add`, `List`, `RemoveIfMatch`, `flushHints` every two seconds | replicas over HTTP |
| Durable store (`store/memory.go`, `wal.go`, `snapshot.go`) | the map, the largest counter seen, the log file, the snapshot file | `Set`, `DeleteIfMatch`, `SaveSnapshot`, `MaybeSnapshot`, `OpenMemory` | the disk |
| Raft core (`raft/`), transport (`raftgrpc/`) | term, vote, role, log, commit and apply index; in memory only | `startElection`, `RequestVote`, `appendEntry`, `truncateFrom`, `advanceCommit`, `applyCommitted` | other nodes over gRPC, a state machine over a channel; nothing else uses it yet |
| Consistent-hash ring (`hashring/ring.go`) | members, virtual nodes sorted by CRC-32 | `Add`, `Remove`, `Get`, `GetN` | read by every request, changed by membership |
| Failure detector, probes, gossip (`node/membership.go`, `probe.go`, `gossip.go`) | per member status, incarnation, version, failure count | `MarkSuccess`, `MarkFailure`, `Merge`, `refuteSelf`, `TrackMember`, `UntrackMember` | random members over HTTP |
| Cluster membership (`node/cluster_membership.go`, `handleMembershipSync`) | configuration version, ring | `AddMember`, `RemoveMember`, sync, compensation | all members over HTTP; ring, failure detector, drain, rebalance |
| Rebalance and drain (`node/rebalance.go`, `drain.go`) | none of its own | copy keys and chunks to their replicas, then remove them locally | store, hints, chunk store |
| Object store, chunks, garbage collection (`object/`, `chunk/`, `node/chunk.go`, `node/gc.go`) | manifests as replicated keys, chunk files by hash | `Put`, `Get`, `Delete` of objects, replicated chunk reads and writes, mark and sweep with a grace period | quorum replication, replicas over HTTP |
| HTTP handlers, process start, generated code | none that matters | routing, status codes, flags | |

What is hard in it, and what makes each part correct:

* **Concurrency of requests.** Each request is a handful of goroutines, one per
  replica call; calls of all requests interleave. Correct means: reads see what
  was acknowledged, writes get a version above it, replicas never go back.
* **Calls that fail, are late or are executed although the caller saw an
  error.** Correct means: a late PUT never undoes a newer one, and every write
  ends up on all replicas.
* **Crashes.** Hints, counters and running requests are lost, the store is
  recovered from snapshot and log. Correct means: what was acknowledged is there
  again, and versions are not used twice.
* **Unlock windows**: `flushHints` between listing and removing, `applyCommitted`
  between reading and counting, `handleMembershipSync` between comparing and
  storing the version.
* **Rumours.** Probes fail falsely, gossip is late, a node restarts with a clock
  that was set back. Correct means: views only get newer, and a node that is up is
  seen as alive in the end.
* **Membership changes** under all of this: a sync that its coordinator gave up on,
  a change that is undone half-way, a rebalance that outlives its caller. Correct
  means: no acknowledged value is lost, and a change that succeeds is in effect
  everywhere.
* **Collection of chunks** while objects are written: chunks are stored before
  their manifest, the members are asked one after the other, their clocks differ,
  and a sweep can come late. Correct means: no chunk of a readable object, or of a
  running upload, is removed.

`PROJECT.json` lists these hazards line by line, with the properties that cover
them.

## Modules

| Module | Models |
|---|---|
| `KVVersion` | versions, their order, the keep-the-newest rule |
| `ReplicatedKV` | Put, Get, Delete, version allocation, read repair, hinted handoff, crashes |
| `MCReplicatedKV` | its instances for TLC |
| `ReplicatedKVProofs`, `ReplicatedKVWriteProofs` | its theorems |
| `MemoryStore`, `MCMemoryStore`, `MemoryStoreProofs` | the map, the log and the snapshot of one node, its recovery, and its theorems |
| `FailureDetector`, `MCFailureDetector`, `FailureDetectorProofs` | probes, gossip, refutation, tracked members, and its theorems |
| `Raft`, `MCRaft`, `RaftProofs` | voting, the local log, the applier, and its theorems |
| `CommittedLog` | the abstract specification that the log and applier of `Raft` implement |
| `HashRing` | the consistent-hash ring, as operators |
| `ClusterMembership`, `MCClusterMembership`, `ClusterMembershipProofs` | membership changes, rebalance and drain over changing rings, and its theorems |
| `ObjectGC`, `MCObjectGC`, `ObjectGCProofs` | objects, chunks and their collection, and its theorems |
| `NaturalFacts` | lemmas on natural numbers and finite sets that several proofs cite |

Definitions whose comment begins with "Faulty" are deliberately wrong variants
of the definition after them. They are used by nothing: substituting one for its
original must make the property that `PROJECT.json` ("mutants") names fail,
which shows that the property depends on that piece of code.

### ReplicatedKV

State: `store` is what every node's `Memory` holds (durable here; how it is kept
is the subject of `MemoryStore`), `version` is `Node.version`, `hints` the
`hintStore` of every node, `flush` the rest of the list that `flushHints` is
working through. The other variables describe requests: `pc` is where
the request is, `wait` the replicas whose result of the current round is
outstanding, `seen` what a read round returned, `acks` who acknowledged.

A client's request is started at any node of `Coordinators`
(`StartWrite`, `StartGet`). Both rounds of reads, in `nextVersion` and in `Get`,
are `ReadReply`/`ReadError` per replica, then `ReadQuorumMissed`, or
`AllocateVersion` for a write, or `NotFound`/`ChooseLatest` for a get.
`PutReply`, `PutError` and `FinishWrite` are `replicateValue`; `PutReply`,
`RepairError` and `FinishGet` are the read repair. `FlushStart`, `FlushReply` and
`FlushError` are the handoff task. One remote call is one step, taken when the
replica's handler runs. A call that fails may have been lost, executed with its
answer lost, or executed after the client's two-second timeout: a failed PUT is
put into `delayed`, from where `LateDelivery` executes it at any time or never.
Local reads never fail; a local `Set` fails when its log append does, without
effect. `CrashRestart` drops a node's hints, its flush list and the requests it
coordinates (their PUTs in flight may still arrive) and restores the counter from
the store, as `New` does. `floor` is a history variable: the requests on the same
key that had *settled* when the request began. A request has settled when it
succeeded and `writeQuorum` replicas are known to hold its value: every
successful write, and every get that found or repaired enough replicas.

Data are reduced to identities: a put writes its own identifier; node identifiers
are integers because the code orders them. The ring is fixed here; what a changing ring
does to the data is the subject of `ClusterMembership`.

### MemoryStore

`data` and `maxVersionCounter` are the map in memory; `file` is the log as the
process sees it, `disk` the set of logs that a crash of the machine may leave
(`Write` adds to it, `Sync` leaves only `file`); `snapshot` and `diskSnapshot`
likewise. An append is `Set` or `DeleteIfMatch` (the record's header is written),
`WritePayload`, `FinishAppend` (sync, then the map changes). A snapshot is
`RenameSnapshot`, `SyncDir`, `TruncateLog`, `WriteHeader`, `FinishSnapshot`, all
under the store's lock, so `pc` is one variable. Each step can fail
(`AppendError`, `SnapshotError`) and a crash can come between any two. The log is
a sequence of frames. A frame is whole, cut exactly behind its header, or cut
elsewhere, because `io.ReadFull` reports the last two differently and `Replay`
distinguishes them. A crash of the process (`ProcessCrash`) leaves the files as they
are; a crash of the machine (`MachineCrash`, also before the next start) keeps what
was synced and any prefix of what was written since; after a truncation that is not
yet synced it leaves the old log or a prefix of the new one. A start syncs only what
it writes itself: the header of an empty log, or the log that `repairTail` truncates.
What it replays from a log that was left by a crash of the process is not synced, and
a crash of the machine can still undo it. A file system that persists later
bytes before earlier ones is not modelled, nor are bit errors and logs of the old
format without a file header. `Recover` is a start on a readable log;
`RecoverTruncated` and `Refuse` are what happens when something cut has frames
behind it, depending on lengths that the model does not have.

### FailureDetector

`members[n][m]` is what node `n` holds about `m` (`Nil`: not in the map), `ring` the
ring's members, `probe` the probe that `probeOnce` is running, `sending` the gossip
that a node waits for and `late` gossip whose sender has given up. `probeOnce` is
`ProbeStart`, `DirectPing`, `IndirectProbe`, `ProbeEnd`; `sendGossip` is
`SendGossip`, and `handleGossip` is two steps of `HandleGossip` (or `LateGossip`):
reading the ring, then `Merge`. `handleMembershipSync` is `SyncStart`, then per
member `SyncRemove` and `UntrackMember`, then `SyncAdd` and `TrackMember`, then
`SyncEnd`. It takes no lock, so `sync` holds any number of calls at a node, each with
what its two loops have left; which configurations arrive is left open. `crossed`
is a history variable: the members that a sync removed while another one added them,
until a sync adds them with no removal of them running. A ping or a gossip to a node
that is down fails; to one that is up it fails falsely, up to a bound (`fd_changes` has
one such failure, `fd_refute` none).
`Restart` is `New`: the whole state is lost and the first incarnation is any reading
of the clock. A gossip round is a sequence of sends to tracked members; that its
second target may be untracked during the first send is left out.

### Raft

`RequestVote` and `StartElection` are whole handlers under the lock. Requests stay
in `requests`, so they are delivered late, again, or never. Leaders, vote
counting and replication are not in the code; the log operations have no callers
but tests, so they are taken at any time with any argument from the instance.
`applyCommitted` is split where it unlocks: `ReadCommitted`, `SendApply`,
`CountApplied`. `granted` records the votes. `Restart` is `New`: nothing is
persisted.

`CommittedLog` says what all this promises to the state machine behind the channel:
entries are committed at the end and stay, and are delivered one by one in order,
until the node restarts. `KeepsPromise` is its specification under the mapping
`committed <- the first commitIndex entries of log`, `delivered <- applied`. The
uncommitted rest of the log, terms, votes and the unlock window do not appear
there, so truncations, appends and the reading of an entry are stutters.

### HashRing and ClusterMembership

`HashRing` has the ring as a value: which member owns each position, and the
members. `AddTo` and `RemoveFrom` do what `Add` and `Remove` do to the map of
virtual nodes, collisions included: the last one added owns the position, and
removing either frees it. `GetN` is the set of replicas; that it is computed by a
walk is abstracted to "fewer than k others are met before it". The hash function is
a constant, so nothing about CRC-32 is assumed. If collisions have left a member
with no position at all, the walk in the code does not end; `GetN` then has fewer
members (`ring.go:130` in the hazards).

`ClusterMembership` has one key and numbers as versions. `op[c]` is the change that
`c` coordinates: `drain` (of a member to be removed), then `sync` and
`rebalance` member by member in the code's order, or `undo`, the compensation, after
a failure. Calls are records of their own (`syncs`, `rebalances`, `drains`), so that a
handler goes on when its caller has given up (`SyncLost`, `RebalanceLost`: `live`
becomes `FALSE`) or was never reached. `handleMembershipSync` is `SyncStart` (the
version is compared), `SyncRemove` and `SyncAdd` per member, `SyncEnd` (the version is
stored), and several can run at one node. `rebalance` is `RebalanceRead` (the snapshot),
`RebalanceStart` (the ring is read), `RebalancePush`/`RebalancePushFails` per replica,
and `RebalanceEnd` with `DeleteIfMatch`; `drain` likewise. Clients write meanwhile by
the coordinator's own ring (`StartWrite` to `FinishWrite`), with hints and late PUTs.
`Restart` is `New`: the seed list as ring, configuration version 0, no hints.

`AddMember` and `RemoveMember` read the members and the version one after the other;
here this is one step. A member that was removed is not told, and keeps its ring, as
in the code. Chunks are only ever copied by rebalance and drain, which
gives files that `PutChunk` could have written; they have no state here.
`disturbed` is a history variable that names the nodes at which something happened
that the code is known not to handle; see the limits below. `crossed` is one too: the
values that rebalances of two nodes have moved to different replicas at the same time,
or that one has removed because the ring of its node was empty (`Crosses`). `floor`, a
field of the change, records what the change must not lose (`Floor`).

### ObjectGC

An upload is `StartPut`, then per chunk `StartChunk`, `PutChunkReplica` or
`PutChunkReplicaFails` per replica, and `PutChunkDone`, then `CommitPut`,
`CommitReplica`/`CommitReplicaFails` per replica of the manifest, and `CommitDone`. A
deletion is the second half, with a tombstone. `SpreadManifest` is whatever brings a
manifest to a replica later: a hint, a read repair, a PUT its caller gave up on. A
collection at `n` is `round[n]`: `StartGC` takes the cutoff and the version,
`MarkMember` asks one member, `StartSweep` checks the version again,
`SweepMember` sweeps one member. `SweepMemberFails` leaves the sweep to `LateSweep`,
which may remove any part of what it finds at any time; that also covers the
handler's check of the version before it sweeps. `localGCMark` reads the snapshot and
then the version; here this is one step. A download is `StartRead` and per
chunk and replica `GetChunkReplica`, `GetChunkLacking` or `GetChunkFails`; `repair`
is what `repairChunk` has still to do in the background.

A chunk is its identifier. Its file has a time, by the member's own clock, and is
good or rotten. Time passes in `Tick`, which does not let an upload outlast
`UploadLimit`. That is an assumption about the environment, since the code sets no
limit; `UploadsTimely` says that the limit is within the grace period for any two
clocks, and the theorems name it. With a longer limit TLC finds both `UploadKept`
and `CommittedReadable` violated. A chunk PUT that its caller gave up on and that
arrives late only refreshes or adds a file, and is left out. The members and the
placement are fixed; configuration changes show as versions that end a round.

## Runs

| Run | Instance | Shows |
|---|---|---|
| `kv_writes` | 3 replicas, W = R = 2, two puts through two coordinators, two failing calls, fair | `SameVersionSameValue`, `HintedOrStored`, `StoreMonotonic`, `WritesConverge` |
| `kv_reads` | a put, a delete, a get, one failing call, one crash of the coordinator | `ReadSeesSettled`, `WriteAboveSettled` |
| `kv_version_reuse` | two puts, one failing call, one crash | **violated**: `SameVersionSameValue` |
| `store_recovery` | one key, two versions, snapshots every two records, one failing operation, three crashes of the process or the machine | `RecoveryExact`, `MaxVersionKept` |
| `store_torn_header` | two versions, two crashes, no failing operation | **violated**: `AckedSurvive` |
| `raft_votes` | three nodes, two terms, logs of one entry, no restart | `OneVotePerTerm`, `ElectionSafety` |
| `raft_apply` | one node, three entries, one restart, fair | `AppliedFromLog`, `CommittedApplied`, `KeepsPromise` |
| `fd_refute` | two members and a helper, one probe, one crash, a clock that is set back, fair | `LiveSeenAlive` |
| `fd_changes` | two members, one probe, one failing call, two syncs at one of them, also at the same time | `SuspicionAnswerable`, `RingTracked`, `ViewMonotonic` |
| `fd_ghosts` | two members, one probe, one sync | **violated**: `NoGhosts` |
| `gc_objects` | two members, clocks one tick apart, a put and a delete of one object, a grace period of two ticks, one fault | `CommittedReadable`, `UploadKept`, `CutReadsExplained` |
| `cm_data` | two nodes and one that joins, leaves and may restart, N = 1, W = 1, two versions, three requests, two failing calls or restarts | `AckedHeld`, `PlacementAgrees`, `ChangeAgreed`, `ChangeKeepsReplicas` |

Why the bounds suffice. Keys do not interact except through a coordinator's counter,
which only grows, so one key shows the races; three replicas with W = R = 2 is the
code's own configuration. Two writes are the fewest that conflict. Two failing calls
let both writes miss the same replica, which is what races in handoff need. In
`kv_reads` only the coordinator crashes (`Crashing`): a node that coordinates
nothing has no hints, requests or used counter to lose. Three crashes of the store are
the fewest in which the process ends with a record that is not synced, a start
replays it, and the machine loses it while that start's own leftovers meet a third. Two terms and
three nodes are the fewest with competing candidates, an intersecting majority and a
voter that moves on. One failed probe makes a suspicion, and gossip is unbounded;
one crash lets a suspicion meet the restarted process, whose incarnation is lower
than the one that the others hold when its clock was set back; two syncs remove a
member and add it again, one after the other or crossing; a third node is needed only to ask for an indirect ping. In
`cm_data` node 1 is the only replica of the key without node 3, and node 3 with it:
every change replaces all replicas of the key, and a copy that a rebalance removes
too early is the last one. Three requests are a write between two changes or a change
between two writes. One failing call makes a change fail half-way, so that the next
meets its leftovers; with two a rebalance and a compensation go on without their
callers at the same time, which is enough to lose a value (see the limits), so that
the run reaches both sides of the condition in `AckedHeld`. The joining node has two
virtual nodes, so that a partial removal can be seen; only the node whose
place in the ring changes restarts in the run (`Restarting`, a bound), any node in the theorem. In
`gc_objects` the upload takes as long as the assumption allows, with a chunk that
has already been there since before the grace period: the time of the file, the
cutoff and the upload meet at their boundary; one member's clock is the collector's
and is ahead, which is the harmful direction. A delete and a put of one object are
enough for a manifest to replace another during a round. The proofs below remove the
bounds for the properties they cover.

Symmetry is used for requests of one kind, for Raft nodes and for the syncs of
`fd_changes`, in runs without liveness only. Deadlock is checked in the replicated
store (a node's handoff task can always tick), in `fd_refute` and `fd_changes` (a node
can always gossip) and in `gc_objects` (a collection can always begin);
the store can stop when it refuses to open, a bounded Raft instance when its terms
are used up, and `cm_data` when its three requests are done.

Fairness. `ReplicatedKV`: every request that was accepted is weakly fair, because
each call returns or times out and its goroutine then goes on; so is the
handoff task, which `runPeriodicTask` runs for ever. Clients, crashes and delayed
messages are not fair. That handoff succeeds in the end follows from the bound on
failing calls: a replica that can be reached again is assumed, as hinted handoff
does. `FailureDetector`: the gossip task
ticks for ever and chooses targets at random, so each tracked member is sent to again
and again (strong fairness per target); its calls return, and a sync that was accepted
ends. Probes, late gossip and restarts are not fair: gossip alone must clear a
suspicion. That suspicions cease follows from the bound on probes.
`Raft`: a running call of `applyCommitted` is weakly fair, given a state
machine that receives from its channel; nobody is assumed to call it.

## What the violated runs show

1. **A version is used twice** (`kv_version_reuse`). A coordinator sends version
   (1, n) to another replica and crashes before its own `Set`. It restarts with
   counter 0; the version read of the next put misses that replica; the put gets
   (1, n) again. The two values are never reconciled, since neither is newer.
   `version.go:78` and `:90` promise otherwise. Without crashes versions are
   unique, which is proved.
2. **A record header at the end of the log is not repaired** (`store_torn_header`).
   `io.ReadFull` returns `io.EOF` when no byte of the payload is there, `Replay`
   takes this for the end, and the next record is appended behind the orphan
   header. The following start reads it as the orphan's payload: it refuses the
   log, or truncates acknowledged records. `ARCHITECTURE.md:296` says that a torn
   tail is truncated.
3. **A removed member comes back** (`fd_ghosts`). A probe of a member ends after
   `UntrackMember`; `MarkSuccess` and `MarkFailure` write the map entry again. The
   member is not in the ring, so no later sync untracks it, and it is probed and
   gossiped to for ever. `handleGossip` has the same window between filtering and
   merging. `membership.go:259` says that a removed member is no longer tracked.

Four limits that the same models show, but that no document rules out, are no
findings. `Set` of a version that the map already has returns nil and appends nothing
(`memory.go:67`). When the map has it from a log that a crash of the process left
unsynced, a crash of the machine can still lose it: the properties of the store are
about calls that appended. Two syncs at one node that cross on a member, one
removing and the other adding it, can leave it in the ring without the detector
tracking it (`Remove`, `Add`, `TrackMember`, which finds it tracked, then
`UntrackMember`), until a later sync adds it again; `RingTracked` leaves such members
out (`crossed`). An append that fails half-way leaves its part in the log, and with
`MaxErrors = 1` it takes the place of the first crash in `store_torn_header`. A
Raft node forgets its vote when it restarts, and with `MaxRestarts = 1` in
`RaftVotes.cfg` it votes twice in a term: the Raft core has no persistence yet.

Limits of membership changes, likewise found by TLC when the condition `Undisturbed`
is dropped, each of them without a second coordinator:

* A sync that its coordinator gave up on, and that has already compared versions, can
  store its older version after a newer one (`handler.go:192` to `211`). The next change
  may then use a version that another member already has; that member answers 204
  without applying it, and the change reports success.
* A rebalance that outlives its caller works by the ring it has read, and can remove a
  replica's copy while the next change succeeds. The value is still held elsewhere.
* A compensation that does not reach a member, followed by another failed change, lets
  two configurations carry one version.
* A coordinator that restarts begins with version 0, below what its members have.
* A coordinator that removes itself is not sent the new configuration and keeps its
  version. Its next change uses a version again, which the members answer with 204
  without applying it, and it reports success. `ChangeAgreed` therefore assumes
  `CoordinatorStays` in its theorem, and the run has such a coordinator.
* After a compensation that missed a member, or while a rebalance that nobody waits
  for goes on, an acknowledged value can be at a node outside the new members only,
  or move there. The next change rebalances its own members and does not find it.
  `ChangeKeepsReplicas` is about what can be asked of a change (`Floor`): the values
  that were acknowledged and held by a member when it began, with no earlier
  rebalance still running. What is outside is still held, as `AckedHeld` says.
* Two rebalances at different nodes that place the key differently can remove each
  other's copy, and an acknowledged value is gone. With N = 1, one coordinator, two
  failing calls and three requests TLC finds it in the instance of `cm_data` when
  `AckedHeld` is stated for all of `Version`. Node 1 holds the value when node 3 is
  added; its rebalance pushes it to 3 and loses its caller before `DeleteIfMatch`; the
  compensation at 3 loses its caller too, after it has compared versions. Node 3 is
  added again, and the old compensation then removes 3 from its own ring. A second
  rebalance at 1 moves the value to 3, the one at 3 moves it back to 1, the first one
  at 1 removes it there, and the one at 3 removes its own copy. With N = 3 it takes
  more calls that outlive their callers. `AckedHeld` leaves out such values (`crossed`);
  it has no condition on how many members are replaced or how many calls fail.
* A node whose ring is empty for a moment, because a sync replaces all its members,
  finds no replicas for a key, pushes it nowhere and removes it (`rebalance.go:31` to
  `62`). `crossed` has these too.

That two coordinators can give one version to two configurations is named in
`ARCHITECTURE.md` (490 and 722). A member that ignores a change, whatever the
reason, places keys by an older ring, and its rebalance can cross with another's.

## Proofs

All for any sets of nodes, keys and requests, any placement of keys, any quorums
with W + R larger than the number of replicas, and any number of failures.

`ReplicatedKVProofs`:

* `TypeCorrect`: `Spec => []TypeOK`. `TypeOK` alone is not inductive: a request
  that writes needs its key, coordinator and value to be there. `TypeInv` adds
  `WellFormed`, which says so per phase.
* `Monotonic`: `Spec => StoreMonotonic`. Every change of a store goes through
  `SetAt`, and `KeepNewest` returns the entry or something newer. The order of
  versions is shown to be a strict total order first.
* `ReadsSeeSettled`, `WritesAboveSettled`: `Spec => []ReadSeesSettled` and
  `Spec => []WriteAboveSettled`. The inductive invariant is `QuorumInv`: replicas
  in `acks` hold the value or newer (`AcksHold`, kept because stores only grow);
  what a read round has seen is at most what the replica now holds, and at least
  what every settled request in the reader's floor left there (`SeenHold`);
  requests in a floor stay settled (`FloorHold`). The quorum argument
  (`QuorumsMeet`) uses cardinalities of finite sets. Crashes need no extra care:
  settled values are on disks.

`ReplicatedKVWriteProofs`:

* `Handoff`: `Spec => []HintedOrStored`. `RemoveIfMatch` is the only action that
  removes a hint, right after its value was stored; with the order total, equal
  versions in a hint mean that what is removed is not newer than what was stored.
* `VersionsIdentifyValues`: `Spec => [](crashes = 0 => SameVersionSameValue)`. The
  invariant is provenance: every value in a store, hint, flush list, delayed
  message or read result is the value of some write on that key, and two writes
  with the same version are the same write because a coordinator's counter is at
  least that of everything it allocated. A crash breaks the latter, which is the
  first finding.

`RaftProofs`:

* `RaftTypeCorrect`, `AppliedPrefix`: `Spec => []TypeOK`, `Spec => []AppliedFromLog`,
  by an invariant (`ApplierAt`) that ties the message held while unlocked to the
  log: its index is one behind what is counted, committed, and so out of reach of
  `truncateFrom`.
* `VotesOnce`, `ElectionsSafe`: while no node restarts, one vote per node and
  term, hence one majority per term. The invariant `VotesRecorded` says that a
  vote of the voter's current term is the one in `votedFor`.

`MemoryStoreProofs`, for any keys, values, thresholds, failing operations and crashes:

* `StoreTypeCorrect`: `Spec => []TypeOK`.
* `RecoveryIsExact`, `CounterSurvives`: `Spec => RecoveryExact` and `Spec =>
  MaxVersionKept`. `Replay` is a recursive function, and `ReplayDef` shows that its
  definition has a solution. What frames do to one key does not depend on what they
  they are replayed on except in one way (`ReplayKey`): either they fix its value, or
  they remove it if its version is one of those that their records name. So
  replaying twice is replaying once, which is what happens when a
  crash comes between a new snapshot and the truncation of the log. The invariant
  (`RestoreInv`) has four parts. `LogsRestore`: every log that a crash may leave,
  replayed on any snapshot that it may leave, gives what was acknowledged, with the
  records in doubt on top or not. `CurrentRestores`: so does the map, which the next
  snapshot will save. `FileRepeats`: replaying the log on the map changes nothing but
  what is in doubt. `BasesAgree`: it makes no difference on which of the snapshots, or
  on the map, the log is replayed. The last two are needed because a start does not
  make durable what it has replayed: the map may hold records of which no disk is
  sure. The log is truncated only when the snapshot on disk is the map
  (`SnapshotHeld`). Exactness is claimed, as in the run, for starts on logs that
  `Replay` makes out; the torn header of the second finding is the other case.

`FailureDetectorProofs`, without bounds on probes, failures, crashes or syncs:

* `DetectorTypeCorrect`, `SuspicionsAnswerable`, `ViewsMonotonic`: `Spec => []TypeOK`,
  `Spec => []SuspicionAnswerable`, `Spec => ViewMonotonic`. The invariant
  `DetectorInv` says what versions can occur: a node gives itself version 1 (0 after
  being tracked again), every state of a known incarnation has at least version 1,
  and a suspicion of one at least 2, in members and in gossip. It needs that no
  node probes itself. A tie is then impossible.
* `RingIsTracked`: `Spec => []RingTracked`, for any number of syncs at a node. Marks and
  merges never forget a member. The invariant (`RingInv`) says that, for members that
  are not in `crossed`, no sync removes what another one at the node still adds
  (`Uncrossed`), so that a member stays out of the ring from `Remove` to
  `UntrackMember` (`GoneFromRing`).

`RaftProofs`, the refinement:

* `RaftKeepsPromise`: `Spec => KeepsPromise`. Every step of `Raft` maps to a step of
  `CommittedLog` or a stutter (`PromiseStep`). A truncation leaves the committed
  prefix alone because its guard is `index > commitIndex`; a delivery is the next
  entry because of `ApplierAt`.

`ObjectGCProofs`, for any members, placement, clocks, collectors and faults:

* `TypeCorrect`: `Spec => []TypeOK`.
* `CollectionSafe`, `UploadsSafe`: with `UploadsTimely`, `Spec => []CommittedReadable`
  and `Spec => []UploadKept`. The inductive invariant is about the files a manifest
  names. While the upload runs they are younger than every cutoff in use, of rounds and of
  late sweeps (`Fresh`). When a member has confirmed the manifest and still holds it, every
  round has that member still to ask, or counts the chunk as live, or has a cutoff
  before the file's time (`Covered`). That a quorum read finds the manifest
  means that a member that confirmed it still holds it, by the intersection of
  quorums.
* `DownloadsComplete`: with `UploadsTimely`, `Spec => []CutReadsExplained`. A download of
  the newest object has, for each chunk still to read, a replica still to ask whose file
  is good (`Served`). That file stays however long the download takes: it is `Fresh`
  while the manifest is being written, and `Covered` after that.

`ClusterMembershipProofs`, for any number of nodes, virtual nodes, coordinators,
changes, failing calls and restarts:

* `MembershipTypeCorrect`: `Spec => []TypeOK`.
* `PlacementsAgree`: with `NoCollision`, `Spec => []PlacementAgrees`: a ring is
  determined by its members (`Exact`), whatever the order of changes.
* `AckedValuesHeld`: `Spec => []AckedHeld`, whatever the rings, the collisions and the
  members that come and go. A rebalance removes its copy when every replica it has read
  from its ring has confirmed the value. The inductive invariant (`DataKept`) says that
  each of these still holds it (`CopiesHeld`). Only a rebalance at such a replica could
  remove it there; it moves the value as well, so it has read the same replicas
  (`PlacesAgree`), finds itself among them, and keeps its copy. That two rebalances
  agree is compared when one begins to push (`Crosses`); for values on which they do
  not, the property fails.
* `ChangesTakeEffect`: with `CoordinatorStays`, `Spec => []ChangeAgreed`. The
  invariant (`Orderly`) is about one coordinator and all that its earlier changes
  have left behind: handlers that go on without a caller, members that a
  compensation missed, and versions. In the first phase the version of the change is
  above what any node has that has not applied it, and above every sync in flight
  that is not this change's (`Targets`). So every target takes it, and since no
  later sync can be newer, one that has applied it keeps it (`InEffect`). A
  compensation stores its version at the coordinator too, which is what the next
  change counts on from (`UndoReaches`). That two handlers never run at one node
  (`Applying`) comes from `disturbed` being empty.
* `ChangesKeepReplicas`: with `NoCollision` and `CoordinatorStays`, `Spec =>
  []ChangeKeepsReplicas`. On top of `Orderly`, the invariant (`Keeps`) follows one
  value through the phases (`Carried`): a member of the new configuration has it, or
  the drain brings it to one; then a member that is still to be called has it, or
  the rebalance that is running brings it to all new replicas, or they all have it
  or a hint for it. In the second phase all members place the key as the new
  configuration does (`TargetsPlace`), so a rebalance removes a copy at a node that
  is no replica only. The hypotheses hold in `cm_data`.
* `ReplicaCount`, `AddMovesToNew`, `RemoveKeepsOthers`, about rings without
  collisions: `GetN` finds as many members as are asked for, and a change of the
  members moves keys to the new member or away from the old one only, as consistent
  hashing promises.

Assumptions: those named in the modules (`NodeAssumption`, `NilAssumption`,
`RequestAssumption`, `ReplicaAssumption`, `QuorumAssumption`, `MarkerAssumption`,
`TermAssumption`, `BoundAssumption`, `SeedAssumption`, `ClockAssumption`,
`RingAssumption`, `MemberAssumption`, `ValueAssumption`, `ChangeAssumption`,
`WriteAssumption`, `PlacementAssumption`, `TimeAssumption`, `NoRecordAssumption`),
which TLC evaluates in every run of their module. `NoCollision`,
`CoordinatorStays` and `UploadsTimely` are hypotheses of the theorems that name
them. `UploadsTimely` holds in `gc_objects`, the others in `cm_data`.

Induction. The theorems about data that grow step by step (the replayed log, the
first k members of a ring) are by induction over sets of numbers: a set that has 0
and with each number its successor has all numbers (`InductiveSet`), which follows
from least elements (`LeastNatural`). A function or an element that a definition
CHOOSEs is used only after it was shown to exist.

Only model-checked: the liveness properties (`WritesConverge`, `CommittedApplied`,
`LiveSeenAlive`), as the prover handles neither fairness nor ENABLED. Every safety and
action property of the passing runs is the subject of a theorem.

## Not modelled

Logging, formats and status codes; the old log format; sizes (the 16 MB record and
64 MB snapshot limits appear as failing operations only); clocks, except in
`ObjectGC` and as the first incarnation of a failure detector; generated code; HTTP
routing and process start beyond `New`. Of the chunk store, `Delete`, `Exists` and
the chunker's `WriteFromReader`, which only tests call, and the restart of a node,
which leaves chunk files as they are; of the ring, `Get`, likewise.

The objects are not composed with changing rings: a collection after a change relies
on the copies that rebalance made, and a chunk that could not be copied (`rebalanceChunks`
counts failures and goes on) has no hint. Values are not composed with the version
allocation of `ReplicatedKV` while rings change: versions are given.

## Plan

1. Done: `KVVersion`, `ReplicatedKV` and its proofs, `MemoryStore`, `Raft` and its
   proofs.
2. Done: `FailureDetector` and its proofs.
3. Done: `HashRing` and `ClusterMembership` with rebalance and drain, and their proofs.
4. Done: `ObjectGC` and its proofs.
5. Done: `CommittedLog`, implemented by `Raft`.
6. More abstract specifications: a register per key that `ReplicatedKV` implements for
   settled requests; a crash-atomic map that `MemoryStore` implements.
7. Done: theorems for every safety and action property of the runs.
8. Objects over changing rings; liveness of a membership change whose calls return.
