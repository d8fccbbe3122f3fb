# Verification of ndn-svs

TLA+ models of ndn-svs, the C++ library for State Vector Sync (SVS) over Named
Data Networking, with TLC configurations that check them on small instances
and TLAPS proofs about the sync core, the group, publishing, the fetcher and
the extra blocks. Paths below are relative to the
repository (`src/`); `PROJECT.json` maps each definition to the lines it
models and lists runs, mutants, findings, hazards and theorems.

## 1. The system

| Component | State | Operations | Hard behaviour |
| --- | --- | --- | --- |
| State vector, `version-vector.*` | `m_entries`: node, bootstrap time -> sequence number; `m_latestMap` | `set`, `get`, `encode`, decoders for V3 and V2 | zero and far-future entries; V2 has no bootstrap times |
| Sync core, `core.*` | `m_vv`, `m_stateGeneration`, `m_recordedVv`, timers, alive flags, pools | `onSyncInterest`, `updateSeqNo`, timers, `setParallel*`, `setSyncInterestBatching`, destructor | snapshots used by workers, stale results, suppression, callbacks that publish, shutdown |
| Worker pools, `core.cpp` | queue, threads, stop flag | `post`, `run`, `shutdown` | full queue, drain and join |
| Protocol codec, `sync-protocol.*` | none | `encode`, `decode` | two versions under one group prefix |
| Publishing, `svspubsub.cpp` | reserved numbers, commit head, staged and prepared publications, mappings | `publish`, `publishAsync`, `publishPacket`, `publishPacketAsync`, commit loop, retry, destructor | calls from any thread, partial failures, rollback, retry order, mixing both kinds of call |
| Storage, `svsync-base.cpp`, `store*.hpp` | the DataStore | batch insertion with rollback, batch removal | a store that throws in the middle |
| Fetcher, `fetcher.*` | queue, pending Interests, window, delayed retries | `expressInterest`, `setWindowSize`, answers of Face and validator | late validator answers, two kinds of retry, window stalls |
| Subscriptions and fetching, `svspubsub.cpp` | subscriptions, `m_fetchMap`, `m_publicationFetchStates`, mapping queries in flight, what was delivered from Interests | `subscribe*`, `unsubscribe`, update callback, mapping fetch, scheduler, inner validation, reassembly, delivery, destructor | one publication arriving on several ways at once, window stalls, retries against deadlines, sparse mapping answers, late validators |
| Piggyback and extension queues, `svspubsub.cpp` | notification list, queues of names, packets and repair requests; cache of received packets | fill and parse extra blocks, repair | size limit, repeat and miss limits, blocks taken by a worker or lost with a job |
| Mapping provider, `mapping-provider.*` | number -> name | insert, query | sparse ranges, ends of the number range |
| Security options, names, TLV numbers | none | pure adapters | failing, late |

How they interact. The application calls `SVSPubSub`, which stores packets
through `SVSyncBase`, records names with `MappingProvider` and advances
`SVSyncCore` with `updateSeqNo`. `SVSyncCore` multicasts Sync Interests that
carry its state vector, merges the ones it receives and tells the application
(or `SVSPubSub`) which numbers are new through `UpdateCallback`; these are then
fetched through `Fetcher`. Everything but the worker pools, the signing part
of `publishAsync` and the reservation of numbers runs on the Face thread.

What makes each part correct:

* core: `m_vv` never loses anything; every new number is reported once and in
  order, although workers compute on old snapshots; a publication is
  advertised, at the latest by the timer; nothing runs after destruction;
* publishing: an advertised number is complete (mapping and packets); numbers
  are unique, advertised in order, and every accepted call is committed; a
  commit that failed after its mapping was installed is made good by the retry;
* fetcher: each request is held once and ends once; the window is kept and used;
* receiving: what was named or reported and subscribed to is delivered or given up for a
  reason, once, whole and with its own content; no slot of the scheduler waits
  for nothing; nothing is delivered after destruction;
* extra blocks: an Interest keeps to its size, carries only what it advertises,
  and a name does not vanish between the queue and the network;
* group: nothing is invented, restarts do not collide with earlier lives, and
  all participants converge in spite of loss and suppression.

## 2. Modules

| Module | Models | Used by |
| --- | --- | --- |
| `StateVector` | vectors, merge, comparison, generation, recording | all of the sync modules, `StateVectorProofs` (lemmas) |
| `SyncReplica` | abstract: what a participant promises its application | refinement target of `SVSyncCore` |
| `SVSyncCore` | one participant with Face thread, two pools, validator, timers | `MCSVSyncCore` (instances), `SVSyncCoreProofs` (theorems) |
| `SyncCodec` | contents of Sync Interests, V3 and V2 | `SyncGroup` |
| `SyncGroup` | several participants over an unreliable network, restarts; composes `SyncCodec` and the merge and suppression rules of `StateVector` | `MCSyncGroup`, `SyncGroupProofs` |
| `PublishPipeline` | publishing calls, store, commit loop | run directly, `PublishPipelineProofs` |
| `Fetcher` | the windowed Interest queue | `MCFetcher`, `FetcherProofs` |
| `SegmentAssembly` | putting a segmented publication together again | `PubSubFetch` |
| `PubSubFetch` | receiving in `SVSPubSub`: subscriptions, names, fetch scheduler, packets from Interests, delivery; uses the `Fetcher` by its promise that a request ends once | `MCPubSubFetch`, `PubSubFetchProofs` |
| `ExtraBlocks` | what Sync Interests carry besides the vector, and its way through `SVSPubSub`'s queues and the core's production pool | `MCExtraBlocks`, `ExtraBlocksProofs` |

`FoldProofs` has no code of its own: it states the induction rules for the loops
(`FoldLeft`) that the proofs about `ExtraBlocks` and `PubSubFetch`
use.

### Correspondence of state and actions

**StateVector.** A stream is a pair of node and bootstrap time. `get` returns 0
for an absent entry and neither `set` nor a decoder admits 0, so a vector is a
total function into `Nat`.

**SVSyncCore.** A handler of the Face thread is one action: the io_context runs
it to completion. `updateSeqNo` has to be called on that thread as well
(`svsync-base.hpp:146`). The lock scopes inside a handler are not separate
steps, because the other threads, the pool workers, read only the snapshot in
their job and never `m_vv`. `queue`, `run` and `posted` follow a job from the
pool's queue to a worker and into the io_context. `token` and `alive` stand for
the `shared_ptr<atomic<bool>>` flags that closures capture. While the Face
thread joins a pool (`face` is the pool's name) only workers move. `recorded`,
`retxArmed` and `pubPending` are `m_recordedVv`, `m_retxEvent` and the event of
the batch window. Times are left out: a scheduled event may fire at any time.
The update callback of the application may publish from inside the handler
(`CallbackPublishes`). `heard`, `reported`, `inOrder` and `sent` are history.
Peers send any vector that claims no more of this node's stream than the node
has advertised (`IncomingInterests`); `SyncGroup` checks that this is so for
V3 (`OwnerLeads`, `NothingInvented`). The test hooks of the core are not modelled.

**SyncGroup.** Participants are the serial core without pools, validator and
batching, so receiving an Interest is one action. `net` is the set of Interests
the network may still deliver; delivery leaves them there (duplicates, delays,
reordering) and `Lose` removes them. An Interest equal to what a participant
would send on its next timer is not removed, as it would be sent again at once;
the invariants lose nothing by this because delivery is never forced.
`Restart` empties a participant; V3 takes a new bootstrap time, V2 keeps 0.
`group`, chosen once, says which version each node speaks and who publishes.

**PublishPipeline.** One node prefix; the code keeps its members per prefix and
no call touches two. `publishAsync` is one action: `m_segmentedPublishMutex`
and `m_asyncPublishMutex` serialise reservation, storing and staging, and the
Face thread sees only what is posted. The operations that may throw are those
in `MayThrow`; `Commit`, `InsertBatch` and `RemoveBatch` give the set of their
outcomes. A commit may throw before the provider has the mapping (`"mapping"`)
or after it, when the packet is pushed to `m_piggyDataQueue` (`"queue"`); the
rollback erases the packets and leaves the mapping. `CommitReady` is the whole
loop of `commitReadyPreparedPublications`. The loop that fits a publication into
packets appears as their number and as `"sign"`, which stands for anything that
throws before a packet is stored. Retry delays, what becomes of piggybacked
packets (see `ExtraBlocks`) and the active put to the Face (whose exceptions are
swallowed) are left out.

**Fetcher.** A request stands for the QueuedInterest that carries it through
queue, pending set, validator and scheduler. `processQueue` is part of each
action that calls it.

**PubSubFetch.** Receiving runs on the Face thread, so a handler is one action,
written as an operator on the receiver state (`Receiver`, `Becomes`). The
publications are the numbers of one stream; streams share only the window and
the bounded caches. `fetch` joins `m_fetchMap` and `m_publicationFetchStates`;
an entry keeps copies of subscriptions, which is why unsubscribing does not
remove them. `requests`, `checking` and `collecting` count what the `Fetcher`,
the inner validator and a `SegmentFetcher` still owe; `timers` the backoff
events. A Sync Interest is one action: the core gives it to
`onRecvExtraBlocks` and then to the update callback. `Blocks` are the contents
an Interest may have, as `ExtraBlocks` sends them: names of the notification
list, repeated names, packets; they may be of publications that the vector of
the Interest does not advertise yet, which workers and failed commits bring
about. `Answers` are the packets a `SegmentFetcher` may return, with at most one
of another publication among them: `decodeInnerSegments` compares the packets
with each other only, and a complete set of another publication would be
accepted, but only the producer itself can sign one under the outer names. `MappingAnswers` lets a producer have any part
of the range (`onMappingQuery`). Interest lifetimes and their estimates have no
values; a deadline passes at any time. Adding a repair request belongs to
`ExtraBlocks`. `given`, `wrong`, `owed` and `excused` are history.

**SegmentAssembly.** `DecodeInnerSegments` folds the loop over the packets
returned; a payload is the sequence of the packets whose contents it joins.

**ExtraBlocks.** Sizes are numbers of bytes: the node's name in a `MappingList`
(`NodeSize`), one entry of it (`EntrySize`), a packet, a repair entry, and the
header of a block, which grows at 253 (`Encoded`). The notification list is one
`MappingList` with all its entries, a repeated name is one of its own.
`NotifyIfItFits`, `PackEntry`, `AddSeqNos` and `EnqueueRepairPublication` are the
bodies of the loops of `onGetExtraData` and `onRecvExtraData`, each a single turn.
`TakeBlocks` is `onGetExtraBlocks`, done under `m_extraDataMutex` by the Face
thread or a worker: names and packets end up in a MappingData block, the repair
requests, which were packed one by one, in a second block. `mode` stands for the
options that decide who takes the blocks and who encodes them. A publication is
three steps (`InsertMapping`, `QueuePacket`, `UpdateSeqNo`), because a worker may
take blocks between them. Instead of the second, `CommitFails` rolls back: the
name stays in its queues, and if the provider had the mapping already it stays
too; the same number is then committed again, by the retry timer or by the next
`publish`, and its name queued once more. `publishPacket` and `publish(name)`,
when they succeed, are publications that are not small; when they throw they
leave their number behind, which is left out here. `stale` stands for the
comparison of generations.

### Faulty variants

The definitions commented "Faulty variant" are no part of any specification.
Each is a plausible slip in the definition after it (a dropped guard, a missing
reset, a stale value). `PROJECT.json` pairs each property with one; with the
variant in place TLC must find the property violated.

## 3. Runs

Sizes are distinct states.

| Run | Bounds | Shows |
| --- | --- | --- |
| `core_processing` (2.6M) | own stream and one peer, numbers to 1, asynchronous validator, two workers, queue of 1, destruction | `SnapshotFresh`, `RecordedBelowLocal`, `ReportedExactlyOnce`, `NothingHeardIsLost`, `PublicationAdvertised`, `StateMonotone`, the inductive invariant `IInv`, refinement of `SyncReplica`, `FencedAfterDestruction` |
| `core_production` (115k, fair) | own numbers to 2, failing sends and workers, production and batching switched on and off, destruction | `EventuallyAdvertised`, `SuppressionEnds`, `JoinReturns`, `FencedAfterDestruction` |
| `pipeline_async` (4.4k, fair) | up to 4 numbers of 0 to 2 packets | `AdvertisedIsServable`, `NoOrphans`, `PipelineComplete`, `OwnSeqMonotone`, `EventuallyCommitted` |
| `pipeline_mixed` (310k) | all calls mixed, up to 4 numbers, everything but erase may throw | `NumbersUnique`, `MappedIsStored` |
| `fetcher` (20k, fair) | 3 requests (endless, one, no timeout retry), one validation retry, window 1 to 2, with and without validator | `NeverLostNorDoubled`, `WindowUsedAndKept`, `AttemptsBounded`, `SilentAfterDestruction`, `EveryRequestEnds` |
| `group` (19k, fair) | three V3 nodes with one producer, and two V3 nodes with a V2 node and two producers; 1 restart, a bootstrap time that is refused | `NothingInvented`, `OwnerLeads`, `VersionsApart`, `Converges` |
| `pubsub` (735k) | 2 publications, the second of two segments, 2 Sync Interests, 2 failures, window 1 or 2, one retry, caches of 1; subscriptions of five kinds | `NoLeak`, `ProducerAtMostOnce`, `NotLost`, `ContentRight`, `SilentAfterDestruction` |
| `extra_blocks` (454k) | 2 publications, the first small, each with a commit that may fail once, 1 remote one, 1 repair request, queue of 1, timer Interests only with no job under way, room for about three items, repeat and miss limits of 2, all modes | `NamesReachTheNetwork`, `NamesAreAdvertised` |

Why the bounds are enough to be interesting. A stale result needs a
change of `m_vv` between a snapshot and its result: another peer vector, or an
own publication. Overtaking needs two workers; the full-queue fallback needs a
queue of 1 and two Interests; suppression needs a peer that lacks what this
node has. A rollback in the middle needs two packets, the order of commits two
or three numbers in flight with one of them failing. A window stall needs more
requests than the window has room for. Receiving needs two publications to have
a sparse mapping answer, a full window and an entry pushed out of a cache, two
Interests for a name that comes again, and two failures for a retry that meets
a deadline or its last attempt. A publication's extra blocks need two of them
and a limit that not everything fits into, so that entries miss a round. A
refused job needs one that waits when a publication is advertised, a name ahead
of its vector one commit that fails before the timer fires.

Every bound is a constant commented as such: `MaxSeq`, `MaxOwnSeq`, `MaxPub`
(numbers), `MaxRounds` (Interests received by `PubSubFetch`), `MaxFaults`,
`MaxRequests`, `MaxJobs`, `MaxFailures`, `MaxPosted`, `MaxValidating`, `MaxToken`,
`MaxRestarts`, `MaxExpressed`. `Many` counts deliveries and copies of a
subscription as none, one or more.

Deadlock is not checked where the system may stop: after destruction
(the core, the pipeline, the fetcher and `pubsub`) or when all requests
or numbers are used up.

### Fairness

* Timers, posted closures and joins are weakly fair: the io_context runs what
  is due. Worker threads are scheduled by the operating system. A worker's
  posting is strongly fair because only the bound `MaxPosted` disables it.
* `RunPosted(FALSE)` in the core and the successful `RetryTimer` in the pipeline
  are strongly fair: a signature or a commit that is tried again and again
  succeeds some time. Without this a failing signer refutes every liveness claim.
* In the group, an Interest that its sender would repeat on each timer reaches
  each participant in the end (strong fairness of `Receive`), and copies of old
  Interests do not arrive for ever (they have a lifetime: weak fairness of `Lose`).
* In the fetcher each Interest is answered or times out and the validator
  answers. The timeouts of a request with a negative `nRetries` are bounded by
  `MaxExpressed`: a request nobody answers is retried for ever by design.
* In `PubSubFetch` a request, a check or a backoff event that is due comes to an
  end (weak fairness of `Progress`). Nothing is assumed of Sync Interests: that
  is the point of `pubsub_window`. `ExtraBlocks` is checked for safety only.

### Disagreements between code and documentation

Four runs are expected to fail; each checks what a comment in the repository
says (quoted in `PROJECT.json`).

* `core_stale_production`: with production workers, a vector merged between
  `updateSeqNo` and the worker's result makes `processSyncProductionResult`
  drop the Interest; the publication waits for the timer (`core.hpp:348`).
  `EventuallyAdvertised` still holds.
* `pipeline_mixed_packet`: `publishPacket` takes a number without moving the
  commit head past it. An asynchronous publication made afterwards is prepared
  and stored and then waits for ever behind a number that no prepared
  publication has (`svspubsub.hpp:250`, `AsyncCommitted`).
* `extra_blocks_size`: the running sum of `onGetExtraData` does not see that the
  header of the block grows by two bytes when its content passes 252. Items that
  fill `maxApplicationParametersSize` exceed it by two bytes, though it is the
  "Maximum encoded size of extra blocks" (`svspubsub.hpp:69`, `SizeBounded`).
* `pubsub_window`: `fetchAll` stops at `publicationFetchWindow` and is not called
  when a fetch succeeds. What found no room waits for another update or the
  backoff event of a failed fetch, though it "must be fetched by name"
  (`svspubsub.hpp:109`). With a window of 2 for the two publications
  `EveryFetchEnds` holds.

Further behaviour of the same kind, met while modelling and left as hazards:

* A restart within the same second reuses the bootstrap time and the numbers
  under it (`OwnerLeads` fails in `Group.cfg` with `SameEpoch = TRUE`).
* A subscription to names gets a publication more than once: each time
  `processMapping` sees its name the subscription is entered into `m_fetchMap`
  again, three times for a first Interest with the name but not the packet
  (notification list, repeated name, update callback), and anew when the name is
  repeated later. `ProducerAtMostOnce` is stated for subscriptions to producers.
* A packet the `Fetcher`'s validator refuses ends in an empty callback: its entry
  keeps its place in the window, and a mapping query its range in flight
  (`NoLeak` with `"invalid"` in `MayFail`).
* With subscriptions to producers and to names together, a publication delivered
  from a Sync Interest to one kind is taken as delivered to all (`NotLost`
  without `Unmixed`).
* If one publication's name extends another's, the cache lookup by prefix
  delivers the wrong content (`ContentRight` with a pair in `Extends`).
* Blocks taken by the Face thread for a job (mode capture) are lost when the
  pool refuses the job or the result is stale; blocks taken by a worker are not
  encoded when V3 Interests are signed on the Face thread (mode deferred); in
  mode worker an Interest may name publications newer than its vector. The
  properties of `ExtraBlocks` say for which modes they hold.
* `insertMapping` queues the name before the commit can fail. After a rollback
  the timer's Interest names a publication that is not advertised yet, and the
  mapping may stay with the provider while the packets are gone, until the retry
  (`NamesAreAdvertised` and `MappedIsStored` say how far this goes).
* Answers to repair requests are queued however often they are queued already.

Older ones concern the core and the pipeline: switching batching off drops the pending Interest rather than sending it, which
`PublicationAdvertised` does not survive and the timer makes up for; `publish`
while an asynchronous publication waits advertises past the latter, whose
mapping is then never installed; `publishPacket` in the same situation is
followed by a commit that lowers the advertised number; enabling a pool that is
enabled replaces its alive flag, and closures that captured the old one outlive
the object (`core_processing` with `MayReEnable = TRUE` and `MaxToken = 2`); a rollback whose `erase`
throws is retried as if all packets were still there (with `"erase"` in
`MayThrow`, `AdvertisedIsServable` fails). The store of the repository erases
from a map and does not throw, so the runs leave `"erase"` out.

## 4. Proofs

The theorems hold for every value of the constants that satisfies the modules'
`ASSUME`s, that is for any number of streams, nodes, workers, requests,
publications and packets, any queue, window and retry limits and any bounds.
Where a theorem needs a condition on the configuration, it is a hypothesis of
that theorem and listed here.

| Module | Theorem | Statement |
| --- | --- | --- |
| `SVSyncCoreProofs` | `Invariance` | `Spec => []IInv` |
| | `TypeCorrect`, `SnapshotsFresh`, `SilentMergeLearnsNothing`, `UpdatesExact` | `Spec => []P` for `TypeOK`, `SnapshotFresh`, `RecordedBelowLocal`, `ReportedExactlyOnce` |
| | `Monotone` | `Spec => StateMonotone` |
| | `CoreImplementsReplica` | `Spec => ReplicaSpec` |
| | `NothingHeardGetsLost` | `Spec => []NothingHeardIsLost` |
| | `DestructionFences` | `Spec => FencedAfterDestruction`, if `~MayReEnable` |
| | `PublicationIsAdvertised` | `Spec => []PublicationAdvertised`, if `~MaySendFail` and only the processing pool may be enabled |
| `SyncGroupProofs` | `GroupInvariance`, `InventsNothing`, `VersionsStayApart` | `Spec => []P` for `IInv`, `NothingInvented`, `VersionsApart` |
| | `OwnerStaysAhead` | `Spec => []OwnerLeads`, if `~SameEpoch` |
| `FetcherProofs` | `FetcherInvariance`, `FetcherTypeCorrect`, `RequestsConserved`, `AttemptsStayBounded` | `Spec => []P` for `IInv`, `TypeOK`, `NeverLostNorDoubled`, `AttemptsBounded` |
| | `WindowDiscipline`, `DestroyedIsSilent` | `Spec => WindowUsedAndKept`, `Spec => SilentAfterDestruction` |
| `PublishPipelineProofs` | `PipelineInvariance`, `PipelineTypeCorrect`, `NumbersNeverReused` | `Spec => []P` for `Base`, `TypeOK`, `NumbersUnique` |
| | `MappedStaysStored` | `Spec => []MappedIsStored`, if erase does not throw; a throw after the mapping was installed is included |
| | `PipelineStaysComplete`, `OwnSeqNeverGoesBack` | `Spec => []PipelineComplete`, `Spec => OwnSeqMonotone`, with asynchronous calls only |
| | `AdvertisedStaysServable`, `NothingIsOrphaned` | `Spec => []P` for `AdvertisedIsServable`, `NoOrphans`, with asynchronous calls only and if erase does not throw |
| `ExtraBlocksProofs` | `ExtraInvariance`, `ExtraTypeCorrect`, `NoNameIsForgotten`, `VectorCoversTheNames` | `Spec => []P` for `IInv`, `TypeOK`, `NamesReachTheNetwork`, `NamesAreAdvertised` |
| `PubSubFetchProofs` | `PubSubInvariance`, `PubSubTypeCorrect`, `DeliveredAtMostOnce` | `Spec => []P` for `IInv`, `TypeOK`, `ProducerAtMostOnce` |
| | `NobodyWaitsForNothing` | `Spec => []NoLeak`, if `"invalid" \notin MayFail` |
| | `ContentIsRight` | `Spec => []ContentRight`, if no name extends another |
| | `SilenceAfterDestruction` | `Spec => SilentAfterDestruction` |
| | `NothingIsLost` | `Spec => []NotLost` |
| `FoldProofs` | `FoldSteps`, `FoldInvariant`, `FoldReaches` | induction over a loop |

`StateVectorProofs` holds the lemmas on vectors that the core and the group
share: `Below` is an order, `Join` the least upper bound, and the generation
changes exactly when a merge learns something (`GenerationTellsMerge`).

Why the hypotheses. Each excludes a configuration in which the code does
violate the property, which section 3 describes: enabling an enabled pool
(`MayReEnable`); production workers, batching that is switched off or a send
that fails, after which only the timer advertises the number; a restart within
the same second (`SameEpoch`); a rollback whose `erase` throws; synchronous
calls made while asynchronous publications wait; a packet that the Fetcher's
validator refuses, of which the scheduler never hears; a publication whose name
extends another's.

Assumptions on the constants are their types and that marker values are no
ordinary values (`NoVector` and `Undecodable` are no vectors, `Idle` no job), and
for the group that 1, the bootstrap time of the first life, is a bootstrap time.
That peers never claim more of this node's stream than was advertised is part of
the core's environment (`IncomingInterests`), not a hypothesis; `InventsNothing`
and `OwnerStaysAhead` prove it for V3 groups without a restart in the same
second. It does not hold for a restarted V2 node, which learns its own stream
back from its peers.

### The core

The handlers replace `m_vv` by a vector computed elsewhere, so
the heart is `SnapshotFresh`: a job in flight with the current generation holds
the current vector, and every snapshot lies below the current vector. It is
kept because each change of `m_vv` raises the generation (`GenerationTellsMerge`
for merges). `ReportedExactlyOnce` says `reported` equals `m_vv` on other
streams; it is not inductive alone: the timer merges `m_recordedVv` without
telling anyone, so it needs `RecordedBelowLocal`, and a vector that knew more of
the own stream than `m_vv` would be reported as news, which `OwnStreamNotAhead`
rules out with `SentBelowLocal`. `IInv` is the conjunction of these.

Each operation is shown to be a `CoreStep` (how it may change the
vector, the generation, the recorded vector and the history) by a lemma of its
own, and each action to be a `FrameStep` (the jobs in flight afterwards were in
flight before or are snapshots of the new state; nothing enters the validator that
claims too much). `StepKeepsIInv` then proves once that both together keep
`IInv`. `Monotone` and `CoreImplementsReplica` read their step properties off
`CoreStep`.

The second part of the module follows the jobs instead of the vectors. A job leaves the
pools only by being run with its token alive, in which case its vector is merged
whether the result is stale or not, or by losing its token, which counts as
dropped; this gives `NothingHeardIsLost`. `FencedAfterDestruction` needs two
more facts: a pool that is switched off and joined has an empty queue and the
destructor leaves none enabled (`Joining`), and a live token is that of an
enabled pool (`AliveIsEnabled`); the second is what a repeated enable breaks.
`PublicationAdvertised` is kept by `OwnAdvertised`, which adds that no batch
window is open and that no vector on its way to a merge says more of the own
stream than was sent.

### The group

`NothingInvented` speaks of what a receiver decodes, so it is not inductive.
`IInv` says of each vector and each Interest that it is honest for its version:
it holds numbers up to `published`, of streams of its own version only. Lemmas on
`SyncCodec` show that encoding and decoding keep honesty, V2 included, whose
Interests carry no bootstrap times and are decoded to 0. `OwnerLeads` needs
`NoFutureEpoch` besides: nothing was published under a bootstrap time later
than the node's present one, so that a restart begins an empty stream.

### The fetcher

`NeverLostNorDoubled` counts the places that hold a request. The invariant
works with the set of QueuedInterests instead (`Sound`: queue, pending,
validating and delayed are disjoint and no two hold the same request, with what
is left of each budget; `Accounted`: what is issued and not ended is held), and
`WindowFull`: the queue is empty or the window is full. `processQueue` moves a
prefix of the queue, as many as there is room for, and a lemma shows that this
restores `WindowFull` after anything that took out an Interest.

### Publishing

`Base` says, for any mix of calls, that whatever has a number has a reserved one
(`Ordered`) and that a publication on its way is in one place, with the number
of packets of its call (`Tracked`); this gives `NumbersUnique`. `FlagsTrue`: the
flag `stored` of a waiting publication tells the truth, as long as `erase` does
not throw. A mapping may be there before its publication is committed, left by
a rollback, so `MappedIsStored` needs both: what has a mapping and is not in the
store is waiting with its flag cleared. The mapping that a failed
`publish(name, value)` leaves behind belongs to no publication until the next
call takes the number. `Chain`, for asynchronous calls: the commit head is one
above the advertised number, all numbers up to it are mapped and all above it
are waiting; from it follow completeness and monotonicity. `Served`, with
`Chain` and `FlagsTrue`: the packets of what is advertised are in the store. The commit loop,
which runs over any number of publications, is a choice of how many it commits,
and the lemmas take that number as a parameter.

### The extra blocks

`TakeBlocks` is three loops over queues. `FoldProofs` gives the rules: a set that
contains the start and is closed under a turn contains the result
(`FoldInvariant`), and a turn that leads into a set which later turns do not
leave fixes the result (`FoldReaches`). A module instantiates it with the turn
of its loop for `op`. The induction is on sets of numbers, from the
well-foundedness of `<`, because a rule with a predicate for a parameter cannot
be used by the provers here. With `FoldInvariant` the counters of entries stay
below their limits and what is taken was queued; with `FoldReaches` each entry of
a queue ends up taken, kept or expired. `IInv` consists of `Shape` (types, which
jobs hold blocks in which mode, and that what is queued or held by jobs was
published before or belongs to the publication under way, whose number a failed
commit leaves open) and `Covered`, which is `NamesReachTheNetwork` for the
publication under way as well.

### Receiving

The properties of `PubSubFetch` meet in each publication: its entry in
`m_fetchMap` may end by a fetch, by a retry, by a SegmentFetcher or by a packet in
a Sync Interest, and each of these may still be on its way when another has
ended it. `Fine` is the invariant of one publication, and `IInv` asks it of each:

* `OnceFor`: what a subscription to a producer has got and what it is entered
  for make at most one. The exception is a subscription for packets that has
  its first packet while the other segments are collected for the sake of
  others; nothing gives it the blob. This is why `ProducerAtMostOnce` is not inductive.
* `Unreported`: no subscription to a producer knows of a number that the core
  has not reported. `updateCallbackInternal` enters each such subscription when it
  reports a number, so the entry has to be without it until then, although the
  name and the packet may have come before.
* `OneAtATime`: a segmented publication has one request, check or collection
  under way, for the entry it has now. Packets of segmented publications do
  not travel in Sync Interests, so that no other packet ends the entry while
  segments are collected for it. For the others it is false: a fetch whose
  entry a Sync Interest has ended may be followed by a second one.
* `Served`: the part of `NoLeak` on entries in flight, in backoff and delivered.

To these `Good` adds the window and the content, and `Due` that an entry that is
ready has an event if there is room for all. `Due` fails in the middle of
`onRecvExtraData`, which enters fetches and calls `fetchAll` at its end; the flag
`queued` of the receiver state marks these states, and the lemmas show that
`FetchIfQueued` leaves none.

Lemmas on the operators say which publication each changes and that it is `Fine`
afterwards (`StepAtOne`). `FoldProofs`, instantiated with the turns of the four
loops (packets of an Interest, names of a mapping, `fetchAll`, segments of a
publication), carries this over any number of them. `fetchAll` sorts first:
`SortedLists` shows, by counting, that a list in which each element stands where
the number of its predecessors says has all elements, provided the order is
one; without that, the loop might pass over an entry that is due. What
`DecodeInnerSegments` returns is the whole blob because each turn of its loop
adds a new segment number of the same publication, so that as many segments as
the last number says are all of them.

`NotLost` rests on a second invariant, `KeptInv`, which is shown to hold together
with `IInv`. It follows each pair of a subscription and a publication it has to
get. There are two cases, and in each a set of publications whose subscriptions
have been entered: if nobody subscribes to producers (`Naming`) the ones whose
name is known, advertised or not; if nobody subscribes to names (`Nameless`) the
reported ones. `NotLost` is not inductive for four reasons, and `KeptInv` has a
part for each:

* `Kept` says of a pair whose publication is in that set that it is delivered,
  given up or entered, and that a publication outside the set has no entry and
  is not in the queue of publications delivered from a Sync Interest. Otherwise
  `processMapping`, which passes over what is in that queue, would skip it.
* A subscription for packets has got its packet while the other segments are
  collected: when they come, the entry ends and only blobs are delivered.
* `RangesGivenUp`: `scheduleMappingFetch` does not ask for a range that is in
  flight or suppressed. A range that is in one of the two maps without a query
  has been given up, so that leaving it out loses nothing.
* `OwedWanted`: what is owed was wanted by its subscription, so a name that comes
  is matched by each subscription that waits for it; and `NamesAsked`: a name
  that is owed and not known is asked for.

The lemmas on the operators are of two forms. `Keeps` is for those that begin
nothing (fetches, failures, retries, caching of packets), and `EachNameKept`,
`UpdateNamesKept` and `UpdateProducersKept` for those that extend the set.
`ChunksCover` and `MissingRangesCover` show that the ranges of the queries cover
each number whose name is missing.

### Left to TLC

The liveness properties, which need fairness and ENABLED.

## 5. Not modelled

* Values of timers, delays and Interest lifetimes, statistics, logging, TLV
  bytes, compression.
* The V2 validator path of the core, exceptions thrown out of the timer,
  destruction of the core from inside its own callback, and an answer to
  `registerPrefix` that comes after destruction: its callbacks (`core.cpp:236`)
  hold `this` without a fence, and what ndn-cxx does with them then is not known
  here.
* Serving Data Interests and caching fetched Data in the store; the prefetching
  request of a producer subscription, whose answer is thrown away.
* Repair requests for publications of a third node, and extension blocks that
  do not decode, other than repair requests (the whole collection is refused
  before anything changes).
* Mapping answers that do not decode: the exception leaves the Fetcher's
  callback, and what happens then is the application's choice.
* Signers, validators, Face, SegmentFetcher and network beyond the ways they
  answer. Naming policies, security options and examples keep no state.

`PROJECT.json` lists these as hazards with a note where the code is exposed.

## 6. Plan

1. `SyncTimer`: the arithmetic of suppression and retransmission delays.
2. `SVSyncCore`: the V2 validator path and lower numbers from `updateSeqNo`.
3. Several streams in `PubSubFetch`, to share the window and the caches.
