# AgentBus: TLA+ models, checks and proofs

AgentBus is an event bus for agents: an in-memory broker in front of a
write-ahead log, a durable workflow runtime whose state is a fold of events on
that log, and an optional cluster in which the shards of sessions are led by
one broker and replicated to the others. These modules model the parts of it
that carry the guarantees: what is acknowledged is kept, work is handed to one
worker at a time, and a log means the same thing on every broker and after
every restart. TLC checks them on small instances; TLAPS proves the
safety properties for every size.

Line numbers refer to the repository's sources; `PROJECT.json` maps every
definition to the lines it translates.

## 1. The system

| Component | State | Operations | Hard parts |
|---|---|---|---|
| workflow runtime (`internal/workflow`) | executions, task queues, indexes of running and terminal work, completion fences, poller cursors | Submit, LeaseBatch, Heartbeat, Complete, Fail, SweepExpired, poller | publish and apply are two steps; every event is applied twice; long polls; the sweeper works on a snapshot; restart |
| main log (`internal/wal`) | file, buffer, generations of the group commit, poison flag | AppendRecord, group commit, Close, Replay | fsync with the mutex released, errors in the middle of a round, torn tails |
| shard log (`internal/cluster/shardwal/shardwal.go`) | the same, with offsets and a condition variable for subscribers | Append, Subscribe, Replay, Close, Open | the same, and a subscriber that switches from file to live records |
| high-water mark (`hwm.go`) | offset per replica, least of them | SetReplicas, Update, WaitFor | replica sets that change while publishes wait |
| shard manager (`manager.go`) | open shards and marks | Shard, HWM, Close | opening outside the mutex |
| replicator, transport | one worker per led shard, one stream per follower; on the follower a call per stream | Add, Drop, sessions; Replicate | broken streams, restarts at offset 0, two leaders at once |
| metadata, assigner, leadership loop | Raft log of shard leaders, applied per broker | Plan, FSM.Apply, tick | brokers learn of a move at different times; suspicion of live brokers |
| membership, router, ring | live members, hash ring | gossip, RouteSession | wrong views |
| gRPC API, TCP server, HTTP publish | connections and streams | publish, batch, consume, fetch, commit | shard log, quorum, main log and memory are four steps |
| in-memory broker | ring per partition, subscriptions | Publish, Fetch, Next | eviction under slow readers, wake-ups |
| consumer offsets | map and a debounced flusher | Commit, flush, load | crash before the flush |
| control plane | agents, sessions, inboxes | Ingest, Escalate, Deliver, Sweep | late events, full inboxes |
| rate limiter | token buckets | Allow | boundaries, eviction |
| Go SDK | worker loop, redirects, replay cursors | lease/heartbeat/complete loop, ReplaySession, PublishAgent | retries of what was done, answers that get lost |
| CLI | - | publish-agent, retry-agent | a retry of a retry |
| dashboards, metrics, telemetry, generated code | - | - | not modelled |

How they interact: a gRPC publish routes the session to its shard
(`RouteSession`), appends to the shard log and waits for the high-water mark in
cluster mode, appends to the main log, and publishes to the in-memory broker.
The workflow coordinator publishes its events on that same path and applies
them to its store directly afterwards; a poller reads the broker's ring and
applies every event once more, which is also how a restarted broker, after
replaying the main log into memory, rebuilds the store. In a cluster the
leadership loop reads the metadata state machine every second and starts or
stops replication workers, whose acknowledgements move the high-water mark that
publishes wait for.

What makes each component correct: results are accepted once and fenced by
attempt, the store agrees with its log and no pending work is lost (workflow);
an acknowledged record is durable, replayed and stays where it is, and every
call returns (the logs); the mark never runs ahead of what a replica has counted, followers hold
prefixes of their leader and catch up (replication); no message is skipped or
lost to a reader that keeps up, committed offsets survive (broker, consumers);
a handoff reaches its agent or is counted (control plane).

## 2. The modules

| Module | What it is |
|---|---|
| `WorkflowFold` | the event fold of `state.go`, `event.go`: pure operators on executions |
| `Workflow` | the runtime: store, coordinator handlers as goroutines, sweeper, poller, the publish path beneath |
| `WorkflowRestart` | `Workflow` with a process that dies and replays its log |
| `WorkflowProofs` | the theorems of both: types, completions, indexes, the log before the state, attempts, reservations, queues, restarts |
| `WorkflowWorker` | `Workflow` with the workers of the Go SDK as its clients |
| `ShardWal` | one shard's log with writers, a subscriber, failures and crashes |
| `ShardWalProofs` | its theorems |
| `MainWal` | the broker's write-ahead log in its sync modes |
| `MainWalProofs` | its theorems |
| `Replication` | one shard in a cluster: assignment, leadership loop, replicator, followers, quorum waits |
| `ReplicationProofs` | its theorems |
| `Assignment` | what the metadata layer promises about one shard (abstract) |
| `ClusterControl` | boot, Raft metadata, assigner, gossip, routing; implements `Assignment` |
| `ClusterControlProofs` | its theorems, the refinement of `Assignment` among them |
| `TopicRing` | the ring of one partition: pure operators |
| `TopicRingProofs` | what a publish and a replay leave in a ring of any capacity |
| `OffsetManager` | committed offsets and their debounced flusher |
| `Delivery` | publishers, log, rings, subscriptions, offsets, shutdown and restart together |
| `Replay` | paged and filtered `Fetch` with the SDK's `ReplaySession` as its client |
| `DeliveryProofs` | the theorems of `Delivery` and of `Replay` |
| `AgentEvents` | the agent envelope: built, wrapped, parsed and retried |
| `ControlPlane` | poller, registry, run states, inboxes, escalation, restarts |
| `ControlPlaneProofs` | its theorems |
| `MC...` | small instances of each |

The composition: `TopicRing` is used by `Delivery`, `Replay` and `ControlPlane`,
`OffsetManager` by `Delivery`, `AgentEvents` by `ControlPlane`; `WorkflowRestart` and
`WorkflowWorker` extend `Workflow`; `ClusterControl` implements `Assignment`, which is
what `Replication` assumes of the metadata beneath it, and `Replication` has the two
steps of an append whose rounds `ShardWal` takes apart.

### Workflow

`execs` is the map of executions; `queues`, `queued` and the index variables are
the fields of `Store`; the log of events stands for the partition of the
workflow topic, first in the file and then in memory. A handler goroutine has a
control point (`pc`) and is interrupted wherever the store's mutex is
released: between reserving and granting a lease, between appending an event
(`WalAppend`), delivering it to memory (`PublishToPartition`) and applying it
(`ApplyAndReturn`, `ApplyLeased`, `ApplyCompleted`, `ApplyFailed`), and while a long
poll waits. `Ingest` is the poller, `SweepExpired` and `SweepNext` the expiry
sweep over its snapshot, `PublishError` any append that fails. Clients are not
constrained: they may complete or fail with any lease they were ever given,
late, twice or at the same time. Time is a counter of lease periods.

`WorkflowWorker` replaces those clients by the loop of `eventbus/workflow.go`. A
slot leases (`LeaseTask`), runs the handler with a heartbeat goroutine beside it
(`execute`, `HeartbeatTask`), reports (`CompleteTask`, `FailTask`) and begins again.
`CallFails` and `HeartbeatFails` are answers that get lost although the broker may
have served the call; `Cancel` ends the slot's context wherever it is. A `Budget`
says how many lost answers, heartbeats, ticks and cancellations a run has. The clock
is bounded, so a lease may outlast it: `ExecutionEnds` waits for no longer than that
only when nobody has the task any more (`Abandoned`: no worker that goes on runs it or
is about to be handed it, no call and no sweep is writing an event of it, `AtWork`).
A lease that a worker holds has to come to its end.

### The two logs

A file is a sequence of records with three marks: what is durable, what the
process has written, and the end of the buffer. The group commit is modelled at
the granularity of its mutex: a writer appends, becomes the syncer or waits,
flushes and opens the next generation, fsyncs with the mutex free, and takes it
again. `bufio` may flush on its own at any append. A killed process leaves what was
written; a power failure leaves what was durable and any part of the rest, the
last record of which may be torn. A restart runs `recoverTail` or the replay of
`main`. `ShardWal` adds a subscriber with its backfill, its wait on `cond` and its
cancellation. `MainWal` has a set of configurations (`Configs`): sync mode, the
system calls that may fail, whether the machine keeps the pages of a failed
fsync, and how often the process ends.

### Replication

One shard, any set of brokers. `moves` is the part of the Raft log that names the
shard's leaders and `applied` how much of it each broker has seen; `alive` is each
broker's gossip view, which may be wrong. `Tick` is one pass of
`refreshShardLeadershipLoop`; `run`, `selfUpdateLoop`, `OpenReplicate`, `Send`, `RecvAck`
and `Break` are the goroutines of a replication worker, `BackfillEnds` the point where
a session's subscription turns from the file to fsynced records. `Replicate`,
`ReplicateWrite` and `ReplicateCommit` are the follower's handler: its read of the tail
and the two steps of its append; `Publish`, `PublishCommit` and `WaitQuorum` are
`appendDurable`.

`Shard.Append` counts a record when it is in the buffer and keeps the count when the
commit fails, and everything that asks a shard how far it is asks `Tail()`. So `log` is
what the tail counts, `file` and `synced` how much of that is written and covered by an
fsync, and `failed` the error of the last round. `Write` counts; `Commit` flushes and
fsyncs all there is, fails in the fsync, fails in the flush with any part of the
buffer written, after which `bufio` refuses every further write, or finds that another
round has covered the record. What a crash loses of the buffer is kept in the history
`lost`. `MarkIsHeld` speaks of `Counted`, the tail and what was lost of it, because that
is what the code keeps; that the record is in the replica's file (`AckedIsInFiles`) is
false and shown so by `rep_claims`. A round of the group commit is one step here, which
`ShardWal` takes apart, a failed flush leaves whole records, and a broker is killed
without its machine.

Two facts of the deployment are assumed: the goroutine that `Add` starts reaches
`SetReplicas` before the next tick a second later, and every broker is registered
with its client address before it is followed.

### Cluster control

`log` is the committed Raft log of metadata commands, `applied` and `fsm` how far
each broker's state machine has come and what it holds, `snap` its last snapshot,
`alive` its gossip view. `FsmApply` has the five commands of `fsm.go`; no code issues the
two that add and remove members. A snapshot is version 2: version 1 is only read, and
never written by this code. `boot` is where a broker is in `bootstrapAndAssign`:
`registerSelf`, `BootstrapShardCount`, `PeersToRegister` and `RegisterPeer`, then the
loops `retryRegister` and the assigner. The assigner reads the state machine and
gossip at `StartPlan`, at every tick on the leader, and issues one command per
`PlanShard`, so that leadership, the leaders and the view may change underneath it. A
`Peer` is whether its gossip and its client address are configured, and `ParsePeers`
says what the flag `--peers` makes of that: neither. `Apply` is `Metadata.Apply`: committed
and applied, committed after its two seconds were over, or refused. The Raft library
is external: one log, at most one broker that commits, a majority that is up; gossip
is a set per broker that may lag or be wrong. `RouteSession` and `Accepted` are the
router and the single redirect the SDK follows.

`Assignment` has one history of a shard's leaders that only grows, and for each
broker a place in it: a broker may learn, fall back when it restarts, and never
believes in a leader that was not appointed. `ImplementsAssignment` is that
specification with `moves`, `known` and `view` computed from the log and the state
machines, as a property of `cl_core` and a theorem of `ClusterControlProofs`.

### Delivery

`topic` holds a ring per partition, `wal` the log, `pub` and `cons` the connections.
A publisher's request is interrupted where the code takes no lock across: the
append, the write to the ring and the notification are steps of their own, in the
order of the handler (`apiPublish` has ring before log). A subscription reads
(`NextFetch`), looks once more or waits on its one-place channel (`NextWait`, `Wake`),
sends, commits and signals the flusher one message at a time. `OffsetManager` keeps
the map and its file apart; `StartSave` copies the map, `Saved` or `SaveFails` comes
later. The process is stopped in the order of `main` (`Sigterm`, `GrpcStopped`, `Stop`),
or crashes, which loses the buffered part of the log outside of mode `always`; `Start`
replays the log and loads the file. A failed append poisons the log (`fatal`, `syncErr`):
`AppendFails` from then on answers with the error, unless the failing `Write` came while
another publisher's fsync was under way (`WriteFailsInRound`), whose end clears the
error and leaves the log poisoned (`RoundEnds`); after that every append returns nil
without writing (`AppendUnwritten`). `disturbed` records what parts log and rings:
overlapping requests of a partition, `/api/publish`, records lost in a crash, and
appends answered unwritten. `RingFollowsWal`, `CommittedWasSent` and `CleanStopKeepsAll`
are about what happens without that. A message is the number of its publication.
What is not read by any guard and only says what happened stands in `histories`.

### Replay

One page at a time: `StartFetch` reads the tail, `Scan` is one locked read of the
filtered loop, `ScanEnds` and `FetchRaw` answer, `Page` is the client's turn. Between
any two of them producers write and the ring may lap the reader. Producers write a
bounded number of messages: `ReplayEnds` says that the loop ends once they pause, and
nothing about producers that never do.

### Control plane

`poller` holds the batch in hand and how far `Ingest` has come with its first message:
`Touch` (registry), `ApplyEvent` (run state), `RouteHandoff`, `EscalateRun` and
`NotifyEscalation` (inboxes) are apart because other goroutines see what lies between
them. `agents`, `sessions` and `boxes` are the three stores, `stream` the `OpenInbox`
calls. Of time only "longer silent than the TTL" is kept. Envelopes are records in
`AgentEvents`: decoding finds a field or it does not, which is what tells the three
ways of publishing apart (`Published`). `RetryAgent` is the retry command, with
`DecideRetryRoute`. That a copy is retried once, and only the last one, is assumed of
the users of the command, which does not ask; `RetriesBounded` needs it.

A publish is two steps with no lock across them, `AppendRecord` to the log and
`PublishToPartition` to the ring; several may be between the two (`pending`), an append
may fail with its record in the file or not (`AppendFails`), and a poisoned log may
let publishes through unwritten (`AppendUnwritten`, see `Delivery`). `plog` is what was
published to the ring since the start, `wal` what the next start replays. Log and ring
agree until one of these parts them (`disturbed`); `RebuiltFromLog` says that the runs
are always the fold of what was published, and of the log as long as nothing did.
Without that proviso it is false (`RebuildIsTheSame` in `cp_claims`). One partition.

## 3. The runs

| Run | Instance | Shows |
|---|---|---|
| `wf_core` | 2 keys, 2 workers, 2 handlers, batches of 2, 4 calls, 1 tick, 1 failed append | the runtime's safety: one accepted completion per execution, one worker per attempt, state backed by the log, every pending execution queued exactly once or reserved by a call, indexes consistent, terminal states final |
| `wf_restart` | 1 key, 1 worker, 2 handlers, 4 calls, 1 crash | after a restart anywhere, pending work is queued, and a poller that has caught up knows all the log knows |
| `wk_live` | 1 key, 2 handlers, stories `Silent`, `Beating`, `LostCall`, `Cancelled` | every submitted workflow completes or fails (`ExecutionEnds`) |
| `sw_core` | 2 writers, 3 records, 1 failed call, 2 crashes, 1 subscriber | durability, stable offsets, appends return, no lost wake-up |
| `wal_core` | 3 writers, 4 records, 1 error, the configurations of `Deployments` | durability and complete replay in mode `always`, appends return in every mode |
| `rep_core` | 2 brokers, 2 records, window 2, 1 move, 1 fault | the mark is bounded by what replicas have counted and by the leader's file, through failed appends; under one leader followers are prefixes; followers catch up |
| `cl_core` | 2 or 3 brokers, 1 or 2 shards, seven scenarios | every state machine is the fold of the log; `Assignment` is implemented; routes settle |
| `dl_core` | rings of 2, 2 partitions, reads and batches of 2, nine scenarios | rings show the last messages, log and rings agree, committed offsets were sent, unsaved commits are pending, streams are ordered, a clean stop loses nothing |
| `dl_live` | ring of 2, 4 messages, 2 subscriptions, 1 failed save | what a connected subscriber should get is sent and its offset reaches the file |
| `rp_core` | ring of 4, 7 messages, page of 1, scans of 3, limit of 4 | a replay returns its session, in order and complete, and ends |
| `cp_core` | 2 agents, ring of 3, inbox of 1, 2 streams, ten scenarios | inboxes keep within their channels, runs are the fold of what was published and, undisturbed, of the log, handoffs are received, waiting or counted, retries are bounded, a handoff to a connected agent reaches it or is counted |
| `sw_torn_tail` | as `sw_core` | expects a violation, see below |

The bounds are chosen so that each hazard's shortest story fits: a lease that
expires, is reclaimed and leased again while its first worker completes needs one
tick and four calls; a batch matters with two keys; a failed round followed by a
good one needs two writers and three records, and a third writer for the poison of
the main log; a stream that breaks and starts over, a false suspicion with a move
of the leader, a failed flush or fsync, or a crash with a restart each need one fault.
A ring of two wraps with three messages
and laps a subscriber with five; a replay passes its scan limit, wraps the ring
and meets a cut page with seven. An inbox of one place is full with the second
handoff. Two brokers are enough for every order of elections and restarts; a
leader that dies and is replaced needs three.

The larger models are checked as scenarios: each bounds what happens to what it is
about, and one run explores all of them, every property in every scenario.

- `MCWorkflowWorker`: `Silent` (a lease expires, twice at most), `Beating` (a
  heartbeat and its failure around the expiry), `LostCall` (the answer to a
  lease, a completion or a failure is lost), `Cancelled` (one of two workers is
  cancelled anywhere). Two tries, heartbeats and faults together grow beyond a
  few minutes, so each story has one of them. `LostCall` has one try for another
  reason: with two the property is false (`wk_claims`).
- `MCDelivery`: `Slow` (a subscriber the ring overtakes, a save that fails), `Race`
  (two publishers and a crash), `Poison` (a `Write` that fails in another publisher's
  round, in two partitions, then a restart), `Batch` (batches cut short by a failed append, in
  two sync modes), `Shared` (two consumers of one group), `Keyed` (partitions by key
  and by turn), `Http` (`/api/publish` and a failing log).
- `MCControlPlane`: `Handoffs`, `Runs` (with and without an escalation agent),
  `Overlapping` (two publishes at a time, appends that fail, a restart), `Ways` (of publishing), `Escalated`, `Silent`, `Retried` (with one to three attempts).
- `MCClusterControl`: `Elections` (leadership moves during boot), `Suspicions`,
  `Timeouts` (a command commits after its caller gave up), `Takeover`, `Restored` (from a snapshot), `Failover`, `Orphaned` (a leader dies and no
  client addresses are configured).

`CHECK_DEADLOCK FALSE` is set everywhere because the bounded systems come to rest
when calls, records and faults are used up.

### Fairness

The goroutines of a running broker are scheduled, an fsync, an append and a save
return, the network delivers what is on an open stream, and tickers fire. Nothing
forces clients to call, publishes to happen, calls to fail, brokers to crash or to
come back, so no liveness property rests on those.

- `Replication`: `FollowersCatchUp` says that again and again the follower is up to
  date with what the leader has fsynced, or the leader no longer streams to it, or it is
  down, or its log refuses writes after a failed flush. A commit and a publish may
  take forever.
- `WorkflowWorker`: handlers of the broker, sweeper, poller, the clock as far as the
  budget goes, and the loops of workers that are not cancelled; a task's own
  handler is assumed to return. `ExecutionEnds` excepts the case that all
  workers are cancelled, and a lease that nobody has and that outlasts the bounded
  clock.
- `Delivery`: publish handlers, the loops of connected consumers, the flusher. A
  `Send` returns, because its client reads or because it is gone.
- `Replay`: the client goes on asking and the server answering.
- `ControlPlane`: the poller's ticker and `Ingest`, the sweep, open streams; a `Send`
  returns one way or the other. `HandoffIsReceived` therefore needs a stream that
  stays.
- `ClusterControl`: boot, the retry and assigner loops, application of committed
  commands, gossip that is wrong is corrected, and Raft elects a leader while
  there is none and a majority is up.

### Where the code and its documentation disagree

One run expects a violation: `sw_torn_tail`. After a torn last record a shard restarts at
offset 0 and what it acknowledges is unreadable. The configurations below show
the other disagreements; TLC finds each of them with `tlc -config <file>.cfg
<module>`. Those that list several properties are read one line at a time. The
findings of `PROJECT.json` quote what is contradicted.

| Configuration, module | Property | What happens |
|---|---|---|
| `wf_claims`, `MCWorkflow` | `RedeliveryIsNoOp` | the poller's second delivery of a retry pulls a running execution back to pending (`state.go:155-167`) |
| | `AcceptedIsRecorded` | an accepted completion loses against a concurrent `Fail` of the same lease and is not recorded |
| | `AcceptedSurvivesReplay` | memory and file may order two events differently, so a replay may decide otherwise than the process that wrote them |
| | `BlocksOnlyWithoutWork` | `Unreserve` puts work back without waking a long poll, which then sits out its timeout |
| | `FenceReleased` | a completion that the fold rejects leaves its fence set; the sweeper skips the execution |
| `wf_restart_claims`, `MCWorkflowRestart` | `AttemptNamesOneWorker` | a broker serves before its poller has caught up and leases an attempt a second time |
| | `FailureIsDecided` | a crash between the two events of `Fail` leaves an execution retrying, which nothing takes up again |
| `wk_claims`, `MCWorkflowWorker` | `ExecutionEnds` | a lost answer to a lease and a redelivered retry give out attempt 3 while the completion of attempt 2 is on its way; the fold rejects it, its fence stays up, and the sweep passes the execution over for good |
| `wf_ring_overflow`, `MCWorkflowRestart` | `CaughtUpKnowsAll` | events that the ring evicts before the poller reads them are lost to the store |
| `sw_claims`, `MCShardWal` | `RecoveredIsDurable` | what a killed process had only written counts as synced after `Open` |
| | `SeenIsDurable` | a backfill reads past the last fsync |
| | `CancelEnds` | cancelling a subscription does not wake its goroutine |
| `sw_fsync_retry`, `MCShardWal` | `AckedIsDurable` | if the kernel drops the pages of a failed fsync, the next round acknowledges them |
| `wal_claims`, `MCMainWal` | `AckedIsDurable` | a write error during another writer's fsync leads to acknowledgements of records that were never written |
| | `StartsAfterCrash` | a record cut exactly at the edge of its header makes the replay fail, so the broker does not start |
| | `AckedIsReplayed` | records appended behind a torn one are not replayed |
| `rep_claims`, `MCReplication` | `CommittedIsReplicated` | a follower is counted as holding a record when it holds another one at that offset |
| | `AckedIsInFiles` | a follower whose append failed, or has not returned, acknowledges the re-streamed record by its tail: a publish is acknowledged that the follower's file lacks |
| `cl_claims`, `MCClusterControl` | `EveryoneRegisters` | without client addresses in the peer list a follower is never registered |
| | `ShardCountIsSet` | if leadership moves during boot nobody sets the number of shards |
| | `OnlyDeadLeadersMove` | a new leader plans from a state machine that lags and moves a shard off a live leader |
| | `RoutesSettle` | peers are joined at their Raft port: every broker sees itself alone and refuses what others lead |
| `dl_claims`, `MCDelivery` | `ResumesWhereItStopped` | after a crash outside of mode `always` a group passes over acknowledged messages |
| | `StreamIsOrdered` | a subscriber the ring overtook is sent messages again |
| | `RingIsLogged` | after a round cleared the error of a poisoned log, messages are published that the log does not have |
| `rp_claims`, `MCReplay` | `ReplayReturnsAll` | a filtered page that fills up skips the rest of what it had read |
| | `NothingTwice` | a page read behind the ring's head returns messages again |
| `cp_claims`, `MCControlPlane` | `HandoffReachesRouter` | a handoff published by the SDK is wrapped twice and not routed |
| | `WaitsForPickup` | a late event of the former agent sets a waiting run to running |
| | `RebuildIsComplete` | a restart rebuilds only what the ring still shows |
| | `RebuildIsTheSame` | two events of a session are in the log in another order than in the ring, and a restart rebuilds another run |

Three disagreements are modelled without a property of their own: `PublishAgentTo`
ignores its topic, the offset of a webhook's event is committed when it is sent,
and any error of a heartbeat ends the heartbeats of its task.

The default of `-wal-sync-mode` is `none` (`cmd/broker/main.go:43`), for which nothing
is promised; durability is stated for mode `always` only.

## 4. The proofs

Every safety invariant and every action property that a passing run checks is also a
theorem. The proofs follow one plan: an
inductive invariant, a lemma per action (and under it a step per conjunct the action
can disturb) that it is kept, and the theorems as consequences. All constants are
arbitrary: nothing is assumed of them but the named assumptions of the modules that
declare them, which TLC evaluates in the runs. A condition a theorem needs beyond
that stands in its statement.

**`ShardWalProofs`.** `TypeCorrect`, `Durability` (`AckedIsDurable`) and `StableOffsets`
(`OffsetsAreStable`). `AckedIsDurable` speaks of records already acknowledged; what
makes it inductive is knowing how far a record that still waits has come. `Progress`
ties a record's generation to the marks of the file: a closed generation is written,
one covered by the round in flight lies within the length that round will make
durable, a synced one is durable. `RoundInv` says there is at most one round and that
it is behind the open generation. `OffsetInv` equates offsets and positions as long as
no torn record lies in front. The theorems assume
`Retryable`, that an fsync after a failed one covers the failed one's pages; without
it durability is false (`sw_fsync_retry`).

**`MainWalProofs`.** `TypeCorrect` holds in every deployment, `Durability`
(`AckedIsDurable`) and `Recovery` (`ReplayComplete`) in those that are `Trusted`: sync
mode `always`, no failing `Write`, and a failed fsync that a later one makes up for or
that no restart follows. The invariant adds `PoisonInv` to the argument of the
shard log: no round begins or ends once `syncErr` is set, so pages that a failed fsync
dropped are never vouched for. Both restrictions are needed. After a failed `Write` a
round in flight clears the poison it set (`wal_claims`), and a broker started on the
file of a poisoned one takes pages for durable that the failed fsync dropped.

**`ReplicationProofs`.** `TypeCorrect` and `HonestMark` (`MarkIsHeld`). The mark is fed by
acknowledgements that were sent in the past, over streams that may have been replaced
since, and its map outlives changes of the follower set and of the leader; and it
counts by tails, which run ahead of the files. The invariant has five parts: what any
broker is credited with, tracked or not, it has counted (`CreditInv`); every
acknowledgement still on a stream names an offset its sender has counted (`AckInv`); a
call in the group commit has its record in the log (`CallsInv`), a publish too, and in
the file once its append has returned (`WaitInv`); acknowledged publishes stay
(`PublishedInv`). It is kept because what a broker has counted only grows, what a
crash takes from the buffer being counted in `lost`, because nothing takes a record
out of a file, and because an offset is either kept, started over at 0, or taken from
an acknowledgement.

`FollowersFollow` (`FollowersArePrefixes`) is about a shard that was assigned once and
whose follower handlers did not overlap, which is what the property says. `OneLeader`
has what makes it inductive: only the leader replicates (`LeadInv`), whatever is on a
stream is in its file at the offset it carries (`WireInv`), the call that is between
its read of the tail and its append holds the very record the follower lacks next
(`CallInv`), and so every log is a prefix (`LogsInv`), failed appends or not. A follower compares offsets and
nothing else, and this is why that is enough under one leader; under two it is not
(`rep_claims`).

**`WorkflowProofs`.** The eight cases of the fold are one lemma (`FoldCases`): an event
is ignored or changes the execution in one of seven ways. With it, and with framing
lemmas that say a step of one goroutine leaves the others where they were
(`OthersStill`, `AllStill`), each property is an invariant of its own.
`FinishedStaysFinished` (`TerminalIsFinal`) follows from the cases alone. For
`CompletionAcceptedOnce` (`AtMostOneAccepted`) `FenceInv` counts the completions of an
execution that are accepted or inside `append`: at most one, and the fence is up or
the execution finished meanwhile. `IndexesAreExact` (`IndexesAgree`) has the counters
as cardinalities of sets of keys. `NothingBeforeTheLog` (`StateBackedByLog`) needs that
the topic, the events past their append and the leases handed out are in the log.
`TypeCorrect` rests on `TypeInv`, which also says what events the coordinator makes.

Attempts and queues: a handler `Claims` the next attempt of an
execution from its reservation until its lease is applied or has failed. `ClaimInv`:
reservation and claim come and go together, and there is one of them; `AttemptInv`:
nobody holds an attempt beyond the execution's own but the one who claims it;
`UniqueInv`: leases given out or on their way differ. From these
`AttemptsAreUnique` (`AttemptNamesOneWorker`) and `ReservationsAreOwned`
(`ReservedHasOwner`). `PendingStaysQueued` (`PendingIsQueued`) has the invariant that a
queue names no key twice, with every key that may be reserved in it: lazy
removal may drop others, and the fold that puts one back sees whether it is there.

Restarts: a restart is one more step of the same invariants. The typing, queue, index
and log invariants hold of an empty store and of a topic replayed from the file, so
`RestartTyping`, `PendingStaysQueuedAfterRestart`, `IndexesAreExactAfterRestart` and
`NothingBeforeTheLogAfterRestart` carry them through every life of the process, with
the poller still rebuilding while calls are served. Attempts are not among them: they
are handed out twice after a crash (`wf_restart_claims`). `CaughtUpPollerKnowsAll`
(`CaughtUpKnowsAll`) counts what lies between file and topic: `TransitInv` says a logged
submit is in the topic, with a goroutine about to deliver it, or left behind by a
failed publish, in which case the topic stays shorter than the file; `ReadInv` says the
store knows what the poller has read. The theorem states the condition that the ring
holds the whole topic; without it the claim is false (`wf_ring_overflow`).

**`TopicRingProofs`.** `PublishShows`: a publish keeps `Shows`, whatever the capacity and
wherever the ring has wrapped, because the slots of the offsets in view differ
(`SlotsDiffer`). `ReplayShows`: replaying a log of any length into a new ring shows its
last messages. `FetchReads`: a read of such a ring returns consecutive messages of the
log. Rings are over any set of payloads, so that `Delivery`, `Replay` and `ControlPlane`
share these lemmas. The replay is a recursive function; `Induction`, stated for sets of
numbers and proved from their well-foundedness, is what lets it be unfolded.

**`DeliveryProofs`.** On `BaseInv`, types and rings, stand five arguments. `FlushInv`: a save
in progress writes the offsets of its start, and a commit since then has its signal
(`CommitsReachTheFile`). `OrderInv`: what a session sent is consecutive and reaches up
to its cursor or its unsent batch (`StreamsAreOrdered`). `AlignInv`: as long as no
requests overlapped in a partition and the log came first, what the log holds beyond
the ring is a request on its way to it, or one whose failed append poisoned the log;
a log whose error was cleared takes no record any more, and the first append it
answers ends the claim (`ReplayKeepsOffsets`); with `StopInv` it gives `CleanStop`. `PassedInv`: the offsets in
memory, in the file, in a save in progress and about to be committed all lie
behind what was sent or overwritten (`NothingPassedOver`); in flight
and durable copies have to be spoken of together since a crash turns one into the
other.

The last section is about `Replay`, the other reader of a ring. `ReplayReturnsTheSession` (`ReplayIsTheSession`) rests on `ReplayProgress`: what
the client has is what was wanted up to its position, and with what the `Fetch` in
progress has found, up to where that one is. `ScanWanted` says that picking the
matches of a stretch that was read is picking the wanted offsets of that stretch of
the log, `UncutTakesAll` that a scan which looked at all it read dropped no match. That
an empty page never ends a replay early takes the rest of the invariant: a scan that
stops short of its tail found something or moved on.

**`ControlPlaneProofs`.** `TypeCorrect`, `RetriesEnd` (`RetriesBounded`), `PlaneIsRebuilt`
(`RebuiltFromLog`) and `HandoffsAreAccounted` (`HandoffsAccounted`). On the types stand
`TopicInv`, the ring shows the end of what was published, and `BatchInv`, the batch in the
poller's hand is the stretch of the topic at its cursor, and `Ingest` is past a check
only with an event that passed it. `RetryInv` relates the copies of an event to the
attempt its last copy counts as: the properties' bound alone is not kept by a retry,
since the decision reads the number in the envelope and not the log. It covers the
ways of publishing whose attempt number is lost or starts anywhere. `RunsInv` says at
every point of `Ingest` which prefix of the topic the runs are the fold of, with the
halves of an escalation apart, and `KnownInv` which producers are registered; a restart
sets all of it back to the empty prefix. `OrderInv` is about publishers between their
two steps: as long as nothing parted log and ring, the records on their way are the
end of the log and what was published is all before them; with none on its way the
fold of what was published is the fold of the log. `PlaceInv` puts every routed event in one
place, with the offsets in the hands of different streams different, and `RoutedInv`
accounts for the handoffs before the cursor and says nothing beyond it was routed,
which is why no event is delivered twice in a life.

**`ClusterControlProofs`.** The state machine is a recursive function of the log.
`AfterSplice` says that folding a stretch of the log onto the fold of what lies before
it is the fold of the whole: that is catching up, and restarting from a snapshot, so
`IndInv` is the types, `FsmIsLog` and the same of snapshots; `StateIsTheLog` follows.
`Refinement` (`ImplementsAssignment`) takes each step of the cluster to a step of
`Assignment` or a stutter: a step moves one broker's index at most and the end of the
log by at most one command (`Advances`), a command about the shard is an `Appoint`, and
`ViewIsPlace` says that what a state machine names is the leader at that broker's
place in the history.

Only model-checked is liveness, which is outside the prover's reach: `AppendReturns`,
`SyncedIsDelivered`, `ExecutionEnds`, `FollowersCatchUp`, `PublishedIsCommitted`,
`ReplayEnds`, `HandoffIsReceived`, `RoutesSettle`. The disagreements of section 3 are
counterexamples, for which a small instance is enough.

## 5. Not modelled, and the plan

Left out, and why:

- the shard manager: a map filled lazily behind one mutex; its callers are modelled
  with an open shard. Its double open and its use after `Close` are recorded as
  hazards;
- the rate limiter: each call is one critical section over real-valued tokens, so
  nothing interleaves;
- eviction of terminal executions from the workflow store;
- the byte layouts of records, frames and envelopes: a record is whole or torn, a
  frame is its fields;
- the ring of brokers and the loop that refreshes it: nothing in production asks for
  what it holds (`LeaderFor`, `Ring`); the hashing of partitions, which is any fixed
  choice;
- the restore of a version 1 metadata snapshot, which this code never writes;
- read-only calls: `FETCH` over TCP, queries, listings, the HTTP views; the SDK's
  `Subscribe`, which forwards a stream;
- input and output around the system (dashboards, metrics, telemetry, most of the
  command line) and generated code;
- the Raft and gossip libraries, which are external and modelled by what the code
  uses of them.

What is next, in this order:

1. Eviction of terminal executions (`store.go:97`), after which a key counts as new: a
   model of its own on top of `WorkflowFold`.
2. The shard manager with callers that open a shard at once, and `Close` under them.
3. A composition of `Replication` with `ShardWal` as the log of each broker, with rounds
   of the group commit that overlap the next appends.
4. `Replication` under two leaders: which prefix of a divergent follower is still the
   leader's.
