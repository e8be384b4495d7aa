------------------------------ MODULE Workflow ------------------------------
(***************************************************************************)
(* The workflow runtime of one broker between two restarts: the Store and  *)
(* its scheduling indexes (store.go), the Coordinator's RPC handlers and   *)
(* expiry sweep (coordinator.go), the durable publish path they append     *)
(* through (grpcapi PublishEnvelope: main WAL, then the in-memory topic)   *)
(* and the Poller that re-delivers the topic to the same store.            *)
(*                                                                         *)
(* Every critical section of the Store's mutex is one atomic step; what    *)
(* happens outside it (publishing, re-reading, waiting) is a step of its   *)
(* own, so handlers, sweep and poller interleave as the goroutines do.     *)
(* Retention (retainTerminal) is not reached: the model holds fewer        *)
(* terminal executions than its cap.                                       *)
(***************************************************************************)
EXTENDS WorkflowFold

CONSTANTS Handlers,   \* goroutines serving workflow RPCs
          Sweeper,    \* the goroutine of Coordinator.Start
          TopicCap,   \* capacity of a partition's ring buffer
          MaxBatch,   \* bound: largest max_tasks of a LeaseTask call
          MaxCalls,   \* bound: RPCs that pass their first check
          MaxTime,    \* bound: clock ticks
          MaxErrors   \* bound: failed publishes

ASSUME WorkflowAssumption ==
    /\ Sweeper \notin Handlers
    /\ TopicCap \in Nat \ {0}
    /\ MaxBatch \in Nat \ {0}
    /\ MaxCalls \in Nat /\ MaxTime \in Nat /\ MaxErrors \in Nat

VARIABLES
    \* Store
    execs,    \* [Keys -> Execution]
    queues,   \* [TaskTypes -> Seq(Keys)], lazily compacted FIFOs
    queued,   \* [Keys -> BOOLEAN]
    running,  \* index of running executions
    counts,   \* [Status -> Int]
    \* the log: every key hashes to a partition of its own
    wal,      \* [Keys -> Seq(Event)], in the order of the main WAL
    topic,    \* [Keys -> Seq(Event)], in the order of the in-memory topic
    cursor,   \* [Keys -> Nat], the Poller's next offset per partition
    \* goroutines
    pc,       \* [Procs -> control point]
    ev,       \* [Procs -> event being appended]
    then,     \* [Handlers -> the event Fail appends second]
    lease,    \* [Handlers -> arguments and progress of a LeaseBatch call]
    expired,  \* snapshots the sweep still has to reclaim, as events
    \* environment
    now,      \* wall clock
    calls, errors,
    \* what clients were told
    leases,   \* leases returned to workers
    accepted  \* [Keys -> completions answered with accepted = true]

store  == <<execs, queues, queued, running, counts>>
log    == <<wal, topic, cursor>>
procs  == <<pc, ev, then, lease, expired>>
env    == <<now, calls, errors>>
client == <<leases, accepted>>
vars   == <<store, log, procs, env, client>>

Procs == Handlers \cup {Sweeper}

NoEvent == [type |-> "none"]

Lease == [key : Keys, attempt : Nat, worker : Workers]

NoLease == [task |-> None, worker |-> None, want |-> 0, key |-> None,
            got |-> {}]

-----------------------------------------------------------------------------
(* The Store. *)

(* Store.Apply(e) with reconcileQueueLocked: fold e, move the status       *)
(* counters and the running index, enqueue an execution that became        *)
(* pending.                                                                *)
Enqueues(e) ==
    LET x == execs[e.key]
        y == FoldEvent(x, e)
    IN  Changes(x, e) /\ y.status = "pending" /\ ~queued[e.key] /\ ~y.reserved

(* Mutant: only a finished execution leaves the running index. *)
RunningUntilDone(k, x, y) ==
    IF y.status = "running" THEN running \cup {k}
    ELSE IF Terminal(y) THEN running \ {k} ELSE running

(* The running index when the status of k moves from x's to y's. *)
RunningAfter(k, x, y) ==
    IF y.status = "running" THEN running \cup {k}
    ELSE IF x.status = "running" THEN running \ {k} ELSE running

CountsAfter(x, y) ==
    [s \in Status |-> counts[s] + (IF s = y.status THEN 1 ELSE 0)
                                - (IF s = x.status THEN 1 ELSE 0)]

StoreApply(e) ==
    LET k == e.key
        x == execs[k]
        y == FoldEvent(x, e)
    IN  /\ execs' = [execs EXCEPT ![k] = y]
        /\ counts' = CountsAfter(x, y)
        /\ running' = RunningAfter(k, x, y)
        /\ queues' = IF Enqueues(e)
                     THEN [queues EXCEPT ![y.spec.task] = Append(@, k)]
                     ELSE queues
        /\ queued' = IF Enqueues(e) THEN [queued EXCEPT ![k] = TRUE] ELSE queued

(* Enqueueing closes the task type's wake channel: every LeaseBatch that   *)
(* waits on it loops back to ReserveNext.                                  *)
Woken(e) ==
    {h \in Handlers : /\ Enqueues(e)
                      /\ pc[h] = "waiting"
                      /\ lease[h].task = FoldEvent(execs[e.key], e).spec.task}

WakeUp(e) == [p \in Procs |-> IF p \in Woken(e) THEN "reserve" ELSE pc[p]]

(* The control points after proc p folds e and goes on to q. *)
PcAfterApply(e, p, q) == [WakeUp(e) EXCEPT ![p] = q]

Reservable(k) == execs[k].status = "pending" /\ ~execs[k].reserved

(* ReserveNext pops queue q up to its first reservable entry, number n     *)
(* (all of it when there is none), and unmarks what it pops.               *)
FirstReservable(q) ==
    CHOOSE n \in 1..Len(q)+1 :
        /\ n <= Len(q) => Reservable(q[n])
        /\ \A m \in 1..n-1 : ~Reservable(q[m])

Popped(q, n) == {q[m] : m \in {i \in 1..n : i <= Len(q)}}

(* Mutant: what is popped stays marked as queued. *)
PopQueueStillMarked(task, n) ==
    /\ queues' = [queues EXCEPT ![task] = SubSeq(@, n+1, Len(@))]
    /\ UNCHANGED queued

PopQueue(task, n) ==
    /\ queued' = [k \in Keys |-> queued[k] /\ k \notin Popped(queues[task], n)]
    /\ queues' = [queues EXCEPT ![task] = SubSeq(@, n+1, Len(@))]

-----------------------------------------------------------------------------
(* Answers to the caller: the goroutine is done. *)

Return(p) ==
    /\ pc' = [pc EXCEPT ![p] = "idle"]
    /\ ev' = [ev EXCEPT ![p] = NoEvent]

(* Start appending event e. *)
StartAppend(p, e) ==
    /\ pc' = [pc EXCEPT ![p] = "publish"]
    /\ ev' = [ev EXCEPT ![p] = e]

Call(h) ==
    /\ pc[h] = "idle"
    /\ calls < MaxCalls
    /\ calls' = calls + 1
    /\ UNCHANGED <<now, errors>>

-----------------------------------------------------------------------------
(* RPC handlers up to their append.  An early return changes nothing and   *)
(* is a stuttering step.                                                   *)

Submit(h, k, s) ==
    /\ execs[k].status = "absent"
    /\ StartAppend(h, SubmitEnvelope(k, s))
    /\ UNCHANGED <<store, log, then, lease, expired, client>>

LeaseBatch(h, t, w, max) ==
    /\ pc' = [pc EXCEPT ![h] = "reserve"]
    /\ lease' = [lease EXCEPT ![h] =
                    [NoLease EXCEPT !.task = t, !.worker = w, !.want = max]]
    /\ UNCHANGED <<store, log, ev, then, expired, client>>

(* ReserveNext finds work. *)
ReserveNext(h) ==
    LET q == queues[lease[h].task]
        n == FirstReservable(q)
    IN  /\ pc[h] = "reserve"
        /\ n <= Len(q)
        /\ PopQueue(lease[h].task, n)
        /\ execs' = [execs EXCEPT ![q[n]].reserved = TRUE]
        /\ lease' = [lease EXCEPT ![h].key = q[n]]
        /\ pc' = [pc EXCEPT ![h] = "grant"]
        /\ UNCHANGED <<running, counts, log, ev, then, expired, env, client>>

(* The leases a LeaseBatch call hands back: what it granted so far. *)
ReturnLeases(h, got) ==
    /\ leases' = leases \cup got
    /\ lease' = [lease EXCEPT ![h] = NoLease]

(* ReserveNext returns nil: hand back what was granted, give up when the   *)
(* deadline passed, or go on to WaitChan.                                  *)
ReserveNone(h) ==
    LET q == queues[lease[h].task]
    IN  /\ pc[h] = "reserve"
        /\ FirstReservable(q) > Len(q)
        /\ PopQueue(lease[h].task, Len(q))
        /\ \/ Return(h) /\ ReturnLeases(h, lease[h].got)
           \/ /\ lease[h].got = {}
              /\ pc' = [pc EXCEPT ![h] = "nowork"]
              /\ UNCHANGED <<ev, lease, leases>>
        /\ UNCHANGED <<execs, running, counts, log, then, expired, env, accepted>>

(* The wake channel is taken (or created) under the lock... *)
WaitChan(h) ==
    /\ pc[h] = "nowork"
    /\ pc' = [pc EXCEPT ![h] = "waiting"]
    /\ UNCHANGED <<store, log, ev, then, lease, expired, env, client>>

(* ... and the select ends by the timer or the caller's context. *)
WaitEnds(h) ==
    /\ pc[h] = "waiting"
    /\ Return(h)
    /\ ReturnLeases(h, {})
    /\ UNCHANGED <<store, log, then, expired, env, accepted>>

(* Mutant: the event names the coordinator and not the worker. *)
GrantByCoordinator(h) ==
    /\ pc[h] = "grant"
    /\ StartAppend(h, newEnvelope("leased", lease[h].key,
                                  execs[lease[h].key].attempt + 1, None, now))
    /\ UNCHANGED <<store, log, then, lease, expired, env, client>>

(* grant reads the reserved execution's attempt outside the lock. *)
Grant(h) ==
    /\ pc[h] = "grant"
    /\ StartAppend(h, newEnvelope("leased", lease[h].key,
                                  execs[lease[h].key].attempt + 1,
                                  lease[h].worker, now))
    /\ UNCHANGED <<store, log, then, lease, expired, env, client>>

Holds(x, l) ==
    x.status = "running" /\ x.attempt = l.attempt /\ x.worker = l.worker

Heartbeat(h, l) ==
    /\ Holds(execs[l.key], l)
    /\ StartAppend(h, newEnvelope("heartbeat", l.key, l.attempt, l.worker, now))
    /\ UNCHANGED <<store, log, then, lease, expired, client>>

(* Complete: BeginComplete validates the claim and raises the fence. *)
(* Mutant: the claim is validated, the fence is not looked at. *)
BeginCompleteUnfenced(x, attempt) ==
    /\ x.status # "absent" /\ ~Terminal(x)
    /\ x.attempt = attempt /\ attempt # 0

BeginComplete(x, attempt) ==
    /\ x.status # "absent" /\ ~Terminal(x)
    /\ x.attempt = attempt /\ attempt # 0
    /\ ~x.completing

Complete(h, l) ==
    /\ BeginComplete(execs[l.key], l.attempt)
    /\ execs' = [execs EXCEPT ![l.key].completing = TRUE]
    /\ StartAppend(h, newEnvelope("completed", l.key, l.attempt, l.worker, 0))
    /\ UNCHANGED <<queues, queued, running, counts, log, then, lease, expired,
                   client>>

(* Fail: wf.failed now, wf.retry or wf.dead after it, decided from the     *)
(* snapshot taken before the first append.                                 *)
Fail(h, l, retryable) ==
    LET x == execs[l.key]
        type == IF retryable /\ l.attempt < x.spec.max THEN "retry" ELSE "dead"
    IN  /\ Holds(x, l)
        /\ StartAppend(h, newEnvelope("failed", l.key, l.attempt, l.worker, 0))
        /\ then' = [then EXCEPT ![h] =
                        newEnvelope(type, l.key, x.attempt, None, 0)]
        /\ UNCHANGED <<store, log, lease, expired, client>>

-----------------------------------------------------------------------------
(* The expiry sweep: a snapshot of the expired leases under the lock, then *)
(* one append per snapshot.                                                *)

ExpiredLeases ==
    {k \in running : /\ execs[k].status = "running"
                     /\ ~execs[k].reserved /\ ~execs[k].completing
                     /\ execs[k].deadline < now}

Reclaim(k) ==
    newEnvelope(IF execs[k].attempt < execs[k].spec.max THEN "retry" ELSE "dead",
                k, execs[k].attempt, None, 0)

SweepExpired ==
    /\ pc[Sweeper] = "idle" /\ expired = {}
    /\ ExpiredLeases # {}
    /\ expired' = {Reclaim(k) : k \in ExpiredLeases}
    /\ UNCHANGED <<store, log, pc, ev, then, lease, env, client>>

SweepNext ==
    /\ pc[Sweeper] = "idle"
    /\ \E e \in expired : /\ StartAppend(Sweeper, e)
                          /\ expired' = expired \ {e}
    /\ UNCHANGED <<store, log, then, lease, env, client>>

-----------------------------------------------------------------------------
(* append: PublishEnvelope (WAL, then topic), then the local Apply.        *)

(* Mutant: the event goes to the topic without having been logged. *)
WalSkipped(p) ==
    /\ pc[p] = "publish"
    /\ pc' = [pc EXCEPT ![p] = "deliver"]
    /\ UNCHANGED <<store, log, ev, then, lease, expired, env, client>>

WalAppend(p) ==
    /\ pc[p] = "publish"
    /\ wal' = [wal EXCEPT ![ev[p].key] = Append(@, ev[p])]
    /\ pc' = [pc EXCEPT ![p] = "deliver"]
    /\ UNCHANGED <<store, topic, cursor, ev, then, lease, expired, env, client>>

PublishToPartition(p) ==
    /\ pc[p] = "deliver"
    /\ topic' = [topic EXCEPT ![ev[p].key] = Append(@, ev[p])]
    /\ pc' = [pc EXCEPT ![p] = "apply"]
    /\ UNCHANGED <<store, wal, cursor, ev, then, lease, expired, env, client>>

(* The local Apply and, the append having succeeded, what each caller of   *)
(* append does next: answer, loop (LeaseBatch), or append Fail's second    *)
(* event.  What Apply reports is ignored.                                  *)
ApplyAndReturn(p) ==
    /\ pc[p] = "apply"
    /\ ev[p].type \notin {"leased", "completed", "failed"}
    /\ StoreApply(ev[p])
    /\ pc' = PcAfterApply(ev[p], p, "idle")
    /\ ev' = [ev EXCEPT ![p] = NoEvent]
    /\ UNCHANGED <<log, then, lease, expired, env, client>>

ApplyCompleted(h) ==
    /\ pc[h] = "apply" /\ ev[h].type = "completed"
    /\ StoreApply(ev[h])
    /\ pc' = PcAfterApply(ev[h], h, "idle")
    /\ ev' = [ev EXCEPT ![h] = NoEvent]
    /\ accepted' = [accepted EXCEPT ![ev[h].key] =
                        Append(@, [attempt |-> ev[h].attempt,
                                   worker |-> ev[h].worker])]
    /\ UNCHANGED <<log, then, lease, expired, env, leases>>

ApplyFailed(h) ==
    /\ pc[h] = "apply" /\ ev[h].type = "failed"
    /\ StoreApply(ev[h])
    /\ pc' = PcAfterApply(ev[h], h, "publish")
    /\ ev' = [ev EXCEPT ![h] = then[h]]
    /\ then' = [then EXCEPT ![h] = NoEvent]
    /\ UNCHANGED <<log, lease, expired, env, client>>

ApplyLeased(h) ==
    LET l == [key |-> ev[h].key, attempt |-> ev[h].attempt,
              worker |-> ev[h].worker]
        got == lease[h].got \cup {l}
        more == Cardinality(got) < lease[h].want
    IN  /\ pc[h] = "apply" /\ ev[h].type = "leased"
        /\ StoreApply(ev[h])
        /\ pc' = PcAfterApply(ev[h], h, IF more THEN "reserve" ELSE "idle")
        /\ ev' = [ev EXCEPT ![h] = NoEvent]
        /\ IF more THEN /\ lease' = [lease EXCEPT ![h].got = got,
                                                  ![h].key = None]
                        /\ UNCHANGED leases
                   ELSE ReturnLeases(h, got)
        /\ UNCHANGED <<log, then, expired, env, accepted>>

(* PublishEnvelope fails (not the shard's leader, no quorum, WAL error):   *)
(* nothing reaches the topic, and each caller of append takes its error    *)
(* path.  The record may be in the log all the same, when the quorum wait  *)
(* or the fsync failed behind the write.                                   *)
PublishError(p) ==
    /\ pc[p] = "publish"
    /\ errors < MaxErrors
    /\ errors' = errors + 1
    /\ wal' \in {wal, [wal EXCEPT ![ev[p].key] = Append(@, ev[p])]}
    /\ Return(p)
    /\ UNCHANGED <<topic, cursor, expired, now, calls, accepted>>

(* Mutant: the failed grant is not unreserved. *)
LeaseFailsParked(h) ==
    /\ ev[h].type = "leased"
    /\ PublishError(h)
    /\ ReturnLeases(h, lease[h].got)
    /\ UNCHANGED <<store, then>>

(* LeaseBatch: Unreserve puts the execution back at the front.  No channel *)
(* is closed.                                                              *)
LeaseFails(h) ==
    LET k == ev[h].key
        x == execs[k]
        requeue == x.reserved /\ x.status = "pending" /\ ~queued[k]
    IN  /\ ev[h].type = "leased"
        /\ PublishError(h)
        /\ execs' = [execs EXCEPT ![k].reserved = FALSE]
        /\ queues' = IF requeue
                     THEN [queues EXCEPT ![x.spec.task] = <<k>> \o @]
                     ELSE queues
        /\ queued' = [queued EXCEPT ![k] = @ \/ requeue]
        /\ ReturnLeases(h, lease[h].got)
        /\ UNCHANGED <<running, counts, then>>

(* Complete: AbortComplete lowers the fence. *)
CompleteFails(h) ==
    /\ ev[h].type = "completed"
    /\ PublishError(h)
    /\ execs' = [execs EXCEPT ![ev[h].key].completing = FALSE]
    /\ UNCHANGED <<queues, queued, running, counts, then, lease, leases>>

OtherFails(p) ==
    /\ ev[p].type \notin {"leased", "completed"}
    /\ PublishError(p)
    /\ then' = [h \in Handlers |-> IF h = p THEN NoEvent ELSE then[h]]
    /\ UNCHANGED <<store, lease, leases>>

-----------------------------------------------------------------------------
(* The Poller: Fetch clamps an offset below the ring's head to the head,   *)
(* Ingest folds the message, the cursor moves behind it.                   *)

RingHead(k) == IF Len(topic[k]) > TopicCap THEN Len(topic[k]) - TopicCap ELSE 0

FetchOffset(k) == IF cursor[k] < RingHead(k) THEN RingHead(k) ELSE cursor[k]

(* Mutant: the poller folds without reconciling the queue. *)
IngestNoQueue(k) ==
    LET i == FetchOffset(k) + 1
        e == topic[k][i]
        y == FoldEvent(execs[k], e)
    IN  /\ i <= Len(topic[k])
        /\ execs' = [execs EXCEPT ![k] = y]
        /\ counts' = CountsAfter(execs[k], y)
        /\ running' = RunningAfter(k, execs[k], y)
        /\ cursor' = [cursor EXCEPT ![k] = i]
        /\ UNCHANGED <<queues, queued, wal, topic, procs, env, client>>

Ingest(k) ==
    LET i == FetchOffset(k) + 1
    IN  /\ i <= Len(topic[k])
        /\ StoreApply(topic[k][i])
        /\ cursor' = [cursor EXCEPT ![k] = i]
        /\ pc' = WakeUp(topic[k][i])
        /\ UNCHANGED <<wal, topic, ev, then, lease, expired, env, client>>

Tick ==
    /\ now < MaxTime
    /\ now' = now + 1
    /\ UNCHANGED <<store, log, procs, calls, errors, client>>

-----------------------------------------------------------------------------
Init ==
    /\ execs = [k \in Keys |-> NoExecution]
    /\ queues = [t \in TaskTypes |-> <<>>]
    /\ queued = [k \in Keys |-> FALSE]
    /\ running = {}
    /\ counts = [s \in Status |-> 0]
    /\ wal = [k \in Keys |-> <<>>]
    /\ topic = [k \in Keys |-> <<>>]
    /\ cursor = [k \in Keys |-> 0]
    /\ pc = [p \in Procs |-> "idle"]
    /\ ev = [p \in Procs |-> NoEvent]
    /\ then = [h \in Handlers |-> NoEvent]
    /\ lease = [h \in Handlers |-> NoLease]
    /\ expired = {}
    /\ now = 0 /\ calls = 0 /\ errors = 0
    /\ leases = {}
    /\ accepted = [k \in Keys |-> <<>>]

(* Calls clients make; a worker names leases it was given. *)
Client(h) ==
    /\ Call(h)
    /\ \/ \E k \in Keys, s \in Specs : Submit(h, k, s)
       \/ \E t \in TaskTypes, w \in Workers, max \in 1..MaxBatch :
             LeaseBatch(h, t, w, max)
       \/ \E l \in leases : \/ Heartbeat(h, l)
                            \/ Complete(h, l)
                            \/ \E r \in BOOLEAN : Fail(h, l, r)

LeaseLoop(h) == ReserveNext(h) \/ ReserveNone(h) \/ WaitChan(h) \/ Grant(h)

AppendStep(p) == WalAppend(p) \/ PublishToPartition(p) \/ ApplyAndReturn(p)

HandlerApply(h) == ApplyCompleted(h) \/ ApplyFailed(h) \/ ApplyLeased(h)

Error(h) == LeaseFails(h) \/ CompleteFails(h)

Next ==
    \/ \E h \in Handlers : \/ Client(h) \/ LeaseLoop(h) \/ WaitEnds(h)
                           \/ HandlerApply(h) \/ Error(h)
    \/ \E p \in Procs : AppendStep(p) \/ OtherFails(p)
    \/ SweepExpired \/ SweepNext
    \/ \E k \in Keys : Ingest(k)
    \/ Tick

Spec == Init /\ [][Next]_vars
-----------------------------------------------------------------------------
(* Properties *)

ControlPoints == {"idle", "reserve", "grant", "nowork", "waiting", "publish",
                  "deliver", "apply"}

Appending(p) == pc[p] \in {"publish", "deliver", "apply"}

LeaseCall == [task : TaskTypes \cup {None}, worker : Workers \cup {None},
              want : Nat, key : Keys \cup {None}, got : SUBSET Lease]

StoreOK ==
    /\ execs \in [Keys -> Execution]
    /\ queues \in [TaskTypes -> Seq(Keys)]
    /\ queued \in [Keys -> BOOLEAN]
    /\ running \in SUBSET Keys
    /\ counts \in [Status -> Int]

LogOK ==
    /\ wal \in [Keys -> Seq(Event)]
    /\ topic \in [Keys -> Seq(Event)]
    /\ cursor \in [Keys -> Nat]

ProcsOK ==
    /\ pc \in [Procs -> ControlPoints]
    /\ ev \in [Procs -> Event \cup {NoEvent}]
    /\ then \in [Handlers -> Event \cup {NoEvent}]
    /\ lease \in [Handlers -> LeaseCall]
    /\ expired \in SUBSET Event
    /\ \A p \in Procs : Appending(p) <=> ev[p] # NoEvent

ClientOK ==
    /\ now \in Nat /\ calls \in Nat /\ errors \in Nat
    /\ leases \in SUBSET Lease
    /\ accepted \in [Keys -> Seq([attempt : Nat, worker : Workers])]

(* Type correctness of the whole runtime; an event is held exactly while a *)
(* goroutine is inside append, and only handlers wait for work.            *)
TypeOK == StoreOK /\ LogOK /\ ProcsOK /\ ClientOK

(* No execution is lost to the scheduler: a pending execution that no      *)
(* LeaseBatch has parked is in its task type's queue, once, whatever       *)
(* handlers, sweep and poller folded in between (store.go:114-149).        *)
PendingIsQueued ==
    \A k \in Keys :
        /\ Reservable(k) => \E i \in 1..Len(queues[execs[k].spec.task]) :
                                queues[execs[k].spec.task][i] = k
        /\ queued[k] <=> \E t \in TaskTypes : \E i \in 1..Len(queues[t]) :
                                queues[t][i] = k
        /\ \A t \in TaskTypes : \A i, j \in 1..Len(queues[t]) :
                queues[t][i] = k /\ queues[t][j] = k => i = j

(* A parked execution always has a goroutine that will publish its lease:  *)
(* reserved and still pending, some LeaseBatch is between ReserveNext and  *)
(* the local Apply for exactly that key (store.go:128-164).                *)
ReservedHasOwner ==
    \A k \in Keys :
        execs[k].status = "pending" /\ execs[k].reserved =>
            \E h \in Handlers : /\ lease[h].key = k
                                /\ pc[h] = "grant" \/ Appending(h)

(* The incremental indexes are what a scan of the store would compute      *)
(* (store.go:22-27): counts per status and the running set that bounds the *)
(* expiry sweep.                                                           *)
IndexesAgree ==
    /\ running = {k \in Keys : execs[k].status = "running"}
    /\ \A s \in Status :
            counts[s] = Cardinality({k \in Keys : execs[k].status = s})

(* Exactly-once completion, within one life of the broker: of all Complete *)
(* calls for one execution, under any attempt, at most one is answered     *)
(* accepted = true (coordinator.go:302-324).                               *)
AtMostOneAccepted == \A k \in Keys : Len(accepted[k]) <= 1

(* An attempt number names one worker: no two leases handed out for an     *)
(* execution carry the same attempt, which is what lets the attempt fence  *)
(* a zombie worker (state.go:129-131).                                     *)
AttemptNamesOneWorker ==
    \A l, m \in leases : l.key = m.key /\ l.attempt = m.attempt => l = m

InLog(type, k, attempt, worker) ==
    \E i \in 1..Len(wal[k]) :
        /\ wal[k][i].type = type
        /\ wal[k][i].attempt = attempt
        /\ wal[k][i].worker = worker

(* Write-ahead: nothing is in the store or in a client's hands that the    *)
(* WAL does not hold: a known execution was submitted, a completed one was *)
(* completed by that worker under that attempt, a lease a worker was given *)
(* ("recording the lease on the log before the worker sees it") and an     *)
(* accepted completion are logged (coordinator.go:130-141, 192-194).       *)
StateBackedByLog ==
    /\ \A k \in Keys :
        /\ execs[k].status # "absent" => InLog("submitted", k, 0, None)
        /\ execs[k].status = "completed" =>
                InLog("completed", k, execs[k].attempt, execs[k].worker)
        /\ \A i \in 1..Len(accepted[k]) :
                InLog("completed", k, accepted[k][i].attempt,
                                      accepted[k][i].worker)
    /\ \A l \in leases : InLog("leased", l.key, l.attempt, l.worker)

(* A finished execution stays as it is: no late event, re-delivery, sweep  *)
(* or grant moves a terminal execution, its worker or its attempt, and     *)
(* attempts only grow (state.go:93-185).                                   *)
TerminalIsFinal ==
    [][\A k \in Keys : /\ execs'[k].attempt >= execs[k].attempt
                       /\ execs[k].status \in {"completed", "failed"} =>
                            Folded(execs'[k]) = Folded(execs[k])]_vars

-----------------------------------------------------------------------------
(* Fairness: the goroutines of the broker keep running; clients need not   *)
(* call, publishes need not fail, timers may fire late.                    *)
Fairness ==
    /\ \A h \in Handlers : WF_vars(LeaseLoop(h) \/ HandlerApply(h))
    /\ \A p \in Procs : WF_vars(AppendStep(p))
    /\ WF_vars(SweepExpired \/ SweepNext)
    /\ \A k \in Keys : WF_vars(Ingest(k))

-----------------------------------------------------------------------------
(* What comments of the source say of the runtime and the code does not    *)
(* keep; each is refuted by a configuration of its own.                    *)

(* "Fail records a failed attempt, then either schedules a retry or        *)
(* declares the execution dead" (coordinator.go:326-327): an execution     *)
(* does not stay in retrying, a crash between the two appends included.    *)
FailureIsDecided ==
    \A k \in Keys : execs[k].status = "retrying"
                        ~> execs[k].status # "retrying"

AppliedLocally(e) == \A p \in Procs : ~(Appending(p) /\ ev[p] = e)

(* "re-applying a delivered event is a no-op, so the local synchronous     *)
(* apply and the poller's later re-delivery converge on identical state"   *)
(* (state.go:90-92): a poller step over an event its appender has already  *)
(* folded leaves the execution alone.                                      *)
RedeliveryIsNoOp ==
    [][\A k \in Keys :
        (cursor'[k] # cursor[k] /\ AppliedLocally(topic[k][cursor'[k]]))
            => Folded(execs'[k]) = Folded(execs[k])]_vars

(* "Complete records a successful result exactly once"                     *)
(* (coordinator.go:302): a completion answered with accepted = true is the *)
(* execution's result.                                                     *)
AcceptedIsRecorded ==
    \A k \in Keys : accepted[k] # <<>> => execs[k].status = "completed"

(* "Execution state is a pure fold over those events, so it rebuilds       *)
(* deterministically from the log after a crash, restart" (event.go:4-6):  *)
(* a result the live store holds and a client was promised is the result   *)
(* a replay of the WAL arrives at.                                         *)
AcceptedSurvivesReplay ==
    \A k \in Keys :
        accepted[k] # <<>> /\ execs[k].status = "completed"
            => Fold(wal[k]).status = "completed"

(* "When nothing is pending it blocks up to wait" (coordinator.go:193-194):*)
(* a LeaseBatch only blocks on its wake channel while nothing is pending.  *)
BlocksOnlyWithoutWork ==
    \A h \in Handlers : pc[h] = "waiting" =>
        \A k \in Keys : execs[k].spec # None /\ Reservable(k)
                            => execs[k].spec.task # lease[h].task

(* "completing fences concurrent completion calls for the same attempt"    *)
(* (state.go:59-60): while no Complete call is in flight for a live        *)
(* execution its fence is down (a fence left up rejects every later        *)
(* completion and hides the lease from ExpiredLeases).                     *)
FenceReleased ==
    \A k \in Keys : execs[k].completing /\ ~Terminal(execs[k]) =>
        \E h \in Handlers : /\ Appending(h)
                            /\ ev[h].type = "completed" /\ ev[h].key = k
=============================================================================
