--------------------------- MODULE WorkflowWorker ---------------------------
(***************************************************************************)
(* The workflow runtime with the workers of the Go SDK as its clients      *)
(* (eventbus/workflow.go): every slot of a Worker leases a task, runs the  *)
(* handler while a goroutine sends heartbeats, reports the outcome and     *)
(* begins again, until its context is cancelled.  A call that fails for    *)
(* its caller may be served all the same.                                  *)
(*                                                                         *)
(* A call is over for the caller when its handler is idle again; what the  *)
(* caller does with the answer is part of its next step.  The handler and  *)
(* the heartbeats may take any time; a heartbeat is sent a tick after the  *)
(* lease or the last heartbeat at the earliest (the interval is never      *)
(* below a second).                                                        *)
(***************************************************************************)
EXTENDS Workflow

CONSTANT Budgets  \* what a run may spend: see Budget

Budget == [spec : Specs,          \* submitted; its task type is the workers'
           workers : SUBSET Workers,
           ticks : Nat, beats : Nat,
           callErrors : Nat,      \* calls of the loop that fail
           beatErrors : Nat,      \* heartbeats that fail
           cancels : Nat]         \* slots whose context is cancelled

ASSUME WorkerAssumption == Budgets \subseteq Budget

VARIABLES
    slot,     \* [Workers -> the loop: where it is, its lease, its last call]
    beat,     \* [Workers -> the heartbeat goroutine of execute]
    stopped,  \* slots whose context is cancelled
    answer,   \* [Handlers -> leases of the last call it served]
    left      \* what is left of the budget

workerVars == <<slot, beat, stopped, answer, left>>

allvars == <<vars, workerVars>>

NoTask(rpc) == [pc |-> "loop", l |-> None, rpc |-> rpc]
NoBeat == [on |-> FALSE, since |-> 0, rpc |-> None]

WorkerInit ==
    /\ Init
    /\ left \in Budgets
    /\ slot = [w \in Workers |-> NoTask(None)]
    /\ beat = [w \in Workers |-> NoBeat]
    /\ stopped = Workers \ left.workers
    /\ answer = [h \in Handlers |-> {}]

Spend(what) == left[what] > 0 /\ left' = [left EXCEPT ![what] = @ - 1]

Idle == {h \in Handlers : pc[h] = "idle"}

(* The handlers that may take the next call of a goroutine: the one of its *)
(* last call once that is over, or one that nobody waits for.              *)
Servers(rpc) ==
    LET held == {slot[w].rpc : w \in Workers} \cup {beat[w].rpc : w \in Workers}
        free == Idle \ held
    IN  IF rpc \in Idle THEN {rpc}
        ELSE {h \in free : h = CHOOSE g \in free : TRUE}

(* The leases a LeaseTask call brings when it ends in this step *)
Answered ==
    answer' = [h \in Handlers |->
        IF pc'[h] # "idle" THEN {}
        ELSE IF pc[h] # "idle" THEN leases' \ leases ELSE answer[h]]

Goes(w, task) == slot' = [slot EXCEPT ![w] = task]
Beats(w, b) == beat' = [beat EXCEPT ![w] = b]

(* A call that is refused, or not sent, changes nothing in the broker. *)
NoEffect == UNCHANGED <<store, log, procs, client>>

-----------------------------------------------------------------------------
(* Mutant: a long poll that found nothing ends the loop. *)
AtLoopUntilEmpty(w) ==
    \/ slot[w].pc = "loop"
    \/ slot[w].pc = "report" /\ slot[w].rpc \in Idle

(* loop: the last call returned, and brought no task. *)
AtLoop(w) ==
    LET rpc == slot[w].rpc IN
    \/ slot[w].pc = "loop"
    \/ slot[w].pc = "lease" /\ rpc \in Idle /\ answer[rpc] = {}
    \/ slot[w].pc = "report" /\ rpc \in Idle

LeaseTask(w) ==
    /\ AtLoop(w) /\ w \notin stopped
    /\ \E h \in Servers(slot[w].rpc) :
          /\ LeaseBatch(h, left.spec.task, w, 1)
          /\ Goes(w, [pc |-> "lease", l |-> None, rpc |-> h])
    /\ Answered /\ UNCHANGED <<env, beat, stopped, left>>

(* The task is there: execute starts the heartbeats and the handler. *)
execute(w) ==
    LET h == slot[w].rpc IN
    /\ slot[w].pc = "lease" /\ h \in Idle /\ w \notin stopped
    /\ \E l \in answer[h] : Goes(w, [pc |-> "run", l |-> l, rpc |-> h])
    /\ Beats(w, [on |-> TRUE, since |-> now, rpc |-> None])
    /\ answer' = [answer EXCEPT ![h] = {}]
    /\ UNCHANGED <<vars, stopped, left>>

(* The handler returned a result: the heartbeats stop and CompleteTask is  *)
(* called; its answer is not looked at.                                    *)
CompleteTask(w) ==
    LET l == slot[w].l IN
    /\ slot[w].pc = "run" /\ w \notin stopped
    /\ \/ /\ ~ BeginComplete(execs[l.key], l.attempt)
          /\ NoEffect /\ Goes(w, NoTask(slot[w].rpc))
       \/ \E h \in Servers(slot[w].rpc) :
             /\ Complete(h, l)
             /\ Goes(w, [pc |-> "report", l |-> None, rpc |-> h])
    /\ Beats(w, NoBeat)
    /\ Answered /\ UNCHANGED <<env, stopped, left>>

(* The handler returned an error, retryable or not. *)
FailTask(w) ==
    LET l == slot[w].l IN
    /\ slot[w].pc = "run" /\ w \notin stopped
    /\ \/ /\ ~ Holds(execs[l.key], l)
          /\ NoEffect /\ Goes(w, NoTask(slot[w].rpc))
       \/ \E h \in Servers(slot[w].rpc), retryable \in BOOLEAN :
             /\ Fail(h, l, retryable)
             /\ Goes(w, [pc |-> "report", l |-> None, rpc |-> h])
    /\ Beats(w, NoBeat)
    /\ Answered /\ UNCHANGED <<env, stopped, left>>

(* A call of the loop returns an error, whatever its handler does with it: *)
(* the loop backs off and goes on.                                         *)
CallFails(w) ==
    /\ slot[w].pc \in {"lease", "report"} /\ slot[w].rpc \notin Idle
    /\ Spend("callErrors")
    /\ Goes(w, NoTask(None))
    /\ UNCHANGED <<vars, beat, stopped, answer>>

-----------------------------------------------------------------------------
(* The heartbeat goroutine ends when the lease is gone ... *)
HeartbeatTask(w) ==
    LET l == slot[w].l IN
    /\ beat[w].on /\ beat[w].rpc \in Idle \cup {None} /\ beat[w].since < now
    /\ Spend("beats")
    /\ \/ /\ ~ Holds(execs[l.key], l)
          /\ NoEffect /\ Beats(w, NoBeat)
       \/ \E h \in Servers(beat[w].rpc) :
             /\ Heartbeat(h, l)
             /\ Beats(w, [on |-> TRUE, since |-> now, rpc |-> h])
    /\ Answered /\ UNCHANGED <<env, slot, stopped>>

(* ... and at the first error. *)
HeartbeatFails(w) ==
    /\ beat[w].on /\ beat[w].rpc \in Handlers \ Idle
    /\ Spend("beatErrors")
    /\ Beats(w, NoBeat)
    /\ UNCHANGED <<vars, slot, stopped, answer>>

-----------------------------------------------------------------------------
(* The context of the slot is cancelled: its heartbeats stop; its calls    *)
(* return, now or as soon as they are made, so that a task in the handler  *)
(* is not reported any more; Run returns for it.                           *)
Cancel(w) ==
    /\ w \notin stopped
    /\ Spend("cancels")
    /\ stopped' = stopped \cup {w}
    /\ Beats(w, NoBeat)
    /\ Goes(w, NoTask(None))
    /\ UNCHANGED <<vars, answer>>

-----------------------------------------------------------------------------
Handler(h) == LeaseLoop(h) \/ WaitEnds(h) \/ HandlerApply(h) \/ AppendStep(h)

Sweep == SweepExpired \/ SweepNext \/ AppendStep(Sweeper)

(* The broker goes on by itself. *)
Broker ==
    /\ \/ \E h \in Handlers : Handler(h)
       \/ Sweep
       \/ \E k \in Keys : Ingest(k)
    /\ Answered /\ UNCHANGED <<slot, beat, stopped, left>>

Clock == Tick /\ Spend("ticks") /\ UNCHANGED <<slot, beat, stopped, answer>>

SubmitWorkflow ==
    /\ \E h \in Servers(None), k \in Keys : Call(h) /\ Submit(h, k, left.spec)
    /\ Answered /\ UNCHANGED <<slot, beat, stopped, left>>

Loop(w) == LeaseTask(w) \/ execute(w) \/ CompleteTask(w) \/ FailTask(w)

WorkerNext ==
    \/ Broker \/ Clock \/ SubmitWorkflow
    \/ \E w \in Workers : \/ Loop(w) \/ CallFails(w) \/ Cancel(w)
                          \/ HeartbeatTask(w) \/ HeartbeatFails(w)

WorkerSpec == WorkerInit /\ [][WorkerNext]_allvars

(* The broker's goroutines and timers run, a worker's loop goes on and its *)
(* handlers come to an end, and the clock goes as far as the budget.       *)
WorkerFairness ==
    /\ \A h \in Handlers : WF_vars(Handler(h))
    /\ WF_vars(Sweep)
    /\ \A k \in Keys : WF_vars(Ingest(k))
    /\ WF_allvars(Clock)
    /\ \A w \in Workers : WF_allvars(Loop(w))

FairWorkerSpec == WorkerSpec /\ WorkerFairness

-----------------------------------------------------------------------------
(* Whoever has the task of k: a worker that runs it or is about to, and a  *)
(* call or a sweep that is writing an event of it.                         *)
AtWork(k) ==
    \/ \E w \in Workers \ stopped :
          \/ slot[w].pc = "run" /\ slot[w].l.key = k
          \/ slot[w].pc = "lease" /\ \E l \in answer[slot[w].rpc] : l.key = k
    \/ \E p \in Procs : Appending(p) /\ ev[p].key = k
    \/ \E e \in expired : e.key = k

(* A lease that nobody has and that outlasts the clock, as the sweep would *)
(* see if the clock went on                                                *)
Abandoned(k) ==
    /\ execs[k].status = "running" /\ ~ execs[k].reserved /\ ~ execs[k].completing
    /\ ~ AtWork(k) /\ execs[k].deadline >= now + left.ticks

(* Every submitted workflow comes to its end, completed or failed, while a *)
(* worker goes on: through lost answers, missed heartbeats, expired        *)
(* leases, retries, cancelled workers and the redelivery of every event;   *)
(* only a lease whose answer was lost or whose worker is gone may be       *)
(* waited for, if it outlasts the clock.                                   *)
ExecutionEnds ==
    \A k \in Keys :
        execs[k].status # "absent"
            ~> Terminal(execs[k]) \/ stopped = Workers \/ Abandoned(k)
=============================================================================
