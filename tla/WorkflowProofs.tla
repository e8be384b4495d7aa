--------------------------- MODULE WorkflowProofs ---------------------------
(***************************************************************************)
(* The workflow runtime, for any number of executions, workers, handlers,  *)
(* calls, ticks and failed publishes.                                      *)
(***************************************************************************)
EXTENDS WorkflowRestart, TLAPS, WellFoundedInduction, FiniteSetTheorems

(* Events as the coordinator makes them *)
Good(e) ==
    /\ e \in Event
    /\ e.type = "submitted" => e.spec \in Specs /\ e.attempt = 0 /\ e.worker = None
    /\ e.type \in {"leased", "completed"} => e.worker \in Workers

(* An execution in the map has a spec, a key not in it no flag and no attempt. *)
Known(x) ==
    /\ x \in Execution
    /\ x.status = "absent" => x.attempt = 0 /\ ~x.reserved /\ ~x.completing
    /\ x.status # "absent" => x.spec \in Specs

Reclaims == {e \in Event : e.type \in {"retry", "dead"}}

(* The goroutine serves a LeaseBatch call. *)
InLeaseCall(h) == lease[h].task \in TaskTypes /\ lease[h].worker \in Workers

ExecInv == \A k \in Keys : Known(execs[k])

(* Events belong to the partition they are in, and are as they were made.  *)
Filed(w) == \A k \in Keys : \A i \in 1..Len(w[k]) : Good(w[k][i]) /\ w[k][i].key = k

FiledInv == Filed(wal) /\ Filed(topic)

(* What a goroutine appends, and what the sweep and Fail will append *)
EventInv ==
    /\ \A p \in Procs : Appending(p) => Good(ev[p])
    /\ Appending(Sweeper) => ev[Sweeper] \in Reclaims
    /\ expired \subseteq Reclaims

(* What a handler remembers at its control point *)
CallInv ==
    \A h \in Handlers :
        /\ pc[h] \in {"reserve", "grant", "nowork", "waiting"} => InLeaseCall(h)
        /\ pc[h] = "grant" => lease[h].key \in Keys
        /\ Appending(h) /\ ev[h].type = "leased" =>
                InLeaseCall(h) /\ lease[h].key = ev[h].key
        /\ Appending(h) /\ ev[h].type = "failed" => then[h] \in Reclaims

StoreTyped == StoreOK /\ ExecInv
LogTyped == LogOK /\ FiledInv
ProcTyped == ProcsOK /\ EventInv /\ CallInv

TypeInv == StoreTyped /\ LogTyped /\ ProcTyped /\ ClientOK

(* The handlers whose completion of k is under way *)
Completing(h, k) == Appending(h) /\ ev[h].type = "completed" /\ ev[h].key = k

Fenced(x) == x.completing \/ Terminal(x)

(* The completion fence: one completion is under way or was accepted, and  *)
(* as long as it counts the fence is up or the execution is finished.      *)
FenceInv ==
    \A k \in Keys :
        /\ Len(accepted[k]) <= 1
        /\ \A g, h \in Handlers : Completing(g, k) /\ Completing(h, k) => g = h
        /\ \A h \in Handlers : Completing(h, k) => Len(accepted[k]) = 0 /\ Fenced(execs[k])
        /\ Len(accepted[k]) # 0 => Fenced(execs[k])

(* The leases that were given out or will be when a call returns *)
Given == leases \cup UNION {lease[h].got : h \in Handlers}

(* What is in memory is in the log. *)
InWal(e) == \E i \in 1..Len(wal[e.key]) : wal[e.key][i] = e

LogInv ==
    /\ \A k \in Keys : \A i \in 1..Len(topic[k]) : InWal(topic[k][i])
    /\ \A p \in Procs : pc[p] \in {"deliver", "apply"} => InWal(ev[p])
    /\ \A l \in Given : InLog("leased", l.key, l.attempt, l.worker)
    /\ StateBackedByLog

-----------------------------------------------------------------------------
(* What the fold of one event does to an execution, as the cases that      *)
(* change it.                                                              *)
FoldStep(x, e, y) ==
    \/ y = x
    \/ e.type = "submitted" /\ x.status = "absent" /\ y = newExecution(e)
    \/ /\ e.type = "leased" /\ x.status = "pending" /\ e.attempt = x.attempt + 1
       /\ y = ApplyLease(x, e)
    \/ /\ e.type = "heartbeat" /\ x.status = "running"
       /\ y = [x EXCEPT !.deadline = e.at + x.spec.ttl]
    \/ /\ e.type = "completed" /\ x.status \in {"pending", "running", "retrying"}
       /\ e.attempt = x.attempt /\ e.attempt # 0
       /\ y = ApplyComplete(x, e)
    \/ /\ e.type = "failed" /\ x.status = "running" /\ e.attempt = x.attempt
       /\ y = [x EXCEPT !.status = "retrying"]
    \/ /\ e.type = "retry" /\ x.status \in {"running", "retrying"}
       /\ y = [x EXCEPT !.status = "pending", !.worker = None, !.deadline = 0]
    \/ /\ e.type = "dead" /\ x.status \in {"pending", "running", "retrying"}
       /\ y = [x EXCEPT !.status = "failed"]

(* FoldEvent (state.go) does one of these things to an execution the store *)
(* knows, whatever event it is given.                                      *)
LEMMA FoldCases ==
    ASSUME NEW x, Known(x), NEW e, Good(e)
    PROVE  FoldStep(x, e, FoldEvent(x, e))
  <1>1. x.status \in Status \cup {"absent"} BY DEF Known, Execution
  <1>2. CASE ~ Changes(x, e)
    BY <1>2 DEF FoldEvent, FoldStep
  <1>3. CASE Changes(x, e) /\ e.type = "submitted"
    BY <1>3 DEF FoldEvent, FoldStep, Changes
  <1>4. CASE Changes(x, e) /\ e.type # "submitted"
    <2>1. FoldEvent(x, e) = apply(x, e) BY <1>4 DEF FoldEvent
    <2>2. x.status # "absent" /\ Accepts(x, e) BY <1>4 DEF Changes
    <2>3. CASE e.type = "leased"
      BY <2>1, <2>2, <2>3 DEF Accepts, apply, FoldStep
    <2>4. CASE e.type = "heartbeat"
      BY <2>1, <2>2, <2>4 DEF Accepts, apply, FoldStep
    <2>5. CASE e.type = "completed"
      BY <1>1, <2>1, <2>2, <2>5 DEF Accepts, apply, FoldStep, Terminal, Status
    <2>6. CASE e.type = "failed"
      BY <2>1, <2>2, <2>6 DEF Accepts, apply, FoldStep
    <2>7. CASE e.type = "retry"
      BY <1>1, <2>1, <2>2, <2>7 DEF Accepts, apply, FoldStep, Terminal, Status
    <2>8. CASE e.type = "dead"
      BY <1>1, <2>1, <2>2, <2>8 DEF Accepts, apply, FoldStep, Terminal, Status
    <2>9. e.type \in EventTypes BY DEF Good, Event
    <2> QED BY <1>4, <2>3, <2>4, <2>5, <2>6, <2>7, <2>8, <2>9 DEF EventTypes
  <1> QED BY <1>2, <1>3, <1>4

(* A fold keeps an execution well formed: it never forgets one and never   *)
(* replaces its spec.                                                      *)
LEMMA FoldKnown ==
    ASSUME NEW x, Known(x), NEW e, Good(e)
    PROVE  /\ Known(FoldEvent(x, e))
           /\ FoldEvent(x, e).status = "absent" => x.status = "absent"
           /\ x.status # "absent" => FoldEvent(x, e).spec = x.spec
  <1> DEFINE y == FoldEvent(x, e)
  <1>2. FoldStep(x, e, y) BY FoldCases
  <1> HIDE DEF y
  <1>3. x \in Execution /\ e \in Event BY DEF Known, Good
  <1>4. x.status # "absent" => x.spec.ttl \in Nat
    BY FoldAssumption DEF Known
  <1>5. y \in Execution
    <2>1. /\ e.attempt \in Nat /\ e.at \in Nat
          /\ e.worker \in Workers \cup {None} /\ e.spec \in Specs \cup {None}
      BY <1>3 DEF Event
    <2>2. x.status # "absent" => e.at + x.spec.ttl \in Nat
      BY <1>4, <2>1
    <2>3. CASE y = x BY <1>3, <2>3
    <2>4. CASE y = newExecution(e)
      BY <2>1, <2>4 DEF newExecution, NoExecution, Execution, Status
    <2>5. CASE x.status = "pending" /\ y = ApplyLease(x, e)
      BY <1>3, <2>1, <2>2, <2>5 DEF ApplyLease, Execution, Status
    <2>6. CASE x.status = "running" /\ y = [x EXCEPT !.deadline = e.at + x.spec.ttl]
      BY <1>3, <2>2, <2>6 DEF Execution, Status
    <2>7. CASE y = ApplyComplete(x, e)
      BY <1>3, <2>1, <2>7 DEF ApplyComplete, Execution, Status
    <2>8. CASE y = [x EXCEPT !.status = "retrying"]
      BY <1>3, <2>8 DEF Execution, Status
    <2>9. CASE y = [x EXCEPT !.status = "failed"]
      BY <1>3, <2>9 DEF Execution, Status
    <2>10. CASE y = [x EXCEPT !.status = "pending", !.worker = None, !.deadline = 0]
      BY <1>3, <2>10 DEF Execution, Status
    <2> QED BY <1>2, <2>3, <2>4, <2>5, <2>6, <2>7, <2>8, <2>9, <2>10 DEF FoldStep
  <1>6. /\ y.status = "absent" => y = x
        /\ x.status # "absent" => y.spec = x.spec
        /\ x.status = "absent" => y = x \/ y.spec \in Specs
    BY <1>2, <1>3
    DEF FoldStep, Good, ApplyLease, ApplyComplete, newExecution, NoExecution, Execution
  <1>7. Known(y) /\ (y.status = "absent" => x.status = "absent")
    BY <1>5, <1>6 DEF Known
  <1> QED BY <1>6, <1>7 DEF y

(* A finished execution is not touched. *)
LEMMA FoldTerminal ==
    ASSUME NEW x, Known(x), NEW e, Good(e), Terminal(x)
    PROVE  FoldEvent(x, e) = x
  BY FoldCases DEF FoldStep, Terminal

(* Only the lease of the next attempt counts attempts, and only that of a  *)
(* pending execution.                                                      *)
LEMMA FoldAttempt ==
    ASSUME NEW x, Known(x), NEW e, Good(e), x.status # "absent"
    PROVE  \/ FoldEvent(x, e).attempt = x.attempt
           \/ /\ e.type = "leased" /\ e.attempt = x.attempt + 1
              /\ x.status = "pending"
              /\ FoldEvent(x, e).attempt = x.attempt + 1
  <1> DEFINE y == FoldEvent(x, e)
  <1>1. FoldStep(x, e, y) BY FoldCases
  <1> HIDE DEF y
  <1>2. x \in Execution BY DEF Known
  <1>3. \/ y.attempt = x.attempt
        \/ /\ e.type = "leased" /\ e.attempt = x.attempt + 1
           /\ x.status = "pending" /\ y.attempt = x.attempt + 1
    BY <1>1, <1>2 DEF FoldStep, ApplyLease, ApplyComplete, Execution
  <1> QED BY <1>3 DEF y

-----------------------------------------------------------------------------
(* Type correctness.  Store.Apply leaves a well-formed store behind.       *)
LEMMA StoreApplyTyped ==
    ASSUME StoreTyped, NEW e, Good(e), StoreApply(e)
    PROVE  StoreTyped'
  <1> DEFINE k == e.key
             x == execs[k]
             y == FoldEvent(x, e)
  <1>1. k \in Keys BY DEF Good, Event
  <1>2. Known(x) /\ Known(y) BY <1>1, FoldKnown DEF StoreTyped, ExecInv
  <1>3. /\ execs' = [execs EXCEPT ![k] = y]
        /\ counts' = CountsAfter(x, y)
        /\ running' = RunningAfter(k, x, y)
    BY DEF StoreApply
  <1>4. \/ queues' = queues /\ queued' = queued
        \/ /\ y.status = "pending"
           /\ queues' = [queues EXCEPT ![y.spec.task] = Append(@, k)]
           /\ queued' = [queued EXCEPT ![k] = TRUE]
    <2>1. CASE Enqueues(e)
      <3>1. y.status = "pending" BY <2>1 DEF Enqueues
      <3>2. /\ queues' = [queues EXCEPT ![y.spec.task] = Append(@, k)]
            /\ queued' = [queued EXCEPT ![k] = TRUE]
        BY <2>1, Zenon DEF StoreApply
      <3> QED BY <3>1, <3>2
    <2>2. CASE ~ Enqueues(e)
      BY <2>2, Zenon DEF StoreApply
    <2> QED BY <2>1, <2>2
  <1> HIDE DEF x, y, k
  <1>5. y.status = "pending" => y.spec.task \in TaskTypes
    BY <1>2, FoldAssumption DEF Known
  <1>6. execs' \in [Keys -> Execution] /\ ExecInv'
    BY <1>1, <1>2, <1>3 DEF StoreTyped, StoreOK, ExecInv, Known
  <1>7. queues' \in [TaskTypes -> Seq(Keys)]
    <2>1. CASE queues' = queues BY <2>1 DEF StoreTyped, StoreOK
    <2>2. CASE /\ y.status = "pending"
               /\ queues' = [queues EXCEPT ![y.spec.task] = Append(@, k)]
      BY <1>1, <1>5, <2>2 DEF StoreTyped, StoreOK
    <2> QED BY <1>4, <2>1, <2>2
  <1>8. queued' \in [Keys -> BOOLEAN]
    BY <1>1, <1>4, Zenon DEF StoreTyped, StoreOK
  <1>9. running' \in SUBSET Keys
    BY <1>1, <1>3 DEF StoreTyped, StoreOK, RunningAfter
  <1>10. counts' \in [Status -> Int]
    BY <1>3 DEF StoreTyped, StoreOK, CountsAfter
  <1> QED BY <1>6, <1>7, <1>8, <1>9, <1>10 DEF StoreTyped, StoreOK

(* Where the goroutines are after one of them folded an event *)
LEMMA PcApplied ==
    ASSUME ProcsOK, NEW e, NEW p \in Procs, NEW q \in ControlPoints,
           pc' = PcAfterApply(e, p, q)
    PROVE  /\ pc' \in [Procs -> ControlPoints]
           /\ pc'[p] = q
           /\ \A r \in Procs \ {p} :
                \/ pc'[r] = pc[r]
                \/ r \in Handlers /\ pc[r] = "waiting" /\ pc'[r] = "reserve"
  <1>1. \A r \in Woken(e) : r \in Handlers /\ pc[r] = "waiting" BY DEF Woken
  <1>2. pc \in [Procs -> ControlPoints] BY DEF ProcsOK
  <1> QED BY <1>1, <1>2 DEF PcAfterApply, WakeUp, ControlPoints

(* An event the poller applies may wake long polls and nothing else. *)
LEMMA PcIngested ==
    ASSUME ProcsOK, NEW e, pc' = WakeUp(e)
    PROVE  /\ pc' \in [Procs -> ControlPoints]
           /\ \A r \in Procs :
                \/ pc'[r] = pc[r]
                \/ r \in Handlers /\ pc[r] = "waiting" /\ pc'[r] = "reserve"
  <1>1. \A r \in Woken(e) : r \in Handlers /\ pc[r] = "waiting" BY DEF Woken
  <1>2. pc \in [Procs -> ControlPoints] BY DEF ProcsOK
  <1> QED BY <1>1, <1>2 DEF WakeUp, ControlPoints

(* Logs that gain an event of their own keep good events only. *)
LEMMA LogAppended ==
    ASSUME NEW w \in [Keys -> Seq(Event)], NEW e, Good(e),
           Filed(w), NEW v, v = [w EXCEPT ![e.key] = Append(@, e)]
    PROVE  v \in [Keys -> Seq(Event)] /\ Filed(v)
  <1>1. e.key \in Keys /\ e \in Event BY DEF Good, Event
  <1>2. v \in [Keys -> Seq(Event)] BY <1>1
  <1>3. ASSUME NEW k \in Keys, NEW i \in 1..Len(v[k])
        PROVE  Good(v[k][i]) /\ v[k][i].key = k
    <2>1. CASE k # e.key BY <1>1, <1>3, <2>1 DEF Filed
    <2>2. CASE k = e.key
      <3>1. v[k] = Append(w[k], e) BY <1>1, <2>2
      <3>2. w[k] \in Seq(Event) BY <1>1
      <3>3. Len(v[k]) = Len(w[k]) + 1 BY <3>1, <3>2
      <3>4. v[k][i] = IF i <= Len(w[k]) THEN w[k][i] ELSE e
        BY <1>1, <1>3, <3>1, <3>2, <3>3
      <3>5. CASE i <= Len(w[k]) BY <1>3, <3>2, <3>4, <3>5 DEF Filed
      <3>6. CASE ~ (i <= Len(w[k])) BY <2>2, <3>4, <3>6
      <3> QED BY <3>5, <3>6
    <2> QED BY <2>1, <2>2
  <1> QED BY <1>2, <1>3 DEF Filed

(* The parts of the state an action leaves alone *)
LEMMA StoreFrame ==
    ASSUME StoreTyped, UNCHANGED store PROVE StoreTyped'
  BY DEF store, StoreTyped, StoreOK, ExecInv

(* The same for the file and the topic, *)
LEMMA LogFrame ==
    ASSUME LogTyped, UNCHANGED log PROVE LogTyped'
  BY DEF log, LogTyped, LogOK, FiledInv, Filed

(* and for what clients and the environment have done. *)
LEMMA ClientFrame ==
    ASSUME ClientOK, UNCHANGED <<env, client>> PROVE ClientOK'
  BY DEF env, client, ClientOK

(* A call that arrives is counted, and that is all of the environment it   *)
(* changes.                                                                *)
LEMMA CallTyped ==
    ASSUME ClientOK, NEW h, Call(h), UNCHANGED client PROVE ClientOK'
  <1>1. /\ calls' = calls + 1 /\ UNCHANGED <<now, errors>>
        /\ UNCHANGED <<leases, accepted>>
    BY DEF Call, client
  <1>2. now' \in Nat /\ calls' \in Nat /\ errors' \in Nat BY <1>1 DEF ClientOK
  <1>3. leases' \in SUBSET Lease BY <1>1, Zenon DEF ClientOK
  <1>4. accepted' \in [Keys -> Seq([attempt : Nat, worker : Workers])]
    BY <1>1, Zenon DEF ClientOK
  <1> QED BY <1>2, <1>3, <1>4 DEF ClientOK

(* Entering append: handler h (or the sweep) holds a good event. *)
LEMMA Appends ==
    ASSUME ProcTyped, NEW p \in Procs, NEW e, Good(e), StartAppend(p, e),
           UNCHANGED lease, expired' \subseteq expired,
           p \notin Handlers => e \in Reclaims /\ UNCHANGED then,
           p \in Handlers /\ e.type = "leased" => InLeaseCall(p) /\ lease[p].key = e.key,
           p \in Handlers /\ e.type # "failed" => UNCHANGED then,
           p \in Handlers /\ e.type = "failed" =>
                \E t \in Reclaims : then' = [then EXCEPT ![p] = t]
    PROVE  ProcTyped'
  <1>1. e \in Event /\ e # NoEvent BY DEF Good, Event, EventTypes, NoEvent
  <1>2. /\ pc' = [pc EXCEPT ![p] = "publish"]
        /\ ev' = [ev EXCEPT ![p] = e]
    BY DEF StartAppend
  <1>3. ProcsOK'
    BY <1>1, <1>2 DEF ProcTyped, ProcsOK, Appending, ControlPoints, Reclaims, EventInv, Procs
  <1>4. EventInv'
    BY <1>1, <1>2, WorkflowAssumption DEF ProcTyped, ProcsOK, Appending, EventInv, Procs
  <1>5. CallInv'
    BY <1>1, <1>2 DEF ProcTyped, ProcsOK, Appending, CallInv, InLeaseCall, Procs
  <1> QED BY <1>3, <1>4, <1>5 DEF ProcTyped

(* Leaving append: the goroutine has answered its caller. *)
LEMMA Returns ==
    ASSUME ProcTyped, NEW p \in Procs, Return(p), UNCHANGED expired,
           then' = then \/ then' = [h \in Handlers |-> IF h = p THEN NoEvent ELSE then[h]],
           \/ lease' = lease
           \/ p \in Handlers /\ lease' = [lease EXCEPT ![p] = NoLease]
    PROVE  ProcTyped'
  <1>1. /\ pc' = [pc EXCEPT ![p] = "idle"]
        /\ ev' = [ev EXCEPT ![p] = NoEvent]
    BY DEF Return
  <1>2. NoLease \in LeaseCall BY DEF NoLease, LeaseCall
  <1>3. ProcsOK'
    BY <1>1, <1>2 DEF ProcTyped, ProcsOK, Appending, ControlPoints, Procs
  <1>4. EventInv'
    BY <1>1 DEF ProcTyped, ProcsOK, Appending, EventInv, Procs
  <1>5. CallInv'
    BY <1>1 DEF ProcTyped, ProcsOK, Appending, CallInv, InLeaseCall, Procs
  <1> QED BY <1>3, <1>4, <1>5 DEF ProcTyped

(* A goroutine in append holds an event of a key; the others hold none. *)
LEMMA Held ==
    ASSUME TypeInv, NEW p \in Procs, Appending(p)
    PROVE  Good(ev[p]) /\ ev[p] \in Event /\ ev[p].key \in Keys
  BY DEF TypeInv, ProcTyped, EventInv, Good, Event

(* Submit, LeaseBatch, Heartbeat, Complete and Fail (coordinator.go), as   *)
(* they arrive, keep the types.                                            *)
LEMMA ClientTyped ==
    ASSUME TypeInv, NEW h \in Handlers, Client(h)
    PROVE  TypeInv'
  <1>1. h \in Procs BY DEF Procs
  <1>2. ASSUME NEW k \in Keys, NEW s \in Specs, Submit(h, k, s), Call(h)
        PROVE  TypeInv'
    <2>1. Good(SubmitEnvelope(k, s)) /\ SubmitEnvelope(k, s).type = "submitted"
      BY DEF Good, SubmitEnvelope, newEnvelope, Event, EventTypes
    <2>2. ProcTyped' BY <1>1, <1>2, <2>1, Appends DEF Submit, TypeInv
    <2>10. UNCHANGED store /\ UNCHANGED log /\ UNCHANGED client BY <1>2 DEF Submit
    <2> QED BY <1>2, <2>2, <2>10, StoreFrame, LogFrame, CallTyped DEF TypeInv
  <1>3. ASSUME NEW t \in TaskTypes, NEW w \in Workers, NEW max \in 1..MaxBatch,
               LeaseBatch(h, t, w, max), Call(h)
        PROVE  TypeInv'
    <2> DEFINE r == [NoLease EXCEPT !.task = t, !.worker = w, !.want = max]
    <2>1. r \in LeaseCall /\ r.task = t /\ r.worker = w
      <3>1. max \in Nat BY WorkflowAssumption
      <3> QED BY <3>1 DEF NoLease, LeaseCall
    <2>2. /\ pc[h] = "idle" /\ pc' = [pc EXCEPT ![h] = "reserve"]
          /\ lease' = [lease EXCEPT ![h] = r]
          /\ UNCHANGED <<store, log, ev, then, expired, client>>
      BY <1>3 DEF LeaseBatch, Call
    <2> HIDE DEF r
    <2>3. ProcsOK'
      BY <1>1, <2>1, <2>2 DEF TypeInv, ProcTyped, ProcsOK, Appending, ControlPoints
    <2>4. EventInv' /\ CallInv'
      BY <1>1, <2>1, <2>2
      DEF TypeInv, ProcTyped, ProcsOK, Appending, EventInv, CallInv, InLeaseCall
    <2> QED BY <1>3, <2>2, <2>3, <2>4, StoreFrame, LogFrame, CallTyped
        DEF TypeInv, ProcTyped
  <1>4. ASSUME NEW l \in leases, Heartbeat(h, l), Call(h)
        PROVE  TypeInv'
    <2>1. l \in Lease /\ now \in Nat BY DEF TypeInv, ClientOK
    <2>2. Good(newEnvelope("heartbeat", l.key, l.attempt, l.worker, now))
          /\ newEnvelope("heartbeat", l.key, l.attempt, l.worker, now).type = "heartbeat"
      BY <2>1 DEF Good, newEnvelope, Event, EventTypes, Lease
    <2>3. ProcTyped' BY <1>1, <1>4, <2>2, Appends DEF Heartbeat, TypeInv
    <2>10. UNCHANGED store /\ UNCHANGED log /\ UNCHANGED client BY <1>4 DEF Heartbeat
    <2> QED BY <1>4, <2>3, <2>10, StoreFrame, LogFrame, CallTyped DEF TypeInv
  <1>5. ASSUME NEW l \in leases, Complete(h, l), Call(h)
        PROVE  TypeInv'
    <2>1. l \in Lease /\ l.key \in Keys BY DEF TypeInv, ClientOK, Lease
    <2>2. Good(newEnvelope("completed", l.key, l.attempt, l.worker, 0))
          /\ newEnvelope("completed", l.key, l.attempt, l.worker, 0).type = "completed"
      BY <2>1 DEF Good, newEnvelope, Event, EventTypes, Lease
    <2>3. ProcTyped' BY <1>1, <1>5, <2>2, Appends DEF Complete, TypeInv
    <2>4. StoreTyped'
      <3>1. Known(execs[l.key]) /\ execs[l.key].status # "absent"
        BY <1>5, <2>1 DEF Complete, BeginComplete, TypeInv, StoreTyped, ExecInv
      <3>2. execs' = [execs EXCEPT ![l.key].completing = TRUE]
        BY <1>5 DEF Complete
      <3>3. execs' = [execs EXCEPT ![l.key] = [execs[l.key] EXCEPT !.completing = TRUE]]
        BY <3>2
      <3>4. Known([execs[l.key] EXCEPT !.completing = TRUE])
        BY <3>1 DEF Known, Execution
      <3> QED BY <1>5, <2>1, <3>3, <3>4
          DEF Complete, TypeInv, StoreTyped, StoreOK, ExecInv, Known
    <2>10. UNCHANGED log /\ UNCHANGED client BY <1>5 DEF Complete
    <2> QED BY <1>5, <2>3, <2>4, <2>10, LogFrame, CallTyped DEF TypeInv
  <1>6. ASSUME NEW l \in leases, NEW r \in BOOLEAN, Fail(h, l, r), Call(h)
        PROVE  TypeInv'
    <2>1. l \in Lease /\ l.key \in Keys BY DEF TypeInv, ClientOK, Lease
    <2>2. Good(newEnvelope("failed", l.key, l.attempt, l.worker, 0))
          /\ newEnvelope("failed", l.key, l.attempt, l.worker, 0).type = "failed"
      BY <2>1 DEF Good, newEnvelope, Event, EventTypes, Lease
    <2>3. execs[l.key].attempt \in Nat
      BY <2>1 DEF TypeInv, StoreTyped, StoreOK, Execution
    <2>4. \A type \in {"retry", "dead"} :
            newEnvelope(type, l.key, execs[l.key].attempt, None, 0) \in Reclaims
      BY <2>1, <2>3 DEF newEnvelope, Event, EventTypes, Reclaims
    <2>5. \E t \in Reclaims : then' = [then EXCEPT ![h] = t]
      BY <1>6, <2>4 DEF Fail
    <2>6. ProcTyped' BY <1>1, <1>6, <2>2, <2>5, Appends DEF Fail, TypeInv
    <2>10. UNCHANGED store /\ UNCHANGED log /\ UNCHANGED client BY <1>6 DEF Fail
    <2> QED BY <1>6, <2>6, <2>10, StoreFrame, LogFrame, CallTyped DEF TypeInv
  <1> QED BY <1>2, <1>3, <1>4, <1>5, <1>6 DEF Client

(* What ReserveNext pops is unmarked, and its queue keeps keys only. *)
LEMMA PopTyped ==
    ASSUME StoreOK, NEW t \in TaskTypes, NEW n \in Nat, PopQueue(t, n)
    PROVE  /\ queues' \in [TaskTypes -> Seq(Keys)]
           /\ queued' \in [Keys -> BOOLEAN]
  <1>1. queues[t] \in Seq(Keys) BY DEF StoreOK
  <1>2. SubSeq(queues[t], n+1, Len(queues[t])) \in Seq(Keys) BY <1>1
  <1>3. queues' \in [TaskTypes -> Seq(Keys)] BY <1>2 DEF PopQueue, StoreOK
  <1>4. queued' \in [Keys -> BOOLEAN] BY Zenon DEF PopQueue
  <1> QED BY <1>3, <1>4

(* ReserveNext's search: the number of the first reservable entry, or one  *)
(* more than the length when there is none.                                *)
LEMMA FirstReservableIs ==
    ASSUME NEW q \in Seq(Keys)
    PROVE  /\ FirstReservable(q) \in 1..Len(q)+1
           /\ FirstReservable(q) <= Len(q) => Reservable(q[FirstReservable(q)])
           /\ \A m \in 1..FirstReservable(q)-1 : ~Reservable(q[m])
  <1> DEFINE S == {n \in Nat : n \in 1..Len(q)+1 /\ (n <= Len(q) => Reservable(q[n]))}
             Less == OpToRel(<, Nat)
  <1>1. Len(q) \in Nat OBVIOUS
  <1>2. Len(q) + 1 \in S BY <1>1
  <1>3. \A m, n \in Nat : m < n => <<m, n>> \in Less BY DEF OpToRel
  <1>4. IsWellFoundedOn(Less, Nat) BY NatLessThanWellFounded
  <1> HIDE DEF Less
  <1>5. S \subseteq Nat OBVIOUS
  <1>6. PICK n \in S : \A m \in S : ~ (<<m, n>> \in Less)
    <2> HIDE DEF S
    <2> QED BY <1>2, <1>4, <1>5, WFMin
  <1>7. \A m \in S : ~ (m < n) BY <1>3, <1>5, <1>6
  <1>8. \A m \in 1..n-1 : m \in 1..Len(q) /\ m \notin S BY <1>1, <1>7
  <1>9. \A m \in 1..n-1 : ~Reservable(q[m]) BY <1>8
  <1>10. n \in 1..Len(q)+1 /\ (n <= Len(q) => Reservable(q[n])) BY <1>6
  <1> QED BY <1>9, <1>10 DEF FirstReservable

(* A handler that hands out leases changes nothing else of the *)
(* environment. *)
LEMMA EnvFrame ==
    ASSUME ClientOK, UNCHANGED <<env, accepted>>, leases' \subseteq Lease
    PROVE  ClientOK'
  <1>1. UNCHANGED <<now, calls, errors, accepted>> BY DEF env
  <1> QED BY <1>1 DEF ClientOK

(* The loop of LeaseBatch, which reserves, waits and wakes up, keeps the   *)
(* types.                                                                  *)
LEMMA LeaseLoopTyped ==
    ASSUME TypeInv, NEW h \in Handlers, LeaseLoop(h) \/ WaitEnds(h)
    PROVE  TypeInv'
  <1>1. h \in Procs BY DEF Procs
  <1>2. ASSUME pc[h] = "reserve"
        PROVE  /\ lease[h].task \in TaskTypes /\ lease[h].worker \in Workers
               /\ queues[lease[h].task] \in Seq(Keys)
    BY <1>2 DEF TypeInv, ProcTyped, CallInv, InLeaseCall, StoreTyped, StoreOK
  <1>3. lease[h] \in LeaseCall /\ lease[h].got \subseteq Lease
    BY DEF TypeInv, ProcTyped, ProcsOK, LeaseCall
  <1>4. CASE ReserveNext(h)
    <2> DEFINE t == lease[h].task
               q == queues[t]
               n == FirstReservable(q)
    <2>1. /\ pc[h] = "reserve" /\ n <= Len(q)
          /\ PopQueue(t, n)
          /\ execs' = [execs EXCEPT ![q[n]].reserved = TRUE]
          /\ lease' = [lease EXCEPT ![h].key = q[n]]
          /\ pc' = [pc EXCEPT ![h] = "grant"]
          /\ UNCHANGED <<running, counts, log, ev, then, expired, env, client>>
      BY <1>4 DEF ReserveNext
    <2>2. t \in TaskTypes /\ lease[h].worker \in Workers /\ q \in Seq(Keys)
      BY <1>2, <2>1
    <2>3. n \in 1..Len(q) /\ Reservable(q[n])
      BY <2>1, <2>2, FirstReservableIs
    <2> HIDE DEF t, q, n
    <2>4. n \in Nat /\ q[n] \in Keys BY <2>2, <2>3
    <2>5. StoreTyped'
      <3>1. Known(execs[q[n]]) /\ execs[q[n]].status = "pending"
        BY <2>3, <2>4 DEF Reservable, TypeInv, StoreTyped, ExecInv
      <3>2. execs' = [execs EXCEPT ![q[n]] = [execs[q[n]] EXCEPT !.reserved = TRUE]]
        BY <2>1
      <3>3. Known([execs[q[n]] EXCEPT !.reserved = TRUE])
        BY <3>1 DEF Known, Execution
      <3>4. execs' \in [Keys -> Execution] /\ ExecInv'
        BY <2>4, <3>2, <3>3 DEF TypeInv, StoreTyped, StoreOK, ExecInv, Known
      <3>5. StoreOK BY DEF TypeInv, StoreTyped
      <3>6. queues' \in [TaskTypes -> Seq(Keys)] /\ queued' \in [Keys -> BOOLEAN]
        BY <2>1, <2>2, <2>4, <3>5, PopTyped
      <3>7. UNCHANGED <<running, counts>> BY <2>1
      <3> QED BY <3>4, <3>5, <3>6, <3>7 DEF StoreTyped, StoreOK
    <2>6. ProcTyped'
      <3>1. lease' = [lease EXCEPT ![h] = [lease[h] EXCEPT !.key = q[n]]] BY <2>1
      <3>2. [lease[h] EXCEPT !.key = q[n]] \in LeaseCall
        BY <1>3, <2>4 DEF LeaseCall
      <3>3. UNCHANGED <<ev, then, expired>> BY <2>1
      <3>4. ProcsOK'
        BY <1>1, <2>1, <3>1, <3>2, <3>3
        DEF TypeInv, ProcTyped, ProcsOK, Appending, ControlPoints
      <3>5. EventInv'
        BY <1>1, <2>1, <3>3 DEF TypeInv, ProcTyped, ProcsOK, Appending, EventInv
      <3>6. CallInv'
        BY <1>1, <1>3, <2>1, <2>2, <2>4, <3>1, <3>3
        DEF TypeInv, ProcTyped, ProcsOK, Appending, CallInv, InLeaseCall, LeaseCall, t
      <3> QED BY <3>4, <3>5, <3>6 DEF ProcTyped
    <2>7. UNCHANGED log /\ UNCHANGED <<env, client>> BY <2>1
    <2> QED BY <2>5, <2>6, <2>7, LogFrame, ClientFrame DEF TypeInv
  <1>5. CASE ReserveNone(h)
    <2> DEFINE t == lease[h].task
               q == queues[t]
    <2>1. /\ pc[h] = "reserve" /\ PopQueue(t, Len(q))
          /\ UNCHANGED <<execs, running, counts, log, then, expired, env, accepted>>
      BY <1>5 DEF ReserveNone
    <2>2. \/ Return(h) /\ ReturnLeases(h, lease[h].got)
          \/ pc' = [pc EXCEPT ![h] = "nowork"] /\ UNCHANGED <<ev, lease, leases>>
      BY <1>5 DEF ReserveNone
    <2>3. t \in TaskTypes /\ q \in Seq(Keys) BY <1>2, <2>1
    <2>4. Len(q) \in Nat BY <2>3
    <2> HIDE DEF t, q
    <2>5. StoreOK BY DEF TypeInv, StoreTyped
    <2>6. queues' \in [TaskTypes -> Seq(Keys)] /\ queued' \in [Keys -> BOOLEAN]
      BY <2>1, <2>3, <2>4, <2>5, PopTyped
    <2>7. UNCHANGED <<execs, running, counts>> BY <2>1
    <2>8. StoreTyped'
      BY <2>5, <2>6, <2>7 DEF TypeInv, StoreTyped, StoreOK, ExecInv
    <2>9. UNCHANGED log /\ UNCHANGED <<env, accepted>> BY <2>1
    <2>10. CASE Return(h) /\ ReturnLeases(h, lease[h].got)
      <3>1. ProcTyped' BY <1>1, <2>1, <2>10, Returns DEF TypeInv, ReturnLeases
      <3>2. leases' \subseteq Lease BY <1>3, <2>10 DEF ReturnLeases, TypeInv, ClientOK
      <3> QED BY <2>8, <2>9, <3>1, <3>2, LogFrame, EnvFrame DEF TypeInv
    <2>11. CASE pc' = [pc EXCEPT ![h] = "nowork"] /\ UNCHANGED <<ev, lease, leases>>
      <3>0. UNCHANGED <<then, expired>> BY <2>1
      <3>1. ProcsOK'
        BY <1>1, <2>1, <2>11, <3>0
        DEF TypeInv, ProcTyped, ProcsOK, Appending, ControlPoints
      <3>2. EventInv' /\ CallInv'
        BY <1>1, <2>1, <2>11, <3>0
        DEF TypeInv, ProcTyped, ProcsOK, Appending, EventInv, CallInv, InLeaseCall
      <3>3. leases' \subseteq Lease BY <2>11 DEF TypeInv, ClientOK
      <3> QED BY <2>8, <2>9, <3>1, <3>2, <3>3, LogFrame, EnvFrame DEF TypeInv, ProcTyped
    <2> QED BY <2>2, <2>10, <2>11
  <1>6. CASE WaitChan(h)
    <2>1. /\ pc[h] = "nowork" /\ pc' = [pc EXCEPT ![h] = "waiting"]
          /\ UNCHANGED <<ev, then, lease, expired>>
          /\ UNCHANGED store /\ UNCHANGED log /\ UNCHANGED <<env, client>>
      BY <1>6 DEF WaitChan
    <2>2. ProcsOK'
      BY <1>1, <2>1 DEF TypeInv, ProcTyped, ProcsOK, Appending, ControlPoints
    <2>3. EventInv' /\ CallInv'
      BY <1>1, <2>1
      DEF TypeInv, ProcTyped, ProcsOK, Appending, EventInv, CallInv, InLeaseCall
    <2> QED BY <2>1, <2>2, <2>3, StoreFrame, LogFrame, ClientFrame DEF TypeInv, ProcTyped
  <1>7. CASE Grant(h)
    <2> DEFINE k == lease[h].key
               e == newEnvelope("leased", k, execs[k].attempt + 1, lease[h].worker, now)
    <2>1. k \in Keys /\ InLeaseCall(h)
      BY <1>7 DEF Grant, TypeInv, ProcTyped, CallInv
    <2>2. execs[k].attempt + 1 \in Nat /\ now \in Nat
      BY <2>1 DEF TypeInv, StoreTyped, StoreOK, Execution, ClientOK
    <2>3. Good(e) /\ e.type = "leased" /\ e.key = k
      BY <2>1, <2>2 DEF Good, newEnvelope, Event, EventTypes, InLeaseCall
    <2>4. StartAppend(h, e) /\ UNCHANGED <<then, lease, expired>>
          /\ UNCHANGED store /\ UNCHANGED log /\ UNCHANGED <<env, client>>
      BY <1>7 DEF Grant
    <2> HIDE DEF e
    <2>5. ProcTyped' BY <1>1, <2>1, <2>3, <2>4, Appends DEF TypeInv
    <2> QED BY <2>4, <2>5, StoreFrame, LogFrame, ClientFrame DEF TypeInv
  <1>8. CASE WaitEnds(h)
    <2>1. /\ Return(h) /\ UNCHANGED <<then, expired>>
          /\ leases' = leases \cup {} /\ lease' = [lease EXCEPT ![h] = NoLease]
          /\ UNCHANGED store /\ UNCHANGED log /\ UNCHANGED <<env, accepted>>
      BY <1>8 DEF WaitEnds, ReturnLeases
    <2>2. ProcTyped' BY <1>1, <2>1, Returns DEF TypeInv
    <2>3. leases' \subseteq Lease BY <2>1 DEF TypeInv, ClientOK
    <2> QED BY <2>1, <2>2, <2>3, StoreFrame, LogFrame, EnvFrame DEF TypeInv
  <1> QED BY <1>4, <1>5, <1>6, <1>7, <1>8 DEF LeaseLoop

(* The local Apply moves its own goroutine on and wakes waiting ones. *)
LEMMA Applies ==
    ASSUME ProcTyped, NEW p \in Procs, NEW e, NEW q \in {"idle", "reserve"},
           pc' = PcAfterApply(e, p, q), ev' = [ev EXCEPT ![p] = NoEvent],
           UNCHANGED <<then, expired>>,
           \/ lease' = lease
           \/ p \in Handlers /\ \E r \in LeaseCall : lease' = [lease EXCEPT ![p] = r],
           q = "reserve" => p \in Handlers /\ lease'[p].task \in TaskTypes
                                           /\ lease'[p].worker \in Workers
    PROVE  ProcTyped'
  <1>1. q \in ControlPoints BY DEF ControlPoints
  <1>2. ProcsOK BY DEF ProcTyped
  <1>3. /\ pc' \in [Procs -> ControlPoints] /\ pc'[p] = q
        /\ \A r \in Procs \ {p} :
             \/ pc'[r] = pc[r]
             \/ r \in Handlers /\ pc[r] = "waiting" /\ pc'[r] = "reserve"
    BY <1>1, <1>2, PcApplied
  <1>4. \A r \in Procs \ {p} : ev'[r] = ev[r] /\ (Appending(r))' = Appending(r)
    BY <1>2, <1>3 DEF ProcsOK, Appending
  <1>5. ~ (Appending(p))' /\ ev'[p] = NoEvent
    BY <1>2, <1>3 DEF ProcsOK, Appending
  <1>6. \A r \in Handlers \ {p} : lease'[r] = lease[r]
    BY <1>2 DEF ProcsOK
  <1>7. ProcsOK'
    <2>1. lease' \in [Handlers -> LeaseCall] BY <1>2 DEF ProcsOK
    <2>2. ev' \in [Procs -> Event \cup {NoEvent}] BY <1>2 DEF ProcsOK
    <2>3. \A r \in Procs : (Appending(r))' <=> ev'[r] # NoEvent
      BY <1>2, <1>4, <1>5 DEF ProcsOK
    <2> QED BY <1>2, <1>3, <2>1, <2>2, <2>3 DEF ProcsOK
  <1>8. EventInv'
    BY <1>4, <1>5 DEF ProcTyped, EventInv, Procs
  <1>9. CallInv'
    BY <1>3, <1>4, <1>5, <1>6 DEF ProcTyped, CallInv, InLeaseCall, Procs
  <1> QED BY <1>7, <1>8, <1>9 DEF ProcTyped

(* So does a handler that applies the event it has published. *)
LEMMA HandlerApplyTyped ==
    ASSUME TypeInv, NEW h \in Handlers, HandlerApply(h)
    PROVE  TypeInv'
  <1>1. h \in Procs BY DEF Procs
  <1>2. Appending(h) BY DEF HandlerApply, ApplyCompleted, ApplyFailed, ApplyLeased, Appending
  <1>3. Good(ev[h]) /\ ev[h] \in Event /\ ev[h].key \in Keys BY <1>1, <1>2, Held
  <1>4. StoreApply(ev[h]) BY DEF HandlerApply, ApplyCompleted, ApplyFailed, ApplyLeased
  <1>5. StoreTyped' BY <1>3, <1>4, StoreApplyTyped DEF TypeInv
  <1>6. CASE ApplyCompleted(h)
    <2>1. /\ ev[h].type = "completed"
          /\ pc' = PcAfterApply(ev[h], h, "idle")
          /\ ev' = [ev EXCEPT ![h] = NoEvent]
          /\ UNCHANGED <<then, expired>> /\ UNCHANGED lease /\ UNCHANGED log
          /\ UNCHANGED env /\ UNCHANGED leases
      BY <1>6 DEF ApplyCompleted
    <2>2. ProcTyped'
      <3>1. /\ lease' = lease /\ UNCHANGED <<then, expired>> /\ ProcTyped
            /\ pc' = PcAfterApply(ev[h], h, "idle")
            /\ ev' = [ev EXCEPT ![h] = NoEvent]
        BY <2>1 DEF TypeInv
      <3> QED BY <1>1, <3>1, Applies
    <2> DEFINE r == [attempt |-> ev[h].attempt, worker |-> ev[h].worker]
    <2>3. accepted' = [accepted EXCEPT ![ev[h].key] = Append(@, r)]
      BY <1>6 DEF ApplyCompleted
    <2>4. accepted' \in [Keys -> Seq([attempt : Nat, worker : Workers])]
      <3>1. r \in [attempt : Nat, worker : Workers]
        BY <1>3, <2>1 DEF Good, Event
      <3> DEFINE R == [attempt : Nat, worker : Workers]
      <3>2. accepted \in [Keys -> Seq(R)] /\ r \in R
        BY <3>1 DEF TypeInv, ClientOK
      <3> HIDE DEF r, R
      <3>3. accepted' \in [Keys -> Seq(R)] BY <1>3, <2>3, <3>2
      <3> QED BY <3>3 DEF R
    <2>5. UNCHANGED <<now, calls, errors, leases>> BY <2>1 DEF env
    <2>6. ClientOK' BY <2>4, <2>5 DEF TypeInv, ClientOK
    <2> QED BY <1>5, <2>1, <2>2, <2>6, LogFrame DEF TypeInv
  <1>7. CASE ApplyFailed(h)
    <2>1. /\ ev[h].type = "failed"
          /\ pc' = PcAfterApply(ev[h], h, "publish")
          /\ ev' = [ev EXCEPT ![h] = then[h]]
          /\ then' = [then EXCEPT ![h] = NoEvent]
          /\ UNCHANGED lease /\ UNCHANGED expired
          /\ UNCHANGED log /\ UNCHANGED <<env, client>>
      BY <1>7 DEF ApplyFailed
    <2>2. ProcTyped'
      <3>1. "publish" \in ControlPoints BY DEF ControlPoints
      <3>2. ProcsOK BY DEF TypeInv, ProcTyped
      <3>3. /\ pc' \in [Procs -> ControlPoints] /\ pc'[h] = "publish"
            /\ \A r \in Procs \ {h} :
                \/ pc'[r] = pc[r]
                \/ r \in Handlers /\ pc[r] = "waiting" /\ pc'[r] = "reserve"
        BY <1>1, <2>1, <3>1, <3>2, PcApplied
      <3>4. \A r \in Procs \ {h} : ev'[r] = ev[r] /\ (Appending(r))' = Appending(r)
        BY <2>1, <3>2, <3>3 DEF ProcsOK, Appending
      <3>5. then[h] \in Reclaims
        BY <1>2, <2>1 DEF TypeInv, ProcTyped, CallInv
      <3>6. then[h] \in Event /\ Good(then[h]) /\ then[h] # NoEvent
            /\ then[h].type \in {"retry", "dead"}
        BY <3>5 DEF Reclaims, Good, NoEvent, Event
      <3>7. (Appending(h))' /\ ev'[h] = then[h]
        BY <1>1, <2>1, <3>2, <3>3 DEF ProcsOK, Appending
      <3>8. ProcsOK'
        <4>1. then' \in [Handlers -> Event \cup {NoEvent}] BY <2>1, <3>2 DEF ProcsOK
        <4>2. ev' \in [Procs -> Event \cup {NoEvent}] BY <2>1, <3>2, <3>6 DEF ProcsOK
        <4>3. \A r \in Procs : (Appending(r))' <=> ev'[r] # NoEvent
          BY <3>2, <3>4, <3>6, <3>7 DEF ProcsOK
        <4> QED BY <2>1, <3>2, <3>3, <4>1, <4>2, <4>3 DEF ProcsOK
      <3>9. EventInv'
        BY <2>1, <3>4, <3>6, <3>7, WorkflowAssumption
        DEF TypeInv, ProcTyped, EventInv, Procs
      <3>10. CallInv'
        BY <2>1, <3>2, <3>3, <3>4, <3>6, <3>7
        DEF TypeInv, ProcTyped, CallInv, InLeaseCall, Procs, ProcsOK
      <3> QED BY <3>8, <3>9, <3>10 DEF ProcTyped
    <2> QED BY <1>5, <2>1, <2>2, LogFrame, ClientFrame DEF TypeInv
  <1>8. CASE ApplyLeased(h)
    <2> DEFINE l == [key |-> ev[h].key, attempt |-> ev[h].attempt, worker |-> ev[h].worker]
               got == lease[h].got \cup {l}
               more == Cardinality(got) < lease[h].want
    <2>1. /\ ev[h].type = "leased"
          /\ pc' = PcAfterApply(ev[h], h, IF more THEN "reserve" ELSE "idle")
          /\ ev' = [ev EXCEPT ![h] = NoEvent]
          /\ UNCHANGED <<then, expired>> /\ UNCHANGED log /\ UNCHANGED <<env, accepted>>
      BY <1>8 DEF ApplyLeased
    <2>2. /\ more => lease' = [lease EXCEPT ![h].got = got, ![h].key = None]
                       /\ leases' = leases
          /\ ~more => lease' = [lease EXCEPT ![h] = NoLease] /\ leases' = leases \cup got
      BY <1>8 DEF ApplyLeased, ReturnLeases
    <2>3. l \in Lease BY <1>3, <2>1 DEF Good, Event, Lease
    <2>4. lease[h] \in LeaseCall /\ InLeaseCall(h)
      BY <1>2, <2>1 DEF TypeInv, ProcTyped, ProcsOK, CallInv
    <2>5. got \subseteq Lease BY <2>3, <2>4 DEF LeaseCall
    <2> HIDE DEF l, got, more
    <2>6. CASE more
      <3> DEFINE r == [lease[h] EXCEPT !.got = got, !.key = None]
      <3>1. r \in LeaseCall BY <2>4, <2>5 DEF LeaseCall
      <3>2. r.task = lease[h].task /\ r.worker = lease[h].worker BY <2>4 DEF LeaseCall
      <3>3. lease' = [lease EXCEPT ![h] = r] BY <2>2, <2>6
      <3> HIDE DEF r
      <3>4. lease'[h].task \in TaskTypes /\ lease'[h].worker \in Workers
        BY <2>4, <3>2, <3>3 DEF TypeInv, ProcTyped, ProcsOK, InLeaseCall
      <3>5. pc' = PcAfterApply(ev[h], h, "reserve") BY <2>1, <2>6
      <3>6. ProcTyped' BY <1>1, <2>1, <3>1, <3>3, <3>4, <3>5, Applies DEF TypeInv
      <3>7. leases' \subseteq Lease BY <2>2, <2>6 DEF TypeInv, ClientOK
      <3> QED BY <1>5, <2>1, <3>6, <3>7, LogFrame, EnvFrame DEF TypeInv
    <2>7. CASE ~ more
      <3>1. NoLease \in LeaseCall BY DEF NoLease, LeaseCall
      <3>2. pc' = PcAfterApply(ev[h], h, "idle") BY <2>1, <2>7
      <3>3. ProcTyped' BY <1>1, <2>1, <2>2, <2>7, <3>1, <3>2, Applies DEF TypeInv
      <3>4. leases' \subseteq Lease BY <2>2, <2>5, <2>7 DEF TypeInv, ClientOK
      <3> QED BY <1>5, <2>1, <3>3, <3>4, LogFrame, EnvFrame DEF TypeInv
    <2> QED BY <2>6, <2>7
  <1> QED BY <1>6, <1>7, <1>8 DEF HandlerApply

(* The log part of a publish that fails, possibly behind the write *)
LEMMA PublishErrorTyped ==
    ASSUME TypeInv, NEW p \in Procs, PublishError(p)
    PROVE  /\ LogTyped' /\ Appending(p)
           /\ leases' \subseteq Lease => ClientOK'
  <1>1. Appending(p) BY DEF PublishError, Appending
  <1>2. Good(ev[p]) BY <1>1, Held
  <1>3. /\ wal' = wal \/ wal' = [wal EXCEPT ![ev[p].key] = Append(@, ev[p])]
        /\ UNCHANGED <<topic, cursor>> /\ UNCHANGED <<now, calls, accepted>>
        /\ errors' = errors + 1
    BY DEF PublishError
  <1>4. wal \in [Keys -> Seq(Event)] /\ Filed(wal) BY DEF TypeInv, LogTyped, LogOK, FiledInv
  <1>5. wal' \in [Keys -> Seq(Event)] /\ Filed(wal')
    <2>1. CASE wal' = wal BY <1>4, <2>1
    <2>2. CASE wal' = [wal EXCEPT ![ev[p].key] = Append(@, ev[p])]
      BY <1>2, <1>4, <2>2, LogAppended
    <2> QED BY <1>3, <2>1, <2>2
  <1>6. LogTyped'
    BY <1>3, <1>5 DEF TypeInv, LogTyped, LogOK, FiledInv, Filed
  <1>7. ASSUME leases' \subseteq Lease PROVE ClientOK'
    <2>1. now' \in Nat /\ calls' \in Nat /\ errors' \in Nat
      BY <1>3 DEF TypeInv, ClientOK
    <2>2. accepted' \in [Keys -> Seq([attempt : Nat, worker : Workers])]
      BY <1>3, Zenon DEF TypeInv, ClientOK
    <2> QED BY <1>7, <2>1, <2>2 DEF ClientOK
  <1> QED BY <1>1, <1>6, <1>7

(* Known executions stay known when a flag is lowered. *)
LEMMA FlagTyped ==
    ASSUME StoreTyped, NEW k \in Keys, NEW y \in Execution,
           y.status = execs[k].status, y.spec = execs[k].spec,
           y.attempt = execs[k].attempt,
           y.reserved => execs[k].reserved, y.completing => execs[k].completing,
           execs' = [execs EXCEPT ![k] = y]
    PROVE  execs' \in [Keys -> Execution] /\ ExecInv'
  <1>1. Known(execs[k]) /\ execs \in [Keys -> Execution] BY DEF StoreTyped, StoreOK, ExecInv
  <1>2. Known(y) BY <1>1 DEF Known
  <1> QED BY <1>1, <1>2 DEF StoreTyped, ExecInv

(* A handler whose append fails takes back what it had set (Unreserve, the *)
(* completion fence), which keeps the types.                               *)
LEMMA ErrorTyped ==
    ASSUME TypeInv, NEW h \in Handlers, Error(h)
    PROVE  TypeInv'
  <1>1. h \in Procs BY DEF Procs
  <1>2. PublishError(h) BY DEF Error, LeaseFails, CompleteFails
  <1>3. /\ LogTyped' /\ Appending(h)
        /\ leases' \subseteq Lease => ClientOK'
    BY <1>1, <1>2, PublishErrorTyped
  <1>4. Return(h) /\ UNCHANGED expired BY <1>2 DEF PublishError
  <1> DEFINE k == ev[h].key
             x == execs[k]
  <1>5. k \in Keys /\ x \in Execution
    BY <1>1, <1>3, Held DEF TypeInv, StoreTyped, StoreOK
  <1>6. Known(x) BY <1>5 DEF TypeInv, StoreTyped, ExecInv
  <1>7. CASE LeaseFails(h)
    <2> DEFINE requeue == x.reserved /\ x.status = "pending" /\ ~queued[k]
    <2>1. /\ execs' = [execs EXCEPT ![k].reserved = FALSE]
          /\ queues' = IF requeue THEN [queues EXCEPT ![x.spec.task] = <<k>> \o @]
                                  ELSE queues
          /\ queued' = [queued EXCEPT ![k] = @ \/ requeue]
          /\ UNCHANGED <<running, counts>> /\ UNCHANGED then
      BY <1>7 DEF LeaseFails
    <2>2. leases' = leases \cup lease[h].got /\ lease' = [lease EXCEPT ![h] = NoLease]
      BY <1>7 DEF LeaseFails, ReturnLeases
    <2>3. execs' \in [Keys -> Execution] /\ ExecInv'
      <3> DEFINE y == [x EXCEPT !.reserved = FALSE]
      <3>1. /\ y \in Execution /\ y.status = x.status /\ y.spec = x.spec
            /\ y.attempt = x.attempt
        BY <1>5 DEF Execution
      <3>2. (y.reserved => x.reserved) /\ (y.completing => x.completing)
        BY <1>5 DEF Execution
      <3>3. execs' = [execs EXCEPT ![k] = y] BY <2>1
      <3> HIDE DEF y
      <3> QED BY <1>5, <3>1, <3>2, <3>3, FlagTyped DEF TypeInv
    <2>4. queues' \in [TaskTypes -> Seq(Keys)]
      <3>1. CASE ~ requeue BY <2>1, <3>1 DEF TypeInv, StoreTyped, StoreOK
      <3>2. CASE requeue
        <4>1. x.status = "pending" BY <3>2
        <4>2. x.spec.task \in TaskTypes BY <1>6, <4>1, FoldAssumption DEF Known
        <4>3. queues' = [queues EXCEPT ![x.spec.task] = <<k>> \o @] BY <2>1, <3>2
        <4>4. queues \in [TaskTypes -> Seq(Keys)] BY DEF TypeInv, StoreTyped, StoreOK
        <4>5. <<k>> \o queues[x.spec.task] \in Seq(Keys) BY <1>5, <4>2, <4>4
        <4> QED BY <4>2, <4>3, <4>4, <4>5
      <3> QED BY <3>1, <3>2
    <2>5. queued' \in [Keys -> BOOLEAN]
      BY <1>5, <2>1, Zenon DEF TypeInv, StoreTyped, StoreOK
    <2>6. StoreTyped'
      BY <2>1, <2>3, <2>4, <2>5 DEF TypeInv, StoreTyped, StoreOK
    <2>7. ProcTyped' BY <1>1, <1>4, <2>1, <2>2, Returns DEF TypeInv
    <2>8. leases' \subseteq Lease
      BY <2>2 DEF TypeInv, ProcTyped, ProcsOK, LeaseCall, ClientOK
    <2> QED BY <1>3, <2>6, <2>7, <2>8 DEF TypeInv
  <1>8. CASE CompleteFails(h)
    <2>1. /\ execs' = [execs EXCEPT ![k].completing = FALSE]
          /\ UNCHANGED <<queues, queued, running, counts>>
          /\ UNCHANGED <<then, lease, leases>>
      BY <1>8 DEF CompleteFails
    <2>2. execs' \in [Keys -> Execution] /\ ExecInv'
      <3> DEFINE y == [x EXCEPT !.completing = FALSE]
      <3>1. /\ y \in Execution /\ y.status = x.status /\ y.spec = x.spec
            /\ y.attempt = x.attempt
        BY <1>5 DEF Execution
      <3>2. (y.reserved => x.reserved) /\ (y.completing => x.completing)
        BY <1>5 DEF Execution
      <3>3. execs' = [execs EXCEPT ![k] = y] BY <2>1
      <3> HIDE DEF y
      <3> QED BY <1>5, <3>1, <3>2, <3>3, FlagTyped DEF TypeInv
    <2>3. StoreTyped' BY <2>1, <2>2 DEF TypeInv, StoreTyped, StoreOK
    <2>4. ProcTyped' BY <1>1, <1>4, <2>1, Returns DEF TypeInv
    <2>5. leases' \subseteq Lease BY <2>1 DEF TypeInv, ClientOK
    <2> QED BY <1>3, <2>3, <2>4, <2>5 DEF TypeInv
  <1> QED BY <1>7, <1>8 DEF Error

(* The publish path below every handler and the sweeper, the file first    *)
(* and the ring second, keeps them,                                        *)
LEMMA AppendStepTyped ==
    ASSUME TypeInv, NEW p \in Procs, AppendStep(p) \/ OtherFails(p)
    PROVE  TypeInv'
  <1>1. CASE WalAppend(p) \/ PublishToPartition(p)
    <2>1. Appending(p) BY <1>1 DEF WalAppend, PublishToPartition, Appending
    <2>2. Good(ev[p]) BY <2>1, Held
    <2>3. /\ pc[p] \in {"publish", "deliver"}
          /\ \E c \in {"deliver", "apply"} : pc' = [pc EXCEPT ![p] = c]
          /\ UNCHANGED <<ev, then, lease, expired>> /\ UNCHANGED cursor
          /\ UNCHANGED store /\ UNCHANGED <<env, client>>
      BY <1>1 DEF WalAppend, PublishToPartition
    <2>4. \/ topic' = topic /\ wal' = [wal EXCEPT ![ev[p].key] = Append(@, ev[p])]
          \/ wal' = wal /\ topic' = [topic EXCEPT ![ev[p].key] = Append(@, ev[p])]
      BY <1>1 DEF WalAppend, PublishToPartition
    <2>5. /\ wal \in [Keys -> Seq(Event)] /\ Filed(wal)
          /\ topic \in [Keys -> Seq(Event)] /\ Filed(topic)
      BY DEF TypeInv, LogTyped, LogOK, FiledInv
    <2>6. /\ wal' \in [Keys -> Seq(Event)] /\ Filed(wal')
          /\ topic' \in [Keys -> Seq(Event)] /\ Filed(topic')
      <3>1. CASE topic' = topic /\ wal' = [wal EXCEPT ![ev[p].key] = Append(@, ev[p])]
        <4>1. wal' \in [Keys -> Seq(Event)] /\ Filed(wal') BY <2>2, <2>5, <3>1, LogAppended
        <4> QED BY <2>5, <3>1, <4>1
      <3>2. CASE wal' = wal /\ topic' = [topic EXCEPT ![ev[p].key] = Append(@, ev[p])]
        <4>1. topic' \in [Keys -> Seq(Event)] /\ Filed(topic')
          BY <2>2, <2>5, <3>2, LogAppended
        <4> QED BY <2>5, <3>2, <4>1
      <3> QED BY <2>4, <3>1, <3>2
    <2>7. LogTyped'
      BY <2>3, <2>6 DEF TypeInv, LogTyped, LogOK, FiledInv, Filed
    <2>8. ProcsOK'
      BY <2>3 DEF TypeInv, ProcTyped, ProcsOK, Appending, ControlPoints
    <2>9. \A r \in Procs : (Appending(r))' <=> Appending(r)
      BY <2>3 DEF TypeInv, ProcTyped, ProcsOK, Appending
    <2>10. EventInv' /\ CallInv'
      BY <2>3, <2>9 DEF TypeInv, ProcTyped, ProcsOK, EventInv, CallInv, InLeaseCall, Procs
    <2> QED BY <2>3, <2>7, <2>8, <2>10, StoreFrame, ClientFrame DEF TypeInv, ProcTyped
  <1>2. CASE ApplyAndReturn(p)
    <2>1. /\ pc[p] = "apply" /\ StoreApply(ev[p])
          /\ pc' = PcAfterApply(ev[p], p, "idle")
          /\ ev' = [ev EXCEPT ![p] = NoEvent]
          /\ UNCHANGED <<then, expired>> /\ lease' = lease
          /\ UNCHANGED log /\ UNCHANGED <<env, client>>
      BY <1>2 DEF ApplyAndReturn
    <2>2. Appending(p) BY <2>1 DEF Appending
    <2>3. Good(ev[p]) BY <2>2, Held
    <2>4. StoreTyped' BY <2>1, <2>3, StoreApplyTyped DEF TypeInv
    <2>5. ProcTyped' BY <2>1, Applies DEF TypeInv
    <2> QED BY <2>1, <2>4, <2>5, LogFrame, ClientFrame DEF TypeInv
  <1>3. CASE OtherFails(p)
    <2>1. /\ PublishError(p) /\ Return(p) /\ UNCHANGED expired
          /\ then' = [h \in Handlers |-> IF h = p THEN NoEvent ELSE then[h]]
          /\ UNCHANGED store /\ lease' = lease /\ leases' = leases
      BY <1>3 DEF OtherFails, PublishError
    <2>2. LogTyped' /\ (leases' \subseteq Lease => ClientOK') BY <2>1, PublishErrorTyped
    <2>3. leases' \subseteq Lease BY <2>1 DEF TypeInv, ClientOK
    <2>4. ProcTyped' BY <2>1, Returns DEF TypeInv
    <2> QED BY <2>1, <2>2, <2>3, <2>4, StoreFrame DEF TypeInv
  <1> QED BY <1>1, <1>2, <1>3 DEF AppendStep

(* the expiry sweep over its snapshot keeps them, *)
LEMMA SweepTyped ==
    ASSUME TypeInv, SweepExpired \/ SweepNext
    PROVE  TypeInv'
  <1>1. Sweeper \in Procs /\ Sweeper \notin Handlers BY WorkflowAssumption DEF Procs
  <1>2. CASE SweepExpired
    <2>1. /\ expired' = {Reclaim(k) : k \in ExpiredLeases}
          /\ UNCHANGED <<pc, ev, then, lease>>
          /\ UNCHANGED store /\ UNCHANGED log /\ UNCHANGED <<env, client>>
      BY <1>2 DEF SweepExpired
    <2>2. \A k \in ExpiredLeases : Reclaim(k) \in Reclaims
      <3> SUFFICES ASSUME NEW k \in ExpiredLeases PROVE Reclaim(k) \in Reclaims OBVIOUS
      <3>1. k \in Keys /\ execs[k].attempt \in Nat
        BY DEF ExpiredLeases, TypeInv, StoreTyped, StoreOK, Execution
      <3>2. \A type \in {"retry", "dead"} :
                newEnvelope(type, k, execs[k].attempt, None, 0) \in Reclaims
        BY <3>1 DEF newEnvelope, Event, EventTypes, Reclaims
      <3> QED BY <3>2 DEF Reclaim
    <2>3. expired' \subseteq Reclaims /\ expired' \subseteq Event
      BY <2>1, <2>2 DEF Reclaims
    <2>4. ProcsOK'
      BY <2>1, <2>3 DEF TypeInv, ProcTyped, ProcsOK, Appending
    <2>5. EventInv' /\ CallInv'
      BY <2>1, <2>3 DEF TypeInv, ProcTyped, EventInv, CallInv, InLeaseCall, Appending
    <2> QED BY <2>1, <2>4, <2>5, StoreFrame, LogFrame, ClientFrame DEF TypeInv, ProcTyped
  <1>3. CASE SweepNext
    <2>1. PICK e \in expired : StartAppend(Sweeper, e) /\ expired' = expired \ {e}
      BY <1>3 DEF SweepNext
    <2>2. e \in Reclaims BY DEF TypeInv, ProcTyped, EventInv
    <2>3. Good(e) BY <2>2 DEF Reclaims, Good
    <2>4. /\ UNCHANGED then /\ UNCHANGED lease
          /\ UNCHANGED store /\ UNCHANGED log /\ UNCHANGED <<env, client>>
      BY <1>3 DEF SweepNext
    <2>5. expired' \subseteq expired BY <2>1
    <2>6. ProcTyped' BY <1>1, <2>1, <2>2, <2>3, <2>4, <2>5, Appends DEF TypeInv
    <2> QED BY <2>4, <2>6, StoreFrame, LogFrame, ClientFrame DEF TypeInv
  <1> QED BY <1>2, <1>3

(* What the Poller fetches is an event of the partition. *)
LEMMA Fetched ==
    ASSUME TypeInv, NEW k \in Keys, FetchOffset(k) + 1 <= Len(topic[k])
    PROVE  /\ FetchOffset(k) + 1 \in 1..Len(topic[k])
           /\ Good(topic[k][FetchOffset(k) + 1])
           /\ topic[k][FetchOffset(k) + 1].key = k
  <1>1. /\ topic[k] \in Seq(Event) /\ Len(topic[k]) \in Nat /\ cursor[k] \in Nat
    BY DEF TypeInv, LogTyped, LogOK
  <1>2. FetchOffset(k) \in Nat
    BY <1>1, WorkflowAssumption DEF FetchOffset, RingHead
  <1>3. FetchOffset(k) + 1 \in 1..Len(topic[k]) BY <1>1, <1>2
  <1> QED BY <1>3 DEF TypeInv, LogTyped, FiledInv, Filed

(* and the poller keeps them, which applies every event of the topic once  *)
(* more.                                                                   *)
LEMMA IngestTyped ==
    ASSUME TypeInv, NEW k \in Keys, Ingest(k)
    PROVE  TypeInv'
  <1> DEFINE i == FetchOffset(k) + 1
  <1>1. /\ i <= Len(topic[k]) /\ StoreApply(topic[k][i])
        /\ cursor' = [cursor EXCEPT ![k] = i] /\ pc' = WakeUp(topic[k][i])
        /\ UNCHANGED <<wal, topic>> /\ UNCHANGED <<ev, then, lease, expired>>
        /\ UNCHANGED <<env, client>>
    BY DEF Ingest
  <1>2. i \in 1..Len(topic[k]) /\ Good(topic[k][i]) BY <1>1, Fetched
  <1> HIDE DEF i
  <1>3. StoreTyped' BY <1>1, <1>2, StoreApplyTyped DEF TypeInv
  <1>4. ProcsOK BY DEF TypeInv, ProcTyped
  <1>5. /\ pc' \in [Procs -> ControlPoints]
        /\ \A r \in Procs :
             \/ pc'[r] = pc[r]
             \/ r \in Handlers /\ pc[r] = "waiting" /\ pc'[r] = "reserve"
    BY <1>1, <1>4, PcIngested
  <1>6. \A r \in Procs : (Appending(r))' <=> Appending(r) BY <1>5 DEF Appending
  <1>7. ProcsOK' BY <1>1, <1>4, <1>5, <1>6 DEF ProcsOK
  <1>8. EventInv' BY <1>1, <1>6 DEF TypeInv, ProcTyped, EventInv, Procs
  <1>9. CallInv' BY <1>1, <1>5, <1>6 DEF TypeInv, ProcTyped, CallInv, InLeaseCall, Procs
  <1>10. LogTyped'
    BY <1>1, <1>2 DEF TypeInv, LogTyped, LogOK, FiledInv, Filed
  <1> QED BY <1>1, <1>3, <1>7, <1>8, <1>9, <1>10, ClientFrame DEF TypeInv, ProcTyped

(* Every step keeps the types, *)
LEMMA TypeStep ==
    ASSUME TypeInv, [Next]_vars
    PROVE  TypeInv'
  <1>1. CASE UNCHANGED vars
    <2>1. UNCHANGED store /\ UNCHANGED log /\ UNCHANGED <<env, client>>
      BY <1>1 DEF vars
    <2>2. UNCHANGED <<pc, ev, then, lease, expired>> BY <1>1 DEF vars, procs
    <2>3. ProcTyped'
      BY <2>2 DEF TypeInv, ProcTyped, ProcsOK, EventInv, CallInv, InLeaseCall, Appending
    <2> QED BY <2>1, <2>3, StoreFrame, LogFrame, ClientFrame DEF TypeInv
  <1>2. CASE Tick
    <2>1. UNCHANGED store /\ UNCHANGED log /\ now' = now + 1
          /\ UNCHANGED <<calls, errors>> /\ UNCHANGED client
      BY <1>2 DEF Tick
    <2>2. UNCHANGED <<pc, ev, then, lease, expired>> BY <1>2 DEF Tick, procs
    <2>3. ProcTyped'
      BY <2>2 DEF TypeInv, ProcTyped, ProcsOK, EventInv, CallInv, InLeaseCall, Appending
    <2>4. UNCHANGED <<leases, accepted>> BY <2>1 DEF client
    <2>5. now' \in Nat /\ calls' \in Nat /\ errors' \in Nat BY <2>1 DEF TypeInv, ClientOK
    <2>6. leases' \in SUBSET Lease /\ accepted' \in [Keys -> Seq([attempt : Nat, worker : Workers])]
      BY <2>4, Zenon DEF TypeInv, ClientOK
    <2>7. ClientOK' BY <2>5, <2>6 DEF ClientOK
    <2> QED BY <2>1, <2>3, <2>7, StoreFrame, LogFrame DEF TypeInv
  <1>3. CASE Next
    <2>1. ASSUME NEW h \in Handlers,
                 \/ Client(h) \/ LeaseLoop(h) \/ WaitEnds(h)
                 \/ HandlerApply(h) \/ Error(h)
          PROVE  TypeInv'
      BY <2>1, ClientTyped, LeaseLoopTyped, HandlerApplyTyped, ErrorTyped
    <2>2. ASSUME NEW p \in Procs, AppendStep(p) \/ OtherFails(p)
          PROVE  TypeInv'
      BY <2>2, AppendStepTyped
    <2>3. ASSUME NEW k \in Keys, Ingest(k) PROVE TypeInv' BY <2>3, IngestTyped
    <2> QED BY <1>2, <1>3, <2>1, <2>2, <2>3, SweepTyped DEF Next
  <1> QED BY <1>1, <1>3

(* and a new broker has them. *)
LEMMA TypeInit ==
    ASSUME Init PROVE TypeInv
  <1>1. NoExecution \in Execution /\ Known(NoExecution)
    BY DEF NoExecution, Execution, Known, Status
  <1>2. StoreTyped
    BY <1>1 DEF Init, StoreTyped, StoreOK, ExecInv
  <1>3. LogTyped
    BY DEF Init, LogTyped, LogOK, FiledInv, Filed
  <1>4. NoLease \in LeaseCall BY DEF NoLease, LeaseCall
  <1>5. ProcTyped
    BY <1>4 DEF Init, ProcTyped, ProcsOK, EventInv, CallInv, ControlPoints, Appending, Procs
  <1>6. ClientOK BY DEF Init, ClientOK
  <1> QED BY <1>2, <1>3, <1>5, <1>6 DEF TypeInv

(* Every reachable state satisfies the typing invariant: events are filed  *)
(* under their own key, executions are blank or have a spec, and every     *)
(* goroutine remembers what its control point needs.                       *)
THEOREM TypingHolds == Spec => []TypeInv
  <1>1. Init => TypeInv BY TypeInit
  <1>2. TypeInv /\ [Next]_vars => TypeInv' BY TypeStep
  <1> QED BY <1>1, <1>2, PTL DEF Spec

(* TypeOK holds in every reachable state, for any constants: in particular *)
(* an event is held exactly while a goroutine is inside append.            *)
THEOREM TypeCorrect == Spec => []TypeOK
  <1>1. TypeInv => TypeOK BY DEF TypeInv, TypeOK, StoreTyped, LogTyped, ProcTyped
  <1> QED BY <1>1, TypingHolds, PTL

-----------------------------------------------------------------------------
(* Interleaving.  In a step of one goroutine the others do nothing, except *)
(* that a fold may wake a waiting LeaseBatch.                              *)
Still(r) ==
    /\ ev'[r] = ev[r]
    /\ \/ pc'[r] = pc[r]
       \/ pc[r] = "waiting" /\ pc'[r] = "reserve"
    /\ r \in Handlers => lease'[r] = lease[r]

HandlerActs(h) ==
    Client(h) \/ LeaseLoop(h) \/ WaitEnds(h) \/ HandlerApply(h) \/ Error(h)

Sweeps == SweepExpired \/ SweepNext

Acts(p) ==
    \/ p \in Handlers /\ HandlerActs(p)
    \/ AppendStep(p) \/ OtherFails(p)
    \/ p = Sweeper /\ Sweeps

(* A step of one goroutine leaves the control point and the event of every *)
(* other goroutine alone, except that a waiting long poll may be woken.    *)
LEMMA OthersStill ==
    ASSUME TypeInv, NEW p \in Procs, Acts(p), NEW r \in Procs \ {p}
    PROVE  Still(r)
  <1>1. /\ pc \in [Procs -> ControlPoints] /\ ev \in [Procs -> Event \cup {NoEvent}]
        /\ lease \in [Handlers -> LeaseCall] /\ ProcsOK
    BY DEF TypeInv, ProcTyped, ProcsOK
  <1>2. ASSUME NEW e, NEW q \in ControlPoints, pc' = PcAfterApply(e, p, q)
        PROVE  \/ pc'[r] = pc[r]
               \/ pc[r] = "waiting" /\ pc'[r] = "reserve"
    BY <1>1, <1>2, PcApplied
  <1>3. {"idle", "reserve", "publish"} \subseteq ControlPoints BY DEF ControlPoints
  <1>4. CASE p \in Handlers /\ Client(p)
    BY <1>1, <1>4
    DEF Client, Submit, LeaseBatch, Heartbeat, Complete, Fail, StartAppend, Still
  <1>5. CASE p \in Handlers /\ (LeaseLoop(p) \/ WaitEnds(p))
    BY <1>1, <1>5
    DEF LeaseLoop, ReserveNext, ReserveNone, WaitChan, Grant, StartAppend, WaitEnds,
        Return, ReturnLeases, Still
  <1>6. CASE p \in Handlers /\ ApplyCompleted(p)
    BY <1>1, <1>2, <1>3, <1>6 DEF ApplyCompleted, Still
  <1>7. CASE p \in Handlers /\ ApplyFailed(p)
    BY <1>1, <1>2, <1>3, <1>7 DEF ApplyFailed, Still
  <1>8. CASE p \in Handlers /\ ApplyLeased(p)
    <2>1. /\ \/ pc' = PcAfterApply(ev[p], p, "idle")
             \/ pc' = PcAfterApply(ev[p], p, "reserve")
          /\ ev' = [ev EXCEPT ![p] = NoEvent]
          /\ r \in Handlers => lease'[r] = lease[r]
      BY <1>1, <1>8 DEF ApplyLeased, ReturnLeases
    <2> QED BY <1>1, <1>2, <1>3, <2>1 DEF Still
  <1>9. CASE p \in Handlers /\ Error(p)
    BY <1>1, <1>9 DEF Error, LeaseFails, CompleteFails, PublishError, Return, ReturnLeases, Still
  <1>10. CASE WalAppend(p) \/ PublishToPartition(p)
    BY <1>1, <1>10 DEF WalAppend, PublishToPartition, Still
  <1>11. CASE ApplyAndReturn(p)
    BY <1>1, <1>2, <1>3, <1>11 DEF ApplyAndReturn, Still
  <1>12. CASE OtherFails(p)
    BY <1>1, <1>12 DEF OtherFails, PublishError, Return, Still
  <1>13. CASE p = Sweeper /\ Sweeps
    BY <1>1, <1>13 DEF Sweeps, SweepExpired, SweepNext, StartAppend, Still
  <1> QED BY <1>4, <1>5, <1>6, <1>7, <1>8, <1>9, <1>10, <1>11, <1>12, <1>13
      DEF Acts, HandlerActs, HandlerApply, AppendStep

(* The poller and the clock leave all of them alone, in the same sense. *)
LEMMA AllStill ==
    ASSUME TypeInv, (\E k \in Keys : Ingest(k)) \/ Tick \/ UNCHANGED vars,
           NEW r \in Procs
    PROVE  Still(r)
  <1>1. ProcsOK BY DEF TypeInv, ProcTyped
  <1>2. CASE \E k \in Keys : Ingest(k)
    <2>1. PICK e : pc' = WakeUp(e) BY <1>2 DEF Ingest
    <2>2. UNCHANGED <<ev, lease>> BY <1>2 DEF Ingest
    <2> QED BY <1>1, <2>1, <2>2, PcIngested DEF Still
  <1>3. CASE Tick \/ UNCHANGED vars
    <2>1. UNCHANGED <<pc, ev, lease>> BY <1>3 DEF Tick, vars, procs
    <2> QED BY <2>1 DEF Still
  <1> QED BY <1>2, <1>3

(* Every step is one of these. *)
LEMMA StepCases ==
    ASSUME [Next]_vars
    PROVE  \/ \E p \in Procs : Acts(p)
           \/ \E k \in Keys : Ingest(k)
           \/ Tick \/ UNCHANGED vars
  <1>1. Handlers \subseteq Procs /\ Sweeper \in Procs BY DEF Procs
  <1>2. CASE Next
    <2>1. ASSUME NEW h \in Handlers, HandlerActs(h) PROVE \E p \in Procs : Acts(p)
      BY <1>1, <2>1 DEF Acts
    <2>2. ASSUME NEW p \in Procs, AppendStep(p) \/ OtherFails(p) PROVE Acts(p)
      BY <2>2 DEF Acts
    <2>3. ASSUME Sweeps PROVE Acts(Sweeper) BY <2>3 DEF Acts
    <2> QED BY <1>1, <1>2, <2>1, <2>2, <2>3 DEF Next, HandlerActs, Sweeps
  <1> QED BY <1>2

-----------------------------------------------------------------------------
(* Executions move by folding an event of their own key, or a flag moves.  *)
FlagStep(x, y) ==
    /\ y \in Execution
    /\ y.status = x.status /\ y.spec = x.spec /\ y.attempt = x.attempt
    /\ y.worker = x.worker /\ y.deadline = x.deadline

(* The events that are folded in the next step: the ones goroutines have   *)
(* published and the ones the Poller finds in the topic                    *)
Delivered(e) ==
    \/ \E p \in Procs : pc[p] = "apply" /\ ev[p] = e
    \/ \E k \in Keys : \E i \in 1..Len(topic[k]) : topic[k][i] = e

StoreStep == \E e : Good(e) /\ Delivered(e) /\ StoreApply(e)

(* A step that folds nothing leaves the scheduling counters alone. *)
FlagsOnly ==
    /\ \A k \in Keys : FlagStep(execs[k], execs'[k])
    /\ UNCHANGED <<running, counts>>

(* Every step folds one event that was delivered into the store, or only   *)
(* sets and clears flags of executions.                                    *)
LEMMA StoreMoves ==
    ASSUME TypeInv, [Next]_vars
    PROVE  StoreStep \/ FlagsOnly
  <1>1. execs \in [Keys -> Execution] BY DEF TypeInv, StoreTyped, StoreOK
  <1>2. ASSUME UNCHANGED <<execs, running, counts>> PROVE FlagsOnly
    BY <1>1, <1>2 DEF FlagStep, FlagsOnly
  <1>4. ASSUME NEW j \in Keys, NEW b \in BOOLEAN, UNCHANGED <<running, counts>>,
               \/ execs' = [execs EXCEPT ![j].reserved = b]
               \/ execs' = [execs EXCEPT ![j].completing = b]
        PROVE  FlagsOnly
    <2>1. CASE execs' = [execs EXCEPT ![j].reserved = b]
      BY <1>1, <1>4, <2>1 DEF FlagStep, Execution, FlagsOnly
    <2>2. CASE execs' = [execs EXCEPT ![j].completing = b]
      BY <1>1, <1>4, <2>2 DEF FlagStep, Execution, FlagsOnly
    <2> QED BY <1>4, <2>1, <2>2
  <1>5. ASSUME NEW p \in Procs, Acts(p) PROVE StoreStep \/ FlagsOnly
    <2>3. CASE p \in Handlers /\ Client(p)
      <3>1. CASE \E l \in leases : Complete(p, l)
        <4>1. PICK l \in leases : execs' = [execs EXCEPT ![l.key].completing = TRUE]
          BY <3>1 DEF Complete
        <4>2. l.key \in Keys BY DEF TypeInv, ClientOK, Lease
        <4>3. UNCHANGED <<running, counts>> BY <3>1 DEF Complete
        <4> QED BY <1>4, <4>1, <4>2, <4>3
      <3>2. CASE ~ \E l \in leases : Complete(p, l)
        <4>1. UNCHANGED <<execs, running, counts>>
          BY <2>3, <3>2 DEF Client, Submit, LeaseBatch, Heartbeat, Fail, store
        <4> QED BY <1>2, <4>1
      <3> QED BY <3>1, <3>2
    <2>4. CASE p \in Handlers /\ ReserveNext(p)
      <3> DEFINE q == queues[lease[p].task]
                 n == FirstReservable(q)
      <3>1. /\ pc[p] = "reserve" /\ n <= Len(q)
            /\ execs' = [execs EXCEPT ![q[n]].reserved = TRUE]
            /\ UNCHANGED <<running, counts>>
        BY <2>4 DEF ReserveNext
      <3>2. q \in Seq(Keys)
        BY <2>4, <3>1 DEF TypeInv, ProcTyped, CallInv, InLeaseCall, StoreTyped, StoreOK
      <3>3. n \in 1..Len(q) BY <3>1, <3>2, FirstReservableIs
      <3> HIDE DEF q, n
      <3>4. q[n] \in Keys BY <3>2, <3>3
      <3> QED BY <1>4, <3>1, <3>4
    <2>5. CASE p \in Handlers /\ Error(p)
      <3>1. Appending(p) BY <2>5 DEF Error, LeaseFails, CompleteFails, PublishError, Appending
      <3>2. ev[p].key \in Keys BY <3>1, Held
      <3>3. UNCHANGED <<running, counts>> BY <2>5 DEF Error, LeaseFails, CompleteFails
      <3> QED BY <1>4, <2>5, <3>2, <3>3 DEF Error, LeaseFails, CompleteFails
    <2>6. CASE \/ p \in Handlers /\ (ReserveNone(p) \/ WaitChan(p) \/ Grant(p) \/ WaitEnds(p))
               \/ WalAppend(p) \/ PublishToPartition(p) \/ OtherFails(p) \/ Sweeps
      <3>1. UNCHANGED <<execs, running, counts>>
        BY <2>6 DEF ReserveNone, WaitChan, Grant, WaitEnds, WalAppend, PublishToPartition,
                    OtherFails, Sweeps, SweepExpired, SweepNext, store
      <3> QED BY <1>2, <3>1
    <2>7. CASE (p \in Handlers /\ HandlerApply(p)) \/ ApplyAndReturn(p)
      <3>1. pc[p] = "apply" /\ StoreApply(ev[p])
        BY <2>7 DEF HandlerApply, ApplyCompleted, ApplyFailed, ApplyLeased, ApplyAndReturn
      <3>2. Appending(p) BY <3>1 DEF Appending
      <3>3. Good(ev[p]) BY <3>2, Held
      <3> QED BY <3>1, <3>3 DEF StoreStep, Delivered
    <2> QED BY <1>5, <2>3, <2>4, <2>5, <2>6, <2>7 DEF Acts, HandlerActs, LeaseLoop, AppendStep
  <1>6. ASSUME NEW j \in Keys, Ingest(j) PROVE StoreStep
    <2>1. /\ FetchOffset(j) + 1 <= Len(topic[j])
          /\ StoreApply(topic[j][FetchOffset(j) + 1])
      BY <1>6 DEF Ingest
    <2>2. /\ FetchOffset(j) + 1 \in 1..Len(topic[j])
          /\ Good(topic[j][FetchOffset(j) + 1])
      BY <2>1, Fetched
    <2> QED BY <2>1, <2>2 DEF StoreStep, Delivered
  <1>7. ASSUME Tick \/ UNCHANGED vars PROVE FlagsOnly
    <2>1. UNCHANGED <<execs, running, counts>> BY <1>7 DEF Tick, vars, store
    <2> QED BY <1>2, <2>1
  <1> QED BY <1>5, <1>6, <1>7, StepCases

(* Seen from one execution: a step folds an event of its key, or changes   *)
(* flags.                                                                  *)
LEMMA ExecMoves ==
    ASSUME TypeInv, [Next]_vars, NEW k \in Keys
    PROVE  \/ FlagStep(execs[k], execs'[k])
           \/ \E e : /\ Good(e) /\ Delivered(e) /\ e.key = k
                    /\ execs'[k] = FoldEvent(execs[k], e)
  <1>1. CASE FlagsOnly BY <1>1 DEF FlagsOnly
  <1>2. CASE StoreStep
    <2>1. PICK e : Good(e) /\ Delivered(e) /\ StoreApply(e) BY <1>2 DEF StoreStep
    <2>2. execs' = [execs EXCEPT ![e.key] = FoldEvent(execs[e.key], e)]
      BY <2>1 DEF StoreApply
    <2>3. execs \in [Keys -> Execution] BY DEF TypeInv, StoreTyped, StoreOK
    <2>4. CASE e.key = k BY <2>1, <2>2, <2>3, <2>4
    <2>5. CASE e.key # k
      <3>1. execs'[k] = execs[k] /\ execs[k] \in Execution BY <2>2, <2>3, <2>5
      <3> QED BY <3>1 DEF FlagStep
    <2> QED BY <2>4, <2>5
  <1> QED BY <1>1, <1>2, StoreMoves

(* No step changes the folded fields of a finished execution, and no step  *)
(* takes an attempt back, whichever of the handlers, the sweep, the local  *)
(* Apply or the Poller's re-delivery it belongs to (state.go:93-185).      *)
THEOREM FinishedStaysFinished == Spec => TerminalIsFinal
  <1> DEFINE Final == \A k \in Keys :
                        /\ execs'[k].attempt >= execs[k].attempt
                        /\ execs[k].status \in {"completed", "failed"} =>
                                Folded(execs'[k]) = Folded(execs[k])
  <1>1. ASSUME TypeInv, [Next]_vars PROVE Final
    <2> SUFFICES ASSUME NEW k \in Keys
                 PROVE  /\ execs'[k].attempt >= execs[k].attempt
                        /\ execs[k].status \in {"completed", "failed"} =>
                                Folded(execs'[k]) = Folded(execs[k])
      OBVIOUS
    <2> DEFINE x == execs[k]
               y == execs'[k]
    <2>1. Known(x) /\ x \in Execution
      BY <1>1 DEF TypeInv, StoreTyped, ExecInv, Known
    <2>2. \/ FlagStep(x, y)
          \/ \E e : Good(e) /\ y = FoldEvent(x, e)
      BY <1>1, ExecMoves
    <2> HIDE DEF x, y
    <2>3. CASE FlagStep(x, y)
      <3>1. y.attempt >= x.attempt BY <2>1, <2>3 DEF FlagStep, Execution
      <3>2. Folded(y) = Folded(x) BY <2>1, <2>3 DEF FlagStep, Folded, Execution
      <3> QED BY <3>1, <3>2 DEF x, y
    <2>4. ASSUME NEW e, Good(e), y = FoldEvent(x, e)
          PROVE  y.attempt >= x.attempt /\ (Terminal(x) => y = x)
      <3>1. Terminal(x) => y = x BY <2>1, <2>4, FoldTerminal
      <3>2. Known(y) BY <2>1, <2>4, FoldKnown
      <3>3. x.attempt \in Nat /\ y.attempt \in Nat BY <2>1, <3>2 DEF Known, Execution
      <3>4. x.status = "absent" => x.attempt = 0 BY <2>1 DEF Known
      <3>5. x.status # "absent" => y.attempt = x.attempt \/ y.attempt = x.attempt + 1
        BY <2>1, <2>4, FoldAttempt
      <3> QED BY <3>1, <3>3, <3>4, <3>5
    <2> QED BY <2>2, <2>3, <2>4 DEF x, y, Terminal
  <1>2. TypeInv /\ [Next]_vars => [Final]_vars BY <1>1
  <1> QED BY <1>2, TypingHolds, PTL DEF Spec, TerminalIsFinal

-----------------------------------------------------------------------------
(* Exactly-once completion.  No event lowers the fence but the completion  *)
(* that finishes the execution.                                            *)
LEMMA FoldFenced ==
    ASSUME NEW x, Known(x), NEW e, Good(e), Fenced(x)
    PROVE  Fenced(FoldEvent(x, e))
  <1> DEFINE y == FoldEvent(x, e)
  <1>1. FoldStep(x, e, y) BY FoldCases
  <1> HIDE DEF y
  <1>2. x \in Execution BY DEF Known
  <1>3. x.status # "absent" BY DEF Known, Fenced, Terminal
  <1>4. Fenced(y)
    BY <1>1, <1>2, <1>3 DEF FoldStep, ApplyLease, ApplyComplete, Execution, Fenced, Terminal
  <1> QED BY <1>4 DEF y

(* The same for the whole store: no event takes the fence or the terminal  *)
(* state from an execution.                                                *)
LEMMA ApplyFenced ==
    ASSUME TypeInv, NEW e, Good(e), StoreApply(e), NEW k \in Keys, Fenced(execs[k])
    PROVE  Fenced(execs'[k])
  <1>1. execs' = [execs EXCEPT ![e.key] = FoldEvent(execs[e.key], e)]
    BY DEF StoreApply
  <1>2. execs \in [Keys -> Execution] /\ Known(execs[k])
    BY DEF TypeInv, StoreTyped, StoreOK, ExecInv
  <1> QED BY <1>1, <1>2, FoldFenced

(* A handler that does not move goes on with the completion it is in. *)
LEMMA StillCompleting ==
    ASSUME NEW r \in Handlers, Still(r), NEW k
    PROVE  (Completing(r, k))' <=> Completing(r, k)
  BY DEF Still, Completing, Appending

(* A step that starts no completion, answers none and lowers no fence *)
LEMMA FenceKept ==
    ASSUME FenceInv, UNCHANGED accepted,
           \A h \in Handlers, k \in Keys : (Completing(h, k))' => Completing(h, k),
           \A k \in Keys : Fenced(execs[k]) => Fenced(execs'[k])
    PROVE  FenceInv'
  BY DEF FenceInv

(* Every step keeps the fence: BeginComplete (store.go) lets one           *)
(* completion of a key through, and until it is recorded or has failed no  *)
(* other.                                                                  *)
LEMMA FenceStep ==
    ASSUME TypeInv, FenceInv, [Next]_vars
    PROVE  FenceInv'
  <1>1. /\ pc \in [Procs -> ControlPoints] /\ ev \in [Procs -> Event \cup {NoEvent}]
        /\ execs \in [Keys -> Execution]
        /\ accepted \in [Keys -> Seq([attempt : Nat, worker : Workers])]
        /\ Handlers \subseteq Procs
    BY DEF TypeInv, StoreTyped, StoreOK, ProcTyped, ProcsOK, ClientOK, Procs
  <1>2. ASSUME NEW p \in Procs, Acts(p), UNCHANGED accepted,
               \A k \in Keys : p \in Handlers /\ (Completing(p, k))' => Completing(p, k),
               \A k \in Keys : Fenced(execs[k]) => Fenced(execs'[k])
        PROVE  FenceInv'
    <2>1. \A h \in Handlers, k \in Keys : (Completing(h, k))' => Completing(h, k)
      BY <1>1, <1>2, OthersStill, StillCompleting
    <2> QED BY <1>2, <2>1, FenceKept
  <1>3. ASSUME NEW h \in Handlers, NEW l \in leases, Complete(h, l), Acts(h)
        PROVE  FenceInv'
    <2> DEFINE j == l.key
    <2>1. j \in Keys BY DEF TypeInv, ClientOK, Lease
    <2>2. /\ BeginComplete(execs[j], l.attempt)
          /\ execs' = [execs EXCEPT ![j].completing = TRUE]
          /\ UNCHANGED accepted
          /\ ev' = [ev EXCEPT ![h] = newEnvelope("completed", j, l.attempt, l.worker, 0)]
      BY <1>3 DEF Complete, StartAppend, client
    <2> HIDE DEF j
    <2>3. ~Fenced(execs[j]) BY <2>2 DEF BeginComplete, Fenced
    <2>4. Len(accepted[j]) = 0 /\ \A g \in Handlers : ~Completing(g, j)
      BY <2>1, <2>3 DEF FenceInv
    <2>5. \A k \in Keys : Fenced(execs[k]) => Fenced(execs'[k])
      BY <1>1, <2>1, <2>2 DEF Fenced, Terminal, Execution
    <2>6. Fenced(execs'[j]) BY <1>1, <2>1, <2>2 DEF Fenced, Execution
    <2>7. \A g \in Handlers, k \in Keys : g # h => ((Completing(g, k))' <=> Completing(g, k))
      BY <1>1, <1>3, OthersStill, StillCompleting
    <2>8. \A k \in Keys : (Completing(h, k))' => k = j
      BY <1>1, <2>2 DEF Completing, newEnvelope
    <2> SUFFICES ASSUME NEW k \in Keys
                 PROVE  (/\ Len(accepted[k]) <= 1
                         /\ \A g, i \in Handlers : Completing(g, k) /\ Completing(i, k) => g = i
                         /\ \A g \in Handlers : Completing(g, k) =>
                                Len(accepted[k]) = 0 /\ Fenced(execs[k])
                         /\ Len(accepted[k]) # 0 => Fenced(execs[k]))'
      BY DEF FenceInv
    <2>9. CASE k = j
      BY <2>2, <2>4, <2>6, <2>7, <2>9
    <2>10. CASE k # j
      BY <2>2, <2>5, <2>7, <2>8, <2>10 DEF FenceInv
    <2> QED BY <2>9, <2>10
  <1>4. ASSUME NEW h \in Handlers, ApplyCompleted(h), Acts(h)
        PROVE  FenceInv'
    <2> DEFINE j == ev[h].key
               r == [attempt |-> ev[h].attempt, worker |-> ev[h].worker]
    <2>1. /\ pc[h] = "apply" /\ ev[h].type = "completed"
          /\ StoreApply(ev[h]) /\ ev' = [ev EXCEPT ![h] = NoEvent]
          /\ pc' = PcAfterApply(ev[h], h, "idle")
      BY <1>4 DEF ApplyCompleted
    <2>2. Appending(h) BY <2>1 DEF Appending
    <2>3. Good(ev[h]) /\ j \in Keys BY <1>1, <2>2, Held
    <2>4. Completing(h, j) BY <2>1, <2>2 DEF Completing
    <2>5. \A k \in Keys : Fenced(execs[k]) => Fenced(execs'[k])
      BY <2>1, <2>3, ApplyFenced
    <2>6. \A g \in Handlers, k \in Keys : g # h => ((Completing(g, k))' <=> Completing(g, k))
      BY <1>1, <1>4, OthersStill, StillCompleting
    <2>7. \A k \in Keys : ~(Completing(h, k))'
      BY <1>1, <2>1 DEF Completing, NoEvent
    <2>8. accepted' = [accepted EXCEPT ![j] = Append(@, r)]
      BY <1>4 DEF ApplyCompleted
    <2> DEFINE R == [attempt : Nat, worker : Workers]
    <2>9. accepted \in [Keys -> Seq(R)] BY <1>1
    <2> HIDE DEF R, r, j
    <2>10. /\ Len(accepted'[j]) = Len(accepted[j]) + 1
           /\ \A k \in Keys : k # j => accepted'[k] = accepted[k]
      BY <2>3, <2>8, <2>9
    <2>11. Len(accepted[j]) = 0 /\ Fenced(execs[j])
           /\ \A g \in Handlers : g # h => ~Completing(g, j)
      BY <2>3, <2>4 DEF FenceInv
    <2> SUFFICES ASSUME NEW k \in Keys
                 PROVE  (/\ Len(accepted[k]) <= 1
                         /\ \A g, i \in Handlers : Completing(g, k) /\ Completing(i, k) => g = i
                         /\ \A g \in Handlers : Completing(g, k) =>
                                Len(accepted[k]) = 0 /\ Fenced(execs[k])
                         /\ Len(accepted[k]) # 0 => Fenced(execs[k]))'
      BY DEF FenceInv
    <2>12. CASE k = j
      <3>1. Len(accepted'[j]) <= 1 BY <2>10, <2>11
      <3>2. Fenced(execs'[j]) BY <2>3, <2>5, <2>11
      <3>3. \A g \in Handlers : ~(Completing(g, k))'
        BY <2>6, <2>7, <2>11, <2>12
      <3> QED BY <2>12, <3>1, <3>2, <3>3
    <2>13. CASE k # j
      BY <2>5, <2>6, <2>7, <2>10, <2>13 DEF FenceInv
    <2> QED BY <2>12, <2>13
  <1>5. ASSUME NEW h \in Handlers, CompleteFails(h), Acts(h)
        PROVE  FenceInv'
    <2> DEFINE j == ev[h].key
    <2>1. /\ pc[h] = "publish" /\ ev[h].type = "completed"
          /\ ev' = [ev EXCEPT ![h] = NoEvent]
          /\ UNCHANGED accepted
          /\ execs' = [execs EXCEPT ![j].completing = FALSE]
      BY <1>5 DEF CompleteFails, PublishError, Return
    <2>2. Appending(h) BY <2>1 DEF Appending
    <2>3. j \in Keys BY <1>1, <2>2, Held
    <2>4. Completing(h, j) BY <2>1, <2>2 DEF Completing
    <2>5. \A k \in Keys : k # j => execs'[k] = execs[k]
      BY <1>1, <2>1, <2>3
    <2>6. \A g \in Handlers, k \in Keys : g # h => ((Completing(g, k))' <=> Completing(g, k))
      BY <1>1, <1>5, OthersStill, StillCompleting
    <2>7. \A k \in Keys : ~(Completing(h, k))'
      BY <1>1, <2>1 DEF Completing, NoEvent
    <2> HIDE DEF j
    <2>8. Len(accepted[j]) = 0 /\ \A g \in Handlers : g # h => ~Completing(g, j)
      BY <2>3, <2>4 DEF FenceInv
    <2> SUFFICES ASSUME NEW k \in Keys
                 PROVE  (/\ Len(accepted[k]) <= 1
                         /\ \A g, i \in Handlers : Completing(g, k) /\ Completing(i, k) => g = i
                         /\ \A g \in Handlers : Completing(g, k) =>
                                Len(accepted[k]) = 0 /\ Fenced(execs[k])
                         /\ Len(accepted[k]) # 0 => Fenced(execs[k]))'
      BY DEF FenceInv
    <2>9. CASE k = j BY <2>1, <2>6, <2>7, <2>8, <2>9
    <2>10. CASE k # j BY <2>1, <2>5, <2>6, <2>7, <2>10 DEF FenceInv
    <2> QED BY <2>9, <2>10
  <1>6. ASSUME NEW p \in Procs, Acts(p) PROVE FenceInv'
    <2>1. CASE p \in Handlers /\ Client(p) /\ ~ \E l \in leases : Complete(p, l)
      <3>1. UNCHANGED accepted /\ UNCHANGED execs
        BY <2>1 DEF Client, Submit, LeaseBatch, Heartbeat, Fail, store, client
      <3>2. CASE \E t \in TaskTypes, w \in Workers, max \in 1..MaxBatch :
                    LeaseBatch(p, t, w, max)
        <4>1. pc'[p] = "reserve" BY <1>1, <2>1, <3>2 DEF LeaseBatch
        <4>2. \A k \in Keys : ~ (Completing(p, k))' BY <4>1 DEF Completing, Appending
        <4> QED BY <1>2, <1>6, <3>1, <4>2
      <3>3. CASE \E e : e.type # "completed" /\ StartAppend(p, e)
        <4>1. ev'[p].type # "completed" BY <1>1, <2>1, <3>3 DEF StartAppend
        <4>2. \A k \in Keys : ~ (Completing(p, k))' BY <4>1 DEF Completing
        <4> QED BY <1>2, <1>6, <3>1, <4>2
      <3>4. ASSUME NEW k, NEW s, Submit(p, k, s)
            PROVE  \E e : e.type # "completed" /\ StartAppend(p, e)
        <4>1. SubmitEnvelope(k, s).type # "completed" BY DEF SubmitEnvelope, newEnvelope
        <4> QED BY <3>4, <4>1 DEF Submit
      <3>5. ASSUME NEW l, \/ Heartbeat(p, l)
                          \/ \E r \in BOOLEAN : Fail(p, l, r)
            PROVE  \E e : e.type # "completed" /\ StartAppend(p, e)
        <4>1. \A t, k, a, w, at : newEnvelope(t, k, a, w, at).type = t BY DEF newEnvelope
        <4> QED BY <3>5, <4>1 DEF Heartbeat, Fail
      <3> QED BY <2>1, <3>2, <3>3, <3>4, <3>5 DEF Client
    <2>2. CASE p \in Handlers /\ (LeaseLoop(p) \/ WaitEnds(p))
      <3>1. UNCHANGED accepted
        BY <2>2 DEF LeaseLoop, ReserveNext, ReserveNone, WaitChan, Grant, WaitEnds, client
      <3>2. \A k \in Keys : ~ (Completing(p, k))'
        <4>1. CASE Grant(p)
          <5>1. ev'[p].type = "leased"
            BY <1>1, <2>2, <4>1 DEF Grant, StartAppend, newEnvelope
          <5> QED BY <5>1 DEF Completing
        <4>2. CASE ~Grant(p)
          <5>1. pc'[p] \in {"grant", "nowork", "waiting", "idle"}
            BY <1>1, <2>2, <4>2
            DEF LeaseLoop, ReserveNext, ReserveNone, WaitChan, WaitEnds, Return
          <5> QED BY <5>1 DEF Completing, Appending
        <4> QED BY <4>1, <4>2
      <3>3. \A k \in Keys : Fenced(execs[k]) => Fenced(execs'[k])
        <4>1. CASE UNCHANGED execs BY <4>1
        <4>2. CASE \E j : execs' = [execs EXCEPT ![j].reserved = TRUE]
          BY <1>1, <4>2 DEF Fenced, Terminal, Execution
        <4> QED BY <2>2, <4>1, <4>2
            DEF LeaseLoop, ReserveNext, ReserveNone, WaitChan, Grant, WaitEnds, store
      <3> QED BY <1>2, <1>6, <3>1, <3>2, <3>3
    <2>3. CASE (p \in Handlers /\ (ApplyFailed(p) \/ ApplyLeased(p))) \/ ApplyAndReturn(p)
      <3>1. Appending(p) /\ StoreApply(ev[p]) /\ UNCHANGED accepted
        BY <2>3 DEF ApplyFailed, ApplyLeased, ApplyAndReturn, Appending, client
      <3>2. Good(ev[p]) BY <3>1, Held
      <3>3. \A k \in Keys : Fenced(execs[k]) => Fenced(execs'[k])
        BY <3>1, <3>2, ApplyFenced
      <3>4. ASSUME p \in Handlers, NEW k \in Keys PROVE ~ (Completing(p, k))'
        <4>1. CASE ev'[p] = NoEvent BY <4>1 DEF Completing, NoEvent
        <4>2. CASE ApplyFailed(p)
          <5>1. then[p] \in Reclaims /\ ev'[p] = then[p]
            BY <1>1, <2>3, <3>1, <3>4, <4>2
            DEF ApplyFailed, TypeInv, ProcTyped, CallInv
          <5> QED BY <5>1 DEF Reclaims, Completing
        <4>3. CASE ApplyLeased(p) \/ ApplyAndReturn(p)
          BY <1>1, <4>1, <4>3 DEF ApplyLeased, ApplyAndReturn
        <4> QED BY <2>3, <4>2, <4>3
      <3> QED BY <1>2, <1>6, <3>1, <3>3, <3>4
    <2>4. CASE p \in Handlers /\ LeaseFails(p)
      <3>1. UNCHANGED accepted /\ ev' = [ev EXCEPT ![p] = NoEvent]
            /\ execs' = [execs EXCEPT ![ev[p].key].reserved = FALSE]
        BY <2>4 DEF LeaseFails, PublishError, Return
      <3>2. \A k \in Keys : ~ (Completing(p, k))'
        BY <1>1, <3>1 DEF Completing, NoEvent
      <3>3. \A k \in Keys : Fenced(execs[k]) => Fenced(execs'[k])
        BY <1>1, <3>1 DEF Fenced, Terminal, Execution
      <3> QED BY <1>2, <1>6, <3>1, <3>2, <3>3
    <2>5. CASE WalAppend(p) \/ PublishToPartition(p)
      <3>1. /\ UNCHANGED accepted /\ UNCHANGED execs /\ UNCHANGED ev
            /\ Appending(p)
        BY <2>5 DEF WalAppend, PublishToPartition, store, client, Appending
      <3>2. \A k \in Keys : (Completing(p, k))' => Completing(p, k)
        BY <3>1 DEF Completing
      <3> QED BY <1>2, <1>6, <3>1, <3>2
    <2>6. CASE OtherFails(p)
      <3>1. UNCHANGED accepted /\ UNCHANGED execs /\ ev' = [ev EXCEPT ![p] = NoEvent]
        BY <2>6 DEF OtherFails, PublishError, Return, store
      <3>2. \A k \in Keys : ~ (Completing(p, k))'
        BY <1>1, <3>1 DEF Completing, NoEvent
      <3> QED BY <1>2, <1>6, <3>1, <3>2
    <2>7. CASE p = Sweeper /\ Sweeps
      <3>1. UNCHANGED accepted /\ UNCHANGED execs /\ p \notin Handlers
        BY <2>7, WorkflowAssumption DEF Sweeps, SweepExpired, SweepNext, store, client
      <3> QED BY <1>2, <1>6, <3>1
    <2> QED BY <1>3, <1>4, <1>5, <1>6, <2>1, <2>2, <2>3, <2>4, <2>5, <2>6, <2>7
        DEF Acts, HandlerActs, HandlerApply, Error, AppendStep
  <1>7. ASSUME (\E k \in Keys : Ingest(k)) \/ Tick \/ UNCHANGED vars PROVE FenceInv'
    <2>1. \A h \in Handlers, k \in Keys : (Completing(h, k))' => Completing(h, k)
      BY <1>1, <1>7, AllStill, StillCompleting
    <2>2. UNCHANGED accepted BY <1>7 DEF Ingest, Tick, vars, client
    <2>3. \A k \in Keys : Fenced(execs[k]) => Fenced(execs'[k])
      <3>1. ASSUME NEW j \in Keys, Ingest(j)
            PROVE  \A k \in Keys : Fenced(execs[k]) => Fenced(execs'[k])
        <4>1. /\ FetchOffset(j) + 1 <= Len(topic[j])
              /\ StoreApply(topic[j][FetchOffset(j) + 1])
          BY <3>1 DEF Ingest
        <4>2. Good(topic[j][FetchOffset(j) + 1]) BY <4>1, Fetched
        <4> QED BY <4>1, <4>2, ApplyFenced
      <3>2. ASSUME Tick \/ UNCHANGED vars PROVE UNCHANGED execs
        BY <3>2 DEF Tick, vars, store
      <3> QED BY <1>7, <3>1, <3>2
    <2> QED BY <2>1, <2>2, <2>3, FenceKept
  <1> QED BY <1>6, <1>7, StepCases

(* Of all Complete calls for one execution, under whatever attempt and     *)
(* however their appends, the sweep and the Poller interleave, at most one *)
(* is answered accepted = true (coordinator.go:302-324).                   *)
THEOREM CompletionAcceptedOnce == Spec => []AtMostOneAccepted
  <1>1. Init => FenceInv
    BY DEF Init, FenceInv, Completing, Appending, Procs
  <1>2. TypeInv /\ FenceInv /\ [Next]_vars => FenceInv' BY FenceStep
  <1>3. FenceInv => AtMostOneAccepted BY DEF FenceInv, AtMostOneAccepted
  <1> QED BY <1>1, <1>2, <1>3, TypingHolds, PTL DEF Spec

-----------------------------------------------------------------------------
(* The scheduling indexes.  The store never holds infinitely many          *)
(* executions, however many keys there are, so they can be counted.        *)
InStatus(s) == {k \in Keys : execs[k].status = s}

IndexInv ==
    /\ running = InStatus("running")
    /\ \A s \in Status : IsFiniteSet(InStatus(s)) /\ counts[s] = Cardinality(InStatus(s))

(* Every step keeps the index of running executions and the counters per   *)
(* status equal to what the executions say (store.go).                     *)
LEMMA IndexStep ==
    ASSUME TypeInv, IndexInv, [Next]_vars
    PROVE  IndexInv'
  <1>1. execs \in [Keys -> Execution] BY DEF TypeInv, StoreTyped, StoreOK
  <1>2. CASE FlagsOnly
    <2>1. \A s : InStatus(s)' = InStatus(s) BY <1>2 DEF FlagsOnly, FlagStep, InStatus
    <2> QED BY <1>2, <2>1 DEF FlagsOnly, IndexInv
  <1>3. CASE StoreStep
    <2>1. PICK e : Good(e) /\ StoreApply(e) BY <1>3 DEF StoreStep
    <2> DEFINE k == e.key
               x == execs[k]
               y == FoldEvent(x, e)
    <2>2. /\ execs' = [execs EXCEPT ![k] = y]
          /\ counts' = CountsAfter(x, y)
          /\ running' = RunningAfter(k, x, y)
      BY <2>1 DEF StoreApply
    <2>3. k \in Keys BY <2>1 DEF Good, Event
    <2> HIDE DEF k, y
    <2>4. /\ execs'[k] = y
          /\ \A j \in Keys : j # k => execs'[j] = execs[j]
      BY <1>1, <2>2, <2>3
    <2>5. \A s : InStatus(s)' = IF y.status = s THEN InStatus(s) \cup {k}
                                              ELSE InStatus(s) \ {k}
      BY <2>3, <2>4 DEF InStatus
    <2>6. \A s : k \in InStatus(s) <=> x.status = s BY <2>3 DEF InStatus
    <2>7. running' = InStatus("running")'
      BY <2>2, <2>5, <2>6 DEF RunningAfter, IndexInv
    <2>8. ASSUME NEW s \in Status
          PROVE  IsFiniteSet(InStatus(s)') /\ counts'[s] = Cardinality(InStatus(s)')
      <3>1. IsFiniteSet(InStatus(s)) /\ counts[s] = Cardinality(InStatus(s))
        BY DEF IndexInv
      <3>2. Cardinality(InStatus(s)) \in Nat BY <3>1, FS_CardinalityType
      <3>3. counts'[s] = counts[s] + (IF s = y.status THEN 1 ELSE 0)
                                   - (IF s = x.status THEN 1 ELSE 0)
        BY <2>2 DEF CountsAfter
      <3>4. CASE s = y.status /\ s # x.status
        <4>1. InStatus(s)' = InStatus(s) \cup {k} /\ k \notin InStatus(s)
          BY <2>5, <2>6, <3>4
        <4>2. IsFiniteSet(InStatus(s)') /\ Cardinality(InStatus(s)') = Cardinality(InStatus(s)) + 1
          BY <3>1, <4>1, FS_AddElement
        <4> QED BY <3>1, <3>2, <3>3, <3>4, <4>2
      <3>5. CASE s # y.status /\ s = x.status
        <4>1. InStatus(s)' = InStatus(s) \ {k} /\ k \in InStatus(s)
          BY <2>5, <2>6, <3>5
        <4>2. IsFiniteSet(InStatus(s)') /\ Cardinality(InStatus(s)') = Cardinality(InStatus(s)) - 1
          BY <3>1, <4>1, FS_RemoveElement
        <4> QED BY <3>1, <3>2, <3>3, <3>5, <4>2
      <3>6. CASE (s = y.status) <=> (s = x.status)
        <4>1. InStatus(s)' = InStatus(s) BY <2>5, <2>6, <3>6
        <4> QED BY <3>1, <3>2, <3>3, <3>6, <4>1
      <3> QED BY <3>4, <3>5, <3>6
    <2> QED BY <2>7, <2>8 DEF IndexInv
  <1> QED BY <1>2, <1>3, StoreMoves

(* The counters per status and the running index, maintained event by      *)
(* event, are what a scan of the store would compute (store.go:22-27).     *)
THEOREM IndexesAreExact == Spec => []IndexesAgree
  <1>1. ASSUME Init PROVE IndexInv
    <2>1. \A s \in Status : InStatus(s) = {}
      BY <1>1 DEF Init, InStatus, Status, NoExecution
    <2>2. "running" \in Status BY DEF Status
    <2> QED BY <1>1, <2>1, <2>2, FS_EmptySet DEF Init, IndexInv
  <1>2. TypeInv /\ IndexInv /\ [Next]_vars => IndexInv' BY IndexStep
  <1>3. IndexInv => IndexesAgree BY DEF IndexInv, IndexesAgree, InStatus
  <1> QED BY <1>1, <1>2, <1>3, TypingHolds, PTL DEF Spec

-----------------------------------------------------------------------------
(* Write-ahead.  The log only grows. *)
Grows == \A k \in Keys : /\ Len(wal[k]) <= Len(wal'[k])
                         /\ \A i \in 1..Len(wal[k]) : wal'[k][i] = wal[k][i]

(* Facts about an append at the end *)
LEMMA AppendGrows ==
    ASSUME NEW s, NEW S, s \in Seq(S), NEW e \in S
    PROVE  /\ Len(s) \in Nat /\ Len(Append(s, e)) = Len(s) + 1
           /\ \A i \in 1..Len(s) : Append(s, e)[i] = s[i]
           /\ Append(s, e)[Len(s) + 1] = e
  OBVIOUS

(* No step takes a record back from the file or changes one. *)
LEMMA WalGrows ==
    ASSUME TypeInv, [Next]_vars
    PROVE  Grows
  <1>1. wal \in [Keys -> Seq(Event)] BY DEF TypeInv, LogTyped, LogOK
  <1>2. \A k \in Keys : Len(wal[k]) \in Nat BY <1>1
  <1>3. ASSUME wal' = wal PROVE Grows BY <1>2, <1>3 DEF Grows
  <1>4. ASSUME NEW p \in Procs, Appending(p),
               wal' = [wal EXCEPT ![ev[p].key] = Append(@, ev[p])]
        PROVE  Grows
    <2>1. ev[p] \in Event /\ ev[p].key \in Keys BY <1>4, Held
    <2> SUFFICES ASSUME NEW k \in Keys
                 PROVE  /\ Len(wal[k]) <= Len(wal'[k])
                        /\ \A i \in 1..Len(wal[k]) : wal'[k][i] = wal[k][i]
      BY DEF Grows
    <2>2. CASE k # ev[p].key BY <1>1, <1>2, <1>4, <2>1, <2>2
    <2>3. CASE k = ev[p].key
      <3>1. wal'[k] = Append(wal[k], ev[p]) BY <1>1, <1>4, <2>3
      <3>2. wal[k] \in Seq(Event) BY <1>1
      <3> QED BY <2>1, <3>1, <3>2, AppendGrows
    <2> QED BY <2>2, <2>3
  <1>5. ASSUME NEW p \in Procs, Acts(p) PROVE Grows
    <2>1. CASE WalAppend(p) \/ OtherFails(p) \/ Error(p)
      <3>1. Appending(p)
        BY <2>1 DEF WalAppend, OtherFails, Error, LeaseFails, CompleteFails, PublishError, Appending
      <3>2. wal' = wal \/ wal' = [wal EXCEPT ![ev[p].key] = Append(@, ev[p])]
        BY <2>1 DEF WalAppend, OtherFails, Error, LeaseFails, CompleteFails, PublishError
      <3> QED BY <1>3, <1>4, <3>1, <3>2
    <2>2. CASE ~ (WalAppend(p) \/ OtherFails(p) \/ Error(p))
      <3>1. wal' = wal
        BY <1>5, <2>2
        DEF Acts, HandlerActs, Client, Submit, LeaseBatch, Heartbeat, Complete, Fail,
            LeaseLoop, ReserveNext, ReserveNone, WaitChan, Grant, WaitEnds,
            HandlerApply, ApplyCompleted, ApplyFailed, ApplyLeased,
            AppendStep, PublishToPartition, ApplyAndReturn, Sweeps, SweepExpired, SweepNext, log
      <3> QED BY <1>3, <3>1
    <2> QED BY <2>1, <2>2
  <1>6. ASSUME (\E k \in Keys : Ingest(k)) \/ Tick \/ UNCHANGED vars PROVE Grows
    BY <1>3, <1>6 DEF Ingest, Tick, vars, log
  <1> QED BY <1>5, <1>6, StepCases

(* What was logged stays logged. *)
LEMMA LogKeeps ==
    ASSUME TypeInv, TypeInv', Grows
    PROVE  /\ \A e : e.key \in Keys /\ InWal(e) =>
                    \E i \in 1..Len(wal'[e.key]) : wal'[e.key][i] = e
           /\ \A t, a, w : \A k \in Keys : InLog(t, k, a, w) => InLog(t, k, a, w)'
  <1>1. \A k \in Keys : Len(wal[k]) \in Nat /\ Len(wal'[k]) \in Nat
    BY DEF TypeInv, LogTyped, LogOK, Grows
  <1>2. \A k \in Keys : \A i \in 1..Len(wal[k]) : i \in 1..Len(wal'[k]) /\ wal'[k][i] = wal[k][i]
    BY <1>1 DEF Grows
  <1>3. \A e : e.key \in Keys /\ InWal(e) =>
                    \E i \in 1..Len(wal'[e.key]) : wal'[e.key][i] = e
    BY <1>2 DEF InWal
  <1>4. ASSUME NEW t, NEW a, NEW w, NEW k \in Keys, InLog(t, k, a, w)
        PROVE  InLog(t, k, a, w)'
    BY <1>2, <1>4 DEF InLog
  <1> QED BY <1>3, <1>4

(* A completed execution carries the worker and the attempt of the event   *)
(* that completed it, a new one was submitted.                             *)
LEMMA FoldBacked ==
    ASSUME NEW x, Known(x), NEW e, Good(e)
    PROVE  /\ FoldEvent(x, e).status # "absent" /\ x.status = "absent" =>
                    e.type = "submitted" /\ e.attempt = 0 /\ e.worker = None
           /\ FoldEvent(x, e).status = "completed" =>
                \/ FoldEvent(x, e) = x
                \/ /\ e.type = "completed" /\ e.attempt = FoldEvent(x, e).attempt
                   /\ e.worker = FoldEvent(x, e).worker
  <1> DEFINE y == FoldEvent(x, e)
  <1>1. FoldStep(x, e, y) BY FoldCases
  <1> HIDE DEF y
  <1>2. x \in Execution BY DEF Known
  <1>3. y.status # "absent" /\ x.status = "absent" =>
            e.type = "submitted" /\ e.attempt = 0 /\ e.worker = None
    BY <1>1, <1>2 DEF FoldStep, Good
  <1>4. y.status = "completed" =>
                \/ y = x
                \/ e.type = "completed" /\ e.attempt = y.attempt /\ e.worker = y.worker
    BY <1>1, <1>2 DEF FoldStep, ApplyLease, ApplyComplete, newExecution, NoExecution, Execution
  <1> QED BY <1>3, <1>4 DEF y

(* The leases in use come from the log: a step adds at most the one it has *)
(* just applied.                                                           *)
LeaseOf(e) == [key |-> e.key, attempt |-> e.attempt, worker |-> e.worker]

(* A lease that a client is given was applied by its handler in that step. *)
LEMMA GivenMoves ==
    ASSUME TypeInv, [Next]_vars
    PROVE  \A l \in Given' :
             \/ l \in Given
             \/ \E h \in Handlers : /\ pc[h] = "apply" /\ ev[h].type = "leased"
                                   /\ l = LeaseOf(ev[h]) /\ ApplyLeased(h)
  <1>1. lease \in [Handlers -> LeaseCall] BY DEF TypeInv, ProcTyped, ProcsOK
  <1>2. NoLease.got = {} BY DEF NoLease
  <1>3. ASSUME NEW S \in SUBSET Given, leases' \subseteq leases \cup S,
               \A h \in Handlers : lease'[h].got \subseteq Given
        PROVE  Given' \subseteq Given
    BY <1>3 DEF Given
  <1>4. ASSUME NEW p \in Procs, Acts(p), p \in Handlers => lease'[p].got \subseteq lease[p].got,
               NEW S \in SUBSET Given, leases' \subseteq leases \cup S
        PROVE  Given' \subseteq Given
    <2>1. \A h \in Handlers : h # p => lease'[h].got = lease[h].got
      BY <1>4, OthersStill DEF Still, Procs
    <2>2. \A h \in Handlers : lease'[h].got \subseteq Given BY <1>4, <2>1 DEF Given
    <2> QED BY <1>3, <1>4, <2>2
  <1>5. ASSUME NEW h \in Handlers PROVE lease[h].got \subseteq Given BY DEF Given
  <1>6. ASSUME NEW p \in Procs, Acts(p), ~(p \in Handlers /\ ApplyLeased(p))
        PROVE  Given' \subseteq Given
    <2>1. CASE p \in Handlers /\ Client(p)
      <3>1. leases' = leases BY <2>1 DEF Client, Submit, LeaseBatch, Heartbeat, Complete, Fail, client
      <3>2. CASE lease' = lease BY <1>4, <1>6, <3>1, <3>2
      <3>3. CASE lease' # lease
        <4>1. PICK t \in TaskTypes, w \in Workers, max \in 1..MaxBatch : LeaseBatch(p, t, w, max)
          BY <2>1, <3>3 DEF Client, Submit, Heartbeat, Complete, Fail
        <4>2. lease'[p] = [NoLease EXCEPT !.task = t, !.worker = w, !.want = max]
          BY <1>1, <2>1, <4>1 DEF LeaseBatch
        <4>3. lease'[p].got = {} BY <4>2 DEF NoLease
        <4> QED BY <1>4, <1>6, <3>1, <4>3
      <3> QED BY <3>2, <3>3
    <2>2. CASE p \in Handlers /\ ReserveNext(p)
      <3>1. leases' = leases BY <2>2 DEF ReserveNext, client
      <3>2. PICK j : lease' = [lease EXCEPT ![p].key = j] BY <2>2 DEF ReserveNext
      <3>3. lease'[p].got = lease[p].got BY <1>1, <2>2, <3>2 DEF LeaseCall
      <3> QED BY <1>4, <1>6, <3>1, <3>3
    <2>3. CASE p \in Handlers /\ (ReserveNone(p) \/ WaitEnds(p) \/ LeaseFails(p))
      <3>1. CASE \E S \in {{}, lease[p].got} : ReturnLeases(p, S)
        <4>1. PICK S \in {{}, lease[p].got} : ReturnLeases(p, S) BY <3>1
        <4>2. leases' = leases \cup S /\ lease'[p] = NoLease
          BY <1>1, <2>3, <4>1 DEF ReturnLeases
        <4>3. S \in SUBSET Given BY <1>5, <2>3, <4>1
        <4> QED BY <1>2, <1>4, <1>6, <4>2, <4>3
      <3>2. CASE UNCHANGED <<lease, leases>> BY <1>4, <1>6, <3>2
      <3> QED BY <2>3, <3>1, <3>2 DEF ReserveNone, WaitEnds, LeaseFails
    <2>4. CASE UNCHANGED <<lease, leases>> BY <1>4, <1>6, <2>4
    <2> QED BY <1>6, <2>1, <2>2, <2>3, <2>4
        DEF Acts, HandlerActs, LeaseLoop, WaitChan, Grant, HandlerApply, ApplyCompleted,
            ApplyFailed, Error, CompleteFails, AppendStep, WalAppend, PublishToPartition,
            ApplyAndReturn, OtherFails, Sweeps, SweepExpired, SweepNext, client
  <1>7. ASSUME NEW h \in Handlers, ApplyLeased(h), Acts(h)
        PROVE  \A l \in Given' : l \in Given \/ l = LeaseOf(ev[h])
    <2> DEFINE got == lease[h].got \cup {LeaseOf(ev[h])}
    <2>1. \/ /\ lease' = [lease EXCEPT ![h].got = got, ![h].key = None]
             /\ leases' = leases
          \/ lease' = [lease EXCEPT ![h] = NoLease] /\ leases' = leases \cup got
      BY <1>7 DEF ApplyLeased, ReturnLeases, LeaseOf
    <2>2. lease[h].got \subseteq Given BY <1>5
    <2>3. \A g \in Handlers : g # h => lease'[g].got \subseteq Given
      BY <1>5, <1>7, OthersStill DEF Still, Procs
    <2> HIDE DEF got
    <2>4. lease'[h].got \subseteq got /\ leases' \subseteq leases \cup got
      BY <1>1, <1>2, <2>1 DEF LeaseCall
    <2>5. \A l \in got : l \in Given \/ l = LeaseOf(ev[h]) BY <2>2 DEF got
    <2> QED BY <2>3, <2>4, <2>5 DEF Given
  <1>8. ASSUME (\E k \in Keys : Ingest(k)) \/ Tick \/ UNCHANGED vars PROVE Given' = Given
    <2>1. UNCHANGED <<lease, leases>> BY <1>8 DEF Ingest, Tick, vars, procs, client
    <2> QED BY <2>1 DEF Given
  <1>9. ASSUME NEW h \in Handlers, ApplyLeased(h)
        PROVE  pc[h] = "apply" /\ ev[h].type = "leased"
    BY <1>9 DEF ApplyLeased
  <1> QED BY <1>6, <1>7, <1>8, <1>9, StepCases

(* Beyond the publish, an event is in the log. *)
LEMMA AppendedIsLogged ==
    ASSUME TypeInv, TypeInv', LogInv, [Next]_vars, NEW r \in Procs,
           pc'[r] \in {"deliver", "apply"}
    PROVE  InWal(ev[r])'
  <1>1. Grows BY WalGrows
  <1>2. /\ pc \in [Procs -> ControlPoints] /\ ev \in [Procs -> Event \cup {NoEvent}]
        /\ wal \in [Keys -> Seq(Event)] /\ ProcsOK
    BY DEF TypeInv, ProcTyped, ProcsOK, LogTyped, LogOK
  <1>3. ASSUME pc[r] \in {"deliver", "apply"}, ev'[r] = ev[r] PROVE InWal(ev[r])'
    <2>1. InWal(ev[r]) BY <1>3 DEF LogInv
    <2>2. Appending(r) BY <1>3 DEF Appending
    <2>3. ev[r].key \in Keys BY <2>2, Held
    <2>4. \E i \in 1..Len(wal'[ev[r].key]) : wal'[ev[r].key][i] = ev[r]
      BY <1>1, <2>1, <2>3, LogKeeps
    <2> QED BY <1>3, <2>4 DEF InWal
  <1>4. ASSUME Still(r) PROVE InWal(ev[r])'
    BY <1>3, <1>4 DEF Still
  <1>5. ASSUME Acts(r) PROVE InWal(ev[r])'
    <2>1. CASE WalAppend(r)
      <3>1. /\ pc[r] = "publish" /\ UNCHANGED ev
            /\ wal' = [wal EXCEPT ![ev[r].key] = Append(@, ev[r])]
        BY <2>1 DEF WalAppend
      <3>2. Appending(r) BY <3>1 DEF Appending
      <3>3. ev[r] \in Event /\ ev[r].key \in Keys BY <3>2, Held
      <3>4. wal[ev[r].key] \in Seq(Event) BY <1>2, <3>3
      <3>5. wal'[ev[r].key] = Append(wal[ev[r].key], ev[r]) BY <1>2, <3>1, <3>3
      <3>6. \E i \in 1..Len(wal'[ev[r].key]) : wal'[ev[r].key][i] = ev[r]
        <4>1. /\ Len(wal[ev[r].key]) \in Nat
              /\ Len(wal'[ev[r].key]) = Len(wal[ev[r].key]) + 1
              /\ wal'[ev[r].key][Len(wal[ev[r].key]) + 1] = ev[r]
          BY <3>3, <3>4, <3>5, AppendGrows
        <4>2. Len(wal[ev[r].key]) + 1 \in 1..Len(wal'[ev[r].key]) BY <4>1
        <4> QED BY <4>1, <4>2
      <3> QED BY <3>1, <3>6 DEF InWal
    <2>2. CASE PublishToPartition(r)
      <3>1. pc[r] = "deliver" /\ UNCHANGED ev BY <2>2 DEF PublishToPartition
      <3> QED BY <1>3, <3>1
    <2>3. CASE ~ (WalAppend(r) \/ PublishToPartition(r))
      <3>1. CASE \E c \in {"idle", "reserve", "publish"} : pc' = PcAfterApply(ev[r], r, c)
        <4>1. PICK c \in {"idle", "reserve", "publish"} : pc' = PcAfterApply(ev[r], r, c)
          BY <3>1
        <4>2. c \in ControlPoints BY DEF ControlPoints
        <4>3. pc'[r] = c BY <1>2, <4>1, <4>2, PcApplied
        <4> QED BY <4>3
      <3>2. CASE \E c \in {"idle", "reserve", "grant", "nowork", "waiting", "publish"} :
                    pc' = [pc EXCEPT ![r] = c]
        BY <1>2, <3>2
      <3>3. CASE SweepExpired
        <4>1. UNCHANGED <<pc, ev>> BY <3>3 DEF SweepExpired
        <4> QED BY <1>3, <4>1
      <3>4. ASSUME r \in Handlers, HandlerActs(r)
            PROVE  \/ \E c \in {"idle", "reserve", "publish"} : pc' = PcAfterApply(ev[r], r, c)
                   \/ \E c \in {"idle", "reserve", "grant", "nowork", "waiting", "publish"} :
                        pc' = [pc EXCEPT ![r] = c]
        <4>1. ASSUME HandlerApply(r)
              PROVE  \E c \in {"idle", "reserve", "publish"} : pc' = PcAfterApply(ev[r], r, c)
          BY <4>1 DEF HandlerApply, ApplyCompleted, ApplyFailed, ApplyLeased
        <4>2. ASSUME Client(r)
              PROVE  \E c \in {"reserve", "publish"} : pc' = [pc EXCEPT ![r] = c]
          BY <4>2 DEF Client, Submit, LeaseBatch, Heartbeat, Complete, Fail, StartAppend
        <4>3. ASSUME LeaseLoop(r) \/ WaitEnds(r) \/ Error(r)
              PROVE  \E c \in {"idle", "grant", "nowork", "waiting", "publish"} :
                        pc' = [pc EXCEPT ![r] = c]
          BY <4>3 DEF LeaseLoop, ReserveNext, ReserveNone, WaitChan, Grant, WaitEnds,
                      StartAppend, Return, Error, LeaseFails, CompleteFails, PublishError
        <4> QED BY <3>4, <4>1, <4>2, <4>3 DEF HandlerActs
      <3>5. ASSUME ApplyAndReturn(r) \/ OtherFails(r) \/ (SweepNext /\ r = Sweeper)
            PROVE  \/ \E c \in {"idle", "reserve", "publish"} : pc' = PcAfterApply(ev[r], r, c)
                   \/ \E c \in {"idle", "reserve", "grant", "nowork", "waiting", "publish"} :
                        pc' = [pc EXCEPT ![r] = c]
        BY <3>5 DEF ApplyAndReturn, OtherFails, PublishError, Return, SweepNext, StartAppend
      <3> QED BY <1>5, <2>3, <3>1, <3>2, <3>3, <3>4, <3>5 DEF Acts, AppendStep, Sweeps
    <2> QED BY <2>1, <2>2, <2>3
  <1>6. ASSUME NEW p \in Procs, Acts(p) PROVE InWal(ev[r])'
    BY <1>4, <1>5, <1>6, OthersStill
  <1> QED BY <1>4, <1>6, AllStill, StepCases

(* What is applied to the store was in the file before: a handler applies  *)
(* after its append returned, the poller reads what was published after    *)
(* it.                                                                     *)
LEMMA DeliveredIsLogged ==
    ASSUME TypeInv, LogInv, NEW e, Delivered(e)
    PROVE  InWal(e)
  BY DEF LogInv, Delivered

(* The topic holds logged events only: publishing follows the WAL write.   *)
LEMMA TopicMoves ==
    ASSUME TypeInv, [Next]_vars, NEW k \in Keys, NEW i \in 1..Len(topic'[k])
    PROVE  \/ i \in 1..Len(topic[k]) /\ topic'[k][i] = topic[k][i]
           \/ \E p \in Procs : /\ PublishToPartition(p) /\ pc[p] = "deliver"
                               /\ ev[p].key = k /\ topic'[k][i] = ev[p]
  <1>1. topic \in [Keys -> Seq(Event)] BY DEF TypeInv, LogTyped, LogOK
  <1>2. CASE topic' = topic BY <1>2
  <1>3. CASE \E p \in Procs : PublishToPartition(p)
    <2>1. PICK p \in Procs : PublishToPartition(p) BY <1>3
    <2>2. pc[p] = "deliver" /\ topic' = [topic EXCEPT ![ev[p].key] = Append(@, ev[p])]
      BY <2>1 DEF PublishToPartition
    <2>3. Appending(p) BY <2>2 DEF Appending
    <2>4. ev[p] \in Event /\ ev[p].key \in Keys BY <2>3, Held
    <2>5. CASE k # ev[p].key BY <1>1, <2>2, <2>4, <2>5
    <2>6. CASE k = ev[p].key
      <3>1. topic'[k] = Append(topic[k], ev[p]) /\ topic[k] \in Seq(Event)
        BY <1>1, <2>2, <2>6
      <3>2. /\ Len(topic[k]) \in Nat /\ Len(topic'[k]) = Len(topic[k]) + 1
            /\ \A j \in 1..Len(topic[k]) : topic'[k][j] = topic[k][j]
            /\ topic'[k][Len(topic[k]) + 1] = ev[p]
        BY <2>4, <3>1, AppendGrows
      <3>3. i \in 1..Len(topic[k]) \/ i = Len(topic[k]) + 1 BY <3>2
      <3> QED BY <2>1, <2>2, <2>6, <3>2, <3>3
    <2> QED BY <2>5, <2>6
  <1>4. ASSUME NEW p \in Procs, Acts(p), ~PublishToPartition(p) PROVE topic' = topic
    BY <1>4
    DEF Acts, HandlerActs, Client, Submit, LeaseBatch, Heartbeat, Complete, Fail,
        LeaseLoop, ReserveNext, ReserveNone, WaitChan, Grant, WaitEnds,
        HandlerApply, ApplyCompleted, ApplyFailed, ApplyLeased, Error, LeaseFails,
        CompleteFails, PublishError, OtherFails,
        AppendStep, WalAppend, ApplyAndReturn, Sweeps, SweepExpired, SweepNext, log
  <1>5. ASSUME (\E j \in Keys : Ingest(j)) \/ Tick \/ UNCHANGED vars PROVE topic' = topic
    BY <1>5 DEF Ingest, Tick, vars, log
  <1> QED BY <1>2, <1>3, <1>4, <1>5, StepCases

(* Every step keeps it: the file holds every event the store, the topic    *)
(* and the clients know of.                                                *)
LEMMA LogStep ==
    ASSUME TypeInv, TypeInv', LogInv, [Next]_vars
    PROVE  LogInv'
  <1>1. Grows BY WalGrows
  <1>2. \A p \in Procs : pc'[p] \in {"deliver", "apply"} => InWal(ev[p])'
    BY AppendedIsLogged
  <1>3. \A t, a, w : \A k \in Keys : InLog(t, k, a, w) => InLog(t, k, a, w)'
    BY <1>1, LogKeeps
  <1>4. ASSUME NEW e, e.key \in Keys, InWal(e) PROVE InLog(e.type, e.key, e.attempt, e.worker)'
    <2>1. InLog(e.type, e.key, e.attempt, e.worker) BY <1>4 DEF InWal, InLog
    <2> QED BY <1>3, <1>4, <2>1
  <1>5. ASSUME NEW p \in Procs, pc[p] \in {"deliver", "apply"}
        PROVE  ev[p].key \in Keys /\ InWal(ev[p])
    <2>1. Appending(p) BY <1>5 DEF Appending
    <2> QED BY <1>5, <2>1, Held DEF LogInv
  <1>6. ASSUME NEW k \in Keys, NEW i \in 1..Len(topic'[k])
        PROVE  InWal(topic[k][i])'
    <2> DEFINE e == topic'[k][i]
    <2>1. \/ i \in 1..Len(topic[k]) /\ e = topic[k][i]
          \/ \E p \in Procs : pc[p] = "deliver" /\ e = ev[p]
      BY TopicMoves
    <2>2. e.key \in Keys BY DEF TypeInv, LogTyped, FiledInv, Filed
    <2>3. InWal(topic[k][i]) \/ ~(i \in 1..Len(topic[k])) BY DEF LogInv
    <2> HIDE DEF e
    <2>4. InWal(e) \/ \E p \in Procs : pc[p] = "deliver" /\ e = ev[p]
      BY <2>1, <2>3
    <2>5. \E j \in 1..Len(wal'[e.key]) : wal'[e.key][j] = e
      BY <1>1, <1>5, <2>2, <2>4, LogKeeps DEF InWal
    <2> QED BY <2>5 DEF InWal, e
  <1>7. ASSUME NEW l \in Given' PROVE InLog("leased", l.key, l.attempt, l.worker)'
    <2>1. CASE l \in Given
      <3>1. l.key \in Keys
        BY <2>1 DEF Given, TypeInv, ClientOK, ProcTyped, ProcsOK, LeaseCall, Lease
      <3> QED BY <1>3, <2>1, <3>1 DEF LogInv
    <2>2. ASSUME NEW h \in Handlers, pc[h] = "apply", ev[h].type = "leased", l = LeaseOf(ev[h])
          PROVE  InLog("leased", l.key, l.attempt, l.worker)'
      <3>1. ev[h].key \in Keys /\ InWal(ev[h]) BY <1>5, <2>2 DEF Procs
      <3>2. l.key = ev[h].key /\ l.attempt = ev[h].attempt /\ l.worker = ev[h].worker
        BY <2>2 DEF LeaseOf
      <3>3. InLog("leased", ev[h].key, ev[h].attempt, ev[h].worker)
        BY <2>2, <3>1 DEF InWal, InLog
      <3>4. InLog("leased", l.key, l.attempt, l.worker) /\ l.key \in Keys BY <3>1, <3>2, <3>3
      <3> QED BY <1>3, <3>4
    <2> QED BY <2>1, <2>2, GivenMoves
  <1>8. ASSUME NEW k \in Keys
        PROVE  /\ execs'[k].status # "absent" => InLog("submitted", k, 0, None)'
               /\ execs'[k].status = "completed" =>
                    InLog("completed", k, execs[k].attempt, execs[k].worker)'
    <2> DEFINE x == execs[k]
               y == execs'[k]
    <2>1. /\ x.status # "absent" => InLog("submitted", k, 0, None)
          /\ x.status = "completed" => InLog("completed", k, x.attempt, x.worker)
      BY DEF LogInv, StateBackedByLog
    <2>2. Known(x) BY DEF TypeInv, StoreTyped, ExecInv
    <2>3. \/ FlagStep(x, y)
          \/ \E e : Good(e) /\ Delivered(e) /\ e.key = k /\ y = FoldEvent(x, e)
      BY ExecMoves
    <2> HIDE DEF x, y
    <2>4. /\ y.status # "absent" => InLog("submitted", k, 0, None)
          /\ y.status = "completed" => InLog("completed", k, y.attempt, y.worker)
      <3>1. CASE FlagStep(x, y) BY <2>1, <3>1 DEF FlagStep
      <3>2. ASSUME NEW e, Good(e), Delivered(e), e.key = k, y = FoldEvent(x, e)
            PROVE  /\ y.status # "absent" => InLog("submitted", k, 0, None)
                   /\ y.status = "completed" => InLog("completed", k, y.attempt, y.worker)
        <4>1. InWal(e) BY <3>2, DeliveredIsLogged
        <4>2. InLog(e.type, k, e.attempt, e.worker) BY <3>2, <4>1 DEF InWal, InLog
        <4>3. /\ y.status # "absent" /\ x.status = "absent" =>
                    e.type = "submitted" /\ e.attempt = 0 /\ e.worker = None
              /\ y.status = "completed" =>
                    \/ y = x
                    \/ e.type = "completed" /\ e.attempt = y.attempt /\ e.worker = y.worker
          BY <2>2, <3>2, FoldBacked
        <4> QED BY <2>1, <4>2, <4>3
      <3> QED BY <2>3, <3>1, <3>2
    <2>5. InLog("submitted", k, 0, None) => InLog("submitted", k, 0, None)' BY <1>3
    <2>6. ASSUME NEW a, NEW w, InLog("completed", k, a, w)
          PROVE  \E i \in 1..Len(wal'[k]) : /\ wal'[k][i].type = "completed"
                                             /\ wal'[k][i].attempt = a
                                             /\ wal'[k][i].worker = w
      <3>1. InLog("completed", k, a, w)' BY <1>3, <2>6
      <3> QED BY <3>1 DEF InLog
    <2>7. ASSUME y.status = "completed"
          PROVE  InLog("completed", k, execs[k].attempt, execs[k].worker)'
      <3>1. InLog("completed", k, y.attempt, y.worker) BY <2>4, <2>7
      <3>2. \E i \in 1..Len(wal'[k]) : /\ wal'[k][i].type = "completed"
                                        /\ wal'[k][i].attempt = y.attempt
                                        /\ wal'[k][i].worker = y.worker
        BY <2>6, <3>1
      <3> QED BY <3>2 DEF InLog, y
    <2> QED BY <2>4, <2>5, <2>7 DEF y
  <1>9. ASSUME NEW k \in Keys, NEW i \in 1..Len(accepted'[k])
        PROVE  InLog("completed", k, accepted[k][i].attempt, accepted[k][i].worker)'
    <2>1. CASE UNCHANGED accepted
      <3>1. InLog("completed", k, accepted[k][i].attempt, accepted[k][i].worker)
        BY <1>9, <2>1 DEF LogInv, StateBackedByLog
      <3> DEFINE a == accepted[k][i].attempt
                 w == accepted[k][i].worker
      <3>2. \E j \in 1..Len(wal[k]) : /\ wal[k][j].type = "completed"
                                      /\ wal[k][j].attempt = a
                                      /\ wal[k][j].worker = w
        BY <3>1 DEF InLog
      <3>3. a = accepted'[k][i].attempt /\ w = accepted'[k][i].worker BY <2>1
      <3>4. \A j \in 1..Len(wal[k]) : j \in 1..Len(wal'[k]) /\ wal'[k][j] = wal[k][j]
        BY <1>1 DEF Grows, TypeInv, LogTyped, LogOK
      <3> HIDE DEF a, w
      <3>5. \E j \in 1..Len(wal'[k]) : /\ wal'[k][j].type = "completed"
                                       /\ wal'[k][j].attempt = a
                                       /\ wal'[k][j].worker = w
        BY <3>2, <3>4
      <3> QED BY <3>3, <3>5 DEF InLog
    <2>2. ASSUME NEW h \in Handlers, ApplyCompleted(h)
          PROVE  InLog("completed", k, accepted[k][i].attempt, accepted[k][i].worker)'
      <3> DEFINE r == [attempt |-> ev[h].attempt, worker |-> ev[h].worker]
                 R == [attempt : Nat, worker : Workers]
      <3>1. /\ pc[h] = "apply" /\ ev[h].type = "completed"
            /\ accepted' = [accepted EXCEPT ![ev[h].key] = Append(@, r)]
        BY <2>2 DEF ApplyCompleted
      <3>2. accepted \in [Keys -> Seq(R)] BY DEF TypeInv, ClientOK
      <3>3. ev[h].key \in Keys /\ InWal(ev[h]) BY <1>5, <3>1 DEF Procs
      <3>4. Appending(h) /\ h \in Procs BY <3>1 DEF Appending, Procs
      <3>5. Good(ev[h]) BY <3>4, Held
      <3>6. r \in R BY <3>1, <3>5 DEF Good, Event
      <3>7. r.attempt = ev[h].attempt /\ r.worker = ev[h].worker OBVIOUS
      <3> HIDE DEF r, R
      <3>8. \/ i \in 1..Len(accepted[k]) /\ accepted'[k][i] = accepted[k][i]
            \/ k = ev[h].key /\ accepted'[k][i] = r
        <4>1. CASE k # ev[h].key BY <1>9, <3>1, <3>2, <3>3, <4>1
        <4>2. CASE k = ev[h].key
          <5>1. accepted'[k] = Append(accepted[k], r) /\ accepted[k] \in Seq(R)
            BY <3>1, <3>2, <4>2
          <5>2. /\ Len(accepted[k]) \in Nat /\ Len(accepted'[k]) = Len(accepted[k]) + 1
                /\ \A j \in 1..Len(accepted[k]) : accepted'[k][j] = accepted[k][j]
                /\ accepted'[k][Len(accepted[k]) + 1] = r
            BY <3>6, <5>1, AppendGrows
          <5>3. i \in 1..Len(accepted[k]) \/ i = Len(accepted[k]) + 1 BY <1>9, <5>2
          <5> QED BY <4>2, <5>2, <5>3
        <4> QED BY <4>1, <4>2
      <3> DEFINE a == accepted'[k][i].attempt
                 w == accepted'[k][i].worker
      <3>9. i \in 1..Len(accepted[k]) =>
                InLog("completed", k, accepted[k][i].attempt, accepted[k][i].worker)
        BY DEF LogInv, StateBackedByLog
      <3>10. InLog("completed", k, a, w)
        <4>1. CASE i \in 1..Len(accepted[k]) /\ accepted'[k][i] = accepted[k][i]
          BY <3>9, <4>1
        <4>2. CASE k = ev[h].key /\ accepted'[k][i] = r
          <5>1. a = ev[h].attempt /\ w = ev[h].worker BY <3>7, <4>2
          <5> HIDE DEF a, w
          <5>2. InLog("completed", k, ev[h].attempt, ev[h].worker)
            BY <3>1, <3>3, <4>2 DEF InWal, InLog
          <5> QED BY <5>1, <5>2
        <4> QED BY <3>8, <4>1, <4>2
      <3> HIDE DEF a, w
      <3>11. \E j \in 1..Len(wal'[k]) : /\ wal'[k][j].type = "completed"
                                         /\ wal'[k][j].attempt = a
                                         /\ wal'[k][j].worker = w
        BY <1>1, <3>10 DEF InLog, Grows
      <3> QED BY <3>11 DEF InLog, a, w
    <2>3. UNCHANGED accepted \/ \E h \in Handlers : ApplyCompleted(h)
      <3>1. ASSUME NEW p \in Procs, Acts(p), ~(p \in Handlers /\ ApplyCompleted(p))
            PROVE  UNCHANGED accepted
        BY <3>1
        DEF Acts, HandlerActs, Client, Submit, LeaseBatch, Heartbeat, Complete, Fail,
            LeaseLoop, ReserveNext, ReserveNone, WaitChan, Grant, WaitEnds,
            HandlerApply, ApplyFailed, ApplyLeased, Error, LeaseFails,
            CompleteFails, PublishError, OtherFails, AppendStep, WalAppend, PublishToPartition,
            ApplyAndReturn, Sweeps, SweepExpired, SweepNext, client
      <3>2. ASSUME (\E j \in Keys : Ingest(j)) \/ Tick \/ UNCHANGED vars
            PROVE  UNCHANGED accepted
        BY <3>2 DEF Ingest, Tick, vars, client
      <3> QED BY <3>1, <3>2, StepCases
    <2> QED BY <2>1, <2>2, <2>3
  <1>10. StateBackedByLog'
    <2>1. leases' \subseteq Given' BY DEF Given
    <2> QED BY <1>7, <1>8, <1>9, <2>1 DEF StateBackedByLog
  <1> QED BY <1>2, <1>6, <1>7, <1>10 DEF LogInv

(* Write-ahead: whatever the store, a worker or a client holds is in the   *)
(* WAL, in every interleaving and with any number of failed publishes      *)
(* (coordinator.go:130-141, 192-194).                                      *)
THEOREM NothingBeforeTheLog == Spec => []StateBackedByLog
  <1>1. ASSUME Init PROVE LogInv
    <2>1. Given = {} BY <1>1 DEF Init, Given, NoLease
    <2> QED BY <1>1, <2>1 DEF Init, LogInv, StateBackedByLog, NoExecution, Procs
  <1>2. TypeInv /\ TypeInv' /\ LogInv /\ [Next]_vars => LogInv' BY LogStep
  <1>3. LogInv => StateBackedByLog BY DEF LogInv
  <1> QED BY <1>1, <1>2, <1>3, TypingHolds, PTL DEF Spec
-----------------------------------------------------------------------------
(***************************************************************************)
(* The scheduler: reservations, attempts and queues.                       *)
(***************************************************************************)

(* The handler has reserved k and not yet made its lease. *)
Granting(h, k) == pc[h] = "grant" /\ lease[h].key = k

(* The handler's lease of k is being appended. *)
Leasing(h, k) == Appending(h) /\ ev[h].type = "leased" /\ ev[h].key = k

(* The handler may still give out the next attempt of k. *)
Claims(h, k) ==
    \/ Granting(h, k)
    \/ Leasing(h, k) /\ ev[h].attempt = execs[k].attempt + 1

(* A reservation and the claim to the next attempt belong together. *)
ClaimInv(k) ==
    /\ \A g, h \in Handlers : Claims(g, k) /\ Claims(h, k) => g = h
    /\ \A h \in Handlers : Claims(h, k) => execs[k].reserved
    /\ execs[k].status = "pending" /\ execs[k].reserved => \E h \in Handlers : Claims(h, k)
    /\ execs[k].status \in {"running", "retrying"} => ~execs[k].reserved

(* No attempt beyond the execution's is in use, but the one claimed: a     *)
(* lease in the topic that the store has not counted is being applied by   *)
(* its claimant, or comes too late for a finished execution.               *)
AttemptInv(k) ==
    /\ \A h \in Handlers : Leasing(h, k) =>
          /\ ev[h].attempt <= execs[k].attempt + 1
          /\ pc[h] # "apply" => ev[h].attempt = execs[k].attempt + 1
    /\ \A i \in 1..Len(topic[k]) : topic[k][i].type = "leased" =>
          /\ topic[k][i].attempt <= execs[k].attempt + 1
          /\ \/ topic[k][i].attempt <= execs[k].attempt
             \/ Terminal(execs[k])
             \/ \E h \in Handlers : Claims(h, k) /\ pc[h] = "apply"
    /\ \A l \in Given : l.key = k =>
          /\ l.attempt <= execs[k].attempt \/ Terminal(execs[k])
          /\ (\E h \in Handlers : Claims(h, k)) => l.attempt <= execs[k].attempt

(* No attempt is given out twice. *)
UniqueInv(k) ==
    /\ \A l, m \in Given : l.key = k /\ m.key = k /\ l.attempt = m.attempt => l = m
    /\ \A h \in Handlers : \A l \in Given :
          Leasing(h, k) /\ l.key = k => ev[h].attempt # l.attempt
    /\ \A g, h \in Handlers :
          Leasing(g, k) /\ Leasing(h, k) /\ ev[g].attempt = ev[h].attempt => g = h

KeyInv(k) == ClaimInv(k) /\ AttemptInv(k) /\ UniqueInv(k)

LeaseInv == \A k \in Keys : KeyInv(k)

-----------------------------------------------------------------------------
(* A handler's business with k is the same after the step. *)
SameCall(h, k) ==
    /\ Leasing(h, k)' <=> Leasing(h, k)
    /\ Granting(h, k)' <=> Granting(h, k)
    /\ Leasing(h, k) => ev'[h].attempt = ev[h].attempt /\ (pc'[h] = "apply" <=> pc[h] = "apply")

(* A handler that does not move is in the same lease call, for the same    *)
(* attempt, as before.                                                     *)
LEMMA StillSame ==
    ASSUME NEW h \in Handlers, Still(h), NEW k
    PROVE  SameCall(h, k)
  BY DEF Still, SameCall, Leasing, Granting, Appending

(* The numbers the scheduler compares *)
LEMMA Numbers ==
    ASSUME TypeInv, NEW k \in Keys
    PROVE  /\ execs[k].attempt \in Nat /\ Known(execs[k])
           /\ \A h \in Handlers : Leasing(h, k) => ev[h].attempt \in Nat
           /\ \A i \in 1..Len(topic[k]) : topic[k][i].attempt \in Nat
           /\ \A l \in Given : l.attempt \in Nat /\ l.key \in Keys
  <1>1. execs[k].attempt \in Nat /\ Known(execs[k])
    BY DEF TypeInv, StoreTyped, StoreOK, ExecInv, Execution
  <1>2. ASSUME NEW h \in Handlers, Leasing(h, k) PROVE ev[h].attempt \in Nat
    <2>1. Appending(h) /\ h \in Procs BY <1>2 DEF Leasing, Procs
    <2>2. ev[h] \in Event BY <2>1, Held
    <2> QED BY <2>2 DEF Event
  <1>3. \A i \in 1..Len(topic[k]) : topic[k][i].attempt \in Nat
    BY DEF TypeInv, LogTyped, FiledInv, Filed, Good, Event
  <1>4. \A l \in Given : l.attempt \in Nat /\ l.key \in Keys
    BY DEF TypeInv, ClientOK, ProcTyped, ProcsOK, LeaseCall, Lease, Given
  <1> QED BY <1>1, <1>2, <1>3, <1>4

(* A step that does not touch k's attempt, reservation or leases, and does *)
(* not make it runnable under a reservation.                               *)
LEMMA KeyKept ==
    ASSUME NEW k \in Keys, KeyInv(k),
           execs'[k].attempt = execs[k].attempt,
           execs'[k].reserved = execs[k].reserved,
           Terminal(execs[k]) => Terminal(execs'[k]),
           execs'[k].status = "pending" => execs[k].status = "pending" \/ ~execs'[k].reserved,
           execs'[k].status \in {"running", "retrying"} => ~execs'[k].reserved,
           \A h \in Handlers : SameCall(h, k),
           \A i \in 1..Len(topic'[k]) : topic'[k][i].type = "leased" =>
                \E j \in 1..Len(topic[k]) : topic[k][j] = topic'[k][i],
           \A l \in Given' : l.key = k => l \in Given
    PROVE  KeyInv(k)'
  <1>1. \A h \in Handlers : Claims(h, k)' <=> Claims(h, k)
    BY DEF SameCall, Claims
  <1>2. ClaimInv(k)' BY <1>1 DEF KeyInv, ClaimInv
  <1>3. \A h \in Handlers : Claims(h, k) /\ pc[h] = "apply" => Claims(h, k)' /\ pc'[h] = "apply"
    BY <1>1 DEF SameCall, Claims, Granting
  <1>4. AttemptInv(k)'
    <2>1. ASSUME NEW h \in Handlers, Leasing(h, k)'
          PROVE  /\ ev'[h].attempt <= execs'[k].attempt + 1
                 /\ pc'[h] # "apply" => ev'[h].attempt = execs'[k].attempt + 1
      BY <2>1 DEF SameCall, KeyInv, AttemptInv
    <2>2. ASSUME NEW i \in 1..Len(topic'[k]), topic'[k][i].type = "leased"
          PROVE  /\ topic'[k][i].attempt <= execs'[k].attempt + 1
                 /\ \/ topic'[k][i].attempt <= execs'[k].attempt
                    \/ Terminal(execs'[k])
                    \/ \E h \in Handlers : Claims(h, k)' /\ pc'[h] = "apply"
      BY <1>3, <2>2 DEF KeyInv, AttemptInv
    <2>3. ASSUME NEW l \in Given', l.key = k
          PROVE  /\ l.attempt <= execs'[k].attempt \/ Terminal(execs'[k])
                 /\ (\E h \in Handlers : Claims(h, k)') => l.attempt <= execs'[k].attempt
      BY <1>1, <2>3 DEF KeyInv, AttemptInv
    <2> QED BY <2>1, <2>2, <2>3 DEF AttemptInv
  <1>5. UniqueInv(k)'
    BY DEF SameCall, KeyInv, UniqueInv
  <1> QED BY <1>2, <1>4, <1>5 DEF KeyInv

(* ReserveNext parks a pending execution nobody claims. *)
LEMMA ReservedKey ==
    ASSUME TypeInv, NEW k \in Keys, KeyInv(k), NEW h \in Handlers,
           execs[k].status = "pending", ~execs[k].reserved,
           execs'[k].attempt = execs[k].attempt, execs'[k].status = "pending",
           execs'[k].reserved, ~Leasing(h, k), ~Leasing(h, k)', Granting(h, k)',
           \A g \in Handlers : g # h => SameCall(g, k),
           UNCHANGED topic, Given' \subseteq Given
    PROVE  KeyInv(k)'
  <1>1. \A g \in Handlers : ~Claims(g, k) BY DEF KeyInv, ClaimInv
  <1>2. \A g \in Handlers : g # h => ~Claims(g, k)' BY <1>1 DEF SameCall, Claims
  <1>3. Claims(h, k)' BY DEF Claims
  <1>4. ClaimInv(k)' BY <1>2, <1>3 DEF ClaimInv
  <1>5. ~Terminal(execs[k]) BY DEF Terminal
  <1>6. AttemptInv(k)'
    <2>1. ASSUME NEW g \in Handlers, Leasing(g, k)'
          PROVE  /\ ev'[g].attempt <= execs'[k].attempt + 1
                 /\ pc'[g] # "apply" => ev'[g].attempt = execs'[k].attempt + 1
      BY <2>1 DEF SameCall, KeyInv, AttemptInv
    <2>2. ASSUME NEW i \in 1..Len(topic'[k]), topic'[k][i].type = "leased"
          PROVE  /\ topic'[k][i].attempt <= execs'[k].attempt + 1
                 /\ topic'[k][i].attempt <= execs'[k].attempt
      BY <1>1, <1>5, <2>2 DEF KeyInv, AttemptInv
    <2>3. ASSUME NEW l \in Given', l.key = k PROVE l.attempt <= execs'[k].attempt
      BY <1>5, <2>3 DEF KeyInv, AttemptInv
    <2> QED BY <2>1, <2>2, <2>3 DEF AttemptInv
  <1>7. UniqueInv(k)' BY DEF SameCall, KeyInv, UniqueInv
  <1> QED BY <1>4, <1>6, <1>7 DEF KeyInv

(* grant makes the lease of the claimed attempt. *)
LEMMA GrantedKey ==
    ASSUME TypeInv, NEW k \in Keys, KeyInv(k), NEW h \in Handlers, Granting(h, k),
           UNCHANGED execs, ~Leasing(h, k), Leasing(h, k)', ~Granting(h, k)',
           pc'[h] = "publish", ev'[h].attempt = execs[k].attempt + 1,
           \A g \in Handlers : g # h => SameCall(g, k),
           UNCHANGED topic, Given' \subseteq Given
    PROVE  KeyInv(k)'
  <1>0. execs[k].attempt \in Nat /\ \A l \in Given : l.attempt \in Nat BY Numbers
  <1>1. Claims(h, k) /\ Claims(h, k)' BY DEF Claims
  <1>2. \A g \in Handlers : g # h => ~Claims(g, k) /\ ~Claims(g, k)'
    BY <1>1 DEF KeyInv, ClaimInv, SameCall, Claims
  <1>3. ClaimInv(k)' BY <1>1, <1>2 DEF ClaimInv, KeyInv
  <1>4. \A g \in Handlers : ~(Claims(g, k) /\ pc[g] = "apply")
    BY <1>2 DEF Granting
  <1>5. AttemptInv(k)'
    <2>1. ASSUME NEW g \in Handlers, Leasing(g, k)'
          PROVE  /\ ev'[g].attempt <= execs'[k].attempt + 1
                 /\ pc'[g] # "apply" => ev'[g].attempt = execs'[k].attempt + 1
      BY <1>0, <2>1 DEF SameCall, KeyInv, AttemptInv
    <2>2. ASSUME NEW i \in 1..Len(topic'[k]), topic'[k][i].type = "leased"
          PROVE  /\ topic'[k][i].attempt <= execs'[k].attempt + 1
                 /\ topic'[k][i].attempt <= execs'[k].attempt \/ Terminal(execs'[k])
      BY <1>4, <2>2 DEF KeyInv, AttemptInv
    <2>3. ASSUME NEW l \in Given', l.key = k PROVE l.attempt <= execs'[k].attempt
      BY <1>1, <2>3 DEF KeyInv, AttemptInv
    <2> QED BY <2>1, <2>2, <2>3 DEF AttemptInv
  <1>6. UniqueInv(k)'
    <2>1. \A l \in Given : l.key = k => l.attempt # ev'[h].attempt
      BY <1>0, <1>1 DEF KeyInv, AttemptInv
    <2>2. \A g \in Handlers : g # h /\ Leasing(g, k)' => ev'[g].attempt # ev'[h].attempt
      BY <1>2 DEF SameCall, Claims
    <2> QED BY <2>1, <2>2 DEF SameCall, KeyInv, UniqueInv
  <1> QED BY <1>3, <1>5, <1>6 DEF KeyInv

(* The lease is published: its appender is the claimant and applies it. *)
LEMMA PublishedKey ==
    ASSUME TypeInv, NEW k \in Keys, KeyInv(k), NEW h \in Handlers, Leasing(h, k),
           pc[h] = "deliver", pc'[h] = "apply", Leasing(h, k)', ~Granting(h, k)',
           UNCHANGED execs, UNCHANGED ev,
           \A g \in Handlers : g # h => SameCall(g, k),
           \A i \in 1..Len(topic'[k]) :
                \/ i \in 1..Len(topic[k]) /\ topic'[k][i] = topic[k][i]
                \/ topic'[k][i] = ev[h],
           Given' \subseteq Given
    PROVE  KeyInv(k)'
  <1>0. execs[k].attempt \in Nat BY Numbers
  <1>1. ev[h].attempt = execs[k].attempt + 1 BY DEF KeyInv, AttemptInv
  <1>2. Claims(h, k) /\ Claims(h, k)' BY <1>1 DEF Claims
  <1>3. \A g \in Handlers : g # h => ~Claims(g, k) /\ ~Claims(g, k)'
    BY <1>2 DEF KeyInv, ClaimInv, SameCall, Claims
  <1>4. ClaimInv(k)' BY <1>2, <1>3 DEF ClaimInv, KeyInv
  <1>5. AttemptInv(k)'
    <2>1. ASSUME NEW g \in Handlers, Leasing(g, k)'
          PROVE  /\ ev'[g].attempt <= execs'[k].attempt + 1
                 /\ pc'[g] # "apply" => ev'[g].attempt = execs'[k].attempt + 1
      BY <1>0, <1>1, <2>1 DEF SameCall, KeyInv, AttemptInv
    <2>2. ASSUME NEW i \in 1..Len(topic'[k]), topic'[k][i].type = "leased"
          PROVE  topic'[k][i].attempt <= execs'[k].attempt + 1
      BY <1>0, <1>1, <2>2 DEF KeyInv, AttemptInv
    <2>3. ASSUME NEW l \in Given', l.key = k PROVE l.attempt <= execs'[k].attempt
      BY <1>2, <2>3 DEF KeyInv, AttemptInv
    <2> QED BY <1>2, <2>1, <2>2, <2>3 DEF AttemptInv
  <1>6. UniqueInv(k)' BY DEF SameCall, KeyInv, UniqueInv
  <1> QED BY <1>4, <1>5, <1>6 DEF KeyInv

(* A failed grant gives the claim and the reservation back. *)
LEMMA UnreservedKey ==
    ASSUME TypeInv, NEW k \in Keys, KeyInv(k), NEW h \in Handlers, Leasing(h, k),
           pc[h] = "publish", ~Leasing(h, k)', ~Granting(h, k)',
           execs'[k].attempt = execs[k].attempt, execs'[k].status = execs[k].status,
           ~execs'[k].reserved,
           \A g \in Handlers : g # h => SameCall(g, k),
           UNCHANGED topic, Given' \subseteq Given
    PROVE  KeyInv(k)'
  <1>1. ev[h].attempt = execs[k].attempt + 1 BY DEF KeyInv, AttemptInv
  <1>2. Claims(h, k) /\ ~Claims(h, k)' BY <1>1 DEF Claims
  <1>3. \A g \in Handlers : g # h => ~Claims(g, k)
    BY <1>2 DEF KeyInv, ClaimInv
  <1>4. \A g \in Handlers : ~Claims(g, k)'
    BY <1>2, <1>3 DEF SameCall, Claims
  <1>5. ClaimInv(k)' BY <1>4 DEF ClaimInv
  <1>6. \A g \in Handlers : ~(Claims(g, k) /\ pc[g] = "apply") BY <1>3
  <1>7. AttemptInv(k)'
    <2>1. ASSUME NEW g \in Handlers, Leasing(g, k)'
          PROVE  /\ ev'[g].attempt <= execs'[k].attempt + 1
                 /\ pc'[g] # "apply" => ev'[g].attempt = execs'[k].attempt + 1
      BY <2>1 DEF SameCall, KeyInv, AttemptInv
    <2>2. ASSUME NEW i \in 1..Len(topic'[k]), topic'[k][i].type = "leased"
          PROVE  /\ topic'[k][i].attempt <= execs'[k].attempt + 1
                 /\ topic'[k][i].attempt <= execs'[k].attempt \/ Terminal(execs'[k])
      BY <1>6, <2>2 DEF KeyInv, AttemptInv, Terminal
    <2>3. ASSUME NEW l \in Given', l.key = k PROVE l.attempt <= execs'[k].attempt
      BY <1>2, <2>3 DEF KeyInv, AttemptInv
    <2> QED BY <2>1, <2>2, <2>3 DEF AttemptInv
  <1>8. UniqueInv(k)' BY DEF SameCall, KeyInv, UniqueInv
  <1> QED BY <1>5, <1>7, <1>8 DEF KeyInv

(* The fold counts the next attempt of a pending execution, or leaves      *)
(* attempt and reservation alone.                                          *)
Counts(x, e, y) ==
    /\ e.type = "leased" /\ e.attempt = x.attempt + 1 /\ x.status = "pending"
    /\ y.status = "running" /\ y.attempt = x.attempt + 1 /\ ~y.reserved

Leaves(x, e, y) ==
    /\ e.type = "leased" /\ x.status = "pending" => e.attempt # x.attempt + 1
    /\ y.attempt = x.attempt /\ y.reserved = x.reserved
    /\ Terminal(x) => Terminal(y)
    /\ y.status = "pending" => x.status \in {"pending", "running", "retrying"} \/ ~x.reserved
    /\ y.status \in {"running", "retrying"} => x.status \in {"running", "retrying"}

(* Every event of state.go either starts an attempt, which counts it, or   *)
(* leaves the number of attempts alone.                                    *)
LEMMA FoldCounts ==
    ASSUME NEW x, Known(x), NEW e, Good(e)
    PROVE  Counts(x, e, FoldEvent(x, e)) \/ Leaves(x, e, FoldEvent(x, e))
  <1> DEFINE y == FoldEvent(x, e)
  <1>1. FoldStep(x, e, y) BY FoldCases
  <1>2. x \in Execution BY DEF Known
  <1>3. CASE e.type = "leased" /\ e.attempt = x.attempt + 1 /\ x.status = "pending"
    <2>1. y = ApplyLease(x, e)
      BY <1>3 DEF FoldEvent, Changes, Accepts, apply
    <2> HIDE DEF y
    <2>2. Counts(x, e, y) BY <1>2, <1>3, <2>1 DEF ApplyLease, Counts, Execution
    <2> QED BY <2>2 DEF y
  <1>4. CASE ~(e.type = "leased" /\ e.attempt = x.attempt + 1 /\ x.status = "pending")
    <2> HIDE DEF y
    <2>1. x.status = "absent" => ~x.reserved /\ x.attempt = 0 BY DEF Known
    <2>2. y.attempt = x.attempt /\ y.reserved = x.reserved
      BY <1>1, <1>2, <1>4, <2>1
      DEF FoldStep, ApplyComplete, newExecution, NoExecution, Execution
    <2>3. Terminal(x) => Terminal(y) BY <1>1, <1>4 DEF FoldStep, Terminal
    <2>4. y.status = "pending" => x.status \in {"pending", "running", "retrying"} \/ ~x.reserved
      BY <1>1, <1>2, <1>4, <2>1
      DEF FoldStep, ApplyComplete, newExecution, NoExecution, Execution
    <2>5. y.status \in {"running", "retrying"} => x.status \in {"running", "retrying"}
      BY <1>1, <1>2, <1>4
      DEF FoldStep, ApplyComplete, newExecution, NoExecution, Execution
    <2>6. Leaves(x, e, y) BY <1>4, <2>2, <2>3, <2>4, <2>5 DEF Leaves
    <2> QED BY <2>6 DEF y
  <1> QED BY <1>3, <1>4

(* The handler is through with k and remembers the lease it has applied.   *)
GivesOut(h, k) ==
    /\ ~Leasing(h, k)' /\ ~Granting(h, k)'
    /\ \A l \in Given' : l.key = k => l \in Given \/ l = LeaseOf(ev[h])

(* Its claimant's lease is counted, by the claimant itself or by the       *)
(* Poller before it: nobody claims k any more.                             *)
LEMMA CountedKey ==
    ASSUME TypeInv, NEW k \in Keys, KeyInv(k), NEW h \in Handlers, NEW e,
           Claims(h, k), pc[h] = "apply", Counts(execs[k], e, execs'[k]),
           \A g \in Handlers : g # h => SameCall(g, k),
           \/ SameCall(h, k) /\ \A l \in Given' : l.key = k => l \in Given
           \/ GivesOut(h, k),
           UNCHANGED topic
    PROVE  KeyInv(k)'
  <1> DEFINE x == execs[k]
             y == execs'[k]
  <1>1. /\ x.attempt \in Nat /\ \A l \in Given : l.attempt \in Nat
        /\ \A i \in 1..Len(topic[k]) : topic[k][i].attempt \in Nat
        /\ \A g \in Handlers : Leasing(g, k) => ev[g].attempt \in Nat
    BY Numbers
  <1>2. y.attempt = x.attempt + 1 /\ y.status = "running" /\ ~y.reserved BY DEF Counts
  <1>3. Leasing(h, k) /\ ev[h].attempt = x.attempt + 1 /\ ~Granting(h, k)
    BY DEF Claims, Granting
  <1>4. \A g \in Handlers : g # h => ~Claims(g, k) BY DEF KeyInv, ClaimInv
  <1>5. \A g \in Handlers : Leasing(g, k) => ev[g].attempt <= x.attempt + 1
    BY DEF KeyInv, AttemptInv
  <1>6. \A g \in Handlers : Leasing(g, k)' => Leasing(g, k) /\ ev'[g].attempt = ev[g].attempt
    BY DEF SameCall, GivesOut
  <1>7. \A g \in Handlers : ~Granting(g, k)'
    BY <1>3, <1>4 DEF SameCall, GivesOut, Claims
  <1> HIDE DEF x, y
  <1>8. \A g \in Handlers : ~Claims(g, k)'
    <2>1. \A g \in Handlers : Leasing(g, k)' => ev'[g].attempt # y.attempt + 1
      BY <1>1, <1>2, <1>5, <1>6
    <2> QED BY <1>7, <2>1 DEF Claims, y
  <1>9. ClaimInv(k)' BY <1>2, <1>8 DEF ClaimInv, y
  <1>10. \A l \in Given : l.key = k => l.attempt <= x.attempt
    BY DEF KeyInv, AttemptInv, x
  <1>11. AttemptInv(k)'
    <2>1. ASSUME NEW g \in Handlers, Leasing(g, k)'
          PROVE  /\ ev'[g].attempt <= y.attempt + 1
                 /\ pc'[g] # "apply" => ev'[g].attempt = y.attempt + 1
      <3>1. ev'[g].attempt <= y.attempt + 1 BY <1>1, <1>2, <1>5, <1>6, <2>1
      <3>2. pc'[g] = "apply"
        <4>1. CASE g = h BY <2>1, <4>1 DEF SameCall, GivesOut, Claims, Granting
        <4>2. CASE g # h
          <5>1. ev[g].attempt # x.attempt + 1 BY <1>4, <1>6, <2>1, <4>2 DEF Claims, x
          <5>2. pc[g] = "apply" BY <1>6, <2>1, <5>1 DEF KeyInv, AttemptInv, x
          <5> QED BY <1>6, <2>1, <4>2, <5>2 DEF SameCall
        <4> QED BY <4>1, <4>2
      <3> QED BY <3>1, <3>2
    <2>2. ASSUME NEW i \in 1..Len(topic'[k]), topic'[k][i].type = "leased"
          PROVE  topic'[k][i].attempt <= y.attempt + 1 /\ topic'[k][i].attempt <= y.attempt
      <3>1. topic[k][i].attempt <= x.attempt + 1 /\ topic[k][i].attempt \in Nat
            /\ topic'[k][i] = topic[k][i]
        BY <1>1, <2>2 DEF KeyInv, AttemptInv, x
      <3> QED BY <1>1, <1>2, <3>1
    <2>3. ASSUME NEW l \in Given', l.key = k PROVE l.attempt <= y.attempt
      <3>1. CASE l \in Given BY <1>1, <1>2, <1>10, <2>3, <3>1
      <3>2. CASE l = LeaseOf(ev[h]) BY <1>1, <1>2, <1>3, <3>2 DEF LeaseOf
      <3> QED BY <2>3, <3>1, <3>2 DEF GivesOut
    <2> QED BY <1>8, <2>1, <2>2, <2>3 DEF AttemptInv, y
  <1>12. UniqueInv(k)'
    <2>1. CASE SameCall(h, k) /\ \A l \in Given' : l.key = k => l \in Given
      BY <2>1 DEF SameCall, KeyInv, UniqueInv
    <2>2. CASE GivesOut(h, k)
      <3>1. LeaseOf(ev[h]).attempt = ev[h].attempt BY DEF LeaseOf
      <3>2. \A l \in Given : l.key = k => l.attempt # ev[h].attempt
        BY <1>3 DEF KeyInv, UniqueInv
      <3>3. \A g \in Handlers : Leasing(g, k)' => g # h /\ ev'[g].attempt # ev[h].attempt
        BY <1>3, <1>6, <2>2 DEF GivesOut, KeyInv, UniqueInv
      <3>4. \A l, m \in Given' : l.key = k /\ m.key = k /\ l.attempt = m.attempt => l = m
        BY <2>2, <3>1, <3>2 DEF GivesOut, KeyInv, UniqueInv
      <3>5. \A g \in Handlers : \A l \in Given' :
                Leasing(g, k)' /\ l.key = k => ev'[g].attempt # l.attempt
        BY <1>6, <2>2, <3>1, <3>3 DEF GivesOut, KeyInv, UniqueInv
      <3>6. \A g, i \in Handlers :
                Leasing(g, k)' /\ Leasing(i, k)' /\ ev'[g].attempt = ev'[i].attempt => g = i
        BY <1>6 DEF KeyInv, UniqueInv
      <3> QED BY <3>4, <3>5, <3>6 DEF UniqueInv
    <2> QED BY <2>1, <2>2
  <1> QED BY <1>9, <1>11, <1>12 DEF KeyInv

(* A lease that is applied without being counted: counted before, or too   *)
(* late for an execution that has finished under the reservation.          *)
LEMMA UncountedKey ==
    ASSUME TypeInv, NEW k \in Keys, KeyInv(k), NEW h \in Handlers, Leasing(h, k),
           pc[h] = "apply", Leaves(execs[k], ev[h], execs'[k]),
           \A g \in Handlers : g # h => SameCall(g, k),
           GivesOut(h, k), UNCHANGED topic
    PROVE  KeyInv(k)'
  <1> DEFINE x == execs[k]
             y == execs'[k]
  <1>1. /\ x.attempt \in Nat /\ \A l \in Given : l.attempt \in Nat
        /\ ev[h].attempt \in Nat /\ Known(x)
    BY Numbers
  <1>2. /\ x.status = "pending" => ev[h].attempt # x.attempt + 1
        /\ y.attempt = x.attempt /\ y.reserved = x.reserved
        /\ Terminal(x) => Terminal(y)
        /\ y.status = "pending" => x.status \in {"pending", "running", "retrying"} \/ ~x.reserved
        /\ y.status \in {"running", "retrying"} => x.status \in {"running", "retrying"}
    BY DEF Leaves, Leasing
  <1>3. ev[h].attempt <= x.attempt + 1 BY DEF KeyInv, AttemptInv
  <1>4. Claims(h, k) => Terminal(x)
    <2>1. Claims(h, k) => x.reserved /\ ev[h].attempt = x.attempt + 1
      BY DEF KeyInv, ClaimInv, Claims, Granting
    <2>2. x.status \in Status \cup {"absent"} BY <1>1 DEF Known, Execution
    <2>3. x.reserved => x.status \notin {"absent", "running", "retrying"}
      BY <1>1 DEF KeyInv, ClaimInv, Known
    <2> QED BY <1>2, <2>1, <2>2, <2>3 DEF Terminal, Status
  <1>5. ev[h].attempt <= x.attempt \/ Claims(h, k)
    BY <1>1, <1>3 DEF Claims
  <1>6. \A g \in Handlers : Claims(g, k)' <=> g # h /\ Claims(g, k)
    BY <1>2 DEF SameCall, GivesOut, Claims
  <1>7. \A g \in Handlers : Leasing(g, k)' =>
            g # h /\ Leasing(g, k) /\ ev'[g].attempt = ev[g].attempt
    BY DEF SameCall, GivesOut
  <1>8. x.status \in {"running", "retrying"} => ~x.reserved BY DEF KeyInv, ClaimInv
  <1>9. x.status = "pending" /\ x.reserved => \E g \in Handlers : Claims(g, k)
    BY DEF KeyInv, ClaimInv
  <1>10. \A g \in Handlers : Claims(g, k) => x.reserved BY DEF KeyInv, ClaimInv
  <1>11. \A g, i \in Handlers : Claims(g, k) /\ Claims(i, k) => g = i BY DEF KeyInv, ClaimInv
  <1>12. ClaimInv(k)'
    <2>1. y.status = "pending" /\ y.reserved => \E g \in Handlers : Claims(g, k)'
      <3>1. y.status = "pending" /\ y.reserved => x.status = "pending" BY <1>2, <1>8
      <3>2. x.status = "pending" => ~Claims(h, k) BY <1>4 DEF Terminal
      <3> QED BY <1>2, <1>6, <1>9, <3>1, <3>2
    <2> QED BY <1>2, <1>6, <1>8, <1>10, <1>11, <2>1 DEF ClaimInv
  <1>13. AttemptInv(k)'
    <2>1. ASSUME NEW g \in Handlers, Leasing(g, k)'
          PROVE  /\ ev'[g].attempt <= y.attempt + 1
                 /\ pc'[g] # "apply" => ev'[g].attempt = y.attempt + 1
      BY <1>2, <1>7, <2>1 DEF SameCall, KeyInv, AttemptInv
    <2>2. ASSUME NEW i \in 1..Len(topic'[k]), topic'[k][i].type = "leased"
          PROVE  /\ topic'[k][i].attempt <= y.attempt + 1
                 /\ \/ topic'[k][i].attempt <= y.attempt
                    \/ Terminal(y)
                    \/ \E g \in Handlers : Claims(g, k)' /\ pc'[g] = "apply"
      <3>1. /\ topic[k][i].attempt <= x.attempt + 1
            /\ \/ topic[k][i].attempt <= x.attempt
               \/ Terminal(x)
               \/ \E g \in Handlers : Claims(g, k) /\ pc[g] = "apply"
        BY <2>2 DEF KeyInv, AttemptInv
      <3>2. ASSUME NEW g \in Handlers, Claims(g, k), pc[g] = "apply"
            PROVE  Terminal(x) \/ (Claims(g, k)' /\ pc'[g] = "apply")
        <4>1. CASE g = h BY <1>4, <3>2, <4>1
        <4>2. CASE g # h BY <1>6, <3>2, <4>2 DEF SameCall, Claims, Granting
        <4> QED BY <4>1, <4>2
      <3> QED BY <1>2, <3>1, <3>2
    <2>3. ASSUME NEW l \in Given', l.key = k
          PROVE  /\ l.attempt <= y.attempt \/ Terminal(y)
                 /\ (\E g \in Handlers : Claims(g, k)') => l.attempt <= y.attempt
      <3>1. CASE l \in Given
        BY <1>2, <1>6, <2>3, <3>1 DEF KeyInv, AttemptInv
      <3>2. CASE l = LeaseOf(ev[h])
        <4>1. l.attempt = ev[h].attempt BY <3>2 DEF LeaseOf
        <4>2. Claims(h, k) => ~ \E g \in Handlers : Claims(g, k)' BY <1>6, <1>11
        <4> QED BY <1>2, <1>4, <1>5, <4>1, <4>2
      <3> QED BY <2>3, <3>1, <3>2 DEF GivesOut
    <2> QED BY <2>1, <2>2, <2>3 DEF AttemptInv
  <1>14. UniqueInv(k)'
    <2>1. LeaseOf(ev[h]).attempt = ev[h].attempt BY DEF LeaseOf
    <2>2. \A l \in Given : l.key = k => l.attempt # ev[h].attempt
      BY DEF KeyInv, UniqueInv
    <2>3. \A g \in Handlers : Leasing(g, k)' => ev'[g].attempt # ev[h].attempt
      BY <1>7 DEF KeyInv, UniqueInv
    <2>4. \A l, m \in Given' : l.key = k /\ m.key = k /\ l.attempt = m.attempt => l = m
      BY <2>1, <2>2 DEF GivesOut, KeyInv, UniqueInv
    <2>5. \A g \in Handlers : \A l \in Given' :
              Leasing(g, k)' /\ l.key = k => ev'[g].attempt # l.attempt
      BY <1>7, <2>1, <2>3 DEF GivesOut, KeyInv, UniqueInv
    <2>6. \A g, i \in Handlers :
              Leasing(g, k)' /\ Leasing(i, k)' /\ ev'[g].attempt = ev'[i].attempt => g = i
      BY <1>7 DEF KeyInv, UniqueInv
    <2> QED BY <2>4, <2>5, <2>6 DEF UniqueInv
  <1> QED BY <1>12, <1>13, <1>14 DEF KeyInv

(* Every step of Workflow keeps what is known about attempts, leases and   *)
(* the calls that hold them.                                               *)
LEMMA LeaseStep ==
    ASSUME TypeInv, TypeInv', LeaseInv, [Next]_vars
    PROVE  LeaseInv'
  <1> SUFFICES ASSUME NEW k \in Keys PROVE KeyInv(k)'
    BY DEF LeaseInv
  <1>1. KeyInv(k) BY DEF LeaseInv
  <1>2. /\ pc \in [Procs -> ControlPoints] /\ ev \in [Procs -> Event \cup {NoEvent}]
        /\ lease \in [Handlers -> LeaseCall] /\ execs \in [Keys -> Execution]
        /\ Handlers \subseteq Procs /\ ProcsOK
    BY DEF TypeInv, StoreTyped, StoreOK, ProcTyped, ProcsOK, Procs
  <1>3. Known(execs[k]) /\ execs[k] \in Execution BY <1>2 DEF TypeInv, StoreTyped, ExecInv
  <1>4. execs[k].status \in {"running", "retrying"} => ~execs[k].reserved
    BY <1>1 DEF KeyInv, ClaimInv
  <1>5. ASSUME NEW p \in Procs, Acts(p), NEW g \in Handlers, g # p PROVE SameCall(g, k)
    BY <1>2, <1>5, OthersStill, StillSame
  <1>6. (~\E h \in Handlers : ApplyLeased(h)) => Given' \subseteq Given
    BY GivenMoves
  \* Steps that leave k's attempt, status and reservation alone
  <1>7. ASSUME execs'[k].attempt = execs[k].attempt, execs'[k].status = execs[k].status,
               execs'[k].reserved = execs[k].reserved,
               \A h \in Handlers : SameCall(h, k),
               \A i \in 1..Len(topic'[k]) : topic'[k][i].type = "leased" =>
                    \E j \in 1..Len(topic[k]) : topic[k][j] = topic'[k][i],
               \A l \in Given' : l.key = k => l \in Given
        PROVE  KeyInv(k)'
    BY <1>1, <1>4, <1>7, KeyKept DEF Terminal
  <1>8. ASSUME NEW p \in Procs, Acts(p), p \in Handlers => SameCall(p, k),
               execs'[k].attempt = execs[k].attempt, execs'[k].status = execs[k].status,
               execs'[k].reserved = execs[k].reserved,
               UNCHANGED topic, Given' \subseteq Given
        PROVE  KeyInv(k)'
    BY <1>5, <1>7, <1>8
  \* Folds of an event of k that no handler leaves behind as a lease
  <1>9. ASSUME NEW e, Good(e), StoreApply(e), \A h \in Handlers : SameCall(h, k),
               UNCHANGED topic, \A l \in Given' : l.key = k => l \in Given,
               e.key = k => Leaves(execs[k], e, FoldEvent(execs[k], e))
        PROVE  KeyInv(k)'
    <2>1. execs' = [execs EXCEPT ![e.key] = FoldEvent(execs[e.key], e)]
      BY <1>9 DEF StoreApply
    <2>2. CASE e.key # k
      <3>1. execs'[k] = execs[k] BY <1>2, <2>1, <2>2
      <3> QED BY <1>7, <1>9, <3>1
    <2>3. CASE e.key = k
      <3>1. Leaves(execs[k], e, execs'[k]) BY <1>2, <1>9, <2>1, <2>3
      <3> QED BY <1>1, <1>4, <1>9, <3>1, KeyKept DEF Leaves
    <2> QED BY <2>2, <2>3
  \* Only the goroutine that acts can hand out a lease
  <1>10. ASSUME NEW p \in Procs, Acts(p), NEW h \in Handlers, ApplyLeased(h) PROVE h = p
    <2> SUFFICES ASSUME h # p PROVE FALSE OBVIOUS
    <2>1. pc[h] = "apply" /\ ev' = [ev EXCEPT ![h] = NoEvent] BY <1>10 DEF ApplyLeased
    <2>2. Still(h) BY <1>2, <1>10, OthersStill
    <2>3. ev[h] # NoEvent BY <1>2, <2>1 DEF ProcsOK, Appending
    <2> QED BY <1>2, <2>1, <2>2, <2>3 DEF Still
  <1>11. ASSUME NEW p \in Procs, Acts(p), ~(p \in Handlers /\ ApplyLeased(p))
         PROVE  Given' \subseteq Given
    BY <1>6, <1>10, <1>11
  <1>12. ASSUME NEW p \in Procs, Acts(p) PROVE KeyInv(k)'
    <2>1. CASE p \in Handlers /\ Client(p)
      <3>1. pc[p] = "idle" /\ UNCHANGED topic BY <2>1 DEF Client, Call, Submit, LeaseBatch,
            Heartbeat, Complete, Fail, log
      <3>2. ~Leasing(p, k) /\ ~Granting(p, k) BY <3>1 DEF Leasing, Granting, Appending
      <3>5. Given' \subseteq Given BY <1>11, <1>12, <3>1 DEF ApplyLeased
      <3>6. /\ execs'[k].attempt = execs[k].attempt /\ execs'[k].status = execs[k].status
            /\ execs'[k].reserved = execs[k].reserved
        <4>1. CASE \E l \in leases : Complete(p, l)
          <5>1. PICK l \in leases : execs' = [execs EXCEPT ![l.key].completing = TRUE]
            BY <4>1 DEF Complete
          <5> QED BY <1>2, <1>3, <5>1 DEF Execution
        <4>2. CASE ~ \E l \in leases : Complete(p, l)
          <5>1. UNCHANGED execs
            BY <2>1, <4>2 DEF Client, Submit, LeaseBatch, Heartbeat, Fail, store
          <5> QED BY <5>1
        <4> QED BY <4>1, <4>2
      <3>7. ~Leasing(p, k)' /\ ~Granting(p, k)'
        <4>1. CASE \E t \in TaskTypes, w \in Workers, max \in 1..MaxBatch :
                    LeaseBatch(p, t, w, max)
          <5>1. pc'[p] = "reserve" BY <1>2, <2>1, <4>1 DEF LeaseBatch
          <5> QED BY <5>1 DEF Leasing, Granting, Appending
        <4>2. CASE \E e : e.type # "leased" /\ StartAppend(p, e)
          <5>1. ev'[p].type # "leased" /\ pc'[p] = "publish"
            BY <1>2, <2>1, <4>2 DEF StartAppend
          <5> QED BY <5>1 DEF Leasing, Granting
        <4>3. ASSUME NEW j, NEW s, Submit(p, j, s)
              PROVE  \E e : e.type # "leased" /\ StartAppend(p, e)
          <5>1. SubmitEnvelope(j, s).type # "leased" BY DEF SubmitEnvelope, newEnvelope
          <5> QED BY <4>3, <5>1 DEF Submit
        <4>4. ASSUME NEW l, \/ Heartbeat(p, l) \/ Complete(p, l)
                            \/ \E r \in BOOLEAN : Fail(p, l, r)
              PROVE  \E e : e.type # "leased" /\ StartAppend(p, e)
          <5>1. \A t, j, a, w, at : newEnvelope(t, j, a, w, at).type = t BY DEF newEnvelope
          <5> QED BY <4>4, <5>1 DEF Heartbeat, Complete, Fail
        <4> QED BY <2>1, <4>1, <4>2, <4>3, <4>4 DEF Client
      <3>8. SameCall(p, k) BY <3>2, <3>7 DEF SameCall
      <3> QED BY <1>8, <1>12, <3>1, <3>5, <3>6, <3>8
    \* The lease loop
    <2>2. CASE p \in Handlers /\ ReserveNext(p)
      <3> DEFINE q == queues[lease[p].task]
                 n == FirstReservable(q)
      <3>1. /\ pc[p] = "reserve" /\ n <= Len(q)
            /\ execs' = [execs EXCEPT ![q[n]].reserved = TRUE]
            /\ lease' = [lease EXCEPT ![p].key = q[n]]
            /\ pc' = [pc EXCEPT ![p] = "grant"]
            /\ UNCHANGED topic
        BY <2>2 DEF ReserveNext, log
      <3>2. Given' \subseteq Given BY <1>11, <1>12, <3>1 DEF ApplyLeased
      <3>3. lease[p].task \in TaskTypes
        BY <2>2, <3>1 DEF TypeInv, ProcTyped, CallInv, InLeaseCall
      <3>4. q \in Seq(Keys) BY <3>3 DEF TypeInv, StoreTyped, StoreOK
      <3>5. /\ n \in 1..Len(q) /\ q[n] \in Keys /\ Reservable(q[n])
        <4>1. n \in 1..Len(q)+1 /\ Reservable(q[n]) BY <3>1, <3>4, FirstReservableIs
        <4>2. Len(q) \in Nat BY <3>4
        <4> HIDE DEF q, n
        <4>3. n \in 1..Len(q) BY <3>1, <4>1, <4>2
        <4> QED BY <3>4, <4>1, <4>3
      <3> HIDE DEF q, n
      <3>6. ~Leasing(p, k) /\ ~Granting(p, k) BY <3>1 DEF Leasing, Granting, Appending
      <3>7. /\ ~Leasing(p, k)' /\ pc'[p] = "grant" /\ lease'[p].key = q[n]
        BY <1>2, <2>2, <3>1, <3>5 DEF Leasing, Appending, LeaseCall
      <3>8. CASE k = q[n]
        <4>1. /\ execs'[k].attempt = execs[k].attempt /\ execs'[k].status = execs[k].status
              /\ execs'[k].reserved
          BY <1>2, <1>3, <3>1, <3>8 DEF Execution
        <4>2. execs[k].status = "pending" /\ ~execs[k].reserved
          BY <3>5, <3>8 DEF Reservable
        <4>3. Granting(p, k)' BY <3>7, <3>8 DEF Granting
        <4> QED BY <1>1, <1>5, <1>12, <2>2, <3>1, <3>2, <3>6, <3>7, <4>1, <4>2, <4>3, ReservedKey
      <3>9. CASE k # q[n]
        <4>1. execs'[k] = execs[k] BY <1>2, <3>1, <3>5, <3>9
        <4>2. SameCall(p, k) BY <3>6, <3>7, <3>9 DEF SameCall, Granting
        <4> QED BY <1>8, <1>12, <3>1, <3>2, <4>1, <4>2
      <3> QED BY <3>8, <3>9
    <2>3. CASE p \in Handlers /\ (ReserveNone(p) \/ WaitChan(p) \/ WaitEnds(p))
      <3>1. /\ pc[p] \in {"reserve", "nowork", "waiting"}
            /\ pc'[p] \in {"idle", "nowork", "waiting"} /\ UNCHANGED <<execs, topic>>
        BY <1>2, <2>3 DEF ReserveNone, WaitChan, WaitEnds, Return, store, log
      <3>2. Given' \subseteq Given BY <1>11, <1>12, <3>1 DEF ApplyLeased
      <3>3. SameCall(p, k) BY <3>1 DEF SameCall, Leasing, Granting, Appending
      <3> QED BY <1>8, <1>12, <3>1, <3>2, <3>3
    <2>4. CASE p \in Handlers /\ Grant(p)
      <3> DEFINE j == lease[p].key
                 e == newEnvelope("leased", j, execs[j].attempt + 1, lease[p].worker, now)
      <3>1. /\ pc[p] = "grant" /\ UNCHANGED <<execs, topic, lease>>
            /\ pc' = [pc EXCEPT ![p] = "publish"] /\ ev' = [ev EXCEPT ![p] = e]
        BY <2>4 DEF Grant, StartAppend, store, log
      <3>2. Given' \subseteq Given BY <1>11, <1>12, <3>1 DEF ApplyLeased
      <3>3. e.type = "leased" /\ e.key = j /\ e.attempt = execs[j].attempt + 1
        BY DEF newEnvelope
      <3> HIDE DEF e, j
      <3>4. pc'[p] = "publish" /\ ev'[p] = e BY <1>2, <2>4, <3>1
      <3>5. ~Leasing(p, k) /\ ~Granting(p, k)' BY <3>1, <3>4 DEF Leasing, Granting, Appending
      <3>6. CASE k = j
        <4>1. Granting(p, k) BY <3>1, <3>6 DEF Granting, j
        <4>2. Leasing(p, k)' BY <3>3, <3>4, <3>6 DEF Leasing, Appending
        <4> QED BY <1>1, <1>5, <1>12, <2>4, <3>1, <3>2, <3>3, <3>4, <3>5, <3>6, <4>1, <4>2,
                GrantedKey
      <3>7. CASE k # j
        <4>1. ~Leasing(p, k)' BY <3>3, <3>4, <3>7 DEF Leasing
        <4>2. ~Granting(p, k) BY <3>7 DEF Granting, j
        <4>3. SameCall(p, k) BY <3>5, <4>1, <4>2 DEF SameCall
        <4> QED BY <1>8, <1>12, <3>1, <3>2, <4>3
      <3> QED BY <3>6, <3>7
    \* Local folds
    <2>5. CASE p \in Handlers /\ ApplyLeased(p)
      <3>1. /\ pc[p] = "apply" /\ ev[p].type = "leased" /\ UNCHANGED topic /\ StoreApply(ev[p])
            /\ \/ pc' = PcAfterApply(ev[p], p, "idle")
               \/ pc' = PcAfterApply(ev[p], p, "reserve")
        BY <2>5 DEF ApplyLeased, log
      <3>2. Good(ev[p]) /\ ev[p].key \in Keys BY <3>1, Held DEF Appending
      <3>3. pc'[p] \in {"idle", "reserve"}
        <4>1. {"idle", "reserve"} \subseteq ControlPoints BY DEF ControlPoints
        <4> QED BY <1>2, <3>1, <4>1, PcApplied
      <3>4. ~Granting(p, k) /\ ~Granting(p, k)' /\ ~Leasing(p, k)'
        BY <3>1, <3>3 DEF Granting, Leasing, Appending
      <3>5. \A l \in Given' : l \in Given \/ l = LeaseOf(ev[p])
        BY <1>10, <1>12, GivenMoves
      <3>6. execs' = [execs EXCEPT ![ev[p].key] = FoldEvent(execs[ev[p].key], ev[p])]
        BY <3>1 DEF StoreApply
      <3>7. CASE k = ev[p].key
        <4>1. Leasing(p, k) BY <3>1, <3>7 DEF Leasing, Appending
        <4>2. GivesOut(p, k) BY <3>4, <3>5 DEF GivesOut
        <4>3. execs'[k] = FoldEvent(execs[k], ev[p]) BY <1>2, <3>6, <3>7
        <4>4. \A g \in Handlers : g # p => SameCall(g, k) BY <1>5, <1>12
        <4>5. CASE Counts(execs[k], ev[p], execs'[k])
          <5>1. Claims(p, k) BY <4>1, <4>5 DEF Claims, Counts
          <5> QED BY <1>1, <2>5, <3>1, <4>2, <4>4, <4>5, <5>1, CountedKey
        <4>6. CASE Leaves(execs[k], ev[p], execs'[k])
          BY <1>1, <2>5, <3>1, <4>1, <4>2, <4>4, <4>6, UncountedKey
        <4> QED BY <1>3, <3>2, <4>3, <4>5, <4>6, FoldCounts
      <3>8. CASE k # ev[p].key
        <4>1. execs'[k] = execs[k] BY <1>2, <3>6, <3>8
        <4>2. ~Leasing(p, k) BY <3>8 DEF Leasing
        <4>3. SameCall(p, k) BY <3>4, <4>2 DEF SameCall
        <4>4. \A h \in Handlers : SameCall(h, k) BY <1>5, <1>12, <4>3
        <4>5. \A l \in Given' : l.key = k => l \in Given BY <3>5, <3>8 DEF LeaseOf
        <4> QED BY <1>7, <3>1, <4>1, <4>4, <4>5
      <3> QED BY <3>7, <3>8
    <2>6. CASE (p \in Handlers /\ (ApplyCompleted(p) \/ ApplyFailed(p))) \/ ApplyAndReturn(p)
      <3>1. /\ pc[p] = "apply" /\ ev[p].type # "leased" /\ UNCHANGED topic
            /\ StoreApply(ev[p])
            /\ \/ pc' = PcAfterApply(ev[p], p, "idle") /\ ev' = [ev EXCEPT ![p] = NoEvent]
               \/ pc' = PcAfterApply(ev[p], p, "publish") /\ p \in Handlers
                  /\ ev[p].type = "failed" /\ ev' = [ev EXCEPT ![p] = then[p]]
        BY <2>6 DEF ApplyCompleted, ApplyFailed, ApplyAndReturn, log
      <3>2. Good(ev[p]) /\ ev[p].key \in Keys BY <3>1, Held DEF Appending
      <3>3. Given' \subseteq Given BY <1>11, <1>12, <3>1 DEF ApplyLeased
      <3>4. \/ pc'[p] = "idle"
            \/ pc'[p] = "publish" /\ ev'[p].type # "leased"
        <4>1. {"idle", "publish"} \subseteq ControlPoints BY DEF ControlPoints
        <4>2. pc' = PcAfterApply(ev[p], p, "idle") => pc'[p] = "idle"
          BY <1>2, <4>1, PcApplied
        <4>3. pc' = PcAfterApply(ev[p], p, "publish") => pc'[p] = "publish"
          BY <1>2, <4>1, PcApplied
        <4>4. p \in Handlers /\ ev[p].type = "failed" => then[p].type # "leased"
          BY <3>1 DEF TypeInv, ProcTyped, CallInv, Appending, Reclaims
        <4> QED BY <1>2, <3>1, <4>2, <4>3, <4>4
      <3>5. SameCall(p, k)
        BY <3>1, <3>4 DEF SameCall, Leasing, Granting, Appending
      <3>6. \A h \in Handlers : SameCall(h, k) BY <1>5, <1>12, <3>5
      <3>7. Leaves(execs[k], ev[p], FoldEvent(execs[k], ev[p]))
        BY <1>3, <3>1, <3>2, FoldCounts DEF Counts
      <3> QED BY <1>9, <3>1, <3>2, <3>3, <3>6, <3>7
    \* Failed publishes
    <2>7. CASE p \in Handlers /\ LeaseFails(p)
      <3> DEFINE j == ev[p].key
      <3>1. /\ ev[p].type = "leased" /\ pc[p] = "publish"
            /\ execs' = [execs EXCEPT ![j].reserved = FALSE]
            /\ pc' = [pc EXCEPT ![p] = "idle"] /\ UNCHANGED topic
        BY <2>7 DEF LeaseFails, PublishError, Return
      <3>2. j \in Keys BY <3>1, Held DEF Appending
      <3>3. Given' \subseteq Given BY <1>11, <1>12, <3>1 DEF ApplyLeased
      <3>4. pc'[p] = "idle" BY <1>2, <3>1
      <3>5. ~Granting(p, k) /\ ~Granting(p, k)' /\ ~Leasing(p, k)'
        BY <3>1, <3>4 DEF Granting, Leasing, Appending
      <3>6. CASE k = j
        <4>1. Leasing(p, k) BY <3>1, <3>6 DEF Leasing, Appending
        <4>2. /\ execs'[k].attempt = execs[k].attempt /\ execs'[k].status = execs[k].status
              /\ ~execs'[k].reserved
          BY <1>2, <1>3, <3>1, <3>6 DEF Execution
        <4>3. \A g \in Handlers : g # p => SameCall(g, k) BY <1>5, <1>12
        <4> QED BY <1>1, <2>7, <3>1, <3>3, <3>5, <4>1, <4>2, <4>3, UnreservedKey
      <3>7. CASE k # j
        <4>1. execs'[k] = execs[k] BY <1>2, <3>1, <3>7
        <4>2. SameCall(p, k) BY <3>5, <3>7 DEF SameCall, Leasing
        <4> QED BY <1>8, <1>12, <3>1, <3>3, <4>1, <4>2
      <3> QED BY <3>6, <3>7
    <2>8. CASE (p \in Handlers /\ CompleteFails(p)) \/ OtherFails(p)
      <3>1. /\ ev[p].type # "leased" /\ pc[p] = "publish"
            /\ pc' = [pc EXCEPT ![p] = "idle"] /\ UNCHANGED topic
            /\ UNCHANGED execs \/ execs' = [execs EXCEPT ![ev[p].key].completing = FALSE]
        BY <2>8 DEF CompleteFails, OtherFails, PublishError, Return, store
      <3>2. Given' \subseteq Given BY <1>11, <1>12, <3>1 DEF ApplyLeased
      <3>3. pc'[p] = "idle" BY <1>2, <3>1
      <3>4. SameCall(p, k) BY <3>1, <3>3 DEF SameCall, Leasing, Granting, Appending
      <3>5. /\ execs'[k].attempt = execs[k].attempt /\ execs'[k].status = execs[k].status
            /\ execs'[k].reserved = execs[k].reserved
        BY <1>2, <1>3, <3>1 DEF Execution
      <3> QED BY <1>8, <1>12, <3>1, <3>2, <3>4, <3>5
    \* The publish path
    <2>9. CASE WalAppend(p)
      <3>1. /\ pc[p] = "publish" /\ pc' = [pc EXCEPT ![p] = "deliver"]
            /\ UNCHANGED <<execs, topic, ev, lease>>
        BY <2>9 DEF WalAppend, store
      <3>2. Given' \subseteq Given BY <1>11, <1>12, <3>1 DEF ApplyLeased
      <3>3. SameCall(p, k) BY <1>2, <3>1 DEF SameCall, Leasing, Granting, Appending
      <3> QED BY <1>8, <1>12, <3>1, <3>2, <3>3
    <2>10. CASE PublishToPartition(p)
      <3>1. /\ pc[p] = "deliver" /\ pc' = [pc EXCEPT ![p] = "apply"]
            /\ UNCHANGED <<execs, ev, lease>>
            /\ topic' = [topic EXCEPT ![ev[p].key] = Append(@, ev[p])]
        BY <2>10 DEF PublishToPartition, store
      <3>2. Given' \subseteq Given BY <1>11, <1>12, <3>1 DEF ApplyLeased
      <3>3. ev[p].key \in Keys BY <3>1, Held DEF Appending
      <3>4. pc'[p] = "apply" BY <1>2, <3>1
      <3>5. topic \in [Keys -> Seq(Event)] BY DEF TypeInv, LogTyped, LogOK
      <3>6. ASSUME NEW i \in 1..Len(topic'[k])
            PROVE  \/ i \in 1..Len(topic[k]) /\ topic'[k][i] = topic[k][i]
                   \/ topic'[k][i] = ev[p] /\ k = ev[p].key
        <4>1. CASE k # ev[p].key BY <3>1, <3>5, <4>1
        <4>2. CASE k = ev[p].key
          <5>1. topic[k] \in Seq(Event) /\ topic'[k] = Append(topic[k], ev[p])
            BY <3>1, <3>5, <4>2
          <5>2. Len(topic'[k]) = Len(topic[k]) + 1 /\ Len(topic[k]) \in Nat BY <5>1
          <5> QED BY <4>2, <5>1, <5>2
        <4> QED BY <4>1, <4>2
      <3>7. CASE p \in Handlers /\ Leasing(p, k)
        <4>1. Leasing(p, k)' /\ ~Granting(p, k)'
          BY <3>1, <3>4, <3>7 DEF Leasing, Granting, Appending
        <4>2. \A g \in Handlers : g # p => SameCall(g, k) BY <1>5, <1>12
        <4> QED BY <1>1, <3>1, <3>2, <3>4, <3>6, <3>7, <4>1, <4>2, PublishedKey
      <3>8. CASE ~(p \in Handlers /\ Leasing(p, k))
        <4>1. p \in Handlers => SameCall(p, k)
          BY <3>1, <3>4, <3>8 DEF SameCall, Leasing, Granting, Appending
        <4>2. \A h \in Handlers : SameCall(h, k) BY <1>5, <1>12, <4>1
        <4>3. p \notin Handlers => ev[p].type # "leased"
          BY <3>1 DEF Procs, TypeInv, ProcTyped, EventInv, Reclaims, Appending
        <4>4. k = ev[p].key => ev[p].type # "leased"
          BY <3>1, <3>8, <4>3 DEF Leasing, Appending
        <4>5. \A i \in 1..Len(topic'[k]) : topic'[k][i].type = "leased" =>
                  \E j \in 1..Len(topic[k]) : topic[k][j] = topic'[k][i]
          BY <3>6, <4>4
        <4> QED BY <1>7, <3>1, <3>2, <4>2, <4>5
      <3> QED BY <3>7, <3>8
    <2>11. CASE p = Sweeper /\ Sweeps
      <3>1. UNCHANGED <<execs, topic>>
        BY <2>11 DEF Sweeps, SweepExpired, SweepNext, store, log
      <3>2. p \notin Handlers BY <2>11, WorkflowAssumption
      <3>3. Given' \subseteq Given BY <1>11, <1>12, <3>2
      <3> QED BY <1>8, <1>12, <3>1, <3>2, <3>3
    <2> QED
      BY <1>12, <2>1, <2>2, <2>3, <2>4, <2>5, <2>6, <2>7, <2>8, <2>9, <2>10, <2>11
      DEF Acts, HandlerActs, LeaseLoop, HandlerApply, Error, AppendStep
  \* The Poller
  <1>13. ASSUME NEW j \in Keys, Ingest(j) PROVE KeyInv(k)'
    <2> DEFINE e == topic[j][FetchOffset(j) + 1]
    <2>1. StoreApply(e) /\ UNCHANGED <<topic, lease, leases>>
      BY <1>13 DEF Ingest, client
    <2>2. /\ FetchOffset(j) + 1 \in 1..Len(topic[j]) /\ Good(e) /\ e.key = j
      BY <1>13, Fetched DEF Ingest
    <2>3. \A h \in Handlers : SameCall(h, k)
      BY <1>2, <1>13, AllStill, StillSame
    <2>4. Given' \subseteq Given BY <2>1 DEF Given
    <2>5. CASE k = j /\ Counts(execs[k], e, FoldEvent(execs[k], e))
      <3>1. /\ e.type = "leased" /\ e.attempt = execs[k].attempt + 1
            /\ execs[k].status = "pending"
        BY <2>5 DEF Counts
      <3>2. execs[k].attempt \in Nat BY Numbers
      <3>3. ~Terminal(execs[k]) BY <3>1 DEF Terminal
      <3>4. ~(e.attempt <= execs[k].attempt) BY <3>1, <3>2
      <3>5. PICK h \in Handlers : Claims(h, k) /\ pc[h] = "apply"
        BY <1>1, <2>2, <2>5, <3>1, <3>3, <3>4 DEF KeyInv, AttemptInv
      <3>6. execs' = [execs EXCEPT ![e.key] = FoldEvent(execs[e.key], e)]
        BY <2>1 DEF StoreApply
      <3> HIDE DEF e
      <3>7. execs'[k] = FoldEvent(execs[k], e) BY <1>2, <2>2, <2>5, <3>6
      <3> QED BY <1>1, <2>1, <2>3, <2>4, <2>5, <3>5, <3>7, CountedKey
    <2>6. CASE ~(k = j /\ Counts(execs[k], e, FoldEvent(execs[k], e)))
      <3> HIDE DEF e
      <3>1. e.key = k => Leaves(execs[k], e, FoldEvent(execs[k], e))
        BY <1>3, <2>2, <2>6, FoldCounts
      <3> QED BY <1>9, <2>1, <2>2, <2>3, <2>4, <3>1
    <2> QED BY <2>5, <2>6
  <1>14. CASE Tick \/ UNCHANGED vars
    <2>1. UNCHANGED <<execs, topic, lease, leases>>
      BY <1>14 DEF Tick, vars, store, log, procs, client
    <2>2. \A h \in Handlers : SameCall(h, k) BY <1>2, <1>14, AllStill, StillSame
    <2> QED BY <1>7, <2>1, <2>2 DEF Given
  <1> QED BY <1>12, <1>13, <1>14, StepCases

(* In the initial state nothing is claimed, published or given out. *)
LEMMA LeaseInit == Init => LeaseInv
  <1> SUFFICES ASSUME Init, NEW k \in Keys PROVE KeyInv(k)
    BY DEF LeaseInv
  <1>1. \A h \in Handlers : pc[h] = "idle" BY DEF Init, Procs
  <1>2. \A h \in Handlers : ~Leasing(h, k) /\ ~Granting(h, k) /\ ~Claims(h, k)
    BY <1>1 DEF Leasing, Granting, Claims, Appending
  <1>3. Given = {} BY DEF Init, Given, NoLease
  <1>4. /\ execs[k].status = "absent" /\ Len(topic[k]) = 0
    BY DEF Init, NoExecution
  <1>5. ClaimInv(k) BY <1>2, <1>4 DEF ClaimInv
  <1>6. AttemptInv(k) BY <1>2, <1>3, <1>4 DEF AttemptInv
  <1>7. UniqueInv(k) BY <1>2, <1>3 DEF UniqueInv
  <1> QED BY <1>5, <1>6, <1>7 DEF KeyInv

(* LeaseInv is inductive relative to the typing invariant: reservations,   *)
(* claims and attempts stay together through every interleaving of         *)
(* LeaseBatch calls, completions, sweep and Poller.                        *)
THEOREM ClaimsHold == Spec => []LeaseInv
  <1>1. TypeInv /\ TypeInv' /\ LeaseInv /\ [Next]_vars => LeaseInv' BY LeaseStep
  <1> QED BY <1>1, LeaseInit, TypingHolds, PTL DEF Spec

(* No two leases handed to workers carry the same attempt of the same      *)
(* execution, so the attempt number fences a zombie worker                 *)
(* (state.go:129-131), however many LeaseBatch calls, failed publishes and *)
(* expiries lie between them.                                              *)
THEOREM AttemptsAreUnique == Spec => []AttemptNamesOneWorker
  <1>1. TypeInv /\ LeaseInv => AttemptNamesOneWorker
    <2> SUFFICES ASSUME TypeInv, LeaseInv, NEW l \in leases, NEW m \in leases,
                        l.key = m.key, l.attempt = m.attempt
                 PROVE  l = m
      BY DEF AttemptNamesOneWorker
    <2>1. l \in Given /\ m \in Given /\ l.key \in Keys
      BY DEF Given, TypeInv, ClientOK, Lease
    <2> QED BY <2>1 DEF LeaseInv, KeyInv, UniqueInv
  <1> QED BY <1>1, ClaimsHold, TypingHolds, PTL

(* A pending execution that ReserveNext has parked is never orphaned: some *)
(* LeaseBatch call is between the reservation and its local Apply          *)
(* (store.go:128-164), publish errors included.                            *)
THEOREM ReservationsAreOwned == Spec => []ReservedHasOwner
  <1>1. TypeInv /\ LeaseInv => ReservedHasOwner
    <2> SUFFICES ASSUME TypeInv, LeaseInv, NEW k \in Keys,
                        execs[k].status = "pending", execs[k].reserved
                 PROVE  \E h \in Handlers : lease[h].key = k /\ (pc[h] = "grant" \/ Appending(h))
      BY DEF ReservedHasOwner
    <2>1. PICK h \in Handlers : Claims(h, k) BY DEF LeaseInv, KeyInv, ClaimInv
    <2>2. CASE Granting(h, k) BY <2>2 DEF Granting
    <2>3. CASE Leasing(h, k)
      BY <2>3 DEF Leasing, TypeInv, ProcTyped, CallInv
    <2> QED BY <2>1, <2>2, <2>3 DEF Claims
  <1> QED BY <1>1, ClaimsHold, TypingHolds, PTL

-----------------------------------------------------------------------------
(* The FIFO queues of the task types *)
Elems(s) == {s[i] : i \in 1..Len(s)}

NoDup(s) == \A i, j \in 1..Len(s) : s[i] = s[j] => i = j

(* PendingIsQueued, and what makes it inductive: a queue holds executions  *)
(* of its own task type only, waiting or gone on in the meantime.          *)
QueueInv ==
    /\ \A k \in Keys : Reservable(k) => k \in Elems(queues[execs[k].spec.task])
    /\ \A k \in Keys : queued[k] <=> \E t \in TaskTypes : k \in Elems(queues[t])
    /\ \A t \in TaskTypes : NoDup(queues[t])
    /\ \A t \in TaskTypes : \A k \in Elems(queues[t]) :
            execs[k].status # "absent" /\ execs[k].spec.task = t

(* Appending at either end of a queue *)
LEMMA Enqueued ==
    ASSUME NEW s \in Seq(Keys), NEW k \in Keys, k \notin Elems(s), NoDup(s),
           NEW r, r = Append(s, k) \/ r = <<k>> \o s
    PROVE  Elems(r) = Elems(s) \cup {k} /\ NoDup(r)
  <1>1. Len(s) \in Nat /\ \A i \in 1..Len(s) : s[i] # k /\ s[i] \in Keys BY DEF Elems
  <1>2. CASE r = Append(s, k)
    <2>1. Len(r) = Len(s) + 1 /\ r[Len(s) + 1] = k /\ \A i \in 1..Len(s) : r[i] = s[i]
      BY <1>2
    <2>2. \A i \in 1..Len(r) : i \in 1..Len(s) \/ i = Len(s) + 1 BY <1>1, <2>1
    <2>3. 1..Len(s) \subseteq 1..Len(r) /\ Len(s) + 1 \in 1..Len(r) BY <1>1, <2>1
    <2>4. Elems(r) = Elems(s) \cup {k} BY <2>1, <2>2, <2>3 DEF Elems
    <2>5. NoDup(r) BY <1>1, <2>1, <2>2 DEF NoDup
    <2> QED BY <2>4, <2>5
  <1>3. CASE r = <<k>> \o s
    <2>1. Len(r) = Len(s) + 1 /\ r[1] = k /\ \A i \in 2..Len(r) : r[i] = s[i-1]
      BY <1>1, <1>3
    <2>2. \A i \in 1..Len(r) : i = 1 \/ (i \in 2..Len(r) /\ i-1 \in 1..Len(s)) BY <1>1, <2>1
    <2>3. \A i \in 1..Len(s) : i+1 \in 2..Len(r) /\ r[i+1] = s[i]
      <3> SUFFICES ASSUME NEW i \in 1..Len(s) PROVE i+1 \in 2..Len(r) /\ r[i+1] = s[i]
        OBVIOUS
      <3>1. i+1 \in 2..Len(r) /\ (i+1)-1 = i BY <1>1, <2>1
      <3> QED BY <2>1, <3>1
    <2>4. 1 \in 1..Len(r) /\ 2..Len(r) \subseteq 1..Len(r) BY <1>1, <2>1
    <2>5. Elems(r) = Elems(s) \cup {k}
      <3>1. Elems(s) \cup {k} \subseteq Elems(r) BY <2>1, <2>3, <2>4 DEF Elems
      <3>2. \A i \in 1..Len(r) : r[i] = k \/ \E j \in 1..Len(s) : r[i] = s[j]
        <4> TAKE i \in 1..Len(r)
        <4>1. i = 1 \/ (r[i] = s[i-1] /\ i-1 \in 1..Len(s)) BY <2>1, <2>2
        <4> QED BY <2>1, <4>1
      <3>3. Elems(r) \subseteq Elems(s) \cup {k} BY <3>2 DEF Elems
      <3> QED BY <3>1, <3>3
    <2>6. NoDup(r)
      <3> SUFFICES ASSUME NEW i \in 1..Len(r), NEW j \in 1..Len(r), r[i] = r[j] PROVE i = j
        BY DEF NoDup
      <3>1. CASE i = 1 BY <1>1, <2>1, <2>2, <3>1
      <3>2. CASE j = 1 BY <1>1, <2>1, <2>2, <3>2
      <3>3. CASE i # 1 /\ j # 1
        <4>1. i-1 \in 1..Len(s) /\ j-1 \in 1..Len(s) /\ s[i-1] = s[j-1] BY <2>1, <2>2, <3>3
        <4>2. i-1 = j-1 BY <4>1 DEF NoDup
        <4> QED BY <4>2
      <3> QED BY <3>1, <3>2, <3>3
    <2> QED BY <2>5, <2>6
  <1> QED BY <1>2, <1>3

(* Popping the first n entries of a queue *)
LEMMA Dequeued ==
    ASSUME NEW s \in Seq(Keys), NoDup(s), NEW n \in 0..Len(s),
           NEW r, r = SubSeq(s, n+1, Len(s))
    PROVE  /\ Elems(r) = Elems(s) \ Popped(s, n) /\ NoDup(r)
           /\ Popped(s, n) = {s[m] : m \in 1..n}
  <1>1. Len(s) \in Nat /\ n \in Nat /\ n <= Len(s) OBVIOUS
  <1>2. Popped(s, n) = {s[m] : m \in 1..n} BY <1>1 DEF Popped
  <1>3. Len(r) = Len(s) - n /\ \A i \in 1..Len(s)-n : r[i] = s[n+i]
    BY <1>1
  <1>4. \A i \in 1..Len(r) : n+i \in 1..Len(s) /\ n+i \notin 1..n /\ r[i] = s[n+i]
    BY <1>1, <1>3
  <1>5. \A i \in 1..Len(s) : i \notin 1..n => i-n \in 1..Len(r) /\ r[i-n] = s[i]
    <2> SUFFICES ASSUME NEW i \in 1..Len(s), i \notin 1..n
                 PROVE  i-n \in 1..Len(r) /\ r[i-n] = s[i]
      OBVIOUS
    <2>1. i-n \in 1..Len(r) /\ n+(i-n) = i BY <1>1, <1>3
    <2> QED BY <1>4, <2>1
  <1>6. 1..n \subseteq 1..Len(s) BY <1>1
  <1>7. Elems(r) = Elems(s) \ Popped(s, n)
    <2>1. Elems(s) \ Popped(s, n) \subseteq Elems(r) BY <1>2, <1>5 DEF Elems
    <2>2. \A x \in Elems(r) : x \in Elems(s) \ Popped(s, n)
      <3> SUFFICES ASSUME NEW i \in 1..Len(r) PROVE r[i] \in Elems(s) \ Popped(s, n)
        BY DEF Elems
      <3>1. n+i \in 1..Len(s) /\ n+i \notin 1..n /\ r[i] = s[n+i] BY <1>4
      <3>2. \A m \in 1..n : s[m] # s[n+i] BY <1>6, <3>1 DEF NoDup
      <3> QED BY <1>2, <3>1, <3>2 DEF Elems
    <2> QED BY <2>1, <2>2
  <1>8. NoDup(r)
    <2> SUFFICES ASSUME NEW i \in 1..Len(r), NEW j \in 1..Len(r), r[i] = r[j] PROVE i = j
      BY DEF NoDup
    <2>1. n+i = n+j BY <1>4 DEF NoDup
    <2> QED BY <1>1, <1>3, <2>1
  <1> QED BY <1>2, <1>7, <1>8

(* The fold keeps the task type of an execution, and the execution. *)
LEMMA FoldSpec ==
    ASSUME NEW x, Known(x), x.status # "absent", NEW e, Good(e)
    PROVE  FoldEvent(x, e).status # "absent" /\ FoldEvent(x, e).spec = x.spec
  <1> DEFINE y == FoldEvent(x, e)
  <1>1. FoldStep(x, e, y) /\ x \in Execution BY FoldCases DEF Known
  <1> HIDE DEF y
  <1>2. y.status # "absent" /\ y.spec = x.spec
    BY <1>1 DEF FoldStep, ApplyLease, ApplyComplete, Execution
  <1> QED BY <1>2 DEF y

(* A step that does not touch queues, statuses, specs and reservations *)
LEMMA QueueKept ==
    ASSUME QueueInv, UNCHANGED <<queues, queued>>,
           \A k \in Keys : /\ execs'[k].status = execs[k].status
                           /\ execs'[k].spec = execs[k].spec
                           /\ execs'[k].reserved = execs[k].reserved,
           queues \in [TaskTypes -> Seq(Keys)]
    PROVE  QueueInv'
  <1>1. \A t \in TaskTypes : Elems(queues[t]) \subseteq Keys BY DEF Elems
  <1>2. \A k \in Keys : Reservable(k)' <=> Reservable(k) BY DEF Reservable
  <1> QED BY <1>1, <1>2 DEF QueueInv

(* reconcileQueueLocked: an execution that becomes pending is enqueued     *)
(* unless its entry is still in the queue.                                 *)
LEMMA QueueApplied ==
    ASSUME TypeInv, QueueInv, NEW e, Good(e), StoreApply(e)
    PROVE  QueueInv'
  <1> DEFINE k == e.key
             x == execs[k]
             y == FoldEvent(x, e)
             t == y.spec.task
  <1>1. k \in Keys BY DEF Good, Event
  <1>2. /\ execs \in [Keys -> Execution] /\ queues \in [TaskTypes -> Seq(Keys)]
        /\ queued \in [Keys -> BOOLEAN]
    BY DEF TypeInv, StoreTyped, StoreOK
  <1>3. Known(x) BY <1>1 DEF TypeInv, StoreTyped, ExecInv
  <1>4. Known(y) BY <1>3, FoldKnown
  <1>5. x.status # "absent" => y.status # "absent" /\ y.spec = x.spec
    BY <1>3, FoldSpec
  <1>6. execs' = [execs EXCEPT ![k] = y] BY DEF StoreApply
  <1>7. ~Changes(x, e) => y = x BY DEF FoldEvent
  <1>8. \A u \in TaskTypes : Elems(queues[u]) \subseteq Keys BY <1>2 DEF Elems
  <1>9. Enqueues(e) <=> Changes(x, e) /\ y.status = "pending" /\ ~queued[k] /\ ~y.reserved
    BY DEF Enqueues
  <1>10. /\ queues' = IF Enqueues(e) THEN [queues EXCEPT ![t] = Append(@, k)] ELSE queues
         /\ queued' = IF Enqueues(e) THEN [queued EXCEPT ![k] = TRUE] ELSE queued
    BY DEF StoreApply
  <1> HIDE DEF k, y
  <1>11. execs'[k] = y /\ \A j \in Keys : j # k => execs'[j] = execs[j] BY <1>1, <1>2, <1>6
  <1>12. \A j \in Keys : j # k => (Reservable(j)' <=> Reservable(j))
    BY <1>11 DEF Reservable
  <1>13. \A u \in TaskTypes : \A j \in Elems(queues[u]) :
            execs'[j].status # "absent" /\ execs'[j].spec.task = u
    BY <1>5, <1>8, <1>11 DEF QueueInv
  <1>14. CASE Enqueues(e)
    <2>1. y.status = "pending" /\ ~queued[k] BY <1>9, <1>14
    <2>2. t \in TaskTypes BY <1>4, <2>1, FoldAssumption DEF Known
    <2> HIDE DEF t
    <2>3. \A u \in TaskTypes : k \notin Elems(queues[u]) BY <1>1, <2>1 DEF QueueInv
    <2>4. queues'[t] = Append(queues[t], k) /\ \A u \in TaskTypes \ {t} : queues'[u] = queues[u]
      BY <1>2, <1>10, <1>14, <2>2
    <2>5. queued'[k] /\ \A j \in Keys : j # k => (queued'[j] <=> queued[j])
      BY <1>1, <1>2, <1>10, <1>14, Zenon
    <2>6. Elems(queues'[t]) = Elems(queues[t]) \cup {k} /\ NoDup(queues'[t])
      <3>1. NoDup(queues[t]) /\ k \notin Elems(queues[t]) /\ queues[t] \in Seq(Keys)
        BY <1>2, <2>2, <2>3 DEF QueueInv
      <3> QED BY <1>1, <2>4, <3>1, Enqueued
    <2>7. \A j \in Keys : Reservable(j)' => j \in Elems(queues'[execs'[j].spec.task])
      <3> SUFFICES ASSUME NEW j \in Keys, Reservable(j)'
                   PROVE  j \in Elems(queues'[execs'[j].spec.task])
        OBVIOUS
      <3>1. CASE j = k BY <1>11, <2>6, <3>1 DEF t
      <3>2. CASE j # k
        <4>1. execs'[j] = execs[j] /\ j \in Elems(queues[execs[j].spec.task]) /\ Reservable(j)
          BY <1>11, <1>12, <3>2 DEF QueueInv
        <4>2. execs[j].spec.task \in TaskTypes
          BY <4>1, FoldAssumption DEF Reservable, TypeInv, StoreTyped, ExecInv, Known
        <4> QED BY <2>4, <2>6, <4>1, <4>2
      <3> QED BY <3>1, <3>2
    <2>8. \A j \in Keys : queued'[j] <=> \E u \in TaskTypes : j \in Elems(queues'[u])
      <3>1. \A j \in Keys : j # k => \A u \in TaskTypes :
                j \in Elems(queues'[u]) <=> j \in Elems(queues[u])
        BY <2>4, <2>6
      <3> QED BY <2>2, <2>5, <2>6, <3>1 DEF QueueInv
    <2>9. \A u \in TaskTypes : NoDup(queues'[u]) BY <2>4, <2>6 DEF QueueInv
    <2>10. \A u \in TaskTypes : \A j \in Elems(queues'[u]) :
              execs'[j].status # "absent" /\ execs'[j].spec.task = u
      <3>1. execs'[k].status # "absent" /\ execs'[k].spec.task = t
        BY <1>11, <2>1 DEF t
      <3> SUFFICES ASSUME NEW u \in TaskTypes, NEW j \in Elems(queues'[u])
                   PROVE  execs'[j].status # "absent" /\ execs'[j].spec.task = u
        OBVIOUS
      <3>2. CASE j = k
        <4>1. u = t BY <2>3, <2>4, <3>2
        <4> QED BY <3>1, <3>2, <4>1
      <3>3. CASE j # k
        <4>1. j \in Elems(queues[u]) BY <2>4, <2>6, <3>3
        <4> QED BY <1>13, <4>1
      <3> QED BY <3>2, <3>3
    <2> QED BY <2>7, <2>8, <2>9, <2>10 DEF QueueInv
  <1>15. CASE ~Enqueues(e)
    <2>1. UNCHANGED <<queues, queued>> BY <1>10, <1>15
    <2>2. Reservable(k)' => k \in Elems(queues'[execs'[k].spec.task])
      <3>1. CASE Reservable(k)' /\ ~Changes(x, e)
        BY <1>1, <1>7, <1>11, <2>1, <3>1 DEF QueueInv, Reservable
      <3>2. CASE Reservable(k)' /\ Changes(x, e)
        <4>1. queued[k] BY <1>9, <1>11, <1>15, <3>2 DEF Reservable
        <4>2. PICK u \in TaskTypes : k \in Elems(queues[u]) BY <1>1, <4>1 DEF QueueInv
        <4>3. execs'[k].spec.task = u BY <1>13, <4>2
        <4> QED BY <2>1, <4>2, <4>3
      <3> QED BY <3>1, <3>2
    <2>3. \A j \in Keys : Reservable(j)' => j \in Elems(queues'[execs'[j].spec.task])
      BY <1>11, <1>12, <2>1, <2>2 DEF QueueInv
    <2> QED BY <1>13, <2>1, <2>3 DEF QueueInv
  <1> QED BY <1>14, <1>15

(* ReserveNext drops the entries before the first runnable one and parks   *)
(* that one, so nothing runnable loses its entry.                          *)
LEMMA QueuePopped ==
    ASSUME TypeInv, QueueInv, NEW t \in TaskTypes, NEW n \in 0..Len(queues[t]),
           PopQueue(t, n),
           \A k \in Keys : /\ execs'[k].status = execs[k].status
                           /\ execs'[k].spec = execs[k].spec
                           /\ execs[k].reserved => execs'[k].reserved,
           \A k \in Keys : (\E m \in 1..n : queues[t][m] = k) => ~Reservable(k)'
    PROVE  QueueInv'
  <1> DEFINE P == Popped(queues[t], n)
  <1>1. queues \in [TaskTypes -> Seq(Keys)] /\ queued \in [Keys -> BOOLEAN]
    BY DEF TypeInv, StoreTyped, StoreOK
  <1>2. /\ queues'[t] = SubSeq(queues[t], n+1, Len(queues[t]))
        /\ \A u \in TaskTypes \ {t} : queues'[u] = queues[u]
    BY <1>1 DEF PopQueue
  <1>3. \A k \in Keys : queued'[k] <=> queued[k] /\ k \notin P
    BY Zenon DEF PopQueue
  <1>4. NoDup(queues[t]) BY DEF QueueInv
  <1>5. Elems(queues'[t]) = Elems(queues[t]) \ P /\ NoDup(queues'[t])
        /\ P = {queues[t][m] : m \in 1..n}
    BY <1>1, <1>2, <1>4, Dequeued
  <1> HIDE DEF P
  <1>6. \A k \in Keys : k \in P => ~Reservable(k)' BY <1>5
  <1>7. \A k \in Keys : Reservable(k)' => Reservable(k) BY DEF Reservable
  <1>8. \A u \in TaskTypes : Elems(queues'[u]) \subseteq Elems(queues[u]) BY <1>2, <1>5
  <1>9. \A u \in TaskTypes : Elems(queues[u]) \subseteq Keys BY <1>1 DEF Elems
  <1>10. ASSUME NEW k \in Keys, Reservable(k)'
         PROVE  k \in Elems(queues'[execs'[k].spec.task])
    <2>1. k \in Elems(queues[execs[k].spec.task]) /\ k \notin P
      BY <1>6, <1>7, <1>10 DEF QueueInv
    <2>2. execs[k].spec.task \in TaskTypes
      BY <1>7, <1>10, FoldAssumption DEF Reservable, TypeInv, StoreTyped, ExecInv, Known
    <2> QED BY <1>2, <1>5, <2>1, <2>2
  <1>11. \A k \in Keys : queued'[k] <=> \E u \in TaskTypes : k \in Elems(queues'[u])
    <2>1. \A u \in TaskTypes : \A k \in P : k \in Elems(queues[u]) => u = t
      <3>1. P \subseteq Elems(queues[t])
        <4>1. 1..n \subseteq 1..Len(queues[t]) BY <1>1
        <4> QED BY <1>5, <4>1 DEF Elems
      <3> QED BY <3>1 DEF QueueInv
    <2>2. \A k \in Keys : k \in P => \A u \in TaskTypes : k \notin Elems(queues'[u])
      BY <1>2, <1>5, <2>1
    <2>3. \A k \in Keys : k \notin P => \A u \in TaskTypes :
                k \in Elems(queues'[u]) <=> k \in Elems(queues[u])
      BY <1>2, <1>5
    <2> QED BY <1>3, <2>2, <2>3 DEF QueueInv
  <1>12. \A u \in TaskTypes : NoDup(queues'[u]) BY <1>2, <1>5 DEF QueueInv
  <1>13. \A u \in TaskTypes : \A k \in Elems(queues'[u]) :
            execs'[k].status # "absent" /\ execs'[k].spec.task = u
    BY <1>8, <1>9 DEF QueueInv
  <1> QED BY <1>10, <1>11, <1>12, <1>13 DEF QueueInv

(* Unreserve puts a runnable execution without an entry back in front. *)
LEMMA QueueUnreserved ==
    ASSUME TypeInv, QueueInv, NEW h \in Handlers, LeaseFails(h)
    PROVE  QueueInv'
  <1>1. h \in Procs /\ Appending(h)
    BY DEF LeaseFails, PublishError, Appending, Procs
  <1>2. PICK k \in Keys : k = ev[h].key BY <1>1, Held
  <1> DEFINE x == execs[k]
             t == x.spec.task
             requeue == x.reserved /\ x.status = "pending" /\ ~queued[k]
  <1>3. /\ execs \in [Keys -> Execution] /\ queues \in [TaskTypes -> Seq(Keys)]
        /\ queued \in [Keys -> BOOLEAN]
    BY DEF TypeInv, StoreTyped, StoreOK
  <1>4. /\ execs' = [execs EXCEPT ![k].reserved = FALSE]
        /\ queues' = IF requeue THEN [queues EXCEPT ![t] = <<k>> \o @] ELSE queues
        /\ queued' = [queued EXCEPT ![k] = @ \/ requeue]
    BY <1>2 DEF LeaseFails
  <1>5. \A j \in Keys : /\ execs'[j].status = execs[j].status
                        /\ execs'[j].spec = execs[j].spec
                        /\ j # k => execs'[j] = execs[j]
    BY <1>2, <1>3, <1>4 DEF Execution
  <1>6. \A u \in TaskTypes : Elems(queues[u]) \subseteq Keys BY <1>3 DEF Elems
  <1>7. \A u \in TaskTypes : \A j \in Elems(queues[u]) :
            execs'[j].status # "absent" /\ execs'[j].spec.task = u
    BY <1>5, <1>6 DEF QueueInv
  <1>8. \A j \in Keys : j # k => (Reservable(j)' <=> Reservable(j))
    BY <1>5 DEF Reservable
  <1>9. Reservable(k)' => x.status = "pending" BY <1>2, <1>5 DEF Reservable
  <1>10. queued'[k] <=> queued[k] \/ requeue BY <1>2, <1>3, <1>4, Zenon
  <1>11. \A j \in Keys : j # k => (queued'[j] <=> queued[j]) BY <1>3, <1>4, Zenon
  <1>12. CASE requeue
    <2>1. t \in TaskTypes
      BY <1>2, <1>12, FoldAssumption DEF TypeInv, StoreTyped, ExecInv, Known
    <2>2. \A u \in TaskTypes : k \notin Elems(queues[u]) BY <1>2, <1>12 DEF QueueInv
    <2>3. queues'[t] = <<k>> \o queues[t] /\ \A u \in TaskTypes \ {t} : queues'[u] = queues[u]
      BY <1>3, <1>4, <1>12, <2>1
    <2>4. execs'[k].status # "absent" /\ execs'[k].spec.task = t
      BY <1>2, <1>5, <1>12
    <2> HIDE DEF t, requeue
    <2>5. Elems(queues'[t]) = Elems(queues[t]) \cup {k} /\ NoDup(queues'[t])
      <3>1. NoDup(queues[t]) /\ k \notin Elems(queues[t]) /\ queues[t] \in Seq(Keys)
        BY <1>3, <2>1, <2>2 DEF QueueInv
      <3> QED BY <2>3, <3>1, Enqueued
    <2>6. \A j \in Keys : Reservable(j)' => j \in Elems(queues'[execs'[j].spec.task])
      <3> SUFFICES ASSUME NEW j \in Keys, Reservable(j)'
                   PROVE  j \in Elems(queues'[execs'[j].spec.task])
        OBVIOUS
      <3>1. CASE j = k BY <2>4, <2>5, <3>1
      <3>2. CASE j # k
        <4>1. execs'[j] = execs[j] /\ j \in Elems(queues[execs[j].spec.task]) /\ Reservable(j)
          BY <1>5, <1>8, <3>2 DEF QueueInv
        <4>2. execs[j].spec.task \in TaskTypes
          BY <4>1, FoldAssumption DEF Reservable, TypeInv, StoreTyped, ExecInv, Known
        <4> QED BY <2>3, <2>5, <4>1, <4>2
      <3> QED BY <3>1, <3>2
    <2>7. \A j \in Keys : queued'[j] <=> \E u \in TaskTypes : j \in Elems(queues'[u])
      <3>1. \A j \in Keys : j # k => \A u \in TaskTypes :
                j \in Elems(queues'[u]) <=> j \in Elems(queues[u])
        BY <2>3, <2>5
      <3>2. queued'[k] BY <1>10, <1>12
      <3> QED BY <1>11, <2>1, <2>5, <3>1, <3>2 DEF QueueInv
    <2>8. \A u \in TaskTypes : NoDup(queues'[u]) BY <2>3, <2>5 DEF QueueInv
    <2>9. \A u \in TaskTypes : \A j \in Elems(queues'[u]) :
              execs'[j].status # "absent" /\ execs'[j].spec.task = u
      <3> SUFFICES ASSUME NEW u \in TaskTypes, NEW j \in Elems(queues'[u])
                   PROVE  execs'[j].status # "absent" /\ execs'[j].spec.task = u
        OBVIOUS
      <3>2. CASE j = k
        <4>1. u = t BY <2>2, <2>3, <3>2
        <4> QED BY <2>4, <3>2, <4>1
      <3>3. CASE j # k
        <4>1. j \in Elems(queues[u]) BY <2>3, <2>5, <3>3
        <4> QED BY <1>7, <4>1
      <3> QED BY <3>2, <3>3
    <2> QED BY <2>6, <2>7, <2>8, <2>9 DEF QueueInv
  <1>13. CASE ~requeue
    <2>1. UNCHANGED queues BY <1>4, <1>13
    <2>2. \A j \in Keys : queued'[j] <=> queued[j] BY <1>10, <1>11, <1>13
    <2>3. Reservable(k)' => k \in Elems(queues'[execs'[k].spec.task])
      <3> SUFFICES ASSUME Reservable(k)' PROVE k \in Elems(queues'[execs'[k].spec.task])
        OBVIOUS
      <3>1. CASE queued[k]
        <4>1. PICK u \in TaskTypes : k \in Elems(queues[u]) BY <1>2, <3>1 DEF QueueInv
        <4> QED BY <1>7, <2>1, <4>1
      <3>2. CASE ~queued[k]
        <4>1. Reservable(k) BY <1>9, <1>13, <3>2 DEF Reservable
        <4> QED BY <1>2, <1>5, <2>1, <4>1 DEF QueueInv
      <3> QED BY <3>1, <3>2
    <2>4. \A j \in Keys : Reservable(j)' => j \in Elems(queues'[execs'[j].spec.task])
      BY <1>5, <1>8, <2>1, <2>3 DEF QueueInv
    <2> QED BY <1>7, <2>1, <2>2, <2>4 DEF QueueInv
  <1> QED BY <1>12, <1>13

(* Every step keeps the queues in order. *)
LEMMA QueueStep ==
    ASSUME TypeInv, QueueInv, [Next]_vars
    PROVE  QueueInv'
  <1>1. /\ execs \in [Keys -> Execution] /\ queues \in [TaskTypes -> Seq(Keys)]
    BY DEF TypeInv, StoreTyped, StoreOK
  <1>2. ASSUME UNCHANGED <<execs, queues, queued>> PROVE QueueInv'
    BY <1>1, <1>2, QueueKept
  <1>3. ASSUME NEW j, NEW b \in BOOLEAN, execs' = [execs EXCEPT ![j].completing = b],
               UNCHANGED <<queues, queued>>
        PROVE  QueueInv'
    <2>1. \A k \in Keys : /\ execs'[k].status = execs[k].status
                          /\ execs'[k].spec = execs[k].spec
                          /\ execs'[k].reserved = execs[k].reserved
      BY <1>1, <1>3 DEF Execution
    <2> QED BY <1>1, <1>3, <2>1, QueueKept
  <1>4. ASSUME NEW h \in Handlers, ReserveNext(h) \/ ReserveNone(h) PROVE QueueInv'
    <2>1. PICK t \in TaskTypes : t = lease[h].task
      BY <1>4 DEF ReserveNext, ReserveNone, TypeInv, ProcTyped, CallInv, InLeaseCall
    <2>2. queues[t] \in Seq(Keys) /\ Len(queues[t]) \in Nat BY <1>1
    <2>3. PICK n \in Nat : n = FirstReservable(queues[t]) BY <2>2, FirstReservableIs
    <2>4. /\ n \in 1..Len(queues[t])+1
          /\ n <= Len(queues[t]) => Reservable(queues[t][n])
          /\ \A m \in 1..n-1 : ~Reservable(queues[t][m])
      BY <2>2, <2>3, FirstReservableIs
    <2>5. CASE ReserveNext(h)
      <3>1. /\ n <= Len(queues[t]) /\ PopQueue(t, n)
            /\ execs' = [execs EXCEPT ![queues[t][n]].reserved = TRUE]
        BY <2>1, <2>3, <2>5 DEF ReserveNext
      <3>2. n \in 1..Len(queues[t]) BY <2>2, <2>4, <3>1
      <3>3. queues[t][n] \in Keys BY <2>2, <3>2
      <3>4. \A k \in Keys : /\ execs'[k].status = execs[k].status
                            /\ execs'[k].spec = execs[k].spec
                            /\ execs[k].reserved => execs'[k].reserved
        BY <1>1, <3>1 DEF Execution
      <3>5. execs'[queues[t][n]].reserved BY <1>1, <3>1, <3>3 DEF Execution
      <3>6. ASSUME NEW k \in Keys, NEW m \in 1..n, queues[t][m] = k PROVE ~Reservable(k)'
        <4>1. CASE m = n BY <3>5, <3>6, <4>1 DEF Reservable
        <4>2. CASE m # n
          <5>1. m \in 1..n-1 BY <4>2
          <5> QED BY <2>4, <3>4, <3>6, <5>1 DEF Reservable
        <4> QED BY <4>1, <4>2
      <3> QED BY <2>2, <3>1, <3>2, <3>4, <3>6, QueuePopped
    <2>6. CASE ReserveNone(h)
      <3>1. n > Len(queues[t]) /\ PopQueue(t, Len(queues[t])) /\ UNCHANGED execs
        BY <2>1, <2>3, <2>6 DEF ReserveNone
      <3>2. n-1 = Len(queues[t]) BY <2>2, <2>4, <3>1
      <3>3. \A k \in Keys : Reservable(k)' <=> Reservable(k) BY <3>1 DEF Reservable
      <3>4. \A k \in Keys : (\E m \in 1..Len(queues[t]) : queues[t][m] = k) => ~Reservable(k)'
        BY <2>4, <3>2, <3>3
      <3> QED BY <2>2, <3>1, <3>4, QueuePopped
    <2> QED BY <1>4, <2>5, <2>6
  <1>5. ASSUME NEW p \in Procs, Acts(p) PROVE QueueInv'
    <2>1. CASE p \in Handlers /\ Client(p)
      <3>1. CASE \E l \in leases : Complete(p, l)
        BY <1>3, <3>1 DEF Complete
      <3>2. CASE ~ \E l \in leases : Complete(p, l)
        BY <1>2, <2>1, <3>2 DEF Client, Submit, LeaseBatch, Heartbeat, Fail, store
      <3> QED BY <3>1, <3>2
    <2>2. CASE p \in Handlers /\ (ReserveNext(p) \/ ReserveNone(p)) BY <1>4, <2>2
    <2>3. CASE p \in Handlers /\ LeaseFails(p) BY <2>3, QueueUnreserved
    <2>4. CASE p \in Handlers /\ CompleteFails(p) BY <1>3, <2>4 DEF CompleteFails
    <2>5. CASE \/ p \in Handlers /\ (WaitChan(p) \/ Grant(p) \/ WaitEnds(p))
               \/ WalAppend(p) \/ PublishToPartition(p) \/ OtherFails(p) \/ Sweeps
      <3>1. UNCHANGED <<execs, queues, queued>>
        BY <2>5 DEF WaitChan, Grant, WaitEnds, WalAppend, PublishToPartition, OtherFails,
                    Sweeps, SweepExpired, SweepNext, store
      <3> QED BY <1>2, <3>1
    <2>6. CASE (p \in Handlers /\ HandlerApply(p)) \/ ApplyAndReturn(p)
      <3>1. pc[p] = "apply" /\ StoreApply(ev[p])
        BY <2>6 DEF HandlerApply, ApplyCompleted, ApplyFailed, ApplyLeased, ApplyAndReturn
      <3>2. PICK e : Good(e) /\ e = ev[p] BY <3>1, Held DEF Appending
      <3> QED BY <3>1, <3>2, QueueApplied
    <2> QED BY <1>5, <2>1, <2>2, <2>3, <2>4, <2>5, <2>6
        DEF Acts, HandlerActs, LeaseLoop, Error, AppendStep
  <1>6. ASSUME NEW j \in Keys, Ingest(j) PROVE QueueInv'
    <2>1. PICK e : e = topic[j][FetchOffset(j) + 1] OBVIOUS
    <2>2. Good(e) /\ StoreApply(e) BY <1>6, <2>1, Fetched DEF Ingest
    <2> QED BY <2>2, QueueApplied
  <1>7. CASE Tick \/ UNCHANGED vars
    BY <1>2, <1>7 DEF Tick, vars, store
  <1> QED BY <1>5, <1>6, <1>7, StepCases

(* No execution is lost to the scheduler (store.go:114-149): whatever      *)
(* handlers, sweep and Poller fold, and however often lazily compacted     *)
(* queues are popped and refilled, a pending execution that nobody has     *)
(* parked is in its task type's queue, exactly once.                       *)
THEOREM PendingStaysQueued == Spec => []PendingIsQueued
  <1>1. Init => QueueInv
    BY DEF Init, QueueInv, Reservable, NoExecution, Elems, NoDup
  <1>2. TypeInv /\ QueueInv /\ [Next]_vars => QueueInv' BY QueueStep
  <1>3. QueueInv => PendingIsQueued BY DEF QueueInv, PendingIsQueued, Elems, NoDup
  <1> QED BY <1>1, <1>2, <1>3, TypingHolds, PTL DEF Spec
-----------------------------------------------------------------------------
(***************************************************************************)
(* Restarts.  What a crash leaves is the log; what the scheduler, the      *)
(* indexes and the log promise holds again as soon as the new process has  *)
(* its empty store, while the poller is still rebuilding it.               *)
(***************************************************************************)

(* A step of the runtime with restarts is one of the runtime or a restart. *)
LEMMA RestartCases ==
    ASSUME [RestartNext]_allvars
    PROVE  [Next]_vars \/ Restart
  BY DEF RestartNext, allvars

(* A new process keeps the types, *)
LEMMA RestartTyped ==
    ASSUME TypeInv, Restart PROVE TypeInv'
  <1>1. NoExecution \in Execution /\ Known(NoExecution)
    BY DEF NoExecution, Execution, Known, Status
  <1>2. StoreTyped'
    BY <1>1 DEF Restart, FreshProcess, StoreTyped, StoreOK, ExecInv
  <1>3. LogTyped'
    BY DEF Restart, FreshProcess, TypeInv, LogTyped, LogOK, FiledInv, Filed
  <1>4. NoLease \in LeaseCall BY DEF NoLease, LeaseCall
  <1>5. ProcTyped'
    BY <1>4 DEF Restart, FreshProcess, ProcTyped, ProcsOK, EventInv, CallInv,
                ControlPoints, Appending, Procs
  <1>6. ClientOK' BY ClientFrame DEF Restart, FreshProcess, TypeInv
  <1> QED BY <1>2, <1>3, <1>5, <1>6 DEF TypeInv

(* has empty queues and nothing to queue, *)
LEMMA RestartQueues ==
    ASSUME Restart PROVE QueueInv'
  BY DEF Restart, FreshProcess, QueueInv, Reservable, NoExecution, Elems, NoDup

(* counts nothing and has nothing to count, *)
LEMMA RestartIndexes ==
    ASSUME Restart PROVE IndexInv'
  <1>1. \A s \in Status : InStatus(s)' = {}
    BY DEF Restart, FreshProcess, InStatus, Status, NoExecution
  <1>2. "running" \in Status BY DEF Status
  <1> QED BY <1>1, <1>2, FS_EmptySet DEF Restart, FreshProcess, IndexInv

(* and has nothing but what it replayed from the file, which also backs    *)
(* the leases and answers that clients still hold.                         *)
LEMMA RestartBacked ==
    ASSUME TypeInv, LogInv, Restart PROVE LogInv'
  <1>1. UNCHANGED <<wal, leases, accepted>> /\ topic' = wal
    BY DEF Restart, FreshProcess, client
  <1>2. Given' = leases BY DEF Restart, FreshProcess, Given, NoLease, client
  <1>3. \A t, k, a, w : InLog(t, k, a, w)' <=> InLog(t, k, a, w) BY <1>1 DEF InLog
  <1>4. \A l \in Given' : InLog("leased", l.key, l.attempt, l.worker)'
    BY <1>2, <1>3 DEF LogInv, Given
  <1>5. (\A k \in Keys : \A i \in 1..Len(topic[k]) : InWal(topic[k][i]))'
    <2> SUFFICES ASSUME NEW k \in Keys, NEW i \in 1..Len(topic'[k])
                 PROVE  InWal(topic[k][i])'
      OBVIOUS
    <2>1. wal' = wal /\ topic'[k] = wal[k] BY <1>1
    <2>2. wal[k][i].key = k BY <2>1 DEF TypeInv, LogTyped, FiledInv, Filed
    <2> QED BY <2>1, <2>2 DEF InWal
  <1>6. \A p \in Procs : pc'[p] = "idle" BY DEF Restart, FreshProcess
  <1>7. \A k \in Keys : execs'[k].status = "absent"
    BY DEF Restart, FreshProcess, NoExecution
  <1>8. StateBackedByLog'
    BY <1>1, <1>3, <1>7 DEF LogInv, StateBackedByLog
  <1> QED BY <1>4, <1>5, <1>6, <1>8 DEF LogInv

(* The typing invariant holds across any number of restarts. *)
THEOREM RestartTyping == RestartSpec => []TypeInv
  <1>1. RestartInit => TypeInv BY TypeInit DEF RestartInit
  <1>2. TypeInv /\ [RestartNext]_allvars => TypeInv'
    BY RestartCases, TypeStep, RestartTyped
  <1> QED BY <1>1, <1>2, PTL DEF RestartSpec

(* No execution is lost to the scheduler, a crash anywhere between the     *)
(* appends and calls that arrive while the poller rebuilds the store       *)
(* included (store.go:114-149): a pending execution that nobody has parked *)
(* is in its queue, once.                                                  *)
THEOREM PendingStaysQueuedAfterRestart == RestartSpec => []PendingIsQueued
  <1>1. RestartInit => QueueInv
    BY DEF RestartInit, Init, QueueInv, Reservable, NoExecution, Elems, NoDup
  <1>2. TypeInv /\ QueueInv /\ [RestartNext]_allvars => QueueInv'
    BY RestartCases, QueueStep, RestartQueues
  <1>3. QueueInv => PendingIsQueued BY DEF QueueInv, PendingIsQueued, Elems, NoDup
  <1> QED BY <1>1, <1>2, <1>3, RestartTyping, PTL DEF RestartSpec

(* The counters and the running index are exact after a restart too, at    *)
(* every moment of the rebuild (store.go:22-27).                           *)
THEOREM IndexesAreExactAfterRestart == RestartSpec => []IndexesAgree
  <1>1. ASSUME RestartInit PROVE IndexInv
    <2>1. \A s \in Status : InStatus(s) = {}
      BY <1>1 DEF RestartInit, Init, InStatus, Status, NoExecution
    <2>2. "running" \in Status BY DEF Status
    <2> QED BY <1>1, <2>1, <2>2, FS_EmptySet DEF RestartInit, Init, IndexInv
  <1>2. TypeInv /\ IndexInv /\ [RestartNext]_allvars => IndexInv'
    BY RestartCases, IndexStep, RestartIndexes
  <1>3. IndexInv => IndexesAgree BY DEF IndexInv, IndexesAgree, InStatus
  <1> QED BY <1>1, <1>2, <1>3, RestartTyping, PTL DEF RestartSpec

(* Whatever the store, a worker or a client holds is in the WAL, leases    *)
(* and answers of earlier lives of the broker included                     *)
(* (coordinator.go:130-141, 192-194).                                      *)
THEOREM NothingBeforeTheLogAfterRestart == RestartSpec => []StateBackedByLog
  <1>1. ASSUME RestartInit PROVE LogInv
    <2>1. Given = {} BY <1>1 DEF RestartInit, Init, Given, NoLease
    <2> QED BY <1>1, <2>1 DEF RestartInit, Init, LogInv, StateBackedByLog, NoExecution, Procs
  <1>2. TypeInv /\ TypeInv' /\ LogInv /\ [RestartNext]_allvars => LogInv'
    BY RestartCases, LogStep, RestartBacked
  <1>3. LogInv => StateBackedByLog BY DEF LogInv
  <1> QED BY <1>1, <1>2, <1>3, RestartTyping, PTL DEF RestartSpec

-----------------------------------------------------------------------------
(* What the poller knows once it has caught up.  Every logged event is in  *)
(* the topic, on its way there, or left behind by a failed publish; so a   *)
(* topic as long as the log has all of it.                                 *)
Delivering(k) == {p \in Procs : pc[p] = "deliver" /\ ev[p].key = k}

Submitted(s) == \E i \in 1..Len(s) : s[i].type = "submitted"

TransitInv(k) ==
    /\ IsFiniteSet(Delivering(k))
    /\ Len(topic[k]) + Cardinality(Delivering(k)) <= Len(wal[k])
    /\ Submitted(wal[k]) =>
          \/ Submitted(topic[k])
          \/ \E p \in Delivering(k) : ev[p].type = "submitted"
          \/ Len(topic[k]) + Cardinality(Delivering(k)) < Len(wal[k])

(* What the poller has read of a ring that still has all of its messages   *)
(* is in the store.                                                        *)
ReadInv(k) ==
    /\ cursor[k] <= Len(topic[k])
    /\ Len(topic[k]) <= TopicCap =>
          \A i \in 1..cursor[k] : topic[k][i].type = "submitted" => execs[k].status # "absent"

(* The submit event makes the execution known, and no event makes a known  *)
(* one unknown (state.go:66-92).                                           *)
LEMMA FoldKnows ==
    ASSUME NEW x, Known(x), NEW e, Good(e), e.type = "submitted" \/ x.status # "absent"
    PROVE  FoldEvent(x, e).status # "absent"
  <1> DEFINE y == FoldEvent(x, e)
  <1>1. FoldStep(x, e, y) BY FoldCases
  <1>2. x \in Execution BY DEF Known
  <1>3. CASE x.status = "absent"
    BY <1>2, <1>3 DEF FoldEvent, Changes, newExecution, NoExecution
  <1>4. CASE x.status # "absent"
    <2> HIDE DEF y
    <2>1. y.status # "absent"
      BY <1>1, <1>2, <1>4
      DEF FoldStep, ApplyLease, ApplyComplete, newExecution, NoExecution, Execution
    <2> QED BY <2>1 DEF y
  <1> QED BY <1>3, <1>4

(* Of the log, the topic and the events between them a step moves one: an  *)
(* append reaches the file, a published event the topic, a failed publish  *)
(* may leave its record behind.                                            *)
Logs(p) ==
    /\ pc[p] = "publish" /\ pc'[p] = "deliver" /\ UNCHANGED topic
    /\ wal' = [wal EXCEPT ![ev[p].key] = Append(@, ev[p])]

Publishes(p) ==
    /\ pc[p] = "deliver" /\ pc'[p] = "apply" /\ UNCHANGED wal
    /\ topic' = [topic EXCEPT ![ev[p].key] = Append(@, ev[p])]

LeavesBehind(p) ==
    /\ pc[p] = "publish" /\ pc'[p] # "deliver" /\ UNCHANGED topic
    /\ wal' = [wal EXCEPT ![ev[p].key] = Append(@, ev[p])]

Elsewhere(p) ==
    UNCHANGED <<wal, topic>> /\ (pc[p] = "deliver" <=> pc'[p] = "deliver")

(* Every step of a goroutine is one of these, and it keeps the event it    *)
(* appends until the topic has it.                                         *)
LEMMA TransitCases ==
    ASSUME TypeInv, NEW p \in Procs, Acts(p)
    PROVE  /\ Logs(p) \/ Publishes(p) \/ LeavesBehind(p) \/ Elsewhere(p)
           /\ pc'[p] = "deliver" => ev'[p] = ev[p]
  <1>1. /\ pc \in [Procs -> ControlPoints] /\ ev \in [Procs -> Event \cup {NoEvent}]
        /\ ProcsOK
    BY DEF TypeInv, ProcTyped, ProcsOK
  <1>2. CASE WalAppend(p) BY <1>1, <1>2 DEF WalAppend, Logs
  <1>3. CASE PublishToPartition(p) BY <1>1, <1>3 DEF PublishToPartition, Publishes
  <1>4. CASE OtherFails(p) \/ (p \in Handlers /\ Error(p))
    <2>1. PublishError(p) BY <1>4 DEF OtherFails, Error, LeaseFails, CompleteFails
    <2>2. /\ pc[p] = "publish" /\ pc'[p] = "idle" /\ UNCHANGED topic
          /\ wal' = wal \/ wal' = [wal EXCEPT ![ev[p].key] = Append(@, ev[p])]
      BY <1>1, <2>1 DEF PublishError, Return
    <2> QED BY <2>2 DEF LeavesBehind, Elsewhere
  <1>5. CASE p \in Handlers /\ (Client(p) \/ LeaseLoop(p) \/ WaitEnds(p))
    <2>1. UNCHANGED <<wal, topic>>
      BY <1>5 DEF Client, Submit, LeaseBatch, Heartbeat, Complete, Fail, LeaseLoop,
                  ReserveNext, ReserveNone, WaitChan, Grant, WaitEnds, log
    <2>2. pc[p] # "deliver"
      BY <1>5 DEF Client, Call, LeaseLoop, ReserveNext, ReserveNone, WaitChan, Grant, WaitEnds
    <2>3. pc'[p] # "deliver"
      BY <1>1, <1>5
      DEF Client, Submit, LeaseBatch, Heartbeat, Complete, Fail, StartAppend, LeaseLoop,
          ReserveNext, ReserveNone, WaitChan, Grant, WaitEnds, Return
    <2> QED BY <2>1, <2>2, <2>3 DEF Elsewhere
  <1>6. CASE (p \in Handlers /\ HandlerApply(p)) \/ ApplyAndReturn(p)
    <2>1. pc[p] = "apply" /\ UNCHANGED <<wal, topic>>
      BY <1>6 DEF HandlerApply, ApplyCompleted, ApplyFailed, ApplyLeased, ApplyAndReturn, log
    <2>2. PICK e, q : pc' = PcAfterApply(e, p, q) /\ q \in {"idle", "publish", "reserve"}
      BY <1>6 DEF HandlerApply, ApplyCompleted, ApplyFailed, ApplyLeased, ApplyAndReturn
    <2>3. pc'[p] = q BY <2>2 DEF PcAfterApply, WakeUp
    <2> QED BY <2>1, <2>2, <2>3 DEF Elsewhere
  <1>7. CASE p = Sweeper /\ Sweeps
    <2>1. UNCHANGED <<wal, topic>> /\ pc[p] = "idle"
      BY <1>7 DEF Sweeps, SweepExpired, SweepNext, log
    <2>2. pc'[p] # "deliver"
      BY <1>1, <1>7 DEF Sweeps, SweepExpired, SweepNext, StartAppend
    <2> QED BY <2>1, <2>2 DEF Elsewhere
  <1> QED BY <1>2, <1>3, <1>4, <1>5, <1>6, <1>7 DEF Acts, HandlerActs, AppendStep

(* An append to one partition, seen from a partition *)
LEMMA PartitionGrows ==
    ASSUME NEW w \in [Keys -> Seq(Event)], NEW e \in Event, NEW k \in Keys,
           NEW v, v = [w EXCEPT ![e.key] = Append(@, e)]
    PROVE  /\ w[k] \in Seq(Event)
           /\ v[k] = IF e.key = k THEN Append(w[k], e) ELSE w[k]
  BY DEF Event

(* A log has a submit event if it had one or just gained it. *)
LEMMA AppendSubmits ==
    ASSUME NEW s \in Seq(Event), NEW e \in Event
    PROVE  /\ Len(Append(s, e)) = Len(s) + 1
           /\ Submitted(s) \/ e.type = "submitted" => Submitted(Append(s, e))
           /\ Submitted(Append(s, e)) => Submitted(s) \/ e.type = "submitted"
  <1> DEFINE t == Append(s, e)
  <1>1. /\ Len(s) \in Nat /\ Len(t) = Len(s) + 1
        /\ \A i \in 1..Len(s) : t[i] = s[i]
        /\ t[Len(s) + 1] = e
    BY AppendGrows
  <1> HIDE DEF t
  <1>2. ASSUME Submitted(s) \/ e.type = "submitted" PROVE Submitted(t)
    <2>1. CASE e.type = "submitted" BY <1>1, <2>1 DEF Submitted
    <2>2. CASE Submitted(s)
      <3>1. PICK i \in 1..Len(s) : s[i].type = "submitted" BY <2>2 DEF Submitted
      <3>2. i \in 1..Len(t) /\ t[i] = s[i] BY <1>1
      <3> QED BY <3>1, <3>2 DEF Submitted
    <2> QED BY <1>2, <2>1, <2>2
  <1>3. ASSUME Submitted(t) PROVE Submitted(s) \/ e.type = "submitted"
    <2>1. PICK i \in 1..Len(t) : t[i].type = "submitted" BY <1>3 DEF Submitted
    <2>2. i \in 1..Len(s) \/ i = Len(s) + 1 BY <1>1
    <2> QED BY <1>1, <2>1, <2>2 DEF Submitted
  <1> QED BY <1>1, <1>2, <1>3 DEF t

(* Every step keeps the count of what is between the log and the topic. *)
LEMMA TransitStep ==
    ASSUME TypeInv, [Next]_vars, NEW k \in Keys, TransitInv(k)
    PROVE  TransitInv(k)'
  <1>1. wal \in [Keys -> Seq(Event)] /\ topic \in [Keys -> Seq(Event)]
    BY DEF TypeInv, LogTyped, LogOK
  <1>2. Len(wal[k]) \in Nat /\ Len(topic[k]) \in Nat BY <1>1
  <1>3. /\ IsFiniteSet(Delivering(k)) /\ Cardinality(Delivering(k)) \in Nat
        /\ Len(topic[k]) + Cardinality(Delivering(k)) <= Len(wal[k])
    BY FS_CardinalityType DEF TransitInv
  <1>4. ASSUME UNCHANGED <<wal[k], topic[k]>>, Delivering(k)' = Delivering(k),
               \A p \in Delivering(k) : ev'[p] = ev[p]
        PROVE  TransitInv(k)'
    BY <1>4 DEF TransitInv
  <1>5. ASSUME NEW r \in Procs, Still(r)
        PROVE  r \in Delivering(k)' <=> r \in Delivering(k)
    BY <1>5 DEF Still, Delivering
  <1>6. CASE (\E j \in Keys : Ingest(j)) \/ Tick \/ UNCHANGED vars
    <2>1. \A r \in Procs : Still(r) BY <1>6, AllStill
    <2>2. Delivering(k)' = Delivering(k) BY <1>5, <2>1 DEF Delivering
    <2>3. UNCHANGED <<wal, topic>> BY <1>6 DEF Ingest, Tick, vars, log
    <2>4. \A r \in Delivering(k) : ev'[r] = ev[r] BY <2>1 DEF Still, Delivering
    <2> QED BY <1>4, <2>2, <2>3, <2>4
  <1>7. ASSUME NEW p \in Procs, Acts(p) PROVE TransitInv(k)'
    <2>1. \A r \in Procs \ {p} : Still(r) BY <1>7, OthersStill
    <2>2. \A r \in Procs \ {p} : /\ r \in Delivering(k)' <=> r \in Delivering(k)
                                 /\ ev'[r] = ev[r]
      BY <1>5, <2>1 DEF Still
    <2>3. /\ Logs(p) \/ Publishes(p) \/ LeavesBehind(p) \/ Elsewhere(p)
          /\ pc'[p] = "deliver" => ev'[p] = ev[p]
      BY <1>7, TransitCases
    <2>4. Delivering(k) \subseteq Procs /\ Delivering(k)' \subseteq Procs BY DEF Delivering
    <2>5. CASE Elsewhere(p)
      <3>1. p \in Delivering(k)' <=> p \in Delivering(k)
        BY <2>3, <2>5 DEF Elsewhere, Delivering
      <3>2. Delivering(k)' = Delivering(k) BY <2>2, <2>4, <3>1
      <3>3. \A r \in Delivering(k) : ev'[r] = ev[r]
        BY <2>2, <2>3, <2>4, <2>5 DEF Elsewhere, Delivering
      <3> QED BY <1>4, <2>5, <3>2, <3>3 DEF Elsewhere
    <2>6. ASSUME ~ Elsewhere(p) PROVE ev[p] \in Event /\ ev[p].key \in Keys
      <3>1. Appending(p) BY <2>3, <2>6 DEF Logs, Publishes, LeavesBehind, Appending
      <3> QED BY <3>1, Held
    <2>7. CASE Logs(p)
      <3>1. UNCHANGED topic /\ pc[p] = "publish" /\ pc'[p] = "deliver" /\ ev'[p] = ev[p]
            /\ wal' = [wal EXCEPT ![ev[p].key] = Append(@, ev[p])]
        BY <2>3, <2>7 DEF Logs
      <3>2. ev[p] \in Event BY <2>6, <3>1 DEF Elsewhere
      <3>3. p \notin Delivering(k) /\ (p \in Delivering(k)' <=> ev[p].key = k)
        BY <3>1 DEF Delivering
      <3>4. CASE ev[p].key # k
        <4>1. Delivering(k)' = Delivering(k) BY <2>2, <2>4, <3>3, <3>4
        <4>2. wal'[k] = wal[k] BY <1>1, <3>1, <3>2, <3>4, PartitionGrows
        <4>3. \A r \in Delivering(k) : ev'[r] = ev[r] BY <2>2, <2>4, <3>3
        <4> QED BY <1>4, <3>1, <4>1, <4>2, <4>3
      <3>5. CASE ev[p].key = k
        <4>1. Delivering(k)' = Delivering(k) \cup {p} BY <2>2, <2>4, <3>3, <3>5
        <4>2. /\ IsFiniteSet(Delivering(k)')
              /\ Cardinality(Delivering(k)') = Cardinality(Delivering(k)) + 1
          BY <1>3, <3>3, <4>1, FS_AddElement
        <4>3. /\ Len(wal'[k]) = Len(wal[k]) + 1
              /\ Submitted(wal'[k]) <=> Submitted(wal[k]) \/ ev[p].type = "submitted"
          <5>1. wal'[k] = Append(wal[k], ev[p]) /\ wal[k] \in Seq(Event)
            BY <1>1, <3>1, <3>2, <3>5, PartitionGrows
          <5> QED BY <3>2, <5>1, AppendSubmits
        <4>4. Len(topic'[k]) + Cardinality(Delivering(k)') <= Len(wal'[k])
          BY <1>2, <1>3, <3>1, <4>2, <4>3
        <4>5. (\E r \in Delivering(k) : ev[r].type = "submitted") \/ ev[p].type = "submitted"
                => \E r \in Delivering(k)' : ev'[r].type = "submitted"
          BY <2>2, <2>4, <3>1, <4>1
        <4>6. Len(topic[k]) + Cardinality(Delivering(k)) < Len(wal[k])
                => Len(topic'[k]) + Cardinality(Delivering(k)') < Len(wal'[k])
          BY <1>2, <1>3, <3>1, <4>2, <4>3
        <4>7. Submitted(topic[k]) <=> Submitted(topic'[k]) BY <3>1
        <4> QED BY <4>2, <4>3, <4>4, <4>5, <4>6, <4>7 DEF TransitInv
      <3> QED BY <3>4, <3>5
    <2>8. CASE Publishes(p)
      <3>1. UNCHANGED wal /\ pc[p] = "deliver" /\ pc'[p] = "apply"
            /\ topic' = [topic EXCEPT ![ev[p].key] = Append(@, ev[p])]
        BY <2>8 DEF Publishes
      <3>2. ev[p] \in Event BY <2>6, <3>1 DEF Elsewhere
      <3>3. p \notin Delivering(k)' /\ (p \in Delivering(k) <=> ev[p].key = k)
        BY <3>1 DEF Delivering
      <3>4. CASE ev[p].key # k
        <4>1. Delivering(k)' = Delivering(k) BY <2>2, <2>4, <3>3, <3>4
        <4>2. topic'[k] = topic[k] BY <1>1, <3>1, <3>2, <3>4, PartitionGrows
        <4>3. \A r \in Delivering(k) : ev'[r] = ev[r] BY <2>2, <2>4, <3>3, <3>4
        <4> QED BY <1>4, <3>1, <4>1, <4>2, <4>3
      <3>5. CASE ev[p].key = k
        <4>1. Delivering(k)' = Delivering(k) \ {p} BY <2>2, <2>4, <3>3, <3>5
        <4>2. /\ IsFiniteSet(Delivering(k)')
              /\ Cardinality(Delivering(k)') = Cardinality(Delivering(k)) - 1
          BY <1>3, <3>3, <3>5, <4>1, FS_RemoveElement
        <4>3. /\ Len(topic'[k]) = Len(topic[k]) + 1
              /\ Submitted(topic'[k]) <=> Submitted(topic[k]) \/ ev[p].type = "submitted"
          <5>1. topic'[k] = Append(topic[k], ev[p]) /\ topic[k] \in Seq(Event)
            BY <1>1, <3>1, <3>2, <3>5, PartitionGrows
          <5> QED BY <3>2, <5>1, AppendSubmits
        <4>4. /\ Len(topic'[k]) + Cardinality(Delivering(k)') <= Len(wal'[k])
              /\ Len(topic[k]) + Cardinality(Delivering(k)) < Len(wal[k])
                    => Len(topic'[k]) + Cardinality(Delivering(k)') < Len(wal'[k])
          BY <1>2, <1>3, <3>1, <4>2, <4>3
        <4>5. ASSUME NEW r \in Delivering(k), ev[r].type = "submitted"
              PROVE  Submitted(topic'[k]) \/ \E s \in Delivering(k)' : ev'[s].type = "submitted"
          <5>1. CASE r = p BY <4>3, <4>5, <5>1
          <5>2. CASE r # p BY <2>2, <2>4, <4>1, <4>5, <5>2
          <5> QED BY <5>1, <5>2
        <4>6. Submitted(wal[k]) <=> Submitted(wal'[k]) BY <3>1
        <4> QED BY <4>2, <4>3, <4>4, <4>5, <4>6 DEF TransitInv
      <3> QED BY <3>4, <3>5
    <2>9. CASE LeavesBehind(p)
      <3>1. UNCHANGED topic /\ pc[p] = "publish" /\ pc'[p] # "deliver"
            /\ wal' = [wal EXCEPT ![ev[p].key] = Append(@, ev[p])]
        BY <2>9 DEF LeavesBehind
      <3>2. CASE Elsewhere(p) BY <2>5, <3>2
      <3>3. CASE ~ Elsewhere(p)
        <4>1. ev[p] \in Event BY <2>6, <3>3
        <4>2. p \notin Delivering(k) /\ p \notin Delivering(k)' BY <3>1 DEF Delivering
        <4>3. Delivering(k)' = Delivering(k) BY <2>2, <2>4, <4>2
        <4>4. \A r \in Delivering(k) : ev'[r] = ev[r] BY <2>2, <2>4, <4>2
        <4>5. CASE ev[p].key # k
          <5>1. wal'[k] = wal[k] BY <1>1, <3>1, <4>1, <4>5, PartitionGrows
          <5> QED BY <1>4, <3>1, <4>3, <4>4, <5>1
        <4>6. CASE ev[p].key = k
          <5>1. Len(wal'[k]) = Len(wal[k]) + 1 BY <1>1, <3>1, <4>1, <4>6, PartitionGrows
          <5>2. Len(topic'[k]) + Cardinality(Delivering(k)') < Len(wal'[k])
            BY <1>2, <1>3, <3>1, <4>3, <5>1
          <5>3. Len(topic'[k]) + Cardinality(Delivering(k)') <= Len(wal'[k])
            BY <1>2, <1>3, <3>1, <4>3, <5>1
          <5> QED BY <1>3, <4>3, <5>2, <5>3 DEF TransitInv
        <4> QED BY <4>5, <4>6
      <3> QED BY <3>2, <3>3
    <2> QED BY <2>3, <2>5, <2>7, <2>8, <2>9
  <1> QED BY <1>6, <1>7, StepCases

(* Every step keeps what the poller has read in the store. *)
LEMMA ReadStep ==
    ASSUME TypeInv, [Next]_vars, NEW k \in Keys, ReadInv(k)
    PROVE  ReadInv(k)'
  <1>1. /\ topic \in [Keys -> Seq(Event)] /\ cursor \in [Keys -> Nat]
        /\ execs \in [Keys -> Execution] /\ Known(execs[k])
    BY DEF TypeInv, LogTyped, LogOK, StoreTyped, StoreOK, ExecInv
  <1>2. Len(topic[k]) \in Nat /\ cursor[k] \in Nat BY <1>1
  <1>3. execs[k].status # "absent" => execs'[k].status # "absent"
    <2>1. CASE FlagStep(execs[k], execs'[k]) BY <2>1 DEF FlagStep
    <2>2. CASE \E e : Good(e) /\ execs'[k] = FoldEvent(execs[k], e)
      BY <1>1, <2>2, FoldKnows
    <2> QED BY <2>1, <2>2, ExecMoves
  <1>4. ASSUME NEW p \in Procs, Acts(p) PROVE ReadInv(k)'
    <2>1. cursor' = cursor
      BY <1>4
      DEF Acts, HandlerActs, Client, Submit, LeaseBatch, Heartbeat, Complete, Fail,
          LeaseLoop, ReserveNext, ReserveNone, WaitChan, Grant, WaitEnds,
          HandlerApply, ApplyCompleted, ApplyFailed, ApplyLeased, Error, LeaseFails,
          CompleteFails, PublishError, OtherFails, PublishToPartition,
          AppendStep, WalAppend, ApplyAndReturn, Sweeps, SweepExpired, SweepNext, log
    <2>2. CASE topic'[k] = topic[k] BY <1>3, <2>1, <2>2 DEF ReadInv
    <2>3. CASE topic'[k] # topic[k]
      <3>1. Publishes(p)
        BY <1>4, <2>3, TransitCases DEF Logs, LeavesBehind, Elsewhere
      <3>2. Appending(p) BY <3>1 DEF Publishes, Appending
      <3>3. ev[p] \in Event BY <3>2, Held
      <3>4. topic'[k] = Append(topic[k], ev[p])
        BY <1>1, <2>3, <3>1, <3>3, PartitionGrows DEF Publishes
      <3>5. Len(topic'[k]) = Len(topic[k]) + 1
            /\ \A i \in 1..Len(topic[k]) : topic'[k][i] = topic[k][i]
        BY <1>1, <3>3, <3>4, AppendGrows
      <3>6. cursor[k] <= Len(topic[k]) /\ cursor'[k] = cursor[k] BY <2>1 DEF ReadInv
      <3>7. cursor'[k] <= Len(topic'[k]) BY <1>2, <3>5, <3>6
      <3>8. 1..cursor'[k] \subseteq 1..Len(topic[k]) BY <1>2, <3>6
      <3>9. Len(topic'[k]) <= TopicCap => Len(topic[k]) <= TopicCap
        BY <1>2, <3>5, WorkflowAssumption
      <3> QED BY <1>3, <3>5, <3>6, <3>7, <3>8, <3>9 DEF ReadInv
    <2> QED BY <2>2, <2>3
  <1>5. ASSUME NEW j \in Keys, Ingest(j) PROVE ReadInv(k)'
    <2> DEFINE i == FetchOffset(j) + 1
    <2>1. /\ i <= Len(topic[j]) /\ StoreApply(topic[j][i]) /\ UNCHANGED topic
          /\ cursor' = [cursor EXCEPT ![j] = i]
      BY <1>5 DEF Ingest
    <2>2. CASE j # k
      <3>1. cursor'[k] = cursor[k] BY <1>1, <2>1, <2>2
      <3> QED BY <1>3, <2>1, <3>1 DEF ReadInv
    <2>3. CASE j = k
      <3>1. i \in 1..Len(topic[k]) /\ Good(topic[k][i]) /\ topic[k][i].key = k
        BY <2>1, <2>3, Fetched
      <3>2. cursor'[k] = i BY <1>1, <2>1, <2>3
      <3>3. execs'[k] = FoldEvent(execs[k], topic[k][i])
        BY <1>1, <2>1, <2>3, <3>1 DEF StoreApply
      <3>4. topic[k][i].type = "submitted" => execs'[k].status # "absent"
        BY <1>1, <3>1, <3>3, FoldKnows
      <3>5. Len(topic[k]) <= TopicCap => i = cursor[k] + 1
        BY <1>2, <2>3, WorkflowAssumption DEF FetchOffset, RingHead
      <3> HIDE DEF i
      <3>6. Len(topic[k]) <= TopicCap =>
                \A n \in 1..cursor'[k] : topic[k][n].type = "submitted"
                                            => execs'[k].status # "absent"
        <4> SUFFICES ASSUME Len(topic[k]) <= TopicCap, NEW n \in 1..i,
                            topic[k][n].type = "submitted"
                     PROVE  execs'[k].status # "absent"
          BY <3>2
        <4>1. CASE n = i BY <3>4, <4>1
        <4>2. CASE n # i
          <5>1. n \in 1..cursor[k] BY <1>2, <3>5, <4>2
          <5> QED BY <1>3, <5>1 DEF ReadInv
        <4> QED BY <4>1, <4>2
      <3> QED BY <1>2, <2>1, <3>1, <3>2, <3>6 DEF ReadInv
    <2> QED BY <2>2, <2>3
  <1>6. CASE Tick \/ UNCHANGED vars
    <2>1. UNCHANGED <<topic, cursor>> BY <1>6 DEF Tick, vars, log
    <2> QED BY <1>3, <2>1 DEF ReadInv
  <1> QED BY <1>4, <1>5, <1>6, StepCases

(* A submit whose event reached the log is not forgotten (poller.go:15-19, *)
(* event.go:1-6): as long as no partition outgrew the ring, once the       *)
(* poller has folded all of a partition, its execution is in the store,    *)
(* however many crashes cut appends short, whatever publishes failed       *)
(* behind their WAL record and whatever calls and folds came in between.   *)
THEOREM CaughtUpPollerKnowsAll ==
    RestartSpec => []((\A k \in Keys : Len(topic[k]) <= TopicCap) => CaughtUpKnowsAll)
  <1> DEFINE I == \A k \in Keys : TransitInv(k) /\ ReadInv(k)
  <1>1. ASSUME RestartInit PROVE I
    <2> SUFFICES ASSUME NEW k \in Keys PROVE TransitInv(k) /\ ReadInv(k)
      OBVIOUS
    <2>1. wal[k] = <<>> /\ topic[k] = <<>> /\ cursor[k] = 0 /\ Delivering(k) = {}
      BY <1>1 DEF RestartInit, Init, Delivering
    <2> QED BY <2>1, FS_EmptySet DEF TransitInv, ReadInv, Submitted
  <1>2. ASSUME TypeInv, I, [RestartNext]_allvars PROVE I'
    <2>1. CASE [Next]_vars BY <1>2, <2>1, TransitStep, ReadStep
    <2>2. CASE Restart
      <3> SUFFICES ASSUME NEW k \in Keys PROVE TransitInv(k)' /\ ReadInv(k)'
        OBVIOUS
      <3>1. wal'[k] = wal[k] /\ topic'[k] = wal[k] /\ cursor'[k] = 0 /\ Delivering(k)' = {}
        BY <2>2 DEF Restart, FreshProcess, Delivering
      <3>2. Len(wal[k]) \in Nat BY <1>2 DEF TypeInv, LogTyped, LogOK
      <3> QED BY <3>1, <3>2, FS_EmptySet DEF TransitInv, ReadInv, Submitted
    <2> QED BY <1>2, <2>1, <2>2, RestartCases
  <1>3. ASSUME TypeInv, I, \A k \in Keys : Len(topic[k]) <= TopicCap PROVE CaughtUpKnowsAll
    <2> SUFFICES ASSUME NEW k \in Keys, InLog("submitted", k, 0, None),
                        Len(topic[k]) = Len(wal[k]), cursor[k] = Len(topic[k])
                 PROVE  execs[k].status # "absent"
      BY DEF CaughtUpKnowsAll
    <2>1. Len(topic[k]) \in Nat /\ Len(wal[k]) \in Nat BY <1>3 DEF TypeInv, LogTyped, LogOK
    <2>2. TransitInv(k) /\ ReadInv(k) BY <1>3
    <2>3. /\ IsFiniteSet(Delivering(k)) /\ Cardinality(Delivering(k)) \in Nat
          /\ Len(topic[k]) + Cardinality(Delivering(k)) <= Len(wal[k])
      BY <2>2, FS_CardinalityType DEF TransitInv
    <2>4. Cardinality(Delivering(k)) = 0 BY <2>1, <2>3
    <2>5. Delivering(k) = {} BY <2>3, <2>4, FS_EmptySet
    <2>6. ~ (Len(topic[k]) + Cardinality(Delivering(k)) < Len(wal[k])) BY <2>1, <2>4
    <2>7. Submitted(wal[k]) BY DEF InLog, Submitted
    <2>8. Submitted(topic[k]) BY <2>2, <2>5, <2>6, <2>7 DEF TransitInv
    <2> QED BY <1>3, <2>2, <2>8 DEF ReadInv, Submitted
  <1> QED BY <1>1, <1>2, <1>3, RestartTyping, PTL DEF RestartSpec
=============================================================================
