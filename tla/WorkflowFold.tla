---------------------------- MODULE WorkflowFold ----------------------------
(***************************************************************************)
(* The pure part of the workflow runtime (internal/workflow/state.go and   *)
(* event.go): the events a workflow execution is made of, the folded       *)
(* Execution, and the fold of one event.                                   *)
(*                                                                         *)
(* Data that no decision of the runtime reads is left out: inputs, error   *)
(* texts, reasons, the transition history and the submit/update times.  A  *)
(* result is identified with the worker and the attempt it was reported    *)
(* under, which the fold keeps in WorkerID and Attempt.                    *)
(***************************************************************************)
EXTENDS Integers, Sequences, FiniteSets

CONSTANTS Keys,       \* execution keys (tenant, project, workflow id)
          Workers,    \* worker ids
          TaskTypes,  \* task types, one FIFO queue each
          Specs,      \* submit specs [task, max, ttl] that clients may use
          None        \* "no worker", "no spec"

ASSUME FoldAssumption ==
    /\ Specs \subseteq [task : TaskTypes, max : Nat \ {0}, ttl : Nat]
    /\ None \notin Workers
    /\ None \notin Specs

Status == {"pending", "running", "retrying", "completed", "failed"}

EventTypes == {"submitted", "leased", "heartbeat", "completed", "failed",
               "retry", "dead"}

(* The envelope of event.go.  The fold reads the timestamp of wf.leased    *)
(* and wf.heartbeat only, so the other events carry 0; the spec is the     *)
(* payload of wf.submitted, worker the payload's WorkerID.                 *)
Event == [type : EventTypes, key : Keys, attempt : Nat,
          worker : Workers \cup {None}, at : Nat, spec : Specs \cup {None}]

(* An Execution: the folded fields, then the two runtime-only flags.       *)
(* Status "absent" stands for a key that is not in the store's map.        *)
Execution == [status : Status \cup {"absent"}, spec : Specs \cup {None},
              attempt : Nat, worker : Workers \cup {None}, deadline : Nat,
              reserved : BOOLEAN, completing : BOOLEAN]

NoExecution == [status |-> "absent", spec |-> None, attempt |-> 0,
                worker |-> None, deadline |-> 0,
                reserved |-> FALSE, completing |-> FALSE]

newEnvelope(type, key, attempt, worker, at) ==
    [type |-> type, key |-> key, attempt |-> attempt, worker |-> worker,
     at |-> at, spec |-> None]

SubmitEnvelope(key, spec) ==
    [newEnvelope("submitted", key, 0, None, 0) EXCEPT !.spec = spec]

(* Mutant: a failed execution is not seen as finished. *)
TerminalCompletedOnly(x) == x.status = "completed"

Terminal(x) == x.status \in {"completed", "failed"}

newExecution(e) ==
    [NoExecution EXCEPT !.status = "pending", !.spec = e.spec]

(***************************************************************************)
(* apply: the guard of each case of the switch, then what the case         *)
(* assigns.  wf.retry and wf.dead carry an attempt that the fold does not  *)
(* compare with the execution's.                                           *)
(***************************************************************************)
Accepts(x, e) ==
    CASE e.type = "leased" ->
            x.status = "pending" /\ e.attempt = x.attempt + 1
      [] e.type = "heartbeat" ->
            x.status = "running" /\ e.attempt = x.attempt /\ e.worker = x.worker
      [] e.type = "completed" ->
            ~Terminal(x) /\ e.attempt = x.attempt /\ e.attempt # 0
      [] e.type = "failed" ->
            x.status = "running" /\ e.attempt = x.attempt
      [] e.type = "retry" -> ~Terminal(x) /\ x.status # "pending"
      [] e.type = "dead" -> ~Terminal(x)
      [] OTHER -> FALSE

(* Mutant: the lease forgets to count the attempt. *)
ApplyLeaseSameAttempt(x, e) ==
    [x EXCEPT !.status = "running", !.worker = e.worker,
              !.deadline = e.at + x.spec.ttl, !.reserved = FALSE]

ApplyLease(x, e) ==
    [x EXCEPT !.status = "running", !.attempt = e.attempt,
              !.worker = e.worker, !.deadline = e.at + x.spec.ttl,
              !.reserved = FALSE]

ApplyComplete(x, e) ==
    [x EXCEPT !.status = "completed", !.worker = e.worker, !.completing = FALSE]

apply(x, e) ==
    CASE e.type = "leased"    -> ApplyLease(x, e)
      [] e.type = "heartbeat" -> [x EXCEPT !.deadline = e.at + x.spec.ttl]
      [] e.type = "completed" -> ApplyComplete(x, e)
      [] e.type = "failed"    -> [x EXCEPT !.status = "retrying"]
      [] e.type = "retry"     -> [x EXCEPT !.status = "pending",
                                           !.worker = None, !.deadline = 0]
      [] e.type = "dead"      -> [x EXCEPT !.status = "failed"]
      [] OTHER                -> x

(* The execution part of Store.Apply: does event e change execution x (the *)
(* entry of e's key), and into what.                                       *)
Changes(x, e) ==
    IF e.type = "submitted" THEN x.status = "absent"
                            ELSE x.status # "absent" /\ Accepts(x, e)

FoldEvent(x, e) ==
    IF ~Changes(x, e) THEN x
    ELSE IF e.type = "submitted" THEN newExecution(e) ELSE apply(x, e)

(* What a replay of the log s from offset 0 folds into. *)
Fold(s) ==
    LET f[n \in 0..Len(s)] ==
            IF n = 0 THEN NoExecution ELSE FoldEvent(f[n-1], s[n])
    IN  f[Len(s)]

(* The fields that belong to the folded state (the flags do not). *)
Folded(x) == [x EXCEPT !.reserved = FALSE, !.completing = FALSE]
=============================================================================
