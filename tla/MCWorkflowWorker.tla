-------------------------- MODULE MCWorkflowWorker --------------------------
(* Small instances of the workflow runtime with workers of the SDK. *)
EXTENDS WorkflowWorker

CONSTANTS w1, w2

(* One task type; a lease lasts until the next tick. *)
Tries(n) == [task |-> "t", max |-> n, ttl |-> 0]

OneOrTwoTries == {Tries(1), Tries(2)}

(* The lease of a worker that sends no heartbeat expires, twice at most. *)
Silent == [spec |-> Tries(2), workers |-> {w1}, ticks |-> 1, beats |-> 0,
           callErrors |-> 0, beatErrors |-> 0, cancels |-> 0]

(* A heartbeat and its failure, before or after the lease expired *)
Beating == [Silent EXCEPT !.spec = Tries(1), !.beats = 1, !.beatErrors = 1]

(* The answer to a lease, a completion or a failure is lost. *)
LostCall == [Silent EXCEPT !.spec = Tries(1), !.callErrors = 1]

(* One of two workers is cancelled, wherever it is. *)
Cancelled == [Silent EXCEPT !.spec = Tries(1), !.workers = {w1, w2},
                            !.cancels = 1]

Stories == {Silent, Beating, LostCall, Cancelled}

(* An answer is lost and there is a second try. *)
LostRetries == {[LostCall EXCEPT !.spec = Tries(2), !.ticks = 0]}
=============================================================================
