----------------------------- MODULE MCWorkflow -----------------------------
(* Small instances of the workflow runtime. *)
EXTENDS Workflow, TLC

(* One task type, two tries; a lease lasts until the next tick. *)
TwoTries == {[task |-> "t", max |-> 2, ttl |-> 0]}

Symmetric == Permutations(Handlers) \cup Permutations(Workers)
                \cup Permutations(Keys)
=============================================================================
