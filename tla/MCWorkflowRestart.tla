------------------------- MODULE MCWorkflowRestart --------------------------
(* Small instances of the workflow runtime with restarts. *)
EXTENDS WorkflowRestart, TLC

TwoTries == {[task |-> "t", max |-> 2, ttl |-> 0]}

Symmetric == Permutations(Handlers) \cup Permutations(Workers)
=============================================================================
