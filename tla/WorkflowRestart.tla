-------------------------- MODULE WorkflowRestart ---------------------------
(***************************************************************************)
(* The workflow runtime across restarts of its broker (cmd/broker/main.go, *)
(* poller.go).  A crash takes the store, the topic and every goroutine;    *)
(* the WAL stays.  Startup replays the WAL into the topic, makes an empty  *)
(* store and starts the poller at offset 0 in a goroutine of its own, so   *)
(* RPCs and the sweep are served while the poller is still rebuilding.     *)
(* Workers are other processes: the leases they hold outlive the crash.    *)
(***************************************************************************)
EXTENDS Workflow

CONSTANT MaxCrashes   \* bound: crashes

ASSUME RestartAssumption == MaxCrashes \in Nat

VARIABLE crashes

allvars == <<vars, crashes>>

(* What startup makes anew, apart from the poller's cursors: an empty      *)
(* store, the topic replayed from the WAL, idle goroutines.                *)
FreshProcess ==
    /\ crashes < MaxCrashes
    /\ crashes' = crashes + 1
    /\ execs' = [k \in Keys |-> NoExecution]
    /\ queues' = [t \in TaskTypes |-> <<>>]
    /\ queued' = [k \in Keys |-> FALSE]
    /\ running' = {}
    /\ counts' = [s \in Status |-> 0]
    /\ topic' = wal
    /\ pc' = [p \in Procs |-> "idle"]
    /\ ev' = [p \in Procs |-> NoEvent]
    /\ then' = [h \in Handlers |-> NoEvent]
    /\ lease' = [h \in Handlers |-> NoLease]
    /\ expired' = {}
    /\ UNCHANGED <<wal, env, client>>

(* Mutant: the poller resumes at its old offset. *)
RestartResumes == FreshProcess /\ UNCHANGED cursor

Restart == FreshProcess /\ cursor' = [k \in Keys |-> 0]

RestartInit == Init /\ crashes = 0

RestartNext == (Next /\ UNCHANGED crashes) \/ Restart

RestartSpec == RestartInit /\ [][RestartNext]_allvars

FairRestartSpec == RestartSpec /\ Fairness

-----------------------------------------------------------------------------
(* A submit whose event reached the log is not forgotten: once the poller  *)
(* has folded all of a partition, the execution is in the store, however   *)
(* the crash cut the appends (poller.go:15-19, event.go:1-6).              *)
CaughtUpKnowsAll ==
    \A k \in Keys :
        /\ InLog("submitted", k, 0, None)
        /\ Len(topic[k]) = Len(wal[k]) /\ cursor[k] = Len(topic[k])
        => execs[k].status # "absent"
=============================================================================
