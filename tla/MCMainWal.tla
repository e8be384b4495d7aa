----------------------------- MODULE MCMainWal ------------------------------
(* Small instances of the broker's write-ahead log. *)
EXTENDS MainWal

(* Sync mode always, with failing flushes and fsyncs: once across restarts *)
(* on a machine that keeps the pages of a failed fsync, once in a single   *)
(* life on one that drops them; and sync mode interval with every fault.   *)
Deployments ==
    {[mode |-> "always", faults |-> {"flush", "sync"}, retryable |-> TRUE,
      restarts |-> 2],
     [mode |-> "always", faults |-> {"flush", "sync"}, retryable |-> FALSE,
      restarts |-> 0],
     [mode |-> "interval", faults |-> {"write", "flush", "sync"},
      retryable |-> FALSE, restarts |-> 1]}

(* Sync mode always: a machine on which writes fail, and one that only     *)
(* crashes, twice.                                                         *)
Claims ==
    {[mode |-> "always", faults |-> {"write"}, retryable |-> TRUE,
      restarts |-> 0],
     [mode |-> "always", faults |-> {}, retryable |-> TRUE, restarts |-> 2]}
=============================================================================
