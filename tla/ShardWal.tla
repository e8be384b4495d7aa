------------------------------ MODULE ShardWal ------------------------------
(***************************************************************************)
(* One shard's append-only log (internal/cluster/shardwal/shardwal.go):    *)
(* group-commit Append, Subscribe, Close, and reopening after a crash.     *)
(*                                                                         *)
(* data is everything appended since the file was created, in file order:  *)
(* its first `written` entries are in the file, the rest in the bufio      *)
(* buffer; its first `durable` entries survive a power failure.  A record  *)
(* is a number of its own; Torn is the fragment of a record that a crash   *)
(* left behind.  The mutex is explicit because Append keeps it from the    *)
(* write to the first round of groupCommitLocked.                          *)
(*                                                                         *)
(* Retryable says what the operating system does with the dirty pages of a *)
(* failed fsync: keep them for the next one, or, as Linux does on most     *)
(* file systems, mark them clean, so that no later fsync writes them.      *)
(***************************************************************************)
EXTENDS Integers, Sequences, FiniteSets

CONSTANTS Writers,     \* goroutines that append
          Torn,        \* a partial record
          None,        \* no goroutine holds the mutex
          Retryable,   \* an fsync after a failed one covers its pages
          From,        \* offsets a subscriber may start at
          MaxRecords,  \* bound: records appended
          MaxErrors,   \* bound: failed writes and fsyncs
          MaxCrashes   \* bound: crashes

ASSUME ShardWalAssumption ==
    /\ None \notin Writers
    /\ Torn \notin Nat
    /\ Retryable \in BOOLEAN
    /\ From \subseteq Nat
    /\ MaxRecords \in Nat /\ MaxErrors \in Nat /\ MaxCrashes \in Nat

VARIABLES
    data, written, durable,   \* the file, as above
    dropped,     \* pages behind durable were dropped by a failed fsync
    tail,        \* records appended; the next offset
    synced,      \* records durably fsynced, as the code counts them
    pendingGen, syncedGen, syncing, syncErr,   \* group commit
    bufErr,      \* the bufio.Writer's sticky error
    closed, fdOpen,
    mu,          \* holder of the mutex
    pc,          \* [Writers -> control point]
    my,          \* [Writers -> the Append call in progress]
    round,       \* the syncer's syncingGen, flushedTail and file length
    sub,         \* the goroutine of a Subscribe call
    records, errors, crashes,   \* counters
    acked,       \* Append calls that returned an offset
    seen         \* file positions delivered to the subscriber

file   == <<data, written, durable, dropped>>
commit == <<pendingGen, syncedGen, syncing, syncErr, round>>
shard  == <<tail, synced, bufErr, closed, fdOpen>>
calls  == <<mu, pc, my>>
bounds == <<records, errors, crashes>>
vars   == <<file, commit, shard, calls, sub, bounds, acked, seen>>

NoAppend == [rec |-> 0, off |-> 0, gen |-> 0, pos |-> 0]
NoRound == [gen |-> 0, tail |-> 0, len |-> 0]
NoSubscriber == [phase |-> "none", next |-> 0, limit |-> 0, cancelled |-> FALSE]

(* What a reader of the file gets to: the records before the first torn    *)
(* one, behind which nothing parses.                                       *)
Readable(d, n) ==
    {i \in 1..n : \A j \in 1..i : d[j] # Torn}

-----------------------------------------------------------------------------
(* Append: write to the buffer under the mutex (bufio spills any part of   *)
(* it to the file when it is full), take an offset and a generation.       *)
Append_(w) ==
    LET d == Append(data, records + 1)
    IN  /\ pc[w] = "idle" /\ mu = None
        /\ records < MaxRecords
        /\ ~closed /\ ~bufErr
        /\ data' = d
        /\ written' \in written..Len(d)
        /\ records' = records + 1
        /\ my' = [my EXCEPT ![w] = [rec |-> records + 1, off |-> tail,
                                    gen |-> pendingGen, pos |-> Len(d)]]
        /\ tail' = tail + 1
        /\ mu' = w
        /\ pc' = [pc EXCEPT ![w] = "commit"]
        /\ UNCHANGED <<durable, dropped, commit, synced, bufErr, closed,
                       fdOpen, sub, errors, crashes, acked, seen>>

(* A write to a full buffer fails, possibly half way through the record:   *)
(* the writer is broken from then on.                                      *)
WriteFails(w) ==
    /\ pc[w] = "idle" /\ mu = None
    /\ ~closed /\ ~bufErr
    /\ errors < MaxErrors
    /\ errors' = errors + 1
    /\ bufErr' = TRUE
    /\ written' \in written..Len(data)
    /\ UNCHANGED <<data, durable, dropped, commit, tail, synced, closed, fdOpen,
                   calls, sub, records, crashes, acked, seen>>

(* One round of groupCommitLocked, entered with the mutex. *)
Locked(w) == pc[w] = "commit" /\ mu \in {w, None}

(* Broadcast on syncCond, and on cond. *)
Broadcast(f) == [w \in Writers |-> IF f[w] = "wait" THEN "commit" ELSE f[w]]

WakeSubscriber == [sub EXCEPT !.phase = IF @ = "parked" THEN "check" ELSE @]

AnswerOK(w) ==
    /\ acked' = acked \cup {my[w]}
    /\ my' = [my EXCEPT ![w] = NoAppend]
    /\ mu' = None

AnswerError(w) ==
    /\ my' = [my EXCEPT ![w] = NoAppend]
    /\ mu' = None
    /\ UNCHANGED acked

(* Mutant: a writer takes the last completed round for its own. *)
CoveredAnyRound(w) == syncedGen >= my[w].gen - 1

Covered(w) == syncedGen >= my[w].gen

CommitDone(w) ==
    /\ Locked(w)
    /\ Covered(w)
    /\ IF syncErr THEN AnswerError(w) ELSE AnswerOK(w)
    /\ pc' = [pc EXCEPT ![w] = "idle"]
    /\ UNCHANGED <<file, commit, shard, sub, bounds, seen>>

CommitWait(w) ==
    /\ Locked(w)
    /\ ~Covered(w) /\ syncing
    /\ mu' = None
    /\ pc' = [pc EXCEPT ![w] = "wait"]
    /\ UNCHANGED <<file, commit, shard, my, sub, bounds, acked, seen>>

(* Become the syncer: flush under the mutex, open the next generation,     *)
(* release the mutex for the fsync.                                        *)
CommitFlush(w) ==
    /\ Locked(w)
    /\ ~Covered(w) /\ ~syncing
    /\ ~bufErr
    /\ fdOpen \/ written = Len(data)
    /\ syncing' = TRUE
    /\ round' = [gen |-> pendingGen, tail |-> tail, len |-> Len(data)]
    /\ written' = Len(data)
    /\ pendingGen' = pendingGen + 1
    /\ mu' = None
    /\ pc' = [pc EXCEPT ![w] = "fsync"]
    /\ UNCHANGED <<data, durable, dropped, syncedGen, syncErr, shard, my, sub,
                   bounds, acked, seen>>

(* The flush fails, now or because the writer is already broken. *)
CommitFlushFails(w) ==
    /\ Locked(w)
    /\ ~Covered(w) /\ ~syncing
    /\ \/ bufErr /\ UNCHANGED <<errors, written>>
       \/ ~bufErr /\ errors < MaxErrors /\ errors' = errors + 1
          /\ written' \in written..Len(data)
    /\ bufErr' = TRUE
    /\ syncErr' = TRUE
    /\ AnswerError(w)
    /\ pc' = [Broadcast(pc) EXCEPT ![w] = "idle"]
    /\ UNCHANGED <<data, durable, dropped, pendingGen, syncedGen, syncing,
                   round, tail, synced, closed, fdOpen, sub, records, crashes,
                   seen>>

(* What a successful fsync makes durable. *)
Synced(n) == IF dropped \/ n < durable THEN durable ELSE n

RoundOK(w) ==
    /\ pc[w] = "fsync" /\ mu = None /\ fdOpen
    /\ durable' = Synced(round.len)
    /\ syncedGen' = round.gen
    /\ synced' = round.tail
    /\ syncErr' = FALSE
    /\ syncing' = FALSE
    /\ round' = NoRound
    /\ AnswerOK(w)
    /\ UNCHANGED <<data, written, dropped, pendingGen, tail, bufErr, closed,
                   fdOpen, bounds, seen>>

(* Mutants: the round ends without waking the other committers, or the     *)
(* subscriber.                                                             *)
FsyncOKSilent(w) == RoundOK(w) /\ pc' = [pc EXCEPT ![w] = "idle"] /\ sub' = WakeSubscriber

FsyncOKNoCond(w) == RoundOK(w) /\ pc' = [Broadcast(pc) EXCEPT ![w] = "idle"] /\ UNCHANGED sub

(* The fsync returns: everything flushed before it is durable; the syncer  *)
(* takes the mutex, publishes the round, wakes everybody and returns (its  *)
(* own generation is covered).                                             *)
FsyncOK(w) ==
    /\ RoundOK(w)
    /\ pc' = [Broadcast(pc) EXCEPT ![w] = "idle"]
    /\ sub' = WakeSubscriber

(* The fsync fails (always, once Close has closed the file).  The log is   *)
(* not poisoned: the next waiter starts a round of its own.                *)
FsyncFails(w) ==
    /\ pc[w] = "fsync" /\ mu = None
    /\ IF fdOpen THEN errors < MaxErrors /\ errors' = errors + 1
                 ELSE UNCHANGED errors
    /\ syncErr' = TRUE
    /\ syncing' = FALSE
    /\ round' = NoRound
    /\ AnswerError(w)
    /\ pc' = [Broadcast(pc) EXCEPT ![w] = "idle"]
    /\ dropped' = (dropped \/ (fdOpen /\ ~Retryable))
    /\ UNCHANGED <<data, written, durable, pendingGen, syncedGen, shard, sub,
                   records, crashes, seen>>

(* Close waits for the round in flight, then flushes, syncs and closes.    *)
(* A failed flush or sync leaves the file open but the shard closed.       *)
Close ==
    /\ mu = None /\ ~closed /\ ~syncing
    /\ closed' = TRUE
    /\ pc' = Broadcast(pc)
    /\ sub' = WakeSubscriber
    /\ \/ /\ ~bufErr
          /\ written' = Len(data) /\ durable' = Synced(Len(data))
          /\ fdOpen' = FALSE
          /\ UNCHANGED <<bufErr, dropped, errors>>
       \/ /\ bufErr \/ errors < MaxErrors
          /\ errors' = IF bufErr THEN errors ELSE errors + 1
          /\ written' \in (IF bufErr THEN {written} ELSE written..Len(data))
          /\ bufErr' = TRUE
          /\ UNCHANGED <<durable, dropped, fdOpen>>
       \/ /\ ~bufErr /\ errors < MaxErrors
          /\ errors' = errors + 1
          /\ written' = Len(data)
          /\ dropped' = (dropped \/ ~Retryable)
          /\ UNCHANGED <<bufErr, durable, fdOpen>>
    /\ UNCHANGED <<data, commit, tail, synced, mu, my, records, crashes,
                   acked, seen>>

-----------------------------------------------------------------------------
(* Subscribe: backfill by replaying the file to its end, then a live loop  *)
(* that waits for synced to pass next and replays up to it.                *)

subEnv == <<file, commit, shard, calls, bounds, acked>>

SubGoes(phase) ==
    /\ sub' = [sub EXCEPT !.phase = phase]
    /\ UNCHANGED <<subEnv, seen>>

CanRead == sub.next + 1 \in Readable(data, written)

(* Replay may run into a CRC mismatch. *)
Unreadable == ~CanRead /\ \E i \in 1..written : data[i] = Torn

Deliver ==
    /\ CanRead
    /\ sub' = [sub EXCEPT !.next = @ + 1]
    /\ seen' = seen \cup {sub.next + 1}
    /\ UNCHANGED subEnv

Subscribe(from) ==
    /\ sub.phase = "none"
    /\ sub' = [NoSubscriber EXCEPT !.phase = "backfill", !.next = from]
    /\ UNCHANGED <<subEnv, seen>>

(* The cancel function cancels the context; it signals nobody. *)
Cancel ==
    /\ sub.phase \notin {"none", "done"} /\ ~sub.cancelled
    /\ sub' = [sub EXCEPT !.cancelled = TRUE]
    /\ UNCHANGED <<subEnv, seen>>

(* With the context cancelled and room in the channel, select takes either *)
(* branch.                                                                 *)
Backfill == sub.phase = "backfill" /\ Deliver

(* Replay reached the end of the file, a record half written to it, or an  *)
(* unreadable one; a CRC mismatch there ends the goroutine.                *)
BackfillEnds ==
    /\ sub.phase = "backfill"
    /\ \/ ~CanRead /\ ~sub.cancelled /\ SubGoes("check")
       \/ (sub.cancelled \/ Unreadable) /\ SubGoes("done")

(* The top of the live loop, under the mutex. *)
Check ==
    /\ sub.phase = "check" /\ mu = None
    /\ \/ closed /\ SubGoes("done")
       \/ /\ ~closed /\ sub.next < synced
          /\ sub' = [sub EXCEPT !.phase = "send", !.limit = synced]
          /\ UNCHANGED <<subEnv, seen>>
       \/ ~closed /\ sub.next >= synced /\ sub.cancelled /\ SubGoes("done")
       \/ ~closed /\ sub.next >= synced /\ ~sub.cancelled /\ SubGoes("parked")

Send == sub.phase = "send" /\ sub.next < sub.limit /\ Deliver

SendEnds ==
    /\ sub.phase = "send"
    /\ \/ (sub.next >= sub.limit \/ ~CanRead \/ sub.cancelled) /\ SubGoes("check")
       \/ Unreadable /\ SubGoes("done")

-----------------------------------------------------------------------------
(* Crash and Open.  A killed process leaves what was written, a power      *)
(* failure at least what is durable; either may leave part of the record   *)
(* that follows.                                                           *)

(* Mutants: recoverTail counts a record less, or stops before the last. *)
RecoveredOneLess(d) == IF \A i \in 1..Len(d) : d[i] # Torn THEN Len(d) - 1 ELSE 0

RecoveredShort(d) == IF d # <<>> /\ \A i \in 1..Len(d) : d[i] # Torn
                     THEN Len(d) - 1 ELSE 0

(* The tail recoverTail leaves: the number of records, but its initial 0   *)
(* when it returned early at a partial record.                             *)
Recovered(d) == IF \A i \in 1..Len(d) : d[i] # Torn THEN Len(d) ELSE 0

(* recoverTail refuses a file in which records follow a torn one, unless   *)
(* the bytes happen to parse as one more partial record.                   *)
OpenFails(d) == \E i \in 1..Len(d) - 1 : d[i] = Torn

Reopen(d, dur, lost) ==
    /\ crashes < MaxCrashes
    /\ crashes' = crashes + 1
    /\ data' = d /\ written' = Len(d) /\ durable' = dur /\ dropped' = lost
    /\ \/ closed' = FALSE
       \/ OpenFails(d) /\ closed' = TRUE
    /\ fdOpen' = ~closed'
    /\ tail' = Recovered(d) /\ synced' = Recovered(d)
    /\ pendingGen' = 1 /\ syncedGen' = 0 /\ syncing' = FALSE
    /\ syncErr' = FALSE /\ round' = NoRound
    /\ bufErr' = FALSE
    /\ mu' = None
    /\ pc' = [w \in Writers |-> "idle"]
    /\ my' = [w \in Writers |-> NoAppend]
    /\ sub' = NoSubscriber
    /\ UNCHANGED <<records, errors, acked, seen>>

Survives(n, torn) ==
    IF torn THEN Append(SubSeq(data, 1, n), Torn) ELSE SubSeq(data, 1, n)

(* The part of a record behind the first n that may be in the file. *)
MayTear(n) == n < Len(data) \/ bufErr

ProcessCrash ==
    \E torn \in BOOLEAN :
        /\ torn => MayTear(written)
        /\ Reopen(Survives(written, torn), durable, dropped)

PowerFailure ==
    \E n \in durable..written : \E torn \in BOOLEAN :
        /\ torn => MayTear(n)
        /\ Reopen(Survives(n, torn), Len(Survives(n, torn)), FALSE)

-----------------------------------------------------------------------------
Init ==
    /\ data = <<>> /\ written = 0 /\ durable = 0 /\ dropped = FALSE
    /\ tail = 0 /\ synced = 0
    /\ pendingGen = 1 /\ syncedGen = 0 /\ syncing = FALSE /\ syncErr = FALSE
    /\ round = NoRound
    /\ bufErr = FALSE /\ closed = FALSE /\ fdOpen = TRUE
    /\ mu = None
    /\ pc = [w \in Writers |-> "idle"]
    /\ my = [w \in Writers |-> NoAppend]
    /\ sub = NoSubscriber
    /\ records = 0 /\ errors = 0 /\ crashes = 0
    /\ acked = {} /\ seen = {}

Commit(w) == \/ CommitDone(w) \/ CommitWait(w) \/ CommitFlush(w)
             \/ CommitFlushFails(w)

Fsync(w) == FsyncOK(w) \/ FsyncFails(w)

SubscriberStep == Backfill \/ BackfillEnds \/ Check \/ Send \/ SendEnds

Subscription == (\E from \in From : Subscribe(from)) \/ Cancel \/ SubscriberStep

Next ==
    \/ \E w \in Writers : Append_(w) \/ WriteFails(w) \/ Commit(w) \/ Fsync(w)
    \/ Close
    \/ Subscription
    \/ ProcessCrash \/ PowerFailure

Spec == Init /\ [][Next]_vars

(* The goroutines run, and an fsync returns. *)
Fairness ==
    /\ \A w \in Writers : WF_vars(Commit(w)) /\ WF_vars(Fsync(w))
    /\ WF_vars(SubscriberStep)

FairSpec == Spec /\ Fairness

-----------------------------------------------------------------------------
Appends == [rec : Nat, off : Nat, gen : Nat, pos : Nat]

FileOK ==
    /\ data \in Seq(Nat \cup {Torn})
    /\ written \in 0..Len(data) /\ durable \in 0..written
    /\ tail \in Nat /\ synced \in Nat

CommitOK ==
    /\ pendingGen \in Nat /\ syncedGen \in Nat
    /\ round \in [gen : Nat, tail : Nat, len : Nat]
    /\ mu \in Writers \cup {None}
    /\ pc \in [Writers -> {"idle", "commit", "wait", "fsync"}]
    /\ my \in [Writers -> Appends]
    /\ acked \subseteq Appends

FlagsOK ==
    /\ dropped \in BOOLEAN /\ syncing \in BOOLEAN /\ syncErr \in BOOLEAN
    /\ bufErr \in BOOLEAN /\ closed \in BOOLEAN /\ fdOpen \in BOOLEAN

SubscriberOK ==
    /\ sub \in [phase : {"none", "backfill", "check", "parked", "send", "done"},
               next : Nat, limit : Nat, cancelled : BOOLEAN]
    /\ seen \subseteq Nat

BoundsOK == records \in Nat /\ errors \in Nat /\ crashes \in Nat

(* Types, and the order of the marks of the file: durable, written, end. *)
TypeOK == FileOK /\ CommitOK /\ FlagsOK /\ SubscriberOK /\ BoundsOK

(* What Append promises when it returns an offset (shardwal.go:44-45): the *)
(* record is in the part of the file that a power failure leaves alone.    *)
(* The writer that fsynced may be another one, several rounds later, after *)
(* failed rounds and half-flushed buffers.                                 *)
AckedIsDurable ==
    \A a \in acked : a.pos <= durable /\ data[a.pos] = a.rec

Untorn == \A i \in 1..Len(data) : data[i] # Torn

(* As long as no crash tears a record, Replay gives every acknowledged     *)
(* record back at the offset Append returned, across restarts too: tail,   *)
(* recounted from the file, never hands out an offset a second time.       *)
OffsetsAreStable ==
    Untorn => \A a \in acked : /\ a.pos = a.off + 1
                               /\ a.off < tail
                               /\ a.pos \in Readable(data, written)

(* Every Append call comes back (groupCommitLocked, 172-217): a writer     *)
(* that waits on syncCond is woken, or syncs itself, whatever rounds fail  *)
(* and even when Close closes the file underneath it.                      *)
AppendReturns == \A w \in Writers : pc[w] # "idle" ~> pc[w] = "idle"

(* A record that is fsynced reaches a live subscriber (Subscribe, 292-324) *)
(* unless the subscription is cancelled, the shard closed, the process     *)
(* restarted or the file torn: no wake-up of cond is lost between the      *)
(* check of synced and the wait.                                           *)
SyncedIsDelivered ==
    \A i \in 1..MaxRecords :
        (sub.phase \notin {"none", "done"} /\ sub.next < i /\ i <= synced)
            ~> (i \in seen \/ sub.cancelled \/ closed \/ sub.phase = "none"
                \/ ~Untorn)

-----------------------------------------------------------------------------
(* What comments and tests say, and the code does not do. *)

(* Package comment, shardwal.go:6-7: Append "returns the assigned offset", *)
(* Replay reads "all records from a starting offset"; so an acknowledged   *)
(* record is one that Replay gives back.  After a torn tail recoverTail    *)
(* returns with tail = 0 and the fragment still in the file.               *)
AckedIsReadable == \A a \in acked : a.pos \in Readable(data, written)

(* shardwal.go:90, "Everything recovered from disk is already durable":    *)
(* Open counts as synced what a killed process had only written.           *)
RecoveredIsDurable == Untorn => synced <= durable

(* shardwal.go:292-293, "a consumer never reads data that a failed fsync   *)
(* could lose": the backfill replays the file past synced.                 *)
SeenIsDurable == seen \subseteq 1..durable

(* shardwal.go:266-267, Subscribe returns "a cancel function that shuts    *)
(* down the streaming goroutine": nothing wakes one that waits on cond.    *)
CancelEnds == sub.cancelled ~> sub.phase \in {"none", "done"}
=============================================================================
