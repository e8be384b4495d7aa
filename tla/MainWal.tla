------------------------------ MODULE MainWal -------------------------------
(***************************************************************************)
(* The broker's write-ahead log (internal/wal/wal.go): AppendRecord with   *)
(* group commit and poisoning, the three sync modes, Close, and the replay *)
(* that startup makes of what a shutdown or a crash left                   *)
(* (cmd/broker/main.go).                                                   *)
(*                                                                         *)
(* data is everything appended since the file was created, in file order:  *)
(* its first `written` entries are in the file, the rest in the bufio      *)
(* buffer; its first `durable` entries survive a power failure.  A record  *)
(* is a number of its own.  A crash may leave a fragment of a record: Cut  *)
(* ends inside the magic, the header, the body or the checksum, Edge ends  *)
(* exactly between two of them.                                            *)
(***************************************************************************)
EXTENDS Integers, Sequences, FiniteSets

CONSTANTS Writers,     \* goroutines that append
          Cut, Edge,   \* fragments of a record
          None,        \* no goroutine holds the mutex
          Configs,     \* how the broker is set up, and what may befall it
          MaxRecords,  \* bound: records appended
          MaxErrors    \* bound: failed operations

Fragments == {Cut, Edge}

(* mode is the SyncMode, faults the operations that may fail, restarts the *)
(* bound on shutdowns and crashes; retryable says whether an fsync after a *)
(* failed one still writes the pages of the failed one.                    *)
Config == [mode : {"none", "always", "interval"},
           faults : SUBSET {"write", "flush", "sync"},
           retryable : BOOLEAN, restarts : Nat]

ASSUME MainWalAssumption ==
    /\ None \notin Writers
    /\ Cut \notin Nat /\ Edge \notin Nat
    /\ Configs \subseteq Config
    /\ MaxRecords \in Nat /\ MaxErrors \in Nat

VARIABLES
    conf,        \* the configuration, fixed
    data, written, durable,   \* the file, as above
    dropped,     \* pages behind durable were dropped by a failed fsync
    pendingGen, syncedGen, syncing, syncErr, fatal,   \* Log
    broken,      \* the bufio.Writer's sticky error
    up,          \* the broker got through startup
    replayed,    \* records startup put back into the topics
    mu,          \* holder of the mutex
    pc,          \* [Writers -> control point]
    my,          \* [Writers -> the AppendRecord call in progress]
    round,       \* generation and file length of the round in flight
    records, errors, restarts,   \* counters
    acked        \* AppendRecord calls that returned nil

file   == <<data, written, durable, dropped>>
commit == <<pendingGen, syncedGen, syncing, round>>
poison == <<fatal, syncErr, broken>>
life   == <<conf, up, replayed>>
calls  == <<mu, pc, my>>
bounds == <<records, errors, restarts>>
vars   == <<file, commit, poison, life, calls, bounds, acked>>

NoAppend == [rec |-> 0, gen |-> 0, pos |-> 0]
NoRound == [gen |-> 0, len |-> 0]

MayFail(op) == op \in conf.faults /\ errors < MaxErrors /\ errors' = errors + 1

(* poisonLocked *)
Poison == fatal' = TRUE /\ syncErr' = TRUE

(* The record m was acknowledged in the current life of the broker. *)
Ack(m) == acked' = acked \cup {[rec |-> m.rec, pos |-> m.pos, life |-> restarts]}

-----------------------------------------------------------------------------
(* AppendRecord *)

Entered(w) == up /\ pc[w] = "idle" /\ mu = None /\ records < MaxRecords

(* The record is in the buffer; shouldSyncLocked lets it go at once, or    *)
(* sends the writer into groupCommitLocked with the mutex.                 *)
AppendRecord(w) ==
    LET d == Append(data, records + 1)
        m == [rec |-> records + 1, gen |-> pendingGen, pos |-> Len(d)]
    IN  /\ Entered(w) /\ ~fatal /\ ~broken
        /\ data' = d
        /\ written' \in written..Len(d)
        /\ records' = records + 1
        /\ \/ conf.mode # "always" /\ Ack(m) /\ UNCHANGED calls
           \/ /\ conf.mode # "none"
              /\ my' = [my EXCEPT ![w] = m]
              /\ mu' = w
              /\ pc' = [pc EXCEPT ![w] = "commit"]
              /\ UNCHANGED acked
        /\ UNCHANGED <<durable, dropped, commit, poison, life, errors, restarts>>

(* A Write fails: the log is poisoned, whatever round is in flight. *)
WriteFails(w) ==
    /\ Entered(w) /\ ~fatal
    /\ (broken /\ UNCHANGED errors) \/ (~broken /\ MayFail("write"))
    /\ broken' = TRUE
    /\ Poison
    /\ written' \in (IF broken THEN {written} ELSE written..Len(data))
    /\ UNCHANGED <<data, durable, dropped, commit, life, calls, records,
                   restarts, acked>>

(* A poisoned log answers with syncErr: an error, unless a round that was  *)
(* in flight has since reset it.                                           *)
AppendPoisoned(w) ==
    /\ Entered(w) /\ fatal /\ ~syncErr
    /\ records' = records + 1
    /\ Ack([NoAppend EXCEPT !.rec = records + 1])
    /\ UNCHANGED <<file, commit, poison, life, calls, errors, restarts>>

-----------------------------------------------------------------------------
(* groupCommitLocked *)

Locked(w) == pc[w] = "commit" /\ mu \in {w, None}

(* Mutant: nobody is woken. *)
BroadcastNobody(f) == f

Broadcast(f) == [w \in Writers |-> IF f[w] = "wait" THEN "commit" ELSE f[w]]

Answer(w, ok) ==
    /\ IF ok THEN Ack(my[w]) ELSE UNCHANGED acked
    /\ my' = [my EXCEPT ![w] = NoAppend]
    /\ mu' = None

(* Mutant: waiters do not look at the poison. *)
PoisonUnseen(w) == FALSE

Poisoned(w) == fatal

(* Mutant: any round that ended since the append was entered will do. *)
CoveredOneLess(w) == syncedGen >= my[w].gen - 1

Covered(w) == syncedGen >= my[w].gen

CommitDone(w) ==
    /\ Locked(w)
    /\ Poisoned(w) \/ Covered(w)
    /\ Answer(w, ~syncErr)
    /\ pc' = [pc EXCEPT ![w] = "idle"]
    /\ UNCHANGED <<file, commit, poison, life, bounds>>

CommitWait(w) ==
    /\ Locked(w)
    /\ ~Poisoned(w) /\ ~Covered(w) /\ syncing
    /\ mu' = None
    /\ pc' = [pc EXCEPT ![w] = "wait"]
    /\ UNCHANGED <<file, commit, poison, life, my, bounds, acked>>

Syncs(w) == Locked(w) /\ ~Poisoned(w) /\ ~Covered(w) /\ ~syncing

CommitFlush(w) ==
    /\ Syncs(w)
    /\ ~broken
    /\ syncing' = TRUE
    /\ round' = [gen |-> pendingGen, len |-> Len(data)]
    /\ written' = Len(data)
    /\ pendingGen' = pendingGen + 1
    /\ mu' = None
    /\ pc' = [pc EXCEPT ![w] = "fsync"]
    /\ UNCHANGED <<data, durable, dropped, syncedGen, poison, life, my, bounds,
                   acked>>

CommitFlushFails(w) ==
    /\ Syncs(w)
    /\ \/ broken /\ UNCHANGED <<errors, written>>
       \/ ~broken /\ MayFail("flush") /\ written' \in written..Len(data)
    /\ broken' = TRUE
    /\ Poison
    /\ Answer(w, FALSE)
    /\ pc' = [Broadcast(pc) EXCEPT ![w] = "idle"]
    /\ UNCHANGED <<data, durable, dropped, commit, life, records, restarts>>

(* What a successful fsync makes durable. *)
Synced(n) == IF dropped \/ n < durable THEN durable ELSE n

FsyncOK(w) ==
    /\ pc[w] = "fsync" /\ mu = None
    /\ durable' = Synced(round.len)
    /\ syncedGen' = round.gen
    /\ syncErr' = FALSE
    /\ syncing' = FALSE
    /\ round' = NoRound
    /\ Answer(w, TRUE)
    /\ pc' = [Broadcast(pc) EXCEPT ![w] = "idle"]
    /\ UNCHANGED <<data, written, dropped, pendingGen, fatal, broken, life,
                   bounds>>

FsyncError(w) ==
    /\ pc[w] = "fsync" /\ mu = None
    /\ MayFail("sync")
    /\ Poison
    /\ dropped' = (dropped \/ ~conf.retryable)
    /\ Answer(w, FALSE)
    /\ pc' = [Broadcast(pc) EXCEPT ![w] = "idle"]
    /\ UNCHANGED <<data, written, durable, pendingGen, syncedGen, broken, life,
                   records, restarts>>

(* Mutant: the failed round is never taken back. *)
FsyncFailsSyncing(w) == FsyncError(w) /\ UNCHANGED <<syncing, round>>

FsyncFails(w) == FsyncError(w) /\ syncing' = FALSE /\ round' = NoRound

-----------------------------------------------------------------------------
(* Shutdown, crash and startup *)

(* Mutant: replay drops the last whole record with the fragment. *)
WholeRecordsShort(d) ==
    {i \in 1..Len(d) - 1 : \A j \in 1..i : d[j] \notin Fragments}

(* The records ReplayWithOptions gets to: those before the first fragment. *)
WholeRecords(d) == {i \in 1..Len(d) : \A j \in 1..i : d[j] \notin Fragments}

Untorn(d) == \A i \in 1..Len(d) : d[i] \notin Fragments

(* ReplayWithOptions returns nil at the end of the file, and at a record   *)
(* cut short at the end of the file (AllowPartialTail), for which ReadFull *)
(* reports ErrUnexpectedEOF; between two parts it reports EOF, which is    *)
(* passed up.  Behind a fragment the bytes fail their checksum, or run     *)
(* past the end of the file.                                               *)
StartupMay(d, ok) ==
    \/ Untorn(d) /\ ok
    \/ /\ d # <<>> /\ d[Len(d)] \in Fragments
       /\ Untorn(SubSeq(d, 1, Len(d) - 1))
       /\ ok = (d[Len(d)] = Cut)
    \/ \E i \in 1..Len(d) - 1 : d[i] \in Fragments

Startup(d, dur, lost) ==
    /\ restarts < conf.restarts
    /\ restarts' = restarts + 1
    /\ \E ok \in BOOLEAN : StartupMay(d, ok) /\ up' = ok
    /\ replayed' = {d[i] : i \in WholeRecords(d)}
    /\ data' = d /\ written' = Len(d) /\ durable' = dur /\ dropped' = lost
    /\ pendingGen' = 1 /\ syncedGen' = 0 /\ syncing' = FALSE /\ round' = NoRound
    /\ fatal' = FALSE /\ syncErr' = FALSE /\ broken' = FALSE
    /\ mu' = None
    /\ pc' = [w \in Writers |-> "idle"]
    /\ my' = [w \in Writers |-> NoAppend]
    /\ UNCHANGED <<conf, records, acked>>

(* The first n entries, and possibly a fragment of the next. *)
Survives(n) ==
    {SubSeq(data, 1, n)} \cup
    (IF n < Len(data) \/ broken
     THEN {Append(SubSeq(data, 1, n), f) : f \in Fragments} ELSE {})

(* Close waits for the round in flight, flushes, and syncs unless the mode *)
(* is none; it is the last statement of main, whatever it returns.  The    *)
(* next broker starts on the file it leaves.                               *)
Close ==
    /\ up /\ mu = None /\ ~syncing
    /\ \/ /\ ~broken
          /\ UNCHANGED errors
          /\ Startup(data, IF conf.mode = "none" THEN durable ELSE Synced(Len(data)),
                     dropped)
       \/ /\ broken /\ UNCHANGED errors
          /\ \E d \in Survives(written) : Startup(d, durable, dropped)
       \/ /\ ~broken /\ MayFail("flush")
          /\ \E n \in written..Len(data) : \E d \in Survives(n) :
                Startup(d, durable, dropped)
       \/ /\ ~broken /\ conf.mode # "none" /\ MayFail("sync")
          /\ Startup(data, durable, dropped \/ ~conf.retryable)

(* A killed process leaves what was written, a power failure at least what *)
(* is durable.                                                             *)
ProcessCrash ==
    /\ up /\ UNCHANGED errors
    /\ \E d \in Survives(written) : Startup(d, durable, dropped)

PowerFailure ==
    /\ up /\ UNCHANGED errors
    /\ \E n \in durable..written : \E d \in Survives(n) : Startup(d, Len(d), FALSE)

-----------------------------------------------------------------------------
Init ==
    /\ conf \in Configs
    /\ data = <<>> /\ written = 0 /\ durable = 0 /\ dropped = FALSE
    /\ pendingGen = 1 /\ syncedGen = 0 /\ syncing = FALSE /\ syncErr = FALSE
    /\ fatal = FALSE /\ broken = FALSE /\ round = NoRound
    /\ up = TRUE /\ replayed = {}
    /\ mu = None
    /\ pc = [w \in Writers |-> "idle"]
    /\ my = [w \in Writers |-> NoAppend]
    /\ records = 0 /\ errors = 0 /\ restarts = 0
    /\ acked = {}

Commit(w) == \/ CommitDone(w) \/ CommitWait(w) \/ CommitFlush(w)
             \/ CommitFlushFails(w)

Fsync(w) == FsyncOK(w) \/ FsyncFails(w)

Next ==
    \/ \E w \in Writers : \/ AppendRecord(w) \/ WriteFails(w) \/ AppendPoisoned(w)
                          \/ Commit(w) \/ Fsync(w)
    \/ Close
    \/ ProcessCrash \/ PowerFailure

Spec == Init /\ [][Next]_vars

(* The goroutines run, and an fsync returns. *)
Fairness == \A w \in Writers : WF_vars(Commit(w)) /\ WF_vars(Fsync(w))

FairSpec == Spec /\ Fairness

-----------------------------------------------------------------------------
Appends == [rec : Nat, gen : Nat, pos : Nat]

FileOK ==
    /\ data \in Seq(Nat \cup Fragments)
    /\ written \in 0..Len(data) /\ durable \in 0..written
    /\ replayed \subseteq Nat

FlagsOK ==
    /\ conf \in Config
    /\ dropped \in BOOLEAN /\ syncErr \in BOOLEAN /\ fatal \in BOOLEAN
    /\ broken \in BOOLEAN /\ up \in BOOLEAN

CommitOK ==
    /\ pendingGen \in Nat /\ syncedGen \in Nat
    /\ round \in [gen : Nat, len : Nat]
    /\ mu \in Writers \cup {None}
    /\ pc \in [Writers -> {"idle", "commit", "wait", "fsync"}]
    /\ my \in [Writers -> Appends]
    /\ syncing = (\E w \in Writers : pc[w] = "fsync")

BoundsOK ==
    /\ records \in Nat /\ errors \in Nat /\ restarts \in Nat
    /\ acked \subseteq [rec : Nat, pos : Nat, life : Nat]

(* Types, the order of the file's three marks, and one round in flight     *)
(* exactly while a goroutine is inside fsync (wal.go:248-274).             *)
TypeOK == FileOK /\ FlagsOK /\ CommitOK /\ BoundsOK

(* With sync mode always, a record whose AppendRecord returned nil is in   *)
(* the durable part of the file (docs/index.md:103), even where a failed   *)
(* fsync drops the pages it could not write: poisoning the log             *)
(* (wal.go:280-283) keeps a later round from vouching for them.            *)
AckedIsDurable ==
    conf.mode = "always" =>
        \A a \in acked : a.pos \in 1..durable /\ data[a.pos] = a.rec

(* Startup puts every record acknowledged before it back                   *)
(* (docs/concepts/wal-replay.md:3), as long as no earlier crash left a     *)
(* fragment in front of it.                                                *)
ReplayComplete ==
    conf.mode = "always" =>
        \A a \in acked :
            /\ up /\ a.life < restarts
            /\ \A i \in 1..a.pos : data[i] \notin Fragments
            => a.rec \in replayed

(* Every AppendRecord call comes back (wal.go:227-278), with rounds, their *)
(* failures and poisoning by other writers in between.                     *)
AppendReturns == \A w \in Writers : pc[w] # "idle" ~> pc[w] = "idle"

-----------------------------------------------------------------------------
(* What docs and flags say, and the code does not do. *)

(* docs/concepts/wal-replay.md:3 without the proviso of ReplayComplete: a  *)
(* second crash loses what was acknowledged behind the first one's         *)
(* fragment, which Open never cuts off.                                    *)
AckedIsReplayed ==
    \A a \in acked : up /\ a.life < restarts => a.rec \in replayed

(* cmd/broker/main.go:45, "allow replay to skip truncated tail records":   *)
(* the broker starts again after one crash.                                *)
StartsAfterCrash == restarts <= 1 => up
=============================================================================
