---------------------------- MODULE Replication -----------------------------
(***************************************************************************)
(* One shard in a cluster of brokers: the assigner that names its leader   *)
(* through the metadata log, the leadership loop of every broker           *)
(* (cluster.go), the leader's replicator and its streams to the followers  *)
(* (replicator.go), the followers' Replicate handler (transport/server.go),*)
(* the high-water mark (hwm.go) and the publishes that wait for it         *)
(* (grpcapi appendDurable).                                                *)
(*                                                                         *)
(* Append counts a record before it commits it (shardwal.go:158-164): the  *)
(* count stays when the flush or the fsync fails.  A round of the group    *)
(* commit is one step here, module ShardWal takes it apart; a failed flush *)
(* leaves whole records (for the torn one see sw_torn_tail.cfg), and a     *)
(* broker is killed, not its machine.  The metadata log is Raft's: one     *)
(* sequence, which every broker applies at its own pace.  Gossip may       *)
(* suspect a broker that is up.  A goroutine that run() starts is assumed  *)
(* to reach SetReplicas before the leadership loop's next tick, one second *)
(* later; all brokers are registered with their client addresses.          *)
(***************************************************************************)
EXTENDS Integers, Sequences, FiniteSets

CONSTANTS Nodes,       \* brokers
          None,        \* no leader
          Window,      \* bound: entries and acks in flight on a stream
          MaxRecords,  \* bound: publishes
          MaxMoves,    \* bound: assignments after the first
          MaxFaults    \* bound: false suspicions, broken streams, crashes,
                       \* failed flushes and fsyncs

ASSUME ReplicationAssumption ==
    /\ None \notin Nodes
    /\ Window \in Nat \ {0}
    /\ MaxRecords \in Nat /\ MaxMoves \in Nat /\ MaxFaults \in Nat

VARIABLES
    moves,      \* leaders of the shard, in the order of the metadata log
    applied,    \* [Nodes -> how much of it the broker's FSM has applied]
    up,         \* brokers that run
    alive,      \* [Nodes -> brokers its gossip reports alive]
    log,        \* [Nodes -> the records its tail counts]
    file,       \* [Nodes -> how many of them are in the file]
    synced,     \* [Nodes -> how many of them a round of fsync covered]
    failed,     \* [Nodes -> the error of the last round: none, sync, flush]
    lost,       \* [Nodes -> records counted that died in the buffer]
    owned,      \* [Nodes -> did the last tick see itself as the leader]
    lastKey,    \* [Nodes -> follower set of the last tick]
    worker,     \* [Nodes -> the replicator's shardWorker]
    tracked,    \* [Nodes -> replicas in the HighWaterMark's map]
    offsets,    \* [Nodes -> [Nodes -> their offsets there]]
    stream,     \* [Nodes -> [Nodes -> a follower session]]
    handlers,   \* [Nodes -> Replicate calls behind Tail, in Append]
    waiting,    \* publishes in Append, and then in WaitQuorum
    acked,      \* publishes that were acknowledged
    overlapped, \* two Replicate calls of a broker met between Tail and Append
    records, faults   \* counters

meta   == <<moves, applied>>
loop   == <<owned, lastKey, worker>>
hwm    == <<tracked, offsets>>
net    == <<stream, handlers, overlapped>>
pubs   == <<waiting, acked>>
bounds == <<records, faults>>
disk   == <<log, file, synced, failed, lost>>
vars   == <<meta, up, alive, disk, loop, hwm, net, pubs, bounds>>

NoWorker == [on |-> FALSE, started |-> FALSE, followers |-> {}]

Closed ==
    [open |-> FALSE, live |-> FALSE, next |-> 0, wire |-> <<>>, acks |-> <<>>]

(* Mutant: a session starts behind the first record. *)
OpenedPastFirst ==
    [open |-> TRUE, live |-> FALSE, next |-> 1, wire |-> <<>>, acks |-> <<>>]

(* live: Subscribe is through with its backfill. *)
Opened ==
    [open |-> TRUE, live |-> FALSE, next |-> 0, wire |-> <<>>, acks |-> <<>>]

(* The session s with its wire and its acks changed. *)
Carrying(s, wire, acks) ==
    [open |-> s.open, live |-> s.live, next |-> s.next, wire |-> wire, acks |-> acks]

(* The calls hs when the streams of n end: one inside Append goes on, and  *)
(* its answer gets nowhere.                                                *)
Orphaned(hs, n) ==
    {[from |-> h.from, rec |-> h.rec, live |-> h.live /\ h.from # n,
      pc |-> h.pc, off |-> h.off] : h \in hs}

Fault == faults < MaxFaults /\ faults' = faults + 1

ShardLeader(n) == IF applied[n] = 0 THEN None ELSE moves[applied[n]]

-----------------------------------------------------------------------------
(* Shard.Append, in two steps *)

(* The record is written to the buffer and counted. *)
Write(n, rec) ==
    /\ failed[n] # "flush"
    /\ log' = [log EXCEPT ![n] = Append(@, rec)]
    /\ UNCHANGED <<file, synced, failed, lost>>

(* After a failed flush bufio refuses every Write. *)
Refuses(n) == failed[n] = "flush"

(* groupCommitLocked for the record at off: another round has covered it,  *)
(* or its writer flushes and fsyncs all there is.  ok: Append returns no   *)
(* error.  A flush that fails may have written some records.               *)
Commit(n, off, ok) ==
    \/ /\ off < synced[n]
       /\ ok = (failed[n] = "none")
       /\ UNCHANGED <<disk, faults>>
    \/ /\ off >= synced[n] /\ ~Refuses(n)
       /\ file' = [file EXCEPT ![n] = Len(log[n])]
       /\ \/ /\ ok
             /\ synced' = [synced EXCEPT ![n] = Len(log[n])]
             /\ failed' = [failed EXCEPT ![n] = "none"]
             /\ UNCHANGED faults
          \/ /\ ~ok /\ Fault
             /\ failed' = [failed EXCEPT ![n] = "sync"]
             /\ UNCHANGED synced
       /\ UNCHANGED <<log, lost>>
    \/ /\ off >= synced[n] /\ ~Refuses(n)
       /\ ~ok /\ Fault
       /\ \E k \in file[n] .. Len(log[n]) - 1 : file' = [file EXCEPT ![n] = k]
       /\ failed' = [failed EXCEPT ![n] = "flush"]
       /\ UNCHANGED <<log, synced, lost>>
    \/ /\ off >= synced[n] /\ Refuses(n)
       /\ ~ok
       /\ UNCHANGED <<disk, faults>>

-----------------------------------------------------------------------------
(* HighWaterMark *)

(* Mutant: the mark of the furthest replica is enough. *)
ReachedByOne(n, off) == \E r \in tracked[n] : offsets[n][r] >= off

(* The mark, the least of the offsets, is at off or beyond. *)
Reached(n, off) == \A r \in tracked[n] : offsets[n][r] >= off

Update(n, r, off) ==
    offsets' = [offsets EXCEPT ![n][r] =
                    IF r \in tracked[n] /\ off > @ THEN off ELSE @]

(* Mutant: the leader itself is not among the replicas. *)
SetReplicasNoSelf(n, rs) ==
    /\ tracked' = [tracked EXCEPT ![n] = rs]
    /\ offsets' = [offsets EXCEPT ![n] =
            [r \in Nodes |-> IF r \in tracked[n] \cap rs THEN @[r] ELSE 0]]

(* SetReplicas on the map that run() finds, followed by selfUpdateLoop's   *)
(* first Update, to the tail.                                              *)
SetReplicas(n, rs) ==
    /\ tracked' = [tracked EXCEPT ![n] = rs \cup {n}]
    /\ offsets' = [offsets EXCEPT ![n] =
            [r \in Nodes |-> IF r = n /\ Len(log[n]) > @[n] THEN Len(log[n])
                             ELSE IF r \in tracked[n] \cap (rs \cup {n}) THEN @[r]
                             ELSE 0]]

-----------------------------------------------------------------------------
(* Metadata and membership *)

(* The assigner on broker p, the metadata leader with its FSM up to date,  *)
(* finds no leader or a dead one.  Which of the live brokers it takes      *)
(* depends on the other shards.  Apply returns once p's FSM has the entry, *)
(* which takes a majority of the brokers.                                  *)
Plan(p) ==
    /\ p \in up /\ 2 * Cardinality(up) > Cardinality(Nodes)
    /\ Len(moves) <= MaxMoves
    /\ applied[p] = Len(moves)
    /\ ShardLeader(p) \notin alive[p]
    /\ \E target \in alive[p] : moves' = Append(moves, target)
    /\ applied' = [applied EXCEPT ![p] = Len(moves) + 1]
    /\ UNCHANGED <<up, alive, disk, loop, hwm, net, pubs, bounds>>

FsmApply(n) ==
    /\ n \in up
    /\ applied[n] < Len(moves)
    /\ applied' = [applied EXCEPT ![n] = @ + 1]
    /\ UNCHANGED <<moves, up, alive, disk, loop, hwm, net, pubs, bounds>>

(* Gossip loses sight of a broker, a dead one or one that is up, or sees   *)
(* it again.                                                               *)
Gossip(n, m) ==
    /\ n \in up /\ n # m
    /\ \/ /\ m \in alive[n]
          /\ IF m \in up THEN Fault ELSE UNCHANGED faults
          /\ alive' = [alive EXCEPT ![n] = @ \ {m}]
       \/ /\ m \in up \ alive[n]
          /\ alive' = [alive EXCEPT ![n] = @ \cup {m}]
          /\ UNCHANGED faults
    /\ UNCHANGED <<meta, up, disk, loop, hwm, net, pubs, records>>

-----------------------------------------------------------------------------
(* The leadership loop and the replicator *)

(* One tick of refreshShardLeadershipLoop: Drop a shard no longer led, Add *)
(* one newly led, or all over again when the set of live followers has     *)
(* changed.  Cancelling a worker ends its streams.                         *)
Tick(n) ==
    LET want == ShardLeader(n) = n
        followers == alive[n] \ {n}
        add == want /\ (~owned[n] \/ followers # lastKey[n])
        drop == owned[n] /\ ~want
    IN  /\ n \in up
        /\ worker[n].on => worker[n].started
        /\ add \/ drop \/ followers # lastKey[n]
        /\ owned' = [owned EXCEPT ![n] = want]
        /\ lastKey' = [lastKey EXCEPT ![n] = followers]
        /\ worker' = [worker EXCEPT ![n] =
                IF add THEN [on |-> TRUE, started |-> FALSE,
                             followers |-> followers]
                ELSE IF drop THEN NoWorker ELSE @]
        /\ stream' = [stream EXCEPT ![n] =
                IF add \/ drop THEN [f \in Nodes |-> Closed] ELSE @]
        /\ handlers' = IF add \/ drop
                       THEN [f \in Nodes |-> Orphaned(handlers[f], n)]
                       ELSE handlers
        /\ UNCHANGED <<meta, up, alive, disk, hwm, overlapped, pubs, bounds>>

run(n) ==
    /\ worker[n].on /\ ~worker[n].started
    /\ SetReplicas(n, worker[n].followers)
    /\ worker' = [worker EXCEPT ![n].started = TRUE]
    /\ UNCHANGED <<meta, up, alive, disk, owned, lastKey, net, pubs, bounds>>

(* From the tail on, where its backfill finds nothing to speak of, the     *)
(* self-updater follows the fsyncs.                                        *)
selfUpdateLoop(n) ==
    /\ worker[n].started
    /\ offsets[n][n] < synced[n]
    /\ Update(n, n, offsets[n][n] + 1)
    /\ UNCHANGED <<meta, up, alive, disk, loop, tracked, net, pubs, bounds>>

(* runOneFollowerSession: the stream starts at offset 0 every time. *)
OpenReplicate(n, f) ==
    /\ worker[n].started /\ f \in worker[n].followers
    /\ ~stream[n][f].open
    /\ f \in up
    /\ stream' = [stream EXCEPT ![n][f] = Opened]
    /\ UNCHANGED <<meta, up, alive, disk, loop, hwm, handlers, overlapped, pubs,
                   bounds>>

(* Subscribe reads the file to its end, and only what was fsynced once it  *)
(* is live.                                                                *)
Send(n, f) ==
    LET s == stream[n][f]
    IN  /\ s.open
        /\ s.next < IF s.live THEN synced[n] ELSE file[n]
        /\ Len(s.wire) + Len(s.acks) < Window
        /\ stream' = [stream EXCEPT ![n][f] =
                [open |-> TRUE, live |-> s.live, next |-> s.next + 1, acks |-> s.acks,
                 wire |-> Append(s.wire, [off |-> s.next,
                                          rec |-> log[n][s.next + 1]])]]
        /\ UNCHANGED <<meta, up, alive, disk, loop, hwm, handlers, overlapped,
                       pubs, bounds>>

BackfillEnds(n, f) ==
    /\ stream[n][f].open /\ ~stream[n][f].live
    /\ stream[n][f].next >= file[n]
    /\ stream' = [stream EXCEPT ![n][f].live = TRUE]
    /\ UNCHANGED <<meta, up, alive, disk, loop, hwm, handlers, overlapped, pubs,
                   bounds>>

(* The ack receiver. *)
RecvAck(n, f) ==
    LET s == stream[n][f]
    IN  /\ s.open /\ s.acks # <<>>
        /\ Update(n, f, Head(s.acks) + 1)
        /\ stream' = [stream EXCEPT ![n][f] = Carrying(s, s.wire, Tail(s.acks))]
        /\ UNCHANGED <<meta, up, alive, disk, loop, tracked, handlers,
                       overlapped, pubs, bounds>>

Break(n, f) ==
    /\ stream[n][f].open
    /\ Fault
    /\ stream' = [stream EXCEPT ![n][f] = Closed]
    /\ handlers' = [handlers EXCEPT ![f] = Orphaned(@, n)]
    /\ UNCHANGED <<meta, up, alive, disk, loop, hwm, overlapped, pubs, records>>

-----------------------------------------------------------------------------
(* Replicate, on the follower: one call per stream.  It reads the tail,    *)
(* then appends, outside any lock of its own.                              *)

(* The call that serves n's stream to f is not inside Append. *)
Free(n, f) == \A h \in handlers[f] : ~(h.from = n /\ h.live)

(* Mutants: the acknowledgement carries the tail; what is held is appended *)
(* once more.                                                              *)
LastOffsetTail(l) == Len(l)

HeldNever(f, e) == FALSE

(* What the acknowledgement carries: the last offset below the tail. *)
LastOffset(l) == Len(l) - 1

Held(f, e) == e.off < Len(log[f])

Replicate(n, f) ==
    LET s == stream[n][f]
        e == Head(s.wire)
        h == [from |-> n, rec |-> e.rec, live |-> TRUE, pc |-> "write", off |-> 0]
    IN  /\ s.open /\ s.wire # <<>> /\ Free(n, f)
        /\ \/ /\ Held(f, e)
              /\ stream' = [stream EXCEPT ![n][f] =
                    Carrying(s, Tail(s.wire), Append(s.acks, LastOffset(log[f])))]
              /\ UNCHANGED <<handlers, overlapped>>
           \/ /\ ~Held(f, e) /\ e.off <= Len(log[f])
              /\ stream' = [stream EXCEPT ![n][f] = Carrying(s, Tail(s.wire), s.acks)]
              /\ handlers' = [handlers EXCEPT ![f] = @ \cup {h}]
              /\ overlapped' = (overlapped \/ \E g \in handlers[f] : g.pc = "write")
           \/ /\ e.off > Len(log[f])
              /\ stream' = [stream EXCEPT ![n][f] = Closed]
              /\ UNCHANGED <<handlers, overlapped>>
        /\ UNCHANGED <<meta, up, alive, disk, loop, hwm, pubs, bounds>>

(* An error of Append ends the call and with it the stream. *)
Fails(f, h) ==
    /\ handlers' = [handlers EXCEPT ![f] = @ \ {h}]
    /\ stream' = IF h.live THEN [stream EXCEPT ![h.from][f] = Closed] ELSE stream

ReplicateWrite(f, h) ==
    /\ h \in handlers[f] /\ h.pc = "write"
    /\ \/ /\ Write(f, h.rec)
          /\ handlers' = [handlers EXCEPT ![f] = (@ \ {h}) \cup
                {[from |-> h.from, rec |-> h.rec, live |-> h.live, pc |-> "commit",
                  off |-> Len(log[f])]}]
          /\ UNCHANGED stream
       \/ Refuses(f) /\ Fails(f, h) /\ UNCHANGED disk
    /\ UNCHANGED <<meta, up, alive, loop, hwm, overlapped, pubs, bounds>>

(* The append returns; the ack, by the tail of that moment, goes out if    *)
(* the stream still stands.                                                *)
ReplicateCommit(f, h) ==
    LET s == stream[h.from][f]
    IN  /\ h \in handlers[f] /\ h.pc = "commit"
        /\ \/ /\ Commit(f, h.off, TRUE)
              /\ handlers' = [handlers EXCEPT ![f] = @ \ {h}]
              /\ stream' = IF h.live
                           THEN [stream EXCEPT ![h.from][f] = Carrying(s, s.wire,
                                    Append(s.acks, LastOffset(log[f])))]
                           ELSE stream
           \/ Commit(f, h.off, FALSE) /\ Fails(f, h)
        /\ UNCHANGED <<meta, up, alive, loop, hwm, overlapped, pubs, records>>

-----------------------------------------------------------------------------
(* appendDurable on broker n, which routes the session to itself: append,  *)
(* then wait for the mark.  A publish whose append fails, or whose wait    *)
(* times out, is never acknowledged; its record may be in the log.         *)
Publish(n) ==
    /\ n \in up
    /\ ShardLeader(n) = n
    /\ records < MaxRecords
    /\ records' = records + 1
    /\ Write(n, records + 1)
    /\ waiting' = waiting \cup {[node |-> n, off |-> Len(log[n]), rec |-> records + 1,
                                 pc |-> "commit"]}
    /\ UNCHANGED <<meta, up, alive, loop, hwm, net, acked, faults>>

PublishCommit(p) ==
    /\ p \in waiting /\ p.pc = "commit"
    /\ \/ /\ Commit(p.node, p.off, TRUE)
          /\ waiting' = (waiting \ {p}) \cup
                {[node |-> p.node, off |-> p.off, rec |-> p.rec, pc |-> "quorum"]}
       \/ Commit(p.node, p.off, FALSE) /\ waiting' = waiting \ {p}
    /\ UNCHANGED <<meta, up, alive, loop, hwm, net, acked, records>>

WaitQuorum(p) ==
    /\ p \in waiting /\ p.pc = "quorum"
    /\ Reached(p.node, p.off + 1)
    /\ waiting' = waiting \ {p}
    /\ acked' = acked \cup {[node |-> p.node, rec |-> p.rec, off |-> p.off,
                             replicas |-> tracked[p.node]]}
    /\ UNCHANGED <<meta, up, alive, disk, loop, hwm, net, bounds>>

-----------------------------------------------------------------------------
(* A broker is killed; its files stay.  The streams it served or opened    *)
(* are gone, and so is everything it kept in memory, the buffer of the     *)
(* shard included.                                                         *)
Crash(n) ==
    /\ n \in up
    /\ Fault
    /\ up' = up \ {n}
    /\ applied' = [applied EXCEPT ![n] = 0]
    /\ alive' = [alive EXCEPT ![n] = {n}]
    /\ owned' = [owned EXCEPT ![n] = FALSE]
    /\ lastKey' = [lastKey EXCEPT ![n] = {}]
    /\ worker' = [worker EXCEPT ![n] = NoWorker]
    /\ tracked' = [tracked EXCEPT ![n] = {n}]
    /\ offsets' = [offsets EXCEPT ![n] = [r \in Nodes |-> 0]]
    /\ stream' = [a \in Nodes |-> [b \in Nodes |->
                    IF n \in {a, b} THEN Closed ELSE stream[a][b]]]
    /\ handlers' = [f \in Nodes |-> IF f = n THEN {}
                                    ELSE Orphaned(handlers[f], n)]
    /\ waiting' = {p \in waiting : p.node # n}
    /\ log' = [log EXCEPT ![n] = SubSeq(@, 1, file[n])]
    /\ lost' = [lost EXCEPT ![n] = @ + Len(log[n]) - file[n]]
    /\ UNCHANGED <<moves, file, synced, failed, overlapped, acked, records>>

(* It comes back, and gossip lets it meet the others again.  Manager.Shard *)
(* credits it with the tail it finds when it opens the log, which nothing  *)
(* touches before.                                                         *)
Restart(n) ==
    /\ n \notin up
    /\ up' = up \cup {n}
    /\ alive' = [m \in Nodes |-> IF m = n THEN up \cup {n}
                                 ELSE IF m \in up THEN alive[m] \cup {n}
                                 ELSE alive[m]]
    /\ offsets' = [offsets EXCEPT ![n][n] = file[n]]
    /\ synced' = [synced EXCEPT ![n] = file[n]]
    /\ failed' = [failed EXCEPT ![n] = "none"]
    /\ UNCHANGED <<meta, log, file, lost, loop, tracked, net, pubs, bounds>>

-----------------------------------------------------------------------------
Init ==
    /\ moves = <<>> /\ applied = [n \in Nodes |-> 0]
    /\ up = Nodes /\ alive = [n \in Nodes |-> Nodes]
    /\ log = [n \in Nodes |-> <<>>]
    /\ file = [n \in Nodes |-> 0] /\ synced = [n \in Nodes |-> 0]
    /\ failed = [n \in Nodes |-> "none"] /\ lost = [n \in Nodes |-> 0]
    /\ owned = [n \in Nodes |-> FALSE]
    /\ lastKey = [n \in Nodes |-> {}]
    /\ worker = [n \in Nodes |-> NoWorker]
    /\ tracked = [n \in Nodes |-> {n}]
    /\ offsets = [n \in Nodes |-> [r \in Nodes |-> 0]]
    /\ stream = [n \in Nodes |-> [f \in Nodes |-> Closed]]
    /\ handlers = [n \in Nodes |-> {}]
    /\ waiting = {} /\ acked = {}
    /\ overlapped = FALSE
    /\ records = 0 /\ faults = 0

Leadership(n) == FsmApply(n) \/ Tick(n) \/ run(n) \/ selfUpdateLoop(n)

Session(n, f) ==
    OpenReplicate(n, f) \/ Send(n, f) \/ BackfillEnds(n, f) \/ RecvAck(n, f)

ReplicateAppend(f) ==
    \E h \in handlers[f] : ReplicateWrite(f, h) \/ ReplicateCommit(f, h)

Follow(f) == (\E n \in Nodes : Replicate(n, f)) \/ ReplicateAppend(f)

Next ==
    \/ \E n \in Nodes : \/ Plan(n) \/ Leadership(n) \/ Follow(n)
                        \/ Publish(n) \/ Crash(n) \/ Restart(n)
    \/ \E n, f \in Nodes : Gossip(n, f) \/ Session(n, f) \/ Break(n, f)
    \/ \E p \in waiting : PublishCommit(p) \/ WaitQuorum(p)

Spec == Init /\ [][Next]_vars

(* The loops of the brokers run and the network delivers; failures,        *)
(* suspicions and publishes need not happen.                               *)
Fairness ==
    /\ \A n \in Nodes : /\ WF_vars(Leadership(n))
                        /\ \A f \in Nodes : WF_vars(Session(n, f))
                        /\ \A f \in Nodes : WF_vars(Replicate(n, f))
    /\ \A f \in Nodes : WF_vars(ReplicateAppend(f))

FairSpec == Spec /\ Fairness

-----------------------------------------------------------------------------
Entries == [off : Nat, rec : Nat]

Streams ==
    [open : BOOLEAN, live : BOOLEAN, next : Nat, wire : Seq(Entries), acks : Seq(Nat)]

Calls ==
    [from : Nodes, rec : Nat, live : BOOLEAN, pc : {"write", "commit"}, off : Nat]

MetaOK ==
    /\ moves \in Seq(Nodes) /\ applied \in [Nodes -> 0..Len(moves)]
    /\ up \subseteq Nodes /\ alive \in [Nodes -> SUBSET Nodes]

LoopOK ==
    /\ owned \in [Nodes -> BOOLEAN] /\ lastKey \in [Nodes -> SUBSET Nodes]
    /\ worker \in [Nodes -> [on : BOOLEAN, started : BOOLEAN,
                             followers : SUBSET Nodes]]

HwmOK ==
    /\ tracked \in [Nodes -> SUBSET Nodes]
    /\ offsets \in [Nodes -> [Nodes -> Nat]]
    /\ \A n \in Nodes : n \in tracked[n]

StreamOK == stream \in [Nodes -> [Nodes -> Streams]]

HandlersOK ==
    /\ handlers \in [Nodes -> SUBSET Calls]
    /\ overlapped \in BOOLEAN

DiskOK ==
    /\ log \in [Nodes -> Seq(Nat)]
    /\ file \in [Nodes -> Nat] /\ synced \in [Nodes -> Nat]
    /\ \A n \in Nodes : synced[n] <= file[n] /\ file[n] <= Len(log[n])
    /\ failed \in [Nodes -> {"none", "sync", "flush"}] /\ lost \in [Nodes -> Nat]

PubsOK ==
    /\ waiting \subseteq [node : Nodes, off : Nat, rec : Nat, pc : {"commit", "quorum"}]
    /\ acked \subseteq [node : Nodes, rec : Nat, off : Nat, replicas : SUBSET Nodes]
    /\ records \in 0..MaxRecords /\ faults \in 0..MaxFaults

(* Types; the leader is always among the replicas it tracks, and a shard's *)
(* fsynced records are in its file and those of its file are counted.      *)
TypeOK ==
    MetaOK /\ LoopOK /\ HwmOK /\ StreamOK /\ HandlersOK /\ DiskOK /\ PubsOK

(* What a replica has counted, records that died in its buffer included. *)
Counted(r) == Len(log[r]) + lost[r]

(* The mark runs ahead of the file of a replica it counts by no more than  *)
(* records which that replica counted before it had committed them, in an  *)
(* append under way, failed, or cut off by a crash (shardwal.go:158-164,   *)
(* transport/server.go:51-68): not through reconnects, changes of the      *)
(* follower set or leadership changes (hwm.go:8-12).  A publish is         *)
(* acknowledged once every replica then tracked has counted a record at    *)
(* its offset, and is in its leader's file, there and for good.            *)
MarkIsHeld ==
    /\ \A n \in Nodes : \A r \in tracked[n] : offsets[n][r] <= Counted(r)
    /\ \A a \in acked : /\ \A r \in a.replicas : a.off < Counted(r)
                        /\ a.off < file[a.node] /\ log[a.node][a.off + 1] = a.rec

(* The first n records of t are s. *)
PrefixOf(s, t, n) == Len(s) <= n /\ \A i \in 1..Len(s) : s[i] = t[i]

(* While a shard has had one leader and no two Replicate calls of a broker *)
(* met between Tail and Append (transport/server.go:51-56), all that the   *)
(* other brokers count is a prefix of the leader's file: re-streaming from *)
(* 0, skipping and refusing gaps neither drop nor duplicate a record       *)
(* (transport/server.go:28-37), through failed appends and crashes.        *)
FollowersArePrefixes ==
    Len(moves) = 1 /\ ~overlapped =>
        \A n \in Nodes \ {moves[1]} : PrefixOf(log[n], log[moves[1]], file[moves[1]])

(* "a follower is never wedged by a gap" (transport/server.go:31): as long *)
(* as the leader streams to it, a follower whose log takes records is      *)
(* credited, again and again, with all that the leader has fsynced.        *)
FollowersCatchUp ==
    \A n, f \in Nodes :
        []<>(\/ ~worker[n].started \/ f \notin worker[n].followers \/ f \notin up
             \/ Refuses(f)
             \/ offsets[n][f] >= synced[n])

-----------------------------------------------------------------------------
(* What the docs and a test say, and the code does not do. *)

(* README.md:48, "A node can die without losing committed data": a record  *)
(* acknowledged under quorum is in the log of every replica that the mark  *)
(* counted.  A follower re-acknowledges any offset below its tail, so one  *)
(* that holds another record there is counted as holding the leader's.     *)
CommittedIsReplicated ==
    \A a \in acked : \A r \in a.replicas :
        a.off < Len(log[r]) /\ log[r][a.off + 1] = a.rec

(* The mark is "the durably committed offset" (hwm.go:9) and a follower    *)
(* acks "the last offset we hold" (transport/server.go:63): the replicas   *)
(* an acknowledged publish was counted for have a record at its offset in  *)
(* their files.  A broker whose flush failed, or that is still in an       *)
(* append, skips a record of that offset when it is streamed to it and     *)
(* acks it by its tail.                                                    *)
AckedIsInFiles == \A a \in acked : \A r \in a.replicas : a.off < file[r]
=============================================================================
