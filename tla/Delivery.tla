------------------------------ MODULE Delivery ------------------------------
(***************************************************************************)
(* From a producer's request to a consumer group's committed offset: the   *)
(* publish handlers of the TCP server, the gRPC server and the HTTP API,   *)
(* the write-ahead log, the rings of one topic, the subscriptions and the  *)
(* consume loops of both servers, the offset manager, and what a crash or  *)
(* a shutdown and the replay at the next start make of it.                 *)
(*                                                                         *)
(* A message is the number of its publication.  A request is answered when *)
(* its publisher is idle again.  The variables behind `histories` are read *)
(* by no action's guard: they say what happened.                           *)
(***************************************************************************)
EXTENDS TopicRing, OffsetManager, SequencesExt

CONSTANTS Publishers,   \* connections that publish
          Consumers,    \* connections that consume
          BatchSize,    \* messages of one batch request
          FetchMax,     \* messages one Next returns at most (128 in the code)
          Configs       \* how the broker is set up and used: see Config

(* mode is --wal-sync-mode.  The rest bounds one scenario: the connections *)
(* that take part, the kinds of requests they make and the partitions they *)
(* name, the ways the process ends, and how many messages, subscriptions,  *)
(* failed appends, failed saves and restarts there are at most.            *)
Config == [mode : {"none", "always"}, publishers : SUBSET Publishers,
           consumers : SUBSET Consumers,
           requests : SUBSET {"tcp", "grpc", "key", "batch", "http"},
           parts : SUBSET Parts, ends : SUBSET {"crash", "stop"},
           messages : Nat, sessions : Nat, errors : Nat, saves : Nat, restarts : Nat]

ASSUME DeliveryAssumption ==
    /\ Partitions \in Nat \ {0} /\ FetchMax \in Nat \ {0} /\ BatchSize \in Nat \ {0}
    /\ None \notin Nat
    /\ Configs \subseteq Config

VARIABLES
    conf,      \* the scenario, fixed
    phase,     \* "up", "stopping", "tcp", "stopped" or "down"
    topic,     \* [Parts -> ring]
    next,      \* round-robin counter of the topic
    wal,       \* records of the log: partition and message
    flushed,   \* records a crash of the process cannot lose
    fatal,     \* the log is poisoned
    syncErr,   \* a poisoned log has an error to return
    pub,       \* [Publishers -> the request in progress]
    cons,      \* [Consumers -> the consume loop]
    messages, errors, restarts, sessions,   \* counters
    plog,      \* history: [Parts -> everything published since the start]
    sent,      \* history: [Keys -> messages sent to the group]
    missed,    \* history: [Keys -> messages the ring overwrote before the
               \* group's session read them]
    base,      \* history: [Keys -> where the last subscription without a
               \* committed offset began]
    disturbed  \* history: requests overlapped in a partition, one came
               \* over HTTP, a crash lost records of the log, or an append
               \* returned nil without writing

server    == <<conf, phase>>
log       == <<wal, flushed, fatal, syncErr>>
rings     == <<topic, plog>>
counters  == <<messages, errors, restarts, sessions>>
groups    == <<sent, missed, base>>
histories == <<plog, sent, missed, base, disturbed>>
vars == <<server, topic, next, log, pub, cons, counters, histories, managerVars>>

NoRequest == [pc |-> "idle", how |-> "", part |-> 0, todo |-> <<>>]
NoSession == [pc |-> "idle", how |-> "", key |-> <<>>, offset |-> 0,
              notify |-> FALSE, msgs |-> <<>>, out |-> <<>>, overrun |-> FALSE]

Init ==
    /\ conf \in Configs /\ phase = "up"
    /\ topic = [q \in Parts |-> newTopic] /\ next = 0
    /\ wal = <<>> /\ flushed = 0 /\ fatal = FALSE /\ syncErr = FALSE
    /\ pub = [p \in Publishers |-> NoRequest]
    /\ cons = [c \in Consumers |-> NoSession]
    /\ messages = 0 /\ errors = 0 /\ restarts = 0 /\ sessions = 0
    /\ plog = [q \in Parts |-> <<>>]
    /\ sent = [k \in Keys |-> {}] /\ missed = [k \in Keys |-> {}]
    /\ base = [k \in Keys |-> 0]
    /\ disturbed = FALSE
    /\ ManagerInit

(* gRPC and HTTP stop accepting first, the TCP server keeps its            *)
(* connections until their clients leave.                                  *)
Serves(how) == IF how = "tcp" THEN phase \in {"up", "stopping", "tcp"} ELSE phase = "up"

-----------------------------------------------------------------------------
(* Publishing *)

(* choosePartition: a key has a partition of its own, no key takes the     *)
(* next one.                                                               *)
choosePartition(q) ==
    \/ q \in Parts /\ UNCHANGED next
    \/ /\ Partitions > 1
       /\ q = next % Partitions /\ next' = next + 1

(* The payloads of a request, in order: a batch frame is taken apart, and  *)
(* every other request has one.                                            *)
DecodeBatchPayload(count) == [i \in 1 .. count |-> messages + i]

Begin(p, how, count, q) ==
    /\ pub[p].pc = "idle" /\ Serves(how)
    /\ messages + count <= conf.messages
    /\ messages' = messages + count
    /\ pub' = [pub EXCEPT ![p] =
          [pc |-> IF how = "http" THEN "ring" ELSE "append", how |-> how,
           part |-> q, todo |-> DecodeBatchPayload(count)]]
    /\ disturbed' = \/ disturbed \/ how = "http"
                    \/ \E o \in Publishers : pub[o].pc # "idle" /\ pub[o].part = q
    /\ UNCHANGED <<server, topic, log, cons, errors, restarts, sessions,
                   plog, groups, managerVars>>

handlePublish(p) ==
    "tcp" \in conf.requests /\ Begin(p, "tcp", 1, 0) /\ UNCHANGED next

handlePublishWithKey(p) ==
    /\ "key" \in conf.requests
    /\ \E q \in conf.parts : choosePartition(q) /\ Begin(p, "tcp", 1, q)

(* Publish of the gRPC server, to a partition or by key *)
PublishRPC(p) ==
    \E q \in conf.parts :
        /\ \/ "grpc" \in conf.requests /\ UNCHANGED next
           \/ "key" \in conf.requests /\ choosePartition(q)
        /\ Begin(p, "grpc", 1, q)

handleBatchPublish(p) ==
    "batch" \in conf.requests /\ Begin(p, "tcp", BatchSize, 0) /\ UNCHANGED next

(* /api/publish: to the ring first *)
apiPublish(p) ==
    /\ "http" \in conf.requests
    /\ \E q \in conf.parts : Begin(p, "http", 1, q)
    /\ UNCHANGED next

Msg(p) == Head(pub[p].todo)
Record(p) == [part |-> pub[p].part, msg |-> Msg(p)]

Answer(p) == pub' = [pub EXCEPT ![p] = NoRequest]
Continue(p, pc) == pub' = [pub EXCEPT ![p].pc = pc]

(* AppendRecord has returned nil. *)
Logged(p) == IF pub[p].how = "http" THEN Answer(p) ELSE Continue(p, "ring")

AppendRecord(p) ==
    /\ pub[p].pc = "append" /\ ~ fatal
    /\ wal' = Append(wal, Record(p))
    /\ flushed' = IF conf.mode = "always" THEN Len(wal) + 1 ELSE flushed
    /\ Logged(p)
    /\ UNCHANGED <<server, rings, next, fatal, syncErr, cons, counters, groups,
                   disturbed, managerVars>>

(* Mutant: the log does not stay poisoned. *)
AppendFailsOnce(p) ==
    /\ pub[p].pc = "append"
    /\ \/ fatal /\ syncErr /\ UNCHANGED <<wal, errors>>
       \/ /\ ~ fatal /\ errors < conf.errors /\ errors' = errors + 1
          /\ wal' \in {wal, Append(wal, Record(p))}
    /\ Answer(p)
    /\ UNCHANGED <<server, rings, next, flushed, fatal, syncErr, cons, messages,
                   restarts, sessions, groups, disturbed, managerVars>>

(* AppendRecord returns an error: the log was poisoned before, or is now,  *)
(* with the record in the file or not.  The TCP and gRPC handlers give up; *)
(* /api/publish answers as if nothing had happened.                        *)
AppendFails(p) ==
    /\ pub[p].pc = "append"
    /\ \/ fatal /\ syncErr /\ UNCHANGED <<wal, fatal, syncErr, errors>>
       \/ /\ ~ fatal /\ errors < conf.errors /\ errors' = errors + 1
          /\ wal' \in {wal, Append(wal, Record(p))}
          /\ fatal' = TRUE /\ syncErr' = TRUE
    /\ Answer(p)
    /\ UNCHANGED <<server, rings, next, flushed, cons, messages, restarts,
                   sessions, groups, disturbed, managerVars>>

(* The Write of p fails, and poisons the log, while the fsync for o's      *)
(* record is under way.                                                    *)
WriteFailsInRound(p, o) ==
    /\ conf.mode = "always" /\ p # o
    /\ pub[p].pc = "append" /\ pub[o].pc = "append"
    /\ ~ fatal /\ errors < conf.errors /\ errors' = errors + 1
    /\ wal' = Append(wal, Record(o)) /\ flushed' = Len(wal) + 1
    /\ fatal' = TRUE /\ syncErr' = TRUE
    /\ pub' = [pub EXCEPT ![p] = NoRequest, ![o].pc = "sync"]
    /\ UNCHANGED <<server, rings, next, cons, messages, restarts, sessions,
                   groups, disturbed, managerVars>>

(* That round ends: it clears the error, and leaves the log poisoned. *)
RoundEnds(o) ==
    /\ pub[o].pc = "sync"
    /\ syncErr' = FALSE
    /\ Logged(o)
    /\ UNCHANGED <<server, rings, next, wal, flushed, fatal, cons, counters,
                   groups, disturbed, managerVars>>

(* From then on AppendRecord returns nil at once. *)
AppendUnwritten(p) ==
    /\ pub[p].pc = "append" /\ fatal /\ ~ syncErr
    /\ Logged(p)
    /\ disturbed' = TRUE
    /\ UNCHANGED <<server, rings, next, log, cons, counters, groups, managerVars>>

Appending(p) ==
    \/ AppendRecord(p) \/ AppendFails(p) \/ RoundEnds(p) \/ AppendUnwritten(p)
    \/ \E o \in Publishers : WriteFailsInRound(p, o)

(* PublishToPartition, under the topic's lock *)
PublishToPartition(p) ==
    /\ pub[p].pc = "ring"
    /\ topic' = [topic EXCEPT ![pub[p].part] = Publish(@, Msg(p))]
    /\ plog' = [plog EXCEPT ![pub[p].part] = Append(@, Msg(p))]
    /\ Continue(p, "notify")
    /\ UNCHANGED <<server, next, log, cons, counters, groups,
                   disturbed, managerVars>>

Subscribed(c, q) == cons[c].pc \notin {"idle", "sub"} /\ cons[c].key[2] = q

(* Mutant: the channel has no place for a notification nobody waits for. *)
notifyWaiting(p) ==
    /\ pub[p].pc = "notify"
    /\ cons' = [c \in Consumers |->
          IF Subscribed(c, pub[p].part) /\ cons[c].pc = "wait"
          THEN [cons[c] EXCEPT !.notify = TRUE] ELSE cons[c]]
    /\ IF pub[p].how = "http" THEN Continue(p, "append")
       ELSE IF Len(pub[p].todo) = 1 THEN Answer(p)
       ELSE pub' = [pub EXCEPT ![p].pc = "append", ![p].todo = Tail(@)]
    /\ UNCHANGED <<server, rings, next, log, counters, groups,
                   disturbed, managerVars>>

(* notifySubs, and on to the next message of the batch, the log or the     *)
(* answer                                                                  *)
notifySubs(p) ==
    /\ pub[p].pc = "notify"
    /\ cons' = [c \in Consumers |->
          IF Subscribed(c, pub[p].part) THEN [cons[c] EXCEPT !.notify = TRUE] ELSE cons[c]]
    /\ IF pub[p].how = "http" THEN Continue(p, "append")
       ELSE IF Len(pub[p].todo) = 1 THEN Answer(p)
       ELSE pub' = [pub EXCEPT ![p].pc = "append", ![p].todo = Tail(@)]
    /\ UNCHANGED <<server, rings, next, log, counters, groups,
                   disturbed, managerVars>>

Publishing(p) ==
    \/ handlePublish(p) \/ handlePublishWithKey(p) \/ handleBatchPublish(p)
    \/ PublishRPC(p) \/ apiPublish(p)
    \/ Appending(p) \/ PublishToPartition(p) \/ notifySubs(p)

-----------------------------------------------------------------------------
(* Consuming: handleSubscribe of the TCP server, Consume of the gRPC server *)

(* Mutant: a group with a committed offset starts at the tail as well. *)
SubscribeAtTail(c, g, how, q) ==
    LET k == <<g, q>> IN
    /\ cons[c].pc = "idle" /\ Serves(how) /\ sessions < conf.sessions
    /\ sessions' = sessions + 1
    /\ cons' = [cons EXCEPT ![c] = [NoSession EXCEPT
          !.pc = "sub", !.how = how, !.key = k, !.offset = topic[q].tail]]
    /\ base' = IF offsets[k] = None THEN [base EXCEPT ![k] = topic[q].tail] ELSE base
    /\ UNCHANGED <<server, rings, next, log, pub, messages, errors, restarts,
                   sent, missed, disturbed, managerVars>>

(* From the committed offset, or from the tail without one.  The TCP       *)
(* server subscribes to partition 0, the gRPC server to the one asked for  *)
(* or to the one the group's name hashes to.                               *)
SubscribePartitionAt(c, g, how, q) ==
    LET k == <<g, q>> IN
    /\ cons[c].pc = "idle" /\ Serves(how) /\ sessions < conf.sessions
    /\ sessions' = sessions + 1
    /\ cons' = [cons EXCEPT ![c] = [NoSession EXCEPT
          !.pc = "sub", !.how = how, !.key = k,
          !.offset = IF offsets[k] = None THEN topic[q].tail ELSE offsets[k]]]
    /\ base' = IF offsets[k] = None THEN [base EXCEPT ![k] = topic[q].tail] ELSE base
    /\ UNCHANGED <<server, rings, next, log, pub, messages, errors, restarts,
                   sent, missed, disturbed, managerVars>>

handleSubscribe(c) == \E g \in Groups : SubscribePartitionAt(c, g, "tcp", 0)

ConsumeRPC(c) ==
    \E g \in Groups, q \in conf.parts : SubscribePartitionAt(c, g, "grpc", q)

Consume(c, session) ==
    /\ cons' = [cons EXCEPT ![c] = session]
    /\ UNCHANGED <<server, rings, next, log, pub, counters, base, disturbed>>

addSub(c) ==
    /\ cons[c].pc = "sub"
    /\ Consume(c, [cons[c] EXCEPT !.pc = "fetch"])
    /\ UNCHANGED <<sent, missed, managerVars>>

(* What Next reads: messages, and those the ring has overwritten since. *)
Read(s) == Fetch(topic[s.key[2]], s.offset, FetchMax)
Overwritten(s) ==
    {plog[s.key[2]][o + 1] : o \in s.offset .. topic[s.key[2]].head - 1}

(* Mutant: the cursor moves on by one. *)
NextByOne(c) ==
    LET s == cons[c] IN
    /\ s.pc = "fetch"
    /\ Consume(c, IF Read(s) = <<>> THEN [s EXCEPT !.pc = "empty"]
          ELSE [s EXCEPT !.pc = "send", !.msgs = Read(s), !.offset = @ + 1,
                         !.overrun = @ \/ Overwritten(s) # {}])
    /\ missed' = [missed EXCEPT ![s.key] = @ \cup Overwritten(s)]
    /\ UNCHANGED <<sent, managerVars>>

(* Next: the cursor moves by the number of messages read, wherever the     *)
(* ring made the read begin.                                               *)
NextFetch(c) ==
    LET s == cons[c] IN
    /\ s.pc = "fetch"
    /\ Consume(c, IF Read(s) = <<>> THEN [s EXCEPT !.pc = "empty"]
          ELSE [s EXCEPT !.pc = "send", !.msgs = Read(s), !.offset = @ + Len(Read(s)),
                         !.overrun = @ \/ Overwritten(s) # {}])
    /\ missed' = [missed EXCEPT ![s.key] = @ \cup Overwritten(s)]
    /\ UNCHANGED <<sent, managerVars>>

(* The select of Next *)
NextWait(c) ==
    /\ cons[c].pc = "empty"
    /\ Consume(c, [cons[c] EXCEPT !.pc = "wait"])
    /\ UNCHANGED <<sent, missed, managerVars>>

Wake(c) ==
    /\ cons[c].pc = "wait" /\ cons[c].notify
    /\ Consume(c, [cons[c] EXCEPT !.pc = "fetch", !.notify = FALSE])
    /\ UNCHANGED <<sent, missed, managerVars>>

(* One message is handed to the transport, which says nothing about the    *)
(* client having got it.                                                   *)
Send(c) ==
    LET s == cons[c] IN
    /\ s.pc = "send" /\ (s.how = "grpc" => phase \in {"up", "stopping"})
    /\ Consume(c, [s EXCEPT
          !.out = Append(@, Head(s.msgs).offset),
          !.msgs = IF Len(@) = 1 THEN @ ELSE Tail(@),
          !.pc = IF Len(s.msgs) = 1 THEN "commit" ELSE "send"])
    /\ sent' = [sent EXCEPT ![s.key] = @ \cup {Head(s.msgs).payload}]
    /\ UNCHANGED <<missed, managerVars>>

(* The client is gone, or the gRPC server was stopped: Next returns the    *)
(* context's error, or Send fails; the subscription is removed.            *)
Leave(c) ==
    /\ cons[c].pc \in {"wait", "send"}
    /\ Consume(c, NoSession)
    /\ UNCHANGED <<sent, missed, managerVars>>

Commit(c) ==
    /\ cons[c].pc = "commit"
    /\ CommitPartition(cons[c].key, Head(cons[c].msgs).offset + 1)
    /\ Consume(c, [cons[c] EXCEPT !.pc = "signal", !.msgs = <<>>])
    /\ UNCHANGED <<sent, missed>>

Signal(c) ==
    /\ cons[c].pc = "signal" /\ signalDirty
    /\ Consume(c, [cons[c] EXCEPT !.pc = "fetch"])
    /\ UNCHANGED <<sent, missed>>

Consuming(c) ==
    \/ handleSubscribe(c) \/ ConsumeRPC(c) \/ addSub(c) \/ NextFetch(c) \/ NextWait(c)
    \/ Wake(c) \/ Send(c) \/ Leave(c) \/ Commit(c) \/ Signal(c)

Flusher ==
    /\ phase \in {"up", "stopping", "tcp"} /\ FlushLoop /\ saveErrors' <= conf.saves
    /\ UNCHANGED <<server, rings, next, log, pub, cons, counters,
                   groups, disturbed>>

-----------------------------------------------------------------------------
(* The process: shutdown, crash and start (cmd/broker/main.go) *)

Ends ==
    /\ pub' = [p \in Publishers |-> NoRequest]
    /\ cons' = [c \in Consumers |-> NoSession]

(* A signal arrives; the HTTP server and the gRPC server are stopped, with *)
(* five seconds for the calls in progress.                                 *)
Sigterm ==
    /\ phase = "up" /\ "stop" \in conf.ends /\ restarts < conf.restarts
    /\ restarts' = restarts + 1 /\ phase' = "stopping"
    /\ UNCHANGED <<conf, rings, next, log, pub, cons, messages, errors,
                   sessions, groups, disturbed, managerVars>>

GrpcStopped ==
    /\ phase = "stopping" /\ phase' = "tcp"
    /\ UNCHANGED <<conf, rings, next, log, pub, cons, counters, groups,
                   disturbed, managerVars>>

(* TCPServer.Shutdown has waited for every connection; the log is closed,  *)
(* then main returns and the offset manager is closed.  What gRPC handlers *)
(* still running do after that is lost with the process.                   *)
Stop ==
    /\ phase = "tcp"
    /\ \A p \in Publishers : pub[p].how # "tcp"
    /\ \A c \in Consumers : cons[c].how # "tcp"
    /\ \E n \in flushed .. Len(wal) :
          /\ n < Len(wal) => fatal
          /\ wal' = SubSeq(wal, 1, n) /\ flushed' = n
          /\ disturbed' = (disturbed \/ n < Len(wal))
    /\ phase' = "stopped" /\ Close /\ saveErrors' <= conf.saves /\ Ends
    /\ UNCHANGED <<conf, rings, next, fatal, syncErr, counters, groups>>

(* The process dies.  Outside of mode "always" the last appends are in its *)
(* buffer.                                                                 *)
Crash ==
    /\ phase \in {"up", "stopping", "tcp"}
    /\ "crash" \in conf.ends /\ restarts < conf.restarts
    /\ restarts' = restarts + 1 /\ phase' = "down"
    /\ \E n \in flushed .. Len(wal) :
          /\ wal' = SubSeq(wal, 1, n) /\ flushed' = n
          /\ disturbed' = (disturbed \/ n < Len(wal))
    /\ Ends
    /\ UNCHANGED <<conf, rings, next, fatal, syncErr, messages, errors, sessions,
                   groups, managerVars>>

(* The messages the records w hold for partition q, in order *)
MessagesOf(w, q) ==
    LET m[n \in 0 .. Len(w)] == IF n = 0 THEN <<>>
                                ELSE IF w[n].part = q THEN Append(m[n - 1], w[n].msg)
                                ELSE m[n - 1]
    IN  m[Len(w)]

WalOf(q) == MessagesOf(wal, q)

(* main: replay of the log into new rings, then the offsets file *)
Start ==
    /\ phase \in {"stopped", "down"} /\ phase' = "up"
    /\ plog' = [q \in Parts |-> WalOf(q)]
    /\ topic' = [q \in Parts |-> Replayed(WalOf(q))]
    /\ next' = 0 /\ fatal' = FALSE /\ syncErr' = FALSE /\ flushed' = Len(wal)
    /\ Reload
    /\ UNCHANGED <<conf, wal, pub, cons, counters, groups, disturbed>>

Process == Sigterm \/ GrpcStopped \/ Stop \/ Crash \/ Start

Next ==
    \/ \E p \in conf.publishers : Publishing(p)
    \/ \E c \in conf.consumers : Consuming(c)
    \/ Flusher \/ Process

Spec == Init /\ [][Next]_vars

(* Goroutines are scheduled, an append and a save return, the timer of the *)
(* flusher expires, and a Send returns because its client reads or is      *)
(* gone.  No client is obliged to publish, to subscribe or to stay.        *)
Fairness ==
    /\ \A p \in Publishers :
          /\ WF_vars(Appending(p))
          /\ WF_vars(PublishToPartition(p)) /\ WF_vars(notifySubs(p))
    /\ \A c \in Consumers :
          /\ WF_vars(addSub(c)) /\ WF_vars(NextFetch(c)) /\ WF_vars(NextWait(c))
          /\ WF_vars(Wake(c)) /\ WF_vars(cons[c].pc = "send" /\ (Send(c) \/ Leave(c)))
          /\ WF_vars(Commit(c)) /\ WF_vars(Signal(c))
    /\ WF_vars(Flusher)

FairSpec == Spec /\ Fairness

-----------------------------------------------------------------------------
Request == [pc : {"idle", "append", "sync", "ring", "notify"}, how : {"", "tcp", "grpc", "http"},
            part : Parts, todo : Seq(Nat)]

Session == [pc : {"idle", "sub", "fetch", "empty", "wait", "send", "commit", "signal"},
            how : {"", "tcp", "grpc"}, key : Keys \cup {<<>>}, offset : Nat,
            notify : BOOLEAN, msgs : Seq(Slots(Nat)), out : Seq(Nat), overrun : BOOLEAN]

ServerOK ==
    /\ conf \in Configs /\ phase \in {"up", "stopping", "tcp", "stopped", "down"}
    /\ next \in Nat /\ messages \in Nat /\ disturbed \in BOOLEAN

RingsOK == topic \in [Parts -> Rings(Nat)] /\ plog \in [Parts -> Seq(Nat)]

WalOK ==
    /\ wal \in Seq([part : Parts, msg : Nat])
    /\ flushed \in 0 .. Len(wal) /\ fatal \in BOOLEAN /\ syncErr \in BOOLEAN

RequestsOK ==
    /\ pub \in [Publishers -> Request]
    /\ \A p \in Publishers : pub[p].pc # "idle" => pub[p].todo # <<>>

SessionsOK ==
    /\ cons \in [Consumers -> Session]
    /\ \A c \in Consumers :
          /\ cons[c].pc # "idle" => cons[c].key \in Keys
          /\ cons[c].pc \in {"send", "commit"} => cons[c].msgs # <<>>
          /\ cons[c].pc = "commit" => Len(cons[c].msgs) = 1

GroupsOK ==
    /\ sent \in [Keys -> SUBSET Nat] /\ missed \in [Keys -> SUBSET Nat]
    /\ base \in [Keys -> Nat]

(* Types; a request in progress has a message, a session a key, and one    *)
(* message is left when its offset is committed.                           *)
TypeOK == /\ ServerOK /\ RingsOK /\ WalOK /\ RequestsOK /\ SessionsOK /\ GroupsOK
          /\ ManagerOK

(* Topic.Publish and Topic.Fetch agree on the slots: whatever wrapped      *)
(* around, a reader of an offset between head and tail gets the message    *)
(* published under it.                                                     *)
RingShowsLast == \A q \in Parts : Shows(topic[q], plog[q])

(* WAL-first ordering and poisoning (the comments in handlePublishWithKey  *)
(* and in Publish of the gRPC server) keep the log and the rings aligned:  *)
(* unless requests overlapped in a partition, one came over HTTP, a crash  *)
(* lost records or an append returned nil unwritten because a round had    *)
(* cleared the error of a poisoned log (wal.go:172-175, 271), a replay of  *)
(* the log gives every message the offset it has now, failed appends and   *)
(* interrupted batches included.                                           *)
RingFollowsWal == ~ disturbed => \A q \in Parts : IsPrefix(plog[q], WalOf(q))

(* The offset a group resumes from, in this life or after a restart, never *)
(* lies beyond a message of the partition that was not sent to the group,  *)
(* apart from those before its first subscription and those the ring       *)
(* overwrote; whatever consumers share the group, fail to send or start    *)
(* over.  What disturbs RingFollowsWal, an append answered unwritten       *)
(* included, disturbs this as well: a restart then gives offsets to other  *)
(* messages.                                                               *)
CommittedWasSent ==
    ~ disturbed => \A k \in Keys : offsets[k] # None =>
        /\ offsets[k] <= Len(plog[k[2]])
        /\ \A o \in base[k] .. offsets[k] - 1 :
              plog[k[2]][o + 1] \in sent[k] \cup missed[k]

(* A commit is never forgotten by the flusher: while memory and file       *)
(* differ, a signal, the dirty flag or a committer about to signal is      *)
(* there to bring the next save about, across commits during a save and    *)
(* saves that fail.                                                        *)
UnflushedIsPending ==
    phase \in {"up", "stopping", "tcp"} /\ offsets # file =>
        flushSignal \/ dirty \/ \E c \in Consumers : cons[c].pc = "signal"

(* A stream carries consecutive offsets, in order and each once, as long   *)
(* as the ring never overwrote what the subscriber had yet to read.        *)
OrderedUnlessOverrun ==
    \A c \in Consumers :
        ~ cons[c].overrun => \A i \in 1 .. Len(cons[c].out) - 1 :
            cons[c].out[i + 1] = cons[c].out[i] + 1

(* A shutdown in the order of main loses nothing in any sync mode: the     *)
(* next start finds the committed offsets if none of the saves failed, and *)
(* every message under its offset, unless log and rings had parted before  *)
(* (disturbed), by appends answered unwritten for one.                     *)
CleanStopKeepsAll ==
    [][phase = "stopped" /\ phase' = "up" /\ saveErrors = 0 /\ ~ disturbed =>
          /\ offsets' = offsets
          /\ \A q \in Parts : IsPrefix(plog[q], plog'[q])]_vars

(* From a publish to the disk: what is published to a partition while a    *)
(* subscriber is connected is sent and its offset reaches the offsets      *)
(* file, unless the subscriber leaves or the broker stops: no wake-up, no  *)
(* commit and no failed save gets lost on the way.                         *)
PublishedIsCommitted ==
    \A c \in Consumers, k \in Keys :
        (Subscribed(c, k[2]) /\ cons[c].key = k /\ cons[c].offset < topic[k[2]].tail)
            ~> \/ cons[c].pc = "idle" \/ phase # "up"
               \/ file[k] # None /\ file[k] >= topic[k[2]].tail

(* What CommittedWasSent says, for any history: a message acknowledged     *)
(* after the restart, or logged in another order than published, is not    *)
(* passed over either.                                                     *)
ResumesWhereItStopped ==
    \A k \in Keys : offsets[k] # None /\ phase = "up" =>
        /\ offsets[k] <= Len(plog[k[2]])
        /\ \A o \in base[k] .. offsets[k] - 1 :
              plog[k[2]][o + 1] \in sent[k] \cup missed[k]

(* "WAL-first: durable record before in-memory publish"                    *)
(* (tcp_server.go:260): what is in a ring is in the log, /api/publish left *)
(* aside.                                                                  *)
RingIsLogged ==
    phase = "up" => \A q \in Parts : ToSet(plog[q]) \subseteq ToSet(WalOf(q))

(* A stream is ordered whatever the speed of its subscriber. *)
StreamIsOrdered ==
    \A c \in Consumers : \A i \in 1 .. Len(cons[c].out) - 1 :
        cons[c].out[i + 1] > cons[c].out[i]
=============================================================================
