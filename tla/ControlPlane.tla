---------------------------- MODULE ControlPlane ----------------------------
(***************************************************************************)
(* The agent control plane (internal/controlplane): a poller reads the     *)
(* topic of agent events and feeds them to Ingest, which keeps the agent   *)
(* registry and the state of every run and routes handoffs and             *)
(* escalations into the agents' inboxes, while agents register, send       *)
(* heartbeats and read their inboxes over streams, a sweeper marks silent  *)
(* agents offline, failed events are retried, and the process restarts and *)
(* rebuilds everything from the replayed topic.                            *)
(*                                                                         *)
(* Ingest is split where other goroutines can see its effects.  Of the     *)
(* time an agent was last seen only its being longer ago than the TTL is   *)
(* kept.  One partition: the events of a session share one, and the poller *)
(* reads partitions one after the other.                                   *)
(***************************************************************************)
EXTENDS TopicRing, AgentEvents, SequencesExt, FiniteSets

CONSTANTS Agents, Sessions,
          Streams,      \* OpenInbox calls
          InboxSize,    \* capacity of an inbox (256)
          PollBatch,    \* messages one poll reads (256)
          MaxOffset,    \* bound: offsets a property looks at
          Configs       \* how the broker is set up and used: see Config

(* escalation is --cp-escalation-agent or ""; the rest bounds one          *)
(* scenario: the types of events, the ways and the attempt numbers they    *)
(* are first published with, the agents that produce, that register and    *)
(* that open inboxes, how many events, publishes at a time, streams,       *)
(* losses of contact and restarts there are at most, whether appends to    *)
(* the log fail, and maxAttempts of the retry command (0: nothing is       *)
(* retried).                                                               *)
Config == [escalation : Agents \cup {""},
           types : SUBSET {"handoff", "error", "complete", "step", "raw"},
           vias : SUBSET {"sdk", "rpc", "cli"}, attempts : SUBSET Nat,
           producers : SUBSET Agents, registering : SUBSET Agents,
           readers : SUBSET Agents, messages : Nat, publishers : Nat, failing : BOOLEAN,
           streams : Nat, silences : Nat, restarts : Nat, maxAttempts : Nat]

(* Ids are not empty: Validate refuses an envelope without them. *)
ASSUME ControlPlaneAssumption ==
    /\ InboxSize \in Nat \ {0} /\ PollBatch \in Nat \ {0}
    /\ Configs \subseteq Config
    /\ "" \notin Agents /\ "" \notin Sessions

VARIABLES
    conf,      \* the scenario, fixed
    topic,     \* the ring of agent-events
    wal,       \* the log: the message, the event it is a retry of, where
               \* it goes, the agent a handoff meant
    pending,   \* records of the log on their way to the ring
    poisoned,  \* an append failed
    poller,    \* pc, cursor and the messages of the batch in progress
    agents,    \* the registry: [Agents -> status, stale]
    sessions,  \* [Sessions -> run state]
    boxes,     \* [Agents -> inbox]
    stream,    \* [Streams -> OpenInbox call]
    plog,      \* history: what was published to the ring since the start
    disturbed, \* history: since the start, ring and log have parted
    routed,    \* history: offsets routed since the start, with their agents
    unrouted,  \* history: offsets counted as unrouted
    received,  \* history: [Agents -> offsets sent to it]
    dropped,   \* history: taken from an inbox by a stream that then broke
    overrun,   \* history: the ring overwrote events before they were read
    opened, silences, restarts   \* counters

plane     == <<agents, sessions, boxes>>
clients   == <<stream, received, dropped, opened>>
histories == <<routed, unrouted, overrun>>
store     == <<conf, topic, wal, pending, poisoned, plog, disturbed>>
vars == <<store, poller, plane, clients, histories, silences, restarts>>

NoPoll  == [pc |-> "idle", cursor |-> 0, msgs |-> <<>>]
Unknown == [status |-> "unknown", stale |-> FALSE]
NoRun   == [active |-> "", pending |-> "", steps |-> 0, status |-> "none"]
NoBox   == [open |-> FALSE, queue |-> <<>>]
NoStream == [pc |-> "off", agent |-> "", ev |-> 0]

Init ==
    /\ conf \in Configs /\ topic = newTopic /\ plog = <<>>
    /\ wal = <<>> /\ pending = {} /\ poisoned = FALSE /\ disturbed = FALSE
    /\ poller = NoPoll
    /\ agents = [a \in Agents |-> Unknown]
    /\ sessions = [s \in Sessions |-> NoRun]
    /\ boxes = [a \in Agents |-> NoBox]
    /\ stream = [t \in Streams |-> NoStream]
    /\ routed = {} /\ unrouted = {} /\ overrun = FALSE
    /\ received = [a \in Agents |-> <<>>] /\ dropped = {}
    /\ opened = 0 /\ silences = 0 /\ restarts = 0

-----------------------------------------------------------------------------
(* Producers *)

(* appendDurable of the gRPC server, and the publish handlers of the TCP   *)
(* server: AppendRecord, then PublishToPartition, with no lock across the  *)
(* two.  In a cluster the log of the shard and its quorum come first; an   *)
(* error there ends the publish before it reaches what is modelled here.   *)
AppendRecord(entry) ==
    /\ ~ poisoned /\ Len(wal) < conf.messages /\ Cardinality(pending) < conf.publishers
    /\ wal' = Append(wal, entry)
    /\ pending' = pending \cup {Len(wal) + 1}
    /\ UNCHANGED <<conf, topic, poisoned, plog, disturbed>>

(* The append fails, with the record in the file or not: the publish ends, *)
(* and so do those after it.                                               *)
AppendFails(entry) ==
    /\ ~ poisoned /\ conf.failing /\ Len(wal) < conf.messages
    /\ poisoned' = TRUE
    /\ wal' \in {wal, Append(wal, entry)}
    /\ disturbed' = (disturbed \/ wal' # wal)
    /\ UNCHANGED <<conf, topic, pending, plog>>

(* Or they go on without the log, if a round in progress has cleared the   *)
(* error of the poisoned log (see Delivery).                               *)
AppendUnwritten(entry) ==
    /\ poisoned /\ ~ entry.dlq /\ Len(plog) < conf.messages
    /\ topic' = Publish(topic, entry.msg)
    /\ plog' = Append(plog, entry.msg)
    /\ disturbed' = TRUE
    /\ UNCHANGED <<conf, wal, pending, poisoned>>

Store(entry) ==
    /\ AppendRecord(entry) \/ AppendFails(entry) \/ AppendUnwritten(entry)
    /\ UNCHANGED <<poller, plane, clients, histories, silences, restarts>>

(* PublishToPartition, for the record i *)
PublishToPartition(i) ==
    /\ i \in pending /\ pending' = pending \ {i}
    /\ IF wal[i].dlq THEN UNCHANGED <<topic, plog>>
       ELSE topic' = Publish(topic, wal[i].msg) /\ plog' = Append(plog, wal[i].msg)
    /\ disturbed' = (disturbed \/ \E j \in pending : j < i)
    /\ UNCHANGED <<conf, wal, poisoned, poller, plane, clients, histories, silences,
                   restarts>>

Entry(msg, origin, dlq, to) == [msg |-> msg, origin |-> origin, dlq |-> dlq, to |-> to]

(* An event is published. *)
PublishAgent ==
    \/ \E type \in conf.types \ {"handoff", "raw"}, s \in Sessions, a \in conf.producers,
          n \in conf.attempts, via \in conf.vias :
          Store(Entry(Published(Envelope(type, s, a, n, OtherBody), via),
                      Len(wal) + 1, FALSE, ""))
    \/ /\ "handoff" \in conf.types
       /\ \E s \in Sessions, a \in conf.producers, to \in Agents,
             n \in conf.attempts, via \in conf.vias :
             Store(Entry(Published(Envelope("handoff", s, a, n, HandoffBody(to)), via),
                         Len(wal) + 1, FALSE, to))
    \/ "raw" \in conf.types /\ Store(Entry(RawMessage, Len(wal) + 1, FALSE, ""))

(* The consumer of an event failed and hands it to retry-agent: to the     *)
(* topic again or to its DLQ.  That it does so once for every copy, and    *)
(* with the last one, is assumed of the users: the command does not ask.   *)
RetryAgent ==
    /\ conf.maxAttempts > 0
    /\ \E i \in 1 .. Len(wal) :
          LET e == wal[i] IN
          /\ ~ e.dlq /\ IsEvent(e.msg) /\ e.msg \in Range(plog)
          /\ \A j \in i + 1 .. Len(wal) : wal[j].origin # e.origin
          /\ Store(Entry(retryAgent(e.msg, conf.maxAttempts), e.origin,
                         DecideRetryRoute(ParseEvent(e.msg).attempt, conf.maxAttempts).toDLQ,
                         e.to))

-----------------------------------------------------------------------------
(* The registry *)

Seen(a, status) == agents' = [agents EXCEPT ![a] = [status |-> status, stale |-> FALSE]]

Revived(a) == IF agents[a].status \in {"unknown", "offline"} THEN "idle" ELSE agents[a].status

Register(a) ==
    /\ Seen(a, Revived(a)) /\ agents' # agents
    /\ UNCHANGED <<store, poller, sessions, boxes, clients, histories, silences, restarts>>

Heartbeat(a) ==
    /\ agents[a].status # "unknown"
    /\ Seen(a, Revived(a)) /\ agents' # agents
    /\ UNCHANGED <<store, poller, sessions, boxes, clients, histories, silences, restarts>>

(* The TTL passes without a sign of the agent. *)
Silence(a) ==
    /\ agents[a].status # "unknown" /\ ~ agents[a].stale /\ silences < conf.silences
    /\ silences' = silences + 1
    /\ agents' = [agents EXCEPT ![a].stale = TRUE]
    /\ UNCHANGED <<store, poller, sessions, boxes, clients, histories, restarts>>

SweepStale ==
    [a \in Agents |->
        IF agents[a].stale THEN [agents[a] EXCEPT !.status = "offline"] ELSE agents[a]]

Sweep ==
    /\ agents' = SweepStale /\ agents' # agents
    /\ UNCHANGED <<store, poller, sessions, boxes, clients, histories, silences, restarts>>

-----------------------------------------------------------------------------
(* Run states *)

(* SessionStore.Apply on one run *)
Apply(rs, e) ==
    LET to == parseToAgent(e.payload)
        start == IF rs.status = "none"
                 THEN [active |-> e.agent, pending |-> "", steps |-> 0, status |-> "running"]
                 ELSE rs
        claimed == IF start.pending # "" /\ e.agent = start.pending
                   THEN [start EXCEPT !.active = e.agent, !.pending = "", !.status = "running"]
                   ELSE start
        step == [claimed EXCEPT !.steps = @ + 1]
    IN  CASE e.type = "handoff" -> IF to = "" THEN step
                                   ELSE [step EXCEPT !.pending = to, !.status = "waiting"]
          [] e.type = "error" -> [step EXCEPT !.status = "failed"]
          [] e.type = "complete" -> [step EXCEPT !.status = "completed"]
          [] OTHER -> [step EXCEPT
                !.status = IF @ \in {"failed", "completed"} THEN @ ELSE "running"]

(* SessionStore.Escalate *)
Escalate(rs, to) == [rs EXCEPT !.pending = to, !.status = "waiting"]

-----------------------------------------------------------------------------
(* Inboxes *)

(* Mutant: one event more than the channel holds. *)
HasRoomForOneMore(a) == boxes[a].open /\ Len(boxes[a].queue) <= InboxSize

HasRoom(a) == boxes[a].open /\ Len(boxes[a].queue) < InboxSize

(* Inboxes.Deliver.  Boxes are never removed while the process runs, so    *)
(* looking one up and sending on its channel are one step.                 *)
Deliver(a, o) ==
    IF HasRoom(a)
    THEN /\ boxes' = [boxes EXCEPT ![a].queue = Append(@, o)]
         /\ routed' = routed \cup {<<o, a>>}
    ELSE UNCHANGED <<boxes, routed>>

-----------------------------------------------------------------------------
(* The poller and Ingest *)

(* Mutant: the poller starts at the tail. *)
PollNew ==
    LET cursor == IF poller.cursor = 0 THEN topic.tail - 1 ELSE poller.cursor
        msgs == Fetch(topic, cursor, PollBatch) IN
    /\ poller.pc = "idle" /\ msgs # <<>>
    /\ overrun' = (overrun \/ poller.cursor < topic.head)
    /\ poller' = [poller EXCEPT !.pc = "touch", !.msgs = msgs]
    /\ UNCHANGED <<store, plane, clients, routed, unrouted, silences, restarts>>

(* Mutant: the poller waits for a full batch. *)
PollFull ==
    LET msgs == Fetch(topic, poller.cursor, PollBatch) IN
    /\ poller.pc = "idle" /\ Len(msgs) = PollBatch
    /\ overrun' = (overrun \/ poller.cursor < topic.head)
    /\ poller' = [poller EXCEPT !.pc = "touch", !.msgs = msgs]
    /\ UNCHANGED <<store, plane, clients, routed, unrouted, silences, restarts>>

(* drainOnce reads a batch. *)
drainOnce ==
    LET msgs == Fetch(topic, poller.cursor, PollBatch) IN
    /\ poller.pc = "idle" /\ msgs # <<>>
    /\ overrun' = (overrun \/ poller.cursor < topic.head)
    /\ poller' = [poller EXCEPT !.pc = "touch", !.msgs = msgs]
    /\ UNCHANGED <<store, plane, clients, routed, unrouted, silences, restarts>>

Current == Head(poller.msgs)
Ev == ParseEvent(Current.payload)

Step(pc) == poller' = [poller EXCEPT !.pc = pc]
Advance ==
    poller' = [pc |-> IF Len(poller.msgs) = 1 THEN "idle" ELSE "touch",
               cursor |-> Current.offset + 1, msgs |-> Tail(poller.msgs)]

(* A message that is no envelope *)
Skip ==
    /\ poller.pc = "touch" /\ ~ IsEvent(Current.payload) /\ Advance
    /\ UNCHANGED <<store, plane, clients, histories, silences, restarts>>

Touch ==
    /\ poller.pc = "touch" /\ IsEvent(Current.payload)
    /\ Seen(Ev.agent, "busy") /\ Step("apply")
    /\ UNCHANGED <<store, sessions, boxes, clients, histories, silences, restarts>>

IsHandoff == Ev.type = "handoff" /\ parseToAgent(Ev.payload) # ""
IsEscalated == Ev.type = "error" /\ conf.escalation # "" /\ conf.escalation # Ev.agent

ApplyEvent ==
    /\ poller.pc = "apply"
    /\ sessions' = [sessions EXCEPT ![Ev.session] = Apply(@, Ev)]
    /\ IF IsHandoff THEN Step("deliver")
       ELSE IF IsEscalated THEN Step("escalate") ELSE Advance
    /\ UNCHANGED <<store, agents, boxes, clients, histories, silences, restarts>>

(* Mutant: a handoff that finds the inbox full is not counted. *)
RouteUncounted ==
    /\ poller.pc = "deliver"
    /\ Deliver(parseToAgent(Ev.payload), Current.offset)
    /\ unrouted' = IF boxes[parseToAgent(Ev.payload)].open THEN unrouted
                   ELSE unrouted \cup {Current.offset}
    /\ Advance
    /\ UNCHANGED <<store, agents, sessions, clients, overrun, silences, restarts>>

(* The handoff goes to its target's inbox or is counted as unrouted. *)
RouteHandoff ==
    /\ poller.pc = "deliver"
    /\ Deliver(parseToAgent(Ev.payload), Current.offset)
    /\ unrouted' = IF HasRoom(parseToAgent(Ev.payload)) THEN unrouted
                   ELSE unrouted \cup {Current.offset}
    /\ Advance
    /\ UNCHANGED <<store, agents, sessions, clients, overrun, silences, restarts>>

(* escalate: the run waits for the escalation agent, whether or not the    *)
(* event reaches its inbox.                                                *)
EscalateRun ==
    /\ poller.pc = "escalate" /\ Step("notify")
    /\ sessions' = [sessions EXCEPT ![Ev.session] = Escalate(@, conf.escalation)]
    /\ UNCHANGED <<store, agents, boxes, clients, histories, silences, restarts>>

NotifyEscalation ==
    /\ poller.pc = "notify" /\ Advance
    /\ Deliver(conf.escalation, Current.offset)
    /\ UNCHANGED <<store, agents, sessions, clients, unrouted, overrun, silences, restarts>>

Ingest == \/ Skip \/ Touch \/ ApplyEvent \/ RouteHandoff \/ EscalateRun \/ NotifyEscalation

-----------------------------------------------------------------------------
(* Service.OpenInbox *)

(* The agent is registered, then the inbox opened. *)
OpenInbox(t) ==
    /\ stream[t].pc = "off" /\ opened < conf.streams /\ opened' = opened + 1
    /\ \E a \in conf.readers :
          /\ stream' = [stream EXCEPT ![t] = [pc |-> "open", agent |-> a, ev |-> 0]]
          /\ Seen(a, Revived(a))
    /\ UNCHANGED <<store, poller, sessions, boxes, received, dropped, histories,
                   silences, restarts>>

Open(t) ==
    /\ stream[t].pc = "open"
    /\ stream' = [stream EXCEPT ![t].pc = "recv"]
    /\ boxes' = [boxes EXCEPT ![stream[t].agent].open = TRUE]
    /\ UNCHANGED <<store, poller, agents, sessions, received, dropped, opened, histories,
                   silences, restarts>>

Receive(t) ==
    LET a == stream[t].agent IN
    /\ stream[t].pc = "recv" /\ boxes[a].queue # <<>>
    /\ stream' = [stream EXCEPT ![t].pc = "send", ![t].ev = Head(boxes[a].queue)]
    /\ boxes' = [boxes EXCEPT ![a].queue = Tail(@)]
    /\ UNCHANGED <<store, poller, agents, sessions, received, dropped, opened, histories,
                   silences, restarts>>

Send(t) ==
    /\ stream[t].pc = "send"
    /\ received' = [received EXCEPT ![stream[t].agent] = Append(@, stream[t].ev)]
    /\ stream' = [stream EXCEPT ![t].pc = "recv", ![t].ev = 0]
    /\ UNCHANGED <<store, poller, plane, dropped, opened, histories, silences, restarts>>

(* The client is gone: Send fails with the event in hand, or the context   *)
(* ends the loop.                                                          *)
Disconnect(t) ==
    /\ stream[t].pc \in {"recv", "send"}
    /\ dropped' = IF stream[t].pc = "send"
                  THEN dropped \cup {<<stream[t].ev, stream[t].agent>>} ELSE dropped
    /\ stream' = [stream EXCEPT ![t] = NoStream]
    /\ UNCHANGED <<store, poller, plane, received, opened, histories, silences, restarts>>

-----------------------------------------------------------------------------
(* The messages that the entries w of the log have for the topic, in order *)
MessagesOf(w) ==
    LET m[n \in 0 .. Len(w)] == IF n = 0 THEN <<>>
                                ELSE IF w[n].dlq THEN m[n - 1]
                                ELSE Append(m[n - 1], w[n].msg)
    IN  m[Len(w)]

(* The messages of the topic, as the replay of the log publishes them *)
Messages == MessagesOf(wal)

(* The process ends, with publishes in progress or not; the next one       *)
(* replays its log, of which nothing is lost (what a crash may lose is in  *)
(* Delivery), and NewPoller begins at offset 0.                            *)
Restart ==
    /\ restarts < conf.restarts /\ restarts' = restarts + 1
    /\ topic' = Replayed(Messages) /\ plog' = Messages
    /\ pending' = {} /\ poisoned' = FALSE /\ disturbed' = FALSE
    /\ poller' = NoPoll
    /\ agents' = [a \in Agents |-> Unknown]
    /\ sessions' = [s \in Sessions |-> NoRun]
    /\ boxes' = [a \in Agents |-> NoBox]
    /\ stream' = [t \in Streams |-> NoStream]
    /\ routed' = {} /\ unrouted' = {} /\ overrun' = FALSE
    /\ received' = [a \in Agents |-> <<>>] /\ dropped' = {}
    /\ UNCHANGED <<conf, wal, opened, silences>>

Next ==
    \/ PublishAgent \/ RetryAgent \/ \E i \in pending : PublishToPartition(i)
    \/ \E a \in conf.registering : Register(a) \/ Heartbeat(a)
    \/ \E a \in Agents : Silence(a)
    \/ Sweep
    \/ drainOnce \/ Ingest
    \/ \E t \in Streams : OpenInbox(t) \/ Open(t) \/ Receive(t) \/ Send(t) \/ Disconnect(t)
    \/ Restart

Spec == Init /\ [][Next]_vars

(* The poller's ticker goes on, goroutines are scheduled, a Send returns   *)
(* one way or the other, and the sweeper's ticker goes on.                 *)
Fairness ==
    /\ WF_vars(drainOnce) /\ WF_vars(Ingest) /\ WF_vars(Sweep)
    /\ \A t \in Streams :
          /\ WF_vars(Open(t)) /\ WF_vars(Receive(t))
          /\ WF_vars(stream[t].pc = "send" /\ (Send(t) \/ Disconnect(t)))

FairSpec == Spec /\ Fairness

-----------------------------------------------------------------------------
(* The messages producers make: envelopes around a body or, from the SDK,  *)
(* around another envelope, and others.                                    *)
Bodies == {HandoffBody(a) : a \in Agents} \cup {OtherBody}

Envelopes(P) == [type : {"handoff", "error", "complete", "step"}, session : Sessions,
                 agent : Agents, attempt : Nat, payload : P]

Message == Envelopes(Bodies \cup Envelopes(Bodies)) \cup {RawMessage}

LogEntry == [msg : Message, origin : Nat, dlq : BOOLEAN, to : Agents \cup {""}]

LogOK ==
    /\ conf \in Configs /\ topic \in Rings(Message) /\ plog \in Seq(Message)
    /\ wal \in Seq(LogEntry) /\ pending \in SUBSET (1 .. Len(wal))
    /\ poisoned \in BOOLEAN /\ disturbed \in BOOLEAN

(* The cursor, and how far Ingest is in the batch read last *)
Poller == [pc : {"idle", "touch", "apply", "deliver", "escalate", "notify"},
           cursor : Nat, msgs : Seq(Slots(Message))]

PollerOK ==
    /\ poller \in Poller
    /\ poller.pc = "idle" <=> poller.msgs = <<>>

(* AgentInfo is a status and whether LastSeen is older than the TTL; an    *)
(* agent or a session that the maps do not have is "unknown" or "none".    *)
Registry == [Agents -> [status : {"unknown", "idle", "busy", "offline"}, stale : BOOLEAN]]

RunState == [active : Agents \cup {""}, pending : Agents \cup {""}, steps : Nat,
             status : {"none", "running", "waiting", "failed", "completed"}]

(* a channel, once the agent opened it *)
Inbox == [open : BOOLEAN, queue : Seq(Nat)]

Calls == [Streams -> [pc : {"off", "open", "recv", "send"}, agent : Agents \cup {""},
                      ev : Nat]]

PlaneOK ==
    /\ agents \in Registry /\ sessions \in [Sessions -> RunState]
    /\ boxes \in [Agents -> Inbox]

ClientsOK ==
    /\ stream \in Calls
    /\ \A t \in Streams : stream[t].pc # "off" => stream[t].agent \in Agents
    /\ received \in [Agents -> Seq(Nat)] /\ dropped \in SUBSET (Nat \X Agents)

(* Types: the poller is between two batches exactly when it holds no       *)
(* message, a stream that was opened belongs to an agent, and an inbox     *)
(* holds no more than its channel does, and nothing before it was opened.  *)
TypeOK ==
    /\ LogOK /\ PollerOK /\ PlaneOK /\ ClientsOK
    /\ \A a \in Agents : /\ Len(boxes[a].queue) <= InboxSize
                         /\ boxes[a].queue # <<>> => boxes[a].open
    /\ routed \in SUBSET (Nat \X Agents) /\ unrouted \in SUBSET Nat /\ overrun \in BOOLEAN
    /\ opened \in Nat /\ silences \in Nat /\ restarts \in Nat

-----------------------------------------------------------------------------
(* What Ingest makes of one message, in one piece, if esc is the agent to  *)
(* escalate to                                                             *)
IngestWhole(ss, m, esc) ==
    LET e == ParseEvent(m)
        applied == Apply(ss[e.session], e)
    IN  IF ~ IsEvent(m) THEN ss
        ELSE [ss EXCEPT ![e.session] =
                IF e.type = "error" /\ esc \notin {"", e.agent}
                THEN Escalate(applied, esc) ELSE applied]

(* The runs after Ingest saw the messages s *)
RunsAfter(s, esc) ==
    LET f[n \in 0 .. Len(s)] == IF n = 0 THEN [r \in Sessions |-> NoRun]
                                ELSE IngestWhole(f[n - 1], s[n], esc)
    IN  f[Len(s)]

CaughtUp == poller.pc = "idle" /\ poller.cursor = topic.tail

(* On startup the poller reads from offset 0, which "rebuilds              *)
(* control-plane state" (poller.go): whenever it has caught up, in the     *)
(* first life or after a crash anywhere in Ingest, the runs are what the   *)
(* whole topic makes of them, and every agent that produced an event is    *)
(* registered; unless the ring had overwritten events unread.  They are    *)
(* what the log makes of them, and so what the next start will rebuild,    *)
(* when no publish is in progress, as long as records went to the ring in  *)
(* the order of the log, none stayed there after an append that failed,    *)
(* and none was published unwritten.                                       *)
RebuiltFromLog ==
    CaughtUp /\ ~ overrun =>
        /\ sessions = RunsAfter(plog, conf.escalation)
        /\ \A i \in 1 .. Len(plog) :
              IsEvent(plog[i]) => agents[ParseEvent(plog[i]).agent].status # "unknown"
        /\ pending = {} /\ ~ disturbed => sessions = RunsAfter(Messages, conf.escalation)

(* The agent that the event at an offset hands its run to *)
HandedTo(o) ==
    LET e == ParseEvent(plog[o + 1])
    IN  IF e.type = "handoff" THEN parseToAgent(e.payload) ELSE ""

(* The offsets waiting in an inbox or in the hand of a stream *)
Pending(a) ==
    LET sending == {t \in Streams : stream[t].agent = a /\ stream[t].pc = "send"}
    IN  Range(boxes[a].queue) \cup {stream[t].ev : t \in sending}

(* Ingest accounts for every handoff it has passed exactly once, as routed *)
(* or as unrouted, and a routed event is in one place: in its agent's      *)
(* inbox, with a stream, received, or dropped by a stream that broke;      *)
(* whatever streams share an inbox, fill it or come and go.                *)
HandoffsAccounted ==
    /\ \A o \in 0 .. poller.cursor - 1 :
          ~ overrun /\ HandedTo(o) # "" =>
             (<<o, HandedTo(o)>> \in routed) # (o \in unrouted)
    /\ \A a \in Agents :
          /\ {o \in 0 .. Len(plog) : <<o, a>> \in routed}
                = Pending(a) \cup Range(received[a])
                     \cup {o \in 0 .. Len(plog) : <<o, a>> \in dropped}
          /\ IsInjective(received[a]) /\ IsInjective(boxes[a].queue)
          /\ Range(received[a]) \cap Pending(a) = {}

(* retry-agent ends: with the maximum set, the log has an event for the    *)
(* topic at most that many times, whatever its first publisher wrote as    *)
(* its attempt number or the server dropped of it, and at most once for    *)
(* the DLQ, if every copy is retried once (which retry-agent leaves to its *)
(* users).                                                                 *)
RetriesBounded ==
    conf.maxAttempts > 0 => \A i \in 1 .. Len(wal) :
        LET copies(dlq) == {j \in 1 .. Len(wal) : wal[j].origin = i /\ wal[j].dlq = dlq}
        IN  /\ Cardinality(copies(FALSE)) <= conf.maxAttempts
            /\ Cardinality(copies(TRUE)) <= 1

Connected(a) == \E t \in Streams : stream[t].agent = a /\ stream[t].pc \in {"recv", "send"}

(* From the topic to the agent: a handoff published while its target is    *)
(* connected is received, or was counted as unrouted, or fell to a stream  *)
(* that broke, or the target is no longer connected (a restart is such a   *)
(* moment).                                                                *)
HandoffIsReceived ==
    \A a \in Agents, o \in 0 .. MaxOffset :
        (o < topic.tail /\ HandedTo(o) = a /\ Connected(a))
            ~> \/ o \in Range(received[a]) \cup unrouted \/ <<o, a>> \in dropped
               \/ overrun \/ ~ Connected(a)

(* "waiting: handed off, awaiting the target agent's first event", for as  *)
(* long as PendingAgent is set (session.go).                               *)
WaitsForPickup ==
    \A s \in Sessions : sessions[s].pending # "" => sessions[s].status = "waiting"

(* Ingest "routes handoffs to the target agent's inbox": every handoff     *)
(* that names a target, by whatever way it was published, is routed or     *)
(* counted as unrouted.                                                    *)
HandoffReachesRouter ==
    \A i \in 1 .. Len(wal) :
        ~ wal[i].dlq /\ wal[i].to # "" /\ poller.cursor >= i /\ ~ overrun
          /\ conf.maxAttempts = 0 /\ i \notin pending /\ ~ disturbed =>
            i - 1 \in unrouted \/ <<i - 1, wal[i].to>> \in routed

(* "replaying a WAL-restored topic rebuilds control-plane state", without  *)
(* the proviso about the ring,                                             *)
RebuildIsComplete == CaughtUp => sessions = RunsAfter(plog, conf.escalation)

(* and without the one about the order of publishes: what the log rebuilds *)
(* is the state there was.                                                 *)
RebuildIsTheSame ==
    CaughtUp /\ ~ overrun /\ pending = {} /\ ~ poisoned =>
        sessions = RunsAfter(Messages, conf.escalation)
=============================================================================
