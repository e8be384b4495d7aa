------------------------- MODULE ControlPlaneProofs -------------------------
(***************************************************************************)
(* The agent control plane, for any number of agents, sessions, streams,   *)
(* events, retries, silences and restarts, and every size of the inboxes,  *)
(* the batches and the ring.                                               *)
(***************************************************************************)
EXTENDS ControlPlane, TopicRingProofs, FiniteSetTheorems

-----------------------------------------------------------------------------
(* Envelopes *)

Payloads == Bodies \cup Envelopes(Bodies)

(* What Envelope makes has the fields it was given. *)
LEMMA EnvelopeFields ==
    ASSUME NEW ty, NEW s, NEW a, NEW n, NEW p
    PROVE  LET m == Envelope(ty, s, a, n, p) IN
           /\ m.type = ty /\ m.session = s /\ m.agent = a /\ m.attempt = n /\ m.payload = p
           /\ DOMAIN m = {"type", "session", "agent", "attempt", "payload"}
  BY DEF Envelope

(* ParseEvent takes an envelope for what it is. *)
LEMMA ParseIsInverse ==
    ASSUME NEW m \in Envelopes(Payloads)
    PROVE  ParseEvent(m) = m /\ IsEvent(m)
  <1>1. DOMAIN m = {"type", "session", "agent", "attempt", "payload"} BY DEF Envelopes
  <1>2. m = [type |-> m.type, session |-> m.session, agent |-> m.agent,
             attempt |-> m.attempt, payload |-> m.payload]
    BY DEF Envelopes
  <1>3. ParseEvent(m) = m BY <1>1, <1>2 DEF ParseEvent, Field, Envelope
  <1>4. m.session \in Sessions /\ m.agent \in Agents
        /\ m.type \in {"handoff", "error", "complete", "step"}
    BY DEF Envelopes
  <1>5. Validate(m) BY <1>4, ControlPlaneAssumption DEF Validate
  <1> QED BY <1>3, <1>5 DEF IsEvent

(* A message that is no envelope is no event. *)
LEMMA RawIsNoEvent == ~ IsEvent(RawMessage) /\ ParseEvent(RawMessage).type = ""
  BY DEF IsEvent, RawMessage, ParseEvent, Field, Validate, Envelope

(* The target of a handoff is an agent or none. *)
LEMMA TargetIsAgent ==
    ASSUME NEW p \in Payloads PROVE parseToAgent(p) \in Agents \cup {""}
  <1>1. CASE p \in Envelopes(Bodies)
    <2>1. DOMAIN p = {"type", "session", "agent", "attempt", "payload"} BY <1>1 DEF Envelopes
    <2> QED BY <2>1 DEF parseToAgent, Field
  <1>2. CASE p = OtherBody BY <1>2 DEF parseToAgent, Field, OtherBody
  <1>3. CASE \E a \in Agents : p = HandoffBody(a)
    <2>1. PICK a \in Agents : p = HandoffBody(a) BY <1>3
    <2>2. DOMAIN p = {"to_agent"} /\ p.to_agent = a BY <2>1 DEF HandoffBody
    <2> QED BY <2>2 DEF parseToAgent, Field
  <1> QED BY <1>1, <1>2, <1>3 DEF Payloads, Bodies

-----------------------------------------------------------------------------
(* The topic as the log has it *)

(* The messages of the topic, entry by entry of the log *)
LEMMA MessagesSteps ==
    ASSUME NEW w \in Seq(LogEntry)
    PROVE  \E m : /\ m[0] = <<>> /\ MessagesOf(w) = m[Len(w)]
                  /\ \A n \in 1 .. Len(w) :
                        m[n] = IF w[n].dlq THEN m[n - 1] ELSE Append(m[n - 1], w[n].msg)
  <1> DEFINE Grow(x, n) == IF w[n].dlq THEN x ELSE Append(x, w[n].msg)
  <1> HIDE DEF Grow
  <1> DEFINE Good(k, t) == /\ t[0] = <<>>
                           /\ \A n \in 1 .. k : t[n] = Grow(t[n - 1], n)
             T == {k \in Nat : \E t : Good(k, t)}
  <1>1. 0 \in T
    <2>1. Good(0, [n \in 0 .. 0 |-> <<>>]) OBVIOUS
    <2> HIDE DEF Good
    <2> QED BY <2>1
  <1>2. ASSUME NEW k \in T PROVE k + 1 \in T
    <2>1. PICK t : Good(k, t) OBVIOUS
    <2> DEFINE u == [n \in 0 .. k + 1 |-> IF n = k + 1 THEN Grow(t[k], k + 1) ELSE t[n]]
    <2>2. u[0] = <<>> BY <2>1
    <2>3. ASSUME NEW n \in 1 .. k + 1 PROVE u[n] = Grow(u[n - 1], n)
      <3>1. CASE n = k + 1
        <4>1. n - 1 = k /\ k \in 0 .. k + 1 /\ k # k + 1 BY <3>1
        <4>2. u[n - 1] = t[k] /\ u[n] = Grow(t[k], k + 1) BY <3>1, <4>1
        <4> QED BY <3>1, <4>2
      <3>2. CASE n # k + 1
        <4>1. n \in 1 .. k /\ n \in 0 .. k + 1 /\ n - 1 \in 0 .. k + 1 /\ n - 1 # k + 1
          BY <3>2
        <4>2. u[n] = t[n] /\ u[n - 1] = t[n - 1] BY <3>2, <4>1
        <4> QED BY <2>1, <4>1, <4>2
      <3> QED BY <3>1, <3>2
    <2>4. Good(k + 1, u) BY <2>2, <2>3
    <2> HIDE DEF Good, u
    <2> QED BY <2>4
  <1>3. T = Nat
    <2>1. T \in SUBSET Nat OBVIOUS
    <2> HIDE DEF T
    <2> QED BY <1>1, <1>2, <2>1, Induction
  <1>4. PICK t : Good(Len(w), t)
    <2>1. Len(w) \in T
      <3>1. Len(w) \in Nat OBVIOUS
      <3> HIDE DEF T
      <3> QED BY <1>3, <3>1
    <2> HIDE DEF Good
    <2> QED BY <2>1
  <1> DEFINE Def(f) == [n \in 0 .. Len(w) |-> IF n = 0 THEN <<>> ELSE Grow(f[n - 1], n)]
             v == [n \in 0 .. Len(w) |-> t[n]]
             r == CHOOSE f : f = Def(f)
  <1>5. v = Def(v)
    <2>1. ASSUME NEW n \in 0 .. Len(w)
          PROVE  v[n] = IF n = 0 THEN <<>> ELSE Grow(v[n - 1], n)
      <3>1. CASE n = 0 BY <1>4, <3>1
      <3>2. CASE n # 0
        <4>1. n \in 1 .. Len(w) /\ n - 1 \in 0 .. Len(w) BY <3>2
        <4> QED BY <1>4, <3>2, <4>1
      <3> QED BY <3>1, <3>2
    <2> QED BY <2>1
  <1>6. r = Def(r)
    <2> HIDE DEF Def
    <2> QED BY <1>5
  <1>7. MessagesOf(w) = r[Len(w)] BY DEF MessagesOf, Grow
  <1> HIDE DEF r
  <1>8. r[0] = <<>> BY <1>6
  <1>9. ASSUME NEW n \in 1 .. Len(w) PROVE r[n] = Grow(r[n - 1], n)
    <2>1. n \in 0 .. Len(w) /\ n # 0 OBVIOUS
    <2> QED BY <1>6, <2>1
  <1> QED BY <1>7, <1>8, <1>9 DEF Grow

(* They are messages, no more than entries, *)
LEMMA MessagesType ==
    ASSUME NEW w \in Seq(LogEntry)
    PROVE  MessagesOf(w) \in Seq(Message) /\ Len(MessagesOf(w)) <= Len(w)
  <1>1. PICK m : /\ m[0] = <<>> /\ MessagesOf(w) = m[Len(w)]
                 /\ \A n \in 1 .. Len(w) :
                       m[n] = IF w[n].dlq THEN m[n - 1] ELSE Append(m[n - 1], w[n].msg)
    BY MessagesSteps
  <1> DEFINE Typed(n) == m[n] \in Seq(Message) /\ Len(m[n]) <= n
             T == {n \in Nat : n <= Len(w) => Typed(n)}
  <1>2. 0 \in T
    <2>1. <<>> \in Seq(Message) /\ Len(<<>>) = 0 OBVIOUS
    <2>2. Typed(0) BY <1>1, <2>1
    <2> HIDE DEF Typed
    <2> QED BY <2>2
  <1>3. ASSUME NEW n \in T PROVE n + 1 \in T
    <2> SUFFICES ASSUME n + 1 <= Len(w) PROVE Typed(n + 1)
      OBVIOUS
    <2>1. n \in Nat /\ n <= Len(w) /\ n + 1 \in 1 .. Len(w) /\ (n + 1) - 1 = n OBVIOUS
    <2>2. Typed(n) BY <2>1
    <2>3. w[n + 1].msg \in Message
      <3>1. w[n + 1] \in LogEntry BY <2>1
      <3> QED BY <3>1 DEF LogEntry
    <2>4. m[n + 1] = IF w[n + 1].dlq THEN m[n] ELSE Append(m[n], w[n + 1].msg)
      BY <1>1, <2>1
    <2>5. CASE w[n + 1].dlq BY <2>1, <2>2, <2>4, <2>5
    <2>6. CASE ~ w[n + 1].dlq
      <3>1. m[n + 1] = Append(m[n], w[n + 1].msg) BY <2>4, <2>6
      <3> QED BY <2>1, <2>2, <2>3, <3>1
    <2> QED BY <2>5, <2>6
  <1>4. T = Nat
    <2>1. T \in SUBSET Nat OBVIOUS
    <2> HIDE DEF T
    <2> QED BY <1>2, <1>3, <2>1, Induction
  <1>5. Len(w) \in Nat OBVIOUS
  <1> QED BY <1>1, <1>4, <1>5

(* none for an empty log, *)
LEMMA MessagesNone == MessagesOf(<<>>) = <<>>
  <1>1. <<>> \in Seq(LogEntry) /\ Len(<<>>) = 0 OBVIOUS
  <1> DEFINE w == <<>>
  <1> HIDE DEF w
  <1>2. w \in Seq(LogEntry) BY <1>1 DEF w
  <1>3. \E m : m[0] = <<>> /\ MessagesOf(w) = m[Len(w)] BY <1>2, MessagesSteps
  <1> QED BY <1>1, <1>3 DEF w

(* and one more after an append that is not for the DLQ. *)
LEMMA MessagesAppend ==
    ASSUME NEW w \in Seq(LogEntry), NEW r \in LogEntry
    PROVE  MessagesOf(Append(w, r))
              = IF r.dlq THEN MessagesOf(w) ELSE Append(MessagesOf(w), r.msg)
  <1> DEFINE x == Append(w, r)
  <1>1. /\ x \in Seq(LogEntry) /\ Len(x) = Len(w) + 1 /\ x[Len(w) + 1] = r
        /\ \A n \in 1 .. Len(w) : x[n] = w[n]
    OBVIOUS
  <1> HIDE DEF x
  <1>2. PICK m : /\ m[0] = <<>> /\ MessagesOf(w) = m[Len(w)]
                 /\ \A n \in 1 .. Len(w) :
                       m[n] = IF w[n].dlq THEN m[n - 1] ELSE Append(m[n - 1], w[n].msg)
    BY MessagesSteps
  <1>3. PICK o : /\ o[0] = <<>> /\ MessagesOf(x) = o[Len(x)]
                 /\ \A n \in 1 .. Len(x) :
                       o[n] = IF x[n].dlq THEN o[n - 1] ELSE Append(o[n - 1], x[n].msg)
    BY <1>1, MessagesSteps
  <1> DEFINE T == {n \in Nat : n <= Len(w) => o[n] = m[n]}
  <1>4. 0 \in T BY <1>2, <1>3
  <1>5. ASSUME NEW n \in T PROVE n + 1 \in T
    <2> SUFFICES ASSUME n + 1 <= Len(w) PROVE o[n + 1] = m[n + 1]
      OBVIOUS
    <2>1. n \in Nat /\ n <= Len(w) /\ n + 1 \in 1 .. Len(w) /\ (n + 1) - 1 = n
          /\ n + 1 \in 1 .. Len(x)
      BY <1>1
    <2>2. o[n] = m[n] /\ x[n + 1] = w[n + 1] BY <1>1, <2>1
    <2> QED BY <1>2, <1>3, <2>1, <2>2
  <1>6. T = Nat
    <2>1. T \in SUBSET Nat OBVIOUS
    <2> HIDE DEF T
    <2> QED BY <1>4, <1>5, <2>1, Induction
  <1>7. Len(w) \in Nat /\ Len(w) + 1 \in 1 .. Len(x) /\ (Len(w) + 1) - 1 = Len(w)
    BY <1>1
  <1>8. o[Len(w)] = m[Len(w)] BY <1>6, <1>7
  <1>9. o[Len(x)] = IF r.dlq THEN o[Len(w)] ELSE Append(o[Len(w)], r.msg)
    BY <1>1, <1>3, <1>7
  <1> QED BY <1>2, <1>3, <1>8, <1>9 DEF x

-----------------------------------------------------------------------------
(* The runs as the messages make them *)

(* The runs, message by message *)
LEMMA RunsSteps ==
    ASSUME NEW w \in Seq(Message), NEW esc
    PROVE  \E m : /\ m[0] = [r \in Sessions |-> NoRun] /\ RunsAfter(w, esc) = m[Len(w)]
                  /\ \A n \in 1 .. Len(w) : m[n] = IngestWhole(m[n - 1], w[n], esc)
  <1> DEFINE Grow(x, n) == IngestWhole(x, w[n], esc)
             Base == [r \in Sessions |-> NoRun]
  <1> HIDE DEF Grow, Base
  <1> DEFINE Good(k, t) == /\ t[0] = Base
                           /\ \A n \in 1 .. k : t[n] = Grow(t[n - 1], n)
             T == {k \in Nat : \E t : Good(k, t)}
  <1>1. 0 \in T
    <2>1. Good(0, [n \in 0 .. 0 |-> Base]) OBVIOUS
    <2> HIDE DEF Good
    <2> QED BY <2>1
  <1>2. ASSUME NEW k \in T PROVE k + 1 \in T
    <2>1. PICK t : Good(k, t) OBVIOUS
    <2> DEFINE u == [n \in 0 .. k + 1 |-> IF n = k + 1 THEN Grow(t[k], k + 1) ELSE t[n]]
    <2>2. u[0] = Base BY <2>1
    <2>3. ASSUME NEW n \in 1 .. k + 1 PROVE u[n] = Grow(u[n - 1], n)
      <3>1. CASE n = k + 1
        <4>1. n - 1 = k /\ k \in 0 .. k + 1 /\ k # k + 1 BY <3>1
        <4>2. u[n - 1] = t[k] /\ u[n] = Grow(t[k], k + 1) BY <3>1, <4>1
        <4> QED BY <3>1, <4>2
      <3>2. CASE n # k + 1
        <4>1. n \in 1 .. k /\ n \in 0 .. k + 1 /\ n - 1 \in 0 .. k + 1 /\ n - 1 # k + 1
          BY <3>2
        <4>2. u[n] = t[n] /\ u[n - 1] = t[n - 1] BY <3>2, <4>1
        <4> QED BY <2>1, <4>1, <4>2
      <3> QED BY <3>1, <3>2
    <2>4. Good(k + 1, u) BY <2>2, <2>3
    <2> HIDE DEF Good, u
    <2> QED BY <2>4
  <1>3. T = Nat
    <2>1. T \in SUBSET Nat OBVIOUS
    <2> HIDE DEF T
    <2> QED BY <1>1, <1>2, <2>1, Induction
  <1>4. PICK t : Good(Len(w), t)
    <2>1. Len(w) \in T
      <3>1. Len(w) \in Nat OBVIOUS
      <3> HIDE DEF T
      <3> QED BY <1>3, <3>1
    <2> HIDE DEF Good
    <2> QED BY <2>1
  <1> DEFINE Def(f) == [n \in 0 .. Len(w) |-> IF n = 0 THEN Base ELSE Grow(f[n - 1], n)]
             v == [n \in 0 .. Len(w) |-> t[n]]
             r == CHOOSE f : f = Def(f)
  <1>5. v = Def(v)
    <2>1. ASSUME NEW n \in 0 .. Len(w)
          PROVE  v[n] = IF n = 0 THEN Base ELSE Grow(v[n - 1], n)
      <3>1. CASE n = 0 BY <1>4, <3>1
      <3>2. CASE n # 0
        <4>1. n \in 1 .. Len(w) /\ n - 1 \in 0 .. Len(w) BY <3>2
        <4> QED BY <1>4, <3>2, <4>1
      <3> QED BY <3>1, <3>2
    <2> QED BY <2>1
  <1>6. r = Def(r)
    <2> HIDE DEF Def
    <2> QED BY <1>5
  <1>7. RunsAfter(w, esc) = r[Len(w)] BY DEF RunsAfter, Grow, Base
  <1> HIDE DEF r
  <1>8. r[0] = Base BY <1>6
  <1>9. ASSUME NEW n \in 1 .. Len(w) PROVE r[n] = Grow(r[n - 1], n)
    <2>1. n \in 0 .. Len(w) /\ n # 0 OBVIOUS
    <2> QED BY <1>6, <2>1
  <1> QED BY <1>7, <1>8, <1>9 DEF Grow, Base

(* None before the first message, *)
LEMMA RunsNone == ASSUME NEW esc PROVE RunsAfter(<<>>, esc) = [r \in Sessions |-> NoRun]
  <1>1. <<>> \in Seq(Message) /\ Len(<<>>) = 0 OBVIOUS
  <1> DEFINE w == <<>>
  <1> HIDE DEF w
  <1>2. w \in Seq(Message) BY <1>1 DEF w
  <1>3. \E m : m[0] = [r \in Sessions |-> NoRun] /\ RunsAfter(w, esc) = m[Len(w)]
    BY <1>2, RunsSteps
  <1> QED BY <1>1, <1>3 DEF w

(* and one message more is one Ingest more. *)
LEMMA RunsAppend ==
    ASSUME NEW w \in Seq(Message), NEW r \in Message, NEW esc
    PROVE  RunsAfter(Append(w, r), esc) = IngestWhole(RunsAfter(w, esc), r, esc)
  <1> DEFINE x == Append(w, r)
  <1>1. /\ x \in Seq(Message) /\ Len(x) = Len(w) + 1 /\ x[Len(w) + 1] = r
        /\ \A n \in 1 .. Len(w) : x[n] = w[n]
    OBVIOUS
  <1> HIDE DEF x
  <1>2. PICK m : /\ m[0] = [r0 \in Sessions |-> NoRun] /\ RunsAfter(w, esc) = m[Len(w)]
                 /\ \A n \in 1 .. Len(w) : m[n] = IngestWhole(m[n - 1], w[n], esc)
    BY RunsSteps
  <1>3. PICK o : /\ o[0] = [r0 \in Sessions |-> NoRun] /\ RunsAfter(x, esc) = o[Len(x)]
                 /\ \A n \in 1 .. Len(x) : o[n] = IngestWhole(o[n - 1], x[n], esc)
    BY <1>1, RunsSteps
  <1> DEFINE T == {n \in Nat : n <= Len(w) => o[n] = m[n]}
  <1>4. 0 \in T BY <1>2, <1>3
  <1>5. ASSUME NEW n \in T PROVE n + 1 \in T
    <2> SUFFICES ASSUME n + 1 <= Len(w) PROVE o[n + 1] = m[n + 1]
      OBVIOUS
    <2>1. n \in Nat /\ n <= Len(w) /\ n + 1 \in 1 .. Len(w) /\ (n + 1) - 1 = n
          /\ n + 1 \in 1 .. Len(x)
      BY <1>1
    <2>2. o[n] = m[n] /\ x[n + 1] = w[n + 1] BY <1>1, <2>1
    <2> QED BY <1>2, <1>3, <2>1, <2>2
  <1>6. T = Nat
    <2>1. T \in SUBSET Nat OBVIOUS
    <2> HIDE DEF T
    <2> QED BY <1>4, <1>5, <2>1, Induction
  <1>7. Len(w) \in Nat /\ Len(w) + 1 \in 1 .. Len(x) /\ (Len(w) + 1) - 1 = Len(w)
    BY <1>1
  <1>8. o[Len(w)] = m[Len(w)] BY <1>6, <1>7
  <1>9. o[Len(x)] = IngestWhole(o[Len(w)], r, esc)
    BY <1>1, <1>3, <1>7
  <1> QED BY <1>2, <1>3, <1>8, <1>9 DEF x

-----------------------------------------------------------------------------
(* Types *)

(* The parts of TypeOK that one action or the other changes *)
BoxesOK ==
    /\ boxes \in [Agents -> Inbox]
    /\ \A a \in Agents : /\ Len(boxes[a].queue) <= InboxSize
                         /\ boxes[a].queue # <<>> => boxes[a].open

StreamsOK ==
    /\ stream \in Calls
    /\ \A t \in Streams : stream[t].pc # "off" => stream[t].agent \in Agents

HistoriesOK ==
    /\ routed \in SUBSET (Nat \X Agents) /\ unrouted \in SUBSET Nat /\ overrun \in BOOLEAN
    /\ received \in [Agents -> Seq(Nat)] /\ dropped \in SUBSET (Nat \X Agents)

CountersOK == opened \in Nat /\ silences \in Nat /\ restarts \in Nat

(* What TypeOK says of the state *)
LEMMA TypeParts ==
    TypeOK <=> /\ LogOK /\ PollerOK /\ agents \in Registry /\ sessions \in [Sessions -> RunState]
               /\ BoxesOK /\ StreamsOK /\ HistoriesOK /\ CountersOK
  BY DEF TypeOK, PlaneOK, ClientsOK, Registry, RunState, Calls, Inbox, BoxesOK, StreamsOK,
         HistoriesOK, CountersOK

(* and of the next one *)
LEMMA TypePartsNext ==
    /\ LogOK' /\ PollerOK' /\ agents' \in Registry /\ sessions' \in [Sessions -> RunState]
    /\ BoxesOK' /\ StreamsOK' /\ HistoriesOK' /\ CountersOK'
    => TypeOK'
  BY DEF TypeOK, PlaneOK, ClientsOK, Registry, RunState, Calls, Inbox, BoxesOK, StreamsOK,
         HistoriesOK, CountersOK

(* The same of the next one, the other way round *)
LEMMA TypePartsOfNext == TypeOK' => LogOK'
  BY DEF TypeOK

(* The scenario's numbers *)
LEMMA ConfTyped ==
    ASSUME LogOK
    PROVE  /\ conf.escalation \in Agents \cup {""} /\ conf.attempts \subseteq Nat
           /\ conf.producers \subseteq Agents /\ conf.registering \subseteq Agents
           /\ conf.readers \subseteq Agents /\ conf.maxAttempts \in Nat
           /\ conf.types \subseteq {"handoff", "error", "complete", "step", "raw"}
           /\ conf.vias \subseteq {"sdk", "rpc", "cli"}
  BY ControlPlaneAssumption DEF LogOK, Config

(* What is published is a message, whatever the way. *)
LEMMA PublishedIsMessage ==
    ASSUME NEW ty \in {"handoff", "error", "complete", "step"}, NEW s \in Sessions,
           NEW a \in Agents, NEW n \in Nat, NEW p \in Bodies, NEW via \in {"sdk", "rpc", "cli"}
    PROVE  Published(Envelope(ty, s, a, n, p), via) \in Message
  <1> DEFINE e == Envelope(ty, s, a, n, p)
  <1>1. e.type = ty /\ e.session = s /\ e.agent = a /\ e.attempt = n /\ e.payload = p
    BY EnvelopeFields
  <1>2. e \in Envelopes(Bodies) BY DEF Envelope, Envelopes
  <1>3. \A q \in Payloads, k \in Nat : Envelope(ty, s, a, k, q) \in Message
    BY DEF Envelope, Envelopes, Message, Payloads
  <1>4. p \in Payloads /\ e \in Payloads BY <1>2 DEF Payloads
  <1> HIDE DEF e
  <1>5. encodeAgentEvent(e) = Envelope(ty, s, a, n, p) BY <1>1 DEF encodeAgentEvent
  <1>6. CASE via = "sdk"
    <2>1. Envelope(ty, s, a, n, p) = e BY DEF e
    <2>2. Published(e, via) = Envelope(ty, s, a, 0, e)
      BY <1>1, <1>5, <1>6, <2>1 DEF Published, publishAgentOnce, PublishAgentRPC
    <2> QED BY <1>3, <1>4, <2>2 DEF e
  <1>7. CASE via = "rpc"
    <2>1. Published(e, via) = Envelope(ty, s, a, 0, p)
      BY <1>1, <1>7 DEF Published, PublishAgentRPC
    <2> QED BY <1>3, <1>4, <2>1 DEF e
  <1>8. CASE via = "cli"
    <2>1. Published(e, via) = Envelope(ty, s, a, n, p) BY <1>5, <1>8 DEF Published
    <2> QED BY <1>3, <1>4, <2>1 DEF e
  <1> QED BY <1>6, <1>7, <1>8

(* An event that is retried is the event again, *)
LEMMA RetriedIsMessage ==
    ASSUME NEW m \in Message, IsEvent(m), NEW max \in Nat
    PROVE  /\ retryAgent(m, max) \in Message /\ m \in Envelopes(Payloads)
           /\ ParseEvent(m) = m /\ m.attempt \in Nat
           /\ retryAgent(m, max) \in Envelopes(Payloads)
           /\ retryAgent(m, max).attempt = (IF m.attempt < 1 THEN 1 ELSE m.attempt) + 1
           /\ DecideRetryRoute(m.attempt, max).toDLQ
                 <=> (max > 0 /\ (IF m.attempt < 1 THEN 1 ELSE m.attempt) + 1 > max)
  <1>1. m \in Envelopes(Payloads) BY RawIsNoEvent DEF Message, Payloads
  <1>2. ParseEvent(m) = m BY <1>1, ParseIsInverse
  <1>3. /\ m.attempt \in Nat /\ m.type \in {"handoff", "error", "complete", "step"}
        /\ m.session \in Sessions /\ m.agent \in Agents /\ m.payload \in Payloads
    BY <1>1 DEF Envelopes
  <1> DEFINE k == (IF m.attempt < 1 THEN 1 ELSE m.attempt) + 1
  <1>4. DecideRetryRoute(m.attempt, max).nextAttempt = k
        /\ DecideRetryRoute(m.attempt, max).toDLQ = (max > 0 /\ k > max)
    BY DEF DecideRetryRoute
  <1>5. k \in Nat BY <1>3
  <1> HIDE DEF k
  <1>6. retryAgent(m, max) = Envelope(m.type, m.session, m.agent, k, m.payload)
    BY <1>2, <1>4 DEF retryAgent
  <1>7. retryAgent(m, max) \in Envelopes(Payloads) BY <1>3, <1>5, <1>6 DEF Envelopes, Envelope
  <1>8. retryAgent(m, max).attempt = k BY <1>6, EnvelopeFields
  <1> QED BY <1>1, <1>2, <1>3, <1>4, <1>7, <1>8 DEF Message, Payloads, k

(* the message in hand is one of the topic, *)
LEMMA InHand ==
    ASSUME PollerOK, poller.msgs # <<>>
    PROVE  /\ Current = poller.msgs[1] /\ Current \in Slots(Message)
           /\ Current.offset \in Nat /\ Current.payload \in Message
           /\ Len(poller.msgs) \in Nat \ {0} /\ Tail(poller.msgs) \in Seq(Slots(Message))
           /\ Len(Tail(poller.msgs)) = Len(poller.msgs) - 1
           /\ \A i \in 1 .. Len(poller.msgs) - 1 : Tail(poller.msgs)[i] = poller.msgs[i + 1]
  <1>1. poller.msgs \in Seq(Slots(Message)) BY DEF Poller, PollerOK
  <1> DEFINE m == poller.msgs
  <1>2. m \in Seq(Slots(Message)) /\ m # <<>> BY <1>1
  <1> HIDE DEF m
  <1>3. Head(m) = m[1] /\ m[1] \in Slots(Message) /\ Len(m) \in Nat \ {0} BY <1>2
  <1>4. /\ Tail(m) \in Seq(Slots(Message)) /\ Len(Tail(m)) = Len(m) - 1
        /\ \A i \in 1 .. Len(m) - 1 : Tail(m)[i] = m[i + 1]
    BY <1>2
  <1>5. m[1].offset \in Nat /\ m[1].payload \in Message BY <1>3 DEF Slots
  <1> QED BY <1>3, <1>4, <1>5 DEF m, Current

(* and an event among them is what its producer made. *)
LEMMA EventInHand ==
    ASSUME PollerOK, poller.msgs # <<>>, IsEvent(Current.payload)
    PROVE  /\ Ev = Current.payload /\ Ev \in Envelopes(Payloads)
           /\ Ev.session \in Sessions /\ Ev.agent \in Agents
           /\ parseToAgent(Ev.payload) \in Agents \cup {""}
  <1>1. Current.payload \in Envelopes(Payloads)
    BY InHand, RawIsNoEvent DEF Message, Payloads
  <1>2. Ev = Current.payload BY <1>1, ParseIsInverse DEF Ev
  <1>3. Ev \in Envelopes(Payloads) BY <1>1, <1>2
  <1>4. Ev.session \in Sessions /\ Ev.agent \in Agents /\ Ev.payload \in Payloads
    BY <1>3 DEF Envelopes
  <1> QED BY <1>2, <1>3, <1>4, TargetIsAgent

(* A run stays a run. *)
LEMMA ApplyTyped ==
    ASSUME NEW rs \in RunState, NEW e \in Envelopes(Payloads) PROVE Apply(rs, e) \in RunState
  <1>1. e.agent \in Agents /\ e.payload \in Payloads BY DEF Envelopes
  <1>2. parseToAgent(e.payload) \in Agents \cup {""} BY <1>1, TargetIsAgent
  <1> DEFINE to == parseToAgent(e.payload)
             start == IF rs.status = "none"
                      THEN [active |-> e.agent, pending |-> "", steps |-> 0,
                            status |-> "running"]
                      ELSE rs
             claimed == IF start.pending # "" /\ e.agent = start.pending
                        THEN [start EXCEPT !.active = e.agent, !.pending = "",
                                           !.status = "running"]
                        ELSE start
             step == [claimed EXCEPT !.steps = @ + 1]
  <1>3. start \in RunState BY <1>1 DEF RunState
  <1> HIDE DEF start
  <1>4. claimed \in RunState BY <1>1, <1>3 DEF RunState
  <1> HIDE DEF claimed
  <1>5. step \in RunState
    <2>1. ASSUME NEW c \in RunState PROVE [c EXCEPT !.steps = @ + 1] \in RunState
      <3>1. c.steps \in Nat BY DEF RunState
      <3>2. c.steps + 1 \in Nat BY <3>1
      <3> QED BY <3>2 DEF RunState
    <2> QED BY <1>4, <2>1
  <1> HIDE DEF step, to
  <1>6. Apply(rs, e) =
          CASE e.type = "handoff" -> IF to = "" THEN step
                                     ELSE [step EXCEPT !.pending = to, !.status = "waiting"]
            [] e.type = "error" -> [step EXCEPT !.status = "failed"]
            [] e.type = "complete" -> [step EXCEPT !.status = "completed"]
            [] OTHER -> [step EXCEPT
                  !.status = IF @ \in {"failed", "completed"} THEN @ ELSE "running"]
    BY DEF Apply, start, claimed, step, to
  <1>7. to \in Agents \cup {""} BY <1>2 DEF to
  <1>8. /\ [step EXCEPT !.pending = to, !.status = "waiting"] \in RunState
        /\ [step EXCEPT !.status = "failed"] \in RunState
        /\ [step EXCEPT !.status = "completed"] \in RunState
        /\ [step EXCEPT !.status = IF @ \in {"failed", "completed"} THEN @ ELSE "running"]
              \in RunState
    BY <1>5, <1>7 DEF RunState
  <1> QED BY <1>5, <1>6, <1>8

-----------------------------------------------------------------------------
(* The topic and the poller *)

(* The ring shows the end of what was published. *)
TopicInv == Shows(topic, plog)

Offset(i) == poller.msgs[i].offset

(* The batch is a stretch of the topic at the cursor, or after it if the   *)
(* ring had moved on, and Ingest is only past its checks with an event     *)
(* that passed them.                                                       *)
BatchInv ==
    /\ poller.cursor <= Len(plog)
    /\ \A i \in 1 .. Len(poller.msgs) :
          /\ Offset(i) = Offset(1) + i - 1 /\ Offset(i) < Len(plog)
          /\ poller.msgs[i].payload = plog[Offset(i) + 1]
    /\ poller.msgs # <<>> => /\ Offset(1) >= poller.cursor
                             /\ ~ overrun => Offset(1) = poller.cursor
    /\ poller.pc \in {"apply", "deliver", "escalate", "notify"} => IsEvent(Current.payload)
    /\ poller.pc = "deliver" => IsHandoff
    /\ poller.pc \in {"escalate", "notify"} => IsEscalated

BaseInv == TypeOK /\ TopicInv /\ BatchInv

(* The inboxes of a process that starts *)
LEMMA EmptyBoxes ==
    ASSUME NEW b, b = [a \in Agents |-> NoBox]
    PROVE  /\ b \in [Agents -> Inbox]
           /\ \A a \in Agents : /\ Len(b[a].queue) <= InboxSize
                                /\ b[a].queue # <<>> => b[a].open
  <1>1. NoBox \in Inbox /\ NoBox.queue = <<>> BY DEF NoBox, Inbox
  <1>2. Len(<<>>) = 0 OBVIOUS
  <1>3. InboxSize \in Nat BY ControlPlaneAssumption
  <1>4. \A a \in Agents : b[a] = NoBox OBVIOUS
  <1> QED BY <1>1, <1>2, <1>3, <1>4

(* It holds of a new process. *)
LEMMA BaseInit == Init => BaseInv
  <1> SUFFICES ASSUME Init PROVE BaseInv
    OBVIOUS
  <1>1. <<>> \in Seq(LogEntry) /\ <<>> \in Seq(Slots(Message)) /\ <<>> \in Seq(Nat)
        /\ <<>> \in Seq(Message) /\ Len(<<>>) = 0
    OBVIOUS
  <1>2. LogOK BY <1>1, NewShows DEF LogOK, Init
  <1>3. poller = NoPoll /\ poller.pc = "idle" /\ poller.cursor = 0 /\ poller.msgs = <<>>
    BY DEF Init, NoPoll
  <1>4. PollerOK BY <1>1, <1>3 DEF Poller, PollerOK, NoPoll
  <1>5. agents \in Registry BY DEF Init, Registry, Unknown
  <1>6. sessions \in [Sessions -> RunState] BY DEF Init, RunState, NoRun
  <1>7. BoxesOK BY EmptyBoxes DEF Init, BoxesOK
  <1>8. StreamsOK BY DEF Init, StreamsOK, Calls, NoStream
  <1>9. HistoriesOK /\ CountersOK BY <1>1 DEF Init, HistoriesOK, CountersOK
  <1>10. TypeOK BY <1>2, <1>4, <1>5, <1>6, <1>7, <1>8, <1>9, TypeParts
  <1>11. plog = <<>> BY DEF Init
  <1>12. TopicInv BY <1>11, NewShows DEF TopicInv, Init
  <1>13. BatchInv BY <1>3, <1>11 DEF BatchInv
  <1> QED BY <1>10, <1>12, <1>13 DEF BaseInv

(* The messages of the topic, as they were published and as the log has    *)
(* them                                                                    *)
LEMMA PublishedTyped ==
    ASSUME LogOK
    PROVE  /\ plog \in Seq(Message) /\ Len(plog) \in Nat
           /\ Messages \in Seq(Message) /\ Len(Messages) \in Nat
  <1>1. wal \in Seq(LogEntry) /\ plog \in Seq(Message) BY DEF LogOK
  <1>2. Messages \in Seq(Message) BY <1>1, MessagesType DEF Messages
  <1> QED BY <1>1, <1>2

(* A producer stores an entry of the log: a new event, or the next attempt *)
(* at an event that was not retried before.                                *)
LEMMA ProducersStore ==
    ASSUME LogOK, PublishAgent \/ RetryAgent
    PROVE  \E r \in LogEntry :
              /\ Store(r)
              /\ \/ ~ r.dlq /\ r.origin = Len(wal) + 1
                 \/ \E i \in 1 .. Len(wal) :
                       /\ conf.maxAttempts > 0 /\ ~ wal[i].dlq /\ IsEvent(wal[i].msg)
                       /\ \A j \in i + 1 .. Len(wal) : wal[j].origin # wal[i].origin
                       /\ r = Entry(retryAgent(wal[i].msg, conf.maxAttempts), wal[i].origin,
                                    DecideRetryRoute(ParseEvent(wal[i].msg).attempt,
                                                     conf.maxAttempts).toDLQ,
                                    wal[i].to)
  <1>1. wal \in Seq(LogEntry) /\ Len(wal) + 1 \in Nat BY DEF LogOK
  <1>2. ASSUME NEW m \in Message, NEW to \in Agents \cup {""}
        PROVE  /\ Entry(m, Len(wal) + 1, FALSE, to) \in LogEntry
               /\ Entry(m, Len(wal) + 1, FALSE, to).dlq = FALSE
               /\ Entry(m, Len(wal) + 1, FALSE, to).origin = Len(wal) + 1
    BY <1>1 DEF Entry, LogEntry
  <1>3. CASE PublishAgent
    <2>1. ASSUME NEW ty \in conf.types \ {"handoff", "raw"}, NEW s \in Sessions,
                 NEW a \in conf.producers, NEW n \in conf.attempts, NEW via \in conf.vias
          PROVE  Published(Envelope(ty, s, a, n, OtherBody), via) \in Message
      <3>1. /\ ty \in {"handoff", "error", "complete", "step"} /\ a \in Agents /\ n \in Nat
            /\ via \in {"sdk", "rpc", "cli"} /\ OtherBody \in Bodies
        BY ConfTyped DEF Bodies
      <3> QED BY <3>1, PublishedIsMessage
    <2>2. ASSUME NEW s \in Sessions, NEW a \in conf.producers, NEW to \in Agents,
                 NEW n \in conf.attempts, NEW via \in conf.vias
          PROVE  Published(Envelope("handoff", s, a, n, HandoffBody(to)), via) \in Message
      <3>1. /\ "handoff" \in {"handoff", "error", "complete", "step"}
            /\ a \in Agents /\ n \in Nat
            /\ via \in {"sdk", "rpc", "cli"} /\ HandoffBody(to) \in Bodies
        BY ConfTyped DEF Bodies
      <3> QED BY <3>1, PublishedIsMessage
    <2>3. RawMessage \in Message BY DEF Message
    <2>4. \E m \in Message, to \in Agents \cup {""} :
             Store(Entry(m, Len(wal) + 1, FALSE, to))
      <3>1. CASE \E type \in conf.types \ {"handoff", "raw"}, s \in Sessions,
                    a \in conf.producers, n \in conf.attempts, via \in conf.vias :
                    Store(Entry(Published(Envelope(type, s, a, n, OtherBody), via),
                                Len(wal) + 1, FALSE, ""))
        BY <2>1, <3>1
      <3>2. CASE \E s \in Sessions, a \in conf.producers, to \in Agents,
                    n \in conf.attempts, via \in conf.vias :
                    Store(Entry(Published(Envelope("handoff", s, a, n, HandoffBody(to)), via),
                                Len(wal) + 1, FALSE, to))
        BY <2>2, <3>2
      <3>3. CASE Store(Entry(RawMessage, Len(wal) + 1, FALSE, "")) BY <2>3, <3>3
      <3> QED BY <1>3, <3>1, <3>2, <3>3 DEF PublishAgent
    <2>5. PICK m \in Message, to \in Agents \cup {""} :
             Store(Entry(m, Len(wal) + 1, FALSE, to))
      BY <2>4
    <2> DEFINE r == Entry(m, Len(wal) + 1, FALSE, to)
    <2>6. r \in LogEntry /\ ~ r.dlq /\ r.origin = Len(wal) + 1 /\ Store(r) BY <1>2, <2>5
    <2> QED BY <2>6
  <1>4. CASE RetryAgent
    <2>1. PICK i \in 1 .. Len(wal) :
             /\ ~ wal[i].dlq /\ IsEvent(wal[i].msg)
             /\ \A j \in i + 1 .. Len(wal) : wal[j].origin # wal[i].origin
             /\ Store(Entry(retryAgent(wal[i].msg, conf.maxAttempts), wal[i].origin,
                            DecideRetryRoute(ParseEvent(wal[i].msg).attempt,
                                             conf.maxAttempts).toDLQ, wal[i].to))
      BY <1>4 DEF RetryAgent
    <2>2. wal[i] \in LogEntry BY <1>1
    <2>3. wal[i].msg \in Message /\ wal[i].origin \in Nat /\ wal[i].to \in Agents \cup {""}
      BY <2>2 DEF LogEntry
    <2>4. retryAgent(wal[i].msg, conf.maxAttempts) \in Message
      BY <2>1, <2>3, ConfTyped, RetriedIsMessage
    <2>5. DecideRetryRoute(ParseEvent(wal[i].msg).attempt, conf.maxAttempts).toDLQ \in BOOLEAN
      BY DEF DecideRetryRoute
    <2>6. Entry(retryAgent(wal[i].msg, conf.maxAttempts), wal[i].origin,
                DecideRetryRoute(ParseEvent(wal[i].msg).attempt, conf.maxAttempts).toDLQ,
                wal[i].to) \in LogEntry
      BY <2>3, <2>4, <2>5 DEF Entry, LogEntry
    <2>7. conf.maxAttempts > 0 BY <1>4 DEF RetryAgent
    <2> QED BY <2>1, <2>6, <2>7
  <1> QED BY <1>3, <1>4

(* What producers and their publishes do *)
Producing == PublishAgent \/ RetryAgent \/ \E i \in pending : PublishToPartition(i)

(* The next message of the topic *)
LEMMA PublishGrows ==
    ASSUME LogOK, TopicInv, NEW m \in Message,
           topic' = Publish(topic, m), plog' = Append(plog, m)
    PROVE  /\ topic' \in Rings(Message) /\ TopicInv' /\ plog' \in Seq(Message)
           /\ Len(plog) <= Len(plog') /\ \A i \in 1 .. Len(plog) : plog'[i] = plog[i]
  <1>1. topic \in Rings(Message) /\ plog \in Seq(Message) BY DEF LogOK
  <1>2. Publish(topic, m) \in Rings(Message) /\ Shows(Publish(topic, m), Append(plog, m))
    BY <1>1, PublishShows DEF TopicInv
  <1>3. /\ Append(plog, m) \in Seq(Message) /\ Len(plog) <= Len(Append(plog, m))
        /\ \A i \in 1 .. Len(plog) : Append(plog, m)[i] = plog[i]
    BY <1>1
  <1> QED BY <1>2, <1>3 DEF TopicInv

(* They leave the control plane alone, and what was published stays. *)
LEMMA ProducersKeep ==
    ASSUME LogOK, TopicInv, Producing
    PROVE  /\ LogOK' /\ TopicInv' /\ Len(plog) <= Len(plog') /\ plog' \in Seq(Message)
           /\ \A i \in 1 .. Len(plog) : plog'[i] = plog[i]
           /\ UNCHANGED <<conf, poller, plane, clients, histories, silences, restarts>>
  <1>1. /\ conf \in Configs /\ topic \in Rings(Message) /\ plog \in Seq(Message)
        /\ wal \in Seq(LogEntry) /\ Len(wal) \in Nat /\ pending \in SUBSET (1 .. Len(wal))
        /\ poisoned \in BOOLEAN /\ disturbed \in BOOLEAN
    BY DEF LogOK
  <1>2. ASSUME UNCHANGED <<topic, plog>>
        PROVE  /\ topic' \in Rings(Message) /\ TopicInv' /\ plog' \in Seq(Message)
               /\ Len(plog) <= Len(plog') /\ \A i \in 1 .. Len(plog) : plog'[i] = plog[i]
    BY <1>1, <1>2 DEF TopicInv
  <1>3. ASSUME NEW r \in LogEntry
        PROVE  /\ Append(wal, r) \in Seq(LogEntry) /\ Len(Append(wal, r)) = Len(wal) + 1
               /\ pending \cup {Len(wal) + 1} \in SUBSET (1 .. Len(wal) + 1)
               /\ pending \in SUBSET (1 .. Len(wal) + 1)
    <2>1. Append(wal, r) \in Seq(LogEntry) /\ Len(Append(wal, r)) = Len(wal) + 1 BY <1>1
    <2>2. Len(wal) + 1 \in 1 .. Len(wal) + 1 /\ \A j \in 1 .. Len(wal) : j \in 1 .. Len(wal) + 1
      BY <1>1
    <2>3. \A j \in pending : j \in 1 .. Len(wal) + 1 BY <1>1, <2>2
    <2> QED BY <2>1, <2>2, <2>3
  <1>4. CASE PublishAgent \/ RetryAgent
    <2>1. PICK r \in LogEntry : Store(r) BY <1>4, ProducersStore
    <2>2. UNCHANGED <<conf, poller, plane, clients, histories, silences, restarts>>
      BY <2>1 DEF Store, AppendRecord, AppendFails, AppendUnwritten
    <2>3. CASE AppendRecord(r)
      <3>1. /\ wal' = Append(wal, r) /\ pending' = pending \cup {Len(wal) + 1}
            /\ UNCHANGED <<conf, topic, poisoned, plog, disturbed>>
        BY <2>3 DEF AppendRecord
      <3>2. LogOK' BY <1>1, <1>3, <3>1 DEF LogOK
      <3> QED BY <1>2, <2>2, <3>1, <3>2
    <2>4. CASE AppendFails(r)
      <3>1. /\ poisoned' = TRUE /\ wal' \in {wal, Append(wal, r)}
            /\ disturbed' = (disturbed \/ wal' # wal)
            /\ UNCHANGED <<conf, topic, pending, plog>>
        BY <2>4 DEF AppendFails
      <3>2. wal' \in Seq(LogEntry) /\ pending' \in SUBSET (1 .. Len(wal'))
        BY <1>1, <1>3, <3>1
      <3>3. LogOK' BY <1>1, <3>1, <3>2 DEF LogOK
      <3> QED BY <1>2, <2>2, <3>1, <3>3
    <2>5. CASE AppendUnwritten(r)
      <3>1. /\ topic' = Publish(topic, r.msg) /\ plog' = Append(plog, r.msg)
            /\ disturbed' = TRUE /\ UNCHANGED <<conf, wal, pending, poisoned>>
        BY <2>5 DEF AppendUnwritten
      <3>2. r.msg \in Message BY DEF LogEntry
      <3>3. /\ topic' \in Rings(Message) /\ TopicInv' /\ plog' \in Seq(Message)
            /\ Len(plog) <= Len(plog') /\ \A i \in 1 .. Len(plog) : plog'[i] = plog[i]
        BY <3>1, <3>2, PublishGrows
      <3>4. LogOK' BY <1>1, <3>1, <3>3 DEF LogOK
      <3> QED BY <2>2, <3>3, <3>4
    <2> QED BY <2>1, <2>3, <2>4, <2>5 DEF Store
  <1>5. CASE \E i \in pending : PublishToPartition(i)
    <2>1. PICK i \in pending : PublishToPartition(i) BY <1>5
    <2>2. /\ pending' = pending \ {i} /\ disturbed' = (disturbed \/ \E j \in pending : j < i)
          /\ UNCHANGED <<conf, wal, poisoned, poller, plane, clients, histories, silences,
                         restarts>>
      BY <2>1 DEF PublishToPartition
    <2>3. wal[i] \in LogEntry BY <1>1
    <2>4. wal[i].msg \in Message BY <2>3 DEF LogEntry
    <2>5. /\ topic' \in Rings(Message) /\ TopicInv' /\ plog' \in Seq(Message)
          /\ Len(plog) <= Len(plog') /\ \A k \in 1 .. Len(plog) : plog'[k] = plog[k]
      <3>1. CASE wal[i].dlq BY <1>2, <2>1, <3>1 DEF PublishToPartition
      <3>2. CASE ~ wal[i].dlq
        <4>1. topic' = Publish(topic, wal[i].msg) /\ plog' = Append(plog, wal[i].msg)
          BY <2>1, <3>2 DEF PublishToPartition
        <4> QED BY <2>4, <4>1, PublishGrows
      <3> QED BY <3>1, <3>2
    <2>6. pending' \in SUBSET (1 .. Len(wal')) /\ disturbed' \in BOOLEAN BY <1>1, <2>2
    <2>7. LogOK' BY <1>1, <2>2, <2>5, <2>6 DEF LogOK
    <2> QED BY <2>2, <2>5, <2>7
  <1> QED BY <1>4, <1>5 DEF Producing

(* Nobody else writes, but a restart. *)
LEMMA StoreSame ==
    ASSUME [Next]_vars, ~ Producing, ~ Restart PROVE UNCHANGED store
  BY DEF Producing, Next, vars, Register, Heartbeat, Silence, Sweep, drainOnce, Ingest, Skip,
     Touch, ApplyEvent, RouteHandoff, EscalateRun, NotifyEscalation, OpenInbox, Open,
     Receive, Send, Disconnect

-----------------------------------------------------------------------------
(* What one step changes *)

(* A sign of an agent registers it; whoever is known stays so. *)
LEMMA SeenKeeps ==
    ASSUME agents \in Registry, NEW a \in Agents, NEW st \in {"idle", "busy", "offline"},
           Seen(a, st)
    PROVE  /\ agents' \in Registry /\ agents'[a].status # "unknown"
           /\ \A b \in Agents : agents[b].status # "unknown" => agents'[b].status # "unknown"
  BY DEF Seen, Registry

(* An agent that shows up is known. *)
LEMMA RevivedIsKnown ==
    ASSUME agents \in Registry, NEW a \in Agents PROVE Revived(a) \in {"idle", "busy", "offline"}
  BY DEF Revived, Registry

(* The registry's own actions: no agent is forgotten, not by Sweep either. *)
LEMMA RegistrySteps ==
    ASSUME TypeOK,
           \/ \E a \in conf.registering : Register(a) \/ Heartbeat(a)
           \/ \E a \in Agents : Silence(a)
           \/ Sweep
    PROVE  /\ UNCHANGED <<store, poller, sessions, boxes, clients, histories, restarts>>
           /\ agents' \in Registry /\ silences' \in Nat
           /\ \A b \in Agents : agents[b].status # "unknown" => agents'[b].status # "unknown"
  <1>1. agents \in Registry /\ silences \in Nat /\ conf.registering \subseteq Agents
    BY TypeParts, ConfTyped DEF CountersOK
  <1>2. ASSUME NEW a \in conf.registering, Register(a) \/ Heartbeat(a)
        PROVE  /\ UNCHANGED <<store, poller, sessions, boxes, clients, histories, restarts>>
               /\ Seen(a, Revived(a)) /\ UNCHANGED silences
    BY <1>2 DEF Register, Heartbeat
  <1>3. CASE \E a \in conf.registering : Register(a) \/ Heartbeat(a)
    BY <1>1, <1>2, <1>3, RevivedIsKnown, SeenKeeps
  <1>4. CASE \E a \in Agents : Silence(a)
    <2>1. PICK a \in Agents : Silence(a) BY <1>4
    <2>2. /\ UNCHANGED <<store, poller, sessions, boxes, clients, histories, restarts>>
          /\ silences' = silences + 1 /\ agents' = [agents EXCEPT ![a].stale = TRUE]
      BY <2>1 DEF Silence
    <2>3. /\ agents' \in Registry
          /\ \A b \in Agents : agents'[b].status = agents[b].status
      BY <1>1, <2>2 DEF Registry
    <2>4. silences' \in Nat BY <1>1, <2>2
    <2> QED BY <2>2, <2>3, <2>4
  <1>5. CASE Sweep
    <2>1. /\ UNCHANGED <<store, poller, sessions, boxes, clients, histories, restarts>>
          /\ UNCHANGED silences /\ agents' = SweepStale
      BY <1>5 DEF Sweep
    <2>2. ASSUME NEW b \in Agents
          PROVE  /\ SweepStale[b] \in [status : {"unknown", "idle", "busy", "offline"},
                                       stale : BOOLEAN]
                 /\ SweepStale[b].status \in {agents[b].status, "offline"}
      BY <1>1 DEF SweepStale, Registry
    <2>3. SweepStale \in Registry BY <2>2 DEF SweepStale, Registry
    <2> QED BY <1>1, <2>1, <2>2, <2>3
  <1> QED BY <1>3, <1>4, <1>5

(* The poller moves on to the next message. *)
LEMMA AdvanceBatch ==
    ASSUME LogOK, PollerOK, BatchInv, poller.msgs # <<>>, Advance, UNCHANGED <<plog, conf, overrun>>
    PROVE  /\ PollerOK' /\ BatchInv' /\ poller'.pc \in {"idle", "touch"}
           /\ poller'.cursor = Current.offset + 1
  <1> DEFINE m == poller.msgs
             c == Current.offset
             n == Tail(m)
  <1>1. /\ Current = m[1] /\ c \in Nat /\ Len(m) \in Nat \ {0} /\ n \in Seq(Slots(Message))
        /\ Len(n) = Len(m) - 1 /\ \A i \in 1 .. Len(m) - 1 : n[i] = m[i + 1]
    BY InHand
  <1>2. /\ poller'.pc = IF Len(m) = 1 THEN "idle" ELSE "touch"
        /\ poller'.cursor = c + 1 /\ poller'.msgs = n
    BY DEF Advance
  <1>3. /\ \A i \in 1 .. Len(m) : /\ m[i].offset = c + i - 1 /\ m[i].offset < Len(plog)
                                  /\ m[i].payload = plog[m[i].offset + 1]
        /\ plog' = plog /\ Len(plog) \in Nat
    BY <1>1, PublishedTyped DEF BatchInv, Offset
  <1>4. PollerOK'
    <2>1. n = <<>> <=> Len(m) = 1
      <3> HIDE DEF n, m
      <3>1. n = <<>> <=> Len(n) = 0 BY <1>1
      <3> QED BY <1>1, <3>1
    <2>2. poller' \in [pc : {"idle", "touch", "apply", "deliver", "escalate", "notify"},
                       cursor : Nat, msgs : Seq(Slots(Message))]
      <3>1. c + 1 \in Nat BY <1>1
      <3> QED BY <1>1, <3>1 DEF Advance
    <2> QED BY <1>2, <2>1, <2>2 DEF Poller, PollerOK
  <1>5. ASSUME NEW i \in 1 .. Len(n)
        PROVE  /\ n[i].offset = c + i /\ n[i].offset < Len(plog)
               /\ n[i].payload = plog[n[i].offset + 1]
    <2>1. i \in 1 .. Len(m) - 1 /\ i + 1 \in 1 .. Len(m) BY <1>1
    <2>2. n[i] = m[i + 1] BY <1>1, <2>1
    <2>3. m[i + 1].offset = c + (i + 1) - 1 BY <1>3, <2>1
    <2> HIDE DEF n, m, c
    <2>4. c + (i + 1) - 1 = c + i BY <1>1, <2>1
    <2> QED BY <1>3, <2>1, <2>2, <2>3, <2>4
  <1>6. c < Len(plog)
    <2>1. 1 \in 1 .. Len(m) BY <1>1
    <2> QED BY <1>1, <1>3, <2>1
  <1>7. n # <<>> => 1 \in 1 .. Len(n) /\ n[1].offset = c + 1
    <2>1. n # <<>> => 1 \in 1 .. Len(n) BY <1>1
    <2> QED BY <1>5, <2>1
  <1>8. ASSUME NEW i \in 1 .. Len(n) PROVE n[i].offset = n[1].offset + i - 1
    <2>1. n # <<>>
      <3> HIDE DEF n
      <3>1. Len(<<>>) = 0 /\ Len(n) \in Nat BY <1>1
      <3> QED BY <3>1
    <2>2. n[1].offset = c + 1 /\ n[i].offset = c + i BY <1>5, <1>7, <2>1
    <2> HIDE DEF n, c
    <2> QED BY <1>1, <2>2
  <1> HIDE DEF m, n, c
  <1>9. c + 1 <= Len(plog) BY <1>1, <1>3, <1>6
  <1>10. c + 1 >= c + 1 BY <1>1
  <1>11. poller'.pc \in {"idle", "touch"} BY <1>2
  <1> QED BY <1>2, <1>3, <1>4, <1>5, <1>7, <1>8, <1>9, <1>10, <1>11 DEF BatchInv, Offset, c

(* Or it goes on with the same one. *)
LEMMA StepBatch ==
    ASSUME PollerOK, BatchInv, poller.msgs # <<>>, UNCHANGED <<plog, conf, overrun>>,
           IsEvent(Current.payload),
           NEW pc \in {"apply", "deliver", "escalate", "notify"}, Step(pc),
           pc = "deliver" => IsHandoff, pc \in {"escalate", "notify"} => IsEscalated
    PROVE  /\ PollerOK' /\ BatchInv' /\ poller'.pc = pc
           /\ poller'.cursor = poller.cursor /\ poller'.msgs = poller.msgs
           /\ Current' = Current /\ Ev' = Ev
  <1>1. poller'.pc = pc /\ poller'.cursor = poller.cursor /\ poller'.msgs = poller.msgs
        /\ poller' \in [pc : {"idle", "touch", "apply", "deliver", "escalate", "notify"},
                        cursor : Nat, msgs : Seq(Slots(Message))]
    BY DEF Step, Poller, PollerOK
  <1>2. Current' = Current BY <1>1 DEF Current
  <1>3. Ev' = Ev BY <1>2 DEF Ev
  <1>4. IsHandoff' = IsHandoff /\ IsEscalated' = IsEscalated
    BY <1>3 DEF IsHandoff, IsEscalated
  <1>5. PollerOK' BY <1>1 DEF Poller, PollerOK
  <1>6. BatchInv' BY <1>1, <1>2, <1>4 DEF BatchInv, Offset
  <1> QED BY <1>1, <1>2, <1>3, <1>5, <1>6

(* An inbox takes an offset while it has room for it. *)
LEMMA DeliverTyped ==
    ASSUME BoxesOK, HistoriesOK, NEW a \in Agents, NEW o \in Nat, Deliver(a, o)
    PROVE  BoxesOK' /\ routed' \in SUBSET (Nat \X Agents)
  <1>1. boxes \in [Agents -> Inbox] /\ routed \in SUBSET (Nat \X Agents)
    BY DEF BoxesOK, HistoriesOK
  <1>2. CASE HasRoom(a)
    <2>1. /\ boxes' = [boxes EXCEPT ![a].queue = Append(@, o)]
          /\ routed' = routed \cup {<<o, a>>}
      BY <1>2 DEF Deliver
    <2> DEFINE q == boxes[a].queue
    <2>2. q \in Seq(Nat) /\ boxes[a].open /\ Len(q) < InboxSize
      BY <1>1, <1>2 DEF HasRoom, Inbox
    <2>3. Append(q, o) \in Seq(Nat) /\ Len(Append(q, o)) = Len(q) + 1 /\ Len(q) \in Nat
      BY <2>2
    <2>4. /\ boxes' \in [Agents -> Inbox] /\ boxes'[a].queue = Append(q, o)
          /\ boxes'[a].open = boxes[a].open
          /\ \A b \in Agents \ {a} : boxes'[b] = boxes[b]
      BY <1>1, <2>1, <2>3 DEF Inbox
    <2> HIDE DEF q
    <2>5. InboxSize \in Nat BY ControlPlaneAssumption
    <2>6. Len(Append(q, o)) <= InboxSize BY <2>2, <2>3, <2>5
    <2>7. BoxesOK' BY <2>2, <2>4, <2>6 DEF BoxesOK
    <2> QED BY <1>1, <2>1, <2>7
  <1>3. CASE ~ HasRoom(a) BY <1>1, <1>3 DEF Deliver, BoxesOK
  <1> QED BY <1>2, <1>3

(* Where a handoff and an escalation go to are agents. *)
LEMMA TargetsAreAgents ==
    ASSUME TypeOK, BatchInv
    PROVE  /\ poller.pc \in {"apply", "deliver", "escalate", "notify"} => poller.msgs # <<>>
           /\ poller.pc = "touch" => poller.msgs # <<>>
           /\ poller.pc = "deliver" => parseToAgent(Ev.payload) \in Agents
           /\ poller.pc \in {"escalate", "notify"} => conf.escalation \in Agents
  <1>1. PollerOK /\ LogOK BY TypeParts
  <1>2. poller.pc # "idle" => poller.msgs # <<>> BY <1>1 DEF Poller, PollerOK
  <1>3. poller.pc \in {"escalate", "notify"} => conf.escalation # ""
    BY DEF BatchInv, IsEscalated
  <1>4. poller.pc = "deliver" => parseToAgent(Ev.payload) \in Agents
    <2> SUFFICES ASSUME poller.pc = "deliver" PROVE parseToAgent(Ev.payload) \in Agents
      OBVIOUS
    <2>1. IsHandoff /\ IsEvent(Current.payload) BY DEF BatchInv
    <2> QED BY <1>1, <1>2, <2>1, EventInHand DEF IsHandoff
  <1> QED BY <1>1, <1>2, <1>3, <1>4, ConfTyped

(* Frames: types that a step leaves alone *)
LEMMA SamePlane ==
    ASSUME TypeOK
    PROVE  /\ UNCHANGED store => LogOK'
           /\ UNCHANGED store /\ TopicInv => TopicInv'
           /\ UNCHANGED poller => PollerOK'
           /\ UNCHANGED <<poller, plog, conf, overrun>> /\ BatchInv => BatchInv'
           /\ UNCHANGED boxes => BoxesOK'
           /\ UNCHANGED stream => StreamsOK'
           /\ UNCHANGED <<routed, unrouted, overrun, received, dropped>> => HistoriesOK'
           /\ UNCHANGED <<opened, silences, restarts>> => CountersOK'
           /\ UNCHANGED agents => agents' \in Registry
           /\ UNCHANGED sessions => sessions' \in [Sessions -> RunState]
  <1>1. /\ LogOK /\ PollerOK /\ agents \in Registry /\ sessions \in [Sessions -> RunState]
        /\ BoxesOK /\ StreamsOK /\ HistoriesOK /\ CountersOK
    BY TypeParts
  <1>2. UNCHANGED store => LogOK' BY <1>1 DEF LogOK, store
  <1>3. UNCHANGED store /\ TopicInv => TopicInv'
    BY DEF TopicInv, store
  <1>4. UNCHANGED poller => PollerOK' BY <1>1 DEF Poller, PollerOK
  <1>5. UNCHANGED <<poller, plog, conf, overrun>> /\ BatchInv => BatchInv'
    <2> SUFFICES ASSUME UNCHANGED <<poller, plog, conf, overrun>>, BatchInv PROVE BatchInv'
      OBVIOUS
    <2>1. Current' = Current /\ Ev' = Ev BY DEF Current, Ev
    <2>2. IsHandoff' = IsHandoff /\ IsEscalated' = IsEscalated
      BY <2>1 DEF IsHandoff, IsEscalated
    <2> QED BY <2>1, <2>2 DEF BatchInv, Offset
  <1>6. UNCHANGED boxes => BoxesOK' BY <1>1 DEF BoxesOK
  <1>7. UNCHANGED stream => StreamsOK' BY <1>1 DEF StreamsOK
  <1>8. UNCHANGED <<routed, unrouted, overrun, received, dropped>> => HistoriesOK'
    BY <1>1 DEF HistoriesOK
  <1>9. UNCHANGED <<opened, silences, restarts>> => CountersOK' BY <1>1 DEF CountersOK
  <1> QED BY <1>1, <1>2, <1>3, <1>4, <1>5, <1>6, <1>7, <1>8, <1>9

(* The poller reads a batch. *)
LEMMA drainBatch ==
    ASSUME TypeOK, TopicInv, BatchInv, drainOnce PROVE PollerOK' /\ BatchInv' /\ overrun' \in BOOLEAN
  <1>1. LogOK /\ PollerOK /\ HistoriesOK BY TypeParts
  <1>2. plog \in Seq(Message) /\ Len(plog) \in Nat BY <1>1, PublishedTyped
  <1> DEFINE c == poller.cursor
             f == Fetch(topic, c, PollBatch)
             b == From(topic, c)
  <1>3. c \in Nat /\ PollBatch \in Nat /\ topic \in Rings(Message)
        /\ topic.head \in Nat
    BY <1>1, ControlPlaneAssumption DEF Poller, PollerOK, LogOK, Rings
  <1>4. /\ b \in Nat /\ b >= c /\ f \in Seq(Slots(Message))
        /\ \A i \in 1 .. Len(f) : f[i] = [offset |-> b + i - 1, payload |-> plog[b + i]]
        /\ Len(f) > 0 => b + Len(f) <= Len(plog) /\ b >= topic.head
    BY <1>2, <1>3, FetchReads DEF TopicInv
  <1>5. /\ f # <<>> /\ overrun' = (overrun \/ c < topic.head) /\ poller.pc = "idle"
        /\ poller' = [poller EXCEPT !.pc = "touch", !.msgs = f]
        /\ plog' = plog
    BY DEF drainOnce, store
  <1>6. poller'.pc = "touch" /\ poller'.cursor = c /\ poller'.msgs = f
    BY <1>1, <1>5 DEF Poller, PollerOK
  <1>7. ~ overrun' => b = c
    BY <1>1, <1>3, <1>5 DEF From, HistoriesOK
  <1>8. PollerOK'
    <2>1. poller' \in [pc : {"idle", "touch", "apply", "deliver", "escalate", "notify"},
                       cursor : Nat, msgs : Seq(Slots(Message))]
      <3> HIDE DEF f
      <3> QED BY <1>1, <1>4, <1>5 DEF Poller, PollerOK
    <2> QED BY <1>5, <1>6, <2>1 DEF Poller, PollerOK
  <1> HIDE DEF f, b
  <1>9. Len(f) \in Nat \ {0} /\ 1 \in 1 .. Len(f) BY <1>4, <1>5
  <1>10. f[1].offset = b
    <2>1. f[1] = [offset |-> b + 1 - 1, payload |-> plog[b + 1]] BY <1>4, <1>9
    <2>2. f[1].offset = b + 1 - 1 BY <2>1
    <2> QED BY <1>4, <2>2
  <1>11. ASSUME NEW i \in 1 .. Len(f)
         PROVE  /\ f[i].offset = f[1].offset + i - 1 /\ f[i].offset < Len(plog)
                /\ f[i].payload = plog[f[i].offset + 1]
    <2>1. f[i] = [offset |-> b + i - 1, payload |-> plog[b + i]] BY <1>4
    <2>2. f[i].offset = b + i - 1 /\ f[i].payload = plog[b + i] BY <2>1
    <2>3. (b + i - 1) + 1 = b + i /\ b + i - 1 < Len(plog) BY <1>2, <1>4, <1>9
    <2> QED BY <1>10, <2>2, <2>3
  <1>12. overrun' \in BOOLEAN BY <1>1, <1>5 DEF HistoriesOK
  <1> QED BY <1>4, <1>5, <1>6, <1>7, <1>8, <1>10, <1>11, <1>12 DEF BatchInv, Offset

(* Ingest *)
LEMMA IngestBase == ASSUME BaseInv, Ingest PROVE BaseInv'
  <1>1. /\ TypeOK /\ LogOK /\ PollerOK /\ agents \in Registry /\ sessions \in [Sessions -> RunState]
        /\ BoxesOK /\ StreamsOK /\ HistoriesOK /\ CountersOK /\ TopicInv /\ BatchInv
    BY TypeParts DEF BaseInv
  <1>2. UNCHANGED <<store, stream, received, dropped, opened, overrun, silences, restarts>>
    BY DEF Ingest, Skip, Touch, ApplyEvent, RouteHandoff, EscalateRun, NotifyEscalation,
           histories, clients
  <1>3. LogOK' /\ TopicInv' /\ StreamsOK' /\ CountersOK'
    BY <1>1, <1>2, SamePlane DEF store
  <1>4. UNCHANGED <<plog, conf, overrun>> BY <1>2 DEF store
  <1>5. ASSUME agents' \in Registry, sessions' \in [Sessions -> RunState], BoxesOK',
               routed' \in SUBSET (Nat \X Agents), unrouted' \in SUBSET Nat, PollerOK', BatchInv'
        PROVE  BaseInv'
    <2>1. HistoriesOK' BY <1>1, <1>2, <1>5 DEF HistoriesOK
    <2>2. TypeOK' BY <1>3, <1>5, <2>1, TypePartsNext
    <2> QED BY <1>3, <1>5, <2>2 DEF BaseInv
  <1>6. poller.msgs # <<>>
    BY <1>1 DEF Poller, PollerOK, Ingest, Skip, Touch, ApplyEvent, RouteHandoff, EscalateRun,
       NotifyEscalation
  <1>7. routed \in SUBSET (Nat \X Agents) /\ unrouted \in SUBSET Nat /\ Current.offset \in Nat
    BY <1>1, <1>6, InHand DEF HistoriesOK
  <1>8. CASE Skip
    <2>1. Advance /\ UNCHANGED <<agents, sessions, boxes, routed, unrouted>>
      BY <1>8 DEF Skip, plane, histories
    <2>2. PollerOK' /\ BatchInv' BY <1>1, <1>4, <1>6, <2>1, AdvanceBatch
    <2>3. BoxesOK' BY <1>1, <2>1, SamePlane
    <2> QED BY <1>1, <1>5, <1>7, <2>1, <2>2, <2>3
  <1>9. CASE Touch
    <2>1. /\ Step("apply") /\ Seen(Ev.agent, "busy") /\ IsEvent(Current.payload)
          /\ UNCHANGED <<sessions, boxes, routed, unrouted>>
      BY <1>9 DEF Touch, histories
    <2>2. PollerOK' /\ BatchInv' BY <1>1, <1>4, <1>6, <2>1, StepBatch
    <2>3. agents' \in Registry BY <1>1, <1>6, <2>1, EventInHand, SeenKeeps
    <2>4. BoxesOK' BY <1>1, <2>1, SamePlane
    <2> QED BY <1>1, <1>5, <1>7, <2>1, <2>2, <2>3, <2>4
  <1>10. ASSUME IsEvent(Current.payload)
         PROVE  /\ Ev \in Envelopes(Payloads) /\ Ev.session \in Sessions
                /\ sessions[Ev.session] \in RunState
    BY <1>1, <1>6, <1>10, EventInHand
  <1>11. CASE ApplyEvent
    <2>1. /\ poller.pc = "apply" /\ sessions' = [sessions EXCEPT ![Ev.session] = Apply(@, Ev)]
          /\ IF IsHandoff THEN Step("deliver")
             ELSE IF IsEscalated THEN Step("escalate") ELSE Advance
          /\ UNCHANGED <<agents, boxes, routed, unrouted>>
      BY <1>11 DEF ApplyEvent, histories
    <2>2. IsEvent(Current.payload) BY <1>1, <2>1 DEF BatchInv
    <2>3. sessions' \in [Sessions -> RunState] BY <1>1, <1>10, <2>1, <2>2, ApplyTyped
    <2>4. PollerOK' /\ BatchInv'
      <3>1. CASE IsHandoff BY <1>1, <1>4, <1>6, <2>1, <2>2, <3>1, StepBatch
      <3>2. CASE ~ IsHandoff /\ IsEscalated
        BY <1>1, <1>4, <1>6, <2>1, <2>2, <3>2, StepBatch
      <3>3. CASE ~ IsHandoff /\ ~ IsEscalated BY <1>1, <1>4, <1>6, <2>1, <3>3, AdvanceBatch
      <3> QED BY <3>1, <3>2, <3>3
    <2>5. BoxesOK' BY <1>1, <2>1, SamePlane
    <2> QED BY <1>1, <1>5, <1>7, <2>1, <2>3, <2>4, <2>5
  <1>12. CASE RouteHandoff
    <2>1. /\ poller.pc = "deliver" /\ Advance
          /\ Deliver(parseToAgent(Ev.payload), Current.offset)
          /\ unrouted' \in {unrouted, unrouted \cup {Current.offset}}
          /\ UNCHANGED <<agents, sessions>>
      BY <1>12 DEF RouteHandoff
    <2>2. PollerOK' /\ BatchInv' BY <1>1, <1>4, <1>6, <2>1, AdvanceBatch
    <2>3. parseToAgent(Ev.payload) \in Agents BY <1>1, <2>1, TargetsAreAgents
    <2>4. BoxesOK' /\ routed' \in SUBSET (Nat \X Agents)
      BY <1>1, <1>7, <2>1, <2>3, DeliverTyped
    <2>5. unrouted' \in SUBSET Nat BY <1>7, <2>1
    <2> QED BY <1>1, <1>5, <2>1, <2>2, <2>4, <2>5
  <1>13. CASE EscalateRun
    <2>1. /\ poller.pc = "escalate" /\ Step("notify")
          /\ sessions' = [sessions EXCEPT ![Ev.session] = Escalate(@, conf.escalation)]
          /\ UNCHANGED <<agents, boxes, routed, unrouted>>
      BY <1>13 DEF EscalateRun, histories
    <2>2. IsEvent(Current.payload) /\ IsEscalated BY <1>1, <2>1 DEF BatchInv
    <2>3. PollerOK' /\ BatchInv' BY <1>1, <1>4, <1>6, <2>1, <2>2, StepBatch
    <2>4. conf.escalation \in Agents BY <1>1, <2>1, TargetsAreAgents
    <2>5. Escalate(sessions[Ev.session], conf.escalation) \in RunState
      BY <1>10, <2>2, <2>4 DEF Escalate, RunState
    <2>6. sessions' \in [Sessions -> RunState] BY <1>1, <2>1, <2>5
    <2>7. BoxesOK' BY <1>1, <2>1, SamePlane
    <2> QED BY <1>1, <1>5, <1>7, <2>1, <2>3, <2>6, <2>7
  <1>14. CASE NotifyEscalation
    <2>1. /\ poller.pc = "notify" /\ Advance /\ Deliver(conf.escalation, Current.offset)
          /\ UNCHANGED <<agents, sessions, unrouted>>
      BY <1>14 DEF NotifyEscalation
    <2>2. PollerOK' /\ BatchInv' BY <1>1, <1>4, <1>6, <2>1, AdvanceBatch
    <2>3. conf.escalation \in Agents BY <1>1, <2>1, TargetsAreAgents
    <2>4. BoxesOK' /\ routed' \in SUBSET (Nat \X Agents)
      BY <1>1, <1>7, <2>1, <2>3, DeliverTyped
    <2> QED BY <1>1, <1>5, <1>7, <2>1, <2>2, <2>4
  <1> QED BY <1>8, <1>9, <1>11, <1>12, <1>13, <1>14 DEF Ingest

(* The streams *)
LEMMA StreamBase ==
    ASSUME TypeOK, NEW t \in Streams,
           OpenInbox(t) \/ Open(t) \/ Receive(t) \/ Send(t) \/ Disconnect(t)
    PROVE  /\ agents' \in Registry /\ BoxesOK' /\ StreamsOK'
           /\ received' \in [Agents -> Seq(Nat)] /\ dropped' \in SUBSET (Nat \X Agents)
           /\ opened' \in Nat
           /\ \A b \in Agents : agents[b].status # "unknown" => agents'[b].status # "unknown"
           /\ UNCHANGED <<store, poller, sessions, histories, silences, restarts>>
  <1>1. /\ LogOK /\ agents \in Registry /\ BoxesOK /\ StreamsOK /\ HistoriesOK /\ CountersOK
    BY TypeParts
  <1>2. /\ boxes \in [Agents -> Inbox] /\ stream \in Calls
        /\ received \in [Agents -> Seq(Nat)] /\ dropped \in SUBSET (Nat \X Agents)
        /\ opened \in Nat
    BY <1>1 DEF BoxesOK, StreamsOK, HistoriesOK, CountersOK
  <1> DEFINE a == stream[t].agent
  <1>3. /\ stream[t].pc # "off" => a \in Agents
        /\ stream[t].ev \in Nat
    BY <1>1, <1>2 DEF StreamsOK, Calls
  <1>4. UNCHANGED <<store, poller, sessions, histories, silences, restarts>>
    BY DEF OpenInbox, Open, Receive, Send, Disconnect, plane
  <1>5. ASSUME stream' \in Calls, \A u \in Streams \ {t} : stream'[u] = stream[u],
               stream'[t].pc # "off" => stream'[t].agent \in Agents
        PROVE  StreamsOK'
    BY <1>1, <1>5 DEF StreamsOK
  <1>6. CASE OpenInbox(t)
    <2>1. PICK b \in conf.readers :
             /\ stream' = [stream EXCEPT ![t] = [pc |-> "open", agent |-> b, ev |-> 0]]
             /\ Seen(b, Revived(b))
      BY <1>6 DEF OpenInbox
    <2>2. b \in Agents BY <1>1, ConfTyped
    <2>3. StreamsOK' BY <1>2, <1>5, <2>1, <2>2 DEF Calls
    <2>4. /\ agents' \in Registry
          /\ \A c \in Agents : agents[c].status # "unknown" => agents'[c].status # "unknown"
      BY <1>1, <2>1, <2>2, RevivedIsKnown, SeenKeeps
    <2>5. UNCHANGED <<boxes, received, dropped>> /\ opened' = opened + 1
      BY <1>6 DEF OpenInbox
    <2>6. BoxesOK' /\ opened' \in Nat BY <1>2, <2>5, SamePlane
    <2> QED BY <1>2, <1>4, <2>3, <2>4, <2>5, <2>6
  <1>7. CASE Open(t)
    <2>1. /\ stream[t].pc = "open" /\ stream' = [stream EXCEPT ![t].pc = "recv"]
          /\ boxes' = [boxes EXCEPT ![a].open = TRUE]
          /\ UNCHANGED <<agents, received, dropped, opened>>
      BY <1>7 DEF Open
    <2>2. a \in Agents BY <1>3, <2>1
    <2>3. StreamsOK'
      <3>1. stream' \in Calls /\ stream'[t].agent = a
            /\ \A u \in Streams \ {t} : stream'[u] = stream[u]
        BY <1>2, <2>1 DEF Calls
      <3> QED BY <1>5, <2>2, <3>1
    <2>4. BoxesOK'
      <3>1. /\ boxes' \in [Agents -> Inbox]
            /\ \A b \in Agents : boxes'[b].queue = boxes[b].queue
            /\ boxes'[a].open /\ \A b \in Agents \ {a} : boxes'[b].open = boxes[b].open
        BY <1>2, <2>1, <2>2 DEF Inbox
      <3> QED BY <1>1, <3>1 DEF BoxesOK
    <2> QED BY <1>1, <1>2, <1>4, <2>1, <2>3, <2>4
  <1>8. CASE Receive(t)
    <2>1. /\ stream[t].pc = "recv" /\ boxes[a].queue # <<>>
          /\ stream' = [stream EXCEPT ![t].pc = "send", ![t].ev = Head(boxes[a].queue)]
          /\ boxes' = [boxes EXCEPT ![a].queue = Tail(@)]
          /\ UNCHANGED <<agents, received, dropped, opened>>
      BY <1>8 DEF Receive
    <2>2. a \in Agents BY <1>3, <2>1
    <2> DEFINE q == boxes[a].queue
    <2>3. q \in Seq(Nat) BY <1>2, <2>2 DEF Inbox
    <2>4. Head(q) \in Nat /\ Tail(q) \in Seq(Nat) /\ Len(Tail(q)) <= Len(q)
      <3>1. q # <<>> BY <2>1
      <3> HIDE DEF q
      <3> QED BY <2>3, <3>1
    <2>5. StreamsOK'
      <3>1. stream' \in Calls /\ stream'[t].agent = a
            /\ \A u \in Streams \ {t} : stream'[u] = stream[u]
        BY <1>2, <2>1, <2>4 DEF Calls
      <3> QED BY <1>5, <2>2, <3>1
    <2>6. BoxesOK'
      <3>1. /\ boxes' \in [Agents -> Inbox] /\ boxes'[a].queue = Tail(q)
            /\ boxes'[a].open = boxes[a].open
            /\ \A b \in Agents \ {a} : boxes'[b] = boxes[b]
        BY <1>2, <2>1, <2>2, <2>4 DEF Inbox
      <3>2. Len(q) <= InboxSize /\ boxes[a].open BY <1>1, <2>1, <2>2 DEF BoxesOK
      <3>3. Len(Tail(q)) <= InboxSize
        <4>1. InboxSize \in Nat BY ControlPlaneAssumption
        <4> HIDE DEF q
        <4> QED BY <2>3, <2>4, <3>2, <4>1
      <3> QED BY <1>1, <3>1, <3>2, <3>3 DEF BoxesOK
    <2> QED BY <1>1, <1>2, <1>4, <2>1, <2>5, <2>6
  <1>9. CASE Send(t)
    <2>1. /\ stream[t].pc = "send"
          /\ received' = [received EXCEPT ![a] = Append(@, stream[t].ev)]
          /\ stream' = [stream EXCEPT ![t].pc = "recv", ![t].ev = 0]
          /\ UNCHANGED <<agents, boxes, dropped, opened>>
      BY <1>9 DEF Send, plane
    <2>2. a \in Agents BY <1>3, <2>1
    <2>3. received' \in [Agents -> Seq(Nat)] BY <1>2, <1>3, <2>1
    <2>4. StreamsOK'
      <3>1. stream' \in Calls /\ stream'[t].agent = a
            /\ \A u \in Streams \ {t} : stream'[u] = stream[u]
        BY <1>2, <2>1 DEF Calls
      <3> QED BY <1>5, <2>2, <3>1
    <2>5. BoxesOK' BY <2>1, SamePlane
    <2> QED BY <1>1, <1>2, <1>4, <2>1, <2>3, <2>4, <2>5
  <1>10. CASE Disconnect(t)
    <2>1. /\ stream[t].pc \in {"recv", "send"} /\ stream' = [stream EXCEPT ![t] = NoStream]
          /\ dropped' \in {dropped, dropped \cup {<<stream[t].ev, a>>}}
          /\ UNCHANGED <<agents, boxes, received, opened>>
      BY <1>10 DEF Disconnect, plane
    <2>2. a \in Agents BY <1>3, <2>1
    <2>3. dropped' \in SUBSET (Nat \X Agents) BY <1>2, <1>3, <2>1, <2>2
    <2>4. StreamsOK'
      <3>1. stream' \in Calls /\ stream'[t].pc = "off"
            /\ \A u \in Streams \ {t} : stream'[u] = stream[u]
        BY <1>2, <2>1 DEF Calls, NoStream
      <3> QED BY <1>5, <3>1
    <2>5. BoxesOK' BY <2>1, SamePlane
    <2> QED BY <1>1, <1>2, <1>4, <2>1, <2>3, <2>4, <2>5
  <1> QED BY <1>6, <1>7, <1>8, <1>9, <1>10

(* A restart replays the log. *)
LEMMA RestartBase == ASSUME TypeOK, Restart PROVE BaseInv'
  <1>1. LogOK /\ CountersOK BY TypeParts
  <1>2. Messages \in Seq(Message) BY <1>1, PublishedTyped
  <1>3. /\ topic' = Replayed(Messages) /\ plog' = Messages
        /\ pending' = {} /\ poisoned' = FALSE /\ disturbed' = FALSE
        /\ UNCHANGED <<conf, wal, opened, silences>>
        /\ restarts' = restarts + 1 /\ poller' = NoPoll
        /\ agents' = [a \in Agents |-> Unknown]
        /\ sessions' = [s \in Sessions |-> NoRun]
        /\ boxes' = [a \in Agents |-> NoBox]
        /\ stream' = [t \in Streams |-> NoStream]
        /\ routed' = {} /\ unrouted' = {} /\ overrun' = FALSE
        /\ received' = [a \in Agents |-> <<>>] /\ dropped' = {}
    BY DEF Restart
  <1>4. Replayed(Messages) \in Rings(Message) /\ Shows(Replayed(Messages), Messages)
    BY <1>2, ReplayShows
  <1>5. LogOK' BY <1>1, <1>2, <1>3, <1>4 DEF LogOK
  <1>6. plog' = Messages BY <1>3
  <1>7. TopicInv' BY <1>3, <1>4, <1>6 DEF TopicInv
  <1>8. <<>> \in Seq(Slots(Message)) /\ <<>> \in Seq(Nat) /\ Len(<<>>) = 0 OBVIOUS
  <1>9. poller'.pc = "idle" /\ poller'.cursor = 0 /\ poller'.msgs = <<>>
    BY <1>3 DEF NoPoll
  <1>10. PollerOK' BY <1>3, <1>8, <1>9 DEF Poller, PollerOK, NoPoll
  <1>11. BatchInv'
    <2>1. Len(Messages) \in Nat BY <1>1, PublishedTyped
    <2>2. 0 <= Len(Messages) BY <2>1
    <2> QED BY <1>6, <1>8, <1>9, <2>2 DEF BatchInv
  <1>12. agents' \in Registry /\ sessions' \in [Sessions -> RunState]
    BY <1>3 DEF Registry, Unknown, RunState, NoRun
  <1>13. BoxesOK' BY <1>3, EmptyBoxes DEF BoxesOK
  <1>14. StreamsOK' BY <1>3 DEF StreamsOK, Calls, NoStream
  <1>15. HistoriesOK' BY <1>3, <1>8 DEF HistoriesOK
  <1>16. CountersOK' BY <1>1, <1>3 DEF CountersOK
  <1>17. TypeOK' BY <1>5, <1>10, <1>12, <1>13, <1>14, <1>15, <1>16, TypePartsNext
  <1> QED BY <1>7, <1>11, <1>17 DEF BaseInv

(* Every step keeps the types, the ring and the batch. *)
LEMMA BaseStep == BaseInv /\ [Next]_vars => BaseInv'
  <1> SUFFICES ASSUME BaseInv, [Next]_vars PROVE BaseInv'
    OBVIOUS
  <1>1. /\ TypeOK /\ TopicInv /\ BatchInv
        /\ LogOK /\ PollerOK /\ agents \in Registry /\ sessions \in [Sessions -> RunState]
        /\ BoxesOK /\ StreamsOK /\ HistoriesOK /\ CountersOK
    BY TypeParts DEF BaseInv
  <1>2. CASE Producing
    <2>2. UNCHANGED <<conf, poller, plane, clients, histories, silences, restarts>>
      BY <1>1, <1>2, ProducersKeep
    <2>3. /\ LogOK' /\ TopicInv' /\ Len(plog) <= Len(plog') /\ plog' \in Seq(Message)
          /\ \A i \in 1 .. Len(plog) : plog'[i] = plog[i]
      BY <1>1, <1>2, ProducersKeep
    <2>4. /\ PollerOK' /\ BoxesOK' /\ StreamsOK' /\ HistoriesOK' /\ CountersOK'
          /\ agents' \in Registry /\ sessions' \in [Sessions -> RunState]
      BY <1>1, <2>2, SamePlane DEF plane, clients, histories
    <2>5. TypeOK' BY <2>3, <2>4, TypePartsNext
    <2>6. BatchInv'
      <3>1. Current' = Current /\ Ev' = Ev BY <2>2 DEF Current, Ev
      <3>2. IsHandoff' = IsHandoff /\ IsEscalated' = IsEscalated
        BY <2>2, <3>1 DEF IsHandoff, IsEscalated
      <3>3. Len(plog) \in Nat /\ Len(plog') \in Nat BY <1>1, <2>3, PublishedTyped
      <3>4. poller.cursor <= Len(plog')
        BY <1>1, <2>3, <3>3 DEF BatchInv, Poller, PollerOK
      <3>5. ASSUME NEW i \in 1 .. Len(poller.msgs)
            PROVE  /\ Offset(i) = Offset(1) + i - 1 /\ Offset(i) < Len(plog')
                   /\ poller.msgs[i].payload = plog'[Offset(i) + 1]
        <4>1. Offset(i) \in Nat
          <5>1. poller.msgs[i] \in Slots(Message) BY <1>1 DEF Poller, PollerOK
          <5> QED BY <5>1 DEF Slots, Offset
        <4>2. /\ Offset(i) = Offset(1) + i - 1 /\ Offset(i) < Len(plog)
              /\ poller.msgs[i].payload = plog[Offset(i) + 1]
          BY <1>1 DEF BatchInv
        <4>3. Offset(i) + 1 \in 1 .. Len(plog) /\ Offset(i) < Len(plog')
          BY <2>3, <3>3, <4>1, <4>2
        <4> QED BY <2>3, <4>2, <4>3
      <3>6. UNCHANGED poller /\ UNCHANGED overrun BY <2>2 DEF histories
      <3> QED BY <1>1, <3>1, <3>2, <3>4, <3>5, <3>6 DEF BatchInv, Offset
    <2> QED BY <2>3, <2>5, <2>6 DEF BaseInv
  <1>3. CASE \/ \E a \in conf.registering : Register(a) \/ Heartbeat(a)
             \/ \E a \in Agents : Silence(a)
             \/ Sweep
    <2>1. /\ UNCHANGED <<store, poller, sessions, boxes, clients, histories, restarts>>
          /\ agents' \in Registry /\ silences' \in Nat
      BY <1>1, <1>3, RegistrySteps
    <2>2. /\ LogOK' /\ TopicInv' /\ PollerOK' /\ BatchInv' /\ BoxesOK' /\ StreamsOK'
          /\ HistoriesOK' /\ sessions' \in [Sessions -> RunState]
      BY <1>1, <2>1, SamePlane DEF store, clients, histories
    <2>3. CountersOK' BY <1>1, <2>1 DEF CountersOK, clients
    <2>4. TypeOK' BY <2>1, <2>2, <2>3, TypePartsNext
    <2> QED BY <2>2, <2>4 DEF BaseInv
  <1>4. CASE drainOnce
    <2>1. PollerOK' /\ BatchInv' /\ overrun' \in BOOLEAN BY <1>1, <1>4, drainBatch
    <2>2. UNCHANGED <<store, plane, clients, routed, unrouted, silences, restarts>>
      BY <1>4 DEF drainOnce
    <2>3. /\ LogOK' /\ TopicInv' /\ BoxesOK' /\ StreamsOK' /\ CountersOK'
          /\ agents' \in Registry /\ sessions' \in [Sessions -> RunState]
      BY <1>1, <2>2, SamePlane DEF store, plane, clients
    <2>4. HistoriesOK' BY <1>1, <2>1, <2>2 DEF HistoriesOK, clients
    <2>5. TypeOK' BY <2>1, <2>3, <2>4, TypePartsNext
    <2> QED BY <2>1, <2>3, <2>5 DEF BaseInv
  <1>5. CASE Ingest BY <1>5, IngestBase
  <1>6. CASE \E t \in Streams : OpenInbox(t) \/ Open(t) \/ Receive(t) \/ Send(t) \/ Disconnect(t)
    <2>1. /\ agents' \in Registry /\ BoxesOK' /\ StreamsOK'
          /\ received' \in [Agents -> Seq(Nat)] /\ dropped' \in SUBSET (Nat \X Agents)
          /\ opened' \in Nat
          /\ UNCHANGED <<store, poller, sessions, histories, silences, restarts>>
      BY <1>1, <1>6, StreamBase
    <2>2. /\ LogOK' /\ TopicInv' /\ PollerOK' /\ BatchInv' /\ sessions' \in [Sessions -> RunState]
      BY <1>1, <2>1, SamePlane DEF store, histories
    <2>3. HistoriesOK' /\ CountersOK' BY <1>1, <2>1 DEF HistoriesOK, CountersOK, histories
    <2>4. TypeOK' BY <2>1, <2>2, <2>3, TypePartsNext
    <2> QED BY <2>2, <2>4 DEF BaseInv
  <1>7. CASE Restart BY <1>1, <1>7, RestartBase
  <1>8. CASE UNCHANGED vars
    <2>1. /\ LogOK' /\ TopicInv' /\ PollerOK' /\ BatchInv' /\ BoxesOK' /\ StreamsOK'
          /\ HistoriesOK' /\ CountersOK'
          /\ agents' \in Registry /\ sessions' \in [Sessions -> RunState]
      BY <1>1, <1>8, SamePlane DEF vars, store, plane, clients, histories
    <2>2. TypeOK' BY <2>1, TypePartsNext
    <2> QED BY <2>1, <2>2 DEF BaseInv
  <1> QED BY <1>2, <1>3, <1>4, <1>5, <1>6, <1>7, <1>8 DEF Next, Producing

(* The control plane keeps its types; in particular an inbox never holds   *)
(* more than its channel has room for (inbox.go), whatever the poller and  *)
(* the streams that share it do at the same time, and an unopened one      *)
(* holds nothing.                                                          *)
THEOREM TypeCorrect == Spec => []TypeOK
  <1>1. BaseInv => TypeOK BY DEF BaseInv
  <1> QED BY <1>1, BaseInit, BaseStep, PTL DEF Spec

(* Types, topic and batch, together *)
LEMMA BaseHolds == Spec => []BaseInv
  BY BaseInit, BaseStep, PTL DEF Spec

-----------------------------------------------------------------------------
(* Retries *)

(* The entries of the log w that are copies of the event o, in the topic   *)
(* or in the DLQ                                                         *)
EntriesOf(w, o, dlq) == {j \in 1 .. Len(w) : w[j].origin = o /\ w[j].dlq = dlq}

(* Entry i is the last copy of its event. *)
LastCopy(w, i) == \A j \in i + 1 .. Len(w) : w[j].origin # w[i].origin

(* The attempt a message counts as *)
AttemptOf(m) == IF ParseEvent(m).attempt < 1 THEN 1 ELSE ParseEvent(m).attempt

(* An event is entered before its retries; while its last copy is in the   *)
(* topic, it is not in the DLQ, and its copies are no more than the        *)
(* attempt that the last one counts as.                                    *)
RetryInv(w, max) ==
    /\ \A i \in 1 .. Len(w) : w[i].origin \in 1 .. i
    /\ max > 0 => \A i \in 1 .. Len(w) :
          /\ Cardinality(EntriesOf(w, i, FALSE)) <= max
          /\ Cardinality(EntriesOf(w, i, TRUE)) <= 1
          /\ ~ w[i].dlq /\ LastCopy(w, i) =>
                /\ EntriesOf(w, w[i].origin, TRUE) = {}
                /\ Cardinality(EntriesOf(w, w[i].origin, FALSE)) <= AttemptOf(w[i].msg)

(* Every message counts as some attempt. *)
LEMMA AttemptPositive == ASSUME NEW m \in Message PROVE AttemptOf(m) \in Nat /\ AttemptOf(m) >= 1
  <1>1. CASE m \in Envelopes(Payloads)
    <2>1. ParseEvent(m) = m BY <1>1, ParseIsInverse
    <2>2. m.attempt \in Nat BY <1>1 DEF Envelopes
    <2> QED BY <2>1, <2>2 DEF AttemptOf
  <1>2. CASE m = RawMessage
    <2>1. ParseEvent(m).attempt = 0 BY <1>2 DEF ParseEvent, RawMessage, Field, Envelope
    <2> QED BY <2>1 DEF AttemptOf
  <1> QED BY <1>1, <1>2 DEF Message, Payloads

(* The copies of an event are finitely many, *)
LEMMA CopiesFinite ==
    ASSUME NEW w \in Seq(LogEntry), NEW o, NEW d
    PROVE  /\ IsFiniteSet(EntriesOf(w, o, d)) /\ Cardinality(EntriesOf(w, o, d)) \in Nat
           /\ Len(w) + 1 \notin EntriesOf(w, o, d)
  <1>1. Len(w) \in Nat OBVIOUS
  <1>2. IsFiniteSet(1 .. Len(w)) BY <1>1, FS_Interval
  <1>3. EntriesOf(w, o, d) \subseteq 1 .. Len(w) BY DEF EntriesOf
  <1>4. IsFiniteSet(EntriesOf(w, o, d)) BY <1>2, <1>3, FS_Subset
  <1>5. Len(w) + 1 \notin 1 .. Len(w) BY <1>1
  <1> QED BY <1>3, <1>4, <1>5, FS_CardinalityType

(* and an entry adds itself to those of its event. *)
LEMMA CopiesAppend ==
    ASSUME NEW w \in Seq(LogEntry), NEW r \in LogEntry, NEW o, NEW d
    PROVE  EntriesOf(Append(w, r), o, d)
              = IF r.origin = o /\ r.dlq = d THEN EntriesOf(w, o, d) \cup {Len(w) + 1}
                ELSE EntriesOf(w, o, d)
  <1> DEFINE x == Append(w, r)
  <1>1. /\ Len(x) = Len(w) + 1 /\ x[Len(w) + 1] = r /\ Len(w) \in Nat
        /\ \A n \in 1 .. Len(w) : x[n] = w[n]
    OBVIOUS
  <1> HIDE DEF x
  <1>2. 1 .. Len(x) = (1 .. Len(w)) \cup {Len(w) + 1} BY <1>1
  <1>3. EntriesOf(x, o, d) = IF r.origin = o /\ r.dlq = d
                            THEN EntriesOf(w, o, d) \cup {Len(w) + 1} ELSE EntriesOf(w, o, d)
    BY <1>1, <1>2 DEF EntriesOf
  <1> QED BY <1>3 DEF x

(* One copy more counts as one more. *)
LEMMA CopyCounts ==
    ASSUME NEW w \in Seq(LogEntry), NEW o, NEW d
    PROVE  Cardinality(EntriesOf(w, o, d) \cup {Len(w) + 1}) = Cardinality(EntriesOf(w, o, d)) + 1
  BY CopiesFinite, FS_AddElement

(* A new event *)
LEMMA PublishCounts ==
    ASSUME NEW w \in Seq(LogEntry), NEW r \in LogEntry, NEW max \in Nat, RetryInv(w, max),
           ~ r.dlq, r.origin = Len(w) + 1
    PROVE  RetryInv(Append(w, r), max)
  <1> DEFINE x == Append(w, r)
             l == Len(w) + 1
  <1>1. /\ x \in Seq(LogEntry) /\ Len(x) = l /\ x[l] = r /\ Len(w) \in Nat
        /\ \A n \in 1 .. Len(w) : x[n] = w[n] /\ w[n] \in LogEntry
    OBVIOUS
  <1>2. \A i \in 1 .. Len(w) : w[i].origin \in 1 .. i BY DEF RetryInv
  <1>3. \A d : EntriesOf(w, l, d) = {}
    <2>1. \A j \in 1 .. Len(w) : w[j].origin # l BY <1>1, <1>2
    <2> QED BY <2>1 DEF EntriesOf
  <1>4. r.dlq = FALSE /\ r.msg \in Message BY DEF LogEntry
  <1> HIDE DEF x
  <1>5. /\ \A o, d : o # l => EntriesOf(x, o, d) = EntriesOf(w, o, d)
        /\ EntriesOf(x, l, TRUE) = {} /\ EntriesOf(x, l, FALSE) = {} \cup {l}
    <2>1. \A o, d : EntriesOf(x, o, d) = IF l = o /\ r.dlq = d
                                        THEN EntriesOf(w, o, d) \cup {l} ELSE EntriesOf(w, o, d)
      BY CopiesAppend DEF x
    <2> QED BY <1>3, <1>4, <2>1
  <1>6. /\ Cardinality(EntriesOf(x, l, TRUE)) = 0 /\ Cardinality(EntriesOf(x, l, FALSE)) = 1
    <2>1. Cardinality({}) = 0 /\ IsFiniteSet({}) BY FS_EmptySet
    <2>2. Cardinality({} \cup {l}) = 0 + 1 BY <2>1, FS_AddElement
    <2>3. Cardinality({} \cup {l}) = 1 BY <2>2
    <2> HIDE DEF l
    <2> QED BY <1>5, <2>1, <2>3
  <1>7. \A i \in 1 .. l : x[i].origin \in 1 .. i
    <2> SUFFICES ASSUME NEW i \in 1 .. l PROVE x[i].origin \in 1 .. i
      OBVIOUS
    <2>1. CASE i = l BY <1>1, <2>1
    <2>2. CASE i # l
      <3>1. i \in 1 .. Len(w) BY <1>1, <2>2
      <3> QED BY <1>1, <1>2, <3>1
    <2> QED BY <2>1, <2>2
  <1>8. ASSUME max > 0, NEW i \in 1 .. l
        PROVE  /\ Cardinality(EntriesOf(x, i, FALSE)) <= max
               /\ Cardinality(EntriesOf(x, i, TRUE)) <= 1
               /\ ~ x[i].dlq /\ LastCopy(x, i) =>
                     /\ EntriesOf(x, x[i].origin, TRUE) = {}
                     /\ Cardinality(EntriesOf(x, x[i].origin, FALSE)) <= AttemptOf(x[i].msg)
    <2>1. CASE i = l
      <3>1. x[i] = r /\ r.origin = l BY <1>1, <2>1
      <3>2. AttemptOf(r.msg) \in Nat /\ AttemptOf(r.msg) >= 1 BY <1>4, AttemptPositive
      <3>3. 1 <= max /\ 0 <= 1 BY <1>8
      <3> HIDE DEF l
      <3> QED BY <1>5, <1>6, <2>1, <3>1, <3>2, <3>3
    <2>2. CASE i # l
      <3>1. i \in 1 .. Len(w) /\ x[i] = w[i] BY <1>1, <2>2
      <3>2. w[i].origin # l BY <1>1, <1>2, <3>1
      <3>3. LastCopy(x, i) => LastCopy(w, i)
        <4>1. \A j \in i + 1 .. Len(w) : j \in i + 1 .. l /\ j \in 1 .. Len(w) BY <1>1, <3>1
        <4> QED BY <1>1, <3>1, <4>1 DEF LastCopy
      <3>4. /\ Cardinality(EntriesOf(w, i, FALSE)) <= max
            /\ Cardinality(EntriesOf(w, i, TRUE)) <= 1
            /\ ~ w[i].dlq /\ LastCopy(w, i) =>
                  /\ EntriesOf(w, w[i].origin, TRUE) = {}
                  /\ Cardinality(EntriesOf(w, w[i].origin, FALSE)) <= AttemptOf(w[i].msg)
        BY <1>8, <3>1 DEF RetryInv
      <3> HIDE DEF l
      <3> QED BY <1>5, <2>2, <3>1, <3>2, <3>3, <3>4
    <2> QED BY <2>1, <2>2
  <1> HIDE DEF l
  <1>9. RetryInv(x, max) BY <1>1, <1>7, <1>8 DEF RetryInv
  <1> QED BY <1>9 DEF x

(* The next attempt at event o, whose last copy is the entry k *)
LEMMA RetryCounts ==
    ASSUME NEW w \in Seq(LogEntry), NEW r \in LogEntry, NEW max \in Nat, RetryInv(w, max),
           max > 0, NEW k \in 1 .. Len(w), ~ w[k].dlq, LastCopy(w, k), r.origin = w[k].origin,
           AttemptOf(r.msg) = AttemptOf(w[k].msg) + 1,
           r.dlq <=> AttemptOf(w[k].msg) + 1 > max
    PROVE  RetryInv(Append(w, r), max)
  <1> DEFINE x == Append(w, r)
             l == Len(w) + 1
             o == w[k].origin
             a == AttemptOf(w[k].msg)
             card(d) == Cardinality(EntriesOf(w, o, d))
  <1>1. /\ x \in Seq(LogEntry) /\ Len(x) = l /\ x[l] = r /\ Len(w) \in Nat
        /\ \A n \in 1 .. Len(w) : x[n] = w[n] /\ w[n] \in LogEntry
    OBVIOUS
  <1>2. \A i \in 1 .. Len(w) : w[i].origin \in 1 .. i BY DEF RetryInv
  <1>3. o \in 1 .. Len(w) /\ o # l /\ r.origin = o BY <1>1, <1>2
  <1>4. \A d : EntriesOf(w, l, d) = {}
    <2>1. \A j \in 1 .. Len(w) : w[j].origin # l BY <1>1, <1>2
    <2> QED BY <2>1 DEF EntriesOf
  <1>5. r.dlq \in BOOLEAN /\ w[k].msg \in Message
    <2>1. w[k] \in LogEntry BY <1>1
    <2> QED BY <2>1 DEF LogEntry
  <1>6. a \in Nat BY <1>5, AttemptPositive
  <1> HIDE DEF x
  <1>7. \A p, d : EntriesOf(x, p, d) = IF r.origin = p /\ r.dlq = d
                                      THEN EntriesOf(w, p, d) \cup {l} ELSE EntriesOf(w, p, d)
    BY CopiesAppend DEF x
  <1>8. \A p, d : p # o => EntriesOf(x, p, d) = EntriesOf(w, p, d) BY <1>3, <1>7
  <1>9. /\ EntriesOf(w, o, TRUE) = {} /\ card(FALSE) <= a
        /\ card(FALSE) <= max
    BY <1>3 DEF RetryInv
  <1>10. card(FALSE) \in Nat /\ Cardinality(EntriesOf(w, o, FALSE) \cup {l}) = card(FALSE) + 1
    BY CopiesFinite, CopyCounts
  <1>11. Cardinality({}) = 0 /\ Cardinality({} \cup {l}) = 1
    <2>1. Cardinality({}) = 0 /\ IsFiniteSet({}) BY FS_EmptySet
    <2>2. Cardinality({} \cup {l}) = 0 + 1 BY <2>1, FS_AddElement
    <2>3. Cardinality({} \cup {l}) = 1 BY <2>2
    <2> QED BY <2>1, <2>3
  <1>12. /\ Cardinality(EntriesOf(x, o, FALSE)) <= max
         /\ Cardinality(EntriesOf(x, o, TRUE)) <= 1
         /\ ~ r.dlq => /\ EntriesOf(x, o, TRUE) = {}
                       /\ Cardinality(EntriesOf(x, o, FALSE)) <= AttemptOf(r.msg)
    <2>1. CASE r.dlq
      <3>1. r.dlq = TRUE BY <1>5, <2>1
      <3>2. EntriesOf(x, o, FALSE) = EntriesOf(w, o, FALSE) /\ EntriesOf(x, o, TRUE) = {} \cup {l}
        BY <1>3, <1>7, <1>9, <3>1
      <3>3. 1 <= 1 OBVIOUS
      <3> HIDE DEF l
      <3> QED BY <1>9, <1>11, <2>1, <3>2, <3>3
    <2>2. CASE ~ r.dlq
      <3>1. r.dlq = FALSE BY <1>5, <2>2
      <3>2. /\ EntriesOf(x, o, FALSE) = EntriesOf(w, o, FALSE) \cup {l}
            /\ EntriesOf(x, o, TRUE) = {}
        BY <1>3, <1>7, <1>9, <3>1
      <3> DEFINE c == card(FALSE)
      <3>3. c \in Nat /\ c <= a /\ a \in Nat /\ ~ (a + 1 > max) BY <1>6, <1>9, <1>10, <2>2
      <3>4. Cardinality(EntriesOf(x, o, FALSE)) = c + 1 BY <1>10, <3>2
      <3>5. AttemptOf(r.msg) = a + 1 OBVIOUS
      <3> HIDE DEF c, a, l
      <3>6. c + 1 <= max /\ c + 1 <= a + 1 /\ 0 <= 1 BY <3>3
      <3> QED BY <1>11, <3>2, <3>4, <3>5, <3>6
    <2> QED BY <2>1, <2>2
  <1>13. \A i \in 1 .. l : x[i].origin \in 1 .. i
    <2> SUFFICES ASSUME NEW i \in 1 .. l PROVE x[i].origin \in 1 .. i
      OBVIOUS
    <2>1. CASE i = l BY <1>1, <1>3, <2>1
    <2>2. CASE i # l
      <3>1. i \in 1 .. Len(w) BY <1>1, <2>2
      <3> QED BY <1>1, <1>2, <3>1
    <2> QED BY <2>1, <2>2
  <1>14. ASSUME NEW i \in 1 .. l
         PROVE  /\ Cardinality(EntriesOf(x, i, FALSE)) <= max
                /\ Cardinality(EntriesOf(x, i, TRUE)) <= 1
                /\ ~ x[i].dlq /\ LastCopy(x, i) =>
                      /\ EntriesOf(x, x[i].origin, TRUE) = {}
                      /\ Cardinality(EntriesOf(x, x[i].origin, FALSE)) <= AttemptOf(x[i].msg)
    <2>1. CASE i = l
      <3>1. x[i] = r /\ r.origin = o BY <1>1, <2>1
      <3>2. EntriesOf(x, i, FALSE) = {} /\ EntriesOf(x, i, TRUE) = {} BY <1>3, <1>4, <1>8, <2>1
      <3>3. 0 <= max /\ 0 <= 1 OBVIOUS
      <3> HIDE DEF o, l
      <3> QED BY <1>11, <1>12, <3>1, <3>2, <3>3
    <2>2. CASE i # l
      <3>1. i \in 1 .. Len(w) /\ x[i] = w[i] BY <1>1, <2>2
      <3>2. LastCopy(x, i) => LastCopy(w, i) /\ w[i].origin # o
        <4>1. \A j \in i + 1 .. Len(w) : j \in i + 1 .. l /\ j \in 1 .. Len(w) BY <1>1, <3>1
        <4>2. l \in i + 1 .. l BY <1>1, <3>1
        <4> QED BY <1>1, <1>3, <3>1, <4>1, <4>2 DEF LastCopy
      <3>3. /\ Cardinality(EntriesOf(w, i, FALSE)) <= max
            /\ Cardinality(EntriesOf(w, i, TRUE)) <= 1
            /\ ~ w[i].dlq /\ LastCopy(w, i) =>
                  /\ EntriesOf(w, w[i].origin, TRUE) = {}
                  /\ Cardinality(EntriesOf(w, w[i].origin, FALSE)) <= AttemptOf(w[i].msg)
        BY <3>1 DEF RetryInv
      <3>4. CASE i = o
        <4> HIDE DEF o, l
        <4> QED BY <1>8, <1>12, <3>1, <3>2, <3>3, <3>4
      <3>5. CASE i # o
        <4> HIDE DEF o, l
        <4> QED BY <1>8, <3>1, <3>2, <3>3, <3>5
      <3> QED BY <3>4, <3>5
    <2> QED BY <2>1, <2>2
  <1> HIDE DEF l
  <1>15. RetryInv(x, max) BY <1>1, <1>13, <1>14 DEF RetryInv
  <1> QED BY <1>15 DEF x

(* Every step keeps the count. *)
LEMMA RetryStep ==
    BaseInv /\ RetryInv(wal, conf.maxAttempts) /\ [Next]_vars
        => RetryInv(wal, conf.maxAttempts)'
  <1> SUFFICES ASSUME BaseInv, RetryInv(wal, conf.maxAttempts), [Next]_vars
               PROVE  RetryInv(wal', conf'.maxAttempts)
    BY DEF RetryInv, EntriesOf, LastCopy
  <1>1. TypeOK /\ LogOK BY TypeParts DEF BaseInv
  <1>2. wal \in Seq(LogEntry) /\ conf.maxAttempts \in Nat BY <1>1, ConfTyped DEF LogOK
  <1>3. CASE PublishAgent \/ RetryAgent
    <2>1. PICK r \in LogEntry :
              /\ Store(r)
              /\ \/ ~ r.dlq /\ r.origin = Len(wal) + 1
                 \/ \E i \in 1 .. Len(wal) :
                       /\ conf.maxAttempts > 0 /\ ~ wal[i].dlq /\ IsEvent(wal[i].msg)
                       /\ \A j \in i + 1 .. Len(wal) : wal[j].origin # wal[i].origin
                       /\ r = Entry(retryAgent(wal[i].msg, conf.maxAttempts), wal[i].origin,
                                    DecideRetryRoute(ParseEvent(wal[i].msg).attempt,
                                                     conf.maxAttempts).toDLQ,
                                    wal[i].to)
      BY <1>1, <1>3, ProducersStore
    <2>2. (wal' = Append(wal, r) \/ UNCHANGED wal) /\ UNCHANGED conf
      BY <2>1 DEF Store, AppendRecord, AppendFails, AppendUnwritten
    <2>8. CASE UNCHANGED wal BY <2>2, <2>8
    <2> SUFFICES ASSUME wal' = Append(wal, r) PROVE RetryInv(wal', conf'.maxAttempts)
      BY <2>2, <2>8
    <2>3. CASE ~ r.dlq /\ r.origin = Len(wal) + 1 BY <1>2, <2>2, <2>3, PublishCounts
    <2>4. CASE ~ (~ r.dlq /\ r.origin = Len(wal) + 1)
      <3> DEFINE max == conf.maxAttempts
      <3>1. PICK i \in 1 .. Len(wal) :
               /\ max > 0 /\ ~ wal[i].dlq /\ IsEvent(wal[i].msg)
               /\ \A j \in i + 1 .. Len(wal) : wal[j].origin # wal[i].origin
               /\ r = Entry(retryAgent(wal[i].msg, max), wal[i].origin,
                            DecideRetryRoute(ParseEvent(wal[i].msg).attempt, max).toDLQ,
                            wal[i].to)
        BY <2>1, <2>4
      <3> DEFINE m == wal[i].msg
                 n == retryAgent(m, max)
                 a == IF m.attempt < 1 THEN 1 ELSE m.attempt
      <3>2. m \in Message
        <4>1. wal[i] \in LogEntry BY <1>2
        <4> QED BY <4>1 DEF LogEntry
      <3>3. /\ ParseEvent(m) = m /\ m.attempt \in Nat /\ n \in Envelopes(Payloads)
            /\ n.attempt = a + 1
            /\ DecideRetryRoute(m.attempt, max).toDLQ <=> (max > 0 /\ a + 1 > max)
        BY <1>2, <3>1, <3>2, RetriedIsMessage
      <3>4. ParseEvent(n) = n BY <3>3, ParseIsInverse
      <3>5. /\ r.msg = n /\ r.origin = wal[i].origin
            /\ r.dlq = DecideRetryRoute(ParseEvent(m).attempt, max).toDLQ
        BY <3>1 DEF Entry
      <3> HIDE DEF m, n, max
      <3>6. a \in Nat /\ a >= 1 /\ AttemptOf(m) = a BY <3>3 DEF AttemptOf
      <3> HIDE DEF a
      <3>7. AttemptOf(n) = a + 1
        <4>1. ~ (n.attempt < 1) BY <3>3, <3>6
        <4> QED BY <3>3, <3>4, <4>1 DEF AttemptOf
      <3>8. r.dlq <=> AttemptOf(m) + 1 > max BY <3>1, <3>3, <3>5, <3>6
      <3>9. LastCopy(wal, i) BY <3>1 DEF LastCopy
      <3> QED BY <1>2, <2>2, <3>1, <3>5, <3>6, <3>7, <3>8, <3>9, RetryCounts DEF m, max
    <2> QED BY <2>3, <2>4
  <1>4. CASE UNCHANGED <<wal, conf>> BY <1>4
  <1>5. CASE \E i \in pending : PublishToPartition(i) BY <1>4, <1>5 DEF PublishToPartition
  <1>6. CASE ~ Producing /\ ~ Restart BY <1>4, <1>6, StoreSame DEF store
  <1>7. CASE Restart BY <1>4, <1>7 DEF Restart
  <1> QED BY <1>3, <1>5, <1>6, <1>7 DEF Producing

(* retry-agent ends (retry.go): for every maximum above 0 and whatever     *)
(* attempt number an event was first published with, the event is in the   *)
(* topic at most that many times and in the DLQ at most once, if its       *)
(* consumers retry every copy once.                                        *)
THEOREM RetriesEnd == Spec => []RetriesBounded
  <1>1. Init => RetryInv(wal, conf.maxAttempts)
    <2> SUFFICES ASSUME Init PROVE RetryInv(wal, conf.maxAttempts)
      OBVIOUS
    <2>1. wal = <<>> BY DEF Init
    <2>2. 1 .. Len(wal) = {} BY <2>1
    <2> QED BY <2>2 DEF RetryInv
  <1>2. RetryInv(wal, conf.maxAttempts) => RetriesBounded
    BY DEF RetryInv, RetriesBounded, EntriesOf
  <1> QED BY <1>1, <1>2, BaseHolds, RetryStep, PTL DEF Spec

-----------------------------------------------------------------------------
(* Runs and registry, rebuilt *)

(* The runs after the first n messages of the topic *)
RunsTo(n) == RunsAfter(SubSeq(plog, 1, n), conf.escalation)

(* At every point of Ingest the runs are what the messages before the      *)
(* cursor make of them, the one in hand included once it was applied.      *)
RunsInv ==
    ~ overrun =>
        /\ poller.pc \in {"idle", "touch", "apply"} => sessions = RunsTo(poller.cursor)
        /\ poller.pc = "escalate" =>
              sessions = [RunsTo(poller.cursor) EXCEPT ![Ev.session] = Apply(@, Ev)]
        /\ poller.pc \in {"deliver", "notify"} => sessions = RunsTo(poller.cursor + 1)

(* Messages whose agent was seen *)
TouchedTo == IF poller.pc \in {"idle", "touch"} THEN poller.cursor ELSE poller.cursor + 1

KnownInv ==
    ~ overrun =>
        \A i \in 1 .. Len(plog) :
            i <= TouchedTo /\ IsEvent(plog[i]) =>
                agents[ParseEvent(plog[i]).agent].status # "unknown"

(* Prefixes of a sequence *)
LEMMA PrefixNext ==
    ASSUME NEW S, NEW s \in Seq(S), NEW n \in Nat, n < Len(s)
    PROVE  /\ SubSeq(s, 1, n) \in Seq(S) /\ s[n + 1] \in S
           /\ SubSeq(s, 1, n + 1) = Append(SubSeq(s, 1, n), s[n + 1])
  <1> DEFINE p == SubSeq(s, 1, n)
             q == SubSeq(s, 1, n + 1)
  <1>0. n + 1 \in 1 .. Len(s) OBVIOUS
  <1>1. p \in Seq(S) /\ Len(p) = n /\ \A i \in 1 .. n : p[i] = s[i] OBVIOUS
  <1>2. q \in Seq(S) /\ Len(q) = n + 1 /\ \A i \in 1 .. n + 1 : q[i] = s[i] OBVIOUS
  <1>3. s[n + 1] \in S BY <1>0
  <1> DEFINE r == Append(p, s[n + 1])
  <1> HIDE DEF p, q
  <1>4. /\ r \in Seq(S) /\ Len(r) = n + 1 /\ r[n + 1] = s[n + 1]
        /\ \A i \in 1 .. n : r[i] = p[i]
    BY <1>1, <1>3
  <1> HIDE DEF r
  <1>5. \A i \in 1 .. n + 1 : q[i] = r[i]
    <2> SUFFICES ASSUME NEW i \in 1 .. n + 1 PROVE q[i] = r[i]
      OBVIOUS
    <2>1. CASE i = n + 1 BY <1>2, <1>4, <2>1
    <2>2. CASE i # n + 1
      <3>1. i \in 1 .. n BY <2>2
      <3> QED BY <1>1, <1>2, <1>4, <3>1
    <2> QED BY <2>1, <2>2
  <1>6. q = r BY <1>2, <1>4, <1>5
  <1> QED BY <1>1, <1>3, <1>6 DEF p, q, r

(* Appending leaves the prefixes alone. *)
LEMMA PrefixSame ==
    ASSUME NEW S, NEW s \in Seq(S), NEW t \in Seq(S), NEW n \in Nat, n <= Len(s),
           Len(s) <= Len(t), \A i \in 1 .. Len(s) : t[i] = s[i]
    PROVE  SubSeq(t, 1, n) = SubSeq(s, 1, n)
  <1> DEFINE p == SubSeq(s, 1, n)
             q == SubSeq(t, 1, n)
  <1>1. p \in Seq(S) /\ Len(p) = n /\ \A i \in 1 .. n : p[i] = s[i] OBVIOUS
  <1>2. q \in Seq(S) /\ Len(q) = n /\ \A i \in 1 .. n : q[i] = t[i] OBVIOUS
  <1>3. \A i \in 1 .. n : i \in 1 .. Len(s) OBVIOUS
  <1>4. \A i \in 1 .. n : q[i] = p[i] BY <1>1, <1>2, <1>3
  <1> HIDE DEF p, q
  <1>5. q = p BY <1>1, <1>2, <1>4
  <1> QED BY <1>5 DEF p, q

(* The runs after no message, after one more, and after all *)
LEMMA RunsToSteps ==
    ASSUME LogOK
    PROVE  /\ RunsTo(0) = [r \in Sessions |-> NoRun]
           /\ \A n \in Nat : n < Len(plog) =>
                 RunsTo(n + 1) = IngestWhole(RunsTo(n), plog[n + 1], conf.escalation)
           /\ RunsTo(Len(plog)) = RunsAfter(plog, conf.escalation)
  <1>1. plog \in Seq(Message) BY PublishedTyped
  <1> DEFINE s == plog
  <1>2. s \in Seq(Message) BY <1>1
  <1>3. SubSeq(s, 1, 0) = <<>> /\ SubSeq(s, 1, Len(s)) = s
    <2> HIDE DEF s
    <2> QED BY <1>2
  <1>4. RunsTo(0) = [r \in Sessions |-> NoRun] BY <1>3, RunsNone DEF RunsTo
  <1>5. ASSUME NEW n \in Nat, n < Len(plog)
        PROVE  RunsTo(n + 1) = IngestWhole(RunsTo(n), plog[n + 1], conf.escalation)
    <2>1. /\ SubSeq(s, 1, n) \in Seq(Message) /\ s[n + 1] \in Message
          /\ SubSeq(s, 1, n + 1) = Append(SubSeq(s, 1, n), s[n + 1])
      BY <1>2, <1>5, PrefixNext
    <2> QED BY <2>1, RunsAppend DEF RunsTo
  <1> QED BY <1>3, <1>4, <1>5 DEF RunsTo

(* The runs of a process that starts *)
LEMMA RunsToNext == ASSUME LogOK' PROVE RunsTo(0)' = [r \in Sessions |-> NoRun]
  <1>1. plog' \in Seq(Message) BY DEF LogOK
  <1>2. SubSeq(plog', 1, 0) = <<>> BY <1>1
  <1> QED BY <1>2, RunsNone DEF RunsTo

(* As long as the process runs what was published only grows. *)
LEMMA PublishedGrow ==
    ASSUME BaseInv, [Next]_vars, ~ Restart
    PROVE  /\ UNCHANGED conf /\ plog \in Seq(Message) /\ plog' \in Seq(Message)
           /\ Len(plog) \in Nat /\ Len(plog') \in Nat /\ Len(plog) <= Len(plog')
           /\ \A i \in 1 .. Len(plog) : plog'[i] = plog[i]
  <1>1. LogOK /\ TopicInv BY TypeParts DEF BaseInv
  <1>2. plog \in Seq(Message) /\ Len(plog) \in Nat BY <1>1, PublishedTyped
  <1>3. CASE Producing
    <2>1. /\ plog' \in Seq(Message) /\ Len(plog) <= Len(plog') /\ UNCHANGED conf
          /\ \A i \in 1 .. Len(plog) : plog'[i] = plog[i]
      BY <1>1, <1>3, ProducersKeep
    <2>2. Len(plog') \in Nat BY <2>1
    <2> QED BY <1>2, <2>1, <2>2
  <1>4. CASE ~ Producing
    <2>1. UNCHANGED <<conf, plog>> BY <1>4, StoreSame DEF store
    <2>2. Len(plog) <= Len(plog) BY <1>2
    <2> QED BY <1>2, <2>1, <2>2
  <1> QED BY <1>3, <1>4

(* Where the message in hand stands in the topic *)
LEMMA HandStands ==
    ASSUME BaseInv, poller.msgs # <<>>
    PROVE  /\ Current.offset \in Nat /\ Current.offset < Len(plog)
           /\ Current.payload = plog[Current.offset + 1]
           /\ poller.cursor \in Nat /\ Current.offset >= poller.cursor
           /\ ~ overrun => Current.offset = poller.cursor
  <1>1. PollerOK /\ BatchInv BY TypeParts DEF BaseInv
  <1>2. Current = poller.msgs[1] /\ Current.offset \in Nat /\ Len(poller.msgs) \in Nat \ {0}
    BY <1>1, InHand
  <1>3. 1 \in 1 .. Len(poller.msgs) BY <1>2
  <1>4. /\ Offset(1) < Len(plog) /\ poller.msgs[1].payload = plog[Offset(1) + 1]
        /\ Offset(1) >= poller.cursor /\ (~ overrun => Offset(1) = poller.cursor)
    BY <1>1, <1>3 DEF BatchInv
  <1>5. poller.cursor \in Nat BY <1>1 DEF Poller, PollerOK
  <1> QED BY <1>2, <1>4, <1>5 DEF Offset

(* The cursor, and one further once Ingest began, is within the topic. *)
LEMMA CursorWithin ==
    ASSUME BaseInv
    PROVE  /\ poller.cursor \in Nat /\ poller.cursor <= Len(plog)
           /\ poller.pc # "idle" /\ ~ overrun => poller.cursor + 1 <= Len(plog)
           /\ poller.pc # "idle" => poller.msgs # <<>>
  <1>1. PollerOK /\ BatchInv /\ LogOK BY TypeParts DEF BaseInv
  <1>2. poller.pc # "idle" => poller.msgs # <<>> BY <1>1 DEF Poller, PollerOK
  <1>3. poller.cursor \in Nat /\ poller.cursor <= Len(plog) BY <1>1 DEF BatchInv, Poller, PollerOK
  <1>4. Len(plog) \in Nat BY <1>1, PublishedTyped
  <1>5. ASSUME poller.pc # "idle", ~ overrun PROVE poller.cursor + 1 <= Len(plog)
    <2>1. poller.cursor < Len(plog) BY <1>2, <1>5, HandStands
    <2> QED BY <1>3, <1>4, <2>1
  <1> QED BY <1>2, <1>3, <1>5

(* Steps beside the poller *)
LEMMA BesideRuns ==
    ASSUME BaseInv, [Next]_vars, ~ Restart, RunsInv, KnownInv,
           UNCHANGED <<poller, sessions, overrun>>,
           \A b \in Agents : agents[b].status # "unknown" => agents'[b].status # "unknown"
    PROVE  RunsInv' /\ KnownInv'
  <1>1. /\ UNCHANGED conf /\ plog \in Seq(Message) /\ plog' \in Seq(Message)
        /\ Len(plog) \in Nat /\ Len(plog') \in Nat /\ Len(plog) <= Len(plog')
        /\ \A i \in 1 .. Len(plog) : plog'[i] = plog[i]
    BY PublishedGrow
  <1>2. /\ poller.cursor \in Nat /\ poller.cursor <= Len(plog)
        /\ poller.pc # "idle" /\ ~ overrun => poller.cursor + 1 <= Len(plog)
    BY CursorWithin
  <1>3. ASSUME NEW n \in Nat, n <= Len(plog)
        PROVE  RunsAfter(SubSeq(plog', 1, n), conf'.escalation) = RunsTo(n)
    <2>1. SubSeq(plog', 1, n) = SubSeq(plog, 1, n) BY <1>1, <1>3, PrefixSame
    <2> QED BY <1>1, <2>1 DEF RunsTo
  <1>4. Ev' = Ev BY DEF Ev, Current
  <1>5. RunsInv'
    <2> SUFFICES ASSUME ~ overrun PROVE RunsInv'
      BY DEF RunsInv
    <2>1. RunsTo(poller.cursor)' = RunsTo(poller.cursor) BY <1>2, <1>3 DEF RunsTo
    <2>2. poller.pc # "idle" => RunsTo(poller.cursor + 1)' = RunsTo(poller.cursor + 1)
      BY <1>2, <1>3 DEF RunsTo
    <2> QED BY <1>4, <2>1, <2>2 DEF RunsInv
  <1>6. KnownInv'
    <2> SUFFICES ASSUME ~ overrun, NEW i \in 1 .. Len(plog'), i <= TouchedTo,
                        IsEvent(plog'[i])
                 PROVE  agents'[ParseEvent(plog'[i]).agent].status # "unknown"
      BY DEF KnownInv, TouchedTo
    <2>1. TouchedTo <= Len(plog) /\ TouchedTo \in Nat BY <1>2 DEF TouchedTo
    <2>2. i \in 1 .. Len(plog) BY <1>1, <2>1
    <2>3. plog'[i] = plog[i] BY <1>1, <2>2
    <2>4. agents[ParseEvent(plog[i]).agent].status # "unknown" BY <2>2, <2>3 DEF KnownInv
    <2>5. ParseEvent(plog[i]).agent \in Agents
      <3>1. plog[i] \in Message BY <1>1, <2>2
      <3>2. plog[i] \in Envelopes(Payloads)
        BY <2>3, <3>1, RawIsNoEvent DEF Message, Payloads
      <3>3. plog[i].agent \in Agents BY <3>2 DEF Envelopes
      <3> QED BY <3>2, <3>3, ParseIsInverse
    <2> QED BY <2>3, <2>4, <2>5
  <1> QED BY <1>5, <1>6

(* What Ingest makes of the message in hand, in its parts *)
LEMMA WholeInParts ==
    ASSUME BaseInv, poller.msgs # <<>>, ~ overrun
    PROVE  LET c == poller.cursor
               applied == [RunsTo(c) EXCEPT ![Ev.session] = Apply(@, Ev)]
           IN  /\ ~ IsEvent(Current.payload) => RunsTo(c + 1) = RunsTo(c)
               /\ IsEvent(Current.payload) /\ ~ IsEscalated => RunsTo(c + 1) = applied
               /\ IsEvent(Current.payload) /\ IsEscalated /\ DOMAIN RunsTo(c) = Sessions =>
                     RunsTo(c + 1)
                        = [applied EXCEPT ![Ev.session] = Escalate(@, conf.escalation)]
  <1> DEFINE c == poller.cursor
             m == Current.payload
             ss == RunsTo(c)
             esc == conf.escalation
             applied == [ss EXCEPT ![Ev.session] = Apply(@, Ev)]
  <1>1. c \in Nat /\ c < Len(plog) /\ m = plog[c + 1] BY HandStands
  <1>2. LogOK /\ PollerOK BY TypeParts DEF BaseInv
  <1>3. RunsTo(c + 1) = IngestWhole(ss, m, esc) BY <1>1, <1>2, RunsToSteps
  <1>4. Ev = ParseEvent(m) BY DEF Ev
  <1> HIDE DEF c, m, ss, esc
  <1>5. IngestWhole(ss, m, esc) =
          IF ~ IsEvent(m) THEN ss
          ELSE [ss EXCEPT ![Ev.session] =
                  IF Ev.type = "error" /\ esc \notin {"", Ev.agent}
                  THEN Escalate(Apply(ss[Ev.session], Ev), esc) ELSE Apply(ss[Ev.session], Ev)]
    BY <1>4 DEF IngestWhole
  <1>6. IsEscalated <=> (Ev.type = "error" /\ esc \notin {"", Ev.agent})
    BY DEF IsEscalated, esc
  <1>7. CASE ~ IsEvent(m) BY <1>3, <1>5, <1>7 DEF c, m, ss
  <1>8. CASE IsEvent(m) /\ ~ IsEscalated
    <2>1. RunsTo(c + 1) = applied BY <1>3, <1>5, <1>6, <1>8
    <2> QED BY <1>8, <2>1 DEF c, m, ss
  <1>9. CASE IsEvent(m) /\ IsEscalated
    <2>1. RunsTo(c + 1) = [ss EXCEPT ![Ev.session] = Escalate(Apply(ss[Ev.session], Ev), esc)]
      BY <1>3, <1>5, <1>6, <1>9
    <2>2. Ev.session \in Sessions BY <1>2, <1>9, EventInHand DEF m
    <2>3. ASSUME DOMAIN ss = Sessions
          PROVE  [applied EXCEPT ![Ev.session] = Escalate(@, esc)]
                    = [ss EXCEPT ![Ev.session] = Escalate(Apply(ss[Ev.session], Ev), esc)]
      <3> DEFINE x == Ev.session
      <3>1. x \in DOMAIN ss BY <2>2, <2>3
      <3>2. ASSUME NEW f, NEW y \in DOMAIN f, NEW u, NEW v
            PROVE  [[f EXCEPT ![y] = u] EXCEPT ![y] = v] = [f EXCEPT ![y] = v]
        OBVIOUS
      <3>3. applied[x] = Apply(ss[x], Ev) BY <3>1
      <3>4. [applied EXCEPT ![x] = Escalate(@, esc)]
               = [applied EXCEPT ![x] = Escalate(Apply(ss[x], Ev), esc)]
        BY <3>3
      <3> QED BY <3>1, <3>2, <3>4
    <2> QED BY <1>9, <2>1, <2>3 DEF c, m, ss, esc
  <1> QED BY <1>7, <1>8, <1>9 DEF m

(* Ingest keeps the runs. *)
LEMMA IngestRuns ==
    ASSUME BaseInv, BaseInv', RunsInv, KnownInv, Ingest PROVE RunsInv' /\ KnownInv'
  <1>1. /\ TypeOK /\ LogOK /\ PollerOK /\ agents \in Registry /\ sessions \in [Sessions -> RunState]
        /\ BatchInv
    BY TypeParts DEF BaseInv
  <1>2. UNCHANGED <<store, overrun>>
    BY DEF Ingest, Skip, Touch, ApplyEvent, RouteHandoff, EscalateRun, NotifyEscalation,
           histories
  <1>3. UNCHANGED <<plog, conf, overrun>> /\ plog' = plog BY <1>2 DEF store
  <1>4. poller.msgs # <<>>
    BY <1>1 DEF Poller, PollerOK, Ingest, Skip, Touch, ApplyEvent, RouteHandoff, EscalateRun,
       NotifyEscalation
  <1> SUFFICES ASSUME ~ overrun PROVE RunsInv' /\ KnownInv'
    BY <1>3 DEF RunsInv, KnownInv
  <1> DEFINE c == poller.cursor
             ss == RunsTo(c)
             applied == [ss EXCEPT ![Ev.session] = Apply(@, Ev)]
  <1>5. /\ c \in Nat /\ c < Len(plog) /\ Current.offset = c
        /\ Current.payload = plog[c + 1]
    BY <1>4, HandStands
  <1>6. \A n : RunsTo(n)' = RunsTo(n) BY <1>3 DEF RunsTo
  <1>7. /\ ~ IsEvent(Current.payload) => RunsTo(c + 1) = ss
        /\ IsEvent(Current.payload) /\ ~ IsEscalated => RunsTo(c + 1) = applied
        /\ IsEvent(Current.payload) /\ IsEscalated /\ DOMAIN ss = Sessions =>
              RunsTo(c + 1) = [applied EXCEPT ![Ev.session] = Escalate(@, conf.escalation)]
    BY <1>4, WholeInParts
  <1>8. ASSUME Advance, sessions' = RunsTo(c + 1),
               \A i \in 1 .. Len(plog) : i <= c + 1 /\ IsEvent(plog[i]) =>
                   agents'[ParseEvent(plog[i]).agent].status # "unknown"
        PROVE  RunsInv' /\ KnownInv'
    <2>1. poller'.pc \in {"idle", "touch"} /\ poller'.cursor = c + 1
      BY <1>1, <1>3, <1>4, <1>5, <1>8, AdvanceBatch
    <2>2. RunsInv' BY <1>6, <1>8, <2>1 DEF RunsInv
    <2>3. KnownInv' BY <1>3, <1>8, <2>1 DEF KnownInv, TouchedTo
    <2> QED BY <2>2, <2>3
  <1>9. ASSUME poller.pc \notin {"idle", "touch"}, UNCHANGED agents
        PROVE  \A i \in 1 .. Len(plog) : i <= c + 1 /\ IsEvent(plog[i]) =>
                  agents'[ParseEvent(plog[i]).agent].status # "unknown"
    BY <1>9 DEF KnownInv, TouchedTo
  <1>10. ASSUME poller.pc \notin {"idle", "touch"}, UNCHANGED agents,
                poller'.pc \notin {"idle", "touch"}, poller'.cursor = c
         PROVE  KnownInv'
    BY <1>3, <1>9, <1>10 DEF KnownInv, TouchedTo
  <1>11. CASE Skip
    <2>1. /\ poller.pc = "touch" /\ ~ IsEvent(Current.payload) /\ Advance
          /\ UNCHANGED <<agents, sessions>>
      BY <1>11 DEF Skip, plane
    <2>2. sessions' = RunsTo(c + 1) BY <1>7, <2>1 DEF RunsInv
    <2>3. ASSUME NEW i \in 1 .. Len(plog), i <= c + 1, IsEvent(plog[i])
          PROVE  agents'[ParseEvent(plog[i]).agent].status # "unknown"
      <3>1. i # c + 1 BY <1>5, <2>1, <2>3
      <3>2. i <= c BY <1>5, <2>3, <3>1
      <3> QED BY <2>1, <2>3, <3>2 DEF KnownInv, TouchedTo
    <2> QED BY <1>8, <2>1, <2>2, <2>3
  <1>12. CASE Touch
    <2>1. /\ poller.pc = "touch" /\ IsEvent(Current.payload) /\ Step("apply")
          /\ Seen(Ev.agent, "busy") /\ UNCHANGED sessions
      BY <1>12 DEF Touch
    <2>2. poller'.pc = "apply" /\ poller'.cursor = c BY <1>1, <1>3, <1>4, <2>1, StepBatch
    <2>3. Ev.agent \in Agents BY <1>1, <1>4, <2>1, EventInHand
    <2>4. /\ agents'[Ev.agent].status # "unknown"
          /\ \A b \in Agents : agents[b].status # "unknown" => agents'[b].status # "unknown"
      BY <1>1, <2>1, <2>3, SeenKeeps
    <2>5. RunsInv' BY <1>6, <2>1, <2>2 DEF RunsInv
    <2>6. ASSUME NEW i \in 1 .. Len(plog), i <= c + 1, IsEvent(plog[i])
          PROVE  agents'[ParseEvent(plog[i]).agent].status # "unknown"
      <3>1. CASE i = c + 1
        <4>1. ParseEvent(plog[i]) = Ev BY <1>5, <3>1 DEF Ev
        <4> QED BY <2>4, <4>1
      <3>2. CASE i # c + 1
        <4>1. i <= c BY <1>5, <2>6, <3>2
        <4>2. agents[ParseEvent(plog[i]).agent].status # "unknown"
          BY <2>1, <2>6, <4>1 DEF KnownInv, TouchedTo
        <4>3. ParseEvent(plog[i]).agent \in Agents
          <5>1. plog[i] \in Message BY <1>1, PublishedTyped
          <5>2. plog[i] \in Envelopes(Payloads)
            BY <2>6, <5>1, RawIsNoEvent DEF Message, Payloads
          <5>3. plog[i].agent \in Agents BY <5>2 DEF Envelopes
          <5> QED BY <5>2, <5>3, ParseIsInverse
        <4> QED BY <2>4, <4>2, <4>3
      <3> QED BY <3>1, <3>2
    <2>7. KnownInv' BY <1>3, <2>2, <2>6 DEF KnownInv, TouchedTo
    <2> QED BY <2>5, <2>7
  <1>13. CASE ApplyEvent
    <2>1. /\ poller.pc = "apply" /\ sessions' = [sessions EXCEPT ![Ev.session] = Apply(@, Ev)]
          /\ IF IsHandoff THEN Step("deliver")
             ELSE IF IsEscalated THEN Step("escalate") ELSE Advance
          /\ UNCHANGED agents
      BY <1>13 DEF ApplyEvent
    <2>2. IsEvent(Current.payload) BY <1>1, <2>1 DEF BatchInv
    <2>3. sessions' = applied BY <2>1 DEF RunsInv
    <2>4. CASE IsHandoff
      <3>1. poller'.pc = "deliver" /\ poller'.cursor = c
        BY <1>1, <1>3, <1>4, <2>1, <2>2, <2>4, StepBatch
      <3>2. ~ IsEscalated BY <2>4 DEF IsHandoff, IsEscalated
      <3>3. sessions' = RunsTo(c + 1) BY <1>7, <2>2, <2>3, <3>2
      <3>4. RunsInv' BY <1>6, <3>1, <3>3 DEF RunsInv
      <3> QED BY <1>10, <2>1, <3>1, <3>4
    <2>5. CASE ~ IsHandoff /\ IsEscalated
      <3>1. poller'.pc = "escalate" /\ poller'.cursor = c /\ Ev' = Ev
        BY <1>1, <1>3, <1>4, <2>1, <2>2, <2>5, StepBatch
      <3>2. RunsTo(poller.cursor)' = ss BY <1>3, <3>1 DEF RunsTo
      <3>3. RunsInv' BY <2>3, <3>1, <3>2 DEF RunsInv
      <3> QED BY <1>10, <2>1, <3>1, <3>3
    <2>6. CASE ~ IsHandoff /\ ~ IsEscalated
      <3>1. sessions' = RunsTo(c + 1) BY <1>7, <2>2, <2>3, <2>6
      <3> QED BY <1>8, <1>9, <2>1, <2>6, <3>1
    <2> QED BY <2>4, <2>5, <2>6
  <1>14. CASE RouteHandoff
    <2>1. poller.pc = "deliver" /\ Advance /\ UNCHANGED <<agents, sessions>>
      BY <1>14 DEF RouteHandoff
    <2>2. sessions' = RunsTo(c + 1) BY <2>1 DEF RunsInv
    <2> QED BY <1>8, <1>9, <2>1, <2>2
  <1>15. CASE EscalateRun
    <2>1. /\ poller.pc = "escalate" /\ Step("notify") /\ UNCHANGED agents
          /\ sessions' = [sessions EXCEPT ![Ev.session] = Escalate(@, conf.escalation)]
      BY <1>15 DEF EscalateRun
    <2>2. IsEvent(Current.payload) /\ IsEscalated BY <1>1, <2>1 DEF BatchInv
    <2>3. poller'.pc = "notify" /\ poller'.cursor = c
      BY <1>1, <1>3, <1>4, <2>1, <2>2, StepBatch
    <2>4. sessions = applied BY <2>1 DEF RunsInv
    <2>5. DOMAIN ss = Sessions
      <3>1. DOMAIN applied = DOMAIN ss OBVIOUS
      <3> QED BY <1>1, <2>4, <3>1
    <2>6. sessions' = RunsTo(c + 1) BY <1>7, <2>1, <2>2, <2>4, <2>5
    <2>7. RunsInv' BY <1>6, <2>3, <2>6 DEF RunsInv
    <2> QED BY <1>10, <2>1, <2>3, <2>7
  <1>16. CASE NotifyEscalation
    <2>1. poller.pc = "notify" /\ Advance /\ UNCHANGED <<agents, sessions>>
      BY <1>16 DEF NotifyEscalation
    <2>2. sessions' = RunsTo(c + 1) BY <2>1 DEF RunsInv
    <2> QED BY <1>8, <1>9, <2>1, <2>2
  <1> QED BY <1>11, <1>12, <1>13, <1>14, <1>15, <1>16 DEF Ingest

(* Every step does. *)
LEMMA RunsStep ==
    BaseInv /\ BaseInv' /\ RunsInv /\ KnownInv /\ [Next]_vars => RunsInv' /\ KnownInv'
  <1> SUFFICES ASSUME BaseInv, BaseInv', RunsInv, KnownInv, [Next]_vars
               PROVE  RunsInv' /\ KnownInv'
    OBVIOUS
  <1>1. TypeOK /\ LogOK /\ HistoriesOK BY TypeParts DEF BaseInv
  <1>8. CASE Restart
    <2>1. /\ poller' = NoPoll /\ sessions' = [s \in Sessions |-> NoRun]
      BY <1>8 DEF Restart
    <2>2. poller'.pc = "idle" /\ poller'.cursor = 0 BY <2>1 DEF NoPoll
    <2>3. LogOK' BY TypePartsOfNext DEF BaseInv
    <2>4. RunsTo(0)' = [s \in Sessions |-> NoRun] BY <2>3, RunsToNext
    <2>5. RunsInv' BY <2>1, <2>2, <2>4 DEF RunsInv, RunsTo
    <2>6. TouchedTo' = 0 BY <2>2 DEF TouchedTo
    <2>7. \A i \in 1 .. Len(plog') : ~ (i <= 0) OBVIOUS
    <2>8. KnownInv' BY <2>6, <2>7 DEF KnownInv
    <2> QED BY <2>5, <2>8
  <1> SUFFICES ASSUME ~ Restart PROVE RunsInv' /\ KnownInv'
    BY <1>8
  <1>2. ASSUME UNCHANGED <<poller, sessions, overrun, agents>> PROVE RunsInv' /\ KnownInv'
    BY <1>2, BesideRuns
  <1>3. CASE Producing
    <2>1. TopicInv BY DEF BaseInv
    <2>2. UNCHANGED <<poller, plane, histories>> BY <1>1, <1>3, <2>1, ProducersKeep
    <2> QED BY <1>2, <2>2 DEF plane, histories
  <1>4. CASE \/ \E a \in conf.registering : Register(a) \/ Heartbeat(a)
             \/ \E a \in Agents : Silence(a)
             \/ Sweep
    <2>1. /\ UNCHANGED <<poller, sessions, overrun>>
          /\ \A b \in Agents : agents[b].status # "unknown" => agents'[b].status # "unknown"
      BY <1>1, <1>4, RegistrySteps DEF histories
    <2> QED BY <2>1, BesideRuns
  <1>5. CASE drainOnce
    <2>1. /\ poller.pc = "idle" /\ UNCHANGED <<store, plane>>
          /\ poller' = [poller EXCEPT !.pc = "touch",
                                      !.msgs = Fetch(topic, poller.cursor, PollBatch)]
          /\ overrun' = (overrun \/ poller.cursor < topic.head)
      BY <1>5 DEF drainOnce
    <2>2. poller'.pc = "touch" /\ poller'.cursor = poller.cursor
      <3>1. PollerOK BY <1>1, TypeParts
      <3> QED BY <2>1, <3>1 DEF Poller, PollerOK
    <2>3. ~ overrun' => ~ overrun BY <1>1, <2>1 DEF HistoriesOK
    <2>4. UNCHANGED <<conf, plog, sessions, agents>> BY <2>1 DEF store, plane
    <2>5. plog' = plog /\ RunsTo(poller.cursor)' = RunsTo(poller.cursor)
      BY <2>2, <2>4 DEF RunsTo
    <2>6. RunsInv' BY <2>1, <2>2, <2>3, <2>4, <2>5 DEF RunsInv
    <2>7. TouchedTo' = TouchedTo BY <2>1, <2>2 DEF TouchedTo
    <2>8. KnownInv' BY <2>3, <2>4, <2>5, <2>7 DEF KnownInv
    <2> QED BY <2>6, <2>8
  <1>6. CASE Ingest BY <1>6, IngestRuns
  <1>7. CASE \E t \in Streams : OpenInbox(t) \/ Open(t) \/ Receive(t) \/ Send(t) \/ Disconnect(t)
    <2>1. /\ UNCHANGED <<poller, sessions, overrun>>
          /\ \A b \in Agents : agents[b].status # "unknown" => agents'[b].status # "unknown"
      BY <1>1, <1>7, StreamBase DEF histories
    <2> QED BY <2>1, BesideRuns
  <1>9. CASE UNCHANGED vars BY <1>2, <1>9 DEF vars, plane, histories
  <1> QED BY <1>3, <1>4, <1>5, <1>6, <1>7, <1>9 DEF Next, Producing

-----------------------------------------------------------------------------
(* The order of the log and of the ring *)

(* As long as nothing parted them, the records on their way to the ring    *)
(* are the end of the log and what was published is the rest of it.        *)
OrderInv ==
    ~ disturbed => \E n \in 0 .. Len(wal) : /\ pending = n + 1 .. Len(wal)
                                            /\ plog = MessagesOf(SubSeq(wal, 1, n))

(* Every step keeps it. *)
LEMMA OrderStep == BaseInv /\ OrderInv /\ [Next]_vars => OrderInv'
  <1> SUFFICES ASSUME BaseInv, OrderInv, [Next]_vars, ~ disturbed'
               PROVE  \E n \in 0 .. Len(wal') : /\ pending' = n + 1 .. Len(wal')
                                                /\ plog' = MessagesOf(SubSeq(wal', 1, n))
    BY DEF OrderInv
  <1>1. LogOK BY TypeParts DEF BaseInv
  <1>2. /\ wal \in Seq(LogEntry) /\ Len(wal) \in Nat /\ pending \in SUBSET (1 .. Len(wal))
        /\ disturbed \in BOOLEAN
    BY <1>1 DEF LogOK
  <1>3. CASE Restart
    <2>1. wal' = wal /\ plog' = MessagesOf(wal) /\ pending' = {} BY <1>3 DEF Restart, Messages
    <2>2. SubSeq(wal, 1, Len(wal)) = wal /\ Len(wal) + 1 .. Len(wal) = {} BY <1>2
    <2>3. Len(wal) \in 0 .. Len(wal) BY <1>2
    <2> QED BY <2>1, <2>2, <2>3
  <1> SUFFICES ASSUME ~ Restart
               PROVE  \E n \in 0 .. Len(wal') : /\ pending' = n + 1 .. Len(wal')
                                                /\ plog' = MessagesOf(SubSeq(wal', 1, n))
    BY <1>3
  <1>4. ~ disturbed
    <2>1. CASE ~ Producing BY <2>1, StoreSame DEF store
    <2>2. CASE PublishAgent \/ RetryAgent
      <3>1. PICK r \in LogEntry : Store(r) BY <1>1, <2>2, ProducersStore
      <3> QED BY <1>2, <3>1 DEF Store, AppendRecord, AppendFails, AppendUnwritten
    <2>3. CASE \E i \in pending : PublishToPartition(i) BY <1>2, <2>3 DEF PublishToPartition
    <2> QED BY <2>1, <2>2, <2>3 DEF Producing
  <1>5. PICK n \in 0 .. Len(wal) : /\ pending = n + 1 .. Len(wal)
                                   /\ plog = MessagesOf(SubSeq(wal, 1, n))
    BY <1>4 DEF OrderInv
  <1>6. CASE UNCHANGED <<wal, pending, plog>> BY <1>5, <1>6
  <1>7. CASE PublishAgent \/ RetryAgent
    <2>1. PICK r \in LogEntry : Store(r) BY <1>1, <1>7, ProducersStore
    <2>2. CASE AppendRecord(r)
      <3>1. /\ wal' = Append(wal, r) /\ pending' = pending \cup {Len(wal) + 1}
            /\ plog' = plog
        BY <2>2 DEF AppendRecord
      <3> DEFINE w == Append(wal, r)
      <3>2. /\ w \in Seq(LogEntry) /\ Len(w) = Len(wal) + 1
            /\ \A i \in 1 .. Len(wal) : w[i] = wal[i]
        BY <1>2
      <3> HIDE DEF w
      <3>3. SubSeq(w, 1, n) = SubSeq(wal, 1, n)
        <4>1. n \in Nat /\ n <= Len(wal) /\ Len(wal) <= Len(w) BY <1>2, <3>2
        <4> QED BY <1>2, <3>2, <4>1, PrefixSame
      <3>4. n \in 0 .. Len(w) /\ pending' = n + 1 .. Len(w) BY <1>2, <1>5, <3>1, <3>2
      <3> QED BY <1>5, <3>1, <3>3, <3>4 DEF w
    <2>3. CASE AppendFails(r)
      <3>1. UNCHANGED <<wal, pending, plog>>
        <4>1. disturbed' = (disturbed \/ wal' # wal) /\ UNCHANGED <<pending, plog>>
          BY <2>3 DEF AppendFails
        <4> QED BY <4>1
      <3> QED BY <1>6, <3>1
    <2>4. CASE AppendUnwritten(r) BY <2>4 DEF AppendUnwritten
    <2> QED BY <2>1, <2>2, <2>3, <2>4 DEF Store
  <1>8. CASE \E i \in pending : PublishToPartition(i)
    <2>1. PICK i \in pending : PublishToPartition(i) BY <1>8
    <2>2. /\ pending' = pending \ {i} /\ ~ \E j \in pending : j < i
          /\ wal' = wal
      BY <2>1 DEF PublishToPartition
    <2>3. i = n + 1 /\ n < Len(wal) /\ n \in Nat BY <1>2, <1>5, <2>2
    <2>4. n + 1 \in 0 .. Len(wal) /\ pending' = (n + 1) + 1 .. Len(wal)
      BY <1>2, <1>5, <2>2, <2>3
    <2> DEFINE p == SubSeq(wal, 1, n)
    <2>5. /\ p \in Seq(LogEntry) /\ wal[n + 1] \in LogEntry
          /\ SubSeq(wal, 1, n + 1) = Append(p, wal[n + 1])
      BY <1>2, <2>3, PrefixNext
    <2>6. plog = MessagesOf(p) BY <1>5
    <2> HIDE DEF p
    <2>7. plog' = IF wal[n + 1].dlq THEN plog ELSE Append(plog, wal[n + 1].msg)
      BY <2>1, <2>3 DEF PublishToPartition
    <2>8. plog' = MessagesOf(SubSeq(wal, 1, n + 1))
      BY <2>5, <2>6, <2>7, MessagesAppend
    <2> QED BY <2>2, <2>4, <2>8
  <1>9. CASE ~ Producing BY <1>6, <1>9, StoreSame DEF store
  <1> QED BY <1>7, <1>8, <1>9 DEF Producing

(* Reading the topic from offset 0 "rebuilds control-plane state"          *)
(* (poller.go): with any number of crashes, at any point of Ingest or of a *)
(* publish, the runs of a poller that has caught up are what the whole     *)
(* topic makes of them and every agent that produced an event is           *)
(* registered, unless the ring had overwritten events unread.  If besides  *)
(* no publish is in progress and records reached the ring in the order of  *)
(* the log, with none left behind by a failed append or published          *)
(* unwritten, they are what the next start will rebuild.                   *)
THEOREM PlaneIsRebuilt == Spec => []RebuiltFromLog
  <1>1. Init => RunsInv /\ KnownInv /\ OrderInv
    <2> SUFFICES ASSUME Init PROVE RunsInv /\ KnownInv /\ OrderInv
      OBVIOUS
    <2>1. LogOK BY BaseInit, TypeParts DEF BaseInv
    <2>2. /\ poller.pc = "idle" /\ poller.cursor = 0
          /\ sessions = [s \in Sessions |-> NoRun]
      BY DEF Init, NoPoll
    <2>3. RunsTo(0) = [s \in Sessions |-> NoRun] BY <2>1, RunsToSteps
    <2>4. RunsInv BY <2>2, <2>3 DEF RunsInv
    <2>5. TouchedTo = 0 BY <2>2 DEF TouchedTo
    <2>6. \A i \in 1 .. Len(plog) : ~ (i <= 0) OBVIOUS
    <2>7. KnownInv BY <2>5, <2>6 DEF KnownInv
    <2>8. OrderInv
      <3>1. wal = <<>> /\ plog = <<>> /\ pending = {} BY DEF Init
      <3>2. Len(<<>>) = 0 /\ SubSeq(<<>>, 1, 0) = <<>> /\ 0 + 1 .. 0 = {} /\ 0 \in 0 .. 0 OBVIOUS
      <3> QED BY <3>1, <3>2, MessagesNone DEF OrderInv
    <2> QED BY <2>4, <2>7, <2>8
  <1>2. BaseInv /\ RunsInv /\ KnownInv /\ OrderInv => RebuiltFromLog
    <2> SUFFICES ASSUME BaseInv, RunsInv, KnownInv, OrderInv, poller.pc = "idle",
                        poller.cursor = topic.tail, ~ overrun
                 PROVE  /\ sessions = RunsAfter(plog, conf.escalation)
                        /\ \A i \in 1 .. Len(plog) : IsEvent(plog[i]) =>
                              agents[ParseEvent(plog[i]).agent].status # "unknown"
                        /\ pending = {} /\ ~ disturbed =>
                              sessions = RunsAfter(Messages, conf.escalation)
      BY DEF RebuiltFromLog, CaughtUp
    <2>1. LogOK /\ TopicInv BY TypeParts DEF BaseInv
    <2>2. poller.cursor = Len(plog) BY <2>1 DEF TopicInv, Shows
    <2>3. sessions = RunsAfter(plog, conf.escalation)
      BY <2>1, <2>2, RunsToSteps DEF RunsInv
    <2>4. TouchedTo = Len(plog) BY <2>2 DEF TouchedTo
    <2>5. \A i \in 1 .. Len(plog) : i <= TouchedTo BY <2>1, <2>4, PublishedTyped
    <2>6. ASSUME pending = {}, ~ disturbed PROVE plog = Messages
      <3>1. wal \in Seq(LogEntry) /\ Len(wal) \in Nat BY <2>1 DEF LogOK
      <3>2. PICK n \in 0 .. Len(wal) : /\ pending = n + 1 .. Len(wal)
                                       /\ plog = MessagesOf(SubSeq(wal, 1, n))
        BY <2>6 DEF OrderInv
      <3>3. n = Len(wal)
        <4>1. CASE n < Len(wal)
          <5>1. Len(wal) \in n + 1 .. Len(wal) BY <3>1, <4>1
          <5> QED BY <2>6, <3>2, <5>1
        <4> QED BY <3>1, <4>1
      <3>4. SubSeq(wal, 1, Len(wal)) = wal BY <3>1
      <3> QED BY <3>2, <3>3, <3>4 DEF Messages
    <2> QED BY <2>3, <2>5, <2>6 DEF KnownInv
  <1> QED BY <1>1, <1>2, BaseHolds, RunsStep, OrderStep, PTL DEF Spec

-----------------------------------------------------------------------------
(* Handoffs *)

Sending(a) == {t \in Streams : stream[t].agent = a /\ stream[t].pc = "send"}

(* What is routed to an agent is in its inbox, with a stream, received or  *)
(* dropped, at most once in the inbox, with the streams and received.      *)
InPlace(a) ==
    /\ \A o \in Nat : <<o, a>> \in routed <=>
          \/ o \in Range(boxes[a].queue) \/ \E t \in Sending(a) : stream[t].ev = o
          \/ o \in Range(received[a]) \/ <<o, a>> \in dropped
    /\ IsInjective(received[a]) /\ IsInjective(boxes[a].queue)
    /\ Range(received[a]) \cap Range(boxes[a].queue) = {}
    /\ \A t \in Sending(a) : stream[t].ev \notin Range(received[a]) \cup Range(boxes[a].queue)
    /\ \A t, u \in Sending(a) : stream[t].ev = stream[u].ev => t = u

PlaceInv == \A a \in Agents : InPlace(a)

(* The event at an offset is a handoff to an agent. *)
IsHanded(o) == HandedTo(o) # ""

(* The handoffs before the cursor are accounted for, and nothing after it  *)
(* was routed yet.                                                         *)
RoutedInv ==
    /\ \A o \in Nat, a \in Agents : <<o, a>> \in routed => o < poller.cursor
    /\ \A o \in unrouted : o < poller.cursor
    /\ ~ overrun => \A o \in 0 .. poller.cursor - 1 :
          IsHanded(o) => (<<o, HandedTo(o)>> \in routed) # (o \in unrouted)

(* Queues: what they hold after a send and after a receive *)
LEMMA RangeAppend ==
    ASSUME NEW s \in Seq(Nat), NEW x \in Nat
    PROVE  /\ Range(Append(s, x)) = Range(s) \cup {x}
           /\ IsInjective(s) /\ x \notin Range(s) => IsInjective(Append(s, x))
  <1> DEFINE u == Append(s, x)
             n == Len(s)
  <1>1. /\ n \in Nat /\ DOMAIN s = 1 .. n /\ DOMAIN u = 1 .. n + 1
        /\ u[n + 1] = x /\ \A i \in 1 .. n : u[i] = s[i]
    OBVIOUS
  <1> HIDE DEF u, n
  <1>2. 1 .. n + 1 = (1 .. n) \cup {n + 1} /\ n + 1 \notin 1 .. n BY <1>1
  <1>3. Range(u) = Range(s) \cup {x} BY <1>1, <1>2 DEF Range
  <1>4. IsInjective(s) /\ x \notin Range(s) => IsInjective(u)
    BY <1>1, <1>2 DEF IsInjective, Range
  <1> QED BY <1>3, <1>4 DEF u

(* A receive *)
LEMMA RangeTail ==
    ASSUME NEW s \in Seq(Nat), s # <<>>
    PROVE  /\ Range(s) = Range(Tail(s)) \cup {Head(s)} /\ Tail(s) \in Seq(Nat) /\ Head(s) \in Nat
           /\ IsInjective(s) => IsInjective(Tail(s)) /\ Head(s) \notin Range(Tail(s))
  <1> DEFINE u == Tail(s)
             n == Len(s)
  <1>1. /\ n \in Nat \ {0} /\ DOMAIN s = 1 .. n /\ DOMAIN u = 1 .. n - 1 /\ Head(s) = s[1]
        /\ \A i \in 1 .. n - 1 : u[i] = s[i + 1]
        /\ u \in Seq(Nat) /\ s[1] \in Nat
    OBVIOUS
  <1> HIDE DEF u, n
  <1>2. /\ \A i \in 1 .. n - 1 : i + 1 \in 1 .. n /\ i + 1 # 1
        /\ \A i \in 1 .. n : i # 1 => i - 1 \in 1 .. n - 1 /\ (i - 1) + 1 = i
        /\ \A i, j \in 1 .. n - 1 : i + 1 = j + 1 => i = j
        /\ 1 \in 1 .. n
    BY <1>1
  <1>3. Range(s) = Range(u) \cup {s[1]}
    <2>1. ASSUME NEW i \in 1 .. n PROVE s[i] \in Range(u) \cup {s[1]}
      <3>1. CASE i = 1 BY <3>1
      <3>2. CASE i # 1
        <4>1. i - 1 \in 1 .. n - 1 /\ (i - 1) + 1 = i BY <1>2, <3>2
        <4>2. u[i - 1] = s[i] BY <1>1, <4>1
        <4> QED BY <1>1, <4>1, <4>2 DEF Range
      <3> QED BY <3>1, <3>2
    <2>2. ASSUME NEW i \in 1 .. n - 1 PROVE u[i] \in Range(s)
      <3>1. i + 1 \in 1 .. n BY <1>2
      <3>2. u[i] = s[i + 1] BY <1>1
      <3> QED BY <1>1, <3>1, <3>2 DEF Range
    <2>3. s[1] \in Range(s) BY <1>1, <1>2 DEF Range
    <2>4. Range(s) = {s[i] : i \in 1 .. n} /\ Range(u) = {u[i] : i \in 1 .. n - 1}
      BY <1>1 DEF Range
    <2> QED BY <2>1, <2>2, <2>3, <2>4
  <1>4. IsInjective(s) => IsInjective(u) /\ s[1] \notin Range(u)
    <2> SUFFICES ASSUME IsInjective(s) PROVE IsInjective(u) /\ s[1] \notin Range(u)
      OBVIOUS
    <2>1. \A i, j \in 1 .. n : s[i] = s[j] => i = j BY <1>1 DEF IsInjective
    <2>2. IsInjective(u)
      <3> SUFFICES ASSUME NEW i \in 1 .. n - 1, NEW j \in 1 .. n - 1, u[i] = u[j] PROVE i = j
        BY <1>1 DEF IsInjective
      <3>1. s[i + 1] = s[j + 1] BY <1>1
      <3>2. i + 1 = j + 1 BY <1>2, <2>1, <3>1
      <3> QED BY <1>2, <3>2
    <2>3. \A i \in 1 .. n - 1 : u[i] # s[1] BY <1>1, <1>2, <2>1
    <2> QED BY <1>1, <2>2, <2>3 DEF Range
  <1> QED BY <1>1, <1>3, <1>4 DEF u

(* An empty queue *)
LEMMA RangeEmpty == Range(<<>>) = {} /\ IsInjective(<<>>)
  BY DEF Range, IsInjective

(* An agent that a step has nothing to do with *)
LEMMA PlaceSame ==
    ASSUME NEW a \in Agents, InPlace(a), boxes'[a].queue = boxes[a].queue,
           received'[a] = received[a],
           \A o \in Nat : /\ <<o, a>> \in routed' <=> <<o, a>> \in routed
                          /\ <<o, a>> \in dropped' <=> <<o, a>> \in dropped,
           \A t \in Streams : /\ t \in Sending(a)' <=> t \in Sending(a)
                              /\ t \in Sending(a) => stream'[t].ev = stream[t].ev
    PROVE  InPlace(a)'
  <1>1. Sending(a)' = Sending(a) BY DEF Sending
  <1>2. \A t \in Sending(a) : stream'[t].ev = stream[t].ev BY DEF Sending
  <1> HIDE DEF Sending
  <1> QED BY <1>1, <1>2 DEF InPlace

(* An event that was not routed before goes into an inbox. *)
LEMMA DeliverPlace ==
    ASSUME TypeOK, PlaceInv, NEW b \in Agents, NEW o \in Nat, <<o, b>> \notin routed, Deliver(b, o),
           UNCHANGED <<stream, received, dropped>>
    PROVE  PlaceInv'
  <1>1. BoxesOK /\ boxes \in [Agents -> Inbox] BY TypeParts DEF BoxesOK
  <1>2. \A a : Sending(a)' = Sending(a) BY DEF Sending
  <1>3. CASE ~ HasRoom(b)
    <2>1. UNCHANGED <<boxes, routed>> BY <1>3 DEF Deliver
    <2> QED BY <1>2, <2>1 DEF PlaceInv, InPlace
  <1>4. CASE HasRoom(b)
    <2> DEFINE q == boxes[b].queue
    <2>1. /\ boxes' = [boxes EXCEPT ![b].queue = Append(@, o)]
          /\ routed' = routed \cup {<<o, b>>}
      BY <1>4 DEF Deliver
    <2>2. q \in Seq(Nat) /\ boxes'[b].queue = Append(q, o)
          /\ \A a \in Agents \ {b} : boxes'[a] = boxes[a]
      BY <1>1, <2>1 DEF Inbox
    <2>3. InPlace(b) BY DEF PlaceInv
    <2>4. /\ o \notin Range(q) /\ o \notin Range(received[b])
          /\ \A t \in Sending(b) : stream[t].ev # o
      BY <2>3 DEF InPlace
    <2>5. /\ Range(boxes'[b].queue) = Range(q) \cup {o} /\ IsInjective(boxes'[b].queue)
      BY <2>2, <2>3, <2>4, RangeAppend DEF InPlace
    <2>6. \A x \in Nat : <<x, b>> \in routed' <=> <<x, b>> \in routed \/ x = o BY <2>1
    <2>7. InPlace(b)'
      <3> HIDE DEF q
      <3>1. q = boxes[b].queue BY DEF q
      <3> QED BY <1>2, <2>3, <2>4, <2>5, <2>6, <3>1 DEF InPlace
    <2>8. ASSUME NEW a \in Agents, a # b PROVE InPlace(a)'
      <3>1. InPlace(a) /\ boxes'[a].queue = boxes[a].queue BY <2>2, <2>8 DEF PlaceInv
      <3>2. \A x \in Nat : <<x, a>> \in routed' <=> <<x, a>> \in routed BY <2>1, <2>8
      <3> QED BY <1>2, <3>1, <3>2, PlaceSame
    <2> QED BY <2>7, <2>8 DEF PlaceInv
  <1> QED BY <1>3, <1>4

(* Streams that share an inbox, and come and go, lose and double nothing. *)
LEMMA StreamPlace ==
    ASSUME TypeOK, PlaceInv, NEW t \in Streams,
           OpenInbox(t) \/ Open(t) \/ Receive(t) \/ Send(t) \/ Disconnect(t)
    PROVE  PlaceInv'
  <1>1. BoxesOK /\ StreamsOK /\ HistoriesOK BY TypeParts
  <1>2. /\ boxes \in [Agents -> Inbox] /\ stream \in Calls
        /\ received \in [Agents -> Seq(Nat)]
    BY <1>1 DEF BoxesOK, StreamsOK, HistoriesOK
  <1>0. PICK a : a = stream[t].agent OBVIOUS
  <1> DEFINE e == stream[t].ev
             q == boxes[a].queue
  <1>3. /\ stream[t].pc # "off" => a \in Agents
        /\ e \in Nat
    BY <1>0, <1>1, <1>2 DEF StreamsOK, Calls
  <1>4. UNCHANGED routed BY <1>1, StreamBase DEF histories
  <1>5. ASSUME NEW b \in Agents, boxes'[b].queue = boxes[b].queue, received'[b] = received[b],
               \A o \in Nat : <<o, b>> \in dropped' <=> <<o, b>> \in dropped,
               \A u \in Streams : /\ u \in Sending(b)' <=> u \in Sending(b)
                                  /\ u \in Sending(b) => stream'[u].ev = stream[u].ev
        PROVE  InPlace(b)'
    BY <1>4, <1>5, PlaceSame DEF PlaceInv
  <1>6. CASE OpenInbox(t)
    <2>1. PICK b : stream' = [stream EXCEPT ![t] = [pc |-> "open", agent |-> b, ev |-> 0]]
      BY <1>6 DEF OpenInbox
    <2>2. stream[t].pc = "off" /\ UNCHANGED <<boxes, received, dropped>> BY <1>6 DEF OpenInbox
    <2>3. stream'[t].pc = "open" /\ \A u \in Streams \ {t} : stream'[u] = stream[u]
      BY <1>2, <2>1 DEF Calls
    <2>4. \A c : \A u \in Streams : /\ u \in Sending(c)' <=> u \in Sending(c)
                                    /\ u \in Sending(c) => stream'[u].ev = stream[u].ev
      BY <2>2, <2>3 DEF Sending
    <2> QED BY <1>5, <2>2, <2>4 DEF PlaceInv
  <1>7. CASE Open(t)
    <2>1. /\ stream[t].pc = "open" /\ stream' = [stream EXCEPT ![t].pc = "recv"]
          /\ boxes' = [boxes EXCEPT ![a].open = TRUE] /\ UNCHANGED <<received, dropped>>
      BY <1>0, <1>7 DEF Open
    <2>2. stream'[t].pc = "recv" /\ \A u \in Streams \ {t} : stream'[u] = stream[u]
      BY <1>2, <2>1 DEF Calls
    <2>3. \A c : \A u \in Streams : /\ u \in Sending(c)' <=> u \in Sending(c)
                                    /\ u \in Sending(c) => stream'[u].ev = stream[u].ev
      BY <2>1, <2>2 DEF Sending
    <2>4. \A b \in Agents : boxes'[b].queue = boxes[b].queue BY <1>2, <2>1 DEF Inbox
    <2> QED BY <1>5, <2>1, <2>3, <2>4 DEF PlaceInv
  <1>8. CASE Receive(t)
    <2>1. /\ stream[t].pc = "recv" /\ q # <<>>
          /\ stream' = [stream EXCEPT ![t].pc = "send", ![t].ev = Head(q)]
          /\ boxes' = [boxes EXCEPT ![a].queue = Tail(@)]
          /\ UNCHANGED <<received, dropped>>
      BY <1>0, <1>8 DEF Receive
    <2>2. a \in Agents BY <1>3, <2>1
    <2>3. /\ q \in Seq(Nat) /\ boxes'[a].queue = Tail(q)
          /\ \A b \in Agents \ {a} : boxes'[b] = boxes[b]
      BY <1>2, <2>1, <2>2 DEF Inbox
    <2>4. /\ stream'[t].pc = "send" /\ stream'[t].ev = Head(q) /\ stream'[t].agent = a
          /\ \A u \in Streams \ {t} : stream'[u] = stream[u]
      BY <1>0, <1>2, <2>1 DEF Calls
    <2>5. t \notin Sending(a) /\ Sending(a)' = Sending(a) \cup {t} BY <2>1, <2>4 DEF Sending
    <2>6. InPlace(a) BY <2>2 DEF PlaceInv
    <2> DEFINE h == Head(q)
               r == Tail(q)
    <2>7. Range(q) = Range(r) \cup {h} /\ IsInjective(r) /\ h \notin Range(r) /\ h \in Nat
      BY <2>1, <2>3, <2>6, RangeTail DEF InPlace
    <2>8. /\ h \notin Range(received[a]) /\ \A u \in Sending(a) : stream[u].ev # h
      BY <2>6, <2>7 DEF InPlace
    <2>9. \A u \in Sending(a) : u # t /\ stream'[u].ev = stream[u].ev
      BY <2>4, <2>5 DEF Sending
    <2>10. InPlace(a)'
      <3> HIDE DEF h, r
      <3>1. stream'[t].ev = h /\ boxes'[a].queue = r /\ boxes[a].queue = q
        BY <2>3, <2>4 DEF h, r
      <3> HIDE DEF q
      <3>2. received'[a] = received[a] /\ dropped' = dropped /\ routed' = routed BY <1>4, <2>1
      <3>3. \A o : (\E u \in Sending(a)' : stream'[u].ev = o)
                      <=> o = h \/ \E u \in Sending(a) : stream[u].ev = o
        BY <2>5, <2>9, <3>1
      <3>4. ASSUME NEW o \in Nat
            PROVE  <<o, a>> \in routed' <=>
                     \/ o \in Range(boxes'[a].queue) \/ \E u \in Sending(a)' : stream'[u].ev = o
                     \/ o \in Range(received'[a]) \/ <<o, a>> \in dropped'
        <4>1. <<o, a>> \in routed <=>
                \/ o \in Range(q) \/ \E u \in Sending(a) : stream[u].ev = o
                \/ o \in Range(received[a]) \/ <<o, a>> \in dropped
          BY <2>6, <3>1 DEF InPlace
        <4> QED BY <2>7, <3>1, <3>2, <3>3, <4>1
      <3>5. /\ IsInjective(received'[a]) /\ IsInjective(boxes'[a].queue)
            /\ Range(received'[a]) \cap Range(boxes'[a].queue) = {}
        BY <2>6, <2>7, <3>1, <3>2 DEF InPlace
      <3>6. \A u \in Sending(a)' :
               stream'[u].ev \notin Range(received'[a]) \cup Range(boxes'[a].queue)
        BY <2>5, <2>6, <2>7, <2>8, <2>9, <3>1, <3>2 DEF InPlace
      <3>7. \A u, v \in Sending(a)' : stream'[u].ev = stream'[v].ev => u = v
        BY <2>5, <2>6, <2>8, <2>9, <3>1 DEF InPlace
      <3> QED BY <3>4, <3>5, <3>6, <3>7 DEF InPlace
    <2>11. ASSUME NEW b \in Agents, b # a PROVE InPlace(b)'
      <3>1. boxes'[b] = boxes[b] BY <2>3, <2>11
      <3>2. \A u \in Streams : /\ u \in Sending(b)' <=> u \in Sending(b)
                               /\ u \in Sending(b) => stream'[u].ev = stream[u].ev
        BY <1>0, <2>4, <2>11 DEF Sending
      <3> QED BY <1>5, <2>1, <3>1, <3>2
    <2> QED BY <2>10, <2>11 DEF PlaceInv
  <1>9. CASE Send(t)
    <2>1. /\ stream[t].pc = "send"
          /\ received' = [received EXCEPT ![a] = Append(@, e)]
          /\ stream' = [stream EXCEPT ![t].pc = "recv", ![t].ev = 0]
          /\ UNCHANGED <<boxes, dropped>>
      BY <1>0, <1>9 DEF Send, plane
    <2>2. a \in Agents BY <1>3, <2>1
    <2>3. /\ received[a] \in Seq(Nat) /\ received'[a] = Append(received[a], e)
          /\ \A b \in Agents \ {a} : received'[b] = received[b]
      BY <1>2, <2>1, <2>2
    <2>4. /\ stream'[t].pc = "recv" /\ \A u \in Streams \ {t} : stream'[u] = stream[u]
      BY <1>2, <2>1 DEF Calls
    <2>5. t \in Sending(a) /\ Sending(a)' = Sending(a) \ {t} BY <1>0, <2>1, <2>4 DEF Sending
    <2>6. InPlace(a) BY <2>2 DEF PlaceInv
    <2>7. /\ e \notin Range(received[a]) /\ e \notin Range(q)
          /\ \A u \in Sending(a)' : stream[u].ev # e
      BY <2>5, <2>6 DEF InPlace
    <2>8. Range(received'[a]) = Range(received[a]) \cup {e} /\ IsInjective(received'[a])
      BY <1>3, <2>3, <2>6, <2>7, RangeAppend DEF InPlace
    <2>9. \A u \in Sending(a)' : stream'[u].ev = stream[u].ev BY <2>4, <2>5 DEF Sending
    <2>10. InPlace(a)'
      <3>1. dropped' = dropped /\ routed' = routed /\ boxes' = boxes BY <1>4, <2>1
      <3>2. \A o : (\E u \in Sending(a) : stream[u].ev = o)
                      <=> o = e \/ \E u \in Sending(a)' : stream'[u].ev = o
        BY <2>5, <2>9
      <3>3. ASSUME NEW o \in Nat
            PROVE  <<o, a>> \in routed' <=>
                     \/ o \in Range(boxes'[a].queue) \/ \E u \in Sending(a)' : stream'[u].ev = o
                     \/ o \in Range(received'[a]) \/ <<o, a>> \in dropped'
        <4>1. <<o, a>> \in routed <=>
                \/ o \in Range(q) \/ \E u \in Sending(a) : stream[u].ev = o
                \/ o \in Range(received[a]) \/ <<o, a>> \in dropped
          BY <2>6 DEF InPlace
        <4> HIDE DEF e
        <4> QED BY <2>8, <3>1, <3>2, <4>1
      <3> HIDE DEF e
      <3>4. /\ IsInjective(received'[a]) /\ IsInjective(boxes'[a].queue)
            /\ Range(received'[a]) \cap Range(boxes'[a].queue) = {}
        BY <2>6, <2>7, <2>8, <3>1 DEF InPlace
      <3>5. \A u \in Sending(a)' :
               stream'[u].ev \notin Range(received'[a]) \cup Range(boxes'[a].queue)
        BY <2>5, <2>6, <2>7, <2>8, <2>9, <3>1 DEF InPlace
      <3>6. \A u, v \in Sending(a)' : stream'[u].ev = stream'[v].ev => u = v
        BY <2>5, <2>6, <2>9 DEF InPlace
      <3> QED BY <3>3, <3>4, <3>5, <3>6 DEF InPlace
    <2>11. ASSUME NEW b \in Agents, b # a PROVE InPlace(b)'
      <3>1. received'[b] = received[b] BY <2>3, <2>11
      <3>2. \A u \in Streams : /\ u \in Sending(b)' <=> u \in Sending(b)
                               /\ u \in Sending(b) => stream'[u].ev = stream[u].ev
        BY <1>0, <2>4, <2>11 DEF Sending
      <3> QED BY <1>5, <2>1, <3>1, <3>2
    <2> QED BY <2>10, <2>11 DEF PlaceInv
  <1>10. CASE Disconnect(t)
    <2>1. /\ stream[t].pc \in {"recv", "send"} /\ stream' = [stream EXCEPT ![t] = NoStream]
          /\ dropped' = IF stream[t].pc = "send" THEN dropped \cup {<<e, a>>} ELSE dropped
          /\ UNCHANGED <<boxes, received>>
      BY <1>0, <1>10 DEF Disconnect, plane
    <2>2. a \in Agents BY <1>3, <2>1
    <2>3. stream'[t].pc = "off" /\ \A u \in Streams \ {t} : stream'[u] = stream[u]
      BY <1>2, <2>1 DEF Calls, NoStream
    <2>4. ASSUME NEW b \in Agents, b # a \/ stream[t].pc = "recv" PROVE InPlace(b)'
      <3>1. \A o \in Nat : <<o, b>> \in dropped' <=> <<o, b>> \in dropped BY <2>1, <2>4
      <3>2. \A u \in Streams : /\ u \in Sending(b)' <=> u \in Sending(b)
                               /\ u \in Sending(b) => stream'[u].ev = stream[u].ev
        BY <1>0, <2>3, <2>4 DEF Sending
      <3> QED BY <1>5, <2>1, <3>1, <3>2
    <2>5. ASSUME stream[t].pc = "send" PROVE InPlace(a)'
      <3>1. t \in Sending(a) /\ Sending(a)' = Sending(a) \ {t}
        BY <1>0, <2>3, <2>5 DEF Sending
      <3>2. InPlace(a) BY <2>2 DEF PlaceInv
      <3>3. \A u \in Sending(a)' : stream'[u].ev = stream[u].ev BY <2>3, <3>1 DEF Sending
      <3>4. routed' = routed /\ boxes' = boxes /\ received' = received BY <1>4, <2>1
      <3>5. \A o : (\E u \in Sending(a) : stream[u].ev = o)
                      <=> o = e \/ \E u \in Sending(a)' : stream'[u].ev = o
        BY <3>1, <3>3
      <3>6. \A o : <<o, a>> \in dropped' <=> o = e \/ <<o, a>> \in dropped BY <2>1, <2>5
      <3> HIDE DEF e
      <3> QED BY <3>1, <3>2, <3>3, <3>4, <3>5, <3>6 DEF InPlace
    <2> QED BY <2>1, <2>4, <2>5 DEF PlaceInv
  <1> QED BY <1>6, <1>7, <1>8, <1>9, <1>10

(* Whom the event at an offset hands its run to *)
LEMMA HandedInHand ==
    ASSUME BaseInv, poller.msgs # <<>>
    PROVE  /\ HandedTo(Current.offset) =
                 IF Ev.type = "handoff" THEN parseToAgent(Ev.payload) ELSE ""
           /\ IsHanded(Current.offset) =>
                 /\ IsEvent(Current.payload) /\ IsHandoff
                 /\ HandedTo(Current.offset) \in Agents
  <1>1. PollerOK BY TypeParts DEF BaseInv
  <1>2. Current.payload = plog[Current.offset + 1] BY HandStands
  <1>3. HandedTo(Current.offset) = IF Ev.type = "handoff" THEN parseToAgent(Ev.payload) ELSE ""
    BY <1>2 DEF HandedTo, Ev
  <1>4. ASSUME ~ IsEvent(Current.payload) PROVE HandedTo(Current.offset) = ""
    <2>1. Current.payload \in Message BY <1>1, InHand
    <2>2. Current.payload = RawMessage BY <1>4, <2>1, ParseIsInverse DEF Message, Payloads
    <2>3. Ev.type = "" BY <2>2, RawIsNoEvent DEF Ev
    <2> QED BY <1>3, <2>3
  <1>5. ASSUME ~ IsHandoff PROVE HandedTo(Current.offset) = "" BY <1>3, <1>5 DEF IsHandoff
  <1>6. ASSUME IsEvent(Current.payload) PROVE parseToAgent(Ev.payload) \in Agents \cup {""}
    BY <1>1, <1>6, EventInHand
  <1> QED BY <1>3, <1>4, <1>5, <1>6 DEF IsHanded, IsHandoff

(* The poller passes a message, and counts it if it is a handoff. *)
LEMMA PassRouted ==
    ASSUME BaseInv, RoutedInv, poller.msgs # <<>>, Advance, UNCHANGED <<plog, conf, overrun>>,
           NEW b, routed' \in {routed, routed \cup {<<Current.offset, b>>}},
           unrouted' \in {unrouted, unrouted \cup {Current.offset}},
           IsHanded(Current.offset) =>
              /\ b = HandedTo(Current.offset)
              /\ (routed' = routed \cup {<<Current.offset, b>>} /\ unrouted' = unrouted)
                   \/ (routed' = routed /\ unrouted' = unrouted \cup {Current.offset})
    PROVE  RoutedInv'
  <1>1. /\ LogOK /\ PollerOK /\ BatchInv /\ unrouted \in SUBSET Nat
    BY TypeParts DEF BaseInv, HistoriesOK
  <1> DEFINE c == poller.cursor
             k == Current.offset
  <1>2. k \in Nat /\ c \in Nat /\ k >= c /\ (~ overrun => k = c) BY HandStands
  <1>3. poller'.cursor = k + 1 BY <1>1, AdvanceBatch
  <1>4. plog' = plog OBVIOUS
  <1>5. /\ \A o \in Nat, a \in Agents : <<o, a>> \in routed => o < c
        /\ \A o \in unrouted : o < c
    BY DEF RoutedInv
  <1>6. ASSUME NEW o \in Nat, NEW a \in Agents, <<o, a>> \in routed' PROVE o < k + 1
    <2>1. <<o, a>> \in routed \/ o = k BY <1>6
    <2>2. o < c \/ o = k BY <1>5, <2>1
    <2> HIDE DEF c, k
    <2> QED BY <1>2, <2>2
  <1>7. ASSUME NEW o \in unrouted' PROVE o < k + 1
    <2>1. o \in Nat /\ (o < c \/ o = k) BY <1>1, <1>2, <1>5
    <2> HIDE DEF c, k
    <2> QED BY <1>2, <2>1
  <1>8. ASSUME ~ overrun, NEW o \in 0 .. k, IsHanded(o)
        PROVE  (<<o, HandedTo(o)>> \in routed') # (o \in unrouted')
    <2>1. CASE o = k
      <3>1. HandedTo(k) \in Agents BY <1>8, <2>1, HandedInHand
      <3>2. ~ (k < c) BY <1>2
      <3>3. <<k, HandedTo(k)>> \notin routed /\ k \notin unrouted
        BY <1>2, <1>5, <3>1, <3>2
      <3>4. b = HandedTo(k) BY <1>8, <2>1
      <3>5. CASE routed' = routed \cup {<<k, b>>} /\ unrouted' = unrouted
        BY <2>1, <3>3, <3>4, <3>5
      <3>6. CASE routed' = routed /\ unrouted' = unrouted \cup {k}
        BY <2>1, <3>3, <3>4, <3>6
      <3> QED BY <1>8, <2>1, <3>5, <3>6
    <2>2. CASE o # k
      <3>1. o \in 0 .. c - 1 BY <1>2, <1>8, <2>2
      <3>2. (<<o, HandedTo(o)>> \in routed) # (o \in unrouted) BY <1>8, <3>1 DEF RoutedInv
      <3>3. /\ <<o, HandedTo(o)>> \in routed' <=> <<o, HandedTo(o)>> \in routed
            /\ o \in unrouted' <=> o \in unrouted
        BY <2>2
      <3> QED BY <3>2, <3>3
    <2> QED BY <2>1, <2>2
  <1>9. (k + 1) - 1 = k BY <1>2
  <1>10. \A o : HandedTo(o)' = HandedTo(o) /\ IsHanded(o)' = IsHanded(o)
    BY <1>4 DEF HandedTo, IsHanded
  <1> HIDE DEF k
  <1> QED BY <1>3, <1>6, <1>7, <1>8, <1>9, <1>10 DEF RoutedInv

(* Steps beside the poller *)
LEMMA BesideRouted ==
    ASSUME BaseInv, [Next]_vars, ~ Restart, RoutedInv,
           UNCHANGED <<poller, routed, unrouted, overrun>>
    PROVE  RoutedInv'
  <1>1. /\ plog \in Seq(Message) /\ Len(plog) \in Nat
        /\ \A i \in 1 .. Len(plog) : plog'[i] = plog[i]
    BY PublishedGrow
  <1>2. poller.cursor \in Nat /\ poller.cursor <= Len(plog) BY CursorWithin
  <1>3. ASSUME NEW o \in 0 .. poller.cursor - 1
        PROVE  HandedTo(o)' = HandedTo(o) /\ IsHanded(o)' = IsHanded(o)
    <2>1. o + 1 \in 1 .. Len(plog) BY <1>1, <1>2
    <2> QED BY <1>1, <2>1 DEF HandedTo, IsHanded
  <1> QED BY <1>3 DEF RoutedInv

(* Ingest accounts for what it passes and routes nothing twice. *)
LEMMA IngestRouted ==
    ASSUME BaseInv, [Next]_vars, RoutedInv, PlaceInv, Ingest PROVE RoutedInv' /\ PlaceInv'
  <1>1. /\ TypeOK /\ LogOK /\ PollerOK /\ BatchInv BY TypeParts DEF BaseInv
  <1>2. UNCHANGED <<store, stream, received, dropped, overrun>>
    BY DEF Ingest, Skip, Touch, ApplyEvent, RouteHandoff, EscalateRun, NotifyEscalation,
           histories, clients
  <1>3. UNCHANGED <<plog, conf, overrun>> BY <1>2 DEF store
  <1>4. poller.msgs # <<>>
    BY <1>1 DEF Poller, PollerOK, Ingest, Skip, Touch, ApplyEvent, RouteHandoff, EscalateRun,
       NotifyEscalation
  <1> DEFINE k == Current.offset
  <1>5. k \in Nat /\ ~ (k < poller.cursor)
    <2>1. k \in Nat /\ poller.cursor \in Nat /\ k >= poller.cursor BY <1>4, HandStands
    <2> HIDE DEF k
    <2> QED BY <2>1
  <1>6. ASSUME UNCHANGED <<boxes, routed>> PROVE PlaceInv'
    <2>1. \A a : Sending(a)' = Sending(a) BY <1>2 DEF Sending
    <2> QED BY <1>2, <1>6, <2>1 DEF PlaceInv, InPlace
  <1>7. ASSUME Advance, UNCHANGED <<routed, unrouted>>, ~ IsHanded(k) PROVE RoutedInv'
    BY <1>3, <1>4, <1>7, PassRouted
  <1>8. ASSUME NEW pc, Step(pc), UNCHANGED <<routed, unrouted>> PROVE RoutedInv'
    <2>1. poller'.cursor = poller.cursor BY <1>1, <1>8 DEF Step, Poller, PollerOK
    <2>2. plog' = plog BY <1>3
    <2>3. \A o : HandedTo(o)' = HandedTo(o) /\ IsHanded(o)' = IsHanded(o)
      BY <2>2 DEF HandedTo, IsHanded
    <2> QED BY <1>3, <1>8, <2>1, <2>3 DEF RoutedInv
  <1>9. CASE Skip
    <2>1. ~ IsEvent(Current.payload) /\ Advance /\ UNCHANGED <<boxes, routed, unrouted>>
      BY <1>9 DEF Skip, plane, histories
    <2>2. ~ IsHanded(k) BY <1>4, <2>1, HandedInHand
    <2> QED BY <1>6, <1>7, <2>1, <2>2
  <1>10. CASE Touch
    <2>1. Step("apply") /\ UNCHANGED <<boxes, routed, unrouted>> BY <1>10 DEF Touch, histories
    <2> QED BY <1>6, <1>8, <2>1
  <1>11. CASE ApplyEvent
    <2>1. /\ IF IsHandoff THEN Step("deliver")
             ELSE IF IsEscalated THEN Step("escalate") ELSE Advance
          /\ UNCHANGED <<boxes, routed, unrouted>>
      BY <1>11 DEF ApplyEvent, histories
    <2>2. CASE Step("deliver") \/ Step("escalate") BY <1>6, <1>8, <2>1, <2>2
    <2>3. CASE ~ IsHandoff /\ Advance
      <3>1. ~ IsHanded(k) BY <1>4, <2>3, HandedInHand
      <3> QED BY <1>6, <1>7, <2>1, <2>3, <3>1
    <2> QED BY <2>1, <2>2, <2>3
  <1>12. CASE RouteHandoff
    <2>0. PICK b : b = parseToAgent(Ev.payload) OBVIOUS
    <2>1. /\ poller.pc = "deliver" /\ Advance /\ Deliver(b, k)
          /\ unrouted' = IF HasRoom(b) THEN unrouted ELSE unrouted \cup {k}
      BY <1>12, <2>0 DEF RouteHandoff
    <2>2. b \in Agents BY <1>1, <2>0, <2>1, TargetsAreAgents
    <2>3. <<k, b>> \notin routed BY <1>5, <2>2 DEF RoutedInv
    <2>4. PlaceInv'
      <3>1. PICK o : o = k OBVIOUS
      <3>2. o \in Nat /\ <<o, b>> \notin routed /\ Deliver(b, o) BY <1>5, <2>1, <2>3, <3>1
      <3> QED BY <1>1, <1>2, <2>2, <3>2, DeliverPlace
    <2>5. HandedTo(k) = b
      <3>1. IsHandoff BY <1>1, <2>1 DEF BatchInv
      <3> QED BY <1>4, <2>0, <3>1, HandedInHand DEF IsHandoff
    <2>6. (routed' = routed \cup {<<k, b>>} /\ unrouted' = unrouted)
            \/ (routed' = routed /\ unrouted' = unrouted \cup {k})
      BY <2>1 DEF Deliver
    <2>7. RoutedInv' BY <1>3, <1>4, <2>1, <2>2, <2>5, <2>6, PassRouted
    <2> QED BY <2>4, <2>7
  <1>13. CASE EscalateRun
    <2>1. Step("notify") /\ UNCHANGED <<boxes, routed, unrouted>>
      BY <1>13 DEF EscalateRun, histories
    <2> QED BY <1>6, <1>8, <2>1
  <1>14. CASE NotifyEscalation
    <2>0. PICK b : b = conf.escalation OBVIOUS
    <2>1. poller.pc = "notify" /\ Advance /\ Deliver(b, k) /\ UNCHANGED unrouted
      BY <1>14, <2>0 DEF NotifyEscalation
    <2>2. b \in Agents BY <1>1, <2>0, <2>1, TargetsAreAgents
    <2>3. <<k, b>> \notin routed BY <1>5, <2>2 DEF RoutedInv
    <2>4. PlaceInv'
      <3>1. PICK o : o = k OBVIOUS
      <3>2. o \in Nat /\ <<o, b>> \notin routed /\ Deliver(b, o) BY <1>5, <2>1, <2>3, <3>1
      <3> QED BY <1>1, <1>2, <2>2, <3>2, DeliverPlace
    <2>5. ~ IsHanded(k)
      <3>1. IsEscalated BY <1>1, <2>1 DEF BatchInv
      <3>2. ~ IsHandoff BY <3>1 DEF IsEscalated, IsHandoff
      <3> QED BY <1>4, <3>2, HandedInHand
    <2>6. routed' \in {routed, routed \cup {<<k, b>>}} BY <2>1 DEF Deliver
    <2>7. Advance /\ unrouted' \in {unrouted, unrouted \cup {k}} BY <2>1
    <2>8. RoutedInv'
      <3>1. IsHanded(k) =>
               /\ b = HandedTo(k)
               /\ (routed' = routed \cup {<<k, b>>} /\ unrouted' = unrouted)
                    \/ (routed' = routed /\ unrouted' = unrouted \cup {k})
        BY <2>5
      <3>2. UNCHANGED plog /\ UNCHANGED conf /\ UNCHANGED overrun BY <1>3
      <3> QED BY <1>4, <2>6, <2>7, <3>1, <3>2, PassRouted
    <2> QED BY <2>4, <2>8
  <1> QED BY <1>9, <1>10, <1>11, <1>12, <1>13, <1>14 DEF Ingest

(* Every step keeps the account. *)
LEMMA AccountStep ==
    BaseInv /\ RoutedInv /\ PlaceInv /\ [Next]_vars => RoutedInv' /\ PlaceInv'
  <1> SUFFICES ASSUME BaseInv, RoutedInv, PlaceInv, [Next]_vars
               PROVE  RoutedInv' /\ PlaceInv'
    OBVIOUS
  <1>1. TypeOK /\ LogOK /\ PollerOK /\ HistoriesOK BY TypeParts DEF BaseInv
  <1>2. ASSUME UNCHANGED <<boxes, stream, received, dropped, routed>> PROVE PlaceInv'
    <2>1. \A a : Sending(a)' = Sending(a) BY <1>2 DEF Sending
    <2> QED BY <1>2, <2>1 DEF PlaceInv, InPlace
  <1>8. CASE Restart
    <2>1. /\ poller' = NoPoll /\ boxes' = [a \in Agents |-> NoBox]
          /\ stream' = [t \in Streams |-> NoStream]
          /\ routed' = {} /\ unrouted' = {} /\ received' = [a \in Agents |-> <<>>]
          /\ dropped' = {}
      BY <1>8 DEF Restart
    <2>2. poller'.cursor = 0 /\ 0 .. 0 - 1 = {} BY <2>1 DEF NoPoll
    <2>3. RoutedInv' BY <2>1, <2>2 DEF RoutedInv
    <2>4. \A a : Sending(a)' = {} BY <2>1 DEF Sending, NoStream
    <2>5. \A a \in Agents : boxes'[a].queue = <<>> /\ received'[a] = <<>> BY <2>1 DEF NoBox
    <2>6. PlaceInv' BY <2>1, <2>4, <2>5, RangeEmpty DEF PlaceInv, InPlace
    <2> QED BY <2>3, <2>6
  <1> SUFFICES ASSUME ~ Restart PROVE RoutedInv' /\ PlaceInv'
    BY <1>8
  <1>3. CASE Producing
    <2>1. TopicInv BY DEF BaseInv
    <2>2. UNCHANGED <<poller, plane, clients, histories>> BY <1>1, <1>3, <2>1, ProducersKeep
    <2> QED BY <1>2, <2>2, BesideRouted DEF plane, clients, histories
  <1>4. CASE \/ \E a \in conf.registering : Register(a) \/ Heartbeat(a)
             \/ \E a \in Agents : Silence(a)
             \/ Sweep
    <2>1. UNCHANGED <<poller, boxes, clients, histories>> BY <1>1, <1>4, RegistrySteps
    <2> QED BY <1>2, <2>1, BesideRouted DEF clients, histories
  <1>5. CASE drainOnce
    <2>1. /\ UNCHANGED <<store, plane, clients, routed, unrouted>>
          /\ poller' = [poller EXCEPT !.pc = "touch",
                                      !.msgs = Fetch(topic, poller.cursor, PollBatch)]
          /\ overrun' = (overrun \/ poller.cursor < topic.head)
      BY <1>5 DEF drainOnce
    <2>2. poller'.cursor = poller.cursor BY <1>1, <2>1 DEF Poller, PollerOK
    <2>3. ~ overrun' => ~ overrun BY <1>1, <2>1 DEF HistoriesOK
    <2>4. plog' = plog BY <2>1 DEF store
    <2>5. \A o : HandedTo(o)' = HandedTo(o) /\ IsHanded(o)' = IsHanded(o)
      BY <2>4 DEF HandedTo, IsHanded
    <2>6. UNCHANGED <<routed, unrouted>> BY <2>1
    <2>7. RoutedInv' BY <2>2, <2>3, <2>5, <2>6 DEF RoutedInv
    <2>8. PlaceInv' BY <1>2, <2>1 DEF plane, clients
    <2> QED BY <2>7, <2>8
  <1>6. CASE Ingest BY <1>6, IngestRouted
  <1>7. CASE \E t \in Streams : OpenInbox(t) \/ Open(t) \/ Receive(t) \/ Send(t) \/ Disconnect(t)
    <2>1. UNCHANGED <<poller, routed, unrouted, overrun>> BY <1>1, <1>7, StreamBase DEF histories
    <2>2. PlaceInv' BY <1>1, <1>7, StreamPlace
    <2> QED BY <2>1, <2>2, BesideRouted
  <1>9. CASE UNCHANGED vars
    BY <1>2, <1>9, BesideRouted DEF vars, plane, clients, histories
  <1> QED BY <1>3, <1>4, <1>5, <1>6, <1>7, <1>9 DEF Next, Producing

(* Ingest accounts for every handoff once, as routed or as unrouted        *)
(* (service.go), and a routed event is in its agent's inbox, with one of   *)
(* its streams, received or dropped (inbox.go, server.go), with any number *)
(* of streams that share, fill and leave inboxes of any size, and across   *)
(* restarts.                                                               *)
THEOREM HandoffsAreAccounted == Spec => []HandoffsAccounted
  <1>1. Init => RoutedInv /\ PlaceInv
    <2> SUFFICES ASSUME Init PROVE RoutedInv /\ PlaceInv
      OBVIOUS
    <2>1. poller.cursor = 0 /\ routed = {} /\ unrouted = {} /\ dropped = {}
          /\ 0 .. 0 - 1 = {}
      BY DEF Init, NoPoll
    <2>2. RoutedInv BY <2>1 DEF RoutedInv
    <2>3. \A a : Sending(a) = {} BY DEF Init, Sending, NoStream
    <2>4. \A a \in Agents : boxes[a].queue = <<>> /\ received[a] = <<>> BY DEF Init, NoBox
    <2>5. PlaceInv BY <2>1, <2>3, <2>4, RangeEmpty DEF PlaceInv, InPlace
    <2> QED BY <2>2, <2>5
  <1>2. BaseInv /\ RoutedInv /\ PlaceInv => HandoffsAccounted
    <2> SUFFICES ASSUME BaseInv, RoutedInv, PlaceInv PROVE HandoffsAccounted
      OBVIOUS
    <2>1. LogOK /\ BoxesOK /\ StreamsOK /\ HistoriesOK BY TypeParts DEF BaseInv
    <2>2. /\ boxes \in [Agents -> Inbox] /\ stream \in Calls
          /\ received \in [Agents -> Seq(Nat)] /\ routed \in SUBSET (Nat \X Agents)
          /\ dropped \in SUBSET (Nat \X Agents)
      BY <2>1 DEF BoxesOK, StreamsOK, HistoriesOK
    <2>3. /\ poller.cursor \in Nat /\ poller.cursor <= Len(plog)
          /\ Len(plog) \in Nat
      BY <2>1, CursorWithin, PublishedTyped
    <2>4. ASSUME NEW a \in Agents
          PROVE  /\ {o \in 0 .. Len(plog) : <<o, a>> \in routed}
                       = Pending(a) \cup Range(received[a])
                            \cup {o \in 0 .. Len(plog) : <<o, a>> \in dropped}
                 /\ IsInjective(received[a]) /\ IsInjective(boxes[a].queue)
                 /\ Range(received[a]) \cap Pending(a) = {}
      <3>1. Pending(a) = Range(boxes[a].queue) \cup {stream[t].ev : t \in Sending(a)}
        BY DEF Pending, Sending
      <3>2. InPlace(a) BY DEF PlaceInv
      <3>3. /\ Range(boxes[a].queue) \subseteq Nat /\ Range(received[a]) \subseteq Nat
            /\ \A t \in Sending(a) : stream[t].ev \in Nat
        <4>1. \A s \in Seq(Nat) : Range(s) \subseteq Nat BY DEF Range
        <4>2. boxes[a].queue \in Seq(Nat) /\ received[a] \in Seq(Nat) BY <2>2 DEF Inbox
        <4>3. \A t \in Sending(a) : stream[t].ev \in Nat BY <2>2 DEF Sending, Calls
        <4> QED BY <4>1, <4>2, <4>3
      <3>4. \A o \in Nat : <<o, a>> \in routed => o \in 0 .. Len(plog)
        BY <2>3 DEF RoutedInv
      <3>5. \A o : o \in 0 .. Len(plog) => o \in Nat OBVIOUS
      <3>6. \A o \in Nat : <<o, a>> \in routed <=>
               o \in Pending(a) \cup Range(received[a]) \/ <<o, a>> \in dropped
        BY <3>1, <3>2 DEF InPlace
      <3>7. Pending(a) \subseteq Nat BY <3>1, <3>3
      <3>8. {o \in 0 .. Len(plog) : <<o, a>> \in routed}
               = Pending(a) \cup Range(received[a])
                    \cup {o \in 0 .. Len(plog) : <<o, a>> \in dropped}
        BY <3>3, <3>4, <3>5, <3>6, <3>7
      <3>9. Range(received[a]) \cap Pending(a) = {} BY <3>1, <3>2 DEF InPlace
      <3> QED BY <3>2, <3>8, <3>9 DEF InPlace
    <2> QED BY <2>4 DEF HandoffsAccounted, RoutedInv, IsHanded
  <1> QED BY <1>1, <1>2, BaseHolds, AccountStep, PTL DEF Spec
=============================================================================
