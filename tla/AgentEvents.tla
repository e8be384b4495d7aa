---------------------------- MODULE AgentEvents -----------------------------
(***************************************************************************)
(* The agent envelope: how an event gets from its producer into a message  *)
(* of the topic (eventbus/publish.go, internal/grpcapi/server.go, the      *)
(* publish-agent and retry-agent commands) and how its readers take it     *)
(* apart again (agentstream.ParseEvent, DecodeEvent, parseToAgent).        *)
(*                                                                         *)
(* A JSON object is a record, so that decoding finds the fields it asks    *)
(* for or it does not; a field Go leaves at its zero value is "" or 0.     *)
(***************************************************************************)
EXTENDS Integers

(* The body of a handoff as PublishHandoff writes it, and any other body. *)
HandoffBody(to) == [to_agent |-> to]
OtherBody == [text |-> "body"]

(* A message that is not an envelope *)
RawMessage == [text |-> "raw"]

Field(object, f, zero) == IF f \in DOMAIN object THEN object[f] ELSE zero

(* Event.Validate: tenant, project and session id are one value here. *)
Validate(e) == e.type # "" /\ e.session # "" /\ e.agent # ""

(* Event.Marshal, after it validated *)
Envelope(type, session, agent, attempt, payload) ==
    [type |-> type, session |-> session, agent |-> agent,
     attempt |-> attempt, payload |-> payload]

(* ParseEvent, and DecodeEvent of the SDK: the outermost envelope *)
ParseEvent(raw) ==
    Envelope(Field(raw, "type", ""), Field(raw, "session", ""), Field(raw, "agent", ""),
             Field(raw, "attempt", 0), Field(raw, "payload", OtherBody))
IsEvent(raw) == Validate(ParseEvent(raw))

(* encodeAgentEvent of the SDK *)
encodeAgentEvent(e) == Envelope(e.type, e.session, e.agent, e.attempt, e.payload)

(* What the handler PublishAgent makes of its request: an envelope of its  *)
(* own around the payload, without step and attempt.                       *)
PublishAgentRPC(type, session, agent, payload) ==
    Envelope(type, session, agent, 0, payload)

(* publishAgentOnce of the SDK: the encoded envelope is the payload of the *)
(* request, so the server wraps it once more.                              *)
publishAgentOnce(e) == PublishAgentRPC(e.type, e.session, e.agent, encodeAgentEvent(e))

(* The message one event becomes, by the way it is published.  publish-agent *)
(* encodes once and publishes the bytes.                                   *)
Published(e, via) ==
    CASE via = "sdk" -> publishAgentOnce(e)
      [] via = "rpc" -> PublishAgentRPC(e.type, e.session, e.agent, e.payload)
      [] via = "cli" -> encodeAgentEvent(e)

(* parseToAgent *)
parseToAgent(payload) == Field(payload, "to_agent", "")

(* Mutant: the first attempt of an event without a number counts as 0. *)
DecideFromZero(currentAttempt, maxAttempts) ==
    LET nextAttempt == currentAttempt + 1
    IN  [toDLQ |-> maxAttempts > 0 /\ nextAttempt > maxAttempts,
         nextAttempt |-> nextAttempt]

DecideRetryRoute(currentAttempt, maxAttempts) ==
    LET current == IF currentAttempt < 1 THEN 1 ELSE currentAttempt
        nextAttempt == current + 1
    IN  [toDLQ |-> maxAttempts > 0 /\ nextAttempt > maxAttempts,
         nextAttempt |-> nextAttempt]

(* retry-agent: the event again, with the attempt counted *)
retryAgent(raw, maxAttempts) ==
    LET e == ParseEvent(raw)
    IN  Envelope(e.type, e.session, e.agent,
                 DecideRetryRoute(e.attempt, maxAttempts).nextAttempt, e.payload)
=============================================================================
