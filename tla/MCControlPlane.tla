--------------------------- MODULE MCControlPlane ---------------------------
(* Small instances of the control plane: scenarios, each bounded to what   *)
(* it is about, checked side by side.                                      *)
EXTENDS ControlPlane

CONSTANTS a1, a2

Base == [escalation |-> "", types |-> {"handoff"}, vias |-> {"cli"}, attempts |-> {1},
         producers |-> {a1}, registering |-> {}, readers |-> {a2},
         messages |-> 3, publishers |-> 1, failing |-> FALSE, streams |-> 0,
         silences |-> 0, restarts |-> 0, maxAttempts |-> 0]

(* streams of one agent that share, fill and leave an inbox, and a restart *)
Handoffs == [Base EXCEPT !.streams = 3, !.restarts = 1]

(* every type of event, escalation, publishes that overlap or fail, and a  *)
(* crash in the middle of Ingest or of a publish                           *)
Runs(esc) == [Base EXCEPT !.types = {"handoff", "error", "complete", "step"},
                          !.escalation = esc, !.producers = {a1, a2}, !.restarts = 1]
Overlapping == [Base EXCEPT !.types = {"error", "complete"}, !.publishers = 2,
                            !.failing = TRUE, !.restarts = 1]

(* the ways of publishing *)
Ways == [Base EXCEPT !.vias = {"sdk", "rpc", "cli"}, !.types = {"handoff", "raw"},
                     !.streams = 1, !.messages = 2]

(* escalations into an inbox with one place *)
Escalated == [Base EXCEPT !.types = {"error"}, !.escalation = a2,
                          !.streams = 2, !.restarts = 1]

(* agents that fall silent *)
Silent == [Base EXCEPT !.types = {"step"}, !.messages = 2, !.silences = 2,
                       !.streams = 1, !.registering = {a2}, !.restarts = 1]

(* failed events, first published with an attempt number or without *)
Retried(max) == [Base EXCEPT !.types = {"step"}, !.vias = {"sdk", "cli"},
                             !.attempts = {0, 1}, !.messages = 4, !.maxAttempts = max]

CoreConfigs == {Handoffs, Runs(""), Runs(a2), Overlapping, Ways, Escalated, Silent,
                Retried(1), Retried(2), Retried(3)}
=============================================================================
