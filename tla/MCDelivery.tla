----------------------------- MODULE MCDelivery -----------------------------
(* Small instances of the delivery path: scenarios, each bounded to what   *)
(* it is about, checked side by side.                                      *)
EXTENDS Delivery

CONSTANTS p1, p2, c1, c2

Base == [mode |-> "always", publishers |-> {p1}, consumers |-> {c1},
         requests |-> {"tcp"}, parts |-> {0}, ends |-> {},
         messages |-> 3, sessions |-> 1, errors |-> 0, saves |-> 0, restarts |-> 0]

(* a subscriber slower than the ring, woken while it looks, with saves     *)
(* that fail                                                               *)
Slow == [Base EXCEPT !.messages = 5, !.saves = 1]

(* two publishers in one partition, a crash and a resumed group *)
Race == [Base EXCEPT !.publishers = {p1, p2}, !.ends = {"crash"},
                     !.restarts = 1, !.messages = 2, !.sessions = 2]

(* batches cut short by a poisoned log, restarts *)
Batch(m) == [Base EXCEPT !.mode = m, !.requests = {"batch", "tcp"}, !.errors = 1,
                      !.ends = {"crash", "stop"}, !.restarts = 1, !.sessions = 2]

(* two consumers of one group, which come and go *)
Shared == [Base EXCEPT !.consumers = {c1, c2}, !.sessions = 3, !.messages = 2,
                       !.requests = {"grpc"}]

(* partitions by key and by turn *)
Keyed == [Base EXCEPT !.parts = {0, 1}, !.requests = {"key", "grpc"},
                      !.messages = 3, !.sessions = 1]

(* /api/publish, with a log that fails *)
Http(m) == [Base EXCEPT !.mode = m, !.requests = {"http", "tcp"}, !.messages = 2,
                     !.errors = 1, !.ends = {"crash", "stop"}, !.restarts = 1, !.sessions = 2]

(* a Write that fails in the round of another publisher, then a restart *)
Poison == [Base EXCEPT !.publishers = {p1, p2}, !.requests = {"grpc"}, !.parts = {0, 1},
                       !.errors = 1, !.ends = {"crash", "stop"}, !.restarts = 1,
                       !.messages = 3]

CoreConfigs == {Slow, Race, Batch("none"), Batch("always"), Shared, Keyed,
                Http("none"), Http("always"), Poison}

(* one consumer, without an end of the process *)
LiveConfigs == {[Slow EXCEPT !.messages = 4, !.sessions = 2]}

(* a crash of a broker that does not fsync; a subscriber the ring overruns *)
Unsynced == [Base EXCEPT !.mode = "none", !.ends = {"crash"}, !.restarts = 1,
                         !.messages = 3, !.sessions = 2]

ClaimConfigs == {Unsynced, Slow, Poison}
=============================================================================
