----------------------------- MODULE TopicRing ------------------------------
(***************************************************************************)
(* One partition of a topic (internal/broker/topic.go): a ring of Cap      *)
(* slots, the message with offset o in slot o % Cap, of which the last Cap *)
(* offsets, head .. tail - 1, can be read.                                 *)
(***************************************************************************)
EXTENDS Integers, Sequences

CONSTANTS Cap,       \* capacity of a ring
          NoMessage  \* content of a slot never written

ASSUME CapAssumption == Cap \in Nat \ {0}

newTopic ==
    [messages |-> [i \in 0 .. Cap - 1 |-> NoMessage], head |-> 0, tail |-> 0]

(* Mutant: the slot is written, the oldest offset stays readable. *)
PublishKeepsHead(t, payload) ==
    [messages |-> [t.messages EXCEPT
         ![t.tail % Cap] = [offset |-> t.tail, payload |-> payload]],
     head |-> t.head, tail |-> t.tail + 1]

(* Topic.Publish, up to the release of the lock. *)
Publish(t, payload) ==
    [messages |-> [t.messages EXCEPT
         ![t.tail % Cap] = [offset |-> t.tail, payload |-> payload]],
     head |-> IF t.tail + 1 - t.head > Cap THEN t.head + 1 ELSE t.head,
     tail |-> t.tail + 1]

(* A new ring after the payloads s were published to it, one by one. *)
Replayed(s) ==
    LET t[n \in 0 .. Len(s)] == IF n = 0 THEN newTopic ELSE Publish(t[n - 1], s[n])
    IN  t[Len(s)]

(* Where a read at offset really starts. *)
From(t, offset) == IF offset < t.head THEN t.head ELSE offset

(* Topic.Fetch *)
Fetch(t, offset, maxCount) ==
    LET from == From(t, offset)
        end == IF from + maxCount > t.tail THEN t.tail ELSE from + maxCount
    IN  [i \in 1 .. end - from |-> t.messages[(from + i - 1) % Cap]]

-----------------------------------------------------------------------------
(* Messages and rings with payloads of the set P *)
Slots(P) == [offset : Nat, payload : P]

Rings(P) ==
    [messages : [0 .. Cap - 1 -> Slots(P) \cup {NoMessage}], head : Nat, tail : Nat]

(* The ring t shows the last Cap entries of the sequence log of everything *)
(* published to it: the counters bound them, and each is in its own slot   *)
(* under its own offset, whatever the ring has overwritten before.         *)
Shows(t, log) ==
    /\ t.tail = Len(log)
    /\ t.head = IF Len(log) > Cap THEN Len(log) - Cap ELSE 0
    /\ \A o \in t.head .. t.tail - 1 :
          t.messages[o % Cap] = [offset |-> o, payload |-> log[o + 1]]
=============================================================================
