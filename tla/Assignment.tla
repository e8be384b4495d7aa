----------------------------- MODULE Assignment -----------------------------
(***************************************************************************)
(* What the metadata layer promises about one shard: there is one history  *)
(* of its leaders, which only grows, and what a broker believes is the     *)
(* entry of that history it has come to.  A broker that restarts may fall  *)
(* back; nobody ever believes in a leader that was not appointed.          *)
(***************************************************************************)
EXTENDS Integers, Sequences

CONSTANTS Nodes, None

VARIABLES moves,   \* the leaders appointed, in order
          known,   \* [Nodes -> how far the broker has come]
          view     \* [Nodes -> the leader it believes in]

LeaderAt(ms, k) == IF k = 0 THEN None ELSE ms[k]

Init ==
    /\ moves = <<>>
    /\ known = [n \in Nodes |-> 0]
    /\ view = [n \in Nodes |-> None]

(* A broker comes to another place of the history. *)
Move(n) ==
    \E k \in 0 .. Len(moves') :
        /\ known' = [known EXCEPT ![n] = k]
        /\ view' = [view EXCEPT ![n] = LeaderAt(moves', k)]

Appoint(n, leader) == moves' = Append(moves, leader) /\ Move(n)

Learn(n) == UNCHANGED moves /\ Move(n)

Next == \E n \in Nodes : Learn(n) \/ \E leader \in Nodes : Appoint(n, leader)

Spec == Init /\ [][Next]_<<moves, known, view>>
=============================================================================
