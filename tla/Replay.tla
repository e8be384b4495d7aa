------------------------------- MODULE Replay -------------------------------
(***************************************************************************)
(* Replaying a session: ReplaySession of the SDK (eventbus/replay.go) asks *)
(* the gRPC server for page after page of one partition, whose Fetch scans *)
(* the ring for the session's events (internal/grpcapi/server.go), while   *)
(* producers go on publishing and the ring goes on overwriting.  Without a *)
(* filter Fetch returns the raw messages of the partition, to any caller   *)
(* that pages by next_offset.                                              *)
(*                                                                         *)
(* A message is the session it belongs to: ours or another one.            *)
(***************************************************************************)
EXTENDS TopicRing, SequencesExt

CONSTANTS Ours, Other,   \* the session replayed, and the rest
          MaxCount,      \* events asked for per page (256 by default)
          ScanSize,      \* messages read under one lock (1024)
          ScanLimit,     \* messages one filtered Fetch reads at most (16384)
          MaxMessages    \* bound: messages published

ASSUME ReplayAssumption ==
    /\ MaxCount \in Nat \ {0} /\ ScanSize \in Nat \ {0}
    /\ ScanLimit \in Nat /\ ScanLimit >= ScanSize

VARIABLES
    ring,      \* the partition's ring
    rlog,      \* history: everything published to it
    filter,    \* a SessionFilter is sent, fixed
    rpc,       \* where the replay is: "ask", "scan", "page" or "done"
    position,  \* the client's offset
    returned,  \* offsets of the events returned so far
    fetch,     \* Fetch in progress: position, events found, messages
               \* scanned, the tail read at its start; between two of
               \* them, the tail of the last one
    lapped,    \* history: a read began before the head of the ring
    cut        \* history: a scan stopped in the middle of what it had read

replayVars == <<ring, rlog, filter, rpc, position, returned, fetch, lapped, cut>>

NoFetch == [offset |-> 0, found |-> <<>>, scanned |-> 0, tail |-> 0]

ReplayInit ==
    /\ ring = newTopic /\ rlog = <<>>
    /\ filter \in BOOLEAN
    /\ rpc = "ask" /\ position = 0 /\ returned = <<>> /\ fetch = NoFetch
    /\ lapped = FALSE /\ cut = FALSE

Produce ==
    /\ Len(rlog) < MaxMessages
    /\ \E s \in {Ours, Other} :
          ring' = Publish(ring, s) /\ rlog' = Append(rlog, s)
    /\ UNCHANGED <<filter, rpc, position, returned, fetch, lapped, cut>>

-----------------------------------------------------------------------------
(* The server *)

sessionFilterMatches(m) == filter => m.payload = Ours

(* Fetch begins: TopicPartitionInfo. *)
StartFetch ==
    /\ rpc = "ask" /\ rpc' = "scan"
    /\ fetch' = [NoFetch EXCEPT !.offset = position, !.tail = ring.tail]
    /\ UNCHANGED <<ring, rlog, filter, position, returned, lapped, cut>>

(* The elements of s at the places in K, in order. *)
Picked(s, K) ==
    LET p[n \in 0 .. Len(s)] == IF n = 0 THEN <<>>
                                ELSE IF n \in K THEN Append(p[n - 1], s[n])
                                ELSE p[n - 1]
    IN  p[Len(s)]

(* The events among msgs, and those of them that still fit. *)
Matches(msgs) == Picked(msgs, {i \in 1 .. Len(msgs) : sessionFilterMatches(msgs[i])})
Room == MaxCount - Len(fetch.found)
Taken(msgs) ==
    IF Len(Matches(msgs)) < Room THEN Matches(msgs) ELSE SubSeq(Matches(msgs), 1, Room)

(* How many of msgs the loop looked at before it had enough. *)
Looked(msgs) ==
    IF Len(Matches(msgs)) < Room THEN Len(msgs)
    ELSE CHOOSE n \in 1 .. Len(msgs) :
            /\ Len(Matches(SubSeq(msgs, 1, n))) = Room
            /\ sessionFilterMatches(msgs[n])

Goes == Len(fetch.found) < MaxCount /\ fetch.scanned < ScanLimit /\ fetch.offset < fetch.tail

(* Mutant: the next page begins after the last match. *)
ScanByMatches ==
    LET msgs == Fetch(ring, fetch.offset, ScanSize) IN
    /\ rpc = "scan" /\ filter /\ Goes /\ msgs # <<>>
    /\ fetch' = [fetch EXCEPT !.offset = @ + Len(Taken(msgs)), !.scanned = @ + Looked(msgs),
                              !.found = @ \o Taken(msgs)]
    /\ lapped' = (lapped \/ fetch.offset < ring.head)
    /\ cut' = (cut \/ Looked(msgs) < Len(msgs))
    /\ UNCHANGED <<ring, rlog, filter, rpc, position, returned>>

(* One round of the filtered scan.  The position moves past everything     *)
(* that was read, looked at or not.                                        *)
Scan ==
    LET msgs == Fetch(ring, fetch.offset, ScanSize) IN
    /\ rpc = "scan" /\ filter /\ Goes /\ msgs # <<>>
    /\ fetch' = [fetch EXCEPT !.offset = @ + Len(msgs), !.scanned = @ + Looked(msgs),
                              !.found = @ \o Taken(msgs)]
    /\ lapped' = (lapped \/ fetch.offset < ring.head)
    /\ cut' = (cut \/ Looked(msgs) < Len(msgs))
    /\ UNCHANGED <<ring, rlog, filter, rpc, position, returned>>

(* The filtered scan is over. *)
ScanEnds ==
    /\ rpc = "scan" /\ filter
    /\ Goes => Fetch(ring, fetch.offset, ScanSize) = <<>>
    /\ rpc' = "page"
    /\ UNCHANGED <<ring, rlog, filter, position, returned, fetch, lapped, cut>>

(* The fast path *)
FetchRaw ==
    LET msgs == Fetch(ring, fetch.offset, MaxCount) IN
    /\ rpc = "scan" /\ ~ filter /\ rpc' = "page"
    /\ fetch' = [fetch EXCEPT !.offset = @ + Len(msgs), !.found = msgs]
    /\ lapped' = (lapped \/ (msgs # <<>> /\ fetch.offset < ring.head))
    /\ UNCHANGED <<ring, rlog, filter, position, returned, cut>>

-----------------------------------------------------------------------------
(* The client *)

(* Mutant: an empty page is asked for again whether or not it moved on. *)
PageAgain ==
    LET more == IF fetch.found = <<>> THEN fetch.offset <= fetch.tail
                ELSE fetch.offset < fetch.tail IN
    /\ rpc = "page"
    /\ returned' = returned \o [i \in 1 .. Len(fetch.found) |-> fetch.found[i].offset]
    /\ position' = IF more THEN fetch.offset ELSE position
    /\ rpc' = IF more THEN "ask" ELSE "done"
    /\ fetch' = [NoFetch EXCEPT !.tail = fetch.tail]
    /\ UNCHANGED <<ring, rlog, filter, lapped, cut>>

(* A page of ReplaySession: on from next_offset until it reaches the tail  *)
(* the page reported; an empty page must have moved on.                    *)
Page ==
    LET more == /\ fetch.offset < fetch.tail
                /\ fetch.found = <<>> => fetch.offset > position
    IN  /\ rpc = "page"
        /\ returned' = returned \o [i \in 1 .. Len(fetch.found) |-> fetch.found[i].offset]
        /\ position' = IF more THEN fetch.offset ELSE position
        /\ rpc' = IF more THEN "ask" ELSE "done"
        /\ fetch' = [NoFetch EXCEPT !.tail = fetch.tail]
        /\ UNCHANGED <<ring, rlog, filter, lapped, cut>>

Fetching == StartFetch \/ Scan \/ ScanEnds \/ FetchRaw \/ Page

ReplayNext == Produce \/ Fetching

ReplaySpec == ReplayInit /\ [][ReplayNext]_replayVars

(* The client goes on asking and the server answering. *)
ReplayFairSpec == ReplaySpec /\ WF_replayVars(Fetching)

-----------------------------------------------------------------------------
(* What a replay from offset 0 up to the offset end has to return. *)
Wanted(end) ==
    Picked([i \in 1 .. end |-> i - 1], {i \in 1 .. end : filter => rlog[i] = Ours})

(* The replay has read on to an offset and returned what was wanted up to  *)
(* there; at its end, at least to the tail its last page reported.         *)
ReturnedSession ==
    \E end \in (IF rpc = "done" THEN fetch.tail ELSE 0) .. Len(rlog) : returned = Wanted(end)

(* ReplaySession and Fetch together return the session: as long as the     *)
(* ring did not overtake the reader and no page was cut short, the events  *)
(* returned are those of the session, in the order they were written, none *)
(* twice and none missing, while messages keep arriving; at the end they   *)
(* reach at least as far as the tail the last page saw.                    *)
ReplayIsTheSession == ~ lapped /\ ~ cut => ReturnedSession

(* A replay ends even while the ring laps it and scans run into their      *)
(* limits without a match: every page that leads to another one moves on.  *)
(* The producers write finitely many messages.                             *)
ReplayEnds == <>(rpc = "done")

(* ReplaySession "returns every persisted event for the given session" as  *)
(* long as the ring still has them.                                        *)
ReplayReturnsAll ==
    ~ lapped /\ rpc = "done" => ReturnedSession

(* Nothing is returned twice, whatever the ring overwrites. *)
NothingTwice == IsInjective(returned)
=============================================================================
