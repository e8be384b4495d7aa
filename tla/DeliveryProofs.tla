--------------------------- MODULE DeliveryProofs ---------------------------
(***************************************************************************)
(* The path from a publish to a committed offset, for any number of        *)
(* connections, partitions, messages, failures and restarts, and for every *)
(* capacity of the rings; and, in the last section, the replay of a        *)
(* session from a ring (Replay).                                           *)
(***************************************************************************)
EXTENDS Delivery, Replay, TopicRingProofs, SequenceTheorems

(* Partition 0 exists. *)
LEMMA ZeroInParts == 0 \in Parts
  BY DeliveryAssumption DEF Parts
Records == [part : Parts, msg : Nat]

(* What the replay loop hands to one partition, record by record. *)
LEMMA MessagesSteps ==
    ASSUME NEW w \in Seq(Records), NEW q
    PROVE  \E m : /\ m[0] = <<>> /\ MessagesOf(w, q) = m[Len(w)]
                  /\ \A n \in 1 .. Len(w) :
                        m[n] = IF w[n].part = q THEN Append(m[n - 1], w[n].msg) ELSE m[n - 1]
  <1> DEFINE Step(x, n) == IF w[n].part = q THEN Append(x, w[n].msg) ELSE x
  <1> HIDE DEF Step
  <1> DEFINE Good(k, t) == /\ t[0] = <<>>
                           /\ \A n \in 1 .. k : t[n] = Step(t[n - 1], n)
             T == {k \in Nat : \E t : Good(k, t)}
  <1>1. 0 \in T
    <2>1. Good(0, [n \in 0 .. 0 |-> <<>>]) OBVIOUS
    <2> HIDE DEF Good
    <2> QED BY <2>1
  <1>2. ASSUME NEW k \in T PROVE k + 1 \in T
    <2>1. PICK t : Good(k, t) OBVIOUS
    <2> DEFINE u == [n \in 0 .. k + 1 |-> IF n = k + 1 THEN Step(t[k], k + 1) ELSE t[n]]
    <2>2. u[0] = <<>> BY <2>1
    <2>3. ASSUME NEW n \in 1 .. k + 1 PROVE u[n] = Step(u[n - 1], n)
      <3>1. CASE n = k + 1
        <4>1. n - 1 = k /\ k \in 0 .. k + 1 /\ k # k + 1 BY <3>1
        <4>2. u[n - 1] = t[k] /\ u[n] = Step(t[k], k + 1) BY <3>1, <4>1
        <4> QED BY <3>1, <4>2
      <3>2. CASE n # k + 1
        <4>1. n \in 1 .. k /\ n \in 0 .. k + 1 /\ n - 1 \in 0 .. k + 1 /\ n - 1 # k + 1
          BY <3>2
        <4>2. u[n] = t[n] /\ u[n - 1] = t[n - 1] BY <3>2, <4>1
        <4> QED BY <2>1, <4>1, <4>2
      <3> QED BY <3>1, <3>2
    <2>4. Good(k + 1, u) BY <2>2, <2>3
    <2> HIDE DEF Good, u
    <2> QED BY <2>4
  <1>3. T = Nat
    <2>1. T \in SUBSET Nat OBVIOUS
    <2> HIDE DEF T
    <2> QED BY <1>1, <1>2, <2>1, Induction
  <1>4. PICK t : Good(Len(w), t)
    <2>1. Len(w) \in T
      <3>1. Len(w) \in Nat OBVIOUS
      <3> HIDE DEF T
      <3> QED BY <1>3, <3>1
    <2> HIDE DEF Good
    <2> QED BY <2>1
  <1> DEFINE Def(f) == [n \in 0 .. Len(w) |-> IF n = 0 THEN <<>> ELSE Step(f[n - 1], n)]
             v == [n \in 0 .. Len(w) |-> t[n]]
             r == CHOOSE f : f = Def(f)
  <1>5. v = Def(v)
    <2>1. ASSUME NEW n \in 0 .. Len(w)
          PROVE  v[n] = IF n = 0 THEN <<>> ELSE Step(v[n - 1], n)
      <3>1. CASE n = 0 BY <1>4, <3>1
      <3>2. CASE n # 0
        <4>1. n \in 1 .. Len(w) /\ n - 1 \in 0 .. Len(w) BY <3>2
        <4> QED BY <1>4, <3>2, <4>1
      <3> QED BY <3>1, <3>2
    <2> QED BY <2>1
  <1>6. r = Def(r)
    <2> HIDE DEF Def
    <2> QED BY <1>5
  <1>7. MessagesOf(w, q) = r[Len(w)] BY DEF MessagesOf, Step
  <1> HIDE DEF r
  <1>8. r[0] = <<>> BY <1>6
  <1>9. ASSUME NEW n \in 1 .. Len(w) PROVE r[n] = Step(r[n - 1], n)
    <2>1. n \in 0 .. Len(w) /\ n # 0 OBVIOUS
    <2> QED BY <1>6, <2>1
  <1> QED BY <1>7, <1>8, <1>9 DEF Step

(* They are messages, *)
LEMMA MessagesType ==
    ASSUME NEW w \in Seq(Records), NEW q PROVE MessagesOf(w, q) \in Seq(Nat)
  <1>1. PICK m : /\ m[0] = <<>> /\ MessagesOf(w, q) = m[Len(w)]
                 /\ \A n \in 1 .. Len(w) :
                       m[n] = IF w[n].part = q THEN Append(m[n - 1], w[n].msg) ELSE m[n - 1]
    BY MessagesSteps
  <1> DEFINE T == {n \in Nat : n <= Len(w) => m[n] \in Seq(Nat)}
  <1>2. 0 \in T
    <2>1. <<>> \in Seq(Nat) OBVIOUS
    <2> QED BY <1>1, <2>1
  <1>3. ASSUME NEW n \in T PROVE n + 1 \in T
    <2> SUFFICES ASSUME n + 1 <= Len(w) PROVE m[n + 1] \in Seq(Nat)
      OBVIOUS
    <2>1. n \in Nat /\ n <= Len(w) /\ n + 1 \in 1 .. Len(w) /\ (n + 1) - 1 = n OBVIOUS
    <2>2. m[n] \in Seq(Nat) BY <2>1
    <2>3. w[n + 1].msg \in Nat
      <3>1. w[n + 1] \in Records BY <2>1
      <3> QED BY <3>1 DEF Records
    <2>4. m[n + 1] = IF w[n + 1].part = q THEN Append(m[n], w[n + 1].msg) ELSE m[n]
      BY <1>1, <2>1
    <2>5. CASE w[n + 1].part = q
      <3>1. m[n + 1] = Append(m[n], w[n + 1].msg) BY <2>4, <2>5
      <3> QED BY <2>2, <2>3, <3>1
    <2> QED BY <2>2, <2>4, <2>5
  <1>4. T = Nat
    <2>1. T \in SUBSET Nat OBVIOUS
    <2> HIDE DEF T
    <2> QED BY <1>2, <1>3, <2>1, Induction
  <1>5. Len(w) \in Nat OBVIOUS
  <1> QED BY <1>1, <1>4, <1>5

(* none for an empty log, *)
LEMMA MessagesNone == ASSUME NEW q PROVE MessagesOf(<<>>, q) = <<>>
  <1>1. <<>> \in Seq(Records) /\ Len(<<>>) = 0 OBVIOUS
  <1> DEFINE w == <<>>
  <1> HIDE DEF w
  <1>2. w \in Seq(Records) BY <1>1 DEF w
  <1>3. \E m : m[0] = <<>> /\ MessagesOf(w, q) = m[Len(w)] BY <1>2, MessagesSteps
  <1> QED BY <1>1, <1>3 DEF w

(* and one more after an append to the partition. *)
LEMMA MessagesAppend ==
    ASSUME NEW w \in Seq(Records), NEW r \in Records, NEW q
    PROVE  MessagesOf(Append(w, r), q)
              = IF r.part = q THEN Append(MessagesOf(w, q), r.msg) ELSE MessagesOf(w, q)
  <1> DEFINE x == Append(w, r)
  <1>1. /\ x \in Seq(Records) /\ Len(x) = Len(w) + 1 /\ x[Len(w) + 1] = r
        /\ \A n \in 1 .. Len(w) : x[n] = w[n]
    OBVIOUS
  <1> HIDE DEF x
  <1>2. PICK m : /\ m[0] = <<>> /\ MessagesOf(w, q) = m[Len(w)]
                 /\ \A n \in 1 .. Len(w) :
                       m[n] = IF w[n].part = q THEN Append(m[n - 1], w[n].msg) ELSE m[n - 1]
    BY MessagesSteps
  <1>3. PICK o : /\ o[0] = <<>> /\ MessagesOf(x, q) = o[Len(x)]
                 /\ \A n \in 1 .. Len(x) :
                       o[n] = IF x[n].part = q THEN Append(o[n - 1], x[n].msg) ELSE o[n - 1]
    BY <1>1, MessagesSteps
  <1> DEFINE T == {n \in Nat : n <= Len(w) => o[n] = m[n]}
  <1>4. 0 \in T BY <1>2, <1>3
  <1>5. ASSUME NEW n \in T PROVE n + 1 \in T
    <2> SUFFICES ASSUME n + 1 <= Len(w) PROVE o[n + 1] = m[n + 1]
      OBVIOUS
    <2>1. n \in Nat /\ n <= Len(w) /\ n + 1 \in 1 .. Len(w) /\ (n + 1) - 1 = n
          /\ n + 1 \in 1 .. Len(x)
      BY <1>1
    <2>2. o[n] = m[n] /\ x[n + 1] = w[n + 1] BY <1>1, <2>1
    <2> QED BY <1>2, <1>3, <2>1, <2>2
  <1>6. T = Nat
    <2>1. T \in SUBSET Nat OBVIOUS
    <2> HIDE DEF T
    <2> QED BY <1>4, <1>5, <2>1, Induction
  <1>7. Len(w) \in Nat /\ Len(w) + 1 \in 1 .. Len(x) /\ (Len(w) + 1) - 1 = Len(w)
    BY <1>1
  <1>8. o[Len(w)] = m[Len(w)] BY <1>6, <1>7
  <1>9. o[Len(x)] = IF r.part = q THEN Append(o[Len(w)], r.msg) ELSE o[Len(w)]
    BY <1>1, <1>3, <1>7
  <1> QED BY <1>2, <1>3, <1>8, <1>9 DEF x

-----------------------------------------------------------------------------
(* Types, and the rings *)

BaseInv == TypeOK /\ RingShowsLast

(* Nothing is a sequence of anything. *)
LEMMA EmptySeqs == <<>> \in Seq(Nat) /\ <<>> \in Seq(Slots(Nat))
  OBVIOUS

(* A sequence with something in it has a first element. *)
LEMMA LenPositive ==
    ASSUME NEW S, NEW s \in Seq(S), s # <<>>
    PROVE  Len(s) \in Nat \ {0} /\ Head(s) = s[1] /\ s[1] \in S
  OBVIOUS

(* A message of a read has an offset and a payload. *)
LEMMA SlotAt ==
    ASSUME NEW m \in Seq(Slots(Nat)), NEW i \in 1 .. Len(m)
    PROVE  m[i] \in Slots(Nat) /\ m[i].offset \in Nat /\ m[i].payload \in Nat
  <1>1. m[i] \in Slots(Nat) OBVIOUS
  <1> QED BY <1>1 DEF Slots

(* A broker that starts for the first time *)
LEMMA BaseInit == Init => BaseInv
  <1> SUFFICES ASSUME Init PROVE BaseInv
    OBVIOUS
  <1> USE DEF Init
  <1>1. ServerOK BY DEF ServerOK
  <1>2. RingsOK BY NewShows DEF RingsOK
  <1>3. WalOK
    <2>1. \A S : <<>> \in Seq(S) /\ Len(<<>>) = 0 OBVIOUS
    <2>2. wal \in Seq([part : Parts, msg : Nat]) BY <2>1
    <2>3. flushed \in 0 .. Len(wal) BY <2>1
    <2> QED BY <2>2, <2>3 DEF WalOK
  <1>4. RequestsOK
    <2>1. NoRequest \in Request /\ NoRequest.pc = "idle"
      BY EmptySeqs, ZeroInParts DEF NoRequest, Request
    <2> HIDE DEF NoRequest
    <2> QED BY <2>1 DEF RequestsOK
  <1>5. SessionsOK
    <2>1. NoSession \in Session /\ NoSession.pc = "idle" BY EmptySeqs DEF NoSession, Session
    <2> HIDE DEF NoSession
    <2> QED BY <2>1 DEF SessionsOK
  <1>6. GroupsOK BY DEF GroupsOK
  <1>7. ManagerOK BY DEF ManagerInit, ManagerOK, Offsets, NoOffsets
  <1>8. RingShowsLast BY NewShows DEF RingShowsLast
  <1> QED BY <1>1, <1>2, <1>3, <1>4, <1>5, <1>6, <1>7, <1>8 DEF BaseInv, TypeOK

(* The variables of a part that a step leaves alone *)
ServerSame   == UNCHANGED <<conf, phase, next, messages, disturbed>>
RingsSame    == UNCHANGED <<topic, plog>>
WalSame      == UNCHANGED <<wal, flushed, fatal, syncErr>>
GroupsSame   == UNCHANGED <<sent, missed, base>>

(* A part nobody touches keeps its type. *)
LEMMA PartsKept ==
    ASSUME BaseInv
    PROVE  /\ ServerSame => ServerOK'
           /\ RingsSame => RingsOK' /\ RingShowsLast'
           /\ WalSame => WalOK'
           /\ GroupsSame => GroupsOK'
           /\ (UNCHANGED pub) => RequestsOK'
           /\ (UNCHANGED cons) => SessionsOK'
           /\ (UNCHANGED managerVars) => ManagerOK'
  <1> USE DEF BaseInv, TypeOK
  <1>1. ServerSame => ServerOK' BY DEF ServerSame, ServerOK
  <1>2. RingsSame => RingsOK' /\ RingShowsLast'
    BY DEF RingsSame, RingsOK, RingShowsLast
  <1>3. WalSame => WalOK' BY DEF WalSame, WalOK
  <1>4. GroupsSame => GroupsOK' BY DEF GroupsSame, GroupsOK
  <1>5. (UNCHANGED pub) => RequestsOK' BY DEF RequestsOK
  <1>6. (UNCHANGED cons) => SessionsOK' BY DEF SessionsOK
  <1>7. (UNCHANGED managerVars) => ManagerOK' BY DEF managerVars, ManagerOK
  <1> QED BY <1>1, <1>2, <1>3, <1>4, <1>5, <1>6, <1>7

(* One connection's request, or its session, is replaced by one of its     *)
(* type.                                                                   *)
LEMMA RequestSet ==
    ASSUME BaseInv, NEW p \in Publishers, NEW r \in Request,
           r.pc # "idle" => r.todo # <<>>, pub' = [pub EXCEPT ![p] = r]
    PROVE  RequestsOK'
  BY DEF BaseInv, TypeOK, RequestsOK

(* A session is replaced. *)
LEMMA SessionSet ==
    ASSUME BaseInv, NEW c \in Consumers, NEW s \in Session,
           s.pc # "idle" => s.key \in Keys,
           s.pc \in {"send", "commit"} => s.msgs # <<>>,
           s.pc = "commit" => Len(s.msgs) = 1,
           cons' = [cons EXCEPT ![c] = s]
    PROVE  SessionsOK'
  BY DEF BaseInv, TypeOK, SessionsOK

(* The publish handlers start with a request of one of their kinds, to a   *)
(* partition of the topic.                                                 *)
Begins(p) == \E how \in {"tcp", "grpc", "http"}, count \in Nat \ {0}, q \in Parts :
                Begin(p, how, count, q) /\ next' \in Nat

(* Each publish handler of the TCP server, of the gRPC API and of          *)
(* /api/publish begins a request in that way, whichever partition it       *)
(* chooses.                                                                *)
LEMMA HandlersBegin ==
    ASSUME BaseInv, NEW p \in Publishers,
           \/ handlePublish(p) \/ handlePublishWithKey(p) \/ handleBatchPublish(p)
           \/ PublishRPC(p) \/ apiPublish(p)
    PROVE  Begins(p)
  <1>1. conf \in Configs /\ next \in Nat BY DEF BaseInv, TypeOK, ServerOK
  <1>2. conf.parts \subseteq Parts BY <1>1, DeliveryAssumption DEF Config
  <1>3. \A q \in Parts : choosePartition(q) => next' \in Nat
    BY <1>1 DEF choosePartition
  <1>4. 1 \in Nat \ {0} /\ BatchSize \in Nat \ {0} /\ 0 \in Parts
    BY DeliveryAssumption, ZeroInParts
  <1>5. CASE handlePublish(p) BY <1>1, <1>4, <1>5 DEF handlePublish, Begins
  <1>6. CASE handleBatchPublish(p) BY <1>1, <1>4, <1>6 DEF handleBatchPublish, Begins
  <1>7. CASE handlePublishWithKey(p)
    BY <1>2, <1>3, <1>4, <1>7 DEF handlePublishWithKey, Begins
  <1>8. CASE PublishRPC(p) BY <1>1, <1>2, <1>3, <1>4, <1>8 DEF PublishRPC, Begins
  <1>9. CASE apiPublish(p) BY <1>1, <1>2, <1>4, <1>9 DEF apiPublish, Begins
  <1> QED BY <1>5, <1>6, <1>7, <1>8, <1>9

(* A request is decoded. *)
LEMMA BeginTyped == ASSUME BaseInv, NEW p \in Publishers, Begins(p) PROVE BaseInv'
  <1>1. PICK how \in {"tcp", "grpc", "http"}, count \in Nat \ {0}, q \in Parts :
            Begin(p, how, count, q) /\ next' \in Nat
    BY DEF Begins
  <1>2. RingsSame /\ WalSame /\ GroupsSame /\ UNCHANGED <<cons, managerVars, conf, phase>>
    BY <1>1 DEF Begin, RingsSame, WalSame, GroupsSame, server, log, groups
  <1> DEFINE r == [pc |-> IF how = "http" THEN "ring" ELSE "append", how |-> how,
                   part |-> q, todo |-> DecodeBatchPayload(count)]
  <1>3. messages \in Nat BY DEF BaseInv, TypeOK, ServerOK
  <1>4. DecodeBatchPayload(count) \in Seq(Nat) /\ DecodeBatchPayload(count) # <<>>
    BY <1>3 DEF DecodeBatchPayload
  <1>5. r \in Request BY <1>4 DEF Request
  <1>6. RequestsOK'
    <2>1. pub' = [pub EXCEPT ![p] = r] /\ r.todo = DecodeBatchPayload(count)
      BY <1>1 DEF Begin
    <2> HIDE DEF r
    <2> QED BY <1>4, <1>5, <2>1, RequestSet
  <1>7. ServerOK'
    <2>1. messages' \in Nat /\ next' \in Nat BY <1>1, <1>3 DEF Begin
    <2>2. disturbed' \in BOOLEAN BY <1>1, Zenon DEF Begin
    <2> QED BY <1>2, <2>1, <2>2 DEF BaseInv, TypeOK, ServerOK
  <1> QED BY <1>2, <1>6, <1>7, PartsKept DEF BaseInv, TypeOK

(* Answer and Continue keep a request's type. *)
LEMMA AnswerTyped ==
    ASSUME BaseInv, NEW p \in Publishers,
           \/ Answer(p)
           \/ \E pc \in {"append", "ring", "notify"} : pub[p].pc # "idle" /\ Continue(p, pc)
    PROVE  RequestsOK'
  <1>1. pub[p] \in Request /\ (pub[p].pc # "idle" => pub[p].todo # <<>>)
        /\ pub \in [Publishers -> Request]
    BY DEF BaseInv, TypeOK, RequestsOK
  <1>2. CASE Answer(p)
    <2>1. NoRequest \in Request /\ NoRequest.pc = "idle"
      BY ZeroInParts DEF NoRequest, Request
    <2> QED BY <1>2, <2>1, RequestSet DEF Answer
  <1>3. ASSUME NEW pc \in {"append", "ring", "notify"}, pub[p].pc # "idle", Continue(p, pc)
        PROVE  RequestsOK'
    <2> DEFINE r == [pub[p] EXCEPT !.pc = pc]
    <2>1. r \in Request /\ r.todo = pub[p].todo BY <1>1 DEF Request
    <2>2. pub' = [pub EXCEPT ![p] = r] BY <1>1, <1>3 DEF Continue
    <2> HIDE DEF r
    <2> QED BY <1>1, <1>3, <2>1, <2>2, RequestSet
  <1> QED BY <1>2, <1>3

(* The record a request logs *)
LEMMA RecordTyped ==
    ASSUME BaseInv, NEW p \in Publishers, pub[p].pc # "idle"
    PROVE  Msg(p) \in Nat /\ Record(p) \in Records /\ pub[p].part \in Parts
           /\ Record(p).part = pub[p].part /\ Record(p).msg = Msg(p)
  <1>1. pub[p] \in Request /\ pub[p].todo # <<>>
    BY DEF BaseInv, TypeOK, RequestsOK
  <1>2. pub[p].part \in Parts /\ pub[p].todo \in Seq(Nat) BY <1>1 DEF Request
  <1>3. Msg(p) \in Nat BY <1>1, <1>2 DEF Msg
  <1> QED BY <1>2, <1>3 DEF Record, Records

(* An append leaves everything but the log and the requests in it. *)
LEMMA AppendingKeeps ==
    ASSUME NEW p \in Publishers, Appending(p)
    PROVE  /\ RingsSame /\ GroupsSame
           /\ UNCHANGED <<conf, phase, next, messages, cons, managerVars>>
           /\ disturbed' = disturbed \/ disturbed' = TRUE
           /\ pub[p].pc \in {"append", "sync"}
  <1> USE DEF RingsSame, GroupsSame, server, rings, groups, counters
  <1>1. CASE AppendRecord(p) BY <1>1 DEF AppendRecord
  <1>2. CASE AppendFails(p) BY <1>2 DEF AppendFails
  <1>3. CASE RoundEnds(p) BY <1>3 DEF RoundEnds
  <1>4. CASE AppendUnwritten(p) BY <1>4 DEF AppendUnwritten
  <1>5. CASE \E o \in Publishers : WriteFailsInRound(p, o) BY <1>5 DEF WriteFailsInRound
  <1> QED BY <1>1, <1>2, <1>3, <1>4, <1>5 DEF Appending

(* A record is written, or not. *)
LEMMA LogGrows ==
    ASSUME BaseInv, NEW p \in Publishers, pub[p].pc # "idle",
           wal' \in {wal, Append(wal, Record(p))},
           flushed' = flushed \/ (flushed' = Len(wal) + 1 /\ wal' = Append(wal, Record(p))),
           fatal' \in {fatal, TRUE}, syncErr' \in {syncErr, TRUE}
    PROVE  WalOK'
  <1>1. Record(p) \in Records BY RecordTyped
  <1>2. /\ wal \in Seq(Records) /\ flushed \in 0 .. Len(wal)
        /\ fatal \in BOOLEAN /\ syncErr \in BOOLEAN
    BY DEF BaseInv, TypeOK, WalOK, Records
  <1>3. /\ Append(wal, Record(p)) \in Seq(Records)
        /\ Len(Append(wal, Record(p))) = Len(wal) + 1 /\ Len(wal) \in Nat
    BY <1>1, <1>2
  <1>4. wal' \in Seq(Records) BY <1>2, <1>3
  <1>5. flushed' \in 0 .. Len(wal') BY <1>2, <1>3
  <1>6. fatal' \in BOOLEAN /\ syncErr' \in BOOLEAN BY <1>2
  <1> QED BY <1>4, <1>5, <1>6 DEF WalOK, Records

(* The two requests of WriteFailsInRound *)
LEMMA RoundRequests ==
    ASSUME BaseInv, NEW p \in Publishers, NEW o \in Publishers, WriteFailsInRound(p, o)
    PROVE  /\ pub'[p] = NoRequest /\ NoRequest \in Request /\ pub'[p].pc = "idle"
           /\ pub'[o] \in Request /\ pub'[o].pc = "sync" /\ pub'[o].part = pub[o].part
           /\ pub'[o].how = pub[o].how /\ pub'[o].todo = pub[o].todo
           /\ pub' \in [Publishers -> Request]
           /\ \A x \in Publishers : x # p /\ x # o => pub'[x] = pub[x]
  <1>1. pub \in [Publishers -> Request] BY DEF BaseInv, TypeOK, RequestsOK
  <1>2. NoRequest \in Request /\ NoRequest.pc = "idle"
    BY EmptySeqs, ZeroInParts DEF NoRequest, Request
  <1>3. PICK r \in Request : r = pub[o] BY <1>1
  <1> DEFINE t == [r EXCEPT !.pc = "sync"]
  <1>4. /\ t \in Request /\ t.pc = "sync" /\ t.part = r.part /\ t.how = r.how
        /\ t.todo = r.todo
    BY DEF Request
  <1>5. p # o /\ pub' = [[pub EXCEPT ![p] = NoRequest] EXCEPT ![o] = t]
    BY <1>1, <1>3 DEF WriteFailsInRound
  <1> HIDE DEF t, NoRequest
  <1> QED BY <1>1, <1>2, <1>3, <1>4, <1>5

(* AppendRecord, with its outcomes *)
LEMMA AppendTyped == ASSUME BaseInv, NEW p \in Publishers, Appending(p) PROVE BaseInv'
  <1>1. /\ RingsSame /\ GroupsSame
        /\ UNCHANGED <<conf, phase, next, messages, cons, managerVars>>
        /\ disturbed' = disturbed \/ disturbed' = TRUE
        /\ pub[p].pc # "idle"
    BY AppendingKeeps
  <1>2. ServerOK' BY <1>1 DEF BaseInv, TypeOK, ServerOK
  <1>3. ASSUME WalOK', RequestsOK' PROVE BaseInv'
    BY <1>1, <1>2, <1>3, PartsKept DEF BaseInv, TypeOK
  <1>4. CASE AppendRecord(p)
    <2>1. WalOK' BY <1>1, <1>4, LogGrows DEF AppendRecord
    <2>2. Answer(p) \/ Continue(p, "ring") BY <1>4 DEF AppendRecord, Logged
    <2> QED BY <1>1, <1>3, <2>1, <2>2, AnswerTyped
  <1>5. CASE AppendFails(p)
    <2>1. WalOK' BY <1>1, <1>5, LogGrows DEF AppendFails
    <2>2. Answer(p) BY <1>5 DEF AppendFails
    <2> QED BY <1>3, <2>1, <2>2, AnswerTyped
  <1>6. CASE RoundEnds(p)
    <2>1. WalOK' BY <1>6 DEF RoundEnds, BaseInv, TypeOK, WalOK
    <2>2. Answer(p) \/ Continue(p, "ring") BY <1>6 DEF RoundEnds, Logged
    <2> QED BY <1>1, <1>3, <2>1, <2>2, AnswerTyped
  <1>7. CASE AppendUnwritten(p)
    <2>1. WalOK' BY <1>7, PartsKept DEF AppendUnwritten, log, WalSame
    <2>2. Answer(p) \/ Continue(p, "ring") BY <1>7 DEF AppendUnwritten, Logged
    <2> QED BY <1>1, <1>3, <2>1, <2>2, AnswerTyped
  <1>8. ASSUME NEW o \in Publishers, WriteFailsInRound(p, o) PROVE BaseInv'
    <2>1. pub[o].pc # "idle" BY <1>8 DEF WriteFailsInRound
    <2>2. WalOK' BY <1>8, <2>1, LogGrows DEF WriteFailsInRound
    <2>3. RequestsOK'
      BY <1>8, <2>1, RoundRequests DEF RequestsOK, BaseInv, TypeOK
    <2> QED BY <1>3, <2>2, <2>3
  <1> QED BY <1>4, <1>5, <1>6, <1>7, <1>8 DEF Appending

(* PublishToPartition: the ring shows one message more. *)
LEMMA PublishTyped ==
    ASSUME BaseInv, NEW p \in Publishers, PublishToPartition(p) PROVE BaseInv'
  <1>1. ServerSame /\ WalSame /\ GroupsSame /\ UNCHANGED <<cons, managerVars>>
    BY DEF PublishToPartition, ServerSame, WalSame, GroupsSame, server, log, groups, counters
  <1>2. pub[p].pc = "ring" BY DEF PublishToPartition
  <1>3. PICK q \in Parts, m \in Nat : q = pub[p].part /\ m = Msg(p) BY <1>2, RecordTyped
  <1>4. /\ topic' = [topic EXCEPT ![q] = Publish(@, m)]
        /\ plog' = [plog EXCEPT ![q] = Append(@, m)]
    BY <1>3 DEF PublishToPartition
  <1>5. topic \in [Parts -> Rings(Nat)] /\ plog \in [Parts -> Seq(Nat)]
    BY DEF BaseInv, TypeOK, RingsOK
  <1>6. Publish(topic[q], m) \in Rings(Nat) /\ Shows(Publish(topic[q], m), Append(plog[q], m))
    BY <1>5, PublishShows DEF BaseInv, RingShowsLast
  <1>7. RingsOK' BY <1>4, <1>5, <1>6 DEF RingsOK
  <1>8. RingShowsLast'
    <2> SUFFICES ASSUME NEW x \in Parts PROVE Shows(topic'[x], plog'[x])
      BY DEF RingShowsLast
    <2>1. CASE x = q BY <1>4, <1>5, <1>6, <2>1
    <2>2. CASE x # q BY <1>4, <1>5, <2>2 DEF BaseInv, RingShowsLast
    <2> QED BY <2>1, <2>2
  <1>9. RequestsOK' BY <1>2, AnswerTyped DEF PublishToPartition
  <1> QED BY <1>1, <1>7, <1>8, <1>9, PartsKept DEF BaseInv, TypeOK

(* notifySubs touches the notify flags only. *)
Notified(p) ==
    cons' = [c \in Consumers |->
        IF Subscribed(c, pub[p].part) THEN [cons[c] EXCEPT !.notify = TRUE] ELSE cons[c]]

(* A publisher that wakes subscribers changes nothing else of their        *)
(* sessions: where they are, what they hold, what they sent.               *)
LEMMA NotifyKeeps ==
    ASSUME BaseInv, NEW p \in Publishers, Notified(p)
    PROVE  /\ SessionsOK'
           /\ \A c \in Consumers :
                 /\ cons'[c].pc = cons[c].pc /\ cons'[c].key = cons[c].key
                 /\ cons'[c].offset = cons[c].offset /\ cons'[c].msgs = cons[c].msgs
                 /\ cons'[c].out = cons[c].out /\ cons'[c].overrun = cons[c].overrun
  <1>1. cons \in [Consumers -> Session] BY DEF BaseInv, TypeOK, SessionsOK
  <1>2. ASSUME NEW c \in Consumers
        PROVE  /\ cons'[c] \in Session
               /\ cons'[c].pc = cons[c].pc /\ cons'[c].key = cons[c].key
               /\ cons'[c].offset = cons[c].offset /\ cons'[c].msgs = cons[c].msgs
               /\ cons'[c].out = cons[c].out /\ cons'[c].overrun = cons[c].overrun
    <2>1. PICK s \in Session : s = cons[c] BY <1>1
    <2>2. cons'[c] = s \/ cons'[c] = [s EXCEPT !.notify = TRUE]
      BY <2>1 DEF Notified
    <2>3. CASE cons'[c] = s BY <2>1, <2>3
    <2>4. CASE cons'[c] = [s EXCEPT !.notify = TRUE] BY <2>1, <2>4 DEF Session
    <2> QED BY <2>2, <2>3, <2>4
  <1>3. cons' \in [Consumers -> Session] BY <1>2 DEF Notified
  <1> QED BY <1>2, <1>3 DEF BaseInv, TypeOK, SessionsOK

(* After the notification: the log of /api/publish, the answer, or the     *)
(* next message of the batch                                               *)
LEMMA NotifyTyped == ASSUME BaseInv, NEW p \in Publishers, notifySubs(p) PROVE BaseInv'
  <1>1. ServerSame /\ RingsSame /\ WalSame /\ GroupsSame /\ UNCHANGED managerVars
    BY DEF notifySubs, ServerSame, RingsSame, WalSame, GroupsSame, server, rings, log,
           groups, counters
  <1>2. SessionsOK' BY NotifyKeeps DEF notifySubs, Notified
  <1>3. pub[p].pc = "notify" BY DEF notifySubs
  <1>4. RequestsOK'
    <2>1. CASE Continue(p, "append") \/ Answer(p) BY <1>3, <2>1, AnswerTyped
    <2>2. CASE /\ Len(pub[p].todo) # 1
               /\ pub' = [pub EXCEPT ![p].pc = "append", ![p].todo = Tail(@)]
      <3>1. PICK s \in Request : s = pub[p] /\ s.todo # <<>>
        BY <1>3 DEF BaseInv, TypeOK, RequestsOK
      <3> DEFINE r == [s EXCEPT !.pc = "append", !.todo = Tail(s.todo)]
      <3>2. s.todo \in Seq(Nat) /\ Len(s.todo) # 1 BY <2>2, <3>1 DEF Request
      <3>3. Tail(s.todo) \in Seq(Nat) /\ Tail(s.todo) # <<>>
        <4>1. Len(s.todo) \in Nat \ {0} BY <3>1, <3>2, LenPositive
        <4>2. Tail(s.todo) \in Seq(Nat) /\ Len(Tail(s.todo)) = Len(s.todo) - 1 BY <3>1, <3>2
        <4>3. Len(Tail(s.todo)) # 0 BY <3>2, <4>1, <4>2
        <4> DEFINE t == Tail(s.todo)
        <4>4. Len(t) # 0 BY <4>3
        <4> HIDE DEF t
        <4>5. t # <<>> BY <4>4
        <4> QED BY <4>2, <4>5 DEF t
      <3>4. r \in Request /\ r.todo = Tail(s.todo) BY <3>3 DEF Request
      <3>5. pub' = [pub EXCEPT ![p] = r]
        BY <2>2, <3>1 DEF BaseInv, TypeOK, RequestsOK
      <3> HIDE DEF r
      <3> QED BY <3>3, <3>4, <3>5, RequestSet
    <2> QED BY <2>1, <2>2 DEF notifySubs
  <1> QED BY <1>1, <1>2, <1>4, PartsKept DEF BaseInv, TypeOK

-----------------------------------------------------------------------------
(* The consumers *)

(* Subscribe *)
LEMMA SubscribeTyped ==
    ASSUME BaseInv, NEW c \in Consumers, handleSubscribe(c) \/ ConsumeRPC(c) PROVE BaseInv'
  <1>1. conf.parts \subseteq Parts
    BY DeliveryAssumption DEF Config, BaseInv, TypeOK, ServerOK
  <1>2. PICK g \in Groups, how \in {"tcp", "grpc"}, q \in Parts :
            SubscribePartitionAt(c, g, how, q)
    BY <1>1, ZeroInParts DEF handleSubscribe, ConsumeRPC
  <1>3. ServerSame /\ RingsSame /\ WalSame /\ UNCHANGED <<pub, managerVars, sent, missed>>
    BY <1>2 DEF SubscribePartitionAt, ServerSame, RingsSame, WalSame, server, rings, log
  <1> DEFINE k == <<g, q>>
             o == IF offsets[k] = None THEN topic[q].tail ELSE offsets[k]
             s == [NoSession EXCEPT !.pc = "sub", !.how = how, !.key = k, !.offset = o]
  <1>4. k \in Keys BY DEF Keys
  <1>5. topic[q].tail \in Nat BY DEF BaseInv, TypeOK, RingsOK, Rings
  <1>6. o \in Nat BY <1>4, <1>5 DEF BaseInv, TypeOK, ManagerOK, Offsets
  <1>7. cons' = [cons EXCEPT ![c] = s] BY <1>2 DEF SubscribePartitionAt
  <1>8. base' = [base EXCEPT ![k] = topic[q].tail] \/ base' = base
    BY <1>2 DEF SubscribePartitionAt
  <1> HIDE DEF k, o
  <1>9. s \in Session /\ s.pc = "sub" /\ s.key = k
    BY <1>4, <1>6, EmptySeqs DEF NoSession, Session
  <1> HIDE DEF s
  <1>10. SessionsOK' BY <1>4, <1>7, <1>9, SessionSet
  <1>11. GroupsOK'
    BY <1>3, <1>4, <1>5, <1>8 DEF BaseInv, TypeOK, GroupsOK
  <1> QED BY <1>3, <1>10, <1>11, PartsKept DEF BaseInv, TypeOK

(* What a step of a session leaves alone *)
LEMMA ConsumeKeeps ==
    ASSUME NEW c, NEW s, Consume(c, s)
    PROVE  /\ ServerSame /\ RingsSame /\ WalSame /\ UNCHANGED <<pub, base>>
           /\ cons' = [cons EXCEPT ![c] = s]
  BY DEF Consume, ServerSame, RingsSame, WalSame, server, rings, log, counters

(* addSub, the waits of Next, and a subscriber that leaves *)
LEMMA WaitTyped ==
    ASSUME BaseInv, NEW c \in Consumers,
           addSub(c) \/ NextWait(c) \/ Wake(c) \/ Leave(c)
    PROVE  BaseInv'
  <1>1. PICK t \in Session : t = cons[c] /\ (t.pc # "idle" => t.key \in Keys)
    BY DEF BaseInv, TypeOK, SessionsOK
  <1>2. UNCHANGED <<sent, missed, managerVars>>
    BY DEF addSub, NextWait, Wake, Leave
  <1>3. ASSUME NEW s \in Session, Consume(c, s), s.pc # "idle" => s.key \in Keys,
               s.pc \notin {"send", "commit"}
        PROVE  BaseInv'
    <2>1. /\ ServerSame /\ RingsSame /\ WalSame /\ UNCHANGED <<pub, base>>
          /\ cons' = [cons EXCEPT ![c] = s]
      BY <1>3, ConsumeKeeps
    <2>2. SessionsOK' BY <1>3, <2>1, SessionSet
    <2>3. GroupsSame BY <1>2, <2>1 DEF GroupsSame
    <2> QED BY <1>2, <2>1, <2>2, <2>3, PartsKept DEF BaseInv, TypeOK
  <1>4. CASE addSub(c) \/ NextWait(c)
    <2>1. PICK x \in {"fetch", "wait"} : t.pc # "idle" /\ Consume(c, [t EXCEPT !.pc = x])
      BY <1>1, <1>4 DEF addSub, NextWait
    <2> DEFINE s == [t EXCEPT !.pc = x]
    <2>2. s \in Session /\ s.pc = x /\ s.key = t.key BY DEF Session
    <2> HIDE DEF s
    <2> QED BY <1>1, <1>3, <2>1, <2>2 DEF s
  <1>5. CASE Wake(c)
    <2> DEFINE s == [t EXCEPT !.pc = "fetch", !.notify = FALSE]
    <2>1. s \in Session /\ s.pc = "fetch" /\ s.key = t.key BY DEF Session
    <2>2. t.pc # "idle" /\ Consume(c, s) BY <1>1, <1>5 DEF Wake
    <2> HIDE DEF s
    <2> QED BY <1>1, <1>3, <2>1, <2>2
  <1>6. CASE Leave(c)
    <2>1. NoSession \in Session /\ NoSession.pc = "idle" BY EmptySeqs DEF NoSession, Session
    <2> QED BY <1>3, <1>6, <2>1 DEF Leave
  <1> QED BY <1>4, <1>5, <1>6

(* What Next reads for a session *)
LEMMA ReadFacts ==
    ASSUME BaseInv, NEW s \in Session, s.key \in Keys
    PROVE  LET q == s.key[2]
               b == From(topic[q], s.offset)
               f == Read(s)
           IN  /\ q \in Parts /\ b \in Nat /\ b >= s.offset /\ f \in Seq(Slots(Nat))
               /\ Len(f) \in Nat
               /\ \A i \in 1 .. Len(f) :
                     f[i] = [offset |-> b + i - 1, payload |-> plog[q][b + i]]
               /\ Len(f) > 0 => b + Len(f) <= Len(plog[q])
               /\ b = s.offset \/ b = topic[q].head
               /\ b = s.offset <=> Overwritten(s) = {}
               /\ Overwritten(s) \in SUBSET Nat
               /\ \A o \in s.offset .. b - 1 : plog[q][o + 1] \in Overwritten(s)
  <1> DEFINE q == s.key[2]
             t == topic[q]
             b == From(t, s.offset)
  <1>1. q \in Parts BY DEF Keys
  <1>2. t \in Rings(Nat) /\ plog[q] \in Seq(Nat) /\ Shows(t, plog[q]) /\ s.offset \in Nat
    BY <1>1 DEF BaseInv, TypeOK, RingsOK, RingShowsLast, Session
  <1>3. FetchMax \in Nat BY DeliveryAssumption
  <1>4. LET f == Fetch(t, s.offset, FetchMax)
        IN  /\ b \in Nat /\ b >= s.offset /\ f \in Seq(Slots(Nat))
            /\ \A i \in 1 .. Len(f) :
                  f[i] = [offset |-> b + i - 1, payload |-> plog[q][b + i]]
            /\ Len(f) > 0 => b + Len(f) <= Len(plog[q]) /\ b >= t.head
    BY <1>2, <1>3, FetchReads
  <1>5. t.head \in Nat /\ t.tail \in Nat /\ t.tail = Len(plog[q]) /\ t.head <= t.tail
    <2>1. t.head \in Nat /\ t.tail \in Nat BY <1>2 DEF Rings
    <2>2. t.tail = Len(plog[q]) BY <1>2 DEF Shows
    <2>3. t.head <= t.tail BY <1>2, <2>1, <2>2, CapAssumption DEF Shows
    <2> QED BY <2>1, <2>2, <2>3
  <1>6. b = IF s.offset < t.head THEN t.head ELSE s.offset BY DEF From
  <1>7. Overwritten(s) = {plog[q][o + 1] : o \in s.offset .. t.head - 1}
    BY DEF Overwritten
  <1>8. Read(s) = Fetch(t, s.offset, FetchMax) BY DEF Read
  <1> HIDE DEF b, t, q
  <1>9. \A o \in s.offset .. t.head - 1 : plog[q][o + 1] \in Nat
    <2> TAKE o \in s.offset .. t.head - 1
    <2>1. o + 1 \in 1 .. Len(plog[q]) BY <1>2, <1>5
    <2> QED BY <1>2, <2>1
  <1>10. Overwritten(s) \in SUBSET Nat BY <1>7, <1>9
  <1>11. b = s.offset <=> Overwritten(s) = {}
    <2>1. CASE s.offset < t.head
      <3>1. s.offset \in s.offset .. t.head - 1 BY <1>2, <1>5, <2>1
      <3>2. Overwritten(s) # {} BY <1>7, <3>1
      <3> QED BY <1>2, <1>5, <1>6, <2>1, <3>2
    <2>2. CASE ~ (s.offset < t.head)
      <3>1. s.offset .. t.head - 1 = {} BY <1>2, <1>5, <2>2
      <3> QED BY <1>6, <1>7, <2>2, <3>1
    <2> QED BY <2>1, <2>2
  <1>12. \A o \in s.offset .. b - 1 : plog[q][o + 1] \in Overwritten(s)
    BY <1>2, <1>5, <1>6, <1>7
  <1>13. Len(Read(s)) \in Nat BY <1>4, <1>8
  <1>14. b = s.offset \/ b = t.head BY <1>6
  <1> QED BY <1>1, <1>4, <1>8, <1>10, <1>11, <1>12, <1>13, <1>14 DEF b, t, q

(* Next, with something to read or not *)
LEMMA NextTyped == ASSUME BaseInv, NEW c \in Consumers, NextFetch(c) PROVE BaseInv'
  <1>1. PICK s \in Session : s = cons[c] /\ s.pc = "fetch" /\ s.key \in Keys
    BY DEF NextFetch, BaseInv, TypeOK, SessionsOK
  <1>2. PICK f \in Seq(Slots(Nat)) : f = Read(s) BY <1>1, ReadFacts
  <1>3. PICK ov \in SUBSET Nat : ov = Overwritten(s) BY <1>1, ReadFacts
  <1>4. s.offset + Len(f) \in Nat
    <2>1. s.offset \in Nat BY DEF Session
    <2>2. Len(f) \in Nat OBVIOUS
    <2> QED BY <2>1, <2>2
  <1> DEFINE t == IF f = <<>> THEN [s EXCEPT !.pc = "empty"]
                  ELSE [s EXCEPT !.pc = "send", !.msgs = f, !.offset = @ + Len(f),
                                 !.overrun = @ \/ ov # {}]
  <1>5. Consume(c, t) /\ missed' = [missed EXCEPT ![s.key] = @ \cup ov]
        /\ UNCHANGED <<sent, managerVars>>
    BY <1>1, <1>2, <1>3 DEF NextFetch
  <1>6. t \in Session /\ t.key = s.key /\ (t.pc = "send" => t.msgs = f /\ f # <<>>)
        /\ t.pc \in {"empty", "send"}
    <2>1. CASE f = <<>>
      <3>1. t = [s EXCEPT !.pc = "empty"] BY <2>1
      <3> HIDE DEF t
      <3> QED BY <3>1 DEF Session
    <2>2. CASE f # <<>>
      <3> DEFINE b == s.overrun \/ ov # {}
      <3>1. b \in BOOLEAN BY Zenon
      <3>2. t = [s EXCEPT !.pc = "send", !.msgs = f, !.offset = s.offset + Len(f), !.overrun = b]
        BY <2>2
      <3> HIDE DEF t, b
      <3> QED BY <1>4, <2>2, <3>1, <3>2 DEF Session
    <2> QED BY <2>1, <2>2
  <1> HIDE DEF t
  <1>7. /\ ServerSame /\ RingsSame /\ WalSame /\ UNCHANGED <<pub, base>>
        /\ cons' = [cons EXCEPT ![c] = t]
    BY <1>5, ConsumeKeeps
  <1>8. SessionsOK' BY <1>1, <1>6, <1>7, SessionSet
  <1>9. GroupsOK' BY <1>1, <1>5, <1>7 DEF BaseInv, TypeOK, GroupsOK
  <1> QED BY <1>5, <1>7, <1>8, <1>9, PartsKept DEF BaseInv, TypeOK

(* The session after one message was handed to the transport *)
AfterSend(s) ==
    [s EXCEPT !.out = Append(@, Head(s.msgs).offset),
              !.msgs = IF Len(@) = 1 THEN @ ELSE Tail(@),
              !.pc = IF Len(s.msgs) = 1 THEN "commit" ELSE "send"]

(* A send takes the first message of the batch off: the rest follow in the *)
(* same order, and after the last the offset is committed.                 *)
LEMMA AfterSendTyped ==
    ASSUME NEW s \in Session, s.pc = "send", s.msgs # <<>>
    PROVE  LET t == AfterSend(s)
           IN  /\ t \in Session /\ t.key = s.key /\ t.offset = s.offset /\ t.overrun = s.overrun
               /\ Head(s.msgs) = s.msgs[1] /\ s.msgs[1] \in Slots(Nat)
               /\ t.out = Append(s.out, s.msgs[1].offset)
               /\ Len(s.msgs) \in Nat \ {0}
               /\ Len(s.msgs) = 1 => t.pc = "commit" /\ t.msgs = s.msgs
               /\ Len(s.msgs) # 1 => /\ t.pc = "send" /\ t.msgs = Tail(s.msgs)
                                     /\ t.msgs # <<>> /\ Len(t.msgs) = Len(s.msgs) - 1
                                     /\ \A i \in 1 .. Len(t.msgs) : t.msgs[i] = s.msgs[i + 1]
  <1> DEFINE m == s.msgs
             t == AfterSend(s)
             rest == IF Len(m) = 1 THEN m ELSE Tail(m)
             x == IF Len(m) = 1 THEN "commit" ELSE "send"
             o == Append(s.out, Head(m).offset)
  <1>1. m \in Seq(Slots(Nat)) /\ s.out \in Seq(Nat) BY DEF Session
  <1>2. Len(m) \in Nat \ {0} /\ Head(m) = m[1] /\ m[1] \in Slots(Nat) BY <1>1, LenPositive
  <1>3. m[1].offset \in Nat BY <1>2 DEF Slots
  <1>4. o \in Seq(Nat) /\ o = Append(s.out, m[1].offset) BY <1>1, <1>2, <1>3
  <1>5. Len(m) # 1 => /\ Tail(m) \in Seq(Slots(Nat)) /\ Len(Tail(m)) = Len(m) - 1
                      /\ \A i \in 1 .. Len(Tail(m)) : Tail(m)[i] = m[i + 1]
    BY <1>1, <1>2
  <1>6. rest \in Seq(Slots(Nat)) BY <1>1, <1>5
  <1>7. t = [s EXCEPT !.out = o, !.msgs = rest, !.pc = x] BY DEF AfterSend
  <1>8. Len(m) # 1 => rest # <<>>
    <2> SUFFICES ASSUME Len(m) # 1 PROVE rest # <<>>
      OBVIOUS
    <2>1. Len(rest) # 0 BY <1>2, <1>5
    <2> HIDE DEF rest
    <2> QED BY <2>1
  <1>9. x \in {"commit", "send"} OBVIOUS
  <1> HIDE DEF rest, x, o, t
  <1>10. /\ t \in Session /\ t.key = s.key /\ t.offset = s.offset /\ t.overrun = s.overrun
         /\ t.out = o /\ t.msgs = rest /\ t.pc = x
    BY <1>4, <1>6, <1>7, <1>9 DEF Session
  <1> QED BY <1>1, <1>2, <1>4, <1>5, <1>8, <1>10 DEF rest, x, t

(* Send *)
LEMMA SendTyped == ASSUME BaseInv, NEW c \in Consumers, Send(c) PROVE BaseInv'
  <1>1. PICK s \in Session : s = cons[c] /\ s.pc = "send" /\ s.key \in Keys /\ s.msgs # <<>>
    BY DEF Send, BaseInv, TypeOK, SessionsOK
  <1>2. PICK t : t = AfterSend(s) OBVIOUS
  <1>3. /\ Consume(c, t) /\ UNCHANGED <<missed, managerVars>>
        /\ sent' = [sent EXCEPT ![s.key] = @ \cup {Head(s.msgs).payload}]
    BY <1>1, <1>2 DEF Send, AfterSend
  <1>4. /\ t \in Session /\ t.key = s.key /\ Head(s.msgs) \in Slots(Nat)
        /\ t.pc \in {"send", "commit"} /\ t.msgs # <<>>
        /\ t.pc = "commit" => Len(t.msgs) = 1
    BY <1>1, <1>2, AfterSendTyped
  <1>5. /\ ServerSame /\ RingsSame /\ WalSame /\ UNCHANGED <<pub, base>>
        /\ cons' = [cons EXCEPT ![c] = t]
    BY <1>3, ConsumeKeeps
  <1>6. SessionsOK' BY <1>1, <1>4, <1>5, SessionSet
  <1>7. GroupsOK'
    <2>1. Head(s.msgs).payload \in Nat BY <1>4 DEF Slots
    <2> QED BY <1>1, <1>3, <1>5, <2>1 DEF BaseInv, TypeOK, GroupsOK
  <1> QED BY <1>3, <1>5, <1>6, <1>7, PartsKept DEF BaseInv, TypeOK

(* CommitPartition, and the signal to the flusher *)
LEMMA CommitTyped == ASSUME BaseInv, NEW c \in Consumers, Commit(c) \/ Signal(c) PROVE BaseInv'
  <1>1. PICK s \in Session : s = cons[c] /\ s.pc \in {"commit", "signal"} /\ s.key \in Keys
                             /\ (s.pc = "commit" => s.msgs # <<>>)
    BY DEF Commit, Signal, BaseInv, TypeOK, SessionsOK
  <1>2. UNCHANGED <<sent, missed>> BY DEF Commit, Signal
  <1>3. CASE Commit(c)
    <2> DEFINE t == [s EXCEPT !.pc = "signal", !.msgs = <<>>]
               o == Head(s.msgs).offset + 1
    <2>1. Consume(c, t) /\ CommitPartition(s.key, o) /\ s.pc = "commit"
      BY <1>1, <1>3 DEF Commit
    <2>2. t \in Session /\ t.pc = "signal" /\ t.key = s.key BY EmptySeqs DEF Session
    <2>3. s.msgs \in Seq(Slots(Nat)) /\ s.msgs # <<>> BY <1>1, <2>1 DEF Session
    <2>4. Head(s.msgs) \in Slots(Nat) BY <2>3, LenPositive
    <2>5. o \in Nat BY <2>4 DEF Slots
    <2> HIDE DEF t, o
    <2>6. /\ ServerSame /\ RingsSame /\ WalSame /\ UNCHANGED <<pub, base>>
          /\ cons' = [cons EXCEPT ![c] = t]
      BY <2>1, ConsumeKeeps
    <2>7. SessionsOK' BY <1>1, <2>2, <2>6, SessionSet
    <2>8. ManagerOK'
      BY <1>1, <2>1, <2>5 DEF CommitPartition, BaseInv, TypeOK, ManagerOK, Offsets
    <2>9. GroupsSame BY <1>2, <2>6 DEF GroupsSame
    <2> QED BY <2>6, <2>7, <2>8, <2>9, PartsKept DEF BaseInv, TypeOK
  <1>4. CASE Signal(c)
    <2> DEFINE t == [s EXCEPT !.pc = "fetch"]
    <2>1. Consume(c, t) /\ signalDirty BY <1>1, <1>4 DEF Signal
    <2>2. t \in Session /\ t.pc = "fetch" /\ t.key = s.key BY DEF Session
    <2> HIDE DEF t
    <2>3. /\ ServerSame /\ RingsSame /\ WalSame /\ UNCHANGED <<pub, base>>
          /\ cons' = [cons EXCEPT ![c] = t]
      BY <2>1, ConsumeKeeps
    <2>4. SessionsOK' BY <1>1, <2>2, <2>3, SessionSet
    <2>5. ManagerOK' BY <2>1 DEF signalDirty, BaseInv, TypeOK, ManagerOK
    <2>6. GroupsSame BY <1>2, <2>3 DEF GroupsSame
    <2> QED BY <2>3, <2>4, <2>5, <2>6, PartsKept DEF BaseInv, TypeOK
  <1> QED BY <1>3, <1>4

-----------------------------------------------------------------------------
(* The flusher and the process *)

(* FlushLoop *)
LEMMA FlusherTyped == ASSUME BaseInv, Flusher PROVE BaseInv'
  <1>1. ServerSame /\ RingsSame /\ WalSame /\ GroupsSame /\ UNCHANGED <<pub, cons>>
    BY DEF Flusher, ServerSame, RingsSame, WalSame, GroupsSame, server, rings, log, counters,
           groups
  <1>2. ManagerOK'
    <2> USE DEF BaseInv, TypeOK, ManagerOK
    <2>1. CASE TakeSignal BY <2>1 DEF TakeSignal
    <2>2. CASE StartSave BY <2>2 DEF StartSave
    <2>3. CASE Saved BY <2>3 DEF Saved
    <2>4. CASE SaveFails BY <2>4 DEF SaveFails
    <2> QED BY <2>1, <2>2, <2>3, <2>4 DEF Flusher, FlushLoop
  <1> QED BY <1>1, <1>2, PartsKept DEF BaseInv, TypeOK

(* Every connection is gone. *)
LEMMA EndsTyped ==
    ASSUME Ends
    PROVE  /\ RequestsOK' /\ SessionsOK'
           /\ \A p \in Publishers : pub'[p].pc = "idle"
           /\ \A c \in Consumers : cons'[c] = NoSession /\ cons'[c].pc = "idle"
  <1>1. NoRequest \in Request /\ NoRequest.pc = "idle"
    BY EmptySeqs, ZeroInParts DEF NoRequest, Request
  <1>2. NoSession \in Session /\ NoSession.pc = "idle" BY EmptySeqs DEF NoSession, Session
  <1>3. RequestsOK' BY <1>1 DEF Ends, RequestsOK
  <1>4. SessionsOK' BY <1>2 DEF Ends, SessionsOK
  <1> QED BY <1>1, <1>2, <1>3, <1>4 DEF Ends

(* What is left of the log after a crash or a shutdown *)
LEMMA LogCut ==
    ASSUME BaseInv, NEW n \in flushed .. Len(wal), wal' = SubSeq(wal, 1, n), flushed' = n,
           fatal' = fatal, syncErr' = syncErr
    PROVE  WalOK' /\ (n = Len(wal) => wal' = wal)
  <1>1. /\ wal \in Seq(Records) /\ flushed \in 0 .. Len(wal) /\ fatal \in BOOLEAN
        /\ syncErr \in BOOLEAN /\ Len(wal) \in Nat
    BY DEF BaseInv, TypeOK, WalOK, Records
  <1>2. n \in Nat /\ n <= Len(wal) BY <1>1
  <1>3. SubSeq(wal, 1, n) \in Seq(Records) /\ Len(SubSeq(wal, 1, n)) = n BY <1>1, <1>2
  <1>4. n = Len(wal) => SubSeq(wal, 1, n) = wal BY <1>1
  <1> QED BY <1>1, <1>2, <1>3, <1>4 DEF WalOK, Records

(* The end of a process *)
LEMMA EndTyped == ASSUME BaseInv, Stop \/ Crash PROVE BaseInv'
  <1>1. RingsSame /\ GroupsSame /\ UNCHANGED <<conf, next, messages>>
    BY DEF Stop, Crash, RingsSame, GroupsSame, rings, groups, counters
  <1>2. RequestsOK' /\ SessionsOK' BY EndsTyped DEF Stop, Crash
  <1>3. PICK n \in flushed .. Len(wal) :
            /\ wal' = SubSeq(wal, 1, n) /\ flushed' = n
            /\ fatal' = fatal /\ syncErr' = syncErr
            /\ disturbed' = (disturbed \/ n < Len(wal))
    BY DEF Stop, Crash
  <1>4. WalOK' BY <1>3, LogCut
  <1>5. ServerOK'
    <2>1. disturbed' \in BOOLEAN BY <1>3, Zenon
    <2>2. phase' \in {"stopped", "down"} BY DEF Stop, Crash
    <2> QED BY <1>1, <2>1, <2>2 DEF BaseInv, TypeOK, ServerOK
  <1>6. ManagerOK'
    <2>1. CASE Stop BY <2>1 DEF Stop, Close, BaseInv, TypeOK, ManagerOK
    <2>2. CASE Crash BY <2>2, PartsKept DEF Crash
    <2> QED BY <2>1, <2>2
  <1> QED BY <1>1, <1>2, <1>4, <1>5, <1>6, PartsKept DEF BaseInv, TypeOK

(* A new broker replays the log into new rings and loads the offsets file. *)
LEMMA StartTyped == ASSUME BaseInv, Start PROVE BaseInv'
  <1>1. GroupsSame /\ UNCHANGED <<pub, cons, conf, messages, disturbed, wal>>
    BY DEF Start, GroupsSame, groups, counters
  <1>2. wal \in Seq(Records) /\ Len(wal) \in Nat BY DEF BaseInv, TypeOK, WalOK, Records
  <1>3. \A q \in Parts : WalOf(q) \in Seq(Nat) BY <1>2, MessagesType DEF WalOf
  <1>4. \A q \in Parts : /\ Replayed(WalOf(q)) \in Rings(Nat)
                         /\ Shows(Replayed(WalOf(q)), WalOf(q))
    BY <1>3, ReplayShows
  <1>5. /\ topic' = [q \in Parts |-> Replayed(WalOf(q))]
        /\ plog' = [q \in Parts |-> WalOf(q)]
    BY DEF Start
  <1>6. RingsOK' BY <1>3, <1>4, <1>5 DEF RingsOK
  <1>7. RingShowsLast' BY <1>4, <1>5 DEF RingShowsLast
  <1>8. WalOK'
    <2>1. wal' = wal /\ flushed' = Len(wal) /\ fatal' = FALSE /\ syncErr' = FALSE
      BY DEF Start
    <2>2. wal' \in Seq(Records) /\ Len(wal') = Len(wal) BY <1>2, <2>1
    <2>3. flushed' \in 0 .. Len(wal')
      <3> DEFINE n == Len(wal)
      <3>1. n \in Nat /\ flushed' = n /\ Len(wal') = n BY <1>2, <2>1, <2>2
      <3> HIDE DEF n
      <3> QED BY <3>1
    <2> QED BY <2>1, <2>2, <2>3 DEF WalOK, Records
  <1>9. ServerOK' BY <1>1 DEF Start, BaseInv, TypeOK, ServerOK
  <1>10. ManagerOK' BY DEF Start, Reload, BaseInv, TypeOK, ManagerOK
  <1> QED BY <1>1, <1>6, <1>7, <1>8, <1>9, <1>10, PartsKept DEF BaseInv, TypeOK

(* The phases of a shutdown *)
LEMMA PhaseTyped == ASSUME BaseInv, Sigterm \/ GrpcStopped PROVE BaseInv'
  <1>1. /\ RingsSame /\ WalSame /\ GroupsSame
        /\ UNCHANGED <<pub, cons, managerVars, conf, next, messages, disturbed>>
    BY DEF Sigterm, GrpcStopped, RingsSame, WalSame, GroupsSame, rings, log, groups, counters
  <1>2. ServerOK' BY <1>1 DEF Sigterm, GrpcStopped, BaseInv, TypeOK, ServerOK
  <1> QED BY <1>1, <1>2, PartsKept DEF BaseInv, TypeOK

(* Nothing happens. *)
LEMMA StutterTyped ==
    ASSUME BaseInv, UNCHANGED vars
    PROVE  /\ BaseInv' /\ ServerSame /\ RingsSame /\ WalSame /\ GroupsSame
           /\ UNCHANGED <<pub, cons, managerVars>>
  <1>1. /\ ServerSame /\ RingsSame /\ WalSame /\ GroupsSame
        /\ UNCHANGED <<pub, cons, managerVars>>
    BY DEF vars, ServerSame, RingsSame, WalSame, GroupsSame, server, log, counters, histories
  <1> QED BY <1>1, PartsKept DEF BaseInv, TypeOK

(* The publishers and consumers of a scenario are connections. *)
LEMMA Scenario ==
    ASSUME BaseInv
    PROVE  conf.publishers \subseteq Publishers /\ conf.consumers \subseteq Consumers
  BY DeliveryAssumption DEF BaseInv, TypeOK, ServerOK, Config

(* Every step keeps the types, and the rings show what was published. *)
LEMMA BaseStep == BaseInv /\ [Next]_vars => BaseInv'
  <1> SUFFICES ASSUME BaseInv, [Next]_vars PROVE BaseInv'
    OBVIOUS
  <1>1. ASSUME NEW p \in Publishers, Publishing(p) PROVE BaseInv'
    BY <1>1, HandlersBegin, BeginTyped, AppendTyped, PublishTyped, NotifyTyped DEF Publishing
  <1>2. ASSUME NEW c \in Consumers, Consuming(c) PROVE BaseInv'
    BY <1>2, SubscribeTyped, WaitTyped, NextTyped, SendTyped, CommitTyped DEF Consuming
  <1>3. CASE Process
    BY <1>3, PhaseTyped, EndTyped, StartTyped DEF Process
  <1> QED BY <1>1, <1>2, <1>3, FlusherTyped, StutterTyped, Scenario DEF Next

(* Types and rings hold throughout. *)
LEMMA BaseHolds == Spec => []BaseInv
  BY BaseInit, BaseStep, PTL DEF Spec

(* Type correctness of the delivery path. *)
THEOREM TypeCorrect == Spec => []TypeOK
  <1>1. BaseInv => TypeOK BY DEF BaseInv
  <1> QED BY <1>1, BaseHolds, PTL

(* For every capacity, wherever the ring has wrapped around, in every life *)
(* of the broker: Topic.Fetch finds under an offset the message that       *)
(* Topic.Publish, or the replay of the log, put there.                     *)
THEOREM RingsShowLast == Spec => []RingShowsLast
  <1>1. BaseInv => RingShowsLast BY DEF BaseInv
  <1> QED BY <1>1, BaseHolds, PTL

-----------------------------------------------------------------------------
(* The flusher *)

Running == phase \in {"up", "stopping", "tcp"}

Signalling == \E c \in Consumers : cons[c].pc = "signal"

(* A save in progress writes the offsets of its start: a commit since then *)
(* has its signal, or its committer is about to give it.                   *)
FlushInv ==
    /\ UnflushedIsPending
    /\ flusher = "save" => dirty
    /\ Running /\ flusher = "save" /\ snap # offsets => flushSignal \/ Signalling

(* At the start memory and file agree. *)
LEMMA FlushInit == Init => FlushInv
  BY DEF Init, ManagerInit, FlushInv, UnflushedIsPending, Signalling

(* What leaves the manager alone, and the committers at their signal, and  *)
(* does not bring the broker up. *)
LEMMA FlushKept ==
    ASSUME FlushInv, UNCHANGED managerVars, Running' => Running,
           Running' => \A c \in Consumers : cons[c].pc = "signal" => cons'[c].pc = "signal"
    PROVE  FlushInv'
  BY DEF FlushInv, UnflushedIsPending, Running, Signalling, managerVars

(* Every step keeps what has to be written in view of the flusher. *)
LEMMA FlushStep == BaseInv /\ BaseInv' /\ FlushInv /\ [Next]_vars => FlushInv'
  <1> SUFFICES ASSUME BaseInv, BaseInv', FlushInv, [Next]_vars PROVE FlushInv'
    OBVIOUS
  <1>0. cons \in [Consumers -> Session] BY DEF BaseInv, TypeOK, SessionsOK
  <1>1. ASSUME NEW p \in Publishers, Publishing(p) PROVE FlushInv'
    <2>1. CASE notifySubs(p)
      <3>1. \A c \in Consumers : cons'[c].pc = cons[c].pc
        BY <2>1, NotifyKeeps DEF notifySubs, Notified
      <3> QED BY <2>1, <3>1, FlushKept DEF notifySubs, server, Running
    <2>2. CASE Begins(p) \/ Appending(p) \/ PublishToPartition(p)
      BY <2>2, AppendingKeeps, FlushKept DEF Begins, Begin, PublishToPartition, server, Running
    <2> QED BY <1>1, <2>1, <2>2, HandlersBegin DEF Publishing
  <1>2. ASSUME NEW c \in Consumers, NEW s, cons[c].pc # "signal",
               cons' = [cons EXCEPT ![c] = s], UNCHANGED <<managerVars, phase>>
        PROVE  FlushInv'
    BY <1>0, <1>2, FlushKept DEF Running
  <1>3. ASSUME NEW c \in Consumers, Consuming(c) PROVE FlushInv'
    <2>1. CASE handleSubscribe(c) \/ ConsumeRPC(c)
      BY <1>2, <2>1 DEF handleSubscribe, ConsumeRPC, SubscribePartitionAt, server
    <2>2. CASE addSub(c) \/ NextFetch(c) \/ NextWait(c) \/ Wake(c) \/ Send(c) \/ Leave(c)
      BY <1>2, <2>2 DEF addSub, NextFetch, NextWait, Wake, Send, Leave, Consume, server
    <2>3. CASE Commit(c)
      <3>1. UNCHANGED phase /\ cons'[c].pc = "signal"
            /\ UNCHANGED <<file, flushSignal, dirty, flusher, snap>>
        BY <1>0, <2>3 DEF Commit, Consume, CommitPartition, server, Session
      <3> QED BY <3>1 DEF FlushInv, UnflushedIsPending, Running, Signalling
    <2>4. CASE Signal(c)
      <3>1. flushSignal' /\ UNCHANGED <<offsets, file, dirty, flusher, snap>>
        BY <2>4 DEF Signal, signalDirty
      <3> QED BY <3>1 DEF FlushInv, UnflushedIsPending
    <2> QED BY <1>3, <2>1, <2>2, <2>3, <2>4 DEF Consuming
  <1>4. CASE Flusher
    <2>1. UNCHANGED <<phase, cons, offsets>> /\ Running
      BY <1>4 DEF Flusher, FlushLoop, TakeSignal, StartSave, Saved, SaveFails, server, Running
    <2>2. flushSignal \in BOOLEAN /\ dirty \in BOOLEAN
      BY DEF BaseInv, TypeOK, ManagerOK
    <2>3. CASE TakeSignal
      BY <2>1, <2>3 DEF TakeSignal, FlushInv, UnflushedIsPending, Signalling, Running
    <2>4. CASE StartSave
      BY <2>1, <2>2, <2>4 DEF StartSave, FlushInv, UnflushedIsPending, Signalling, Running
    <2>5. CASE Saved
      BY <2>1, <2>5 DEF Saved, FlushInv, UnflushedIsPending, Signalling, Running
    <2>6. CASE SaveFails
      BY <2>1, <2>6 DEF SaveFails, FlushInv, UnflushedIsPending, Signalling, Running
    <2> QED BY <1>4, <2>3, <2>4, <2>5, <2>6 DEF Flusher, FlushLoop
  <1>5. CASE Sigterm \/ GrpcStopped
    BY <1>5, FlushKept DEF Sigterm, GrpcStopped, Running
  <1>6. CASE Stop
    BY <1>6 DEF Stop, Close, FlushInv, UnflushedIsPending, Running
  <1>7. CASE Crash
    BY <1>7, FlushKept DEF Crash, Running
  <1>8. CASE Start
    BY <1>8 DEF Start, Reload, FlushInv, UnflushedIsPending, Running
  <1>9. CASE UNCHANGED vars
    BY <1>9, StutterTyped, FlushKept DEF ServerSame, Running
  <1> QED BY <1>1, <1>3, <1>4, <1>5, <1>6, <1>7, <1>8, <1>9, Scenario DEF Next, Process

(* No commit is forgotten by the flusher (internal/consumer/manager.go):   *)
(* while memory and file differ in a running broker, a signal, the dirty   *)
(* flag or a committer on its way to signal will bring a save about.       *)
THEOREM CommitsReachTheFile == Spec => []UnflushedIsPending
  <1>1. FlushInv => UnflushedIsPending BY DEF FlushInv
  <1> QED BY <1>1, FlushInit, FlushStep, BaseHolds, PTL DEF Spec

-----------------------------------------------------------------------------
(* The order of a stream *)

(* What a session has sent is consecutive and reaches up to its cursor, or *)
(* up to the messages read and not sent yet; unless the ring overran it.   *)
InStep(s) ==
    ~ s.overrun =>
        /\ \A i \in 1 .. Len(s.out) - 1 : s.out[i + 1] = s.out[i] + 1
        /\ s.pc = "send" =>
              /\ \A i \in 1 .. Len(s.msgs) : s.msgs[i].offset + Len(s.msgs) + 1 = s.offset + i
              /\ s.out # <<>> => s.out[Len(s.out)] + Len(s.msgs) + 1 = s.offset
        /\ s.pc # "send" /\ s.out # <<>> => s.out[Len(s.out)] + 1 = s.offset

OrderInv == \A c \in Consumers : InStep(cons[c])

(* A session without output is in order. *)
LEMMA NothingSent ==
    ASSUME NEW s, s.out = <<>>, s.pc # "send" PROVE InStep(s)
  BY DEF InStep

(* A step that changes neither output nor cursor, and does not begin to    *)
(* send, keeps a session in order.                                         *)
LEMMA StillInStep ==
    ASSUME NEW s, NEW t, InStep(s), t.out = s.out, t.offset = s.offset,
           t.overrun = s.overrun,
           (t.pc = "send") = (s.pc = "send"), s.pc = "send" => t.msgs = s.msgs
    PROVE  InStep(t)
  <1> SUFFICES ASSUME ~ t.overrun PROVE InStep(t)
    BY DEF InStep
  <1> QED BY Zenon DEF InStep

(* One session moves, the others stay. *)
LEMMA OneInStep ==
    ASSUME BaseInv, OrderInv, NEW c \in Consumers, NEW t, InStep(t),
           cons' = [cons EXCEPT ![c] = t]
    PROVE  OrderInv'
  BY DEF OrderInv, BaseInv, TypeOK, SessionsOK

(* Next reads consecutive offsets from the cursor on. *)
LEMMA NextInStep ==
    ASSUME BaseInv, OrderInv, NEW c \in Consumers, NextFetch(c) PROVE OrderInv'
  <1>1. PICK s \in Session : s = cons[c] /\ s.pc = "fetch" /\ s.key \in Keys /\ InStep(s)
    BY DEF NextFetch, BaseInv, TypeOK, SessionsOK, OrderInv
  <1>2. PICK f \in Seq(Slots(Nat)), b \in Nat :
            /\ f = Read(s) /\ (b = s.offset <=> Overwritten(s) = {}) /\ Len(f) \in Nat
            /\ \A i \in 1 .. Len(f) :
                  f[i] = [offset |-> b + i - 1, payload |-> plog[s.key[2]][b + i]]
    BY <1>1, ReadFacts
  <1>3. s.offset \in Nat /\ s.out \in Seq(Nat) /\ s.overrun \in BOOLEAN BY DEF Session
  <1>4. CASE f = <<>>
    <2> DEFINE t == [s EXCEPT !.pc = "empty"]
    <2>1. cons' = [cons EXCEPT ![c] = t] BY <1>1, <1>2, <1>4 DEF NextFetch, Consume
    <2>2. t.out = s.out /\ t.offset = s.offset /\ t.overrun = s.overrun /\ t.pc = "empty"
      BY DEF Session
    <2> HIDE DEF t
    <2>3. InStep(t) BY <1>1, <2>2, StillInStep
    <2> QED BY <2>1, <2>3, OneInStep
  <1>5. CASE f # <<>>
    <2> DEFINE ov == s.overrun \/ Overwritten(s) # {}
               n == s.offset + Len(f)
               t == [s EXCEPT !.pc = "send", !.msgs = f, !.offset = n, !.overrun = ov]
    <2>1. cons' = [cons EXCEPT ![c] = t] BY <1>1, <1>2, <1>5 DEF NextFetch, Consume
    <2>2. ov = FALSE => ~ s.overrun /\ b = s.offset BY <1>2
    <2>3. n = s.offset + Len(f) OBVIOUS
    <2> HIDE DEF ov, n
    <2>4. t.out = s.out /\ t.offset = n /\ t.overrun = ov /\ t.pc = "send" /\ t.msgs = f
      BY DEF Session
    <2> HIDE DEF t
    <2>5. InStep(t)
      <3> SUFFICES ASSUME ~ ov PROVE InStep(t)
        BY <2>4 DEF InStep
      <3>1. ~ s.overrun /\ b = s.offset BY <1>2 DEF ov
      <3>2. \A i \in 1 .. Len(f) : f[i].offset + Len(f) + 1 = n + i
        <4> SUFFICES ASSUME NEW i \in 1 .. Len(f) PROVE f[i].offset + Len(f) + 1 = n + i
          OBVIOUS
        <4>1. f[i].offset = s.offset + i - 1
          <5> DEFINE y == plog[s.key[2]][b + i]
          <5>1. f[i] = [offset |-> b + i - 1, payload |-> y] BY <1>2
          <5> HIDE DEF y
          <5> QED BY <3>1, <5>1
        <4> DEFINE l == Len(f)
                   x == f[i].offset
                   o == s.offset
        <4>2. /\ l \in Nat /\ i \in Nat /\ o \in Nat /\ x = o + i - 1 /\ n = o + l
          BY <1>2, <1>3, <2>3, <4>1
        <4> HIDE DEF l, x, o
        <4>3. x + l + 1 = n + i BY <4>2
        <4> QED BY <4>3 DEF l, x
      <3>3. s.out # <<>> => s.out[Len(s.out)] + Len(f) + 1 = n
        <4> SUFFICES ASSUME s.out # <<>> PROVE s.out[Len(s.out)] + Len(f) + 1 = n
          OBVIOUS
        <4>1. Len(s.out) \in 1 .. Len(s.out) BY <1>3, LenPositive
        <4>2. s.out[Len(s.out)] \in Nat BY <1>3, <4>1
        <4>3. s.out[Len(s.out)] + 1 = s.offset BY <1>1, <3>1 DEF InStep
        <4> QED BY <1>2, <1>3, <2>3, <4>2, <4>3
      <3>4. \A i \in 1 .. Len(s.out) - 1 : s.out[i + 1] = s.out[i] + 1
        BY <1>1, <3>1 DEF InStep
      <3> QED BY <2>4, <3>2, <3>3, <3>4 DEF InStep
    <2> QED BY <2>1, <2>5, OneInStep
  <1> QED BY <1>4, <1>5

(* Send appends the next offset to the stream. *)
LEMMA SendInStep ==
    ASSUME BaseInv, OrderInv, NEW c \in Consumers, Send(c) PROVE OrderInv'
  <1>1. PICK s \in Session : /\ s = cons[c] /\ s.pc = "send" /\ s.key \in Keys
                             /\ s.msgs # <<>> /\ InStep(s)
    BY DEF Send, BaseInv, TypeOK, SessionsOK, OrderInv
  <1>2. PICK t : t = AfterSend(s) OBVIOUS
  <1>3. cons' = [cons EXCEPT ![c] = t] BY <1>1, <1>2 DEF Send, AfterSend, Consume
  <1>4. /\ t.offset = s.offset /\ t.overrun = s.overrun
        /\ s.msgs[1] \in Slots(Nat) /\ t.out = Append(s.out, s.msgs[1].offset)
        /\ Len(s.msgs) \in Nat \ {0}
        /\ Len(s.msgs) = 1 => t.pc = "commit" /\ t.msgs = s.msgs
        /\ Len(s.msgs) # 1 => /\ t.pc = "send" /\ t.msgs = Tail(s.msgs)
                              /\ t.msgs # <<>> /\ Len(t.msgs) = Len(s.msgs) - 1
                              /\ \A i \in 1 .. Len(t.msgs) : t.msgs[i] = s.msgs[i + 1]
    BY <1>1, <1>2, AfterSendTyped
  <1>5. s.offset \in Nat /\ s.out \in Seq(Nat) /\ s.msgs \in Seq(Slots(Nat)) BY DEF Session
  <1>6. InStep(t)
    <2> SUFFICES ASSUME ~ s.overrun PROVE InStep(t)
      BY <1>4 DEF InStep
    <2> DEFINE m == s.msgs
               x == s.msgs[1].offset
               n == Len(s.out)
    <2>1. /\ \A i \in 1 .. n - 1 : s.out[i + 1] = s.out[i] + 1
          /\ \A i \in 1 .. Len(m) : m[i].offset + Len(m) + 1 = s.offset + i
          /\ s.out # <<>> => s.out[n] + Len(m) + 1 = s.offset
      BY <1>1 DEF InStep
    <2>2. \A i \in 1 .. Len(m) : m[i].offset \in Nat BY <1>5, SlotAt
    <2>3. x \in Nat /\ x + Len(m) = s.offset
      <3>1. 1 \in 1 .. Len(m) BY <1>4
      <3>2. x \in Nat /\ x + Len(m) + 1 = s.offset + 1 BY <2>1, <2>2, <3>1
      <3> DEFINE l == Len(m)
                 o == s.offset
      <3>3. l \in Nat /\ o \in Nat /\ x \in Nat /\ x + l + 1 = o + 1 BY <1>4, <1>5, <3>2
      <3> HIDE DEF l, o, x
      <3>4. x \in Nat /\ x + l = o BY <3>3
      <3> QED BY <3>4 DEF l, o
    <2>4. /\ Len(t.out) = n + 1 /\ t.out[n + 1] = x /\ n \in Nat
          /\ \A i \in 1 .. n : t.out[i] = s.out[i] /\ s.out[i] \in Nat
      BY <1>4, <1>5, <2>3
    <2>5. s.out # <<>> => n \in 1 .. n /\ s.out[n] + 1 = x
      <3> SUFFICES ASSUME s.out # <<>> PROVE n \in 1 .. n /\ s.out[n] + 1 = x
        OBVIOUS
      <3>1. n \in 1 .. n BY <1>5, LenPositive
      <3>2. s.out[n] \in Nat /\ s.out[n] + Len(m) + 1 = s.offset BY <2>1, <2>4, <3>1
      <3> DEFINE l == Len(m)
                 o == s.offset
                 y == s.out[n]
      <3>3. l \in Nat /\ o \in Nat /\ y \in Nat /\ y + l + 1 = o /\ x \in Nat /\ x + l = o
        BY <1>4, <1>5, <2>3, <3>2
      <3> HIDE DEF l, o, x, y
      <3>4. y + 1 = x BY <3>3
      <3> QED BY <3>1, <3>4 DEF y
    <2>6. \A i \in 1 .. Len(t.out) - 1 : t.out[i + 1] = t.out[i] + 1
      <3> SUFFICES ASSUME NEW i \in 1 .. n PROVE t.out[i + 1] = t.out[i] + 1
        BY <2>4
      <3>1. CASE i = n
        <4>1. s.out # <<>> BY <2>4, <3>1
        <4> QED BY <2>4, <2>5, <3>1, <4>1
      <3>2. CASE i # n
        <4>1. i \in 1 .. n - 1 /\ i + 1 \in 1 .. n BY <2>4, <3>2
        <4> QED BY <2>1, <2>4, <4>1
      <3> QED BY <3>1, <3>2
    <2>7. t.out[Len(t.out)] = x BY <2>4
    <2>8. CASE Len(m) = 1
      <3>1. t.pc = "commit" /\ x + 1 = s.offset BY <1>4, <2>3, <2>8
      <3> QED BY <1>4, <2>6, <2>7, <3>1 DEF InStep
    <2>9. CASE Len(m) # 1
      <3>1. \A i \in 1 .. Len(t.msgs) : t.msgs[i].offset + Len(t.msgs) + 1 = s.offset + i
        <4> SUFFICES ASSUME NEW i \in 1 .. Len(m) - 1
                     PROVE  m[i + 1].offset + (Len(m) - 1) + 1 = s.offset + i
          BY <1>4, <2>9
        <4>1. i + 1 \in 1 .. Len(m) BY <1>4
        <4>2. m[i + 1].offset \in Nat /\ m[i + 1].offset + Len(m) + 1 = s.offset + (i + 1)
          BY <2>1, <2>2, <4>1
        <4> DEFINE l == Len(m)
                   o == s.offset
                   y == m[i + 1].offset
        <4>3. l \in Nat /\ o \in Nat /\ y \in Nat /\ i \in Nat /\ y + l + 1 = o + (i + 1)
          BY <1>4, <1>5, <4>2
        <4> HIDE DEF l, o, y
        <4>4. y + (l - 1) + 1 = o + i BY <4>3
        <4> QED BY <4>4 DEF l, o, y
      <3>2. x + Len(t.msgs) + 1 = s.offset
        <4> DEFINE l == Len(m)
                   o == s.offset
                   k == Len(t.msgs)
        <4>1. l \in Nat /\ o \in Nat /\ x \in Nat /\ k = l - 1 /\ x + l = o
          BY <1>4, <1>5, <2>3, <2>9
        <4> HIDE DEF l, o, k, x
        <4>2. x + k + 1 = o BY <4>1
        <4> QED BY <4>2 DEF l, o, k
      <3> QED BY <1>4, <2>6, <2>7, <2>9, <3>1, <3>2 DEF InStep
    <2> QED BY <2>8, <2>9
  <1> QED BY <1>3, <1>6, OneInStep

(* Every step keeps the streams in order. *)
LEMMA OrderStep == BaseInv /\ OrderInv /\ [Next]_vars => OrderInv'
  <1> SUFFICES ASSUME BaseInv, OrderInv, [Next]_vars PROVE OrderInv'
    OBVIOUS
  <1>0. /\ cons \in [Consumers -> Session]
        /\ \A c \in Consumers : cons[c].pc = "commit" => Len(cons[c].msgs) = 1
    BY DEF BaseInv, TypeOK, SessionsOK
  <1>1. NoSession.out = <<>> /\ NoSession.pc = "idle" BY DEF NoSession
  <1>2. ASSUME UNCHANGED cons PROVE OrderInv' BY <1>2 DEF OrderInv
  <1>3. ASSUME NEW p \in Publishers, Publishing(p) PROVE OrderInv'
    <2>1. CASE notifySubs(p)
      <3>1. \A c \in Consumers :
               /\ cons'[c].pc = cons[c].pc /\ cons'[c].offset = cons[c].offset
               /\ cons'[c].msgs = cons[c].msgs /\ cons'[c].out = cons[c].out
               /\ cons'[c].overrun = cons[c].overrun
        BY <2>1, NotifyKeeps DEF notifySubs, Notified
      <3>2. \A c \in Consumers : InStep(cons'[c]) BY <3>1, StillInStep DEF OrderInv
      <3> QED BY <3>2 DEF OrderInv
    <2>2. CASE Begins(p) \/ Appending(p) \/ PublishToPartition(p)
      BY <1>2, <2>2, AppendingKeeps DEF Begins, Begin, PublishToPartition
    <2> QED BY <1>3, <2>1, <2>2, HandlersBegin DEF Publishing
  <1>4. ASSUME NEW c \in Consumers, Consuming(c) PROVE OrderInv'
    <2>1. PICK s \in Session : s = cons[c] /\ InStep(s) BY <1>0 DEF OrderInv
    <2>2. CASE handleSubscribe(c) \/ ConsumeRPC(c)
      <3>1. PICK h, k, o : cons' = [cons EXCEPT ![c] =
                [NoSession EXCEPT !.pc = "sub", !.how = h, !.key = k, !.offset = o]]
        <4>1. PICK g, h, q : SubscribePartitionAt(c, g, h, q)
          BY <2>2 DEF handleSubscribe, ConsumeRPC
        <4> QED BY <4>1, Zenon DEF SubscribePartitionAt
      <3> DEFINE t == [NoSession EXCEPT !.pc = "sub", !.how = h, !.key = k, !.offset = o]
      <3>2. t.out = <<>> /\ t.pc = "sub" BY DEF NoSession
      <3> HIDE DEF t
      <3>3. InStep(t) BY <3>2, NothingSent
      <3> QED BY <3>1, <3>3, OneInStep DEF t
    <2>3. CASE Leave(c)
      BY <1>1, <2>3, NothingSent, OneInStep DEF Leave, Consume
    <2>4. CASE addSub(c) \/ NextWait(c) \/ Signal(c)
      <3>1. PICK x \in {"fetch", "wait"} :
                s.pc # "send" /\ cons' = [cons EXCEPT ![c] = [s EXCEPT !.pc = x]]
        BY <2>1, <2>4 DEF addSub, NextWait, Signal, Consume
      <3> DEFINE t == [s EXCEPT !.pc = x]
      <3>2. t.out = s.out /\ t.offset = s.offset /\ t.overrun = s.overrun /\ t.pc = x
        BY DEF Session
      <3> HIDE DEF t
      <3>3. InStep(t) BY <2>1, <3>1, <3>2, StillInStep
      <3> QED BY <3>1, <3>3, OneInStep DEF t
    <2>5. CASE Wake(c)
      <3> DEFINE t == [s EXCEPT !.pc = "fetch", !.notify = FALSE]
      <3>1. s.pc = "wait" /\ cons' = [cons EXCEPT ![c] = t]
        BY <2>1, <2>5 DEF Wake, Consume
      <3>2. t.out = s.out /\ t.offset = s.offset /\ t.overrun = s.overrun /\ t.pc = "fetch"
        BY DEF Session
      <3> HIDE DEF t
      <3>3. InStep(t) BY <2>1, <3>1, <3>2, StillInStep
      <3> QED BY <3>1, <3>3, OneInStep
    <2>6. CASE Commit(c)
      <3> DEFINE t == [s EXCEPT !.pc = "signal", !.msgs = <<>>]
      <3>1. s.pc = "commit" /\ cons' = [cons EXCEPT ![c] = t]
        BY <2>1, <2>6 DEF Commit, Consume
      <3>2. t.out = s.out /\ t.offset = s.offset /\ t.overrun = s.overrun /\ t.pc = "signal"
        BY DEF Session
      <3> HIDE DEF t
      <3>3. InStep(t) BY <2>1, <3>1, <3>2, StillInStep
      <3> QED BY <3>1, <3>3, OneInStep
    <2> QED BY <1>4, <2>2, <2>3, <2>4, <2>5, <2>6, NextInStep, SendInStep DEF Consuming
  <1>5. CASE Flusher \/ Sigterm \/ GrpcStopped \/ Start
    BY <1>2, <1>5 DEF Flusher, Sigterm, GrpcStopped, Start
  <1>6. CASE Stop \/ Crash
    <2>1. \A c \in Consumers : cons'[c] = NoSession BY <1>6, EndsTyped DEF Stop, Crash
    <2> QED BY <1>1, <2>1, NothingSent DEF OrderInv
  <1>7. CASE UNCHANGED vars BY <1>2, <1>7, StutterTyped
  <1> QED BY <1>3, <1>4, <1>5, <1>6, <1>7, Scenario DEF Next, Process

(* A stream carries consecutive offsets, each once and in order, for every *)
(* capacity and batch limit, as long as the ring did not overwrite what    *)
(* the subscriber had yet to read (Subscription.Next).                     *)
THEOREM StreamsAreOrdered == Spec => []OrderedUnlessOverrun
  <1>1. Init => OrderInv
    <2> SUFFICES ASSUME Init PROVE OrderInv
      OBVIOUS
    <2>1. NoSession.out = <<>> /\ NoSession.pc = "idle" BY DEF NoSession
    <2>2. \A c \in Consumers : cons[c] = NoSession BY DEF Init
    <2> QED BY <2>1, <2>2, NothingSent DEF OrderInv
  <1>2. OrderInv => OrderedUnlessOverrun BY DEF OrderInv, InStep, OrderedUnlessOverrun
  <1> QED BY <1>1, <1>2, OrderStep, BaseHolds, PTL DEF Spec

-----------------------------------------------------------------------------
(* The log and the rings *)

(* The prefixes of a sequence *)
LEMMA PrefixFacts ==
    ASSUME NEW s \in Seq(Nat), NEW t \in Seq(Nat)
    PROVE  IsPrefix(s, t) <=> /\ Len(s) <= Len(t)
                              /\ \A i \in 1 .. Len(s) : s[i] = t[i]
  <1>1. Len(s) \in Nat /\ Len(t) \in Nat OBVIOUS
  <1>2. SubSeq(s, 1, Len(s)) = s OBVIOUS
  <1>3. ASSUME Len(s) <= Len(t)
        PROVE  /\ SubSeq(t, 1, Len(s)) \in Seq(Nat) /\ Len(SubSeq(t, 1, Len(s))) = Len(s)
               /\ \A i \in 1 .. Len(s) : SubSeq(t, 1, Len(s))[i] = t[i]
    BY <1>1, <1>3
  <1>4. ASSUME IsPrefix(s, t)
        PROVE  Len(s) <= Len(t) /\ \A i \in 1 .. Len(s) : s[i] = t[i]
    <2> DEFINE u == SubSeq(t, 1, Len(s))
    <2>1. Len(s) <= Len(t) /\ SubSeq(s, 1, Len(s)) = u BY <1>4 DEF IsPrefix
    <2>2. \A i \in 1 .. Len(s) : u[i] = t[i] BY <1>3, <2>1
    <2> HIDE DEF u
    <2> QED BY <1>2, <2>1, <2>2
  <1>5. ASSUME Len(s) <= Len(t), \A i \in 1 .. Len(s) : s[i] = t[i]
        PROVE  IsPrefix(s, t)
    <2> DEFINE u == SubSeq(t, 1, Len(s))
    <2>1. u \in Seq(Nat) /\ Len(u) = Len(s) /\ \A i \in 1 .. Len(s) : u[i] = t[i]
      BY <1>3, <1>5
    <2> HIDE DEF u
    <2>2. u \in [1 .. Len(s) -> Nat] /\ s \in [1 .. Len(s) -> Nat]
      <3>1. \A r \in Seq(Nat) : r \in [1 .. Len(r) -> Nat] OBVIOUS
      <3> QED BY <2>1, <3>1
    <2>3. \A i \in 1 .. Len(s) : u[i] = s[i] BY <1>5, <2>1
    <2>4. u = s
      <3> DEFINE D == 1 .. Len(s)
      <3>1. u \in [D -> Nat] /\ s \in [D -> Nat] /\ \A i \in D : u[i] = s[i] BY <2>2, <2>3
      <3> HIDE DEF D
      <3> QED BY <3>1
    <2> QED BY <1>2, <1>5, <2>4 DEF u, IsPrefix
  <1> QED BY <1>4, <1>5

(* What begins with s is at least as long, and agrees with s. *)
LEMMA PrefixLongest ==
    ASSUME NEW s \in Seq(Nat), NEW t \in Seq(Nat), IsPrefix(s, t)
    PROVE  /\ Len(s) \in Nat /\ Len(t) \in Nat /\ Len(s) <= Len(t)
           /\ \A i \in 1 .. Len(s) : s[i] = t[i]
  <1>1. Len(s) \in Nat /\ Len(t) \in Nat OBVIOUS
  <1> QED BY <1>1, PrefixFacts

(* A sequence is a prefix of itself, and of what an append makes of it. *)
LEMMA PrefixAppend ==
    ASSUME NEW s \in Seq(Nat), NEW x \in Nat
    PROVE  IsPrefix(s, s) /\ IsPrefix(s, Append(s, x)) /\ Append(s, x) \in Seq(Nat)
  <1> DEFINE t == Append(s, x)
  <1>1. /\ t \in Seq(Nat) /\ Len(t) = Len(s) + 1 /\ Len(s) \in Nat
        /\ \A i \in 1 .. Len(s) : t[i] = s[i]
    OBVIOUS
  <1> HIDE DEF t
  <1>2. Len(s) <= Len(t) BY <1>1
  <1>3. IsPrefix(s, t) BY <1>1, <1>2, PrefixFacts
  <1>4. IsPrefix(s, s) BY <1>1, PrefixFacts
  <1> QED BY <1>1, <1>3, <1>4 DEF t

(* Nobody is connected to a broker that is not running. *)
QuietInv ==
    ~ Running => /\ \A p \in Publishers : pub[p].pc = "idle"
                 /\ \A c \in Consumers : cons[c].pc = "idle"

(* Every handler ends with its process. *)
LEMMA QuietStep == BaseInv /\ QuietInv /\ [Next]_vars => QuietInv'
  <1> SUFFICES ASSUME BaseInv, QuietInv, [Next]_vars PROVE QuietInv'
    OBVIOUS
  <1>1. ASSUME NEW p \in Publishers, Publishing(p) PROVE Running /\ UNCHANGED phase
    <2>1. Begins(p) \/ Appending(p) \/ PublishToPartition(p) \/ notifySubs(p)
      BY <1>1, HandlersBegin DEF Publishing
    <2> QED BY <2>1, AppendingKeeps DEF QuietInv, Begins, Begin, Serves,
            PublishToPartition, notifySubs, server, Running
  <1>2. ASSUME NEW c \in Consumers, Consuming(c) PROVE Running /\ UNCHANGED phase
    <2>1. CASE handleSubscribe(c) \/ ConsumeRPC(c)
      BY <2>1 DEF handleSubscribe, ConsumeRPC, SubscribePartitionAt, Serves, server, Running
    <2>2. CASE addSub(c) \/ NextWait(c) \/ Wake(c) \/ Leave(c) \/ Commit(c) \/ Signal(c)
      BY <2>2 DEF addSub, NextWait, Wake, Leave, Commit, Signal, Consume, server, QuietInv
    <2>3. CASE NextFetch(c) BY <2>3 DEF NextFetch, Consume, server, QuietInv
    <2>4. CASE Send(c) BY <2>4 DEF Send, Consume, server, QuietInv
    <2> QED BY <1>2, <2>1, <2>2, <2>3, <2>4 DEF Consuming
  <1>3. CASE Flusher \/ Sigterm \/ GrpcStopped \/ Start
    BY <1>3 DEF Flusher, Sigterm, GrpcStopped, Start, server, Running, QuietInv
  <1>4. CASE Stop \/ Crash
    BY <1>4, EndsTyped DEF Stop, Crash, QuietInv
  <1>5. CASE UNCHANGED vars
    BY <1>5, StutterTyped DEF ServerSame, Running, QuietInv
  <1> QED BY <1>1, <1>2, <1>3, <1>4, <1>5, Scenario DEF Next, Process, QuietInv, Running

Busy(p) == pub[p].pc # "idle"

(* The record of a request is in the log and not yet in its ring. *)
InLog(p) == pub[p].pc \in {"sync", "ring"}
Published(q) == \E p \in Publishers : InLog(p) /\ pub[p].part = q

(* Requests that do not overlap, and come with the log first: what the log *)
(* holds of a partition beyond its ring is the message of a request on its *)
(* way to the ring, or of one whose append failed and poisoned the log.    *)
AlignInv ==
    ~ disturbed =>
        /\ \A p \in Publishers : Busy(p) => pub[p].how # "http"
        /\ \A p, o \in Publishers : p # o /\ Busy(p) /\ Busy(o) => pub[p].part # pub[o].part
        /\ \A p \in Publishers : InLog(p) =>
              MessagesOf(wal, pub[p].part) = Append(plog[pub[p].part], Msg(p))
        /\ \A q \in Parts : IsPrefix(plog[q], MessagesOf(wal, q))
        /\ Running /\ ~ fatal =>
              \A q \in Parts : Published(q) \/ MessagesOf(wal, q) = plog[q]

(* What the log holds of a partition is a sequence of messages. *)
LEMMA WalTyped == ASSUME BaseInv, NEW q PROVE MessagesOf(wal, q) \in Seq(Nat) /\ wal \in Seq(Records)
  <1>1. wal \in Seq(Records) BY DEF BaseInv, TypeOK, WalOK, Records
  <1> QED BY <1>1, MessagesType

(* An empty log and empty rings *)
LEMMA AlignInit == Init => AlignInv /\ QuietInv
  <1> SUFFICES ASSUME Init PROVE AlignInv /\ QuietInv
    OBVIOUS
  <1>1. \A p \in Publishers : pub[p].pc = "idle" BY DEF Init, NoRequest
  <1>2. \A c \in Consumers : cons[c].pc = "idle" BY DEF Init, NoSession
  <1>3. \A q \in Parts : MessagesOf(wal, q) = <<>> /\ plog[q] = <<>> BY MessagesNone DEF Init
  <1>4. IsPrefix(<<>>, <<>>)
    <2>1. <<>> \in Seq(Nat) /\ 0 \in Nat OBVIOUS
    <2> QED BY <2>1, PrefixAppend
  <1>5. \A q \in Parts : IsPrefix(plog[q], MessagesOf(wal, q)) /\ MessagesOf(wal, q) = plog[q] BY <1>3, <1>4
  <1> QED BY <1>1, <1>2, <1>5 DEF AlignInv, QuietInv, Busy, InLog

(* What touches neither log, rings nor requests *)
LEMMA AlignKept ==
    ASSUME AlignInv, RingsSame, WalSame, UNCHANGED <<pub, disturbed>>, Running' => Running
    PROVE  AlignInv'
  BY DEF AlignInv, RingsSame, WalSame, Busy, InLog, Published, Msg

(* A request begins: one that overlaps, or comes over HTTP, disturbs. *)
LEMMA AlignBegin ==
    ASSUME BaseInv, AlignInv, NEW p \in Publishers, Begins(p) PROVE AlignInv'
  <1>1. PICK how \in {"tcp", "grpc", "http"}, count \in Nat \ {0}, q \in Parts :
            Begin(p, how, count, q)
    BY DEF Begins
  <1> SUFFICES ASSUME ~ disturbed' PROVE AlignInv'
    BY DEF AlignInv
  <1>2. ~ disturbed /\ how # "http"
        /\ \A o \in Publishers : Busy(o) => pub[o].part # q
    BY <1>1 DEF Begin, Busy
  <1>3. RingsSame /\ WalSame /\ UNCHANGED phase
    BY <1>1 DEF Begin, RingsSame, WalSame, server, log
  <1> DEFINE r == [pc |-> IF how = "http" THEN "ring" ELSE "append", how |-> how,
                   part |-> q, todo |-> DecodeBatchPayload(count)]
  <1>4. pub' = [pub EXCEPT ![p] = r] /\ pub[p].pc = "idle" BY <1>1 DEF Begin
  <1>5. r.pc = "append" /\ r.how = how /\ r.part = q BY <1>2
  <1> HIDE DEF r
  <1>6. pub'[p] = r /\ \A o \in Publishers : o # p => pub'[o] = pub[o]
    BY <1>4 DEF BaseInv, TypeOK, RequestsOK
  <1>7. /\ \A o \in Publishers : Busy(o)' => pub'[o].how # "http"
        /\ \A o, x \in Publishers : o # x /\ Busy(o)' /\ Busy(x)' => pub'[o].part # pub'[x].part
    BY <1>2, <1>5, <1>6 DEF AlignInv, Busy
  <1>8. \A o \in Publishers : InLog(o)' =>
            o # p /\ pub'[o] = pub[o] /\ Msg(o)' = Msg(o) /\ InLog(o)
    BY <1>5, <1>6 DEF Msg, InLog
  <1>9. \A x : MessagesOf(wal', x) = MessagesOf(wal, x) BY <1>3 DEF WalSame
  <1>10. \A x : Published(x)' = Published(x)
    BY <1>4, <1>5, <1>6 DEF Published, InLog
  <1>11. \A o \in Publishers : InLog(o)' =>
            MessagesOf(wal', pub'[o].part) = Append(plog'[pub'[o].part], Msg(o)')
    BY <1>2, <1>3, <1>8, <1>9 DEF AlignInv, RingsSame
  <1>12. \A x \in Parts : IsPrefix(plog'[x], MessagesOf(wal', x))
    BY <1>2, <1>3, <1>9 DEF AlignInv, RingsSame
  <1>13. Running' /\ ~ fatal' => \A x \in Parts : Published(x)' \/ MessagesOf(wal', x) = plog'[x]
    BY <1>2, <1>3, <1>9, <1>10 DEF AlignInv, RingsSame, WalSame, Running
  <1> QED BY <1>7, <1>11, <1>12, <1>13 DEF AlignInv

(* The log has one record more. *)
LEMMA WalGains ==
    ASSUME BaseInv, NEW p \in Publishers, Busy(p), wal' = Append(wal, Record(p))
    PROVE  /\ MessagesOf(wal', pub[p].part) = Append(MessagesOf(wal, pub[p].part), Msg(p))
           /\ \A q : q # pub[p].part => MessagesOf(wal', q) = MessagesOf(wal, q)
  <1>1. /\ Record(p) \in Records /\ Record(p).part = pub[p].part /\ Record(p).msg = Msg(p)
        /\ wal \in Seq(Records)
    BY RecordTyped, WalTyped DEF Busy
  <1>2. \A q : MessagesOf(Append(wal, Record(p)), q)
                  = IF Record(p).part = q THEN Append(MessagesOf(wal, q), Record(p).msg)
                    ELSE MessagesOf(wal, q)
    BY <1>1, MessagesAppend
  <1> QED BY <1>1, <1>2

(* The log was aligned with the ring of a request that is about to log: a  *)
(* record is written for it, and the others stay as they were, or give up. *)
LEMMA AlignLogged ==
    ASSUME BaseInv, QuietInv, AlignInv, ~ disturbed, NEW p \in Publishers, pub[p].pc = "append",
           ~ fatal, wal' = Append(wal, Record(p)), RingsSame, UNCHANGED <<phase, disturbed>>,
           InLog(p)', pub'[p].part = pub[p].part, pub'[p].how = pub[p].how,
           pub'[p].todo = pub[p].todo,
           \A o \in Publishers : o # p =>
              pub'[o] = pub[o] \/ (pub[o].pc = "append" /\ pub'[o].pc = "idle")
    PROVE  AlignInv'
  <1>1. Busy(p) /\ Running BY DEF Busy, QuietInv
  <1>2. PICK q \in Parts, m \in Nat : q = pub[p].part /\ m = Msg(p)
    BY <1>1, RecordTyped DEF Busy
  <1>3. ~ Published(q) BY <1>1, <1>2 DEF AlignInv, Published, InLog, Busy
  <1>4. MessagesOf(wal, q) = plog[q] BY <1>1, <1>3 DEF AlignInv
  <1>5. plog[q] \in Seq(Nat) BY DEF BaseInv, TypeOK, RingsOK
  <1>6. \A o \in Publishers : o # p /\ Busy(o) => pub[o].part # q
    BY <1>1, <1>2 DEF AlignInv
  <1>7. /\ MessagesOf(wal', q) = Append(plog[q], m)
        /\ \A x : x # q => MessagesOf(wal', x) = MessagesOf(wal, x)
    BY <1>1, <1>2, <1>4, WalGains
  <1>8. /\ \A o \in Publishers : Busy(o)' => pub'[o].how # "http"
        /\ \A o, x \in Publishers : o # x /\ Busy(o)' /\ Busy(x)' => pub'[o].part # pub'[x].part
    BY <1>1 DEF AlignInv, Busy
  <1>9. ASSUME NEW o \in Publishers, InLog(o)'
        PROVE  MessagesOf(wal', pub'[o].part) = Append(plog'[pub'[o].part], Msg(o)')
    <2>1. CASE o = p
      <3>1. Msg(o)' = m BY <1>2, <2>1 DEF Msg
      <3> QED BY <1>2, <1>7, <2>1, <3>1 DEF RingsSame
    <2>2. CASE o # p
      <3>1. pub'[o] = pub[o] /\ Busy(o) /\ InLog(o) BY <1>9, <2>2 DEF Busy, InLog
      <3>2. pub[o].part # q /\ Msg(o)' = Msg(o) BY <1>6, <2>2, <3>1 DEF Msg
      <3> QED BY <1>7, <3>1, <3>2 DEF AlignInv, RingsSame
    <2> QED BY <2>1, <2>2
  <1>10. ASSUME NEW x \in Parts
         PROVE  IsPrefix(plog'[x], MessagesOf(wal', x)) /\ (Published(x)' \/ MessagesOf(wal', x) = plog'[x])
    <2>1. CASE x = q
      <3>1. Published(q)' BY <1>2 DEF Published
      <3>2. IsPrefix(plog[q], Append(plog[q], m)) BY <1>5, PrefixAppend
      <3> QED BY <1>7, <2>1, <3>1, <3>2 DEF RingsSame
    <2>2. CASE x # q
      <3>1. IsPrefix(plog[x], MessagesOf(wal, x)) /\ (Published(x) \/ MessagesOf(wal, x) = plog[x])
        BY <1>1 DEF AlignInv
      <3>2. Published(x) => Published(x)' BY DEF Published, InLog
      <3> QED BY <1>7, <2>2, <3>1, <3>2 DEF RingsSame
    <2> QED BY <2>1, <2>2
  <1> QED BY <1>8, <1>9, <1>10 DEF AlignInv

(* An append that fails leaves the log ahead of its ring, or as it was. *)
LEMMA AlignFails ==
    ASSUME BaseInv, QuietInv, AlignInv, ~ disturbed, NEW p \in Publishers, AppendFails(p)
    PROVE  AlignInv'
  <1>1. /\ RingsSame /\ UNCHANGED <<phase, disturbed>> /\ pub[p].pc = "append" /\ Busy(p)
        /\ Running
    BY DEF AppendFails, RingsSame, rings, server, Busy, QuietInv
  <1>2. PICK q \in Parts, m \in Nat : q = pub[p].part /\ m = Msg(p)
    BY <1>1, RecordTyped DEF Busy
  <1>3. pub \in [Publishers -> Request] BY DEF BaseInv, TypeOK, RequestsOK
  <1>4. \A o \in Publishers : o # p => pub'[o] = pub[o]
    BY <1>3 DEF AppendFails, Answer
  <1>5. ~ Published(q) BY <1>1, <1>2 DEF AlignInv, Published, InLog, Busy
  <1>6. ~ fatal => MessagesOf(wal, q) = plog[q] BY <1>1, <1>5 DEF AlignInv
  <1>7. plog[q] \in Seq(Nat) BY DEF BaseInv, TypeOK, RingsOK
  <1>8. \A o \in Publishers : o # p /\ Busy(o) => pub[o].part # q
    BY <1>1, <1>2 DEF AlignInv
  <1>9. pub'[p].pc = "idle" BY <1>3 DEF AppendFails, Answer, NoRequest
  <1>10. fatal' BY DEF AppendFails
  <1>11. wal' = wal \/ (~ fatal /\ wal' = Append(wal, Record(p))) BY DEF AppendFails
  <1>12. /\ MessagesOf(wal', q) = MessagesOf(wal, q) \/ MessagesOf(wal', q) = Append(plog[q], m)
         /\ \A x : x # q => MessagesOf(wal', x) = MessagesOf(wal, x)
    BY <1>1, <1>2, <1>6, <1>11, WalGains
  <1>13. /\ \A o \in Publishers : Busy(o)' => pub'[o].how # "http"
         /\ \A o, x \in Publishers : o # x /\ Busy(o)' /\ Busy(x)' => pub'[o].part # pub'[x].part
    BY <1>1, <1>4, <1>9 DEF AlignInv, Busy
  <1>14. ASSUME NEW o \in Publishers, InLog(o)'
         PROVE  MessagesOf(wal', pub'[o].part) = Append(plog'[pub'[o].part], Msg(o)')
    <2>1. o # p /\ pub'[o] = pub[o] /\ Busy(o) /\ InLog(o)
      BY <1>4, <1>9, <1>14 DEF Busy, InLog
    <2>2. pub[o].part # q /\ Msg(o)' = Msg(o) BY <1>8, <2>1 DEF Msg
    <2> QED BY <1>1, <1>12, <2>1, <2>2 DEF AlignInv, RingsSame
  <1>15. ASSUME NEW x \in Parts PROVE IsPrefix(plog'[x], MessagesOf(wal', x))
    <2>1. IsPrefix(plog[x], MessagesOf(wal, x)) BY <1>1 DEF AlignInv
    <2>2. IsPrefix(plog[q], Append(plog[q], m)) BY <1>7, PrefixAppend
    <2> QED BY <1>1, <1>12, <2>1, <2>2 DEF RingsSame
  <1> QED BY <1>10, <1>13, <1>14, <1>15 DEF AlignInv

(* The outcomes of an append: written, failed, written while another       *)
(* poisons the log, the end of that round, or answered unwritten, which    *)
(* disturbs.                                                               *)
LEMMA AlignAppend ==
    ASSUME BaseInv, QuietInv, AlignInv, NEW p \in Publishers, Appending(p) PROVE AlignInv'
  <1> SUFFICES ASSUME ~ disturbed' PROVE AlignInv'
    BY DEF AlignInv
  <1>1. /\ RingsSame /\ UNCHANGED phase /\ ~ disturbed /\ disturbed' = disturbed /\ Busy(p)
    BY AppendingKeeps DEF Busy, BaseInv, TypeOK, ServerOK
  <1>2. pub[p].how # "http" /\ pub \in [Publishers -> Request]
    BY <1>1 DEF AlignInv, BaseInv, TypeOK, RequestsOK
  <1>3. PICK r \in Request : r = pub[p] BY <1>2
  <1>4. ASSUME Logged(p)
        PROVE  /\ pub'[p].pc = "ring" /\ pub'[p].part = pub[p].part
               /\ pub'[p].how = pub[p].how /\ pub'[p].todo = pub[p].todo
               /\ \A o \in Publishers : o # p => pub'[o] = pub[o]
    <2>1. pub' = [pub EXCEPT ![p] = [r EXCEPT !.pc = "ring"]]
      BY <1>2, <1>3, <1>4 DEF Logged, Continue
    <2> QED BY <1>2, <1>3, <2>1 DEF Request
  <1>5. CASE AppendRecord(p)
    <2>1. /\ pub[p].pc = "append" /\ ~ fatal /\ wal' = Append(wal, Record(p)) /\ Logged(p)
      BY <1>5 DEF AppendRecord
    <2>2. InLog(p)' BY <1>4, <2>1 DEF InLog
    <2> QED BY <1>1, <1>4, <2>1, <2>2, AlignLogged
  <1>6. CASE AppendFails(p) BY <1>1, <1>6, AlignFails
  <1>7. CASE RoundEnds(p)
    <2>1. /\ pub[p].pc = "sync" /\ UNCHANGED <<wal, fatal>> /\ Logged(p)
      BY <1>7 DEF RoundEnds
    <2>2. /\ \A o \in Publishers : InLog(o)' = InLog(o) /\ Busy(o)' = Busy(o)
          /\ \A o \in Publishers : pub'[o].part = pub[o].part /\ pub'[o].how = pub[o].how
                                   /\ Msg(o)' = Msg(o)
      BY <1>4, <2>1 DEF InLog, Busy, Msg
    <2>3. \A x : Published(x)' = Published(x) BY <2>2 DEF Published
    <2>4. \A x : MessagesOf(wal', x) = MessagesOf(wal, x) BY <2>1
    <2> QED BY <1>1, <2>1, <2>2, <2>3, <2>4 DEF AlignInv, RingsSame, Running
  <1>8. CASE AppendUnwritten(p) BY <1>8 DEF AppendUnwritten
  <1>9. ASSUME NEW o \in Publishers, WriteFailsInRound(p, o) PROVE AlignInv'
    <2>1. /\ pub[o].pc = "append" /\ pub[p].pc = "append" /\ ~ fatal
          /\ wal' = Append(wal, Record(o))
      BY <1>9 DEF WriteFailsInRound
    <2>2. /\ pub'[p].pc = "idle" /\ InLog(o)' /\ pub'[o].part = pub[o].part
          /\ pub'[o].how = pub[o].how /\ pub'[o].todo = pub[o].todo
          /\ \A x \in Publishers : x # p /\ x # o => pub'[x] = pub[x]
      BY <1>9, RoundRequests DEF InLog
    <2>3. \A x \in Publishers : x # o =>
             pub'[x] = pub[x] \/ (pub[x].pc = "append" /\ pub'[x].pc = "idle")
      BY <2>1, <2>2
    <2> QED BY <1>1, <2>1, <2>2, <2>3, AlignLogged
  <1> QED BY <1>5, <1>6, <1>7, <1>8, <1>9 DEF Appending

(* The ring catches up with the log. *)
LEMMA AlignPublish ==
    ASSUME BaseInv, AlignInv, NEW p \in Publishers, PublishToPartition(p) PROVE AlignInv'
  <1> SUFFICES ASSUME ~ disturbed' PROVE AlignInv'
    BY DEF AlignInv
  <1>1. /\ WalSame /\ UNCHANGED <<phase, disturbed>> /\ pub[p].pc = "ring" /\ Busy(p)
        /\ ~ disturbed
    BY DEF PublishToPartition, WalSame, log, server, Busy
  <1>2. PICK q \in Parts, m \in Nat : q = pub[p].part /\ m = Msg(p)
    BY <1>1, RecordTyped DEF Busy
  <1>3. pub \in [Publishers -> Request] /\ plog \in [Parts -> Seq(Nat)]
    BY DEF BaseInv, TypeOK, RequestsOK, RingsOK
  <1>4. /\ pub'[p].pc = "notify" /\ pub'[p].part = q /\ pub'[p].how = pub[p].how
        /\ \A o \in Publishers : o # p => pub'[o] = pub[o]
    <2>1. PICK r \in Request : r = pub[p] BY <1>3
    <2>2. pub' = [pub EXCEPT ![p] = [r EXCEPT !.pc = "notify"]]
      BY <1>3, <2>1 DEF PublishToPartition, Continue
    <2> QED BY <1>2, <1>3, <2>1, <2>2 DEF Request
  <1>5. plog'[q] = Append(plog[q], m) /\ \A x \in Parts : x # q => plog'[x] = plog[x]
    BY <1>2, <1>3 DEF PublishToPartition
  <1>6. \A x : MessagesOf(wal', x) = MessagesOf(wal, x) BY <1>1 DEF WalSame
  <1>7. MessagesOf(wal, q) = Append(plog[q], m) BY <1>1, <1>2 DEF AlignInv, InLog
  <1>8. plog'[q] = MessagesOf(wal', q) /\ IsPrefix(plog'[q], MessagesOf(wal', q))
    <2>1. Append(plog[q], m) \in Seq(Nat) BY <1>3, PrefixAppend
    <2>2. IsPrefix(Append(plog[q], m), Append(plog[q], m))
      <3> DEFINE s == Append(plog[q], m)
      <3> HIDE DEF s
      <3> QED BY <2>1, PrefixAppend DEF s
    <2> QED BY <1>5, <1>6, <1>7, <2>2
  <1>9. \A o \in Publishers : o # p /\ Busy(o) => pub[o].part # q
    BY <1>1, <1>2 DEF AlignInv
  <1>10. /\ \A o \in Publishers : Busy(o)' => pub'[o].how # "http"
         /\ \A o, x \in Publishers : o # x /\ Busy(o)' /\ Busy(x)' => pub'[o].part # pub'[x].part
    BY <1>1, <1>2, <1>4 DEF AlignInv, Busy
  <1>11. ASSUME NEW o \in Publishers, InLog(o)'
         PROVE  MessagesOf(wal', pub'[o].part) = Append(plog'[pub'[o].part], Msg(o)')
    <2>1. o # p /\ pub'[o] = pub[o] /\ Busy(o) /\ InLog(o)
      BY <1>4, <1>11 DEF Busy, InLog
    <2>2. pub[o].part # q /\ pub[o].part \in Parts /\ Msg(o)' = Msg(o)
      BY <1>9, <2>1, RecordTyped DEF Msg, Busy
    <2> QED BY <1>1, <1>5, <1>6, <2>1, <2>2 DEF AlignInv
  <1>12. ASSUME NEW x \in Parts
         PROVE  /\ IsPrefix(plog'[x], MessagesOf(wal', x))
                /\ Running' /\ ~ fatal' => Published(x)' \/ MessagesOf(wal', x) = plog'[x]
    <2>1. CASE x = q BY <1>8, <2>1
    <2>2. CASE x # q
      <3>1. Published(x) => Published(x)' BY <1>2, <1>4, <2>2 DEF Published, InLog
      <3> QED BY <1>1, <1>5, <1>6, <2>2, <3>1 DEF AlignInv, WalSame, Running
    <2> QED BY <2>1, <2>2
  <1> QED BY <1>10, <1>11, <1>12 DEF AlignInv

(* The request goes on to its next message, or ends. *)
LEMMA AlignNotify ==
    ASSUME BaseInv, AlignInv, NEW p \in Publishers, notifySubs(p) PROVE AlignInv'
  <1> SUFFICES ASSUME ~ disturbed' PROVE AlignInv'
    BY DEF AlignInv
  <1>1. /\ WalSame /\ RingsSame /\ UNCHANGED <<phase, disturbed>> /\ pub[p].pc = "notify"
        /\ Busy(p) /\ ~ disturbed
    BY DEF notifySubs, WalSame, RingsSame, log, rings, server, Busy
  <1>2. pub \in [Publishers -> Request] /\ pub[p].how # "http"
    BY <1>1 DEF BaseInv, TypeOK, RequestsOK, AlignInv
  <1>3. /\ \A o \in Publishers : o # p => pub'[o] = pub[o]
        /\ ~ InLog(p)'
        /\ Busy(p)' => pub'[p].part = pub[p].part /\ pub'[p].how = pub[p].how
    <2>1. PICK r \in Request : r = pub[p] BY <1>2
    <2>2. CASE Answer(p) BY <1>2, <2>2 DEF Answer, NoRequest, Busy, InLog
    <2>3. CASE pub' = [pub EXCEPT ![p].pc = "append", ![p].todo = Tail(@)]
      <3>1. pub' = [pub EXCEPT ![p] = [r EXCEPT !.pc = "append", !.todo = Tail(r.todo)]]
        BY <1>2, <2>1, <2>3
      <3> DEFINE s == [r EXCEPT !.pc = "append", !.todo = Tail(r.todo)]
      <3>2. s.pc = "append" /\ s.part = r.part /\ s.how = r.how BY DEF Request
      <3> HIDE DEF s
      <3> QED BY <1>2, <2>1, <3>1, <3>2 DEF s, InLog
    <2> QED BY <1>2, <2>2, <2>3 DEF notifySubs
  <1>4. /\ \A o \in Publishers : Busy(o)' => pub'[o].how # "http"
        /\ \A o, x \in Publishers : o # x /\ Busy(o)' /\ Busy(x)' => pub'[o].part # pub'[x].part
    BY <1>1, <1>2, <1>3 DEF AlignInv, Busy
  <1>5. \A x : MessagesOf(wal', x) = MessagesOf(wal, x) BY <1>1 DEF WalSame
  <1>6. ASSUME NEW o \in Publishers, InLog(o)'
        PROVE  MessagesOf(wal', pub'[o].part) = Append(plog'[pub'[o].part], Msg(o)')
    <2>1. pub'[o] = pub[o] /\ InLog(o) /\ Msg(o)' = Msg(o)
      BY <1>3, <1>6 DEF Msg, InLog
    <2> QED BY <1>1, <1>5, <2>1 DEF AlignInv, RingsSame
  <1>7. \A x : Published(x) => Published(x)' BY <1>1, <1>3 DEF Published, InLog
  <1> QED BY <1>1, <1>4, <1>5, <1>6, <1>7 DEF AlignInv, RingsSame, WalSame, Running

(* A process that ends without losing a record leaves log and rings.       *)
LEMMA AlignEnd == ASSUME BaseInv, AlignInv, Stop \/ Crash PROVE AlignInv'
  <1>1. PICK n \in flushed .. Len(wal) :
            /\ wal' = SubSeq(wal, 1, n) /\ flushed' = n
            /\ fatal' = fatal /\ syncErr' = syncErr
            /\ disturbed' = (disturbed \/ n < Len(wal))
    BY DEF Stop, Crash
  <1> SUFFICES ASSUME ~ disturbed' PROVE AlignInv'
    BY DEF AlignInv
  <1>2. flushed \in Nat /\ Len(wal) \in Nat BY DEF BaseInv, TypeOK, WalOK
  <1>3. ~ disturbed /\ n = Len(wal)
    <2>1. ~ disturbed /\ ~ (n < Len(wal)) BY <1>1
    <2> QED BY <1>2, <2>1
  <1>4. wal' = wal BY <1>1, <1>3, LogCut
  <1>5. \A x : MessagesOf(wal', x) = MessagesOf(wal, x) BY <1>4
  <1>6. UNCHANGED plog /\ ~ Running' BY DEF Stop, Crash, rings, Running
  <1>7. \A p \in Publishers : pub'[p].pc = "idle" BY EndsTyped DEF Stop, Crash
  <1> QED BY <1>3, <1>5, <1>6, <1>7 DEF AlignInv, Busy, InLog

(* The replay makes the rings what the log is. *)
LEMMA AlignStart == ASSUME BaseInv, QuietInv, AlignInv, Start PROVE AlignInv'
  <1>1. \A p \in Publishers : pub'[p].pc = "idle" BY DEF Start, QuietInv, Running
  <1>2. \A q : MessagesOf(wal', q) = MessagesOf(wal, q) BY DEF Start
  <1>3. \A q \in Parts : plog'[q] = MessagesOf(wal, q) BY DEF Start, WalOf
  <1>4. \A q \in Parts : IsPrefix(MessagesOf(wal, q), MessagesOf(wal, q))
    <2>1. 0 \in Nat OBVIOUS
    <2> QED BY <2>1, WalTyped, PrefixAppend
  <1> QED BY <1>1, <1>2, <1>3, <1>4 DEF AlignInv, Busy, InLog

(* Every step keeps log and rings aligned. *)
LEMMA AlignStep == BaseInv /\ QuietInv /\ AlignInv /\ [Next]_vars => AlignInv'
  <1> SUFFICES ASSUME BaseInv, QuietInv, AlignInv, [Next]_vars PROVE AlignInv'
    OBVIOUS
  <1>1. ASSUME NEW p \in Publishers, Publishing(p) PROVE AlignInv'
    BY <1>1, HandlersBegin, AlignBegin, AlignAppend, AlignPublish, AlignNotify DEF Publishing
  <1>2. ASSUME NEW c \in Consumers, Consuming(c) PROVE AlignInv'
    <2>1. RingsSame /\ WalSame /\ UNCHANGED <<pub, disturbed, phase>>
      <3>1. CASE handleSubscribe(c) \/ ConsumeRPC(c)
        BY <3>1 DEF handleSubscribe, ConsumeRPC, SubscribePartitionAt, RingsSame, WalSame,
           rings, log, server
      <3>2. CASE \E s : Consume(c, s)
        BY <3>2, ConsumeKeeps DEF ServerSame
      <3>3. ASSUME ~ (handleSubscribe(c) \/ ConsumeRPC(c)) PROVE \E s : Consume(c, s)
        BY <1>2, <3>3, Zenon DEF Consuming, addSub, NextFetch, NextWait, Wake, Send, Leave,
           Commit, Signal
      <3> QED BY <3>1, <3>2, <3>3
    <2> QED BY <2>1, AlignKept DEF Running
  <1>3. CASE Flusher \/ Sigterm \/ GrpcStopped
    BY <1>3, AlignKept DEF Flusher, Sigterm, GrpcStopped, RingsSame, WalSame, rings, log,
       server, Running
  <1>4. CASE UNCHANGED vars BY <1>4, StutterTyped, AlignKept DEF ServerSame, Running
  <1> QED BY <1>1, <1>2, <1>3, <1>4, AlignEnd, AlignStart, Scenario DEF Next, Process

(* Alignment holds throughout. *)
LEMMA AlignHolds == Spec => [](BaseInv /\ QuietInv /\ AlignInv)
  BY AlignInit, AlignStep, QuietStep, BaseInit, BaseStep, PTL DEF Spec

(* The log is ahead of the rings, never behind or beside them: with the    *)
(* log written first and poisoned by the first failure, a replay gives     *)
(* every message of every partition the offset it has now, across failed   *)
(* appends, batches cut short, restarts and shutdowns, for any number of   *)
(* connections, as long as no two requests overlap in a partition, none    *)
(* comes over HTTP, no crash loses records and no append is answered       *)
(* unwritten, which a poisoned log does once the round that was under way  *)
(* when it was poisoned has cleared its error (wal.go:271).                *)
THEOREM ReplayKeepsOffsets == Spec => []RingFollowsWal
  <1>1. AlignInv => RingFollowsWal BY DEF AlignInv, RingFollowsWal, WalOf
  <1> QED BY <1>1, AlignHolds, PTL

(* A shutdown in the order of main: the offsets were saved last, and when  *)
(* no save failed the file holds them.                                     *)
StopInv == phase = "stopped" /\ saveErrors = 0 => file = offsets

(* Nothing touches the offsets of a broker that is stopped. *)
LEMMA StopStep == BaseInv /\ QuietInv /\ StopInv /\ [Next]_vars => StopInv'
  <1> SUFFICES ASSUME BaseInv, QuietInv, StopInv, [Next]_vars PROVE StopInv'
    OBVIOUS
  <1>1. ASSUME phase' # "stopped" PROVE StopInv' BY <1>1 DEF StopInv
  <1>2. ASSUME NEW p \in Publishers, Publishing(p) PROVE StopInv'
    <2>1. Begins(p) \/ Appending(p) \/ PublishToPartition(p) \/ notifySubs(p)
      BY <1>2, HandlersBegin DEF Publishing
    <2> QED BY <2>1, AppendingKeeps DEF StopInv, Begins, Begin,
            PublishToPartition, notifySubs, server, managerVars
  <1>3. ASSUME NEW c \in Consumers, Consuming(c) PROVE StopInv'
    <2>1. CASE handleSubscribe(c) \/ ConsumeRPC(c)
      BY <2>1 DEF handleSubscribe, ConsumeRPC, SubscribePartitionAt, StopInv, server,
         managerVars
    <2>2. CASE addSub(c) \/ NextWait(c) \/ Wake(c) \/ Leave(c)
      BY <2>2 DEF addSub, NextWait, Wake, Leave, Consume, StopInv, server, managerVars
    <2>3. CASE NextFetch(c) BY <2>3 DEF NextFetch, Consume, StopInv, server, managerVars
    <2>4. CASE Send(c) BY <2>4 DEF Send, Consume, StopInv, server, managerVars
    <2>5. CASE Commit(c) \/ Signal(c)
      BY <2>5, <1>1 DEF Commit, Signal, Consume, server, QuietInv, Running
    <2> QED BY <1>3, <2>1, <2>2, <2>3, <2>4, <2>5 DEF Consuming
  <1>4. CASE Flusher \/ Sigterm \/ GrpcStopped \/ Start \/ Crash
    BY <1>1, <1>4 DEF Flusher, Sigterm, GrpcStopped, Start, Crash, server
  <1>5. CASE Stop
    <2>1. saveErrors \in Nat BY DEF BaseInv, TypeOK, ManagerOK
    <2>2. UNCHANGED offsets /\ (file' = offsets \/ saveErrors' = saveErrors + 1)
      BY <1>5 DEF Stop, Close
    <2> QED BY <2>1, <2>2 DEF StopInv
  <1>6. CASE UNCHANGED vars
    BY <1>6, StutterTyped DEF ServerSame, StopInv, managerVars
  <1> QED BY <1>2, <1>3, <1>4, <1>5, <1>6, Scenario DEF Next, Process

(* A shutdown in the order of main (gRPC and HTTP, TCP, the log, the       *)
(* offsets) loses nothing in any sync mode: the next start finds the       *)
(* committed offsets, if no save failed, and every message under its       *)
(* offset, unless log and rings had parted before: requests overlapped,    *)
(* one came over HTTP, or an append was answered unwritten.                *)
THEOREM CleanStop == Spec => CleanStopKeepsAll
  <1>1. Init => StopInv BY DEF Init, StopInv
  <1>2. /\ BaseInv /\ QuietInv /\ AlignInv /\ StopInv /\ [Next]_vars
        => [phase = "stopped" /\ phase' = "up" /\ saveErrors = 0 /\ ~ disturbed =>
              /\ offsets' = offsets
              /\ \A q \in Parts : IsPrefix(plog[q], plog'[q])]_vars
    <2> SUFFICES ASSUME BaseInv, QuietInv, AlignInv, StopInv, Next,
                        phase = "stopped", phase' = "up", saveErrors = 0, ~ disturbed
                 PROVE  /\ offsets' = offsets
                        /\ \A q \in Parts : IsPrefix(plog[q], plog'[q])
      OBVIOUS
    <2>1. ASSUME NEW p \in Publishers, Publishing(p) PROVE FALSE
      <3>1. Begins(p) \/ Appending(p) \/ PublishToPartition(p) \/ notifySubs(p)
        BY <2>1, HandlersBegin DEF Publishing
      <3> QED BY <3>1, AppendingKeeps DEF Begins, Begin, PublishToPartition, notifySubs,
              server
    <2>2. ASSUME NEW c \in Consumers, Consuming(c) PROVE FALSE
      <3>1. CASE handleSubscribe(c) \/ ConsumeRPC(c)
        BY <3>1 DEF handleSubscribe, ConsumeRPC, SubscribePartitionAt, server
      <3>2. ASSUME ~ (handleSubscribe(c) \/ ConsumeRPC(c)) PROVE \E s : Consume(c, s)
        BY <2>2, <3>2, Zenon DEF Consuming, addSub, NextFetch, NextWait, Wake, Send, Leave,
           Commit, Signal
      <3> QED BY <3>1, <3>2, ConsumeKeeps DEF ServerSame
    <2>3. Start
      BY <2>1, <2>2, Scenario DEF Next, Process, Flusher, Sigterm, GrpcStopped, Stop, Crash,
         server
    <2>4. offsets' = file /\ \A q \in Parts : plog'[q] = MessagesOf(wal, q)
      BY <2>3 DEF Start, Reload, WalOf
    <2> QED BY <2>4 DEF StopInv, AlignInv
  <1> QED BY <1>1, <1>2, StopStep, AlignHolds, PTL DEF Spec, CleanStopKeepsAll

-----------------------------------------------------------------------------
(* What a group has passed *)

(* Up to offset n the messages pl of a partition are past (sent to the     *)
(* group, or overwritten before its session read them) for a group that    *)
(* began at b.                                                             *)
Passed(pl, b, past, n) == n <= Len(pl) /\ \A o \in b .. n - 1 : pl[o + 1] \in past

(* A session is past everything below its cursor, or below the message it  *)
(* sends or commits next.                                                  *)
Behind(s, pl, b, past) ==
    /\ s.pc \notin {"send", "commit"} => Passed(pl, b, past, s.offset)
    /\ s.pc = "send" =>
          /\ Passed(pl, b, past, s.msgs[1].offset)
          /\ s.msgs[1].offset + Len(s.msgs) <= Len(pl)
          /\ s.offset <= s.msgs[1].offset + Len(s.msgs)
          /\ \A i \in 1 .. Len(s.msgs) :
                /\ s.msgs[i].offset = s.msgs[1].offset + i - 1
                /\ s.msgs[i].payload = pl[s.msgs[1].offset + i]
    /\ s.pc = "commit" =>
          /\ Passed(pl, b, past, s.msgs[1].offset + 1)
          /\ s.offset <= s.msgs[1].offset + 1

(* What memory, the offsets file and a save in progress hold, and what the *)
(* sessions are about to commit, is past; nobody began beyond the tail.    *)
PassedInv ==
    ~ disturbed =>
        /\ \A k \in Keys :
              /\ base[k] <= Len(plog[k[2]])
              /\ \A n \in {offsets[k], file[k], snap[k]} :
                    n # None => Passed(plog[k[2]], base[k], sent[k] \cup missed[k], n)
        /\ \A c \in Consumers : cons[c].pc # "idle" =>
              LET k == cons[c].key
              IN  Behind(cons[c], plog[k[2]], base[k], sent[k] \cup missed[k])

(* What is past stays past when the partition grows, more is sent, and the *)
(* group begins later.                                                     *)
LEMMA PassedGrows ==
    ASSUME NEW pl \in Seq(Nat), NEW ql \in Seq(Nat), IsPrefix(pl, ql),
           NEW b \in Nat, NEW d \in Nat, b <= d, NEW past, NEW more, past \subseteq more,
           NEW n \in Nat, Passed(pl, b, past, n)
    PROVE  Passed(ql, d, more, n)
  <1>1. /\ Len(pl) \in Nat /\ Len(ql) \in Nat /\ Len(pl) <= Len(ql)
        /\ \A i \in 1 .. Len(pl) : pl[i] = ql[i]
    BY PrefixFacts
  <1>2. n <= Len(pl) /\ \A o \in b .. n - 1 : pl[o + 1] \in past BY DEF Passed
  <1>3. ASSUME NEW o \in d .. n - 1 PROVE ql[o + 1] \in more
    <2>1. o \in b .. n - 1 OBVIOUS
    <2>2. o + 1 \in 1 .. Len(pl) BY <1>1, <1>2
    <2> QED BY <1>1, <1>2, <2>1, <2>2
  <1>4. n <= Len(ql) BY <1>1, <1>2
  <1> QED BY <1>3, <1>4 DEF Passed

(* Below what is past everything is. *)
LEMMA PassedBelow ==
    ASSUME NEW pl \in Seq(Nat), NEW b \in Nat, NEW past, NEW n \in Nat, NEW m \in Nat,
           m <= n, Passed(pl, b, past, n)
    PROVE  Passed(pl, b, past, m)
  <1>1. Len(pl) \in Nat OBVIOUS
  <1> QED BY <1>1 DEF Passed

(* One more message is past. *)
LEMMA PassedNext ==
    ASSUME NEW pl \in Seq(Nat), NEW b \in Nat, NEW past, NEW n \in Nat, n + 1 <= Len(pl),
           Passed(pl, b, past, n), NEW more, past \subseteq more, pl[n + 1] \in more
    PROVE  Passed(pl, b, more, n + 1)
  <1>1. ASSUME NEW o \in b .. (n + 1) - 1 PROVE pl[o + 1] \in more
    <2>1. CASE o = n BY <2>1
    <2>2. CASE o # n
      <3>1. o \in b .. n - 1 BY <2>2
      <3> QED BY <3>1 DEF Passed
    <2> QED BY <2>1, <2>2
  <1> QED BY <1>1 DEF Passed

(* The same for a session *)
LEMMA BehindGrows ==
    ASSUME NEW pl \in Seq(Nat), NEW ql \in Seq(Nat), IsPrefix(pl, ql),
           NEW b \in Nat, NEW d \in Nat, b <= d, NEW past, NEW more, past \subseteq more,
           NEW s \in Session, s.pc \in {"send", "commit"} => s.msgs # <<>>,
           Behind(s, pl, b, past)
    PROVE  Behind(s, ql, d, more)
  <1>0. /\ Len(pl) \in Nat /\ Len(ql) \in Nat /\ Len(pl) <= Len(ql)
        /\ \A i \in 1 .. Len(pl) : pl[i] = ql[i]
    BY PrefixLongest, Zenon
  <1>1. s.offset \in Nat /\ s.msgs \in Seq(Slots(Nat)) BY DEF Session
  <1>2. CASE s.pc \notin {"send", "commit"}
    <2>1. Passed(ql, d, more, s.offset) BY <1>1, <1>2, PassedGrows DEF Behind
    <2> QED BY <1>2, <2>1 DEF Behind
  <1>3. CASE s.pc \in {"send", "commit"}
    <2> DEFINE x == s.msgs[1].offset
               l == Len(s.msgs)
    <2>1. l \in Nat \ {0} BY <1>1, <1>3, LenPositive
    <2>2. x \in Nat BY <1>1, <2>1, SlotAt
    <2>4. CASE s.pc = "commit"
      <3>1. Passed(pl, b, past, x + 1) /\ s.offset <= x + 1 BY <2>4 DEF Behind
      <3>2. x + 1 \in Nat BY <2>2
      <3> HIDE DEF x
      <3>3. Passed(ql, d, more, x + 1) BY <3>1, <3>2, PassedGrows
      <3> QED BY <2>4, <3>1, <3>3 DEF Behind, x
    <2>5. CASE s.pc = "send"
      <3>1. /\ Passed(pl, b, past, x) /\ x + l <= Len(pl) /\ s.offset <= x + l
            /\ \A i \in 1 .. l : s.msgs[i].offset = x + i - 1 /\ s.msgs[i].payload = pl[x + i]
        BY <2>5 DEF Behind
      <3> HIDE DEF x, l
      <3>2. Passed(ql, d, more, x) BY <2>2, <3>1, PassedGrows
      <3> DEFINE n == Len(pl)
      <3>3. x + l <= Len(ql) BY <1>0, <2>1, <2>2, <3>1
      <3>4. ASSUME NEW i \in 1 .. l PROVE s.msgs[i].payload = ql[x + i]
        <4>1. n \in Nat /\ x + l <= n BY <1>0, <3>1
        <4> HIDE DEF n
        <4>2. x + i \in 1 .. n BY <2>1, <2>2, <4>1
        <4> QED BY <1>0, <3>1, <4>2 DEF n
      <3> QED BY <2>5, <3>1, <3>2, <3>3, <3>4 DEF Behind, x, l
    <2> QED BY <1>3, <2>4, <2>5
  <1> QED BY <1>2, <1>3

(* Only pc, cursor and messages matter. *)
LEMMA BehindSame ==
    ASSUME NEW s, NEW t, NEW pl, NEW b, NEW past, Behind(s, pl, b, past),
           t.offset = s.offset,
           \/ t.pc = s.pc /\ t.msgs = s.msgs
           \/ t.pc \notin {"send", "commit"} /\ s.pc \notin {"send", "commit"}
    PROVE  Behind(t, pl, b, past)
  BY DEF Behind

(* A step may send more, publish more and let groups begin later; every    *)
(* offset it stores was stored before or is past; every session is behind  *)
(* what was past before or is now.                                         *)
LEMMA PassedKept ==
    ASSUME BaseInv, BaseInv', PassedInv, ~ disturbed,
           \A q \in Parts : IsPrefix(plog[q], plog'[q]),
           \A k \in Keys : /\ sent[k] \subseteq sent'[k] /\ missed[k] \subseteq missed'[k]
                           /\ base[k] <= base'[k] /\ base'[k] <= Len(plog'[k[2]]),
           \A k \in Keys : \A n \in {offsets'[k], file'[k], snap'[k]} :
              n # None => \/ n \in {offsets[k], file[k], snap[k]}
                          \/ Passed(plog[k[2]], base[k], sent[k] \cup missed[k], n),
           \A c \in Consumers : cons'[c].pc # "idle" =>
              LET k == cons'[c].key
              IN  \/ Behind(cons'[c], plog[k[2]], base[k], sent[k] \cup missed[k])
                  \/ Behind(cons'[c], plog'[k[2]], base'[k], sent'[k] \cup missed'[k])
    PROVE  PassedInv'
  <1>1. ASSUME NEW k \in Keys
        PROVE  /\ k[2] \in Parts /\ plog[k[2]] \in Seq(Nat) /\ plog'[k[2]] \in Seq(Nat)
               /\ IsPrefix(plog[k[2]], plog'[k[2]])
               /\ base[k] \in Nat /\ base'[k] \in Nat /\ base[k] <= base'[k]
               /\ sent[k] \cup missed[k] \subseteq sent'[k] \cup missed'[k]
    <2>1. k[2] \in Parts BY DEF Keys
    <2>2. plog[k[2]] \in Seq(Nat) /\ plog'[k[2]] \in Seq(Nat)
      BY <2>1 DEF BaseInv, TypeOK, RingsOK
    <2>3. base[k] \in Nat /\ base'[k] \in Nat BY DEF BaseInv, TypeOK, GroupsOK
    <2> QED BY <2>1, <2>2, <2>3
  <1>2. ASSUME NEW k \in Keys, NEW n \in {offsets'[k], file'[k], snap'[k]}, n # None
        PROVE  Passed(plog'[k[2]], base'[k], sent'[k] \cup missed'[k], n)
    <2>1. n \in Nat BY <1>2 DEF BaseInv, TypeOK, ManagerOK, Offsets
    <2>2. Passed(plog[k[2]], base[k], sent[k] \cup missed[k], n) BY <1>2 DEF PassedInv
    <2> QED BY <1>1, <2>1, <2>2, PassedGrows
  <1>3. ASSUME NEW c \in Consumers, cons'[c].pc # "idle"
        PROVE  LET k == cons'[c].key
               IN  Behind(cons'[c], plog'[k[2]], base'[k], sent'[k] \cup missed'[k])
    <2>1. PICK s \in Session, k \in Keys : /\ s = cons'[c] /\ k = s.key
                                           /\ s.pc \in {"send", "commit"} => s.msgs # <<>>
      BY <1>3 DEF BaseInv, TypeOK, SessionsOK
    <2>2. CASE Behind(s, plog[k[2]], base[k], sent[k] \cup missed[k])
      <3>1. Behind(s, plog'[k[2]], base'[k], sent'[k] \cup missed'[k])
        <4> DEFINE pl == plog[k[2]]
                   ql == plog'[k[2]]
                   past == sent[k] \cup missed[k]
                   more == sent'[k] \cup missed'[k]
        <4>1. /\ pl \in Seq(Nat) /\ ql \in Seq(Nat) /\ IsPrefix(pl, ql)
              /\ base[k] \in Nat /\ base'[k] \in Nat /\ base[k] <= base'[k]
              /\ past \subseteq more /\ Behind(s, pl, base[k], past)
          BY <1>1, <2>2
        <4> HIDE DEF pl, ql, past, more
        <4>2. Behind(s, ql, base'[k], more) BY <2>1, <4>1, BehindGrows
        <4> QED BY <4>2 DEF ql, more
      <3> QED BY <2>1, <3>1
    <2> QED BY <1>3, <2>1, <2>2
  <1> QED BY <1>2, <1>3 DEF PassedInv

(* Nothing is past for nobody. *)
LEMMA PassedInit == Init => PassedInv
  <1> SUFFICES ASSUME Init PROVE PassedInv
    OBVIOUS
  <1>1. \A c \in Consumers : cons[c].pc = "idle" BY DEF Init, NoSession
  <1>2. ASSUME NEW k \in Keys
        PROVE  base[k] <= Len(plog[k[2]]) /\ offsets[k] = None /\ file[k] = None /\ snap[k] = None
    <2>1. k[2] \in Parts BY DEF Keys
    <2>2. plog[k[2]] = <<>> /\ base[k] = 0 BY <2>1 DEF Init
    <2> QED BY <2>2 DEF Init, ManagerInit, NoOffsets
  <1> QED BY <1>1, <1>2 DEF PassedInv

(* A partition that stays as it is *)
LEMMA SamePrefix ==
    ASSUME BaseInv, UNCHANGED plog
    PROVE  \A q \in Parts : IsPrefix(plog[q], plog'[q])
  <1> SUFFICES ASSUME NEW q \in Parts PROVE IsPrefix(plog[q], plog'[q])
    OBVIOUS
  <1>1. plog[q] \in Seq(Nat) /\ 0 \in Nat BY DEF BaseInv, TypeOK, RingsOK
  <1>2. IsPrefix(plog[q], plog[q]) BY <1>1, PrefixAppend
  <1> QED BY <1>2

(* What leaves groups, offsets and partitions alone, and of the sessions   *)
(* what they have passed                                                   *)
LEMMA PassedSame ==
    ASSUME BaseInv, BaseInv', PassedInv, ~ disturbed, UNCHANGED plog, GroupsSame,
           \A k \in Keys : {offsets'[k], file'[k], snap'[k]} \subseteq
                               {offsets[k], file[k], snap[k]},
           \A c \in Consumers : cons'[c].pc # "idle" =>
              LET k == cons'[c].key
              IN  Behind(cons'[c], plog[k[2]], base[k], sent[k] \cup missed[k])
    PROVE  PassedInv'
  <1>1. \A q \in Parts : IsPrefix(plog[q], plog'[q]) BY SamePrefix
  <1>2. \A k \in Keys : /\ sent[k] \subseteq sent'[k] /\ missed[k] \subseteq missed'[k]
                        /\ base[k] <= base'[k] /\ base'[k] <= Len(plog'[k[2]])
    <2> SUFFICES ASSUME NEW k \in Keys
                 PROVE  /\ sent[k] \subseteq sent'[k] /\ missed[k] \subseteq missed'[k]
                        /\ base[k] <= base'[k] /\ base'[k] <= Len(plog'[k[2]])
      OBVIOUS
    <2>1. base[k] \in Nat /\ base[k] <= Len(plog[k[2]])
      BY DEF PassedInv, BaseInv, TypeOK, GroupsOK
    <2>2. plog' = plog /\ base' = base /\ sent' = sent /\ missed' = missed BY DEF GroupsSame
    <2> QED BY <2>1, <2>2
  <1>3. \A k \in Keys : \A n \in {offsets'[k], file'[k], snap'[k]} :
           n # None => \/ n \in {offsets[k], file[k], snap[k]}
                       \/ Passed(plog[k[2]], base[k], sent[k] \cup missed[k], n)
    OBVIOUS
  <1> QED BY <1>1, <1>2, <1>3, PassedKept

(* A session as it was is behind what was past. *)
LEMMA BehindKept ==
    ASSUME PassedInv, ~ disturbed, NEW c \in Consumers, cons'[c].pc # "idle",
           cons[c].pc # "idle", cons'[c].key = cons[c].key, cons'[c].offset = cons[c].offset,
           \/ cons'[c].pc = cons[c].pc /\ cons'[c].msgs = cons[c].msgs
           \/ cons'[c].pc \notin {"send", "commit"} /\ cons[c].pc \notin {"send", "commit"}
    PROVE  LET k == cons'[c].key
           IN  Behind(cons'[c], plog[k[2]], base[k], sent[k] \cup missed[k])
  <1>1. PICK k, s, t : k = cons[c].key /\ s = cons[c] /\ t = cons'[c] OBVIOUS
  <1>2. Behind(s, plog[k[2]], base[k], sent[k] \cup missed[k]) BY <1>1 DEF PassedInv
  <1>3. Behind(t, plog[k[2]], base[k], sent[k] \cup missed[k]) BY <1>1, <1>2, BehindSame
  <1> QED BY <1>1, <1>3

(* One session moves, the others are as they were. *)
LEMMA OthersBehind ==
    ASSUME BaseInv, PassedInv, ~ disturbed, NEW c \in Consumers, NEW t,
           cons' = [cons EXCEPT ![c] = t]
    PROVE  /\ cons'[c] = t
           /\ \A e \in Consumers : e # c /\ cons'[e].pc # "idle" =>
                 LET k == cons'[e].key
                 IN  Behind(cons'[e], plog[k[2]], base[k], sent[k] \cup missed[k])
  <1>1. cons'[c] = t /\ \A e \in Consumers : e # c => cons'[e] = cons[e]
    BY DEF BaseInv, TypeOK, SessionsOK
  <1> QED BY <1>1, BehindKept

(* Publishing *)
LEMMA PublishPassed ==
    ASSUME BaseInv, BaseInv', PassedInv, NEW p \in Publishers, Publishing(p) PROVE PassedInv'
  <1> SUFFICES ASSUME ~ disturbed' PROVE PassedInv'
    BY DEF PassedInv
  <1>0. Begins(p) \/ Appending(p) \/ PublishToPartition(p) \/ notifySubs(p)
    BY HandlersBegin DEF Publishing
  <1>1. ~ disturbed
    BY <1>0, AppendingKeeps DEF Begins, Begin, PublishToPartition, notifySubs
  <1>2. GroupsSame /\ UNCHANGED managerVars
    BY <1>0, AppendingKeeps DEF Begins, Begin, PublishToPartition, notifySubs,
       GroupsSame, groups
  <1>3. \A k \in Keys : {offsets'[k], file'[k], snap'[k]} \subseteq
                            {offsets[k], file[k], snap[k]}
    BY <1>2 DEF managerVars
  <1>4. \A c \in Consumers :
           /\ cons'[c].pc = cons[c].pc /\ cons'[c].key = cons[c].key
           /\ cons'[c].offset = cons[c].offset /\ cons'[c].msgs = cons[c].msgs
    <2>1. CASE notifySubs(p) BY <2>1, NotifyKeeps DEF notifySubs, Notified
    <2>2. CASE ~ notifySubs(p)
      <3>1. UNCHANGED cons
        BY <1>0, <2>2, AppendingKeeps DEF Begins, Begin, PublishToPartition
      <3> QED BY <3>1
    <2> QED BY <2>1, <2>2
  <1>5. \A c \in Consumers : cons'[c].pc # "idle" =>
           LET k == cons'[c].key
           IN  Behind(cons'[c], plog[k[2]], base[k], sent[k] \cup missed[k])
    BY <1>1, <1>4, BehindKept
  <1>6. CASE PublishToPartition(p)
    <2>1. PICK q \in Parts, m \in Nat : q = pub[p].part /\ m = Msg(p)
      BY <1>6, RecordTyped DEF PublishToPartition
    <2>2. plog \in [Parts -> Seq(Nat)] BY DEF BaseInv, TypeOK, RingsOK
    <2>3. plog'[q] = Append(plog[q], m) /\ \A x \in Parts : x # q => plog'[x] = plog[x]
      BY <1>6, <2>1, <2>2 DEF PublishToPartition
    <2>4. ASSUME NEW x \in Parts
          PROVE  IsPrefix(plog[x], plog'[x]) /\ Len(plog[x]) <= Len(plog'[x])
                 /\ Len(plog[x]) \in Nat /\ Len(plog'[x]) \in Nat
      <3>1. IsPrefix(plog[x], plog'[x]) BY <2>2, <2>3, PrefixAppend
      <3>2. plog[x] \in Seq(Nat) /\ plog'[x] \in Seq(Nat)
        BY DEF BaseInv, TypeOK, RingsOK
      <3> QED BY <3>1, <3>2, PrefixLongest
    <2>5. ASSUME NEW k \in Keys
          PROVE  /\ sent[k] \subseteq sent'[k] /\ missed[k] \subseteq missed'[k]
                 /\ base[k] <= base'[k] /\ base'[k] <= Len(plog'[k[2]])
      <3>1. base[k] \in Nat /\ base[k] <= Len(plog[k[2]])
        BY <1>1 DEF PassedInv, BaseInv, TypeOK, GroupsOK
      <3>2. base' = base /\ sent' = sent /\ missed' = missed BY <1>2 DEF GroupsSame
      <3>3. k[2] \in Parts BY DEF Keys
      <3>4. Len(plog[k[2]]) <= Len(plog'[k[2]]) /\ Len(plog[k[2]]) \in Nat
            /\ Len(plog'[k[2]]) \in Nat
        BY <2>4, <3>3
      <3> DEFINE l == Len(plog[k[2]])
                 n == Len(plog'[k[2]])
      <3>5. base[k] \in Nat /\ base[k] <= l /\ l <= n /\ l \in Nat /\ n \in Nat BY <3>1, <3>4
      <3> HIDE DEF l, n
      <3>6. base[k] <= n BY <3>5
      <3> QED BY <3>1, <3>2, <3>6 DEF n
    <2> QED BY <1>1, <1>3, <1>5, <2>4, <2>5, PassedKept
  <1>7. CASE ~ PublishToPartition(p)
    <2>1. UNCHANGED plog
      BY <1>0, <1>7, AppendingKeeps DEF Begins, Begin, notifySubs, rings, RingsSame
    <2> QED BY <1>1, <1>2, <1>3, <1>5, <2>1, PassedSame
  <1> QED BY <1>6, <1>7

(* A session begins at the committed offset, or where its group begins. *)
LEMMA SubscribePassed ==
    ASSUME BaseInv, BaseInv', PassedInv, ~ disturbed, NEW c \in Consumers,
           handleSubscribe(c) \/ ConsumeRPC(c)
    PROVE  PassedInv'
  <1>1. conf.parts \subseteq Parts
    BY DeliveryAssumption DEF Config, BaseInv, TypeOK, ServerOK
  <1>2. PICK g \in Groups, how \in {"tcp", "grpc"}, q \in Parts :
            SubscribePartitionAt(c, g, how, q)
    BY <1>1, ZeroInParts DEF handleSubscribe, ConsumeRPC
  <1> DEFINE k == <<g, q>>
             tail == topic[q].tail
             o == IF offsets[k] = None THEN tail ELSE offsets[k]
             t == [NoSession EXCEPT !.pc = "sub", !.how = how, !.key = k, !.offset = o]
  <1>3. UNCHANGED <<sent, missed, plog, managerVars>>
    BY <1>2 DEF SubscribePartitionAt, rings
  <1>4. k \in Keys /\ k[2] = q BY DEF Keys
  <1>5. cons' = [cons EXCEPT ![c] = t]
        /\ base' = IF offsets[k] = None THEN [base EXCEPT ![k] = tail] ELSE base
    BY <1>2 DEF SubscribePartitionAt
  <1>6. tail \in Nat /\ tail = Len(plog[q]) /\ plog[q] \in Seq(Nat)
    BY DEF BaseInv, TypeOK, RingsOK, Rings, RingShowsLast, Shows
  <1> HIDE DEF k, o, tail
  <1>7. t.pc = "sub" /\ t.key = k /\ t.offset = o BY DEF NoSession
  <1> HIDE DEF t
  <1>8. \A e \in Keys : base[e] \in Nat /\ base[e] <= Len(plog[e[2]]) /\ e[2] \in Parts
    BY DEF PassedInv, BaseInv, TypeOK, GroupsOK, Keys
  <1>9. ASSUME NEW e \in Keys
        PROVE  base[e] <= base'[e] /\ base'[e] <= Len(plog'[e[2]])
    <2>1. CASE base'[e] = base[e] BY <1>3, <1>8, <2>1
    <2>2. CASE base'[e] # base[e]
      <3>1. e = k /\ base'[e] = tail
        BY <1>4, <1>5, <2>2 DEF BaseInv, TypeOK, GroupsOK
      <3>2. base[e] <= tail BY <1>4, <1>6, <1>8, <3>1
      <3>3. base'[e] <= Len(plog'[e[2]]) BY <1>3, <1>4, <1>6, <3>1
      <3> QED BY <3>1, <3>2, <3>3
    <2> QED BY <2>1, <2>2
  <1>10. \/ Behind(t, plog[k[2]], base[k], sent[k] \cup missed[k])
         \/ Behind(t, plog'[k[2]], base'[k], sent'[k] \cup missed'[k])
    <2>1. CASE offsets[k] = None
      <3>1. base'[k] = tail /\ o = tail
        BY <1>4, <1>5, <2>1 DEF BaseInv, TypeOK, GroupsOK, o
      <3>2. Passed(plog[q], tail, sent[k] \cup missed[k], tail)
        <4>1. tail .. tail - 1 = {} /\ tail <= Len(plog[q]) BY <1>6
        <4> QED BY <4>1 DEF Passed
      <3> QED BY <1>3, <1>4, <1>7, <3>1, <3>2 DEF Behind
    <2>2. CASE offsets[k] # None
      <3>1. Passed(plog[k[2]], base[k], sent[k] \cup missed[k], o)
        BY <1>4, <2>2 DEF PassedInv, o
      <3> QED BY <1>7, <3>1 DEF Behind
    <2> QED BY <2>1, <2>2
  <1>11. \A e \in Consumers : cons'[e].pc # "idle" =>
            LET x == cons'[e].key
            IN  \/ Behind(cons'[e], plog[x[2]], base[x], sent[x] \cup missed[x])
                \/ Behind(cons'[e], plog'[x[2]], base'[x], sent'[x] \cup missed'[x])
    BY <1>5, <1>7, <1>10, OthersBehind
  <1>12. \A q1 \in Parts : IsPrefix(plog[q1], plog'[q1]) BY <1>3, SamePrefix
  <1>13. \A e \in Keys : \A n \in {offsets'[e], file'[e], snap'[e]} :
            n \in {offsets[e], file[e], snap[e]}
    BY <1>3 DEF managerVars
  <1> QED BY <1>3, <1>9, <1>11, <1>12, <1>13, PassedKept

(* The steps of a session that neither read, send nor commit *)
LEMMA WaitPassed ==
    ASSUME BaseInv, BaseInv', PassedInv, ~ disturbed, NEW c \in Consumers,
           addSub(c) \/ NextWait(c) \/ Wake(c) \/ Signal(c) \/ Leave(c)
    PROVE  PassedInv'
  <1>1. PICK s \in Session : s = cons[c] BY DEF BaseInv, TypeOK, SessionsOK
  <1>2. PICK t : Consume(c, t) /\ UNCHANGED <<sent, missed, offsets, file, snap>>
                 /\ \/ t.pc = "idle"
                    \/ /\ t.key = s.key /\ t.offset = s.offset /\ s.pc # "idle"
                       /\ t.pc \notin {"send", "commit"} /\ s.pc \notin {"send", "commit"}
    <2>1. CASE Leave(c)
      <3>1. NoSession.pc = "idle" BY DEF NoSession
      <3> QED BY <2>1, <3>1 DEF Leave, managerVars
    <2>2. CASE addSub(c) \/ NextWait(c) \/ Signal(c)
      <3>1. PICK x \in {"fetch", "wait"} :
                /\ s.pc \in {"sub", "empty", "signal"} /\ Consume(c, [s EXCEPT !.pc = x])
                /\ UNCHANGED <<sent, missed, offsets, file, snap>>
        BY <1>1, <2>2 DEF addSub, NextWait, Signal, signalDirty, managerVars
      <3> DEFINE t == [s EXCEPT !.pc = x]
      <3>2. t.key = s.key /\ t.offset = s.offset /\ t.pc = x BY DEF Session
      <3> HIDE DEF t
      <3> QED BY <3>1, <3>2 DEF t
    <2>3. CASE Wake(c)
      <3> DEFINE t == [s EXCEPT !.pc = "fetch", !.notify = FALSE]
      <3>1. s.pc = "wait" /\ Consume(c, t) /\ UNCHANGED <<sent, missed, offsets, file, snap>>
        BY <1>1, <2>3 DEF Wake, managerVars
      <3>2. t.key = s.key /\ t.offset = s.offset /\ t.pc = "fetch" BY DEF Session
      <3> HIDE DEF t
      <3> QED BY <3>1, <3>2
    <2> QED BY <2>1, <2>2, <2>3
  <1>3. RingsSame /\ UNCHANGED base /\ cons' = [cons EXCEPT ![c] = t]
    BY <1>2, ConsumeKeeps
  <1>4. UNCHANGED plog /\ GroupsSame BY <1>2, <1>3 DEF RingsSame, GroupsSame
  <1>5. \A e \in Consumers : cons'[e].pc # "idle" =>
           LET k == cons'[e].key
           IN  Behind(cons'[e], plog[k[2]], base[k], sent[k] \cup missed[k])
    <2>1. cons'[c] = t BY <1>3, OthersBehind
    <2>2. cons'[c].pc # "idle" =>
             LET k == cons'[c].key
             IN  Behind(cons'[c], plog[k[2]], base[k], sent[k] \cup missed[k])
      BY <1>1, <1>2, <2>1, BehindKept
    <2> QED BY <1>3, <2>2, OthersBehind
  <1>6. \A k \in Keys : {offsets'[k], file'[k], snap'[k]} \subseteq
                            {offsets[k], file[k], snap[k]}
    BY <1>2
  <1> QED BY <1>4, <1>5, <1>6, PassedSame

(* A group's sets grow, its offsets and partitions stay. *)
LEMMA PassedMore ==
    ASSUME BaseInv, BaseInv', PassedInv, ~ disturbed, NEW c \in Consumers, NEW t,
           cons' = [cons EXCEPT ![c] = t], UNCHANGED <<plog, base, offsets, file, snap>>,
           \A k \in Keys : sent[k] \subseteq sent'[k] /\ missed[k] \subseteq missed'[k],
           t.pc # "idle" =>
              Behind(t, plog[t.key[2]], base[t.key], sent'[t.key] \cup missed'[t.key])
    PROVE  PassedInv'
  <1>1. \A q \in Parts : IsPrefix(plog[q], plog'[q]) BY SamePrefix
  <1>2. ASSUME NEW k \in Keys
        PROVE  base[k] <= base'[k] /\ base'[k] <= Len(plog'[k[2]])
    <2>1. base[k] \in Nat /\ base[k] <= Len(plog[k[2]])
      BY DEF PassedInv, BaseInv, TypeOK, GroupsOK
    <2> QED BY <2>1
  <1>3. cons'[c] = t BY OthersBehind
  <1>4. \A e \in Consumers : cons'[e].pc # "idle" =>
           LET x == cons'[e].key
           IN  \/ Behind(cons'[e], plog[x[2]], base[x], sent[x] \cup missed[x])
               \/ Behind(cons'[e], plog'[x[2]], base'[x], sent'[x] \cup missed'[x])
    BY <1>3, OthersBehind
  <1>5. \A k \in Keys : \A n \in {offsets'[k], file'[k], snap'[k]} :
           n \in {offsets[k], file[k], snap[k]}
    OBVIOUS
  <1> QED BY <1>1, <1>2, <1>4, <1>5, PassedKept

(* Next: what the ring overwrote is missed, the rest is about to be sent. *)
LEMMA NextPassed ==
    ASSUME BaseInv, BaseInv', PassedInv, ~ disturbed, NEW c \in Consumers, NextFetch(c)
    PROVE  PassedInv'
  <1>1. PICK s \in Session, k \in Keys : s = cons[c] /\ s.pc = "fetch" /\ s.key = k
    BY DEF NextFetch, BaseInv, TypeOK, SessionsOK
  <1>2. PICK f \in Seq(Slots(Nat)), b \in Nat, ov \in SUBSET Nat :
            /\ f = Read(s) /\ ov = Overwritten(s) /\ Len(f) \in Nat /\ b >= s.offset
            /\ \A i \in 1 .. Len(f) :
                  f[i] = [offset |-> b + i - 1, payload |-> plog[k[2]][b + i]]
            /\ Len(f) > 0 => b + Len(f) <= Len(plog[k[2]])
            /\ \A o \in s.offset .. b - 1 : plog[k[2]][o + 1] \in ov
    <2>1. s.key \in Keys BY <1>1
    <2> DEFINE b == From(topic[s.key[2]], s.offset)
               f == Read(s)
               ov == Overwritten(s)
    <2>2. /\ f \in Seq(Slots(Nat)) /\ b \in Nat /\ ov \in SUBSET Nat
          /\ Len(f) \in Nat /\ b >= s.offset
          /\ \A i \in 1 .. Len(f) :
                f[i] = [offset |-> b + i - 1, payload |-> plog[s.key[2]][b + i]]
          /\ Len(f) > 0 => b + Len(f) <= Len(plog[s.key[2]])
          /\ \A o \in s.offset .. b - 1 : plog[s.key[2]][o + 1] \in ov
      BY <2>1, ReadFacts, Zenon
    <2>3. f = Read(s) /\ ov = Overwritten(s) OBVIOUS
    <2> HIDE DEF b, f, ov
    <2> QED BY <1>1, <2>2, <2>3
  <1> DEFINE pl == plog[k[2]]
             past == sent[k] \cup missed[k]
             more == sent'[k] \cup missed'[k]
  <1>3. /\ missed' = [missed EXCEPT ![k] = @ \cup ov] /\ sent' = sent
        /\ UNCHANGED <<offsets, file, snap>>
    BY <1>1, <1>2 DEF NextFetch, managerVars
  <1>4. /\ \A e \in Keys : sent[e] \subseteq sent'[e] /\ missed[e] \subseteq missed'[e]
        /\ past \subseteq more /\ ov \subseteq more
    BY <1>3 DEF BaseInv, TypeOK, GroupsOK
  <1>5. s.offset \in Nat /\ base[k] \in Nat /\ pl \in Seq(Nat)
    BY DEF Session, BaseInv, TypeOK, GroupsOK, RingsOK, Keys
  <1>6. Passed(pl, base[k], past, s.offset)
    BY <1>1 DEF PassedInv, Behind
  <1>7. CASE f = <<>>
    <2> DEFINE t == [s EXCEPT !.pc = "empty"]
    <2>1. Consume(c, t) BY <1>1, <1>2, <1>7 DEF NextFetch
    <2>2. t.key = k /\ t.offset = s.offset /\ t.pc = "empty" BY <1>1 DEF Session
    <2> HIDE DEF t, pl, past, more
    <2>3. UNCHANGED <<plog, base>> /\ cons' = [cons EXCEPT ![c] = t]
      BY <2>1, ConsumeKeeps DEF RingsSame
    <2>4. Passed(pl, base[k], more, s.offset) BY <1>4, <1>6 DEF Passed
    <2>5. Behind(t, pl, base[k], more) BY <2>2, <2>4 DEF Behind
    <2> QED BY <1>3, <1>4, <2>2, <2>3, <2>5, PassedMore DEF pl, more
  <1>8. CASE f # <<>>
    <2> DEFINE n == s.offset + Len(f)
               ow == s.overrun \/ ov # {}
               t == [s EXCEPT !.pc = "send", !.msgs = f, !.offset = n, !.overrun = ow]
    <2>1. Consume(c, t) BY <1>1, <1>2, <1>8 DEF NextFetch
    <2>2. Len(f) \in Nat \ {0} BY <1>8, LenPositive
    <2>3. n = s.offset + Len(f) OBVIOUS
    <2> HIDE DEF n, ow
    <2>4. t.key = k /\ t.offset = n /\ t.pc = "send" /\ t.msgs = f BY <1>1 DEF Session
    <2> HIDE DEF t
    <2>5. UNCHANGED <<plog, base>> /\ cons' = [cons EXCEPT ![c] = t]
      BY <2>1, ConsumeKeeps DEF RingsSame
    <2>6. /\ \A i \in 1 .. Len(f) : f[i].offset = b + i - 1 /\ f[i].payload = pl[b + i]
          /\ b + Len(f) <= Len(pl)
          /\ \A o \in s.offset .. b - 1 : pl[o + 1] \in ov
      <3>1. \A i \in 1 .. Len(f) : f[i].offset = b + i - 1 /\ f[i].payload = pl[b + i]
        <4> TAKE i \in 1 .. Len(f)
        <4> DEFINE y == plog[k[2]][b + i]
        <4>1. f[i] = [offset |-> b + i - 1, payload |-> y] BY <1>2
        <4> HIDE DEF y
        <4>2. f[i].offset = b + i - 1 /\ f[i].payload = y BY <4>1
        <4> QED BY <4>2 DEF y
      <3>2. Len(f) > 0 BY <2>2
      <3> QED BY <1>2, <3>1, <3>2
    <2> HIDE DEF pl, past, more
    <2>7. f[1].offset = b
      <3>1. 1 \in 1 .. Len(f) BY <2>2
      <3>2. f[1].offset = b + 1 - 1 BY <2>6, <3>1
      <3> QED BY <3>2
    <2>8. Passed(pl, base[k], more, b)
      <3>1. ASSUME NEW o \in base[k] .. b - 1 PROVE pl[o + 1] \in more
        <4>1. CASE o < s.offset
          <5>1. o \in base[k] .. s.offset - 1 BY <1>5, <4>1
          <5> QED BY <1>4, <1>6, <5>1 DEF Passed
        <4>2. CASE ~ (o < s.offset)
          <5>1. o \in s.offset .. b - 1 BY <1>5, <4>2
          <5> QED BY <1>4, <2>6, <5>1
        <4> QED BY <4>1, <4>2
      <3>2. b <= Len(pl)
        <4> DEFINE l == Len(f)
                   m == Len(pl)
        <4>1. l \in Nat /\ m \in Nat /\ b + l <= m BY <1>5, <2>2, <2>6
        <4> HIDE DEF l, m
        <4>2. b <= m BY <4>1
        <4> QED BY <4>2 DEF m
      <3> QED BY <3>1, <3>2 DEF Passed
    <2>9. n <= b + Len(f)
      <3> DEFINE l == Len(f)
                 o == s.offset
      <3>1. l \in Nat /\ o \in Nat /\ o <= b /\ n = o + l BY <1>2, <1>5, <2>3
      <3> HIDE DEF l, o
      <3>2. n <= b + l BY <3>1
      <3> QED BY <3>2 DEF l
    <2>10. Behind(t, pl, base[k], more) BY <2>4, <2>6, <2>7, <2>8, <2>9 DEF Behind
    <2> QED BY <1>3, <1>4, <2>4, <2>5, <2>10, PassedMore DEF pl, more
  <1> QED BY <1>7, <1>8

(* Send: the message is past. *)
LEMMA SendPassed ==
    ASSUME BaseInv, BaseInv', PassedInv, ~ disturbed, NEW c \in Consumers, Send(c)
    PROVE  PassedInv'
  <1>1. PICK s \in Session, k \in Keys :
            s = cons[c] /\ s.pc = "send" /\ s.key = k /\ s.msgs # <<>>
    BY DEF Send, BaseInv, TypeOK, SessionsOK
  <1>2. PICK t : t = AfterSend(s) OBVIOUS
  <1>3. /\ Consume(c, t) /\ missed' = missed /\ UNCHANGED <<offsets, file, snap>>
        /\ sent' = [sent EXCEPT ![k] = @ \cup {Head(s.msgs).payload}]
    BY <1>1, <1>2 DEF Send, AfterSend, managerVars
  <1>4. /\ t.key = k /\ t.offset = s.offset
        /\ Head(s.msgs) = s.msgs[1]
        /\ Len(s.msgs) \in Nat \ {0}
        /\ Len(s.msgs) = 1 => t.pc = "commit" /\ t.msgs = s.msgs
        /\ Len(s.msgs) # 1 => /\ t.pc = "send" /\ t.msgs = Tail(s.msgs)
                              /\ Len(t.msgs) = Len(s.msgs) - 1
                              /\ \A i \in 1 .. Len(t.msgs) : t.msgs[i] = s.msgs[i + 1]
    BY <1>1, <1>2, AfterSendTyped
  <1> DEFINE pl == plog[k[2]]
             past == sent[k] \cup missed[k]
             more == sent'[k] \cup missed'[k]
             x == s.msgs[1].offset
             y == s.msgs[1].payload
             l == Len(s.msgs)
  <1>5. /\ \A e \in Keys : sent[e] \subseteq sent'[e] /\ missed[e] \subseteq missed'[e]
        /\ past \subseteq more /\ y \in more
    BY <1>3, <1>4 DEF BaseInv, TypeOK, GroupsOK
  <1>6. s.offset \in Nat /\ base[k] \in Nat /\ pl \in Seq(Nat) /\ s.msgs \in Seq(Slots(Nat))
    BY DEF Session, BaseInv, TypeOK, GroupsOK, RingsOK, Keys
  <1>7. x \in Nat /\ Len(pl) \in Nat BY <1>4, <1>6, SlotAt
  <1>8. Behind(s, pl, base[k], past) BY <1>1 DEF PassedInv
  <1>9. UNCHANGED <<plog, base>> /\ cons' = [cons EXCEPT ![c] = t]
    BY <1>3, ConsumeKeeps DEF RingsSame
  <1> HIDE DEF pl, past, more
  <1>10. /\ Passed(pl, base[k], past, x) /\ x + l <= Len(pl) /\ s.offset <= x + l
         /\ \A i \in 1 .. l : s.msgs[i].offset = x + i - 1 /\ s.msgs[i].payload = pl[x + i]
    BY <1>1, <1>8 DEF Behind
  <1>11. y = pl[x + 1]
    <2>1. 1 \in 1 .. l BY <1>4
    <2> QED BY <1>10, <2>1
  <1> HIDE DEF x, y
  <1>12. x + 1 <= Len(pl)
    <2> DEFINE m == Len(pl)
    <2>1. l \in Nat \ {0} /\ m \in Nat /\ x + l <= m BY <1>4, <1>7, <1>10
    <2> HIDE DEF l, m
    <2>2. x + 1 <= m BY <1>7, <2>1
    <2> QED BY <2>2 DEF m
  <1>13. Passed(pl, base[k], more, x + 1)
    BY <1>5, <1>6, <1>7, <1>10, <1>11, <1>12, PassedNext
  <1>14. Behind(t, pl, base[k], more)
    <2>1. CASE l = 1
      <3>1. t.pc = "commit" /\ t.msgs[1].offset = x BY <1>4, <2>1 DEF x
      <3> QED BY <1>4, <1>10, <1>13, <2>1, <3>1 DEF Behind
    <2>2. CASE l # 1
      <3>1. /\ t.pc = "send" /\ Len(t.msgs) = l - 1
            /\ \A i \in 1 .. l - 1 : t.msgs[i] = s.msgs[i + 1]
        BY <1>4, <2>2
      <3>2. l \in Nat \ {0} BY <1>4
      <3>3. ASSUME NEW i \in 1 .. l - 1
            PROVE  t.msgs[i].offset = x + i /\ t.msgs[i].payload = pl[x + (i + 1)]
        <4>1. i + 1 \in 1 .. l /\ x + (i + 1) - 1 = x + i BY <1>7, <3>2
        <4>2. /\ s.msgs[i + 1].offset = x + (i + 1) - 1
              /\ s.msgs[i + 1].payload = pl[x + (i + 1)]
          BY <1>10, <4>1
        <4> QED BY <3>1, <4>1, <4>2
      <3>4. t.msgs[1].offset = x + 1
        <4> HIDE DEF l
        <4>1. 1 \in 1 .. l - 1 BY <2>2, <3>2
        <4> QED BY <3>3, <4>1
      <3> DEFINE m == Len(t.msgs)
                 z == t.msgs[1].offset
                 w == Len(pl)
                 o == s.offset
      <3>5. m = l - 1 /\ z = x + 1 /\ w \in Nat /\ o \in Nat /\ x + l <= w /\ o <= x + l
        BY <1>6, <1>7, <1>10, <3>1, <3>4
      <3> HIDE DEF m, z, w, o, l
      <3>6. z + m <= w /\ o <= z + m BY <1>7, <3>2, <3>5
      <3>7. ASSUME NEW i \in 1 .. m
            PROVE  t.msgs[i].offset = z + i - 1 /\ t.msgs[i].payload = pl[z + i]
        <4>1. i \in 1 .. l - 1 BY <3>5
        <4>2. z + i - 1 = x + i /\ z + i = x + (i + 1) BY <1>7, <3>2, <3>5, <4>1
        <4> QED BY <3>3, <4>1, <4>2
      <3>8. Passed(pl, base[k], more, z) BY <1>13, <3>5
      <3> QED BY <1>4, <3>1, <3>6, <3>7, <3>8 DEF Behind, m, z, w, o
    <2> QED BY <2>1, <2>2
  <1>15. t.pc # "idle" =>
            Behind(t, plog[t.key[2]], base[t.key], sent'[t.key] \cup missed'[t.key])
    BY <1>4, <1>14 DEF pl, more
  <1> QED BY <1>3, <1>5, <1>9, <1>15, PassedMore

(* Commit stores what is past, and the cursor is not beyond it. *)
LEMMA CommitPassed ==
    ASSUME BaseInv, BaseInv', PassedInv, ~ disturbed, NEW c \in Consumers, Commit(c)
    PROVE  PassedInv'
  <1>1. PICK s \in Session, k \in Keys :
            s = cons[c] /\ s.pc = "commit" /\ s.key = k /\ s.msgs # <<>>
    BY DEF Commit, BaseInv, TypeOK, SessionsOK
  <1> DEFINE t == [s EXCEPT !.pc = "signal", !.msgs = <<>>]
             x == s.msgs[1].offset
             pl == plog[k[2]]
             past == sent[k] \cup missed[k]
  <1>2. Consume(c, t) /\ CommitPartition(k, Head(s.msgs).offset + 1) /\ UNCHANGED <<sent, missed>>
    BY <1>1 DEF Commit
  <1>3. t.key = k /\ t.offset = s.offset /\ t.pc = "signal" BY <1>1 DEF Session
  <1>4. s.msgs \in Seq(Slots(Nat)) /\ s.offset \in Nat /\ base[k] \in Nat /\ pl \in Seq(Nat)
    BY DEF Session, BaseInv, TypeOK, GroupsOK, RingsOK, Keys
  <1>5. Head(s.msgs) = s.msgs[1] /\ x \in Nat
    <2>1. Len(s.msgs) \in Nat \ {0} /\ Head(s.msgs) = s.msgs[1] BY <1>1, <1>4, LenPositive
    <2>2. 1 \in 1 .. Len(s.msgs) BY <2>1
    <2> QED BY <1>4, <2>1, <2>2, SlotAt
  <1>6. Behind(s, pl, base[k], past) BY <1>1 DEF PassedInv
  <1>7. Passed(pl, base[k], past, x + 1) /\ s.offset <= x + 1 BY <1>1, <1>6 DEF Behind
  <1>8. offsets' = [offsets EXCEPT ![k] = x + 1] /\ UNCHANGED <<file, snap>>
    BY <1>2, <1>5 DEF CommitPartition
  <1> HIDE DEF t, x
  <1>9. UNCHANGED <<plog, base>> /\ cons' = [cons EXCEPT ![c] = t]
    BY <1>2, ConsumeKeeps DEF RingsSame
  <1>10. Behind(t, pl, base[k], past)
    <2>1. x + 1 \in Nat BY <1>5
    <2> HIDE DEF pl, past
    <2>2. Passed(pl, base[k], past, s.offset) BY <1>4, <1>7, <2>1, PassedBelow
    <2> QED BY <1>3, <2>2 DEF Behind
  <1>11. \A e \in Consumers : cons'[e].pc # "idle" =>
            LET j == cons'[e].key
            IN  Behind(cons'[e], plog[j[2]], base[j], sent[j] \cup missed[j])
    <2>1. cons'[c] = t BY <1>9, OthersBehind
    <2> QED BY <1>3, <1>9, <1>10, <2>1, OthersBehind
  <1>12. ASSUME NEW e \in Keys, NEW n \in {offsets'[e], file'[e], snap'[e]}
         PROVE  \/ n \in {offsets[e], file[e], snap[e]}
                \/ Passed(plog[e[2]], base[e], sent[e] \cup missed[e], n)
    <2>1. CASE e = k
      <3>1. offsets'[k] = x + 1 BY <1>8 DEF BaseInv, TypeOK, ManagerOK, Offsets
      <3> QED BY <1>7, <1>8, <1>12, <2>1, <3>1
    <2>2. CASE e # k BY <1>8, <1>12, <2>2 DEF BaseInv, TypeOK, ManagerOK, Offsets
    <2> QED BY <2>1, <2>2
  <1>13. \A q \in Parts : IsPrefix(plog[q], plog'[q]) BY <1>9, SamePrefix
  <1>14. ASSUME NEW e \in Keys
         PROVE  /\ sent[e] \subseteq sent'[e] /\ missed[e] \subseteq missed'[e]
                /\ base[e] <= base'[e] /\ base'[e] <= Len(plog'[e[2]])
    <2>1. base[e] \in Nat /\ base[e] <= Len(plog[e[2]])
      BY DEF PassedInv, BaseInv, TypeOK, GroupsOK
    <2> QED BY <1>2, <1>9, <2>1
  <1> QED BY <1>11, <1>12, <1>13, <1>14, PassedKept

(* The offsets move between memory, save and file; the process ends and    *)
(* starts, and a group finds at least the messages it had.                 *)
LEMMA ProcessPassed ==
    ASSUME BaseInv, BaseInv', QuietInv, AlignInv, PassedInv, Flusher \/ Process
    PROVE  PassedInv'
  <1> SUFFICES ASSUME ~ disturbed' PROVE PassedInv'
    BY DEF PassedInv
  <1>1. ~ disturbed
    <2>1. CASE Stop \/ Crash BY <2>1 DEF Stop, Crash
    <2>2. CASE ~ (Stop \/ Crash)
      BY <2>2 DEF Process, Flusher, Sigterm, GrpcStopped, Start
    <2> QED BY <2>1, <2>2
  <1>2. GroupsSame
    BY DEF Process, Flusher, Sigterm, GrpcStopped, Stop, Crash, Start, groups, GroupsSame
  <1>3. \A k \in Keys : {offsets'[k], file'[k], snap'[k]} \subseteq
                            {offsets[k], file[k], snap[k]}
    <2>1. CASE Flusher
      BY <2>1 DEF Flusher, FlushLoop, TakeSignal, StartSave, Saved, SaveFails
    <2>2. CASE Sigterm \/ GrpcStopped \/ Crash
      BY <2>2 DEF Sigterm, GrpcStopped, Crash, managerVars
    <2>3. CASE Stop BY <2>3 DEF Stop, Close
    <2>4. CASE Start BY <2>4 DEF Start, Reload
    <2> QED BY <2>1, <2>2, <2>3, <2>4 DEF Process
  <1>4. \A c \in Consumers : cons'[c].pc # "idle" => cons'[c] = cons[c]
    <2>1. CASE Stop \/ Crash BY <2>1, EndsTyped DEF Stop, Crash
    <2>2. CASE ~ (Stop \/ Crash)
      BY <2>2 DEF Process, Flusher, Sigterm, GrpcStopped, Start
    <2> QED BY <2>1, <2>2
  <1>5. \A c \in Consumers : cons'[c].pc # "idle" =>
           LET k == cons'[c].key
           IN  Behind(cons'[c], plog[k[2]], base[k], sent[k] \cup missed[k])
    BY <1>1, <1>4, BehindKept
  <1>6. CASE Start
    <2>1. ASSUME NEW q \in Parts
          PROVE  IsPrefix(plog[q], plog'[q]) /\ Len(plog[q]) <= Len(plog'[q])
                 /\ Len(plog[q]) \in Nat /\ Len(plog'[q]) \in Nat
      <3>1. plog'[q] = MessagesOf(wal, q) BY <1>6 DEF Start, WalOf
      <3>2. IsPrefix(plog[q], plog'[q]) BY <1>1, <3>1 DEF AlignInv
      <3>3. plog[q] \in Seq(Nat) /\ plog'[q] \in Seq(Nat) BY DEF BaseInv, TypeOK, RingsOK
      <3> QED BY <3>2, <3>3, PrefixLongest
    <2>2. ASSUME NEW k \in Keys
          PROVE  /\ sent[k] \subseteq sent'[k] /\ missed[k] \subseteq missed'[k]
                 /\ base[k] <= base'[k] /\ base'[k] <= Len(plog'[k[2]])
      <3>1. base[k] \in Nat /\ base[k] <= Len(plog[k[2]])
        BY <1>1 DEF PassedInv, BaseInv, TypeOK, GroupsOK
      <3>2. base' = base /\ sent' = sent /\ missed' = missed BY <1>2 DEF GroupsSame
      <3>3. k[2] \in Parts BY DEF Keys
      <3> DEFINE l == Len(plog[k[2]])
                 n == Len(plog'[k[2]])
      <3>4. base[k] \in Nat /\ base[k] <= l /\ l <= n /\ l \in Nat /\ n \in Nat
        BY <2>1, <3>1, <3>3
      <3> HIDE DEF l, n
      <3>5. base[k] <= n BY <3>4
      <3> QED BY <3>1, <3>2, <3>5 DEF n
    <2> QED BY <1>1, <1>3, <1>5, <2>1, <2>2, PassedKept
  <1>7. CASE ~ Start
    <2>1. UNCHANGED plog
      BY <1>7 DEF Process, Flusher, Sigterm, GrpcStopped, Stop, Crash, rings
    <2> QED BY <1>1, <1>2, <1>3, <1>5, <2>1, PassedSame
  <1> QED BY <1>6, <1>7

(* Every step keeps what the groups have passed. *)
LEMMA PassedStep ==
    BaseInv /\ BaseInv' /\ QuietInv /\ AlignInv /\ PassedInv /\ [Next]_vars => PassedInv'
  <1> SUFFICES ASSUME BaseInv, BaseInv', QuietInv, AlignInv, PassedInv, [Next]_vars
               PROVE  PassedInv'
    OBVIOUS
  <1>1. ASSUME NEW c \in Consumers, Consuming(c) PROVE PassedInv'
    <2> SUFFICES ASSUME ~ disturbed' PROVE PassedInv'
      BY DEF PassedInv
    <2>1. ~ disturbed
      <3>1. CASE handleSubscribe(c) \/ ConsumeRPC(c)
        BY <3>1 DEF handleSubscribe, ConsumeRPC, SubscribePartitionAt
      <3>2. ASSUME ~ (handleSubscribe(c) \/ ConsumeRPC(c)) PROVE \E s : Consume(c, s)
        BY <1>1, <3>2, Zenon DEF Consuming, addSub, NextFetch, NextWait, Wake, Send, Leave,
           Commit, Signal
      <3> QED BY <3>1, <3>2, ConsumeKeeps DEF ServerSame
    <2> QED BY <1>1, <2>1, SubscribePassed, WaitPassed, NextPassed, SendPassed, CommitPassed
            DEF Consuming
  <1>2. CASE UNCHANGED vars
    <2> SUFFICES ASSUME ~ disturbed' PROVE PassedInv'
      BY DEF PassedInv
    <2>1. UNCHANGED <<disturbed, plog, cons, managerVars>> /\ GroupsSame
      BY <1>2, StutterTyped DEF ServerSame, RingsSame
    <2>2. \A c \in Consumers : cons'[c].pc # "idle" =>
             LET k == cons'[c].key
             IN  Behind(cons'[c], plog[k[2]], base[k], sent[k] \cup missed[k])
      BY <2>1, BehindKept
    <2> QED BY <2>1, <2>2, PassedSame DEF managerVars
  <1> QED BY <1>1, <1>2, PublishPassed, ProcessPassed, Scenario DEF Next

(* No message is passed over: the offset a group resumes from, in this     *)
(* life of the broker or a later one, has only messages below it that were *)
(* sent to the group or overwritten in the ring before it read them, for   *)
(* any number of consumers that share it, fail and come back, whatever the *)
(* ring's capacity, unless requests overlapped, one came over HTTP, a      *)
(* crash lost records or an append was answered unwritten.                 *)
THEOREM NothingPassedOver == Spec => []CommittedWasSent
  <1>1. PassedInv => CommittedWasSent
    BY DEF PassedInv, Passed, CommittedWasSent
  <1>2. Spec => []PassedInv
    BY PassedInit, PassedStep, AlignHolds, PTL DEF Spec
  <1> QED BY <1>1, <1>2, PTL

-----------------------------------------------------------------------------
(* Another reader of a ring: ReplaySession, page by page (Replay).         *)

(* What Picked takes, element by element *)
LEMMA PickedSteps ==
    ASSUME NEW X, NEW s \in Seq(X), NEW K
    PROVE  \E m : /\ m[0] = <<>> /\ Picked(s, K) = m[Len(s)]
                  /\ \A n \in 1 .. Len(s) :
                        m[n] = IF n \in K THEN Append(m[n - 1], s[n]) ELSE m[n - 1]
  <1> DEFINE Grow(x, n) == IF n \in K THEN Append(x, s[n]) ELSE x
  <1> HIDE DEF Grow
  <1> DEFINE Good(k, t) == /\ t[0] = <<>>
                           /\ \A n \in 1 .. k : t[n] = Grow(t[n - 1], n)
             T == {k \in Nat : \E t : Good(k, t)}
  <1>1. 0 \in T
    <2>1. Good(0, [n \in 0 .. 0 |-> <<>>]) OBVIOUS
    <2> HIDE DEF Good
    <2> QED BY <2>1
  <1>2. ASSUME NEW k \in T PROVE k + 1 \in T
    <2>1. PICK t : Good(k, t) OBVIOUS
    <2> DEFINE u == [n \in 0 .. k + 1 |-> IF n = k + 1 THEN Grow(t[k], k + 1) ELSE t[n]]
    <2>2. u[0] = <<>> BY <2>1
    <2>3. ASSUME NEW n \in 1 .. k + 1 PROVE u[n] = Grow(u[n - 1], n)
      <3>1. CASE n = k + 1
        <4>1. n - 1 = k /\ k \in 0 .. k + 1 /\ k # k + 1 BY <3>1
        <4>2. u[n - 1] = t[k] /\ u[n] = Grow(t[k], k + 1) BY <3>1, <4>1
        <4> QED BY <3>1, <4>2
      <3>2. CASE n # k + 1
        <4>1. n \in 1 .. k /\ n \in 0 .. k + 1 /\ n - 1 \in 0 .. k + 1 /\ n - 1 # k + 1
          BY <3>2
        <4>2. u[n] = t[n] /\ u[n - 1] = t[n - 1] BY <3>2, <4>1
        <4> QED BY <2>1, <4>1, <4>2
      <3> QED BY <3>1, <3>2
    <2>4. Good(k + 1, u) BY <2>2, <2>3
    <2> HIDE DEF Good, u
    <2> QED BY <2>4
  <1>3. T = Nat
    <2>1. T \in SUBSET Nat OBVIOUS
    <2> HIDE DEF T
    <2> QED BY <1>1, <1>2, <2>1, Induction
  <1>4. PICK t : Good(Len(s), t)
    <2>1. Len(s) \in T
      <3>1. Len(s) \in Nat OBVIOUS
      <3> HIDE DEF T
      <3> QED BY <1>3, <3>1
    <2> HIDE DEF Good
    <2> QED BY <2>1
  <1> DEFINE Def(f) == [n \in 0 .. Len(s) |-> IF n = 0 THEN <<>> ELSE Grow(f[n - 1], n)]
             v == [n \in 0 .. Len(s) |-> t[n]]
             r == CHOOSE f : f = Def(f)
  <1>5. v = Def(v)
    <2>1. ASSUME NEW n \in 0 .. Len(s)
          PROVE  v[n] = IF n = 0 THEN <<>> ELSE Grow(v[n - 1], n)
      <3>1. CASE n = 0 BY <1>4, <3>1
      <3>2. CASE n # 0
        <4>1. n \in 1 .. Len(s) /\ n - 1 \in 0 .. Len(s) BY <3>2
        <4> QED BY <1>4, <3>2, <4>1
      <3> QED BY <3>1, <3>2
    <2> QED BY <2>1
  <1>6. r = Def(r)
    <2> HIDE DEF Def
    <2> QED BY <1>5
  <1>7. Picked(s, K) = r[Len(s)] BY DEF Picked, Grow
  <1> HIDE DEF r
  <1>8. r[0] = <<>> BY <1>6
  <1>9. ASSUME NEW n \in 1 .. Len(s) PROVE r[n] = Grow(r[n - 1], n)
    <2>1. n \in 0 .. Len(s) /\ n # 0 OBVIOUS
    <2> QED BY <1>6, <2>1
  <1> QED BY <1>7, <1>8, <1>9 DEF Grow

(* It takes elements of the sequence, *)
LEMMA PickedType ==
    ASSUME NEW X, NEW s \in Seq(X), NEW K
    PROVE  Picked(s, K) \in Seq(X)
  <1>1. PICK m : /\ m[0] = <<>> /\ Picked(s, K) = m[Len(s)]
                 /\ \A n \in 1 .. Len(s) :
                       m[n] = IF n \in K THEN Append(m[n - 1], s[n]) ELSE m[n - 1]
    BY PickedSteps
  <1> DEFINE T == {n \in Nat : n <= Len(s) => m[n] \in Seq(X)}
  <1>2. 0 \in T
    <2>1. <<>> \in Seq(X) OBVIOUS
    <2> QED BY <1>1, <2>1
  <1>3. ASSUME NEW n \in T PROVE n + 1 \in T
    <2> SUFFICES ASSUME n + 1 <= Len(s) PROVE m[n + 1] \in Seq(X)
      OBVIOUS
    <2>1. n \in Nat /\ n <= Len(s) /\ n + 1 \in 1 .. Len(s) /\ (n + 1) - 1 = n OBVIOUS
    <2>2. m[n] \in Seq(X) /\ s[n + 1] \in X BY <2>1
    <2>3. m[n + 1] = IF n + 1 \in K THEN Append(m[n], s[n + 1]) ELSE m[n] BY <1>1, <2>1
    <2> QED BY <2>2, <2>3
  <1>4. T = Nat
    <2>1. T \in SUBSET Nat OBVIOUS
    <2> HIDE DEF T
    <2> QED BY <1>2, <1>3, <2>1, Induction
  <1>5. Len(s) \in Nat OBVIOUS
  <1> QED BY <1>1, <1>4, <1>5

(* nothing from an empty one, *)
LEMMA PickedNone ==
    ASSUME NEW X, NEW s \in Seq(X), NEW K, Len(s) = 0
    PROVE  Picked(s, K) = <<>>
  <1>1. PICK m : /\ m[0] = <<>> /\ Picked(s, K) = m[Len(s)]
                 /\ \A n \in 1 .. Len(s) :
                       m[n] = IF n \in K THEN Append(m[n - 1], s[n]) ELSE m[n - 1]
    <2>1. s \in Seq(X) OBVIOUS
    <2> QED BY ONLY <2>1, PickedSteps
  <1> QED BY <1>1

(* and the last element after those before it. *)
LEMMA PickedNext ==
    ASSUME NEW X, NEW s \in Seq(X), NEW x \in Seq(X), NEW K, NEW L,
           Len(x) = Len(s) + 1,
           \A n \in 1 .. Len(s) : x[n] = s[n] /\ (n \in L <=> n \in K)
    PROVE  Picked(x, L) = IF Len(x) \in L THEN Append(Picked(s, K), x[Len(x)])
                            ELSE Picked(s, K)
  <1>2. PICK m : /\ m[0] = <<>> /\ Picked(s, K) = m[Len(s)]
                 /\ \A n \in 1 .. Len(s) :
                       m[n] = IF n \in K THEN Append(m[n - 1], s[n]) ELSE m[n - 1]
    BY PickedSteps
  <1>3. PICK o : /\ o[0] = <<>> /\ Picked(x, L) = o[Len(x)]
                 /\ \A n \in 1 .. Len(x) :
                       o[n] = IF n \in L THEN Append(o[n - 1], x[n]) ELSE o[n - 1]
    <2>1. x \in Seq(X) OBVIOUS
    <2> QED BY ONLY <2>1, PickedSteps
  <1> DEFINE T == {n \in Nat : n <= Len(s) => o[n] = m[n]}
  <1>4. 0 \in T BY <1>2, <1>3
  <1>5. ASSUME NEW n \in T PROVE n + 1 \in T
    <2> SUFFICES ASSUME n + 1 <= Len(s) PROVE o[n + 1] = m[n + 1]
      OBVIOUS
    <2>1. n \in Nat /\ n <= Len(s) /\ n + 1 \in 1 .. Len(s) /\ (n + 1) - 1 = n
          /\ n + 1 \in 1 .. Len(x)
      OBVIOUS
    <2>2. o[n] = m[n] /\ x[n + 1] = s[n + 1] /\ (n + 1 \in L <=> n + 1 \in K) BY <2>1
    <2> QED BY <1>2, <1>3, <2>1, <2>2
  <1>6. T = Nat
    <2>1. T \in SUBSET Nat OBVIOUS
    <2> HIDE DEF T
    <2> QED BY <1>4, <1>5, <2>1, Induction
  <1>7. Len(s) \in Nat /\ Len(x) \in 1 .. Len(x) /\ Len(x) - 1 = Len(s) OBVIOUS
  <1>8. o[Len(s)] = m[Len(s)] BY <1>6, <1>7
  <1>9. o[Len(x)] = IF Len(x) \in L THEN Append(o[Len(s)], x[Len(x)]) ELSE o[Len(s)]
    BY <1>3, <1>7
  <1> QED BY <1>2, <1>3, <1>8, <1>9

-----------------------------------------------------------------------------
(* The filter, and what a scan and a whole replay pick, as functions of    *)
(* their arguments                                                         *)
Payloads == {Ours, Other}
Passes(f, m) == f => m.payload = Ours
MatchesIn(f, s) == Picked(s, {i \in 1 .. Len(s) : Passes(f, s[i])})
Upto(n) == [i \in 1 .. n |-> i - 1]
WantedOf(g, f, n) == Picked(Upto(n), {i \in 1 .. n : f => g[i] = Ours})
OffsetsOf(s) == [i \in 1 .. Len(s) |-> s[i].offset]

(* The first n offsets *)
LEMMA UptoSeq ==
    ASSUME NEW n \in Nat
    PROVE  Upto(n) \in Seq(Nat) /\ Len(Upto(n)) = n /\ \A i \in 1 .. n : Upto(n)[i] = i - 1
  BY DEF Upto

(* One more message to look at *)
LEMMA MatchesNext ==
    ASSUME NEW X, NEW s \in Seq(X), NEW x \in X, NEW f
    PROVE  MatchesIn(f, Append(s, x))
              = IF Passes(f, x) THEN Append(MatchesIn(f, s), x) ELSE MatchesIn(f, s)
  <1> DEFINE y == Append(s, x)
             K == {i \in 1 .. Len(s) : Passes(f, s[i])}
             L == {i \in 1 .. Len(y) : Passes(f, y[i])}
  <1>1. /\ y \in Seq(X) /\ Len(y) = Len(s) + 1 /\ y[Len(y)] = x
        /\ \A n \in 1 .. Len(s) : y[n] = s[n]
    OBVIOUS
  <1> HIDE DEF y
  <1>2. \A n \in 1 .. Len(s) : n \in L <=> n \in K BY <1>1
  <1>3. Len(y) \in L <=> Passes(f, x)
    <2>1. Len(y) \in 1 .. Len(y) BY <1>1
    <2> QED BY <1>1, <2>1
  <1> HIDE DEF K, L
  <1>4. Picked(y, L) = IF Len(y) \in L THEN Append(Picked(s, K), y[Len(y)])
                         ELSE Picked(s, K)
    BY <1>1, <1>2, PickedNext
  <1>5. MatchesIn(f, s) = Picked(s, K) BY DEF MatchesIn, K
  <1>6. MatchesIn(f, y) = Picked(y, L) BY DEF MatchesIn, L
  <1> QED BY <1>1, <1>3, <1>4, <1>5, <1>6 DEF y

(* Matches are messages of the batch. *)
LEMMA MatchesType ==
    ASSUME NEW X, NEW s \in Seq(X), NEW f
    PROVE  MatchesIn(f, s) \in Seq(X) /\ (Len(s) = 0 => MatchesIn(f, s) = <<>>)
  BY PickedType, PickedNone DEF MatchesIn

(* One more offset wanted, if it is one of ours *)
LEMMA WantedNext ==
    ASSUME NEW g, NEW f, NEW n \in Nat
    PROVE  WantedOf(g, f, n + 1)
              = IF f => g[n + 1] = Ours THEN Append(WantedOf(g, f, n), n)
                ELSE WantedOf(g, f, n)
  <1> DEFINE s == Upto(n)
             x == Upto(n + 1)
             K == {i \in 1 .. n : f => g[i] = Ours}
             L == {i \in 1 .. n + 1 : f => g[i] = Ours}
  <1>1. s \in Seq(Nat) /\ Len(s) = n /\ \A i \in 1 .. n : s[i] = i - 1 BY UptoSeq
  <1>2. x \in Seq(Nat) /\ Len(x) = n + 1 /\ \A i \in 1 .. n + 1 : x[i] = i - 1
    <2>1. n + 1 \in Nat OBVIOUS
    <2> QED BY <2>1, UptoSeq
  <1> HIDE DEF s, x
  <1>3. \A i \in 1 .. n : x[i] = s[i] /\ (i \in L <=> i \in K) BY <1>1, <1>2
  <1>4. n + 1 \in L <=> (f => g[n + 1] = Ours) OBVIOUS
  <1>5. x[n + 1] = n BY <1>2
  <1> HIDE DEF K, L
  <1>6. Picked(x, L) = IF Len(x) \in L THEN Append(Picked(s, K), x[Len(x)])
                         ELSE Picked(s, K)
    BY <1>1, <1>2, <1>3, PickedNext
  <1>7. WantedOf(g, f, n) = Picked(s, K) BY DEF WantedOf, s, K
  <1>8. WantedOf(g, f, n + 1) = Picked(x, L) BY DEF WantedOf, x, L
  <1> QED BY <1>2, <1>4, <1>5, <1>6, <1>7, <1>8

(* What is wanted are offsets. *)
LEMMA WantedType ==
    ASSUME NEW g, NEW f, NEW n \in Nat
    PROVE  WantedOf(g, f, n) \in Seq(Nat) /\ (n = 0 => WantedOf(g, f, n) = <<>>)
  BY UptoSeq, PickedType, PickedNone DEF WantedOf

(* A longer log does not change what was wanted of it. *)
LEMMA WantedKept ==
    ASSUME NEW g, NEW more, NEW f, NEW n \in Nat, \A i \in 1 .. n : more[i] = g[i]
    PROVE  WantedOf(more, f, n) = WantedOf(g, f, n)
  <1>1. {i \in 1 .. n : f => more[i] = Ours} = {i \in 1 .. n : f => g[i] = Ours}
    OBVIOUS
  <1> QED BY <1>1 DEF WantedOf

(* The offsets of a batch with one message more *)
LEMMA OffsetsAppend ==
    ASSUME NEW s \in Seq(Slots(Payloads)), NEW x \in Slots(Payloads)
    PROVE  /\ OffsetsOf(s) \in Seq(Nat) /\ Len(OffsetsOf(s)) = Len(s)
           /\ OffsetsOf(Append(s, x)) = Append(OffsetsOf(s), x.offset)
  <1> DEFINE y == Append(s, x)
  <1>1. /\ y \in Seq(Slots(Payloads)) /\ Len(y) = Len(s) + 1 /\ y[Len(s) + 1] = x
        /\ \A i \in 1 .. Len(s) : y[i] = s[i]
    OBVIOUS
  <1> HIDE DEF y
  <1>2. ASSUME NEW z \in Seq(Slots(Payloads))
        PROVE  /\ OffsetsOf(z) \in Seq(Nat) /\ Len(OffsetsOf(z)) = Len(z)
               /\ \A i \in 1 .. Len(z) : OffsetsOf(z)[i] = z[i].offset
    <2>1. ASSUME NEW i \in 1 .. Len(z) PROVE z[i].offset \in Nat
      <3>1. z[i] \in Slots(Payloads) OBVIOUS
      <3> QED BY <3>1 DEF Slots
    <2> QED BY <2>1 DEF OffsetsOf
  <1>3. x.offset \in Nat BY DEF Slots
  <1> DEFINE o == OffsetsOf(s)
             q == OffsetsOf(y)
  <1>4. /\ o \in Seq(Nat) /\ Len(o) = Len(s) /\ \A i \in 1 .. Len(s) : o[i] = s[i].offset
        /\ q \in Seq(Nat) /\ Len(q) = Len(s) + 1
        /\ \A i \in 1 .. Len(s) + 1 : q[i] = y[i].offset
    BY <1>1, <1>2
  <1> HIDE DEF o, q
  <1>5. ASSUME NEW i \in 1 .. Len(s) PROVE q[i] = o[i]
    <2>1. i \in 1 .. Len(s) + 1 OBVIOUS
    <2>2. q[i] = y[i].offset BY <1>4, <2>1
    <2> QED BY <1>1, <1>4, <2>2
  <1>6. q[Len(s) + 1] = x.offset BY <1>1, <1>4
  <1>7. q = Append(o, x.offset) BY <1>3, <1>4, <1>5, <1>6
  <1> QED BY <1>4, <1>7 DEF o, q, y

(* Appending to the second of two sequences *)
LEMMA ConcatAppend ==
    ASSUME NEW X, NEW u \in Seq(X), NEW v \in Seq(X), NEW x \in X
    PROVE  u \o Append(v, x) = Append(u \o v, x)
  <1> DEFINE y == u \o Append(v, x)
             z == Append(u \o v, x)
  <1>1. y \in Seq(X) /\ Len(y) = Len(u) + Len(v) + 1 OBVIOUS
  <1>2. z \in Seq(X) /\ Len(z) = Len(u) + Len(v) + 1 OBVIOUS
  <1>3. ASSUME NEW i \in 1 .. Len(u) + Len(v) + 1 PROVE y[i] = z[i]
    <2>1. CASE i <= Len(u) BY <2>1
    <2>2. CASE i > Len(u) /\ i <= Len(u) + Len(v) BY <2>2
    <2>3. CASE i = Len(u) + Len(v) + 1 BY <2>3
    <2> QED BY <2>1, <2>2, <2>3
  <1> HIDE DEF y, z
  <1>4. y = z BY <1>1, <1>2, <1>3
  <1> QED BY <1>4 DEF y, z

(* A prefix that is one element longer *)
LEMMA PrefixNext ==
    ASSUME NEW X, NEW s \in Seq(X), NEW n \in Nat, n + 1 <= Len(s)
    PROVE  /\ SubSeq(s, 1, n) \in Seq(X) /\ s[n + 1] \in X
           /\ SubSeq(s, 1, n + 1) = Append(SubSeq(s, 1, n), s[n + 1])
  OBVIOUS

(* What a scan finds in the stretch of the log it reads is what is wanted  *)
(* of that stretch.                                                        *)
LEMMA ScanWanted ==
    ASSUME NEW g, NEW f, NEW a \in Nat, NEW s \in Seq(Slots(Payloads)),
           \A i \in 1 .. Len(s) : s[i] = [offset |-> a + i - 1, payload |-> g[a + i]]
    PROVE  WantedOf(g, f, a) \o OffsetsOf(MatchesIn(f, s)) = WantedOf(g, f, a + Len(s))
  <1> DEFINE M(n) == MatchesIn(f, SubSeq(s, 1, n))
             W(n) == WantedOf(g, f, n)
             T == {n \in Nat : n <= Len(s) => W(a) \o OffsetsOf(M(n)) = W(a + n)}
  <1>0. \A n \in Nat : W(n) \in Seq(Nat) BY WantedType
  <1>1. 0 \in T
    <2>1. SubSeq(s, 1, 0) \in Seq(Slots(Payloads)) /\ Len(SubSeq(s, 1, 0)) = 0 OBVIOUS
    <2>2. M(0) = <<>> BY <2>1, MatchesType
    <2>3. OffsetsOf(<<>>) = <<>> BY DEF OffsetsOf
    <2>4. W(a) \in Seq(Nat) /\ a + 0 = a BY <1>0
    <2> HIDE DEF M, W
    <2> QED BY <2>2, <2>3, <2>4
  <1>2. ASSUME NEW n \in T PROVE n + 1 \in T
    <2> SUFFICES ASSUME n + 1 <= Len(s) PROVE W(a) \o OffsetsOf(M(n + 1)) = W(a + (n + 1))
      OBVIOUS
    <2> DEFINE p == SubSeq(s, 1, n)
               x == s[n + 1]
    <2>1. n \in Nat /\ n <= Len(s) /\ n + 1 \in 1 .. Len(s) OBVIOUS
    <2>2. p \in Seq(Slots(Payloads)) /\ x \in Slots(Payloads)
          /\ SubSeq(s, 1, n + 1) = Append(p, x)
      BY <2>1, PrefixNext
    <2>3. x = [offset |-> a + (n + 1) - 1, payload |-> g[a + (n + 1)]] BY <2>1
    <2>4. x.offset = a + n /\ x.payload = g[(a + n) + 1] /\ a + n \in Nat
          /\ a + (n + 1) = (a + n) + 1
      BY <2>1, <2>3
    <2> HIDE DEF p, x
    <2>5. M(n + 1) = IF Passes(f, x) THEN Append(M(n), x) ELSE M(n)
      <3>1. MatchesIn(f, Append(p, x))
               = IF Passes(f, x) THEN Append(MatchesIn(f, p), x) ELSE MatchesIn(f, p)
        <4> DEFINE S == Slots(Payloads)
        <4> HIDE DEF S
        <4>1. p \in Seq(S) /\ x \in S BY <2>2 DEF S
        <4> QED BY <4>1, MatchesNext
      <3> QED BY <2>2, <3>1 DEF p
    <2>6. M(n) \in Seq(Slots(Payloads)) BY <2>2, MatchesType DEF p
    <2>7. W((a + n) + 1) = IF f => g[(a + n) + 1] = Ours THEN Append(W(a + n), a + n)
                           ELSE W(a + n)
      BY <2>4, WantedNext
    <2>8. W(a) \o OffsetsOf(M(n)) = W(a + n) BY <2>1
    <2>9. W(a) \in Seq(Nat) /\ W(a + n) \in Seq(Nat) BY <1>0, <2>4
    <2>10. Passes(f, x) <=> (f => g[(a + n) + 1] = Ours) BY <2>4 DEF Passes
    <2> HIDE DEF M, W, T
    <2>11. CASE Passes(f, x)
      <3>1. M(n + 1) = Append(M(n), x) /\ W((a + n) + 1) = Append(W(a + n), a + n)
        BY <2>5, <2>7, <2>10, <2>11
      <3>2. OffsetsOf(M(n)) \in Seq(Nat) /\ OffsetsOf(M(n + 1)) = Append(OffsetsOf(M(n)), a + n)
        BY <2>2, <2>4, <2>6, <3>1, OffsetsAppend
      <3>3. W(a) \o Append(OffsetsOf(M(n)), a + n) = Append(W(a) \o OffsetsOf(M(n)), a + n)
        <4> DEFINE u == W(a)
                   v == OffsetsOf(M(n))
                   k == a + n
        <4>1. u \in Seq(Nat) /\ v \in Seq(Nat) /\ k \in Nat BY <2>4, <2>9, <3>2
        <4> HIDE DEF u, v, k
        <4>2. u \o Append(v, k) = Append(u \o v, k) BY <4>1, ConcatAppend
        <4> QED BY <4>2 DEF u, v, k
      <3> QED BY <2>4, <2>8, <3>1, <3>2, <3>3
    <2>12. CASE ~ Passes(f, x) BY <2>4, <2>5, <2>7, <2>8, <2>10, <2>12
    <2> QED BY <2>11, <2>12
  <1>3. T = Nat
    <2>1. T \in SUBSET Nat OBVIOUS
    <2> HIDE DEF T
    <2> QED BY <1>1, <1>2, <2>1, Induction
  <1>4. Len(s) \in Nat /\ SubSeq(s, 1, Len(s)) = s OBVIOUS
  <1>5. W(a) \o OffsetsOf(M(Len(s))) = W(a + Len(s))
    <2> DEFINE Done(n) == W(a) \o OffsetsOf(M(n)) = W(a + n)
    <2>1. T = {n \in Nat : n <= Len(s) => Done(n)} OBVIOUS
    <2> HIDE DEF Done, T
    <2>2. Done(Len(s)) BY <1>3, <1>4, <2>1
    <2> QED BY <2>2 DEF Done
  <1> QED BY <1>4, <1>5

(* A scan that has r matches in what it read had exactly r at one of them. *)
LEMMA Reaches ==
    ASSUME NEW X, NEW s \in Seq(X), NEW f, NEW r \in Nat \ {0}, Len(MatchesIn(f, s)) >= r
    PROVE  \E n \in 1 .. Len(s) : Len(MatchesIn(f, SubSeq(s, 1, n))) = r /\ Passes(f, s[n])
  <1> DEFINE M(n) == MatchesIn(f, SubSeq(s, 1, n))
             At(n) == Len(M(n)) = r /\ Passes(f, s[n])
             T == {n \in Nat : n <= Len(s) /\ Len(M(n)) >= r => \E k \in 1 .. n : At(k)}
  <1>1. 0 \in T
    <2>1. SubSeq(s, 1, 0) \in Seq(X) /\ Len(SubSeq(s, 1, 0)) = 0 OBVIOUS
    <2>2. M(0) = <<>> BY <2>1, MatchesType
    <2> HIDE DEF M
    <2> QED BY <2>2
  <1>2. ASSUME NEW n \in T PROVE n + 1 \in T
    <2> SUFFICES ASSUME n + 1 <= Len(s), Len(M(n + 1)) >= r PROVE \E k \in 1 .. n + 1 : At(k)
      <3> HIDE DEF M, At
      <3> QED OBVIOUS
    <2>1. n \in Nat /\ n <= Len(s) /\ n + 1 \in 1 .. n + 1 OBVIOUS
    <2>2. CASE Len(M(n)) >= r
      <3> HIDE DEF M, At
      <3>1. PICK k \in 1 .. n : At(k) BY <2>1, <2>2
      <3>2. k \in 1 .. n + 1 BY <2>1
      <3> QED BY <3>1, <3>2
    <2>3. CASE ~ (Len(M(n)) >= r)
      <3>1. /\ SubSeq(s, 1, n) \in Seq(X) /\ s[n + 1] \in X
            /\ SubSeq(s, 1, n + 1) = Append(SubSeq(s, 1, n), s[n + 1])
        BY <2>1, PrefixNext
      <3>2. M(n + 1) = IF Passes(f, s[n + 1]) THEN Append(M(n), s[n + 1]) ELSE M(n)
        <4> DEFINE p == SubSeq(s, 1, n)
                   x == s[n + 1]
        <4> HIDE DEF p, x
        <4>1. MatchesIn(f, Append(p, x))
                 = IF Passes(f, x) THEN Append(MatchesIn(f, p), x) ELSE MatchesIn(f, p)
          BY <3>1, MatchesNext DEF p, x
        <4> QED BY <3>1, <4>1 DEF p, x
      <3>3. M(n) \in Seq(X) BY <3>1, MatchesType
      <3> HIDE DEF M
      <3>4. Passes(f, s[n + 1]) BY <2>3, <3>2
      <3>5. Len(M(n + 1)) = Len(M(n)) + 1 BY <3>1, <3>2, <3>3, <3>4
      <3>6. Len(M(n + 1)) = r BY <2>3, <3>3, <3>5
      <3>7. At(n + 1) BY <3>4, <3>6
      <3> HIDE DEF At
      <3> QED BY <2>1, <3>7
    <2> QED BY <2>2, <2>3
  <1>3. T = Nat
    <2>1. T \in SUBSET Nat OBVIOUS
    <2> HIDE DEF T
    <2> QED BY <1>1, <1>2, <2>1, Induction
  <1>4. Len(s) \in Nat /\ SubSeq(s, 1, Len(s)) = s OBVIOUS
  <1>5. \E k \in 1 .. Len(s) : At(k)
    <2>1. Len(M(Len(s))) >= r BY <1>4
    <2> HIDE DEF M, At
    <2> QED BY <1>3, <1>4, <2>1
  <1> QED BY <1>5

-----------------------------------------------------------------------------
(* What Replay picks, with its state as arguments *)
LEMMA SamePicks ==
    /\ \A s : Matches(s) = MatchesIn(filter, s)
    /\ \A n : Wanted(n) = WantedOf(rlog, filter, n)
  BY DEF Matches, sessionFilterMatches, MatchesIn, Passes, Wanted, WantedOf, Upto

(* A scan that looked at all it read takes every match. *)
LEMMA UncutTakesAll ==
    ASSUME NEW X, NEW s \in Seq(X), Room \in Nat \ {0}, ~ (Looked(s) < Len(s))
    PROVE  Taken(s) = MatchesIn(filter, s) /\ Len(MatchesIn(filter, s)) <= Room
  <1> DEFINE M(z) == MatchesIn(filter, z)
  <1>1. M(s) \in Seq(X) BY MatchesType
  <1>2. CASE Len(M(s)) < Room
    <2>1. Taken(s) = M(s) BY <1>2, SamePicks DEF Taken
    <2> QED BY <1>1, <1>2, <2>1
  <1>3. CASE ~ (Len(M(s)) < Room)
    <2> DEFINE At(n) == Len(M(SubSeq(s, 1, n))) = Room /\ Passes(filter, s[n])
    <2>1. Len(M(s)) >= Room BY <1>1, <1>3
    <2>2. \E n \in 1 .. Len(s) : At(n) BY <2>1, Reaches
    <2>3. Looked(s) = CHOOSE n \in 1 .. Len(s) : At(n)
      BY <1>3, SamePicks DEF Looked, sessionFilterMatches, Passes
    <2> HIDE DEF At
    <2>4. Looked(s) \in 1 .. Len(s) /\ At(Looked(s)) BY <2>2, <2>3
    <2>5. Looked(s) = Len(s) BY <2>4
    <2>6. SubSeq(s, 1, Len(s)) = s OBVIOUS
    <2>7. Len(M(s)) = Room BY <2>4, <2>5, <2>6 DEF At
    <2>8. Taken(s) = SubSeq(M(s), 1, Room) BY <1>3, SamePicks DEF Taken
    <2>9. SubSeq(M(s), 1, Len(M(s))) = M(s)
      <3> HIDE DEF M
      <3> QED BY <1>1
    <2> QED BY <1>1, <2>7, <2>8, <2>9
  <1> QED BY <1>2, <1>3

-----------------------------------------------------------------------------
(* The ring shows what was published, and no page saw a tail beyond it. *)
ReplayBase ==
    /\ ring \in Rings(Payloads) /\ rlog \in Seq(Payloads) /\ Shows(ring, rlog)
    /\ filter \in BOOLEAN /\ lapped \in BOOLEAN /\ cut \in BOOLEAN
    /\ fetch.tail \in Nat /\ fetch.tail <= Len(rlog)

(* How far the replay is: what the client has is what was wanted up to its *)
(* position, and with what the Fetch in progress has found, up to where    *)
(* that one is; a page that leads to no other one has reached its tail.    *)
ReplayProgress ==
    /\ fetch \in [offset : Nat, found : Seq(Slots(Payloads)), scanned : Nat, tail : Nat]
    /\ position \in Nat /\ rpc \in {"ask", "scan", "page", "done"}
    /\ rpc # "done" => /\ position <= Len(rlog)
                       /\ returned = WantedOf(rlog, filter, position)
    /\ rpc \in {"scan", "page"} =>
          /\ position <= fetch.offset /\ fetch.offset <= Len(rlog)
          /\ returned \o OffsetsOf(fetch.found) = WantedOf(rlog, filter, fetch.offset)
    /\ rpc = "scan" => /\ Len(fetch.found) <= MaxCount
                       /\ fetch.scanned # 0 => fetch.offset > position
                       /\ ~ filter => fetch.found = <<>>
    /\ rpc = "page" /\ fetch.offset < fetch.tail =>
          fetch.found # <<>> \/ fetch.offset > position
    /\ rpc = "done" =>
          \E end \in fetch.tail .. Len(rlog) : returned = WantedOf(rlog, filter, end)

ReplayInv == ReplayBase /\ (~ lapped /\ ~ cut => ReplayProgress)

(* A replay begins at offset 0 of an empty ring. *)
LEMMA ReplayBegins == ReplayInit => ReplayInv
  <1> SUFFICES ASSUME ReplayInit PROVE ReplayInv
    OBVIOUS
  <1>1. /\ ring = newTopic /\ rlog = <<>> /\ filter \in BOOLEAN /\ rpc = "ask"
        /\ position = 0 /\ returned = <<>> /\ lapped = FALSE /\ cut = FALSE
        /\ fetch = [offset |-> 0, found |-> <<>>, scanned |-> 0, tail |-> 0]
    BY DEF ReplayInit, NoFetch
  <1>2. ReplayBase
    <2>1. ring \in Rings(Payloads) /\ Shows(ring, <<>>) BY <1>1, NewShows
    <2>2. rlog \in Seq(Payloads) /\ Shows(ring, rlog) BY <1>1, <2>1
    <2>3. lapped \in BOOLEAN /\ cut \in BOOLEAN BY <1>1
    <2>4. fetch.tail = 0 /\ Len(rlog) = 0 BY <1>1
    <2> QED BY <1>1, <2>1, <2>2, <2>3, <2>4 DEF ReplayBase
  <1>3. ReplayProgress
    <2>1. WantedOf(rlog, filter, 0) = <<>> BY WantedType
    <2> QED BY <1>1, <2>1 DEF ReplayProgress
  <1> QED BY <1>2, <1>3 DEF ReplayInv

(* Producers: the log grows behind what was wanted of it. *)
LEMMA ReplayProduce ==
    ASSUME ReplayInv, Produce
    PROVE  ReplayInv'
  <1>1. PICK m \in Payloads : ring' = Publish(ring, m) /\ rlog' = Append(rlog, m)
    BY DEF Produce, Payloads
  <1>2. UNCHANGED <<filter, rpc, position, returned, fetch, lapped, cut>> BY DEF Produce
  <1>3. /\ ring \in Rings(Payloads) /\ rlog \in Seq(Payloads) /\ Shows(ring, rlog)
        /\ fetch.tail \in Nat /\ fetch.tail <= Len(rlog)
    BY DEF ReplayInv, ReplayBase
  <1>4. /\ rlog' \in Seq(Payloads) /\ Len(rlog') = Len(rlog) + 1
        /\ \A i \in 1 .. Len(rlog) : rlog'[i] = rlog[i]
    BY <1>1, <1>3
  <1>5. ring' \in Rings(Payloads) /\ Shows(ring', rlog') BY <1>1, <1>3, PublishShows
  <1>6. ReplayBase'
    <2>1. fetch'.tail \in Nat /\ fetch'.tail <= Len(rlog') BY <1>2, <1>3, <1>4
    <2>2. filter' \in BOOLEAN /\ lapped' \in BOOLEAN /\ cut' \in BOOLEAN
      BY <1>2 DEF ReplayInv, ReplayBase
    <2> QED BY <1>4, <1>5, <2>1, <2>2 DEF ReplayBase
  <1>7. ASSUME NEW n \in Nat, n <= Len(rlog)
        PROVE  WantedOf(rlog', filter, n) = WantedOf(rlog, filter, n)
    <2>1. \A i \in 1 .. n : rlog'[i] = rlog[i] BY <1>3, <1>4, <1>7
    <2> QED BY <2>1, WantedKept
  <1>8. ASSUME ReplayProgress PROVE ReplayProgress'
    <2>1. /\ fetch \in [offset : Nat, found : Seq(Slots(Payloads)), scanned : Nat, tail : Nat]
          /\ position \in Nat /\ rpc \in {"ask", "scan", "page", "done"} /\ Len(rlog) \in Nat
      BY <1>3, <1>8 DEF ReplayProgress
    <2>2. rpc # "done" => /\ position <= Len(rlog')
                          /\ returned = WantedOf(rlog', filter, position)
      BY <1>4, <1>7, <1>8, <2>1 DEF ReplayProgress
    <2>3. rpc \in {"scan", "page"} =>
          /\ position <= fetch.offset /\ fetch.offset <= Len(rlog')
          /\ returned \o OffsetsOf(fetch.found) = WantedOf(rlog', filter, fetch.offset)
      <3> SUFFICES ASSUME rpc \in {"scan", "page"}
                   PROVE  /\ position <= fetch.offset /\ fetch.offset <= Len(rlog')
                          /\ returned \o OffsetsOf(fetch.found)
                                = WantedOf(rlog', filter, fetch.offset)
        OBVIOUS
      <3>1. /\ position <= fetch.offset /\ fetch.offset <= Len(rlog)
            /\ returned \o OffsetsOf(fetch.found) = WantedOf(rlog, filter, fetch.offset)
        BY <1>8 DEF ReplayProgress
      <3>2. fetch.offset \in Nat BY <2>1
      <3>3. WantedOf(rlog', filter, fetch.offset) = WantedOf(rlog, filter, fetch.offset)
        BY <1>7, <3>1, <3>2
      <3>4. fetch.offset <= Len(rlog') BY <1>4, <2>1, <3>1, <3>2
      <3> QED BY <3>1, <3>3, <3>4
    <2>4. ASSUME rpc = "done"
          PROVE  \E end \in fetch.tail .. Len(rlog') : returned = WantedOf(rlog', filter, end)
      <3>1. PICK end \in fetch.tail .. Len(rlog) : returned = WantedOf(rlog, filter, end)
        BY <1>8, <2>4 DEF ReplayProgress
      <3>2. end \in Nat /\ end <= Len(rlog) /\ end \in fetch.tail .. Len(rlog')
        BY <1>3, <1>4, <2>1, <3>1
      <3>3. WantedOf(rlog', filter, end) = WantedOf(rlog, filter, end) BY <1>7, <3>2
      <3> QED BY <3>1, <3>2, <3>3
    <2> QED BY <1>2, <1>8, <2>1, <2>2, <2>3, <2>4 DEF ReplayProgress, OffsetsOf
  <1> QED BY <1>2, <1>6, <1>8 DEF ReplayInv

(* A Fetch begins where the client is, with the tail of the moment. *)
LEMMA ReplayStart ==
    ASSUME ReplayInv, StartFetch
    PROVE  ReplayInv'
  <1>1. /\ rpc = "ask" /\ rpc' = "scan"
        /\ fetch' = [offset |-> position, found |-> <<>>, scanned |-> 0, tail |-> ring.tail]
        /\ UNCHANGED <<ring, rlog, filter, position, returned, lapped, cut>>
    BY DEF StartFetch, NoFetch
  <1>2. ring.tail = Len(rlog) /\ Len(rlog) \in Nat BY DEF ReplayInv, ReplayBase, Shows
  <1>3. fetch'.tail = Len(rlog) BY <1>1, <1>2
  <1>4. ReplayBase' BY <1>1, <1>2, <1>3 DEF ReplayInv, ReplayBase
  <1>5. ASSUME ReplayProgress PROVE ReplayProgress'
    <2>1. /\ position \in Nat /\ position <= Len(rlog)
          /\ returned = WantedOf(rlog, filter, position)
      BY <1>1, <1>5 DEF ReplayProgress
    <2>2. /\ fetch'.offset = position /\ fetch'.found = <<>> /\ fetch'.scanned = 0
          /\ fetch' \in [offset : Nat, found : Seq(Slots(Payloads)), scanned : Nat, tail : Nat]
      BY <1>1, <1>2, <2>1
    <2>3. returned \o OffsetsOf(<<>>) = returned
      <3>1. returned \in Seq(Nat) BY <2>1, WantedType
      <3>2. OffsetsOf(<<>>) = <<>> BY DEF OffsetsOf
      <3> QED BY <3>1, <3>2
    <2>4. MaxCount \in Nat /\ Len(<<>>) = 0 BY ReplayAssumption
    <2> QED BY <1>1, <1>2, <2>1, <2>2, <2>3, <2>4 DEF ReplayProgress
  <1> QED BY <1>1, <1>4, <1>5 DEF ReplayInv

(* What a Fetch of the ring that begins no earlier than its head reads *)
LEMMA ReadsLog ==
    ASSUME ReplayBase, NEW o \in Nat, NEW max \in Nat \ {0}, ~ (o < ring.head), o <= Len(rlog)
    PROVE  LET s == Fetch(ring, o, max)
           IN  /\ s \in Seq(Slots(Payloads)) /\ o + Len(s) <= Len(rlog)
               /\ s = <<>> => o = Len(rlog)
               /\ WantedOf(rlog, filter, o) \o OffsetsOf(MatchesIn(filter, s))
                     = WantedOf(rlog, filter, o + Len(s))
  <1> DEFINE s == Fetch(ring, o, max)
             b == From(ring, o)
  <1>1. /\ ring \in Rings(Payloads) /\ rlog \in Seq(Payloads) /\ Shows(ring, rlog)
        /\ ring.head \in Nat /\ ring.tail = Len(rlog)
    BY DEF ReplayBase, Rings, Shows
  <1>2. b = o BY DEF From
  <1>3. /\ s \in Seq(Slots(Payloads))
        /\ \A i \in 1 .. Len(s) : s[i] = [offset |-> b + i - 1, payload |-> rlog[b + i]]
        /\ Len(s) > 0 => b + Len(s) <= Len(rlog)
    BY <1>1, FetchReads
  <1>4. s = <<>> => o = Len(rlog)
    <2> SUFFICES ASSUME s = <<>>, o < Len(rlog) PROVE FALSE
      BY <1>1
    <2> DEFINE e == IF o + max > ring.tail THEN ring.tail ELSE o + max
    <2>1. s = [i \in 1 .. e - o |-> ring.messages[(o + i - 1) % Cap]]
      BY <1>2 DEF Fetch, From
    <2>2. e - o \in Nat /\ e - o >= 1 BY <1>1
    <2> HIDE DEF s, e
    <2>3. 1 \in DOMAIN s BY <2>1, <2>2
    <2> QED BY <2>3
  <1> HIDE DEF s, b
  <1>5. o + Len(s) <= Len(rlog) BY <1>1, <1>2, <1>3
  <1>6. WantedOf(rlog, filter, o) \o OffsetsOf(MatchesIn(filter, s))
           = WantedOf(rlog, filter, o + Len(s))
    BY <1>2, <1>3, ScanWanted
  <1> QED BY <1>3, <1>4, <1>5, <1>6 DEF s

(* Without a filter everything matches. *)
LEMMA AllMatch ==
    ASSUME NEW X, NEW s \in Seq(X), NEW f, ~ f
    PROVE  MatchesIn(f, s) = s
  <1> DEFINE M(n) == MatchesIn(f, SubSeq(s, 1, n))
             T == {n \in Nat : n <= Len(s) => M(n) = SubSeq(s, 1, n)}
  <1>1. 0 \in T
    <2>1. SubSeq(s, 1, 0) \in Seq(X) /\ Len(SubSeq(s, 1, 0)) = 0 /\ SubSeq(s, 1, 0) = <<>>
      OBVIOUS
    <2>2. M(0) = <<>> BY <2>1, MatchesType
    <2> QED BY <2>1, <2>2
  <1>2. ASSUME NEW n \in T PROVE n + 1 \in T
    <2> SUFFICES ASSUME n + 1 <= Len(s) PROVE M(n + 1) = SubSeq(s, 1, n + 1)
      OBVIOUS
    <2> DEFINE p == SubSeq(s, 1, n)
               x == s[n + 1]
               q == SubSeq(s, 1, n + 1)
    <2>1. n \in Nat /\ n <= Len(s) OBVIOUS
    <2>2. p \in Seq(X) /\ x \in X /\ q = Append(p, x) BY <2>1, PrefixNext
    <2>3. MatchesIn(f, p) = p BY <2>1
    <2> HIDE DEF p, x, q
    <2>4. MatchesIn(f, Append(p, x))
             = IF Passes(f, x) THEN Append(MatchesIn(f, p), x) ELSE MatchesIn(f, p)
      BY <2>2, MatchesNext
    <2>5. Passes(f, x) BY DEF Passes
    <2>6. MatchesIn(f, q) = q BY <2>2, <2>3, <2>4, <2>5
    <2> QED BY <2>6 DEF q
  <1>3. T = Nat
    <2>1. T \in SUBSET Nat OBVIOUS
    <2> HIDE DEF T
    <2> QED BY <1>1, <1>2, <2>1, Induction
  <1>4. Len(s) \in Nat /\ SubSeq(s, 1, Len(s)) = s OBVIOUS
  <1>5. M(Len(s)) = SubSeq(s, 1, Len(s))
    <2> HIDE DEF M
    <2> QED BY <1>3, <1>4
  <1> QED BY <1>4, <1>5

(* Offsets of two batches, after what was there before *)
LEMMA OffsetsConcat ==
    ASSUME NEW r \in Seq(Nat), NEW u \in Seq(Slots(Payloads)), NEW v \in Seq(Slots(Payloads))
    PROVE  r \o OffsetsOf(u \o v) = (r \o OffsetsOf(u)) \o OffsetsOf(v)
  <1>1. ASSUME NEW z \in Seq(Slots(Payloads))
        PROVE  /\ OffsetsOf(z) \in Seq(Nat) /\ Len(OffsetsOf(z)) = Len(z)
               /\ \A i \in 1 .. Len(z) : OffsetsOf(z)[i] = z[i].offset
    <2>1. ASSUME NEW i \in 1 .. Len(z) PROVE z[i].offset \in Nat
      <3>1. z[i] \in Slots(Payloads) OBVIOUS
      <3> QED BY <3>1 DEF Slots
    <2> QED BY <2>1 DEF OffsetsOf
  <1> DEFINE w == u \o v
             a == OffsetsOf(u)
             b == OffsetsOf(v)
             c == OffsetsOf(w)
  <1>2. /\ w \in Seq(Slots(Payloads)) /\ Len(w) = Len(u) + Len(v)
        /\ \A i \in 1 .. Len(w) : w[i] = IF i <= Len(u) THEN u[i] ELSE v[i - Len(u)]
    OBVIOUS
  <1> HIDE DEF w
  <1>3. /\ a \in Seq(Nat) /\ Len(a) = Len(u) /\ \A i \in 1 .. Len(u) : a[i] = u[i].offset
        /\ b \in Seq(Nat) /\ Len(b) = Len(v) /\ \A i \in 1 .. Len(v) : b[i] = v[i].offset
        /\ c \in Seq(Nat) /\ Len(c) = Len(w) /\ \A i \in 1 .. Len(w) : c[i] = w[i].offset
    BY <1>1, <1>2
  <1> HIDE DEF a, b, c
  <1>4. ASSUME NEW i \in 1 .. Len(w) PROVE c[i] = IF i <= Len(a) THEN a[i] ELSE b[i - Len(a)]
    <2>1. CASE i <= Len(u)
      <3>1. i \in 1 .. Len(u) BY <2>1
      <3> QED BY <1>2, <1>3, <2>1, <3>1
    <2>2. CASE i > Len(u)
      <3>1. i - Len(u) \in 1 .. Len(v) /\ ~ (i <= Len(u)) BY <1>2, <2>2
      <3>2. c[i] = w[i].offset /\ w[i] = v[i - Len(u)] BY <1>2, <1>3, <3>1
      <3>3. b[i - Len(u)] = v[i - Len(u)].offset BY <1>3, <3>1
      <3> QED BY <1>3, <3>1, <3>2, <3>3
    <2> QED BY <2>1, <2>2
  <1>5. c = a \o b
    <2> DEFINE d == a \o b
    <2>1. /\ d \in Seq(Nat) /\ Len(d) = Len(a) + Len(b)
          /\ \A i \in 1 .. Len(a) + Len(b) :
                d[i] = IF i <= Len(a) THEN a[i] ELSE b[i - Len(a)]
      <3>1. a \in Seq(Nat) /\ b \in Seq(Nat) BY <1>3
      <3> QED BY ONLY <3>1, ConcatProperties, Zenon
    <2> HIDE DEF d
    <2>2. ASSUME NEW i \in 1 .. Len(c) PROVE c[i] = d[i]
      <3>1. i \in 1 .. Len(w) /\ i \in 1 .. Len(a) + Len(b) BY <1>2, <1>3
      <3> QED BY <1>4, <2>1, <3>1
    <2>3. c = d BY <1>2, <1>3, <2>1, <2>2
    <2> QED BY <2>3 DEF d
  <1>6. r \o (a \o b) = (r \o a) \o b
    <2>1. r \in Seq(Nat) /\ a \in Seq(Nat) /\ b \in Seq(Nat) BY <1>3
    <2> DEFINE y == r \o (a \o b)
               z == (r \o a) \o b
    <2>2. y \in Seq(Nat) /\ Len(y) = Len(r) + Len(a) + Len(b) BY <2>1
    <2>3. z \in Seq(Nat) /\ Len(z) = Len(r) + Len(a) + Len(b) BY <2>1
    <2>4. ASSUME NEW i \in 1 .. Len(r) + Len(a) + Len(b) PROVE y[i] = z[i]
      <3>1. CASE i <= Len(r) BY <2>1, <3>1
      <3>2. CASE i > Len(r) /\ i <= Len(r) + Len(a) BY <2>1, <3>2
      <3>3. CASE i > Len(r) + Len(a) BY <2>1, <3>3
      <3> QED BY <2>1, <3>1, <3>2, <3>3
    <2> HIDE DEF y, z
    <2>5. y = z BY <2>2, <2>3, <2>4
    <2> QED BY <2>5 DEF y, z
  <1> QED BY <1>5, <1>6 DEF a, b, c, w

(* A round of the filtered scan *)
LEMMA ReplayScan ==
    ASSUME ReplayInv, Scan
    PROVE  ReplayInv'
  <1> DEFINE s == Fetch(ring, fetch.offset, ScanSize)
  <1>1. /\ rpc = "scan" /\ filter /\ s # <<>> /\ Goes
        /\ fetch' = [fetch EXCEPT !.offset = @ + Len(s), !.scanned = @ + Looked(s),
                                  !.found = @ \o Taken(s)]
        /\ lapped' = (lapped \/ fetch.offset < ring.head)
        /\ cut' = (cut \/ Looked(s) < Len(s))
        /\ UNCHANGED <<ring, rlog, filter, rpc, position, returned>>
    BY DEF Scan
  <1> HIDE DEF s
  <1>2. ReplayBase /\ (~ lapped /\ ~ cut => ReplayProgress) BY DEF ReplayInv
  <1>3. ScanSize \in Nat \ {0} /\ MaxCount \in Nat BY ReplayAssumption
  <1>4. ASSUME ~ lapped', ~ cut' PROVE ReplayProgress' /\ fetch'.tail = fetch.tail
    <2>1. ReplayProgress /\ ~ (fetch.offset < ring.head) /\ ~ (Looked(s) < Len(s))
      BY <1>1, <1>2, <1>4
    <2>2. /\ fetch \in [offset : Nat, found : Seq(Slots(Payloads)), scanned : Nat, tail : Nat]
          /\ fetch.offset \in Nat /\ fetch.found \in Seq(Slots(Payloads))
          /\ fetch.scanned \in Nat /\ fetch.tail \in Nat
          /\ position \in Nat /\ position <= fetch.offset /\ fetch.offset <= Len(rlog)
          /\ returned = WantedOf(rlog, filter, position) /\ position <= Len(rlog)
          /\ returned \o OffsetsOf(fetch.found) = WantedOf(rlog, filter, fetch.offset)
          /\ Len(fetch.found) <= MaxCount
      BY <1>1, <2>1 DEF ReplayProgress
    <2>3. /\ s \in Seq(Slots(Payloads)) /\ fetch.offset + Len(s) <= Len(rlog)
          /\ WantedOf(rlog, filter, fetch.offset) \o OffsetsOf(MatchesIn(filter, s))
                = WantedOf(rlog, filter, fetch.offset + Len(s))
      BY <1>2, <1>3, <2>1, <2>2, ReadsLog DEF s
    <2>4. Len(s) \in Nat \ {0} BY <1>1, <2>3
    <2>5. Room \in Nat \ {0} /\ Room = MaxCount - Len(fetch.found)
      BY <1>1, <1>3, <2>2 DEF Goes, Room
    <2>6. Taken(s) = MatchesIn(filter, s) /\ Len(MatchesIn(filter, s)) <= Room
      BY <2>1, <2>3, <2>5, UncutTakesAll
    <2> DEFINE m == MatchesIn(filter, s)
    <2>7. m \in Seq(Slots(Payloads)) BY <2>3, MatchesType
    <2> HIDE DEF m
    <2>8. Looked(s) \in Nat
      <3>1. CASE Len(Matches(s)) < Room BY <2>4, <3>1 DEF Looked
      <3>2. CASE ~ (Len(Matches(s)) < Room)
        <4> DEFINE At(n) == Len(MatchesIn(filter, SubSeq(s, 1, n))) = Room
                            /\ Passes(filter, s[n])
        <4>1. Len(MatchesIn(filter, s)) >= Room
          BY <2>5, <2>7, <3>2, SamePicks DEF m
        <4>2. \E n \in 1 .. Len(s) : At(n) BY <2>3, <2>5, <4>1, Reaches
        <4>3. Looked(s) = CHOOSE n \in 1 .. Len(s) : At(n)
          BY <3>2, SamePicks DEF Looked, sessionFilterMatches, Passes
        <4> HIDE DEF At
        <4> QED BY <2>4, <4>2, <4>3
      <3> QED BY <3>1, <3>2
    <2>9. /\ fetch'.offset = fetch.offset + Len(s) /\ fetch'.found = fetch.found \o m
          /\ fetch'.scanned = fetch.scanned + Looked(s) /\ fetch'.tail = fetch.tail
          /\ fetch' = [offset |-> fetch.offset + Len(s), found |-> fetch.found \o m,
                       scanned |-> fetch.scanned + Looked(s), tail |-> fetch.tail]
      BY <1>1, <2>2, <2>6 DEF m
    <2>10. /\ fetch.found \o m \in Seq(Slots(Payloads))
           /\ Len(fetch.found \o m) = Len(fetch.found) + Len(m)
      BY <2>2, <2>7
    <2>11. fetch' \in [offset : Nat, found : Seq(Slots(Payloads)), scanned : Nat, tail : Nat]
      BY <2>2, <2>4, <2>8, <2>9, <2>10
    <2>12. Len(fetch'.found) <= MaxCount
      BY <1>3, <2>2, <2>5, <2>6, <2>7, <2>9, <2>10 DEF m
    <2>13. returned \in Seq(Nat) BY <2>2, WantedType
    <2>14. returned \o OffsetsOf(fetch.found \o m)
              = (returned \o OffsetsOf(fetch.found)) \o OffsetsOf(m)
      BY <2>2, <2>7, <2>13, OffsetsConcat
    <2>15. returned \o OffsetsOf(fetch'.found) = WantedOf(rlog, filter, fetch'.offset)
      BY <2>2, <2>3, <2>9, <2>14 DEF m
    <2>16. fetch'.offset > position /\ fetch'.offset <= Len(rlog)
      BY <2>2, <2>3, <2>4, <2>9
    <2>17. position <= fetch'.offset BY <2>2, <2>4, <2>9
    <2> QED BY <1>1, <2>2, <2>9, <2>11, <2>12, <2>15, <2>16, <2>17 DEF ReplayProgress
  <1>5. ReplayBase'
    <2>1. fetch'.tail = fetch.tail BY <1>1
    <2>2. lapped' \in BOOLEAN /\ cut' \in BOOLEAN BY <1>1, <1>2 DEF ReplayBase
    <2> QED BY <1>1, <1>2, <2>1, <2>2 DEF ReplayBase
  <1> QED BY <1>4, <1>5 DEF ReplayInv

(* The scan is over: it has its page, its limit or the tail it began with. *)
LEMMA ReplayScanEnds ==
    ASSUME ReplayInv, ScanEnds
    PROVE  ReplayInv'
  <1>1. /\ rpc = "scan" /\ rpc' = "page" /\ filter
        /\ Goes => Fetch(ring, fetch.offset, ScanSize) = <<>>
        /\ UNCHANGED <<ring, rlog, filter, position, returned, fetch, lapped, cut>>
    BY DEF ScanEnds
  <1>2. ReplayBase /\ (~ lapped /\ ~ cut => ReplayProgress) BY DEF ReplayInv
  <1>3. /\ ScanSize \in Nat \ {0} /\ MaxCount \in Nat \ {0}
        /\ ScanLimit \in Nat \ {0}
    BY ReplayAssumption
  <1>4. ReplayBase' BY <1>1, <1>2 DEF ReplayBase
  <1>5. ASSUME ~ lapped, ~ cut PROVE ReplayProgress'
    <2>1. ReplayProgress BY <1>2, <1>5
    <2>2. /\ fetch.offset \in Nat /\ fetch.found \in Seq(Slots(Payloads))
          /\ fetch.scanned \in Nat /\ fetch.tail \in Nat
          /\ position \in Nat /\ position <= fetch.offset /\ fetch.offset <= Len(rlog)
          /\ Len(fetch.found) <= MaxCount
          /\ fetch.scanned # 0 => fetch.offset > position
      BY <1>1, <2>1 DEF ReplayProgress
    <2>3. ASSUME fetch.offset < fetch.tail PROVE fetch.found # <<>> \/ fetch.offset > position
      <3>1. CASE Goes
        <4>1. Fetch(ring, fetch.offset, ScanSize) = <<>> BY <1>1, <3>1
        <4>2. fetch.tail <= Len(rlog) BY <1>2 DEF ReplayBase
        <4>3. Fetch(ring, fetch.offset, ScanSize) # <<>>
          <5> DEFINE from == From(ring, fetch.offset)
                     e == IF from + ScanSize > ring.tail THEN ring.tail ELSE from + ScanSize
          <5>1. /\ ring.head \in Nat /\ ring.tail = Len(rlog) /\ Len(rlog) \in Nat
                /\ ring.head < ring.tail
            <6>1. /\ ring \in Rings(Payloads) /\ rlog \in Seq(Payloads)
                  /\ Shows(ring, rlog) /\ Cap \in Nat \ {0}
              BY <1>2, CapAssumption DEF ReplayBase
            <6>2. /\ ring.tail = Len(rlog) /\ Len(rlog) \in Nat
                  /\ ring.head = IF Len(rlog) > Cap THEN Len(rlog) - Cap ELSE 0
              BY <6>1 DEF Shows
            <6>3. Len(rlog) > 0 BY <2>2, <2>3, <4>2, <6>2
            <6> QED BY <6>1, <6>2, <6>3
          <5>2. from \in Nat /\ from < ring.tail BY <2>2, <2>3, <4>2, <5>1 DEF From
          <5>3. Fetch(ring, fetch.offset, ScanSize)
                   = [i \in 1 .. e - from |-> ring.messages[(from + i - 1) % Cap]]
            BY DEF Fetch
          <5> HIDE DEF from
          <5>4. e - from \in Nat /\ e - from >= 1 BY <1>3, <5>1, <5>2
          <5> HIDE DEF e
          <5>5. 1 \in DOMAIN Fetch(ring, fetch.offset, ScanSize) BY <5>3, <5>4
          <5> QED BY <5>5
        <4> QED BY <4>1, <4>3
      <3>2. CASE Len(fetch.found) >= MaxCount BY <1>3, <2>2, <3>2
      <3>3. CASE fetch.scanned >= ScanLimit BY <1>3, <2>2, <3>3
      <3> QED BY <1>3, <2>2, <2>3, <3>1, <3>2, <3>3 DEF Goes
    <2> QED BY <1>1, <2>1, <2>3 DEF ReplayProgress, OffsetsOf
  <1> QED BY <1>1, <1>4, <1>5 DEF ReplayInv

(* The fast path without a filter *)
LEMMA ReplayRaw ==
    ASSUME ReplayInv, FetchRaw
    PROVE  ReplayInv'
  <1> DEFINE s == Fetch(ring, fetch.offset, MaxCount)
  <1>1. /\ rpc = "scan" /\ rpc' = "page" /\ ~ filter
        /\ fetch' = [fetch EXCEPT !.offset = @ + Len(s), !.found = s]
        /\ lapped' = (lapped \/ (s # <<>> /\ fetch.offset < ring.head))
        /\ UNCHANGED <<ring, rlog, filter, position, returned, cut>>
    BY DEF FetchRaw
  <1> HIDE DEF s
  <1>2. ReplayBase /\ (~ lapped /\ ~ cut => ReplayProgress) BY DEF ReplayInv
  <1>3. MaxCount \in Nat \ {0} BY ReplayAssumption
  <1>4. ReplayBase'
    <2>1. fetch'.tail = fetch.tail BY <1>1
    <2>2. lapped' \in BOOLEAN BY <1>1, <1>2 DEF ReplayBase
    <2> QED BY <1>1, <1>2, <2>1, <2>2 DEF ReplayBase
  <1>5. ASSUME ~ lapped', ~ cut' PROVE ReplayProgress'
    <2>1. ReplayProgress /\ ~ (s # <<>> /\ fetch.offset < ring.head) BY <1>1, <1>2, <1>5
    <2>2. /\ fetch \in [offset : Nat, found : Seq(Slots(Payloads)), scanned : Nat, tail : Nat]
          /\ fetch.offset \in Nat /\ fetch.found = <<>>
          /\ fetch.scanned \in Nat /\ fetch.tail \in Nat
          /\ position \in Nat /\ position <= fetch.offset /\ fetch.offset <= Len(rlog)
          /\ returned = WantedOf(rlog, filter, position) /\ position <= Len(rlog)
          /\ returned \o OffsetsOf(fetch.found) = WantedOf(rlog, filter, fetch.offset)
      BY <1>1, <2>1 DEF ReplayProgress
    <2>3. returned \in Seq(Nat) /\ OffsetsOf(<<>>) = <<>> BY <2>2, WantedType DEF OffsetsOf
    <2>4. returned = WantedOf(rlog, filter, fetch.offset)
      <3>1. returned \o <<>> = returned BY <2>3
      <3> QED BY <2>2, <2>3, <3>1
    <2>5. /\ ring \in Rings(Payloads) /\ rlog \in Seq(Payloads) /\ Shows(ring, rlog)
          /\ fetch.tail <= Len(rlog) /\ Len(rlog) \in Nat /\ Cap \in Nat \ {0}
      BY <1>2, CapAssumption DEF ReplayBase
    <2>6. /\ ring.tail = Len(rlog) /\ ring.head \in Nat
          /\ ring.head = IF Len(rlog) > Cap THEN Len(rlog) - Cap ELSE 0
      BY <2>5 DEF Shows
    <2>7. ~ (fetch.offset < ring.head)
      <3> SUFFICES ASSUME fetch.offset < ring.head PROVE s # <<>>
        BY <2>1
      <3> DEFINE e == IF ring.head + MaxCount > ring.tail THEN ring.tail
                      ELSE ring.head + MaxCount
      <3>1. s = [i \in 1 .. e - ring.head |-> ring.messages[(ring.head + i - 1) % Cap]]
        BY DEF s, Fetch, From
      <3>2. e - ring.head \in Nat /\ e - ring.head >= 1 BY <1>3, <2>2, <2>5, <2>6
      <3> HIDE DEF e
      <3>3. 1 \in DOMAIN s BY <3>1, <3>2
      <3> QED BY <3>3
    <2>8. /\ s \in Seq(Slots(Payloads)) /\ fetch.offset + Len(s) <= Len(rlog)
          /\ s = <<>> => fetch.offset = Len(rlog)
          /\ WantedOf(rlog, filter, fetch.offset) \o OffsetsOf(MatchesIn(filter, s))
                = WantedOf(rlog, filter, fetch.offset + Len(s))
      BY <1>2, <1>3, <2>2, <2>7, ReadsLog DEF s
    <2>9. MatchesIn(filter, s) = s BY <1>1, <2>8, AllMatch
    <2>10. Len(s) \in Nat BY <2>8
    <2>11. /\ fetch'.offset = fetch.offset + Len(s) /\ fetch'.found = s
           /\ fetch'.tail = fetch.tail
           /\ fetch' = [offset |-> fetch.offset + Len(s), found |-> s,
                        scanned |-> fetch.scanned, tail |-> fetch.tail]
      BY <1>1, <2>2
    <2>12. fetch' \in [offset : Nat, found : Seq(Slots(Payloads)), scanned : Nat, tail : Nat]
      BY <2>2, <2>8, <2>10, <2>11
    <2>13. returned \o OffsetsOf(fetch'.found) = WantedOf(rlog, filter, fetch'.offset)
      BY <2>4, <2>8, <2>9, <2>11
    <2>14. fetch'.offset <= Len(rlog) /\ position <= fetch'.offset
      BY <2>2, <2>8, <2>10, <2>11
    <2>15. fetch'.offset < fetch'.tail => fetch'.found # <<>>
      BY <2>2, <2>5, <2>8, <2>11
    <2> QED BY <1>1, <2>2, <2>12, <2>13, <2>14, <2>15 DEF ReplayProgress
  <1> QED BY <1>4, <1>5 DEF ReplayInv

(* A page reaches the client, who asks on or is done. *)
LEMMA ReplayPage ==
    ASSUME ReplayInv, Page
    PROVE  ReplayInv'
  <1> DEFINE more == /\ fetch.offset < fetch.tail
                     /\ fetch.found = <<>> => fetch.offset > position
  <1>1. /\ rpc = "page" /\ returned' = returned \o OffsetsOf(fetch.found)
        /\ position' = IF more THEN fetch.offset ELSE position
        /\ rpc' = IF more THEN "ask" ELSE "done"
        /\ fetch' = [offset |-> 0, found |-> <<>>, scanned |-> 0, tail |-> fetch.tail]
        /\ UNCHANGED <<ring, rlog, filter, lapped, cut>>
    BY DEF Page, NoFetch, OffsetsOf
  <1>2. ReplayBase /\ (~ lapped /\ ~ cut => ReplayProgress) BY DEF ReplayInv
  <1>3. fetch'.tail = fetch.tail BY <1>1
  <1>4. ReplayBase' BY <1>1, <1>2, <1>3 DEF ReplayBase
  <1>5. ASSUME ~ lapped, ~ cut PROVE ReplayProgress'
    <2>1. ReplayProgress BY <1>2, <1>5
    <2>2. /\ fetch.offset \in Nat /\ fetch.tail \in Nat /\ Len(rlog) \in Nat
          /\ position \in Nat /\ position <= fetch.offset /\ fetch.offset <= Len(rlog)
          /\ returned' = WantedOf(rlog, filter, fetch.offset)
          /\ fetch.offset < fetch.tail => fetch.found # <<>> \/ fetch.offset > position
      BY <1>1, <1>2, <2>1 DEF ReplayProgress, ReplayBase
    <2>3. /\ fetch' \in [offset : Nat, found : Seq(Slots(Payloads)), scanned : Nat, tail : Nat]
          /\ fetch'.tail = fetch.tail
      BY <1>1, <2>2
    <2>4. CASE more
      <3>1. rpc' = "ask" /\ position' = fetch.offset BY <1>1, <2>4
      <3> QED BY <1>1, <2>2, <2>3, <3>1 DEF ReplayProgress
    <2>5. CASE ~ more
      <3>1. rpc' = "done" /\ position' = position BY <1>1, <2>5
      <3>2. fetch.offset >= fetch.tail BY <2>2, <2>5
      <3>3. fetch.offset \in fetch.tail .. Len(rlog) BY <2>2, <3>2
      <3> QED BY <1>1, <2>2, <2>3, <3>1, <3>3 DEF ReplayProgress
    <2> QED BY <2>4, <2>5
  <1> QED BY <1>1, <1>4, <1>5 DEF ReplayInv

(* ReplayIsTheSession: while producers write, a replay has returned the    *)
(* events of its session, in order, none twice and none missing, up to     *)
(* some offset, and when it is done at least up to the tail its last page  *)
(* saw; for every capacity, page size and limit of a scan, as long as the  *)
(* ring did not overtake it and no page was cut short.                     *)
THEOREM ReplayReturnsTheSession ==
    ReplaySpec => []ReplayIsTheSession
  <1>1. ASSUME ReplayInv, [ReplayNext]_replayVars PROVE ReplayInv'
    <2>1. CASE Produce BY <1>1, <2>1, ReplayProduce
    <2>2. CASE StartFetch BY <1>1, <2>2, ReplayStart
    <2>3. CASE Scan BY <1>1, <2>3, ReplayScan
    <2>4. CASE ScanEnds BY <1>1, <2>4, ReplayScanEnds
    <2>5. CASE FetchRaw BY <1>1, <2>5, ReplayRaw
    <2>6. CASE Page BY <1>1, <2>6, ReplayPage
    <2>7. CASE UNCHANGED replayVars
      BY <1>1, <2>7 DEF replayVars, ReplayInv, ReplayBase, ReplayProgress
    <2> QED BY <1>1, <2>1, <2>2, <2>3, <2>4, <2>5, <2>6, <2>7 DEF ReplayNext, Fetching
  <1>2. ReplayInv => ReplayIsTheSession
    <2> SUFFICES ASSUME ReplayInv, ~ lapped, ~ cut PROVE ReturnedSession
      BY DEF ReplayIsTheSession
    <2>1. ReplayProgress /\ Len(rlog) \in Nat BY DEF ReplayInv, ReplayBase
    <2>2. \A n : Wanted(n) = WantedOf(rlog, filter, n) BY SamePicks
    <2>3. CASE rpc = "done"
      <3>1. \E end \in fetch.tail .. Len(rlog) : returned = WantedOf(rlog, filter, end)
        BY <2>1, <2>3 DEF ReplayProgress
      <3> QED BY <2>2, <2>3, <3>1 DEF ReturnedSession
    <2>4. CASE rpc # "done"
      <3>1. position \in 0 .. Len(rlog) /\ returned = WantedOf(rlog, filter, position)
        BY <2>1, <2>4 DEF ReplayProgress
      <3> QED BY <2>2, <2>4, <3>1 DEF ReturnedSession
    <2> QED BY <2>3, <2>4
  <1> QED BY <1>1, <1>2, ReplayBegins, PTL DEF ReplaySpec
=============================================================================
