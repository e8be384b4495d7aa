-------------------------- MODULE TopicRingProofs ---------------------------
(***************************************************************************)
(* The ring of one partition, for every capacity and every sequence of     *)
(* publishes: it shows the last Cap of them, under their own offsets.      *)
(***************************************************************************)
EXTENDS TopicRing, WellFoundedInduction, TLAPS

-----------------------------------------------------------------------------
(* Induction over the records of a log, stated with sets                   *)

(* A set of numbers has a least one. *)
LEMMA Least ==
    ASSUME NEW T \in SUBSET Nat, T # {}
    PROVE  \E m \in T : \A k \in T : m <= k
  <1>1. IsWellFoundedOn(OpToRel(<, Nat), Nat) BY NatLessThanWellFounded
  <1>2. PICK m \in T : \A k \in T : ~ (<<k, m>> \in OpToRel(<, Nat))
    BY <1>1, WFMin
  <1>3. \A k \in T : ~ (k < m) BY <1>2 DEF OpToRel
  <1> QED BY <1>3

(* What holds of 0 and goes over from n to n + 1 holds of every number. *)
LEMMA Induction ==
    ASSUME NEW T \in SUBSET Nat, 0 \in T, \A n \in T : n + 1 \in T
    PROVE  T = Nat
  <1> SUFFICES ASSUME Nat \ T # {} PROVE FALSE
    OBVIOUS
  <1>1. PICK m \in Nat \ T : \A k \in Nat \ T : m <= k BY Least
  <1>2. m # 0 BY <1>1
  <1>3. m - 1 \in Nat /\ m - 1 < m BY <1>1, <1>2
  <1>4. m - 1 \in T BY <1>1, <1>3
  <1>5. (m - 1) + 1 \in T BY <1>4
  <1> QED BY <1>1, <1>5

-----------------------------------------------------------------------------
(* An offset is its round through the ring and its slot. *)
LEMMA SlotOf ==
    ASSUME NEW o \in Nat
    PROVE  /\ o \div Cap \in Int /\ o % Cap \in 0 .. Cap - 1
           /\ o = Cap * (o \div Cap) + (o % Cap)
  <1>1. Cap \in Nat /\ Cap > 0 BY CapAssumption
  <1>2. o \div Cap \in Int BY <1>1
  <1>3. o % Cap \in 0 .. Cap - 1 BY <1>1
  <1>4. o = Cap * (o \div Cap) + (o % Cap) BY <1>1
  <1> QED BY <1>2, <1>3, <1>4

(* Two offsets less than Cap apart have slots of their own. *)
LEMMA SlotsDiffer ==
    ASSUME NEW a \in Nat, NEW b \in Nat, a < b, b < a + Cap
    PROVE  a % Cap # b % Cap
  <1> DEFINE q == a \div Cap
             r == b \div Cap
  <1>1. Cap \in Nat /\ Cap > 0 BY CapAssumption
  <1>2. q \in Int /\ r \in Int /\ a = Cap * q + (a % Cap) /\ b = Cap * r + (b % Cap)
    BY SlotOf
  <1>3. a % Cap \in 0 .. Cap - 1 /\ b % Cap \in 0 .. Cap - 1 BY SlotOf
  <1> HIDE DEF q, r
  <1> SUFFICES ASSUME a % Cap = b % Cap PROVE FALSE
    OBVIOUS
  <1>4. b - a = Cap * r - Cap * q BY <1>1, <1>2, <1>3
  <1>5. Cap * r - Cap * q = Cap * (r - q) BY <1>1, <1>2
  <1>6. Cap * (r - q) > 0 /\ Cap * (r - q) < Cap BY <1>1, <1>4, <1>5
  <1>7. r - q \in Int BY <1>2
  <1>8. CASE r - q <= 0
    <2>1. Cap * (r - q) <= 0 BY <1>1, <1>7, <1>8
    <2> QED BY <1>6, <2>1, <1>1, <1>7
  <1>9. CASE r - q >= 1
    <2>1. Cap * (r - q) >= Cap BY <1>1, <1>7, <1>9
    <2> QED BY <1>6, <2>1, <1>1, <1>7
  <1> QED BY <1>7, <1>8, <1>9

(* newTopic is a ring that shows nothing. *)
LEMMA NewShows == \A P : newTopic \in Rings(P) /\ Shows(newTopic, <<>>)
  BY CapAssumption DEF newTopic, Rings, Shows

(* Topic.Publish: the ring that showed log shows log and the new payload,  *)
(* the oldest offset given up if the ring was full.                        *)
LEMMA PublishShows ==
    ASSUME NEW P, NEW t \in Rings(P), NEW log \in Seq(P), NEW m \in P, Shows(t, log)
    PROVE  Publish(t, m) \in Rings(P) /\ Shows(Publish(t, m), Append(log, m))
  <1> DEFINE u == Publish(t, m)
             slot == [offset |-> t.tail, payload |-> m]
             l == Append(log, m)
  <1>1. /\ t.messages \in [0 .. Cap - 1 -> Slots(P) \cup {NoMessage}]
        /\ t.head \in Nat /\ t.tail \in Nat
    BY DEF Rings
  <1>2. t.tail % Cap \in 0 .. Cap - 1 BY <1>1, SlotOf
  <1>3. /\ u.messages = [t.messages EXCEPT ![t.tail % Cap] = slot]
        /\ u.tail = t.tail + 1
        /\ u.head = IF t.tail + 1 - t.head > Cap THEN t.head + 1 ELSE t.head
    BY DEF Publish
  <1>4. slot \in Slots(P) BY <1>1 DEF Slots
  <1>5. u \in Rings(P)
    <2>1. u.messages \in [0 .. Cap - 1 -> Slots(P) \cup {NoMessage}] BY <1>1, <1>2, <1>3, <1>4
    <2>2. u.head \in Nat /\ u.tail \in Nat BY <1>1, <1>3
    <2>3. u = [messages |-> u.messages, head |-> u.head, tail |-> u.tail] BY DEF Publish
    <2> HIDE DEF u
    <2> QED BY <2>1, <2>2, <2>3 DEF Rings
  <1>6. Len(log) \in Nat /\ t.tail = Len(log) /\ Cap \in Nat /\ Cap > 0
    BY CapAssumption DEF Shows
  <1>7. /\ Len(l) = Len(log) + 1 /\ l[Len(log) + 1] = m
        /\ \A i \in 1 .. Len(log) : l[i] = log[i]
    OBVIOUS
  <1>8. t.head = IF Len(log) > Cap THEN Len(log) - Cap ELSE 0 BY DEF Shows
  <1> HIDE DEF u, l
  <1>9. u.tail = Len(l) BY <1>3, <1>6, <1>7
  <1>10. u.head = IF Len(l) > Cap THEN Len(l) - Cap ELSE 0
    <2>1. CASE Len(log) > Cap BY <1>1, <1>3, <1>6, <1>7, <1>8, <2>1
    <2>2. CASE Len(log) = Cap BY <1>1, <1>3, <1>6, <1>7, <1>8, <2>2
    <2>3. CASE Len(log) < Cap
      <3>1. t.head = 0 /\ ~ (Len(log) + 1 > Cap) BY <1>6, <1>8, <2>3
      <3> QED BY <1>3, <1>6, <1>7, <3>1
    <2> QED BY <1>6, <2>1, <2>2, <2>3
  <1>11. ASSUME NEW o \in u.head .. u.tail - 1
         PROVE  u.messages[o % Cap] = [offset |-> o, payload |-> l[o + 1]]
    <2>1. o \in Nat /\ o >= t.head /\ o <= t.tail /\ t.tail < o + Cap
      <3>1. o \in Int /\ u.head <= o /\ o <= t.tail BY <1>1, <1>3
      <3>2. u.head = t.head \/ u.head = t.head + 1 BY <1>3
      <3>3. t.tail < u.head + Cap BY <1>6, <1>7, <1>10
      <3> QED BY <1>1, <1>6, <3>1, <3>2, <3>3
    <2>2. CASE o = t.tail
      BY <1>1, <1>2, <1>3, <1>6, <1>7, <2>2
    <2>3. CASE o # t.tail
      <3>1. o < t.tail /\ o \in t.head .. t.tail - 1 BY <1>1, <2>1, <2>3
      <3>2. o % Cap # t.tail % Cap BY <1>1, <2>1, <3>1, SlotsDiffer
      <3>3. o % Cap \in 0 .. Cap - 1 BY <2>1, SlotOf
      <3>4. u.messages[o % Cap] = t.messages[o % Cap] BY <1>1, <1>2, <1>3, <3>2, <3>3
      <3>5. t.messages[o % Cap] = [offset |-> o, payload |-> log[o + 1]]
        BY <3>1 DEF Shows
      <3>6. l[o + 1] = log[o + 1]
        <4>1. o + 1 \in 1 .. Len(log) BY <1>6, <2>1, <3>1
        <4> QED BY <1>7, <4>1
      <3> QED BY <3>4, <3>5, <3>6
    <2> QED BY <2>2, <2>3
  <1>12. Shows(u, l) BY <1>9, <1>10, <1>11 DEF Shows
  <1> QED BY <1>5, <1>12 DEF u, l

(* A replay defines its rings: the first is new, each further one has one  *)
(* payload more.                                                           *)
LEMMA ReplayedSteps ==
    ASSUME NEW P, NEW s \in Seq(P)
    PROVE  \E t : /\ t[0] = newTopic /\ Replayed(s) = t[Len(s)]
                  /\ \A n \in 1 .. Len(s) : t[n] = Publish(t[n - 1], s[n])
  <1> DEFINE Good(k, t) == /\ t[0] = newTopic
                           /\ \A n \in 1 .. k : t[n] = Publish(t[n - 1], s[n])
             T == {k \in Nat : \E t : Good(k, t)}
  <1>1. 0 \in T
    <2>1. Good(0, [n \in 0 .. 0 |-> newTopic]) OBVIOUS
    <2> HIDE DEF Good
    <2> QED BY <2>1
  <1>2. ASSUME NEW k \in T PROVE k + 1 \in T
    <2>1. PICK t : Good(k, t) OBVIOUS
    <2> DEFINE u == [n \in 0 .. k + 1 |->
                        IF n = k + 1 THEN Publish(t[k], s[k + 1]) ELSE t[n]]
    <2>2. u[0] = newTopic BY <2>1
    <2>3. ASSUME NEW n \in 1 .. k + 1 PROVE u[n] = Publish(u[n - 1], s[n])
      <3>1. CASE n = k + 1
        <4>1. n - 1 = k /\ k \in 0 .. k + 1 /\ k # k + 1 BY <3>1
        <4>2. u[n - 1] = t[k] /\ u[n] = Publish(t[k], s[k + 1]) BY <3>1, <4>1
        <4> QED BY <3>1, <4>2
      <3>2. CASE n # k + 1
        <4>1. n \in 1 .. k /\ n \in 0 .. k + 1 /\ n - 1 \in 0 .. k + 1 /\ n - 1 # k + 1
          BY <3>2
        <4>2. u[n] = t[n] /\ u[n - 1] = t[n - 1] BY <3>2, <4>1
        <4> QED BY <2>1, <4>1, <4>2
      <3> QED BY <3>1, <3>2
    <2>4. Good(k + 1, u) BY <2>2, <2>3
    <2> HIDE DEF Good, u
    <2> QED BY <2>4
  <1>3. T = Nat
    <2>1. T \in SUBSET Nat OBVIOUS
    <2> HIDE DEF T
    <2> QED BY <1>1, <1>2, <2>1, Induction
  <1>4. PICK t : Good(Len(s), t) BY <1>3
  <1> DEFINE Def(f) == [n \in 0 .. Len(s) |->
                           IF n = 0 THEN newTopic ELSE Publish(f[n - 1], s[n])]
             w == [n \in 0 .. Len(s) |-> t[n]]
             r == CHOOSE f : f = Def(f)
  <1>5. w = Def(w)
    <2>1. ASSUME NEW n \in 0 .. Len(s)
          PROVE  w[n] = IF n = 0 THEN newTopic ELSE Publish(w[n - 1], s[n])
      <3>1. CASE n = 0 BY <1>4, <3>1
      <3>2. CASE n # 0
        <4>1. n \in 1 .. Len(s) /\ n - 1 \in 0 .. Len(s) BY <3>2
        <4> QED BY <1>4, <3>2, <4>1
      <3> QED BY <3>1, <3>2
    <2> QED BY <2>1
  <1>6. r = Def(r)
    <2> HIDE DEF Def
    <2> QED BY <1>5
  <1>7. Replayed(s) = r[Len(s)] BY DEF Replayed
  <1> HIDE DEF r
  <1>8. r[0] = newTopic BY <1>6
  <1>9. ASSUME NEW n \in 1 .. Len(s) PROVE r[n] = Publish(r[n - 1], s[n])
    <2>1. n \in 0 .. Len(s) /\ n # 0 OBVIOUS
    <2> QED BY <1>6, <2>1
  <1> QED BY <1>7, <1>8, <1>9

(* The replay of a log at startup (cmd/broker/main.go), a publish for      *)
(* every record, ends with a ring that shows the log.                      *)
THEOREM ReplayShows ==
    ASSUME NEW P, NEW s \in Seq(P)
    PROVE  Replayed(s) \in Rings(P) /\ Shows(Replayed(s), s)
  <1>1. PICK t : /\ t[0] = newTopic /\ Replayed(s) = t[Len(s)]
                 /\ \A n \in 1 .. Len(s) : t[n] = Publish(t[n - 1], s[n])
    BY ReplayedSteps
  <1> DEFINE Done(n) == t[n] \in Rings(P) /\ Shows(t[n], SubSeq(s, 1, n))
             T == {n \in Nat : n <= Len(s) => Done(n)}
  <1>2. 0 \in T
    <2>1. SubSeq(s, 1, 0) = <<>> OBVIOUS
    <2> QED BY <1>1, <2>1, NewShows
  <1>3. ASSUME NEW n \in T PROVE n + 1 \in T
    <2> SUFFICES ASSUME n + 1 <= Len(s) PROVE Done(n + 1)
      OBVIOUS
    <2>1. n \in Nat /\ n <= Len(s) /\ Len(s) \in Nat OBVIOUS
    <2>2. Done(n) BY <2>1
    <2>3. n + 1 \in 1 .. Len(s) /\ s[n + 1] \in P /\ (n + 1) - 1 = n BY <2>1
    <2>4. t[n + 1] = Publish(t[n], s[n + 1]) BY <1>1, <2>3
    <2>5. SubSeq(s, 1, n) \in Seq(P) BY <2>1
    <2>6. SubSeq(s, 1, n + 1) = Append(SubSeq(s, 1, n), s[n + 1]) BY <2>1, <2>3
    <2> QED BY <2>2, <2>3, <2>4, <2>5, <2>6, PublishShows
  <1>4. T = Nat
    <2>1. T \in SUBSET Nat OBVIOUS
    <2> HIDE DEF T
    <2> QED BY <1>2, <1>3, <2>1, Induction
  <1>5. Len(s) \in Nat /\ SubSeq(s, 1, Len(s)) = s OBVIOUS
  <1>6. Done(Len(s)) BY <1>4, <1>5
  <1> QED BY <1>1, <1>5, <1>6

(* Topic.Fetch of a ring that shows log: the messages read are those       *)
(* published under consecutive offsets, from the one asked for or from the *)
(* oldest the ring still has.                                              *)
LEMMA FetchReads ==
    ASSUME NEW P, NEW t \in Rings(P), NEW log \in Seq(P), Shows(t, log),
           NEW offset \in Nat, NEW max \in Nat
    PROVE  LET f == Fetch(t, offset, max)
               b == From(t, offset)
           IN  /\ b \in Nat /\ b >= offset /\ f \in Seq(Slots(P))
               /\ \A i \in 1 .. Len(f) :
                     f[i] = [offset |-> b + i - 1, payload |-> log[b + i]]
               /\ Len(f) > 0 => b + Len(f) <= Len(log) /\ b >= t.head
  <1> DEFINE b == From(t, offset)
             e == IF b + max > t.tail THEN t.tail ELSE b + max
             f == Fetch(t, offset, max)
  <1>1. t.head \in Nat /\ t.tail \in Nat /\ t.tail = Len(log) BY DEF Rings, Shows
  <1>2. b \in Nat /\ b >= offset /\ b >= t.head BY <1>1 DEF From
  <1>3. f = [i \in 1 .. e - b |-> t.messages[(b + i - 1) % Cap]] BY DEF Fetch
  <1>4. e \in Nat /\ e <= t.tail BY <1>1, <1>2
  <1> HIDE DEF b, e, f
  <1>5. ASSUME NEW i \in 1 .. e - b
        PROVE  /\ f[i] = [offset |-> b + i - 1, payload |-> log[b + i]]
               /\ f[i] \in Slots(P)
    <2>1. b + i - 1 \in t.head .. t.tail - 1 /\ (b + i - 1) + 1 = b + i
          /\ b + i \in 1 .. Len(log) /\ b + i - 1 \in Nat
      BY <1>1, <1>2, <1>4
    <2>2. t.messages[(b + i - 1) % Cap] = [offset |-> b + i - 1, payload |-> log[b + i]]
      BY <2>1 DEF Shows
    <2>3. f[i] = [offset |-> b + i - 1, payload |-> log[b + i]] BY <1>3, <2>2
    <2>4. log[b + i] \in P BY <2>1
    <2> QED BY <2>1, <2>3, <2>4 DEF Slots
  <1>6. CASE e - b <= 0
    <2>1. 1 .. e - b = {} BY <1>2, <1>4, <1>6
    <2>2. f = <<>> BY <1>3, <2>1
    <2> QED BY <1>2, <2>2 DEF b, f
  <1>7. CASE e - b > 0
    <2>1. e - b \in Nat BY <1>2, <1>4, <1>7
    <2>2. f \in Seq(Slots(P)) /\ Len(f) = e - b
      <3> DEFINE n == e - b
      <3>1. n \in Nat BY <2>1
      <3>2. f = [i \in 1 .. n |-> f[i]] /\ \A i \in 1 .. n : f[i] \in Slots(P) BY <1>3, <1>5
      <3> HIDE DEF n
      <3>3. f \in [1 .. n -> Slots(P)] BY <3>2
      <3>4. f \in Seq(Slots(P)) /\ Len(f) = n BY <3>1, <3>3
      <3> QED BY <3>4 DEF n
    <2> QED BY <1>1, <1>2, <1>4, <1>5, <2>1, <2>2 DEF b, f
  <1> QED BY <1>2, <1>4, <1>6, <1>7
=============================================================================
