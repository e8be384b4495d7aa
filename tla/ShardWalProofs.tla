--------------------------- MODULE ShardWalProofs ---------------------------
(***************************************************************************)
(* What a shard's log promises, for any number of writers, records, failed *)
(* rounds and crashes.                                                     *)
(***************************************************************************)
EXTENDS ShardWal, TLAPS

(* At most one round is in flight, and it is behind the open generation. *)
RoundInv ==
    /\ syncedGen < pendingGen
    /\ syncing => round.gen < pendingGen /\ round.len <= written
    /\ \A w \in Writers : pc[w] = "fsync" => syncing /\ my[w].gen <= round.gen
    /\ \A v, w \in Writers : pc[v] = "fsync" /\ pc[w] = "fsync" => v = w

(* How far a record has come, by its generation: a closed generation is in *)
(* the file, the one being synced is within the round, a synced one is     *)
(* durable.                                                                *)
Progress(m) ==
    /\ m.gen <= pendingGen
    /\ m.gen < pendingGen => m.pos <= written
    /\ syncing /\ m.gen <= round.gen => m.pos <= round.len
    /\ m.gen <= syncedGen => m.pos <= durable

InFile(m) == m.pos \in 1..Len(data) /\ data[m.pos] = m.rec

CallInv == \A w \in Writers : pc[w] # "idle" => InFile(my[w]) /\ Progress(my[w])

AckInv == \A a \in acked : InFile(a) /\ a.pos <= durable

(* No torn record among the first n. *)
Clean(n) == \A i \in 1..n : data[i] # Torn

(* Behind no torn record, an offset is a position. *)
OffsetInv ==
    /\ Clean(Len(data)) => tail = Len(data)
    /\ \A w \in Writers :
         pc[w] # "idle" /\ Clean(my[w].pos) => my[w].pos = my[w].off + 1
    /\ \A a \in acked : Clean(a.pos) => a.pos = a.off + 1

IndInv ==
    /\ TypeOK
    /\ ~dropped
    /\ RoundInv
    /\ CallInv
    /\ AckInv
    /\ OffsetInv

-----------------------------------------------------------------------------
(* The log starts in the invariant: Open on an empty file. *)
LEMMA InitInv == Init => IndInv
  <1> SUFFICES ASSUME Init PROVE IndInv
    OBVIOUS
  <1> USE DEF Init
  <1>1. TypeOK
    <2>1. FileOK BY DEF FileOK
    <2>2. CommitOK BY DEF CommitOK, Appends, NoAppend, NoRound
    <2>3. FlagsOK BY DEF FlagsOK
    <2>4. SubscriberOK BY DEF SubscriberOK, NoSubscriber
    <2>5. BoundsOK BY DEF BoundsOK
    <2> QED BY <2>1, <2>2, <2>3, <2>4, <2>5 DEF TypeOK
  <1>2. RoundInv /\ CallInv /\ AckInv
    BY DEF RoundInv, CallInv, AckInv
  <1>3. OffsetInv
    BY DEF OffsetInv
  <1> QED BY <1>1, <1>2, <1>3 DEF IndInv

(* Appending to the buffer opens no hole: the new record is behind every   *)
(* other, in the generation that no round covers yet.                      *)
LEMMA AppendInv ==
    ASSUME NEW w \in Writers, IndInv, Append_(w)
    PROVE  IndInv'
  <1> DEFINE m == [rec |-> records + 1, off |-> tail,
                   gen |-> pendingGen, pos |-> Len(data) + 1]
  <1>1. /\ data' = Append(data, records + 1)
        /\ Len(data') = Len(data) + 1
        /\ \A i \in 1..Len(data) : data'[i] = data[i]
        /\ data'[Len(data) + 1] = records + 1
    BY DEF Append_, IndInv, TypeOK, FileOK
  <1>2. /\ my' = [my EXCEPT ![w] = m]
        /\ pc' = [pc EXCEPT ![w] = "commit"]
        /\ tail' = tail + 1 /\ records' = records + 1 /\ mu' = w
        /\ written' \in written..Len(data')
        /\ UNCHANGED <<durable, dropped, pendingGen, syncedGen, syncing, syncErr,
                       round, synced, bufErr, closed, fdOpen, sub, errors,
                       crashes, acked, seen>>
    BY <1>1 DEF Append_, commit
  <1>9. /\ Len(data) \in Nat /\ Len(data') = Len(data) + 1
        /\ \A i \in 1..Len(data) : data'[i] = data[i] /\ i \in 1..Len(data')
    BY <1>1 DEF IndInv, TypeOK, FileOK
  <1> USE DEF IndInv, TypeOK
  <1>3. TypeOK'
    <2>1. FileOK'
      <3>1. data' \in Seq(Nat \cup {Torn}) BY <1>1 DEF FileOK, BoundsOK
      <3> QED BY <1>2, <1>9, <3>1 DEF FileOK
    <2>2. CommitOK'
      <3>1. m \in Appends BY <1>9 DEF FileOK, CommitOK, BoundsOK, Appends
      <3> HIDE DEF m
      <3> QED BY <1>2, <3>1 DEF CommitOK
    <2>3. FlagsOK' BY <1>2 DEF FlagsOK
    <2>4. SubscriberOK' BY <1>2 DEF SubscriberOK
    <2>5. BoundsOK' BY <1>2 DEF BoundsOK
    <2> QED BY <2>1, <2>2, <2>3, <2>4, <2>5
  <1>4. RoundInv'
    BY <1>1, <1>2 DEF FileOK, CommitOK, RoundInv, Append_, Appends
  <1>5. CallInv'
    <2> SUFFICES ASSUME NEW v \in Writers, pc'[v] # "idle"
                 PROVE  InFile(my[v])' /\ Progress(my[v])'
      BY DEF CallInv
    <2>1. CASE v = w
      BY <2>1, <1>1, <1>2 DEF FileOK, CommitOK, RoundInv, InFile, Progress, Appends
    <2>2. CASE v # w
      <3>1. my'[v] = my[v] /\ InFile(my[v]) /\ Progress(my[v])
        BY <2>2, <1>2 DEF CommitOK, CallInv
      <3>2. InFile(my[v])' BY <1>9, <3>1 DEF InFile
      <3>3. my[v].pos \in Nat /\ my[v].gen \in Nat BY DEF CommitOK, Appends
      <3>4. Progress(my[v])' BY <1>2, <1>9, <3>1, <3>3 DEF FileOK, Progress
      <3> QED BY <3>2, <3>4
    <2> QED BY <2>1, <2>2
  <1>6. AckInv'
    BY <1>2, <1>9 DEF AckInv, InFile
  <1>7. OffsetInv'
    <2> USE DEF FileOK, Clean, InFile
    <2>1. Clean(Len(data))' => tail' = Len(data')
      BY <1>1, <1>2 DEF OffsetInv
    <2>2. ASSUME NEW v \in Writers, pc'[v] # "idle", Clean(my[v].pos)'
          PROVE  my'[v].pos = my'[v].off + 1
      <3>1. CASE v = w
        <4>1. my'[v] = m
          BY <3>1, <1>2 DEF CommitOK
        <4>2. Clean(Len(data))
          BY <4>1, <2>2, <1>1
        <4> QED BY <4>1, <4>2 DEF OffsetInv
      <3>2. CASE v # w
        <4>1. pc[v] # "idle" /\ my'[v] = my[v]
          BY <3>2, <2>2, <1>2 DEF CommitOK
        <4>2. Clean(my[v].pos)
          BY <4>1, <2>2, <1>1 DEF CallInv, CommitOK, Appends
        <4> QED BY <4>1, <4>2 DEF OffsetInv
      <3> QED BY <3>1, <3>2
    <2>3. ASSUME NEW a \in acked, Clean(a.pos)'
          PROVE  a.pos = a.off + 1
      <3>1. Clean(a.pos)
        BY <2>3, <1>1 DEF AckInv, CommitOK, Appends
      <3> QED BY <3>1 DEF OffsetInv
    <2> QED BY <1>2, <2>1, <2>2, <2>3 DEF OffsetInv
  <1> QED BY <1>2, <1>3, <1>4, <1>5, <1>6, <1>7 DEF IndInv

(* A step that appends nothing, takes nothing out of the file and answers  *)
(* only durable records preserves the invariant.                           *)
LEMMA KeepInv ==
    ASSUME IndInv, TypeOK', ~dropped', RoundInv',
           data' = data, tail' = tail, durable <= durable',
           \A v \in Writers : pc'[v] # "idle" =>
               pc[v] # "idle" /\ my'[v] = my[v] /\ Progress(my[v])',
           \A a \in acked' : a \in acked \/ \E v \in Writers :
               pc[v] # "idle" /\ a = my[v] /\ a.pos <= durable'
    PROVE  IndInv'
  <1> USE DEF IndInv, InFile
  <1>1. CallInv'
    BY DEF CallInv
  <1>2. AckInv'
    <2> SUFFICES ASSUME NEW a \in acked'
                 PROVE  InFile(a)' /\ a.pos <= durable'
      BY DEF AckInv
    <2>1. CASE a \in acked
      <3>1. InFile(a) /\ a.pos <= durable
        BY <2>1 DEF AckInv
      <3>2. a.pos \in Nat /\ durable \in Nat /\ durable' \in Nat
        BY <2>1 DEF TypeOK, FileOK, CommitOK, Appends
      <3> QED BY <3>1, <3>2
    <2>2. CASE \E v \in Writers : pc[v] # "idle" /\ a = my[v] /\ a.pos <= durable'
      BY <2>2 DEF CallInv
    <2> QED BY <2>1, <2>2
  <1>3. OffsetInv'
    BY DEF OffsetInv, Clean
  <1> QED BY <1>1, <1>2, <1>3

(* A record keeps what it has reached while the rounds stand still. *)
LEMMA KeepProgress ==
    ASSUME IndInv, TypeOK', NEW v \in Writers, pc[v] # "idle",
           written <= written', durable <= durable', my'[v] = my[v],
           UNCHANGED <<pendingGen, syncedGen, round>>,
           syncing' => syncing
    PROVE  Progress(my[v])'
  <1> DEFINE m == my[v]
  <1>1. Progress(m) /\ m \in Appends /\ my'[v] = m
    BY DEF IndInv, CallInv, TypeOK, CommitOK
  <1>2. /\ written \in Nat /\ written' \in Nat /\ durable \in Nat /\ durable' \in Nat
        /\ pendingGen \in Nat /\ syncedGen \in Nat
        /\ round \in [gen : Nat, tail : Nat, len : Nat]
    BY DEF IndInv, TypeOK, FileOK, CommitOK
  <1> HIDE DEF m
  <1> QED BY <1>1, <1>2 DEF Progress, Appends

(* A failed write only marks the writer broken. *)
LEMMA WriteFailsInv ==
    ASSUME NEW w \in Writers, IndInv, WriteFails(w)
    PROVE  IndInv'
  <1> USE DEF IndInv, TypeOK, WriteFails, commit, calls
  <1>1. TypeOK'
    BY DEF FileOK, CommitOK, FlagsOK, SubscriberOK, BoundsOK
  <1>2. RoundInv'
    BY DEF RoundInv, FileOK, CommitOK
  <1>3. written <= written'
    BY DEF FileOK
  <1> QED
    BY <1>1, <1>2, <1>3, KeepInv, KeepProgress DEF FileOK

(* A writer leaves groupCommitLocked, or parks, without touching a round.  *)
LEMMA CommitDoneInv ==
    ASSUME NEW w \in Writers, IndInv, CommitDone(w)
    PROVE  IndInv'
  <1> USE DEF IndInv, TypeOK, CommitDone, Locked, AnswerOK, AnswerError,
              file, commit, shard, bounds
  <1>1. TypeOK'
    <2>1. CommitOK'
      <3>1. my' \in [Writers -> Appends] /\ acked' \subseteq Appends
        BY DEF CommitOK, Appends, NoAppend
      <3> QED BY <3>1 DEF CommitOK
    <2>2. FileOK' BY DEF FileOK
    <2>3. FlagsOK' BY DEF FlagsOK
    <2>4. SubscriberOK' /\ BoundsOK' BY DEF SubscriberOK, BoundsOK
    <2> QED BY <2>1, <2>2, <2>3, <2>4
  <1>2. RoundInv'
    BY DEF RoundInv, CommitOK
  <1>3. my[w].pos <= durable
    BY DEF CallInv, Progress, Covered, CommitOK, Appends
  <1>4. \A v \in Writers : pc'[v] # "idle" => pc[v] # "idle" /\ my'[v] = my[v]
    BY DEF CommitOK
  <1>5. \A a \in acked' : a \in acked \/ a = my[w]
    OBVIOUS
  <1> HIDE DEF IndInv, TypeOK
  <1>6. durable \in Nat /\ written \in Nat /\ ~dropped
    BY DEF IndInv, TypeOK, FileOK
  <1> QED
    BY <1>1, <1>2, <1>3, <1>4, <1>5, <1>6, KeepInv, KeepProgress

(* Waiting for another round changes the call alone. *)
LEMMA CommitWaitInv ==
    ASSUME NEW w \in Writers, IndInv, CommitWait(w)
    PROVE  IndInv'
  <1> USE DEF CommitWait, Locked, file, commit, shard, bounds
  <1>1. TypeOK'
    BY DEF IndInv, TypeOK, FileOK, CommitOK, FlagsOK, SubscriberOK, BoundsOK
  <1>2. RoundInv'
    BY DEF IndInv, TypeOK, RoundInv, CommitOK
  <1>3. \A v \in Writers : pc'[v] # "idle" => pc[v] # "idle" /\ my'[v] = my[v]
    BY DEF IndInv, TypeOK, CommitOK
  <1>4. durable \in Nat /\ written \in Nat /\ ~dropped
    BY DEF IndInv, TypeOK, FileOK
  <1> QED
    BY <1>1, <1>2, <1>3, <1>4, KeepInv, KeepProgress

(* A new round covers everything appended so far: the whole buffer is      *)
(* flushed before the generation is closed.                                *)
LEMMA CommitFlushInv ==
    ASSUME NEW w \in Writers, IndInv, CommitFlush(w)
    PROVE  IndInv'
  <1> USE DEF CommitFlush, Locked, shard, bounds
  <1>1. TypeOK'
    BY DEF IndInv, TypeOK, FileOK, CommitOK, FlagsOK, SubscriberOK, BoundsOK
  <1>2. RoundInv'
    BY DEF IndInv, TypeOK, RoundInv, CallInv, Progress, FileOK, CommitOK, Appends
  <1>3. ASSUME NEW v \in Writers, pc'[v] # "idle"
        PROVE  pc[v] # "idle" /\ my'[v] = my[v] /\ Progress(my[v])'
    <2>1. pc[v] # "idle" /\ my'[v] = my[v]
      BY <1>3 DEF IndInv, TypeOK, CommitOK
    <2>2. my[v] \in Appends /\ InFile(my[v]) /\ Progress(my[v])
      BY <2>1 DEF IndInv, TypeOK, CommitOK, CallInv
    <2>3. /\ pendingGen \in Nat /\ syncedGen \in Nat /\ syncedGen < pendingGen
          /\ Len(data) \in Nat
      BY DEF IndInv, TypeOK, FileOK, CommitOK, RoundInv
    <2> QED BY <2>1, <2>2, <2>3 DEF Progress, InFile, Appends
  <1>4. durable \in Nat /\ ~dropped
    BY DEF IndInv, TypeOK, FileOK
  <1> QED
    BY <1>1, <1>2, <1>3, <1>4, KeepInv

(* A broadcast moves a writer from wait to commit and nowhere else. *)
LEMMA BroadcastKeeps ==
    ASSUME IndInv, NEW w \in Writers, my' = [my EXCEPT ![w] = NoAppend],
           pc' = [Broadcast(pc) EXCEPT ![w] = "idle"]
    PROVE  /\ pc' \in [Writers -> {"idle", "commit", "wait", "fsync"}]
           /\ my' \in [Writers -> Appends]
           /\ \A v \in Writers : pc'[v] # "idle" =>
                  v # w /\ pc[v] # "idle" /\ my'[v] = my[v]
           /\ \A v \in Writers : pc'[v] = "fsync" => pc[v] = "fsync"
  BY DEF IndInv, TypeOK, CommitOK, Broadcast, Appends, NoAppend

(* A failed flush ends the call of one writer and wakes the others.  *)
LEMMA CommitFlushFailsInv ==
    ASSUME NEW w \in Writers, IndInv, CommitFlushFails(w)
    PROVE  IndInv'
  <1> USE DEF CommitFlushFails, Locked, AnswerError
  <1>1. /\ written' \in written..Len(data) /\ errors' \in Nat
    BY DEF IndInv, TypeOK, FileOK, BoundsOK
  <1>2. /\ pc' \in [Writers -> {"idle", "commit", "wait", "fsync"}]
        /\ my' \in [Writers -> Appends]
        /\ \A v \in Writers : pc'[v] # "idle" =>
               v # w /\ pc[v] # "idle" /\ my'[v] = my[v]
        /\ \A v \in Writers : pc'[v] = "fsync" => pc[v] = "fsync"
    BY BroadcastKeeps
  <1>3. TypeOK'
    <2> USE DEF IndInv, TypeOK
    <2>1. FileOK' BY <1>1 DEF FileOK
    <2>2. CommitOK' BY <1>2 DEF CommitOK
    <2>3. FlagsOK' BY DEF FlagsOK
    <2>4. SubscriberOK' /\ BoundsOK' BY <1>1 DEF SubscriberOK, BoundsOK
    <2> QED BY <2>1, <2>2, <2>3, <2>4
  <1>4. RoundInv'
    BY <1>1, <1>2 DEF IndInv, TypeOK, RoundInv, FileOK, CommitOK
  <1>5. durable \in Nat /\ written <= written' /\ ~dropped
    BY <1>1 DEF IndInv, TypeOK, FileOK
  <1>6. \A v \in Writers : pc'[v] # "idle" => Progress(my[v])'
    BY <1>2, <1>3, <1>5, KeepProgress
  <1> QED
    BY <1>2, <1>3, <1>4, <1>5, <1>6, KeepInv

(* A completed round makes durable what it covers, and with it the records *)
(* of every generation up to its own.                                      *)
LEMMA FsyncOKInv ==
    ASSUME NEW w \in Writers, IndInv, FsyncOK(w)
    PROVE  IndInv'
  <1> USE DEF FsyncOK, RoundOK, AnswerOK
  <1>1. /\ pc' \in [Writers -> {"idle", "commit", "wait", "fsync"}]
        /\ my' \in [Writers -> Appends]
        /\ \A v \in Writers : pc'[v] # "idle" =>
               v # w /\ pc[v] # "idle" /\ my'[v] = my[v]
        /\ \A v \in Writers : pc'[v] = "fsync" => pc[v] = "fsync"
    BY BroadcastKeeps
  <1>2. /\ syncing /\ round.gen < pendingGen /\ round.len <= written
        /\ my[w].gen <= round.gen /\ my[w] \in Appends
        /\ \A v \in Writers : pc'[v] # "fsync"
    BY <1>1 DEF IndInv, RoundInv, TypeOK, CommitOK
  <1>3. /\ durable' \in durable..written /\ round.len <= durable'
        /\ durable \in Nat /\ written \in Nat /\ round.len \in Nat
        /\ round.gen \in Nat /\ round.tail \in Nat /\ pendingGen \in Nat
        /\ ~dropped
    BY <1>2 DEF IndInv, TypeOK, FileOK, CommitOK, Synced
  <1>4. TypeOK'
    <2> USE DEF IndInv, TypeOK
    <2>1. FileOK' BY <1>3 DEF FileOK
    <2>2. CommitOK' BY <1>1, <1>2, <1>3 DEF CommitOK, NoRound
    <2>3. FlagsOK' BY DEF FlagsOK
    <2>4. SubscriberOK' BY DEF SubscriberOK, WakeSubscriber
    <2>5. BoundsOK' BY DEF BoundsOK, bounds
    <2> QED BY <2>1, <2>2, <2>3, <2>4, <2>5
  <1>5. RoundInv'
    BY <1>2, <1>3 DEF RoundInv
  <1>6. ASSUME NEW v \in Writers, pc'[v] # "idle" PROVE Progress(my[v])'
    <2>1. my'[v] = my[v] /\ my[v] \in Appends /\ Progress(my[v])
      BY <1>1, <1>6 DEF IndInv, CallInv, TypeOK, CommitOK
    <2> QED BY <2>1, <1>2, <1>3 DEF Progress, Appends
  <1>7. my[w].pos <= durable'
    <2>1. Progress(my[w])
      BY DEF IndInv, CallInv
    <2> QED BY <2>1, <1>2, <1>3 DEF Progress, Appends
  <1> QED
    BY <1>1, <1>3, <1>4, <1>5, <1>6, <1>7, KeepInv

(* A failed round leaves every record where it was, for another round.     *)
LEMMA FsyncFailsInv ==
    ASSUME NEW w \in Writers, IndInv, FsyncFails(w), Retryable
    PROVE  IndInv'
  <1> USE DEF FsyncFails, AnswerError, shard
  <1>1. /\ pc' \in [Writers -> {"idle", "commit", "wait", "fsync"}]
        /\ my' \in [Writers -> Appends]
        /\ \A v \in Writers : pc'[v] # "idle" =>
               v # w /\ pc[v] # "idle" /\ my'[v] = my[v]
        /\ \A v \in Writers : pc'[v] = "fsync" => pc[v] = "fsync"
    BY BroadcastKeeps
  <1>2. \A v \in Writers : pc'[v] # "fsync"
    BY <1>1 DEF IndInv, RoundInv
  <1>3. errors' \in Nat /\ ~dropped'
    <2>1. errors' \in Nat BY DEF IndInv, TypeOK, BoundsOK
    <2>2. ~dropped' BY Zenon DEF IndInv
    <2> QED BY <2>1, <2>2
  <1>4. TypeOK'
    <2> USE DEF IndInv, TypeOK
    <2>1. FileOK' BY DEF FileOK
    <2>2. CommitOK' BY <1>1 DEF CommitOK, NoRound
    <2>3. FlagsOK' BY <1>3 DEF FlagsOK
    <2>4. SubscriberOK' /\ BoundsOK' BY <1>3 DEF SubscriberOK, BoundsOK
    <2> QED BY <2>1, <2>2, <2>3, <2>4
  <1>5. RoundInv'
    BY <1>2 DEF IndInv, RoundInv
  <1>6. ASSUME NEW v \in Writers, pc'[v] # "idle" PROVE Progress(my[v])'
    <2>1. my'[v] = my[v] /\ Progress(my[v])
      BY <1>1, <1>6 DEF IndInv, CallInv
    <2> QED BY <2>1 DEF Progress
  <1>7. durable \in Nat
    BY DEF IndInv, TypeOK, FileOK
  <1> QED
    BY <1>1, <1>3, <1>4, <1>5, <1>6, <1>7, KeepInv

(* Close flushes and syncs without a round; what it makes durable needs no *)
(* generation.                                                             *)
LEMMA CloseInv ==
    ASSUME IndInv, Close, Retryable
    PROVE  IndInv'
  <1> USE DEF Close, commit
  <1>1. /\ pc' \in [Writers -> {"idle", "commit", "wait", "fsync"}]
        /\ \A v \in Writers : pc'[v] # "idle" => pc[v] # "idle"
        /\ \A v \in Writers : pc'[v] = "fsync" => pc[v] = "fsync"
    BY DEF IndInv, TypeOK, CommitOK, Broadcast
  <1>2. ~dropped /\ ~dropped'
    <2>1. dropped' = dropped \/ dropped' = (dropped \/ ~Retryable)
      BY DEF Close
    <2>2. ~dropped
      BY DEF IndInv
    <2> HIDE DEF Close
    <2>3. CASE dropped' = dropped
      BY <2>2, <2>3
    <2>4. CASE dropped' = (dropped \/ ~Retryable)
      BY <2>2, <2>4, Zenon
    <2> QED BY <2>1, <2>2, <2>3, <2>4
  <1>3. /\ written' \in written..Len(data) /\ durable' \in durable..written'
        /\ durable \in Nat /\ written \in Nat /\ errors' \in Nat
    BY <1>2 DEF IndInv, TypeOK, FileOK, BoundsOK, Synced
  <1>4. TypeOK'
    <2> USE DEF IndInv, TypeOK
    <2>1. FileOK' BY <1>3 DEF FileOK
    <2>2. CommitOK' BY <1>1 DEF CommitOK
    <2>3. FlagsOK' BY <1>2 DEF FlagsOK
    <2>4. SubscriberOK' BY DEF SubscriberOK, WakeSubscriber
    <2>5. BoundsOK' BY <1>3 DEF BoundsOK
    <2> QED BY <2>1, <2>2, <2>3, <2>4, <2>5
  <1>5. RoundInv'
    BY <1>1 DEF IndInv, RoundInv
  <1>6. written <= written' /\ durable <= durable'
    BY <1>3, <1>4 DEF TypeOK, FileOK
  <1>7. \A v \in Writers : pc'[v] # "idle" => Progress(my[v])'
    BY <1>1, <1>4, <1>6, KeepProgress
  <1> QED
    BY <1>1, <1>2, <1>4, <1>5, <1>6, <1>7, KeepInv

(* The subscriber only reads. *)
LEMMA SubscriptionInv ==
    ASSUME IndInv, Subscription
    PROVE  IndInv'
  <1>1. UNCHANGED subEnv
    BY Zenon DEF Subscription, Subscribe, Cancel, SubscriberStep, Backfill,
       BackfillEnds, Check, Send, SendEnds, Deliver, SubGoes
  <1>2. SubscriberOK'
    <2> USE DEF IndInv, TypeOK, SubscriberOK
    <2>1. CASE \E from \in From : Subscribe(from)
      <3>1. PICK from \in From : Subscribe(from)
        BY <2>1
      <3>2. from \in Nat
        BY ShardWalAssumption
      <3>3. sub' = [phase |-> "backfill", next |-> from, limit |-> 0,
                    cancelled |-> FALSE]
        BY <3>1 DEF Subscribe, NoSubscriber
      <3>4. seen' = seen
        BY <3>1 DEF Subscribe
      <3>5. seen \subseteq Nat
        OBVIOUS
      <3> HIDE DEF IndInv, TypeOK
      <3>6. sub' \in [phase : {"none", "backfill", "check", "parked", "send",
                              "done"},
                     next : Nat, limit : Nat, cancelled : BOOLEAN]
        BY <3>2, <3>3
      <3> QED BY <3>4, <3>5, <3>6
    <2>2. CASE Cancel
      BY <2>2 DEF Cancel
    <2>3. CASE Deliver
      BY <2>3 DEF Deliver
    <2>4. ASSUME NEW phase \in {"check", "parked", "done"}, SubGoes(phase)
          PROVE  SubscriberOK'
      BY <2>4 DEF SubGoes
    <2>5. CASE BackfillEnds \/ SendEnds
      BY <2>4, <2>5, Zenon DEF BackfillEnds, SendEnds
    <2>6. CASE Check
      <3>1. CASE /\ sub' = [sub EXCEPT !.phase = "send", !.limit = synced]
                 /\ UNCHANGED <<subEnv, seen>>
        BY <3>1 DEF FileOK
      <3> QED BY <3>1, <2>4, <2>6, Zenon DEF Check
    <2> QED
      BY <2>1, <2>2, <2>3, <2>5, <2>6, Zenon
      DEF Subscription, SubscriberStep, Backfill, Send
  <1>3. UNCHANGED <<data, written, durable, dropped, tail, synced, pendingGen,
                    syncedGen, syncing, syncErr, round, bufErr, closed, fdOpen,
                    mu, pc, my, records, errors, crashes, acked>>
    BY <1>1 DEF subEnv, file, commit, shard, calls, bounds
  <1>4. TypeOK'
    BY <1>2, <1>3
    DEF IndInv, TypeOK, FileOK, CommitOK, FlagsOK, BoundsOK
  <1> QED
    BY <1>3, <1>4
    DEF IndInv, RoundInv, CallInv, InFile, Progress, AckInv, OffsetInv, Clean

(* What a crash leaves of the file: its first n records, and a fragment.   *)
LEMMA SurvivesLen ==
    ASSUME FileOK, NEW n \in 0..written, NEW torn \in BOOLEAN
    PROVE  /\ Survives(n, torn) \in Seq(Nat \cup {Torn})
           /\ Len(Survives(n, torn)) \in n..n + 1
           /\ \A i \in 1..n : Survives(n, torn)[i] = data[i]
  <1> DEFINE d == SubSeq(data, 1, n)
  <1>1. /\ d \in Seq(Nat \cup {Torn}) /\ Len(d) = n /\ n \in Nat
        /\ \A i \in 1..n : d[i] = data[i]
    BY DEF FileOK
  <1> HIDE DEF d
  <1>2. CASE torn
    <2>1. Survives(n, torn) = Append(d, Torn)
      BY <1>2 DEF Survives, d
    <2> QED BY <1>1, <2>1
  <1>3. CASE ~torn
    <2>1. Survives(n, torn) = d
      BY <1>3 DEF Survives, d
    <2> QED BY <1>1, <2>1
  <1> QED BY <1>2, <1>3

(* Reopening a file that kept the durable records keeps the acknowledged   *)
(* ones, at their offsets.                                                 *)
LEMMA ReopenInv ==
    ASSUME IndInv, NEW d \in Seq(Nat \cup {Torn}), NEW dur \in durable..Len(d),
           \A i \in 1..durable : d[i] = data[i],
           Reopen(d, dur, FALSE)
    PROVE  IndInv'
  <1> USE DEF Reopen
  <1>1. Recovered(d) \in Nat /\ Len(d) \in Nat /\ durable \in Nat
    BY DEF Recovered, IndInv, TypeOK, FileOK
  <1>2. TypeOK'
    <2> USE DEF IndInv, TypeOK
    <2>1. FileOK' BY <1>1 DEF FileOK
    <2>2. CommitOK' BY DEF CommitOK, NoRound, NoAppend, Appends
    <2>3. FlagsOK' BY DEF FlagsOK
    <2>4. SubscriberOK' BY DEF SubscriberOK, NoSubscriber
    <2>5. BoundsOK' BY DEF BoundsOK
    <2> QED BY <2>1, <2>2, <2>3, <2>4, <2>5
  <1>3. RoundInv' /\ CallInv'
    BY DEF RoundInv, CallInv
  <1>4. ASSUME NEW a \in acked
        PROVE  /\ a.pos \in 1..durable /\ data'[a.pos] = a.rec
               /\ Clean(a.pos)' => a.pos = a.off + 1
    <2>1. a.pos \in 1..durable /\ data[a.pos] = a.rec /\ a.pos \in Nat
      BY <1>1 DEF IndInv, AckInv, InFile, TypeOK, FileOK, CommitOK, Appends
    <2>2. \A i \in 1..a.pos : data'[i] = data[i]
      BY <2>1, <1>1
    <2>3. Clean(a.pos)' => Clean(a.pos)
      BY <2>2 DEF Clean
    <2> QED BY <2>1, <2>2, <2>3 DEF IndInv, OffsetInv
  <1>5. AckInv'
    BY <1>1, <1>4 DEF AckInv, InFile
  <1>6. OffsetInv'
    <2>1. Clean(Len(data))' => tail' = Len(data')
      BY DEF Clean, Recovered
    <2> QED BY <2>1, <1>4 DEF OffsetInv
  <1> QED BY <1>2, <1>3, <1>5, <1>6 DEF IndInv

(* A killed process leaves all that was written; a power failure at least  *)
(* what is durable.                                                        *)
LEMMA CrashInv ==
    ASSUME IndInv, ProcessCrash \/ PowerFailure
    PROVE  IndInv'
  <1>1. FileOK /\ dropped = FALSE /\ durable \in 0..written /\ written \in Nat
    BY DEF IndInv, TypeOK, FileOK, FlagsOK
  <1>2. CASE ProcessCrash
    <2>1. PICK torn \in BOOLEAN : Reopen(Survives(written, torn), durable, dropped)
      BY <1>2 DEF ProcessCrash
    <2>2. Reopen(Survives(written, torn), durable, FALSE)
      BY <1>1, <2>1
    <2>3. /\ Survives(written, torn) \in Seq(Nat \cup {Torn})
          /\ Len(Survives(written, torn)) \in written..written + 1
          /\ \A i \in 1..written : Survives(written, torn)[i] = data[i]
      BY <1>1, SurvivesLen
    <2>4. durable \in durable..Len(Survives(written, torn))
      BY <1>1, <2>3
    <2>5. \A i \in 1..durable : Survives(written, torn)[i] = data[i]
      BY <1>1, <2>3
    <2> QED BY <2>2, <2>3, <2>4, <2>5, ReopenInv
  <1>3. CASE PowerFailure
    <2>1. PICK n \in durable..written, torn \in BOOLEAN :
             Reopen(Survives(n, torn), Len(Survives(n, torn)), FALSE)
      BY <1>3 DEF PowerFailure
    <2>2. n \in 0..written
      BY <1>1
    <2>3. /\ Survives(n, torn) \in Seq(Nat \cup {Torn})
          /\ Len(Survives(n, torn)) \in n..n + 1
          /\ \A i \in 1..n : Survives(n, torn)[i] = data[i]
      BY <1>1, <2>2, SurvivesLen
    <2>4. Len(Survives(n, torn)) \in durable..Len(Survives(n, torn))
      BY <1>1, <2>3
    <2>5. \A i \in 1..durable : Survives(n, torn)[i] = data[i]
      BY <1>1, <2>3
    <2> QED BY <2>1, <2>3, <2>4, <2>5, ReopenInv
  <1> QED BY <1>2, <1>3

(* Every step of the log preserves the invariant. *)
LEMMA NextInv ==
    ASSUME Retryable, IndInv, [Next]_vars
    PROVE  IndInv'
  <1>1. ASSUME NEW w \in Writers, Append_(w) PROVE IndInv'
    BY <1>1, AppendInv
  <1>2. ASSUME NEW w \in Writers, WriteFails(w) PROVE IndInv'
    BY <1>2, WriteFailsInv
  <1>3. ASSUME NEW w \in Writers, Commit(w) PROVE IndInv'
    BY <1>3, CommitDoneInv, CommitWaitInv, CommitFlushInv, CommitFlushFailsInv
    DEF Commit
  <1>4. ASSUME NEW w \in Writers, Fsync(w) PROVE IndInv'
    BY <1>4, FsyncOKInv, FsyncFailsInv DEF Fsync
  <1>5. CASE Close
    BY <1>5, CloseInv
  <1>6. CASE Subscription
    BY <1>6, SubscriptionInv
  <1>7. CASE ProcessCrash \/ PowerFailure
    BY <1>7, CrashInv
  <1>8. CASE UNCHANGED vars
    <2>1. UNCHANGED <<data, written, durable, dropped, tail, synced, pendingGen,
                      syncedGen, syncing, syncErr, round, bufErr, closed, fdOpen,
                      mu, pc, my, sub, seen, records, errors, crashes, acked>>
      BY <1>8 DEF vars, file, commit, shard, calls, bounds
    <2>2. TypeOK'
      BY <2>1
      DEF IndInv, TypeOK, FileOK, CommitOK, FlagsOK, SubscriberOK, BoundsOK
    <2> QED
      BY <2>1, <2>2
      DEF IndInv, RoundInv, CallInv, InFile, Progress, AckInv, OffsetInv, Clean
  <1> QED
    BY <1>1, <1>2, <1>3, <1>4, <1>5, <1>6, <1>7, <1>8 DEF Next

(* Type correctness of a shard's log: counters stay in range, and the file *)
(* keeps its order durable <= written <= appended through every failed     *)
(* flush, failed fsync and crash.                                          *)
THEOREM TypeCorrect == Retryable => (Spec => []TypeOK)
  <1> SUFFICES ASSUME Retryable PROVE Spec => []TypeOK
    OBVIOUS
  <1>1. IndInv /\ [Next]_vars => IndInv'
    BY NextInv
  <1>2. IndInv => TypeOK
    BY DEF IndInv
  <1> QED BY InitInv, <1>1, <1>2, PTL DEF Spec

(* Durability of acknowledged appends (groupCommitLocked, Open): where an  *)
(* fsync covers the pages of a failed one, a record whose Append returned  *)
(* an offset is in the durable part of the file ever after.                *)
THEOREM Durability == Retryable => (Spec => []AckedIsDurable)
  <1> SUFFICES ASSUME Retryable PROVE Spec => []AckedIsDurable
    OBVIOUS
  <1>1. IndInv /\ [Next]_vars => IndInv'
    BY NextInv
  <1>2. IndInv => AckedIsDurable
    BY DEF IndInv, AckInv, InFile, AckedIsDurable
  <1> QED BY InitInv, <1>1, <1>2, PTL DEF Spec

(* Stable offsets (Append, recoverTail): with no torn record in the file,  *)
(* Replay finds every acknowledged record at the offset Append returned.   *)
THEOREM StableOffsets == Retryable => (Spec => []OffsetsAreStable)
  <1> SUFFICES ASSUME Retryable PROVE Spec => []OffsetsAreStable
    OBVIOUS
  <1>1. IndInv /\ [Next]_vars => IndInv'
    BY NextInv
  <1>2. IndInv => OffsetsAreStable
    <2> SUFFICES ASSUME IndInv, Untorn, NEW a \in acked
                 PROVE  /\ a.pos = a.off + 1
                        /\ a.off < tail
                        /\ a.pos \in Readable(data, written)
      BY DEF OffsetsAreStable
    <2>1. /\ a.pos \in 1..Len(data) /\ a.pos <= durable /\ durable \in 0..written
          /\ written \in 0..Len(data) /\ a.off \in Nat /\ Len(data) \in Nat
      BY DEF IndInv, AckInv, InFile, TypeOK, FileOK, CommitOK, Appends
    <2>2. Clean(a.pos) /\ Clean(Len(data))
      BY <2>1 DEF Untorn, Clean
    <2>3. a.pos = a.off + 1 /\ tail = Len(data)
      BY <2>2 DEF IndInv, OffsetInv
    <2> QED BY <2>1, <2>2, <2>3 DEF Readable, Clean
  <1> QED BY InitInv, <1>1, <1>2, PTL DEF Spec
=============================================================================
