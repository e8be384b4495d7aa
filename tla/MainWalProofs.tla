--------------------------- MODULE MainWalProofs ----------------------------
(***************************************************************************)
(* What the broker's write-ahead log promises, for any number of writers,  *)
(* records, failed operations and restarts.                                *)
(***************************************************************************)
EXTENDS MainWal, TLAPS

(* The deployments in which sync mode always keeps its promise: no Write   *)
(* to the file fails, and a failed fsync can be made up for by a later     *)
(* one, or no later broker opens the file.                                 *)
Trusted(c) ==
    /\ c.mode = "always" /\ "write" \notin c.faults
    /\ c.retryable \/ "sync" \notin c.faults \/ c.restarts = 0

(* At most one round is in flight, and it is behind the open generation. *)
RoundInv ==
    /\ syncedGen < pendingGen
    /\ syncing => round.gen < pendingGen /\ round.len <= written
    /\ \A v, w \in Writers : pc[v] = "fsync" /\ pc[w] = "fsync" => v = w
    /\ \A w \in Writers : /\ pc[w] # "idle" => my[w].gen <= pendingGen
                          /\ pc[w] = "fsync" => my[w].gen <= round.gen

(* Poisoning: no round begins or ends once the log is poisoned, so syncErr *)
(* stays set, and pages a failed fsync dropped are never vouched for.      *)
PoisonInv ==
    /\ fatal => syncErr /\ ~syncing
    /\ broken => fatal
    /\ dropped => fatal /\ conf.restarts = 0

InFile(m) == m.pos \in 1..Len(data) /\ data[m.pos] = m.rec

(* How far a record has come, by its generation: a closed generation is in *)
(* the file, the one being synced is within the round, a synced one is     *)
(* durable.                                                                *)
Progress(m) ==
    /\ m.gen < pendingGen => m.pos <= written
    /\ syncing /\ m.gen <= round.gen => m.pos <= round.len
    /\ m.gen <= syncedGen => m.pos <= durable

CallInv == \A w \in Writers : pc[w] # "idle" => InFile(my[w]) /\ Progress(my[w])

AckInv == \A a \in acked : a.pos \in 1..durable /\ data[a.pos] = a.rec

IndInv ==
    /\ TypeOK /\ RoundInv
    /\ Trusted(conf) => PoisonInv /\ CallInv /\ AckInv /\ ReplayComplete

-----------------------------------------------------------------------------
(* Open on an empty file *)
LEMMA InitInv == Init => IndInv
  <1> SUFFICES ASSUME Init PROVE IndInv
    OBVIOUS
  <1> USE DEF Init
  <1>1. FileOK BY DEF FileOK
  <1>2. FlagsOK BY MainWalAssumption DEF FlagsOK
  <1>3. CommitOK BY DEF CommitOK, Appends, NoAppend, NoRound
  <1>4. BoundsOK BY DEF BoundsOK
  <1>5. RoundInv BY DEF RoundInv
  <1>6. PoisonInv /\ CallInv /\ AckInv /\ ReplayComplete
    BY DEF PoisonInv, CallInv, AckInv, ReplayComplete
  <1> QED BY <1>1, <1>2, <1>3, <1>4, <1>5, <1>6 DEF IndInv, TypeOK

(* A record keeps what it has reached while the rounds stand still. *)
LEMMA KeepProgress ==
    ASSUME IndInv, TypeOK', NEW v \in Writers, pc[v] # "idle", Progress(my[v]),
           written <= written', durable <= durable', my'[v] = my[v],
           UNCHANGED <<pendingGen, syncedGen, round>>,
           syncing' => syncing
    PROVE  Progress(my[v])'
  <1>1. PICK m \in Appends : m = my[v] /\ m = my'[v] BY DEF IndInv, TypeOK, CommitOK
  <1>2. /\ written \in Nat /\ written' \in Nat /\ durable \in Nat /\ durable' \in Nat
        /\ pendingGen \in Nat /\ syncedGen \in Nat /\ round \in [gen : Nat, len : Nat]
    BY DEF IndInv, TypeOK, FileOK, CommitOK
  <1>3. Progress(m) /\ m.pos \in Nat /\ m.gen \in Nat BY <1>1 DEF Progress, Appends
  <1>4. Progress(m)' BY <1>2, <1>3 DEF Progress
  <1> QED BY <1>1, <1>4 DEF Progress

(* A step that appends nothing, takes nothing out of the file and          *)
(* acknowledges only durable records keeps what the log promises.          *)
LEMMA KeepInv ==
    ASSUME IndInv, TypeOK', RoundInv', data' = data, durable <= durable',
           UNCHANGED <<conf, up, replayed, restarts>>,
           Trusted(conf) => PoisonInv',
           \A v \in Writers : pc'[v] # "idle" =>
               /\ pc[v] # "idle" /\ my'[v] = my[v]
               /\ Trusted(conf) => Progress(my[v])',
           Trusted(conf) => \A a \in acked' : a \in acked \/ \E v \in Writers :
               /\ pc[v] # "idle" /\ my[v].pos <= durable'
               /\ a = [rec |-> my[v].rec, pos |-> my[v].pos, life |-> restarts]
    PROVE  IndInv'
  <1> SUFFICES ASSUME Trusted(conf) PROVE CallInv' /\ AckInv' /\ ReplayComplete'
    BY DEF IndInv
  <1>1. CallInv /\ AckInv /\ ReplayComplete BY DEF IndInv
  <1>2. CallInv' BY <1>1 DEF CallInv, InFile
  <1>3. durable \in Nat /\ durable' \in Nat /\ restarts \in Nat /\ Len(data) \in Nat
    BY DEF IndInv, TypeOK, FileOK, BoundsOK
  <1>4. ASSUME NEW a \in acked', a \notin acked
        PROVE  a.pos \in 1..durable' /\ data[a.pos] = a.rec /\ ~(a.life < restarts)
    <2>1. PICK v \in Writers : /\ pc[v] # "idle" /\ my[v].pos <= durable'
                               /\ a = [rec |-> my[v].rec, pos |-> my[v].pos, life |-> restarts]
      BY <1>4
    <2>2. my[v].pos \in 1..Len(data) /\ data[my[v].pos] = my[v].rec
      BY <1>1, <2>1 DEF CallInv, InFile
    <2> QED BY <1>3, <2>1, <2>2
  <1>5. AckInv'
    <2> SUFFICES ASSUME NEW a \in acked' PROVE a.pos \in 1..durable' /\ data'[a.pos] = a.rec
      BY DEF AckInv
    <2>1. CASE a \in acked BY <1>1, <1>3, <2>1 DEF AckInv
    <2> QED BY <1>4, <2>1
  <1>6. ReplayComplete'
    <2> SUFFICES ASSUME NEW a \in acked', conf'.mode = "always", up', a.life < restarts',
                        \A i \in 1..a.pos : data'[i] \notin Fragments
                 PROVE  a.rec \in replayed'
      BY DEF ReplayComplete
    <2>1. a \in acked BY <1>4
    <2> QED BY <1>1, <2>1 DEF ReplayComplete
  <1> QED BY <1>2, <1>5, <1>6

(* Appending to the buffer: the new record is behind every other, in the   *)
(* generation that no round covers yet.                                    *)
LEMMA AppendInv ==
    ASSUME NEW w \in Writers, IndInv, AppendRecord(w)
    PROVE  IndInv'
  <1> DEFINE m == [rec |-> records + 1, gen |-> pendingGen, pos |-> Len(data) + 1]
  <1>1. /\ data' = Append(data, records + 1) /\ Len(data') = Len(data) + 1
        /\ \A i \in 1..Len(data) : data'[i] = data[i]
        /\ data'[Len(data) + 1] = records + 1 /\ Len(data) \in Nat
    BY DEF AppendRecord, IndInv, TypeOK, FileOK
  <1>2. /\ written' \in written..Len(data') /\ records' = records + 1
        /\ UNCHANGED <<durable, dropped, pendingGen, syncedGen, syncing, round, fatal,
                       syncErr, broken, conf, up, replayed, errors, restarts>>
        /\ pc[w] = "idle" /\ ~fatal
    BY <1>1 DEF AppendRecord, Entered, commit, poison, life
  <1>3. \/ /\ conf.mode # "always" /\ UNCHANGED <<mu, pc, my>>
           /\ acked' = acked \cup {[rec |-> m.rec, pos |-> m.pos, life |-> restarts]}
        \/ /\ my' = [my EXCEPT ![w] = m] /\ mu' = w
           /\ pc' = [pc EXCEPT ![w] = "commit"] /\ UNCHANGED acked
    BY <1>1 DEF AppendRecord, Ack, calls
  <1>4. m \in Appends /\ records + 1 \in Nat /\ restarts \in Nat
    BY <1>1 DEF IndInv, TypeOK, BoundsOK, CommitOK, Appends
  <1>5. m.rec = records + 1 /\ m.pos = Len(data) + 1 /\ m.gen = pendingGen OBVIOUS
  <1> HIDE DEF m
  <1>6. /\ written \in Nat /\ durable \in 0..written /\ written <= Len(data)
        /\ pendingGen \in Nat /\ syncedGen \in Nat /\ syncedGen < pendingGen
        /\ round \in [gen : Nat, len : Nat]
    BY <1>1 DEF IndInv, TypeOK, FileOK, CommitOK, RoundInv
  <1>7. FileOK'
    <2>1. data' \in Seq(Nat \cup Fragments) BY <1>1, <1>4 DEF IndInv, TypeOK, FileOK
    <2> QED BY <1>1, <1>2, <1>6, <2>1 DEF IndInv, TypeOK, FileOK
  <1>8. FlagsOK' BY <1>2 DEF IndInv, TypeOK, FlagsOK
  <1>9. \A v \in Writers : pc'[v] = "fsync" <=> pc[v] = "fsync"
    BY <1>2, <1>3 DEF IndInv, TypeOK, CommitOK
  <1>10. CommitOK'
    <2>1. pc' \in [Writers -> {"idle", "commit", "wait", "fsync"}] /\ my' \in [Writers -> Appends]
          /\ mu' \in Writers \cup {None}
      BY <1>3, <1>4 DEF IndInv, TypeOK, CommitOK
    <2> QED BY <1>2, <1>9, <2>1 DEF IndInv, TypeOK, CommitOK
  <1>11. BoundsOK'
    <2>1. [rec |-> m.rec, pos |-> m.pos, life |-> restarts] \in [rec : Nat, pos : Nat, life : Nat]
      BY <1>4 DEF Appends
    <2> QED BY <1>2, <1>3, <1>4, <2>1 DEF IndInv, TypeOK, BoundsOK
  <1>12. \A v \in Writers : pc'[v] # "idle" =>
            \/ v # w /\ pc'[v] = pc[v] /\ my'[v] = my[v]
            \/ v = w /\ pc'[v] = "commit" /\ my'[v] = m
    BY <1>2, <1>3 DEF IndInv, TypeOK, CommitOK
  <1>13. RoundInv'
    <2>1. syncing' => round'.gen < pendingGen' /\ round'.len <= written'
      BY <1>2, <1>6 DEF IndInv, RoundInv
    <2>2. \A v \in Writers : /\ pc'[v] # "idle" => my'[v].gen <= pendingGen'
                             /\ pc'[v] = "fsync" => my'[v].gen <= round'.gen
      BY <1>2, <1>5, <1>6, <1>12 DEF IndInv, RoundInv
    <2> QED BY <1>2, <1>6, <1>9, <2>1, <2>2 DEF IndInv, RoundInv
  <1>14. ASSUME Trusted(conf)
         PROVE  PoisonInv' /\ CallInv' /\ AckInv' /\ ReplayComplete'
    <2>1. PoisonInv /\ CallInv /\ AckInv /\ ReplayComplete BY <1>14 DEF IndInv
    <2>2. acked' = acked BY <1>3, <1>14 DEF Trusted
    <2>3. PoisonInv' BY <1>2, <2>1 DEF PoisonInv
    <2>4. CallInv'
      <3> SUFFICES ASSUME NEW v \in Writers, pc'[v] # "idle"
                   PROVE  InFile(my[v])' /\ Progress(my[v])'
        BY DEF CallInv
      <3>1. CASE v # w /\ pc'[v] = pc[v] /\ my'[v] = my[v]
        <4>1. InFile(my[v]) /\ Progress(my[v]) BY <2>1, <3>1 DEF CallInv
        <4>2. my[v] \in Appends BY DEF IndInv, TypeOK, CommitOK
        <4>3. InFile(my[v])' BY <1>1, <3>1, <4>1 DEF InFile
        <4>4. Progress(my[v])' BY <1>2, <1>6, <3>1, <4>1, <4>2 DEF Progress, Appends
        <4> QED BY <4>3, <4>4
      <3>2. CASE v = w /\ my'[v] = m
        <4>1. InFile(my[v])' BY <1>1, <1>5, <3>2 DEF InFile
        <4>2. Progress(my[v])' BY <1>2, <1>5, <1>6, <3>2 DEF Progress, IndInv, RoundInv
        <4> QED BY <4>1, <4>2
      <3> QED BY <1>12, <3>1, <3>2
    <2>5. \A a \in acked : a.pos \in 1..Len(data) /\ a.pos \in 1..durable /\ data[a.pos] = a.rec
      BY <1>1, <1>6, <2>1 DEF AckInv
    <2>6. AckInv' BY <1>1, <1>2, <2>2, <2>5 DEF AckInv
    <2>7. ASSUME NEW a \in acked, \A i \in 1..a.pos : data'[i] \notin Fragments
          PROVE  \A i \in 1..a.pos : data[i] \notin Fragments
      BY <1>1, <2>5, <2>7
    <2>8. ReplayComplete' BY <1>2, <2>1, <2>2, <2>7 DEF ReplayComplete
    <2> QED BY <2>3, <2>4, <2>6, <2>8
  <1> QED BY <1>2, <1>7, <1>8, <1>10, <1>11, <1>13, <1>14 DEF IndInv, TypeOK

(* A failed Write poisons the log; a poisoned log without an error to      *)
(* report acknowledges.  Neither happens where the log is trusted.         *)
LEMMA WriteFailsInv ==
    ASSUME NEW w \in Writers, IndInv, WriteFails(w) \/ AppendPoisoned(w)
    PROVE  IndInv'
  <1>1. ~Trusted(conf)
    BY DEF WriteFails, AppendPoisoned, MayFail, Trusted, IndInv, PoisonInv
  <1>2. /\ written' \in written..Len(data) /\ errors' \in Nat /\ records' \in Nat
        /\ UNCHANGED <<data, durable, dropped, pendingGen, syncedGen, syncing, round,
                       conf, up, replayed, mu, pc, my, restarts>>
        /\ broken' \in BOOLEAN /\ fatal' \in BOOLEAN /\ syncErr' \in BOOLEAN
    <2>1. CASE WriteFails(w)
      <3>1. written' \in written..Len(data) /\ errors' \in Nat /\ records' = records
        BY <2>1 DEF WriteFails, MayFail, IndInv, TypeOK, FileOK, BoundsOK
      <3> QED BY <2>1, <3>1 DEF WriteFails, Poison, IndInv, TypeOK, BoundsOK, commit, life, calls
    <2>2. CASE AppendPoisoned(w)
      BY <2>2 DEF AppendPoisoned, IndInv, TypeOK, FileOK, FlagsOK, BoundsOK, file, commit,
                  poison, life, calls
    <2> QED BY <2>1, <2>2
  <1>3. acked' \subseteq [rec : Nat, pos : Nat, life : Nat]
    <2>1. [rec |-> records + 1, pos |-> 0, life |-> restarts] \in [rec : Nat, pos : Nat, life : Nat]
      BY DEF IndInv, TypeOK, BoundsOK
    <2>2. acked' = acked \/ acked' = acked \cup {[rec |-> records + 1, pos |-> 0, life |-> restarts]}
      BY DEF WriteFails, AppendPoisoned, Ack, NoAppend
    <2> QED BY <2>1, <2>2 DEF IndInv, TypeOK, BoundsOK
  <1>4. TypeOK'
    BY <1>2, <1>3 DEF IndInv, TypeOK, FileOK, FlagsOK, CommitOK, BoundsOK
  <1>5. RoundInv' BY <1>2 DEF IndInv, TypeOK, FileOK, CommitOK, RoundInv
  <1> QED BY <1>1, <1>2, <1>4, <1>5 DEF IndInv

(* A writer leaves groupCommitLocked without touching a round: with nil    *)
(* only if a round covered it.                                             *)
LEMMA CommitDoneInv ==
    ASSUME NEW w \in Writers, IndInv, CommitDone(w)
    PROVE  IndInv'
  <1> DEFINE b == [rec |-> my[w].rec, pos |-> my[w].pos, life |-> restarts]
  <1>1. /\ pc[w] = "commit" /\ my' = [my EXCEPT ![w] = NoAppend] /\ mu' = None
        /\ pc' = [pc EXCEPT ![w] = "idle"]
        /\ acked' = acked \/ (acked' = acked \cup {b} /\ ~syncErr)
        /\ UNCHANGED <<data, written, durable, dropped, pendingGen, syncedGen, syncing, round,
                       fatal, syncErr, broken, conf, up, replayed, records, errors, restarts>>
    BY DEF CommitDone, Locked, Answer, Ack, file, commit, poison, life, bounds
  <1>2. fatal \/ syncedGen >= my[w].gen BY DEF CommitDone, Poisoned, Covered
  <1>3. my[w] \in Appends /\ NoAppend \in Appends /\ restarts \in Nat /\ durable \in Nat
        /\ written \in Nat /\ pendingGen \in Nat /\ syncedGen \in Nat
    BY DEF IndInv, TypeOK, CommitOK, FileOK, BoundsOK, Appends, NoAppend
  <1>4. \A v \in Writers : pc'[v] # "idle" => v # w /\ pc'[v] = pc[v] /\ my'[v] = my[v]
    BY <1>1 DEF IndInv, TypeOK, CommitOK
  <1>5. \A v \in Writers : pc'[v] = "fsync" <=> pc[v] = "fsync"
    BY <1>1 DEF IndInv, TypeOK, CommitOK
  <1>6. TypeOK'
    <2>1. b \in [rec : Nat, pos : Nat, life : Nat] BY <1>3 DEF Appends
    <2> HIDE DEF b
    <2>2. BoundsOK' BY <1>1, <2>1 DEF IndInv, TypeOK, BoundsOK
    <2>3. CommitOK' BY <1>1, <1>3, <1>5 DEF IndInv, TypeOK, CommitOK
    <2>4. FileOK' /\ FlagsOK' BY <1>1 DEF IndInv, TypeOK, FileOK, FlagsOK
    <2> QED BY <2>2, <2>3, <2>4 DEF TypeOK
  <1>7. RoundInv' BY <1>1, <1>4, <1>5 DEF IndInv, RoundInv
  <1>8. ASSUME Trusted(conf) PROVE PoisonInv' BY <1>1, <1>8 DEF IndInv, PoisonInv
  <1>9. ASSUME Trusted(conf), ~syncErr PROVE my[w].pos <= durable
    <2>1. Progress(my[w]) /\ ~fatal BY <1>1, <1>9 DEF IndInv, PoisonInv, CallInv
    <2> QED BY <1>2, <1>3, <2>1 DEF Progress, Appends
  <1>10. ASSUME Trusted(conf), NEW v \in Writers, pc'[v] # "idle" PROVE Progress(my[v])'
    <2>1. Progress(my[v]) /\ pc[v] # "idle" /\ my'[v] = my[v]
      BY <1>4, <1>10 DEF IndInv, CallInv
    <2> QED BY <1>1, <1>3, <1>6, <2>1, KeepProgress
  <1> QED BY <1>1, <1>3, <1>4, <1>6, <1>7, <1>8, <1>9, <1>10, KeepInv

(* Waiting for another round changes the call alone. *)
LEMMA CommitWaitInv ==
    ASSUME NEW w \in Writers, IndInv, CommitWait(w)
    PROVE  IndInv'
  <1>1. /\ pc[w] = "commit" /\ mu' = None /\ pc' = [pc EXCEPT ![w] = "wait"]
        /\ UNCHANGED <<data, written, durable, dropped, pendingGen, syncedGen, syncing, round,
                       fatal, syncErr, broken, conf, up, replayed, records, errors, restarts,
                       my, acked>>
    BY DEF CommitWait, Locked, file, commit, poison, life, bounds
  <1>2. \A v \in Writers : /\ pc'[v] # "idle" => pc[v] # "idle"
                           /\ pc'[v] = "fsync" <=> pc[v] = "fsync"
    BY <1>1 DEF IndInv, TypeOK, CommitOK
  <1>3. TypeOK' BY <1>1, <1>2 DEF IndInv, TypeOK, FileOK, FlagsOK, CommitOK, BoundsOK
  <1>4. RoundInv' BY <1>1, <1>2 DEF IndInv, RoundInv
  <1>5. ASSUME Trusted(conf) PROVE PoisonInv' BY <1>1, <1>5 DEF IndInv, PoisonInv
  <1>6. durable \in Nat /\ written \in Nat BY DEF IndInv, TypeOK, FileOK
  <1>7. ASSUME Trusted(conf), NEW v \in Writers, pc'[v] # "idle" PROVE Progress(my[v])'
    <2>1. Progress(my[v]) /\ pc[v] # "idle" BY <1>2, <1>7 DEF IndInv, CallInv
    <2> QED BY <1>1, <1>3, <1>6, <2>1, KeepProgress
  <1> QED BY <1>1, <1>2, <1>3, <1>4, <1>5, <1>6, <1>7, KeepInv

(* A new round covers everything appended so far: the whole buffer is      *)
(* flushed before the generation is closed.                                *)
LEMMA CommitFlushInv ==
    ASSUME NEW w \in Writers, IndInv, CommitFlush(w)
    PROVE  IndInv'
  <1>1. /\ pc[w] = "commit" /\ ~syncing /\ ~fatal /\ syncing' = TRUE /\ mu' = None
        /\ round' = [gen |-> pendingGen, len |-> Len(data)]
        /\ written' = Len(data) /\ pendingGen' = pendingGen + 1
        /\ pc' = [pc EXCEPT ![w] = "fsync"]
        /\ UNCHANGED <<data, durable, dropped, syncedGen, fatal, syncErr, broken, conf, up,
                       replayed, records, errors, restarts, my, acked>>
    BY DEF CommitFlush, Syncs, Locked, Poisoned, poison, life, bounds
  <1>2. /\ pendingGen \in Nat /\ syncedGen \in Nat /\ syncedGen < pendingGen
        /\ Len(data) \in Nat /\ durable \in Nat /\ written \in Nat /\ written <= Len(data)
        /\ durable <= written
    BY DEF IndInv, TypeOK, FileOK, CommitOK, RoundInv
  <1>3. \A v \in Writers : /\ pc'[v] # "idle" => pc[v] # "idle"
                           /\ pc'[v] = "fsync" <=> v = w
    BY <1>1 DEF IndInv, TypeOK, CommitOK
  <1>4. TypeOK'
    <2>1. CommitOK' BY <1>1, <1>2, <1>3 DEF IndInv, TypeOK, CommitOK
    <2> QED BY <1>1, <1>2, <2>1 DEF IndInv, TypeOK, FileOK, FlagsOK, BoundsOK
  <1>5. \A v \in Writers : pc[v] # "idle" => my[v].gen <= pendingGen /\ my[v].gen \in Nat
    BY DEF IndInv, RoundInv, TypeOK, CommitOK, Appends
  <1>6. RoundInv' BY <1>1, <1>2, <1>3, <1>5 DEF RoundInv
  <1>7. ASSUME Trusted(conf) PROVE PoisonInv' BY <1>1, <1>7 DEF IndInv, PoisonInv
  <1>8. ASSUME Trusted(conf), NEW v \in Writers, pc'[v] # "idle" PROVE Progress(my[v])'
    <2>1. InFile(my[v]) /\ Progress(my[v]) BY <1>3, <1>8 DEF IndInv, CallInv
    <2>2. my[v] \in Appends BY DEF IndInv, TypeOK, CommitOK
    <2> QED BY <1>1, <1>2, <2>1, <2>2 DEF Progress, InFile, Appends
  <1> QED BY <1>1, <1>2, <1>3, <1>4, <1>6, <1>7, <1>8, KeepInv

(* A broadcast moves a writer from wait to commit and nowhere else. *)
LEMMA BroadcastKeeps ==
    ASSUME IndInv, NEW w \in Writers, my' = [my EXCEPT ![w] = NoAppend],
           pc' = [Broadcast(pc) EXCEPT ![w] = "idle"]
    PROVE  /\ pc' \in [Writers -> {"idle", "commit", "wait", "fsync"}]
           /\ my' \in [Writers -> Appends]
           /\ \A v \in Writers : pc'[v] # "idle" =>
                  v # w /\ pc[v] # "idle" /\ my'[v] = my[v]
           /\ \A v \in Writers : pc'[v] = "fsync" <=> pc[v] = "fsync" /\ v # w
  BY DEF IndInv, TypeOK, CommitOK, Broadcast, Appends, NoAppend

(* A failed flush poisons the log: it happens outside a round, ends the    *)
(* call of one writer with an error and wakes the others.                  *)
LEMMA CommitFlushFailsInv ==
    ASSUME NEW w \in Writers, IndInv, CommitFlushFails(w)
    PROVE  IndInv'
  <1>1. /\ pc[w] = "commit" /\ ~syncing /\ broken' = TRUE /\ fatal' = TRUE /\ syncErr' = TRUE
        /\ my' = [my EXCEPT ![w] = NoAppend] /\ mu' = None
        /\ pc' = [Broadcast(pc) EXCEPT ![w] = "idle"]
        /\ UNCHANGED <<data, durable, dropped, pendingGen, syncedGen, syncing, round, conf, up,
                       replayed, records, restarts, acked>>
    BY DEF CommitFlushFails, Syncs, Locked, Poison, Answer, commit, life
  <1>2. /\ written' \in written..Len(data) /\ errors' \in Nat
        /\ written \in Nat /\ durable \in Nat
    BY DEF CommitFlushFails, MayFail, IndInv, TypeOK, FileOK, BoundsOK
  <1>3. /\ pc' \in [Writers -> {"idle", "commit", "wait", "fsync"}]
        /\ my' \in [Writers -> Appends]
        /\ \A v \in Writers : pc'[v] # "idle" => v # w /\ pc[v] # "idle" /\ my'[v] = my[v]
        /\ \A v \in Writers : pc'[v] = "fsync" <=> pc[v] = "fsync" /\ v # w
    BY <1>1, BroadcastKeeps
  <1>4. TypeOK'
    <2>1. CommitOK' BY <1>1, <1>3 DEF IndInv, TypeOK, CommitOK
    <2> QED BY <1>1, <1>2, <2>1 DEF IndInv, TypeOK, FileOK, FlagsOK, BoundsOK
  <1>5. RoundInv' BY <1>1, <1>3 DEF IndInv, RoundInv
  <1>6. ASSUME Trusted(conf) PROVE PoisonInv' BY <1>1, <1>6 DEF IndInv, PoisonInv
  <1>7. ASSUME Trusted(conf), NEW v \in Writers, pc'[v] # "idle" PROVE Progress(my[v])'
    <2>1. Progress(my[v]) /\ pc[v] # "idle" /\ my'[v] = my[v]
      BY <1>3, <1>7 DEF IndInv, CallInv
    <2> QED BY <1>1, <1>2, <1>4, <2>1, KeepProgress
  <1> QED BY <1>1, <1>2, <1>3, <1>4, <1>5, <1>6, <1>7, KeepInv

(* A completed round makes durable what it covers, and with it the records *)
(* of every generation up to its own: its log was not poisoned, so no page *)
(* was dropped before.                                                     *)
LEMMA FsyncOKInv ==
    ASSUME NEW w \in Writers, IndInv, FsyncOK(w)
    PROVE  IndInv'
  <1> DEFINE b == [rec |-> my[w].rec, pos |-> my[w].pos, life |-> restarts]
  <1>1. /\ pc[w] = "fsync" /\ durable' = Synced(round.len) /\ syncedGen' = round.gen
        /\ syncErr' = FALSE /\ syncing' = FALSE /\ round' = NoRound
        /\ my' = [my EXCEPT ![w] = NoAppend] /\ mu' = None /\ acked' = acked \cup {b}
        /\ pc' = [Broadcast(pc) EXCEPT ![w] = "idle"]
        /\ UNCHANGED <<data, written, dropped, pendingGen, fatal, broken, conf, up, replayed,
                       records, errors, restarts>>
    BY DEF FsyncOK, Answer, Ack, life, bounds
  <1>2. /\ pc' \in [Writers -> {"idle", "commit", "wait", "fsync"}]
        /\ my' \in [Writers -> Appends]
        /\ \A v \in Writers : pc'[v] # "idle" => v # w /\ pc[v] # "idle" /\ my'[v] = my[v]
        /\ \A v \in Writers : pc'[v] = "fsync" <=> pc[v] = "fsync" /\ v # w
    BY <1>1, BroadcastKeeps
  <1>3. /\ syncing /\ round.gen < pendingGen /\ round.len <= written
        /\ my[w].gen <= round.gen /\ my[w] \in Appends
        /\ \A v \in Writers : pc'[v] # "fsync"
    BY <1>1, <1>2 DEF IndInv, RoundInv, TypeOK, CommitOK
  <1>4. /\ durable \in Nat /\ written \in Nat /\ durable <= written /\ written <= Len(data)
        /\ round.len \in Nat /\ round.gen \in Nat /\ pendingGen \in Nat /\ restarts \in Nat
    BY DEF IndInv, TypeOK, FileOK, CommitOK, BoundsOK
  <1>5. durable' \in durable..written /\ (~dropped => round.len <= durable')
    BY <1>1, <1>3, <1>4 DEF Synced
  <1>6. TypeOK'
    <2>1. b \in [rec : Nat, pos : Nat, life : Nat] BY <1>3, <1>4 DEF Appends
    <2> HIDE DEF b
    <2>2. BoundsOK' BY <1>1, <2>1 DEF IndInv, TypeOK, BoundsOK
    <2>3. NoRound \in [gen : Nat, len : Nat] BY DEF NoRound
    <2>4. CommitOK' BY <1>1, <1>2, <1>3, <1>4, <2>3 DEF IndInv, TypeOK, CommitOK
    <2>5. FileOK' BY <1>1, <1>4, <1>5 DEF IndInv, TypeOK, FileOK
    <2>6. FlagsOK' BY <1>1 DEF IndInv, TypeOK, FlagsOK
    <2> QED BY <2>2, <2>4, <2>5, <2>6 DEF TypeOK
  <1>7. RoundInv'
    BY <1>1, <1>2, <1>3, <1>4 DEF IndInv, RoundInv
  <1>8. ASSUME Trusted(conf) PROVE PoisonInv' /\ ~dropped
    BY <1>1, <1>3, <1>8 DEF IndInv, PoisonInv
  <1>9. ASSUME Trusted(conf), NEW v \in Writers, pc'[v] # "idle" PROVE Progress(my[v])'
    <2>1. my'[v] = my[v] /\ my[v] \in Appends /\ Progress(my[v]) /\ ~dropped
      BY <1>2, <1>8, <1>9 DEF IndInv, CallInv, TypeOK, CommitOK
    <2> QED BY <1>1, <1>3, <1>4, <1>5, <2>1 DEF Progress, Appends
  <1>10. ASSUME Trusted(conf) PROVE my[w].pos <= durable'
    <2>1. Progress(my[w]) /\ ~dropped BY <1>1, <1>8, <1>10 DEF IndInv, CallInv
    <2> QED BY <1>3, <1>4, <1>5, <2>1 DEF Progress, Appends
  <1>11. durable <= durable' BY <1>4, <1>5
  <1> QED BY <1>1, <1>2, <1>6, <1>7, <1>8, <1>9, <1>10, <1>11, KeepInv

(* A failed round poisons the log for good; where its pages are dropped,   *)
(* no broker opens the file again.                                         *)
LEMMA FsyncFailsInv ==
    ASSUME NEW w \in Writers, IndInv, FsyncFails(w)
    PROVE  IndInv'
  <1>1. /\ pc[w] = "fsync" /\ "sync" \in conf.faults /\ fatal' = TRUE /\ syncErr' = TRUE
        /\ dropped' = (dropped \/ ~conf.retryable)
        /\ syncing' = FALSE /\ round' = NoRound /\ mu' = None
        /\ my' = [my EXCEPT ![w] = NoAppend]
        /\ pc' = [Broadcast(pc) EXCEPT ![w] = "idle"]
        /\ UNCHANGED <<data, written, durable, pendingGen, syncedGen, broken, conf, up, replayed,
                       records, restarts, acked>>
    BY DEF FsyncFails, FsyncError, MayFail, Poison, Answer, life
  <1>2. /\ pc' \in [Writers -> {"idle", "commit", "wait", "fsync"}]
        /\ my' \in [Writers -> Appends]
        /\ \A v \in Writers : pc'[v] # "idle" => v # w /\ pc[v] # "idle" /\ my'[v] = my[v]
        /\ \A v \in Writers : pc'[v] = "fsync" <=> pc[v] = "fsync" /\ v # w
    BY <1>1, BroadcastKeeps
  <1>3. \A v \in Writers : pc'[v] # "fsync" BY <1>1, <1>2 DEF IndInv, RoundInv
  <1>4. errors' \in Nat /\ dropped' \in BOOLEAN
    <2>1. errors' \in Nat BY DEF FsyncFails, FsyncError, MayFail, IndInv, TypeOK, BoundsOK
    <2>2. dropped' \in BOOLEAN BY <1>1, Zenon
    <2> QED BY <2>1, <2>2
  <1>5. TypeOK'
    <2>1. NoRound \in [gen : Nat, len : Nat] BY DEF NoRound
    <2>2. CommitOK' BY <1>1, <1>2, <1>3, <2>1 DEF IndInv, TypeOK, CommitOK
    <2>3. FileOK' /\ BoundsOK' BY <1>1, <1>4 DEF IndInv, TypeOK, FileOK, BoundsOK
    <2>4. FlagsOK' BY <1>1, <1>4 DEF IndInv, TypeOK, FlagsOK
    <2> QED BY <2>2, <2>3, <2>4 DEF TypeOK
  <1>6. RoundInv' BY <1>1, <1>2, <1>3 DEF IndInv, RoundInv
  <1>7. ASSUME Trusted(conf) PROVE PoisonInv'
    <2>1. dropped => conf.restarts = 0 BY <1>7 DEF IndInv, PoisonInv
    <2>2. ~conf.retryable => conf.restarts = 0 BY <1>1, <1>7 DEF Trusted
    <2>3. dropped' => conf.restarts = 0 BY <1>1, <2>1, <2>2, Zenon
    <2> QED BY <1>1, <2>3 DEF PoisonInv
  <1>8. ASSUME Trusted(conf), NEW v \in Writers, pc'[v] # "idle" PROVE Progress(my[v])'
    <2>1. my'[v] = my[v] /\ Progress(my[v]) BY <1>2, <1>8 DEF IndInv, CallInv
    <2> QED BY <1>1, <2>1 DEF Progress
  <1>9. durable <= durable' BY <1>1 DEF IndInv, TypeOK, FileOK
  <1> QED BY <1>1, <1>2, <1>5, <1>6, <1>7, <1>8, <1>9, KeepInv

-----------------------------------------------------------------------------
(* What a shutdown or crash may leave of the file: its first n entries, as *)
(* they were, and possibly a fragment.                                     *)
LEMMA SurvivesLen ==
    ASSUME FileOK, NEW n \in 0..Len(data), NEW d \in Survives(n)
    PROVE  /\ d \in Seq(Nat \cup Fragments)
           /\ Len(d) \in n..n + 1
           /\ \A i \in 1..n : d[i] = data[i]
  <1> DEFINE c == SubSeq(data, 1, n)
  <1>1. /\ c \in Seq(Nat \cup Fragments) /\ Len(c) = n /\ n \in Nat
        /\ \A i \in 1..n : c[i] = data[i]
    BY DEF FileOK
  <1>2. d = c \/ \E f \in Fragments : d = Append(c, f) BY DEF Survives
  <1> HIDE DEF c
  <1>3. CASE d = c BY <1>1, <1>3
  <1>4. ASSUME NEW f \in Fragments, d = Append(c, f)
        PROVE  /\ d \in Seq(Nat \cup Fragments)
               /\ Len(d) \in n..n + 1
               /\ \A i \in 1..n : d[i] = data[i]
    BY <1>1, <1>4
  <1> QED BY <1>2, <1>3, <1>4

(* A broker that starts on a file with the durable entries in place keeps  *)
(* the acknowledged records, and replays them.                             *)
LEMMA StartupInv ==
    ASSUME IndInv, NEW d \in Seq(Nat \cup Fragments), NEW dur \in durable..Len(d),
           NEW lost \in BOOLEAN, \A i \in 1..durable : d[i] = data[i],
           Startup(d, dur, lost), errors' \in Nat, Trusted(conf) => ~lost
    PROVE  IndInv'
  <1>1. /\ restarts' = restarts + 1 /\ up' \in BOOLEAN
        /\ replayed' = {d[i] : i \in WholeRecords(d)}
        /\ data' = d /\ written' = Len(d) /\ durable' = dur /\ dropped' = lost
        /\ pendingGen' = 1 /\ syncedGen' = 0 /\ syncing' = FALSE /\ round' = NoRound
        /\ fatal' = FALSE /\ syncErr' = FALSE /\ broken' = FALSE /\ mu' = None
        /\ pc' = [w \in Writers |-> "idle"] /\ my' = [w \in Writers |-> NoAppend]
        /\ UNCHANGED <<conf, records, acked>>
    BY DEF Startup
  <1>2. Len(d) \in Nat /\ durable \in Nat /\ dur \in Nat /\ restarts \in Nat
    BY DEF IndInv, TypeOK, FileOK, BoundsOK
  <1>3. TypeOK'
    <2>1. replayed' \subseteq Nat
      <3>1. \A i \in WholeRecords(d) : i \in 1..Len(d) /\ d[i] \notin Fragments
        BY <1>2 DEF WholeRecords
      <3> QED BY <1>1, <3>1
    <2>2. FileOK' BY <1>1, <1>2, <2>1 DEF FileOK
    <2>3. NoRound \in [gen : Nat, len : Nat] /\ NoAppend \in Appends
      BY DEF NoRound, NoAppend, Appends
    <2>4. CommitOK' BY <1>1, <2>3 DEF CommitOK
    <2>5. FlagsOK' BY <1>1 DEF IndInv, TypeOK, FlagsOK
    <2>6. BoundsOK' BY <1>1, <1>2 DEF IndInv, TypeOK, BoundsOK
    <2> QED BY <2>2, <2>4, <2>5, <2>6 DEF TypeOK
  <1>4. RoundInv' BY <1>1 DEF RoundInv
  <1>5. ASSUME Trusted(conf) PROVE PoisonInv' /\ CallInv' /\ AckInv' /\ ReplayComplete'
    <2>1. PoisonInv' /\ CallInv' BY <1>1, <1>5 DEF PoisonInv, CallInv
    <2>2. \A a \in acked : a.pos \in 1..durable /\ data[a.pos] = a.rec
      BY <1>5 DEF IndInv, AckInv
    <2>3. \A a \in acked : a.pos \in 1..dur /\ a.pos \in 1..Len(d) /\ d[a.pos] = a.rec
      BY <1>2, <2>2
    <2>4. AckInv' BY <1>1, <2>3 DEF AckInv
    <2>5. ReplayComplete'
      <3> SUFFICES ASSUME NEW a \in acked, \A i \in 1..a.pos : d[i] \notin Fragments
                   PROVE  a.rec \in replayed'
        BY <1>1 DEF ReplayComplete
      <3>1. a.pos \in WholeRecords(d) BY <2>3 DEF WholeRecords
      <3> QED BY <1>1, <2>3, <3>1
    <2> QED BY <2>1, <2>4, <2>5
  <1> QED BY <1>1, <1>3, <1>4, <1>5 DEF IndInv

(* Close, a killed process and a power failure all leave the durable part  *)
(* of the file.                                                            *)
LEMMA RestartInv ==
    ASSUME IndInv, Close \/ ProcessCrash \/ PowerFailure
    PROVE  IndInv'
  <1>1. /\ FileOK /\ written \in 0..Len(data) /\ durable \in 0..written /\ Len(data) \in Nat
        /\ errors \in Nat /\ dropped \in BOOLEAN /\ conf \in Config
    BY DEF IndInv, TypeOK, FileOK, BoundsOK, FlagsOK
  <1>2. ASSUME NEW d, NEW dur, NEW lost, Startup(d, dur, lost), Trusted(conf)
        PROVE  ~dropped /\ (conf.retryable \/ "sync" \notin conf.faults)
    <2>1. restarts \in Nat /\ restarts < conf.restarts
      BY <1>2 DEF Startup, IndInv, TypeOK, BoundsOK
    <2>2. conf.restarts # 0 BY <2>1
    <2> QED BY <1>2, <2>2 DEF Trusted, IndInv, PoisonInv
  \* The file holds at least the durable entries, and no more is known durable
  <1>3. ASSUME NEW n \in durable..Len(data), NEW d \in Survives(n),
               Startup(d, durable, dropped), errors' \in Nat
        PROVE  IndInv'
    <2>1. n \in 0..Len(data) BY <1>1
    <2>2. /\ d \in Seq(Nat \cup Fragments) /\ Len(d) \in n..n + 1
          /\ \A i \in 1..n : d[i] = data[i]
      BY <1>1, <2>1, SurvivesLen
    <2>3. durable \in durable..Len(d) /\ \A i \in 1..durable : d[i] = data[i]
      BY <1>1, <2>2
    <2> QED BY <1>1, <1>2, <1>3, <2>2, <2>3, StartupInv
  <1>4. CASE Close
    <2>1. CASE /\ UNCHANGED errors
               /\ Startup(data, IF conf.mode = "none" THEN durable ELSE Synced(Len(data)), dropped)
      <3> DEFINE dur == IF conf.mode = "none" THEN durable ELSE Synced(Len(data))
      <3>1. dur \in durable..Len(data) BY <1>1 DEF Synced
      <3> HIDE DEF dur
      <3>2. Startup(data, dur, dropped) BY <2>1 DEF dur
      <3> QED BY <1>1, <1>2, <2>1, <3>1, <3>2, StartupInv DEF FileOK
    <2>2. CASE /\ UNCHANGED errors
               /\ \E d \in Survives(written) : Startup(d, durable, dropped)
      BY <1>1, <1>3, <2>2
    <2>3. CASE /\ MayFail("flush")
               /\ \E n \in written..Len(data) : \E d \in Survives(n) :
                      Startup(d, durable, dropped)
      <3>1. errors' \in Nat BY <1>1, <2>3 DEF MayFail
      <3>2. written..Len(data) \subseteq durable..Len(data) BY <1>1
      <3> QED BY <1>3, <2>3, <3>1, <3>2
    <2>4. CASE MayFail("sync") /\ Startup(data, durable, dropped \/ ~conf.retryable)
      <3> DEFINE lost == dropped \/ ~conf.retryable
      <3>1. errors' \in Nat /\ "sync" \in conf.faults BY <1>1, <2>4 DEF MayFail
      <3>2. Trusted(conf) => ~lost BY <1>2, <2>4, <3>1, Zenon
      <3>3. lost \in BOOLEAN BY Zenon
      <3> HIDE DEF lost
      <3>4. durable \in durable..Len(data) /\ data \in Seq(Nat \cup Fragments)
        BY <1>1 DEF FileOK
      <3>5. Startup(data, durable, lost) BY <2>4 DEF lost
      <3> QED BY <3>1, <3>2, <3>3, <3>4, <3>5, StartupInv
    <2> QED BY <1>4, <2>1, <2>2, <2>3, <2>4 DEF Close
  <1>5. CASE ProcessCrash
    BY <1>1, <1>3, <1>5 DEF ProcessCrash
  <1>6. CASE PowerFailure
    <2>0. PICK n \in durable..written : \E d \in Survives(n) : Startup(d, Len(d), FALSE)
      BY <1>6 DEF PowerFailure
    <2>1. PICK d \in Survives(n) : Startup(d, Len(d), FALSE)
      BY <2>0
    <2>2. n \in 0..Len(data) BY <1>1
    <2>3. /\ d \in Seq(Nat \cup Fragments) /\ Len(d) \in n..n + 1
          /\ \A i \in 1..n : d[i] = data[i]
      BY <1>1, <2>1, <2>2, SurvivesLen
    <2>4. Len(d) \in durable..Len(d) /\ \A i \in 1..durable : d[i] = data[i]
      BY <1>1, <2>3
    <2>5. errors' \in Nat BY <1>1, <1>6 DEF PowerFailure
    <2> QED BY <2>1, <2>3, <2>4, <2>5, StartupInv
  <1> QED BY <1>4, <1>5, <1>6

(* Every step of the log preserves the invariant. *)
LEMMA NextInv == IndInv /\ [Next]_vars => IndInv'
  <1> SUFFICES ASSUME IndInv, [Next]_vars PROVE IndInv'
    OBVIOUS
  <1>1. ASSUME NEW w \in Writers, AppendRecord(w) PROVE IndInv'
    BY <1>1, AppendInv
  <1>2. ASSUME NEW w \in Writers, WriteFails(w) \/ AppendPoisoned(w) PROVE IndInv'
    BY <1>2, WriteFailsInv
  <1>3. ASSUME NEW w \in Writers, Commit(w) PROVE IndInv'
    BY <1>3, CommitDoneInv, CommitWaitInv, CommitFlushInv, CommitFlushFailsInv DEF Commit
  <1>4. ASSUME NEW w \in Writers, Fsync(w) PROVE IndInv'
    BY <1>4, FsyncOKInv, FsyncFailsInv DEF Fsync
  <1>5. CASE UNCHANGED vars
    <2>1. UNCHANGED <<data, written, durable, dropped, pendingGen, syncedGen, syncing, round,
                      fatal, syncErr, broken, conf, up, replayed, mu, pc, my, records, errors,
                      restarts, acked>>
      BY <1>5 DEF vars, file, commit, poison, life, calls, bounds
    <2>2. TypeOK' BY <2>1 DEF IndInv, TypeOK, FileOK, FlagsOK, CommitOK, BoundsOK
    <2> QED BY <2>1, <2>2 DEF IndInv, RoundInv, PoisonInv, CallInv, InFile, Progress, AckInv,
            ReplayComplete
  <1> QED BY <1>1, <1>2, <1>3, <1>4, <1>5, RestartInv DEF Next

(* The inductive invariant holds in every state of every behaviour of the  *)
(* log, whatever the configuration (AppendRecord, groupCommitLocked, Close *)
(* and startup).                                                           *)
THEOREM Invariance == Spec => []IndInv
  BY InitInv, NextInv, PTL DEF Spec

(* Type correctness of the log in every deployment: the file keeps its     *)
(* order durable <= written <= appended, and a goroutine is inside fsync   *)
(* exactly while a round is in flight (groupCommitLocked).                 *)
THEOREM TypeCorrect == Spec => []TypeOK
  <1>1. IndInv => TypeOK BY DEF IndInv
  <1> QED BY <1>1, Invariance, PTL

(* Durability in sync mode always (AppendRecord, groupCommitLocked,        *)
(* poisonLocked): whatever rounds fail and whatever restarts follow, a     *)
(* record whose AppendRecord returned nil is in the durable part of the    *)
(* file, in every trusted deployment.                                      *)
THEOREM Durability == Spec => [](Trusted(conf) => AckedIsDurable)
  <1>1. IndInv => (Trusted(conf) => AckedIsDurable)
    BY DEF IndInv, AckInv, AckedIsDurable
  <1> QED BY <1>1, Invariance, PTL

(* Recovery in sync mode always (ReplayWithOptions, cmd/broker/main.go):   *)
(* after any number of crashes the startup replay hands back every record  *)
(* acknowledged in an earlier life that no fragment lies in front of, in   *)
(* every trusted deployment.                                               *)
THEOREM Recovery == Spec => [](Trusted(conf) => ReplayComplete)
  <1>1. IndInv => (Trusted(conf) => ReplayComplete)
    BY DEF IndInv
  <1> QED BY <1>1, Invariance, PTL
=============================================================================
