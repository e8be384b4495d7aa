------------------------- MODULE ReplicationProofs --------------------------
(***************************************************************************)
(* The high-water mark of a replicated shard, for any number of brokers,   *)
(* publishes, moves of the leadership, broken streams, failed appends and  *)
(* crashes.                                                                *)
(***************************************************************************)
EXTENDS Replication, TLAPS

(* What a broker is credited with it has counted, tracked or not. *)
CreditInv == \A n, r \in Nodes : offsets[n][r] <= Counted(r)

(* An acknowledgement on its way names an offset that its sender counted. *)
AckInv ==
    \A n, f \in Nodes : \A i \in 1..Len(stream[n][f].acks) :
        stream[n][f].acks[i] < Counted(f)

(* A call in the group commit has its record in the log. *)
CallsInv ==
    \A f \in Nodes : \A h \in handlers[f] : h.pc = "commit" => h.off < Len(log[f])

(* So has a publish, and in the file once its append has returned. *)
WaitInv ==
    \A p \in waiting : /\ p.off < Len(log[p.node]) /\ log[p.node][p.off + 1] = p.rec
                       /\ p.pc = "quorum" => p.off < file[p.node]

(* What was acknowledged to a publisher is still there. *)
PublishedInv ==
    \A a \in acked : /\ \A r \in a.replicas : a.off < Counted(r)
                     /\ a.off < file[a.node] /\ log[a.node][a.off + 1] = a.rec

IndInv == TypeOK /\ CreditInv /\ AckInv /\ CallsInv /\ WaitInv /\ PublishedInv

-----------------------------------------------------------------------------
(* A cluster with empty logs and no streams is in the invariant. *)
LEMMA InitInv == Init => IndInv
  <1> SUFFICES ASSUME Init PROVE IndInv
    OBVIOUS
  <1> USE DEF Init
  <1>1. MetaOK BY DEF MetaOK
  <1>2. LoopOK BY DEF LoopOK, NoWorker
  <1>3. HwmOK BY DEF HwmOK
  <1>4. StreamOK BY DEF StreamOK, Streams, Closed
  <1>5. HandlersOK BY DEF HandlersOK
  <1>6. DiskOK BY DEF DiskOK
  <1>7. PubsOK BY ReplicationAssumption DEF PubsOK
  <1>8. CreditInv BY DEF CreditInv, Counted
  <1>9. AckInv /\ CallsInv /\ WaitInv /\ PublishedInv
    BY DEF AckInv, CallsInv, WaitInv, PublishedInv, Closed
  <1> QED BY <1>1, <1>2, <1>3, <1>4, <1>5, <1>6, <1>7, <1>8, <1>9 DEF IndInv, TypeOK

-----------------------------------------------------------------------------
(* What no step takes back: a broker's count, with what it lost, and the   *)
(* records of its file.                                                    *)
Kept ==
    \A m \in Nodes : /\ Counted(m) \in Nat /\ Counted(m)' \in Nat
                     /\ Counted(m) <= Counted(m)'
                     /\ file[m] \in Nat /\ file'[m] \in Nat /\ file[m] <= file'[m]
                     /\ \A i \in 1..file[m] : log'[m][i] = log[m][i]

(* The logs only grow. *)
Grows ==
    \A m \in Nodes : /\ Len(log[m]) \in Nat /\ Len(log'[m]) \in Nat
                     /\ Len(log[m]) <= Len(log'[m])
                     /\ \A i \in 1..Len(log[m]) : log'[m][i] = log[m][i]

LEMMA DiskTypes ==
    ASSUME IndInv, NEW m \in Nodes
    PROVE  /\ log[m] \in Seq(Nat) /\ Len(log[m]) \in Nat
           /\ file[m] \in Nat /\ synced[m] \in Nat /\ lost[m] \in Nat
           /\ synced[m] <= file[m] /\ file[m] <= Len(log[m])
           /\ Counted(m) \in Nat /\ Len(log[m]) <= Counted(m)
  <1>1. /\ log[m] \in Seq(Nat) /\ file[m] \in Nat /\ synced[m] \in Nat /\ lost[m] \in Nat
        /\ synced[m] <= file[m] /\ file[m] <= Len(log[m])
    BY DEF IndInv, TypeOK, DiskOK
  <1> QED BY <1>1 DEF Counted

(* A step that leaves the disks alone keeps all of it. *)
LEMMA DiskUntouched ==
    ASSUME IndInv, UNCHANGED disk PROVE DiskOK' /\ Kept /\ Grows
  <1>1. DiskOK' BY DEF IndInv, TypeOK, DiskOK, disk
  <1>2. Kept /\ Grows
    BY DiskTypes DEF Kept, Grows, Counted, disk
  <1> QED BY <1>1, <1>2

(* A record written to the buffer is counted behind the others. *)
LEMMA WriteDisk ==
    ASSUME IndInv, NEW n \in Nodes, NEW r \in Nat, Write(n, r)
    PROVE  /\ DiskOK' /\ Kept /\ Grows
           /\ Len(log'[n]) = Len(log[n]) + 1 /\ log'[n][Len(log[n]) + 1] = r
           /\ \A m \in Nodes \ {n} : log'[m] = log[m]
  <1>1. log' = [log EXCEPT ![n] = Append(@, r)] /\ UNCHANGED <<file, synced, failed, lost>>
    BY DEF Write
  <1>2. log \in [Nodes -> Seq(Nat)] BY DEF IndInv, TypeOK, DiskOK
  <1>3. log'[n] = Append(log[n], r) /\ \A m \in Nodes \ {n} : log'[m] = log[m]
    BY <1>1, <1>2
  <1>4. log' \in [Nodes -> Seq(Nat)] BY <1>1, <1>2
  <1>5. /\ Len(log'[n]) = Len(log[n]) + 1 /\ log'[n][Len(log[n]) + 1] = r
        /\ \A i \in 1..Len(log[n]) : log'[n][i] = log[n][i]
    <2>1. log[n] \in Seq(Nat) /\ Len(log[n]) \in Nat BY <1>2
    <2> QED BY <1>3, <2>1
  <1>6. Grows
    <2> SUFFICES ASSUME NEW m \in Nodes
                 PROVE  /\ Len(log[m]) \in Nat /\ Len(log'[m]) \in Nat
                        /\ Len(log[m]) <= Len(log'[m])
                        /\ \A i \in 1..Len(log[m]) : log'[m][i] = log[m][i]
      BY DEF Grows
    <2>1. Len(log[m]) \in Nat BY DiskTypes
    <2>2. CASE m = n BY <1>5, <2>1, <2>2
    <2>3. CASE m # n BY <1>3, <2>1, <2>3
    <2> QED BY <2>2, <2>3
  <1>7. DiskOK'
    <2>1. \A m \in Nodes : Len(log[m]) <= Len(log'[m]) /\ Len(log[m]) \in Nat
                           /\ Len(log'[m]) \in Nat
      BY <1>6 DEF Grows
    <2>2. \A m \in Nodes : synced'[m] <= file'[m] /\ file'[m] <= Len(log'[m])
      BY <1>1, <2>1, DiskTypes
    <2> QED BY <1>1, <1>4, <2>2 DEF IndInv, TypeOK, DiskOK
  <1>8. Kept
    <2> SUFFICES ASSUME NEW m \in Nodes
                 PROVE  /\ Counted(m) \in Nat /\ Counted(m)' \in Nat
                        /\ Counted(m) <= Counted(m)'
                        /\ file[m] \in Nat /\ file'[m] \in Nat /\ file[m] <= file'[m]
                        /\ \A i \in 1..file[m] : log'[m][i] = log[m][i]
      BY DEF Kept
    <2>1. /\ Len(log[m]) \in Nat /\ Len(log'[m]) \in Nat /\ Len(log[m]) <= Len(log'[m])
          /\ \A i \in 1..Len(log[m]) : log'[m][i] = log[m][i]
      BY <1>6 DEF Grows
    <2>2. /\ file[m] \in Nat /\ lost[m] \in Nat /\ file[m] <= Len(log[m])
          /\ file'[m] = file[m] /\ lost'[m] = lost[m]
      BY <1>1, DiskTypes
    <2> QED BY <2>1, <2>2 DEF Counted
  <1> QED BY <1>3, <1>5, <1>6, <1>7, <1>8

(* A round of the group commit counts nothing, and the file only grows; an *)
(* append that returns without an error has its record there.              *)
LEMMA CommitDisk ==
    ASSUME IndInv, NEW n \in Nodes, NEW off \in Nat, NEW ok \in BOOLEAN,
           Commit(n, off, ok), off < Len(log[n])
    PROVE  /\ DiskOK' /\ Kept /\ Grows /\ log' = log
           /\ faults' \in 0..MaxFaults
           /\ ok => off < file'[n]
  <1>1. log' = log /\ lost' = lost BY DEF Commit, disk
  <1>2. /\ file \in [Nodes -> Nat] /\ synced \in [Nodes -> Nat]
        /\ failed \in [Nodes -> {"none", "sync", "flush"}]
        /\ faults \in 0..MaxFaults
    BY DEF IndInv, TypeOK, DiskOK, PubsOK
  <1>3. /\ log[n] \in Seq(Nat) /\ Len(log[n]) \in Nat
        /\ file[n] \in Nat /\ synced[n] \in Nat
        /\ synced[n] <= file[n] /\ file[n] <= Len(log[n])
    BY DiskTypes
  <1>4. faults' \in 0..MaxFaults
    BY <1>2, ReplicationAssumption DEF Commit, Fault
  <1>5. /\ file' \in [Nodes -> Nat] /\ synced' \in [Nodes -> Nat]
        /\ failed' \in [Nodes -> {"none", "sync", "flush"}]
        /\ \A m \in Nodes \ {n} : file'[m] = file[m] /\ synced'[m] = synced[m]
        /\ synced'[n] <= file'[n] /\ file[n] <= file'[n] /\ file'[n] <= Len(log[n])
        /\ ok => off < file'[n]
    <2>1. CASE /\ off < synced[n] /\ UNCHANGED <<disk, faults>>
      BY <1>2, <1>3, <2>1 DEF disk
    <2>2. CASE /\ file' = [file EXCEPT ![n] = Len(log[n])]
               /\ synced' = [synced EXCEPT ![n] = Len(log[n])]
               /\ failed' = [failed EXCEPT ![n] = "none"]
      BY <1>2, <1>3, <2>2
    <2>3. CASE /\ file' = [file EXCEPT ![n] = Len(log[n])] /\ ~ok
               /\ failed' = [failed EXCEPT ![n] = "sync"] /\ UNCHANGED synced
      BY <1>2, <1>3, <2>3
    <2>4. CASE /\ \E k \in file[n] .. Len(log[n]) - 1 : file' = [file EXCEPT ![n] = k]
               /\ failed' = [failed EXCEPT ![n] = "flush"] /\ UNCHANGED synced /\ ~ok
      BY <1>2, <1>3, <2>4
    <2>5. CASE ~ok /\ UNCHANGED <<disk, faults>>
      BY <1>2, <1>3, <2>5 DEF disk
    <2>6. \/ off < synced[n] /\ UNCHANGED <<disk, faults>>
          \/ /\ file' = [file EXCEPT ![n] = Len(log[n])]
             /\ synced' = [synced EXCEPT ![n] = Len(log[n])]
             /\ failed' = [failed EXCEPT ![n] = "none"]
          \/ /\ file' = [file EXCEPT ![n] = Len(log[n])] /\ ~ok
             /\ failed' = [failed EXCEPT ![n] = "sync"] /\ UNCHANGED synced
          \/ /\ \E k \in file[n] .. Len(log[n]) - 1 : file' = [file EXCEPT ![n] = k]
             /\ failed' = [failed EXCEPT ![n] = "flush"] /\ UNCHANGED synced /\ ~ok
          \/ ~ok /\ UNCHANGED <<disk, faults>>
      BY Zenon DEF Commit
    <2> QED BY <2>1, <2>2, <2>3, <2>4, <2>5, <2>6
  <1>6. DiskOK'
    BY <1>1, <1>5, DiskTypes DEF IndInv, TypeOK, DiskOK
  <1>7. Kept /\ Grows
    <2>1. ASSUME NEW m \in Nodes PROVE file[m] <= file'[m] /\ file'[m] \in Nat
      <3>1. file[m] \in Nat /\ file'[m] \in Nat BY <1>2, <1>5
      <3>2. file[m] <= file'[m] BY <1>5, <3>1
      <3> QED BY <3>1, <3>2
    <2>2. \A m \in Nodes : Counted(m)' = Counted(m) BY <1>1 DEF Counted
    <2> QED BY <1>1, <2>1, <2>2, DiskTypes DEF Kept, Grows
  <1> QED BY <1>1, <1>4, <1>5, <1>6, <1>7

(* So marks, answers and acknowledged publishes stay backed. *)
LEMMA KeptMarks ==
    ASSUME IndInv, Kept, UNCHANGED hwm PROVE HwmOK' /\ CreditInv'
  <1>1. HwmOK' BY DEF IndInv, TypeOK, HwmOK, hwm
  <1>2. \A n, r \in Nodes : offsets[n][r] \in Nat /\ offsets[n][r] <= Counted(r)
    BY DEF IndInv, TypeOK, HwmOK, CreditInv
  <1>3. \A n, r \in Nodes : offsets[n][r] <= Counted(r)'
    BY <1>2 DEF Kept
  <1>4. CreditInv' BY <1>3 DEF CreditInv, hwm
  <1> QED BY <1>1, <1>4

LEMMA KeptAcks ==
    ASSUME IndInv, Kept, UNCHANGED stream PROVE StreamOK' /\ AckInv'
  <1>1. StreamOK' BY DEF IndInv, TypeOK, StreamOK
  <1> SUFFICES ASSUME NEW n \in Nodes, NEW f \in Nodes,
                      NEW i \in 1..Len(stream[n][f].acks)
               PROVE  stream[n][f].acks[i] < Counted(f)'
    BY <1>1 DEF AckInv
  <1>2. stream[n][f].acks \in Seq(Nat)
    BY DEF IndInv, TypeOK, StreamOK, Streams
  <1>3. PICK x \in Nat : x = stream[n][f].acks[i] BY <1>2
  <1>4. x < Counted(f) BY <1>3 DEF IndInv, AckInv
  <1> QED BY <1>3, <1>4 DEF Kept

LEMMA KeptPublished ==
    ASSUME IndInv, Kept, UNCHANGED acked PROVE PublishedInv'
  <1> SUFFICES ASSUME NEW a \in acked
               PROVE  /\ \A r \in a.replicas : a.off < Counted(r)'
                      /\ a.off < file'[a.node] /\ log'[a.node][a.off + 1] = a.rec
    BY DEF PublishedInv
  <1>1. a.node \in Nodes /\ a.off \in Nat /\ a.replicas \subseteq Nodes
    BY DEF IndInv, TypeOK, PubsOK
  <1>2. /\ \A r \in a.replicas : a.off < Counted(r)
        /\ a.off < file[a.node] /\ log[a.node][a.off + 1] = a.rec
    BY DEF IndInv, PublishedInv
  <1>3. a.off + 1 \in 1..file[a.node] BY <1>1, <1>2, DiskTypes
  <1>4. a.off < file'[a.node] /\ log'[a.node][a.off + 1] = a.rec
    BY <1>1, <1>2, <1>3 DEF Kept
  <1>5. \A r \in a.replicas : a.off < Counted(r)'
    BY <1>1, <1>2 DEF Kept
  <1> QED BY <1>4, <1>5

(* While the logs grow, what calls and publishes wait for stays in them. *)
LEMMA GrowsWaits ==
    ASSUME IndInv, Grows, Kept
    PROVE  /\ \A f \in Nodes : \A h \in handlers[f] :
                  h.pc = "commit" => h.off < Len(log'[f])
           /\ \A p \in waiting :
                  /\ p.off < Len(log'[p.node]) /\ log'[p.node][p.off + 1] = p.rec
                  /\ p.pc = "quorum" => p.off < file'[p.node]
  <1>1. ASSUME NEW f \in Nodes, NEW h \in handlers[f], h.pc = "commit"
        PROVE  h.off < Len(log'[f])
    <2>1. h.off \in Nat /\ h.off < Len(log[f])
      BY <1>1 DEF IndInv, TypeOK, HandlersOK, Calls, CallsInv
    <2> QED BY <2>1 DEF Grows
  <1>2. ASSUME NEW p \in waiting
        PROVE  /\ p.off < Len(log'[p.node]) /\ log'[p.node][p.off + 1] = p.rec
               /\ p.pc = "quorum" => p.off < file'[p.node]
    <2>1. p.node \in Nodes /\ p.off \in Nat BY DEF IndInv, TypeOK, PubsOK
    <2>2. /\ p.off < Len(log[p.node]) /\ log[p.node][p.off + 1] = p.rec
          /\ p.pc = "quorum" => p.off < file[p.node]
      BY DEF IndInv, WaitInv
    <2>3. p.off + 1 \in 1..Len(log[p.node]) BY <2>1, <2>2, DiskTypes
    <2>4. p.off < Len(log'[p.node]) /\ log'[p.node][p.off + 1] = p.rec
      BY <2>1, <2>2, <2>3 DEF Grows
    <2>5. p.pc = "quorum" => p.off < file'[p.node]
      BY <2>1, <2>2 DEF Kept
    <2> QED BY <2>4, <2>5
  <1> QED BY <1>1, <1>2

(* A step that touches neither disks nor what waits for them. *)
LEMMA WaitsUntouched ==
    ASSUME IndInv, UNCHANGED <<disk, handlers, overlapped, pubs>>
    PROVE  HandlersOK' /\ CallsInv' /\ WaitInv' /\ PublishedInv'
  <1>1. HandlersOK' BY DEF IndInv, TypeOK, HandlersOK
  <1>2. Kept /\ Grows BY DiskUntouched
  <1>3. PublishedInv' BY <1>2, KeptPublished DEF pubs
  <1>4. CallsInv' /\ WaitInv' BY <1>2, GrowsWaits DEF CallsInv, WaitInv, pubs
  <1> QED BY <1>1, <1>3, <1>4

(* A step that leaves logs, marks, streams and publishes alone keeps what  *)
(* the invariant says of them.                                             *)
LEMMA Untouched ==
    ASSUME IndInv, UNCHANGED <<disk, hwm, stream, handlers, overlapped, pubs, records>>,
           faults' \in 0..MaxFaults
    PROVE  /\ HwmOK' /\ StreamOK' /\ HandlersOK' /\ DiskOK' /\ PubsOK'
           /\ CreditInv' /\ AckInv' /\ CallsInv' /\ WaitInv' /\ PublishedInv'
  <1>1. DiskOK' /\ Kept BY DiskUntouched
  <1>2. HwmOK' /\ CreditInv' BY <1>1, KeptMarks
  <1>3. StreamOK' /\ AckInv' BY <1>1, KeptAcks
  <1>4. HandlersOK' /\ CallsInv' /\ WaitInv' /\ PublishedInv' BY WaitsUntouched
  <1>5. PubsOK' BY DEF IndInv, TypeOK, PubsOK, pubs
  <1> QED BY <1>1, <1>2, <1>3, <1>4, <1>5

LEMMA FaultsType ==
    ASSUME IndInv
    PROVE  /\ UNCHANGED faults => faults' \in 0..MaxFaults
           /\ Fault => faults' \in 0..MaxFaults
  BY ReplicationAssumption DEF IndInv, TypeOK, PubsOK, Fault

-----------------------------------------------------------------------------
(* The metadata log grows by a broker the assigner believes alive. *)
LEMMA PlanInv == ASSUME NEW p \in Nodes, IndInv, Plan(p) PROVE IndInv'
  <1>1. UNCHANGED <<disk, hwm, stream, pubs, records, faults, loop, handlers,
                    overlapped>>
    BY DEF Plan, net, bounds
  <1>2. MetaOK'
    <2>1. PICK target \in alive[p] : moves' = Append(moves, target)
      BY DEF Plan
    <2>2. moves' \in Seq(Nodes) /\ Len(moves') = Len(moves) + 1
      BY <2>1 DEF IndInv, TypeOK, MetaOK
    <2> QED BY <2>2 DEF Plan, IndInv, TypeOK, MetaOK
  <1>3. LoopOK' BY <1>1 DEF IndInv, TypeOK, LoopOK, loop
  <1> QED BY <1>1, <1>2, <1>3, FaultsType, Untouched DEF IndInv, TypeOK

(* A broker applies one more entry of it. *)
LEMMA FsmApplyInv == ASSUME NEW n \in Nodes, IndInv, FsmApply(n) PROVE IndInv'
  <1>1. UNCHANGED <<disk, hwm, stream, pubs, records, faults, loop, handlers,
                    overlapped>>
    BY DEF FsmApply, net, bounds
  <1>2. MetaOK'
    BY DEF FsmApply, IndInv, TypeOK, MetaOK
  <1>3. LoopOK' BY <1>1 DEF IndInv, TypeOK, LoopOK, loop
  <1> QED BY <1>1, <1>2, <1>3, FaultsType, Untouched DEF IndInv, TypeOK

(* A suspicion changes who is followed, never what is credited. *)
LEMMA GossipInv ==
    ASSUME NEW n \in Nodes, NEW m \in Nodes, IndInv, Gossip(n, m)
    PROVE  IndInv'
  <1>1. UNCHANGED <<disk, hwm, stream, pubs, loop, handlers, overlapped, records,
                    moves, applied, up>>
    BY DEF Gossip, net, meta
  <1>2. MetaOK'
    <2>1. alive \in [Nodes -> SUBSET Nodes] BY DEF IndInv, TypeOK, MetaOK
    <2>2. alive' \in [Nodes -> SUBSET Nodes]
      <3>1. CASE alive' = [alive EXCEPT ![n] = @ \ {m}] BY <2>1, <3>1
      <3>2. CASE alive' = [alive EXCEPT ![n] = @ \cup {m}] BY <2>1, <3>2
      <3> QED BY <3>1, <3>2 DEF Gossip
    <2> QED BY <1>1, <2>2 DEF IndInv, TypeOK, MetaOK
  <1>3. LoopOK' BY <1>1 DEF IndInv, TypeOK, LoopOK, loop
  <1>4. faults' \in 0..MaxFaults BY FaultsType DEF Gossip
  <1> QED BY <1>1, <1>2, <1>3, <1>4, Untouched DEF IndInv, TypeOK

-----------------------------------------------------------------------------
(* A call cut off from its stream is the same call otherwise. *)
LEMMA OrphanedFact ==
    ASSUME NEW hs \in SUBSET Calls, NEW n, NEW g \in Orphaned(hs, n)
    PROVE  /\ g \in Calls
           /\ \E h \in hs : g.from = h.from /\ g.rec = h.rec /\ g.pc = h.pc /\ g.off = h.off
  <1>1. PICK h \in hs : g = [from |-> h.from, rec |-> h.rec, live |-> h.live /\ h.from # n,
                             pc |-> h.pc, off |-> h.off]
    BY DEF Orphaned
  <1>2. h.from \in Nodes /\ h.rec \in Nat /\ h.pc \in {"write", "commit"} /\ h.off \in Nat
    BY DEF Calls
  <1>3. (h.live /\ h.from # n) \in BOOLEAN
    BY Zenon
  <1>4. g \in Calls BY <1>1, <1>2, <1>3, Zenon DEF Calls
  <1>5. g.from = h.from /\ g.rec = h.rec /\ g.pc = h.pc /\ g.off = h.off
    BY <1>1, Zenon
  <1> QED BY <1>4, <1>5

(* The calls of a broker after a step in which none was added or went on. *)
CallsFewer ==
    \A f \in Nodes : \/ handlers'[f] \subseteq handlers[f]
                     \/ \E n \in Nodes : handlers'[f] = Orphaned(handlers[f], n)

LEMMA FewerFact ==
    ASSUME IndInv, CallsFewer, NEW f \in Nodes, NEW g \in handlers'[f]
    PROVE  /\ g \in Calls
           /\ \E h \in handlers[f] : g.from = h.from /\ g.rec = h.rec /\ g.pc = h.pc
                                     /\ g.off = h.off
  <1>1. handlers[f] \in SUBSET Calls BY DEF IndInv, TypeOK, HandlersOK
  <1>2. CASE handlers'[f] \subseteq handlers[f] BY <1>1, <1>2
  <1>3. ASSUME NEW n \in Nodes, handlers'[f] = Orphaned(handlers[f], n)
        PROVE  /\ g \in Calls
               /\ \E h \in handlers[f] : g.from = h.from /\ g.rec = h.rec /\ g.pc = h.pc
                                         /\ g.off = h.off
    BY <1>1, <1>3, OrphanedFact
  <1> QED BY <1>2, <1>3 DEF CallsFewer

LEMMA FewerInv ==
    ASSUME IndInv, CallsFewer, DOMAIN handlers' = Nodes, handlers' = [f \in Nodes |-> handlers'[f]],
           overlapped' \in BOOLEAN,
           \A f \in Nodes : handlers'[f] # {} => Len(log[f]) <= Len(log'[f])
                                                 /\ Len(log'[f]) \in Nat
    PROVE  HandlersOK' /\ CallsInv'
  <1>1. \A f \in Nodes : handlers'[f] \subseteq Calls BY FewerFact
  <1>2. HandlersOK' BY <1>1 DEF HandlersOK
  <1>3. CallsInv'
    <2> SUFFICES ASSUME NEW f \in Nodes, NEW g \in handlers'[f], g.pc = "commit"
                 PROVE  g.off < Len(log'[f])
      BY DEF CallsInv
    <2>1. PICK h \in handlers[f] : g.pc = h.pc /\ g.off = h.off BY FewerFact
    <2>2. h.off \in Nat /\ h.off < Len(log[f])
      BY <2>1 DEF IndInv, TypeOK, HandlersOK, Calls, CallsInv
    <2>3. Len(log[f]) <= Len(log'[f]) /\ Len(log'[f]) \in Nat /\ Len(log[f]) \in Nat
      BY DiskTypes
    <2> QED BY <2>1, <2>2, <2>3
  <1> QED BY <1>2, <1>3

(* A stream that is closed, or just open, carries nothing. *)
LEMMA ClosedFact ==
    /\ Closed \in Streams /\ Opened \in Streams
    /\ \A i \in 1..Len(Closed.acks) : FALSE
    /\ \A i \in 1..Len(Opened.acks) : FALSE
  <1>1. Closed \in Streams /\ Closed.acks = <<>>
    BY DEF Closed, Streams
  <1>2. Opened \in Streams /\ Opened.acks = <<>>
    BY DEF Opened, Streams
  <1> QED BY <1>1, <1>2

(* A bound on the members of a sequence and on one more. *)
LEMMA AppendBound ==
    ASSUME NEW q \in Seq(Nat), NEW k \in Nat, NEW b \in Nat, k < b,
           \A i \in 1..Len(q) : q[i] < b
    PROVE  \A i \in 1..Len(Append(q, k)) : Append(q, k)[i] < b
  OBVIOUS

(* Streams that stay or end carry no new answers. *)
LEMMA StreamsFewer ==
    ASSUME IndInv, Kept, stream' \in [Nodes -> [Nodes -> Streams]],
           \A a, b \in Nodes : stream'[a][b] = stream[a][b] \/ stream'[a][b] = Closed
    PROVE  StreamOK' /\ AckInv'
  <1>1. StreamOK' BY DEF StreamOK
  <1> SUFFICES ASSUME NEW a \in Nodes, NEW b \in Nodes,
                      NEW i \in 1..Len(stream'[a][b].acks)
               PROVE  stream'[a][b].acks[i] < Counted(b)'
    BY <1>1 DEF AckInv
  <1>2. stream'[a][b] = stream[a][b] BY ClosedFact
  <1>3. stream[a][b].acks \in Seq(Nat) /\ i \in 1..Len(stream[a][b].acks)
    BY <1>2 DEF IndInv, TypeOK, StreamOK, Streams
  <1>4. PICK x \in Nat : x = stream[a][b].acks[i] BY <1>3
  <1>5. x < Counted(b) BY <1>3, <1>4 DEF IndInv, AckInv
  <1> QED BY <1>2, <1>4, <1>5 DEF Kept

(* Cancelling a worker takes its streams and the answers on them away. *)
LEMMA TickInv == ASSUME NEW n \in Nodes, IndInv, Tick(n) PROVE IndInv'
  <1>1. UNCHANGED <<meta, up, alive, disk, hwm, overlapped, pubs, bounds>>
    BY DEF Tick
  <1>2. DiskOK' /\ Kept /\ Grows BY <1>1, DiskUntouched
  <1>3. MetaOK' /\ PubsOK'
    BY <1>1 DEF IndInv, TypeOK, MetaOK, PubsOK, meta, pubs, bounds
  <1>4. HwmOK' /\ CreditInv' BY <1>1, <1>2, KeptMarks
  <1>5. WaitInv' /\ PublishedInv'
    BY <1>1, <1>2, GrowsWaits, KeptPublished DEF WaitInv, pubs
  <1>6. LoopOK'
    <2>1. alive[n] \ {n} \in SUBSET Nodes /\ (ShardLeader(n) = n) \in BOOLEAN
      BY DEF IndInv, TypeOK, MetaOK
    <2> QED BY <2>1 DEF Tick, IndInv, TypeOK, LoopOK, NoWorker
  <1>7. StreamOK' /\ AckInv'
    <2>1. \/ stream' = [stream EXCEPT ![n] = [f \in Nodes |-> Closed]]
          \/ stream' = [stream EXCEPT ![n] = @]
      BY DEF Tick
    <2>2. /\ \A m, f \in Nodes : stream'[m][f] = stream[m][f] \/ stream'[m][f] = Closed
          /\ stream' \in [Nodes -> [Nodes -> Streams]]
      BY <2>1, ClosedFact DEF IndInv, TypeOK, StreamOK
    <2> QED BY <1>2, <2>2, StreamsFewer
  <1>8. HandlersOK' /\ CallsInv'
    <2>1. \/ handlers' = handlers
          \/ handlers' = [f \in Nodes |-> Orphaned(handlers[f], n)]
      BY DEF Tick
    <2>2. CallsFewer /\ handlers' = [f \in Nodes |-> handlers'[f]]
      BY <2>1 DEF CallsFewer, IndInv, TypeOK, HandlersOK
    <2>3. overlapped' \in BOOLEAN BY <1>1 DEF IndInv, TypeOK, HandlersOK
    <2>4. \A f \in Nodes : Len(log[f]) <= Len(log'[f]) /\ Len(log'[f]) \in Nat
      BY <1>2 DEF Grows
    <2> QED BY <2>2, <2>3, <2>4, FewerInv
  <1> QED BY <1>2, <1>3, <1>4, <1>5, <1>6, <1>7, <1>8 DEF IndInv, TypeOK

(* SetReplicas keeps a replica's offset or starts it over at 0, and the    *)
(* leader's own is at most its tail.                                       *)
LEMMA RunInv == ASSUME NEW n \in Nodes, IndInv, run(n) PROVE IndInv'
  <1>1. UNCHANGED <<meta, up, alive, disk, owned, lastKey, net, pubs, bounds>>
    BY DEF run
  <1>2. DiskOK' /\ Kept BY <1>1, DiskUntouched
  <1>3. MetaOK' /\ PubsOK'
    BY <1>1 DEF IndInv, TypeOK, MetaOK, PubsOK, meta, pubs, bounds
  <1>4. StreamOK' /\ AckInv' BY <1>1, <1>2, KeptAcks DEF net
  <1>5. HandlersOK' /\ CallsInv' /\ WaitInv' /\ PublishedInv'
    BY <1>1, WaitsUntouched DEF net
  <1>6. LoopOK'
    BY <1>1 DEF run, IndInv, TypeOK, LoopOK
  <1>7. HwmOK'
    <2>1. worker[n].followers \subseteq Nodes /\ Len(log[n]) \in Nat
      BY DiskTypes DEF IndInv, TypeOK, LoopOK
    <2> QED BY <2>1 DEF run, SetReplicas, IndInv, TypeOK, HwmOK
  <1>8. CreditInv'
    <2> SUFFICES ASSUME NEW m \in Nodes, NEW r \in Nodes
                 PROVE  offsets'[m][r] <= Counted(r)
      BY <1>1 DEF CreditInv, Counted, disk
    <2>1. /\ Counted(r) \in Nat /\ Len(log[r]) \in Nat /\ Len(log[r]) <= Counted(r)
          /\ offsets[m][r] <= Counted(r)
      BY DiskTypes DEF IndInv, CreditInv
    <2>2. \/ offsets'[m][r] = offsets[m][r]
          \/ r = n /\ offsets'[m][r] = Len(log[n])
          \/ offsets'[m][r] = 0
      BY DEF run, SetReplicas, IndInv, TypeOK, HwmOK
    <2> QED BY <2>1, <2>2
  <1> QED BY <1>2, <1>3, <1>4, <1>5, <1>6, <1>7, <1>8 DEF IndInv, TypeOK

(* An Update to an offset that the replica counted keeps the mark honest. *)
LEMMA UpdateInv ==
    ASSUME NEW n \in Nodes, NEW r \in Nodes, NEW off \in Nat, IndInv,
           Update(n, r, off), off <= Counted(r), UNCHANGED <<disk, tracked>>
    PROVE  HwmOK' /\ CreditInv'
  <1>1. \A m, q \in Nodes : \/ offsets'[m][q] = offsets[m][q]
                            \/ q = r /\ offsets'[m][q] = off
    BY DEF Update, IndInv, TypeOK, HwmOK
  <1>2. HwmOK'
    BY DEF Update, IndInv, TypeOK, HwmOK
  <1>3. \A q \in Nodes : Counted(q)' = Counted(q) BY DEF Counted, disk
  <1>4. CreditInv'
    BY <1>1, <1>3 DEF IndInv, CreditInv
  <1> QED BY <1>2, <1>4

(* The leader credits itself with its next record, which is fsynced. *)
LEMMA SelfUpdateInv ==
    ASSUME NEW n \in Nodes, IndInv, selfUpdateLoop(n) PROVE IndInv'
  <1>1. UNCHANGED <<meta, up, alive, disk, loop, tracked, net, pubs, bounds>>
    BY DEF selfUpdateLoop
  <1>2. DiskOK' /\ Kept BY <1>1, DiskUntouched
  <1>3. MetaOK' /\ PubsOK' /\ LoopOK'
    BY <1>1 DEF IndInv, TypeOK, MetaOK, PubsOK, LoopOK, meta, loop, pubs, bounds
  <1>4. StreamOK' /\ AckInv' BY <1>1, <1>2, KeptAcks DEF net
  <1>5. HandlersOK' /\ CallsInv' /\ WaitInv' /\ PublishedInv'
    BY <1>1, WaitsUntouched DEF net
  <1>6. offsets[n][n] + 1 \in Nat /\ offsets[n][n] + 1 <= Counted(n)
    <2>1. offsets[n][n] \in Nat /\ offsets[n][n] < synced[n]
      BY DEF selfUpdateLoop, IndInv, TypeOK, HwmOK
    <2> QED BY <2>1, DiskTypes
  <1>7. HwmOK' /\ CreditInv'
    BY <1>1, <1>6, UpdateInv DEF selfUpdateLoop
  <1> QED BY <1>2, <1>3, <1>4, <1>5, <1>7 DEF IndInv, TypeOK

-----------------------------------------------------------------------------
(* One stream replaced by another of the right type, whose answers the     *)
(* follower's count bears out.                                             *)
LEMMA StreamStep ==
    ASSUME NEW n \in Nodes, NEW f \in Nodes, NEW s \in Streams, IndInv, Kept,
           stream' = [stream EXCEPT ![n][f] = s],
           \A i \in 1..Len(s.acks) : s.acks[i] < Counted(f)'
    PROVE  StreamOK' /\ AckInv'
  <1>1. stream \in [Nodes -> [Nodes -> Streams]] BY DEF IndInv, TypeOK, StreamOK
  <1>2. StreamOK' BY <1>1 DEF StreamOK
  <1>3. AckInv'
    <2> SUFFICES ASSUME NEW a \in Nodes, NEW b \in Nodes,
                        NEW i \in 1..Len(stream'[a][b].acks)
                 PROVE  stream'[a][b].acks[i] < Counted(b)'
      BY DEF AckInv
    <2>1. CASE a = n /\ b = f
      <3>1. stream'[a][b] = s BY <1>1, <2>1
      <3> QED BY <2>1, <3>1
    <2>2. CASE ~(a = n /\ b = f)
      <3>1. stream'[a][b] = stream[a][b] BY <1>1, <2>2
      <3>2. stream[a][b].acks \in Seq(Nat) /\ i \in 1..Len(stream[a][b].acks)
        BY <1>1, <3>1 DEF Streams
      <3>3. PICK x \in Nat : x = stream[a][b].acks[i] BY <3>2
      <3>4. x < Counted(b) BY <3>2, <3>3 DEF IndInv, AckInv
      <3>5. Counted(b) \in Nat /\ Counted(b)' \in Nat /\ Counted(b) <= Counted(b)'
        BY DEF Kept
      <3> HIDE DEF Counted
      <3>6. x < Counted(b)' BY <3>4, <3>5
      <3> QED BY <3>1, <3>3, <3>6
    <2> QED BY <2>1, <2>2
  <1> QED BY <1>2, <1>3

(* What a step on a stream alone leaves as it was. *)
LEMMA StreamOnly ==
    ASSUME IndInv,
           UNCHANGED <<meta, up, alive, disk, loop, handlers, overlapped, pubs, bounds>>
    PROVE  /\ MetaOK' /\ DiskOK' /\ PubsOK' /\ LoopOK' /\ Kept
           /\ HandlersOK' /\ CallsInv' /\ WaitInv' /\ PublishedInv'
           /\ \A m \in Nodes : Counted(m)' = Counted(m)
  <1>1. DiskOK' /\ Kept BY DiskUntouched
  <1>2. MetaOK' /\ PubsOK' /\ LoopOK'
    BY DEF IndInv, TypeOK, MetaOK, PubsOK, LoopOK, meta, loop, pubs, bounds
  <1>3. \A m \in Nodes : Counted(m)' = Counted(m) BY DEF Counted, disk
  <1> QED BY <1>1, <1>2, <1>3, WaitsUntouched

(* A new session has nothing in flight. *)
LEMMA OpenInv ==
    ASSUME NEW n \in Nodes, NEW f \in Nodes, IndInv, OpenReplicate(n, f)
    PROVE  IndInv'
  <1>1. UNCHANGED <<meta, up, alive, disk, loop, hwm, handlers, overlapped, pubs, bounds>>
    BY DEF OpenReplicate
  <1>2. /\ MetaOK' /\ DiskOK' /\ PubsOK' /\ LoopOK' /\ Kept
        /\ HandlersOK' /\ CallsInv' /\ WaitInv' /\ PublishedInv'
    BY <1>1, StreamOnly
  <1>3. StreamOK' /\ AckInv'
    BY <1>2, StreamStep, ClosedFact DEF OpenReplicate
  <1>4. HwmOK' /\ CreditInv' BY <1>1, <1>2, KeptMarks
  <1> QED BY <1>2, <1>3, <1>4 DEF IndInv, TypeOK

(* Sending, or the end of the backfill, touches no answer. *)
LEMMA SendInv ==
    ASSUME NEW n \in Nodes, NEW f \in Nodes, IndInv, Send(n, f) \/ BackfillEnds(n, f)
    PROVE  IndInv'
  <1>1. UNCHANGED <<meta, up, alive, disk, loop, hwm, handlers, overlapped, pubs, bounds>>
    BY DEF Send, BackfillEnds
  <1>2. /\ MetaOK' /\ DiskOK' /\ PubsOK' /\ LoopOK' /\ Kept
        /\ HandlersOK' /\ CallsInv' /\ WaitInv' /\ PublishedInv'
        /\ \A m \in Nodes : Counted(m)' = Counted(m)
    BY <1>1, StreamOnly
  <1>3. PICK s \in Streams : s = stream[n][f]
    BY DEF IndInv, TypeOK, StreamOK
  <1>4. \E t \in Streams : stream' = [stream EXCEPT ![n][f] = t] /\ t.acks = s.acks
    <2>1. CASE Send(n, f)
      <3> DEFINE e == [off |-> s.next, rec |-> log[n][s.next + 1]]
                 t == [open |-> TRUE, live |-> s.live, next |-> s.next + 1,
                       acks |-> s.acks, wire |-> Append(s.wire, e)]
      <3>1. s.next \in Nat /\ s.next < Len(log[n])
        <4>1. s.next \in Nat /\ (s.next < synced[n] \/ s.next < file[n])
          BY <1>3, <2>1 DEF Send, Streams
        <4> QED BY <4>1, DiskTypes
      <3>2. log[n][s.next + 1] \in Nat BY <3>1, DiskTypes
      <3>3. e \in Entries BY <3>1, <3>2 DEF Entries
      <3>4. t \in Streams /\ t.acks = s.acks BY <3>1, <3>3 DEF Streams
      <3>5. stream' = [stream EXCEPT ![n][f] = t] BY <1>3, <2>1 DEF Send
      <3> QED BY <3>4, <3>5
    <2>2. CASE BackfillEnds(n, f)
      <3> DEFINE t == [s EXCEPT !.live = TRUE]
      <3>1. t \in Streams /\ t.acks = s.acks BY DEF Streams
      <3>2. stream' = [stream EXCEPT ![n][f] = t]
        BY <1>3, <2>2 DEF BackfillEnds, IndInv, TypeOK, StreamOK
      <3> QED BY <3>1, <3>2
    <2> QED BY <2>1, <2>2
  <1>5. StreamOK' /\ AckInv'
    <2>1. PICK t \in Streams : stream' = [stream EXCEPT ![n][f] = t] /\ t.acks = s.acks
      BY <1>4
    <2>2. \A i \in 1..Len(t.acks) : t.acks[i] < Counted(f)'
      BY <1>2, <1>3, <2>1 DEF IndInv, AckInv
    <2> QED BY <1>2, <2>1, <2>2, StreamStep
  <1>6. HwmOK' /\ CreditInv' BY <1>1, <1>2, KeptMarks
  <1> QED BY <1>2, <1>5, <1>6 DEF IndInv, TypeOK

(* An answer that is taken credits the follower with what it counted. *)
LEMMA RecvAckInv ==
    ASSUME NEW n \in Nodes, NEW f \in Nodes, IndInv, RecvAck(n, f)
    PROVE  IndInv'
  <1>1. UNCHANGED <<meta, up, alive, disk, loop, tracked, handlers, overlapped, pubs,
                    bounds>>
    BY DEF RecvAck
  <1>2. /\ MetaOK' /\ DiskOK' /\ PubsOK' /\ LoopOK' /\ Kept
        /\ HandlersOK' /\ CallsInv' /\ WaitInv' /\ PublishedInv'
        /\ \A m \in Nodes : Counted(m)' = Counted(m)
    BY <1>1, StreamOnly
  <1>3. PICK s \in Streams : s = stream[n][f]
    BY DEF IndInv, TypeOK, StreamOK
  <1> DEFINE t == Carrying(s, s.wire, Tail(s.acks))
  <1>4. s.acks # <<>> /\ s.acks \in Seq(Nat) /\ Counted(f) \in Nat
    BY <1>3, DiskTypes DEF RecvAck, Streams
  <1>5. /\ t \in Streams /\ Len(t.acks) = Len(s.acks) - 1
        /\ \A i \in 1..Len(t.acks) : t.acks[i] = s.acks[i + 1]
        /\ Len(s.acks) \in Nat \ {0}
    <2>1. /\ Tail(s.acks) \in Seq(Nat) /\ Len(Tail(s.acks)) = Len(s.acks) - 1
          /\ \A i \in 1..Len(Tail(s.acks)) : Tail(s.acks)[i] = s.acks[i + 1]
          /\ Len(s.acks) \in Nat \ {0}
      BY <1>4
    <2>2. t \in Streams /\ t.acks = Tail(s.acks) BY <2>1 DEF Streams, Carrying
    <2> QED BY <2>1, <2>2
  <1>6. \A i \in 1..Len(s.acks) : s.acks[i] < Counted(f)
    BY <1>3 DEF IndInv, AckInv
  <1>7. \A i \in 1..Len(t.acks) : t.acks[i] < Counted(f)'
    BY <1>2, <1>5, <1>6
  <1>8. stream' = [stream EXCEPT ![n][f] = t] /\ Update(n, f, Head(s.acks) + 1)
    BY <1>3 DEF RecvAck
  <1>9. StreamOK' /\ AckInv'
    BY <1>2, <1>5, <1>7, <1>8, StreamStep
  <1>10. PICK x \in Nat : x = Head(s.acks) /\ x = s.acks[1]
    BY <1>4
  <1>11. x < Counted(f)
    <2>1. 1 \in 1..Len(s.acks) BY <1>5
    <2> QED BY <1>6, <1>10, <2>1
  <1>12. HwmOK' /\ CreditInv'
    BY <1>1, <1>4, <1>8, <1>10, <1>11, UpdateInv
  <1> QED BY <1>2, <1>9, <1>12 DEF IndInv, TypeOK

(* A broken stream loses entries and answers, nothing else. *)
LEMMA BreakInv ==
    ASSUME NEW n \in Nodes, NEW f \in Nodes, IndInv, Break(n, f)
    PROVE  IndInv'
  <1>1. UNCHANGED <<meta, up, alive, disk, loop, hwm, overlapped, pubs, records>>
    BY DEF Break
  <1>2. DiskOK' /\ Kept /\ Grows BY <1>1, DiskUntouched
  <1>3. StreamOK' /\ AckInv'
    BY <1>2, StreamStep, ClosedFact DEF Break
  <1>4. HandlersOK' /\ CallsInv'
    <2>1. handlers' = [handlers EXCEPT ![f] = Orphaned(@, n)] BY DEF Break
    <2>2. CallsFewer /\ handlers' = [g \in Nodes |-> handlers'[g]]
      BY <2>1 DEF CallsFewer, IndInv, TypeOK, HandlersOK
    <2>3. overlapped' \in BOOLEAN BY <1>1 DEF IndInv, TypeOK, HandlersOK
    <2>4. \A g \in Nodes : Len(log[g]) <= Len(log'[g]) /\ Len(log'[g]) \in Nat
      BY <1>2 DEF Grows
    <2> QED BY <2>2, <2>3, <2>4, FewerInv
  <1>5. faults' \in 0..MaxFaults BY FaultsType DEF Break
  <1>6. MetaOK' /\ LoopOK' /\ PubsOK'
    BY <1>1, <1>5 DEF IndInv, TypeOK, MetaOK, LoopOK, PubsOK, meta, loop, pubs
  <1>7. HwmOK' /\ CreditInv' BY <1>1, <1>2, KeptMarks
  <1>8. WaitInv' /\ PublishedInv'
    BY <1>1, <1>2, GrowsWaits, KeptPublished DEF WaitInv, pubs
  <1> QED BY <1>2, <1>3, <1>4, <1>6, <1>7, <1>8 DEF IndInv, TypeOK

-----------------------------------------------------------------------------
(* A set-valued function with a member added at one place. *)
LEMMA OneMore ==
    ASSUME NEW S, NEW g \in [Nodes -> SUBSET S], NEW f \in Nodes, NEW x \in S
    PROVE  [g EXCEPT ![f] = @ \cup {x}] \in [Nodes -> SUBSET S]
  OBVIOUS

(* An entry whose offset is counted is answered with the last offset       *)
(* counted; otherwise no answer goes out.                                  *)
LEMMA ReplicateInv ==
    ASSUME NEW n \in Nodes, NEW f \in Nodes, IndInv, Replicate(n, f)
    PROVE  IndInv'
  <1>1. UNCHANGED <<meta, up, alive, disk, loop, hwm, pubs, bounds>>
    BY DEF Replicate
  <1>2. DiskOK' /\ Kept /\ Grows BY <1>1, DiskUntouched
  <1>3. PICK s \in Streams : s = stream[n][f]
    BY DEF IndInv, TypeOK, StreamOK
  <1>4. s.wire # <<>> /\ s.wire \in Seq(Entries) BY <1>3 DEF Replicate, Streams
  <1>5. PICK e \in Entries : e = Head(s.wire) BY <1>4
  <1>6. PICK w \in Seq(Entries) : w = Tail(s.wire)
    <2>1. Tail(s.wire) \in Seq(Entries) BY <1>4
    <2> QED BY <2>1, Zenon
  <1> DEFINE h == [from |-> n, rec |-> e.rec, live |-> TRUE, pc |-> "write", off |-> 0]
             k == LastOffset(log[f])
  <1>7. \A m \in Nodes : Counted(m)' = Counted(m) BY <1>1 DEF Counted, disk
  <1>8. \A i \in 1..Len(s.acks) : s.acks[i] < Counted(f)'
    BY <1>3, <1>7 DEF IndInv, AckInv
  <1>9. \/ /\ Held(f, e) /\ UNCHANGED <<handlers, overlapped>>
           /\ stream' = [stream EXCEPT ![n][f] = Carrying(s, w, Append(s.acks, k))]
        \/ /\ stream' = [stream EXCEPT ![n][f] = Carrying(s, w, s.acks)]
           /\ handlers' = [handlers EXCEPT ![f] = @ \cup {h}]
           /\ overlapped' = (overlapped \/ \E g \in handlers[f] : g.pc = "write")
        \/ /\ stream' = [stream EXCEPT ![n][f] = Closed]
           /\ UNCHANGED <<handlers, overlapped>>
    BY <1>3, <1>5, <1>6, Zenon DEF Replicate
  <1>10. StreamOK' /\ AckInv'
    <2>1. CASE /\ Held(f, e)
               /\ stream' = [stream EXCEPT ![n][f] = Carrying(s, w, Append(s.acks, k))]
      <3> DEFINE t == Carrying(s, w, Append(s.acks, k))
      <3>1. k \in Nat /\ k < Counted(f)'
        <4>1. e.off \in Nat /\ e.off < Len(log[f])
          BY <2>1 DEF Held, Entries
        <4> QED BY <1>7, <4>1, DiskTypes DEF LastOffset
      <3> HIDE DEF k
      <3>2. t \in Streams /\ t.acks = Append(s.acks, k) /\ s.acks \in Seq(Nat)
        BY <3>1 DEF Streams, Carrying
      <3>3. \A i \in 1..Len(t.acks) : t.acks[i] < Counted(f)'
        BY <1>2, <1>8, <3>1, <3>2, AppendBound DEF Kept
      <3> QED BY <1>2, <2>1, <3>2, <3>3, StreamStep
    <2>2. CASE stream' = [stream EXCEPT ![n][f] = Carrying(s, w, s.acks)]
      <3> DEFINE t == Carrying(s, w, s.acks)
      <3>1. t \in Streams /\ t.acks = s.acks
        BY DEF Streams, Carrying
      <3> QED BY <1>2, <1>8, <2>2, <3>1, StreamStep
    <2>3. CASE stream' = [stream EXCEPT ![n][f] = Closed]
      BY <1>2, <2>3, ClosedFact, StreamStep
    <2> QED BY <1>9, <2>1, <2>2, <2>3
  <1>11. handlers \in [Nodes -> SUBSET Calls] /\ overlapped \in BOOLEAN
    BY DEF IndInv, TypeOK, HandlersOK
  <1>12. h \in Calls BY DEF Entries, Calls
  <1>13. HandlersOK' /\ CallsInv'
    <2>1. CASE UNCHANGED <<handlers, overlapped>>
      BY <1>1, <2>1, WaitsUntouched
    <2>2. CASE /\ handlers' = [handlers EXCEPT ![f] = @ \cup {h}]
               /\ overlapped' = (overlapped \/ \E g \in handlers[f] : g.pc = "write")
      <3>1. overlapped' \in BOOLEAN BY <2>2, Zenon
      <3>2. h.pc # "commit" OBVIOUS
      <3> HIDE DEF h
      <3>3. handlers' \in [Nodes -> SUBSET Calls] BY <1>11, <1>12, <2>2, OneMore
      <3>4. \A m \in Nodes : handlers'[m] \subseteq handlers[m] \cup {h}
        BY <1>11, <2>2
      <3>5. CallsInv'
        BY <1>2, <3>2, <3>4, GrowsWaits DEF CallsInv
      <3> QED BY <3>1, <3>3, <3>5 DEF HandlersOK
    <2> QED BY <1>9, <2>1, <2>2
  <1>14. MetaOK' /\ PubsOK' /\ LoopOK'
    BY <1>1 DEF IndInv, TypeOK, MetaOK, PubsOK, LoopOK, meta, loop, pubs, bounds
  <1>15. HwmOK' /\ CreditInv' BY <1>1, <1>2, KeptMarks
  <1>16. WaitInv' /\ PublishedInv'
    BY <1>1, <1>2, GrowsWaits, KeptPublished DEF WaitInv, pubs
  <1> QED BY <1>2, <1>10, <1>13, <1>14, <1>15, <1>16 DEF IndInv, TypeOK

-----------------------------------------------------------------------------
(* What an append on a follower leaves alone, with the disks kept. *)
LEMMA AppendAside ==
    ASSUME IndInv, Kept, Grows, UNCHANGED <<meta, up, alive, loop, hwm, pubs, records>>,
           faults' \in 0..MaxFaults
    PROVE  /\ MetaOK' /\ LoopOK' /\ HwmOK' /\ PubsOK'
           /\ CreditInv' /\ WaitInv' /\ PublishedInv'
  <1>1. MetaOK' /\ LoopOK' /\ PubsOK'
    BY DEF IndInv, TypeOK, MetaOK, LoopOK, PubsOK, meta, loop, pubs
  <1>2. HwmOK' /\ CreditInv' BY KeptMarks
  <1>3. WaitInv' /\ PublishedInv' BY GrowsWaits, KeptPublished DEF WaitInv, pubs
  <1> QED BY <1>1, <1>2, <1>3

(* An error takes the call and its stream away. *)
LEMMA FailsInv ==
    ASSUME NEW f \in Nodes, NEW h \in handlers[f], IndInv, Kept, Grows, Fails(f, h),
           UNCHANGED overlapped
    PROVE  StreamOK' /\ AckInv' /\ HandlersOK' /\ CallsInv'
  <1>1. handlers \in [Nodes -> SUBSET Calls] /\ overlapped \in BOOLEAN
        /\ stream \in [Nodes -> [Nodes -> Streams]]
    BY DEF IndInv, TypeOK, HandlersOK, StreamOK
  <1>2. h.from \in Nodes BY <1>1 DEF Calls
  <1>3. handlers' = [handlers EXCEPT ![f] = @ \ {h}] BY DEF Fails
  <1>4. HandlersOK' BY <1>1, <1>3 DEF HandlersOK
  <1>5. \A m \in Nodes : handlers'[m] \subseteq handlers[m] BY <1>1, <1>3
  <1>6. CallsInv' BY <1>5, GrowsWaits DEF CallsInv
  <1>7. StreamOK' /\ AckInv'
    <2>1. CASE stream' = [stream EXCEPT ![h.from][f] = Closed]
      BY <1>2, <2>1, ClosedFact, StreamStep
    <2>2. CASE stream' = stream
      BY <2>2, KeptAcks
    <2> QED BY <2>1, <2>2 DEF Fails
  <1> QED BY <1>4, <1>6, <1>7

(* The record of a call is written, or refused. *)
LEMMA ReplicateWriteInv ==
    ASSUME NEW f \in Nodes, NEW h \in handlers[f], IndInv, ReplicateWrite(f, h)
    PROVE  IndInv'
  <1>1. UNCHANGED <<meta, up, alive, loop, hwm, overlapped, pubs, bounds>>
    BY DEF ReplicateWrite
  <1>2. handlers \in [Nodes -> SUBSET Calls] /\ overlapped \in BOOLEAN
    BY DEF IndInv, TypeOK, HandlersOK
  <1>3. h.from \in Nodes /\ h.rec \in Nat /\ h.live \in BOOLEAN BY <1>2 DEF Calls
  <1>4. faults' \in 0..MaxFaults BY <1>1, FaultsType DEF bounds
  <1> DEFINE g == [from |-> h.from, rec |-> h.rec, live |-> h.live, pc |-> "commit",
                   off |-> Len(log[f])]
  <1>5. CASE /\ Write(f, h.rec) /\ UNCHANGED stream
             /\ handlers' = [handlers EXCEPT ![f] = (@ \ {h}) \cup {g}]
    <2>1. DiskOK' /\ Kept /\ Grows /\ Len(log'[f]) = Len(log[f]) + 1
      BY <1>3, <1>5, WriteDisk
    <2>2. StreamOK' /\ AckInv' BY <1>5, <2>1, KeptAcks
    <2>3. g \in Calls /\ g.off = Len(log[f]) BY <1>3, DiskTypes DEF Calls
    <2> HIDE DEF g
    <2>4. HandlersOK' BY <1>1, <1>2, <1>5, <2>3 DEF HandlersOK
    <2>5. \A m \in Nodes : handlers'[m] \subseteq handlers[m] \/
                           (m = f /\ handlers'[m] \subseteq handlers[m] \cup {g})
      BY <1>2, <1>5
    <2>6. CallsInv'
      <3> SUFFICES ASSUME NEW m \in Nodes, NEW c \in handlers'[m], c.pc = "commit"
                   PROVE  c.off < Len(log'[m])
        BY DEF CallsInv
      <3>1. CASE c \in handlers[m] BY <2>1, <3>1, GrowsWaits
      <3>2. CASE m = f /\ c = g BY <2>1, <2>3, <3>2, DiskTypes
      <3> QED BY <2>5, <3>1, <3>2
    <2> QED BY <1>1, <1>4, <2>1, <2>2, <2>4, <2>6, AppendAside
            DEF IndInv, TypeOK, bounds
  <1>6. CASE Refuses(f) /\ Fails(f, h) /\ UNCHANGED disk
    <2>1. DiskOK' /\ Kept /\ Grows BY <1>6, DiskUntouched
    <2>2. StreamOK' /\ AckInv' /\ HandlersOK' /\ CallsInv'
      BY <1>1, <1>6, <2>1, FailsInv
    <2> QED BY <1>1, <1>4, <2>1, <2>2, AppendAside DEF IndInv, TypeOK, bounds
  <1> QED BY <1>5, <1>6 DEF ReplicateWrite

(* The answer that follows an append names an offset that is counted. *)
LEMMA ReplicateCommitInv ==
    ASSUME NEW f \in Nodes, NEW h \in handlers[f], IndInv, ReplicateCommit(f, h)
    PROVE  IndInv'
  <1>1. UNCHANGED <<meta, up, alive, loop, hwm, overlapped, pubs, records>>
    BY DEF ReplicateCommit
  <1>2. handlers \in [Nodes -> SUBSET Calls] /\ overlapped \in BOOLEAN
    BY DEF IndInv, TypeOK, HandlersOK
  <1>3. h.from \in Nodes /\ h.off \in Nat BY <1>2 DEF Calls
  <1>4. h.off < Len(log[f]) BY DEF ReplicateCommit, IndInv, CallsInv
  <1>5. PICK s \in Streams : s = stream[h.from][f]
    BY <1>3 DEF IndInv, TypeOK, StreamOK
  <1> DEFINE k == LastOffset(log[f])
             t == Carrying(s, s.wire, Append(s.acks, k))
  <1>6. CASE /\ Commit(f, h.off, TRUE)
             /\ handlers' = [handlers EXCEPT ![f] = @ \ {h}]
             /\ stream' = [stream EXCEPT ![h.from][f] = t] \/ stream' = stream
    <2>1. DiskOK' /\ Kept /\ Grows /\ faults' \in 0..MaxFaults /\ log' = log
      BY <1>3, <1>4, <1>6, CommitDisk
    <2>2. HandlersOK' BY <1>1, <1>2, <1>6 DEF HandlersOK
    <2>3. \A m \in Nodes : handlers'[m] \subseteq handlers[m] BY <1>2, <1>6
    <2>4. CallsInv' BY <2>1, <2>3, GrowsWaits DEF CallsInv
    <2>5. k \in Nat /\ k < Counted(f)'
      <3>1. k \in Nat /\ k < Counted(f) BY <1>3, <1>4, DiskTypes DEF LastOffset
      <3> HIDE DEF k
      <3> QED BY <2>1, <3>1 DEF Kept
    <2> HIDE DEF k
    <2>6. t \in Streams /\ t.acks = Append(s.acks, k) /\ s.acks \in Seq(Nat)
      BY <2>5 DEF Streams, Carrying
    <2>7. \A i \in 1..Len(s.acks) : s.acks[i] < Counted(f)'
      <3>1. ASSUME NEW i \in 1..Len(s.acks) PROVE s.acks[i] < Counted(f)'
        <4>1. PICK x \in Nat : x = s.acks[i] BY <2>6
        <4>2. x < Counted(f) BY <1>3, <1>5, <4>1 DEF IndInv, AckInv
        <4> QED BY <2>1, <4>1, <4>2 DEF Kept
      <3> QED BY <3>1
    <2>8. \A i \in 1..Len(t.acks) : t.acks[i] < Counted(f)'
      BY <2>1, <2>5, <2>6, <2>7, AppendBound DEF Kept
    <2> HIDE DEF t
    <2>9. StreamOK' /\ AckInv'
      <3>1. CASE stream' = [stream EXCEPT ![h.from][f] = t]
        BY <1>3, <2>1, <2>6, <2>8, <3>1, StreamStep
      <3>2. CASE stream' = stream BY <2>1, <3>2, KeptAcks
      <3> QED BY <1>6, <3>1, <3>2
    <2> QED BY <1>1, <2>1, <2>2, <2>4, <2>9, AppendAside DEF IndInv, TypeOK
  <1>7. CASE Commit(f, h.off, FALSE) /\ Fails(f, h)
    <2>1. DiskOK' /\ Kept /\ Grows /\ faults' \in 0..MaxFaults
      BY <1>3, <1>4, <1>7, CommitDisk
    <2>2. StreamOK' /\ AckInv' /\ HandlersOK' /\ CallsInv'
      BY <1>1, <1>7, <2>1, FailsInv
    <2> QED BY <1>1, <2>1, <2>2, AppendAside DEF IndInv, TypeOK
  <1> QED BY <1>5, <1>6, <1>7, Zenon DEF ReplicateCommit

-----------------------------------------------------------------------------
(* What an append on the leader leaves alone, with the disks kept. *)
LEMMA PublishAside ==
    ASSUME IndInv, Kept, Grows, UNCHANGED <<meta, up, alive, loop, hwm, net, acked>>
    PROVE  /\ MetaOK' /\ LoopOK' /\ HwmOK' /\ StreamOK' /\ HandlersOK'
           /\ CreditInv' /\ AckInv' /\ CallsInv' /\ PublishedInv'
  <1>1. MetaOK' /\ LoopOK' /\ HandlersOK'
    BY DEF IndInv, TypeOK, MetaOK, LoopOK, HandlersOK, meta, loop, net
  <1>2. HwmOK' /\ CreditInv' BY KeptMarks
  <1>3. StreamOK' /\ AckInv' BY KeptAcks DEF net
  <1>4. CallsInv' BY GrowsWaits DEF CallsInv, net
  <1> QED BY <1>1, <1>2, <1>3, <1>4, KeptPublished

(* A publish lengthens the leader's log; the mark is yet to follow. *)
LEMMA PublishInv == ASSUME NEW n \in Nodes, IndInv, Publish(n) PROVE IndInv'
  <1>1. UNCHANGED <<meta, up, alive, loop, hwm, net, acked, faults>>
    BY DEF Publish
  <1>2. records + 1 \in Nat /\ records' = records + 1 /\ records' \in 0..MaxRecords
    BY ReplicationAssumption DEF Publish, IndInv, TypeOK, PubsOK
  <1>3. /\ DiskOK' /\ Kept /\ Grows
        /\ Len(log'[n]) = Len(log[n]) + 1 /\ log'[n][Len(log[n]) + 1] = records + 1
    BY <1>2, WriteDisk DEF Publish
  <1> DEFINE p == [node |-> n, off |-> Len(log[n]), rec |-> records + 1, pc |-> "commit"]
  <1>4. waiting' = waiting \cup {p} BY DEF Publish
  <1>5. /\ p \in [node : Nodes, off : Nat, rec : Nat, pc : {"commit", "quorum"}]
        /\ p.node = n /\ p.off = Len(log[n]) /\ p.rec = records + 1 /\ p.pc # "quorum"
    BY <1>2, DiskTypes
  <1> HIDE DEF p
  <1>6. PubsOK' BY <1>1, <1>2, <1>4, <1>5 DEF IndInv, TypeOK, PubsOK
  <1>7. WaitInv'
    <2> SUFFICES ASSUME NEW q \in waiting'
                 PROVE  /\ q.off < Len(log'[q.node]) /\ log'[q.node][q.off + 1] = q.rec
                        /\ q.pc = "quorum" => q.off < file'[q.node]
      BY DEF WaitInv
    <2>1. CASE q \in waiting BY <1>3, <2>1, GrowsWaits
    <2>2. CASE q = p BY <1>3, <1>5, <2>2, DiskTypes
    <2> QED BY <1>4, <2>1, <2>2
  <1> QED BY <1>1, <1>3, <1>6, <1>7, PublishAside DEF IndInv, TypeOK

(* A publish whose append returns is in the file. *)
LEMMA PublishCommitInv ==
    ASSUME NEW p \in waiting, IndInv, PublishCommit(p) PROVE IndInv'
  <1>1. UNCHANGED <<meta, up, alive, loop, hwm, net, acked, records>>
    BY DEF PublishCommit
  <1>2. p.node \in Nodes /\ p.off \in Nat /\ p.rec \in Nat
    BY DEF IndInv, TypeOK, PubsOK
  <1>3. p.off < Len(log[p.node]) /\ log[p.node][p.off + 1] = p.rec
    BY DEF IndInv, WaitInv
  <1> DEFINE q == [node |-> p.node, off |-> p.off, rec |-> p.rec, pc |-> "quorum"]
  <1>4. PICK ok \in BOOLEAN :
            /\ Commit(p.node, p.off, ok)
            /\ ok => waiting' = (waiting \ {p}) \cup {q}
            /\ ~ok => waiting' = waiting \ {p}
    <2>1. CASE Commit(p.node, p.off, TRUE) /\ waiting' = (waiting \ {p}) \cup {q}
      BY <2>1, Zenon
    <2>2. CASE Commit(p.node, p.off, FALSE) /\ waiting' = waiting \ {p}
      BY <2>2, Zenon
    <2> QED BY <2>1, <2>2 DEF PublishCommit
  <1>5. /\ DiskOK' /\ Kept /\ Grows /\ faults' \in 0..MaxFaults /\ log' = log
        /\ ok => p.off < file'[p.node]
    BY <1>2, <1>3, <1>4, CommitDisk
  <1>6. /\ q \in [node : Nodes, off : Nat, rec : Nat, pc : {"commit", "quorum"}]
        /\ q.node = p.node /\ q.off = p.off /\ q.rec = p.rec
    BY <1>2
  <1> HIDE DEF q
  <1>7. waiting' \subseteq waiting \cup {q} /\ (q \in waiting' => ok \/ q \in waiting)
    BY <1>4
  <1>8. PubsOK' BY <1>1, <1>5, <1>6, <1>7 DEF IndInv, TypeOK, PubsOK
  <1>9. WaitInv'
    <2> SUFFICES ASSUME NEW w \in waiting'
                 PROVE  /\ w.off < Len(log'[w.node]) /\ log'[w.node][w.off + 1] = w.rec
                        /\ w.pc = "quorum" => w.off < file'[w.node]
      BY DEF WaitInv
    <2>1. CASE w \in waiting BY <1>5, <2>1, GrowsWaits
    <2>2. CASE w = q /\ ok BY <1>3, <1>5, <1>6, <2>2
    <2> QED BY <1>7, <2>1, <2>2
  <1> QED BY <1>1, <1>5, <1>8, <1>9, PublishAside DEF IndInv, TypeOK

(* A publish is answered when every tracked replica is credited beyond its *)
(* offset, and credit is backed by what the replicas counted.              *)
LEMMA WaitQuorumInv == ASSUME NEW p \in waiting, IndInv, WaitQuorum(p) PROVE IndInv'
  <1> DEFINE a == [node |-> p.node, rec |-> p.rec, off |-> p.off,
                   replicas |-> tracked[p.node]]
  <1>1. UNCHANGED <<meta, up, alive, disk, loop, hwm, net, bounds>>
    BY DEF WaitQuorum
  <1>2. p.node \in Nodes /\ p.off \in Nat /\ p.rec \in Nat
    BY DEF IndInv, TypeOK, PubsOK
  <1>3. tracked[p.node] \subseteq Nodes
    BY <1>2 DEF IndInv, TypeOK, HwmOK
  <1>4. \A r \in tracked[p.node] : p.off < Counted(r)
    <2> SUFFICES ASSUME NEW r \in tracked[p.node] PROVE p.off < Counted(r)
      OBVIOUS
    <2>1. r \in Nodes /\ offsets[p.node][r] >= p.off + 1
      BY <1>3 DEF WaitQuorum, Reached
    <2>2. offsets[p.node][r] <= Counted(r)
      BY <1>2, <2>1 DEF IndInv, CreditInv
    <2>3. offsets[p.node][r] \in Nat /\ Counted(r) \in Nat
      BY <1>2, <2>1, DiskTypes DEF IndInv, TypeOK, HwmOK
    <2> QED BY <1>2, <2>1, <2>2, <2>3
  <1>5. acked' = acked \cup {a} /\ waiting' \subseteq waiting
    BY DEF WaitQuorum
  <1>6. p.off < file[p.node] /\ log[p.node][p.off + 1] = p.rec
    BY DEF WaitQuorum, IndInv, WaitInv
  <1>7. DiskOK' /\ Kept /\ Grows BY <1>1, DiskUntouched
  <1>8. PublishedInv'
    <2> SUFFICES ASSUME NEW b \in acked'
                 PROVE  /\ \A r \in b.replicas : b.off < Counted(r)
                        /\ b.off < file[b.node] /\ log[b.node][b.off + 1] = b.rec
      BY <1>1 DEF PublishedInv, Counted, disk
    <2>1. CASE b \in acked BY <2>1 DEF IndInv, PublishedInv
    <2>2. CASE b = a BY <1>4, <1>6, <2>2
    <2> QED BY <1>5, <2>1, <2>2
  <1>9. PubsOK'
    BY <1>1, <1>2, <1>3, <1>5 DEF IndInv, TypeOK, PubsOK, bounds
  <1>10. WaitInv' BY <1>5, <1>7, GrowsWaits DEF WaitInv
  <1>11. MetaOK' /\ LoopOK' /\ HandlersOK'
    BY <1>1 DEF IndInv, TypeOK, MetaOK, LoopOK, HandlersOK, meta, loop, net
  <1>12. HwmOK' /\ CreditInv' BY <1>1, <1>7, KeptMarks
  <1>13. StreamOK' /\ AckInv' BY <1>1, <1>7, KeptAcks DEF net
  <1>14. CallsInv' BY <1>1, <1>7, GrowsWaits DEF CallsInv, net
  <1> QED BY <1>7, <1>8, <1>9, <1>10, <1>11, <1>12, <1>13, <1>14 DEF IndInv, TypeOK

(* A crash takes memory, streams and buffers, never a file. *)
LEMMA CrashDisk ==
    ASSUME NEW n \in Nodes, IndInv, Crash(n)
    PROVE  /\ DiskOK' /\ Kept
           /\ \A m \in Nodes \ {n} : log'[m] = log[m]
           /\ Len(log'[n]) = file[n] /\ \A i \in 1..file[n] : log'[n][i] = log[n][i]
  <1>1. /\ log' = [log EXCEPT ![n] = SubSeq(@, 1, file[n])]
        /\ lost' = [lost EXCEPT ![n] = @ + Len(log[n]) - file[n]]
        /\ UNCHANGED <<file, synced, failed>>
    BY DEF Crash
  <1>2. log \in [Nodes -> Seq(Nat)] /\ lost \in [Nodes -> Nat]
    BY DEF IndInv, TypeOK, DiskOK
  <1>3. /\ log[n] \in Seq(Nat) /\ Len(log[n]) \in Nat /\ file[n] \in Nat
        /\ lost[n] \in Nat /\ file[n] <= Len(log[n])
    BY DiskTypes
  <1>4. /\ log'[n] = SubSeq(log[n], 1, file[n]) /\ lost'[n] = lost[n] + Len(log[n]) - file[n]
        /\ \A m \in Nodes \ {n} : log'[m] = log[m] /\ lost'[m] = lost[m]
    BY <1>1, <1>2
  <1>5. /\ SubSeq(log[n], 1, file[n]) \in Seq(Nat)
        /\ Len(SubSeq(log[n], 1, file[n])) = file[n]
        /\ \A i \in 1..file[n] : SubSeq(log[n], 1, file[n])[i] = log[n][i]
    BY <1>3
  <1>6. DiskOK'
    <2>1. log' \in [Nodes -> Seq(Nat)] BY <1>1, <1>2, <1>5
    <2>2. lost[n] + Len(log[n]) - file[n] \in Nat BY <1>3
    <2>3. lost' \in [Nodes -> Nat] BY <1>1, <1>2, <2>2
    <2>4. ASSUME NEW m \in Nodes PROVE synced'[m] <= file'[m] /\ file'[m] <= Len(log'[m])
      <3>1. CASE m = n BY <1>1, <1>4, <1>5, <3>1, DiskTypes
      <3>2. CASE m # n BY <1>1, <1>4, <3>2, DiskTypes
      <3> QED BY <3>1, <3>2
    <2> QED BY <1>1, <2>1, <2>3, <2>4 DEF IndInv, TypeOK, DiskOK
  <1>7. Kept
    <2> SUFFICES ASSUME NEW m \in Nodes
                 PROVE  /\ Counted(m)' = Counted(m) /\ Counted(m) \in Nat
                        /\ file[m] \in Nat /\ file'[m] = file[m]
                        /\ \A i \in 1..file[m] : log'[m][i] = log[m][i]
      BY DEF Kept
    <2>1. Counted(m) \in Nat /\ file[m] \in Nat /\ file'[m] = file[m] BY <1>1, DiskTypes
    <2>2. CASE m = n
      <3>1. Len(log'[n]) + lost'[n] = Len(log[n]) + lost[n] BY <1>3, <1>4, <1>5
      <3> QED BY <1>4, <1>5, <2>1, <2>2, <3>1 DEF Counted
    <2>3. CASE m # n BY <1>4, <2>1, <2>3 DEF Counted
    <2> QED BY <2>2, <2>3
  <1> QED BY <1>4, <1>5, <1>6, <1>7

LEMMA CrashInv == ASSUME NEW n \in Nodes, IndInv, Crash(n) PROVE IndInv'
  <1>1. UNCHANGED <<moves, overlapped, acked, records>>
    BY DEF Crash
  <1>2. /\ DiskOK' /\ Kept
        /\ \A m \in Nodes \ {n} : log'[m] = log[m]
    BY CrashDisk
  <1>3. MetaOK'
    <2>1. Len(moves) \in Nat
      BY DEF IndInv, TypeOK, MetaOK
    <2> QED BY <1>1, <2>1 DEF Crash, IndInv, TypeOK, MetaOK
  <1>4. LoopOK'
    BY DEF Crash, IndInv, TypeOK, LoopOK, NoWorker
  <1>5. HwmOK'
    BY DEF Crash, IndInv, TypeOK, HwmOK
  <1>6. CreditInv'
    <2> SUFFICES ASSUME NEW m \in Nodes, NEW r \in Nodes
                 PROVE  offsets'[m][r] <= Counted(r)'
      BY DEF CreditInv
    <2>1. offsets'[m][r] = offsets[m][r] \/ offsets'[m][r] = 0
      BY DEF Crash, IndInv, TypeOK, HwmOK
    <2>2. offsets[m][r] \in Nat /\ offsets[m][r] <= Counted(r)
      BY DEF IndInv, TypeOK, HwmOK, CreditInv
    <2> QED BY <1>2, <2>1, <2>2 DEF Kept
  <1>7. StreamOK' /\ AckInv'
    <2>1. /\ \A a, b \in Nodes : stream'[a][b] = stream[a][b] \/ stream'[a][b] = Closed
          /\ stream' \in [Nodes -> [Nodes -> Streams]]
      BY ClosedFact DEF Crash, IndInv, TypeOK, StreamOK
    <2> QED BY <1>2, <2>1, StreamsFewer
  <1>8. HandlersOK' /\ CallsInv'
    <2>1. handlers' = [f \in Nodes |-> IF f = n THEN {} ELSE Orphaned(handlers[f], n)]
      BY DEF Crash
    <2>2. CallsFewer /\ handlers' = [f \in Nodes |-> handlers'[f]]
      BY <2>1 DEF CallsFewer
    <2>3. overlapped' \in BOOLEAN BY <1>1 DEF IndInv, TypeOK, HandlersOK
    <2>4. \A f \in Nodes : handlers'[f] # {} => Len(log[f]) <= Len(log'[f])
                                                /\ Len(log'[f]) \in Nat
      BY <1>2, <2>1, DiskTypes
    <2> QED BY <2>2, <2>3, <2>4, FewerInv
  <1>9. waiting' = {p \in waiting : p.node # n} /\ faults' \in 0..MaxFaults
    BY FaultsType DEF Crash
  <1>10. PubsOK'
    BY <1>1, <1>9 DEF IndInv, TypeOK, PubsOK
  <1>11. WaitInv'
    <2> SUFFICES ASSUME NEW p \in waiting, p.node # n
                 PROVE  /\ p.off < Len(log'[p.node]) /\ log'[p.node][p.off + 1] = p.rec
                        /\ p.pc = "quorum" => p.off < file'[p.node]
      BY <1>9 DEF WaitInv
    <2>1. p.node \in Nodes BY DEF IndInv, TypeOK, PubsOK
    <2>2. log'[p.node] = log[p.node] BY <1>2, <2>1
    <2>3. file' = file BY DEF Crash
    <2> QED BY <2>2, <2>3 DEF IndInv, WaitInv
  <1>12. PublishedInv'
    BY <1>1, <1>2, KeptPublished
  <1> QED BY <1>2, <1>3, <1>4, <1>5, <1>6, <1>7, <1>8, <1>10, <1>11, <1>12 DEF IndInv, TypeOK

(* A restarted broker is credited with the log it finds. *)
LEMMA RestartInv ==
    ASSUME NEW n \in Nodes, IndInv, Restart(n) PROVE IndInv'
  <1>1. UNCHANGED <<meta, log, file, lost, loop, tracked, net, pubs, bounds>>
    BY DEF Restart
  <1>2. MetaOK'
    BY <1>1 DEF Restart, IndInv, TypeOK, MetaOK, meta
  <1>3. LoopOK' /\ HandlersOK' /\ PubsOK'
    BY <1>1 DEF IndInv, TypeOK, LoopOK, HandlersOK, PubsOK, loop, net, pubs, bounds
  <1>5. DiskOK'
    <2>1. synced' = [synced EXCEPT ![n] = file[n]]
          /\ failed' = [failed EXCEPT ![n] = "none"]
      BY DEF Restart
    <2>2. file[n] \in Nat BY DiskTypes
    <2> QED BY <1>1, <2>1, <2>2 DEF IndInv, TypeOK, DiskOK
  <1>6. Kept /\ Grows BY <1>1, DiskTypes DEF Kept, Grows, Counted
  <1>7. offsets' = [offsets EXCEPT ![n][n] = file[n]]
    BY DEF Restart
  <1>8. HwmOK'
    BY <1>1, <1>7, DiskTypes DEF IndInv, TypeOK, HwmOK
  <1>9. CreditInv'
    <2> SUFFICES ASSUME NEW m \in Nodes, NEW r \in Nodes PROVE offsets'[m][r] <= Counted(r)'
      BY DEF CreditInv
    <2>1. \/ offsets'[m][r] = offsets[m][r]
          \/ r = n /\ offsets'[m][r] = file[n]
      BY <1>7 DEF IndInv, TypeOK, HwmOK
    <2>2. Counted(r)' = Counted(r) BY <1>1 DEF Counted
    <2>3. offsets[m][r] <= Counted(r) BY DEF IndInv, CreditInv
    <2> QED BY <2>1, <2>2, <2>3, DiskTypes
  <1>10. StreamOK' /\ AckInv' BY <1>1, <1>6, KeptAcks DEF net
  <1>11. CallsInv' /\ WaitInv' /\ PublishedInv'
    BY <1>1, <1>6, GrowsWaits, KeptPublished DEF CallsInv, WaitInv, net, pubs
  <1> QED BY <1>2, <1>3, <1>5, <1>8, <1>9, <1>10, <1>11 DEF IndInv, TypeOK

(* Nothing changes when nothing happens. *)
LEMMA StutterInv == ASSUME IndInv, UNCHANGED vars PROVE IndInv'
  <1>1. UNCHANGED <<disk, hwm, stream, pubs, records, faults, loop, handlers,
                    overlapped, meta, up, alive>>
    BY DEF vars, net, bounds
  <1>2. MetaOK' /\ LoopOK'
    BY <1>1 DEF IndInv, TypeOK, MetaOK, LoopOK, meta, loop
  <1> QED BY <1>1, <1>2, FaultsType, Untouched DEF IndInv, TypeOK

-----------------------------------------------------------------------------
(* Every step of the cluster keeps the invariant. *)
LEMMA NextInv == IndInv /\ [Next]_vars => IndInv'
  <1> SUFFICES ASSUME IndInv, [Next]_vars PROVE IndInv'
    OBVIOUS
  <1>1. ASSUME NEW n \in Nodes, Plan(n) \/ Publish(n) \/ Crash(n) \/ Restart(n)
        PROVE  IndInv'
    BY <1>1, PlanInv, PublishInv, CrashInv, RestartInv
  <1>2. ASSUME NEW n \in Nodes, Leadership(n) PROVE IndInv'
    BY <1>2, FsmApplyInv, TickInv, RunInv, SelfUpdateInv DEF Leadership
  <1>3. ASSUME NEW f \in Nodes, Follow(f) PROVE IndInv'
    BY <1>3, ReplicateInv, ReplicateWriteInv, ReplicateCommitInv
       DEF Follow, ReplicateAppend
  <1>4. ASSUME NEW n \in Nodes, NEW f \in Nodes,
               Gossip(n, f) \/ Session(n, f) \/ Break(n, f)
        PROVE  IndInv'
    BY <1>4, GossipInv, OpenInv, SendInv, RecvAckInv, BreakInv DEF Session
  <1>5. ASSUME NEW p \in waiting, PublishCommit(p) \/ WaitQuorum(p) PROVE IndInv'
    BY <1>5, PublishCommitInv, WaitQuorumInv
  <1>6. CASE UNCHANGED vars
    BY <1>6, StutterInv
  <1> QED BY <1>1, <1>2, <1>3, <1>4, <1>5, <1>6 DEF Next

(* The cluster never leaves the invariant. *)
THEOREM Invariance == Spec => []IndInv
  <1>1. Init => IndInv BY InitInv
  <1>2. IndInv /\ [Next]_vars => IndInv' BY NextInv
  <1> QED BY <1>1, <1>2, PTL DEF Spec

(* Type correctness of a replicated shard. *)
THEOREM TypeCorrect == Spec => []TypeOK
  <1>1. IndInv => TypeOK BY DEF IndInv
  <1> QED BY <1>1, Invariance, PTL

(* The high-water mark counts only what its replicas counted, whoever      *)
(* leads, whoever crashes, whichever append fails and however often the    *)
(* streams start over (hwm.go:8-12): it is ahead of a replica's file by no *)
(* more than the records whose append is under way, failed or was cut off; *)
(* and what was acknowledged is in the file of the broker that             *)
(* acknowledged it.                                                        *)
THEOREM HonestMark == Spec => []MarkIsHeld
  <1>1. IndInv => MarkIsHeld
    BY DEF IndInv, TypeOK, HwmOK, CreditInv, PublishedInv, MarkIsHeld
  <1> QED BY <1>1, Invariance, PTL

-----------------------------------------------------------------------------
(* One leader: the logs of the followers *)

Leads(n) == Len(moves) = 1 /\ moves[1] = n

(* Only the leader replicates, and never to itself. *)
LeadInv ==
    \A n \in Nodes : /\ worker[n].on => Leads(n)
                     /\ worker[n].started => worker[n].on
                     /\ n \notin worker[n].followers

(* The file of n has rec at off. *)
Stored(n, off, rec) == off < file[n] /\ rec = log[n][off + 1]

(* What is on a stream is in the leader's file, at its offset. *)
WireInv ==
    \A n, f \in Nodes : stream[n][f].open =>
        /\ Leads(n) /\ n # f
        /\ \A i \in 1..Len(stream[n][f].wire) :
               Stored(n, stream[n][f].wire[i].off, stream[n][f].wire[i].rec)

(* The one Replicate call of a follower between Tail and Append holds the  *)
(* record the follower lacks next.                                         *)
CallInv ==
    \A f \in Nodes : \A h \in handlers[f] :
        /\ Len(moves) = 1 /\ moves[1] # f
        /\ h.pc = "write" => /\ \A g \in handlers[f] : g.pc = "write" => g.rec = h.rec
                             /\ Stored(moves[1], Len(log[f]), h.rec)

(* And no second one. *)
LoneInv ==
    \A f \in Nodes : \A g, h \in handlers[f] : g.pc = "write" /\ h.pc = "write" => g = h

Behind(m, n) == PrefixOf(log[m], log[n], file[n])

LogsInv ==
    /\ Len(moves) = 0 => \A n \in Nodes : log[n] = <<>>
    /\ Len(moves) = 1 => \A n \in Nodes \ {moves[1]} : Behind(n, moves[1])

Undisturbed == Len(moves) <= 1 /\ ~overlapped

OneLeader == Undisturbed => LeadInv /\ WireInv /\ CallInv /\ LoneInv /\ LogsInv

(* An empty cluster has no leader, no stream and no record. *)
LEMMA OneLeaderInit == Init => OneLeader
  BY DEF Init, OneLeader, LeadInv, WireInv, CallInv, LoneInv, LogsInv, NoWorker, Closed

(* What a file has at an offset stays there. *)
LEMMA StoredKept ==
    ASSUME Kept, NEW n \in Nodes, NEW off \in Nat, NEW rec, Stored(n, off, rec)
    PROVE  off < file'[n] /\ rec = log'[n][off + 1]
  <1>1. off + 1 \in 1..file[n] BY DEF Stored, Kept
  <1> QED BY <1>1 DEF Stored, Kept

(* Streams that lose entries, or carry only what their leader holds, keep  *)
(* carrying what their leader holds.                                       *)
LEMMA WireKept ==
    ASSUME IndInv, IndInv', WireInv, Kept, moves' = moves,
           \A n, f \in Nodes : stream'[n][f].open =>
               /\ Leads(n) /\ n # f
               /\ \A i \in 1..Len(stream'[n][f].wire) :
                     \/ Stored(n, stream'[n][f].wire[i].off, stream'[n][f].wire[i].rec)
                     \/ stream[n][f].open /\ \E j \in 1..Len(stream[n][f].wire) :
                            stream'[n][f].wire[i] = stream[n][f].wire[j]
    PROVE  WireInv'
  <1> SUFFICES ASSUME NEW n \in Nodes, NEW f \in Nodes, stream'[n][f].open,
                      NEW i \in 1..Len(stream'[n][f].wire)
               PROVE  LET e == stream'[n][f].wire[i]
                      IN  e.off < file'[n] /\ e.rec = log'[n][e.off + 1]
    BY DEF WireInv, Leads, Stored
  <1>1. stream'[n][f].wire \in Seq(Entries)
    BY DEF IndInv, TypeOK, StreamOK, Streams
  <1>2. PICK e \in Entries : e = stream'[n][f].wire[i]
    BY <1>1
  <1>3. Stored(n, e.off, e.rec)
    <2>1. CASE Stored(n, stream'[n][f].wire[i].off, stream'[n][f].wire[i].rec)
      BY <1>2, <2>1
    <2>2. ASSUME stream[n][f].open, NEW j \in 1..Len(stream[n][f].wire),
                 stream'[n][f].wire[i] = stream[n][f].wire[j]
          PROVE  Stored(n, e.off, e.rec)
      <3>1. e = stream[n][f].wire[j] BY <1>2, <2>2
      <3>2. Stored(n, stream[n][f].wire[j].off, stream[n][f].wire[j].rec)
        BY <2>2 DEF WireInv
      <3> QED BY <3>1, <3>2
    <2> QED BY <2>1, <2>2
  <1>4. e.off \in Nat BY DEF Entries
  <1> QED BY <1>2, <1>3, <1>4, StoredKept

(* In particular when no stream gets an entry. *)
LEMMA WireFewer ==
    ASSUME IndInv, IndInv', WireInv, Kept, moves' = moves,
           \A a, b \in Nodes : stream'[a][b].open =>
               stream[a][b].open /\ stream'[a][b].wire = stream[a][b].wire
    PROVE  WireInv'
  <1>1. \A a, b \in Nodes : stream'[a][b].open =>
            /\ Leads(a) /\ a # b
            /\ \A i \in 1..Len(stream'[a][b].wire) :
                  \/ Stored(a, stream'[a][b].wire[i].off, stream'[a][b].wire[i].rec)
                  \/ stream[a][b].open /\ \E j \in 1..Len(stream[a][b].wire) :
                         stream'[a][b].wire[i] = stream[a][b].wire[j]
    BY DEF WireInv
  <1> QED BY <1>1, WireKept

(* A step that writes no record on a follower leaves the calls there as    *)
(* they were, cut off from their streams or ended.                         *)
LEMMA CallKept ==
    ASSUME IndInv, CallInv, LoneInv, Kept, moves' = moves, CallsFewer,
           \A f \in Nodes : f = moves[1] \/ log'[f] = log[f] \/ handlers'[f] = {}
    PROVE  CallInv' /\ LoneInv'
  <1>1. ASSUME NEW f \in Nodes, NEW g \in handlers'[f]
        PROVE  /\ Len(moves) = 1 /\ moves[1] # f
               /\ g.pc = "write" =>
                    /\ \A h \in handlers'[f] : h.pc = "write" => h.rec = g.rec
                    /\ Len(log'[f]) < file'[moves[1]]
                    /\ g.rec = log'[moves[1]][Len(log'[f]) + 1]
    <2>1. PICK o \in handlers[f] : g.rec = o.rec /\ g.pc = o.pc BY FewerFact
    <2>2. Len(moves) = 1 /\ moves[1] # f BY DEF CallInv
    <2>3. moves[1] \in Nodes BY <2>2 DEF IndInv, TypeOK, MetaOK
    <2>4. ASSUME g.pc = "write"
          PROVE  /\ \A h \in handlers'[f] : h.pc = "write" => h.rec = g.rec
                 /\ Len(log'[f]) < file'[moves[1]]
                 /\ g.rec = log'[moves[1]][Len(log'[f]) + 1]
      <3>1. log'[f] = log[f] BY <2>2
      <3>2. Stored(moves[1], Len(log[f]), o.rec) BY <2>1, <2>4 DEF CallInv
      <3>3. Len(log[f]) < file'[moves[1]] /\ o.rec = log'[moves[1]][Len(log[f]) + 1]
        BY <2>3, <3>2, DiskTypes, StoredKept
      <3>4. ASSUME NEW h \in handlers'[f], h.pc = "write" PROVE h.rec = g.rec
        <4>1. PICK p \in handlers[f] : h.rec = p.rec /\ h.pc = p.pc BY FewerFact
        <4>2. o.pc = "write" /\ p.pc = "write" BY <2>1, <2>4, <3>4, <4>1
        <4>3. p.rec = o.rec BY <4>2 DEF CallInv
        <4> QED BY <2>1, <4>1, <4>3
      <3> QED BY <2>1, <3>1, <3>3, <3>4
    <2> QED BY <2>2, <2>4
  <1>2. CallInv' BY <1>1 DEF CallInv, Stored
  <1>3. LoneInv'
    <2> SUFFICES ASSUME NEW f \in Nodes, NEW g \in handlers'[f], NEW h \in handlers'[f],
                        g.pc = "write", h.pc = "write"
                 PROVE  g = h
      BY DEF LoneInv
    <2>1. CASE handlers'[f] \subseteq handlers[f] BY <2>1 DEF LoneInv
    <2>2. ASSUME NEW n \in Nodes, handlers'[f] = Orphaned(handlers[f], n) PROVE g = h
      <3>1. PICK o \in handlers[f] :
                g = [from |-> o.from, rec |-> o.rec, live |-> o.live /\ o.from # n,
                     pc |-> o.pc, off |-> o.off]
        BY <2>2 DEF Orphaned
      <3>2. PICK p \in handlers[f] :
                h = [from |-> p.from, rec |-> p.rec, live |-> p.live /\ p.from # n,
                     pc |-> p.pc, off |-> p.off]
        BY <2>2 DEF Orphaned
      <3>3. o.pc = "write" /\ p.pc = "write" BY <3>1, <3>2, Zenon
      <3>4. o = p BY <3>3 DEF LoneInv
      <3> QED BY <3>1, <3>2, <3>4, Zenon
    <2> QED BY <2>1, <2>2 DEF CallsFewer
  <1> QED BY <1>2, <1>3

(* Nor does it put a follower ahead of its leader. *)
LEMMA LogsKept ==
    ASSUME IndInv, IndInv', LogsInv, Kept, moves' = moves,
           Len(moves) = 0 => log' = log,
           \A m \in Nodes : \/ m = moves[1]
                            \/ log'[m] = log[m]
                            \/ /\ Len(log'[m]) <= Len(log[m])
                               /\ \A i \in 1..Len(log'[m]) : log'[m][i] = log[m][i]
    PROVE  LogsInv'
  <1>1. Len(moves) = 0 => \A n \in Nodes : log'[n] = <<>> BY DEF LogsInv
  <1>2. ASSUME Len(moves) = 1, NEW m \in Nodes \ {moves[1]}
        PROVE  Len(log'[m]) <= file'[moves[1]]
               /\ \A i \in 1..Len(log'[m]) : log'[m][i] = log'[moves[1]][i]
    <2>1. moves[1] \in Nodes
      <3>1. moves \in Seq(Nodes) /\ 1 \in 1..Len(moves)
        BY <1>2 DEF IndInv, TypeOK, MetaOK
      <3> QED BY <3>1
    <2>2. Len(log[m]) <= file[moves[1]] /\ \A i \in 1..Len(log[m]) : log[m][i] = log[moves[1]][i]
      BY <1>2 DEF LogsInv, Behind, PrefixOf
    <2>3. /\ Len(log'[m]) <= Len(log[m])
          /\ \A i \in 1..Len(log'[m]) : log'[m][i] = log[m][i]
      BY <1>2, DiskTypes
    <2>4. /\ Len(log[m]) \in Nat /\ Len(log'[m]) \in Nat
          /\ file[moves[1]] \in Nat /\ file'[moves[1]] \in Nat
          /\ file[moves[1]] <= file'[moves[1]]
          /\ \A i \in 1..file[moves[1]] : log'[moves[1]][i] = log[moves[1]][i]
      <3>1. log'[m] \in Seq(Nat) BY DEF IndInv, TypeOK, DiskOK
      <3>2. Len(log'[m]) \in Nat BY <3>1
      <3>3. Len(log[m]) \in Nat BY DiskTypes
      <3> QED BY <2>1, <3>2, <3>3 DEF Kept
    <2>5. Len(log'[m]) <= file'[moves[1]] BY <2>2, <2>3, <2>4
    <2>6. ASSUME NEW i \in 1..Len(log'[m]) PROVE log'[m][i] = log'[moves[1]][i]
      <3>1. i \in 1..Len(log[m]) /\ i \in 1..file[moves[1]] BY <2>2, <2>3, <2>4
      <3> QED BY <2>2, <2>3, <2>4, <3>1
    <2> QED BY <2>5, <2>6
  <1> QED BY <1>1, <1>2 DEF LogsInv, Behind, PrefixOf

(* A step that leaves the shard's data alone *)
LEMMA OneLeaderKept ==
    ASSUME IndInv, IndInv', OneLeader, Kept,
           UNCHANGED <<moves, log, stream, handlers, overlapped>>,
           \A n \in Nodes : \/ worker'[n] = worker[n]
                            \/ worker[n].on /\ worker'[n] = [worker[n] EXCEPT !.started = TRUE]
    PROVE  OneLeader'
  <1> SUFFICES ASSUME Undisturbed
               PROVE  LeadInv' /\ WireInv' /\ CallInv' /\ LoneInv' /\ LogsInv'
    BY DEF OneLeader, Undisturbed
  <1>1. LeadInv /\ WireInv /\ CallInv /\ LoneInv /\ LogsInv BY DEF OneLeader
  <1>2. LeadInv'
    <2>1. worker \in [Nodes -> [on : BOOLEAN, started : BOOLEAN, followers : SUBSET Nodes]]
      BY DEF IndInv, TypeOK, LoopOK
    <2>2. ASSUME NEW n \in Nodes
          PROVE  /\ worker'[n].on = worker[n].on
                 /\ worker'[n].followers = worker[n].followers
                 /\ worker'[n].started => worker[n].started \/ worker[n].on
      <3>1. CASE worker'[n] = worker[n] BY <3>1
      <3>2. CASE worker[n].on /\ worker'[n] = [worker[n] EXCEPT !.started = TRUE]
        BY <2>1, <3>2
      <3> QED BY <3>1, <3>2
    <2> QED BY <1>1, <2>2 DEF LeadInv, Leads
  <1>3. WireInv' BY <1>1, WireFewer
  <1>4. CallInv' /\ LoneInv' BY <1>1, CallKept DEF CallsFewer
  <1>5. LogsInv' BY <1>1, LogsKept
  <1> QED BY <1>2, <1>3, <1>4, <1>5

(* The shard gets its first leader while every log is empty. *)
LEMMA PlanLead ==
    ASSUME NEW p \in Nodes, IndInv, OneLeader, Plan(p) PROVE OneLeader'
  <1> SUFFICES ASSUME Undisturbed'
               PROVE  LeadInv' /\ WireInv' /\ CallInv' /\ LoneInv' /\ LogsInv'
    BY DEF OneLeader
  <1>1. UNCHANGED <<log, file, stream, handlers, overlapped, worker>>
    BY DEF Plan, loop, net, disk
  <1>2. Len(moves) = 0 /\ Len(moves') = 1
    BY DEF Plan, Undisturbed, IndInv, TypeOK, MetaOK
  <1>3. LeadInv /\ WireInv /\ CallInv /\ LoneInv /\ LogsInv
    BY <1>1, <1>2 DEF OneLeader, Undisturbed
  <1>4. /\ \A n \in Nodes : ~worker[n].on /\ log[n] = <<>> /\ handlers[n] = {}
        /\ \A n, f \in Nodes : ~stream[n][f].open
    BY <1>2, <1>3 DEF LeadInv, WireInv, CallInv, LogsInv, Leads
  <1>5. LeadInv' BY <1>1, <1>3, <1>4 DEF LeadInv
  <1>6. WireInv' /\ CallInv' /\ LoneInv' BY <1>1, <1>4 DEF WireInv, CallInv, LoneInv
  <1>7. moves'[1] \in Nodes
    BY <1>2 DEF Plan, IndInv, TypeOK, MetaOK
  <1>8. \A n \in Nodes : Len(log[n]) = 0 /\ file[n] \in Nat BY <1>4, DiskTypes
  <1>9. LogsInv' BY <1>1, <1>2, <1>4, <1>7, <1>8 DEF LogsInv, Behind, PrefixOf
  <1> QED BY <1>5, <1>6, <1>9

(* While the shard has one leader, only that broker takes itself for it. *)
LEMMA OneLeaderOnly ==
    ASSUME NEW n \in Nodes, IndInv, Undisturbed PROVE ShardLeader(n) = n => Leads(n)
  <1> SUFFICES ASSUME ShardLeader(n) = n PROVE Leads(n)
    OBVIOUS
  <1>1. applied[n] \in 0..Len(moves) /\ Len(moves) \in Nat /\ None # n
    BY ReplicationAssumption DEF IndInv, TypeOK, MetaOK
  <1>2. applied[n] # 0 /\ moves[applied[n]] = n BY <1>1 DEF ShardLeader
  <1>3. Len(moves) <= 1 BY DEF Undisturbed
  <1>4. applied[n] = 1 /\ Len(moves) = 1
    <2> DEFINE a == applied[n]
               k == Len(moves)
    <2>1. a \in 0..k /\ k \in Nat /\ a # 0 /\ k <= 1 BY <1>1, <1>2, <1>3
    <2> HIDE DEF a, k
    <2>2. a = 1 /\ k = 1 BY <2>1
    <2> QED BY <2>2 DEF a, k
  <1> QED BY <1>2, <1>4 DEF Leads

(* A tick starts replication only on the leader, to others than itself. *)
LEMMA TickLead ==
    ASSUME NEW n \in Nodes, IndInv, IndInv', OneLeader, Tick(n) PROVE OneLeader'
  <1>1. UNCHANGED <<moves, disk, log, overlapped>>
    BY DEF Tick, meta, disk
  <1> SUFFICES ASSUME Undisturbed
               PROVE  LeadInv' /\ WireInv' /\ CallInv' /\ LoneInv' /\ LogsInv'
    BY <1>1 DEF OneLeader, Undisturbed
  <1>2. LeadInv /\ WireInv /\ CallInv /\ LoneInv /\ LogsInv BY DEF OneLeader
  <1>3. ShardLeader(n) = n => Leads(n) BY OneLeaderOnly
  <1>4. \A m \in Nodes :
            \/ worker'[m] = worker[m] \/ worker'[m] = NoWorker
            \/ /\ m = n /\ ShardLeader(n) = n
               /\ worker'[m] = [on |-> TRUE, started |-> FALSE, followers |-> alive[n] \ {n}]
    BY DEF Tick, IndInv, TypeOK, LoopOK
  <1>5. LeadInv'
    BY <1>1, <1>2, <1>3, <1>4 DEF LeadInv, Leads, NoWorker
  <1>6. \A a, b \in Nodes : stream'[a][b] = stream[a][b] \/ stream'[a][b] = Closed
    BY DEF Tick, IndInv, TypeOK, StreamOK
  <1>7. Kept BY <1>1, DiskUntouched
  <1>8. WireInv'
    <2>1. \A a, b \in Nodes : stream'[a][b].open =>
              stream[a][b].open /\ stream'[a][b].wire = stream[a][b].wire
      BY <1>6 DEF Closed
    <2> QED BY <1>1, <1>2, <1>7, <2>1, WireFewer
  <1>9. CallInv' /\ LoneInv'
    <2>1. \/ handlers' = handlers
          \/ handlers' = [f \in Nodes |-> Orphaned(handlers[f], n)]
      BY DEF Tick
    <2>2. CallsFewer BY <2>1 DEF CallsFewer
    <2> QED BY <1>1, <1>2, <1>7, <2>2, CallKept
  <1> QED BY <1>1, <1>2, <1>5, <1>7, <1>8, <1>9, LogsKept


(* A session opens on the leader, to another broker, and carries nothing. *)
LEMMA OpenLead ==
    ASSUME NEW n \in Nodes, NEW f \in Nodes, IndInv, IndInv', OneLeader,
           OpenReplicate(n, f)
    PROVE  OneLeader'
  <1>1. UNCHANGED <<moves, disk, log, overlapped, worker, handlers>>
    BY DEF OpenReplicate, meta, loop, disk
  <1> SUFFICES ASSUME Undisturbed
               PROVE  LeadInv' /\ WireInv' /\ CallInv' /\ LoneInv' /\ LogsInv'
    BY <1>1 DEF OneLeader, Undisturbed
  <1>2. LeadInv /\ WireInv /\ CallInv /\ LoneInv /\ LogsInv BY DEF OneLeader
  <1>3. Leads(n) /\ n # f BY <1>2 DEF OpenReplicate, LeadInv
  <1>4. \A a, b \in Nodes : \/ stream'[a][b] = stream[a][b]
                            \/ a = n /\ b = f /\ stream'[a][b] = Opened
    BY DEF OpenReplicate, IndInv, TypeOK, StreamOK
  <1>5. WireInv'
    BY <1>1, <1>2, <1>3, <1>4 DEF WireInv, Leads, Opened, Stored, disk
  <1>6. Kept BY <1>1, DiskUntouched
  <1>7. CallInv' /\ LoneInv' BY <1>1, <1>2, <1>6, CallKept DEF CallsFewer
  <1>8. LeadInv' BY <1>1, <1>2 DEF LeadInv, Leads
  <1>9. LogsInv' BY <1>1, <1>2, <1>6, LogsKept
  <1> QED BY <1>5, <1>7, <1>8, <1>9

(* What the leader sends is the record of its file at that offset. *)
LEMMA SendLead ==
    ASSUME NEW n \in Nodes, NEW f \in Nodes, IndInv, IndInv', OneLeader, Send(n, f)
    PROVE  OneLeader'
  <1>1. UNCHANGED <<moves, disk, log, overlapped, worker, handlers>>
    BY DEF Send, meta, loop, disk
  <1> SUFFICES ASSUME Undisturbed
               PROVE  LeadInv' /\ WireInv' /\ CallInv' /\ LoneInv' /\ LogsInv'
    BY <1>1 DEF OneLeader, Undisturbed
  <1>2. LeadInv /\ WireInv /\ CallInv /\ LoneInv /\ LogsInv BY DEF OneLeader
  <1>3. PICK s \in Streams : s = stream[n][f]
    BY DEF IndInv, TypeOK, StreamOK
  <1> DEFINE e == [off |-> s.next, rec |-> log[n][s.next + 1]]
             t == [open |-> TRUE, live |-> s.live, next |-> s.next + 1, acks |-> s.acks,
                   wire |-> Append(s.wire, e)]
  <1>4. /\ s.open /\ s.next < IF s.live THEN synced[n] ELSE file[n]
        /\ stream' = [stream EXCEPT ![n][f] = t]
    BY <1>3 DEF Send
  <1>5. /\ s.next \in Nat /\ s.wire \in Seq(Entries) /\ log[n] \in Seq(Nat)
        /\ Len(s.wire) \in Nat /\ Len(log[n]) \in Nat /\ file[n] \in Nat
        /\ synced[n] \in Nat /\ synced[n] <= file[n] /\ file[n] <= Len(log[n])
    BY DiskTypes DEF Streams
  <1>6. s.next < file[n] /\ s.next + 1 \in 1..Len(log[n]) BY <1>4, <1>5
  <1>7. e \in Entries /\ Stored(n, e.off, e.rec)
    BY <1>5, <1>6 DEF Entries, Stored
  <1> HIDE DEF e
  <1>8. /\ Len(t.wire) = Len(s.wire) + 1 /\ t.wire[Len(s.wire) + 1] = e
        /\ \A i \in 1..Len(s.wire) : t.wire[i] = s.wire[i]
    BY <1>5, <1>7
  <1>9. \A i \in 1..Len(t.wire) :
            t.wire[i] = e \/ \E j \in 1..Len(s.wire) : t.wire[i] = s.wire[j]
    BY <1>5, <1>8
  <1> HIDE DEF t
  <1>10. \A a, b \in Nodes : \/ stream'[a][b] = stream[a][b]
                             \/ a = n /\ b = f /\ stream'[a][b] = t
    BY <1>4 DEF IndInv, TypeOK, StreamOK
  <1>11. Leads(n) /\ n # f BY <1>2, <1>3, <1>4 DEF WireInv
  <1>12. \A a, b \in Nodes : stream'[a][b].open =>
            /\ Leads(a) /\ a # b
            /\ \A i \in 1..Len(stream'[a][b].wire) :
                  \/ Stored(a, stream'[a][b].wire[i].off, stream'[a][b].wire[i].rec)
                  \/ stream[a][b].open /\ \E j \in 1..Len(stream[a][b].wire) :
                         stream'[a][b].wire[i] = stream[a][b].wire[j]
    <2> TAKE a, b \in Nodes
    <2>1. CASE stream'[a][b] = stream[a][b] BY <1>2, <2>1 DEF WireInv
    <2>2. CASE a = n /\ b = f /\ stream'[a][b] = t
      BY <1>3, <1>4, <1>7, <1>9, <1>11, <2>2
    <2> QED BY <1>10, <2>1, <2>2
  <1>13. Kept BY <1>1, DiskUntouched
  <1>14. WireInv' BY <1>1, <1>2, <1>12, <1>13, WireKept
  <1>15. CallInv' /\ LoneInv' BY <1>1, <1>2, <1>13, CallKept DEF CallsFewer
  <1>16. LeadInv' BY <1>1, <1>2 DEF LeadInv, Leads
  <1>17. LogsInv' BY <1>1, <1>2, <1>13, LogsKept
  <1> QED BY <1>14, <1>15, <1>16, <1>17

(* Acknowledgements, the end of a backfill and broken streams put nothing  *)
(* on a stream.                                                            *)
LEMMA StreamLead ==
    ASSUME NEW n \in Nodes, NEW f \in Nodes, IndInv, IndInv', OneLeader,
           RecvAck(n, f) \/ Break(n, f) \/ BackfillEnds(n, f)
    PROVE  OneLeader'
  <1>1. UNCHANGED <<moves, disk, log, overlapped, worker>>
    BY DEF RecvAck, Break, BackfillEnds, meta, loop, disk
  <1> SUFFICES ASSUME Undisturbed
               PROVE  LeadInv' /\ WireInv' /\ CallInv' /\ LoneInv' /\ LogsInv'
    BY <1>1 DEF OneLeader, Undisturbed
  <1>2. LeadInv /\ WireInv /\ CallInv /\ LoneInv /\ LogsInv BY DEF OneLeader
  <1>3. \A a, b \in Nodes : stream'[a][b].open =>
            stream[a][b].open /\ stream'[a][b].wire = stream[a][b].wire
    <2>1. stream \in [Nodes -> [Nodes -> Streams]] BY DEF IndInv, TypeOK, StreamOK
    <2>2. \E t : /\ stream' = [stream EXCEPT ![n][f] = t]
                 /\ ~t.open \/ (t.wire = stream[n][f].wire /\ stream[n][f].open)
      <3>1. CASE RecvAck(n, f)
        <4>1. \A k : Carrying(stream[n][f], stream[n][f].wire, k).wire = stream[n][f].wire
          BY DEF Carrying
        <4> QED BY <3>1, <4>1 DEF RecvAck
      <3>2. CASE Break(n, f)
        <4>1. ~Closed.open BY DEF Closed
        <4> QED BY <3>2, <4>1 DEF Break
      <3>3. CASE BackfillEnds(n, f)
        <4>1. PICK s \in Streams : s = stream[n][f] BY <2>1
        <4>2. [s EXCEPT !.live = TRUE].wire = s.wire BY DEF Streams
        <4>3. stream' = [stream EXCEPT ![n][f] = [s EXCEPT !.live = TRUE]] /\ s.open
          BY <2>1, <3>3, <4>1 DEF BackfillEnds
        <4> QED BY <4>1, <4>2, <4>3
      <3> QED BY <3>1, <3>2, <3>3
    <2> QED BY <2>1, <2>2
  <1>4. Kept BY <1>1, DiskUntouched
  <1>5. WireInv' BY <1>1, <1>2, <1>3, <1>4, WireFewer
  <1>6. CallInv' /\ LoneInv'
    <2>1. CallsFewer
      BY DEF CallsFewer, RecvAck, Break, BackfillEnds, IndInv, TypeOK, HandlersOK
    <2> QED BY <1>1, <1>2, <1>4, <2>1, CallKept
  <1>7. LeadInv' BY <1>1, <1>2 DEF LeadInv, Leads
  <1>8. LogsInv' BY <1>1, <1>2, <1>4, LogsKept
  <1> QED BY <1>5, <1>6, <1>7, <1>8

(* A follower skips what it counts, takes the record it lacks next into    *)
(* its hands, and closes the stream on a gap.                              *)
LEMMA ReplicateLead ==
    ASSUME NEW n \in Nodes, NEW f \in Nodes, IndInv, IndInv', OneLeader,
           Replicate(n, f)
    PROVE  OneLeader'
  <1>1. UNCHANGED <<moves, disk, log, worker>>
    BY DEF Replicate, meta, loop, disk
  <1> SUFFICES ASSUME Undisturbed'
               PROVE  LeadInv' /\ WireInv' /\ CallInv' /\ LoneInv' /\ LogsInv'
    BY DEF OneLeader
  <1>2. Undisturbed
    <2>1. \/ overlapped' = overlapped
          \/ overlapped' = (overlapped \/ \E g \in handlers[f] : g.pc = "write")
      BY DEF Replicate
    <2>2. overlapped => overlapped' BY <2>1, Zenon
    <2> QED BY <1>1, <2>2 DEF Undisturbed
  <1>3. LeadInv /\ WireInv /\ CallInv /\ LoneInv /\ LogsInv BY <1>2 DEF OneLeader
  <1>4. PICK s \in Streams : s = stream[n][f]
    BY DEF IndInv, TypeOK, StreamOK
  <1>5. s.open /\ s.wire # <<>> /\ s.wire \in Seq(Entries) /\ Len(s.wire) \in Nat
    BY <1>4 DEF Replicate, Streams
  <1>6. PICK e \in Entries : e = Head(s.wire) /\ e = s.wire[1]
    BY <1>5
  <1>7. Leads(n) /\ n # f /\ Stored(n, e.off, e.rec)
    BY <1>3, <1>4, <1>5, <1>6 DEF WireInv
  <1>8. /\ Tail(s.wire) \in Seq(Entries) /\ Len(Tail(s.wire)) = Len(s.wire) - 1
        /\ \A i \in 1..Len(Tail(s.wire)) : Tail(s.wire)[i] = s.wire[i + 1]
    BY <1>5
  <1>9. \A i \in 1..Len(Tail(s.wire)) :
            \E j \in 1..Len(s.wire) : Tail(s.wire)[i] = s.wire[j]
    <2> TAKE i \in 1..Len(Tail(s.wire))
    <2>1. i + 1 \in 1..Len(s.wire) BY <1>5, <1>8
    <2> QED BY <1>8, <2>1
  <1>10. \A a, b \in Nodes :
            \/ stream'[a][b] = stream[a][b]
            \/ a = n /\ b = f /\ stream'[a][b].wire = Tail(s.wire)
            \/ ~stream'[a][b].open
    <2>1. \E t : /\ stream' = [stream EXCEPT ![n][f] = t]
                 /\ t.wire = Tail(s.wire) \/ ~t.open
      <3>1. \A k : Carrying(s, Tail(s.wire), k).wire = Tail(s.wire) BY DEF Carrying
      <3>2. ~Closed.open BY DEF Closed
      <3> QED BY <1>4, <3>1, <3>2 DEF Replicate
    <2> QED BY <2>1 DEF IndInv, TypeOK, StreamOK
  <1>11. \A a, b \in Nodes : stream'[a][b].open =>
            /\ Leads(a) /\ a # b
            /\ \A i \in 1..Len(stream'[a][b].wire) :
                  \/ Stored(a, stream'[a][b].wire[i].off, stream'[a][b].wire[i].rec)
                  \/ stream[a][b].open /\ \E j \in 1..Len(stream[a][b].wire) :
                         stream'[a][b].wire[i] = stream[a][b].wire[j]
    <2> TAKE a, b \in Nodes
    <2>1. CASE stream'[a][b] = stream[a][b] BY <1>3, <2>1 DEF WireInv
    <2>2. CASE a = n /\ b = f /\ stream'[a][b].wire = Tail(s.wire)
      <3>1. stream[a][b] = s /\ s.open /\ Leads(a) /\ a # b BY <1>4, <1>5, <1>7, <2>2
      <3>2. \A i \in 1..Len(stream'[a][b].wire) :
                \E j \in 1..Len(stream[a][b].wire) :
                    stream'[a][b].wire[i] = stream[a][b].wire[j]
        BY <1>9, <2>2, <3>1
      <3> QED BY <3>1, <3>2
    <2> QED BY <1>10, <2>1, <2>2
  <1>12. Kept BY <1>1, DiskUntouched
  <1>13. WireInv' BY <1>1, <1>3, <1>11, <1>12, WireKept
  <1>14. CallInv' /\ LoneInv'
    <2>1. CASE handlers' = handlers
      BY <1>1, <1>3, <1>12, <2>1, CallKept DEF CallsFewer
    <2> DEFINE h == [from |-> n, rec |-> e.rec, live |-> TRUE, pc |-> "write", off |-> 0]
    <2>2. CASE /\ ~Held(f, e) /\ e.off <= Len(log[f])
               /\ handlers' = [handlers EXCEPT ![f] = @ \cup {h}]
               /\ overlapped' = (overlapped \/ \E g \in handlers[f] : g.pc = "write")
      <3>1. \A g \in handlers[f] : g.pc # "write"
        BY <2>2, Zenon DEF Undisturbed
      <3>2. handlers'[f] = handlers[f] \cup {h} /\ \A m \in Nodes \ {f} : handlers'[m] = handlers[m]
        BY <2>2 DEF IndInv, TypeOK, HandlersOK
      <3>3. h.rec = e.rec /\ h.pc = "write" OBVIOUS
      <3> HIDE DEF h
      <3>4. e.off = Len(log[f])
        BY <2>2, DiskTypes DEF Held, Entries
      <3>5. Stored(moves[1], Len(log[f]), h.rec)
        BY <1>7, <3>3, <3>4 DEF Leads
      <3>6. Len(moves) = 1 /\ moves[1] # f BY <1>7 DEF Leads
      <3>7. \A g \in handlers'[f] : g.pc = "write" => g = h BY <3>1, <3>2
      <3>8. LoneInv' BY <1>3, <3>2, <3>7 DEF LoneInv
      <3>9. ASSUME NEW m \in Nodes, NEW g \in handlers'[m]
            PROVE  /\ Len(moves) = 1 /\ moves[1] # m
                   /\ g.pc = "write" =>
                        /\ \A k \in handlers'[m] : k.pc = "write" => k.rec = g.rec
                        /\ Stored(moves[1], Len(log[m]), g.rec)
        <4>1. CASE m = f BY <3>5, <3>6, <3>7, <4>1
        <4>2. CASE m # f BY <1>3, <3>2, <4>2 DEF CallInv
        <4> QED BY <4>1, <4>2
      <3>10. CallInv' BY <1>1, <3>9 DEF CallInv, Stored, disk
      <3> QED BY <3>8, <3>10
    <2> QED BY <1>4, <1>6, <2>1, <2>2 DEF Replicate
  <1>15. LeadInv' BY <1>1, <1>3 DEF LeadInv, Leads
  <1>16. LogsInv' BY <1>1, <1>3, <1>12, LogsKept
  <1> QED BY <1>13, <1>14, <1>15, <1>16

(* An append that fails ends its call, and the stream with it. *)
LEMMA FailsLead ==
    ASSUME NEW f \in Nodes, NEW h \in handlers[f], IndInv, IndInv', OneLeader,
           Fails(f, h), Kept, UNCHANGED <<moves, log, worker, overlapped>>
    PROVE  OneLeader'
  <1> SUFFICES ASSUME Undisturbed
               PROVE  LeadInv' /\ WireInv' /\ CallInv' /\ LoneInv' /\ LogsInv'
    BY DEF OneLeader, Undisturbed
  <1>1. LeadInv /\ WireInv /\ CallInv /\ LoneInv /\ LogsInv BY DEF OneLeader
  <1>2. handlers \in [Nodes -> SUBSET Calls] /\ h.from \in Nodes
        /\ stream \in [Nodes -> [Nodes -> Streams]]
    BY DEF IndInv, TypeOK, HandlersOK, StreamOK, Calls
  <1>3. CallsFewer BY <1>2 DEF Fails, CallsFewer
  <1>4. \A a, b \in Nodes : stream'[a][b].open =>
            stream[a][b].open /\ stream'[a][b].wire = stream[a][b].wire
    <2>1. ~Closed.open BY DEF Closed
    <2>2. \A a, b \in Nodes : stream'[a][b] = stream[a][b] \/ stream'[a][b] = Closed
      BY <1>2 DEF Fails
    <2> QED BY <2>1, <2>2
  <1>5. WireInv' BY <1>1, <1>4, WireFewer
  <1>6. CallInv' /\ LoneInv' BY <1>1, <1>3, CallKept
  <1>7. LeadInv' BY <1>1 DEF LeadInv, Leads
  <1>8. LogsInv' BY <1>1, LogsKept
  <1> QED BY <1>5, <1>6, <1>7, <1>8

(* A record written on a follower is the next one of the leader's file. *)
LEMMA ReplicateWriteLead ==
    ASSUME NEW f \in Nodes, NEW h \in handlers[f], IndInv, IndInv', OneLeader,
           ReplicateWrite(f, h)
    PROVE  OneLeader'
  <1>1. UNCHANGED <<moves, worker, overlapped>> /\ h.pc = "write"
    BY DEF ReplicateWrite, meta, loop
  <1>2. ASSUME Refuses(f), Fails(f, h), UNCHANGED disk PROVE OneLeader'
    <2>1. Kept /\ log' = log BY <1>2, DiskUntouched DEF disk
    <2> QED BY <1>1, <1>2, <2>1, FailsLead
  <1> DEFINE c == [from |-> h.from, rec |-> h.rec, live |-> h.live, pc |-> "commit",
                   off |-> Len(log[f])]
  <1>3. ASSUME Write(f, h.rec), UNCHANGED stream,
               handlers' = [handlers EXCEPT ![f] = (@ \ {h}) \cup {c}]
        PROVE  OneLeader'
    <2> SUFFICES ASSUME Undisturbed
                 PROVE  LeadInv' /\ WireInv' /\ CallInv' /\ LoneInv' /\ LogsInv'
      BY <1>1 DEF OneLeader, Undisturbed
    <2>1. LeadInv /\ WireInv /\ CallInv /\ LoneInv /\ LogsInv BY DEF OneLeader
    <2>2. h.rec \in Nat BY DEF IndInv, TypeOK, HandlersOK, Calls
    <2>3. /\ Kept /\ Len(log'[f]) = Len(log[f]) + 1 /\ log'[f][Len(log[f]) + 1] = h.rec
          /\ \A m \in Nodes \ {f} : log'[m] = log[m]
          /\ \A i \in 1..Len(log[f]) : log'[f][i] = log[f][i]
      BY <1>3, <2>2, WriteDisk DEF Grows
    <2>4. file' = file BY <1>3 DEF Write
    <2>5. c.pc = "commit" OBVIOUS
    <2> HIDE DEF c
    <2>6. /\ handlers'[f] = (handlers[f] \ {h}) \cup {c}
          /\ \A m \in Nodes \ {f} : handlers'[m] = handlers[m]
      BY <1>3 DEF IndInv, TypeOK, HandlersOK
    <2>7. \A g \in handlers'[f] : g.pc # "write"
      BY <1>1, <2>1, <2>5, <2>6 DEF LoneInv
    <2>8. LoneInv' BY <2>1, <2>6, <2>7 DEF LoneInv
    <2>9. Len(moves) = 1 /\ moves[1] # f /\ Stored(moves[1], Len(log[f]), h.rec)
      BY <1>1, <2>1 DEF CallInv
    <2>10. moves[1] \in Nodes
      <3>1. moves \in Seq(Nodes) /\ 1 \in 1..Len(moves)
        BY <2>9 DEF IndInv, TypeOK, MetaOK
      <3> QED BY <3>1
    <2>11. log'[moves[1]] = log[moves[1]] BY <2>3, <2>9, <2>10
    <2>12. CallInv'
      <3>1. ASSUME NEW m \in Nodes, NEW g \in handlers'[m]
            PROVE  /\ Len(moves) = 1 /\ moves[1] # m
                   /\ g.pc = "write" =>
                        /\ \A k \in handlers'[m] : k.pc = "write" => k.rec = g.rec
                        /\ Len(log'[m]) < file[moves[1]]
                        /\ g.rec = log[moves[1]][Len(log'[m]) + 1]
        <4>1. CASE m = f BY <2>7, <2>9, <4>1
        <4>2. CASE m # f
          <5>1. handlers'[m] = handlers[m] /\ log'[m] = log[m] BY <2>3, <2>6, <4>2
          <5> QED BY <2>1, <5>1 DEF CallInv, Stored
        <4> QED BY <4>1, <4>2
      <3> QED BY <1>1, <2>4, <2>11, <3>1 DEF CallInv, Stored
    <2>13. LogsInv'
      <3>1. \A m \in Nodes \ {moves[1]} : Behind(m, moves[1]) BY <2>1, <2>9 DEF LogsInv
      <3>2. ASSUME NEW m \in Nodes \ {moves[1]}
            PROVE  /\ Len(log'[m]) <= file[moves[1]]
                   /\ \A i \in 1..Len(log'[m]) : log'[m][i] = log[moves[1]][i]
        <4>1. CASE m # f
          <5>1. log'[m] = log[m] BY <2>3, <4>1
          <5> QED BY <3>1, <5>1 DEF Behind, PrefixOf
        <4>2. CASE m = f
          <5>1. /\ Len(log[f]) < file[moves[1]]
                /\ h.rec = log[moves[1]][Len(log[f]) + 1]
            BY <2>9 DEF Stored
          <5>2. \A i \in 1..Len(log[f]) : log[f][i] = log[moves[1]][i]
            BY <2>9, <3>1 DEF Behind, PrefixOf
          <5>3. Len(log[f]) \in Nat /\ file[moves[1]] \in Nat BY <2>10, DiskTypes
          <5>4. Len(log'[f]) <= file[moves[1]] BY <2>3, <5>1, <5>3
          <5>5. ASSUME NEW i \in 1..Len(log'[f]) PROVE log'[f][i] = log[moves[1]][i]
            <6>1. i \in 1..Len(log[f]) \/ i = Len(log[f]) + 1 BY <2>3, <5>3
            <6> QED BY <2>3, <5>1, <5>2, <6>1
          <5> QED BY <4>2, <5>4, <5>5
        <4> QED BY <4>1, <4>2
      <3> QED BY <1>1, <2>4, <2>9, <2>11, <3>2 DEF LogsInv, Behind, PrefixOf
    <2>14. WireInv' BY <1>1, <1>3, <2>1, <2>3, WireFewer
    <2>15. LeadInv' BY <1>1, <2>1 DEF LeadInv, Leads
    <2> QED BY <2>8, <2>12, <2>13, <2>14, <2>15
  <1> QED BY <1>2, <1>3 DEF ReplicateWrite

(* The end of an append leaves the log, and at most answers. *)
LEMMA ReplicateCommitLead ==
    ASSUME NEW f \in Nodes, NEW h \in handlers[f], IndInv, IndInv', OneLeader,
           ReplicateCommit(f, h)
    PROVE  OneLeader'
  <1>1. UNCHANGED <<moves, worker, overlapped>> /\ h.pc = "commit"
    BY DEF ReplicateCommit, meta, loop
  <1>2. h.off \in Nat /\ h.off < Len(log[f]) /\ h.from \in Nodes
    BY <1>1 DEF IndInv, TypeOK, HandlersOK, Calls, CallsInv
  <1>3. Kept /\ log' = log
    <2>1. PICK ok \in BOOLEAN : Commit(f, h.off, ok) BY DEF ReplicateCommit
    <2> QED BY <1>2, <2>1, CommitDisk
  <1>4. ASSUME Fails(f, h) PROVE OneLeader'
    BY <1>1, <1>3, <1>4, FailsLead
  <1> DEFINE s == stream[h.from][f]
             t == Carrying(s, s.wire, Append(s.acks, LastOffset(log[f])))
  <1>5. ASSUME handlers' = [handlers EXCEPT ![f] = @ \ {h}],
               stream' = IF h.live THEN [stream EXCEPT ![h.from][f] = t] ELSE stream
        PROVE  OneLeader'
    <2> SUFFICES ASSUME Undisturbed
                 PROVE  LeadInv' /\ WireInv' /\ CallInv' /\ LoneInv' /\ LogsInv'
      BY <1>1 DEF OneLeader, Undisturbed
    <2>1. LeadInv /\ WireInv /\ CallInv /\ LoneInv /\ LogsInv BY DEF OneLeader
    <2>2. CallsFewer BY <1>5 DEF CallsFewer, IndInv, TypeOK, HandlersOK
    <2>3. t.wire = s.wire /\ t.open = s.open BY DEF Carrying
    <2> HIDE DEF t
    <2>4. \A a, b \in Nodes : \/ stream'[a][b] = stream[a][b]
                              \/ a = h.from /\ b = f /\ stream'[a][b] = t
      <3>1. stream \in [Nodes -> [Nodes -> Streams]] BY DEF IndInv, TypeOK, StreamOK
      <3>2. CASE h.live
        <4>1. stream' = [stream EXCEPT ![h.from][f] = t] BY <1>5, <3>2
        <4> QED BY <1>2, <3>1, <4>1
      <3>3. CASE ~h.live BY <1>5, <3>3
      <3> QED BY <3>2, <3>3
    <2>5. \A a, b \in Nodes : stream'[a][b].open =>
              stream[a][b].open /\ stream'[a][b].wire = stream[a][b].wire
      BY <2>3, <2>4
    <2>6. WireInv' BY <1>1, <1>3, <2>1, <2>5, WireFewer
    <2>7. CallInv' /\ LoneInv' BY <1>1, <1>3, <2>1, <2>2, CallKept
    <2>8. LeadInv' BY <1>1, <2>1 DEF LeadInv, Leads
    <2>9. LogsInv' BY <1>1, <1>3, <2>1, LogsKept
    <2> QED BY <2>6, <2>7, <2>8, <2>9
  <1> QED BY <1>4, <1>5 DEF ReplicateCommit

(* A publish writes to the leader's log. *)
LEMMA PublishLead ==
    ASSUME NEW n \in Nodes, IndInv, IndInv', OneLeader, Publish(n) PROVE OneLeader'
  <1>1. UNCHANGED <<moves, worker, overlapped, stream, handlers>>
    BY DEF Publish, meta, loop, net
  <1> SUFFICES ASSUME Undisturbed
               PROVE  LeadInv' /\ WireInv' /\ CallInv' /\ LoneInv' /\ LogsInv'
    BY <1>1 DEF OneLeader, Undisturbed
  <1>2. LeadInv /\ WireInv /\ CallInv /\ LoneInv /\ LogsInv BY DEF OneLeader
  <1>3. records + 1 \in Nat /\ Write(n, records + 1)
    BY DEF Publish, IndInv, TypeOK, PubsOK
  <1>4. Kept /\ \A m \in Nodes \ {n} : log'[m] = log[m]
    BY <1>3, WriteDisk
  <1>5. Len(moves) = 1 /\ moves[1] = n BY OneLeaderOnly DEF Publish, Leads
  <1>6. WireInv' BY <1>1, <1>2, <1>4, WireFewer
  <1>7. CallInv' /\ LoneInv' BY <1>1, <1>2, <1>4, <1>5, CallKept DEF CallsFewer
  <1>8. LogsInv' BY <1>1, <1>2, <1>4, <1>5, LogsKept
  <1>9. LeadInv' BY <1>1, <1>2 DEF LeadInv, Leads
  <1> QED BY <1>6, <1>7, <1>8, <1>9

(* A crash ends streams and calls, and cuts a log down to its file. *)
LEMMA CrashLead ==
    ASSUME NEW n \in Nodes, IndInv, IndInv', OneLeader, Crash(n) PROVE OneLeader'
  <1>1. UNCHANGED <<moves, overlapped>>
    BY DEF Crash
  <1> SUFFICES ASSUME Undisturbed
               PROVE  LeadInv' /\ WireInv' /\ CallInv' /\ LoneInv' /\ LogsInv'
    BY <1>1 DEF OneLeader, Undisturbed
  <1>2. LeadInv /\ WireInv /\ CallInv /\ LoneInv /\ LogsInv BY DEF OneLeader
  <1>3. \A m \in Nodes : worker'[m] = worker[m] \/ worker'[m] = NoWorker
    BY DEF Crash, IndInv, TypeOK, LoopOK
  <1>4. LeadInv' BY <1>1, <1>2, <1>3 DEF LeadInv, Leads, NoWorker
  <1>5. \A a, b \in Nodes : stream'[a][b] = stream[a][b] \/ stream'[a][b] = Closed
    BY DEF Crash
  <1>6. /\ Kept /\ \A m \in Nodes \ {n} : log'[m] = log[m]
        /\ Len(log'[n]) = file[n] /\ \A i \in 1..file[n] : log'[n][i] = log[n][i]
    BY CrashDisk
  <1>7. WireInv'
    <2>1. \A a, b \in Nodes : stream'[a][b].open =>
              stream[a][b].open /\ stream'[a][b].wire = stream[a][b].wire
      BY <1>5 DEF Closed
    <2> QED BY <1>1, <1>2, <1>6, <2>1, WireFewer
  <1>8. CallInv' /\ LoneInv'
    <2>1. CallsFewer BY DEF Crash, CallsFewer
    <2>2. \A f \in Nodes : f = moves[1] \/ log'[f] = log[f] \/ handlers'[f] = {}
      BY <1>6 DEF Crash
    <2> QED BY <1>1, <1>2, <1>6, <2>1, <2>2, CallKept
  <1>9. LogsInv'
    <2>1. Len(log'[n]) <= Len(log[n])
          /\ \A i \in 1..Len(log'[n]) : log'[n][i] = log[n][i]
      BY <1>6, DiskTypes
    <2>2. Len(moves) = 0 => log' = log
      <3> SUFFICES ASSUME Len(moves) = 0 PROVE log' = log
        OBVIOUS
      <3>1. log[n] = <<>> BY <1>2 DEF LogsInv
      <3>2. log \in [Nodes -> Seq(Nat)] /\ log' \in [Nodes -> Seq(Nat)]
        BY DEF IndInv, TypeOK, DiskOK
      <3>3. log'[n] = <<>>
        <4>1. Len(log'[n]) = 0 BY <2>1, <3>1, <3>2
        <4> QED BY <3>2, <4>1
      <3> QED BY <1>6, <3>1, <3>2, <3>3
    <2> QED BY <1>1, <1>2, <1>6, <2>1, <2>2, LogsKept
  <1> QED BY <1>4, <1>7, <1>8, <1>9

(* Every step keeps the followers behind their one leader. *)
LEMMA OneLeaderNext == IndInv /\ IndInv' /\ OneLeader /\ [Next]_vars => OneLeader'
  <1> SUFFICES ASSUME IndInv, IndInv', OneLeader, [Next]_vars PROVE OneLeader'
    OBVIOUS
  <1>1. ASSUME NEW n \in Nodes, Plan(n) \/ Publish(n) \/ Crash(n) PROVE OneLeader'
    BY <1>1, PlanLead, PublishLead, CrashLead
  <1>2. ASSUME NEW n \in Nodes, Tick(n) PROVE OneLeader'
    BY <1>2, TickLead
  <1>3. ASSUME NEW f \in Nodes, Follow(f) PROVE OneLeader'
    BY <1>3, ReplicateLead, ReplicateWriteLead, ReplicateCommitLead
       DEF Follow, ReplicateAppend
  <1>4. ASSUME NEW n \in Nodes, NEW f \in Nodes, Session(n, f) \/ Break(n, f)
        PROVE  OneLeader'
    BY <1>4, OpenLead, SendLead, StreamLead DEF Session
  <1>5. worker \in [Nodes -> [on : BOOLEAN, started : BOOLEAN, followers : SUBSET Nodes]]
        /\ worker' \in [Nodes -> [on : BOOLEAN, started : BOOLEAN, followers : SUBSET Nodes]]
    BY DEF IndInv, TypeOK, LoopOK
  <1>6. ASSUME NEW n \in Nodes, run(n) PROVE OneLeader'
    <2>1. UNCHANGED <<moves, log, stream, handlers, overlapped>> /\ Kept
      BY <1>6, DiskUntouched DEF run, meta, net, disk
    <2>2. \A m \in Nodes : \/ worker'[m] = worker[m]
                           \/ worker[m].on /\ worker'[m] = [worker[m] EXCEPT !.started = TRUE]
      BY <1>5, <1>6 DEF run
    <2> QED BY <2>1, <2>2, OneLeaderKept
  <1>7. ASSUME Kept, UNCHANGED <<moves, log, stream, handlers, overlapped, worker>>
        PROVE  OneLeader'
    BY <1>7, OneLeaderKept
  <1>8. ASSUME NEW n \in Nodes, FsmApply(n) \/ selfUpdateLoop(n) PROVE OneLeader'
    <2>1. UNCHANGED disk BY <1>8 DEF FsmApply, selfUpdateLoop
    <2>2. Kept /\ log' = log BY <2>1, DiskUntouched DEF disk
    <2> QED BY <1>7, <1>8, <2>2 DEF FsmApply, selfUpdateLoop, meta, loop, net
  <1>9. ASSUME NEW n \in Nodes, Restart(n) PROVE OneLeader'
    <2>1. Kept /\ log' = log
      BY <1>9, DiskTypes DEF Restart, Kept, Counted
    <2> QED BY <1>7, <1>9, <2>1 DEF Restart, meta, loop, net
  <1>10. ASSUME NEW n \in Nodes, NEW f \in Nodes, Gossip(n, f) PROVE OneLeader'
    <2>1. Kept /\ log' = log BY <1>10, DiskUntouched DEF Gossip, disk
    <2> QED BY <1>7, <1>10, <2>1 DEF Gossip, meta, loop, net
  <1>11. ASSUME NEW p \in waiting, WaitQuorum(p) PROVE OneLeader'
    <2>1. Kept /\ log' = log BY <1>11, DiskUntouched DEF WaitQuorum, disk
    <2> QED BY <1>7, <1>11, <2>1 DEF WaitQuorum, meta, loop, net
  <1>12. ASSUME NEW p \in waiting, PublishCommit(p) PROVE OneLeader'
    <2>1. p.node \in Nodes /\ p.off \in Nat /\ p.off < Len(log[p.node])
      BY DEF IndInv, TypeOK, PubsOK, WaitInv
    <2>2. PICK ok \in BOOLEAN : Commit(p.node, p.off, ok) BY <1>12 DEF PublishCommit
    <2>3. Kept /\ log' = log BY <2>1, <2>2, CommitDisk
    <2> QED BY <1>7, <1>12, <2>3 DEF PublishCommit, meta, loop, net
  <1>13. CASE UNCHANGED vars
    <2>1. Kept /\ log' = log BY <1>13, DiskUntouched DEF vars, disk
    <2> QED BY <1>7, <1>13, <2>1 DEF vars, meta, loop, net
  <1> QED BY <1>1, <1>2, <1>3, <1>4, <1>6, <1>8, <1>9, <1>10, <1>11, <1>12, <1>13
         DEF Next, Leadership

(* While the shard has one leader and no two Replicate calls of a broker   *)
(* meet between Tail and Append, re-streaming from offset 0, skipping what *)
(* is counted and refusing gaps (transport/server.go:28-37) keep every     *)
(* follower's log a prefix of the leader's file, across broken streams,    *)
(* failed appends, suspicions, new workers, crashes and restarts.          *)
THEOREM FollowersFollow == Spec => []FollowersArePrefixes
  <1>1. OneLeader => FollowersArePrefixes
    BY DEF OneLeader, Undisturbed, LogsInv, Behind, FollowersArePrefixes
  <1> QED BY <1>1, OneLeaderInit, OneLeaderNext, Invariance, PTL DEF Spec

=============================================================================
