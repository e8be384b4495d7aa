--------------------------- MODULE ClusterControl ---------------------------
(***************************************************************************)
(* How a cluster of brokers comes to know its members, its number of       *)
(* shards and their leaders: Start and bootstrapAndAssign with the loops   *)
(* it leaves running (cluster.go), the assigner, the metadata state        *)
(* machine with snapshots and restarts, gossip, the routing of a session   *)
(* and the redirect an SDK client follows once.                            *)
(*                                                                         *)
(* The Raft library is one committed log, which a broker applies at its    *)
(* own pace; at most one broker can commit.  The memberlist library is a   *)
(* set of brokers each one takes for alive.  Module Replication starts     *)
(* where this one ends.                                                    *)
(***************************************************************************)
EXTENDS Integers, Sequences, FiniteSets

CONSTANTS Nodes,
          None,
          NodeOrder,    \* Nodes, as sort.Strings sorts their ids
          Configs       \* how the cluster is set up and used: see Config

(* A peer in the configuration of a broker: whether it has a client        *)
(* address and an address for gossip, which is dialed at the Raft port     *)
(* otherwise.  The flag --peers gives the id and the Raft address.         *)
Peer == [clientAddr : BOOLEAN, gossipAddr : BOOLEAN]
ParsePeers == [clientAddr |-> FALSE, gossipAddr |-> FALSE]

(* brokers: the configured peers.  shards: defaultShardCount, which is 32. *)
(* peer: what is known of each peer.  joined: gossip has converged before  *)
(* a Raft leader is there.  candidates: the brokers that Raft elects.      *)
(* faulty: the brokers that take snapshots and crash.                      *)
(* The rest bounds one scenario: elections after the first, crashes,       *)
(* restarts, snapshots, live brokers suspected, and commands that commit   *)
(* though Apply returned an error.                                         *)
Config ==
    [brokers : SUBSET Nodes, shards : Nat \ {0},
     peer : Peer, joined : BOOLEAN,
     candidates : SUBSET Nodes, faulty : SUBSET Nodes,
     elections : Nat, crashes : Nat, restarts : Nat, snapshots : Nat,
     suspicions : Nat, timeouts : Nat]

ASSUME ClusterAssumption ==
    /\ None \notin Nodes
    /\ NodeOrder \in Seq(Nodes) /\ Len(NodeOrder) = Cardinality(Nodes)
    /\ \A n \in Nodes : \E i \in 1 .. Len(NodeOrder) : NodeOrder[i] = n
    /\ Configs \subseteq Config

VARIABLES
    conf,      \* the scenario, fixed
    up,        \* brokers that run
    raft,      \* the broker that can commit, or None
    log,       \* committed commands
    fsm,       \* [Nodes -> the state machine]
    applied,   \* [Nodes -> commands it has applied]
    snap,      \* [Nodes -> the last snapshot: state and index]
    alive,     \* [Nodes -> brokers its gossip reports alive]
    boot,      \* [Nodes -> where bootstrapAndAssign is]
    todo,      \* [Nodes -> peers it still registers]
    plan,      \* [Nodes -> the call of Plan in progress]
    spent      \* how much of each bound of conf was used

raftVars  == <<raft, log, fsm, applied, snap>>
nodeVars  == <<boot, todo, plan>>
vars == <<conf, up, raftVars, alive, nodeVars, spent>>

Shards == 0 .. conf.shards - 1

NewFSM == [members |-> {}, leaders |-> [s \in Shards |-> None], count |-> 0]
NoPlan == [on |-> FALSE, shard |-> 0, leaders |-> NewFSM.leaders, alive |-> <<>>, next |-> 0]
Bounds == {"elections", "crashes", "restarts", "snapshots", "suspicions", "timeouts"}

Init ==
    /\ conf \in Configs /\ up = conf.brokers /\ raft = None /\ log = <<>>
    /\ fsm = [n \in Nodes |-> NewFSM] /\ applied = [n \in Nodes |-> 0]
    /\ snap = [n \in Nodes |-> [state |-> NewFSM, index |-> 0]]
    /\ alive = [n \in Nodes |-> IF conf.joined THEN conf.brokers ELSE {n}]
    /\ boot = [n \in Nodes |-> "wait"] /\ todo = [n \in Nodes |-> {}]
    /\ plan = [n \in Nodes |-> NoPlan]
    /\ spent = [b \in Bounds |-> 0]

Spend(b) == spent[b] < conf[b] /\ spent' = [spent EXCEPT ![b] = @ + 1]

-----------------------------------------------------------------------------
(* The metadata state machine *)

RegisterMember(n) == [op |-> "register_member", node |-> n, shard |-> 0]
SetShardLeader(s, n) == [op |-> "set_shard_leader", node |-> n, shard |-> s]
SetShardCount(k) == [op |-> "set_shard_count", node |-> None, shard |-> k]

(* FSM.Apply.  members has the brokers whose client address is known:      *)
(* add_member keeps the one there is.  No code issues add_member or        *)
(* remove_member: Commands has the other three.                            *)
FsmApply(f, c) ==
    CASE c.op = "add_member" -> f
      [] c.op = "register_member" -> [f EXCEPT !.members = @ \cup {c.node}]
      [] c.op = "remove_member" ->
            [f EXCEPT !.members = @ \ {c.node},
                      !.leaders = [s \in DOMAIN @ |-> IF @[s] = c.node THEN None ELSE @[s]]]
      [] c.op = "set_shard_leader" -> [f EXCEPT !.leaders[c.shard] = c.node]
      [] c.op = "set_shard_count" -> [f EXCEPT !.count = c.shard]

(* f after the commands i + 1 .. j of cs *)
After(f, cs, i, j) ==
    LET g[k \in i .. j] == IF k = i THEN f ELSE FsmApply(g[k - 1], cs[k])
    IN  g[j]

(* Mutant: the snapshot has the members only. *)
SnapshotOfMembers(f) == [NewFSM EXCEPT !.members = f.members]

(* Snapshot, and Restore of its version, 2; nothing writes the version 1   *)
(* that Restore also reads.                                                *)
Snapshot(f) == [members |-> f.members, leaders |-> f.leaders, count |-> f.count]

(* n's state machine applies the next committed command. *)
CatchUp(n) ==
    /\ n \in up /\ applied[n] < Len(log)
    /\ fsm' = [fsm EXCEPT ![n] = FsmApply(@, log[applied[n] + 1])]
    /\ applied' = [applied EXCEPT ![n] = @ + 1]
    /\ UNCHANGED <<conf, up, raft, log, snap, alive, nodeVars, spent>>

(* Mutant: the state machine changes before the command is committed. *)
ApplyUncommitted(n, c) ==
    \/ /\ raft = n /\ log' = Append(log, c)
       /\ fsm' = [fsm EXCEPT ![n] = After(@, log', applied[n], Len(log) + 1)]
       /\ applied' = [applied EXCEPT ![n] = Len(log) + 1]
       /\ UNCHANGED spent
    \/ /\ raft # n /\ fsm' = [fsm EXCEPT ![n] = FsmApply(@, c)]
       /\ UNCHANGED <<log, applied, spent>>

(* Metadata.Apply: committed and applied, committed after the two seconds  *)
(* were over, or refused because n is not the leader.                      *)
Apply(n, c) ==
    \/ /\ raft = n /\ log' = Append(log, c)
       /\ fsm' = [fsm EXCEPT ![n] = After(@, log', applied[n], Len(log) + 1)]
       /\ applied' = [applied EXCEPT ![n] = Len(log) + 1]
       /\ UNCHANGED spent
    \/ raft = n /\ log' = Append(log, c) /\ UNCHANGED <<fsm, applied>> /\ Spend("timeouts")
    \/ raft # n /\ UNCHANGED <<log, fsm, applied, spent>>

NoApply == UNCHANGED <<log, fsm, applied, spent>>

IsLeader(n) == raft = n
IsAlive(n, m) == m \in alive[n]

-----------------------------------------------------------------------------
(* Raft, gossip and the processes *)

Quorum == 2 * Cardinality(up) > Cardinality(conf.brokers)

Elect(n) ==
    /\ n \in up \cap conf.candidates /\ Quorum /\ raft # n /\ raft' = n
    /\ IF raft = None THEN UNCHANGED spent ELSE Spend("elections")
    /\ UNCHANGED <<conf, up, log, fsm, applied, snap, alive, nodeVars>>

TakeSnapshot(n) ==
    /\ n \in up \cap conf.faulty /\ applied[n] > snap[n].index /\ Spend("snapshots")
    /\ snap' = [snap EXCEPT ![n] = [state |-> Snapshot(fsm[n]), index |-> applied[n]]]
    /\ UNCHANGED <<conf, up, raft, log, fsm, applied, alive, nodeVars>>

(* memberlist notices that a broker came or went; it may also suspect one  *)
(* that is there.  Brokers whose join did not reach each other stay apart. *)
Gossip(n, m) ==
    /\ n \in up /\ n # m /\ conf.peer.gossipAddr
    /\ \/ /\ m \in up \ alive[n] /\ UNCHANGED spent
          /\ alive' = [alive EXCEPT ![n] = @ \cup {m}]
       \/ /\ m \in alive[n]
          /\ IF m \in up THEN Spend("suspicions") ELSE UNCHANGED spent
          /\ alive' = [alive EXCEPT ![n] = @ \ {m}]
    /\ UNCHANGED <<conf, up, raftVars, nodeVars>>

(* The process dies; its next Start finds the state of the last snapshot   *)
(* and begins everything else from nothing.                                *)
Crash(n) ==
    /\ n \in up \cap conf.faulty /\ Spend("crashes") /\ up' = up \ {n}
    /\ raft' = IF raft # n /\ 2 * Cardinality(up \ {n}) > Cardinality(conf.brokers)
               THEN raft ELSE None
    /\ fsm' = [fsm EXCEPT ![n] = snap[n].state]
    /\ applied' = [applied EXCEPT ![n] = snap[n].index]
    /\ alive' = [alive EXCEPT ![n] = {n}]
    /\ boot' = [boot EXCEPT ![n] = "wait"] /\ todo' = [todo EXCEPT ![n] = {}]
    /\ plan' = [plan EXCEPT ![n] = NoPlan]
    /\ UNCHANGED <<conf, log, snap>>

Restart(n) ==
    /\ n \in conf.brokers \ up /\ Spend("restarts") /\ up' = up \cup {n}
    /\ UNCHANGED <<conf, raftVars, alive, nodeVars>>

-----------------------------------------------------------------------------
(* bootstrapAndAssign *)

(* A leader is known, or ten seconds have passed; then registerSelf. *)
registerSelf(n) ==
    /\ n \in up /\ boot[n] = "wait" /\ boot' = [boot EXCEPT ![n] = "count"]
    /\ Apply(n, RegisterMember(n))
    /\ UNCHANGED <<conf, up, raft, snap, alive, todo, plan>>

BootstrapShardCount(n) ==
    /\ n \in up /\ boot[n] = "count" /\ boot' = [boot EXCEPT ![n] = "peers"]
    /\ IF IsLeader(n) /\ fsm[n].count = 0
       THEN Apply(n, SetShardCount(conf.shards)) ELSE NoApply
    /\ UNCHANGED <<conf, up, raft, snap, alive, todo, plan>>

(* The leader goes on to the peers whose client address it was given. *)
PeersToRegister(n) ==
    /\ n \in up /\ boot[n] = "peers" /\ boot' = [boot EXCEPT ![n] = "loops"]
    /\ todo' = [todo EXCEPT ![n] =
                   IF IsLeader(n) /\ conf.peer.clientAddr THEN conf.brokers \ {n} ELSE {}]
    /\ UNCHANGED <<conf, up, raftVars, alive, plan, spent>>

RegisterPeer(n) ==
    /\ n \in up
    /\ \E p \in todo[n] :
          Apply(n, RegisterMember(p)) /\ todo' = [todo EXCEPT ![n] = @ \ {p}]
    /\ UNCHANGED <<conf, up, raft, snap, alive, boot, plan>>

(* The loops are started. *)
Loops(n) == n \in up /\ boot[n] = "loops" /\ todo[n] = {}

-----------------------------------------------------------------------------
(* The loops *)

(* A tick of retryRegisterLoop, which ends once the FSM has a record. *)
retryRegister(n) ==
    /\ Loops(n) /\ n \notin fsm[n].members
    /\ Apply(n, RegisterMember(n))
    /\ UNCHANGED <<conf, up, raft, snap, alive, boot, todo, plan>>

(* The members of S among the first k of cs, in order *)
Selected(cs, S, k) ==
    LET t[i \in 0 .. k] ==
            IF i = 0 THEN <<>> ELSE IF cs[i] \in S THEN Append(t[i - 1], cs[i]) ELSE t[i - 1]
    IN  t[k]

(* AliveMembers, sorted *)
Sorted(S) == Selected(NodeOrder, S, Len(NodeOrder))

(* A tick of RunLoop on the leader: Plan begins, with copies of the live   *)
(* brokers and the leaders.                                                *)
StartPlan(n) ==
    /\ Loops(n) /\ IsLeader(n) /\ ~ plan[n].on
    /\ fsm[n].count # 0 /\ alive[n] # {}
    /\ plan' = [plan EXCEPT ![n] =
          [on |-> TRUE, shard |-> 0, leaders |-> fsm[n].leaders,
           alive |-> Sorted(alive[n]), next |-> 0]]
    /\ UNCHANGED <<conf, up, raftVars, alive, boot, todo, spent>>

(* Mutant: only shards without a leader are assigned. *)
PlanUnassigned(n) ==
    LET p == plan[n]
        target == p.alive[(p.next % Len(p.alive)) + 1]
        go(k) == IF p.shard + 1 < fsm[n].count
                 THEN [p EXCEPT !.shard = @ + 1, !.next = @ + k] ELSE NoPlan
    IN  /\ n \in up /\ p.on
        /\ IF p.leaders[p.shard] # None
           THEN /\ plan' = [plan EXCEPT ![n] = go(0)] /\ NoApply
           ELSE /\ plan' = [plan EXCEPT ![n] = go(1)]
                /\ Apply(n, SetShardLeader(p.shard, target))
        /\ UNCHANGED <<conf, up, raft, snap, alive, boot, todo>>

(* Plan, one shard: a shard whose leader in the copy is unset or not alive *)
(* now goes to the next of the brokers that were alive.                    *)
PlanShard(n) ==
    LET p == plan[n]
        target == p.alive[(p.next % Len(p.alive)) + 1]
        go(k) == IF p.shard + 1 < fsm[n].count
                 THEN [p EXCEPT !.shard = @ + 1, !.next = @ + k] ELSE NoPlan
    IN  /\ n \in up /\ p.on
        /\ IF IsAlive(n, p.leaders[p.shard])
           THEN /\ plan' = [plan EXCEPT ![n] = go(0)] /\ NoApply
           ELSE /\ plan' = [plan EXCEPT ![n] = go(1)]
                /\ Apply(n, SetShardLeader(p.shard, target))
        /\ UNCHANGED <<conf, up, raft, snap, alive, boot, todo>>

Booting(n) == \/ registerSelf(n) \/ BootstrapShardCount(n)
              \/ PeersToRegister(n) \/ RegisterPeer(n)

Next ==
    \E n \in Nodes :
        \/ Booting(n)
        \/ retryRegister(n) \/ StartPlan(n) \/ PlanShard(n)
        \/ CatchUp(n) \/ Elect(n) \/ TakeSnapshot(n) \/ Crash(n) \/ Restart(n)
        \/ \E m \in Nodes : Gossip(n, m)

Spec == Init /\ [][Next]_vars

(* Goroutines are scheduled and tickers tick; the Raft library elects a    *)
(* leader while a majority is up and commits on its behalf; gossip notices *)
(* who is there.  Crashes, elections without need, suspicions and timeouts *)
(* end with their bounds.                                                  *)
Fairness ==
    /\ \A n \in Nodes :
          /\ WF_vars(Booting(n)) /\ WF_vars(retryRegister(n))
          /\ WF_vars(StartPlan(n)) /\ WF_vars(PlanShard(n)) /\ WF_vars(CatchUp(n))
          /\ \A m \in Nodes : WF_vars((m \in up) # (m \in alive[n]) /\ Gossip(n, m))
    /\ WF_vars(raft = None /\ \E n \in Nodes : Elect(n))

FairSpec == Spec /\ Fairness

-----------------------------------------------------------------------------
(* Routing *)

(* Router.RouteSession on n, for a session of shard s *)
RouteSession(n, s) ==
    LET leader == fsm[n].leaders[s] IN
    IF fsm[n].count = 0 \/ ~ IsAlive(n, leader) THEN [local |-> FALSE, hint |-> None]
    ELSE IF leader = n THEN [local |-> TRUE, hint |-> None]
    ELSE [local |-> FALSE, hint |-> IF leader \in fsm[n].members THEN leader ELSE None]

(* The broker that refuses names the leader it knows of, in the detail of  *)
(* its answer; a broker that is up can be dialed.                          *)
notLeaderHint(n, s) == RouteSession(n, s).hint
dialLeader(n) == n \in up

(* PublishAgentTo of the SDK: the broker asked takes the event, or names   *)
(* one that does; a second redirect is not followed.                       *)
Accepted(n, s) ==
    \/ RouteSession(n, s).local
    \/ dialLeader(notLeaderHint(n, s)) /\ RouteSession(notLeaderHint(n, s), s).local

-----------------------------------------------------------------------------
Commands ==
    {c \in [op : {"register_member", "set_shard_leader", "set_shard_count"},
            node : Nodes \cup {None}, shard : Nat] :
        /\ c.op = "register_member" => c.node \in Nodes
        /\ c.op = "set_shard_leader" => c.node \in Nodes /\ c.shard \in Shards
        /\ c.op = "set_shard_count" => c.shard = conf.shards}

FSMs == [members : SUBSET Nodes, leaders : [Shards -> Nodes \cup {None}],
         count : {0, conf.shards}]

(* Every variable has its type; a plan in progress has a shard to look at  *)
(* and brokers to choose from.                                             *)
TypeOK ==
    /\ conf \in Config /\ up \in SUBSET Nodes /\ raft \in Nodes \cup {None}
    /\ log \in Seq(Commands) /\ fsm \in [Nodes -> FSMs] /\ applied \in [Nodes -> Nat]
    /\ snap \in [Nodes -> [state : FSMs, index : Nat]]
    /\ \A n \in Nodes : applied[n] <= Len(log) /\ snap[n].index <= Len(log)
    /\ alive \in [Nodes -> SUBSET Nodes] /\ todo \in [Nodes -> SUBSET Nodes]
    /\ boot \in [Nodes -> {"wait", "count", "peers", "loops"}]
    /\ plan \in [Nodes -> [on : BOOLEAN, shard : Nat, leaders : [Shards -> Nodes \cup {None}],
                           alive : Seq(Nodes), next : Nat]]
    /\ \A n \in Nodes : plan[n].on => plan[n].shard \in Shards /\ plan[n].alive # <<>>
    /\ spent \in [Bounds -> Nat]

(* A broker's state machine is what the committed commands up to its index *)
(* make of an empty one, through snapshots, restarts and whatever order    *)
(* brokers apply, commit and time out in.                                  *)
FsmIsLog ==
    \A n \in Nodes : fsm[n] = After(NewFSM, log, 0, applied[n])

(* The leaders of shard s among the first k of the commands cs *)
MovesIn(cs, s, k) ==
    LET sets == Selected(cs, {SetShardLeader(s, n) : n \in Nodes}, k)
    IN  [i \in 1 .. Len(sets) |-> sets[i].node]

Shard0 == INSTANCE Assignment WITH
    moves <- MovesIn(log, 0, Len(log)),
    known <- [n \in Nodes |-> Len(MovesIn(log, 0, applied[n]))],
    view <- [n \in Nodes |-> fsm[n].leaders[0]]

(* The metadata layer implements Assignment: what brokers believe about    *)
(* the leader of a shard are places in one growing history, which is what  *)
(* module Replication assumes.                                             *)
ImplementsAssignment == Shard0!Spec

Settled ==
    Quorum => \A n \in up, s \in Shards : Accepted(n, s)

Committed(op) == {log[i].node : i \in {j \in 1 .. Len(log) : log[j].op = op}}

(* After crashes, restarts and elections have ended, a client can publish  *)
(* every session through any broker that is up, with at most one redirect, *)
(* given that the number of shards and every broker's address were ever    *)
(* committed.                                                              *)
RoutesSettle ==
    <>(Committed("set_shard_count") # {} /\ Committed("register_member") = conf.brokers)
        => <>[]Settled

(* "retryRegisterLoop re-attempts self-registration every 2s until the FSM *)
(* has a record for us" (cluster.go): it gets one.                         *)
EveryoneRegisters == \A n \in Nodes : <>(n \in up => n \in fsm[n].members)

(* "Bootstrap shard count once, on the leader" (cluster.go): it happens.   *)
ShardCountIsSet == <>(Committed("set_shard_count") # {})

(* The assigner moves "unassigned (or dead-leader) shards" (assigner.go):  *)
(* one whose committed leader is up and seen by the assigner stays.        *)
OnlyDeadLeadersMove ==
    [][\A s \in Shards :
          LET now == After(NewFSM, log, 0, Len(log)).leaders[s]
          IN  Len(log') > Len(log) /\ log'[Len(log')].op = "set_shard_leader"
                /\ log'[Len(log')].shard = s => now \notin up \cap alive[raft]]_vars
=============================================================================
