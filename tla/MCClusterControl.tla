-------------------------- MODULE MCClusterControl --------------------------
(* Small instances of the cluster's control: scenarios, each bounded to    *)
(* what it is about, checked side by side.                                 *)
EXTENDS ClusterControl

CONSTANTS n1, n2, n3

Order == <<n1, n2, n3>>

Base == [brokers |-> {n1, n2}, shards |-> 2,
         peer |-> [clientAddr |-> TRUE, gossipAddr |-> TRUE], joined |-> TRUE,
         candidates |-> {n1, n2}, faulty |-> {n1},
         elections |-> 0, crashes |-> 0, restarts |-> 0, snapshots |-> 0,
         suspicions |-> 0, timeouts |-> 0]

(* leadership moves while brokers boot *)
Elections == [Base EXCEPT !.elections = 2]

(* gossip is not there yet, and later a live broker is suspected *)
Suspicions == [Base EXCEPT !.joined = FALSE, !.suspicions = 1]

(* a command commits after its caller gave up, and leadership moves *)
Timeouts == [Base EXCEPT !.shards = 1, !.timeouts = 1, !.elections = 1]

(* a broker restarts, which may be the leader; a follower restarts from a  *)
(* snapshot                                                                *)
Takeover == [Base EXCEPT !.shards = 1, !.crashes = 1, !.restarts = 1]
Restored == [Takeover EXCEPT !.candidates = {n2}, !.snapshots = 1]

(* one of three brokers dies: the leader of the shard; possibly that of    *)
(* Raft, in a cluster that does not know its client addresses              *)
Failover == [Base EXCEPT !.brokers = {n1, n2, n3}, !.shards = 1, !.crashes = 1,
                         !.candidates = {n2}]
Orphaned == [Failover EXCEPT !.candidates = {n1, n2}, !.peer.clientAddr = FALSE]

CoreConfigs ==
    {Elections, Suspicions, Timeouts, Takeover, Restored, Failover, Orphaned}

(* peers without client addresses *)
Unaddressed == [Base EXCEPT !.peer.clientAddr = FALSE]

(* as the flag --peers and deploy/cluster.yml configure the brokers *)
Deployed == [Base EXCEPT !.peer = ParsePeers, !.joined = FALSE, !.elections = 1]

ClaimConfigs == {Elections, Unaddressed, Deployed}
=============================================================================
