--------------------------- MODULE MCReplication ----------------------------
(* Small instances of a replicated shard. *)
EXTENDS Replication, TLC

Symmetric == Permutations(Nodes)
=============================================================================
