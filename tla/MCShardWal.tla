----------------------------- MODULE MCShardWal -----------------------------
(* Small instances of a shard's log. *)
EXTENDS ShardWal, TLC

FromStart == {0, 1}

NoSubscription == {}

Symmetric == Permutations(Writers)
=============================================================================
