------------------------------ MODULE MCReplay ------------------------------
(* Small instances of the replay. *)
EXTENDS Replay
=============================================================================
