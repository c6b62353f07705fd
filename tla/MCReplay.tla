------------------------------ MODULE MCReplay ------------------------------
(***************************************************************************)
(* Sequence numbers on both sides of every window edge: sizes 1, 3 and 63, *)
(* and 0 and 65, which the constructor turns into 64.                      *)
(***************************************************************************)
EXTENDS ReplayHistory
=============================================================================
