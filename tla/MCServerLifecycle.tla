-------------------------- MODULE MCServerLifecycle --------------------------
(***************************************************************************)
(* Two interfaces, so that the default route can move, and one of: two     *)
(* processes without clients, so that the second finds what the first has  *)
(* left; one process whose clean-up has a command that fails; one process  *)
(* with two connections.                                                   *)
(***************************************************************************)
EXTENDS ServerLifecycle

MCBounds == {[boots |-> 2, conns |-> 0, failures |-> 0],
             [boots |-> 1, conns |-> 0, failures |-> 1],
             [boots |-> 1, conns |-> 2, failures |-> 0]}
=============================================================================
