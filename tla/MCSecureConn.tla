---------------------------- MODULE MCSecureConn ----------------------------
(***************************************************************************)
(* Three links: an orderly one on which both ends write and the server     *)
(* answers a ping, an orderly one on which the client rotates its key      *)
(* twice, and one that reorders and repeats what the client sends.  The    *)
(* window is small enough for frames to fall out of it.                    *)
(***************************************************************************)
EXTENDS SecureConn

Bounds(client, server) == [e \in Ends |-> IF e = "client" THEN client ELSE server]

MCLinks ==
    {[reordering |-> FALSE, maxWrites |-> Bounds(1, 1), maxPings |-> 1, maxKeyID |-> Bounds(2, 2)],
     [reordering |-> FALSE, maxWrites |-> Bounds(2, 1), maxPings |-> 1, maxKeyID |-> Bounds(3, 1)],
     [reordering |-> TRUE,  maxWrites |-> Bounds(4, 0), maxPings |-> 0, maxKeyID |-> Bounds(3, 1)]}
=============================================================================
