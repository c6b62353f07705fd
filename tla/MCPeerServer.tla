---------------------------- MODULE MCPeerServer ----------------------------
(***************************************************************************)
(* Two clients on two connections compete with what a third one left: its  *)
(* lease of the first of two usable addresses, offline and with its grace  *)
(* period ending.  Until then one address is left, and the pool may run    *)
(* out; later a second DISCOVER may be given the other address.  With      *)
(* three connections and no such lease a client reconnects while the other *)
(* competes for its address.                                               *)
(***************************************************************************)
EXTENDS PeerServer

CONSTANT c3

MCStartIP == << 10, 0, 0, 255 >>
MCEndIP   == << 10, 0, 1, 1 >>
MCGateway == << 10, 0, 1, 0 >>

\* c3 was given the first address, disconnected, and one tick has passed.
MCManagerInit ==
    /\ leaseByID = [c \in Clients |->
         IF c = c3 THEN [ip |-> StartIP, online |-> FALSE, left |-> 0] ELSE NoLease]
    /\ ownerByIP = [a \in Pool |-> IF a = StartIP THEN c3 ELSE NoClient]
    /\ next = start + 1

MCInit == MCManagerInit /\ PeerInit

MCSpec == MCInit /\ [][Next]_vars /\ Fairness

\* What happens after c3 has come back is not looked at.
MCConstraint == \A p \in Conns : id[p] # c3
=============================================================================
