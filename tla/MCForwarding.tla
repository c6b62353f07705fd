---------------------------- MODULE MCForwarding ----------------------------
(***************************************************************************)
(* Two sessions.  With queues of one packet, so that forwarders wait and   *)
(* deadlock: of two clients, or of one that connects again.  With queues   *)
(* of two: of two clients, the packets for the first one being numbered.   *)
(***************************************************************************)
EXTENDS Forwarding

CONSTANTS p1, p2, a1, a2

TwoClients == [p \in Conns |-> IF p = p1 THEN a1 ELSE a2]
OneClient  == [p \in Conns |-> a1]
Numbered   == [p \in Conns |-> IF p = p1 THEN a2 ELSE a1]

MCLeases == {TwoClients, OneClient, Numbered}
MCQueueSize == [l \in MCLeases |-> IF l = Numbered THEN 2 ELSE 1]
MCMaxPackets ==
    [l \in MCLeases |-> CASE l = TwoClients -> 6 [] l = OneClient -> 4 [] l = Numbered -> 3]
MCFlows == [l \in MCLeases |-> IF l = Numbered THEN {<< Tun, p1 >>, << p2, p1 >>} ELSE {}]
=============================================================================
