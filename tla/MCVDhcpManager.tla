--------------------------- MODULE MCVDhcpManager ---------------------------
(***************************************************************************)
(* Three clients share a pool of three addresses, one of them the          *)
(* gateway's, that crosses the boundary of an octet.                       *)
(***************************************************************************)
EXTENDS LeaseHistory, TLC

MCStartIP == << 10, 0, 0, 255 >>
MCEndIP   == << 10, 0, 1, 1 >>
MCGateway == << 10, 0, 1, 0 >>

ClientSymmetry == Permutations(Clients)
=============================================================================
