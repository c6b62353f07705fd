--------------------------- MODULE MCAllocateScan ---------------------------
(***************************************************************************)
(* A pool of six addresses around the boundary of an octet, with the       *)
(* gateway inside it.                                                      *)
(***************************************************************************)
EXTENDS AllocateScan

MCStartIP == << 10, 0, 0, 253 >>
MCEndIP   == << 10, 0, 1, 2 >>
MCGateway == << 10, 0, 1, 0 >>
=============================================================================
