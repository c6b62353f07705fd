---------------------------- MODULE MCVlanClient ----------------------------
(***************************************************************************)
(* Three connections and two addresses: the client reconnects twice and    *)
(* may be given another address.                                           *)
(***************************************************************************)
EXTENDS VlanClient
=============================================================================
