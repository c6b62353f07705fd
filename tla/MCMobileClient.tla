--------------------------- MODULE MCMobileClient ---------------------------
(***************************************************************************)
(* The app starts the client, stops it and starts it again.                *)
(***************************************************************************)
EXTENDS MobileClient
=============================================================================
