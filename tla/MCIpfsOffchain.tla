--------------------------- MODULE MCIpfsOffchain ---------------------------
(***************************************************************************)
(* The identifiers run out after MaxId requests at most.                   *)
(***************************************************************************)
EXTENDS IpfsOffchain
=============================================================================
