------------------------------- MODULE MCPit -------------------------------
(***************************************************************************)
(* Pit with bytes of three values, so that counts have two digits, wrap    *)
(* and are in part too small to be taken as they are.                      *)
(***************************************************************************)
EXTENDS Pit
=============================================================================
