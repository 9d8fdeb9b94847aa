----------------------------- MODULE MCNetwork -----------------------------
(***************************************************************************)
(* Network with rings so small that both wrap and fill.                    *)
(***************************************************************************)
EXTENDS Network
=============================================================================
