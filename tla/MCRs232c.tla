----------------------------- MODULE MCRs232c -----------------------------
(***************************************************************************)
(* Rs232c with a ring that fills, wraps and expires.                       *)
(***************************************************************************)
EXTENDS Rs232c
=============================================================================
