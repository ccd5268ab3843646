----------------------------- MODULE MCHandover -----------------------------
(***************************************************************************)
(* Handover with two daemons.                                              *)
(***************************************************************************)
EXTENDS Handover
=============================================================================
