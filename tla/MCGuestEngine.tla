---------------------------- MODULE MCGuestEngine ---------------------------
(* Small instances of GuestEngine for TLC; the configurations give the     *)
(* constants.                                                              *)
EXTENDS GuestEngine

=============================================================================
