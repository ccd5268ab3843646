----------------------------- MODULE MCWakeGate -----------------------------
(* Small instances of WakeGate for TLC; the configurations give the        *)
(* constants.                                                              *)
EXTENDS WakeGate

=============================================================================
