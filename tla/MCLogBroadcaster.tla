-------------------------- MODULE MCLogBroadcaster --------------------------
(* Small instances of LogBroadcaster for TLC; the configurations give the  *)
(* constants.                                                              *)
EXTENDS LogBroadcaster, TLC

\* The subscribers are interchangeable.
Symmetry == Permutations(Subscribers)

=============================================================================
