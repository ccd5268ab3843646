--------------------------- MODULE MCBuildRecords ---------------------------
(* A small instance of BuildRecords for TLC.                               *)
EXTENDS BuildRecords

=============================================================================
