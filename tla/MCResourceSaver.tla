--------------------------- MODULE MCResourceSaver --------------------------
(* Small instances of ResourceSaver for TLC; the configurations give the   *)
(* other constants.                                                        *)
EXTENDS ResourceSaver

MCWorkloads == {{"lists"}, {"stops", "faults"}, {"config"}}

=============================================================================
