------------------------- MODULE MCEngineResources -------------------------
(* A small instance of EngineResources for TLC: two tags of a repository.  *)
EXTENDS EngineResources

MCBackup == [repo |-> "backup", tag |-> "latest"]
MCImages == {[repo |-> "web", tag |-> "latest"], [repo |-> "web", tag |-> "1"], MCBackup}

=============================================================================
