------------------------- MODULE MCExportScheduler -------------------------
(* Small instances of ExportScheduler for TLC; the configurations give the *)
(* constants.                                                              *)
EXTENDS ExportScheduler

=============================================================================
