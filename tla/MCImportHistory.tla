-------------------------- MODULE MCImportHistory --------------------------
(* TLC instance of ImportHistory. *)
EXTENDS ImportHistory, MCBulkImport
=============================================================================
