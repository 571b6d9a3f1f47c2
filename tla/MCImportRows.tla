---------------------------- MODULE MCImportRows ----------------------------
(* TLC instance of ImportRows. *)
EXTENDS ImportRows, MCBulkImport
=============================================================================
