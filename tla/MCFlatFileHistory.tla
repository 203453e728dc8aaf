------------------------- MODULE MCFlatFileHistory --------------------------
(* Small instances of the flat-file repository with its history variables. *)
EXTENDS FlatFileHistory, MCFlatFileRepository
=============================================================================
