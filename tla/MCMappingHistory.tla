-------------------------- MODULE MCMappingHistory --------------------------
(* Small instances of the mapping service with its histories for TLC.      *)
EXTENDS MCMappingService, MappingSearchHistory
=============================================================================
