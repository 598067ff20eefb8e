--------------------------- MODULE MCStatusTracker ---------------------------
(***************************************************************************)
(* The main and the discovery thread.  Only the main thread reports about  *)
(* fencing; both report an omitted dm_st, through is_map_dead.             *)
(***************************************************************************)
EXTENDS StatusTracker

MCThreads == {"main", "discovery"}
MCKeys == {"fencing", "missing_dm_st_a"}
MCKeysOf == [main |-> MCKeys, discovery |-> {"missing_dm_st_a"}]
MCPrefixes == {{"missing_dm_st_a"}}
=============================================================================
