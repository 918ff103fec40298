------------------------- MODULE MC_MultiLevelCache --------------------------
(***************************************************************************)
(* MultiLevelCache with one key, read by two requests and updated once.   *)
(***************************************************************************)
EXTENDS MultiLevelCache
=============================================================================
