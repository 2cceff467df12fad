---------------------------- MODULE MCLRUCache ----------------------------
(***************************************************************************)
(* Model checking of LRUCache and its history.  With more keys than the   *)
(* capacity, insertions evict; with two values, an overwrite is told from  *)
(* the first write; a clock that goes past the TTL makes entries expire.   *)
(***************************************************************************)
EXTENDS LRUCacheHistory
=============================================================================
