---------------------------- MODULE MCCacheStore ----------------------------
(***************************************************************************)
(* Instances of CacheStore.                                                *)
(***************************************************************************)
EXTENDS CacheStore
=============================================================================
