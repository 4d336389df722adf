----------------------------- MODULE MCLRUCache -----------------------------
(***************************************************************************)
(* A small instance of LRUCache: more keys than the capacity, one address  *)
(* more than keys, and the cache of capacity zero.                         *)
(***************************************************************************)
EXTENDS LRUCache
=============================================================================
