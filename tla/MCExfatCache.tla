---------------------------- MODULE MCExfatCache ----------------------------
(* Instances of ExfatCache for TLC.  CacheInv, the invariant that its
   theorems rest on, can be checked in the same instance. *)
EXTENDS ExfatCacheInv
=============================================================================
