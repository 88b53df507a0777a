------------------------- MODULE MCCacheInvalidation -------------------------
(* Instance of CacheInvalidation for TLC. *)
EXTENDS CacheInvalidation, TLC

CONSTANTS sources, summary, r1, r2, w1, w2

TwoWriters == Permutations({w1, w2})
=============================================================================
