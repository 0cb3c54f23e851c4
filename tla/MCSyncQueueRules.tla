--------------------------- MODULE MCSyncQueueRules ---------------------------
(* Two keys, so that writes about different works meet in one queue. *)
EXTENDS SyncQueueRules, TLC
CONSTANTS k1, k2
mcSymmetry == Permutations({k1, k2})
===============================================================================
