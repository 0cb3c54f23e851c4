---------------------------- MODULE MCSyncAccounts ----------------------------
(* Two accounts on one device. *)
EXTENDS SyncAccounts, TLC
CONSTANTS a, b
mcSymmetry == Permutations({a, b})
===============================================================================
