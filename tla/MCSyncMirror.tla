----------------------------- MODULE MCSyncMirror -----------------------------
(* Two tables of up to two rows each; pages of one row, so that a table is   *)
(* cut before the other and inside a revision.                               *)
EXTENDS SyncMirror, TLC
CONSTANTS x1, x2, y1, y2
===============================================================================
