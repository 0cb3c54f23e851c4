--------------------------- MODULE MCSocialHistory ---------------------------
(* One or two works, one or two devices of friends. *)
EXTENDS SocialHistory
CONSTANTS w1, w2, f1, f2
===============================================================================
