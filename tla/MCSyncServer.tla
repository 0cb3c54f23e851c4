----------------------------- MODULE MCSyncServer -----------------------------
(* Operations s (a field merge), o1 and o2 on two rows, bad (nothing to do);  *)
(* two requests share s and o1 as a retry does, a third brings o2.            *)
EXTENDS SyncServer, TLC
CONSTANTS s, o1, o2, bad, x1, x2, r1, r2, r3, d1, d2
mcRowOf == [o \in OpId |-> IF o \in {s, o1} THEN x1 ELSE x2]
mcOpsOf == [r \in Request |-> CASE r = r1 -> {s, o1} [] r = r2 -> {s, o1, o2, bad} [] r = r3 -> {o2}]
===============================================================================
