---------------------------- MODULE MCDeviceTrust ----------------------------
(* The device that is inside and a new one; the first account and one more.  *)
EXTENDS DeviceTrust
CONSTANTS d1, d2, u1, u2, c1
plan(f) == [a \in Act |-> IF a \in DOMAIN f THEN f[a] ELSE 0]
mcPlans == {plan([pair |-> 1, create |-> 1, logout |-> 1, leave |-> 1]),
            plan([pair |-> 1, create |-> 1, reinstall |-> 1]),
            plan([create |-> 1, delete |-> 1, reinstall |-> 1]),
            plan([pair |-> 1, delete |-> 1]), plan([logout |-> 1, delete |-> 1]),
            plan([delete |-> 2, write |-> 1])}
===============================================================================
