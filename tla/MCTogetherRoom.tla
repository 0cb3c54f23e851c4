---------------------------- MODULE MCTogetherRoom ----------------------------
(* Small instances of TogetherRoom: connections a1, a2 of account a (who     *)
(* opens the room), b1 and b2 of b, c1 of c.                                 *)
EXTENDS TogetherRoom, TLC

CONSTANTS a, b, c, a1, a2, b1, b2, c1

mcOwner == [x \in Conn |-> IF x \in {a1, a2} THEN a ELSE IF x = c1 THEN c ELSE b]

mcSettings(control, mode, everyone, allowed) ==
    [hostUserId |-> a, mode |-> mode, control |-> control,
     everyone |-> everyone, allowed |-> allowed]

mcListed == {mcSettings("host", "sync", FALSE, {b})}
mcBoth == {mcSettings("all", "free", TRUE, {}), mcSettings("host", "sync", TRUE, {})}
mcSymmetry == Permutations({b1, b2})
===============================================================================
