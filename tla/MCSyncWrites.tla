----------------------------- MODULE MCSyncWrites -----------------------------
(* One work k: a heart, two points of progress, reading time, one of them no  *)
(* time at all (which the server does not settle).                            *)
EXTENDS SyncWrites, TLC
CONSTANT k

mc(kind, value) == [kind |-> kind, key |-> k, value |-> value]
mcCounts == {mc("usage.add", 0), mc("usage.add", 1), mc("favorite.set", 1),
             mc("comment.add", 1)}
mcValues == {mc("favorite.set", 0), mc("favorite.set", 1),
             mc("progress.set", 1), mc("progress.set", 2), mc("comment.add", 1)}
(* A comment the server cannot take. *)
mcPoison == {mc("comment.add", 1)}
(* What the departures of README.md are shown with. *)
mcHearts == {mc("favorite.set", 0), mc("favorite.set", 1)}
mcProgress == {mc("progress.set", 1), mc("progress.set", 2)}
mcTime == {mc("usage.add", 1)}
===============================================================================
