-------------------------------- MODULE SyncLog --------------------------------
(***************************************************************************)
(* What the sync server promises its devices: one log of revisions.  A step  *)
(* of the log applies some operations that were never applied before, all at *)
(* once, under the next revision, and stamps the rows they write with it.    *)
(***************************************************************************)
EXTENDS Integers

CONSTANTS
    OpId,   \* operations
    Row,    \* rows of the synchronised tables
    RowOf   \* the row an operation writes: [OpId -> Row]

VARIABLES
    last,   \* the last revision
    at,     \* the revision of every operation, 0 before it is applied
    stamp   \* the revision of every row, 0 before it is written

logVars == <<last, at, stamp>>

LogInit ==
    /\ last = 0
    /\ at = [o \in OpId |-> 0]
    /\ stamp = [x \in Row |-> 0]

Extend(ops) ==
    /\ ops # {}
    /\ \A o \in ops : at[o] = 0
    /\ last' = last + 1
    /\ at' = [o \in OpId |-> IF o \in ops THEN last + 1 ELSE at[o]]
    /\ stamp' = [x \in Row |-> IF \E o \in ops : RowOf[o] = x THEN last + 1 ELSE stamp[x]]

LogSpec == LogInit /\ [][\E ops \in SUBSET OpId : Extend(ops)]_logVars
===============================================================================
