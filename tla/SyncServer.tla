------------------------------ MODULE SyncServer ------------------------------
(***************************************************************************)
(* The operations endpoint and the delta endpoint of the sync worker         *)
(* (services/sync-worker/src/index.ts): POST /v1/ops (handleOps,             *)
(* applyFieldMerge, commitAtNextRevision) and GET /v1/sync (handleSync).     *)
(*                                                                         *)
(* Requests run concurrently and interleave between any two statements sent  *)
(* to D1; a D1 batch is one transaction.  A request may die at any moment    *)
(* (the worker is cut, D1 fails), and the same operation may be in several   *)
(* requests, because a device sends again what it got no answer about.       *)
(*                                                                         *)
(* Abstracted: what an operation writes is one row; what it adds there (a    *)
(* counter, a message) is how often its effect took place.  Deltas are not   *)
(* cut into pages here (SyncMirror).                                         *)
(***************************************************************************)
EXTENDS Integers, FiniteSets

CONSTANTS
    OpId, Row, RowOf,
    FieldMerge,    \* profile.patch and settings.patch: one revision each
    Invalid,       \* operations statementsFor finds nothing to do for
    Request,       \* POST /v1/ops requests
    OpsOf,         \* the operations of a request: [Request -> SUBSET OpId]
    Device,        \* devices that poll GET /v1/sync
    MAX_TRIES,     \* attempts at a revision
    MaxDeaths      \* requests that die

ASSUME ServerAssumption ==
    /\ RowOf \in [OpId -> Row]
    /\ FieldMerge \subseteq OpId
    /\ Invalid \subseteq OpId \ FieldMerge
    /\ OpsOf \in [Request -> SUBSET OpId]
    /\ MAX_TRIES \in Nat \ {0}
    /\ MaxDeaths \in Nat

VARIABLES
    rev,       \* sync_state.rev
    claims,    \* op_claims
    applied,   \* applied_ops: the revision of every operation, 0 when absent
    effects,   \* how often the effect of every operation took place
    rowRev,    \* the revision of every row
    pc,        \* where every request is
    ack,       \* acknowledged: what a request may report as applied
    batch,     \* the operations a request is trying to commit
    expected,  \* the revision it read
    tries,     \* its attempts so far
    deaths,
    polling,   \* whether a device's poll has read serverRev
    seen,      \* the serverRev it read
    mirror,    \* the row revisions a device holds
    cursor     \* a device's cursor

store == <<rev, claims, applied, effects, rowRev>>
request == <<pc, ack, batch, expected, tries, deaths>>
device == <<polling, seen, mirror, cursor>>
vars == <<store, request, device>>

Init ==
    /\ rev = 0
    /\ claims = {}
    /\ applied = [o \in OpId |-> 0]
    /\ effects = [o \in OpId |-> 0]
    /\ rowRev = [x \in Row |-> 0]
    /\ pc = [r \in Request |-> "idle"]
    /\ ack = [r \in Request |-> {}]
    /\ batch = [r \in Request |-> {}]
    /\ expected = [r \in Request |-> 0]
    /\ tries = [r \in Request |-> 0]
    /\ deaths = 0
    /\ polling = [d \in Device |-> FALSE]
    /\ seen = [d \in Device |-> 0]
    /\ mirror = [d \in Device |-> [x \in Row |-> 0]]
    /\ cursor = [d \in Device |-> 0]

-------------------------------------------------------------------------------
(* POST /v1/ops *)

appliedOpIds(ops) == {o \in ops : applied[o] # 0}

goTo(r, place) == pc' = [pc EXCEPT ![r] = place]

(* Mutant: what was applied is not added to the acknowledged set.            *)
acknowledge_forgets(r, ops) == ack' = [ack EXCEPT ![r] = @ \ ops]

acknowledge(r, ops) == ack' = [ack EXCEPT ![r] = @ \cup ops]

(* What is already applied is acknowledged and never tried again. *)
Arrive(r) ==
    /\ pc[r] = "idle"
    /\ goTo(r, "next")
    /\ ack' = [ack EXCEPT ![r] = appliedOpIds(OpsOf[r])]
    /\ UNCHANGED <<store, batch, expected, tries, deaths, device>>

leftFields(r) == (OpsOf[r] \cap FieldMerge) \ ack[r]

leftOthers(r) == (OpsOf[r] \ (FieldMerge \cup Invalid)) \ ack[r]

(* A field merge still to do: applyFieldMerge looks once more whether it has *)
(* been applied, and otherwise commits it alone.                             *)
NextField(r) ==
    /\ pc[r] = "next"
    /\ UNCHANGED <<store, expected, deaths, device>>
    /\ \E o \in leftFields(r) :
           IF applied[o] # 0
           THEN /\ acknowledge(r, {o})
                /\ UNCHANGED <<pc, batch, tries>>
           ELSE /\ batch' = [batch EXCEPT ![r] = {o}]
                /\ tries' = [tries EXCEPT ![r] = 0]
                /\ goTo(r, "read")
                /\ ack' = ack

(* The field merges are done: everything else that is valid, in one batch.   *)
NextOthers(r) ==
    /\ pc[r] = "next"
    /\ leftFields(r) = {}
    /\ leftOthers(r) # {}
    /\ batch' = [batch EXCEPT ![r] = leftOthers(r)]
    /\ tries' = [tries EXCEPT ![r] = 0]
    /\ goTo(r, "read")
    /\ UNCHANGED <<store, ack, expected, deaths, device>>

(* Nothing is left: the response. *)
Respond(r) ==
    /\ pc[r] = "next"
    /\ leftFields(r) = {} /\ leftOthers(r) = {}
    /\ goTo(r, "done")
    /\ UNCHANGED <<store, ack, batch, expected, tries, deaths, device>>

(* commitAtNextRevision reads the revision it expects outside the            *)
(* transaction.                                                              *)
ReadRev(r) ==
    /\ pc[r] = "read"
    /\ expected' = [expected EXCEPT ![r] = rev]
    /\ goTo(r, "commit")
    /\ UNCHANGED <<store, ack, batch, tries, deaths, device>>

(* Mutants: the transaction takes the revision it expects without checking   *)
(* that it still is the next one; it does not claim its identifiers.         *)
overtaken_never(r) == FALSE
claimed_never(r) == FALSE

(* The guard of the transaction: somebody committed since. *)
overtaken(r) == rev # expected[r]

(* The unique key of op_claims: somebody committed one of these operations.  *)
claimed(r) == batch[r] \cap claims # {}

(* The transaction: the revision, the claims, the effects and the            *)
(* applied_ops rows, or nothing at all.                                      *)
Commit(r) ==
    LET next == expected[r] + 1
    IN  /\ pc[r] = "commit"
        /\ ~overtaken(r)
        /\ ~claimed(r)
        /\ rev' = next
        /\ claims' = claims \cup batch[r]
        /\ applied' = [o \in OpId |-> IF o \in batch[r] THEN next ELSE applied[o]]
        /\ effects' = [o \in OpId |-> effects[o] + IF o \in batch[r] THEN 1 ELSE 0]
        /\ rowRev' = [x \in Row |-> IF \E o \in batch[r] : RowOf[o] = x THEN next ELSE rowRev[x]]
        /\ acknowledge(r, batch[r])
        /\ goTo(r, "next")
        /\ UNCHANGED <<batch, expected, tries, deaths, device>>

attemptsLeft(r) == tries[r] + 1 < MAX_TRIES

(* The guard fails: read again, MAX_TRIES times (sync_revision_contention).  *)
Retry(r) ==
    /\ pc[r] = "commit"
    /\ overtaken(r)
    /\ tries' = [tries EXCEPT ![r] = @ + 1]
    /\ goTo(r, IF attemptsLeft(r) THEN "read" ELSE "failed")
    /\ UNCHANGED <<store, ack, batch, expected, deaths, device>>

(* DuplicateOpConflict: another request committed some of these operations   *)
(* first.                                                                    *)
Conflict(r) ==
    /\ pc[r] = "commit"
    /\ ~overtaken(r)
    /\ claimed(r)
    /\ goTo(r, "raced")
    /\ UNCHANGED <<store, ack, batch, expected, tries, deaths, device>>

(* Mutant: a duplicate identifier is taken for a duplicate request.          *)
raced_all(r) == batch[r]

(* What the other requests did commit. *)
raced(r) == appliedOpIds(batch[r])

(* Those are acknowledged, and the rest is tried again; none would be an     *)
(* error.                                                                    *)
Raced(r) ==
    /\ pc[r] = "raced"
    /\ goTo(r, IF raced(r) = {} THEN "failed" ELSE "next")
    /\ acknowledge(r, raced(r))
    /\ UNCHANGED <<store, batch, expected, tries, deaths, device>>

Die(r) ==
    /\ pc[r] \notin {"idle", "done", "failed"}
    /\ deaths < MaxDeaths
    /\ deaths' = deaths + 1
    /\ goTo(r, "failed")
    /\ UNCHANGED <<store, ack, batch, expected, tries, device>>

-------------------------------------------------------------------------------
(* GET /v1/sync *)

(* serverRev is read before the delta.  A poll that finds the device up to   *)
(* date changes nothing and is left out.                                     *)
PollRev(d) ==
    /\ ~polling[d]
    /\ cursor[d] # rev
    /\ polling' = [polling EXCEPT ![d] = TRUE]
    /\ seen' = [seen EXCEPT ![d] = rev]
    /\ UNCHANGED <<store, request, mirror, cursor>>

(* Mutant: the lower bound of the delta is one too high.                     *)
delta_blind(d, x) == rowRev[x] > cursor[d] + 1

(* The rows a poll delivers. *)
delta(d, x) == rowRev[x] > cursor[d]

(* All tables in one D1 batch; the cursor catches up with the highest        *)
(* revision delivered, or with serverRev (nextDeltaCursor, nothing cut).     *)
PollRows(d) ==
    LET reached == {seen[d], cursor[d]} \cup {rowRev[x] : x \in {y \in Row : delta(d, y)}}
    IN  /\ polling[d]
        /\ polling' = [polling EXCEPT ![d] = FALSE]
        /\ mirror' = [mirror EXCEPT ![d] = [x \in Row |-> IF delta(d, x) THEN rowRev[x] ELSE @[x]]]
        /\ \E c \in reached :
              /\ \A e \in reached : e <= c
              /\ cursor' = [cursor EXCEPT ![d] = c]
        /\ UNCHANGED <<store, request, seen>>

Handle(r) ==
    \/ Arrive(r) \/ NextField(r) \/ NextOthers(r) \/ Respond(r)
    \/ ReadRev(r) \/ Commit(r) \/ Retry(r) \/ Conflict(r) \/ Raced(r)

Poll(d) == PollRev(d) \/ PollRows(d)

Next ==
    \/ \E r \in Request : Handle(r) \/ Die(r)
    \/ \E d \in Device : Poll(d)

Spec == Init /\ [][Next]_vars

(* A request that runs goes on running, and a device keeps polling. *)
FairSpec == Spec /\ \A r \in Request : WF_vars(Handle(r))

-------------------------------------------------------------------------------
(* Properties *)

Places == {"idle", "next", "read", "commit", "raced", "done", "failed"}

(* The values of the variables; only understood operations are committed,    *)
(* and no request makes more than MAX_TRIES attempts.                        *)
TypeOK ==
    /\ rev \in Nat
    /\ claims \in SUBSET OpId
    /\ applied \in [OpId -> Nat] /\ effects \in [OpId -> Nat]
    /\ rowRev \in [Row -> Nat]
    /\ pc \in [Request -> Places]
    /\ ack \in [Request -> SUBSET OpId]
    /\ batch \in [Request -> SUBSET (OpId \ Invalid)]
    /\ expected \in [Request -> Nat] /\ tries \in [Request -> 0..MAX_TRIES]
    /\ deaths \in Nat
    /\ polling \in [Device -> BOOLEAN]
    /\ seen \in [Device -> Nat] /\ cursor \in [Device -> Nat]
    /\ mirror \in [Device -> [Row -> Nat]]

(* However many requests carry an operation at the same time or one after    *)
(* the other, and wherever they are cut, its effect takes place at most once *)
(* and exactly when applied_ops says so.                                     *)
ExactlyOnce ==
    \A o \in OpId : effects[o] = IF applied[o] = 0 THEN 0 ELSE 1

(* A request answers that an operation is applied only when it is, and a     *)
(* request that ends well leaves none of its valid operations behind.        *)
AnswerIsTrue ==
    \A r \in Request :
        /\ \A o \in ack[r] : applied[o] # 0
        /\ pc[r] = "done" => OpsOf[r] \ Invalid \subseteq ack[r]

(* A device holds the current version of every row up to its cursor: a poll  *)
(* that runs while others commit skips nothing, so nothing is lost to        *)
(* "rev > cursor".                                                           *)
NothingBehindCursor ==
    \A d \in Device, x \in Row :
        rowRev[x] <= cursor[d] => mirror[d][x] = rowRev[x]

(* Requests interleaved statement by statement make one log of revisions:    *)
(* the transactions of commitAtNextRevision implement SyncLog.               *)
Log == INSTANCE SyncLog WITH last <- rev, at <- applied, stamp <- rowRev
IsOneLog == Log!LogSpec

(* Every request that arrives is answered, whatever duplicates and           *)
(* overtaking commits it meets: handleOps never loops on a conflict.         *)
Answers == \A r \in Request : pc[r] # "idle" ~> pc[r] \in {"done", "failed"}
===============================================================================
