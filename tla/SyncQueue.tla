------------------------------- MODULE SyncQueue -------------------------------
(***************************************************************************)
(* The rules of the offline write queue (apps/web/lib/queue.js) and what the *)
(* server does with one write (statementsFor in services/sync-worker).       *)
(*                                                                         *)
(* One kind of write stands for each rule of the table OPS: favorite.set for *)
(* the states where the latest value wins, progress.set for the states that  *)
(* merge by maximum, usage.add for the cumulative ones, comment.add for the  *)
(* events.  A payload is the key it is about and a number.                   *)
(***************************************************************************)
EXTENDS Integers, Sequences, FiniteSets

CONSTANTS
    Key,         \* works and chapters a write is about
    MaxValue     \* values are 0..MaxValue

ASSUME QueueAssumption == MaxValue \in Nat

Kind == {"favorite.set", "progress.set", "usage.add", "comment.add"}
Payload == [kind: Kind, key: Key, value: 0..MaxValue]

(* An operation is a payload under the identifier it keeps for ever. *)
Op == [opId: Nat \ {0}, kind: Kind, key: Key, value: 0..MaxValue]

classifyOp(kind) ==
    CASE kind \in {"favorite.set", "progress.set"} -> "state"
      [] kind = "usage.add" -> "cumulative"
      [] kind = "comment.add" -> "event"

NoKey == <<>>
stateKeyOf(op) ==
    IF classifyOp(op.kind) = "state" THEN <<op.kind, op.key>> ELSE NoKey

-------------------------------------------------------------------------------
(* Compaction *)

(* What ops holds at the places S, in its order. *)
pick(ops, S) ==
    LET place(n) == CHOOSE i \in S : Cardinality({j \in S : j <= i}) = n
    IN  [n \in 1..Cardinality(S) |-> ops[place(n)]]

(* What is left of the operations of ops up to i on the key of ops[i]: the   *)
(* latest one, and for progress the furthest point any of them reached.      *)
mergedAt(ops, i) ==
    LET same == {j \in 1..i : stateKeyOf(ops[j]) = stateKeyOf(ops[i])}
        furthest == CHOOSE v \in {ops[j].value : j \in same} :
                        \A j \in same : ops[j].value <= v
    IN  IF ops[i].kind = "progress.set" THEN [ops[i] EXCEPT !.value = furthest] ELSE ops[i]

(* Mutants: the merge of progress forgets the maximum; the first operation   *)
(* of a key stays, and not the last.                                         *)
compactQueue_latest(ops) ==
    LET stays(i) == \/ stateKeyOf(ops[i]) = NoKey
                    \/ \A j \in (i + 1)..Len(ops) : stateKeyOf(ops[j]) # stateKeyOf(ops[i])
    IN  pick(ops, {i \in DOMAIN ops : stays(i)})
compactQueue_first(ops) ==
    LET stays(i) == \/ stateKeyOf(ops[i]) = NoKey
                    \/ \A j \in 1..(i - 1) : stateKeyOf(ops[j]) # stateKeyOf(ops[i])
    IN  pick(ops, {i \in DOMAIN ops : stays(i)})

(* One operation per state key, in the place of its last occurrence; what    *)
(* has no state key stays.                                                   *)
compactQueue(ops) ==
    LET stays(i) == \/ stateKeyOf(ops[i]) = NoKey
                    \/ \A j \in (i + 1)..Len(ops) : stateKeyOf(ops[j]) # stateKeyOf(ops[i])
    IN  pick([i \in DOMAIN ops |-> mergedAt(ops, i)], {i \in DOMAIN ops : stays(i)})

(* Compaction, and then only the oldest states go: a queue of nothing else   *)
(* stays above the limit.                                                    *)
trimQueue(ops, limit) ==
    LET compacted == compactQueue(ops)
        isState(i) == classifyOp(compacted[i].kind) = "state"
        excess == Len(compacted) - limit
        dropped == {i \in DOMAIN compacted :
                        isState(i) /\ Cardinality({j \in 1..i : isState(j)}) <= excess}
    IN  pick(compacted, DOMAIN compacted \ dropped)

-------------------------------------------------------------------------------
(* Failures *)

classifyFailure(status) ==
    CASE status \in {401, 403} -> "auth"
      [] status \in {408, 429} -> "retry"
      [] status \in 400..499 \ {401, 403, 408, 429} -> "permanent"
      [] OTHER -> "retry"

shouldQuarantine(attempts, status, maxAttempts) ==
    \/ classifyFailure(status) = "permanent"
    \/ attempts >= maxAttempts

-------------------------------------------------------------------------------
(* What a write does to the server's tables *)

emptyTable == [favorite |-> [k \in Key |-> 0], progress |-> [k \in Key |-> 0],
               usage |-> 0, comments |-> {}]

(* usage.add credits nothing for no time, and is then not applied at all. *)
applicable(op) == op.kind = "usage.add" => op.value > 0

setFavorite(table, op) == [table EXCEPT !.favorite[op.key] = op.value]
setProgress(table, op) == [table EXCEPT !.progress[op.key] = IF op.value > @ THEN op.value ELSE @]
addUsage(table, op) == [table EXCEPT !.usage = @ + op.value]
addComment(table, op) == [table EXCEPT !.comments = @ \cup {op.opId}]

effect(table, op) ==
    CASE op.kind = "favorite.set" -> setFavorite(table, op)
      [] op.kind = "progress.set" -> setProgress(table, op)
      [] op.kind = "usage.add"    -> addUsage(table, op)
      [] op.kind = "comment.add"  -> addComment(table, op)

replay(table, ops) ==
    LET after[n \in 0..Len(ops)] == IF n = 0 THEN table ELSE effect(after[n - 1], ops[n])
    IN  after[Len(ops)]
===============================================================================
