------------------------------ MODULE SyncWrites ------------------------------
(***************************************************************************)
(* The write path of one device (apps/web/lib/sync.js): enqueue, push,       *)
(* quarantine and its retry, the two stored copies of the queue, and a kill  *)
(* of the app at any moment; against a server that applies a batch of        *)
(* operations at once and each operation at most once (SyncServer is about   *)
(* how it does).                                                             *)
(*                                                                         *)
(* The code between two awaits is one step.  A request may be lost before    *)
(* the server sees it, its answer may be lost after, and the device cannot   *)
(* tell the two apart.  Backoff and debounce only choose when a push starts, *)
(* so a push may start at any time.  The account does not change here.       *)
(***************************************************************************)
EXTENDS SyncQueue

CONSTANTS
    MAX_QUEUE,       \* the queue is trimmed above this
    MAX_QUARANTINE,  \* quarantined operations kept
    MAX_PUSH_BATCH,  \* operations in one request
    MAX_ATTEMPTS,    \* failures after which an operation is quarantined
    Writes,          \* the payloads the user may write
    Statuses,        \* how a request may fail: 0 is no answer at all
    Poison,          \* the writes the server fails on, every time
    MaxOps,          \* the user writes this often
    MaxFailures,     \* requests fail this often for another reason
    MaxRestarts,     \* the app is killed this often
    \* What may happen besides:
    LateArrivals,    \* the server may see a request after the device gave it up
    UserRetries,     \* the user may retry what is quarantined
    LocalMayFail,    \* a write of a key to localStorage may fail (quota)
    CopyMayFail      \* a write to the account copy may fail, or be cut by a kill

ASSUME WritesAssumption ==
    /\ {MAX_QUEUE, MAX_QUARANTINE, MAX_PUSH_BATCH, MAX_ATTEMPTS} \subseteq Nat \ {0}
    /\ Writes \subseteq Payload
    /\ Statuses \subseteq {0} \cup 400..599
    /\ Poison \subseteq Payload
    /\ Poison # {} => \E status \in Statuses : status >= 500
    /\ {MaxOps, MaxFailures, MaxRestarts} \subseteq Nat
    /\ {LateArrivals, UserRetries, LocalMayFail, CopyMayFail} \subseteq BOOLEAN

VARIABLES
    written,     \* everything the user wrote, by opId
    queue,       \* the queue in memory
    quarantine,  \* the quarantined operations in memory
    attempts,    \* attemptsOf: failures of each operation since the app started
    recovered,   \* the account copy has been read since the app started
    push,        \* the push under way: where it is, its batch, what came back
    saved,       \* QUEUE_KEY and QUARANTINE_KEY of localStorage
    copy,        \* the 'queue' record of the account store
    late,        \* batches given up and not yet seen by the server
    table,       \* the server's tables
    applied,     \* the server's applied_ops
    failures, restarts

device == <<queue, quarantine, attempts, recovered, push>>
server == <<table, applied>>
vars == <<written, device, saved, copy, late, server, failures, restarts>>

OpId == 1..MaxOps
NoReply == {0}
Idle == [pc |-> "idle", batch |-> <<>>, reply |-> NoReply]

ids(ops) == {ops[i].opId : i \in DOMAIN ops}
without(ops, gone) == pick(ops, {i \in DOMAIN ops : ops[i].opId \notin gone})
lastOf(ops, n) == IF Len(ops) <= n THEN ops ELSE SubSeq(ops, Len(ops) - n + 1, Len(ops))
firstOf(ops, n) == SubSeq(ops, 1, IF Len(ops) < n THEN Len(ops) ELSE n)
prune(tries, ops) == [i \in OpId |-> IF i \in ids(ops) THEN tries[i] ELSE 0]

Init ==
    /\ written = <<>> /\ queue = <<>> /\ quarantine = <<>>
    /\ attempts = [i \in OpId |-> 0]
    /\ recovered = TRUE
    /\ push = Idle
    /\ saved = [queue |-> <<>>, quarantine |-> <<>>]
    /\ copy = saved
    /\ late = {}
    /\ table = emptyTable /\ applied = {}
    /\ failures = 0 /\ restarts = 0

-------------------------------------------------------------------------------

(* persistQueue and persistQuarantine: both copies take the queue and the    *)
(* quarantine as they now are, unless a write fails.  localStorage is written *)
(* key by key, the account copy as one record.                               *)
persist ==
    LET current == [queue |-> queue', quarantine |-> quarantine']
    IN  /\ saved' \in {current} \cup
              (IF LocalMayFail
               THEN {saved, [saved EXCEPT !.queue = queue'],
                     [saved EXCEPT !.quarantine = quarantine']}
               ELSE {})
        /\ copy' \in {current} \cup (IF CopyMayFail THEN {copy} ELSE {})

operation(payload) ==
    [opId |-> Len(written) + 1, kind |-> payload.kind, key |-> payload.key, value |-> payload.value]

(* enqueue: a full queue is trimmed. *)
Enqueue(payload) ==
    LET op == operation(payload)
        longer == Append(queue, op)
        full == Len(longer) > MAX_QUEUE
    IN  /\ Len(written) < MaxOps
        /\ written' = Append(written, op)
        /\ queue' = IF full THEN trimQueue(longer, MAX_QUEUE) ELSE longer
        /\ attempts' = IF full THEN prune(attempts, queue') ELSE attempts
        /\ quarantine' = quarantine
        /\ persist
        /\ UNCHANGED <<recovered, push, late, server, failures, restarts>>

send(ops) == push' = [pc |-> "sent", batch |-> firstOf(ops, MAX_PUSH_BATCH), reply |-> NoReply]

(* push: nothing of this device is under way, so the queue is compacted.     *)
StartPush ==
    LET compacted == compactQueue(queue)
        shorter == Len(compacted) # Len(queue)
    IN  /\ recovered
        /\ push.pc = "idle"
        /\ queue # <<>>
        /\ send(compacted)
        /\ UNCHANGED <<written, quarantine, recovered, late, server, failures, restarts>>
        /\ IF shorter
           THEN queue' = compacted /\ attempts' = prune(attempts, compacted) /\ persist
           ELSE UNCHANGED <<queue, attempts, saved, copy>>

(* Mutant: the server forgets what it applied. *)
handle_again(batch) ==
    LET valid == {i \in DOMAIN batch : applicable(batch[i])}
    IN  /\ table' = replay(table, pick(batch, valid))
        /\ applied' = applied \cup {batch[i].opId : i \in valid}

(* The server (handleOps): what it has not applied yet and can apply takes   *)
(* effect, each identifier once.                                             *)
handle(batch) ==
    LET fresh == {i \in DOMAIN batch :
                      /\ batch[i].opId \notin applied
                      /\ applicable(batch[i])
                      /\ \A j \in 1..(i - 1) : batch[j].opId # batch[i].opId}
    IN  /\ table' = replay(table, pick(batch, fresh))
        /\ applied' = applied \cup {batch[i].opId : i \in fresh}

(* An operation that makes the server fail takes its whole request with it,  *)
(* before anything of it is committed.                                       *)
poisonous(op) == [kind |-> op.kind, key |-> op.key, value |-> op.value] \in Poison
chokes(batch) == \E i \in DOMAIN batch : poisonous(batch[i])

(* The request arrives and is answered with what is settled. *)
Serve ==
    /\ push.pc # "idle" /\ push.reply = NoReply
    /\ ~chokes(push.batch)
    /\ handle(push.batch)
    /\ push' = [push EXCEPT !.reply = ids(push.batch) \cap applied']
    /\ UNCHANGED <<written, queue, quarantine, attempts, recovered, saved, copy, late,
                   failures, restarts>>

(* A request the device gave up arrives after all. *)
ServeLate(batch) ==
    /\ batch \in late
    /\ IF chokes(batch) THEN UNCHANGED server ELSE handle(batch)
    /\ late' = late \ {batch}
    /\ UNCHANGED <<written, device, saved, copy, failures, restarts>>

(* Mutant: the whole batch leaves the queue, settled or not. *)
settle_wholeBatch(settled) ==
    /\ quarantine' = quarantine
    /\ queue' = without(queue, ids(push.batch))

(* What the answer does not settle will never be, and is quarantined. *)
settle(settled) ==
    LET refused == without(push.batch, settled)
    IN  /\ quarantine' = lastOf(quarantine \o refused, MAX_QUARANTINE)
        /\ queue' = without(queue, ids(push.batch))

(* The answer arrives; the next batch goes at once. *)
Answered ==
    /\ push.pc # "idle" /\ push.reply # NoReply
    /\ settle(push.reply)
    /\ attempts' = prune(attempts, queue')
    /\ persist
    /\ IF push.reply = {} \/ queue' = <<>> THEN push' = Idle ELSE send(queue')
    /\ UNCHANGED <<written, recovered, late, server, failures, restarts>>

(* Mutant: no number of attempts is enough to give an operation up. *)
countFailure_never(batch, status) ==
    /\ attempts' = [i \in OpId |-> IF i \in ids(batch) /\ attempts[i] < MAX_ATTEMPTS
                                   THEN attempts[i] + 1 ELSE attempts[i]]
    /\ UNCHANGED <<queue, quarantine, saved, copy>>

(* Every operation of the batch failed once more; some are given up. *)
countFailure(batch, status) ==
    LET tries == [i \in OpId |-> attempts[i] + IF i \in ids(batch) THEN 1 ELSE 0]
        hopeless(op) == shouldQuarantine(tries[op.opId], status, MAX_ATTEMPTS)
        isolated == pick(batch, {i \in DOMAIN batch : hopeless(batch[i])})
    IN  /\ quarantine' = lastOf(quarantine \o isolated, MAX_QUARANTINE)
        /\ queue' = without(queue, ids(isolated))
        /\ attempts' = [i \in OpId |-> IF i \in ids(isolated) THEN 0 ELSE tries[i]]
        /\ IF isolated # <<>> THEN persist ELSE UNCHANGED <<saved, copy>>

Choking(status) == status >= 500 /\ push.reply = NoReply /\ chokes(push.batch)

(* The request fails, as often as it carries poison and a few times more.  A *)
(* refusal (4xx) comes before any effect; a 5xx or a silence may come after  *)
(* it.  A failed server may be choking on one operation of several: the      *)
(* first is tried alone before anything is counted.                          *)
Fail(status) ==
    /\ push.pc # "idle"
    /\ push.reply # NoReply => status = 0 \/ status >= 500
    /\ \/ failures < MaxFailures /\ failures' = failures + 1
       \/ Choking(status) /\ failures' = failures
    /\ late' = IF LateArrivals /\ status = 0 /\ push.reply = NoReply
               THEN late \cup {push.batch} ELSE late
    /\ UNCHANGED <<written, recovered, server, restarts>>
    /\ IF status >= 500 /\ push.pc = "sent" /\ Len(push.batch) > 1
       THEN /\ push' = [pc |-> "probe", batch |-> <<push.batch[1]>>, reply |-> NoReply]
            /\ UNCHANGED <<queue, quarantine, attempts, saved, copy>>
       ELSE /\ push' = Idle
            /\ IF classifyFailure(status) = "auth"
               THEN UNCHANGED <<queue, quarantine, attempts, saved, copy>>
               ELSE countFailure(push.batch, status)

Choke == \E status \in Statuses : Choking(status) /\ Fail(status)

(* retryQuarantined: back into the queue, behind everything. *)
RetryQuarantined ==
    /\ UserRetries
    /\ quarantine # <<>>
    /\ queue' = trimQueue(queue \o quarantine, MAX_QUEUE)
    /\ quarantine' = <<>>
    /\ persist
    /\ UNCHANGED <<written, attempts, recovered, push, late, server, failures, restarts>>

(* The app is killed and starts again from localStorage. *)
Restart ==
    /\ restarts < MaxRestarts
    /\ restarts' = restarts + 1
    /\ queue' = saved.queue /\ quarantine' = saved.quarantine
    /\ attempts' = [i \in OpId |-> 0]
    /\ recovered' = FALSE
    /\ push' = Idle
    /\ late' = IF LateArrivals /\ push.pc # "idle" /\ push.reply = NoReply
               THEN late \cup {push.batch} ELSE late
    /\ UNCHANGED <<written, saved, copy, server, failures>>

(* The account copy has been read: what the queue does not hold is added. *)
Recover ==
    /\ ~recovered
    /\ recovered' = TRUE
    /\ queue' = queue \o without(copy.queue, ids(queue))
    /\ quarantine' = lastOf(quarantine \o without(copy.quarantine, ids(quarantine)),
                            MAX_QUARANTINE)
    /\ UNCHANGED <<written, attempts, push, saved, copy, late, server, failures, restarts>>

Next ==
    \/ \E payload \in Writes : Enqueue(payload)
    \/ StartPush
    \/ Serve
    \/ \E batch \in late : ServeLate(batch)
    \/ Answered
    \/ \E status \in Statuses : Fail(status)
    \/ RetryQuarantined
    \/ Restart
    \/ Recover

Spec == Init /\ [][Next]_vars

(* The push timer keeps starting pushes and a request is answered or, with   *)
(* poison in it, fails; the user, the other failures and the kills owe       *)
(* nothing.                                                                  *)
FairSpec == /\ Spec
            /\ WF_vars(StartPush) /\ WF_vars(Serve) /\ WF_vars(Choke)
            /\ WF_vars(Answered) /\ WF_vars(Recover)

-------------------------------------------------------------------------------
(* Properties *)

(* The reading time that the operations done of ops add up to. *)
usageOf(ops, done) ==
    LET total[n \in 0..Len(ops)] ==
            IF n = 0 THEN 0
            ELSE total[n - 1] + IF ops[n].kind = "usage.add" /\ ops[n].opId \in done
                                THEN ops[n].value ELSE 0
    IN  total[Len(ops)]

(* However often an operation is sent, lost, sent again after a restart or   *)
(* delivered late, the server counts it once: its total is exactly what the  *)
(* operations it applied add up to, and each of them is the user's.          *)
CountedOnce ==
    /\ applied \subseteq ids(written)
    /\ table.usage = usageOf(written, applied)

pendingIds ==
    ids(queue) \cup ids(quarantine)
    \cup (IF recovered THEN {} ELSE ids(copy.queue) \cup ids(copy.quarantine))

(* What is counted and every event is never lost: the server has it, or the  *)
(* device still does (rule 1 of queue.js: neither merged nor dropped, ever). *)
NothingDropped ==
    \A i \in DOMAIN written :
        classifyOp(written[i].kind) # "state" => i \in applied \cup pendingIds

pendingOps ==
    {queue[i] : i \in DOMAIN queue} \cup {quarantine[i] : i \in DOMAIN quarantine}

(* Progress does not go back: the furthest point the user reached is at the  *)
(* server, or an operation the server has not seen is still going to bring   *)
(* it there.                                                                 *)
ProgressKept ==
    \A i \in DOMAIN written :
        written[i].kind = "progress.set" =>
            \/ table.progress[written[i].key] >= written[i].value
            \/ \E op \in pendingOps :
                  /\ op.kind = "progress.set" /\ op.key = written[i].key
                  /\ op.opId \notin applied
                  /\ op.value >= written[i].value

Settled == recovered /\ push.pc = "idle" /\ queue = <<>> /\ quarantine = <<>>

(* When nothing is waiting any more, the server shows the user's last word.  *)
NewestWins ==
    Settled =>
        \A k \in Key :
            LET about == {i \in DOMAIN written :
                            written[i].kind = "favorite.set" /\ written[i].key = k}
            IN  about # {} =>
                    \E i \in about :
                        /\ \A j \in about : j <= i
                        /\ table.favorite[k] = written[i].value

(* Once the user stops, the queue empties though the server fails on some    *)
(* operations for ever: none of them holds up the ones behind it, and none   *)
(* takes with it another that was in its batch.  Only what is poison itself, *)
(* or is not settled, is set aside, if nothing else failed.                  *)
Drains ==
    <>[](/\ queue = <<>> /\ push.pc = "idle"
         /\ failures = 0 => \A i \in DOMAIN quarantine :
                               poisonous(quarantine[i]) \/ ~applicable(quarantine[i]))
===============================================================================
