---------------------------- MODULE SyncQueueRules ----------------------------
(***************************************************************************)
(* Every queue of at most MaxWrites writes, against the reference the rules  *)
(* of SyncQueue are meant for: the server reached by sending every write.    *)
(***************************************************************************)
EXTENDS SyncQueue

CONSTANTS
    MaxWrites   \* writes in a queue

ASSUME RulesAssumption == MaxWrites \in Nat

VARIABLE waiting  \* the queue, in the order the user wrote

NothingWaits == waiting = <<>>

(* The user writes once more. *)
Write ==
    /\ Len(waiting) < MaxWrites
    /\ \E p \in Payload :
           waiting' = Append(waiting, [opId |-> Len(waiting) + 1,
                                       kind |-> p.kind, key |-> p.key, value |-> p.value])

QueueSpec == NothingWaits /\ [][Write]_waiting

(* Sending the compacted queue leaves the server where sending every write   *)
(* would, whatever the server held before: progress as far as anybody read,  *)
(* the latest of everything else, and nothing counted lost (rules 1 and 2 of *)
(* the file's header).                                                       *)
CompactionKeepsEffect ==
    \A p \in [Key -> 0..MaxValue] :
        LET before == [emptyTable EXCEPT !.progress = p]
        IN  replay(before, compactQueue(waiting)) = replay(before, waiting)

===============================================================================
