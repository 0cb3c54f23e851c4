-------------------------- MODULE SyncAccountsProofs --------------------------
(***************************************************************************)
(* Proofs about SyncAccounts, for any accounts, sign-ins under way and       *)
(* bounds.  No operation is sent under another account's name and no copy of *)
(* a queue holds another account's operations, when a sign-in waits for the  *)
(* sign-out before it.  What was saved once is at the server or on the disk  *)
(* under its account, when moreover none begins while another changes the    *)
(* data, and the disk takes every write.  Who is signed in is who last       *)
(* signed in, across kills too, when the session store takes its writes.     *)
(***************************************************************************)
EXTENDS SyncAccounts, SequenceTheorems, TLAPS

Phase == {"idle", "start", "asked", "check", "switch", "merge", "saving"}
Working == {"asked", "check", "switch"}

Session == {r \in Record : r.token \in {None, r.user}}
FlowRec == [pc : Phase, user : Anyone, gen : Nat, attempt : Nat, read : SUBSET Op,
            wait : Nat, ok : BOOLEAN]
Job == [kind : {"merge", "put"}, owner : Anyone, queue : SUBSET Op]
AuthRec == [token : Anyone, user : Anyone]
DataRec == [owner : Anyone, queue : SUBSET Op]
BootRec == [ready : BOOLEAN, recovered : BOOLEAN, clock : Nat]
OutRec == [pc : {"idle", "start", "saving"}, gen : Nat, stores : Nat, records : Nat, ok : BOOLEAN]
PushRec == [pc : {"idle", "sent", "renewing"}, as : Anyone, owner : Anyone, gen : Nat,
            attempt : Nat, batch : SUBSET Op, again : BOOLEAN, reached : BOOLEAN]
LocalRec == [owner : Anyone, queue : SUBSET Op, record : Session]
Writing == [by : Anyone, for : Anyone]

TypesOK ==
    /\ auth \in AuthRec /\ auth.token \in {None, auth.user}
    /\ data \in DataRec /\ gen \in Nat /\ attempt \in Nat /\ boot \in BootRec
    /\ flow \in [Flow -> FlowRec] /\ out \in OutRec /\ push \in PushRec
    /\ storeJobs \in Seq(Job) /\ recordJobs \in Seq(Session)
    /\ local \in LocalRec /\ store \in [Account -> SUBSET Op] /\ backup \in Session
    /\ wrote \in Seq(Writing) /\ served \in SUBSET (Op \X Anyone)

-------------------------------------------------------------------------------
(* A flow with one part replaced by another of its type: the other parts     *)
(* stay.                                                                     *)

(* Where it is. *)
LEMMA SetPc ==
    ASSUME NEW r \in FlowRec, NEW part \in Phase
    PROVE  LET e == [r EXCEPT !.pc = part] IN
           /\ e \in FlowRec /\ e.pc = part
           /\ e.user = r.user /\ e.gen = r.gen /\ e.attempt = r.attempt
           /\ e.read = r.read /\ e.wait = r.wait
  BY DEF FlowRec

(* Whose it is. *)
LEMMA SetUser ==
    ASSUME NEW r \in FlowRec, NEW part \in Anyone
    PROVE  LET e == [r EXCEPT !.user = part] IN
           /\ e \in FlowRec /\ e.user = part
           /\ e.pc = r.pc /\ e.gen = r.gen /\ e.attempt = r.attempt
           /\ e.read = r.read /\ e.wait = r.wait
  BY DEF FlowRec

(* The session it started in. *)
LEMMA SetGen ==
    ASSUME NEW r \in FlowRec, NEW part \in Nat
    PROVE  LET e == [r EXCEPT !.gen = part] IN
           /\ e \in FlowRec /\ e.gen = part
           /\ e.pc = r.pc /\ e.user = r.user /\ e.attempt = r.attempt
           /\ e.read = r.read /\ e.wait = r.wait
  BY DEF FlowRec

(* The attempt it belongs to. *)
LEMMA SetAttempt ==
    ASSUME NEW r \in FlowRec, NEW part \in Nat
    PROVE  LET e == [r EXCEPT !.attempt = part] IN
           /\ e \in FlowRec /\ e.attempt = part
           /\ e.pc = r.pc /\ e.user = r.user /\ e.gen = r.gen
           /\ e.read = r.read /\ e.wait = r.wait
  BY DEF FlowRec

(* What it read. *)
LEMMA SetRead ==
    ASSUME NEW r \in FlowRec, NEW part \in SUBSET Op
    PROVE  LET e == [r EXCEPT !.read = part] IN
           /\ e \in FlowRec /\ e.read = part
           /\ e.pc = r.pc /\ e.user = r.user /\ e.gen = r.gen /\ e.attempt = r.attempt
           /\ e.wait = r.wait
  BY DEF FlowRec

(* What it waits for. *)
LEMMA SetWait ==
    ASSUME NEW r \in FlowRec, NEW part \in Nat
    PROVE  LET e == [r EXCEPT !.wait = part] IN
           /\ e \in FlowRec /\ e.wait = part
           /\ e.pc = r.pc /\ e.user = r.user /\ e.gen = r.gen /\ e.attempt = r.attempt
           /\ e.read = r.read
  BY DEF FlowRec

(* Whether it was saved. *)
LEMMA SetOk ==
    ASSUME NEW r \in FlowRec, NEW part \in BOOLEAN
    PROVE  LET e == [r EXCEPT !.ok = part] IN
           /\ e \in FlowRec
           /\ e.pc = r.pc /\ e.user = r.user /\ e.gen = r.gen /\ e.attempt = r.attempt
           /\ e.read = r.read /\ e.wait = r.wait
  BY DEF FlowRec

(* A flow of its own is put in its place. *)
LEMMA PutFlow ==
    ASSUME flow \in [Flow -> FlowRec], NEW f \in Flow, NEW x \in FlowRec
    PROVE  LET e == [flow EXCEPT ![f] = x] IN
           /\ e \in [Flow -> FlowRec] /\ e[f] = x
           /\ \A g \in Flow : g # f => e[g] = flow[g]
  OBVIOUS

-------------------------------------------------------------------------------
(* What the handlers share.                                                  *)

(* A flow that has ended, and one that starts. *)
LEMMA IdleParts ==
    /\ Idle \in FlowRec /\ Idle.pc = "idle" /\ Idle.gen = 0 /\ Idle.attempt = 0
    /\ Idle.wait = 0 /\ Idle.user = None
    /\ Starting \in FlowRec /\ Starting.pc = "start" /\ Starting.gen = 0 /\ Starting.attempt = 0
    /\ Starting.wait = 0 /\ Starting.user = None
  <1>1. Idle \in FlowRec /\ Idle.pc = "idle" /\ Idle.gen = 0 /\ Idle.attempt = 0
        /\ Idle.wait = 0 /\ Idle.user = None
    BY SMT DEF Idle, FlowRec, Phase, Anyone
  <1>2. "start" \in Phase
    BY DEF Phase
  <1>3. QED
    BY <1>1, <1>2, SetPc DEF Starting

(* A record of a session. *)
LEMMA RecordParts ==
    ASSUME TypesOK, NEW user \in Anyone, NEW token \in {None, user}, NEW signedOut \in BOOLEAN
    PROVE  /\ NoRecord \in Session
           /\ record(token, user, signedOut) \in Session
           /\ user # None => record(token, user, signedOut) # NoRecord
           /\ signedOut => record(token, user, signedOut) # NoRecord
  <1>1. boot.clock + 1 \in Nat /\ boot.clock + 1 # -1
    BY SMT DEF TypesOK, BootRec
  <1>2. NoRecord \in Session /\ NoRecord.at = -1
    BY SMT DEF NoRecord, Session, Record, Anyone
  <1> DEFINE r == [at |-> boot.clock + 1, token |-> token, user |-> user]
  <1>3. r \in Record /\ r.at = boot.clock + 1 /\ r.token = token /\ r.user = user
    BY <1>1 DEF Record, Anyone
  <1>4. r \in Session /\ r # NoRecord
    BY <1>1, <1>2, <1>3 DEF Session
  <1>5. record(token, user, signedOut) = IF user = None /\ ~signedOut THEN NoRecord ELSE r
    BY DEF record
  <1>6. QED
    BY <1>2, <1>4, <1>5

(* The records under way, with one more. *)
LEMMA QueuedParts ==
    ASSUME TypesOK, NEW r \in Session
    PROVE  /\ queued(r) \in Seq(Session)
           /\ Len(recordJobs) \in Nat /\ Len(recordJobs) <= Len(queued(r))
           /\ r # NoRecord => Len(queued(r)) = Len(recordJobs) + 1
  BY SMT DEF queued, TypesOK

(* Saving a record changes the clock of the start and the records under way. *)
LEMMA SaveParts ==
    ASSUME TypesOK, NEW r \in Session, SaveRecord(r)
    PROVE  /\ boot' \in BootRec /\ boot'.ready = boot.ready /\ boot'.recovered = boot.recovered
           /\ recordJobs' \in Seq(Session)
           /\ Len(recordJobs) \in Nat /\ Len(recordJobs) <= Len(recordJobs')
           /\ r # NoRecord => Len(recordJobs') = Len(recordJobs) + 1
  <1>1. boot \in BootRec /\ boot.clock + 1 \in Nat
    BY SMT DEF TypesOK, BootRec
  <1>2. boot' = [boot EXCEPT !.clock = boot.clock + 1] /\ recordJobs' = queued(r)
    BY DEF SaveRecord
  <1>3. boot' \in BootRec /\ boot'.ready = boot.ready /\ boot'.recovered = boot.recovered
    BY <1>1, <1>2 DEF BootRec
  <1>4. QED
    BY <1>2, <1>3, QueuedParts

(* What localStorage holds of the session. *)
LEMMA RecordedParts ==
    ASSUME NEW l \in LocalRec, NEW r \in Session, NEW full \in BOOLEAN
    PROVE  LET e == recorded(l, r, full) IN
           e \in LocalRec /\ e.owner = l.owner /\ e.queue = l.queue
  <1> DEFINE e == [l EXCEPT !.record = r]
  <1>1. e \in LocalRec /\ e.owner = l.owner /\ e.queue = l.queue
    BY DEF LocalRec
  <1>2. QED
    BY <1>1 DEF recorded

(* The account-store writes under way, with the checkpoint of what is in     *)
(* memory.                                                                   *)
LEMMA CheckpointParts ==
    ASSUME TypesOK
    PROVE  /\ checkpoint \in Seq(Job) /\ checkpointed \in Nat
           /\ \A i \in 1..Len(checkpoint) :
                 \/ i \in 1..Len(storeJobs) /\ checkpoint[i] = storeJobs[i]
                 \/ /\ checkpoint[i].owner = data.owner /\ checkpoint[i].queue = data.queue
                    /\ data.owner # None
  <1> DEFINE job == [kind |-> "merge", owner |-> data.owner, queue |-> data.queue]
  <1>1. storeJobs \in Seq(Job) /\ data.owner \in Anyone /\ data.queue \in SUBSET Op
    BY DEF TypesOK, DataRec
  <1>2. job \in Job /\ job.owner = data.owner /\ job.queue = data.queue
    BY <1>1 DEF Job
  <1> HIDE DEF job
  <1>3. checkpoint = IF data.owner = None THEN storeJobs ELSE Append(storeJobs, job)
    BY DEF checkpoint, job
  <1>4. checkpoint \in Seq(Job)
    BY <1>1, <1>2, <1>3
  <1>5. checkpointed \in Nat
    BY <1>1, SMT DEF checkpointed
  <1>6. CASE data.owner = None
    BY <1>3, <1>4, <1>5, <1>6
  <1>7. CASE data.owner # None
    <2>1. checkpoint = Append(storeJobs, job)
      BY <1>3, <1>7
    <2>2. \A i \in 1..Len(checkpoint) :
             \/ i \in 1..Len(storeJobs) /\ checkpoint[i] = storeJobs[i]
             \/ checkpoint[i] = job
      BY <1>1, <1>2, <2>1, SMT
    <2>3. QED
      BY <1>2, <1>4, <1>5, <1>7, <2>2
  <1>8. QED
    BY <1>6, <1>7

(* A flow waits for its checkpoint. *)
LEMMA WaitingParts ==
    ASSUME TypesOK, NEW f \in Flow, NEW next \in FlowRec, Checkpoint(f, next)
    PROVE  /\ flow' \in [Flow -> FlowRec] /\ \A g \in Flow : g # f => flow'[g] = flow[g]
           /\ flow'[f].pc = next.pc /\ flow'[f].user = next.user /\ flow'[f].gen = next.gen
           /\ flow'[f].attempt = next.attempt /\ flow'[f].read = next.read
           /\ storeJobs' = checkpoint
  <1> DEFINE x == [next EXCEPT !.wait = checkpointed]
  <1>1. /\ x \in FlowRec /\ x.pc = next.pc /\ x.user = next.user /\ x.gen = next.gen
        /\ x.attempt = next.attempt /\ x.read = next.read
    BY CheckpointParts, SetWait
  <1>2. flow' = [flow EXCEPT ![f] = x] /\ storeJobs' = checkpoint
    BY DEF Checkpoint
  <1> HIDE DEF x
  <1>3. flow \in [Flow -> FlowRec]
    BY DEF TypesOK
  <1>4. QED
    BY <1>1, <1>2, <1>3, PutFlow

(* A flow ends. *)
LEMMA AbandonParts ==
    ASSUME TypesOK, NEW f \in Flow, Abandon(f)
    PROVE  /\ flow' = [flow EXCEPT ![f] = Idle]
           /\ flow' \in [Flow -> FlowRec] /\ flow'[f] = Idle
           /\ \A g \in Flow : g # f => flow'[g] = flow[g]
           /\ boot' \in BootRec /\ boot'.ready = boot.ready
           /\ boot'.recovered <=> boot.recovered \/ f = "boot"
           /\ push' = IF f = "renew" /\ push.pc = "renewing" THEN NoPush ELSE push
  <1>1. flow \in [Flow -> FlowRec] /\ boot \in BootRec
    BY DEF TypesOK
  <1>2. /\ flow' = [flow EXCEPT ![f] = Idle]
        /\ boot' = [boot EXCEPT !.recovered = @ \/ f = "boot"]
        /\ push' = IF f = "renew" /\ push.pc = "renewing" THEN NoPush ELSE push
    BY DEF Abandon, unanswered
  <1>3. boot' \in BootRec /\ boot'.ready = boot.ready
        /\ boot'.recovered = (boot.recovered \/ f = "boot")
    BY <1>1, <1>2, Zenon DEF BootRec
  <1>4. flow' \in [Flow -> FlowRec] /\ flow'[f] = Idle /\ \A g \in Flow : g # f => flow'[g] = flow[g]
    BY <1>1, <1>2, IdleParts, PutFlow
  <1>5. QED
    BY <1>2, <1>3, <1>4

(* An account becomes who the device acts as. *)
LEMMA InstallParts ==
    ASSUME TypesOK, NEW f \in Flow, flow[f].user \in Account, NEW l \in LocalRec,
           NEW full \in BOOLEAN, Install(f, l, full)
    PROVE  /\ auth' \in AuthRec /\ auth'.token = flow[f].user /\ auth'.user = flow[f].user
           /\ gen' = gen + 1
           /\ local' \in LocalRec /\ local'.owner = l.owner /\ local'.queue = l.queue
           /\ boot' \in BootRec /\ boot'.ready = boot.ready /\ boot'.recovered = boot.recovered
           /\ recordJobs' \in Seq(Session) /\ Len(recordJobs) \in Nat
           /\ Len(recordJobs') = Len(recordJobs) + 1
           /\ flow' \in [Flow -> FlowRec] /\ \A g \in Flow : g # f => flow'[g] = flow[g]
           /\ flow'[f].pc = "saving" /\ flow'[f].user = flow[f].user
           /\ flow'[f].gen = gen + 1 /\ flow'[f].attempt = flow[f].attempt
           /\ flow'[f].wait = Len(recordJobs) + 1
           /\ UNCHANGED <<attempt, push>>
  <1> DEFINE u == flow[f].user
             r == record(u, u, FALSE)
             saving == "saving"
             ok == ~full
             x1 == [flow[f] EXCEPT !.pc = saving]
             x2 == [x1 EXCEPT !.gen = gen + 1]
             x3 == [x2 EXCEPT !.wait = Len(recordJobs) + 1]
             x4 == [x3 EXCEPT !.ok = ok]
             x5 == [x4 EXCEPT !.read = {}]
  <1>1. u \in Anyone /\ u # None /\ flow[f] \in FlowRec /\ saving \in Phase /\ ok \in BOOLEAN
        /\ gen + 1 \in Nat /\ Len(recordJobs) \in Nat /\ Len(recordJobs) + 1 \in Nat
    BY AccountsAssumption, SMT DEF TypesOK, Anyone, Phase
  <1>2. r \in Session /\ r # NoRecord
    BY <1>1, RecordParts
  <1>3. /\ auth' = [token |-> u, user |-> u] /\ gen' = gen + 1 /\ local' = recorded(l, r, full)
        /\ SaveRecord(r) /\ UNCHANGED <<attempt, push>>
        /\ flow' = [flow EXCEPT ![f] = x5]
    BY DEF Install
  <1> HIDE DEF r, ok
  <1>4. auth' \in AuthRec /\ auth'.token = u /\ auth'.user = u
    BY <1>1, <1>3 DEF AuthRec
  <1>5. local' \in LocalRec /\ local'.owner = l.owner /\ local'.queue = l.queue
    BY <1>2, <1>3, RecordedParts
  <1>6. /\ boot' \in BootRec /\ boot'.ready = boot.ready /\ boot'.recovered = boot.recovered
        /\ recordJobs' \in Seq(Session) /\ Len(recordJobs') = Len(recordJobs) + 1
    BY <1>2, <1>3, SaveParts
  <1>7. x1 \in FlowRec /\ x1.pc = saving /\ x1.user = u /\ x1.attempt = flow[f].attempt
    BY <1>1, SetPc
  <1> HIDE DEF x1, saving
  <1>8. x2 \in FlowRec /\ x2.pc = saving /\ x2.user = u /\ x2.attempt = flow[f].attempt
        /\ x2.gen = gen + 1
    BY <1>1, <1>7, SetGen
  <1> HIDE DEF x2
  <1>9. x3 \in FlowRec /\ x3.pc = saving /\ x3.user = u /\ x3.attempt = flow[f].attempt
        /\ x3.gen = gen + 1 /\ x3.wait = Len(recordJobs) + 1
    BY <1>1, <1>8, SetWait
  <1> HIDE DEF x3
  <1>10. x4 \in FlowRec /\ x4.pc = saving /\ x4.user = u /\ x4.attempt = flow[f].attempt
         /\ x4.gen = gen + 1 /\ x4.wait = Len(recordJobs) + 1
    BY <1>1, <1>9, SetOk
  <1> HIDE DEF x4
  <1>11. x5 \in FlowRec /\ x5.pc = saving /\ x5.user = u /\ x5.attempt = flow[f].attempt
         /\ x5.gen = gen + 1 /\ x5.wait = Len(recordJobs) + 1
    BY <1>10, SetRead
  <1> HIDE DEF x5
  <1>12. flow' \in [Flow -> FlowRec] /\ flow'[f] = x5 /\ \A g \in Flow : g # f => flow'[g] = flow[g]
    BY <1>3, <1>11, PutFlow DEF TypesOK
  <1>13. QED
    BY <1>1, <1>3, <1>4, <1>5, <1>6, <1>11, <1>12 DEF saving

(* Data and localStorage after a change of the queue. *)
LEMMA PersistParts ==
    ASSUME TypesOK, NEW queue \in SUBSET Op, PersistQueue(queue)
    PROVE  /\ data' \in DataRec /\ data'.owner = data.owner /\ data'.queue = queue
           /\ local' \in LocalRec /\ local'.owner = local.owner
           /\ \/ local'.queue = local.queue
              \/ local'.queue = queue /\ local.owner = data.owner /\ local.owner # None
           /\ storeJobs' \in Seq(Job)
           /\ \A i \in 1..Len(storeJobs') :
                 \/ i \in 1..Len(storeJobs) /\ storeJobs'[i] = storeJobs[i]
                 \/ storeJobs'[i].owner = data.owner /\ storeJobs'[i].queue = queue
  <1> DEFINE job == [kind |-> "put", owner |-> data.owner, queue |-> queue]
  <1>1. storeJobs \in Seq(Job) /\ data \in DataRec /\ local \in LocalRec
    BY DEF TypesOK
  <1>2. job \in Job /\ job.owner = data.owner /\ job.queue = queue
    BY <1>1 DEF Job, DataRec
  <1> HIDE DEF job
  <1>3. /\ data' = [data EXCEPT !.queue = queue]
        /\ storeJobs' = Append(storeJobs, job)
        /\ \/ local' = local
           \/ ownsCache /\ local' = [local EXCEPT !.queue = queue]
    BY DEF PersistQueue, job
  <1>4. data' \in DataRec /\ data'.owner = data.owner /\ data'.queue = queue
    BY <1>1, <1>3 DEF DataRec
  <1>5. /\ local' \in LocalRec /\ local'.owner = local.owner
        /\ \/ local'.queue = local.queue
           \/ local'.queue = queue /\ local.owner = data.owner /\ local.owner # None
    BY <1>1, <1>3 DEF LocalRec, ownsCache
  <1>6. /\ storeJobs' \in Seq(Job)
        /\ \A i \in 1..Len(storeJobs') :
              \/ i \in 1..Len(storeJobs) /\ storeJobs'[i] = storeJobs[i]
              \/ storeJobs'[i] = job
    BY <1>1, <1>2, <1>3, SMT
  <1>7. QED
    BY <1>2, <1>4, <1>5, <1>6

(* The token is given up. *)
LEMMA GiveUpParts ==
    ASSUME TypesOK, GiveUp
    PROVE  /\ auth' \in AuthRec /\ auth'.user = auth.user /\ auth'.token = None
           /\ local' \in LocalRec /\ local'.owner = local.owner /\ local'.queue = local.queue
           /\ boot' \in BootRec /\ boot'.ready = boot.ready /\ boot'.recovered = boot.recovered
           /\ recordJobs' \in Seq(Session)
           /\ Len(recordJobs) \in Nat /\ Len(recordJobs) <= Len(recordJobs')
  <1> DEFINE r == record(None, auth.user, FALSE)
  <1>1. auth \in AuthRec /\ auth.user \in Anyone /\ None \in Anyone
    BY DEF TypesOK, AuthRec, Anyone
  <1>2. r \in Session
    BY <1>1, RecordParts
  <1>3. /\ auth' = [auth EXCEPT !.token = None] /\ SaveRecord(r)
        /\ \E full \in Full : local' = recorded(local, r, full)
    BY DEF GiveUp
  <1> HIDE DEF r
  <1>4. auth' \in AuthRec /\ auth'.user = auth.user /\ auth'.token = None
    BY <1>1, <1>3 DEF AuthRec
  <1>5. local' \in LocalRec /\ local'.owner = local.owner /\ local'.queue = local.queue
    <2>1. PICK full \in BOOLEAN : local' = recorded(local, r, full)
      BY <1>3 DEF Full
    <2>2. local \in LocalRec
      BY DEF TypesOK
    <2>3. QED
      BY <1>2, <2>1, <2>2, RecordedParts
  <1>6. QED
    BY <1>2, <1>3, <1>4, <1>5, SaveParts

(* Nothing is sent. *)
LEMMA NoPushParts == NoPush \in PushRec /\ NoPush.pc = "idle"
  BY SMT DEF NoPush, PushRec, Anyone

-------------------------------------------------------------------------------
(* The invariant.                                                            *)

(* A queue of somebody holds what was written under that name. *)
OwnQueue(owner, queue) == owner # None => queue \subseteq authored(owner)

(* So does every copy of one: in memory, on disk, under way to the disk, and *)
(* read by a flow that is about to install it.                               *)
Queues ==
    /\ OwnQueue(data.owner, data.queue)
    /\ OwnQueue(local.owner, local.queue)
    /\ local.owner = None => local.queue = {}
    /\ \A u \in Account : store[u] \subseteq authored(u)
    /\ \A i \in 1..Len(storeJobs) : OwnQueue(storeJobs[i].owner, storeJobs[i].queue)
    /\ \A f \in Flow : flow[f].pc = "switch" => OwnQueue(flow[f].user, flow[f].read)

(* Nobody signs in before the start of the app has come to its end, and the  *)
(* start merges a queue into the data it has chosen.                         *)
Boots ==
    /\ boot.recovered => boot.ready /\ flow["boot"].pc = "idle"
    /\ flow["boot"].pc \in {"check", "switch", "merge"} => boot.ready
    /\ flow["boot"].pc \notin {"asked", "saving"}
    /\ ~boot.recovered => \A f \in Flow \ {"boot"} : flow[f].pc \in {"idle", "start"}
    /\ flow["boot"].pc = "merge" /\ flow["boot"].gen = gen => data.owner = flow["boot"].user

(* Flows are of sessions and attempts that were; who waits for a record      *)
(* waits for one that is under way.                                          *)
Clock(f) ==
    /\ flow[f].gen <= gen /\ flow[f].attempt <= attempt
    /\ flow[f].pc = "saving" => flow[f].wait <= Len(recordJobs)
    /\ f # "boot" /\ flow[f].pc # "idle" => flow[f].user \in Account

Clocks == \A f \in Flow : Clock(f)

(* Between the answer to a renewal and the repetition of the request that    *)
(* waited for it nobody else signs in: who left the renewed account before   *)
(* signing in waits for a record behind the renewal's, and who signed out    *)
(* has not ended yet.                                                        *)
Current(f) == flow[f].gen = gen /\ flow[f].attempt = attempt

Behind(f) ==
    \/ flow[f].user = flow["renew"].user
    \/ flow[f].pc = "asked" /\ flow["renew"].wait < flow[f].wait

Left(f) == flow[f].pc \in {"idle", "saving"} \/ flow[f].attempt < attempt

SignedOut ==
    /\ out.pc = "saving" /\ flow["renew"].wait < out.records
    /\ \A f \in Login : Left(f)

Renewal ==
    flow["renew"].pc = "saving" =>
        /\ auth.user \in {None, flow["renew"].user}
        /\ \A f \in Login : flow[f].pc \in Working /\ Current(f) => Behind(f)
        /\ auth.user = None => SignedOut

(* A request carries one account's operations under that account's token.    *)
Pushes ==
    push.pc # "idle" =>
        /\ boot.recovered
        /\ push.owner # None /\ push.batch \subseteq authored(push.owner)
        /\ push.as \in {None, push.owner}
        /\ push.as = None => push.again
        /\ push.pc = "renewing" => /\ flow["renew"].pc \notin {"idle", "start"}
                                   /\ flow["renew"].user = push.owner

Served == \A s \in served : s[1] \in authored(s[2])

IInv == TypesOK /\ Queues /\ Boots /\ Clocks /\ Renewal /\ Pushes /\ Served

-------------------------------------------------------------------------------
(* What a step of one flow keeps.                                            *)

(* The names of flows. *)
LEMMA Flows ==
    /\ "boot" \in Flow /\ "renew" \in Flow /\ Login \subseteq Flow
    /\ "boot" \notin Login /\ "renew" \notin Login /\ "boot" # "renew"
    /\ \A f \in Flow : f = "boot" \/ f = "renew" \/ f \in Login
  BY AccountsAssumption DEF Flow

(* The clocks, when one flow moves and time does not run back. *)
LEMMA ClocksKept ==
    ASSUME IInv, NEW f \in Flow,
           flow' \in [Flow -> FlowRec], \A g \in Flow : g # f => flow'[g] = flow[g],
           gen' \in Nat, gen <= gen', attempt' \in Nat, attempt <= attempt',
           Len(recordJobs') \in Nat, Len(recordJobs) <= Len(recordJobs'),
           Clock(f)'
    PROVE  Clocks'
  <1> SUFFICES ASSUME NEW g \in Flow, g # f PROVE Clock(g)'
    BY DEF Clocks
  <1>1. /\ flow'[g] = flow[g] /\ Clock(g) /\ gen \in Nat /\ attempt \in Nat
        /\ flow[g].gen \in Nat /\ flow[g].attempt \in Nat /\ flow[g].wait \in Nat
        /\ Len(recordJobs) \in Nat
    BY DEF IInv, Clocks, TypesOK, FlowRec
  <1>2. flow'[g].gen <= gen' /\ flow'[g].attempt <= attempt'
    BY <1>1, SMT DEF Clock
  <1>3. flow'[g].pc = "saving" => flow'[g].wait <= Len(recordJobs')
    BY <1>1, SMT DEF Clock
  <1>4. QED
    BY <1>1, <1>2, <1>3 DEF Clock

(* The renewal, when one flow moves in the same session. *)
LEMMA RenewalKept ==
    ASSUME IInv, NEW f \in Flow, \A g \in Flow : g # f => flow'[g] = flow[g],
           auth'.user = auth.user, gen' = gen, attempt' = attempt, out' = out,
           f = "renew" => flow'[f].pc # "saving",
           f \in Login /\ flow["renew"].pc = "saving" =>
               /\ flow'[f].pc \in Working /\ Current(f)' => Behind(f)'
               /\ auth.user = None => Left(f)'
    PROVE  Renewal'
  <1> SUFFICES ASSUME flow'["renew"].pc = "saving"
               PROVE  /\ auth'.user \in {None, flow'["renew"].user}
                      /\ \A g \in Login : flow'[g].pc \in Working /\ Current(g)' => Behind(g)'
                      /\ auth'.user = None => SignedOut'
    BY DEF Renewal
  <1>1. f # "renew" /\ flow'["renew"] = flow["renew"] /\ flow["renew"].pc = "saving"
    BY Flows
  <1>2. /\ auth.user \in {None, flow["renew"].user}
        /\ \A g \in Login : flow[g].pc \in Working /\ Current(g) => Behind(g)
        /\ auth.user = None => SignedOut
    BY <1>1 DEF IInv, Renewal
  <1>3. ASSUME NEW g \in Login
        PROVE  /\ flow'[g].pc \in Working /\ Current(g)' => Behind(g)'
               /\ auth.user = None => Left(g)'
    BY <1>1, <1>2, Flows DEF Current, Behind, Left, SignedOut
  <1>4. QED
    BY <1>1, <1>2, <1>3 DEF SignedOut

(* The renewal, when an account is installed: the renewed one by the         *)
(* renewal, or by a sign-in that may.                                        *)
LEMMA RenewalInstalled ==
    ASSUME IInv, NEW f \in Flow \ {"boot"}, \A g \in Flow : g # f => flow'[g] = flow[g],
           flow'[f].pc = "saving", flow'[f].user = flow[f].user, flow[f].user \in Account,
           auth'.user = flow[f].user, gen' = gen + 1, attempt' = attempt,
           f \in Login /\ flow["renew"].pc = "saving" => flow[f].user = flow["renew"].user
    PROVE  Renewal'
  <1>1. auth'.user # None
    BY AccountsAssumption
  <1>2. ASSUME NEW g \in Login, flow'[g].pc \in Working PROVE ~Current(g)'
    <2>1. g # f
      BY <1>2, SMT DEF Working
    <2>2. flow'[g] = flow[g] /\ flow[g].gen <= gen /\ flow[g].gen \in Nat /\ gen \in Nat
      BY <2>1, Flows DEF IInv, Clocks, Clock, TypesOK, FlowRec
    <2>3. flow[g].gen # gen + 1
      BY <2>2, SMT
    <2>4. QED
      BY <2>2, <2>3 DEF Current
  <1>3. flow'["renew"].pc = "saving" => auth'.user = flow'["renew"].user
    BY Flows
  <1>4. QED
    BY <1>1, <1>2, <1>3 DEF Renewal

(* The request, when a flow moves that is not the renewal, or the renewal    *)
(* goes on.                                                                  *)
LEMMA PushesKept ==
    ASSUME IInv, NEW f \in Flow, \A g \in Flow : g # f => flow'[g] = flow[g],
           UNCHANGED <<push, wrote>>, boot.recovered => boot'.recovered,
           f = "renew" => flow'[f].pc \notin {"idle", "start"} /\ flow'[f].user = flow[f].user
    PROVE  Pushes'
  BY Flows DEF IInv, Pushes, authored

(* A flow ends: everything but the data follows.                             *)
LEMMA EndKeeps ==
    ASSUME IInv, NEW f \in Flow, Abandon(f), UNCHANGED <<gen, attempt, out, wrote>>,
           auth'.user = auth.user, Len(recordJobs') \in Nat, Len(recordJobs) <= Len(recordJobs'),
           f = "boot" => boot.ready,
           flow["boot"].pc = "merge" => f = "boot" \/ data'.owner = data.owner
    PROVE  /\ flow' \in [Flow -> FlowRec] /\ boot' \in BootRec /\ push' \in PushRec
           /\ Boots' /\ Clocks' /\ Renewal' /\ Pushes'
           /\ \A g \in Flow : flow'[g].pc = "switch" => flow'[g] = flow[g]
  <1>1. TypesOK /\ Boots /\ gen \in Nat /\ attempt \in Nat
    BY DEF IInv, TypesOK
  <1>2. /\ flow' \in [Flow -> FlowRec] /\ flow'[f] = Idle
        /\ \A g \in Flow : g # f => flow'[g] = flow[g]
        /\ boot' \in BootRec /\ boot'.ready = boot.ready
        /\ boot'.recovered <=> boot.recovered \/ f = "boot"
        /\ push' = IF f = "renew" /\ push.pc = "renewing" THEN NoPush ELSE push
    BY <1>1, AbandonParts
  <1>3. Boots'
    BY <1>1, <1>2, Flows, IdleParts DEF Boots
  <1>4. Clocks'
    <2>1. 0 <= gen /\ 0 <= attempt /\ gen <= gen /\ attempt <= attempt
      BY <1>1, SMT
    <2>2. Clock(f)'
      BY <1>2, <2>1, IdleParts DEF Clock
    <2>3. QED
      BY <1>1, <1>2, <2>1, <2>2, ClocksKept
  <1>5. Renewal'
    <2>1. flow'[f].pc = "idle" /\ "idle" \notin Working
      BY <1>2, IdleParts DEF Working
    <2>2. QED
      BY <1>2, <2>1, RenewalKept DEF Left
  <1>6. push' \in PushRec
    BY <1>1, <1>2, NoPushParts DEF TypesOK
  <1>7. Pushes'
    BY <1>2, Flows, NoPushParts DEF IInv, Pushes, authored
  <1>8. QED
    BY <1>2, <1>3, <1>4, <1>5, <1>6, <1>7, IdleParts

(* The queues, when data are unchanged or replaced by somebody's own, memory *)
(* is checkpointed or not, and a flow that is about to change the data has   *)
(* read its own account's.                                                   *)
LEMMA QueuesKept ==
    ASSUME IInv, UNCHANGED <<store, wrote>>,
           OwnQueue(data'.owner, data'.queue),
           local'.queue = local.queue, local'.owner = local.owner \/ local.owner = None,
           storeJobs' = storeJobs \/ storeJobs' = checkpoint,
           \A g \in Flow : flow'[g].pc = "switch" =>
               flow'[g] = flow[g] \/ OwnQueue(flow'[g].user, flow'[g].read)
    PROVE  Queues'
  <1>1. Queues /\ TypesOK
    BY DEF IInv
  <1>2. \A u : authored(u)' = authored(u)
    BY DEF authored
  <1>3. \A owner, queue : OwnQueue(owner, queue) => (owner # None => queue \subseteq authored(owner)')
    BY <1>2 DEF OwnQueue
  <1>4. \A i \in 1..Len(storeJobs') : OwnQueue(storeJobs'[i].owner, storeJobs'[i].queue)
    BY <1>1, CheckpointParts DEF Queues
  <1>5. OwnQueue(local'.owner, local'.queue) /\ (local'.owner = None => local'.queue = {})
    BY <1>1 DEF Queues, OwnQueue
  <1>6. \A g \in Flow : flow'[g].pc = "switch" => OwnQueue(flow'[g].user, flow'[g].read)
    BY <1>1 DEF Queues
  <1>7. \A u \in Account : store'[u] \subseteq authored(u)'
    BY <1>1, <1>2 DEF Queues
  <1>8. QED
    BY <1>2, <1>4, <1>5, <1>6, <1>7 DEF Queues, OwnQueue

(* What was served, when nothing is written or served. *)
LEMMA ServedKept ==
    ASSUME IInv, UNCHANGED <<wrote, served>>
    PROVE  Served'
  BY DEF IInv, Served, authored

(* A flow beyond its start has found the app started. *)
LEMMA StartedFlow ==
    ASSUME IInv, NEW f \in Flow \ {"boot"}, flow[f].pc \notin {"idle", "start"}
    PROVE  boot.recovered /\ boot.ready /\ flow["boot"].pc = "idle" /\ flow[f].user \in Account
  BY DEF IInv, Boots, Clocks, Clock

(* A flow ends, and nothing else happens. *)
LEMMA EndStep ==
    ASSUME IInv, NEW f \in Flow, Abandon(f), f = "boot" => boot.ready,
           UNCHANGED <<auth, data, gen, attempt, out, jobs, disk, wrote, served>>
    PROVE  IInv'
  <1>1. TypesOK /\ UNCHANGED <<storeJobs, recordJobs, local, store, backup>>
    BY DEF IInv, jobs, disk
  <1>2. Len(recordJobs') \in Nat /\ Len(recordJobs) <= Len(recordJobs')
    BY <1>1, SMT DEF TypesOK
  <1>3. /\ flow' \in [Flow -> FlowRec] /\ boot' \in BootRec /\ push' \in PushRec
        /\ Boots' /\ Clocks' /\ Renewal' /\ Pushes'
        /\ \A g \in Flow : flow'[g].pc = "switch" => flow'[g] = flow[g]
    BY <1>1, <1>2, EndKeeps
  <1>4. TypesOK'
    BY <1>1, <1>3 DEF TypesOK
  <1>5. Queues'
    BY <1>1, <1>3, QueuesKept DEF IInv, Queues
  <1>6. QED
    BY <1>3, <1>4, <1>5, ServedKept DEF IInv

(* An account is installed over data that are its own. *)
LEMMA InstallStep ==
    ASSUME IInv, NEW f \in Flow \ {"boot"}, flow[f].pc \in Working,
           NEW l \in LocalRec, l.queue = local.queue, l.owner = local.owner \/ local.owner = None,
           NEW full \in BOOLEAN, Install(f, l, full),
           data' \in DataRec, OwnQueue(data'.owner, data'.queue),
           UNCHANGED <<out, storeJobs, store, backup, wrote, served>>,
           f \in Login /\ flow["renew"].pc = "saving" => flow[f].user = flow["renew"].user
    PROVE  IInv'
  <1>1. TypesOK /\ flow[f].pc \notin {"idle", "start", "saving"}
    BY SMT DEF IInv, Working
  <1>2. boot.recovered /\ boot.ready /\ flow["boot"].pc = "idle" /\ flow[f].user \in Account
    BY <1>1, StartedFlow
  <1>3. /\ auth' \in AuthRec /\ auth'.token = flow[f].user /\ auth'.user = flow[f].user
        /\ gen' = gen + 1
        /\ local' \in LocalRec /\ local'.owner = l.owner /\ local'.queue = l.queue
        /\ boot' \in BootRec /\ boot'.ready = boot.ready /\ boot'.recovered = boot.recovered
        /\ recordJobs' \in Seq(Session) /\ Len(recordJobs) \in Nat
        /\ Len(recordJobs') = Len(recordJobs) + 1
        /\ flow' \in [Flow -> FlowRec] /\ \A g \in Flow : g # f => flow'[g] = flow[g]
        /\ flow'[f].pc = "saving" /\ flow'[f].user = flow[f].user
        /\ flow'[f].gen = gen + 1 /\ flow'[f].attempt = flow[f].attempt
        /\ flow'[f].wait = Len(recordJobs) + 1
        /\ UNCHANGED <<attempt, push>>
    BY <1>1, <1>2, InstallParts
  <1>4. /\ gen \in Nat /\ gen + 1 \in Nat /\ attempt \in Nat /\ flow[f].attempt <= attempt
        /\ Len(recordJobs) + 1 \in Nat
    BY <1>1, <1>3, SMT DEF IInv, TypesOK, Clocks, Clock
  <1>5. /\ gen <= gen + 1 /\ gen + 1 <= gen + 1 /\ attempt <= attempt
        /\ Len(recordJobs) <= Len(recordJobs) + 1 /\ Len(recordJobs) + 1 <= Len(recordJobs) + 1
    BY <1>3, <1>4, SMT
  <1>6. TypesOK'
    BY <1>1, <1>3, <1>4 DEF TypesOK
  <1>7. Queues'
    BY <1>3, QueuesKept
  <1>8. Boots'
    BY <1>2, <1>3, Flows DEF IInv, Boots
  <1>9. Clocks'
    <2>1. Clock(f)'
      BY <1>2, <1>3, <1>4, <1>5 DEF Clock
    <2>2. QED
      BY <1>3, <1>4, <1>5, <2>1, ClocksKept
  <1>10. Renewal'
    BY <1>2, <1>3, RenewalInstalled
  <1>11. Pushes'
    BY <1>3, PushesKept
  <1>12. QED
    BY <1>6, <1>7, <1>8, <1>9, <1>10, <1>11, ServedKept DEF IInv

(* A sign-in or renewal that was answered keeps the data or begins to change *)
(* them.                                                                     *)
LEMMA PersistStep ==
    ASSUME IInv, NEW f \in Flow \ {"boot"}, flow[f].pc = "asked", Persist(f),
           UNCHANGED <<data, out, store, backup, wrote, served>>,
           f \in Login => flow[f].attempt = attempt,
           f \in Login /\ flow["renew"].pc = "saving" => flow[f].user = flow["renew"].user
    PROVE  IInv'
  <1>1. TypesOK /\ Queues
    BY DEF IInv
  <1>2. boot.recovered /\ boot.ready /\ flow["boot"].pc = "idle" /\ flow[f].user \in Account
    BY StartedFlow
  <1>3. ASSUME NEW full \in Full, Install(f, local, full), UNCHANGED storeJobs PROVE IInv'
    <2>1. flow[f].pc \in Working /\ local \in LocalRec
      BY <1>1 DEF Working, TypesOK
    <2>2. data' \in DataRec /\ OwnQueue(data'.owner, data'.queue)
      BY <1>1 DEF TypesOK, Queues
    <2>3. full \in BOOLEAN
      BY <1>3 DEF Full
    <2>4. QED
      BY <1>3, <2>1, <2>2, <2>3, InstallStep
  <1>4. ASSUME Checkpoint(f, [[flow[f] EXCEPT !.gen = gen, !.attempt = attempt] EXCEPT !.pc = "check"]),
               UNCHANGED <<auth, gen, attempt, boot, local, recordJobs, push>>
        PROVE  IInv'
    <2> DEFINE check == "check"
               x1 == [flow[f] EXCEPT !.gen = gen]
               x2 == [x1 EXCEPT !.attempt = attempt]
               x3 == [x2 EXCEPT !.pc = check]
    <2>1. flow[f] \in FlowRec /\ gen \in Nat /\ attempt \in Nat /\ check \in Phase
          /\ Len(recordJobs) \in Nat
      BY <1>1, SMT DEF TypesOK, Phase
    <2>2. Checkpoint(f, x3) /\ check = "check"
      BY <1>4
    <2> HIDE DEF check
    <2>3. x1 \in FlowRec /\ x1.user = flow[f].user /\ x1.gen = gen
      BY <2>1, SetGen
    <2> HIDE DEF x1
    <2>4. x2 \in FlowRec /\ x2.user = flow[f].user /\ x2.gen = gen /\ x2.attempt = attempt
      BY <2>1, <2>3, SetAttempt
    <2> HIDE DEF x2
    <2>5. x3 \in FlowRec /\ x3.user = flow[f].user /\ x3.gen = gen /\ x3.attempt = attempt
          /\ x3.pc = check
      BY <2>1, <2>4, SetPc
    <2> HIDE DEF x3
    <2>6. /\ flow' \in [Flow -> FlowRec] /\ \A g \in Flow : g # f => flow'[g] = flow[g]
          /\ flow'[f].pc = "check" /\ flow'[f].user = flow[f].user
          /\ flow'[f].gen = gen /\ flow'[f].attempt = attempt
          /\ storeJobs' = checkpoint
      BY <1>1, <2>2, <2>5, WaitingParts
    <2>7. gen <= gen /\ attempt <= attempt /\ Len(recordJobs) <= Len(recordJobs)
      BY <2>1, SMT
    <2>8. TypesOK'
      BY <1>1, <1>4, <2>6, CheckpointParts DEF TypesOK
    <2>9. Queues'
      BY <1>1, <1>4, <2>6, QueuesKept DEF Queues
    <2>10. Boots'
      BY <1>2, <1>4, <2>6, Flows DEF IInv, Boots
    <2>11. Clocks'
      <3>1. Clock(f)'
        BY <1>2, <1>4, <2>6, <2>7 DEF Clock
      <3>2. QED
        BY <1>4, <2>1, <2>6, <2>7, <3>1, ClocksKept
    <2>12. Renewal'
      <3>1. ASSUME f \in Login, flow["renew"].pc = "saving"
            PROVE  Behind(f)' /\ (auth.user = None => Left(f)')
        <4>1. Behind(f)'
          BY <2>6, <3>1, Flows DEF Behind
        <4>2. ~(attempt < attempt)
          BY <2>1, SMT
        <4>3. auth.user # None
          BY <3>1, <4>2 DEF IInv, Renewal, SignedOut, Left
        <4>4. QED
          BY <4>1, <4>3
      <3>2. QED
        BY <1>4, <2>6, <3>1, RenewalKept
    <2>13. Pushes'
      BY <1>4, <2>6, PushesKept
    <2>14. QED
      BY <2>8, <2>9, <2>10, <2>11, <2>12, <2>13, ServedKept DEF IInv
  <1>5. QED
    BY <1>3, <1>4 DEF Persist

-------------------------------------------------------------------------------
(* The start of the app, and selectOwner.                                    *)

(* Nothing but the start itself has moved before the session is read. *)
LEMMA SessionReadStep ==
    ASSUME IInv, SessionRead
    PROVE  IInv'
  <1>1. TypesOK /\ Queues /\ Boots /\ Clocks /\ Pushes /\ ~boot.ready
        /\ UNCHANGED <<data, gen, attempt, flow, out, push, storeJobs, recordJobs, local, store,
                       backup, wrote, served>>
    BY DEF IInv, SessionRead, jobs, disk, ghost
  <1>2. /\ ~boot.recovered
        /\ flow["boot"].pc \notin {"check", "switch", "merge"}
        /\ \A f \in Flow \ {"boot"} : flow[f].pc \in {"idle", "start"}
    BY <1>1 DEF Boots
  <1>3. auth' \in AuthRec /\ auth'.token \in {None, auth'.user}
    <2>1. backup.token \in Anyone /\ backup.user \in Anyone /\ backup.token \in {None, backup.user}
      BY <1>1 DEF TypesOK, Session, Record
    <2>2. auth' = auth \/ auth' = [token |-> backup.token, user |-> backup.user]
      BY DEF SessionRead
    <2>3. QED
      BY <1>1, <2>1, <2>2 DEF TypesOK, AuthRec
  <1>4. boot' \in BootRec /\ boot'.ready /\ ~boot'.recovered
    <2> DEFINE clock == IF backup.at > boot.clock THEN backup.at ELSE boot.clock
    <2>1. clock \in Nat
      BY <1>1, SMT DEF TypesOK, BootRec, Session, Record
    <2>2. boot' = [boot EXCEPT !.ready = TRUE, !.clock = clock]
      BY DEF SessionRead
    <2> HIDE DEF clock
    <2>3. boot \in BootRec
      BY <1>1 DEF TypesOK
    <2>4. boot' \in BootRec /\ boot'.ready = TRUE /\ boot'.recovered = boot.recovered
      BY <2>1, <2>2, <2>3, Zenon DEF BootRec
    <2>5. QED
      BY <1>2, <2>4
  <1>5. TypesOK'
    BY <1>1, <1>3, <1>4 DEF TypesOK
  <1>6. Queues'
    BY <1>1, QueuesKept DEF Queues
  <1>7. Boots'
    BY <1>1, <1>2, <1>4 DEF Boots
  <1>8. Clocks'
    BY <1>1 DEF Clocks, Clock
  <1>9. Renewal'
    BY <1>1, <1>2, Flows DEF Renewal
  <1>10. Pushes'
    BY <1>1, <1>2 DEF Pushes, authored
  <1>11. QED
    BY <1>1, <1>5, <1>6, <1>7, <1>8, <1>9, <1>10, ServedKept DEF IInv

(* A flow of selectOwner goes on, with the same account in the same session  *)
(* and attempt.                                                              *)
LEMMA GoOnStep ==
    ASSUME IInv, NEW f \in Flow, boot.ready, flow[f].pc # "idle",
           flow' \in [Flow -> FlowRec], \A g \in Flow : g # f => flow'[g] = flow[g],
           flow'[f].pc \in {"check", "switch", "merge"},
           f = "boot" \/ flow[f].pc \in {"check", "switch"},
           f # "boot" => flow'[f].pc # "merge" /\ flow'[f].user = flow[f].user,
           flow'[f].gen <= gen, flow'[f].attempt <= attempt,
           f # "boot" => flow'[f].gen = flow[f].gen /\ flow'[f].attempt = flow[f].attempt,
           flow'[f].pc = "merge" => data'.owner = flow'[f].user,
           flow'[f].pc = "switch" => OwnQueue(flow'[f].user, flow'[f].read),
           data' \in DataRec, OwnQueue(data'.owner, data'.queue),
           local' \in LocalRec, local'.queue = local.queue,
           local'.owner = local.owner \/ local.owner = None,
           storeJobs' = storeJobs \/ storeJobs' = checkpoint,
           UNCHANGED <<auth, gen, attempt, boot, out, push, recordJobs, store, backup, wrote, served>>
    PROVE  IInv'
  <1>1. TypesOK /\ Queues /\ Boots /\ Clocks /\ Len(recordJobs) \in Nat
        /\ gen \in Nat /\ attempt \in Nat
    BY SMT DEF IInv, TypesOK
  <1>2. gen <= gen /\ attempt <= attempt /\ Len(recordJobs) <= Len(recordJobs)
    BY <1>1, SMT
  <1>3. TypesOK'
    BY <1>1, CheckpointParts DEF TypesOK
  <1>4. Queues'
    BY <1>1, QueuesKept DEF Queues
  <1>5. Boots'
    <2>1. CASE f = "boot"
      BY <1>1, <2>1 DEF Boots
    <2>2. CASE f # "boot"
      BY <1>1, <2>2, StartedFlow, Flows DEF Boots
    <2>3. QED
      BY <2>1, <2>2
  <1>6. Clocks'
    <2>1. Clock(f)'
      BY <1>1 DEF Clocks, Clock
    <2>2. QED
      BY <1>1, <1>2, <2>1, ClocksKept
  <1>7. Renewal'
    <2>1. ASSUME f \in Login, flow["renew"].pc = "saving"
          PROVE  /\ flow'[f].pc \in Working /\ Current(f)' => Behind(f)'
                 /\ auth.user = None => Left(f)'
      <3>1. f # "boot" /\ f # "renew" /\ flow[f].pc \in {"check", "switch"}
        BY <2>1, Flows
      <3>2. Current(f)' => Current(f) /\ flow[f].user = flow["renew"].user
        BY <2>1, <3>1 DEF IInv, Renewal, Current, Behind, Working
      <3>3. auth.user = None => Left(f)'
        BY <2>1, <3>1 DEF IInv, Renewal, SignedOut, Left
      <3>4. QED
        BY <3>1, <3>2, <3>3, Flows DEF Behind
    <2>2. QED
      BY <2>1, RenewalKept
  <1>8. Pushes'
    BY PushesKept
  <1>9. QED
    BY <1>3, <1>4, <1>5, <1>6, <1>7, <1>8, ServedKept DEF IInv

(* The start keeps the data, or checkpoints them to change them. *)
LEMMA BootStartStep ==
    ASSUME IInv, BootStart
    PROVE  IInv'
  <1>1. /\ TypesOK /\ Queues /\ boot.ready /\ flow["boot"].pc = "start"
        /\ UNCHANGED <<auth, data, gen, attempt, boot, out, push, recordJobs, local, store,
                       backup, wrote, served>>
    BY DEF IInv, BootStart, memory, disk, ghost
  <1> DEFINE x1 == [Starting EXCEPT !.user = auth.user]
             x2 == [x1 EXCEPT !.gen = gen]
             x3 == [x2 EXCEPT !.attempt = attempt]
             here == [x3 EXCEPT !.pc = "merge"]
             other == [x3 EXCEPT !.pc = "check"]
  <1>2. \/ data.owner = auth.user /\ flow' = [flow EXCEPT !["boot"] = here] /\ UNCHANGED storeJobs
        \/ Checkpoint("boot", other)
    BY DEF BootStart
  <1>3. /\ auth.user \in Anyone /\ gen \in Nat /\ attempt \in Nat /\ gen <= gen
        /\ attempt <= attempt /\ "merge" \in Phase /\ "check" \in Phase
        /\ flow \in [Flow -> FlowRec]
        /\ data \in DataRec /\ local \in LocalRec
    BY <1>1, SMT DEF TypesOK, AuthRec, Phase
  <1>4. x1 \in FlowRec /\ x1.user = auth.user
    BY <1>3, IdleParts, SetUser
  <1> HIDE DEF x1
  <1>5. x2 \in FlowRec /\ x2.user = auth.user /\ x2.gen = gen
    BY <1>3, <1>4, SetGen
  <1> HIDE DEF x2
  <1>6. x3 \in FlowRec /\ x3.user = auth.user /\ x3.gen = gen /\ x3.attempt = attempt
    BY <1>3, <1>5, SetAttempt
  <1> HIDE DEF x3
  <1>7. /\ here \in FlowRec /\ here.user = auth.user /\ here.gen = gen /\ here.attempt = attempt
        /\ here.pc = "merge"
    BY <1>3, <1>6, SetPc
  <1>8. /\ other \in FlowRec /\ other.gen = gen /\ other.attempt = attempt
        /\ other.pc = "check"
    BY <1>3, <1>6, SetPc
  <1> HIDE DEF here, other
  <1>9. /\ flow' \in [Flow -> FlowRec] /\ \A g \in Flow : g # "boot" => flow'[g] = flow[g]
        /\ flow'["boot"].gen = gen /\ flow'["boot"].attempt = attempt
        /\ \/ flow'["boot"].pc = "merge" /\ flow'["boot"].user = data.owner
           \/ flow'["boot"].pc = "check"
        /\ storeJobs' = storeJobs \/ storeJobs' = checkpoint
    <2>1. CASE data.owner = auth.user /\ flow' = [flow EXCEPT !["boot"] = here] /\ UNCHANGED storeJobs
      BY <1>3, <1>7, <2>1, PutFlow, Flows
    <2>2. CASE Checkpoint("boot", other)
      BY <1>1, <1>8, <2>2, WaitingParts, Flows
    <2>3. QED
      BY <1>2, <2>1, <2>2
  <1>10. OwnQueue(data'.owner, data'.queue)
    BY <1>1 DEF Queues
  <1>11. QED
    BY <1>1, <1>3, <1>9, <1>10, GoOnStep, Flows

(* What is merged is of the owner of the data. *)
LEMMA BootMergeStep ==
    ASSUME IInv, BootMerge
    PROVE  IInv'
  <1>1. /\ TypesOK /\ Queues /\ Boots /\ flow["boot"].pc = "merge" /\ Abandon("boot")
        /\ UNCHANGED <<auth, gen, attempt, out, storeJobs, recordJobs, local, store,
                       backup, wrote, served>>
    BY DEF IInv, BootMerge, jobs, disk, ghost
  <1>2. boot.ready /\ "boot" \in Flow
    BY <1>1, Flows DEF Boots
  <1>3. data' \in DataRec /\ data'.owner = data.owner /\ OwnQueue(data.owner, data'.queue)
    <2>1. data \in DataRec /\ OwnQueue(data.owner, data.queue)
      BY <1>1 DEF TypesOK, Queues
    <2>2. CASE flow["boot"].user = auth.user /\ flow["boot"].gen = gen
      <3>1. data' = [data EXCEPT !.queue = data.queue \cup saved(auth.user)]
        BY <2>2 DEF BootMerge
      <3>2. data.owner = auth.user
        BY <1>1, <2>2 DEF Boots
      <3>3. saved(auth.user) \in SUBSET Op /\ OwnQueue(auth.user, saved(auth.user))
        BY <1>1 DEF saved, TypesOK, Queues, OwnQueue, AuthRec, Anyone
      <3>4. data' \in DataRec /\ data'.owner = data.owner
            /\ data'.queue = data.queue \cup saved(auth.user)
        BY <2>1, <3>1, <3>3 DEF DataRec
      <3>5. QED
        BY <2>1, <3>2, <3>3, <3>4 DEF OwnQueue
    <2>3. CASE ~(flow["boot"].user = auth.user /\ flow["boot"].gen = gen)
      <3>1. data' = data
        BY <2>3 DEF BootMerge
      <3>2. QED
        BY <2>1, <3>1
    <2>4. QED
      BY <2>2, <2>3
  <1>4. Len(recordJobs') \in Nat /\ Len(recordJobs) <= Len(recordJobs')
    BY <1>1, SMT DEF TypesOK
  <1>5. /\ flow' \in [Flow -> FlowRec] /\ boot' \in BootRec /\ push' \in PushRec
        /\ Boots' /\ Clocks' /\ Renewal' /\ Pushes'
        /\ \A g \in Flow : flow'[g].pc = "switch" => flow'[g] = flow[g]
    BY <1>1, <1>2, <1>4, EndKeeps
  <1>6. TypesOK'
    BY <1>1, <1>3, <1>5 DEF TypesOK
  <1>7. Queues'
    BY <1>1, <1>3, <1>5, QueuesKept DEF Queues
  <1>8. QED
    BY <1>1, <1>5, <1>6, <1>7, ServedKept DEF IInv

(* A flow of an older session ends. *)
LEMMA StaleStep ==
    ASSUME IInv, NEW f \in Flow, flow[f].pc \in {"check", "switch"}, Stale(f)
    PROVE  IInv'
  BY EndStep DEF Stale, IInv, Boots, ghost

(* The queue a flow reads is its account's. *)
LEMMA CheckStep ==
    ASSUME IInv, NEW f \in Flow, Check(f)
    PROVE  IInv'
  <1>1. TypesOK /\ Queues /\ Boots /\ Clock(f) /\ flow[f].pc = "check"
    BY DEF IInv, Check, Clocks
  <1>2. CASE Stale(f)
    BY <1>1, <1>2, StaleStep
  <1>3. ASSUME Checkpoint(f, [flow[f] EXCEPT !.pc = "switch", !.read = saved(flow[f].user)]),
               UNCHANGED <<memory, out, push, recordJobs, disk, ghost, budget>>
        PROVE  IInv'
    <2> DEFINE switch == "switch"
               read == saved(flow[f].user)
               x1 == [flow[f] EXCEPT !.pc = switch]
               x2 == [x1 EXCEPT !.read = read]
    <2>1. /\ UNCHANGED <<auth, data, gen, attempt, boot, out, push, recordJobs, local, store,
                         backup, wrote, served>>
          /\ Checkpoint(f, x2) /\ switch = "switch"
      BY <1>3 DEF memory, disk, ghost
    <2>2. flow[f] \in FlowRec /\ switch \in Phase /\ flow[f].user \in Anyone
      BY <1>1 DEF TypesOK, Phase, FlowRec
    <2>3. read \in SUBSET Op /\ OwnQueue(flow[f].user, read)
      BY <1>1, <2>2 DEF saved, TypesOK, Queues, OwnQueue, Anyone
    <2> HIDE DEF read, switch
    <2>4. /\ x1 \in FlowRec /\ x1.pc = switch /\ x1.user = flow[f].user /\ x1.gen = flow[f].gen
          /\ x1.attempt = flow[f].attempt
      BY <2>2, SetPc
    <2> HIDE DEF x1
    <2>5. /\ x2 \in FlowRec /\ x2.pc = switch /\ x2.user = flow[f].user /\ x2.gen = flow[f].gen
          /\ x2.attempt = flow[f].attempt /\ x2.read = read
      BY <2>3, <2>4, SetRead
    <2> HIDE DEF x2
    <2>6. /\ flow' \in [Flow -> FlowRec] /\ \A g \in Flow : g # f => flow'[g] = flow[g]
          /\ flow'[f].pc = "switch" /\ flow'[f].user = flow[f].user
          /\ flow'[f].gen = flow[f].gen /\ flow'[f].attempt = flow[f].attempt
          /\ flow'[f].read = read /\ storeJobs' = checkpoint
      BY <1>1, <2>1, <2>5, WaitingParts
    <2>7. boot.ready
      BY <1>1, StartedFlow DEF Boots
    <2>8. data' \in DataRec /\ OwnQueue(data'.owner, data'.queue) /\ local' \in LocalRec
      BY <1>1, <2>1 DEF TypesOK, Queues
    <2>9. QED
      BY <1>1, <2>1, <2>3, <2>6, <2>7, <2>8, GoOnStep DEF Clock
  <1>4. QED
    BY <1>2, <1>3 DEF Check

(* A device without a cache gives it to the first account. *)
LEMMA AdoptedParts ==
    ASSUME TypesOK, NEW u \in Anyone, NEW full \in BOOLEAN
    PROVE  LET l == adopted(u, full) IN
           /\ l \in LocalRec /\ l.queue = local.queue
           /\ l.owner = local.owner \/ local.owner = None
  <1> DEFINE l == [local EXCEPT !.owner = u]
  <1>1. local \in LocalRec
    BY DEF TypesOK
  <1>2. l \in LocalRec /\ l.queue = local.queue
    BY <1>1 DEF LocalRec
  <1>3. QED
    BY <1>1, <1>2 DEF adopted

(* The data change owner, and with them the queue. *)
LEMMA SwitchStep ==
    ASSUME IInv, NEW f \in Flow, Switch(f)
    PROVE  IInv'
  <1>1. TypesOK /\ Queues /\ Boots /\ Clock(f) /\ flow[f].pc = "switch"
    BY DEF IInv, Switch, Clocks
  <1>2. CASE Stale(f)
    BY <1>1, <1>2, StaleStep
  <1>3. CASE ~Stale(f)
    <2>1. /\ gen = flow[f].gen /\ data' = selected(f)
          /\ UNCHANGED <<out, storeJobs, store, backup, wrote, served>>
      BY <1>3 DEF Switch
    <2>2. PICK full \in Full :
              LET l == adopted(flow[f].user, full)
              IN  \/ /\ f = "boot"
                     /\ flow' = [flow EXCEPT ![f].pc = "merge", ![f].read = {}]
                     /\ local' = l
                     /\ UNCHANGED <<auth, gen, attempt, boot, push, recordJobs>>
                  \/ f # "boot" /\ flow[f].attempt = attempt /\ Install(f, l, full)
                  \/ /\ f # "boot" /\ Abandon(f) /\ local' = l
                     /\ UNCHANGED <<auth, gen, attempt, recordJobs>>
      BY <1>3 DEF Switch
    <2> DEFINE l == adopted(flow[f].user, full)
    <2>3. full \in BOOLEAN
      BY <2>2 DEF Full
    <2>4. flow[f] \in FlowRec /\ flow[f].user \in Anyone /\ flow[f].read \in SUBSET Op
      BY <1>1 DEF TypesOK, FlowRec
    <2>5. l \in LocalRec /\ l.queue = local.queue /\ (l.owner = local.owner \/ local.owner = None)
      BY <1>1, <2>3, <2>4, AdoptedParts
    <2> HIDE DEF l
    <2>6. /\ data' \in DataRec /\ data'.owner = flow[f].user
          /\ OwnQueue(data'.owner, data'.queue)
      BY <1>1, <2>1, <2>4 DEF selected, DataRec, Queues
    <2>7. ASSUME f = "boot", flow' = [flow EXCEPT ![f].pc = "merge", ![f].read = {}], local' = l,
                 UNCHANGED <<auth, gen, attempt, boot, push, recordJobs>>
          PROVE  IInv'
      <3> DEFINE merge == "merge"
                 x1 == [flow[f] EXCEPT !.pc = merge]
                 x2 == [x1 EXCEPT !.read = {}]
      <3>1. flow \in [Flow -> FlowRec] /\ merge \in Phase
        BY <1>1 DEF TypesOK, Phase
      <3>2. flow' = [flow EXCEPT ![f] = x2] /\ merge = "merge"
        BY <2>7, <3>1
      <3> HIDE DEF merge
      <3>3. /\ x1 \in FlowRec /\ x1.pc = merge /\ x1.user = flow[f].user /\ x1.gen = flow[f].gen
            /\ x1.attempt = flow[f].attempt
        BY <2>4, <3>1, SetPc
      <3> HIDE DEF x1
      <3>4. /\ x2 \in FlowRec /\ x2.pc = merge /\ x2.user = flow[f].user /\ x2.gen = flow[f].gen
            /\ x2.attempt = flow[f].attempt
        BY <3>3, SetRead
      <3> HIDE DEF x2
      <3>5. /\ flow' \in [Flow -> FlowRec] /\ \A g \in Flow : g # f => flow'[g] = flow[g]
            /\ flow'[f].pc = "merge" /\ flow'[f].user = flow[f].user
            /\ flow'[f].gen = flow[f].gen /\ flow'[f].attempt = flow[f].attempt
        BY <3>1, <3>2, <3>4, PutFlow
      <3>6. boot.ready
        BY <1>1, <2>7 DEF Boots
      <3>7. QED
        BY <1>1, <2>1, <2>5, <2>6, <2>7, <3>5, <3>6, GoOnStep DEF Clock
    <2>8. ASSUME f # "boot", flow[f].attempt = attempt, Install(f, l, full)
          PROVE  IInv'
      <3>1. flow[f].pc \in Working /\ "asked" # "switch"
        BY <1>1, SMT DEF Working
      <3>2. f \in Login /\ flow["renew"].pc = "saving" => flow[f].user = flow["renew"].user
        BY <1>1, <2>1, <2>8, <3>1 DEF IInv, Renewal, Current, Behind
      <3>3. QED
        BY <2>1, <2>3, <2>5, <2>6, <2>8, <3>1, <3>2, InstallStep
    <2>9. ASSUME f # "boot", Abandon(f), local' = l, UNCHANGED <<auth, gen, attempt, recordJobs>>
          PROVE  IInv'
      <3>1. flow["boot"].pc = "idle"
        BY <1>1, <2>9, StartedFlow
      <3>2. Len(recordJobs') \in Nat /\ Len(recordJobs) <= Len(recordJobs')
        BY <1>1, <2>9, SMT DEF TypesOK
      <3>3. /\ flow' \in [Flow -> FlowRec] /\ boot' \in BootRec /\ push' \in PushRec
            /\ Boots' /\ Clocks' /\ Renewal' /\ Pushes'
            /\ \A g \in Flow : flow'[g].pc = "switch" => flow'[g] = flow[g]
        BY <2>1, <2>9, <3>1, <3>2, EndKeeps
      <3>4. TypesOK'
        BY <1>1, <2>1, <2>5, <2>6, <2>9, <3>3 DEF TypesOK
      <3>5. Queues'
        BY <2>1, <2>5, <2>6, <2>9, <3>3, QueuesKept
      <3>6. QED
        BY <2>1, <3>3, <3>4, <3>5, ServedKept DEF IInv
    <2>10. QED
      BY <2>2, <2>7, <2>8, <2>9 DEF l
  <1>4. QED
    BY <1>2, <1>3

(* A request is sent again, as whoever is signed in now. *)
LEMMA SentAgainParts ==
    ASSUME TypesOK
    PROVE  LET e == [push EXCEPT !.pc = "sent", !.as = auth.token, !.gen = gen, !.again = TRUE] IN
           /\ e \in PushRec /\ e.pc = "sent" /\ e.as = auth.token
           /\ e.owner = push.owner /\ e.batch = push.batch /\ e.again
  <1> DEFINE sent == "sent"
             token == auth.token
             e == [push EXCEPT !.pc = sent, !.as = token, !.gen = gen, !.again = TRUE]
  <1>1. push \in PushRec /\ gen \in Nat /\ token \in Anyone /\ sent \in {"idle", "sent", "renewing"}
    BY DEF TypesOK, AuthRec
  <1> HIDE DEF sent, token
  <1>2. e \in PushRec
    BY <1>1, Zenon DEF PushRec
  <1>3. e.pc = sent /\ e.as = token /\ e.owner = push.owner /\ e.batch = push.batch
    BY <1>1 DEF PushRec
  <1>4. e.again
    BY <1>1 DEF PushRec
  <1>5. QED
    BY <1>2, <1>3, <1>4 DEF sent, token

(* The request that waited for a renewal is still its owner's. *)
LEMMA SavedStep ==
    ASSUME IInv, NEW f \in Flow, Saved(f)
    PROVE  IInv'
  <1>1. /\ TypesOK /\ Queues /\ Boots /\ Clocks /\ flow[f].pc = "saving"
        /\ flow' = [flow EXCEPT ![f] = Idle]
        /\ push' = IF f = "renew" /\ push.pc = "renewing"
                   THEN [push EXCEPT !.pc = "sent", !.as = auth.token, !.gen = gen, !.again = TRUE]
                   ELSE push
        /\ UNCHANGED <<auth, data, gen, attempt, boot, out, storeJobs, recordJobs, local, store,
                       backup, wrote, served>>
    BY DEF IInv, Saved, memory, jobs, disk
  <1>2. f # "boot" /\ flow \in [Flow -> FlowRec] /\ Len(recordJobs) \in Nat
        /\ gen \in Nat /\ attempt \in Nat
    BY <1>1, SMT DEF Boots, TypesOK
  <1>3. flow' \in [Flow -> FlowRec] /\ flow'[f] = Idle /\ \A g \in Flow : g # f => flow'[g] = flow[g]
    BY <1>1, <1>2, IdleParts, PutFlow
  <1>4. /\ gen <= gen /\ attempt <= attempt /\ Len(recordJobs) <= Len(recordJobs)
        /\ 0 <= gen /\ 0 <= attempt
    BY <1>2, SMT
  <1>5. push' \in PushRec
    BY <1>1, SentAgainParts DEF TypesOK
  <1>6. TypesOK'
    BY <1>1, <1>3, <1>5 DEF TypesOK
  <1>7. Queues'
    BY <1>1, <1>3, IdleParts, QueuesKept DEF Queues
  <1>8. Boots'
    BY <1>1, <1>2, <1>3, IdleParts DEF Boots
  <1>9. Clocks'
    <2>1. Clock(f)'
      BY <1>1, <1>3, <1>4, IdleParts DEF Clock
    <2>2. QED
      BY <1>1, <1>2, <1>3, <1>4, <2>1, ClocksKept
  <1>10. Renewal'
    <2>1. flow'[f].pc = "idle" /\ "idle" \notin Working
      BY <1>3, IdleParts DEF Working
    <2>2. QED
      BY <1>1, <1>3, <2>1, RenewalKept DEF Left
  <1>11. Pushes'
    <2>1. CASE f = "renew" /\ push.pc = "renewing"
      <3>1. /\ push.owner # None /\ push.batch \subseteq authored(push.owner)
            /\ flow["renew"].user = push.owner /\ boot.recovered
        BY <2>1 DEF IInv, Pushes
      <3>2. auth.token \in {None, push.owner}
        BY <1>1, <2>1, <3>1 DEF IInv, Renewal, TypesOK
      <3>3. /\ push'.pc = "sent" /\ push'.as = auth.token
            /\ push'.owner = push.owner /\ push'.batch = push.batch /\ push'.again
        BY <1>1, <2>1, SentAgainParts
      <3>4. QED
        BY <1>1, <2>1, <3>1, <3>2, <3>3 DEF Pushes, authored
    <2>2. CASE ~(f = "renew" /\ push.pc = "renewing")
      BY <1>1, <1>3, <2>2, Flows DEF IInv, Pushes, authored
    <2>3. QED
      BY <2>1, <2>2
  <1>12. QED
    BY <1>1, <1>6, <1>7, <1>8, <1>9, <1>10, <1>11, ServedKept DEF IInv

-------------------------------------------------------------------------------
(* Signing in.                                                               *)

(* A new attempt outdates every other; it starts when no sign-out is under   *)
(* way.                                                                      *)
LEMMA SignInStep ==
    ASSUME IInv, ~Hasty, NEW f \in Login, NEW u \in Account, SignIn(f, u)
    PROVE  IInv'
  <1> DEFINE x1 == [Starting EXCEPT !.user = u]
             x2 == [x1 EXCEPT !.attempt = attempt + 1]
  <1>1. /\ TypesOK /\ Queues /\ Boots /\ Clocks /\ flow[f].pc = "idle" /\ out.pc = "idle"
        /\ attempt' = attempt + 1 /\ flow' = [flow EXCEPT ![f] = x2]
        /\ UNCHANGED <<auth, data, gen, boot, out, push, storeJobs, recordJobs, local, store,
                       backup, wrote, served>>
    BY DEF IInv, SignIn, jobs, disk
  <1>2. /\ flow \in [Flow -> FlowRec] /\ Len(recordJobs) \in Nat /\ u \in Anyone
        /\ gen \in Nat /\ attempt \in Nat /\ attempt + 1 \in Nat
    BY <1>1, SMT DEF TypesOK, Anyone
  <1>3. x1 \in FlowRec /\ x1.user = u /\ x1.pc = "start" /\ x1.gen = 0
    BY <1>2, IdleParts, SetUser
  <1> HIDE DEF x1
  <1>4. x2 \in FlowRec /\ x2.user = u /\ x2.pc = "start" /\ x2.gen = 0 /\ x2.attempt = attempt + 1
    BY <1>2, <1>3, SetAttempt
  <1> HIDE DEF x2
  <1>5. flow' \in [Flow -> FlowRec] /\ flow'[f] = x2 /\ \A g \in Flow : g # f => flow'[g] = flow[g]
    BY <1>1, <1>2, <1>4, PutFlow, Flows
  <1>6. /\ gen <= gen /\ attempt <= attempt + 1 /\ Len(recordJobs) <= Len(recordJobs)
        /\ 0 <= gen /\ attempt + 1 <= attempt + 1
    BY <1>2, SMT
  <1>7. f \in Flow /\ f # "boot" /\ f # "renew"
    BY Flows
  <1>8. TypesOK'
    BY <1>1, <1>2, <1>5 DEF TypesOK
  <1>9. Queues'
    BY <1>1, <1>4, <1>5, QueuesKept DEF Queues
  <1>10. Boots'
    BY <1>1, <1>4, <1>5, <1>7, Flows DEF Boots
  <1>11. Clocks'
    <2>1. Clock(f)'
      BY <1>1, <1>4, <1>5, <1>6, <1>7 DEF Clock
    <2>2. QED
      BY <1>1, <1>2, <1>5, <1>6, <1>7, <2>1, ClocksKept
  <1>12. Renewal'
    <2>1. flow'["renew"] = flow["renew"]
      BY <1>5, <1>7, Flows
    <2>2. ASSUME NEW g \in Login, flow'[g].pc \in Working PROVE ~Current(g)'
      <3>1. g # f
        BY <1>4, <1>5, <2>2, SMT DEF Working
      <3>2. flow'[g] = flow[g] /\ flow[g].attempt <= attempt /\ flow[g].attempt \in Nat
        BY <1>1, <1>2, <1>5, <3>1, Flows DEF Clocks, Clock, FlowRec
      <3>3. flow[g].attempt # attempt + 1
        BY <1>2, <3>2, SMT
      <3>4. QED
        BY <1>1, <3>2, <3>3 DEF Current
    <2>3. flow["renew"].pc = "saving" => auth.user # None /\ auth.user \in {None, flow["renew"].user}
      BY <1>1 DEF IInv, Renewal, SignedOut
    <2>4. QED
      BY <1>1, <2>1, <2>2, <2>3 DEF Renewal
  <1>13. Pushes'
    BY <1>1, <1>5, <1>7, PushesKept
  <1>14. QED
    BY <1>1, <1>8, <1>9, <1>10, <1>11, <1>12, <1>13, ServedKept DEF IInv

(* A sign-in that leaves another account waits for a record behind every     *)
(* other.                                                                    *)
LEMMA LoginStartStep ==
    ASSUME IInv, NEW f \in Login, LoginStart(f)
    PROVE  IInv'
  <1> DEFINE leaving == auth.user \notin {None, flow[f].user}
             r == record(auth.token, auth.user, FALSE)
             wait == IF leaving THEN Len(recordJobs) + 1 ELSE 0
             asked == "asked"
             x1 == [flow[f] EXCEPT !.pc = asked]
             x2 == [x1 EXCEPT !.gen = gen]
             x3 == [x2 EXCEPT !.wait = wait]
  <1>1. /\ TypesOK /\ Queues /\ Boots /\ Clocks /\ flow[f].pc = "start" /\ boot.recovered
        /\ UNCHANGED <<auth, data, gen, attempt, out, push, storeJobs, store, backup, wrote, served>>
    BY DEF IInv, LoginStart, ghost
  <1>2. /\ flow \in [Flow -> FlowRec] /\ flow[f] \in FlowRec /\ Len(recordJobs) \in Nat
        /\ gen \in Nat /\ attempt \in Nat /\ asked \in Phase
    BY <1>1, Flows, SMT DEF TypesOK, Phase
  <1>3. f \in Flow /\ f # "boot" /\ f # "renew" /\ flow[f].user \in Account
    BY <1>1, Flows DEF Clocks, Clock
  <1>4. flow' = [flow EXCEPT ![f] = x3] /\ asked = "asked"
    BY <1>2, <1>3 DEF LoginStart
  <1>5. wait \in Nat /\ (leaving => wait = Len(recordJobs) + 1)
    BY <1>2, SMT
  <1>6. /\ boot' \in BootRec /\ boot'.ready = boot.ready /\ boot'.recovered = boot.recovered
        /\ recordJobs' \in Seq(Session)
        /\ Len(recordJobs') \in Nat /\ Len(recordJobs) <= Len(recordJobs')
        /\ local' \in LocalRec /\ local'.owner = local.owner /\ local'.queue = local.queue
    <2>1. CASE leaving
      <3>1. PICK full \in Full : local' = recorded(local, r, full)
        BY <2>1 DEF LoginStart
      <3>2. SaveRecord(r) /\ full \in BOOLEAN
        BY <2>1, <3>1 DEF LoginStart, Full
      <3>3. r \in Session /\ local \in LocalRec
        BY <1>1, RecordParts DEF TypesOK, AuthRec
      <3>4. local' \in LocalRec /\ local'.owner = local.owner /\ local'.queue = local.queue
        BY <3>1, <3>2, <3>3, RecordedParts
      <3>5. /\ boot' \in BootRec /\ boot'.ready = boot.ready /\ boot'.recovered = boot.recovered
            /\ recordJobs' \in Seq(Session) /\ Len(recordJobs) <= Len(recordJobs')
        BY <1>1, <3>2, <3>3, SaveParts
      <3>6. Len(recordJobs') \in Nat
        BY <3>5, SMT
      <3>7. QED
        BY <3>4, <3>5, <3>6
    <2>2. CASE ~leaving
      <3>1. UNCHANGED <<boot, recordJobs, local>>
        BY <2>2 DEF LoginStart
      <3>2. Len(recordJobs) <= Len(recordJobs)
        BY <1>2, SMT
      <3>3. QED
        BY <1>1, <1>2, <3>1, <3>2 DEF TypesOK
    <2>3. QED
      BY <2>1, <2>2
  <1> HIDE DEF r, wait, asked
  <1>7. x1 \in FlowRec /\ x1.pc = asked /\ x1.user = flow[f].user /\ x1.attempt = flow[f].attempt
    BY <1>2, SetPc
  <1> HIDE DEF x1
  <1>8. /\ x2 \in FlowRec /\ x2.pc = asked /\ x2.user = flow[f].user
        /\ x2.attempt = flow[f].attempt /\ x2.gen = gen
    BY <1>2, <1>7, SetGen
  <1> HIDE DEF x2
  <1>9. /\ x3 \in FlowRec /\ x3.pc = asked /\ x3.user = flow[f].user
        /\ x3.attempt = flow[f].attempt /\ x3.gen = gen /\ x3.wait = wait
    BY <1>5, <1>8, SetWait
  <1> HIDE DEF x3
  <1>10. /\ flow' \in [Flow -> FlowRec] /\ \A g \in Flow : g # f => flow'[g] = flow[g]
         /\ flow'[f].pc = "asked" /\ flow'[f].user = flow[f].user /\ flow'[f].gen = gen
         /\ flow'[f].attempt = flow[f].attempt /\ flow'[f].wait = wait
    BY <1>2, <1>3, <1>4, <1>9, PutFlow
  <1>11. gen <= gen /\ attempt <= attempt
    BY <1>2, SMT
  <1>12. TypesOK'
    BY <1>1, <1>6, <1>10 DEF TypesOK
  <1>13. Queues'
    BY <1>1, <1>6, <1>10, QueuesKept DEF Queues
  <1>14. Boots'
    BY <1>1, <1>3, <1>6, <1>10, Flows DEF Boots
  <1>15. Clocks'
    <2>1. Clock(f)'
      BY <1>1, <1>3, <1>10, <1>11 DEF Clocks, Clock
    <2>2. QED
      BY <1>1, <1>2, <1>3, <1>6, <1>10, <1>11, <2>1, ClocksKept
  <1>16. Renewal'
    <2>1. ASSUME flow["renew"].pc = "saving"
          PROVE  /\ flow'[f].pc \in Working /\ Current(f)' => Behind(f)'
                 /\ auth.user = None => Left(f)'
      <3>1. CASE auth.user = None
        <4>1. flow[f].attempt < attempt /\ flow[f].attempt \in Nat
          BY <1>1, <1>2, <2>1, <3>1 DEF IInv, Renewal, SignedOut, Left, FlowRec
        <4>2. flow[f].attempt # attempt
          BY <1>2, <4>1, SMT
        <4>3. QED
          BY <1>1, <1>10, <4>1, <4>2 DEF Left, Current
      <3>2. CASE auth.user = flow["renew"].user /\ auth.user # None
        <4>1. flow'["renew"] = flow["renew"]
          BY <1>3, <1>10, Flows
        <4>2. CASE leaving
          <5>1. flow["renew"].wait <= Len(recordJobs) /\ flow["renew"].wait \in Nat
            BY <1>1, <1>2, <2>1, Flows DEF Clocks, Clock, FlowRec
          <5>2. wait = Len(recordJobs) + 1
            BY <1>5, <4>2
          <5>3. flow["renew"].wait < wait
            BY <1>2, <5>1, <5>2, SMT
          <5>4. QED
            BY <1>10, <3>2, <4>1, <5>3 DEF Behind
        <4>3. CASE ~leaving
          BY <1>10, <3>2, <4>1, <4>3 DEF Behind
        <4>4. QED
          BY <4>2, <4>3
      <3>3. QED
        BY <2>1, <3>1, <3>2 DEF IInv, Renewal
    <2>2. QED
      BY <1>1, <1>3, <1>10, <2>1, RenewalKept
  <1>17. Pushes'
    BY <1>1, <1>3, <1>6, <1>10, PushesKept
  <1>18. QED
    BY <1>1, <1>12, <1>13, <1>14, <1>15, <1>16, <1>17, ServedKept DEF IInv

(* The answer of an overtaken sign-in is dropped. *)
LEMMA LoginAnsweredStep ==
    ASSUME IInv, NEW f \in Login, LoginAnswered(f)
    PROVE  IInv'
  <1>1. /\ f \in Flow \ {"boot"} /\ flow[f].pc = "asked" /\ flow[f].wait = 0
        /\ UNCHANGED <<data, out, store, backup, wrote, served>>
    BY Flows DEF LoginAnswered
  <1>2. ASSUME Abandon(f), UNCHANGED <<auth, data, gen, attempt, local, jobs>>
        PROVE  IInv'
    BY <1>1, <1>2, EndStep DEF disk
  <1>3. ASSUME flow[f].attempt = attempt, flow[f].gen = gen, Persist(f)
        PROVE  IInv'
    <2>1. flow["renew"].pc = "saving" => flow[f].user = flow["renew"].user
      <3>1. flow["renew"].wait \in Nat
        BY Flows DEF IInv, TypesOK, FlowRec
      <3>2. ~(flow["renew"].wait < 0)
        BY <3>1, SMT
      <3>3. QED
        BY <1>1, <1>3, <3>2 DEF IInv, Renewal, Working, Current, Behind
    <2>2. QED
      BY <1>1, <1>3, <2>1, PersistStep
  <1>4. QED
    BY <1>2, <1>3 DEF LoginAnswered

(* A sign-in that was refused ends. *)
LEMMA LoginRefusedStep ==
    ASSUME IInv, NEW f \in Login, LoginRefused(f)
    PROVE  IInv'
  BY Flows, EndStep DEF LoginRefused, ghost

-------------------------------------------------------------------------------
(* Signing out, and renewing.                                                *)

(* The clocks, when no flow moves. *)
LEMMA ClocksPass ==
    ASSUME IInv, flow' = flow, gen' \in Nat, gen <= gen', attempt' \in Nat, attempt <= attempt',
           Len(recordJobs') \in Nat, Len(recordJobs) <= Len(recordJobs')
    PROVE  Clocks'
  <1>1. Clock("boot") /\ flow["boot"].pc # "saving" /\ "boot" \in Flow
        /\ gen \in Nat /\ attempt \in Nat
        /\ flow["boot"].gen \in Nat /\ flow["boot"].attempt \in Nat
    BY Flows DEF IInv, Clocks, Boots, TypesOK, FlowRec
  <1>2. flow["boot"].gen <= gen' /\ flow["boot"].attempt <= attempt'
    BY <1>1, SMT DEF Clock
  <1>3. Clock("boot")'
    BY <1>1, <1>2 DEF Clock
  <1>4. flow' \in [Flow -> FlowRec]
    BY DEF IInv, TypesOK
  <1>5. QED
    BY <1>1, <1>3, <1>4, ClocksKept

(* A sign-out that has not saved its record yet. *)
LEMMA OutStarts ==
    ASSUME NEW o \in OutRec
    PROVE  [o EXCEPT !.pc = "start"] \in OutRec
  BY DEF OutRec

(* A sign-out that waits for its record. *)
LEMMA OutSaves ==
    ASSUME NEW o \in OutRec, NEW records \in Nat, NEW yes \in BOOLEAN, NEW next,
           next = [o EXCEPT !.pc = "saving", !.ok = yes, !.records = records]
    PROVE  next \in OutRec
  <1> DEFINE saving == "saving"
  <1>1. saving \in {"idle", "start", "saving"}
        /\ next = [o EXCEPT !.pc = saving, !.ok = yes, !.records = records]
    OBVIOUS
  <1> HIDE DEF saving
  <1>2. QED
    BY <1>1, Zenon DEF OutRec

(* Who signs out overtakes every sign-in, and its record comes behind the    *)
(* renewal's.                                                                *)
LEMMA SignOutStep ==
    ASSUME IInv, SignOut
    PROVE  IInv'
  <1> DEFINE r == record(None, None, TRUE)
             l == [local EXCEPT !.record = NoRecord]
             out1 == [NoOut EXCEPT !.gen = gen + 1]
             left == [out1 EXCEPT !.stores = checkpointed]
  <1>1. /\ TypesOK /\ Queues /\ Boots /\ Clocks
        /\ storeJobs' = checkpoint /\ attempt' = attempt + 1 /\ gen' = gen + 1
        /\ auth' = [token |-> None, user |-> None] /\ data' = [owner |-> None, queue |-> {}]
        /\ UNCHANGED <<flow, push, store, backup, wrote, served>>
    BY DEF IInv, SignOut
  <1>2. /\ Len(recordJobs) \in Nat /\ gen \in Nat /\ attempt \in Nat
        /\ gen + 1 \in Nat /\ attempt + 1 \in Nat /\ Len(recordJobs) + 1 \in Nat
    BY <1>1, SMT DEF TypesOK
  <1>3. /\ gen <= gen + 1 /\ attempt <= attempt + 1 /\ Len(recordJobs) <= Len(recordJobs)
        /\ Len(recordJobs) <= Len(recordJobs) + 1
    BY <1>2, SMT
  <1>4. \/ /\ boot.ready /\ SaveRecord(r)
           /\ \E full \in Full :
                 /\ local' = recorded(l, r, full)
                 /\ out' = [left EXCEPT !.pc = "saving", !.ok = ~full, !.records = Len(recordJobs) + 1]
        \/ /\ ~boot.ready /\ local' = l
           /\ out' = [left EXCEPT !.pc = "start"]
           /\ UNCHANGED <<boot, recordJobs>>
    BY <1>1 DEF SignOut, NoOut
  <1>5. r \in Session /\ r # NoRecord /\ NoRecord \in Session
    BY <1>1, RecordParts DEF Anyone
  <1>6. l \in LocalRec /\ l.owner = local.owner /\ l.queue = local.queue
    BY <1>1, <1>5 DEF TypesOK, LocalRec
  <1>7. left \in OutRec
    <2>1. NoOut \in OutRec
      BY SMT DEF NoOut, OutRec
    <2>2. out1 \in OutRec
      BY <1>2, <2>1 DEF OutRec
    <2> HIDE DEF out1
    <2>3. QED
      BY <1>1, <2>2, CheckpointParts DEF OutRec
  <1> HIDE DEF r, l, left
  <1>8. /\ boot' \in BootRec /\ boot'.ready = boot.ready /\ boot'.recovered = boot.recovered
        /\ recordJobs' \in Seq(Session)
        /\ Len(recordJobs') \in Nat /\ Len(recordJobs) <= Len(recordJobs')
        /\ local' \in LocalRec /\ local'.owner = local.owner /\ local'.queue = local.queue
        /\ out' \in OutRec
        /\ boot.ready => out'.pc = "saving" /\ out'.records = Len(recordJobs) + 1
    <2>1. ASSUME boot.ready, SaveRecord(r), NEW full \in Full, local' = recorded(l, r, full),
                 out' = [left EXCEPT !.pc = "saving", !.ok = ~full, !.records = Len(recordJobs) + 1]
          PROVE  <1>8!:
      <3> DEFINE yes == ~full
      <3>1. full \in BOOLEAN /\ yes \in BOOLEAN
        BY <2>1 DEF Full
      <3>2. local' \in LocalRec /\ local'.owner = local.owner /\ local'.queue = local.queue
        BY <1>5, <1>6, <2>1, <3>1, RecordedParts
      <3>3. out' \in OutRec /\ out'.pc = "saving" /\ out'.records = Len(recordJobs) + 1
        <4> DEFINE records == Len(recordJobs) + 1
                   next == out'
        <4>1. next = [left EXCEPT !.pc = "saving", !.ok = yes, !.records = records]
          BY <2>1
        <4>2. yes \in BOOLEAN /\ left \in OutRec /\ records \in Nat
          BY <1>2, <1>7, <3>1
        <4> HIDE DEF yes, records, next
        <4>3. next \in OutRec
          BY <4>1, <4>2, OutSaves
        <4>4. next.pc = "saving" /\ next.records = records
          BY <4>1, <1>7 DEF OutRec
        <4>5. QED
          BY <4>3, <4>4 DEF records, next
      <3>4. /\ boot' \in BootRec /\ boot'.ready = boot.ready /\ boot'.recovered = boot.recovered
            /\ recordJobs' \in Seq(Session) /\ Len(recordJobs') = Len(recordJobs) + 1
        BY <1>1, <1>5, <2>1, SaveParts
      <3>5. QED
        BY <1>2, <1>3, <3>2, <3>3, <3>4
    <2>2. ASSUME ~boot.ready, local' = l, out' = [left EXCEPT !.pc = "start"],
                 UNCHANGED <<boot, recordJobs>>
          PROVE  <1>8!:
      <3>1. out' \in OutRec
        BY <1>7, <2>2, OutStarts
      <3>2. boot \in BootRec /\ recordJobs \in Seq(Session)
        BY <1>1 DEF TypesOK
      <3>3. QED
        BY <1>2, <1>3, <1>6, <2>2, <3>1, <3>2
    <2>3. QED
      BY <1>4, <2>1, <2>2
  <1>9. auth' \in AuthRec /\ auth'.token = None /\ auth'.user = None
    BY <1>1 DEF AuthRec, Anyone
  <1>10. data' \in DataRec /\ data'.owner = None
    BY <1>1 DEF DataRec, Anyone
  <1>11. TypesOK'
    BY <1>1, <1>2, <1>8, <1>9, <1>10, CheckpointParts DEF TypesOK
  <1>12. Queues'
    BY <1>1, <1>8, <1>10, QueuesKept DEF OwnQueue
  <1>13. \A f \in Flow : flow[f].gen # gen + 1 /\ (flow[f].attempt < attempt + 1)
    <2> SUFFICES ASSUME NEW f \in Flow
                 PROVE  flow[f].gen # gen + 1 /\ (flow[f].attempt < attempt + 1)
      OBVIOUS
    <2>1. /\ flow[f].gen \in Nat /\ flow[f].attempt \in Nat
          /\ flow[f].gen <= gen /\ flow[f].attempt <= attempt
      BY <1>1 DEF Clocks, Clock, TypesOK, FlowRec
    <2>2. QED
      BY <1>2, <2>1, SMT
  <1>14. Boots'
    BY <1>1, <1>8, <1>13, Flows DEF Boots
  <1>15. Clocks'
    BY <1>1, <1>2, <1>3, <1>8, ClocksPass
  <1>16. Renewal'
    <2> SUFFICES ASSUME flow["renew"].pc = "saving"
                 PROVE  /\ auth'.user \in {None, flow["renew"].user}
                        /\ \A g \in Login : ~Current(g)'
                        /\ SignedOut'
      BY <1>1 DEF Renewal
    <2>1. boot.ready
      BY <1>1, Flows DEF Boots
    <2>2. flow["renew"].wait < Len(recordJobs) + 1
      <3>1. flow["renew"].wait \in Nat /\ flow["renew"].wait <= Len(recordJobs)
        BY <1>1, Flows DEF Clocks, Clock, TypesOK, FlowRec
      <3>2. QED
        BY <1>2, <3>1, SMT
    <2>3. SignedOut'
      BY <1>1, <1>8, <1>13, <2>1, <2>2, Flows DEF SignedOut, Left
    <2>4. \A g \in Login : ~Current(g)'
      BY <1>1, <1>13, Flows DEF Current
    <2>5. QED
      BY <1>9, <2>3, <2>4
  <1>17. Pushes'
    BY <1>1, <1>8 DEF IInv, Pushes, authored
  <1>18. QED
    BY <1>1, <1>11, <1>12, <1>14, <1>15, <1>16, <1>17, ServedKept DEF IInv

(* Nothing moves but the sign-out and the records. *)
LEMMA OutStep ==
    ASSUME IInv, out' \in OutRec,
           flow["renew"].pc = "saving" => auth.user # None,
           boot' \in BootRec, boot'.ready = boot.ready, boot'.recovered = boot.recovered,
           recordJobs' \in Seq(Session),
           Len(recordJobs') \in Nat, Len(recordJobs) <= Len(recordJobs'),
           local' \in LocalRec, local'.owner = local.owner, local'.queue = local.queue,
           UNCHANGED <<auth, data, gen, attempt, flow, push, storeJobs, store, backup, wrote, served>>
    PROVE  IInv'
  <1>1. TypesOK /\ Queues /\ Boots /\ gen \in Nat /\ attempt \in Nat
    BY DEF IInv, TypesOK
  <1>2. gen <= gen /\ attempt <= attempt
    BY <1>1, SMT
  <1>3. TypesOK'
    BY <1>1 DEF TypesOK
  <1>4. Queues'
    BY <1>1, QueuesKept DEF Queues
  <1>5. Boots'
    BY <1>1 DEF Boots
  <1>6. Clocks'
    BY <1>1, <1>2, ClocksPass
  <1>7. Renewal'
    BY DEF IInv, Renewal, Current, Behind
  <1>8. Pushes'
    BY DEF IInv, Pushes, authored
  <1>9. QED
    BY <1>3, <1>4, <1>5, <1>6, <1>7, <1>8, ServedKept DEF IInv

(* A sign-out before the session was read: nobody has renewed anything. *)
LEMMA SignOutRecordStep ==
    ASSUME IInv, SignOutRecord
    PROVE  IInv'
  <1> DEFINE r == record(None, None, TRUE)
  <1>1. /\ TypesOK /\ out.pc = "start" /\ SaveRecord(r)
        /\ UNCHANGED <<auth, data, gen, attempt, flow, push, storeJobs, store, backup, wrote, served>>
    BY DEF IInv, SignOutRecord, ghost
  <1>2. PICK full \in Full :
            /\ local' = recorded(local, r, full)
            /\ out' = [out EXCEPT !.pc = "saving", !.ok = ~full, !.records = Len(recordJobs) + 1]
    BY DEF SignOutRecord
  <1>3. full \in BOOLEAN /\ (~full) \in BOOLEAN
    BY <1>2 DEF Full
  <1>4. r \in Session /\ local \in LocalRec /\ out \in OutRec
    BY <1>1, RecordParts DEF TypesOK, Anyone
  <1> HIDE DEF r
  <1>5. /\ boot' \in BootRec /\ boot'.ready = boot.ready /\ boot'.recovered = boot.recovered
        /\ recordJobs' \in Seq(Session) /\ Len(recordJobs) <= Len(recordJobs')
    BY <1>1, <1>4, SaveParts
  <1>6. local' \in LocalRec /\ local'.owner = local.owner /\ local'.queue = local.queue
    BY <1>2, <1>3, <1>4, RecordedParts
  <1>7. Len(recordJobs) + 1 \in Nat /\ Len(recordJobs') \in Nat
    BY <1>1, <1>5, SMT DEF TypesOK
  <1>8. out' \in OutRec
    BY <1>2, <1>3, <1>4, <1>7, OutSaves
  <1>9. flow["renew"].pc = "saving" => auth.user # None
    BY <1>1 DEF IInv, Renewal, SignedOut
  <1>10. QED
    BY <1>1, <1>5, <1>6, <1>7, <1>8, <1>9, OutStep

(* A sign-out does not end before the renewal whose account it left. *)
LEMMA SignOutDoneStep ==
    ASSUME IInv, SignOutDone
    PROVE  IInv'
  <1>1. /\ TypesOK /\ out.records = 0 /\ out' = NoOut
        /\ UNCHANGED <<auth, data, gen, attempt, boot, flow, push, storeJobs, recordJobs, local, store,
                       backup, wrote, served>>
    BY DEF IInv, SignOutDone, memory, jobs, disk
  <1>2. NoOut \in OutRec
    BY SMT DEF NoOut, OutRec
  <1>3. flow["renew"].pc = "saving" => auth.user # None
    <2>1. flow["renew"].wait \in Nat
      BY <1>1, Flows DEF TypesOK, FlowRec
    <2>2. ~(flow["renew"].wait < 0)
      BY <2>1, SMT
    <2>3. QED
      BY <1>1, <2>2 DEF IInv, Renewal, SignedOut
  <1>4. Len(recordJobs) \in Nat /\ Len(recordJobs) <= Len(recordJobs)
    BY <1>1, SMT DEF TypesOK
  <1>5. boot \in BootRec /\ recordJobs \in Seq(Session) /\ local \in LocalRec
    BY <1>1 DEF TypesOK
  <1>6. QED
    BY <1>1, <1>2, <1>3, <1>4, <1>5, OutStep

(* The renewal that starts. *)
LEMMA RenewingParts ==
    ASSUME TypesOK
    PROVE  /\ renewing \in FlowRec /\ renewing.pc = "asked" /\ renewing.user = auth.user
           /\ renewing.gen = gen /\ renewing.attempt = attempt
  <1> DEFINE asked == "asked"
             x1 == [Idle EXCEPT !.pc = asked]
             x2 == [x1 EXCEPT !.user = auth.user]
             x3 == [x2 EXCEPT !.gen = gen]
             x4 == [x3 EXCEPT !.attempt = attempt]
  <1>1. auth.user \in Anyone /\ gen \in Nat /\ attempt \in Nat /\ asked \in Phase /\ Idle \in FlowRec
    BY IdleParts, SMT DEF TypesOK, AuthRec, Phase
  <1>2. renewing = x4 /\ asked = "asked"
    BY <1>1 DEF renewing
  <1> HIDE DEF asked
  <1>3. x1 \in FlowRec /\ x1.pc = asked
    BY <1>1, SetPc
  <1> HIDE DEF x1
  <1>4. x2 \in FlowRec /\ x2.pc = asked /\ x2.user = auth.user
    BY <1>1, <1>3, SetUser
  <1> HIDE DEF x2
  <1>5. x3 \in FlowRec /\ x3.pc = asked /\ x3.user = auth.user /\ x3.gen = gen
    BY <1>1, <1>4, SetGen
  <1> HIDE DEF x3
  <1>6. /\ x4 \in FlowRec /\ x4.pc = asked /\ x4.user = auth.user /\ x4.gen = gen
        /\ x4.attempt = attempt
    BY <1>1, <1>5, SetAttempt
  <1> HIDE DEF x4
  <1>7. QED
    BY <1>2, <1>6

(* A renewal starts for who is signed in, and the request that waits for it  *)
(* is theirs.                                                                *)
LEMMA RenewingStep ==
    ASSUME IInv, boot.recovered, auth.user # None, flow["renew"].pc = "idle",
           flow' = [flow EXCEPT !["renew"] = renewing], push' \in PushRec, Pushes',
           UNCHANGED <<auth, data, gen, attempt, boot, out, storeJobs, recordJobs, local, store,
                       backup, wrote, served>>
    PROVE  IInv'
  <1>1. /\ TypesOK /\ Queues /\ Boots /\ auth.user \in Account /\ "renew" \in Flow
        /\ Len(recordJobs) \in Nat /\ gen \in Nat /\ attempt \in Nat
    BY Flows, SMT DEF IInv, TypesOK, AuthRec, Anyone
  <1>2. gen <= gen /\ attempt <= attempt /\ Len(recordJobs) <= Len(recordJobs)
    BY <1>1, SMT
  <1>3. /\ flow' \in [Flow -> FlowRec] /\ flow'["renew"] = renewing
        /\ \A g \in Flow : g # "renew" => flow'[g] = flow[g]
    <2>1. flow \in [Flow -> FlowRec] /\ renewing \in FlowRec
      BY <1>1, RenewingParts DEF TypesOK
    <2>2. QED
      BY <1>1, <2>1, PutFlow
  <1>4. TypesOK'
    BY <1>1, <1>3 DEF TypesOK
  <1>5. Queues'
    BY <1>1, <1>3, RenewingParts, QueuesKept DEF Queues
  <1>6. Boots'
    BY <1>1, <1>3, Flows DEF Boots
  <1>7. Clocks'
    <2>1. Clock("renew")'
      BY <1>1, <1>2, <1>3, RenewingParts DEF Clock
    <2>2. QED
      BY <1>1, <1>2, <1>3, <2>1, ClocksKept
  <1>8. Renewal'
    BY <1>1, <1>3, RenewingParts, RenewalKept, Flows
  <1>9. QED
    BY <1>4, <1>5, <1>6, <1>7, <1>8, ServedKept DEF IInv

LEMMA RenewStartStep ==
    ASSUME IInv, RenewStart
    PROVE  IInv'
  <1>1. /\ boot.recovered /\ auth.user # None /\ flow["renew"].pc = "idle" /\ push.pc # "renewing"
        /\ flow' = [flow EXCEPT !["renew"] = renewing]
        /\ UNCHANGED <<auth, data, gen, attempt, boot, out, push, storeJobs, recordJobs, local, store,
                       backup, wrote, served>>
    BY DEF RenewStart, memory, jobs, disk, ghost
  <1>2. Pushes'
    BY <1>1 DEF IInv, Pushes, authored
  <1>3. push' \in PushRec
    BY <1>1 DEF IInv, TypesOK
  <1>4. QED
    BY <1>1, <1>2, <1>3, RenewingStep

(* The answer to a renewal is taken if the renewed account is still signed   *)
(* in.                                                                       *)
LEMMA RenewAnsweredStep ==
    ASSUME IInv, RenewAnswered
    PROVE  IInv'
  <1>1. /\ "renew" \in Flow \ {"boot"} /\ "renew" \notin Login /\ flow["renew"].pc = "asked"
        /\ UNCHANGED <<data, out, store, backup, wrote, served>>
    BY Flows DEF RenewAnswered
  <1>2. ASSUME Abandon("renew"), UNCHANGED <<auth, data, gen, attempt, local, jobs>>
        PROVE  IInv'
    BY <1>1, <1>2, EndStep DEF disk
  <1>3. ASSUME Persist("renew")
        PROVE  IInv'
    BY <1>1, <1>3, PersistStep
  <1>4. QED
    BY <1>2, <1>3 DEF RenewAnswered

(* A renewal that was refused takes the request that waited with it. *)
LEMMA RenewRefusedStep ==
    ASSUME IInv, RenewRefused
    PROVE  IInv'
  <1>1. /\ TypesOK /\ Queues /\ Boots /\ GiveUp /\ flow' = [flow EXCEPT !["renew"] = Idle]
        /\ push' = IF push.pc = "renewing" THEN NoPush ELSE push
        /\ UNCHANGED <<data, gen, attempt, out, storeJobs, store, backup, wrote, served>>
    BY DEF IInv, RenewRefused, unanswered, ghost
  <1>2. /\ auth' \in AuthRec /\ auth'.user = auth.user /\ auth'.token = None
        /\ local' \in LocalRec /\ local'.owner = local.owner /\ local'.queue = local.queue
        /\ boot' \in BootRec /\ boot'.ready = boot.ready /\ boot'.recovered = boot.recovered
        /\ recordJobs' \in Seq(Session) /\ Len(recordJobs) <= Len(recordJobs')
    BY <1>1, GiveUpParts
  <1>3. /\ "renew" \in Flow /\ flow \in [Flow -> FlowRec] /\ gen \in Nat /\ attempt \in Nat
        /\ Len(recordJobs') \in Nat
    BY <1>1, <1>2, Flows, SMT DEF TypesOK
  <1>4. /\ flow' \in [Flow -> FlowRec] /\ flow'["renew"] = Idle
        /\ \A g \in Flow : g # "renew" => flow'[g] = flow[g]
    BY <1>1, <1>3, IdleParts, PutFlow
  <1>5. gen <= gen /\ attempt <= attempt /\ 0 <= gen /\ 0 <= attempt
    BY <1>3, SMT
  <1>6. push' \in PushRec
    BY <1>1, NoPushParts DEF TypesOK
  <1>7. TypesOK'
    BY <1>1, <1>2, <1>4, <1>6 DEF TypesOK
  <1>8. Queues'
    BY <1>1, <1>2, <1>4, IdleParts, QueuesKept DEF Queues
  <1>9. Boots'
    BY <1>1, <1>2, <1>4, IdleParts, Flows DEF Boots
  <1>10. Clocks'
    <2>1. Clock("renew")'
      BY <1>1, <1>4, <1>5, IdleParts DEF Clock
    <2>2. QED
      BY <1>1, <1>2, <1>3, <1>4, <1>5, <2>1, ClocksKept
  <1>11. Renewal'
    BY <1>1, <1>2, <1>3, <1>4, IdleParts, RenewalKept, Flows
  <1>12. Pushes'
    BY <1>1, <1>2, <1>4, NoPushParts DEF IInv, Pushes, authored
  <1>13. QED
    BY <1>1, <1>7, <1>8, <1>9, <1>10, <1>11, <1>12, ServedKept DEF IInv

LEMMA RenewFailedStep ==
    ASSUME IInv, RenewFailed
    PROVE  IInv'
  BY Flows, EndStep DEF RenewFailed, ghost

-------------------------------------------------------------------------------
(* Writing and sending.                                                      *)

(* What is written stays written. *)
LEMMA AuthoredGrows ==
    ASSUME TypesOK, NEW w \in Writing, wrote' = Append(wrote, w), w.by \in {w.for, None}
    PROVE  /\ wrote' \in Seq(Writing) /\ Len(wrote) + 1 \in authored(w.for)'
           /\ \A a : authored(a) \subseteq authored(a)'
  <1>1. wrote \in Seq(Writing)
    BY DEF TypesOK
  <1>2. wrote' \in Seq(Writing) /\ Len(wrote') = Len(wrote) + 1 /\ Len(wrote) \in Nat
    BY <1>1, SMT
  <1>3. wrote'[Len(wrote) + 1] = w /\ \A i \in 1..Len(wrote) : wrote'[i] = wrote[i]
    BY <1>1, SMT
  <1>4. DOMAIN wrote = 1..Len(wrote) /\ DOMAIN wrote' = 1..(Len(wrote) + 1)
    BY <1>1, <1>2, SMT
  <1>5. Len(wrote) + 1 \in 1..(Len(wrote) + 1) /\ 1..Len(wrote) \subseteq 1..(Len(wrote) + 1)
    BY <1>2, SMT
  <1>6. QED
    BY <1>2, <1>3, <1>4, <1>5 DEF authored

(* Nothing moves but queues and the request. *)
LEMMA RequestStep ==
    ASSUME IInv, TypesOK', Queues', Pushes', Served', data'.owner = data.owner,
           UNCHANGED <<auth, gen, attempt, boot, flow, out, recordJobs>>
    PROVE  IInv'
  <1>1. Boots'
    BY DEF IInv, Boots
  <1>2. Clocks'
    BY DEF IInv, Clocks, Clock
  <1>3. Renewal'
    BY DEF IInv, Renewal, Current, Behind, SignedOut, Left
  <1>4. QED
    BY <1>1, <1>2, <1>3 DEF IInv

(* What is written joins its owner's queue. *)
LEMMA EnqueueStep ==
    ASSUME IInv, Enqueue
    PROVE  IInv'
  <1> DEFINE op == Len(wrote) + 1
             queue == data.queue \cup {op}
  <1>1. /\ TypesOK /\ Queues /\ Served /\ auth.user \in {data.owner, None} /\ op \in Op
        /\ wrote' = Append(wrote, [by |-> auth.user, for |-> data.owner]) /\ PersistQueue(queue)
        /\ UNCHANGED <<auth, gen, attempt, boot, flow, out, push, recordJobs, store, backup, served>>
    BY DEF IInv, Enqueue
  <1>2. /\ [by |-> auth.user, for |-> data.owner] \in Writing
        /\ queue \in SUBSET Op
    BY <1>1 DEF TypesOK, AuthRec, DataRec, Writing
  <1>w. PICK w \in Writing : w = [by |-> auth.user, for |-> data.owner]
    BY <1>2
  <1>w1. w.for = data.owner /\ w.by \in {w.for, None}
    BY <1>1, <1>w
  <1>w2. wrote' = Append(wrote, w)
    BY <1>1, <1>w
  <1>3. /\ wrote' \in Seq(Writing) /\ op \in authored(w.for)'
        /\ \A a : authored(a) \subseteq authored(a)'
    BY <1>1, <1>w1, <1>w2, AuthoredGrows
  <1>4. /\ data' \in DataRec /\ data'.owner = data.owner /\ data'.queue = queue
        /\ local' \in LocalRec /\ local'.owner = local.owner
        /\ \/ local'.queue = local.queue
           \/ local'.queue = queue /\ local.owner = data.owner /\ local.owner # None
        /\ storeJobs' \in Seq(Job)
        /\ \A i \in 1..Len(storeJobs') :
              \/ i \in 1..Len(storeJobs) /\ storeJobs'[i] = storeJobs[i]
              \/ storeJobs'[i].owner = data.owner /\ storeJobs'[i].queue = queue
    BY <1>1, <1>2, PersistParts
  <1> HIDE DEF op
  <1>5. TypesOK'
    BY <1>1, <1>3, <1>4 DEF TypesOK
  <1>6. \A a : a = data.owner /\ a # None => queue \subseteq authored(a)'
    BY <1>1, <1>3, <1>4, <1>w1 DEF Queues, OwnQueue
  <1> HIDE DEF queue
  <1>7. Queues'
    <2>1. \A i \in 1..Len(storeJobs') : \A a :
             a = storeJobs'[i].owner /\ a # None => storeJobs'[i].queue \subseteq authored(a)'
      BY <1>1, <1>3, <1>4, <1>6 DEF Queues, OwnQueue
    <2>2. /\ local.owner # None => local'.queue \subseteq authored(local.owner)'
          /\ local.owner = None => local'.queue = {}
      BY <1>1, <1>3, <1>4, <1>6 DEF Queues, OwnQueue
    <2>3. \A a \in Account : store[a] \subseteq authored(a)'
      BY <1>1, <1>3 DEF Queues
    <2>4. \A f \in Flow : flow[f].pc = "switch" =>
             (flow[f].user # None => flow[f].read \subseteq authored(flow[f].user)')
      BY <1>1, <1>3 DEF Queues, OwnQueue
    <2>5. QED
      BY <1>1, <1>4, <1>6, <2>1, <2>2, <2>3, <2>4 DEF Queues, OwnQueue
  <1>8. Pushes'
    BY <1>1, <1>3 DEF IInv, Pushes
  <1>9. Served'
    BY <1>1, <1>3 DEF Served
  <1>10. QED
    BY <1>1, <1>4, <1>5, <1>7, <1>8, <1>9, RequestStep

(* A request carries what is in memory, under the token of its owner. *)
LEMMA PushStartStep ==
    ASSUME IInv, PushStart
    PROVE  IInv'
  <1>1. /\ TypesOK /\ Queues /\ auth.token # None /\ data.owner = auth.user /\ boot.recovered
        /\ push' = [pc |-> "sent", as |-> auth.token, owner |-> auth.user, gen |-> gen,
                    attempt |-> attempt, batch |-> data.queue, again |-> FALSE, reached |-> FALSE]
        /\ UNCHANGED <<auth, data, gen, attempt, boot, flow, out, storeJobs, recordJobs, local, store,
                       backup, wrote, served>>
    BY DEF IInv, PushStart, NoPush, memory, jobs, disk, ghost
  <1>2. auth.token = auth.user /\ auth.user # None /\ data.queue \subseteq authored(auth.user)
    BY <1>1 DEF TypesOK, Queues, OwnQueue
  <1>3. push' \in PushRec
    BY <1>1 DEF PushRec, TypesOK, AuthRec, DataRec
  <1>4. Pushes'
    BY <1>1, <1>2 DEF Pushes, authored
  <1>5. TypesOK'
    BY <1>1, <1>3 DEF TypesOK
  <1>6. Queues'
    BY <1>1, QueuesKept DEF Queues
  <1>7. QED
    BY <1>1, <1>4, <1>5, <1>6, ServedKept, RequestStep

(* What is served was written by whom it is served for. *)
LEMMA PushServeStep ==
    ASSUME IInv, PushServe
    PROVE  IInv'
  <1>1. /\ TypesOK /\ Queues /\ push.pc = "sent" /\ push.as # None
        /\ push' = [push EXCEPT !.reached = TRUE]
        /\ served' = served \cup (push.batch \X {push.as})
        /\ UNCHANGED <<auth, data, gen, attempt, boot, flow, out, storeJobs, recordJobs, local, store,
                       backup, wrote>>
    BY DEF IInv, PushServe, memory, jobs, disk
  <1>2. push.as \in Anyone /\ push.batch \in SUBSET Op /\ push \in PushRec
    BY <1>1 DEF TypesOK, PushRec
  <1>3. push' \in PushRec
    BY <1>1, <1>2, Zenon DEF PushRec
  <1>4. /\ push'.pc = push.pc /\ push'.as = push.as /\ push'.owner = push.owner
        /\ push'.batch = push.batch
    BY <1>1, <1>2 DEF PushRec
  <1>5. push.batch \subseteq authored(push.as) /\ push'.again = push.again
    BY <1>1, <1>2 DEF IInv, Pushes, PushRec
  <1>6. Pushes'
    BY <1>1, <1>4, <1>5 DEF IInv, Pushes, authored
  <1>7. TypesOK'
    BY <1>1, <1>2, <1>3 DEF TypesOK
  <1>8. Queues'
    BY <1>1 DEF Queues, OwnQueue, authored
  <1>9. Served'
    <2> SUFFICES ASSUME NEW s \in served' PROVE s[1] \in authored(s[2])'
      BY DEF Served
    <2>1. authored(s[2])' = authored(s[2])
      BY <1>1 DEF authored
    <2>2. CASE s \in served
      BY <2>1, <2>2 DEF IInv, Served
    <2>3. CASE s \in push.batch \X {push.as}
      BY <1>5, <2>1, <2>3
    <2>4. QED
      BY <1>1, <2>2, <2>3
  <1>10. QED
    BY <1>1, <1>6, <1>7, <1>8, <1>9, RequestStep

(* What was answered leaves the queue it came from. *)
LEMMA PushAnsweredStep ==
    ASSUME IInv, PushAnswered
    PROVE  IInv'
  <1>1. /\ TypesOK /\ Queues /\ push' = NoPush
        /\ UNCHANGED <<auth, gen, attempt, boot, flow, out, recordJobs, store, backup, wrote, served>>
    BY DEF IInv, PushAnswered
  <1>2. Pushes' /\ push' \in PushRec
    BY <1>1, NoPushParts DEF Pushes
  <1>3. CASE ownsQueue
    <2> DEFINE queue == data.queue \ push.batch
    <2>1. PersistQueue(queue)
      BY <1>3 DEF PushAnswered
    <2>2. queue \in SUBSET Op /\ (data.owner # None => queue \subseteq authored(data.owner))
      BY <1>1 DEF TypesOK, DataRec, Queues, OwnQueue
    <2> HIDE DEF queue
    <2>3. /\ data' \in DataRec /\ data'.owner = data.owner /\ data'.queue = queue
          /\ local' \in LocalRec /\ local'.owner = local.owner
          /\ \/ local'.queue = local.queue
             \/ local'.queue = queue /\ local.owner = data.owner /\ local.owner # None
          /\ storeJobs' \in Seq(Job)
          /\ \A i \in 1..Len(storeJobs') :
                \/ i \in 1..Len(storeJobs) /\ storeJobs'[i] = storeJobs[i]
                \/ storeJobs'[i].owner = data.owner /\ storeJobs'[i].queue = queue
      BY <1>1, <2>1, <2>2, PersistParts
    <2>4. TypesOK'
      BY <1>1, <1>2, <2>3 DEF TypesOK
    <2>5. \A a : authored(a)' = authored(a)
      BY <1>1 DEF authored
    <2>6. \A i \in 1..Len(storeJobs') :
             storeJobs'[i].owner # None => storeJobs'[i].queue \subseteq authored(storeJobs'[i].owner)
      BY <1>1, <2>2, <2>3 DEF Queues, OwnQueue
    <2>7. /\ local.owner # None => local'.queue \subseteq authored(local.owner)
          /\ local.owner = None => local'.queue = {}
      BY <1>1, <2>2, <2>3 DEF Queues, OwnQueue
    <2>8. Queues'
      BY <1>1, <2>2, <2>3, <2>5, <2>6, <2>7 DEF Queues, OwnQueue
    <2>9. QED
      BY <1>1, <1>2, <2>3, <2>4, <2>8, ServedKept, RequestStep
  <1>4. CASE ~ownsQueue
    <2>1. UNCHANGED <<data, local, storeJobs>>
      BY <1>4 DEF PushAnswered
    <2>2. TypesOK' /\ Queues'
      BY <1>1, <1>2, <2>1, QueuesKept DEF TypesOK, Queues
    <2>3. QED
      BY <1>1, <1>2, <2>1, <2>2, ServedKept, RequestStep
  <1>5. QED
    BY <1>3, <1>4

(* A request ends, and nothing else happens. *)
LEMMA PushEndStep ==
    ASSUME IInv, push' = NoPush,
           UNCHANGED <<auth, data, gen, attempt, boot, flow, out, storeJobs, recordJobs, local, store,
                       backup, wrote, served>>
    PROVE  IInv'
  <1>1. Pushes' /\ push' \in PushRec
    BY NoPushParts DEF Pushes
  <1>2. TypesOK' /\ Queues'
    BY <1>1, QueuesKept DEF IInv, TypesOK, Queues
  <1>3. QED
    BY <1>1, <1>2, ServedKept, RequestStep

(* A request is answered with 401: by a renewal of its own account's session *)
(* the first time.                                                           *)
LEMMA PushRejectedStep ==
    ASSUME IInv, PushRejected
    PROVE  IInv'
  <1>1. /\ TypesOK /\ Queues /\ Boots /\ push.pc = "sent"
        /\ UNCHANGED <<data, gen, attempt, out, storeJobs, store, backup, wrote, served>>
    BY DEF IInv, PushRejected, ghost
  <1>2. ASSUME push' = NoPush, UNCHANGED <<auth, boot, flow, local, recordJobs>>
        PROVE  IInv'
    BY <1>1, <1>2, PushEndStep
  <1>3. ASSUME auth.token = push.as, ~push.again, auth.user # None, flow["renew"].pc = "idle",
               push' = [push EXCEPT !.pc = "renewing"], flow' = [flow EXCEPT !["renew"] = renewing],
               UNCHANGED <<auth, boot, local, recordJobs>>
        PROVE  IInv'
    <2>1. push.owner # None /\ push.batch \subseteq authored(push.owner) /\ push.as = push.owner
      BY <1>1, <1>3 DEF IInv, Pushes
    <2>2. auth.user = push.owner
      BY <1>1, <1>3, <2>1 DEF TypesOK
    <2>3. push \in PushRec
      BY <1>1 DEF TypesOK
    <2>4. push' \in PushRec
      <3> DEFINE next == "renewing"
      <3>1. push' = [push EXCEPT !.pc = next] /\ next \in {"idle", "sent", "renewing"}
        BY <1>3
      <3> HIDE DEF next
      <3>2. QED
        BY <2>3, <3>1, Zenon DEF PushRec
    <2>5. push'.as = push.as /\ push'.owner = push.owner /\ push'.batch = push.batch
      BY <1>3, <2>3 DEF PushRec
    <2>6. flow'["renew"] = renewing
      <3>1. flow \in [Flow -> FlowRec] /\ "renew" \in Flow
        BY <1>1, Flows DEF TypesOK
      <3>2. QED
        BY <1>3, <3>1
    <2>7. flow'["renew"].pc \notin {"idle", "start"} /\ flow'["renew"].user = push.owner
      BY <1>1, <2>2, <2>6, RenewingParts
    <2>8. boot.recovered /\ boot' = boot
      BY <1>1, <1>3 DEF IInv, Pushes
    <2>9. Pushes'
      BY <1>1, <2>1, <2>5, <2>7, <2>8 DEF Pushes, authored
    <2>10. QED
      BY <1>1, <1>3, <2>4, <2>8, <2>9, RenewingStep
  <1>4. ASSUME push' = NoPush, GiveUp, UNCHANGED flow
        PROVE  IInv'
    <2>1. /\ auth' \in AuthRec /\ auth'.user = auth.user /\ auth'.token = None
          /\ local' \in LocalRec /\ local'.owner = local.owner /\ local'.queue = local.queue
          /\ boot' \in BootRec /\ boot'.ready = boot.ready /\ boot'.recovered = boot.recovered
          /\ recordJobs' \in Seq(Session) /\ Len(recordJobs) <= Len(recordJobs')
      BY <1>1, <1>4, GiveUpParts
    <2>2. gen \in Nat /\ attempt \in Nat /\ Len(recordJobs') \in Nat
          /\ gen <= gen /\ attempt <= attempt
      BY <1>1, <2>1, SMT DEF TypesOK
    <2>3. TypesOK'
      BY <1>1, <1>4, <2>1, NoPushParts DEF TypesOK
    <2>4. Queues'
      BY <1>1, <1>4, <2>1, QueuesKept DEF Queues
    <2>5. Boots'
      BY <1>1, <1>4, <2>1 DEF Boots
    <2>6. Clocks'
      BY <1>1, <1>4, <2>1, <2>2, ClocksPass
    <2>7. Renewal'
      BY <1>1, <1>4, <2>1 DEF IInv, Renewal, Current, Behind, SignedOut, Left
    <2>8. Pushes'
      BY <1>4, NoPushParts DEF Pushes
    <2>9. QED
      BY <1>1, <2>3, <2>4, <2>5, <2>6, <2>7, <2>8, ServedKept DEF IInv
  <1>5. QED
    BY <1>2, <1>3, <1>4 DEF PushRejected

-------------------------------------------------------------------------------
(* The disk, and the end of the app.                                         *)

(* A count of what is still to come. *)
LEMMA SoonerParts ==
    ASSUME NEW n \in Nat
    PROVE  /\ sooner(n) \in Nat /\ sooner(n) <= n
           /\ \A m \in Nat : m > 0 /\ m < n => sooner(m) < sooner(n)
           /\ \A m \in Nat : n > 0 /\ n <= m => sooner(n) <= m - 1
  BY SMT DEF sooner

(* The account store takes what was checkpointed, each owner its own. *)
LEMMA StoreWriteStep ==
    ASSUME IInv, StoreWrite
    PROVE  IInv'
  <1> DEFINE job == Head(storeJobs)
  <1>1. /\ TypesOK /\ Queues /\ Boots /\ Clocks /\ storeJobs # <<>> /\ storeJobs' = Tail(storeJobs)
        /\ flow' = [f \in Flow |-> IF flow[f].pc \in {"check", "switch"}
                                   THEN [flow[f] EXCEPT !.wait = sooner(flow[f].wait)] ELSE flow[f]]
        /\ out' = [out EXCEPT !.stores = sooner(out.stores)]
        /\ \/ store' = store
           \/ /\ job.owner # None
              /\ store' = [store EXCEPT ![job.owner] =
                              IF job.kind = "merge" THEN store[job.owner] \cup job.queue ELSE job.queue]
        /\ UNCHANGED <<auth, data, gen, attempt, boot, push, recordJobs, local, backup, wrote, served>>
    BY DEF IInv, StoreWrite, memory
  <1>2. /\ job \in Job /\ job.queue \in SUBSET Op /\ OwnQueue(job.owner, job.queue)
        /\ job.owner # None => job.owner \in Account
        /\ storeJobs' \in Seq(Job)
        /\ \A i \in 1..Len(storeJobs') : i + 1 \in 1..Len(storeJobs) /\ storeJobs'[i] = storeJobs[i + 1]
    <2>1. storeJobs \in Seq(Job) /\ storeJobs # <<>>
      BY <1>1 DEF TypesOK
    <2>2. job \in Job /\ 1 \in 1..Len(storeJobs) /\ job = storeJobs[1] /\ storeJobs' \in Seq(Job)
      BY <1>1, <2>1, SMT
    <2>3. \A i \in 1..Len(storeJobs') : i + 1 \in 1..Len(storeJobs) /\ storeJobs'[i] = storeJobs[i + 1]
      BY <1>1, <2>1, SMT
    <2>4. OwnQueue(job.owner, job.queue)
      BY <1>1, <2>2 DEF Queues
    <2>5. job.queue \in SUBSET Op /\ (job.owner # None => job.owner \in Account)
      BY <2>2 DEF Job, Anyone
    <2>6. QED
      BY <2>2, <2>3, <2>4, <2>5
  <1> HIDE DEF job
  <1>3. \A f \in Flow :
           /\ flow'[f] \in FlowRec /\ flow'[f].pc = flow[f].pc /\ flow'[f].user = flow[f].user
           /\ flow'[f].gen = flow[f].gen /\ flow'[f].attempt = flow[f].attempt
           /\ flow'[f].read = flow[f].read
           /\ flow[f].pc \notin {"check", "switch"} => flow'[f].wait = flow[f].wait
    <2> SUFFICES ASSUME NEW f \in Flow
                 PROVE  /\ flow'[f] \in FlowRec /\ flow'[f].pc = flow[f].pc
                        /\ flow'[f].user = flow[f].user
                        /\ flow'[f].gen = flow[f].gen /\ flow'[f].attempt = flow[f].attempt
                        /\ flow'[f].read = flow[f].read
                        /\ flow[f].pc \notin {"check", "switch"} => flow'[f].wait = flow[f].wait
      OBVIOUS
    <2>1. flow[f] \in FlowRec /\ sooner(flow[f].wait) \in Nat
      BY <1>1, SoonerParts DEF TypesOK, FlowRec
    <2> DEFINE x1 == [flow[f] EXCEPT !.wait = sooner(flow[f].wait)]
    <2>2. flow'[f] = IF flow[f].pc \in {"check", "switch"} THEN x1 ELSE flow[f]
      BY <1>1
    <2>3. /\ x1 \in FlowRec /\ x1.pc = flow[f].pc /\ x1.user = flow[f].user
          /\ x1.gen = flow[f].gen /\ x1.attempt = flow[f].attempt /\ x1.read = flow[f].read
      BY <2>1, SetWait
    <2> HIDE DEF x1
    <2>4. QED
      BY <2>1, <2>2, <2>3
  <1>4. DOMAIN flow' = Flow /\ flow' = [f \in Flow |-> flow'[f]]
    BY <1>1
  <1>5. flow' \in [Flow -> FlowRec]
    BY <1>3, <1>4
  <1>6. out' \in OutRec /\ out'.pc = out.pc /\ out'.records = out.records
    <2>1. out \in OutRec /\ sooner(out.stores) \in Nat
      BY <1>1, SoonerParts DEF TypesOK, OutRec
    <2>2. QED
      BY <1>1, <2>1 DEF OutRec
  <1>7. /\ store' \in [Account -> SUBSET Op]
        /\ \A a \in Account : store'[a] \subseteq authored(a)
    <2> DEFINE new == IF job.kind = "merge" THEN store[job.owner] \cup job.queue ELSE job.queue
    <2>1. store \in [Account -> SUBSET Op] /\ \A a \in Account : store[a] \subseteq authored(a)
      BY <1>1 DEF TypesOK, Queues
    <2>2. job.owner # None => new \in SUBSET Op /\ new \subseteq authored(job.owner)
      BY <1>2, <2>1 DEF OwnQueue
    <2>3. store' = store \/ (job.owner # None /\ store' = [store EXCEPT ![job.owner] = new])
      BY <1>1
    <2> HIDE DEF new
    <2>4. QED
      BY <1>2, <2>1, <2>2, <2>3
  <1>8. TypesOK'
    BY <1>1, <1>2, <1>5, <1>6, <1>7 DEF TypesOK
  <1>9. Queues'
    <2>1. \A a : authored(a)' = authored(a)
      BY <1>1 DEF authored
    <2>2. \A i \in 1..Len(storeJobs') : OwnQueue(storeJobs'[i].owner, storeJobs'[i].queue)
      BY <1>1, <1>2 DEF Queues
    <2>3. QED
      BY <1>1, <1>3, <1>7, <2>1, <2>2 DEF Queues, OwnQueue
  <1>10. Boots'
    BY <1>1, <1>3, Flows DEF Boots
  <1>11. Clocks'
    BY <1>1, <1>3 DEF Clocks, Clock
  <1>12. Renewal'
    <2>1. \A f \in Login : f \in Flow
      BY Flows
    <2>2. QED
      BY <1>1, <1>3, <1>6, <2>1, Flows DEF IInv, Renewal, Current, Behind, SignedOut, Left
  <1>13. Pushes'
    BY <1>1, <1>3, Flows DEF IInv, Pushes, authored
  <1>14. QED
    BY <1>1, <1>8, <1>9, <1>10, <1>11, <1>12, <1>13, ServedKept DEF IInv

(* The session store takes the next record; who waits for a later one goes   *)
(* on waiting for it.                                                        *)
LEMMA RecordWriteStep ==
    ASSUME IInv, RecordWrite
    PROVE  IInv'
  <1>1. /\ TypesOK /\ Queues /\ Boots /\ Clocks /\ recordJobs # <<>> /\ recordJobs' = Tail(recordJobs)
        /\ \A f \in Flow : flow[f].pc = "saving" => flow[f].wait > 0
        /\ UNCHANGED <<auth, data, gen, attempt, boot, push, storeJobs, local, store, wrote, served>>
    BY DEF IInv, RecordWrite, memory, ghost
  <1>2. PICK lost \in Lost :
            /\ backup' = IF lost THEN backup ELSE Head(recordJobs)
            /\ flow' = [f \in Flow |->
                           IF flow[f].pc \in {"asked", "saving"}
                           THEN [flow[f] EXCEPT !.wait = sooner(flow[f].wait),
                                                !.ok = flow[f].ok \/ (flow[f].wait = 1 /\ ~lost)]
                           ELSE flow[f]]
            /\ out' = [out EXCEPT !.records = sooner(out.records),
                                  !.ok = out.ok \/ (out.records = 1 /\ ~lost)]
    BY DEF RecordWrite
  <1>3. /\ Len(recordJobs) \in Nat /\ recordJobs' \in Seq(Session) /\ Len(recordJobs') \in Nat
        /\ Len(recordJobs') = Len(recordJobs) - 1 /\ Head(recordJobs) \in Session
    BY <1>1, SMT DEF TypesOK
  <1>4. \A f \in Flow :
           /\ flow'[f] \in FlowRec /\ flow'[f].pc = flow[f].pc /\ flow'[f].user = flow[f].user
           /\ flow'[f].gen = flow[f].gen /\ flow'[f].attempt = flow[f].attempt
           /\ flow'[f].read = flow[f].read
           /\ flow[f].pc \in {"asked", "saving"} => flow'[f].wait = sooner(flow[f].wait)
    <2> SUFFICES ASSUME NEW f \in Flow
                 PROVE  /\ flow'[f] \in FlowRec /\ flow'[f].pc = flow[f].pc
                        /\ flow'[f].user = flow[f].user
                        /\ flow'[f].gen = flow[f].gen /\ flow'[f].attempt = flow[f].attempt
                        /\ flow'[f].read = flow[f].read
                        /\ flow[f].pc \in {"asked", "saving"} => flow'[f].wait = sooner(flow[f].wait)
      OBVIOUS
    <2> DEFINE yes == flow[f].ok \/ (flow[f].wait = 1 /\ ~lost)
               x1 == [flow[f] EXCEPT !.wait = sooner(flow[f].wait)]
               x2 == [x1 EXCEPT !.ok = yes]
    <2>1. flow[f] \in FlowRec /\ sooner(flow[f].wait) \in Nat
      BY <1>1, SoonerParts DEF TypesOK, FlowRec
    <2>2. yes \in BOOLEAN
      OBVIOUS
    <2> HIDE DEF yes
    <2>3. flow'[f] = IF flow[f].pc \in {"asked", "saving"} THEN x2 ELSE flow[f]
      BY <1>2, <2>1 DEF yes
    <2>4. /\ x1 \in FlowRec /\ x1.pc = flow[f].pc /\ x1.user = flow[f].user
          /\ x1.gen = flow[f].gen /\ x1.attempt = flow[f].attempt /\ x1.read = flow[f].read
          /\ x1.wait = sooner(flow[f].wait)
      BY <2>1, SetWait
    <2> HIDE DEF x1
    <2>5. /\ x2 \in FlowRec /\ x2.pc = flow[f].pc /\ x2.user = flow[f].user
          /\ x2.gen = flow[f].gen /\ x2.attempt = flow[f].attempt /\ x2.read = flow[f].read
          /\ x2.wait = sooner(flow[f].wait)
      BY <2>2, <2>4, SetOk
    <2> HIDE DEF x2
    <2>6. QED
      BY <2>1, <2>3, <2>5
  <1>5. flow' \in [Flow -> FlowRec]
    <2>1. flow' = [f \in Flow |-> flow'[f]]
      BY <1>2
    <2>2. QED
      BY <1>4, <2>1
  <1>6. out' \in OutRec /\ out'.pc = out.pc /\ out'.records = sooner(out.records)
    <2> DEFINE yes == out.ok \/ (out.records = 1 /\ ~lost)
               fewer == sooner(out.records)
    <2>1. out \in OutRec /\ fewer \in Nat /\ yes \in BOOLEAN
      BY <1>1, SoonerParts DEF TypesOK, OutRec
    <2>2. out' = [out EXCEPT !.records = fewer, !.ok = yes]
      BY <1>2
    <2> HIDE DEF yes, fewer
    <2>3. out' \in OutRec
      BY <2>1, <2>2, Zenon DEF OutRec
    <2>4. out'.pc = out.pc /\ out'.records = fewer
      BY <2>1, <2>2 DEF OutRec
    <2>5. QED
      BY <2>3, <2>4 DEF fewer
  <1>7. backup' \in Session
    BY <1>1, <1>2, <1>3 DEF TypesOK
  <1>8. TypesOK'
    BY <1>1, <1>3, <1>5, <1>6, <1>7 DEF TypesOK
  <1>9. Queues'
    <2>1. \A a : authored(a)' = authored(a)
      BY <1>1 DEF authored
    <2>2. QED
      BY <1>1, <1>4, <2>1 DEF Queues, OwnQueue
  <1>10. Boots'
    BY <1>1, <1>4, Flows DEF Boots
  <1>11. Clocks'
    <2> SUFFICES ASSUME NEW f \in Flow PROVE Clock(f)'
      BY DEF Clocks
    <2>1. flow[f].pc = "saving" => flow'[f].wait <= Len(recordJobs')
      <3>1. SUFFICES ASSUME flow[f].pc = "saving" PROVE sooner(flow[f].wait) <= Len(recordJobs) - 1
        BY <1>3, <1>4
      <3>2. flow[f].wait \in Nat /\ flow[f].wait > 0 /\ flow[f].wait <= Len(recordJobs)
        BY <1>1, <3>1 DEF TypesOK, FlowRec, Clocks, Clock
      <3>3. QED
        BY <1>3, <3>2, SoonerParts
    <2>2. QED
      BY <1>1, <1>4, <2>1 DEF Clocks, Clock
  <1>12. Renewal'
    <2> SUFFICES ASSUME flow'["renew"].pc = "saving"
                 PROVE  /\ auth'.user \in {None, flow'["renew"].user}
                        /\ \A f \in Login : flow'[f].pc \in Working /\ Current(f)' => Behind(f)'
                        /\ auth'.user = None => SignedOut'
      BY DEF Renewal
    <2>1. /\ flow["renew"].pc = "saving" /\ flow["renew"].wait \in Nat /\ flow["renew"].wait > 0
          /\ flow'["renew"].wait = sooner(flow["renew"].wait)
          /\ flow'["renew"].user = flow["renew"].user
      BY <1>1, <1>4, Flows DEF TypesOK, FlowRec
    <2>2. /\ auth.user \in {None, flow["renew"].user}
          /\ \A f \in Login : flow[f].pc \in Working /\ Current(f) => Behind(f)
          /\ auth.user = None => SignedOut
      BY <2>1 DEF IInv, Renewal
    <2>3. \A n \in Nat : flow["renew"].wait < n => sooner(flow["renew"].wait) < sooner(n)
      BY <2>1, SoonerParts
    <2>4. \A f \in Login : flow'[f].pc \in Working /\ Current(f)' => Behind(f)'
      <3> SUFFICES ASSUME NEW f \in Login, flow'[f].pc \in Working, Current(f)'
                   PROVE  Behind(f)'
        OBVIOUS
      <3>1. f \in Flow /\ flow[f].wait \in Nat
        BY <1>1, Flows DEF TypesOK, FlowRec
      <3>2. Behind(f)
        BY <1>1, <1>4, <2>2, <3>1 DEF Current
      <3>3. CASE flow[f].user = flow["renew"].user
        BY <1>4, <2>1, <3>1, <3>3 DEF Behind
      <3>4. CASE flow[f].pc = "asked" /\ flow["renew"].wait < flow[f].wait
        <4>1. sooner(flow["renew"].wait) < sooner(flow[f].wait)
          BY <2>3, <3>1, <3>4
        <4>2. flow'[f].pc = "asked" /\ flow'[f].wait = sooner(flow[f].wait)
          BY <1>4, <3>1, <3>4
        <4>3. QED
          BY <2>1, <4>1, <4>2 DEF Behind
      <3>5. QED
        BY <3>2, <3>3, <3>4 DEF Behind
    <2>5. auth'.user = None => SignedOut'
      <3> SUFFICES ASSUME auth.user = None PROVE SignedOut'
        BY <1>1
      <3>1. out.pc = "saving" /\ flow["renew"].wait < out.records /\ \A f \in Login : Left(f)
        BY <2>2 DEF SignedOut
      <3>2. out.records \in Nat
        BY <1>1 DEF TypesOK, OutRec
      <3>3. out'.pc = "saving" /\ flow'["renew"].wait < out'.records
        BY <1>6, <2>1, <2>3, <3>1, <3>2
      <3>4. \A f \in Login : Left(f)'
        BY <1>1, <1>4, <3>1, Flows DEF Left
      <3>5. QED
        BY <3>3, <3>4 DEF SignedOut
    <2>6. QED
      BY <1>1, <2>1, <2>2, <2>4, <2>5
  <1>13. Pushes'
    BY <1>1, <1>4, Flows DEF IInv, Pushes, authored
  <1>14. QED
    BY <1>1, <1>8, <1>9, <1>10, <1>11, <1>12, <1>13, ServedKept DEF IInv

(* The flows of an app that starts. *)
LEMMA FreshParts ==
    /\ freshFlow \in [Flow -> FlowRec] /\ freshFlow["boot"] = Starting
    /\ \A f \in Flow : f # "boot" => freshFlow[f] = Idle
    /\ local \in LocalRec => /\ freshBoot \in BootRec
                             /\ ~freshBoot.ready /\ ~freshBoot.recovered
  <1>1. \A f \in Flow : freshFlow[f] = IF f = "boot" THEN Starting ELSE Idle
    BY DEF freshFlow
  <1>2. freshFlow \in [Flow -> FlowRec]
    BY IdleParts DEF freshFlow
  <1>3. ASSUME local \in LocalRec
        PROVE  freshBoot \in BootRec /\ ~freshBoot.ready /\ ~freshBoot.recovered
    <2> DEFINE clock == IF local.record.at < 0 THEN 0 ELSE local.record.at
    <2>1. clock \in Nat
      BY <1>3, SMT DEF LocalRec, Session, Record
    <2>2. freshBoot = [ready |-> FALSE, recovered |-> FALSE, clock |-> clock]
      BY DEF freshBoot
    <2> HIDE DEF clock
    <2>3. QED
      BY <2>1, <2>2 DEF BootRec
  <1>4. QED
    BY <1>1, <1>2, <1>3, Flows

(* The app starts again with what localStorage has. *)
LEMMA KillStep ==
    ASSUME IInv, Kill
    PROVE  IInv'
  <1>1. /\ TypesOK /\ Queues
        /\ auth' = [token |-> local.record.token, user |-> local.record.user]
        /\ data' = [owner |-> local.owner, queue |-> local.queue]
        /\ gen' = 0 /\ attempt' = 0 /\ boot' = freshBoot /\ flow' = freshFlow
        /\ out' = NoOut /\ push' = NoPush /\ storeJobs' = <<>> /\ recordJobs' = <<>>
        /\ UNCHANGED <<local, store, backup, wrote, served>>
    BY DEF IInv, Kill, disk
  <1>2. local \in LocalRec /\ local.record \in Session /\ local.owner \in Anyone /\ local.queue \in SUBSET Op
    BY <1>1 DEF TypesOK, LocalRec
  <1>3. auth' \in AuthRec /\ auth'.token \in {None, auth'.user}
    BY <1>1, <1>2 DEF Session, Record, AuthRec
  <1>4. data' \in DataRec /\ data'.owner = local.owner /\ data'.queue = local.queue
    BY <1>1, <1>2 DEF DataRec
  <1>5. NoOut \in OutRec /\ 0 \in Nat /\ 0 <= 0
    BY SMT DEF NoOut, OutRec
  <1>6. <<>> \in Seq(Job) /\ <<>> \in Seq(Session) /\ Len(<<>>) = 0
    OBVIOUS
  <1>7. TypesOK'
    BY <1>1, <1>2, <1>3, <1>4, <1>5, <1>6, FreshParts, NoPushParts DEF TypesOK
  <1>8. \A f \in Flow : flow'[f].pc \in {"idle", "start"} /\ flow'[f].gen = 0 /\ flow'[f].attempt = 0
    BY <1>1, FreshParts, IdleParts
  <1>9. Queues'
    <2>1. \A a : authored(a)' = authored(a)
      BY <1>1 DEF authored
    <2>2. \A i \in 1..Len(storeJobs') : FALSE
      BY <1>1, <1>6, SMT
    <2>3. QED
      BY <1>1, <1>4, <1>8, <2>1, <2>2 DEF Queues, OwnQueue
  <1>10. Boots'
    BY <1>1, <1>2, <1>8, FreshParts, Flows DEF Boots
  <1>11. Clocks'
    BY <1>1, <1>5, <1>8, FreshParts, IdleParts DEF Clocks, Clock
  <1>12. Renewal'
    BY <1>8, Flows DEF Renewal
  <1>13. Pushes'
    BY <1>1, NoPushParts DEF Pushes
  <1>14. QED
    BY <1>1, <1>7, <1>9, <1>10, <1>11, <1>12, <1>13, ServedKept DEF IInv

-------------------------------------------------------------------------------
(* The theorem.                                                              *)

LEMMA InitIInv == Init => IInv
  <1> SUFFICES ASSUME Init PROVE IInv
    OBVIOUS
  <1>1. /\ local = [owner |-> None, queue |-> {}, record |-> NoRecord]
        /\ auth = [token |-> None, user |-> None] /\ data = [owner |-> None, queue |-> {}]
        /\ gen = 0 /\ attempt = 0 /\ boot = freshBoot /\ flow = freshFlow
        /\ out = NoOut /\ push = NoPush /\ storeJobs = <<>> /\ recordJobs = <<>>
        /\ store = [a \in Account |-> {}] /\ backup = NoRecord /\ wrote = <<>> /\ served = {}
    BY DEF Init
  <1>2. NoRecord \in Session
    BY SMT DEF NoRecord, Session, Record, Anyone
  <1>3. local \in LocalRec
    BY <1>1, <1>2 DEF LocalRec, Anyone
  <1>4. auth \in AuthRec /\ auth.token \in {None, auth.user} /\ data \in DataRec
    BY <1>1 DEF AuthRec, DataRec, Anyone
  <1>5. NoOut \in OutRec /\ 0 \in Nat /\ 0 <= 0
    BY SMT DEF NoOut, OutRec
  <1>6. /\ <<>> \in Seq(Job) /\ <<>> \in Seq(Session) /\ <<>> \in Seq(Anyone) /\ Len(<<>>) = 0
    OBVIOUS
  <1>7. TypesOK
    BY <1>1, <1>2, <1>3, <1>4, <1>5, <1>6, FreshParts, NoPushParts DEF TypesOK
  <1>8. \A f \in Flow : flow[f].pc \in {"idle", "start"} /\ flow[f].gen = 0 /\ flow[f].attempt = 0
    BY <1>1, FreshParts, IdleParts
  <1>9. Queues
    <2>1. \A i \in 1..Len(storeJobs) : FALSE
      BY <1>1, <1>6, SMT
    <2>2. QED
      BY <1>1, <1>8, <2>1 DEF Queues, OwnQueue
  <1>10. Boots
    BY <1>1, <1>3, <1>8, FreshParts, Flows DEF Boots
  <1>11. Clocks
    BY <1>1, <1>5, <1>8, FreshParts, IdleParts DEF Clocks, Clock
  <1>12. Renewal
    BY <1>8, Flows DEF Renewal
  <1>13. Pushes
    BY <1>1, NoPushParts DEF Pushes
  <1>14. Served
    BY <1>1 DEF Served
  <1>15. QED
    BY <1>7, <1>9, <1>10, <1>11, <1>12, <1>13, <1>14 DEF IInv

LEMMA NextIInv ==
    ASSUME IInv, ~Hasty, [Next]_vars
    PROVE  IInv'
  <1>1. CASE UNCHANGED vars
    <2>1. UNCHANGED <<auth, data, gen, attempt, boot, flow, out, push, storeJobs, recordJobs, local,
                      store, backup, wrote, served>>
      BY <1>1 DEF vars, memory, jobs, disk, ghost
    <2>2. TypesOK' /\ Queues' /\ Pushes'
      BY <2>1, QueuesKept DEF IInv, TypesOK, Queues, Pushes, authored
    <2>3. QED
      BY <2>1, <2>2, ServedKept, RequestStep
  <1>2. CASE SessionRead \/ BootStart \/ BootMerge
    BY <1>2, SessionReadStep, BootStartStep, BootMergeStep
  <1>3. CASE \E f \in Flow : Check(f) \/ Switch(f) \/ Saved(f)
    BY <1>3, CheckStep, SwitchStep, SavedStep
  <1>4. CASE \E f \in Login : (\E u \in Account : SignIn(f, u)) \/ LoginStart(f)
                              \/ LoginAnswered(f) \/ LoginRefused(f)
    BY <1>4, SignInStep, LoginStartStep, LoginAnsweredStep, LoginRefusedStep
  <1>5. CASE SignOut \/ SignOutRecord \/ SignOutDone
    BY <1>5, SignOutStep, SignOutRecordStep, SignOutDoneStep
  <1>6. CASE RenewStart \/ RenewAnswered \/ RenewRefused \/ RenewFailed
    BY <1>6, RenewStartStep, RenewAnsweredStep, RenewRefusedStep, RenewFailedStep
  <1>7. CASE Enqueue \/ PushStart \/ PushServe \/ PushAnswered
    BY <1>7, EnqueueStep, PushStartStep, PushServeStep, PushAnsweredStep
  <1>8. CASE PushFailed
    BY <1>8, PushEndStep DEF PushFailed, memory, jobs, disk, ghost
  <1>9. CASE PushRejected
    BY <1>9, PushRejectedStep
  <1>10. CASE StoreWrite \/ RecordWrite \/ Kill
    BY <1>10, StoreWriteStep, RecordWriteStep, KillStep
  <1>11. QED
    BY <1>1, <1>2, <1>3, <1>4, <1>5, <1>6, <1>7, <1>8, <1>9, <1>10 DEF Next

LEMMA IInvNever == IInv => NeverAsAnother
  BY DEF IInv, Queues, OwnQueue, Served, authored, NeverAsAnother

(* Whatever sign-ins, sign-outs, renewals and kills cross each other, an     *)
(* operation reaches the server under the name of the account in whose data  *)
(* it was written and no other, and every copy of a queue holds operations   *)
(* of its owner only, whoever or nobody is signed in when it is written,     *)
(* when a sign-in waits for the sign-out before it to end.                   *)
THEOREM AccountsApart ==
    ASSUME ~Hasty
    PROVE  Spec => []NeverAsAnother
  <1>1. IInv /\ [Next]_vars => IInv'
    BY NextIInv
  <1>2. QED
    BY <1>1, InitIInv, IInvNever, PTL DEF Spec

-------------------------------------------------------------------------------
(* What was saved is kept.  Every write under way to an account's store has  *)
(* all that the store holds and the writes before it bring; the queue in     *)
(* memory has what all of them bring; localStorage, which keeps one          *)
(* account's queue, has what all of them bring for that account.  A flow     *)
(* that changes the data waits until no write for its account is under way,  *)
(* so what it reads is all there is.                                         *)


(* What the server has applied is safe, whatever becomes of its copies. *)
Sent == {o \in Op : \E u \in Account : <<o, u>> \in served}
Under(S, T) == S \subseteq T \cup Sent

(* The writes under way that are an account's, and whether a copy has all    *)
(* that is stored for an account or is on its way there.                     *)
Of(u) == {i \in 1..Len(storeJobs) : storeJobs[i].owner = u}
Holds(S, u) == Under(store[u], S) /\ \A i \in Of(u) : Under(storeJobs[i].queue, S)
Safe(S, u) == \A o \in S : \/ o \in store[u] \cup Sent
                           \/ \E i \in Of(u) : o \in storeJobs[i].queue

(* A flow is about to change the data: in the session of now, from somebody  *)
(* else's to its account's.                                                  *)
Changing(f) == flow[f].pc \in {"check", "switch"} /\ flow[f].gen = gen

(* Once the app has started its data are of who is signed in.                *)
Following ==
    /\ flow["boot"].pc = "idle" => boot.recovered
    /\ boot.recovered => data.owner = auth.user
    /\ flow["boot"].pc \in {"check", "switch", "merge"} =>
          IF flow["boot"].gen = gen THEN auth.user = flow["boot"].user
          ELSE data.owner = None /\ auth.user = None
    /\ ~boot.recovered /\ data.owner = None /\ local.owner # None =>
          auth.user = None /\ (boot.ready \/ gen # 0)

(* A sign-in that changes the data is the latest, and one that may go on     *)
(* began after the sign-out before it had ended.                             *)
Entering ==
    /\ flow["renew"].pc \notin {"check", "switch"}
    /\ \A f \in Flow : Changing(f) => data.owner # flow[f].user
    /\ \A f \in Login : Changing(f) => flow[f].attempt = attempt
    /\ \A f \in Login : flow[f].pc \in {"start", "asked"} /\ flow[f].attempt = attempt
                            => out.pc = "idle"
    /\ out.pc = "idle" => out.stores = 0

(* Who waits for the store waits for all that was on its way for the account *)
(* it will read, or for everybody when it will read nothing.                 *)
Waits == \A f \in Flow : Changing(f) =>
    /\ flow[f].pc = "check" /\ flow[f].user # None
           => \A i \in Of(flow[f].user) : i <= flow[f].wait
    /\ flow[f].user = None
           => \A i \in 1..Len(storeJobs) : storeJobs[i].owner # None => i <= flow[f].wait

Leaving ==
    data.owner = None =>
        \A i \in 1..Len(storeJobs) : storeJobs[i].owner # None => i <= out.stores

(* Every write under way has what its account's store holds, and what the    *)
(* writes before it bring.                                                   *)
Chained == \A j \in 1..Len(storeJobs) : storeJobs[j].owner # None =>
    /\ Under(store[storeJobs[j].owner], storeJobs[j].queue)
    /\ \A i \in 1..j : storeJobs[i].owner = storeJobs[j].owner
                           => Under(storeJobs[i].queue, storeJobs[j].queue)

(* So has the queue in memory, and so has localStorage for its account.      *)
Held == data.owner # None =>
    /\ Holds(data.queue, data.owner)
    /\ local.owner = data.owner =>
           Under(local.queue, data.queue) /\ Under(data.queue, local.queue)

Cached == local.owner # None => Holds(local.queue, local.owner)

(* Before localStorage has an owner there is nothing anywhere. *)
Blank == local.owner = None =>
    /\ data.owner = None
    /\ \A u \in Account : store[u] = {}
    /\ \A i \in 1..Len(storeJobs) : storeJobs[i].owner = None
    /\ \A f \in Flow : flow[f].pc = "switch" => flow[f].read = {}

(* What localStorage holds has been given to the store before its account's  *)
(* data are left.                                                            *)
Settled ==
    local.owner # None /\ (data.owner # local.owner \/ \E f \in Flow : Changing(f))
        => Safe(local.queue, local.owner)

(* What a flow has read is all there is of its account. *)
Reads == \A f \in Flow : Changing(f) /\ flow[f].pc = "switch" /\ flow[f].user # None =>
    /\ Of(flow[f].user) = {}
    /\ Under(store[flow[f].user], flow[f].read)
    /\ local.owner = flow[f].user =>
           Under(local.queue, flow[f].read) /\ Under(flow[f].read, local.queue)

Reached == push.reached => push.batch \subseteq Sent

KeptSafe == \A o \in kept :
    \/ o \in Sent
    \/ \E u \in Account : o \in store[u]
    \/ local.owner # None /\ o \in local.queue

Control == Following /\ Entering
Contents == /\ Waits /\ Leaving /\ Chained /\ Held /\ Cached /\ Blank
            /\ Settled /\ Reads /\ Reached /\ KeptSafe
KeepInv == IInv /\ Control /\ Contents

(* No write to the disk fails. *)
Sound == ~LocalMayFail /\ ~IdbMayFail

LEMMA SoundParts ==
    ASSUME Sound
    PROVE  Full = {FALSE} /\ Lost = {FALSE}
  BY DEF Sound, Full, Lost

-------------------------------------------------------------------------------
(* Steps that leave the copies alone. *)

Calm ==
    /\ UNCHANGED <<data, storeJobs, store, served, kept>>
    /\ local'.owner = local.owner /\ local'.queue = local.queue /\ out'.stores = out.stores
    /\ \A f \in Flow : flow'[f].pc \in {"check", "switch"} => flow'[f] = flow[f]
    /\ gen' \in {gen, gen + 1}
    /\ push'.reached => push.reached /\ push'.batch = push.batch

(* Who changes the data after such a step did before it. *)
LEMMA CalmChanging ==
    ASSUME IInv, NEW f \in Flow, gen' \in {gen, gen + 1},
           flow'[f].pc \in {"check", "switch"} => flow'[f] = flow[f], Changing(f)'
    PROVE  Changing(f) /\ flow'[f] = flow[f] /\ gen' = gen
  <1>1. flow[f].gen <= gen /\ flow[f].gen \in Nat /\ gen \in Nat
    BY DEF IInv, Clocks, Clock, TypesOK, FlowRec
  <1>2. flow'[f] = flow[f] /\ flow[f].gen = gen' /\ flow[f].pc \in {"check", "switch"}
    BY DEF Changing
  <1>3. gen' = gen
    BY <1>1, <1>2, SMT
  <1>4. QED
    BY <1>2, <1>3 DEF Changing

LEMMA CalmStep ==
    ASSUME IInv, Contents, Calm
    PROVE  Contents'
  <1>1. UNCHANGED <<data, storeJobs, store, served, kept>>
        /\ local'.owner = local.owner /\ local'.queue = local.queue /\ out'.stores = out.stores
    BY DEF Calm
  <1>2. \A f \in Flow : Changing(f)' => Changing(f) /\ flow'[f] = flow[f]
    BY CalmChanging DEF Calm
  <1>3. Sent' = Sent /\ \A u : Of(u)' = Of(u)
    BY <1>1 DEF Sent, Of
  <1>4. /\ \A S, T : Under(S, T)' <=> Under(S, T)
        /\ \A S, u : Holds(S, u)' <=> Holds(S, u)
        /\ \A S, u : Safe(S, u)' <=> Safe(S, u)
    BY <1>1, <1>3 DEF Under, Holds, Safe
  <1>5. Waits'
    BY <1>1, <1>2, <1>3 DEF Contents, Waits
  <1>6. Leaving' /\ Blank'
    BY <1>1 DEF Contents, Leaving, Blank, Calm
  <1>7. Chained'
    BY <1>1, <1>3 DEF Contents, Chained, Under
  <1>8. Held' /\ Cached'
    BY <1>1, <1>3, <1>4 DEF Contents, Held, Cached, Under, Holds
  <1>9. Settled'
    BY <1>1, <1>2, <1>3 DEF Contents, Settled, Safe
  <1>10. Reads'
    BY <1>1, <1>2, <1>3 DEF Contents, Reads, Under
  <1>11. Reached' /\ KeptSafe'
    BY <1>1, <1>3 DEF Contents, Reached, KeptSafe, Calm
  <1>12. QED
    BY <1>5, <1>6, <1>7, <1>8, <1>9, <1>10, <1>11 DEF Contents

(* A flow goes on or ends and changes no data. *)
LEMMA ControlKept ==
    ASSUME IInv, Control, NEW f \in Flow \ {"boot"}, \A g \in Flow : g # f => flow'[g] = flow[g],
           UNCHANGED <<gen, attempt, out, data>>, auth'.user = auth.user,
           local'.owner = local.owner,
           boot'.recovered <=> boot.recovered, boot.ready => boot'.ready,
           flow'[f].pc \notin {"check", "switch"},
           flow'[f].pc \in {"start", "asked"} /\ f \in Login =>
               flow[f].pc \in {"start", "asked"} /\ flow'[f].attempt = flow[f].attempt
    PROVE  Control'
  <1>1. flow'["boot"] = flow["boot"] /\ Following /\ Entering
    BY Flows DEF Control
  <1>2. \A g \in Flow : Changing(g)' => Changing(g) /\ flow'[g] = flow[g]
    BY DEF Changing
  <1>3. Following'
    BY <1>1 DEF Following
  <1>4. Entering'
    <2>1. flow'["renew"].pc \notin {"check", "switch"}
      BY <1>1, Flows DEF Entering
    <2>2. \A g \in Login : flow'[g].pc \in {"start", "asked"} /\ flow'[g].attempt = attempt
                               => out.pc = "idle"
      BY <1>1, Flows DEF Entering
    <2>3. QED
      BY <1>1, <1>2, <2>1, <2>2, Flows DEF Entering
  <1>5. QED
    BY <1>3, <1>4 DEF Control

(* No flow moves. *)
LEMMA ControlSame ==
    ASSUME IInv, Control, UNCHANGED <<gen, attempt, out, flow>>, data'.owner = data.owner,
           auth'.user = auth.user, local'.owner = local.owner,
           boot'.recovered <=> boot.recovered, boot.ready => boot'.ready
    PROVE  Control'
  <1>1. Following /\ Entering
    BY DEF Control
  <1>2. \A g : Changing(g)' <=> Changing(g)
    BY DEF Changing
  <1>3. Following'
    BY <1>1 DEF Following
  <1>4. Entering'
    BY <1>1, <1>2 DEF Entering
  <1>5. QED
    BY <1>3, <1>4 DEF Control

(* An account is installed over its own data, or over data a flow changes.   *)
LEMMA ControlInstalled ==
    ASSUME IInv, Control, NEW f \in Flow \ {"boot"}, \A g \in Flow : g # f => flow'[g] = flow[g],
           flow'[f].pc = "saving", flow[f].pc \notin {"idle", "start"},
           data'.owner = flow[f].user, auth'.user = flow[f].user, gen' = gen + 1,
           UNCHANGED <<attempt, out>>, boot'.recovered = boot.recovered
    PROVE  Control'
  <1>1. Following /\ Entering /\ boot.recovered /\ flow["boot"].pc = "idle"
    BY StartedFlow DEF Control
  <1>2. flow'["boot"] = flow["boot"]
    BY Flows
  <1>3. ASSUME NEW g \in Flow PROVE ~Changing(g)'
    <2>1. CASE g = f
      BY <2>1 DEF Changing
    <2>2. CASE g # f
      <3>1. flow[g].gen <= gen /\ flow[g].gen \in Nat /\ gen \in Nat /\ flow'[g] = flow[g]
        BY <2>2 DEF IInv, Clocks, Clock, TypesOK, FlowRec
      <3>2. flow[g].gen # gen + 1
        BY <3>1, SMT
      <3>3. QED
        BY <3>1, <3>2 DEF Changing
    <2>3. QED
      BY <2>1, <2>2
  <1>4. Following'
    BY <1>1, <1>2 DEF Following
  <1>5. Entering'
    <2>1. flow'["renew"].pc \notin {"check", "switch"}
      BY <1>1, Flows DEF Entering
    <2>2. \A g \in Login : flow'[g].pc \in {"start", "asked"} /\ flow'[g].attempt = attempt
                               => out.pc = "idle"
      BY <1>1, Flows DEF Entering
    <2>3. QED
      BY <1>1, <1>3, <2>1, <2>2, Flows DEF Entering
  <1>6. QED
    BY <1>4, <1>5 DEF Control

-------------------------------------------------------------------------------
(* The steps that leave the copies alone, one by one. *)

LEMMA SessionReadKeeps ==
    ASSUME KeepInv, SessionRead
    PROVE  Control' /\ Contents'
  <1>1. /\ IInv /\ Control /\ Contents /\ ~boot.ready
        /\ UNCHANGED <<data, gen, attempt, flow, out, push, storeJobs, local, store, served, kept>>
    BY DEF KeepInv, SessionRead, jobs, disk, ghost
  <1>2. Calm
    BY <1>1 DEF Calm
  <1>3. /\ ~boot.recovered /\ flow["boot"].pc \notin {"check", "switch", "merge"}
        /\ \A g : Changing(g)' <=> Changing(g)
    BY <1>1 DEF IInv, Boots, Changing
  <1>4. boot'.ready /\ ~boot'.recovered
    <2> DEFINE clock == IF backup.at > boot.clock THEN backup.at ELSE boot.clock
    <2>1. boot' = [boot EXCEPT !.ready = TRUE, !.clock = clock] /\ boot \in BootRec
      BY <1>1 DEF SessionRead, IInv, TypesOK
    <2> HIDE DEF clock
    <2>2. boot'.ready = TRUE /\ boot'.recovered = boot.recovered
      BY <2>1 DEF BootRec
    <2>3. QED
      BY <1>3, <2>2
  <1>5. Following'
    <2>1. data.owner = None /\ local.owner # None => auth.user = None /\ gen # 0
      BY <1>1, <1>3 DEF Control, Following
    <2>2. gen # 0 => auth' = auth
      BY DEF SessionRead
    <2>3. QED
      BY <1>1, <1>3, <1>4, <2>1, <2>2 DEF Control, Following
  <1>6. Entering'
    BY <1>1, <1>3 DEF Control, Entering
  <1>7. QED
    BY <1>1, <1>2, <1>5, <1>6, CalmStep DEF Control

(* A flow of an older session ends. *)
LEMMA StaleKeeps ==
    ASSUME KeepInv, NEW f \in Flow, flow[f].pc \in {"check", "switch"}, Stale(f)
    PROVE  Control' /\ Contents'
  <1>1. /\ IInv /\ Control /\ Contents /\ Abandon(f) /\ gen # flow[f].gen
        /\ UNCHANGED <<auth, data, gen, attempt, out, storeJobs, local, store, served, kept>>
    BY DEF KeepInv, Stale, jobs, disk, ghost
  <1>2. /\ flow'[f] = Idle /\ \A g \in Flow : g # f => flow'[g] = flow[g]
        /\ boot'.ready = boot.ready /\ (boot'.recovered <=> boot.recovered \/ f = "boot")
        /\ push' = IF f = "renew" /\ push.pc = "renewing" THEN NoPush ELSE push
    BY <1>1, AbandonParts DEF IInv
  <1>3. Idle.pc = "idle" /\ ~NoPush.reached
    BY IdleParts DEF NoPush
  <1>4. Calm
    BY <1>1, <1>2, <1>3 DEF Calm
  <1>5. ASSUME f # "boot" PROVE Control'
    BY <1>1, <1>2, <1>3, <1>5, ControlKept
  <1>6. ASSUME f = "boot" PROVE Control'
    <2>1. data.owner = None /\ auth.user = None
      BY <1>1, <1>6 DEF Control, Following
    <2>2. Following'
      BY <1>1, <1>2, <1>3, <1>6, <2>1 DEF Following
    <2>3. \A g \in Flow : Changing(g)' => Changing(g) /\ flow'[g] = flow[g]
      BY <1>1, <1>2, <1>3 DEF Changing
    <2>4. Entering'
      BY <1>1, <1>2, <1>6, <2>3, Flows DEF Control, Entering
    <2>5. QED
      BY <2>2, <2>4 DEF Control
  <1>7. QED
    BY <1>1, <1>4, <1>5, <1>6, CalmStep

LEMMA SavedKeeps ==
    ASSUME KeepInv, NEW f \in Flow, Saved(f)
    PROVE  Control' /\ Contents'
  <1>1. /\ IInv /\ Control /\ Contents /\ flow[f].pc = "saving"
        /\ flow' = [flow EXCEPT ![f] = Idle]
        /\ push' = IF f = "renew" /\ push.pc = "renewing"
                   THEN [push EXCEPT !.pc = "sent", !.as = auth.token, !.gen = gen, !.again = TRUE]
                   ELSE push
        /\ UNCHANGED <<auth, data, gen, attempt, boot, out, storeJobs, local, store, served, kept>>
    BY DEF KeepInv, Saved, memory, jobs, disk
  <1>2. f # "boot" /\ flow \in [Flow -> FlowRec] /\ push \in PushRec
    BY <1>1 DEF IInv, Boots, TypesOK
  <1>3. flow'[f] = Idle /\ \A g \in Flow : g # f => flow'[g] = flow[g]
    BY <1>1, <1>2, IdleParts, PutFlow
  <1>4. push'.reached = push.reached /\ push'.batch = push.batch
    BY <1>1, <1>2 DEF PushRec
  <1>5. Calm
    BY <1>1, <1>3, <1>4, IdleParts DEF Calm
  <1>6. QED
    BY <1>1, <1>2, <1>3, <1>5, IdleParts, CalmStep, ControlKept

(* A sign-in begins when none changes the data and no sign-out is under way. *)
LEMMA SignInKeeps ==
    ASSUME KeepInv, ~Hasty, ~Overlapping, NEW f \in Login, NEW u \in Account, SignIn(f, u)
    PROVE  Control' /\ Contents'
  <1> DEFINE x1 == [Starting EXCEPT !.user = u]
             x2 == [x1 EXCEPT !.attempt = attempt + 1]
  <1>1. /\ IInv /\ Control /\ Contents /\ flow[f].pc = "idle" /\ out.pc = "idle"
        /\ \A g \in Login : flow[g].pc \notin {"check", "switch"}
        /\ flow' = [flow EXCEPT ![f] = x2]
        /\ UNCHANGED <<auth, data, gen, boot, out, push, storeJobs, local, store, served, kept>>
    BY DEF KeepInv, SignIn, jobs, disk
  <1>2. u \in Anyone /\ attempt + 1 \in Nat /\ flow \in [Flow -> FlowRec] /\ f \in Flow
    BY <1>1, Flows, SMT DEF IInv, TypesOK, Anyone
  <1>3. x1 \in FlowRec /\ x1.pc = "start"
    BY <1>2, IdleParts, SetUser
  <1> HIDE DEF x1
  <1>4. x2 \in FlowRec /\ x2.pc = "start"
    BY <1>2, <1>3, SetAttempt
  <1> HIDE DEF x2
  <1>5. flow'[f] = x2 /\ \A g \in Flow : g # f => flow'[g] = flow[g]
    BY <1>1, <1>2, <1>4, PutFlow
  <1>6. Calm
    BY <1>1, <1>4, <1>5 DEF Calm
  <1>7. \A g \in Flow : Changing(g)' => Changing(g) /\ flow'[g] = flow[g] /\ g \notin Login
    BY <1>1, <1>4, <1>5 DEF Changing
  <1>8. Following'
    BY <1>1, <1>5, Flows DEF Control, Following
  <1>9. Entering'
    BY <1>1, <1>5, <1>7, Flows DEF Control, Entering
  <1>10. QED
    BY <1>1, <1>6, <1>8, <1>9, CalmStep DEF Control

(* A sign-in that leaves another account saves a record; the copies of the   *)
(* queue are not touched.                                                    *)
LEMMA LoginStartKeeps ==
    ASSUME KeepInv, NEW f \in Login, LoginStart(f)
    PROVE  Control' /\ Contents'
  <1> DEFINE leaving == auth.user \notin {None, flow[f].user}
             r == record(auth.token, auth.user, FALSE)
             wait == IF leaving THEN Len(recordJobs) + 1 ELSE 0
             asked == "asked"
             x1 == [flow[f] EXCEPT !.pc = asked]
             x2 == [x1 EXCEPT !.gen = gen]
             x3 == [x2 EXCEPT !.wait = wait]
  <1>1. /\ IInv /\ TypesOK /\ Control /\ Contents /\ flow[f].pc = "start"
        /\ UNCHANGED <<auth, data, gen, attempt, out, push, storeJobs, store, served, kept>>
    BY DEF KeepInv, IInv, LoginStart, ghost
  <1>2. /\ flow \in [Flow -> FlowRec] /\ flow[f] \in FlowRec /\ wait \in Nat /\ gen \in Nat
        /\ asked \in Phase /\ asked = "asked" /\ f \in Flow \ {"boot"}
    BY <1>1, Flows, SMT DEF TypesOK, Phase
  <1>3. flow' = [flow EXCEPT ![f] = x3]
    BY <1>2 DEF LoginStart
  <1>4. /\ boot'.ready = boot.ready /\ boot'.recovered = boot.recovered
        /\ local'.owner = local.owner /\ local'.queue = local.queue
    <2>1. CASE leaving
      <3>1. PICK full \in Full : local' = recorded(local, r, full)
        BY <2>1 DEF LoginStart
      <3>2. SaveRecord(r) /\ full \in BOOLEAN
        BY <2>1, <3>1 DEF LoginStart, Full
      <3>3. r \in Session /\ local \in LocalRec
        BY <1>1, RecordParts DEF TypesOK, AuthRec
      <3> HIDE DEF r
      <3>4. local'.owner = local.owner /\ local'.queue = local.queue
        BY <3>1, <3>2, <3>3, RecordedParts
      <3>5. boot'.ready = boot.ready /\ boot'.recovered = boot.recovered
        BY <1>1, <3>2, <3>3, SaveParts
      <3>6. QED
        BY <3>4, <3>5
    <2>2. CASE ~leaving
      BY <2>2 DEF LoginStart
    <2>3. QED
      BY <2>1, <2>2
  <1> HIDE DEF leaving, r, wait, asked
  <1>5. x1 \in FlowRec /\ x1.pc = asked /\ x1.attempt = flow[f].attempt
    BY <1>2, SetPc
  <1> HIDE DEF x1
  <1>6. x2 \in FlowRec /\ x2.pc = asked /\ x2.attempt = flow[f].attempt
    BY <1>2, <1>5, SetGen
  <1> HIDE DEF x2
  <1>7. x3 \in FlowRec /\ x3.pc = asked /\ x3.attempt = flow[f].attempt
    BY <1>2, <1>6, SetWait
  <1> HIDE DEF x3
  <1>8. /\ \A g \in Flow : g # f => flow'[g] = flow[g]
        /\ flow'[f].pc = "asked" /\ flow'[f].attempt = flow[f].attempt
    BY <1>2, <1>3, <1>7, PutFlow
  <1>9. Calm
    BY <1>1, <1>4, <1>8 DEF Calm
  <1>10. Control'
    BY <1>1, <1>2, <1>4, <1>8, ControlKept
  <1>11. QED
    BY <1>1, <1>9, <1>10, CalmStep

(* A flow that is not of the start ends. *)
LEMMA EndKeepsAll ==
    ASSUME KeepInv, NEW f \in Flow \ {"boot"}, Abandon(f),
           UNCHANGED <<auth, data, gen, attempt, out, storeJobs, local, store, served, kept>>
    PROVE  Control' /\ Contents'
  <1>1. IInv /\ Control /\ Contents
    BY DEF KeepInv
  <1>2. /\ flow'[f] = Idle /\ \A g \in Flow : g # f => flow'[g] = flow[g]
        /\ boot'.ready = boot.ready /\ (boot'.recovered <=> boot.recovered)
        /\ push' = IF f = "renew" /\ push.pc = "renewing" THEN NoPush ELSE push
    BY <1>1, AbandonParts DEF IInv
  <1>3. Idle.pc = "idle" /\ ~NoPush.reached
    BY IdleParts DEF NoPush
  <1>4. Calm
    BY <1>2, <1>3 DEF Calm
  <1>5. Control'
    BY <1>1, <1>2, <1>3, ControlKept
  <1>6. QED
    BY <1>1, <1>4, <1>5, CalmStep

(* An account is installed over its own data. *)
LEMMA InstallKeeps ==
    ASSUME KeepInv, NEW f \in Flow \ {"boot"}, flow[f].pc \notin {"idle", "start"},
           data.owner = flow[f].user, NEW full \in BOOLEAN, Install(f, local, full),
           UNCHANGED <<data, out, storeJobs, store, served, kept>>
    PROVE  Control' /\ Contents'
  <1>1. IInv /\ TypesOK /\ Control /\ Contents /\ local \in LocalRec
    BY DEF KeepInv, IInv, TypesOK
  <1>2. flow[f].user \in Account
    BY <1>1, StartedFlow
  <1>3. /\ auth'.user = flow[f].user /\ gen' = gen + 1
        /\ local'.owner = local.owner /\ local'.queue = local.queue
        /\ boot'.recovered = boot.recovered
        /\ \A g \in Flow : g # f => flow'[g] = flow[g]
        /\ flow'[f].pc = "saving" /\ UNCHANGED <<attempt, push>>
    BY <1>1, <1>2, InstallParts
  <1>4. Calm
    BY <1>3 DEF Calm
  <1>5. Control'
    BY <1>1, <1>3, ControlInstalled
  <1>6. QED
    BY <1>1, <1>4, <1>5, CalmStep

-------------------------------------------------------------------------------
(* The chain of writes to the store. *)

(* The chain with one more write. *)
LEMMA Appended ==
    ASSUME storeJobs \in Seq(Job), NEW job \in Job, storeJobs' = Append(storeJobs, job)
    PROVE  /\ Len(storeJobs) \in Nat /\ Len(storeJobs') = Len(storeJobs) + 1
           /\ \A i \in 1..Len(storeJobs) : i \in 1..Len(storeJobs') /\ storeJobs'[i] = storeJobs[i]
           /\ Len(storeJobs) + 1 \in 1..Len(storeJobs')
           /\ storeJobs'[Len(storeJobs) + 1] = job
           /\ \A i \in 1..Len(storeJobs') : i \in 1..Len(storeJobs) \/ i = Len(storeJobs) + 1
  <1>1. Len(storeJobs) \in Nat /\ Len(storeJobs') = Len(storeJobs) + 1
    OBVIOUS
  <1>2. \A i \in 1..Len(storeJobs) : storeJobs'[i] = storeJobs[i]
    BY SMT
  <1>3. storeJobs'[Len(storeJobs) + 1] = job
    BY SMT
  <1>4. /\ \A i \in 1..Len(storeJobs) : i \in 1..Len(storeJobs')
        /\ Len(storeJobs) + 1 \in 1..Len(storeJobs')
        /\ \A i \in 1..Len(storeJobs') : i \in 1..Len(storeJobs) \/ i = Len(storeJobs) + 1
    BY <1>1, SMT
  <1>5. QED
    BY <1>1, <1>2, <1>3, <1>4

(* The new write has all there is of its account. *)
LEMMA ChainGrows ==
    ASSUME storeJobs \in Seq(Job), Chained, NEW job \in Job, storeJobs' = Append(storeJobs, job),
           UNCHANGED <<store, served>>, job.owner # None => Holds(job.queue, job.owner)
    PROVE  /\ Chained' /\ Sent' = Sent
           /\ \A u : u # job.owner => Of(u)' = Of(u)
           /\ \A u : \A i \in Of(u) : storeJobs'[i] = storeJobs[i]
           /\ \A S, u : Holds(S, u) /\ (u = job.owner => Under(job.queue, S)) =>
                 /\ store'[u] \subseteq S \cup Sent'
                 /\ \A i \in 1..Len(storeJobs') : storeJobs'[i].owner = u
                                                    => storeJobs'[i].queue \subseteq S \cup Sent'
           /\ \A S, u : Safe(S, u) \/ (u = job.owner /\ Under(S, job.queue)) =>
                 \A o \in S : \/ o \in store'[u] \cup Sent'
                              \/ \E i \in 1..Len(storeJobs') : storeJobs'[i].owner = u
                                                                 /\ o \in storeJobs'[i].queue
  <1> DEFINE n == Len(storeJobs)
  <1>1. /\ n \in Nat
        /\ \A i \in 1..n : i \in 1..Len(storeJobs') /\ storeJobs'[i] = storeJobs[i]
        /\ n + 1 \in 1..Len(storeJobs') /\ storeJobs'[n + 1] = job
        /\ \A i \in 1..Len(storeJobs') : i \in 1..n \/ i = n + 1
    BY Appended
  <1>2. Sent' = Sent
    BY DEF Sent
  <1>3. \A i \in 1..n : \A j \in 1..i : j \in 1..n
    BY <1>1, SMT
  <1>4. \A j \in 1..(n + 1) : j \in 1..n \/ j = n + 1
    BY <1>1, SMT
  <1> HIDE DEF n
  <1>5. \A u : u # job.owner => Of(u)' = Of(u)
    <2> SUFFICES ASSUME NEW u, u # job.owner PROVE Of(u)' = Of(u)
      OBVIOUS
    <2>1. \A i : i \in Of(u)' <=> i \in Of(u)
      BY <1>1 DEF Of, n
    <2>2. QED
      BY <2>1 DEF Of
  <1>6. \A u : \A i \in Of(u) : storeJobs'[i] = storeJobs[i]
    BY <1>1 DEF Of, n
  <1>7. Chained'
    <2> SUFFICES ASSUME NEW j \in 1..Len(storeJobs'), storeJobs'[j].owner # None
                 PROVE  /\ store[storeJobs'[j].owner] \subseteq storeJobs'[j].queue \cup Sent
                        /\ \A i \in 1..j : storeJobs'[i].owner = storeJobs'[j].owner =>
                              storeJobs'[i].queue \subseteq storeJobs'[j].queue \cup Sent
      BY <1>2 DEF Chained, Under
    <2>1. CASE j \in 1..n
      BY <1>1, <1>3, <2>1 DEF Chained, Under, n
    <2>2. CASE j = n + 1
      BY <1>1, <1>4, <2>2 DEF Holds, Under, Of, n
    <2>3. QED
      BY <1>1, <2>1, <2>2
  <1>8. \A S, u : Holds(S, u) /\ (u = job.owner => Under(job.queue, S)) =>
           /\ store'[u] \subseteq S \cup Sent'
           /\ \A i \in 1..Len(storeJobs') : storeJobs'[i].owner = u
                                              => storeJobs'[i].queue \subseteq S \cup Sent'
    BY <1>1, <1>2 DEF Holds, Under, Of, n
  <1>9. \A S, u : Safe(S, u) \/ (u = job.owner /\ Under(S, job.queue)) =>
           \A o \in S : \/ o \in store'[u] \cup Sent'
                        \/ \E i \in 1..Len(storeJobs') : storeJobs'[i].owner = u
                                                           /\ o \in storeJobs'[i].queue
    BY <1>1, <1>2 DEF Safe, Under, Of, n
  <1>10. QED
    BY <1>2, <1>5, <1>6, <1>7, <1>8, <1>9

(* The checkpoint appends what is in memory, if it is somebody's. *)
LEMMA CheckpointIs ==
    ASSUME TypesOK
    PROVE  \/ data.owner = None /\ checkpoint = storeJobs /\ checkpointed = 0
           \/ \E job \in Job : /\ data.owner # None /\ checkpointed = Len(storeJobs) + 1
                               /\ job.owner = data.owner /\ job.queue = data.queue
                               /\ checkpoint = Append(storeJobs, job)
  <1> DEFINE job == [kind |-> "merge", owner |-> data.owner, queue |-> data.queue]
  <1>1. job \in Job /\ job.owner = data.owner /\ job.queue = data.queue
    BY DEF Job, TypesOK, DataRec
  <1>2. checkpoint = IF data.owner = None THEN storeJobs ELSE Append(storeJobs, job)
    BY DEF checkpoint
  <1>3. checkpointed = IF data.owner = None THEN 0 ELSE Len(storeJobs) + 1
    BY DEF checkpointed
  <1> HIDE DEF job
  <1>4. QED
    BY <1>1, <1>2, <1>3

(* A flow has the source checkpointed, once before it reads the destination  *)
(* and once after.                                                           *)
LEMMA CheckpointKeeps ==
    ASSUME KeepInv, NEW f \in Flow, \A g \in Flow : g # f => flow'[g] = flow[g],
           storeJobs' = checkpoint, f = "boot" \/ boot.recovered,
           UNCHANGED <<data, gen, out, push, local, store, served, kept>>,
           flow'[f].pc \in {"check", "switch"}, flow'[f].gen = gen,
           flow'[f].wait = checkpointed, data.owner # flow'[f].user,
           data.owner = None => Of(flow'[f].user) = {},
           flow'[f].pc = "switch" /\ flow'[f].user # None =>
               /\ Of(flow'[f].user) = {}
               /\ Under(store[flow'[f].user], flow'[f].read)
               /\ local.owner = flow'[f].user =>
                      Under(local.queue, flow'[f].read) /\ Under(flow'[f].read, local.queue),
           flow'[f].pc = "switch" /\ local.owner = None => flow'[f].read = {}
    PROVE  Contents'
  <1>1. IInv /\ TypesOK /\ Control /\ Contents
    BY DEF KeepInv, IInv
  <1>2. \A g \in Flow : g # f => flow'[g] = flow[g] /\ (Changing(g)' <=> Changing(g))
    BY DEF Changing
  <1>3. \A g \in Flow : g # f /\ Changing(g) => flow[g].user # None /\ data.owner # flow[g].user
    <2> SUFFICES ASSUME NEW g \in Flow, g # f, Changing(g)
                 PROVE  flow[g].user # None /\ data.owner # flow[g].user
      OBVIOUS
    <2>1. data.owner # flow[g].user
      BY <1>1 DEF Control, Entering
    <2>2. g # "boot"
      BY <1>1 DEF IInv, Boots, Changing
    <2>3. QED
      BY <1>1, <2>1, <2>2, AccountsAssumption DEF IInv, Clocks, Clock, Changing
  <1>4. Sent' = Sent
    BY DEF Sent
  <1>5. Reached' /\ KeptSafe'
    BY <1>1, <1>4 DEF Contents, Reached, KeptSafe
  <1>6. ASSUME data.owner = None, storeJobs' = storeJobs, checkpointed = 0
        PROVE  Contents'
    <2>1. \A u : Of(u)' = Of(u)
      BY <1>6 DEF Of
    <2>2. Waits'
      BY <1>1, <1>2, <1>6, <2>1 DEF Contents, Waits, Changing
    <2>3. Leaving' /\ Chained' /\ Held'
      BY <1>1, <1>4, <1>6 DEF Contents, Leaving, Chained, Under, Held
    <2>4. Cached'
      BY <1>1, <1>4, <2>1, <1>6 DEF Contents, Cached, Holds, Under
    <2>5. Blank'
      BY <1>1, <1>2, <1>6 DEF Contents, Blank
    <2>6. Settled'
      BY <1>1, <1>4, <2>1, <1>6 DEF Contents, Settled, Safe
    <2>7. Reads'
      BY <1>1, <1>2, <1>4, <2>1 DEF Contents, Reads, Under
    <2>8. QED
      BY <1>5, <2>2, <2>3, <2>4, <2>5, <2>6, <2>7 DEF Contents
  <1>7. ASSUME NEW job \in Job, data.owner # None, checkpointed = Len(storeJobs) + 1,
               job.owner = data.owner, job.queue = data.queue,
               storeJobs' = Append(storeJobs, job)
        PROVE  Contents'
    <2>1. storeJobs \in Seq(Job) /\ Chained /\ Holds(job.queue, job.owner)
      BY <1>1, <1>7 DEF TypesOK, Contents, Held
    <2>2. /\ Len(storeJobs) \in Nat
          /\ \A i \in 1..Len(storeJobs') : i \in 1..Len(storeJobs) \/ i = Len(storeJobs) + 1
          /\ storeJobs'[Len(storeJobs) + 1] = job
      BY <1>7, <2>1, Appended
    <2>3. /\ Chained' /\ Sent' = Sent
          /\ \A u : u # job.owner => Of(u)' = Of(u)
          /\ \A u : \A i \in Of(u) : storeJobs'[i] = storeJobs[i]
      BY <2>1, <1>7, ChainGrows
    <2>4. \A S, u : Holds(S, u) /\ (u = job.owner => Under(job.queue, S)) =>
                 /\ store'[u] \subseteq S \cup Sent'
                 /\ \A i \in 1..Len(storeJobs') : storeJobs'[i].owner = u
                                                    => storeJobs'[i].queue \subseteq S \cup Sent'
      BY <2>1, <1>7, ChainGrows
    <2>5. \A S, u : Safe(S, u) \/ (u = job.owner /\ Under(S, job.queue)) =>
                 \A o \in S : \/ o \in store'[u] \cup Sent'
                              \/ \E i \in 1..Len(storeJobs') : storeJobs'[i].owner = u
                                                                 /\ o \in storeJobs'[i].queue
      BY <2>1, <1>7, ChainGrows
    <2>6. \A i \in 1..Len(storeJobs') : i <= checkpointed
      BY <1>7, <2>2, SMT
    <2>7. Waits'
      <3> SUFFICES ASSUME NEW g \in Flow, Changing(g)'
                   PROVE  /\ flow'[g].pc = "check" /\ flow'[g].user # None
                               => \A i \in 1..Len(storeJobs') : storeJobs'[i].owner = flow'[g].user
                                      => i <= flow'[g].wait
                          /\ flow'[g].user = None =>
                               \A i \in 1..Len(storeJobs') : storeJobs'[i].owner # None
                                   => i <= flow'[g].wait
        BY DEF Waits, Of
      <3>1. CASE g = f
        BY <3>1, <2>6
      <3>2. CASE g # f
        BY <1>1, <1>2, <1>3, <1>7, <2>3, <3>2 DEF Contents, Waits, Of
      <3>3. QED
        BY <3>1, <3>2
    <2>8. Leaving'
      BY <1>7 DEF Leaving
    <2>9. Held' /\ Cached'
      <3>1. Under(data.queue, data.queue)
        BY DEF Under
      <3>2. Held'
        BY <1>1, <1>4, <1>7, <2>4, <3>1 DEF Contents, Held, Holds, Under, Of
      <3>3. local.owner # None => Holds(local.queue, local.owner)
                                  /\ (local.owner = job.owner => Under(job.queue, local.queue))
        BY <1>1, <1>7 DEF Contents, Cached, Held
      <3>4. local.owner # None =>
               /\ store'[local.owner] \subseteq local.queue \cup Sent'
               /\ \A i \in 1..Len(storeJobs') : storeJobs'[i].owner = local.owner
                       => storeJobs'[i].queue \subseteq local.queue \cup Sent'
        BY <2>4, <3>3
      <3>5. Cached'
        BY <3>4 DEF Cached, Holds, Under, Of
      <3>6. QED
        BY <3>2, <3>5
    <2>10. Blank'
      BY <1>1, <1>7 DEF Contents, Blank
    <2>11. Settled'
      <3>1. local.owner # None => Safe(local.queue, local.owner)
                                  \/ (local.owner = job.owner /\ Under(local.queue, job.queue))
        BY <1>1, <1>7 DEF Contents, Settled, Held
      <3>2. local.owner # None => \A o \in local.queue :
               \/ o \in store'[local.owner] \cup Sent'
               \/ \E i \in 1..Len(storeJobs') : storeJobs'[i].owner = local.owner
                                                  /\ o \in storeJobs'[i].queue
        <4> DEFINE S == local.queue
                   u == local.owner
        <4>1. u # None => Safe(S, u) \/ (u = job.owner /\ Under(S, job.queue))
          BY <3>1
        <4> HIDE DEF S, u
        <4>2. u # None => \A o \in S :
                 \/ o \in store'[u] \cup Sent'
                 \/ \E i \in 1..Len(storeJobs') : storeJobs'[i].owner = u
                                                    /\ o \in storeJobs'[i].queue
          BY <2>5, <4>1
        <4>3. QED
          BY <4>2 DEF S, u
      <3>3. QED
        BY <3>2 DEF Settled, Safe, Of
    <2>12. Reads'
      <3> SUFFICES ASSUME NEW g \in Flow, Changing(g)', flow'[g].pc = "switch", flow'[g].user # None
                   PROVE  /\ \A i \in 1..Len(storeJobs') : storeJobs'[i].owner # flow'[g].user
                          /\ store[flow'[g].user] \subseteq flow'[g].read \cup Sent
                          /\ local.owner = flow'[g].user =>
                                 /\ local.queue \subseteq flow'[g].read \cup Sent
                                 /\ flow'[g].read \subseteq local.queue \cup Sent
        BY <1>4 DEF Reads, Under, Of
      <3>1. CASE g = f
        BY <1>7, <2>3, <3>1 DEF Under, Of
      <3>2. CASE g # f
        BY <1>1, <1>2, <1>3, <1>7, <2>3, <3>2 DEF Contents, Reads, Under, Of
      <3>3. QED
        BY <3>1, <3>2
    <2>13. QED
      BY <1>5, <2>3, <2>7, <2>8, <2>9, <2>10, <2>11, <2>12 DEF Contents
  <1>8. QED
    BY <1>1, <1>6, <1>7, CheckpointIs

(* A flow that may change the data begins to, or goes on. *)
LEMMA ControlGoesOn ==
    ASSUME IInv, Control, NEW f \in Flow \ {"renew"}, \A g \in Flow : g # f => flow'[g] = flow[g],
           UNCHANGED <<auth, data, gen, attempt, boot, out, local>>,
           flow'[f].pc \in {"check", "switch"}, flow'[f].gen = gen, data.owner # flow'[f].user,
           f \in Login => flow'[f].attempt = attempt, f = "boot" => flow'[f].user = auth.user
    PROVE  Control'
  <1>1. Following /\ Entering
    BY DEF Control
  <1>2. \A g \in Flow : g # f /\ Changing(g)' => Changing(g) /\ flow'[g] = flow[g]
    BY DEF Changing
  <1>3. Following'
    BY <1>1, Flows DEF Following
  <1>4. Entering'
    BY <1>1, <1>2, Flows DEF Entering
  <1>5. QED
    BY <1>3, <1>4 DEF Control

(* The start keeps the data, or has them checkpointed to change them. *)
LEMMA BootStartKeeps ==
    ASSUME KeepInv, BootStart
    PROVE  Control' /\ Contents'
  <1> DEFINE x1 == [Starting EXCEPT !.user = auth.user]
             x2 == [x1 EXCEPT !.gen = gen]
             x3 == [x2 EXCEPT !.attempt = attempt]
             here == [x3 EXCEPT !.pc = "merge"]
             other == [x3 EXCEPT !.pc = "check"]
  <1>1. /\ IInv /\ TypesOK /\ Control /\ Contents /\ flow["boot"].pc = "start"
        /\ UNCHANGED <<auth, data, gen, attempt, boot, out, push, local, store, served, kept>>
    BY DEF KeepInv, IInv, BootStart, memory, disk, ghost
  <1>2. \/ data.owner = auth.user /\ flow' = [flow EXCEPT !["boot"] = here] /\ UNCHANGED storeJobs
        \/ data.owner # auth.user /\ Checkpoint("boot", other)
    BY DEF BootStart
  <1>3. /\ auth.user \in Anyone /\ gen \in Nat /\ attempt \in Nat
        /\ "merge" \in Phase /\ "check" \in Phase /\ flow \in [Flow -> FlowRec]
    BY <1>1 DEF TypesOK, AuthRec, Phase
  <1>4. x1 \in FlowRec /\ x1.user = auth.user
    BY <1>3, IdleParts, SetUser
  <1> HIDE DEF x1
  <1>5. x2 \in FlowRec /\ x2.user = auth.user /\ x2.gen = gen
    BY <1>3, <1>4, SetGen
  <1> HIDE DEF x2
  <1>6. x3 \in FlowRec /\ x3.user = auth.user /\ x3.gen = gen
    BY <1>3, <1>5, SetAttempt
  <1> HIDE DEF x3
  <1>7. here \in FlowRec /\ here.user = auth.user /\ here.gen = gen /\ here.pc = "merge"
    BY <1>3, <1>6, SetPc
  <1>8. other \in FlowRec /\ other.user = auth.user /\ other.gen = gen /\ other.pc = "check"
    BY <1>3, <1>6, SetPc
  <1> HIDE DEF here, other
  <1>9. ASSUME data.owner = auth.user, flow' = [flow EXCEPT !["boot"] = here], UNCHANGED storeJobs
        PROVE  Control' /\ Contents'
    <2>1. flow'["boot"] = here /\ \A g \in Flow : g # "boot" => flow'[g] = flow[g]
      BY <1>3, <1>7, <1>9, PutFlow, Flows
    <2>2. Calm
      BY <1>1, <1>7, <1>9, <2>1 DEF Calm
    <2>3. Following'
      BY <1>1, <1>7, <2>1 DEF Control, Following
    <2>4. \A g \in Flow : Changing(g)' => Changing(g) /\ flow'[g] = flow[g]
      BY <1>1, <1>7, <2>1 DEF Changing
    <2>5. Entering'
      BY <1>1, <2>1, <2>4, Flows DEF Control, Entering
    <2>6. QED
      BY <1>1, <2>2, <2>3, <2>5, CalmStep DEF Control
  <1>10. ASSUME data.owner # auth.user, Checkpoint("boot", other)
         PROVE  Control' /\ Contents'
    <2>1. /\ \A g \in Flow : g # "boot" => flow'[g] = flow[g]
          /\ flow'["boot"].pc = "check" /\ flow'["boot"].user = auth.user
          /\ flow'["boot"].gen = gen /\ storeJobs' = checkpoint
      BY <1>1, <1>8, <1>10, WaitingParts, Flows
    <2>2. flow'["boot"].wait = checkpointed
      <3> DEFINE x == [other EXCEPT !.wait = checkpointed]
      <3>1. flow' = [flow EXCEPT !["boot"] = x]
        BY <1>10 DEF Checkpoint
      <3>2. x \in FlowRec /\ x.wait = checkpointed
        BY <1>1, <1>8, CheckpointParts, SetWait
      <3> HIDE DEF x
      <3>3. QED
        BY <1>3, <3>1, <3>2, PutFlow, Flows
    <2>3. data.owner = None => Of(auth.user) = {}
      <3>1. ~boot.recovered
        BY <1>1 DEF IInv, Boots
      <3>2. data.owner = None => local.owner = None
        BY <1>1, <1>10, <3>1 DEF Control, Following
      <3>3. QED
        BY <1>1, <1>10, <3>2 DEF Contents, Blank, Of
    <2>4. Control'
      BY <1>1, <1>10, <2>1, Flows, ControlGoesOn
    <2>5. Contents'
      BY <1>1, <1>10, <2>1, <2>2, <2>3, Flows, CheckpointKeeps
    <2>6. QED
      BY <2>4, <2>5
  <1>11. QED
    BY <1>2, <1>9, <1>10

(* What a flow reads once its wait is over is all there is of its account. *)
LEMMA CheckKeeps ==
    ASSUME KeepInv, NEW f \in Flow, Check(f)
    PROVE  Control' /\ Contents'
  <1>1. /\ IInv /\ TypesOK /\ Control /\ Contents /\ flow[f].pc = "check" /\ flow[f].wait = 0
        /\ f # "renew"
    BY DEF KeepInv, IInv, Check, Control, Entering
  <1>2. ASSUME Stale(f) PROVE Control' /\ Contents'
    BY <1>1, <1>2, StaleKeeps
  <1>3. ASSUME gen = flow[f].gen,
               Checkpoint(f, [flow[f] EXCEPT !.pc = "switch", !.read = saved(flow[f].user)]),
               UNCHANGED <<memory, out, push, recordJobs, disk, ghost, budget>>
        PROVE  Control' /\ Contents'
    <2> DEFINE switch == "switch"
               read == saved(flow[f].user)
               x1 == [flow[f] EXCEPT !.pc = switch]
               x2 == [x1 EXCEPT !.read = read]
               x3 == [x2 EXCEPT !.wait = checkpointed]
    <2>1. /\ UNCHANGED <<auth, data, gen, attempt, boot, out, push, local, store, served, kept>>
          /\ flow' = [flow EXCEPT ![f] = x3] /\ switch = "switch" /\ storeJobs' = checkpoint
      BY <1>3 DEF memory, disk, ghost, Checkpoint
    <2>2. /\ flow \in [Flow -> FlowRec] /\ flow[f] \in FlowRec /\ switch \in Phase
          /\ flow[f].user \in Anyone
      BY <1>1 DEF TypesOK, Phase, FlowRec
    <2>3. read \in SUBSET Op
      BY <1>1, <2>2 DEF saved, TypesOK, Anyone
    <2>4. flow[f].user = None => read = {}
      BY DEF saved
    <2>5. flow[f].user # None => flow[f].user \in Account /\ read = store[flow[f].user]
      BY <2>2 DEF saved, Anyone
    <2> HIDE DEF read, switch
    <2>6. /\ x1 \in FlowRec /\ x1.pc = switch /\ x1.user = flow[f].user /\ x1.gen = flow[f].gen
          /\ x1.attempt = flow[f].attempt
      BY <2>2, SetPc
    <2> HIDE DEF x1
    <2>7. /\ x2 \in FlowRec /\ x2.pc = switch /\ x2.user = flow[f].user /\ x2.gen = flow[f].gen
          /\ x2.attempt = flow[f].attempt /\ x2.read = read
      BY <2>3, <2>6, SetRead
    <2> HIDE DEF x2
    <2>8. /\ x3 \in FlowRec /\ x3.pc = switch /\ x3.user = flow[f].user /\ x3.gen = flow[f].gen
          /\ x3.attempt = flow[f].attempt /\ x3.read = read /\ x3.wait = checkpointed
      BY <1>1, <2>7, CheckpointParts, SetWait
    <2> HIDE DEF x3
    <2>9. flow'[f] = x3 /\ \A g \in Flow : g # f => flow'[g] = flow[g]
      BY <2>1, <2>2, <2>8, PutFlow
    <2>10. /\ flow'[f].pc = "switch" /\ flow'[f].user = flow[f].user /\ flow'[f].gen = gen
           /\ flow'[f].attempt = flow[f].attempt /\ flow'[f].read = read
           /\ flow'[f].wait = checkpointed
      BY <1>3, <2>1, <2>8, <2>9
    <2>11. Changing(f) /\ data.owner # flow[f].user
           /\ (f \in Login => flow[f].attempt = attempt)
           /\ (f = "boot" => flow[f].user = auth.user)
      BY <1>1, <1>3 DEF Changing, Control, Entering, Following
    <2>12. flow[f].user # None => Of(flow[f].user) = {}
      <3>1. flow[f].user # None => \A i \in Of(flow[f].user) : i <= 0
        BY <1>1, <2>11 DEF Contents, Waits
      <3>2. \A i \in 1..Len(storeJobs) : ~(i <= 0)
        <4>1. Len(storeJobs) \in Nat
          BY <1>1 DEF TypesOK
        <4>2. QED
          BY <4>1, SMT
      <3>3. QED
        BY <3>1, <3>2 DEF Of
    <2>13. local.owner = flow[f].user /\ flow[f].user # None =>
               Under(local.queue, read) /\ Under(read, local.queue)
      <3> SUFFICES ASSUME local.owner = flow[f].user, flow[f].user # None
                   PROVE  Under(local.queue, read) /\ Under(read, local.queue)
        OBVIOUS
      <3>1. Safe(local.queue, local.owner)
        BY <1>1, <2>11 DEF Contents, Settled
      <3>2. Under(local.queue, read)
        BY <2>5, <2>12, <3>1 DEF Safe, Under
      <3>3. Under(read, local.queue)
        BY <1>1, <2>5 DEF Contents, Cached, Holds
      <3>4. QED
        BY <3>2, <3>3
    <2>14. local.owner = None => read = {}
      BY <1>1, <2>4, <2>5 DEF Contents, Blank
    <2>15. f = "boot" \/ boot.recovered
      BY <1>1, StartedFlow
    <2>16. Under(read, read)
      BY DEF Under
    <2>17. Control'
      BY <1>1, <2>1, <2>9, <2>10, <2>11, ControlGoesOn
    <2>18. Contents'
      BY <1>1, <2>1, <2>5, <2>9, <2>10, <2>11, <2>12, <2>13, <2>14, <2>15, <2>16, CheckpointKeeps
    <2>19. QED
      BY <2>17, <2>18
  <1>4. QED
    BY <1>2, <1>3 DEF Check

(* A sign-in that was answered goes on when its attempt is still the latest. *)
LEMMA LoginAnsweredKeeps ==
    ASSUME KeepInv, NEW f \in Login, LoginAnswered(f)
    PROVE  Control' /\ Contents'
  <1>1. /\ IInv /\ TypesOK /\ Control /\ Contents /\ f \in Flow \ {"boot"} /\ f # "renew"
        /\ flow[f].pc = "asked" /\ UNCHANGED <<data, out, store, served, kept>>
    BY Flows DEF KeepInv, IInv, LoginAnswered
  <1>2. ASSUME Abandon(f), UNCHANGED <<auth, data, gen, attempt, local, jobs>>
        PROVE  Control' /\ Contents'
    BY <1>1, <1>2, EndKeepsAll DEF jobs
  <1>3. ASSUME flow[f].attempt = attempt, flow[f].gen = gen, data.owner = flow[f].user,
               NEW full \in Full, Install(f, local, full), UNCHANGED storeJobs
        PROVE  Control' /\ Contents'
    <2>1. full \in BOOLEAN
      BY <1>3 DEF Full
    <2>2. QED
      BY <1>1, <1>3, <2>1, InstallKeeps
  <1>4. ASSUME flow[f].attempt = attempt, flow[f].gen = gen, data.owner # flow[f].user,
               Checkpoint(f, [[flow[f] EXCEPT !.gen = gen, !.attempt = attempt] EXCEPT !.pc = "check"]),
               UNCHANGED <<auth, gen, attempt, boot, local, push>>
        PROVE  Control' /\ Contents'
    <2> DEFINE check == "check"
               x1 == [flow[f] EXCEPT !.gen = gen]
               x2 == [x1 EXCEPT !.attempt = attempt]
               x3 == [x2 EXCEPT !.pc = check]
               x4 == [x3 EXCEPT !.wait = checkpointed]
    <2>1. /\ flow \in [Flow -> FlowRec] /\ flow[f] \in FlowRec /\ gen \in Nat /\ attempt \in Nat
          /\ check \in Phase /\ checkpointed \in Nat
      BY <1>1, CheckpointParts DEF TypesOK, Phase
    <2>2. flow' = [flow EXCEPT ![f] = x4] /\ storeJobs' = checkpoint /\ check = "check"
      BY <1>4 DEF Checkpoint
    <2> HIDE DEF check
    <2>3. x1 \in FlowRec /\ x1.user = flow[f].user /\ x1.gen = gen
      BY <2>1, SetGen
    <2> HIDE DEF x1
    <2>4. x2 \in FlowRec /\ x2.user = flow[f].user /\ x2.gen = gen /\ x2.attempt = attempt
      BY <2>1, <2>3, SetAttempt
    <2> HIDE DEF x2
    <2>5. x3 \in FlowRec /\ x3.user = flow[f].user /\ x3.gen = gen /\ x3.attempt = attempt
          /\ x3.pc = check
      BY <2>1, <2>4, SetPc
    <2> HIDE DEF x3
    <2>6. x4 \in FlowRec /\ x4.user = flow[f].user /\ x4.gen = gen /\ x4.attempt = attempt
          /\ x4.pc = check /\ x4.wait = checkpointed
      BY <2>1, <2>5, SetWait
    <2> HIDE DEF x4
    <2>7. /\ \A g \in Flow : g # f => flow'[g] = flow[g]
          /\ flow'[f].pc = "check" /\ flow'[f].user = flow[f].user /\ flow'[f].gen = gen
          /\ flow'[f].attempt = attempt /\ flow'[f].wait = checkpointed
      BY <1>1, <2>1, <2>2, <2>6, PutFlow
    <2>8. data.owner = None => Of(flow[f].user) = {}
      <3>1. out.pc = "idle" /\ out.stores = 0 /\ flow[f].user # None
        BY <1>1, <1>4, StartedFlow, AccountsAssumption DEF Control, Entering
      <3>2. data.owner = None => \A i \in Of(flow[f].user) : i <= 0
        BY <1>1, <3>1 DEF Contents, Leaving, Of
      <3>3. \A i \in 1..Len(storeJobs) : ~(i <= 0)
        <4>1. Len(storeJobs) \in Nat
          BY <1>1 DEF TypesOK
        <4>2. QED
          BY <4>1, SMT
      <3>4. QED
        BY <3>2, <3>3 DEF Of
    <2>9. boot.recovered
      BY <1>1, StartedFlow
    <2>10. Control'
      BY <1>1, <1>4, <2>7, ControlGoesOn
    <2>11. Contents'
      BY <1>1, <1>4, <2>2, <2>7, <2>8, <2>9, CheckpointKeeps
    <2>12. QED
      BY <2>10, <2>11
  <1>5. QED
    BY <1>2, <1>3, <1>4 DEF LoginAnswered, Persist

(* The server grows, the copies of the queue stay as they are. *)
LEMMA SameCopies ==
    ASSUME UNCHANGED <<storeJobs, store, served>>
    PROVE  /\ Sent' = Sent /\ \A u : Of(u)' = Of(u)
           /\ \A S, T : Under(S, T)' <=> Under(S, T)
           /\ \A S, u : Holds(S, u)' <=> Holds(S, u)
           /\ \A S, u : Safe(S, u)' <=> Safe(S, u)
  <1>1. Sent' = Sent /\ \A u : Of(u)' = Of(u)
    BY DEF Sent, Of
  <1>2. QED
    BY <1>1 DEF Under, Holds, Safe

(* The start merges what the store has, or was overtaken by a sign-out. *)
LEMMA BootMergeKeeps ==
    ASSUME KeepInv, BootMerge
    PROVE  Control' /\ Contents'
  <1>1. /\ IInv /\ TypesOK /\ Control /\ Contents /\ flow["boot"].pc = "merge" /\ Abandon("boot")
        /\ UNCHANGED <<auth, gen, attempt, out, storeJobs, local, store, served, kept>>
    BY DEF KeepInv, IInv, BootMerge, jobs, disk, ghost
  <1>2. /\ flow'["boot"] = Idle /\ \A g \in Flow : g # "boot" => flow'[g] = flow[g]
        /\ boot'.ready = boot.ready /\ boot'.recovered /\ push' = push
    BY <1>1, AbandonParts, Flows
  <1>3. Idle.pc = "idle"
    BY IdleParts
  <1>4. \A g \in Flow : Changing(g)' => Changing(g) /\ flow'[g] = flow[g]
    BY <1>1, <1>2, <1>3 DEF Changing
  <1>5. CASE flow["boot"].user = auth.user /\ flow["boot"].gen = gen
    <2>1. data' = [data EXCEPT !.queue = data.queue \cup saved(auth.user)] /\ data \in DataRec
      BY <1>1, <1>5 DEF BootMerge, TypesOK
    <2>2. data.owner = auth.user
      BY <1>1, <1>5 DEF IInv, Boots
    <2>3. data'.owner = data.owner /\ data'.queue = data.queue \cup saved(data.owner)
      BY <2>1, <2>2 DEF DataRec
    <2>4. Following'
      BY <1>1, <1>2, <1>3, <2>2, <2>3 DEF Following
    <2>5. Entering'
      BY <1>1, <1>2, <1>4, <2>3, Flows DEF Control, Entering
    <2>6. \/ data.owner = None /\ data'.queue = data.queue
          \/ data.owner # None /\ data'.queue = data.queue \cup store[data.owner]
      BY <2>3 DEF saved
    <2>7. /\ Sent' = Sent /\ \A u : Of(u)' = Of(u)
          /\ \A S, T : Under(S, T)' <=> Under(S, T)
          /\ \A S, u : Holds(S, u)' <=> Holds(S, u)
          /\ \A S, u : Safe(S, u)' <=> Safe(S, u)
      BY <1>1, SameCopies
    <2>8. Waits' /\ Leaving' /\ Chained'
      BY <1>1, <1>4, <2>3, <2>7 DEF Contents, Waits, Leaving, Chained, Under
    <2>9. Held'
      <3> SUFFICES ASSUME data.owner # None
                   PROVE  /\ store[data.owner] \subseteq data'.queue \cup Sent
                          /\ \A i \in Of(data.owner) : storeJobs[i].queue \subseteq data'.queue \cup Sent
                          /\ local.owner = data.owner =>
                                /\ local.queue \subseteq data'.queue \cup Sent
                                /\ data'.queue \subseteq local.queue \cup Sent
        BY <1>1, <2>3, <2>7 DEF Held, Holds, Under
      <3>1. data'.queue = data.queue \cup store[data.owner]
        BY <2>6
      <3>2. /\ Holds(data.queue, data.owner)
            /\ local.owner = data.owner =>
                   Under(local.queue, data.queue) /\ Under(data.queue, local.queue)
        BY <1>1 DEF Contents, Held
      <3>3. local.owner = data.owner => store[data.owner] \subseteq local.queue \cup Sent
        BY <1>1 DEF Contents, Cached, Holds, Under
      <3>4. QED
        BY <3>1, <3>2, <3>3 DEF Holds, Under
    <2>10. Cached'
      BY <1>1, <2>7 DEF Contents, Cached, Holds, Under
    <2>11. Blank' /\ Settled'
      BY <1>1, <1>2, <1>3, <1>4, <2>3, <2>7 DEF Contents, Blank, Settled, Safe
    <2>12. Reads' /\ Reached' /\ KeptSafe'
      BY <1>1, <1>2, <1>4, <2>7 DEF Contents, Reads, Reached, KeptSafe, Under
    <2>13. QED
      BY <2>4, <2>5, <2>8, <2>9, <2>10, <2>11, <2>12 DEF Control, Contents
  <1>6. CASE ~(flow["boot"].user = auth.user /\ flow["boot"].gen = gen)
    <2>1. data' = data
      BY <1>6 DEF BootMerge
    <2>2. data.owner = None /\ auth.user = None
      BY <1>1, <1>6 DEF Control, Following
    <2>3. Calm
      BY <1>1, <1>2, <1>3, <2>1 DEF Calm
    <2>4. Following'
      BY <1>1, <1>2, <1>3, <2>1, <2>2 DEF Following
    <2>5. Entering'
      BY <1>1, <1>2, <1>4, <2>1, Flows DEF Control, Entering
    <2>6. QED
      BY <1>1, <2>3, <2>4, <2>5, CalmStep DEF Control
  <1>7. QED
    BY <1>5, <1>6

(* The data are another account's, as they were read; a device without a     *)
(* cache gives it to that account.                                           *)
LEMMA SelectedKeeps ==
    ASSUME KeepInv, NEW f \in Flow, flow[f].pc = "switch", flow[f].wait = 0, Changing(f),
           data'.owner = flow[f].user, data'.queue = flow[f].read,
           local'.queue = local.queue,
           local'.owner = IF flow[f].user # None /\ local.owner = None
                          THEN flow[f].user ELSE local.owner,
           UNCHANGED <<out, storeJobs, store, served, kept>>,
           push'.reached => push.reached /\ push'.batch = push.batch,
           \A g \in Flow : ~Changing(g)',
           \A g \in Flow : flow'[g].pc = "switch" => flow'[g] = flow[g]
    PROVE  Contents'
  <1> DEFINE u == flow[f].user
  <1>1. IInv /\ TypesOK /\ Contents
    BY DEF KeepInv, IInv
  <1>2. u \in Anyone /\ (u # None => u \in Account)
    BY <1>1 DEF TypesOK, FlowRec, Anyone
  <1>3. /\ Sent' = Sent /\ \A v : Of(v)' = Of(v)
        /\ \A S, T : Under(S, T)' <=> Under(S, T)
        /\ \A S, v : Holds(S, v)' <=> Holds(S, v)
        /\ \A S, v : Safe(S, v)' <=> Safe(S, v)
    BY SameCopies
  <1>4. Waits' /\ Reads'
    BY DEF Waits, Reads
  <1>5. Leaving'
    <2> SUFFICES ASSUME u = None, NEW i \in 1..Len(storeJobs), storeJobs[i].owner # None
                 PROVE  FALSE
      BY DEF Leaving
    <2>1. i <= 0
      BY <1>1 DEF Contents, Waits
    <2>2. Len(storeJobs) \in Nat
      BY <1>1 DEF TypesOK
    <2>3. QED
      BY <2>1, <2>2, SMT
  <1>6. Chained'
    BY <1>1, <1>3 DEF Contents, Chained, Under
  <1>7. u # None => /\ Of(u) = {} /\ Under(store[u], flow[f].read)
                    /\ local.owner = u =>
                          Under(local.queue, flow[f].read) /\ Under(flow[f].read, local.queue)
    BY <1>1 DEF Contents, Reads
  <1>8. local.owner = None => /\ \A v \in Account : store[v] = {}
                              /\ flow[f].read = {} /\ local.queue = {}
    BY <1>1 DEF Contents, Blank, IInv, Queues
  <1>9. Held'
    <2> SUFFICES ASSUME u # None
                 PROVE  /\ Holds(flow[f].read, u)
                        /\ local'.owner = u =>
                              Under(local.queue, flow[f].read) /\ Under(flow[f].read, local.queue)
      BY <1>3 DEF Held, Holds, Under
    <2>1. Holds(flow[f].read, u)
      BY <1>7 DEF Holds
    <2>2. local.owner = None => Under(local.queue, flow[f].read) /\ Under(flow[f].read, local.queue)
      BY <1>8 DEF Under
    <2>3. QED
      BY <1>7, <2>1, <2>2
  <1>10. Cached'
    <2>1. local.owner # None => Holds(local.queue, local.owner)
      BY <1>1 DEF Contents, Cached
    <2>2. local.owner = None /\ u # None => Holds(local.queue, u)
      BY <1>2, <1>7, <1>8 DEF Holds, Under
    <2>3. local'.owner # None => Holds(local.queue, local'.owner)
      BY <2>1, <2>2
    <2>4. QED
      BY <1>3, <2>3 DEF Cached, Holds, Under
  <1>11. Blank'
    BY <1>1 DEF Contents, Blank
  <1>12. Settled'
    <2>1. local.owner # None => Safe(local.queue, local.owner)
      BY <1>1 DEF Contents, Settled
    <2>2. local.owner = None => Safe(local.queue, u)
      BY <1>8 DEF Safe
    <2>3. local'.owner # None => Safe(local.queue, local'.owner)
      BY <2>1, <2>2
    <2>4. QED
      BY <1>3, <2>3 DEF Settled, Safe
  <1>13. Reached' /\ KeptSafe'
    BY <1>1, <1>3 DEF Contents, Reached, KeptSafe
  <1>14. QED
    BY <1>4, <1>5, <1>6, <1>9, <1>10, <1>11, <1>12, <1>13 DEF Contents

(* Localstorage takes the first account that comes. *)
LEMMA AdoptedOwner ==
    ASSUME TypesOK, NEW u \in Anyone
    PROVE  adopted(u, FALSE).owner = IF u # None /\ local.owner = None THEN u ELSE local.owner
  <1>1. local \in LocalRec
    BY DEF TypesOK
  <1>2. [local EXCEPT !.owner = u].owner = u
    BY <1>1 DEF LocalRec
  <1>3. QED
    BY <1>2 DEF adopted

(* A flow changes the data: the start goes on to merge, a sign-in installs   *)
(* its account.                                                              *)
LEMMA SwitchKeeps ==
    ASSUME KeepInv, Sound, NEW f \in Flow, Switch(f)
    PROVE  Control' /\ Contents'
  <1>1. /\ IInv /\ TypesOK /\ Control /\ Contents /\ flow[f].pc = "switch" /\ flow[f].wait = 0
        /\ f # "renew"
    BY DEF KeepInv, IInv, Switch, Control, Entering
  <1>2. CASE Stale(f)
    BY <1>1, <1>2, StaleKeeps
  <1>3. CASE ~Stale(f)
    <2>1. /\ gen = flow[f].gen /\ data' = selected(f)
          /\ UNCHANGED <<out, storeJobs, store, served, kept>>
      BY <1>3 DEF Switch
    <2>2. Changing(f)
      BY <1>1, <2>1 DEF Changing
    <2>3. f \in Login => flow[f].attempt = attempt
      BY <1>1, <2>2 DEF Control, Entering
    <2>4. \/ /\ f = "boot"
             /\ flow' = [flow EXCEPT ![f].pc = "merge", ![f].read = {}]
             /\ local' = adopted(flow[f].user, FALSE)
             /\ UNCHANGED <<auth, gen, attempt, boot, push>>
          \/ f # "boot" /\ Install(f, adopted(flow[f].user, FALSE), FALSE)
      BY <1>1, <1>3, <2>3, Flows, SoundParts DEF Switch
    <2> DEFINE l == adopted(flow[f].user, FALSE)
    <2>5. flow[f] \in FlowRec /\ flow[f].user \in Anyone
      BY <1>1 DEF TypesOK, FlowRec
    <2>6. /\ l \in LocalRec /\ l.queue = local.queue
          /\ l.owner = IF flow[f].user # None /\ local.owner = None
                       THEN flow[f].user ELSE local.owner
      BY <1>1, <2>5, AdoptedParts, AdoptedOwner
    <2> HIDE DEF l
    <2>7. data'.owner = flow[f].user /\ data'.queue = flow[f].read
      BY <2>1 DEF selected
    <2>8. ASSUME f = "boot", flow' = [flow EXCEPT ![f].pc = "merge", ![f].read = {}], local' = l,
                 UNCHANGED <<auth, gen, attempt, boot, push>>
          PROVE  Control' /\ Contents'
      <3> DEFINE merge == "merge"
                 x1 == [flow[f] EXCEPT !.pc = merge]
                 x2 == [x1 EXCEPT !.read = {}]
      <3>1. flow \in [Flow -> FlowRec] /\ merge \in Phase
        BY <1>1 DEF TypesOK, Phase
      <3>2. flow' = [flow EXCEPT ![f] = x2] /\ merge = "merge"
        BY <2>8, <3>1
      <3> HIDE DEF merge
      <3>3. x1 \in FlowRec /\ x1.pc = merge /\ x1.user = flow[f].user /\ x1.gen = flow[f].gen
        BY <2>5, <3>1, SetPc
      <3> HIDE DEF x1
      <3>4. x2 \in FlowRec /\ x2.pc = merge /\ x2.user = flow[f].user /\ x2.gen = flow[f].gen
        BY <3>3, SetRead
      <3> HIDE DEF x2
      <3>5. /\ \A g \in Flow : g # f => flow'[g] = flow[g]
            /\ flow'[f].pc = "merge" /\ flow'[f].user = flow[f].user
            /\ flow'[f].gen = flow[f].gen
        BY <3>1, <3>2, <3>4, PutFlow
      <3>6. ~boot.recovered /\ boot.ready /\ flow[f].user = auth.user
        BY <1>1, <2>1, <2>8 DEF IInv, Boots, Control, Following
      <3>7. \A g \in Flow : flow'[g].pc \notin {"check", "switch"}
        BY <1>1, <2>8, <3>5, <3>6 DEF IInv, Boots
      <3>8. Contents'
        BY <1>1, <2>1, <2>2, <2>6, <2>7, <2>8, <3>7, SelectedKeeps DEF Changing
      <3>9. Following'
        BY <2>1, <2>7, <2>8, <3>5, <3>6 DEF Following
      <3>10. Entering'
        BY <1>1, <2>1, <2>8, <3>5, <3>7, Flows DEF Control, Entering, Changing
      <3>11. QED
        BY <3>8, <3>9, <3>10 DEF Control
    <2>9. ASSUME f # "boot", Install(f, l, FALSE) PROVE Control' /\ Contents'
      <3>1. flow[f].user \in Account
        BY <1>1, <2>9, StartedFlow
      <3>2. /\ auth'.user = flow[f].user /\ gen' = gen + 1
            /\ local'.owner = l.owner /\ local'.queue = l.queue
            /\ boot'.recovered = boot.recovered
            /\ \A g \in Flow : g # f => flow'[g] = flow[g]
            /\ flow'[f].pc = "saving" /\ UNCHANGED <<attempt, push>>
        BY <1>1, <2>6, <2>9, <3>1, InstallParts
      <3>3. Control'
        BY <1>1, <2>1, <2>7, <2>9, <3>2, ControlInstalled
      <3>4. ASSUME NEW g \in Flow PROVE ~Changing(g)'
        <4>1. CASE g = f
          BY <3>2, <4>1 DEF Changing
        <4>2. CASE g # f
          <5>1. flow[g].gen <= gen /\ flow[g].gen \in Nat /\ gen \in Nat
            BY <1>1 DEF IInv, Clocks, Clock, TypesOK, FlowRec
          <5>2. flow[g].gen # gen + 1
            BY <5>1, SMT
          <5>3. QED
            BY <3>2, <4>2, <5>2 DEF Changing
        <4>3. QED
          BY <4>1, <4>2
      <3>5. \A g \in Flow : flow'[g].pc = "switch" => flow'[g] = flow[g]
        BY <3>2
      <3>6. Contents'
        BY <1>1, <2>1, <2>2, <2>6, <2>7, <3>2, <3>4, <3>5, SelectedKeeps
      <3>7. QED
        BY <3>3, <3>6
    <2>10. QED
      BY <2>4, <2>8, <2>9 DEF l
  <1>4. QED
    BY <1>2, <1>3

(* A sign-in is refused. *)
LEMMA LoginRefusedKeeps ==
    ASSUME KeepInv, NEW f \in Login, LoginRefused(f)
    PROVE  Control' /\ Contents'
  BY Flows, EndKeepsAll DEF LoginRefused, jobs, disk, ghost

-------------------------------------------------------------------------------
(* Signing out and renewing.                                                 *)

(* The source is checkpointed, and nobody's data are in memory. *)
LEMMA CheckpointedLeaves ==
    ASSUME KeepInv, storeJobs' = checkpoint, out.stores = 0, out'.stores = checkpointed,
           data'.owner = None, \A f \in Flow : ~Changing(f)',
           \A f \in Flow : flow'[f].pc = "switch" => flow'[f] = flow[f],
           local'.owner = local.owner, local'.queue = local.queue,
           UNCHANGED <<push, store, served, kept>>
    PROVE  Contents'
  <1>1. IInv /\ TypesOK /\ Contents
    BY DEF KeepInv, IInv
  <1>2. Waits' /\ Reads' /\ Held' /\ Sent' = Sent
    BY DEF Waits, Reads, Held, Sent
  <1>3. Reached' /\ KeptSafe'
    BY <1>1, <1>2 DEF Contents, Reached, KeptSafe
  <1>4. ASSUME data.owner = None, storeJobs' = storeJobs, checkpointed = 0
        PROVE  Contents'
    <2>1. /\ Sent' = Sent /\ \A u : Of(u)' = Of(u)
          /\ \A S, T : Under(S, T)' <=> Under(S, T)
          /\ \A S, u : Holds(S, u)' <=> Holds(S, u)
          /\ \A S, u : Safe(S, u)' <=> Safe(S, u)
      BY <1>4, SameCopies
    <2>2. Leaving' /\ Chained' /\ Blank'
      BY <1>1, <1>4, <2>1 DEF Contents, Leaving, Chained, Under, Blank
    <2>3. Cached' /\ Settled'
      BY <1>1, <1>4, <2>1 DEF Contents, Cached, Settled, Holds, Under, Safe
    <2>4. QED
      BY <1>2, <1>3, <2>2, <2>3 DEF Contents
  <1>5. ASSUME NEW job \in Job, data.owner # None, checkpointed = Len(storeJobs) + 1,
               job.owner = data.owner, job.queue = data.queue,
               storeJobs' = Append(storeJobs, job)
        PROVE  Contents'
    <2>1. storeJobs \in Seq(Job) /\ Chained /\ Holds(job.queue, job.owner)
      BY <1>1, <1>5 DEF TypesOK, Contents, Held
    <2>2. /\ Len(storeJobs) \in Nat
          /\ \A i \in 1..Len(storeJobs') : i \in 1..Len(storeJobs) \/ i = Len(storeJobs) + 1
      BY <1>5, <2>1, Appended
    <2>3. \A i \in 1..Len(storeJobs') : i <= checkpointed
      BY <1>5, <2>2, SMT
    <2>4. Chained'
      BY <2>1, <1>5, ChainGrows
    <2>5. Leaving' /\ Blank'
      BY <1>1, <1>5, <2>3 DEF Contents, Leaving, Blank
    <2> DEFINE S == local.queue
               u == local.owner
    <2>6. u # None => /\ Holds(S, u) /\ (u = job.owner => Under(job.queue, S))
                      /\ Safe(S, u) \/ (u = job.owner /\ Under(S, job.queue))
      BY <1>1, <1>5 DEF Contents, Cached, Held, Settled
    <2> HIDE DEF S, u
    <2>7. u # None => /\ store'[u] \subseteq S \cup Sent'
                      /\ \A i \in 1..Len(storeJobs') : storeJobs'[i].owner = u
                             => storeJobs'[i].queue \subseteq S \cup Sent'
      BY <2>1, <2>6, <1>5, ChainGrows
    <2>12. \A T, v : Safe(T, v) \/ (v = job.owner /\ Under(T, job.queue)) =>
                 \A o \in T : \/ o \in store'[v] \cup Sent'
                              \/ \E i \in 1..Len(storeJobs') : storeJobs'[i].owner = v
                                                                 /\ o \in storeJobs'[i].queue
      BY <2>1, <1>5, ChainGrows
    <2>8. u # None => \A o \in S : \/ o \in store'[u] \cup Sent'
                                   \/ \E i \in 1..Len(storeJobs') : storeJobs'[i].owner = u
                                                                      /\ o \in storeJobs'[i].queue
      BY <2>6, <2>12
    <2>9. Cached'
      BY <2>7 DEF Cached, Holds, Under, Of, S, u
    <2>10. Settled'
      BY <2>8 DEF Settled, Safe, Of, S, u
    <2>11. QED
      BY <1>2, <1>3, <2>4, <2>5, <2>9, <2>10 DEF Contents
  <1>6. QED
    BY <1>1, <1>4, <1>5, CheckpointIs

LEMMA SignOutKeeps ==
    ASSUME KeepInv, SignOut
    PROVE  Control' /\ Contents'
  <1> DEFINE r == record(None, None, TRUE)
             l == [local EXCEPT !.record = NoRecord]
             out1 == [NoOut EXCEPT !.gen = gen + 1]
             left == [out1 EXCEPT !.stores = checkpointed]
             records == Len(recordJobs) + 1
  <1>1. /\ IInv /\ TypesOK /\ Boots /\ Clocks /\ Control /\ Contents /\ out.pc = "idle"
        /\ storeJobs' = checkpoint /\ attempt' = attempt + 1 /\ gen' = gen + 1
        /\ auth' = [token |-> None, user |-> None] /\ data' = [owner |-> None, queue |-> {}]
        /\ UNCHANGED <<flow, push, store, served, kept>>
    BY DEF KeepInv, IInv, SignOut
  <1>2. /\ Len(recordJobs) \in Nat /\ gen \in Nat /\ attempt \in Nat
        /\ gen + 1 \in Nat /\ gen + 1 # 0 /\ records \in Nat
    BY <1>1, SMT DEF TypesOK
  <1>3. \/ /\ boot.ready /\ SaveRecord(r)
           /\ \E full \in Full :
                 /\ local' = recorded(l, r, full)
                 /\ out' = [left EXCEPT !.pc = "saving", !.ok = ~full, !.records = records]
        \/ /\ ~boot.ready /\ local' = l
           /\ out' = [left EXCEPT !.pc = "start"]
           /\ UNCHANGED <<boot, recordJobs>>
    BY <1>1 DEF SignOut, NoOut
  <1>4. r \in Session /\ NoRecord \in Session
    BY <1>1, RecordParts DEF Anyone
  <1>5. l \in LocalRec /\ l.owner = local.owner /\ l.queue = local.queue
    BY <1>1, <1>4 DEF TypesOK, LocalRec
  <1>6. left \in OutRec /\ left.stores = checkpointed
    <2>1. NoOut \in OutRec
      BY SMT DEF NoOut, OutRec
    <2>2. out1 \in OutRec
      BY <1>2, <2>1 DEF OutRec
    <2> HIDE DEF out1
    <2>3. QED
      BY <1>1, <2>2, CheckpointParts DEF OutRec
  <1> HIDE DEF r, l, left, records
  <1>7. /\ boot'.ready = boot.ready /\ boot'.recovered = boot.recovered
        /\ local'.owner = local.owner /\ local'.queue = local.queue
        /\ out'.stores = checkpointed /\ out'.pc # "idle"
    <2>1. ASSUME SaveRecord(r), NEW full \in Full, local' = recorded(l, r, full),
                 out' = [left EXCEPT !.pc = "saving", !.ok = ~full, !.records = records]
          PROVE  <1>7!:
      <3> DEFINE yes == ~full
      <3>1. full \in BOOLEAN /\ yes \in BOOLEAN
        BY <2>1 DEF Full
      <3>2. local'.owner = local.owner /\ local'.queue = local.queue
        BY <1>4, <1>5, <2>1, <3>1, RecordedParts
      <3>3. out'.stores = checkpointed /\ out'.pc = "saving"
        <4> DEFINE next == out'
        <4>1. next = [left EXCEPT !.pc = "saving", !.ok = yes, !.records = records]
          BY <2>1
        <4>2. yes \in BOOLEAN /\ left \in OutRec /\ records \in Nat
          BY <1>2, <1>6, <3>1
        <4> HIDE DEF yes, next
        <4>3. next.stores = left.stores /\ next.pc = "saving"
          BY <4>1, <4>2 DEF OutRec
        <4>4. QED
          BY <1>6, <4>3 DEF next
      <3>4. boot'.ready = boot.ready /\ boot'.recovered = boot.recovered
        BY <1>1, <1>4, <2>1, SaveParts
      <3>5. QED
        BY <3>2, <3>3, <3>4
    <2>2. ASSUME local' = l, out' = [left EXCEPT !.pc = "start"], UNCHANGED boot
          PROVE  <1>7!:
      BY <1>5, <1>6, <2>2 DEF OutRec
    <2>3. QED
      BY <1>3, <2>1, <2>2
  <1>8. auth'.user = None /\ data'.owner = None
    BY <1>1
  <1>9. \A f \in Flow : flow[f].gen # gen + 1 /\ flow[f].attempt # attempt + 1
    <2> SUFFICES ASSUME NEW f \in Flow
                 PROVE  flow[f].gen # gen + 1 /\ flow[f].attempt # attempt + 1
      OBVIOUS
    <2>1. /\ flow[f].gen \in Nat /\ flow[f].attempt \in Nat
          /\ flow[f].gen <= gen /\ flow[f].attempt <= attempt
      BY <1>1 DEF Clocks, Clock, TypesOK, FlowRec
    <2>2. QED
      BY <1>2, <2>1, SMT
  <1>10. \A f \in Flow : ~Changing(f)'
    BY <1>1, <1>9 DEF Changing
  <1>11. Following'
    BY <1>1, <1>2, <1>7, <1>8, <1>9, Flows DEF Control, Following
  <1>12. Entering'
    BY <1>1, <1>7, <1>9, <1>10, Flows DEF Control, Entering
  <1>13. out.stores = 0
    BY <1>1 DEF Control, Entering
  <1>14. Contents'
    BY <1>1, <1>7, <1>8, <1>10, <1>13, CheckpointedLeaves
  <1>15. QED
    BY <1>11, <1>12, <1>14 DEF Control

LEMMA SignOutRecordKeeps ==
    ASSUME KeepInv, SignOutRecord
    PROVE  Control' /\ Contents'
  <1> DEFINE r == record(None, None, TRUE)
             records == Len(recordJobs) + 1
  <1>1. /\ IInv /\ TypesOK /\ Control /\ Contents /\ out.pc = "start" /\ SaveRecord(r)
        /\ UNCHANGED <<auth, data, gen, attempt, flow, push, storeJobs, store, served, kept>>
    BY DEF KeepInv, IInv, SignOutRecord, ghost
  <1>2. PICK full \in Full :
            /\ local' = recorded(local, r, full)
            /\ out' = [out EXCEPT !.pc = "saving", !.ok = ~full, !.records = records]
    BY DEF SignOutRecord
  <1>3. full \in BOOLEAN /\ (~full) \in BOOLEAN
    BY <1>2 DEF Full
  <1>4. r \in Session /\ local \in LocalRec /\ out \in OutRec
    BY <1>1, RecordParts DEF TypesOK, Anyone
  <1>13. records \in Nat
    BY <1>1, SMT DEF TypesOK
  <1> HIDE DEF r, records
  <1>5. boot'.ready = boot.ready /\ boot'.recovered = boot.recovered
    BY <1>1, <1>4, SaveParts
  <1>6. local'.owner = local.owner /\ local'.queue = local.queue
    BY <1>2, <1>3, <1>4, RecordedParts
  <1>7. out'.stores = out.stores /\ out'.pc = "saving"
    <2> DEFINE yes == ~full
               next == out'
    <2>1. /\ next = [out EXCEPT !.pc = "saving", !.ok = yes, !.records = records]
          /\ yes \in BOOLEAN /\ out \in OutRec /\ records \in Nat
      BY <1>2, <1>3, <1>4, <1>13
    <2> HIDE DEF yes, next
    <2>2. next.stores = out.stores /\ next.pc = "saving"
      BY <2>1 DEF OutRec
    <2>3. QED
      BY <2>2 DEF next
  <1>8. Calm
    BY <1>1, <1>6, <1>7 DEF Calm
  <1>9. \A f : Changing(f)' <=> Changing(f)
    BY <1>1 DEF Changing
  <1>10. Following'
    BY <1>1, <1>5, <1>6 DEF Control, Following
  <1>11. Entering'
    BY <1>1, <1>7, <1>9 DEF Control, Entering
  <1>12. QED
    BY <1>1, <1>8, <1>10, <1>11, CalmStep DEF Control

LEMMA SignOutDoneKeeps ==
    ASSUME KeepInv, SignOutDone
    PROVE  Control' /\ Contents'
  <1>1. /\ IInv /\ Control /\ Contents /\ out.stores = 0 /\ out' = NoOut
        /\ UNCHANGED <<auth, data, gen, attempt, boot, flow, push, storeJobs, local, store, served, kept>>
    BY DEF KeepInv, SignOutDone, memory, jobs, disk
  <1>2. NoOut.pc = "idle" /\ NoOut.stores = 0
    BY DEF NoOut
  <1>3. Calm
    BY <1>1, <1>2 DEF Calm
  <1>4. \A f : Changing(f)' <=> Changing(f)
    BY <1>1 DEF Changing
  <1>5. Following'
    BY <1>1 DEF Control, Following
  <1>6. Entering'
    BY <1>1, <1>2, <1>4 DEF Control, Entering
  <1>7. QED
    BY <1>1, <1>3, <1>5, <1>6, CalmStep DEF Control

(* A renewal begins for the request that was rejected or for another. *)
LEMMA RenewingKeeps ==
    ASSUME KeepInv, flow' = [flow EXCEPT !["renew"] = renewing],
           push'.reached => push.reached /\ push'.batch = push.batch,
           UNCHANGED <<auth, data, gen, attempt, boot, out, storeJobs, local, store, served, kept>>
    PROVE  Control' /\ Contents'
  <1>1. IInv /\ TypesOK /\ Control /\ Contents /\ flow \in [Flow -> FlowRec]
    BY DEF KeepInv, IInv, TypesOK
  <1>2. flow'["renew"].pc = "asked" /\ \A g \in Flow : g # "renew" => flow'[g] = flow[g]
    BY <1>1, RenewingParts, PutFlow, Flows
  <1>3. Calm
    BY <1>2 DEF Calm
  <1>4. Control'
    BY <1>1, <1>2, Flows, ControlKept
  <1>5. QED
    BY <1>1, <1>3, <1>4, CalmStep

LEMMA RenewStartKeeps ==
    ASSUME KeepInv, RenewStart
    PROVE  Control' /\ Contents'
  BY RenewingKeeps DEF RenewStart, memory, jobs, disk, ghost

(* Whose session is renewed has the data. *)
LEMMA RenewAnsweredKeeps ==
    ASSUME KeepInv, RenewAnswered
    PROVE  Control' /\ Contents'
  <1>1. /\ IInv /\ Control /\ "renew" \in Flow \ {"boot"} /\ flow["renew"].pc = "asked"
        /\ UNCHANGED <<data, out, store, served, kept>>
    BY Flows DEF KeepInv, RenewAnswered
  <1>2. ASSUME Abandon("renew"), UNCHANGED <<auth, data, gen, attempt, local, jobs>>
        PROVE  Control' /\ Contents'
    BY <1>1, <1>2, EndKeepsAll DEF jobs
  <1>3. ASSUME ~outdated, Persist("renew") PROVE Control' /\ Contents'
    <2>1. data.owner = flow["renew"].user
      BY <1>1, <1>3, StartedFlow DEF Control, Following, outdated
    <2>2. [flow["renew"] EXCEPT !.gen = gen, !.attempt = attempt].user = flow["renew"].user
      BY <1>1 DEF IInv, TypesOK, FlowRec
    <2>3. PICK full \in Full : Install("renew", local, full) /\ UNCHANGED storeJobs
      BY <1>3, <2>1, <2>2 DEF Persist
    <2>4. full \in BOOLEAN
      BY <2>3 DEF Full
    <2>5. QED
      BY <1>1, <2>1, <2>3, <2>4, InstallKeeps
  <1>4. QED
    BY <1>2, <1>3 DEF RenewAnswered

LEMMA RenewRefusedKeeps ==
    ASSUME KeepInv, RenewRefused
    PROVE  Control' /\ Contents'
  <1>1. /\ IInv /\ TypesOK /\ Control /\ Contents /\ GiveUp
        /\ flow' = [flow EXCEPT !["renew"] = Idle]
        /\ push' = IF push.pc = "renewing" THEN NoPush ELSE push
        /\ UNCHANGED <<data, gen, attempt, out, storeJobs, store, served, kept>>
    BY DEF KeepInv, IInv, RenewRefused, unanswered, ghost
  <1>2. /\ auth'.user = auth.user
        /\ local'.owner = local.owner /\ local'.queue = local.queue
        /\ boot'.ready = boot.ready /\ boot'.recovered = boot.recovered
    BY <1>1, GiveUpParts
  <1>3. flow'["renew"].pc = "idle" /\ \A g \in Flow : g # "renew" => flow'[g] = flow[g]
    BY <1>1, IdleParts, PutFlow, Flows DEF TypesOK
  <1>4. ~NoPush.reached
    BY DEF NoPush
  <1>5. Calm
    BY <1>1, <1>2, <1>3, <1>4 DEF Calm
  <1>6. Control'
    BY <1>1, <1>2, <1>3, Flows, ControlKept
  <1>7. QED
    BY <1>1, <1>5, <1>6, CalmStep

LEMMA RenewFailedKeeps ==
    ASSUME KeepInv, RenewFailed
    PROVE  Control' /\ Contents'
  BY Flows, EndKeepsAll DEF RenewFailed, jobs, disk, ghost

-------------------------------------------------------------------------------
(* Writing and sending.                                                      *)

(* The queue in memory changes and is saved: it keeps what the server has    *)
(* not applied.                                                              *)
LEMMA PersistKeeps ==
    ASSUME KeepInv, Sound, NEW queue \in SUBSET Op, PersistQueue(queue),
           UNCHANGED <<gen, flow, out, store, served>>,
           push'.reached => push.reached /\ push'.batch = push.batch,
           Under(data.queue, queue), \A f \in Flow : Changing(f) => flow[f].user # None
    PROVE  Contents'
  <1> DEFINE job == [kind |-> "put", owner |-> data.owner, queue |-> queue]
             u == data.owner
  <1>1. IInv /\ TypesOK /\ Control /\ Contents /\ data \in DataRec /\ local \in LocalRec
    BY DEF KeepInv, IInv, TypesOK
  <1>2. /\ data' = [data EXCEPT !.queue = queue]
        /\ local' = IF ownsCache THEN [local EXCEPT !.queue = queue] ELSE local
        /\ storeJobs' = Append(storeJobs, job)
        /\ kept' = IF ownsCache THEN kept \cup queue ELSE kept
    BY SoundParts DEF PersistQueue
  <1>3. job \in Job /\ job.owner = u /\ job.queue = queue
    BY <1>1 DEF Job, DataRec
  <1> HIDE DEF job
  <1>4. data'.owner = u /\ data'.queue = queue
    BY <1>1, <1>2 DEF DataRec
  <1>5. /\ local'.owner = local.owner
        /\ u # None /\ local.owner = u => local'.queue = queue
        /\ u = None \/ local.owner # u => local'.queue = local.queue
    BY <1>1, <1>2 DEF LocalRec, ownsCache
  <1>6. u # None => /\ Holds(data.queue, u)
                    /\ local.owner = u => Under(local.queue, data.queue)
    BY <1>1 DEF Contents, Held
  <1>7. storeJobs \in Seq(Job) /\ Chained /\ (u # None => Holds(queue, u))
    BY <1>1, <1>6 DEF TypesOK, Contents, Holds, Under
  <1>8. /\ Len(storeJobs) \in Nat
        /\ \A i \in 1..Len(storeJobs') : i \in 1..Len(storeJobs) \/ i = Len(storeJobs) + 1
        /\ storeJobs'[Len(storeJobs) + 1] = job
        /\ \A i \in 1..Len(storeJobs) : storeJobs'[i] = storeJobs[i]
    BY <1>2, <1>3, <1>7, Appended
  <1>9. /\ Chained' /\ Sent' = Sent
        /\ \A v : v # u => Of(v)' = Of(v)
        /\ \A v : \A i \in Of(v) : storeJobs'[i] = storeJobs[i]
    BY <1>2, <1>3, <1>7, ChainGrows
  <1>10. \A S, v : Holds(S, v) /\ (v = u => Under(queue, S)) =>
             /\ store'[v] \subseteq S \cup Sent'
             /\ \A i \in 1..Len(storeJobs') : storeJobs'[i].owner = v
                                                => storeJobs'[i].queue \subseteq S \cup Sent'
    BY <1>2, <1>3, <1>7, ChainGrows
  <1>25. job.owner # None => Holds(job.queue, job.owner)
    BY <1>3, <1>7
  <1>26. \A S, v : Safe(S, v) \/ (v = job.owner /\ Under(S, job.queue)) =>
             \A o \in S : \/ o \in store'[v] \cup Sent'
                          \/ \E i \in 1..Len(storeJobs') : storeJobs'[i].owner = v
                                                             /\ o \in storeJobs'[i].queue
    BY <1>2, <1>3, <1>7, <1>25, ChainGrows
  <1>11. \A S, v : Safe(S, v) \/ (v = u /\ Under(S, queue)) =>
             \A o \in S : \/ o \in store'[v] \cup Sent'
                          \/ \E i \in 1..Len(storeJobs') : storeJobs'[i].owner = v
                                                             /\ o \in storeJobs'[i].queue
    BY <1>3, <1>26
  <1>12. \A f \in Flow : Changing(f)' <=> Changing(f)
    BY DEF Changing
  <1>13. \A f \in Flow : Changing(f) => flow[f].user # u /\ flow[f].user # None
    BY <1>1 DEF Control, Entering
  <1> HIDE DEF u
  <1>14. Waits'
    <2> SUFFICES ASSUME NEW f \in Flow, Changing(f), flow[f].pc = "check"
                 PROVE  \A i \in Of(flow[f].user)' : i <= flow[f].wait
      BY <1>12, <1>13 DEF Waits, Of
    <2>1. Of(flow[f].user)' = Of(flow[f].user)
      BY <1>9, <1>13 DEF Of
    <2>2. QED
      BY <1>1, <1>13, <2>1 DEF Contents, Waits
  <1>15. Leaving'
    BY <1>1, <1>3, <1>4, <1>8 DEF Contents, Leaving, u
  <1>16. Under(queue, queue)
    BY DEF Under
  <1>17. Held'
    <2>1. u # None => /\ store'[u] \subseteq queue \cup Sent'
                      /\ \A i \in 1..Len(storeJobs') : storeJobs'[i].owner = u
                                                => storeJobs'[i].queue \subseteq queue \cup Sent'
      BY <1>7, <1>10, <1>16
    <2>2. QED
      BY <1>4, <1>5, <2>1 DEF Held, Holds, Under, Of
  <1>18. Cached'
    <2> DEFINE v == local.owner
               S == local'.queue
    <2>1. v # None => Holds(S, v) /\ (v = u => Under(queue, S))
      BY <1>1, <1>5, <1>7, <1>16 DEF Contents, Cached
    <2> HIDE DEF v, S
    <2>2. v # None => /\ store'[v] \subseteq S \cup Sent'
                      /\ \A i \in 1..Len(storeJobs') : storeJobs'[i].owner = v
                                                => storeJobs'[i].queue \subseteq S \cup Sent'
      BY <1>10, <2>1
    <2>3. QED
      BY <1>5, <2>2 DEF Cached, Holds, Under, Of, v, S
  <1>19. Blank'
    BY <1>1, <1>3, <1>4, <1>5, <1>8 DEF Contents, Blank, u
  <1>20. Settled'
    <2> DEFINE v == local.owner
               S == local'.queue
    <2>1. ASSUME v # None, u # v \/ \E f \in Flow : Changing(f)
          PROVE  Safe(S, v) \/ (v = u /\ Under(S, queue))
      <3>1. CASE v = u
        BY <1>5, <1>16, <2>1, <3>1
      <3>2. CASE v # u
        BY <1>1, <1>5, <2>1, <3>2 DEF Contents, Settled, u
      <3>3. QED
        BY <3>1, <3>2
    <2> HIDE DEF v, S
    <2>2. ASSUME v # None, u # v \/ \E f \in Flow : Changing(f)
          PROVE  \A o \in S : \/ o \in store'[v] \cup Sent'
                              \/ \E i \in 1..Len(storeJobs') : storeJobs'[i].owner = v
                                                                 /\ o \in storeJobs'[i].queue
      BY <1>11, <2>1, <2>2
    <2>3. QED
      BY <1>4, <1>5, <1>12, <2>2 DEF Settled, Safe, Of, v, S
  <1>21. Reads'
    <2> SUFFICES ASSUME NEW f \in Flow, Changing(f), flow[f].pc = "switch"
                 PROVE  /\ Of(flow[f].user)' = {}
                        /\ store[flow[f].user] \subseteq flow[f].read \cup Sent
                        /\ local.owner = flow[f].user =>
                              /\ local'.queue \subseteq flow[f].read \cup Sent
                              /\ flow[f].read \subseteq local'.queue \cup Sent
      BY <1>5, <1>9, <1>12, <1>13 DEF Reads, Under, Of
    <2>1. Of(flow[f].user)' = Of(flow[f].user)
      BY <1>9, <1>13 DEF Of
    <2>2. local.owner = flow[f].user => local'.queue = local.queue
      BY <1>5, <1>13
    <2>3. QED
      BY <1>1, <1>13, <2>1, <2>2 DEF Contents, Reads, Under
  <1>22. Reached'
    BY <1>1, <1>9 DEF Contents, Reached
  <1>23. KeptSafe'
    <2> SUFFICES ASSUME NEW o \in kept'
                 PROVE  \/ o \in Sent
                        \/ \E v \in Account : o \in store[v]
                        \/ local.owner # None /\ o \in local'.queue
      BY <1>5, <1>9 DEF KeptSafe
    <2>1. CASE o \in kept
      <3>1. \/ o \in Sent
            \/ \E v \in Account : o \in store[v]
            \/ local.owner # None /\ o \in local.queue
        BY <1>1, <2>1 DEF Contents, KeptSafe
      <3>2. local.owner = u /\ u # None => local.queue \subseteq queue \cup Sent
        BY <1>6 DEF Under
      <3>3. QED
        BY <1>5, <3>1, <3>2
    <2>2. CASE o \notin kept
      BY <1>2, <1>5, <2>2 DEF ownsCache, u
    <2>3. QED
      BY <2>1, <2>2
  <1>24. QED
    BY <1>9, <1>14, <1>15, <1>17, <1>18, <1>19, <1>20, <1>21, <1>22, <1>23 DEF Contents

(* Nobody is about to leave everything once the app has started. *)
LEMMA ChangingNames ==
    ASSUME KeepInv, boot.recovered \/ data.owner = auth.user, NEW f \in Flow, Changing(f)
    PROVE  flow[f].user # None
  <1>1. IInv /\ Control
    BY DEF KeepInv
  <1>2. CASE f = "boot"
    BY <1>1, <1>2 DEF IInv, Boots, Control, Following, Entering, Changing
  <1>3. CASE f # "boot"
    BY <1>1, <1>3, StartedFlow, AccountsAssumption DEF Changing
  <1>4. QED
    BY <1>2, <1>3

LEMMA EnqueueKeeps ==
    ASSUME KeepInv, Sound, ~Unattended, Enqueue
    PROVE  Control' /\ Contents'
  <1> DEFINE op == Len(wrote) + 1
             queue == data.queue \cup {op}
  <1>1. /\ IInv /\ TypesOK /\ Control /\ data.owner = auth.user /\ op \in Op /\ PersistQueue(queue)
        /\ UNCHANGED <<auth, gen, attempt, boot, flow, out, push, store, served>>
    BY DEF KeepInv, IInv, Enqueue
  <1> HIDE DEF op
  <1>2. queue \in SUBSET Op /\ Under(data.queue, queue)
    BY <1>1 DEF TypesOK, DataRec, Under
  <1>3. \A f \in Flow : Changing(f) => flow[f].user # None
    BY <1>1, ChangingNames
  <1> HIDE DEF queue
  <1>4. Contents'
    BY <1>1, <1>2, <1>3, PersistKeeps
  <1>5. data'.owner = data.owner /\ local'.owner = local.owner
    BY <1>1, <1>2, PersistParts
  <1>6. Control'
    BY <1>1, <1>5, ControlSame
  <1>7. QED
    BY <1>4, <1>6

LEMMA PushStartKeeps ==
    ASSUME KeepInv, PushStart
    PROVE  Control' /\ Contents'
  <1> DEFINE as == auth.token
             owner == auth.user
             batch == data.queue
  <1>1. /\ IInv /\ TypesOK /\ Control /\ Contents
        /\ push' = [NoPush EXCEPT !.pc = "sent", !.as = as, !.owner = owner,
                              !.gen = gen, !.attempt = attempt, !.batch = batch]
        /\ UNCHANGED <<auth, data, gen, attempt, boot, flow, out, storeJobs, local, store, served, kept>>
    BY DEF KeepInv, IInv, PushStart, memory, jobs, disk, ghost
  <1> HIDE DEF as, owner, batch
  <1>2. ~push'.reached
    BY <1>1 DEF NoPush
  <1>3. Calm
    BY <1>1, <1>2 DEF Calm
  <1>4. QED
    BY <1>1, <1>3, CalmStep, ControlSame

(* What the server has applied is safe. *)
LEMMA PushServeKeeps ==
    ASSUME KeepInv, PushServe
    PROVE  Control' /\ Contents'
  <1>1. /\ IInv /\ TypesOK /\ Control /\ Contents /\ push.as # None
        /\ push' = [push EXCEPT !.reached = TRUE]
        /\ served' = served \cup (push.batch \X {push.as})
        /\ UNCHANGED <<auth, data, gen, attempt, boot, flow, out, storeJobs, local, store, kept>>
    BY DEF KeepInv, IInv, PushServe, memory, jobs, disk
  <1>2. push \in PushRec /\ push.batch \subseteq Op /\ push.as \in Account
    BY <1>1 DEF TypesOK, PushRec, Anyone
  <1>3. push'.batch = push.batch
    BY <1>1, <1>2 DEF PushRec
  <1>4. Sent \subseteq Sent'
    BY <1>1 DEF Sent
  <1>5. push.batch \subseteq Sent'
    <2> SUFFICES ASSUME NEW o \in push.batch PROVE o \in Sent'
      OBVIOUS
    <2>1. <<o, push.as>> \in served' /\ o \in Op
      BY <1>1, <1>2
    <2>2. QED
      BY <1>2, <2>1 DEF Sent
  <1>6. /\ \A u : Of(u)' = Of(u)
        /\ \A f \in Flow : Changing(f)' <=> Changing(f)
    BY <1>1 DEF Of, Changing
  <1>7. Reached'
    BY <1>3, <1>5 DEF Reached
  <1>8. Waits' /\ Leaving' /\ Blank'
    BY <1>1, <1>6 DEF Contents, Waits, Leaving, Blank
  <1>9. Chained' /\ Held' /\ Cached'
    BY <1>1, <1>4, <1>6 DEF Contents, Chained, Held, Cached, Holds, Under
  <1>10. Settled'
    BY <1>1, <1>4, <1>6 DEF Contents, Settled, Safe
  <1>11. Reads'
    BY <1>1, <1>4, <1>6 DEF Contents, Reads, Under
  <1>12. KeptSafe'
    BY <1>1, <1>4 DEF Contents, KeptSafe
  <1>13. Control'
    BY <1>1, ControlSame
  <1>14. QED
    BY <1>7, <1>8, <1>9, <1>10, <1>11, <1>12, <1>13 DEF Contents

(* What was applied leaves the queue it came from. *)
LEMMA PushAnsweredKeeps ==
    ASSUME KeepInv, Sound, PushAnswered
    PROVE  Control' /\ Contents'
  <1>1. /\ IInv /\ TypesOK /\ Control /\ Contents /\ push.pc = "sent" /\ push.reached
        /\ push' = NoPush
        /\ UNCHANGED <<auth, gen, attempt, boot, flow, out, store, served>>
    BY DEF KeepInv, IInv, PushAnswered
  <1>2. ~NoPush.reached
    BY DEF NoPush
  <1>3. CASE ownsQueue
    <2> DEFINE queue == data.queue \ push.batch
    <2>1. PersistQueue(queue) /\ queue \in SUBSET Op
      BY <1>1, <1>3 DEF PushAnswered, TypesOK, DataRec
    <2>2. push.batch \subseteq Sent
      BY <1>1 DEF Contents, Reached
    <2>3. Under(data.queue, queue)
      BY <2>2 DEF Under
    <2>4. boot.recovered
      BY <1>1 DEF IInv, Pushes
    <2>5. \A f \in Flow : Changing(f) => flow[f].user # None
      BY <2>4, ChangingNames
    <2> HIDE DEF queue
    <2>6. Contents'
      BY <1>1, <1>2, <2>1, <2>3, <2>5, PersistKeeps
    <2>7. data'.owner = data.owner /\ local'.owner = local.owner
      BY <1>1, <2>1, PersistParts
    <2>8. Control'
      BY <1>1, <2>7, ControlSame
    <2>9. QED
      BY <2>6, <2>8
  <1>4. CASE ~ownsQueue
    <2>1. UNCHANGED <<data, local, storeJobs, kept>>
      BY <1>4 DEF PushAnswered
    <2>2. Calm
      BY <1>1, <1>2, <2>1 DEF Calm
    <2>3. QED
      BY <1>1, <2>1, <2>2, CalmStep, ControlSame
  <1>5. QED
    BY <1>3, <1>4

LEMMA PushFailedKeeps ==
    ASSUME KeepInv, PushFailed
    PROVE  Control' /\ Contents'
  <1>1. /\ IInv /\ Control /\ Contents /\ push' = NoPush
        /\ UNCHANGED <<auth, data, gen, attempt, boot, flow, out, storeJobs, local, store, served, kept>>
    BY DEF KeepInv, PushFailed, memory, jobs, disk, ghost
  <1>2. ~NoPush.reached
    BY DEF NoPush
  <1>3. Calm
    BY <1>1, <1>2 DEF Calm
  <1>4. QED
    BY <1>1, <1>3, CalmStep, ControlSame

LEMMA PushRejectedKeeps ==
    ASSUME KeepInv, PushRejected
    PROVE  Control' /\ Contents'
  <1>1. /\ IInv /\ TypesOK /\ Control /\ Contents
        /\ UNCHANGED <<data, gen, attempt, out, storeJobs, store, served, kept>>
    BY DEF KeepInv, IInv, PushRejected, ghost
  <1>2. ~NoPush.reached
    BY DEF NoPush
  <1>3. ASSUME push' = NoPush, UNCHANGED <<auth, boot, flow, local>>
        PROVE  Control' /\ Contents'
    <2>1. Calm
      BY <1>1, <1>2, <1>3 DEF Calm
    <2>2. QED
      BY <1>1, <1>3, <2>1, CalmStep, ControlSame
  <1>4. ASSUME push' = [push EXCEPT !.pc = "renewing"], flow' = [flow EXCEPT !["renew"] = renewing],
               UNCHANGED <<auth, boot, local>>
        PROVE  Control' /\ Contents'
    <2>1. push'.reached = push.reached /\ push'.batch = push.batch
      BY <1>1, <1>4 DEF TypesOK, PushRec
    <2>2. QED
      BY <1>1, <1>4, <2>1, RenewingKeeps
  <1>5. ASSUME push' = NoPush, GiveUp, UNCHANGED flow
        PROVE  Control' /\ Contents'
    <2>1. /\ auth'.user = auth.user
          /\ local'.owner = local.owner /\ local'.queue = local.queue
          /\ boot'.ready = boot.ready /\ boot'.recovered = boot.recovered
      BY <1>1, <1>5, GiveUpParts
    <2>2. Calm
      BY <1>1, <1>2, <1>5, <2>1 DEF Calm
    <2>3. QED
      BY <1>1, <1>5, <2>1, <2>2, CalmStep, ControlSame
  <1>6. QED
    BY <1>3, <1>4, <1>5 DEF PushRejected

-------------------------------------------------------------------------------
(* The disk, and the end of the app.                                         *)

(* A write reaches the store: its account's record holds what the write has  *)
(* and loses nothing, and the rest of the chain moves up.                    *)
LEMMA Written ==
    ASSUME KeepInv, Sound, StoreWrite
    PROVE  LET job == Head(storeJobs)
               n == Len(storeJobs)
           IN  /\ 1 \in 1..n /\ job = storeJobs[1] /\ n \in Nat
               /\ \A i \in 1..Len(storeJobs') : /\ i \in Nat /\ i + 1 \in 1..n
                                                /\ storeJobs'[i] = storeJobs[i + 1]
               /\ \A i \in 1..n : i # 1 => i - 1 \in 1..Len(storeJobs') /\ storeJobs'[i - 1] = storeJobs[i]
               /\ job.owner = None => store' = store /\ kept' = kept
               /\ \A u \in Account : u # job.owner => store'[u] = store[u]
               /\ job.owner # None =>
                     /\ job.owner \in Account /\ kept' = kept \cup job.queue
                     /\ job.queue \subseteq store'[job.owner]
                     /\ store'[job.owner] \subseteq job.queue \cup Sent
                     /\ store[job.owner] \subseteq store'[job.owner] \cup Sent
  <1> DEFINE job == Head(storeJobs)
             n == Len(storeJobs)
             new == IF job.kind = "merge" THEN store[job.owner] \cup job.queue ELSE job.queue
  <1>1. /\ TypesOK /\ Chained /\ storeJobs # <<>> /\ storeJobs' = Tail(storeJobs)
        /\ store' = IF job.owner = None THEN store ELSE [store EXCEPT ![job.owner] = new]
        /\ kept' = IF job.owner = None THEN kept ELSE kept \cup job.queue
    BY SoundParts DEF KeepInv, IInv, Contents, StoreWrite
  <1>2. storeJobs \in Seq(Job) /\ store \in [Account -> SUBSET Op]
    BY <1>1 DEF TypesOK
  <1>3. job \in Job /\ 1 \in 1..n /\ job = storeJobs[1] /\ n \in Nat
    BY <1>1, <1>2, SMT
  <1>4. \A i \in 1..Len(storeJobs') : /\ i \in Nat /\ i + 1 \in 1..n
                                      /\ storeJobs'[i] = storeJobs[i + 1]
    BY <1>1, <1>2, SMT
  <1>5. \A i \in 1..n : i # 1 => i - 1 \in 1..Len(storeJobs') /\ storeJobs'[i - 1] = storeJobs[i]
    BY <1>1, <1>2, SMT
  <1>6. job.owner # None => /\ job.owner \in Account /\ Under(store[job.owner], job.queue)
                            /\ store[job.owner] \subseteq Op /\ job.queue \subseteq Op
    BY <1>1, <1>2, <1>3 DEF Chained, Job, Anyone
  <1> HIDE DEF job, n
  <1>7. job.owner # None => store' = [store EXCEPT ![job.owner] = new]
    BY <1>1
  <1>8. job.owner # None => /\ job.queue \subseteq new /\ new \subseteq job.queue \cup Sent
                            /\ store[job.owner] \subseteq new \cup Sent
    BY <1>6 DEF Under
  <1> HIDE DEF new
  <1>9. job.owner # None => store'[job.owner] = new /\ \A u \in Account : u # job.owner => store'[u] = store[u]
    BY <1>2, <1>6, <1>7
  <1>10. \A u \in Account : u # job.owner => store'[u] = store[u]
    BY <1>1, <1>9
  <1>11. QED
    BY <1>1, <1>3, <1>4, <1>5, <1>6, <1>8, <1>9, <1>10 DEF job, n

LEMMA StoreWriteKeeps ==
    ASSUME KeepInv, Sound, StoreWrite
    PROVE  Control' /\ Contents'
  <1> DEFINE job == Head(storeJobs)
             n == Len(storeJobs)
             m == Len(storeJobs')
  <1>1. /\ IInv /\ TypesOK /\ Control /\ Contents
        /\ flow' = [f \in Flow |-> IF flow[f].pc \in {"check", "switch"}
                                   THEN [flow[f] EXCEPT !.wait = sooner(flow[f].wait)] ELSE flow[f]]
        /\ out' = [out EXCEPT !.stores = sooner(out.stores)]
        /\ UNCHANGED <<auth, data, gen, attempt, boot, push, local, served>>
    BY DEF KeepInv, IInv, StoreWrite, memory
  <1>2. /\ 1 \in 1..n /\ job = storeJobs[1] /\ n \in Nat
        /\ \A i \in 1..m : i \in Nat /\ i + 1 \in 1..n /\ storeJobs'[i] = storeJobs[i + 1]
        /\ \A i \in 1..n : i # 1 => i - 1 \in 1..m /\ storeJobs'[i - 1] = storeJobs[i]
        /\ job.owner = None => store' = store /\ kept' = kept
        /\ \A u \in Account : u # job.owner => store'[u] = store[u]
        /\ job.owner # None =>
              /\ job.owner \in Account /\ kept' = kept \cup job.queue
              /\ job.queue \subseteq store'[job.owner]
              /\ store'[job.owner] \subseteq job.queue \cup Sent
              /\ store[job.owner] \subseteq store'[job.owner] \cup Sent
    BY Written
  <1> HIDE DEF job, n, m
  <1>3. \A f \in Flow :
           /\ flow'[f].pc = flow[f].pc /\ flow'[f].user = flow[f].user
           /\ flow'[f].gen = flow[f].gen /\ flow'[f].attempt = flow[f].attempt
           /\ flow'[f].read = flow[f].read /\ flow[f].wait \in Nat
           /\ flow[f].pc \in {"check", "switch"} => flow'[f].wait = sooner(flow[f].wait)
    <2> SUFFICES ASSUME NEW f \in Flow
                 PROVE  /\ flow'[f].pc = flow[f].pc /\ flow'[f].user = flow[f].user
                        /\ flow'[f].gen = flow[f].gen /\ flow'[f].attempt = flow[f].attempt
                        /\ flow'[f].read = flow[f].read /\ flow[f].wait \in Nat
                        /\ flow[f].pc \in {"check", "switch"} => flow'[f].wait = sooner(flow[f].wait)
      OBVIOUS
    <2> DEFINE x1 == [flow[f] EXCEPT !.wait = sooner(flow[f].wait)]
    <2>1. flow[f] \in FlowRec /\ flow[f].wait \in Nat /\ sooner(flow[f].wait) \in Nat
      BY <1>1, SoonerParts DEF TypesOK, FlowRec
    <2>2. flow'[f] = IF flow[f].pc \in {"check", "switch"} THEN x1 ELSE flow[f]
      BY <1>1
    <2>3. /\ x1.pc = flow[f].pc /\ x1.user = flow[f].user
          /\ x1.gen = flow[f].gen /\ x1.attempt = flow[f].attempt /\ x1.read = flow[f].read
          /\ x1.wait = sooner(flow[f].wait)
      BY <2>1, SetWait
    <2> HIDE DEF x1
    <2>4. QED
      BY <2>1, <2>2, <2>3
  <1>4. out.stores \in Nat /\ out'.pc = out.pc /\ out'.stores = sooner(out.stores)
    BY <1>1 DEF TypesOK, OutRec
  <1>5. \A i \in Nat, w \in Nat : i + 1 <= w => i <= sooner(w)
    BY SMT DEF sooner
  <1>6. /\ Sent' = Sent /\ \A f \in Flow : Changing(f)' <=> Changing(f)
    BY <1>1, <1>3 DEF Sent, Changing
  <1>7. \A u \in Account : store[u] \subseteq store'[u] \cup Sent
    BY <1>2
  <1>8. \A S : \A u \in Account : Holds(S, u) =>
            /\ store'[u] \subseteq S \cup Sent
            /\ \A i \in 1..m : storeJobs'[i].owner = u => storeJobs'[i].queue \subseteq S \cup Sent
    <2> SUFFICES ASSUME NEW S, NEW u \in Account, Holds(S, u)
                 PROVE  /\ store'[u] \subseteq S \cup Sent
                        /\ \A i \in 1..m : storeJobs'[i].owner = u
                                             => storeJobs'[i].queue \subseteq S \cup Sent
      OBVIOUS
    <2>1. /\ store[u] \subseteq S \cup Sent
          /\ \A i \in 1..n : storeJobs[i].owner = u => storeJobs[i].queue \subseteq S \cup Sent
      BY DEF Holds, Under, Of, n
    <2>2. job.owner = u => job.queue \subseteq S \cup Sent
      BY <1>2, <2>1
    <2>3. u # None
      BY AccountsAssumption
    <2>4. store'[u] \subseteq S \cup Sent
      BY <1>2, <2>1, <2>2, <2>3
    <2>5. QED
      BY <1>2, <2>1, <2>4
  <1>9. \A S : \A u \in Account : Safe(S, u) =>
            \A o \in S : \/ o \in store'[u] \cup Sent
                         \/ \E i \in 1..m : storeJobs'[i].owner = u /\ o \in storeJobs'[i].queue
    <2> SUFFICES ASSUME NEW S, NEW u \in Account, Safe(S, u), NEW o \in S
                 PROVE  \/ o \in store'[u] \cup Sent
                        \/ \E i \in 1..m : storeJobs'[i].owner = u /\ o \in storeJobs'[i].queue
      OBVIOUS
    <2>1. CASE o \in store[u] \cup Sent
      BY <1>7, <2>1
    <2>2. CASE o \notin store[u] \cup Sent
      <3>1. PICK i \in 1..n : storeJobs[i].owner = u /\ o \in storeJobs[i].queue
        BY <2>2 DEF Safe, Of, n
      <3>2. u # None
        BY AccountsAssumption
      <3>3. QED
        BY <1>2, <3>1, <3>2
    <2>3. QED
      BY <2>1, <2>2
  <1>10. Waits'
    <2> SUFFICES ASSUME NEW f \in Flow, Changing(f)
                 PROVE  /\ flow[f].pc = "check" /\ flow[f].user # None =>
                              \A i \in 1..m : storeJobs'[i].owner = flow[f].user => i <= flow'[f].wait
                        /\ flow[f].user = None =>
                              \A i \in 1..m : storeJobs'[i].owner # None => i <= flow'[f].wait
      BY <1>3, <1>6 DEF Waits, Of, m
    <2>1. flow[f].wait \in Nat /\ flow'[f].wait = sooner(flow[f].wait)
      BY <1>3 DEF Changing
    <2>2. /\ flow[f].pc = "check" /\ flow[f].user # None =>
                \A i \in 1..n : storeJobs[i].owner = flow[f].user => i <= flow[f].wait
          /\ flow[f].user = None =>
                \A i \in 1..n : storeJobs[i].owner # None => i <= flow[f].wait
      BY <1>1 DEF Contents, Waits, Of, n
    <2>3. QED
      BY <1>2, <1>5, <2>1, <2>2
  <1>11. Leaving'
    <2>1. data.owner = None => \A i \in 1..n : storeJobs[i].owner # None => i <= out.stores
      BY <1>1 DEF Contents, Leaving, n
    <2>2. data.owner = None => \A i \in 1..m : storeJobs'[i].owner # None => i <= out'.stores
      BY <1>2, <1>4, <1>5, <2>1
    <2>3. QED
      BY <1>1, <2>2 DEF Leaving, m
  <1>12. Chained'
    <2> SUFFICES ASSUME NEW j \in 1..m, storeJobs'[j].owner # None
                 PROVE  /\ store'[storeJobs'[j].owner] \subseteq storeJobs'[j].queue \cup Sent
                        /\ \A i \in 1..j : storeJobs'[i].owner = storeJobs'[j].owner =>
                              storeJobs'[i].queue \subseteq storeJobs'[j].queue \cup Sent
      BY <1>6 DEF Chained, Under, m
    <2> DEFINE k == j + 1
               u == storeJobs'[j].owner
    <2>1. k \in 1..n /\ storeJobs'[j] = storeJobs[k]
      BY <1>2
    <2>2. 1 \in 1..k /\ \A i \in 1..j : i + 1 \in 1..k /\ i \in 1..m
      BY <1>2, SMT DEF m
    <2>3. u \in Account
      <3>1. storeJobs[k] \in Job
        BY <1>1, <2>1 DEF TypesOK, n
      <3>2. QED
        BY <2>1, <3>1 DEF Job, Anyone
    <2> HIDE DEF k
    <2>4. /\ store[u] \subseteq storeJobs[k].queue \cup Sent
          /\ \A i \in 1..k : storeJobs[i].owner = u => storeJobs[i].queue \subseteq storeJobs[k].queue \cup Sent
      BY <1>1, <2>1 DEF Contents, Chained, Under, n
    <2>5. store'[u] \subseteq storeJobs[k].queue \cup Sent
      <3>1. job.owner = u => job.queue \subseteq storeJobs[k].queue \cup Sent
        BY <1>2, <2>2, <2>4
      <3>2. QED
        BY <1>2, <2>3, <2>4, <3>1
    <2>6. QED
      BY <1>2, <2>1, <2>2, <2>4, <2>5
  <1>13. (data.owner # None => data.owner \in Account) /\ (local.owner # None => local.owner \in Account)
    BY <1>1 DEF TypesOK, DataRec, LocalRec, Anyone
  <1>14. Held' /\ Cached'
    <2>1. data.owner # None =>
              /\ store'[data.owner] \subseteq data.queue \cup Sent
              /\ \A i \in 1..m : storeJobs'[i].owner = data.owner
                                   => storeJobs'[i].queue \subseteq data.queue \cup Sent
      BY <1>1, <1>8, <1>13 DEF Contents, Held
    <2>2. local.owner # None =>
              /\ store'[local.owner] \subseteq local.queue \cup Sent
              /\ \A i \in 1..m : storeJobs'[i].owner = local.owner
                                   => storeJobs'[i].queue \subseteq local.queue \cup Sent
      BY <1>1, <1>8, <1>13 DEF Contents, Cached
    <2>3. Held'
      BY <1>1, <1>6, <2>1 DEF Contents, Held, Holds, Under, Of, m
    <2>4. Cached'
      BY <1>1, <1>6, <2>2 DEF Cached, Holds, Under, Of, m
    <2>5. QED
      BY <2>3, <2>4
  <1>15. Blank'
    <2> SUFFICES ASSUME local.owner = None
                 PROVE  /\ data.owner = None
                        /\ \A u \in Account : store'[u] = {}
                        /\ \A i \in 1..m : storeJobs'[i].owner = None
                        /\ \A f \in Flow : flow'[f].pc = "switch" => flow'[f].read = {}
      BY <1>1 DEF Blank, m
    <2>1. /\ data.owner = None
          /\ \A u \in Account : store[u] = {}
          /\ \A i \in 1..n : storeJobs[i].owner = None
          /\ \A f \in Flow : flow[f].pc = "switch" => flow[f].read = {}
      BY <1>1 DEF Contents, Blank, n
    <2>2. QED
      BY <1>2, <1>3, <2>1
  <1>16. Settled'
    <2>1. ASSUME local.owner # None, data.owner # local.owner \/ \E f \in Flow : Changing(f)
          PROVE  \A o \in local.queue :
                    \/ o \in store'[local.owner] \cup Sent
                    \/ \E i \in 1..m : storeJobs'[i].owner = local.owner /\ o \in storeJobs'[i].queue
      BY <1>1, <1>9, <1>13, <2>1 DEF Contents, Settled
    <2>2. QED
      BY <1>1, <1>6, <2>1 DEF Settled, Safe, Of, m
  <1>17. Reads'
    <2> SUFFICES ASSUME NEW f \in Flow, Changing(f), flow[f].pc = "switch", flow[f].user # None
                 PROVE  /\ \A i \in 1..m : storeJobs'[i].owner # flow[f].user
                        /\ store'[flow[f].user] \subseteq flow[f].read \cup Sent
                        /\ local.owner = flow[f].user =>
                              /\ local.queue \subseteq flow[f].read \cup Sent
                              /\ flow[f].read \subseteq local.queue \cup Sent
      BY <1>1, <1>3, <1>6 DEF Reads, Of, Under, m
    <2>1. /\ \A i \in 1..n : storeJobs[i].owner # flow[f].user
          /\ store[flow[f].user] \subseteq flow[f].read \cup Sent
          /\ local.owner = flow[f].user =>
                /\ local.queue \subseteq flow[f].read \cup Sent
                /\ flow[f].read \subseteq local.queue \cup Sent
      BY <1>1 DEF Contents, Reads, Of, Under, n
    <2>2. flow[f].user \in Account
      BY <1>1 DEF TypesOK, FlowRec, Anyone
    <2>3. QED
      BY <1>2, <2>1, <2>2
  <1>18. Reached'
    BY <1>1, <1>6 DEF Contents, Reached
  <1>19. KeptSafe'
    <2> SUFFICES ASSUME NEW o \in kept'
                 PROVE  \/ o \in Sent
                        \/ \E u \in Account : o \in store'[u]
                        \/ local.owner # None /\ o \in local.queue
      BY <1>1, <1>6 DEF KeptSafe
    <2>1. CASE o \in kept
      BY <1>1, <1>7, <2>1 DEF Contents, KeptSafe
    <2>2. CASE o \notin kept
      BY <1>2, <2>2
    <2>3. QED
      BY <2>1, <2>2
  <1>20. Following'
    BY <1>1, <1>3, Flows DEF Control, Following
  <1>21. Entering'
    <2>1. sooner(0) = 0
      BY DEF sooner
    <2>2. QED
      BY <1>1, <1>3, <1>4, <1>6, <2>1, Flows DEF Control, Entering
  <1>22. QED
    BY <1>10, <1>11, <1>12, <1>14, <1>15, <1>16, <1>17, <1>18, <1>19, <1>20, <1>21
       DEF Control, Contents

(* A record is written: who waits for it goes on. *)
LEMMA RecordWriteKeeps ==
    ASSUME KeepInv, RecordWrite
    PROVE  Control' /\ Contents'
  <1>1. /\ IInv /\ TypesOK /\ Control /\ Contents
        /\ UNCHANGED <<auth, data, gen, attempt, boot, push, storeJobs, local, store, served, kept>>
    BY DEF KeepInv, IInv, RecordWrite, memory, ghost
  <1>2. PICK lost \in Lost :
            /\ flow' = [f \in Flow |->
                           IF flow[f].pc \in {"asked", "saving"}
                           THEN [flow[f] EXCEPT !.wait = sooner(flow[f].wait),
                                                !.ok = flow[f].ok \/ (flow[f].wait = 1 /\ ~lost)]
                           ELSE flow[f]]
            /\ out' = [out EXCEPT !.records = sooner(out.records),
                                  !.ok = out.ok \/ (out.records = 1 /\ ~lost)]
    BY DEF RecordWrite
  <1>3. \A f \in Flow :
           /\ flow'[f].pc = flow[f].pc /\ flow'[f].user = flow[f].user
           /\ flow'[f].gen = flow[f].gen /\ flow'[f].attempt = flow[f].attempt
           /\ flow[f].pc \notin {"asked", "saving"} => flow'[f] = flow[f]
    <2> SUFFICES ASSUME NEW f \in Flow
                 PROVE  /\ flow'[f].pc = flow[f].pc /\ flow'[f].user = flow[f].user
                        /\ flow'[f].gen = flow[f].gen /\ flow'[f].attempt = flow[f].attempt
                        /\ flow[f].pc \notin {"asked", "saving"} => flow'[f] = flow[f]
      OBVIOUS
    <2> DEFINE yes == flow[f].ok \/ (flow[f].wait = 1 /\ ~lost)
               x1 == [flow[f] EXCEPT !.wait = sooner(flow[f].wait)]
               x2 == [x1 EXCEPT !.ok = yes]
    <2>1. flow[f] \in FlowRec /\ sooner(flow[f].wait) \in Nat
      BY <1>1, SoonerParts DEF TypesOK, FlowRec
    <2>2. yes \in BOOLEAN
      OBVIOUS
    <2> HIDE DEF yes
    <2>3. flow'[f] = IF flow[f].pc \in {"asked", "saving"} THEN x2 ELSE flow[f]
      BY <1>2, <2>1 DEF yes
    <2>4. /\ x1 \in FlowRec /\ x1.pc = flow[f].pc /\ x1.user = flow[f].user
          /\ x1.gen = flow[f].gen /\ x1.attempt = flow[f].attempt
      BY <2>1, SetWait
    <2> HIDE DEF x1
    <2>5. /\ x2 \in FlowRec /\ x2.pc = flow[f].pc /\ x2.user = flow[f].user
          /\ x2.gen = flow[f].gen /\ x2.attempt = flow[f].attempt
      BY <2>2, <2>4, SetOk
    <2> HIDE DEF x2
    <2>6. QED
      BY <2>3, <2>5
  <1>4. out'.pc = out.pc /\ out'.stores = out.stores
    <2> DEFINE yes == out.ok \/ (out.records = 1 /\ ~lost)
               fewer == sooner(out.records)
    <2>1. out \in OutRec /\ out' = [out EXCEPT !.records = fewer, !.ok = yes]
      BY <1>1, <1>2 DEF TypesOK
    <2> HIDE DEF yes, fewer
    <2>2. QED
      BY <2>1 DEF OutRec
  <1>5. Calm
    BY <1>1, <1>3, <1>4 DEF Calm
  <1>6. \A f \in Flow : Changing(f)' <=> Changing(f)
    BY <1>1, <1>3 DEF Changing
  <1>7. Following'
    BY <1>1, <1>3, Flows DEF Control, Following
  <1>8. Entering'
    BY <1>1, <1>3, <1>4, <1>6, Flows DEF Control, Entering
  <1>9. QED
    BY <1>1, <1>5, <1>7, <1>8, CalmStep DEF Control

(* The app starts again with its cache; the writes under way are gone. *)
LEMMA KillKeeps ==
    ASSUME KeepInv, Kill
    PROVE  Control' /\ Contents'
  <1>1. /\ IInv /\ TypesOK /\ Contents
        /\ data' = [owner |-> local.owner, queue |-> local.queue]
        /\ gen' = 0 /\ attempt' = 0 /\ boot' = freshBoot /\ flow' = freshFlow
        /\ out' = NoOut /\ push' = NoPush /\ storeJobs' = <<>>
        /\ UNCHANGED <<local, store, served, kept>>
    BY DEF KeepInv, IInv, Kill, disk
  <1>2. data'.owner = local.owner /\ data'.queue = local.queue
    BY <1>1
  <1>3. /\ flow'["boot"].pc = "start" /\ ~boot'.recovered
        /\ \A f \in Flow : f # "boot" => flow'[f].pc = "idle"
    BY <1>1, FreshParts, IdleParts DEF TypesOK
  <1>4. \A f \in Flow : flow'[f].pc \notin {"check", "switch"} /\ ~Changing(f)'
    BY <1>3 DEF Changing
  <1>5. \A i \in 1..Len(storeJobs') : FALSE
    <2>1. Len(<<>>) = 0
      OBVIOUS
    <2>2. QED
      BY <1>1, <2>1, SMT
  <1>6. Sent' = Sent /\ \A u : Of(u)' = {}
    BY <1>1, <1>5 DEF Sent, Of
  <1>7. Following'
    BY <1>1, <1>2, <1>3 DEF Following
  <1>8. Entering'
    <2>1. NoOut.pc = "idle" /\ NoOut.stores = 0
      BY DEF NoOut
    <2>2. QED
      BY <1>1, <1>3, <1>4, <2>1, Flows DEF Entering
  <1>9. Waits' /\ Leaving' /\ Chained' /\ Reads' /\ Settled'
    BY <1>1, <1>2, <1>4, <1>5 DEF Waits, Leaving, Chained, Reads, Settled
  <1>10. Cached'
    BY <1>1, <1>6 DEF Contents, Cached, Holds, Under
  <1>11. Held'
    BY <1>1, <1>2, <1>6 DEF Contents, Cached, Held, Holds, Under
  <1>12. Blank'
    BY <1>1, <1>2, <1>4, <1>5 DEF Contents, Blank
  <1>13. Reached'
    BY <1>1 DEF Reached, NoPush
  <1>14. KeptSafe'
    BY <1>1, <1>6 DEF Contents, KeptSafe
  <1>15. QED
    BY <1>7, <1>8, <1>9, <1>10, <1>11, <1>12, <1>13, <1>14 DEF Control, Contents

-------------------------------------------------------------------------------
(* The second theorem.                                                       *)

LEMMA InitKeepInv == Init => KeepInv
  <1> SUFFICES ASSUME Init PROVE KeepInv
    OBVIOUS
  <1>1. /\ local = [owner |-> None, queue |-> {}, record |-> NoRecord]
        /\ auth = [token |-> None, user |-> None] /\ data = [owner |-> None, queue |-> {}]
        /\ boot = freshBoot /\ flow = freshFlow /\ out = NoOut /\ push = NoPush
        /\ storeJobs = <<>> /\ store = [a \in Account |-> {}] /\ kept = {} /\ IInv
    BY InitIInv DEF Init
  <1>2. data.owner = None /\ local.owner = None
    BY <1>1
  <1>3. /\ flow["boot"].pc = "start" /\ ~boot.recovered
        /\ \A f \in Flow : f # "boot" => flow[f].pc = "idle"
    BY <1>1, FreshParts, IdleParts DEF IInv, TypesOK
  <1>4. \A f \in Flow : flow[f].pc \notin {"check", "switch"} /\ ~Changing(f)
    BY <1>3 DEF Changing
  <1>5. \A i \in 1..Len(storeJobs) : FALSE
    <2>1. Len(<<>>) = 0
      OBVIOUS
    <2>2. QED
      BY <1>1, <2>1, SMT
  <1>6. Following
    BY <1>2, <1>3 DEF Following
  <1>7. Entering
    <2>1. NoOut.pc = "idle" /\ NoOut.stores = 0
      BY DEF NoOut
    <2>2. QED
      BY <1>1, <1>3, <1>4, <2>1, Flows DEF Entering
  <1>8. Waits /\ Leaving /\ Chained /\ Reads /\ Settled /\ Held /\ Cached
    BY <1>2, <1>4, <1>5 DEF Waits, Leaving, Chained, Reads, Settled, Held, Cached
  <1>9. Blank
    BY <1>1, <1>2, <1>4, <1>5 DEF Blank
  <1>10. Reached /\ KeptSafe
    BY <1>1 DEF Reached, NoPush, KeptSafe
  <1>11. QED
    BY <1>1, <1>6, <1>7, <1>8, <1>9, <1>10 DEF KeepInv, Control, Contents

LEMMA NextKeepInv ==
    ASSUME KeepInv, Sound, ~Hasty, ~Overlapping, ~Unattended, [Next]_vars
    PROVE  KeepInv'
  <1>1. IInv'
    BY NextIInv DEF KeepInv
  <1>2. CASE UNCHANGED vars
    <2>1. UNCHANGED <<auth, data, gen, attempt, boot, flow, out, push, storeJobs, local, store,
                      served, kept>>
      BY <1>2 DEF vars, memory, jobs, disk, ghost
    <2>2. Calm
      BY <2>1 DEF Calm
    <2>3. QED
      BY <1>1, <2>1, <2>2, CalmStep, ControlSame DEF KeepInv
  <1>3. CASE SessionRead \/ BootStart \/ BootMerge
    BY <1>1, <1>3, SessionReadKeeps, BootStartKeeps, BootMergeKeeps DEF KeepInv
  <1>4. CASE \E f \in Flow : Check(f) \/ Switch(f) \/ Saved(f)
    BY <1>1, <1>4, CheckKeeps, SwitchKeeps, SavedKeeps DEF KeepInv
  <1>5. CASE \E f \in Login : (\E u \in Account : SignIn(f, u)) \/ LoginStart(f)
                              \/ LoginAnswered(f) \/ LoginRefused(f)
    BY <1>1, <1>5, SignInKeeps, LoginStartKeeps, LoginAnsweredKeeps, LoginRefusedKeeps DEF KeepInv
  <1>6. CASE SignOut \/ SignOutRecord \/ SignOutDone
    BY <1>1, <1>6, SignOutKeeps, SignOutRecordKeeps, SignOutDoneKeeps DEF KeepInv
  <1>7. CASE RenewStart \/ RenewAnswered \/ RenewRefused \/ RenewFailed
    BY <1>1, <1>7, RenewStartKeeps, RenewAnsweredKeeps, RenewRefusedKeeps, RenewFailedKeeps DEF KeepInv
  <1>8. CASE Enqueue \/ PushStart \/ PushServe \/ PushAnswered \/ PushFailed \/ PushRejected
    BY <1>1, <1>8, EnqueueKeeps, PushStartKeeps, PushServeKeeps, PushAnsweredKeeps,
       PushFailedKeeps, PushRejectedKeeps DEF KeepInv
  <1>9. CASE StoreWrite \/ RecordWrite \/ Kill
    BY <1>1, <1>9, StoreWriteKeeps, RecordWriteKeeps, KillKeeps DEF KeepInv
  <1>10. QED
    BY <1>2, <1>3, <1>4, <1>5, <1>6, <1>7, <1>8, <1>9 DEF Next

LEMMA KeepInvKept == KeepInv => SavedIsKept
  <1> SUFFICES ASSUME KeepInv, NEW o \in kept, o \in signed
               PROVE  \/ \E a \in Account : <<o, a>> \in served
                      \/ o \in store[wrote[o].by]
                      \/ local.owner = wrote[o].by /\ o \in local.queue
    BY DEF SavedIsKept
  <1>1. Queues /\ KeptSafe
    BY DEF KeepInv, IInv, Contents
  <1>2. CASE o \in Sent
    BY <1>2 DEF Sent
  <1>3. CASE \E u \in Account : o \in store[u]
    BY <1>1, <1>3 DEF Queues, authored, signed
  <1>4. CASE local.owner # None /\ o \in local.queue
    BY <1>1, <1>4 DEF Queues, OwnQueue, authored, signed
  <1>5. QED
    BY <1>1, <1>2, <1>3, <1>4 DEF KeptSafe

(* What was saved once is at the server or still on the device's disk, under *)
(* its account, whatever sign-ins, sign-outs, renewals, requests and kills   *)
(* cross each other, when the disk takes every write, a sign-in waits for    *)
(* the sign-out before it, no other begins while one changes the data, and   *)
(* nothing is written into an account's data with nobody signed in.          *)
THEOREM SavedQueuesKept ==
    ASSUME ~Hasty, ~Overlapping, ~Unattended, ~LocalMayFail, ~IdbMayFail
    PROVE  Spec => []SavedIsKept
  <1>1. KeepInv /\ [Next]_vars => KeepInv'
    BY NextKeepInv DEF Sound
  <1>2. QED
    BY <1>1, InitKeepInv, KeepInvKept, PTL DEF Spec


-------------------------------------------------------------------------------
(* Who may be found signed in.  Every record, saved or on its way, names     *)
(* somebody a kill may leave signed in, and of the two copies the newer one  *)
(* does.  When a sign-in or a sign-out says that it was saved, its record is *)
(* in the session store, all that follow name the same account, and what     *)
(* localStorage has does so too or is older.                                 *)

Listed ==
    /\ backup.user \in lasting
    /\ \A i \in 1..Len(recordJobs) : recordJobs[i].user \in lasting
    /\ local.record.user \in lasting \/ local.record.at < backup.at
    /\ boot.ready => auth.user \in lasting

(* Later records have later stamps, and the next one is later than all. *)
Dated ==
    /\ \A i \in 1..Len(recordJobs) :
          backup.at < recordJobs[i].at /\ recordJobs[i].at <= boot.clock
    /\ \A i, j \in 1..Len(recordJobs) : i < j => recordJobs[i].at < recordJobs[j].at
    /\ local.record.at <= boot.clock
    /\ boot.ready => backup.at <= boot.clock

(* Before the session is read. *)
Early ==
    ~boot.ready =>
        /\ recordJobs = <<>> /\ out.pc # "saving"
        /\ IF gen = 0
           THEN auth.user = local.record.user /\ lasting \subseteq wanted /\ out.pc = "idle"
           ELSE auth.user = None /\ None \in lasting /\ None \in wanted

(* The n-th record under way and all behind it name u, or the saved one does *)
(* and all under way.                                                        *)
Names(n, u) ==
    /\ n \in 0..Len(recordJobs)
    /\ \A i \in 1..Len(recordJobs) : i >= n => recordJobs[i].user = u
    /\ n = 0 => backup.user = u /\ (local.record.user = u \/ local.record.at < backup.at)
    /\ n # 0 => local.record.user = u \/ local.record.at < recordJobs[n].at

Signing == \A f \in Flow : flow[f].pc = "saving" /\ flow[f].gen = gen =>
    auth.user = flow[f].user /\ Names(flow[f].wait, flow[f].user)

SigningOut == out.pc # "idle" =>
    /\ out.gen = gen /\ auth.user = None
    /\ out.pc = "saving" => Names(out.records, None)

(* A sign-in that may go on began after the sign-out before it had ended,    *)
(* and a renewal that may go on is of who is signed in.                      *)
Begun == {"start", "asked", "check", "switch"}

Latest(f) ==
    /\ f \in Login /\ flow[f].pc \in Begun /\ flow[f].attempt = attempt => out.pc = "idle"
    /\ f = "renew" /\ flow[f].pc \in Working /\ flow[f].gen = gen => auth.user = flow[f].user

Trail == Listed /\ Dated /\ Signing /\ SigningOut
Calls == Early /\ (\A f \in Flow : Latest(f)) /\ SessionIsWanted
WantInv == IInv /\ Trail /\ Calls

-------------------------------------------------------------------------------
(* A record is written. *)

(* Whom it names, and when. *)
LEMMA RecordIs ==
    ASSUME TypesOK, NEW user \in Anyone, NEW token \in {None, user}, NEW signedOut \in BOOLEAN
    PROVE  LET r == record(token, user, signedOut) IN
           /\ r \in Session /\ r.user = user
           /\ r # NoRecord => r.at = boot.clock + 1
           /\ user # None \/ signedOut => r # NoRecord
           /\ NoRecord \in Session /\ NoRecord.user = None /\ NoRecord.at = -1
  <1>1. NoRecord.user = None /\ NoRecord.at = -1
    BY DEF NoRecord
  <1>2. record(token, user, signedOut) = IF user = None /\ ~signedOut THEN NoRecord
               ELSE [at |-> boot.clock + 1, token |-> token, user |-> user]
    BY DEF record
  <1>3. QED
    BY <1>1, <1>2, RecordParts

(* The records under way, with one more. *)
LEMMA Joined ==
    ASSUME TypesOK, NEW r \in Session, SaveRecord(r)
    PROVE  /\ boot'.clock = boot.clock + 1 /\ boot'.ready = boot.ready
           /\ Len(recordJobs) \in Nat /\ Len(recordJobs') \in Nat
           /\ r = NoRecord => recordJobs' = recordJobs
           /\ r # NoRecord => Len(recordJobs') = Len(recordJobs) + 1
           /\ Len(recordJobs) <= Len(recordJobs')
           /\ \A i \in 1..Len(recordJobs) : recordJobs'[i] = recordJobs[i]
           /\ \A i \in 1..Len(recordJobs') :
                 \/ i \in 1..Len(recordJobs)
                 \/ i = Len(recordJobs) + 1 /\ recordJobs'[i] = r /\ r # NoRecord
  <1>1. recordJobs \in Seq(Session) /\ boot \in BootRec
    BY DEF TypesOK
  <1>2. boot'.clock = boot.clock + 1 /\ boot'.ready = boot.ready
    BY <1>1 DEF SaveRecord, BootRec
  <1>3. recordJobs' = IF r = NoRecord THEN recordJobs ELSE Append(recordJobs, r)
    BY DEF SaveRecord, queued
  <1>4. CASE r = NoRecord
    BY <1>1, <1>2, <1>3, <1>4, SMT
  <1>5. CASE r # NoRecord
    <2>1. recordJobs' = Append(recordJobs, r)
      BY <1>3, <1>5
    <2> HIDE DEF SaveRecord
    <2>2. /\ Len(recordJobs) \in Nat /\ Len(recordJobs') = Len(recordJobs) + 1
          /\ \A i \in 1..Len(recordJobs) : recordJobs'[i] = recordJobs[i]
          /\ recordJobs'[Len(recordJobs) + 1] = r
      BY <1>1, <2>1, SMT
    <2>3. QED
      BY <1>2, <1>5, <2>2, SMT
  <1>6. QED
    BY <1>4, <1>5

(* It is later than all others. *)
LEMMA DatedJoined ==
    ASSUME TypesOK, Dated, boot.ready, NEW r \in Session, SaveRecord(r),
           r # NoRecord => r.at = boot.clock + 1,
           local'.record \in {local.record, r, NoRecord}, backup' = backup
    PROVE  Dated'
  <1>1. /\ boot.clock \in Nat /\ backup.at \in Int /\ local.record.at \in Int
        /\ \A i \in 1..Len(recordJobs) : recordJobs[i].at \in Int
        /\ NoRecord.at = -1
    BY DEF TypesOK, BootRec, LocalRec, Session, Record, NoRecord
  <1>2. backup.at < boot.clock + 1 /\ boot.clock + 1 \in Nat /\ -1 <= boot.clock + 1
        /\ local.record.at <= boot.clock + 1 /\ backup.at <= boot.clock + 1
        /\ boot.clock + 1 <= boot.clock + 1
    BY <1>1, SMT DEF Dated
  <1>3. \A i \in 1..Len(recordJobs) :
            recordJobs[i].at < boot.clock + 1 /\ recordJobs[i].at <= boot.clock + 1
    BY <1>1, SMT DEF Dated
  <1>4. \A i \in 1..Len(recordJobs') :
            backup'.at < recordJobs'[i].at /\ recordJobs'[i].at <= boot'.clock
    BY <1>2, <1>3, Joined DEF Dated
  <1>5. ASSUME NEW i \in 1..Len(recordJobs'), NEW j \in 1..Len(recordJobs'), i < j
        PROVE  recordJobs'[i].at < recordJobs'[j].at
    <2>a. j \in 1..Len(recordJobs) \/ j = Len(recordJobs) + 1
      BY Joined
    <2>1. i \in 1..Len(recordJobs)
      BY <1>5, <2>a, Joined, SMT
    <2>2. CASE j \in 1..Len(recordJobs)
      BY <1>5, <2>1, <2>2, Joined DEF Dated
    <2>3. CASE j \notin 1..Len(recordJobs)
      BY <1>3, <2>1, <2>3, Joined
    <2>4. QED
      BY <2>2, <2>3
  <1>6. local'.record.at <= boot'.clock
    BY <1>1, <1>2, Joined
  <1>7. boot'.ready => backup'.at <= boot'.clock
    BY <1>2, Joined
  <1>8. QED
    BY <1>4, <1>5, <1>6, <1>7 DEF Dated

(* It names somebody a kill may leave signed in. *)
LEMMA ListedJoined ==
    ASSUME TypesOK, Listed, NEW r \in Session, SaveRecord(r), r.user \in lasting',
           lasting \subseteq lasting', auth'.user \in lasting', backup' = backup,
           \/ local'.record \in {local.record, r}
           \/ local'.record = NoRecord /\ None \in lasting'
    PROVE  Listed'
  <1>1. NoRecord.user = None
    BY DEF NoRecord
  <1>2. \A i \in 1..Len(recordJobs') : recordJobs'[i].user \in lasting'
    BY Joined DEF Listed
  <1>3. local'.record.user \in lasting' \/ local'.record.at < backup'.at
    BY <1>1 DEF Listed
  <1>4. QED
    BY <1>2, <1>3 DEF Listed

(* Who waits for an earlier record of the same account, or for this one. *)
LEMMA NamesJoined ==
    ASSUME TypesOK, NEW r \in Session, SaveRecord(r), NEW n, NEW u, Names(n, u), r.user = u,
           local'.record \in {local.record, r}, backup' = backup
    PROVE  Names(n, u)'
  <1>1. n \in 0..Len(recordJobs) /\ n \in 0..Len(recordJobs')
    BY Joined, SMT DEF Names
  <1>2. n # 0 => n \in 1..Len(recordJobs)
    BY <1>1, SMT
  <1>3. \A i \in 1..Len(recordJobs') : i >= n => recordJobs'[i].user = u
    BY Joined DEF Names
  <1>4. n # 0 => recordJobs'[n] = recordJobs[n]
    BY <1>2, Joined
  <1>5. QED
    BY <1>1, <1>3, <1>4 DEF Names

LEMMA NamesLast ==
    ASSUME TypesOK, Dated, NEW r \in Session, SaveRecord(r), r # NoRecord, r.at = boot.clock + 1,
           local'.record \in {local.record, r, NoRecord}, NEW n, n = Len(recordJobs) + 1
    PROVE  Names(n, r.user)'
  <1>1. /\ n \in 1..Len(recordJobs') /\ n \in 0..Len(recordJobs') /\ n # 0
        /\ Len(recordJobs') = n
    BY Joined, SMT
  <1>2. recordJobs'[n] = r
    <2>1. n \notin 1..Len(recordJobs)
      BY Joined, SMT
    <2>2. QED
      BY <1>1, <2>1, Joined
  <1>3. /\ boot.clock \in Nat /\ local.record.at \in Int /\ NoRecord.at = -1
    BY DEF TypesOK, BootRec, LocalRec, Session, Record, NoRecord
  <1>4. local.record.at < r.at /\ NoRecord.at < r.at
    BY <1>3, SMT DEF Dated
  <1>5. \A i \in 1..Len(recordJobs') : i >= n => i = n
    BY <1>1, SMT
  <1>6. QED
    BY <1>1, <1>2, <1>4, <1>5 DEF Names

-------------------------------------------------------------------------------
(* Steps that write no record. *)

Quiet ==
    /\ UNCHANGED <<gen, recordJobs, backup, lasting>>
    /\ auth'.user = auth.user /\ boot'.ready = boot.ready /\ boot'.clock = boot.clock
    /\ local'.record = local.record
    /\ out'.pc = out.pc /\ out'.gen = out.gen /\ out'.records = out.records
    /\ \A f \in Flow : flow'[f].pc = "saving" => flow'[f] = flow[f]

LEMMA QuietTrail ==
    ASSUME Trail, Quiet
    PROVE  Trail'
  <1>1. \A n, u : Names(n, u) => Names(n, u)'
    BY DEF Quiet, Names
  <1>2. Listed' /\ Dated'
    BY DEF Trail, Quiet, Listed, Dated
  <1>3. Signing'
    <2> SUFFICES ASSUME NEW f \in Flow, flow'[f].pc = "saving", flow'[f].gen = gen'
                 PROVE  auth'.user = flow'[f].user /\ Names(flow[f].wait, flow[f].user)'
      BY DEF Signing
    <2>1. flow'[f] = flow[f] /\ auth.user = flow[f].user /\ Names(flow[f].wait, flow[f].user)
      BY DEF Quiet, Trail, Signing
    <2>2. QED
      BY <2>1 DEF Quiet, Names
  <1>4. SigningOut'
    BY DEF Trail, Quiet, SigningOut, Names
  <1>5. QED
    BY <1>2, <1>3, <1>4 DEF Trail

(* Whom the next start may find signed in, and who the latest are. *)
LEMMA QuietStep ==
    ASSUME WantInv, Quiet, wanted' = wanted, \A f \in Flow : Latest(f)'
    PROVE  Trail' /\ Calls'
  <1>1. Trail'
    BY QuietTrail DEF WantInv
  <1>2. Early' /\ SessionIsWanted'
    BY DEF WantInv, Calls, Quiet, Early, SessionIsWanted
  <1>3. QED
    BY <1>1, <1>2 DEF Calls

(* One flow moves. *)
LEMMA LatestMoves ==
    ASSUME WantInv, NEW f \in Flow, \A g \in Flow : g # f => flow'[g] = flow[g],
           flow'[f].pc \notin Begun \/ Latest(f)',
           auth'.user = auth.user, out'.pc = out.pc, UNCHANGED <<gen, attempt>>
    PROVE  \A g \in Flow : Latest(g)'
  <1> SUFFICES ASSUME NEW g \in Flow PROVE Latest(g)'
    OBVIOUS
  <1>1. Latest(g) /\ Working \subseteq Begun
    BY SMT DEF WantInv, Calls, Working, Begun
  <1>2. CASE g = f
    BY <1>1, <1>2 DEF Latest
  <1>3. CASE g # f
    BY <1>1, <1>3 DEF Latest
  <1>4. QED
    BY <1>2, <1>3

LEMMA LatestSame ==
    ASSUME WantInv, auth'.user = auth.user, out'.pc = out.pc, UNCHANGED <<gen, attempt, flow>>
    PROVE  \A g \in Flow : Latest(g)'
  BY DEF WantInv, Calls, Latest

LEMMA MoveStep ==
    ASSUME WantInv, NEW f \in Flow, \A g \in Flow : g # f => flow'[g] = flow[g],
           flow'[f].pc \in {"idle", "merge"} \/ (flow'[f].pc \in Begun /\ Latest(f)'),
           boot'.ready = boot.ready, boot'.clock = boot.clock, local'.record = local.record,
           UNCHANGED <<auth, gen, attempt, out, recordJobs, backup, lasting, wanted>>
    PROVE  Trail' /\ Calls'
  <1>1. "saving" \notin Begun /\ "idle" \notin Begun /\ "merge" \notin Begun
    BY SMT DEF Begun
  <1>2. Quiet
    BY <1>1 DEF Quiet
  <1>3. \A g \in Flow : Latest(g)'
    BY <1>1, LatestMoves
  <1>4. QED
    BY <1>2, <1>3, QuietStep

LEMMA SameStep ==
    ASSUME WantInv, local'.record = local.record,
           UNCHANGED <<auth, gen, attempt, boot, flow, out, recordJobs, backup, lasting, wanted>>
    PROVE  Trail' /\ Calls'
  <1>1. Quiet
    BY DEF Quiet
  <1>2. QED
    BY <1>1, LatestSame, QuietStep

(* A flow ends. *)
LEMMA EndWants ==
    ASSUME WantInv, NEW f \in Flow, Abandon(f), local'.record = local.record,
           UNCHANGED <<auth, gen, attempt, out, recordJobs, backup, lasting, wanted>>
    PROVE  Trail' /\ Calls'
  <1>1. TypesOK
    BY DEF WantInv, IInv
  <1>2. /\ flow'[f].pc = "idle" /\ \A g \in Flow : g # f => flow'[g] = flow[g]
        /\ boot'.ready = boot.ready
    BY <1>1, AbandonParts, IdleParts
  <1>3. boot'.clock = boot.clock
    BY <1>1 DEF Abandon, TypesOK, BootRec
  <1>4. QED
    BY <1>2, <1>3, MoveStep

-------------------------------------------------------------------------------
(* The steps of the start of the app, and of selectOwner. *)

LEMMA BootStartWants ==
    ASSUME WantInv, BootStart
    PROVE  Trail' /\ Calls'
  <1> DEFINE x1 == [Starting EXCEPT !.user = auth.user]
             x2 == [x1 EXCEPT !.gen = gen]
             x3 == [x2 EXCEPT !.attempt = attempt]
             here == [x3 EXCEPT !.pc = "merge"]
             other == [x3 EXCEPT !.pc = "check"]
  <1>1. /\ TypesOK
        /\ UNCHANGED <<auth, gen, attempt, boot, out, recordJobs, local, backup, lasting, wanted>>
    BY DEF WantInv, IInv, BootStart, memory, disk, ghost
  <1>2. \/ flow' = [flow EXCEPT !["boot"] = here]
        \/ Checkpoint("boot", other)
    BY DEF BootStart
  <1>3. /\ auth.user \in Anyone /\ gen \in Nat /\ attempt \in Nat
        /\ "merge" \in Phase /\ "check" \in Phase /\ flow \in [Flow -> FlowRec]
    BY <1>1 DEF TypesOK, AuthRec, Phase
  <1>4. x3 \in FlowRec
    <2>1. x1 \in FlowRec
      BY <1>3, IdleParts, SetUser
    <2> HIDE DEF x1
    <2>2. x2 \in FlowRec
      BY <1>3, <2>1, SetGen
    <2> HIDE DEF x2
    <2>3. QED
      BY <1>3, <2>2, SetAttempt
  <1> HIDE DEF x3
  <1>5. here \in FlowRec /\ here.pc = "merge" /\ other \in FlowRec /\ other.pc = "check"
    BY <1>3, <1>4, SetPc
  <1> HIDE DEF here, other
  <1>6. /\ \A g \in Flow : g # "boot" => flow'[g] = flow[g]
        /\ flow'["boot"].pc \in {"merge", "check"}
    <2>1. CASE flow' = [flow EXCEPT !["boot"] = here]
      BY <1>3, <1>5, <2>1, PutFlow, Flows
    <2>2. CASE Checkpoint("boot", other)
      BY <1>1, <1>5, <2>2, WaitingParts, Flows
    <2>3. QED
      BY <1>2, <2>1, <2>2
  <1>7. Latest("boot")' /\ "check" \in Begun
    BY Flows DEF Latest, Begun
  <1>8. QED
    BY <1>1, <1>6, <1>7, MoveStep, Flows

LEMMA BootMergeWants ==
    ASSUME WantInv, BootMerge
    PROVE  Trail' /\ Calls'
  BY EndWants, Flows DEF BootMerge, jobs, disk, ghost

LEMMA StaleWants ==
    ASSUME WantInv, NEW f \in Flow, Stale(f)
    PROVE  Trail' /\ Calls'
  BY EndWants DEF Stale, jobs, disk, ghost

(* A flow that goes on is no other than before. *)
LEMMA LatestOn ==
    ASSUME WantInv, NEW f \in Flow, flow[f].pc \in Begun,
           flow'[f].user = flow[f].user, flow'[f].attempt = flow[f].attempt,
           flow[f].pc \in Working, flow'[f].gen = flow[f].gen,
           auth' = auth, out' = out, UNCHANGED <<gen, attempt>>
    PROVE  Latest(f)'
  BY DEF WantInv, Calls, Latest

LEMMA CheckWants ==
    ASSUME WantInv, NEW f \in Flow, Check(f)
    PROVE  Trail' /\ Calls'
  <1>1. TypesOK /\ flow[f].pc = "check"
    BY DEF WantInv, IInv, Check
  <1>2. CASE Stale(f)
    BY <1>2, StaleWants
  <1>3. ASSUME Checkpoint(f, [flow[f] EXCEPT !.pc = "switch", !.read = saved(flow[f].user)]),
               UNCHANGED <<memory, out, push, recordJobs, disk, ghost, budget>>
        PROVE  Trail' /\ Calls'
    <2> DEFINE switch == "switch"
               read == saved(flow[f].user)
               x1 == [flow[f] EXCEPT !.pc = switch]
               x2 == [x1 EXCEPT !.read = read]
    <2>1. /\ UNCHANGED <<auth, gen, attempt, boot, out, recordJobs, local, backup, lasting, wanted>>
          /\ Checkpoint(f, x2) /\ switch = "switch"
      BY <1>3 DEF memory, disk, ghost
    <2>2. flow[f] \in FlowRec /\ switch \in Phase /\ flow[f].user \in Anyone
      BY <1>1 DEF TypesOK, Phase, FlowRec
    <2>3. read \in SUBSET Op
      BY <1>1, <2>2 DEF saved, TypesOK, Anyone
    <2> HIDE DEF read, switch
    <2>4. /\ x1 \in FlowRec /\ x1.pc = switch /\ x1.user = flow[f].user /\ x1.gen = flow[f].gen
          /\ x1.attempt = flow[f].attempt
      BY <2>2, SetPc
    <2> HIDE DEF x1
    <2>5. /\ x2 \in FlowRec /\ x2.pc = switch /\ x2.user = flow[f].user /\ x2.gen = flow[f].gen
          /\ x2.attempt = flow[f].attempt
      BY <2>3, <2>4, SetRead
    <2> HIDE DEF x2
    <2>6. /\ \A g \in Flow : g # f => flow'[g] = flow[g]
          /\ flow'[f].pc = "switch" /\ flow'[f].user = flow[f].user
          /\ flow'[f].gen = flow[f].gen /\ flow'[f].attempt = flow[f].attempt
      BY <1>1, <2>1, <2>5, WaitingParts
    <2>7. "switch" \in Begun /\ flow[f].pc \in Begun /\ flow[f].pc \in Working
      BY <1>1, SMT DEF Begun, Working
    <2>8. Latest(f)'
      BY <2>1, <2>6, <2>7, LatestOn
    <2>9. QED
      BY <2>1, <2>6, <2>7, <2>8, MoveStep
  <1>4. QED
    BY <1>2, <1>3 DEF Check

(* What localStorage keeps. *)
LEMMA RecordKeptIn ==
    ASSUME NEW l \in LocalRec, NEW r \in Session, NEW full \in BOOLEAN
    PROVE  recorded(l, r, full).record \in {l.record, r}
  BY DEF recorded, LocalRec

(* An account becomes who is wanted. *)
LEMMA InstallWants ==
    ASSUME WantInv, NEW f \in Flow \ {"boot"}, flow[f].pc \in Working, out.pc = "idle",
           NEW l \in LocalRec, l.record = local.record, NEW full \in BOOLEAN,
           Install(f, l, full), UNCHANGED <<out, backup>>,
           f = "renew" => auth.user = flow[f].user
    PROVE  Trail' /\ Calls'
  <1> DEFINE u == flow[f].user
             r == record(u, u, FALSE)
             n == Len(recordJobs) + 1
  <1>1. /\ IInv /\ TypesOK /\ Listed /\ Dated /\ SessionIsWanted
        /\ flow[f].pc \notin {"idle", "start", "saving"}
    BY SMT DEF WantInv, IInv, Trail, Calls, Working
  <1>2. boot.ready /\ u \in Account
    BY <1>1, StartedFlow
  <1>3. u \in Anyone /\ u # None
    BY <1>2, AccountsAssumption DEF Anyone
  <1>4. r \in Session /\ r.user = u /\ r # NoRecord /\ r.at = boot.clock + 1
    BY <1>1, <1>3, RecordIs
  <1>5. /\ local' = recorded(l, r, full) /\ SaveRecord(r)
        /\ wanted' = IF f = "renew" THEN wanted ELSE {u}
        /\ lasting' = lasting \cup {u}
    BY DEF Install
  <1> HIDE DEF r
  <1>6. local'.record \in {local.record, r}
    BY <1>4, <1>5, RecordKeptIn
  <1>7. /\ auth'.user = u /\ gen' = gen + 1 /\ boot'.ready = boot.ready
        /\ \A g \in Flow : g # f => flow'[g] = flow[g]
        /\ flow'[f].pc = "saving" /\ flow'[f].user = u /\ flow'[f].gen = gen + 1
        /\ flow'[f].wait = n /\ attempt' = attempt
    <2>1. f \in Flow /\ flow[f].user \in Account
      BY <1>2
    <2> HIDE DEF u, n
    <2>2. /\ auth'.user = flow[f].user /\ gen' = gen + 1 /\ boot'.ready = boot.ready
          /\ \A g \in Flow : g # f => flow'[g] = flow[g]
          /\ flow'[f].pc = "saving" /\ flow'[f].user = flow[f].user /\ flow'[f].gen = gen + 1
          /\ flow'[f].wait = Len(recordJobs) + 1 /\ UNCHANGED <<attempt, push>>
      BY <1>1, <2>1, InstallParts
    <2>3. QED
      BY <2>2 DEF u, n
  <1>8. Dated'
    BY <1>1, <1>2, <1>4, <1>5, <1>6, DatedJoined
  <1>9. Listed'
    BY <1>1, <1>4, <1>5, <1>6, <1>7, ListedJoined
  <1>10. \A g \in Flow : flow[g].gen # gen'
    <2> SUFFICES ASSUME NEW g \in Flow PROVE flow[g].gen # gen'
      OBVIOUS
    <2>1. flow[g].gen \in Nat /\ gen \in Nat /\ flow[g].gen <= gen
      BY <1>1 DEF IInv, Clocks, Clock, TypesOK, FlowRec
    <2>2. QED
      BY <1>7, <2>1, SMT
  <1>11. Signing'
    <2> SUFFICES ASSUME NEW g \in Flow, flow'[g].pc = "saving", flow'[g].gen = gen'
                 PROVE  auth'.user = flow'[g].user /\ Names(flow[g].wait, flow[g].user)'
      BY DEF Signing
    <2>1. g = f
      BY <1>7, <1>10
    <2>2. ASSUME NEW m, m = n, NEW v, v = u PROVE Names(m, v)'
      BY <1>1, <1>4, <1>5, <1>6, <2>2, NamesLast
    <2>3. \A m, v : m = flow'[f].wait /\ v = flow'[f].user => Names(m, v)'
      BY <1>7, <2>2
    <2>4. QED
      BY <1>7, <2>1, <2>3 DEF Names
  <1>12. SigningOut'
    BY DEF SigningOut
  <1>13. Early' /\ SessionIsWanted'
    BY <1>1, <1>2, <1>5, <1>7 DEF Early, SessionIsWanted
  <1>14. ASSUME NEW g \in Flow PROVE Latest(g)'
    <2>1. "saving" \notin Working
      BY SMT DEF Working
    <2>2. ~(flow'[g].pc \in Working /\ flow'[g].gen = gen')
      BY <1>7, <1>10, <2>1
    <2>3. QED
      BY <2>2 DEF Latest
  <1>15. QED
    BY <1>8, <1>9, <1>11, <1>12, <1>13, <1>14 DEF Trail, Calls

LEMMA AdoptedRecord ==
    ASSUME local \in LocalRec, NEW u, NEW full
    PROVE  adopted(u, full).record = local.record
  BY DEF adopted, LocalRec

(* Who may go on was the last to begin. *)
LEMMA NobodyLeaves ==
    ASSUME WantInv, NEW f \in Flow \ {"boot"}, flow[f].pc \in Working,
           f \in Login => flow[f].attempt = attempt, f = "renew" => auth.user = flow[f].user
    PROVE  out.pc = "idle"
  <1>1. /\ IInv /\ Latest(f) /\ SigningOut /\ Working \subseteq Begun
        /\ flow[f].pc \notin {"idle", "start", "saving"}
    BY SMT DEF WantInv, Trail, Calls, Working, Begun
  <1>2. flow[f].user \in Account
    BY <1>1, StartedFlow
  <1>3. CASE f \in Login
    BY <1>1, <1>3 DEF Latest
  <1>4. CASE f = "renew"
    BY <1>1, <1>2, <1>4, AccountsAssumption DEF SigningOut
  <1>5. QED
    BY <1>3, <1>4, Flows

LEMMA SwitchWants ==
    ASSUME WantInv, NEW f \in Flow, Switch(f)
    PROVE  Trail' /\ Calls'
  <1>1. TypesOK /\ flow[f].pc = "switch" /\ flow[f].pc \in Working /\ local \in LocalRec
    BY SMT DEF WantInv, IInv, Switch, Working, TypesOK
  <1>2. CASE Stale(f)
    BY <1>2, StaleWants
  <1>3. CASE ~Stale(f)
    <2>1. gen = flow[f].gen /\ UNCHANGED <<out, storeJobs, store, backup>>
      BY <1>3 DEF Switch
    <2>2. PICK full \in Full :
              LET l == adopted(flow[f].user, full)
              IN  \/ /\ f = "boot"
                     /\ flow' = [flow EXCEPT ![f].pc = "merge", ![f].read = {}]
                     /\ local' = l
                     /\ UNCHANGED <<auth, gen, attempt, boot, recordJobs, wanted, lasting>>
                  \/ f # "boot" /\ flow[f].attempt = attempt /\ Install(f, l, full)
                  \/ /\ f # "boot" /\ Abandon(f) /\ local' = l
                     /\ UNCHANGED <<auth, gen, attempt, recordJobs, wanted, lasting>>
      BY <1>3 DEF Switch
    <2> DEFINE l == adopted(flow[f].user, full)
    <2>3. full \in BOOLEAN /\ flow[f].user \in Anyone
      BY <1>1, <2>2 DEF Full, TypesOK, FlowRec
    <2>4. l \in LocalRec /\ l.record = local.record
      BY <1>1, <2>3, AdoptedParts, AdoptedRecord
    <2> HIDE DEF l
    <2>5. ASSUME f = "boot", flow' = [flow EXCEPT ![f].pc = "merge", ![f].read = {}], local' = l,
                 UNCHANGED <<auth, gen, attempt, boot, recordJobs, wanted, lasting>>
          PROVE  Trail' /\ Calls'
      <3>1. flow \in [Flow -> FlowRec]
        BY <1>1 DEF TypesOK
      <3>2. flow'[f].pc = "merge" /\ \A g \in Flow : g # f => flow'[g] = flow[g]
        BY <2>5, <3>1 DEF FlowRec
      <3>3. QED
        BY <2>1, <2>4, <2>5, <3>2, MoveStep
    <2>6. ASSUME f # "boot", flow[f].attempt = attempt, Install(f, l, full)
          PROVE  Trail' /\ Calls'
      <3>1. f = "renew" => auth.user = flow[f].user
        BY <1>1, <2>1 DEF WantInv, Calls, Latest
      <3>2. out.pc = "idle"
        BY <1>1, <2>6, <3>1, NobodyLeaves
      <3>3. QED
        BY <1>1, <2>1, <2>3, <2>4, <2>6, <3>1, <3>2, InstallWants
    <2>7. ASSUME f # "boot", Abandon(f), local' = l,
                 UNCHANGED <<auth, gen, attempt, recordJobs, wanted, lasting>>
          PROVE  Trail' /\ Calls'
      BY <2>1, <2>4, <2>7, EndWants
    <2>8. QED
      BY <2>2, <2>5, <2>6, <2>7 DEF l
  <1>4. QED
    BY <1>2, <1>3

(* The answer to a sign-in or a renewal. *)
LEMMA PersistWants ==
    ASSUME WantInv, NEW f \in Flow \ {"boot"}, flow[f].pc = "asked", Persist(f),
           UNCHANGED <<out, backup>>,
           f \in Login => flow[f].attempt = attempt, f = "renew" => auth.user = flow[f].user
    PROVE  Trail' /\ Calls'
  <1>1. TypesOK /\ flow[f].pc \in Working /\ local \in LocalRec
    BY SMT DEF WantInv, IInv, Working, TypesOK
  <1>2. out.pc = "idle"
    BY <1>1, NobodyLeaves
  <1>3. ASSUME NEW full \in Full, Install(f, local, full) PROVE Trail' /\ Calls'
    <2>1. full \in BOOLEAN
      BY <1>3 DEF Full
    <2>2. QED
      BY <1>1, <1>2, <1>3, <2>1, InstallWants
  <1>4. ASSUME Checkpoint(f, [[flow[f] EXCEPT !.gen = gen, !.attempt = attempt] EXCEPT !.pc = "check"]),
               UNCHANGED <<auth, gen, attempt, boot, local, recordJobs, push, wanted, lasting>>
        PROVE  Trail' /\ Calls'
    <2> DEFINE check == "check"
               x1 == [flow[f] EXCEPT !.gen = gen]
               x2 == [x1 EXCEPT !.attempt = attempt]
               x3 == [x2 EXCEPT !.pc = check]
    <2>1. flow[f] \in FlowRec /\ gen \in Nat /\ attempt \in Nat /\ check \in Phase
      BY <1>1, SMT DEF TypesOK, Phase
    <2>2. Checkpoint(f, x3) /\ check = "check"
      BY <1>4
    <2> HIDE DEF check
    <2>3. x1 \in FlowRec /\ x1.user = flow[f].user
      BY <2>1, SetGen
    <2> HIDE DEF x1
    <2>4. x2 \in FlowRec /\ x2.user = flow[f].user
      BY <2>1, <2>3, SetAttempt
    <2> HIDE DEF x2
    <2>5. x3 \in FlowRec /\ x3.user = flow[f].user /\ x3.pc = check
      BY <2>1, <2>4, SetPc
    <2> HIDE DEF x3
    <2>6. /\ \A g \in Flow : g # f => flow'[g] = flow[g]
          /\ flow'[f].pc = "check" /\ flow'[f].user = flow[f].user
      BY <1>1, <2>2, <2>5, WaitingParts
    <2>7. "check" \in Begun
      BY SMT DEF Begun
    <2>8. Latest(f)'
      BY <1>2, <1>4, <2>6 DEF Latest
    <2>9. QED
      BY <1>4, <2>6, <2>7, <2>8, MoveStep
  <1>5. QED
    BY <1>3, <1>4 DEF Persist

LEMMA LoginAnsweredWants ==
    ASSUME WantInv, NEW f \in Login, LoginAnswered(f)
    PROVE  Trail' /\ Calls'
  <1>1. f \in Flow \ {"boot"} /\ f # "renew" /\ flow[f].pc = "asked"
    BY Flows DEF LoginAnswered
  <1>2. UNCHANGED <<out, backup>>
    BY DEF LoginAnswered
  <1>3. CASE Abandon(f) /\ UNCHANGED <<auth, data, gen, attempt, local, jobs, wanted, lasting>>
    BY <1>1, <1>2, <1>3, EndWants DEF jobs
  <1>4. CASE flow[f].attempt = attempt /\ Persist(f)
    BY <1>1, <1>2, <1>4, PersistWants
  <1>5. QED
    BY <1>3, <1>4 DEF LoginAnswered

LEMMA LoginRefusedWants ==
    ASSUME WantInv, NEW f \in Login, LoginRefused(f)
    PROVE  Trail' /\ Calls'
  BY EndWants, Flows DEF LoginRefused, jobs, disk, ghost

LEMMA RenewAnsweredWants ==
    ASSUME WantInv, RenewAnswered
    PROVE  Trail' /\ Calls'
  <1>1. "renew" \in Flow \ {"boot"} /\ "renew" \notin Login /\ flow["renew"].pc = "asked"
    BY Flows DEF RenewAnswered
  <1>2. UNCHANGED <<out, backup>>
    BY DEF RenewAnswered
  <1>3. CASE Abandon("renew") /\ UNCHANGED <<auth, data, gen, attempt, local, jobs, wanted, lasting>>
    BY <1>1, <1>2, <1>3, EndWants DEF jobs
  <1>4. CASE ~outdated /\ Persist("renew")
    BY <1>1, <1>2, <1>4, PersistWants DEF outdated
  <1>5. QED
    BY <1>3, <1>4 DEF RenewAnswered

LEMMA RenewFailedWants ==
    ASSUME WantInv, RenewFailed
    PROVE  Trail' /\ Calls'
  BY EndWants, Flows DEF RenewFailed, jobs, disk, ghost

-------------------------------------------------------------------------------
(* The record of who is signed in is written once more. *)

LEMMA RecordedWants ==
    ASSUME WantInv, boot.ready, NEW r \in Session, SaveRecord(r), r.user = auth.user,
           r # NoRecord => r.at = boot.clock + 1, local'.record \in {local.record, r},
           auth'.user = auth.user, UNCHANGED <<gen, attempt, out, backup, lasting, wanted>>,
           \A f \in Flow : flow'[f].pc = "saving" => flow'[f] = flow[f],
           \A f \in Flow : Latest(f)'
    PROVE  Trail' /\ Calls'
  <1>1. TypesOK /\ Listed /\ Dated /\ Signing /\ SigningOut /\ auth.user \in lasting
    BY DEF WantInv, IInv, Trail, Listed
  <1>2. boot'.ready = boot.ready
    BY <1>1, Joined
  <1>3. Dated'
    BY <1>1, DatedJoined
  <1>4. Listed'
    BY <1>1, ListedJoined
  <1>5. ASSUME NEW n, NEW u, Names(n, u), r.user = u PROVE Names(n, u)'
    BY <1>1, <1>5, NamesJoined
  <1>6. Signing'
    <2> SUFFICES ASSUME NEW g \in Flow, flow'[g].pc = "saving", flow'[g].gen = gen'
                 PROVE  auth'.user = flow'[g].user /\ Names(flow[g].wait, flow[g].user)'
      BY DEF Signing
    <2>1. flow'[g] = flow[g] /\ auth.user = flow[g].user /\ Names(flow[g].wait, flow[g].user)
      BY <1>1 DEF Signing
    <2>2. \A n, u : n = flow[g].wait /\ u = flow[g].user => Names(n, u)'
      BY <1>5, <2>1
    <2>3. QED
      BY <2>1, <2>2 DEF Names
  <1>7. SigningOut'
    <2> SUFFICES ASSUME out.pc # "idle"
                 PROVE  /\ out.gen = gen /\ auth.user = None
                        /\ out.pc = "saving" => Names(out.records, None)'
      BY DEF SigningOut
    <2>1. /\ out.gen = gen /\ auth.user = None
          /\ out.pc = "saving" => Names(out.records, None)
      BY <1>1 DEF SigningOut
    <2>2. \A n, u : out.pc = "saving" /\ n = out.records /\ u = None => Names(n, u)'
      BY <1>5, <2>1
    <2>3. QED
      BY <2>1, <2>2 DEF Names
  <1>8. Early' /\ SessionIsWanted'
    BY <1>2 DEF WantInv, Calls, Early, SessionIsWanted
  <1>9. QED
    BY <1>3, <1>4, <1>6, <1>7, <1>8 DEF Trail, Calls

(* A sign-in that leaves another account saves that first. *)
LEMMA LoginStartWants ==
    ASSUME WantInv, NEW f \in Login, LoginStart(f)
    PROVE  Trail' /\ Calls'
  <1> DEFINE leaving == auth.user \notin {None, flow[f].user}
             r == record(auth.token, auth.user, FALSE)
             asked == "asked"
             wait == IF leaving THEN Len(recordJobs) + 1 ELSE 0
             x1 == [flow[f] EXCEPT !.pc = asked]
             x2 == [x1 EXCEPT !.gen = gen]
             x3 == [x2 EXCEPT !.wait = wait]
  <1>1. /\ IInv /\ TypesOK /\ Boots /\ f \in Flow /\ f # "renew" /\ f # "boot"
        /\ flow[f].pc = "start" /\ boot.recovered
        /\ UNCHANGED <<auth, gen, attempt, out, backup, wanted, lasting>>
    BY Flows DEF WantInv, IInv, LoginStart, ghost
  <1>2. boot.ready
    BY <1>1 DEF Boots
  <1>3. flow[f] \in FlowRec /\ gen \in Nat /\ asked \in Phase /\ Len(recordJobs) \in Nat
    BY <1>1, SMT DEF TypesOK, Phase
  <1>4. wait \in Nat
    BY <1>3, SMT
  <1>5. flow' = [flow EXCEPT ![f] = x3] /\ asked = "asked"
    BY DEF LoginStart
  <1>6. ASSUME leaving PROVE SaveRecord(r) /\ \E full \in Full : local' = recorded(local, r, full)
    BY <1>6 DEF LoginStart
  <1>7. ASSUME ~leaving PROVE UNCHANGED <<boot, recordJobs, local>>
    BY <1>7 DEF LoginStart
  <1> HIDE DEF asked, wait, r
  <1>8. x1 \in FlowRec /\ x1.pc = asked /\ x1.attempt = flow[f].attempt
    BY <1>3, SetPc
  <1> HIDE DEF x1
  <1>9. x2 \in FlowRec /\ x2.pc = asked /\ x2.attempt = flow[f].attempt
    BY <1>3, <1>8, SetGen
  <1> HIDE DEF x2
  <1>10. x3 \in FlowRec /\ x3.pc = asked /\ x3.attempt = flow[f].attempt
    BY <1>4, <1>9, SetWait
  <1> HIDE DEF x3
  <1>11. /\ \A g \in Flow : g # f => flow'[g] = flow[g]
         /\ flow'[f].pc = "asked" /\ flow'[f].attempt = flow[f].attempt
    <2>1. flow \in [Flow -> FlowRec]
      BY <1>1 DEF TypesOK
    <2>2. QED
      BY <1>1, <1>5, <1>10, <2>1
  <1>12. Latest(f)' /\ "asked" \in Begun
    <2>1. Latest(f) /\ "start" \in Begun /\ "asked" \in Begun
      BY <1>1, SMT DEF WantInv, Calls, Begun
    <2>2. QED
      BY <1>1, <1>11, <2>1 DEF Latest
  <1>13. CASE ~leaving
    BY <1>1, <1>7, <1>11, <1>12, <1>13, MoveStep
  <1>14. CASE leaving
    <2>1. auth.user \in Anyone /\ auth.token \in {None, auth.user} /\ local \in LocalRec
      BY <1>1 DEF TypesOK, AuthRec
    <2>2. r \in Session /\ r.user = auth.user /\ (r # NoRecord => r.at = boot.clock + 1)
      BY <1>1, <2>1, RecordIs DEF r
    <2>3. PICK full \in BOOLEAN : local' = recorded(local, r, full)
      BY <1>6, <1>14 DEF Full
    <2>4. local'.record \in {local.record, r}
      BY <2>1, <2>2, <2>3, RecordKeptIn
    <2>5. \A g \in Flow : flow'[g].pc = "saving" => flow'[g] = flow[g]
      BY <1>11
    <2>6. \A g \in Flow : Latest(g)'
      BY <1>1, <1>11, <1>12, LatestMoves
    <2>7. QED
      BY <1>1, <1>2, <1>6, <1>14, <2>2, <2>4, <2>5, <2>6, RecordedWants
  <1>15. QED
    BY <1>13, <1>14

(* The token is given up. *)
LEMMA GiveUpWants ==
    ASSUME WantInv, boot.ready, GiveUp, UNCHANGED <<gen, attempt, out, backup, lasting, wanted>>,
           \A f \in Flow : flow'[f] = flow[f] \/ flow'[f].pc = "idle"
    PROVE  Trail' /\ Calls'
  <1> DEFINE r == record(None, auth.user, FALSE)
  <1>1. TypesOK /\ auth.user \in Anyone /\ local \in LocalRec /\ "idle" \notin Begun
    BY SMT DEF WantInv, IInv, TypesOK, AuthRec, Begun
  <1>2. auth'.user = auth.user
    BY <1>1, GiveUpParts
  <1>3. SaveRecord(r)
    BY DEF GiveUp
  <1>4. PICK full \in BOOLEAN : local' = recorded(local, r, full)
    BY DEF GiveUp, Full
  <1>5. r \in Session /\ r.user = auth.user /\ (r # NoRecord => r.at = boot.clock + 1)
    BY <1>1, RecordIs
  <1> HIDE DEF r
  <1>6. local'.record \in {local.record, r}
    BY <1>1, <1>4, <1>5, RecordKeptIn
  <1>7. ASSUME NEW g \in Flow PROVE Latest(g)'
    <2>1. Latest(g) /\ Working \subseteq Begun
      BY SMT DEF WantInv, Calls, Working, Begun
    <2>2. CASE flow'[g] = flow[g]
      BY <1>2, <2>1, <2>2 DEF Latest
    <2>3. CASE flow'[g].pc = "idle"
      BY <1>1, <2>1, <2>3 DEF Latest
    <2>4. QED
      BY <2>2, <2>3
  <1>8. \A g \in Flow : flow'[g].pc = "saving" => flow'[g] = flow[g]
    OBVIOUS
  <1>9. QED
    BY <1>2, <1>3, <1>5, <1>6, <1>7, <1>8, RecordedWants

LEMMA RenewRefusedWants ==
    ASSUME WantInv, RenewRefused
    PROVE  Trail' /\ Calls'
  <1>1. IInv /\ TypesOK /\ flow["renew"].pc = "asked" /\ "renew" \in Flow \ {"boot"}
    BY Flows DEF WantInv, IInv, RenewRefused
  <1>2. boot.ready
    BY <1>1, StartedFlow
  <1>3. GiveUp /\ UNCHANGED <<gen, attempt, out, backup, lasting, wanted>>
    BY DEF RenewRefused, ghost
  <1>4. \A f \in Flow : flow'[f] = flow[f] \/ flow'[f].pc = "idle"
    <2>1. flow \in [Flow -> FlowRec] /\ flow' = [flow EXCEPT !["renew"] = Idle] /\ Idle.pc = "idle"
      BY <1>1, IdleParts DEF TypesOK, RenewRefused
    <2>2. QED
      BY <1>1, <2>1
  <1>5. QED
    BY <1>2, <1>3, <1>4, GiveUpWants

(* A renewal begins. *)
LEMMA RenewingWants ==
    ASSUME WantInv, flow' = [flow EXCEPT !["renew"] = renewing],
           UNCHANGED <<auth, gen, attempt, boot, out, recordJobs, local, backup, lasting, wanted>>
    PROVE  Trail' /\ Calls'
  <1>1. TypesOK /\ "renew" \in Flow /\ "renew" \notin Login
    BY Flows DEF WantInv, IInv
  <1>2. /\ \A g \in Flow : g # "renew" => flow'[g] = flow[g]
        /\ flow'["renew"].pc = "asked" /\ flow'["renew"].user = auth.user
    <2>1. flow \in [Flow -> FlowRec]
      BY <1>1 DEF TypesOK
    <2>2. flow'["renew"] = renewing /\ \A g \in Flow : g # "renew" => flow'[g] = flow[g]
      BY <1>1, <2>1
    <2>3. QED
      BY <1>1, <2>2, RenewingParts
  <1>3. Latest("renew")' /\ "asked" \in Begun
    BY <1>1, <1>2, SMT DEF Latest, Begun
  <1>4. QED
    BY <1>1, <1>2, <1>3, MoveStep

LEMMA RenewStartWants ==
    ASSUME WantInv, RenewStart
    PROVE  Trail' /\ Calls'
  BY RenewingWants DEF RenewStart, memory, jobs, disk, ghost

LEMMA PushRejectedWants ==
    ASSUME WantInv, PushRejected
    PROVE  Trail' /\ Calls'
  <1>1. /\ IInv /\ TypesOK /\ Boots /\ push.pc = "sent"
        /\ UNCHANGED <<gen, attempt, out, backup, wanted, lasting>>
    BY DEF WantInv, IInv, PushRejected, ghost
  <1>2. CASE UNCHANGED <<auth, boot, flow, local, recordJobs, budget>>
    BY <1>1, <1>2, SameStep
  <1>3. CASE /\ flow' = [flow EXCEPT !["renew"] = renewing]
             /\ UNCHANGED <<auth, boot, local, recordJobs>>
    BY <1>1, <1>3, RenewingWants
  <1>4. CASE GiveUp /\ UNCHANGED <<flow, budget>>
    <2>1. boot.ready
      BY <1>1 DEF IInv, Pushes, Boots
    <2>2. QED
      BY <1>1, <1>4, <2>1, GiveUpWants
  <1>5. QED
    BY <1>2, <1>3, <1>4 DEF PushRejected

-------------------------------------------------------------------------------
(* What the session store says, and what a sign-in or a sign-out promises.   *)

(* The record of a sign-in is saved: nobody else is left signed in. *)
LEMMA SavedWants ==
    ASSUME WantInv, NEW f \in Flow, Saved(f)
    PROVE  Trail' /\ Calls'
  <1>1. /\ IInv /\ TypesOK /\ Boots /\ Listed /\ Dated /\ Signing /\ SigningOut
        /\ flow[f].pc = "saving" /\ flow[f].wait = 0
        /\ UNCHANGED <<auth, data, gen, attempt, boot, out, recordJobs, local, backup, wanted>>
    BY DEF WantInv, IInv, Trail, Saved, memory, jobs, disk
  <1>2. f # "boot" /\ boot.ready
    BY <1>1, StartedFlow DEF Boots
  <1>3. /\ flow'[f].pc = "idle" /\ \A g \in Flow : g # f => flow'[g] = flow[g]
    <2>1. flow \in [Flow -> FlowRec] /\ flow' = [flow EXCEPT ![f] = Idle] /\ Idle.pc = "idle"
      BY <1>1, IdleParts DEF TypesOK, Saved
    <2>2. QED
      BY <2>1
  <1>4. CASE lasting' = lasting
    BY <1>1, <1>3, <1>4, MoveStep
  <1>5. ASSUME gen = flow[f].gen, lasting' = {flow[f].user}
        PROVE  Trail' /\ Calls'
    <2>1. auth.user = flow[f].user /\ Names(0, flow[f].user)
      BY <1>1, <1>5 DEF Signing
    <2>2. Listed'
      <3>1. \A i \in 1..Len(recordJobs) : recordJobs[i].user = flow[f].user
        <4>1. \A i \in 1..Len(recordJobs) : i >= 0
          BY SMT
        <4>2. QED
          BY <2>1, <4>1 DEF Names
      <3>2. QED
        BY <1>1, <1>5, <2>1, <3>1 DEF Listed, Names
    <2>3. Dated'
      BY <1>1 DEF Dated
    <2>4. Signing'
      <3> SUFFICES ASSUME NEW g \in Flow, flow'[g].pc = "saving", flow'[g].gen = gen'
                   PROVE  auth'.user = flow'[g].user /\ Names(flow[g].wait, flow[g].user)'
        BY DEF Signing
      <3>1. flow'[g] = flow[g] /\ auth.user = flow[g].user /\ Names(flow[g].wait, flow[g].user)
        BY <1>1, <1>3 DEF Signing
      <3>2. QED
        BY <1>1, <3>1 DEF Names
    <2>5. SigningOut'
      BY <1>1 DEF SigningOut, Names
    <2>6. Early' /\ SessionIsWanted'
      BY <1>1, <1>2 DEF WantInv, Calls, Early, SessionIsWanted
    <2>7. \A g \in Flow : Latest(g)'
      <3>1. "idle" \notin Begun
        BY SMT DEF Begun
      <3>2. QED
        BY <1>1, <1>3, <3>1, LatestMoves
    <2>8. QED
      BY <2>2, <2>3, <2>4, <2>5, <2>6, <2>7 DEF Trail, Calls
  <1>6. QED
    BY <1>4, <1>5 DEF Saved

(* Whoever signs in next is wanted too. *)
LEMMA SignInWants ==
    ASSUME WantInv, ~Hasty, NEW f \in Login, NEW u \in Account, SignIn(f, u)
    PROVE  Trail' /\ Calls'
  <1>1. /\ TypesOK /\ Trail /\ Early /\ SessionIsWanted /\ out.pc = "idle"
        /\ UNCHANGED <<auth, data, gen, boot, out, recordJobs, local, backup, lasting>>
        /\ wanted' = (IF boot.ready THEN {auth.user} ELSE wanted) \cup {u}
    BY DEF WantInv, IInv, Calls, SignIn, jobs, disk
  <1>2. flow'[f].pc = "start" /\ \A g \in Flow : g # f => flow'[g] = flow[g]
    <2> DEFINE x1 == [Starting EXCEPT !.user = u]
               x2 == [x1 EXCEPT !.attempt = attempt + 1]
    <2>1. attempt + 1 \in Nat /\ u \in Anyone /\ flow \in [Flow -> FlowRec] /\ f \in Flow
      BY <1>1, Flows DEF TypesOK, Anyone
    <2>2. flow' = [flow EXCEPT ![f] = x2]
      BY DEF SignIn
    <2>3. x1 \in FlowRec /\ x1.pc = "start"
      BY <2>1, IdleParts, SetUser
    <2> HIDE DEF x1
    <2>4. x2 \in FlowRec /\ x2.pc = "start"
      BY <2>1, <2>3, SetAttempt
    <2> HIDE DEF x2
    <2>5. QED
      BY <2>1, <2>2, <2>4
  <1>3. Quiet
    BY <1>1, <1>2 DEF Quiet
  <1>4. Trail'
    BY <1>1, <1>3, QuietTrail
  <1>5. Early' /\ SessionIsWanted'
    BY <1>1 DEF Early, SessionIsWanted
  <1>6. ASSUME NEW g \in Flow PROVE Latest(g)'
    <2>1. g = "renew" => flow'[g] = flow[g]
      BY <1>2, Flows
    <2>2. QED
      BY <1>1, <2>1 DEF WantInv, Calls, Latest
  <1>7. QED
    BY <1>4, <1>5, <1>6 DEF Calls

(* The tombstone. *)
LEMMA Tombstone ==
    ASSUME TypesOK
    PROVE  LET r == record(None, None, TRUE) IN
           r \in Session /\ r.user = None /\ r # NoRecord /\ r.at = boot.clock + 1
  <1>1. None \in Anyone /\ TRUE \in BOOLEAN
    BY DEF Anyone
  <1>2. QED
    BY <1>1, RecordIs

LEMMA OutIs ==
    ASSUME NEW o \in OutRec, NEW records \in Nat, NEW yes \in BOOLEAN
    PROVE  LET e == [o EXCEPT !.pc = "saving", !.ok = yes, !.records = records] IN
           e.pc = "saving" /\ e.records = records /\ e.gen = o.gen
  <1>1. "saving" \in {"idle", "start", "saving"}
    OBVIOUS
  <1>2. QED
    BY <1>1 DEF OutRec

(* Everybody who was there before a sign-out is out of date. *)
LEMMA SignOutWants ==
    ASSUME WantInv, SignOut
    PROVE  Trail' /\ Calls'
  <1> DEFINE r == record(None, None, TRUE)
             l == [local EXCEPT !.record = NoRecord]
             left == [NoOut EXCEPT !.gen = gen + 1, !.stores = checkpointed]
             n == Len(recordJobs) + 1
  <1>1. /\ IInv /\ TypesOK /\ Listed /\ Dated /\ Early
        /\ gen' = gen + 1 /\ attempt' = attempt + 1 /\ auth' = [token |-> None, user |-> None]
        /\ wanted' = {None} /\ lasting' = lasting \cup {None}
        /\ UNCHANGED <<flow, push, store, backup>>
    BY DEF WantInv, IInv, Trail, Calls, SignOut
  <1>2. /\ gen \in Nat /\ attempt \in Nat /\ local \in LocalRec /\ auth'.user = None
        /\ \A g \in Flow : flow[g].gen # gen' /\ flow[g].attempt # attempt'
    <2>1. gen \in Nat /\ attempt \in Nat /\ local \in LocalRec /\ auth'.user = None
      BY <1>1 DEF TypesOK
    <2>2. ASSUME NEW g \in Flow PROVE flow[g].gen # gen' /\ flow[g].attempt # attempt'
      <3>1. /\ flow[g].gen \in Nat /\ flow[g].attempt \in Nat
            /\ flow[g].gen <= gen /\ flow[g].attempt <= attempt
        BY <1>1 DEF IInv, Clocks, Clock, TypesOK, FlowRec
      <3>2. QED
        BY <1>1, <2>1, <3>1, SMT
    <2>3. QED
      BY <2>1, <2>2
  <1>3. l.record = NoRecord /\ l \in LocalRec
    <2>1. NoRecord \in Session
      BY <1>1, RecordParts DEF Anyone
    <2>2. QED
      BY <1>2, <2>1 DEF LocalRec
  <1>4. left \in OutRec /\ left.gen = gen + 1
    <2>1. gen + 1 \in Nat /\ checkpointed \in Nat
      BY <1>1, <1>2, CheckpointParts
    <2>2. NoOut \in OutRec
      BY DEF NoOut, OutRec
    <2>3. QED
      BY <2>1, <2>2 DEF OutRec
  <1>5. Signing'
    BY <1>1, <1>2 DEF Signing
  <1>6. \A g \in Flow : Latest(g)'
    BY <1>1, <1>2 DEF Latest
  <1>7. SessionIsWanted'
    BY <1>1, <1>2 DEF SessionIsWanted
  <1>8. CASE boot.ready
    <2>1. SaveRecord(r)
      BY <1>8 DEF SignOut
    <2>2. PICK full \in BOOLEAN : /\ local' = recorded(l, r, full)
                                  /\ out' = [left EXCEPT !.pc = "saving", !.ok = ~full, !.records = n]
      BY <1>8 DEF SignOut, Full
    <2>3. r \in Session /\ r.user = None /\ r # NoRecord /\ r.at = boot.clock + 1
      BY <1>1, Tombstone
    <2> HIDE DEF r, l, left
    <2>4. local'.record \in {NoRecord, r}
      BY <1>3, <2>2, <2>3, RecordKeptIn
    <2>5. boot'.ready /\ n \in Nat
      BY <1>1, <1>8, <2>1, <2>3, Joined
    <2>6. Dated'
      BY <1>1, <1>8, <2>1, <2>3, <2>4, DatedJoined
    <2>7. Listed'
      BY <1>1, <1>2, <2>1, <2>3, <2>4, ListedJoined
    <2>8. \A m, v : m = n /\ v = None => Names(m, v)'
      BY <1>1, <2>1, <2>3, <2>4, NamesLast
    <2>9. out'.pc = "saving" /\ out'.records = n /\ out'.gen = gen + 1
      <3> HIDE DEF n
      <3>1. (~full) \in BOOLEAN
        OBVIOUS
      <3>2. QED
        BY <1>4, <2>2, <2>5, <3>1, OutIs
    <2>10. SigningOut'
      BY <1>1, <1>2, <2>8, <2>9 DEF SigningOut, Names
    <2>11. Early'
      BY <2>5 DEF Early
    <2>12. QED
      BY <1>5, <1>6, <1>7, <2>6, <2>7, <2>10, <2>11 DEF Trail, Calls
  <1>9. CASE ~boot.ready
    <2>1. /\ local' = l /\ out' = [left EXCEPT !.pc = "start"] /\ UNCHANGED <<boot, recordJobs>>
      BY <1>9 DEF SignOut
    <2> HIDE DEF l, left
    <2>2. out'.pc = "start" /\ out'.gen = gen + 1
      BY <1>4, <2>1 DEF OutRec
    <2>3. NoRecord.user = None /\ NoRecord.at = -1
      BY DEF NoRecord
    <2>4. Listed'
      BY <1>1, <1>3, <1>9, <2>1, <2>3 DEF Listed
    <2>5. Dated'
      <3>1. -1 <= boot.clock
        BY <1>1, SMT DEF TypesOK, BootRec
      <3>2. QED
        BY <1>1, <1>3, <1>9, <2>1, <2>3, <3>1 DEF Dated
    <2>6. SigningOut'
      BY <1>1, <1>2, <2>2 DEF SigningOut
    <2>7. Early'
      <3>1. gen' # 0
        BY <1>1, <1>2, SMT
      <3>2. QED
        BY <1>1, <1>2, <1>9, <2>1, <2>2, <3>1 DEF Early
    <2>8. QED
      BY <1>5, <1>6, <1>7, <2>4, <2>5, <2>6, <2>7 DEF Trail, Calls
  <1>10. QED
    BY <1>8, <1>9

LEMMA SignOutRecordWants ==
    ASSUME WantInv, SignOutRecord
    PROVE  Trail' /\ Calls'
  <1> DEFINE r == record(None, None, TRUE)
             n == Len(recordJobs) + 1
  <1>1. /\ IInv /\ TypesOK /\ Listed /\ Dated /\ Signing /\ SigningOut /\ boot.ready
        /\ out.pc = "start" /\ local \in LocalRec /\ out \in OutRec
        /\ UNCHANGED <<auth, gen, attempt, flow, backup, wanted, lasting>>
    BY DEF WantInv, IInv, Trail, SignOutRecord, ghost, TypesOK
  <1>2. SaveRecord(r)
    BY DEF SignOutRecord
  <1>3. PICK full \in BOOLEAN : /\ local' = recorded(local, r, full)
                                /\ out' = [out EXCEPT !.pc = "saving", !.ok = ~full, !.records = n]
    BY DEF SignOutRecord, Full
  <1>4. r \in Session /\ r.user = None /\ r # NoRecord /\ r.at = boot.clock + 1
    BY <1>1, Tombstone
  <1> HIDE DEF r
  <1>5. local'.record \in {local.record, r}
    BY <1>1, <1>3, <1>4, RecordKeptIn
  <1>6. boot'.ready /\ n \in Nat
    BY <1>1, <1>2, <1>4, Joined
  <1>7. auth.user = None /\ out.gen = gen
    BY <1>1 DEF SigningOut
  <1>8. None \in lasting
    BY <1>1, <1>7 DEF Listed
  <1>9. Dated'
    BY <1>1, <1>2, <1>4, <1>5, DatedJoined
  <1>10. Listed'
    BY <1>1, <1>2, <1>4, <1>5, <1>7, <1>8, ListedJoined
  <1>11. Signing'
    <2> SUFFICES ASSUME NEW g \in Flow, flow'[g].pc = "saving", flow'[g].gen = gen'
                 PROVE  auth'.user = flow'[g].user /\ Names(flow[g].wait, flow[g].user)'
      BY DEF Signing
    <2>1. auth.user = flow[g].user /\ Names(flow[g].wait, flow[g].user)
      BY <1>1 DEF Signing
    <2>2. \A m, v : m = flow[g].wait /\ v = flow[g].user => Names(m, v)'
      BY <1>1, <1>2, <1>4, <1>5, <1>7, <2>1, NamesJoined
    <2>3. QED
      BY <1>1, <2>1, <2>2 DEF Names
  <1>12. \A m, v : m = n /\ v = None => Names(m, v)'
    BY <1>1, <1>2, <1>4, <1>5, NamesLast
  <1>13. out'.pc = "saving" /\ out'.records = n /\ out'.gen = out.gen
    <2> HIDE DEF n
    <2>1. (~full) \in BOOLEAN
      OBVIOUS
    <2>2. QED
      BY <1>1, <1>3, <1>6, <2>1, OutIs
  <1>14. SigningOut'
    BY <1>1, <1>7, <1>12, <1>13 DEF SigningOut, Names
  <1>15. Early' /\ SessionIsWanted'
    BY <1>1, <1>6 DEF WantInv, Calls, Early, SessionIsWanted
  <1>16. \A g \in Flow : Latest(g)'
    BY <1>1 DEF WantInv, Calls, Latest
  <1>17. QED
    BY <1>9, <1>10, <1>11, <1>14, <1>15, <1>16 DEF Trail, Calls

(* A sign-out is saved: nobody is left signed in. *)
LEMMA SignOutDoneWants ==
    ASSUME WantInv, SignOutDone
    PROVE  Trail' /\ Calls'
  <1>1. /\ Listed /\ Dated /\ Signing /\ SigningOut /\ Early
        /\ out.pc = "saving" /\ out.records = 0
        /\ UNCHANGED <<auth, gen, attempt, boot, flow, recordJobs, local, backup, wanted>>
        /\ lasting' \in {lasting, {None}}
    BY DEF WantInv, Trail, Calls, SignOutDone, memory, jobs, disk
  <1>2. auth.user = None /\ Names(0, None) /\ boot.ready
    BY <1>1 DEF SigningOut, Early
  <1>3. out'.pc = "idle"
    BY DEF SignOutDone, NoOut
  <1>4. Listed'
    <2>1. CASE lasting' = lasting
      BY <1>1, <2>1 DEF Listed
    <2>2. CASE lasting' = {None}
      <3>1. \A i \in 1..Len(recordJobs) : i >= 0
        BY SMT
      <3>2. QED
        BY <1>1, <1>2, <2>2, <3>1 DEF Listed, Names
    <2>3. QED
      BY <1>1, <2>1, <2>2
  <1>5. Dated' /\ SigningOut'
    BY <1>1, <1>3 DEF Dated, SigningOut
  <1>6. Signing'
    <2> SUFFICES ASSUME NEW g \in Flow, flow'[g].pc = "saving", flow'[g].gen = gen'
                 PROVE  auth'.user = flow'[g].user /\ Names(flow[g].wait, flow[g].user)'
      BY DEF Signing
    <2>1. auth.user = flow[g].user /\ Names(flow[g].wait, flow[g].user)
      BY <1>1 DEF Signing
    <2>2. QED
      BY <1>1, <2>1 DEF Names
  <1>7. Early' /\ SessionIsWanted'
    BY <1>1, <1>2 DEF WantInv, Calls, Early, SessionIsWanted
  <1>8. \A g \in Flow : Latest(g)'
    BY <1>1, <1>3 DEF WantInv, Calls, Latest
  <1>9. QED
    BY <1>4, <1>5, <1>6, <1>7, <1>8 DEF Trail, Calls

-------------------------------------------------------------------------------
(* The disk, the start of the app, and its end. *)

(* The session store's record counts when it is newer. *)
LEMMA SessionReadWants ==
    ASSUME WantInv, SessionRead
    PROVE  Trail' /\ Calls'
  <1>1. /\ IInv /\ TypesOK /\ Boots /\ Listed /\ Dated /\ SigningOut /\ Early /\ ~boot.ready
        /\ recordJobs = <<>> /\ out.pc # "saving"
        /\ UNCHANGED <<gen, attempt, flow, out, recordJobs, local, backup, wanted, lasting>>
    BY DEF WantInv, IInv, Trail, Calls, Early, SessionRead, jobs, disk, ghost
  <1>2. boot'.ready /\ backup.at <= boot'.clock /\ local.record.at <= boot'.clock
    <2> DEFINE clock == IF backup.at > boot.clock THEN backup.at ELSE boot.clock
    <2>1. boot \in BootRec /\ backup.at \in Int /\ boot.clock \in Int /\ local.record.at \in Int
      BY <1>1 DEF TypesOK, BootRec, Session, Record, LocalRec
    <2>2. boot' = [boot EXCEPT !.ready = TRUE, !.clock = clock]
      BY DEF SessionRead
    <2>3. backup.at <= clock /\ local.record.at <= clock
      BY <1>1, <2>1, SMT DEF Dated
    <2> HIDE DEF clock
    <2>4. boot'.ready /\ boot'.clock = clock
      BY <2>1, <2>2 DEF BootRec
    <2>5. QED
      BY <2>3, <2>4
  <1>3. /\ auth'.user \in lasting /\ auth'.user \in wanted
        /\ gen # 0 => auth'.user = None
    <2>1. CASE gen = 0 /\ backup.at > local.record.at
      <3>1. auth'.user = backup.user
        BY <2>1 DEF SessionRead
      <3>2. QED
        BY <1>1, <2>1, <3>1 DEF Listed, Early
    <2>2. CASE gen = 0 /\ ~(backup.at > local.record.at)
      <3>1. auth' = auth
        BY <2>2 DEF SessionRead
      <3>2. backup.at \in Int /\ local.record.at \in Int
        BY <1>1 DEF TypesOK, Session, Record, LocalRec
      <3>3. ~(local.record.at < backup.at)
        BY <2>2, <3>2, SMT
      <3>4. QED
        BY <1>1, <2>2, <3>1, <3>3 DEF Listed, Early
    <2>3. CASE gen # 0
      BY <1>1, <2>3 DEF SessionRead, Early
    <2>4. QED
      BY <2>1, <2>2, <2>3
  <1>4. \A i \in 1..Len(recordJobs) : FALSE
    BY <1>1, SMT
  <1>5. \A g \in Flow : flow[g].pc # "saving" /\ (g # "boot" => flow[g].pc \in {"idle", "start"})
    BY <1>1 DEF Boots
  <1>6. Listed'
    BY <1>1, <1>3, <1>4 DEF Listed
  <1>7. Dated'
    BY <1>1, <1>2, <1>4 DEF Dated
  <1>8. Signing'
    BY <1>1, <1>5 DEF Signing
  <1>9. SigningOut'
    <2>1. out.pc # "idle" => gen # 0
      BY <1>1 DEF Early
    <2>2. QED
      BY <1>1, <1>3, <2>1 DEF SigningOut
  <1>10. Early' /\ SessionIsWanted'
    BY <1>1, <1>2, <1>3 DEF Early, SessionIsWanted
  <1>11. ASSUME NEW g \in Flow PROVE Latest(g)'
    <2>1. Latest(g) /\ "idle" \notin Working /\ "start" \notin Working
      BY SMT DEF WantInv, Calls, Working
    <2>2. g = "renew" => flow[g].pc \notin Working
      BY <1>5, <2>1, Flows
    <2>3. QED
      BY <1>1, <2>1, <2>2 DEF Latest
  <1>12. QED
    BY <1>6, <1>7, <1>8, <1>9, <1>10, <1>11 DEF Trail, Calls

(* What waited for the n-th write waits for the one before it now. *)
LEMMA NamesWritten ==
    ASSUME TypesOK, Dated, recordJobs # <<>>, recordJobs' = Tail(recordJobs),
           backup' = Head(recordJobs), local' = local, NEW n, NEW u, Names(n, u),
           NEW m, m = sooner(n)
    PROVE  Names(m, u)'
  <1>1. recordJobs \in Seq(Session)
    BY DEF TypesOK
  <1>2. /\ Len(recordJobs) \in Nat /\ Len(recordJobs) >= 1 /\ Len(recordJobs') = Len(recordJobs) - 1
        /\ Head(recordJobs) = recordJobs[1]
        /\ \A i \in 1..Len(recordJobs') : i + 1 \in 1..Len(recordJobs) /\ recordJobs'[i] = recordJobs[i + 1]
    BY <1>1, SMT
  <1>3. /\ n \in 0..Len(recordJobs)
        /\ \A i \in 1..Len(recordJobs) : i >= n => recordJobs[i].user = u
        /\ n = 0 => backup.user = u /\ (local.record.user = u \/ local.record.at < backup.at)
        /\ n # 0 => local.record.user = u \/ local.record.at < recordJobs[n].at
    BY DEF Names
  <1>4. /\ m \in 0..Len(recordJobs') /\ 1 \in 1..Len(recordJobs)
        /\ m = 0 => n = 0 \/ n = 1
        /\ m # 0 => m \in 1..Len(recordJobs') /\ n = m + 1 /\ n # 0
        /\ m = 0 => 1 >= n
    BY <1>2, <1>3, SMT DEF sooner
  <1>5. \A i \in 1..Len(recordJobs') : i >= m => recordJobs'[i].user = u
    <2> SUFFICES ASSUME NEW i \in 1..Len(recordJobs'), i >= m PROVE recordJobs'[i].user = u
      OBVIOUS
    <2>1. i + 1 >= n
      BY <1>2, <1>3, <1>4, SMT
    <2>2. QED
      BY <1>2, <1>3, <2>1
  <1>6. ASSUME m = 0
        PROVE  backup'.user = u /\ (local'.record.user = u \/ local'.record.at < backup'.at)
    <2>1. backup' = recordJobs[1] /\ backup'.user = u
      BY <1>2, <1>3, <1>4, <1>6
    <2>2. backup.at < backup'.at
      BY <1>4, <2>1 DEF Dated
    <2>3. local.record.at \in Int /\ backup.at \in Int /\ backup'.at \in Int
      BY <1>1, <1>4, <2>1 DEF TypesOK, LocalRec, Session, Record
    <2>4. CASE n = 0
      BY <1>3, <2>1, <2>2, <2>3, <2>4, SMT
    <2>5. CASE n = 1
      BY <1>3, <2>1, <2>5
    <2>6. QED
      BY <1>4, <1>6, <2>4, <2>5
  <1>7. m # 0 => local'.record.user = u \/ local'.record.at < recordJobs'[m].at
    BY <1>2, <1>3, <1>4
  <1>8. QED
    BY <1>4, <1>5, <1>6, <1>7 DEF Names

(* Records reach the session store in the order they were made in. *)
LEMMA RecordWriteWants ==
    ASSUME WantInv, ~IdbMayFail, RecordWrite
    PROVE  Trail' /\ Calls'
  <1>1. /\ TypesOK /\ Listed /\ Dated /\ Signing /\ SigningOut /\ Early /\ SessionIsWanted
        /\ recordJobs # <<>> /\ recordJobs' = Tail(recordJobs) /\ backup' = Head(recordJobs)
        /\ UNCHANGED <<auth, gen, attempt, boot, local, wanted, lasting>>
        /\ recordJobs \in Seq(Session)
    BY DEF WantInv, IInv, Trail, Calls, RecordWrite, Lost, memory, ghost, TypesOK
  <1>2. \A f \in Flow :
           /\ flow'[f].pc = flow[f].pc /\ flow'[f].user = flow[f].user
           /\ flow'[f].gen = flow[f].gen /\ flow'[f].attempt = flow[f].attempt
           /\ flow[f].pc = "saving" => flow'[f].wait = sooner(flow[f].wait)
    <2> SUFFICES ASSUME NEW f \in Flow
                 PROVE  /\ flow'[f].pc = flow[f].pc /\ flow'[f].user = flow[f].user
                        /\ flow'[f].gen = flow[f].gen /\ flow'[f].attempt = flow[f].attempt
                        /\ flow[f].pc = "saving" => flow'[f].wait = sooner(flow[f].wait)
      OBVIOUS
    <2>1. PICK yes \in BOOLEAN : flow'[f] =
              IF flow[f].pc \in {"asked", "saving"}
              THEN [flow[f] EXCEPT !.wait = sooner(flow[f].wait), !.ok = yes] ELSE flow[f]
      <3>1. \A lost \in Lost : (flow[f].ok \/ (flow[f].wait = 1 /\ ~lost)) \in BOOLEAN
        OBVIOUS
      <3>2. QED
        BY <3>1 DEF RecordWrite
    <2>2. flow[f] \in FlowRec /\ sooner(flow[f].wait) \in Nat
      BY <1>1, SoonerParts DEF TypesOK, FlowRec
    <2>3. QED
      BY <2>1, <2>2 DEF FlowRec
  <1>3. out'.pc = out.pc /\ out'.gen = out.gen /\ out'.records = sooner(out.records)
    <2>1. PICK yes \in BOOLEAN : out' = [out EXCEPT !.records = sooner(out.records), !.ok = yes]
      <3>1. \A lost \in Lost : (out.ok \/ (out.records = 1 /\ ~lost)) \in BOOLEAN
        OBVIOUS
      <3>2. QED
        BY <3>1 DEF RecordWrite
    <2>2. out \in OutRec /\ sooner(out.records) \in Nat
      BY <1>1, SoonerParts DEF TypesOK, OutRec
    <2>3. QED
      BY <2>1, <2>2 DEF OutRec
  <1>4. /\ Len(recordJobs) \in Nat /\ 1 \in 1..Len(recordJobs) /\ backup' = recordJobs[1]
        /\ \A i \in 1..Len(recordJobs') : i + 1 \in 1..Len(recordJobs) /\ recordJobs'[i] = recordJobs[i + 1]
    BY <1>1, SMT
  <1>5. Listed'
    <2>1. backup'.user \in lasting /\ \A i \in 1..Len(recordJobs') : recordJobs'[i].user \in lasting
      BY <1>1, <1>4 DEF Listed
    <2>2. backup.at < backup'.at
      BY <1>1, <1>4 DEF Dated
    <2>3. backup.at \in Int /\ backup'.at \in Int /\ local.record.at \in Int
      BY <1>1, <1>4 DEF TypesOK, Session, Record, LocalRec
    <2>4. local.record.user \in lasting \/ local.record.at < backup'.at
      BY <1>1, <2>2, <2>3, SMT DEF Listed
    <2>5. QED
      BY <1>1, <2>1, <2>4 DEF Listed
  <1>6. Dated'
    <2>1. ASSUME NEW i \in 1..Len(recordJobs')
          PROVE  backup'.at < recordJobs'[i].at /\ recordJobs'[i].at <= boot.clock
      <3>1. 1 < i + 1
        BY SMT
      <3>2. QED
        BY <1>1, <1>4, <3>1 DEF Dated
    <2>2. ASSUME NEW i \in 1..Len(recordJobs'), NEW j \in 1..Len(recordJobs'), i < j
          PROVE  recordJobs'[i].at < recordJobs'[j].at
      <3>1. i + 1 < j + 1
        BY <2>2, SMT
      <3>2. QED
        BY <1>1, <1>4, <3>1 DEF Dated
    <2>3. QED
      BY <1>1, <1>4, <2>1, <2>2 DEF Dated
  <1>7. \A n, u, m : Names(n, u) /\ m = sooner(n) => Names(m, u)'
    BY <1>1, NamesWritten
  <1>8. Signing'
    <2> SUFFICES ASSUME NEW g \in Flow, flow'[g].pc = "saving", flow'[g].gen = gen'
                 PROVE  auth'.user = flow'[g].user /\ Names(flow[g].wait, flow[g].user)'
      BY DEF Signing
    <2>1. auth.user = flow[g].user /\ Names(flow[g].wait, flow[g].user)
      BY <1>1, <1>2 DEF Signing
    <2>2. \A m, u : m = flow'[g].wait /\ u = flow'[g].user => Names(m, u)'
      BY <1>2, <1>7, <2>1
    <2>3. QED
      BY <1>1, <1>2, <2>1, <2>2 DEF Names
  <1>9. SigningOut'
    <2> SUFFICES ASSUME out.pc # "idle"
                 PROVE  /\ out'.gen = gen' /\ auth'.user = None
                        /\ out'.pc = "saving" => Names(out.records, None)'
      BY <1>3 DEF SigningOut
    <2>1. /\ out.gen = gen /\ auth.user = None
          /\ out.pc = "saving" => Names(out.records, None)
      BY <1>1 DEF SigningOut
    <2>2. \A m, u : out.pc = "saving" /\ m = out'.records /\ u = None => Names(m, u)'
      BY <1>3, <1>7, <2>1
    <2>3. QED
      BY <1>1, <1>3, <2>1, <2>2 DEF Names
  <1>10. Early' /\ SessionIsWanted'
    BY <1>1 DEF Early, SessionIsWanted
  <1>11. \A g \in Flow : Latest(g)'
    BY <1>1, <1>2, <1>3 DEF WantInv, Calls, Latest
  <1>12. QED
    BY <1>5, <1>6, <1>8, <1>9, <1>10, <1>11 DEF Trail, Calls

(* The account store. *)
LEMMA StoreWriteWants ==
    ASSUME WantInv, StoreWrite
    PROVE  Trail' /\ Calls'
  <1>1. /\ TypesOK
        /\ flow' = [f \in Flow |-> IF flow[f].pc \in {"check", "switch"}
                                   THEN [flow[f] EXCEPT !.wait = sooner(flow[f].wait)] ELSE flow[f]]
        /\ out' = [out EXCEPT !.stores = sooner(out.stores)]
        /\ UNCHANGED <<auth, gen, attempt, boot, recordJobs, local, backup, wanted, lasting>>
    BY DEF WantInv, IInv, StoreWrite, memory
  <1>2. \A f \in Flow :
           /\ flow'[f].pc = flow[f].pc /\ flow'[f].user = flow[f].user
           /\ flow'[f].gen = flow[f].gen /\ flow'[f].attempt = flow[f].attempt
           /\ flow[f].pc = "saving" => flow'[f] = flow[f]
    BY <1>1 DEF TypesOK, FlowRec
  <1>3. out'.pc = out.pc /\ out'.gen = out.gen /\ out'.records = out.records
    BY <1>1 DEF TypesOK, OutRec
  <1>4. Quiet
    BY <1>1, <1>2, <1>3 DEF Quiet
  <1>5. \A g \in Flow : Latest(g)'
    BY <1>1, <1>2, <1>3 DEF WantInv, Calls, Latest
  <1>6. QED
    BY <1>1, <1>4, <1>5, QuietStep

(* A kill leaves who the newer record names. *)
LEMMA KillWants ==
    ASSUME WantInv, Kill
    PROVE  Trail' /\ Calls'
  <1>1. /\ TypesOK /\ Listed /\ local \in LocalRec /\ local.record.at \in Int
        /\ auth'.user = local.record.user
        /\ gen' = 0 /\ attempt' = 0 /\ boot' = freshBoot /\ flow' = freshFlow
        /\ out' = NoOut /\ recordJobs' = <<>> /\ wanted' = lasting
        /\ UNCHANGED <<local, backup, lasting>>
    BY DEF WantInv, IInv, Trail, Kill, disk, TypesOK, LocalRec, Session, Record
  <1>2. ~boot'.ready /\ out'.pc = "idle" /\ \A i \in 1..Len(recordJobs') : FALSE
    BY <1>1, FreshParts, SMT DEF NoOut
  <1>3. local.record.at <= boot'.clock
    BY <1>1, SMT DEF freshBoot
  <1>4. \A g \in Flow : flow'[g].pc # "saving" /\ (g # "boot" => flow'[g].pc = "idle")
    BY <1>1, FreshParts, IdleParts
  <1>5. Listed'
    BY <1>1, <1>2 DEF Listed
  <1>6. Dated'
    BY <1>1, <1>2, <1>3 DEF Dated
  <1>7. Signing' /\ SigningOut'
    BY <1>2, <1>4 DEF Signing, SigningOut
  <1>8. Early' /\ SessionIsWanted'
    BY <1>1, <1>2 DEF Early, SessionIsWanted
  <1>9. ASSUME NEW g \in Flow PROVE Latest(g)'
    <2>1. "idle" \notin Begun /\ "idle" \notin Working
      BY SMT DEF Begun, Working
    <2>2. QED
      BY <1>4, <2>1, Flows DEF Latest
  <1>10. QED
    BY <1>5, <1>6, <1>7, <1>8, <1>9 DEF Trail, Calls

(* Writing and sending touch no record. *)
LEMMA EnqueueWants ==
    ASSUME WantInv, NEW queue, PersistQueue(queue),
           UNCHANGED <<auth, gen, attempt, boot, flow, out, recordJobs, backup, lasting, wanted>>
    PROVE  Trail' /\ Calls'
  <1>1. local \in LocalRec
    BY DEF WantInv, IInv, TypesOK
  <1>2. local'.record = local.record
    BY <1>1 DEF PersistQueue, LocalRec
  <1>3. QED
    BY <1>2, SameStep

LEMMA PushAnsweredWants ==
    ASSUME WantInv, PushAnswered
    PROVE  Trail' /\ Calls'
  <1>1. UNCHANGED <<auth, gen, attempt, boot, flow, out, recordJobs, backup, lasting, wanted>>
    BY DEF PushAnswered
  <1>2. CASE PersistQueue(data.queue \ push.batch)
    BY <1>1, <1>2, EnqueueWants
  <1>3. CASE local' = local
    BY <1>1, <1>3, SameStep
  <1>4. QED
    BY <1>2, <1>3 DEF PushAnswered

-------------------------------------------------------------------------------
(* The theorem. *)

LEMMA InitWantInv == Init => WantInv
  <1> SUFFICES ASSUME Init PROVE WantInv
    OBVIOUS
  <1>1. IInv
    BY InitIInv
  <1>2. /\ local.record = NoRecord /\ backup = NoRecord /\ NoRecord.user = None /\ NoRecord.at = -1
        /\ auth.user = None /\ gen = 0 /\ lasting = {None} /\ wanted = {None}
        /\ recordJobs = <<>> /\ out.pc = "idle" /\ ~boot.ready /\ boot.clock = 0
        /\ flow = freshFlow
    <2>1. NoRecord.user = None /\ NoRecord.at = -1
      BY DEF NoRecord
    <2>2. local.record = NoRecord /\ boot = freshBoot
      BY DEF Init
    <2>3. ~boot.ready /\ boot.clock = 0
      BY <2>1, <2>2, SMT DEF freshBoot
    <2>4. QED
      BY <2>1, <2>2, <2>3 DEF Init, NoOut
  <1>3. \A i \in 1..Len(recordJobs) : FALSE
    BY <1>2, SMT
  <1>4. -1 <= 0
    BY SMT
  <1>5. \A g \in Flow : flow[g].pc # "saving" /\ (g # "boot" => flow[g].pc = "idle")
    BY <1>2, FreshParts, IdleParts
  <1>6. Listed /\ Dated
    BY <1>2, <1>3, <1>4 DEF Listed, Dated
  <1>7. Signing /\ SigningOut
    BY <1>2, <1>5 DEF Signing, SigningOut
  <1>8. Early /\ SessionIsWanted
    BY <1>2 DEF Early, SessionIsWanted
  <1>9. ASSUME NEW g \in Flow PROVE Latest(g)
    <2>1. "idle" \notin Begun /\ "idle" \notin Working
      BY SMT DEF Begun, Working
    <2>2. QED
      BY <1>5, <2>1, Flows DEF Latest
  <1>10. QED
    BY <1>1, <1>6, <1>7, <1>8, <1>9 DEF WantInv, Trail, Calls

LEMMA NextWantInv ==
    ASSUME WantInv, ~Hasty, ~IdbMayFail, [Next]_vars
    PROVE  WantInv'
  <1>1. IInv'
    BY NextIInv DEF WantInv
  <1>2. ASSUME UNCHANGED <<auth, gen, attempt, boot, flow, out, recordJobs, local, backup, lasting, wanted>>
        PROVE  Trail' /\ Calls'
    BY <1>2, SameStep
  <1>3. CASE UNCHANGED vars
    BY <1>1, <1>2, <1>3 DEF vars, memory, jobs, disk, ghost, WantInv
  <1>4. CASE SessionRead \/ BootStart \/ BootMerge
    BY <1>1, <1>4, SessionReadWants, BootStartWants, BootMergeWants DEF WantInv
  <1>5. CASE \E f \in Flow : Check(f) \/ Switch(f) \/ Saved(f)
    BY <1>1, <1>5, CheckWants, SwitchWants, SavedWants DEF WantInv
  <1>6. CASE \E f \in Login : (\E u \in Account : SignIn(f, u)) \/ LoginStart(f)
                              \/ LoginAnswered(f) \/ LoginRefused(f)
    BY <1>1, <1>6, SignInWants, LoginStartWants, LoginAnsweredWants, LoginRefusedWants DEF WantInv
  <1>7. CASE SignOut \/ SignOutRecord \/ SignOutDone
    BY <1>1, <1>7, SignOutWants, SignOutRecordWants, SignOutDoneWants DEF WantInv
  <1>8. CASE RenewStart \/ RenewAnswered \/ RenewRefused \/ RenewFailed
    BY <1>1, <1>8, RenewStartWants, RenewAnsweredWants, RenewRefusedWants, RenewFailedWants DEF WantInv
  <1>9. CASE Enqueue
    <2>1. Trail' /\ Calls'
      BY <1>9, EnqueueWants DEF Enqueue
    <2>2. QED
      BY <1>1, <2>1 DEF WantInv
  <1>10. CASE PushStart \/ PushServe \/ PushFailed
    BY <1>1, <1>2, <1>10 DEF PushStart, PushServe, PushFailed, memory, jobs, disk, ghost, WantInv
  <1>11. CASE PushAnswered \/ PushRejected
    BY <1>1, <1>11, PushAnsweredWants, PushRejectedWants DEF WantInv
  <1>12. CASE StoreWrite \/ RecordWrite \/ Kill
    BY <1>1, <1>12, StoreWriteWants, RecordWriteWants, KillWants DEF WantInv
  <1>13. QED
    BY <1>3, <1>4, <1>5, <1>6, <1>7, <1>8, <1>9, <1>10, <1>11, <1>12 DEF Next

LEMMA WantInvWanted == WantInv => SessionIsWanted
  BY DEF WantInv, Calls

(* Who is signed in is who last signed in, nobody after a sign-out; a         *)
(* sign-in or a sign-out that said it was saved is what the next start finds, *)
(* whatever late answers, renewals and kills come between, as long as the     *)
(* session store takes its writes (localStorage may refuse all of its own)    *)
(* and a sign-in waits for the sign-out before it to end.                     *)
THEOREM WantedSignedIn ==
    ASSUME ~Hasty, ~IdbMayFail
    PROVE  Spec => []SessionIsWanted
  <1>1. WantInv /\ [Next]_vars => WantInv'
    BY NextWantInv
  <1>2. QED
    BY <1>1, InitWantInv, WantInvWanted, PTL DEF Spec
===============================================================================
