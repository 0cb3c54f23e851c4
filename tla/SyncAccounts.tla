----------------------------- MODULE SyncAccounts -----------------------------
(***************************************************************************)
(* Whose data a device holds and whom it acts as                             *)
(* (apps/web/lib/sync.js): signIn, signOut, refreshSession and the 401 of a  *)
(* request, selectOwner and checkpointOwner, the record of the session in    *)
(* its two copies, and the start of the app that reads all of it back;       *)
(* around enqueue and push, reduced to who wrote an operation and as whom it *)
(* is sent (SyncWrites is about the queue itself).                           *)
(*                                                                         *)
(* The code between two awaits is one step.  Sign-ins and renewals run       *)
(* beside each other, the user may sign out at any moment, and the app may   *)
(* be killed at any moment.  Mirror and quarantine travel with the queue and *)
(* are left out; so are PINs, which are one more reason to refuse a sign-in. *)
(***************************************************************************)
EXTENDS Integers, FiniteSets, Sequences

CONSTANTS
    Account, None,
    Login,         \* sign-ins that may be under way at the same time
    MaxOps,        \* the user writes this often,
    MaxLogins,     \* signs in this often
    MaxLogouts,    \* and signs out this often
    MaxRenewals,   \* the server rejects a token this often
    MaxKills,      \* the app is killed this often
    LocalMayFail,  \* a write to localStorage may fail (quota)
    IdbMayFail,    \* a write to the account store or the session store may fail
    Hasty,         \* whether a sign-in may start before a sign-out has ended
    Overlapping,   \* and while another sign-in changes the data
    Unattended     \* whether something is written into an account's data with nobody signed in

ASSUME AccountsAssumption ==
    /\ None \notin Account
    /\ {"boot", "renew"} \cap Login = {}
    /\ {MaxOps, MaxLogins, MaxLogouts, MaxRenewals, MaxKills} \subseteq Nat
    /\ {LocalMayFail, IdbMayFail, Hasty, Overlapping, Unattended} \subseteq BOOLEAN

Flow == {"boot", "renew"} \cup Login
Op == 1..MaxOps
Anyone == Account \cup {None}

VARIABLES
    auth,        \* token (the account it was issued for) and user
    data,        \* dataOwner and the queue in memory
    gen,         \* sessionGeneration
    attempt,     \* loginAttempt
    boot,        \* sessionReady and recovered have resolved; sessionClock
    flow,        \* the start of the app, the renewal, and every sign-in
    out,         \* the sign-out under way
    push,        \* the push under way
    storeJobs,   \* storageWrites: account-store writes under way, in order
    recordJobs,  \* session-store writes under way, in order
    local,       \* localStorage: CACHE_OWNER_KEY, QUEUE_KEY, SESSION_RECORD_KEY
    store,       \* the 'queue' record of every account in the account store
    backup,      \* the session store's record
    wrote,       \* who was signed in when an operation was written, and whose the data were
    served,      \* operations the server applied, and as whom
    kept,        \* operations that were saved once
    wanted,      \* whom the user may find signed in,
    lasting,     \* and whom after a kill
    budget       \* sign-ins, sign-outs, renewals and kills left

memory == <<auth, data, gen, attempt, boot>>
disk == <<local, store, backup>>
jobs == <<storeJobs, recordJobs>>
ghost == <<wrote, served, kept, wanted, lasting>>
vars == <<memory, flow, out, push, jobs, disk, ghost, budget>>

(* A record of a session: an account and its token, a tombstone (nobody,     *)
(* saved), or none that can be read.                                         *)
Record == [at : Nat \cup {-1}, token : Anyone, user : Anyone]
NoRecord == [at |-> -1, token |-> None, user |-> None]

Idle == [pc |-> "idle", user |-> None, gen |-> 0, attempt |-> 0, read |-> {}, wait |-> 0, ok |-> FALSE]
Starting == [Idle EXCEPT !.pc = "start"]
NoOut == [pc |-> "idle", gen |-> 0, stores |-> 0, records |-> 0, ok |-> FALSE]
NoPush == [pc |-> "idle", as |-> None, owner |-> None, gen |-> 0, attempt |-> 0,
           batch |-> {}, again |-> FALSE, reached |-> FALSE]

(* What the app holds in memory when it starts on what localStorage has. *)
freshBoot == [ready |-> FALSE, recovered |-> FALSE, clock |-> IF local.record.at < 0 THEN 0 ELSE local.record.at]
freshFlow == [f \in Flow |-> IF f = "boot" THEN Starting ELSE Idle]

Init ==
    /\ local = [owner |-> None, queue |-> {}, record |-> NoRecord]
    /\ auth = [token |-> None, user |-> None]
    /\ data = [owner |-> None, queue |-> {}]
    /\ gen = 0 /\ attempt = 0
    /\ boot = freshBoot /\ flow = freshFlow
    /\ out = NoOut /\ push = NoPush
    /\ storeJobs = <<>> /\ recordJobs = <<>>
    /\ store = [a \in Account |-> {}]
    /\ backup = NoRecord
    /\ wrote = <<>> /\ served = {} /\ kept = {}
    /\ wanted = {None} /\ lasting = {None}
    /\ budget = [logins |-> MaxLogins, logouts |-> MaxLogouts, renewals |-> MaxRenewals, kills |-> MaxKills]
-------------------------------------------------------------------------------
(* What the handlers share *)

(* Whether localStorage refuses the writes of a step. *)
Full == IF LocalMayFail THEN BOOLEAN ELSE {FALSE}
Lost == IF IdbMayFail THEN BOOLEAN ELSE {FALSE}

saved(a) == IF a = None THEN {} ELSE store[a]

(* saveSessionRecord: the record of who is signed in, or of nobody.  A record *)
(* that names nobody and is no tombstone cannot be read back.                 *)
record(token, user, signedOut) ==
    IF user = None /\ ~signedOut THEN NoRecord
    ELSE [at |-> boot.clock + 1, token |-> token, user |-> user]

recorded(l, r, full) == IF full THEN l ELSE [l EXCEPT !.record = r]
queued(r) == IF r = NoRecord THEN recordJobs ELSE Append(recordJobs, r)

SaveRecord(r) ==
    /\ boot' = [boot EXCEPT !.clock = @ + 1]
    /\ recordJobs' = queued(r)

(* checkpointOwner: the queue joins its owner's stored copy. *)
checkpoint ==
    IF data.owner = None THEN storeJobs
    ELSE Append(storeJobs, [kind |-> "merge", owner |-> data.owner, queue |-> data.queue])
checkpointed == IF data.owner = None THEN 0 ELSE Len(storeJobs) + 1

Checkpoint(f, next) ==
    /\ storeJobs' = checkpoint
    /\ flow' = [flow EXCEPT ![f] = [next EXCEPT !.wait = checkpointed]]

(* writeLocalCache: localStorage holds the queue of one account only. *)
ownsCache_any == TRUE  \* mutant: whoever's queue is in memory
ownsCache == data.owner # None /\ data.owner = local.owner

(* persistQueue *)
PersistQueue(queue) == \E full \in Full :
    LET here == ~full /\ ownsCache
    IN  /\ data' = [data EXCEPT !.queue = queue]
        /\ local' = IF here THEN [local EXCEPT !.queue = queue] ELSE local
        /\ storeJobs' = Append(storeJobs, [kind |-> "put", owner |-> data.owner, queue |-> queue])
        /\ kept' = IF here THEN kept \cup queue ELSE kept

(* A flow ends; the request that waited for a renewal fails with it. *)
unanswered(f) == IF f = "renew" /\ push.pc = "renewing" THEN NoPush ELSE push

Abandon(f) ==
    /\ flow' = [flow EXCEPT ![f] = Idle]
    /\ boot' = [boot EXCEPT !.recovered = @ \/ f = "boot"]
    /\ push' = unanswered(f)

(* persistSession, its second half: the account is who the device acts as. *)
Install(f, l, full) ==
    LET u == flow[f].user
        r == record(u, u, FALSE)
    IN  /\ auth' = [token |-> u, user |-> u]
        /\ gen' = gen + 1
        /\ local' = recorded(l, r, full)
        /\ SaveRecord(r)
        /\ flow' = [flow EXCEPT ![f] =
                       [@ EXCEPT !.pc = "saving", !.gen = gen + 1, !.wait = Len(recordJobs) + 1,
                                 !.ok = ~full, !.read = {}]]
        /\ wanted' = IF f = "renew" THEN wanted ELSE {u}
        /\ lasting' = lasting \cup {u}
        /\ UNCHANGED <<attempt, push>>

(* persistSession up to its first await: the device keeps the account's data *)
(* or begins to change it.                                                   *)
Persist(f) ==
    LET next == [flow[f] EXCEPT !.gen = gen, !.attempt = attempt]
    IN  \/ /\ data.owner = next.user
           /\ \E full \in Full : Install(f, local, full)
           /\ UNCHANGED storeJobs
        \/ /\ data.owner # next.user
           /\ Checkpoint(f, [next EXCEPT !.pc = "check"])
           /\ UNCHANGED <<auth, gen, attempt, boot, local, recordJobs, push, wanted, lasting>>

-------------------------------------------------------------------------------
(* The start of the app *)

(* sessionReady: the session store's record wins when it is newer. *)
SessionRead ==
    /\ ~boot.ready
    /\ auth' = IF gen = 0 /\ backup.at > local.record.at
               THEN [token |-> backup.token, user |-> backup.user] ELSE auth
    /\ boot' = [boot EXCEPT !.ready = TRUE, !.clock = IF backup.at > @ THEN backup.at ELSE @]
    /\ UNCHANGED <<data, gen, attempt, flow, out, push, jobs, disk, ghost, budget>>

BootStart ==
    LET next == [Starting EXCEPT !.user = auth.user, !.gen = gen, !.attempt = attempt]
    IN  /\ boot.ready /\ flow["boot"].pc = "start"
        /\ IF data.owner = auth.user
           THEN flow' = [flow EXCEPT !["boot"] = [next EXCEPT !.pc = "merge"]] /\ UNCHANGED storeJobs
           ELSE Checkpoint("boot", [next EXCEPT !.pc = "check"])
        /\ UNCHANGED <<memory, out, push, recordJobs, disk, ghost, budget>>

(* recovered: what the account store still has joins the queue. *)
BootMerge ==
    LET own == flow["boot"].user = auth.user /\ flow["boot"].gen = gen
    IN  /\ flow["boot"].pc = "merge"
        /\ data' = IF own THEN [data EXCEPT !.queue = @ \cup saved(auth.user)] ELSE data
        /\ Abandon("boot")
        /\ UNCHANGED <<auth, gen, attempt, out, jobs, disk, ghost, budget>>

-------------------------------------------------------------------------------
(* selectOwner *)

Stale(f) ==
    /\ gen # flow[f].gen
    /\ Abandon(f)
    /\ UNCHANGED <<auth, data, gen, attempt, out, jobs, disk, ghost, budget>>

(* The source is checkpointed: the destination is read, and the source       *)
(* checkpointed once more, for what happened to it meanwhile.                *)
Check(f) ==
    /\ flow[f].pc = "check" /\ flow[f].wait = 0
    /\ \/ Stale(f)
       \/ /\ gen = flow[f].gen
          /\ Checkpoint(f, [flow[f] EXCEPT !.pc = "switch", !.read = saved(flow[f].user)])
          /\ UNCHANGED <<memory, out, push, recordJobs, disk, ghost, budget>>

(* detachData, and the queue that was read takes its place.  A device without *)
(* a cache gives it to the first account that comes.                          *)
selected_empty(f) == [owner |-> flow[f].user, queue |-> {}]  \* mutant: nothing is read
selected(f) == [owner |-> flow[f].user, queue |-> flow[f].read]

adopted(u, full) ==
    IF u # None /\ local.owner = None /\ ~full THEN [local EXCEPT !.owner = u] ELSE local

Switch(f) ==
    /\ flow[f].pc = "switch" /\ flow[f].wait = 0
    /\ \/ Stale(f)
       \/ /\ gen = flow[f].gen
          /\ data' = selected(f)
          /\ \E full \in Full :
                LET l == adopted(flow[f].user, full)
                IN  \/ /\ f = "boot"
                       /\ flow' = [flow EXCEPT ![f].pc = "merge", ![f].read = {}]
                       /\ local' = l
                       /\ UNCHANGED <<auth, gen, attempt, boot, push, recordJobs, wanted, lasting>>
                    \/ /\ f # "boot" /\ flow[f].attempt = attempt
                       /\ Install(f, l, full)
                    \/ /\ f # "boot" /\ flow[f].attempt # attempt
                       /\ Abandon(f)
                       /\ local' = l
                       /\ UNCHANGED <<auth, gen, attempt, recordJobs, wanted, lasting>>
          /\ UNCHANGED <<out, storeJobs, store, backup, wrote, served, kept, budget>>

(* The record is saved, or neither copy took it: the session holds until the *)
(* app ends.  A request that waited for the renewal is sent again, as        *)
(* whoever is signed in now.                                                 *)
Saved(f) ==
    LET current == gen = flow[f].gen
    IN  /\ flow[f].pc = "saving" /\ flow[f].wait = 0
        /\ flow' = [flow EXCEPT ![f] = Idle]
        /\ lasting' = IF current /\ flow[f].ok THEN {flow[f].user} ELSE lasting
        /\ push' = IF f = "renew" /\ push.pc = "renewing"
                   THEN [push EXCEPT !.pc = "sent", !.as = auth.token, !.gen = gen, !.again = TRUE]
                   ELSE push
        /\ UNCHANGED <<memory, out, jobs, disk, wrote, served, kept, wanted, budget>>

-------------------------------------------------------------------------------
(* Signing in and out, and renewing *)

SignIn(f, u) ==
    /\ flow[f].pc = "idle" /\ budget.logins > 0
    /\ Hasty \/ out.pc = "idle"
    /\ Overlapping \/ \A g \in Login : flow[g].pc \notin {"check", "switch"}
    /\ attempt' = attempt + 1
    /\ flow' = [flow EXCEPT ![f] = [Starting EXCEPT !.user = u, !.attempt = attempt + 1]]
    /\ wanted' = (IF boot.ready THEN {auth.user} ELSE wanted) \cup {u}
    /\ budget' = [budget EXCEPT !.logins = @ - 1]
    /\ UNCHANGED <<auth, data, gen, boot, out, push, jobs, disk, wrote, served, kept, lasting>>

(* Leaving another account gives its grant up and saves that first. *)
LoginStart(f) ==
    LET leaving == auth.user \notin {None, flow[f].user}
        r == record(auth.token, auth.user, FALSE)
    IN  /\ flow[f].pc = "start" /\ boot.recovered
        /\ flow' = [flow EXCEPT ![f] = [@ EXCEPT !.pc = "asked", !.gen = gen,
                        !.wait = IF leaving THEN Len(recordJobs) + 1 ELSE 0]]
        /\ IF leaving THEN SaveRecord(r) /\ \E full \in Full : local' = recorded(local, r, full)
           ELSE UNCHANGED <<boot, recordJobs, local>>
        /\ UNCHANGED <<auth, data, gen, attempt, out, push, storeJobs, store, backup, ghost, budget>>

LoginAnswered(f) ==
    /\ flow[f].pc = "asked" /\ flow[f].wait = 0
    /\ \/ /\ flow[f].attempt # attempt \/ flow[f].gen # gen
          /\ Abandon(f)
          /\ UNCHANGED <<auth, data, gen, attempt, local, jobs, wanted, lasting>>
       \/ /\ flow[f].attempt = attempt /\ flow[f].gen = gen
          /\ Persist(f)
          /\ UNCHANGED data
    /\ UNCHANGED <<out, store, backup, wrote, served, kept, budget>>

LoginRefused(f) ==
    /\ flow[f].pc = "asked" /\ flow[f].wait = 0
    /\ Abandon(f)
    /\ UNCHANGED <<auth, data, gen, attempt, out, jobs, disk, ghost, budget>>

SignOut ==
    LET r == record(None, None, TRUE)
        l == [local EXCEPT !.record = NoRecord]
        left == [NoOut EXCEPT !.gen = gen + 1, !.stores = checkpointed]
    IN  /\ auth.user # None /\ out.pc = "idle" /\ budget.logouts > 0
        /\ storeJobs' = checkpoint
        /\ attempt' = attempt + 1 /\ gen' = gen + 1
        /\ auth' = [token |-> None, user |-> None]
        /\ data' = [owner |-> None, queue |-> {}]
        /\ \/ /\ boot.ready
              /\ SaveRecord(r)
              /\ \E full \in Full :
                    /\ local' = recorded(l, r, full)
                    /\ out' = [left EXCEPT !.pc = "saving", !.ok = ~full, !.records = Len(recordJobs) + 1]
           \/ /\ ~boot.ready
              /\ local' = l
              /\ out' = [left EXCEPT !.pc = "start"]
              /\ UNCHANGED <<boot, recordJobs>>
        /\ wanted' = {None} /\ lasting' = lasting \cup {None}
        /\ budget' = [budget EXCEPT !.logouts = @ - 1]
        /\ UNCHANGED <<flow, push, store, backup, wrote, served, kept>>

(* A sign-out before the session was read saves its record after. *)
SignOutRecord ==
    LET r == record(None, None, TRUE)
    IN  /\ out.pc = "start" /\ boot.ready
        /\ SaveRecord(r)
        /\ \E full \in Full :
              /\ local' = recorded(local, r, full)
              /\ out' = [out EXCEPT !.pc = "saving", !.ok = ~full, !.records = Len(recordJobs) + 1]
        /\ UNCHANGED <<auth, data, gen, attempt, flow, push, storeJobs, store, backup, ghost, budget>>

SignOutDone ==
    /\ out.pc = "saving" /\ out.stores = 0 /\ out.records = 0
    /\ lasting' = IF out.ok /\ out.gen = gen THEN {None} ELSE lasting
    /\ out' = NoOut
    /\ UNCHANGED <<memory, flow, push, jobs, disk, wrote, served, kept, wanted, budget>>

(* refreshSession, for the request that was rejected or for another service. *)
renewing == [Idle EXCEPT !.pc = "asked", !.user = auth.user, !.gen = gen, !.attempt = attempt]

RenewStart ==
    /\ boot.recovered /\ auth.user # None /\ budget.renewals > 0
    /\ flow["renew"].pc = "idle" /\ push.pc # "renewing"
    /\ flow' = [flow EXCEPT !["renew"] = renewing]
    /\ budget' = [budget EXCEPT !.renewals = @ - 1]
    /\ UNCHANGED <<memory, out, push, jobs, disk, ghost>>

outdated_never == FALSE  \* mutant: the answer is taken whoever is signed in by now
outdated == gen # flow["renew"].gen \/ auth.user # flow["renew"].user

RenewAnswered ==
    /\ flow["renew"].pc = "asked"
    /\ \/ /\ outdated
          /\ Abandon("renew")
          /\ UNCHANGED <<auth, data, gen, attempt, local, jobs, wanted, lasting>>
       \/ /\ ~outdated
          /\ Persist("renew")
          /\ UNCHANGED data
    /\ UNCHANGED <<out, store, backup, wrote, served, kept, budget>>

(* The server does not trust the device any more: the token is given up. *)
GiveUp ==
    LET r == record(None, auth.user, FALSE)
    IN  /\ auth' = [auth EXCEPT !.token = None]
        /\ SaveRecord(r)
        /\ \E full \in Full : local' = recorded(local, r, full)

RenewRefused ==
    /\ flow["renew"].pc = "asked" /\ ~outdated
    /\ GiveUp
    /\ flow' = [flow EXCEPT !["renew"] = Idle]
    /\ push' = unanswered("renew")
    /\ UNCHANGED <<data, gen, attempt, out, storeJobs, store, backup, ghost, budget>>

RenewFailed ==
    /\ flow["renew"].pc = "asked"
    /\ Abandon("renew")
    /\ UNCHANGED <<auth, data, gen, attempt, out, jobs, disk, ghost, budget>>

-------------------------------------------------------------------------------
(* Writing and sending *)

(* Whoever is signed in writes into the data of that account alone.  With     *)
(* nobody signed in the usage clock of app.js runs on, and what it writes     *)
(* joins the data the device holds, whosever they are.                        *)
Enqueue ==
    LET op == Len(wrote) + 1
    IN  /\ data.owner = auth.user \/ (auth.user = None /\ Unattended)
        /\ op \in Op
        /\ wrote' = Append(wrote, [by |-> auth.user, for |-> data.owner])
        /\ PersistQueue(data.queue \cup {op})
        /\ UNCHANGED <<auth, gen, attempt, boot, flow, out, push, recordJobs, store, backup,
                       served, wanted, lasting, budget>>

PushStart ==
    /\ boot.recovered /\ push.pc = "idle"
    /\ auth.token # None /\ data.queue # {} /\ data.owner = auth.user
    /\ push' = [NoPush EXCEPT !.pc = "sent", !.as = auth.token, !.owner = auth.user,
                              !.gen = gen, !.attempt = attempt, !.batch = data.queue]
    /\ UNCHANGED <<memory, flow, out, jobs, disk, ghost, budget>>

(* The server applies what it is sent for whoever the token was issued to. *)
PushServe ==
    /\ push.pc = "sent" /\ ~push.reached /\ push.as # None
    /\ push' = [push EXCEPT !.reached = TRUE]
    /\ served' = served \cup (push.batch \X {push.as})
    /\ UNCHANGED <<memory, flow, out, jobs, disk, wrote, kept, wanted, lasting, budget>>

ownsQueue == data.owner = push.owner /\ auth.user = push.owner /\ attempt = push.attempt

PushAnswered ==
    /\ push.pc = "sent" /\ push.reached
    /\ push' = NoPush
    /\ IF ownsQueue THEN PersistQueue(data.queue \ push.batch)
       ELSE UNCHANGED <<data, local, storeJobs, kept>>
    /\ UNCHANGED <<auth, gen, attempt, boot, flow, out, recordJobs, store, backup,
                   wrote, served, wanted, lasting, budget>>

PushFailed ==
    /\ push.pc = "sent"
    /\ push' = NoPush
    /\ UNCHANGED <<memory, flow, out, jobs, disk, ghost, budget>>

(* 401: a request of an older session says nothing about this one; the first *)
(* rejection is answered by a renewal, the second gives the token up.        *)
PushRejected ==
    LET same == gen = push.gen /\ auth.token = push.as
    IN  /\ push.pc = "sent" /\ ~push.reached
        /\ \/ /\ ~same
              /\ push' = NoPush
              /\ UNCHANGED <<auth, boot, flow, local, recordJobs, budget>>
           \/ /\ same /\ ~push.again /\ auth.user # None
              /\ flow["renew"].pc = "idle" /\ budget.renewals > 0
              /\ push' = [push EXCEPT !.pc = "renewing"]
              /\ flow' = [flow EXCEPT !["renew"] = renewing]
              /\ budget' = [budget EXCEPT !.renewals = @ - 1]
              /\ UNCHANGED <<auth, boot, local, recordJobs>>
           \/ /\ same /\ push.again
              /\ push' = NoPush
              /\ GiveUp
              /\ UNCHANGED <<flow, budget>>
        /\ UNCHANGED <<data, gen, attempt, out, storeJobs, store, backup, ghost>>

-------------------------------------------------------------------------------
(* The disk, and the end of the app *)

sooner(n) == IF n > 0 THEN n - 1 ELSE 0

StoreWrite == \E lost \in Lost :
    LET job == Head(storeJobs)
    IN  /\ storeJobs # <<>>
        /\ storeJobs' = Tail(storeJobs)
        /\ flow' = [f \in Flow |-> IF flow[f].pc \in {"check", "switch"}
                                   THEN [flow[f] EXCEPT !.wait = sooner(@)] ELSE flow[f]]
        /\ out' = [out EXCEPT !.stores = sooner(@)]
        /\ store' = IF lost \/ job.owner = None THEN store
                    ELSE [store EXCEPT ![job.owner] =
                             IF job.kind = "merge" THEN @ \cup job.queue ELSE job.queue]
        /\ kept' = IF lost \/ job.owner = None THEN kept ELSE kept \cup job.queue
        /\ UNCHANGED <<memory, push, recordJobs, local, backup, wrote, served, wanted, lasting, budget>>

(* What waits for a record goes on before the next record is written. *)
RecordWrite == \E lost \in Lost :
    /\ recordJobs # <<>>
    /\ \A f \in Flow : flow[f].pc = "saving" => flow[f].wait > 0
    /\ recordJobs' = Tail(recordJobs)
    /\ backup' = IF lost THEN backup ELSE Head(recordJobs)
    /\ flow' = [f \in Flow |-> IF flow[f].pc \in {"asked", "saving"}
                               THEN [flow[f] EXCEPT !.wait = sooner(@), !.ok = @ \/ (flow[f].wait = 1 /\ ~lost)]
                               ELSE flow[f]]
    /\ out' = [out EXCEPT !.records = sooner(@), !.ok = @ \/ (out.records = 1 /\ ~lost)]
    /\ UNCHANGED <<memory, push, storeJobs, local, store, ghost, budget>>

Kill ==
    /\ budget.kills > 0
    /\ budget' = [budget EXCEPT !.kills = @ - 1]
    /\ wanted' = lasting
    /\ auth' = [token |-> local.record.token, user |-> local.record.user]
    /\ data' = [owner |-> local.owner, queue |-> local.queue]
    /\ gen' = 0 /\ attempt' = 0
    /\ boot' = freshBoot /\ flow' = freshFlow
    /\ out' = NoOut /\ push' = NoPush
    /\ storeJobs' = <<>> /\ recordJobs' = <<>>
    /\ UNCHANGED <<disk, wrote, served, kept, lasting>>

Next ==
    \/ SessionRead \/ BootStart \/ BootMerge
    \/ \E f \in Flow : Check(f) \/ Switch(f) \/ Saved(f)
    \/ \E f \in Login : (\E u \in Account : SignIn(f, u)) \/ LoginStart(f) \/ LoginAnswered(f) \/ LoginRefused(f)
    \/ SignOut \/ SignOutRecord \/ SignOutDone
    \/ RenewStart \/ RenewAnswered \/ RenewRefused \/ RenewFailed
    \/ Enqueue \/ PushStart \/ PushServe \/ PushAnswered \/ PushFailed \/ PushRejected
    \/ StoreWrite \/ RecordWrite \/ Kill

Spec == Init /\ [][Next]_vars

-------------------------------------------------------------------------------
(* Properties *)

authored(a) == {o \in DOMAIN wrote : wrote[o].for = a /\ wrote[o].by \in {a, None}}
signed == {o \in DOMAIN wrote : wrote[o].by # None}

(* An operation reaches the server under the name of the account in whose    *)
(* data it was written and no other, and every copy of a queue holds         *)
(* operations of its owner only, whatever sign-ins, sign-outs and renewals   *)
(* cross each other, and whoever or nobody is signed in when it is written.  *)
NeverAsAnother ==
    /\ \A s \in served : s[1] \in authored(s[2])
    /\ data.owner # None => data.queue \subseteq authored(data.owner)
    /\ local.owner # None => local.queue \subseteq authored(local.owner)
    /\ \A a \in Account : store[a] \subseteq authored(a)

(* What somebody signed in has written and was saved once is at the server   *)
(* or still on the device's disk, under its account.                         *)
SavedIsKept ==
    \A o \in kept \cap signed :
        \/ \E a \in Account : <<o, a>> \in served
        \/ o \in store[wrote[o].by]
        \/ local.owner = wrote[o].by /\ o \in local.queue

(* Who is signed in is who last signed in and nobody after a sign-out, late  *)
(* answers, late reads and kills notwithstanding; and a sign-in or sign-out  *)
(* that said it was saved is what the next start finds.                      *)
SessionIsWanted ==
    boot.ready => auth.user \in wanted

-------------------------------------------------------------------------------
(* What the code does not keep (README, 'Known departures')                  *)

(* With nobody signed in nothing is written into an account's data.  The     *)
(* code refuses a write only when somebody else is signed in: before the     *)
(* start of the app has put a signed-out device's data aside, or after a     *)
(* sign-in that changed the data was overtaken by one that was refused, the  *)
(* usage clock's operations join that account's queue, and what is left of   *)
(* them when the data are put aside is sent as that account later.           *)
NobodyWritesAsSomebody ==
    [][auth.user = None /\ data.owner # None => Len(wrote') = Len(wrote)]_vars

(* Once all is quiet the device works on the data of who is signed in:       *)
(* otherwise it accepts no write and sends none.  A sign-in that was          *)
(* overtaken after it had changed the data leaves them changed.              *)
DataFollowsUser ==
    (boot.recovered /\ auth.user # None /\ \A f \in Flow : flow[f].pc = "idle") => data.owner = auth.user
===============================================================================
