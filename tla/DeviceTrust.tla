------------------------------ MODULE DeviceTrust ------------------------------
(***************************************************************************)
(* Which devices may open which accounts, and how an account goes            *)
(* (services/sync-worker/src/secure-index.ts, accounts.ts; on the device     *)
(* apps/web/lib/sync.js, screens/accounts.js, v35/shell.js).                 *)
(*                                                                         *)
(* A new device asks for a code, somebody inside approves it, and the device *)
(* claims the approval: from then on it is trusted for every account of the  *)
(* group, and each account created later trusts it too.  A session is issued *)
(* to a trusted device for an active account.  An account to be deleted      *)
(* waits for its grace, in which it can be taken back; then a sweep, or the  *)
(* device itself, wipes all it has.                                          *)
(*                                                                         *)
(* Every step of a request is one statement or one batch of D1; requests     *)
(* interleave between them and a Worker may die at any of them.  Time is     *)
(* counted in seconds' units, as the grace is: that a code expires is an     *)
(* event of its own, and the hour for which a deleted account is swept again *)
(* never passes.  A PIN only ends a request early, which dying stands for.   *)
(***************************************************************************)
EXTENDS Integers, FiniteSets

CONSTANTS
    User,        \* accounts, those still to be created included
    Device,
    Code,        \* device_requests ever made
    Slot,        \* requests in progress at one time
    None,
    Plans,       \* how often people do what, in one behaviour
    Founder,     \* the account there is at first
    Owner,       \* the device that is inside at first
    Grace,       \* DELETE_GRACE_MS
    Allowance,   \* DELETE_NETWORK_ALLOWANCE_MS
    Patience,    \* what a prompt request about deletion takes at most
    MaxAccounts,
    MaxOpen,     \* MAX_OPEN_DEVICE_REQUESTS
    MaxCredentials,
    MaxTime,
    Late,        \* whether a request about deletion may take longer
    Crossing,    \* whether a device may be let in while an account is created
                 \* or in its grace
    Broken       \* whether a Worker may die between the consumption of an
                 \* approval and the trust it stands for

Act == {"pair", "create", "delete", "write", "logout", "reinstall", "leave"}

ASSUME DeviceTrustAssumption ==
    /\ Plans \subseteq [Act -> Nat]
    /\ Founder \in User /\ Owner \in Device /\ None \notin User \cup Device \cup Code
    /\ IsFiniteSet(User) /\ IsFiniteSet(Code)
    /\ {Grace, Allowance, Patience, MaxAccounts, MaxOpen, MaxCredentials, MaxTime} \subseteq Nat
    /\ MaxCredentials > 0
    /\ {Late, Crossing, Broken} \subseteq BOOLEAN

VARIABLES
    now,
    todo,        \* what people will still do
    account,     \* accounts: lifecycle and purge_after
    data,        \* whether other tables hold rows of an account
    code,        \* device_requests
    trust,       \* trusted_devices
    req,         \* requests in progress, with what the device waits for
    sweep,       \* purgeExpired
    device,      \* what a device keeps and shows
    undone       \* accounts whose deletion was taken back in time, and not in vain

vars == <<now, todo, account, data, code, trust, req, sweep, device, undone>>

Life == {"none", "ACTIVE", "PENDING_DELETE", "DELETED"}
Credential == 1..MaxCredentials

Account == [life : Life, purgeAfter : Nat]
DeviceRequest == [state : {"none", "asked", "approved", "consumed"}, expired : BOOLEAN,
                  device : Device \cup {None}, credential : Credential]
Trust == [state : {"none", "trusted", "revoked"}, credential : Credential]

(* Where a request stands: the statement it is about to make. *)
Step == {"free", "trusted", "account", "touch", "recover", "clean", "insert", "select", "consume",
         "list", "trust", "create", "gate", "delete", "answer", "restore", "due", "flip", "write"}
Request == [step : Step, device : Device \cup {None}, user : User \cup {None}, at : Nat,
            credential : Credential, again : BOOLEAN, code : Code \cup {None}, listed : SUBSET User]
Sweep == [step : {"idle", "due", "recent", "wipe"}, at : Nat, listed : SUBSET User]

(* What the screen of a device is: the list of accounts, the sign-in, the    *)
(* refusal, the code it waits with, the news that it was approved, inside.   *)
Screen == {"gate", "entering", "refused", "code", "approved", "in"}
DeviceState == [screen : Screen, user : User \cup {None}, credential : Credential,
                undo : {None} \cup [user : User, until : Nat]]

Idle == [step |-> "free", device |-> None, user |-> None, at |-> 0, credential |-> 1,
         again |-> FALSE, code |-> None, listed |-> {}]

-------------------------------------------------------------------------------
(* Helpers *)

life(u) == account[u].life
active == {u \in User : life(u) = "ACTIVE"}
usable(d, c, u) == trust[d][u] = [state |-> "trusted", credential |-> c]
mine(d) == device[d].credential
to(r, s) == req' = [req EXCEPT ![r].step = s]
end(r) == req' = [req EXCEPT ![r] = Idle]
busy(d) == \E r \in Slot : req[r].device = d
shows(d, s) == device' = [device EXCEPT ![d].screen = s]
opens(d, s, u) == device' = [device EXCEPT ![d] = [@ EXCEPT !.screen = s, !.user = u]]

does(a) == todo[a] > 0 /\ todo' = [todo EXCEPT ![a] = @ - 1]

(* A device makes a request, of which the first statement is s. *)
asking(d, u, s, t) == [step |-> s, device |-> d, user |-> u, at |-> t, credential |-> mine(d),
                       again |-> FALSE, code |-> None, listed |-> {}]
begin(d, u, s, t) ==
    /\ \E r \in Slot : req[r] = Idle
    /\ req' = [req EXCEPT ![CHOOSE r \in Slot : req[r] = Idle] = asking(d, u, s, t)]

(* What is left of an account when it is wiped: every device forgets it. *)
forgotten(u) == [d \in Device |-> [trust[d] EXCEPT ![u] = [state |-> "none", credential |-> 1]]]

Init ==
    /\ now = 0 /\ todo \in Plans
    /\ account = [u \in User |-> [life |-> IF u = Founder THEN "ACTIVE" ELSE "none", purgeAfter |-> 0]]
    /\ data = [u \in User |-> u = Founder]
    /\ code = [c \in Code |-> [state |-> "none", expired |-> FALSE, device |-> None,
                               credential |-> 1]]
    /\ trust = [d \in Device |-> [u \in User |->
                   [state |-> IF d = Owner /\ u = Founder THEN "trusted" ELSE "none", credential |-> 1]]]
    /\ req = [r \in Slot |-> Idle]
    /\ sweep = [step |-> "idle", at |-> 0, listed |-> {}]
    /\ device = [d \in Device |->
                   [screen |-> IF d = Owner THEN "in" ELSE "gate", user |-> IF d = Owner THEN Founder ELSE None,
                    credential |-> 1, undo |-> None]]
    /\ undone = {}

-------------------------------------------------------------------------------
(* Signing in: a session for a device that is trusted. *)

(* Somebody picks an account of the list; or the device goes on by itself    *)
(* with the one it was approved for.                                         *)
Choose(d, u) ==
    /\ device[d].screen \in {"gate", "approved"} /\ u \in active
    /\ begin(d, u, "trusted", 0)
    /\ opens(d, "entering", u)
    /\ UNCHANGED <<now, todo, account, data, code, trust, sweep, undone>>

(* device_untrusted: a device whose application was installed again asks     *)
(* once for its rows back; one that has none shows the refusal.              *)
refused(r) ==
    IF req[r].again THEN end(r) /\ shows(req[r].device, "refused")
    ELSE to(r, "recover") /\ UNCHANGED device

IssueTrusted(r) ==
    /\ req[r].step = "trusted"
    /\ IF usable(req[r].device, req[r].credential, req[r].user)
       THEN to(r, "account") /\ UNCHANGED device
       ELSE refused(r)
    /\ UNCHANGED <<now, todo, account, data, code, trust, sweep, undone>>

IssueAccount(r) ==
    /\ req[r].step = "account"
    /\ IF req[r].user \in active THEN to(r, "touch") /\ UNCHANGED device
       ELSE end(r) /\ opens(req[r].device, "gate", None)
    /\ UNCHANGED <<now, todo, account, data, code, trust, sweep, undone>>

(* The moment a session is issued: a device signed out since is refused.     *)
IssueTouch(r) ==
    /\ req[r].step = "touch"
    /\ IF usable(req[r].device, req[r].credential, req[r].user)
       THEN end(r) /\ opens(req[r].device, "in", req[r].user)
       ELSE refused(r)
    /\ UNCHANGED <<now, todo, account, data, code, trust, sweep, undone>>

Recover(r) ==
    LET d == req[r].device
        rows == {u \in User : trust[d][u].state = "trusted"} IN
    /\ req[r].step = "recover"
    /\ trust' = [trust EXCEPT ![d] = [u \in User |->
                    IF u \in rows THEN [state |-> "trusted", credential |-> req[r].credential] ELSE @[u]]]
    /\ IF rows = {} THEN end(r) /\ shows(d, "refused")
       ELSE req' = [req EXCEPT ![r] = [@ EXCEPT !.step = "trusted", !.again = TRUE]] /\ UNCHANGED device
    /\ UNCHANGED <<now, todo, account, data, code, sweep, undone>>

-------------------------------------------------------------------------------
(* A new device: its code, the approval and the claim. *)

ShowApproval(d) ==
    /\ device[d].screen = "refused"
    /\ begin(d, None, "clean", 0) /\ shows(d, "code")
    /\ does("pair")
    /\ UNCHANGED <<now, account, data, code, trust, sweep, undone>>

(* Codes that expired are deleted, and those the device still waits with.    *)
RequestClean(r) ==
    LET d == req[r].device
        cleaned == [c \in Code |->
            IF code[c].expired \/ (code[c].device = d /\ code[c].state = "asked")
            THEN [code[c] EXCEPT !.state = "none", !.device = None] ELSE code[c]]
        open == {c \in Code : cleaned[c].state \in {"asked", "approved"}} IN
    /\ req[r].step = "clean"
    /\ code' = cleaned
    /\ IF Cardinality(open) < MaxOpen THEN to(r, "insert") /\ UNCHANGED device
       ELSE end(r) /\ shows(d, "refused")
    /\ UNCHANGED <<now, todo, account, data, trust, sweep, undone>>

RequestInsert(r) ==
    /\ req[r].step = "insert"
    /\ \E c \in Code :
          /\ code[c].state = "none" /\ ~code[c].expired
          /\ code' = [code EXCEPT ![c] = [state |-> "asked", expired |-> FALSE,
                          device |-> req[r].device, credential |-> req[r].credential]]
    /\ end(r)
    /\ UNCHANGED <<now, todo, account, data, trust, sweep, device, undone>>

(* From a device inside, or with tools/approve-device.mjs. *)
Approve(c) ==
    /\ code[c].state = "asked" /\ ~code[c].expired
    /\ code' = [code EXCEPT ![c].state = "approved"]
    /\ UNCHANGED <<now, todo, account, data, trust, req, sweep, device, undone>>

Expire(c) ==
    /\ code[c].state # "none" /\ ~code[c].expired
    /\ code' = [code EXCEPT ![c].expired = TRUE]
    /\ UNCHANGED <<now, todo, account, data, trust, req, sweep, device, undone>>

waiting(d) == device[d].screen = "code" /\ \E c \in Code : code[c].device = d /\ ~code[c].expired

(* Every four seconds the device asks whether it was approved; a question    *)
(* that it gave up may still be at work in the Worker.                       *)
Poll(d) ==
    /\ waiting(d) /\ begin(d, None, "select", 0)
    /\ UNCHANGED <<now, todo, account, data, code, trust, sweep, device, undone>>

GiveUp(d) ==
    /\ device[d].screen = "code" /\ ~waiting(d) /\ ~busy(d)
    /\ shows(d, "refused")
    /\ UNCHANGED <<now, todo, account, data, code, trust, req, sweep, undone>>

approvedFor(r) == {c \in Code : /\ code[c].device = req[r].device /\ code[c].state = "approved"
                               /\ code[c].credential = req[r].credential /\ ~code[c].expired}

ClaimSelect(r) ==
    /\ req[r].step = "select"
    /\ \/ \E c \in approvedFor(r) : req' = [req EXCEPT ![r] = [@ EXCEPT !.step = "consume", !.code = c]]
       \/ approvedFor(r) = {} /\ end(r)
    /\ UNCHANGED <<now, todo, account, data, code, trust, sweep, device, undone>>

ClaimConsume(r) ==
    /\ req[r].step = "consume"
    /\ IF code[req[r].code].state = "approved"
       THEN to(r, "list") /\ code' = [code EXCEPT ![req[r].code].state = "consumed"]
       ELSE end(r) /\ UNCHANGED code
    /\ UNCHANGED <<now, todo, account, data, trust, sweep, device, undone>>

settled == \A u \in User : life(u) # "PENDING_DELETE"

ClaimList(r) ==
    /\ req[r].step = "list" /\ (Crossing \/ settled)
    /\ IF active = {} THEN end(r)
       ELSE req' = [req EXCEPT ![r] = [@ EXCEPT !.step = "trust", !.listed = active]]
    /\ UNCHANGED <<now, todo, account, data, code, trust, sweep, device, undone>>

(* What a claim makes of a row: trusted again, whatever it was.              *)
(* Mutant: a row that is there is left as it is. *)
trusting_ignored(t, c) == IF t.state = "none" THEN [state |-> "trusted", credential |-> c] ELSE t
trusting(t, c) == [state |-> "trusted", credential |-> c]

ClaimTrust(r) ==
    LET d == req[r].device IN
    /\ req[r].step = "trust"
    /\ trust' = [trust EXCEPT ![d] = [u \in User |->
                    IF u \in req[r].listed THEN trusting(@[u], req[r].credential) ELSE @[u]]]
    /\ end(r)
    /\ IF device[d].screen = "code" THEN shows(d, "approved") ELSE UNCHANGED device
    /\ UNCHANGED <<now, todo, account, data, code, sweep, undone>>

-------------------------------------------------------------------------------
(* Accounts: created, deleted, taken back and wiped. *)

(* From inside, or from the list on a device that is trusted. *)
StartCreate(d) ==
    /\ \/ device[d].screen = "in" /\ device[d].user \in active
       \/ device[d].screen = "gate" /\ \E u \in active : usable(d, mine(d), u)
    /\ begin(d, None, "create", 0)
    /\ does("create")
    /\ UNCHANGED <<now, account, data, code, trust, sweep, device, undone>>

(* The devices trusted for somebody are trusted for the new account as well, *)
(* with MAX(credential_hash): any of those a device has.                     *)
credentialsOf(d) == {trust[d][u].credential : u \in {v \in User : trust[d][v].state = "trusted"}}

(* Mutant: only the device that creates the account may open it. *)
inheriting_own(r) == {d \in Device : credentialsOf(d) # {} /\ d = req[r].device}
inheriting(r) == {d \in Device : credentialsOf(d) # {}}

claiming == \E r \in Slot : req[r].step = "trust"

Create(r) ==
    /\ req[r].step = "create" /\ (Crossing \/ ~claiming)
    /\ IF Cardinality({u \in User : life(u) \in {"ACTIVE", "PENDING_DELETE"}}) < MaxAccounts
       THEN \E u \in User : life(u) = "none" /\
              \E cred \in [inheriting(r) -> Credential] :
                 /\ \A d \in inheriting(r) : cred[d] \in credentialsOf(d)
                 /\ account' = [account EXCEPT ![u].life = "ACTIVE"]
                 /\ data' = [data EXCEPT ![u] = TRUE]
                 /\ trust' = [d \in Device |->
                       IF d \in inheriting(r) /\ trust[d][u].state = "none"
                       THEN [trust[d] EXCEPT ![u] = [state |-> "trusted", credential |-> cred[d]]]
                       ELSE trust[d]]
       ELSE UNCHANGED <<account, data, trust>>
    /\ end(r)
    /\ UNCHANGED <<now, todo, code, sweep, device, undone>>

StartDelete(d) ==
    /\ device[d].screen = "in" /\ device[d].undo = None /\ ~busy(d)
    /\ now + Grace + Allowance <= MaxTime
    /\ begin(d, device[d].user, "gate", now)
    /\ does("delete")
    /\ UNCHANGED <<now, account, data, code, trust, sweep, device, undone>>

DeleteGate(r) ==
    /\ req[r].step = "gate"
    /\ IF req[r].user \in active THEN to(r, "delete") ELSE end(r)
    /\ UNCHANGED <<now, todo, account, data, code, trust, sweep, device, undone>>

(* Mutant: the allowance for the network is forgotten. *)
graceEnd_exact(t) == t + Grace
graceEnd(t) == t + Grace + Allowance

DeleteUpdate(r) ==
    LET u == req[r].user IN
    /\ req[r].step = "delete"
    /\ IF u \in active
       THEN /\ account' = [account EXCEPT ![u] = [life |-> "PENDING_DELETE", purgeAfter |-> graceEnd(req[r].at)]]
            /\ undone' = undone \ {u}
       ELSE UNCHANGED <<account, undone>>
    /\ to(r, "answer")
    /\ UNCHANGED <<now, todo, data, code, trust, sweep, device>>

(* The device counts down what is left of the grace; 0 counts as unknown.    *)
DeleteAnswer(r) ==
    LET u == req[r].user
        left == account[u].purgeAfter - Allowance - req[r].at IN
    /\ req[r].step = "answer"
    /\ IF life(u) = "PENDING_DELETE"
       THEN device' = [device EXCEPT ![req[r].device].undo =
                          [user |-> u, until |-> now + (IF left > 0 THEN left ELSE Grace)]]
       ELSE UNCHANGED device
    /\ end(r)
    /\ UNCHANGED <<now, todo, account, data, code, trust, sweep, undone>>

StartUndo(d) ==
    LET undo == device[d].undo IN
    /\ undo # None /\ now <= undo.until
    /\ begin(d, undo.user, "restore", now)
    /\ device' = [device EXCEPT ![d].undo = None]
    /\ undone' = undone \cup {undo.user}
    /\ UNCHANGED <<now, todo, account, data, code, trust, sweep>>

(* An undo that is refused, or seems to be, goes on to the end of the         *)
(* deletion.                                                                  *)
finishes(r) == req' = [req EXCEPT ![r] = [@ EXCEPT !.step = "due", !.at = now]]

(* The Worker takes the time when the request reaches it; the answer may be   *)
(* lost.                                                                      *)
RestoreUpdate(r) ==
    LET u == req[r].user IN
    /\ req[r].step = "restore"
    /\ \E t \in req[r].at .. now :
          account' = IF life(u) = "PENDING_DELETE" /\ account[u].purgeAfter > t
                     THEN [account EXCEPT ![u] = [life |-> "ACTIVE", purgeAfter |-> 0]] ELSE account
    /\ finishes(r) \/ (account'[u].life = "ACTIVE" /\ end(r))
    /\ UNCHANGED <<now, todo, data, code, trust, sweep, device, undone>>

(* The countdown is over. *)
StartCommit(d) ==
    LET undo == device[d].undo IN
    /\ undo # None /\ now >= undo.until
    /\ begin(d, undo.user, "due", now)
    /\ device' = [device EXCEPT ![d].undo = None]
    /\ UNCHANGED <<now, todo, account, data, code, trust, sweep, undone>>

(* A device told that some of the grace is left asks again, four times at    *)
(* most, and leaves in the end; what it gives up is the sweep's.             *)
CommitDue(r) ==
    LET u == req[r].user IN
    /\ req[r].step = "due"
    /\ \/ \E t \in req[r].at .. now :
             /\ life(u) = "PENDING_DELETE" /\ account[u].purgeAfter <= t
             /\ req' = [req EXCEPT ![r] = [@ EXCEPT !.step = "flip", !.at = t]] /\ UNCHANGED device
       \/ /\ life(u) = "PENDING_DELETE" => account[u].purgeAfter > req[r].at
          /\ end(r) /\ opens(req[r].device, "gate", None)
    /\ UNCHANGED <<now, todo, account, data, code, trust, sweep, undone>>

doomed(u, t) == life(u) = "PENDING_DELETE" /\ account[u].purgeAfter <= t

(* purgeAccount: the account is flipped and wiped in one transaction. *)
Purge(u, t) ==
    IF doomed(u, t)
    THEN /\ account' = [account EXCEPT ![u] = [life |-> "DELETED", purgeAfter |-> 0]]
         /\ data' = [data EXCEPT ![u] = FALSE]
         /\ trust' = forgotten(u)
    ELSE UNCHANGED <<account, data, trust>>

CommitFlip(r) ==
    /\ req[r].step = "flip"
    /\ Purge(req[r].user, req[r].at)
    /\ end(r)
    /\ opens(req[r].device, "gate", None)
    /\ UNCHANGED <<now, todo, code, sweep, undone>>

(* The timer of every minute, or somebody who opens the list of accounts. *)
due(t) == {u \in User : life(u) = "PENDING_DELETE" /\ account[u].purgeAfter <= t}
deleted == {u \in User : life(u) = "DELETED"}
empty(u) == ~data[u] /\ \A d \in Device : trust[d][u].state = "none"

SweepList ==
    /\ sweep.step = "idle" /\ (due(now) # {} \/ \E u \in deleted : ~empty(u))
    /\ sweep' = [step |-> "due", at |-> now, listed |-> due(now)]
    /\ UNCHANGED <<now, todo, account, data, code, trust, req, device, undone>>

SweepPurge ==
    /\ sweep.step = "due"
    /\ \/ \E u \in sweep.listed :
             Purge(u, sweep.at) /\ sweep' = [sweep EXCEPT !.listed = @ \ {u}]
       \/ /\ sweep.listed = {} /\ UNCHANGED <<account, data, trust>>
          /\ sweep' = [sweep EXCEPT !.step = "recent"]
    /\ UNCHANGED <<now, todo, code, req, device, undone>>

(* Mutant: an account is swept only once. *)
recent_none == {}
recent == deleted

SweepRecent ==
    /\ sweep.step = "recent"
    /\ sweep' = [step |-> "wipe", at |-> 0, listed |-> recent]
    /\ UNCHANGED <<now, todo, account, data, code, trust, req, device, undone>>

SweepWipe ==
    /\ sweep.step = "wipe"
    /\ \/ \E u \in sweep.listed :
             /\ data' = [data EXCEPT ![u] = FALSE] /\ trust' = forgotten(u)
             /\ sweep' = [sweep EXCEPT !.listed = @ \ {u}]
       \/ sweep.listed = {} /\ sweep' = [sweep EXCEPT !.step = "idle"] /\ UNCHANGED <<data, trust>>
    /\ UNCHANGED <<now, todo, account, code, req, device, undone>>

(* Any other write of a session: the gate refuses deleted accounts only.     *)
StartWrite(d) ==
    /\ device[d].screen = "in" /\ device[d].undo = None /\ life(device[d].user) # "DELETED"
    /\ begin(d, device[d].user, "write", 0)
    /\ does("write")
    /\ UNCHANGED <<now, account, data, code, trust, sweep, device, undone>>

Write(r) ==
    /\ req[r].step = "write"
    /\ data' = [data EXCEPT ![req[r].user] = TRUE]
    /\ end(r)
    /\ UNCHANGED <<now, todo, account, code, trust, sweep, device, undone>>

-------------------------------------------------------------------------------
(* Leaving, installing again, time and failure. *)

(* A device that signs out for good, or everywhere, forgets its credential.  *)
leaves(d) == device' = [device EXCEPT ![d] = [screen |-> "gate", user |-> None,
                             credential |-> @.credential + 1, undo |-> None]]

revoked(d, u) == [trust[d] EXCEPT ![u].state = IF @ = "trusted" THEN "revoked" ELSE @]

(* A device that does not hear of its being signed out keeps what it has.    *)
Logout(d) ==
    /\ device[d].screen = "in" /\ ~busy(d) /\ mine(d) < MaxCredentials
    /\ \/ trust' = [trust EXCEPT ![d] = revoked(d, device[d].user)]
       \/ trust' = [e \in Device |-> revoked(e, device[d].user)]
    /\ leaves(d) \/ UNCHANGED device
    /\ does("logout")
    /\ UNCHANGED <<now, account, data, code, req, sweep, undone>>

(* Nothing of the device's is still under way when the application is        *)
(* installed again.                                                          *)
Reinstall(d) ==
    /\ ~busy(d) /\ mine(d) < MaxCredentials
    /\ leaves(d)
    /\ does("reinstall")
    /\ UNCHANGED <<now, account, data, code, trust, req, sweep, undone>>

(* The session ends, or somebody goes back to the list of accounts. *)
Leave(d) ==
    /\ device[d].screen = "in" /\ ~busy(d) /\ device[d].undo = None
    /\ opens(d, "gate", None)
    /\ does("leave")
    /\ UNCHANGED <<now, account, data, code, trust, req, sweep, undone>>

(* A Worker dies, a request is lost or is refused for another reason, its    *)
(* token among them: of the request nothing is left.  An undo is given up    *)
(* with the news, and the deletion goes on.                                  *)
Die(r) ==
    LET d == req[r].device IN
    /\ req[r].step # "free"
    /\ req[r].step \in {"list", "trust"} => Broken
    /\ IF req[r].step = "restore"
       THEN finishes(r) /\ undone' = undone \ {req[r].user}
       ELSE end(r) /\ UNCHANGED undone
    /\ IF req[r].step \in {"trusted", "account", "touch", "recover", "due", "flip"}
       THEN opens(d, "gate", None)
       ELSE UNCHANGED device
    /\ UNCHANGED <<now, todo, account, data, code, trust, sweep>>

(* Time is of no consequence while nothing is being deleted.                 *)
timed == \/ ~settled
         \/ \E r \in Slot : req[r].step \in {"gate", "delete", "answer", "restore", "due", "flip"}
         \/ \E d \in Device : device[d].undo # None

Tick ==
    /\ now < MaxTime /\ timed
    /\ \A r \in Slot : req[r].step \in {"gate", "delete", "answer", "restore", "due", "flip"} =>
                          Late \/ now < req[r].at + Patience
    /\ now' = now + 1
    /\ UNCHANGED <<todo, account, data, code, trust, req, sweep, device, undone>>

-------------------------------------------------------------------------------
Serve(r) ==
    \/ IssueTrusted(r) \/ IssueAccount(r) \/ IssueTouch(r) \/ Recover(r)
    \/ RequestClean(r) \/ RequestInsert(r)
    \/ ClaimSelect(r) \/ ClaimConsume(r) \/ ClaimList(r) \/ ClaimTrust(r)
    \/ Create(r) \/ DeleteGate(r) \/ DeleteUpdate(r) \/ DeleteAnswer(r)
    \/ RestoreUpdate(r) \/ CommitDue(r) \/ CommitFlip(r) \/ Write(r)

Sweeping == SweepList \/ SweepPurge \/ SweepRecent \/ SweepWipe

Next ==
    \/ \E d \in Device : \/ \E u \in User : Choose(d, u)
                         \/ ShowApproval(d) \/ Poll(d) \/ GiveUp(d)
                         \/ StartCreate(d) \/ StartDelete(d) \/ StartUndo(d) \/ StartCommit(d)
                         \/ StartWrite(d) \/ Logout(d) \/ Reinstall(d) \/ Leave(d)
    \/ \E c \in Code : Approve(c) \/ Expire(c)
    \/ \E r \in Slot : Serve(r) \/ Die(r)
    \/ Sweeping \/ Tick

Spec == Init /\ [][Next]_vars

(* The Worker and D1 go on with a request, time passes and the timer of      *)
(* every minute runs; a device keeps asking, and not every question dies.    *)
Asking == \E r \in Slot : ClaimSelect(r)
Consuming == \E r \in Slot : ClaimConsume(r)
FairSpec ==
    /\ Spec /\ WF_vars(Sweeping) /\ WF_vars(Tick)
    /\ \A r \in Slot : WF_vars(Serve(r))
    /\ \A d \in Device : SF_vars(Poll(d))
    /\ SF_vars(Asking) /\ SF_vars(Consuming)

-------------------------------------------------------------------------------
TypeOK ==
    /\ now \in Nat /\ todo \in [Act -> Nat]
    /\ account \in [User -> Account] /\ data \in [User -> BOOLEAN]
    /\ code \in [Code -> DeviceRequest]
    /\ trust \in [Device -> [User -> Trust]]
    /\ req \in [Slot -> Request] /\ sweep \in Sweep
    /\ device \in [Device -> DeviceState] /\ undone \subseteq User

(* A device that can open one account can open every one but those it was    *)
(* signed out of: whoever is claimed, created, recovered, deleted or taken   *)
(* back meanwhile (accounts.ts:157: an approved device trusts all accounts   *)
(* of the group).                                                            *)
CanOpenAll ==
    \A d \in Device : (\E u \in active : usable(d, mine(d), u)) =>
        \A u \in active : usable(d, mine(d), u) \/ trust[d][u].state = "revoked"

(* Three prompt requests fit into the allowance: two deletions of one account *)
(* that cross, and an undo.  The code does not see to it; the property below  *)
(* rests on it.                                                               *)
Timely == Patience < Grace /\ 3 * Patience < Allowance

(* An account whose deletion is taken back while the device still counts     *)
(* down is not wiped, by whomever and whenever the wiping was begun, unless  *)
(* the undo was cut off, and none is wiped while a device counts down        *)
(* (accounts.ts:27: nothing is wiped before the grace the user saw is over). *)
UndoInTime ==
    /\ \A u \in undone : life(u) # "DELETED"
    /\ \A d \in Device : device[d].undo # None /\ now < device[d].undo.until
                            => life(device[d].undo.user) # "DELETED"

(* A write or a claim that was let through before an account was wiped may   *)
(* leave rows of it behind: they do not stay (purgeExpired sweeps again).    *)
DeletedIsGone == \A u \in User : (life(u) = "DELETED" /\ ~empty(u)) ~> empty(u)

(* A device that waits with an approved code is let in to some account       *)
(* there is, unless the code expires first or the device starts anew.        *)
ApprovedGetsIn ==
    \A d \in Device, c \in Code :
        (/\ device[d].screen = "code" /\ code[c].device = d /\ code[c].state = "approved"
         /\ ~code[c].expired /\ code[c].credential = mine(d))
        ~> \/ \E u \in active : usable(d, mine(d), u)
           \/ active = {} \/ code[c].expired \/ code[c].credential # mine(d)

-------------------------------------------------------------------------------
(* What the code does not keep (README, 'Known departures')                  *)

(* An undo pressed while the device counts down gives the account back.  One  *)
(* that is lost, or whose token expired in the grace, does not.               *)
PressedIsKept ==
    [][\A r \in Slot, u \in User :
            (req[r].step = "restore" /\ req[r].user = u /\ req'[r].step # "restore")
                => account'[u].life = "ACTIVE"]_vars
===============================================================================
