--------------------------- MODULE DeviceTrustProofs ---------------------------
(***************************************************************************)
(* Proofs about DeviceTrust, for any accounts, devices, plans and bounds.    *)
(* Where no request about deletion takes longer than a Patience, and three   *)
(* of them fit into the Allowance, an account whose deletion is taken back   *)
(* in time is not wiped.  Where nobody is let in while an account is created or *)
(* in its grace, whoever can open one account can open them all.             *)
(***************************************************************************)
EXTENDS DeviceTrust, TLAPS

(* Steps of a deletion, which are prompt, and steps about one account. *)
Ending == {"gate", "delete", "answer", "restore", "due", "flip"}
Named == Ending \cup {"trusted", "account", "touch", "recover", "write"}

RequestOK(q, t) ==
    /\ q \in Request
    /\ q.step \in Named => q.user \in User
    /\ q.step \in Ending => q.at <= t /\ (Late \/ t <= q.at + Patience)

Requests == req \in [Slot -> Request] /\ \A r \in Slot : RequestOK(req[r], now)

DeviceOK(e) == e \in DeviceState /\ (e.screen = "in" => e.user \in User)
Devices == device \in [Device -> DeviceState] /\ \A d \in Device : DeviceOK(device[d])

Rows ==
    /\ now \in Nat /\ todo \in [Act -> Nat]
    /\ data \in [User -> BOOLEAN] /\ code \in [Code -> DeviceRequest]
    /\ trust \in [Device -> [User -> Trust]]
    /\ sweep \in Sweep /\ sweep.at <= now /\ undone \subseteq User

(* What is still to pass of a grace is never more than a grace. *)
Accounts ==
    /\ account \in [User -> Account]
    /\ \A u \in User : life(u) = "PENDING_DELETE" => account[u].purgeAfter <= now + Grace + Allowance

(* What is said of times rests on how long answers take. *)
Prompt == ~Late /\ Timely

(* Who is told of a grace asked for the deletion before the grace is over.   *)
Answering == Prompt => \A r \in Slot :
    (req[r].step \in {"delete", "answer"} /\ life(req[r].user) = "PENDING_DELETE") =>
        req[r].at + Allowance < account[req[r].user].purgeAfter

(* A countdown on a screen ends before the account may go. *)
Counting == Prompt => \A d \in Device : device[d].undo # None =>
    LET u == device[d].undo.user
        w == device[d].undo.until IN
    /\ w <= now + Grace + Patience
    /\ life(u) = "PENDING_DELETE" => w + Patience < account[u].purgeAfter
    /\ life(u) = "DELETED" => w < now

(* Of a deletion taken back in time, the request is on its way and early. *)
Undoing == Prompt => \A u \in undone :
    /\ life(u) # "DELETED"
    /\ life(u) = "PENDING_DELETE" =>
         \E r \in Slot : /\ req[r].step = "restore" /\ req[r].user = u
                         /\ req[r].at + Patience < account[u].purgeAfter

Typed == Rows /\ Accounts /\ Requests /\ Devices
IInv == Typed /\ Answering /\ Counting /\ Undoing

-------------------------------------------------------------------------------
(* Facts about requests and devices *)

LEMMA Numbers ==
    /\ Grace \in Nat /\ Allowance \in Nat /\ Patience \in Nat /\ MaxCredentials \in Nat
    /\ 1 \in Credential
  BY DeviceTrustAssumption, SMT DEF Credential

LEMMA IdleOK ==
    ASSUME NEW t \in Nat
    PROVE  RequestOK(Idle, t)
  <1>1. Idle \in Request
    BY Numbers, SMT DEF Idle, Request, Step
  <1> QED BY <1>1, SMT DEF RequestOK, Idle, Named, Ending

(* A request goes on to another statement. *)
LEMMA StepOK ==
    ASSUME NEW q \in Request, NEW s \in Step, NEW t \in Nat, RequestOK(q, t),
           s \in Named => q.user \in User, s \in Ending => q.step \in Ending
    PROVE  LET p == [q EXCEPT !.step = s] IN
           RequestOK(p, t) /\ p.step = s /\ p.user = q.user /\ p.at = q.at
  <1>1. [q EXCEPT !.step = s] \in Request
    BY SMT DEF Request
  <1>2. LET p == [q EXCEPT !.step = s] IN p.step = s /\ p.user = q.user /\ p.at = q.at
    BY SMT DEF Request
  <1> QED BY <1>1, <1>2 DEF RequestOK

LEMMA PutRequest ==
    ASSUME Requests, NEW r \in Slot, NEW q, RequestOK(q, now), now' = now,
           req' = [req EXCEPT ![r] = q]
    PROVE  Requests'
  BY Zenon DEF Requests, RequestOK

LEMMA PutDevice ==
    ASSUME Devices, NEW d \in Device, NEW e, DeviceOK(e), device' = [device EXCEPT ![d] = e]
    PROVE  Devices'
  BY Zenon DEF Devices, DeviceOK

(* A screen changes and with it, or not, whom it is about. *)
LEMMA ScreenOK ==
    ASSUME NEW e \in DeviceState, DeviceOK(e), NEW s \in Screen \ {"in"}
    PROVE  LET f == [e EXCEPT !.screen = s] IN DeviceOK(f) /\ f.undo = e.undo
  <1>1. LET f == [e EXCEPT !.screen = s] IN
        f \in DeviceState /\ f.screen = s /\ f.undo = e.undo
    BY SMT DEF DeviceState
  <1> QED BY <1>1 DEF DeviceOK

LEMMA ScreenUserOK ==
    ASSUME NEW e \in DeviceState, NEW s \in Screen, NEW u \in User \cup {None},
           s = "in" => u \in User
    PROVE  LET f == [e EXCEPT !.screen = s, !.user = u] IN DeviceOK(f) /\ f.undo = e.undo
  <1> DEFINE g == [e EXCEPT !.screen = s]
             f == [g EXCEPT !.user = u]
  <1>1. g \in DeviceState /\ g.screen = s /\ g.undo = e.undo
    BY SMT DEF DeviceState
  <1> HIDE DEF g
  <1>2. f \in DeviceState /\ f.screen = s /\ f.user = u /\ f.undo = e.undo
    BY <1>1, SMT DEF DeviceState
  <1>3. f = [e EXCEPT !.screen = s, !.user = u]
    BY DEF g
  <1> QED BY <1>2, <1>3 DEF DeviceOK

LEMMA UndoOK ==
    ASSUME NEW e \in DeviceState, DeviceOK(e), NEW o \in {None} \cup [user : User, until : Nat]
    PROVE  LET f == [e EXCEPT !.undo = o] IN DeviceOK(f) /\ f.undo = o
  <1>1. LET f == [e EXCEPT !.undo = o] IN
        f \in DeviceState /\ f.screen = e.screen /\ f.user = e.user /\ f.undo = o
    BY SMT DEF DeviceState
  <1> QED BY <1>1 DEF DeviceOK

(* What a new request is. *)
LEMMA Begun ==
    ASSUME Requests, Devices, now \in Nat, NEW d \in Device, NEW u \in User \cup {None},
           NEW s \in Step, NEW t \in Nat, begin(d, u, s, t),
           s \in Named => u \in User, s \in Ending => t = now
    PROVE  \E r \in Slot : /\ req[r] = Idle /\ req' = [req EXCEPT ![r] = asking(d, u, s, t)]
                           /\ RequestOK(asking(d, u, s, t), now)
                           /\ asking(d, u, s, t).step = s
                           /\ asking(d, u, s, t).user = u /\ asking(d, u, s, t).at = t
  <1> DEFINE r0 == CHOOSE r \in Slot : req[r] = Idle
  <1>1. r0 \in Slot /\ req[r0] = Idle
    BY DEF begin
  <1>2. mine(d) \in Credential
    BY SMT DEF Devices, DeviceState, mine
  <1>3. asking(d, u, s, t) \in Request
    BY <1>2, SMT DEF asking, Request
  <1>4. /\ asking(d, u, s, t).step = s /\ asking(d, u, s, t).user = u
        /\ asking(d, u, s, t).at = t
    BY DEF asking
  <1>5. RequestOK(asking(d, u, s, t), now)
    BY <1>3, <1>4, Numbers, SMT DEF RequestOK
  <1> QED BY <1>1, <1>4, <1>5 DEF begin

-------------------------------------------------------------------------------
(* Steps that leave the accounts as they are *)

(* A countdown may end, and a request other than an undo may go on. *)
LEMMA Quiet ==
    ASSUME IInv, NEW r \in Slot, NEW q, RequestOK(q, now), req' = [req EXCEPT ![r] = q],
           req[r].step # "restore",
           (Prompt /\ q.step \in {"delete", "answer"} /\ life(q.user) = "PENDING_DELETE") =>
               q.at + Allowance < account[q.user].purgeAfter,
           UNCHANGED <<now, account, undone>>,
           \A d \in Device : device'[d].undo \in {device[d].undo, None}
    PROVE  Requests' /\ Accounts' /\ Answering' /\ Counting' /\ Undoing'
  <1>1. Requests'
    BY PutRequest DEF IInv, Typed
  <1>2. Accounts'
    BY DEF IInv, Typed, Accounts, life
  <1>3. \A p \in Slot : req'[p] = IF p = r THEN q ELSE req[p]
    BY Zenon DEF IInv, Typed, Requests
  <1>4. Answering'
    BY <1>3 DEF IInv, Answering, life, Prompt, Timely
  <1>5. Counting'
    BY DEF IInv, Counting, life, Prompt, Timely
  <1>6. Undoing'
    <2> SUFFICES ASSUME Prompt, NEW u \in undone
                 PROVE  /\ life(u) # "DELETED"
                        /\ life(u) = "PENDING_DELETE" =>
                             \E p \in Slot : /\ req'[p].step = "restore" /\ req'[p].user = u
                                             /\ req'[p].at + Patience < account[u].purgeAfter
      BY DEF Undoing, life, Prompt, Timely
    <2>1. /\ life(u) # "DELETED"
          /\ life(u) = "PENDING_DELETE" =>
               \E p \in Slot : /\ req[p].step = "restore" /\ req[p].user = u
                               /\ req[p].at + Patience < account[u].purgeAfter
      BY DEF IInv, Undoing, Prompt, Timely
    <2> QED BY <2>1, <1>3
  <1> QED BY <1>1, <1>2, <1>4, <1>5, <1>6

LEMMA Still ==
    ASSUME IInv, UNCHANGED <<now, account, undone, req>>,
           \A d \in Device : device'[d].undo \in {device[d].undo, None}
    PROVE  Requests' /\ Accounts' /\ Answering' /\ Counting' /\ Undoing'
  <1>1. Requests' /\ Accounts'
    BY DEF IInv, Typed, Requests, Accounts, life
  <1>2. Answering' /\ Undoing'
    BY DEF IInv, Answering, Undoing, life, Prompt, Timely
  <1>3. Counting'
    BY DEF IInv, Counting, life, Prompt, Timely
  <1> QED BY <1>1, <1>2, <1>3

-------------------------------------------------------------------------------
(* Steps about sessions, codes and claims *)

(* A device's screen, and no more, changes. *)
LEMMA OneScreen ==
    ASSUME Devices, NEW d, NEW e, d \in Device => DeviceOK(e) /\ e.undo \in {device[d].undo, None},
           device' = [device EXCEPT ![d] = e]
    PROVE  Devices' /\ \A c \in Device : device'[c].undo \in {device[c].undo, None}
  <1>1. CASE d \notin Device
    <2>1. device' = device
      BY <1>1, Zenon DEF Devices
    <2> QED BY <2>1 DEF Devices
  <1>2. CASE d \in Device
    <2>1. Devices'
      BY <1>2, PutDevice
    <2>2. \A c \in Device : device'[c] = IF c = d THEN e ELSE device[c]
      BY Zenon DEF Devices
    <2> QED BY <1>2, <2>1, <2>2
  <1> QED BY <1>1, <1>2

LEMMA SameScreens ==
    ASSUME Devices, UNCHANGED device
    PROVE  Devices' /\ \A c \in Device : device'[c].undo \in {device[c].undo, None}
  BY DEF Devices

(* shows(d, s), for any screen but the inside. *)
LEMMA Shown ==
    ASSUME Devices, NEW d, NEW s \in Screen \ {"in"}, shows(d, s)
    PROVE  Devices' /\ \A c \in Device : device'[c].undo \in {device[c].undo, None}
  <1> DEFINE e == [device[d] EXCEPT !.screen = s]
  <1>1. d \in Device => DeviceOK(e) /\ e.undo = device[d].undo
    BY ScreenOK DEF Devices
  <1>2. device' = [device EXCEPT ![d] = e]
    BY DEF shows
  <1> HIDE DEF e
  <1> QED BY <1>1, <1>2, OneScreen

(* opens(d, s, u) *)
LEMMA Opened ==
    ASSUME Devices, NEW d, NEW s \in Screen, NEW u \in User \cup {None}, s = "in" => u \in User,
           opens(d, s, u)
    PROVE  Devices' /\ \A c \in Device : device'[c].undo \in {device[c].undo, None}
  <1> DEFINE e == [device[d] EXCEPT !.screen = s, !.user = u]
  <1>1. d \in Device => DeviceOK(e) /\ e.undo = device[d].undo
    BY ScreenUserOK DEF Devices
  <1>2. device' = [device EXCEPT ![d] = e]
    BY DEF opens
  <1> HIDE DEF e
  <1> QED BY <1>1, <1>2, OneScreen

(* A request that is not about the end of an account goes on, or ends. *)
LEMMA OnOrOver ==
    ASSUME IInv, NEW r \in Slot, NEW q, RequestOK(q, now), req' = [req EXCEPT ![r] = q],
           req[r].step # "restore", q.step \notin {"delete", "answer"},
           UNCHANGED <<now, account, undone>>, Devices',
           \A d \in Device : device'[d].undo \in {device[d].undo, None}, Rows'
    PROVE  IInv'
  <1>1. Requests' /\ Accounts' /\ Answering' /\ Counting' /\ Undoing'
    BY Quiet
  <1> QED BY <1>1 DEF IInv, Typed

(* A request's next statement is s. *)
LEMMA Onward ==
    ASSUME IInv, NEW r \in Slot, NEW s \in Step \ {"delete", "answer"}, to(r, s),
           s \in Named => req[r].user \in User, s \in Ending => req[r].step \in Ending
    PROVE  \E q : RequestOK(q, now) /\ req' = [req EXCEPT ![r] = q] /\ q.step = s
  <1> DEFINE q == [req[r] EXCEPT !.step = s]
  <1>1. /\ req[r] \in Request /\ RequestOK(req[r], now) /\ now \in Nat
    BY DEF IInv, Typed, Rows, Requests
  <1>2. RequestOK(q, now) /\ q.step = s
    BY <1>1, StepOK
  <1>3. req' = [req EXCEPT ![r] = q]
    BY DEF to
  <1> HIDE DEF q
  <1> QED BY <1>2, <1>3

LEMMA Over ==
    ASSUME IInv, NEW r \in Slot, end(r)
    PROVE  \E q : RequestOK(q, now) /\ req' = [req EXCEPT ![r] = q] /\ q.step = "free"
  <1>1. RequestOK(Idle, now)
    BY IdleOK DEF IInv, Typed, Rows
  <1>2. Idle.step = "free"
    BY DEF Idle
  <1>3. req' = [req EXCEPT ![r] = Idle]
    BY DEF end
  <1> QED BY <1>1, <1>2, <1>3

(* The rows of the tables are what they were, or of their types. *)
LEMMA SameRows ==
    ASSUME IInv, UNCHANGED <<now, todo, data, code, trust, sweep, undone>>
    PROVE  Rows'
  BY DEF IInv, Typed, Rows

LEMMA Asked ==
    ASSUME IInv, NEW r \in Slot
    PROVE  /\ req[r] \in Request /\ RequestOK(req[r], now) /\ now \in Nat
           /\ req[r].step \in Named => req[r].user \in User
           /\ req[r].step \in Ending => req[r].at <= now /\ (Late \/ now <= req[r].at + Patience)
           /\ req[r].user \in User \cup {None} /\ req[r].at \in Nat
           /\ req[r].credential \in Credential /\ req[r].listed \in SUBSET User
  <1>1. /\ req[r] \in Request /\ RequestOK(req[r], now) /\ now \in Nat
    BY DEF IInv, Typed, Rows, Requests
  <1>2. /\ req[r].user \in User \cup {None} /\ req[r].at \in Nat
        /\ req[r].credential \in Credential /\ req[r].listed \in SUBSET User
    BY <1>1, SMT DEF Request
  <1> QED BY <1>1, <1>2 DEF RequestOK

LEMMA Device_ ==
    ASSUME IInv, NEW d \in Device
    PROVE  /\ device[d] \in DeviceState /\ DeviceOK(device[d])
           /\ device[d].screen = "in" => device[d].user \in User
           /\ device[d].credential \in Credential
           /\ device[d].undo # None => device[d].undo.user \in User /\ device[d].undo.until \in Nat
  <1>1. device[d] \in DeviceState /\ DeviceOK(device[d])
    BY DEF IInv, Typed, Devices
  <1>2. /\ device[d].credential \in Credential
        /\ device[d].undo # None => device[d].undo.user \in User /\ device[d].undo.until \in Nat
    BY <1>1, SMT DEF DeviceState
  <1> QED BY <1>1, <1>2 DEF DeviceOK

(* A device's new request, about no undo and no answer. *)
LEMMA NewRequest ==
    ASSUME IInv, NEW d \in Device, NEW u \in User \cup {None},
           NEW s \in Step \ {"delete", "answer", "restore"}, NEW t \in Nat, begin(d, u, s, t),
           s \in Named => u \in User, s \in Ending => t = now
    PROVE  \E r \in Slot : \E q : /\ RequestOK(q, now) /\ req' = [req EXCEPT ![r] = q] /\ q.step = s
                                  /\ req[r].step # "restore"
  <1>1. Requests /\ Devices /\ now \in Nat
    BY DEF IInv, Typed, Rows
  <1>2. Idle.step # "restore"
    BY DEF Idle
  <1> QED BY <1>1, <1>2, Begun

LEMMA Progress ==
    ASSUME IInv, NEW r \in Slot, NEW q, RequestOK(q, now), req' = [req EXCEPT ![r] = q],
           req[r].step # "restore", q.step \notin {"delete", "answer"},
           UNCHANGED <<now, account, undone>>, Rows',
           \/ UNCHANGED device
           \/ \E d : \E s \in Screen \ {"in"} : shows(d, s)
           \/ \E d : \E s \in Screen : \E u \in User \cup {None} : (s = "in" => u \in User) /\ opens(d, s, u)
    PROVE  IInv'
  <1>1. Devices
    BY DEF IInv, Typed
  <1>2. Devices' /\ \A c \in Device : device'[c].undo \in {device[c].undo, None}
    BY <1>1, SameScreens, Shown, Opened
  <1> QED BY <1>2, OnOrOver

(* The plans only shrink. *)
LEMMA Planned ==
    ASSUME IInv, NEW a \in Act, does(a)
    PROVE  todo' \in [Act -> Nat]
  <1>1. todo \in [Act -> Nat] /\ todo[a] > 0 /\ todo' = [todo EXCEPT ![a] = @ - 1]
    BY DEF IInv, Typed, Rows, does
  <1> QED BY <1>1, SMT

(* Signing in. *)
LEMMA ChooseOK == ASSUME IInv, NEW d \in Device, NEW u \in User, Choose(d, u) PROVE IInv'
  <1>1. begin(d, u, "trusted", 0) /\ opens(d, "entering", u)
        /\ UNCHANGED <<now, todo, account, data, code, trust, sweep, undone>>
    BY DEF Choose
  <1>2. Rows'
    BY <1>1, SameRows
  <1>3. "trusted" \in Step \ {"delete", "answer", "restore"} /\ "trusted" \notin Ending /\ 0 \in Nat
        /\ "entering" \in Screen /\ "entering" # "in" /\ "trusted" \notin {"delete", "answer"}
    BY DEF Step, Ending, Screen
  <1>4. \E r \in Slot : \E q : /\ RequestOK(q, now) /\ req' = [req EXCEPT ![r] = q] /\ q.step = "trusted"
                               /\ req[r].step # "restore"
    BY <1>1, <1>3, NewRequest
  <1> QED BY <1>1, <1>2, <1>3, <1>4, Progress

(* A step of a request that is over, or goes on to s. *)
LEMMA Went ==
    ASSUME IInv, NEW r \in Slot, NEW s \in Step \ {"delete", "answer"}, req[r].step # "restore",
           s \in Named => req[r].user \in User, s \in Ending => req[r].step \in Ending,
           to(r, s) \/ end(r),
           UNCHANGED <<now, account, undone>>, Rows',
           \/ UNCHANGED device
           \/ \E d : \E o \in Screen \ {"in"} : shows(d, o)
           \/ \E d : \E o \in Screen : \E u \in User \cup {None} : (o = "in" => u \in User) /\ opens(d, o, u)
    PROVE  IInv'
  <1>1. \E q : RequestOK(q, now) /\ req' = [req EXCEPT ![r] = q] /\ q.step \notin {"delete", "answer"}
    BY Onward, Over
  <1> QED BY <1>1, Progress

LEMMA RefusedOK ==
    ASSUME IInv, NEW r \in Slot, refused(r), req[r].step # "restore", req[r].user \in User,
           UNCHANGED <<now, account, undone>>, Rows'
    PROVE  IInv'
  <1>1. "recover" \in Step \ {"delete", "answer"} /\ "recover" \notin Ending
        /\ "refused" \in Screen \ {"in"}
    BY DEF Step, Ending, Screen
  <1>2. \/ end(r) /\ shows(req[r].device, "refused")
        \/ to(r, "recover") /\ UNCHANGED device
    BY DEF refused
  <1> QED BY <1>1, <1>2, Went

LEMMA IssueTrustedOK == ASSUME IInv, NEW r \in Slot, IssueTrusted(r) PROVE IInv'
  <1>1. req[r].step = "trusted" /\ req[r].step \in Named /\ req[r].step # "restore"
        /\ "account" \in Step \ {"delete", "answer"} /\ "account" \notin Ending
    BY DEF IssueTrusted, Named, Step, Ending
  <1>2. UNCHANGED <<now, todo, account, data, code, trust, sweep, undone>>
    BY DEF IssueTrusted
  <1>3. Rows' /\ req[r].user \in User
    BY <1>1, <1>2, SameRows, Asked
  <1>4. (to(r, "account") /\ UNCHANGED device) \/ refused(r)
    BY DEF IssueTrusted
  <1> QED BY <1>1, <1>2, <1>3, <1>4, Went, RefusedOK

LEMMA IssueAccountOK == ASSUME IInv, NEW r \in Slot, IssueAccount(r) PROVE IInv'
  <1>1. req[r].step = "account" /\ req[r].step \in Named /\ req[r].step # "restore"
        /\ "touch" \in Step \ {"delete", "answer"} /\ "touch" \notin Ending /\ "gate" \in Screen /\ "gate" # "in"
    BY DEF IssueAccount, Named, Step, Ending, Screen
  <1>2. UNCHANGED <<now, todo, account, data, code, trust, sweep, undone>>
    BY DEF IssueAccount
  <1>3. Rows' /\ req[r].user \in User
    BY <1>1, <1>2, SameRows, Asked
  <1>4. (to(r, "touch") /\ UNCHANGED device) \/ (end(r) /\ opens(req[r].device, "gate", None))
    BY DEF IssueAccount
  <1>5. CASE to(r, "touch") /\ UNCHANGED device
    BY <1>1, <1>2, <1>3, <1>5, Went
  <1>6. CASE end(r) /\ opens(req[r].device, "gate", None)
    BY <1>1, <1>2, <1>3, <1>6, Went
  <1> QED BY <1>4, <1>5, <1>6

LEMMA IssueTouchOK == ASSUME IInv, NEW r \in Slot, IssueTouch(r) PROVE IInv'
  <1>1. req[r].step = "touch" /\ req[r].step \in Named /\ req[r].step # "restore"
        /\ "free" \in Step \ {"delete", "answer"} /\ "free" \notin Named /\ "free" \notin Ending /\ "in" \in Screen
    BY DEF IssueTouch, Named, Step, Ending, Screen
  <1>2. UNCHANGED <<now, todo, account, data, code, trust, sweep, undone>>
    BY DEF IssueTouch
  <1>3. Rows' /\ req[r].user \in User
    BY <1>1, <1>2, SameRows, Asked
  <1>4. (end(r) /\ opens(req[r].device, "in", req[r].user)) \/ refused(r)
    BY DEF IssueTouch
  <1>5. CASE end(r) /\ opens(req[r].device, "in", req[r].user)
    BY <1>1, <1>2, <1>3, <1>5, Went
  <1>6. CASE refused(r)
    BY <1>1, <1>2, <1>3, <1>6, RefusedOK
  <1> QED BY <1>4, <1>5, <1>6

(* Rows of the tables that change keep their types. *)
LEMMA RowsOK ==
    ASSUME IInv, UNCHANGED <<now, sweep, undone>>, todo' = todo \/ todo' \in [Act -> Nat],
           data' = data \/ data' \in [User -> BOOLEAN],
           code' = code \/ code' \in [Code -> DeviceRequest],
           trust' = trust \/ trust' \in [Device -> [User -> Trust]]
    PROVE  Rows'
  BY Zenon DEF IInv, Typed, Rows

LEMMA AgainOK ==
    ASSUME NEW p \in Request, NEW b \in BOOLEAN
    PROVE  LET q == [p EXCEPT !.again = b] IN
           q \in Request /\ q.step = p.step /\ q.user = p.user /\ q.at = p.at
  BY SMT DEF Request

LEMMA RecoverOK == ASSUME IInv, NEW r \in Slot, Recover(r) PROVE IInv'
  <1> DEFINE d == req[r].device
             rows == {u \in User : trust[d][u].state = "trusted"}
             row(u) == IF u \in rows THEN [state |-> "trusted", credential |-> req[r].credential] ELSE trust[d][u]
  <1>1. req[r].step = "recover" /\ req[r].step \in Named /\ req[r].step # "restore"
        /\ "trusted" \in Step \ {"delete", "answer"} /\ "trusted" \notin Ending /\ "refused" \in Screen \ {"in"}
    BY DEF Recover, Named, Step, Ending, Screen
  <1>2. UNCHANGED <<now, todo, account, data, code, sweep, undone>>
    BY DEF Recover
  <1>3. /\ req[r].user \in User /\ req[r].credential \in Credential /\ req[r] \in Request
        /\ RequestOK(req[r], now) /\ now \in Nat
    BY <1>1, Asked
  <1>4. trust \in [Device -> [User -> Trust]]
    BY DEF IInv, Typed, Rows
  <1>5. trust' = [trust EXCEPT ![d] = [u \in User |-> row(u)]]
    BY DEF Recover
  <1>6. \A u \in User : d \in Device => row(u) \in Trust
    BY <1>3, <1>4, SMT DEF Trust
  <1>7. trust' \in [Device -> [User -> Trust]]
    <2>1. d \in Device => [u \in User |-> row(u)] \in [User -> Trust]
      BY <1>6
    <2> HIDE DEF row
    <2> QED BY <1>4, <1>5, <2>1, Zenon
  <1>8. Rows'
    BY <1>2, <1>7, RowsOK
  <1>9. CASE end(r) /\ shows(d, "refused")
    BY <1>1, <1>2, <1>3, <1>8, <1>9, Went
  <1>10. CASE req' = [req EXCEPT ![r] = [@ EXCEPT !.step = "trusted", !.again = TRUE]] /\ UNCHANGED device
    <2> DEFINE p == [req[r] EXCEPT !.step = "trusted"]
               q == [p EXCEPT !.again = TRUE]
    <2>1. p \in Request /\ RequestOK(p, now) /\ p.step = "trusted" /\ p.user \in User
      <3>1. "trusted" \in Named => req[r].user \in User
        BY <1>3
      <3> QED BY <1>1, <1>3, <3>1, StepOK, SMT DEF RequestOK
    <2> HIDE DEF p
    <2>2. q \in Request /\ q.step = "trusted" /\ q.user = p.user
      BY <2>1, AgainOK
    <2>3. RequestOK(q, now)
      BY <1>1, <2>1, <2>2 DEF RequestOK
    <2>4. req' = [req EXCEPT ![r] = q]
      <3>1. q = [req[r] EXCEPT !.step = "trusted", !.again = TRUE]
        BY DEF p
      <3>2. req' = [req EXCEPT ![r] = [req[r] EXCEPT !.step = "trusted", !.again = TRUE]]
        BY <1>10
      <3> QED BY <3>1, <3>2, Zenon
    <2> HIDE DEF q
    <2> QED BY <1>1, <1>2, <1>8, <1>10, <2>2, <2>3, <2>4, Progress
  <1> QED BY <1>9, <1>10 DEF Recover

-------------------------------------------------------------------------------
(* A device's request that leaves the accounts alone. *)
LEMMA Began ==
    ASSUME IInv, NEW d \in Device, NEW u \in User \cup {None},
           NEW s \in Step \ {"delete", "answer", "restore"}, NEW t \in Nat, begin(d, u, s, t),
           s \in Named => u \in User, s \in Ending => t = now,
           UNCHANGED <<now, account, undone>>, Rows',
           \/ UNCHANGED device
           \/ \E c : \E o \in Screen \ {"in"} : shows(c, o)
    PROVE  IInv'
  <1>1. \E r \in Slot : \E q : /\ RequestOK(q, now) /\ req' = [req EXCEPT ![r] = q] /\ q.step = s
                               /\ req[r].step # "restore"
    BY NewRequest
  <1> QED BY <1>1, Progress

LEMMA ShowApprovalOK == ASSUME IInv, NEW d \in Device, ShowApproval(d) PROVE IInv'
  <1>1. begin(d, None, "clean", 0) /\ shows(d, "code") /\ does("pair")
        /\ UNCHANGED <<now, account, data, code, trust, sweep, undone>>
    BY DEF ShowApproval
  <1>2. Rows'
    <2>1. "pair" \in Act
      BY DEF Act
    <2> QED BY <1>1, <2>1, Planned, RowsOK
  <1>3. "clean" \in Step \ {"delete", "answer", "restore"} /\ "clean" \notin Named
        /\ "clean" \notin Ending /\ "code" \in Screen \ {"in"} /\ 0 \in Nat
    BY DEF Step, Named, Ending, Screen
  <1> QED BY <1>1, <1>2, <1>3, Began

LEMMA PollOK == ASSUME IInv, NEW d \in Device, Poll(d) PROVE IInv'
  <1>1. begin(d, None, "select", 0)
        /\ UNCHANGED <<now, todo, account, data, code, trust, sweep, device, undone>>
    BY DEF Poll
  <1>2. Rows'
    BY <1>1, SameRows
  <1>3. "select" \in Step \ {"delete", "answer", "restore"} /\ "select" \notin Named
        /\ "select" \notin Ending /\ 0 \in Nat
    BY DEF Step, Named, Ending
  <1> QED BY <1>1, <1>2, <1>3, Began

LEMMA StartCreateOK == ASSUME IInv, NEW d \in Device, StartCreate(d) PROVE IInv'
  <1>1. begin(d, None, "create", 0) /\ does("create")
        /\ UNCHANGED <<now, account, data, code, trust, sweep, device, undone>>
    BY DEF StartCreate
  <1>2. Rows'
    <2>1. "create" \in Act
      BY DEF Act
    <2> QED BY <1>1, <2>1, Planned, RowsOK
  <1>3. "create" \in Step \ {"delete", "answer", "restore"} /\ "create" \notin Named
        /\ "create" \notin Ending /\ 0 \in Nat
    BY DEF Step, Named, Ending
  <1> QED BY <1>1, <1>2, <1>3, Began

LEMMA StartDeleteOK == ASSUME IInv, NEW d \in Device, StartDelete(d) PROVE IInv'
  <1>1. begin(d, device[d].user, "gate", now) /\ does("delete") /\ device[d].screen = "in"
        /\ UNCHANGED <<now, account, data, code, trust, sweep, device, undone>>
    BY DEF StartDelete
  <1>2. Rows'
    <2>1. "delete" \in Act
      BY DEF Act
    <2> QED BY <1>1, <2>1, Planned, RowsOK
  <1>3. "gate" \in Step \ {"delete", "answer", "restore"}
    BY DEF Step
  <1>4. device[d].user \in User /\ now \in Nat
    BY <1>1, Device_ DEF IInv, Typed, Rows
  <1> QED BY <1>1, <1>2, <1>3, <1>4, Began

LEMMA StartWriteOK == ASSUME IInv, NEW d \in Device, StartWrite(d) PROVE IInv'
  <1>1. begin(d, device[d].user, "write", 0) /\ does("write") /\ device[d].screen = "in"
        /\ UNCHANGED <<now, account, data, code, trust, sweep, device, undone>>
    BY DEF StartWrite
  <1>2. Rows'
    <2>1. "write" \in Act
      BY DEF Act
    <2> QED BY <1>1, <2>1, Planned, RowsOK
  <1>3. "write" \in Step \ {"delete", "answer", "restore"} /\ "write" \notin Ending /\ 0 \in Nat
    BY DEF Step, Ending
  <1>4. device[d].user \in User
    BY <1>1, Device_
  <1> QED BY <1>1, <1>2, <1>3, <1>4, Began

LEMMA StartCommitOK == ASSUME IInv, NEW d \in Device, StartCommit(d) PROVE IInv'
  <1>1. begin(d, device[d].undo.user, "due", now) /\ device[d].undo # None
        /\ UNCHANGED <<now, todo, account, data, code, trust, sweep, undone>>
    BY DEF StartCommit
  <1>2. Rows'
    BY <1>1, SameRows
  <1>3. "due" \in Step \ {"delete", "answer", "restore"}
    BY DEF Step
  <1>4. device[d].undo.user \in User /\ now \in Nat
    BY <1>1, Device_ DEF IInv, Typed, Rows
  <1>5. \E r \in Slot : \E q : /\ RequestOK(q, now) /\ req' = [req EXCEPT ![r] = q] /\ q.step = "due"
                               /\ req[r].step # "restore"
    BY <1>1, <1>3, <1>4, NewRequest
  <1> DEFINE e == [device[d] EXCEPT !.undo = None]
  <1>6. DeviceOK(e) /\ e.undo = None
    BY Device_, UndoOK
  <1>7. device' = [device EXCEPT ![d] = e]
    BY DEF StartCommit
  <1> HIDE DEF e
  <1>8. Devices' /\ \A c \in Device : device'[c].undo \in {device[c].undo, None}
    BY <1>6, <1>7, OneScreen DEF IInv, Typed
  <1> QED BY <1>1, <1>2, <1>5, <1>8, OnOrOver

-------------------------------------------------------------------------------
(* Steps of requests about codes and claims *)

(* A request that named no account ends, or goes on to name none. *)
LEMMA WentOn ==
    ASSUME IInv, NEW r \in Slot, NEW s \in Step, s \notin Named, req[r].step # "restore",
           to(r, s) \/ end(r), UNCHANGED <<now, account, undone>>, Rows',
           \/ UNCHANGED device
           \/ \E d : \E o \in Screen \ {"in"} : shows(d, o)
    PROVE  IInv'
  <1>1. s \in Step \ {"delete", "answer"} /\ s \notin Ending
    BY DEF Named, Ending
  <1> QED BY <1>1, Went

LEMMA CodeOK ==
    ASSUME NEW c \in DeviceRequest, NEW s \in {"none", "asked", "approved", "consumed"}
    PROVE  [c EXCEPT !.state = s] \in DeviceRequest
  BY SMT DEF DeviceRequest

LEMMA CleanOK ==
    ASSUME NEW c \in DeviceRequest
    PROVE  [c EXCEPT !.state = "none", !.device = None] \in DeviceRequest
  <1> DEFINE b == [c EXCEPT !.state = "none"]
  <1>1. b \in DeviceRequest
    BY CodeOK
  <1> HIDE DEF b
  <1>2. [b EXCEPT !.device = None] \in DeviceRequest
    BY <1>1, SMT DEF DeviceRequest
  <1> QED BY <1>2 DEF b

LEMMA Codes ==
    ASSUME IInv
    PROVE  code \in [Code -> DeviceRequest] /\ trust \in [Device -> [User -> Trust]]
           /\ data \in [User -> BOOLEAN] /\ sweep \in Sweep
  BY DEF IInv, Typed, Rows

LEMMA RequestCleanOK == ASSUME IInv, NEW r \in Slot, RequestClean(r) PROVE IInv'
  <1> DEFINE d == req[r].device
             row(c) == IF code[c].expired \/ (code[c].device = d /\ code[c].state = "asked")
                       THEN [code[c] EXCEPT !.state = "none", !.device = None] ELSE code[c]
  <1>1. UNCHANGED <<now, todo, account, data, trust, sweep, undone>> /\ req[r].step = "clean"
        /\ code' = [c \in Code |-> row(c)]
        /\ ((to(r, "insert") /\ UNCHANGED device) \/ (end(r) /\ shows(d, "refused")))
    BY DEF RequestClean
  <1>2. \A c \in Code : row(c) \in DeviceRequest
    BY Codes, CleanOK
  <1>3. Rows'
    BY <1>1, <1>2, RowsOK
  <1>4. "insert" \in Step /\ "insert" \notin Named /\ "refused" \in Screen \ {"in"}
    BY DEF Step, Named, Ending, Screen
  <1> HIDE DEF row, d
  <1>5. CASE to(r, "insert") /\ UNCHANGED device
    BY <1>1, <1>3, <1>4, <1>5, WentOn
  <1>6. CASE end(r) /\ shows(d, "refused")
    BY <1>1, <1>3, <1>4, <1>6, WentOn
  <1> QED BY <1>1, <1>5, <1>6

LEMMA RequestInsertOK == ASSUME IInv, NEW r \in Slot, RequestInsert(r) PROVE IInv'
  <1> DEFINE row == [state |-> "asked", expired |-> FALSE, device |-> req[r].device,
                     credential |-> req[r].credential]
  <1>1. UNCHANGED <<now, todo, account, data, trust, sweep, device, undone>> /\ req[r].step = "insert"
        /\ end(r) /\ \E c \in Code : code' = [code EXCEPT ![c] = row]
    BY DEF RequestInsert
  <1>2. row \in DeviceRequest
    <2>1. req[r].device \in Device \cup {None} /\ req[r].credential \in Credential
      BY Asked, SMT DEF Request
    <2>2. FALSE \in BOOLEAN
      OBVIOUS
    <2> QED BY <2>1, <2>2, Zenon DEF DeviceRequest
  <1> HIDE DEF row
  <1>3. code' \in [Code -> DeviceRequest]
    BY <1>1, <1>2, Codes, Zenon
  <1>4. Rows'
    BY <1>1, <1>3, RowsOK
  <1>5. "free" \in Step /\ "free" \notin Named
    BY DEF Step, Named, Ending
  <1> QED BY <1>1, <1>4, <1>5, WentOn

LEMMA ClaimConsumeOK == ASSUME IInv, NEW r \in Slot, ClaimConsume(r) PROVE IInv'
  <1> DEFINE c == req[r].code
             row == [code[c] EXCEPT !.state = "consumed"]
  <1>1. UNCHANGED <<now, todo, account, data, trust, sweep, device, undone>> /\ req[r].step = "consume"
        /\ ((to(r, "list") /\ code' = [code EXCEPT ![c].state = "consumed"]) \/ (end(r) /\ UNCHANGED code))
    BY DEF ClaimConsume
  <1>2. code' = code \/ code' \in [Code -> DeviceRequest]
    <2>1. CASE c \in Code
      <3>1. row \in DeviceRequest
        BY <2>1, Codes, CodeOK
      <3>2. code' = code \/ code' = [code EXCEPT ![c] = row]
        BY <1>1
      <3> HIDE DEF row
      <3> QED BY <3>1, <3>2, Codes, Zenon
    <2>2. CASE c \notin Code
      BY <1>1, <2>2, Codes, Zenon
    <2> QED BY <2>1, <2>2
  <1>3. Rows'
    BY <1>1, <1>2, RowsOK
  <1>4. "list" \in Step /\ "list" \notin Named
    BY DEF Step, Named, Ending
  <1> QED BY <1>1, <1>3, <1>4, WentOn

(* A request that goes on with more than its next statement. *)
LEMMA ClaimSelectOK == ASSUME IInv, NEW r \in Slot, ClaimSelect(r) PROVE IInv'
  <1>1. UNCHANGED <<now, todo, account, data, code, trust, sweep, device, undone>> /\ req[r].step = "select"
    BY DEF ClaimSelect
  <1>2. Rows'
    BY <1>1, SameRows
  <1>3. CASE end(r)
    <2>1. "free" \in Step /\ "free" \notin Named
      BY DEF Step, Named, Ending
    <2> QED BY <1>1, <1>2, <1>3, <2>1, WentOn
  <1>4. ASSUME NEW c \in Code, req' = [req EXCEPT ![r] = [@ EXCEPT !.step = "consume", !.code = c]]
        PROVE  IInv'
    <2> DEFINE p == [req[r] EXCEPT !.step = "consume"]
               q == [p EXCEPT !.code = c]
    <2>1. p \in Request /\ p.step = "consume"
      BY Asked, SMT DEF Request, Step
    <2>2. [req[r] EXCEPT !.step = "consume", !.code = c] = q
      BY DEF p
    <2> HIDE DEF p
    <2>3. q \in Request /\ q.step = "consume"
      BY <2>1, SMT DEF Request
    <2>4. RequestOK(q, now) /\ q.step \notin {"delete", "answer"}
      BY <2>3 DEF RequestOK, Named, Ending
    <2>5. req' = [req EXCEPT ![r] = q]
      <3>1. req' = [req EXCEPT ![r] = [req[r] EXCEPT !.step = "consume", !.code = c]]
        BY <1>4
      <3> QED BY <2>2, <3>1, Zenon
    <2> HIDE DEF q
    <2> QED BY <1>1, <1>2, <2>4, <2>5, Progress
  <1>5. approvedFor(r) \subseteq Code
    BY DEF approvedFor
  <1> QED BY <1>3, <1>4, <1>5 DEF ClaimSelect

LEMMA ClaimListOK == ASSUME IInv, NEW r \in Slot, ClaimList(r) PROVE IInv'
  <1>1. UNCHANGED <<now, todo, account, data, code, trust, sweep, device, undone>> /\ req[r].step = "list"
    BY DEF ClaimList
  <1>2. Rows'
    BY <1>1, SameRows
  <1>3. CASE end(r)
    <2>1. "free" \in Step /\ "free" \notin Named
      BY DEF Step, Named, Ending
    <2> QED BY <1>1, <1>2, <1>3, <2>1, WentOn
  <1>4. CASE req' = [req EXCEPT ![r] = [@ EXCEPT !.step = "trust", !.listed = active]]
    <2> DEFINE p == [req[r] EXCEPT !.step = "trust"]
               q == [p EXCEPT !.listed = active]
    <2>1. p \in Request /\ p.step = "trust"
      BY Asked, SMT DEF Request, Step
    <2>2. [req[r] EXCEPT !.step = "trust", !.listed = active] = q
      BY DEF p
    <2> HIDE DEF p
    <2>3. active \in SUBSET User
      BY DEF active
    <2> HIDE DEF active
    <2>4. q \in Request /\ q.step = "trust"
      BY <2>1, <2>3, SMT DEF Request
    <2>5. RequestOK(q, now) /\ q.step \notin {"delete", "answer"}
      BY <2>4 DEF RequestOK, Named, Ending
    <2>6. req' = [req EXCEPT ![r] = q]
      <3>1. req' = [req EXCEPT ![r] = [req[r] EXCEPT !.step = "trust", !.listed = active]]
        BY <1>4
      <3> QED BY <2>2, <3>1, Zenon
    <2> HIDE DEF q
    <2> QED BY <1>1, <1>2, <2>5, <2>6, Progress
  <1> QED BY <1>3, <1>4 DEF ClaimList

LEMMA ClaimTrustOK == ASSUME IInv, NEW r \in Slot, ClaimTrust(r) PROVE IInv'
  <1> DEFINE d == req[r].device
             row(u) == IF u \in req[r].listed THEN trusting(trust[d][u], req[r].credential) ELSE trust[d][u]
  <1>1. UNCHANGED <<now, todo, account, data, code, sweep, undone>> /\ req[r].step = "trust"
        /\ trust' = [trust EXCEPT ![d] = [u \in User |-> row(u)]] /\ end(r)
        /\ (shows(d, "approved") \/ UNCHANGED device)
    BY DEF ClaimTrust
  <1>2. d \in Device => [u \in User |-> row(u)] \in [User -> Trust]
    <2> SUFFICES ASSUME d \in Device, NEW u \in User PROVE row(u) \in Trust
      OBVIOUS
    <2>1. trust[d][u] \in Trust
      BY Codes
    <2>2. trusting(trust[d][u], req[r].credential) \in Trust
      BY Asked, SMT DEF trusting, Trust
    <2> QED BY <2>1, <2>2
  <1> HIDE DEF row
  <1>3. trust' \in [Device -> [User -> Trust]]
    BY <1>1, <1>2, Codes, Zenon
  <1>4. Rows'
    BY <1>1, <1>3, RowsOK
  <1>5. "free" \in Step /\ "free" \notin Named /\ "approved" \in Screen \ {"in"}
    BY DEF Step, Named, Ending, Screen
  <1> QED BY <1>1, <1>4, <1>5, WentOn

LEMMA WriteOK == ASSUME IInv, NEW r \in Slot, Write(r) PROVE IInv'
  <1>1. UNCHANGED <<now, todo, account, code, trust, sweep, device, undone>> /\ req[r].step = "write"
        /\ data' = [data EXCEPT ![req[r].user] = TRUE] /\ end(r)
    BY DEF Write
  <1>2. data' \in [User -> BOOLEAN]
    BY <1>1, Codes, Zenon
  <1>3. Rows'
    BY <1>1, <1>2, RowsOK
  <1>4. "free" \in Step /\ "free" \notin Named
    BY DEF Step, Named, Ending
  <1> QED BY <1>1, <1>3, <1>4, WentOn

(* A request goes on to another statement, at another time. *)
LEMMA RestampOK ==
    ASSUME IInv, NEW r \in Slot, req[r].step \in Ending, NEW s \in Ending, NEW t \in Nat,
           req[r].at <= t, t <= now
    PROVE  LET q == [req[r] EXCEPT !.step = s, !.at = t] IN RequestOK(q, now) /\ q.step = s
  <1> DEFINE p == [req[r] EXCEPT !.step = s]
             q == [req[r] EXCEPT !.step = s, !.at = t]
  <1>1. req[r] \in Request /\ req[r].user \in User /\ now \in Nat /\ req[r].at \in Nat
        /\ (Late \/ now <= req[r].at + Patience)
    BY Asked DEF Named
  <1>2. p \in Request /\ p.step = s /\ p.user = req[r].user
    BY <1>1, SMT DEF Request, Step, Ending
  <1>3. q = [p EXCEPT !.at = t]
    BY DEF p
  <1> HIDE DEF p, q
  <1>4. q \in Request /\ q.step = s /\ q.user = req[r].user /\ q.at = t
    BY <1>2, <1>3, SMT DEF Request
  <1>5. t <= now /\ (Late \/ now <= t + Patience)
    BY <1>1, Numbers
  <1>6. RequestOK(q, now)
    BY <1>1, <1>4, <1>5 DEF RequestOK
  <1> QED BY <1>4, <1>6 DEF q

(* An undo that is given up: its deletion goes on. *)
LEMMA GivenUp ==
    ASSUME IInv, NEW r \in Slot, UNCHANGED <<now, todo, account, data, code, trust, sweep, device>>,
           NEW q, RequestOK(q, now), q.step = "due", req' = [req EXCEPT ![r] = q],
           undone' = undone \ {req[r].user}
    PROVE  IInv'
  <1>1. \A p \in Slot : req'[p] = IF p = r THEN q ELSE req[p]
    BY Zenon DEF IInv, Typed, Requests
  <1>2. Requests' /\ Accounts' /\ Devices' /\ Counting'
    BY PutRequest DEF IInv, Typed, Accounts, Devices, life, Counting, Prompt, Timely
  <1>3. Rows'
    BY DEF IInv, Typed, Rows
  <1>4. Answering'
    BY <1>1 DEF IInv, Answering, life, Prompt, Timely
  <1>5. Undoing'
    <2> SUFFICES ASSUME Prompt, NEW v \in undone, v # req[r].user
                 PROVE  /\ life(v) # "DELETED"
                        /\ life(v) = "PENDING_DELETE" =>
                             \E p \in Slot : /\ req'[p].step = "restore" /\ req'[p].user = v
                                             /\ req'[p].at + Patience < account[v].purgeAfter
      BY DEF Undoing, life, Prompt, Timely
    <2>1. /\ life(v) # "DELETED"
          /\ life(v) = "PENDING_DELETE" =>
               \E p \in Slot : /\ req[p].step = "restore" /\ req[p].user = v
                               /\ req[p].at + Patience < account[v].purgeAfter
      BY DEF IInv, Undoing, Prompt, Timely
    <2> QED BY <1>1, <2>1
  <1> QED BY <1>2, <1>3, <1>4, <1>5 DEF IInv, Typed

LEMMA DieOK == ASSUME IInv, NEW r \in Slot, Die(r) PROVE IInv'
  <1>1. UNCHANGED <<now, todo, account, data, code, trust, sweep>>
        /\ (opens(req[r].device, "gate", None) \/ UNCHANGED device)
    BY DEF Die
  <1>2. CASE req[r].step = "restore"
    <2> DEFINE q == [req[r] EXCEPT !.step = "due", !.at = now]
    <2>1. /\ undone' = undone \ {req[r].user} /\ UNCHANGED device
          /\ req' = [req EXCEPT ![r] = q]
      BY <1>2 DEF Die, finishes
    <2>2. RequestOK(q, now) /\ q.step = "due"
      <3>1. req[r].step \in Ending /\ "due" \in Ending
        BY <1>2 DEF Ending
      <3>2. now \in Nat /\ req[r].at <= now /\ now <= now
        BY <3>1, Asked
      <3> QED BY <3>1, <3>2, RestampOK
    <2> HIDE DEF q
    <2> QED BY <1>1, <2>1, <2>2, GivenUp
  <1>3. CASE req[r].step # "restore"
    <2>1. UNCHANGED undone /\ end(r)
      BY <1>3 DEF Die
    <2>2. Rows'
      BY <1>1, <2>1, SameRows
    <2>3. "free" \in Step \ {"delete", "answer"} /\ "free" \notin Named /\ "free" \notin Ending
          /\ "gate" \in Screen /\ "gate" # "in"
      BY DEF Step, Named, Ending, Screen
    <2>4. CASE UNCHANGED device
      BY <1>1, <1>3, <2>1, <2>2, <2>3, <2>4, Went
    <2>5. CASE opens(req[r].device, "gate", None)
      BY <1>1, <1>3, <2>1, <2>2, <2>3, <2>5, Went
    <2> QED BY <1>1, <2>4, <2>5
  <1> QED BY <1>2, <1>3

LEMMA CommitDueOK == ASSUME IInv, NEW r \in Slot, CommitDue(r) PROVE IInv'
  <1>1. UNCHANGED <<now, todo, account, data, code, trust, sweep, undone>> /\ req[r].step = "due"
    BY DEF CommitDue
  <1>2. Rows'
    BY <1>1, SameRows
  <1>3. "free" \in Step \ {"delete", "answer"} /\ "free" \notin Named /\ "free" \notin Ending
        /\ "gate" \in Screen /\ "gate" # "in" /\ req[r].step \in Ending /\ "flip" \in Ending
    BY <1>1 DEF Step, Ending, Named, Screen
  <1>4. ASSUME NEW t \in req[r].at .. now, UNCHANGED device,
               req' = [req EXCEPT ![r] = [@ EXCEPT !.step = "flip", !.at = t]]
        PROVE  IInv'
    <2> DEFINE q == [req[r] EXCEPT !.step = "flip", !.at = t]
    <2>1. req' = [req EXCEPT ![r] = q]
      BY <1>4
    <2>2. t \in Nat /\ req[r].at <= t /\ t <= now
      BY <1>4, Asked
    <2>3. RequestOK(q, now) /\ q.step = "flip"
      BY <1>3, <2>2, RestampOK
    <2> HIDE DEF q
    <2> QED BY <1>1, <1>2, <1>4, <2>1, <2>3, Progress
  <1>5. CASE end(r) /\ opens(req[r].device, "gate", None)
    BY <1>1, <1>2, <1>3, <1>5, Went
  <1> QED BY <1>4, <1>5 DEF CommitDue

-------------------------------------------------------------------------------
(* Steps of no request: requests and accounts are as they were *)

LEMMA Same ==
    ASSUME IInv, UNCHANGED <<now, account, undone, req>>, Rows', Devices',
           \A d \in Device : device'[d].undo \in {device[d].undo, None}
    PROVE  IInv'
  BY Still DEF IInv, Typed

LEMMA SameDevices ==
    ASSUME IInv, UNCHANGED device
    PROVE  Devices' /\ \A d \in Device : device'[d].undo \in {device[d].undo, None}
  BY SameScreens DEF IInv, Typed

LEMMA CodeStepOK ==
    ASSUME IInv, UNCHANGED <<now, todo, account, data, trust, req, sweep, device, undone>>,
           NEW c \in Code, NEW row \in DeviceRequest, code' = [code EXCEPT ![c] = row]
    PROVE  IInv'
  <1>1. code' \in [Code -> DeviceRequest]
    BY Codes, Zenon
  <1>2. Rows'
    BY <1>1, RowsOK
  <1> QED BY <1>2, SameDevices, Same

LEMMA ApproveOK == ASSUME IInv, NEW c \in Code, Approve(c) PROVE IInv'
  <1> DEFINE row == [code[c] EXCEPT !.state = "approved"]
  <1>1. row \in DeviceRequest
    BY Codes, CodeOK
  <1>2. UNCHANGED <<now, todo, account, data, trust, req, sweep, device, undone>>
        /\ code' = [code EXCEPT ![c] = row]
    BY DEF Approve
  <1> HIDE DEF row
  <1> QED BY <1>1, <1>2, CodeStepOK

LEMMA ExpiredOK ==
    ASSUME NEW c \in DeviceRequest, NEW b \in BOOLEAN
    PROVE  [c EXCEPT !.expired = b] \in DeviceRequest
  BY SMT DEF DeviceRequest

LEMMA ExpireOK == ASSUME IInv, NEW c \in Code, Expire(c) PROVE IInv'
  <1> DEFINE row == [code[c] EXCEPT !.expired = TRUE]
  <1>1. row \in DeviceRequest
    BY Codes, ExpiredOK
  <1>2. UNCHANGED <<now, todo, account, data, trust, req, sweep, device, undone>>
        /\ code' = [code EXCEPT ![c] = row]
    BY DEF Expire
  <1> HIDE DEF row
  <1> QED BY <1>1, <1>2, CodeStepOK

LEMMA GiveUpOK == ASSUME IInv, NEW d \in Device, GiveUp(d) PROVE IInv'
  <1>1. UNCHANGED <<now, todo, account, data, code, trust, req, sweep, undone>> /\ shows(d, "refused")
        /\ "refused" \in Screen \ {"in"}
    BY DEF GiveUp, Screen
  <1>2. Devices' /\ \A c \in Device : device'[c].undo \in {device[c].undo, None}
    BY <1>1, Shown DEF IInv, Typed
  <1> QED BY <1>1, <1>2, SameRows, Same

LEMMA LeaveOK == ASSUME IInv, NEW d \in Device, Leave(d) PROVE IInv'
  <1>1. UNCHANGED <<now, account, data, code, trust, req, sweep, undone>> /\ opens(d, "gate", None)
        /\ does("leave") /\ "leave" \in Act /\ "gate" \in Screen /\ "gate" # "in"
    BY DEF Leave, Screen, Act
  <1>2. Devices' /\ \A c \in Device : device'[c].undo \in {device[c].undo, None}
    BY <1>1, Opened DEF IInv, Typed
  <1>3. Rows'
    BY <1>1, Planned, RowsOK
  <1> QED BY <1>1, <1>2, <1>3, Same

LEMMA LeavesOK ==
    ASSUME IInv, NEW d \in Device, leaves(d), mine(d) < MaxCredentials
    PROVE  Devices' /\ \A c \in Device : device'[c].undo \in {device[c].undo, None}
  <1> DEFINE e == [screen |-> "gate", user |-> None, credential |-> device[d].credential + 1, undo |-> None]
  <1>1. device' = [device EXCEPT ![d] = e]
    BY DEF leaves
  <1>2. device[d].credential + 1 \in Credential
    BY Device_, Numbers, SMT DEF mine, Credential
  <1>3. e \in DeviceState /\ e.screen # "in" /\ e.undo = None
    BY <1>2, SMT DEF DeviceState, Screen
  <1> HIDE DEF e
  <1>4. DeviceOK(e)
    BY <1>3 DEF DeviceOK
  <1> QED BY <1>1, <1>3, <1>4, OneScreen DEF IInv, Typed

LEMMA RevokedOK ==
    ASSUME IInv, NEW d \in Device, NEW u
    PROVE  revoked(d, u) \in [User -> Trust]
  <1> DEFINE state == IF trust[d][u].state = "trusted" THEN "revoked" ELSE trust[d][u].state
             row == [trust[d][u] EXCEPT !.state = state]
  <1>1. trust[d] \in [User -> Trust]
    BY Codes
  <1>2. revoked(d, u) = [trust[d] EXCEPT ![u] = row]
    BY DEF revoked
  <1>3. u \in User => row \in Trust
    BY <1>1, SMT DEF Trust
  <1> HIDE DEF row
  <1> QED BY <1>1, <1>2, <1>3, Zenon

LEMMA LogoutOK == ASSUME IInv, NEW d \in Device, Logout(d) PROVE IInv'
  <1>1. UNCHANGED <<now, account, data, code, req, sweep, undone>> /\ mine(d) < MaxCredentials
        /\ (leaves(d) \/ UNCHANGED device) /\ does("logout") /\ "logout" \in Act
        /\ \/ trust' = [trust EXCEPT ![d] = revoked(d, device[d].user)]
           \/ trust' = [e \in Device |-> revoked(e, device[d].user)]
    BY DEF Logout, Act
  <1>2. \A e \in Device : revoked(e, device[d].user) \in [User -> Trust]
    BY RevokedOK
  <1>3. trust' \in [Device -> [User -> Trust]]
    BY <1>1, <1>2, Codes, Zenon
  <1>4. Rows'
    BY <1>1, <1>3, Planned, RowsOK
  <1>5. CASE leaves(d)
    BY <1>1, <1>4, <1>5, LeavesOK, Same
  <1>6. CASE UNCHANGED device
    BY <1>1, <1>4, <1>6, SameDevices, Same
  <1> QED BY <1>1, <1>5, <1>6

LEMMA ReinstallOK == ASSUME IInv, NEW d \in Device, Reinstall(d) PROVE IInv'
  <1>1. UNCHANGED <<now, account, data, code, trust, req, sweep, undone>> /\ leaves(d)
        /\ mine(d) < MaxCredentials /\ does("reinstall") /\ "reinstall" \in Act
    BY DEF Reinstall, Act
  <1>2. Rows'
    BY <1>1, Planned, RowsOK
  <1> QED BY <1>1, <1>2, LeavesOK, Same

(* The sweep. *)
LEMMA SweepOK ==
    ASSUME NEW s \in {"idle", "due", "recent", "wipe"}, NEW t \in Nat, NEW us \in SUBSET User
    PROVE  LET w == [step |-> s, at |-> t, listed |-> us] IN w \in Sweep /\ w.at = t
  BY SMT DEF Sweep

LEMMA SweepStepOK ==
    ASSUME NEW w \in Sweep, NEW s \in {"idle", "due", "recent", "wipe"}
    PROVE  LET x == [w EXCEPT !.step = s] IN x \in Sweep /\ x.at = w.at
  BY SMT DEF Sweep

LEMMA SweepOffOK ==
    ASSUME NEW w \in Sweep, NEW u
    PROVE  LET x == [w EXCEPT !.listed = @ \ {u}] IN x \in Sweep /\ x.at = w.at
  <1>1. w.listed \ {u} \in SUBSET User
    BY SMT DEF Sweep
  <1> QED BY <1>1, SMT DEF Sweep

LEMMA ForgottenOK ==
    ASSUME IInv, NEW u
    PROVE  forgotten(u) \in [Device -> [User -> Trust]]
  <1> DEFINE row == [state |-> "none", credential |-> 1]
  <1>1. row \in Trust
    BY Numbers, SMT DEF Trust
  <1> HIDE DEF row
  <1>2. \A d \in Device : [trust[d] EXCEPT ![u] = row] \in [User -> Trust]
    BY <1>1, Codes, Zenon
  <1>3. forgotten(u) = [d \in Device |-> [trust[d] EXCEPT ![u] = row]]
    BY DEF forgotten, row
  <1> QED BY <1>2, <1>3, Zenon

LEMMA SweepListOK == ASSUME IInv, SweepList PROVE IInv'
  <1>1. UNCHANGED <<now, todo, account, data, code, trust, req, device, undone>>
        /\ sweep' = [step |-> "due", at |-> now, listed |-> due(now)]
    BY DEF SweepList
  <1>2. now \in Nat /\ due(now) \in SUBSET User
    BY DEF IInv, Typed, Rows, due
  <1>3. sweep' \in Sweep /\ sweep'.at = now
    BY <1>1, <1>2, SweepOK
  <1>4. Rows'
    BY <1>1, <1>2, <1>3, SMT DEF IInv, Typed, Rows
  <1> QED BY <1>1, <1>4, SameDevices, Same

LEMMA SweepRecentOK == ASSUME IInv, SweepRecent PROVE IInv'
  <1>1. UNCHANGED <<now, todo, account, data, code, trust, req, device, undone>>
        /\ sweep' = [step |-> "wipe", at |-> 0, listed |-> recent]
    BY DEF SweepRecent
  <1>2. now \in Nat /\ recent \in SUBSET User
    BY DEF IInv, Typed, Rows, recent, deleted
  <1>3. sweep' \in Sweep /\ sweep'.at = 0
    BY <1>1, <1>2, SweepOK
  <1>4. Rows'
    BY <1>1, <1>2, <1>3, SMT DEF IInv, Typed, Rows
  <1> QED BY <1>1, <1>4, SameDevices, Same

LEMMA SweepWipeOK == ASSUME IInv, SweepWipe PROVE IInv'
  <1>1. UNCHANGED <<now, todo, account, code, req, device, undone>>
    BY DEF SweepWipe
  <1>2. /\ data' \in [User -> BOOLEAN] /\ trust' \in [Device -> [User -> Trust]]
        /\ sweep' \in Sweep /\ sweep'.at = sweep.at
    <2>1. ASSUME NEW u \in sweep.listed, data' = [data EXCEPT ![u] = FALSE], trust' = forgotten(u),
                 sweep' = [sweep EXCEPT !.listed = @ \ {u}]
          PROVE  <1>2!:
      <3>1. data' \in [User -> BOOLEAN]
        BY <2>1, Codes, Zenon
      <3> QED BY <2>1, <3>1, Codes, ForgottenOK, SweepOffOK
    <2>2. CASE sweep' = [sweep EXCEPT !.step = "idle"] /\ UNCHANGED <<data, trust>>
      BY <2>2, Codes, SweepStepOK
    <2> QED BY <2>1, <2>2 DEF SweepWipe
  <1>3. Rows'
    BY <1>1, <1>2 DEF IInv, Typed, Rows
  <1> QED BY <1>1, <1>3, SameDevices, Same

-------------------------------------------------------------------------------
(* An account is wiped *)

LEMMA Wiped ==
    ASSUME IInv, NEW u \in User, NEW t \in Nat, t <= now, Purge(u, t), UNCHANGED <<now, undone>>,
           \A p \in Slot : req'[p] = req[p] \/ (req[p].step # "restore" /\ req'[p].step = "free"),
           \A d \in Device : device'[d].undo \in {device[d].undo, None}
    PROVE  /\ Accounts' /\ Answering' /\ Counting' /\ Undoing'
           /\ data' \in [User -> BOOLEAN] /\ trust' \in [Device -> [User -> Trust]]
  <1> DEFINE gone == [life |-> "DELETED", purgeAfter |-> 0]
  <1>1. /\ account \in [User -> Account] /\ now \in Nat
        /\ \A v \in User : life(v) = "PENDING_DELETE" => account[v].purgeAfter <= now + Grace + Allowance
    BY DEF IInv, Typed, Accounts, Rows
  <1>2. gone \in Account /\ gone.life = "DELETED"
    BY SMT DEF Account, Life
  <1>3. doomed(u, t) => account' = [account EXCEPT ![u] = gone]
    BY DEF Purge
  <1> HIDE DEF gone
  <1>4. /\ account' \in [User -> Account]
        /\ \A v \in User : account'[v] = IF v = u /\ doomed(u, t) THEN gone ELSE account[v]
    <2>1. CASE doomed(u, t)
      BY <1>1, <1>2, <1>3, <2>1, Zenon
    <2>2. CASE ~doomed(u, t)
      BY <1>1, <2>2 DEF Purge
    <2> QED BY <2>1, <2>2
  <1>5. data' \in [User -> BOOLEAN] /\ trust' \in [Device -> [User -> Trust]]
    <2>1. CASE doomed(u, t)
      <3>1. data' \in [User -> BOOLEAN]
        BY <2>1, Codes, Zenon DEF Purge
      <3> QED BY <2>1, <3>1, ForgottenOK DEF Purge
    <2>2. CASE ~doomed(u, t)
      BY <2>2, Codes DEF Purge
    <2> QED BY <2>1, <2>2
  <1>6. Accounts'
    BY <1>1, <1>2, <1>4 DEF Accounts, life
  <1>7. Answering'
    <2> SUFFICES ASSUME Prompt, NEW r \in Slot, req'[r].step \in {"delete", "answer"},
                        account'[req'[r].user].life = "PENDING_DELETE"
                 PROVE  req'[r].at + Allowance < account'[req'[r].user].purgeAfter
      BY DEF Answering, life, Prompt, Timely
    <2>1. req'[r] = req[r] /\ req[r].step \in Named
      BY DEF Named, Ending
    <2>2. req[r].user \in User
      BY <2>1, Asked
    <2>3. account'[req[r].user] = account[req[r].user]
      BY <1>2, <1>4, <2>1, <2>2
    <2> QED BY <2>1, <2>3 DEF IInv, Answering, life, Prompt, Timely
  <1>8. Counting'
    <2> SUFFICES ASSUME Prompt, NEW d \in Device, device'[d].undo # None
                 PROVE  LET v == device'[d].undo.user
                            w == device'[d].undo.until IN
                        /\ w <= now + Grace + Patience
                        /\ account'[v].life = "PENDING_DELETE" => w + Patience < account'[v].purgeAfter
                        /\ account'[v].life = "DELETED" => w < now
      BY DEF Counting, life, Prompt, Timely
    <2> DEFINE v == device[d].undo.user
               w == device[d].undo.until
    <2>1. device'[d].undo = device[d].undo
      OBVIOUS
    <2>2. v \in User /\ w \in Nat
      BY <2>1, Device_
    <2>3. /\ w <= now + Grace + Patience
          /\ life(v) = "PENDING_DELETE" => w + Patience < account[v].purgeAfter
          /\ life(v) = "DELETED" => w < now
      BY <2>1 DEF IInv, Counting, Prompt, Timely
    <2>4. CASE v = u /\ doomed(u, t)
      <3>1. w + Patience < account[v].purgeAfter /\ account[v].purgeAfter <= t /\ account[v].purgeAfter \in Nat
        BY <1>1, <2>2, <2>3, <2>4, SMT DEF doomed, Account
      <3>2. w < now
        BY <1>1, <2>2, <3>1, Numbers
      <3>3. account'[v] = gone
        BY <1>4, <2>2, <2>4
      <3> QED BY <1>2, <2>1, <2>3, <3>2, <3>3
    <2>5. CASE ~(v = u /\ doomed(u, t))
      <3>1. account'[v] = account[v]
        BY <1>4, <2>2, <2>5
      <3> QED BY <2>1, <2>3, <3>1 DEF life
    <2> QED BY <2>4, <2>5
  <1>9. Undoing'
    <2> SUFFICES ASSUME Prompt, NEW v \in undone
                 PROVE  /\ account'[v].life # "DELETED"
                        /\ account'[v].life = "PENDING_DELETE" =>
                             \E r \in Slot : /\ req'[r].step = "restore" /\ req'[r].user = v
                                             /\ req'[r].at + Patience < account'[v].purgeAfter
      BY DEF Undoing, life, Prompt, Timely
    <2>1. v \in User
      BY DEF IInv, Typed, Rows
    <2>2. /\ life(v) # "DELETED"
          /\ life(v) = "PENDING_DELETE" =>
               \E r \in Slot : /\ req[r].step = "restore" /\ req[r].user = v
                               /\ req[r].at + Patience < account[v].purgeAfter
      BY DEF IInv, Undoing, Prompt, Timely
    <2>3. ~(v = u /\ doomed(u, t))
      <3> SUFFICES ASSUME v = u, doomed(u, t) PROVE FALSE
        OBVIOUS
      <3>1. life(v) = "PENDING_DELETE" /\ account[v].purgeAfter <= t
        BY DEF doomed
      <3>2. PICK r \in Slot : /\ req[r].step = "restore"
                              /\ req[r].at + Patience < account[v].purgeAfter
        BY <2>2, <3>1
      <3>3. now <= req[r].at + Patience /\ req[r].at \in Nat
        BY <3>2, Asked DEF Ending, Prompt
      <3>4. account[v].purgeAfter \in Nat
        BY <1>1, <2>1, SMT DEF Account
      <3> QED BY <1>1, <3>1, <3>2, <3>3, <3>4, Numbers
    <2>4. account'[v] = account[v]
      BY <1>4, <2>1, <2>3
    <2> QED BY <2>2, <2>4 DEF life
  <1> QED BY <1>5, <1>6, <1>7, <1>8, <1>9

LEMMA SweepPurgeOK == ASSUME IInv, SweepPurge PROVE IInv'
  <1>1. UNCHANGED <<now, todo, code, req, device, undone>>
    BY DEF SweepPurge
  <1>2. sweep \in Sweep /\ sweep.at <= now /\ sweep.at \in Nat /\ sweep.listed \subseteq User
    <2>1. sweep \in Sweep /\ sweep.at <= now
      BY DEF IInv, Typed, Rows
    <2> QED BY <2>1, SMT DEF Sweep
  <1>3. Requests' /\ Devices'
    BY <1>1 DEF IInv, Typed, Requests, Devices
  <1>4. ASSUME NEW u \in sweep.listed, Purge(u, sweep.at), sweep' = [sweep EXCEPT !.listed = @ \ {u}]
        PROVE  IInv'
    <2>1. /\ Accounts' /\ Answering' /\ Counting' /\ Undoing'
          /\ data' \in [User -> BOOLEAN] /\ trust' \in [Device -> [User -> Trust]]
      BY <1>1, <1>2, <1>4, Wiped
    <2>2. sweep' \in Sweep /\ sweep'.at = sweep.at
      BY <1>2, <1>4, SweepOffOK
    <2>3. Rows'
      BY <1>1, <2>1, <2>2 DEF IInv, Typed, Rows
    <2> QED BY <1>3, <2>1, <2>3 DEF IInv, Typed
  <1>5. CASE UNCHANGED <<account, data, trust>> /\ sweep' = [sweep EXCEPT !.step = "recent"]
    <2>1. sweep' \in Sweep /\ sweep'.at = sweep.at
      BY <1>2, <1>5, SweepStepOK
    <2>2. Rows'
      BY <1>1, <1>5, <2>1 DEF IInv, Typed, Rows
    <2> QED BY <1>1, <1>5, <2>2, SameDevices, Same
  <1> QED BY <1>4, <1>5 DEF SweepPurge

LEMMA CommitFlipOK == ASSUME IInv, NEW r \in Slot, CommitFlip(r) PROVE IInv'
  <1>1. UNCHANGED <<now, todo, code, sweep, undone>> /\ req[r].step = "flip" /\ end(r)
        /\ Purge(req[r].user, req[r].at) /\ opens(req[r].device, "gate", None)
    BY DEF CommitFlip
  <1>2. req[r].step \in Named /\ req[r].step \in Ending /\ "gate" \in Screen /\ "gate" # "in"
        /\ Idle.step = "free"
    BY <1>1 DEF Named, Ending, Screen, Idle
  <1>3. req[r].user \in User /\ req[r].at \in Nat /\ req[r].at <= now /\ now \in Nat
    BY <1>2, Asked
  <1>4. Devices' /\ \A c \in Device : device'[c].undo \in {device[c].undo, None}
    BY <1>1, <1>2, Opened DEF IInv, Typed
  <1>5. req' = [req EXCEPT ![r] = Idle]
    BY <1>1 DEF end
  <1>6. \A p \in Slot : req'[p] = IF p = r THEN Idle ELSE req[p]
    BY <1>5, Zenon DEF IInv, Typed, Requests
  <1>7. \A p \in Slot : req'[p] = req[p] \/ (req[p].step # "restore" /\ req'[p].step = "free")
    BY <1>1, <1>2, <1>6
  <1>8. /\ Accounts' /\ Answering' /\ Counting' /\ Undoing'
        /\ data' \in [User -> BOOLEAN] /\ trust' \in [Device -> [User -> Trust]]
    BY <1>1, <1>3, <1>4, <1>7, Wiped
  <1>9. Requests'
    BY <1>1, <1>3, <1>5, IdleOK, PutRequest DEF IInv, Typed
  <1>10. Rows'
    BY <1>1, <1>8 DEF IInv, Typed, Rows
  <1> QED BY <1>4, <1>8, <1>9, <1>10 DEF IInv, Typed

-------------------------------------------------------------------------------
(* Accounts that are made, or taken back *)

LEMMA AccountsOK ==
    ASSUME IInv
    PROVE  /\ account \in [User -> Account] /\ now \in Nat
           /\ \A v \in User : account[v].purgeAfter \in Nat
           /\ \A v \in User : account[v].life = "PENDING_DELETE" =>
                                account[v].purgeAfter <= now + Grace + Allowance
  <1>1. account \in [User -> Account] /\ now \in Nat
    BY DEF IInv, Typed, Accounts, Rows
  <1>2. \A v \in User : account[v].purgeAfter \in Nat
    BY <1>1, SMT DEF Account
  <1> QED BY <1>1, <1>2 DEF IInv, Typed, Accounts, life

LEMMA Kept ==
    ASSUME IInv, NEW u \in User, NEW row \in Account, row.life \notin {"PENDING_DELETE", "DELETED"},
           account' = [account EXCEPT ![u] = row], UNCHANGED <<now, undone, device>>,
           NEW r \in Slot, NEW q, RequestOK(q, now), req' = [req EXCEPT ![r] = q],
           req[r].step = "restore" => req[r].user = u, q.step \notin {"delete", "answer"}, Rows'
    PROVE  IInv'
  <1>1. account \in [User -> Account] /\ now \in Nat
    BY AccountsOK
  <1>2. /\ account' \in [User -> Account]
        /\ \A v \in User : account'[v] = IF v = u THEN row ELSE account[v]
    BY <1>1, Zenon
  <1>3. \A p \in Slot : req'[p] = IF p = r THEN q ELSE req[p]
    BY Zenon DEF IInv, Typed, Requests
  <1>4. Requests'
    BY PutRequest DEF IInv, Typed
  <1>5. Accounts'
    BY <1>2, AccountsOK DEF Accounts, life
  <1>6. Answering'
    <2> SUFFICES ASSUME Prompt, NEW p \in Slot, req'[p].step \in {"delete", "answer"},
                        account'[req'[p].user].life = "PENDING_DELETE"
                 PROVE  req'[p].at + Allowance < account'[req'[p].user].purgeAfter
      BY DEF Answering, life, Prompt, Timely
    <2>1. req'[p] = req[p] /\ req[p].step \in Named
      BY <1>3 DEF Named, Ending
    <2>2. req[p].user \in User
      BY <2>1, Asked
    <2>3. account'[req[p].user] = account[req[p].user]
      BY <1>2, <2>1, <2>2
    <2> QED BY <2>1, <2>3 DEF IInv, Answering, life, Prompt, Timely
  <1>7. Counting'
    <2> SUFFICES ASSUME Prompt, NEW d \in Device, device[d].undo # None
                 PROVE  LET v == device[d].undo.user
                            w == device[d].undo.until IN
                        /\ w <= now + Grace + Patience
                        /\ account'[v].life = "PENDING_DELETE" => w + Patience < account'[v].purgeAfter
                        /\ account'[v].life = "DELETED" => w < now
      BY DEF Counting, life, Prompt, Timely
    <2>1. device[d].undo.user \in User
      BY Device_
    <2> QED BY <1>2, <2>1 DEF IInv, Counting, life, Prompt, Timely
  <1>8. Undoing'
    <2> SUFFICES ASSUME Prompt, NEW v \in undone
                 PROVE  /\ account'[v].life # "DELETED"
                        /\ account'[v].life = "PENDING_DELETE" =>
                             \E p \in Slot : /\ req'[p].step = "restore" /\ req'[p].user = v
                                             /\ req'[p].at + Patience < account'[v].purgeAfter
      BY DEF Undoing, life, Prompt, Timely
    <2>1. v \in User
      BY DEF IInv, Typed, Rows
    <2>2. CASE v = u
      BY <1>2, <2>1, <2>2
    <2>3. CASE v # u
      <3>1. account'[v] = account[v]
        BY <1>2, <2>1, <2>3
      <3>2. /\ life(v) # "DELETED"
            /\ life(v) = "PENDING_DELETE" =>
                 \E p \in Slot : /\ req[p].step = "restore" /\ req[p].user = v
                                 /\ req[p].at + Patience < account[v].purgeAfter
        BY DEF IInv, Undoing, Prompt, Timely
      <3> QED BY <1>3, <2>3, <3>1, <3>2 DEF life
    <2> QED BY <2>2, <2>3
  <1>9. Devices'
    BY DEF IInv, Typed, Devices
  <1> QED BY <1>4, <1>5, <1>6, <1>7, <1>8, <1>9 DEF IInv, Typed

LEMMA CreateOK == ASSUME IInv, NEW r \in Slot, Create(r) PROVE IInv'
  <1>1. UNCHANGED <<now, todo, code, sweep, device, undone>> /\ req[r].step = "create" /\ end(r)
    BY DEF Create
  <1>2. CASE UNCHANGED <<account, data, trust>>
    <2>1. Rows' /\ "free" \in Step /\ "free" \notin Named
      BY <1>1, <1>2, SameRows DEF Step, Named, Ending
    <2> QED BY <1>1, <1>2, <2>1, WentOn
  <1>3. ASSUME NEW u \in User, NEW cred \in [inheriting(r) -> Credential],
               account' = [account EXCEPT ![u].life = "ACTIVE"], data' = [data EXCEPT ![u] = TRUE],
               trust' = [d \in Device |->
                   IF d \in inheriting(r) /\ trust[d][u].state = "none"
                   THEN [trust[d] EXCEPT ![u] = [state |-> "trusted", credential |-> cred[d]]]
                   ELSE trust[d]]
        PROVE  IInv'
    <2> DEFINE row == [account[u] EXCEPT !.life = "ACTIVE"]
               given(d) == [state |-> "trusted", credential |-> cred[d]]
    <2>1. row \in Account /\ row.life = "ACTIVE"
      BY AccountsOK, SMT DEF Account, Life
    <2>2. account' = [account EXCEPT ![u] = row]
      BY <1>3
    <2> HIDE DEF row
    <2>3. data' \in [User -> BOOLEAN]
      BY <1>3, Codes, Zenon
    <2>4. \A d \in inheriting(r) : given(d) \in Trust
      BY <1>3, SMT DEF Trust
    <2>5. trust' = [d \in Device |->
                   IF d \in inheriting(r) /\ trust[d][u].state = "none"
                   THEN [trust[d] EXCEPT ![u] = given(d)] ELSE trust[d]]
      BY <1>3
    <2> HIDE DEF given
    <2>6. trust' \in [Device -> [User -> Trust]]
      <3>1. \A d \in Device : d \in inheriting(r) => [trust[d] EXCEPT ![u] = given(d)] \in [User -> Trust]
        BY <2>4, Codes, Zenon
      <3> QED BY <2>5, <3>1, Codes
    <2>7. Rows'
      BY <1>1, <2>3, <2>6, RowsOK
    <2>8. RequestOK(Idle, now) /\ req' = [req EXCEPT ![r] = Idle] /\ Idle.step = "free"
      BY <1>1, AccountsOK, IdleOK DEF end, Idle
    <2> QED BY <1>1, <2>1, <2>2, <2>7, <2>8, Kept
  <1> QED BY <1>2, <1>3 DEF Create

(* A restoration that comes too late for this account: it was not early, so  *)
(* it is not the one by which a deletion is taken back.                      *)
LEMMA Refusal ==
    ASSUME IInv, NEW r \in Slot, req[r].step = "restore", UNCHANGED <<now, account, undone, device>>,
           NEW t \in Nat, t <= now,
           ~(life(req[r].user) = "PENDING_DELETE" /\ account[req[r].user].purgeAfter > t),
           NEW q, RequestOK(q, now), req' = [req EXCEPT ![r] = q], q.step \notin {"delete", "answer"}, Rows'
    PROVE  IInv'
  <1>1. \A p \in Slot : req'[p] = IF p = r THEN q ELSE req[p]
    BY Zenon DEF IInv, Typed, Requests
  <1>2. Requests'
    BY PutRequest DEF IInv, Typed
  <1>3. Accounts' /\ Counting' /\ Devices'
    BY DEF IInv, Typed, Accounts, Counting, Devices, life, Prompt, Timely
  <1>4. Answering'
    BY <1>1 DEF IInv, Answering, life, Prompt, Timely
  <1>5. Undoing'
    <2> SUFFICES ASSUME Prompt, NEW v \in undone
                 PROVE  /\ life(v) # "DELETED"
                        /\ life(v) = "PENDING_DELETE" =>
                             \E p \in Slot : /\ req'[p].step = "restore" /\ req'[p].user = v
                                             /\ req'[p].at + Patience < account[v].purgeAfter
      BY DEF Undoing, life, Prompt, Timely
    <2>1. /\ life(v) # "DELETED"
          /\ life(v) = "PENDING_DELETE" =>
               \E p \in Slot : /\ req[p].step = "restore" /\ req[p].user = v
                               /\ req[p].at + Patience < account[v].purgeAfter
      BY DEF IInv, Undoing, Prompt, Timely
    <2>2. /\ req[r].at \in Nat /\ account[v].purgeAfter \in Nat
          /\ t <= req[r].at + Patience
      <3>1. /\ req[r].at \in Nat /\ now \in Nat /\ account[v].purgeAfter \in Nat
            /\ now <= req[r].at + Patience
        BY Asked, AccountsOK DEF IInv, Typed, Rows, Ending, Prompt
      <3> QED BY <3>1, Numbers
    <2>3. req[r].user = v /\ life(v) = "PENDING_DELETE" => ~(req[r].at + Patience < account[v].purgeAfter)
      BY <2>2, Numbers
    <2> QED BY <1>1, <2>1, <2>3
  <1> QED BY <1>2, <1>3, <1>4, <1>5 DEF IInv, Typed

LEMMA RestoreUpdateOK == ASSUME IInv, NEW r \in Slot, RestoreUpdate(r) PROVE IInv'
  <1> DEFINE u == req[r].user
             back == [life |-> "ACTIVE", purgeAfter |-> 0]
             q == [req[r] EXCEPT !.step = "due", !.at = now]
             early(t) == life(u) = "PENDING_DELETE" /\ account[u].purgeAfter > t
  <1>1. /\ UNCHANGED <<now, todo, data, code, trust, sweep, device, undone>> /\ req[r].step = "restore"
        /\ req' = [req EXCEPT ![r] = q] \/ end(r)
    BY DEF RestoreUpdate, finishes
  <1>2. PICK t \in req[r].at .. now :
             account' = IF early(t) THEN [account EXCEPT ![u] = back] ELSE account
    BY DEF RestoreUpdate
  <1>3. req[r].step \in Ending /\ "due" \in Ending
    BY <1>1 DEF Ending
  <1>4. u \in User /\ now \in Nat /\ req[r].at <= now /\ now <= now /\ t \in Nat /\ t <= now
    BY <1>2, <1>3, Asked DEF Named
  <1>5. Rows'
    BY <1>1, SameRows
  <1>6. RequestOK(q, now) /\ q.step = "due"
    BY <1>3, <1>4, RestampOK
  <1>7. RequestOK(Idle, now) /\ Idle.step = "free"
    BY AccountsOK, IdleOK DEF Idle
  <1> HIDE DEF q
  <1>8. PICK p : /\ p = q \/ p = Idle
                 /\ req' = [req EXCEPT ![r] = p]
    BY <1>1 DEF end
  <1>9. RequestOK(p, now) /\ p.step \notin {"delete", "answer"}
    BY <1>6, <1>7, <1>8
  <1>10. back \in Account /\ back.life = "ACTIVE"
    BY SMT DEF Account, Life
  <1> HIDE DEF back
  <1>11. CASE early(t)
    <2>1. account' = [account EXCEPT ![u] = back]
      BY <1>2, <1>11
    <2> QED BY <1>1, <1>4, <1>5, <1>8, <1>9, <1>10, <2>1, Kept
  <1>12. CASE ~early(t)
    <2>1. account' = account
      BY <1>2, <1>12
    <2> QED BY <1>1, <1>4, <1>5, <1>8, <1>9, <1>12, <2>1, Refusal
  <1> QED BY <1>11, <1>12

-------------------------------------------------------------------------------
(* A deletion begins, and is counted down *)

LEMMA DeleteGateOK == ASSUME IInv, NEW r \in Slot, DeleteGate(r) PROVE IInv'
  <1>1. UNCHANGED <<now, todo, account, data, code, trust, sweep, device, undone>> /\ req[r].step = "gate"
        /\ ((req[r].user \in active /\ to(r, "delete")) \/ end(r))
    BY DEF DeleteGate
  <1>2. Rows'
    BY <1>1, SameRows
  <1>3. CASE end(r)
    <2>1. "free" \in Step /\ "free" \notin Named
      BY DEF Step, Named, Ending
    <2> QED BY <1>1, <1>2, <1>3, <2>1, WentOn
  <1>4. CASE req[r].user \in active /\ to(r, "delete")
    <2> DEFINE q == [req[r] EXCEPT !.step = "delete"]
    <2>1. "delete" \in Step /\ "delete" \in Ending /\ req[r].step \in Ending /\ req[r].step \in Named
      BY <1>1 DEF Step, Ending, Named
    <2>2. RequestOK(q, now) /\ q.step = "delete" /\ q.user = req[r].user
      BY <2>1, Asked, StepOK
    <2>3. req' = [req EXCEPT ![r] = q]
      BY <1>4 DEF to
    <2>4. life(req[r].user) = "ACTIVE"
      BY <1>4 DEF active
    <2> HIDE DEF q
    <2>5. Requests' /\ Accounts' /\ Answering' /\ Counting' /\ Undoing'
      BY <1>1, <2>2, <2>3, <2>4, SameDevices, Quiet
    <2> QED BY <1>1, <1>2, <2>5, SameDevices DEF IInv, Typed
  <1> QED BY <1>1, <1>3, <1>4

LEMMA DeleteUpdateOK == ASSUME IInv, NEW r \in Slot, DeleteUpdate(r) PROVE IInv'
  <1> DEFINE u == req[r].user
             q == [req[r] EXCEPT !.step = "answer"]
             last == req[r].at + Grace + Allowance
             row == [life |-> "PENDING_DELETE", purgeAfter |-> last]
  <1>1. UNCHANGED <<now, todo, data, code, trust, sweep, device>> /\ req[r].step = "delete"
        /\ to(r, "answer")
    BY DEF DeleteUpdate
  <1>2. /\ u \in User /\ req[r].at \in Nat /\ req[r].at <= now
        /\ Prompt => now <= req[r].at + Patience
        /\ now \in Nat /\ last \in Nat
    BY <1>1, Asked, Numbers DEF Named, Ending, Prompt
  <1>3. RequestOK(q, now) /\ q.step = "answer" /\ q.user = u /\ q.at = req[r].at
    <2>1. "answer" \in Step /\ "answer" \in Ending /\ req[r].step \in Ending
      BY <1>1 DEF Step, Ending
    <2> QED BY <1>2, <2>1, Asked, StepOK
  <1>4. req' = [req EXCEPT ![r] = q]
    BY <1>1 DEF to
  <1> HIDE DEF q
  <1>5. Devices' /\ \A d \in Device : device'[d].undo \in {device[d].undo, None}
    BY <1>1, SameDevices
  <1>6. CASE UNCHANGED <<account, undone>>
    <2>1. Prompt /\ life(q.user) = "PENDING_DELETE" => q.at + Allowance < account[q.user].purgeAfter
      BY <1>1, <1>3 DEF IInv, Answering, Prompt, Timely
    <2>2. Requests' /\ Accounts' /\ Answering' /\ Counting' /\ Undoing'
      BY <1>1, <1>3, <1>4, <1>5, <1>6, <2>1, Quiet
    <2>3. Rows'
      BY <1>1, <1>6, SameRows
    <2> QED BY <1>5, <2>2, <2>3 DEF IInv, Typed
  <1>7. CASE account' = [account EXCEPT ![u] = row] /\ undone' = undone \ {u}
    <2>1. row \in Account /\ row.life = "PENDING_DELETE" /\ row.purgeAfter = last
      BY <1>2, SMT DEF Account, Life
    <2> HIDE DEF row
    <2>2. /\ account' \in [User -> Account]
          /\ \A v \in User : account'[v] = IF v = u THEN row ELSE account[v]
      BY <1>7, <2>1, AccountsOK, Zenon
    <2>3. \A p \in Slot : req'[p] = IF p = r THEN q ELSE req[p]
      BY <1>4, Zenon DEF IInv, Typed, Requests
    <2>4. Rows'
      BY <1>1, <1>7 DEF IInv, Typed, Rows
    <2>5. Requests'
      BY <1>1, <1>3, <1>4, PutRequest DEF IInv, Typed
    <2>6. Accounts'
      <3>1. last <= now + Grace + Allowance
        BY <1>2, Numbers
      <3> QED BY <1>1, <2>1, <2>2, <3>1, AccountsOK DEF Accounts, life
    <2>7. Answering'
      <3> SUFFICES ASSUME Prompt, NEW p \in Slot, req'[p].step \in {"delete", "answer"},
                          account'[req'[p].user].life = "PENDING_DELETE"
                   PROVE  req'[p].at + Allowance < account'[req'[p].user].purgeAfter
        BY DEF Answering, life, Prompt, Timely
      <3>1. /\ req'[p].step = "delete" \/ req'[p].step = "answer"
            /\ req'[p].user \in User /\ req'[p].at \in Nat /\ req'[p].at <= now
        <4>1. CASE p = r
          BY <1>2, <1>3, <2>3, <4>1
        <4>2. CASE p # r
          BY <2>3, <4>2, Asked DEF Named, Ending
        <4> QED BY <4>1, <4>2
      <3>2. CASE req'[p].user = u
        <4>1. req'[p].at + Allowance < last
          BY <1>2, <3>1, Numbers DEF Prompt, Timely
        <4> QED BY <2>1, <2>2, <3>1, <3>2, <4>1
      <3>3. CASE req'[p].user # u
        <4>1. req'[p] = req[p] /\ account'[req[p].user] = account[req[p].user]
          BY <1>3, <2>2, <2>3, <3>1, <3>3
        <4> QED BY <4>1 DEF IInv, Answering, life, Prompt, Timely
      <3> QED BY <3>2, <3>3
    <2>8. Counting'
      <3> SUFFICES ASSUME Prompt, NEW d \in Device, device[d].undo # None
                   PROVE  LET v == device[d].undo.user
                              w == device[d].undo.until IN
                          /\ w <= now + Grace + Patience
                          /\ account'[v].life = "PENDING_DELETE" => w + Patience < account'[v].purgeAfter
                          /\ account'[v].life = "DELETED" => w < now
        BY <1>1 DEF Counting, life, Prompt, Timely
      <3> DEFINE v == device[d].undo.user
                 w == device[d].undo.until
      <3>1. v \in User /\ w \in Nat
        BY Device_
      <3>2. /\ w <= now + Grace + Patience
            /\ life(v) = "PENDING_DELETE" => w + Patience < account[v].purgeAfter
            /\ life(v) = "DELETED" => w < now
        BY DEF IInv, Counting, Prompt, Timely
      <3>3. w + Patience < last
        BY <1>2, <3>1, <3>2, Numbers DEF Prompt, Timely
      <3> QED BY <2>1, <2>2, <3>1, <3>2, <3>3 DEF life
    <2>9. Undoing'
      <3> SUFFICES ASSUME Prompt, NEW v \in undone, v # u
                   PROVE  /\ account'[v].life # "DELETED"
                          /\ account'[v].life = "PENDING_DELETE" =>
                               \E p \in Slot : /\ req'[p].step = "restore" /\ req'[p].user = v
                                               /\ req'[p].at + Patience < account'[v].purgeAfter
        BY <1>7 DEF Undoing, life, Prompt, Timely
      <3>1. account'[v] = account[v]
        BY <2>2 DEF IInv, Typed, Rows
      <3>2. /\ life(v) # "DELETED"
            /\ life(v) = "PENDING_DELETE" =>
                 \E p \in Slot : /\ req[p].step = "restore" /\ req[p].user = v
                                 /\ req[p].at + Patience < account[v].purgeAfter
        BY DEF IInv, Undoing, Prompt, Timely
      <3> QED BY <1>1, <2>3, <3>1, <3>2 DEF life
    <2> QED BY <1>5, <2>4, <2>5, <2>6, <2>7, <2>8, <2>9 DEF IInv, Typed
  <1> QED BY <1>6, <1>7 DEF DeleteUpdate, graceEnd

LEMMA DeleteAnswerOK == ASSUME IInv, NEW r \in Slot, DeleteAnswer(r) PROVE IInv'
  <1> DEFINE u == req[r].user
             d == req[r].device
             left == account[u].purgeAfter - Allowance - req[r].at
             undo == [user |-> u, until |-> now + (IF left > 0 THEN left ELSE Grace)]
             e == [device[d] EXCEPT !.undo = undo]
  <1>1. /\ UNCHANGED <<now, todo, account, data, code, trust, sweep, undone>> /\ req[r].step = "answer"
        /\ end(r)
        /\ IF life(u) = "PENDING_DELETE" THEN device' = [device EXCEPT ![d] = e] ELSE UNCHANGED device
    BY DEF DeleteAnswer
  <1>2. Rows'
    BY <1>1, SameRows
  <1>3. CASE UNCHANGED device
    <2>1. "free" \in Step /\ "free" \notin Named
      BY DEF Step, Named, Ending
    <2> QED BY <1>1, <1>2, <1>3, <2>1, WentOn
  <1>4. CASE life(u) = "PENDING_DELETE" /\ device' = [device EXCEPT ![d] = e] /\ d \in Device
    <2>1. /\ u \in User /\ req[r].at \in Nat /\ req[r].at <= now
          /\ Prompt => now <= req[r].at + Patience
          /\ now \in Nat
      BY <1>1, Asked DEF Named, Ending, Prompt
    <2>2. /\ account[u].purgeAfter \in Nat /\ account[u].purgeAfter <= now + Grace + Allowance
          /\ Prompt => req[r].at + Allowance < account[u].purgeAfter
      BY <1>1, <1>4, <2>1, AccountsOK DEF IInv, Answering, life, Prompt, Timely
    <2> DEFINE more == now + (IF left > 0 THEN left ELSE Grace)
    <2>3. more \in Nat
      BY <2>1, <2>2, Numbers
    <2>4. Prompt => more <= now + Grace + Patience /\ more + Patience < account[u].purgeAfter
      BY <2>1, <2>2, Numbers DEF Prompt, Timely
    <2> HIDE DEF left
    <2>5. undo \in [user : User, until : Nat] /\ undo.user = u /\ undo.until = more
      BY <2>1, <2>3, SMT
    <2> HIDE DEF undo, more
    <2>6. DeviceOK(e) /\ e.undo = undo
      BY <1>4, <2>5, Device_, UndoOK
    <2> HIDE DEF e
    <2>7. Devices'
      BY <1>4, <2>6, PutDevice DEF IInv, Typed
    <2>8. \A c \in Device : device'[c] = IF c = d THEN e ELSE device[c]
      BY <1>4, Zenon DEF IInv, Typed, Devices
    <2>9. Counting'
      <3> SUFFICES ASSUME Prompt, NEW c \in Device, device'[c].undo # None
                   PROVE  LET v == device'[c].undo.user
                              w == device'[c].undo.until IN
                          /\ w <= now + Grace + Patience
                          /\ life(v) = "PENDING_DELETE" => w + Patience < account[v].purgeAfter
                          /\ life(v) = "DELETED" => w < now
        BY <1>1 DEF Counting, life, Prompt, Timely
      <3>1. CASE c = d
        <4>1. device'[c].undo = undo
          BY <2>6, <2>8, <3>1
        <4> QED BY <1>4, <2>4, <2>5, <4>1
      <3>2. CASE c # d
        <4>1. device'[c] = device[c]
          BY <2>8, <3>2
        <4> QED BY <4>1 DEF IInv, Counting, Prompt, Timely
      <3> QED BY <3>1, <3>2
    <2>10. RequestOK(Idle, now) /\ Idle.step = "free" /\ req' = [req EXCEPT ![r] = Idle]
      BY <1>1, <2>1, IdleOK DEF Idle, end
    <2>11. \A p \in Slot : req'[p] = IF p = r THEN Idle ELSE req[p]
      BY <2>10, Zenon DEF IInv, Typed, Requests
    <2>12. Requests' /\ Accounts'
      BY <1>1, <2>10, PutRequest DEF IInv, Typed, Accounts, life
    <2>13. Answering'
      BY <1>1, <2>10, <2>11 DEF IInv, Answering, life, Prompt, Timely
    <2>14. Undoing'
      <3> SUFFICES ASSUME Prompt, NEW v \in undone
                   PROVE  /\ life(v) # "DELETED"
                          /\ life(v) = "PENDING_DELETE" =>
                               \E p \in Slot : /\ req'[p].step = "restore" /\ req'[p].user = v
                                               /\ req'[p].at + Patience < account[v].purgeAfter
        BY <1>1 DEF Undoing, life, Prompt, Timely
      <3>1. /\ life(v) # "DELETED"
            /\ life(v) = "PENDING_DELETE" =>
                 \E p \in Slot : /\ req[p].step = "restore" /\ req[p].user = v
                                 /\ req[p].at + Patience < account[v].purgeAfter
        BY DEF IInv, Undoing, Prompt, Timely
      <3> QED BY <1>1, <2>11, <3>1
    <2> QED BY <1>2, <2>7, <2>9, <2>12, <2>13, <2>14 DEF IInv, Typed
  <1>5. CASE device' = [device EXCEPT ![d] = e] /\ d \notin Device
    <2>1. UNCHANGED device
      BY <1>5, Zenon DEF IInv, Typed, Devices
    <2> QED BY <1>3, <2>1
  <1> HIDE DEF e
  <1> QED BY <1>1, <1>3, <1>4, <1>5

LEMMA StartUndoOK == ASSUME IInv, NEW d \in Device, StartUndo(d) PROVE IInv'
  <1> DEFINE u == device[d].undo.user
             w == device[d].undo.until
             e == [device[d] EXCEPT !.undo = None]
  <1>1. /\ UNCHANGED <<now, todo, account, data, code, trust, sweep>> /\ device[d].undo # None
        /\ now <= w /\ begin(d, u, "restore", now) /\ undone' = undone \cup {u}
        /\ device' = [device EXCEPT ![d] = e]
    BY DEF StartUndo
  <1>2. u \in User /\ w \in Nat /\ now \in Nat
    BY <1>1, Device_, AccountsOK
  <1>3. Prompt => /\ life(u) = "PENDING_DELETE" => w + Patience < account[u].purgeAfter
                  /\ life(u) = "DELETED" => w < now
    BY <1>1 DEF IInv, Counting, Prompt, Timely
  <1>4. Prompt => /\ life(u) # "DELETED"
                  /\ life(u) = "PENDING_DELETE" => now + Patience < account[u].purgeAfter
    BY <1>1, <1>2, <1>3, AccountsOK, Numbers
  <1>5. Rows'
    BY <1>1, <1>2 DEF IInv, Typed, Rows
  <1> DEFINE q == asking(d, u, "restore", now)
  <1>6. PICK r \in Slot :
             /\ req[r] = Idle /\ req' = [req EXCEPT ![r] = q] /\ RequestOK(q, now)
             /\ q.step = "restore" /\ q.user = u /\ q.at = now
    <2>1. "restore" \in Step
      BY DEF Step
    <2> QED BY <1>1, <1>2, <2>1, Begun DEF IInv, Typed
  <1> HIDE DEF q
  <1>7. DeviceOK(e) /\ e.undo = None
    BY Device_, UndoOK
  <1> HIDE DEF e
  <1>8. Devices' /\ \A c \in Device : device'[c].undo \in {device[c].undo, None}
    BY <1>1, <1>7, OneScreen DEF IInv, Typed
  <1>9. \A p \in Slot : req'[p] = IF p = r THEN q ELSE req[p]
    BY <1>6, Zenon DEF IInv, Typed, Requests
  <1>10. Idle.step # "restore"
    BY DEF Idle
  <1>11. Requests' /\ Accounts'
    BY <1>1, <1>6, PutRequest DEF IInv, Typed, Accounts, life
  <1>12. Answering'
    BY <1>1, <1>6, <1>9 DEF IInv, Answering, life, Prompt, Timely
  <1>13. Counting'
    BY <1>1, <1>8 DEF IInv, Counting, life, Prompt, Timely
  <1>14. Undoing'
    <2> SUFFICES ASSUME Prompt, NEW v \in undone \cup {u}
                 PROVE  /\ life(v) # "DELETED"
                        /\ life(v) = "PENDING_DELETE" =>
                             \E p \in Slot : /\ req'[p].step = "restore" /\ req'[p].user = v
                                             /\ req'[p].at + Patience < account[v].purgeAfter
      BY <1>1 DEF Undoing, life, Prompt, Timely
    <2>1. CASE v = u
      BY <1>4, <1>6, <1>9, <2>1
    <2>2. CASE v # u
      <3>1. /\ life(v) # "DELETED"
            /\ life(v) = "PENDING_DELETE" =>
                 \E p \in Slot : /\ req[p].step = "restore" /\ req[p].user = v
                                 /\ req[p].at + Patience < account[v].purgeAfter
        BY <2>2 DEF IInv, Undoing, Prompt, Timely
      <3> QED BY <1>6, <1>9, <1>10, <3>1
    <2> QED BY <2>1, <2>2
  <1> QED BY <1>5, <1>8, <1>11, <1>12, <1>13, <1>14 DEF IInv, Typed

LEMMA TickOK == ASSUME IInv, Tick PROVE IInv'
  <1>1. /\ UNCHANGED <<todo, account, data, code, trust, req, sweep, device, undone>> /\ now' = now + 1
        /\ \A r \in Slot : req[r].step \in Ending => Late \/ now < req[r].at + Patience
    BY DEF Tick, Ending
  <1>2. now \in Nat /\ now' \in Nat /\ now < now'
    BY <1>1, AccountsOK
  <1>3. Rows'
    <2>1. sweep.at \in Nat
      BY Codes, SMT DEF Sweep
    <2> QED BY <1>1, <1>2, <2>1 DEF IInv, Typed, Rows
  <1>4. Accounts'
    <2>1. \A v \in User : account[v].life = "PENDING_DELETE" =>
                            account[v].purgeAfter <= now + 1 + Grace + Allowance
      BY <1>2, AccountsOK, Numbers
    <2> QED BY <1>1, <2>1, AccountsOK DEF Accounts, life
  <1>5. Requests'
    <2> SUFFICES ASSUME NEW r \in Slot PROVE RequestOK(req[r], now + 1)
      BY <1>1 DEF IInv, Typed, Requests
    <2>1. req[r].step \in Ending => req[r].at <= now + 1 /\ (Late \/ now + 1 <= req[r].at + Patience)
      BY <1>1, <1>2, Asked, Numbers
    <2> QED BY <2>1, Asked DEF RequestOK
  <1>6. Answering' /\ Undoing' /\ Devices'
    BY <1>1 DEF IInv, Typed, Answering, Undoing, Devices, life, Prompt, Timely
  <1>7. Counting'
    <2> SUFFICES ASSUME Prompt, NEW d \in Device, device[d].undo # None
                 PROVE  LET v == device[d].undo.user
                            w == device[d].undo.until IN
                        /\ w <= now + 1 + Grace + Patience
                        /\ life(v) = "PENDING_DELETE" => w + Patience < account[v].purgeAfter
                        /\ life(v) = "DELETED" => w < now + 1
      BY <1>1 DEF Counting, life, Prompt, Timely
    <2>1. device[d].undo.until \in Nat
      BY Device_
    <2> QED BY <1>2, <2>1, Numbers DEF IInv, Counting, Prompt, Timely
  <1> QED BY <1>3, <1>4, <1>5, <1>6, <1>7 DEF IInv, Typed

-------------------------------------------------------------------------------
(* The whole *)

LEMMA InitOK == ASSUME Init PROVE IInv
  <1> DEFINE born(u) == [life |-> IF u = Founder THEN "ACTIVE" ELSE "none", purgeAfter |-> 0]
             unmade == [state |-> "none", expired |-> FALSE, device |-> None, credential |-> 1]
             row(d, u) == [state |-> IF d = Owner /\ u = Founder THEN "trusted" ELSE "none", credential |-> 1]
             seen(d) == [screen |-> IF d = Owner THEN "in" ELSE "gate",
                         user |-> IF d = Owner THEN Founder ELSE None, credential |-> 1, undo |-> None]
  <1>1. /\ now = 0 /\ todo \in Plans /\ undone = {}
        /\ account = [u \in User |-> born(u)] /\ data = [u \in User |-> u = Founder]
        /\ code = [c \in Code |-> unmade] /\ trust = [d \in Device |-> [u \in User |-> row(d, u)]]
        /\ req = [r \in Slot |-> Idle] /\ device = [d \in Device |-> seen(d)]
        /\ sweep = [step |-> "idle", at |-> 0, listed |-> {}]
    BY DEF Init
  <1>2. \A u \in User : born(u) \in Account /\ born(u).life \in {"none", "ACTIVE"}
    BY SMT DEF Account, Life
  <1>3. unmade \in DeviceRequest
    <2>1. FALSE \in BOOLEAN
      OBVIOUS
    <2> QED BY <2>1, Numbers, Zenon DEF DeviceRequest
  <1>4. \A d \in Device, u \in User : row(d, u) \in Trust
    BY Numbers, SMT DEF Trust
  <1>5. \A d \in Device : seen(d) \in DeviceState /\ DeviceOK(seen(d)) /\ seen(d).undo = None
    <2>1. \A d \in Device : /\ seen(d) \in DeviceState /\ seen(d).undo = None
                            /\ seen(d).screen = "in" => seen(d).user \in User
      BY DeviceTrustAssumption, Numbers, SMT DEF DeviceState, Screen
    <2> HIDE DEF seen
    <2> QED BY <2>1 DEF DeviceOK
  <1>6. sweep \in Sweep /\ sweep.at = 0
    BY <1>1, SweepOK
  <1>7. RequestOK(Idle, 0) /\ Idle \in Request /\ Idle.step = "free"
    BY IdleOK DEF RequestOK, Idle
  <1> HIDE DEF born, unmade, row, seen
  <1>8. Rows
    <2>1. todo \in [Act -> Nat]
      BY <1>1, DeviceTrustAssumption
    <2>2. data \in [User -> BOOLEAN]
      BY <1>1
    <2>3. code \in [Code -> DeviceRequest] /\ trust \in [Device -> [User -> Trust]]
      BY <1>1, <1>3, <1>4
    <2> QED BY <1>1, <1>6, <2>1, <2>2, <2>3, SMT DEF Rows
  <1>9. Accounts
    BY <1>1, <1>2 DEF Accounts, life
  <1>10. Requests
    BY <1>1, <1>7 DEF Requests
  <1>11. Devices
    BY <1>1, <1>5 DEF Devices
  <1>12. Answering
    BY <1>1, <1>7 DEF Answering, Prompt, Timely
  <1>13. Counting
    BY <1>1, <1>5 DEF Counting, Prompt, Timely
  <1>14. Undoing
    BY <1>1 DEF Undoing, Prompt, Timely
  <1> QED BY <1>8, <1>9, <1>10, <1>11, <1>12, <1>13, <1>14 DEF IInv, Typed

LEMMA ServeOK == ASSUME IInv, NEW r \in Slot, Serve(r) PROVE IInv'
  BY IssueTrustedOK, IssueAccountOK, IssueTouchOK, RecoverOK, RequestCleanOK, RequestInsertOK,
     ClaimSelectOK, ClaimConsumeOK, ClaimListOK, ClaimTrustOK, CreateOK, DeleteGateOK,
     DeleteUpdateOK, DeleteAnswerOK, RestoreUpdateOK, CommitDueOK, CommitFlipOK, WriteOK
  DEF Serve

LEMMA NextOK == ASSUME IInv, [Next]_vars PROVE IInv'
  <1>1. ASSUME NEW d \in Device, \E u \in User : Choose(d, u) PROVE IInv'
    BY <1>1, ChooseOK
  <1>2. ASSUME NEW d \in Device,
               \/ ShowApproval(d) \/ Poll(d) \/ GiveUp(d)
               \/ StartCreate(d) \/ StartDelete(d) \/ StartUndo(d) \/ StartCommit(d)
               \/ StartWrite(d) \/ Logout(d) \/ Reinstall(d) \/ Leave(d)
        PROVE  IInv'
    BY <1>2, ShowApprovalOK, PollOK, GiveUpOK, StartCreateOK, StartDeleteOK, StartUndoOK,
       StartCommitOK, StartWriteOK, LogoutOK, ReinstallOK, LeaveOK
  <1>3. ASSUME NEW c \in Code, Approve(c) \/ Expire(c) PROVE IInv'
    BY <1>3, ApproveOK, ExpireOK
  <1>4. ASSUME NEW r \in Slot, Serve(r) \/ Die(r) PROVE IInv'
    BY <1>4, ServeOK, DieOK
  <1>5. CASE Sweeping
    BY <1>5, SweepListOK, SweepPurgeOK, SweepRecentOK, SweepWipeOK DEF Sweeping
  <1>6. CASE Tick
    BY <1>6, TickOK
  <1>7. CASE UNCHANGED vars
    <2>1. UNCHANGED <<now, account, undone, req, device>> /\ Rows'
      BY <1>7, SameRows DEF vars
    <2> QED BY <2>1, SameDevices, Same
  <1> QED BY <1>1, <1>2, <1>3, <1>4, <1>5, <1>6, <1>7 DEF Next

(* The inductive invariant: what the rows, requests and devices are and,     *)
(* where requests are prompt, that an answer and a countdown end before the  *)
(* account may go, and that an undo begun in time is early enough.           *)
THEOREM Inductive == Spec => []IInv
  <1>1. Init => IInv
    BY InitOK
  <1>2. IInv /\ [Next]_vars => IInv'
    BY NextOK
  <1> QED BY <1>1, <1>2, PTL DEF Spec

(* Every table, request and screen holds values of its type. *)
THEOREM TrustTypes == Spec => []TypeOK
  <1>1. IInv => TypeOK
    BY DEF IInv, Typed, Rows, Accounts, Requests, Devices, TypeOK
  <1> QED BY <1>1, Inductive, PTL

(* Where requests about deletion are prompt, an account whose deletion is     *)
(* taken back while a device still counts down, by an undo that is not cut    *)
(* off, is never wiped, by the sweep, the list of accounts or the device      *)
(* itself, and none is while a device counts down (accounts.ts:27).           *)
THEOREM UndoneIsKept ==
    ASSUME ~Late, Timely
    PROVE  Spec => []UndoInTime
  <1>1. ASSUME IInv PROVE UndoInTime
    <2>1. Prompt
      BY DEF Prompt
    <2>2. \A u \in undone : life(u) # "DELETED"
      BY <1>1, <2>1 DEF IInv, Undoing
    <2>3. ASSUME NEW d \in Device, device[d].undo # None, now < device[d].undo.until
          PROVE  life(device[d].undo.user) # "DELETED"
      <3>1. life(device[d].undo.user) = "DELETED" => device[d].undo.until < now
        BY <1>1, <2>1, <2>3 DEF IInv, Counting
      <3>2. now \in Nat /\ device[d].undo.until \in Nat
        BY <1>1, <2>3, Device_, AccountsOK
      <3> QED BY <2>3, <3>1, <3>2
    <2> QED BY <2>2, <2>3 DEF UndoInTime
  <1> QED BY <1>1, Inductive, PTL

-------------------------------------------------------------------------------
(* Opening one account and opening all of them *)

(* What a device does between a refusal and the end of its claim.            *)
Pairing == {"clean", "insert", "select", "consume", "list", "trust"}
Waiting == {"refused", "code", "approved"}
Paired(d) ==
    \/ device[d].screen \in Waiting
    \/ \E r \in Slot : req[r].device = d /\ (req[r].again \/ req[r].step \in Pairing)

live == {u \in User : life(u) \in {"ACTIVE", "PENDING_DELETE"}}
trusts(d) == {u \in User : trust[d][u].state = "trusted"}

(* Whoever asks does so with the credential the device has now.              *)
Askers == \A r \in Slot : req[r].step # "free" =>
    req[r].device \in Device /\ req[r].credential = mine(req[r].device)

(* A device that pairs has had its rows recovered; the rows of any device    *)
(* carry one credential; and they cover all the accounts there are.          *)
Current == \A d \in Device : Paired(d) => \A u \in trusts(d) : trust[d][u].credential = mine(d)
Alike == \A d \in Device : \A u, v \in trusts(d) : trust[d][u].credential = trust[d][v].credential
Everywhere == \A d \in Device : trusts(d) # {} => \A u \in live : trust[d][u].state # "none"

(* A claim about to trust knows all the accounts there are; what is wiped    *)
(* again is deleted.                                                         *)
Listing == \A r \in Slot : req[r].step = "trust" => live \subseteq req[r].listed
Wiping == sweep.step = "wipe" => sweep.listed \subseteq deleted

OpenInv == Askers /\ Current /\ Alike /\ Everywhere /\ Listing /\ Wiping

(* One request goes on, ends or begins, and the screens go on.               *)
Goes(p) ==
    \/ req'[p] = req[p]
    \/ req'[p].step = "free" /\ ~req'[p].again
    \/ /\ req'[p].device \in Device /\ req'[p].credential = mine(req'[p].device)
       /\ req'[p].again \/ req'[p].step \in Pairing => Paired(req'[p].device)
       /\ req'[p].step = "trust" => live \subseteq req'[p].listed
Screens == \A d \in Device :
    /\ device'[d].credential = device[d].credential
    /\ device'[d].screen \in Waiting => Paired(d)

(* Nothing is trusted that was not, and no row of an account there is goes.  *)
Shrinks == \A d \in Device, u \in User :
    /\ trust'[d][u].state = "trusted" => trust'[d][u] = trust[d][u]
    /\ u \in live' /\ trust'[d][u].state = "none" => trust[d][u].state = "none"

LEMMA PairsOn ==
    ASSUME Screens, \A p \in Slot : Goes(p), NEW d \in Device, Paired(d)'
    PROVE  Paired(d)
  <1>1. CASE device'[d].screen \in Waiting
    BY <1>1 DEF Screens
  <1>2. ASSUME NEW r \in Slot, req'[r].device = d, req'[r].again \/ req'[r].step \in Pairing
        PROVE  Paired(d)
    <2>1. CASE req'[r] = req[r]
      BY <1>2, <2>1 DEF Paired
    <2>2. CASE req'[r].step = "free" /\ ~req'[r].again
      BY <1>2, <2>2 DEF Pairing
    <2>3. CASE req'[r].again \/ req'[r].step \in Pairing => Paired(req'[r].device)
      BY <1>2, <2>3
    <2> QED BY <2>1, <2>2, <2>3 DEF Goes
  <1> QED BY <1>1, <1>2 DEF Paired

LEMMA AskersOn ==
    ASSUME Askers, Listing, Screens, \A p \in Slot : Goes(p), live' \subseteq live
    PROVE  Askers' /\ Listing'
  <1> SUFFICES ASSUME NEW r \in Slot
               PROVE  /\ req'[r].step # "free" =>
                            /\ req'[r].device \in Device
                            /\ req'[r].credential = device'[req'[r].device].credential
                      /\ req'[r].step = "trust" => live' \subseteq req'[r].listed
    BY DEF Askers, Listing, mine
  <1>1. req'[r].device \in Device =>
           device'[req'[r].device].credential = mine(req'[r].device)
    BY DEF Screens, mine
  <1>2. CASE req'[r] = req[r]
    BY <1>1, <1>2 DEF Askers, Listing, mine
  <1>3. CASE req'[r].step = "free" /\ ~req'[r].again
    BY <1>3
  <1>4. CASE /\ req'[r].device \in Device /\ req'[r].credential = mine(req'[r].device)
             /\ req'[r].step = "trust" => live \subseteq req'[r].listed
    BY <1>1, <1>4
  <1> QED BY <1>2, <1>3, <1>4 DEF Goes

(* Trust stays or shrinks, and so do the accounts. *)
LEMMA Flow ==
    ASSUME OpenInv, Screens, \A p \in Slot : Goes(p), live' \subseteq live, Shrinks, Wiping'
    PROVE  OpenInv'
  <1>1. Askers' /\ Listing'
    BY AskersOn DEF OpenInv
  <1>2. \A d \in Device : \A u \in trusts(d)' : u \in trusts(d) /\ trust'[d][u] = trust[d][u]
    BY DEF Shrinks, trusts
  <1>3. Current'
    <2> SUFFICES ASSUME NEW d \in Device, Paired(d)', NEW u \in trusts(d)'
                 PROVE  trust'[d][u].credential = mine(d)'
      BY DEF Current
    <2>1. Paired(d)
      BY PairsOn
    <2>2. trust[d][u].credential = mine(d) /\ trust'[d][u] = trust[d][u]
      BY <1>2, <2>1 DEF OpenInv, Current
    <2> QED BY <2>2 DEF Screens, mine
  <1>4. Alike'
    BY <1>2 DEF OpenInv, Alike
  <1>5. Everywhere'
    <2> SUFFICES ASSUME NEW d \in Device, NEW v \in trusts(d)', NEW u \in live'
                 PROVE  trust'[d][u].state # "none"
      BY DEF Everywhere
    <2>1. v \in trusts(d) /\ u \in live /\ u \in User
      BY <1>2 DEF live
    <2>2. trust[d][u].state # "none"
      BY <2>1 DEF OpenInv, Everywhere
    <2> QED BY <2>1, <2>2 DEF Shrinks
  <1> QED BY <1>1, <1>3, <1>4, <1>5 DEF OpenInv

LEMMA SameTrust == ASSUME UNCHANGED trust PROVE Shrinks
  BY DEF Shrinks

LEMMA SameLives == ASSUME UNCHANGED account PROVE live' = live /\ deleted' = deleted
  BY DEF live, deleted, life

LEMMA StillWiping ==
    ASSUME OpenInv, UNCHANGED sweep, deleted \subseteq deleted'
    PROVE  Wiping'
  BY DEF OpenInv, Wiping

(* Rows and accounts stay as they are. *)
LEMMA Calm ==
    ASSUME OpenInv, Screens, \A p \in Slot : Goes(p), UNCHANGED <<account, trust, sweep>>
    PROVE  OpenInv'
  BY Flow, SameTrust, SameLives, StillWiping

-------------------------------------------------------------------------------
(* How screens and requests go on *)

LEMMA KeepScreens == ASSUME UNCHANGED device PROVE Screens
  BY DEF Screens, Paired

LEMMA KeepRequests == ASSUME UNCHANGED req PROVE \A p \in Slot : Goes(p)
  BY DEF Goes

LEMMA PutScreen ==
    ASSUME Devices, NEW d, NEW e, device' = [device EXCEPT ![d] = e],
           d \in Device => e.credential = device[d].credential /\ (e.screen \in Waiting => Paired(d))
    PROVE  Screens
  <1>1. \A c \in Device : device'[c] = IF c = d THEN e ELSE device[c]
    BY Zenon DEF Devices
  <1> QED BY <1>1 DEF Screens, Paired

LEMMA ShowsOn ==
    ASSUME Devices, NEW d, NEW s \in Screen, shows(d, s), s \in Waiting /\ d \in Device => Paired(d)
    PROVE  Screens
  <1> DEFINE e == [device[d] EXCEPT !.screen = s]
  <1>1. device' = [device EXCEPT ![d] = e]
    BY DEF shows
  <1>2. d \in Device => e.credential = device[d].credential /\ e.screen = s
    BY SMT DEF Devices, DeviceState
  <1> HIDE DEF e
  <1> QED BY <1>1, <1>2, PutScreen

LEMMA OpensOn ==
    ASSUME Devices, NEW d, NEW s \in Screen \ Waiting, NEW u, opens(d, s, u)
    PROVE  Screens
  <1> DEFINE e == [device[d] EXCEPT !.screen = s, !.user = u]
  <1>1. device' = [device EXCEPT ![d] = e]
    BY DEF opens
  <1>2. d \in Device => e.credential = device[d].credential /\ e.screen = s
    BY SMT DEF Devices, DeviceState
  <1> HIDE DEF e
  <1> QED BY <1>1, <1>2, PutScreen

LEMMA UndoOn ==
    ASSUME Devices, NEW d, NEW o, device' = [device EXCEPT ![d].undo = o]
    PROVE  Screens
  <1> DEFINE e == [device[d] EXCEPT !.undo = o]
  <1>1. device' = [device EXCEPT ![d] = e]
    OBVIOUS
  <1>2. d \in Device => e.credential = device[d].credential /\ e.screen = device[d].screen
    BY SMT DEF Devices, DeviceState
  <1> HIDE DEF e
  <1> QED BY <1>1, <1>2, PutScreen DEF Paired

LEMMA PutGoes ==
    ASSUME req \in [Slot -> Request], NEW r \in Slot, NEW q, req' = [req EXCEPT ![r] = q],
           \/ q = Idle
           \/ /\ q.device \in Device /\ q.credential = mine(q.device)
              /\ q.again \/ q.step \in Pairing => Paired(q.device)
              /\ q.step = "trust" => live \subseteq q.listed
    PROVE  \A p \in Slot : Goes(p)
  <1>1. \A p \in Slot : req'[p] = IF p = r THEN q ELSE req[p]
    BY Zenon
  <1>2. Idle.step = "free" /\ ~Idle.again
    BY DEF Idle
  <1> QED BY <1>1, <1>2 DEF Goes

LEMMA EndGoes ==
    ASSUME IInv, NEW r \in Slot, end(r)
    PROVE  \A p \in Slot : Goes(p)
  BY PutGoes DEF end, IInv, Typed, Requests

(* A request under way goes on, its device and credential the same.          *)
LEMMA GoesOn ==
    ASSUME IInv, OpenInv, NEW r \in Slot, req[r].step # "free", NEW q, req' = [req EXCEPT ![r] = q],
           q.device = req[r].device, q.credential = req[r].credential,
           q.again = req[r].again, q.step \in Pairing => req[r].step \in Pairing,
           q.step = "trust" => live \subseteq q.listed
    PROVE  \A p \in Slot : Goes(p)
  <1>1. req[r].device \in Device /\ req[r].credential = mine(req[r].device)
    BY DEF OpenInv, Askers
  <1>2. req[r].again \/ req[r].step \in Pairing => Paired(req[r].device)
    BY DEF Paired
  <1>3. req \in [Slot -> Request]
    BY DEF IInv, Typed, Requests
  <1> QED BY <1>1, <1>2, <1>3, PutGoes

LEMMA ToGoes ==
    ASSUME IInv, OpenInv, NEW r \in Slot, req[r].step # "free", NEW s \in Step \ {"trust"}, to(r, s),
           s \in Pairing => req[r].step \in Pairing
    PROVE  \A p \in Slot : Goes(p)
  <1> DEFINE q == [req[r] EXCEPT !.step = s]
  <1>1. req[r] \in Request
    BY Asked
  <1>2. /\ q.device = req[r].device /\ q.credential = req[r].credential /\ q.again = req[r].again
        /\ q.step = s
    BY <1>1, SMT DEF Request
  <1>3. req' = [req EXCEPT ![r] = q]
    BY DEF to
  <1> HIDE DEF q
  <1> QED BY <1>2, <1>3, GoesOn

LEMMA BeginGoes ==
    ASSUME IInv, NEW d \in Device, NEW u, NEW s \in Step \ {"trust"}, NEW t, begin(d, u, s, t),
           s \in Pairing => Paired(d)
    PROVE  \A p \in Slot : Goes(p)
  <1> DEFINE r == CHOOSE r \in Slot : req[r] = Idle
             q == asking(d, u, s, t)
  <1>1. r \in Slot /\ req' = [req EXCEPT ![r] = q]
    BY DEF begin
  <1>2. q.device = d /\ q.credential = mine(d) /\ ~q.again /\ q.step = s
    BY DEF asking
  <1>3. req \in [Slot -> Request]
    BY DEF IInv, Typed, Requests
  <1> HIDE DEF r, q
  <1> QED BY <1>1, <1>2, <1>3, PutGoes

-------------------------------------------------------------------------------
(* Steps that leave trust and accounts alone *)

LEMMA Screened ==
    ASSUME IInv
    PROVE  /\ Devices /\ req \in [Slot -> Request] /\ trust \in [Device -> [User -> Trust]]
           /\ account \in [User -> Account]
  BY DEF IInv, Typed, Rows, Accounts, Requests

(* Whose request it is pairs, if it does.                                    *)
LEMMA PairsNow ==
    ASSUME NEW r \in Slot, req[r].again \/ req[r].step \in Pairing
    PROVE  Paired(req[r].device)
  BY DEF Paired

LEMMA RefusedOn ==
    ASSUME IInv, OpenInv, NEW r \in Slot, req[r].step # "free", refused(r)
    PROVE  Screens /\ \A p \in Slot : Goes(p)
  <1>1. CASE req[r].again
    <2>1. end(r) /\ shows(req[r].device, "refused") /\ Paired(req[r].device)
      BY <1>1, PairsNow DEF refused
    <2>2. "refused" \in Screen
      BY DEF Screen
    <2> QED BY <2>1, <2>2, EndGoes, ShowsOn, Screened
  <1>2. CASE ~req[r].again
    <2>1. to(r, "recover") /\ UNCHANGED device
      BY <1>2 DEF refused
    <2>2. "recover" \in Step \ {"trust"} /\ "recover" \notin Pairing
      BY DEF Step, Pairing
    <2> QED BY <2>1, <2>2, ToGoes, KeepScreens
  <1> QED BY <1>1, <1>2

LEMMA IssueOpens ==
    ASSUME IInv, OpenInv, NEW r \in Slot, IssueTrusted(r) \/ IssueAccount(r) \/ IssueTouch(r)
    PROVE  OpenInv'
  <1>1. UNCHANGED <<account, trust, sweep>> /\ req[r].step # "free"
    BY DEF IssueTrusted, IssueAccount, IssueTouch
  <1>2. /\ {"account", "touch"} \subseteq Step \ {"trust"} /\ "account" \notin Pairing /\ "touch" \notin Pairing
        /\ {"gate", "in"} \subseteq Screen \ Waiting
    BY DEF Step, Pairing, Screen, Waiting
  <1>3. \/ to(r, "account") /\ UNCHANGED device
        \/ to(r, "touch") /\ UNCHANGED device
        \/ end(r) /\ opens(req[r].device, "gate", None)
        \/ end(r) /\ opens(req[r].device, "in", req[r].user)
        \/ refused(r)
    BY DEF IssueTrusted, IssueAccount, IssueTouch
  <1>4. Screens /\ \A p \in Slot : Goes(p)
    BY <1>1, <1>2, <1>3, ToGoes, EndGoes, KeepScreens, OpensOn, RefusedOn, Screened
  <1> QED BY <1>1, <1>4, Calm

LEMMA ChooseOpens ==
    ASSUME IInv, OpenInv, NEW d \in Device, NEW u \in User, Choose(d, u)
    PROVE  OpenInv'
  <1>1. "trusted" \in Step \ {"trust"} /\ "trusted" \notin Pairing /\ "entering" \in Screen \ Waiting
    BY DEF Step, Pairing, Screen, Waiting
  <1>2. /\ begin(d, u, "trusted", 0) /\ opens(d, "entering", u)
        /\ UNCHANGED <<account, trust, sweep>>
    BY DEF Choose
  <1> QED BY <1>1, <1>2, BeginGoes, OpensOn, Screened, Calm

LEMMA PairOpens ==
    ASSUME IInv, OpenInv, NEW d \in Device, ShowApproval(d) \/ Poll(d) \/ GiveUp(d)
    PROVE  OpenInv'
  <1>1. /\ {"clean", "select"} \subseteq Step \ {"trust"} /\ {"refused", "code"} \subseteq Screen
    BY DEF Step, Screen
  <1>2. Paired(d) /\ UNCHANGED <<account, trust, sweep>>
    BY DEF ShowApproval, Poll, GiveUp, waiting, Paired, Waiting
  <1>3. CASE ShowApproval(d)
    <2>1. begin(d, None, "clean", 0) /\ shows(d, "code")
      BY <1>3 DEF ShowApproval
    <2> QED BY <1>1, <1>2, <2>1, BeginGoes, ShowsOn, Screened, Calm
  <1>4. CASE Poll(d)
    <2>1. begin(d, None, "select", 0) /\ UNCHANGED device
      BY <1>4 DEF Poll
    <2> QED BY <1>1, <1>2, <2>1, BeginGoes, KeepScreens, Calm
  <1>5. CASE GiveUp(d)
    <2>1. UNCHANGED req /\ shows(d, "refused")
      BY <1>5 DEF GiveUp
    <2> QED BY <1>1, <1>2, <2>1, KeepRequests, ShowsOn, Screened, Calm
  <1> QED BY <1>3, <1>4, <1>5

LEMMA CodeOpens ==
    ASSUME IInv, OpenInv, NEW r \in Slot, RequestClean(r) \/ RequestInsert(r) \/ ClaimConsume(r)
    PROVE  OpenInv'
  <1>1. /\ {"insert", "list"} \subseteq Step \ {"trust"} /\ "refused" \in Screen
    BY DEF Step, Screen
  <1>2. /\ req[r].step \in Pairing /\ req[r].step # "free"
        /\ UNCHANGED <<account, trust, sweep>>
    BY DEF RequestClean, RequestInsert, ClaimConsume, Pairing
  <1>3. \/ to(r, "insert") /\ UNCHANGED device
        \/ to(r, "list") /\ UNCHANGED device
        \/ end(r) /\ UNCHANGED device
        \/ end(r) /\ shows(req[r].device, "refused")
    BY DEF RequestClean, RequestInsert, ClaimConsume
  <1>4. Screens /\ \A p \in Slot : Goes(p)
    BY <1>1, <1>2, <1>3, ToGoes, EndGoes, KeepScreens, ShowsOn, PairsNow, Screened
  <1> QED BY <1>2, <1>4, Calm

LEMMA ClaimSelectOpens ==
    ASSUME IInv, OpenInv, NEW r \in Slot, ClaimSelect(r)
    PROVE  OpenInv'
  <1>1. /\ req[r].step = "select" /\ req[r].step \in Pairing /\ req[r] \in Request
        /\ UNCHANGED <<account, trust, sweep, device>>
    BY Asked DEF ClaimSelect, Pairing
  <1>2. ASSUME NEW c \in Code, req' = [req EXCEPT ![r] = [@ EXCEPT !.step = "consume", !.code = c]]
        PROVE  \A p \in Slot : Goes(p)
    <2> DEFINE q == [req[r] EXCEPT !.step = "consume", !.code = c]
    <2>1. /\ q.device = req[r].device /\ q.credential = req[r].credential
          /\ q.again = req[r].again /\ q.step = "consume"
      BY <1>1, SMT DEF Request
    <2>2. req' = [req EXCEPT ![r] = q]
      BY <1>2
    <2> HIDE DEF q
    <2> QED BY <1>1, <2>1, <2>2, GoesOn
  <1>3. \A p \in Slot : Goes(p)
    BY <1>2, EndGoes DEF ClaimSelect, approvedFor
  <1> QED BY <1>1, <1>3, KeepScreens, Calm

(* No account is in its grace: those listed are all there are.               *)
LEMMA ClaimListOpens ==
    ASSUME ~Crossing, IInv, OpenInv, NEW r \in Slot, ClaimList(r)
    PROVE  OpenInv'
  <1>1. /\ req[r].step = "list" /\ req[r].step \in Pairing /\ req[r] \in Request /\ settled
        /\ UNCHANGED <<account, trust, sweep, device>>
    BY Asked DEF ClaimList, Pairing
  <1>2. live \subseteq active
    BY <1>1 DEF settled, live, active
  <1>3. ASSUME req' = [req EXCEPT ![r] = [@ EXCEPT !.step = "trust", !.listed = active]]
        PROVE  \A p \in Slot : Goes(p)
    <2> DEFINE q == [req[r] EXCEPT !.step = "trust", !.listed = active]
    <2>1. /\ q.device = req[r].device /\ q.credential = req[r].credential
          /\ q.again = req[r].again /\ q.step = "trust" /\ q.listed = active
      BY <1>1, SMT DEF Request
    <2>2. req' = [req EXCEPT ![r] = q]
      BY <1>3
    <2> HIDE DEF q
    <2> QED BY <1>1, <1>2, <2>1, <2>2, GoesOn
  <1>4. \A p \in Slot : Goes(p)
    BY <1>3, EndGoes DEF ClaimList
  <1> QED BY <1>1, <1>4, KeepScreens, Calm

LEMMA StartOpens ==
    ASSUME IInv, OpenInv, NEW d \in Device,
           StartCreate(d) \/ StartDelete(d) \/ StartUndo(d) \/ StartCommit(d) \/ StartWrite(d)
    PROVE  OpenInv'
  <1>1. \E s \in {"create", "gate", "restore", "due", "write"} : \E u, t : begin(d, u, s, t)
    BY DEF StartCreate, StartDelete, StartUndo, StartCommit, StartWrite
  <1>2. \A s \in {"create", "gate", "restore", "due", "write"} : s \in Step \ {"trust"} /\ s \notin Pairing
    BY DEF Step, Pairing
  <1>3. \A p \in Slot : Goes(p)
    BY <1>1, <1>2, BeginGoes
  <1>4. Screens
    <2>1. UNCHANGED device \/ device' = [device EXCEPT ![d].undo = None]
      BY DEF StartCreate, StartDelete, StartUndo, StartCommit, StartWrite
    <2> QED BY <2>1, KeepScreens, UndoOn, Screened
  <1>5. UNCHANGED <<account, trust, sweep>>
    BY DEF StartCreate, StartDelete, StartUndo, StartCommit, StartWrite
  <1> QED BY <1>3, <1>4, <1>5, Calm

(* A request goes on to another statement, at another time.                   *)
LEMMA RestampGoes ==
    ASSUME IInv, OpenInv, NEW r \in Slot, req[r].step # "free", NEW s \in {"due", "flip"}, NEW t,
           req' = [req EXCEPT ![r] = [@ EXCEPT !.step = s, !.at = t]]
    PROVE  \A p \in Slot : Goes(p)
  <1> DEFINE q == [req[r] EXCEPT !.step = s, !.at = t]
  <1>1. req[r] \in Request
    BY Asked
  <1>2. /\ q.device = req[r].device /\ q.credential = req[r].credential
        /\ q.again = req[r].again /\ q.step = s /\ q.step \notin Pairing /\ q.step # "trust"
    BY <1>1, SMT DEF Request, Pairing
  <1>3. req' = [req EXCEPT ![r] = q]
    OBVIOUS
  <1> HIDE DEF q
  <1> QED BY <1>2, <1>3, GoesOn

LEMMA EndingOpens ==
    ASSUME IInv, OpenInv, NEW r \in Slot,
           DeleteGate(r) \/ DeleteAnswer(r) \/ CommitDue(r) \/ Write(r) \/ Die(r)
    PROVE  OpenInv'
  <1>1. "delete" \in Step \ {"trust"} /\ "delete" \notin Pairing /\ "gate" \in Screen \ Waiting
    BY DEF Step, Pairing, Screen, Waiting
  <1>2. UNCHANGED <<account, trust, sweep>> /\ req[r].step # "free"
    BY DEF DeleteGate, DeleteAnswer, CommitDue, Write, Die
  <1>3. \/ to(r, "delete") \/ end(r)
        \/ \E s \in {"due", "flip"} : \E t : req' = [req EXCEPT ![r] = [@ EXCEPT !.step = s, !.at = t]]
    <2>1. CASE DeleteGate(r) \/ DeleteAnswer(r) \/ Write(r)
      BY <2>1 DEF DeleteGate, DeleteAnswer, Write
    <2>2. CASE CommitDue(r)
      BY <2>2 DEF CommitDue
    <2>3. CASE Die(r)
      BY <2>3 DEF Die, finishes
    <2> QED BY <2>1, <2>2, <2>3
  <1>4. \A p \in Slot : Goes(p)
    BY <1>1, <1>2, <1>3, ToGoes, EndGoes, RestampGoes
  <1>5. \/ UNCHANGED device
        \/ opens(req[r].device, "gate", None)
        \/ \E o : device' = [device EXCEPT ![req[r].device].undo = o]
    BY DEF DeleteGate, DeleteAnswer, CommitDue, Write, Die
  <1>6. Screens
    BY <1>1, <1>5, KeepScreens, OpensOn, UndoOn, Screened
  <1> QED BY <1>2, <1>4, <1>6, Calm

LEMMA QuietOpens ==
    ASSUME IInv, OpenInv, UNCHANGED <<account, trust, req>>,
           UNCHANGED device \/ \E d : opens(d, "gate", None),
           UNCHANGED sweep \/ sweep'.step # "wipe" \/ sweep'.listed \subseteq deleted
    PROVE  OpenInv'
  <1>1. "gate" \in Screen \ Waiting
    BY DEF Screen, Waiting
  <1>2. Screens /\ \A p \in Slot : Goes(p)
    BY <1>1, KeepScreens, KeepRequests, OpensOn, Screened
  <1>3. Wiping'
    BY SameLives, StillWiping DEF Wiping
  <1> QED BY <1>2, <1>3, SameLives, SameTrust, Flow

LEMMA AsideOpens ==
    ASSUME IInv, OpenInv,
           \/ \E c \in Code : Approve(c) \/ Expire(c)
           \/ \E d \in Device : Leave(d)
           \/ SweepList \/ SweepRecent \/ Tick \/ UNCHANGED vars
    PROVE  OpenInv'
  <1>1. UNCHANGED <<account, trust, req>>
    BY DEF Approve, Expire, Leave, SweepList, SweepRecent, Tick, vars
  <1>2. UNCHANGED device \/ \E d : opens(d, "gate", None)
    BY DEF Approve, Expire, Leave, SweepList, SweepRecent, Tick, vars
  <1>3. UNCHANGED sweep \/ sweep'.step # "wipe" \/ sweep'.listed \subseteq deleted
    BY DEF Approve, Expire, Leave, SweepList, SweepRecent, Tick, vars, recent
  <1> QED BY <1>1, <1>2, <1>3, QuietOpens

-------------------------------------------------------------------------------
(* Steps about the end of an account *)

LEMMA LivesStay ==
    ASSUME IInv, NEW u \in User, NEW a \in Account, account' = [account EXCEPT ![u] = a],
           a.life \in {"ACTIVE", "PENDING_DELETE"} => life(u) \in {"ACTIVE", "PENDING_DELETE"},
           life(u) = "DELETED" => a.life = "DELETED"
    PROVE  live' \subseteq live /\ deleted \subseteq deleted'
  <1>1. \A v \in User : account'[v] = IF v = u THEN a ELSE account[v]
    BY Zenon, Screened
  <1> QED BY <1>1 DEF live, deleted, life

LEMMA DeleteUpdateOpens ==
    ASSUME IInv, OpenInv, NEW r \in Slot, DeleteUpdate(r)
    PROVE  OpenInv'
  <1> DEFINE u == req[r].user
             a == [life |-> "PENDING_DELETE", purgeAfter |-> graceEnd(req[r].at)]
  <1>1. /\ req[r].step = "delete" /\ req[r].step # "free" /\ to(r, "answer")
        /\ UNCHANGED <<trust, sweep, device>>
        /\ IF u \in active THEN account' = [account EXCEPT ![u] = a] ELSE UNCHANGED account
    BY DEF DeleteUpdate
  <1>2. "answer" \in Step \ {"trust"} /\ "answer" \notin Pairing
    BY DEF Step, Pairing
  <1>3. Screens /\ \A p \in Slot : Goes(p)
    BY <1>1, <1>2, ToGoes, KeepScreens
  <1>4. live' \subseteq live /\ deleted \subseteq deleted'
    <2>1. CASE u \in active
      <3>1. u \in User /\ life(u) = "ACTIVE" /\ a.life = "PENDING_DELETE"
        BY <2>1 DEF active
      <3>2. a \in Account
        BY Numbers, Asked, SMT DEF Account, Life, graceEnd
      <3>3. account' = [account EXCEPT ![u] = a]
        BY <1>1, <2>1
      <3> HIDE DEF a, u
      <3> QED BY <3>1, <3>2, <3>3, LivesStay
    <2>2. CASE u \notin active
      BY <1>1, <2>2, SameLives
    <2> QED BY <2>1, <2>2
  <1> QED BY <1>1, <1>3, <1>4, SameTrust, StillWiping, Flow

LEMMA RestoreUpdateOpens ==
    ASSUME IInv, OpenInv, NEW r \in Slot, RestoreUpdate(r)
    PROVE  OpenInv'
  <1> DEFINE u == req[r].user
             a == [life |-> "ACTIVE", purgeAfter |-> 0]
  <1>1. /\ req[r].step = "restore" /\ req[r].step # "free" /\ req[r].step \in Named
        /\ UNCHANGED <<trust, sweep, device>>
        /\ end(r) \/ finishes(r)
    BY DEF RestoreUpdate, Named, Ending
  <1>2. \/ life(u) = "PENDING_DELETE" /\ account' = [account EXCEPT ![u] = a]
        \/ UNCHANGED account
    BY DEF RestoreUpdate
  <1>3. u \in User
    BY <1>1, Asked
  <1>4. \A p \in Slot : Goes(p)
    <2>1. CASE end(r)
      BY <2>1, EndGoes
    <2>2. CASE finishes(r)
      BY <1>1, <2>2, RestampGoes DEF finishes
    <2> QED BY <1>1, <2>1, <2>2
  <1>5. live' \subseteq live /\ deleted \subseteq deleted'
    <2>1. CASE life(u) = "PENDING_DELETE" /\ account' = [account EXCEPT ![u] = a]
      <3>1. a \in Account /\ a.life = "ACTIVE"
        BY DEF Account, Life
      <3> HIDE DEF a, u
      <3> QED BY <1>3, <2>1, <3>1, LivesStay
    <2>2. CASE UNCHANGED account
      BY <2>2, SameLives
    <2> QED BY <1>2, <2>1, <2>2
  <1> QED BY <1>1, <1>4, <1>5, KeepScreens, SameTrust, StillWiping, Flow

LEMMA ForgottenRows ==
    ASSUME IInv, NEW u \in User, trust' = forgotten(u), u \notin live'
    PROVE  Shrinks
  <1>1. \A d \in Device, v \in User :
           trust'[d][v] = IF v = u THEN [state |-> "none", credential |-> 1] ELSE trust[d][v]
    <2> SUFFICES ASSUME NEW d \in Device, NEW v \in User
                 PROVE  trust'[d][v] = IF v = u THEN [state |-> "none", credential |-> 1] ELSE trust[d][v]
      OBVIOUS
    <2>1. trust[d] \in [User -> Trust]
      BY Screened
    <2>2. trust'[d] = [trust[d] EXCEPT ![u] = [state |-> "none", credential |-> 1]]
      BY DEF forgotten
    <2> QED BY <2>1, <2>2, Zenon
  <1> QED BY <1>1 DEF Shrinks

LEMMA PurgeOpens ==
    ASSUME IInv, OpenInv, NEW u, NEW t, Purge(u, t), u \in User
    PROVE  live' \subseteq live /\ deleted \subseteq deleted' /\ Shrinks
  <1>1. CASE doomed(u, t)
    <2> DEFINE a == [life |-> "DELETED", purgeAfter |-> 0]
    <2>1. life(u) = "PENDING_DELETE" /\ account' = [account EXCEPT ![u] = a] /\ trust' = forgotten(u)
      BY <1>1 DEF Purge, doomed
    <2>2. a \in Account /\ a.life = "DELETED"
      BY DEF Account, Life
    <2> HIDE DEF a
    <2>3. live' \subseteq live /\ deleted \subseteq deleted'
      BY <2>1, <2>2, LivesStay
    <2>4. u \notin live'
      <3>1. account'[u] = a
        BY <2>1, Screened, Zenon
      <3> QED BY <2>2, <3>1 DEF live, life
    <2> QED BY <2>1, <2>3, <2>4, ForgottenRows
  <1>2. CASE ~doomed(u, t)
    BY <1>2, SameLives, SameTrust DEF Purge
  <1> QED BY <1>1, <1>2

LEMMA CommitFlipOpens ==
    ASSUME IInv, OpenInv, NEW r \in Slot, CommitFlip(r)
    PROVE  OpenInv'
  <1>1. /\ req[r].step \in Named /\ Purge(req[r].user, req[r].at) /\ end(r)
        /\ opens(req[r].device, "gate", None) /\ UNCHANGED sweep
    BY DEF CommitFlip, Named, Ending
  <1>2. req[r].user \in User
    BY <1>1, Asked
  <1>3. live' \subseteq live /\ deleted \subseteq deleted' /\ Shrinks
    BY <1>1, <1>2, PurgeOpens
  <1>4. "gate" \in Screen \ Waiting
    BY DEF Screen, Waiting
  <1> QED BY <1>1, <1>3, <1>4, EndGoes, OpensOn, Screened, StillWiping, Flow

LEMMA SweepPurgeOpens ==
    ASSUME IInv, OpenInv, SweepPurge
    PROVE  OpenInv'
  <1>1. sweep.step = "due" /\ sweep \in Sweep /\ UNCHANGED <<req, device>>
    BY DEF SweepPurge, IInv, Typed, Rows
  <1>2. CASE sweep.listed = {} /\ UNCHANGED <<account, data, trust>> /\ sweep' = [sweep EXCEPT !.step = "recent"]
    <2>1. sweep'.step # "wipe"
      BY <1>1, <1>2, SMT DEF Sweep
    <2> QED BY <1>1, <1>2, <2>1, QuietOpens
  <1>3. ASSUME NEW u \in sweep.listed, Purge(u, sweep.at), sweep' = [sweep EXCEPT !.listed = @ \ {u}]
        PROVE  OpenInv'
    <2>1. u \in User /\ sweep'.step # "wipe"
      BY <1>1, <1>3, SMT DEF Sweep
    <2>2. live' \subseteq live /\ Shrinks
      BY <1>3, <2>1, PurgeOpens
    <2>3. Wiping'
      BY <2>1 DEF Wiping
    <2> QED BY <1>1, <2>2, <2>3, KeepScreens, KeepRequests, Flow
  <1> QED BY <1>2, <1>3 DEF SweepPurge

LEMMA SweepWipeOpens ==
    ASSUME IInv, OpenInv, SweepWipe
    PROVE  OpenInv'
  <1>1. sweep.step = "wipe" /\ sweep \in Sweep /\ UNCHANGED <<account, req, device>>
        /\ sweep.listed \subseteq deleted
    BY DEF SweepWipe, IInv, Typed, Rows, OpenInv, Wiping
  <1>2. CASE sweep.listed = {} /\ sweep' = [sweep EXCEPT !.step = "idle"] /\ UNCHANGED <<data, trust>>
    <2>1. sweep'.step # "wipe"
      BY <1>1, <1>2, SMT DEF Sweep
    <2> QED BY <1>1, <1>2, <2>1, QuietOpens
  <1>3. ASSUME NEW u \in sweep.listed, trust' = forgotten(u), sweep' = [sweep EXCEPT !.listed = @ \ {u}]
        PROVE  OpenInv'
    <2>1. u \in User /\ life(u) = "DELETED" /\ sweep'.listed \subseteq sweep.listed
      BY <1>1, <1>3, SMT DEF Sweep, deleted
    <2>2. u \notin live'
      BY <1>1, <2>1 DEF live, life
    <2>3. Wiping'
      BY <1>1, <2>1, SameLives DEF Wiping
    <2> QED BY <1>1, <1>3, <2>1, <2>2, <2>3, ForgottenRows, SameLives, KeepScreens, KeepRequests, Flow
  <1> QED BY <1>2, <1>3 DEF SweepWipe

-------------------------------------------------------------------------------
(* Steps that trust or distrust *)

(* A device starts anew, with another credential and nothing under way.      *)
LEMMA LeavesOpens ==
    ASSUME IInv, OpenInv, NEW d \in Device, leaves(d), ~busy(d), UNCHANGED <<account, req, sweep>>,
           Shrinks
    PROVE  OpenInv'
  <1> DEFINE e == [screen |-> "gate", user |-> None, credential |-> device[d].credential + 1, undo |-> None]
  <1>1. device' = [device EXCEPT ![d] = e] /\ e.screen \notin Waiting
    BY DEF leaves, Waiting
  <1> HIDE DEF e
  <1>2. \A c \in Device : device'[c] = IF c = d THEN e ELSE device[c]
    BY <1>1, Screened, Zenon DEF Devices
  <1>3. \A r \in Slot : req[r].device # d
    BY DEF busy
  <1>4. live' = live /\ deleted' = deleted
    BY SameLives
  <1>5. ~Paired(d)' /\ \A c \in Device \ {d} : (Paired(c)' => Paired(c)) /\ mine(c)' = mine(c)
    BY <1>1, <1>2, <1>3 DEF Paired, mine
  <1>6. \A c \in Device : \A u \in trusts(c)' : u \in trusts(c) /\ trust'[c][u] = trust[c][u]
    BY DEF Shrinks, trusts
  <1>7. Askers'
    BY <1>2, <1>3 DEF OpenInv, Askers, mine
  <1>8. Current'
    BY <1>5, <1>6 DEF OpenInv, Current
  <1>9. Alike'
    BY <1>6 DEF OpenInv, Alike
  <1>10. Everywhere'
    <2> SUFFICES ASSUME NEW c \in Device, NEW v \in trusts(c)', NEW u \in live'
                 PROVE  trust'[c][u].state # "none"
      BY DEF Everywhere
    <2>1. v \in trusts(c) /\ u \in live /\ u \in User
      BY <1>4, <1>6 DEF live
    <2>2. trust[c][u].state # "none"
      BY <2>1 DEF OpenInv, Everywhere
    <2> QED BY <2>1, <2>2 DEF Shrinks
  <1>11. Listing' /\ Wiping'
    BY <1>4 DEF OpenInv, Listing, Wiping
  <1> QED BY <1>7, <1>8, <1>9, <1>10, <1>11 DEF OpenInv

LEMMA RevokedRows ==
    ASSUME IInv, NEW d \in Device, NEW u \in User,
           \/ trust' = [trust EXCEPT ![d] = revoked(d, u)]
           \/ trust' = [e \in Device |-> revoked(e, u)]
    PROVE  Shrinks
  <1>1. \A e \in Device : trust'[e] = trust[e] \/ trust'[e] = revoked(e, u)
    BY Screened, Zenon
  <1>2. ASSUME NEW e \in Device, NEW v \in User
        PROVE  \/ revoked(e, u)[v] = trust[e][v]
               \/ trust[e][v].state = "trusted" /\ revoked(e, u)[v].state = "revoked"
    <2>1. trust[e] \in [User -> Trust] /\ trust[e][u] \in Trust
      BY Screened
    <2> DEFINE row == [trust[e][u] EXCEPT !.state = IF @ = "trusted" THEN "revoked" ELSE @]
    <2>2. trust[e][u].state = "trusted" => row.state = "revoked"
      BY <2>1, SMT DEF Trust
    <2>3. trust[e][u].state # "trusted" => row = trust[e][u]
      BY <2>1, SMT DEF Trust
    <2>4. revoked(e, u) = [trust[e] EXCEPT ![u] = row]
      BY DEF revoked
    <2> HIDE DEF row
    <2>5. revoked(e, u)[v] = IF v = u THEN row ELSE trust[e][v]
      BY <2>1, <2>4, Zenon
    <2> QED BY <2>2, <2>3, <2>5
  <1> QED BY <1>1, <1>2 DEF Shrinks

LEMMA LogoutOpens ==
    ASSUME IInv, OpenInv, NEW d \in Device, Logout(d) \/ Reinstall(d)
    PROVE  OpenInv'
  <1>1. leaves(d) \/ UNCHANGED device
    BY DEF Logout, Reinstall
  <1>2. ~busy(d) /\ UNCHANGED <<account, req, sweep>>
    BY DEF Logout, Reinstall
  <1>3. Shrinks
    <2>1. CASE Reinstall(d)
      BY <2>1, SameTrust DEF Reinstall
    <2>2. CASE Logout(d)
      BY <2>2, Device_, RevokedRows DEF Logout
    <2> QED BY <2>1, <2>2
  <1>4. CASE leaves(d)
    BY <1>2, <1>3, <1>4, LeavesOpens
  <1>5. CASE UNCHANGED device
    <2>1. Screens /\ \A p \in Slot : Goes(p)
      BY <1>2, <1>5, KeepScreens, KeepRequests
    <2> QED BY <1>2, <1>3, <2>1, SameLives, StillWiping, Flow
  <1> QED BY <1>1, <1>4, <1>5

(* The rows of one device that is in, or has just asked, carry its credential *)
(* and cover all the accounts there are.                                      *)
LEMMA TrustsAll ==
    ASSUME OpenInv, NEW d \in Device, Askers', Listing', UNCHANGED <<account, sweep>>,
           \A e \in Device : mine(e)' = mine(e),
           \A e \in Device \ {d} : trust'[e] = trust[e] /\ (Paired(e)' => Paired(e)),
           \A u \in trusts(d)' : trust'[d][u].credential = mine(d),
           trusts(d)' # {} => \A u \in live : trust'[d][u].state # "none"
    PROVE  OpenInv'
  <1>1. live' = live /\ deleted' = deleted
    BY SameLives
  <1>2. \A e \in Device \ {d} : trusts(e)' = trusts(e)
    BY DEF trusts
  <1>3. Current'
    BY <1>2 DEF OpenInv, Current
  <1>4. Alike'
    BY <1>2 DEF OpenInv, Alike
  <1>5. Everywhere'
    BY <1>1, <1>2 DEF OpenInv, Everywhere
  <1>6. Wiping'
    BY <1>1 DEF OpenInv, Wiping
  <1> QED BY <1>3, <1>4, <1>5, <1>6 DEF OpenInv

LEMMA ClaimTrustOpens ==
    ASSUME IInv, OpenInv, NEW r \in Slot, ClaimTrust(r)
    PROVE  OpenInv'
  <1>0. PICK d, c : d = req[r].device /\ c = req[r].credential
    OBVIOUS
  <1> DEFINE row(u) == IF u \in req[r].listed THEN trusting(trust[d][u], c) ELSE trust[d][u]
  <1>1. /\ req[r].step = "trust" /\ end(r) /\ UNCHANGED <<account, sweep>>
        /\ (device[d].screen = "code" /\ shows(d, "approved")) \/ UNCHANGED device
        /\ trust' = [trust EXCEPT ![d] = [u \in User |-> row(u)]]
    BY <1>0 DEF ClaimTrust
  <1>2. d \in Device /\ c = mine(d) /\ live \subseteq req[r].listed /\ Paired(d)
    BY <1>0, <1>1 DEF OpenInv, Askers, Listing, Paired, Pairing
  <1>3. \A p \in Slot : Goes(p)
    BY <1>1, EndGoes
  <1>4. Screens
    BY <1>1, <1>2, KeepScreens, ShowsOn, Screened DEF Screen
  <1>5. Askers' /\ Listing'
    BY <1>1, <1>3, <1>4, SameLives, AskersOn DEF OpenInv
  <1>6. \A e \in Device : (Paired(e)' => Paired(e)) /\ mine(e)' = mine(e)
    BY <1>3, <1>4, PairsOn DEF Screens, mine
  <1>7. trust'[d] = [u \in User |-> row(u)] /\ \A e \in Device \ {d} : trust'[e] = trust[e]
    BY <1>1, <1>2, Screened, Zenon
  <1>8. \A u \in User : trust'[d][u] = row(u)
    BY <1>7
  <1>9. \A u \in User : u \in req[r].listed => row(u) = [state |-> "trusted", credential |-> c]
    BY DEF trusting
  <1>10. \A u \in trusts(d)' : trust'[d][u].credential = mine(d)
    <2> SUFFICES ASSUME NEW u \in User, trust'[d][u].state = "trusted"
                 PROVE  trust'[d][u].credential = mine(d)
      BY DEF trusts
    <2>1. CASE u \in req[r].listed
      BY <1>2, <1>8, <1>9, <2>1
    <2>2. CASE u \notin req[r].listed
      BY <1>2, <1>8, <2>2 DEF OpenInv, Current, trusts
    <2> QED BY <2>1, <2>2
  <1>11. \A u \in live : trust'[d][u].state # "none"
    BY <1>2, <1>8, <1>9 DEF live
  <1> HIDE DEF row
  <1> QED BY <1>1, <1>2, <1>5, <1>6, <1>7, <1>10, <1>11, TrustsAll

LEMMA RecoverOpens ==
    ASSUME IInv, OpenInv, NEW r \in Slot, Recover(r)
    PROVE  OpenInv'
  <1>0. PICK d, c : d = req[r].device /\ c = req[r].credential
    OBVIOUS
  <1> DEFINE rows == {u \in User : trust[d][u].state = "trusted"}
             row(u) == IF u \in rows THEN [state |-> "trusted", credential |-> c] ELSE trust[d][u]
             q == [req[r] EXCEPT !.step = "trusted", !.again = TRUE]
  <1>1. /\ req[r].step = "recover" /\ UNCHANGED <<account, sweep>>
        /\ \/ end(r) /\ shows(d, "refused")
           \/ req' = [req EXCEPT ![r] = q] /\ UNCHANGED device
        /\ trust' = [trust EXCEPT ![d] = [u \in User |-> row(u)]]
    BY <1>0 DEF Recover
  <1>2. d \in Device /\ c = mine(d) /\ req[r] \in Request
    BY <1>0, <1>1, Asked DEF OpenInv, Askers
  <1>3. q.device = d /\ q.credential = c /\ q.step = "trusted"
    <2>1. q.device = req[r].device /\ q.credential = req[r].credential /\ q.step = "trusted"
      BY <1>2, SMT DEF Request
    <2> QED BY <1>0, <2>1
  <1>4. Idle.step = "free" /\ Idle.device \notin Device /\ "trusted" # "trust"
    BY DeviceTrustAssumption DEF Idle
  <1> HIDE DEF q
  <1>5. \A p \in Slot : req'[p] = req[p] \/ (p = r /\ (req'[p] = q \/ req'[p] = Idle))
    BY <1>1, Screened, Zenon DEF end
  <1>6. \A e \in Device : device'[e].credential = device[e].credential
                          /\ (e # d => device'[e] = device[e])
    <2>1. CASE UNCHANGED device
      BY <2>1
    <2>2. CASE shows(d, "refused")
      <3> DEFINE s == [device[d] EXCEPT !.screen = "refused"]
      <3>1. device' = [device EXCEPT ![d] = s]
        BY <2>2 DEF shows
      <3>2. s.credential = device[d].credential
        BY <1>2, Screened, SMT DEF Devices, DeviceState
      <3> HIDE DEF s
      <3>3. \A e \in Device : device'[e] = IF e = d THEN s ELSE device[e]
        BY <3>1, Screened, Zenon DEF Devices
      <3> QED BY <3>2, <3>3
    <2> QED BY <1>1, <2>1, <2>2
  <1>7. Askers' /\ Listing'
    <2> SUFFICES ASSUME NEW p \in Slot
                 PROVE  /\ req'[p].step # "free" =>
                              /\ req'[p].device \in Device
                              /\ req'[p].credential = device'[req'[p].device].credential
                        /\ req'[p].step = "trust" => live' \subseteq req'[p].listed
      BY DEF Askers, Listing, mine
    <2>1. live' = live
      BY <1>1, SameLives
    <2>2. CASE req'[p] = req[p]
      BY <1>6, <2>1, <2>2 DEF OpenInv, Askers, Listing, mine
    <2>3. CASE req'[p] = q
      BY <1>2, <1>3, <1>4, <1>6, <2>3 DEF mine
    <2>4. CASE req'[p] = Idle
      BY <1>4, <2>4
    <2> QED BY <1>5, <2>2, <2>3, <2>4
  <1>8. \A e \in Device \ {d} : Paired(e)' => Paired(e)
    <2> SUFFICES ASSUME NEW e \in Device \ {d}, Paired(e)' PROVE Paired(e)
      OBVIOUS
    <2>1. device'[e] = device[e]
      BY <1>6
    <2>2. \A p \in Slot : req'[p].device = e => req'[p] = req[p]
      BY <1>3, <1>4, <1>5
    <2> QED BY <2>1, <2>2 DEF Paired
  <1>9. trust'[d] = [u \in User |-> row(u)] /\ \A e \in Device \ {d} : trust'[e] = trust[e]
    BY <1>1, <1>2, Screened, Zenon
  <1>10. \A u \in User : trust'[d][u] = row(u)
    BY <1>9
  <1>11. \A u \in trusts(d)' : trust'[d][u].credential = mine(d)
    BY <1>2, <1>10 DEF trusts
  <1>12. trusts(d)' # {} => \A u \in live : trust'[d][u].state # "none"
    <2>1. trusts(d)' # {} => trusts(d) # {}
      BY <1>10 DEF trusts
    <2>2. \A u \in live : u \in User /\ (trusts(d) # {} => trust[d][u].state # "none")
      BY <1>2 DEF OpenInv, Everywhere, live
    <2>3. \A u \in User : trust[d][u].state # "none" => row(u).state # "none"
      OBVIOUS
    <2> QED BY <1>10, <2>1, <2>2, <2>3
  <1>13. \A e \in Device : mine(e)' = mine(e)
    BY <1>6 DEF mine
  <1> HIDE DEF row
  <1> QED BY <1>1, <1>2, <1>7, <1>8, <1>9, <1>11, <1>12, <1>13, TrustsAll

(* The devices that are in are trusted for the new account, with a           *)
(* credential of theirs; no claim has listed the accounts before it.         *)
LEMMA CreateOpens ==
    ASSUME ~Crossing, IInv, OpenInv, NEW r \in Slot, Create(r)
    PROVE  OpenInv'
  <1>1. end(r) /\ ~claiming /\ UNCHANGED <<device, sweep>>
    BY DEF Create
  <1>2. Screens /\ \A p \in Slot : Goes(p)
    BY <1>1, EndGoes, KeepScreens
  <1>3. CASE UNCHANGED <<account, data, trust>>
    BY <1>1, <1>2, <1>3, Calm
  <1>4. ASSUME NEW n \in User, life(n) = "none", NEW cred \in [inheriting(r) -> Credential],
               \A d \in inheriting(r) : cred[d] \in credentialsOf(d),
               account' = [account EXCEPT ![n].life = "ACTIVE"],
               trust' = [d \in Device |->
                            IF d \in inheriting(r) /\ trust[d][n].state = "none"
                            THEN [trust[d] EXCEPT ![n] = [state |-> "trusted", credential |-> cred[d]]]
                            ELSE trust[d]]
        PROVE  OpenInv'
    <2>1. live' \subseteq live \cup {n} /\ deleted \subseteq deleted'
      <3> DEFINE a == [account[n] EXCEPT !.life = "ACTIVE"]
      <3>1. account' = [account EXCEPT ![n] = a]
        BY <1>4
      <3> HIDE DEF a
      <3>2. \A v \in User : account'[v] = IF v = n THEN a ELSE account[v]
        BY <3>1, Screened, Zenon
      <3> QED BY <1>4, <3>2 DEF live, deleted, life
    <2>2. \A d \in Device, v \in User :
             \/ trust'[d][v] = trust[d][v]
             \/ /\ v = n /\ d \in inheriting(r)
                /\ trust'[d][v] = [state |-> "trusted", credential |-> cred[d]]
      <3> SUFFICES ASSUME NEW d \in Device, NEW v \in User
                   PROVE  \/ trust'[d][v] = trust[d][v]
                          \/ /\ v = n /\ d \in inheriting(r)
                             /\ trust'[d][v] = [state |-> "trusted", credential |-> cred[d]]
        OBVIOUS
      <3>1. trust[d] \in [User -> Trust]
        BY Screened
      <3> QED BY <1>4, <3>1
    <2>3. \A d \in Device : d \in inheriting(r) <=> trusts(d) # {}
      BY DEF inheriting, credentialsOf, trusts
    <2>4. \A d \in inheriting(r) : d \in Device /\ \E v \in trusts(d) : cred[d] = trust[d][v].credential
      BY <1>4 DEF inheriting, credentialsOf, trusts
    <2>5. \A d \in Device : \A u \in trusts(d)' :
             \E v \in trusts(d) : trust'[d][u].credential = trust[d][v].credential
      <3> SUFFICES ASSUME NEW d \in Device, NEW u \in User, trust'[d][u].state = "trusted"
                   PROVE  \E v \in trusts(d) : trust'[d][u].credential = trust[d][v].credential
        BY DEF trusts
      <3>1. CASE trust'[d][u] = trust[d][u]
        BY <3>1 DEF trusts
      <3>2. CASE d \in inheriting(r) /\ trust'[d][u] = [state |-> "trusted", credential |-> cred[d]]
        BY <2>4, <3>2
      <3> QED BY <2>2, <3>1, <3>2
    <2>6. Askers'
      BY <1>1, <1>2 DEF OpenInv, Askers, Goes, Screens, mine
    <2>7. Current'
      <3> SUFFICES ASSUME NEW d \in Device, Paired(d)', NEW u \in trusts(d)'
                   PROVE  trust'[d][u].credential = mine(d)'
        BY DEF Current
      <3>1. Paired(d) /\ mine(d)' = mine(d)
        BY <1>2, PairsOn DEF Screens, mine
      <3> QED BY <2>5, <3>1 DEF OpenInv, Current
    <2>8. Alike'
      <3> SUFFICES ASSUME NEW d \in Device, NEW u \in trusts(d)', NEW v \in trusts(d)'
                   PROVE  trust'[d][u].credential = trust'[d][v].credential
        BY DEF Alike
      <3> QED BY <2>5 DEF OpenInv, Alike
    <2>9. Everywhere'
      <3> SUFFICES ASSUME NEW d \in Device, NEW w \in trusts(d)', NEW u \in live'
                   PROVE  trust'[d][u].state # "none"
        BY DEF Everywhere
      <3>1. trusts(d) # {} /\ d \in inheriting(r) /\ u \in User
        BY <2>3, <2>5 DEF live
      <3>2. CASE u = n
        <4>1. trust[d][n].state = "none" => trust'[d][n].state = "trusted"
          <5>1. trust[d] \in [User -> Trust]
            BY Screened
          <5>2. ASSUME trust[d][n].state = "none"
                PROVE  trust'[d] = [trust[d] EXCEPT ![n] = [state |-> "trusted", credential |-> cred[d]]]
            BY <1>4, <3>1, <5>2
          <5> QED BY <5>1, <5>2
        <4>2. trust'[d][n] = trust[d][n] \/ trust'[d][n] = [state |-> "trusted", credential |-> cred[d]]
          BY <2>2
        <4>3. trust'[d][n].state # "none"
          BY <4>1, <4>2
        <4> QED BY <3>2, <4>3
      <3>3. CASE u # n
        <4>1. u \in live
          BY <2>1, <3>3
        <4> QED BY <2>2, <3>1, <3>3, <4>1 DEF OpenInv, Everywhere
      <3> QED BY <3>2, <3>3
    <2>10. Listing'
      <3>1. \A p \in Slot : req'[p] = req[p] \/ req'[p] = Idle
        BY <1>1, Screened, Zenon DEF end
      <3>2. Idle.step # "trust"
        BY DEF Idle
      <3> QED BY <1>1, <3>1, <3>2 DEF claiming, Listing
    <2>11. Wiping'
      BY <1>1, <2>1, StillWiping
    <2> QED BY <2>6, <2>7, <2>8, <2>9, <2>10, <2>11 DEF OpenInv
  <1> QED BY <1>3, <1>4 DEF Create

LEMMA OpenInit == ASSUME Init PROVE OpenInv
  <1>1. /\ account = [u \in User |-> [life |-> IF u = Founder THEN "ACTIVE" ELSE "none", purgeAfter |-> 0]]
        /\ trust = [d \in Device |-> [u \in User |->
              [state |-> IF d = Owner /\ u = Founder THEN "trusted" ELSE "none", credential |-> 1]]]
        /\ req = [r \in Slot |-> Idle]
        /\ sweep = [step |-> "idle", at |-> 0, listed |-> {}]
        /\ device = [d \in Device |->
              [screen |-> IF d = Owner THEN "in" ELSE "gate", user |-> IF d = Owner THEN Founder ELSE None,
               credential |-> 1, undo |-> None]]
    BY DEF Init
  <1>2. \A r \in Slot : req[r].step = "free"
    BY <1>1 DEF Idle
  <1>3. Current /\ Alike
    BY <1>1 DEF Current, Alike, trusts, mine
  <1>4. Everywhere
    BY <1>1 DEF Everywhere, trusts, live, life
  <1> QED BY <1>1, <1>2, <1>3, <1>4 DEF OpenInv, Askers, Listing, Wiping

LEMMA OpenNext == ASSUME ~Crossing, IInv, OpenInv, [Next]_vars PROVE OpenInv'
  <1>1. ASSUME NEW d \in Device, \E u \in User : Choose(d, u) PROVE OpenInv'
    BY <1>1, ChooseOpens
  <1>2. ASSUME NEW d \in Device,
               \/ ShowApproval(d) \/ Poll(d) \/ GiveUp(d)
               \/ StartCreate(d) \/ StartDelete(d) \/ StartUndo(d) \/ StartCommit(d)
               \/ StartWrite(d) \/ Logout(d) \/ Reinstall(d) \/ Leave(d)
        PROVE OpenInv'
    BY <1>2, PairOpens, StartOpens, LogoutOpens, AsideOpens
  <1>3. ASSUME NEW c \in Code, Approve(c) \/ Expire(c) PROVE OpenInv'
    BY <1>3, AsideOpens
  <1>4. ASSUME NEW r \in Slot, Serve(r) \/ Die(r) PROVE OpenInv'
    BY <1>4, IssueOpens, RecoverOpens, CodeOpens, ClaimSelectOpens, ClaimListOpens, ClaimTrustOpens,
       CreateOpens, DeleteUpdateOpens, EndingOpens, RestoreUpdateOpens, CommitFlipOpens
    DEF Serve
  <1>5. CASE Sweeping
    BY <1>5, AsideOpens, SweepPurgeOpens, SweepWipeOpens DEF Sweeping
  <1>6. CASE Tick \/ UNCHANGED vars
    BY <1>6, AsideOpens
  <1> QED BY <1>1, <1>2, <1>3, <1>4, <1>5, <1>6 DEF Next

(* While nobody is let in during a creation or a grace, a device that can    *)
(* open one account can open every one it was not signed out of, whatever is *)
(* claimed, created, recovered, deleted or taken back meanwhile, whatever    *)
(* dies (accounts.ts:157).                                                   *)
THEOREM TrustIsForAll ==
    ASSUME ~Crossing
    PROVE  Spec => []CanOpenAll
  <1>1. Init => IInv /\ OpenInv
    BY InitOK, OpenInit
  <1>2. IInv /\ OpenInv /\ [Next]_vars => IInv' /\ OpenInv'
    BY NextOK, OpenNext
  <1>3. IInv /\ OpenInv => CanOpenAll
    <2> SUFFICES ASSUME IInv, OpenInv, NEW d \in Device, NEW u \in active, usable(d, mine(d), u),
                        NEW v \in active
                 PROVE  usable(d, mine(d), v) \/ trust[d][v].state = "revoked"
      BY DEF CanOpenAll
    <2>1. u \in trusts(d) /\ trust[d][u].credential = mine(d) /\ v \in live /\ v \in User
      BY DEF usable, trusts, active, live
    <2>2. trust[d][v].state # "none"
      BY <2>1 DEF OpenInv, Everywhere
    <2>3. trust[d][v].state = "trusted" => trust[d][v].credential = mine(d)
      BY <2>1 DEF OpenInv, Alike, trusts
    <2>4. trust[d][v] \in Trust
      BY <2>1, Screened
    <2>5. trust[d][v].state = "trusted" => trust[d][v] = [state |-> "trusted", credential |-> mine(d)]
      BY <2>3, <2>4 DEF Trust
    <2>6. trust[d][v].state \in {"none", "trusted", "revoked"}
      BY <2>4 DEF Trust
    <2> QED BY <2>2, <2>5, <2>6 DEF usable
  <1> QED BY <1>1, <1>2, <1>3, PTL DEF Spec

===============================================================================
