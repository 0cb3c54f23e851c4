------------------------------ MODULE SyncMirror ------------------------------
(***************************************************************************)
(* The read path of one device (apps/web/lib/sync.js): pull, the audit that  *)
(* restages the whole mirror, the effects kept on screen until the mirror    *)
(* reaches them, and the two stored copies of the mirror; against a server   *)
(* that cuts deltas into pages (handleSync, nextDeltaCursor).                *)
(*                                                                         *)
(* The code between two awaits is one step, on the device as on the server.  *)
(* A row is its revision; the tables are sets of rows.  Pulls and audits     *)
(* start whenever they like: the timers and triggers that start them are     *)
(* left out.  The account does not change here.                              *)
(***************************************************************************)
EXTENDS Integers, FiniteSets, Sequences

CONSTANTS
    Table,         \* the synchronised tables, disjoint sets of rows
    Seed,          \* rows a migration left at revision 0
    OwnerRow,      \* the account's own row
    Owned,         \* rows auditMirror counts before it replaces the mirror
    OwnWrites,     \* rows this device writes itself
    OtherWrites,   \* rows that somebody else's operations write together
    PAGE_SIZE,     \* rows of a table in one page
    MaxRev,        \* the server commits up to this revision
    MaxRestores,   \* the server's database is restored this often
    MaxRestarts,   \* the app is killed this often
    MaxFailures,   \* requests fail this often
    Audits,        \* whether the mirror is audited
    CacheMayFail   \* a write to either stored copy may fail

Row == UNION Table

ASSUME MirrorAssumption ==
    /\ IsFiniteSet(Row) /\ \A t, u \in Table : t = u \/ t \cap u = {}
    /\ Seed \subseteq Row /\ OwnerRow \in Row
    /\ Owned \subseteq Row /\ OwnWrites \subseteq Row /\ OtherWrites \subseteq SUBSET Row
    /\ PAGE_SIZE \in Nat \ {0}
    /\ {MaxRev, MaxRestores, MaxRestarts, MaxFailures} \subseteq Nat
    /\ {Audits, CacheMayFail} \subseteq BOOLEAN

VARIABLES
    rev,       \* the server's last revision
    rowRev,    \* the revision of every row of the server
    backup,    \* a backup of both
    mirror,    \* the rows the device holds
    cursor,    \* up to which revision
    push,      \* the own write on its way: its row, and its revision once it has one
    landing,   \* acknowledged writes the mirror has not reached: <<row, rev>>
    pull,      \* the pull under way
    audit,     \* the audit under way
    writes,    \* account-store writes under way, in order
    local,     \* MIRROR_KEY and CURSOR_KEY of localStorage
    copy,      \* the 'snapshot' record of the account store
    acked,     \* the last revision an own write of the row was acknowledged at
    restores, restarts, failures

server == <<rev, rowRev, backup, restores>>
memory == <<mirror, cursor, push, landing, acked>>
stored == <<writes, local, copy>>
faults == <<restarts, failures>>
vars == <<server, memory, pull, audit, stored, faults>>

Absent == -1
NoRows == [x \in Row |-> Absent]
NoReply == [reset |-> FALSE, rows |-> NoRows, cursor |-> 0, more |-> FALSE]
NoPull == [pc |-> "idle", since |-> 0, afterZero |-> FALSE, reply |-> NoReply,
           cut |-> {}, left |-> {}, saved |-> FALSE]
NoAudit == [pc |-> "idle", since |-> 0, afterZero |-> FALSE, reply |-> NoReply,
            cut |-> {}, left |-> {}, snapshot |-> NoRows, saved |-> FALSE]
NoPush == [pc |-> "idle"]
Snapshot(m, c) == [mirror |-> m, cursor |-> c]

Init ==
    /\ rev = 0
    /\ rowRev = [x \in Row |-> IF x \in Seed THEN 0 ELSE Absent]
    /\ backup = Snapshot(rowRev, rev)
    /\ mirror = NoRows /\ cursor = 0 /\ push = NoPush /\ landing = {}
    /\ pull = NoPull /\ audit = NoAudit
    /\ writes = <<>>
    /\ local = Snapshot(NoRows, 0) /\ copy = Snapshot(NoRows, 0)
    /\ acked = [x \in Row |-> 0]
    /\ restores = 0 /\ restarts = 0 /\ failures = 0

-------------------------------------------------------------------------------
(* The server *)

(* Another device writes some rows at the next revision; or a backup is      *)
(* taken.                                                                    *)
Commit(rows) ==
    /\ rev < MaxRev
    /\ rev' = rev + 1
    /\ rowRev' = [x \in Row |-> IF x \in rows THEN rev + 1 ELSE rowRev[x]]
    /\ UNCHANGED <<backup, restores, memory, pull, audit, stored, faults>>

Backup ==
    /\ restores < MaxRestores
    /\ backup' = Snapshot(rowRev, rev)
    /\ UNCHANGED <<rev, rowRev, restores, memory, pull, audit, stored, faults>>

(* The database is restored from its backup. *)
Restore ==
    /\ restores < MaxRestores
    /\ restores' = restores + 1
    /\ rev' = backup.cursor /\ rowRev' = backup.mirror
    /\ UNCHANGED <<backup, memory, pull, audit, stored, faults>>

(* The server applies a write of this device. *)
PushServe(x) ==
    /\ push = NoPush
    /\ rev < MaxRev
    /\ rev' = rev + 1
    /\ rowRev' = [rowRev EXCEPT ![x] = rev + 1]
    /\ push' = [pc |-> "served", row |-> x, rev |-> rev + 1]
    /\ UNCHANGED <<backup, restores, mirror, cursor, landing, acked, pull, audit, stored, faults>>

(* The answer arrives, with a revision the server had since: the effect      *)
(* stays on screen until the mirror reaches it.                              *)
PushAnswered(writtenAt) ==
    /\ push # NoPush
    /\ writtenAt \in {push.rev, rev} \cup push.rev..rev
    /\ push' = NoPush
    /\ landing' = IF writtenAt > cursor THEN landing \cup {<<push.row, writtenAt>>} ELSE landing
    /\ acked' = [acked EXCEPT ![push.row] = push.rev]
    /\ UNCHANGED <<server, mirror, cursor, pull, audit, stored, faults>>

above(t, lower) == {x \in t : rowRev[x] > lower}
truncated(t, lower) == Cardinality(above(t, lower)) >= PAGE_SIZE

(* A page: the first PAGE_SIZE rows by revision, and the whole group of the  *)
(* last revision among them.                                                 *)
page(t, lower) ==
    {x \in above(t, lower) :
        Cardinality({y \in above(t, lower) : rowRev[y] < rowRev[x]}) < PAGE_SIZE}

lowerRev(since, afterZero) == IF since = 0 /\ ~afterZero THEN -1 ELSE since

highest(revs, floor) ==
    CHOOSE r \in revs \cup {floor} : \A q \in revs \cup {floor} : q <= r

(* How far the rows read of a table reach. *)
reach(r, t) == highest({r.reply.rows[x] : x \in t}, r.since)

(* Mutant: the cursor follows the table that got furthest.                   *)
nextDeltaCursor_furthest(r) ==
    highest({reach(r, t) : t \in Table}, IF r.cut = {} THEN r.reply.cursor ELSE r.since)

(* The cursor catches up with the server, or with the table that was cut     *)
(* earliest.                                                                 *)
nextDeltaCursor(r) ==
    IF r.cut = {} THEN highest({reach(r, t) : t \in Table}, r.reply.cursor)
    ELSE CHOOSE n \in {reach(r, t) : t \in r.cut} : \A t \in r.cut : n <= reach(r, t)

(* Once the last group is read, the answer goes out. *)
answer(r) ==
    IF r.left # {} THEN r
    ELSE [r EXCEPT !.pc = "answered", !.cut = {},
                   !.reply.cursor = nextDeltaCursor(r), !.reply.more = r.cut # {}]

(* serverRev; a device that is ahead of it has to start anew. *)
readRev(r) ==
    IF r.since > rev
    THEN [r EXCEPT !.pc = "answered", !.reply = [NoReply EXCEPT !.reset = TRUE]]
    ELSE [r EXCEPT !.pc = "reading", !.reply = [NoReply EXCEPT !.cursor = rev]]

(* All tables in one D1 batch. *)
readTables(r) ==
    LET lower == lowerRev(r.since, r.afterZero)
        cut == {t \in Table : truncated(t, lower)}
        sent == UNION {page(t, lower) : t \in Table}
    IN  answer([r EXCEPT !.pc = "cut", !.cut = cut, !.left = cut,
                         !.reply.rows = [x \in Row |-> IF x \in sent THEN rowRev[x] ELSE Absent]])

(* Of a table that was cut, the group of the last revision once more: what   *)
(* was written anew since is no longer in it.                                *)
readGroup(r, t) ==
    LET last == reach(r, t)
        whole(x) == IF x \in t /\ rowRev[x] = last THEN last
                    ELSE IF x \in t /\ r.reply.rows[x] = last THEN Absent
                    ELSE r.reply.rows[x]
    IN  answer([r EXCEPT !.left = @ \ {t}, !.reply.rows = [x \in Row |-> whole(x)]])

(* handleSync, statement by statement. *)
handleSync(r) ==
    CASE r.pc = "asked" -> {readRev(r)}
      [] r.pc = "reading" -> {readTables(r)}
      [] r.pc = "cut" -> {readGroup(r, t) : t \in r.left}
      [] OTHER -> {}

-------------------------------------------------------------------------------
(* Stored copies *)

merge(m, rows) == [x \in Row |-> IF rows[x] # Absent THEN rows[x] ELSE m[x]]

(* commitMirror: localStorage takes the rows at once; the account store      *)
(* takes rows and cursor when its turn comes.                                *)
commitMirror(who, m, c, saved) ==
    /\ saved \in IF CacheMayFail THEN BOOLEAN ELSE {TRUE}
    /\ local' = IF saved THEN [local EXCEPT !.mirror = m] ELSE local
    /\ writes' = Append(writes, [who |-> who, snapshot |-> Snapshot(m, c)])
    /\ copy' = copy

(* storageWrites: one at a time, in order, and what waits for one goes on    *)
(* before the next is done.                                                  *)
StoreCopy(done) ==
    /\ writes # <<>>
    /\ "stored" \notin {pull.pc, audit.pc}
    /\ done \in IF CacheMayFail THEN BOOLEAN ELSE {TRUE}
    /\ writes' = Tail(writes)
    /\ copy' = IF done THEN Head(writes).snapshot ELSE copy
    /\ LET stored_(request) == [request EXCEPT !.pc = "stored", !.saved = @ \/ done]
       IN  IF Head(writes).who = "pull"
           THEN pull' = stored_(pull) /\ audit' = audit
           ELSE audit' = stored_(audit) /\ pull' = pull
    /\ UNCHANGED <<server, memory, local, faults>>

-------------------------------------------------------------------------------
(* pull *)

PullStart ==
    /\ pull.pc = "idle"
    /\ pull' = [NoPull EXCEPT !.pc = "asked", !.since = cursor]
    /\ UNCHANGED <<server, memory, audit, stored, faults>>

PullServe ==
    /\ pull' \in handleSync(pull)
    /\ UNCHANGED <<server, memory, audit, stored, faults>>

(* The rows go into the mirror, and the mirror into the stored copies.       *)
PullApply ==
    /\ pull.pc = "answered" /\ ~pull.reply.reset
    /\ mirror' = merge(mirror, pull.reply.rows)
    /\ \E saved \in BOOLEAN :
          LET next == IF pull.reply.cursor = 0 THEN cursor ELSE pull.reply.cursor
          IN  /\ commitMirror("pull", mirror', next, saved)
              /\ pull' = [pull EXCEPT !.pc = "storing", !.saved = saved, !.reply.cursor = next]
    /\ UNCHANGED <<server, cursor, push, landing, acked, audit, faults>>

(* Mutant: what was acknowledged is taken for what has arrived.              *)
landed_all(c) == {}

(* The effects the mirror has not reached yet. *)
landed(c) == {l \in landing : l[2] > c}

durable(request) == request.saved

(* The rows of revision 0 have come a second time. *)
stalled == pull.reply.more /\ pull.reply.cursor = 0 /\ pull.afterZero

(* The copies are written: the cursor moves, and the next page is asked for. *)
PullFinish ==
    LET next == pull.reply.cursor
    IN  /\ pull.pc = "stored" /\ durable(pull) /\ ~stalled
        /\ cursor' = next
        /\ landing' = landed(next)
        /\ local' = [local EXCEPT !.cursor = next]
        /\ pull' = IF pull.reply.more
                   THEN [NoPull EXCEPT !.pc = "asked", !.since = next, !.afterZero = next = 0]
                   ELSE NoPull
        /\ UNCHANGED <<server, mirror, push, acked, audit, writes, copy, faults>>

(* The request fails. *)
PullFail ==
    /\ pull.pc \in {"asked", "reading", "cut", "answered"}
    /\ failures < MaxFailures
    /\ failures' = failures + 1
    /\ pull' = NoPull
    /\ UNCHANGED <<server, memory, audit, stored, restarts>>

(* mirror_storage_full, or mirror_delta_stalled_zero. *)
PullAbandon ==
    /\ pull.pc = "stored" /\ (~durable(pull) \/ stalled)
    /\ pull' = NoPull
    /\ UNCHANGED <<server, memory, audit, stored, faults>>

(* The server has gone back: the mirror is audited, and the pull waits.      *)
PullReset ==
    /\ pull.pc = "answered" /\ pull.reply.reset
    /\ pull' = [NoPull EXCEPT !.pc = "auditing"]
    /\ audit' = IF audit.pc = "idle" THEN [NoAudit EXCEPT !.pc = "asked"] ELSE audit
    /\ UNCHANGED <<server, memory, stored, faults>>

PullAudited ==
    /\ pull.pc = "auditing" /\ audit.pc = "idle"
    /\ pull' = NoPull
    /\ UNCHANGED <<server, memory, audit, stored, faults>>

-------------------------------------------------------------------------------
(* auditMirror *)

AuditStart ==
    /\ Audits
    /\ audit.pc = "idle"
    /\ audit' = [NoAudit EXCEPT !.pc = "asked"]
    /\ UNCHANGED <<server, memory, pull, stored, faults>>

AuditServe ==
    /\ audit' \in handleSync(audit)
    /\ UNCHANGED <<server, memory, pull, stored, faults>>

staged == merge(audit.snapshot, audit.reply.rows)
held(m, t) == Cardinality({x \in Owned \cap t : m[x] # Absent})
shrinks ==
    \/ staged[OwnerRow] = Absent
    \/ \E t \in Table : held(mirror, t) > held(staged, t)

(* The snapshot so far is kept off-screen and the next page asked for.       *)
AuditPage ==
    LET next == audit.reply.cursor
        again == next = audit.since
    IN  /\ audit.pc = "answered" /\ ~audit.reply.reset /\ audit.reply.more
        /\ audit' = IF again /\ (next # 0 \/ audit.afterZero)
                    THEN [NoAudit EXCEPT !.pc = "stalled"]
                    ELSE [audit EXCEPT !.pc = "asked", !.since = next, !.afterZero = again,
                                       !.snapshot = staged]
        /\ UNCHANGED <<server, memory, pull, stored, faults>>

(* The last page, the account is in it, and no table lost rows: the snapshot *)
(* goes into the stored copies.                                              *)
AuditStage ==
    /\ audit.pc = "answered" /\ ~audit.reply.reset /\ ~audit.reply.more
    /\ ~shrinks
    /\ \E saved \in BOOLEAN :
          /\ commitMirror("audit", staged, audit.reply.cursor, saved)
          /\ audit' = [audit EXCEPT !.pc = "storing", !.snapshot = staged, !.saved = saved]
    /\ UNCHANGED <<server, memory, pull, faults>>

(* Mutant: only what the snapshot adds is taken over. *)
restaged_merged == merge(mirror, audit.snapshot)

restaged == audit.snapshot

(* The snapshot replaces the mirror, and its cursor the cursor. *)
AuditInstall ==
    LET next == audit.reply.cursor
    IN  /\ audit.pc = "stored" /\ audit.saved
        /\ mirror' = restaged
        /\ cursor' = next
        /\ landing' = landed(next)
        /\ local' = [local EXCEPT !.cursor = next]
        /\ audit' = NoAudit
        /\ UNCHANGED <<server, push, acked, pull, writes, copy, faults>>

(* The request fails. *)
AuditFail ==
    /\ audit.pc \in {"asked", "reading", "cut", "answered"}
    /\ failures < MaxFailures
    /\ failures' = failures + 1
    /\ audit' = NoAudit
    /\ UNCHANGED <<server, memory, pull, stored, restarts>>

(* An answer that resets or would shrink the mirror, one that makes no       *)
(* progress, or no copy that could be written.                               *)
AuditAbandon ==
    /\ \/ audit.pc = "answered" /\ (audit.reply.reset \/ (~audit.reply.more /\ shrinks))
       \/ audit.pc = "stalled"
       \/ audit.pc = "stored" /\ ~audit.saved
    /\ audit' = NoAudit
    /\ UNCHANGED <<server, memory, pull, stored, faults>>

-------------------------------------------------------------------------------

(* Mutant: the account copy is taken only when it is ahead.                  *)
Loaded_ahead == IF copy.cursor > local.cursor THEN copy ELSE local

(* createSync and recovered: the account copy is taken unless localStorage's *)
(* cursor is ahead of it.  Nothing is pulled before.                         *)
Loaded == IF copy.cursor >= local.cursor THEN copy ELSE local

Restart ==
    /\ restarts < MaxRestarts
    /\ restarts' = restarts + 1
    /\ mirror' = Loaded.mirror /\ cursor' = Loaded.cursor
    /\ push' = NoPush /\ landing' = {} /\ acked' = [x \in Row |-> 0]
    /\ pull' = NoPull /\ audit' = NoAudit
    /\ writes' = <<>>
    /\ UNCHANGED <<server, local, copy, failures>>

Pull ==
    PullServe \/ PullApply \/ PullFinish \/ PullAbandon \/ PullReset \/ PullAudited
Audit ==
    AuditServe \/ AuditPage \/ AuditStage \/ AuditInstall \/ AuditAbandon
Stores == \E done \in BOOLEAN : StoreCopy(done)

Next ==
    \/ \E rows \in OtherWrites : Commit(rows)
    \/ \E x \in OwnWrites : PushServe(x)
    \/ \E writtenAt \in 0..MaxRev : PushAnswered(writtenAt)
    \/ Backup \/ Restore
    \/ PullStart \/ Pull \/ PullFail
    \/ AuditStart \/ Audit \/ AuditFail
    \/ Stores
    \/ Restart

Spec == Init /\ [][Next]_vars

(* The timers keep starting pulls and audits, requests are answered unless   *)
(* they fail, and storage answers; nobody owes commits, failures or kills.   *)
FairSpec == /\ Spec
            /\ WF_vars(PullStart) /\ WF_vars(Pull)
            /\ WF_vars(AuditStart) /\ WF_vars(Audit)
            /\ WF_vars(Stores)

-------------------------------------------------------------------------------
(* Properties *)

(* A mirror has the current version of every row up to its cursor.           *)
complete(s) ==
    s.cursor > 0 =>
        \A x \in Row : rowRev[x] \in 0..s.cursor => s.mirror[x] = rowRev[x]

(* Whenever a pull may ask for what is above the cursor, nothing is missing  *)
(* below it: no page cut in the middle, no failed or interrupted pull and no *)
(* audit makes the device skip a row (apply first, then the cursor).         *)
NothingBehindCursor ==
    pull.pc \in {"idle", "asked"} => complete(Snapshot(mirror, cursor))

(* Whatever a kill leaves behind in the two copies, the next start finds a   *)
(* mirror that misses nothing up to its cursor.                              *)
SurvivesRestart == complete(Loaded)

(* The effect of an acknowledged write that nobody has overwritten stays on   *)
(* screen until the mirror holds the row.                                    *)
AckedStaysVisible ==
    \A x \in Row :
        acked[x] # 0 /\ acked[x] = rowRev[x] =>
            \/ mirror[x] >= acked[x]
            \/ \E l \in landing : l[1] = x /\ l[2] >= acked[x]

(* An audit of what the server has now would take it for a loss. *)
refused ==
    \/ rowRev[OwnerRow] = Absent
    \/ \E t \in Table : held(mirror, t) > held(rowRev, t)

(* Once the server is left alone, the device ends up with its rows and no    *)
(* others, even after a restored database: the audit repairs what pulls and  *)
(* races cannot.  Only where the mirror shows more of the owner's rows than  *)
(* the server has left does the device stay with what it has.                *)
Heals == <>[](mirror = rowRev \/ refused)

(* Not so: it ends up with the server's rows in any case. *)
Rebuilt == <>[](mirror = rowRev)
===============================================================================
