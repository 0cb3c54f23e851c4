---------------------------- MODULE SocialHistory ----------------------------
(***************************************************************************)
(* What friends get to see of one account's reading                          *)
(* (services/sync-worker/src/index.ts): the operations view.add,             *)
(* view.remove, chapter.complete and settings.patch of the account, the      *)
(* delayed publication (publishDue), the rows a friend's delta may carry     *)
(* (deltaScope) and what a friend's device makes of them (pull and           *)
(* auditMirror of apps/web/lib/sync.js).                                     *)
(*                                                                         *)
(* A view is public at once, or, while the account hides its current work,   *)
(* Grace later; while it keeps its history to itself, never.  What every     *)
(* view was entitled to is recorded beside the program, in may.              *)
(*                                                                         *)
(* Transactions, lost requests and pages are the subject of SyncServer,      *)
(* SyncWrites and SyncMirror; here a push, a poll and an audit are one step. *)
(* Of work_views, the account's own copy, only the time and the removal are  *)
(* kept; every view carries a title.                                         *)
(***************************************************************************)
EXTENDS Integers

CONSTANTS
    Work,
    Device,        \* the devices of friends
    NoRow,         \* a row that is not there
    Grace,         \* SOCIAL_GRACE_MS
    MaxTime,       \* the account acts until this instant
    MaxViews,      \* views it records
    MaxOps,        \* operations it sends
    Late,          \* how old a view may be when it reaches the server
    Overtaken,     \* whether it may come after a removal that is newer
    OpensLate,     \* whether one push may carry a view and a later patch
                   \* that opens what the view was made behind
    ReturnsUnseen  \* whether the history may come back before every device
                   \* has polled and seen that it was withdrawn

ASSUME SocialAssumption ==
    /\ NoRow \notin Nat \cup Work
    /\ Grace \in Nat \ {0}
    /\ {MaxTime, MaxViews, MaxOps, Late} \subseteq Nat
    /\ {Overtaken, OpensLate, ReturnsUnseen} \subseteq BOOLEAN

View == 1..MaxViews
NoChapter == 0

(* social_at of a row: an instant to come, or one of these two. *)
Public == 0    \* NULL
Never == -1

VARIABLES
    now,
    db,       \* the account's part of D1
    mirror,   \* what every device of a friend holds, with its cursor
    views,    \* the views recorded so far
    ops,      \* the operations sent so far
    may       \* when friends may learn of what

vars == <<now, db, mirror, views, ops, may>>

Row == [chapter : View \cup {NoChapter}, at : Nat, removed : BOOLEAN,
        social : {Never} \cup Nat, published : BOOLEAN, rev : Nat]
Own == [at : Nat, removed : BOOLEAN]
Event == [social : {Never} \cup Nat, rev : Nat]
Privacy == [visible : BOOLEAN, rev : Nat]
Settings == [shareCurrent : BOOLEAN, shareCompletions : BOOLEAN, showRecentViews : BOOLEAN]
DB == [rev : Nat, settings : Settings,
       own : [Work -> Own \cup {NoRow}],        \* work_views
       shown : [Work -> Row \cup {NoRow}],      \* public_work_views
       privacy : Privacy \cup {NoRow},          \* view_privacy
       done : [Work -> Event \cup {NoRow}],     \* activity: CHAPTER_DONE
       works : [Work -> Nat]]                   \* works: rev, 0 when absent

Seen == [chapter : View \cup {NoChapter}, removed : BOOLEAN]
Mirror == [cursor : Nat, shown : [Work -> Seen \cup {NoRow}],
           withdrawn : BOOLEAN, done : SUBSET Work, works : SUBSET Work]

May == [view : [View -> SUBSET Nat], work : [View -> Work \cup {NoRow}],
        done : [Work -> SUBSET Nat], open : SUBSET Work]

ASSUME NoRowAssumption ==
    NoRow \notin Own /\ NoRow \notin Row /\ NoRow \notin Event /\ NoRow \notin Privacy

Empty == [rev |-> 0,
          settings |-> [shareCurrent |-> TRUE, shareCompletions |-> TRUE, showRecentViews |-> TRUE],
          own |-> [w \in Work |-> NoRow], shown |-> [w \in Work |-> NoRow],
          privacy |-> NoRow, done |-> [w \in Work |-> NoRow], works |-> [w \in Work |-> 0]]

Blank == [cursor |-> 0, shown |-> [w \in Work |-> NoRow], withdrawn |-> FALSE,
          done |-> {}, works |-> {}]

-------------------------------------------------------------------------------
(* The operations: the database each leaves, committed at revision r.        *)

hides(d) == ~d.settings.shareCurrent

(* SQL's CASE WHEN hides THEN now + grace ELSE NULL. *)
publication(d, t) == IF hides(d) THEN t + Grace ELSE Public

max(a, b) == IF a < b THEN b ELSE a

(* workStatements: the table everybody reads names the work. *)
described(d, w, r) == IF hides(d) THEN d ELSE [d EXCEPT !.works[w] = r]

ownView(d, w, at) ==
    IF d.own[w] = NoRow THEN [at |-> at, removed |-> FALSE]
    ELSE [at |-> max(d.own[w].at, at),
          removed |-> d.own[w].removed /\ at <= d.own[w].at]

(* Mutant: a view of a work already published is published at once.          *)
shownView_stays(d, w, v, at, t, r) ==
    LET old == d.shown[w]  social == publication(d, t) IN
    IF old = NoRow
    THEN [chapter |-> v, at |-> at, removed |-> FALSE,
          social |-> social, published |-> ~hides(d), rev |-> r]
    ELSE [chapter |-> v, at |-> max(old.at, at), removed |-> old.removed /\ at <= old.at,
          social |-> IF old.published THEN Public ELSE social,
          published |-> old.published \/ ~hides(d), rev |-> r]

shownView(d, w, v, at, t, r) ==
    LET old == d.shown[w]  social == publication(d, t) IN
    IF old = NoRow
    THEN [chapter |-> v, at |-> at, removed |-> FALSE,
          social |-> social, published |-> ~hides(d), rev |-> r]
    ELSE [chapter |-> v, at |-> max(old.at, at), removed |-> old.removed /\ at <= old.at,
          social |-> social, published |-> old.published \/ ~hides(d), rev |-> r]

addView(d, w, v, at, t, r) ==
    LET named == described(d, w, r) IN
    [named EXCEPT
        !.own[w] = ownView(d, w, at),
        !.shown[w] = IF d.settings.showRecentViews THEN shownView(d, w, v, at, t, r) ELSE @,
        !.rev = r]

(* What was never published stays so, its tombstone too; what was published  *)
(* is taken back without the chapter of a hidden time.                       *)
withdrawnRow(row, t, r) ==
    [row EXCEPT !.removed = TRUE, !.at = max(@, t),
                !.chapter = IF row.social # Public THEN NoChapter ELSE @,
                !.social = IF row.published THEN Public ELSE Never,
                !.rev = r]

(* Mutant: only the account's own copy is removed.                           *)
removeView_keepsShown(d, w, t, r) ==
    [d EXCEPT
        !.own[w] = [removed |-> TRUE, at |-> IF @ = NoRow THEN t ELSE max(@.at, t)],
        !.rev = r]

removeView(d, w, t, r) ==
    [d EXCEPT
        !.own[w] = [removed |-> TRUE, at |-> IF @ = NoRow THEN t ELSE max(@.at, t)],
        !.shown[w] = IF @ = NoRow THEN @ ELSE withdrawnRow(@, t, r),
        !.done[w] = IF @ # NoRow /\ @.social > 0 THEN [social |-> Never, rev |-> r] ELSE @,
        !.rev = r]

(* One event for a chapter, however often it is completed. *)
complete(d, w, t, r) ==
    LET named == described(d, w, r) IN
    [named EXCEPT
        !.done[w] = IF @ = NoRow /\ d.settings.shareCompletions
                    THEN [social |-> publication(d, t), rev |-> r] ELSE @,
        !.rev = r]

(* Mutant: withdrawing the history leaves its rows.                          *)
patch_keepsRows(d, field, on, r) ==
    LET set == [d EXCEPT !.settings[field] = on, !.rev = r] IN
    IF field # "showRecentViews" THEN set
    ELSE [set EXCEPT !.privacy = [visible |-> on, rev |-> r]]

(* settings.patch; the history switch leaves a row without works that asks   *)
(* every device to drop what it holds.                                       *)
patch(d, field, on, r) ==
    LET set == [d EXCEPT !.settings[field] = on, !.rev = r] IN
    IF field # "showRecentViews" THEN set
    ELSE [set EXCEPT !.privacy = [visible |-> on, rev |-> r],
                     !.shown = IF on THEN @ ELSE [w \in Work |-> NoRow]]

-------------------------------------------------------------------------------
(* publishDue, with every poll and every pulse.                              *)

isDue(row, t) == row # NoRow /\ row.social > 0 /\ row.social <= t

anyDue(d, t) == \E w \in Work : isDue(d.shown[w], t) \/ isDue(d.done[w], t)

(* Mutant: what comes out keeps the revision it was written at.              *)
publishDue_keepsRev(d, t) ==
    IF ~anyDue(d, t) THEN d
    ELSE [d EXCEPT
        !.shown = [w \in Work |-> IF isDue(d.shown[w], t)
                                  THEN [@[w] EXCEPT !.social = Public, !.published = TRUE]
                                  ELSE @[w]],
        !.done = [w \in Work |-> IF isDue(d.done[w], t)
                                 THEN [@[w] EXCEPT !.social = Public] ELSE @[w]],
        !.rev = d.rev + 1]

publishDue(d, t) ==
    LET r == d.rev + 1 IN
    IF ~anyDue(d, t) THEN d
    ELSE [d EXCEPT
        !.works = [w \in Work |-> IF isDue(d.shown[w], t) /\ ~d.shown[w].removed THEN r ELSE @[w]],
        !.shown = [w \in Work |-> IF isDue(d.shown[w], t)
                                  THEN [@[w] EXCEPT !.social = Public, !.published = TRUE, !.rev = r]
                                  ELSE @[w]],
        !.done = [w \in Work |-> IF isDue(d.done[w], t)
                                 THEN [social |-> Public, rev |-> r] ELSE @[w]],
        !.rev = r]

(* deltaScope: what a friend's delta may carry. *)
mayCarry(d, w) ==
    /\ d.shown[w] # NoRow
    /\ d.shown[w].social = Public
    /\ d.privacy = NoRow \/ d.privacy.visible

carried(row) == [chapter |-> row.chapter, removed |-> row.removed]

received(d, m, since) ==
    [cursor |-> d.rev,
     shown |-> [w \in Work |-> IF mayCarry(d, w) /\ d.shown[w].rev > since
                               THEN carried(d.shown[w]) ELSE m.shown[w]],
     withdrawn |-> IF d.privacy # NoRow /\ d.privacy.rev > since
                   THEN ~d.privacy.visible ELSE m.withdrawn,
     done |-> m.done \cup {w \in Work : /\ d.done[w] # NoRow
                                        /\ d.done[w].social = Public
                                        /\ d.done[w].rev > since},
     works |-> m.works \cup {w \in Work : d.works[w] > since}]

(* pull: the rows, and then the purge of whoever withdrew his history. *)
purged(m) == IF m.withdrawn THEN [m EXCEPT !.shown = [w \in Work |-> NoRow]] ELSE m

-------------------------------------------------------------------------------
(* What friends may learn: the instants from which a view, or the completion *)
(* of a work, is theirs to see, and the works touched in the open.           *)

Init ==
    /\ now = 1
    /\ db = Empty
    /\ mirror = [f \in Device |-> Blank]
    /\ views = 0
    /\ ops = 0
    /\ may = [view |-> [v \in View |-> {}], work |-> [v \in View |-> NoRow],
              done |-> [w \in Work |-> {}], open |-> {}]

past(instants) == {t \in instants : t <= now}

entitled(s) == IF s.shareCurrent THEN {now} ELSE {now + Grace}

(* Removed already, by something newer. *)
overtaken(w, at) == db.own[w] # NoRow /\ db.own[w].removed /\ at <= db.own[w].at

viewMade(s, w, v, at) ==
    [may EXCEPT !.work[v] = w,
                !.view[v] = IF s.showRecentViews /\ ~overtaken(w, at) THEN entitled(s) ELSE {},
                !.open = IF s.shareCurrent THEN @ \cup {w} ELSE @]

Acting == now < MaxTime /\ ops < MaxOps

Spend == ops' = ops + 1 /\ UNCHANGED now

AddView(w, at) ==
    /\ Acting /\ views < MaxViews
    /\ overtaken(w, at) => Overtaken
    /\ Spend /\ views' = views + 1
    /\ db' = addView(db, w, views + 1, at, now, db.rev + 1)
    /\ may' = viewMade(db.settings, w, views + 1, at)
    /\ UNCHANGED mirror

RemoveView(w) ==
    /\ Acting
    /\ Spend
    /\ db' = removeView(db, w, now, db.rev + 1)
    /\ may' = [may EXCEPT !.view = [v \in View |-> IF may.work[v] = w THEN past(@[v]) ELSE @[v]],
                          !.done[w] = past(@)]
    /\ UNCHANGED <<mirror, views>>

(* The readers record a view before the chapter is done. *)
Complete(w) ==
    /\ Acting
    /\ db.own[w] # NoRow
    /\ Spend
    /\ db' = complete(db, w, now, db.rev + 1)
    /\ may' = [may EXCEPT !.done[w] = IF db.settings.shareCompletions
                                      THEN @ \cup entitled(db.settings) ELSE @,
                          !.open = IF db.settings.shareCurrent THEN @ \cup {w} ELSE @]
    /\ UNCHANGED <<mirror, views>>

(* What a patch does to what friends may learn: withdrawing the history      *)
(* takes back what is not out yet.                                           *)
afterPatch(m, field, on) ==
    IF field = "showRecentViews" /\ ~on
    THEN [m EXCEPT !.view = [v \in View |-> past(@[v])]] ELSE m

allSawWithdrawal == \A f \in Device : mirror[f].withdrawn

mayPatch(field, on) ==
    /\ db.settings[field] # on
    /\ (field = "showRecentViews" /\ on) => (ReturnsUnseen \/ allSawWithdrawal)

Patch(field, on) ==
    /\ Acting
    /\ mayPatch(field, on)
    /\ Spend
    /\ db' = patch(db, field, on, db.rev + 1)
    /\ may' = afterPatch(may, field, on)
    /\ UNCHANGED <<mirror, views>>

(* One push carries a view and a later patch: field merges are applied first *)
(* (handleOps), each at a revision of its own.                               *)
ViewThenPatch(w, field, on) ==
    /\ Acting /\ views < MaxViews
    /\ ~overtaken(w, now)
    /\ on => OpensLate
    /\ mayPatch(field, on)
    /\ Spend /\ views' = views + 1
    /\ db' = LET patched == patch(db, field, on, db.rev + 1) IN
             addView(patched, w, views + 1, now, now, patched.rev + 1)
    /\ may' = afterPatch(viewMade(db.settings, w, views + 1, now), field, on)
    /\ UNCHANGED mirror

-------------------------------------------------------------------------------

Pulse ==
    /\ anyDue(db, now)
    /\ db' = publishDue(db, now)
    /\ UNCHANGED <<now, mirror, views, ops, may>>

Poll(f) ==
    LET published == publishDue(db, now) IN
    /\ db' = published
    /\ mirror' = [mirror EXCEPT ![f] = purged(received(published, @, @.cursor))]
    /\ UNCHANGED <<now, views, ops, may>>

(* A full pull into an empty snapshot that replaces the mirror. *)
Audit(f) ==
    LET published == publishDue(db, now) IN
    /\ db' = published
    /\ mirror' = [mirror EXCEPT ![f] = received(published, Blank, 0)]
    /\ UNCHANGED <<now, views, ops, may>>

Advance ==
    /\ now < MaxTime + Grace
    /\ now' = now + 1
    /\ UNCHANGED <<db, mirror, views, ops, may>>

Next ==
    \/ \E w \in Work : \E at \in {t \in 0..now : now - t <= Late} : AddView(w, at)
    \/ \E w \in Work : RemoveView(w)
    \/ \E w \in Work : Complete(w)
    \/ \E field \in DOMAIN db.settings, on \in BOOLEAN : Patch(field, on)
    \/ \E w \in Work, field \in DOMAIN db.settings, on \in BOOLEAN : ViewThenPatch(w, field, on)
    \/ Pulse
    \/ \E f \in Device : Poll(f)
    \/ \E f \in Device : Audit(f)
    \/ Advance

Spec == Init /\ [][Next]_vars

(* Devices go on polling and time goes on. *)
FairSpec ==
    /\ Spec
    /\ \A f \in Device : WF_vars(Poll(f))
    /\ WF_vars(Advance)

-------------------------------------------------------------------------------

(* The database, the mirrors and the record of entitlements keep their types. *)
TypeOK ==
    /\ now \in Nat
    /\ db \in DB
    /\ mirror \in [Device -> Mirror]
    /\ views \in 0..MaxViews
    /\ ops \in Nat
    /\ may \in May

outOf(v) == past(may.view[v]) # {}
workOut(w) == \E v \in View : may.work[v] = w /\ outOf(v)

(* A friend's device never holds a view, a completion or the name of a work  *)
(* before its hour: not while the account hides its current work, not when   *)
(* it was removed or the history withdrawn within the hour, not even the     *)
(* tombstone of one that never came out.                                     *)
SecretsKept ==
    \A f \in Device :
        /\ \A w \in Work : mirror[f].shown[w] # NoRow =>
               /\ workOut(w)
               /\ mirror[f].shown[w].chapter # NoChapter => outOf(mirror[f].shown[w].chapter)
        /\ \A w \in mirror[f].done : past(may.done[w]) # {}
        /\ \A w \in mirror[f].works :
               w \in may.open \/ workOut(w) \/ past(may.done[w]) # {}

(* A device at the server's revision holds exactly what friends may have: no *)
(* row the account took back or the server deleted, none missing.            *)
MirrorMatches ==
    \A f \in Device : mirror[f].cursor = db.rev =>
        /\ \A w \in Work : mayCarry(db, w) => mirror[f].shown[w] = carried(db.shown[w])
        /\ \A w \in Work : mirror[f].shown[w] # NoRow =>
               db.shown[w] # NoRow /\ db.shown[w].published
        /\ mirror[f].done = {w \in Work : db.done[w] # NoRow /\ db.done[w].social = Public}
        /\ mirror[f].works = {w \in Work : db.works[w] > 0}

(* What friends are shown as read is in the account's own history too.       *)
ShownIsOwned ==
    \A w \in Work : mayCarry(db, w) /\ ~db.shown[w].removed =>
        db.own[w] # NoRow /\ ~db.own[w].removed

(* Friends get a name with every completion they are told of.                *)
CompletionsAreNamed ==
    \A f \in Device : mirror[f].done \subseteq mirror[f].works

shares(w) == db.settings.showRecentViews /\ db.shown[w] # NoRow /\ ~db.shown[w].removed

(* What the account shares reaches every device that polls, the hidden hour  *)
(* passed, unless it is taken back; and what it withdraws disappears there.  *)
FriendsCatchUp ==
    \A f \in Device :
        /\ \A w \in Work : shares(w) ~> mirror[f].shown[w] # NoRow \/ ~shares(w)
        /\ ~db.settings.showRecentViews ~>
               db.settings.showRecentViews \/ \A w \in Work : mirror[f].shown[w] = NoRow
=============================================================================
