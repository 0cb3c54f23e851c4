----------------------------- MODULE TogetherCore -----------------------------
(***************************************************************************)
(* RoomCore of services/sync-worker/src/together-core.ts: the pure logic of *)
(* one watch-together room.  Every handler of the class is an operator from *)
(* the room before the call to the room after it, at server time t.         *)
(*                                                                         *)
(* Abstracted: the media itself, playback positions, rate and the stamp of  *)
(* a command (TogetherClock is about those), names, avatars and messages.   *)
(* A connection identifier is a fresh UUID, so the account it belongs to is *)
(* a fixed function Owner.                                                  *)
(***************************************************************************)
EXTENDS Integers, FiniteSets

CONSTANTS
    User,            \* accounts
    Conn,            \* connection identifiers
    Owner,           \* the account behind a connection: [Conn -> User]
    MAX_CAP,         \* people in a room
    HOST_GRACE_MS,   \* an absent host keeps the room this long
    EMPTY_TTL_MS,    \* an empty room is kept this long
    AUTOSTART_MS     \* the next episode waits this long for slow members

ASSUME CoreAssumption ==
    /\ IsFiniteSet(Conn)
    /\ Owner \in [Conn -> User]
    /\ MAX_CAP \in Nat \ {0}
    /\ HOST_GRACE_MS \in Nat \ {0}
    /\ EMPTY_TTL_MS \in Nat \ {0}
    /\ AUTOSTART_MS \in Nat \ {0}

Never == -1                   \* the null of a time stamp
Time == Nat \cup {Never}

MEMBER_STATES == {"preparing", "ready", "playing", "paused", "buffering", "failed"}
NoReport == "none"

Settings == [hostUserId: User, mode: {"sync", "free"}, control: {"host", "all"},
             everyone: BOOLEAN, allowed: SUBSET User]
Timeline == [started: BOOLEAN, autoStart: BOOLEAN, playing: BOOLEAN, seq: Nat]

RoomCore == [settings: Settings, timeline: Timeline,
             hostAwaySince: Time, emptySince: Time, hostReadyAt: Time,
             members: SUBSET Conn,
             joinedAt: [Conn -> Nat],
             report: [Conn -> MEMBER_STATES \cup {NoReport}],
             dirty: BOOLEAN]

Persisted == [settings: Settings, timeline: Timeline,
              hostAwaySince: Time, emptySince: Time, hostReadyAt: Time]

persisted(k) == [settings |-> k.settings, timeline |-> k.timeline,
                 hostAwaySince |-> k.hostAwaySince, emptySince |-> k.emptySince,
                 hostReadyAt |-> k.hostReadyAt]

create(settings, t) ==
    [settings |-> settings,
     timeline |-> [started |-> FALSE, autoStart |-> FALSE, playing |-> FALSE, seq |-> 0],
     hostAwaySince |-> Never, emptySince |-> t, hostReadyAt |-> Never,
     members |-> {}, joinedAt |-> [c \in Conn |-> 0],
     report |-> [c \in Conn |-> NoReport], dirty |-> FALSE]

(* A room rebuilt from storage with the connections that survived.  Their   *)
(* joinedAt is the one of the socket's attachment; reports are lost.        *)
restore(saved, conns, attachedAt) ==
    [settings |-> saved.settings, timeline |-> saved.timeline,
     hostAwaySince |-> saved.hostAwaySince, emptySince |-> saved.emptySince,
     hostReadyAt |-> saved.hostReadyAt,
     members |-> conns,
     joinedAt |-> [c \in Conn |-> IF c \in conns THEN attachedAt[c] ELSE 0],
     report |-> [c \in Conn |-> NoReport], dirty |-> FALSE]

-------------------------------------------------------------------------------
(* Who is who *)

byUser(k, u) == {c \in k.members : Owner[c] = u}

(* The seat a new connection of u takes over: one, should he have several.  *)
replaced(k, u) ==
    IF byUser(k, u) = {} THEN {} ELSE {CHOOSE c \in byUser(k, u) : TRUE}

invited(k, u) == \/ u = k.settings.hostUserId
                 \/ k.settings.everyone
                 \/ u \in k.settings.allowed

isHost(k, c) == c \in k.members /\ Owner[c] = k.settings.hostUserId

canControl(k, c) == \/ isHost(k, c)
                    \/ k.settings.control = "all" /\ c \in k.members

hostPresent(k) == byUser(k, k.settings.hostUserId) # {}

-------------------------------------------------------------------------------
(* Presence *)

(* What join answers: refuse a stranger, refuse when full (an account that  *)
(* is already inside only changes its connection), or let in.               *)
joinAnswer(k, c) ==
    IF ~invited(k, Owner[c]) THEN "uninvited"
    ELSE IF byUser(k, Owner[c]) = {} /\ Cardinality(k.members) >= MAX_CAP THEN "full"
    ELSE "welcome"

(* Mutant of join: the seat of the replaced connection is kept. *)
join_keepsOldSeat(k, c, t) ==
    [k EXCEPT !.members = @ \cup {c}, !.emptySince = Never, !.dirty = TRUE]

(* The new connection takes over the seniority and the report of the one it *)
(* replaces.                                                                *)
join(k, c, t) ==
    LET previous == replaced(k, Owner[c])
        old == CHOOSE p \in previous : TRUE
        vacate(f, none) == [d \in Conn |-> IF d \in previous THEN none ELSE f[d]]
    IN  [k EXCEPT !.members = (@ \ previous) \cup {c},
                  !.joinedAt = [vacate(@, 0) EXCEPT ![c] =
                                    IF previous = {} THEN t ELSE k.joinedAt[old]],
                  !.report = [vacate(@, NoReport) EXCEPT ![c] =
                                    IF previous = {} THEN NoReport ELSE k.report[old]],
                  !.emptySince = Never,
                  !.hostAwaySince = IF Owner[c] = k.settings.hostUserId THEN Never ELSE @,
                  !.dirty = TRUE]

(* Mutant: the departure of the last one is not timed. *)
leave_emptyUntimed(k, c, t) ==
    [k EXCEPT !.members = @ \ {c}, !.joinedAt[c] = 0, !.report[c] = NoReport,
              !.hostAwaySince = IF Owner[c] = k.settings.hostUserId THEN t ELSE @,
              !.dirty = TRUE]

leave(k, c, t) ==
    IF c \notin k.members THEN k
    ELSE [k EXCEPT !.members = @ \ {c},
                   !.joinedAt[c] = 0,
                   !.report[c] = NoReport,
                   !.emptySince = IF k.members = {c} THEN t ELSE @,
                   !.hostAwaySince = IF Owner[c] = k.settings.hostUserId THEN t ELSE @,
                   !.dirty = TRUE]

(* Mutant: the new host is not saved. *)
transferHost_unsaved(k, u) ==
    [k EXCEPT !.settings.hostUserId = u, !.hostAwaySince = Never]

transferHost(k, u) ==
    IF u = k.settings.hostUserId THEN k
    ELSE [k EXCEPT !.settings.hostUserId = u, !.hostAwaySince = Never, !.dirty = TRUE]

-------------------------------------------------------------------------------
(* The timeline *)

play(k) == [k EXCEPT !.timeline.started = TRUE, !.timeline.autoStart = FALSE,
                     !.timeline.playing = TRUE, !.timeline.seq = @ + 1, !.dirty = TRUE]

pause(k) == [k EXCEPT !.timeline.playing = FALSE, !.timeline.seq = @ + 1, !.dirty = TRUE]

seek(k) == [k EXCEPT !.timeline.seq = @ + 1, !.dirty = TRUE]

(* Mutant: the versions start again with the new episode. *)
load_restartsVersions(k, auto) ==
    [k EXCEPT !.timeline = [started |-> FALSE, autoStart |-> auto, playing |-> FALSE, seq |-> 0],
              !.hostReadyAt = Never, !.dirty = TRUE]

(* The next episode: everybody is preparing again, and nobody is ready.     *)
load(k, auto) ==
    [k EXCEPT !.timeline = [started |-> FALSE, autoStart |-> auto, playing |-> FALSE,
                            seq |-> k.timeline.seq + 1],
              !.hostReadyAt = Never,
              !.report = [c \in Conn |-> IF @[c] = NoReport THEN NoReport ELSE "preparing"],
              !.dirty = TRUE]

settled(k, c) == k.report[c] \notin {NoReport, "preparing"}

mayAutoStart(k, t) ==
    /\ ~k.timeline.started
    /\ k.timeline.autoStart
    /\ k.hostReadyAt # Never
    /\ \/ \A c \in k.members : settled(k, c)
       \/ t - k.hostReadyAt >= AUTOSTART_MS

maybeAutoStart(k, t) == IF mayAutoStart(k, t) THEN play(k) ELSE k

(* Mutant of report: a buffering member pauses the room.                     *)
report_bufferingPauses(k, c, state, t) ==
    LET reported == [k EXCEPT !.report[c] = state]
    IN  IF state = "buffering" /\ k.timeline.playing THEN pause(reported) ELSE reported

(* A member reports its player's state.  Only a change of state matters:    *)
(* the host being ready arms the start, and everybody being settled starts. *)
report(k, c, state, t) ==
    LET reported == [k EXCEPT !.report[c] = state]
        armed == /\ isHost(k, c)
                 /\ state \in {"ready", "playing"}
                 /\ k.hostReadyAt = Never
    IN  IF state = k.report[c] THEN k
        ELSE IF armed
        THEN maybeAutoStart([reported EXCEPT !.hostReadyAt = t, !.dirty = TRUE], t)
        ELSE maybeAutoStart(reported, t)

(* From free to sync the timeline is anchored at the host's last report, if *)
(* there is one.                                                            *)
anchorToHost(k) ==
    IF \E c \in byUser(k, k.settings.hostUserId) : k.report[c] # NoReport
    THEN [k EXCEPT !.timeline.seq = @ + 1]
    ELSE k

setMode(k, mode) ==
    IF mode = k.settings.mode THEN k
    ELSE LET switched == [k EXCEPT !.settings.mode = mode, !.dirty = TRUE]
         IN  IF mode = "sync" THEN anchorToHost(switched) ELSE switched

setControl(k, control) == [k EXCEPT !.settings.control = control, !.dirty = TRUE]

(* The lists an invitation may leave: everyone on the old list, plus as many *)
(* of the new names as the list has room for, and never the host.            *)
invitations(k, ids) ==
    LET merged == (k.settings.allowed \cup ids) \ {k.settings.hostUserId}
        kept == k.settings.allowed \ {k.settings.hostUserId}
    IN  IF Cardinality(merged) < MAX_CAP THEN {merged}
        ELSE {l \in SUBSET merged : kept \subseteq l /\ Cardinality(l) = MAX_CAP - 1}

invite(k, list) == [k EXCEPT !.settings.allowed = list, !.dirty = TRUE]

inviteAll(k) == [k EXCEPT !.settings.everyone = TRUE, !.dirty = TRUE]

-------------------------------------------------------------------------------
(* The alarm *)

expired(k, t) ==
    k.members = {} /\ k.emptySince # Never /\ t - k.emptySince >= EMPTY_TTL_MS

hostTimedOut(k, t) ==
    k.hostAwaySince # Never /\ t - k.hostAwaySince >= HOST_GRACE_MS /\ k.members # {}

(* Those who joined first; more than one only within a millisecond. *)
oldest(k) == {c \in k.members : \A d \in k.members : k.joinedAt[c] <= k.joinedAt[d]}

(* The rooms a tick that does not expire the room may leave. *)
tick(k, t) ==
    IF mayAutoStart(k, t) THEN {play(k)}
    ELSE IF hostTimedOut(k, t) THEN {transferHost(k, Owner[c]) : c \in oldest(k)}
    ELSE {k}

(* Mutants of deadlines: one of the three is forgotten. *)
deadlines_noHost(k) ==
    {d \in {k.emptySince + EMPTY_TTL_MS} : k.members = {} /\ k.emptySince # Never}
deadlines_noStart(k) ==
    deadlines_noHost(k) \cup
    {d \in {k.hostAwaySince + HOST_GRACE_MS} : k.members # {} /\ k.hostAwaySince # Never}

deadlines(k) ==
    {d \in {k.emptySince + EMPTY_TTL_MS} : k.members = {} /\ k.emptySince # Never}
    \cup {d \in {k.hostAwaySince + HOST_GRACE_MS} : k.members # {} /\ k.hostAwaySince # Never}
    \cup {d \in {k.hostReadyAt + AUTOSTART_MS} :
            ~k.timeline.started /\ k.timeline.autoStart /\ k.hostReadyAt # Never}

nextDeadline(k) ==
    IF deadlines(k) = {} THEN Never
    ELSE CHOOSE d \in deadlines(k) : \A e \in deadlines(k) : d <= e
===============================================================================
