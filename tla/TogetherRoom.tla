----------------------------- MODULE TogetherRoom -----------------------------
(***************************************************************************)
(* The Durable Object of one room (services/sync-worker/src/together.ts):   *)
(* RoomCore in memory, its persisted part in the object's storage, the one  *)
(* alarm the platform keeps for the object, and the joinedAt serialized in  *)
(* every socket's attachment.                                               *)
(*                                                                         *)
(* Every handler runs in one step: storage calls close the object's input   *)
(* gate, and a message leaves only after the writes before it are durable.  *)
(* The object may be put to sleep between two events (its sockets stay) or, *)
(* at most MaxRestarts times, be restarted (its sockets are lost and nobody *)
(* is told).                                                                *)
(*                                                                         *)
(* A socket the object closes stays among its sockets until the other side  *)
(* has answered, attachment and all.  A sleep that ends before that seats   *)
(* it again; WakesClosing lets this in.                                     *)
(***************************************************************************)
EXTENDS TogetherCore

CONSTANTS
    NoRoom,        \* no RoomCore: this.core = null, and no 'room' key
    Creator,       \* the account whose request opens the room
    OpenSettings,  \* the settings that request may ask for
    Reported,      \* the player states the members report
    Invitees,      \* the lists of names an invitation carries
    MaxTime,       \* members act until this instant; deadlines still fire
    MaxSeq,        \* members command the timeline up to this version
    MaxRestarts,   \* restarts of the object
    WakesClosing   \* the object may sleep while sockets are being closed

ASSUME RoomAssumption ==
    /\ NoRoom \notin RoomCore \cup Persisted
    /\ Creator \in User
    /\ OpenSettings \subseteq Settings
    /\ \A s \in OpenSettings : s.hostUserId = Creator
    /\ Reported \subseteq MEMBER_STATES
    /\ Invitees \subseteq SUBSET User
    /\ MaxTime \in Nat /\ MaxSeq \in Nat /\ MaxRestarts \in Nat
    /\ WakesClosing \in BOOLEAN

VARIABLES
    now,         \* server time
    core,        \* this.core
    closing,     \* refused and replaced sockets, closed on this side only
    attachedAt,  \* joinedAt in the attachment of each socket
    stored,      \* the key 'room' of the object's storage
    alarm,       \* the alarm the platform holds, Never when none is set
    restarts     \* how many restarts so far

vars == <<now, core, closing, attachedAt, stored, alarm, restarts>>

Init ==
    /\ now = 0
    /\ core = NoRoom
    /\ closing = {}
    /\ attachedAt = [c \in Conn |-> 0]
    /\ stored = NoRoom
    /\ alarm = Never
    /\ restarts = 0

-------------------------------------------------------------------------------

persist(k) ==
    /\ stored' = persisted(k)
    /\ alarm' = nextDeadline(k)

(* The end of a handler: what it marked dirty is saved, with its deadline. *)
apply(k) ==
    /\ core' = [k EXCEPT !.dirty = FALSE]
    /\ IF k.dirty THEN persist(k) ELSE UNCHANGED <<stored, alarm>>

Acting == now < MaxTime

(* POST /init: the route of POST /v1/together/rooms asks a fresh code.  A   *)
(* room that exists answers 409 and is left alone.                          *)
Open(settings) ==
    /\ Acting
    /\ core = NoRoom
    /\ core' = create(settings, now)
    /\ persist(create(settings, now))
    /\ UNCHANGED <<now, closing, attachedAt, restarts>>

(* A WebSocket is accepted and its attachment written, before join decides: *)
(* one that is refused is closed with 4003 or 4005, a replaced one with     *)
(* 4001.                                                                    *)
Connect(c) ==
    /\ Acting
    /\ core # NoRoom
    /\ c \notin core.members \cup closing
    /\ attachedAt' = [attachedAt EXCEPT ![c] = now]
    /\ IF joinAnswer(core, c) = "welcome"
       THEN /\ apply(join(core, c, now))
            /\ closing' = closing \cup replaced(core, Owner[c])
       ELSE /\ closing' = closing \cup {c}
            /\ UNCHANGED <<core, stored, alarm>>
    /\ UNCHANGED <<now, restarts>>

(* webSocketClose and webSocketError: a connection is gone, a member's or   *)
(* one that the object had closed.                                          *)
Drop(c) ==
    /\ Acting
    /\ c \in closing \/ (core # NoRoom /\ c \in core.members)
    /\ IF core = NoRoom THEN UNCHANGED <<core, stored, alarm>>
       ELSE apply(leave(core, c, now))
    /\ closing' = closing \ {c}
    /\ attachedAt' = [attachedAt EXCEPT ![c] = 0]
    /\ UNCHANGED <<now, restarts>>

(* webSocketMessage from a member; k is the room its handler leaves. *)
Handle(k) ==
    /\ Acting
    /\ apply(k)
    /\ UNCHANGED <<now, closing, attachedAt, restarts>>

Inside(c) == core # NoRoom /\ c \in core.members
Commanding(c) == Inside(c) /\ canControl(core, c) /\ core.timeline.seq < MaxSeq
Hosting(c) == Inside(c) /\ isHost(core, c)

Play(c) == Commanding(c) /\ Handle(play(core))
Pause(c) == Commanding(c) /\ Handle(pause(core))
Seek(c) == Commanding(c) /\ Handle(seek(core))
Load(c, auto) == Commanding(c) /\ Handle(load(core, auto))

Report(c, state) == Inside(c) /\ Handle(report(core, c, state, now))

SetMode(c, mode) ==
    /\ Hosting(c)
    /\ core.timeline.seq < MaxSeq
    /\ Handle(setMode(core, mode))

SetControl(c, control) == Hosting(c) /\ Handle(setControl(core, control))

Invite(c, ids) ==
    /\ Hosting(c)
    /\ ~core.settings.everyone
    /\ \E list \in invitations(core, ids) : Handle(invite(core, list))

InviteAll(c) ==
    /\ Hosting(c)
    /\ ~core.settings.everyone
    /\ Handle(inviteAll(core))

GiveHost(c, u) ==
    /\ Hosting(c)
    /\ byUser(core, u) # {}
    /\ Handle(transferHost(core, u))

-------------------------------------------------------------------------------

(* The alarm fires at or after its instant and is spent; a tick that        *)
(* changes nothing does not set another.                                    *)
Alarm ==
    /\ core # NoRoom
    /\ alarm # Never
    /\ alarm <= now
    /\ UNCHANGED <<now, closing, attachedAt, restarts>>
    /\ IF expired(core, now)
       THEN core' = NoRoom /\ stored' = NoRoom /\ alarm' = Never
       ELSE \E k \in tick(core, now) :
                /\ core' = [k EXCEPT !.dirty = FALSE]
                /\ IF k.dirty THEN persist(k)
                   ELSE stored' = stored /\ alarm' = Never

(* Sleep and wake: memory is rebuilt from storage and from the attachments  *)
(* of all sockets that are not yet closed on both sides.                    *)
Hibernate ==
    /\ core # NoRoom
    /\ closing = {} \/ WakesClosing
    /\ core' = restore(stored, core.members \cup closing, attachedAt)
    /\ closing' = {}
    /\ UNCHANGED <<now, attachedAt, stored, alarm, restarts>>

(* The object is restarted elsewhere: no socket survives, none is closed. *)
Restart ==
    /\ core # NoRoom
    /\ restarts < MaxRestarts
    /\ core' = restore(stored, {}, attachedAt)
    /\ closing' = {}
    /\ attachedAt' = [c \in Conn |-> 0]
    /\ restarts' = restarts + 1
    /\ UNCHANGED <<now, stored, alarm>>

(* Time passes; past MaxTime only towards an alarm that is set. *)
Advance ==
    /\ now < MaxTime \/ now < alarm
    /\ now' = now + 1
    /\ UNCHANGED <<core, closing, attachedAt, stored, alarm, restarts>>

Member ==
    \E c \in Conn :
        \/ Connect(c)
        \/ Drop(c)
        \/ Play(c)
        \/ Pause(c)
        \/ Seek(c)
        \/ \E auto \in BOOLEAN : Load(c, auto)
        \/ \E state \in Reported : Report(c, state)
        \/ \E mode \in {"sync", "free"} : SetMode(c, mode)
        \/ \E control \in {"host", "all"} : SetControl(c, control)
        \/ \E ids \in Invitees : Invite(c, ids)
        \/ InviteAll(c)
        \/ \E u \in User : GiveHost(c, u)

Next ==
    \/ \E settings \in OpenSettings : Open(settings)
    \/ Member
    \/ Alarm
    \/ Hibernate
    \/ Restart
    \/ Advance

Spec == Init /\ [][Next]_vars

(* Time does not stop and a due alarm is delivered; members owe nothing. *)
FairSpec == Spec /\ WF_vars(Advance) /\ WF_vars(Alarm)

-------------------------------------------------------------------------------
(* Properties *)

(* Every variable stays within its type. *)
TypeOK ==
    /\ now \in Nat
    /\ core \in RoomCore \cup {NoRoom}
    /\ closing \subseteq Conn
    /\ attachedAt \in [Conn -> Nat]
    /\ stored \in Persisted \cup {NoRoom}
    /\ alarm \in Time
    /\ restarts \in Nat

(* Between events, what storage holds is the room in memory and, until a     *)
(* restart takes the sockets away, the alarm is set for its next deadline:   *)
(* whenever the object is put to sleep, it loses nothing but reports and     *)
(* wakes in time.                                                            *)
StorageCurrent ==
    IF core = NoRoom
    THEN stored = NoRoom /\ alarm = Never
    ELSE /\ stored = persisted(core)
         /\ restarts = 0 => alarm = nextDeadline(core)

(* A room never seats more than MAX_CAP people, and an account once. *)
OneSeatPerPerson ==
    core # NoRoom =>
        /\ Cardinality(core.members) <= MAX_CAP
        /\ \A c, d \in core.members : Owner[c] = Owner[d] => c = d

(* The two absence clocks tell the truth: the room's runs only while nobody  *)
(* is inside (and always then, until a restart), the host's only while the   *)
(* host is out, so neither deletes or hands over a room whose people are     *)
(* there.                                                                    *)
AbsenceClocks ==
    core # NoRoom =>
        /\ core.emptySince # Never => core.members = {}
        /\ (restarts = 0 /\ core.members = {}) => core.emptySince # Never
        /\ core.hostAwaySince # Never => ~hostPresent(core)

(* Every change of the timeline is a new version, so that a client that      *)
(* drops what is not newer than its own copy misses nothing; and a version   *)
(* is never taken back, whatever sleep or restart happens in between.        *)
TimelineVersioned ==
    [][(core # NoRoom /\ core' # NoRoom) =>
        /\ core'.timeline.seq >= core.timeline.seq
        /\ core'.timeline # core.timeline => core'.timeline.seq > core.timeline.seq]_vars

(* A playing room stops only when someone allowed to says so: no report, no  *)
(* departure, no alarm and no sleep stops it.                                *)
StopsOnlyByCommand ==
    [][(core # NoRoom /\ core' # NoRoom /\ core.timeline.playing /\ ~core'.timeline.playing)
        => \E c \in core.members :
              canControl(core, c) /\ (Pause(c) \/ \E auto \in BOOLEAN : Load(c, auto))]_vars

(* A room nobody comes back to is deleted. *)
EmptyRoomDeleted ==
    (core # NoRoom /\ core.members = {}) ~> (core = NoRoom \/ core.members # {})

WithoutHost == core # NoRoom /\ core.members # {} /\ ~hostPresent(core)

(* Once a host has been inside, the people of the room are never left        *)
(* without a host for good.                                                  *)
AbsentHostReplaced ==
    [](core # NoRoom /\ hostPresent(core) =>
          [](WithoutHost => <>(~WithoutHost)) \/ <>(core = NoRoom))

(* A next episode whose host is ready starts, whoever is slow. *)
NextEpisodeStarts ==
    (core # NoRoom /\ core.timeline.autoStart /\ core.hostReadyAt # Never)
        ~> (core = NoRoom \/ ~core.timeline.autoStart \/ core.hostReadyAt = Never)

-------------------------------------------------------------------------------
(* What the documentation says and the code does not do *)

(* docs/VANTARA_TOGETHER.md, 6: whoever was cut off takes the room's state   *)
(* again when he is back, so the people inside are always people who may     *)
(* come in.                                                                  *)
MembersMayReturn ==
    core # NoRoom => \A c \in core.members : invited(core, Owner[c])

(* together.ts, header: members come back from hibernation as they were.     *)
SeniorityKept ==
    [][core # NoRoom /\ core' # NoRoom =>
        \A c \in core.members \cap core'.members :
            core'.joinedAt[c] = core.joinedAt[c]]_vars

(* together-core.ts, tick: the hosting moves on when the host is absent.     *)
HostlessRoomRecovers == WithoutHost ~> ~WithoutHost

(* docs/VANTARA_TOGETHER.md, 3: a room is deleted after EMPTY_TTL_MS without *)
(* anybody, also when a restart emptied it.                                  *)
EmptiedRoomDeleted ==
    (core # NoRoom /\ core.members = {}) ~> (core = NoRoom \/ core.members # {})

(* together-core.ts, AUTOSTART_MS: the next episode starts by itself when    *)
(* everybody is ready, the host included.                                    *)
ReadyRoomStarts ==
    []<>~(/\ core # NoRoom /\ hostPresent(core)
          /\ core.timeline.autoStart
          /\ core.members # {}
          /\ \A c \in core.members : core.report[c] = "ready")
===============================================================================
