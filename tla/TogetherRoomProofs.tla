-------------------------- MODULE TogetherRoomProofs --------------------------
(* Theorems about TogetherRoom for any accounts, connections and bounds. *)
EXTENDS TogetherRoom, FiniteSetTheorems, TLAPS

-------------------------------------------------------------------------------
(* Types of the operators of RoomCore *)

LEMMA CreateType ==
    ASSUME NEW s \in Settings, NEW t \in Nat
    PROVE  create(s, t) \in RoomCore /\ ~create(s, t).dirty
  BY DEF create, RoomCore, Timeline, Time, Never, NoReport

LEMMA RestoreType ==
    ASSUME NEW p \in Persisted, NEW S \in SUBSET Conn, NEW f \in [Conn -> Nat]
    PROVE  /\ restore(p, S, f) \in RoomCore
           /\ persisted(restore(p, S, f)) = p
           /\ restore(p, S, f).members = S
           /\ ~restore(p, S, f).dirty
  BY DEF restore, persisted, RoomCore, Persisted, NoReport

LEMMA PersistedType ==
    ASSUME NEW k \in RoomCore
    PROVE  persisted(k) \in Persisted
  BY DEF persisted, RoomCore, Persisted

(* A new connection takes over one seat of its account, if there is any. *)
LEMMA ReplacedSeat ==
    ASSUME NEW k, NEW u
    PROVE  /\ replaced(k, u) \subseteq byUser(k, u)
           /\ byUser(k, u) # {} => replaced(k, u) # {}
  <1>1. CASE byUser(k, u) = {}
    BY <1>1 DEF replaced
  <1>2. CASE byUser(k, u) # {}
    <2>1. (CHOOSE c \in byUser(k, u) : TRUE) \in byUser(k, u)
      BY <1>2
    <2>2. QED
      BY <1>2, <2>1 DEF replaced
  <1>3. QED
    BY <1>1, <1>2

LEMMA JoinType ==
    ASSUME NEW k \in RoomCore, NEW c \in Conn, NEW t \in Nat
    PROVE  join(k, c, t) \in RoomCore
  <1> DEFINE previous == replaced(k, Owner[c])
             old == CHOOSE p \in previous : TRUE
  <1>1. previous \subseteq Conn
    BY ReplacedSeat DEF byUser, RoomCore
  <1>2. previous # {} => old \in Conn
    BY <1>1
  <1>3. QED
    BY <1>1, <1>2 DEF join, RoomCore, NoReport, Time, Never

LEMMA LeaveType ==
    ASSUME NEW k \in RoomCore, NEW c \in Conn, NEW t \in Nat
    PROVE  leave(k, c, t) \in RoomCore
  BY ZenonT(30) DEF leave, RoomCore, NoReport, Time, Never

LEMMA TransferType ==
    ASSUME NEW k \in RoomCore, NEW u \in User
    PROVE  transferHost(k, u) \in RoomCore
  BY DEF transferHost, RoomCore, Settings, Time, Never

LEMMA TimelineTypes ==
    ASSUME NEW k \in RoomCore
    PROVE  /\ play(k) \in RoomCore
           /\ pause(k) \in RoomCore
           /\ seek(k) \in RoomCore
           /\ anchorToHost(k) \in RoomCore
           /\ \A auto \in BOOLEAN : load(k, auto) \in RoomCore
  <1>1. ASSUME NEW auto \in BOOLEAN
        PROVE  load(k, auto) \in RoomCore
    <2> DEFINE rep == [c \in Conn |-> IF k.report[c] = NoReport THEN NoReport ELSE "preparing"]
               tl == [started |-> FALSE, autoStart |-> auto, playing |-> FALSE,
                      seq |-> k.timeline.seq + 1]
    <2>1. rep \in [Conn -> MEMBER_STATES \cup {NoReport}]
      BY DEF MEMBER_STATES
    <2>2. tl \in Timeline
      BY DEF RoomCore, Timeline
    <2>3. load(k, auto) = [k EXCEPT !.timeline = tl, !.hostReadyAt = Never,
                                    !.report = rep, !.dirty = TRUE]
      BY DEF load
    <2> HIDE DEF rep, tl
    <2>4. [k EXCEPT !.timeline = tl, !.hostReadyAt = Never, !.report = rep, !.dirty = TRUE]
            \in RoomCore
      BY <2>1, <2>2 DEF RoomCore, Time
    <2>5. QED
      BY <2>3, <2>4
  <1>2. k.timeline \in Timeline /\ k.timeline.seq + 1 \in Nat
    BY DEF RoomCore, Timeline
  <1>3. play(k) \in RoomCore
    BY <1>2 DEF play, RoomCore, Timeline
  <1>4. pause(k) \in RoomCore
    BY <1>2 DEF pause, RoomCore, Timeline
  <1>5. seek(k) \in RoomCore
    BY <1>2 DEF seek, RoomCore, Timeline
  <1>6. anchorToHost(k) \in RoomCore
    BY <1>2 DEF anchorToHost, RoomCore, Timeline
  <1>7. QED
    BY <1>1, <1>3, <1>4, <1>5, <1>6

LEMMA ReportType ==
    ASSUME NEW k \in RoomCore, NEW c \in Conn, NEW s \in MEMBER_STATES, NEW t \in Nat
    PROVE  report(k, c, s, t) \in RoomCore
  <1> DEFINE reported == [k EXCEPT !.report[c] = s]
             armed == [reported EXCEPT !.hostReadyAt = t, !.dirty = TRUE]
  <1>1. reported \in RoomCore /\ armed \in RoomCore
    BY DEF RoomCore, Time
  <1>2. maybeAutoStart(reported, t) \in RoomCore /\ maybeAutoStart(armed, t) \in RoomCore
    BY <1>1, TimelineTypes DEF maybeAutoStart
  <1>3. QED
    BY <1>2 DEF report

LEMMA SettingsTypes ==
    ASSUME NEW k \in RoomCore
    PROVE  /\ \A m \in {"sync", "free"} : setMode(k, m) \in RoomCore
           /\ \A x \in {"host", "all"} : setControl(k, x) \in RoomCore
           /\ \A l \in SUBSET User : invite(k, l) \in RoomCore
           /\ inviteAll(k) \in RoomCore
  <1>1. ASSUME NEW m \in {"sync", "free"}
        PROVE  setMode(k, m) \in RoomCore
    <2> DEFINE switched == [k EXCEPT !.settings.mode = m, !.dirty = TRUE]
    <2>1. switched \in RoomCore
      BY DEF RoomCore, Settings
    <2>2. QED
      BY <2>1, TimelineTypes DEF setMode
  <1>2. QED
    BY <1>1 DEF setControl, invite, inviteAll, RoomCore, Settings

LEMMA TickType ==
    ASSUME NEW k \in RoomCore, NEW t \in Nat, NEW r \in tick(k, t)
    PROVE  r \in RoomCore
  <1>1. oldest(k) \subseteq Conn
    BY DEF oldest, RoomCore
  <1>2. \A c \in oldest(k) : transferHost(k, Owner[c]) \in RoomCore
    BY <1>1, TransferType, CoreAssumption
  <1>3. QED
    BY <1>2, TimelineTypes DEF tick

-------------------------------------------------------------------------------
(* The next deadline is a time *)

LEMMA SmallestOfThree ==
    ASSUME NEW x \in Int, NEW y \in Int, NEW z \in Int,
           NEW S, S \subseteq {x, y, z}, S # {}
    PROVE  \E d \in S : \A e \in S : d <= e
  <1>1. CASE x \in S /\ (y \in S => x <= y) /\ (z \in S => x <= z)
    BY <1>1
  <1>2. CASE y \in S /\ (x \in S => y <= x) /\ (z \in S => y <= z)
    BY <1>2
  <1>3. CASE z \in S /\ (x \in S => z <= x) /\ (y \in S => z <= y)
    BY <1>3
  <1>4. x \in S \/ y \in S \/ z \in S
    OBVIOUS
  <1>5. QED
    BY <1>1, <1>2, <1>3, <1>4

LEMMA NextDeadlineType ==
    ASSUME NEW k \in RoomCore
    PROVE  nextDeadline(k) \in Time
  <1> DEFINE x == k.emptySince + EMPTY_TTL_MS
             y == k.hostAwaySince + HOST_GRACE_MS
             z == k.hostReadyAt + AUTOSTART_MS
  <1>1. x \in Nat /\ y \in Nat /\ z \in Nat
    BY CoreAssumption DEF RoomCore, Time, Never
  <1>2. deadlines(k) \subseteq {x, y, z}
    BY DEF deadlines
  <1> HIDE DEF x, y, z
  <1>3. CASE deadlines(k) = {}
    BY <1>3 DEF nextDeadline, Time
  <1>4. CASE deadlines(k) # {}
    <2>1. \E d \in deadlines(k) : \A e \in deadlines(k) : d <= e
      BY <1>1, <1>2, <1>4, SmallestOfThree
    <2>2. nextDeadline(k) \in deadlines(k)
      BY <1>4, <2>1 DEF nextDeadline
    <2>3. QED
      BY <1>1, <1>2, <2>2 DEF Time
  <1>5. QED
    BY <1>3, <1>4

-------------------------------------------------------------------------------
(* What a handler may disturb *)

(* Who is inside, who hosts and how long anybody is away stay as they are. *)
SamePresence(k, r) ==
    /\ r.members = k.members
    /\ r.settings.hostUserId = k.settings.hostUserId
    /\ r.emptySince = k.emptySince
    /\ r.hostAwaySince = k.hostAwaySince

(* A change is marked dirty, or storage and the alarm do not see it. *)
Accounted(k, r) ==
    \/ r.dirty
    \/ persisted(r) = persisted(k) /\ r.members = k.members

LEMMA DeadlineOfPersisted ==
    ASSUME NEW k \in RoomCore, NEW r \in RoomCore,
           persisted(r) = persisted(k), r.members = k.members
    PROVE  nextDeadline(r) = nextDeadline(k)
  <1>1. /\ r.emptySince = k.emptySince /\ r.hostAwaySince = k.hostAwaySince
        /\ r.hostReadyAt = k.hostReadyAt /\ r.timeline = k.timeline
    BY DEF persisted
  <1>2. deadlines(r) = deadlines(k)
    BY <1>1 DEF deadlines
  <1>3. QED
    BY <1>2 DEF nextDeadline

LEMMA CommandEffects ==
    ASSUME NEW k \in RoomCore
    PROVE  /\ SamePresence(k, play(k)) /\ play(k).dirty
           /\ SamePresence(k, pause(k)) /\ pause(k).dirty
           /\ SamePresence(k, seek(k)) /\ seek(k).dirty
           /\ \A auto \in BOOLEAN : SamePresence(k, load(k, auto)) /\ load(k, auto).dirty
  <1>1. SamePresence(k, play(k)) /\ play(k).dirty
    BY DEF play, SamePresence, RoomCore
  <1>2. SamePresence(k, pause(k)) /\ pause(k).dirty
    BY DEF pause, SamePresence, RoomCore
  <1>3. SamePresence(k, seek(k)) /\ seek(k).dirty
    BY DEF seek, SamePresence, RoomCore
  <1>4. \A auto \in BOOLEAN : SamePresence(k, load(k, auto)) /\ load(k, auto).dirty
    BY DEF load, SamePresence, RoomCore
  <1>5. QED
    BY <1>1, <1>2, <1>3, <1>4

LEMMA ReportEffects ==
    ASSUME NEW k \in RoomCore, NEW c \in Conn, NEW s \in MEMBER_STATES, NEW t \in Nat
    PROVE  SamePresence(k, report(k, c, s, t)) /\ Accounted(k, report(k, c, s, t))
  <1> DEFINE reported == [k EXCEPT !.report[c] = s]
             armed == [reported EXCEPT !.hostReadyAt = t, !.dirty = TRUE]
  <1>1. reported \in RoomCore /\ armed \in RoomCore
    BY DEF RoomCore, Time
  <1>2. /\ SamePresence(k, reported) /\ persisted(reported) = persisted(k)
        /\ SamePresence(k, armed) /\ armed.dirty
    BY DEF SamePresence, persisted, RoomCore
  <1>3. /\ SamePresence(reported, play(reported)) /\ play(reported).dirty
        /\ SamePresence(armed, play(armed)) /\ play(armed).dirty
    BY <1>1, CommandEffects
  <1> HIDE DEF reported, armed
  <1>4. /\ SamePresence(k, maybeAutoStart(reported, t))
        /\ Accounted(k, maybeAutoStart(reported, t))
        /\ SamePresence(k, maybeAutoStart(armed, t))
        /\ maybeAutoStart(armed, t).dirty
    BY <1>2, <1>3 DEF maybeAutoStart, SamePresence, Accounted
  <1>5. report(k, c, s, t) \in {k, maybeAutoStart(armed, t), maybeAutoStart(reported, t)}
    BY DEF report, reported, armed
  <1>6. SamePresence(k, k) /\ Accounted(k, k)
    BY DEF SamePresence, Accounted
  <1>7. QED
    BY <1>4, <1>5, <1>6 DEF Accounted

LEMMA SettingsEffects ==
    ASSUME NEW k \in RoomCore
    PROVE  /\ \A m \in {"sync", "free"} :
                SamePresence(k, setMode(k, m)) /\ Accounted(k, setMode(k, m))
           /\ \A x \in {"host", "all"} :
                SamePresence(k, setControl(k, x)) /\ setControl(k, x).dirty
           /\ \A l \in SUBSET User : SamePresence(k, invite(k, l)) /\ invite(k, l).dirty
           /\ SamePresence(k, inviteAll(k)) /\ inviteAll(k).dirty
  <1>1. ASSUME NEW m \in {"sync", "free"}
        PROVE  SamePresence(k, setMode(k, m)) /\ Accounted(k, setMode(k, m))
    <2> DEFINE switched == [k EXCEPT !.settings.mode = m, !.dirty = TRUE]
    <2>1. switched \in RoomCore /\ SamePresence(k, switched) /\ switched.dirty
      BY DEF SamePresence, RoomCore, Settings
    <2> HIDE DEF switched
    <2>2. SamePresence(k, anchorToHost(switched)) /\ anchorToHost(switched).dirty
      BY <2>1 DEF anchorToHost, SamePresence, RoomCore
    <2>3. setMode(k, m) \in {k, switched, anchorToHost(switched)}
      BY DEF setMode, switched
    <2>4. SamePresence(k, k) /\ Accounted(k, k)
      BY DEF SamePresence, Accounted
    <2>5. QED
      BY <2>1, <2>2, <2>3, <2>4 DEF Accounted
  <1>2. QED
    BY <1>1 DEF setControl, invite, inviteAll, SamePresence, RoomCore, Settings

LEMMA TransferEffects ==
    ASSUME NEW k \in RoomCore, NEW u \in User
    PROVE  /\ Accounted(k, transferHost(k, u))
           /\ transferHost(k, u).members = k.members
           /\ transferHost(k, u).emptySince = k.emptySince
           /\ u # k.settings.hostUserId =>
                 /\ transferHost(k, u).dirty
                 /\ transferHost(k, u).hostAwaySince = Never
                 /\ transferHost(k, u).settings.hostUserId = u
           /\ u = k.settings.hostUserId => transferHost(k, u) = k
  BY DEF transferHost, Accounted, RoomCore, Settings

-------------------------------------------------------------------------------
(* Presence of one room, as an invariant of the room alone *)

Seats(k) ==
    /\ Cardinality(k.members) <= MAX_CAP
    /\ \A c, d \in k.members : Owner[c] = Owner[d] => c = d

Clocks(k) ==
    /\ k.emptySince # Never => k.members = {}
    /\ k.hostAwaySince # Never => ~hostPresent(k)

Timed(k) == k.members = {} => k.emptySince # Never

LEMMA PresenceKept ==
    ASSUME NEW k \in RoomCore, NEW r \in RoomCore, SamePresence(k, r)
    PROVE  /\ Seats(k) => Seats(r)
           /\ Clocks(k) => Clocks(r)
           /\ Timed(k) => Timed(r)
           /\ hostPresent(k) <=> hostPresent(r)
  BY DEF SamePresence, Seats, Clocks, Timed, hostPresent, byUser

LEMMA MembersFinite ==
    ASSUME NEW k \in RoomCore
    PROVE  IsFiniteSet(k.members) /\ k.members \subseteq Conn
  BY CoreAssumption, FS_Subset DEF RoomCore

LEMMA JoinFields ==
    ASSUME NEW k \in RoomCore, NEW c \in Conn, NEW t \in Nat
    PROVE  /\ join(k, c, t).members = (k.members \ replaced(k, Owner[c])) \cup {c}
           /\ join(k, c, t).settings = k.settings
           /\ join(k, c, t).timeline = k.timeline
           /\ join(k, c, t).emptySince = Never
           /\ join(k, c, t).hostAwaySince =
                 IF Owner[c] = k.settings.hostUserId THEN Never ELSE k.hostAwaySince
           /\ join(k, c, t).dirty
  BY DEF join, RoomCore

LEMMA JoinPresence ==
    ASSUME NEW k \in RoomCore, NEW c \in Conn, NEW t \in Nat,
           c \notin k.members, joinAnswer(k, c) = "welcome", Seats(k), Clocks(k)
    PROVE  Seats(join(k, c, t)) /\ Clocks(join(k, c, t)) /\ Timed(join(k, c, t))
  <1> DEFINE r == join(k, c, t)
             previous == byUser(k, Owner[c])
             rest == k.members \ previous
  <1>0. replaced(k, Owner[c]) = previous
    BY ReplacedSeat DEF Seats, byUser
  <1>1. /\ r.members = rest \cup {c} /\ r.settings = k.settings
        /\ r.emptySince = Never
        /\ r.hostAwaySince = IF Owner[c] = k.settings.hostUserId THEN Never ELSE k.hostAwaySince
    BY <1>0, JoinFields
  <1>2. /\ IsFiniteSet(k.members) /\ IsFiniteSet(rest) /\ c \notin rest
        /\ Cardinality(rest) \in Nat /\ Cardinality(k.members) \in Nat
    BY MembersFinite, FS_Subset, FS_CardinalityType
  <1>3. Cardinality(rest \cup {c}) = Cardinality(rest) + 1
    BY <1>2, FS_AddElement
  <1>4. Cardinality(rest) < MAX_CAP
    <2>1. CASE previous = {}
      <3>1. rest = k.members
        BY <2>1
      <3>2. Cardinality(k.members) < MAX_CAP
        BY <2>1, <1>2, CoreAssumption DEF joinAnswer
      <3>3. QED
        BY <3>1, <3>2
    <2>2. CASE previous # {}
      <3>1. PICK p \in previous : TRUE
        BY <2>2
      <3>2. /\ p \in k.members /\ IsFiniteSet(k.members \ {p})
            /\ Cardinality(k.members \ {p}) = Cardinality(k.members) - 1
        BY <3>1, <1>2, FS_RemoveElement DEF byUser
      <3>3. rest \subseteq k.members \ {p}
        BY <3>1
      <3>4. Cardinality(rest) <= Cardinality(k.members \ {p})
        BY <3>2, <3>3, FS_Subset
      <3>5. QED
        BY <1>2, <3>2, <3>4, CoreAssumption DEF Seats
    <2>3. QED
      BY <2>1, <2>2
  <1>5. Seats(r)
    <2>1. Cardinality(r.members) <= MAX_CAP
      BY <1>1, <1>2, <1>3, <1>4, CoreAssumption
    <2>2. \A d, e \in r.members : Owner[d] = Owner[e] => d = e
      BY <1>1 DEF Seats, byUser
    <2>3. QED
      BY <2>1, <2>2 DEF Seats
  <1>6. Timed(r)
    BY <1>1 DEF Timed
  <1>7. Clocks(r)
    BY <1>1 DEF Clocks, hostPresent, byUser
  <1>8. QED
    BY <1>5, <1>6, <1>7

LEMMA LeavePresence ==
    ASSUME NEW k \in RoomCore, NEW c \in Conn, NEW t \in Nat,
           c \in k.members, Seats(k), Clocks(k)
    PROVE  /\ leave(k, c, t).dirty
           /\ leave(k, c, t).timeline = k.timeline
           /\ Seats(leave(k, c, t)) /\ Clocks(leave(k, c, t))
           /\ Timed(leave(k, c, t))
           /\ (hostPresent(k) /\ ~hostPresent(leave(k, c, t)))
                 => leave(k, c, t).hostAwaySince = t
           /\ (k.hostAwaySince # Never) => leave(k, c, t).hostAwaySince = k.hostAwaySince
  <1> DEFINE r == leave(k, c, t)
  <1>1. /\ r.members = k.members \ {c} /\ r.settings = k.settings /\ r.dirty
        /\ r.timeline = k.timeline
        /\ r.emptySince = IF k.members = {c} THEN t ELSE k.emptySince
        /\ r.hostAwaySince = IF Owner[c] = k.settings.hostUserId THEN t ELSE k.hostAwaySince
    BY DEF leave, RoomCore
  <1> HIDE DEF r
  <1>2. Seats(r)
    <2>1. IsFiniteSet(k.members) /\ Cardinality(r.members) <= Cardinality(k.members)
      BY <1>1, MembersFinite, FS_Subset
    <2>2. Cardinality(r.members) \in Nat /\ Cardinality(k.members) \in Nat
      BY <1>1, <2>1, FS_CardinalityType, FS_Subset
    <2>3. QED
      BY <1>1, <2>1, <2>2, CoreAssumption DEF Seats
  <1>3. Clocks(r)
    BY <1>1 DEF Clocks, Seats, hostPresent, byUser, Never
  <1>4. Timed(r)
    BY <1>1 DEF Timed, Never
  <1>5. (hostPresent(k) /\ ~hostPresent(r)) => r.hostAwaySince = t
    BY <1>1 DEF hostPresent, byUser
  <1>6. (k.hostAwaySince # Never) => r.hostAwaySince = k.hostAwaySince
    BY <1>1 DEF Clocks, hostPresent, byUser
  <1>7. QED
    BY <1>1, <1>2, <1>3, <1>4, <1>5, <1>6 DEF r

-------------------------------------------------------------------------------
(* What holds whatever is asleep or being closed *)

Clean == core # NoRoom => ~core.dirty

(* Storage holds the room in memory: StorageCurrent without the alarm. *)
Saved ==
    IF core = NoRoom
    THEN stored = NoRoom /\ alarm = Never
    ELSE stored = persisted(core)

Kept == TypeOK /\ Clean /\ Saved

LEMMA HandlerKept ==
    ASSUME Kept, core # NoRoom, NEW k \in RoomCore, Accounted(core, k), apply(k),
           now' \in Nat, closing' \subseteq Conn, attachedAt' \in [Conn -> Nat],
           restarts' = restarts
    PROVE  Kept'
  <1> DEFINE saved == [k EXCEPT !.dirty = FALSE]
  <1>1. /\ core \in RoomCore /\ core' = saved /\ saved \in RoomCore
        /\ core' # NoRoom /\ ~saved.dirty /\ persisted(saved) = persisted(k)
    BY RoomAssumption DEF Kept, TypeOK, apply, RoomCore, persisted
  <1>2. stored' = persisted(k) /\ alarm' \in Time
    <2>1. CASE k.dirty
      BY <2>1, NextDeadlineType DEF apply, persist
    <2>2. CASE ~k.dirty
      BY <1>1, <2>2 DEF apply, Kept, TypeOK, Saved, Accounted
    <2>3. QED
      BY <2>1, <2>2
  <1>3. QED
    BY <1>1, <1>2, PersistedType DEF Kept, TypeOK, Clean, Saved

LEMMA LeaveAccounted ==
    ASSUME NEW k \in RoomCore, NEW c \in Conn, NEW t \in Nat
    PROVE  Accounted(k, leave(k, c, t))
  BY DEF leave, Accounted, RoomCore

LEMMA TickAccounted ==
    ASSUME NEW k \in RoomCore, NEW t \in Nat, NEW r \in tick(k, t)
    PROVE  r \in RoomCore /\ Accounted(k, r)
  <1>1. r \in RoomCore
    BY TickType
  <1>2. \A c \in oldest(k) : Accounted(k, transferHost(k, Owner[c]))
    BY TransferEffects, CoreAssumption DEF oldest, RoomCore
  <1>3. Accounted(k, play(k)) /\ Accounted(k, k)
    BY CommandEffects DEF Accounted
  <1>4. QED
    BY <1>1, <1>2, <1>3 DEF tick

-------------------------------------------------------------------------------
(* The inductive invariant of the object *)

IInv == TypeOK /\ Clean /\ StorageCurrent /\ OneSeatPerPerson /\ AbsenceClocks

(* The two invariants of presence, said of a room. *)
LEMMA PresenceInvariants ==
    /\ OneSeatPerPerson <=> (core # NoRoom => Seats(core))
    /\ AbsenceClocks <=>
          (core # NoRoom => Clocks(core) /\ (restarts = 0 => Timed(core)))
  BY DEF OneSeatPerPerson, AbsenceClocks, Seats, Clocks, Timed

(* A handler that leaves a sound room k, accounted for, leaves the object in *)
(* the invariant: this is what every step but a wake-up comes down to.       *)
LEMMA ApplyKeeps ==
    ASSUME IInv, core # NoRoom, NEW k \in RoomCore,
           Accounted(core, k), Seats(k), Clocks(k), Timed(core) => Timed(k),
           apply(k), now' \in Nat, closing' \subseteq Conn, attachedAt' \in [Conn -> Nat],
           restarts' = restarts
    PROVE  IInv'
  <1> DEFINE saved == [k EXCEPT !.dirty = FALSE]
  <1>1. /\ core \in RoomCore /\ core' = saved /\ saved \in RoomCore
        /\ core' # NoRoom /\ ~saved.dirty
        /\ persisted(saved) = persisted(k) /\ saved.members = k.members
    BY RoomAssumption DEF IInv, TypeOK, apply, RoomCore, persisted
  <1>2. nextDeadline(saved) = nextDeadline(k)
    BY <1>1, DeadlineOfPersisted
  <1>3. stored' = persisted(k) /\ alarm' \in Time /\ (restarts = 0 => alarm' = nextDeadline(k))
    <2>1. CASE k.dirty
      BY <2>1, NextDeadlineType DEF apply, persist
    <2>2. CASE ~k.dirty
      <3>1. persisted(k) = persisted(core) /\ nextDeadline(k) = nextDeadline(core)
        BY <1>1, <2>2, DeadlineOfPersisted DEF Accounted
      <3>2. QED
        BY <2>2, <3>1 DEF apply, IInv, TypeOK, StorageCurrent
    <2>3. QED
      BY <2>1, <2>2
  <1>4. TypeOK' /\ Clean'
    BY <1>1, <1>3, PersistedType DEF IInv, TypeOK, Clean
  <1>5. StorageCurrent'
    BY <1>1, <1>2, <1>3 DEF StorageCurrent
  <1>6. Seats(saved) /\ Clocks(saved) /\ (Timed(k) => Timed(saved))
    BY <1>1 DEF Seats, Clocks, Timed, hostPresent, byUser, RoomCore
  <1>7. restarts = 0 => Timed(core)
    BY PresenceInvariants DEF IInv
  <1>8. OneSeatPerPerson' /\ AbsenceClocks'
    <2>1. Seats(core') /\ Clocks(core') /\ (restarts' = 0 => Timed(core'))
      BY <1>1, <1>6, <1>7
    <2>2. QED
      BY <2>1 DEF OneSeatPerPerson, AbsenceClocks, Seats, Clocks, Timed
  <1>9. QED
    BY <1>4, <1>5, <1>8 DEF IInv

(* The same for a handler that touches nobody's presence. *)
LEMMA HandleKeeps ==
    ASSUME IInv, core # NoRoom, NEW k \in RoomCore,
           SamePresence(core, k), Accounted(core, k), Handle(k)
    PROVE  IInv'
  <1>1. core \in RoomCore /\ Seats(core) /\ Clocks(core)
    BY PresenceInvariants DEF IInv, TypeOK
  <1>2. Seats(k) /\ Clocks(k) /\ (Timed(core) => Timed(k))
    BY <1>1, PresenceKept
  <1>3. QED
    BY <1>2, ApplyKeeps DEF Handle, IInv, TypeOK

LEMMA InitIInv == Init => IInv
  BY DEF Init, IInv, TypeOK, Clean, StorageCurrent, OneSeatPerPerson, AbsenceClocks,
         Time, Never

LEMMA OpenKeeps ==
    ASSUME IInv, NEW s \in OpenSettings, Open(s)
    PROVE  IInv'
  <1> DEFINE k == create(s, now)
  <1>1. k \in RoomCore /\ ~k.dirty /\ k # NoRoom
    BY CreateType, RoomAssumption DEF IInv, TypeOK
  <1>2. core' = k /\ stored' = persisted(k) /\ alarm' = nextDeadline(k)
        /\ UNCHANGED <<now, closing, attachedAt, restarts>>
    BY DEF Open, persist
  <1>3. TypeOK' /\ Clean' /\ StorageCurrent'
    BY <1>1, <1>2, NextDeadlineType, PersistedType
       DEF IInv, TypeOK, Clean, StorageCurrent
  <1>4. k.members = {} /\ k.emptySince = now /\ k.hostAwaySince = Never
    BY DEF create
  <1>5. OneSeatPerPerson' /\ AbsenceClocks'
    BY <1>1, <1>2, <1>4, FS_EmptySet, CoreAssumption
       DEF OneSeatPerPerson, AbsenceClocks, IInv, TypeOK, Never
  <1>6. QED
    BY <1>3, <1>5 DEF IInv

LEMMA PresenceStepTypes ==
    ASSUME TypeOK, NEW c \in Conn, Connect(c) \/ Drop(c)
    PROVE  /\ now' \in Nat /\ closing' \subseteq Conn /\ attachedAt' \in [Conn -> Nat]
           /\ restarts' = restarts
  <1>1. /\ now' = now /\ restarts' = restarts
        /\ attachedAt' \in {[attachedAt EXCEPT ![c] = now], [attachedAt EXCEPT ![c] = 0]}
    BY DEF Connect, Drop
  <1>2. closing' \subseteq Conn
    <2>1. CASE Connect(c)
      <3>1. /\ core \in RoomCore
            /\ closing' \in {closing \cup {c}, closing \cup replaced(core, Owner[c])}
        BY <2>1 DEF Connect, TypeOK
      <3>2. replaced(core, Owner[c]) \subseteq Conn
        BY <3>1, ReplacedSeat DEF byUser, RoomCore
      <3>3. QED
        BY <3>1, <3>2 DEF TypeOK
    <2>2. CASE Drop(c)
      BY <2>2 DEF Drop, TypeOK
    <2>3. QED
      BY <2>1, <2>2
  <1>3. QED
    BY <1>1, <1>2 DEF TypeOK

LEMMA PresenceStepKeeps ==
    ASSUME IInv, NEW c \in Conn, Connect(c) \/ Drop(c)
    PROVE  IInv'
  <1>1. CASE core = NoRoom \/ UNCHANGED <<core, stored, alarm>>
    <2>1. UNCHANGED <<core, stored, alarm, restarts>>
      BY <1>1 DEF Connect, Drop
    <2>2. TypeOK'
      BY <2>1, PresenceStepTypes DEF IInv, TypeOK
    <2>3. QED
      BY <2>1, <2>2 DEF IInv, Clean, StorageCurrent, OneSeatPerPerson, AbsenceClocks
  <1>2. CASE core # NoRoom /\ ~UNCHANGED <<core, stored, alarm>>
    <2>1. core \in RoomCore /\ now \in Nat /\ Seats(core) /\ Clocks(core)
      BY <1>2, PresenceInvariants DEF IInv, TypeOK
    <2>2. /\ now' \in Nat /\ closing' \subseteq Conn /\ attachedAt' \in [Conn -> Nat]
          /\ restarts' = restarts
      BY PresenceStepTypes DEF IInv
    <2>3. CASE Connect(c)
      <3>1. /\ c \notin core.members /\ joinAnswer(core, c) = "welcome"
            /\ apply(join(core, c, now))
        BY <1>2, <2>3 DEF Connect
      <3>2. join(core, c, now) \in RoomCore /\ Accounted(core, join(core, c, now))
        BY <2>1, JoinType, JoinFields DEF Accounted
      <3>3. QED
        BY <1>2, <2>1, <2>2, <3>1, <3>2, JoinPresence, ApplyKeeps
    <2>4. CASE Drop(c)
      <3>1. apply(leave(core, c, now))
        BY <1>2, <2>4 DEF Drop
      <3>2. leave(core, c, now) \in RoomCore /\ Accounted(core, leave(core, c, now))
        BY <2>1, LeaveType, LeaveAccounted
      <3>3. /\ Seats(leave(core, c, now)) /\ Clocks(leave(core, c, now))
            /\ (Timed(core) => Timed(leave(core, c, now)))
        <4>1. CASE c \in core.members
          BY <2>1, <4>1, LeavePresence
        <4>2. CASE c \notin core.members
          BY <2>1, <4>2 DEF leave
        <4>3. QED
          BY <4>1, <4>2
      <3>4. QED
        BY <1>2, <2>1, <2>2, <3>1, <3>2, <3>3, ApplyKeeps
    <2>5. QED
      BY <2>3, <2>4
  <1>3. QED
    BY <1>1, <1>2

(* Every message of a member but GiveHost, as one handler. *)
LEMMA MessageIsQuiet ==
    ASSUME TypeOK, NEW c \in Conn,
           \/ Play(c) \/ Pause(c) \/ Seek(c) \/ \E auto \in BOOLEAN : Load(c, auto)
           \/ \E state \in Reported : Report(c, state)
           \/ \E mode \in {"sync", "free"} : SetMode(c, mode)
           \/ \E control \in {"host", "all"} : SetControl(c, control)
           \/ \E ids \in Invitees : Invite(c, ids)
           \/ InviteAll(c)
    PROVE  /\ core # NoRoom
           /\ \E k \in RoomCore : SamePresence(core, k) /\ Accounted(core, k) /\ Handle(k)
  <1>1. core # NoRoom /\ core \in RoomCore /\ now \in Nat
    BY DEF TypeOK, Play, Pause, Seek, Load, Report, SetMode, SetControl, Invite,
           InviteAll, Commanding, Hosting, Inside
  <1>2. CASE Play(c) \/ Pause(c) \/ Seek(c) \/ \E auto \in BOOLEAN : Load(c, auto)
    BY <1>1, <1>2, CommandEffects, TimelineTypes
       DEF Play, Pause, Seek, Load, Accounted
  <1>3. CASE \E state \in Reported : Report(c, state)
    BY <1>1, <1>3, ReportEffects, ReportType, RoomAssumption DEF Report
  <1>4. CASE \/ \E mode \in {"sync", "free"} : SetMode(c, mode)
             \/ \E control \in {"host", "all"} : SetControl(c, control)
             \/ InviteAll(c)
    BY <1>1, <1>4, SettingsEffects, SettingsTypes
       DEF SetMode, SetControl, InviteAll, Accounted
  <1>5. CASE \E ids \in Invitees : Invite(c, ids)
    <2>0. PICK ids \in Invitees : Invite(c, ids)
      BY <1>5
    <2>1. PICK list \in invitations(core, ids) : Handle(invite(core, list))
      BY <2>0 DEF Invite
    <2>2. list \in SUBSET User
      <3>1. ids \in SUBSET User /\ core.settings.allowed \in SUBSET User
        BY <1>1, RoomAssumption DEF RoomCore, Settings
      <3>2. QED
        BY <2>1, <3>1 DEF invitations
    <2>3. QED
      BY <1>1, <2>1, <2>2, SettingsEffects, SettingsTypes DEF Accounted
  <1>6. QED
    BY <1>1, <1>2, <1>3, <1>4, <1>5

LEMMA GiveHostKeeps ==
    ASSUME IInv, NEW c \in Conn, NEW u \in User, GiveHost(c, u)
    PROVE  IInv'
  <1> DEFINE k == transferHost(core, u)
  <1>1. /\ core # NoRoom /\ core \in RoomCore /\ Seats(core) /\ Clocks(core)
        /\ Handle(k) /\ now \in Nat
    BY PresenceInvariants DEF IInv, TypeOK, GiveHost, Hosting, Inside
  <1>2. k \in RoomCore /\ Accounted(core, k)
    BY <1>1, TransferType, TransferEffects
  <1>3. Seats(k) /\ Clocks(k) /\ (Timed(core) => Timed(k))
    BY <1>1, TransferEffects DEF Seats, Clocks, Timed
  <1>4. QED
    BY <1>1, <1>2, <1>3, ApplyKeeps DEF Handle, IInv, TypeOK

(* An alarm that is due finds something to do, because it was set for a      *)
(* deadline of the room as it is: this is where StorageCurrent and           *)
(* AbsenceClocks are both needed.                                            *)
LEMMA DueAlarmActs ==
    ASSUME IInv, core # NoRoom, restarts = 0, Alarm, ~expired(core, now),
           NEW k \in tick(core, now)
    PROVE  k.dirty
  <1>1. /\ core \in RoomCore /\ now \in Nat /\ Clocks(core)
        /\ alarm # Never /\ alarm <= now /\ alarm = nextDeadline(core)
    BY PresenceInvariants DEF IInv, TypeOK, StorageCurrent, Alarm
  <1>2. alarm \in deadlines(core)
    <2> DEFINE x == core.emptySince + EMPTY_TTL_MS
               y == core.hostAwaySince + HOST_GRACE_MS
               z == core.hostReadyAt + AUTOSTART_MS
    <2>1. x \in Int /\ y \in Int /\ z \in Int
      BY <1>1, CoreAssumption DEF RoomCore, Time, Never
    <2>2. deadlines(core) \subseteq {x, y, z} /\ deadlines(core) # {}
      BY <1>1 DEF deadlines, nextDeadline
    <2> HIDE DEF x, y, z
    <2>3. \E d \in deadlines(core) : \A e \in deadlines(core) : d <= e
      BY <2>1, <2>2, SmallestOfThree
    <2>4. QED
      BY <1>1, <2>2, <2>3 DEF nextDeadline
  <1>3. \/ expired(core, now) \/ hostTimedOut(core, now) \/ mayAutoStart(core, now)
    BY <1>1, <1>2, CoreAssumption
       DEF deadlines, expired, hostTimedOut, mayAutoStart, RoomCore, Time, Never
  <1>4. CASE mayAutoStart(core, now)
    BY <1>1, <1>4, CommandEffects DEF tick
  <1>5. CASE ~mayAutoStart(core, now)
    <2>1. hostTimedOut(core, now)
      BY <1>3, <1>5
    <2>2. PICK c \in oldest(core) : k = transferHost(core, Owner[c])
      BY <1>5, <2>1 DEF tick
    <2>3. c \in core.members /\ c \in Conn /\ Owner[c] \in User
      BY <1>1, <2>2, CoreAssumption DEF oldest, RoomCore
    <2>4. Owner[c] # core.settings.hostUserId
      BY <1>1, <2>1, <2>3 DEF Clocks, hostTimedOut, hostPresent, byUser
    <2>5. QED
      BY <1>1, <2>2, <2>3, <2>4, TransferEffects
  <1>6. QED
    BY <1>4, <1>5

LEMMA TickEffects ==
    ASSUME NEW k \in RoomCore, NEW t \in Nat, NEW r \in tick(k, t), Seats(k), Clocks(k)
    PROVE  /\ r \in RoomCore /\ Accounted(k, r)
           /\ Seats(r) /\ Clocks(r) /\ (Timed(k) => Timed(r))
           /\ r.members = k.members
  <1>1. r \in RoomCore
    BY TickType
  <1>2. CASE mayAutoStart(k, t)
    <2>1. r = play(k) /\ SamePresence(k, r) /\ r.dirty
      BY <1>2, CommandEffects DEF tick
    <2>2. QED
      BY <1>1, <2>1, PresenceKept DEF Accounted, SamePresence
  <1>3. CASE ~mayAutoStart(k, t) /\ hostTimedOut(k, t)
    <2>1. PICK c \in oldest(k) : r = transferHost(k, Owner[c])
      BY <1>3 DEF tick
    <2>2. Owner[c] \in User
      BY <2>1, CoreAssumption DEF oldest, RoomCore
    <2>3. QED
      BY <1>1, <2>1, <2>2, TransferEffects DEF Seats, Clocks, Timed
  <1>4. CASE ~mayAutoStart(k, t) /\ ~hostTimedOut(k, t)
    <2>1. r = k
      BY <1>4 DEF tick
    <2>2. QED
      BY <2>1 DEF Accounted
  <1>5. QED
    BY <1>2, <1>3, <1>4

LEMMA AlarmKeeps ==
    ASSUME IInv, Alarm
    PROVE  IInv'
  <1>1. /\ core # NoRoom /\ core \in RoomCore /\ now \in Nat
        /\ Seats(core) /\ Clocks(core) /\ (restarts = 0 => Timed(core))
        /\ UNCHANGED <<now, closing, attachedAt, restarts>>
    BY PresenceInvariants DEF IInv, TypeOK, Alarm
  <1>2. CASE expired(core, now)
    <2>1. core' = NoRoom /\ stored' = NoRoom /\ alarm' = Never
      BY <1>2 DEF Alarm
    <2>2. QED
      BY <1>1, <2>1 DEF IInv, TypeOK, Clean, StorageCurrent, OneSeatPerPerson, AbsenceClocks,
         Time
  <1>3. CASE ~expired(core, now)
    <2>1. PICK k \in tick(core, now) :
            /\ core' = [k EXCEPT !.dirty = FALSE]
            /\ IF k.dirty THEN persist(k) ELSE stored' = stored /\ alarm' = Never
      BY <1>3 DEF Alarm
    <2>2. /\ k \in RoomCore /\ Accounted(core, k) /\ Seats(k) /\ Clocks(k)
          /\ (Timed(core) => Timed(k)) /\ k.members = core.members
      BY <1>1, TickEffects
    <2>3. CASE k.dirty
      <3>1. apply(k)
        BY <2>1, <2>3 DEF apply
      <3>2. QED
        BY <1>1, <2>2, <3>1, ApplyKeeps DEF IInv, TypeOK
    <2>4. CASE ~k.dirty
      <3> DEFINE saved == [k EXCEPT !.dirty = FALSE]
      <3>1. restarts # 0
        BY <1>1, <1>3, <2>4, DueAlarmActs DEF IInv, TypeOK
      <3>2. /\ core' = saved /\ saved \in RoomCore /\ ~saved.dirty /\ saved # NoRoom
            /\ persisted(saved) = persisted(core)
            /\ stored' = stored /\ alarm' = Never
        BY <2>1, <2>2, <2>4, RoomAssumption DEF Accounted, RoomCore, persisted
      <3>3. Seats(saved) /\ Clocks(saved)
        BY <2>2 DEF Seats, Clocks, hostPresent, byUser, RoomCore
      <3>4. TypeOK' /\ Clean' /\ StorageCurrent'
        BY <1>1, <3>1, <3>2 DEF IInv, TypeOK, Clean, StorageCurrent, Time
      <3>5. OneSeatPerPerson' /\ AbsenceClocks'
        BY <1>1, <3>1, <3>2, <3>3 DEF OneSeatPerPerson, AbsenceClocks, Seats, Clocks
      <3>6. QED
        BY <3>4, <3>5 DEF IInv
    <2>5. QED
      BY <2>3, <2>4
  <1>4. QED
    BY <1>2, <1>3

LEMMA WakeKeeps ==
    ASSUME ~WakesClosing, IInv, Hibernate \/ Restart
    PROVE  IInv'
  <1>1. /\ core # NoRoom /\ core \in RoomCore /\ stored = persisted(core)
        /\ stored \in Persisted /\ attachedAt \in [Conn -> Nat] /\ core.members \subseteq Conn
        /\ Seats(core) /\ Clocks(core) /\ (restarts = 0 => Timed(core))
    BY PresenceInvariants, PersistedType
       DEF IInv, TypeOK, StorageCurrent, Hibernate, Restart, RoomCore
  <1>a. closing' = {} /\ (Hibernate => core.members \cup closing = core.members)
    BY <1>1 DEF Hibernate, Restart
  <1> DEFINE S == IF Hibernate THEN core.members ELSE {}
             r == restore(stored, S, attachedAt)
  <1>2. /\ r \in RoomCore /\ persisted(r) = persisted(core) /\ r.members = S
        /\ ~r.dirty /\ r # NoRoom
    BY <1>1, RestoreType, RoomAssumption
  <1>3. r.settings = core.settings /\ r.emptySince = core.emptySince
        /\ r.hostAwaySince = core.hostAwaySince
    BY <1>2 DEF persisted
  <1>4. /\ core' = r /\ stored' = stored /\ alarm' = alarm /\ now' = now
        /\ closing' = {} /\ attachedAt' \in [Conn -> Nat] /\ restarts' \in Nat
        /\ restarts' = 0 => restarts = 0 /\ S = core.members
    <2>1. CASE Hibernate
      <3>1. core' = restore(stored, core.members \cup closing, attachedAt)
            /\ UNCHANGED <<now, attachedAt, stored, alarm, restarts>>
        BY <2>1 DEF Hibernate
      <3>2. core' = r /\ S = core.members
        BY <1>a, <2>1, <3>1
      <3>3. QED
        BY <1>1, <1>a, <3>1, <3>2 DEF IInv, TypeOK
    <2>2. CASE ~Hibernate
      <3>1. core' = restore(stored, {}, attachedAt) /\ attachedAt' = [c \in Conn |-> 0]
            /\ restarts' = restarts + 1 /\ UNCHANGED <<now, stored, alarm>>
        BY <2>2 DEF Restart
      <3>2. core' = r
        BY <2>2, <3>1
      <3>3. restarts' # 0 /\ restarts' \in Nat
        BY <3>1 DEF IInv, TypeOK
      <3>4. QED
        BY <1>a, <3>1, <3>2, <3>3
    <2>3. QED
      BY <2>1, <2>2
  <1>5. S \in {core.members, {}}
    OBVIOUS
  <1> HIDE DEF r, S
  <1>6. Seats(r) /\ Clocks(r)
    <2>1. CASE S = core.members
      BY <1>1, <1>2, <1>3, <2>1 DEF Seats, Clocks, hostPresent, byUser
    <2>2. CASE S = {}
      BY <1>1, <1>2, <1>3, <2>2, FS_EmptySet, CoreAssumption
         DEF Seats, Clocks, hostPresent, byUser
    <2>3. QED
      BY <1>5, <2>1, <2>2
  <1>7. restarts' = 0 => Timed(r) /\ nextDeadline(r) = nextDeadline(core)
    BY <1>1, <1>2, <1>3, <1>4, DeadlineOfPersisted DEF Timed
  <1>8. TypeOK' /\ Clean' /\ StorageCurrent'
    BY <1>1, <1>2, <1>4, <1>7 DEF IInv, TypeOK, Clean, StorageCurrent
  <1>9. OneSeatPerPerson' /\ AbsenceClocks'
    BY <1>2, <1>4, <1>6, <1>7 DEF OneSeatPerPerson, AbsenceClocks, Seats, Clocks, Timed
  <1>10. QED
    BY <1>8, <1>9 DEF IInv

LEMMA NextKeeps ==
    ASSUME ~WakesClosing, IInv, [Next]_vars
    PROVE  IInv'
  <1>1. ASSUME NEW s \in OpenSettings, Open(s) PROVE IInv'
    BY <1>1, OpenKeeps
  <1>2. ASSUME NEW c \in Conn, Connect(c) \/ Drop(c) PROVE IInv'
    BY <1>2, PresenceStepKeeps
  <1>3. ASSUME NEW c \in Conn, NEW u \in User, GiveHost(c, u) PROVE IInv'
    BY <1>3, GiveHostKeeps
  <1>4. ASSUME NEW c \in Conn,
               \/ Play(c) \/ Pause(c) \/ Seek(c) \/ \E auto \in BOOLEAN : Load(c, auto)
               \/ \E state \in Reported : Report(c, state)
               \/ \E mode \in {"sync", "free"} : SetMode(c, mode)
               \/ \E control \in {"host", "all"} : SetControl(c, control)
               \/ \E ids \in Invitees : Invite(c, ids)
               \/ InviteAll(c)
        PROVE  IInv'
    <2>1. core # NoRoom
      BY <1>4, MessageIsQuiet DEF IInv
    <2>2. PICK k \in RoomCore : SamePresence(core, k) /\ Accounted(core, k) /\ Handle(k)
      BY <1>4, MessageIsQuiet DEF IInv
    <2>3. QED
      BY <2>1, <2>2, HandleKeeps
  <1>5. Member => IInv'
    BY <1>2, <1>3, <1>4 DEF Member
  <1>6. Alarm => IInv'
    BY AlarmKeeps
  <1>7. Hibernate \/ Restart => IInv'
    BY WakeKeeps
  <1>8. Advance => IInv'
    BY DEF Advance, IInv, TypeOK, Clean, StorageCurrent, OneSeatPerPerson, AbsenceClocks
  <1>9. UNCHANGED vars => IInv'
    BY DEF vars, IInv, TypeOK, Clean, StorageCurrent, OneSeatPerPerson, AbsenceClocks
  <1>10. QED
    BY <1>1, <1>5, <1>6, <1>7, <1>8, <1>9 DEF Next

LEMMA Invariance ==
    ASSUME ~WakesClosing
    PROVE  Spec => []IInv
  <1>1. Init => IInv
    BY InitIInv
  <1>2. IInv /\ [Next]_vars => IInv'
    BY NextKeeps
  <1>3. QED
    BY <1>1, <1>2, PTL DEF Spec

(* The same walk for what needs no hypothesis. *)
LEMMA NextKept ==
    ASSUME Kept, [Next]_vars
    PROVE  Kept'
  <1>0. now \in Nat /\ (core # NoRoom => core \in RoomCore)
    BY DEF Kept, TypeOK
  <1>1. ASSUME NEW s \in OpenSettings, Open(s) PROVE Kept'
    <2>1. create(s, now) \in RoomCore /\ ~create(s, now).dirty /\ create(s, now) # NoRoom
      BY <1>0, CreateType, RoomAssumption
    <2>2. QED
      BY <1>1, <2>1, NextDeadlineType, PersistedType
         DEF Open, persist, Kept, TypeOK, Clean, Saved
  <1>2. ASSUME NEW c \in Conn, Connect(c) \/ Drop(c) PROVE Kept'
    <2>1. /\ now' \in Nat /\ closing' \subseteq Conn /\ attachedAt' \in [Conn -> Nat]
          /\ restarts' = restarts
      BY <1>2, PresenceStepTypes DEF Kept
    <2>2. \/ UNCHANGED <<core, stored, alarm>>
          \/ core # NoRoom /\ apply(join(core, c, now))
          \/ core # NoRoom /\ apply(leave(core, c, now))
      BY <1>2 DEF Connect, Drop
    <2>3. CASE UNCHANGED <<core, stored, alarm>>
      BY <2>1, <2>3 DEF Kept, TypeOK, Clean, Saved
    <2>4. CASE core # NoRoom /\ apply(join(core, c, now))
      <3>1. join(core, c, now) \in RoomCore /\ Accounted(core, join(core, c, now))
        BY <1>0, <2>4, JoinType, JoinFields DEF Accounted
      <3>2. QED
        BY <2>1, <2>4, <3>1, HandlerKept
    <2>5. CASE core # NoRoom /\ apply(leave(core, c, now))
      <3>1. leave(core, c, now) \in RoomCore /\ Accounted(core, leave(core, c, now))
        BY <1>0, <2>5, LeaveType, LeaveAccounted
      <3>2. QED
        BY <2>1, <2>5, <3>1, HandlerKept
    <2>6. QED
      BY <2>2, <2>3, <2>4, <2>5
  <1>3. ASSUME core # NoRoom,
               NEW k \in RoomCore, Accounted(core, k), Handle(k)
        PROVE  Kept'
    BY <1>3, HandlerKept DEF Handle, Kept, TypeOK
  <1>4. ASSUME NEW c \in Conn, NEW u \in User, GiveHost(c, u) PROVE Kept'
    <2>1. core # NoRoom /\ Handle(transferHost(core, u))
      BY <1>4 DEF GiveHost, Hosting, Inside
    <2>2. transferHost(core, u) \in RoomCore /\ Accounted(core, transferHost(core, u))
      BY <1>0, <2>1, TransferType, TransferEffects
    <2>3. QED
      BY <1>3, <2>1, <2>2
  <1>5. ASSUME NEW c \in Conn,
               \/ Play(c) \/ Pause(c) \/ Seek(c) \/ \E auto \in BOOLEAN : Load(c, auto)
               \/ \E state \in Reported : Report(c, state)
               \/ \E mode \in {"sync", "free"} : SetMode(c, mode)
               \/ \E control \in {"host", "all"} : SetControl(c, control)
               \/ \E ids \in Invitees : Invite(c, ids)
               \/ InviteAll(c)
        PROVE  Kept'
    <2>1. core # NoRoom
      BY <1>5, MessageIsQuiet DEF Kept
    <2>2. PICK k \in RoomCore : Accounted(core, k) /\ Handle(k)
      BY <1>5, MessageIsQuiet DEF Kept
    <2>3. QED
      BY <1>3, <2>1, <2>2
  <1>6. Member => Kept'
    BY <1>2, <1>4, <1>5 DEF Member
  <1>7. CASE Alarm
    <2>1. core # NoRoom /\ UNCHANGED <<now, closing, attachedAt, restarts>>
      BY <1>7 DEF Alarm
    <2>2. CASE expired(core, now)
      BY <1>7, <2>1, <2>2 DEF Alarm, Kept, TypeOK, Clean, Saved, Time
    <2>3. CASE ~expired(core, now)
      <3>1. PICK k \in tick(core, now) :
              /\ core' = [k EXCEPT !.dirty = FALSE]
              /\ IF k.dirty THEN persist(k) ELSE stored' = stored /\ alarm' = Never
        BY <1>7, <2>3 DEF Alarm
      <3>2. k \in RoomCore /\ Accounted(core, k)
        BY <1>0, <2>1, TickAccounted
      <3>3. CASE k.dirty
        <4>1. apply(k)
          BY <3>1, <3>3 DEF apply
        <4>2. QED
          BY <2>1, <3>2, <4>1, HandlerKept DEF Kept, TypeOK
      <3>4. CASE ~k.dirty
        <4>1. /\ core' \in RoomCore /\ core' # NoRoom /\ ~core'.dirty
              /\ persisted(core') = persisted(core) /\ stored' = stored /\ alarm' = Never
          BY <3>1, <3>2, <3>4, RoomAssumption DEF Accounted, RoomCore, persisted
        <4>2. QED
          BY <2>1, <4>1 DEF Kept, TypeOK, Clean, Saved, Time
      <3>5. QED
        BY <3>3, <3>4
    <2>4. QED
      BY <2>2, <2>3
  <1>8. CASE Hibernate \/ Restart
    <2>1. /\ core # NoRoom /\ stored = persisted(core) /\ stored \in Persisted
          /\ core.members \cup closing \subseteq Conn /\ attachedAt \in [Conn -> Nat]
      BY <1>0, <1>8, PersistedType DEF Hibernate, Restart, Kept, TypeOK, Saved, RoomCore
    <2>2. PICK S \in SUBSET Conn : core' = restore(stored, S, attachedAt)
      BY <1>8, <2>1 DEF Hibernate, Restart
    <2>3. /\ core' \in RoomCore /\ persisted(core') = stored /\ ~core'.dirty
          /\ core' # NoRoom
      BY <2>1, <2>2, RestoreType, RoomAssumption
    <2>4. /\ stored' = stored /\ alarm' = alarm /\ now' = now /\ closing' = {}
          /\ attachedAt' \in [Conn -> Nat] /\ restarts' \in Nat
      BY <1>8, <2>1 DEF Hibernate, Restart, Kept, TypeOK
    <2>5. QED
      BY <2>3, <2>4 DEF Kept, TypeOK, Clean, Saved
  <1>9. CASE Advance \/ UNCHANGED vars
    BY <1>9 DEF Advance, vars, Kept, TypeOK, Clean, Saved
  <1>10. QED
    BY <1>1, <1>6, <1>7, <1>8, <1>9 DEF Next

LEMMA KeptAlways == Spec => []Kept
  <1>1. Init => Kept
    BY DEF Init, Kept, TypeOK, Clean, Saved, Time, Never
  <1>2. Kept /\ [Next]_vars => Kept'
    BY NextKept
  <1>3. QED
    BY <1>1, <1>2, PTL DEF Spec

(* Every variable of the object keeps its type (RoomCore, together-core.ts). *)
THEOREM RoomTypes == Spec => []TypeOK
  BY KeptAlways, PTL DEF Kept

(* Storage and the alarm always match the room in memory (persist, apply):   *)
(* no handler forgets to save, and no alarm is spent without setting the     *)
(* next one.  A wake-up that seats a socket being closed leaves the alarm of *)
(* the room without it.                                                      *)
THEOREM RoomSaved ==
    ASSUME ~WakesClosing
    PROVE  Spec => []StorageCurrent
  BY Invariance, PTL DEF IInv

(* At most MAX_CAP people, one connection each (join, restore), as long as   *)
(* the object does not sleep while a refused or replaced socket is being     *)
(* closed: the constructor would seat that one again.                        *)
THEOREM RoomSeats ==
    ASSUME ~WakesClosing
    PROVE  Spec => []OneSeatPerPerson
  BY Invariance, PTL DEF IInv

(* The absence clocks never run for people who are present (join, leave,     *)
(* transferHost), under the same condition.                                  *)
THEOREM RoomClocks ==
    ASSUME ~WakesClosing
    PROVE  Spec => []AbsenceClocks
  BY Invariance, PTL DEF IInv

-------------------------------------------------------------------------------
(* The timeline only moves to new versions *)

NewVersion(k, r) ==
    /\ r.timeline.seq >= k.timeline.seq
    /\ r.timeline # k.timeline => r.timeline.seq > k.timeline.seq

LEMMA CommandVersions ==
    ASSUME NEW k \in RoomCore
    PROVE  /\ NewVersion(k, play(k)) /\ NewVersion(k, pause(k)) /\ NewVersion(k, seek(k))
           /\ \A auto \in BOOLEAN : NewVersion(k, load(k, auto))
           /\ NewVersion(k, anchorToHost(k)) /\ NewVersion(k, k)
  <1>1. k.timeline.seq \in Nat
    BY DEF RoomCore, Timeline
  <1> DEFINE next == k.timeline.seq + 1
  <1>a. play(k).timeline.seq = next
    BY DEF play, RoomCore, Timeline
  <1>b. pause(k).timeline.seq = next
    BY DEF pause, RoomCore, Timeline
  <1>c. seek(k).timeline.seq = next
    BY DEF seek, RoomCore, Timeline
  <1>d. next \in Nat /\ next > k.timeline.seq
    BY <1>1
  <1> HIDE DEF next
  <1>2. NewVersion(k, play(k))
    BY <1>1, <1>a, <1>d DEF NewVersion
  <1>3. NewVersion(k, pause(k)) /\ NewVersion(k, seek(k))
    BY <1>1, <1>b, <1>c, <1>d DEF NewVersion
  <1>4. \A auto \in BOOLEAN : NewVersion(k, load(k, auto))
    BY <1>1 DEF load, NewVersion, RoomCore
  <1>5. NewVersion(k, anchorToHost(k)) /\ NewVersion(k, k)
    BY <1>1 DEF anchorToHost, NewVersion, RoomCore, Timeline
  <1>6. QED
    BY <1>2, <1>3, <1>4, <1>5

LEMMA StartVersions ==
    ASSUME NEW k \in RoomCore, NEW r \in RoomCore, NEW t \in Nat, r.timeline = k.timeline
    PROVE  NewVersion(k, maybeAutoStart(r, t))
  <1>1. NewVersion(r, play(r)) /\ NewVersion(r, r)
    BY CommandVersions
  <1>2. QED
    BY <1>1 DEF maybeAutoStart, NewVersion

LEMMA ReportVersions ==
    ASSUME NEW k \in RoomCore, NEW c \in Conn, NEW s \in MEMBER_STATES, NEW t \in Nat
    PROVE  NewVersion(k, report(k, c, s, t))
  <1> DEFINE reported == [k EXCEPT !.report[c] = s]
             armed == [reported EXCEPT !.hostReadyAt = t, !.dirty = TRUE]
  <1>1. /\ reported \in RoomCore /\ reported.timeline = k.timeline
        /\ armed \in RoomCore /\ armed.timeline = k.timeline
    BY DEF RoomCore, Time
  <1>2. report(k, c, s, t) \in {k, maybeAutoStart(armed, t), maybeAutoStart(reported, t)}
    BY DEF report
  <1> HIDE DEF reported, armed
  <1>3. NewVersion(k, maybeAutoStart(armed, t)) /\ NewVersion(k, maybeAutoStart(reported, t))
    BY <1>1, StartVersions
  <1>4. QED
    BY <1>2, <1>3, CommandVersions

LEMMA SettingsVersions ==
    ASSUME NEW k \in RoomCore
    PROVE  /\ \A m \in {"sync", "free"} : NewVersion(k, setMode(k, m))
           /\ \A x \in {"host", "all"} : setControl(k, x).timeline = k.timeline
           /\ \A l \in SUBSET User : invite(k, l).timeline = k.timeline
           /\ inviteAll(k).timeline = k.timeline
           /\ \A u \in User : transferHost(k, u).timeline = k.timeline
  <1>1. ASSUME NEW m \in {"sync", "free"} PROVE NewVersion(k, setMode(k, m))
    <2> DEFINE switched == [k EXCEPT !.settings.mode = m, !.dirty = TRUE]
    <2>1. switched \in RoomCore /\ switched.timeline = k.timeline
      BY DEF RoomCore, Settings
    <2>2. setMode(k, m) \in {k, switched, anchorToHost(switched)}
      BY DEF setMode
    <2> HIDE DEF switched
    <2>3. /\ NewVersion(switched, anchorToHost(switched)) /\ NewVersion(switched, switched)
          /\ NewVersion(k, k)
      BY <2>1, CommandVersions
    <2>4. QED
      BY <2>1, <2>2, <2>3 DEF NewVersion
  <1>2. QED
    BY <1>1 DEF setControl, invite, inviteAll, transferHost, RoomCore

LEMMA LeaveTimeline ==
    ASSUME NEW k \in RoomCore, NEW c \in Conn, NEW t \in Nat
    PROVE  leave(k, c, t).timeline = k.timeline
  BY DEF leave, RoomCore

(* What a step of the object does to the timeline. *)
LEMMA StepVersions ==
    ASSUME Kept, [Next]_vars, core # NoRoom, core' # NoRoom
    PROVE  NewVersion(core, core')
  <1>1. /\ core \in RoomCore /\ now \in Nat /\ NewVersion(core, core)
    BY CommandVersions DEF Kept, TypeOK
  <1>2. ASSUME NEW k \in RoomCore, NewVersion(core, k),
               core' = [k EXCEPT !.dirty = FALSE]
        PROVE  NewVersion(core, core')
    <2>1. core'.timeline = k.timeline
      BY <1>2 DEF RoomCore
    <2>2. QED
      BY <1>2, <2>1 DEF NewVersion
  <1>3. ASSUME NEW k \in RoomCore, k.timeline = core.timeline,
               core' = [k EXCEPT !.dirty = FALSE]
        PROVE  NewVersion(core, core')
    <2>1. NewVersion(core, k)
      BY <1>1, <1>3 DEF NewVersion
    <2>2. QED
      BY <1>2, <1>3, <2>1
  <1>4. ASSUME NEW c \in Conn, Connect(c) PROVE NewVersion(core, core')
    <2>1. join(core, c, now) \in RoomCore
      BY <1>1, JoinType
    <2>2. join(core, c, now).timeline = core.timeline
      BY <1>1, JoinFields
    <2>3. core' \in {core, [join(core, c, now) EXCEPT !.dirty = FALSE]}
      BY <1>4 DEF Connect, apply
    <2>4. QED
      BY <1>1, <1>3, <2>1, <2>2, <2>3
  <1>5. ASSUME NEW c \in Conn, Drop(c) PROVE NewVersion(core, core')
    <2>1. leave(core, c, now) \in RoomCore /\ leave(core, c, now).timeline = core.timeline
      BY <1>1, LeaveType, LeaveTimeline
    <2>2. QED
      BY <1>3, <1>5, <2>1 DEF Drop, apply
  <1>6. ASSUME NEW c \in Conn,
               Play(c) \/ Pause(c) \/ Seek(c) \/ \E auto \in BOOLEAN : Load(c, auto)
        PROVE  NewVersion(core, core')
    BY <1>1, <1>2, <1>6, CommandVersions, TimelineTypes
       DEF Play, Pause, Seek, Load, Handle, apply
  <1>7. ASSUME NEW c \in Conn, NEW s \in Reported, Report(c, s)
        PROVE  NewVersion(core, core')
    BY <1>1, <1>2, <1>7, ReportVersions, ReportType, RoomAssumption
       DEF Report, Handle, apply
  <1>8. ASSUME NEW c \in Conn, NEW m \in {"sync", "free"}, SetMode(c, m)
        PROVE  NewVersion(core, core')
    BY <1>1, <1>2, <1>8, SettingsVersions, SettingsTypes DEF SetMode, Handle, apply
  <1>9. ASSUME NEW c \in Conn, NEW x \in {"host", "all"}, SetControl(c, x) \/ InviteAll(c)
        PROVE  NewVersion(core, core')
    BY <1>1, <1>3, <1>9, SettingsVersions, SettingsTypes
       DEF SetControl, InviteAll, Handle, apply
  <1>10. ASSUME NEW c \in Conn, NEW ids \in Invitees, Invite(c, ids)
         PROVE  NewVersion(core, core')
    <2>1. PICK list \in invitations(core, ids) : Handle(invite(core, list))
      BY <1>10 DEF Invite
    <2>2. ids \in SUBSET User /\ core.settings.allowed \in SUBSET User
      BY <1>1, RoomAssumption DEF RoomCore, Settings
    <2>3. list \in SUBSET User
      BY <2>2 DEF invitations
    <2>4. QED
      BY <1>1, <1>3, <2>1, <2>3, SettingsVersions, SettingsTypes DEF Handle, apply
  <1>11. ASSUME NEW c \in Conn, NEW u \in User, GiveHost(c, u)
         PROVE  NewVersion(core, core')
    BY <1>1, <1>3, <1>11, SettingsVersions, TransferType DEF GiveHost, Handle, apply
  <1>12. CASE Alarm
    <2>1. PICK k \in tick(core, now) : core' = [k EXCEPT !.dirty = FALSE]
      BY <1>12 DEF Alarm
    <2>2. oldest(core) \subseteq Conn
      BY <1>1 DEF oldest, RoomCore
    <2>3. \/ k = play(core) \/ k = core
          \/ \E c \in oldest(core) : k = transferHost(core, Owner[c])
      BY <2>1 DEF tick
    <2>4. CASE k = play(core) \/ k = core
      BY <1>1, <1>2, <2>1, <2>4, CommandVersions, TimelineTypes
    <2>5. CASE \E c \in oldest(core) : k = transferHost(core, Owner[c])
      BY <1>1, <1>3, <2>1, <2>2, <2>5, TransferType, SettingsVersions, CoreAssumption
    <2>6. QED
      BY <2>3, <2>4, <2>5
  <1>13. CASE Hibernate \/ Restart
    <2>1. stored = persisted(core)
      BY <1>13 DEF Kept, Saved, Hibernate, Restart
    <2>2. core'.timeline = stored.timeline
      BY <1>13 DEF Hibernate, Restart, restore
    <2>3. core'.timeline = core.timeline
      BY <2>1, <2>2 DEF persisted
    <2>4. QED
      BY <1>1, <2>3 DEF NewVersion
  <1>14. CASE Advance \/ UNCHANGED vars
    BY <1>1, <1>14 DEF Advance, vars
  <1>15. CASE \E s \in OpenSettings : Open(s)
    BY <1>15 DEF Open
  <1>16. CASE Member
    BY <1>4, <1>5, <1>6, <1>7, <1>8, <1>9, <1>10, <1>11, <1>16 DEF Member
  <1>17. QED
    BY <1>12, <1>13, <1>14, <1>15, <1>16 DEF Next

(* A change of the timeline is a new version and no version is ever taken    *)
(* back, through commands, automatic starts, sleep and restarts: what a      *)
(* client needs to keep the newest state by its seq alone (acceptState).     *)
THEOREM RoomVersions == Spec => TimelineVersioned
  <1>1. Kept /\ [Next]_vars =>
          [(core # NoRoom /\ core' # NoRoom) =>
             /\ core'.timeline.seq >= core.timeline.seq
             /\ core'.timeline # core.timeline => core'.timeline.seq > core.timeline.seq]_vars
    BY StepVersions DEF NewVersion
  <1>2. QED
    BY <1>1, KeptAlways, PTL DEF Spec, TimelineVersioned

-------------------------------------------------------------------------------
(* Stopping *)

(* Whoever watches goes on watching. *)
PlaysOn(k, l) == k.timeline.playing => l.timeline.playing

(* Every operation but pause and load. *)
LEMMA CommandPlays ==
    ASSUME NEW k \in RoomCore
    PROVE  /\ PlaysOn(k, play(k))
           /\ seek(k).timeline.playing = k.timeline.playing
           /\ anchorToHost(k).timeline.playing = k.timeline.playing
  BY DEF play, seek, anchorToHost, PlaysOn, RoomCore, Timeline

LEMMA ReportPlays ==
    ASSUME NEW k \in RoomCore, NEW c \in Conn, NEW s \in MEMBER_STATES, NEW t \in Nat
    PROVE  PlaysOn(k, report(k, c, s, t))
  <1> DEFINE reported == [k EXCEPT !.report[c] = s]
             armed == [reported EXCEPT !.hostReadyAt = t, !.dirty = TRUE]
  <1>1. reported \in RoomCore /\ reported.timeline = k.timeline
    BY DEF RoomCore
  <1>2. armed \in RoomCore /\ armed.timeline = k.timeline
    BY <1>1 DEF RoomCore, Time
  <1>3. report(k, c, s, t) \in {k, reported, armed, play(reported), play(armed)}
    BY DEF report, maybeAutoStart
  <1> HIDE DEF reported, armed
  <1>4. PlaysOn(reported, play(reported)) /\ PlaysOn(armed, play(armed))
    BY <1>1, <1>2, CommandPlays
  <1>5. QED
    BY <1>1, <1>2, <1>3, <1>4 DEF PlaysOn

LEMMA SettingsPlay ==
    ASSUME NEW k \in RoomCore, NEW m \in {"sync", "free"}
    PROVE  PlaysOn(k, setMode(k, m))
  <1> DEFINE switched == [k EXCEPT !.settings.mode = m, !.dirty = TRUE]
  <1>1. switched \in RoomCore /\ switched.timeline = k.timeline
    BY DEF RoomCore, Settings
  <1>2. setMode(k, m) \in {k, switched, anchorToHost(switched)}
    BY DEF setMode
  <1> HIDE DEF switched
  <1>3. anchorToHost(switched).timeline.playing = switched.timeline.playing
    BY <1>1, CommandPlays
  <1>4. QED
    BY <1>1, <1>2, <1>3 DEF PlaysOn

(* Every step of the object but the two commands that stop it. *)
LEMMA StepPlays ==
    ASSUME Kept, [Next]_vars, core # NoRoom, core' # NoRoom,
           core.timeline.playing, ~core'.timeline.playing
    PROVE  \E c \in Conn : Pause(c) \/ \E auto \in BOOLEAN : Load(c, auto)
  <1> SUFFICES ASSUME \A c \in Conn : ~Pause(c) /\ \A auto \in BOOLEAN : ~Load(c, auto)
               PROVE  core'.timeline.playing
    OBVIOUS
  <1>1. core \in RoomCore /\ now \in Nat
    BY DEF Kept, TypeOK
  <1>2. ASSUME NEW k \in RoomCore, PlaysOn(core, k), core' = [k EXCEPT !.dirty = FALSE]
        PROVE  core'.timeline.playing
    <2>1. core'.timeline = k.timeline
      BY <1>2 DEF RoomCore
    <2>2. QED
      BY <1>2, <2>1 DEF PlaysOn
  <1>3. ASSUME NEW k \in RoomCore, k.timeline = core.timeline,
               core' = [k EXCEPT !.dirty = FALSE]
        PROVE  core'.timeline.playing
    BY <1>2, <1>3 DEF PlaysOn
  <1>4. ASSUME NEW c \in Conn, Connect(c) PROVE core'.timeline.playing
    <2>1. join(core, c, now) \in RoomCore
      BY <1>1, JoinType
    <2>2. join(core, c, now).timeline = core.timeline
      BY <1>1, JoinFields
    <2>3. core' \in {core, [join(core, c, now) EXCEPT !.dirty = FALSE]}
      BY <1>4 DEF Connect, apply
    <2>4. QED
      BY <1>3, <2>1, <2>2, <2>3
  <1>5. ASSUME NEW c \in Conn, Drop(c) PROVE core'.timeline.playing
    <2>1. leave(core, c, now) \in RoomCore /\ leave(core, c, now).timeline = core.timeline
      BY <1>1, LeaveType, LeaveTimeline
    <2>2. QED
      BY <1>3, <1>5, <2>1 DEF Drop, apply
  <1>6. ASSUME NEW c \in Conn, Play(c) \/ Seek(c) PROVE core'.timeline.playing
    <2>1. /\ play(core) \in RoomCore /\ PlaysOn(core, play(core))
          /\ seek(core) \in RoomCore /\ PlaysOn(core, seek(core))
      BY <1>1, TimelineTypes, CommandPlays DEF PlaysOn
    <2>2. QED
      BY <1>2, <1>6, <2>1 DEF Play, Seek, Handle, apply
  <1>7. ASSUME NEW c \in Conn, NEW s \in Reported, Report(c, s)
        PROVE  core'.timeline.playing
    BY <1>1, <1>2, <1>7, ReportPlays, ReportType, RoomAssumption
       DEF Report, Handle, apply
  <1>8. ASSUME NEW c \in Conn, NEW m \in {"sync", "free"}, SetMode(c, m)
        PROVE  core'.timeline.playing
    BY <1>1, <1>2, <1>8, SettingsPlay, SettingsTypes DEF SetMode, Handle, apply
  <1>9. ASSUME NEW c \in Conn, NEW x \in {"host", "all"}, SetControl(c, x) \/ InviteAll(c)
        PROVE  core'.timeline.playing
    BY <1>1, <1>3, <1>9, SettingsVersions, SettingsTypes
       DEF SetControl, InviteAll, Handle, apply
  <1>10. ASSUME NEW c \in Conn, NEW ids \in Invitees, Invite(c, ids)
         PROVE  core'.timeline.playing
    <2>1. PICK list \in invitations(core, ids) : Handle(invite(core, list))
      BY <1>10 DEF Invite
    <2>2. ids \in SUBSET User /\ core.settings.allowed \in SUBSET User
      BY <1>1, RoomAssumption DEF RoomCore, Settings
    <2>3. list \in SUBSET User
      BY <2>2 DEF invitations
    <2>4. QED
      BY <1>1, <1>3, <2>1, <2>3, SettingsVersions, SettingsTypes DEF Handle, apply
  <1>11. ASSUME NEW c \in Conn, NEW u \in User, GiveHost(c, u)
         PROVE  core'.timeline.playing
    BY <1>1, <1>3, <1>11, SettingsVersions, TransferType DEF GiveHost, Handle, apply
  <1>12. CASE Alarm
    <2>1. PICK k \in tick(core, now) : core' = [k EXCEPT !.dirty = FALSE]
      BY <1>12 DEF Alarm
    <2>2. oldest(core) \subseteq Conn
      BY <1>1 DEF oldest, RoomCore
    <2>3. \/ k = play(core) \/ k = core
          \/ \E c \in oldest(core) : k = transferHost(core, Owner[c])
      BY <2>1 DEF tick
    <2>4. CASE k = play(core)
      BY <1>1, <1>2, <2>1, <2>4, CommandPlays, TimelineTypes
    <2>5. CASE k = core
      BY <1>1, <1>3, <2>1, <2>5
    <2>6. CASE \E c \in oldest(core) : k = transferHost(core, Owner[c])
      BY <1>1, <1>3, <2>1, <2>2, <2>6, TransferType, SettingsVersions, CoreAssumption
    <2>7. QED
      BY <2>3, <2>4, <2>5, <2>6
  <1>13. CASE Hibernate \/ Restart
    <2>1. stored = persisted(core)
      BY <1>13 DEF Kept, Saved, Hibernate, Restart
    <2>2. core'.timeline = stored.timeline
      BY <1>13 DEF Hibernate, Restart, restore
    <2>3. QED
      BY <2>1, <2>2 DEF persisted
  <1>14. CASE Advance \/ UNCHANGED vars
    BY <1>14 DEF Advance, vars
  <1>15. CASE \E s \in OpenSettings : Open(s)
    BY <1>15 DEF Open
  <1>16. CASE Member
    BY <1>4, <1>5, <1>6, <1>7, <1>8, <1>9, <1>10, <1>11, <1>16 DEF Member
  <1>17. QED
    BY <1>12, <1>13, <1>14, <1>15, <1>16 DEF Next

(* A playing room stops only at a pause or a new episode of somebody inside  *)
(* who may command: no report of a slow player, no departure, change of      *)
(* host, automatic start, sleep or restart stops the others.                 *)
THEOREM RoomStopsByCommand == Spec => StopsOnlyByCommand
  <1> DEFINE Stops ==
        (core # NoRoom /\ core' # NoRoom /\ core.timeline.playing /\ ~core'.timeline.playing)
        => \E c \in core.members :
              canControl(core, c) /\ (Pause(c) \/ \E auto \in BOOLEAN : Load(c, auto))
  <1>1. ASSUME NEW c \in Conn, Pause(c) \/ \E auto \in BOOLEAN : Load(c, auto)
        PROVE  c \in core.members /\ canControl(core, c)
    BY <1>1 DEF Pause, Load, Commanding, Inside
  <1>2. Kept /\ [Next]_vars => Stops
    BY <1>1, StepPlays
  <1>3. Kept /\ [Next]_vars => [Stops]_vars
    BY <1>2
  <1>4. QED
    BY <1>3, KeptAlways, PTL DEF Spec, StopsOnlyByCommand
===============================================================================
