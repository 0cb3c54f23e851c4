CONSTANTS
    a = a  b = b  c = c
    a1 = a1  a2 = a2  b1 = b1  b2 = b2  c1 = c1
    User = {a, b}
    Conn = {a1, b1}
    Owner <- mcOwner
    NoRoom = NoRoom
    Creator = a
    OpenSettings <- mcBoth
    Reported = {"preparing", "ready", "buffering"}
    Invitees = {}
    MAX_CAP = 2
    HOST_GRACE_MS = 1
    EMPTY_TTL_MS = 2
    AUTOSTART_MS = 1
    MaxTime = 3
    MaxSeq = 2
    MaxRestarts = 0
    WakesClosing = FALSE
SPECIFICATION FairSpec
PROPERTIES
    TimelineVersioned
    StopsOnlyByCommand
    EmptyRoomDeleted
    AbsentHostReplaced
    NextEpisodeStarts
CHECK_DEADLOCK FALSE
