CONSTANTS
    a = a  b = b  c = c
    a1 = a1  a2 = a2  b1 = b1  b2 = b2  c1 = c1
    User = {a, b, c}
    Conn = {a1, b1, b2, c1}
    Owner <- mcOwner
    NoRoom = NoRoom
    Creator = a
    OpenSettings <- mcListed
    Reported = {"ready"}
    Invitees = {{c}}
    MAX_CAP = 2
    HOST_GRACE_MS = 1
    EMPTY_TTL_MS = 2
    AUTOSTART_MS = 1
    MaxTime = 3
    MaxSeq = 0
    MaxRestarts = 1
    WakesClosing = FALSE
SYMMETRY mcSymmetry
SPECIFICATION Spec
INVARIANTS
    StorageCurrent
    OneSeatPerPerson
CHECK_DEADLOCK FALSE
