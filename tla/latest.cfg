\* Two computers in path_mode=latest, services on both, transfers that overtake
\* each other.
SPECIFICATION Spec
CONSTANTS
    Nodes = {a, b}
    Files = {f}
    Ids = {i1, i2, i3, i4}
    NoName = NoName
    SendOnly = {}
    ReceiveOnly = {}
    Latest = {a, b}
    DeleteApply = {a, b}
    Users = {a, b}
    Faults = FALSE
    Overtaking = TRUE
    MaxClock = 2
    MaxEvents = 2
    MaxMessages = 2
    MaxReceivers = 2
SYMMETRY Symmetry
INVARIANTS
    OneEntryPerName
    LocalChangeNotLost
    KnownOrNoticed
\* A cluster where no service writes and no daemon has work left just waits.
CHECK_DEADLOCK FALSE
