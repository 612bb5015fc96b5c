\* One source and one receive-only computer; messages, transfers and daemons
\* fail.
SPECIFICATION Spec
CONSTANTS
    Nodes = {p, s}
    Files = {f, g}
    Ids = {i1, i2, i3, i4}
    NoName = NoName
    SendOnly = {p}
    ReceiveOnly = {s}
    Latest = {}
    DeleteApply = {p, s}
    Users = {p}
    Faults = TRUE
    Overtaking = FALSE
    MaxClock = 2
    MaxEvents = 2
    MaxMessages = 1
    MaxReceivers = 1
SYMMETRY Symmetry
INVARIANTS
    TypeOK
    OneEntryPerName
    LocalChangeNotLost
PROPERTIES
    SoleUserKeepsFiles
    ImplementsReplica
\* A cluster where no service writes and no daemon has work left just waits.
CHECK_DEADLOCK FALSE
