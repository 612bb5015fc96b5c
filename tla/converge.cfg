\* One source and one receive-only computer, without failures.
SPECIFICATION FairSpec
CONSTANTS
    Nodes = {p, s}
    Files = {f}
    Ids = {i1, i2, i3, i4}
    NoName = NoName
    SendOnly = {p}
    ReceiveOnly = {s}
    Latest = {}
    DeleteApply = {p}
    Users = {p}
    Faults = FALSE
    Overtaking = FALSE
    MaxClock = 3
    MaxEvents = 2
    MaxMessages = 3
    MaxReceivers = 2
INVARIANTS
    QuietConverged
PROPERTIES
    EventuallyReplicated
\* A cluster where no service writes and no daemon has work left just waits.
CHECK_DEADLOCK FALSE
