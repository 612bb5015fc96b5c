\* Two computers in path_mode=latest, services on both, no deletions applied.
SPECIFICATION Spec
CONSTANTS
    Nodes = {a, b}
    Files = {f}
    Ids = {i1, i2, i3, i4}
    NoName = NoName
    SendOnly = {}
    ReceiveOnly = {}
    Latest = {a, b}
    DeleteApply = {}
    Users = {a, b}
    Faults = FALSE
    Overtaking = FALSE
    MaxClock = 2
    MaxEvents = 2
    MaxMessages = 2
    MaxReceivers = 1
SYMMETRY Symmetry
PROPERTIES
    LatestNeverGoesBack
\* A cluster where no service writes and no daemon has work left just waits.
CHECK_DEADLOCK FALSE
