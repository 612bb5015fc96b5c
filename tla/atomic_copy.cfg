\* Two transfers of a file that services only replace, nothing breaks, and the
\* sockets take whatever is written.
SPECIFICATION Spec
CONSTANTS
    Conns = {c1, c2}
    Writes = {"replace"}
    Faults = {}
    Cuts = {}
    SocketBuffer = 7
    BufferSize = 2
    SizeLimit = 4
    MaxSize = 3
    MaxClock = 3
INVARIANTS
    InstalledAsRead
    UndisturbedSucceeds
    NoStrayTemp
PROPERTIES
    ImplementsAtomicCopy
\* The connections are used once.
CHECK_DEADLOCK FALSE
