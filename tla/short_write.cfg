\* As atomic_copy, with sockets that take a part of what is written.
SPECIFICATION Spec
CONSTANTS
    Conns = {c1}
    Writes = {"replace"}
    Faults = {}
    Cuts = {}
    SocketBuffer = 3
    BufferSize = 2
    SizeLimit = 4
    MaxSize = 3
    MaxClock = 2
INVARIANTS
    UndisturbedSucceeds
\* The connections are used once.
CHECK_DEADLOCK FALSE
