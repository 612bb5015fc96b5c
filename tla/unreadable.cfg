\* A file that the daemon may not read is moved to the name.
SPECIFICATION Spec
CONSTANTS
    Conns = {c1}
    Writes = {"replace", "restrict"}
    Faults = {}
    Cuts = {}
    SocketBuffer = 3
    BufferSize = 2
    SizeLimit = 4
    MaxSize = 3
    MaxClock = 2
INVARIANTS
    WriterIsOpen
\* The connections are used once.
CHECK_DEADLOCK FALSE
