\* A transfer of a file that services write in every way, with every failure and
\* small socket buffers.
SPECIFICATION FairSpec
CONSTANTS
    Conns = {c1}
    Writes = {"replace", "rewrite", "truncate", "remove", "restrict"}
    Faults = {"break", "write", "utimensat", "silence"}
    Cuts = {"request", "header", "names", "footer"}
    SocketBuffer = 3
    BufferSize = 2
    SizeLimit = 3
    MaxSize = 3
    MaxClock = 3
INVARIANTS
    TypeOK
    InstalledAsRead
    StraysOfHangups
PROPERTIES
    TransferEnds
\* The connections are used once.
CHECK_DEADLOCK FALSE
