\* One daemon with every configuration, from READY to its end.
SPECIFICATION FairSpec
CONSTANTS
    Objects = {o}
    Second = 2
    TransferAfterSec = 0
    MaxNow = 10
    MaxStepBack = 1
    Transfers = {t}
    MaxAddresses = 2
INVARIANTS
    TypeOK
    NothingForgotten
    AnnouncedInTime
    AnnouncesWhatItServes
    CrashOnlyWhenStopping
PROPERTIES
    AnnouncedOncePerChange
    StopEnds
    ImplementsTimer
\* The process ends.
CHECK_DEADLOCK FALSE
