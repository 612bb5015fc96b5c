\* All orders to a daemon with any two sections, of paths two names deep.
SPECIFICATION Spec
CONSTANTS
    Segments = {1, 2}
    PathModes = {"default", "receive-only", "latest", "other"}
    DeleteModes = {"", "apply", "other"}
    MaxDepth = 2
    MaxSections = 2
INVARIANTS
    TypeOK
    OwnSectionDecides
\* A daemon without paths stops.
CHECK_DEADLOCK FALSE
