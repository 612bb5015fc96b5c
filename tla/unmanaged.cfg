\* As paths, with orders for any directory.
SPECIFICATION Spec
CONSTANTS
    Segments = {1, 2}
    PathModes = {"default", "receive-only", "latest", "other"}
    DeleteModes = {"default", "apply", "other"}
    MaxDepth = 2
    MaxSections = 2
INVARIANTS
    OnlyManagedPaths
\* A daemon without paths stops.
CHECK_DEADLOCK FALSE
