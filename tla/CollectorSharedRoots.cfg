SPECIFICATION Spec
CONSTANTS
    Object = {o1, o2}
    Low = {}
    Handle = {h1, h2, h3}
    Type = {t1}
    NULL = NULL
    MaxRoots = 3
    MaxWords = 1
    ZeroFill = TRUE
SYMMETRY Symmetric
VIEW Seen
INVARIANTS OnOneList RedNotScanned RootsAreKept CrashNeedsSharedRoot
CHECK_DEADLOCK FALSE
