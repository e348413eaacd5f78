SPECIFICATION FairSpec
CONSTANTS
    Thread = {m}
    Main = m
    GC = GC
    NULL = NULL
    Stepping = {}
    Leaving = {m}
PROPERTIES CleanupReturns
CHECK_DEADLOCK FALSE
