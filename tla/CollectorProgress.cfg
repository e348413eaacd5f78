SPECIFICATION FairSpec
CONSTANTS
    Object = {o1, o2}
    Low = {o1}
    Handle = {h1}
    Type = {t1}
    NULL = NULL
    MaxRoots = 1
    MaxWords = 1
    ZeroFill = FALSE
PROPERTIES CycleAdvances CycleEnds GarbageIsReclaimed
CHECK_DEADLOCK FALSE
