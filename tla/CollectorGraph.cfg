SPECIFICATION Spec
CONSTANTS
    Object = {o1, o2, o3}
    Low = {}
    Handle = {h1}
    Type = {t1}
    NULL = NULL
    MaxRoots = 1
    MaxWords = 2
    ZeroFill = TRUE
SYMMETRY Symmetric
VIEW Seen
INVARIANTS TypeOK NoDangling
PROPERTIES OnlyGarbageIsFreed MarksExactly BarrierFiresInCallbackOnly LostByLeakSearchOnly KeepsContract
CHECK_DEADLOCK FALSE
