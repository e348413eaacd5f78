SPECIFICATION Spec
CONSTANTS
    Client = {t1}
    GC = GC
    Cell = {c1, c2, c3}
    Pool = {c1, c2}
    Message = {m1, m2, m3}
    PastRace = TRUE
    NULL = NULL
INVARIANT TreatedOnce
CHECK_DEADLOCK FALSE
