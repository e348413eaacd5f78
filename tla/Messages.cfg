SPECIFICATION FairSpec
CONSTANTS
    Client = {t1, t2}
    GC = GC
    Cell = {c1, c2, c3}
    Pool = {c1, c2}
    Message = {m1, m2, m3}
    PastRace = FALSE
    NULL = NULL
INVARIANTS TypeOK EachCellOnce
PROPERTIES KeepsQueue Arrives
CHECK_DEADLOCK FALSE
