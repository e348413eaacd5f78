SPECIFICATION ListFairSpec
CONSTANTS
    Thread = {m, t1, t2}
    Main = m
    GC = GC
    NULL = NULL
    Stepping = {t1}
    Leaving = {m, t2}
    Cell = {c1, c2, c3}
INVARIANTS TypeOK ListTypeOK StackStandsStill LeavesUnseen ListHoldsAttached ScanMeetsAll LostByLeavingOnly
PROPERTIES ListStandsStill CollectorNotStarved
CHECK_DEADLOCK FALSE
