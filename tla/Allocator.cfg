SPECIFICATION Spec
CONSTANTS
    HeaderBytes = 32
    SizeCount = 4
    MaxMemIndex = 3
    AreaWords = 12
    Prealloc = 1
    Request = {8, 9, 32}
    Place = {1, 9, 21, 33}
INVARIANTS TypeOK BlocksApart BlocksAreValid OnlyBlocksAreValid WalksEnd
CHECK_DEADLOCK FALSE
