SPECIFICATION Spec
CONSTANTS
    Object = {o1, o2, o3}
    Recognised = {o1, o2, o3}
    Field = {f1}
    Thread = {t1}
    NULL = NULL
    MaxQueue = 1
    MaxStack = 2
    MaxInUse = 2
    MaxManual = 1
SYMMETRY Symmetric
VIEW Seen
INVARIANTS TypeOK OnePlace LostByEscapeOnly
PROPERTIES CrashByHandleOnly RedForgottenOnScanOnly
CHECK_DEADLOCK FALSE
