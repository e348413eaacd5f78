SPECIFICATION Spec
CONSTANTS
    Node = {n1, n2, n3, n4}
    NULL = NULL
SYMMETRY Symmetric
INVARIANTS TypeOK RingsAreRings
PROPERTIES KeepsLists
CHECK_DEADLOCK FALSE
