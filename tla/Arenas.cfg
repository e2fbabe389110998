SPECIFICATION Spec
CONSTANTS
    LISTMIN = 1
    NODEMIN = 3
    MaxLists = 2
    MaxNodes = 7
    Refused = {"init", "grow", "shrink"}
CHECK_DEADLOCK FALSE
INVARIANTS
    TypeOK
    HandlesFind
    FreeListsAccount
PROPERTIES
    OnlyGrowthFaults
    OnlyRefusalFaults
