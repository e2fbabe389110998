SPECIFICATION Spec
CONSTANTS
    LISTMIN = 1
    NODEMIN = 3
    MaxLists = 1
    MaxNodes = 7
    Refused = {}
CHECK_DEADLOCK FALSE
INVARIANTS
    IndexLeadsToStruct
