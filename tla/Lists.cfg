SPECIFICATION Spec
CONSTANTS
    a = a
    b = b
    n1 = n1
    n2 = n2
    n3 = n3
    n4 = n4
    h1 = h1
    h2 = h2
    NULL = NULL
    Nodes = {n1, n2, n3, n4}
    Handles = {h1, h2}
    Items = {a, b}
SYMMETRY Symmetry
VIEW StateView
CHECK_DEADLOCK FALSE
INVARIANTS
    TypeOK
    WellLinked
PROPERTIES
    ImplementsListSpec
    LossesAreKnown
