SPECIFICATION Spec
CONSTANTS
    N = 3
    Kinds <- AllKinds
    NchwResident = TRUE
INVARIANTS
    TypeOK
    ReadsFresh
    StorageBound
    OutputsDamped
CHECK_DEADLOCK FALSE
