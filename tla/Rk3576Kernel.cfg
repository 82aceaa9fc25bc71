SPECIFICATION Spec
CONSTANTS
    N = 4
    LayerKinds <- AllKinds
    MaxEvals = 1
INVARIANTS
    TypeOK
    OperandsFresh
    OutputsWritten
    RefusalUnreached
    PlanBorrows
    LayersCounted
CHECK_DEADLOCK FALSE
