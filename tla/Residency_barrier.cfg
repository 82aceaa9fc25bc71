SPECIFICATION Spec
CONSTANTS
    N = 3
    Kinds <- BarrierKinds
    NchwResident = TRUE
INVARIANTS
    LastConvReadsRequantized
CHECK_DEADLOCK FALSE
