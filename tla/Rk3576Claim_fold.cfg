SPECIFICATION Spec
CONSTANTS
    N = 3
    Ops <- ValidOps
    InputDim = 5
    K = 3
    Strides = {1, 2}
    Pads <- OnePad
    PadOutputs = FALSE
INVARIANTS
    TypeOK
    ClaimExact
    PadWithReaders
    ClaimLowers
    OutputsHaveLayers
PROPERTIES
    ClaimEnds
CHECK_DEADLOCK FALSE
