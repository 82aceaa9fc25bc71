SPECIFICATION Spec
CONSTANTS
    N = 2
    Ops <- SameOps
    InputDim = 5
    K = 3
    Strides = {1, 2}
    Pads <- OnePad
    PadOutputs = FALSE
INVARIANTS
    ClaimLowers
CHECK_DEADLOCK FALSE
