SPECIFICATION Spec
CONSTANTS
    N = 2
    Ops <- PoolOps
    InputDim = 5
    K = 3
    Strides = {1}
    Pads <- BothPad
    PadOutputs = FALSE
INVARIANTS
    FoldKeepsDivisor
CHECK_DEADLOCK FALSE
