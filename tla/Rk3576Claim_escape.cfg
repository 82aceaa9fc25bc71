SPECIFICATION Spec
CONSTANTS
    N = 2
    Ops <- ValidOps
    InputDim = 5
    K = 3
    Strides = {1}
    Pads <- BothPad
    PadOutputs = TRUE
INVARIANTS
    OutputsHaveLayers
CHECK_DEADLOCK FALSE
