SPECIFICATION Spec
CONSTANTS
    NumNodes = 4
    Kind <- MixedPartition
    Planes = {4, 6, 8}
    Batches = {1, 4}
    NativeInt8 = TRUE
    FcNpu = TRUE
    MmInt8 = TRUE
    PwMinM = 8
    MaxEvals = 1
INVARIANTS
    TypeOK
    ResourcesOwned
    NothingLeaks
    EvalReady
    NoDeviceNoNpuWork
CHECK_DEADLOCK FALSE
