SPECIFICATION Spec
CONSTANTS
    Half = 2
    Lane = 2
    Layers <- MCLayers
    Biases <- MCBiases
    Samples <- MCSamples
INVARIANTS
    TypeOK
    DriverAgrees
    TapsInside
    AccumulatorsExact
