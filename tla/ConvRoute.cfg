CONSTANTS
    Shapes <- MCShapes
    OptionSets <- MCOptionSets
SPECIFICATION RouteSpec
INVARIANTS
    RouteTypeOK
    OperandsPacked
    ResidencyAgrees
    RunsAsClaimed
CHECK_DEADLOCK FALSE
