SPECIFICATION Spec
CONSTANTS
    Nodes <- MCNodes
    MaxDrifts = 1
INVARIANTS
    TypeOK
    ClaimedAnswers
    DriftCaught
    AccessesInside
CHECK_DEADLOCK FALSE
