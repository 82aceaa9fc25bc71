SPECIFICATION FanOutSpec
CONSTANTS
    MaxRows = 5
    MaxThreads = 4
    c1 = c1
    c2 = c2
    c3 = c3
    me = c1
    Others <- OtherInterpreters
    Calls = 1
    PerCall = 4
INVARIANTS
    TypeOK
    RowsOnce
    ReturnsComplete
    ProbeAgrees
    ExitReportsOnce
PROPERTIES
    ImplementsOnePass
    Finishes
CHECK_DEADLOCK FALSE
