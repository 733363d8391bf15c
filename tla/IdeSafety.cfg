CONSTANTS
    LbaLow = 3
    LbaHigh = 2
    Sectors = 5
    MaxPortion = 2
SPECIFICATION Spec
INVARIANTS
    TypeOK
    OnlyDisksRegistered
    ReadIsRight
PROPERTIES
    WritesWhereAsked
    FailureIsReal
    EveryCallEnds
CHECK_DEADLOCK FALSE
