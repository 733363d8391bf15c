CONSTANTS
    MaxEvents = 3
    Discards <- MCDiscards
SPECIFICATION Spec
INVARIANT
    StuckOnlyFromBoot
PROPERTIES
    ScancodesInOrder
    WantedIsReturned
