CONSTANTS
    HeaderSize = 2
    EntrySize = 3
    HeapSize = 14
    Base = 15
    Requests <- MCRequests
SPECIFICATION Spec
CHECK_DEADLOCK FALSE
INVARIANTS
    TypeOK
    NoOverlap
    NoLeak
    WalkAssertsHold
PROPERTIES
    UnusedIsExact
    EveryCallEnds
    KeepsPromise
