CONSTANTS
    HeaderSize = 2
    EntrySize = 3
    HeapSize = 14
    Base = 15
    Requests <- MCRequests
SPECIFICATION Spec
INVARIANT
    FreeNeverStrays
CHECK_DEADLOCK FALSE
