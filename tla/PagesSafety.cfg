CONSTANTS
    Begin = 3
    PagesCount = 10
    BitsPerByte = 4
    PagesPerTable = 6
    WordLimit = 64
    Requests <- MCRequests
SPECIFICATION Spec
CHECK_DEADLOCK FALSE
INVARIANTS
    TypeOK
    OneOwner
    BitmapIsExact
    NullOnlyWhenNoRun
    MappingIsExact
PROPERTY
    EveryCallEnds
