SPECIFICATION StorageSpec
CHECK_DEADLOCK FALSE
CONSTANTS
    Disks <- MCDisks
    SectorSize = 4
    DirEntrySize = 2
    Fat12Clusters = 10
    Fat16Clusters = 14
    TableSizes = 24
    SectorCounts = 1000
    FirstClusters = 16
    MaxPieces = 3
    CdSectors = 2
    FirstDesc = 1
    MaxDescs = 4
    MaxRecords = 6
    MaxNameLength = 6
    MaxDevices = 3
    HeapRoom = 34
    PageRoom = 120
    Machines <- MCMachines
    Paths <- MCPaths
    Junk <- MCJunk
    ReadLengths = {4, 12}
    Holds <- Written
    FullPieces = {"exactly"}
INVARIANT
    NamesAreReady
