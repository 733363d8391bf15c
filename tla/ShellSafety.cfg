SPECIFICATION Spec
CHECK_DEADLOCK FALSE
CONSTANTS
    MaxPath = 8
    MaxArgv = 3
    Height = 5
    MappedPages = 6
    Jump = 4
    Mounts <- MCMounts
    Typed <- MCTyped
    Junk <- MCJunk
INVARIANTS
    TypeOK
    ArgsAreTheWords
    PathIsRight
    NothingScrollsAway
PROPERTY
    CdFindsThePlace
