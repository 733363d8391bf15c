CONSTANTS
    Width = 2
    Height = 3
    TabSize = 2
    Glyphs <- MCGlyphs
    SYSLOG_LENGTH = 6
    Portions <- MCPortions
SPECIFICATION Spec
INVARIANT
    PagesAreWhole
PROPERTIES
    IsLogTail
    PagesAdjoin
