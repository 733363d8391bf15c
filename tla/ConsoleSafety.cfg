CONSTANTS
    Width = 3
    Height = 3
    TabSize = 2
    InputMaxChars = 3
    MaxGone = 2
    Glyphs <- MCGlyphs
    Texts <- MCTexts
    MoreText <- MCMoreText
    SizeColumn = 1
    SizeTexts <- MCSizeTexts
    Spots <- MCSpots
SPECIFICATION ConsoleSpec
INVARIANT
    EchoIsInput
