SPECIFICATION JsonlSpec
CONSTANTS
    TokenCounts = {1, 3}
    PartContents = {p1}
    JsonStates = {empty, st1}
    InitialState = empty
    NotJson = NotJson
    NoFile = NoFile
    Broken = Broken
    ReadLimit = 2
    AppendLimit = 4
    StopLimit = 2
    MaxBlocks = 3
    MaxTokens = 4
INVARIANT LinesInOrder
PROPERTIES ImplementsUnlessCutShort UnreadableEndsLoop
