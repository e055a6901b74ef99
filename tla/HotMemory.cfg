SPECIFICATION HotSpec
CONSTANTS
    Sessions = {s1}
    Sources = {base_prompt}
    Contents = {c1}
    RuntimeStates = {empty, st1}
    EmptyRuntime = empty
    NoPart = NoPart
    TokenCounts = {0, 1, 2, 5}
    AppendLimit = 6
    MaxBlocks = 3
    MaxTokens = 4
INVARIANT WindowIsLongestFitting
PROPERTY ImplementsRecentHistory
