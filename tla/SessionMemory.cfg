SPECIFICATION SessionSpec
CONSTANTS
    TokenCounts = {1, 3}
    States = {empty, st1}
    EmptyState = empty
    Prompts = {p1, p2}
    NoPrompt = NoPrompt
    HistoryBlockLimit = 2
    AppendLimit = 4
    FailureLimit = 2
    MaxBlocks = 3
    MaxTokens = 4
INVARIANTS ReloadShowsNothingNew HotIsArchived BlocksInOrder
PROPERTY StateCarriedOver
