SPECIFICATION RedisSpec
CONSTANTS
    Clients = {c1, c2}
    Fields = {base_prompt}
    TokenCounts = {0, 1, 3, 5}
    AppendLimit = 4
    AbandonLimit = 1
    MaxBlocks = 2
    MaxTokens = 4
INVARIANTS ListIsNewest ListFitsAtRest
PROPERTY ImplementsUnlessRaced
