SPECIFICATION FairSpec
CONSTANTS
    HistoryLimit = 3
    ConversationLimit = 3
    MessageCosts = {1, 3}
    Histories <- MCHistories
    Conversations <- MCConversations
    SystemCosts = {0, 2, 7}
    PromptCosts = {0, 1}
    RepairCosts = {1, 4}
    DefaultWindow = 16
    ModelWindow = 12
    Reserves = {3, 9}
    DefaultReserve = 3
    Retries = {0, 2}
    DefaultRetries = 1
INVARIANTS SentIsLongestComplete KeptBlocksAreSent ResultIsDeserved
PROPERTIES RetryOnlyForgets CompletionEnds
