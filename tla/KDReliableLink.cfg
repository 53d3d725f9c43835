\* Three packets of two flits over two slots and two history entries.
CONSTANTS
    WindowSlots = 2
    RetryLimit = 1
    HistorySlots = 2
    ContextCount = 1
    MaxFlits = 2
    ResponseCapacity = 2
    Lengths <- TwoFlits
    SeqSpace = 4
    Channels = {"data", "replay"}
    Credits = 3
    TotalModulus = 16
    ForwardDepth = 2
    ReverseDepth = 1
    MaxDamaged = 1
    MaxLost = 1
    PromptConsumer = TRUE
SPECIFICATION FairSpec
PROPERTIES
    ExactlyOnce
    CompletesOrReports
