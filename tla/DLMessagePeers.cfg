\* Three groups of two, one and one source and a transport of three words at one
\* end; every reply that does not leave at once is overdue.
CONSTANTS
    Size <- SmallGroups
    Transport <- SmallTransport
    MaxWords = 3
    Depth = 1
    Kinds = {"Rate", "Port"}
    AckCycles = 0
    A = A
    B = B
    End = {A, B}
    BasicSource <- BasicGroup
    Requests <- PortAndRates
    Identity <- SamePorts
    Messages <- OtherTraffic
    Rates = {1, 2}
SPECIFICATION FairSpec
INVARIANTS
    PortTypeOK
    OneAnswerEach
    RateAckMeansPaced
    SlotsAreQueues
PROPERTIES
    EveryTickCounts
    RepliesAdvance
    RequestsComplete
