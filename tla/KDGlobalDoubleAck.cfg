\* One transaction, without a change of route: its copies and acknowledgements
\* overtake one another.
CONSTANTS
    SlotCount = 1
    HistoryDepth = 1
    RetryMax = 2
    ReuseGrace = 25
    HistoryGrace = 25
    Txn = {0}
    Others <- OneOther
    Timeouts = {0, 2}
    CopyLife = 4
    AckLife = 2
    MaxStall = 1
    MaxResets = 0
    RerouteLimit = 6
SPECIFICATION Spec
INVARIANT CountAgrees
