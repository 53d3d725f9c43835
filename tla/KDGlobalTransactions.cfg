\* Two transactions of the source and one of another in one slot.  A copy may take
\* four cycles, longer than the timeout, so that copies overtake one another and
\* arrive back to back; the grace period outlasts all of them.
CONSTANTS
    SlotCount = 1
    HistoryDepth = 1
    RetryMax = 2
    ReuseGrace = 25
    HistoryGrace = 25
    Txn = {0, 1}
    Others <- OneOther
    Timeouts = {0, 2}
    CopyLife = 4
    AckLife = 2
    MaxStall = 1
    MaxResets = 1
    RerouteLimit = 6
SPECIFICATION FairSpec
INVARIANT CountFallsShort
PROPERTIES
    DeliveredOnce
    CompletesOrReports
