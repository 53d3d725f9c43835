\* The same system, with a change of route at any time after a delivery.
CONSTANTS
    SlotCount = 1
    HistoryDepth = 1
    RetryMax = 2
    ReuseGrace = 25
    HistoryGrace = 25
    Txn = {0, 1}
    Others <- OneOther
    Timeouts = {0, 2}
    CopyLife = 4
    AckLife = 2
    MaxStall = 1
    MaxResets = 1
    RerouteLimit = 30
SPECIFICATION Spec
PROPERTY
    DeliveredOnce
