\* The constants of the code and the third configuration of the peer test: 8-flit
\* codeword groups and a latency of 7 slots.  Ten payloads one way, two flits
\* lost each way.
SPECIFICATION Spec
CONSTANTS
    MaxSeq = 511
    LowMod = 8
    Window = 255
    Capacity = 255
    IgnoreWindow = 12
    BadLimit = 7
    CountMax = 255
    ReplayLimits = {50}
    ExplicitPeriod = 7
    RequestCopies = 3
    Delay = 7
    GroupSpan = 8
    OfferA = 10
    OfferB = 0
    MaxErrorsA = 2
    MaxErrorsB = 2
INVARIANTS
    InOrder
