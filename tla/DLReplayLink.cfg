\* A scaled link: 11 sequence numbers, window 5 and storage 4, low bits modulo
\* 4, codeword groups of two flits, requests ignored for 10 flits so that the
\* three copies of one fit.  Traffic both ways.  Up to four flits to B and one
\* to A are lost: the low bits turn ambiguous at three losses and alias at four.
\* A receiver repeats its request after 15 flits, more than an answer takes, or
\* after 5, when an answer may still be under way.
SPECIFICATION FairSpec
CONSTANTS
    MaxSeq = 11
    LowMod = 4
    Window = 5
    Capacity = 4
    IgnoreWindow = 10
    BadLimit = 3
    CountMax = 15
    ReplayLimits = {5, 15}
    ExplicitPeriod = 3
    RequestCopies = 3
    Delay = 1
    GroupSpan = 2
    OfferA = 12
    OfferB = 3
    MaxErrorsA = 1
    MaxErrorsB = 4
INVARIANTS
    ReleasedWasDelivered
    StorageBounded
PROPERTIES
    ReliableAtoB
    ReliableBtoA
    EventuallyDrained
