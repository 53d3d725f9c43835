\* One end against a peer that may send anything, with a small sequence space,
\* storage for two payloads, counters that pass through values between zero and
\* their limits, and a threshold that is reprogrammed at any time.  No request is
\* ignored: a longer window only refuses what the peer may as well not send.
SPECIFICATION SchedSpec
CONSTANTS
    MaxSeq = 5
    LowMod = 2
    Window = 2
    Capacity = 2
    IgnoreWindow = 0
    Payloads = {p1}
    BadLimit = 2
    CountMax = 3
    ReplayLimits = {2, 3}
    ExplicitPeriod = 2
    RequestCopies = 2
INVARIANTS
    SchedTypeOK
    SendsLegalWord
    SendsKnownSequence
    BufferContiguous
    ReplayTargetResident
    ScheduleEndsAtTail
    RxCountersAgree
