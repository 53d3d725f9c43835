\* A writes three words in messages of at most two, B none; both ends reset their
\* stream once, at any point.  Counters modulo 3 wrap after three words.
CONSTANTS
    A = A
    B = B
    End = {A, B}
    MaxPayload = 2
    Modulus = 3
    RunOut = 2
    ResponseDepth = 1
    RxDepth = 2
    TxDepth = 2
    Words <- ThreeWords
    Resets <- BothReset
    WireDepth = 1
SPECIFICATION FairSpec
INVARIANTS
    TypeOK
    OnlyPayloadStored
    CreditsAreStorage
    CreditsConserved
    FramingAgrees
    ResponseAnswersRequest
PROPERTIES
    ResetCompletes
    StagedWordsLeave
