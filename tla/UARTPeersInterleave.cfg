\* A resets its stream once, at any point of the transport B is sending.
CONSTANTS
    A = A
    B = B
    End = {A, B}
    MaxPayload = 2
    Modulus = 3
    RunOut = 2
    ResponseDepth = 1
    RxDepth = 2
    TxDepth = 2
    Words <- OneWord
    Resets <- OneResets
    WireDepth = 2
SPECIFICATION Spec
INVARIANT NoMessageInterleaves
