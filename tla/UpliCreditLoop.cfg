\* Two ports whose accounts need several, one and no initial batches, with credits
\* returned from Originator to Completer and a Completer that waits for the
\* Originator's connection.
SPECIFICATION FairSpec
CONSTANTS
    MinResetCycles = 2
    CompleterWaits = TRUE
    Ports = {0, 1}
    NumVCs = 2
    MaxBatch = 2
    Capacity <- TwoPorts
    Channel = "rd_rsp"
    InitStable = 2
    ReturnDepth = 2
    MaxResets = 1
INVARIANTS
    LoopTypeOK
    CreditConservation
    PermittedIsStored
    NobodyRaises
    ConfirmedAfterLastCredit
PROPERTIES
    FifosAreQueues
    CreditsReturn
