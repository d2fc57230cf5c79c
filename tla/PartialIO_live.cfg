SPECIFICATION Spec
CONSTANTS
    N = 2
    MaxBuffers = 3
    TransferType = "iso"
    Completions <- IsoCompletions
    SubmitMayFail = FALSE
PROPERTIES
    OperationReturns
    StopEndsSingleRound
