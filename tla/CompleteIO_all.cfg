SPECIFICATION CompleteSpec
CONSTANTS
    N = 2
    MaxBuffers = 3
    TransferType = "bulk"
    Completions <- AllLengths
    SubmitMayFail = TRUE
    Sizes = {1, 3}
    Limit = 2
INVARIANTS
    InBounds
    ReportSound
PROPERTIES
    CompleteReturns
    ImplementsTransferOp
    CompleteDwindles
CHECK_DEADLOCK FALSE
