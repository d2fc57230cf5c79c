SPECIFICATION SafeSpec
CONSTANTS
    N = 3
    MaxBuffers = 4
    TransferType = "bulk"
    Completions <- BulkCompletions
    SubmitMayFail = TRUE
INVARIANTS
    FlightAccounting
    QuiescentAtResume
    PostedExactlyOnce
    NoSharedBuffer
    ResultSound
PROPERTIES
    ImplementsTransferOp
    Dwindles
CHECK_DEADLOCK FALSE
