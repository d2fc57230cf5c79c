SPECIFICATION Spec
CONSTANTS
    N = 1
    MaxBuffers = 1
    TransferType = "bulk"
    Completions <- CancelOnly
    SubmitMayFail = FALSE
PROPERTY StopEndsOperation
