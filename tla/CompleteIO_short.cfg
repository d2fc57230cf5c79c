SPECIFICATION CompleteSafeSpec
CONSTANTS
    N = 1
    MaxBuffers = 2
    TransferType = "bulk"
    Completions <- AllLengths
    SubmitMayFail = FALSE
    Sizes = {2}
    Limit = 2
INVARIANT SuccessFills
