SPECIFICATION Spec
CONSTANTS
    Calls = {1, 2}
    Timeouts <- MCTimeouts
    Records <- MCRecords
    MaxRecords <- MCMaxRecords
    Noisy = {2}
    Retry = FALSE
INVARIANTS
    OkMeansWhole
    AllFinished
PROPERTIES
    CallReturns
