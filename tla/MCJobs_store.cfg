CONSTANTS
    Jobs = {j1, j2, j3}
    Requests = {r1}
    NoJob = NoJob
    NoRequest = NoRequest
    MaxJobs = 2
    ResultTTL = 1
    MaxClock = 2
SPECIFICATION Spec
SYMMETRY Symmetry
INVARIANTS StopIsNotFailure
PROPERTIES ResultKeptWhileRoom OverflowWasRunning ContractSpec
CHECK_DEADLOCK FALSE
