CONSTANTS
    Jobs = {j1, j2}
    Requests = {r1, r2}
    NoJob = NoJob
    NoRequest = NoRequest
    MaxJobs = 1
    ResultTTL = 1
    MaxClock = 1
SPECIFICATION FairSpec
PROPERTIES EveryJobEnds RequestsAnswered
CHECK_DEADLOCK FALSE
