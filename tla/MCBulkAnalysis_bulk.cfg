CONSTANTS
    d1 = d1
    d2 = d2
    Databases <- DatabaseList
    Sizes <- TwoInSecond
    Scopes = {"database", "all"}
    MaxRuns = 2
SPECIFICATION FairSpec
INVARIANTS DoneCountsResults ResultsOfOneRun NoFurtherTables
PROPERTIES LoadingEnds
CHECK_DEADLOCK FALSE
