CONSTANTS
    Tabs = {t1, t2}
    Length = 2
    MaxRuns = 2
SPECIFICATION FairSpec
INVARIANTS TypeOK AdvisorMatchesResult ResultsAreOwn StopKillsOwn
PROPERTIES RunningEnds
CHECK_DEADLOCK FALSE
