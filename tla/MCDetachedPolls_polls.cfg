CONSTANTS
    Tabs = {t1, t2}
    MaxStarts = 2
    MaxPolls = 2
    MaxFailures = 1
SPECIFICATION FairSpec
INVARIANTS ResultsAreReal
PROPERTIES OtherTabsUndisturbed KnownPollStops
CHECK_DEADLOCK FALSE
