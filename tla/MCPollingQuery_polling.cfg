CONSTANTS
    Filters = {f1, f2}
    NoFilter = NoFilter
    MaxRuns = 3
SPECIFICATION PagesSpec
INVARIANTS ShowsCurrentFilter StaleIsMarked NothingIsKnown NeverBlank
PROPERTIES NeverGoesBack LoadingEnds
CHECK_DEADLOCK FALSE
