CONSTANTS
    Tabs = {t1, t2}
    Length = 2
    MaxRuns = 2
SPECIFICATION Spec
PROPERTIES StopAbortsRuns
CHECK_DEADLOCK FALSE
