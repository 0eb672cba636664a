CONSTANTS
    Hashes = {h1, h2}
    MaxRequests = 3
SPECIFICATION Spec
INVARIANTS SurvivesConnect
CHECK_DEADLOCK FALSE
