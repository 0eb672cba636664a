CONSTANT
    MaxProgress = 3
SPECIFICATION StreamFairSpec
INVARIANTS OneAnswer NoFalseFailure KilledForTheGone
PROPERTIES RunSettles DisconnectStopsQuery
CHECK_DEADLOCK FALSE
