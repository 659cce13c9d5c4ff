CONSTANTS
    Scenarios <- AllScenarios
    MaxAddrs = 2
    Horizon = 18
SPECIFICATION FairSpec
INVARIANTS   NotMissed
PROPERTIES NothingLeftOpen
CHECK_DEADLOCK FALSE
