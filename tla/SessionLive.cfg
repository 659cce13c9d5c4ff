CONSTANTS
    MaxDials = 2
    MaxSessions = 1
    MaxFaults = 1
    Calls <- BothWrite
SPECIFICATION FairSpec
PROPERTIES LossResolved NoOtherHang
CHECK_DEADLOCK FALSE
