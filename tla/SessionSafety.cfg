CONSTANTS
    MaxDials = 2
    MaxSessions = 2
    MaxFaults = 1
    Calls <- Mixed
SPECIFICATION Spec
INVARIANTS OneFeeder OneLiveStream CloseIsFinal
CHECK_DEADLOCK FALSE
