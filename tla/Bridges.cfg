SPECIFICATION FairSpec
CONSTANTS
    Kinds <- MCKinds
    Routes <- MCRoutes
    MaxChunks <- MCChunks
    MaxFaults = 1
INVARIANTS  NoLateTimeout
 
CHECK_DEADLOCK FALSE
