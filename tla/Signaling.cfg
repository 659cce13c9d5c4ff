CONSTANTS
    Trackers = {t1, t2}
    Scenarios <- MCScenarios
    signalTTL = 1
    EventDepth = 1
    maxConcurrentHandshakes = 2
    maxConcurrentHandshakesPeer = 1
SPECIFICATION FairSpec
INVARIANTS HandshakesCounted
PROPERTIES SocketsReleased 
CHECK_DEADLOCK FALSE
