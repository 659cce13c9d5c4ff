CONSTANTS
    Sizes = {1}
    Window = 1
    MaxRead = 2
    FrameDepth = 5
    MaxFaults = 1
    MaxWrites <- TwoChunks
    Ops <- NoCalls
SPECIFICATION FairSpec
INVARIANTS InOrder WindowLaw
PROPERTIES WriterNotStuck
CHECK_DEADLOCK FALSE
