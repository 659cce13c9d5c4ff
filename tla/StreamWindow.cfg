CONSTANTS
    Sizes = {1, 2}
    Window = 2
    MaxRead = 3
    FrameDepth = 3
    MaxFaults = 0
    MaxWrites <- TwoChunks
    Ops <- Crossing
SPECIFICATION Spec
INVARIANTS QueueAccounting NoCreditLeak EofAfterData
CHECK_DEADLOCK FALSE
