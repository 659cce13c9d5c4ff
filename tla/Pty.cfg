CONSTANTS
    Keys = {"k", "E", "q", "end"}
    Sizes = {0, 2}
    MaxKeys = 2
    MaxOutput = 1
    MaxResizes = 1
SPECIFICATION FairSpec
INVARIANTS FramesWhole LogoutSeen
PROPERTIES SizeConverges
CHECK_DEADLOCK FALSE
