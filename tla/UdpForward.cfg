CONSTANTS
    c1 = c1
    c2 = c2
    Sources = {c1, c2}
    Lengths = {0, 1}
    ReplyLengths = {1}
    MaxAssociations = 1
    QueueDepth = 1
    MaxPackets = 2
    MaxReplies = 1
SPECIFICATION FairSpec
INVARIANTS  OneAssociation
 
CHECK_DEADLOCK FALSE
