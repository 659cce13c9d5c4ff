CONSTANTS
    c1 = c1
    c2 = c2
    right = right
    wrong = wrong
    Clients = {c1, c2}
    Sessions <- TwoClients
    Setups <- MCSetups
    Key = right
    MaxClockSkew = 1
SPECIFICATION FairSpec
INVARIANTS ChosenServed SlotNotLost
  
CHECK_DEADLOCK FALSE
