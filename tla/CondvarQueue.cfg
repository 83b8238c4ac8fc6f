CONSTANTS
    Nodes = {n1, n2, n3}
    Null = Null
    MaxCount = 2
    MaxVal = 3
    MaxSpurious = 2
SPECIFICATION FairSpec
INVARIANTS TurnMatchesQueue NeverBothAsleep
PROPERTIES ImplementsSlot EveryValueArrives
