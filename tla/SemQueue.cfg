CONSTANTS
    Nodes = {n1, n2, n3}
    Null = Null
    MaxCount = 2
    MaxVal = 3
SPECIFICATION FairSpec
INVARIANT PrintedStatsConsistent
PROPERTIES ImplementsFifo LockReleased
