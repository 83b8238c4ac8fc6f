CONSTANTS
    COUNT_ITERATION = 4
    Nodes = {n1, n2, n3, n4}
    Null = Null
    MaxCount = 2
    MaxVal = 4
SPECIFICATION LSpec
INVARIANTS MutualExclusion NoLostWakeup PrintedTotal CountInRange NeverGoesBack
PROPERTIES ImplementsAtomicCounter LocksTerminate
