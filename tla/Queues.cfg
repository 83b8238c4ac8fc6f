CONSTANTS
    Nodes = {n1, n2, n3, n4}
    Null = Null
    MaxCount = 2
    MaxVal = 4
SYMMETRY Addresses
SPECIFICATION QSpec
INVARIANTS AssertionsHold NoLeak NoTouchAfterFree LockHeldInside
PROPERTY ImplementsFifo
