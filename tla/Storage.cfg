CONSTANTS
    SIZE_STORAGE = 5
    MIN_SIZE_LIST = 1
    Programs = {"mutex", "spinlock", "rwlock"}
    Length <- Lengths
    Scanners = {"decreasing", "equals"}
    Swappers = {s1, s2}
SPECIFICATION FairSpec
INVARIANTS WaitsOnlyForward PairsCounted ThreeNodesToSwap
PROPERTY SomePassEnds
