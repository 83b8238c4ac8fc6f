CONSTANTS
    SIZE_STORAGE = 6
    MIN_SIZE_LIST = 3
    Programs = {"mutex"}
    Length <- Lengths
    Scanners = {"equals"}
    Swappers = {s1}
SPECIFICATION Spec
INVARIANT CountedSwapMovesNodes
