CONSTANTS
    N = 3
    Rounds = 5
    COUNT_THREAD = 5
    MAX_LIMIT = 5
SPECIFICATION TSpec
INVARIANTS EveryStrandInOneSlot FaultsComeFromChecker
           EveryThreadRuns NothingLeftBehind DetachedAreGivenBack
PROPERTIES UThreadEnds DemoEnds
