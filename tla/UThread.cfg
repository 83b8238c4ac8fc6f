CONSTANTS
    N = 3
    Rounds = 5
SPECIFICATION Spec
INVARIANT AllFunctionsFinish
