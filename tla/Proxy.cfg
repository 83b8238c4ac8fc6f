CONSTANTS
    Clients = {c1, c2}
    Requests = {r1}
    Binary = {r1}
    Parts = 1
    Slots = 2
    Faults = {"accept", "create", "connect", "read", "client"}
    Junk = Junk
    Nobody = Nobody
SPECIFICATION Spec
SYMMETRY ClientSymmetry
INVARIANTS OneRecordPerRequest AtMostSlotsThreads CacheLockInside
PROPERTY CacheOnlyGrows
CHECK_DEADLOCK FALSE
