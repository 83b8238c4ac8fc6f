CONSTANTS
    Clients = {c1, c2}
    Requests = {r1, r2}
    Binary = {}
    Parts = 1
    Slots = 2
    Faults = {}
    Junk = Junk
    Nobody = Nobody
SPECIFICATION Spec
INVARIANT ClientGetsItsResponse
CHECK_DEADLOCK FALSE
