CONSTANTS
    Clients = {c1, c2, c3}
    Requests = {r1}
    Binary = {}
    Parts = 1
    Slots = 1
    Faults = {}
    Junk = Junk
    Nobody = Nobody
SPECIFICATION Spec
INVARIANT AcceptLoopNotWedged
CHECK_DEADLOCK FALSE
