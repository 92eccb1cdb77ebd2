SPECIFICATION Spec
CONSTANTS
    Ids = {i1, i2}
    Slots = {t1, t2}
    Coros = {k1, k2}
    Candidates = {}
    Errors = {2}
    MaxPending = 1
    MaxParked = 1
    NoSlot = NoSlot
CHECK_DEADLOCK FALSE
PROPERTIES AcloseClosesAll
