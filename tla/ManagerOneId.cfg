SPECIFICATION Spec
CONSTANTS
    Ids = {i1}
    Slots = {t1, t2}
    Coros = {k1, k2}
    Candidates = {c1}
    Errors = {15}
    MaxPending = 1
    MaxParked = 1
    NoSlot = NoSlot
SYMMETRY Symmetry
CHECK_DEADLOCK FALSE
INVARIANTS TypeOK RegisteredIsLive NoCandidateStranded
 
