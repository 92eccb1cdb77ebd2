SPECIFICATION FairSpec
CONSTANTS
    Candidates = {dc, lc}
    DCandidates = {dc}
    LCandidates = {lc}
    Id = id
    DSlot = d
    LSlots = {t1, t2}
    DCoros = {k}
    LCoros = {k1}
    Errors = {15}
    MaxLoad = 2
    MaxPending = 1
    MaxParked = 1
    NoSlot = NoSlot
CHECK_DEADLOCK FALSE
INVARIANTS CandidatesApplied
PROPERTIES HalfOpenEnds BothSettle ShutdownReturns
