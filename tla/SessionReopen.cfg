SPECIFICATION Spec
CONSTANTS
    Coros = {k1, k2}
    Candidates = {c1}
    Entries = {"request"}
    Errors = {0, 2}
CHECK_DEADLOCK FALSE
PROPERTIES ClosedIsFinal
