SPECIFICATION FairSpec
CONSTANTS
    Coros = {k1, k2}
    Candidates = {c1}
    Entries = {"offer", "answer"}
    Errors = {0, 2, 35}
CHECK_DEADLOCK FALSE
INVARIANTS OpenedNeverTimesOut
PROPERTIES ClosedIsFinal Settles FollowsDiagram
