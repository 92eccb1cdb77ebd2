\* LAN signalling, both roles: up to three overlapping coroutines, two candidates.
SPECIFICATION FairSpec
CONSTANTS
    Coros = {k1, k2, k3}
    Candidates = {c1, c2}
    Entries = {"start", "request"}
    Errors = {0, 19, 2}
CHECK_DEADLOCK FALSE
INVARIANTS TypeOK TimerGuardsWait NoCandidateLost ConnectedOnBothChannels
PROPERTIES WaitEnds
