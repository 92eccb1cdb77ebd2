SPECIFICATION FairSpec
CONSTANTS
    Paths = {"lan_dial", "lan_accept", "http_dial", "http_accept"}
    Readers = {r1, r2}
    Known = {15}
    Unknown = {}
    Timed = TRUE
    MAX_PENDING_PACKETS = 2
    MaxArrivals = 4
CHECK_DEADLOCK FALSE
INVARIANTS PacketsInOrder ClosedIsSeen FailedDialIsClosed
PROPERTIES DialEnds ReadersWake StickyOverLan
