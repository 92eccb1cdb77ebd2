SPECIFICATION FairSpec
CONSTANTS
    Paths = {"lan_dial"}
    Readers = {r1, r2}
    Known = {15}
    Unknown = {77}
    Timed = FALSE
    MAX_PENDING_PACKETS = 2
    MaxArrivals = 1
CHECK_DEADLOCK FALSE
PROPERTIES DialEnds
