SPECIFICATION FairSpec
CONSTANTS
    Nodes = {n1, n2}
    Elsewhere = {x}
    Hosts = {n1}
    Callers = {n2}
    MaxBinds = 3
    Calls = {d1, d2}
    Descriptions <- MCDescriptions
    ConnectionId = 70
    Advertisement <- MCAdvertisement
    BadTexts <- MCBadTexts
    AppId = app
    ForeignAppId = other
    U64_MAX = 99
    UuidLen = 4
    MAX_MESSAGE_SIZE = 262144
    RESPONSE_PAYLOAD_MAX = 2
    MESSAGE_PAYLOAD_MAX = 15
    MaxFlight = 2
    MaxQueue = 1
    Timeout = 1
    Zero = Zero
    Broadcast = Broadcast
    NoAddr = NoAddr
CHECK_DEADLOCK FALSE
INVARIANTS KnowsOnlyPeers SignalsFaithful DiscoverIsFresh
PROPERTIES DiscoverEnds BroadcastIsHeard
