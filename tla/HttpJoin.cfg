SPECIFICATION FairSpec
CONSTANTS
    Candidates = {}
    MAX_MESSAGE_SIZE = 262144
    U64_MAX = 99
    UuidLen = 3
    LocalIds <- MCLocalIds
    ClientSdp <- MCClientSdp
    HostSdp <- MCHostSdp
    OtherSdp <- MCOtherSdp
    ClientKey <- MCClientKey
    HostKey <- MCHostKey
    OtherKey <- MCOtherKey
    Lifetime = 0
    ErrorBodies = {0, 24, 37, 99}
    MaxTime = 1
CHECK_DEADLOCK FALSE
INVARIANTS DescriptionsFaithful PinnedIsGenuine FailureTellsWhy
PROPERTIES JoinEnds
