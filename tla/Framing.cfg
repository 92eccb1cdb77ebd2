SPECIFICATION Spec
CONSTANTS
    FRAGMENT_SIZE = 2
    MAX_PACKET_SIZE = 5
    MAX_MESSAGE_SIZE = 3
    MAX_HEADER = 2
    Sizes = {0, 2, 3, 4, 5, 6}
    ReadSizes = {1, 9}
    MaxPackets = 3
CHECK_DEADLOCK FALSE
INVARIANTS FragmentFits WholePackets NoByteLost
PROPERTIES ReliableFifo
