SPECIFICATION FairSpec
CONSTANTS
    BYTE = 4
    SIZE = 32
    HEAD_RANGE = 8
    MSG_BUFFER_SIZE = 8
    FIXED = 3
    PREFIX <- OneByte
    SUFFIX <- TwoBytes
    Requests <- SomeRequests
    MaxSent = 3
INVARIANTS UnpackedInOrder AssertsHold PackedWhenItFits
PROPERTIES SentIsUnpacked
CHECK_DEADLOCK FALSE
