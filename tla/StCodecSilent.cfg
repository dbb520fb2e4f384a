SPECIFICATION Spec
CONSTANTS
    BYTE = 4
    SIZE = 32
    HEAD_RANGE = 8
    MSG_BUFFER_SIZE = 8
    FIXED = 3
    PREFIX <- OneByte
    SUFFIX <- TwoBytes
    Requests <- SomeRequests
    MaxSent = 3
INVARIANT EverythingCanBePacked
CHECK_DEADLOCK FALSE
