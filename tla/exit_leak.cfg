SPECIFICATION Spec
CONSTANTS
    NULL = NULL
    InitPCB = p0
    PCBs = {p0, p1}
    MqBlocks = {q1}
    StdBlocks = {s1}
    MsgBlocks = {}
    Descriptors = {d1, d2, d3}
    ResourceIds = {i1, i2}
    Messages = {}
    M_FOR_MQ = 1
    MESSAGE_STRING_MAX_LENGTH = 2
    NumPCBPtrs = 3
    BufferSizes = {1}
    OtherResults = {0}
    MaxFd = 2
SYMMETRY BlockSymmetry
INVARIANT ReleasedOnTermination
CHECK_DEADLOCK FALSE
