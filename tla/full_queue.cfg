SPECIFICATION Spec
CONSTANTS
    NULL = NULL
    InitPCB = p0
    PCBs = {p0}
    MqBlocks = {q1}
    StdBlocks = {}
    MsgBlocks = {b1, b2, b3}
    Descriptors = {d1, d2}
    ResourceIds = {i1}
    Messages <- MCMessages
    M_FOR_MQ = 2
    MESSAGE_STRING_MAX_LENGTH = 2
    NumPCBPtrs = 1
    BufferSizes = {1, 2}
    OtherResults = {0}
    MaxFd = 2
SYMMETRY BlockSymmetry
PROPERTY FullQueueReported
CHECK_DEADLOCK FALSE
