SPECIFICATION Spec
CONSTANTS
    NULL = NULL
    PCBs = {p0, p1, p2}
    InitPCB = p0
    NumPCBPtrs = 2
    MqBlocks = {q1}
    StdBlocks = {}
    MsgBlocks = {b1}
    Descriptors = {d1}
    ResourceIds = {i1}
    Messages <- MCMessages
    M_FOR_MQ = 1
    MESSAGE_STRING_MAX_LENGTH = 1
    BufferSizes = {1}
    MaxFd = 1
    AnyChild = AnyChild
    NoPid = NoPid
    AwaitedPids = {AnyChild}
    CallModes <- MCModes
    SleepTimes = {1}
    ExitValues = {0}
SYMMETRY Symmetry
VIEW StateView
PROPERTIES
    ImplementsResources
    ImplementsProcesses
CHECK_DEADLOCK FALSE
