SPECIFICATION SafetySpec
CONSTANTS
    NULL = NULL
    PCBs = {p0, p1, p2}
    InitPCB = p0
    NumPCBPtrs = 3
    AnyChild = AnyChild
    NoPid = NoPid
    SleepTimes = {1}
    OtherResults = {0}
VIEW StateView
INVARIANT WaitsForChild
CHECK_DEADLOCK FALSE
