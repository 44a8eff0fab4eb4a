SPECIFICATION SafetySpec
CONSTANTS
    NULL = NULL
    PCBs = {p0, p1, p2, p3}
    InitPCB = p0
    NumPCBPtrs = 3
    AnyChild = AnyChild
    NoPid = NoPid
    SleepTimes = {1}
    OtherResults = {0}
VIEW StateView
INVARIANT AdoptedExitSeen
CHECK_DEADLOCK FALSE
