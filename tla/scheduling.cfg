SPECIFICATION MCSpec
CONSTANTS
    NULL = NULL
    PCBs = {p0, p1, p2}
    FewPCBs = {p0, p1}
    InitPCB = p0
    NumPCBPtrs = 3
    AnyChild = AnyChild
    NoPid = NoPid
    SleepTimes = {0, 2}
    OtherResults = {0}
VIEW StateView
INVARIANTS
    ContextsIntact
PROPERTIES
    ReadyRuns
    SleepersWake
    LowImplementsProcesses
CHECK_DEADLOCK FALSE
