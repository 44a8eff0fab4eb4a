SPECIFICATION SafetySpec
CONSTANTS
    NULL = NULL
    PCBs = {p0, p1, p2, p3}
    InitPCB = p0
    NumPCBPtrs = 3
    AnyChild = AnyChild
    NoPid = NoPid
    SleepTimes = {0, 1}
    OtherResults = {0}
SYMMETRY BlockSymmetry
VIEW StateView
INVARIANTS
    EachInOnePlace
    TimersMatchSleepers
    EachChildListedOnce
    NoMissedExit
    FamilySignalled
CHECK_DEADLOCK FALSE
