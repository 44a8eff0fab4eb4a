SPECIFICATION MCSpec
CONSTANTS
    NULL = NULL
    AnyChild = AnyChild
    NoPid = NoPid
    MqBlocks = {q0, q1}
    MsgBlocks = {b1, b2, b3, b4}
    Descriptors = {d1, d2, d3, d4, d5, d6}
    NumQueues = 2
    Iterations = 2
    SleepBase = 6
    SleepScale = 1
    PreemptAt <- OnePair
INVARIANTS
    AssertsHold
    CountersNeverAhead
    AllOrNothing
    RolesFollowOpens
PROPERTIES
    ProgramEnds
CHECK_DEADLOCK FALSE
