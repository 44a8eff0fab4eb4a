SPECIFICATION MCSpec
CONSTANTS
    NULL = NULL
    Nil = NULL
    Queues = {q1, q2}
    num_messages = 4
    M_FOR_MQ = 2
    Text <- MCText
    PCBs = {p0, p1, p2}
    MAX_NUM_PROCESSES = 3
    SleepTimes <- MCSleepTimes
    INT_MAX = 3
    MaxTime = 3
INVARIANTS
    ListsSound
    NeverFreedTwice
    TimersSound
    TimerForEach
PROPERTIES
    ImplementsQueues
    ImplementsTimers
    WakesOnTime
SYMMETRY Symmetry
CHECK_DEADLOCK FALSE
