----------------------------- MODULE TimerMemory -----------------------------
(* The timers of disastrOS_timer.c as they are: items of a pool in a doubly  *)
(* linked list, with absolute wake times that are ints of a given width.  It *)
(* implements the timer list of TimerLists.tla, whose timers count ticks.    *)
(*                                                                           *)
(* A process with a timer sleeps and makes no call, so the exit that detaches *)
(* the timers of its caller finds none.                                      *)
EXTENDS TimerLists

CONSTANTS
    Nil,                 \* the NULL of the timer items and their links
    PCBs,
    MAX_NUM_PROCESSES,   \* blocks of the timer pool
    SleepTimes,          \* what programs pass to sleep
    INT_MAX,             \* the ints are -INT_MAX - 1 .. INT_MAX
    MaxTime              \* bound on disastrOS_time

\* The pool of timers is as large as the pool of PCBs.
ASSUME TimerAssumption ==
    /\ MAX_NUM_PROCESSES \in Nat \ {0}
    /\ IsFiniteSet(PCBs) /\ Cardinality(PCBs) <= MAX_NUM_PROCESSES
    /\ INT_MAX \in Nat
    /\ SleepTimes \subseteq Int
    /\ Nil \notin Int

VARIABLES
    disastrOS_time,
    allocator,
    timers,    \* the links of the items and the one list head
    timer,     \* what each item holds
    due        \* auxiliary: the tick each sleeper asked for, as a number

timerVars == <<disastrOS_time, allocator, timers, timer, due>>

TimerPool == INSTANCE PoolAllocator WITH size_max <- MAX_NUM_PROCESSES
TimerLinks == INSTANCE LinkedList WITH
                  NULL <- Nil, Heads <- {"timer_list"}, Items <- TimerPool!Indices

IntRange == -INT_MAX - 1 .. INT_MAX

\* The int that a sum becomes: the bits of an int tell 2 * (INT_MAX + 1) values.
ToInt(n) == ((n + INT_MAX + 1) % (2 * (INT_MAX + 1))) - (INT_MAX + 1)

items == TimerLinks!Chain(timers, "timer_list")

TimerInit ==
    /\ disastrOS_time = 0
    /\ allocator = TimerPool!PoolAllocator_init
    /\ timers = TimerLinks!NoLists
    /\ timer = [i \in TimerPool!Indices |-> [pcb |-> Nil, awakening_time |-> 0]]
    /\ due = [p \in PCBs |-> Nil]

\* The item after which TimerList_add inserts.
previous_item(awakening_time) ==
    LET c == items
        i == SelectInSeq(c, LAMBDA t : awakening_time < timer[t].awakening_time)
        n == IF i = 0 THEN Len(c) ELSE i - 1
    IN  IF n = 0 THEN Nil ELSE c[n]

Sleep(p, cycles) ==
    /\ due[p] = Nil
    /\ TimerPool!HasBlock(allocator)
    /\ LET item == allocator.first_idx
           wake == ToInt(disastrOS_time + cycles)
       IN  /\ timer' = [timer EXCEPT ![item] = [pcb |-> p, awakening_time |-> wake]]
           /\ timers' = TimerLinks!List_insert(
                            [timers EXCEPT !.prev[item] = Nil, !.next[item] = Nil],
                            "timer_list", previous_item(wake), item)
    /\ allocator' = TimerPool!PoolAllocator_getBlock(allocator)
    /\ due' = [due EXCEPT ![p] = disastrOS_time + cycles]
    /\ UNCHANGED disastrOS_time

\* Fault: a timer elapses one tick late.
Elapses_Late(i, time) == time > timer[i].awakening_time

\* TimerList_current.
Elapses(i, time) == time >= timer[i].awakening_time

\* Fault: TimerList_removeCurrent forgets Timer_free.
Timer_free_Not(a, gone) == a

Timer_free(a, gone) == FoldLeft(TimerPool!PoolAllocator_releaseBlock, a, gone)

\* The loop of internal_schedule: the first timer goes as long as it elapses.
internal_schedule(time) ==
    LET c    == items
        k    == SelectInSeq(c, LAMBDA i : ~ Elapses(i, time))
        gone == SubSeq(c, 1, IF k = 0 THEN Len(c) ELSE k - 1)
    IN  /\ timers' = FoldLeft(LAMBDA l, i : TimerLinks!List_detach(l, "timer_list", i),
                              timers, gone)
        /\ allocator' = Timer_free(allocator, gone)
        /\ due' = [p \in PCBs |-> IF \E i \in ToSet(gone) : timer[i].pcb = p
                                    THEN Nil ELSE due[p]]
        /\ UNCHANGED timer

timerInterrupt ==
    /\ disastrOS_time < MaxTime
    /\ disastrOS_time' = disastrOS_time + 1
    /\ internal_schedule(disastrOS_time + 1)

internal_preempt == internal_schedule(disastrOS_time) /\ UNCHANGED disastrOS_time

TimerNext ==
    \/ \E p \in PCBs, cycles \in SleepTimes : Sleep(p, cycles)
    \/ timerInterrupt
    \/ internal_preempt

TimerSpec == TimerInit /\ [][TimerNext]_timerVars
-----------------------------------------------------------------------------
\* The timer list is the same from both ends, although items go in anywhere,
\* leave from the front and come back, and the free list loses none of them.
TimersSound ==
    /\ TimerPool!PoolSound(allocator)
    /\ TimerLinks!ListSound(timers, "timer_list")

\* sleep never fails for want of an item: each sleeping process has one.
TimerForEach == (\E p \in PCBs : due[p] = Nil) => TimerPool!HasBlock(allocator)

\* A sleep whose end is an int lasts until that tick and not a tick longer,
\* whatever other sleeps overflow.
WakesOnTime ==
    [][\A p \in PCBs :
         due[p] # Nil /\ due[p] \in IntRange =>
            /\ due'[p] = Nil => due[p] <= disastrOS_time'
            /\ disastrOS_time' > disastrOS_time /\ due[p] <= disastrOS_time'
                  => due'[p] = Nil]_timerVars

Timers ==
    LET c == items
    IN  [n \in DOMAIN c |-> [pcb  |-> timer[c[n]].pcb,
                             left |-> timer[c[n]].awakening_time - disastrOS_time]]

\* Wake times and pointers implement the ticks and the sequence.
ImplementsTimers ==
    /\ Timers = <<>>
    /\ [][\/ \E t \in ToSet(Timers') : Timers' = TimerList_add(Timers, t.left, t.pcb)
          \/ Timers' = Remaining(Timers)
          \/ Timers' = Remaining(Ticked(Timers))]_Timers
=============================================================================
