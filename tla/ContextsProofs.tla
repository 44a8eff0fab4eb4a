---------------------------- MODULE ContextsProofs ---------------------------
(* Contexts.tla: until a signal comes where the kernel runs unmasked, a       *)
(* process resumes where it stopped, and below the contexts, the masks and    *)
(* the steps of internal_schedule the calls and ticks are those of            *)
(* Processes.tla, for any number of processes.                                *)
EXTENDS Contexts, TLAPS

PP == INSTANCE ProcessesProofs
        WITH running <- Seen.running, ready_list <- Seen.ready_list,
             waiting_list <- Seen.waiting_list, timer_list <- Seen.timer_list,
             status <- Seen.status

\* Outside a timer interrupt Processes.tla sees the lists themselves.
Settled == Seen = Lists /\ Seen' = Lists'

LEMMA SeenLists ==
    ASSUME Settled
    PROVE  /\ Seen.running = running /\ Seen.ready_list = ready_list
           /\ Seen.waiting_list = waiting_list /\ Seen.timer_list = timer_list
           /\ Seen.status = status
           /\ Seen'.running = running' /\ Seen'.ready_list = ready_list'
           /\ Seen'.waiting_list = waiting_list' /\ Seen'.timer_list = timer_list'
           /\ Seen'.status = status'
BY DEF Settled, Lists

\* So a call is then a call of Processes.tla: the operators on lists are the same
\* under both names,
LEMMA SameLists ==
    ASSUME NEW list, NEW p, NEW b
    PROVE  /\ P!ToSet(list) = Atomic!ToSet(list)
           /\ P!Unlisted(list, p, b) = Atomic!Unlisted(list, p, b)
           /\ P!WithoutTimersOf(list, p) = Atomic!WithoutTimersOf(list, p)
           /\ P!TimerList_add(list, p, b) = Atomic!TimerList_add(list, p, b)
           /\ P!Ticked(list) = Atomic!Ticked(list)
           /\ P!Elapsed(list) = Atomic!Elapsed(list)
           /\ P!Remaining(list) = Atomic!Remaining(list)
<1>1. P!ToSet(list) = Atomic!ToSet(list) /\ P!Ticked(list) = Atomic!Ticked(list)
  BY DEF P!ToSet, Atomic!ToSet, P!Ticked, Atomic!Ticked
<1>2. /\ P!Unlisted(list, p, b) = Atomic!Unlisted(list, p, b)
      /\ P!WithoutTimersOf(list, p) = Atomic!WithoutTimersOf(list, p)
  BY DEF P!Unlisted, Atomic!Unlisted, P!RemoveFirst, Atomic!RemoveFirst, P!RemoveAt,
         Atomic!RemoveAt, P!WithoutTimersOf, Atomic!WithoutTimersOf, P!SelectInSeq,
         Atomic!SelectInSeq, P!Min, Atomic!Min
<1>3. P!TimerList_add(list, p, b) = Atomic!TimerList_add(list, p, b)
  BY DEF P!TimerList_add, Atomic!TimerList_add, P!TimerList_position,
         Atomic!TimerList_position, P!InsertAt, Atomic!InsertAt, P!SelectInSeq,
         Atomic!SelectInSeq, P!Min, Atomic!Min
<1>4. /\ P!Elapsed(list) = Atomic!Elapsed(list)
      /\ P!Remaining(list) = Atomic!Remaining(list)
  BY DEF P!Elapsed, Atomic!Elapsed, P!Remaining, Atomic!Remaining, P!NumElapsed,
         Atomic!NumElapsed, P!SelectInSeq, Atomic!SelectInSeq, P!Min, Atomic!Min
<1> QED BY <1>1, <1>2, <1>3, <1>4

\* a crash is a crash,
LEMMA SegvSeen == ASSUME Settled PROVE P!Segv => Atomic!Segv
BY SeenLists
   DEF P!Segv, Atomic!Segv, P!Stop, Atomic!Stop, P!family, Atomic!family, P!lists,
       Atomic!lists

\* and so are the calls: spawn and fork,
LEMMA SpawnSeen ==
    ASSUME Settled
    PROVE  /\ P!internal_spawn => Atomic!internal_spawn
           /\ P!internal_fork => Atomic!internal_fork
<1>1. \A b : P!NewChild(b) => Atomic!NewChild(b)
  BY SeenLists
     DEF P!NewChild, Atomic!NewChild, P!NoRoom, Atomic!NoRoom, P!FreeBlocks,
         Atomic!FreeBlocks, P!Return, Atomic!Return
<1> QED BY <1>1, SegvSeen, SeenLists
        DEF P!internal_spawn, Atomic!internal_spawn, P!internal_fork,
            Atomic!internal_fork, P!UserMode, Atomic!UserMode, P!NoRoom, Atomic!NoRoom,
            P!FreeBlocks, Atomic!FreeBlocks

\* exit,
LEMMA ExitSeen == ASSUME Settled PROVE P!internal_exit => Atomic!internal_exit
<1>1. /\ Atomic!AfterReparenting = P!AfterReparenting
      /\ Atomic!ParentAwaits = P!ParentAwaits
      /\ Atomic!ExitSignals = P!ExitSignals
  BY SeenLists
     DEF P!AfterReparenting, Atomic!AfterReparenting, P!ParentAwaits,
         Atomic!ParentAwaits, P!ExitSignals, Atomic!ExitSignals, P!ToSet, Atomic!ToSet
<1>2. P!ExitHangs => Atomic!ExitHangs
  BY SeenLists
     DEF P!ExitHangs, Atomic!ExitHangs, P!Stop, Atomic!Stop, P!family, Atomic!family,
         P!lists, Atomic!lists
<1>3. P!ExitCrashes => Atomic!ExitCrashes
  BY <1>1, SameLists, SegvSeen, SeenLists DEF P!ExitCrashes, Atomic!ExitCrashes
<1>4. P!ExitToZombie => Atomic!ExitToZombie
  BY <1>1, SeenLists DEF P!ExitToZombie, Atomic!ExitToZombie, P!Dispatch, Atomic!Dispatch
<1>5. P!ExitWakesParent => Atomic!ExitWakesParent
  <2>1. Atomic!Unlisted(Atomic!AfterReparenting, parent[Seen.running], Seen.running)
          = P!Unlisted(P!AfterReparenting, parent[running], running)
    BY <1>1, SeenLists, SameLists
  <2>2. Atomic!WithoutTimersOf(Seen.timer_list, Seen.running)
          = P!WithoutTimersOf(timer_list, running)
    BY SeenLists, SameLists
  <2>3. Atomic!ToSet(Atomic!AfterReparenting[parent[Seen.running]])
          = P!ToSet(P!AfterReparenting[parent[running]])
    BY <1>1, SeenLists, SameLists
  <2>4. Atomic!Dispatch(parent[Seen.running]) <=> P!Dispatch(parent[running])
    BY SeenLists DEF P!Dispatch, Atomic!Dispatch
  <2> QED BY <1>1, <2>1, <2>2, <2>3, <2>4, SeenLists
          DEF P!ExitWakesParent, Atomic!ExitWakesParent
<1> QED BY <1>2, <1>3, <1>4, <1>5, SeenLists
        DEF P!internal_exit, Atomic!internal_exit, P!UserMode, Atomic!UserMode

\* wait,
LEMMA WaitSeen ==
    ASSUME Settled, NEW pid
    PROVE  P!internal_wait(pid) => Atomic!internal_wait(pid)
<1>1. P!Scanned(pid) = Atomic!Scanned(pid)
  <2> DEFINE c == children[running]
             seen == children[Seen.running]
             hits == {i \in 1 .. Len(c) : IF pid = AnyChild THEN status[c[i]] = "Zombie"
                                                             ELSE c[i] = pid}
             seenHits == {i \in 1 .. Len(seen) :
                             IF pid = AnyChild THEN Seen.status[seen[i]] = "Zombie"
                                               ELSE seen[i] = pid}
  <2>1. c = seen /\ hits = seenHits
    BY SeenLists
  <2>2. P!Min(hits) = Atomic!Min(seenHits)
    BY <2>1 DEF P!Min, Atomic!Min
  <2> QED BY <2>1, <2>2
          DEF P!Scanned, Atomic!Scanned, P!Last, Atomic!Last, P!SelectInSeq,
              Atomic!SelectInSeq
<1>2. P!Unlisted(children, running, P!Scanned(pid))
        = Atomic!Unlisted(children, Seen.running, Atomic!Scanned(pid))
  BY <1>1, SeenLists, SameLists
<1>3. P!WaitNoChildren => Atomic!WaitNoChildren
  BY SeenLists
     DEF P!WaitNoChildren, Atomic!WaitNoChildren, P!Return, Atomic!Return,
         P!DSOS_EWAIT, Atomic!DSOS_EWAIT, P!family, Atomic!family, P!lists, Atomic!lists
<1>4. P!WaitReaps(pid) => Atomic!WaitReaps(pid)
  BY <1>1, <1>2, SeenLists DEF P!WaitReaps, Atomic!WaitReaps, P!Return, Atomic!Return
<1>5. P!WaitBlocks(pid) => Atomic!WaitBlocks(pid)
  BY <1>1, SeenLists
     DEF P!WaitBlocks, Atomic!WaitBlocks, P!Dispatch, Atomic!Dispatch, P!family,
         Atomic!family
<1>6. P!WaitCrashes(pid) => Atomic!WaitCrashes(pid)
  BY <1>1, SegvSeen, SeenLists DEF P!WaitCrashes, Atomic!WaitCrashes
<1> QED BY <1>3, <1>4, <1>5, <1>6, SeenLists
        DEF P!internal_wait, Atomic!internal_wait, P!UserMode, Atomic!UserMode

\* sleep,
LEMMA SleepSeen ==
    ASSUME Settled, NEW ticks
    PROVE  P!internal_sleep(ticks) => Atomic!internal_sleep(ticks)
<1>1. P!TimerList_add(timer_list, ticks, running)
        = Atomic!TimerList_add(Seen.timer_list, ticks, Seen.running)
  BY SameLists, SeenLists
<1> QED BY <1>1, SeenLists
        DEF P!internal_sleep, Atomic!internal_sleep, P!UserMode, Atomic!UserMode,
            P!Return, Atomic!Return, P!DSOS_ESLEEP, Atomic!DSOS_ESLEEP, P!Dispatch,
            Atomic!Dispatch, P!Cardinality, Atomic!Cardinality, P!lists, Atomic!lists,
            P!family, Atomic!family

\* preempt,
LEMMA PreemptSeen == ASSUME Settled PROVE P!internal_preempt => Atomic!internal_preempt
<1> DEFINE elapsed == P!Elapsed(timer_list)
           seenElapsed == Atomic!Elapsed(Seen.timer_list)
           wakes == [i \in DOMAIN elapsed |-> elapsed[i].pcb]
           seenWakes == [i \in DOMAIN seenElapsed |-> seenElapsed[i].pcb]
           ready == wakes \o ready_list
           seenReady == seenWakes \o Seen.ready_list
           set == P!ToSet(wakes)
           seenSet == Atomic!ToSet(seenWakes)
<1>1. elapsed = seenElapsed /\ P!Remaining(timer_list) = Atomic!Remaining(Seen.timer_list)
  BY SeenLists, SameLists
<1>2. wakes = seenWakes
  BY <1>1
<1>3. set = seenSet
  BY <1>2, SameLists
<1>4. ready = seenReady
  BY <1>2, SeenLists
<1>5. Atomic!Dispatch(Head(seenReady)) <=> P!Dispatch(Head(ready))
  BY <1>4, SeenLists DEF P!Dispatch, Atomic!Dispatch
<1>6. P!Requeued(ready, running) = Atomic!Requeued(seenReady, Seen.running)
  BY <1>4, SeenLists DEF P!Requeued, Atomic!Requeued
<1>7. [b \in PCBs |-> IF b \in set THEN "Ready" ELSE status[b]]
        = [b \in PCBs |-> IF b \in seenSet THEN "Ready" ELSE Seen.status[b]]
  BY <1>3, SeenLists
<1> QED BY <1>1, <1>2, <1>3, <1>4, <1>5, <1>6, <1>7, SeenLists
        DEF P!internal_preempt, Atomic!internal_preempt, P!UserMode, Atomic!UserMode,
            P!internal_schedule, Atomic!internal_schedule, P!family, Atomic!family

\* shutdown and a call on resources,
LEMMA OthersSeen ==
    ASSUME Settled
    PROVE  /\ P!internal_shutdown => Atomic!internal_shutdown
           /\ P!resource_call => Atomic!resource_call
<1>1. P!internal_shutdown => Atomic!internal_shutdown
  BY SeenLists
     DEF P!internal_shutdown, Atomic!internal_shutdown, P!UserMode, Atomic!UserMode,
         P!Stop, Atomic!Stop, P!lists, Atomic!lists, P!family, Atomic!family
<1>2. P!resource_call => Atomic!resource_call
  BY SegvSeen, SeenLists
     DEF P!resource_call, Atomic!resource_call, P!UserMode, Atomic!UserMode, P!Return,
         Atomic!Return, P!family, Atomic!family, P!lists, Atomic!lists
<1> QED BY <1>1, <1>2

\* and the second start.
LEMMA StartAgainSeen ==
    ASSUME Settled
    PROVE  P!disastrOS_start_again => Atomic!disastrOS_start_again
BY SegvSeen, SeenLists
   DEF P!disastrOS_start_again, Atomic!disastrOS_start_again, P!FreeBlocks,
       Atomic!FreeBlocks, P!lists, Atomic!lists
-----------------------------------------------------------------------------
\* The actions of Atomic and of PP are the same formulas under two names.
LEMMA SameInit == Atomic!Init <=> PP!Init
BY DEF Atomic!Init, PP!Init

\* A crash is the same step under either instance of Processes,
LEMMA SameSegvP == Atomic!Segv <=> PP!Segv
BY DEF Atomic!Segv, PP!Segv, Atomic!Stop, PP!Stop, Atomic!family, PP!family, Atomic!lists, PP!lists

\* so are the creation of a child,
LEMMA SameNewChild ==
    ASSUME NEW b
    PROVE  Atomic!NewChild(b) <=> PP!NewChild(b)
BY DEF Atomic!NewChild, PP!NewChild, Atomic!NoRoom, PP!NoRoom, Atomic!FreeBlocks,
       PP!FreeBlocks, Atomic!Return, PP!Return

\* spawn,
LEMMA SameSpawn == Atomic!internal_spawn <=> PP!internal_spawn
BY SameNewChild, SameSegvP
   DEF Atomic!internal_spawn, PP!internal_spawn, Atomic!UserMode, PP!UserMode, Atomic!NoRoom,
       PP!NoRoom, Atomic!FreeBlocks, PP!FreeBlocks

\* fork,
LEMMA SameFork == Atomic!internal_fork <=> PP!internal_fork
BY SameNewChild, SameSegvP
   DEF Atomic!internal_fork, PP!internal_fork, Atomic!UserMode, PP!UserMode, Atomic!NoRoom,
       PP!NoRoom, Atomic!FreeBlocks, PP!FreeBlocks

\* the outcomes of exit: it loops for ever,
LEMMA SameExitHangs == Atomic!ExitHangs <=> PP!ExitHangs
BY DEF Atomic!ExitHangs, PP!ExitHangs, Atomic!Stop, PP!Stop, Atomic!family, PP!family,
       Atomic!lists, PP!lists

\* crashes,
LEMMA SameExitCrashes == Atomic!ExitCrashes <=> PP!ExitCrashes
BY DEF Atomic!ExitCrashes, PP!ExitCrashes, Atomic!AfterReparenting, PP!AfterReparenting,
       Atomic!ParentAwaits, PP!ParentAwaits, Atomic!ToSet, PP!ToSet, Atomic!Segv, PP!Segv,
       Atomic!Stop, PP!Stop, Atomic!family, PP!family, Atomic!lists, PP!lists

\* leaves a zombie,
LEMMA SameExitToZombie == Atomic!ExitToZombie <=> PP!ExitToZombie
BY DEF Atomic!ExitToZombie, PP!ExitToZombie, Atomic!AfterReparenting,
       PP!AfterReparenting, Atomic!ParentAwaits, PP!ParentAwaits, Atomic!ExitSignals,
       PP!ExitSignals, Atomic!ToSet, PP!ToSet, Atomic!Dispatch, PP!Dispatch

\* or wakes the parent,
LEMMA SameExitWakesParent == Atomic!ExitWakesParent <=> PP!ExitWakesParent
BY DEF Atomic!ExitWakesParent, PP!ExitWakesParent, Atomic!AfterReparenting,
       PP!AfterReparenting, Atomic!ParentAwaits, PP!ParentAwaits, Atomic!ExitSignals,
       PP!ExitSignals, Atomic!ToSet, PP!ToSet, Atomic!Dispatch, PP!Dispatch, Atomic!Unlisted,
       PP!Unlisted, Atomic!RemoveFirst, PP!RemoveFirst, Atomic!RemoveAt, PP!RemoveAt,
       Atomic!WithoutTimersOf, PP!WithoutTimersOf, Atomic!SelectInSeq, PP!SelectInSeq,
       Atomic!Min, PP!Min

\* and so exit itself;
LEMMA SameExit == Atomic!internal_exit <=> PP!internal_exit
BY SameExitHangs, SameExitCrashes, SameExitToZombie, SameExitWakesParent
   DEF Atomic!internal_exit, PP!internal_exit, Atomic!UserMode, PP!UserMode

\* wait,
LEMMA SameWait ==
    ASSUME NEW pid
    PROVE  Atomic!internal_wait(pid) <=> PP!internal_wait(pid)
BY DEF Atomic!internal_wait, PP!internal_wait, Atomic!UserMode, PP!UserMode,
       Atomic!WaitNoChildren, PP!WaitNoChildren, Atomic!WaitReaps, PP!WaitReaps,
       Atomic!WaitBlocks, PP!WaitBlocks, Atomic!WaitCrashes, PP!WaitCrashes, Atomic!Return,
       PP!Return, Atomic!Dispatch, PP!Dispatch, Atomic!DSOS_EWAIT, PP!DSOS_EWAIT,
       Atomic!Unlisted, PP!Unlisted, Atomic!RemoveFirst, PP!RemoveFirst, Atomic!RemoveAt,
       PP!RemoveAt, Atomic!Scanned, PP!Scanned, Atomic!Last, PP!Last, Atomic!Segv, PP!Segv,
       Atomic!Stop, PP!Stop, Atomic!family, PP!family, Atomic!lists, PP!lists, Atomic!SelectInSeq,
       PP!SelectInSeq, Atomic!Min, PP!Min

\* sleep,
LEMMA SameSleep ==
    ASSUME NEW ticks
    PROVE  Atomic!internal_sleep(ticks) <=> PP!internal_sleep(ticks)
BY DEF Atomic!internal_sleep, PP!internal_sleep, Atomic!UserMode, PP!UserMode, Atomic!Return,
       PP!Return, Atomic!DSOS_ESLEEP, PP!DSOS_ESLEEP, Atomic!Dispatch, PP!Dispatch,
       Atomic!TimerList_add, PP!TimerList_add, Atomic!TimerList_position,
       PP!TimerList_position, Atomic!InsertAt, PP!InsertAt, Atomic!Cardinality,
       PP!Cardinality, Atomic!lists, PP!lists, Atomic!family, PP!family, Atomic!SelectInSeq,
       PP!SelectInSeq, Atomic!Min, PP!Min

\* a run of the scheduler,
LEMMA SameSchedule ==
    ASSUME NEW STATE list
    PROVE  Atomic!internal_schedule(list) <=> PP!internal_schedule(list)
BY DEF Atomic!internal_schedule, PP!internal_schedule, Atomic!Elapsed, PP!Elapsed,
       Atomic!Remaining, PP!Remaining, Atomic!NumElapsed, PP!NumElapsed, Atomic!Requeued,
       PP!Requeued, Atomic!ToSet, PP!ToSet, Atomic!Dispatch, PP!Dispatch, Atomic!family,
       PP!family, Atomic!SelectInSeq, PP!SelectInSeq, Atomic!Min, PP!Min

\* the timer interrupt,
LEMMA SameTimer == Atomic!timerInterrupt <=> PP!timerInterrupt
BY SameSchedule
   DEF Atomic!timerInterrupt, PP!timerInterrupt, Atomic!Ticked, PP!Ticked, Atomic!Segv,
       PP!Segv, Atomic!Stop, PP!Stop, Atomic!family, PP!family, Atomic!lists, PP!lists

\* preempt,
LEMMA SamePreempt == Atomic!internal_preempt <=> PP!internal_preempt
BY SameSchedule
   DEF Atomic!internal_preempt, PP!internal_preempt, Atomic!UserMode, PP!UserMode

\* the second start,
LEMMA SameStartAgain == Atomic!disastrOS_start_again <=> PP!disastrOS_start_again
BY DEF Atomic!disastrOS_start_again, PP!disastrOS_start_again, Atomic!FreeBlocks,
       PP!FreeBlocks, Atomic!Segv, PP!Segv, Atomic!Stop, PP!Stop, Atomic!family, PP!family,
       Atomic!lists, PP!lists

\* shutdown,
LEMMA SameShutdown == Atomic!internal_shutdown <=> PP!internal_shutdown
BY DEF Atomic!internal_shutdown, PP!internal_shutdown, Atomic!UserMode, PP!UserMode,
       Atomic!Stop, PP!Stop, Atomic!lists, PP!lists, Atomic!family, PP!family

\* a call on resources,
LEMMA SameResourceCall == Atomic!resource_call <=> PP!resource_call
BY DEF Atomic!resource_call, PP!resource_call, Atomic!UserMode, PP!UserMode, Atomic!Return,
       PP!Return, Atomic!Segv, PP!Segv, Atomic!Stop, PP!Stop, Atomic!family, PP!family,
       Atomic!lists, PP!lists

\* and the next-state relation.
LEMMA SameNext == Atomic!Next <=> PP!Next
BY SameSpawn, SameFork, SameExit, SameWait, SameSleep, SamePreempt,
   SameTimer, SameStartAgain, SameShutdown, SameResourceCall
   DEF Atomic!Next, PP!Next, Atomic!Pids, PP!Pids
-----------------------------------------------------------------------------
ContextModes == {"start", "user", "trap", "served", "restart", "remake", "handler"}
                  \cup Interrupt

\* Until a signal disturbs the kernel no context is saved from its stack or from
\* that of main.
Places == {"unset", "entry", "user", "call"}

ContextTypeOK ==
    /\ mode \in ContextModes
    /\ masked \in BOOLEAN /\ pending \in BOOLEAN
    /\ cpu_state \in [PCBs -> [at : Places, mask : BOOLEAN]]
    /\ stopped \in [PCBs -> Places \cup {"running"}]

\* Nobody runs only on the way from the trap to a new init, or when there was no
\* block for that init.
SomeoneRuns == machine = "up" /\ mode \notin {"restart", "remake"} => running # NULL

\* The signal cannot come in the trap, nor in what is left of timerHandler when
\* a process resumes there; and such a process resumes with the signal masked.
MaskOK ==
    /\ mode \in {"trap", "served", "handler"} => masked
    /\ \A p \in PCBs : cpu_state[p].at = "user" => cpu_state[p].mask

\* timerHandler returns to what it interrupted, and who runs had a context.
HandlerOK ==
    /\ mode = "handler" => cpu_state[running].at = "user"
    /\ mode = "user" => cpu_state[running].at # "unset"

\* Free blocks count: fork leaves the context of the block it takes alone.
SavedOK == \A p \in PCBs : stopped[p] # "running" => cpu_state[p].at = stopped[p]

\* The blocks that Processes.tla says have no context.
UnsetOK == \A p \in PCBs : cpu_state[p].at = "unset" <=> p \in no_context

\* timerHandler has saved the context of the process that it interrupted.
InterruptOK ==
    machine = "up" /\ mode \in Interrupt =>
        before.running # NULL /\ cpu_state[before.running].at = "user"

\* internal_schedule takes the NumDue first of the timers of TickedList, one
\* after the other; k of them give these lists.
TickedList == P!Ticked(before.timer_list)
NumDue     == P!NumElapsed(TickedList)

Woken(k)       == [i \in 1 .. k |-> TickedList[i].pcb]
WokenSet(k)    == {TickedList[i].pcb : i \in 1 .. k}
ReadyAfter(k)  == Woken(k) \o before.ready_list
StatusAfter(k) == [b \in PCBs |-> IF b \in WokenSet(k) THEN "Ready" ELSE before.status[b]]

\* Of the first timers, t are removed, r processes inserted and s detached.
LoopAt(t, r, s) ==
    /\ t \in 0 .. NumDue /\ r \in 0 .. NumDue /\ s \in 0 .. NumDue
    /\ timer_list = SubSeq(TickedList, t + 1, Len(TickedList))
    /\ ready_list = ReadyAfter(r)
    /\ waiting_list = before.waiting_list \ WokenSet(s)
    /\ status = StatusAfter(s)
    /\ running = before.running

\* The loop has ended, and the first of the ready list may run.
LoopEnded ==
    /\ timer_list = SubSeq(TickedList, NumDue + 1, Len(TickedList))
    /\ waiting_list = before.waiting_list \ WokenSet(NumDue)

First == Head(ReadyAfter(NumDue))
Rest  == Tail(ReadyAfter(NumDue))

Switched ==
    /\ LoopEnded /\ ReadyAfter(NumDue) # <<>>
    /\ ready_list = Append(Rest, before.running)
    /\ status = [StatusAfter(NumDue) EXCEPT ![before.running] = "Ready", ![First] = "Running"]

\* How far internal_schedule is from the lists that it found.
ScheduleOK ==
    /\ mode = "interrupt" => Lists = before
    /\ mode = "timers" => LoopAt(woken, woken, woken)
    /\ mode = "wake" => LoopAt(woken, woken, woken + 1)
    /\ mode = "woken" => LoopAt(woken - 1, woken, woken)
    /\ mode = "switch" =>
          /\ LoopEnded /\ ReadyAfter(NumDue) # <<>>
          /\ running = before.running /\ next_process = First /\ ready_list = Rest
          /\ status = [StatusAfter(NumDue) EXCEPT ![before.running] = "Ready"]
    /\ mode = "switched" => Switched /\ running = before.running /\ next_process = First
    /\ mode = "scheduled" =>
          \/ ReadyAfter(NumDue) = <<>> /\ LoopAt(NumDue, NumDue, NumDue)
          \/ Switched /\ running = First

Sound ==
    /\ PP!IInv /\ ContextTypeOK /\ SomeoneRuns /\ MaskOK /\ HandlerOK /\ SavedOK
    /\ UnsetOK /\ InterruptOK /\ (machine = "up" => ScheduleOK)

CInv == disturbed \in BOOLEAN /\ (~ disturbed => Sound)

\* The assumption of Processes follows from that of Contexts.
LEMMA Assumptions == PP!ProcessAssumption
BY ContextAssumption DEF PP!ProcessAssumption, IsFiniteSet, PP!IsFiniteSet
-----------------------------------------------------------------------------
\* What is left of a list when its first k elements are taken.
LEMMA Left ==
    ASSUME NEW S, NEW list \in Seq(S), NEW k \in 0 .. Len(list)
    PROVE  LET left == SubSeq(list, k + 1, Len(list))
           IN  /\ left = <<>> <=> k = Len(list)
               /\ k < Len(list) => /\ Head(left) = list[k + 1]
                                   /\ Tail(left) = SubSeq(list, k + 2, Len(list))
<1> DEFINE left == SubSeq(list, k + 1, Len(list))
           rest == SubSeq(list, k + 2, Len(list))
<1>1. /\ left \in Seq(S) /\ DOMAIN left = 1 .. Len(list) - k
      /\ \A i \in 1 .. Len(list) - k : left[i] = list[k + i]
  BY PP!CutPlaces, Assumptions
<1>2. Len(left) = Len(list) - k /\ Len(list) \in Nat
  BY <1>1
<1>3. ASSUME k < Len(list) PROVE Tail(left) = rest
  <2>1. /\ rest \in Seq(S) /\ DOMAIN rest = 1 .. Len(list) - (k + 1)
        /\ \A i \in 1 .. Len(list) - (k + 1) : rest[i] = list[(k + 1) + i]
    <3>1. k + 1 \in 0 .. Len(list) /\ (k + 1) + 1 = k + 2
      BY <1>3
    <3> QED BY <3>1, PP!CutPlaces, Assumptions
  <2>2. Len(rest) = Len(list) - (k + 1)
    BY <1>2, <1>3, <2>1
  <2> HIDE DEF left, rest
  <2>3. /\ Tail(left) \in Seq(S) /\ Len(Tail(left)) = Len(left) - 1
        /\ \A i \in 1 .. Len(left) - 1 : Tail(left)[i] = left[i + 1]
    BY <1>1, <1>2, <1>3
  <2>4. ASSUME NEW i \in 1 .. Len(rest) PROVE Tail(left)[i] = rest[i]
    <3>1. /\ i \in 1 .. Len(left) - 1 /\ i + 1 \in 1 .. Len(list) - k
          /\ k + (i + 1) = (k + 1) + i
      BY <1>2, <1>3, <2>2
    <3> QED BY <1>1, <2>1, <2>2, <2>3, <3>1
  <2>5. Len(Tail(left)) = Len(rest)
    BY <1>2, <1>3, <2>2, <2>3
  <2> HIDE <1>1, <1>2, <1>3
  <2> QED BY <2>1, <2>3, <2>4, <2>5
<1> HIDE DEF left
<1>4. k < Len(list) => Head(left) = list[k + 1]
  BY <1>1, <1>2
<1>5. left = <<>> <=> k = Len(list)
  BY <1>1, <1>2
<1> QED BY <1>3, <1>4, <1>5 DEF left

\* The elements of two lists, one after the other.
LEMMA Joined ==
    ASSUME NEW S, NEW s \in Seq(S), NEW t \in Seq(S)
    PROVE  /\ Len(s \o t) = Len(s) + Len(t)
           /\ \A i \in 1 .. Len(s) + Len(t) :
                 (s \o t)[i] = IF i <= Len(s) THEN s[i] ELSE t[i - Len(s)]
OBVIOUS

\* The operators on lists of P and of PP are the same.
LEMMA SameFacts ==
    ASSUME NEW list, NEW n, NEW e
    PROVE  /\ P!Ticked(list) = PP!Ticked(list)
           /\ P!NumElapsed(list) = PP!NumElapsed(list)
           /\ P!InsertAt(list, n, e) = PP!InsertAt(list, n, e)
BY DEF P!Ticked, PP!Ticked, P!NumElapsed, PP!NumElapsed, P!InsertAt, PP!InsertAt,
       P!SelectInSeq, PP!SelectInSeq, P!Min, PP!Min

\* The timers of an interrupt: the due ones are in front.
LEMMA TickedTimers ==
    ASSUME Sound, machine = "up", mode \in Interrupt
    PROVE  /\ TickedList \in Seq(PP!Timers) /\ Len(TickedList) \in Nat
           /\ NumDue \in 0 .. Len(TickedList)
           /\ \A i \in 1 .. Len(TickedList) :
                 /\ TickedList[i].pcb \in PCBs /\ TickedList[i].left \in Int
                 /\ i <= NumDue <=> TickedList[i].left <= 0
           /\ before.ready_list \in Seq(PCBs) /\ before.running \in PCBs
           /\ before.status \in [PCBs -> PP!Statuses] /\ before.waiting_list \subseteq PCBs
           /\ before.running # NULL /\ Seen = before
<1>1. Seen = before
  BY DEF Seen
<1>2. /\ before.timer_list \in Seq(PP!Timers)
      /\ PP!OneTimerEach(before.timer_list) /\ PP!InOrder(before.timer_list)
      /\ before.ready_list \in Seq(PCBs) /\ before.running \in PCBs \cup {NULL}
      /\ before.status \in [PCBs -> PP!Statuses] /\ before.waiting_list \subseteq PCBs
  BY <1>1 DEF Sound, PP!IInv, PP!TypeOK, PP!TimersOK
<1>3. before.running # NULL
  BY DEF Sound, InterruptOK
<1>4. TickedList \in Seq(PP!Timers) /\ PP!InOrder(TickedList)
  BY <1>2, PP!TickedTimers, SameFacts, Assumptions DEF TickedList
<1>5. /\ NumDue \in 0 .. Len(TickedList)
      /\ \A i \in 1 .. Len(TickedList) : i <= NumDue <=> TickedList[i].left <= 0
  BY <1>4, PP!WhichElapsed, SameFacts, Assumptions DEF NumDue
<1>6. /\ Len(TickedList) \in Nat
      /\ \A i \in 1 .. Len(TickedList) :
            TickedList[i].pcb \in PCBs /\ TickedList[i].left \in Int
  BY <1>4, PP!TimersType, Assumptions
<1> QED BY <1>1, <1>2, <1>3, <1>4, <1>5, <1>6

\* The processes woken, one after the other.
LEMMA WokenLists ==
    ASSUME Sound, machine = "up", mode \in Interrupt, NEW k \in 0 .. NumDue
    PROVE  /\ Woken(k) \in Seq(PCBs) /\ Len(Woken(k)) = k /\ WokenSet(k) \subseteq PCBs
           /\ ReadyAfter(k) \in Seq(PCBs)
           /\ StatusAfter(k) \in [PCBs -> PP!Statuses]
<1>1. /\ NumDue \in 0 .. Len(TickedList)
      /\ \A i \in 1 .. Len(TickedList) : TickedList[i].pcb \in PCBs
      /\ Len(TickedList) \in Nat /\ before.ready_list \in Seq(PCBs)
      /\ before.status \in [PCBs -> PP!Statuses]
  BY TickedTimers
<1>2. \A i \in 1 .. k : TickedList[i].pcb \in PCBs
  BY <1>1
<1>3. Woken(k) \in Seq(PCBs) /\ Len(Woken(k)) = k
  BY <1>1, <1>2 DEF Woken
<1>4. ReadyAfter(k) \in Seq(PCBs)
  BY <1>1, <1>3 DEF ReadyAfter
<1>5. StatusAfter(k) \in [PCBs -> PP!Statuses]
  BY <1>1 DEF StatusAfter, PP!Statuses
<1> QED BY <1>2, <1>3, <1>4, <1>5 DEF WokenSet

\* One more.
LEMMA WakesNext ==
    ASSUME Sound, machine = "up", mode \in Interrupt, NEW k \in 0 .. NumDue, k < NumDue
    PROVE  /\ P!InsertAt(ReadyAfter(k), k + 1, TickedList[k + 1].pcb) = ReadyAfter(k + 1)
           /\ WokenSet(k + 1) = WokenSet(k) \cup {TickedList[k + 1].pcb}
           /\ [StatusAfter(k) EXCEPT ![TickedList[k + 1].pcb] = "Ready"] = StatusAfter(k + 1)
<1> DEFINE e == TickedList[k + 1].pcb
           s == ReadyAfter(k)
           next == ReadyAfter(k + 1)
           b == before.ready_list
<1>1. /\ NumDue \in Nat /\ k \in Nat /\ k + 1 \in 0 .. NumDue
      /\ e \in PCBs /\ b \in Seq(PCBs) /\ Len(b) \in Nat
  BY TickedTimers
<1>2. /\ Woken(k) \in Seq(PCBs) /\ Len(Woken(k)) = k /\ s \in Seq(PCBs)
      /\ Woken(k + 1) \in Seq(PCBs) /\ Len(Woken(k + 1)) = k + 1 /\ next \in Seq(PCBs)
  BY <1>1, WokenLists
<1>3. /\ \A i \in 1 .. k : Woken(k)[i] = TickedList[i].pcb
      /\ \A i \in 1 .. k + 1 : Woken(k + 1)[i] = TickedList[i].pcb
  BY DEF Woken
<1>4. /\ Len(s) = k + Len(b) /\ Len(next) = k + 1 + Len(b)
      /\ \A i \in 1 .. k + Len(b) :
            s[i] = IF i <= k THEN TickedList[i].pcb ELSE b[i - k]
      /\ \A i \in 1 .. k + 1 + Len(b) :
            next[i] = IF i <= k + 1 THEN TickedList[i].pcb ELSE b[i - (k + 1)]
  <2>1. ASSUME NEW n \in {k, k + 1}
        PROVE  /\ Len(ReadyAfter(n)) = n + Len(b)
               /\ \A i \in 1 .. n + Len(b) :
                     ReadyAfter(n)[i] = IF i <= n THEN Woken(n)[i] ELSE b[i - n]
    <3>1. Woken(n) \in Seq(PCBs) /\ Len(Woken(n)) = n
      BY <1>2
    <3> HIDE DEF b
    <3>2. ReadyAfter(n) = Woken(n) \o b
      BY DEF ReadyAfter, b
    <3> QED BY <1>1, <3>1, <3>2, Joined
  <2>2. \A i \in 1 .. k + Len(b) : i <= k => i \in 1 .. k
    BY <1>1
  <2>3. \A i \in 1 .. k + 1 + Len(b) : i <= k + 1 => i \in 1 .. k + 1
    BY <1>1
  <2> QED BY <1>1, <1>3, <2>1, <2>2, <2>3
<1>5. P!InsertAt(s, k + 1, e) = next
  <2> HIDE DEF s, next, b, e
  <2> DEFINE u == PP!InsertAt(s, k + 1, e)
  <2>1. k + 1 \in 1 .. Len(s) + 1
    BY <1>1, <1>4
  <2>2. /\ u \in Seq(PCBs) /\ DOMAIN u = 1 .. Len(s) + 1
        /\ \A i \in 1 .. Len(s) + 1 :
              u[i] = IF i < k + 1 THEN s[i] ELSE IF i = k + 1 THEN e ELSE s[i - 1]
    BY <1>1, <1>2, <2>1, PP!InsertPlaces, PP!InsertList, Assumptions
  <2> HIDE DEF u
  <2>3. Len(u) = Len(next)
    BY <1>1, <1>4, <2>2
  <2>4. ASSUME NEW i \in 1 .. Len(next) PROVE u[i] = next[i]
    <3>1. CASE i <= k
      BY <1>1, <1>4, <2>2, <3>1
    <3>2. CASE i = k + 1
      BY <1>1, <1>4, <2>2, <3>2 DEF e
    <3>3. CASE i > k + 1
      <4>1. i - 1 \in 1 .. k + Len(b) /\ i \in 1 .. Len(s) + 1 /\ (i - 1) - k = i - (k + 1)
        BY <1>1, <1>4, <3>3
      <4> QED BY <1>1, <1>4, <2>2, <3>3, <4>1
    <3> QED BY <1>1, <1>4, <3>1, <3>2, <3>3
  <2>5. u = next
    BY <1>2, <2>2, <2>3, <2>4
  <2> QED BY <2>5, SameFacts DEF u
<1>6. WokenSet(k + 1) = WokenSet(k) \cup {e}
  BY <1>1 DEF WokenSet
<1>7. [StatusAfter(k) EXCEPT ![e] = "Ready"] = StatusAfter(k + 1)
  BY <1>1, <1>6 DEF StatusAfter
<1> QED BY <1>5, <1>6, <1>7
-----------------------------------------------------------------------------
\* What Processes.tla sees does not change.
LEMMA SeenStutter ==
    ASSUME Seen' = Seen,
           UNCHANGED <<machine, init_pcb, zombie_list, pcbs, parent, children, signals,
                       awaits, no_context, returned, pcbptr_pool, syscall_retvalue>>
    PROVE  UNCHANGED Atomic!vars
BY DEF Atomic!vars, Atomic!lists, Atomic!family

\* A step of internal_schedule is not seen.
LEMMA SchedulerUnseen ==
    ASSUME NEW from \in Interrupt, NEW to \in Interrupt, SchedulerStep(from, to)
    PROVE  UNCHANGED Atomic!vars
<1>1. Seen' = Seen
  BY DEF SchedulerStep, Up, Seen
<1> QED BY <1>1, SeenStutter DEF SchedulerStep

\* The steps of the scheduler are these.
LEMMA SchedulerSteps ==
    ASSUME timerInterrupt \/ internal_schedule
    PROVE  \E from \in Interrupt : \E to \in Interrupt : SchedulerStep(from, to)
<1>1. CASE timerInterrupt
  BY <1>1 DEF timerInterrupt, Interrupt
<1>2. CASE DetachSleeper
  BY <1>2 DEF DetachSleeper, Interrupt
<1>3. CASE InsertWoken
  BY <1>3 DEF InsertWoken, Interrupt
<1>4. CASE RemoveTimer
  BY <1>4 DEF RemoveTimer, Interrupt
<1>5. CASE KeepRunning
  BY <1>5 DEF KeepRunning, Interrupt
<1>6. CASE TakeNext
  BY <1>6 DEF TakeNext, Interrupt
<1>7. CASE RequeueRunning
  BY <1>7 DEF RequeueRunning, Interrupt
<1>8. CASE RunNext
  BY <1>8 DEF RunNext, Interrupt
<1> QED BY <1>1, <1>2, <1>3, <1>4, <1>5, <1>6, <1>7, <1>8 DEF internal_schedule

\* Outside timer interrupts all is seen.
LEMMA Calm ==
    ASSUME mode \notin Interrupt \/ machine # "up",
           mode' \notin Interrupt \/ machine' # "up"
    PROVE  Settled
BY DEF Settled, Seen

\* A signal that does not disturb the kernel comes while a process runs its own
\* function.
LEMMA QuietSignal ==
    ASSUME Sound, timerHandler, disturbed \in BOOLEAN, ~ disturbed'
    PROVE  \/ NobodyRuns /\ mode \in {"restart", "remake"}
           \/ Swaps /\ mode = "user"
<1>1. ~ Tears /\ ~ masked /\ machine = "up"
  BY DEF timerHandler, Tears
<1>2. mode \notin {"trap", "served", "handler"} /\ mode \in ContextModes
  BY <1>1 DEF Sound, MaskOK, ContextTypeOK
<1>3. CASE NobodyRuns
  BY <1>1, <1>3 DEF Sound, SomeoneRuns, NobodyRuns
<1>4. CASE Swaps
  <2>1. mode \notin Interrupt \cup Starting
    BY <1>4 DEF Swaps
  <2> QED BY <1>2, <1>4, <2>1 DEF ContextModes, Starting
<1> QED BY <1>1, <1>3, <1>4 DEF timerHandler

\* The end of a timer interrupt: all at once, to the lists that it found, what
\* internal_schedule of Processes.tla does.
LEMMA InterruptSeen ==
    ASSUME Sound, InterruptReturns
    PROVE  Atomic!timerInterrupt
<1>1. /\ machine = "up" /\ mode = "scheduled" /\ mode \in Interrupt /\ Resume
  BY DEF InterruptReturns, Up, Interrupt
<1> DEFINE elapsed == Atomic!Elapsed(TickedList)
           wakes == [i \in DOMAIN elapsed |-> elapsed[i].pcb]
           ready == wakes \o before.ready_list
           awake == [b \in PCBs |-> IF b \in Atomic!ToSet(wakes) THEN "Ready"
                                                                 ELSE before.status[b]]
<1>2. /\ TickedList \in Seq(PP!Timers) /\ Len(TickedList) \in Nat
      /\ NumDue \in 0 .. Len(TickedList) /\ NumDue \in 0 .. NumDue
      /\ before.running # NULL /\ before.running \in PCBs
      /\ before.status \in [PCBs -> PP!Statuses] /\ before.waiting_list \subseteq PCBs
      /\ Seen = before
  BY <1>1, TickedTimers
<1>3. elapsed = SubSeq(TickedList, 1, NumDue)
  BY SameLists DEF P!Elapsed, NumDue
<1>4. /\ DOMAIN elapsed = 1 .. NumDue
      /\ \A i \in 1 .. NumDue : elapsed[i] = TickedList[i]
  BY <1>2, <1>3, PP!CutPlaces, Assumptions
<1>5. wakes = Woken(NumDue)
  BY <1>4 DEF Woken
<1>6. Atomic!ToSet(wakes) = WokenSet(NumDue)
  <2>1. DOMAIN wakes = 1 .. NumDue /\ \A i \in 1 .. NumDue : wakes[i] = TickedList[i].pcb
    BY <1>4
  <2> HIDE DEF wakes
  <2> QED BY <2>1 DEF Atomic!ToSet, WokenSet
<1>7. /\ ready = ReadyAfter(NumDue)
      /\ awake = StatusAfter(NumDue)
      /\ Atomic!Remaining(TickedList) = SubSeq(TickedList, NumDue + 1, Len(TickedList))
      /\ TickedList = Atomic!Ticked(Seen.timer_list)
  <2>1. ready = ReadyAfter(NumDue)
    BY <1>5 DEF ReadyAfter
  <2>2. awake = StatusAfter(NumDue)
    BY <1>6 DEF StatusAfter
  <2>3. Atomic!Remaining(TickedList) = SubSeq(TickedList, NumDue + 1, Len(TickedList))
    BY SameLists DEF P!Remaining, NumDue
  <2>4. TickedList = Atomic!Ticked(Seen.timer_list)
    BY <1>2, SameLists DEF TickedList
  <2> QED BY <2>1, <2>2, <2>3, <2>4
<1> HIDE DEF elapsed, wakes, ready, awake
<1>8. /\ UNCHANGED <<running, ready_list, waiting_list, timer_list, status, init_pcb,
                     zombie_list, pcbs, parent, children, signals, awaits, no_context,
                     returned, pcbptr_pool, syscall_retvalue>>
      /\ machine' = IF running \in no_context THEN "segv" ELSE machine
      /\ mode' \notin Interrupt \/ machine' # "up"
  <2>1. running \in PCBs
    BY <1>1, <1>2, WokenLists DEF Sound, ScheduleOK, LoopAt, Switched, First
  <2>2. cpu_state[running].at = "unset" <=> running \in no_context
    BY <2>1 DEF Sound, UnsetOK
  <2>3. cpu_state[running].at # "lost"
    BY <2>1 DEF Sound, ContextTypeOK, Places
  <2> QED BY <1>1, <2>2, <2>3
          DEF Resume, P!Segv, P!Stop, P!lists, P!family, processVars, Interrupt
<1>9. Seen' = Lists'
  BY <1>8 DEF Seen
<1>10. /\ Seen'.running = running /\ Seen'.ready_list = ready_list
       /\ Seen'.waiting_list = waiting_list /\ Seen'.timer_list = timer_list
       /\ Seen'.status = status
  BY <1>8, <1>9 DEF Lists
<1>11. /\ timer_list = Atomic!Remaining(TickedList)
       /\ waiting_list = Seen.waiting_list \ Atomic!ToSet(wakes)
  BY <1>1, <1>2, <1>6, <1>7 DEF Sound, ScheduleOK, LoopAt, Switched, LoopEnded
<1>12. CASE ready = <<>>
  <2>1. LoopAt(NumDue, NumDue, NumDue)
    BY <1>1, <1>7, <1>12 DEF Sound, ScheduleOK, Switched
  <2>2. NumDue = 0 /\ before.ready_list = <<>>
    <3>1. Woken(NumDue) \in Seq(PCBs) /\ Len(Woken(NumDue)) = NumDue
          /\ before.ready_list \in Seq(PCBs)
      BY <1>1, <1>2, WokenLists, TickedTimers
    <3>2. Woken(NumDue) \o before.ready_list = <<>>
      BY <1>7, <1>12 DEF ReadyAfter
    <3>3. Len(Woken(NumDue)) = 0 /\ Len(before.ready_list) = 0
      BY <3>1, <3>2
    <3> QED BY <3>1, <3>3
  <2>3. StatusAfter(NumDue) = before.status
    BY <1>2, <2>2 DEF StatusAfter, WokenSet
  <2>4. ready_list = before.ready_list /\ running = before.running /\ status = before.status
    BY <1>7, <1>12, <2>1, <2>2, <2>3 DEF LoopAt
  <2>5. running \notin no_context
    BY <1>1, <1>2, <2>4 DEF Sound, InterruptOK, UnsetOK
  <2> QED BY <1>1, <1>2, <1>7, <1>8, <1>10, <1>11, <1>12, <2>4, <2>5
          DEF Atomic!timerInterrupt, Atomic!internal_schedule, Atomic!family, elapsed,
              wakes, ready, awake
<1>13. CASE ready # <<>>
  <2>1. Switched /\ running = First
    BY <1>1, <1>7, <1>13 DEF Sound, ScheduleOK
  <2>2. /\ ready_list = Atomic!Requeued(ready, Seen.running)
        /\ running = Head(ready)
        /\ status = [awake EXCEPT ![Seen.running] = "Ready", ![Head(ready)] = "Running"]
    BY <1>2, <1>7, <2>1 DEF Switched, First, Rest, Atomic!Requeued
  <2>3. Atomic!Dispatch(Head(ready))
    BY <1>8, <1>10, <2>2 DEF Atomic!Dispatch
  <2>4. /\ Seen'.timer_list = Atomic!Remaining(TickedList)
        /\ Seen'.waiting_list = Seen.waiting_list \ Atomic!ToSet(wakes)
        /\ Seen'.ready_list = Atomic!Requeued(ready, Seen.running)
        /\ Seen'.status = [awake EXCEPT ![Seen.running] = "Ready",
                                        ![Head(ready)] = "Running"]
        /\ UNCHANGED <<init_pcb, zombie_list, Atomic!family, signals, awaits, no_context,
                       returned, pcbptr_pool, syscall_retvalue>>
    BY <1>8, <1>10, <1>11, <2>2 DEF Atomic!family
  <2>5. ready = wakes \o Seen.ready_list
    BY <1>2 DEF ready
  <2>6. awake = [b \in PCBs |-> IF b \in Atomic!ToSet(wakes) THEN "Ready"
                                                             ELSE Seen.status[b]]
    BY <1>2 DEF awake
  <2>7. Atomic!internal_schedule(TickedList)
    BY <1>13, <2>3, <2>4, <2>5, <2>6 DEF Atomic!internal_schedule, elapsed, wakes
  <2> QED BY <1>1, <1>2, <1>7, <2>7 DEF Atomic!timerInterrupt
<1> QED BY <1>12, <1>13

\* Every step that disturbs nothing is one of Processes.tla or is not seen.  A
\* resumption without a context counts as a call that crashed.
LEMMA StepSeen ==
    ASSUME Sound, [Next]_vars, disturbed \in BOOLEAN, ~ disturbed'
    PROVE  [Atomic!Next]_(Atomic!vars)
<1>1. UNCHANGED processVars /\ Settled => UNCHANGED Atomic!vars
  BY SeenLists, SeenStutter DEF processVars, Settled, Lists
<1>2. ASSUME Resume, machine = "up", running # NULL, mode \in {"start", "served"}
      PROVE  [Atomic!Next]_(Atomic!vars)
  <2>1. mode \notin Interrupt /\ (mode' \notin Interrupt \/ machine' # "up")
    BY <1>2 DEF Resume, Interrupt, P!Segv, P!Stop, signalVars
  <2>2. Settled
    BY <2>1, Calm
  <2>3. P!Segv \/ UNCHANGED processVars
    BY <1>2 DEF Resume
  <2>4. Atomic!Segv => Atomic!resource_call
    BY <1>2, <2>2, SeenLists DEF Atomic!resource_call, Atomic!UserMode
  <2> QED BY <1>1, <2>2, <2>3, <2>4, SegvSeen DEF Atomic!Next
<1>3. CASE Start \/ TrapReturns
  BY <1>2, <1>3 DEF Start, TrapReturns, Up, Sound, SomeoneRuns
<1>4. CASE Trap
  <2>1. Settled
    BY <1>4, Calm DEF Trap, Up, Interrupt
  <2>2. P!Pids = Atomic!Pids
    BY DEF P!Pids, Atomic!Pids
  <2> QED BY <1>4, <2>1, <2>2, SpawnSeen, ExitSeen, WaitSeen, SleepSeen, PreemptSeen, OthersSeen
          DEF Trap, Spawn, OtherHandler, Atomic!Next
<1>5. CASE Remake
  <2>1. Settled
    BY <1>5, Calm DEF Remake, Up, Interrupt
  <2> QED BY <1>5, <2>1, StartAgainSeen DEF Remake, Atomic!Next
<1>6. CASE timerInterrupt \/ internal_schedule
  BY <1>6, SchedulerSteps, SchedulerUnseen
<1>7. CASE InterruptReturns
  BY <1>7, InterruptSeen DEF Atomic!Next
<1>8. CASE timerHandler
  <2>1. CASE NobodyRuns /\ mode \in {"restart", "remake"}
    <3>1. P!timerInterrupt /\ running = NULL /\ UNCHANGED mode
      BY <2>1 DEF NobodyRuns
    <3>2. Settled
      BY <2>1, <3>1, Calm DEF Interrupt
    <3>3. Atomic!timerInterrupt
      BY <3>1, <3>2, SegvSeen, SeenLists DEF P!timerInterrupt, Atomic!timerInterrupt
    <3> QED BY <3>3 DEF Atomic!Next
  <2>2. CASE Swaps /\ mode = "user"
    <3>1. machine = "up" /\ mode' = "interrupt" /\ before' = Lists /\ UNCHANGED processVars
      BY <1>8, <2>2 DEF timerHandler, Swaps
    <3>2. Seen = Lists /\ Seen' = before'
      BY <2>2, <3>1 DEF Seen, Interrupt, processVars
    <3> QED BY <3>1, <3>2, SeenStutter DEF processVars
  <2> QED BY <1>8, <2>1, <2>2, QuietSignal
<1>9. CASE Syscall \/ FunctionReturns \/ Restart
  <2>1. Settled
    BY <1>9, Calm DEF Syscall, FunctionReturns, Restart, Up, Interrupt
  <2> QED BY <1>1, <1>9, <2>1 DEF Syscall, FunctionReturns, Restart
<1>10. CASE HandlerReturns
  <2>1. mode = "handler" /\ mode' = "user" /\ UNCHANGED processVars
    BY <1>10 DEF HandlerReturns, Up, Sound, HandlerOK
  <2>2. Settled
    BY <2>1, Calm DEF Interrupt
  <2> QED BY <1>1, <2>1, <2>2
<1>11. CASE Expire \/ UNCHANGED vars
  <2>1. UNCHANGED <<processVars, mode, before>>
    BY <1>11 DEF Expire, vars, signalVars, locals
  <2>2. Seen' = Seen
    BY <2>1 DEF Seen, Lists, processVars
  <2> QED BY <2>1, <2>2, SeenStutter DEF processVars
<1> QED BY <1>3, <1>4, <1>5, <1>6, <1>7, <1>8, <1>9, <1>10, <1>11 DEF Next, Kernel
-----------------------------------------------------------------------------
\* SIGALRM disturbs the kernel once and for all.
LEMMA Undisturbed ==
    ASSUME disturbed \in BOOLEAN, [Next]_vars
    PROVE  disturbed' \in BOOLEAN /\ (~ disturbed' => ~ disturbed)
<1>1. CASE UNCHANGED disturbed
  BY <1>1
<1>2. CASE timerHandler
  <2>1. CASE Tears
    BY <2>1 DEF Tears
  <2>2. CASE NobodyRuns
    BY <1>1, <2>2 DEF NobodyRuns
  <2>3. CASE Swaps
    <3>1. disturbed' = (disturbed \/ mode \in Interrupt \cup Starting)
      BY <2>3 DEF Swaps
    <3> QED BY <3>1, Zenon
  <2> QED BY <1>2, <2>1, <2>2, <2>3 DEF timerHandler
<1>3. CASE timerInterrupt \/ internal_schedule
  BY <1>1, <1>3, SchedulerSteps DEF SchedulerStep
<1> QED BY <1>1, <1>2, <1>3
        DEF Next, Kernel, Start, TrapReturns, InterruptReturns, Resume, signalVars, Trap,
            HandlerReturns, Restart, Remake, Syscall, FunctionReturns, Expire, vars

\* What the contexts add to the invariant of the processes.
ContextInv ==
    /\ ContextTypeOK /\ SomeoneRuns /\ MaskOK /\ HandlerOK /\ SavedOK
    /\ UnsetOK /\ InterruptOK /\ (machine = "up" => ScheduleOK)

\* The running process is a PCB.
LEMMA Running ==
    ASSUME Sound, machine = "up", running # NULL
    PROVE  running \in PCBs
<1>1. CASE mode \in Interrupt
  <2>1. before.running \in PCBs /\ NumDue \in 0 .. NumDue
    BY <1>1, TickedTimers
  <2>2. ReadyAfter(NumDue) \in Seq(PCBs)
    BY <1>1, <2>1, WokenLists
  <2>3. mode = "interrupt" => running = before.running
    BY DEF Sound, ScheduleOK, Lists
  <2>4. \/ running = before.running
        \/ ReadyAfter(NumDue) # <<>> /\ running = Head(ReadyAfter(NumDue))
    BY <1>1, <2>3 DEF Sound, ScheduleOK, LoopAt, Switched, Interrupt, First
  <2> QED BY <2>1, <2>2, <2>4
<1>2. CASE mode \notin Interrupt
  <2>1. Seen.running = running
    BY <1>2 DEF Seen, Lists
  <2> QED BY <2>1 DEF Sound, PP!IInv, PP!TypeOK
<1> QED BY <1>1, <1>2

\* Outside timer interrupts nothing is half done.
LEMMA NotScheduling ==
    ASSUME mode' \notin Interrupt \/ machine' # "up"
    PROVE  InterruptOK' /\ (machine' = "up" => ScheduleOK')
BY DEF InterruptOK, ScheduleOK, Interrupt

\* A process goes on from its saved context with the mask that it had.
LEMMA ResumeStep ==
    ASSUME Sound, Resume, machine = "up", running # NULL, mode # "handler"
    PROVE  ContextInv'
<1>1. running \in PCBs
  BY Running
<1> USE DEF Sound, ContextInv
<1>2. CASE cpu_state[running].at # "unset"
  <2>1. /\ mode' = IF cpu_state[running].at = "user" THEN "handler" ELSE "user"
        /\ masked' = cpu_state[running].mask
        /\ stopped' = [stopped EXCEPT ![running] = "running"]
        /\ UNCHANGED <<machine, running, no_context, pending, cpu_state>>
    BY <1>1, <1>2 DEF Resume, processVars, ContextTypeOK, Places
  <2>2. ContextTypeOK'
    BY <1>1, <2>1 DEF ContextTypeOK, ContextModes
  <2>3. SomeoneRuns' /\ HandlerOK'
    BY <1>1, <1>2, <2>1 DEF SomeoneRuns, HandlerOK
  <2>4. MaskOK' /\ UnsetOK'
    BY <1>1, <2>1 DEF MaskOK, UnsetOK
  <2>5. SavedOK'
    BY <1>1, <2>1 DEF SavedOK, ContextTypeOK
  <2>6. mode' \notin Interrupt
    BY <2>1 DEF Interrupt
  <2> QED BY <2>2, <2>3, <2>4, <2>5, <2>6, NotScheduling
<1>3. CASE cpu_state[running].at = "unset"
  <2>1. machine' = "segv" /\ UNCHANGED <<signalVars, running, no_context>>
    BY <1>3 DEF Resume, P!Segv, P!Stop
  <2> QED BY <2>1, NotScheduling
          DEF signalVars, ContextTypeOK, SomeoneRuns, MaskOK, HandlerOK, SavedOK, UnsetOK
<1> QED BY <1>2, <1>3

\* A system call saves the caller's context and masks the timer.
LEMMA SyscallStep ==
    ASSUME Sound, Syscall
    PROVE  ContextInv'
<1>1. machine = "up" /\ mode = "user" /\ running # NULL
  BY DEF Sound, SomeoneRuns, Syscall, Up
<1>2. running \in PCBs
  BY <1>1, Running
<1>3. /\ cpu_state' = [cpu_state EXCEPT ![running] = [at |-> "call", mask |-> masked]]
      /\ stopped' = [stopped EXCEPT ![running] = "call"]
      /\ mode' = "trap" /\ masked' = TRUE
      /\ UNCHANGED <<machine, running, no_context, pending>>
  BY DEF Syscall, trap_mask, processVars
<1> USE DEF Sound, ContextInv
<1>4. ContextTypeOK'
  BY <1>2, <1>3 DEF ContextTypeOK, ContextModes, Places
<1>5. SomeoneRuns' /\ HandlerOK'
  BY <1>1, <1>3 DEF SomeoneRuns, HandlerOK
<1>6. MaskOK' /\ SavedOK'
  BY <1>2, <1>3 DEF MaskOK, SavedOK, ContextTypeOK
<1>7. cpu_state[running].at # "unset"
  BY <1>1 DEF HandlerOK
<1>8. UnsetOK'
  BY <1>2, <1>3, <1>7 DEF UnsetOK, ContextTypeOK
<1>9. mode' \notin Interrupt
  BY <1>3 DEF Interrupt
<1> QED BY <1>4, <1>5, <1>6, <1>8, <1>9, NotScheduling

\* The contexts of a new block are those of its first line, whoever had it.
LEMMA NewContexts ==
    ASSUME Sound, NEW new, NEW mask \in BOOLEAN, no_context' = no_context \ new,
           cpu_state' = [p \in PCBs |-> IF p \in new THEN Entry(mask) ELSE cpu_state[p]],
           stopped' = [p \in PCBs |-> IF p \in new THEN "entry" ELSE stopped[p]]
    PROVE  /\ cpu_state' \in [PCBs -> [at : Places, mask : BOOLEAN]]
           /\ stopped' \in [PCBs -> Places \cup {"running"}]
           /\ \A p \in PCBs : cpu_state'[p].at = "user" => cpu_state'[p].mask
           /\ SavedOK' /\ UnsetOK'
BY DEF Sound, ContextTypeOK, MaskOK, SavedOK, UnsetOK, Entry, Places

\* The trap runs a handler and goes on to the context that it chose.
LEMMA TrapStep ==
    ASSUME Sound, Trap
    PROVE  ContextInv'
<1>1. /\ mode = "trap" /\ masked /\ machine = "up"
      /\ mode' = IF running' = NULL THEN "restart" ELSE "served"
      /\ masked' = IF running' = NULL THEN FALSE ELSE masked
      /\ UNCHANGED pending
  BY DEF Sound, MaskOK, ContextTypeOK, Trap, Up, main_mask
<1>2. /\ cpu_state' \in [PCBs -> [at : Places, mask : BOOLEAN]]
      /\ stopped' \in [PCBs -> Places \cup {"running"}]
      /\ \A p \in PCBs : cpu_state'[p].at = "user" => cpu_state'[p].mask
      /\ SavedOK' /\ UnsetOK'
  <2>1. CASE Spawn
    <3> DEFINE new == pcbs' \ pcbs
    <3>1. no_context' = no_context \ new
      <4>1. CASE P!Segv
        BY <4>1 DEF P!Segv, P!Stop, P!family
      <4>2. ASSUME NEW b \in PCBs, P!NewChild(b), no_context' = no_context \ {b}
            PROVE  no_context' = no_context \ new
        <5>1. b \notin pcbs /\ pcbs' = pcbs \cup {b}
          BY <4>2 DEF P!NewChild, P!FreeBlocks
        <5> QED BY <4>2, <5>1
      <4> QED BY <2>1, <4>1, <4>2 DEF Spawn, P!internal_spawn
    <3> QED BY <2>1, <3>1, NewContexts DEF Spawn, spawn_mask
  <2>2. CASE OtherHandler
    <3>1. UNCHANGED <<cpu_state, stopped, no_context>>
      BY <2>2
         DEF OtherHandler, P!internal_fork, P!internal_exit, P!ExitHangs, P!ExitCrashes,
             P!ExitWakesParent, P!ExitToZombie, P!internal_wait, P!WaitNoChildren,
             P!WaitReaps, P!WaitBlocks, P!WaitCrashes, P!internal_sleep,
             P!internal_preempt, P!internal_schedule, P!internal_shutdown,
             P!resource_call, P!Segv, P!Stop
    <3> QED BY <3>1 DEF Sound, ContextTypeOK, MaskOK, SavedOK, UnsetOK
  <2> QED BY <2>1, <2>2 DEF Trap
<1>3. mode' \notin Interrupt
  BY <1>1 DEF Interrupt
<1>4. ContextTypeOK' /\ SomeoneRuns' /\ MaskOK' /\ HandlerOK'
  BY <1>1, <1>2 DEF Sound, ContextTypeOK, ContextModes, SomeoneRuns, MaskOK, HandlerOK
<1> QED BY <1>2, <1>3, <1>4, NotScheduling DEF ContextInv

\* The return through main_context starts again on fresh contexts.
LEMMA RemakeStep ==
    ASSUME Sound, Remake
    PROVE  ContextInv'
<1>1. /\ mode' = "start" /\ UNCHANGED <<masked, pending>>
      /\ machine = "up" /\ mode = "remake" /\ masked \in BOOLEAN
  BY DEF Remake, Up, Sound, ContextTypeOK
<1> DEFINE new == pcbs' \ pcbs
<1>2. /\ no_context' = no_context \ new
      /\ machine' = "up" => running' # NULL
  <2>1. CASE P!Segv
    BY <2>1 DEF P!Segv, P!Stop, P!family
  <2>2. ASSUME NEW b \in P!FreeBlocks, pcbs' = pcbs \cup {b}, running' = b,
               no_context' = no_context \ {b}
        PROVE  no_context' = no_context \ new /\ running' # NULL
    <3>1. b \notin pcbs /\ b \in PCBs
      BY DEF P!FreeBlocks
    <3> QED BY <2>2, <3>1, ContextAssumption
  <2> QED BY <2>1, <2>2 DEF Remake, P!disastrOS_start_again, P!Segv, P!Stop
<1>3. /\ cpu_state' \in [PCBs -> [at : Places, mask : BOOLEAN]]
      /\ stopped' \in [PCBs -> Places \cup {"running"}]
      /\ \A p \in PCBs : cpu_state'[p].at = "user" => cpu_state'[p].mask
      /\ SavedOK' /\ UnsetOK'
  BY <1>1, <1>2, NewContexts DEF Remake
<1>4. ContextTypeOK' /\ SomeoneRuns' /\ MaskOK' /\ HandlerOK'
  BY <1>1, <1>2, <1>3
     DEF Sound, ContextTypeOK, ContextModes, SomeoneRuns, MaskOK, HandlerOK
<1>5. mode' \notin Interrupt
  BY <1>1 DEF Interrupt
<1> QED BY <1>3, <1>4, <1>5, NotScheduling DEF ContextInv

\* A quiet signal saves the context of the process, and the interrupt finds the
\* lists as they are.
LEMMA SignalStep ==
    ASSUME Sound, timerHandler, disturbed \in BOOLEAN, ~ disturbed'
    PROVE  ContextInv'
<1> USE DEF Sound, ContextInv
<1>1. pending' = FALSE /\ machine = "up"
  BY DEF timerHandler
<1>2. CASE NobodyRuns /\ mode \in {"restart", "remake"}
  <2>1. /\ machine' = "segv"
        /\ UNCHANGED <<running, no_context, mode, masked, cpu_state, stopped>>
    BY <1>2 DEF NobodyRuns, P!timerInterrupt, P!Segv, P!Stop
  <2> QED BY <1>1, <2>1, NotScheduling
          DEF ContextTypeOK, SomeoneRuns, MaskOK, HandlerOK, SavedOK, UnsetOK
<1>3. CASE Swaps /\ mode = "user"
  <2>1. running \in PCBs /\ running # NULL /\ cpu_state[running].at # "unset"
    BY <1>1, <1>3, Running DEF SomeoneRuns, HandlerOK
  <2>2. /\ cpu_state' = [cpu_state EXCEPT ![running] = [at |-> "user", mask |-> TRUE]]
        /\ stopped' = [stopped EXCEPT ![running] = "user"]
        /\ mode' = "interrupt" /\ masked' = FALSE /\ before' = Lists
        /\ UNCHANGED processVars
    BY <1>3 DEF Swaps, interrupt_mask
  <2>3. ContextTypeOK'
    BY <1>1, <2>1, <2>2 DEF ContextTypeOK, ContextModes, Places, Interrupt
  <2>4. SomeoneRuns' /\ HandlerOK' /\ MaskOK'
    BY <2>1, <2>2 DEF SomeoneRuns, HandlerOK, MaskOK, ContextTypeOK, processVars
  <2>5. SavedOK' /\ UnsetOK'
    BY <2>1, <2>2 DEF SavedOK, UnsetOK, ContextTypeOK, processVars
  <2>6. before'.running = running
    BY <2>2 DEF Lists
  <2>7. InterruptOK'
    BY <2>1, <2>2, <2>6 DEF InterruptOK, ContextTypeOK
  <2>8. ScheduleOK'
    BY <2>2 DEF ScheduleOK, Lists, processVars
  <2> QED BY <2>3, <2>4, <2>5, <2>7, <2>8
<1> QED BY <1>2, <1>3, QuietSignal

\* The operators of the invariant that speak of the start of the interrupt.
LEMMA SameStart ==
    ASSUME UNCHANGED before
    PROVE  /\ UNCHANGED <<TickedList, NumDue, First, Rest>>
           /\ \A k : /\ ReadyAfter(k)' = ReadyAfter(k) /\ WokenSet(k)' = WokenSet(k)
                     /\ StatusAfter(k)' = StatusAfter(k)
<1>1. UNCHANGED <<TickedList, NumDue>>
  BY DEF TickedList, NumDue
<1>2. \A k : Woken(k)' = Woken(k) /\ WokenSet(k)' = WokenSet(k)
  BY <1>1 DEF Woken, WokenSet
<1>3. \A k : ReadyAfter(k)' = ReadyAfter(k) /\ StatusAfter(k)' = StatusAfter(k)
  BY <1>2 DEF ReadyAfter, StatusAfter
<1> QED BY <1>1, <1>2, <1>3 DEF First, Rest

\* A step of internal_schedule changes no context.
LEMMA SchedulerStepKeeps ==
    ASSUME Sound, NEW from \in Interrupt, NEW to \in Interrupt, SchedulerStep(from, to),
           running' # NULL, ScheduleOK'
    PROVE  ContextInv'
<1>1. /\ machine = "up" /\ mode = from /\ mode' = to
      /\ UNCHANGED <<machine, no_context, masked, pending, cpu_state, stopped, before>>
  BY DEF SchedulerStep, Up
<1>2. ContextTypeOK' /\ SomeoneRuns' /\ MaskOK' /\ HandlerOK' /\ SavedOK' /\ UnsetOK'
  BY <1>1
     DEF Sound, ContextTypeOK, ContextModes, SomeoneRuns, MaskOK, HandlerOK, SavedOK,
         UnsetOK, Interrupt
<1>3. InterruptOK'
  BY <1>1 DEF Sound, InterruptOK
<1> QED BY <1>2, <1>3 DEF ContextInv

\* What a step of internal_schedule finds.
LEMMA Scheduling ==
    ASSUME Sound, NEW from \in Interrupt, NEW to, SchedulerStep(from, to)
    PROVE  /\ machine = "up" /\ mode = from /\ mode \in Interrupt /\ mode' = to
           /\ running # NULL /\ ScheduleOK /\ UNCHANGED before
BY DEF SchedulerStep, Up, Sound, SomeoneRuns, Interrupt

\* TimerList_current finds the timers that are due.
LEMMA ElapsedFound ==
    ASSUME Sound, machine = "up", mode = "timers"
    PROVE  /\ woken \in 0 .. NumDue /\ NumDue \in Nat
           /\ TimerElapsed <=> woken < NumDue
           /\ woken < NumDue => pcb_to_wake = TickedList[woken + 1].pcb
<1>1. /\ TickedList \in Seq(PP!Timers) /\ Len(TickedList) \in Nat
      /\ NumDue \in 0 .. Len(TickedList)
      /\ \A i \in 1 .. Len(TickedList) : i <= NumDue <=> TickedList[i].left <= 0
  BY TickedTimers DEF Interrupt
<1>2. /\ woken \in 0 .. NumDue
      /\ timer_list = SubSeq(TickedList, woken + 1, Len(TickedList))
  BY DEF Sound, ScheduleOK, LoopAt
<1>3. /\ timer_list = <<>> <=> woken = Len(TickedList)
      /\ woken < Len(TickedList) => Head(timer_list) = TickedList[woken + 1]
  BY <1>1, <1>2, Left
<1>4. woken < Len(TickedList) => (woken < NumDue <=> TickedList[woken + 1].left <= 0)
  <2>1. woken < Len(TickedList) => woken + 1 \in 1 .. Len(TickedList)
    BY <1>1, <1>2
  <2> QED BY <1>1, <1>2, <2>1
<1>5. NumDue \in Nat /\ woken \in Nat /\ NumDue <= Len(TickedList) /\ woken <= NumDue
  BY <1>1, <1>2
<1>6. woken < Len(TickedList) \/ (woken = Len(TickedList) /\ woken = NumDue)
  BY <1>1, <1>5
<1>7. CASE woken < Len(TickedList)
  <2>1. timer_list # <<>> /\ Head(timer_list) = TickedList[woken + 1]
    BY <1>1, <1>3, <1>5, <1>7
  <2>2. TimerElapsed <=> TickedList[woken + 1].left <= 0
    BY <2>1 DEF TimerElapsed
  <2> QED BY <1>2, <1>4, <1>5, <1>7, <2>1, <2>2 DEF pcb_to_wake
<1>8. CASE woken = Len(TickedList) /\ woken = NumDue
  <2>1. ~ TimerElapsed /\ ~ (woken < NumDue)
    BY <1>3, <1>5, <1>8 DEF TimerElapsed
  <2> QED BY <1>2, <1>5, <2>1
<1> QED BY <1>6, <1>7, <1>8

\* While a process is woken its timer is the first.
LEMMA WakingFirst ==
    ASSUME Sound, machine = "up", NEW k \in Nat, k < NumDue, mode \in Interrupt,
           timer_list = SubSeq(TickedList, k + 1, Len(TickedList))
    PROVE  /\ pcb_to_wake = TickedList[k + 1].pcb
           /\ Tail(timer_list) = SubSeq(TickedList, k + 2, Len(TickedList))
<1>1. /\ TickedList \in Seq(PP!Timers) /\ Len(TickedList) \in Nat
      /\ NumDue \in 0 .. Len(TickedList)
  BY TickedTimers
<1>2. k \in 0 .. Len(TickedList) /\ k < Len(TickedList)
  BY <1>1
<1> QED BY <1>1, <1>2, Left DEF pcb_to_wake

\* The tick.
LEMMA TickStep ==
    ASSUME Sound, timerInterrupt
    PROVE  running' # NULL /\ ScheduleOK'
<1>1. /\ SchedulerStep("interrupt", "timers")
      /\ timer_list' = P!Ticked(timer_list) /\ woken' = 0
      /\ UNCHANGED <<running, ready_list, waiting_list, status>>
  BY DEF timerInterrupt
<1>2. /\ machine = "up" /\ mode = "interrupt" /\ mode \in Interrupt /\ mode' = "timers"
      /\ running # NULL /\ ScheduleOK /\ UNCHANGED before
  BY <1>1, Scheduling DEF Interrupt
<1>3. /\ timer_list = before.timer_list /\ running = before.running
      /\ ready_list = before.ready_list /\ waiting_list = before.waiting_list
      /\ status = before.status
  BY <1>2 DEF ScheduleOK, Lists
<1>4. /\ TickedList \in Seq(PP!Timers) /\ NumDue \in Nat /\ 0 \in 0 .. NumDue
      /\ before.ready_list \in Seq(PCBs) /\ before.status \in [PCBs -> PP!Statuses]
  BY <1>2, TickedTimers
<1>5. timer_list' = SubSeq(TickedList, 0 + 1, Len(TickedList))
  <2>1. timer_list' = TickedList
    BY <1>1, <1>3 DEF TickedList
  <2>2. TickedList = SubSeq(TickedList, 1, Len(TickedList))
    BY <1>4, PP!SubSeqFull, Assumptions
  <2> QED BY <2>1, <2>2
<1>6. /\ ready_list' = ReadyAfter(0) /\ waiting_list' = before.waiting_list \ WokenSet(0)
      /\ status' = StatusAfter(0)
  <2>1. Woken(0) = <<>> /\ WokenSet(0) = {}
    BY DEF Woken, WokenSet
  <2>2. ReadyAfter(0) = before.ready_list
    BY <1>4, <2>1 DEF ReadyAfter
  <2>3. StatusAfter(0) = before.status
    BY <1>4, <2>1 DEF StatusAfter
  <2> QED BY <1>1, <1>3, <2>1, <2>2, <2>3
<1>7. LoopAt(woken, woken, woken)'
  BY <1>1, <1>2, <1>3, <1>4, <1>5, <1>6, SameStart DEF LoopAt
<1> QED BY <1>1, <1>2, <1>7 DEF ScheduleOK

\* A due timer is first, and its process leaves the waiting list,
LEMMA DetachStep ==
    ASSUME Sound, DetachSleeper
    PROVE  running' # NULL /\ ScheduleOK'
<1>1. /\ SchedulerStep("timers", "wake") /\ TimerElapsed
      /\ waiting_list' = waiting_list \ {pcb_to_wake}
      /\ status' = [status EXCEPT ![pcb_to_wake] = "Ready"]
      /\ UNCHANGED <<running, ready_list, timer_list, woken>>
  BY DEF DetachSleeper
<1>2. /\ machine = "up" /\ mode = "timers" /\ mode \in Interrupt /\ mode' = "wake"
      /\ running # NULL /\ ScheduleOK /\ UNCHANGED before
  BY <1>1, Scheduling DEF Interrupt
<1>3. /\ woken \in 0 .. NumDue /\ NumDue \in Nat /\ woken < NumDue
      /\ pcb_to_wake = TickedList[woken + 1].pcb
  BY <1>1, <1>2, ElapsedFound
<1>4. LoopAt(woken, woken, woken)
  BY <1>2 DEF ScheduleOK
<1>5. /\ waiting_list' = before.waiting_list \ WokenSet(woken + 1)
      /\ status' = StatusAfter(woken + 1)
  <2>1. /\ WokenSet(woken + 1) = WokenSet(woken) \cup {pcb_to_wake}
        /\ [StatusAfter(woken) EXCEPT ![pcb_to_wake] = "Ready"] = StatusAfter(woken + 1)
    BY <1>2, <1>3, WakesNext
  <2> QED BY <1>1, <1>4, <2>1 DEF LoopAt
<1>6. LoopAt(woken, woken, woken + 1)'
  <2>1. woken' = woken /\ woken + 1 \in 0 .. NumDue
    BY <1>1, <1>3
  <2>2. /\ timer_list' = SubSeq(TickedList, woken + 1, Len(TickedList))
        /\ ready_list' = ReadyAfter(woken)
        /\ running' = before.running
    BY <1>1, <1>4 DEF LoopAt
  <2> QED BY <1>2, <1>3, <1>5, <2>1, <2>2, SameStart DEF LoopAt
<1> QED BY <1>1, <1>2, <1>6 DEF ScheduleOK

\* becomes ready behind those woken before it,
LEMMA InsertStep ==
    ASSUME Sound, InsertWoken
    PROVE  running' # NULL /\ ScheduleOK'
<1>1. /\ SchedulerStep("wake", "woken")
      /\ ready_list' = P!InsertAt(ready_list, woken + 1, pcb_to_wake)
      /\ woken' = woken + 1
      /\ UNCHANGED <<running, waiting_list, timer_list, status>>
  BY DEF InsertWoken
<1>2. /\ machine = "up" /\ mode = "wake" /\ mode \in Interrupt /\ mode' = "woken"
      /\ running # NULL /\ ScheduleOK /\ UNCHANGED before
  BY <1>1, Scheduling DEF Interrupt
<1>3. LoopAt(woken, woken, woken + 1)
  BY <1>2 DEF ScheduleOK
<1>4. NumDue \in Nat /\ woken \in 0 .. NumDue /\ woken \in Nat /\ woken < NumDue
  <2>1. NumDue \in Nat
    BY <1>2, TickedTimers
  <2> QED BY <1>3, <2>1 DEF LoopAt
<1>5. ready_list' = ReadyAfter(woken + 1)
  <2>1. pcb_to_wake = TickedList[woken + 1].pcb
    BY <1>2, <1>3, <1>4, WakingFirst DEF LoopAt
  <2> QED BY <1>1, <1>2, <1>3, <1>4, <2>1, WakesNext DEF LoopAt
<1>6. LoopAt(woken - 1, woken, woken)'
  <2>1. woken' - 1 = woken /\ (woken' - 1) + 1 = woken + 1
    BY <1>1, <1>4
  <2> QED BY <1>1, <1>2, <1>3, <1>4, <1>5, <2>1, SameStart DEF LoopAt
<1> QED BY <1>1, <1>2, <1>6 DEF ScheduleOK

\* and its timer goes.
LEMMA RemoveStep ==
    ASSUME Sound, RemoveTimer
    PROVE  running' # NULL /\ ScheduleOK'
<1>1. /\ SchedulerStep("woken", "timers") /\ timer_list' = Tail(timer_list)
      /\ UNCHANGED <<running, ready_list, waiting_list, status, woken>>
  BY DEF RemoveTimer
<1>2. /\ machine = "up" /\ mode = "woken" /\ mode \in Interrupt /\ mode' = "timers"
      /\ running # NULL /\ ScheduleOK /\ UNCHANGED before
  BY <1>1, Scheduling DEF Interrupt
<1>3. LoopAt(woken - 1, woken, woken)
  BY <1>2 DEF ScheduleOK
<1>4. NumDue \in Nat /\ woken \in 0 .. NumDue /\ woken - 1 \in Nat /\ woken - 1 < NumDue
  <2>1. NumDue \in Nat
    BY <1>2, TickedTimers
  <2> QED BY <1>3, <2>1 DEF LoopAt
<1>5. timer_list' = SubSeq(TickedList, woken + 1, Len(TickedList))
  <2>1. (woken - 1) + 2 = woken + 1
    BY <1>4
  <2> QED BY <1>1, <1>2, <1>3, <1>4, <2>1, WakingFirst DEF LoopAt
<1>6. LoopAt(woken, woken, woken)'
  BY <1>1, <1>2, <1>3, <1>4, <1>5, SameStart DEF LoopAt
<1> QED BY <1>1, <1>2, <1>6 DEF ScheduleOK

\* No other timer is due: nobody is ready,
LEMMA KeepStep ==
    ASSUME Sound, KeepRunning
    PROVE  running' # NULL /\ ScheduleOK'
<1>1. /\ SchedulerStep("timers", "scheduled") /\ ~ TimerElapsed /\ ready_list = <<>>
      /\ UNCHANGED <<running, ready_list, waiting_list, timer_list, status, woken>>
  BY DEF KeepRunning
<1>2. /\ machine = "up" /\ mode = "timers" /\ mode \in Interrupt /\ mode' = "scheduled"
      /\ running # NULL /\ ScheduleOK /\ UNCHANGED before
  BY <1>1, Scheduling DEF Interrupt
<1>3. woken = NumDue /\ NumDue \in Nat
  BY <1>1, <1>2, ElapsedFound
<1>4. LoopAt(NumDue, NumDue, NumDue)
  BY <1>2, <1>3 DEF ScheduleOK
<1>5. ReadyAfter(NumDue) = <<>>
  BY <1>1, <1>4 DEF LoopAt
<1>6. LoopAt(NumDue, NumDue, NumDue)' /\ ReadyAfter(NumDue)' = <<>>
  BY <1>1, <1>2, <1>4, <1>5, SameStart DEF LoopAt
<1> QED BY <1>1, <1>2, <1>6 DEF ScheduleOK

\* or the first of the ready list is taken,
LEMMA TakeStep ==
    ASSUME Sound, TakeNext
    PROVE  running' # NULL /\ ScheduleOK'
<1>1. /\ SchedulerStep("timers", "switch") /\ ~ TimerElapsed /\ ready_list # <<>>
      /\ next_process' = Head(ready_list) /\ ready_list' = Tail(ready_list)
      /\ status' = [status EXCEPT ![running] = "Ready"]
      /\ UNCHANGED <<running, waiting_list, timer_list, woken>>
  BY DEF TakeNext
<1>2. /\ machine = "up" /\ mode = "timers" /\ mode \in Interrupt /\ mode' = "switch"
      /\ running # NULL /\ ScheduleOK /\ UNCHANGED before
  BY <1>1, Scheduling DEF Interrupt
<1>3. woken = NumDue /\ NumDue \in Nat
  BY <1>1, <1>2, ElapsedFound
<1>4. LoopAt(NumDue, NumDue, NumDue)
  BY <1>2, <1>3 DEF ScheduleOK
<1>5. /\ LoopEnded' /\ ReadyAfter(NumDue)' # <<>>
      /\ running' = before'.running /\ next_process' = First' /\ ready_list' = Rest'
      /\ status' = [StatusAfter(NumDue)' EXCEPT ![before'.running] = "Ready"]
  BY <1>1, <1>2, <1>4, SameStart DEF LoopAt, LoopEnded, First, Rest
<1> QED BY <1>1, <1>2, <1>5 DEF ScheduleOK

\* the running process goes to the end,
LEMMA RequeueStep ==
    ASSUME Sound, RequeueRunning
    PROVE  running' # NULL /\ ScheduleOK'
<1>1. /\ SchedulerStep("switch", "switched")
      /\ ready_list' = Append(ready_list, running)
      /\ status' = [status EXCEPT ![next_process] = "Running"]
      /\ UNCHANGED <<running, waiting_list, timer_list, woken, next_process>>
  BY DEF RequeueRunning
<1>2. /\ machine = "up" /\ mode = "switch" /\ mode \in Interrupt /\ mode' = "switched"
      /\ running # NULL /\ ScheduleOK /\ UNCHANGED before
  BY <1>1, Scheduling DEF Interrupt
<1>3. /\ LoopEnded /\ ReadyAfter(NumDue) # <<>>
      /\ running = before.running /\ next_process = First /\ ready_list = Rest
      /\ status = [StatusAfter(NumDue) EXCEPT ![before.running] = "Ready"]
  BY <1>2 DEF ScheduleOK
<1>4. Switched' /\ running' = before'.running /\ next_process' = First'
  BY <1>1, <1>2, <1>3, SameStart DEF Switched, LoopEnded
<1> QED BY <1>1, <1>2, <1>4 DEF ScheduleOK

\* and the other one runs.
LEMMA RunStep ==
    ASSUME Sound, RunNext
    PROVE  running' # NULL /\ ScheduleOK'
<1>1. /\ SchedulerStep("switched", "scheduled") /\ running' = next_process
      /\ UNCHANGED <<ready_list, waiting_list, timer_list, status>>
  BY DEF RunNext
<1>2. /\ machine = "up" /\ mode = "switched" /\ mode \in Interrupt /\ mode' = "scheduled"
      /\ ScheduleOK /\ UNCHANGED before
  BY <1>1, Scheduling DEF Interrupt
<1>3. Switched /\ next_process = First
  BY <1>2 DEF ScheduleOK
<1>4. First \in PCBs
  <2>1. ReadyAfter(NumDue) \in Seq(PCBs)
    BY <1>2, TickedTimers, WokenLists
  <2> QED BY <1>3, <2>1 DEF Switched, First
<1>5. Switched' /\ running' = First'
  BY <1>1, <1>2, <1>3, SameStart DEF Switched, LoopEnded
<1> QED BY <1>1, <1>2, <1>3, <1>4, <1>5, ContextAssumption DEF ScheduleOK

\* Every step that disturbs nothing keeps the invariant of the contexts.
LEMMA ContextStep ==
    ASSUME Sound, [Next]_vars, disturbed \in BOOLEAN, ~ disturbed'
    PROVE  ContextInv'
<1>1. CASE Start \/ TrapReturns \/ InterruptReturns
  BY <1>1, ResumeStep
     DEF Start, TrapReturns, InterruptReturns, Up, Sound, SomeoneRuns
<1>2. CASE timerInterrupt \/ internal_schedule
  <2>1. running' # NULL /\ ScheduleOK'
    BY <1>2, TickStep, DetachStep, InsertStep, RemoveStep, KeepStep, TakeStep,
       RequeueStep, RunStep DEF internal_schedule
  <2> QED BY <1>2, <2>1, SchedulerSteps, SchedulerStepKeeps
<1>3. CASE HandlerReturns
  <2>1. /\ machine = "up" /\ mode = "handler" /\ mode' = "user" /\ masked' = FALSE
        /\ cpu_state[running].at = "user"
        /\ UNCHANGED <<machine, running, no_context, pending, cpu_state, stopped>>
    BY <1>3 DEF HandlerReturns, Up, processVars, Sound, HandlerOK
  <2>2. mode' \notin Interrupt
    BY <2>1 DEF Interrupt
  <2> QED BY <2>1, <2>2, NotScheduling
          DEF Sound, ContextInv, ContextTypeOK, ContextModes, SomeoneRuns, MaskOK,
              HandlerOK, SavedOK, UnsetOK
<1>4. CASE FunctionReturns
  <2>1. /\ mode' = "restart" /\ masked' = FALSE
        /\ cpu_state' = [p \in PCBs |-> IF cpu_state[p].at = "restart"
                                           THEN [cpu_state[p] EXCEPT !.at = "lost"]
                                           ELSE cpu_state[p]]
        /\ UNCHANGED <<machine, running, no_context, pending, stopped>>
    BY <1>4 DEF FunctionReturns, main_mask, processVars
  <2>2. UNCHANGED cpu_state
    <3>1. \A p \in PCBs : cpu_state[p].at # "restart"
      BY DEF Sound, ContextTypeOK, Places
    <3> QED BY <2>1, <3>1 DEF Sound, ContextTypeOK
  <2>3. mode' \notin Interrupt
    BY <2>1 DEF Interrupt
  <2> QED BY <2>1, <2>2, <2>3, NotScheduling
          DEF Sound, ContextInv, ContextTypeOK, ContextModes, SomeoneRuns, MaskOK,
              HandlerOK, SavedOK, UnsetOK
<1>5. CASE Restart
  <2>1. mode = "restart" /\ mode' = "remake"
        /\ UNCHANGED <<machine, running, no_context, masked, pending, cpu_state, stopped>>
    BY <1>5 DEF Restart, Up, processVars
  <2>2. mode' \notin Interrupt
    BY <2>1 DEF Interrupt
  <2> QED BY <2>1, <2>2, NotScheduling
          DEF Sound, ContextInv, ContextTypeOK, ContextModes, SomeoneRuns, MaskOK,
              HandlerOK, SavedOK, UnsetOK
<1>6. CASE Expire \/ UNCHANGED vars
  <2>1. /\ UNCHANGED <<processVars, mode, masked, cpu_state, stopped, woken, next_process,
                      before>>
        /\ pending' \in BOOLEAN
    BY <1>6 DEF Expire, vars, signalVars, locals, Sound, ContextTypeOK
  <2>2. /\ ContextTypeOK' /\ SomeoneRuns' /\ MaskOK' /\ HandlerOK' /\ SavedOK' /\ UnsetOK'
        /\ InterruptOK'
    BY <2>1 DEF processVars, Sound, ContextTypeOK, SomeoneRuns, MaskOK, HandlerOK, SavedOK,
                UnsetOK, InterruptOK
  <2>3. machine' = "up" => ScheduleOK'
    <3>1. UNCHANGED <<machine, running, ready_list, waiting_list, timer_list, status>>
      BY <2>1 DEF processVars
    <3> SUFFICES ASSUME machine = "up" PROVE ScheduleOK'
      BY <3>1
    <3>2. ScheduleOK
      BY DEF Sound
    <3>3. \A t, r, s : LoopAt(t, r, s) => LoopAt(t, r, s)'
      BY <2>1, <3>1, SameStart DEF LoopAt
    <3>4. (Lists = before => Lists' = before') /\ (Switched => Switched')
      BY <2>1, <3>1, SameStart DEF Lists, Switched, LoopEnded
    <3> QED BY <2>1, <3>1, <3>2, <3>3, <3>4, SameStart DEF ScheduleOK, LoopEnded
  <2> QED BY <2>2, <2>3 DEF ContextInv
<1> QED BY <1>1, <1>2, <1>3, <1>4, <1>5, <1>6, SyscallStep, TrapStep, SignalStep, RemakeStep
        DEF Next, Kernel
-----------------------------------------------------------------------------
\* The contexts that disastrOS_start makes satisfy the invariant.
LEMMA InitSound == Init => CInv /\ Atomic!Init
<1> SUFFICES ASSUME Init PROVE CInv /\ Atomic!Init
  OBVIOUS
<1>1. Seen = Lists /\ mode = "start" /\ machine = "up" /\ running = InitPCB
  BY DEF Init, P!Init, Seen, Interrupt
<1>2. Atomic!Init
  BY <1>1 DEF Init, P!Init, Atomic!Init, Lists
<1>3. PP!IInv
  BY <1>2, SameInit, PP!InitIInv, Assumptions
<1>4. running # NULL /\ InitPCB \in PCBs
  BY <1>1, ContextAssumption
<1>5. ContextTypeOK /\ SomeoneRuns /\ MaskOK /\ HandlerOK /\ SavedOK
  BY <1>1, <1>4 DEF Init, Entry, ContextTypeOK, ContextModes, Places, SomeoneRuns,
                    MaskOK, HandlerOK, SavedOK
<1>6. UnsetOK
  BY <1>4 DEF Init, P!Init, Entry, UnsetOK
<1>7. InterruptOK /\ ScheduleOK
  BY <1>1 DEF InterruptOK, ScheduleOK, Interrupt
<1> QED BY <1>2, <1>3, <1>5, <1>6, <1>7 DEF Init, CInv, Sound

\* Every step keeps the invariant.
LEMMA CInvStep == CInv /\ [Next]_vars => CInv'
<1> SUFFICES ASSUME CInv, [Next]_vars PROVE CInv'
  OBVIOUS
<1>1. disturbed \in BOOLEAN /\ disturbed' \in BOOLEAN /\ (~ disturbed' => ~ disturbed)
  BY Undisturbed DEF CInv
<1>2. ASSUME ~ disturbed' PROVE Sound'
  <2>1. Sound
    BY <1>1, <1>2 DEF CInv
  <2>2. [Atomic!Next]_(Atomic!vars)
    BY <1>1, <1>2, <2>1, StepSeen
  <2>3. [PP!Next]_(PP!vars)
    BY <2>2, SameNext
       DEF Atomic!vars, PP!vars, Atomic!lists, PP!lists, Atomic!family, PP!family
  <2>4. PP!IInv'
    BY <2>1, <2>3, PP!NextStep, Assumptions DEF Sound
  <2>5. ContextInv'
    BY <1>1, <1>2, <2>1, ContextStep
  <2> QED BY <2>4, <2>5 DEF Sound, ContextInv
<1> QED BY <1>1, <1>2 DEF CInv

\* The invariant holds in every reachable state.
LEMMA CInvAlways == Init /\ [][Next]_vars => []CInv
BY InitSound, CInvStep, PTL

\* A process resumes at the place where it stopped, whatever ran since, until
\* SIGALRM comes where the kernel runs unmasked (disastrOS.c, timerInterrupt and
\* the end of disastrOS_start).
THEOREM ContextsIntactThm == Spec => []ContextsIntact
<1>1. CInv => ContextsIntact
  BY DEF CInv, Sound, SavedOK, ContextsIntact, PP!IInv, PP!TypeOK
<1> QED BY <1>1, CInvAlways, PTL DEF Spec

\* The swaps of context and the signal masks make every handler one step of
\* Processes.tla, and so they make the loop of internal_schedule, the exchange of
\* the running process and the resumption that ends a timer interrupt, until
\* SIGALRM comes where the kernel runs unmasked.
THEOREM CallsAreAtomic == Spec => CallsAtomic
<1>1. CInv /\ [Next]_vars => [disturbed' \/ Atomic!Next]_(Atomic!vars)
  <2> SUFFICES ASSUME CInv, [Next]_vars, ~ disturbed' PROVE [Atomic!Next]_(Atomic!vars)
    OBVIOUS
  <2>1. Sound /\ disturbed \in BOOLEAN
    BY Undisturbed DEF CInv
  <2> QED BY <2>1, StepSeen
<1>2. Init => Atomic!Init
  BY InitSound
<1> QED BY <1>1, <1>2, CInvAlways, PTL DEF Spec, CallsAtomic

\* So between two timer interrupts the lists and the timers of the processes are
\* sound, although the interrupts take them apart: no process is lost from the
\* lists or in two of them, and who sleeps has one timer, in order.
THEOREM ProcessesStaySound ==
    Spec => [](~ disturbed /\ mode \notin Interrupt =>
                 P!EachInOnePlace /\ P!TimersMatchSleepers)
<1>1. ASSUME CInv, ~ disturbed, mode \notin Interrupt
      PROVE  P!EachInOnePlace /\ P!TimersMatchSleepers
  <2>1. PP!EachInOnePlace /\ PP!TimersMatchSleepers
    BY <1>1, PP!Placed, PP!TimersMatched, Assumptions DEF CInv, Sound
  <2>2. /\ Seen.running = running /\ Seen.ready_list = ready_list
        /\ Seen.waiting_list = waiting_list /\ Seen.timer_list = timer_list
        /\ Seen.status = status
    BY <1>1 DEF Seen, Lists
  <2>3. P!ToSet(ready_list) = PP!ToSet(Seen.ready_list)
    BY <2>2 DEF P!ToSet, PP!ToSet
  <2>4. P!EachInOnePlace
    <3> DEFINE places == <<{running} \ {NULL}, P!ToSet(ready_list), waiting_list,
                           zombie_list, returned>>
               seen == <<{Seen.running} \ {NULL}, PP!ToSet(Seen.ready_list),
                         Seen.waiting_list, zombie_list, returned>>
    <3>1. places = seen
      BY <2>2, <2>3
    <3>2. P!ToSet(places) = PP!ToSet(seen)
      BY <3>1 DEF P!ToSet, PP!ToSet
    <3>3. P!Cardinality(P!ToSet(ready_list)) = PP!Cardinality(PP!ToSet(Seen.ready_list))
      BY <2>3 DEF P!Cardinality, PP!Cardinality
    <3> QED BY <2>1, <2>2, <2>3, <3>1, <3>2, <3>3 DEF P!EachInOnePlace, PP!EachInOnePlace
  <2>5. P!TimersMatchSleepers
    <3>1. P!Timed = PP!Timed
      BY <2>2 DEF P!Timed, PP!Timed
    <3>2. P!Cardinality(P!Timed) = PP!Cardinality(PP!Timed)
      BY <3>1 DEF P!Cardinality, PP!Cardinality
    <3> QED BY <2>1, <2>2, <3>1, <3>2 DEF P!TimersMatchSleepers, PP!TimersMatchSleepers
  <2> QED BY <2>4, <2>5
<1> QED BY <1>1, CInvAlways, PTL DEF Spec
=============================================================================
