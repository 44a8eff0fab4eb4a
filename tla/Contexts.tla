------------------------------ MODULE Contexts -------------------------------
(* The contexts and signal masks of disastrOS.c: how the one Linux process   *)
(* goes from program to kernel and back with swapcontext and setcontext, and *)
(* when SIGALRM may come in between.  The system calls are those of          *)
(* Processes.tla.  The timer interrupt, which runs with SIGALRM unmasked, is *)
(* taken apart into the steps of internal_schedule.  While no signal comes   *)
(* where the kernel runs unmasked, this module implements the atomic calls   *)
(* and the atomic, fair timer of Processes.tla.                              *)
(*                                                                           *)
(* External: swapcontext and setcontext are single steps that change context *)
(* and mask together; a signal is masked while its handler runs, and the     *)
(* return from the handler restores the mask it found.                       *)
EXTENDS DisastrOSConstants, Sequences, FiniteSets

CONSTANTS PCBs, NULL, InitPCB, NumPCBPtrs, AnyChild, NoPid, SleepTimes, OtherResults

ASSUME ContextAssumption ==
    /\ IsFiniteSet(PCBs) /\ InitPCB \in PCBs
    /\ NULL \notin PCBs \cup {AnyChild, NoPid}
    /\ AnyChild # NoPid /\ {AnyChild, NoPid} \cap PCBs = {}
    /\ NumPCBPtrs \in Nat
    /\ SleepTimes \subseteq Int

VARIABLES
    machine,    \* or "torn": a signal cut short a change of a list or of a pool
    running, init_pcb, ready_list, waiting_list, zombie_list, timer_list, pcbs,
    status, parent, children, signals, awaits, no_context, returned, pcbptr_pool,
    syscall_retvalue,
    mode,       \* what executes, and where in it
    masked,     \* SIGALRM is blocked
    pending,    \* SIGALRM is pending
    cpu_state,  \* of each PCB: what resumes, and the mask then
    woken,      \* internal_schedule: the place of previous_pcb in ready_list, 0 for none
    next_process,
    before,     \* auxiliary: the lists when the timer interrupt began
    stopped,    \* auxiliary: what should resume
    disturbed   \* auxiliary: SIGALRM came where the kernel runs unmasked

processVars == <<machine, running, init_pcb, ready_list, waiting_list, zombie_list,
                 timer_list, pcbs, status, parent, children, signals, awaits,
                 no_context, returned, pcbptr_pool, syscall_retvalue>>
locals      == <<woken, next_process, before>>
signalVars  == <<mode, masked, pending, cpu_state, stopped, disturbed, locals>>
vars == <<processVars, signalVars>>

P == INSTANCE Processes

\* What internal_schedule changes.
Lists == [running |-> running, ready_list |-> ready_list, waiting_list |-> waiting_list,
          timer_list |-> timer_list, status |-> status]

Entry(mask) == [at |-> "entry", mask |-> mask]

\* When disastrOS_start calls setcontext for the first time.
Init ==
    /\ P!Init
    /\ mode = "start"
    /\ masked = FALSE
    /\ pending = FALSE
    /\ cpu_state = [p \in PCBs |-> IF p = InitPCB THEN Entry(FALSE)
                                                  ELSE [at |-> "unset", mask |-> FALSE]]
    /\ stopped = [p \in PCBs |-> cpu_state[p].at]
    /\ disturbed = FALSE
    /\ woken = 0
    /\ next_process = NULL
    /\ before = Lists
-----------------------------------------------------------------------------
Up(m) == machine = "up" /\ mode = m

\* setcontext(&running->cpu_state).  A process that the timer stopped is still
\* in timerHandler.  A context never set crashes, and so does here what was saved
\* from a stack that has been used again since, which is undefined behaviour.
Resume ==
    LET c == cpu_state[running]
    IN  IF c.at \in {"unset", "lost"} THEN P!Segv /\ UNCHANGED signalVars
        ELSE /\ mode' = IF c.at \in {"user", "restart"} THEN "handler" ELSE "user"
             /\ masked' = c.mask
             /\ stopped' = [stopped EXCEPT ![running] = "running"]
             /\ UNCHANGED <<processVars, pending, cpu_state, disturbed, locals>>

\* The first line of each process, and of the first init.
Start == Up("start") /\ Resume

\* Fault: the trap does not mask the signal.
trap_mask_Empty == FALSE

\* trap_context.uc_sigmask has SIGALRM, main_context and interrupt_context not.
trap_mask      == TRUE
main_mask      == FALSE
interrupt_mask == FALSE

\* The swapcontext of disastrOS_syscall.
Syscall ==
    /\ Up("user")
    /\ cpu_state' = [cpu_state EXCEPT ![running] = [at |-> "call", mask |-> masked]]
    /\ stopped' = [stopped EXCEPT ![running] = "call"]
    /\ mode' = "trap"
    /\ masked' = trap_mask
    /\ UNCHANGED <<processVars, pending, disturbed, locals>>

\* Fault: the mask of the trap, where getcontext is called, stays.
spawn_mask_Kept == masked

\* sigemptyset(&new_pcb->cpu_state.uc_sigmask)
spawn_mask == FALSE

Spawn ==
    /\ P!internal_spawn
    /\ LET new == pcbs' \ pcbs
       IN  /\ cpu_state' = [p \in PCBs |-> IF p \in new THEN Entry(spawn_mask)
                                                        ELSE cpu_state[p]]
           /\ stopped' = [p \in PCBs |-> IF p \in new THEN "entry" ELSE stopped[p]]

OtherHandler ==
    /\ \/ P!internal_fork
       \/ P!internal_exit
       \/ \E pid \in P!Pids : P!internal_wait(pid)
       \/ \E ticks \in SleepTimes : P!internal_sleep(ticks)
       \/ P!internal_preempt
       \/ P!internal_shutdown
       \/ P!resource_call
    /\ UNCHANGED <<cpu_state, stopped>>

\* disastrOS_trap.  With nobody to run it ends, and uc_link is main_context.
Trap ==
    /\ Up("trap")
    /\ Spawn \/ OtherHandler
    /\ IF running' = NULL THEN mode' = "restart" /\ masked' = main_mask
                          ELSE mode' = "served" /\ UNCHANGED masked
    /\ UNCHANGED <<pending, disturbed, locals>>

TrapReturns == Up("served") /\ Resume
-----------------------------------------------------------------------------
\* ITIMER_REAL expires.
Expire ==
    /\ machine = "up"
    /\ ~ pending
    /\ pending' = TRUE
    /\ UNCHANGED <<processVars, mode, masked, cpu_state, stopped, disturbed, locals>>

\* Where the kernel runs unmasked: timerInterrupt, whose mask is empty, and
\* disastrOS_start from the getcontext of main_context on.
Interrupt == {"interrupt", "timers", "wake", "woken", "switch", "switched", "scheduled"}
Starting  == {"restart", "remake", "start"}

\* The modes that stand for several statements on lists, pools or contexts.
Compound == {"timers", "wake", "woken", "switch", "switched", "remake"}

\* The signal comes within one of those statements, or between two of them that
\* this model does not tell apart.  What follows is not modelled.
Tears ==
    /\ mode \in Compound
    /\ P!Stop("torn")
    /\ disturbed' = TRUE
    /\ UNCHANGED <<mode, masked, cpu_state, stopped, locals>>

\* After the trap has returned to main_context there is no running process.
NobodyRuns ==
    /\ running = NULL
    /\ P!timerInterrupt
    /\ UNCHANGED <<mode, masked, cpu_state, stopped, disturbed, locals>>

\* timerHandler, on the stack of whatever it interrupts, leaves that in the
\* cpu_state of the running process.  interrupt_context starts on top of the stack
\* of the kernel, where an earlier timerInterrupt may not have ended: it is
\* abandoned.  "woken" and "switched" hold a PCB or a timer that is in two places
\* at once: the list operations of another internal_schedule break the links.
Swaps ==
    /\ running # NULL
    /\ mode \notin {"woken", "switched", "remake"}
    /\ LET own == mode \in {"user", "restart"}
       IN  /\ cpu_state' = [cpu_state EXCEPT ![running] =
                               [at |-> IF own THEN mode ELSE "lost", mask |-> TRUE]]
           /\ stopped' = IF own THEN [stopped EXCEPT ![running] = mode] ELSE stopped
    /\ disturbed' = (disturbed \/ mode \in Interrupt \cup Starting)
    /\ mode' = "interrupt"
    /\ masked' = interrupt_mask
    /\ before' = Lists
    /\ UNCHANGED <<processVars, woken, next_process>>

timerHandler ==
    /\ machine = "up"
    /\ pending /\ ~ masked
    /\ pending' = FALSE
    /\ Tears \/ NobodyRuns \/ Swaps
-----------------------------------------------------------------------------
\* One step of internal_schedule, on what it may change.
SchedulerStep(from, to) ==
    /\ Up(from)
    /\ mode' = to
    /\ UNCHANGED <<machine, init_pcb, zombie_list, pcbs, parent, children, signals, awaits,
                   no_context, returned, pcbptr_pool, syscall_retvalue, masked, pending,
                   cpu_state, stopped, disturbed, before>>

timerInterrupt ==
    /\ SchedulerStep("interrupt", "timers")
    /\ timer_list' = P!Ticked(timer_list)
    /\ woken' = 0
    /\ UNCHANGED <<running, ready_list, waiting_list, status, next_process>>

\* Fault: a timer elapses one tick late.
TimerElapsed_Late == timer_list # <<>> /\ Head(timer_list).left < 0

\* TimerList_current finds a timer.
TimerElapsed == timer_list # <<>> /\ Head(timer_list).left <= 0

pcb_to_wake == Head(timer_list).pcb

DetachSleeper ==
    /\ SchedulerStep("timers", "wake")
    /\ TimerElapsed
    /\ waiting_list' = waiting_list \ {pcb_to_wake}
    /\ status' = [status EXCEPT ![pcb_to_wake] = "Ready"]
    /\ UNCHANGED <<running, ready_list, timer_list, woken, next_process>>

\* After previous_pcb, or first of all.
InsertWoken ==
    /\ SchedulerStep("wake", "woken")
    /\ ready_list' = P!InsertAt(ready_list, woken + 1, pcb_to_wake)
    /\ woken' = woken + 1
    /\ UNCHANGED <<running, waiting_list, timer_list, status, next_process>>

RemoveTimer ==
    /\ SchedulerStep("woken", "timers")
    /\ timer_list' = Tail(timer_list)
    /\ UNCHANGED <<running, ready_list, waiting_list, status, woken, next_process>>

KeepRunning ==
    /\ SchedulerStep("timers", "scheduled")
    /\ ~ TimerElapsed /\ ready_list = <<>>
    /\ UNCHANGED <<running, ready_list, waiting_list, timer_list, status, woken,
                   next_process>>

TakeNext ==
    /\ SchedulerStep("timers", "switch")
    /\ ~ TimerElapsed /\ ready_list # <<>>
    /\ next_process' = Head(ready_list)
    /\ ready_list' = Tail(ready_list)
    /\ status' = [status EXCEPT ![running] = "Ready"]
    /\ UNCHANGED <<running, waiting_list, timer_list, woken>>

RequeueRunning ==
    /\ SchedulerStep("switch", "switched")
    /\ ready_list' = Append(ready_list, running)
    /\ status' = [status EXCEPT ![next_process] = "Running"]
    /\ UNCHANGED <<running, waiting_list, timer_list, woken, next_process>>

RunNext ==
    /\ SchedulerStep("switched", "scheduled")
    /\ running' = next_process
    /\ UNCHANGED <<ready_list, waiting_list, timer_list, status, woken, next_process>>

internal_schedule ==
    \/ DetachSleeper \/ InsertWoken \/ RemoveTimer
    \/ KeepRunning \/ TakeNext \/ RequeueRunning \/ RunNext

InterruptReturns == Up("scheduled") /\ Resume

\* Back to where the signal came, with the mask of that moment.
HandlerReturns ==
    /\ Up("handler")
    /\ mode' = cpu_state[running].at
    /\ masked' = FALSE
    /\ UNCHANGED <<processVars, pending, cpu_state, stopped, disturbed, locals>>
-----------------------------------------------------------------------------
\* The function of a process returns: uc_link is main_context, which runs on the
\* one stack of main.  What was saved from that stack is overwritten.  When the
\* trap goes the same way nobody is ready, so nobody was stopped there.
FunctionReturns ==
    /\ Up("user")
    /\ mode' = "restart"
    /\ masked' = main_mask
    /\ cpu_state' = [p \in PCBs |-> IF cpu_state[p].at = "restart"
                                       THEN [cpu_state[p] EXCEPT !.at = "lost"]
                                       ELSE cpu_state[p]]
    /\ UNCHANGED <<processVars, pending, stopped, disturbed, locals>>

\* disastrOS_start from the getcontext of main_context on: nothing is changed yet.
Restart ==
    /\ Up("restart")
    /\ mode' = "remake"
    /\ UNCHANGED <<processVars, masked, pending, cpu_state, stopped, disturbed, locals>>

\* The contexts of the trap and of the interrupt, and the new init.
Remake ==
    /\ Up("remake")
    /\ P!disastrOS_start_again
    /\ cpu_state' = [p \in PCBs |-> IF p \in pcbs' \ pcbs THEN Entry(masked) ELSE cpu_state[p]]
    /\ stopped' = [p \in PCBs |-> IF p \in pcbs' \ pcbs THEN "entry" ELSE stopped[p]]
    /\ mode' = "start"
    /\ UNCHANGED <<masked, pending, disturbed, locals>>

Kernel == Start \/ Trap \/ TrapReturns \/ timerInterrupt \/ internal_schedule
              \/ InterruptReturns \/ HandlerReturns \/ Restart \/ Remake

Next == Kernel \/ Syscall \/ FunctionReturns \/ Expire \/ timerHandler

\* The kernel never waits; setitimer rearms the timer for ever; and Linux
\* delivers a pending signal as soon as it is not masked.
Spec ==
    /\ Init /\ [][Next]_vars
    /\ WF_vars(Kernel)
    /\ WF_vars(Expire)
    /\ SF_vars(timerHandler)
-----------------------------------------------------------------------------
\* A process resumes where it stopped, whatever ran since, as long as SIGALRM
\* does not come where the kernel runs unmasked.
ContextsIntact ==
    ~ disturbed => \A p \in pcbs : stopped[p] # "running" => cpu_state[p].at = stopped[p]

\* Seen from Processes.tla a timer interrupt happens when it ends.
Seen == IF machine = "up" /\ mode \in Interrupt THEN before ELSE Lists

Atomic == INSTANCE Processes
            WITH running <- Seen.running, ready_list <- Seen.ready_list,
                 waiting_list <- Seen.waiting_list, timer_list <- Seen.timer_list,
                 status <- Seen.status

\* What Processes.tla takes for granted holds below it until SIGALRM comes where
\* the kernel runs unmasked: each call and each timer interrupt, one list
\* operation after the other, is one step from call to call,
CallsAtomic == Atomic!Init /\ [][disturbed' \/ Atomic!Next]_(Atomic!vars)

\* ENABLED of a timer interrupt that changes something.
TimerDue ==
    /\ machine = "up"
    /\ Seen.running = NULL \/ Seen.ready_list # <<>> \/ Seen.timer_list # <<>>

\* and the timer interrupts a process however few calls it makes (weak fairness).
TimerFair == \/ <>disturbed
             \/ []<>~TimerDue
             \/ []<><<Atomic!timerInterrupt>>_(Atomic!vars)

ImplementsProcesses == CallsAtomic /\ TimerFair
=============================================================================
