---------------------------- MODULE MCScheduling ------------------------------
(* Two small instances for TLC of the scheduler under its timer: Processes.tla *)
(* with three PCBs, and Contexts.tla, which implements it, with two.           *)
EXTENDS Contexts

CONSTANT FewPCBs

VARIABLE level   \* the module that a behaviour is one of

Low == INSTANCE Contexts WITH PCBs <- FewPCBs

MCInit == \/ level = "processes" /\ Init
          \/ level = "contexts" /\ Low!Init

OnProcesses(action) == level = "processes" /\ action /\ UNCHANGED <<level, signalVars>>
OnContexts(action)  == level = "contexts" /\ action /\ UNCHANGED level

\* The bound: one signal disturbs the kernel.
MaxOneDisturbance == disturbed /\ mode \notin {"user", "interrupt"} => mode' # "interrupt"

MCNext == OnProcesses(P!Next) \/ OnContexts(Low!Next /\ MaxOneDisturbance)

mcVars == <<vars, level>>

\* The fairness of the two modules.
Tick         == OnProcesses(P!timerInterrupt)
KernelStep   == OnContexts(Low!Kernel)
Expiry       == OnContexts(Low!Expire)
Delivery     == OnContexts(Low!timerHandler /\ MaxOneDisturbance)

MCSpec ==
    /\ MCInit /\ [][MCNext]_mcVars
    /\ WF_mcVars(Tick)
    /\ WF_mcVars(KernelStep)
    /\ WF_mcVars(Expiry)
    /\ SF_mcVars(Delivery)

\* No guard and no property reads syscall_retvalue, but P!Next fixes it: it is
\* the same on both sides of a step or the result of that step.  The locals of
\* internal_schedule matter while it runs, and what it started from until a
\* signal disturbs it.
StateView == <<machine, running, init_pcb, ready_list, waiting_list, zombie_list,
               timer_list, pcbs, status, parent, children, signals, awaits, no_context,
               returned, pcbptr_pool, mode, masked, pending, cpu_state, stopped,
               disturbed, level,
               IF mode \in {"timers", "wake", "woken"} THEN woken ELSE 0,
               IF mode \in {"switch", "switched"} THEN next_process ELSE NULL,
               IF mode \in Interrupt /\ ~ disturbed THEN before ELSE NULL>>
-----------------------------------------------------------------------------
\* Of both modules; of Contexts.tla while it implements Processes.tla.
ReadyRuns    == <>disturbed \/ P!ReadyRuns
SleepersWake == <>disturbed \/ P!SleepersWake

\* Contexts!ImplementsProcesses of the instance with two PCBs: the calls and the
\* interrupts of Contexts.tla are the atomic ones of Processes.tla, and its timer
\* is as fair.
LowImplementsProcesses ==
    /\ level = "contexts" => Low!Atomic!Init
    /\ [][level = "contexts" => disturbed' \/ Low!Atomic!Next]_(Low!Atomic!vars)
    /\ \/ level = "processes" \/ <>disturbed
       \/ []<>~Low!TimerDue
       \/ []<><<Low!Atomic!timerInterrupt>>_(Low!Atomic!vars)
=============================================================================
