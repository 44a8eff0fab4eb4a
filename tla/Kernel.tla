-------------------------------- MODULE Kernel -------------------------------
(* The kernel as programs see it: the calls on resources (Resources.tla) and *)
(* those on processes (Processes.tla), made by the running process, on one   *)
(* PCB pool, one PCBPtr pool, and the two result fields of each PCB.         *)
(*                                                                           *)
(* Each wrapper of disastrOS.c is an action: its handler in one of the two   *)
(* modules and what that handler does to the state of the other one.         *)
EXTENDS DisastrOSConstants, Integers, SequencesExt

CONSTANTS
    NULL, PCBs, InitPCB, NumPCBPtrs,
    MqBlocks, StdBlocks, MsgBlocks, Descriptors, ResourceIds, Messages,
    M_FOR_MQ, MESSAGE_STRING_MAX_LENGTH, BufferSizes, MaxFd,
    AnyChild, NoPid, SleepTimes,
    CallModes,   \* what programs pass to open and close,
    AwaitedPids, \* to wait
    ExitValues   \* and to exit

ASSUME KernelAssumption ==
    /\ IsFiniteSet(PCBs) /\ InitPCB \in PCBs
    /\ MqBlocks \cap StdBlocks = {}
    /\ IsFiniteSet(Descriptors)
    /\ NULL \notin PCBs \cup MqBlocks \cup StdBlocks \cup ResourceIds
    /\ NULL \notin Messages \cup Seq(Messages)
    /\ {AnyChild, NoPid} \cap (PCBs \cup {NULL}) = {} /\ AnyChild # NoPid
    /\ NumPCBPtrs \in Nat /\ M_FOR_MQ \in Nat \ {0}
    /\ MESSAGE_STRING_MAX_LENGTH \in Nat /\ MaxFd \in Nat
    /\ \A m \in Messages : m.length \in Int
    /\ BufferSizes \subseteq Int /\ SleepTimes \subseteq Int
    /\ CallModes \subseteq Modes

VARIABLES
    machine, pcbs, pcbptr_pool, syscall_retvalue,
    msgs, message, m_pool, stale_links, reading_pid, writing_pid,
    resources_list, resource_id, descriptors_ptrs, desc, descriptors,
    descptr_pool, last_fd, return_value,
    running, init_pcb, ready_list, waiting_list, zombie_list, timer_list,
    status, parent, children, signals, awaits, no_context, returned

sharedVars   == <<machine, pcbs, pcbptr_pool, syscall_retvalue>>
queueVars    == <<msgs, message, m_pool, stale_links, reading_pid, writing_pid,
                  resources_list, resource_id>>
pointerVars  == <<desc, descriptors_ptrs, descptr_pool>>
resourceVars == <<queueVars, pointerVars, descriptors, last_fd, return_value>>
processVars  == <<running, init_pcb, ready_list, waiting_list, zombie_list, timer_list,
                  status, parent, children, signals, awaits, no_context, returned>>
vars == <<sharedVars, resourceVars, processVars>>

\* The processes in children lists: those with a PCBPtr there.
Listed == UNION {ToSet(children[p]) : p \in PCBs}

\* Whatever a call can leave in a result field: a pid, an exit value, an error,
\* an fd or the length of a message.
Results == PCBs \cup ExitValues \cup
           (DSOS_WAITINGFORMESSAGE .. MaxFd) \cup (0 .. MESSAGE_STRING_MAX_LENGTH)

R == INSTANCE Resources WITH listed <- Listed, OtherResults <- Results
P == INSTANCE Processes WITH OtherResults <- Results

Init == P!Init /\ R!Init
-----------------------------------------------------------------------------
\* Fault: results go to the PCB of init.
Caller_Init == init_pcb

\* The PCB that disastrOS_syscall fills in and the handlers on resources read.
Caller == running

disastrOS_openResource(id, type, mode) ==
    /\ P!UserMode
    /\ UNCHANGED processVars
    /\ R!internal_openResource(Caller, id, type, mode)

disastrOS_closeResource(fd, mode) ==
    /\ P!UserMode
    /\ UNCHANGED processVars
    /\ R!internal_closeResource(Caller, fd, mode)

disastrOS_destroyResource(id) ==
    /\ P!UserMode
    /\ UNCHANGED processVars
    /\ R!internal_destroyResource(Caller, id)

disastrOS_mq_write(fd, m) ==
    /\ P!UserMode
    /\ UNCHANGED processVars
    /\ R!internal_message_queue_write(Caller, fd, m)

disastrOS_mq_read(fd, length) ==
    /\ P!UserMode
    /\ UNCHANGED processVars
    /\ R!internal_message_queue_read(Caller, fd, length)
-----------------------------------------------------------------------------
\* The descriptors and fds of a PCB that was allocated in this step.
ResetNewPCB ==
    /\ \/ pcbs' = pcbs /\ UNCHANGED <<descriptors, last_fd, return_value>>
       \/ \E b \in PCBs \ pcbs : pcbs' = pcbs \cup {b} /\ R!PCB_reset(b)
    /\ UNCHANGED <<queueVars, pointerVars>>

disastrOS_spawn == P!internal_spawn /\ ResetNewPCB
disastrOS_fork  == P!internal_fork /\ ResetNewPCB
disastrOS_start_again == P!disastrOS_start_again /\ ResetNewPCB

\* Fault: a dying process keeps its descriptors on both paths.
ReleaseAtDeath_Never(p) == UNCHANGED <<descriptors, pointerVars>>

\* exit, lines 74-82, are on the path that frees the PCB only.
ReleaseAtDeath(p) ==
    \/ p \in pcbs' /\ UNCHANGED <<descriptors, pointerVars>>
    \/ p \notin pcbs' /\ R!ReleaseDescriptors(p, descriptors[p])

disastrOS_exit(value) ==
    /\ P!internal_exit
    /\ return_value' = [return_value EXCEPT ![running] = value]
    /\ ReleaseAtDeath(running)
    /\ UNCHANGED <<queueVars, last_fd>>

disastrOS_wait(pid)    == P!internal_wait(pid) /\ UNCHANGED resourceVars
disastrOS_sleep(ticks) == P!internal_sleep(ticks) /\ UNCHANGED resourceVars
disastrOS_preempt      == P!internal_preempt /\ UNCHANGED resourceVars
disastrOS_shutdown     == P!internal_shutdown /\ UNCHANGED resourceVars
timerInterrupt         == P!timerInterrupt /\ UNCHANGED resourceVars

Next ==
    \/ \E id \in ResourceIds, type \in Types, mode \in CallModes :
          disastrOS_openResource(id, type, mode)
    \/ \E fd \in R!Fds, mode \in CallModes : disastrOS_closeResource(fd, mode)
    \/ \E id \in ResourceIds : disastrOS_destroyResource(id)
    \/ \E fd \in R!Fds, m \in Messages : disastrOS_mq_write(fd, m)
    \/ \E fd \in R!Fds, length \in BufferSizes : disastrOS_mq_read(fd, length)
    \/ disastrOS_spawn
    \/ disastrOS_fork
    \/ disastrOS_start_again
    \/ \E value \in ExitValues : disastrOS_exit(value)
    \/ \E pid \in AwaitedPids \cap P!Pids : disastrOS_wait(pid)
    \/ \E ticks \in SleepTimes : disastrOS_sleep(ticks)
    \/ disastrOS_preempt
    \/ disastrOS_shutdown
    \/ timerInterrupt

Spec == Init /\ [][Next]_vars
-----------------------------------------------------------------------------
\* The composition does to resources what Resources.tla allows, so what is
\* proved there of every process at any time holds of the kernel: the family
\* tree is the only place of PCBPtrs besides the roles, an exit finds its PCBPtr
\* in a list, and a new process starts without descriptors.
ImplementsResources == R!Spec

\* The calls on resources do to processes only what Processes.tla says they
\* may: take a PCBPtr, change the result of the caller, or crash.
ImplementsProcesses == P!Init /\ [][P!Next]_(P!vars)
=============================================================================
