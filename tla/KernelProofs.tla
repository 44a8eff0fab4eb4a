---------------------------- MODULE KernelProofs -----------------------------
(* Kernel.tla implements Resources.tla and Processes.tla for any number of    *)
(* processes, resources and blocks, so that what is proved of the two holds   *)
(* of their composition.  Each side needs the other: a call on resources is   *)
(* one that Processes.tla allows because the pools of the descriptors are in  *)
(* step, and the end of a process is one that Resources.tla allows because of *)
(* the family tree.  The invariant therefore covers both, and is proved of    *)
(* both at once.                                                              *)
EXTENDS Kernel, FiniteSetTheorems, TLAPS

\* Kernel.tla composes R and P, instances of Resources and Processes.  What is
\* proved about those modules comes from RP and PP, instances of their proof
\* modules.  The actions of both are the same formulas under different names,
\* which a proof has to expand to see: the lemmas that follow say so, once.
RP == INSTANCE ResourcesProofs WITH listed <- Listed, OtherResults <- Results
PP == INSTANCE ProcessesProofs WITH OtherResults <- Results

\* The actions on processes.
LEMMA SameInitP == P!Init <=> PP!Init
BY DEF P!Init, PP!Init

\* A crash is the same step under either instance of Processes,
LEMMA SameSegvP == P!Segv <=> PP!Segv
BY DEF P!Segv, PP!Segv, P!Stop, PP!Stop, P!family, PP!family, P!lists, PP!lists

\* so are the creation of a child,
LEMMA SameNewChild ==
    ASSUME NEW b
    PROVE  P!NewChild(b) <=> PP!NewChild(b)
BY DEF P!NewChild, PP!NewChild, P!NoRoom, PP!NoRoom, P!FreeBlocks,
       PP!FreeBlocks, P!Return, PP!Return

\* spawn,
LEMMA SameSpawn == P!internal_spawn <=> PP!internal_spawn
BY SameNewChild, SameSegvP
   DEF P!internal_spawn, PP!internal_spawn, P!UserMode, PP!UserMode, P!NoRoom,
       PP!NoRoom, P!FreeBlocks, PP!FreeBlocks

\* fork,
LEMMA SameFork == P!internal_fork <=> PP!internal_fork
BY SameNewChild, SameSegvP
   DEF P!internal_fork, PP!internal_fork, P!UserMode, PP!UserMode, P!NoRoom,
       PP!NoRoom, P!FreeBlocks, PP!FreeBlocks

\* the outcomes of exit: it loops for ever,
LEMMA SameExitHangs == P!ExitHangs <=> PP!ExitHangs
BY DEF P!ExitHangs, PP!ExitHangs, P!Stop, PP!Stop, P!family, PP!family,
       P!lists, PP!lists

\* crashes,
LEMMA SameExitCrashes == P!ExitCrashes <=> PP!ExitCrashes
BY DEF P!ExitCrashes, PP!ExitCrashes, P!AfterReparenting, PP!AfterReparenting,
       P!ParentAwaits, PP!ParentAwaits, P!ToSet, PP!ToSet, P!Segv, PP!Segv,
       P!Stop, PP!Stop, P!family, PP!family, P!lists, PP!lists

\* leaves a zombie,
LEMMA SameExitToZombie == P!ExitToZombie <=> PP!ExitToZombie
BY DEF P!ExitToZombie, PP!ExitToZombie, P!AfterReparenting,
       PP!AfterReparenting, P!ParentAwaits, PP!ParentAwaits, P!ExitSignals,
       PP!ExitSignals, P!ToSet, PP!ToSet, P!Dispatch, PP!Dispatch

\* or wakes the parent,
LEMMA SameExitWakesParent == P!ExitWakesParent <=> PP!ExitWakesParent
BY DEF P!ExitWakesParent, PP!ExitWakesParent, P!AfterReparenting,
       PP!AfterReparenting, P!ParentAwaits, PP!ParentAwaits, P!ExitSignals,
       PP!ExitSignals, P!ToSet, PP!ToSet, P!Dispatch, PP!Dispatch, P!Unlisted,
       PP!Unlisted, P!RemoveFirst, PP!RemoveFirst, P!RemoveAt, PP!RemoveAt,
       P!WithoutTimersOf, PP!WithoutTimersOf, P!SelectInSeq, PP!SelectInSeq,
       P!Min, PP!Min

\* and so exit itself;
LEMMA SameExit == P!internal_exit <=> PP!internal_exit
BY SameExitHangs, SameExitCrashes, SameExitToZombie, SameExitWakesParent
   DEF P!internal_exit, PP!internal_exit, P!UserMode, PP!UserMode

\* the children that wait looks at,
LEMMA SameScanned ==
    ASSUME NEW pid
    PROVE  (P!Scanned(pid)) = (PP!Scanned(pid))
BY DEF P!Scanned, PP!Scanned, P!Last, PP!Last, P!SelectInSeq, PP!SelectInSeq,
       P!Min, PP!Min

\* wait,
LEMMA SameWait ==
    ASSUME NEW pid
    PROVE  P!internal_wait(pid) <=> PP!internal_wait(pid)
BY DEF P!internal_wait, PP!internal_wait, P!UserMode, PP!UserMode,
       P!WaitNoChildren, PP!WaitNoChildren, P!WaitReaps, PP!WaitReaps,
       P!WaitBlocks, PP!WaitBlocks, P!WaitCrashes, PP!WaitCrashes, P!Return,
       PP!Return, P!Dispatch, PP!Dispatch, P!DSOS_EWAIT, PP!DSOS_EWAIT,
       P!Unlisted, PP!Unlisted, P!RemoveFirst, PP!RemoveFirst, P!RemoveAt,
       PP!RemoveAt, P!Scanned, PP!Scanned, P!Last, PP!Last, P!Segv, PP!Segv,
       P!Stop, PP!Stop, P!family, PP!family, P!lists, PP!lists, P!SelectInSeq,
       PP!SelectInSeq, P!Min, PP!Min

\* sleep,
LEMMA SameSleep ==
    ASSUME NEW ticks
    PROVE  P!internal_sleep(ticks) <=> PP!internal_sleep(ticks)
BY DEF P!internal_sleep, PP!internal_sleep, P!UserMode, PP!UserMode, P!Return,
       PP!Return, P!DSOS_ESLEEP, PP!DSOS_ESLEEP, P!Dispatch, PP!Dispatch,
       P!TimerList_add, PP!TimerList_add, P!TimerList_position,
       PP!TimerList_position, P!InsertAt, PP!InsertAt, P!Cardinality,
       PP!Cardinality, P!lists, PP!lists, P!family, PP!family, P!SelectInSeq,
       PP!SelectInSeq, P!Min, PP!Min

\* a run of the scheduler,
LEMMA SameSchedule ==
    ASSUME NEW STATE list
    PROVE  P!internal_schedule(list) <=> PP!internal_schedule(list)
BY DEF P!internal_schedule, PP!internal_schedule, P!Elapsed, PP!Elapsed,
       P!Remaining, PP!Remaining, P!NumElapsed, PP!NumElapsed, P!Requeued,
       PP!Requeued, P!ToSet, PP!ToSet, P!Dispatch, PP!Dispatch, P!family,
       PP!family, P!SelectInSeq, PP!SelectInSeq, P!Min, PP!Min

\* the timer interrupt,
LEMMA SameTimer == P!timerInterrupt <=> PP!timerInterrupt
BY SameSchedule
   DEF P!timerInterrupt, PP!timerInterrupt, P!Ticked, PP!Ticked, P!Segv,
       PP!Segv, P!Stop, PP!Stop, P!family, PP!family, P!lists, PP!lists

\* preempt,
LEMMA SamePreempt == P!internal_preempt <=> PP!internal_preempt
BY SameSchedule
   DEF P!internal_preempt, PP!internal_preempt, P!UserMode, PP!UserMode

\* the second start,
LEMMA SameStartAgain == P!disastrOS_start_again <=> PP!disastrOS_start_again
BY DEF P!disastrOS_start_again, PP!disastrOS_start_again, P!FreeBlocks,
       PP!FreeBlocks, P!Segv, PP!Segv, P!Stop, PP!Stop, P!family, PP!family,
       P!lists, PP!lists

\* shutdown,
LEMMA SameShutdown == P!internal_shutdown <=> PP!internal_shutdown
BY DEF P!internal_shutdown, PP!internal_shutdown, P!UserMode, PP!UserMode,
       P!Stop, PP!Stop, P!lists, PP!lists, P!family, PP!family

\* a call on resources,
LEMMA SameResourceCall == P!resource_call <=> PP!resource_call
BY DEF P!resource_call, PP!resource_call, P!UserMode, PP!UserMode, P!Return,
       PP!Return, P!Segv, PP!Segv, P!Stop, PP!Stop, P!family, PP!family,
       P!lists, PP!lists

\* and the next-state relation.
LEMMA SameNextP == P!Next <=> PP!Next
BY SameSpawn, SameFork, SameExit, SameWait, SameSleep, SamePreempt,
   SameTimer, SameStartAgain, SameShutdown, SameResourceCall
   DEF P!Next, PP!Next, P!Pids, PP!Pids

-----------------------------------------------------------------------------
\* The calls on resources.
LEMMA SameInitR == R!Init <=> RP!Init
BY DEF R!Init, RP!Init, R!mq_init, RP!mq_init, R!Blocks, RP!Blocks,
       R!FreeDescriptor, RP!FreeDescriptor, R!Cardinality, RP!Cardinality

\* The same for Resources: a crash is the same step,
LEMMA SameSegvR == R!Segv <=> RP!Segv
BY DEF R!Segv, RP!Segv, R!mqVars, RP!mqVars, R!msgVars, RP!msgVars, R!roleVars,
       RP!roleVars, R!listVars, RP!listVars, R!descVars, RP!descVars,
       R!pcbVars, RP!pcbVars

\* so are the attachment of a descriptor,
LEMMA SameAttach ==
    ASSUME NEW p, NEW r, NEW STATE users
    PROVE  R!AttachDescriptor(p, r, users) <=> RP!AttachDescriptor(p, r, users)
BY DEF R!AttachDescriptor, RP!AttachDescriptor, R!FreeDescriptors,
       RP!FreeDescriptors, R!Return, RP!Return, R!DSOS_ERESOURCENOFD,
       RP!DSOS_ERESOURCENOFD

\* the creation of a resource,
LEMMA SameCreate ==
    ASSUME NEW p, NEW id, NEW type
    PROVE  R!CreateResource(p, id, type) <=> RP!CreateResource(p, id, type)
BY SameAttach
   DEF R!CreateResource, RP!CreateResource, R!FreeResources, RP!FreeResources,
       R!mq_alloc, RP!mq_alloc, R!Named, RP!Named, R!resource_type,
       RP!resource_type, R!MESSAGE_QUEUE_TYPE, RP!MESSAGE_QUEUE_TYPE,
       R!STANDARD_RESOURCE_TYPE, RP!STANDARD_RESOURCE_TYPE, R!Blocks,
       RP!Blocks, R!mqVars, RP!mqVars, R!msgVars, RP!msgVars, R!roleVars,
       RP!roleVars, R!listVars, RP!listVars, R!descVars, RP!descVars,
       R!pcbVars, RP!pcbVars

\* the open of an existing one,
LEMMA SameOpenResource ==
    ASSUME NEW p, NEW id, NEW type, NEW mode
    PROVE  R!OpenResource(p, id, type, mode)
           <=> RP!OpenResource(p, id, type, mode)
BY SameAttach
   DEF R!OpenResource, RP!OpenResource, R!Openable, RP!Openable,
       R!mq_mode_free, RP!mq_mode_free, R!mq_set_mode, RP!mq_set_mode,
       R!mq_set_mode_crashes, RP!mq_set_mode_crashes, R!RolePtrs, RP!RolePtrs,
       R!DSOS_CREATE, RP!DSOS_CREATE, R!DSOS_READ, RP!DSOS_READ, R!DSOS_WRITE,
       RP!DSOS_WRITE, R!DSOS_EXCL, RP!DSOS_EXCL, R!Named, RP!Named,
       R!resource_type, RP!resource_type, R!MESSAGE_QUEUE_TYPE,
       RP!MESSAGE_QUEUE_TYPE, R!STANDARD_RESOURCE_TYPE,
       RP!STANDARD_RESOURCE_TYPE, R!Blocks, RP!Blocks, R!mqVars, RP!mqVars,
       R!msgVars, RP!msgVars, R!roleVars, RP!roleVars, R!listVars, RP!listVars,
       R!descVars, RP!descVars, R!pcbVars, RP!pcbVars

\* open,
LEMMA SameOpen ==
    ASSUME NEW p, NEW id, NEW type, NEW mode
    PROVE  R!internal_openResource(p, id, type, mode)
           <=> RP!internal_openResource(p, id, type, mode)
BY SameCreate, SameOpenResource, SameSegvR
   DEF R!internal_openResource, RP!internal_openResource, R!Caller, RP!Caller,
       R!CreateExisting, RP!CreateExisting, R!CreateCrashes, RP!CreateCrashes,
       R!OpenMissing, RP!OpenMissing, R!OpenNotExclusive, RP!OpenNotExclusive,
       R!OpenRoleTaken, RP!OpenRoleTaken, R!OpenCrashes, RP!OpenCrashes,
       R!Openable, RP!Openable, R!mq_mode_free, RP!mq_mode_free,
       R!mq_set_mode_crashes, RP!mq_set_mode_crashes, R!FreeResources,
       RP!FreeResources, R!DSOS_ERESOURCECREATE, RP!DSOS_ERESOURCECREATE,
       R!DSOS_ERESOURCEOPEN, RP!DSOS_ERESOURCEOPEN, R!DSOS_ERESOURCENOEXCL,
       RP!DSOS_ERESOURCENOEXCL, R!DSOS_CREATE, RP!DSOS_CREATE, R!DSOS_READ,
       RP!DSOS_READ, R!DSOS_WRITE, RP!DSOS_WRITE, R!DSOS_EXCL, RP!DSOS_EXCL,
       R!Refuse, RP!Refuse, R!Return, RP!Return, R!mqVars, RP!mqVars,
       R!msgVars, RP!msgVars, R!roleVars, RP!roleVars, R!listVars, RP!listVars,
       R!descVars, RP!descVars, R!pcbVars, RP!pcbVars, R!Named, RP!Named,
       R!resource_type, RP!resource_type, R!MESSAGE_QUEUE_TYPE,
       RP!MESSAGE_QUEUE_TYPE, R!STANDARD_RESOURCE_TYPE,
       RP!STANDARD_RESOURCE_TYPE, R!Blocks, RP!Blocks

\* the release of descriptors,
LEMMA SameRelease ==
    ASSUME NEW p, NEW STATE ds
    PROVE  R!ReleaseDescriptors(p, ds) <=> RP!ReleaseDescriptors(p, ds)
BY DEF R!ReleaseDescriptors, RP!ReleaseDescriptors, R!FreeDescriptor,
       RP!FreeDescriptor, R!Cardinality, RP!Cardinality, R!Blocks, RP!Blocks

\* close,
LEMMA SameClose ==
    ASSUME NEW p, NEW fd, NEW mode
    PROVE  R!internal_closeResource(p, fd, mode)
           <=> RP!internal_closeResource(p, fd, mode)
BY SameRelease
   DEF R!internal_closeResource, RP!internal_closeResource, R!Caller,
       RP!Caller, R!CloseUnknown, RP!CloseUnknown, R!CloseResource,
       RP!CloseResource, R!Held, RP!Held, R!mq_delete_mode, RP!mq_delete_mode,
       R!DSOS_READ, RP!DSOS_READ, R!DSOS_WRITE, RP!DSOS_WRITE,
       R!DSOS_ERESOURCECLOSE, RP!DSOS_ERESOURCECLOSE, R!Refuse, RP!Refuse,
       R!Return, RP!Return, R!mqVars, RP!mqVars, R!msgVars, RP!msgVars,
       R!roleVars, RP!roleVars, R!listVars, RP!listVars, R!descVars,
       RP!descVars, R!pcbVars, RP!pcbVars

\* destroy,
LEMMA SameDestroy ==
    ASSUME NEW p, NEW id
    PROVE  R!internal_destroyResource(p, id)
           <=> RP!internal_destroyResource(p, id)
BY DEF R!internal_destroyResource, RP!internal_destroyResource, R!Caller,
       RP!Caller, R!DestroyMissing, RP!DestroyMissing, R!DestroyInUse,
       RP!DestroyInUse, R!DestroyResource, RP!DestroyResource, R!InUse,
       RP!InUse, R!Named, RP!Named, R!mq_free, RP!mq_free, R!Range, RP!Range,
       R!DSOS_ERESOURCECLOSE, RP!DSOS_ERESOURCECLOSE, R!DSOS_ERESOURCEINUSE,
       RP!DSOS_ERESOURCEINUSE, R!Refuse, RP!Refuse, R!Return, RP!Return,
       R!mqVars, RP!mqVars, R!msgVars, RP!msgVars, R!roleVars, RP!roleVars,
       R!listVars, RP!listVars, R!descVars, RP!descVars, R!pcbVars, RP!pcbVars

\* the check of an fd,
LEMMA SameBadDescriptor ==
    ASSUME NEW p, NEW fd
    PROVE  R!BadDescriptor(p, fd) <=> RP!BadDescriptor(p, fd)
BY DEF R!BadDescriptor, RP!BadDescriptor, R!Held, RP!Held, R!HeldQueue,
       RP!HeldQueue, R!DSOS_RESOURCENOTFOUND, RP!DSOS_RESOURCENOTFOUND,
       R!DSOS_ERESOURCETYPEWRONG, RP!DSOS_ERESOURCETYPEWRONG, R!Refuse,
       RP!Refuse, R!Return, RP!Return, R!mqVars, RP!mqVars, R!msgVars,
       RP!msgVars, R!roleVars, RP!roleVars, R!listVars, RP!listVars,
       R!descVars, RP!descVars, R!pcbVars, RP!pcbVars

\* the insertion of a message,
LEMMA SameWriteMessage ==
    ASSUME NEW p, NEW fd, NEW m
    PROVE  R!WriteMessage(p, fd, m) <=> RP!WriteMessage(p, fd, m)
BY DEF R!WriteMessage, RP!WriteMessage, R!HeldQueue, RP!HeldQueue, R!Held,
       RP!Held, R!AppendMessage, RP!AppendMessage, R!m_alloc, RP!m_alloc,
       R!Inserted, RP!Inserted, R!Return, RP!Return, R!mqVars, RP!mqVars,
       R!msgVars, RP!msgVars, R!roleVars, RP!roleVars, R!listVars, RP!listVars,
       R!descVars, RP!descVars, R!pcbVars, RP!pcbVars

\* write,
LEMMA SameWrite ==
    ASSUME NEW p, NEW fd, NEW m
    PROVE  R!internal_message_queue_write(p, fd, m)
           <=> RP!internal_message_queue_write(p, fd, m)
BY SameBadDescriptor, SameWriteMessage, SameSegvR
   DEF R!internal_message_queue_write, RP!internal_message_queue_write,
       R!Caller, RP!Caller, R!WriteInvalid, RP!WriteInvalid, R!ValidLength,
       RP!ValidLength, R!WriteFull, RP!WriteFull, R!WriteCrashes,
       RP!WriteCrashes, R!HeldQueue, RP!HeldQueue, R!Held, RP!Held,
       R!DSOS_MESSAGELENGTHNOTVALID, RP!DSOS_MESSAGELENGTHNOTVALID,
       R!DSOS_MESSAGEQUEUEFULL, RP!DSOS_MESSAGEQUEUEFULL, R!Refuse, RP!Refuse,
       R!Return, RP!Return, R!mqVars, RP!mqVars, R!msgVars, RP!msgVars,
       R!roleVars, RP!roleVars, R!listVars, RP!listVars, R!descVars,
       RP!descVars, R!pcbVars, RP!pcbVars

\* read,
LEMMA SameRead ==
    ASSUME NEW p, NEW fd, NEW length
    PROVE  R!internal_message_queue_read(p, fd, length)
           <=> RP!internal_message_queue_read(p, fd, length)
BY SameBadDescriptor
   DEF R!internal_message_queue_read, RP!internal_message_queue_read, R!Caller,
       RP!Caller, R!ReadEmpty, RP!ReadEmpty, R!ReadTooLong, RP!ReadTooLong,
       R!ReadMessage, RP!ReadMessage, R!HeldQueue, RP!HeldQueue, R!Held,
       RP!Held, R!DetachFirst, RP!DetachFirst, R!DSOS_MESSAGEQUEUEEMPTY,
       RP!DSOS_MESSAGEQUEUEEMPTY, R!DSOS_MESSAGELENGTHNOTVALID,
       RP!DSOS_MESSAGELENGTHNOTVALID, R!DSOS_WAITINGFORMESSAGE,
       RP!DSOS_WAITINGFORMESSAGE, R!Refuse, RP!Refuse, R!Return, RP!Return,
       R!mqVars, RP!mqVars, R!msgVars, RP!msgVars, R!roleVars, RP!roleVars,
       R!listVars, RP!listVars, R!descVars, RP!descVars, R!pcbVars, RP!pcbVars

\* the reset of a new PCB,
LEMMA SameAlloc ==
    ASSUME NEW p
    PROVE  R!PCB_alloc(p) <=> RP!PCB_alloc(p)
BY DEF R!PCB_alloc, RP!PCB_alloc, R!PCB_reset, RP!PCB_reset, R!Returns,
       RP!Returns, R!Return, RP!Return, R!mqVars, RP!mqVars, R!msgVars,
       RP!msgVars, R!roleVars, RP!roleVars, R!listVars, RP!listVars,
       R!descVars, RP!descVars, R!pcbVars, RP!pcbVars

\* the two ends of a process: exit under a waiting parent
LEMMA SameExitReleasing ==
    ASSUME NEW p
    PROVE  R!ExitReleasing(p) <=> RP!ExitReleasing(p)
BY SameRelease
   DEF R!ExitReleasing, RP!ExitReleasing, R!Caller, RP!Caller, R!ExitValue,
       RP!ExitValue, R!Returns, RP!Returns, R!Return, RP!Return, R!mqVars,
       RP!mqVars, R!msgVars, RP!msgVars, R!roleVars, RP!roleVars, R!listVars,
       RP!listVars, R!descVars, RP!descVars, R!pcbVars, RP!pcbVars

\* and exit reaped later,
LEMMA SameExitReaped ==
    ASSUME NEW p
    PROVE  R!ExitReaped(p) <=> RP!ExitReaped(p)
BY DEF R!ExitReaped, RP!ExitReaped, R!Caller, RP!Caller, R!Returns, RP!Returns,
       R!Return, RP!Return, R!mqVars, RP!mqVars, R!msgVars, RP!msgVars,
       R!roleVars, RP!roleVars, R!listVars, RP!listVars, R!descVars,
       RP!descVars, R!pcbVars, RP!pcbVars

\* a call on processes,
LEMMA SameOtherCall == R!OtherCall <=> RP!OtherCall
BY DEF R!OtherCall, RP!OtherCall, R!Returns, RP!Returns, R!Return, RP!Return,
       R!ExitValue, RP!ExitValue, R!mqVars, RP!mqVars, R!msgVars, RP!msgVars,
       R!roleVars, RP!roleVars, R!listVars, RP!listVars, R!descVars,
       RP!descVars, R!pcbVars, RP!pcbVars

\* and the next-state relation.
LEMMA SameNextR == R!Next <=> RP!Next
BY SameOpen, SameClose, SameDestroy, SameWrite, SameRead, SameAlloc,
   SameExitReleasing, SameExitReaped, SameOtherCall
   DEF R!Next, RP!Next, R!Fds, RP!Fds, R!Types, RP!Types, R!MAX_TYPE_RESOURCES,
       RP!MAX_TYPE_RESOURCES, R!Modes, RP!Modes, R!DSOS_CREATE, RP!DSOS_CREATE,
       R!DSOS_READ, RP!DSOS_READ, R!DSOS_WRITE, RP!DSOS_WRITE, R!DSOS_EXCL,
       RP!DSOS_EXCL
-----------------------------------------------------------------------------
\* While the machine is up the context of whoever runs, or will continue after
\* a wait or a sleep, is set: only a child of fork that never ran has none.
HasContext ==
    machine = "up" => ({running} \cup waiting_list) \cap no_context = {}

\* A block that holds a message holds one that write has let in.
LengthsOK ==
    \A b \in MsgBlocks : message[b] # NULL =>
        message[b].length \in 0 .. MESSAGE_STRING_MAX_LENGTH

ResourcesInv == RP!DescInv /\ RP!MsgInv /\ RP!RestTypeOK /\ RP!PtrsInLockstep

KInv == PP!IInv /\ HasContext /\ ResourcesInv /\ LengthsOK

\* What the proofs of the two modules assume of their constants.
LEMMA Assumptions ==
    RP!QueueAssumption /\ RP!ResourceAssumption /\ PP!ProcessAssumption
BY KernelAssumption
   DEF RP!QueueAssumption, RP!ResourceAssumption, RP!Blocks, PP!ProcessAssumption,
       IsFiniteSet, RP!IsFiniteSet, PP!IsFiniteSet

\* What a call leaves in syscall_retvalue is one of Results.
LEMMA CodesAreResults ==
    /\ {R!DSOS_ERESOURCECREATE, R!DSOS_ERESOURCEOPEN, R!DSOS_ERESOURCENOEXCL,
        R!DSOS_ERESOURCENOFD, R!DSOS_ERESOURCECLOSE, R!DSOS_ERESOURCEINUSE,
        R!DSOS_ERESOURCETYPEWRONG, R!DSOS_MESSAGELENGTHNOTVALID,
        R!DSOS_MESSAGEQUEUEEMPTY, R!DSOS_RESOURCENOTFOUND, R!DSOS_WAITINGFORMESSAGE,
        P!DSOS_EWAIT, P!DSOS_ESLEEP, 0} \subseteq Results
    /\ 0 .. MaxFd \subseteq Results
    /\ 0 .. MESSAGE_STRING_MAX_LENGTH \subseteq Results
    /\ PCBs \subseteq Results /\ ExitValues \subseteq Results
BY KernelAssumption
   DEF Results, DSOS_WAITINGFORMESSAGE,
       R!DSOS_ERESOURCECREATE, R!DSOS_ERESOURCEOPEN, R!DSOS_ERESOURCENOEXCL,
       R!DSOS_ERESOURCENOFD, R!DSOS_ERESOURCECLOSE, R!DSOS_ERESOURCEINUSE,
       R!DSOS_ERESOURCETYPEWRONG, R!DSOS_MESSAGELENGTHNOTVALID,
       R!DSOS_MESSAGEQUEUEEMPTY, R!DSOS_RESOURCENOTFOUND, R!DSOS_WAITINGFORMESSAGE,
       P!DSOS_EWAIT, P!DSOS_ESLEEP
-----------------------------------------------------------------------------
\* Calls on resources, seen by Processes.tla.

\* What the invariant says of the running process.
LEMMA UserModeFacts ==
    ASSUME KInv, P!UserMode
    PROVE  /\ machine = "up" /\ running \in pcbs /\ running \in PCBs
           /\ pcbs \subseteq PCBs /\ pcbptr_pool \in Nat
<1>1. PP!UserMode
  BY DEF P!UserMode, PP!UserMode
<1>2. PP!IInv
  BY DEF KInv
<1>3. running \in pcbs /\ running \in PCBs /\ machine = "up"
  BY <1>1, <1>2, PP!InUserMode, Assumptions
<1> QED BY <1>2, <1>3 DEF PP!IInv, PP!TypeOK

\* An early return, a crash, and a call that ran to its end.
LEMMA CallRefused ==
    ASSUME P!UserMode, KInv, NEW STATE v, v \in Results, R!Refuse(running, v),
           UNCHANGED processVars
    PROVE  P!resource_call /\ UNCHANGED message
<1>1. 0 <= pcbptr_pool /\ pcbptr_pool' = pcbptr_pool - 0
  BY UserModeFacts DEF R!Refuse, R!mqVars, R!roleVars
<1>2. UNCHANGED <<machine, pcbs, message>> /\ P!Return(v)
  BY DEF R!Refuse, R!mqVars, R!msgVars, R!Return, P!Return, R!pcbVars
<1> QED BY <1>1, <1>2 DEF P!resource_call, processVars, P!lists, P!family

\* A call on resources that crashes is a resource_call.
LEMMA CallCrashed ==
    ASSUME P!UserMode, R!Segv, UNCHANGED processVars
    PROVE  P!resource_call /\ UNCHANGED message
BY DEF P!resource_call, P!Segv, P!Stop, R!Segv, R!mqVars, R!msgVars, R!roleVars,
       R!pcbVars, processVars, P!lists, P!family

\* So is one that returns v and takes n PCBPtrs.
LEMMA CallReturned ==
    ASSUME P!UserMode, NEW STATE n, n \in {0, 1}, n <= pcbptr_pool,
           pcbptr_pool' = pcbptr_pool - n, NEW STATE v, v \in Results,
           R!Return(running, v), UNCHANGED <<machine, pcbs, processVars>>
    PROVE  P!resource_call
BY DEF P!resource_call, R!Return, P!Return, processVars, P!lists, P!family

\* The allocation of the descriptor pointer, which nothing checks, succeeds.
LEMMA CallAttached ==
    ASSUME P!UserMode, KInv, NEW r, NEW STATE users,
           R!AttachDescriptor(running, r, users)
    PROVE  /\ UNCHANGED machine
           /\ \E v \in Results : R!Return(running, v)
<1> USE DEF R!AttachDescriptor
<1>1. CASE R!FreeDescriptors = {} /\ UNCHANGED machine /\ R!Return(running, R!DSOS_ERESOURCENOFD)
  BY <1>1, CodesAreResults
<1>2. CASE /\ last_fd[running] < MaxFd /\ R!FreeDescriptors # {}
           /\ machine' = IF descptr_pool = 0 THEN "segv" ELSE machine
           /\ R!Return(running, last_fd[running])
  <2>1. RP!DescTypeOK /\ RP!PtrsInLockstep
    BY DEF KInv, ResourcesInv, RP!DescInv
  <2>2. RP!FreeDescriptors # {}
    BY <1>2 DEF R!FreeDescriptors, RP!FreeDescriptors
  <2>3. descptr_pool # 0 /\ last_fd[running] \in Nat
    BY <2>1, <2>2, RP!EmptyTogether, Assumptions, UserModeFacts DEF RP!DescTypeOK
  <2>4. last_fd[running] \in 0 .. MaxFd
    BY <1>2, <2>3, KernelAssumption
  <2> QED BY <1>2, <2>3, <2>4, CodesAreResults
<1> QED BY <1>1, <1>2

\* Open leaves the processes alone but for the result and the PCBPtrs of roles.
LEMMA OpenCalls ==
    ASSUME KInv, NEW id \in ResourceIds, NEW type \in Types, NEW mode \in CallModes,
           disastrOS_openResource(id, type, mode)
    PROVE  P!resource_call /\ UNCHANGED message
<1>0. P!UserMode /\ UNCHANGED processVars
  BY DEF disastrOS_openResource
<1>1. ASSUME NEW STATE v, v \in Results, R!Refuse(running, v)
      PROVE  P!resource_call /\ UNCHANGED message
  BY <1>0, <1>1, CallRefused
<1>2. CASE R!Segv
  BY <1>0, <1>2, CallCrashed
<1>3. CASE R!CreateResource(running, id, type)
  <2>1. PICK r, users : R!AttachDescriptor(running, r, users)
    BY <1>3 DEF R!CreateResource
  <2>2. UNCHANGED <<pcbs, pcbptr_pool, message>>
    BY <1>3 DEF R!CreateResource, R!mq_alloc, R!roleVars, R!mqVars, R!msgVars, R!pcbVars
  <2>3. 0 <= pcbptr_pool /\ pcbptr_pool' = pcbptr_pool - 0
    BY <1>0, <2>2, UserModeFacts
  <2> QED BY <1>0, <2>1, <2>2, <2>3, CallAttached, CallReturned
<1>4. CASE R!OpenResource(running, id, type, mode)
  <2>1. PICK r \in R!Openable(id, type, mode) :
           /\ IF r \in MqBlocks
                THEN /\ ~ R!mq_set_mode_crashes(mode)
                     /\ R!mq_set_mode(r, mode, running)
                ELSE UNCHANGED R!mqVars
           /\ R!AttachDescriptor(running, r, descriptors_ptrs[r])
    BY <1>4 DEF R!OpenResource
  <2>2. UNCHANGED <<pcbs, message>>
    BY <1>4, <2>1 DEF R!OpenResource, R!mq_set_mode, R!mqVars, R!msgVars, R!pcbVars
  <2>3. PICK n \in {0, 1} : n <= pcbptr_pool /\ pcbptr_pool' = pcbptr_pool - n
    BY <1>0, <2>1, UserModeFacts
       DEF R!mq_set_mode, R!mq_set_mode_crashes, R!RolePtrs, R!mqVars, R!roleVars
  <2> QED BY <1>0, <2>1, <2>2, <2>3, CallAttached, CallReturned
<1>5. \/ \E v \in Results : R!Refuse(running, v)
      \/ R!Segv
      \/ R!CreateResource(running, id, type)
      \/ R!OpenResource(running, id, type, mode)
  BY CodesAreResults
     DEF disastrOS_openResource, Caller, R!internal_openResource, R!CreateExisting,
         R!CreateCrashes, R!OpenMissing, R!OpenNotExclusive, R!OpenRoleTaken,
         R!OpenCrashes
<1> QED BY <1>1, <1>2, <1>3, <1>4, <1>5

\* So does close, which gives back no PCBPtr,
LEMMA CloseCalls ==
    ASSUME KInv, NEW fd \in R!Fds, NEW mode \in CallModes,
           disastrOS_closeResource(fd, mode)
    PROVE  P!resource_call /\ UNCHANGED message
<1>1. P!UserMode /\ UNCHANGED processVars
  BY DEF disastrOS_closeResource
<1>2. CASE R!CloseUnknown(running, fd)
  BY <1>1, <1>2, CallRefused, CodesAreResults DEF R!CloseUnknown
<1>3. CASE R!CloseResource(running, fd, mode)
  <2>1. /\ UNCHANGED <<machine, pcbs, pcbptr_pool, message>>
        /\ R!Return(running, 0)
    BY <1>3 DEF R!CloseResource, R!mq_delete_mode, R!mqVars, R!roleVars, R!msgVars,
                R!pcbVars
  <2>2. 0 <= pcbptr_pool /\ pcbptr_pool' = pcbptr_pool - 0
    BY <1>1, <2>1, UserModeFacts
  <2> QED BY <1>1, <2>1, <2>2, CallReturned, CodesAreResults
<1> QED BY <1>2, <1>3 DEF disastrOS_closeResource, Caller, R!internal_closeResource

\* and destroy; the messages left keep their lengths.
LEMMA DestroyCalls ==
    ASSUME KInv, NEW id \in ResourceIds, disastrOS_destroyResource(id)
    PROVE  P!resource_call /\ LengthsOK'
<1>1. P!UserMode /\ UNCHANGED processVars
  BY DEF disastrOS_destroyResource
<1>2. CASE R!DestroyMissing(running, id) \/ R!DestroyInUse(running, id)
  BY <1>1, <1>2, CallRefused, CodesAreResults
     DEF R!DestroyMissing, R!DestroyInUse, KInv, LengthsOK
<1>3. CASE R!DestroyResource(running, id)
  <2>1. PICK r : IF r \in MqBlocks THEN R!mq_free(r) ELSE UNCHANGED R!mqVars
    BY <1>3 DEF R!DestroyResource
  <2>2. UNCHANGED <<machine, pcbs, pcbptr_pool>> /\ R!Return(running, 0)
    BY <1>3, <2>1 DEF R!DestroyResource, R!mq_free, R!mqVars, R!roleVars, R!pcbVars
  <2>3. 0 <= pcbptr_pool /\ pcbptr_pool' = pcbptr_pool - 0
    BY <1>1, <2>2, UserModeFacts
  <2>4. \A b \in MsgBlocks : message'[b] # NULL => message'[b] = message[b]
    BY <2>1 DEF R!mq_free, R!mqVars, R!msgVars
  <2>5. LengthsOK'
    BY <2>4 DEF KInv, LengthsOK
  <2> QED BY <1>1, <2>2, <2>3, <2>5, CallReturned, CodesAreResults
<1> QED BY <1>2, <1>3 DEF disastrOS_destroyResource, Caller, R!internal_destroyResource

\* A queue reached through a descriptor has blocks that hold messages.
LEMMA HeldQueueLive ==
    ASSUME KInv, P!UserMode, NEW fd, NEW q \in R!HeldQueue(running, fd)
    PROVE  /\ q \in MqBlocks /\ msgs[q] \in Seq(MsgBlocks)
           /\ msgs[q] # <<>> => /\ Head(msgs[q]) \in MsgBlocks
                               /\ message[Head(msgs[q])] # NULL
<1>1. RP!DescInv /\ RP!MsgInv
  BY DEF KInv, ResourcesInv
<1>2. q \in RP!HeldQueue(running, fd)
  BY DEF R!HeldQueue, RP!HeldQueue, R!Held, RP!Held
<1>3. q \in RP!LiveQueues
  BY <1>1, <1>2, UserModeFacts, RP!HeldQueuesLive, Assumptions
<1>4. q \in MqBlocks /\ msgs[q] \in Seq(MsgBlocks)
  BY <1>1, <1>3 DEF RP!LiveQueues, RP!MsgInv, RP!MsgTypeOK
<1>5. ASSUME msgs[q] # <<>> PROVE message[Head(msgs[q])] # NULL
  <2>1. 1 \in 1 .. Len(msgs[q]) /\ Head(msgs[q]) = msgs[q][1]
    BY <1>4, <1>5
  <2> QED BY <1>1, <1>3, <2>1 DEF RP!MsgInv, RP!MessageBlocksOwned
<1> QED BY <1>4, <1>5

\* A write to a full queue leaves syscall_retvalue as it is: Processes.tla sees
\* nothing of it.
LEMMA WriteCalls ==
    ASSUME KInv, NEW fd \in R!Fds, NEW m \in Messages, disastrOS_mq_write(fd, m)
    PROVE  /\ P!resource_call \/ UNCHANGED P!vars
           /\ LengthsOK'
<1>0. P!UserMode /\ UNCHANGED processVars
  BY DEF disastrOS_mq_write
<1>1. UNCHANGED message => LengthsOK'
  BY DEF KInv, LengthsOK
<1>2. ASSUME NEW STATE v, v \in Results, R!Refuse(running, v)
      PROVE  P!resource_call /\ LengthsOK'
  BY <1>0, <1>1, <1>2, CallRefused
<1>3. CASE R!Segv
  BY <1>0, <1>1, <1>3, CallCrashed
<1>4. CASE R!WriteFull(running, fd)
  BY <1>0, <1>1, <1>4
     DEF R!WriteFull, R!mqVars, R!roleVars, R!msgVars, P!vars, processVars, P!lists,
         P!family
<1>5. CASE R!ValidLength(m) /\ R!WriteMessage(running, fd, m)
  <2>1. PICK q \in R!HeldQueue(running, fd), b \in m_pool : R!AppendMessage(q, b, m)
    BY <1>5 DEF R!WriteMessage
  <2>2. /\ UNCHANGED <<machine, pcbs, pcbptr_pool>>
        /\ R!Return(running, m.length)
        /\ message' = [message EXCEPT ![b] = m]
    BY <1>5, <2>1 DEF R!WriteMessage, R!AppendMessage, R!m_alloc, R!roleVars, R!pcbVars
  <2>3. 0 <= pcbptr_pool /\ pcbptr_pool' = pcbptr_pool - 0
    BY <1>0, <2>2, UserModeFacts
  <2>4. m.length \in 0 .. MESSAGE_STRING_MAX_LENGTH
    BY <1>5 DEF R!ValidLength
  <2>5. LengthsOK'
    <3>1. message \in [MsgBlocks -> Messages \cup {NULL}]
      BY DEF KInv, ResourcesInv, RP!MsgInv, RP!MsgTypeOK
    <3> QED BY <2>2, <2>4, <3>1 DEF KInv, LengthsOK
  <2> QED BY <1>0, <2>2, <2>3, <2>4, <2>5, CallReturned, CodesAreResults
<1>6. \/ \E v \in Results : R!Refuse(running, v)
      \/ R!Segv
      \/ R!WriteFull(running, fd)
      \/ R!ValidLength(m) /\ R!WriteMessage(running, fd, m)
  BY CodesAreResults
     DEF disastrOS_mq_write, Caller, R!internal_message_queue_write, R!WriteInvalid,
         R!BadDescriptor, R!WriteCrashes
<1> QED BY <1>2, <1>3, <1>4, <1>5, <1>6

\* Read returns the length of a message or an error.
LEMMA ReadCalls ==
    ASSUME KInv, NEW fd \in R!Fds, NEW length \in BufferSizes,
           disastrOS_mq_read(fd, length)
    PROVE  P!resource_call /\ LengthsOK'
<1>0. P!UserMode /\ UNCHANGED processVars
  BY DEF disastrOS_mq_read
<1>1. ASSUME NEW STATE v, v \in Results, R!Refuse(running, v)
      PROVE  P!resource_call /\ LengthsOK'
  BY <1>0, <1>1, CallRefused DEF KInv, LengthsOK
<1>2. CASE R!ReadMessage(running, fd, length)
  <2>1. PICK q \in R!HeldQueue(running, fd) :
           /\ msgs[q] # <<>>
           /\ R!DetachFirst(q)
           /\ R!Return(running, message[Head(msgs[q])].length)
    BY <1>2 DEF R!ReadMessage
  <2>2. /\ UNCHANGED <<machine, pcbs, pcbptr_pool>>
        /\ message' = [message EXCEPT ![Head(msgs[q])] = NULL]
    BY <1>2, <2>1 DEF R!ReadMessage, R!DetachFirst, R!roleVars, R!pcbVars
  <2>3. 0 <= pcbptr_pool /\ pcbptr_pool' = pcbptr_pool - 0
    BY <1>0, <2>2, UserModeFacts
  <2>4. message[Head(msgs[q])].length \in Results
    BY <1>0, <2>1, HeldQueueLive, CodesAreResults DEF KInv, LengthsOK
  <2>5. \A b \in MsgBlocks : message'[b] # NULL => message'[b] = message[b]
    <3>1. message \in [MsgBlocks -> Messages \cup {NULL}]
      BY DEF KInv, ResourcesInv, RP!MsgInv, RP!MsgTypeOK
    <3> QED BY <2>2, <3>1
  <2>6. LengthsOK'
    BY <2>5 DEF KInv, LengthsOK
  <2> QED BY <1>0, <2>1, <2>2, <2>3, <2>4, <2>6, CallReturned
<1>3. \/ \E v \in Results : R!Refuse(running, v)
      \/ R!ReadMessage(running, fd, length)
  BY CodesAreResults
     DEF disastrOS_mq_read, Caller, R!internal_message_queue_read, R!BadDescriptor,
         R!ReadEmpty, R!ReadTooLong
<1> QED BY <1>1, <1>2, <1>3

\* The calls on resources do to processes what Processes.tla says they may, and
\* only messages of a valid length are stored.
LEMMA StepOfProcesses ==
    ASSUME KInv, [Next]_vars
    PROVE  [P!Next]_(P!vars) /\ LengthsOK'
<1>1. UNCHANGED message => LengthsOK'
  BY DEF KInv, LengthsOK
<1>2. CASE \E id \in ResourceIds, type \in Types, mode \in CallModes :
              disastrOS_openResource(id, type, mode)
  BY <1>1, <1>2, OpenCalls DEF P!Next
<1>3. CASE \E fd \in R!Fds, mode \in CallModes : disastrOS_closeResource(fd, mode)
  BY <1>1, <1>3, CloseCalls DEF P!Next
<1>4. CASE \E id \in ResourceIds : disastrOS_destroyResource(id)
  BY <1>4, DestroyCalls DEF P!Next
<1>5. CASE \E fd \in R!Fds, m \in Messages : disastrOS_mq_write(fd, m)
  BY <1>5, WriteCalls DEF P!Next
<1>6. CASE \E fd \in R!Fds, length \in BufferSizes : disastrOS_mq_read(fd, length)
  BY <1>6, ReadCalls DEF P!Next
<1>7. CASE disastrOS_spawn \/ disastrOS_fork \/ disastrOS_start_again
  BY <1>1, <1>7
     DEF disastrOS_spawn, disastrOS_fork, disastrOS_start_again, ResetNewPCB, queueVars,
         P!Next
<1>8. CASE \E value \in ExitValues : disastrOS_exit(value)
  BY <1>1, <1>8 DEF disastrOS_exit, queueVars, P!Next
<1>9. CASE \E pid \in AwaitedPids \cap P!Pids : disastrOS_wait(pid)
  BY <1>1, <1>9 DEF disastrOS_wait, resourceVars, queueVars, P!Next
<1>10. CASE \/ \E ticks \in SleepTimes : disastrOS_sleep(ticks)
            \/ disastrOS_preempt \/ disastrOS_shutdown \/ timerInterrupt
  BY <1>1, <1>10
     DEF disastrOS_sleep, disastrOS_preempt, disastrOS_shutdown, timerInterrupt,
         resourceVars, queueVars, P!Next
<1>11. CASE UNCHANGED vars
  BY <1>1, <1>11
     DEF vars, sharedVars, resourceVars, queueVars, processVars, P!vars, P!lists, P!family
<1> QED BY <1>2, <1>3, <1>4, <1>5, <1>6, <1>7, <1>8, <1>9, <1>10, <1>11 DEF Next

\* Every step of the kernel keeps the invariant of Processes.
LEMMA ProcessesInvKept ==
    ASSUME KInv, [Next]_vars
    PROVE  PP!IInv'
<1>1. [PP!Next]_(PP!vars)
  BY StepOfProcesses, SameNextP
     DEF P!vars, PP!vars, P!lists, PP!lists, P!family, PP!family
<1> QED BY <1>1, PP!NextStep, Assumptions DEF KInv

\* Nobody is resumed without a context: a process waits or sleeps only after it
\* ran, and Dispatch of one without a context ends the machine.
LEMMA ContextKept ==
    ASSUME KInv, [Next]_vars
    PROVE  HasContext'
<1> SUFFICES ASSUME machine' = "up"
             PROVE  ({running'} \cup waiting_list') \cap no_context' = {}
  BY DEF HasContext
<1> USE DEF P!Stop, P!Segv, P!Dispatch, P!lists
<1>1. /\ no_context \subseteq PCBs /\ NULL \notin PCBs
      /\ machine = "up" => ({running} \cup waiting_list) \cap no_context = {}
  BY KernelAssumption DEF KInv, HasContext, PP!IInv, PP!TypeOK
<1>2. CASE UNCHANGED <<machine, running, waiting_list, no_context>>
  BY <1>1, <1>2
<1>3. CASE /\ machine = "up" /\ UNCHANGED no_context
           /\ waiting_list' \subseteq waiting_list \cup {running}
           /\ running' \notin no_context
  BY <1>1, <1>3
<1>4. CASE P!internal_spawn
  BY <1>1, <1>4 DEF P!internal_spawn, P!NewChild
<1>5. CASE P!internal_fork
  BY <1>2, <1>5 DEF P!internal_fork, P!NewChild
<1>6. CASE P!internal_exit
  BY <1>3, <1>6
     DEF P!internal_exit, P!UserMode, P!ExitHangs, P!ExitCrashes, P!ExitWakesParent,
         P!ExitToZombie
<1>7. ASSUME NEW pid, P!internal_wait(pid)
      PROVE  ({running'} \cup waiting_list') \cap no_context' = {}
  BY <1>2, <1>3, <1>7
     DEF P!internal_wait, P!UserMode, P!WaitNoChildren, P!WaitReaps, P!WaitBlocks,
         P!WaitCrashes
<1>8. ASSUME NEW ticks, P!internal_sleep(ticks)
      PROVE  ({running'} \cup waiting_list') \cap no_context' = {}
  BY <1>1, <1>2, <1>3, <1>8 DEF P!internal_sleep, P!UserMode
<1>9. ASSUME NEW STATE list, machine = "up", P!internal_schedule(list)
      PROVE  ({running'} \cup waiting_list') \cap no_context' = {}
  BY <1>1, <1>3, <1>9 DEF P!internal_schedule
<1>10. CASE P!internal_preempt \/ P!timerInterrupt
  BY <1>9, <1>10 DEF P!internal_preempt, P!timerInterrupt, P!UserMode
<1>11. CASE P!disastrOS_start_again
  BY <1>1, <1>11 DEF P!disastrOS_start_again
<1>12. CASE P!internal_shutdown \/ P!resource_call \/ UNCHANGED P!vars
  BY <1>2, <1>12 DEF P!internal_shutdown, P!resource_call, P!vars
<1> QED BY StepOfProcesses, <1>4, <1>5, <1>6, <1>7, <1>8, <1>10, <1>11, <1>12 DEF P!Next
-----------------------------------------------------------------------------
\* Calls on processes, seen by Resources.tla.

\* If the listed children are the live processes with a parent, `listed' of
\* Resources is their set.
LEMMA ListedIn ==
    ASSUME NEW kids, NEW live, NEW par,
           \A r \in PCBs : \A b \in ToSet(kids[r]) : b \in live /\ par[b] # NULL,
           \A b \in live : par[b] # NULL => \E r \in PCBs : b \in ToSet(kids[r])
    PROVE  UNION {ToSet(kids[r]) : r \in PCBs} = {b \in live : par[b] # NULL}
OBVIOUS

\* The children lists hold every process that has a parent, and no other.
LEMMA ListedAreChildren ==
    /\ PP!IInv => Listed = {b \in pcbs : parent[b] # NULL}
    /\ PP!IInv' => Listed' = {b \in pcbs' : parent'[b] # NULL}
BY ListedIn DEF Listed, ToSet, PP!IInv, PP!FamilyOK, PP!Kids, PP!ToSet

\* The calls that Resources.tla sees as OtherCall.
OtherEffect ==
    /\ machine = "up" /\ machine' \in {"up", "segv", "hang", "off"}
    /\ UNCHANGED return_value \/ \E v \in Results :
          return_value' = [return_value EXCEPT ![running] = v]
    /\ UNCHANGED syscall_retvalue \/ \E v \in Results : P!Return(v)
    /\ UNCHANGED <<queueVars, pointerVars, descriptors, last_fd, pcbs, pcbptr_pool, Listed>>

\* A call on processes is one that Resources allows of the others.
LEMMA OtherCalls ==
    ASSUME running \in pcbs, OtherEffect
    PROVE  R!OtherCall
BY DEF OtherEffect, queueVars, pointerVars, R!OtherCall, R!ExitValue, R!Returns, R!Return,
       P!Return, R!mqVars, R!msgVars, R!roleVars, R!listVars, R!descVars

\* So is the stop of the machine.
LEMMA ResourcesStop ==
    ASSUME machine = "up", NEW how \in {"segv", "hang", "off"}, P!Stop(how),
           UNCHANGED <<queueVars, pointerVars, descriptors, last_fd>>,
           UNCHANGED return_value \/ \E v \in Results :
              return_value' = [return_value EXCEPT ![running] = v]
    PROVE  OtherEffect
BY DEF P!Stop, P!family, OtherEffect, Listed

\* A stop of the machine leaves running as it is, which may be NULL.
LEMMA StopIsOther ==
    ASSUME machine = "up", NEW how \in {"segv", "hang", "off"}, P!Stop(how),
           UNCHANGED resourceVars
    PROVE  R!OtherCall
BY DEF P!Stop, P!family, Listed, resourceVars, queueVars, pointerVars, R!OtherCall,
       R!Returns, R!mqVars, R!msgVars, R!roleVars, R!listVars, R!descVars

\* A newly allocated PCB is reset as Resources says.
LEMMA AllocatedBlock ==
    ASSUME NEW b, b \notin pcbs, pcbs' = pcbs \cup {b}, ResetNewPCB
    PROVE  R!PCB_reset(b) /\ UNCHANGED <<queueVars, pointerVars>>
<1>1. PICK c \in PCBs \ pcbs : pcbs' = pcbs \cup {c} /\ R!PCB_reset(c)
  BY DEF ResetNewPCB
<1>2. c = b
  BY <1>1
<1> QED BY <1>1, <1>2 DEF ResetNewPCB

\* If none is allocated, nothing of Resources is reset.
LEMMA NoBlockAllocated ==
    ASSUME UNCHANGED pcbs, ResetNewPCB
    PROVE  UNCHANGED resourceVars
BY DEF ResetNewPCB, resourceVars

\* Creating a child is PCB_alloc of Resources.
LEMMA ChildIsAllocated ==
    ASSUME KInv, PP!IInv', P!UserMode, NEW b \in PCBs, P!NewChild(b), ResetNewPCB
    PROVE  R!PCB_alloc(b)
<1>1. /\ b \notin pcbs /\ pcbs' = pcbs \cup {b} /\ UNCHANGED machine
      /\ parent' = [parent EXCEPT ![b] = running]
      /\ pcbptr_pool # 0 /\ pcbptr_pool' = pcbptr_pool - 1 /\ P!Return(b)
  BY DEF P!NewChild, P!NoRoom, P!FreeBlocks
<1>2. running \in pcbs /\ running # NULL /\ machine = "up" /\ pcbptr_pool \in Nat
      /\ parent \in [PCBs -> PCBs \cup {NULL}] /\ pcbs \subseteq PCBs
  BY UserModeFacts DEF KInv, PP!IInv, PP!TypeOK, P!UserMode
<1>3. Listed' = Listed \cup {b}
  BY <1>1, <1>2, ListedAreChildren DEF KInv
<1>4. R!Returns
  BY <1>1, <1>2, CodesAreResults DEF P!Return, R!Returns, R!Return
<1>5. R!PCB_reset(b) /\ UNCHANGED <<queueVars, pointerVars>>
  BY <1>1, AllocatedBlock
<1> QED BY <1>1, <1>2, <1>3, <1>4, <1>5
        DEF R!PCB_alloc, queueVars, pointerVars, R!msgVars, R!listVars

\* Spawn and fork are steps of Resources.
LEMMA SpawnStep ==
    ASSUME KInv, PP!IInv', disastrOS_spawn \/ disastrOS_fork
    PROVE  R!Next
<1>1. /\ P!UserMode /\ ResetNewPCB
      /\ P!Segv \/ \E b \in PCBs : P!NewChild(b)
  BY DEF disastrOS_spawn, disastrOS_fork, P!internal_spawn, P!internal_fork
<1>2. CASE P!Segv
  BY <1>1, <1>2, StopIsOther, NoBlockAllocated
     DEF P!Segv, P!Stop, P!family, P!UserMode, R!Next
<1> QED BY <1>1, <1>2, ChildIsAllocated DEF R!Next

\* The second start is a step of Resources: a PCB without PCBPtr.
LEMMA StartAgainStep ==
    ASSUME KInv, PP!IInv', disastrOS_start_again
    PROVE  R!Next
<1>1. P!disastrOS_start_again /\ ResetNewPCB /\ machine = "up"
  BY DEF disastrOS_start_again, P!disastrOS_start_again
<1>2. CASE P!Segv
  BY <1>1, <1>2, StopIsOther, NoBlockAllocated DEF P!Segv, P!Stop, P!family, R!Next
<1>3. ASSUME ~ P!Segv PROVE R!Next
  <2>1. PICK b \in PCBs : /\ b \notin pcbs /\ pcbs' = pcbs \cup {b}
                          /\ parent' = [parent EXCEPT ![b] = NULL]
                          /\ UNCHANGED <<machine, pcbptr_pool, syscall_retvalue>>
    BY <1>1, <1>3 DEF P!disastrOS_start_again, P!FreeBlocks
  <2>0. pcbs \subseteq PCBs /\ parent \in [PCBs -> PCBs \cup {NULL}]
    BY DEF KInv, PP!IInv, PP!TypeOK
  <2>2. Listed' = Listed
    BY <2>0, <2>1, ListedAreChildren DEF KInv
  <2>3. R!PCB_reset(b) /\ UNCHANGED <<queueVars, pointerVars>>
    BY <1>1, <2>1, AllocatedBlock
  <2>4. R!PCB_alloc(b)
    BY <1>1, <2>1, <2>2, <2>3
       DEF R!PCB_alloc, R!Returns, queueVars, pointerVars, R!msgVars, R!listVars
  <2> QED BY <2>4 DEF R!Next
<1> QED BY <1>2, <1>3

\* Exit is ExitReleasing, or only a change of the processes.
LEMMA ExitStep ==
    ASSUME KInv, PP!IInv', NEW value \in ExitValues, disastrOS_exit(value)
    PROVE  R!Next
<1>1. /\ P!internal_exit /\ ReleaseAtDeath(running) /\ UNCHANGED <<queueVars, last_fd>>
      /\ return_value' = [return_value EXCEPT ![running] = value]
      /\ value \in Results
  BY CodesAreResults DEF disastrOS_exit
<1>2. /\ machine = "up" /\ running \in pcbs /\ running \in PCBs /\ pcbs \subseteq PCBs
      /\ parent \in [PCBs -> PCBs \cup {NULL}]
  BY <1>1, UserModeFacts DEF P!internal_exit, KInv, PP!IInv, PP!TypeOK
<1>3. running \in pcbs' => UNCHANGED <<descriptors, pointerVars>>
  BY <1>1 DEF ReleaseAtDeath
<1>4. CASE P!ExitHangs \/ P!ExitCrashes
  <2>1. PICK how \in {"segv", "hang"} : P!Stop(how)
    BY <1>4 DEF P!ExitHangs, P!ExitCrashes, P!Segv
  <2>2. UNCHANGED <<descriptors, pointerVars>>
    BY <1>2, <1>3, <2>1 DEF P!Stop, P!family
  <2> QED BY <1>1, <1>2, <2>1, <2>2, ResourcesStop, OtherCalls DEF R!Next
<1>5. CASE P!ExitToZombie
  <2>1. /\ UNCHANGED <<pcbs, parent, pcbptr_pool, syscall_retvalue>>
        /\ machine' \in {"up", "segv"}
    BY <1>2, <1>5 DEF P!ExitToZombie, P!Dispatch
  <2>2. UNCHANGED Listed
    BY <2>1, ListedAreChildren DEF KInv
  <2>3. UNCHANGED <<descriptors, pointerVars>>
    BY <1>2, <1>3, <2>1
  <2> QED BY <1>1, <1>2, <2>1, <2>2, <2>3, OtherCalls DEF OtherEffect, R!Next
<1>6. CASE P!ExitWakesParent
  <2> DEFINE p == parent[running]
  <2>1. /\ p # NULL /\ status[p] = "Waiting"
        /\ pcbs' = pcbs \ {running} /\ parent' = [parent EXCEPT ![running] = NULL]
        /\ syscall_retvalue' = [syscall_retvalue EXCEPT ![p] = running]
        /\ machine' = IF p \in no_context THEN "segv" ELSE machine
        /\ UNCHANGED pcbptr_pool
    BY <1>6 DEF P!ExitWakesParent, P!ParentAwaits, P!Dispatch
  <2>2. p \in pcbs /\ p \in waiting_list
    BY <1>2, <2>1 DEF KInv, PP!IInv, PP!StatusOK, PP!PlacesOK
  <2>3. UNCHANGED machine
    BY <1>2, <2>1, <2>2 DEF KInv, HasContext
  <2>4. running \in Listed /\ Listed' = Listed \ {running}
    BY <1>2, <2>1, ListedAreChildren DEF KInv
  <2>5. R!ReleaseDescriptors(running, descriptors[running])
    BY <1>1, <2>1 DEF ReleaseAtDeath
  <2>6. R!Returns
    BY <1>2, <2>1, <2>2, CodesAreResults DEF R!Returns, R!Return
  <2>7. R!ExitReleasing(running)
    BY <1>1, <1>2, <2>1, <2>3, <2>4, <2>5, <2>6
       DEF R!ExitReleasing, R!Caller, R!ExitValue, queueVars, R!mqVars, R!msgVars,
           R!roleVars, R!listVars
  <2> QED BY <1>2, <2>7 DEF R!Next
<1> QED BY <1>1, <1>4, <1>5, <1>6 DEF P!internal_exit

\* Wait is ExitReaped of the zombie that it frees, or a change of the processes.
LEMMA WaitStep ==
    ASSUME KInv, PP!IInv', NEW pid, disastrOS_wait(pid)
    PROVE  R!Next
<1>1. P!internal_wait(pid) /\ UNCHANGED resourceVars
  BY DEF disastrOS_wait
<1>2. /\ P!UserMode /\ machine = "up" /\ running \in pcbs /\ running \in PCBs
      /\ pcbs \subseteq PCBs /\ parent \in [PCBs -> PCBs \cup {NULL}]
  BY <1>1, UserModeFacts DEF P!internal_wait, KInv, PP!IInv, PP!TypeOK
<1> USE DEF resourceVars
<1>3. CASE P!WaitNoChildren
  BY <1>1, <1>2, <1>3, OtherCalls, CodesAreResults
     DEF P!WaitNoChildren, P!family, OtherEffect, Listed, R!Next
<1>4. CASE P!WaitReaps(pid)
  <2> DEFINE z == P!Scanned(pid)
  <2>1. /\ children[running] # <<>>
        /\ pcbs' = pcbs \ {z} /\ parent' = [parent EXCEPT ![z] = NULL]
        /\ pcbptr_pool' = pcbptr_pool + 1 /\ P!Return(z) /\ UNCHANGED machine
    BY <1>4 DEF P!WaitReaps
  <2>2. z \in pcbs /\ parent[z] # NULL
    <3>1. PP!UserMode
      BY <1>2 DEF P!UserMode, PP!UserMode
    <3>2. PP!Scanned(pid) \in PP!Kids(running)
      BY <2>1, <3>1, PP!ScannedChild, Assumptions DEF KInv
    <3> QED BY <1>2, <3>2, SameScanned DEF KInv, PP!IInv, PP!FamilyOK
  <2> HIDE DEF z
  <2>3. z \in Listed /\ Listed' = Listed \ {z} /\ z \in PCBs
    BY <1>2, <2>1, <2>2, ListedAreChildren DEF KInv
  <2>4. R!Returns
    BY <1>2, <2>1, <2>3, CodesAreResults DEF P!Return, R!Returns, R!Return
  <2>5. R!ExitReaped(z)
    BY <1>1, <1>2, <2>1, <2>2, <2>3, <2>4
       DEF R!ExitReaped, R!Caller, queueVars, pointerVars, R!msgVars, R!listVars,
           R!descVars
  <2> QED BY <2>3, <2>5 DEF R!Next
<1>5. CASE P!WaitBlocks(pid)
  BY <1>1, <1>2, <1>5, OtherCalls
     DEF P!WaitBlocks, P!Dispatch, P!family, OtherEffect, Listed, R!Next
<1>6. CASE P!WaitCrashes(pid)
  BY <1>1, <1>2, <1>6, StopIsOther DEF P!WaitCrashes, P!Segv, R!Next
<1> QED BY <1>1, <1>3, <1>4, <1>5, <1>6 DEF P!internal_wait

\* Sleep is a change of the processes.
LEMMA SleepStep ==
    ASSUME KInv, NEW ticks, disastrOS_sleep(ticks)
    PROVE  R!Next
<1>1. P!internal_sleep(ticks) /\ UNCHANGED resourceVars
  BY DEF disastrOS_sleep
<1>2. machine = "up" /\ running \in pcbs
  BY <1>1, UserModeFacts DEF P!internal_sleep
<1>3. OtherEffect
  BY <1>1, <1>2, CodesAreResults
     DEF P!internal_sleep, P!Dispatch, P!family, P!lists, OtherEffect, Listed, resourceVars
<1> QED BY <1>2, <1>3, OtherCalls DEF R!Next

\* The scheduler changes only processes.
LEMMA ScheduleStep ==
    ASSUME KInv, P!UserMode, NEW STATE list, P!internal_schedule(list),
           UNCHANGED resourceVars
    PROVE  R!Next
<1>1. machine = "up" /\ running \in pcbs
  BY UserModeFacts
<1>2. OtherEffect
  BY <1>1 DEF P!internal_schedule, P!Dispatch, P!family, OtherEffect, Listed, resourceVars
<1> QED BY <1>1, <1>2, OtherCalls DEF R!Next

\* The calls on processes do to resources what Resources.tla says they may.
LEMMA StepOfResources ==
    ASSUME KInv, [Next]_vars
    PROVE  [R!Next]_(R!vars)
<1>0. PP!IInv'
  BY ProcessesInvKept
<1>1. ASSUME P!UserMode PROVE Caller \in PCBs
  BY <1>1, UserModeFacts DEF Caller
<1>2. CASE \E id \in ResourceIds, type \in Types, mode \in CallModes :
              disastrOS_openResource(id, type, mode)
  BY <1>1, <1>2, KernelAssumption
     DEF disastrOS_openResource, R!Next, Types, R!Types, MAX_TYPE_RESOURCES,
         R!MAX_TYPE_RESOURCES, Modes, R!Modes, DSOS_CREATE, R!DSOS_CREATE, DSOS_READ,
         R!DSOS_READ, DSOS_WRITE, R!DSOS_WRITE, DSOS_EXCL, R!DSOS_EXCL
<1>3. CASE \E fd \in R!Fds, mode \in CallModes : disastrOS_closeResource(fd, mode)
  BY <1>1, <1>3, KernelAssumption
     DEF disastrOS_closeResource, R!Next, Modes, R!Modes, DSOS_CREATE, R!DSOS_CREATE,
         DSOS_READ, R!DSOS_READ, DSOS_WRITE, R!DSOS_WRITE, DSOS_EXCL, R!DSOS_EXCL
<1>4. CASE \E id \in ResourceIds : disastrOS_destroyResource(id)
  BY <1>1, <1>4 DEF disastrOS_destroyResource, R!Next
<1>5. CASE \E fd \in R!Fds, m \in Messages : disastrOS_mq_write(fd, m)
  BY <1>1, <1>5 DEF disastrOS_mq_write, R!Next
<1>6. CASE \E fd \in R!Fds, length \in BufferSizes : disastrOS_mq_read(fd, length)
  BY <1>1, <1>6 DEF disastrOS_mq_read, R!Next
<1>7. CASE disastrOS_spawn \/ disastrOS_fork
  BY <1>0, <1>7, SpawnStep
<1>8. CASE disastrOS_start_again
  BY <1>0, <1>8, StartAgainStep
<1>9. CASE \E value \in ExitValues : disastrOS_exit(value)
  BY <1>0, <1>9, ExitStep
<1>10. CASE \E pid \in AwaitedPids \cap P!Pids : disastrOS_wait(pid)
  BY <1>0, <1>10, WaitStep
<1>11. CASE \E ticks \in SleepTimes : disastrOS_sleep(ticks)
  BY <1>11, SleepStep
<1>12. CASE disastrOS_preempt
  BY <1>12, ScheduleStep DEF disastrOS_preempt, P!internal_preempt
<1>13. CASE timerInterrupt
  <2>1. P!timerInterrupt /\ UNCHANGED resourceVars /\ machine = "up"
    BY <1>13 DEF timerInterrupt, P!timerInterrupt
  <2>2. CASE P!Segv
    BY <2>1, <2>2, StopIsOther DEF P!Segv, R!Next
  <2> QED BY <2>1, <2>2, ScheduleStep DEF P!timerInterrupt, P!UserMode
<1>14. CASE disastrOS_shutdown
  BY <1>14, StopIsOther DEF disastrOS_shutdown, P!internal_shutdown, P!UserMode, R!Next
<1>15. CASE UNCHANGED vars
  BY <1>15
     DEF vars, sharedVars, resourceVars, queueVars, pointerVars, processVars, Listed,
         R!vars, R!mqVars, R!msgVars, R!roleVars, R!listVars, R!descVars, R!pcbVars
<1> QED BY <1>2, <1>3, <1>4, <1>5, <1>6, <1>7, <1>8, <1>9, <1>10, <1>11, <1>12, <1>13,
           <1>14, <1>15 DEF Next

\* Every step of the kernel keeps the invariants of Resources.
LEMMA ResourcesInvKept ==
    ASSUME KInv, [Next]_vars
    PROVE  ResourcesInv'
<1>1. RP!DescInv /\ RP!MsgInv /\ RP!RestTypeOK /\ RP!PtrsInLockstep
  BY DEF KInv, ResourcesInv
<1>2. CASE RP!Next
  BY <1>1, <1>2, RP!DescStep, RP!QueueCases, RP!MsgStep, RP!RestStep, RP!LockstepStep,
     Assumptions DEF ResourcesInv
<1>3. CASE UNCHANGED R!vars
  <2>1. UNCHANGED RP!vars
    BY <1>3
       DEF R!vars, R!mqVars, R!msgVars, R!roleVars, R!listVars, R!descVars, R!pcbVars,
           RP!vars, RP!mqVars, RP!msgVars, RP!roleVars, RP!listVars, RP!descVars,
           RP!pcbVars
  <2>2. RP!DescInv' /\ RP!PtrsInLockstep' /\ RP!RestTypeOK' /\ RP!MsgInv'
    BY <1>1, <2>1, RP!Stuttering, Assumptions
  <2> QED BY <2>2 DEF ResourcesInv
<1> QED BY StepOfResources, SameNextR, <1>2, <1>3
-----------------------------------------------------------------------------
\* The initial state satisfies both invariants.
LEMMA KInvInit == Init => KInv
<1> SUFFICES ASSUME Init PROVE KInv
  OBVIOUS
<1>1. PP!IInv
  BY SameInitP, PP!InitIInv, Assumptions DEF Init
<1>2. HasContext
  BY KernelAssumption DEF Init, P!Init, HasContext
<1>3. ResourcesInv
  BY SameInitR, RP!DescInit, RP!MsgInit, RP!RestInit, RP!LockstepInit, Assumptions
     DEF Init, ResourcesInv
<1>4. LengthsOK
  BY DEF Init, R!Init, R!mq_init, LengthsOK
<1> QED BY <1>1, <1>2, <1>3, <1>4 DEF KInv

\* Every step keeps both.
LEMMA KInvStep == KInv /\ [Next]_vars => KInv'
BY ProcessesInvKept, ContextKept, ResourcesInvKept, StepOfProcesses DEF KInv

\* Both invariants hold in every reachable state of the kernel.
LEMMA KInvAlways == Spec => []KInv
BY KInvInit, KInvStep, PTL DEF Spec

\* A call on processes does to descriptors, queues and pools what Resources.tla
\* allows: the children lists and the queue roles are all the places a PCBPtr
\* goes to, and a process dies on the path that releases its descriptors only
\* when its parent waits (disastrOS_exit.c:48-90).
THEOREM KernelImplementsResources == Spec => ImplementsResources
<1>1. Init => R!Init
  BY DEF Init
<1>2. KInv /\ [Next]_vars => [R!Next]_(R!vars)
  BY StepOfResources
<1> QED BY <1>1, <1>2, KInvAlways, PTL DEF Spec, ImplementsResources, R!Spec

\* A call on resources does to the processes and their lists nothing but change
\* the caller's result, take a PCBPtr or end the machine.
THEOREM KernelImplementsProcesses == Spec => ImplementsProcesses
<1>1. Init => P!Init
  BY DEF Init
<1>2. KInv /\ [Next]_vars => [P!Next]_(P!vars)
  BY StepOfProcesses
<1> QED BY <1>1, <1>2, KInvAlways, PTL DEF Spec, ImplementsProcesses
-----------------------------------------------------------------------------
\* The theorems of the two modules hold of their composition.
LEMMA KernelIsResources == Spec => RP!Spec
<1>1. Init => RP!Init
  BY SameInitR DEF Init
<1>2. KInv /\ [Next]_vars => [RP!Next]_(RP!vars)
  BY StepOfResources, SameNextR
     DEF R!vars, R!mqVars, R!msgVars, R!roleVars, R!listVars, R!descVars, R!pcbVars,
         RP!vars, RP!mqVars, RP!msgVars, RP!roleVars, RP!listVars, RP!descVars, RP!pcbVars
<1> QED BY <1>1, <1>2, KInvAlways, PTL DEF Spec, RP!Spec

\* In the kernel the PCBPtrs of the children lists and those of the roles come
\* from one pool, and never exceed it.
THEOREM KernelPCBPtrs == Spec => []R!PCBPtrBudget
<1>1. RP!PCBPtrBudget => R!PCBPtrBudget
  BY DEF RP!PCBPtrBudget, R!PCBPtrBudget, RP!Roles, R!Roles, RP!Cardinality, R!Cardinality
<1> QED BY <1>1, KernelIsResources, RP!PCBPtrBudgetThm, Assumptions, PTL

\* The queues of the kernel are bounded channels for its processes.
THEOREM KernelQueues == Spec => R!FifoSpec
<1>1. RP!Channels = R!Channels
  BY DEF RP!Channels, R!Channels, RP!QueuesOf, R!QueuesOf, RP!Contents, R!Contents,
         RP!Named, R!Named
<1>2. RP!Channels' = R!Channels'
  BY DEF RP!Channels, R!Channels, RP!QueuesOf, R!QueuesOf, RP!Contents, R!Contents,
         RP!Named, R!Named
<1>3. RP!Fifo!Init => R!Fifo!Init
  BY <1>1 DEF RP!Fifo!Init, R!Fifo!Init
<1>4. [RP!Fifo!Next]_(RP!Channels) => [R!Fifo!Next]_(R!Channels)
  BY <1>1, <1>2
     DEF RP!Fifo!Next, R!Fifo!Next, RP!Fifo!Open, R!Fifo!Open, RP!Fifo!Close,
         R!Fifo!Close, RP!Fifo!Send, R!Fifo!Send, RP!Fifo!Receive, R!Fifo!Receive
<1>5. RP!FifoSpec => R!FifoSpec
  BY <1>3, <1>4, PTL DEF RP!FifoSpec, R!FifoSpec, RP!Fifo!Spec, R!Fifo!Spec
<1> QED BY <1>5, KernelIsResources, RP!QueuesImplementChannels, Assumptions, PTL

\* Whatever calls are mixed with exits, waits and ticks, an open descriptor
\* leads to a resource that is not freed, no message block is in two places, the
\* processes are a forest of allocated PCBs, each in one place, and no wait
\* sleeps through the exit of its child.
THEOREM KernelSafe ==
    Spec => [](/\ R!DescriptorsPinned /\ R!MessageBlocksOwned
               /\ P!EachInOnePlace /\ P!EachChildListedOnce /\ P!NoMissedExit)
<1>1. ResourcesInv => R!DescriptorsPinned /\ R!MessageBlocksOwned
  BY DEF ResourcesInv, RP!DescInv, RP!MsgInv, RP!DescriptorsPinned, R!DescriptorsPinned,
         RP!FreeDescriptors, R!FreeDescriptors, RP!Blocks, R!Blocks,
         RP!MessageBlocksOwned, R!MessageBlocksOwned, RP!LiveQueues, R!LiveQueues
<1>2. PP!EachInOnePlace => P!EachInOnePlace
  BY DEF PP!EachInOnePlace, P!EachInOnePlace, PP!ToSet, P!ToSet, PP!Cardinality,
         P!Cardinality
<1>3. PP!EachChildListedOnce => P!EachChildListedOnce
  BY DEF PP!EachChildListedOnce, P!EachChildListedOnce, PP!Cardinality, P!Cardinality
<1>4. PP!NoMissedExit => P!NoMissedExit
  BY DEF PP!NoMissedExit, P!NoMissedExit, PP!ToSet, P!ToSet
<1>5. PP!IInv => P!EachInOnePlace /\ P!EachChildListedOnce /\ P!NoMissedExit
  BY <1>2, <1>3, <1>4, PP!Placed, PP!ListedOnce, Assumptions DEF PP!IInv
<1> QED BY <1>1, <1>5, KInvAlways, PTL DEF KInv

\* A process that runs, waits or sleeps has a context to go on in: only the
\* first run of a child of fork can find none (disastrOS_fork.c).
THEOREM KernelContexts == Spec => []HasContext
<1>1. KInv => HasContext
  BY DEF KInv
<1> QED BY <1>1, KInvAlways, PTL
=============================================================================
