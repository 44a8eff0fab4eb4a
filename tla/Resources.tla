------------------------------ MODULE Resources ------------------------------
(* The resource system calls of DisastrOS: open, close, destroy, and the     *)
(* message queue write and read, with the descriptors that tie processes to  *)
(* resources and what the creation and the death of a process do to them.    *)
(*                                                                           *)
(* A system call runs to its end with the timer masked, so each handler is   *)
(* one step; which process calls is left open here (it is the scheduler's    *)
(* choice, modelled in Processes.tla; Kernel.tla composes the two).  Every   *)
(* early return of a handler is an action of its own.  A handler that        *)
(* dereferences NULL ends the machine.                                       *)
EXTENDS MessageQueues

CONSTANTS
    InitPCB,      \* the first block of the PCB pool: the init process
    StdBlocks,    \* blocks of _standard_resources_allocator
    Descriptors,  \* blocks of _descriptor_allocator
    ResourceIds,  \* ids that programs use
    BufferSizes,  \* lengths that readers pass
    OtherResults, \* what the calls on processes return, and exit values
    MaxFd         \* bound: descriptors opened by one process in its life

Blocks == MqBlocks \cup StdBlocks

ASSUME ResourceAssumption ==
    /\ InitPCB \in PCBs
    /\ MqBlocks \cap StdBlocks = {}
    /\ NULL \notin Blocks \cup ResourceIds
    /\ IsFiniteSet(Descriptors)
    /\ BufferSizes \subseteq Int
    /\ MaxFd \in Nat

VARIABLES
    machine,          \* "up", "segv" after a NULL dereference, "hang" or "off"
    pcbs,             \* allocated PCBs
    listed,           \* those in the children list of some process
    resources_list,   \* the resources in the system list
    resource_id,      \* r->id (NULL in a free block)
    descriptors_ptrs, \* r->descriptors_ptrs: the descriptors it points to
    desc,             \* each descriptor block; resource = NULL when free
    descriptors,      \* pcb->descriptors
    descptr_pool,     \* number of free blocks of the DescriptorPtr pool
    last_fd,          \* pcb->last_fd
    syscall_retvalue, \* pcb->syscall_retvalue
    return_value      \* pcb->return_value

descVars == <<descriptors_ptrs, desc, descriptors, descptr_pool, last_fd>>
listVars == <<resources_list, resource_id>>
pcbVars  == <<pcbs, listed, return_value>>
vars == <<mqVars, machine, listVars, descVars, pcbVars, syscall_retvalue>>

\* alloc_func and dealloc_func tie a type to the pool its blocks come from.
resource_type(r) == IF r \in MqBlocks THEN MESSAGE_QUEUE_TYPE
                                      ELSE STANDARD_RESOURCE_TYPE

\* Fault: the search passes over resources that nobody has opened.
Named_Opened(id) ==
    {r \in resources_list : resource_id[r] = id /\ descriptors_ptrs[r] # {}}

\* ResourceList_byId and DescriptorList_byFd: at most one element each.
Named(id)   == {r \in resources_list : resource_id[r] = id}
Held(p, fd) == {d \in descriptors[p] : desc[d].fd = fd}

FreeResources(type) == {r \in Blocks \ resources_list : resource_type(r) = type}
FreeDescriptors     == {d \in Descriptors : desc[d].resource = NULL}
FreeDescriptor      == [pcb |-> NULL, resource |-> NULL, fd |-> 0]

Init ==
    /\ mq_init
    /\ machine = "up"
    /\ pcbs = {InitPCB}
    /\ listed = {}
    /\ resources_list = {}
    /\ resource_id = [r \in Blocks |-> NULL]
    /\ descriptors_ptrs = [r \in Blocks |-> {}]
    /\ desc = [d \in Descriptors |-> FreeDescriptor]
    /\ descriptors = [p \in PCBs |-> {}]
    /\ descptr_pool = Cardinality(Descriptors)
    /\ last_fd = [p \in PCBs |-> 0]
    /\ syscall_retvalue = [p \in PCBs |-> 0]
    /\ return_value = [p \in PCBs |-> 0]
-----------------------------------------------------------------------------
\* What a caller finds in its syscall_retvalue.
Return(p, v) == syscall_retvalue' = [syscall_retvalue EXCEPT ![p] = v]

\* An early return: nothing but the return value changes.
Refuse(p, v) ==
    /\ Return(p, v)
    /\ UNCHANGED <<mqVars, machine, listVars, descVars, pcbVars>>

\* A NULL dereference: the program is gone, whatever it had half done.
Segv ==
    /\ machine' = "segv"
    /\ UNCHANGED <<mqVars, listVars, descVars, pcbVars, syscall_retvalue>>

\* The caller of a system call.
Caller(p) == machine = "up" /\ p \in pcbs

\* The end of an open: a descriptor in the process, a pointer to it in the
\* resource, whose other pointers are users.
AttachDescriptor(p, r, users) ==
    \/ /\ FreeDescriptors = {}
       /\ descriptors_ptrs' = [descriptors_ptrs EXCEPT ![r] = users]
       /\ Return(p, DSOS_ERESOURCENOFD)
       /\ UNCHANGED <<machine, desc, descriptors, descptr_pool, last_fd>>
    \/ /\ last_fd[p] < MaxFd
       /\ \E d \in FreeDescriptors :
            /\ desc' = [desc EXCEPT ![d] =
                          [pcb |-> p, resource |-> r, fd |-> last_fd[p]]]
            /\ descriptors' = [descriptors EXCEPT ![p] = @ \cup {d}]
            /\ descriptors_ptrs' = [descriptors_ptrs EXCEPT ![r] = users \cup {d}]
       /\ last_fd' = [last_fd EXCEPT ![p] = @ + 1]
       /\ descptr_pool' = descptr_pool - 1
       \* DescriptorPtr_alloc is not checked
       /\ machine' = IF descptr_pool = 0 THEN "segv" ELSE machine
       /\ Return(p, last_fd[p])

CreateExisting(p, id) ==
    /\ Named(id) # {}
    /\ Refuse(p, DSOS_ERESOURCECREATE)

\* Resource_alloc gives NULL: the pool is exhausted or the type has none.
CreateCrashes(id, type) ==
    /\ Named(id) = {}
    /\ FreeResources(type) = {}
    /\ Segv

\* The resource stays in the list even when no descriptor can be had.
CreateResource(p, id, type) ==
    /\ Named(id) = {}
    /\ \E r \in FreeResources(type) :
         /\ resources_list' = resources_list \cup {r}
         /\ resource_id' = [resource_id EXCEPT ![r] = id]
         /\ IF r \in MqBlocks THEN mq_alloc(r) ELSE UNCHANGED mqVars
         /\ AttachDescriptor(p, r, {})
    /\ UNCHANGED pcbVars

OpenMissing(p, id, type) ==
    /\ \A r \in Named(id) : resource_type(r) # type
    /\ Refuse(p, DSOS_ERESOURCEOPEN)

OpenNotExclusive(p, id, type) ==
    /\ \E r \in Named(id) : resource_type(r) = type /\ descriptors_ptrs[r] # {}
    /\ Refuse(p, DSOS_ERESOURCENOEXCL)

\* The resource a non-creating open gets as far as.
Openable(id, type, mode) ==
    {r \in Named(id) : /\ resource_type(r) = type
                       /\ mode = DSOS_EXCL => descriptors_ptrs[r] = {}}

OpenRoleTaken(p, id, type, mode) ==
    /\ \E q \in Openable(id, type, mode) \cap MqBlocks : ~ mq_mode_free(q, mode)
    /\ Refuse(p, DSOS_ERESOURCEOPEN)

OpenCrashes(id, type, mode) ==
    /\ \E q \in Openable(id, type, mode) \cap MqBlocks : mq_mode_free(q, mode)
    /\ mq_set_mode_crashes(mode)
    /\ Segv

\* The role is set before the descriptor is: without one the caller gets an
\* error and keeps the role.
OpenResource(p, id, type, mode) ==
    /\ \E r \in Openable(id, type, mode) :
         /\ IF r \in MqBlocks
              THEN /\ mq_mode_free(r, mode)
                   /\ ~ mq_set_mode_crashes(mode)
                   /\ mq_set_mode(r, mode, p)
              ELSE UNCHANGED mqVars
         /\ AttachDescriptor(p, r, descriptors_ptrs[r])
    /\ UNCHANGED <<listVars, pcbVars>>

internal_openResource(p, id, type, mode) ==
    /\ Caller(p)
    /\ \/ /\ mode = DSOS_CREATE
          /\ \/ CreateExisting(p, id)
             \/ CreateCrashes(id, type)
             \/ CreateResource(p, id, type)
       \/ /\ mode # DSOS_CREATE
          /\ \/ OpenMissing(p, id, type)
             \/ mode = DSOS_EXCL /\ OpenNotExclusive(p, id, type)
             \/ OpenRoleTaken(p, id, type, mode)
             \/ OpenCrashes(id, type, mode)
             \/ OpenResource(p, id, type, mode)
-----------------------------------------------------------------------------
\* Fault: the pointer blocks are not freed.
ReleaseDescriptors_KeepPtrs(p, ds) ==
    /\ descriptors' = [descriptors EXCEPT ![p] = @ \ ds]
    /\ descriptors_ptrs' = [r \in Blocks |-> descriptors_ptrs[r] \ ds]
    /\ desc' = [d \in Descriptors |-> IF d \in ds THEN FreeDescriptor ELSE desc[d]]
    /\ UNCHANGED descptr_pool

\* Descriptors ds leave process p, their resources and their pools.
ReleaseDescriptors(p, ds) ==
    /\ descriptors' = [descriptors EXCEPT ![p] = @ \ ds]
    /\ descriptors_ptrs' = [r \in Blocks |-> descriptors_ptrs[r] \ ds]
    /\ desc' = [d \in Descriptors |-> IF d \in ds THEN FreeDescriptor ELSE desc[d]]
    /\ descptr_pool' = descptr_pool + Cardinality(ds)

CloseUnknown(p, fd) ==
    /\ Held(p, fd) = {}
    /\ Refuse(p, DSOS_ERESOURCECLOSE)

CloseResource(p, fd, mode) ==
    /\ \E d \in Held(p, fd) :
         /\ ReleaseDescriptors(p, {d})
         /\ IF desc[d].resource \in MqBlocks
              THEN mq_delete_mode(desc[d].resource, mode)
              ELSE UNCHANGED mqVars
    /\ Return(p, 0)
    /\ UNCHANGED <<machine, listVars, last_fd, pcbVars>>

internal_closeResource(p, fd, mode) ==
    /\ Caller(p)
    /\ CloseUnknown(p, fd) \/ CloseResource(p, fd, mode)

DestroyMissing(p, id) ==
    /\ Named(id) = {}
    /\ Refuse(p, DSOS_ERESOURCECLOSE)

\* Fault: the descriptors of the resource are not looked at.
InUse_Never(r) == FALSE

InUse(r) == descriptors_ptrs[r] # {}

DestroyInUse(p, id) ==
    /\ \E r \in Named(id) : InUse(r)
    /\ Refuse(p, DSOS_ERESOURCEINUSE)

DestroyResource(p, id) ==
    /\ \E r \in Named(id) :
         /\ ~ InUse(r)
         /\ resources_list' = resources_list \ {r}
         /\ resource_id' = [resource_id EXCEPT ![r] = NULL]
         /\ IF r \in MqBlocks THEN mq_free(r) ELSE UNCHANGED mqVars
    /\ Return(p, 0)
    /\ UNCHANGED <<machine, descVars, pcbVars>>

internal_destroyResource(p, id) ==
    /\ Caller(p)
    /\ DestroyMissing(p, id) \/ DestroyInUse(p, id) \/ DestroyResource(p, id)
-----------------------------------------------------------------------------
ValidLength(m) == m.length \in 0 .. MESSAGE_STRING_MAX_LENGTH

\* The queue behind a descriptor, when it is one.
HeldQueue(p, fd) == {desc[d].resource : d \in Held(p, fd)} \cap MqBlocks

\* The checks write and read share.
BadDescriptor(p, fd) ==
    \/ Held(p, fd) = {} /\ Refuse(p, DSOS_RESOURCENOTFOUND)
    \/ /\ Held(p, fd) # {} /\ HeldQueue(p, fd) = {}
       /\ Refuse(p, DSOS_ERESOURCETYPEWRONG)

WriteInvalid(p, m) ==
    /\ ~ ValidLength(m)
    /\ Refuse(p, DSOS_MESSAGELENGTHNOTVALID)

\* The error goes to return_value: the caller sees an older syscall_retvalue.
WriteFull(p, fd) ==
    /\ \E q \in HeldQueue(p, fd) : Len(msgs[q]) = M_FOR_MQ
    /\ return_value' = [return_value EXCEPT ![p] = DSOS_MESSAGEQUEUEFULL]
    /\ UNCHANGED <<mqVars, machine, listVars, descVars, pcbs, listed, syscall_retvalue>>

WriteCrashes(p, fd) ==
    /\ \E q \in HeldQueue(p, fd) : Len(msgs[q]) # M_FOR_MQ
    /\ m_pool = {}
    /\ Segv

WriteMessage(p, fd, m) ==
    /\ \E q \in HeldQueue(p, fd), b \in m_pool :
         /\ Len(msgs[q]) # M_FOR_MQ
         /\ AppendMessage(q, b, m)
    /\ Return(p, m.length)
    /\ UNCHANGED <<machine, listVars, descVars, pcbVars>>

internal_message_queue_write(p, fd, m) ==
    /\ Caller(p)
    /\ \/ WriteInvalid(p, m)
       \/ /\ ValidLength(m)
          /\ \/ BadDescriptor(p, fd)
             \/ WriteFull(p, fd)
             \/ WriteCrashes(p, fd)
             \/ WriteMessage(p, fd, m)

ReadEmpty(p, fd) ==
    \E q \in HeldQueue(p, fd) :
       /\ msgs[q] = <<>>
       /\ Refuse(p, IF writing_pid[q] # NULL THEN DSOS_WAITINGFORMESSAGE
                                             ELSE DSOS_MESSAGEQUEUEEMPTY)

\* The message stays at the head of the queue.
ReadTooLong(p, fd, length) ==
    /\ \E q \in HeldQueue(p, fd) :
         msgs[q] # <<>> /\ message[Head(msgs[q])].length > length
    /\ Refuse(p, DSOS_MESSAGELENGTHNOTVALID)

ReadMessage(p, fd, length) ==
    /\ \E q \in HeldQueue(p, fd) :
         /\ msgs[q] # <<>>
         /\ message[Head(msgs[q])].length <= length
         /\ DetachFirst(q)
         /\ Return(p, message[Head(msgs[q])].length)
    /\ UNCHANGED <<machine, listVars, descVars, pcbVars>>

internal_message_queue_read(p, fd, length) ==
    /\ Caller(p)
    /\ \/ BadDescriptor(p, fd)
       \/ ReadEmpty(p, fd)
       \/ ReadTooLong(p, fd, length)
       \/ ReadMessage(p, fd, length)
-----------------------------------------------------------------------------
\* A call on processes returns to its caller or, when it ends a wait, to
\* another process.
Returns == \/ UNCHANGED syscall_retvalue
           \/ \E q \in pcbs, v \in OtherResults : Return(q, v)

ExitValue(p) == \E v \in OtherResults : return_value' = [return_value EXCEPT ![p] = v]

\* Fault: the block keeps the descriptors of its previous life.
PCB_reset_KeepDescriptors(p) ==
    /\ last_fd' = [last_fd EXCEPT ![p] = 0]
    /\ return_value' = [return_value EXCEPT ![p] = 0]
    /\ UNCHANGED descriptors

\* PCB_alloc forgets the descriptors and fds of the block's previous life.
PCB_reset(p) ==
    /\ descriptors' = [descriptors EXCEPT ![p] = {}]
    /\ last_fd' = [last_fd EXCEPT ![p] = 0]
    /\ return_value' = [return_value EXCEPT ![p] = 0]

\* A new process: a child, which takes a PCBPtr, or another init.
PCB_alloc(p) ==
    /\ machine = "up"
    /\ p \in PCBs \ pcbs
    /\ pcbs' = pcbs \cup {p}
    /\ \/ /\ pcbptr_pool > 0
          /\ pcbptr_pool' = pcbptr_pool - 1
          /\ listed' = listed \cup {p}
       \/ UNCHANGED <<pcbptr_pool, listed>>
    /\ PCB_reset(p)
    /\ Returns
    /\ UNCHANGED <<msgVars, reading_pid, writing_pid, machine, listVars,
                   descriptors_ptrs, desc, descptr_pool>>

\* exit under a waiting parent: descriptors are released (the queue roles are
\* not), the PCB is freed, the PCBPtr of the children list is not.
ExitReleasing(p) ==
    /\ Caller(p) /\ p \in listed
    /\ ReleaseDescriptors(p, descriptors[p])
    /\ pcbs' = pcbs \ {p}
    /\ listed' = listed \ {p}
    /\ ExitValue(p)
    /\ Returns
    /\ UNCHANGED <<mqVars, machine, listVars, last_fd>>

\* The wait that reaps a process whose parent did not wait when it exited: PCB
\* and PCBPtr are freed, descriptors and roles stay behind.
ExitReaped(p) ==
    /\ Caller(p) /\ p \in listed
    /\ pcbs' = pcbs \ {p}
    /\ listed' = listed \ {p}
    /\ pcbptr_pool' = pcbptr_pool + 1
    /\ Returns
    /\ UNCHANGED <<msgVars, reading_pid, writing_pid, machine, listVars, descVars,
                   return_value>>

\* The calls on processes that neither create nor free a PCB, the tick, and
\* the other ways to stop the machine.
OtherCall ==
    /\ machine = "up"
    /\ machine' \in {"up", "segv", "hang", "off"}
    /\ UNCHANGED return_value \/ \E p \in pcbs : ExitValue(p)
    /\ Returns
    /\ UNCHANGED <<mqVars, listVars, descVars, pcbs, listed>>

Fds == 0 .. MaxFd

Next ==
    \/ OtherCall
    \/ \E p \in PCBs :
       \/ \E id \in ResourceIds, type \in Types, mode \in Modes :
             internal_openResource(p, id, type, mode)
       \/ \E fd \in Fds, mode \in Modes : internal_closeResource(p, fd, mode)
       \/ \E id \in ResourceIds : internal_destroyResource(p, id)
       \/ \E fd \in Fds, m \in Messages : internal_message_queue_write(p, fd, m)
       \/ \E fd \in Fds, length \in BufferSizes :
             internal_message_queue_read(p, fd, length)
       \/ PCB_alloc(p)
       \/ ExitReleasing(p)
       \/ ExitReaped(p)

Spec == Init /\ [][Next]_vars
-----------------------------------------------------------------------------
\* Every variable holds what its C declaration allows.
TypeOK ==
    /\ msgs \in [MqBlocks -> Seq(MsgBlocks)]
    /\ message \in [MsgBlocks -> Messages \cup {NULL}]
    /\ m_pool \subseteq MsgBlocks
    /\ stale_links \subseteq MsgBlocks
    /\ reading_pid \in [MqBlocks -> PCBs \cup {NULL}]
    /\ writing_pid \in [MqBlocks -> PCBs \cup {NULL}]
    /\ pcbptr_pool \in Int
    /\ machine \in {"up", "segv", "hang", "off"}
    /\ pcbs \subseteq PCBs
    /\ listed \subseteq PCBs
    /\ resources_list \subseteq Blocks
    /\ resource_id \in [Blocks -> ResourceIds \cup {NULL}]
    /\ descriptors_ptrs \in [Blocks -> SUBSET Descriptors]
    /\ desc \in [Descriptors -> [pcb : PCBs \cup {NULL},
                                 resource : Blocks \cup {NULL}, fd : Nat]]
    /\ descriptors \in [PCBs -> SUBSET Descriptors]
    /\ descptr_pool \in Int
    /\ last_fd \in [PCBs -> Nat]
    /\ syscall_retvalue \in [PCBs -> Int \cup OtherResults]
    /\ return_value \in [PCBs -> Int \cup OtherResults]

\* No two resources of the system list share an id, so ResourceList_byId and
\* the order of the list cannot matter.
IdsUnique ==
    \A r, s \in resources_list : resource_id[r] = resource_id[s] => r = s

\* The two sides of an open agree: a descriptor in use points to a resource of
\* the system list that points back to it, nothing else is pointed to, and a
\* process lists only descriptors that name it.  destroy (lines 20-23) is what
\* must not break it: it may free only a resource no descriptor points to.
DescriptorsPinned ==
    /\ \A d \in Descriptors \ FreeDescriptors :
          /\ desc[d].resource \in resources_list
          /\ d \in descriptors_ptrs[desc[d].resource]
    /\ \A r \in Blocks : \A d \in descriptors_ptrs[r] : desc[d].resource = r
    /\ \A p \in PCBs : \A d \in descriptors[p] :
          d \notin FreeDescriptors /\ desc[d].pcb = p

\* A file descriptor names one open resource of a process: DescriptorList_byFd
\* cannot meet two, and the next fd is new even after closes and after the PCB
\* had an earlier life.
FdsUnique ==
    \A p \in PCBs : \A d \in descriptors[p] :
        /\ desc[d].fd < last_fd[p]
        /\ \A e \in descriptors[p] : desc[e].fd = desc[d].fd => e = d

\* The descriptor and the descriptor pointer pools empty together, so the
\* unchecked DescriptorPtr_alloc of open (line 59) never gives NULL.
PtrsInLockstep == descptr_pool = Cardinality(FreeDescriptors)

\* Queue roles a process holds, each through a PCBPtr of its own.
Roles == {<<q, "read">> : q \in {x \in MqBlocks : reading_pid[x] # NULL}} \cup
         {<<q, "write">> : q \in {x \in MqBlocks : writing_pid[x] # NULL}}

\* No PCBPtr is in two places: those in the pool, one for each process in its
\* parent's children list and one for each role never exceed the pool's blocks
\* (fewer once a close or an exit has forgotten some).
PCBPtrBudget ==
    /\ pcbptr_pool >= 0
    /\ pcbptr_pool + Cardinality(listed) + Cardinality(Roles) <= NumPCBPtrs

LiveQueues == resources_list \cap MqBlocks
Queued     == UNION {Range(msgs[q]) : q \in LiveQueues}

\* A message block is in the pool or in at most one queue, once, and a queued
\* block holds a message: reuse of a block never changes a stored message.
MessageBlocksOwned ==
    \A q \in LiveQueues : \A i \in 1 .. Len(msgs[q]) :
        /\ msgs[q][i] \notin m_pool
        /\ message[msgs[q][i]] # NULL
        /\ \A s \in LiveQueues : \A j \in 1 .. Len(msgs[s]) :
              msgs[s][j] = msgs[q][i] => s = q /\ j = i

\* A block that a destroyed queue left linked to another never enters a queue,
\* where its links would tie the list to blocks outside it.
StaleNeverQueued == stale_links \cap Queued = {}

\* Every block out of the pool is queued, but for those with stale links: no
\* other path of write, read or destroy loses a message or its block.
OnlyStaleLost == MsgBlocks \subseteq m_pool \cup Queued \cup stale_links

\* The queues seen through their ids implement FifoQueues.
QueuesOf(id) == Named(id) \cap MqBlocks
Contents(q)  == [i \in 1 .. Len(msgs[q]) |-> message[msgs[q][i]]]
Channels == [id \in ResourceIds |->
                IF QueuesOf(id) = {} THEN NULL
                ELSE Contents(CHOOSE q \in QueuesOf(id) : TRUE)]

Fifo == INSTANCE FifoQueues
            WITH Ids <- ResourceIds, Msgs <- Messages, Capacity <- M_FOR_MQ,
                 Closed <- NULL, chan <- Channels

\* Whatever opens, closes, exits and destroys happen around it, each queue
\* delivers what it stored in order, once, and never above its capacity.
FifoSpec == Fifo!Spec
-----------------------------------------------------------------------------
\* What the repository says and the code does not do.

\* disastrOS_test_mq.c:108 waits when a write returns DSOS_MESSAGEQUEUEFULL.
FullQueueReported ==
    [][\A p \in PCBs, fd \in Fds :
         Caller(p) /\ WriteFull(p, fd)
            => syscall_retvalue'[p] = DSOS_MESSAGEQUEUEFULL]_vars

\* README.md:33: messages are saved in a list, so a block taken from the pool
\* for an accepted message is in a queue until it is read or destroyed.
AcceptedMessageStored == MsgBlocks \subseteq m_pool \cup Queued

\* disastrOS_exit.c:74: all resources of a process are released upon its
\* termination, so a descriptor in use belongs to a process.
ReleasedOnTermination ==
    \A d \in Descriptors \ FreeDescriptors : desc[d].pcb \in pcbs
=============================================================================
