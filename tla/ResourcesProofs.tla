--------------------------- MODULE ResourcesProofs ---------------------------
(* Theorems about Resources.tla, for every value of its constants: first its *)
(* invariants, then that its queues, seen through their ids, implement the   *)
(* bounded channels of FifoQueues.tla.                                       *)
EXTENDS Resources, FiniteSetTheorems, SequenceTheorems, TLAPS

\* A step of an early return, a crash or a write to a full queue: it changes
\* no list, no pool and no descriptor.
Quiet ==
    /\ UNCHANGED <<mqVars, listVars, descVars, pcbs, listed>>
    /\ machine' \in {machine, "up", "segv", "hang", "off"}
    /\ \/ UNCHANGED syscall_retvalue
       \/ \E p, v : v \in Int \cup OtherResults /\ Return(p, v)
    /\ \/ UNCHANGED return_value
       \/ \E p, v : /\ v \in Int \cup OtherResults
                    /\ return_value' = [return_value EXCEPT ![p] = v]

\* The successful path of each handler, and what creating and ending a process do.
Effective ==
    \E p \in PCBs :
       \/ \E id \in ResourceIds, type \in Types : CreateResource(p, id, type)
       \/ \E id \in ResourceIds, type \in Types, mode \in Modes :
             OpenResource(p, id, type, mode)
       \/ \E fd \in Fds, mode \in Modes : CloseResource(p, fd, mode)
       \/ \E id \in ResourceIds : DestroyResource(p, id)
       \/ \E fd \in Fds, m \in Messages : ValidLength(m) /\ WriteMessage(p, fd, m)
       \/ \E fd \in Fds, length \in BufferSizes : ReadMessage(p, fd, length)
       \/ PCB_alloc(p)
       \/ ExitReleasing(p)
       \/ ExitReaped(p)

\* An early return with an error changes nothing but the result.
LEMMA RefuseIsQuiet ==
    ASSUME NEW p \in PCBs, NEW v \in Int, Refuse(p, v)
    PROVE  Quiet
BY DEF Refuse, Quiet, pcbVars

\* Neither does a crash.
LEMMA SegvIsQuiet == Segv => Quiet
BY DEF Segv, Quiet, pcbVars

\* The error codes are integers.
LEMMA CodesAreInts ==
    /\ DSOS_ERESOURCECREATE \in Int /\ DSOS_ERESOURCEOPEN \in Int
    /\ DSOS_ERESOURCENOEXCL \in Int /\ DSOS_ERESOURCENOFD \in Int
    /\ DSOS_ERESOURCECLOSE \in Int /\ DSOS_ERESOURCEINUSE \in Int
    /\ DSOS_ERESOURCETYPEWRONG \in Int /\ DSOS_MESSAGELENGTHNOTVALID \in Int
    /\ DSOS_MESSAGEQUEUEFULL \in Int /\ DSOS_MESSAGEQUEUEEMPTY \in Int
    /\ DSOS_RESOURCENOTFOUND \in Int /\ DSOS_WAITINGFORMESSAGE \in Int
BY DEF DSOS_ERESOURCECREATE, DSOS_ERESOURCEOPEN, DSOS_ERESOURCENOEXCL,
       DSOS_ERESOURCENOFD, DSOS_ERESOURCECLOSE, DSOS_ERESOURCEINUSE,
       DSOS_ERESOURCETYPEWRONG, DSOS_MESSAGELENGTHNOTVALID,
       DSOS_MESSAGEQUEUEFULL, DSOS_MESSAGEQUEUEEMPTY, DSOS_RESOURCENOTFOUND,
       DSOS_WAITINGFORMESSAGE

\* Every step is quiet or the successful path of an operation.
LEMMA StepCases == Next => Quiet \/ Effective
<1> SUFFICES ASSUME Next PROVE Quiet \/ Effective
  OBVIOUS
<1> USE CodesAreInts, RefuseIsQuiet, SegvIsQuiet
<1>0. CASE OtherCall
  BY <1>0 DEF OtherCall, Returns, ExitValue, Quiet
<1> SUFFICES ASSUME ~ OtherCall PROVE Quiet \/ Effective
  BY <1>0
<1> PICK p \in PCBs :
       \/ \E id \in ResourceIds, type \in Types, mode \in Modes :
             internal_openResource(p, id, type, mode)
       \/ \E fd \in Fds, mode \in Modes : internal_closeResource(p, fd, mode)
       \/ \E id \in ResourceIds : internal_destroyResource(p, id)
       \/ \E fd \in Fds, m \in Messages : internal_message_queue_write(p, fd, m)
       \/ \E fd \in Fds, length \in BufferSizes :
             internal_message_queue_read(p, fd, length)
       \/ PCB_alloc(p)
       \/ ExitReleasing(p)
       \/ ExitReaped(p)
  BY DEF Next
<1>bad. ASSUME NEW fd, BadDescriptor(p, fd) PROVE Quiet
  BY <1>bad DEF BadDescriptor
<1>1. ASSUME NEW id \in ResourceIds, NEW type \in Types, NEW mode \in Modes,
             internal_openResource(p, id, type, mode)
      PROVE  Quiet \/ Effective
  BY <1>1 DEF internal_openResource, CreateExisting, CreateCrashes, OpenMissing,
              OpenNotExclusive, OpenRoleTaken, OpenCrashes, Effective
<1>2. ASSUME NEW fd \in Fds, NEW mode \in Modes, internal_closeResource(p, fd, mode)
      PROVE  Quiet \/ Effective
  BY <1>2 DEF internal_closeResource, CloseUnknown, Effective
<1>3. ASSUME NEW id \in ResourceIds, internal_destroyResource(p, id)
      PROVE  Quiet \/ Effective
  BY <1>3 DEF internal_destroyResource, DestroyMissing, DestroyInUse, Effective
<1>4. ASSUME NEW fd \in Fds, NEW m \in Messages, internal_message_queue_write(p, fd, m)
      PROVE  Quiet \/ Effective
  <2>1. CASE WriteFull(p, fd)
    BY <2>1 DEF WriteFull, Quiet
  <2>2. CASE ~ WriteFull(p, fd)
    BY <1>4, <2>2, <1>bad DEF internal_message_queue_write, WriteInvalid,
                              WriteCrashes, Effective
  <2> QED BY <2>1, <2>2
<1>5. ASSUME NEW fd \in Fds, NEW length \in BufferSizes,
             internal_message_queue_read(p, fd, length)
      PROVE  Quiet \/ Effective
  BY <1>5, <1>bad DEF internal_message_queue_read, ReadEmpty, ReadTooLong, Effective
<1>6. CASE PCB_alloc(p) \/ ExitReleasing(p) \/ ExitReaped(p)
  BY <1>6 DEF Effective
<1> QED BY <1>1, <1>2, <1>3, <1>4, <1>5, <1>6
-----------------------------------------------------------------------------
\* The part of TypeOK about the resource list and the descriptors, and the
\* invariant of that part.
DescTypeOK ==
    /\ resources_list \subseteq Blocks
    /\ resource_id \in [Blocks -> ResourceIds \cup {NULL}]
    /\ descriptors_ptrs \in [Blocks -> SUBSET Descriptors]
    /\ desc \in [Descriptors -> [pcb : PCBs \cup {NULL},
                                 resource : Blocks \cup {NULL}, fd : Nat]]
    /\ descriptors \in [PCBs -> SUBSET Descriptors]
    /\ last_fd \in [PCBs -> Nat]

DescInv == DescTypeOK /\ IdsUnique /\ DescriptorsPinned /\ FdsUnique

\* Attaching a descriptor to a listed resource keeps the descriptor lists
\* consistent, provided users are all the descriptors the resource has.
LEMMA AttachKeepsDescriptors ==
    ASSUME DescTypeOK, DescriptorsPinned, FdsUnique,
           NEW p \in PCBs, NEW r \in Blocks, NEW users \in SUBSET Descriptors,
           AttachDescriptor(p, r, users),
           resources_list \subseteq resources_list', r \in resources_list',
           users \subseteq descriptors_ptrs[r],
           \A d \in Descriptors : desc[d].resource = r => d \in users
    PROVE  /\ descriptors_ptrs' \in [Blocks -> SUBSET Descriptors]
           /\ desc' \in [Descriptors -> [pcb : PCBs \cup {NULL},
                                         resource : Blocks \cup {NULL}, fd : Nat]]
           /\ descriptors' \in [PCBs -> SUBSET Descriptors]
           /\ last_fd' \in [PCBs -> Nat]
           /\ DescriptorsPinned'
           /\ FdsUnique'
<1> USE ResourceAssumption, QueueAssumption
<1>1. CASE /\ FreeDescriptors = {}
           /\ descriptors_ptrs' = [descriptors_ptrs EXCEPT ![r] = users]
           /\ UNCHANGED <<machine, desc, descriptors, descptr_pool, last_fd>>
  <2>1. FdsUnique'
    BY <1>1 DEF FdsUnique
  <2>2. DescriptorsPinned'
    BY <1>1 DEF DescriptorsPinned, FreeDescriptors, DescTypeOK
  <2> QED BY <1>1, <2>1, <2>2 DEF DescTypeOK
<1>2. ASSUME NEW d \in FreeDescriptors,
             desc' = [desc EXCEPT ![d] = [pcb |-> p, resource |-> r, fd |-> last_fd[p]]],
             descriptors' = [descriptors EXCEPT ![p] = @ \cup {d}],
             descriptors_ptrs' = [descriptors_ptrs EXCEPT ![r] = users \cup {d}],
             last_fd' = [last_fd EXCEPT ![p] = @ + 1]
      PROVE  /\ descriptors_ptrs' \in [Blocks -> SUBSET Descriptors]
             /\ desc' \in [Descriptors -> [pcb : PCBs \cup {NULL},
                                           resource : Blocks \cup {NULL}, fd : Nat]]
             /\ descriptors' \in [PCBs -> SUBSET Descriptors]
             /\ last_fd' \in [PCBs -> Nat]
             /\ DescriptorsPinned'
             /\ FdsUnique'
  <2>1. d \in Descriptors /\ desc[d].resource = NULL
    BY DEF FreeDescriptors
  <2>2. /\ descriptors_ptrs' \in [Blocks -> SUBSET Descriptors]
        /\ desc' \in [Descriptors -> [pcb : PCBs \cup {NULL},
                                      resource : Blocks \cup {NULL}, fd : Nat]]
        /\ descriptors' \in [PCBs -> SUBSET Descriptors]
        /\ last_fd' \in [PCBs -> Nat]
    BY <1>2, <2>1 DEF DescTypeOK
  \* No list holds a free descriptor.
  <2>3. /\ \A q \in PCBs : d \notin descriptors[q]
        /\ \A s \in Blocks : d \notin descriptors_ptrs[s]
    BY <2>1 DEF DescriptorsPinned, FreeDescriptors
  <2>4. DescriptorsPinned'
    <3>1. ASSUME NEW e \in Descriptors, desc'[e].resource # NULL
          PROVE  /\ desc'[e].resource \in resources_list'
                 /\ e \in descriptors_ptrs'[desc'[e].resource]
      <4>1. CASE e = d
        BY <4>1, <1>2, <2>1 DEF DescTypeOK
      <4>2. CASE e # d
        BY <4>2, <3>1, <1>2, <2>1 DEF DescTypeOK, DescriptorsPinned, FreeDescriptors
      <4> QED BY <4>1, <4>2
    <3>2. ASSUME NEW s \in Blocks, NEW e \in descriptors_ptrs'[s]
          PROVE  desc'[e].resource = s
      BY <3>2, <1>2, <2>1, <2>2, <2>3 DEF DescTypeOK, DescriptorsPinned
    <3>3. ASSUME NEW q \in PCBs, NEW e \in descriptors'[q]
          PROVE  desc'[e].resource # NULL /\ desc'[e].pcb = q
      BY <3>3, <1>2, <2>1, <2>2, <2>3 DEF DescTypeOK, DescriptorsPinned, FreeDescriptors
    <3> QED BY <3>1, <3>2, <3>3, <2>2 DEF DescriptorsPinned, FreeDescriptors
  <2>5. FdsUnique'
    BY <1>2, <2>1, <2>2, <2>3 DEF FdsUnique, DescTypeOK
  <2> QED BY <2>2, <2>4, <2>5
<1> QED BY <1>1, <1>2 DEF AttachDescriptor

\* Releasing descriptors of one process keeps the lists consistent.
LEMMA ReleaseKeepsDescriptors ==
    ASSUME DescTypeOK, DescriptorsPinned, FdsUnique,
           NEW p \in PCBs, NEW ds \in SUBSET descriptors[p],
           ReleaseDescriptors(p, ds),
           UNCHANGED <<listVars, last_fd>>
    PROVE  DescTypeOK' /\ DescriptorsPinned' /\ FdsUnique'
<1> USE ResourceAssumption DEF listVars
<1>1. ds \subseteq Descriptors
  BY DEF DescTypeOK
<1>2. DescTypeOK'
  BY <1>1, QueueAssumption DEF DescTypeOK, ReleaseDescriptors, FreeDescriptor
<1>3. \A e \in Descriptors : e \notin ds => desc'[e] = desc[e]
  BY DEF ReleaseDescriptors
<1>4. \A e \in ds : desc'[e].resource = NULL
  BY <1>1 DEF ReleaseDescriptors, FreeDescriptor
\* Nobody else lists what p releases.
<1>5. \A q \in PCBs : descriptors'[q] = descriptors[q] \ ds
  <2> SUFFICES ASSUME NEW q \in PCBs PROVE descriptors'[q] = descriptors[q] \ ds
    OBVIOUS
  <2>1. CASE q = p
    BY <2>1 DEF ReleaseDescriptors, DescTypeOK
  <2>2. CASE q # p
    <3>1. descriptors[q] \cap ds = {}
      BY <2>2 DEF DescriptorsPinned
    <3> QED BY <2>2, <3>1 DEF ReleaseDescriptors, DescTypeOK
  <2> QED BY <2>1, <2>2
<1>6. \A r \in Blocks : descriptors_ptrs'[r] = descriptors_ptrs[r] \ ds
  BY DEF ReleaseDescriptors
<1>7. DescriptorsPinned'
  <2>1. ASSUME NEW e \in Descriptors, desc'[e].resource # NULL
        PROVE  /\ desc'[e].resource \in resources_list'
               /\ e \in descriptors_ptrs'[desc'[e].resource]
    <3>1. e \notin ds /\ desc'[e] = desc[e]
      BY <2>1, <1>3, <1>4
    <3>2. desc[e].resource \in resources_list /\ e \in descriptors_ptrs[desc[e].resource]
      BY <2>1, <3>1 DEF DescriptorsPinned, FreeDescriptors
    <3> QED BY <3>1, <3>2, <1>6 DEF DescTypeOK
  <2>2. ASSUME NEW r \in Blocks, NEW e \in descriptors_ptrs'[r]
        PROVE  desc'[e].resource = r
    BY <2>2, <1>3, <1>6 DEF DescTypeOK, DescriptorsPinned
  <2>3. ASSUME NEW q \in PCBs, NEW e \in descriptors'[q]
        PROVE  desc'[e].resource # NULL /\ desc'[e].pcb = q
    BY <2>3, <1>3, <1>5 DEF DescTypeOK, DescriptorsPinned, FreeDescriptors
  <2> QED BY <2>1, <2>2, <2>3, <1>2 DEF DescriptorsPinned, FreeDescriptors, DescTypeOK
<1>8. FdsUnique'
  BY <1>3, <1>5 DEF FdsUnique, DescTypeOK
<1> QED BY <1>2, <1>7, <1>8

\* Initially nothing is open.
LEMMA DescInit == Init => DescInv
BY ResourceAssumption, QueueAssumption
   DEF Init, DescInv, DescTypeOK, IdsUnique, DescriptorsPinned, FdsUnique,
       FreeDescriptors, FreeDescriptor

\* What the invariant of the descriptors depends on.
LEMMA DescFrame ==
    DescInv /\ UNCHANGED <<listVars, descriptors_ptrs, desc, descriptors, last_fd>>
        => DescInv'
BY DEF DescInv, DescTypeOK, IdsUnique, DescriptorsPinned, FdsUnique, FreeDescriptors,
       listVars

\* Every step keeps the descriptors and resources consistent.
LEMMA DescStep == DescInv /\ Next => DescInv'
<1> SUFFICES ASSUME DescInv, Next PROVE DescInv'
  OBVIOUS
<1> USE ResourceAssumption
<1>1. CASE Quiet
  BY <1>1, DescFrame DEF Quiet, descVars
<1>2. ASSUME NEW p \in PCBs, NEW id \in ResourceIds, NEW type \in Types,
             CreateResource(p, id, type)
      PROVE  DescInv'
  <2>1. PICK r \in FreeResources(type) :
           /\ resources_list' = resources_list \cup {r}
           /\ resource_id' = [resource_id EXCEPT ![r] = id]
           /\ AttachDescriptor(p, r, {})
    BY <1>2 DEF CreateResource
  <2>2. r \in Blocks /\ r \notin resources_list
    BY DEF FreeResources
  \* Descriptors point to listed resources only, so none points to r yet.
  <2>3. \A d \in Descriptors : desc[d].resource # r
    BY <2>2, QueueAssumption DEF DescInv, DescriptorsPinned, FreeDescriptors
  <2>4. DescTypeOK' /\ DescriptorsPinned' /\ FdsUnique'
    BY <2>1, <2>2, <2>3, AttachKeepsDescriptors DEF DescInv, DescTypeOK
  <2>5. IdsUnique'
    BY <1>2, <2>1, <2>2 DEF DescInv, DescTypeOK, IdsUnique, CreateResource, Named
  <2> QED BY <2>4, <2>5 DEF DescInv
<1>3. ASSUME NEW p \in PCBs, NEW id \in ResourceIds, NEW type \in Types,
             NEW mode \in Modes, OpenResource(p, id, type, mode)
      PROVE  DescInv'
  <2>1. PICK r \in Openable(id, type, mode) : AttachDescriptor(p, r, descriptors_ptrs[r])
    BY <1>3 DEF OpenResource
  <2>2. r \in Blocks /\ r \in resources_list
    BY DEF Openable, Named, DescInv, DescTypeOK
  <2>3. UNCHANGED listVars
    BY <1>3 DEF OpenResource
  <2>4. \A d \in Descriptors : desc[d].resource = r => d \in descriptors_ptrs[r]
    BY <2>2, QueueAssumption DEF DescInv, DescriptorsPinned, FreeDescriptors
  <2>5. descriptors_ptrs[r] \in SUBSET Descriptors
    BY <2>2 DEF DescInv, DescTypeOK
  <2>6. DescTypeOK' /\ DescriptorsPinned' /\ FdsUnique'
    BY <2>1, <2>2, <2>3, <2>4, <2>5, AttachKeepsDescriptors
       DEF DescInv, DescTypeOK, listVars
  <2>7. IdsUnique'
    BY <2>3 DEF DescInv, IdsUnique, listVars
  <2> QED BY <2>6, <2>7 DEF DescInv
<1>4. ASSUME NEW p \in PCBs, NEW fd \in Fds, NEW mode \in Modes,
             CloseResource(p, fd, mode)
      PROVE  DescInv'
  <2>1. PICK d \in Held(p, fd) : ReleaseDescriptors(p, {d})
    BY <1>4 DEF CloseResource
  <2>2. {d} \in SUBSET descriptors[p] /\ UNCHANGED <<listVars, last_fd>>
    BY <1>4 DEF Held, CloseResource
  <2> QED BY <2>1, <2>2, ReleaseKeepsDescriptors DEF DescInv, IdsUnique, listVars
<1>5. ASSUME NEW p \in PCBs, NEW id \in ResourceIds, DestroyResource(p, id)
      PROVE  DescInv'
  <2>1. PICK r \in Named(id) : /\ descriptors_ptrs[r] = {}
                               /\ resources_list' = resources_list \ {r}
                               /\ resource_id' = [resource_id EXCEPT ![r] = NULL]
    BY <1>5 DEF DestroyResource, InUse
  <2>2. r \in Blocks
    BY DEF Named, DescInv, DescTypeOK
  <2>3. UNCHANGED <<descriptors_ptrs, desc, descriptors, last_fd>>
    BY <1>5 DEF DestroyResource, descVars
  <2>4. DescTypeOK' /\ IdsUnique' /\ FdsUnique'
    BY <2>1, <2>2, <2>3 DEF DescInv, DescTypeOK, IdsUnique, FdsUnique
  <2>5. DescriptorsPinned'
    BY <2>1, <2>2, <2>3 DEF DescInv, DescriptorsPinned, FreeDescriptors
  <2> QED BY <2>4, <2>5 DEF DescInv
<1>6. ASSUME NEW p \in PCBs, PCB_alloc(p)
      PROVE  DescInv'
  <2>1. /\ descriptors' = [descriptors EXCEPT ![p] = {}]
        /\ last_fd' = [last_fd EXCEPT ![p] = 0]
        /\ UNCHANGED <<listVars, descriptors_ptrs, desc>>
    BY <1>6 DEF PCB_alloc, PCB_reset
  <2>2. DescTypeOK' /\ IdsUnique'
    BY <2>1 DEF DescInv, DescTypeOK, IdsUnique, listVars
  <2>3. DescriptorsPinned' /\ FdsUnique'
    BY <2>1 DEF DescInv, DescTypeOK, DescriptorsPinned, FdsUnique, FreeDescriptors,
                listVars
  <2> QED BY <2>2, <2>3 DEF DescInv
<1>7. ASSUME NEW p \in PCBs, ExitReleasing(p)
      PROVE  DescInv'
  BY <1>7, ReleaseKeepsDescriptors DEF DescInv, ExitReleasing, IdsUnique, listVars
<1>8. ASSUME NEW p \in PCBs,
             \/ \E fd \in Fds, m \in Messages : WriteMessage(p, fd, m)
             \/ \E fd \in Fds, length \in BufferSizes : ReadMessage(p, fd, length)
             \/ ExitReaped(p)
      PROVE  DescInv'
  BY <1>8, DescFrame DEF WriteMessage, ReadMessage, ExitReaped, descVars
<1> QED BY <1>1, <1>2, <1>3, <1>4, <1>5, <1>6, <1>7, <1>8, StepCases DEF Effective

\* They are consistent in every reachable state.
LEMMA DescInvariance == Spec => []DescInv
<1>1. DescInv /\ UNCHANGED vars => DescInv'
  BY DescFrame DEF vars, descVars
<1> QED BY DescInit, DescStep, <1>1, PTL DEF Spec

\* destroy never frees a resource that a descriptor points to, and a process
\* and a resource never disagree about an open descriptor.
THEOREM DescriptorsPinnedThm == Spec => []DescriptorsPinned
<1>1. DescInv => DescriptorsPinned
  BY DEF DescInv
<1> QED BY <1>1, DescInvariance, PTL

\* A file descriptor names at most one open resource of its process
\* (disastrOS_descriptor.c, DescriptorList_byFd).
THEOREM FdsUniqueThm == Spec => []FdsUnique
<1>1. DescInv => FdsUnique
  BY DEF DescInv
<1> QED BY <1>1, DescInvariance, PTL

\* An id names at most one resource of the system list: create looks before it
\* adds one, and a destroyed resource takes its id along.
THEOREM IdsUniqueThm == Spec => []IdsUnique
<1>1. DescInv => IdsUnique
  BY DEF DescInv
<1> QED BY <1>1, DescInvariance, PTL
-----------------------------------------------------------------------------
\* What a step may do to the queues' messages.
QueueUnchanged == UNCHANGED <<msgVars, LiveQueues>>

QueueCreated(q) ==
    /\ q \in MqBlocks \ LiveQueues
    /\ LiveQueues' = LiveQueues \cup {q}
    /\ mq_alloc(q)

QueueDestroyed(q) ==
    /\ q \in LiveQueues
    /\ LiveQueues' = LiveQueues \ {q}
    /\ mq_free(q)

MessageWritten(q, b, m) ==
    /\ q \in LiveQueues
    /\ Len(msgs[q]) # M_FOR_MQ
    /\ AppendMessage(q, b, m)
    /\ UNCHANGED LiveQueues

MessageRead(q) ==
    /\ q \in LiveQueues
    /\ msgs[q] # <<>>
    /\ DetachFirst(q)
    /\ UNCHANGED LiveQueues

QueueStep ==
    \/ QueueUnchanged
    \/ \E q \in MqBlocks : QueueCreated(q)
    \/ \E q \in MqBlocks : QueueDestroyed(q)
    \/ \E q \in MqBlocks, b \in m_pool, m \in Messages : MessageWritten(q, b, m)
    \/ \E q \in MqBlocks : MessageRead(q)

\* A descriptor leads to a queue of the system list, so writes and reads reach
\* live queues only.
LEMMA HeldQueuesLive ==
    ASSUME DescInv, NEW p \in PCBs, NEW fd
    PROVE  HeldQueue(p, fd) \subseteq LiveQueues
<1> SUFFICES ASSUME NEW d \in Held(p, fd), desc[d].resource \in MqBlocks
             PROVE  desc[d].resource \in resources_list
  BY DEF HeldQueue, LiveQueues
<1>1. d \in Descriptors \ FreeDescriptors
  BY DEF Held, DescInv, DescTypeOK, DescriptorsPinned
<1> QED BY <1>1 DEF DescInv, DescriptorsPinned

\* What a step can do to queues and messages.
LEMMA QueueCases == DescInv /\ Next => QueueStep
<1> SUFFICES ASSUME DescInv, Next PROVE QueueStep
  OBVIOUS
<1>1. CASE Quiet
  BY <1>1 DEF Quiet, QueueStep, QueueUnchanged, mqVars, listVars, LiveQueues
<1>2. ASSUME NEW p \in PCBs, NEW id \in ResourceIds, NEW type \in Types,
             CreateResource(p, id, type)
      PROVE  QueueStep
  <2>1. PICK r \in FreeResources(type) :
           /\ resources_list' = resources_list \cup {r}
           /\ IF r \in MqBlocks THEN mq_alloc(r) ELSE UNCHANGED mqVars
    BY <1>2 DEF CreateResource
  <2>2. CASE r \in MqBlocks
    BY <2>1, <2>2 DEF FreeResources, LiveQueues, QueueCreated, QueueStep
  <2>3. CASE r \notin MqBlocks
    BY <2>1, <2>3 DEF LiveQueues, QueueUnchanged, QueueStep, mqVars
  <2> QED BY <2>2, <2>3
<1>3. ASSUME NEW p \in PCBs, NEW id \in ResourceIds, NEW type \in Types,
             NEW mode \in Modes, OpenResource(p, id, type, mode)
      PROVE  QueueStep
  <2>1. UNCHANGED msgVars
    BY <1>3 DEF OpenResource, mq_set_mode, RolePtrs, mqVars
  <2>2. UNCHANGED LiveQueues
    BY <1>3 DEF OpenResource, listVars, LiveQueues
  <2> QED BY <2>1, <2>2 DEF QueueUnchanged, QueueStep
<1>4. ASSUME NEW p \in PCBs, NEW fd \in Fds, NEW mode \in Modes,
             CloseResource(p, fd, mode)
      PROVE  QueueStep
  <2>1. UNCHANGED msgVars
    BY <1>4 DEF CloseResource, mq_delete_mode, mqVars
  <2>2. UNCHANGED LiveQueues
    BY <1>4 DEF CloseResource, listVars, LiveQueues
  <2> QED BY <2>1, <2>2 DEF QueueUnchanged, QueueStep
<1>5. ASSUME NEW p \in PCBs, NEW id \in ResourceIds, DestroyResource(p, id)
      PROVE  QueueStep
  <2>1. PICK r \in Named(id) :
           /\ resources_list' = resources_list \ {r}
           /\ IF r \in MqBlocks THEN mq_free(r) ELSE UNCHANGED mqVars
    BY <1>5 DEF DestroyResource, InUse
  <2>2. CASE r \in MqBlocks
    BY <2>1, <2>2 DEF Named, LiveQueues, QueueDestroyed, QueueStep
  <2>3. CASE r \notin MqBlocks
    BY <2>1, <2>3 DEF LiveQueues, QueueUnchanged, QueueStep, mqVars
  <2> QED BY <2>2, <2>3
<1>6. ASSUME NEW p \in PCBs, NEW fd \in Fds, NEW m \in Messages,
             WriteMessage(p, fd, m)
      PROVE  QueueStep
  BY <1>6, HeldQueuesLive
     DEF WriteMessage, MessageWritten, QueueStep, LiveQueues, listVars
<1>7. ASSUME NEW p \in PCBs, NEW fd \in Fds, NEW length \in BufferSizes,
             ReadMessage(p, fd, length)
      PROVE  QueueStep
  BY <1>7, HeldQueuesLive
     DEF ReadMessage, MessageRead, QueueStep, LiveQueues, listVars
<1>8. ASSUME NEW p \in PCBs, PCB_alloc(p) \/ ExitReleasing(p) \/ ExitReaped(p)
      PROVE  QueueStep
  BY <1>8 DEF PCB_alloc, ExitReleasing, ExitReaped, QueueUnchanged, QueueStep,
              LiveQueues, listVars, mqVars
<1> QED BY <1>1, <1>2, <1>3, <1>4, <1>5, <1>6, <1>7, <1>8, StepCases DEF Effective
-----------------------------------------------------------------------------
MsgTypeOK ==
    /\ msgs \in [MqBlocks -> Seq(MsgBlocks)]
    /\ message \in [MsgBlocks -> Messages \cup {NULL}]
    /\ m_pool \subseteq MsgBlocks
    /\ stale_links \subseteq MsgBlocks

\* write compares the size with M_FOR_MQ for equality only.
QueuesBounded == \A q \in LiveQueues : Len(msgs[q]) <= M_FOR_MQ

MsgInv ==
    /\ MsgTypeOK
    /\ MessageBlocksOwned
    /\ StaleNeverQueued
    /\ OnlyStaleLost
    /\ QueuesBounded

\* Initially every block is free.
LEMMA MsgInit == Init => MsgInv
<1> SUFFICES ASSUME Init PROVE MsgInv
  OBVIOUS
<1>1. LiveQueues = {} /\ Queued = {}
  BY DEF Init, LiveQueues, Queued
<1>2. MsgTypeOK
  BY DEF Init, mq_init, MsgTypeOK
<1> QED BY <1>1, <1>2 DEF Init, mq_init, MsgInv, MessageBlocksOwned, StaleNeverQueued,
                          OnlyStaleLost, QueuesBounded

\* A queue that is created is empty, and so keeps the message invariant,
LEMMA CreatedKeepsMessages ==
    ASSUME MsgInv, NEW q \in MqBlocks, QueueCreated(q) PROVE MsgInv'
<1> USE DEF QueueCreated, mq_alloc, MsgInv
<1>1. MsgTypeOK'
  BY DEF MsgTypeOK
<1>2. /\ msgs'[q] = <<>>
      /\ \A s \in LiveQueues : msgs'[s] = msgs[s] /\ s \in MqBlocks /\ s # q
  BY DEF MsgTypeOK, LiveQueues
<1>3. Queued' = Queued
  <2>1. Range(<<>>) = {}
    BY DEF Range
  <2>2. Queued' = UNION {Range(msgs'[s]) : s \in LiveQueues \cup {q}}
    BY DEF Queued
  <2> QED BY <1>2, <2>1, <2>2 DEF Queued
<1>4. MessageBlocksOwned' /\ QueuesBounded'
  BY <1>2, QueueAssumption DEF MessageBlocksOwned, QueuesBounded
<1> QED BY <1>1, <1>3, <1>4 DEF StaleNeverQueued, OnlyStaleLost

\* The elements of a sequence, by position.
LEMMA RangeIndexed ==
    ASSUME NEW S, NEW s \in Seq(S)
    PROVE  /\ Len(s) \in Nat
           /\ \A i \in 1 .. Len(s) : s[i] \in S
           /\ \A b : b \in Range(s) <=> \E i \in 1 .. Len(s) : b = s[i]
<1>1. Len(s) \in Nat /\ DOMAIN s = 1 .. Len(s)
  OBVIOUS
<1>2. \A b : b \in Range(s) <=> \E i \in 1 .. Len(s) : b = s[i]
  BY <1>1 DEF Range
<1> QED BY <1>1, <1>2

\* The messages of a live queue are a sequence of blocks.
LEMMA QueuesAreSeqs ==
    ASSUME MsgTypeOK
    PROVE  \A q \in LiveQueues : q \in MqBlocks /\ msgs[q] \in Seq(MsgBlocks)
BY DEF MsgTypeOK, LiveQueues

\* A destroyed queue gives all its blocks back and keeps the message invariant,
LEMMA DestroyedKeepsMessages ==
    ASSUME MsgInv, NEW q \in MqBlocks, QueueDestroyed(q) PROVE MsgInv'
<1> USE QueueAssumption
<1> DEFINE freed == Range(msgs[q])
<1>0. MsgTypeOK /\ MessageBlocksOwned /\ StaleNeverQueued /\ OnlyStaleLost /\ QueuesBounded
  BY DEF MsgInv
<1>1. /\ LiveQueues' = LiveQueues \ {q} /\ q \in LiveQueues
      /\ msgs' = msgs
      /\ m_pool' = m_pool \cup freed
      /\ message' = [b \in MsgBlocks |-> IF b \in freed THEN NULL ELSE message[b]]
      /\ stale_links' \subseteq stale_links \cup freed
      /\ stale_links \subseteq stale_links'
  BY DEF QueueDestroyed, mq_free
<1>2. \A s \in LiveQueues : s \in MqBlocks /\ msgs[s] \in Seq(MsgBlocks)
  BY <1>0, QueuesAreSeqs
<1>3. \A b : b \in freed <=> \E i \in 1 .. Len(msgs[q]) : b = msgs[q][i]
  BY <1>1, <1>2, RangeIndexed
<1>4. freed \subseteq MsgBlocks
  BY <1>1, <1>2, <1>3, RangeIndexed
<1> HIDE DEF freed
<1>5. MsgTypeOK'
  BY <1>0, <1>1, <1>4 DEF MsgTypeOK
\* No other queue has a block of the freed one.
<1>6. \A s \in LiveQueues \ {q} : \A j \in 1 .. Len(msgs[s]) : msgs[s][j] \notin freed
  BY <1>0, <1>1, <1>3 DEF MessageBlocksOwned
<1>7. MessageBlocksOwned'
  <2>1. ASSUME NEW s \in LiveQueues \ {q}, NEW j \in 1 .. Len(msgs[s])
        PROVE  msgs[s][j] \notin m_pool' /\ message'[msgs[s][j]] # NULL
    <3>1. msgs[s][j] \in MsgBlocks
      BY <1>2, RangeIndexed
    <3> QED BY <1>0, <1>1, <1>6, <3>1 DEF MessageBlocksOwned
  <2> QED BY <1>0, <1>1, <2>1 DEF MessageBlocksOwned
<1>8. \A b : b \in Queued' => b \in Queued /\ b \notin freed
  <2> SUFFICES ASSUME NEW s \in LiveQueues \ {q}, NEW b \in Range(msgs[s])
               PROVE  b \in Queued /\ b \notin freed
    BY <1>1 DEF Queued
  <2>1. PICK j \in 1 .. Len(msgs[s]) : b = msgs[s][j]
    BY <1>2, RangeIndexed
  <2> QED BY <1>6, <2>1 DEF Queued
<1>9. Queued \subseteq Queued' \cup freed
  BY <1>1 DEF Queued, freed
<1>10. StaleNeverQueued' /\ OnlyStaleLost'
  BY <1>0, <1>1, <1>8, <1>9 DEF StaleNeverQueued, OnlyStaleLost
<1>11. QueuesBounded'
  BY <1>0, <1>1 DEF QueuesBounded
<1> QED BY <1>5, <1>7, <1>10, <1>11 DEF MsgInv

\* a write of a free block, stored or refused, keeps it,
LEMMA WrittenKeepsMessages ==
    ASSUME MsgInv, NEW q \in MqBlocks, NEW b \in m_pool, NEW m \in Messages,
           MessageWritten(q, b, m)
    PROVE  MsgInv'
<1> USE QueueAssumption
<1>0. MsgTypeOK /\ MessageBlocksOwned /\ StaleNeverQueued /\ OnlyStaleLost /\ QueuesBounded
  BY DEF MsgInv
<1>1. /\ LiveQueues' = LiveQueues /\ q \in LiveQueues
      /\ m_pool' = m_pool \ {b} /\ b \in MsgBlocks
      /\ message' = [message EXCEPT ![b] = m]
      /\ msgs' = IF b \in stale_links THEN msgs
                 ELSE [msgs EXCEPT ![q] = Append(msgs[q], b)]
      /\ stale_links' = stale_links
  BY <1>0 DEF MessageWritten, AppendMessage, m_alloc, Inserted, MsgTypeOK
<1>2. \A s \in LiveQueues : /\ s \in MqBlocks /\ msgs[s] \in Seq(MsgBlocks)
                            /\ Len(msgs[s]) \in Nat
  BY <1>0, QueuesAreSeqs, RangeIndexed
<1>3. MsgTypeOK'
  BY <1>0, <1>1, <1>2 DEF MsgTypeOK
<1>4. \A s \in LiveQueues : \A i \in 1 .. Len(msgs[s]) :
         msgs[s][i] # b /\ msgs[s][i] \in MsgBlocks
  BY <1>0, <1>2, RangeIndexed DEF MessageBlocksOwned
<1>5. CASE b \in stale_links
  <2>1. MessageBlocksOwned'
    BY <1>0, <1>1, <1>4, <1>5 DEF MessageBlocksOwned, MsgTypeOK
  <2>2. Queued' = Queued
    BY <1>1, <1>5 DEF Queued
  <2> QED BY <1>0, <1>1, <1>3, <1>5, <2>1, <2>2
          DEF MsgInv, StaleNeverQueued, OnlyStaleLost, QueuesBounded
<1>6. CASE b \notin stale_links
  <2>1. /\ \A s \in LiveQueues : s # q => msgs'[s] = msgs[s]
        /\ Len(msgs'[q]) = Len(msgs[q]) + 1
        /\ \A i \in 1 .. Len(msgs[q]) : msgs'[q][i] = msgs[q][i]
        /\ msgs'[q][Len(msgs[q]) + 1] = b
    BY <1>0, <1>1, <1>2, <1>6 DEF MsgTypeOK
  <2>2. ASSUME NEW s \in LiveQueues, NEW i \in 1 .. Len(msgs'[s])
        PROVE  \/ s = q /\ i = Len(msgs[q]) + 1 /\ msgs'[s][i] = b
               \/ i \in 1 .. Len(msgs[s]) /\ msgs'[s][i] = msgs[s][i]
    BY <1>1, <1>2, <2>1
  <2>3. MessageBlocksOwned'
    <3> SUFFICES ASSUME NEW s \in LiveQueues, NEW i \in 1 .. Len(msgs'[s])
                 PROVE  /\ msgs'[s][i] \notin m_pool'
                        /\ message'[msgs'[s][i]] # NULL
                        /\ \A t \in LiveQueues : \A j \in 1 .. Len(msgs'[t]) :
                              msgs'[t][j] = msgs'[s][i] => t = s /\ j = i
      BY <1>1 DEF MessageBlocksOwned
    <3>1. msgs'[s][i] \notin m_pool' /\ message'[msgs'[s][i]] # NULL
      BY <1>0, <1>1, <1>4, <2>2 DEF MessageBlocksOwned, MsgTypeOK
    <3>2. ASSUME NEW t \in LiveQueues, NEW j \in 1 .. Len(msgs'[t]),
                 msgs'[t][j] = msgs'[s][i]
          PROVE  t = s /\ j = i
      <4>1. \/ s = q /\ i = Len(msgs[q]) + 1 /\ msgs'[s][i] = b
            \/ i \in 1 .. Len(msgs[s]) /\ msgs'[s][i] = msgs[s][i]
        BY <2>2
      <4>2. \/ t = q /\ j = Len(msgs[q]) + 1 /\ msgs'[t][j] = b
            \/ j \in 1 .. Len(msgs[t]) /\ msgs'[t][j] = msgs[t][j]
        BY <2>2
      <4>3. CASE msgs'[s][i] = b
        BY <1>4, <3>2, <4>1, <4>2, <4>3
      <4>4. CASE msgs'[s][i] # b
        BY <1>0, <3>2, <4>1, <4>2, <4>4 DEF MessageBlocksOwned
      <4> QED BY <4>3, <4>4
    <3> QED BY <3>1, <3>2
  <2>4. \A s \in LiveQueues : msgs'[s] \in Seq(MsgBlocks)
    BY <1>1, <1>3, <1>2 DEF MsgTypeOK
  <2>5. Queued' = Queued \cup {b}
    <3>1. Range(msgs'[q]) = Range(msgs[q]) \cup {b}
      <4> DEFINE t == msgs'[q]
      <4>0. t \in Seq(MsgBlocks)
        BY <1>1, <2>4
      <4>1. \A x : x \in Range(t) <=> \E i \in 1 .. Len(t) : x = t[i]
        <5> HIDE DEF t
        <5> QED BY <4>0, RangeIndexed
      <4>2. \A x : x \in Range(msgs[q]) <=>
                     \E i \in 1 .. Len(msgs[q]) : x = msgs[q][i]
        BY <1>1, <1>2, RangeIndexed
      <4>3. ASSUME NEW x PROVE x \in Range(msgs'[q]) <=> x \in Range(msgs[q]) \cup {b}
        BY <4>1, <4>2, <1>1, <1>2, <2>1
      <4> QED BY <4>3 DEF t
    <3> QED BY <1>1, <2>1, <3>1 DEF Queued
  <2>6. StaleNeverQueued' /\ OnlyStaleLost'
    BY <1>0, <1>1, <1>6, <2>5 DEF StaleNeverQueued, OnlyStaleLost
  <2>7. QueuesBounded'
    <3>1. Len(msgs[q]) # M_FOR_MQ
      BY DEF MessageWritten
    <3> QED BY <1>0, <1>1, <1>2, <2>1, <3>1 DEF QueuesBounded
  <2> QED BY <1>3, <2>3, <2>6, <2>7 DEF MsgInv
<1> QED BY <1>5, <1>6

\* and so does a read of the first block.
LEMMA ReadKeepsMessages ==
    ASSUME MsgInv, NEW q \in MqBlocks, MessageRead(q)
    PROVE  MsgInv'
<1> USE QueueAssumption
<1> DEFINE b == Head(msgs[q])
<1>0. MsgTypeOK /\ MessageBlocksOwned /\ StaleNeverQueued /\ OnlyStaleLost /\ QueuesBounded
  BY DEF MsgInv
<1>1. /\ LiveQueues' = LiveQueues /\ q \in LiveQueues /\ msgs[q] # <<>>
      /\ m_pool' = m_pool \cup {b}
      /\ message' = [message EXCEPT ![b] = NULL]
      /\ msgs' = [msgs EXCEPT ![q] = Tail(msgs[q])]
      /\ stale_links' = stale_links
  BY DEF MessageRead, DetachFirst
<1>2. \A s \in LiveQueues : /\ s \in MqBlocks /\ msgs[s] \in Seq(MsgBlocks)
                            /\ Len(msgs[s]) \in Nat
  BY <1>0, QueuesAreSeqs, RangeIndexed
<1>3. /\ Len(msgs[q]) > 0 /\ b = msgs[q][1] /\ b \in MsgBlocks
      /\ \A s \in LiveQueues : s # q => msgs'[s] = msgs[s]
      /\ Len(msgs'[q]) = Len(msgs[q]) - 1
      /\ \A i \in 1 .. Len(msgs[q]) - 1 : msgs'[q][i] = msgs[q][i + 1]
  BY <1>0, <1>1, <1>2 DEF MsgTypeOK
<1> HIDE DEF b
<1>4. MsgTypeOK'
  BY <1>0, <1>1, <1>2, <1>3 DEF MsgTypeOK
\* A position of a queue after the read was one before it, and held a block
\* other than the one that leaves.
<1>5. ASSUME NEW s \in LiveQueues, NEW i \in 1 .. Len(msgs'[s])
      PROVE  \E j \in 1 .. Len(msgs[s]) :
                /\ msgs'[s][i] = msgs[s][j]
                /\ j = IF s = q THEN i + 1 ELSE i
                /\ msgs[s][j] # b
  <2>1. CASE s = q
    <3>1. i + 1 \in 1 .. Len(msgs[q]) /\ msgs'[q][i] = msgs[q][i + 1] /\ 1 \in 1 .. Len(msgs[q])
      BY <1>1, <1>2, <1>3, <2>1
    <3>2. msgs[q][i + 1] # b
      BY <1>0, <1>1, <1>2, <1>3, <3>1 DEF MessageBlocksOwned
    <3> QED BY <2>1, <3>1, <3>2
  <2>2. CASE s # q
    <3>1. i \in 1 .. Len(msgs[s]) /\ msgs'[s][i] = msgs[s][i] /\ 1 \in 1 .. Len(msgs[q])
      BY <1>1, <1>2, <1>3, <2>2
    <3>2. msgs[s][i] # b
      BY <1>0, <1>1, <1>3, <2>2, <3>1 DEF MessageBlocksOwned
    <3> QED BY <2>2, <3>1, <3>2
  <2> QED BY <2>1, <2>2
<1>6. MessageBlocksOwned'
  <2>0. LiveQueues' = LiveQueues
    BY <1>1
  <2> SUFFICES ASSUME NEW s \in LiveQueues, NEW i \in 1 .. Len(msgs'[s])
               PROVE  /\ msgs'[s][i] \notin m_pool'
                      /\ message'[msgs'[s][i]] # NULL
                      /\ \A t \in LiveQueues : \A j \in 1 .. Len(msgs'[t]) :
                            msgs'[t][j] = msgs'[s][i] => t = s /\ j = i
    BY <2>0 DEF MessageBlocksOwned
  <2>1. msgs'[s][i] \notin m_pool' /\ message'[msgs'[s][i]] # NULL
    <3>1. PICK k \in 1 .. Len(msgs[s]) : msgs'[s][i] = msgs[s][k] /\ msgs[s][k] # b
      BY <1>5
    <3>2. msgs[s][k] \in MsgBlocks
      BY <1>2, RangeIndexed
    <3> QED BY <1>0, <1>1, <3>1, <3>2 DEF MessageBlocksOwned, MsgTypeOK
  <2>2. ASSUME NEW t \in LiveQueues, NEW j \in 1 .. Len(msgs'[t]),
               msgs'[t][j] = msgs'[s][i]
        PROVE  t = s /\ j = i
    <3>1. PICK k \in 1 .. Len(msgs[s]) :
             msgs'[s][i] = msgs[s][k] /\ k = IF s = q THEN i + 1 ELSE i
      BY <1>5
    <3>2. PICK l \in 1 .. Len(msgs[t]) :
             msgs'[t][j] = msgs[t][l] /\ l = IF t = q THEN j + 1 ELSE j
      BY <1>5
    <3>3. t = s /\ l = k
      BY <1>0, <2>2, <3>1, <3>2 DEF MessageBlocksOwned
    <3> QED BY <1>2, <3>1, <3>2, <3>3
  <2> QED BY <2>1, <2>2
<1>7. \A s \in LiveQueues : msgs'[s] \in Seq(MsgBlocks)
  BY <1>2, <1>4 DEF MsgTypeOK
<1>8. Queued' \subseteq Queued
  <2> SUFFICES ASSUME NEW s \in LiveQueues, NEW x \in Range(msgs'[s])
               PROVE  x \in Range(msgs[s])
    BY <1>1 DEF Queued
  <2>1. PICK i \in 1 .. Len(msgs'[s]) : x = msgs'[s][i]
    <3> DEFINE t == msgs'[s]
    <3>1. t \in Seq(MsgBlocks) /\ x \in Range(t)
      BY <1>7
    <3>2. \E i \in 1 .. Len(t) : x = t[i]
      <4> HIDE DEF t
      <4> QED BY <3>1, RangeIndexed
    <3> QED BY <3>2
  <2> QED BY <1>2, <1>5, <2>1, RangeIndexed
<1>9. Queued \subseteq Queued' \cup {b}
  <2> SUFFICES ASSUME NEW s \in LiveQueues, NEW x \in Range(msgs[s]), x # b
               PROVE  x \in Range(msgs'[s])
    BY <1>1 DEF Queued
  <2>1. CASE s # q
    BY <1>3, <2>1
  <2>2. CASE s = q
    <3>1. PICK i \in 1 .. Len(msgs[q]) : x = msgs[q][i]
      BY <1>2, <2>2, RangeIndexed
    <3>2. i - 1 \in 1 .. Len(msgs'[q]) /\ x = msgs'[q][i - 1]
      BY <1>1, <1>2, <1>3, <3>1
    <3> DEFINE t == msgs'[q]
    <3>3. t \in Seq(MsgBlocks) /\ i - 1 \in 1 .. Len(t) /\ x = t[i - 1]
      BY <1>7, <2>2, <3>2
    <3>4. x \in Range(t)
      <4> HIDE DEF t
      <4> QED BY <3>3, RangeIndexed
    <3> QED BY <2>2, <3>4
  <2> QED BY <2>1, <2>2
<1>10. StaleNeverQueued' /\ OnlyStaleLost'
  BY <1>0, <1>1, <1>8, <1>9 DEF StaleNeverQueued, OnlyStaleLost
<1>11. QueuesBounded'
  BY <1>0, <1>1, <1>2, <1>3 DEF QueuesBounded
<1> QED BY <1>4, <1>6, <1>10, <1>11 DEF MsgInv

\* Every step keeps the message invariant.
LEMMA MsgStep == MsgInv /\ QueueStep => MsgInv'
<1>1. MsgInv /\ QueueUnchanged => MsgInv'
  BY DEF QueueUnchanged, msgVars, MsgInv, MsgTypeOK, MessageBlocksOwned,
         StaleNeverQueued, OnlyStaleLost, QueuesBounded, Queued
<1> QED BY <1>1, CreatedKeepsMessages, DestroyedKeepsMessages, WrittenKeepsMessages,
           ReadKeepsMessages DEF QueueStep

\* It holds in every reachable state.
LEMMA MsgInvariance == Spec => []MsgInv
<1>1. UNCHANGED vars => QueueStep
  BY DEF vars, mqVars, listVars, QueueStep, QueueUnchanged, LiveQueues
<1>2. DescInv /\ MsgInv /\ [Next]_vars => MsgInv'
  BY <1>1, QueueCases, MsgStep
<1> QED BY <1>2, MsgInit, DescInvariance, PTL DEF Spec

\* A message block is never in two places: what a queue stores is not changed
\* by the reuse of a block.
THEOREM MessageBlocksOwnedThm == Spec => []MessageBlocksOwned
<1>1. MsgInv => MessageBlocksOwned
  BY DEF MsgInv
<1> QED BY <1>1, MsgInvariance, PTL

\* The only messages that are lost are those given a block with stale links.
THEOREM LossOnlyByStaleLinks == Spec => []OnlyStaleLost
<1>1. MsgInv => OnlyStaleLost
  BY DEF MsgInv
<1> QED BY <1>1, MsgInvariance, PTL

\* A block that a destroyed queue left linked never enters a queue, so no list
\* of messages runs into blocks outside it.
THEOREM StaleNeverQueuedThm == Spec => []StaleNeverQueued
<1>1. MsgInv => StaleNeverQueued
  BY DEF MsgInv
<1> QED BY <1>1, MsgInvariance, PTL
-----------------------------------------------------------------------------
\* The rest of TypeOK.  That a read returns a number rests on MessageBlocksOwned:
\* the block at the head of a queue holds a message.
RestTypeOK ==
    /\ reading_pid \in [MqBlocks -> PCBs \cup {NULL}]
    /\ writing_pid \in [MqBlocks -> PCBs \cup {NULL}]
    /\ pcbptr_pool \in Int
    /\ machine \in {"up", "segv", "hang", "off"}
    /\ pcbs \subseteq PCBs
    /\ listed \subseteq PCBs
    /\ descptr_pool \in Int
    /\ syscall_retvalue \in [PCBs -> Int \cup OtherResults]
    /\ return_value \in [PCBs -> Int \cup OtherResults]

\* Attaching a descriptor keeps the types of the pools and results.
LEMMA AttachKeepsRest ==
    ASSUME RestTypeOK, DescTypeOK, NEW p \in PCBs, NEW r, NEW users,
           AttachDescriptor(p, r, users)
    PROVE  /\ machine' \in {"up", "segv", "hang", "off"} /\ descptr_pool' \in Int
           /\ syscall_retvalue' \in [PCBs -> Int \cup OtherResults]
BY CodesAreInts DEF RestTypeOK, DescTypeOK, AttachDescriptor, Return

\* A queue is allocated and freed without touching the roles.
LEMMA AllocKeepsRest ==
    ASSUME RestTypeOK, NEW r,
           IF r \in MqBlocks THEN mq_alloc(r) \/ mq_free(r) ELSE UNCHANGED mqVars
    PROVE  UNCHANGED roleVars
BY DEF mq_alloc, mq_free, mqVars

\* Every way of returning a result keeps its type.
LEMMA ReturnsTyped ==
    ASSUME RestTypeOK
    PROVE  /\ Returns => syscall_retvalue' \in [PCBs -> Int \cup OtherResults]
           /\ \A p \in PCBs :
                 ExitValue(p) => return_value' \in [PCBs -> Int \cup OtherResults]
           /\ \A p \in PCBs, v \in Int :
                 Return(p, v) => syscall_retvalue' \in [PCBs -> Int \cup OtherResults]
BY DEF RestTypeOK, Returns, ExitValue, Return

\* The remaining types hold initially,
LEMMA RestInit == Init => RestTypeOK
<1> SUFFICES ASSUME Init PROVE RestTypeOK
  OBVIOUS
<1>1. Cardinality(Descriptors) \in Int
  BY ResourceAssumption, FS_CardinalityType
<1> QED BY <1>1, ResourceAssumption, QueueAssumption DEF Init, mq_init, RestTypeOK

\* are kept by every step,
LEMMA RestStep == RestTypeOK /\ DescInv /\ MsgInv /\ Next => RestTypeOK'
<1> SUFFICES ASSUME RestTypeOK, DescInv, MsgInv, Next PROVE RestTypeOK'
  OBVIOUS
<1> USE ResourceAssumption, QueueAssumption
<1>0. DescTypeOK
  BY DEF DescInv
<1>1. CASE Quiet
  <2>1. UNCHANGED <<reading_pid, writing_pid, pcbptr_pool, pcbs, listed, descptr_pool>>
    BY <1>1 DEF Quiet, mqVars, roleVars, descVars
  <2>2. /\ syscall_retvalue' \in [PCBs -> Int \cup OtherResults]
        /\ return_value' \in [PCBs -> Int \cup OtherResults]
    BY <1>1 DEF Quiet, Return, RestTypeOK
  <2>3. machine' \in {"up", "segv", "hang", "off"}
    BY <1>1 DEF Quiet, RestTypeOK
  <2> QED BY <2>1, <2>2, <2>3 DEF RestTypeOK
<1>2. ASSUME NEW p \in PCBs, NEW id \in ResourceIds, NEW type \in Types,
             CreateResource(p, id, type)
      PROVE  RestTypeOK'
  <2>1. PICK r \in FreeResources(type) :
           /\ IF r \in MqBlocks THEN mq_alloc(r) ELSE UNCHANGED mqVars
           /\ AttachDescriptor(p, r, {})
    BY <1>2 DEF CreateResource
  <2>2. UNCHANGED <<roleVars, pcbVars>>
    BY <1>2, <2>1, AllocKeepsRest DEF CreateResource
  <2> QED BY <1>0, <2>1, <2>2, AttachKeepsRest DEF RestTypeOK, roleVars, pcbVars
<1>3. ASSUME NEW p \in PCBs, NEW id \in ResourceIds, NEW type \in Types,
             NEW mode \in Modes, OpenResource(p, id, type, mode)
      PROVE  RestTypeOK'
  <2>1. PICK r \in Openable(id, type, mode) :
           /\ IF r \in MqBlocks THEN mq_set_mode(r, mode, p) ELSE UNCHANGED mqVars
           /\ AttachDescriptor(p, r, descriptors_ptrs[r])
    BY <1>3 DEF OpenResource
  <2>2. /\ reading_pid' \in [MqBlocks -> PCBs \cup {NULL}]
        /\ writing_pid' \in [MqBlocks -> PCBs \cup {NULL}]
        /\ pcbptr_pool' \in Int
    BY <2>1 DEF mq_set_mode, RolePtrs, mqVars, roleVars, RestTypeOK
  <2>3. UNCHANGED pcbVars
    BY <1>3 DEF OpenResource
  <2> QED BY <1>0, <2>1, <2>2, <2>3, AttachKeepsRest DEF RestTypeOK, pcbVars
<1>4. ASSUME NEW p \in PCBs, NEW fd \in Fds, NEW mode \in Modes,
             CloseResource(p, fd, mode)
      PROVE  RestTypeOK'
  <2>1. PICK d \in Held(p, fd) :
           /\ ReleaseDescriptors(p, {d})
           /\ IF desc[d].resource \in MqBlocks
                THEN mq_delete_mode(desc[d].resource, mode) ELSE UNCHANGED mqVars
    BY <1>4 DEF CloseResource
  <2>2. /\ reading_pid' \in [MqBlocks -> PCBs \cup {NULL}]
        /\ writing_pid' \in [MqBlocks -> PCBs \cup {NULL}]
        /\ pcbptr_pool' \in Int
    BY <2>1 DEF mq_delete_mode, mqVars, roleVars, RestTypeOK
  <2>3. descptr_pool' \in Int
    <3>1. Cardinality({d}) = 1
      BY FS_Singleton
    <3>2. descptr_pool' = descptr_pool + 1
      BY <2>1, <3>1 DEF ReleaseDescriptors
    <3> QED BY <3>2 DEF RestTypeOK
  <2>4. syscall_retvalue' \in [PCBs -> Int \cup OtherResults]
    <3>1. Return(p, 0)
      BY <1>4 DEF CloseResource
    <3> QED BY <3>1, ReturnsTyped
  <2> QED BY <1>4, <2>2, <2>3, <2>4 DEF CloseResource, RestTypeOK, pcbVars
<1>5. ASSUME NEW p \in PCBs, NEW id \in ResourceIds, DestroyResource(p, id)
      PROVE  RestTypeOK'
  <2>1. UNCHANGED <<roleVars, machine, descptr_pool, pcbVars>>
    BY <1>5, AllocKeepsRest DEF DestroyResource, descVars
  <2> QED BY <1>5, <2>1 DEF DestroyResource, Return, RestTypeOK, roleVars, pcbVars
<1>6. ASSUME NEW p \in PCBs, NEW fd \in Fds, NEW m \in Messages,
             WriteMessage(p, fd, m)
      PROVE  RestTypeOK'
  <2>1. UNCHANGED <<roleVars, machine, descptr_pool, pcbVars>>
    BY <1>6 DEF WriteMessage, AppendMessage, descVars
  <2> QED BY <1>6, <2>1 DEF WriteMessage, Return, RestTypeOK, roleVars, pcbVars
<1>7. ASSUME NEW p \in PCBs, NEW fd \in Fds, NEW length \in BufferSizes,
             ReadMessage(p, fd, length)
      PROVE  RestTypeOK'
  <2>1. UNCHANGED <<roleVars, machine, descptr_pool, pcbVars>>
    BY <1>7 DEF ReadMessage, DetachFirst, descVars
  <2>2. PICK q \in HeldQueue(p, fd) : /\ msgs[q] # <<>>
                                      /\ Return(p, message[Head(msgs[q])].length)
    BY <1>7 DEF ReadMessage
  <2>3. q \in LiveQueues /\ msgs[q] \in Seq(MsgBlocks) /\ 1 \in 1 .. Len(msgs[q])
    BY <2>2, HeldQueuesLive, QueuesAreSeqs DEF MsgInv
  <2>4. message[Head(msgs[q])] \in Messages
    BY <2>2, <2>3 DEF MsgInv, MsgTypeOK, MessageBlocksOwned
  <2>5. syscall_retvalue' \in [PCBs -> Int \cup OtherResults]
    BY <2>2, <2>4 DEF Return, RestTypeOK
  <2> QED BY <2>1, <2>5 DEF RestTypeOK, roleVars, pcbVars
<1>8. ASSUME NEW p \in PCBs, PCB_alloc(p)
      PROVE  RestTypeOK'
  <2>1. /\ pcbs' \subseteq PCBs /\ listed' \subseteq PCBs /\ pcbptr_pool' \in Int
        /\ UNCHANGED <<reading_pid, writing_pid, machine, descptr_pool>>
    BY <1>8 DEF PCB_alloc, RestTypeOK
  <2>2. return_value' \in [PCBs -> Int \cup OtherResults]
    BY <1>8 DEF PCB_alloc, PCB_reset, RestTypeOK
  <2> QED BY <1>8, <2>1, <2>2, ReturnsTyped DEF PCB_alloc, RestTypeOK
<1>9. ASSUME NEW p \in PCBs, ExitReleasing(p)
      PROVE  RestTypeOK'
  <2>1. IsFiniteSet(descriptors[p])
    BY <1>0, FS_Subset DEF DescTypeOK
  <2>2. Cardinality(descriptors[p]) \in Int
    BY <2>1, FS_CardinalityType
  <2>3. descptr_pool' \in Int
    BY <1>9, <2>2 DEF ExitReleasing, ReleaseDescriptors, RestTypeOK
  <2>4. /\ syscall_retvalue' \in [PCBs -> Int \cup OtherResults]
        /\ return_value' \in [PCBs -> Int \cup OtherResults]
    BY <1>9, ReturnsTyped DEF ExitReleasing
  <2> QED BY <1>9, <2>3, <2>4 DEF ExitReleasing, RestTypeOK, mqVars, roleVars
<1>10. ASSUME NEW p \in PCBs, ExitReaped(p)
       PROVE  RestTypeOK'
  BY <1>10, ReturnsTyped DEF ExitReaped, RestTypeOK, descVars
<1> QED BY <1>1, <1>2, <1>3, <1>4, <1>5, <1>6, <1>7, <1>8, <1>9, <1>10, StepCases
        DEF Effective

\* and hold in every reachable state.
LEMMA RestInvariance == Spec => []RestTypeOK
<1>1. RestTypeOK /\ UNCHANGED vars => RestTypeOK'
  BY DEF RestTypeOK, vars, mqVars, roleVars, descVars, pcbVars
<1> QED BY RestInit, RestStep, <1>1, DescInvariance, MsgInvariance, PTL DEF Spec

\* Type correctness.
THEOREM TypeCorrect == Spec => []TypeOK
<1>1. RestTypeOK /\ DescInv /\ MsgInv => TypeOK
  BY DEF RestTypeOK, DescInv, DescTypeOK, MsgInv, MsgTypeOK, TypeOK
<1> QED BY <1>1, RestInvariance, DescInvariance, MsgInvariance, PTL
-----------------------------------------------------------------------------
\* The size of a disjoint union.
LEMMA DisjointUnion ==
    ASSUME NEW S, NEW T, IsFiniteSet(S), IsFiniteSet(T), T \cap S = {}
    PROVE  Cardinality(S \cup T) = Cardinality(S) + Cardinality(T)
<1>1. S \cap T = {}
  OBVIOUS
<1>2. Cardinality(S \cap T) = 0
  BY <1>1, FS_EmptySet
<1>3. Cardinality(S) \in Nat /\ Cardinality(T) \in Nat
  BY FS_CardinalityType
<1>4. Cardinality(S \cup T) = Cardinality(S) + Cardinality(T) - Cardinality(S \cap T)
  BY FS_Union
<1> QED BY <1>2, <1>3, <1>4

\* The free descriptors are finitely many.
LEMMA FreeDescriptorsFinite ==
    DescTypeOK => IsFiniteSet(FreeDescriptors) /\ Cardinality(FreeDescriptors) \in Nat
<1>1. FreeDescriptors \in SUBSET Descriptors
  BY DEF FreeDescriptors
<1>2. IsFiniteSet(FreeDescriptors)
  BY <1>1, ResourceAssumption, FS_Subset
<1> QED BY <1>2, FS_CardinalityType

\* Every step takes or gives back as many descriptors as descriptor pointers.
LEMMA LockstepStep ==
    RestTypeOK /\ DescInv /\ PtrsInLockstep /\ Next => PtrsInLockstep'
<1> SUFFICES ASSUME RestTypeOK, DescInv, PtrsInLockstep, Next PROVE PtrsInLockstep'
  OBVIOUS
<1> USE ResourceAssumption, QueueAssumption
<1>0. DescTypeOK /\ DescriptorsPinned
  BY DEF DescInv
<1>1. UNCHANGED <<desc, descptr_pool>> => PtrsInLockstep'
  BY DEF PtrsInLockstep, FreeDescriptors
<1>2. ASSUME NEW p \in PCBs, NEW r \in Blocks, NEW users, AttachDescriptor(p, r, users)
      PROVE  PtrsInLockstep'
  <2>1. CASE UNCHANGED <<desc, descptr_pool>>
    BY <2>1, <1>1
  <2>2. ASSUME NEW d \in FreeDescriptors,
               desc' = [desc EXCEPT ![d] = [pcb |-> p, resource |-> r, fd |-> last_fd[p]]],
               descptr_pool' = descptr_pool - 1
        PROVE  PtrsInLockstep'
    <3>1. d \in Descriptors /\ r # NULL
      BY DEF FreeDescriptors
    <3>2. FreeDescriptors' = FreeDescriptors \ {d}
      BY <1>0, <2>2, <3>1 DEF FreeDescriptors, DescTypeOK
    <3>3. Cardinality(FreeDescriptors \ {d}) = Cardinality(FreeDescriptors) - 1
      BY <1>0, FreeDescriptorsFinite, FS_RemoveElement
    <3> QED BY <2>2, <3>2, <3>3 DEF PtrsInLockstep
  <2> QED BY <1>2, <2>1, <2>2 DEF AttachDescriptor
<1>3. ASSUME NEW p \in PCBs, NEW ds \in SUBSET descriptors[p], ReleaseDescriptors(p, ds)
      PROVE  PtrsInLockstep'
  <2>1. ds \subseteq Descriptors /\ ds \cap FreeDescriptors = {}
    BY <1>0 DEF DescTypeOK, DescriptorsPinned
  <2>2. FreeDescriptors' = FreeDescriptors \cup ds
    BY <1>0, <1>3, <2>1 DEF FreeDescriptors, ReleaseDescriptors, FreeDescriptor, DescTypeOK
  <2>3. IsFiniteSet(ds) /\ IsFiniteSet(FreeDescriptors)
    BY <1>0, <2>1, FS_Subset, FreeDescriptorsFinite
  <2>4. Cardinality(FreeDescriptors \cup ds) = Cardinality(FreeDescriptors) + Cardinality(ds)
    BY <2>1, <2>3, DisjointUnion
  <2> QED BY <1>3, <2>2, <2>4 DEF PtrsInLockstep, ReleaseDescriptors
<1>4. \A type \in Types : FreeResources(type) \subseteq Blocks
  BY DEF FreeResources
<1>5. \A id, type, mode : Openable(id, type, mode) \subseteq Blocks
  BY <1>0 DEF Openable, Named, DescTypeOK
<1>6. \/ UNCHANGED <<desc, descptr_pool>>
      \/ \E p \in PCBs, r \in Blocks : \E users : AttachDescriptor(p, r, users)
      \/ \E p \in PCBs : \E ds \in SUBSET descriptors[p] : ReleaseDescriptors(p, ds)
  <2>1. CASE Quiet
    BY <2>1 DEF Quiet, descVars
  <2>2. ASSUME NEW p \in PCBs, NEW id \in ResourceIds, NEW type \in Types,
               CreateResource(p, id, type)
        PROVE  \E r \in Blocks : \E users : AttachDescriptor(p, r, users)
    BY <1>4, <2>2 DEF CreateResource
  <2>3. ASSUME NEW p \in PCBs, NEW id \in ResourceIds, NEW type \in Types,
               NEW mode \in Modes, OpenResource(p, id, type, mode)
        PROVE  \E r \in Blocks : \E users : AttachDescriptor(p, r, users)
    BY <1>5, <2>3 DEF OpenResource
  <2>4. ASSUME NEW p \in PCBs, NEW fd \in Fds, NEW mode \in Modes,
               CloseResource(p, fd, mode)
        PROVE  \E ds \in SUBSET descriptors[p] : ReleaseDescriptors(p, ds)
    <3>1. PICK d \in Held(p, fd) : ReleaseDescriptors(p, {d})
      BY <2>4 DEF CloseResource
    <3>2. {d} \in SUBSET descriptors[p]
      BY DEF Held
    <3> QED BY <3>1, <3>2
  <2>5. ASSUME NEW p \in PCBs,
               \/ \E id \in ResourceIds : DestroyResource(p, id)
               \/ \E fd \in Fds, m \in Messages : WriteMessage(p, fd, m)
               \/ \E fd \in Fds, length \in BufferSizes : ReadMessage(p, fd, length)
               \/ PCB_alloc(p) \/ ExitReaped(p)
        PROVE  UNCHANGED <<desc, descptr_pool>>
    BY <2>5 DEF DestroyResource, WriteMessage, ReadMessage, PCB_alloc, ExitReaped, descVars
  <2>6. ASSUME NEW p \in PCBs, ExitReleasing(p)
        PROVE  ReleaseDescriptors(p, descriptors[p])
    BY <2>6 DEF ExitReleasing
  <2> QED BY <2>1, <2>2, <2>3, <2>4, <2>5, <2>6, StepCases DEF Effective
<1> QED BY <1>1, <1>2, <1>3, <1>6

\* Initially both pools are full.
LEMMA LockstepInit == Init => PtrsInLockstep
<1> SUFFICES ASSUME Init PROVE FreeDescriptors = Descriptors
  BY DEF Init, PtrsInLockstep
<1> QED BY DEF Init, FreeDescriptors, FreeDescriptor

\* Nothing of the invariants is about a variable that vars does not have.
LEMMA Stuttering ==
    ASSUME DescInv, MsgInv, RestTypeOK, PtrsInLockstep, UNCHANGED vars
    PROVE  DescInv' /\ MsgInv' /\ RestTypeOK' /\ PtrsInLockstep'
<1>1. DescInv'
  BY DescFrame DEF vars, descVars
<1>2. MsgInv'
  BY MsgStep DEF vars, mqVars, listVars, QueueStep, QueueUnchanged, LiveQueues
<1>3. RestTypeOK' /\ PtrsInLockstep'
  BY DEF RestTypeOK, PtrsInLockstep, FreeDescriptors, vars, mqVars, roleVars, descVars,
         pcbVars
<1> QED BY <1>1, <1>2, <1>3

\* open never meets an empty descriptor pointer pool after it got a descriptor.
THEOREM PtrsInLockstepThm == Spec => []PtrsInLockstep
<1>1. PtrsInLockstep /\ UNCHANGED vars => PtrsInLockstep'
  BY DEF PtrsInLockstep, FreeDescriptors, vars, descVars
<1> QED BY <1>1, LockstepInit, LockstepStep, RestInvariance, DescInvariance, PTL DEF Spec

\* So an open that finds a descriptor finds a pointer for it.
LEMMA EmptyTogether ==
    DescTypeOK /\ PtrsInLockstep => (descptr_pool = 0 <=> FreeDescriptors = {})
BY FreeDescriptorsFinite, FS_EmptySet DEF PtrsInLockstep
-----------------------------------------------------------------------------
\* The PCBPtrs are in children lists, roles and the pool.
BudgetInv == IsFiniteSet(listed) /\ IsFiniteSet(Roles) /\ PCBPtrBudget

\* A step takes a PCBPtr for a role or for a child, gives one back with a
\* child, or forgets some.
LEMMA BudgetCases ==
    ASSUME RestTypeOK, Next
    PROVE  \/ UNCHANGED <<pcbptr_pool, listed>> /\ Roles' \subseteq Roles
           \/ /\ pcbptr_pool # 0 /\ pcbptr_pool' = pcbptr_pool - 1
              /\ \E x : Roles' \subseteq Roles \cup {x}
              /\ UNCHANGED listed
           \/ /\ pcbptr_pool > 0 /\ pcbptr_pool' = pcbptr_pool - 1
              /\ \E p : listed' \subseteq listed \cup {p}
              /\ UNCHANGED Roles
           \/ \E p \in listed :
                 /\ pcbptr_pool' \in {pcbptr_pool, pcbptr_pool + 1}
                 /\ listed' = listed \ {p}
                 /\ UNCHANGED Roles
<1>1. CASE Quiet
  BY <1>1 DEF Quiet, mqVars, roleVars, Roles
<1>2. ASSUME NEW p \in PCBs,
             \/ \E id \in ResourceIds, type \in Types : CreateResource(p, id, type)
             \/ \E id \in ResourceIds : DestroyResource(p, id)
             \/ \E fd \in Fds, m \in Messages : WriteMessage(p, fd, m)
             \/ \E fd \in Fds, length \in BufferSizes : ReadMessage(p, fd, length)
      PROVE  UNCHANGED <<pcbptr_pool, listed>> /\ Roles' \subseteq Roles
  <2>1. UNCHANGED <<roleVars, listed>>
    BY <1>2 DEF CreateResource, DestroyResource, WriteMessage, ReadMessage, mq_alloc,
                mq_free, AppendMessage, DetachFirst, mqVars, pcbVars
  <2> QED BY <2>1 DEF roleVars, Roles
<1>3. ASSUME NEW p \in PCBs, NEW id \in ResourceIds, NEW type \in Types,
             NEW mode \in Modes, OpenResource(p, id, type, mode)
      PROVE  \/ UNCHANGED <<pcbptr_pool, listed>> /\ Roles' \subseteq Roles
             \/ /\ pcbptr_pool # 0 /\ pcbptr_pool' = pcbptr_pool - 1
                /\ \E x : Roles' \subseteq Roles \cup {x}
                /\ UNCHANGED listed
  <2>1. UNCHANGED listed
    BY <1>3 DEF OpenResource, pcbVars
  <2>2. CASE UNCHANGED mqVars
    BY <2>1, <2>2 DEF mqVars, roleVars, Roles
  <2>3. ASSUME NEW r, ~ mq_set_mode_crashes(mode), mq_set_mode(r, mode, p)
        PROVE  \/ UNCHANGED <<pcbptr_pool, listed>> /\ Roles' \subseteq Roles
               \/ /\ pcbptr_pool # 0 /\ pcbptr_pool' = pcbptr_pool - 1
                  /\ \E x : Roles' \subseteq Roles \cup {x}
                  /\ UNCHANGED listed
    <3>1. CASE mode \notin {DSOS_READ, DSOS_WRITE}
      <4>1. UNCHANGED pcbptr_pool
        BY <2>3, <3>1 DEF mq_set_mode, RolePtrs, RestTypeOK
      <4> QED BY <2>1, <2>3, <3>1, <4>1 DEF mq_set_mode, Roles
    <3>2. CASE mode = DSOS_READ
      <4>1. /\ reading_pid' = [reading_pid EXCEPT ![r] = p] /\ writing_pid' = writing_pid
            /\ pcbptr_pool # 0 /\ pcbptr_pool' = pcbptr_pool - 1
        BY <2>3, <3>2 DEF mq_set_mode, RolePtrs, mq_set_mode_crashes, DSOS_READ, DSOS_WRITE
      <4>2. Roles' \subseteq Roles \cup {<<r, "read">>}
        BY <4>1 DEF Roles, RestTypeOK
      <4> QED BY <2>1, <4>1, <4>2
    <3>3. CASE mode = DSOS_WRITE
      <4>1. /\ writing_pid' = [writing_pid EXCEPT ![r] = p] /\ reading_pid' = reading_pid
            /\ pcbptr_pool # 0 /\ pcbptr_pool' = pcbptr_pool - 1
        BY <2>3, <3>3 DEF mq_set_mode, RolePtrs, mq_set_mode_crashes, DSOS_READ, DSOS_WRITE
      <4>2. Roles' \subseteq Roles \cup {<<r, "write">>}
        BY <4>1 DEF Roles, RestTypeOK
      <4> QED BY <2>1, <4>1, <4>2
    <3> QED BY <3>1, <3>2, <3>3
  <2> QED BY <1>3, <2>2, <2>3 DEF OpenResource
<1>4. ASSUME NEW p \in PCBs, NEW fd \in Fds, NEW mode \in Modes,
             CloseResource(p, fd, mode)
      PROVE  UNCHANGED <<pcbptr_pool, listed>> /\ Roles' \subseteq Roles
  <2>1. UNCHANGED listed
    BY <1>4 DEF CloseResource, pcbVars
  <2>2. CASE UNCHANGED mqVars
    BY <2>1, <2>2 DEF mqVars, roleVars, Roles
  <2>3. ASSUME NEW r, mq_delete_mode(r, mode)
        PROVE  UNCHANGED pcbptr_pool /\ Roles' \subseteq Roles
    <3>1. \A q \in MqBlocks : /\ reading_pid'[q] \in {reading_pid[q], NULL}
                              /\ writing_pid'[q] \in {writing_pid[q], NULL}
      BY <2>3 DEF mq_delete_mode, RestTypeOK
    <3> QED BY <2>3, <3>1 DEF mq_delete_mode, Roles
  <2> QED BY <1>4, <2>1, <2>2, <2>3 DEF CloseResource
<1>5. ASSUME NEW p \in PCBs, PCB_alloc(p)
      PROVE  /\ UNCHANGED Roles
             /\ \/ UNCHANGED <<pcbptr_pool, listed>>
                \/ /\ pcbptr_pool > 0 /\ pcbptr_pool' = pcbptr_pool - 1
                   /\ \E x : listed' \subseteq listed \cup {x}
  BY <1>5 DEF PCB_alloc, Roles
<1>6. ASSUME NEW p \in PCBs, ExitReleasing(p) \/ ExitReaped(p)
      PROVE  \E x \in listed :
                /\ pcbptr_pool' \in {pcbptr_pool, pcbptr_pool + 1}
                /\ listed' = listed \ {x}
                /\ UNCHANGED Roles
  BY <1>6 DEF ExitReleasing, ExitReaped, Roles, mqVars, roleVars
<1> QED BY <1>1, <1>2, <1>3, <1>4, <1>5, <1>6, StepCases DEF Effective

\* A set with at most one element more has a size of at most one more.
LEMMA AtMostOneMore ==
    ASSUME NEW S, NEW T, NEW x, IsFiniteSet(S), T \subseteq S \cup {x}
    PROVE  /\ IsFiniteSet(T) /\ Cardinality(T) \in Nat /\ Cardinality(S) \in Nat
           /\ Cardinality(T) <= Cardinality(S) + 1
<1>1. /\ IsFiniteSet(S \cup {x})
      /\ Cardinality(S \cup {x}) \in {Cardinality(S), Cardinality(S) + 1}
  BY FS_AddElement
<1>2. IsFiniteSet(T) /\ Cardinality(T) <= Cardinality(S \cup {x})
  BY <1>1, FS_Subset
<1>3. Cardinality(S) \in Nat /\ Cardinality(T) \in Nat
  BY <1>2, FS_CardinalityType
<1> QED BY <1>1, <1>2, <1>3

\* Every step that adds a child or a role takes a PCBPtr.
LEMMA BudgetStep == RestTypeOK /\ BudgetInv /\ Next => BudgetInv'
<1> SUFFICES ASSUME RestTypeOK, BudgetInv, Next PROVE BudgetInv'
  OBVIOUS
<1> DEFINE c == Cardinality(listed)
           r == Cardinality(Roles)
<1>1. /\ pcbptr_pool \in Int /\ NumPCBPtrs \in Nat /\ pcbptr_pool >= 0
      /\ pcbptr_pool + c + r <= NumPCBPtrs
      /\ IsFiniteSet(listed) /\ IsFiniteSet(Roles)
  BY QueueAssumption DEF RestTypeOK, BudgetInv, PCBPtrBudget
<1>2. c \in Nat /\ r \in Nat
  BY <1>1, FS_CardinalityType
<1>3. CASE UNCHANGED <<pcbptr_pool, listed>> /\ Roles' \subseteq Roles
  <2>1. IsFiniteSet(Roles') /\ Cardinality(Roles') <= r /\ Cardinality(Roles') \in Nat
    BY <1>1, <1>3, FS_Subset, FS_CardinalityType
  <2> QED BY <1>1, <1>2, <1>3, <2>1 DEF BudgetInv, PCBPtrBudget
<1>4. ASSUME NEW x, Roles' \subseteq Roles \cup {x}, UNCHANGED listed,
             pcbptr_pool # 0, pcbptr_pool' = pcbptr_pool - 1
      PROVE  BudgetInv'
  <2>1. IsFiniteSet(Roles') /\ Cardinality(Roles') <= r + 1 /\ Cardinality(Roles') \in Nat
    BY <1>1, <1>4, AtMostOneMore
  <2> QED BY <1>1, <1>2, <1>4, <2>1 DEF BudgetInv, PCBPtrBudget
<1>5. ASSUME NEW x, listed' \subseteq listed \cup {x}, UNCHANGED Roles,
             pcbptr_pool > 0, pcbptr_pool' = pcbptr_pool - 1
      PROVE  BudgetInv'
  <2>1. /\ IsFiniteSet(listed') /\ Cardinality(listed') <= c + 1
        /\ Cardinality(listed') \in Nat
    BY <1>1, <1>5, AtMostOneMore
  <2> QED BY <1>1, <1>2, <1>5, <2>1 DEF BudgetInv, PCBPtrBudget
<1>6. ASSUME NEW x \in listed, listed' = listed \ {x}, UNCHANGED Roles,
             pcbptr_pool' \in {pcbptr_pool, pcbptr_pool + 1}
      PROVE  BudgetInv'
  <2>1. IsFiniteSet(listed') /\ Cardinality(listed') = c - 1
    BY <1>1, <1>6, FS_RemoveElement
  <2> QED BY <1>1, <1>2, <1>6, <2>1 DEF BudgetInv, PCBPtrBudget
<1> QED BY <1>3, <1>4, <1>5, <1>6, BudgetCases

\* A PCBPtr is never handed out twice: the pool, the children lists and the
\* queue roles share its blocks, whatever close and exit forget to give back.
THEOREM PCBPtrBudgetThm == Spec => []PCBPtrBudget
<1>1. Init => BudgetInv
  <2> SUFFICES ASSUME Init PROVE BudgetInv
    OBVIOUS
  <2>1. listed = {} /\ pcbptr_pool = NumPCBPtrs
    BY DEF Init, mq_init
  <2>2. /\ reading_pid = [q \in MqBlocks |-> NULL]
        /\ writing_pid = [q \in MqBlocks |-> NULL]
    BY DEF Init, mq_init
  <2>4. Roles = {}
    BY <2>2 DEF Roles
  <2>5. /\ IsFiniteSet(listed) /\ Cardinality(listed) = 0
        /\ IsFiniteSet(Roles) /\ Cardinality(Roles) = 0
    BY <2>1, <2>4, FS_EmptySet
  <2>6. PCBPtrBudget
    BY <2>1, <2>5, QueueAssumption DEF PCBPtrBudget
  <2> QED BY <2>5, <2>6 DEF BudgetInv
<1>2. BudgetInv /\ UNCHANGED vars => BudgetInv'
  BY DEF BudgetInv, PCBPtrBudget, Roles, vars, mqVars, roleVars, pcbVars
<1>3. BudgetInv => PCBPtrBudget
  BY DEF BudgetInv
<1> QED BY <1>1, <1>2, <1>3, BudgetStep, RestInvariance, PTL DEF Spec
-----------------------------------------------------------------------------
\* A queue keeps its name as long as it is in the system list.
LEMMA NamesKept ==
    ASSUME DescInv, Next, NEW q \in LiveQueues \cap LiveQueues'
    PROVE  resource_id'[q] = resource_id[q]
<1> USE DEF LiveQueues
<1>1. CASE UNCHANGED listVars
  BY <1>1 DEF listVars
<1>2. CASE Quiet
  BY <1>2, <1>1 DEF Quiet
<1>3. ASSUME NEW p \in PCBs, NEW id \in ResourceIds, NEW type \in Types,
             CreateResource(p, id, type)
      PROVE  resource_id'[q] = resource_id[q]
  BY <1>3 DEF CreateResource, FreeResources, DescInv, DescTypeOK
<1>4. ASSUME NEW p \in PCBs, NEW id \in ResourceIds, DestroyResource(p, id)
      PROVE  resource_id'[q] = resource_id[q]
  BY <1>4 DEF DestroyResource, DescInv, DescTypeOK
<1>5. ASSUME NEW p \in PCBs,
             \/ \E id \in ResourceIds, type \in Types, mode \in Modes :
                   OpenResource(p, id, type, mode)
             \/ \E fd \in Fds, mode \in Modes : CloseResource(p, fd, mode)
             \/ \E fd \in Fds, m \in Messages : WriteMessage(p, fd, m)
             \/ \E fd \in Fds, length \in BufferSizes : ReadMessage(p, fd, length)
             \/ PCB_alloc(p) \/ ExitReleasing(p) \/ ExitReaped(p)
      PROVE  UNCHANGED listVars
  BY <1>5 DEF OpenResource, CloseResource, WriteMessage, ReadMessage, PCB_alloc,
              ExitReleasing, ExitReaped
<1> QED BY <1>1, <1>2, <1>3, <1>4, <1>5, StepCases DEF Effective
-----------------------------------------------------------------------------
\* The queues of an id are the live ones that bear it.
LEMMA QueuesOfLive ==
    /\ \A id : QueuesOf(id) = {q \in LiveQueues : resource_id[q] = id}
    /\ \A id : QueuesOf(id)' = {q \in LiveQueues' : resource_id'[q] = id}
BY DEF QueuesOf, Named, LiveQueues

\* The channel of an id without a queue, and of an id with one.
LEMMA ChannelClosed ==
    ASSUME NEW id \in ResourceIds
    PROVE  /\ QueuesOf(id) = {} => Channels[id] = NULL
           /\ QueuesOf(id)' = {} => Channels'[id] = NULL
BY DEF Channels

\* The channel of an id that one queue bears is that queue's contents.
LEMMA ChannelOpen ==
    ASSUME NEW id \in ResourceIds, NEW q
    PROVE  /\ QueuesOf(id) = {q} => Channels[id] = Contents(q)
           /\ QueuesOf(id)' = {q} => Channels'[id] = Contents(q)'
<1>1. (CHOOSE x \in {q} : TRUE) = q
  OBVIOUS
<1> QED BY <1>1 DEF Channels

\* An id names at most one queue.
LEMMA OneQueue ==
    ASSUME IdsUnique, NEW q \in LiveQueues
    PROVE  QueuesOf(resource_id[q]) = {q}
BY QueuesOfLive DEF IdsUnique, LiveQueues

\* A channel stays when its queue and the contents stay.
LEMMA ChannelKept ==
    ASSUME IdsUnique, NEW id \in ResourceIds, QueuesOf(id)' = QueuesOf(id),
           \A q \in QueuesOf(id) : Contents(q)' = Contents(q)
    PROVE  Channels'[id] = Channels[id]
<1>1. CASE QueuesOf(id) = {}
  BY <1>1, ChannelClosed
<1>2. ASSUME NEW q \in QueuesOf(id)
      PROVE  Channels'[id] = Channels[id]
  <2>1. QueuesOf(id) = {q}
    BY <1>2, QueuesOfLive, OneQueue
  <2> QED BY <2>1, ChannelOpen
<1> QED BY <1>1, <1>2

\* Two functions that differ in at most one place.
LEMMA FunctionExcept ==
    ASSUME NEW D, NEW f, NEW g, f = [i \in D |-> f[i]], g = [i \in D |-> g[i]],
           NEW x \in D, \A i \in D \ {x} : g[i] = f[i]
    PROVE  g = [f EXCEPT ![x] = g[x]]
OBVIOUS

\* The refinement mapping is a function of the ids.
LEMMA ChannelsFunction ==
    /\ Channels = [id \in ResourceIds |-> Channels[id]]
    /\ Channels' = [id \in ResourceIds |-> Channels'[id]]
<1>1. Channels = [id \in ResourceIds |-> Channels[id]]
  BY DEF Channels
<1>2. Channels' = [id \in ResourceIds |-> Channels'[id]]
  BY DEF Channels
<1> QED BY <1>1, <1>2

\* A step that changes the queue of one id at most.
LEMMA ChannelsExcept ==
    ASSUME NEW id \in ResourceIds,
           \A i \in ResourceIds \ {id} : Channels'[i] = Channels[i]
    PROVE  Channels' = [Channels EXCEPT ![id] = Channels'[id]]
BY ChannelsFunction, FunctionExcept

\* If every channel stays, the mapping stays.
LEMMA ChannelsKept ==
    ASSUME \A id \in ResourceIds : Channels'[id] = Channels[id]
    PROVE  Channels' = Channels
BY ChannelsFunction
-----------------------------------------------------------------------------
\* A live queue's contents are a sequence of messages.
LEMMA ContentsType ==
    ASSUME MsgInv, NEW q \in LiveQueues
    PROVE  /\ Contents(q) \in Seq(Messages)
           /\ Len(Contents(q)) = Len(msgs[q])
           /\ Len(msgs[q]) \in Nat
           /\ \A i \in 1 .. Len(msgs[q]) : Contents(q)[i] = message[msgs[q][i]]
           /\ Contents(q) # NULL
<1>1. msgs[q] \in Seq(MsgBlocks) /\ Len(msgs[q]) \in Nat
  BY QueuesAreSeqs, RangeIndexed DEF MsgInv
<1>2. \A i \in 1 .. Len(msgs[q]) : message[msgs[q][i]] \in Messages
  <2>1. \A i \in 1 .. Len(msgs[q]) : msgs[q][i] \in MsgBlocks
    BY <1>1, RangeIndexed
  <2> QED BY <2>1 DEF MsgInv, MessageBlocksOwned, MsgTypeOK
<1>3. /\ Contents(q) \in Seq(Messages)
      /\ Len(Contents(q)) = Len(msgs[q])
      /\ \A i \in 1 .. Len(msgs[q]) : Contents(q)[i] = message[msgs[q][i]]
  BY <1>1, <1>2 DEF Contents
<1> QED BY <1>1, <1>3, QueueAssumption

\* What an append and a detach do to the contents.
LEMMA ContentsAppend ==
    ASSUME NEW S, NEW c \in Seq(S), NEW d \in Seq(S), NEW m \in S,
           Len(d) = Len(c) + 1, d[Len(c) + 1] = m,
           \A i \in 1 .. Len(c) : d[i] = c[i]
    PROVE  d = Append(c, m)
<1>1. /\ Append(c, m) \in Seq(S) /\ Len(Append(c, m)) = Len(c) + 1
      /\ \A i \in 1 .. Len(c) + 1 : Append(c, m)[i] = d[i]
  BY AppendProperties
<1> QED BY <1>1, SeqEqual

\* A function on 1 .. n is a sequence of length n.
LEMMA FunctionSeq ==
    ASSUME NEW S, NEW n \in Nat, NEW d \in [1 .. n -> S]
    PROVE  d \in Seq(S) /\ Len(d) = n
OBVIOUS

\* A sequence moved forward by one place is a tail.
LEMMA ContentsTail ==
    ASSUME NEW S, NEW c \in Seq(S), NEW d \in Seq(S), c # <<>>,
           Len(d) = Len(c) - 1, \A i \in 1 .. Len(d) : d[i] = c[i + 1]
    PROVE  d = Tail(c)
<1>1. /\ Tail(c) \in Seq(S) /\ Len(Tail(c)) = Len(c) - 1
      /\ \A i \in 1 .. Len(Tail(c)) : Tail(c)[i] = c[i + 1]
  BY HeadTailProperties
<1> QED BY <1>1, SeqEqual
-----------------------------------------------------------------------------
\* A live queue none of whose blocks the step touches keeps its contents.
LEMMA ContentsKept ==
    ASSUME MsgInv, NEW q \in LiveQueues, msgs'[q] = msgs[q],
           \A i \in 1 .. Len(msgs[q]) : message'[msgs[q][i]] = message[msgs[q][i]]
    PROVE  Contents(q)' = Contents(q)
BY DEF Contents

\* The queues of an id change only if a step creates or destroys one of them.
LEMMA QueuesOfKept ==
    ASSUME NEW id, \A q \in LiveQueues \cap LiveQueues' : resource_id'[q] = resource_id[q],
           \A q \in LiveQueues \ LiveQueues' : resource_id[q] # id,
           \A q \in LiveQueues' \ LiveQueues : resource_id'[q] # id
    PROVE  QueuesOf(id)' = QueuesOf(id)
BY QueuesOfLive

\* An id whose queues neither change nor change their contents.
LEMMA OtherChannel ==
    ASSUME DescInv, MsgInv, Next, NEW id \in ResourceIds,
           \A q \in LiveQueues \ LiveQueues' : resource_id[q] # id,
           \A q \in LiveQueues' \ LiveQueues : resource_id'[q] # id,
           \A q \in LiveQueues : resource_id[q] = id =>
              /\ msgs'[q] = msgs[q]
              /\ \A i \in 1 .. Len(msgs[q]) : message'[msgs[q][i]] = message[msgs[q][i]]
    PROVE  Channels'[id] = Channels[id]
<1>1. QueuesOf(id)' = QueuesOf(id)
  BY NamesKept, QueuesOfKept
<1>2. \A q \in QueuesOf(id) : Contents(q)' = Contents(q)
  BY QueuesOfLive, ContentsKept
<1> QED BY <1>1, <1>2, ChannelKept DEF DescInv

\* Creating a queue opens a channel.
LEMMA CreateOpensChannel ==
    ASSUME DescInv, DescInv', MsgInv, MsgInv', Next, NEW q \in MqBlocks, QueueCreated(q)
    PROVE  [Fifo!Next]_Channels
<1> PICK id : id = resource_id'[q]
  OBVIOUS
<1>1. /\ LiveQueues' = LiveQueues \cup {q} /\ q \notin LiveQueues
      /\ msgs' = [msgs EXCEPT ![q] = <<>>] /\ message' = message
  BY DEF QueueCreated, mq_alloc
<1>2. /\ msgs'[q] = <<>>
      /\ \A s \in LiveQueues : msgs'[s] = msgs[s]
  BY <1>1 DEF MsgInv, MsgTypeOK, LiveQueues
<1>3. \A i \in ResourceIds \ {id} : Channels'[i] = Channels[i]
  BY <1>1, <1>2, OtherChannel
<1>4. CASE id \notin ResourceIds
  BY <1>3, <1>4, ChannelsKept
<1>5. CASE id \in ResourceIds
  \* The new name is new.
  <2>1. \A s \in LiveQueues : resource_id[s] # id
    <3>1. \A s \in LiveQueues : resource_id'[s] = resource_id[s]
      BY <1>1, NamesKept
    <3> QED BY <1>1, <3>1 DEF DescInv, IdsUnique, LiveQueues
  <2>2. QueuesOf(id) = {} /\ QueuesOf(id)' = {q}
    BY <1>1, <2>1, NamesKept, QueuesOfLive
  <2>3. Channels[id] = NULL /\ Channels'[id] = Contents(q)'
    BY <1>5, <2>2, ChannelClosed, ChannelOpen
  <2>4. Contents(q)' = <<>>
    BY <1>2 DEF Contents
  <2>5. Channels' = [Channels EXCEPT ![id] = <<>>]
    BY <1>3, <1>5, <2>3, <2>4, ChannelsExcept
  <2> QED BY <1>5, <2>3, <2>5 DEF Fifo!Next, Fifo!Open
<1> QED BY <1>4, <1>5

\* Destroying a queue closes its channel.
LEMMA DestroyClosesChannel ==
    ASSUME DescInv, DescInv', MsgInv, MsgInv', Next, NEW q \in MqBlocks, QueueDestroyed(q)
    PROVE  [Fifo!Next]_Channels
<1> PICK id : id = resource_id[q]
  OBVIOUS
<1>1. /\ LiveQueues' = LiveQueues \ {q} /\ q \in LiveQueues
      /\ msgs' = msgs
      /\ message' = [b \in MsgBlocks |->
                       IF b \in Range(msgs[q]) THEN NULL ELSE message[b]]
  BY DEF QueueDestroyed, mq_free
<1>2. ASSUME NEW s \in LiveQueues \ {q}, NEW k \in 1 .. Len(msgs[s])
      PROVE  message'[msgs[s][k]] = message[msgs[s][k]]
  <2>1. msgs[s][k] \in MsgBlocks
    BY QueuesAreSeqs, RangeIndexed DEF MsgInv
  <2>2. msgs[s][k] \notin Range(msgs[q])
    BY <1>1, QueuesAreSeqs, RangeIndexed DEF MsgInv, MessageBlocksOwned
  <2> QED BY <1>1, <2>1, <2>2
<1>3. \A i \in ResourceIds \ {id} : Channels'[i] = Channels[i]
  BY <1>1, <1>2, OtherChannel
<1>4. CASE id \notin ResourceIds
  BY <1>3, <1>4, ChannelsKept
<1>5. CASE id \in ResourceIds
  <2>1. QueuesOf(id) = {q}
    BY <1>1, OneQueue DEF DescInv
  <2>2. QueuesOf(id)' = {}
    BY <1>1, <2>1, NamesKept, QueuesOfLive
  <2>3. Channels[id] = Contents(q) /\ Channels'[id] = NULL
    BY <1>5, <2>1, <2>2, ChannelClosed, ChannelOpen
  <2>4. Contents(q) # NULL
    BY <1>1, ContentsType
  <2>5. Channels' = [Channels EXCEPT ![id] = NULL]
    BY <1>3, <1>5, <2>3, ChannelsExcept
  <2> QED BY <1>5, <2>3, <2>4, <2>5 DEF Fifo!Next, Fifo!Close
<1> QED BY <1>4, <1>5

\* A write that is stored sends to one channel; a refused one changes none.
LEMMA WriteSends ==
    ASSUME DescInv, DescInv', MsgInv, MsgInv', Next,
           NEW q \in MqBlocks, NEW b \in m_pool, NEW m \in Messages,
           MessageWritten(q, b, m)
    PROVE  [Fifo!Next]_Channels
<1> PICK id : id = resource_id[q]
  OBVIOUS
<1>1. /\ LiveQueues' = LiveQueues /\ q \in LiveQueues /\ Len(msgs[q]) # M_FOR_MQ
      /\ message' = [message EXCEPT ![b] = m]
      /\ msgs' = IF b \in stale_links THEN msgs
                 ELSE [msgs EXCEPT ![q] = Append(msgs[q], b)]
  BY DEF MessageWritten, AppendMessage, m_alloc, Inserted
<1>2. \A s \in LiveQueues : s \in MqBlocks /\ msgs[s] \in Seq(MsgBlocks)
  BY QueuesAreSeqs DEF MsgInv
\* b comes from the pool, so no queue holds it.
<1>3. \A s \in LiveQueues : \A k \in 1 .. Len(msgs[s]) :
         message'[msgs[s][k]] = message[msgs[s][k]]
  BY <1>1, <1>2, RangeIndexed DEF MsgInv, MsgTypeOK, MessageBlocksOwned
<1>4. \A s \in LiveQueues \ {q} : msgs'[s] = msgs[s]
  BY <1>1 DEF MsgInv, MsgTypeOK, LiveQueues
<1>5. \A i \in ResourceIds \ {id} : Channels'[i] = Channels[i]
  BY <1>1, <1>3, <1>4, OtherChannel
<1>6. CASE id \notin ResourceIds
  BY <1>5, <1>6, ChannelsKept
<1>7. CASE b \in stale_links
  <2>1. \A s \in LiveQueues : msgs'[s] = msgs[s]
    BY <1>1, <1>7
  <2>2. \A i \in ResourceIds : Channels'[i] = Channels[i]
    BY <1>1, <1>3, <2>1, OtherChannel
  <2> QED BY <2>2, ChannelsKept
<1>8. CASE id \in ResourceIds /\ b \notin stale_links
  <2>1. QueuesOf(id) = {q}
    BY <1>1, OneQueue DEF DescInv
  <2>2. QueuesOf(id)' = {q}
    BY <1>1, <2>1, NamesKept, QueuesOfLive
  <2>3. Channels[id] = Contents(q) /\ Channels'[id] = Contents(q)'
    BY <1>8, <2>1, <2>2, ChannelOpen
  <2>4. /\ Contents(q) \in Seq(Messages) /\ Contents(q) # NULL
        /\ Len(Contents(q)) = Len(msgs[q]) /\ Len(msgs[q]) \in Nat
        /\ \A k \in 1 .. Len(msgs[q]) : Contents(q)[k] = message[msgs[q][k]]
    BY <1>1, ContentsType
  <2>5. msgs'[q] = Append(msgs[q], b) /\ message'[b] = m
    BY <1>1, <1>2, <1>8 DEF MsgInv, MsgTypeOK
  <2>6. /\ Len(msgs'[q]) = Len(msgs[q]) + 1 /\ msgs'[q][Len(msgs[q]) + 1] = b
        /\ \A k \in 1 .. Len(msgs[q]) : msgs'[q][k] = msgs[q][k]
    BY <1>1, <1>2, <2>5
  <2>7. Contents(q)' = [k \in 1 .. Len(msgs'[q]) |-> message'[msgs'[q][k]]]
    BY DEF Contents
  <2>8. /\ Contents(q)' \in Seq(Messages) /\ Len(Contents(q)') = Len(msgs[q]) + 1
        /\ Contents(q)'[Len(msgs[q]) + 1] = m
        /\ \A k \in 1 .. Len(msgs[q]) : Contents(q)'[k] = Contents(q)[k]
    <3>1. ASSUME NEW k \in 1 .. Len(msgs[q])
          PROVE  message'[msgs'[q][k]] = Contents(q)[k] /\ Contents(q)[k] \in Messages
      BY <1>1, <1>3, <2>4, <2>6
    <3>2. message'[msgs'[q][Len(msgs[q]) + 1]] = m
      BY <2>5, <2>6
    <3>3. \A k \in 1 .. Len(msgs[q]) + 1 : k \in 1 .. Len(msgs[q]) \/ k = Len(msgs[q]) + 1
      BY <2>4
    <3>4. Contents(q)' \in [1 .. Len(msgs[q]) + 1 -> Messages]
      BY <2>6, <2>7, <3>1, <3>2, <3>3
    <3>5. Contents(q)' \in Seq(Messages) /\ Len(Contents(q)') = Len(msgs[q]) + 1
      BY <2>4, <3>4, FunctionSeq
    <3>6. \A k \in 1 .. Len(msgs[q]) + 1 : Contents(q)'[k] = message'[msgs'[q][k]]
      BY <2>6, <2>7
    <3>7. Len(msgs[q]) + 1 \in 1 .. Len(msgs[q]) + 1
      BY <2>4
    <3>8. \A k \in 1 .. Len(msgs[q]) : k \in 1 .. Len(msgs[q]) + 1
      BY <2>4
    <3>9. Contents(q)'[Len(msgs[q]) + 1] = m
      BY <3>2, <3>6, <3>7
    <3>10. \A k \in 1 .. Len(msgs[q]) : Contents(q)'[k] = Contents(q)[k]
      BY <3>1, <3>6, <3>8
    <3> QED BY <3>5, <3>9, <3>10
  <2>9. Contents(q)' = Append(Contents(q), m)
    BY <2>4, <2>8, ContentsAppend
  <2>10. Channels' = [Channels EXCEPT ![id] = Append(Channels[id], m)]
    BY <1>5, <1>8, <2>3, <2>9, ChannelsExcept
  <2>11. Len(Channels[id]) < M_FOR_MQ
    BY <1>1, <2>3, <2>4, QueueAssumption DEF MsgInv, QueuesBounded
  <2> QED BY <1>8, <2>3, <2>4, <2>10, <2>11 DEF Fifo!Next, Fifo!Send
<1> QED BY <1>6, <1>7, <1>8

\* A read receives from one channel.
LEMMA ReadReceives ==
    ASSUME DescInv, DescInv', MsgInv, MsgInv', Next, NEW q \in MqBlocks, MessageRead(q)
    PROVE  [Fifo!Next]_Channels
<1> PICK id : id = resource_id[q]
  OBVIOUS
<1>1. /\ LiveQueues' = LiveQueues /\ q \in LiveQueues /\ msgs[q] # <<>>
      /\ message' = [message EXCEPT ![Head(msgs[q])] = NULL]
      /\ msgs' = [msgs EXCEPT ![q] = Tail(msgs[q])]
  BY DEF MessageRead, DetachFirst
<1>2. /\ \A s \in LiveQueues : s \in MqBlocks /\ msgs[s] \in Seq(MsgBlocks)
      /\ Len(msgs[q]) \in Nat
  BY <1>1, QueuesAreSeqs, RangeIndexed DEF MsgInv
<1>3. /\ Head(msgs[q]) = msgs[q][1] /\ 1 \in 1 .. Len(msgs[q])
      /\ msgs'[q] = Tail(msgs[q]) /\ Len(msgs'[q]) = Len(msgs[q]) - 1
      /\ \A k \in 1 .. Len(msgs[q]) - 1 : msgs'[q][k] = msgs[q][k + 1]
      /\ \A s \in LiveQueues \ {q} : msgs'[s] = msgs[s]
  BY <1>1, <1>2 DEF MsgInv, MsgTypeOK
\* The block that leaves is at no other position.
<1>4. ASSUME NEW s \in LiveQueues, NEW k \in 1 .. Len(msgs[s]), s # q \/ k # 1
      PROVE  message'[msgs[s][k]] = message[msgs[s][k]]
  BY <1>1, <1>2, <1>3, <1>4, RangeIndexed DEF MsgInv, MsgTypeOK, MessageBlocksOwned
<1>5. \A i \in ResourceIds \ {id} : Channels'[i] = Channels[i]
  BY <1>1, <1>3, <1>4, OtherChannel
<1>6. CASE id \notin ResourceIds
  BY <1>5, <1>6, ChannelsKept
<1>7. CASE id \in ResourceIds
  <2>1. QueuesOf(id) = {q}
    BY <1>1, OneQueue DEF DescInv
  <2>2. QueuesOf(id)' = {q}
    BY <1>1, <2>1, NamesKept, QueuesOfLive
  <2>3. Channels[id] = Contents(q) /\ Channels'[id] = Contents(q)'
    BY <1>7, <2>1, <2>2, ChannelOpen
  <2>4. /\ Contents(q) \in Seq(Messages) /\ Contents(q) # NULL
        /\ Len(Contents(q)) = Len(msgs[q])
        /\ \A k \in 1 .. Len(msgs[q]) : Contents(q)[k] = message[msgs[q][k]]
    BY <1>1, ContentsType
  <2>5. Contents(q) # <<>>
    BY <1>2, <1>3, <2>4, EmptySeq
  <2>6. Contents(q)' = [k \in 1 .. Len(msgs'[q]) |-> message'[msgs'[q][k]]]
    BY DEF Contents
  <2>7. /\ Contents(q)' \in Seq(Messages) /\ Len(Contents(q)') = Len(msgs[q]) - 1
        /\ \A k \in 1 .. Len(msgs[q]) - 1 : Contents(q)'[k] = Contents(q)[k + 1]
    <3>1. ASSUME NEW k \in 1 .. Len(msgs[q]) - 1
          PROVE  /\ message'[msgs'[q][k]] = Contents(q)[k + 1]
                 /\ Contents(q)[k + 1] \in Messages
      <4>1. k + 1 \in 1 .. Len(msgs[q]) /\ k + 1 # 1
        BY <1>2
      <4>2. message'[msgs[q][k + 1]] = message[msgs[q][k + 1]]
        BY <1>1, <1>4, <4>1
      <4> QED BY <1>3, <2>4, <4>1, <4>2
    <3>2. Contents(q)' \in [1 .. Len(msgs[q]) - 1 -> Messages]
      BY <1>3, <2>6, <3>1
    <3>3. Contents(q)' \in Seq(Messages) /\ Len(Contents(q)') = Len(msgs[q]) - 1
      BY <1>2, <1>3, <3>2, FunctionSeq
    <3> QED BY <1>3, <2>6, <3>1, <3>3
  <2>8. Contents(q)' = Tail(Contents(q))
    BY <2>4, <2>5, <2>7, ContentsTail
  <2>9. Channels' = [Channels EXCEPT ![id] = Tail(Channels[id])]
    BY <1>5, <1>7, <2>3, <2>8, ChannelsExcept
  <2> QED BY <1>7, <2>3, <2>4, <2>5, <2>9 DEF Fifo!Next, Fifo!Receive
<1> QED BY <1>6, <1>7
-----------------------------------------------------------------------------
\* Initially all channels are closed.
LEMMA FifoInit == Init => Fifo!Init
<1> SUFFICES ASSUME Init PROVE Fifo!Init
  OBVIOUS
<1>1. \A id \in ResourceIds : QueuesOf(id) = {}
  BY DEF Init, QueuesOf, Named
<1>2. \A id \in ResourceIds : Channels[id] = NULL
  BY <1>1, ChannelClosed
<1> QED BY <1>2, ChannelsFunction DEF Fifo!Init

\* Every step is a step of one channel or leaves all as they are.
LEMMA FifoStep ==
    DescInv /\ DescInv' /\ MsgInv /\ MsgInv' /\ [Next]_vars => [Fifo!Next]_Channels
<1> SUFFICES ASSUME DescInv, DescInv', MsgInv, MsgInv', [Next]_vars
             PROVE  [Fifo!Next]_Channels
  OBVIOUS
<1>1. CASE UNCHANGED vars
  BY <1>1 DEF vars, mqVars, msgVars, listVars, Channels, QueuesOf, Named, Contents
<1>2. CASE Next /\ QueueUnchanged
  BY <1>2, OtherChannel, ChannelsKept DEF QueueUnchanged, msgVars
<1> QED BY <1>1, <1>2, QueueCases, CreateOpensChannel, DestroyClosesChannel, WriteSends,
           ReadReceives DEF QueueStep

\* Whatever processes open, close, destroy and exit, each message queue is a
\* bounded channel: it delivers what it stored, in order, once, unchanged, and
\* to readers of no other queue.
THEOREM QueuesImplementChannels == Spec => FifoSpec
<1> QED BY FifoInit, FifoStep, DescInvariance, MsgInvariance, PTL
        DEF Spec, FifoSpec, Fifo!Spec
=============================================================================
