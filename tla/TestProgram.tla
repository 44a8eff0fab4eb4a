----------------------------- MODULE TestProgram -----------------------------
(* disastrOS_test_mq.c on the kernel of Kernel.tla: an init, a sleeper, and  *)
(* for each of two message queues a writer and a reader.                     *)
(*                                                                           *)
(* A step of a process is a system call and what it does with the result,    *)
(* which no other process can change, or a half of the increment of a        *)
(* counter: the build is without -O, so counters[k]++ is a load, an addition *)
(* and a store.  The timer interrupts between any two steps.  The sleeper is *)
(* in getc all the time and takes none.                                      *)
EXTENDS DisastrOSConstants, Sequences, FiniteSets, Functions

CONSTANTS
    NULL, AnyChild, NoPid, MqBlocks, MsgBlocks, Descriptors,
    NumQueues,    \* 2 in the code
    Iterations,   \* of a writer; 10 in the code
    SleepBase,    \* a process sleeps for (SleepBase - pid) * SleepScale ticks
    SleepScale,
    PreemptAt     \* bound: where the timer interrupts a process

\* The blocks of the PCB pool go out in order and none is used again, so a
\* block is known by the pid of its process.
init    == 0
sleeper == 1
writers == {2 * q : q \in 1 .. NumQueues}
readers == {w + 1 : w \in writers}
PCBs    == {init, sleeper} \cup writers \cup readers

\* args: the index of the queue.
queue_of(p)  == (p - 2) \div 2

SleepTicks(p) == (SleepBase - p) * SleepScale
Text(p)       == [text |-> p, length |-> 1]
Texts         == {Text(w) : w \in writers}

ASSUME ProgramAssumption ==
    /\ NumQueues \in Nat \ {0} /\ Iterations \in Nat \ {0}
    /\ SleepBase \in Int /\ SleepScale \in Int
    /\ NULL \notin Nat \cup MqBlocks \cup Texts \cup Seq(Texts)
    /\ {AnyChild, NoPid} \cap (Nat \cup {NULL}) = {} /\ AnyChild # NoPid
    /\ IsFiniteSet(MqBlocks) /\ IsFiniteSet(Descriptors)
    /\ Cardinality(Descriptors) >= 3 * NumQueues   \* one for each open

VARIABLES
    machine, pcbs, pcbptr_pool, syscall_retvalue,
    msgs, message, m_pool, stale_links, reading_pid, writing_pid,
    resources_list, resource_id, descriptors_ptrs, desc, descriptors,
    descptr_pool, last_fd, return_value,
    running, init_pcb, ready_list, waiting_list, zombie_list, timer_list,
    status, parent, children, signals, awaits, no_context, returned,
    pc,        \* what each process does next
    fd,        \* of each child
    resources, \* the array of init
    i,         \* loop variables; in init also alive_children
    register,  \* the counter that a process loaded and incremented
    counters   \* messages written and messages read

kernelVars == <<machine, pcbs, pcbptr_pool, syscall_retvalue,
    msgs, message, m_pool, stale_links, reading_pid, writing_pid,
    resources_list, resource_id, descriptors_ptrs, desc, descriptors,
    descptr_pool, last_fd, return_value,
    running, init_pcb, ready_list, waiting_list, zombie_list, timer_list,
    status, parent, children, signals, awaits, no_context, returned>>
vars == <<kernelVars, pc, fd, resources, i, register, counters>>

Kernel == INSTANCE Kernel WITH
    InitPCB <- init,
    NumPCBPtrs <- 1 + 4 * NumQueues,   \* enough: the children and the roles
    StdBlocks <- {},
    ResourceIds <- 0 .. NumQueues - 1,
    Messages <- Texts,
    M_FOR_MQ <- Iterations,   \* 128 in the code: no write finds a full queue
    MESSAGE_STRING_MAX_LENGTH <- 1,
    BufferSizes <- {1},
    MaxFd <- NumQueues,
    SleepTimes <- {SleepTicks(p) : p \in writers \cup readers},
    CallModes <- {DSOS_CREATE, DSOS_READ, DSOS_WRITE},
    AwaitedPids <- {AnyChild},
    ExitValues <- {p + 1 : p \in PCBs}

Init ==
    /\ Kernel!Init
    /\ pc = [p \in PCBs |-> CASE p = init -> "sleeper" [] p = sleeper -> "getc"
                             [] OTHER -> "open"]
    /\ fd = [p \in PCBs |-> 0]
    /\ resources = <<>>
    /\ i = [p \in PCBs |-> 0]
    /\ register = [p \in PCBs |-> 0]
    /\ counters = [k \in {"written", "read"} |-> 0]
-----------------------------------------------------------------------------
At(p, label)   == running = p /\ machine = "up" /\ pc[p] = label
GoTo(p, label) == pc' = [pc EXCEPT ![p] = label]

\* The result of the call that p makes in this step.
res(p) == syscall_retvalue'[p]

\* assert(res >= 0)
Asserted(p, label) == GoTo(p, IF res(p) >= 0 THEN label ELSE "abort")

\* Which free block a call takes makes no difference here: one is enough.
OneOf(free, left) == left # free => left = free \ {CHOOSE b \in free : TRUE}

Opens(p, id, mode) ==
    LET Free(ds) == Descriptors \ UNION {ds[x] : x \in PCBs}
    IN  /\ Kernel!disastrOS_openResource(id, MESSAGE_QUEUE_TYPE, mode)
        /\ OneOf(Free(descriptors), Free(descriptors'))
        /\ OneOf(MqBlocks \ resources_list, MqBlocks \ resources_list')

\* Fault: a reader says that it writes.
role_Writers(p) == DSOS_WRITE

role(p)    == IF p \in readers THEN DSOS_READ ELSE DSOS_WRITE
counter(p) == IF p \in readers THEN "read" ELSE "written"

\* What a reader and a writer have in common.
Open(p) ==
    /\ At(p, "open")
    /\ Opens(p, resources[queue_of(p) + 1], role(p))
    /\ fd' = [fd EXCEPT ![p] = res(p)]
    /\ Asserted(p, IF p \in readers THEN "read" ELSE "write")
    /\ UNCHANGED <<resources, i, register, counters>>

\* counters[k]++
Load(p) ==
    /\ At(p, "load")
    /\ register' = [register EXCEPT ![p] = counters[counter(p)] + 1]
    /\ GoTo(p, "store")
    /\ UNCHANGED <<kernelVars, fd, resources, i, counters>>

Store(p) ==
    /\ At(p, "store")
    /\ counters' = [counters EXCEPT ![counter(p)] = register[p]]
    /\ GoTo(p, "sleep")
    /\ UNCHANGED <<kernelVars, fd, resources, i, register>>

\* Back to the head of the loop.
Sleep(p) ==
    /\ At(p, "sleep")
    /\ Kernel!disastrOS_sleep(SleepTicks(p))
    /\ GoTo(p, CASE p \in readers -> "read"
                [] p \in writers /\ i[p] < Iterations -> "write"
                [] OTHER -> "close")
    /\ UNCHANGED <<fd, resources, i, register, counters>>

Close(p) ==
    /\ At(p, "close")
    /\ Kernel!disastrOS_closeResource(fd[p], role(p))
    /\ Asserted(p, "exit")
    /\ UNCHANGED <<fd, resources, i, register, counters>>

Exit(p) ==
    /\ At(p, "exit")
    /\ Kernel!disastrOS_exit(p + 1)
    /\ GoTo(p, "gone")
    /\ UNCHANGED <<fd, resources, i, register, counters>>

\* Fault: the reader gives up whenever it finds no message.
GivesUp_NoMessage(result) ==
    result \in {DSOS_MESSAGEQUEUEEMPTY, DSOS_WAITINGFORMESSAGE}

GivesUp(result) == result = DSOS_MESSAGEQUEUEEMPTY

\* Fault: a case of the switch is missing.
TriesAgain_TooLong(result) == result = DSOS_MESSAGELENGTHNOTVALID

TriesAgain(result) ==
    result \in {DSOS_WAITINGFORMESSAGE, DSOS_MESSAGELENGTHNOTVALID}

\* The default counts a message, whatever else the result is.
Read(p) ==
    /\ At(p, "read")
    /\ Kernel!disastrOS_mq_read(fd[p], 1)
    /\ GoTo(p, CASE GivesUp(res(p)) -> "close"
                [] ~ GivesUp(res(p)) /\ TriesAgain(res(p)) -> "sleep"
                [] OTHER -> "load")
    /\ UNCHANGED <<fd, resources, i, register, counters>>

\* A full queue takes i back (i--); an error on the resource ends the loop.
Write(p) ==
    /\ At(p, "write")
    /\ Kernel!disastrOS_mq_write(fd[p], Text(p))
    /\ OneOf(m_pool, m_pool')
    /\ IF res(p) = DSOS_MESSAGEQUEUEFULL THEN UNCHANGED i
                                        ELSE i' = [i EXCEPT ![p] = @ + 1]
    /\ GoTo(p, CASE res(p) \in {DSOS_RESOURCENOTFOUND, DSOS_ERESOURCETYPEWRONG}
                      -> "close"
                [] res(p) \in {DSOS_MESSAGELENGTHNOTVALID, DSOS_MESSAGEQUEUEFULL}
                      -> "sleep"
                [] OTHER -> "load")
    /\ UNCHANGED <<fd, resources, register, counters>>

Common(p) == Open(p) \/ Load(p) \/ Store(p) \/ Sleep(p) \/ Close(p) \/ Exit(p)

read_childFunction(p)  == p \in readers /\ (Common(p) \/ Read(p))
write_childFunction(p) == p \in writers /\ (Common(p) \/ Write(p))
-----------------------------------------------------------------------------
Spawn(p) == Kernel!disastrOS_spawn /\ pcbs' = pcbs \cup {p}

SpawnSleeper ==
    /\ At(init, "sleeper")
    /\ Spawn(sleeper)
    /\ GoTo(init, "create")
    /\ UNCHANGED <<fd, resources, i, register, counters>>

\* The fds go where the children look for the ids; the two are the same.
Create ==
    /\ At(init, "create")
    /\ Opens(init, i[init], DSOS_CREATE)
    /\ resources' = Append(resources, res(init))
    /\ IF i[init] < NumQueues - 1
         THEN i' = [i EXCEPT ![init] = @ + 1] /\ Asserted(init, "create")
         ELSE i' = [i EXCEPT ![init] = 2] /\ Asserted(init, "spawn")
    /\ UNCHANGED <<fd, register, counters>>

\* i is the pid to come; after the last one, alive_children.
SpawnChildren ==
    /\ At(init, "spawn")
    /\ Spawn(i[init])
    /\ IF i[init] + 1 \in PCBs
         THEN i' = [i EXCEPT ![init] = @ + 1] /\ GoTo(init, "spawn")
         ELSE i' = [i EXCEPT ![init] = 2 * NumQueues] /\ GoTo(init, "wait")
    /\ UNCHANGED <<fd, resources, register, counters>>

Wait ==
    /\ At(init, "wait")
    /\ Kernel!disastrOS_wait(AnyChild)
    /\ GoTo(init, "waited")
    /\ UNCHANGED <<fd, resources, i, register, counters>>

Waited ==
    /\ At(init, "waited")
    /\ IF syscall_retvalue[init] >= 0 /\ i[init] > 1
         THEN i' = [i EXCEPT ![init] = @ - 1] /\ GoTo(init, "wait")
         ELSE i' = [i EXCEPT ![init] = 1] /\ GoTo(init, "destroy")
    /\ UNCHANGED <<kernelVars, fd, resources, register, counters>>

\* The results are not looked at.
Destroy ==
    /\ At(init, "destroy")
    /\ Kernel!disastrOS_destroyResource(resources[i[init]])
    /\ i' = [i EXCEPT ![init] = @ + 1]
    /\ GoTo(init, IF i[init] < NumQueues THEN "destroy" ELSE "shutdown")
    /\ UNCHANGED <<fd, resources, register, counters>>

Shutdown ==
    /\ At(init, "shutdown")
    /\ Kernel!disastrOS_shutdown
    /\ GoTo(init, "gone")
    /\ UNCHANGED <<fd, resources, i, register, counters>>

initFunction ==
    SpawnSleeper \/ Create \/ SpawnChildren \/ Wait \/ Waited \/ Destroy \/ Shutdown

timerInterrupt ==
    /\ <<running, pc[running]>> \in PreemptAt
    /\ Kernel!timerInterrupt
    /\ UNCHANGED <<pc, fd, resources, i, register, counters>>

Next ==
    \/ initFunction
    \/ \E p \in PCBs : read_childFunction(p) \/ write_childFunction(p)
    \/ timerInterrupt

\* A tick is 100 ms: a process that runs again and again gets on in between.
Spec ==
    /\ Init /\ [][Next]_vars
    /\ WF_vars(timerInterrupt)
    /\ SF_vars(initFunction)
    /\ \A p \in PCBs : SF_vars(read_childFunction(p) \/ write_childFunction(p))
-----------------------------------------------------------------------------
\* No assert of the program fails, whatever the timer interrupts.
AssertsHold == \A p \in DOMAIN pc : pc[p] # "abort"

\* The program comes to its shutdown: no call crashes, no reader waits for a
\* message that does not come, no exit is missed by init.
ProgramEnds == <>(machine = "off")

\* A queue delivers all or nothing: a reader that came before its writer has
\* gone without a message, any other stays to the last one.
AllOrNothing ==
    machine = "off" =>
        \A q \in resources_list :
            LET written == i[2 * resource_id[q] + 2]   \* of the writer of q
            IN  written >= Iterations /\ Len(msgs[q]) \in {0, written}

\* The children between their open and their close.
HasOpen(p) == pc[p] \in {"read", "write", "load", "store", "sleep", "close"}

\* A queue is held by its own reader and its own writer, each from its open to its
\* close and no longer, whatever the timer interrupts: the PCB of a role is never
\* one that is gone, no close drops the role of the other one, and no role is
\* left behind.
RolesFollowOpens ==
    machine = "up" =>
        \A q \in resources_list :
            LET w == 2 * resource_id[q] + 2   \* the writer of q; its reader is next
            IN  /\ writing_pid[q] = IF HasOpen(w) THEN w ELSE NULL
                /\ reading_pid[q] = IF HasOpen(w + 1) THEN w + 1 ELSE NULL

\* The statistics never claim a message that was not written or read: no error
\* falls through to the default of a switch, and a torn increment loses counts
\* but never makes one.
CountersNeverAhead ==
    LET stored == SumFunction([w \in writers \cap DOMAIN i |-> i[w]])
        queued == SumFunction([q \in MqBlocks |-> Len(msgs[q])])
    IN  /\ counters["written"] <= stored
        /\ counters["read"] <= stored - queued
=============================================================================
