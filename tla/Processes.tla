------------------------------ MODULE Processes ------------------------------
(* The processes of DisastrOS: creation, exit, wait, sleep, the timers and   *)
(* the round-robin scheduler.  A system call runs with SIGALRM masked, so a  *)
(* handler is one step; between two of them the running process may be       *)
(* interrupted by the timer.                                                 *)
(*                                                                           *)
(* A pid is never used twice, so it is modelled by the block of the PCB it   *)
(* names while that PCB is allocated.  Timers hold the ticks left instead of *)
(* the tick at which they elapse.  A call that dereferences NULL, or starts  *)
(* a process whose cpu_state was never set, ends the machine with "segv".    *)
EXTENDS DisastrOSConstants, TimerLists

CONSTANTS
    PCBs,        \* blocks of the PCB pool; the TimerItem pool has as many
    NULL,
    InitPCB,     \* the first block
    NumPCBPtrs,  \* blocks of the PCBPtr pool
    AnyChild,    \* the pid 0 given to wait
    NoPid,       \* a pid given to wait that no process has
    SleepTimes,  \* what programs pass to sleep
    OtherResults \* what the calls on resources return

ASSUME ProcessAssumption ==
    /\ IsFiniteSet(PCBs)
    /\ InitPCB \in PCBs
    /\ NULL \notin PCBs \cup {AnyChild, NoPid}
    /\ AnyChild # NoPid /\ AnyChild \notin PCBs /\ NoPid \notin PCBs
    /\ NumPCBPtrs \in Nat
    /\ SleepTimes \subseteq Int

VARIABLES
    machine,       \* "up", "segv", "hang" (a loop with SIGALRM masked) or "off"
    running,       \* the running process, NULL when all of them wait
    init_pcb,
    ready_list,
    waiting_list,  \* nothing depends on the order of this list or the next
    zombie_list,
    timer_list,    \* [pcb, left] with the ticks left
    pcbs,          \* allocated PCBs
    status,        \* pcb->status; exit reads it in freed blocks too
    parent,        \* pcb->parent
    children,      \* pcb->children, first to last
    signals,       \* pcb->signals
    awaits,        \* the pid a process that blocked in wait asked for, else NULL
    no_context,    \* blocks whose cpu_state was never set
    returned,      \* processes whose function returned: allocated, in no list
    pcbptr_pool,   \* number of free blocks of the PCBPtr pool
    syscall_retvalue

lists  == <<ready_list, waiting_list, zombie_list>>
family == <<pcbs, parent, children>>
vars == <<machine, running, init_pcb, lists, timer_list, family, status, signals,
          awaits, no_context, returned, pcbptr_pool, syscall_retvalue>>

Init ==
    /\ machine = "up"
    /\ running = InitPCB
    /\ init_pcb = InitPCB
    /\ ready_list = <<>>
    /\ waiting_list = {}
    /\ zombie_list = {}
    /\ timer_list = <<>>
    /\ pcbs = {InitPCB}
    /\ status = [b \in PCBs |-> IF b = InitPCB THEN "Running" ELSE "Created"]
    /\ parent = [b \in PCBs |-> NULL]
    /\ children = [b \in PCBs |-> <<>>]
    /\ signals = [b \in PCBs |-> {}]
    /\ awaits = [b \in PCBs |-> NULL]
    /\ no_context = PCBs \ {InitPCB}
    /\ returned = {}
    /\ pcbptr_pool = NumPCBPtrs
    /\ syscall_retvalue = [b \in PCBs |-> 0]
-----------------------------------------------------------------------------
Stop(how) ==
    /\ machine' = how
    /\ UNCHANGED <<running, init_pcb, lists, timer_list, family, status, signals,
                   awaits, no_context, returned, pcbptr_pool, syscall_retvalue>>

Segv == Stop("segv")

\* The running process is in user mode: it may call, return or be interrupted.
UserMode == machine = "up" /\ running # NULL

Return(v) == syscall_retvalue' = [syscall_retvalue EXCEPT ![running] = v]

\* setcontext to a process; one that fork made has no context of its own, and
\* in a block that was used before continues where the old process stopped.
Dispatch(p) ==
    /\ running' = p
    /\ machine' = IF p \in no_context THEN "segv" ELSE machine

\* Fault: an exit frees the block before wait does.
FreeBlocks_Zombies == (PCBs \ pcbs) \cup zombie_list

FreeBlocks == PCBs \ pcbs

\* PCB_alloc and PCBPtr_alloc dereference the NULL they may get: the check of
\* spawn and fork for it comes too late.
NoRoom == FreeBlocks = {} \/ pcbptr_pool = 0

NewChild(b) ==
    /\ ~ NoRoom
    /\ b \in FreeBlocks
    /\ pcbs' = pcbs \cup {b}
    /\ status' = [status EXCEPT ![b] = "Ready"]
    /\ parent' = [parent EXCEPT ![b] = running]
    /\ children' = [children EXCEPT ![b] = <<>>, ![running] = Append(@, b)]
    /\ signals' = [signals EXCEPT ![b] = {}]
    /\ ready_list' = Append(ready_list, b)
    /\ pcbptr_pool' = pcbptr_pool - 1
    /\ Return(b)
    /\ UNCHANGED <<machine, running, init_pcb, waiting_list, zombie_list, timer_list,
                   awaits, returned>>

internal_spawn ==
    /\ UserMode
    /\ \/ NoRoom /\ Segv
       \/ \E b \in PCBs : NewChild(b) /\ no_context' = no_context \ {b}

internal_fork ==
    /\ UserMode
    /\ \/ NoRoom /\ Segv
       \/ \E b \in PCBs : NewChild(b) /\ UNCHANGED no_context
-----------------------------------------------------------------------------
\* exit, lines 20-33: the children go to the end of init's list, with SIGHUP.
\* Their parent field is left as it is.
AfterReparenting == [children EXCEPT ![running] = <<>>,
                                     ![init_pcb] = @ \o children[running]]

\* Fault: only the parent is signalled.
ExitSignals_NoHangup ==
    [b \in PCBs |-> signals[b] \cup (IF b = parent[running] THEN {"SIGCHLD"} ELSE {})]

\* Lines 29-37: each child and the parent, as the parent field names it.
ExitSignals ==
    [b \in PCBs |-> signals[b]
        \cup (IF b \in ToSet(children[running]) THEN {"SIGHUP"} ELSE {})
        \cup (IF b = parent[running] THEN {"SIGCHLD"} ELSE {})]

\* Fault: only a wait for any child counts.
ParentAwaits_AnyOnly ==
    LET p == parent[running]
    IN  status[p] = "Waiting" /\ awaits[p] = AnyChild

\* The parent field may name a block that was freed, or used again, since.
ParentAwaits ==
    LET p == parent[running]
    IN  status[p] = "Waiting" /\ awaits[p] \in {AnyChild, running}

\* init moves its first child to the end of its own list, for ever.
ExitHangs ==
    /\ running = init_pcb /\ children[running] # <<>>
    /\ Stop("hang")

\* No parent; or a parent that does not list the process; or nobody to run.
ExitCrashes ==
    /\ ~ (running = init_pcb /\ children[running] # <<>>)
    /\ \/ parent[running] = NULL
       \/ /\ parent[running] # NULL /\ ParentAwaits
          /\ running \notin ToSet(AfterReparenting[parent[running]])
       \/ /\ parent[running] # NULL /\ ~ ParentAwaits
          /\ ready_list = <<>>
    /\ Segv

\* Fault: the child stays in the list.
Unlisted_Not(lists_, p, b) == lists_

\* The children lists after b is detached from that of p.
Unlisted(lists_, p, b) == [lists_ EXCEPT ![p] = RemoveFirst(@, b)]

\* The process is gone and its parent runs.  The PCBPtr is detached, not freed.
ExitWakesParent ==
    LET p == parent[running]
    IN  /\ p # NULL /\ running # init_pcb
        /\ ParentAwaits
        /\ running \in ToSet(AfterReparenting[p])
        /\ children' = Unlisted(AfterReparenting, p, running)
        /\ signals' = ExitSignals
        /\ status' = [status EXCEPT ![running] = "Zombie", ![p] = "Running"]
        /\ waiting_list' = waiting_list \ {p}
        /\ awaits' = [awaits EXCEPT ![p] = NULL]
        /\ timer_list' = WithoutTimersOf(timer_list, running)
        /\ pcbs' = pcbs \ {running}
        /\ parent' = [parent EXCEPT ![running] = NULL]
        /\ syscall_retvalue' = [syscall_retvalue EXCEPT ![p] = running]
        /\ Dispatch(p)
        /\ UNCHANGED <<init_pcb, ready_list, zombie_list, no_context, returned,
                       pcbptr_pool>>

ExitToZombie ==
    /\ parent[running] # NULL /\ running # init_pcb
    /\ ~ ParentAwaits
    /\ ready_list # <<>>
    /\ children' = AfterReparenting
    /\ signals' = ExitSignals
    /\ zombie_list' = zombie_list \cup {running}
    /\ status' = [status EXCEPT ![running] = "Zombie", ![Head(ready_list)] = "Running"]
    /\ ready_list' = Tail(ready_list)
    /\ Dispatch(Head(ready_list))
    /\ UNCHANGED <<init_pcb, waiting_list, timer_list, pcbs, parent, awaits, no_context,
                   returned, pcbptr_pool, syscall_retvalue>>

internal_exit ==
    /\ UserMode
    /\ ExitHangs \/ ExitCrashes \/ ExitWakesParent \/ ExitToZombie
-----------------------------------------------------------------------------
\* The child the scan of wait ends at: the first zombie, or the one asked for;
\* when there is none the last child, whatever was asked for.
Scanned(pid) ==
    LET c == children[running]
        i == SelectInSeq(c, LAMBDA b : IF pid = AnyChild THEN status[b] = "Zombie"
                                                         ELSE b = pid)
    IN  IF i = 0 THEN Last(c) ELSE c[i]

WaitNoChildren ==
    /\ children[running] = <<>>
    /\ Return(DSOS_EWAIT)
    /\ UNCHANGED <<machine, running, init_pcb, lists, timer_list, family, status,
                   signals, awaits, no_context, returned, pcbptr_pool>>

WaitReaps(pid) ==
    /\ children[running] # <<>>
    /\ status[Scanned(pid)] = "Zombie"
    /\ children' = Unlisted(children, running, Scanned(pid))
    /\ pcbptr_pool' = pcbptr_pool + 1
    /\ zombie_list' = zombie_list \ {Scanned(pid)}
    /\ pcbs' = pcbs \ {Scanned(pid)}
    /\ parent' = [parent EXCEPT ![Scanned(pid)] = NULL]
    /\ Return(Scanned(pid))
    /\ UNCHANGED <<machine, running, init_pcb, ready_list, waiting_list, timer_list,
                   status, signals, awaits, no_context, returned>>

\* The next process keeps the status Ready while it runs.
WaitBlocks(pid) ==
    /\ children[running] # <<>>
    /\ status[Scanned(pid)] # "Zombie"
    /\ ready_list # <<>>
    /\ status' = [status EXCEPT ![running] = "Waiting"]
    /\ waiting_list' = waiting_list \cup {running}
    /\ awaits' = [awaits EXCEPT ![running] = pid]
    /\ ready_list' = Tail(ready_list)
    /\ Dispatch(Head(ready_list))
    /\ UNCHANGED <<init_pcb, zombie_list, timer_list, family, signals, no_context,
                   returned, pcbptr_pool, syscall_retvalue>>

\* List_detach of the first of no ready processes.
WaitCrashes(pid) ==
    /\ children[running] # <<>>
    /\ status[Scanned(pid)] # "Zombie"
    /\ ready_list = <<>>
    /\ Segv

internal_wait(pid) ==
    /\ UserMode
    /\ WaitNoChildren \/ WaitReaps(pid) \/ WaitBlocks(pid) \/ WaitCrashes(pid)
-----------------------------------------------------------------------------
\* pcb->timer is never set, so its check cannot refuse a call.
internal_sleep(ticks) ==
    /\ UserMode
    /\ IF Len(timer_list) = Cardinality(PCBs)
         THEN /\ Return(DSOS_ESLEEP)
              /\ UNCHANGED <<machine, running, lists, timer_list, status>>
         ELSE /\ timer_list' = TimerList_add(timer_list, ticks, running)
              /\ status' = [status EXCEPT ![running] = "Waiting"]
              /\ waiting_list' = waiting_list \cup {running}
              /\ IF ready_list = <<>>
                   THEN running' = NULL /\ UNCHANGED <<machine, ready_list>>
                   ELSE /\ Dispatch(Head(ready_list))
                        /\ ready_list' = Tail(ready_list)
              /\ UNCHANGED <<zombie_list, syscall_retvalue>>
    /\ UNCHANGED <<init_pcb, family, signals, awaits, no_context, returned, pcbptr_pool>>

\* Fault: the preempted process is the next to run.
Requeued_First(queue, p) == <<p>> \o Tail(queue)

\* The first of the queue leaves it and p goes to its end.
Requeued(queue, p) == Append(Tail(queue), p)

\* internal_schedule with the timers in list: the elapsed ones wake their
\* processes to the front of the ready list, in order; then the running
\* process goes to the end and the first one runs.
internal_schedule(list) ==
    LET woken == [i \in DOMAIN Elapsed(list) |-> Elapsed(list)[i].pcb]
        ready == woken \o ready_list
        awake == [b \in PCBs |-> IF b \in ToSet(woken) THEN "Ready" ELSE status[b]]
    IN  /\ timer_list' = Remaining(list)
        /\ waiting_list' = waiting_list \ ToSet(woken)
        /\ IF ready = <<>>
             THEN UNCHANGED <<machine, running, ready_list, status>>
             ELSE /\ Dispatch(Head(ready))
                  /\ ready_list' = Requeued(ready, running)
                  /\ status' = [awake EXCEPT ![running] = "Ready",
                                             ![Head(ready)] = "Running"]
        /\ UNCHANGED <<init_pcb, zombie_list, family, signals, awaits, no_context,
                       returned, pcbptr_pool, syscall_retvalue>>

internal_preempt == UserMode /\ internal_schedule(timer_list)

\* With no running process timerHandler saves the context through NULL; so does
\* the log of disastrOS_trap, when there is one.
timerInterrupt ==
    /\ machine = "up"
    /\ \/ running # NULL /\ internal_schedule(Ticked(timer_list))
       \/ running = NULL /\ Segv

\* main_context continues disastrOS_start after the lists are set up.  The trap
\* gets there when nobody runs and a process when its function returns: the
\* system goes on with a second init process.
disastrOS_start_again ==
    /\ machine = "up"
    /\ \/ FreeBlocks = {} /\ Segv
       \/ \E b \in FreeBlocks :
            /\ pcbs' = pcbs \cup {b}
            /\ returned' = returned \cup ({running} \ {NULL})
            /\ running' = b
            /\ init_pcb' = b
            /\ status' = [status EXCEPT ![b] = "Running"]
            /\ parent' = [parent EXCEPT ![b] = NULL]
            /\ children' = [children EXCEPT ![b] = <<>>]
            /\ signals' = [signals EXCEPT ![b] = {}]
            /\ no_context' = no_context \ {b}
            /\ UNCHANGED <<machine, lists, timer_list, awaits, pcbptr_pool,
                           syscall_retvalue>>

internal_shutdown ==
    /\ UserMode
    /\ Stop("off")

\* A call on resources (Resources.tla): an open may take a PCBPtr, and several
\* may dereference NULL.
resource_call ==
    /\ UserMode
    /\ \/ Segv
       \/ /\ \E n \in {0, 1} : n <= pcbptr_pool /\ pcbptr_pool' = pcbptr_pool - n
          /\ \E v \in OtherResults : Return(v)
          /\ UNCHANGED <<machine, running, init_pcb, lists, timer_list, family, status,
                         signals, awaits, no_context, returned>>

\* What a program may pass to wait: the pid of InitPCB is 0, which wait takes
\* for any child.
Pids == (pcbs \ {InitPCB}) \cup {AnyChild, NoPid}

Next ==
    \/ internal_spawn
    \/ internal_fork
    \/ internal_exit
    \/ \E pid \in Pids : internal_wait(pid)
    \/ \E ticks \in SleepTimes : internal_sleep(ticks)
    \/ internal_preempt
    \/ timerInterrupt
    \/ disastrOS_start_again
    \/ internal_shutdown
    \/ resource_call

\* setitimer rearms ITIMER_REAL for ever, and SIGALRM is delivered when the
\* process is back in user mode.  Nothing is assumed of what programs call.
Spec == Init /\ [][Next]_vars /\ WF_vars(timerInterrupt)
-----------------------------------------------------------------------------
Timed == {timer_list[i].pcb : i \in DOMAIN timer_list}

\* A process is allocated exactly when it runs, or is in one of the three
\* lists, or has returned to main_context; it is in one of these places only,
\* and its status says which list.
EachInOnePlace ==
    LET places == <<{running} \ {NULL}, ToSet(ready_list), waiting_list, zombie_list,
                    returned>>
    IN  /\ UNION ToSet(places) = pcbs
        /\ \A i, j \in DOMAIN places : i # j => places[i] \cap places[j] = {}
        /\ Cardinality(ToSet(ready_list)) = Len(ready_list)
        /\ \A b \in ToSet(ready_list) : status[b] = "Ready"
        /\ \A b \in waiting_list : status[b] = "Waiting"
        /\ \A b \in zombie_list : status[b] = "Zombie"

\* The family tree survives exits, adoptions and the reuse of blocks: a process
\* other than the inits is in exactly one list of children, once, of a process
\* that still exists, so wait never follows a pointer to a freed PCB.
EachChildListedOnce ==
    LET edges == UNION {{r} \X DOMAIN children[r] : r \in PCBs}
    IN  /\ \A e \in edges : e[1] \in pcbs /\ children[e[1]][e[2]] \in pcbs
        /\ \A b \in pcbs : parent[b] # NULL =>
              Cardinality({e \in edges : children[e[1]][e[2]] = b}) = 1
        /\ \A e \in edges : parent[children[e[1]][e[2]]] # NULL

\* sleep and the scheduler agree: exactly the processes that wait without
\* having called wait have a timer, one each, and the list is ordered, so the
\* scheduler may stop at the first timer that has not elapsed.
TimersMatchSleepers ==
    /\ Timed = {b \in waiting_list : awaits[b] = NULL}
    /\ Cardinality(Timed) = Len(timer_list)
    /\ \A i, j \in DOMAIN timer_list : i < j => timer_list[i].left <= timer_list[j].left

\* No exit falls between the check of wait and its sleep: a process that waits
\* for a child it created never has that child among the zombies.
NoMissedExit ==
    \A p \in waiting_list, b \in zombie_list :
        awaits[p] \in {AnyChild, b} /\ b \in ToSet(children[p]) => parent[b] # p

\* exit tells the family: an adopted child has had SIGHUP, and the parent of a
\* zombie that it can still reap has had SIGCHLD.
FamilySignalled ==
    \A p \in pcbs : \A b \in ToSet(children[p]) :
        /\ parent[b] # p => "SIGHUP" \in signals[b]
        /\ parent[b] = p /\ b \in zombie_list => "SIGCHLD" \in signals[p]

\* Round robin: a ready process runs, although sleepers wake in front of it and
\* exit hands the processor to the parent past it.
ReadyRuns ==
    \A b \in PCBs : b \in ToSet(ready_list) ~> running = b \/ machine # "up"

\* A sleeping process wakes.
SleepersWake ==
    \A b \in PCBs : b \in Timed ~> b \notin Timed \/ machine # "up"
-----------------------------------------------------------------------------
\* What the repository says and the code does not do.

\* disastrOS_wait.c:33: waiting for a process not in the child list is an
\* error; so nobody is blocked for one.
WaitsForChild ==
    \A p \in waiting_list :
        awaits[p] \notin {NULL, AnyChild} => awaits[p] \in ToSet(children[p])

\* disastrOS_exit.c:10-14: children are reparented to init, and the parent is
\* awakened if it was waiting; so no process, init included, waits for a child
\* that is a zombie.
AdoptedExitSeen ==
    \A p \in waiting_list, b \in zombie_list :
        ~ (awaits[p] \in {AnyChild, b} /\ b \in ToSet(children[p]))
=============================================================================
