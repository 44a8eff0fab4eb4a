# A TLA+ model of DisastrOS with message queues

DisastrOS is a user-level operating system simulator: processes are `ucontext`s
whose stacks live in their PCBs, a system call is a `swapcontext` to a trap
context with `SIGALRM` masked, and `setitimer` drives a round-robin scheduler.
This version adds message queues as a resource type. The project here models its
kernel in TLA+, checks it with TLC and proves theorems about it with TLAPS.

## 1. Inventory

| Component (files) | State | Operations |
|---|---|---|
| Message queues (`disastrOS_message_queue.c`, `_write.c`, `_read.c`) | per queue: the list of messages, `reading_pid`, `writing_pid`; two pools, one of queues and one of messages shared by all queues | `mq_alloc/free`, `mq_set_mode/delete_mode`, `m_alloc/free`, system calls write and read |
| Resources and descriptors (`disastrOS_resource.c`, `_descriptor.c`, `_open_resource.c`, `_close_resource.c`, `_destroy_resource.c`, `_resource_OS.c`) | `resources_list`; per resource id, type and the descriptors that point to it; per process its descriptors and `last_fd`; the pools of descriptors and descriptor pointers | open (create, plain, exclusive, read, write), close, destroy |
| Processes (`disastrOS_pcb.c`, `_spawn.c`, `_fork.c`, `_exit.c`, `_wait.c`) | PCB and PCBPtr pools; status, parent, children, signals; `waiting_list`, `zombie_list` | spawn, fork, exit, wait |
| Timers and scheduler (`disastrOS_timer.c`, `_sleep.c`, `_schedule.c`, `_preempt.c`) | `running`, `ready_list`, `timer_list`, `disastrOS_time` | sleep, preempt, the timer interrupt |
| Kernel entry (`disastrOS.c`, `_shutdown.c`) | the system call vector; main, trap and interrupt contexts with their masks; `cpu_state` of each PCB; `init_pcb` | the wrappers of the calls, trap, `timerHandler`, start, shutdown |
| Pool allocator (`pool_allocator.c`) | a free list of indices in each pool's buffer | get block, release block |
| Linked list (`linked_list.c`) | head, tail, size; next and prev in each item | insert, detach, find |
| Test program (`disastrOS_test_mq.c`) | two counters, shared without a lock; the locals of each function | init, two writers, two readers, a sleeper |
| Printing and log file (`disastrOS_printStatus` and the `*_print` functions) | none of their own | they write no kernel state, but read all of it |

How they interact. Every system call runs to its end with the timer masked, and
works on `running`; so calls of different processes interleave, but never
overlap. What they share is the system lists and, above all, the pools: a block
that one process releases is the next one that another gets, and some of its old
contents stay in it. PCBPtrs are shared by two unrelated users (the children
lists and the queue roles). `exit` touches everything: the family tree, the
lists, the timers and, on one of its two paths, the descriptors.

What is hard, and which properties look at it:

- *Recycled blocks.* Message blocks keep list links, queue blocks keep roles,
  PCBs keep a status and a parent that others still read. Properties:
  `MessageBlocksOwned`, `StaleNeverQueued`, `OnlyStaleLost`, `FdsUnique`,
  `EachChildListedOnce`.
- *Two-sided structures.* A descriptor is in a process and pointed to by a
  resource; a child is in its parent's list and has a parent field; a sleeper is
  in the waiting list and has a timer. Every path must change both sides.
  Properties: `DescriptorsPinned`, `EachChildListedOnce`, `EachInOnePlace`,
  `TimersMatchSleepers`.
- *Races of exit, wait and sleep.* Properties: `NoMissedExit`, `FamilySignalled`,
  `AdoptedExitSeen`, `SleepersWake`.
- *Exhausted pools*, several of which end in a NULL dereference. Properties:
  `PtrsInLockstep`, `PCBPtrBudget`, `OnlyStaleLost`, `TimerForEach`.
- *Intrusive links and free lists*, which trust what a recycled block still
  holds. Properties: `ListsSound`, `TimersSound`, `NeverFreedTwice`,
  `ImplementsQueues`, `ImplementsTimers`.
- *Contexts and masks*: four kinds of context, each with its own signal mask, one
  stack for trap and interrupt, one of `main` for every process that returns, and a
  timer that may come wherever it is not masked, the timer interrupt included.
  Properties: `ContextsIntact`, `LowImplementsProcesses`.
- *Calls that cross the components*: exit, wait and spawn change the family, the
  descriptors and two pools at once. Properties: `ImplementsResources`,
  `ImplementsProcesses`.
- *Wake times in an int.* Property: `WakesOnTime`.
- *A program of five processes*, preempted between any two steps. Properties:
  `ProgramEnds`, `AssertsHold`, `AllOrNothing`, `CountersNeverAhead`,
  `RolesFollowOpens`.
- *The last ready process stops*: the machine crashes or starts a second init.

`PROJECT.json` lists every hazard with its line.

## 2. Modules

| Module | What it is |
|---|---|
| `DisastrOSConstants` | error codes, modes and types of `disastrOS_constants.h` |
| `MessageQueues` | the state of queues, messages and roles and, as operators, what each function of `disastrOS_message_queue.c` does to it |
| `Resources` | the five resource system calls over `MessageQueues`, with what creating and ending a process do to descriptors; properties |
| `FifoQueues` | the abstract specification: for each id a bounded channel, or `Closed` |
| `ResourcesProofs` | theorems about `Resources`, and that it implements `FifoQueues` |
| `Processes` | spawn, fork, exit, wait, sleep, preempt, the tick, shutdown and the second start; properties |
| `TimerLists` | what the functions of `disastrOS_timer.c` do to the ordered list of timers, as operators on a sequence |
| `PoolAllocator`, `LinkedList` | `pool_allocator.c` and `linked_list.c` as operators on the memory they change: free list, first index and size; links inside the items and list heads |
| `MessageMemory` | creating, writing, reading and destroying queues on these pools and links; shown to do what `MessageQueues` says |
| `TimerMemory` | the timer items in a pool and a list, with absolute wake times in ints, the largest being `INT_MAX`; shown to do what `TimerLists` says |
| `Kernel` | each wrapper of `disastrOS.c` for the running process: the handler of `Resources` or `Processes` and what it does to the other's state; shown to implement both |
| `Contexts` | `swapcontext`, `setcontext`, the masks, `SIGALRM` and the way through `main_context` around the handlers of `Processes`, and the timer interrupt statement by statement; shown to implement it, its fairness included, until a signal meets the kernel unmasked |
| `TestProgram` | `disastrOS_test_mq.c`, function by function, on `Kernel` |
| `ProcessesProofs`, `KernelProofs`, `ContextsProofs`, `TestProgramProofs`, `MemoryProofs` | theorems about the module each is named after; `MemoryProofs` about `MessageMemory` and `TimerMemory` |
| `SequenceFacts`, `MemoryFacts` | lemmas on lists, and on free lists and linked lists in any memory |
| `MC*` | instances for TLC: messages, symmetry, views; `MCMemory`, `MCScheduling` and `MCTestProgram` put two modules or instances in one run |

```
  TestProgram            the program
      |
   Kernel                its calls            Contexts
    /    \                                       |
Resources  Processes ------------------------ (implements)
    |          |
MessageQueues  TimerLists                     sets and sequences
    |          |
MessageMemory  TimerMemory  (implement)       indices, links, ints
     \        /
  PoolAllocator, LinkedList
```

How definitions correspond to the code. A handler `internal_x` is an operator of
that name, whose disjuncts are its outcomes: one for each early return, one for
each crash and one for each way it succeeds. What the code does after a decision
is in that one step, `exit`'s reparenting, signals and choice of the next process
included. Operators named after a C function do what that function does.
Definitions under a comment that starts with *Fault* are wrong versions of the
definition that follows them. No specification uses them: `PROJECT.json` names
them as mutants, to show that each property notices a plausible bug.

Abstractions, and why they lose nothing that the properties see:

- In all modules but the memory modules, a block is identified by its address, a
  model value. A pool is the set of its
  free blocks (or their number where blocks are never told apart), and an
  allocation takes any of them; the code takes the one released last, so the
  model has more behaviours. `MessageMemory` and `TimerMemory` show that the free
  lists and links do what these sets and sequences do. What a free block holds is kept where someone reads
  it: links of messages (`stale_links`), roles of queues, `status` and `parent`
  of PCBs.
- A list whose order nobody can observe is a set: `resources_list` and the
  descriptor lists, because ids and fds are unique (`IdsUnique`, `FdsUnique`),
  `waiting_list` and `zombie_list`, because items leave them by address.
- A pid stands for the PCB that it names: pids are never reused. The wrap of
  `last_pid` is not modelled. The first process has pid 0, which `wait` reads as
  *any child*.
- Timers hold the ticks left, so time does not grow. `TimerMemory` has the wake
  times, ints that overflow; as gcc builds this code without `-O` they wrap.
- A message is a `[text, length]` record and texts are opaque.
- `machine` says how the system stopped: `"segv"` after a NULL dereference (or a
  jump to a context that was never made), `"hang"` in a loop with signals masked,
  `"off"` after shutdown, and in `Contexts` `"torn"` when a signal cut short a change of
  a list or a pool: what the code does from there on is not modelled. No process step
  is possible in these states, so the runs do not check deadlock.
- In `Resources` which process calls is open and `listed`, the processes in
  children lists, is a variable of its own; what calls on processes do to PCBPtrs,
  the result fields and the machine is the step `OtherCall`. `Processes` has the
  counterpart, `resource_call`. `Kernel` replaces both by the calls themselves.
  Dying takes two forms: exit
  under a waiting parent (`ExitReleasing`), and exit followed later by the
  parent's wait (`ExitReaped`); a zombie in between is a process that makes no
  more calls. A second init takes a PCB but no PCBPtr.
- `fork` never sets the child's `cpu_state`. In a block never used before this
  ends the machine when the child is dispatched (`no_context`). In a used block
  the child continues where the old process stopped, which is a process that may
  do anything.
- In `TestProgram` a step of a process is a system call together with what it does
  with the result, which nobody else can change, or a half of `counters[k]++` (a
  load and a store: the build has no `-O`). The sleeper waits in `getc` and makes no
  call. Output is left out. Which of several free blocks a call gets makes no
  difference to the program, so it gets a fixed one.
- In `Contexts` a saved context is where it resumes and with which mask; `"lost"`
  is one whose stack has been used again since, or that was never the process's own.
  What swapcontext and setcontext do is one step. A handler of the trap is a single
  step, as in `Processes`, because it runs masked. The timer interrupt is not: it runs with
  `SIGALRM` unmasked, so its steps are the changes of a list that
  `internal_schedule` makes, one after the other, and a signal may come between any two
  of them (`timerHandler`). It then starts the interrupt again, with the lists as they are and
  the first one abandoned; when it comes within a change, or where a PCB or a timer
  is in two places, the machine is torn. The same holds of a second start, whose
  change of the pool and the contexts is one step (`Remake`). A context that the timer
  saves while a process runs on the stack of `main` resumes well until another process
  returns through `main_context`, which makes it `"lost"`.
- `stopped`, `before` and `disturbed` of `Contexts` are auxiliary: where each process
  stopped, the lists at the start of a timer interrupt, and whether `SIGALRM` came
  while the kernel ran unmasked. The refinement (`Seen`) shows `Processes` the lists
  of `before` until the interrupt ends.
- Three checks in the code cannot fire and so are not in the model: the one of
  `sleep` for a timer that the process has (`pcb->timer` is only ever set to 0),
  the scan of `exit` for timers of its caller (who has a timer sleeps, and makes no
  call) in `TimerMemory`, and the one of `wait` for a pid not among the children (see the findings).
- Modes other than the four named ones are all treated alike by the code; 0
  stands for them. Types below 0 index outside the function table and are not
  arguments of the model.

## 3. Runs

All configurations give constants their values and replace no definition.

| Run | Instance | Result |
|---|---|---|
| `resources` | 2 PCBs, 1 queue block, 1 standard block, 2 ids, 3 descriptors, 3 PCBPtrs, at most 2 opens in a process's life | 5 invariants hold, 675 thousand states |
| `queues` | 1 process, 2 queue blocks, 2 ids, 3 message blocks, capacity 2, messages of lengths 1, 2 and 3 (too long) | type correctness, 3 invariants and the refinement hold, 28 thousand states |
| `processes` | 4 PCBs, 3 PCBPtrs, sleeps of 0 and 1 ticks | 5 invariants hold, 4.6 million states |
| `scheduling` | `Processes` with 3 PCBs, 3 PCBPtrs, sleeps of 0 and 2 ticks, fair timer; `Contexts` with 2 PCBs | the invariant, 2 liveness properties and the refinement hold, 165 thousand states |
| `memory` | 2 queues over 4 message blocks, capacity 2; 3 processes with timers, sleeps of -1 to 3 ticks, ints of 3 bits, time up to 3 | 4 invariants, 2 refinements and `WakesOnTime` hold, 66 thousand states |
| `kernel` | 3 PCBs, 2 PCBPtrs, 1 queue, 1 message, 1 descriptor, all calls | both refinements hold, 173 thousand states |
| `program` | 1 queue, 3 messages of its writer, timer anywhere; and 2 queues, 2 messages each, timer in the children of one queue and in the sleeper | 4 invariants and termination hold, 84 thousand states |
| `full_queue`, `lost_message`, `exit_leak`, `wait_not_child`, `adopted_exit` | like the above, smaller | what a document or comment says is violated, see section 6 |

Why the bounds are enough. *resources*: with 3 descriptors and 2 processes that
open twice each, the descriptor pool can be exhausted; 3 PCBPtrs serve one child
and two roles, so that pool can be exhausted too and both crashes happen; the
queue and the standard block can have either id, be destroyed and created again;
the second PCB has more than one life. There are no messages: the properties do
not look at them. *queues*: 3 blocks and two queues of capacity 2 give a full
queue, an exhausted pool, both queues non-empty, the destroy of a queue with two
messages (the smallest that leaves links) and a later write that meets one of
the stale blocks. `MaxFd = 2` bounds the opens of one process. *processes*: four
PCBs are enough for an init, a parent that dies, an orphan and a process that
takes the freed block; a second init; the exhaustion of PCBs and PCBPtrs; and a
sleep that ends before one that began earlier. *scheduling*: two sleepers with different wake times and a ready process; in
`Contexts`, a process that is preempted, one that runs, the block of a dead
process used again, and an interrupt that wakes a sleeper, which changes all four
lists and can be interrupted at each step. Two processes cannot both sleep, so no
interrupt wakes two; the theorem about `Contexts` covers any number. One signal may
disturb the kernel there (`MaxOneDisturbance`): the properties promise nothing after it. *memory*: a destroyed queue with two linked blocks, both of
which come back, one to each queue, and an item in the middle of a list of three
timers; with 3 bits the largest int is 3, so at time 1 a sleep of 3 overflows while
others sleep. *kernel*: a parent, a child and the reuse of its block, with a role
and a message that outlive a process, and each pool exhausted. *program*: in the
first instance every order of a writer, its reader and init, with the counters
torn at any point; in the second both queues compete for the processor and for
the descriptors, and time for the second pair passes too. The preemption of all
five processes anywhere is beyond TLC. `SleepBase = 6` keeps
the order of the sleeps that `(20-pid)*3` gives, the reader's shorter than its
writer's; no write finds a queue full, as in the program, where 10 are written
to a queue that takes 128.

State reduction. `BlockSymmetry` and `Symmetry` permute blocks that no constant
and no property names; they are used without liveness only. A `StateView` leaves
out fields that no guard reads and no property of the run mentions
(`syscall_retvalue`; in `kernel` also signals and which process holds a role); the
step properties are checked on every transition to a state, seen or new.

Fairness. `Processes!Spec` assumes weak fairness of `timerInterrupt` only and
nothing of programs: they may compute for ever or never call. `ReadyRuns` and
`SleepersWake` therefore rest on preemption alone. Both allow for the machine to
stop, as it does when the last ready process waits. `Contexts` justifies the
assumption: from weak fairness of the kernel's own steps (it never waits), of the
expiry of `ITIMER_REAL` (it rearms itself) and strong fairness of the delivery of a
pending signal (Linux delivers it as soon as it is not masked), the fair atomic
interrupt follows, or the machine has been disturbed. The run uses both parts.
`TestProgram` adds strong fairness of the steps of each process that makes
calls: a tick is 100 ms, so a process that is given the processor again and again
gets on between two interrupts.

## 4. The properties

*Resources.* `IdsUnique`, `DescriptorsPinned` (a descriptor in use leads to a
listed resource that points back; a process lists only its own), `FdsUnique`,
`PtrsInLockstep` and `PCBPtrBudget`, which bounds the use of the PCBPtr pool from
above: that no block of it is forgotten does not hold. Nothing is claimed here of the
queue roles, which in general outlive their process and go to the next one in its
block; see *Program* for what holds of them.

*Queues.* `MessageBlocksOwned` (a queued block is out of the pool and at one
place), `StaleNeverQueued`, `OnlyStaleLost`, and the refinement `FifoSpec`.

The refinement mapping takes an id to `Closed` when no queue of the system list
has it, and otherwise to the messages its blocks hold, in order. It says that
whatever happens around it, a queue delivers what it stored, in order, once,
unchanged, to no other queue and never above its capacity. A write whose block
`List_insert` refuses is a stutter: the channel specification says what is
stored and not that a successful write stores (`AcceptedMessageStored` says that,
and fails).

*Processes.* `EachInOnePlace`, `EachChildListedOnce`, `NoMissedExit`,
`FamilySignalled`, `TimersMatchSleepers`, and the liveness `ReadyRuns` and
`SleepersWake`. Two limits of the code shape them: an adopted child keeps the
parent field of its dead parent, so `NoMissedExit` is about the children a
process created itself; and the process that a blocked `wait` hands the processor
to keeps the status `Ready` while it runs, so statuses are tied to the lists
and not to `running`.

*Memory.* `ListsSound` and `TimersSound`: a list is the same from both ends, its
size is its length, and the free list reaches every free block once. A queue that
was freed with messages leaves wrong links, and `List_insert` then refuses a
block; these invariants and `NeverFreedTwice` show that this is the only damage: no
live list and no free list is ever corrupted. `ImplementsQueues` maps chains, free
lists and links to `msgs`, `m_pool` and `stale_links` of `MessageQueues` and shows
each operation to be the one stated there, the refused insertion included.
`ImplementsTimers` does the same for timers. `WakesOnTime`: a sleep whose end fits an
int ends at its tick, whatever other sleeps overflow. `TimerForEach`: sleep
never fails for want of an item.

*Kernel.* `ImplementsResources` is `Resources!Spec` with `listed` as the processes in
children lists, and `ImplementsProcesses` that of `Processes` without fairness. The
properties of both modules hold of the composed system, and the steps by
which each module leaves the other open (`OtherCall`, `resource_call`) allow all
that the other does.

*Contexts.* Both properties are about the time until `SIGALRM` first comes where the
kernel runs unmasked, which `disturbed` records. `ContextsIntact`: until then a process
resumes where it stopped, and no saved context is overwritten. `LowImplementsProcesses`:
until then each system call and each timer interrupt is one atomic step of `Processes`,
however many steps it takes in `Contexts`, and if it never happens the timer is fair.
What happens there is in the model: the code has two such windows. One is the
timer interrupt itself (`interrupt_context` has an empty mask): a second `SIGALRM`
within one run of the scheduler saves the context of the scheduler over that of the
interrupted process and leaves the lists half changed, for instance with a woken
process in none of them. The other is `disastrOS_start` from `main_context` on: in the
first start a tick in the few instructions after `setupSignals`, in a later one a
tick anywhere, since the timer runs already; the context saved is then on the stack
of `main`, which the next process that returns overwrites. The first needs an interrupt
of over 100 ms or a long delay of the Linux process, the second one tick at the wrong
moment. The properties say that there is no third.

*Program.* `AssertsHold`; `RolesFollowOpens` (a queue is held by its own reader and its own
writer, each from its open to its close: no close drops the role of the other, and no
role stays with a process that is gone, although the kernel ensures neither); `ProgramEnds` (the shutdown is reached: no crash, no reader
that polls for ever, no exit that init misses); `AllOrNothing` (at the end all
of a queue's messages were written, and read to the last one or not at all);
`CountersNeverAhead`.

## 5. Proofs

The theorems are for every set of blocks, processes, ids and messages, every
capacity, sleep time and width of int, and every order of calls. All they assume of
the constants is in `QueueAssumption` and `ResourceAssumption` (`NULL` is no block
and no message, queue and standard blocks are disjoint, the init block is a PCB, the
descriptor pool is finite, sizes are numbers), `ProcessAssumption`,
`KernelAssumption` and `ContextAssumption` (the same of PCBs, special pids and
results), `MemoryAssumption` and `TimerAssumption` (pools are not empty; the
timer pool is at least as large as the PCB pool, as `MAX_NUM_PROCESSES` makes both),
and `ProgramAssumption` (there are a queue and an iteration, sleeps are numbers, `NULL`
and the special pids are no pid, block or message, the blocks are finite and there are
three descriptors for each queue, of 32768 in the code).
TLC evaluates each of them in a run.

### Resources and queues (`ResourcesProofs`)

`StepCases` splits a step: it is `Quiet` (an early return, a crash, a write to a
full queue: no list, pool or descriptor changes) or the successful path of one
operation, or the step of a call on processes. `listed` is a variable of the
module, so the theorems hold of every tree of processes.

- `DescInv` = types of the lists and descriptors, `IdsUnique`,
  `DescriptorsPinned`, `FdsUnique`. The three need one another: destroy keeps
  `DescriptorsPinned` only because the resource it frees is the only one with
  that id and no descriptor points to it; close finds one descriptor because fds
  are unique, and fds are unique because each is below `last_fd`. It gives
  `DescriptorsPinnedThm`, `FdsUniqueThm` and `IdsUniqueThm`.
- `MsgInv` = types of the message state, `MessageBlocksOwned`,
  `StaleNeverQueued`, `OnlyStaleLost` and `QueuesBounded`. `QueueStep` states
  what any step can do to a live queue, and its proof uses `DescInv`: a write or a read
  through a descriptor reaches a queue of the system list. `QueuesBounded` is
  there because write tests the size for equality with the capacity.
  It gives `MessageBlocksOwnedThm`, `StaleNeverQueuedThm` and `LossOnlyByStaleLinks`.
- `RestTypeOK` completes the types (`TypeCorrect`). That a read returns a number
  rests on `MessageBlocksOwned`: a queued block holds a message.
- `PtrsInLockstepThm`: by cardinalities, an open takes one of each and a
  release gives back as many of each.
- `PCBPtrBudgetThm`: `BudgetInv` adds that the children and the roles are finite
  sets; each step adds at most one element and then takes one from the pool.
- `QueuesImplementChannels`: `Spec => FifoSpec`. `FifoInit` maps the initial
  state; `FifoStep` maps each step through `QueueStep` to `Open`, `Close`, `Send`
  or `Receive` of one channel or to a stutter, with `DescInv` and `MsgInv`.

### Processes (`ProcessesProofs`)

All safety invariants come from one inductive invariant, `IInv`, because none is
inductive alone:

- `PlacesOK` and `StatusOK` say where every process is and what its status says of
  it. That a status `Waiting` means the waiting list, *for free blocks too*, is
  what exit needs, since it reads the status of its parent through a field that may
  name a freed block.
- `TimersOK` ties timers to the processes that wait without having called wait.
  Who calls runs, so has no timer; this is why a sleeper never gets a second one.
  The order of the list makes the prefix that the scheduler takes the set of the
  timers that are due (`ScheduleStep`).
- `FamilyOK`: the lists of children are disjoint, hold allocated blocks, and hold a
  child that another process created only in an init's list. Without the last part
  `NoMissedExit` is not inductive: an exit could hand an init that waits a zombie
  which that init created.

It gives `Typing` (the PCBPtr pool never goes below zero), `Places`, `Family`,
`Sleepers`, `Exits` and `Signals`. There is one lemma for each way out of a
handler (`NewChildStep`, `ExitToZombieStep`, `ExitWakesParentStep`,
`WaitReapsStep`, ...), and `SequenceFacts` has what they need of lists: append,
insertion, cutting and removal keep the elements and keep them distinct.

### The kernel (`KernelProofs`)

`KInv` is `IInv` of `Processes` and the invariants of `Resources`, proved of the
composition at once. Neither refinement can be shown first: that a call on
resources is a `resource_call` (`StepOfProcesses`) needs that a queued block holds a
message, or a read would return no number; that a call on processes is an `OtherCall` or
one of the two forms of dying (`StepOfResources`) needs the family, because
`listed` is computed from the lists of children. `HasContext` is part of it: a process that is
dispatched after a wait or a sleep has a context. The results are
`KernelImplementsResources`, `KernelImplementsProcesses`, and with them the
theorems of both modules about the composed kernel: `KernelPCBPtrs` (one pool for
children and roles), `KernelQueues` (bounded channels), `KernelSafe` and
`KernelContexts`.

The lemmas named `Same...` are there because TLAPS takes the definitions of two
instances of a module for different ones.

### Contexts (`ContextsProofs`)

`CInv` is `Sound` until the machine is disturbed. `Sound` is `IInv` of the lists that
`Processes` sees (`Seen`), who runs in each mode (`SomeoneRuns`), when the timer is masked
(`MaskOK`, `HandlerOK`), that saved contexts are where the processes stopped
(`SavedOK`, `UnsetOK`, `InterruptOK`) and how far a timer interrupt has come
(`ScheduleOK`). The last is the loop invariant of `internal_schedule`: of the
`NumDue` timers of `TickedList`, the timers as the interrupt found them one tick later,
the first so many are removed, their processes inserted and detached (`LoopAt`), and
the loop and the switch of process give the lists of `Switched`. `SchedulerUnseen` shows that these steps are stutters of `Processes`, and
`InterruptSeen` that the last one is its atomic `timerInterrupt`, whatever the number of
sleepers it woke. Calls are calls (`SpawnSeen`, `ExitSeen`, ...), since outside an
interrupt `Seen` is the lists themselves.

It gives `ContextsIntactThm`; `CallsAreAtomic`, the safety half of
`ImplementsProcesses`; and `ProcessesStaySound`: between two timer interrupts no process
is lost or in two places, and the timers match the sleepers. All three hold until the
first signal that comes where the kernel runs unmasked, and no longer: after it the
model loses contexts and processes as the code does.

### Memory (`MemoryFacts`, `MemoryProofs`)

`MemoryFacts` is about any pool and any links. `IsFreeList(a, c)` says that the
free list of pool `a` is the sequence `c` of its free blocks, each once;
`IsList(l, h, c)` that head `h` and the links hold the sequence `c` in both
directions. The lemmas say what each function of `pool_allocator.c` and
`linked_list.c` does to `c`: `PoolAllocator_getBlock` takes its head, a release puts a block in
front, `List_insert` of an item *without links* is `InsertAt`, `List_detach` removes
one place, and what touches neither the head nor the links of a list leaves that
list as it is. `PoolSound` and `ListSound`, which TLC checks by walking, follow.

- `MInv`: the free list and the live lists share no block. `List_insert` looks at the
  links of the new block only, so a block with stale links is refused and
  otherwise nothing points to it; this is why the wrong links of a destroyed
  queue never reach a live list. It gives `ListsSoundThm`, `NeverFreedTwiceThm` and
  `MemoryImplementsQueues`.
- `TInv`: the list and the free list share out the pool; a sleeper has one
  item, set to the int of its tick; the list is in the order of these ints. It gives
  `TimersSoundThm`; `WakesOnTimeThm`, since the order makes the scan of the scheduler
  stop nowhere too early; `TimerForEachThm`, by counting: items in the list are at
  most as many as sleepers, and one process does not sleep; and
  `MemoryImplementsTimers`.

### The test program (`TestProgramProofs`)

The theorems are for any number of queues, each with its writer and its reader,
any number of iterations and any sleeps, and a timer that interrupts wherever
`PreemptAt` lets it.

- `Structure` says, for each point of each function, what the kernel holds for
  the process that is there: `InitOK` (how many queues exist, and that the array of
  init has their ids, which are also its fds), `ResourcesOK` (one queue for each id,
  all of them open in init, so no destroy succeeds), `DescriptorsOK`, `ChildrenOK`
  (a child opens from an empty PCB, so its fd is 0, and holds that descriptor up to its
  close) and `RolesOK` (a role is held by the one child it is meant for, and only after
  its open). From it the results of the calls follow: `OpenStep` needs that the id
  is listed, that the role is free and, by counting in `DescriptorFree`, that a descriptor is;
  `CloseStep` that the descriptor is there. This is `ProgramAssertsHold`. `Structure` is
  claimed while the machine runs: a call that crashes leaves no promise.
- `ProgramRolesFollowOpens`: `FollowsOK` (each role is its process's between open and
  close and `NULL` otherwise) is inductive under the invariants of the next points,
  `Inv` (`Structure` and the counters) and `Delivery`. An open finds the role free and sets it (`OpenFollows`); a close passes
  the mode of the opening, so it drops its own (`CloseFollows`); and a queue is created
  in a block that was never used, with neither role (`CreateFollows`).
- `CountersOK` is what makes `CountersNeverAhead` inductive. A process that loaded
  a counter may store it much later, so the register is bounded as the
  counter is; and a message is stored or read before its increment begins, so the bounds
  are sums that leave out the increments still to come (`Settled`, `Reading`).
  It gives `ProgramCountersNeverAhead`.
- `ProgramRunsKernel`: the program is one of those that `Kernel.tla` allows. Its calls
  pass fds, ids, times and exit values of the sets the kernel is proved for, which for
  a child's fd and for the ids init destroys is a consequence of `Structure`.
- `ProgramAllOrNothing` rests on a second invariant, `Delivery`, which is inductive
  under the first and `KernelOK`, the part of `KInv` that it uses (`KernelFacts`; every
  step of the program is one of the kernel, so `KInv` holds of it). `DeliveredOK`: a
  writer has its role as long as its queue is open to it, and a reader that left its loop has
  left all messages in the queue or taken the last one; for this `ReadDelivery` needs that
  it gives up only when told that there is neither a message nor a writer.
  `LoopsOK`: a writer leaves its loop after its last message. `TiesOK` and `WaitsOK`: all
  are children of init, a zombie is a process whose function has ended, and
  `alive_children` is the number of those not reaped, so the shutdown comes when every
  reader and writer is gone.
- Sums over processes are `SumFunction` of the community modules. `SumExists` shows that its
  recursion has a solution, and `SumChange` and `SumMonotone` what it does when
  terms change; the steps of the program use only these.

### What stays with TLC

- Liveness: `ReadyRuns`, `SleepersWake`, `ProgramEnds`, and the fairness half of
  the refinement of `Contexts`. It is beyond the prover.

## 6. Where the code differs from what is said of it

Each is a run that must find the violation.

- `FullQueueReported`: the error of a write to a full queue is stored in
  `return_value` (`disastrOS_message_queue_write.c:37`) and not in
  `syscall_retvalue`. The writer of the test program, which waits on
  `DSOS_MESSAGEQUEUEFULL` (`disastrOS_test_mq.c:108`), sees an older result and
  goes on.
- `AcceptedMessageStored`: after `mq_free` of a queue with two or more messages a
  write may be accepted and its message stored nowhere, because the recycled
  block still has links.
- `ReleasedOnTermination`: `disastrOS_exit.c:74` says that all resources are
  released upon termination; only the exit under a waiting parent does it.
- `WaitsForChild`: `disastrOS_wait.c:33` says that waiting for a process not in
  the child list is an error; the caller blocks (or reaps its last child).
- `AdoptedExitSeen`: `disastrOS_exit.c:8-14` says that children are reparented to
  init and that a waiting parent is awakened. The `parent` field is not changed, so
  the exit of an adopted child does not wake init.

Met in the test program, without a run of their own:

- `README.md:92` promises 20 messages read and 20 written, and `README.md:32` that
  readers wait for the writer. A reader that comes before its writer has opened the
  queue gets `DSOS_MESSAGEQUEUEEMPTY` and quits (`disastrOS_test_mq.c:46`), and the
  increments of the counters lose counts when the timer tears them. What holds is
  `AllOrNothing` and `CountersNeverAhead`.
- `README.md:96` says that init destroys the queues. Its destroys return
  `DSOS_ERESOURCEINUSE`, since init never closes the descriptors that it created them
  with, and the results are not looked at.

## 7. Not modelled

- Printing and the log file, which write no kernel state. They are not harmless:
  `disastrOS_printStatus` walks the kernel's lists from user mode with the timer
  unmasked, so what it prints may be inconsistent, and it casts every listed resource
  to `MessageQueue` (`disastrOS.c:326`). Of a `StandardResource` it reads past the
  block, and may follow what it finds there as a list or as a PCB; so does the trap that
  finds no process to run (`disastrOS.c:136`). The test program has no such resource.
- The numbers of system calls and the check of their bounds (which lets 32 pass,
  one past the ends of the vectors): every wrapper passes a constant of a registered call.
- `UnalignedFree` and `OutOfRange` of the pool allocator: no caller passes an
  address that `getBlock` did not give it.
- `List_find` and `getMessage`, which no code in the build calls.
- The inside of library calls: `swapcontext` saves the context before it changes the
  mask, and a `printf` that a switch interrupts is not reentrant.
- Signal masks of DisastrOS processes (no code changes them), the wrap of pids, types
  below 0, and overflow of the tick counter itself.
- The code of a process that continues a stale context after fork, beyond that it
  may make any call.
- The build.
