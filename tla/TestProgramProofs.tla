--------------------------- MODULE TestProgramProofs -------------------------
(* No assert of disastrOS_test_mq.c fails, its statistics are never ahead of  *)
(* the messages, and each queue has passed all its messages or none when the  *)
(* machine shuts down, for any number of queues, iterations and sleep times   *)
(* and wherever the timer interrupts.  The invariant says what a process      *)
(* holds in the kernel at each point of its function, and relates the two     *)
(* counters to sums over all processes and queues.  A second one, about the   *)
(* delivery of the messages, rests on it and on the one of KernelProofs.      *)
EXTENDS TestProgram, SequenceFacts

\* The element that SumFunction takes out of a set.
Chosen(s) == CHOOSE x \in s : TRUE

\* F gives the sums of f over the subsets of S.
Sums_of(F, f, S) ==
    \A s \in SUBSET S :
       F[s] = IF s = {} THEN 0 ELSE f[Chosen(s)] + F[s \ {Chosen(s)}]

\* The sums of a function over the subsets of its domain, as SumFunction computes them.
IsSum(iter, f) ==
    iter = [s \in SUBSET DOMAIN f |->
              IF s = {} THEN 0
              ELSE f[CHOOSE x \in s : TRUE] + iter[s \ {CHOOSE x \in s : TRUE}]]

\* SumFunction is the sum over the whole domain.
LEMMA SumIs ==
    ASSUME NEW f
    PROVE  SumFunction(f) = (CHOOSE iter : IsSum(iter, f))[DOMAIN f]
BY DEF SumFunction, SumFunctionOnSet, FoldFunctionOnSet, MapThenFoldSet, IsSum

\* A set without its chosen element is smaller.
LEMMA Smaller ==
    ASSUME NEW S, IsFiniteSet(S), NEW s \in SUBSET S, s # {}, NEW n \in Nat,
           Cardinality(s) <= n + 1
    PROVE  /\ (CHOOSE x \in s : TRUE) \in s
           /\ s \ {CHOOSE x \in s : TRUE} \in SUBSET S
           /\ Cardinality(s \ {CHOOSE x \in s : TRUE}) <= n
<1> DEFINE c == CHOOSE x \in s : TRUE
<1>1. c \in s
  OBVIOUS
<1> HIDE DEF c
<1>2. IsFiniteSet(s) /\ Cardinality(s) \in Nat
  BY FS_Subset, FS_CardinalityType
<1>3. Cardinality(s \ {c}) = Cardinality(s) - 1
  BY <1>1, <1>2, FS_RemoveElement
<1> QED BY <1>1, <1>2, <1>3 DEF c

\* The recursion of SumFunction has a solution.
LEMMA SumExists ==
    ASSUME NEW f, IsFiniteSet(DOMAIN f)
    PROVE  \E iter : IsSum(iter, f)
<1> DEFINE S == DOMAIN f
           c(s) == CHOOSE x \in s : TRUE
           next(iter, s) == IF s = {} THEN 0 ELSE f[c(s)] + iter[s \ {c(s)}]
           T == {n \in Nat : \E iter : \A s \in SUBSET S :
                                Cardinality(s) <= n => iter[s] = next(iter, s)}
<1>1. 0 \in T
  <2> DEFINE zero == [s \in SUBSET S |-> 0]
  <2>1. ASSUME NEW s \in SUBSET S, Cardinality(s) <= 0 PROVE zero[s] = next(zero, s)
    <3>1. s = {}
      <4>1. IsFiniteSet(s) /\ Cardinality(s) \in Nat
        BY FS_Subset, FS_CardinalityType
      <4> QED BY <2>1, <4>1, FS_EmptySet
    <3> QED BY <3>1
  <2> QED BY <2>1
<1>2. ASSUME NEW n \in Nat, n \in T PROVE n + 1 \in T
  <2>1. PICK iter : \A s \in SUBSET S : Cardinality(s) <= n => iter[s] = next(iter, s)
    BY <1>2
  <2> DEFINE more == [s \in SUBSET S |-> next(iter, s)]
  <2>2. ASSUME NEW s \in SUBSET S, Cardinality(s) <= n + 1 PROVE more[s] = next(more, s)
    <3>1. CASE s = {}
      BY <3>1
    <3>2. CASE s # {}
      <4>1. s \ {c(s)} \in SUBSET S /\ Cardinality(s \ {c(s)}) <= n
        BY <2>2, <3>2, Smaller
      <4>2. more[s \ {c(s)}] = iter[s \ {c(s)}]
        BY <2>1, <4>1
      <4>3. more[s] = f[c(s)] + iter[s \ {c(s)}]
        BY <3>2
      <4> QED BY <3>2, <4>2, <4>3
    <3> QED BY <3>1, <3>2
  <2> HIDE DEF more, next
  <2> QED BY <2>2
<1>3. \A n \in Nat : n \in T
  <2> HIDE DEF T
  <2> QED BY <1>1, <1>2, Induction
<1>4. Cardinality(S) \in Nat
  BY FS_CardinalityType
<1>5. PICK iter : \A s \in SUBSET S : Cardinality(s) <= Cardinality(S) => iter[s] = next(iter, s)
  BY <1>3, <1>4
<1>6. \A s \in SUBSET S : Cardinality(s) <= Cardinality(S)
  BY FS_Subset
<1> DEFINE sums == [s \in SUBSET S |-> iter[s]]
<1>7. ASSUME NEW s \in SUBSET S PROVE sums[s] = next(sums, s)
  <2>1. iter[s] = next(iter, s)
    BY <1>5, <1>6
  <2>2. s \ {c(s)} \in SUBSET S
    OBVIOUS
  <2>3. sums[s] = iter[s] /\ sums[s \ {c(s)}] = iter[s \ {c(s)}]
    BY <2>2
  <2> HIDE DEF sums
  <2> QED BY <2>1, <2>3
<1>8. IsSum(sums, f)
  <2>1. sums = [s \in SUBSET S |-> sums[s]]
    OBVIOUS
  <2> HIDE DEF sums
  <2>2. sums = [s \in SUBSET S |-> next(sums, s)]
    <3> HIDE DEF next
    <3> QED BY <1>7, <2>1
  <2> QED BY <2>2 DEF IsSum
<1> HIDE DEF sums
<1> QED BY <1>8

\* SumFunction is what the recursion gives for the whole domain.
LEMMA SumBy ==
    ASSUME NEW S, IsFiniteSet(S), NEW f, DOMAIN f = S
    PROVE  \E F : SumFunction(f) = F[S] /\ Sums_of(F, f, S)
<1> DEFINE iter == CHOOSE it : IsSum(it, f)
           val(s) == IF s = {} THEN 0 ELSE f[Chosen(s)] + iter[s \ {Chosen(s)}]
<1>1. SumFunction(f) = iter[S]
  BY SumIs
<1>2. IsSum(iter, f)
  <2>1. \E it : IsSum(it, f)
    BY SumExists
  <2> QED BY <2>1, Zenon
<1>3. iter = [s \in SUBSET S |-> val(s)]
  <2>1. iter = [s \in SUBSET DOMAIN f |-> val(s)]
    BY <1>2, Zenon DEF IsSum, Chosen
  <2> HIDE DEF val, iter
  <2> QED BY <2>1
<1> HIDE DEF val
<1>4. \A s \in SUBSET S : iter[s] = val(s)
  <2> HIDE DEF iter
  <2> QED BY <1>3
<1> HIDE DEF iter
<1>5. Sums_of(iter, f, S)
  BY <1>4 DEF val, Sums_of
<1> QED BY <1>1, <1>5

\* Induction over the subsets of a finite set, by the element that SumFunction takes out.
LEMMA SubsetInduction ==
    ASSUME NEW S, IsFiniteSet(S), NEW T, {} \in T,
           \A s \in SUBSET S :
              s # {} /\ Chosen(s) \in s /\ s \ {Chosen(s)} \in T => s \in T
    PROVE  S \in T
<1> DEFINE K == {n \in Nat : \A s \in SUBSET S : Cardinality(s) <= n => s \in T}
<1>1. 0 \in K
  <2> SUFFICES ASSUME NEW s \in SUBSET S, Cardinality(s) <= 0 PROVE s = {}
    OBVIOUS
  <2>1. IsFiniteSet(s) /\ Cardinality(s) \in Nat
    BY FS_Subset, FS_CardinalityType
  <2> QED BY <2>1, FS_EmptySet
<1>2. ASSUME NEW n \in Nat, n \in K PROVE n + 1 \in K
  <2> SUFFICES ASSUME NEW s \in SUBSET S, Cardinality(s) <= n + 1 PROVE s \in T
    OBVIOUS
  <2>1. CASE s # {}
    <3>1. Chosen(s) \in s /\ s \ {Chosen(s)} \in SUBSET S
          /\ Cardinality(s \ {Chosen(s)}) <= n
      BY <2>1, Smaller DEF Chosen
    <3>2. s \ {Chosen(s)} \in T
      BY <1>2, <3>1
    <3> QED BY <2>1, <3>1, <3>2
  <2> QED BY <2>1
<1>3. \A n \in Nat : n \in K
  <2> HIDE DEF K
  <2> QED BY <1>1, <1>2, Induction
<1>4. Cardinality(S) \in Nat /\ Cardinality(S) <= Cardinality(S)
  BY FS_CardinalityType
<1> QED BY <1>3, <1>4

\* A sum of integers is an integer; when one term grows by at most c and no other
\* grows, neither does the sum grow by more.
LEMMA SumChange ==
    ASSUME NEW S, IsFiniteSet(S), NEW f \in [S -> Int], NEW g \in [S -> Int],
           NEW a \in S, NEW c \in Int, g[a] <= f[a] + c,
           \A x \in S : x # a => g[x] <= f[x]
    PROVE  SumFunction(g) <= SumFunction(f) + c
<1>0. DOMAIN f = S /\ DOMAIN g = S
  OBVIOUS
<1>1. PICK F : SumFunction(f) = F[S] /\ Sums_of(F, f, S)
  BY <1>0, SumBy
<1>2. PICK G : SumFunction(g) = G[S] /\ Sums_of(G, g, S)
  BY <1>0, SumBy
<1> DEFINE ok(s) == /\ F[s] \in Int /\ G[s] \in Int
                    /\ a \in s => G[s] <= F[s] + c
                    /\ a \notin s => G[s] <= F[s]
           T == {s \in SUBSET S : ok(s)}
<1>3. {} \in T
  <2>1. F[{}] = 0 /\ G[{}] = 0
    BY <1>1, <1>2 DEF Sums_of
  <2> QED BY <2>1
<1>4. ASSUME NEW s \in SUBSET S, s # {}, Chosen(s) \in s, s \ {Chosen(s)} \in T
      PROVE  s \in T
  <2> DEFINE x == Chosen(s)
             t == s \ {x}
  <2>1. F[s] = f[x] + F[t] /\ G[s] = g[x] + G[t]
    BY <1>1, <1>2, <1>4 DEF Sums_of
  <2>2. x \in s /\ ok(t)
    BY <1>4
  <2>3. x \in S /\ f[x] \in Int /\ g[x] \in Int /\ (a \in t <=> a \in s /\ a # x)
    BY <2>2
  <2> HIDE DEF x, t
  <2>4. F[s] \in Int /\ G[s] \in Int
    BY <2>1, <2>2, <2>3
  <2>5. CASE x = a
    BY <2>1, <2>2, <2>3, <2>4, <2>5
  <2>6. CASE x # a
    BY <2>1, <2>2, <2>3, <2>4, <2>6
  <2> QED BY <2>5, <2>6
<1>5. S \in T
  <2> HIDE DEF T
  <2> QED BY <1>3, <1>4, SubsetInduction
<1> QED BY <1>1, <1>2, <1>5

\* A sum of integers is an integer, and the sum of no smaller terms is no smaller.
LEMMA SumMonotone ==
    ASSUME NEW S, IsFiniteSet(S), NEW f \in [S -> Int], NEW g \in [S -> Int],
           \A x \in S : g[x] <= f[x]
    PROVE  /\ SumFunction(f) \in Int /\ SumFunction(g) \in Int
           /\ SumFunction(g) <= SumFunction(f)
<1>0. DOMAIN f = S /\ DOMAIN g = S
  OBVIOUS
<1>1. PICK F : SumFunction(f) = F[S] /\ Sums_of(F, f, S)
  BY <1>0, SumBy
<1>2. PICK G : SumFunction(g) = G[S] /\ Sums_of(G, g, S)
  BY <1>0, SumBy
<1> DEFINE ok(s) == F[s] \in Int /\ G[s] \in Int /\ G[s] <= F[s]
           T == {s \in SUBSET S : ok(s)}
<1>3. {} \in T
  <2>1. F[{}] = 0 /\ G[{}] = 0
    BY <1>1, <1>2 DEF Sums_of
  <2> QED BY <2>1
<1>4. ASSUME NEW s \in SUBSET S, s # {}, Chosen(s) \in s, s \ {Chosen(s)} \in T
      PROVE  s \in T
  <2> DEFINE x == Chosen(s)
             t == s \ {x}
  <2>1. F[s] = f[x] + F[t] /\ G[s] = g[x] + G[t]
    BY <1>1, <1>2, <1>4 DEF Sums_of
  <2>2. x \in s /\ ok(t)
    BY <1>4
  <2>3. x \in S /\ f[x] \in Int /\ g[x] \in Int /\ g[x] <= f[x]
    BY <2>2
  <2> HIDE DEF x, t
  <2> QED BY <2>1, <2>2, <2>3
<1>5. S \in T
  <2> HIDE DEF T
  <2> QED BY <1>3, <1>4, SubsetInduction
<1> QED BY <1>1, <1>2, <1>5

\* The sum of zeros.
LEMMA SumZero ==
    ASSUME NEW S, IsFiniteSet(S), NEW f, DOMAIN f = S, \A x \in S : f[x] = 0
    PROVE  SumFunction(f) = 0
<1>1. PICK F : SumFunction(f) = F[S] /\ Sums_of(F, f, S)
  BY SumBy
<1> DEFINE T == {s \in SUBSET S : F[s] = 0}
<1>2. {} \in T
  BY <1>1 DEF Sums_of
<1>3. ASSUME NEW s \in SUBSET S, s # {}, Chosen(s) \in s, s \ {Chosen(s)} \in T
      PROVE  s \in T
  <2>1. F[s] = f[Chosen(s)] + F[s \ {Chosen(s)}]
    BY <1>1, <1>3 DEF Sums_of
  <2>2. f[Chosen(s)] = 0 /\ F[s \ {Chosen(s)}] = 0
    BY <1>3
  <2> QED BY <2>1, <2>2
<1>4. S \in T
  <2> HIDE DEF T
  <2> QED BY <1>2, <1>3, SubsetInduction
<1> QED BY <1>1, <1>4
-----------------------------------------------------------------------------
\* The processes that open a queue.
Children == writers \cup readers

\* Where a process can be.
Labels ==
    {"sleeper", "create", "spawn", "wait", "waited", "destroy", "shutdown", "getc", "open",
     "read", "write", "load", "store", "sleep", "close", "exit", "gone", "abort"}

\* The labels at which a child holds the descriptor of its queue.
Holding == {"read", "write", "load", "store", "sleep", "close"}

\* The first pid that init has not spawned, and the queues it has created.
NextPid ==
    IF pc[init] \in {"sleeper", "create"} THEN 2
    ELSE IF pc[init] = "spawn" THEN i[init] ELSE 2 * NumQueues + 2
NumCreated ==
    IF pc[init] = "sleeper" THEN 0
    ELSE IF pc[init] = "create" THEN i[init] ELSE NumQueues

\* The type of what the program and the invariant read.
TypeOK ==
    /\ pc \in [PCBs -> Labels] /\ fd \in [PCBs -> Int] /\ i \in [PCBs -> Nat]
    /\ register \in [PCBs -> Int] /\ counters \in [{"written", "read"} -> Int]
    /\ resources \in Seq(Int)
    /\ pcbs \subseteq PCBs
    /\ DOMAIN syscall_retvalue = PCBs
    /\ parent \in [PCBs -> {init, NULL}]
    /\ msgs \in [MqBlocks -> Seq(MsgBlocks)] /\ m_pool \subseteq MsgBlocks
    /\ reading_pid \in [MqBlocks -> PCBs \cup {NULL}]
    /\ writing_pid \in [MqBlocks -> PCBs \cup {NULL}]
    /\ resources_list \subseteq MqBlocks
    /\ resource_id \in [MqBlocks -> Int \cup {NULL}]
    /\ descriptors_ptrs \in [MqBlocks -> SUBSET Descriptors]
    /\ desc \in [Descriptors ->
                    [pcb : PCBs \cup {NULL}, resource : MqBlocks \cup {NULL}, fd : Int]]
    /\ descriptors \in [PCBs -> SUBSET Descriptors]
    /\ last_fd \in [PCBs -> Nat]

\* init is on its way to the shutdown, and its array has the ids 0, 1, ... so far.
InitOK ==
    /\ pc[init] \in {"sleeper", "create", "spawn", "wait", "waited", "destroy", "shutdown"}
    /\ pc[init] = "sleeper" => i[init] = 0
    /\ pc[init] = "create" => i[init] \in 0 .. NumQueues - 1 /\ syscall_retvalue[init] \in Nat
    /\ pc[init] = "spawn" => i[init] \in 2 .. 2 * NumQueues + 1
    /\ pc[init] = "destroy" => i[init] \in 1 .. NumQueues
    /\ Len(resources) = NumCreated /\ last_fd[init] = NumCreated
    /\ \A k \in 1 .. NumCreated : resources[k] = k - 1

\* The queues are the ones it created, one for each id, and it has all of them open.
ResourcesOK ==
    /\ \A r \in resources_list :
          /\ resource_id[r] \in 0 .. NumCreated - 1
          /\ \E d \in descriptors[init] : d \in descriptors_ptrs[r]
    /\ \A r, s \in resources_list : resource_id[r] = resource_id[s] => r = s
    /\ \A k \in 0 .. NumCreated - 1 : \E r \in resources_list : resource_id[r] = k

\* A descriptor in use is of one process, and the fds of a process are all different.
DescriptorsOK ==
    /\ \A p \in PCBs : \A d \in descriptors[p] :
          desc[d].pcb = p /\ desc[d].resource \in MqBlocks /\ desc[d].fd \in 0 .. last_fd[p] - 1
    /\ \A p \in PCBs : \A d, e \in descriptors[p] : desc[d].fd = desc[e].fd => d = e
    /\ \A d \in Descriptors :
          desc[d].resource # NULL => \E p \in PCBs : d \in descriptors[p]

\* A child opens once, from an empty PCB, and holds that descriptor up to its close.
ChildrenOK ==
    /\ descriptors[sleeper] = {} /\ last_fd[sleeper] = 0
    /\ \A p \in Children :
          /\ p >= NextPid => pc[p] = "open" /\ p \notin pcbs
          /\ pc[p] = "open" =>
                descriptors[p] = {} /\ last_fd[p] = 0 /\ syscall_retvalue[p] = 0
          /\ pc[p] \in Holding => \E d \in descriptors[p] : desc[d].fd = fd[p]
          /\ last_fd[p] <= 1

\* Who has a role on a queue is the child it is meant for, and is past its open.
RolesOK ==
    \A r \in MqBlocks :
       /\ reading_pid[r] # NULL =>
             /\ r \in resources_list /\ reading_pid[r] \in readers
             /\ resource_id[r] = queue_of(reading_pid[r]) /\ pc[reading_pid[r]] # "open"
       /\ writing_pid[r] # NULL =>
             /\ r \in resources_list /\ writing_pid[r] \in writers
             /\ resource_id[r] = queue_of(writing_pid[r]) /\ pc[writing_pid[r]] # "open"

\* The sums that bound the counters.  Between a write or read and the store of its
\* increment a message is stored or read and not yet counted.
Pending(p) == IF pc[p] \in {"load", "store"} THEN 1 ELSE 0
Settled == SumFunction([w \in writers |-> i[w] - Pending(w)])
Stored == SumFunction([w \in writers |-> i[w]])
Queued == SumFunction([q \in MqBlocks |-> Len(msgs[q])])
Reading == SumFunction([r \in readers |-> Pending(r)])

\* A loaded counter may be stored later: the register is bounded like the counter.
CountersOK ==
    /\ counters["written"] <= Settled
    /\ \A w \in writers : pc[w] = "store" => register[w] <= Settled + 1
    /\ counters["read"] <= Stored - Queued - Reading
    /\ \A r \in readers : pc[r] = "store" => register[r] <= Stored - Queued - Reading + 1

\* A crash may stop the machine in the middle of a call; the counters stand.
Structure == InitOK /\ ResourcesOK /\ DescriptorsOK /\ ChildrenOK /\ RolesOK
Inv == TypeOK /\ AssertsHold /\ CountersOK /\ (machine = "up" => Structure)
-----------------------------------------------------------------------------
\* Pids are numbers: 0 is init, 1 the sleeper, and from 2 on writers and readers take turns.
LEMMA Pids ==
    /\ PCBs \subseteq Nat /\ init \in PCBs /\ sleeper \in PCBs /\ Children \subseteq PCBs
    /\ NULL \notin PCBs /\ init # sleeper /\ init \notin Children /\ sleeper \notin Children
    /\ writers \cap readers = {} /\ PCBs = {init, sleeper} \cup Children
    /\ \A p \in PCBs : p \in Int
BY ProgramAssumption DEF PCBs, init, sleeper, Children, writers, readers

\* The codes, as the modules of the kernel know them.
LEMMA Codes ==
    /\ DSOS_CREATE = 1 /\ DSOS_READ = 2 /\ DSOS_WRITE = 3 /\ MESSAGE_QUEUE_TYPE = 1
    /\ Kernel!R!DSOS_CREATE = 1 /\ Kernel!R!DSOS_READ = 2 /\ Kernel!R!DSOS_WRITE = 3
    /\ Kernel!R!DSOS_EXCL = 4 /\ Kernel!R!MESSAGE_QUEUE_TYPE = 1
    /\ Kernel!R!DSOS_WAITINGFORMESSAGE = DSOS_WAITINGFORMESSAGE
    /\ Kernel!R!DSOS_MESSAGEQUEUEEMPTY = DSOS_MESSAGEQUEUEEMPTY
    /\ Kernel!R!DSOS_MESSAGELENGTHNOTVALID = DSOS_MESSAGELENGTHNOTVALID
    /\ DSOS_WAITINGFORMESSAGE = -22 /\ DSOS_MESSAGEQUEUEEMPTY = -19
    /\ DSOS_MESSAGELENGTHNOTVALID = -17 /\ DSOS_MESSAGEQUEUEFULL = -18
    /\ DSOS_RESOURCENOTFOUND = -20 /\ DSOS_ERESOURCETYPEWRONG = -15
BY DEF DSOS_CREATE, DSOS_READ, DSOS_WRITE, MESSAGE_QUEUE_TYPE,
       Kernel!R!DSOS_CREATE, Kernel!R!DSOS_READ, Kernel!R!DSOS_WRITE, Kernel!R!DSOS_EXCL,
       Kernel!R!MESSAGE_QUEUE_TYPE, Kernel!R!DSOS_WAITINGFORMESSAGE,
       Kernel!R!DSOS_MESSAGEQUEUEEMPTY, Kernel!R!DSOS_MESSAGELENGTHNOTVALID,
       DSOS_WAITINGFORMESSAGE, DSOS_MESSAGEQUEUEEMPTY, DSOS_MESSAGELENGTHNOTVALID,
       DSOS_MESSAGEQUEUEFULL, DSOS_RESOURCENOTFOUND, DSOS_ERESOURCETYPEWRONG

\* Of the state of the kernel the invariant reads the tables, the results and the family.
roles  == <<reading_pid, writing_pid>>
links  == <<resources_list, resource_id, descriptors_ptrs, desc, descriptors, last_fd>>
tables == <<msgs, m_pool, stale_links, roles, links>>

\* A crash leaves all of it as it was.
LEMMA Crash ==
    ASSUME Kernel!R!Segv
    PROVE  machine' = "segv" /\ UNCHANGED <<tables, syscall_retvalue, pcbs>>
BY DEF Kernel!R!Segv, Kernel!R!mqVars, Kernel!R!msgVars, Kernel!R!roleVars, Kernel!R!listVars,
       Kernel!R!descVars, Kernel!R!pcbVars, tables, roles, links

\* So does an early return, but for the result.
LEMMA Refusal ==
    ASSUME NEW p, NEW v, Kernel!R!Refuse(p, v)
    PROVE  /\ syscall_retvalue' = [syscall_retvalue EXCEPT ![p] = v]
           /\ machine' = machine /\ UNCHANGED <<tables, pcbs>>
BY DEF Kernel!R!Refuse, Kernel!R!Return, Kernel!R!mqVars, Kernel!R!msgVars, Kernel!R!roleVars,
       Kernel!R!listVars, Kernel!R!descVars, Kernel!R!pcbVars, tables, roles, links

\* The end of an open that finds a descriptor.
Attached(p, r, users) ==
    \E d \in Descriptors :
       /\ desc[d].resource = NULL
       /\ desc' = [desc EXCEPT ![d] = [pcb |-> p, resource |-> r, fd |-> last_fd[p]]]
       /\ descriptors' = [descriptors EXCEPT ![p] = @ \cup {d}]
       /\ descriptors_ptrs' = [descriptors_ptrs EXCEPT ![r] = users \cup {d}]
       /\ last_fd' = [last_fd EXCEPT ![p] = @ + 1]
       /\ syscall_retvalue' = [syscall_retvalue EXCEPT ![p] = last_fd[p]]
       /\ machine' \in {machine, "segv"}

\* When one is free the open finds it.
LEMMA Attach ==
    ASSUME NEW p, NEW r, NEW users, Kernel!R!AttachDescriptor(p, r, users),
           \E d \in Descriptors : desc[d].resource = NULL
    PROVE  Attached(p, r, users)
BY DEF Kernel!R!AttachDescriptor, Kernel!R!FreeDescriptors, Kernel!R!Return, Attached

\* What a call on resources is: its handler, for the running process.
LEMMA Calls ==
    ASSUME NEW p, running = p
    PROVE  /\ \A id, type, mode : Kernel!disastrOS_openResource(id, type, mode) =>
                Kernel!R!internal_openResource(p, id, type, mode) /\ UNCHANGED parent
           /\ \A f, mode : Kernel!disastrOS_closeResource(f, mode) =>
                Kernel!R!internal_closeResource(p, f, mode) /\ UNCHANGED parent
           /\ \A id : Kernel!disastrOS_destroyResource(id) =>
                Kernel!R!internal_destroyResource(p, id) /\ UNCHANGED parent
           /\ \A f, m : Kernel!disastrOS_mq_write(f, m) =>
                Kernel!R!internal_message_queue_write(p, f, m) /\ UNCHANGED parent
           /\ \A f, length : Kernel!disastrOS_mq_read(f, length) =>
                Kernel!R!internal_message_queue_read(p, f, length) /\ UNCHANGED parent
BY DEF Kernel!disastrOS_openResource, Kernel!disastrOS_closeResource,
       Kernel!disastrOS_destroyResource, Kernel!disastrOS_mq_write, Kernel!disastrOS_mq_read,
       Kernel!Caller, Kernel!processVars

\* A child opens the queue r whose id it passes, when nobody has its role.
LEMMA OpenCall ==
    ASSUME NEW p, NEW id, NEW mode \in {DSOS_READ, DSOS_WRITE}, running = p,
           Kernel!disastrOS_openResource(id, MESSAGE_QUEUE_TYPE, mode),
           resources_list \subseteq MqBlocks,
           NEW r \in resources_list, \A s \in resources_list : resource_id[s] = id <=> s = r,
           mode = DSOS_READ => reading_pid[r] = NULL,
           mode = DSOS_WRITE => writing_pid[r] = NULL,
           \E d \in Descriptors : desc[d].resource = NULL
    PROVE  /\ p \in pcbs /\ UNCHANGED <<pcbs, parent>>
           /\ \/ machine' = "segv" /\ UNCHANGED <<tables, syscall_retvalue>>
              \/ /\ Attached(p, r, descriptors_ptrs[r])
                 /\ reading_pid' = IF mode = DSOS_READ THEN [reading_pid EXCEPT ![r] = p]
                                                      ELSE reading_pid
                 /\ writing_pid' = IF mode = DSOS_WRITE THEN [writing_pid EXCEPT ![r] = p]
                                                       ELSE writing_pid
                 /\ UNCHANGED <<msgs, m_pool, stale_links, resources_list, resource_id>>
<1>1. Kernel!R!internal_openResource(p, id, MESSAGE_QUEUE_TYPE, mode) /\ parent' = parent
  BY Calls
<1>2. p \in pcbs
  BY <1>1 DEF Kernel!R!internal_openResource, Kernel!R!Caller
<1>3. Kernel!R!Named(id) = {r}
  BY DEF Kernel!R!Named
<1>4. Kernel!R!resource_type(r) = MESSAGE_QUEUE_TYPE /\ r \in MqBlocks
  BY Codes DEF Kernel!R!resource_type
<1>5. mode # Kernel!R!DSOS_CREATE /\ mode # Kernel!R!DSOS_EXCL
  BY Codes
<1>6. Kernel!R!Openable(id, MESSAGE_QUEUE_TYPE, mode) = {r}
  BY <1>3, <1>4, <1>5 DEF Kernel!R!Openable
<1>7. Kernel!R!mq_mode_free(r, mode)
  BY Codes DEF Kernel!R!mq_mode_free
<1>8. ~ Kernel!R!OpenMissing(p, id, MESSAGE_QUEUE_TYPE)
  <2>1. r \in Kernel!R!Named(id) /\ Kernel!R!resource_type(r) = MESSAGE_QUEUE_TYPE
    BY <1>3, <1>4
  <2> QED BY <2>1 DEF Kernel!R!OpenMissing
<1>9. ~ Kernel!R!OpenRoleTaken(p, id, MESSAGE_QUEUE_TYPE, mode)
  <2>1. \A q \in Kernel!R!Openable(id, MESSAGE_QUEUE_TYPE, mode) : q = r
    BY <1>6
  <2> QED BY <1>7, <2>1 DEF Kernel!R!OpenRoleTaken
<1>10. \/ Kernel!R!OpenCrashes(id, MESSAGE_QUEUE_TYPE, mode)
       \/ Kernel!R!OpenResource(p, id, MESSAGE_QUEUE_TYPE, mode)
  BY <1>1, <1>5, <1>8, <1>9 DEF Kernel!R!internal_openResource
<1>11. CASE Kernel!R!OpenCrashes(id, MESSAGE_QUEUE_TYPE, mode)
  <2>1. Kernel!R!Segv
    BY <1>11 DEF Kernel!R!OpenCrashes
  <2> QED BY <1>1, <1>2, <2>1, Crash
<1>12. CASE Kernel!R!OpenResource(p, id, MESSAGE_QUEUE_TYPE, mode)
  <2>1. \E q \in {r} :
          /\ q \in MqBlocks => Kernel!R!mq_set_mode(q, mode, p)
          /\ Kernel!R!AttachDescriptor(p, q, descriptors_ptrs[q])
    BY <1>6, <1>12 DEF Kernel!R!OpenResource
  <2>2. Kernel!R!mq_set_mode(r, mode, p) /\ Kernel!R!AttachDescriptor(p, r, descriptors_ptrs[r])
    BY <1>4, <2>1
  <2>3. UNCHANGED <<resources_list, resource_id, pcbs>>
    BY <1>12 DEF Kernel!R!OpenResource, Kernel!R!listVars, Kernel!R!pcbVars
  <2>4. Attached(p, r, descriptors_ptrs[r])
    BY <2>2, Attach
  <2>5. /\ UNCHANGED <<msgs, m_pool, stale_links>>
        /\ reading_pid' = IF mode = DSOS_READ THEN [reading_pid EXCEPT ![r] = p]
                                              ELSE reading_pid
        /\ writing_pid' = IF mode = DSOS_WRITE THEN [writing_pid EXCEPT ![r] = p]
                                               ELSE writing_pid
    BY <2>2, Codes DEF Kernel!R!mq_set_mode, Kernel!R!msgVars
  <2> QED BY <1>1, <1>2, <2>3, <2>4, <2>5
<1> QED BY <1>10, <1>11, <1>12

\* init creates a queue for an id that no resource has.
LEMMA CreateCall ==
    ASSUME NEW p, NEW id, running = p,
           Kernel!disastrOS_openResource(id, MESSAGE_QUEUE_TYPE, DSOS_CREATE),
           \A s \in resources_list : resource_id[s] # id,
           \E d \in Descriptors : desc[d].resource = NULL
    PROVE  /\ UNCHANGED <<pcbs, parent>>
           /\ \/ machine' = "segv" /\ UNCHANGED <<tables, syscall_retvalue>>
              \/ \E r \in MqBlocks \ resources_list :
                    /\ Attached(p, r, {})
                    /\ resources_list' = resources_list \cup {r}
                    /\ resource_id' = [resource_id EXCEPT ![r] = id]
                    /\ msgs' = [msgs EXCEPT ![r] = <<>>]
                    /\ UNCHANGED <<m_pool, stale_links, roles>>
<1>1. Kernel!R!internal_openResource(p, id, MESSAGE_QUEUE_TYPE, DSOS_CREATE)
      /\ parent' = parent
  BY Calls
<1>2. Kernel!R!Named(id) = {}
  BY DEF Kernel!R!Named
<1>3. \/ Kernel!R!CreateCrashes(id, MESSAGE_QUEUE_TYPE)
      \/ Kernel!R!CreateResource(p, id, MESSAGE_QUEUE_TYPE)
  BY <1>1, <1>2, Codes DEF Kernel!R!internal_openResource, Kernel!R!CreateExisting
<1>4. CASE Kernel!R!CreateCrashes(id, MESSAGE_QUEUE_TYPE)
  <2>1. Kernel!R!Segv
    BY <1>4 DEF Kernel!R!CreateCrashes
  <2> QED BY <1>1, <2>1, Crash
<1>5. CASE Kernel!R!CreateResource(p, id, MESSAGE_QUEUE_TYPE)
  <2>1. PICK r \in Kernel!R!FreeResources(MESSAGE_QUEUE_TYPE) :
          /\ resources_list' = resources_list \cup {r}
          /\ resource_id' = [resource_id EXCEPT ![r] = id]
          /\ r \in MqBlocks => Kernel!R!mq_alloc(r)
          /\ Kernel!R!AttachDescriptor(p, r, {})
    BY <1>5 DEF Kernel!R!CreateResource
  <2>2. r \in MqBlocks \ resources_list
    BY DEF Kernel!R!FreeResources, Kernel!R!Blocks
  <2>3. msgs' = [msgs EXCEPT ![r] = <<>>] /\ UNCHANGED <<m_pool, stale_links, roles>>
    BY <2>1, <2>2 DEF Kernel!R!mq_alloc, Kernel!R!roleVars, roles
  <2>4. Attached(p, r, {})
    BY <2>1, Attach
  <2>5. pcbs' = pcbs
    BY <1>5 DEF Kernel!R!CreateResource, Kernel!R!pcbVars
  <2> QED BY <1>1, <2>1, <2>2, <2>3, <2>4, <2>5
<1> QED BY <1>3, <1>4, <1>5

\* p gives back the descriptors ds.
Released(p, ds) ==
    /\ descriptors' = [descriptors EXCEPT ![p] = @ \ ds]
    /\ descriptors_ptrs' = [r \in MqBlocks |-> descriptors_ptrs[r] \ ds]
    /\ desc' = [d \in Descriptors |->
                  IF d \in ds THEN [pcb |-> NULL, resource |-> NULL, fd |-> 0] ELSE desc[d]]

\* ReleaseDescriptors of the kernel does that.
LEMMA Release ==
    ASSUME NEW p, NEW ds, Kernel!R!ReleaseDescriptors(p, ds)
    PROVE  Released(p, ds)
BY DEF Kernel!R!ReleaseDescriptors, Kernel!R!Blocks, Kernel!R!FreeDescriptor, Released

\* A close of a descriptor of a queue gives it back and the role that is named, if any.
LEMMA CloseCall ==
    ASSUME NEW p, NEW f, NEW mode, running = p, Kernel!disastrOS_closeResource(f, mode),
           \E d \in descriptors[p] : desc[d].fd = f,
           \A d \in descriptors[p] : desc[d].resource \in MqBlocks
    PROVE  /\ UNCHANGED <<pcbs, parent, machine, msgs, m_pool, stale_links, resources_list,
                        resource_id, last_fd>>
           /\ syscall_retvalue' = [syscall_retvalue EXCEPT ![p] = 0]
           /\ \E d \in descriptors[p] :
                /\ Released(p, {d})
                /\ reading_pid' = IF mode = DSOS_READ
                                     THEN [reading_pid EXCEPT ![desc[d].resource] = NULL]
                                     ELSE reading_pid
                /\ writing_pid' = IF mode = DSOS_WRITE
                                     THEN [writing_pid EXCEPT ![desc[d].resource] = NULL]
                                     ELSE writing_pid
<1>1. Kernel!R!internal_closeResource(p, f, mode) /\ parent' = parent
  BY Calls
<1>2. Kernel!R!Held(p, f) # {}
  BY DEF Kernel!R!Held
<1>3. Kernel!R!CloseResource(p, f, mode)
  BY <1>1, <1>2 DEF Kernel!R!internal_closeResource, Kernel!R!CloseUnknown
<1>4. PICK d \in Kernel!R!Held(p, f) :
        /\ Kernel!R!ReleaseDescriptors(p, {d})
        /\ desc[d].resource \in MqBlocks => Kernel!R!mq_delete_mode(desc[d].resource, mode)
  BY <1>3 DEF Kernel!R!CloseResource
<1>5. d \in descriptors[p]
  BY DEF Kernel!R!Held
<1>6. Kernel!R!mq_delete_mode(desc[d].resource, mode)
  BY <1>4, <1>5
<1>7. /\ UNCHANGED <<msgs, m_pool, stale_links>>
      /\ reading_pid' = IF mode = DSOS_READ
                           THEN [reading_pid EXCEPT ![desc[d].resource] = NULL]
                           ELSE reading_pid
      /\ writing_pid' = IF mode = DSOS_WRITE
                           THEN [writing_pid EXCEPT ![desc[d].resource] = NULL]
                           ELSE writing_pid
  BY <1>6, Codes DEF Kernel!R!mq_delete_mode, Kernel!R!msgVars
<1>8. UNCHANGED <<pcbs, machine, resources_list, resource_id, last_fd>>
      /\ syscall_retvalue' = [syscall_retvalue EXCEPT ![p] = 0]
  BY <1>3 DEF Kernel!R!CloseResource, Kernel!R!listVars, Kernel!R!pcbVars, Kernel!R!Return
<1>9. Released(p, {d})
  BY <1>4, Release
<1> QED BY <1>1, <1>5, <1>7, <1>8, <1>9

\* The queues that p holds.
Reached(p) == {desc[d].resource : d \in descriptors[p]} \cap MqBlocks

\* Behind a descriptor of a process that holds only queues is a queue.
LEMMA HeldQueues ==
    ASSUME NEW p, NEW f, \E d \in descriptors[p] : desc[d].fd = f,
           \A d \in descriptors[p] : desc[d].resource \in MqBlocks
    PROVE  /\ Kernel!R!Held(p, f) # {} /\ Kernel!R!HeldQueue(p, f) # {}
           /\ Kernel!R!HeldQueue(p, f) \subseteq Reached(p) /\ Reached(p) \subseteq MqBlocks
           /\ ~ Kernel!R!BadDescriptor(p, f)
<1>1. /\ Kernel!R!Held(p, f) # {} /\ Kernel!R!HeldQueue(p, f) \subseteq Reached(p)
      /\ Reached(p) \subseteq MqBlocks
  BY DEF Kernel!R!Held, Kernel!R!HeldQueue, Reached
<1>2. PICK d \in Kernel!R!Held(p, f) : desc[d].resource \in MqBlocks
  BY DEF Kernel!R!Held
<1>3. Kernel!R!HeldQueue(p, f) # {}
  <2>1. desc[d].resource \in Kernel!R!HeldQueue(p, f)
    BY <1>2 DEF Kernel!R!HeldQueue
  <2> QED BY <2>1
<1> QED BY <1>1, <1>3 DEF Kernel!R!BadDescriptor

\* A read of a queue takes its first message, or leaves with one of three errors.
LEMMA ReadCall ==
    ASSUME NEW p \in PCBs, NEW f, NEW length, running = p, Kernel!disastrOS_mq_read(f, length),
           \E d \in descriptors[p] : desc[d].fd = f,
           \A d \in descriptors[p] : desc[d].resource \in MqBlocks,
           DOMAIN syscall_retvalue = PCBs
    PROVE  /\ UNCHANGED <<pcbs, parent, machine, links, roles, stale_links>>
           /\ \E v : syscall_retvalue' = [syscall_retvalue EXCEPT ![p] = v]
           /\ \E q \in Reached(p) :
                \/ /\ UNCHANGED <<msgs, m_pool>>
                   /\ syscall_retvalue'[p] \in {DSOS_WAITINGFORMESSAGE, DSOS_MESSAGEQUEUEEMPTY,
                                                DSOS_MESSAGELENGTHNOTVALID}
                   /\ syscall_retvalue'[p] = DSOS_MESSAGEQUEUEEMPTY =>
                         msgs[q] = <<>> /\ writing_pid[q] = NULL
                \/ /\ msgs[q] # <<>>
                   /\ msgs' = [msgs EXCEPT ![q] = Tail(@)]
                   /\ m_pool' = m_pool \cup {Head(msgs[q])}
                   /\ syscall_retvalue'[p] = message[Head(msgs[q])].length
<1>1. Kernel!R!internal_message_queue_read(p, f, length) /\ parent' = parent
  BY Calls
<1>2. /\ Kernel!R!HeldQueue(p, f) # {} /\ Kernel!R!HeldQueue(p, f) \subseteq Reached(p)
      /\ ~ Kernel!R!BadDescriptor(p, f)
  BY HeldQueues
<1>3. \/ Kernel!R!ReadEmpty(p, f) \/ Kernel!R!ReadTooLong(p, f, length)
      \/ Kernel!R!ReadMessage(p, f, length)
  BY <1>1, <1>2 DEF Kernel!R!internal_message_queue_read
<1>4. CASE Kernel!R!ReadEmpty(p, f)
  <2>1. PICK q \in Kernel!R!HeldQueue(p, f), v \in {DSOS_WAITINGFORMESSAGE, DSOS_MESSAGEQUEUEEMPTY} :
           /\ Kernel!R!Refuse(p, v) /\ msgs[q] = <<>>
           /\ v = DSOS_MESSAGEQUEUEEMPTY => writing_pid[q] = NULL
    BY <1>4, Codes DEF Kernel!R!ReadEmpty
  <2>2. /\ syscall_retvalue' = [syscall_retvalue EXCEPT ![p] = v]
        /\ machine' = machine /\ UNCHANGED <<tables, pcbs>>
    BY <2>1, Refusal
  <2>3. syscall_retvalue'[p] = v /\ q \in Reached(p)
    BY <1>2, <2>2
  <2> QED BY <1>1, <2>1, <2>2, <2>3 DEF tables
<1>5. CASE Kernel!R!ReadTooLong(p, f, length)
  <2>1. Kernel!R!Refuse(p, DSOS_MESSAGELENGTHNOTVALID)
    BY <1>5, Codes DEF Kernel!R!ReadTooLong
  <2>2. /\ syscall_retvalue' = [syscall_retvalue EXCEPT ![p] = DSOS_MESSAGELENGTHNOTVALID]
        /\ machine' = machine /\ UNCHANGED <<tables, pcbs>>
    BY <2>1, Refusal
  <2>3. syscall_retvalue'[p] = DSOS_MESSAGELENGTHNOTVALID /\ \E q : q \in Reached(p)
    BY <1>2, <2>2
  <2>4. DSOS_MESSAGELENGTHNOTVALID # DSOS_MESSAGEQUEUEEMPTY
    BY Codes
  <2> QED BY <1>1, <2>2, <2>3, <2>4 DEF tables
<1>6. CASE Kernel!R!ReadMessage(p, f, length)
  <2>1. PICK q \in Kernel!R!HeldQueue(p, f) :
           msgs[q] # <<>> /\ Kernel!R!DetachFirst(q)
           /\ Kernel!R!Return(p, message[Head(msgs[q])].length)
    BY <1>6 DEF Kernel!R!ReadMessage
  <2>2. /\ msgs' = [msgs EXCEPT ![q] = Tail(@)] /\ m_pool' = m_pool \cup {Head(msgs[q])}
        /\ UNCHANGED <<roles, stale_links>> /\ q \in Reached(p)
    BY <1>2, <2>1 DEF Kernel!R!DetachFirst, Kernel!R!roleVars, roles
  <2>3. UNCHANGED <<pcbs, machine, links>>
    BY <1>6 DEF Kernel!R!ReadMessage, Kernel!R!listVars, Kernel!R!descVars, Kernel!R!pcbVars,
                links
  <2>4. syscall_retvalue' = [syscall_retvalue EXCEPT ![p] = message[Head(msgs[q])].length]
    BY <2>1 DEF Kernel!R!Return
  <2>5. syscall_retvalue'[p] = message[Head(msgs[q])].length
    BY <2>4
  <2> QED BY <1>1, <2>1, <2>2, <2>3, <2>4, <2>5
<1> QED BY <1>3, <1>4, <1>5, <1>6

\* A write to a queue stores a message and returns 1, or changes no queue.
LEMMA WriteCall ==
    ASSUME NEW p \in PCBs, NEW f, running = p, Kernel!disastrOS_mq_write(f, Text(p)),
           \E d \in descriptors[p] : desc[d].fd = f,
           \A d \in descriptors[p] : desc[d].resource \in MqBlocks,
           DOMAIN syscall_retvalue = PCBs
    PROVE  /\ UNCHANGED <<pcbs, parent, links, roles, stale_links>>
           /\ machine' = machine \/ machine' = "segv"
           /\ \/ /\ UNCHANGED <<msgs, m_pool, syscall_retvalue>>
                 /\ machine' # "segv" => \E q \in Reached(p) : Len(msgs[q]) = Iterations
              \/ /\ syscall_retvalue' = [syscall_retvalue EXCEPT ![p] = 1]
                 /\ \E q \in Reached(p), b \in m_pool :
                       /\ msgs' = IF b \in stale_links THEN msgs
                                                      ELSE [msgs EXCEPT ![q] = Append(@, b)]
                       /\ m_pool' = m_pool \ {b}
<1> USE DEF Text
<1>1. Kernel!R!internal_message_queue_write(p, f, Text(p)) /\ parent' = parent
  BY Calls
<1>2. /\ Kernel!R!HeldQueue(p, f) # {} /\ Kernel!R!HeldQueue(p, f) \subseteq Reached(p)
      /\ ~ Kernel!R!BadDescriptor(p, f)
  BY HeldQueues
<1>3. Kernel!R!ValidLength(Text(p))
  BY DEF Kernel!R!ValidLength
<1>4. \/ Kernel!R!WriteFull(p, f) \/ Kernel!R!WriteCrashes(p, f)
      \/ Kernel!R!WriteMessage(p, f, Text(p))
  BY <1>1, <1>2, <1>3 DEF Kernel!R!internal_message_queue_write, Kernel!R!WriteInvalid
<1>5. CASE Kernel!R!WriteFull(p, f)
  <2>1. UNCHANGED <<tables, pcbs, machine, syscall_retvalue>>
    BY <1>5 DEF Kernel!R!WriteFull, Kernel!R!mqVars, Kernel!R!msgVars, Kernel!R!roleVars,
                Kernel!R!listVars, Kernel!R!descVars, tables, roles, links
  <2>2. \E q \in Reached(p) : Len(msgs[q]) = Iterations
    BY <1>2, <1>5 DEF Kernel!R!WriteFull
  <2> QED BY <1>1, <2>1, <2>2 DEF tables
<1>6. CASE Kernel!R!WriteCrashes(p, f)
  <2>1. Kernel!R!Segv
    BY <1>6 DEF Kernel!R!WriteCrashes
  <2> QED BY <1>1, <2>1, Crash DEF tables
<1>7. CASE Kernel!R!WriteMessage(p, f, Text(p))
  <2>1. PICK q \in Kernel!R!HeldQueue(p, f), b \in m_pool :
           Kernel!R!AppendMessage(q, b, Text(p))
    BY <1>7 DEF Kernel!R!WriteMessage
  <2>2. /\ msgs' = IF b \in stale_links THEN msgs ELSE [msgs EXCEPT ![q] = Append(@, b)]
        /\ m_pool' = m_pool \ {b}
    BY <2>1 DEF Kernel!R!AppendMessage, Kernel!R!Inserted
  <2>3. UNCHANGED <<roles, stale_links>> /\ q \in Reached(p)
    BY <1>2, <2>1 DEF Kernel!R!AppendMessage, Kernel!R!roleVars, roles
  <2>4. /\ UNCHANGED <<pcbs, machine, links>>
        /\ syscall_retvalue' = [syscall_retvalue EXCEPT ![p] = 1]
    BY <1>7 DEF Kernel!R!WriteMessage, Kernel!R!listVars, Kernel!R!descVars, Kernel!R!pcbVars,
                Kernel!R!Return, links
  <2> QED BY <1>1, <2>2, <2>3, <2>4
<1> QED BY <1>4, <1>5, <1>6, <1>7

\* A destroy changes no table while every resource has a descriptor.
LEMMA DestroyCall ==
    ASSUME NEW p, NEW id, running = p, Kernel!disastrOS_destroyResource(id),
           \A r \in resources_list : descriptors_ptrs[r] # {}
    PROVE  /\ UNCHANGED <<pcbs, parent, machine, tables>>
           /\ \E v : syscall_retvalue' = [syscall_retvalue EXCEPT ![p] = v]
<1>1. Kernel!R!internal_destroyResource(p, id) /\ parent' = parent
  BY Calls
<1>2. \A r \in Kernel!R!Named(id) : Kernel!R!InUse(r)
  BY DEF Kernel!R!Named, Kernel!R!InUse
<1>3. PICK v : Kernel!R!Refuse(p, v)
  BY <1>1, <1>2 DEF Kernel!R!internal_destroyResource, Kernel!R!DestroyMissing,
                    Kernel!R!DestroyInUse, Kernel!R!DestroyResource
<1> QED BY <1>1, <1>3, Refusal

\* init spawns p, which has no descriptors yet.
LEMMA SpawnCall ==
    ASSUME NEW p \in PCBs, running = init, Spawn(p),
           descriptors \in [PCBs -> SUBSET Descriptors], descriptors[p] = {},
           last_fd \in [PCBs -> Nat], last_fd[p] = 0
    PROVE  /\ UNCHANGED tables /\ pcbs' = pcbs \cup {p}
           /\ \/ machine' = "segv" /\ UNCHANGED <<parent, syscall_retvalue>>
              \/ /\ syscall_retvalue' = [syscall_retvalue EXCEPT ![init] = p]
                 /\ parent' = [parent EXCEPT ![p] = init]
                 /\ status' = [status EXCEPT ![p] = "Ready"]
                 /\ UNCHANGED <<machine, init_pcb, awaits>>
<1>1. Kernel!P!internal_spawn /\ Kernel!ResetNewPCB /\ pcbs' = pcbs \cup {p}
  BY DEF Spawn, Kernel!disastrOS_spawn
<1>2. UNCHANGED <<descriptors, last_fd>>
  <2>1. CASE \E b \in PCBs \ pcbs : pcbs' = pcbs \cup {b} /\ Kernel!R!PCB_reset(b)
    <3>1. PICK b \in PCBs \ pcbs : pcbs' = pcbs \cup {b} /\ Kernel!R!PCB_reset(b)
      BY <2>1
    <3>2. b = p
      BY <1>1, <3>1
    <3>3. descriptors' = [descriptors EXCEPT ![p] = {}] /\ last_fd' = [last_fd EXCEPT ![p] = 0]
      BY <3>1, <3>2 DEF Kernel!R!PCB_reset
    <3> QED BY <3>3
  <2> QED BY <1>1, <2>1 DEF Kernel!ResetNewPCB
<1>3. UNCHANGED tables
  BY <1>1, <1>2 DEF Kernel!ResetNewPCB, Kernel!queueVars, Kernel!pointerVars, tables, roles, links
<1>4. CASE Kernel!P!Segv
  BY <1>1, <1>3, <1>4 DEF Kernel!P!Segv, Kernel!P!Stop, Kernel!P!family
<1>5. CASE \E b \in PCBs : Kernel!P!NewChild(b)
  <2>1. PICK b \in PCBs : Kernel!P!NewChild(b)
    BY <1>5
  <2>2. /\ b \notin pcbs /\ pcbs' = pcbs \cup {b}
        /\ syscall_retvalue' = [syscall_retvalue EXCEPT ![init] = b]
        /\ parent' = [parent EXCEPT ![b] = init]
        /\ status' = [status EXCEPT ![b] = "Ready"]
        /\ UNCHANGED <<machine, init_pcb, awaits>>
    BY <2>1 DEF Kernel!P!NewChild, Kernel!P!FreeBlocks, Kernel!P!Return
  <2>3. b = p
    BY <1>1, <2>2
  <2> QED BY <1>1, <1>3, <2>2, <2>3
<1> QED BY <1>1, <1>4, <1>5 DEF Kernel!P!internal_spawn

\* What an exit does: p may go, with its descriptors, and its parent may get a result.
LEMMA ExitCall ==
    ASSUME NEW p, NEW value, running = p, Kernel!disastrOS_exit(value)
    PROVE  /\ pcbs' \subseteq pcbs
           /\ parent' = parent \/ parent' = [parent EXCEPT ![p] = NULL]
           /\ \/ syscall_retvalue' = syscall_retvalue
              \/ /\ parent[p] # NULL
                 /\ syscall_retvalue' = [syscall_retvalue EXCEPT ![parent[p]] = p]
           /\ UNCHANGED <<msgs, m_pool, roles, resources_list, resource_id, last_fd>>
           /\ \/ UNCHANGED links
              \/ Released(p, descriptors[p])
<1>1. /\ Kernel!P!internal_exit /\ Kernel!ReleaseAtDeath(p)
      /\ UNCHANGED <<Kernel!queueVars, last_fd>>
  BY DEF Kernel!disastrOS_exit
<1>2. UNCHANGED <<msgs, m_pool, roles, resources_list, resource_id, last_fd>>
  BY <1>1 DEF Kernel!queueVars, roles
<1>3. UNCHANGED links \/ Released(p, descriptors[p])
  <2>1. CASE UNCHANGED <<descriptors, Kernel!pointerVars>>
    BY <1>2, <2>1 DEF Kernel!pointerVars, links
  <2>2. CASE Kernel!R!ReleaseDescriptors(p, descriptors[p])
    BY <2>2, Release
  <2> QED BY <1>1, <2>1, <2>2 DEF Kernel!ReleaseAtDeath
<1>4. CASE Kernel!P!ExitHangs \/ Kernel!P!ExitCrashes
  <2>1. UNCHANGED <<pcbs, parent, syscall_retvalue>>
    BY <1>4 DEF Kernel!P!ExitHangs, Kernel!P!ExitCrashes, Kernel!P!Segv, Kernel!P!Stop,
                Kernel!P!family
  <2> QED BY <1>2, <1>3, <2>1
<1>5. CASE Kernel!P!ExitWakesParent
  <2>1. /\ parent[p] # NULL /\ pcbs' = pcbs \ {p} /\ parent' = [parent EXCEPT ![p] = NULL]
        /\ syscall_retvalue' = [syscall_retvalue EXCEPT ![parent[p]] = p]
    BY <1>5 DEF Kernel!P!ExitWakesParent
  <2> QED BY <1>2, <1>3, <2>1
<1>6. CASE Kernel!P!ExitToZombie
  <2>1. UNCHANGED <<pcbs, parent, syscall_retvalue>>
    BY <1>6 DEF Kernel!P!ExitToZombie
  <2> QED BY <1>2, <1>3, <2>1
<1> QED BY <1>1, <1>4, <1>5, <1>6 DEF Kernel!P!internal_exit

\* The other calls on processes change no table.
LEMMA OtherCall ==
    ASSUME NEW p, running = p,
           \/ Kernel!disastrOS_wait(AnyChild)
           \/ \E ticks : Kernel!disastrOS_sleep(ticks)
           \/ Kernel!disastrOS_shutdown
    PROVE  /\ UNCHANGED tables /\ pcbs' \subseteq pcbs
           /\ parent' = parent \/ \E b : parent' = [parent EXCEPT ![b] = NULL]
           /\ \/ syscall_retvalue' = syscall_retvalue
              \/ \E v : syscall_retvalue' = [syscall_retvalue EXCEPT ![p] = v]
<1> USE DEF Kernel!P!family
<1>1. ASSUME UNCHANGED Kernel!resourceVars PROVE UNCHANGED tables
  BY <1>1 DEF Kernel!resourceVars, Kernel!queueVars, Kernel!pointerVars, tables, roles, links
<1>2. CASE Kernel!disastrOS_wait(AnyChild)
  <2>1. Kernel!P!internal_wait(AnyChild) /\ UNCHANGED tables
    BY <1>1, <1>2 DEF Kernel!disastrOS_wait
  <2>2. CASE Kernel!P!WaitNoChildren
    BY <2>1, <2>2 DEF Kernel!P!WaitNoChildren, Kernel!P!Return
  <2>3. CASE Kernel!P!WaitReaps(AnyChild)
    BY <2>1, <2>3 DEF Kernel!P!WaitReaps, Kernel!P!Return
  <2>4. CASE Kernel!P!WaitBlocks(AnyChild)
    BY <2>1, <2>4 DEF Kernel!P!WaitBlocks
  <2>5. CASE Kernel!P!WaitCrashes(AnyChild)
    BY <2>1, <2>5 DEF Kernel!P!WaitCrashes, Kernel!P!Segv, Kernel!P!Stop
  <2> QED BY <2>1, <2>2, <2>3, <2>4, <2>5 DEF Kernel!P!internal_wait
<1>3. CASE \E ticks : Kernel!disastrOS_sleep(ticks)
  <2>1. PICK ticks : Kernel!P!internal_sleep(ticks) /\ UNCHANGED tables
    BY <1>1, <1>3 DEF Kernel!disastrOS_sleep
  <2>2. UNCHANGED <<pcbs, parent>>
    BY <2>1 DEF Kernel!P!internal_sleep
  <2>3. \/ syscall_retvalue' = syscall_retvalue
        \/ \E v : syscall_retvalue' = [syscall_retvalue EXCEPT ![p] = v]
    BY <2>1 DEF Kernel!P!internal_sleep, Kernel!P!Return
  <2> QED BY <2>1, <2>2, <2>3
<1>4. CASE Kernel!disastrOS_shutdown
  <2>1. Kernel!P!internal_shutdown /\ UNCHANGED tables
    BY <1>1, <1>4 DEF Kernel!disastrOS_shutdown
  <2> QED BY <2>1 DEF Kernel!P!internal_shutdown, Kernel!P!Stop
<1> QED BY <1>2, <1>3, <1>4

\* The tick changes no result either.
LEMMA Tick ==
    ASSUME Kernel!timerInterrupt
    PROVE  UNCHANGED <<tables, pcbs, parent, syscall_retvalue>>
<1> USE DEF Kernel!P!family
<1>1. Kernel!P!timerInterrupt /\ UNCHANGED tables
  BY DEF Kernel!timerInterrupt, Kernel!resourceVars, Kernel!queueVars, Kernel!pointerVars,
         tables, roles, links
<1>2. CASE \E list : Kernel!P!internal_schedule(list)
  BY <1>1, <1>2 DEF Kernel!P!internal_schedule
<1>3. CASE Kernel!P!Segv
  BY <1>1, <1>3 DEF Kernel!P!Segv, Kernel!P!Stop
<1> QED BY <1>1, <1>2, <1>3 DEF Kernel!P!timerInterrupt
-----------------------------------------------------------------------------
\* The pids of the roles, and the queues they name.
LEMMA Roles ==
    /\ Children = 2 .. 2 * NumQueues + 1 /\ PCBs = 0 .. 2 * NumQueues + 1
    /\ \A p \in Children : queue_of(p) \in 0 .. NumQueues - 1
    /\ \A p, q \in readers : queue_of(p) = queue_of(q) => p = q
    /\ \A p, q \in writers : queue_of(p) = queue_of(q) => p = q
<1>0. NumQueues \in Nat \ {0}
  BY ProgramAssumption
<1>1. \A w \in writers : \E q \in 1 .. NumQueues : w = 2 * q /\ queue_of(w) = q - 1
  BY <1>0 DEF writers, queue_of
<1>2. \A r \in readers : \E q \in 1 .. NumQueues : r = 2 * q + 1 /\ queue_of(r) = q - 1
  BY <1>0 DEF writers, readers, queue_of
<1>3. Children \subseteq 2 .. 2 * NumQueues + 1
  BY <1>0, <1>1, <1>2 DEF Children
<1>4. ASSUME NEW p \in 2 .. 2 * NumQueues + 1 PROVE p \in Children
  <2>1. PICK q \in 1 .. NumQueues : p = 2 * q \/ p = 2 * q + 1
    <3>1. p \div 2 \in 1 .. NumQueues /\ (p = 2 * (p \div 2) \/ p = 2 * (p \div 2) + 1)
      BY <1>0
    <3> QED BY <3>1
  <2> QED BY <2>1 DEF Children, readers, writers
<1>5. Children = 2 .. 2 * NumQueues + 1
  BY <1>3, <1>4
<1>6. PCBs = 0 .. 2 * NumQueues + 1
  BY <1>0, <1>5, Pids DEF init, sleeper
<1>7. \A p \in Children : queue_of(p) \in 0 .. NumQueues - 1
  BY <1>0, <1>1, <1>2 DEF Children
<1> QED BY <1>1, <1>2, <1>5, <1>6, <1>7

\* There is a descriptor for whoever opens: at most three are asked for, for each queue.
LEMMA DescriptorFree ==
    ASSUME TypeOK, Structure, NEW p \in PCBs,
           \/ pc[p] = "open" /\ p \in Children
           \/ pc[p] = "create" /\ p = init
    PROVE  \E d \in Descriptors : desc[d].resource = NULL
<1> SUFFICES ASSUME \A d \in Descriptors : desc[d].resource # NULL PROVE FALSE
  OBVIOUS
<1> USE DEF Structure
<1>0. NumQueues \in Nat \ {0}
  BY ProgramAssumption
<1> DEFINE Slot(x, k) == IF x = init THEN k ELSE NumQueues + x - 2
           S == 0 .. 3 * NumQueues - 1
           mine == Slot(p, NumCreated)
           T == S \ {mine}
           f == [d \in Descriptors |-> Slot(desc[d].pcb, desc[d].fd)]
<1>1. \A d \in Descriptors : \E x \in PCBs : d \in descriptors[x] /\ desc[d].pcb = x
  BY DEF DescriptorsOK
<1>2. ASSUME NEW x \in PCBs, NEW d \in descriptors[x]
      PROVE  \/ x = init /\ desc[d].fd \in 0 .. NumCreated - 1
             \/ x \in Children /\ desc[d].fd = 0 /\ pc[x] # "open"
  <2>1. x # sleeper /\ (x \in Children => pc[x] # "open")
    BY <1>2 DEF ChildrenOK
  <2>2. desc[d].fd \in 0 .. last_fd[x] - 1
    BY <1>2 DEF DescriptorsOK
  <2>3. x = init \/ x \in Children
    BY <2>1, Pids
  <2>4. CASE x = init
    BY <2>2, <2>4 DEF InitOK
  <2>5. CASE x \in Children
    <3>1. last_fd[x] \in Nat /\ last_fd[x] <= 1
      BY <2>5 DEF ChildrenOK, TypeOK
    <3> QED BY <2>1, <2>2, <2>5, <3>1
  <2> QED BY <2>3, <2>4, <2>5
<1>3. NumCreated \in 0 .. NumQueues
  <2>1. pc[init] = "create" => i[init] \in 0 .. NumQueues - 1
    BY DEF InitOK
  <2> QED BY <1>0, <2>1 DEF NumCreated
<1>4. p = init => NumCreated \in 0 .. NumQueues - 1
  BY Pids, <1>0 DEF InitOK, NumCreated
<1>5. mine \in S
  BY <1>0, <1>4, Roles, Pids
<1>6. ASSUME NEW d \in Descriptors PROVE f[d] \in T
  <2>1. PICK x \in PCBs : d \in descriptors[x] /\ desc[d].pcb = x
    BY <1>1
  <2>2. f[d] = Slot(x, desc[d].fd)
    BY <2>1
  <2> HIDE DEF f
  <2>3. CASE x = init
    <3>1. f[d] \in 0 .. NumCreated - 1
      BY <1>2, <2>1, <2>2, <2>3, Pids
    <3>2. p = init \/ p \in 2 .. 2 * NumQueues + 1
      BY Roles
    <3>3. NumCreated <= mine
      BY <1>0, <1>3, <3>2
    <3> QED BY <1>0, <1>3, <3>1, <3>3
  <2>4. CASE x \in Children
    <3>1. x # p /\ x # init
      BY <1>2, <2>1, <2>4, Pids
    <3>2. x \in 2 .. 2 * NumQueues + 1 /\ f[d] = NumQueues + x - 2
      BY <2>2, <2>4, <3>1, Roles
    <3>3. p = init \/ p \in 2 .. 2 * NumQueues + 1
      BY Roles
    <3> QED BY <1>0, <1>4, <3>1, <3>2, <3>3
  <2> QED BY <1>2, <2>1, <2>3, <2>4
<1>7. ASSUME NEW d \in Descriptors, NEW e \in Descriptors, f[d] = f[e] PROVE d = e
  <2>1. PICK x \in PCBs : d \in descriptors[x] /\ desc[d].pcb = x
    BY <1>1
  <2>2. PICK y \in PCBs : e \in descriptors[y] /\ desc[e].pcb = y
    BY <1>1
  <2>3. Slot(x, desc[d].fd) = Slot(y, desc[e].fd)
    BY <1>7, <2>1, <2>2
  <2> HIDE DEF f
  <2>4. x = y /\ desc[d].fd = desc[e].fd
    BY <1>0, <1>2, <1>3, <2>1, <2>2, <2>3, Roles, Pids
  <2> QED BY <2>1, <2>2, <2>4 DEF DescriptorsOK
<1>8. IsFiniteSet(S) /\ Cardinality(S) = 3 * NumQueues
  BY <1>0, FS_Interval
<1>9. IsFiniteSet(T) /\ Cardinality(T) = 3 * NumQueues - 1
  <2> HIDE DEF S, mine
  <2>1. IsFiniteSet(T) /\ Cardinality(T) = Cardinality(S) - 1
    BY <1>5, <1>8, FS_RemoveElement
  <2> QED BY <1>8, <2>1
<1>10. IsFiniteSet(Descriptors) /\ Cardinality(Descriptors) >= 3 * NumQueues
       /\ Cardinality(Descriptors) \in Nat
  BY ProgramAssumption, FS_CardinalityType
<1>11. Cardinality(T) < Cardinality(Descriptors)
  BY <1>0, <1>9, <1>10
<1>12. f \in [Descriptors -> T]
  BY <1>6
<1> HIDE DEF f, T
<1> QED BY <1>7, <1>9, <1>10, <1>11, <1>12, FS_PigeonHole
-----------------------------------------------------------------------------
\* What a step keeps when it changes no role or descriptor, spawns in order, and moves a
\* child neither to nor from its open, nor to where it holds a descriptor.
LEMMA Frame ==
    ASSUME TypeOK, TypeOK', Structure, InitOK', UNCHANGED <<roles, links>>,
           NumCreated' = NumCreated, NextPid' >= NextPid,
           \A p \in Children :
              /\ p \in pcbs' => p \in pcbs \/ p < NextPid'
              /\ pc'[p] = "open" <=> pc[p] = "open"
              /\ pc'[p] \in Holding => pc[p] \in Holding /\ fd'[p] = fd[p]
              /\ pc[p] = "open" => syscall_retvalue'[p] = syscall_retvalue[p]
    PROVE  Structure'
<1> USE DEF Structure, roles, links
<1>0. NextPid \in Int /\ NextPid' \in Int
  BY Pids, ProgramAssumption DEF TypeOK, NextPid
<1>1. ResourcesOK'
  BY DEF ResourcesOK
<1>2. DescriptorsOK'
  BY DEF DescriptorsOK
<1>3. ChildrenOK'
  <2>1. ASSUME NEW p \in Children, p >= NextPid' PROVE pc'[p] = "open" /\ p \notin pcbs'
    <3>1. p >= NextPid /\ ~ (p < NextPid')
      BY <1>0, <2>1, Pids
    <3> QED BY <3>1 DEF ChildrenOK
  <2> QED BY <2>1 DEF ChildrenOK
<1>4. RolesOK'
  <2>1. readers \subseteq Children /\ writers \subseteq Children
    BY DEF Children
  <2> QED BY <2>1 DEF RolesOK
<1> QED BY <1>1, <1>2, <1>3, <1>4

\* A descriptor that was free is now one more of p.
LEMMA AttachedDescriptors ==
    ASSUME TypeOK, DescriptorsOK, NEW p \in PCBs, NEW r \in MqBlocks,
           NEW users \in SUBSET Descriptors, Attached(p, r, users)
    PROVE  /\ DescriptorsOK'
           /\ descriptors_ptrs' \in [MqBlocks -> SUBSET Descriptors]
           /\ desc' \in [Descriptors -> [pcb : PCBs \cup {NULL},
                                         resource : MqBlocks \cup {NULL}, fd : Int]]
           /\ descriptors' \in [PCBs -> SUBSET Descriptors]
           /\ last_fd' \in [PCBs -> Nat] /\ DOMAIN syscall_retvalue' = PCBs
<1>1. PICK d \in Descriptors :
       /\ desc[d].resource = NULL
       /\ desc' = [desc EXCEPT ![d] = [pcb |-> p, resource |-> r, fd |-> last_fd[p]]]
       /\ descriptors' = [descriptors EXCEPT ![p] = @ \cup {d}]
       /\ descriptors_ptrs' = [descriptors_ptrs EXCEPT ![r] = users \cup {d}]
       /\ last_fd' = [last_fd EXCEPT ![p] = @ + 1]
       /\ syscall_retvalue' = [syscall_retvalue EXCEPT ![p] = last_fd[p]]
  BY DEF Attached
<1>2. /\ desc' \in [Descriptors -> [pcb : PCBs \cup {NULL},
                                    resource : MqBlocks \cup {NULL}, fd : Int]]
      /\ descriptors' \in [PCBs -> SUBSET Descriptors]
      /\ last_fd' \in [PCBs -> Nat] /\ DOMAIN syscall_retvalue' = PCBs
      /\ descriptors_ptrs' \in [MqBlocks -> SUBSET Descriptors]
  BY <1>1 DEF TypeOK
<1>3. NULL \notin MqBlocks
  BY ProgramAssumption
<1>4. \A x \in PCBs : d \notin descriptors[x]
  BY <1>1, <1>3 DEF DescriptorsOK
<1>5. desc'[d] = [pcb |-> p, resource |-> r, fd |-> last_fd[p]]
      /\ \A e \in Descriptors : e # d => desc'[e] = desc[e]
  BY <1>1 DEF TypeOK
<1>6. /\ descriptors'[p] = descriptors[p] \cup {d} /\ last_fd'[p] = last_fd[p] + 1
      /\ \A x \in PCBs : x # p => descriptors'[x] = descriptors[x] /\ last_fd'[x] = last_fd[x]
      /\ \A x \in PCBs : descriptors[x] \subseteq Descriptors /\ last_fd[x] \in Nat
  BY <1>1 DEF TypeOK
<1>7. ASSUME NEW x \in PCBs, NEW e \in descriptors'[x]
      PROVE  desc'[e].pcb = x /\ desc'[e].resource \in MqBlocks
             /\ desc'[e].fd \in 0 .. last_fd'[x] - 1
  <2>1. CASE e = d
    BY <1>4, <1>5, <1>6, <1>7, <2>1
  <2>2. CASE e # d
    <3>1. e \in descriptors[x] /\ e \in Descriptors
      BY <1>6, <1>7, <2>2
    <3>2. desc'[e] = desc[e] /\ desc[e].fd \in 0 .. last_fd[x] - 1
          /\ desc[e].pcb = x /\ desc[e].resource \in MqBlocks
      BY <1>5, <2>2, <3>1 DEF DescriptorsOK
    <3>3. last_fd'[x] \in Nat /\ last_fd'[x] >= last_fd[x] /\ last_fd[x] \in Nat
      BY <1>6
    <3> QED BY <3>2, <3>3
  <2> QED BY <2>1, <2>2
<1>8. ASSUME NEW x \in PCBs, NEW e \in descriptors'[x], NEW g \in descriptors'[x],
             desc'[e].fd = desc'[g].fd
      PROVE  e = g
  <2>1. ASSUME NEW y \in descriptors[x], d \in descriptors'[x] PROVE desc'[y].fd # desc'[d].fd
    <3>1. x = p /\ y # d /\ y \in Descriptors
      BY <1>4, <1>6, <2>1
    <3>2. desc'[y].fd = desc[y].fd /\ desc[y].fd \in 0 .. last_fd[p] - 1
      BY <1>5, <3>1 DEF DescriptorsOK
    <3>3. desc'[d].fd = last_fd[p] /\ last_fd[p] \in Nat
      BY <1>5, <1>6
    <3> QED BY <3>2, <3>3
  <2>2. \A y \in descriptors'[x] : y = d \/ (y \in descriptors[x] /\ y # d)
    <3>1. descriptors'[x] \subseteq descriptors[x] \cup {d}
      BY <1>6
    <3> QED BY <1>4, <3>1
  <2>3. CASE e # d /\ g # d
    <3>1. desc'[e] = desc[e] /\ desc'[g] = desc[g]
      BY <1>5, <1>6, <2>2, <2>3
    <3> QED BY <1>8, <2>2, <2>3, <3>1 DEF DescriptorsOK
  <2> QED BY <1>8, <2>1, <2>2, <2>3
<1>9. ASSUME NEW e \in Descriptors, desc'[e].resource # NULL
      PROVE  \E x \in PCBs : e \in descriptors'[x]
  <2>1. CASE e = d
    BY <1>6, <2>1
  <2>2. CASE e # d
    <3>1. PICK x \in PCBs : e \in descriptors[x]
      BY <1>5, <1>9, <2>2 DEF DescriptorsOK
    <3> QED BY <1>6, <3>1
  <2> QED BY <2>1, <2>2
<1> QED BY <1>2, <1>7, <1>8, <1>9 DEF DescriptorsOK

\* A child that opens its queue holds its descriptor and has its role.
LEMMA OpenStructure ==
    ASSUME TypeOK, Structure, NEW p \in Children, pc[p] = "open", p \in pcbs,
           NEW l \in {"read", "write"}, pc' = [pc EXCEPT ![p] = l], fd' = [fd EXCEPT ![p] = 0],
           UNCHANGED <<pcbs, i, resources, resources_list, resource_id>>,
           NEW r \in resources_list, resource_id[r] = queue_of(p),
           Attached(p, r, descriptors_ptrs[r]),
           \/ reading_pid' = reading_pid
           \/ p \in readers /\ reading_pid' = [reading_pid EXCEPT ![r] = p],
           \/ writing_pid' = writing_pid
           \/ p \in writers /\ writing_pid' = [writing_pid EXCEPT ![r] = p]
    PROVE  Structure'
<1> USE DEF Structure
<1>0. r \in MqBlocks /\ descriptors_ptrs[r] \in SUBSET Descriptors /\ p \in PCBs
      /\ p # init /\ p # sleeper
  BY Pids DEF TypeOK
<1>1. DescriptorsOK'
  BY <1>0, AttachedDescriptors
<1>2. /\ pc'[p] = l /\ fd'[p] = 0 /\ \A x \in PCBs : x # p => pc'[x] = pc[x] /\ fd'[x] = fd[x]
  BY <1>0 DEF TypeOK
<1>3. pc'[init] = pc[init] /\ NextPid' = NextPid /\ NumCreated' = NumCreated
  BY <1>0, <1>2, Pids DEF NextPid, NumCreated
<1>4. PICK d \in Descriptors :
       /\ desc' = [desc EXCEPT ![d] = [pcb |-> p, resource |-> r, fd |-> last_fd[p]]]
       /\ descriptors' = [descriptors EXCEPT ![p] = @ \cup {d}]
       /\ descriptors_ptrs' = [descriptors_ptrs EXCEPT ![r] = descriptors_ptrs[r] \cup {d}]
       /\ last_fd' = [last_fd EXCEPT ![p] = @ + 1]
       /\ syscall_retvalue' = [syscall_retvalue EXCEPT ![p] = last_fd[p]]
  BY DEF Attached
<1>5. /\ last_fd[p] = 0 /\ last_fd'[p] = 1 /\ desc'[d].fd = 0 /\ d \in descriptors'[p]
      /\ \A x \in PCBs : x # p => /\ descriptors'[x] = descriptors[x]
                                  /\ last_fd'[x] = last_fd[x]
                                  /\ syscall_retvalue'[x] = syscall_retvalue[x]
      /\ \A s \in MqBlocks : descriptors_ptrs[s] \subseteq descriptors_ptrs'[s]
  <2>1. last_fd[p] = 0
    BY DEF ChildrenOK
  <2> QED BY <1>0, <1>4, <2>1 DEF TypeOK
<1>6. InitOK'
  BY <1>0, <1>3, <1>5, Pids DEF InitOK
<1>7. ResourcesOK'
  <2>1. ASSUME NEW s \in resources_list'
        PROVE  resource_id'[s] \in 0 .. NumCreated' - 1
               /\ \E e \in descriptors'[init] : e \in descriptors_ptrs'[s]
    <3>1. PICK e \in descriptors[init] : e \in descriptors_ptrs[s]
      BY DEF ResourcesOK
    <3>2. s \in MqBlocks
      BY DEF TypeOK
    <3>3. e \in descriptors'[init] /\ e \in descriptors_ptrs'[s]
      BY <1>0, <1>5, <3>1, <3>2, Pids
    <3> QED BY <1>3, <3>3 DEF ResourcesOK
  <2> QED BY <1>3, <2>1 DEF ResourcesOK
<1>8. ChildrenOK'
  <2>1. descriptors'[sleeper] = {} /\ last_fd'[sleeper] = 0
    BY <1>0, <1>5, Pids DEF ChildrenOK
  <2>2. ASSUME NEW x \in Children
        PROVE  /\ x >= NextPid' => pc'[x] = "open" /\ x \notin pcbs'
               /\ pc'[x] = "open" =>
                    descriptors'[x] = {} /\ last_fd'[x] = 0 /\ syscall_retvalue'[x] = 0
               /\ pc'[x] \in Holding => \E e \in descriptors'[x] : desc'[e].fd = fd'[x]
               /\ last_fd'[x] <= 1
    <3>1. CASE x = p
      <4>1. ~ (p >= NextPid')
        BY <1>3 DEF ChildrenOK
      <4> QED BY <1>2, <1>5, <3>1, <4>1
    <3>2. CASE x # p
      <4>1. x \in PCBs /\ pc'[x] = pc[x] /\ fd'[x] = fd[x] /\ descriptors'[x] = descriptors[x]
            /\ last_fd'[x] = last_fd[x] /\ syscall_retvalue'[x] = syscall_retvalue[x]
        BY <1>2, <1>5, <3>2, Pids
      <4>2. ASSUME NEW e \in descriptors[x] PROVE desc'[e].fd = desc[e].fd
        <5>1. e # d /\ e \in Descriptors
          <6>1. e \in Descriptors /\ desc[e].pcb = x
            BY <4>1, <4>2 DEF TypeOK, DescriptorsOK
          <6>2. desc'[e].pcb = x
            BY <1>1, <4>1 DEF DescriptorsOK
          <6>3. desc'[d].pcb = p
            BY <1>4 DEF TypeOK
          <6> QED BY <3>2, <6>1, <6>2, <6>3
        <5> QED BY <1>4, <5>1 DEF TypeOK
      <4> QED BY <1>3, <4>1, <4>2 DEF ChildrenOK
    <3> QED BY <3>1, <3>2
  <2> QED BY <2>1, <2>2 DEF ChildrenOK
<1>9. RolesOK'
  <2>1. readers \subseteq PCBs /\ writers \subseteq PCBs
    BY Pids DEF Children
  <2>2. \A x \in PCBs : pc'[x] = "open" => pc[x] = "open" /\ x # p
    BY <1>2
  <2>3. \A s \in MqBlocks : reading_pid'[s] = reading_pid[s]
                            \/ (s = r /\ p \in readers /\ reading_pid'[s] = p)
    <3>1. reading_pid \in [MqBlocks -> PCBs \cup {NULL}]
      BY DEF TypeOK
    <3>2. CASE reading_pid' = reading_pid
      BY <3>2
    <3>3. CASE p \in readers /\ reading_pid' = [reading_pid EXCEPT ![r] = p]
      BY <1>0, <3>1, <3>3
    <3> QED BY <3>2, <3>3
  <2>4. \A s \in MqBlocks : writing_pid'[s] = writing_pid[s]
                            \/ (s = r /\ p \in writers /\ writing_pid'[s] = p)
    <3>1. writing_pid \in [MqBlocks -> PCBs \cup {NULL}]
      BY DEF TypeOK
    <3>2. CASE writing_pid' = writing_pid
      BY <3>2
    <3>3. CASE p \in writers /\ writing_pid' = [writing_pid EXCEPT ![r] = p]
      BY <1>0, <3>1, <3>3
    <3> QED BY <3>2, <3>3
  <2>5. ASSUME NEW s \in MqBlocks, reading_pid'[s] # NULL
        PROVE  /\ s \in resources_list' /\ reading_pid'[s] \in readers
               /\ resource_id'[s] = queue_of(reading_pid'[s]) /\ pc'[reading_pid'[s]] # "open"
    BY <1>0, <1>2, <2>1, <2>2, <2>3, <2>5 DEF RolesOK
  <2>6. ASSUME NEW s \in MqBlocks, writing_pid'[s] # NULL
        PROVE  /\ s \in resources_list' /\ writing_pid'[s] \in writers
               /\ resource_id'[s] = queue_of(writing_pid'[s]) /\ pc'[writing_pid'[s]] # "open"
    BY <1>0, <1>2, <2>1, <2>2, <2>4, <2>6 DEF RolesOK
  <2> QED BY <2>5, <2>6 DEF RolesOK
<1> QED BY <1>1, <1>6, <1>7, <1>8, <1>9

\* init that creates a queue holds its descriptor, whose number is the id of the queue.
LEMMA CreateStructure ==
    ASSUME TypeOK, Structure, pc[init] = "create",
           NEW r \in MqBlocks \ resources_list, Attached(init, r, {}),
           resources_list' = resources_list \cup {r},
           resource_id' = [resource_id EXCEPT ![r] = i[init]],
           resources' = Append(resources, last_fd[init]), UNCHANGED <<roles, pcbs, fd>>,
           \/ /\ i[init] < NumQueues - 1
              /\ i' = [i EXCEPT ![init] = @ + 1] /\ pc' = [pc EXCEPT ![init] = "create"]
           \/ /\ ~ (i[init] < NumQueues - 1)
              /\ i' = [i EXCEPT ![init] = 2] /\ pc' = [pc EXCEPT ![init] = "spawn"]
    PROVE  Structure'
<1> USE DEF Structure
<1>0. NumQueues \in Nat \ {0} /\ r \in MqBlocks /\ i[init] \in 0 .. NumQueues - 1
  BY ProgramAssumption DEF InitOK
<1>1. DescriptorsOK'
  BY Pids, AttachedDescriptors
<1>2. /\ NumCreated = i[init] /\ NextPid = 2
      /\ NumCreated' = i[init] + 1 /\ NextPid' = 2
  <2>1. i \in [PCBs -> Nat] /\ pc \in [PCBs -> Labels] /\ init \in PCBs
    BY Pids DEF TypeOK
  <2>2. NumCreated = i[init] /\ NextPid = 2
    BY DEF NumCreated, NextPid
  <2>3. CASE i' = [i EXCEPT ![init] = @ + 1] /\ pc' = [pc EXCEPT ![init] = "create"]
    <3>1. pc'[init] = "create" /\ i'[init] = i[init] + 1
      BY <2>1, <2>3
    <3> QED BY <2>2, <3>1 DEF NumCreated, NextPid
  <2>4. CASE /\ ~ (i[init] < NumQueues - 1)
             /\ i' = [i EXCEPT ![init] = 2] /\ pc' = [pc EXCEPT ![init] = "spawn"]
    <3>1. pc'[init] = "spawn" /\ i'[init] = 2 /\ i[init] + 1 = NumQueues
      BY <1>0, <2>1, <2>4
    <3> QED BY <2>2, <3>1 DEF NumCreated, NextPid
  <2> QED BY <2>3, <2>4
<1>3. PICK d \in Descriptors :
       /\ desc[d].resource = NULL
       /\ desc' = [desc EXCEPT ![d] = [pcb |-> init, resource |-> r, fd |-> last_fd[init]]]
       /\ descriptors' = [descriptors EXCEPT ![init] = @ \cup {d}]
       /\ descriptors_ptrs' = [descriptors_ptrs EXCEPT ![r] = {} \cup {d}]
       /\ last_fd' = [last_fd EXCEPT ![init] = @ + 1]
       /\ syscall_retvalue' = [syscall_retvalue EXCEPT ![init] = last_fd[init]]
  BY DEF Attached
<1>4. /\ descriptors'[init] = descriptors[init] \cup {d}
      /\ last_fd'[init] = last_fd[init] + 1
      /\ syscall_retvalue'[init] = last_fd[init] /\ last_fd[init] \in Nat
      /\ \A x \in PCBs : x # init => /\ descriptors'[x] = descriptors[x]
                                     /\ last_fd'[x] = last_fd[x]
                                     /\ syscall_retvalue'[x] = syscall_retvalue[x]
                                     /\ pc'[x] = pc[x]
  BY <1>3, Pids DEF TypeOK
<1>5. /\ descriptors_ptrs'[r] = {d} /\ resource_id'[r] = i[init]
      /\ \A s \in MqBlocks : s # r => /\ descriptors_ptrs'[s] = descriptors_ptrs[s]
                                      /\ resource_id'[s] = resource_id[s]
  BY <1>0, <1>3 DEF TypeOK
<1>6. InitOK'
  <2>1. last_fd[init] = i[init] /\ Len(resources) = i[init] /\ resources \in Seq(Int)
        /\ \A k \in 1 .. i[init] : resources[k] = k - 1
    BY <1>2 DEF InitOK, TypeOK
  <2>2. Len(resources') = i[init] + 1 /\ \A k \in 1 .. i[init] + 1 : resources'[k] = k - 1
    <3>1. /\ Len(resources') = Len(resources) + 1 /\ resources'[Len(resources) + 1] = last_fd[init]
          /\ \A k \in 1 .. Len(resources) : resources'[k] = resources[k]
      BY <1>4, <2>1, AppendProperties
    <3>2. ASSUME NEW k \in 1 .. i[init] + 1 PROVE resources'[k] = k - 1
      <4>1. CASE k = i[init] + 1
        BY <1>0, <2>1, <3>1, <4>1
      <4>2. CASE k # i[init] + 1
        <5>1. k \in 1 .. i[init]
          BY <1>0, <4>2
        <5> QED BY <2>1, <3>1, <5>1
      <4> QED BY <4>1, <4>2
    <3> QED BY <2>1, <3>1, <3>2
  <2>3. /\ pc'[init] = "create" => i'[init] \in 0 .. NumQueues - 1
        /\ pc'[init] = "spawn" => i'[init] \in 2 .. 2 * NumQueues + 1
        /\ pc'[init] \in {"create", "spawn"}
    <3>1. CASE /\ i[init] < NumQueues - 1
               /\ i' = [i EXCEPT ![init] = @ + 1] /\ pc' = [pc EXCEPT ![init] = "create"]
      <4>1. i'[init] = i[init] + 1 /\ pc'[init] = "create"
        BY <3>1, Pids DEF TypeOK
      <4> QED BY <1>0, <3>1, <4>1
    <3>2. CASE i' = [i EXCEPT ![init] = 2] /\ pc' = [pc EXCEPT ![init] = "spawn"]
      <4>1. i'[init] = 2 /\ pc'[init] = "spawn"
        BY <3>2, Pids DEF TypeOK
      <4> QED BY <1>0, <4>1
    <3> QED BY <3>1, <3>2
  <2> QED BY <1>2, <1>4, <2>1, <2>2, <2>3 DEF InitOK
<1>7. ResourcesOK'
  <2>1. \A s \in resources_list : s \in MqBlocks /\ s # r
    BY DEF TypeOK
  <2>2. ASSUME NEW s \in resources_list'
        PROVE  resource_id'[s] \in 0 .. NumCreated' - 1
               /\ \E e \in descriptors'[init] : e \in descriptors_ptrs'[s]
    <3>1. CASE s = r
      <4>1. d \in descriptors'[init] /\ d \in descriptors_ptrs'[r]
        BY <1>4, <1>5
      <4>2. resource_id'[r] \in 0 .. NumCreated' - 1
        BY <1>0, <1>2, <1>5
      <4> QED BY <3>1, <4>1, <4>2
    <3>2. CASE s # r
      <4>1. s \in resources_list
        BY <3>2
      <4>2. PICK e \in descriptors[init] : e \in descriptors_ptrs[s]
        BY <4>1 DEF ResourcesOK
      <4>3. e \in descriptors'[init] /\ e \in descriptors_ptrs'[s]
        BY <1>4, <1>5, <2>1, <4>1, <4>2
      <4>4. resource_id'[s] = resource_id[s] /\ resource_id[s] \in 0 .. NumCreated - 1
        BY <1>5, <2>1, <4>1 DEF ResourcesOK
      <4> QED BY <1>0, <1>2, <4>3, <4>4
    <3> QED BY <3>1, <3>2
  <2>3. \A s \in resources_list : resource_id'[s] = resource_id[s] /\ resource_id[s] # i[init]
    BY <1>0, <1>2, <1>5, <2>1 DEF ResourcesOK
  <2>4. \A s, t \in resources_list' : resource_id'[s] = resource_id'[t] => s = t
    BY <1>5, <2>3 DEF ResourcesOK
  <2>5. ASSUME NEW k \in 0 .. NumCreated' - 1
        PROVE  \E s \in resources_list' : resource_id'[s] = k
    <3>1. CASE k = i[init]
      BY <1>5, <3>1
    <3>2. CASE k # i[init]
      <4>1. PICK s \in resources_list : resource_id[s] = k
        BY <1>0, <1>2, <3>2 DEF ResourcesOK
      <4> QED BY <2>3, <4>1
    <3> QED BY <3>1, <3>2
  <2> QED BY <2>2, <2>4, <2>5 DEF ResourcesOK
<1>8. ChildrenOK'
  <2>1. descriptors'[sleeper] = {} /\ last_fd'[sleeper] = 0
    BY <1>4, Pids DEF ChildrenOK
  <2>2. ASSUME NEW x \in Children
        PROVE  /\ x >= NextPid' => pc'[x] = "open" /\ x \notin pcbs'
               /\ pc'[x] = "open" =>
                    descriptors'[x] = {} /\ last_fd'[x] = 0 /\ syscall_retvalue'[x] = 0
               /\ pc'[x] \in Holding => \E e \in descriptors'[x] : desc'[e].fd = fd'[x]
               /\ last_fd'[x] <= 1
    <3>1. x \in PCBs /\ pc'[x] = pc[x] /\ descriptors'[x] = descriptors[x]
          /\ last_fd'[x] = last_fd[x] /\ syscall_retvalue'[x] = syscall_retvalue[x]
      BY <1>4, Pids
    <3>2. ASSUME NEW e \in descriptors[x] PROVE desc'[e].fd = desc[e].fd
      <4>1. e \in Descriptors /\ desc[e].resource # NULL
        BY <3>1, <3>2, ProgramAssumption DEF TypeOK, DescriptorsOK
      <4> QED BY <1>3, <4>1 DEF TypeOK
    <3> QED BY <1>2, <3>1, <3>2 DEF ChildrenOK
  <2> QED BY <2>1, <2>2 DEF ChildrenOK
<1>9. RolesOK'
  <2>1. \A x \in readers \cup writers : pc'[x] = pc[x]
    BY <1>4, Pids DEF Children
  <2>2. \A s \in resources_list : s \in resources_list' /\ resource_id'[s] = resource_id[s]
    BY <1>5 DEF TypeOK
  <2> QED BY <2>1, <2>2 DEF RolesOK, roles
<1> QED BY <1>1, <1>6, <1>7, <1>8, <1>9

\* A child that gives descriptors back is past the labels where it holds one.
LEMMA ReleaseStructure ==
    ASSUME TypeOK, Structure, NEW p \in Children, NEW ds \in SUBSET descriptors[p],
           Released(p, ds), pc[p] # "open", NEW l, pc' = [pc EXCEPT ![p] = l],
           l \notin Holding \cup {"open"},
           UNCHANGED <<i, resources, fd, resources_list, resource_id, last_fd>>,
           pcbs' \subseteq pcbs,
           \A x \in Children : pc[x] = "open" => syscall_retvalue'[x] = syscall_retvalue[x],
           pc[init] = "create" => syscall_retvalue'[init] = syscall_retvalue[init],
           \A r \in MqBlocks : /\ reading_pid'[r] \in {reading_pid[r], NULL}
                               /\ writing_pid'[r] \in {writing_pid[r], NULL}
    PROVE  Structure'
<1> USE DEF Structure
<1>0. p \in PCBs /\ p # init /\ p # sleeper
  BY Pids
<1>1. /\ pc'[p] = l /\ \A x \in PCBs : x # p => pc'[x] = pc[x]
      /\ NumCreated' = NumCreated /\ NextPid' = NextPid
  BY <1>0, Pids DEF TypeOK, NumCreated, NextPid
<1>2. /\ \A x \in PCBs : x # p => descriptors'[x] = descriptors[x]
      /\ descriptors'[p] = descriptors[p] \ ds
  BY <1>0 DEF Released, TypeOK
<1>3. /\ \A d \in ds : \A x \in PCBs : d \notin descriptors'[x]
      /\ \A d \in Descriptors \ ds : desc'[d] = desc[d]
      /\ \A d \in Descriptors : d \in ds => desc'[d].resource = NULL
      /\ \A x \in PCBs : descriptors'[x] \subseteq descriptors[x]
                         /\ descriptors[x] \subseteq Descriptors
      /\ \A r \in MqBlocks : descriptors_ptrs'[r] = descriptors_ptrs[r] \ ds
  <2>1. \A d \in ds : \A x \in PCBs : x # p => d \notin descriptors[x]
    BY <1>0 DEF DescriptorsOK
  <2> QED BY <1>2, <2>1 DEF Released, TypeOK
<1>4. \A x \in PCBs : \A d \in descriptors'[x] : d \in descriptors[x] /\ desc'[d] = desc[d]
  BY <1>3
<1>5. InitOK'
  BY <1>0, <1>1, Pids DEF InitOK
<1>6. ResourcesOK'
  <2>1. ASSUME NEW s \in resources_list
        PROVE  \E e \in descriptors'[init] : e \in descriptors_ptrs'[s]
    <3>1. PICK e \in descriptors[init] : e \in descriptors_ptrs[s]
      BY DEF ResourcesOK
    <3>2. e \in descriptors'[init] /\ e \notin ds /\ s \in MqBlocks
      BY <1>0, <1>2, <1>3, <3>1, Pids DEF TypeOK
    <3> QED BY <1>3, <3>1, <3>2
  <2> QED BY <1>1, <2>1 DEF ResourcesOK
<1>7. DescriptorsOK'
  <2>1. ASSUME NEW d \in Descriptors, desc'[d].resource # NULL
        PROVE  \E x \in PCBs : d \in descriptors'[x]
    <3>1. d \notin ds /\ desc'[d] = desc[d]
      BY <1>3, <2>1
    <3>2. PICK x \in PCBs : d \in descriptors[x]
      BY <2>1, <3>1 DEF DescriptorsOK
    <3> QED BY <1>2, <3>1, <3>2
  <2>2. \A x \in PCBs : \A d \in descriptors'[x] :
           /\ desc'[d].pcb = x /\ desc'[d].resource \in MqBlocks
           /\ desc'[d].fd \in 0 .. last_fd'[x] - 1
    BY <1>4 DEF DescriptorsOK
  <2>3. \A x \in PCBs : \A d, e \in descriptors'[x] : desc'[d].fd = desc'[e].fd => d = e
    BY <1>4 DEF DescriptorsOK
  <2> QED BY <2>1, <2>2, <2>3 DEF DescriptorsOK
<1>8. ChildrenOK'
  <2>1. descriptors'[sleeper] = {} /\ last_fd'[sleeper] = 0
    BY <1>0, <1>2, Pids DEF ChildrenOK
  <2>2. ASSUME NEW x \in Children
        PROVE  /\ x >= NextPid' => pc'[x] = "open" /\ x \notin pcbs'
               /\ pc'[x] = "open" =>
                    descriptors'[x] = {} /\ last_fd'[x] = 0 /\ syscall_retvalue'[x] = 0
               /\ pc'[x] \in Holding => \E e \in descriptors'[x] : desc'[e].fd = fd'[x]
               /\ last_fd'[x] <= 1
    <3>1. CASE x = p
      BY <1>1, <3>1 DEF ChildrenOK
    <3>2. CASE x # p
      <4>1. pc'[x] = pc[x] /\ descriptors'[x] = descriptors[x] /\ x \in PCBs
        BY <1>1, <1>2, <3>2, Pids
      <4> QED BY <1>1, <1>4, <4>1 DEF ChildrenOK
    <3> QED BY <3>1, <3>2
  <2> QED BY <2>1, <2>2 DEF ChildrenOK
<1>9. RolesOK'
  <2>1. \A x \in readers \cup writers : pc[x] # "open" => pc'[x] # "open"
    BY <1>1, Pids DEF Children
  <2> QED BY <2>1 DEF RolesOK
<1> QED BY <1>5, <1>6, <1>7, <1>8, <1>9
-----------------------------------------------------------------------------
\* The sums are of finitely many integers.
LEMMA Finite == IsFiniteSet(writers) /\ IsFiniteSet(readers) /\ IsFiniteSet(MqBlocks)
<1>1. NumQueues \in Nat
  BY ProgramAssumption
<1>2. IsFiniteSet(0 .. 2 * NumQueues + 1)
  BY <1>1, FS_Interval
<1>3. writers \subseteq 0 .. 2 * NumQueues + 1 /\ readers \subseteq 0 .. 2 * NumQueues + 1
  BY Roles, Pids DEF Children
<1> QED BY <1>2, <1>3, FS_Subset, ProgramAssumption

\* The terms of the sums are integers.
TermsOK ==
    /\ [w \in writers |-> i[w]] \in [writers -> Int]
    /\ [w \in writers |-> i[w] - Pending(w)] \in [writers -> Int]
    /\ [q \in MqBlocks |-> Len(msgs[q])] \in [MqBlocks -> Int]
    /\ [r \in readers |-> Pending(r)] \in [readers -> Int]

\* They are when the state has its type.
LEMMA Terms == TypeOK => TermsOK
<1> SUFFICES ASSUME TypeOK PROVE TermsOK
  OBVIOUS
<1>1. writers \subseteq PCBs /\ readers \subseteq PCBs
  BY Pids DEF Children
<1>2. \A w \in writers : i[w] \in Int
  BY <1>1 DEF TypeOK
<1>3. \A p : Pending(p) \in Int
  BY DEF Pending
<1>4. \A q \in MqBlocks : Len(msgs[q]) \in Int
  BY DEF TypeOK
<1> QED BY <1>2, <1>3, <1>4 DEF TermsOK

\* In the next state too.
LEMMA NextTerms == TypeOK' => TermsOK'
BY Terms, PTL

\* The sums.
Integral == Settled \in Int /\ Stored \in Int /\ Queued \in Int /\ Reading \in Int

\* The sums are integers.
LEMMA Totals == TypeOK => Integral
<1> SUFFICES ASSUME TypeOK PROVE Integral
  OBVIOUS
<1>1. Settled \in Int
  BY Finite, Terms, SumMonotone DEF TermsOK, Settled
<1>2. Stored \in Int
  BY Finite, Terms, SumMonotone DEF TermsOK, Stored
<1>3. Queued \in Int
  BY Finite, Terms, SumMonotone DEF TermsOK, Queued
<1>4. Reading \in Int
  BY Finite, Terms, SumMonotone DEF TermsOK, Reading
<1> QED BY <1>1, <1>2, <1>3, <1>4 DEF Integral

\* The sums of the next state too.
LEMMA NextTotals == TypeOK' => Integral'
BY Totals, PTL

\* What a step keeps that moves no child into its increment.
LEMMA CountersKept ==
    ASSUME TypeOK, TypeOK', CountersOK, UNCHANGED <<counters, register>>,
           \A p \in Children : pc'[p] = "store" => pc[p] = "store",
           Settled' >= Settled,
           Stored' - Queued' - Reading' >= Stored - Queued - Reading
    PROVE  CountersOK'
<1>1. Integral /\ Integral'
  BY Totals, NextTotals
<1>2. writers \subseteq Children /\ readers \subseteq Children
  BY DEF Children
<1>3. \A p \in Children : register[p] \in Int
  BY Pids DEF TypeOK
<1>4. counters["written"] \in Int /\ counters["read"] \in Int
  BY DEF TypeOK
<1>5. counters'["written"] <= Settled' /\ counters'["read"] <= Stored' - Queued' - Reading'
  <2>1. /\ Settled \in Int /\ Settled' \in Int /\ counters["written"] <= Settled
    BY <1>1 DEF CountersOK, Integral
  <2>2. /\ Stored - Queued - Reading \in Int /\ Stored' - Queued' - Reading' \in Int
        /\ counters["read"] <= Stored - Queued - Reading
    BY <1>1 DEF CountersOK, Integral
  <2>3. counters'["written"] <= Settled'
    BY <1>4, <2>1
  <2>4. counters'["read"] <= Stored' - Queued' - Reading'
    BY <1>4, <2>2
  <2> QED BY <2>3, <2>4
<1>6. ASSUME NEW w \in writers, pc'[w] = "store" PROVE register'[w] <= Settled' + 1
  <2>1. register[w] <= Settled + 1 /\ register[w] \in Int
    BY <1>2, <1>3, <1>6 DEF CountersOK
  <2> QED BY <1>1, <2>1 DEF Integral
<1>7. ASSUME NEW r \in readers, pc'[r] = "store"
      PROVE  register'[r] <= Stored' - Queued' - Reading' + 1
  <2>1. register[r] <= Stored - Queued - Reading + 1 /\ register[r] \in Int
    BY <1>2, <1>3, <1>7 DEF CountersOK
  <2> QED BY <1>1, <2>1 DEF Integral
<1> QED BY <1>5, <1>6, <1>7 DEF CountersOK

\* Most steps: no counter is in another state of its increment, no message is stored.
LEMMA CountersQuiet ==
    ASSUME TypeOK, TypeOK', CountersOK, UNCHANGED <<counters, register>>,
           \A p \in Children : pc'[p] \in {"load", "store"} => pc'[p] = pc[p],
           \A w \in writers : i'[w] = i[w],
           \A q \in MqBlocks : Len(msgs'[q]) <= Len(msgs[q])
    PROVE  CountersOK'
<1> DEFINE stored  == [w \in writers |-> i[w]]
           settled == [w \in writers |-> i[w] - Pending(w)]
           queued  == [q \in MqBlocks |-> Len(msgs[q])]
           reading == [r \in readers |-> Pending(r)]
<1>1. /\ stored \in [writers -> Int] /\ settled \in [writers -> Int]
      /\ queued \in [MqBlocks -> Int] /\ reading \in [readers -> Int]
  BY Terms DEF TermsOK
<1>2. /\ stored' \in [writers -> Int] /\ settled' \in [writers -> Int]
      /\ queued' \in [MqBlocks -> Int] /\ reading' \in [readers -> Int]
  BY NextTerms DEF TermsOK
<1>3. writers \subseteq Children /\ readers \subseteq Children /\ Children \subseteq PCBs
  BY Pids DEF Children
<1>4. \A p \in Children : /\ Pending(p)' <= Pending(p)
                          /\ Pending(p)' \in Int /\ Pending(p) \in Int
  BY DEF Pending
<1>5. \A w \in writers : i[w] \in Int
  BY <1>3 DEF TypeOK
<1>6. Settled' >= Settled
  <2>1. \A w \in writers : settled[w] <= settled'[w]
    BY <1>3, <1>4, <1>5
  <2>2. SumFunction(settled) <= SumFunction(settled')
    <3> HIDE DEF settled
    <3> QED BY <1>1, <1>2, <2>1, Finite, SumMonotone
  <2> QED BY <2>2, NextTotals, Totals DEF Settled, Integral
<1>7. Stored' = Stored
  <2>1. stored' = stored
    OBVIOUS
  <2> QED BY <2>1 DEF Stored
<1>8. Queued' <= Queued
  <2>1. \A q \in MqBlocks : queued'[q] <= queued[q]
    OBVIOUS
  <2>2. SumFunction(queued') <= SumFunction(queued)
    <3> HIDE DEF queued
    <3> QED BY <1>1, <1>2, <2>1, Finite, SumMonotone
  <2> QED BY <2>2 DEF Queued
<1>9. Reading' <= Reading
  <2>1. \A r \in readers : reading'[r] <= reading[r]
    BY <1>3, <1>4
  <2>2. SumFunction(reading') <= SumFunction(reading)
    <3> HIDE DEF reading
    <3> QED BY <1>1, <1>2, <2>1, Finite, SumMonotone
  <2> QED BY <2>2 DEF Reading
<1>10. Stored' - Queued' - Reading' >= Stored - Queued - Reading
  BY <1>7, <1>8, <1>9, Totals, NextTotals DEF Integral
<1>11. \A p \in Children : pc'[p] = "store" => pc[p] = "store"
  OBVIOUS
<1> QED BY <1>6, <1>10, <1>11, CountersKept
-----------------------------------------------------------------------------
\* p goes on at another label.
LEMMA Goes ==
    ASSUME TypeOK, AssertsHold, NEW p \in PCBs, NEW l \in Labels, l # "abort", GoTo(p, l)
    PROVE  /\ pc' \in [PCBs -> Labels] /\ AssertsHold'
           /\ pc'[p] = l /\ \A x \in PCBs : x # p => pc'[x] = pc[x]
<1>1. /\ pc' \in [PCBs -> Labels]
      /\ pc'[p] = l /\ \A x \in PCBs : x # p => pc'[x] = pc[x]
  BY DEF TypeOK, GoTo
<1>2. AssertsHold'
  <2>1. DOMAIN pc' = PCBs /\ DOMAIN pc = PCBs
    BY <1>1 DEF TypeOK
  <2> QED BY <1>1, <2>1 DEF AssertsHold
<1> QED BY <1>1, <1>2

\* Most steps: one process goes on, and no table, counter or fd changes.
LEMMA Moves ==
    ASSUME Inv, machine = "up", NEW p \in PCBs, NEW l \in Labels, l # "abort", GoTo(p, l),
           UNCHANGED <<tables, fd, resources, counters, register>>,
           i' \in [PCBs -> Nat], \A x \in PCBs : x # init => i'[x] = i[x],
           pcbs' \subseteq PCBs,
           \A x \in Children : x \in pcbs' => x \in pcbs \/ x < NextPid',
           parent' \in [PCBs -> {init, NULL}], DOMAIN syscall_retvalue' = PCBs,
           \A x \in Children : pc[x] = "open" => syscall_retvalue'[x] = syscall_retvalue[x],
           p \in Children => /\ pc[p] # "open" /\ l \notin {"open", "load", "store"}
                             /\ l \in Holding => pc[p] \in Holding,
           machine' = "up" => InitOK' /\ NumCreated' = NumCreated /\ NextPid' >= NextPid
    PROVE  Inv'
<1> USE DEF Inv
<1>1. /\ pc' \in [PCBs -> Labels] /\ AssertsHold'
      /\ pc'[p] = l /\ \A x \in PCBs : x # p => pc'[x] = pc[x]
  BY Goes
<1>2. TypeOK'
  BY <1>1 DEF TypeOK, tables, roles, links
<1>3. CountersOK'
  <2>1. \A x \in Children : pc'[x] \in {"load", "store"} => pc'[x] = pc[x]
    BY <1>1, Pids
  <2>2. \A w \in writers : i'[w] = i[w]
    BY Pids DEF Children
  <2>3. \A q \in MqBlocks : Len(msgs'[q]) <= Len(msgs[q])
    <3>1. msgs' = msgs /\ \A q \in MqBlocks : Len(msgs[q]) \in Int
      BY DEF tables, TypeOK
    <3> QED BY <3>1
  <2> QED BY <1>2, <2>1, <2>2, <2>3, CountersQuiet
<1>4. ASSUME machine' = "up" PROVE Structure'
  <2>1. InitOK' /\ NumCreated' = NumCreated /\ NextPid' >= NextPid
    BY <1>4
  <2>2. \A x \in Children : /\ x \in pcbs' => x \in pcbs \/ x < NextPid'
                            /\ pc'[x] = "open" <=> pc[x] = "open"
                            /\ pc'[x] \in Holding => pc[x] \in Holding /\ fd'[x] = fd[x]
                            /\ pc[x] = "open" => syscall_retvalue'[x] = syscall_retvalue[x]
    BY <1>1, Pids
  <2>3. UNCHANGED <<roles, links>>
    BY DEF tables
  <2> QED BY <1>2, <2>1, <2>2, <2>3, Frame
<1> QED BY <1>1, <1>2, <1>3, <1>4

\* What the calls on processes may do to results and parents.
LEMMA Family ==
    ASSUME TypeOK, NEW p \in PCBs,
           parent' = parent \/ \E b : parent' = [parent EXCEPT ![b] = NULL],
           \/ syscall_retvalue' = syscall_retvalue
           \/ \E v : syscall_retvalue' = [syscall_retvalue EXCEPT ![p] = v]
    PROVE  /\ parent' \in [PCBs -> {init, NULL}]
           /\ DOMAIN syscall_retvalue' = PCBs
           /\ \A x \in PCBs : x # p => syscall_retvalue'[x] = syscall_retvalue[x]
BY DEF TypeOK

\* Of a step of a child the steps of init see nothing.
LEMMA InitRests ==
    ASSUME TypeOK, InitOK, NEW p \in Children, NEW l, GoTo(p, l),
           UNCHANGED <<resources, last_fd>>, i'[init] = i[init],
           syscall_retvalue'[init] = syscall_retvalue[init]
    PROVE  InitOK' /\ NumCreated' = NumCreated /\ NextPid' = NextPid
<1>1. pc'[init] = pc[init]
  BY Pids DEF GoTo, TypeOK
<1>2. NumCreated' = NumCreated /\ NextPid' = NextPid
  BY <1>1 DEF NumCreated, NextPid
<1> QED BY <1>1, <1>2 DEF InitOK

\* NextPid is a number.
LEMMA NextPidType == ASSUME TypeOK PROVE NextPid \in Int
BY Pids, ProgramAssumption DEF NextPid, TypeOK

\* Back to the head of the loop.
LEMMA SleepStep ==
    ASSUME Inv, NEW p \in Children, Sleep(p)
    PROVE  Inv'
<1>1. /\ running = p /\ machine = "up" /\ pc[p] = "sleep" /\ p \in PCBs /\ p # init
      /\ UNCHANGED <<fd, resources, i, register, counters>>
  BY Pids DEF Sleep, At
<1>2. PICK l \in {"read", "write", "close"} : GoTo(p, l)
  BY DEF Sleep
<1>3. /\ UNCHANGED tables /\ pcbs' \subseteq pcbs
      /\ parent' = parent \/ \E b : parent' = [parent EXCEPT ![b] = NULL]
      /\ \/ syscall_retvalue' = syscall_retvalue
         \/ \E v : syscall_retvalue' = [syscall_retvalue EXCEPT ![p] = v]
  BY <1>1, OtherCall DEF Sleep
<1>4. /\ parent' \in [PCBs -> {init, NULL}]
      /\ DOMAIN syscall_retvalue' = PCBs
      /\ \A x \in PCBs : x # p => syscall_retvalue'[x] = syscall_retvalue[x]
  BY <1>1, <1>3, Family DEF Inv
<1>5. TypeOK /\ Structure
  BY <1>1 DEF Inv
<1>6. InitOK' /\ NumCreated' = NumCreated /\ NextPid' >= NextPid
  BY <1>1, <1>2, <1>3, <1>4, <1>5, InitRests, Pids, NextPidType DEF Structure, tables, links
<1>7. \A x \in Children : pc[x] = "open" => syscall_retvalue'[x] = syscall_retvalue[x]
  BY <1>1, <1>4, Pids
<1>8. pcbs' \subseteq PCBs /\ i' \in [PCBs -> Nat]
  BY <1>1, <1>3, <1>5 DEF TypeOK
<1>9. l # "abort" /\ l \notin {"open", "load", "store"} /\ pc[p] # "open"
      /\ pc[p] \in Holding
  BY <1>1 DEF Holding
<1>10. l \in Labels
  BY DEF Labels
<1> QED BY <1>1, <1>2, <1>3, <1>4, <1>6, <1>7, <1>8, <1>9, <1>10, Moves

\* A step of init that spawns nobody: results of others stay, and so does what it has created.
LEMMA InitMoves ==
    ASSUME Inv, NEW l \in Labels, l # "abort", machine = "up", GoTo(init, l),
           pc[init] \in {"wait", "waited", "destroy", "shutdown"},
           l \in {"wait", "waited", "destroy", "shutdown", "gone"},
           l = "gone" => machine' # "up",
           UNCHANGED <<tables, fd, resources, counters, register>>,
           i' \in [PCBs -> Nat], \A x \in PCBs : x # init => i'[x] = i[x],
           l = "destroy" => i'[init] \in 1 .. NumQueues, pcbs' \subseteq pcbs,
           parent' = parent \/ \E b : parent' = [parent EXCEPT ![b] = NULL],
           \/ syscall_retvalue' = syscall_retvalue
           \/ \E v : syscall_retvalue' = [syscall_retvalue EXCEPT ![init] = v]
    PROVE  Inv'
<1>1. TypeOK /\ Structure /\ AssertsHold
  BY DEF Inv
<1>2. /\ parent' \in [PCBs -> {init, NULL}]
      /\ DOMAIN syscall_retvalue' = PCBs
      /\ \A x \in PCBs : x # init => syscall_retvalue'[x] = syscall_retvalue[x]
  BY <1>1, Family, Pids
<1>3. pc'[init] = l
  BY <1>1, Pids, Goes
<1>4. ASSUME machine' = "up"
      PROVE  InitOK' /\ NumCreated' = NumCreated /\ NextPid' >= NextPid
  <2>1. pc'[init] \in {"wait", "waited", "destroy", "shutdown"}
    BY <1>3, <1>4
  <2>2. NumCreated' = NumCreated /\ NextPid' = NextPid
    BY <2>1 DEF NumCreated, NextPid
  <2>3. InitOK'
    <3>1. UNCHANGED <<resources, last_fd>>
      BY DEF tables, links
    <3> QED BY <1>1, <1>3, <2>1, <2>2, <3>1 DEF InitOK, Structure
  <2> QED BY <1>1, <2>2, <2>3, NextPidType
<1>5. \A x \in Children : /\ pc[x] = "open" => syscall_retvalue'[x] = syscall_retvalue[x]
                          /\ x \in pcbs' => x \in pcbs \/ x < NextPid'
  BY <1>2, Pids
<1>6. pcbs' \subseteq PCBs
  BY <1>1 DEF TypeOK
<1> QED BY <1>2, <1>4, <1>5, <1>6, Pids, Moves

\* init waits for a child.
LEMMA WaitStep ==
    ASSUME Inv, Wait
    PROVE  Inv'
<1>1. /\ running = init /\ machine = "up" /\ pc[init] = "wait" /\ GoTo(init, "waited")
      /\ UNCHANGED <<fd, resources, i, register, counters>> /\ Kernel!disastrOS_wait(AnyChild)
  BY DEF Wait, At
<1>2. /\ UNCHANGED tables /\ pcbs' \subseteq pcbs
      /\ parent' = parent \/ \E b : parent' = [parent EXCEPT ![b] = NULL]
      /\ \/ syscall_retvalue' = syscall_retvalue
         \/ \E v : syscall_retvalue' = [syscall_retvalue EXCEPT ![init] = v]
  BY <1>1, OtherCall
<1>3. i' \in [PCBs -> Nat] /\ "waited" \in Labels
  BY <1>1 DEF Inv, TypeOK, Labels
<1> QED BY <1>1, <1>2, <1>3, InitMoves

\* init looks at the result of wait.
LEMMA WaitedStep ==
    ASSUME Inv, Waited
    PROVE  Inv'
<1>1. /\ machine = "up" /\ pc[init] = "waited"
      /\ UNCHANGED <<kernelVars, fd, resources, register, counters>>
  BY DEF Waited, At
<1>2. PICK l \in {"wait", "destroy"} : GoTo(init, l)
  BY DEF Waited
<1>3. UNCHANGED <<tables, pcbs, parent, syscall_retvalue>>
  BY <1>1 DEF kernelVars, tables, roles, links
<1>4. i' \in [PCBs -> Nat] /\ \A x \in PCBs : x # init => i'[x] = i[x]
  <2>1. i \in [PCBs -> Nat]
    BY DEF Inv, TypeOK
  <2>2. CASE i[init] > 1 /\ i' = [i EXCEPT ![init] = @ - 1]
    <3>1. i[init] - 1 \in Nat
      BY <2>1, <2>2, Pids
    <3> QED BY <2>1, <2>2, <3>1
  <2>3. CASE i' = [i EXCEPT ![init] = 1]
    BY <2>1, <2>3
  <2> QED BY <2>2, <2>3 DEF Waited
<1>5. l \in Labels
  BY DEF Labels
<1>6. l = "destroy" => i'[init] \in 1 .. NumQueues
  <2> SUFFICES ASSUME l = "destroy" PROVE i'[init] = 1
    BY ProgramAssumption
  <2>1. pc' # [pc EXCEPT ![init] = "wait"]
    BY <1>2, Pids DEF GoTo, Inv, TypeOK
  <2>2. i' = [i EXCEPT ![init] = 1]
    BY <2>1 DEF Waited, GoTo
  <2> QED BY <2>2, Pids DEF Inv, TypeOK
<1> QED BY <1>1, <1>2, <1>3, <1>4, <1>5, <1>6, InitMoves

\* No destroy succeeds while init has every queue open.
LEMMA DestroyStep ==
    ASSUME Inv, Destroy
    PROVE  Inv'
<1>1. /\ running = init /\ machine = "up" /\ pc[init] = "destroy"
      /\ UNCHANGED <<fd, resources, register, counters>>
      /\ Kernel!disastrOS_destroyResource(resources[i[init]])
      /\ i' = [i EXCEPT ![init] = @ + 1]
  BY DEF Destroy, At
<1>2. PICK l \in {"destroy", "shutdown"} : GoTo(init, l)
  BY DEF Destroy
<1>3. \A r \in resources_list : descriptors_ptrs[r] # {}
  BY <1>1 DEF Inv, Structure, ResourcesOK
<1>4. /\ UNCHANGED <<pcbs, parent, machine, tables>>
      /\ \E v : syscall_retvalue' = [syscall_retvalue EXCEPT ![init] = v]
  BY <1>1, <1>3, DestroyCall
<1>5. i' \in [PCBs -> Nat] /\ \A x \in PCBs : x # init => i'[x] = i[x]
  <2>1. i \in [PCBs -> Nat] /\ init \in PCBs
    BY Pids DEF Inv, TypeOK
  <2>2. i[init] + 1 \in Nat
    BY <2>1
  <2> QED BY <1>1, <2>1, <2>2
<1>6. l \in Labels
  BY DEF Labels
<1>7. l = "destroy" => i'[init] \in 1 .. NumQueues
  <2> SUFFICES ASSUME l = "destroy" PROVE i'[init] \in 1 .. NumQueues
    OBVIOUS
  <2>1. pc' # [pc EXCEPT ![init] = "shutdown"]
    BY <1>2, Pids DEF GoTo, Inv, TypeOK
  <2>2. i[init] < NumQueues
    BY <2>1 DEF Destroy, GoTo
  <2>3. i[init] \in 1 .. NumQueues /\ NumQueues \in Nat
    BY <1>1, ProgramAssumption DEF Inv, Structure, InitOK
  <2>4. i'[init] = i[init] + 1
    BY <1>1, Pids DEF Inv, TypeOK
  <2> QED BY <2>2, <2>3, <2>4
<1> QED BY <1>1, <1>2, <1>4, <1>5, <1>6, <1>7, InitMoves

\* The shutdown.
LEMMA ShutdownStep ==
    ASSUME Inv, Shutdown
    PROVE  Inv'
<1>1. /\ running = init /\ machine = "up" /\ pc[init] = "shutdown" /\ GoTo(init, "gone")
      /\ UNCHANGED <<fd, resources, i, register, counters>> /\ Kernel!disastrOS_shutdown
  BY DEF Shutdown, At
<1>2. /\ UNCHANGED tables /\ pcbs' \subseteq pcbs
      /\ parent' = parent \/ \E b : parent' = [parent EXCEPT ![b] = NULL]
      /\ \/ syscall_retvalue' = syscall_retvalue
         \/ \E v : syscall_retvalue' = [syscall_retvalue EXCEPT ![init] = v]
  BY <1>1, OtherCall
<1>3. machine' = "off"
  BY <1>1 DEF Kernel!disastrOS_shutdown, Kernel!P!internal_shutdown, Kernel!P!Stop
<1>4. i' \in [PCBs -> Nat] /\ "gone" \in Labels
  BY <1>1 DEF Inv, TypeOK, Labels
<1> QED BY <1>1, <1>2, <1>3, <1>4, InitMoves

\* init spawns the next process.
LEMMA SpawnStep ==
    ASSUME Inv, NEW p \in PCBs, Spawn(p), running = init, machine = "up",
           NEW l \in {"create", "spawn", "wait"}, GoTo(init, l),
           UNCHANGED <<fd, resources, counters, register>>, i' \in [PCBs -> Nat],
           \A x \in PCBs : x # init => i'[x] = i[x],
           \/ /\ pc[init] = "sleeper" /\ p = sleeper /\ l = "create" /\ i' = i
           \/ /\ pc[init] = "spawn" /\ p = i[init]
              /\ \/ p < 2 * NumQueues + 1 /\ l = "spawn" /\ i'[init] = p + 1
                 \/ p = 2 * NumQueues + 1 /\ l = "wait"
    PROVE  Inv'
<1> USE DEF Structure
<1>0. TypeOK /\ Structure /\ AssertsHold /\ NumQueues \in Nat \ {0}
  BY ProgramAssumption DEF Inv
<1>1. p = sleeper \/ (p \in Children /\ p = NextPid)
  BY <1>0, Roles, Pids DEF NextPid, InitOK
<1>2. descriptors[p] = {} /\ last_fd[p] = 0 /\ (p \in Children => pc[p] = "open")
  BY <1>0, <1>1, Pids DEF ChildrenOK
<1>3. /\ UNCHANGED tables /\ pcbs' = pcbs \cup {p}
      /\ \/ machine' = "segv" /\ UNCHANGED <<parent, syscall_retvalue>>
         \/ /\ syscall_retvalue' = [syscall_retvalue EXCEPT ![init] = p]
            /\ parent' = [parent EXCEPT ![p] = init]
  BY <1>0, <1>2, SpawnCall DEF TypeOK
<1>4. parent' \in [PCBs -> {init, NULL}] /\ DOMAIN syscall_retvalue' = PCBs
      /\ \A x \in PCBs : x # init => syscall_retvalue'[x] = syscall_retvalue[x]
  BY <1>0, <1>3 DEF TypeOK
<1>5. l \in Labels /\ l # "abort"
  BY DEF Labels
<1>6. pc'[init] = l
  BY <1>0, <1>5, Pids, Goes
<1>7. NumCreated' = NumCreated
  BY <1>0, <1>6, Pids DEF NumCreated, InitOK
<1>8. NextPid' >= NextPid /\ (p # sleeper => NextPid' > p) /\ NextPid' \in Int /\ NextPid \in Int
  BY <1>0, <1>6, Pids DEF NextPid, InitOK, sleeper
<1>9. ASSUME machine' = "up" PROVE InitOK'
  <2>1. syscall_retvalue'[init] = p
    BY <1>0, <1>3, <1>9, Pids DEF TypeOK
  <2>2. /\ l = "create" => i'[init] \in 0 .. NumQueues - 1
        /\ l = "spawn" => i'[init] \in 2 .. 2 * NumQueues + 1
    BY <1>0, Pids DEF InitOK
  <2>3. UNCHANGED <<resources, last_fd>>
    BY <1>3 DEF tables, links
  <2> QED BY <1>0, <1>6, <1>7, <2>1, <2>2, <2>3, Pids DEF InitOK
<1>10. \A x \in Children : x \in pcbs' => x \in pcbs \/ x < NextPid'
  BY <1>3, <1>8, Pids
<1>11. \A x \in Children : pc[x] = "open" => syscall_retvalue'[x] = syscall_retvalue[x]
  BY <1>4, Pids
<1>12. pcbs' \subseteq PCBs
  BY <1>0, <1>3 DEF TypeOK
<1> QED BY <1>3, <1>4, <1>5, <1>7, <1>8, <1>9, <1>10, <1>11, <1>12, Pids, Moves

\* The sleeper is the first.
LEMMA SpawnSleeperStep ==
    ASSUME Inv, SpawnSleeper
    PROVE  Inv'
<1>1. /\ running = init /\ machine = "up" /\ pc[init] = "sleeper" /\ GoTo(init, "create")
      /\ UNCHANGED <<fd, resources, i, register, counters>> /\ Spawn(sleeper)
  BY DEF SpawnSleeper, At
<1>2. i' \in [PCBs -> Nat]
  BY <1>1 DEF Inv, TypeOK
<1> QED BY <1>1, <1>2, Pids, SpawnStep

\* Then the readers and writers, by pid.
LEMMA SpawnChildrenStep ==
    ASSUME Inv, SpawnChildren
    PROVE  Inv'
<1>1. /\ running = init /\ machine = "up" /\ pc[init] = "spawn" /\ Spawn(i[init])
      /\ UNCHANGED <<fd, resources, register, counters>>
  BY DEF SpawnChildren, At
<1>2. /\ i \in [PCBs -> Nat] /\ i[init] \in 2 .. 2 * NumQueues + 1
      /\ NumQueues \in Nat \ {0}
  BY <1>1, ProgramAssumption DEF Inv, TypeOK, Structure, InitOK
<1>3. i[init] \in PCBs /\ (i[init] + 1 \in PCBs <=> i[init] < 2 * NumQueues + 1)
  <2>1. PCBs = 0 .. 2 * NumQueues + 1
    BY Roles
  <2> HIDE DEF PCBs
  <2> QED BY <1>2, <2>1
<1>4. CASE i[init] < 2 * NumQueues + 1
  <2>1. GoTo(init, "spawn") /\ i' = [i EXCEPT ![init] = @ + 1]
    BY <1>3, <1>4 DEF SpawnChildren
  <2>2. /\ i' \in [PCBs -> Nat] /\ i'[init] = i[init] + 1
        /\ \A x \in PCBs : x # init => i'[x] = i[x]
    BY <1>2, <2>1, Pids
  <2> QED BY <1>1, <1>3, <1>4, <2>1, <2>2, SpawnStep
<1>5. CASE i[init] = 2 * NumQueues + 1
  <2>1. GoTo(init, "wait") /\ i' = [i EXCEPT ![init] = 2 * NumQueues]
    BY <1>2, <1>3, <1>5 DEF SpawnChildren
  <2>2. /\ i' \in [PCBs -> Nat] /\ \A x \in PCBs : x # init => i'[x] = i[x]
    BY <1>2, <2>1, Pids
  <2> QED BY <1>1, <1>3, <1>5, <2>1, <2>2, SpawnStep
<1> QED BY <1>2, <1>4, <1>5

\* init creates a queue: it has a descriptor for it, so its assert holds.
LEMMA CreateStep ==
    ASSUME Inv, Create
    PROVE  Inv'
<1>0. /\ running = init /\ machine = "up" /\ pc[init] = "create"
      /\ UNCHANGED <<fd, register, counters>> /\ resources' = Append(resources, res(init))
      /\ Kernel!disastrOS_openResource(i[init], MESSAGE_QUEUE_TYPE, DSOS_CREATE)
  BY DEF Create, At, Opens
<1>1. TypeOK /\ Structure /\ AssertsHold /\ CountersOK /\ NumQueues \in Nat \ {0}
  BY <1>0, ProgramAssumption DEF Inv
<1>2. /\ i[init] \in 0 .. NumQueues - 1 /\ syscall_retvalue[init] \in Nat /\ NumCreated = i[init]
  BY <1>0, <1>1 DEF Structure, InitOK, NumCreated
<1>3. \A s \in resources_list : resource_id[s] # i[init]
  BY <1>1, <1>2 DEF Structure, ResourcesOK
<1>4. \E d \in Descriptors : desc[d].resource = NULL
  BY <1>0, <1>1, DescriptorFree, Pids
<1>5. /\ UNCHANGED <<pcbs, parent>>
      /\ \/ machine' = "segv" /\ UNCHANGED <<tables, syscall_retvalue>>
         \/ \E r \in MqBlocks \ resources_list :
               /\ Attached(init, r, {})
               /\ resources_list' = resources_list \cup {r}
               /\ resource_id' = [resource_id EXCEPT ![r] = i[init]]
               /\ msgs' = [msgs EXCEPT ![r] = <<>>]
               /\ UNCHANGED <<m_pool, roles>>
  BY <1>0, <1>3, <1>4, CreateCall
<1>6. res(init) \in Nat /\ DOMAIN syscall_retvalue' = PCBs
  <2>1. CASE UNCHANGED syscall_retvalue
    BY <1>1, <1>2, <2>1 DEF res, TypeOK
  <2>2. CASE \E r : Attached(init, r, {})
    <3>1. syscall_retvalue' = [syscall_retvalue EXCEPT ![init] = last_fd[init]]
      BY <2>2 DEF Attached
    <3> QED BY <1>1, <3>1, Pids DEF res, TypeOK
  <2> QED BY <1>5, <2>1, <2>2
<1>7. PICK l \in {"create", "spawn"} :
        /\ GoTo(init, l) /\ l \in Labels
        /\ \/ /\ i[init] < NumQueues - 1
              /\ i' = [i EXCEPT ![init] = @ + 1] /\ l = "create"
           \/ /\ ~ (i[init] < NumQueues - 1)
              /\ i' = [i EXCEPT ![init] = 2] /\ l = "spawn"
  <2>1. res(init) >= 0
    BY <1>6
  <2>2. "create" \in Labels /\ "spawn" \in Labels
    BY DEF Labels
  <2> QED BY <2>1, <2>2 DEF Create, Asserted
<1>8. i' \in [PCBs -> Nat] /\ \A x \in PCBs : x # init => i'[x] = i[x]
  <2>1. i \in [PCBs -> Nat]
    BY <1>1 DEF TypeOK
  <2> QED BY <1>2, <1>7, <2>1, Pids
<1>9. pc' \in [PCBs -> Labels] /\ AssertsHold' /\ \A x \in PCBs : x # init => pc'[x] = pc[x]
  <2>1. l # "abort"
    BY <1>7
  <2> QED BY <1>1, <1>7, <2>1, Pids, Goes
<1>10. TypeOK' /\ \A q \in MqBlocks : Len(msgs'[q]) <= Len(msgs[q])
  <2>1. resources' \in Seq(Int)
    BY <1>0, <1>1, <1>6 DEF TypeOK
  <2>2. CASE UNCHANGED tables
    <3>1. \A q \in MqBlocks : Len(msgs[q]) \in Int
      BY <1>1 DEF TypeOK
    <3>2. UNCHANGED <<msgs, m_pool, reading_pid, writing_pid, resources_list, resource_id,
                      descriptors_ptrs, desc, descriptors, last_fd>>
      BY <2>2 DEF tables, roles, links
    <3>3. TypeOK'
      BY <1>0, <1>1, <1>5, <1>6, <1>8, <1>9, <2>1, <3>2 DEF TypeOK
    <3> QED BY <3>1, <3>2, <3>3
  <2>3. CASE \E r \in MqBlocks \ resources_list :
               /\ Attached(init, r, {})
               /\ resources_list' = resources_list \cup {r}
               /\ resource_id' = [resource_id EXCEPT ![r] = i[init]]
               /\ msgs' = [msgs EXCEPT ![r] = <<>>]
               /\ UNCHANGED <<m_pool, roles>>
    <3>1. PICK r \in MqBlocks \ resources_list :
               /\ Attached(init, r, {})
               /\ resources_list' = resources_list \cup {r}
               /\ resource_id' = [resource_id EXCEPT ![r] = i[init]]
               /\ msgs' = [msgs EXCEPT ![r] = <<>>]
               /\ UNCHANGED <<m_pool, roles>>
      BY <2>3
    <3>2. /\ descriptors_ptrs' \in [MqBlocks -> SUBSET Descriptors]
          /\ desc' \in [Descriptors -> [pcb : PCBs \cup {NULL},
                                        resource : MqBlocks \cup {NULL}, fd : Int]]
          /\ descriptors' \in [PCBs -> SUBSET Descriptors]
          /\ last_fd' \in [PCBs -> Nat]
      BY <1>1, <3>1, Pids, AttachedDescriptors DEF Structure
    <3>3. /\ msgs' \in [MqBlocks -> Seq(MsgBlocks)]
          /\ \A q \in MqBlocks : Len(msgs'[q]) <= Len(msgs[q])
      <4>1. msgs \in [MqBlocks -> Seq(MsgBlocks)] /\ <<>> \in Seq(MsgBlocks) /\ Len(<<>>) = 0
        BY <1>1 DEF TypeOK
      <4>2. \A q \in MqBlocks : msgs'[q] = <<>> \/ msgs'[q] = msgs[q]
        BY <3>1, <4>1
      <4>3. \A q \in MqBlocks : Len(msgs[q]) \in Nat
        BY <4>1
      <4> QED BY <3>1, <4>1, <4>2, <4>3
    <3>4. /\ resources_list' \subseteq MqBlocks /\ resource_id' \in [MqBlocks -> Int \cup {NULL}]
      BY <1>1, <1>2, <3>1 DEF TypeOK
    <3> QED BY <1>0, <1>1, <1>5, <1>6, <1>8, <1>9, <2>1, <3>1, <3>2, <3>3, <3>4
            DEF TypeOK, roles
  <2> QED BY <1>5, <2>2, <2>3
<1>11. CountersOK'
  <2>1. \A x \in Children : pc'[x] \in {"load", "store"} => pc'[x] = pc[x]
    BY <1>9, Pids
  <2>2. \A w \in writers : i'[w] = i[w]
    BY <1>8, Pids DEF Children
  <2> QED BY <1>0, <1>1, <1>10, <2>1, <2>2, CountersQuiet
<1>12. ASSUME machine' = "up" PROVE Structure'
  <2>1. PICK r \in MqBlocks \ resources_list :
               /\ Attached(init, r, {})
               /\ resources_list' = resources_list \cup {r}
               /\ resource_id' = [resource_id EXCEPT ![r] = i[init]]
               /\ UNCHANGED roles
    BY <1>5, <1>12
  <2>2. res(init) = last_fd[init]
    <3>1. syscall_retvalue' = [syscall_retvalue EXCEPT ![init] = last_fd[init]]
      BY <2>1 DEF Attached
    <3> QED BY <1>1, <3>1, Pids DEF res, TypeOK
  <2>3. resources' = Append(resources, last_fd[init]) /\ UNCHANGED <<roles, pcbs, fd>>
    BY <1>0, <1>5, <2>1, <2>2
  <2>4. \/ /\ i[init] < NumQueues - 1
           /\ i' = [i EXCEPT ![init] = @ + 1] /\ pc' = [pc EXCEPT ![init] = "create"]
        \/ /\ ~ (i[init] < NumQueues - 1)
           /\ i' = [i EXCEPT ![init] = 2] /\ pc' = [pc EXCEPT ![init] = "spawn"]
    BY <1>7 DEF GoTo
  <2> QED BY <1>0, <1>1, <2>1, <2>3, <2>4, CreateStructure
<1> QED BY <1>9, <1>10, <1>11, <1>12 DEF Inv

\* What an open of the queue r by a child changes.
Opened(p, r) ==
    /\ Attached(p, r, descriptors_ptrs[r])
    /\ reading_pid' = IF role(p) = DSOS_READ THEN [reading_pid EXCEPT ![r] = p] ELSE reading_pid
    /\ writing_pid' = IF role(p) = DSOS_WRITE THEN [writing_pid EXCEPT ![r] = p] ELSE writing_pid
    /\ UNCHANGED <<msgs, m_pool, stale_links, resources_list, resource_id>>

\* A child opens its queue: it is there, nobody has the child's role and a descriptor is free.
LEMMA OpenDoes ==
    ASSUME Inv, NEW p \in Children, Open(p)
    PROVE  /\ NumCreated = NumQueues
           /\ role(p) = DSOS_READ => p \in readers
           /\ role(p) = DSOS_WRITE => p \in writers
           /\ UNCHANGED <<pcbs, parent>>
           /\ \E r \in resources_list :
                 /\ resource_id[r] = queue_of(p)
                 /\ \/ machine' = "segv" /\ UNCHANGED <<tables, syscall_retvalue>>
                    \/ Opened(p, r)
<1> DEFINE id == resources[queue_of(p) + 1]
<1>0. /\ running = p /\ machine = "up" /\ pc[p] = "open" /\ p \in PCBs /\ p # init
      /\ UNCHANGED <<resources, i, register, counters>>
      /\ fd' = [fd EXCEPT ![p] = res(p)]
      /\ Kernel!disastrOS_openResource(id, MESSAGE_QUEUE_TYPE, role(p))
  BY Pids DEF Open, At, Opens
<1>1. TypeOK /\ Structure /\ AssertsHold /\ CountersOK /\ NumQueues \in Nat \ {0}
  BY <1>0, ProgramAssumption DEF Inv
<1>2. p \in pcbs
  BY <1>0, Calls DEF Kernel!R!internal_openResource, Kernel!R!Caller
<1>3. NumCreated = NumQueues
  <2>1. ~ (p >= NextPid) /\ p \in 2 .. 2 * NumQueues + 1
    BY <1>1, <1>2, Roles DEF Structure, ChildrenOK
  <2>2. pc[init] \notin {"sleeper", "create"}
    BY <1>1, <2>1 DEF NextPid
  <2> QED BY <2>2 DEF NumCreated
<1>4. queue_of(p) \in 0 .. NumQueues - 1 /\ id = queue_of(p)
  <2>1. queue_of(p) \in 0 .. NumQueues - 1
    BY Roles
  <2>2. queue_of(p) + 1 \in 1 .. NumQueues /\ queue_of(p) + 1 - 1 = queue_of(p)
    BY <1>1, <2>1
  <2> QED BY <1>1, <1>3, <2>1, <2>2 DEF Structure, InitOK
<1>5. PICK r \in resources_list : resource_id[r] = id
  BY <1>1, <1>3, <1>4 DEF Structure, ResourcesOK
<1>6. r \in MqBlocks /\ \A s \in resources_list : resource_id[s] = id <=> s = r
  BY <1>1, <1>5 DEF Structure, ResourcesOK, TypeOK
<1>7. /\ role(p) \in {DSOS_READ, DSOS_WRITE}
      /\ role(p) = DSOS_READ => p \in readers
      /\ role(p) = DSOS_WRITE => p \in writers
  <2>1. p \in readers \/ p \in writers
    BY DEF Children
  <2> QED BY <2>1, Codes, Pids DEF role
<1>8. ASSUME p \in readers PROVE reading_pid[r] = NULL
  <2> SUFFICES ASSUME reading_pid[r] # NULL PROVE FALSE
    OBVIOUS
  <2>1. /\ reading_pid[r] \in readers /\ queue_of(reading_pid[r]) = queue_of(p)
        /\ pc[reading_pid[r]] # "open"
    BY <1>1, <1>4, <1>5, <1>6 DEF Structure, RolesOK
  <2>2. reading_pid[r] = p
    BY <1>8, <2>1, Roles
  <2> QED BY <1>0, <2>1, <2>2
<1>9. ASSUME p \in writers PROVE writing_pid[r] = NULL
  <2> SUFFICES ASSUME writing_pid[r] # NULL PROVE FALSE
    OBVIOUS
  <2>1. /\ writing_pid[r] \in writers /\ queue_of(writing_pid[r]) = queue_of(p)
        /\ pc[writing_pid[r]] # "open"
    BY <1>1, <1>4, <1>5, <1>6 DEF Structure, RolesOK
  <2>2. writing_pid[r] = p
    BY <1>9, <2>1, Roles
  <2> QED BY <1>0, <2>1, <2>2
<1>10. \E d \in Descriptors : desc[d].resource = NULL
  BY <1>0, <1>1, DescriptorFree
<1>11. /\ UNCHANGED <<pcbs, parent>>
       /\ (machine' = "segv" /\ UNCHANGED <<tables, syscall_retvalue>>) \/ Opened(p, r)
  <2>1. /\ role(p) = DSOS_READ => reading_pid[r] = NULL
        /\ role(p) = DSOS_WRITE => writing_pid[r] = NULL
    BY <1>7, <1>8, <1>9
  <2>2. resources_list \subseteq MqBlocks
    BY <1>1 DEF TypeOK
  <2> HIDE DEF id
  <2> QED BY <1>0, <1>6, <1>7, <1>10, <2>1, <2>2, OpenCall DEF Opened
<1> HIDE DEF id
<1> QED BY <1>3, <1>4, <1>5, <1>7, <1>11

\* So the assert holds.
LEMMA OpenStep ==
    ASSUME Inv, NEW p \in Children, Open(p)
    PROVE  Inv'
<1>0. /\ running = p /\ machine = "up" /\ pc[p] = "open" /\ p \in PCBs /\ p # init
      /\ UNCHANGED <<resources, i, register, counters>>
      /\ fd' = [fd EXCEPT ![p] = res(p)]
  BY Pids DEF Open, At
<1>1. TypeOK /\ Structure /\ AssertsHold /\ CountersOK /\ NumQueues \in Nat \ {0}
  BY <1>0, ProgramAssumption DEF Inv
<1>2. p \in pcbs
  BY <1>0, Calls DEF Open, Opens, Kernel!R!internal_openResource, Kernel!R!Caller
<1>3. /\ role(p) = DSOS_READ => p \in readers
      /\ role(p) = DSOS_WRITE => p \in writers
      /\ UNCHANGED <<pcbs, parent>>
  BY OpenDoes
<1>4. PICK r \in resources_list :
         /\ resource_id[r] = queue_of(p)
         /\ (machine' = "segv" /\ UNCHANGED <<tables, syscall_retvalue>>) \/ Opened(p, r)
  BY OpenDoes
<1>5. r \in MqBlocks
  BY <1>1, <1>4 DEF TypeOK
<1>6. /\ UNCHANGED <<pcbs, parent>>
       /\ \/ machine' = "segv" /\ UNCHANGED <<tables, syscall_retvalue>>
          \/ /\ Attached(p, r, descriptors_ptrs[r])
             /\ reading_pid' = IF role(p) = DSOS_READ THEN [reading_pid EXCEPT ![r] = p]
                                                      ELSE reading_pid
             /\ writing_pid' = IF role(p) = DSOS_WRITE THEN [writing_pid EXCEPT ![r] = p]
                                                       ELSE writing_pid
             /\ UNCHANGED <<msgs, m_pool, resources_list, resource_id>>
  BY <1>4, <1>3 DEF Opened
<1>7. res(p) = 0 /\ DOMAIN syscall_retvalue' = PCBs
  <2>1. last_fd[p] = 0 /\ syscall_retvalue[p] = 0
    BY <1>0, <1>1 DEF Structure, ChildrenOK
  <2>2. CASE UNCHANGED syscall_retvalue
    BY <1>1, <2>1, <2>2 DEF res, TypeOK
  <2>3. CASE Attached(p, r, descriptors_ptrs[r])
    <3>1. syscall_retvalue' = [syscall_retvalue EXCEPT ![p] = last_fd[p]]
      BY <2>3 DEF Attached
    <3> QED BY <1>0, <1>1, <2>1, <3>1 DEF res, TypeOK
  <2> QED BY <1>6, <2>2, <2>3
<1>8. PICK l \in {"read", "write"} : GoTo(p, l)
  BY <1>7 DEF Open, Asserted
<1>9. /\ pc' \in [PCBs -> Labels] /\ AssertsHold'
       /\ pc'[p] = l /\ \A x \in PCBs : x # p => pc'[x] = pc[x]
  <2>1. l \in Labels /\ l # "abort"
    BY DEF Labels
  <2> QED BY <1>0, <1>1, <1>8, <2>1, Goes
<1>10. fd' = [fd EXCEPT ![p] = 0] /\ fd' \in [PCBs -> Int]
  BY <1>0, <1>1, <1>7 DEF TypeOK
<1>11. TypeOK' /\ msgs' = msgs
  <2>1. CASE UNCHANGED tables
    <3>1. UNCHANGED <<msgs, m_pool, reading_pid, writing_pid, resources_list, resource_id,
                      descriptors_ptrs, desc, descriptors, last_fd>>
      BY <2>1 DEF tables, roles, links
    <3> QED BY <1>0, <1>1, <1>6, <1>7, <1>9, <1>10, <3>1 DEF TypeOK
  <2>2. CASE /\ Attached(p, r, descriptors_ptrs[r])
             /\ reading_pid' = IF role(p) = DSOS_READ THEN [reading_pid EXCEPT ![r] = p]
                                                      ELSE reading_pid
             /\ writing_pid' = IF role(p) = DSOS_WRITE THEN [writing_pid EXCEPT ![r] = p]
                                                       ELSE writing_pid
             /\ UNCHANGED <<msgs, m_pool, resources_list, resource_id>>
    <3>1. /\ descriptors_ptrs' \in [MqBlocks -> SUBSET Descriptors]
          /\ desc' \in [Descriptors -> [pcb : PCBs \cup {NULL},
                                        resource : MqBlocks \cup {NULL}, fd : Int]]
          /\ descriptors' \in [PCBs -> SUBSET Descriptors]
          /\ last_fd' \in [PCBs -> Nat]
      <4>1. descriptors_ptrs[r] \in SUBSET Descriptors
        BY <1>1, <1>5 DEF TypeOK
      <4> QED BY <1>0, <1>1, <1>5, <2>2, <4>1, AttachedDescriptors DEF Structure
    <3>2. /\ reading_pid' \in [MqBlocks -> PCBs \cup {NULL}]
          /\ writing_pid' \in [MqBlocks -> PCBs \cup {NULL}]
      BY <1>0, <1>1, <2>2 DEF TypeOK
    <3> QED BY <1>0, <1>1, <1>6, <1>7, <1>9, <1>10, <2>2, <3>1, <3>2 DEF TypeOK
  <2> QED BY <1>6, <2>1, <2>2
<1>12. CountersOK'
  <2>1. \A x \in Children : pc'[x] \in {"load", "store"} => pc'[x] = pc[x]
    BY <1>9, Pids
  <2>2. \A w \in writers : i'[w] = i[w]
    BY <1>0
  <2>3. \A q \in MqBlocks : Len(msgs'[q]) <= Len(msgs[q])
    <3>1. \A q \in MqBlocks : Len(msgs[q]) \in Int
      BY <1>1 DEF TypeOK
    <3> QED BY <1>11, <3>1
  <2> QED BY <1>0, <1>1, <1>11, <2>1, <2>2, <2>3, CountersQuiet
<1>13. ASSUME machine' = "up" PROVE Structure'
  <2>1. /\ Attached(p, r, descriptors_ptrs[r])
        /\ UNCHANGED <<pcbs, i, resources, resources_list, resource_id>>
        /\ \/ reading_pid' = reading_pid
           \/ p \in readers /\ reading_pid' = [reading_pid EXCEPT ![r] = p]
        /\ \/ writing_pid' = writing_pid
           \/ p \in writers /\ writing_pid' = [writing_pid EXCEPT ![r] = p]
    BY <1>0, <1>3, <1>6, <1>13
  <2>2. pc' = [pc EXCEPT ![p] = l] /\ resource_id[r] = queue_of(p)
    BY <1>4, <1>8 DEF GoTo
  <2> QED BY <1>0, <1>1, <1>2, <1>10, <2>1, <2>2, OpenStructure
<1> QED BY <1>9, <1>11, <1>12, <1>13 DEF Inv

\* A descriptor of a child that holds one is one of a queue.
LEMMA Holds ==
    ASSUME TypeOK, Structure, NEW p \in Children, pc[p] \in Holding
    PROVE  /\ \E d \in descriptors[p] : desc[d].fd = fd[p]
           /\ \A d \in descriptors[p] : desc[d].resource \in MqBlocks
BY Pids DEF Structure, ChildrenOK, DescriptorsOK

\* After a release all has its type.
LEMMA ReleasedTypes ==
    ASSUME TypeOK, NEW p \in PCBs, NEW ds, Released(p, ds)
    PROVE  /\ descriptors_ptrs' \in [MqBlocks -> SUBSET Descriptors]
           /\ desc' \in [Descriptors -> [pcb : PCBs \cup {NULL},
                                         resource : MqBlocks \cup {NULL}, fd : Int]]
           /\ descriptors' \in [PCBs -> SUBSET Descriptors]
BY DEF TypeOK, Released

\* A child closes the descriptor it holds, so the assert holds.
LEMMA CloseStep ==
    ASSUME Inv, NEW p \in Children, Close(p)
    PROVE  Inv'
<1>0. /\ running = p /\ machine = "up" /\ pc[p] = "close" /\ p \in PCBs /\ p # init
      /\ UNCHANGED <<fd, resources, i, register, counters>>
      /\ Kernel!disastrOS_closeResource(fd[p], role(p))
  BY Pids DEF Close, At
<1>1. TypeOK /\ Structure /\ AssertsHold /\ CountersOK
  BY <1>0 DEF Inv
<1>2. /\ \E d \in descriptors[p] : desc[d].fd = fd[p]
      /\ \A d \in descriptors[p] : desc[d].resource \in MqBlocks
  BY <1>0, <1>1, Holds DEF Holding
<1>3. /\ UNCHANGED <<pcbs, parent, machine, msgs, m_pool, resources_list, resource_id, last_fd>>
      /\ syscall_retvalue' = [syscall_retvalue EXCEPT ![p] = 0]
      /\ \E d \in descriptors[p] :
            /\ Released(p, {d})
            /\ \/ reading_pid' = [reading_pid EXCEPT ![desc[d].resource] = NULL]
               \/ reading_pid' = reading_pid
            /\ \/ writing_pid' = [writing_pid EXCEPT ![desc[d].resource] = NULL]
               \/ writing_pid' = writing_pid
  BY <1>0, <1>2, CloseCall
<1>4. PICK d \in descriptors[p] :
         /\ Released(p, {d})
         /\ \/ reading_pid' = [reading_pid EXCEPT ![desc[d].resource] = NULL]
            \/ reading_pid' = reading_pid
         /\ \/ writing_pid' = [writing_pid EXCEPT ![desc[d].resource] = NULL]
            \/ writing_pid' = writing_pid
  BY <1>3
<1>5. GoTo(p, "exit")
  <2>1. res(p) = 0
    BY <1>0, <1>1, <1>3 DEF res, TypeOK
  <2> QED BY <2>1 DEF Close, Asserted
<1>6. /\ pc' \in [PCBs -> Labels] /\ AssertsHold'
      /\ pc'[p] = "exit" /\ \A x \in PCBs : x # p => pc'[x] = pc[x]
  <2>1. "exit" \in Labels
    BY DEF Labels
  <2> QED BY <1>0, <1>1, <1>5, <2>1, Goes
<1>7. /\ reading_pid' \in [MqBlocks -> PCBs \cup {NULL}]
      /\ writing_pid' \in [MqBlocks -> PCBs \cup {NULL}]
      /\ \A r \in MqBlocks : /\ reading_pid'[r] \in {reading_pid[r], NULL}
                             /\ writing_pid'[r] \in {writing_pid[r], NULL}
  <2>1. /\ reading_pid \in [MqBlocks -> PCBs \cup {NULL}]
        /\ writing_pid \in [MqBlocks -> PCBs \cup {NULL}]
    BY <1>1 DEF TypeOK
  <2>2. /\ reading_pid' \in [MqBlocks -> PCBs \cup {NULL}]
        /\ \A r \in MqBlocks : reading_pid'[r] \in {reading_pid[r], NULL}
    BY <1>4, <2>1
  <2>3. /\ writing_pid' \in [MqBlocks -> PCBs \cup {NULL}]
        /\ \A r \in MqBlocks : writing_pid'[r] \in {writing_pid[r], NULL}
    BY <1>4, <2>1
  <2> QED BY <2>2, <2>3
<1>8. TypeOK'
  <2>1. /\ descriptors_ptrs' \in [MqBlocks -> SUBSET Descriptors]
        /\ desc' \in [Descriptors -> [pcb : PCBs \cup {NULL},
                                      resource : MqBlocks \cup {NULL}, fd : Int]]
        /\ descriptors' \in [PCBs -> SUBSET Descriptors]
    BY <1>0, <1>1, <1>4, ReleasedTypes
  <2> QED BY <1>0, <1>1, <1>3, <1>6, <1>7, <2>1 DEF TypeOK
<1>9. CountersOK'
  <2>1. \A x \in Children : pc'[x] \in {"load", "store"} => pc'[x] = pc[x]
    BY <1>6, Pids
  <2>2. \A w \in writers : i'[w] = i[w]
    BY <1>0
  <2>3. \A q \in MqBlocks : Len(msgs'[q]) <= Len(msgs[q])
    <3>1. \A q \in MqBlocks : Len(msgs[q]) \in Int
      BY <1>1 DEF TypeOK
    <3> QED BY <1>3, <3>1
  <2> QED BY <1>0, <1>1, <1>8, <2>1, <2>2, <2>3, CountersQuiet
<1>10. Structure'
  <2>1. /\ {d} \in SUBSET descriptors[p] /\ pc[p] # "open"
        /\ pc' = [pc EXCEPT ![p] = "exit"] /\ "exit" \notin Holding \cup {"open"}
    BY <1>0, <1>5 DEF GoTo, Holding
  <2>2. \A x \in PCBs : x # p => syscall_retvalue'[x] = syscall_retvalue[x]
    BY <1>3
  <2>3. /\ UNCHANGED <<i, resources, fd, resources_list, resource_id, last_fd>>
        /\ pcbs' \subseteq pcbs
        /\ \A x \in Children : pc[x] = "open" => syscall_retvalue'[x] = syscall_retvalue[x]
        /\ syscall_retvalue'[init] = syscall_retvalue[init]
    BY <1>0, <1>3, <2>2, Pids
  <2> QED BY <1>1, <1>4, <1>7, <2>1, <2>3, ReleaseStructure
<1> QED BY <1>6, <1>8, <1>9, <1>10 DEF Inv

\* A child exits, and may take the descriptors it left open with it.
LEMMA ExitStep ==
    ASSUME Inv, NEW p \in Children, Exit(p)
    PROVE  Inv'
<1>0. /\ running = p /\ machine = "up" /\ pc[p] = "exit" /\ p \in PCBs /\ p # init
      /\ UNCHANGED <<fd, resources, i, register, counters>>
      /\ GoTo(p, "gone") /\ Kernel!disastrOS_exit(p + 1)
  BY Pids DEF Exit, At
<1>1. TypeOK /\ Structure /\ AssertsHold /\ CountersOK
  BY <1>0 DEF Inv
<1>2. /\ pcbs' \subseteq pcbs
      /\ parent' = parent \/ parent' = [parent EXCEPT ![p] = NULL]
      /\ \/ syscall_retvalue' = syscall_retvalue
         \/ /\ parent[p] # NULL
            /\ syscall_retvalue' = [syscall_retvalue EXCEPT ![parent[p]] = p]
      /\ UNCHANGED <<msgs, m_pool, roles, resources_list, resource_id, last_fd>>
      /\ \/ UNCHANGED links
         \/ Released(p, descriptors[p])
  BY <1>0, ExitCall
<1>3. /\ parent' \in [PCBs -> {init, NULL}] /\ DOMAIN syscall_retvalue' = PCBs
      /\ \A x \in PCBs : x # init => syscall_retvalue'[x] = syscall_retvalue[x]
      /\ pcbs' \subseteq PCBs
  <2>1. parent[p] \in {init, NULL} /\ parent \in [PCBs -> {init, NULL}]
    BY <1>0, <1>1 DEF TypeOK
  <2>2. /\ parent' \in [PCBs -> {init, NULL}] /\ pcbs' \subseteq PCBs
    BY <1>1, <1>2, <2>1 DEF TypeOK
  <2>3. /\ DOMAIN syscall_retvalue' = PCBs
        /\ \A x \in PCBs : x # init => syscall_retvalue'[x] = syscall_retvalue[x]
    BY <1>1, <1>2, <2>1 DEF TypeOK
  <2> QED BY <2>2, <2>3
<1>4. /\ pc' \in [PCBs -> Labels] /\ AssertsHold'
      /\ pc'[p] = "gone" /\ \A x \in PCBs : x # p => pc'[x] = pc[x]
  <2>1. "gone" \in Labels
    BY DEF Labels
  <2> QED BY <1>0, <1>1, <2>1, Goes
<1>5. TypeOK'
  <2>1. /\ descriptors_ptrs' \in [MqBlocks -> SUBSET Descriptors]
        /\ desc' \in [Descriptors -> [pcb : PCBs \cup {NULL},
                                      resource : MqBlocks \cup {NULL}, fd : Int]]
        /\ descriptors' \in [PCBs -> SUBSET Descriptors]
    <3>1. CASE UNCHANGED links
      BY <1>1, <3>1 DEF TypeOK, links
    <3>2. CASE Released(p, descriptors[p])
      BY <1>0, <1>1, <3>2, ReleasedTypes
    <3> QED BY <1>2, <3>1, <3>2
  <2> QED BY <1>0, <1>1, <1>2, <1>3, <1>4, <2>1 DEF TypeOK, roles
<1>6. CountersOK'
  <2>1. \A x \in Children : pc'[x] \in {"load", "store"} => pc'[x] = pc[x]
    BY <1>4, Pids
  <2>2. \A w \in writers : i'[w] = i[w]
    BY <1>0
  <2>3. \A q \in MqBlocks : Len(msgs'[q]) <= Len(msgs[q])
    <3>1. \A q \in MqBlocks : Len(msgs[q]) \in Int
      BY <1>1 DEF TypeOK
    <3> QED BY <1>2, <3>1
  <2> QED BY <1>0, <1>1, <1>5, <2>1, <2>2, <2>3, CountersQuiet
<1>7. pc[init] # "create"
  <2>1. ~ (p >= NextPid) /\ p \in 2 .. 2 * NumQueues + 1 /\ NumQueues \in Nat
    BY <1>0, <1>1, Roles, ProgramAssumption DEF Structure, ChildrenOK
  <2> QED BY <2>1 DEF NextPid
<1>8. \A x \in Children : pc[x] = "open" => syscall_retvalue'[x] = syscall_retvalue[x]
  BY <1>3, Pids
<1>9. CASE UNCHANGED links
  <2>1. pc'[init] = pc[init]
    BY <1>0, <1>4, Pids
  <2>2. NumCreated' = NumCreated /\ NextPid' = NextPid
    BY <1>0, <2>1 DEF NumCreated, NextPid
  <2>3. InitOK'
    BY <1>0, <1>1, <1>2, <1>7, <2>1, <2>2 DEF InitOK, Structure
  <2>4. NextPid' >= NextPid
    BY <1>1, <2>2, NextPidType
  <2>5. \A x \in Children : /\ x \in pcbs' => x \in pcbs \/ x < NextPid'
                            /\ pc'[x] = "open" <=> pc[x] = "open"
                            /\ pc'[x] \in Holding => pc[x] \in Holding /\ fd'[x] = fd[x]
    <3>1. "gone" \notin Holding /\ "gone" # "open" /\ pc[p] # "open"
      BY <1>0 DEF Holding
    <3> QED BY <1>0, <1>2, <1>4, <3>1, Pids
  <2>6. UNCHANGED <<roles, links>>
    BY <1>2, <1>9
  <2>7. Structure'
    BY <1>1, <1>5, <1>8, <2>2, <2>3, <2>4, <2>5, <2>6, Frame
  <2> QED BY <1>4, <1>5, <1>6, <2>7 DEF Inv
<1>10. CASE Released(p, descriptors[p])
  <2>1. /\ pc[p] # "open" /\ "gone" \notin Holding \cup {"open"}
        /\ pc' = [pc EXCEPT ![p] = "gone"]
    BY <1>0 DEF GoTo, Holding
  <2>2. \A r \in MqBlocks : /\ reading_pid'[r] \in {reading_pid[r], NULL}
                            /\ writing_pid'[r] \in {writing_pid[r], NULL}
    BY <1>2 DEF roles
  <2>3. Structure'
    BY <1>0, <1>1, <1>2, <1>7, <1>8, <1>10, <2>1, <2>2, ReleaseStructure
  <2> QED BY <1>4, <1>5, <1>6, <2>3 DEF Inv
<1> QED BY <1>2, <1>9, <1>10

\* A child that holds its descriptor, changes none and holds on to it.
LEMMA HoldsOn ==
    ASSUME TypeOK, TypeOK', Structure, NEW p \in Children, NEW l \in Holding, pc[p] \in Holding,
           GoTo(p, l), UNCHANGED <<roles, links, pcbs, fd, resources>>, i'[init] = i[init],
           \A x \in PCBs : x # p => syscall_retvalue'[x] = syscall_retvalue[x]
    PROVE  Structure'
<1>0. p \in PCBs /\ p # init
  BY Pids
<1>1. pc'[p] = l /\ \A x \in PCBs : x # p => pc'[x] = pc[x]
  BY <1>0 DEF GoTo, TypeOK
<1>2. InitOK' /\ NumCreated' = NumCreated /\ NextPid' = NextPid
  BY <1>0, InitRests, Pids DEF Structure, links
<1>3. NextPid' >= NextPid
  BY <1>2, NextPidType
<1>4. l # "open" /\ pc[p] # "open"
  BY DEF Holding
<1>5. \A x \in Children : /\ x \in pcbs' => x \in pcbs \/ x < NextPid'
                          /\ pc'[x] = "open" <=> pc[x] = "open"
                          /\ pc'[x] \in Holding => pc[x] \in Holding /\ fd'[x] = fd[x]
                          /\ pc[x] = "open" => syscall_retvalue'[x] = syscall_retvalue[x]
  BY <1>0, <1>1, <1>4, Pids
<1> QED BY <1>2, <1>3, <1>5, Frame

\* The sums when nothing they count changes.
LEMMA SettledSame ==
    ASSUME \A w \in writers : i'[w] = i[w] /\ Pending(w)' = Pending(w)
    PROVE  Settled' = Settled /\ Stored' = Stored
<1>1. [w \in writers |-> i'[w] - Pending(w)'] = [w \in writers |-> i[w] - Pending(w)]
  OBVIOUS
<1>2. [w \in writers |-> i'[w]] = [w \in writers |-> i[w]]
  OBVIOUS
<1> QED BY <1>1, <1>2 DEF Settled, Stored

\* The increments of the readers when none of them is at another label.
LEMMA ReadingSame ==
    ASSUME \A r \in readers : Pending(r)' = Pending(r)
    PROVE  Reading' = Reading
<1>1. [r \in readers |-> Pending(r)'] = [r \in readers |-> Pending(r)]
  OBVIOUS
<1> QED BY <1>1 DEF Reading

\* The messages in the queues when no queue changes.
LEMMA QueuedSame ==
    ASSUME msgs' = msgs
    PROVE  Queued' = Queued
BY DEF Queued

\* A counter and the register of a child are loaded and stored one after the other.
LEMMA LoadStep ==
    ASSUME Inv, NEW p \in Children, Load(p)
    PROVE  Inv'
<1>0. /\ running = p /\ machine = "up" /\ pc[p] = "load" /\ p \in PCBs /\ p # init
      /\ UNCHANGED <<kernelVars, fd, resources, i, counters>>
      /\ register' = [register EXCEPT ![p] = counters[counter(p)] + 1] /\ GoTo(p, "store")
  BY Pids DEF Load, At
<1>1. TypeOK /\ Structure /\ AssertsHold /\ CountersOK
  BY <1>0 DEF Inv
<1>2. UNCHANGED <<machine, pcbs, parent, syscall_retvalue, msgs, m_pool, reading_pid,
                  writing_pid, resources_list, resource_id, descriptors_ptrs, desc,
                  descriptors, last_fd>>
  BY <1>0 DEF kernelVars
<1>3. /\ pc' \in [PCBs -> Labels] /\ AssertsHold'
      /\ pc'[p] = "store" /\ \A x \in PCBs : x # p => pc'[x] = pc[x]
  <2>1. "store" \in Labels
    BY DEF Labels
  <2> QED BY <1>0, <1>1, <2>1, Goes
<1>4. counter(p) \in {"written", "read"}
  BY DEF counter
<1>5. TypeOK'
  <2>1. register' \in [PCBs -> Int]
    <3>1. counters[counter(p)] + 1 \in Int
      BY <1>1, <1>4 DEF TypeOK
    <3> QED BY <1>0, <1>1, <3>1 DEF TypeOK
  <2> QED BY <1>0, <1>1, <1>2, <1>3, <2>1 DEF TypeOK
<1>6. Structure'
  <2>1. "load" \in Holding /\ "store" \in Holding
    BY DEF Holding
  <2> QED BY <1>0, <1>1, <1>2, <1>5, <2>1, HoldsOn DEF roles, links
<1>7. CountersOK'
  <2>1. \A x \in Children : Pending(x)' = Pending(x)
    BY <1>0, <1>3, Pids DEF Pending
  <2>2. Settled' = Settled /\ Stored' = Stored /\ Reading' = Reading /\ Queued' = Queued
    BY <1>0, <1>2, <2>1, SettledSame, ReadingSame, QueuedSame DEF Children
  <2>3. \A x \in Children : pc'[x] = "store" =>
            x = p \/ (pc[x] = "store" /\ register'[x] = register[x])
    BY <1>0, <1>1, <1>3, Pids DEF TypeOK
  <2>4. register'[p] = counters[counter(p)] + 1
    BY <1>0, <1>1 DEF TypeOK
  <2>5. Integral /\ counters["written"] \in Int /\ counters["read"] \in Int
    BY <1>1, Totals DEF TypeOK
  <2>6. counters["written"] <= Settled /\ counters["read"] <= Stored - Queued - Reading
    BY <1>1 DEF CountersOK
  <2>7. ASSUME NEW w \in writers, pc'[w] = "store" PROVE register'[w] <= Settled + 1
    <3>1. CASE w = p
      <4>1. counter(p) = "written"
        BY <3>1, Pids DEF counter
      <4> QED BY <2>4, <2>5, <2>6, <3>1, <4>1 DEF Integral
    <3>2. CASE w # p
      BY <1>1, <2>3, <2>7, <3>2 DEF CountersOK, Children
    <3> QED BY <3>1, <3>2
  <2>8. ASSUME NEW r \in readers, pc'[r] = "store"
        PROVE  register'[r] <= Stored - Queued - Reading + 1
    <3>1. CASE r = p
      <4>1. counter(p) = "read"
        BY <3>1 DEF counter
      <4> QED BY <2>4, <2>5, <2>6, <3>1, <4>1 DEF Integral
    <3>2. CASE r # p
      BY <1>1, <2>3, <2>8, <3>2 DEF CountersOK, Children
    <3> QED BY <3>1, <3>2
  <2> QED BY <1>0, <2>2, <2>6, <2>7, <2>8 DEF CountersOK
<1> QED BY <1>3, <1>5, <1>6, <1>7 DEF Inv

\* How a sum changes when one of its terms does.
LEMMA SettledBy ==
    ASSUME TypeOK, TypeOK', NEW p \in writers, NEW c \in Int,
           i'[p] - Pending(p)' >= i[p] - Pending(p) + c,
           \A w \in writers : w # p => i'[w] - Pending(w)' >= i[w] - Pending(w)
    PROVE  Settled' >= Settled + c
<1> DEFINE f == [w \in writers |-> i[w] - Pending(w)]
           g == [w \in writers |-> i'[w] - Pending(w)']
<1>1. f \in [writers -> Int] /\ g \in [writers -> Int]
  BY Terms, NextTerms DEF TermsOK
<1>2. f[p] <= g[p] + (0 - c)
  <2>1. f[p] \in Int /\ g[p] \in Int /\ g[p] >= f[p] + c
    BY <1>1
  <2> HIDE DEF f, g
  <2> QED BY <2>1
<1>3. \A w \in writers : w # p => f[w] <= g[w]
  <2>1. \A w \in writers : w # p => g[w] >= f[w]
    OBVIOUS
  <2> HIDE DEF f, g
  <2> QED BY <1>1, <2>1
<1>4. SumFunction(f) <= SumFunction(g) + (0 - c)
  <2> HIDE DEF f, g
  <2> QED BY <1>1, <1>2, <1>3, Finite, SumChange
<1>5. Settled = SumFunction(f) /\ Settled' = SumFunction(g)
  BY DEF Settled
<1>6. Settled \in Int /\ Settled' \in Int
  BY Totals, NextTotals DEF Integral
<1> HIDE DEF f, g
<1> QED BY <1>4, <1>5, <1>6

\* The messages that writers counted as theirs.
LEMMA StoredBy ==
    ASSUME TypeOK, TypeOK', NEW p \in writers, NEW c \in Int, i'[p] >= i[p] + c,
           \A w \in writers : w # p => i'[w] >= i[w]
    PROVE  Stored' >= Stored + c
<1> DEFINE f == [w \in writers |-> i[w]]
           g == [w \in writers |-> i'[w]]
<1>1. f \in [writers -> Int] /\ g \in [writers -> Int]
  BY Terms, NextTerms DEF TermsOK
<1>2. f[p] <= g[p] + (0 - c)
  <2>1. f[p] \in Int /\ g[p] \in Int /\ g[p] >= f[p] + c
    BY <1>1
  <2> HIDE DEF f, g
  <2> QED BY <2>1
<1>3. \A w \in writers : w # p => f[w] <= g[w]
  <2>1. \A w \in writers : w # p => g[w] >= f[w]
    OBVIOUS
  <2> HIDE DEF f, g
  <2> QED BY <1>1, <2>1
<1>4. SumFunction(f) <= SumFunction(g) + (0 - c)
  <2> HIDE DEF f, g
  <2> QED BY <1>1, <1>2, <1>3, Finite, SumChange
<1>5. Stored = SumFunction(f) /\ Stored' = SumFunction(g)
  BY DEF Stored
<1>6. Stored \in Int /\ Stored' \in Int
  BY Totals, NextTotals DEF Integral
<1> HIDE DEF f, g
<1> QED BY <1>4, <1>5, <1>6

\* The readers between a read and the end of its increment.
LEMMA ReadingBy ==
    ASSUME TypeOK, TypeOK', NEW p \in readers, NEW c \in Int, Pending(p)' <= Pending(p) + c,
           \A r \in readers : r # p => Pending(r)' <= Pending(r)
    PROVE  Reading' <= Reading + c
<1> DEFINE f == [r \in readers |-> Pending(r)]
           g == [r \in readers |-> Pending(r)']
<1>1. f \in [readers -> Int] /\ g \in [readers -> Int]
  BY Terms, NextTerms DEF TermsOK
<1>2. g[p] <= f[p] + c /\ \A r \in readers : r # p => g[r] <= f[r]
  OBVIOUS
<1>3. SumFunction(g) <= SumFunction(f) + c
  <2> HIDE DEF f, g
  <2> QED BY <1>1, <1>2, Finite, SumChange
<1> QED BY <1>3 DEF Reading

\* The messages in the queues.
LEMMA QueuedBy ==
    ASSUME TypeOK, TypeOK', NEW q \in MqBlocks, NEW c \in Int,
           Len(msgs'[q]) <= Len(msgs[q]) + c,
           \A s \in MqBlocks : s # q => Len(msgs'[s]) <= Len(msgs[s])
    PROVE  Queued' <= Queued + c
<1> DEFINE f == [s \in MqBlocks |-> Len(msgs[s])]
           g == [s \in MqBlocks |-> Len(msgs'[s])]
<1>1. f \in [MqBlocks -> Int] /\ g \in [MqBlocks -> Int]
  BY Terms, NextTerms DEF TermsOK
<1>2. g[q] <= f[q] + c /\ \A s \in MqBlocks : s # q => g[s] <= f[s]
  OBVIOUS
<1>3. SumFunction(g) <= SumFunction(f) + c
  <2> HIDE DEF f, g
  <2> QED BY <1>1, <1>2, Finite, SumChange
<1> QED BY <1>3 DEF Queued

\* The store of an increment: the counter it writes may lose counts, but is never ahead.
LEMMA StoreStep ==
    ASSUME Inv, NEW p \in Children, Store(p)
    PROVE  Inv'
<1>0. /\ running = p /\ machine = "up" /\ pc[p] = "store" /\ p \in PCBs /\ p # init
      /\ UNCHANGED <<kernelVars, fd, resources, i, register>>
      /\ counters' = [counters EXCEPT ![counter(p)] = register[p]] /\ GoTo(p, "sleep")
  BY Pids DEF Store, At
<1>1. TypeOK /\ Structure /\ AssertsHold /\ CountersOK
  BY <1>0 DEF Inv
<1>2. UNCHANGED <<machine, pcbs, parent, syscall_retvalue, msgs, m_pool, reading_pid,
                  writing_pid, resources_list, resource_id, descriptors_ptrs, desc,
                  descriptors, last_fd>>
  BY <1>0 DEF kernelVars
<1>3. /\ pc' \in [PCBs -> Labels] /\ AssertsHold'
      /\ pc'[p] = "sleep" /\ \A x \in PCBs : x # p => pc'[x] = pc[x]
  <2>1. "sleep" \in Labels
    BY DEF Labels
  <2> QED BY <1>0, <1>1, <2>1, Goes
<1>4. counter(p) \in {"written", "read"}
  BY DEF counter
<1>5. TypeOK'
  <2>1. counters' \in [{"written", "read"} -> Int]
    <3>1. register[p] \in Int
      BY <1>0, <1>1 DEF TypeOK
    <3> QED BY <1>0, <1>1, <3>1 DEF TypeOK
  <2> QED BY <1>0, <1>1, <1>2, <1>3, <2>1 DEF TypeOK
<1>6. Structure'
  <2>1. "store" \in Holding /\ "sleep" \in Holding
    BY DEF Holding
  <2> QED BY <1>0, <1>1, <1>2, <1>5, <2>1, HoldsOn DEF roles, links
<1>7. CountersOK'
  <2>1. /\ Pending(p) = 1 /\ Pending(p)' = 0
        /\ \A x \in Children : x # p => Pending(x)' = Pending(x)
    BY <1>0, <1>3, Pids DEF Pending
  <2>2. /\ \A x \in Children : pc'[x] = "store" => x # p /\ pc[x] = "store"
        /\ register' = register /\ Queued' = Queued
    BY <1>0, <1>2, <1>3, Pids, QueuedSame
  <2>3. Integral /\ Integral' /\ \A x \in Children : register[x] \in Int /\ i[x] \in Int
    <3>1. Integral /\ Integral'
      BY <1>1, <1>5, Totals, NextTotals
    <3>2. \A x \in PCBs : register[x] \in Int /\ i[x] \in Int
      BY <1>1 DEF TypeOK
    <3> QED BY <3>1, <3>2, Pids
  <2>4. /\ counters["written"] \in Int /\ counters["read"] \in Int
        /\ counters["written"] <= Settled /\ counters["read"] <= Stored - Queued - Reading
    BY <1>1 DEF TypeOK, CountersOK
  <2>5. CASE p \in writers
    <3>1. /\ counters'["written"] = register[p] /\ counters'["read"] = counters["read"]
          /\ register[p] <= Settled + 1
      <4>1. counter(p) = "written"
        BY <2>5, Pids DEF counter
      <4> QED BY <1>0, <1>1, <2>5, <4>1 DEF TypeOK, CountersOK
    <3>2. Reading' = Reading
      <4>1. \A r \in readers : Pending(r)' = Pending(r)
        BY <2>1, <2>5, Pids DEF Children
      <4> QED BY <4>1, ReadingSame
    <3>3. Stored' = Stored
      BY <1>0 DEF Stored
    <3>4. Settled' >= Settled + 1
      <4>1. \A w \in writers : w \in Children /\ i'[w] = i[w]
        BY <1>0 DEF Children
      <4>2. i'[p] - Pending(p)' >= i[p] - Pending(p) + 1
        BY <1>0, <2>1, <2>3
      <4>3. \A w \in writers : w # p => i'[w] - Pending(w)' >= i[w] - Pending(w)
        <5>1. \A w \in writers : Pending(w) \in Int
          BY DEF Pending
        <5> QED BY <2>1, <2>3, <4>1, <5>1
      <4> QED BY <1>1, <1>5, <2>5, <4>2, <4>3, SettledBy
    <3>5. counters'["written"] <= Settled'
      BY <2>3, <3>1, <3>4 DEF Integral
    <3>6. ASSUME NEW w \in writers, pc'[w] = "store" PROVE register'[w] <= Settled' + 1
      <4>1. register[w] \in Int /\ register[w] <= Settled + 1
        BY <1>1, <2>2, <2>3, <3>6 DEF CountersOK, Children
      <4> QED BY <2>2, <2>3, <3>4, <4>1 DEF Integral
    <3>7. \A r \in readers : pc'[r] = "store" =>
             register'[r] <= Stored' - Queued' - Reading' + 1
      BY <1>1, <2>2, <3>2, <3>3 DEF CountersOK, Children
    <3> QED BY <2>2, <2>4, <3>1, <3>2, <3>3, <3>5, <3>6, <3>7 DEF CountersOK
  <2>6. CASE p \in readers
    <3>1. /\ counters'["read"] = register[p] /\ counters'["written"] = counters["written"]
          /\ register[p] <= Stored - Queued - Reading + 1
      <4>1. counter(p) = "read"
        BY <2>6 DEF counter
      <4> QED BY <1>0, <1>1, <2>6, <4>1 DEF TypeOK, CountersOK
    <3>2. Settled' = Settled /\ Stored' = Stored
      <4>1. \A w \in writers : i'[w] = i[w] /\ Pending(w)' = Pending(w)
        BY <1>0, <2>1, <2>6, Pids DEF Children
      <4> QED BY <4>1, SettledSame
    <3>3. Reading' <= Reading + (-1)
      <4>1. Pending(p)' <= Pending(p) + (-1)
        BY <2>1
      <4>2. \A r \in readers : r # p => Pending(r)' <= Pending(r)
        <5>1. \A r \in readers : r \in Children /\ Pending(r) \in Int
          BY DEF Children, Pending
        <5> QED BY <2>1, <5>1
      <4> QED BY <1>1, <1>5, <2>6, <4>1, <4>2, ReadingBy
    <3>4. counters'["read"] <= Stored' - Queued' - Reading'
      BY <2>2, <2>3, <3>1, <3>2, <3>3 DEF Integral
    <3>5. ASSUME NEW r \in readers, pc'[r] = "store"
          PROVE  register'[r] <= Stored' - Queued' - Reading' + 1
      <4>1. register[r] \in Int /\ register[r] <= Stored - Queued - Reading + 1
        BY <1>1, <2>2, <2>3, <3>5 DEF CountersOK, Children
      <4> QED BY <2>2, <2>3, <3>2, <3>3, <4>1 DEF Integral
    <3>6. \A w \in writers : pc'[w] = "store" => register'[w] <= Settled' + 1
      BY <1>1, <2>2, <3>2 DEF CountersOK, Children
    <3> QED BY <2>4, <3>1, <3>2, <3>4, <3>5, <3>6 DEF CountersOK
  <2> QED BY <2>5, <2>6 DEF Children
<1> QED BY <1>3, <1>5, <1>6, <1>7 DEF Inv

\* A read leaves with an error, or with the first message of the queue, which it goes on to
\* count.
LEMMA ReadStep ==
    ASSUME Inv, NEW p \in readers, Read(p)
    PROVE  Inv'
<1>0. /\ running = p /\ machine = "up" /\ pc[p] = "read" /\ p \in PCBs /\ p # init
      /\ p \in Children
      /\ UNCHANGED <<fd, resources, i, register, counters>>
      /\ Kernel!disastrOS_mq_read(fd[p], 1)
  BY Pids DEF Read, At, Children
<1>1. TypeOK /\ Structure /\ AssertsHold /\ CountersOK
  BY <1>0 DEF Inv
<1>2. /\ \E d \in descriptors[p] : desc[d].fd = fd[p]
      /\ \A d \in descriptors[p] : desc[d].resource \in MqBlocks
  BY <1>0, <1>1, Holds DEF Holding
<1>3. /\ UNCHANGED <<pcbs, parent, machine, links, roles>>
      /\ \E v : syscall_retvalue' = [syscall_retvalue EXCEPT ![p] = v]
      /\ \/ /\ UNCHANGED <<msgs, m_pool>>
            /\ syscall_retvalue'[p] \in {DSOS_WAITINGFORMESSAGE, DSOS_MESSAGEQUEUEEMPTY,
                                         DSOS_MESSAGELENGTHNOTVALID}
         \/ \E q \in MqBlocks : /\ msgs[q] # <<>>
                                /\ msgs' = [msgs EXCEPT ![q] = Tail(@)]
                                /\ m_pool' = m_pool \cup {Head(msgs[q])}
  <2>1. DOMAIN syscall_retvalue = PCBs
    BY <1>1 DEF TypeOK
  <2> QED BY <1>0, <1>2, <2>1, ReadCall DEF Reached
<1>4. PICK l \in {"close", "sleep", "load"} :
         /\ GoTo(p, l)
         /\ l = "load" => res(p) \notin {DSOS_WAITINGFORMESSAGE, DSOS_MESSAGEQUEUEEMPTY,
                                         DSOS_MESSAGELENGTHNOTVALID}
  BY DEF Read, GivesUp, TriesAgain
<1>5. /\ pc' \in [PCBs -> Labels] /\ AssertsHold'
      /\ pc'[p] = l /\ \A x \in PCBs : x # p => pc'[x] = pc[x]
  <2>1. l \in Labels /\ l # "abort"
    BY DEF Labels
  <2> QED BY <1>0, <1>1, <1>4, <2>1, Goes
<1>6. \/ UNCHANGED <<msgs, m_pool>> /\ l # "load"
      \/ \E q \in MqBlocks : /\ msgs[q] # <<>>
                             /\ msgs' = [msgs EXCEPT ![q] = Tail(@)]
                             /\ m_pool' = m_pool \cup {Head(msgs[q])}
  BY <1>3, <1>4 DEF res
<1>7. /\ DOMAIN syscall_retvalue' = PCBs
      /\ \A x \in PCBs : x # p => syscall_retvalue'[x] = syscall_retvalue[x]
  BY <1>1, <1>3 DEF TypeOK
<1>8. TypeOK'
  <2>1. msgs' \in [MqBlocks -> Seq(MsgBlocks)] /\ m_pool' \subseteq MsgBlocks
    <3>1. msgs \in [MqBlocks -> Seq(MsgBlocks)] /\ m_pool \subseteq MsgBlocks
      BY <1>1 DEF TypeOK
    <3>2. ASSUME NEW q \in MqBlocks, msgs[q] # <<>>
          PROVE  Tail(msgs[q]) \in Seq(MsgBlocks) /\ Head(msgs[q]) \in MsgBlocks
      BY <3>1, <3>2
    <3> QED BY <1>6, <3>1, <3>2
  <2> QED BY <1>0, <1>1, <1>3, <1>5, <1>7, <2>1 DEF TypeOK, links, roles
<1>9. Structure'
  <2>1. l \in Holding /\ pc[p] \in Holding
    BY <1>0 DEF Holding
  <2> QED BY <1>0, <1>1, <1>3, <1>4, <1>7, <1>8, <2>1, HoldsOn
<1>10. CountersOK'
  <2>1. CASE UNCHANGED <<msgs, m_pool>> /\ l # "load"
    <3>1. \A x \in Children : pc'[x] \in {"load", "store"} => pc'[x] = pc[x]
      BY <1>5, <2>1, Pids
    <3>2. \A w \in writers : i'[w] = i[w]
      BY <1>0
    <3>3. \A q \in MqBlocks : Len(msgs'[q]) <= Len(msgs[q])
      <4>1. \A q \in MqBlocks : Len(msgs[q]) \in Int
        BY <1>1 DEF TypeOK
      <4> QED BY <2>1, <4>1
    <3> QED BY <1>0, <1>1, <1>8, <3>1, <3>2, <3>3, CountersQuiet
  <2>2. ASSUME NEW q \in MqBlocks, msgs[q] # <<>>, msgs' = [msgs EXCEPT ![q] = Tail(@)]
        PROVE  CountersOK'
    <3>1. Queued' <= Queued + (-1)
      <4>1. msgs \in [MqBlocks -> Seq(MsgBlocks)] /\ msgs[q] \in Seq(MsgBlocks)
        BY <1>1 DEF TypeOK
      <4>2. msgs'[q] = Tail(msgs[q]) /\ Len(Tail(msgs[q])) = Len(msgs[q]) - 1
        BY <2>2, <4>1
      <4>3. Len(msgs[q]) \in Int /\ \A s \in MqBlocks : Len(msgs[s]) \in Int
        BY <4>1
      <4>4. \A s \in MqBlocks : s # q => Len(msgs'[s]) <= Len(msgs[s])
        BY <2>2, <4>1, <4>3
      <4>5. Len(msgs'[q]) <= Len(msgs[q]) + (-1)
        BY <4>2, <4>3
      <4> QED BY <1>1, <1>8, <4>4, <4>5, QueuedBy
    <3>2. Reading' <= Reading + 1
      <4>1. Pending(p)' <= Pending(p) + 1
        BY <1>0 DEF Pending
      <4>2. \A r \in readers : r # p => Pending(r)' <= Pending(r)
        <5>1. \A r \in readers : r # p => pc'[r] = pc[r]
          BY <1>5, Pids DEF Children
        <5> QED BY <5>1 DEF Pending
      <4> QED BY <1>1, <1>8, <4>1, <4>2, ReadingBy
    <3>3. Settled' = Settled /\ Stored' = Stored
      <4>1. \A w \in writers : i'[w] = i[w] /\ pc'[w] = pc[w]
        BY <1>0, <1>5, Pids DEF Children
      <4>2. \A w \in writers : i'[w] = i[w] /\ Pending(w)' = Pending(w)
        BY <4>1 DEF Pending
      <4> QED BY <4>2, SettledSame
    <3>4. /\ Settled' >= Settled
          /\ Stored' - Queued' - Reading' >= Stored - Queued - Reading
      BY <1>1, <1>8, <3>1, <3>2, <3>3, Totals, NextTotals DEF Integral
    <3>5. \A x \in Children : pc'[x] = "store" => pc[x] = "store"
      BY <1>5, Pids
    <3> QED BY <1>0, <1>1, <1>8, <3>4, <3>5, CountersKept
  <2> QED BY <1>6, <2>1, <2>2
<1> QED BY <1>5, <1>8, <1>9, <1>10 DEF Inv

\* A write stores a message and is on its way to count it, or changes no queue.
LEMMA WriteStep ==
    ASSUME Inv, NEW p \in writers, Write(p)
    PROVE  Inv'
<1>0. /\ running = p /\ machine = "up" /\ pc[p] = "write" /\ p \in PCBs /\ p # init
      /\ p \in Children
      /\ UNCHANGED <<fd, resources, register, counters>>
      /\ Kernel!disastrOS_mq_write(fd[p], Text(p))
  BY Pids DEF Write, At, Children
<1>1. TypeOK /\ Structure /\ AssertsHold /\ CountersOK
  BY <1>0 DEF Inv
<1>2. /\ \E d \in descriptors[p] : desc[d].fd = fd[p]
      /\ \A d \in descriptors[p] : desc[d].resource \in MqBlocks
  BY <1>0, <1>1, Holds DEF Holding
<1>3. /\ UNCHANGED <<pcbs, parent, links, roles>>
      /\ machine' = machine \/ machine' = "segv"
      /\ \/ UNCHANGED <<msgs, m_pool, syscall_retvalue>>
         \/ /\ syscall_retvalue' = [syscall_retvalue EXCEPT ![p] = 1]
            /\ \E q \in MqBlocks, b \in m_pool :
                  /\ msgs' = msgs \/ msgs' = [msgs EXCEPT ![q] = Append(@, b)]
                  /\ m_pool' = m_pool \ {b}
  <2>1. DOMAIN syscall_retvalue = PCBs
    BY <1>1 DEF TypeOK
  <2> QED BY <1>0, <1>2, <2>1, WriteCall DEF Reached
<1>4. PICK l \in {"close", "sleep", "load"} :
         /\ GoTo(p, l)
         /\ l = "load" => res(p) # DSOS_MESSAGEQUEUEFULL
         /\ res(p) = 1 => l = "load"
  BY Codes DEF Write
<1>5. /\ i' = i \/ i' = [i EXCEPT ![p] = @ + 1]
      /\ res(p) # DSOS_MESSAGEQUEUEFULL => i' = [i EXCEPT ![p] = @ + 1]
  BY DEF Write
<1>6. /\ pc' \in [PCBs -> Labels] /\ AssertsHold'
      /\ pc'[p] = l /\ \A x \in PCBs : x # p => pc'[x] = pc[x]
  <2>1. l \in Labels /\ l # "abort"
    BY DEF Labels
  <2> QED BY <1>0, <1>1, <1>4, <2>1, Goes
<1>7. /\ i' \in [PCBs -> Nat] /\ \A x \in PCBs : x # p => i'[x] = i[x]
      /\ i'[p] \in {i[p], i[p] + 1} /\ (l = "load" => i'[p] = i[p] + 1)
  <2>1. i \in [PCBs -> Nat] /\ i[p] \in Nat
    BY <1>0, <1>1 DEF TypeOK
  <2>2. CASE i' = i /\ l # "load"
    BY <2>1, <2>2
  <2>3. CASE i' = [i EXCEPT ![p] = @ + 1]
    BY <1>0, <2>1, <2>3
  <2> QED BY <1>4, <1>5, <2>2, <2>3
<1>8. /\ DOMAIN syscall_retvalue' = PCBs
      /\ \A x \in PCBs : x # p => syscall_retvalue'[x] = syscall_retvalue[x]
  BY <1>1, <1>3 DEF TypeOK
<1>9. \/ UNCHANGED <<msgs, m_pool>>
      \/ /\ l = "load"
         /\ \E q \in MqBlocks, b \in m_pool :
               /\ msgs' = msgs \/ msgs' = [msgs EXCEPT ![q] = Append(@, b)]
               /\ m_pool' = m_pool \ {b}
  <2>1. ASSUME syscall_retvalue' = [syscall_retvalue EXCEPT ![p] = 1] PROVE l = "load"
    <3>1. res(p) = 1
      BY <1>0, <1>1, <2>1 DEF TypeOK, res
    <3> QED BY <1>4, <3>1
  <2> QED BY <1>3, <2>1
<1>10. TypeOK'
  <2>1. msgs' \in [MqBlocks -> Seq(MsgBlocks)] /\ m_pool' \subseteq MsgBlocks
    <3>1. msgs \in [MqBlocks -> Seq(MsgBlocks)] /\ m_pool \subseteq MsgBlocks
      BY <1>1 DEF TypeOK
    <3>2. ASSUME NEW q \in MqBlocks, NEW b \in m_pool
          PROVE  Append(msgs[q], b) \in Seq(MsgBlocks)
      BY <3>1, <3>2
    <3> QED BY <1>9, <3>1, <3>2
  <2> QED BY <1>0, <1>1, <1>3, <1>6, <1>7, <1>8, <2>1 DEF TypeOK, links, roles
<1>11. Structure'
  <2>1. l \in Holding /\ pc[p] \in Holding
    BY <1>0 DEF Holding
  <2> QED BY <1>0, <1>1, <1>3, <1>4, <1>7, <1>8, <1>10, <2>1, HoldsOn, Pids
<1>12. CountersOK'
  <2>1. /\ i[p] \in Int /\ Pending(p) = 0 /\ Pending(p)' = IF l = "load" THEN 1 ELSE 0
        /\ \A x \in Children : x # p => Pending(x)' = Pending(x)
        /\ \A x \in Children : i[x] - Pending(x) \in Int /\ i[x] \in Int
    <3>1. \A x \in Children : i[x] \in Int /\ Pending(x) \in Int
      BY <1>1, Pids DEF TypeOK, Pending
    <3> QED BY <1>0, <1>6, <3>1, Pids DEF Pending
  <2>2. Reading' = Reading
    <3>1. \A r \in readers : r \in Children /\ r # p
      BY Pids DEF Children
    <3> QED BY <2>1, <3>1, ReadingSame
  <2>3. \A w \in writers : w \in Children /\ w \in PCBs
    BY Pids DEF Children
  <2>4. Settled' >= Settled
    <3>1. i'[p] - Pending(p)' >= i[p] - Pending(p) + 0
      BY <1>7, <2>1
    <3>2. \A w \in writers : w # p => i'[w] - Pending(w)' >= i[w] - Pending(w)
      BY <1>7, <2>1, <2>3
    <3>3. Settled' >= Settled + 0
      BY <1>1, <1>10, <3>1, <3>2, SettledBy
    <3> QED BY <1>1, <3>3, Totals DEF Integral
  <2>5. \A w \in writers : w # p => i'[w] >= i[w]
    BY <1>7, <2>1, <2>3
  <2>6. Stored' - Queued' >= Stored - Queued
    <3>1. CASE UNCHANGED <<msgs, m_pool>>
      <4>1. i'[p] >= i[p] + 0
        BY <1>7, <2>1
      <4>2. Stored' >= Stored + 0
        BY <1>1, <1>10, <2>5, <4>1, StoredBy
      <4>3. Queued' = Queued
        BY <3>1, QueuedSame
      <4> QED BY <1>1, <1>10, <4>2, <4>3, Totals, NextTotals DEF Integral
    <3>2. CASE /\ l = "load"
               /\ \E q \in MqBlocks, b \in m_pool :
                     /\ msgs' = msgs \/ msgs' = [msgs EXCEPT ![q] = Append(@, b)]
                     /\ m_pool' = m_pool \ {b}
      <4>1. i'[p] >= i[p] + 1
        BY <1>7, <2>1, <3>2
      <4>2. Stored' >= Stored + 1
        BY <1>1, <1>10, <2>5, <4>1, StoredBy
      <4>3. Queued' <= Queued + 1
        <5>1. PICK q \in MqBlocks, b \in m_pool :
                 msgs' = msgs \/ msgs' = [msgs EXCEPT ![q] = Append(@, b)]
          BY <3>2
        <5>2. /\ msgs \in [MqBlocks -> Seq(MsgBlocks)] /\ b \in MsgBlocks
              /\ \A s \in MqBlocks : Len(msgs[s]) \in Int
          BY <1>1 DEF TypeOK
        <5>3. Len(msgs'[q]) <= Len(msgs[q]) + 1
          <6>1. Len(Append(msgs[q], b)) = Len(msgs[q]) + 1
            BY <5>2
          <6> QED BY <5>1, <5>2, <6>1
        <5>4. \A s \in MqBlocks : s # q => Len(msgs'[s]) <= Len(msgs[s])
          BY <5>1, <5>2
        <5> QED BY <1>1, <1>10, <5>3, <5>4, QueuedBy
      <4> QED BY <1>1, <1>10, <4>2, <4>3, Totals, NextTotals DEF Integral
    <3> QED BY <1>9, <3>1, <3>2
  <2>7. Stored' - Queued' - Reading' >= Stored - Queued - Reading
    BY <1>1, <1>10, <2>2, <2>6, Totals, NextTotals DEF Integral
  <2>8. \A x \in Children : pc'[x] = "store" => pc[x] = "store"
    BY <1>6, Pids
  <2> QED BY <1>0, <1>1, <1>10, <2>4, <2>7, <2>8, CountersKept
<1> QED BY <1>6, <1>10, <1>11, <1>12 DEF Inv

\* The timer changes nothing that the invariant reads but the running process.
LEMMA TickStep ==
    ASSUME Inv, timerInterrupt
    PROVE  Inv'
<1>0. machine = "up"
  BY DEF timerInterrupt, Kernel!timerInterrupt, Kernel!P!timerInterrupt
<1>1. /\ UNCHANGED <<tables, pcbs, parent, syscall_retvalue>>
      /\ UNCHANGED <<pc, fd, resources, i, register, counters>>
  BY Tick DEF timerInterrupt
<1>2. TypeOK /\ AssertsHold /\ CountersOK /\ Structure
  BY <1>0 DEF Inv
<1>3. TypeOK' /\ AssertsHold'
  BY <1>1, <1>2 DEF TypeOK, AssertsHold, tables, roles, links
<1>4. CountersOK'
  BY <1>1, <1>2 DEF CountersOK, Settled, Stored, Queued, Reading, Pending, tables
<1>5. Structure'
  <2>1. NumCreated' = NumCreated /\ NextPid' = NextPid /\ UNCHANGED <<roles, links>>
    BY <1>1 DEF NumCreated, NextPid, tables
  <2>2. NextPid' >= NextPid
    BY <1>2, <2>1, NextPidType
  <2>3. InitOK'
    BY <1>1, <1>2, <2>1 DEF InitOK, Structure, links
  <2> QED BY <1>1, <1>2, <1>3, <2>1, <2>2, <2>3, Frame
<1> QED BY <1>3, <1>4, <1>5 DEF Inv

\* The program starts in the invariant.
LEMMA InitInv == Init => Inv
<1> SUFFICES ASSUME Init PROVE Inv
  OBVIOUS
<1>1. Kernel!P!Init /\ Kernel!R!Init /\ Kernel!R!mq_init
  BY DEF Init, Kernel!Init, Kernel!R!Init
<1>2. /\ pcbs = {init} /\ parent = [b \in PCBs |-> NULL]
      /\ syscall_retvalue = [b \in PCBs |-> 0]
  BY <1>1 DEF Kernel!P!Init
<1>3. /\ resources_list = {} /\ resource_id = [r \in MqBlocks |-> NULL]
      /\ descriptors_ptrs = [r \in MqBlocks |-> {}]
      /\ desc = [d \in Descriptors |-> [pcb |-> NULL, resource |-> NULL, fd |-> 0]]
      /\ descriptors = [p \in PCBs |-> {}] /\ last_fd = [p \in PCBs |-> 0]
  BY <1>1 DEF Kernel!R!Init, Kernel!R!Blocks, Kernel!R!FreeDescriptor
<1>4. /\ msgs = [q \in MqBlocks |-> <<>>] /\ m_pool = MsgBlocks
      /\ reading_pid = [q \in MqBlocks |-> NULL] /\ writing_pid = [q \in MqBlocks |-> NULL]
  BY <1>1 DEF Kernel!R!mq_init
<1>5. /\ pc = [p \in PCBs |-> CASE p = init -> "sleeper" [] p = sleeper -> "getc"
                                [] OTHER -> "open"]
      /\ fd = [p \in PCBs |-> 0] /\ resources = <<>> /\ i = [p \in PCBs |-> 0]
      /\ register = [p \in PCBs |-> 0] /\ counters = [k \in {"written", "read"} |-> 0]
  BY DEF Init
<1>6. /\ pc \in [PCBs -> Labels] /\ pc[init] = "sleeper"
      /\ \A p \in Children : pc[p] = "open"
      /\ \A p \in PCBs : pc[p] \in {"sleeper", "getc", "open"}
  <2>1. \A p \in PCBs : pc[p] = CASE p = init -> "sleeper" [] p = sleeper -> "getc"
                                  [] OTHER -> "open"
    BY <1>5
  <2>2. pc[init] = "sleeper"
    BY <2>1, Pids
  <2>3. \A p \in PCBs : p # init /\ p # sleeper => pc[p] = "open"
    BY <2>1
  <2>4. pc[sleeper] = "getc"
    BY <2>1, Pids
  <2>5. \A p \in PCBs : pc[p] \in {"sleeper", "getc", "open"}
    BY <2>2, <2>3, <2>4
  <2>6. \A p \in Children : pc[p] = "open"
    BY <2>3, Pids
  <2>7. {"sleeper", "getc", "open"} \subseteq Labels
    BY DEF Labels
  <2> HIDE <2>1
  <2>8. pc \in [PCBs -> Labels]
    BY <1>5, <2>5, <2>7
  <2> QED BY <2>2, <2>5, <2>6, <2>8
<1>7. TypeOK
  <2>1. /\ fd \in [PCBs -> Int] /\ i \in [PCBs -> Nat] /\ register \in [PCBs -> Int]
        /\ counters \in [{"written", "read"} -> Int] /\ resources \in Seq(Int)
    BY <1>5
  <2>2. /\ pcbs \subseteq PCBs /\ DOMAIN syscall_retvalue = PCBs
        /\ parent \in [PCBs -> {init, NULL}]
    BY <1>2, Pids
  <2>3. /\ msgs \in [MqBlocks -> Seq(MsgBlocks)] /\ m_pool \subseteq MsgBlocks
        /\ reading_pid \in [MqBlocks -> PCBs \cup {NULL}]
        /\ writing_pid \in [MqBlocks -> PCBs \cup {NULL}]
    BY <1>4
  <2>4. /\ resources_list \subseteq MqBlocks /\ resource_id \in [MqBlocks -> Int \cup {NULL}]
        /\ descriptors_ptrs \in [MqBlocks -> SUBSET Descriptors]
        /\ desc \in [Descriptors ->
                        [pcb : PCBs \cup {NULL}, resource : MqBlocks \cup {NULL}, fd : Int]]
        /\ descriptors \in [PCBs -> SUBSET Descriptors] /\ last_fd \in [PCBs -> Nat]
    BY <1>3
  <2> QED BY <1>6, <2>1, <2>2, <2>3, <2>4 DEF TypeOK
<1>8. AssertsHold
  BY <1>5, <1>6 DEF AssertsHold
<1>9. CountersOK
  <2>1. writers \subseteq PCBs /\ readers \subseteq PCBs /\ \A p \in PCBs : Pending(p) = 0
    BY <1>6, Pids DEF Pending, Children
  <2>2. Settled = 0
    <3> DEFINE f == [w \in writers |-> i[w] - Pending(w)]
    <3>1. \A w \in writers : f[w] = 0
      BY <1>5, <2>1
    <3>2. DOMAIN f = writers
      OBVIOUS
    <3>3. SumFunction(f) = 0
      <4> HIDE DEF f
      <4> QED BY <3>1, <3>2, Finite, SumZero
    <3> QED BY <3>3 DEF Settled
  <2>3. Stored = 0
    <3> DEFINE f == [w \in writers |-> i[w]]
    <3>1. DOMAIN f = writers /\ \A w \in writers : f[w] = 0
      BY <1>5, <2>1
    <3>2. SumFunction(f) = 0
      <4> HIDE DEF f
      <4> QED BY <3>1, Finite, SumZero
    <3> QED BY <3>2 DEF Stored
  <2>4. Queued = 0
    <3> DEFINE f == [q \in MqBlocks |-> Len(msgs[q])]
    <3>1. DOMAIN f = MqBlocks /\ \A q \in MqBlocks : f[q] = 0
      BY <1>4
    <3>2. SumFunction(f) = 0
      <4> HIDE DEF f
      <4> QED BY <3>1, Finite, SumZero
    <3> QED BY <3>2 DEF Queued
  <2>5. Reading = 0
    <3> DEFINE f == [r \in readers |-> Pending(r)]
    <3>1. DOMAIN f = readers /\ \A r \in readers : f[r] = 0
      BY <2>1
    <3>2. SumFunction(f) = 0
      <4> HIDE DEF f
      <4> QED BY <3>1, Finite, SumZero
    <3> QED BY <3>2 DEF Reading
  <2>6. counters["written"] = 0 /\ counters["read"] = 0
    BY <1>5
  <2>7. \A p \in writers \cup readers : pc[p] # "store"
    BY <1>6, Pids DEF Children
  <2> QED BY <2>2, <2>3, <2>4, <2>5, <2>6, <2>7 DEF CountersOK
<1>10. Structure
  <2>1. NumCreated = 0 /\ NextPid = 2
    BY <1>6 DEF NumCreated, NextPid
  <2>2. /\ i[init] = 0 /\ last_fd[init] = 0 /\ last_fd[sleeper] = 0 /\ descriptors[sleeper] = {}
        /\ \A p \in PCBs : last_fd[p] = 0 /\ descriptors[p] = {} /\ syscall_retvalue[p] = 0
    BY <1>2, <1>3, <1>5, Pids
  <2>3. InitOK
    BY <1>5, <1>6, <2>1, <2>2 DEF InitOK
  <2>4. ResourcesOK
    BY <1>3, <2>1 DEF ResourcesOK
  <2>5. DescriptorsOK
    BY <1>3, <2>2 DEF DescriptorsOK
  <2>6. ChildrenOK
    <3>1. "open" \notin Holding
      BY DEF Holding
    <3> QED BY <1>2, <1>6, <2>2, <3>1, Pids DEF ChildrenOK
  <2>7. RolesOK
    BY <1>4 DEF RolesOK
  <2> QED BY <2>3, <2>4, <2>5, <2>6, <2>7 DEF Structure
<1> QED BY <1>7, <1>8, <1>9, <1>10 DEF Inv

\* Nor does a step that is none of the program's leave it.
LEMMA StutterInv == ASSUME Inv, UNCHANGED vars PROVE Inv'
<1>1. /\ TypeOK' = TypeOK /\ AssertsHold' = AssertsHold
  BY DEF vars, kernelVars, TypeOK, AssertsHold
<1>2. CountersOK' = CountersOK
  BY DEF vars, kernelVars, CountersOK, Settled, Stored, Queued, Reading, Pending
<1>3. Structure' = Structure
  BY DEF vars, kernelVars, Structure, InitOK, ResourcesOK, DescriptorsOK, ChildrenOK, RolesOK,
         NumCreated, NextPid
<1>4. machine' = machine
  BY DEF vars, kernelVars
<1> QED BY <1>1, <1>2, <1>3, <1>4 DEF Inv

\* Every step of the program keeps the invariant.
LEMMA NextInv == ASSUME Inv, Next PROVE Inv'
<1>1. CASE initFunction
  BY <1>1, SpawnSleeperStep, CreateStep, SpawnChildrenStep, WaitStep, WaitedStep, DestroyStep,
     ShutdownStep DEF initFunction
<1>2. ASSUME NEW p \in Children, Common(p) PROVE Inv'
  BY <1>2, OpenStep, LoadStep, StoreStep, SleepStep, CloseStep, ExitStep DEF Common
<1>3. ASSUME NEW p \in PCBs, read_childFunction(p) PROVE Inv'
  BY <1>2, <1>3, ReadStep DEF read_childFunction, Children
<1>4. ASSUME NEW p \in PCBs, write_childFunction(p) PROVE Inv'
  BY <1>2, <1>4, WriteStep DEF write_childFunction, Children
<1>5. CASE timerInterrupt
  BY <1>5, TickStep
<1> QED BY <1>1, <1>3, <1>4, <1>5 DEF Next

\* No message is counted before it is stored or read: the counters stay behind sums of the
\* states of all processes.
LEMMA InvCounters == Inv => CountersNeverAhead
<1> SUFFICES ASSUME Inv PROVE CountersNeverAhead
  OBVIOUS
<1>1. TypeOK /\ CountersOK
  BY DEF Inv
<1>2. writers \subseteq PCBs /\ readers \subseteq PCBs
  BY Pids DEF Children
<1>3. writers \cap DOMAIN i = writers
  BY <1>1, <1>2 DEF TypeOK
<1>4. Settled <= Stored
  <2> DEFINE f == [w \in writers |-> i[w]]
             g == [w \in writers |-> i[w] - Pending(w)]
  <2>1. f \in [writers -> Int] /\ g \in [writers -> Int]
    BY <1>1, Terms DEF TermsOK
  <2>2. \A w \in writers : g[w] <= f[w]
    <3>1. \A w \in writers : i[w] \in Int /\ Pending(w) \in {0, 1}
      BY <1>1, <1>2 DEF TypeOK, Pending
    <3> QED BY <3>1
  <2>3. SumFunction(g) <= SumFunction(f)
    <3> HIDE DEF f, g
    <3> QED BY <2>1, <2>2, Finite, SumMonotone
  <2> QED BY <2>3 DEF Settled, Stored
<1>5. Reading >= 0
  <2> DEFINE f == [r \in readers |-> Pending(r)]
             g == [r \in readers |-> 0]
  <2>1. f \in [readers -> Int] /\ g \in [readers -> Int] /\ \A r \in readers : g[r] <= f[r]
    BY DEF Pending
  <2>2. SumFunction(g) = 0
    <3>1. DOMAIN g = readers /\ \A r \in readers : g[r] = 0
      OBVIOUS
    <3> HIDE DEF g
    <3> QED BY <3>1, Finite, SumZero
  <2>3. SumFunction(g) <= SumFunction(f) /\ SumFunction(f) \in Int
    <3> HIDE DEF f, g
    <3> QED BY <2>1, Finite, SumMonotone
  <2>4. Reading = SumFunction(f)
    BY DEF Reading
  <2> HIDE DEF f, g
  <2> QED BY <2>2, <2>3, <2>4
<1>6. counters["written"] <= Stored /\ counters["read"] <= Stored - Queued
  <2>1. Integral /\ counters["written"] \in Int /\ counters["read"] \in Int
    BY <1>1, Totals DEF TypeOK
  <2>2. /\ counters["written"] <= Settled
        /\ counters["read"] <= Stored - Queued - Reading
    BY <1>1 DEF CountersOK
  <2> QED BY <1>4, <1>5, <2>1, <2>2 DEF Integral
<1> QED BY <1>3, <1>6 DEF CountersNeverAhead, Stored, Queued
-----------------------------------------------------------------------------
\* The invariant: where each process is in its function, what it holds in the kernel there,
\* and what the statistics may say.
THEOREM ProgramInvariant == Spec => []Inv
<1>1. Inv /\ [Next]_vars => Inv'
  BY NextInv, StutterInv
<1> QED BY <1>1, InitInv, PTL DEF Spec

\* No assert of disastrOS_test_mq.c fails: every open of init and of a child finds the queue,
\* the role and a descriptor free, and every close finds the descriptor, wherever the timer
\* interrupts and in whatever order the processes run.
THEOREM ProgramAssertsHold == Spec => []AssertsHold
<1>1. Inv => AssertsHold
  BY DEF Inv
<1> QED BY <1>1, ProgramInvariant, PTL

\* The counters of the two unprotected increments are never ahead of the messages stored
\* and the messages taken out of the queues.
THEOREM ProgramCountersNeverAhead == Spec => []CountersNeverAhead
BY InvCounters, ProgramInvariant, PTL
-----------------------------------------------------------------------------
\* What a queue delivers.

Closing == {"close", "exit", "gone"}
Kids(r) == {children[r][k] : k \in DOMAIN children[r]}

\* What a status may be, and what the invariant of the kernel says of the family of init and
\* of the messages.
Statuses == {"Created", "Ready", "Running", "Waiting", "Zombie"}
KernelOK ==
    /\ status \in [PCBs -> Statuses] /\ awaits \in [PCBs -> PCBs \cup {AnyChild, NoPid, NULL}]
    /\ children \in [PCBs -> Seq(PCBs)]
    /\ running # NULL => running \in PCBs /\ awaits[running] = NULL
    /\ \A r \in PCBs : \A c \in Kids(r) :
          r \in pcbs /\ c \in pcbs /\ (parent[c] = r \/ parent[r] = NULL)
    /\ \A b \in pcbs : parent[b] # NULL => \E r \in PCBs : b \in Kids(r)
    /\ \A q \in resources_list :
          msgs[q] # <<>> => message[Head(msgs[q])].length \in 0 .. 1

\* init is the parent of all processes, it waits for any of them and only then, and the
\* zombies are among those whose function has ended.
TiesOK ==
    /\ pc[sleeper] = "getc" /\ (pc[init] # "sleeper" => sleeper \in pcbs)
    /\ \A p \in pcbs \ {init} : parent[p] = init
    /\ \A p \in PCBs : status[p] = "Zombie" => pc[p] = "gone"
    /\ awaits[init] \in {NULL, AnyChild}
    /\ awaits[init] # NULL => pc[init] = "waited"

\* init waits once for each reader and writer: alive_children counts those that it has not
\* reaped, and a wait that is over has reaped one.
Present == pcbs \cap Children
WaitsOK ==
    /\ pc[init] \in {"sleeper", "create", "spawn"} =>
          \A p \in Children : p < NextPid => p \in pcbs
    /\ pc[init] \notin {"sleeper", "create", "spawn"} =>
          \A p \in Children : p \notin pcbs => pc[p] = "gone"
    /\ pc[init] = "wait" => Cardinality(Present) = i[init]
    /\ pc[init] = "waited" =>
          IF awaits[init] # NULL
            THEN Cardinality(Present) = i[init]
            ELSE Cardinality(Present) = i[init] - 1 /\ syscall_retvalue[init] >= 0
    /\ pc[init] \in {"destroy", "shutdown"} => Present = {}

\* A child has its own queue open and no other, and a writer leaves its loop after the last
\* message.
LoopsOK ==
    /\ stale_links = {}
    /\ \A p \in Children :
          /\ pc[p] \in Holding \cup {"open", "exit", "gone"}
          /\ \A d \in descriptors[p] : /\ desc[d].resource \in resources_list
                                       /\ resource_id[desc[d].resource] = queue_of(p)
    /\ \A w \in writers :
          /\ i[w] <= Iterations
          /\ pc[w] = "open" => i[w] = 0
          /\ pc[w] = "write" => i[w] < Iterations
          /\ pc[w] \in Closing => i[w] = Iterations

\* A writer has its role while it holds the queue, which keeps the messages for the reader: one
\* that has given up came before the writer, and the queue keeps them all, or after it, and
\* has taken them all.
DeliveredOK ==
    \A w \in writers, r \in resources_list : resource_id[r] = queue_of(w) =>
        /\ pc[w] \in Holding => writing_pid[r] = w
        /\ Len(msgs[r]) <= i[w]
        /\ pc[w + 1] \in Closing =>
              Len(msgs[r]) = i[w] \/ (msgs[r] = <<>> /\ pc[w] \in {"exit", "gone"})

Delivery ==
    AllOrNothing /\ (machine = "up" => TiesOK /\ WaitsOK /\ LoopsOK /\ DeliveredOK)

\* Every other process is a child of init in its list.
LEMMA ListedUnderInit ==
    ASSUME TypeOK, KernelOK, TiesOK, NEW b \in pcbs, b # init
    PROVE  b \in Kids(init)
<1>1. parent[b] = init /\ init # NULL
  BY Pids DEF TiesOK
<1>2. PICK r \in PCBs : b \in Kids(r)
  BY <1>1 DEF KernelOK
<1>3. r \in pcbs /\ (parent[b] = r \/ parent[r] = NULL)
  BY <1>2 DEF KernelOK
<1>4. r = init
  BY <1>1, <1>3 DEF TiesOK
<1> QED BY <1>2, <1>4

\* A call on resources leaves the family alone.
LEMMA CallsKeep ==
    ASSUME \/ \E id, type, mode : Kernel!disastrOS_openResource(id, type, mode)
           \/ \E f, mode : Kernel!disastrOS_closeResource(f, mode)
           \/ \E id : Kernel!disastrOS_destroyResource(id)
           \/ \E f, m : Kernel!disastrOS_mq_write(f, m)
           \/ \E f, length : Kernel!disastrOS_mq_read(f, length)
    PROVE  UNCHANGED <<awaits, status>>
BY DEF Kernel!disastrOS_openResource, Kernel!disastrOS_closeResource,
       Kernel!disastrOS_destroyResource, Kernel!disastrOS_mq_write, Kernel!disastrOS_mq_read,
       Kernel!processVars

\* A step of a child that does not exit changes nothing for init.
LEMMA TiesKept ==
    ASSUME TypeOK, TiesOK, WaitsOK, UNCHANGED <<pcbs, parent, awaits>>,
           \A x \in PCBs : status'[x] = "Zombie" => status[x] = "Zombie",
           \A x \in PCBs \ Children : pc'[x] = pc[x],
           \A x \in Children : pc[x] = "gone" => pc'[x] = "gone",
           i'[init] = i[init], syscall_retvalue'[init] = syscall_retvalue[init]
    PROVE  TiesOK' /\ WaitsOK'
<1>1. pc'[init] = pc[init] /\ pc'[sleeper] = pc[sleeper]
  BY Pids
<1>2. TiesOK'
  BY <1>1 DEF TiesOK
<1>3. NextPid' = NextPid /\ Present' = Present
  BY <1>1 DEF NextPid, Present
<1> QED BY <1>1, <1>2, <1>3 DEF WaitsOK

\* How a child goes on that neither reads nor writes.
GoesOn(p) ==
    /\ pc'[p] \in Holding \cup {"exit", "gone"}
    /\ pc'[p] \in Holding => pc[p] \in Holding
    /\ pc'[p] \in Closing => pc[p] \in Closing \/ (p \in writers /\ i[p] = Iterations)
    /\ p \in writers /\ pc'[p] = "write" => i[p] < Iterations
    /\ pc[p] \in {"exit", "gone"} => pc'[p] \in {"exit", "gone"}

\* Then the queues are as they were.
LEMMA QueuesKept ==
    ASSUME TypeOK, LoopsOK, DeliveredOK, NEW p \in PCBs, p \in Children => GoesOn(p),
           \A x \in PCBs : x # p => pc'[x] = pc[x],
           \A x \in Children : i'[x] = i[x],
           UNCHANGED <<msgs, stale_links, resources_list, resource_id>>,
           \A x \in Children : \A d \in descriptors'[x] :
              d \in descriptors[x] /\ desc'[d] = desc[d],
           \A w \in writers, r \in resources_list :
              writing_pid[r] = w /\ pc'[w] \in Holding => writing_pid'[r] = w
    PROVE  LoopsOK' /\ DeliveredOK'
<1>1. \A x \in Children : pc'[x] = pc[x] \/ (x = p /\ GoesOn(x))
  BY Pids
<1>2. \A w \in writers : w \in Children
  BY DEF Children
<1>3. LoopsOK'
  <2>1. \A x \in Children :
          /\ pc'[x] \in Holding \cup {"open", "exit", "gone"}
          /\ \A d \in descriptors'[x] : /\ desc'[d].resource \in resources_list'
                                        /\ resource_id'[desc'[d].resource] = queue_of(x)
    BY <1>1 DEF LoopsOK, GoesOn
  <2>2. ASSUME NEW w \in writers
        PROVE  /\ i'[w] <= Iterations
               /\ pc'[w] = "open" => i'[w] = 0
               /\ pc'[w] = "write" => i'[w] < Iterations
               /\ pc'[w] \in Closing => i'[w] = Iterations
    <3>1. i'[w] = i[w] /\ (pc'[w] = pc[w] \/ GoesOn(w))
      BY <1>1, <1>2
    <3> QED BY <3>1 DEF LoopsOK, GoesOn, Holding
  <2> QED BY <2>1, <2>2 DEF LoopsOK
<1>4. DeliveredOK'
  <2> SUFFICES ASSUME NEW w \in writers, NEW r \in resources_list, resource_id[r] = queue_of(w)
               PROVE  /\ pc'[w] \in Holding => writing_pid'[r] = w
                      /\ Len(msgs[r]) <= i[w]
                      /\ pc'[w + 1] \in Closing =>
                            \/ Len(msgs[r]) = i[w]
                            \/ msgs[r] = <<>> /\ pc'[w] \in {"exit", "gone"}
    BY <1>2 DEF DeliveredOK
  <2>1. /\ pc[w] \in Holding => writing_pid[r] = w
        /\ Len(msgs[r]) <= i[w]
        /\ pc[w + 1] \in Closing =>
              Len(msgs[r]) = i[w] \/ (msgs[r] = <<>> /\ pc[w] \in {"exit", "gone"})
    BY DEF DeliveredOK
  <2>2. w + 1 \in Children /\ w + 1 \notin writers
    BY Pids DEF readers, Children
  <2>3. pc'[w] \in Holding => pc[w] \in Holding
    BY <1>1, <1>2 DEF GoesOn
  <2>4. pc'[w + 1] \in Closing => pc[w + 1] \in Closing
    BY <1>1, <2>2 DEF GoesOn
  <2>5. pc[w] \in {"exit", "gone"} => pc'[w] \in {"exit", "gone"}
    BY <1>1, <1>2 DEF GoesOn
  <2> QED BY <2>1, <2>3, <2>4, <2>5
<1> QED BY <1>3, <1>4

\* Descriptors that are given back leave those of others alone.
LEMMA ReleasedKeeps ==
    ASSUME TypeOK, DescriptorsOK, NEW p \in PCBs, NEW ds \in SUBSET descriptors[p],
           Released(p, ds)
    PROVE  \A x \in PCBs : \A d \in descriptors'[x] :
              d \in descriptors[x] /\ desc'[d] = desc[d]
<1> SUFFICES ASSUME NEW x \in PCBs, NEW d \in descriptors'[x]
             PROVE  d \in descriptors[x] /\ desc'[d] = desc[d]
  OBVIOUS
<1>1. d \in descriptors[x] /\ (x = p => d \notin ds)
  BY DEF Released, TypeOK
<1>2. d \notin ds
  BY <1>1 DEF DescriptorsOK
<1>3. d \in Descriptors
  BY <1>1 DEF TypeOK
<1> QED BY <1>1, <1>2, <1>3 DEF Released

\* The children are two for every queue, a reader and a writer.
LEMMA FiniteChildren ==
    IsFiniteSet(Children) /\ Cardinality(Children) = 2 * NumQueues
<1>1. NumQueues \in Nat \ {0} /\ Children = 2 .. 2 * NumQueues + 1
  BY Roles, ProgramAssumption
<1> QED BY <1>1, FS_Interval

\* What the steps of a machine that is up start from.
LEMMA Up ==
    ASSUME Inv, Delivery, machine = "up"
    PROVE  /\ TypeOK /\ Structure /\ AssertsHold
           /\ TiesOK /\ WaitsOK /\ LoopsOK /\ DeliveredOK
BY DEF Inv, Delivery

\* What they have to show while it is not switched off.
LEMMA StillOn ==
    ASSUME machine' # "off", machine' = "up" => TiesOK' /\ WaitsOK' /\ LoopsOK' /\ DeliveredOK'
    PROVE  Delivery'
BY DEF Delivery, AllOrNothing

\* The label of p changes and no other.
LEMMA OneGoes ==
    ASSUME TypeOK, NEW p \in PCBs, NEW l, GoTo(p, l)
    PROVE  pc'[p] = l /\ \A x \in PCBs : x # p => pc'[x] = pc[x]
BY DEF TypeOK, GoTo

\* A step of a child that leaves the kernel alone.
LEMMA QuietDelivery ==
    ASSUME Inv, Delivery, NEW p \in Children, Load(p) \/ Store(p)
    PROVE  Delivery'
<1>1. /\ machine = "up" /\ p \in PCBs /\ UNCHANGED <<kernelVars, i>>
      /\ \/ pc[p] = "load" /\ GoTo(p, "store")
         \/ pc[p] = "store" /\ GoTo(p, "sleep")
  BY Pids DEF Load, Store, At
<1>2. TypeOK /\ TiesOK /\ WaitsOK /\ LoopsOK /\ DeliveredOK
  BY <1>1, Up
<1>3. /\ \/ pc[p] = "load" /\ pc'[p] = "store"
         \/ pc[p] = "store" /\ pc'[p] = "sleep"
      /\ \A x \in PCBs : x # p => pc'[x] = pc[x]
  BY <1>1, <1>2, OneGoes
<1>4. GoesOn(p)
  BY <1>3 DEF GoesOn, Holding, Closing
<1>5. /\ UNCHANGED <<machine, pcbs, parent, awaits, status, syscall_retvalue, msgs, stale_links,
                     resources_list, resource_id, descriptors, desc, writing_pid>>
  BY <1>1 DEF kernelVars
<1>6. TiesOK' /\ WaitsOK'
  BY <1>1, <1>2, <1>3, <1>5, Pids, TiesKept
<1>7. LoopsOK' /\ DeliveredOK'
  BY <1>1, <1>2, <1>3, <1>4, <1>5, QueuesKept
<1> QED BY <1>1, <1>5, <1>6, <1>7, StillOn

\* A sleep changes the statuses of the two processes and the timers.
LEMMA SleepKeeps ==
    ASSUME NEW ticks, Kernel!disastrOS_sleep(ticks), status \in [PCBs -> Statuses]
    PROVE  /\ UNCHANGED <<tables, pcbs, parent, awaits>> /\ machine' \in {"up", "segv"}
           /\ \A x \in PCBs : status'[x] = "Zombie" => status[x] = "Zombie"
           /\ \/ syscall_retvalue' = syscall_retvalue
              \/ \E v : syscall_retvalue' = [syscall_retvalue EXCEPT ![running] = v]
<1>1. Kernel!P!internal_sleep(ticks) /\ UNCHANGED tables
  BY DEF Kernel!disastrOS_sleep, Kernel!resourceVars, Kernel!queueVars, Kernel!pointerVars,
         tables, roles, links
<1>2. UNCHANGED <<pcbs, parent, awaits>>
  BY <1>1 DEF Kernel!P!internal_sleep, Kernel!P!family
<1>3. machine' \in {"up", "segv"}
  BY <1>1 DEF Kernel!P!internal_sleep, Kernel!P!UserMode, Kernel!P!Dispatch
<1>4. status' = status \/ status' = [status EXCEPT ![running] = "Waiting"]
  BY <1>1 DEF Kernel!P!internal_sleep
<1>5. \A x \in PCBs : status'[x] = "Zombie" => status[x] = "Zombie"
  BY <1>4
<1>6. \/ syscall_retvalue' = syscall_retvalue
      \/ \E v : syscall_retvalue' = [syscall_retvalue EXCEPT ![running] = v]
  BY <1>1 DEF Kernel!P!internal_sleep, Kernel!P!Return
<1> QED BY <1>1, <1>2, <1>3, <1>5, <1>6

\* A child goes back to the head of its loop, and a writer leaves it after the last message.
LEMMA SleepDelivery ==
    ASSUME Inv, KernelOK, Delivery, NEW p \in Children, Sleep(p)
    PROVE  Delivery'
<1> DEFINE l == CASE p \in readers -> "read" [] p \in writers /\ i[p] < Iterations -> "write"
                  [] OTHER -> "close"
<1>1. /\ machine = "up" /\ running = p /\ pc[p] = "sleep" /\ p \in PCBs /\ p # init
      /\ UNCHANGED i /\ GoTo(p, l) /\ Kernel!disastrOS_sleep(SleepTicks(p))
  BY Pids DEF Sleep, At
<1>2. TypeOK /\ TiesOK /\ WaitsOK /\ LoopsOK /\ DeliveredOK
  BY <1>1, Up
<1>3. pc'[p] = l /\ \A x \in PCBs : x # p => pc'[x] = pc[x]
  BY <1>1, <1>2, OneGoes
<1>4. \/ p \in readers /\ p \notin writers /\ l = "read"
      \/ p \in writers /\ p \notin readers /\ i[p] < Iterations /\ l = "write"
      \/ p \in writers /\ p \notin readers /\ i[p] = Iterations /\ l = "close"
  <2>1. p \in writers => i[p] <= Iterations /\ i[p] \in Nat /\ Iterations \in Nat
    BY <1>1, <1>2, ProgramAssumption DEF LoopsOK, TypeOK
  <2>2. (p \in readers /\ p \notin writers) \/ (p \in writers /\ p \notin readers)
    BY Pids DEF Children
  <2>3. CASE p \in readers
    BY <2>2, <2>3
  <2>4. CASE p \notin readers /\ i[p] < Iterations
    BY <2>2, <2>4
  <2>5. CASE p \notin readers /\ ~ (i[p] < Iterations)
    BY <2>1, <2>2, <2>5
  <2> QED BY <2>3, <2>4, <2>5
<1> HIDE DEF l
<1>5. GoesOn(p)
  BY <1>1, <1>3, <1>4 DEF GoesOn, Holding, Closing
<1>6. /\ UNCHANGED <<tables, pcbs, parent, awaits>> /\ machine' \in {"up", "segv"}
      /\ \A x \in PCBs : status'[x] = "Zombie" => status[x] = "Zombie"
      /\ \/ syscall_retvalue' = syscall_retvalue
         \/ \E v : syscall_retvalue' = [syscall_retvalue EXCEPT ![p] = v]
  BY <1>1, SleepKeeps DEF KernelOK
<1>7. syscall_retvalue'[init] = syscall_retvalue[init]
  BY <1>1, <1>2, <1>6, Pids DEF TypeOK
<1>8. TiesOK' /\ WaitsOK'
  BY <1>1, <1>2, <1>3, <1>6, <1>7, Pids, TiesKept
<1>9. LoopsOK' /\ DeliveredOK'
  BY <1>1, <1>2, <1>3, <1>5, <1>6, QueuesKept DEF tables, links, roles
<1> QED BY <1>6, <1>8, <1>9, StillOn

\* A child closes its queue, and a writer leaves its role.
LEMMA CloseDelivery ==
    ASSUME Inv, Delivery, NEW p \in Children, Close(p), pc'[p] # "abort"
    PROVE  Delivery'
<1>1. /\ machine = "up" /\ running = p /\ pc[p] = "close" /\ p \in PCBs /\ p # init
      /\ UNCHANGED i /\ \E l \in {"exit", "abort"} : GoTo(p, l)
      /\ Kernel!disastrOS_closeResource(fd[p], role(p))
  BY Pids DEF Close, At, Asserted
<1>2. TypeOK /\ Structure /\ TiesOK /\ WaitsOK /\ LoopsOK /\ DeliveredOK
  BY <1>1, Up
<1>3. pc'[p] = "exit" /\ \A x \in PCBs : x # p => pc'[x] = pc[x]
  BY <1>1, <1>2, OneGoes
<1>4. GoesOn(p)
  BY <1>1, <1>3 DEF GoesOn, Holding, Closing
<1>5. /\ \E d \in descriptors[p] : desc[d].fd = fd[p]
      /\ \A d \in descriptors[p] : desc[d].resource \in MqBlocks
  BY <1>1, <1>2, Holds DEF Holding
<1>6. /\ UNCHANGED <<pcbs, parent, machine, msgs, m_pool, stale_links, resources_list,
                     resource_id, last_fd>>
      /\ syscall_retvalue' = [syscall_retvalue EXCEPT ![p] = 0]
      /\ \E d \in descriptors[p] :
            /\ Released(p, {d})
            /\ reading_pid' = IF role(p) = DSOS_READ
                                THEN [reading_pid EXCEPT ![desc[d].resource] = NULL]
                                ELSE reading_pid
            /\ writing_pid' = IF role(p) = DSOS_WRITE
                                THEN [writing_pid EXCEPT ![desc[d].resource] = NULL]
                                ELSE writing_pid
  BY <1>1, <1>5, CloseCall
<1>7. UNCHANGED <<awaits, status>>
  BY <1>1, CallsKeep
<1>8. syscall_retvalue'[init] = syscall_retvalue[init]
  BY <1>1, <1>6
<1>9. TiesOK' /\ WaitsOK'
  BY <1>1, <1>2, <1>3, <1>6, <1>7, <1>8, Pids, TiesKept
<1>10. PICK d \in descriptors[p] :
          /\ Released(p, {d})
          /\ writing_pid' = IF role(p) = DSOS_WRITE
                              THEN [writing_pid EXCEPT ![desc[d].resource] = NULL]
                              ELSE writing_pid
  BY <1>6
<1>11. \A x \in PCBs : \A e \in descriptors'[x] : e \in descriptors[x] /\ desc'[e] = desc[e]
  <2>1. {d} \in SUBSET descriptors[p]
    OBVIOUS
  <2> QED BY <1>1, <1>2, <1>10, <2>1, ReleasedKeeps DEF Structure
<1>12. ASSUME NEW w \in writers, NEW r \in resources_list, writing_pid[r] = w,
              pc'[w] \in Holding
       PROVE  writing_pid'[r] = w
  <2>1. w # p /\ r \in MqBlocks
    BY <1>2, <1>3, <1>12 DEF Holding, TypeOK
  <2>2. CASE role(p) = DSOS_WRITE
    <3>1. p \in writers
      BY <2>2, Codes DEF role, Children
    <3>2. resource_id[desc[d].resource] = queue_of(p) /\ queue_of(p) # queue_of(w)
      BY <1>2, <2>1, <3>1, Roles DEF LoopsOK
    <3>3. w # NULL /\ resource_id[r] = queue_of(w)
      BY <1>2, <1>12, <2>1, Pids DEF Structure, RolesOK, Children
    <3> QED BY <1>2, <1>10, <1>12, <2>1, <3>2, <3>3 DEF TypeOK
  <2>3. CASE role(p) # DSOS_WRITE
    BY <1>10, <1>12, <2>3
  <2> QED BY <2>2, <2>3
<1>13. LoopsOK' /\ DeliveredOK'
  BY <1>1, <1>2, <1>3, <1>4, <1>6, <1>11, <1>12, Pids, QueuesKept
<1> QED BY <1>1, <1>6, <1>9, <1>13, StillOn

\* A child whose function runs is allocated.
LEMMA Alive ==
    ASSUME TypeOK, ChildrenOK, WaitsOK, NEW p \in Children, pc[p] \notin {"open", "gone"}
    PROVE  p \in pcbs
<1>1. ~ (p >= NextPid) /\ p \in Int /\ NextPid \in Int
  BY Pids, NextPidType DEF ChildrenOK
<1> QED BY <1>1 DEF WaitsOK

\* A child exits: init, when it waits, goes on with one child less.
LEMMA ExitTies ==
    ASSUME Inv, KernelOK, Delivery, NEW p \in Children, Exit(p), machine' = "up"
    PROVE  TiesOK' /\ WaitsOK'
<1>1. /\ machine = "up" /\ running = p /\ pc[p] = "exit" /\ p \in PCBs /\ p # init
      /\ UNCHANGED i /\ GoTo(p, "gone") /\ Kernel!P!internal_exit
  BY Pids DEF Exit, At, Kernel!disastrOS_exit
<1>2. TypeOK /\ Structure /\ TiesOK /\ WaitsOK
  BY <1>1, Up
<1>3. pc'[p] = "gone" /\ \A x \in PCBs : x # p => pc'[x] = pc[x]
  BY <1>1, <1>2, OneGoes
<1>4. p \in pcbs /\ parent[p] = init
  BY <1>1, <1>2, Alive DEF Structure, TiesOK
<1>5. status \in [PCBs -> Statuses] /\ awaits \in [PCBs -> PCBs \cup {AnyChild, NoPid, NULL}]
  BY DEF KernelOK
<1>6. Kernel!P!ExitWakesParent \/ Kernel!P!ExitToZombie
  BY <1>1 DEF Kernel!P!internal_exit, Kernel!P!ExitHangs, Kernel!P!ExitCrashes, Kernel!P!Segv,
              Kernel!P!Stop
<1>7. CASE Kernel!P!ExitToZombie
  <2>1. /\ status' = [status EXCEPT ![p] = "Zombie", ![Head(ready_list)] = "Running"]
        /\ UNCHANGED <<pcbs, parent, awaits, syscall_retvalue>>
    BY <1>1, <1>7 DEF Kernel!P!ExitToZombie
  <2>2. \A x \in PCBs : status'[x] = "Zombie" => status[x] = "Zombie" \/ x = p
    BY <1>5, <2>1
  <2>3. pc'[init] = pc[init] /\ pc'[sleeper] = pc[sleeper] /\ sleeper # p
    BY <1>1, <1>3, Pids
  <2>4. TiesOK'
    BY <1>2, <1>3, <2>1, <2>2, <2>3 DEF TiesOK
  <2>5. NextPid' = NextPid /\ Present' = Present
    BY <1>1, <2>1, <2>3 DEF NextPid, Present
  <2>6. \A x \in Children : pc[x] = "gone" => pc'[x] = "gone"
    BY <1>1, <1>3, Pids
  <2> QED BY <1>1, <1>2, <2>1, <2>3, <2>4, <2>5, <2>6 DEF WaitsOK
<1>8. CASE Kernel!P!ExitWakesParent
  <2>1. /\ awaits[init] \in {AnyChild, p} /\ pcbs' = pcbs \ {p}
        /\ status' = [status EXCEPT ![p] = "Zombie", ![init] = "Running"]
        /\ awaits' = [awaits EXCEPT ![init] = NULL]
        /\ parent' = [parent EXCEPT ![p] = NULL]
        /\ syscall_retvalue' = [syscall_retvalue EXCEPT ![init] = p]
    BY <1>1, <1>4, <1>8 DEF Kernel!P!ExitWakesParent, Kernel!P!ParentAwaits
  <2>2. awaits[init] # NULL
    BY <1>1, <2>1, Pids, ProgramAssumption
  <2>3. pc[init] = "waited" /\ Cardinality(Present) = i[init]
    BY <1>2, <2>2 DEF TiesOK, WaitsOK
  <2>4. pc'[init] = "waited" /\ pc'[sleeper] = "getc" /\ sleeper \in pcbs /\ sleeper # p
    BY <1>1, <1>2, <1>3, <2>3, Pids DEF TiesOK
  <2>5. awaits'[init] = NULL /\ syscall_retvalue'[init] = p /\ p >= 0
    BY <1>1, <1>2, <1>5, <2>1, Pids DEF TypeOK
  <2>6. \A x \in PCBs : status'[x] = "Zombie" => status[x] = "Zombie" \/ x = p
    BY <1>5, <2>1
  <2>7. \A x \in pcbs' \ {init} : parent'[x] = init
    BY <1>2, <2>1 DEF TiesOK, TypeOK
  <2>8. TiesOK'
    BY <1>2, <1>3, <2>1, <2>4, <2>5, <2>6, <2>7 DEF TiesOK
  <2>9. Cardinality(Present') = i[init] - 1
    <3>1. Present' = Present \ {p} /\ p \in Present
      BY <1>4, <2>1 DEF Present
    <3>2. IsFiniteSet(Present)
      BY FiniteChildren, FS_Subset DEF Present
    <3> QED BY <2>3, <3>1, <3>2, FS_RemoveElement
  <2>10. \A x \in Children : x \notin pcbs' => pc'[x] = "gone"
    BY <1>2, <1>3, <2>1, <2>3, Pids DEF WaitsOK
  <2> QED BY <1>1, <2>4, <2>5, <2>8, <2>9, <2>10 DEF WaitsOK
<1> QED BY <1>6, <1>7, <1>8

\* A child that exits leaves the queues as they are, and its own loop is over.
LEMMA ExitDelivery ==
    ASSUME Inv, KernelOK, Delivery, NEW p \in Children, Exit(p)
    PROVE  Delivery'
<1>1. /\ machine = "up" /\ running = p /\ pc[p] = "exit" /\ p \in PCBs /\ p # init
      /\ UNCHANGED i /\ GoTo(p, "gone") /\ Kernel!disastrOS_exit(p + 1)
  BY Pids DEF Exit, At
<1>2. TypeOK /\ Structure /\ LoopsOK /\ DeliveredOK
  BY <1>1, Up
<1>3. pc'[p] = "gone" /\ \A x \in PCBs : x # p => pc'[x] = pc[x]
  BY <1>1, <1>2, OneGoes
<1>4. GoesOn(p)
  BY <1>1, <1>3 DEF GoesOn, Holding, Closing
<1>5. /\ UNCHANGED <<msgs, m_pool, roles, resources_list, resource_id, last_fd>>
      /\ UNCHANGED links \/ Released(p, descriptors[p])
  BY <1>1, ExitCall
<1>6. \A x \in PCBs : \A d \in descriptors'[x] : d \in descriptors[x] /\ desc'[d] = desc[d]
  <2>1. CASE UNCHANGED links
    BY <2>1 DEF links
  <2>2. CASE Released(p, descriptors[p])
    BY <1>1, <1>2, <2>2, ReleasedKeeps DEF Structure
  <2> QED BY <1>5, <2>1, <2>2
<1>7. UNCHANGED stale_links
  BY <1>1 DEF Kernel!disastrOS_exit, Kernel!queueVars
<1>8. LoopsOK' /\ DeliveredOK'
  BY <1>1, <1>2, <1>3, <1>4, <1>5, <1>6, <1>7, Pids, QueuesKept DEF roles
<1>9. machine' # "off"
  BY <1>1 DEF Kernel!disastrOS_exit, Kernel!P!internal_exit, Kernel!P!ExitHangs,
              Kernel!P!ExitCrashes, Kernel!P!Segv, Kernel!P!Stop, Kernel!P!ExitWakesParent,
              Kernel!P!ExitToZombie, Kernel!P!Dispatch
<1> QED BY <1>8, <1>9, ExitTies, StillOn

\* A child opens its queue, and a writer takes its role.
LEMMA OpenDelivery ==
    ASSUME Inv, Inv', Delivery, NEW p \in Children, Open(p)
    PROVE  Delivery'
<1>1. /\ machine = "up" /\ running = p /\ pc[p] = "open" /\ p \in PCBs /\ p # init /\ p # sleeper
      /\ UNCHANGED i
      /\ \E l \in {"read", "write", "abort"} :
            /\ GoTo(p, l) /\ (l = "read" => p \in readers) /\ (l = "write" => p \notin readers)
      /\ Kernel!disastrOS_openResource(resources[queue_of(p) + 1], MESSAGE_QUEUE_TYPE, role(p))
  BY Pids DEF Open, Opens, At, Asserted
<1>2. TypeOK /\ Structure /\ TiesOK /\ WaitsOK /\ LoopsOK /\ DeliveredOK
  BY <1>1, Up
<1>3. /\ \/ pc'[p] = "read" /\ p \in readers /\ p \notin writers
         \/ pc'[p] = "write" /\ p \in writers /\ p \notin readers
      /\ \A x \in PCBs : x # p => pc'[x] = pc[x]
  <2>1. /\ pc'[p] \in {"read", "write", "abort"} /\ (pc'[p] = "read" => p \in readers)
        /\ pc'[p] = "write" => p \notin readers
        /\ \A x \in PCBs : x # p => pc'[x] = pc[x]
    BY <1>1, <1>2, OneGoes
  <2>2. pc'[p] # "abort"
    BY <1>1 DEF Inv, TypeOK, AssertsHold
  <2> QED BY <2>1, <2>2, Pids DEF Children
<1>4. PICK r \in resources_list :
         /\ resource_id[r] = queue_of(p)
         /\ (machine' = "segv" /\ UNCHANGED <<tables, syscall_retvalue>>) \/ Opened(p, r)
  BY OpenDoes
<1>5. /\ UNCHANGED <<pcbs, parent, awaits, status>>
      /\ role(p) = DSOS_READ => p \in readers
      /\ role(p) = DSOS_WRITE <=> p \in writers
  BY <1>1, OpenDoes, CallsKeep, Codes, Pids DEF role, Children
<1>6. machine' # "off"
  BY <1>1, <1>4 DEF Opened, Attached
<1>7. ASSUME machine' = "up" PROVE TiesOK' /\ WaitsOK' /\ LoopsOK' /\ DeliveredOK'
  <2>1. Opened(p, r)
    BY <1>4, <1>7
  <2>2. /\ UNCHANGED <<msgs, stale_links, resources_list, resource_id>>
        /\ writing_pid' = IF p \in writers THEN [writing_pid EXCEPT ![r] = p] ELSE writing_pid
    BY <1>5, <2>1 DEF Opened
  <2>3. PICK d \in Descriptors :
           /\ desc[d].resource = NULL
           /\ desc' = [desc EXCEPT ![d] = [pcb |-> p, resource |-> r, fd |-> last_fd[p]]]
           /\ descriptors' = [descriptors EXCEPT ![p] = @ \cup {d}]
           /\ syscall_retvalue' = [syscall_retvalue EXCEPT ![p] = last_fd[p]]
    BY <2>1 DEF Opened, Attached
  <2>4. syscall_retvalue'[init] = syscall_retvalue[init]
    BY <1>1, <2>3
  <2>5. TiesOK' /\ WaitsOK'
    BY <1>1, <1>2, <1>3, <1>5, <2>4, Pids, TiesKept
  <2>6. ASSUME NEW x \in Children, NEW e \in descriptors'[x]
        PROVE  /\ desc'[e].resource \in resources_list
               /\ resource_id[desc'[e].resource] = queue_of(x)
    <3>1. desc'[d].resource = r
      BY <1>2, <2>3 DEF TypeOK
    <3>2. x \in PCBs /\ descriptors \in [PCBs -> SUBSET Descriptors]
      BY <1>2, Pids DEF TypeOK
    <3>3. (x = p /\ e = d) \/ e \in descriptors[x]
      BY <2>3, <2>6, <3>2
    <3>4. ASSUME e \in descriptors[x]
          PROVE  /\ desc'[e] = desc[e] /\ desc[e].resource \in resources_list
                 /\ resource_id[desc[e].resource] = queue_of(x)
      <4>1. desc[e].resource \in MqBlocks
        BY <1>2, <3>2, <3>4 DEF Structure, DescriptorsOK
      <4>2. e # d /\ e \in Descriptors
        BY <2>3, <3>2, <3>4, <4>1, ProgramAssumption
      <4> QED BY <1>2, <2>3, <3>4, <4>2 DEF LoopsOK, TypeOK
    <3> QED BY <1>4, <3>1, <3>3, <3>4
  <2>7. LoopsOK'
    <3>1. \A x \in Children : pc'[x] \in Holding \cup {"open", "exit", "gone"}
      BY <1>2, <1>3, Pids DEF LoopsOK, Holding
    <3>2. ASSUME NEW w \in writers
          PROVE  /\ i'[w] <= Iterations
                 /\ pc'[w] = "open" => i'[w] = 0
                 /\ pc'[w] = "write" => i'[w] < Iterations
                 /\ pc'[w] \in Closing => i'[w] = Iterations
      <4>1. w \in PCBs
        BY Pids DEF Children
      <4>2. CASE w = p
        <5>1. i[w] = 0 /\ pc'[w] = "write" /\ 0 < Iterations /\ Iterations \in Nat
          BY <1>1, <1>2, <1>3, <4>2, ProgramAssumption DEF LoopsOK
        <5>2. i'[w] = 0 /\ 0 <= Iterations
          BY <1>1, <5>1
        <5> QED BY <5>1, <5>2 DEF Closing
      <4>3. CASE w # p
        BY <1>1, <1>2, <1>3, <4>1, <4>3 DEF LoopsOK
      <4> QED BY <4>2, <4>3
    <3> QED BY <1>2, <2>2, <2>6, <3>1, <3>2 DEF LoopsOK
  <2>8. DeliveredOK'
    <3> SUFFICES ASSUME NEW w \in writers, NEW q \in resources_list, resource_id[q] = queue_of(w)
                 PROVE  /\ pc'[w] \in Holding => writing_pid'[q] = w
                        /\ Len(msgs[q]) <= i[w]
                        /\ pc'[w + 1] \in Closing =>
                              \/ Len(msgs[q]) = i[w]
                              \/ msgs[q] = <<>> /\ pc'[w] \in {"exit", "gone"}
      BY <1>1, <2>2 DEF DeliveredOK
    <3>1. /\ pc[w] \in Holding => writing_pid[q] = w
          /\ Len(msgs[q]) <= i[w]
          /\ pc[w + 1] \in Closing =>
                Len(msgs[q]) = i[w] \/ (msgs[q] = <<>> /\ pc[w] \in {"exit", "gone"})
      BY <1>2 DEF DeliveredOK
    <3>2. w \in PCBs /\ w + 1 \in PCBs /\ q \in MqBlocks
      BY <1>2, Pids DEF readers, Children, TypeOK
    <3>3. pc'[w + 1] \in Closing => pc[w + 1] \in Closing
      BY <1>3, <3>2 DEF Closing
    <3>4. pc[w] \in {"exit", "gone"} => pc'[w] \in {"exit", "gone"}
      BY <1>1, <1>3, <3>2
    <3>5. ASSUME w = p PROVE writing_pid'[q] = w
      <4>1. q = r
        BY <1>2, <1>4, <3>5 DEF Structure, ResourcesOK
      <4> QED BY <1>2, <2>2, <3>2, <3>5, <4>1 DEF TypeOK
    <3>6. ASSUME w # p, pc'[w] \in Holding PROVE writing_pid'[q] = w
      <4>1. writing_pid[q] = w
        BY <1>3, <3>1, <3>2, <3>6
      <4>2. p \in writers => q # r
        BY <1>4, <3>6, Roles
      <4> QED BY <1>2, <2>2, <3>2, <4>1, <4>2 DEF TypeOK
    <3> QED BY <3>1, <3>3, <3>4, <3>5, <3>6
  <2> QED BY <2>5, <2>7, <2>8
<1> QED BY <1>6, <1>7, StillOn

\* A writer and its reader have the same queue, which is one.
LEMMA Mates ==
    /\ \A w \in writers : w + 1 \in readers /\ queue_of(w + 1) = queue_of(w)
    /\ \A p \in readers : \E w \in writers : p = w + 1
    /\ \A v, w \in writers : v + 1 = w + 1 => v = w
<1>1. \A w \in writers : \E k \in 1 .. NumQueues : w = 2 * k
  BY DEF writers
<1>2. NumQueues \in Nat
  BY ProgramAssumption
<1>3. ASSUME NEW w \in writers PROVE queue_of(w + 1) = queue_of(w)
  <2>1. PICK k \in 1 .. NumQueues : w = 2 * k
    BY <1>1
  <2>2. (2 * k - 2) \div 2 = k - 1 /\ (2 * k + 1 - 2) \div 2 = k - 1
    BY <1>2
  <2> QED BY <2>1, <2>2 DEF queue_of
<1>4. \A w \in writers : w \in Nat
  BY Pids DEF Children
<1> QED BY <1>3, <1>4 DEF readers

\* A child that reads or writes changes at most its own queue.
LEMMA OwnQueue ==
    ASSUME TypeOK, LoopsOK, NEW p \in Children, NEW q \in Reached(p)
    PROVE  q \in resources_list /\ q \in MqBlocks /\ resource_id[q] = queue_of(p)
BY DEF LoopsOK, Reached

\* A reader takes a message, waits for one, or gives up: then no writer is there and no
\* message left.
LEMMA ReadDelivery ==
    ASSUME Inv, KernelOK, Delivery, NEW p \in readers, Read(p)
    PROVE  Delivery'
<1>1. /\ machine = "up" /\ running = p /\ pc[p] = "read" /\ p \in PCBs /\ p # init
      /\ p \in Children /\ p \notin writers /\ UNCHANGED i
      /\ GoTo(p, CASE GivesUp(res(p)) -> "close"
                   [] ~ GivesUp(res(p)) /\ TriesAgain(res(p)) -> "sleep"
                   [] OTHER -> "load")
      /\ Kernel!disastrOS_mq_read(fd[p], 1)
  BY Pids DEF Read, At, Children
<1>2. TypeOK /\ Structure /\ TiesOK /\ WaitsOK /\ LoopsOK /\ DeliveredOK
  BY <1>1, Up
<1>3. PICK m \in writers : p = m + 1
  BY Mates
<1>4. m \in PCBs /\ m # p /\ queue_of(p) = queue_of(m)
  BY <1>1, <1>3, Mates, Pids DEF Children
<1>5. /\ UNCHANGED <<pcbs, parent, machine, links, roles, stale_links>>
      /\ \E v : syscall_retvalue' = [syscall_retvalue EXCEPT ![p] = v]
      /\ \E q \in Reached(p) :
           \/ /\ UNCHANGED <<msgs, m_pool>>
              /\ syscall_retvalue'[p] \in {DSOS_WAITINGFORMESSAGE, DSOS_MESSAGEQUEUEEMPTY,
                                           DSOS_MESSAGELENGTHNOTVALID}
              /\ syscall_retvalue'[p] = DSOS_MESSAGEQUEUEEMPTY =>
                    msgs[q] = <<>> /\ writing_pid[q] = NULL
           \/ /\ msgs[q] # <<>>
              /\ msgs' = [msgs EXCEPT ![q] = Tail(@)]
              /\ m_pool' = m_pool \cup {Head(msgs[q])}
              /\ syscall_retvalue'[p] = message[Head(msgs[q])].length
  <2>1. /\ \E d \in descriptors[p] : desc[d].fd = fd[p]
        /\ \A d \in descriptors[p] : desc[d].resource \in MqBlocks
        /\ DOMAIN syscall_retvalue = PCBs
    BY <1>1, <1>2, Holds DEF Holding, TypeOK
  <2> QED BY <1>1, <2>1, ReadCall
<1>6. PICK q \in Reached(p) :
        \/ /\ UNCHANGED msgs
           /\ syscall_retvalue'[p] \in {DSOS_WAITINGFORMESSAGE, DSOS_MESSAGEQUEUEEMPTY,
                                        DSOS_MESSAGELENGTHNOTVALID}
           /\ syscall_retvalue'[p] = DSOS_MESSAGEQUEUEEMPTY =>
                 msgs[q] = <<>> /\ writing_pid[q] = NULL
        \/ /\ msgs[q] # <<>>
           /\ msgs' = [msgs EXCEPT ![q] = Tail(@)]
           /\ syscall_retvalue'[p] = message[Head(msgs[q])].length
  BY <1>5
<1>7. q \in resources_list /\ q \in MqBlocks /\ resource_id[q] = queue_of(m)
  BY <1>1, <1>2, <1>4, OwnQueue
<1>8. \A r \in resources_list : resource_id[r] = queue_of(m) => r = q
  BY <1>2, <1>7 DEF Structure, ResourcesOK
<1>9. \A x \in PCBs : x # p => pc'[x] = pc[x]
  BY <1>1, <1>2, OneGoes
<1>10. \/ pc'[p] = "sleep" /\ UNCHANGED msgs
       \/ pc'[p] = "close" /\ UNCHANGED msgs /\ msgs[q] = <<>> /\ writing_pid[q] = NULL
       \/ /\ pc'[p] = "load" /\ msgs[q] # <<>>
          /\ msgs' = [msgs EXCEPT ![q] = Tail(@)]
  <2>1. CASE UNCHANGED msgs /\ syscall_retvalue'[p] = DSOS_MESSAGEQUEUEEMPTY
    <3>1. GoTo(p, "close")
      BY <1>1, <2>1 DEF GivesUp, res
    <3>2. pc'[p] = "close"
      BY <1>1, <1>2, <3>1, OneGoes
    <3> QED BY <1>6, <1>7, <2>1, <3>2, Codes DEF KernelOK
  <2>2. CASE /\ UNCHANGED msgs
             /\ syscall_retvalue'[p] \in {DSOS_WAITINGFORMESSAGE, DSOS_MESSAGELENGTHNOTVALID}
    <3>1. GoTo(p, "sleep")
      BY <1>1, <2>2, Codes DEF GivesUp, TriesAgain, res
    <3> QED BY <1>1, <1>2, <2>2, <3>1, OneGoes
  <2>3. CASE /\ msgs[q] # <<>> /\ msgs' = [msgs EXCEPT ![q] = Tail(@)]
             /\ syscall_retvalue'[p] = message[Head(msgs[q])].length
    <3>1. res(p) \in 0 .. 1
      BY <1>7, <2>3 DEF KernelOK, res
    <3>2. ~ GivesUp(res(p)) /\ ~ TriesAgain(res(p))
      BY <3>1, Codes DEF GivesUp, TriesAgain
    <3>3. GoTo(p, "load")
      BY <1>1, <3>2
    <3> QED BY <1>1, <1>2, <2>3, <3>3, OneGoes
  <2> QED BY <1>6, <2>1, <2>2, <2>3
<1>11. TiesOK' /\ WaitsOK'
  <2>1. UNCHANGED <<awaits, status>>
    BY <1>1, CallsKeep
  <2>2. syscall_retvalue'[init] = syscall_retvalue[init]
    BY <1>1, <1>5
  <2> QED BY <1>1, <1>2, <1>5, <1>9, <2>1, <2>2, Pids, TiesKept
<1>12. LoopsOK'
  <2>1. /\ UNCHANGED <<stale_links, resources_list, resource_id, descriptors, desc, i>>
        /\ pc'[p] \in Holding
    BY <1>1, <1>5, <1>10 DEF links, Holding
  <2>2. \A x \in Children : pc'[x] \in Holding \cup {"open", "exit", "gone"}
    BY <1>2, <1>9, <2>1, Pids DEF LoopsOK
  <2>3. \A w \in writers : pc'[w] = pc[w]
    BY <1>1, <1>9, Pids DEF Children
  <2> QED BY <1>2, <2>1, <2>2, <2>3 DEF LoopsOK
<1>13. DeliveredOK'
  <2>1. UNCHANGED <<resources_list, resource_id, writing_pid, i>>
    BY <1>1, <1>5 DEF links, roles
  <2> SUFFICES ASSUME NEW w \in writers, NEW r \in resources_list, resource_id[r] = queue_of(w)
               PROVE  /\ pc'[w] \in Holding => writing_pid[r] = w
                      /\ Len(msgs'[r]) <= i[w]
                      /\ pc'[w + 1] \in Closing =>
                            \/ Len(msgs'[r]) = i[w]
                            \/ msgs'[r] = <<>> /\ pc'[w] \in {"exit", "gone"}
    BY <2>1 DEF DeliveredOK
  <2>2. /\ pc[w] \in Holding => writing_pid[r] = w
        /\ Len(msgs[r]) <= i[w]
        /\ pc[w + 1] \in Closing =>
              Len(msgs[r]) = i[w] \/ (msgs[r] = <<>> /\ pc[w] \in {"exit", "gone"})
    BY <1>2 DEF DeliveredOK
  <2>3. w \in Children /\ w \in PCBs /\ w + 1 \in PCBs /\ pc'[w] = pc[w] /\ i[w] \in Nat
    BY <1>1, <1>2, <1>9, Mates, Pids DEF Children, TypeOK
  <2>4. CASE w # m
    <3>1. w + 1 # p /\ r # q
      BY <1>3, <1>7, <2>4, Mates, Roles
    <3>2. msgs'[r] = msgs[r]
      BY <1>2, <1>10, <3>1 DEF TypeOK
    <3> QED BY <1>9, <2>2, <2>3, <3>1, <3>2
  <2>5. CASE w = m
    <3>1. r = q /\ w + 1 = p
      BY <1>3, <1>8, <2>5
    <3>2. CASE pc'[p] = "sleep" /\ UNCHANGED msgs
      BY <2>2, <2>3, <3>1, <3>2 DEF Closing
    <3>3. CASE pc'[p] = "close" /\ UNCHANGED msgs /\ msgs[q] = <<>> /\ writing_pid[q] = NULL
      <4>1. pc[w] \notin Holding
        BY <2>2, <2>3, <3>1, <3>3, Pids
      <4>2. pc[w] \in {"open", "exit", "gone"} /\ (pc[w] = "open" => i[w] = 0)
        BY <1>2, <2>3, <4>1 DEF LoopsOK
      <4>3. Len(msgs[q]) = 0
        BY <3>3
      <4> QED BY <2>2, <2>3, <3>1, <3>3, <4>2, <4>3
    <3>4. CASE /\ pc'[p] = "load" /\ msgs[q] # <<>>
               /\ msgs' = [msgs EXCEPT ![q] = Tail(@)]
      <4>1. msgs[q] \in Seq(MsgBlocks) /\ msgs'[q] = Tail(msgs[q])
        BY <1>2, <1>7, <3>4 DEF TypeOK
      <4>2. Len(msgs'[q]) <= Len(msgs[q]) /\ Len(msgs[q]) \in Nat /\ Len(msgs'[q]) \in Nat
        BY <3>4, <4>1
      <4> QED BY <2>2, <2>3, <3>1, <3>4, <4>2 DEF Closing
    <3> QED BY <1>10, <3>2, <3>3, <3>4
  <2> QED BY <2>4, <2>5
<1>14. machine' # "off"
  BY <1>1, <1>5
<1> QED BY <1>11, <1>12, <1>13, <1>14, StillOn

\* A writer stores its next message: its queue has room for all of them.
LEMMA WriteDelivery ==
    ASSUME Inv, Delivery, NEW p \in writers, Write(p)
    PROVE  Delivery'
<1>1. /\ machine = "up" /\ running = p /\ pc[p] = "write" /\ p \in PCBs /\ p # init
      /\ p \in Children
      /\ IF res(p) = DSOS_MESSAGEQUEUEFULL THEN UNCHANGED i ELSE i' = [i EXCEPT ![p] = @ + 1]
      /\ GoTo(p, CASE res(p) \in {DSOS_RESOURCENOTFOUND, DSOS_ERESOURCETYPEWRONG} -> "close"
                   [] res(p) \in {DSOS_MESSAGELENGTHNOTVALID, DSOS_MESSAGEQUEUEFULL} -> "sleep"
                   [] OTHER -> "load")
      /\ Kernel!disastrOS_mq_write(fd[p], Text(p))
  BY Pids DEF Write, At, Children
<1>2. TypeOK /\ Structure /\ TiesOK /\ WaitsOK /\ LoopsOK /\ DeliveredOK
  BY <1>1, Up
<1>3. /\ UNCHANGED <<pcbs, parent, links, roles, stale_links>>
      /\ machine' = machine \/ machine' = "segv"
      /\ \/ /\ UNCHANGED <<msgs, m_pool, syscall_retvalue>>
            /\ machine' # "segv" => \E q \in Reached(p) : Len(msgs[q]) = Iterations
         \/ /\ syscall_retvalue' = [syscall_retvalue EXCEPT ![p] = 1]
            /\ \E q \in Reached(p), b \in m_pool :
                  /\ msgs' = IF b \in stale_links THEN msgs
                                                 ELSE [msgs EXCEPT ![q] = Append(@, b)]
                  /\ m_pool' = m_pool \ {b}
  <2>1. /\ \E d \in descriptors[p] : desc[d].fd = fd[p]
        /\ \A d \in descriptors[p] : desc[d].resource \in MqBlocks
        /\ DOMAIN syscall_retvalue = PCBs
    BY <1>1, <1>2, Holds DEF Holding, TypeOK
  <2> QED BY <1>1, <2>1, WriteCall
<1>4. machine' # "off"
  BY <1>1, <1>3
<1>5. i[p] \in Nat /\ Iterations \in Nat /\ i[p] < Iterations
  BY <1>1, <1>2, ProgramAssumption DEF LoopsOK, TypeOK
<1>6. ASSUME NEW q \in Reached(p)
      PROVE  /\ q \in MqBlocks /\ q \in resources_list /\ resource_id[q] = queue_of(p)
             /\ Len(msgs[q]) <= i[p] /\ Len(msgs[q]) \in Nat
  <2>1. q \in resources_list /\ q \in MqBlocks /\ resource_id[q] = queue_of(p)
    BY <1>1, <1>2, OwnQueue
  <2> QED BY <1>2, <2>1 DEF DeliveredOK, TypeOK
<1>7. ASSUME machine' = "up" PROVE TiesOK' /\ WaitsOK' /\ LoopsOK' /\ DeliveredOK'
  <2>1. syscall_retvalue' = [syscall_retvalue EXCEPT ![p] = 1]
    BY <1>3, <1>5, <1>6, <1>7
  <2>2. PICK q \in Reached(p), b \in m_pool : msgs' = [msgs EXCEPT ![q] = Append(@, b)]
    BY <1>2, <1>3, <1>5, <1>6, <1>7 DEF LoopsOK
  <2>3. i' = [i EXCEPT ![p] = @ + 1] /\ GoTo(p, "load")
    <3>1. res(p) = 1
      BY <1>1, <1>2, <2>1 DEF TypeOK, res
    <3> QED BY <1>1, <3>1, Codes
  <2>4. /\ pc'[p] = "load" /\ i'[p] = i[p] + 1
        /\ \A x \in PCBs : x # p => pc'[x] = pc[x] /\ i'[x] = i[x]
    BY <1>1, <1>2, <2>3, OneGoes DEF TypeOK
  <2>5. /\ msgs'[q] = Append(msgs[q], b) /\ Len(msgs'[q]) = Len(msgs[q]) + 1
        /\ \A r \in MqBlocks : r # q => msgs'[r] = msgs[r]
    BY <1>2, <1>6, <2>2 DEF TypeOK
  <2>6. TiesOK' /\ WaitsOK'
    <3>1. UNCHANGED <<awaits, status>>
      BY <1>1, CallsKeep
    <3> QED BY <1>1, <1>2, <1>3, <2>1, <2>4, <3>1, Pids, TiesKept
  <2>7. LoopsOK'
    <3>1. UNCHANGED <<stale_links, resources_list, resource_id, descriptors, desc>>
      BY <1>3 DEF links
    <3>2. \A x \in Children : pc'[x] \in Holding \cup {"open", "exit", "gone"}
      BY <1>2, <2>4, Pids DEF LoopsOK, Holding
    <3>3. ASSUME NEW w \in writers
          PROVE  /\ i'[w] <= Iterations
                 /\ pc'[w] = "open" => i'[w] = 0
                 /\ pc'[w] = "write" => i'[w] < Iterations
                 /\ pc'[w] \in Closing => i'[w] = Iterations
      <4>1. w \in PCBs
        BY Pids DEF Children
      <4>2. CASE w = p
        BY <1>5, <2>4, <4>2 DEF Closing
      <4>3. CASE w # p
        BY <1>2, <2>4, <4>1, <4>3 DEF LoopsOK
      <4> QED BY <4>2, <4>3
    <3> QED BY <1>2, <3>1, <3>2, <3>3 DEF LoopsOK
  <2>8. DeliveredOK'
    <3>1. UNCHANGED <<resources_list, resource_id, writing_pid>>
      BY <1>3 DEF links, roles
    <3> SUFFICES ASSUME NEW w \in writers, NEW r \in resources_list, resource_id[r] = queue_of(w)
                 PROVE  /\ pc'[w] \in Holding => writing_pid[r] = w
                        /\ Len(msgs'[r]) <= i'[w]
                        /\ pc'[w + 1] \in Closing =>
                              \/ Len(msgs'[r]) = i'[w]
                              \/ msgs'[r] = <<>> /\ pc'[w] \in {"exit", "gone"}
      BY <3>1 DEF DeliveredOK
    <3>2. /\ pc[w] \in Holding => writing_pid[r] = w
          /\ Len(msgs[r]) <= i[w]
          /\ pc[w + 1] \in Closing =>
                Len(msgs[r]) = i[w] \/ (msgs[r] = <<>> /\ pc[w] \in {"exit", "gone"})
      BY <1>2 DEF DeliveredOK
    <3>3. /\ w \in PCBs /\ w + 1 \in PCBs /\ r \in MqBlocks /\ w + 1 # p
      BY <1>2, Mates, Pids DEF Children, TypeOK
    <3>4. pc'[w + 1] = pc[w + 1]
      BY <2>4, <3>3
    <3>5. CASE w # p
      <4>1. r # q
        BY <1>6, <3>5, Roles
      <4> QED BY <2>4, <2>5, <3>2, <3>3, <3>4, <3>5, <4>1
    <3>6. CASE w = p
      <4>1. r = q
        BY <1>2, <1>6, <3>6 DEF Structure, ResourcesOK
      <4>2. pc[w] = "write" /\ pc'[w] = "load" /\ i'[w] = i[w] + 1 /\ pc[w] \in Holding
        BY <1>1, <2>4, <3>6 DEF Holding
      <4>3. Len(msgs'[r]) = Len(msgs[r]) + 1 /\ Len(msgs[r]) \in Nat
        BY <1>6, <2>5, <4>1
      <4> QED BY <1>5, <3>2, <3>4, <3>6, <4>2, <4>3
    <3> QED BY <3>5, <3>6
  <2> QED BY <2>6, <2>7, <2>8
<1> QED BY <1>4, <1>7, StillOn

\* A step of init that leaves the tables alone.
LEMMA InitQuiet ==
    ASSUME Inv, Delivery, machine = "up", NEW l, GoTo(init, l), UNCHANGED tables,
           \A x \in PCBs : x # init => i'[x] = i[x]
    PROVE  LoopsOK' /\ DeliveredOK'
<1>1. TypeOK /\ LoopsOK /\ DeliveredOK
  BY Up
<1>2. \A x \in PCBs : x # init => pc'[x] = pc[x]
  BY <1>1, OneGoes, Pids
<1>3. /\ UNCHANGED <<msgs, stale_links, resources_list, resource_id, descriptors, desc,
                     writing_pid>>
      /\ \A x \in Children : i'[x] = i[x]
  BY Pids DEF tables, links, roles
<1> QED BY <1>1, <1>2, <1>3, Pids, QueuesKept

\* What init spawns is its child and runs or is ready.
LEMMA SpawnDelivery ==
    ASSUME Inv, KernelOK, Delivery, SpawnSleeper \/ SpawnChildren
    PROVE  Delivery'
<1>1. /\ running = init /\ machine = "up" /\ NumQueues \in Nat \ {0}
  BY ProgramAssumption DEF SpawnSleeper, SpawnChildren, At
<1>2. TypeOK /\ Structure /\ TiesOK /\ WaitsOK /\ LoopsOK /\ DeliveredOK
  BY <1>1, Up
<1>3. \E p \in PCBs \ {init}, l \in Labels :
         /\ Spawn(p) /\ GoTo(init, l)
         /\ \A x \in PCBs : x # init => i'[x] = i[x]
         /\ descriptors[p] = {} /\ last_fd[p] = 0
         /\ \/ pc[init] = "sleeper" /\ p = sleeper /\ l = "create"
            \/ /\ pc[init] = "spawn" /\ p = i[init] /\ p \in Children
               /\ \/ p < 2 * NumQueues + 1 /\ l = "spawn" /\ i'[init] = p + 1
                  \/ p = 2 * NumQueues + 1 /\ l = "wait" /\ i'[init] = 2 * NumQueues
  <2>1. CASE SpawnSleeper
    BY <1>2, <2>1, Pids DEF SpawnSleeper, At, Structure, ChildrenOK, Labels
  <2>2. CASE SpawnChildren
    <3>1. /\ pc[init] = "spawn" /\ Spawn(i[init]) /\ i \in [PCBs -> Nat]
          /\ i[init] \in 2 .. 2 * NumQueues + 1
      BY <1>2, <2>2 DEF SpawnChildren, At, TypeOK, Structure, InitOK
    <3>2. /\ i[init] \in Children /\ i[init] \in PCBs \ {init}
          /\ i[init] + 1 \in PCBs <=> i[init] < 2 * NumQueues + 1
      <4>1. PCBs = 0 .. 2 * NumQueues + 1 /\ Children = 2 .. 2 * NumQueues + 1
        BY Roles
      <4> HIDE DEF PCBs, Children
      <4> QED BY <1>1, <3>1, <4>1 DEF init
    <3>3. descriptors[i[init]] = {} /\ last_fd[i[init]] = 0
      BY <1>2, <3>1, <3>2 DEF Structure, ChildrenOK, NextPid
    <3>4. CASE i[init] < 2 * NumQueues + 1
      <4>1. GoTo(init, "spawn") /\ i' = [i EXCEPT ![init] = @ + 1]
        BY <2>2, <3>2, <3>4 DEF SpawnChildren
      <4> QED BY <3>1, <3>2, <3>3, <3>4, <4>1, Pids DEF Labels
    <3>5. CASE i[init] = 2 * NumQueues + 1
      <4>1. GoTo(init, "wait") /\ i' = [i EXCEPT ![init] = 2 * NumQueues]
        BY <2>2, <3>1, <3>2, <3>5 DEF SpawnChildren
      <4> QED BY <3>1, <3>2, <3>3, <3>5, <4>1, Pids DEF Labels
    <3> QED BY <1>1, <3>1, <3>4, <3>5
  <2> QED BY <2>1, <2>2
<1>4. PICK p \in PCBs \ {init}, l \in Labels :
         /\ Spawn(p) /\ GoTo(init, l)
         /\ \A x \in PCBs : x # init => i'[x] = i[x]
         /\ descriptors[p] = {} /\ last_fd[p] = 0
         /\ \/ pc[init] = "sleeper" /\ p = sleeper /\ l = "create"
            \/ /\ pc[init] = "spawn" /\ p = i[init] /\ p \in Children
               /\ \/ p < 2 * NumQueues + 1 /\ l = "spawn" /\ i'[init] = p + 1
                  \/ p = 2 * NumQueues + 1 /\ l = "wait" /\ i'[init] = 2 * NumQueues
  BY <1>3
<1>5. /\ UNCHANGED tables /\ pcbs' = pcbs \cup {p}
      /\ \/ machine' = "segv" /\ UNCHANGED <<parent, syscall_retvalue>>
         \/ /\ parent' = [parent EXCEPT ![p] = init]
            /\ status' = [status EXCEPT ![p] = "Ready"]
            /\ UNCHANGED <<machine, awaits>>
  BY <1>1, <1>2, <1>4, SpawnCall DEF TypeOK
<1>6. pc'[init] = l /\ \A x \in PCBs : x # init => pc'[x] = pc[x]
  BY <1>2, <1>4, OneGoes, Pids
<1>7. machine' # "off"
  BY <1>1, <1>5
<1>8. LoopsOK' /\ DeliveredOK'
  BY <1>1, <1>4, <1>5, InitQuiet
<1>9. ASSUME machine' = "up" PROVE TiesOK'
  <2>1. /\ parent' = [parent EXCEPT ![p] = init]
        /\ status' = [status EXCEPT ![p] = "Ready"] /\ awaits' = awaits
    BY <1>5, <1>9
  <2>2. awaits'[init] = NULL
    BY <1>1, <2>1, Pids DEF KernelOK
  <2>3. pc'[sleeper] = "getc" /\ sleeper \in pcbs'
    BY <1>2, <1>4, <1>5, <1>6, Pids DEF TiesOK
  <2>4. \A x \in pcbs' \ {init} : parent'[x] = init
    BY <1>2, <1>4, <1>5, <2>1 DEF TiesOK, TypeOK
  <2>5. \A x \in PCBs : status'[x] = "Zombie" => pc'[x] = "gone"
    <3>1. ASSUME NEW x \in PCBs, status'[x] = "Zombie" PROVE status[x] = "Zombie"
      BY <2>1, <3>1 DEF KernelOK
    <3> QED BY <1>2, <1>4, <1>6, <3>1, Pids DEF TiesOK
  <2> QED BY <2>2, <2>3, <2>4, <2>5 DEF TiesOK
<1>10. WaitsOK'
  <2>1. CASE pc[init] = "sleeper"
    <3>1. NextPid' = 2 /\ pc'[init] = "create"
      BY <1>4, <1>6, <2>1 DEF NextPid
    <3>2. \A x \in Children : ~ (x < 2)
      BY Roles
    <3> QED BY <3>1, <3>2 DEF WaitsOK
  <2>2. CASE pc[init] = "spawn"
    <3>1. /\ NextPid = p /\ NextPid' = p + 1 /\ p \in Nat
          /\ \/ pc'[init] = "spawn"
             \/ pc'[init] = "wait" /\ p = 2 * NumQueues + 1 /\ i'[init] = 2 * NumQueues
      BY <1>1, <1>4, <1>6, <2>2, Pids DEF NextPid
    <3>2. \A x \in Children : x < p + 1 => x \in pcbs'
      <4>1. \A x \in Children : x < p => x \in pcbs
        BY <1>2, <2>2, <3>1 DEF WaitsOK
      <4>2. \A x \in Children : x \in Int
        BY Pids
      <4> QED BY <1>5, <3>1, <4>1, <4>2
    <3>3. CASE pc'[init] = "spawn"
      BY <3>1, <3>2, <3>3 DEF WaitsOK
    <3>4. CASE pc'[init] = "wait" /\ p = 2 * NumQueues + 1 /\ i'[init] = 2 * NumQueues
      <4>1. \A x \in Children : x < p + 1
        BY <1>1, <3>4, Roles
      <4>2. Present' = Children
        BY <3>2, <4>1 DEF Present
      <4> QED BY <3>2, <3>4, <4>1, <4>2, FiniteChildren DEF WaitsOK
    <3> QED BY <3>1, <3>3, <3>4
  <2> QED BY <1>4, <2>1, <2>2
<1> QED BY <1>7, <1>8, <1>9, <1>10, StillOn

\* init creates a queue, which is empty, before any child runs.
LEMMA CreateDelivery ==
    ASSUME Inv, Inv', KernelOK, Delivery, Create
    PROVE  Delivery'
<1>1. /\ running = init /\ machine = "up" /\ pc[init] = "create" /\ NumQueues \in Nat \ {0}
      /\ Kernel!disastrOS_openResource(i[init], MESSAGE_QUEUE_TYPE, DSOS_CREATE)
      /\ \/ i' = [i EXCEPT ![init] = @ + 1] /\ Asserted(init, "create")
         \/ i' = [i EXCEPT ![init] = 2] /\ Asserted(init, "spawn")
  BY ProgramAssumption DEF Create, At, Opens
<1>2. TypeOK /\ Structure /\ TiesOK /\ WaitsOK /\ LoopsOK /\ DeliveredOK
  BY <1>1, Up
<1>3. /\ pc'[init] = "create" \/ (pc'[init] = "spawn" /\ i'[init] = 2)
      /\ \A x \in PCBs : x # init => pc'[x] = pc[x] /\ i'[x] = i[x]
  <2>1. /\ \/ pc'[init] \in {"create", "abort"}
           \/ pc'[init] \in {"spawn", "abort"} /\ i'[init] = 2
        /\ \A x \in PCBs : x # init => pc'[x] = pc[x] /\ i'[x] = i[x]
    <3>1. /\ \/ i' = [i EXCEPT ![init] = @ + 1] /\ pc'[init] \in {"create", "abort"}
             \/ i' = [i EXCEPT ![init] = 2] /\ pc'[init] \in {"spawn", "abort"}
          /\ \A x \in PCBs : x # init => pc'[x] = pc[x]
      BY <1>1, <1>2, OneGoes, Pids DEF Asserted
    <3>2. i \in [PCBs -> Int]
      BY <1>2 DEF TypeOK
    <3> QED BY <3>1, <3>2, Pids
  <2>2. pc'[init] # "abort"
    BY Pids DEF Inv, TypeOK, AssertsHold
  <2> QED BY <2>1, <2>2
<1>4. /\ UNCHANGED <<pcbs, parent>>
      /\ \/ machine' = "segv" /\ UNCHANGED <<tables, syscall_retvalue>>
         \/ \E r \in MqBlocks \ resources_list :
               /\ Attached(init, r, {})
               /\ resources_list' = resources_list \cup {r}
               /\ resource_id' = [resource_id EXCEPT ![r] = i[init]]
               /\ msgs' = [msgs EXCEPT ![r] = <<>>]
               /\ UNCHANGED <<m_pool, stale_links, roles>>
  <2>1. i[init] \in Nat /\ \A s \in resources_list : resource_id[s] # i[init]
    BY <1>1, <1>2, Pids DEF Structure, InitOK, ResourcesOK, NumCreated, TypeOK
  <2>2. \E d \in Descriptors : desc[d].resource = NULL
    BY <1>1, <1>2, Pids, DescriptorFree
  <2> QED BY <1>1, <2>1, <2>2, CreateCall
<1>5. UNCHANGED <<awaits, status>>
  BY <1>1, CallsKeep
<1>6. machine' # "off"
  BY <1>1, <1>4 DEF Attached
<1>7. \A x \in Children : pc[x] = "open" /\ descriptors[x] = {} /\ pc'[x] = "open"
  <2>1. \A x \in Children : x >= NextPid
    BY <1>1, Roles DEF NextPid
  <2> QED BY <1>2, <1>3, <2>1, Pids DEF Structure, ChildrenOK
<1>8. \A w \in writers : i[w] = 0 /\ i'[w] = 0 /\ pc[w] = "open" /\ pc'[w] = "open"
  BY <1>2, <1>3, <1>7, Pids DEF LoopsOK, Children
<1>9. TiesOK'
  <2>1. awaits'[init] = NULL
    BY <1>1, <1>5, Pids DEF KernelOK
  <2>2. pc'[sleeper] = "getc" /\ sleeper \in pcbs'
    BY <1>1, <1>2, <1>3, <1>4, Pids DEF TiesOK
  <2>3. \A x \in PCBs : status[x] = "Zombie" => pc'[x] = "gone"
    BY <1>1, <1>2, <1>3 DEF TiesOK
  <2> QED BY <1>2, <1>4, <1>5, <2>1, <2>2, <2>3 DEF TiesOK
<1>10. WaitsOK'
  <2>1. NextPid' = 2 /\ pc'[init] \in {"create", "spawn"}
    BY <1>3 DEF NextPid
  <2>2. \A x \in Children : ~ (x < 2)
    BY Roles
  <2> QED BY <2>1, <2>2 DEF WaitsOK
<1>11. ASSUME machine' = "up" PROVE LoopsOK' /\ DeliveredOK'
  <2>1. PICK r \in MqBlocks \ resources_list :
               /\ Attached(init, r, {})
               /\ resources_list' = resources_list \cup {r}
               /\ resource_id' = [resource_id EXCEPT ![r] = i[init]]
               /\ msgs' = [msgs EXCEPT ![r] = <<>>]
               /\ UNCHANGED stale_links
    BY <1>4, <1>11
  <2>2. \A x \in Children : descriptors'[x] = {}
    <3>1. \A x \in PCBs : x # init => descriptors'[x] = descriptors[x]
      BY <1>2, <2>1 DEF Attached, TypeOK
    <3> QED BY <1>7, <3>1, Pids
  <2>3. LoopsOK'
    <3>1. 0 <= Iterations
      BY ProgramAssumption
    <3> QED BY <1>2, <1>7, <1>8, <2>1, <2>2, <3>1 DEF LoopsOK, Closing
  <2>4. DeliveredOK'
    <3> SUFFICES ASSUME NEW w \in writers, NEW q \in resources_list',
                        resource_id'[q] = queue_of(w)
                 PROVE  Len(msgs'[q]) <= 0
      BY <1>7, <1>8, Mates DEF DeliveredOK, Holding, Closing, Children
    <3>1. CASE q = r
      <4>1. msgs'[q] = <<>>
        BY <1>2, <2>1, <3>1 DEF TypeOK
      <4> QED BY <4>1
    <3>2. CASE q # r
      <4>1. q \in resources_list /\ q \in MqBlocks /\ msgs'[q] = msgs[q]
        BY <1>2, <2>1, <3>2 DEF TypeOK
      <4>2. resource_id[q] = queue_of(w)
        BY <1>2, <2>1, <3>2, <4>1 DEF TypeOK
      <4> QED BY <1>2, <1>8, <4>1, <4>2 DEF DeliveredOK
    <3> QED BY <3>1, <3>2
  <2> QED BY <2>3, <2>4
<1> QED BY <1>6, <1>9, <1>10, <1>11, StillOn

\* The scan of wait ends at a child.
LEMMA ScannedListed ==
    ASSUME running = init, children[init] \in Seq(PCBs), children[init] # <<>>
    PROVE  Kernel!P!Scanned(AnyChild) \in Kids(init)
<1> DEFINE c == children[init]
           I == {n \in 1 .. Len(c) : status[c[n]] = "Zombie"}
           n == IF I # {} THEN Min(I) ELSE 0
<1>1. Kernel!P!Scanned(AnyChild) = IF n = 0 THEN c[Len(c)] ELSE c[n]
  BY DEF Kernel!P!Scanned, Kernel!P!SelectInSeq, Kernel!P!Last, Kernel!P!Min, Min
<1>2. I # {} => n \in I
  <2>1. I \in SUBSET Nat /\ (I # {} => n = Min(I))
    OBVIOUS
  <2> HIDE DEF I, n
  <2> QED BY <2>1, MinInSet
<1>3. Len(c) \in 1 .. Len(c) /\ DOMAIN c = 1 .. Len(c)
  OBVIOUS
<1>4. (IF n = 0 THEN Len(c) ELSE n) \in 1 .. Len(c)
  <2>1. I = {} => n = 0
    OBVIOUS
  <2>2. \A k \in I : k \in 1 .. Len(c)
    OBVIOUS
  <2> HIDE DEF n, I, c
  <2> QED BY <1>2, <1>3, <2>1, <2>2
<1> HIDE DEF n
<1> QED BY <1>1, <1>3, <1>4 DEF Kids

\* init waits: a zombie is a reader or writer that is done, and its sleeper is always there.
LEMMA WaitDelivery ==
    ASSUME Inv, KernelOK, Delivery, Wait
    PROVE  Delivery'
<1>1. /\ running = init /\ machine = "up" /\ pc[init] = "wait" /\ GoTo(init, "waited")
      /\ UNCHANGED i /\ Kernel!P!internal_wait(AnyChild) /\ UNCHANGED tables
  BY DEF Wait, At, Kernel!disastrOS_wait, Kernel!resourceVars, Kernel!queueVars,
         Kernel!pointerVars, tables, roles, links
<1>2. TypeOK /\ Structure /\ TiesOK /\ WaitsOK
  BY <1>1, Up
<1>3. pc'[init] = "waited" /\ \A x \in PCBs : x # init => pc'[x] = pc[x]
  BY <1>1, <1>2, OneGoes, Pids
<1>4. LoopsOK' /\ DeliveredOK'
  BY <1>1, InitQuiet
<1>5. /\ \A x \in Children : x \notin pcbs => pc[x] = "gone"
      /\ Cardinality(Present) = i[init] /\ pc[sleeper] = "getc" /\ sleeper \in pcbs
      /\ awaits[init] = NULL /\ children[init] \in Seq(PCBs)
      /\ awaits \in [PCBs -> PCBs \cup {AnyChild, NoPid, NULL}] /\ status \in [PCBs -> Statuses]
  BY <1>1, <1>2, Pids DEF WaitsOK, TiesOK, KernelOK
<1>6. children[init] # <<>>
  <2>1. sleeper \in Kids(init)
    BY <1>2, <1>5, Pids, ListedUnderInit
  <2> QED BY <2>1 DEF Kids
<1>7. \/ Kernel!P!WaitReaps(AnyChild)
      \/ Kernel!P!WaitBlocks(AnyChild)
      \/ Kernel!P!WaitCrashes(AnyChild)
  BY <1>1, <1>6 DEF Kernel!P!internal_wait, Kernel!P!WaitNoChildren
<1>8. CASE Kernel!P!WaitReaps(AnyChild)
  <2> DEFINE b == Kernel!P!Scanned(AnyChild)
  <2>1. /\ status[b] = "Zombie" /\ pcbs' = pcbs \ {b}
        /\ parent' = [parent EXCEPT ![b] = NULL]
        /\ syscall_retvalue' = [syscall_retvalue EXCEPT ![init] = b]
        /\ UNCHANGED <<machine, status, awaits>>
    BY <1>1, <1>8 DEF Kernel!P!WaitReaps, Kernel!P!Return
  <2>2. b \in Kids(init)
    BY <1>1, <1>5, <1>6, ScannedListed
  <2> HIDE DEF b
  <2>3. b \in pcbs /\ b \in PCBs /\ b \in Nat
    BY <1>2, <2>2, Pids DEF KernelOK, TypeOK
  <2>4. pc[b] = "gone" /\ b # sleeper /\ b # init
    BY <1>1, <1>2, <1>5, <2>1, <2>3 DEF TiesOK
  <2>5. b \in Present
    BY <2>3, <2>4, Pids DEF Present
  <2>6. TiesOK'
    <3>1. \A x \in pcbs' \ {init} : parent'[x] = init
      BY <1>2, <2>1 DEF TiesOK, TypeOK
    <3>2. \A x \in PCBs : status'[x] = "Zombie" => pc'[x] = "gone"
      BY <1>1, <1>2, <1>3, <2>1 DEF TiesOK
    <3> QED BY <1>3, <1>5, <2>1, <2>4, <3>1, <3>2, Pids DEF TiesOK
  <2>7. Cardinality(Present') = i[init] - 1
    <3>1. Present' = Present \ {b}
      BY <2>1 DEF Present
    <3>2. IsFiniteSet(Present)
      BY FiniteChildren, FS_Subset DEF Present
    <3> QED BY <1>5, <2>5, <3>1, <3>2, FS_RemoveElement
  <2>8. \A x \in Children : x \notin pcbs' => pc'[x] = "gone"
    BY <1>3, <1>5, <2>1, <2>4, Pids
  <2>9. syscall_retvalue'[init] >= 0 /\ awaits'[init] = NULL
    BY <1>2, <1>5, <2>1, <2>3, Pids DEF TypeOK
  <2>10. WaitsOK'
    BY <1>1, <1>3, <2>7, <2>8, <2>9 DEF WaitsOK
  <2> QED BY <1>1, <1>4, <2>1, <2>6, <2>10, StillOn
<1>9. CASE Kernel!P!WaitBlocks(AnyChild)
  <2>1. /\ status' = [status EXCEPT ![init] = "Waiting"]
        /\ awaits' = [awaits EXCEPT ![init] = AnyChild]
        /\ UNCHANGED <<pcbs, parent, syscall_retvalue>>
        /\ machine' \in {machine, "segv"}
    BY <1>1, <1>9 DEF Kernel!P!WaitBlocks, Kernel!P!Dispatch, Kernel!P!family
  <2>2. awaits'[init] = AnyChild /\ AnyChild # NULL
    BY <1>5, <2>1, Pids, ProgramAssumption
  <2>3. TiesOK'
    <3>1. \A x \in PCBs : status'[x] = "Zombie" => status[x] = "Zombie"
      BY <1>5, <2>1
    <3>2. \A x \in PCBs : status'[x] = "Zombie" => pc'[x] = "gone"
      BY <1>1, <1>2, <1>3, <3>1 DEF TiesOK
    <3> QED BY <1>2, <1>3, <1>5, <2>1, <2>2, <3>2, Pids DEF TiesOK
  <2>4. WaitsOK'
    <3>1. Present' = Present
      BY <2>1 DEF Present
    <3>2. \A x \in Children : x \notin pcbs' => pc'[x] = "gone"
      BY <1>3, <1>5, <2>1, Pids
    <3> QED BY <1>1, <1>3, <1>5, <2>2, <3>1, <3>2 DEF WaitsOK
  <2> QED BY <1>1, <1>4, <2>1, <2>3, <2>4, StillOn
<1>10. CASE Kernel!P!WaitCrashes(AnyChild)
  <2>1. machine' = "segv"
    BY <1>10 DEF Kernel!P!WaitCrashes, Kernel!P!Segv, Kernel!P!Stop
  <2> QED BY <2>1, StillOn
<1> QED BY <1>7, <1>8, <1>9, <1>10

\* A step of init that neither waits nor creates leaves the family alone.
LEMMA TiesRest ==
    ASSUME KernelOK, TiesOK, running = init, pc[init] \notin {"sleeper", "gone"},
           UNCHANGED <<pcbs, parent, awaits, status>>,
           \A x \in PCBs : x # init => pc'[x] = pc[x]
    PROVE  TiesOK'
<1>1. awaits'[init] = NULL
  BY Pids DEF KernelOK
<1>2. pc'[sleeper] = "getc" /\ sleeper \in pcbs'
  BY Pids DEF TiesOK
<1>3. \A x \in PCBs : status'[x] = "Zombie" => pc'[x] = "gone"
  BY Pids DEF TiesOK
<1> QED BY <1>1, <1>2, <1>3 DEF TiesOK

\* init looks at its result: it waits again, or all readers and writers are gone.
LEMMA WaitedDelivery ==
    ASSUME Inv, KernelOK, Delivery, Waited
    PROVE  Delivery'
<1>1. /\ running = init /\ machine = "up" /\ pc[init] = "waited" /\ UNCHANGED kernelVars
      /\ IF syscall_retvalue[init] >= 0 /\ i[init] > 1
           THEN i' = [i EXCEPT ![init] = @ - 1] /\ GoTo(init, "wait")
           ELSE i' = [i EXCEPT ![init] = 1] /\ GoTo(init, "destroy")
  BY DEF Waited, At
<1>2. TypeOK /\ TiesOK /\ WaitsOK
  BY <1>1, Up
<1>3. UNCHANGED <<machine, pcbs, parent, awaits, status, syscall_retvalue, tables>>
  BY <1>1 DEF kernelVars, tables, roles, links
<1>4. /\ Cardinality(Present) = i[init] - 1 /\ syscall_retvalue[init] >= 0
      /\ \A x \in Children : x \notin pcbs => pc[x] = "gone"
  BY <1>1, <1>2, Pids DEF WaitsOK, KernelOK
<1>5. i[init] \in Nat /\ \A x \in PCBs : x # init => i'[x] = i[x]
  BY <1>1, <1>2, Pids DEF TypeOK
<1>6. /\ \/ i[init] > 1 /\ i'[init] = i[init] - 1 /\ GoTo(init, "wait")
         \/ ~ (i[init] > 1) /\ GoTo(init, "destroy")
  BY <1>1, <1>2, <1>4, Pids DEF TypeOK
<1>7. \A x \in PCBs : x # init => pc'[x] = pc[x]
  BY <1>2, <1>6, OneGoes, Pids
<1>8. LoopsOK' /\ DeliveredOK'
  BY <1>1, <1>3, <1>5, <1>6, InitQuiet
<1>9. TiesOK'
  BY <1>1, <1>2, <1>3, <1>7, TiesRest
<1>10. WaitsOK'
  <2>1. Present' = Present /\ \A x \in Children : x \notin pcbs' => pc'[x] = "gone"
    BY <1>3, <1>4, <1>7, Pids DEF Present
  <2>2. CASE i[init] > 1 /\ i'[init] = i[init] - 1 /\ GoTo(init, "wait")
    <3>1. pc'[init] = "wait"
      BY <1>2, <2>2, OneGoes, Pids
    <3> QED BY <1>4, <2>1, <2>2, <3>1 DEF WaitsOK
  <2>3. CASE ~ (i[init] > 1) /\ GoTo(init, "destroy")
    <3>1. pc'[init] = "destroy"
      BY <1>2, <2>3, OneGoes, Pids
    <3>2. IsFiniteSet(Present)
      BY FiniteChildren, FS_Subset DEF Present
    <3>3. Cardinality(Present) \in Nat
      BY <3>2, FS_CardinalityType
    <3>4. Present = {}
      BY <1>4, <1>5, <2>3, <3>2, <3>3, FS_EmptySet
    <3> QED BY <2>1, <3>1, <3>4 DEF WaitsOK
  <2> QED BY <1>6, <2>2, <2>3
<1> QED BY <1>1, <1>3, <1>8, <1>9, <1>10, StillOn

\* The queues stay: init has them open itself.
LEMMA DestroyDelivery ==
    ASSUME Inv, KernelOK, Delivery, Destroy
    PROVE  Delivery'
<1>1. /\ running = init /\ machine = "up" /\ pc[init] = "destroy"
      /\ Kernel!disastrOS_destroyResource(resources[i[init]])
      /\ i' = [i EXCEPT ![init] = @ + 1]
      /\ \E l \in {"destroy", "shutdown"} : GoTo(init, l)
  BY DEF Destroy, At
<1>2. TypeOK /\ Structure /\ TiesOK /\ WaitsOK
  BY <1>1, Up
<1>3. UNCHANGED <<machine, pcbs, parent, tables, awaits, status>>
  <2>1. \A r \in resources_list : descriptors_ptrs[r] # {}
    BY <1>2 DEF Structure, ResourcesOK
  <2> QED BY <1>1, <2>1, DestroyCall, CallsKeep
<1>4. pc'[init] \in {"destroy", "shutdown"} /\ \A x \in PCBs : x # init => pc'[x] = pc[x]
  BY <1>1, <1>2, OneGoes, Pids
<1>5. LoopsOK' /\ DeliveredOK'
  <2>1. \A x \in PCBs : x # init => i'[x] = i[x]
    BY <1>1, <1>2 DEF TypeOK
  <2> QED BY <1>1, <1>3, <2>1, InitQuiet
<1>6. TiesOK'
  BY <1>1, <1>2, <1>3, <1>4, TiesRest
<1>7. WaitsOK'
  <2>1. Present' = {}
    BY <1>1, <1>2, <1>3 DEF WaitsOK, Present
  <2>2. \A x \in Children : x \notin pcbs' => pc'[x] = "gone"
    BY <1>1, <1>2, <1>3, <1>4, Pids DEF WaitsOK
  <2> QED BY <1>4, <2>1, <2>2 DEF WaitsOK
<1> QED BY <1>1, <1>3, <1>5, <1>6, <1>7, StillOn

\* A queue has a writer.
LEMMA Writer ==
    ASSUME NEW k \in 0 .. NumQueues - 1
    PROVE  2 * k + 2 \in writers /\ queue_of(2 * k + 2) = k
<1>1. k + 1 \in 1 .. NumQueues /\ 2 * k + 2 = 2 * (k + 1) /\ k \in Nat
  BY ProgramAssumption
<1>2. (2 * k + 2 - 2) \div 2 = k
  BY <1>1
<1> QED BY <1>1, <1>2 DEF writers, queue_of

\* At the shutdown all readers and writers are gone.
LEMMA ShutdownDelivery ==
    ASSUME Inv, Delivery, Shutdown
    PROVE  Delivery'
<1>1. /\ machine = "up" /\ pc[init] = "shutdown" /\ machine' = "off"
      /\ UNCHANGED <<i, resources_list, resource_id, msgs>>
  BY DEF Shutdown, At, Kernel!disastrOS_shutdown, Kernel!P!internal_shutdown, Kernel!P!Stop,
         Kernel!resourceVars, Kernel!queueVars
<1>2. TypeOK /\ Structure /\ WaitsOK /\ LoopsOK /\ DeliveredOK
  BY <1>1, Up
<1>3. \A x \in Children : pc[x] = "gone"
  BY <1>1, <1>2 DEF WaitsOK, Present
<1> SUFFICES ASSUME NEW q \in resources_list
             PROVE  LET written == i[2 * resource_id[q] + 2]
                    IN  written >= Iterations /\ Len(msgs[q]) \in {0, written}
  BY <1>1 DEF Delivery, AllOrNothing
<1> DEFINE w == 2 * resource_id[q] + 2
<1>4. w \in writers /\ queue_of(w) = resource_id[q]
  <2>1. resource_id[q] \in 0 .. NumQueues - 1
    BY <1>1, <1>2 DEF Structure, ResourcesOK, NumCreated
  <2> QED BY <2>1, Writer
<1> HIDE DEF w
<1>5. pc[w] = "gone" /\ pc[w + 1] = "gone"
  BY <1>3, <1>4, Mates DEF Children
<1>6. i[w] = Iterations /\ (Len(msgs[q]) = i[w] \/ msgs[q] = <<>>)
  BY <1>2, <1>4, <1>5 DEF LoopsOK, DeliveredOK, Closing
<1>7. i[w] >= Iterations /\ Len(msgs[q]) \in {0, i[w]}
  BY <1>6, ProgramAssumption
<1> QED BY <1>7 DEF w

\* Where no label, loop variable or table changes, nor the family, so it stays.
LEMMA RestDelivery ==
    ASSUME Inv, Delivery, machine = "up", machine' # "off",
           UNCHANGED <<pc, i, tables, pcbs, parent, awaits, syscall_retvalue>>,
           \A x \in PCBs : status'[x] = "Zombie" => status[x] = "Zombie"
    PROVE  Delivery'
<1>1. TypeOK /\ TiesOK /\ WaitsOK /\ LoopsOK /\ DeliveredOK
  BY Up
<1>2. TiesOK' /\ WaitsOK'
  BY <1>1, TiesKept
<1>3. LoopsOK' /\ DeliveredOK'
  <2>1. UNCHANGED <<msgs, stale_links, resources_list, resource_id, descriptors, desc,
                    writing_pid>>
    BY DEF tables, links, roles
  <2> QED BY <1>1, <2>1, Pids, QueuesKept
<1> QED BY <1>2, <1>3, StillOn

\* The timer makes nobody a zombie.
LEMMA TickDelivery ==
    ASSUME Inv, KernelOK, Delivery, timerInterrupt
    PROVE  Delivery'
<1>1. /\ machine = "up" /\ UNCHANGED <<pc, i, tables, pcbs, parent, syscall_retvalue>>
      /\ Kernel!P!timerInterrupt
  BY Tick DEF timerInterrupt, Kernel!timerInterrupt, Kernel!P!timerInterrupt
<1>2. CASE Kernel!P!Segv
  <2>1. machine' = "segv" /\ UNCHANGED <<awaits, status>>
    BY <1>2 DEF Kernel!P!Segv, Kernel!P!Stop
  <2> QED BY <1>1, <2>1, RestDelivery
<1>3. CASE Kernel!P!internal_schedule(Kernel!P!Ticked(timer_list))
  <2> DEFINE list == Kernel!P!Ticked(timer_list)
             woken == [k \in DOMAIN Kernel!P!Elapsed(list) |-> Kernel!P!Elapsed(list)[k].pcb]
             awake == [b \in PCBs |-> IF b \in Kernel!P!ToSet(woken) THEN "Ready" ELSE status[b]]
  <2>1. /\ UNCHANGED awaits
        /\ \/ UNCHANGED <<machine, status>>
           \/ /\ \E h : /\ status' = [awake EXCEPT ![running] = "Ready", ![h] = "Running"]
                        /\ Kernel!P!Dispatch(h)
    BY <1>3 DEF Kernel!P!internal_schedule
  <2>2. machine' \in {"up", "segv"}
    BY <1>1, <2>1 DEF Kernel!P!Dispatch
  <2>3. \A x \in PCBs : status'[x] = "Zombie" => status[x] = "Zombie"
    <3>1. \A x \in PCBs : awake[x] = "Zombie" => status[x] = "Zombie"
      OBVIOUS
    <3>2. DOMAIN awake = PCBs
      OBVIOUS
    <3> HIDE DEF awake
    <3> QED BY <2>1, <3>1, <3>2
  <2> QED BY <1>1, <2>1, <2>2, <2>3, RestDelivery
<1> QED BY <1>1, <1>2, <1>3 DEF Kernel!P!timerInterrupt

\* A step that changes nothing keeps it.
LEMMA StutterDelivery ==
    ASSUME Delivery, UNCHANGED vars
    PROVE  Delivery'
<1>1. AllOrNothing' = AllOrNothing
  BY DEF vars, kernelVars, AllOrNothing
<1>2. TiesOK' = TiesOK /\ WaitsOK' = WaitsOK
  BY DEF vars, kernelVars, TiesOK, WaitsOK, Present, NextPid
<1>3. LoopsOK' = LoopsOK /\ DeliveredOK' = DeliveredOK
  BY DEF vars, kernelVars, LoopsOK, DeliveredOK
<1>4. machine' = machine
  BY DEF vars, kernelVars
<1> QED BY <1>1, <1>2, <1>3, <1>4 DEF Delivery

\* The program starts without queues.
LEMMA InitDelivery == Init => Delivery
<1> SUFFICES ASSUME Init PROVE Delivery
  OBVIOUS
<1>1. Kernel!P!Init /\ Kernel!R!Init /\ Kernel!R!mq_init
  BY DEF Init, Kernel!Init, Kernel!R!Init
<1>2. /\ machine = "up" /\ pcbs = {init} /\ awaits = [b \in PCBs |-> NULL]
      /\ status = [b \in PCBs |-> IF b = init THEN "Running" ELSE "Created"]
      /\ stale_links = {} /\ resources_list = {} /\ descriptors = [p \in PCBs |-> {}]
  BY <1>1 DEF Kernel!P!Init, Kernel!R!Init, Kernel!R!mq_init
<1>3. /\ pc = [p \in PCBs |-> CASE p = init -> "sleeper" [] p = sleeper -> "getc"
                                [] OTHER -> "open"]
      /\ i = [p \in PCBs |-> 0]
  BY DEF Init
<1>4. pc[init] = "sleeper" /\ pc[sleeper] = "getc" /\ \A p \in Children : pc[p] = "open"
  <2>1. \A p \in PCBs : pc[p] = CASE p = init -> "sleeper" [] p = sleeper -> "getc"
                                  [] OTHER -> "open"
    BY <1>3
  <2>2. pc[init] = "sleeper"
    BY <2>1, Pids
  <2>3. \A p \in PCBs : p # init /\ p # sleeper => pc[p] = "open"
    BY <2>1
  <2>4. pc[sleeper] = "getc"
    BY <2>1, Pids
  <2> QED BY <2>2, <2>3, <2>4, Pids
<1>5. TiesOK
  BY <1>2, <1>4, Pids DEF TiesOK
<1>6. WaitsOK
  <2>1. NextPid = 2 /\ \A x \in Children : ~ (x < 2)
    BY <1>4, Roles DEF NextPid
  <2> QED BY <1>4, <2>1 DEF WaitsOK
<1>7. LoopsOK
  <2>1. \A x \in Children : descriptors[x] = {}
    BY <1>2, Pids
  <2>2. \A w \in writers : pc[w] = "open" /\ i[w] = 0
    BY <1>3, <1>4, Pids DEF Children
  <2>3. 0 <= Iterations
    BY ProgramAssumption
  <2> QED BY <1>2, <1>4, <2>1, <2>2, <2>3 DEF LoopsOK, Closing
<1>8. DeliveredOK
  BY <1>2 DEF DeliveredOK
<1> QED BY <1>2, <1>5, <1>6, <1>7, <1>8 DEF Delivery, AllOrNothing

\* Every step of the program keeps what the queues deliver.
LEMMA DeliveryStep ==
    ASSUME Inv, KernelOK, Delivery, [Next]_vars
    PROVE  Delivery'
<1>0. Inv'
  BY NextInv, StutterInv
<1>1. CASE initFunction
  BY <1>0, <1>1, SpawnDelivery, CreateDelivery, WaitDelivery, WaitedDelivery, DestroyDelivery,
     ShutdownDelivery DEF initFunction
<1>2. ASSUME NEW p \in Children, Common(p) PROVE Delivery'
  <2>1. CASE Close(p)
    <3>1. pc'[p] # "abort"
      BY <1>0, Pids DEF Inv, TypeOK, AssertsHold
    <3> QED BY <2>1, <3>1, CloseDelivery
  <2> QED BY <1>0, <1>2, <2>1, OpenDelivery, QuietDelivery, SleepDelivery, ExitDelivery DEF Common
<1>3. ASSUME NEW p \in PCBs, read_childFunction(p) PROVE Delivery'
  BY <1>2, <1>3, ReadDelivery DEF read_childFunction, Children
<1>4. ASSUME NEW p \in PCBs, write_childFunction(p) PROVE Delivery'
  BY <1>2, <1>4, WriteDelivery DEF write_childFunction, Children
<1>5. CASE timerInterrupt
  BY <1>5, TickDelivery
<1>6. CASE UNCHANGED vars
  BY <1>6, StutterDelivery
<1> QED BY <1>1, <1>3, <1>4, <1>5, <1>6 DEF Next
-----------------------------------------------------------------------------
\* The variables of the kernel are those of Kernel.tla.
LEMMA SameVars == UNCHANGED kernelVars => UNCHANGED Kernel!vars
BY DEF kernelVars, Kernel!vars, Kernel!sharedVars, Kernel!resourceVars, Kernel!processVars,
       Kernel!queueVars, Kernel!pointerVars

\* The program is one of the programs that Kernel.tla allows: whatever it calls is a call of
\* the kernel with arguments the kernel is checked and proved for.
LEMMA StepOfKernel ==
    ASSUME Inv, Next
    PROVE  Kernel!Next \/ UNCHANGED Kernel!vars
<1> USE DEF At
<1>0. machine = "up" => TypeOK /\ Structure
  BY DEF Inv
<1>1. /\ MESSAGE_QUEUE_TYPE \in Kernel!Types
      /\ NumQueues \in Nat \ {0}
      /\ \A p : role(p) \in {DSOS_CREATE, DSOS_READ, DSOS_WRITE}
  BY Codes, ProgramAssumption DEF Kernel!Types, Kernel!MAX_TYPE_RESOURCES, role
<1>2. ASSUME NEW p \in Children, machine = "up", pc[p] \in Holding PROVE fd[p] \in Kernel!R!Fds
  <2>1. PICK d \in descriptors[p] : desc[d].fd = fd[p]
    BY <1>0, <1>2 DEF Structure, ChildrenOK
  <2>2. desc[d].fd \in 0 .. last_fd[p] - 1 /\ last_fd[p] <= 1 /\ last_fd[p] \in Nat
    BY <1>0, <1>2, Pids DEF Structure, ChildrenOK, DescriptorsOK, TypeOK
  <2>3. fd[p] = 0
    BY <2>1, <2>2
  <2> QED BY <1>1, <2>3 DEF Kernel!R!Fds
<1>3. CASE Create
  <2>1. /\ machine = "up" /\ pc[init] = "create"
        /\ Kernel!disastrOS_openResource(i[init], MESSAGE_QUEUE_TYPE, DSOS_CREATE)
    BY <1>3 DEF Create, Opens
  <2>2. i[init] \in 0 .. NumQueues - 1
    BY <1>0, <2>1 DEF Structure, InitOK
  <2> QED BY <1>1, <2>1, <2>2 DEF Kernel!Next
<1>4. CASE Destroy
  <2>1. /\ machine = "up" /\ pc[init] = "destroy"
        /\ Kernel!disastrOS_destroyResource(resources[i[init]])
    BY <1>4 DEF Destroy
  <2>2. i[init] \in 1 .. NumQueues /\ NumCreated = NumQueues
    BY <1>0, <2>1 DEF Structure, InitOK, NumCreated
  <2>3. resources[i[init]] = i[init] - 1
    BY <1>0, <2>1, <2>2 DEF Structure, InitOK
  <2>4. resources[i[init]] \in 0 .. NumQueues - 1
    BY <1>1, <2>2, <2>3
  <2> QED BY <2>1, <2>4 DEF Kernel!Next
<1>5. CASE SpawnSleeper \/ SpawnChildren
  BY <1>5 DEF SpawnSleeper, SpawnChildren, Spawn, Kernel!Next
<1>6. CASE Wait
  BY <1>6 DEF Wait, Kernel!Next, Kernel!P!Pids
<1>7. CASE Waited
  BY <1>7, SameVars DEF Waited
<1>8. CASE Shutdown
  BY <1>8 DEF Shutdown, Kernel!Next
<1>9. CASE timerInterrupt
  BY <1>9 DEF timerInterrupt, Kernel!Next
<1>10. ASSUME NEW p \in Children, Open(p) PROVE Kernel!Next
  <2> DEFINE k == queue_of(p) + 1
  <2>1. /\ machine = "up" /\ running = p
        /\ Kernel!disastrOS_openResource(resources[k], MESSAGE_QUEUE_TYPE, role(p))
    BY <1>10 DEF Open, Opens
  <2>2. p \in pcbs
    BY <2>1, Calls DEF Kernel!R!internal_openResource, Kernel!R!Caller
  <2>3. NumCreated = NumQueues
    <3>1. ~ (p >= NextPid) /\ p \in 2 .. 2 * NumQueues + 1
      BY <1>0, <2>1, <2>2, Roles DEF Structure, ChildrenOK
    <3>2. pc[init] \notin {"sleeper", "create"}
      BY <1>1, <3>1 DEF NextPid
    <3> QED BY <3>2 DEF NumCreated
  <2>4. k \in 1 .. NumQueues /\ k - 1 \in 0 .. NumQueues - 1
    <3>1. queue_of(p) \in 0 .. NumQueues - 1
      BY Roles
    <3> QED BY <1>1, <3>1
  <2>5. resources[k] = k - 1
    BY <1>0, <2>1, <2>3, <2>4 DEF Structure, InitOK
  <2> HIDE DEF k
  <2> QED BY <1>1, <2>1, <2>4, <2>5 DEF Kernel!Next
<1>11. ASSUME NEW p \in Children, Close(p) PROVE Kernel!Next
  <2>1. /\ machine = "up" /\ pc[p] = "close"
        /\ Kernel!disastrOS_closeResource(fd[p], role(p))
    BY <1>11 DEF Close
  <2>2. fd[p] \in Kernel!R!Fds
    BY <1>2, <2>1 DEF Holding
  <2> QED BY <1>1, <2>1, <2>2 DEF Kernel!Next
<1>12. ASSUME NEW p \in Children, Exit(p) PROVE Kernel!Next
  BY <1>12, Pids DEF Exit, Kernel!Next
<1>13. ASSUME NEW p \in Children, Sleep(p) PROVE Kernel!Next
  BY <1>13 DEF Sleep, Kernel!Next, Children
<1>14. ASSUME NEW p \in Children, Load(p) \/ Store(p) PROVE UNCHANGED Kernel!vars
  BY <1>14, SameVars DEF Load, Store
<1>15. ASSUME NEW p \in readers, Read(p) PROVE Kernel!Next
  <2>1. machine = "up" /\ pc[p] = "read" /\ Kernel!disastrOS_mq_read(fd[p], 1)
    BY <1>15 DEF Read
  <2>2. fd[p] \in Kernel!R!Fds
    BY <1>2, <2>1 DEF Holding, Children
  <2> QED BY <2>1, <2>2 DEF Kernel!Next
<1>16. ASSUME NEW p \in writers, Write(p) PROVE Kernel!Next
  <2>1. machine = "up" /\ pc[p] = "write" /\ Kernel!disastrOS_mq_write(fd[p], Text(p))
    BY <1>16 DEF Write
  <2>2. fd[p] \in Kernel!R!Fds /\ Text(p) \in Texts
    BY <1>2, <2>1 DEF Holding, Children, Texts
  <2> QED BY <2>1, <2>2 DEF Kernel!Next
<1>17. ASSUME NEW p \in Children, Common(p) PROVE Kernel!Next \/ UNCHANGED Kernel!vars
  BY <1>10, <1>11, <1>12, <1>13, <1>14, <1>17 DEF Common
<1>18. ASSUME NEW p \in PCBs, read_childFunction(p) PROVE Kernel!Next \/ UNCHANGED Kernel!vars
  BY <1>15, <1>17, <1>18 DEF read_childFunction, Children
<1>19. ASSUME NEW p \in PCBs, write_childFunction(p) PROVE Kernel!Next \/ UNCHANGED Kernel!vars
  BY <1>16, <1>17, <1>19 DEF write_childFunction, Children
<1> QED BY <1>3, <1>4, <1>5, <1>6, <1>7, <1>8, <1>9, <1>18, <1>19 DEF Next, initFunction

\* The program runs on the kernel: what Kernel.tla allows every program is all it ever does.
THEOREM ProgramRunsKernel == Spec => Kernel!Spec
<1>1. Init => Kernel!Init
  BY DEF Init
<1>2. Inv /\ [Next]_vars => [Kernel!Next]_(Kernel!vars)
  <2>1. UNCHANGED vars => UNCHANGED Kernel!vars
    BY SameVars DEF vars
  <2> QED BY <2>1, StepOfKernel
<1> QED BY <1>1, <1>2, ProgramInvariant, PTL DEF Spec, Kernel!Spec

\* What the kernel assumes of its constants holds of those the program gives it.
LEMMA Constants ==
    /\ NumQueues \in Nat /\ 1 + 4 * NumQueues \in Nat
    /\ IsFiniteSet(PCBs) /\ init \in PCBs
    /\ NULL \notin PCBs \cup MqBlocks \cup {} \cup (0 .. NumQueues - 1)
    /\ {AnyChild, NoPid} \cap (PCBs \cup {NULL}) = {}
    /\ \A m \in Texts : m.length \in Int
    /\ {SleepTicks(p) : p \in writers \cup readers} \subseteq Int
<1>1. NumQueues \in Nat \ {0}
  BY ProgramAssumption
<1>2. NumQueues \in Nat /\ 1 + 4 * NumQueues \in Nat
  BY <1>1
<1>3. PCBs = 0 .. 2 * NumQueues + 1 /\ init \in PCBs
  BY Roles, Pids
<1>4. IsFiniteSet(PCBs)
  BY <1>1, <1>3, FS_Interval
<1>5. NULL \notin PCBs \cup MqBlocks \cup {} \cup (0 .. NumQueues - 1)
  BY <1>1, Pids, ProgramAssumption
<1>6. {AnyChild, NoPid} \cap (PCBs \cup {NULL}) = {}
  BY Pids, ProgramAssumption
<1>7. \A m \in Texts : m.length \in Int
  BY DEF Texts, Text
<1>8. {SleepTicks(p) : p \in writers \cup readers} \subseteq Int
  BY Pids, ProgramAssumption DEF SleepTicks, Children
<1> QED BY <1>2, <1>3, <1>4, <1>5, <1>6, <1>7, <1>8
-----------------------------------------------------------------------------
\* The theorems about the kernel, for the constants of the program.
KP == INSTANCE KernelProofs WITH
    InitPCB <- init,
    NumPCBPtrs <- 1 + 4 * NumQueues,
    StdBlocks <- {},
    ResourceIds <- 0 .. NumQueues - 1,
    Messages <- Texts,
    M_FOR_MQ <- Iterations,
    MESSAGE_STRING_MAX_LENGTH <- 1,
    BufferSizes <- {1},
    MaxFd <- NumQueues,
    SleepTimes <- {SleepTicks(p) : p \in writers \cup readers},
    CallModes <- {DSOS_CREATE, DSOS_READ, DSOS_WRITE},
    AwaitedPids <- {AnyChild},
    ExitValues <- {p + 1 : p \in PCBs}

\* The kernel the program runs on is the kernel they are about: the same formulas under other
\* names, which a proof has to expand.

\* What a step leaves alone,
LEMMA SameVariables == UNCHANGED Kernel!vars => UNCHANGED KP!vars
BY DEF Kernel!sharedVars, KP!sharedVars, Kernel!queueVars, KP!queueVars, Kernel!pointerVars,
       KP!pointerVars, Kernel!resourceVars, KP!resourceVars, Kernel!processVars,
       KP!processVars, Kernel!vars, KP!vars

\* a call on resources: open,
LEMMA SameOpens ==
    ASSUME NEW id, NEW type, NEW mode
    PROVE  Kernel!disastrOS_openResource(id, type, mode) =>
           KP!disastrOS_openResource(id, type, mode)
BY DEF Kernel!processVars, KP!processVars, Kernel!Listed, KP!Listed, Kernel!Caller,
       KP!Caller, Kernel!disastrOS_openResource, KP!disastrOS_openResource, Kernel!ToSet,
       KP!ToSet, Kernel!R!Blocks, KP!R!Blocks, Kernel!R!descVars, KP!R!descVars,
       Kernel!R!listVars, KP!R!listVars, Kernel!R!pcbVars, KP!R!pcbVars,
       Kernel!R!resource_type, KP!R!resource_type, Kernel!R!Named, KP!R!Named,
       Kernel!R!FreeResources, KP!R!FreeResources, Kernel!R!FreeDescriptors,
       KP!R!FreeDescriptors, Kernel!R!Return, KP!R!Return, Kernel!R!Refuse, KP!R!Refuse,
       Kernel!R!Segv, KP!R!Segv, Kernel!R!Caller, KP!R!Caller, Kernel!R!AttachDescriptor,
       KP!R!AttachDescriptor, Kernel!R!CreateExisting, KP!R!CreateExisting,
       Kernel!R!CreateCrashes, KP!R!CreateCrashes, Kernel!R!CreateResource,
       KP!R!CreateResource, Kernel!R!OpenMissing, KP!R!OpenMissing,
       Kernel!R!OpenNotExclusive, KP!R!OpenNotExclusive, Kernel!R!Openable, KP!R!Openable,
       Kernel!R!OpenRoleTaken, KP!R!OpenRoleTaken, Kernel!R!OpenCrashes, KP!R!OpenCrashes,
       Kernel!R!OpenResource, KP!R!OpenResource, Kernel!R!internal_openResource,
       KP!R!internal_openResource, Kernel!R!msgVars, KP!R!msgVars, Kernel!R!roleVars,
       KP!R!roleVars, Kernel!R!mqVars, KP!R!mqVars, Kernel!R!mq_alloc, KP!R!mq_alloc,
       Kernel!R!mq_mode_free, KP!R!mq_mode_free, Kernel!R!mq_set_mode_crashes,
       KP!R!mq_set_mode_crashes, Kernel!R!RolePtrs, KP!R!RolePtrs, Kernel!R!mq_set_mode,
       KP!R!mq_set_mode, Kernel!R!DSOS_ERESOURCECREATE, KP!R!DSOS_ERESOURCECREATE,
       Kernel!R!DSOS_ERESOURCEOPEN, KP!R!DSOS_ERESOURCEOPEN, Kernel!R!DSOS_ERESOURCENOEXCL,
       KP!R!DSOS_ERESOURCENOEXCL, Kernel!R!DSOS_ERESOURCENOFD, KP!R!DSOS_ERESOURCENOFD,
       Kernel!R!DSOS_CREATE, KP!R!DSOS_CREATE, Kernel!R!DSOS_READ, KP!R!DSOS_READ,
       Kernel!R!DSOS_WRITE, KP!R!DSOS_WRITE, Kernel!R!DSOS_EXCL, KP!R!DSOS_EXCL,
       Kernel!R!STANDARD_RESOURCE_TYPE, KP!R!STANDARD_RESOURCE_TYPE,
       Kernel!R!MESSAGE_QUEUE_TYPE, KP!R!MESSAGE_QUEUE_TYPE, Kernel!P!UserMode,
       KP!P!UserMode

\* close,
LEMMA SameCloses ==
    ASSUME NEW f, NEW mode
    PROVE  Kernel!disastrOS_closeResource(f, mode) => KP!disastrOS_closeResource(f, mode)
BY DEF Kernel!processVars, KP!processVars, Kernel!Listed, KP!Listed, Kernel!Caller,
       KP!Caller, Kernel!disastrOS_closeResource, KP!disastrOS_closeResource, Kernel!ToSet,
       KP!ToSet, Kernel!R!Blocks, KP!R!Blocks, Kernel!R!descVars, KP!R!descVars,
       Kernel!R!listVars, KP!R!listVars, Kernel!R!pcbVars, KP!R!pcbVars, Kernel!R!Held,
       KP!R!Held, Kernel!R!FreeDescriptor, KP!R!FreeDescriptor, Kernel!R!Return,
       KP!R!Return, Kernel!R!Refuse, KP!R!Refuse, Kernel!R!Caller, KP!R!Caller,
       Kernel!R!ReleaseDescriptors, KP!R!ReleaseDescriptors, Kernel!R!CloseUnknown,
       KP!R!CloseUnknown, Kernel!R!CloseResource, KP!R!CloseResource,
       Kernel!R!internal_closeResource, KP!R!internal_closeResource, Kernel!R!msgVars,
       KP!R!msgVars, Kernel!R!roleVars, KP!R!roleVars, Kernel!R!mqVars, KP!R!mqVars,
       Kernel!R!mq_delete_mode, KP!R!mq_delete_mode, Kernel!R!DSOS_ERESOURCECLOSE,
       KP!R!DSOS_ERESOURCECLOSE, Kernel!R!DSOS_READ, KP!R!DSOS_READ, Kernel!R!DSOS_WRITE,
       KP!R!DSOS_WRITE, Kernel!R!Cardinality, KP!R!Cardinality, Kernel!P!UserMode,
       KP!P!UserMode

\* destroy,
LEMMA SameDestroys ==
    ASSUME NEW id
    PROVE  Kernel!disastrOS_destroyResource(id) => KP!disastrOS_destroyResource(id)
BY DEF Kernel!processVars, KP!processVars, Kernel!Listed, KP!Listed, Kernel!Caller,
       KP!Caller, Kernel!disastrOS_destroyResource, KP!disastrOS_destroyResource,
       Kernel!ToSet, KP!ToSet, Kernel!R!descVars, KP!R!descVars, Kernel!R!listVars,
       KP!R!listVars, Kernel!R!pcbVars, KP!R!pcbVars, Kernel!R!Named, KP!R!Named,
       Kernel!R!Return, KP!R!Return, Kernel!R!Refuse, KP!R!Refuse, Kernel!R!Caller,
       KP!R!Caller, Kernel!R!DestroyMissing, KP!R!DestroyMissing, Kernel!R!InUse,
       KP!R!InUse, Kernel!R!DestroyInUse, KP!R!DestroyInUse, Kernel!R!DestroyResource,
       KP!R!DestroyResource, Kernel!R!internal_destroyResource,
       KP!R!internal_destroyResource, Kernel!R!msgVars, KP!R!msgVars, Kernel!R!roleVars,
       KP!R!roleVars, Kernel!R!mqVars, KP!R!mqVars, Kernel!R!mq_free, KP!R!mq_free,
       Kernel!R!DSOS_ERESOURCECLOSE, KP!R!DSOS_ERESOURCECLOSE, Kernel!R!DSOS_ERESOURCEINUSE,
       KP!R!DSOS_ERESOURCEINUSE, Kernel!R!Range, KP!R!Range, Kernel!P!UserMode,
       KP!P!UserMode

\* write
LEMMA SameWrites ==
    ASSUME NEW f, NEW m
    PROVE  Kernel!disastrOS_mq_write(f, m) => KP!disastrOS_mq_write(f, m)
BY DEF Kernel!processVars, KP!processVars, Kernel!Listed, KP!Listed, Kernel!Caller,
       KP!Caller, Kernel!disastrOS_mq_write, KP!disastrOS_mq_write, Kernel!ToSet, KP!ToSet,
       Kernel!R!descVars, KP!R!descVars, Kernel!R!listVars, KP!R!listVars, Kernel!R!pcbVars,
       KP!R!pcbVars, Kernel!R!Held, KP!R!Held, Kernel!R!Return, KP!R!Return,
       Kernel!R!Refuse, KP!R!Refuse, Kernel!R!Segv, KP!R!Segv, Kernel!R!Caller, KP!R!Caller,
       Kernel!R!ValidLength, KP!R!ValidLength, Kernel!R!HeldQueue, KP!R!HeldQueue,
       Kernel!R!BadDescriptor, KP!R!BadDescriptor, Kernel!R!WriteInvalid, KP!R!WriteInvalid,
       Kernel!R!WriteFull, KP!R!WriteFull, Kernel!R!WriteCrashes, KP!R!WriteCrashes,
       Kernel!R!WriteMessage, KP!R!WriteMessage, Kernel!R!internal_message_queue_write,
       KP!R!internal_message_queue_write, Kernel!R!msgVars, KP!R!msgVars, Kernel!R!roleVars,
       KP!R!roleVars, Kernel!R!mqVars, KP!R!mqVars, Kernel!R!m_alloc, KP!R!m_alloc,
       Kernel!R!Inserted, KP!R!Inserted, Kernel!R!AppendMessage, KP!R!AppendMessage,
       Kernel!R!DSOS_ERESOURCETYPEWRONG, KP!R!DSOS_ERESOURCETYPEWRONG,
       Kernel!R!DSOS_MESSAGELENGTHNOTVALID, KP!R!DSOS_MESSAGELENGTHNOTVALID,
       Kernel!R!DSOS_MESSAGEQUEUEFULL, KP!R!DSOS_MESSAGEQUEUEFULL,
       Kernel!R!DSOS_RESOURCENOTFOUND, KP!R!DSOS_RESOURCENOTFOUND, Kernel!P!UserMode,
       KP!P!UserMode

\* and read;
LEMMA SameReads ==
    ASSUME NEW f, NEW length
    PROVE  Kernel!disastrOS_mq_read(f, length) => KP!disastrOS_mq_read(f, length)
BY DEF Kernel!processVars, KP!processVars, Kernel!Listed, KP!Listed, Kernel!Caller,
       KP!Caller, Kernel!disastrOS_mq_read, KP!disastrOS_mq_read, Kernel!ToSet, KP!ToSet,
       Kernel!R!descVars, KP!R!descVars, Kernel!R!listVars, KP!R!listVars, Kernel!R!pcbVars,
       KP!R!pcbVars, Kernel!R!Held, KP!R!Held, Kernel!R!Return, KP!R!Return,
       Kernel!R!Refuse, KP!R!Refuse, Kernel!R!Caller, KP!R!Caller, Kernel!R!HeldQueue,
       KP!R!HeldQueue, Kernel!R!BadDescriptor, KP!R!BadDescriptor, Kernel!R!ReadEmpty,
       KP!R!ReadEmpty, Kernel!R!ReadTooLong, KP!R!ReadTooLong, Kernel!R!ReadMessage,
       KP!R!ReadMessage, Kernel!R!internal_message_queue_read,
       KP!R!internal_message_queue_read, Kernel!R!msgVars, KP!R!msgVars, Kernel!R!roleVars,
       KP!R!roleVars, Kernel!R!mqVars, KP!R!mqVars, Kernel!R!DetachFirst, KP!R!DetachFirst,
       Kernel!R!DSOS_ERESOURCETYPEWRONG, KP!R!DSOS_ERESOURCETYPEWRONG,
       Kernel!R!DSOS_MESSAGELENGTHNOTVALID, KP!R!DSOS_MESSAGELENGTHNOTVALID,
       Kernel!R!DSOS_MESSAGEQUEUEEMPTY, KP!R!DSOS_MESSAGEQUEUEEMPTY,
       Kernel!R!DSOS_RESOURCENOTFOUND, KP!R!DSOS_RESOURCENOTFOUND,
       Kernel!R!DSOS_WAITINGFORMESSAGE, KP!R!DSOS_WAITINGFORMESSAGE, Kernel!P!UserMode,
       KP!P!UserMode

\* a call on processes: spawn,
LEMMA SameSpawns == Kernel!disastrOS_spawn => KP!disastrOS_spawn
BY DEF Kernel!queueVars, KP!queueVars, Kernel!pointerVars, KP!pointerVars,
       Kernel!ResetNewPCB, KP!ResetNewPCB, Kernel!disastrOS_spawn, KP!disastrOS_spawn,
       Kernel!R!PCB_reset, KP!R!PCB_reset, Kernel!P!lists, KP!P!lists, Kernel!P!family,
       KP!P!family, Kernel!P!Stop, KP!P!Stop, Kernel!P!Segv, KP!P!Segv, Kernel!P!UserMode,
       KP!P!UserMode, Kernel!P!Return, KP!P!Return, Kernel!P!FreeBlocks, KP!P!FreeBlocks,
       Kernel!P!NoRoom, KP!P!NoRoom, Kernel!P!NewChild, KP!P!NewChild,
       Kernel!P!internal_spawn, KP!P!internal_spawn

\* fork,
LEMMA SameForks == Kernel!disastrOS_fork => KP!disastrOS_fork
BY DEF Kernel!queueVars, KP!queueVars, Kernel!pointerVars, KP!pointerVars,
       Kernel!ResetNewPCB, KP!ResetNewPCB, Kernel!disastrOS_fork, KP!disastrOS_fork,
       Kernel!R!PCB_reset, KP!R!PCB_reset, Kernel!P!lists, KP!P!lists, Kernel!P!family,
       KP!P!family, Kernel!P!Stop, KP!P!Stop, Kernel!P!Segv, KP!P!Segv, Kernel!P!UserMode,
       KP!P!UserMode, Kernel!P!Return, KP!P!Return, Kernel!P!FreeBlocks, KP!P!FreeBlocks,
       Kernel!P!NoRoom, KP!P!NoRoom, Kernel!P!NewChild, KP!P!NewChild,
       Kernel!P!internal_fork, KP!P!internal_fork

\* a second start,
LEMMA SameStartsAgain == Kernel!disastrOS_start_again => KP!disastrOS_start_again
BY DEF Kernel!queueVars, KP!queueVars, Kernel!pointerVars, KP!pointerVars,
       Kernel!ResetNewPCB, KP!ResetNewPCB, Kernel!disastrOS_start_again,
       KP!disastrOS_start_again, Kernel!R!PCB_reset, KP!R!PCB_reset, Kernel!P!lists,
       KP!P!lists, Kernel!P!family, KP!P!family, Kernel!P!Stop, KP!P!Stop, Kernel!P!Segv,
       KP!P!Segv, Kernel!P!FreeBlocks, KP!P!FreeBlocks, Kernel!P!disastrOS_start_again,
       KP!P!disastrOS_start_again

\* exit,
LEMMA SameExits ==
    ASSUME NEW value
    PROVE  Kernel!disastrOS_exit(value) => KP!disastrOS_exit(value)
BY DEF Kernel!queueVars, KP!queueVars, Kernel!pointerVars, KP!pointerVars,
       Kernel!ReleaseAtDeath, KP!ReleaseAtDeath, Kernel!disastrOS_exit, KP!disastrOS_exit,
       Kernel!R!Blocks, KP!R!Blocks, Kernel!R!FreeDescriptor, KP!R!FreeDescriptor,
       Kernel!R!ReleaseDescriptors, KP!R!ReleaseDescriptors, Kernel!R!Cardinality,
       KP!R!Cardinality, Kernel!P!lists, KP!P!lists, Kernel!P!family, KP!P!family,
       Kernel!P!Stop, KP!P!Stop, Kernel!P!Segv, KP!P!Segv, Kernel!P!UserMode, KP!P!UserMode,
       Kernel!P!Dispatch, KP!P!Dispatch, Kernel!P!AfterReparenting, KP!P!AfterReparenting,
       Kernel!P!ExitSignals, KP!P!ExitSignals, Kernel!P!ParentAwaits, KP!P!ParentAwaits,
       Kernel!P!ExitHangs, KP!P!ExitHangs, Kernel!P!ExitCrashes, KP!P!ExitCrashes,
       Kernel!P!Unlisted, KP!P!Unlisted, Kernel!P!ExitWakesParent, KP!P!ExitWakesParent,
       Kernel!P!ExitToZombie, KP!P!ExitToZombie, Kernel!P!internal_exit, KP!P!internal_exit,
       Kernel!P!WithoutTimersOf, KP!P!WithoutTimersOf, Kernel!P!ToSet, KP!P!ToSet,
       Kernel!P!RemoveFirst, KP!P!RemoveFirst, Kernel!P!RemoveAt, KP!P!RemoveAt,
       Kernel!P!SelectInSeq, KP!P!SelectInSeq, Kernel!P!Min, KP!P!Min

\* wait: the child it chooses,
LEMMA SameScan ==
    ASSUME NEW pid
    PROVE  KP!P!Scanned(pid) = Kernel!P!Scanned(pid)
BY DEF Kernel!P!Scanned, KP!P!Scanned, Kernel!P!Last, KP!P!Last, Kernel!P!SelectInSeq,
       KP!P!SelectInSeq, Kernel!P!Min, KP!P!Min

\* the children that are left without it,
LEMMA SameUnlisted ==
    ASSUME NEW lists, NEW p, NEW b
    PROVE  KP!P!Unlisted(lists, p, b) = Kernel!P!Unlisted(lists, p, b)
BY DEF Kernel!P!Unlisted, KP!P!Unlisted, Kernel!P!RemoveFirst, KP!P!RemoveFirst,
       Kernel!P!RemoveAt, KP!P!RemoveAt, Kernel!P!SelectInSeq, KP!P!SelectInSeq,
       Kernel!P!Min, KP!P!Min

\* and the call,
LEMMA SameWaits ==
    ASSUME NEW pid
    PROVE  Kernel!disastrOS_wait(pid) => KP!disastrOS_wait(pid)
<1>1. Kernel!P!WaitReaps(pid) => KP!P!WaitReaps(pid)
  BY SameScan, SameUnlisted
     DEF Kernel!P!Return, KP!P!Return, Kernel!P!WaitReaps, KP!P!WaitReaps
<1>2. /\ Kernel!P!WaitNoChildren => KP!P!WaitNoChildren
      /\ Kernel!P!WaitBlocks(pid) => KP!P!WaitBlocks(pid)
      /\ Kernel!P!WaitCrashes(pid) => KP!P!WaitCrashes(pid)
  BY SameScan
     DEF Kernel!P!lists, KP!P!lists, Kernel!P!family, KP!P!family, Kernel!P!Stop,
         KP!P!Stop, Kernel!P!Segv, KP!P!Segv, Kernel!P!Return, KP!P!Return,
         Kernel!P!Dispatch, KP!P!Dispatch, Kernel!P!WaitNoChildren, KP!P!WaitNoChildren,
         Kernel!P!WaitBlocks, KP!P!WaitBlocks, Kernel!P!WaitCrashes, KP!P!WaitCrashes,
         Kernel!P!DSOS_EWAIT, KP!P!DSOS_EWAIT, Kernel!P!SelectInSeq, KP!P!SelectInSeq,
         Kernel!P!Min, KP!P!Min
<1> QED BY <1>1, <1>2
        DEF Kernel!disastrOS_wait, KP!disastrOS_wait, Kernel!P!internal_wait,
            KP!P!internal_wait, Kernel!P!UserMode, KP!P!UserMode, Kernel!resourceVars,
            KP!resourceVars, Kernel!queueVars, KP!queueVars, Kernel!pointerVars,
            KP!pointerVars

\* sleep,
LEMMA SameSleeps ==
    ASSUME NEW ticks
    PROVE  Kernel!disastrOS_sleep(ticks) => KP!disastrOS_sleep(ticks)
BY DEF Kernel!queueVars, KP!queueVars, Kernel!pointerVars, KP!pointerVars,
       Kernel!resourceVars, KP!resourceVars, Kernel!disastrOS_sleep, KP!disastrOS_sleep,
       Kernel!P!lists, KP!P!lists, Kernel!P!family, KP!P!family, Kernel!P!UserMode,
       KP!P!UserMode, Kernel!P!Return, KP!P!Return, Kernel!P!Dispatch, KP!P!Dispatch,
       Kernel!P!internal_sleep, KP!P!internal_sleep, Kernel!P!TimerList_position,
       KP!P!TimerList_position, Kernel!P!TimerList_add, KP!P!TimerList_add,
       Kernel!P!DSOS_ESLEEP, KP!P!DSOS_ESLEEP, Kernel!P!SelectInSeq, KP!P!SelectInSeq,
       Kernel!P!Min, KP!P!Min, Kernel!P!InsertAt, KP!P!InsertAt, Kernel!P!Cardinality,
       KP!P!Cardinality

\* preempt
LEMMA SamePreempts == Kernel!disastrOS_preempt => KP!disastrOS_preempt
BY DEF Kernel!queueVars, KP!queueVars, Kernel!pointerVars, KP!pointerVars,
       Kernel!resourceVars, KP!resourceVars, Kernel!disastrOS_preempt, KP!disastrOS_preempt,
       Kernel!P!family, KP!P!family, Kernel!P!UserMode, KP!P!UserMode, Kernel!P!Dispatch,
       KP!P!Dispatch, Kernel!P!Requeued, KP!P!Requeued, Kernel!P!internal_schedule,
       KP!P!internal_schedule, Kernel!P!internal_preempt, KP!P!internal_preempt,
       Kernel!P!NumElapsed, KP!P!NumElapsed, Kernel!P!Elapsed, KP!P!Elapsed,
       Kernel!P!Remaining, KP!P!Remaining, Kernel!P!ToSet, KP!P!ToSet, Kernel!P!SelectInSeq,
       KP!P!SelectInSeq, Kernel!P!Min, KP!P!Min

\* and shutdown;
LEMMA SameShutdowns == Kernel!disastrOS_shutdown => KP!disastrOS_shutdown
BY DEF Kernel!queueVars, KP!queueVars, Kernel!pointerVars, KP!pointerVars,
       Kernel!resourceVars, KP!resourceVars, Kernel!disastrOS_shutdown,
       KP!disastrOS_shutdown, Kernel!P!lists, KP!P!lists, Kernel!P!family, KP!P!family,
       Kernel!P!Stop, KP!P!Stop, Kernel!P!UserMode, KP!P!UserMode,
       Kernel!P!internal_shutdown, KP!P!internal_shutdown

\* the timer interrupt,
LEMMA SameInterrupts == Kernel!timerInterrupt => KP!timerInterrupt
BY DEF Kernel!queueVars, KP!queueVars, Kernel!pointerVars, KP!pointerVars,
       Kernel!resourceVars, KP!resourceVars, Kernel!timerInterrupt, KP!timerInterrupt,
       Kernel!P!lists, KP!P!lists, Kernel!P!family, KP!P!family, Kernel!P!Stop, KP!P!Stop,
       Kernel!P!Segv, KP!P!Segv, Kernel!P!Dispatch, KP!P!Dispatch, Kernel!P!Requeued,
       KP!P!Requeued, Kernel!P!internal_schedule, KP!P!internal_schedule,
       Kernel!P!timerInterrupt, KP!P!timerInterrupt, Kernel!P!Ticked, KP!P!Ticked,
       Kernel!P!NumElapsed, KP!P!NumElapsed, Kernel!P!Elapsed, KP!P!Elapsed,
       Kernel!P!Remaining, KP!P!Remaining, Kernel!P!ToSet, KP!P!ToSet, Kernel!P!SelectInSeq,
       KP!P!SelectInSeq, Kernel!P!Min, KP!P!Min

\* and the start.
LEMMA SameStarts == Kernel!Init => KP!Init
BY DEF Kernel!Listed, KP!Listed, Kernel!Init, KP!Init, Kernel!ToSet, KP!ToSet,
       Kernel!R!Blocks, KP!R!Blocks, Kernel!R!FreeDescriptor, KP!R!FreeDescriptor,
       Kernel!R!Init, KP!R!Init, Kernel!R!mq_init, KP!R!mq_init, Kernel!R!Cardinality,
       KP!R!Cardinality, Kernel!P!Init, KP!P!Init

\* So are the next-state relations.
LEMMA SameKernel ==
    /\ Kernel!Init => KP!Init
    /\ Kernel!Next => KP!Next
    /\ UNCHANGED Kernel!vars => UNCHANGED KP!vars
<1>1. /\ KP!Types = Kernel!Types /\ KP!R!Fds = Kernel!R!Fds /\ KP!P!Pids = Kernel!P!Pids
  BY DEF Kernel!Types, KP!Types, Kernel!MAX_TYPE_RESOURCES, KP!MAX_TYPE_RESOURCES,
         Kernel!R!Fds, KP!R!Fds, Kernel!P!Pids, KP!P!Pids
<1>2. Kernel!Next => KP!Next
  BY <1>1, SameOpens, SameCloses, SameDestroys, SameWrites, SameReads, SameSpawns, SameForks,
     SameStartsAgain, SameExits, SameWaits, SameSleeps, SamePreempts, SameShutdowns,
     SameInterrupts
     DEF Kernel!Next, KP!Next
<1> QED BY <1>2, SameVariables, SameStarts

\* The constants of the program are constants of the kernel.
LEMMA KernelConstants == KP!KernelAssumption
<1>1. KP!IsFiniteSet(PCBs) /\ KP!IsFiniteSet(Descriptors)
  BY Constants, ProgramAssumption DEF IsFiniteSet, KP!IsFiniteSet
<1>2. {DSOS_CREATE, DSOS_READ, DSOS_WRITE} \subseteq KP!Modes
  BY DEF KP!Modes, KP!DSOS_CREATE, KP!DSOS_READ, KP!DSOS_WRITE, KP!DSOS_EXCL,
         DSOS_CREATE, DSOS_READ, DSOS_WRITE
<1> QED BY <1>1, <1>2, Constants, ProgramAssumption DEF KP!KernelAssumption

\* What the delivery of the messages needs of the kernel is part of its invariant.
LEMMA KernelFacts == KP!KInv => KernelOK
<1> SUFFICES ASSUME KP!KInv PROVE KernelOK
  OBVIOUS
<1>1. /\ KP!PP!TypeOK /\ KP!PP!PlacesOK /\ KP!PP!TimersOK /\ KP!PP!FamilyOK
      /\ KP!RP!DescTypeOK /\ KP!RP!MsgTypeOK /\ KP!RP!MessageBlocksOwned /\ KP!LengthsOK
  BY DEF KP!KInv, KP!PP!IInv, KP!ResourcesInv, KP!RP!DescInv, KP!RP!MsgInv
<1>2. /\ status \in [PCBs -> Statuses]
      /\ awaits \in [PCBs -> PCBs \cup {AnyChild, NoPid, NULL}]
      /\ children \in [PCBs -> Seq(PCBs)]
      /\ running # NULL => running \in PCBs
  BY <1>1 DEF KP!PP!TypeOK, KP!PP!Statuses, Statuses
<1>3. running # NULL => awaits[running] = NULL
  BY <1>1, <1>2 DEF KP!PP!TimersOK, KP!PP!PlacesOK
<1>4. \A r \in PCBs : KP!PP!Kids(r) = Kids(r)
  BY DEF KP!PP!Kids, KP!PP!ToSet, Kids
<1>5. /\ \A r \in PCBs : \A c \in Kids(r) :
            r \in pcbs /\ c \in pcbs /\ (parent[c] = r \/ parent[r] = NULL)
      /\ \A b \in pcbs : parent[b] # NULL => \E r \in PCBs : b \in Kids(r)
  BY <1>1, <1>4 DEF KP!PP!FamilyOK
<1>6. \A q \in resources_list :
         msgs[q] # <<>> => message[Head(msgs[q])].length \in 0 .. 1
  <2> SUFFICES ASSUME NEW q \in resources_list, msgs[q] # <<>>
               PROVE  message[Head(msgs[q])].length \in 0 .. 1
    OBVIOUS
  <2>1. q \in MqBlocks /\ q \in KP!RP!LiveQueues
    BY <1>1 DEF KP!RP!DescTypeOK, KP!RP!Blocks, KP!RP!LiveQueues
  <2>2. msgs[q] \in Seq(MsgBlocks)
    BY <1>1, <2>1 DEF KP!RP!MsgTypeOK
  <2>3. 1 \in 1 .. Len(msgs[q]) /\ Head(msgs[q]) = msgs[q][1] /\ msgs[q][1] \in MsgBlocks
    BY <2>2
  <2>4. message[msgs[q][1]] # NULL
    BY <1>1, <2>1, <2>3 DEF KP!RP!MessageBlocksOwned
  <2> QED BY <1>1, <2>3, <2>4 DEF KP!LengthsOK
<1> QED BY <1>2, <1>3, <1>5, <1>6 DEF KernelOK

\* The kernel keeps its invariant while the program runs on it.
LEMMA KernelInvariant == Spec => []KP!KInv
<1>1. Kernel!Init => KP!KInv
  BY SameKernel, KP!KInvInit, KernelConstants
<1>2. KP!KInv /\ [Kernel!Next]_(Kernel!vars) => KP!KInv'
  BY SameKernel, KP!KInvStep, KernelConstants
<1> QED BY <1>1, <1>2, ProgramRunsKernel, PTL DEF Kernel!Spec

\* So the delivery of the messages is an invariant as well.
LEMMA DeliveryInvariant == Spec => []Delivery
<1>1. Init => Delivery
  BY InitDelivery
<1>2. Inv /\ KernelOK /\ Delivery /\ [Next]_vars => Delivery'
  BY DeliveryStep
<1> QED BY <1>1, <1>2, KernelFacts, KernelInvariant, ProgramInvariant, PTL DEF Spec

\* When the program shuts the machine down, each writer has written all its messages, and
\* its reader has read all of them or, having come before the writer, none: a queue is never
\* left with a part of its messages (disastrOS_test_mq.c), wherever the timer interrupts.
THEOREM ProgramAllOrNothing == Spec => []AllOrNothing
<1>1. Delivery => AllOrNothing
  BY DEF Delivery
<1> QED BY <1>1, DeliveryInvariant, PTL
-----------------------------------------------------------------------------
\* Who holds a queue.

\* Where a queue keeps the role of p, and what is there: p between its open and its close.
RoleTable(p) == IF p \in readers THEN reading_pid ELSE writing_pid
FollowsOK ==
    \A p \in Children, r \in resources_list : resource_id[r] = queue_of(p) =>
        RoleTable(p)[r] = IF HasOpen(p) THEN p ELSE NULL
Follows == machine = "up" => FollowsOK

\* A step that opens and closes nothing keeps it.
LEMMA FollowsKept ==
    ASSUME FollowsOK, UNCHANGED <<roles, resources_list, resource_id>>,
           \A x \in Children : HasOpen(x)' <=> HasOpen(x)
    PROVE  FollowsOK'
<1>1. \A x \in Children : RoleTable(x)' = RoleTable(x)
  BY DEF RoleTable, roles
<1> QED BY <1>1 DEF FollowsOK

\* The label of one process decides whether it has its queue open.
LEMMA OpenByLabel ==
    ASSUME NEW p \in Children, \A x \in PCBs : x # p => pc'[x] = pc[x]
    PROVE  \A x \in Children : x # p => (HasOpen(x)' <=> HasOpen(x))
BY Pids DEF HasOpen

\* Two children of one queue are of different kinds.
LEMMA OneOfAKind ==
    ASSUME NEW p \in Children, NEW x \in Children, x # p, queue_of(x) = queue_of(p)
    PROVE  x \in readers <=> p \notin readers
BY Roles DEF Children

\* The open of a child gives it its role.
LEMMA OpenFollows ==
    ASSUME Inv, Inv', FollowsOK, NEW p \in Children, Open(p), machine' = "up"
    PROVE  FollowsOK'
<1>1. /\ machine = "up" /\ p \in PCBs
      /\ \E l \in {"read", "write", "abort"} : GoTo(p, l)
  BY Pids DEF Open, At, Asserted
<1>2. TypeOK /\ Structure
  BY <1>1 DEF Inv
<1>3. pc'[p] \in {"read", "write"} /\ \A x \in PCBs : x # p => pc'[x] = pc[x]
  <2>1. pc'[p] \in {"read", "write", "abort"} /\ \A x \in PCBs : x # p => pc'[x] = pc[x]
    BY <1>1, <1>2, OneGoes
  <2>2. pc'[p] # "abort"
    BY <1>1 DEF Inv, TypeOK, AssertsHold
  <2> QED BY <2>1, <2>2
<1>4. PICK r \in resources_list : resource_id[r] = queue_of(p) /\ Opened(p, r)
  BY OpenDoes
<1>5. /\ UNCHANGED <<resources_list, resource_id>>
      /\ reading_pid' = IF p \in readers THEN [reading_pid EXCEPT ![r] = p] ELSE reading_pid
      /\ writing_pid' = IF p \notin readers THEN [writing_pid EXCEPT ![r] = p] ELSE writing_pid
  <2>1. (role(p) = DSOS_READ <=> p \in readers) /\ (role(p) = DSOS_WRITE <=> p \notin readers)
    BY Codes DEF role
  <2> QED BY <1>4, <2>1 DEF Opened
<1>6. HasOpen(p)' /\ \A x \in Children : x # p => (HasOpen(x)' <=> HasOpen(x))
  BY <1>3, OpenByLabel DEF HasOpen
<1>7. ASSUME NEW x \in Children, NEW q \in resources_list, resource_id[q] = queue_of(x)
      PROVE  RoleTable(x)'[q] = IF HasOpen(x)' THEN x ELSE NULL
  <2>1. q \in MqBlocks /\ r \in MqBlocks
    BY <1>2 DEF TypeOK
  <2>2. CASE x = p
    <3>1. q = r
      BY <1>2, <1>4, <1>7, <2>2 DEF Structure, ResourcesOK
    <3> QED BY <1>2, <1>5, <1>6, <2>1, <2>2, <3>1 DEF RoleTable, TypeOK
  <2>3. CASE x # p
    <3>1. RoleTable(x)[q] = IF HasOpen(x) THEN x ELSE NULL
      BY <1>7 DEF FollowsOK
    <3>2. q = r => (x \in readers <=> p \notin readers)
      BY <1>4, <1>7, <2>3, OneOfAKind
    <3>3. RoleTable(x)'[q] = RoleTable(x)[q]
      BY <1>2, <1>5, <2>1, <3>2 DEF RoleTable, TypeOK
    <3> QED BY <1>6, <2>3, <3>1, <3>3
  <2> QED BY <2>2, <2>3
<1> QED BY <1>5, <1>7 DEF FollowsOK

\* The close of a child takes its role, and no other: the descriptor is of its own queue.
LEMMA CloseFollows ==
    ASSUME Inv, Inv', Delivery, FollowsOK, NEW p \in Children, Close(p)
    PROVE  FollowsOK'
<1>1. /\ machine = "up" /\ running = p /\ pc[p] = "close" /\ p \in PCBs
      /\ \E l \in {"exit", "abort"} : GoTo(p, l)
      /\ Kernel!disastrOS_closeResource(fd[p], role(p))
  BY Pids DEF Close, At, Asserted
<1>2. TypeOK /\ Structure /\ LoopsOK
  BY <1>1, Up
<1>3. pc'[p] \in {"exit", "abort"} /\ \A x \in PCBs : x # p => pc'[x] = pc[x]
  BY <1>1, <1>2, OneGoes
<1>4. /\ \E d \in descriptors[p] : desc[d].fd = fd[p]
      /\ \A d \in descriptors[p] : desc[d].resource \in MqBlocks
  BY <1>1, <1>2, Holds DEF Holding
<1>5. /\ UNCHANGED <<resources_list, resource_id>>
      /\ \E d \in descriptors[p] :
           /\ Released(p, {d})
           /\ reading_pid' = IF role(p) = DSOS_READ
                               THEN [reading_pid EXCEPT ![desc[d].resource] = NULL]
                               ELSE reading_pid
           /\ writing_pid' = IF role(p) = DSOS_WRITE
                               THEN [writing_pid EXCEPT ![desc[d].resource] = NULL]
                               ELSE writing_pid
  BY <1>1, <1>4, CloseCall
<1>6. PICK r \in resources_list :
         /\ resource_id[r] = queue_of(p)
         /\ reading_pid' = IF p \in readers THEN [reading_pid EXCEPT ![r] = NULL]
                                            ELSE reading_pid
         /\ writing_pid' = IF p \notin readers THEN [writing_pid EXCEPT ![r] = NULL]
                                               ELSE writing_pid
  <2>1. (role(p) = DSOS_READ <=> p \in readers) /\ (role(p) = DSOS_WRITE <=> p \notin readers)
    BY Codes DEF role
  <2> QED BY <1>2, <1>5, <2>1 DEF LoopsOK
<1>7. ~ HasOpen(p)' /\ \A x \in Children : x # p => (HasOpen(x)' <=> HasOpen(x))
  BY <1>3, OpenByLabel DEF HasOpen
<1>8. ASSUME NEW x \in Children, NEW q \in resources_list, resource_id[q] = queue_of(x)
      PROVE  RoleTable(x)'[q] = IF HasOpen(x)' THEN x ELSE NULL
  <2>1. q \in MqBlocks /\ r \in MqBlocks
    BY <1>2 DEF TypeOK
  <2>2. CASE x = p
    <3>1. q = r
      BY <1>2, <1>6, <1>8, <2>2 DEF Structure, ResourcesOK
    <3> QED BY <1>2, <1>6, <1>7, <2>1, <2>2, <3>1 DEF RoleTable, TypeOK
  <2>3. CASE x # p
    <3>1. RoleTable(x)[q] = IF HasOpen(x) THEN x ELSE NULL
      BY <1>8 DEF FollowsOK
    <3>2. q = r => (x \in readers <=> p \notin readers)
      BY <1>6, <1>8, <2>3, OneOfAKind
    <3>3. RoleTable(x)'[q] = RoleTable(x)[q]
      BY <1>2, <1>6, <2>1, <3>2 DEF RoleTable, TypeOK
    <3> QED BY <1>7, <2>3, <3>1, <3>3
  <2> QED BY <2>2, <2>3
<1> QED BY <1>5, <1>8 DEF FollowsOK

\* The other steps of a child touch no role.
LEMMA ChildFollows ==
    ASSUME Inv, FollowsOK, NEW p \in Children,
           \/ Load(p) \/ Store(p) \/ Sleep(p) \/ Exit(p)
           \/ p \in readers /\ Read(p)
           \/ p \in writers /\ Write(p)
    PROVE  FollowsOK'
<1>1. /\ machine = "up" /\ running = p /\ p \in PCBs
      /\ pc[p] \in {"load", "store", "sleep", "exit", "read", "write"}
  BY Pids DEF Load, Store, Sleep, Exit, Read, Write, At
<1>2. TypeOK /\ Structure
  BY <1>1 DEF Inv
<1>3. \E l : GoTo(p, l) /\ (l \in Holding <=> pc[p] \in Holding)
  <2>1. CASE Load(p) \/ Store(p)
    BY <2>1 DEF Load, Store, At, Holding
  <2>2. CASE Sleep(p)
    <3>1. pc[p] = "sleep" /\ \E l \in {"read", "write", "close"} : GoTo(p, l)
      BY <2>2 DEF Sleep, At
    <3> QED BY <3>1 DEF Holding
  <2>3. CASE Exit(p)
    BY <2>3 DEF Exit, At, Holding
  <2>4. CASE Read(p)
    <3>1. pc[p] = "read" /\ \E l \in {"close", "sleep", "load"} : GoTo(p, l)
      BY <2>4 DEF Read, At
    <3> QED BY <3>1 DEF Holding
  <2>5. CASE Write(p)
    <3>1. pc[p] = "write" /\ \E l \in {"close", "sleep", "load"} : GoTo(p, l)
      BY <2>5 DEF Write, At
    <3> QED BY <3>1 DEF Holding
  <2> QED BY <2>1, <2>2, <2>3, <2>4, <2>5
<1>4. \A x \in Children : HasOpen(x)' <=> HasOpen(x)
  <2>1. /\ pc'[p] \in Holding <=> pc[p] \in Holding
        /\ \A x \in PCBs : x # p => pc'[x] = pc[x]
    BY <1>1, <1>2, <1>3, OneGoes
  <2> QED BY <2>1, Pids DEF HasOpen, Holding
<1>5. UNCHANGED <<roles, resources_list, resource_id>>
  <2>1. CASE Load(p) \/ Store(p)
    BY <2>1 DEF Load, Store, kernelVars, roles
  <2>2. CASE Sleep(p)
    BY <1>1, <2>2, OtherCall DEF Sleep, tables, links
  <2>3. CASE Exit(p)
    BY <1>1, <2>3, ExitCall DEF Exit
  <2>4. ASSUME Read(p) \/ Write(p)
        PROVE  /\ \E d \in descriptors[p] : desc[d].fd = fd[p]
               /\ \A d \in descriptors[p] : desc[d].resource \in MqBlocks
               /\ DOMAIN syscall_retvalue = PCBs
    <3>1. pc[p] \in Holding
      BY <2>4 DEF Read, Write, At, Holding
    <3> QED BY <1>2, <3>1, Holds DEF TypeOK
  <2>5. CASE Read(p)
    <3>1. Kernel!disastrOS_mq_read(fd[p], 1)
      BY <2>5 DEF Read
    <3>2. UNCHANGED <<links, roles>>
      BY <1>1, <2>4, <2>5, <3>1, ReadCall
    <3> QED BY <3>2 DEF links
  <2>6. CASE Write(p)
    <3>1. Kernel!disastrOS_mq_write(fd[p], Text(p))
      BY <2>6 DEF Write
    <3>2. UNCHANGED <<links, roles>>
      BY <1>1, <2>4, <2>6, <3>1, WriteCall
    <3> QED BY <3>2 DEF links
  <2> QED BY <2>1, <2>2, <2>3, <2>5, <2>6
<1> QED BY <1>4, <1>5, FollowsKept

\* A queue that init creates has no role, and no child has opened anything yet.
LEMMA CreateFollows ==
    ASSUME Inv, FollowsOK, Create, machine' = "up"
    PROVE  FollowsOK'
<1>1. /\ running = init /\ machine = "up" /\ pc[init] = "create" /\ NumQueues \in Nat \ {0}
      /\ Kernel!disastrOS_openResource(i[init], MESSAGE_QUEUE_TYPE, DSOS_CREATE)
      /\ \E l : GoTo(init, l)
  BY ProgramAssumption DEF Create, At, Opens, Asserted
<1>2. TypeOK /\ Structure
  BY <1>1 DEF Inv
<1>3. PICK r \in MqBlocks \ resources_list :
         /\ resources_list' = resources_list \cup {r}
         /\ resource_id' = [resource_id EXCEPT ![r] = i[init]]
         /\ UNCHANGED roles
  <2>1. i[init] \in Nat /\ \A s \in resources_list : resource_id[s] # i[init]
    BY <1>1, <1>2, Pids DEF Structure, InitOK, ResourcesOK, NumCreated, TypeOK
  <2>2. \E d \in Descriptors : desc[d].resource = NULL
    BY <1>1, <1>2, Pids, DescriptorFree
  <2> QED BY <1>1, <2>1, <2>2, CreateCall
<1>4. \A x \in Children : ~ HasOpen(x) /\ ~ HasOpen(x)'
  <2>1. \A x \in Children : x >= NextPid
    BY <1>1, Roles DEF NextPid
  <2>2. \A x \in PCBs : x # init => pc'[x] = pc[x]
    BY <1>1, <1>2, OneGoes, Pids
  <2> QED BY <1>2, <2>1, <2>2, Pids DEF Structure, ChildrenOK, HasOpen
<1>5. ASSUME NEW x \in Children, NEW q \in resources_list', resource_id'[q] = queue_of(x)
      PROVE  RoleTable(x)'[q] = NULL
  <2>1. CASE q = r
    BY <1>2, <1>3, <2>1 DEF Structure, RolesOK, RoleTable, roles
  <2>2. CASE q # r
    <3>1. q \in resources_list /\ resource_id[q] = queue_of(x)
      BY <1>2, <1>3, <1>5, <2>2 DEF TypeOK
    <3> QED BY <1>3, <1>4, <3>1 DEF FollowsOK, RoleTable, roles
  <2> QED BY <2>1, <2>2
<1> QED BY <1>4, <1>5 DEF FollowsOK

\* The rest of what init does touches no role.
LEMMA InitFollows ==
    ASSUME Inv, FollowsOK,
           SpawnSleeper \/ SpawnChildren \/ Wait \/ Waited \/ Destroy \/ Shutdown
    PROVE  FollowsOK'
<1>1. running = init /\ machine = "up" /\ \E l : GoTo(init, l)
  BY DEF SpawnSleeper, SpawnChildren, Wait, Waited, Destroy, Shutdown, At
<1>2. TypeOK /\ Structure
  BY <1>1 DEF Inv
<1>3. \A x \in Children : HasOpen(x)' <=> HasOpen(x)
  <2>1. \A x \in PCBs : x # init => pc'[x] = pc[x]
    BY <1>1, <1>2, OneGoes, Pids
  <2> QED BY <2>1, Pids DEF HasOpen
<1>4. UNCHANGED <<roles, resources_list, resource_id>>
  <2>1. CASE SpawnSleeper \/ SpawnChildren
    <3>1. Kernel!disastrOS_spawn
      BY <2>1 DEF SpawnSleeper, SpawnChildren, Spawn
    <3> QED BY <3>1 DEF Kernel!disastrOS_spawn, Kernel!ResetNewPCB, Kernel!queueVars,
                        Kernel!pointerVars, roles
  <2>2. CASE Wait \/ Shutdown
    BY <1>1, <2>2, OtherCall DEF Wait, Shutdown, tables, links
  <2>3. CASE Waited
    BY <2>3 DEF Waited, kernelVars, roles
  <2>4. CASE Destroy
    <3>1. \A r \in resources_list : descriptors_ptrs[r] # {}
      BY <1>2 DEF Structure, ResourcesOK
    <3>2. UNCHANGED tables
      BY <1>1, <2>4, <3>1, DestroyCall DEF Destroy
    <3> QED BY <3>2 DEF tables, links
  <2> QED BY <2>1, <2>2, <2>3, <2>4
<1> QED BY <1>3, <1>4, FollowsKept

\* Every step keeps it.
LEMMA FollowsStep ==
    ASSUME Inv, Delivery, Follows, [Next]_vars
    PROVE  Follows'
<1> SUFFICES ASSUME machine' = "up" PROVE FollowsOK'
  BY DEF Follows
<1>0. Inv'
  BY NextInv, StutterInv
<1>1. CASE initFunction
  <2>1. FollowsOK
    BY <1>1 DEF initFunction, SpawnSleeper, SpawnChildren, Create, Wait, Waited, Destroy,
                Shutdown, At, Follows
  <2> QED BY <1>1, <2>1, CreateFollows, InitFollows DEF initFunction
<1>2. ASSUME NEW p \in PCBs, read_childFunction(p) \/ write_childFunction(p)
      PROVE  FollowsOK'
  <2>1. /\ p \in Children
        /\ Common(p) \/ (p \in readers /\ Read(p)) \/ (p \in writers /\ Write(p))
    BY <1>2 DEF read_childFunction, write_childFunction, Children
  <2>2. FollowsOK
    BY <2>1 DEF Common, Open, Load, Store, Sleep, Close, Exit, Read, Write, At, Follows
  <2> QED BY <1>0, <2>1, <2>2, OpenFollows, CloseFollows, ChildFollows DEF Common
<1>3. CASE timerInterrupt
  <2>1. machine = "up" /\ UNCHANGED <<pc, tables>>
    BY <1>3, Tick DEF timerInterrupt, Kernel!timerInterrupt, Kernel!P!timerInterrupt
  <2>2. UNCHANGED <<roles, resources_list, resource_id>> /\ \A x : HasOpen(x)' <=> HasOpen(x)
    BY <2>1 DEF tables, links, HasOpen
  <2> QED BY <2>1, <2>2, FollowsKept DEF Follows
<1>4. CASE UNCHANGED vars
  <2>1. /\ machine' = machine /\ UNCHANGED <<roles, resources_list, resource_id>>
        /\ \A x : HasOpen(x)' <=> HasOpen(x)
    BY <1>4 DEF vars, kernelVars, roles, HasOpen
  <2> QED BY <2>1, FollowsKept DEF Follows
<1> QED BY <1>1, <1>2, <1>3, <1>4 DEF Next

\* A queue is held by its own reader and its own writer from their open to their close and no
\* longer (mq_set_mode and mq_delete_mode as disastrOS_test_mq.c uses them): for any number of
\* queues and wherever the timer interrupts no close drops the role of another process, no
\* process is gone with its role, and no role is left behind.
THEOREM ProgramRolesFollowOpens == Spec => []RolesFollowOpens
<1>1. Init => Follows
  BY DEF Init, Kernel!Init, Kernel!R!Init, Follows, FollowsOK
<1>2. Inv /\ Delivery /\ Follows /\ [Next]_vars => Follows'
  BY FollowsStep
<1>3. Inv /\ Follows => RolesFollowOpens
  <2> SUFFICES ASSUME Inv, Follows, machine = "up", NEW q \in resources_list,
                      NEW w, w = 2 * resource_id[q] + 2
               PROVE  /\ writing_pid[q] = IF HasOpen(w) THEN w ELSE NULL
                      /\ reading_pid[q] = IF HasOpen(w + 1) THEN w + 1 ELSE NULL
    BY DEF RolesFollowOpens
  <2>1. resource_id[q] \in 0 .. NumQueues - 1
    <3>1. resource_id[q] \in 0 .. NumCreated - 1 /\ NumCreated \in 0 .. NumQueues
      BY ProgramAssumption DEF Inv, Structure, ResourcesOK, InitOK, NumCreated
    <3> QED BY <3>1, ProgramAssumption
  <2>2. w \in writers /\ queue_of(w) = resource_id[q]
    BY <2>1, Writer
  <2>3. w + 1 \in readers /\ queue_of(w + 1) = resource_id[q]
    BY <2>2, Mates
  <2>4. /\ RoleTable(w)[q] = IF HasOpen(w) THEN w ELSE NULL
        /\ RoleTable(w + 1)[q] = IF HasOpen(w + 1) THEN w + 1 ELSE NULL
    BY <2>2, <2>3 DEF Follows, FollowsOK, Children
  <2>5. RoleTable(w) = writing_pid /\ RoleTable(w + 1) = reading_pid
    BY <2>2, <2>3, Pids DEF RoleTable
  <2> QED BY <2>4, <2>5
<1> QED BY <1>1, <1>2, <1>3, DeliveryInvariant, ProgramInvariant, PTL DEF Spec
=============================================================================
