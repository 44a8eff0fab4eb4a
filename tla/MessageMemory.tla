---------------------------- MODULE MessageMemory ----------------------------
(* The memory behind the message queues: the message pool with its free list *)
(* and the lists of the queues with their pointers, and what creating,       *)
(* writing, reading and destroying a queue do to them.  It implements the    *)
(* state that MessageQueues.tla keeps in sets and sequences (msgs, m_pool,   *)
(* stale_links); texts, roles and descriptors play no part.                  *)
EXTENDS Integers, Sequences, SequencesExt

CONSTANTS
    NULL,
    Queues,        \* blocks of _mq_allocator
    num_messages,  \* blocks of _m_allocator
    M_FOR_MQ,
    Text           \* what every block holds while it is allocated

ASSUME MemoryAssumption ==
    /\ num_messages \in Nat \ {0}
    /\ M_FOR_MQ \in Nat \ {0}
    /\ NULL \notin Nat

VARIABLES
    m_allocator,
    lists,    \* the list heads mq->msgs and the links of all messages
    live,     \* allocated queues
    frozen    \* auxiliary: what each list showed when its queue was freed

memVars == <<m_allocator, lists, live, frozen>>

Pool == INSTANCE PoolAllocator WITH size_max <- num_messages
List == INSTANCE LinkedList WITH Heads <- Queues, Items <- Pool!Indices

Stored(q) == List!Chain(lists, q)

Init ==
    /\ m_allocator = Pool!PoolAllocator_init
    /\ lists = List!NoLists
    /\ live = {}
    /\ frozen = [q \in Queues |-> <<>>]

Create(q) ==
    /\ q \notin live
    /\ live' = live \cup {q}
    /\ lists' = List!List_init(lists, q)
    /\ UNCHANGED <<m_allocator, frozen>>

\* The result of List_insert is not looked at.
Write(q) ==
    /\ q \in live
    /\ lists.size[q] # M_FOR_MQ
    /\ Pool!HasBlock(m_allocator)
    /\ m_allocator' = Pool!PoolAllocator_getBlock(m_allocator)
    /\ lists' = List!List_insert(lists, q, lists.last[q], m_allocator.first_idx)
    /\ UNCHANGED <<live, frozen>>

Read(q) ==
    /\ q \in live
    /\ lists.size[q] # 0
    /\ lists' = List!List_detach(lists, q, lists.first[q])
    /\ m_allocator' = Pool!PoolAllocator_releaseBlock(m_allocator, lists.first[q])
    /\ UNCHANGED <<live, frozen>>

\* Fault: the first message is forgotten.
FreeAll_ButFirst(q) ==
    FoldLeft(Pool!PoolAllocator_releaseBlock, m_allocator,
             SubSeq(Stored(q), 2, Len(Stored(q))))

\* m_free of each message, following next; no message is detached.
FreeAll(q) == FoldLeft(Pool!PoolAllocator_releaseBlock, m_allocator, Stored(q))

Destroy(q) ==
    /\ q \in live
    /\ live' = live \ {q}
    /\ m_allocator' = FreeAll(q)
    /\ frozen' = [frozen EXCEPT ![q] = Stored(q)]
    /\ UNCHANGED lists

Next == \E q \in Queues : Create(q) \/ Write(q) \/ Read(q) \/ Destroy(q)

Spec == Init /\ [][Next]_memVars
-----------------------------------------------------------------------------
\* Neither end of a list loses an item, and the free list reaches every free
\* block once, although blocks come back with the links of an earlier life.
ListsSound ==
    /\ Pool!PoolSound(m_allocator)
    /\ \A q \in live : List!ListSound(lists, q)

\* The asserts on m_free (disastrOS_message_queue.c:55 and
\* disastrOS_message_queue_read.c:50) hold: whatever queues were destroyed
\* before, a list leads only to blocks that are allocated, no two to the same.
NeverFreedTwice ==
    \A q \in live : \A n \in DOMAIN Stored(q) :
        /\ Pool!Detached(m_allocator, Stored(q)[n])
        /\ \A r \in live : \A k \in DOMAIN Stored(r) :
              Stored(r)[k] = Stored(q)[n] => r = q /\ k = n

\* The sets and sequences of MessageQueues.tla, seen in this memory.
Abstract == INSTANCE MessageQueues WITH
    PCBs <- {}, MqBlocks <- Queues, MsgBlocks <- Pool!Indices, Messages <- {Text},
    MESSAGE_STRING_MAX_LENGTH <- 1, NumPCBPtrs <- 0, pcbptr_pool <- 0,
    reading_pid <- [q \in Queues |-> NULL], writing_pid <- [q \in Queues |-> NULL],
    msgs <- [q \in Queues |-> IF q \in live THEN Stored(q) ELSE frozen[q]],
    m_pool <- Pool!FreeBlocks(m_allocator),
    message <- [b \in Pool!Indices |->
                   IF Pool!Detached(m_allocator, b) THEN Text ELSE NULL],
    stale_links <- {b \in Pool!Indices : List!Linked(lists, b)}
                       \ UNION {ToSet(Stored(q)) : q \in live}

\* Each operation on pointers and indices is the one that MessageQueues.tla
\* states, the refused insertion of a recycled block included.
ImplementsQueues ==
    /\ Abstract!mq_init
    /\ [][\E q \in Queues :
            \/ q \notin live /\ Abstract!mq_alloc(q)
            \/ q \in live /\ \/ Abstract!mq_free(q)
                             \/ Stored(q) # <<>> /\ Abstract!DetachFirst(q)
                             \/ \E b \in Pool!FreeBlocks(m_allocator) :
                                   Abstract!AppendMessage(q, b, Text)]_memVars
=============================================================================
