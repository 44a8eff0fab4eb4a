---------------------------- MODULE MessageQueues ----------------------------
(* The message queue type of disastrOS_message_queue.c: the queues' message  *)
(* lists and reader/writer roles, and the one pool of message blocks that    *)
(* all queues share.  This module holds the state and what each function     *)
(* does to it; Resources.tla calls these operators from the system calls.    *)
(*                                                                           *)
(* A block is identified by its address, so a block is a model value and a   *)
(* pool is the set of its free blocks: m_alloc may hand out any of them.     *)
(* The texts are abstract: a message is a [text, length] record.             *)
EXTENDS DisastrOSConstants, Sequences, FiniteSets, Functions

CONSTANTS
    PCBs,                       \* blocks of the PCB pool
    NULL,                       \* the null pointer
    MqBlocks,                   \* blocks of _mq_allocator
    MsgBlocks,                  \* blocks of _m_allocator
    Messages,                   \* what a writer may pass: [text, length]
    M_FOR_MQ,                   \* capacity of one queue
    MESSAGE_STRING_MAX_LENGTH,  \* longest text
    NumPCBPtrs                  \* blocks of the PCBPtr pool

ASSUME QueueAssumption ==
    /\ NULL \notin PCBs
    /\ NULL \notin Messages \cup Seq(Messages)
    /\ \A m \in Messages : m.length \in Int
    /\ M_FOR_MQ \in Nat \ {0}
    /\ MESSAGE_STRING_MAX_LENGTH \in Nat
    /\ NumPCBPtrs \in Nat

VARIABLES
    msgs,         \* mq->msgs: the blocks of each queue's list, first to last
    message,      \* what each message block holds (NULL: free, never read)
    m_pool,       \* free blocks of _m_allocator
    stale_links,  \* message blocks outside any list with a non-NULL link
    reading_pid,  \* the process behind mq->reading_pid, or NULL
    writing_pid,  \* the process behind mq->writing_pid, or NULL
    pcbptr_pool   \* number of free blocks of the PCBPtr pool

msgVars  == <<msgs, message, m_pool, stale_links>>
roleVars == <<reading_pid, writing_pid, pcbptr_pool>>
mqVars   == <<msgVars, roleVars>>

\* Static storage: zeroed blocks, all of them free.
mq_init ==
    /\ msgs = [q \in MqBlocks |-> <<>>]
    /\ message = [b \in MsgBlocks |-> NULL]
    /\ m_pool = MsgBlocks
    /\ stale_links = {}
    /\ reading_pid = [q \in MqBlocks |-> NULL]
    /\ writing_pid = [q \in MqBlocks |-> NULL]
    /\ pcbptr_pool = NumPCBPtrs
-----------------------------------------------------------------------------
\* Only the message list is initialised: a reused block keeps the roles that
\* its previous life left in it.
mq_alloc(q) ==
    /\ msgs' = [msgs EXCEPT ![q] = <<>>]
    /\ UNCHANGED <<message, m_pool, stale_links, roleVars>>

\* Fault: the blocks are forgotten with the list.
mq_free_Leaking(q) == UNCHANGED mqVars

\* Every message goes back to the pool without being detached, so when there
\* are two or more of them each keeps a link to a neighbour.  The list head
\* stays as it is in the freed block.
mq_free(q) ==
    LET freed == Range(msgs[q])
    IN  /\ m_pool' = m_pool \cup freed
        /\ message' = [b \in MsgBlocks |-> IF b \in freed THEN NULL ELSE message[b]]
        /\ stale_links' = IF Len(msgs[q]) > 1 THEN stale_links \cup freed
                                              ELSE stale_links
        /\ UNCHANGED <<msgs, roleVars>>

\* Opening for reading or writing takes the role only when nobody holds it.
mq_mode_free(q, mode) ==
    /\ mode = DSOS_READ  => reading_pid[q] = NULL
    /\ mode = DSOS_WRITE => writing_pid[q] = NULL

\* A role needs a PCBPtr, which PCBPtr_alloc dereferences unchecked.
mq_set_mode_crashes(mode) ==
    mode \in {DSOS_READ, DSOS_WRITE} /\ pcbptr_pool = 0

\* Fault: the role shares a PCBPtr with another.
RolePtrs_Shared(mode) == 0

\* The PCBPtrs that a mode takes.
RolePtrs(mode) == IF mode \in {DSOS_READ, DSOS_WRITE} THEN 1 ELSE 0

mq_set_mode(q, mode, p) ==
    /\ reading_pid' = IF mode = DSOS_READ  THEN [reading_pid EXCEPT ![q] = p]
                                           ELSE reading_pid
    /\ writing_pid' = IF mode = DSOS_WRITE THEN [writing_pid EXCEPT ![q] = p]
                                           ELSE writing_pid
    /\ pcbptr_pool' = pcbptr_pool - RolePtrs(mode)
    /\ UNCHANGED msgVars

\* Fault: only readers lose their role.
mq_delete_mode_ReadOnly(q, mode) ==
    /\ reading_pid' = IF mode = DSOS_READ  THEN [reading_pid EXCEPT ![q] = NULL]
                                           ELSE reading_pid
    /\ UNCHANGED <<writing_pid, pcbptr_pool, msgVars>>

\* Closing drops the role the caller names, whoever holds it, and forgets the
\* PCBPtr without freeing it.
mq_delete_mode(q, mode) ==
    /\ reading_pid' = IF mode = DSOS_READ  THEN [reading_pid EXCEPT ![q] = NULL]
                                           ELSE reading_pid
    /\ writing_pid' = IF mode = DSOS_WRITE THEN [writing_pid EXCEPT ![q] = NULL]
                                           ELSE writing_pid
    /\ UNCHANGED <<pcbptr_pool, msgVars>>

\* Fault: the terminator is counted in the length.
m_alloc_Terminator(b, m) == [message EXCEPT ![b] = [m EXCEPT !.length = @ + 1]]

\* m_alloc fills the block but leaves its list links alone.
m_alloc(b, m) == [message EXCEPT ![b] = m]

\* Faults: List_insert takes any block; the message is inserted first.
Inserted_AnyBlock(q, b) == [msgs EXCEPT ![q] = Append(@, b)]
Inserted_First(q, b) ==
    IF b \in stale_links THEN msgs ELSE [msgs EXCEPT ![q] = <<b>> \o @]

\* List_insert refuses a block whose links are not both NULL.
Inserted(q, b) ==
    IF b \in stale_links THEN msgs ELSE [msgs EXCEPT ![q] = Append(@, b)]

AppendMessage(q, b, m) ==
    /\ m_pool' = m_pool \ {b}
    /\ message' = m_alloc(b, m)
    /\ msgs' = Inserted(q, b)
    /\ UNCHANGED <<stale_links, roleVars>>

\* Fault: the message is freed but stays in the list.
DetachFirst_FreeOnly(q) ==
    LET b == Head(msgs[q])
    IN  /\ m_pool' = m_pool \cup {b}
        /\ message' = [message EXCEPT ![b] = NULL]
        /\ UNCHANGED <<msgs, stale_links, roleVars>>

\* List_detach of the first message, then m_free.
DetachFirst(q) ==
    LET b == Head(msgs[q])
    IN  /\ msgs' = [msgs EXCEPT ![q] = Tail(@)]
        /\ m_pool' = m_pool \cup {b}
        /\ message' = [message EXCEPT ![b] = NULL]
        /\ UNCHANGED <<stale_links, roleVars>>
=============================================================================
