----------------------------- MODULE MemoryProofs -----------------------------
(* Proofs about MessageMemory.tla and TimerMemory.tla: free lists and links   *)
(* are never corrupted, no message block is freed twice, every sleeper gets a *)
(* timer and is woken at its tick; the pointers and indices implement the     *)
(* sets and sequences of MessageQueues.tla and of TimerLists.tla.             *)
EXTENDS MessageMemory, TimerMemory, FiniteSetTheorems, TLAPS

MF == INSTANCE MemoryFacts WITH
    size_max <- num_messages, Heads <- Queues, Items <- Pool!Indices

\* MemoryFacts.tla is about the same operators under another name.
LEMMA SameIndices == MF!Indices = Pool!Indices
BY DEF MF!Indices, Pool!Indices

\* The reading operators of the pool are those of MemoryFacts.tla.
LEMMA SamePool ==
    ASSUME NEW a
    PROVE  /\ MF!HasBlock(a) <=> Pool!HasBlock(a)
           /\ MF!PoolAllocator_getBlock(a) = Pool!PoolAllocator_getBlock(a)
           /\ MF!FreeBlocks(a) = Pool!FreeBlocks(a)
           /\ MF!FreeChain(a) = Pool!FreeChain(a)
<1>1. MF!HasBlock(a) <=> Pool!HasBlock(a)
  BY DEF MF!HasBlock, Pool!HasBlock, MF!NullIdx, Pool!NullIdx
<1>2. MF!PoolAllocator_getBlock(a) = Pool!PoolAllocator_getBlock(a)
  BY DEF MF!PoolAllocator_getBlock, Pool!PoolAllocator_getBlock, MF!DetachedIdx, Pool!DetachedIdx
<1>3. MF!FreeBlocks(a) = Pool!FreeBlocks(a)
  BY DEF MF!FreeBlocks, Pool!FreeBlocks, MF!Indices, Pool!Indices, MF!Detached, Pool!Detached,
         MF!DetachedIdx, Pool!DetachedIdx
<1>4. MF!FreeChain(a) = Pool!FreeChain(a)
  BY DEF MF!FreeChain, Pool!FreeChain, MF!NullIdx, Pool!NullIdx
<1> QED BY <1>1, <1>2, <1>3, <1>4

\* So is PoolAllocator_init,
LEMMA SameInit == MF!PoolAllocator_init = Pool!PoolAllocator_init
BY DEF MF!PoolAllocator_init, Pool!PoolAllocator_init, MF!Indices, Pool!Indices,
       MF!NullIdx, Pool!NullIdx

\* the soundness of a pool,
LEMMA SameSound ==
    ASSUME NEW a
    PROVE  MF!PoolSound(a) <=> Pool!PoolSound(a)
BY SamePool DEF MF!PoolSound, Pool!PoolSound, MF!NullIdx, Pool!NullIdx, MF!Cardinality, Pool!Cardinality

\* the release of one block or of a sequence,
LEMMA SameRelease ==
    ASSUME NEW a, NEW i, NEW s
    PROVE  /\ MF!Detached(a, i) <=> Pool!Detached(a, i)
           /\ MF!PoolAllocator_releaseBlock(a, i) = Pool!PoolAllocator_releaseBlock(a, i)
           /\ MF!FoldLeft(MF!PoolAllocator_releaseBlock, a, s)
                = FoldLeft(Pool!PoolAllocator_releaseBlock, a, s)
<1>1. MF!Detached(a, i) <=> Pool!Detached(a, i)
  BY DEF MF!Detached, Pool!Detached, MF!DetachedIdx, Pool!DetachedIdx
<1>2. MF!PoolAllocator_releaseBlock(a, i) = Pool!PoolAllocator_releaseBlock(a, i)
  BY <1>1 DEF MF!PoolAllocator_releaseBlock, Pool!PoolAllocator_releaseBlock
<1>3. MF!FoldLeft(MF!PoolAllocator_releaseBlock, a, s)
        = FoldLeft(Pool!PoolAllocator_releaseBlock, a, s)
  BY DEF MF!FoldLeft, FoldLeft, MF!MapThenFoldSet, MapThenFoldSet, MF!Max, Max,
         MF!PoolAllocator_releaseBlock, Pool!PoolAllocator_releaseBlock, MF!Detached,
         Pool!Detached, MF!DetachedIdx, Pool!DetachedIdx
<1> QED BY <1>1, <1>2, <1>3

\* and each operator of LinkedList.tla.
LEMMA SameLists ==
    ASSUME NEW l, NEW h, NEW i, NEW p
    PROVE  /\ MF!List_init(l, h) = List!List_init(l, h)
           /\ MF!List_insert(l, h, p, i) = List!List_insert(l, h, p, i)
           /\ MF!List_detach(l, h, i) = List!List_detach(l, h, i)
           /\ MF!Linked(l, i) <=> List!Linked(l, i)
           /\ MF!Chain(l, h) = List!Chain(l, h)
           /\ MF!ListSound(l, h) <=> List!ListSound(l, h)
<1>1. MF!List_init(l, h) = List!List_init(l, h)
  BY DEF MF!List_init, List!List_init
<1>2. MF!Linked(l, i) <=> List!Linked(l, i)
  BY DEF MF!Linked, List!Linked
<1>3. MF!List_insert(l, h, p, i) = List!List_insert(l, h, p, i)
  BY Zenon DEF MF!List_insert, List!List_insert, MF!SetIf, List!SetIf, MF!Linked, List!Linked
<1>4. MF!List_detach(l, h, i) = List!List_detach(l, h, i)
  BY Zenon DEF MF!List_detach, List!List_detach, MF!SetIf, List!SetIf
<1>5. MF!Chain(l, h) = List!Chain(l, h)
  BY Zenon DEF MF!Chain, List!Chain, MF!Cardinality, List!Cardinality
<1>6. MF!ListSound(l, h) <=> List!ListSound(l, h)
  BY <1>5 DEF MF!ListSound, List!ListSound
<1> QED BY <1>1, <1>2, <1>3, <1>4, <1>5, <1>6

\* What MemoryAssumption gives of the pool: finite, not empty, NULL outside.
LEMMA Constants ==
    /\ num_messages \in Nat \ {0} /\ NULL \notin Pool!Indices
    /\ IsFiniteSet(Pool!Indices) /\ MF!IsFiniteSet(Pool!Indices)
<1>1. num_messages \in Nat \ {0} /\ Pool!Indices \subseteq Nat /\ NULL \notin Pool!Indices
  BY MemoryAssumption DEF Pool!Indices
<1>2. MF!IsFiniteSet(Pool!Indices)
  BY <1>1, MF!Numbers, SameIndices
<1>3. IsFiniteSet(Pool!Indices)
  BY <1>2 DEF MF!IsFiniteSet, IsFiniteSet
<1> QED BY <1>1, <1>2, <1>3
-----------------------------------------------------------------------------
\* The blocks that a queue holds.
Blocks(q) == MF!ToSet(Stored(q))

\* The free list reaches the free blocks, each live list is what its loop visits,
\* and holds allocated blocks that no other list holds.
MInv ==
    /\ lists \in MF!Links
    /\ live \subseteq Queues
    /\ frozen \in [Queues -> Seq(Pool!Indices)]
    /\ \E c : MF!IsFreeList(m_allocator, c)
    /\ \A q \in live :
          /\ MF!IsList(lists, q, Stored(q))
          /\ Blocks(q) \cap Pool!FreeBlocks(m_allocator) = {}
          /\ \A r \in live : r # q => Blocks(q) \cap Blocks(r) = {}

\* mq_init establishes the invariant.
LEMMA InitMInv == Init => MInv
<1> SUFFICES ASSUME Init PROVE MInv
  OBVIOUS
<1>1. lists \in MF!Links
  BY DEF Init, List!NoLists, MF!Links
<1>2. \E c : MF!IsFreeList(m_allocator, c)
  BY Constants, MF!PoolInit, SameInit DEF Init
<1> QED BY <1>1, <1>2 DEF Init, MInv

\* A list that an operation leaves alone.
LEMMA Kept ==
    ASSUME MInv, NEW q \in live,
           MF!Untouched(lists', lists, q),
           \A i \in Blocks(q) : lists'.next[i] = lists.next[i] /\ lists'.prev[i] = lists.prev[i]
    PROVE  MF!IsList(lists', q, Stored(q)) /\ Stored(q)' = Stored(q)
<1>1. MF!IsList(lists, q, Stored(q))
  BY DEF MInv
<1>2. MF!IsList(lists', q, Stored(q))
  BY <1>1, MF!SameList DEF MF!Untouched, Blocks
<1>3. Stored(q)' = Stored(q)
  BY <1>2, Constants, MF!ChainOf, SameLists DEF Stored
<1> QED BY <1>2, <1>3

\* The blocks of a live queue are a sequence of pool blocks.
LEMMA InList ==
    ASSUME MInv, NEW q \in live
    PROVE  /\ Stored(q) \in Seq(Pool!Indices) /\ Blocks(q) \subseteq Pool!Indices
           /\ \A n \in 1 .. Len(Stored(q)) : Stored(q)[n] \in Blocks(q)
           /\ \A i \in Blocks(q) : \E n \in 1 .. Len(Stored(q)) : i = Stored(q)[n]
BY MF!ToSetType DEF MInv, MF!IsList, Blocks

\* A created queue is empty; nothing that is linked is touched.
LEMMA CreateStep ==
    ASSUME MInv, NEW q \in Queues, Create(q)
    PROVE  /\ MInv'
           /\ Stored(q)' = <<>>
           /\ \A r \in live : Stored(r)' = Stored(r)
           /\ lists'.next = lists.next /\ lists'.prev = lists.prev
<1>1. /\ lists' \in MF!Links /\ MF!IsList(lists', q, <<>>)
      /\ lists'.next = lists.next /\ lists'.prev = lists.prev
      /\ \A g \in Queues \ {q} : MF!Untouched(lists', lists, g)
  <2>1. lists' = MF!List_init(lists, q)
    BY SameLists DEF Create
  <2>2. lists \in MF!Links
    BY DEF MInv
  <2> QED BY <2>1, <2>2, MF!InitList
<1>2. Stored(q)' = <<>> /\ Blocks(q)' = {}
  <2>1. Stored(q)' = <<>>
    BY <1>1, Constants, MF!ChainOf, SameLists DEF Stored
  <2> QED BY <2>1, MF!EmptyList DEF Blocks
<1>3. ASSUME NEW r \in live
      PROVE  /\ MF!IsList(lists', r, Stored(r)) /\ Stored(r)' = Stored(r)
             /\ Blocks(r)' = Blocks(r)
  <2>1. r \in Queues \ {q}
    BY DEF Create, MInv
  <2>2. MF!IsList(lists', r, Stored(r)) /\ Stored(r)' = Stored(r)
    BY <1>1, <2>1, Kept
  <2> QED BY <2>2 DEF Blocks
<1>4. ASSUME NEW r \in live'
      PROVE  /\ MF!IsList(lists, r, Stored(r))'
             /\ (Blocks(r) \cap Pool!FreeBlocks(m_allocator) = {})'
             /\ \A s \in live' : s # r => (Blocks(r) \cap Blocks(s) = {})'
  <2>1. live' = live \cup {q} /\ m_allocator' = m_allocator
    BY DEF Create
  <2>2. CASE r = q
    BY <1>1, <1>2, <2>2
  <2>3. CASE r # q
    <3>1. r \in live
      BY <2>1, <2>3
    <3> QED BY <1>2, <1>3, <2>1, <3>1 DEF MInv
  <2> QED BY <2>2, <2>3
<1>5. (lists \in MF!Links)' /\ (live \subseteq Queues)'
      /\ (frozen \in [Queues -> Seq(Pool!Indices)])'
      /\ (\E c : MF!IsFreeList(m_allocator, c))'
  BY <1>1 DEF Create, MInv
<1>6. MInv'
  BY <1>4, <1>5 DEF MInv
<1> QED BY <1>1, <1>2, <1>3, <1>6

\* Blocks outside every live list whose links an earlier life left set.
Stale == {b \in Pool!Indices : List!Linked(lists, b)} \ UNION {Blocks(q) : q \in live}

\* A write takes the first free block; it is appended, unless it has stale links,
\* and then no list and no link changes.
LEMMA WriteStep ==
    ASSUME MInv, NEW q \in Queues, Write(q), NEW i, i = m_allocator.first_idx
    PROVE  /\ MInv'
           /\ i \in Pool!FreeBlocks(m_allocator)
           /\ Pool!FreeBlocks(m_allocator') = Pool!FreeBlocks(m_allocator) \ {i}
           /\ m_allocator'.free_list = [m_allocator.free_list EXCEPT ![i] = Pool!DetachedIdx]
           /\ Stored(q)' = IF i \in Stale THEN Stored(q) ELSE Append(Stored(q), i)
           /\ \A r \in live \ {q} : Stored(r)' = Stored(r)
           /\ Stale' = Stale
<1>1. PICK c : MF!IsFreeList(m_allocator, c)
  BY DEF MInv
<1>2. /\ i \in Pool!Indices /\ i \in Pool!FreeBlocks(m_allocator)
      /\ \E d : MF!IsFreeList(m_allocator', d)
      /\ Pool!FreeBlocks(m_allocator') = Pool!FreeBlocks(m_allocator) \ {i}
  <2>1. MF!HasBlock(m_allocator) /\ m_allocator' = MF!PoolAllocator_getBlock(m_allocator)
    BY SamePool DEF Write
  <2>2. /\ i = Head(c) /\ i \in MF!Indices /\ c # <<>>
        /\ MF!IsFreeList(m_allocator', Tail(c))
        /\ MF!FreeBlocks(m_allocator') = MF!FreeBlocks(m_allocator) \ {i}
    BY <1>1, <2>1, Constants, MF!PoolGet
  <2>3. i \in MF!FreeBlocks(m_allocator)
    <3>1. MF!FreeBlocks(m_allocator) = MF!ToSet(c) /\ c \in Seq(MF!Indices)
      BY <1>1 DEF MF!IsFreeList
    <3> QED BY <2>2, <3>1, MF!TailList
  <2> QED BY <2>2, <2>3, SameIndices, SamePool
<1>3. m_allocator'.free_list = [m_allocator.free_list EXCEPT ![i] = Pool!DetachedIdx]
  <2>1. m_allocator \in MF!Pools /\ m_allocator' = MF!PoolAllocator_getBlock(m_allocator)
    BY <1>1, SamePool DEF Write, MF!IsFreeList
  <2> QED BY <2>1, MF!GetBlockFields DEF MF!DetachedIdx, Pool!DetachedIdx
<1>4. \A r \in live : i \notin Blocks(r) /\ Blocks(r) \subseteq Pool!Indices
  BY <1>2, InList DEF MInv
<1>5. i \in Stale <=> List!Linked(lists, i)
  BY <1>2, <1>4 DEF Stale
<1>6. ASSUME NEW r \in live
      PROVE  /\ MF!IsList(lists', r, Stored(r)') /\ lists' \in MF!Links
             /\ Stored(r)' = IF r = q /\ i \notin Stale THEN Append(Stored(q), i) ELSE Stored(r)
             /\ \A j \in Pool!Indices : j \notin Blocks(q) \cup {i} =>
                   (List!Linked(lists', j) <=> List!Linked(lists, j))
  <2>1. lists' = MF!List_insert(lists, q, lists.last[q], i)
    BY SameLists DEF Write
  <2>2. CASE i \in Stale
    <3>1. lists' = lists
      BY <1>5, <2>1, <2>2, SameLists DEF MF!List_insert
    <3> QED BY <2>2, <3>1 DEF MInv, Stored
  <2>3. CASE i \notin Stale
    <3>1. /\ lists' \in MF!Links /\ MF!IsList(lists', q, Append(Stored(q), i))
          /\ \A j \in Pool!Indices : j \notin Blocks(q) \cup {i} =>
                lists'.next[j] = lists.next[j] /\ lists'.prev[j] = lists.prev[j]
          /\ \A g \in Queues \ {q} : MF!Untouched(lists', lists, g)
      <4>1. /\ lists \in MF!Links /\ MF!IsList(lists, q, Stored(q)) /\ ~ MF!Linked(lists, i)
            /\ i \notin MF!ToSet(Stored(q))
        BY <1>4, <1>5, <2>3, SameLists DEF MInv, Write, Blocks
      <4> QED BY <1>2, <2>1, <4>1, Constants, MF!AppendToList DEF Blocks
    <3>2. Stored(q)' = Append(Stored(q), i)
      BY <3>1, Constants, MF!ChainOf, SameLists DEF Stored
    <3>3. r # q => MF!IsList(lists', r, Stored(r)) /\ Stored(r)' = Stored(r)
      <4>1. r # q => \A j \in Blocks(r) : j \in Pool!Indices /\ j \notin Blocks(q) \cup {i}
        BY <1>4 DEF MInv, Write
      <4>2. r # q => MF!Untouched(lists', lists, r)
        BY <3>1 DEF MInv
      <4> QED BY <3>1, <4>1, <4>2, Kept
    <3> QED BY <2>3, <3>1, <3>2, <3>3 DEF List!Linked
  <2> QED BY <2>2, <2>3
<1>7. q \in live /\ live' = live /\ frozen' = frozen
  BY DEF Write
<1>8. ASSUME NEW r \in live
      PROVE  Blocks(r)' = IF r = q /\ i \notin Stale THEN Blocks(q) \cup {i} ELSE Blocks(r)
  <2>1. /\ MF!ToSet(Append(Stored(q), i)) = MF!ToSet(Stored(q)) \cup {i}
        /\ Stored(q) \in Seq(Pool!Indices)
    BY <1>2, <1>7, InList, MF!AppendList
  <2> QED BY <1>6, <2>1 DEF Blocks
<1>9. MInv'
  <2>1. ASSUME NEW r \in live
        PROVE  /\ Blocks(r)' \cap Pool!FreeBlocks(m_allocator') = {}
               /\ \A s \in live : s # r => Blocks(r)' \cap Blocks(s)' = {}
    <3>1. Blocks(r) \cap Pool!FreeBlocks(m_allocator) = {} /\ i \notin Blocks(r)
      BY <1>4 DEF MInv
    <3>2. Blocks(r)' \cap Pool!FreeBlocks(m_allocator') = {}
      BY <1>2, <1>8, <3>1
    <3>3. ASSUME NEW s \in live, s # r PROVE Blocks(r)' \cap Blocks(s)' = {}
      <4>1. Blocks(r) \cap Blocks(s) = {} /\ i \notin Blocks(s)
        BY <1>4, <3>3 DEF MInv
      <4>2. r # q \/ s # q
        BY <3>3
      <4> QED BY <1>8, <3>1, <4>1, <4>2
    <3> QED BY <3>2, <3>3
  <2>2. frozen' \in [Queues -> Seq(Pool!Indices)] /\ live' \subseteq Queues
    BY <1>7 DEF MInv
  <2> QED BY <1>2, <1>6, <1>7, <2>1, <2>2 DEF MInv
<1>10. Stale' = Stale
  <2>1. CASE i \in Stale
    <3>1. lists' = lists
      BY <1>5, <2>1 DEF Write, List!List_insert
    <3> QED BY <1>7, <1>8, <2>1, <3>1 DEF Stale
  <2>2. CASE i \notin Stale
    <3>1. ASSUME NEW j
          PROVE  (\E r \in live : j \in Blocks(r)') <=> (\E r \in live : j \in Blocks(r)) \/ j = i
      BY <1>7, <1>8, <2>2
    <3>2. ASSUME NEW j \in Pool!Indices, \A r \in live : j \notin Blocks(r), j # i
          PROVE  List!Linked(lists', j) <=> List!Linked(lists, j)
      BY <1>6, <1>7, <3>2
    <3>3. ASSUME NEW j PROVE j \in Stale' <=> j \in Stale
      <4>1. j \in Stale' <=> /\ j \in Pool!Indices /\ List!Linked(lists', j)
                             /\ ~ \E r \in live : j \in Blocks(r)'
        BY <1>7 DEF Stale
      <4>2. j \in Stale <=> /\ j \in Pool!Indices /\ List!Linked(lists, j)
                            /\ ~ \E r \in live : j \in Blocks(r)
        BY DEF Stale
      <4> QED BY <2>2, <3>1, <3>2, <4>1, <4>2
    <3> QED BY <3>3
  <2> QED BY <2>1, <2>2
<1> QED BY <1>2, <1>3, <1>6, <1>7, <1>9, <1>10

\* A read detaches the first block and gives it back to the pool; no block
\* becomes stale.
LEMMA ReadStep ==
    ASSUME MInv, NEW q \in Queues, Read(q), NEW i, i = lists.first[q]
    PROVE  /\ MInv'
           /\ q \in live /\ Stored(q) # <<>> /\ i = Head(Stored(q)) /\ i \in Pool!Indices
           /\ Pool!FreeBlocks(m_allocator') = Pool!FreeBlocks(m_allocator) \cup {i}
           /\ Stored(q)' = Tail(Stored(q))
           /\ \A r \in live \ {q} : Stored(r)' = Stored(r)
           /\ Stale' = Stale
<1>1. /\ q \in live /\ live' = live /\ frozen' = frozen
      /\ MF!IsList(lists, q, Stored(q)) /\ lists \in MF!Links
      /\ lists' = MF!List_detach(lists, q, i)
  BY SameLists DEF Read, MInv
<1>2. Stored(q) # <<>>
  BY <1>1 DEF Read, MF!IsList
<1>3. /\ i = Head(Stored(q)) /\ i \in Pool!Indices
      /\ lists' \in MF!Links /\ MF!IsList(lists', q, Tail(Stored(q)))
      /\ lists'.next[i] = NULL /\ lists'.prev[i] = NULL
      /\ \A j \in Pool!Indices : j \notin Blocks(q) =>
            lists'.next[j] = lists.next[j] /\ lists'.prev[j] = lists.prev[j]
      /\ \A g \in Queues \ {q} : MF!Untouched(lists', lists, g)
  BY <1>1, <1>2, Constants, MF!DetachFirst DEF Blocks
<1>4. Stored(q)' = Tail(Stored(q))
  BY <1>3, Constants, MF!ChainOf, SameLists DEF Stored
<1>5. Blocks(q) = Blocks(q)' \cup {i} /\ i \notin Blocks(q)'
  <2>1. Stored(q) \in Seq(Pool!Indices) /\ MF!Distinct(Stored(q))
    BY <1>1 DEF MF!IsList
  <2> QED BY <1>2, <1>3, <1>4, <2>1, MF!TailList DEF Blocks
<1>6. \A r \in live : Blocks(r) \subseteq Pool!Indices /\ (r # q => Blocks(r) \cap Blocks(q) = {})
  BY <1>1, InList DEF MInv
<1>7. ASSUME NEW r \in live \ {q}
      PROVE  /\ MF!IsList(lists', r, Stored(r)) /\ Stored(r)' = Stored(r)
             /\ Blocks(r)' = Blocks(r)
  <2>1. \A j \in Blocks(r) : j \in Pool!Indices /\ j \notin Blocks(q)
    BY <1>6
  <2>2. MF!Untouched(lists', lists, r)
    BY <1>3 DEF MInv
  <2>3. MF!IsList(lists', r, Stored(r)) /\ Stored(r)' = Stored(r)
    BY <1>3, <2>1, <2>2, Kept
  <2> QED BY <2>3 DEF Blocks
<1>8. /\ \E d : MF!IsFreeList(m_allocator', d)
      /\ Pool!FreeBlocks(m_allocator') = Pool!FreeBlocks(m_allocator) \cup {i}
  <2>1. PICK c : MF!IsFreeList(m_allocator, c)
    BY DEF MInv
  <2>2. MF!Detached(m_allocator, i)
    <3>1. i \notin Pool!FreeBlocks(m_allocator)
      BY <1>1, <1>5 DEF MInv
    <3> QED BY <1>3, <3>1, SameRelease DEF Pool!FreeBlocks
  <2>3. m_allocator' = MF!PoolAllocator_releaseBlock(m_allocator, i)
    BY SameRelease DEF Read
  <2>4. /\ MF!IsFreeList(m_allocator', <<i>> \o c)
        /\ MF!FreeBlocks(m_allocator') = MF!FreeBlocks(m_allocator) \cup {i}
    BY <1>3, <2>1, <2>2, <2>3, Constants, SameIndices, MF!PoolRelease
  <2> QED BY <2>4, SamePool
<1>9. MInv'
  <2>1. ASSUME NEW r \in live
        PROVE  /\ MF!IsList(lists', r, Stored(r)')
               /\ Blocks(r)' \cap Pool!FreeBlocks(m_allocator') = {}
               /\ \A s \in live : s # r => Blocks(r)' \cap Blocks(s)' = {}
    <3>1. MF!IsList(lists', r, Stored(r)')
      BY <1>3, <1>4, <1>7
    <3>2. Blocks(r)' \cap Pool!FreeBlocks(m_allocator') = {}
      BY <1>1, <1>5, <1>6, <1>7, <1>8 DEF MInv
    <3>3. \A s \in live : s # r => Blocks(r)' \cap Blocks(s)' = {}
      BY <1>1, <1>5, <1>7 DEF MInv
    <3> QED BY <3>1, <3>2, <3>3
  <2>2. frozen' \in [Queues -> Seq(Pool!Indices)] /\ live' \subseteq Queues
    BY <1>1 DEF MInv
  <2> QED BY <1>1, <1>3, <1>8, <2>1, <2>2 DEF MInv
<1>10. Stale' = Stale
  <2>1. ASSUME NEW j PROVE j \in Stale' <=> j \in Stale
    <3>1. j \in Stale' <=> /\ j \in Pool!Indices /\ List!Linked(lists', j)
                           /\ \A r \in live : j \notin Blocks(r)'
      BY <1>1 DEF Stale
    <3>2. j \in Stale <=> /\ j \in Pool!Indices /\ List!Linked(lists, j)
                          /\ \A r \in live : j \notin Blocks(r)
      BY DEF Stale
    <3>3. CASE j = i
      BY <1>1, <1>3, <1>5, <3>1, <3>2, <3>3 DEF List!Linked
    <3>4. CASE j # i /\ j \in Pool!Indices
      <4>1. (\A r \in live : j \notin Blocks(r)') <=> (\A r \in live : j \notin Blocks(r))
        BY <1>5, <1>7, <3>4
      <4>2. (\A r \in live : j \notin Blocks(r)) =>
               (List!Linked(lists', j) <=> List!Linked(lists, j))
        BY <1>1, <1>3, <3>4 DEF List!Linked
      <4> QED BY <3>1, <3>2, <4>1, <4>2
    <3> QED BY <3>1, <3>2, <3>3, <3>4
  <2> QED BY <2>1
<1> QED BY <1>1, <1>2, <1>3, <1>4, <1>7, <1>8, <1>9, <1>10

\* In a list of two or more, each item has a link; the only item of a list has none.
LEMMA LinkedInList ==
    ASSUME MInv, NEW q \in live, NEW i \in Blocks(q)
    PROVE  List!Linked(lists, i) <=> Len(Stored(q)) > 1
<1>1. PICK n \in 1 .. Len(Stored(q)) : i = Stored(q)[n]
  BY InList
<1>2. /\ lists.next[i] = IF n = Len(Stored(q)) THEN NULL ELSE Stored(q)[n+1]
      /\ lists.prev[i] = IF n = 1 THEN NULL ELSE Stored(q)[n-1]
  BY <1>1 DEF MInv, MF!IsList
<1>3. /\ Len(Stored(q)) \in Nat
      /\ \A m \in 1 .. Len(Stored(q)) : Stored(q)[m] # NULL
  BY InList, Constants
<1>4. n # Len(Stored(q)) => n + 1 \in 1 .. Len(Stored(q))
  BY <1>3
<1>5. n # 1 => n - 1 \in 1 .. Len(Stored(q))
  BY <1>3
<1>6. Len(Stored(q)) > 1 <=> ~ (n = 1 /\ n = Len(Stored(q)))
  BY <1>3
<1> QED BY <1>2, <1>3, <1>4, <1>5, <1>6 DEF List!Linked

\* A destroy gives back all blocks of the queue and leaves their links as they
\* are: those of two or more blocks are stale.
LEMMA DestroyStep ==
    ASSUME MInv, NEW q \in Queues, Destroy(q)
    PROVE  /\ MInv'
           /\ live' = live \ {q} /\ q \in live /\ frozen' = [frozen EXCEPT ![q] = Stored(q)]
           /\ Pool!FreeBlocks(m_allocator') = Pool!FreeBlocks(m_allocator) \cup Blocks(q)
           /\ \A r \in live : Stored(r)' = Stored(r)
           /\ Stale' = IF Len(Stored(q)) > 1 THEN Stale \cup Blocks(q) ELSE Stale
<1>1. /\ q \in live /\ live' = live \ {q} /\ lists' = lists
      /\ frozen' = [frozen EXCEPT ![q] = Stored(q)]
      /\ Stored(q) \in Seq(Pool!Indices) /\ MF!Distinct(Stored(q))
  BY DEF Destroy, MInv, MF!IsList
<1>2. \A r : Stored(r)' = Stored(r) /\ Blocks(r)' = Blocks(r)
  BY <1>1 DEF Stored, Blocks
<1>3. /\ \E d : MF!IsFreeList(m_allocator', d)
      /\ Pool!FreeBlocks(m_allocator') = Pool!FreeBlocks(m_allocator) \cup Blocks(q)
  <2>1. PICK c : MF!IsFreeList(m_allocator, c)
    BY DEF MInv
  <2>2. m_allocator' = MF!FoldLeft(MF!PoolAllocator_releaseBlock, m_allocator, Stored(q))
    BY SameRelease DEF Destroy, FreeAll
  <2>3. ASSUME NEW n \in 1 .. Len(Stored(q)) PROVE MF!Detached(m_allocator, Stored(q)[n])
    <3>1. Stored(q)[n] \in Pool!Indices /\ Stored(q)[n] \notin Pool!FreeBlocks(m_allocator)
      BY <1>1, InList DEF MInv
    <3> QED BY <3>1, SameRelease DEF Pool!FreeBlocks
  <2>4. /\ \E d : MF!IsFreeList(m_allocator', d)
        /\ MF!FreeBlocks(m_allocator') = MF!FreeBlocks(m_allocator) \cup MF!ToSet(Stored(q))
    BY <1>1, <2>1, <2>2, <2>3, Constants, SameIndices, MF!ReleaseAll
  <2> QED BY <2>4, SamePool DEF Blocks
<1>4. MInv'
  <2>1. ASSUME NEW r \in live \ {q}
        PROVE  /\ MF!IsList(lists', r, Stored(r)')
               /\ Blocks(r)' \cap Pool!FreeBlocks(m_allocator') = {}
               /\ \A s \in live' : s # r => Blocks(r)' \cap Blocks(s)' = {}
    BY <1>1, <1>2, <1>3 DEF MInv
  <2>2. frozen' \in [Queues -> Seq(Pool!Indices)] /\ live' \subseteq Queues
        /\ lists' \in MF!Links
    BY <1>1 DEF MInv
  <2> QED BY <1>1, <1>3, <2>1, <2>2 DEF MInv
<1>5. Stale' = IF Len(Stored(q)) > 1 THEN Stale \cup Blocks(q) ELSE Stale
  <2>1. ASSUME NEW j
        PROVE  j \in Stale' <=> j \in Stale \/ (Len(Stored(q)) > 1 /\ j \in Blocks(q))
    <3>1. j \in Stale' <=> /\ j \in Pool!Indices /\ List!Linked(lists, j)
                           /\ \A r \in live \ {q} : j \notin Blocks(r)
      BY <1>1, <1>2 DEF Stale
    <3>2. j \in Stale <=> /\ j \in Pool!Indices /\ List!Linked(lists, j)
                          /\ \A r \in live : j \notin Blocks(r)
      BY DEF Stale
    <3>3. CASE j \in Blocks(q)
      <4>1. j \in Pool!Indices /\ \A r \in live \ {q} : j \notin Blocks(r)
        BY <1>1, <3>3, InList DEF MInv
      <4> QED BY <1>1, <3>1, <3>2, <3>3, <4>1, LinkedInList
    <3> QED BY <1>1, <3>1, <3>2, <3>3
  <2> QED BY <2>1
<1> QED BY <1>1, <1>2, <1>3, <1>4, <1>5
-----------------------------------------------------------------------------
\* Every step keeps the invariant.
LEMMA MInvStep == MInv /\ [Next]_memVars => MInv'
<1>1. ASSUME MInv, UNCHANGED memVars PROVE MInv'
  BY <1>1 DEF memVars, MInv, Stored, Blocks
<1> QED BY <1>1, CreateStep, WriteStep, ReadStep, DestroyStep DEF Next

\* The invariant holds in every reachable state.
LEMMA MInvariance == Spec => []MInv
BY InitMInv, MInvStep, PTL DEF Spec

\* However queues are created, filled, emptied and destroyed, whatever links a
\* block has from an earlier life: no list loses an item at either end, and the
\* free list reaches every free block once.
THEOREM ListsSoundThm == Spec => []ListsSound
<1>1. MInv => ListsSound
  <2> SUFFICES ASSUME MInv PROVE ListsSound
    OBVIOUS
  <2>1. Pool!PoolSound(m_allocator)
    BY Constants, MF!FreeListSound, SameSound DEF MInv
  <2>2. ASSUME NEW q \in live PROVE List!ListSound(lists, q)
    <3>1. MF!IsList(lists, q, Stored(q))
      BY DEF MInv
    <3> QED BY <3>1, Constants, MF!IsListSound, SameLists
  <2> QED BY <2>1, <2>2 DEF ListsSound
<1> QED BY <1>1, MInvariance, PTL

\* The asserts on m_free hold: every block that a live queue's list leads to is
\* allocated, and no list, not even the same, leads to it twice.
THEOREM NeverFreedTwiceThm == Spec => []NeverFreedTwice
<1>1. MInv => NeverFreedTwice
  <2> SUFFICES ASSUME MInv, NEW q \in live, NEW n \in DOMAIN Stored(q)
               PROVE  /\ Pool!Detached(m_allocator, Stored(q)[n])
                      /\ \A r \in live : \A k \in DOMAIN Stored(r) :
                            Stored(r)[k] = Stored(q)[n] => r = q /\ k = n
    BY DEF NeverFreedTwice
  <2>1. \A r \in live : DOMAIN Stored(r) = 1 .. Len(Stored(r))
    BY InList
  <2>2. \A r \in live : \A k \in DOMAIN Stored(r) : Stored(r)[k] \in Blocks(r)
    BY <2>1, InList
  <2>3. Pool!Detached(m_allocator, Stored(q)[n])
    BY <2>2, InList DEF MInv, Pool!FreeBlocks
  <2>4. \A r \in live : \A k \in DOMAIN Stored(r) :
           Stored(r)[k] = Stored(q)[n] => r = q
    BY <2>2 DEF MInv
  <2>5. MF!Distinct(Stored(q))
    BY DEF MInv, MF!IsList
  <2> QED BY <2>3, <2>4, <2>5 DEF MF!Distinct
<1> QED BY <1>1, MInvariance, PTL
-----------------------------------------------------------------------------
\* The state of MessageQueues.tla as ImplementsQueues maps it.
Messages_of  == [q \in Queues |-> IF q \in live THEN Stored(q) ELSE frozen[q]]
Free         == Pool!FreeBlocks(m_allocator)
Held         == [b \in Pool!Indices |-> IF Pool!Detached(m_allocator, b) THEN Text ELSE NULL]

\* The refinement mapping of message: a free block holds none.
LEMMA HeldByFree ==
    /\ Held = [b \in Pool!Indices |-> IF b \in Free THEN NULL ELSE Text]
    /\ Held' = [b \in Pool!Indices |-> IF b \in Free' THEN NULL ELSE Text]
BY DEF Held, Free, Pool!FreeBlocks

\* The refinement mapping of stale_links: links set, in no live queue.
LEMMA StaleLinks ==
    /\ Stale = {b \in Pool!Indices : List!Linked(lists, b)}
                  \ UNION {ToSet(Stored(q)) : q \in live}
    /\ Stale' = {b \in Pool!Indices : List!Linked(lists', b)}
                  \ UNION {ToSet(Stored(q))' : q \in live'}
BY DEF Stale, Blocks, MF!ToSet, ToSet

\* mq_init of MessageQueues.tla in terms of the refinement mapping,
LEMMA AbstractInit ==
    ASSUME Messages_of = [q \in Queues |-> <<>>], Held = [b \in Pool!Indices |-> NULL],
           Free = Pool!Indices, Stale = {}
    PROVE  Abstract!mq_init
BY StaleLinks DEF Abstract!mq_init, Messages_of, Held, Free

\* and mq_alloc,
LEMMA AbstractCreate ==
    ASSUME NEW q, Messages_of' = [Messages_of EXCEPT ![q] = <<>>],
           Held' = Held, Free' = Free, Stale' = Stale
    PROVE  Abstract!mq_alloc(q)
BY StaleLinks DEF Abstract!mq_alloc, Abstract!roleVars, Messages_of, Held, Free

\* AppendMessage,
LEMMA AbstractWrite ==
    ASSUME NEW q, NEW b,
           Messages_of' = IF b \in Stale THEN Messages_of
                          ELSE [Messages_of EXCEPT ![q] = Append(@, b)],
           Held' = [Held EXCEPT ![b] = Text], Free' = Free \ {b}, Stale' = Stale
    PROVE  Abstract!AppendMessage(q, b, Text)
BY StaleLinks DEF Abstract!AppendMessage, Abstract!Inserted, Abstract!m_alloc,
                  Abstract!roleVars, Messages_of, Held, Free

\* DetachFirst,
LEMMA AbstractRead ==
    ASSUME NEW q, NEW b, b = Head(Messages_of[q]),
           Messages_of' = [Messages_of EXCEPT ![q] = Tail(@)],
           Held' = [Held EXCEPT ![b] = NULL], Free' = Free \cup {b}, Stale' = Stale
    PROVE  Abstract!DetachFirst(q)
BY StaleLinks DEF Abstract!DetachFirst, Abstract!roleVars, Messages_of, Held, Free

\* and mq_free.
LEMMA AbstractDestroy ==
    ASSUME NEW q, NEW freed, freed = Range(Messages_of[q]),
           Messages_of' = Messages_of,
           Held' = [b \in Pool!Indices |-> IF b \in freed THEN NULL ELSE Held[b]],
           Free' = Free \cup freed,
           Stale' = IF Len(Messages_of[q]) > 1 THEN Stale \cup freed ELSE Stale
    PROVE  Abstract!mq_free(q)
BY StaleLinks DEF Abstract!mq_free, Abstract!Range, Range, Abstract!roleVars,
                  Messages_of, Held, Free
-----------------------------------------------------------------------------
\* What Messages_of becomes, queue by queue.
LEMMA MessagesOf ==
    /\ Messages_of  = [r \in Queues |-> IF r \in live THEN Stored(r) ELSE frozen[r]]
    /\ Messages_of' = [r \in Queues |-> IF r \in live' THEN Stored(r)' ELSE frozen'[r]]
BY DEF Messages_of

AbstractStep ==
    \E q \in Queues :
        \/ q \notin live /\ Abstract!mq_alloc(q)
        \/ q \in live /\ \/ Abstract!mq_free(q)
                         \/ Stored(q) # <<>> /\ Abstract!DetachFirst(q)
                         \/ \E b \in Pool!FreeBlocks(m_allocator) :
                               Abstract!AppendMessage(q, b, Text)

\* The initial memory is the initial state of MessageQueues.tla.
LEMMA InitImplements == Init => Abstract!mq_init
<1> SUFFICES ASSUME Init PROVE Abstract!mq_init
  OBVIOUS
<1>1. Messages_of = [q \in Queues |-> <<>>]
  BY DEF Init, Messages_of
<1>2. Free = Pool!Indices
  BY Constants DEF Init, Free, Pool!FreeBlocks, Pool!Detached, Pool!PoolAllocator_init,
                   Pool!Indices, Pool!NullIdx, Pool!DetachedIdx
<1>3. Held = [b \in Pool!Indices |-> NULL]
  BY <1>2, HeldByFree
<1>4. Stale = {}
  BY DEF Init, Stale, List!NoLists, List!Linked
<1> QED BY <1>1, <1>2, <1>3, <1>4, AbstractInit

\* Creating a queue is mq_alloc.
LEMMA CreateImplements ==
    ASSUME MInv, NEW q \in Queues, Create(q)
    PROVE  Abstract!mq_alloc(q)
<1>1. /\ live' = live \cup {q} /\ m_allocator' = m_allocator /\ frozen' = frozen
  BY DEF Create
<1>2. Messages_of' = [Messages_of EXCEPT ![q] = <<>>]
  BY <1>1, CreateStep, MessagesOf
<1>3. Held' = Held /\ Free' = Free
  BY <1>1 DEF Held, Free
<1>4. Stale' = Stale
  <2>1. Blocks(q)' = {} /\ \A r \in live : Blocks(r)' = Blocks(r)
    BY CreateStep, MF!EmptyList DEF Blocks
  <2>2. \A b : List!Linked(lists', b) <=> List!Linked(lists, b)
    BY CreateStep DEF List!Linked
  <2> QED BY <1>1, <2>1, <2>2 DEF Stale
<1> QED BY <1>2, <1>3, <1>4, AbstractCreate

\* A write is AppendMessage of the block taken, its refusal included.
LEMMA WriteImplements ==
    ASSUME MInv, NEW q \in Queues, Write(q)
    PROVE  \E b \in Pool!FreeBlocks(m_allocator) : Abstract!AppendMessage(q, b, Text)
<1> DEFINE i == m_allocator.first_idx
<1>1. /\ i \in Free /\ Free' = Free \ {i} /\ Stale' = Stale
      /\ Stored(q)' = IF i \in Stale THEN Stored(q) ELSE Append(Stored(q), i)
      /\ \A r \in live \ {q} : Stored(r)' = Stored(r)
      /\ q \in live /\ live' = live /\ frozen' = frozen
  BY WriteStep DEF Free, Write
<1> HIDE DEF i
<1>2. Messages_of' = IF i \in Stale THEN Messages_of
                     ELSE [Messages_of EXCEPT ![q] = Append(@, i)]
  BY <1>1, MessagesOf
<1>3. Held' = [Held EXCEPT ![i] = Text]
  BY <1>1, HeldByFree
<1> QED BY <1>1, <1>2, <1>3, AbstractWrite DEF Free

\* A read is DetachFirst of a queue that holds something.
LEMMA ReadImplements ==
    ASSUME MInv, NEW q \in Queues, Read(q)
    PROVE  Stored(q) # <<>> /\ Abstract!DetachFirst(q)
<1> DEFINE i == lists.first[q]
<1>1. /\ Stored(q) # <<>> /\ i = Head(Stored(q)) /\ i \in Pool!Indices
      /\ Free' = Free \cup {i} /\ Stale' = Stale
      /\ Stored(q)' = Tail(Stored(q))
      /\ \A r \in live \ {q} : Stored(r)' = Stored(r)
      /\ q \in live /\ live' = live /\ frozen' = frozen
  BY ReadStep DEF Free, Read
<1> HIDE DEF i
<1>2. Messages_of' = [Messages_of EXCEPT ![q] = Tail(@)] /\ i = Head(Messages_of[q])
  BY <1>1, MessagesOf
<1>3. Held' = [Held EXCEPT ![i] = NULL]
  BY <1>1, HeldByFree
<1> QED BY <1>1, <1>2, <1>3, AbstractRead

\* A destroy is mq_free.
LEMMA DestroyImplements ==
    ASSUME MInv, NEW q \in Queues, Destroy(q)
    PROVE  Abstract!mq_free(q)
<1>1. /\ live' = live \ {q} /\ q \in live /\ frozen' = [frozen EXCEPT ![q] = Stored(q)]
      /\ Free' = Free \cup Blocks(q)
      /\ \A r \in live : Stored(r)' = Stored(r)
      /\ Stale' = IF Len(Stored(q)) > 1 THEN Stale \cup Blocks(q) ELSE Stale
      /\ frozen \in [Queues -> Seq(Pool!Indices)]
  BY DestroyStep DEF Free, MInv
<1>2. Messages_of' = Messages_of /\ Messages_of[q] = Stored(q)
  BY <1>1, MessagesOf
<1>3. Blocks(q) = Range(Messages_of[q])
  BY <1>2 DEF Blocks, MF!ToSet, Range
<1>4. Held' = [b \in Pool!Indices |-> IF b \in Blocks(q) THEN NULL ELSE Held[b]]
  BY <1>1, HeldByFree
<1> QED BY <1>1, <1>2, <1>3, <1>4, AbstractDestroy

\* The free list and the pointers implement the sets and the sequences that the
\* other modules calculate with: which block m_alloc hands out, which insertion
\* is refused for the links of an earlier life, what destroying a queue frees.
THEOREM MemoryImplementsQueues == Spec => ImplementsQueues
<1>1. MInv /\ [Next]_memVars => [AbstractStep]_memVars
  BY CreateImplements, WriteImplements, ReadImplements, DestroyImplements
     DEF Next, AbstractStep, Create, Write, Read, Destroy
<1> QED BY <1>1, InitImplements, MInvariance, PTL DEF Spec, ImplementsQueues, AbstractStep
-----------------------------------------------------------------------------
TF == INSTANCE MemoryFacts WITH
    NULL <- Nil, size_max <- MAX_NUM_PROCESSES,
    Heads <- {"timer_list"}, Items <- TimerPool!Indices

\* MemoryFacts.tla is about the same operators under another name.
LEMMA SameTimerIndices == TF!Indices = TimerPool!Indices
BY DEF TF!Indices, TimerPool!Indices

\* The reading operators of the pool are those of MemoryFacts.tla.
LEMMA SameTimerPool ==
    ASSUME NEW a
    PROVE  /\ TF!HasBlock(a) <=> TimerPool!HasBlock(a)
           /\ TF!PoolAllocator_getBlock(a) = TimerPool!PoolAllocator_getBlock(a)
           /\ TF!FreeBlocks(a) = TimerPool!FreeBlocks(a)
           /\ TF!FreeChain(a) = TimerPool!FreeChain(a)
<1>1. TF!HasBlock(a) <=> TimerPool!HasBlock(a)
  BY DEF TF!HasBlock, TimerPool!HasBlock, TF!NullIdx, TimerPool!NullIdx
<1>2. TF!PoolAllocator_getBlock(a) = TimerPool!PoolAllocator_getBlock(a)
  BY DEF TF!PoolAllocator_getBlock, TimerPool!PoolAllocator_getBlock, TF!DetachedIdx,
         TimerPool!DetachedIdx
<1>3. TF!FreeBlocks(a) = TimerPool!FreeBlocks(a)
  BY DEF TF!FreeBlocks, TimerPool!FreeBlocks, TF!Indices, TimerPool!Indices,
         TF!Detached, TimerPool!Detached, TF!DetachedIdx, TimerPool!DetachedIdx
<1>4. TF!FreeChain(a) = TimerPool!FreeChain(a)
  BY DEF TF!FreeChain, TimerPool!FreeChain, TF!NullIdx, TimerPool!NullIdx
<1> QED BY <1>1, <1>2, <1>3, <1>4

\* So is PoolAllocator_init,
LEMMA SameTimerInit == TF!PoolAllocator_init = TimerPool!PoolAllocator_init
BY DEF TF!PoolAllocator_init, TimerPool!PoolAllocator_init, TF!Indices, TimerPool!Indices,
       TF!NullIdx, TimerPool!NullIdx

\* the soundness of a pool,
LEMMA SameTimerSound ==
    ASSUME NEW a
    PROVE  TF!PoolSound(a) <=> TimerPool!PoolSound(a)
BY SameTimerPool DEF TF!PoolSound, TimerPool!PoolSound, TF!NullIdx, TimerPool!NullIdx,
                TF!Cardinality, TimerPool!Cardinality

\* the release of one block or of a sequence,
LEMMA SameTimerRelease ==
    ASSUME NEW a, NEW i, NEW s
    PROVE  /\ TF!Detached(a, i) <=> TimerPool!Detached(a, i)
           /\ TF!PoolAllocator_releaseBlock(a, i)
                = TimerPool!PoolAllocator_releaseBlock(a, i)
           /\ TF!FoldLeft(TF!PoolAllocator_releaseBlock, a, s)
                = FoldLeft(TimerPool!PoolAllocator_releaseBlock, a, s)
<1>1. TF!Detached(a, i) <=> TimerPool!Detached(a, i)
  BY DEF TF!Detached, TimerPool!Detached, TF!DetachedIdx, TimerPool!DetachedIdx
<1>2. TF!PoolAllocator_releaseBlock(a, i) = TimerPool!PoolAllocator_releaseBlock(a, i)
  BY <1>1 DEF TF!PoolAllocator_releaseBlock, TimerPool!PoolAllocator_releaseBlock
<1>3. TF!FoldLeft(TF!PoolAllocator_releaseBlock, a, s)
        = FoldLeft(TimerPool!PoolAllocator_releaseBlock, a, s)
  BY DEF TF!FoldLeft, FoldLeft, TF!MapThenFoldSet, MapThenFoldSet, TF!Max, Max,
         TF!PoolAllocator_releaseBlock, TimerPool!PoolAllocator_releaseBlock, TF!Detached,
         TimerPool!Detached, TF!DetachedIdx, TimerPool!DetachedIdx
<1> QED BY <1>1, <1>2, <1>3

\* the release of all timers that are due,
LEMMA SameDetachAll ==
    ASSUME NEW l, NEW s
    PROVE  TF!DetachAll(l, "timer_list", s)
             = FoldLeft(LAMBDA m, i : TimerLinks!List_detach(m, "timer_list", i), l, s)
BY Zenon DEF TF!DetachAll, TF!FoldLeft, FoldLeft, TF!MapThenFoldSet, MapThenFoldSet,
             TF!Max, Max, TF!List_detach, TimerLinks!List_detach, TF!SetIf, TimerLinks!SetIf

\* and each operator of LinkedList.tla.
LEMMA SameTimerLists ==
    ASSUME NEW l, NEW h, NEW i, NEW p
    PROVE  /\ TF!List_init(l, h) = TimerLinks!List_init(l, h)
           /\ TF!List_insert(l, h, p, i) = TimerLinks!List_insert(l, h, p, i)
           /\ TF!List_detach(l, h, i) = TimerLinks!List_detach(l, h, i)
           /\ TF!Linked(l, i) <=> TimerLinks!Linked(l, i)
           /\ TF!Chain(l, h) = TimerLinks!Chain(l, h)
           /\ TF!ListSound(l, h) <=> TimerLinks!ListSound(l, h)
<1>1. TF!List_init(l, h) = TimerLinks!List_init(l, h)
  BY DEF TF!List_init, TimerLinks!List_init
<1>2. TF!Linked(l, i) <=> TimerLinks!Linked(l, i)
  BY DEF TF!Linked, TimerLinks!Linked
<1>3. TF!List_insert(l, h, p, i) = TimerLinks!List_insert(l, h, p, i)
  BY Zenon DEF TF!List_insert, TimerLinks!List_insert, TF!SetIf, TimerLinks!SetIf,
               TF!Linked, TimerLinks!Linked
<1>4. TF!List_detach(l, h, i) = TimerLinks!List_detach(l, h, i)
  BY Zenon DEF TF!List_detach, TimerLinks!List_detach, TF!SetIf, TimerLinks!SetIf
<1>5. TF!Chain(l, h) = TimerLinks!Chain(l, h)
  BY Zenon DEF TF!Chain, TimerLinks!Chain, TF!Cardinality, TimerLinks!Cardinality
<1>6. TF!ListSound(l, h) <=> TimerLinks!ListSound(l, h)
  BY <1>5 DEF TF!ListSound, TimerLinks!ListSound
<1> QED BY <1>1, <1>2, <1>3, <1>4, <1>5, <1>6

\* What TimerAssumption gives of the pool: finite, not empty, Nil outside.
LEMMA TimerConstants ==
    /\ MAX_NUM_PROCESSES \in Nat \ {0} /\ Nil \notin TimerPool!Indices
    /\ IsFiniteSet(TimerPool!Indices) /\ TF!IsFiniteSet(TimerPool!Indices)
    /\ Cardinality(TimerPool!Indices) = MAX_NUM_PROCESSES
<1>1. /\ MAX_NUM_PROCESSES \in Nat \ {0}
      /\ TimerPool!Indices \subseteq Nat /\ Nil \notin TimerPool!Indices
  BY TimerAssumption DEF TimerPool!Indices
<1>2. TF!IsFiniteSet(TimerPool!Indices) /\ TF!Cardinality(TimerPool!Indices) = MAX_NUM_PROCESSES
  BY <1>1, TF!Numbers, SameTimerIndices
<1>3. IsFiniteSet(TimerPool!Indices) /\ Cardinality(TimerPool!Indices) = MAX_NUM_PROCESSES
  BY <1>2 DEF TF!IsFiniteSet, IsFiniteSet, TF!Cardinality, Cardinality
<1> QED BY <1>1, <1>2, <1>3

\* A sum of ints is an int; an int stands for itself.
LEMMA IntOf ==
    ASSUME NEW n \in Int
    PROVE  ToInt(n) \in Int /\ (n \in IntRange => ToInt(n) = n)
<1>1. INT_MAX \in Nat
  BY TimerAssumption
<1>2. (n + INT_MAX + 1) % (2 * (INT_MAX + 1)) \in Int
  BY <1>1
<1>3. ToInt(n) \in Int
  BY <1>1, <1>2 DEF ToInt
<1>4. n \in IntRange => ToInt(n) = n
  <2> SUFFICES ASSUME n \in IntRange PROVE ToInt(n) = n
    OBVIOUS
  <2>1. n + INT_MAX + 1 >= 0 /\ n + INT_MAX + 1 < 2 * (INT_MAX + 1)
    BY <1>1 DEF IntRange
  <2>2. ASSUME NEW a \in Int, NEW b \in Int, a >= 0, a < b PROVE a % b = a
    BY <2>2
  <2>3. (n + INT_MAX + 1) % (2 * (INT_MAX + 1)) = n + INT_MAX + 1
    BY <1>1, <2>1, <2>2
  <2> QED BY <1>1, <2>3 DEF ToInt
<1> QED BY <1>3, <1>4
-----------------------------------------------------------------------------
\* The items in the list.
Listed == TF!ToSet(items)

Wake(i) == timer[i].awakening_time

\* The list and the free list share out the items of the pool; each sleeper has
\* one timer, set to the int of its tick; the timers are in the order of wake times.
TInv ==
    /\ disastrOS_time \in Nat
    /\ timers \in TF!Links
    /\ \E c : TF!IsFreeList(allocator, c)
    /\ TF!IsList(timers, "timer_list", items)
    /\ Listed = TimerPool!Indices \ TimerPool!FreeBlocks(allocator)
    /\ timer \in [TimerPool!Indices -> [pcb : PCBs \cup {Nil}, awakening_time : Int]]
    /\ due \in [PCBs -> Int \cup {Nil}]
    /\ \A i \in Listed : /\ timer[i].pcb \in PCBs /\ due[timer[i].pcb] # Nil
                         /\ Wake(i) = ToInt(due[timer[i].pcb])
    /\ \A p \in PCBs : due[p] # Nil => \E i \in Listed : timer[i].pcb = p
    /\ \A i, j \in Listed : timer[i].pcb = timer[j].pcb => i = j
    /\ \A m, n \in 1 .. Len(items) : m <= n => Wake(items[m]) <= Wake(items[n])

\* Timer_init and an empty timer list establish the invariant.
LEMMA InitTInv ==
    ASSUME TimerInit
    PROVE  TInv /\ Timers = <<>>
<1>1. timers \in TF!Links /\ TF!IsList(timers, "timer_list", <<>>)
  <2>1. TF!Distinct(<<>>)
    BY TF!EmptyList
  <2> QED BY <2>1 DEF TimerInit, TimerLinks!NoLists, TF!Links, TF!IsList
<1>2. items = <<>>
  BY <1>1, TimerConstants, TF!ChainOf, SameTimerLists DEF items
<1>3. Listed = {}
  BY <1>2, TF!EmptyList DEF Listed
<1>4. \E c : TF!IsFreeList(allocator, c)
  BY TimerConstants, TF!PoolInit, SameTimerInit DEF TimerInit
<1>5. TimerPool!FreeBlocks(allocator) = TimerPool!Indices
  BY TimerConstants DEF TimerInit, TimerPool!FreeBlocks, TimerPool!Detached,
                   TimerPool!PoolAllocator_init,
                   TimerPool!Indices, TimerPool!NullIdx, TimerPool!DetachedIdx
<1>6. Timers = <<>>
  BY <1>2 DEF Timers
<1> QED BY <1>1, <1>2, <1>3, <1>4, <1>5, <1>6 DEF TimerInit, TInv

\* The listed items are a sequence of pool blocks with wake times.
LEMMA InTimerList ==
    ASSUME TInv
    PROVE  /\ items \in Seq(TimerPool!Indices) /\ Listed \subseteq TimerPool!Indices
           /\ Len(items) \in Nat /\ DOMAIN items = 1 .. Len(items)
           /\ \A n \in 1 .. Len(items) : items[n] \in Listed /\ Wake(items[n]) \in Int
           /\ \A i \in Listed : \E n \in 1 .. Len(items) : i = items[n]
<1>1. items \in Seq(TimerPool!Indices)
  BY DEF TInv, TF!IsList
<1>2. /\ Listed \subseteq TimerPool!Indices
      /\ \A n \in 1 .. Len(items) : items[n] \in Listed
      /\ \A i \in Listed : \E n \in 1 .. Len(items) : i = items[n]
  BY <1>1, TF!ToSetType DEF Listed
<1>3. \A i \in Listed : Wake(i) \in Int
  BY <1>2 DEF TInv, Wake
<1> QED BY <1>1, <1>2, <1>3

\* The list at a time: what remains of each timer.
TimersAt(time) ==
    [n \in DOMAIN items |-> [pcb |-> timer[items[n]].pcb, left |-> Wake(items[n]) - time]]

\* The abstract timers are the listed ones with the ticks left; a tick takes one
\* from each.
LEMMA TimersAre ==
    ASSUME TInv
    PROVE  /\ Timers = TimersAt(disastrOS_time)
           /\ Ticked(Timers) = TimersAt(disastrOS_time + 1)
           /\ \A time \in Int :
                 /\ TimersAt(time) \in Seq([pcb : PCBs, left : Int])
                 /\ Len(TimersAt(time)) = Len(items)
                 /\ \A n \in 1 .. Len(items) :
                       TimersAt(time)[n] = [pcb  |-> timer[items[n]].pcb,
                                            left |-> Wake(items[n]) - time]
<1>1. Timers = TimersAt(disastrOS_time)
  BY DEF Timers, TimersAt, Wake
<1>2. ASSUME NEW time \in Int
      PROVE  /\ TimersAt(time) \in Seq([pcb : PCBs, left : Int])
             /\ Len(TimersAt(time)) = Len(items)
             /\ \A n \in 1 .. Len(items) :
                   TimersAt(time)[n] = [pcb  |-> timer[items[n]].pcb,
                                        left |-> Wake(items[n]) - time]
  <2>1. \A n \in 1 .. Len(items) :
           [pcb |-> timer[items[n]].pcb, left |-> Wake(items[n]) - time]
              \in [pcb : PCBs, left : Int]
    BY InTimerList DEF TInv
  <2>2. TimersAt(time) = [n \in 1 .. Len(items) |-> [pcb  |-> timer[items[n]].pcb,
                                                     left |-> Wake(items[n]) - time]]
    BY InTimerList DEF TimersAt
  <2> QED BY <2>1, <2>2, InTimerList
<1>3. Ticked(Timers) = TimersAt(disastrOS_time + 1)
  <2>1. disastrOS_time \in Int
    BY DEF TInv
  <2>2. DOMAIN Timers = DOMAIN items
    BY DEF Timers
  <2>3. ASSUME NEW n \in DOMAIN items
        PROVE  [Timers[n] EXCEPT !.left = @ - 1]
                 = [pcb |-> timer[items[n]].pcb,
                 left |-> Wake(items[n]) - (disastrOS_time + 1)]
    <3>1. Timers[n] = [pcb |-> timer[items[n]].pcb, left |-> Wake(items[n]) - disastrOS_time]
      BY DEF Timers, Wake
    <3>2. Wake(items[n]) \in Int
      BY InTimerList
    <3> QED BY <2>1, <3>1, <3>2
  <2> QED BY <2>2, <2>3 DEF Ticked, TimersAt
<1> QED BY <1>1, <1>2, <1>3

\* TimerList_add finds the last timer that elapses at the same tick or earlier.
LEMMA Position ==
    ASSUME TInv, NEW wake \in Int
    PROVE  \E n \in 0 .. Len(items) :
              /\ previous_item(wake) = IF n = 0 THEN Nil ELSE items[n]
              /\ TimerList_position(Timers, wake - disastrOS_time) = n + 1
              /\ \A m \in 1 .. n : Wake(items[m]) <= wake
              /\ \A m \in n + 1 .. Len(items) : wake <= Wake(items[m])
<1> DEFINE I == {m \in 1 .. Len(items) : wake < Wake(items[m])}
           k == IF I # {} THEN TF!Min(I) ELSE 0
           n == IF k = 0 THEN Len(items) ELSE k - 1
           J == {m \in 1 .. Len(Timers) : wake - disastrOS_time < Timers[m].left}
<1>1. /\ I = {} => k = 0
      /\ I # {} => k \in I /\ \A i \in I : k <= i
  <2>1. I \in SUBSET (1 .. Len(items)) /\ Len(items) \in Nat
    BY InTimerList
  <2> HIDE DEF I
  <2> QED BY <2>1, TF!FirstPlace
<1>2. previous_item(wake) = IF n = 0 THEN Nil ELSE items[n]
  BY Zenon DEF previous_item, SelectInSeq, Wake, TF!Min, Min
<1>3. J = I /\ Len(Timers) = Len(items)
  <2>1. disastrOS_time \in Int
    BY DEF TInv
  <2>2. /\ Len(Timers) = Len(items)
        /\ \A m \in 1 .. Len(items) : Timers[m].left = Wake(items[m]) - disastrOS_time
    <3> HIDE DEF I, J, k, n
    <3>1. \A m \in 1 .. Len(items) :
             Timers[m] = [pcb |-> timer[items[m]].pcb,
             left |-> Wake(items[m]) - disastrOS_time]
      BY <2>1, TimersAre
    <3>2. Len(Timers) = Len(items)
      BY <2>1, TimersAre
    <3>3. ASSUME NEW m \in 1 .. Len(items)
          PROVE  Timers[m].left = Wake(items[m]) - disastrOS_time
      <4>1. Timers[m] = [pcb |-> timer[items[m]].pcb, left |-> Wake(items[m]) - disastrOS_time]
        BY <3>1
      <4>2. \A x, y : [pcb |-> x, left |-> y].left = y
        OBVIOUS
      <4> QED BY ONLY <4>1, <4>2
    <3> QED BY <3>2, <3>3
  <2>3. \A m \in 1 .. Len(items) :
           wake < Wake(items[m]) <=> wake - disastrOS_time < Wake(items[m]) - disastrOS_time
    BY <2>1, InTimerList
  <2> QED BY <2>2, <2>3
<1>4. TimerList_position(Timers, wake - disastrOS_time)
        = IF k = 0 THEN Len(items) + 1 ELSE k
  <2>1. TimerList_position(Timers, wake - disastrOS_time)
          = LET j == IF J # {} THEN Min(J) ELSE 0 IN IF j = 0 THEN Len(Timers) + 1 ELSE j
    BY Zenon DEF TimerList_position, SelectInSeq
  <2> HIDE DEF J, I
  <2> QED BY <1>3, <2>1 DEF TF!Min, Min
<1>5. /\ n \in 0 .. Len(items)
      /\ TimerList_position(Timers, wake - disastrOS_time) = n + 1
      /\ \A m \in 1 .. n : m \in 1 .. Len(items) /\ m \notin I
      /\ \A m \in n + 1 .. Len(items) : I # {} /\ k \in 1 .. Len(items) /\ k <= m
                                           /\ m \in 1 .. Len(items)
  <2>1. Len(items) \in Nat
    BY InTimerList
  <2>2. CASE I = {}
    BY <1>1, <1>4, <2>1, <2>2
  <2>3. CASE I # {}
    <3>1. k \in 1 .. Len(items) /\ \A i \in I : k <= i
      BY <1>1, <2>3
    <3> HIDE DEF I, k
    <3> QED BY <1>4, <2>1, <2>3, <3>1
  <2> QED BY <2>2, <2>3
<1>6. \A m \in 1 .. n : Wake(items[m]) <= wake
  <2>1. \A m \in 1 .. Len(items) : Wake(items[m]) \in Int /\ (m \notin I => ~ wake < Wake(items[m]))
    BY InTimerList
  <2> HIDE DEF I, k, n
  <2> QED BY <1>5, <2>1
<1>7. \A m \in n + 1 .. Len(items) : wake <= Wake(items[m])
  <2> SUFFICES ASSUME NEW m \in n + 1 .. Len(items) PROVE wake <= Wake(items[m])
    OBVIOUS
  <2>1. /\ k \in 1 .. Len(items) /\ m \in 1 .. Len(items) /\ k <= m
        /\ wake < Wake(items[k])
    BY <1>1, <1>5
  <2>2. Wake(items[k]) <= Wake(items[m])
    BY <2>1 DEF TInv
  <2>3. Wake(items[k]) \in Int /\ Wake(items[m]) \in Int
    BY <2>1, InTimerList
  <2> HIDE DEF k, n
  <2> QED BY <2>1, <2>2, <2>3
<1> HIDE DEF I, k, n
<1> QED BY <1>2, <1>5, <1>6, <1>7
-----------------------------------------------------------------------------
\* internal_sleep finds a free item, and List_insert puts it where TimerList_add
\* of TimerLists.tla puts the timer.
LEMMA SleepStep ==
    ASSUME TInv, NEW p \in PCBs, NEW cycles \in SleepTimes, Sleep(p, cycles),
           NEW wake, wake = ToInt(disastrOS_time + cycles)
    PROVE  /\ TInv'
           /\ Timers' = TimerList_add(Timers, wake - disastrOS_time, p)
           /\ \E m \in 1 .. Len(Timers') :
                 Timers'[m] = [pcb |-> p, left |-> wake - disastrOS_time]
<1> DEFINE L == Len(items)
<1> PICK i : i = allocator.first_idx
  OBVIOUS
<1>1. /\ disastrOS_time \in Int /\ disastrOS_time + cycles \in Int /\ wake \in Int
      /\ disastrOS_time' = disastrOS_time
      /\ due' = [due EXCEPT ![p] = disastrOS_time + cycles] /\ due[p] = Nil
      /\ timer' = [timer EXCEPT ![i] = [pcb |-> p, awakening_time |-> wake]]
  BY IntOf, TimerAssumption DEF TInv, Sleep
<1>2. /\ i \in TimerPool!Indices /\ i \in TimerPool!FreeBlocks(allocator)
      /\ \E d : TF!IsFreeList(allocator', d)
      /\ TimerPool!FreeBlocks(allocator') = TimerPool!FreeBlocks(allocator) \ {i}
  <2>1. PICK c : TF!IsFreeList(allocator, c)
    BY DEF TInv
  <2>2. TF!HasBlock(allocator) /\ allocator' = TF!PoolAllocator_getBlock(allocator)
    BY SameTimerPool DEF Sleep
  <2>3. /\ i = Head(c) /\ i \in TF!Indices /\ c # <<>>
        /\ TF!IsFreeList(allocator', Tail(c))
        /\ TF!FreeBlocks(allocator') = TF!FreeBlocks(allocator) \ {i}
    BY <2>1, <2>2, TimerConstants, TF!PoolGet
  <2>4. i \in TF!FreeBlocks(allocator)
    <3>1. TF!FreeBlocks(allocator) = TF!ToSet(c) /\ c \in Seq(TF!Indices)
      BY <2>1 DEF TF!IsFreeList
    <3> QED BY <2>3, <3>1, TF!TailList
  <2> QED BY <2>3, <2>4, SameTimerIndices, SameTimerPool
<1>3. PICK n \in 0 .. L :
         /\ previous_item(wake) = IF n = 0 THEN Nil ELSE items[n]
         /\ TimerList_position(Timers, wake - disastrOS_time) = n + 1
         /\ \A m \in 1 .. n : Wake(items[m]) <= wake
         /\ \A m \in n + 1 .. L : wake <= Wake(items[m])
  BY <1>1, Position
<1> PICK d : d = TF!InsertAt(items, n + 1, i)
  OBVIOUS
<1>4. timers' \in TF!Links /\ TF!IsList(timers', "timer_list", d)
  <2> DEFINE l == [timers EXCEPT !.prev[i] = Nil, !.next[i] = Nil]
  <2>1. /\ l \in TF!Links /\ ~ TF!Linked(l, i) /\ TF!Untouched(l, timers, "timer_list")
        /\ \A j \in TimerPool!Indices \ {i} :
              l.next[j] = timers.next[j] /\ l.prev[j] = timers.prev[j]
    <3>1. timers \in TF!Links /\ l = TF!Unlinked(timers, i)
      BY DEF TInv, TF!Unlinked
    <3> HIDE DEF l
    <3> QED BY <1>2, <3>1, TF!Unlink
  <2>2. timers' = TF!List_insert(l, "timer_list", previous_item(wake), i)
    BY SameTimerLists DEF Sleep
  <2> HIDE DEF l
  <2>3. i \notin TF!ToSet(items)
    BY <1>2 DEF TInv, Listed
  <2>4. TF!IsList(l, "timer_list", items)
    <3>1. TF!IsList(timers, "timer_list", items)
      BY DEF TInv
    <3>2. \A j \in TF!ToSet(items) : l.next[j] = timers.next[j] /\ l.prev[j] = timers.prev[j]
      BY <2>1, <2>3, InTimerList DEF Listed
    <3> QED BY <2>1, <3>1, <3>2, TF!SameList DEF TF!Untouched
  <2> QED BY <1>2, <1>3, <2>1, <2>2, <2>3, <2>4, TimerConstants, TF!InsertInList
<1>5. items' = d
  BY <1>4, TimerConstants, TF!ChainOf, SameTimerLists DEF items
<1>6. /\ d \in Seq(TimerPool!Indices) /\ Len(d) = L + 1 /\ L \in Nat /\ n + 1 \in 1 .. L + 1
      /\ TF!ToSet(d) = Listed \cup {i}
      /\ \A m \in 1 .. L + 1 :
            d[m] = IF m < n + 1 THEN items[m] ELSE IF m = n + 1 THEN i ELSE items[m-1]
  <2>1. items \in Seq(TimerPool!Indices) /\ L \in Nat /\ n + 1 \in 1 .. L + 1
    BY InTimerList
  <2>2. /\ DOMAIN d = 1 .. L + 1
        /\ \A m \in 1 .. L + 1 :
              d[m] = IF m < n + 1 THEN items[m] ELSE IF m = n + 1 THEN i ELSE items[m-1]
    BY <1>2, <2>1, TF!InsertPlaces
  <2>3. d \in Seq(TimerPool!Indices) /\ TF!ToSet(d) = Listed \cup {i}
    BY <1>2, <2>1, TF!InsertList DEF Listed
  <2> HIDE DEF L
  <2>4. Len(d) = L + 1
    BY <2>1, <2>2, <2>3
  <2> QED BY <2>1, <2>2, <2>3, <2>4
<1>7. Listed' = Listed \cup {i} /\ i \notin Listed
  BY <1>2, <1>5, <1>6 DEF Listed, TInv
<1>8. /\ timer' \in [TimerPool!Indices -> [pcb : PCBs \cup {Nil}, awakening_time : Int]]
      /\ \A j \in Listed : timer'[j] = timer[j] /\ timer'[j].awakening_time = Wake(j)
      /\ timer'[i] = [pcb |-> p, awakening_time |-> wake] /\ timer'[i].awakening_time = wake
  BY <1>1, <1>2, <1>7, InTimerList DEF TInv, Wake
<1>9. \A m, r \in 1 .. Len(items') : m <= r =>
         timer'[items'[m]].awakening_time <= timer'[items'[r]].awakening_time
  <2> SUFFICES ASSUME NEW m \in 1 .. L + 1, NEW r \in 1 .. L + 1, m <= r
               PROVE  timer'[d[m]].awakening_time <= timer'[d[r]].awakening_time
    BY <1>5, <1>6
  <2>0. /\ m \in Nat /\ r \in Nat /\ n \in Nat /\ L \in Nat
        /\ m < n + 1 => m \in 1 .. n /\ m \in 1 .. L
        /\ m > n + 1 => m - 1 \in n + 1 .. L /\ m - 1 \in 1 .. L
        /\ r < n + 1 => r \in 1 .. n /\ r \in 1 .. L
        /\ r > n + 1 => r - 1 \in n + 1 .. L /\ r - 1 \in 1 .. L
    BY <1>6
  <2>1. ASSUME NEW x \in 1 .. L + 1
        PROVE  timer'[d[x]].awakening_time = IF x < n + 1 THEN Wake(items[x])
                             ELSE IF x = n + 1 THEN wake ELSE Wake(items[x-1])
    <3>1. x < n + 1 => x \in 1 .. L
      BY <1>6
    <3>2. x > n + 1 => x - 1 \in 1 .. L
      BY <1>6
    <3>3. x < n + 1 \/ x = n + 1 \/ x > n + 1
      BY <1>6
    <3>4. CASE x < n + 1
      BY <1>6, <1>8, <3>1, <3>4, InTimerList
    <3>5. CASE x = n + 1
      BY <1>6, <1>8, <3>5
    <3>6. CASE x > n + 1
      <4>1. d[x] = items[x-1]
        BY <1>6, <3>6
      <4> QED BY <1>6, <1>8, <3>2, <3>6, <4>1, InTimerList
    <3> QED BY <3>3, <3>4, <3>5, <3>6
  <2>2. \A x, y \in 1 .. L : x <= y => Wake(items[x]) <= Wake(items[y])
    BY DEF TInv
  <2>3. CASE m < n + 1 /\ r < n + 1
    BY <2>0, <2>1, <2>2, <2>3
  <2>4. CASE m < n + 1 /\ r = n + 1
    BY <1>3, <2>0, <2>1, <2>4
  <2>5. CASE m < n + 1 /\ r > n + 1
    <3>1. m <= r - 1
      BY <2>0, <2>5
    <3> QED BY <2>0, <2>1, <2>2, <2>5, <3>1
  <2>6. CASE m = n + 1 /\ r = n + 1
    BY <1>1, <2>0, <2>1, <2>6
  <2>7. CASE m = n + 1 /\ r > n + 1
    BY <1>3, <2>0, <2>1, <2>7
  <2>8. CASE m > n + 1 /\ r > n + 1
    <3>1. m - 1 <= r - 1
      BY <2>0
    <3> QED BY <2>0, <2>1, <2>2, <2>8, <3>1
  <2> QED BY <2>0, <2>3, <2>4, <2>5, <2>6, <2>7, <2>8
<1>10. /\ due' \in [PCBs -> Int \cup {Nil}]
       /\ \A j \in Listed' : /\ timer'[j].pcb \in PCBs /\ due'[timer'[j].pcb] # Nil
                             /\ timer'[j].awakening_time = ToInt(due'[timer'[j].pcb])
       /\ \A q \in PCBs : due'[q] # Nil => \E j \in Listed' : timer'[j].pcb = q
       /\ \A j, k \in Listed' : timer'[j].pcb = timer'[k].pcb => j = k
  <2>1. due \in [PCBs -> Int \cup {Nil}] /\ Nil \notin Int
    BY TimerAssumption DEF TInv
  <2>2. due' \in [PCBs -> Int \cup {Nil}] /\ due'[p] = disastrOS_time + cycles
        /\ \A q \in PCBs \ {p} : due'[q] = due[q]
    BY <1>1, <2>1
  <2>3. \A j \in Listed : timer[j].pcb \in PCBs \ {p} /\ timer'[j].pcb = timer[j].pcb
    BY <1>1, <1>8 DEF TInv
  <2>4. timer'[i].pcb = p
    BY <1>8
  <2>5. \A j \in Listed' : /\ timer'[j].pcb \in PCBs /\ due'[timer'[j].pcb] # Nil
                           /\ timer'[j].awakening_time = ToInt(due'[timer'[j].pcb])
    <3>1. \A j \in Listed : /\ due[timer[j].pcb] # Nil
                            /\ Wake(j) = ToInt(due[timer[j].pcb])
      BY DEF TInv
    <3>2. due'[p] # Nil /\ timer'[i].awakening_time = ToInt(due'[p])
      BY <1>1, <1>8, <2>1, <2>2
    <3> QED BY <1>7, <1>8, <2>2, <2>3, <2>4, <3>1, <3>2
  <2>6. \A q \in PCBs : due'[q] # Nil => \E j \in Listed' : timer'[j].pcb = q
    <3>1. \A q \in PCBs : due[q] # Nil => \E j \in Listed : timer[j].pcb = q
      BY DEF TInv
    <3> QED BY <1>7, <2>2, <2>3, <2>4, <3>1
  <2>7. \A j, k \in Listed' : timer'[j].pcb = timer'[k].pcb => j = k
    BY <1>7, <2>3, <2>4 DEF TInv
  <2> QED BY <2>2, <2>5, <2>6, <2>7
<1>11. TInv'
  <2>1. Listed' = TimerPool!Indices \ TimerPool!FreeBlocks(allocator')
    BY <1>2, <1>7 DEF TInv
  <2>2. TF!IsList(timers', "timer_list", items')
    BY <1>4, <1>5
  <2>3. disastrOS_time' \in Nat
    BY <1>1 DEF TInv
  <2> QED BY <1>2, <1>4, <1>8, <1>9, <1>10, <2>1, <2>2, <2>3 DEF TInv, Wake
<1>12. /\ Timers' = TimerList_add(Timers, wake - disastrOS_time, p)
       /\ \E m \in 1 .. Len(Timers') :
             Timers'[m] = [pcb |-> p, left |-> wake - disastrOS_time]
  <2> DEFINE e == [pcb |-> p, left |-> wake - disastrOS_time]
             u == TF!InsertAt(Timers, n + 1, e)
  <2>1. TimerList_add(Timers, wake - disastrOS_time, p) = u
    BY <1>3 DEF TimerList_add, InsertAt, TF!InsertAt
  <2>2. /\ Timers \in Seq([pcb : PCBs, left : Int]) /\ Len(Timers) = L
        /\ e \in [pcb : PCBs, left : Int]
        /\ \A m \in 1 .. L : Timers[m] = [pcb  |-> timer[items[m]].pcb,
                                          left |-> Wake(items[m]) - disastrOS_time]
    <3>1. e \in [pcb : PCBs, left : Int]
      BY <1>1
    <3> HIDE DEF e
    <3>2. Timers = TimersAt(disastrOS_time)
      BY TimersAre
    <3>3. /\ TimersAt(disastrOS_time) \in Seq([pcb : PCBs, left : Int])
          /\ Len(TimersAt(disastrOS_time)) = L
          /\ \A m \in 1 .. L :
                TimersAt(disastrOS_time)[m] = [pcb  |-> timer[items[m]].pcb,
                                               left |-> Wake(items[m]) - disastrOS_time]
      BY <1>1, TimersAre
    <3> QED BY <3>1, <3>2, <3>3
  <2> HIDE DEF e
  <2>3. /\ DOMAIN u = 1 .. L + 1 /\ u \in Seq([pcb : PCBs, left : Int])
        /\ \A m \in 1 .. L + 1 :
              u[m] = IF m < n + 1 THEN Timers[m] ELSE IF m = n + 1 THEN e ELSE Timers[m-1]
    <3>1. n + 1 \in 1 .. Len(Timers) + 1
      BY <1>6, <2>2
    <3>2. /\ DOMAIN u = 1 .. Len(Timers) + 1
          /\ \A m \in 1 .. Len(Timers) + 1 :
                u[m] = IF m < n + 1 THEN Timers[m] ELSE IF m = n + 1 THEN e ELSE Timers[m-1]
      <4> DEFINE S == [pcb : PCBs, left : Int]
      <4>1. Timers \in Seq(S) /\ e \in S
        BY <2>2
      <4> HIDE DEF S
      <4> QED BY <3>1, <4>1, TF!InsertPlaces
    <3>3. u \in Seq([pcb : PCBs, left : Int])
      BY <2>2, <3>1, TF!InsertList
    <3> HIDE DEF u
    <3> QED BY <2>2, <3>2, <3>3
  <2> HIDE DEF u
  <2>4. Len(u) = L + 1
    BY <1>6, <2>3
  <2>5. Timers' = [m \in DOMAIN d |-> [pcb  |-> timer'[d[m]].pcb,
                                       left |-> timer'[d[m]].awakening_time - disastrOS_time]]
    BY <1>1, <1>5 DEF Timers
  <2>6. DOMAIN d = 1 .. L + 1
    BY <1>6
  <2>7. ASSUME NEW m \in 1 .. L + 1
        PROVE  [pcb  |-> timer'[d[m]].pcb,
                left |-> timer'[d[m]].awakening_time - disastrOS_time] = u[m]
    <3>1. CASE m < n + 1
      <4>1. m \in 1 .. L /\ d[m] = items[m] /\ u[m] = Timers[m]
        BY <1>6, <2>3, <3>1
      <4>2. timer'[d[m]] = timer[items[m]]
        BY <1>8, <4>1, InTimerList
      <4> QED BY <2>2, <4>1, <4>2 DEF Wake
    <3>2. CASE m = n + 1
      <4>1. d[m] = i /\ u[m] = e
        BY <1>6, <2>3, <3>2
      <4>2. timer'[i].pcb = p /\ timer'[i].awakening_time = wake
        BY <1>8
      <4> QED BY <4>1, <4>2 DEF e
    <3>3. CASE m > n + 1
      <4>0. m - 1 \in 1 .. L
        BY <1>6, <3>3
      <4>1. m - 1 \in 1 .. L /\ d[m] = items[m-1] /\ u[m] = Timers[m-1]
        BY <1>6, <2>3, <3>3, <4>0
      <4>2. timer'[d[m]] = timer[items[m-1]]
        BY <1>8, <4>1, InTimerList
      <4> QED BY <2>2, <4>1, <4>2 DEF Wake
    <3> QED BY <1>6, <3>1, <3>2, <3>3
  <2>8. Timers' = u
    <3>1. u = [m \in 1 .. L + 1 |-> u[m]]
      BY <2>3
    <3> QED BY <2>5, <2>6, <2>7, <3>1
  <2>9. n + 1 \in 1 .. Len(Timers') /\ Timers'[n + 1] = e
    <3>1. u[n + 1] = e
      BY <1>6, <2>3
    <3> QED BY <1>6, <2>4, <2>8, <3>1
  <2> QED BY <2>1, <2>8, <2>9 DEF e
<1> QED BY <1>11, <1>12
-----------------------------------------------------------------------------
\* The timers that the loop of internal_schedule takes: the first g of the list.
LEMMA Elapsing ==
    ASSUME TInv, NEW time \in Int, internal_schedule(time)
    PROVE  \E g \in 0 .. Len(items) : \E gone :
              /\ gone = SubSeq(items, 1, g)
              /\ timers' = FoldLeft(LAMBDA l, i : TimerLinks!List_detach(l, "timer_list", i),
                                    timers, gone)
              /\ allocator' = FoldLeft(TimerPool!PoolAllocator_releaseBlock, allocator, gone)
              /\ due' = [p \in PCBs |-> IF \E i \in ToSet(gone) : timer[i].pcb = p
                                          THEN Nil ELSE due[p]]
              /\ timer' = timer
              /\ NumElapsed(TimersAt(time)) = g
              /\ \A m \in 1 .. g : Wake(items[m]) <= time
              /\ \A m \in g + 1 .. Len(items) : Wake(items[m]) > time
<1> DEFINE I == {m \in 1 .. Len(items) : ~ Elapses(items[m], time)}
           k == IF I # {} THEN TF!Min(I) ELSE 0
           g == IF k = 0 THEN Len(items) ELSE k - 1
           J == {m \in 1 .. Len(TimersAt(time)) : TimersAt(time)[m].left > 0}
<1>1. /\ I = {} => k = 0
      /\ I # {} => k \in I /\ \A i \in I : k <= i
  <2>1. I \in SUBSET (1 .. Len(items)) /\ Len(items) \in Nat
    BY InTimerList
  <2> HIDE DEF I
  <2> QED BY <2>1, TF!FirstPlace
<1>2. /\ timers' = FoldLeft(LAMBDA l, i : TimerLinks!List_detach(l, "timer_list", i),
                            timers, SubSeq(items, 1, g))
      /\ allocator' = FoldLeft(TimerPool!PoolAllocator_releaseBlock, allocator, SubSeq(items, 1, g))
      /\ due' = [p \in PCBs |-> IF \E i \in ToSet(SubSeq(items, 1, g)) : timer[i].pcb = p
                                  THEN Nil ELSE due[p]]
      /\ timer' = timer
  BY Zenon DEF internal_schedule, SelectInSeq, Timer_free, TF!Min, Min
<1>3. \A m \in 1 .. Len(items) :
         /\ Wake(items[m]) \in Int
         /\ m \in I <=> Wake(items[m]) > time
  BY InTimerList DEF Elapses, Wake
<1>4. J = I /\ Len(TimersAt(time)) = Len(items)
  <2> HIDE DEF I
  <2>1. Len(TimersAt(time)) = Len(items)
    BY TimersAre
  <2>2. ASSUME NEW m \in 1 .. Len(items)
        PROVE  TimersAt(time)[m].left = Wake(items[m]) - time
    <3>1. TimersAt(time)[m] = [pcb |-> timer[items[m]].pcb, left |-> Wake(items[m]) - time]
      BY TimersAre
    <3>2. \A x, y : [pcb |-> x, left |-> y].left = y
      OBVIOUS
    <3> QED BY ONLY <3>1, <3>2
  <2>3. \A m \in 1 .. Len(items) : Wake(items[m]) > time <=> Wake(items[m]) - time > 0
    BY <1>3
  <2>4. I \subseteq 1 .. Len(items)
    BY DEF I
  <2> QED BY <1>3, <2>1, <2>2, <2>3, <2>4
<1>5. NumElapsed(TimersAt(time)) = g
  <2>1. NumElapsed(TimersAt(time))
          = LET j == IF J # {} THEN Min(J) ELSE 0
            IN  IF j = 0 THEN Len(TimersAt(time)) ELSE j - 1
    BY Zenon DEF NumElapsed, SelectInSeq
  <2> HIDE DEF J, I
  <2> QED BY <1>4, <2>1 DEF TF!Min, Min
<1>6. /\ g \in 0 .. Len(items)
      /\ \A m \in 1 .. g : m \in 1 .. Len(items) /\ m \notin I
      /\ \A m \in g + 1 .. Len(items) : I # {} /\ k \in I /\ k <= m
                                           /\ k \in 1 .. Len(items) /\ m \in 1 .. Len(items)
  <2>1. Len(items) \in Nat
    BY InTimerList
  <2>2. CASE I = {}
    BY <1>1, <2>1, <2>2
  <2>3. CASE I # {}
    <3>1. k \in I /\ k \in 1 .. Len(items) /\ \A i \in I : k <= i
      BY <1>1, <2>3
    <3> HIDE DEF I, k
    <3> QED BY <2>1, <2>3, <3>1
  <2> QED BY <2>2, <2>3
<1> HIDE DEF I, k, g, J
<1>7. \A m \in 1 .. g : Wake(items[m]) <= time
  BY <1>3, <1>6
<1>8. ASSUME NEW m \in g + 1 .. Len(items)
      PROVE  Wake(items[m]) > time
  <2>1. /\ k \in 1 .. Len(items) /\ m \in 1 .. Len(items) /\ k <= m
        /\ Wake(items[k]) > time
    BY <1>3, <1>6
  <2>2. Wake(items[k]) <= Wake(items[m])
    BY <2>1 DEF TInv
  <2> QED BY <1>3, <2>1, <2>2
<1> QED BY <1>2, <1>5, <1>6, <1>7, <1>8

\* internal_schedule takes out the items due, which are the first ones, and frees
\* them; they are those whose process asked to wake by now.
LEMMA ScheduleStep ==
    ASSUME TInv, NEW time \in Nat, internal_schedule(time),
           disastrOS_time' = time
    PROVE  /\ TInv'
           /\ Timers' = Remaining(TimersAt(time))
           /\ \A p \in PCBs :
                 due'[p] = IF due[p] # Nil /\ ToInt(due[p]) <= time THEN Nil ELSE due[p]
<1> DEFINE L == Len(items)
<1>1. time \in Int /\ items \in Seq(TimerPool!Indices) /\ L \in Nat /\ TF!Distinct(items)
  BY InTimerList DEF TInv, TF!IsList
<1>0. PICK g \in 0 .. L : \E gone :
              /\ gone = SubSeq(items, 1, g)
              /\ timers' = FoldLeft(LAMBDA l, i : TimerLinks!List_detach(l, "timer_list", i),
                                    timers, gone)
              /\ allocator' = FoldLeft(TimerPool!PoolAllocator_releaseBlock, allocator, gone)
              /\ due' = [p \in PCBs |-> IF \E i \in ToSet(gone) : timer[i].pcb = p
                                          THEN Nil ELSE due[p]]
              /\ timer' = timer
              /\ NumElapsed(TimersAt(time)) = g
              /\ \A m \in 1 .. g : Wake(items[m]) <= time
              /\ \A m \in g + 1 .. L : Wake(items[m]) > time
  BY <1>1, Elapsing
<1>2. PICK gone :
              /\ gone = SubSeq(items, 1, g)
              /\ timers' = FoldLeft(LAMBDA l, i : TimerLinks!List_detach(l, "timer_list", i),
                                    timers, gone)
              /\ allocator' = FoldLeft(TimerPool!PoolAllocator_releaseBlock, allocator, gone)
              /\ due' = [p \in PCBs |-> IF \E i \in ToSet(gone) : timer[i].pcb = p
                                          THEN Nil ELSE due[p]]
              /\ timer' = timer
              /\ NumElapsed(TimersAt(time)) = g
              /\ \A m \in 1 .. g : Wake(items[m]) <= time
              /\ \A m \in g + 1 .. L : Wake(items[m]) > time
  BY <1>0
<1>3. PICK d : d = SubSeq(items, g + 1, L)
  OBVIOUS
<1>4. /\ gone \in Seq(TimerPool!Indices) /\ DOMAIN gone = 1 .. g /\ Len(gone) = g
      /\ \A m \in 1 .. g : gone[m] = items[m]
      /\ d \in Seq(TimerPool!Indices) /\ DOMAIN d = 1 .. L - g /\ Len(d) = L - g
      /\ \A m \in 1 .. L - g : d[m] = items[g + m]
  <2>1. /\ gone \in Seq(TimerPool!Indices) /\ DOMAIN gone = 1 .. g
        /\ \A m \in 1 .. g : gone[m] = items[m]
        /\ d \in Seq(TimerPool!Indices) /\ DOMAIN d = 1 .. L - g
        /\ \A m \in 1 .. L - g : d[m] = items[g + m]
    <3>1. /\ SubSeq(items, 1, g) \in Seq(TimerPool!Indices)
          /\ DOMAIN SubSeq(items, 1, g) = 1 .. g
          /\ \A m \in 1 .. g : SubSeq(items, 1, g)[m] = items[m]
          /\ SubSeq(items, g + 1, L) \in Seq(TimerPool!Indices)
          /\ DOMAIN SubSeq(items, g + 1, L) = 1 .. L - g
          /\ \A m \in 1 .. L - g : SubSeq(items, g + 1, L)[m] = items[g + m]
      BY <1>1, TF!CutPlaces
    <3>2. gone = SubSeq(items, 1, g) /\ d = SubSeq(items, g + 1, L)
      BY <1>2, <1>3
    <3> QED BY <3>1, <3>2
  <2>2. Len(gone) = g /\ Len(d) = L - g
    BY <1>1, <2>1
  <2> QED BY <2>1, <2>2
<1>5. timers' \in TF!Links /\ TF!IsList(timers', "timer_list", d)
  <2>1. timers' = TF!DetachAll(timers, "timer_list", gone)
    BY <1>2, SameDetachAll
  <2>2. timers \in TF!Links /\ TF!IsList(timers, "timer_list", items)
    BY DEF TInv
  <2> QED BY <1>2, <1>3, <2>1, <2>2, TimerConstants, TF!DetachPrefix
<1>6. items' = d
  BY <1>5, TimerConstants, TF!ChainOf, SameTimerLists DEF items
<1>7. /\ \A i : i \in ToSet(gone) <=> \E m \in 1 .. g : i = items[m]
      /\ \A i : i \in Listed' <=> \E m \in g + 1 .. L : i = items[m]
      /\ TF!ToSet(gone) = ToSet(gone) /\ Listed' = TF!ToSet(d)
  <2>1. TF!ToSet(gone) = ToSet(gone) /\ Listed' = TF!ToSet(d)
    BY <1>6 DEF TF!ToSet, ToSet, Listed
  <2>2. \A i : i \in ToSet(gone) <=> \E m \in 1 .. g : i = items[m]
    BY <1>4 DEF ToSet
  <2>3. ASSUME NEW i PROVE i \in TF!ToSet(d) <=> \E m \in g + 1 .. L : i = items[m]
    <3>1. ASSUME NEW m \in 1 .. L - g PROVE g + m \in g + 1 .. L
      BY <1>1
    <3>2. ASSUME NEW m \in g + 1 .. L PROVE m - g \in 1 .. L - g /\ g + (m - g) = m
      BY <1>1
    <3>3. i \in TF!ToSet(d) <=> \E m \in 1 .. L - g : i = d[m]
      BY <1>4, TF!ToSetType
    <3>4. ASSUME NEW m \in 1 .. L - g, i = d[m] PROVE \E r \in g + 1 .. L : i = items[r]
      BY <1>4, <3>1, <3>4
    <3>5. ASSUME NEW m \in g + 1 .. L, i = items[m] PROVE \E r \in 1 .. L - g : i = d[r]
      <4>1. m - g \in 1 .. L - g /\ d[m - g] = items[m]
        BY <1>4, <3>2
      <4> QED BY <3>5, <4>1
    <3> QED BY <3>3, <3>4, <3>5
  <2> QED BY <2>1, <2>2, <2>3
<1>8. /\ \A i : i \in Listed <=> i \in ToSet(gone) \/ i \in Listed'
      /\ ToSet(gone) \cap Listed' = {}
  <2>1. \A i : i \in Listed <=> \E m \in 1 .. L : i = items[m]
    BY InTimerList
  <2>2. \A m : m \in 1 .. L <=> m \in 1 .. g \/ m \in g + 1 .. L
    BY <1>1
  <2>3. \A m \in 1 .. g, r \in g + 1 .. L : m # r /\ m \in 1 .. L /\ r \in 1 .. L
    BY <1>1
  <2>4. \A m, r \in 1 .. L : items[m] = items[r] => m = r
    BY <1>1 DEF TF!Distinct
  <2>5. ToSet(gone) \cap Listed' = {}
    BY <1>7, <2>3, <2>4
  <2>6. \A i : i \in Listed <=> i \in ToSet(gone) \/ i \in Listed'
    BY <1>7, <2>1, <2>2
  <2> QED BY <2>5, <2>6
<1>9. /\ \E c : TF!IsFreeList(allocator', c)
      /\ TimerPool!FreeBlocks(allocator') = TimerPool!FreeBlocks(allocator) \cup ToSet(gone)
  <2>1. PICK c : TF!IsFreeList(allocator, c)
    BY DEF TInv
  <2>2. allocator' = TF!FoldLeft(TF!PoolAllocator_releaseBlock, allocator, gone)
    BY <1>2, SameTimerRelease
  <2>3. TF!Distinct(gone)
    <3>1. \A m \in 1 .. g : m \in 1 .. L
      BY <1>1
    <3> QED BY <1>1, <1>4, <3>1 DEF TF!Distinct
  <2>4. ASSUME NEW m \in 1 .. Len(gone) PROVE TF!Detached(allocator, gone[m])
    <3>1. gone[m] \in TimerPool!Indices /\ gone[m] \notin TimerPool!FreeBlocks(allocator)
      <4>1. gone[m] \in TimerPool!Indices /\ gone[m] \in ToSet(gone)
        BY <1>4, <1>7
      <4>2. gone[m] \in Listed
        BY <1>8, <4>1
      <4>3. Listed = TimerPool!Indices \ TimerPool!FreeBlocks(allocator)
        BY DEF TInv
      <4> QED BY <4>1, <4>2, <4>3
    <3> QED BY <3>1, SameTimerRelease DEF TimerPool!FreeBlocks
  <2>5. /\ \E c2 : TF!IsFreeList(allocator', c2)
        /\ TF!FreeBlocks(allocator') = TF!FreeBlocks(allocator) \cup TF!ToSet(gone)
    BY <1>4, <2>1, <2>2, <2>3, <2>4, TimerConstants, SameTimerIndices, TF!ReleaseAll
  <2> QED BY <1>7, <2>5, SameTimerPool
<1>10. \A p \in PCBs :
          due'[p] = IF due[p] # Nil /\ ToInt(due[p]) <= time THEN Nil ELSE due[p]
  <2> SUFFICES ASSUME NEW p \in PCBs
               PROVE  due'[p] = IF due[p] # Nil /\ ToInt(due[p]) <= time THEN Nil ELSE due[p]
    OBVIOUS
  <2>1. due'[p] = IF \E i \in ToSet(gone) : timer[i].pcb = p THEN Nil ELSE due[p]
    BY <1>2
  <2>2. (\E i \in ToSet(gone) : timer[i].pcb = p) => ToInt(due[p]) <= time /\ due[p] # Nil
    <3> SUFFICES ASSUME NEW i \in ToSet(gone), timer[i].pcb = p
                 PROVE  ToInt(due[p]) <= time /\ due[p] # Nil
      OBVIOUS
    <3>1. i \in Listed /\ Wake(i) <= time
      BY <1>2, <1>7, <1>8
    <3> QED BY <3>1 DEF TInv
  <2>3. ASSUME due[p] # Nil, ToInt(due[p]) <= time
        PROVE  \E i \in ToSet(gone) : timer[i].pcb = p
    <3>1. PICK i \in Listed : timer[i].pcb = p
      BY <2>3 DEF TInv
    <3>2. Wake(i) <= time /\ Wake(i) \in Int
      <4>1. Wake(i) = ToInt(due[timer[i].pcb])
        BY <3>1 DEF TInv
      <4>2. \E n \in 1 .. L : i = items[n]
        BY <3>1, InTimerList
      <4>3. Wake(i) \in Int
        BY <4>2, InTimerList
      <4> QED BY <2>3, <3>1, <4>1, <4>3
    <3>3. ASSUME i \in Listed' PROVE FALSE
      <4>1. PICK m \in g + 1 .. L : i = items[m]
        BY <1>7, <3>3
      <4>2. Wake(i) > time
        BY <1>2, <4>1
      <4> QED BY <1>1, <3>2, <4>2
    <3> QED BY <1>8, <3>1, <3>3
  <2> QED BY <2>1, <2>2, <2>3
<1>11. /\ due' \in [PCBs -> Int \cup {Nil}]
       /\ \A i \in Listed' : /\ timer'[i].pcb \in PCBs /\ due'[timer'[i].pcb] # Nil
                             /\ timer'[i].awakening_time = ToInt(due'[timer'[i].pcb])
       /\ \A p \in PCBs : due'[p] # Nil => \E i \in Listed' : timer'[i].pcb = p
       /\ \A i, j \in Listed' : timer'[i].pcb = timer'[j].pcb => i = j
  <2>1. due' \in [PCBs -> Int \cup {Nil}]
    BY <1>2 DEF TInv
  <2>2. ASSUME NEW i \in Listed'
        PROVE  /\ timer[i].pcb \in PCBs /\ due'[timer[i].pcb] = due[timer[i].pcb]
    <3>1. i \in Listed /\ timer[i].pcb \in PCBs
      BY <1>8 DEF TInv
    <3>2. ~ \E j \in ToSet(gone) : timer[j].pcb = timer[i].pcb
      BY <1>8, <3>1 DEF TInv
    <3> QED BY <1>2, <3>1, <3>2
  <2>3. \A i \in Listed' : /\ timer[i].pcb \in PCBs /\ due'[timer[i].pcb] # Nil
                           /\ Wake(i) = ToInt(due'[timer[i].pcb])
    BY <1>8, <2>2 DEF TInv
  <2>4. \A p \in PCBs : due'[p] # Nil => \E i \in Listed' : timer[i].pcb = p
    <3> SUFFICES ASSUME NEW p \in PCBs, due'[p] # Nil PROVE \E i \in Listed' : timer[i].pcb = p
      OBVIOUS
    <3>1. due[p] # Nil /\ ~ \E i \in ToSet(gone) : timer[i].pcb = p
      BY <1>2
    <3>2. PICK i \in Listed : timer[i].pcb = p
      BY <3>1 DEF TInv
    <3> QED BY <1>8, <3>1, <3>2
  <2>5. \A i, j \in Listed' : timer[i].pcb = timer[j].pcb => i = j
    BY <1>8 DEF TInv
  <2> QED BY <1>2, <2>1, <2>3, <2>4, <2>5 DEF Wake
<1>12. \A m, n \in 1 .. Len(items') :
          m <= n => timer'[items'[m]].awakening_time <= timer'[items'[n]].awakening_time
  <2> SUFFICES ASSUME NEW m \in 1 .. L - g, NEW n \in 1 .. L - g, m <= n
               PROVE  Wake(d[m]) <= Wake(d[n])
    BY <1>2, <1>4, <1>6 DEF Wake
  <2>1. g + m \in 1 .. L /\ g + n \in 1 .. L /\ g + m <= g + n
    BY <1>1
  <2>2. \A x, y \in 1 .. L : x <= y => Wake(items[x]) <= Wake(items[y])
    BY DEF TInv
  <2>3. d[m] = items[g + m] /\ d[n] = items[g + n]
    BY <1>4
  <2> QED BY <2>1, <2>2, <2>3
<1>13. TInv'
  <2>1. Listed' = TimerPool!Indices \ TimerPool!FreeBlocks(allocator')
    BY <1>8, <1>9, InTimerList DEF TInv
  <2>2. TF!IsList(timers', "timer_list", items')
    BY <1>5, <1>6
  <2>3. timer' \in [TimerPool!Indices -> [pcb : PCBs \cup {Nil}, awakening_time : Int]]
    BY <1>2 DEF TInv
  <2> QED BY <1>5, <1>9, <1>11, <1>12, <2>1, <2>2, <2>3 DEF TInv, Wake
<1>14. Timers' = Remaining(TimersAt(time))
  <2> DEFINE TT == TimersAt(time)
  <2>1. TT \in Seq([pcb : PCBs, left : Int]) /\ Len(TT) = L
    BY <1>1, TimersAre
  <2>2. Remaining(TT) = SubSeq(TT, g + 1, L)
    BY <1>2, <2>1 DEF Remaining
  <2>3. ASSUME NEW m \in 1 .. L
        PROVE  TT[m] = [pcb |-> timer[items[m]].pcb, left |-> Wake(items[m]) - time]
    BY <1>1, TimersAre
  <2> HIDE DEF TT
  <2> DEFINE u == SubSeq(TT, g + 1, L)
  <2>4. DOMAIN u = 1 .. L - g /\ u \in Seq([pcb : PCBs, left : Int])
        /\ \A m \in 1 .. L - g : u[m] = TT[g + m]
    <3> DEFINE S == [pcb : PCBs, left : Int]
    <3>1. TT \in Seq(S) /\ g \in 0 .. Len(TT) /\ Len(TT) = L
      BY <2>1
    <3> HIDE DEF S
    <3>2. /\ SubSeq(TT, g + 1, Len(TT)) \in Seq(S)
          /\ DOMAIN SubSeq(TT, g + 1, Len(TT)) = 1 .. Len(TT) - g
          /\ \A m \in 1 .. Len(TT) - g : SubSeq(TT, g + 1, Len(TT))[m] = TT[g + m]
      BY <3>1, TF!CutPlaces
    <3>3. DOMAIN u = 1 .. L - g /\ u \in Seq(S) /\ \A m \in 1 .. L - g : u[m] = TT[g + m]
      BY <3>1, <3>2
    <3> HIDE DEF u
    <3> QED BY <3>3 DEF S
  <2> HIDE DEF u
  <2>5. Timers' = [m \in 1 .. L - g |-> [pcb  |-> timer[d[m]].pcb,
                                         left |-> Wake(d[m]) - time]]
    BY <1>2, <1>4, <1>6 DEF Timers, Wake
  <2>6. ASSUME NEW m \in 1 .. L - g
        PROVE  u[m] = [pcb |-> timer[d[m]].pcb, left |-> Wake(d[m]) - time]
    <3>1. g + m \in 1 .. L
      BY <1>1
    <3> QED BY <1>4, <2>3, <2>4, <3>1
  <2>7. u = [m \in 1 .. L - g |-> u[m]]
    BY <2>4
  <2> QED BY <2>2, <2>5, <2>6, <2>7 DEF TT, u
<1> QED BY <1>10, <1>13, <1>14
-----------------------------------------------------------------------------
\* So does the timer interrupt, one tick later,
LEMMA InterruptStep ==
    ASSUME TInv, timerInterrupt
    PROVE  /\ TInv'
           /\ Timers' = Remaining(Ticked(Timers))
           /\ \A p \in PCBs :
                 due'[p] = IF due[p] # Nil /\ ToInt(due[p]) <= disastrOS_time' THEN Nil
                           ELSE due[p]
<1>1. /\ disastrOS_time + 1 \in Nat /\ disastrOS_time' = disastrOS_time + 1
      /\ internal_schedule(disastrOS_time + 1)
  BY DEF timerInterrupt, TInv
<1> QED BY <1>1, ScheduleStep, TimersAre

\* and preempt, at the same tick.
LEMMA PreemptStep ==
    ASSUME TInv, internal_preempt
    PROVE  /\ TInv'
           /\ Timers' = Remaining(Timers)
           /\ \A p \in PCBs :
                 due'[p] = IF due[p] # Nil /\ ToInt(due[p]) <= disastrOS_time' THEN Nil
                           ELSE due[p]
<1>1. /\ disastrOS_time \in Nat /\ disastrOS_time' = disastrOS_time
      /\ internal_schedule(disastrOS_time)
  BY DEF internal_preempt, TInv
<1> QED BY <1>1, ScheduleStep, TimersAre

\* A step that leaves the timers alone keeps the invariant.
LEMMA TInvRests ==
    ASSUME TInv, UNCHANGED timerVars
    PROVE  TInv'
BY DEF timerVars, TInv, items, Listed, Wake

\* The invariant holds in every reachable state.
LEMMA TInvariance == TimerSpec => []TInv
<1>1. TimerInit => TInv
  BY InitTInv
<1>2. TInv /\ [TimerNext]_timerVars => TInv'
  BY SleepStep, InterruptStep, PreemptStep, TInvRests DEF TimerNext
<1> QED BY <1>1, <1>2, PTL DEF TimerSpec

\* However sleeps and wake-ups follow each other, those whose end is no int
\* included: the timer list loses no item at either end, and the free list of the
\* pool reaches every free item once.
THEOREM TimersSoundThm == TimerSpec => []TimersSound
<1>1. TInv => TimersSound
  <2> SUFFICES ASSUME TInv PROVE TimersSound
    OBVIOUS
  <2>1. TimerPool!PoolSound(allocator)
    BY TimerConstants, TF!FreeListSound, SameTimerSound DEF TInv
  <2>2. TF!IsList(timers, "timer_list", items)
    BY DEF TInv
  <2>3. TimerLinks!ListSound(timers, "timer_list")
    BY <2>2, TimerConstants, TF!IsListSound, SameTimerLists
  <2> QED BY <2>1, <2>3 DEF TimersSound
<1> QED BY <1>1, TInvariance, PTL

\* TimerItem_alloc has an item for every process that goes to sleep: each item
\* out of the pool is the timer of another sleeper.
THEOREM TimerForEachThm == TimerSpec => []TimerForEach
<1>1. TInv => TimerForEach
  <2> SUFFICES ASSUME TInv, NEW p \in PCBs, due[p] = Nil, ~ TimerPool!HasBlock(allocator)
               PROVE  FALSE
    BY DEF TimerForEach
  <2>1. Listed = TimerPool!Indices
    <3>1. PICK c : TF!IsFreeList(allocator, c)
      BY DEF TInv
    <3>2. c = <<>>
      BY <3>1, TimerConstants, TF!PoolGet, SameTimerPool
    <3>3. TimerPool!FreeBlocks(allocator) = {}
      BY <3>1, <3>2, TF!EmptyList, SameTimerPool DEF TF!IsFreeList
    <3> QED BY <3>3 DEF TInv
  <2> DEFINE f == [i \in TimerPool!Indices |-> timer[i].pcb]
             S == PCBs \ {p}
  <2>2. f \in Injection(TimerPool!Indices, S)
    <3>1. \A i \in TimerPool!Indices : timer[i].pcb \in S
      BY <2>1 DEF TInv
    <3>2. \A i, j \in TimerPool!Indices : timer[i].pcb = timer[j].pcb => i = j
      BY <2>1 DEF TInv
    <3> QED BY <3>1, <3>2 DEF Injection, IsInjective
  <2> HIDE DEF f
  <2>3. IsFiniteSet(PCBs) /\ Cardinality(PCBs) <= MAX_NUM_PROCESSES
    BY TimerAssumption
  <2>4. IsFiniteSet(S) /\ Cardinality(S) = Cardinality(PCBs) - 1 /\ Cardinality(PCBs) \in Nat
    BY <2>3, FS_RemoveElement, FS_CardinalityType
  <2> HIDE DEF S
  <2>5. Cardinality(TimerPool!Indices) <= Cardinality(S)
    BY <2>2, <2>4, FS_Injection
  <2>6. Cardinality(TimerPool!Indices) = MAX_NUM_PROCESSES /\ MAX_NUM_PROCESSES \in Nat
    BY TimerConstants
  <2> QED BY <2>3, <2>4, <2>5, <2>6
<1> QED BY <1>1, TInvariance, PTL

\* A sleep whose end is an int lasts until that tick and not a tick longer, even
\* among timers whose ends overflowed and that stand first in the list.
THEOREM WakesOnTimeThm == TimerSpec => WakesOnTime
<1> DEFINE OnTime ==
      \A p \in PCBs :
         due[p] # Nil /\ due[p] \in IntRange =>
            /\ due'[p] = Nil => due[p] <= disastrOS_time'
            /\ disastrOS_time' > disastrOS_time /\ due[p] <= disastrOS_time'
                  => due'[p] = Nil
<1>1. ASSUME TInv, NEW q \in PCBs, NEW cycles \in SleepTimes, Sleep(q, cycles)
      PROVE  OnTime
  <2>1. /\ disastrOS_time' = disastrOS_time /\ due[q] = Nil /\ disastrOS_time \in Nat
        /\ \A p \in PCBs \ {q} : due'[p] = due[p]
    BY <1>1 DEF Sleep, TInv
  <2> QED BY <2>1
<1>2. ASSUME TInv, timerInterrupt \/ internal_preempt
      PROVE  OnTime
  <2>1. \A p \in PCBs :
           due'[p] = IF due[p] # Nil /\ ToInt(due[p]) <= disastrOS_time' THEN Nil
                     ELSE due[p]
    BY <1>2, InterruptStep, PreemptStep
  <2>2. \A p \in PCBs : due[p] # Nil /\ due[p] \in IntRange => ToInt(due[p]) = due[p]
    BY <1>2, IntOf DEF TInv
  <2> QED BY <2>1, <2>2
<1>3. TInv /\ [TimerNext]_timerVars => [OnTime]_timerVars
  BY <1>1, <1>2 DEF TimerNext
<1> QED BY <1>3, TInvariance, PTL DEF TimerSpec, WakesOnTime

\* Wake times and pointers implement the ticks and the sequence: a sleep is
\* TimerList_add, the scheduler removes what TimerLists.tla removes.
THEOREM MemoryImplementsTimers == TimerSpec => ImplementsTimers
<1> DEFINE AbstractNext ==
      \/ \E t \in ToSet(Timers') : Timers' = TimerList_add(Timers, t.left, t.pcb)
      \/ Timers' = Remaining(Timers)
      \/ Timers' = Remaining(Ticked(Timers))
<1>1. TimerInit => Timers = <<>>
  BY InitTInv
<1>2. ASSUME TInv, NEW p \in PCBs, NEW cycles \in SleepTimes, Sleep(p, cycles)
      PROVE  AbstractNext
  <2> PICK wake : wake = ToInt(disastrOS_time + cycles)
    OBVIOUS
  <2> PICK t : t = [pcb |-> p, left |-> wake - disastrOS_time]
    OBVIOUS
  <2>1. /\ Timers' = TimerList_add(Timers, wake - disastrOS_time, p)
        /\ \E m \in 1 .. Len(Timers') : Timers'[m] = t
        /\ TInv'
    BY <1>2, SleepStep
  <2>2. DOMAIN Timers' = 1 .. Len(Timers')
    <3>1. items' \in Seq(TimerPool!Indices)
      BY <2>1 DEF TInv, TF!IsList
    <3>2. Timers' = [n \in 1 .. Len(items') |->
                        [pcb  |-> timer'[items'[n]].pcb,
                         left |-> timer'[items'[n]].awakening_time - disastrOS_time']]
      BY <3>1 DEF Timers
    <3>3. DOMAIN Timers' = 1 .. Len(items') /\ Len(items') \in Nat
      BY <3>1, <3>2
    <3> QED BY <3>2, <3>3
  <2>3. t \in ToSet(Timers') /\ t.left = wake - disastrOS_time /\ t.pcb = p
    BY <2>1, <2>2 DEF ToSet
  <2> QED BY <2>1, <2>3
<1>3. ASSUME TInv, timerInterrupt \/ internal_preempt
      PROVE  AbstractNext
  BY <1>3, InterruptStep, PreemptStep
<1>4. UNCHANGED timerVars => UNCHANGED Timers
  BY DEF timerVars, Timers, items
<1>5. TInv /\ [TimerNext]_timerVars => [AbstractNext]_Timers
  <2> HIDE DEF AbstractNext
  <2> QED BY <1>2, <1>3, <1>4 DEF TimerNext
<1> QED BY <1>1, <1>5, TInvariance, PTL DEF TimerSpec, ImplementsTimers
=============================================================================
