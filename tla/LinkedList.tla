----------------------------- MODULE LinkedList ------------------------------
(* The intrusive doubly linked lists of linked_list.c, as operators on the    *)
(* memory they change: l.prev and l.next are the links that lie inside the    *)
(* items, l.first, l.last and l.size the fields of the list heads.  An item   *)
(* does not know which list it is in.  _LIST_DEBUG_ is off in the build.      *)
EXTENDS Integers, FiniteSets, Sequences

CONSTANTS Heads, Items, NULL

\* Static memory: every list empty, every link NULL.
NoLists ==
    [first |-> [h \in Heads |-> NULL], last |-> [h \in Heads |-> NULL],
     size |-> [h \in Heads |-> 0],
     prev |-> [i \in Items |-> NULL], next |-> [i \in Items |-> NULL]]

\* Fault: the head keeps the pointers of an earlier life.
List_init_Not(l, h) == l

List_init(l, h) == [l EXCEPT !.first[h] = NULL, !.last[h] = NULL, !.size[h] = 0]

\* Fault: the neighbour is not told.
SetIf_Never(f, i, v) == f

\* if (i) i->f = v
SetIf(f, i, v) == IF i = NULL THEN f ELSE [f EXCEPT ![i] = v]

Linked(l, i) == l.next[i] # NULL \/ l.prev[i] # NULL

\* Inserts i after prev, or first.  An item with a link is refused; the only
\* item of a list has none.
List_insert(l, h, prev, i) ==
    LET next  == IF prev = NULL THEN l.first[h] ELSE l.next[prev]
        nexts == SetIf(l.next, prev, i)
    IN  IF Linked(l, i) THEN l
        ELSE [l EXCEPT
                !.prev = SetIf([@ EXCEPT ![i] = prev], next, i),
                !.next = IF next = NULL THEN nexts ELSE [nexts EXCEPT ![i] = next],
                !.first[h] = IF prev = NULL THEN i ELSE @,
                !.last[h]  = IF next = NULL THEN i ELSE @,
                !.size[h]  = @ + 1]

List_detach(l, h, i) ==
    LET prev == l.prev[i]
        next == l.next[i]
    IN  [l EXCEPT
            !.next = [SetIf(@, prev, next) EXCEPT ![i] = NULL],
            !.prev = [SetIf(@, next, prev) EXCEPT ![i] = NULL],
            !.first[h] = IF i = @ THEN next ELSE @,
            !.last[h]  = IF i = @ THEN prev ELSE @,
            !.size[h]  = @ - 1]
-----------------------------------------------------------------------------
\* The items met from the first on, to the one without a next: what the loops
\* of the code visit.
Chain(l, h) ==
    LET at[n \in 1 .. Cardinality(Items)] ==
            IF n = 1 THEN l.first[h]
            ELSE IF at[n-1] = NULL THEN NULL ELSE l.next[at[n-1]]
    IN  SubSeq(at, 1, Cardinality({n \in DOMAIN at : at[n] # NULL}))

\* A list is the same from both ends, and size is its length.
ListSound(l, h) ==
    LET c == Chain(l, h)
    IN  /\ Len(c) = l.size[h]
        /\ \A m, n \in DOMAIN c : c[m] = c[n] => m = n
        /\ \A n \in DOMAIN c : l.prev[c[n]] = IF n = 1 THEN NULL ELSE c[n-1]
        /\ l.last[h] = IF c = <<>> THEN NULL ELSE c[Len(c)]
        /\ c # <<>> => l.next[c[Len(c)]] = NULL
=============================================================================
