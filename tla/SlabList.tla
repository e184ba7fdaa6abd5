------------------------------- MODULE SlabList -------------------------------
(***************************************************************************)
(* The linked lists of src/core/list.rs, on which the channel's waiting    *)
(* senders, the event loop's activations, the timer wheel and the wakers   *)
(* of the reactor hang.  Nodes are indexes into a slab, or counted         *)
(* references from the memory pool (src/core/memorypool.rs); a node is in  *)
(* at most one of the lists that share the storage.  Every operation works *)
(* on the links alone; the sequences in order are what a reader believes   *)
(* the lists to hold.                                                      *)
(***************************************************************************)
EXTENDS Naturals, Sequences, FiniteSets

CONSTANTS N,          \* nodes are 1..N, 0 is None
          PoolSize,   \* capacity of the memory pool
          Lists

Nodes == 1..N
VARIABLES
    links,   \* [head, tail : [Lists -> node], prev, next : [Nodes -> node]]
    mem,     \* where each node lies: "free", "pool" or "heap"
    held,    \* nodes a handle of the program refers to
    order    \* [Lists -> sequence of nodes]

vars == <<links, mem, held, order>>
Link == 0..N

TypeOK ==
    /\ links \in [head : [Lists -> Link], tail : [Lists -> Link],
                  prev : [Nodes -> Link], next : [Nodes -> Link]]
    /\ mem \in [Nodes -> {"free", "pool", "heap"}]
    /\ held \subseteq Nodes
    /\ order \in [Lists -> UNION {[1..k -> Nodes] : k \in 0..N}]

Init ==
    /\ links = [head |-> [l \in Lists |-> 0], tail |-> [l \in Lists |-> 0],
                prev |-> [n \in Nodes |-> 0], next |-> [n \in Nodes |-> 0]]
    /\ mem = [n \in Nodes |-> "free"]
    /\ held = {}
    /\ order = [l \in Lists |-> <<>>]

\* Backend::set_link; take_link is one that sets None.
set_link(L, n, rel, v) ==
    IF n = 0 THEN L
    ELSE IF rel = "next" THEN [L EXCEPT !.next[n] = v] ELSE [L EXCEPT !.prev[n] = v]

insert(L, l, n, after) ==
    IF after # 0
    THEN LET next == L.next[after]
             L1 == set_link(set_link(L, n, "next", next), after, "next", n)
         IN IF next # 0
            THEN set_link(set_link(L1, n, "prev", L1.prev[next]), next, "prev", n)
            ELSE [set_link(L1, n, "prev", after) EXCEPT !.tail[l] = n]
    ELSE LET next == L.head[l]
             L1 == set_link(set_link(L, next, "prev", n), n, "next", next)
         IN [L1 EXCEPT !.head[l] = n, !.tail[l] = IF next = 0 THEN n ELSE @]

\* Mutant: the tail is left on a node that was removed.
remove_tail(L, l, n) ==
    LET prev == L.prev[n]
        next == L.next[n]
        L1 == set_link(set_link(L, n, "prev", 0), n, "next", 0)
        L2 == set_link(set_link(L1, prev, "next", next), next, "prev", prev)
    IN [L2 EXCEPT !.head[l] = IF @ = n THEN next ELSE @]

remove(L, l, n) ==
    LET prev == L.prev[n]
        next == L.next[n]
        L1 == set_link(set_link(L, n, "prev", 0), n, "next", 0)
        L2 == set_link(set_link(L1, prev, "next", next), next, "prev", prev)
    IN [L2 EXCEPT !.head[l] = IF @ = n THEN next ELSE @,
                  !.tail[l] = IF @ = n THEN prev ELSE @]

pop_front(L, l) ==
    LET n == L.head[l]
        next == L.next[n]
        L1 == set_link(set_link(L, n, "next", 0), next, "prev", 0)
    IN [set_link(L1, n, "prev", 0) EXCEPT !.head[l] = next,
                                          !.tail[l] = IF next = 0 THEN 0 ELSE @]

push_back(L, l, n) ==
    IF L.tail[l] # 0
    THEN LET after == L.tail[l]
             L1 == set_link(set_link(L, after, "next", n), n, "prev", after)
         IN [set_link(L1, n, "next", 0) EXCEPT !.tail[l] = n]
    ELSE insert(L, l, n, 0)

\* The first node's next link is put aside while push_back hangs it on.
concat(L, l, other) ==
    IF L.head[other] = 0 THEN L
    ELSE LET n == L.head[other]
             next == L.next[n]
             L1 == [set_link(L, n, "next", 0) EXCEPT !.head[other] = 0]
             L2 == set_link(push_back(L1, l, n), n, "next", next)
         IN [L2 EXCEPT !.tail[l] = L.tail[other], !.tail[other] = 0]

\* ListIterator: the nodes met from one end.
Walk(L, start, rel) ==
    LET at[k \in 0..N] == IF k = 0 THEN start
                          ELSE IF at[k - 1] = 0 THEN 0
                          ELSE IF rel = "next" THEN L.next[at[k - 1]] ELSE L.prev[at[k - 1]]
        met == {k \in 0..N : at[k] # 0}
    IN [i \in 1..Cardinality(met) |-> at[i - 1]]

-----------------------------------------------------------------------------
Elements(l) == {order[l][i] : i \in DOMAIN order[l]}
Loose == {n \in held : \A l \in Lists : n \notin Elements(l)}

\* The references RcNode counts: links of other nodes, ends of lists, handles.
Counted(L, n) == \/ \E m \in Nodes : L.prev[m] = n \/ L.next[m] = n
                 \/ \E l \in Lists : L.head[l] = n \/ L.tail[l] = n

\* Rc::drop: memory goes back when nothing refers to the node.
Freed(L, handles) ==
    [n \in Nodes |-> IF Counted(L, n) \/ n \in handles THEN mem[n] ELSE "free"]

\* MemoryPool::insert refuses an entry beyond the capacity.
PoolHasRoom == Cardinality({m \in Nodes : mem[m] = "pool"}) < PoolSize

\* RcNode::new: from the pool while it has room, else from the allocator.
New(n) ==
    /\ mem[n] = "free"
    /\ mem' = [mem EXCEPT ![n] = IF PoolHasRoom THEN "pool" ELSE "heap"]
    /\ held' = held \cup {n}
    /\ UNCHANGED <<links, order>>

Put(L, handles) == links' = L /\ held' = handles /\ mem' = Freed(L, handles)

Insert(l, n) ==
    /\ n \in Loose
    /\ \E i \in 0..Len(order[l]) :
          /\ Put(insert(links, l, n, IF i = 0 THEN 0 ELSE order[l][i]), held)
          /\ order' = [order EXCEPT ![l] = SubSeq(@, 1, i) \o <<n>> \o SubSeq(@, i + 1, Len(@))]

PushBack(l, n) ==
    /\ n \in Loose
    /\ Put(push_back(links, l, n), held)
    /\ order' = [order EXCEPT ![l] = Append(@, n)]

\* Also of a node that is in no list, as remove_sender and deregister do.
Remove(l, n) ==
    /\ n \in Elements(l) \/ n \in Loose
    /\ Put(remove(links, l, n), held)
    /\ order' = [order EXCEPT ![l] = SelectSeq(@, LAMBDA x : x # n)]

PopFront(l) ==
    /\ order[l] # <<>>
    /\ Put(pop_front(links, l), held \cup {Head(order[l])})
    /\ order' = [order EXCEPT ![l] = Tail(@)]

Concat(l, other) ==
    /\ l # other
    /\ Put(concat(links, l, other), held)
    /\ order' = [order EXCEPT ![l] = @ \o order[other], ![other] = <<>>]

DropHandle(n) ==
    /\ n \in held
    /\ Put(links, held \ {n})
    /\ UNCHANGED order

Next ==
    \/ \E n \in Nodes : New(n) \/ DropHandle(n)
    \/ \E l \in Lists, n \in Nodes : Insert(l, n) \/ PushBack(l, n) \/ Remove(l, n)
    \/ \E l \in Lists : PopFront(l)
    \/ \E l, o \in Lists : Concat(l, o)

Spec == Init /\ [][Next]_vars

-----------------------------------------------------------------------------
(* Properties                                                              *)

Reversed(s) == [i \in 1..Len(s) |-> s[Len(s) + 1 - i]]

\* From either end the links of each list spell exactly the nodes put in it,
\* in order, whatever insertions, removals and concatenations came before.
ListsAgree ==
    \A l \in Lists : /\ Walk(links, links.head[l], "next") = order[l]
                     /\ Walk(links, links.tail[l], "prev") = Reversed(order[l])

\* A node in no list has no links left: it neither keeps others in memory
\* (links are counted references) nor lies in freed memory while linked, so
\* the pool gets back exactly what nobody refers to.
NoLeak ==
    \A n \in Nodes :
        /\ (\A l \in Lists : n \notin Elements(l)) => links.prev[n] = 0 /\ links.next[n] = 0
        /\ mem[n] = "free" <=> n \notin held /\ \A l \in Lists : n \notin Elements(l)
=============================================================================
