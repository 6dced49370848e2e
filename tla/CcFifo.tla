------------------------------- MODULE CcFifo -------------------------------
(***************************************************************************)
(* ccfifo: the ring buffer under the streams' receive queues, the cores'   *)
(* queues of new coroutines and the free lists of ccheap                   *)
(* (include/cuttle/ccfifo.h).                                              *)
(***************************************************************************)
EXTENDS Naturals, Sequences

CONSTANTS
    Capacity,  \* q->capacity
    Item,      \* what is queued
    None       \* NULL

ASSUME CapacityAssumption == Capacity \in Nat \ {0}
ASSUME NoneAssumption     == None \notin Item

VARIABLES
    items,  \* q->items
    size,   \* q->size
    first,  \* q->first
    last,   \* q->last
    ret     \* what the last call returned

fifoVars == <<items, size, first, last, ret>>

Slot == 0..(Capacity - 1)

\* ccfifo_init(): the memory comes from malloc and holds anything.
FifoInit == /\ items \in [Slot -> Item]
        /\ size = 0
        /\ first = 0
        /\ last = 0
        /\ ret = None

\* ++i, and back to 0 at the end of the array.
succ(i) == IF i + 1 >= Capacity THEN 0 ELSE i + 1

has_room_for_one_more == size <= Capacity

has_room_but_one == size + 1 < Capacity

has_room == size < Capacity

ccfifo_push(x) ==
    \/ /\ has_room
       /\ items' = [items EXCEPT ![last] = x]
       /\ size' = size + 1
       /\ last' = succ(last)
       /\ ret' = x
       /\ UNCHANGED first
    \/ /\ ~has_room
       /\ ret' = None
       /\ UNCHANGED <<items, size, first, last>>

ccfifo_pop ==
    \/ /\ size # 0
       /\ ret' = items[first]
       /\ size' = size - 1
       /\ first' = succ(first)
       /\ UNCHANGED <<items, last>>
    \/ /\ size = 0
       /\ ret' = None
       /\ UNCHANGED <<items, size, first, last>>

FifoNext == ccfifo_pop \/ \E x \in Item : ccfifo_push(x)

FifoSpec == FifoInit /\ [][FifoNext]_fifoVars

-----------------------------------------------------------------------------

\* The types of the variables: the indexes stay inside the array.
FifoTypeOK == /\ items \in [Slot -> Item]
          /\ size \in 0..Capacity
          /\ first \in Slot
          /\ last \in Slot
          /\ ret \in Item \cup {None}

\* The i-th slot after slot f, around the end of the array.
At(f, i) == IF f + i >= Capacity THEN f + i - Capacity ELSE f + i

\* The n items from slot f on, in the order they were pushed.
From(ring, f, n) == [i \in 1..n |-> ring[At(f, i - 1)]]

Contents == From(items, first, size)

Queue == INSTANCE BoundedQueue WITH queue <- Contents

\* The ring is a bounded queue: an item is popped once, in its turn, and intact, and a
\* push is refused exactly when Capacity items are queued, wherever in the array the
\* queue lies (full and empty both have first = last).
ImplementsQueue == Queue!Spec
=============================================================================
