---------------------------- MODULE BoundedQueue ----------------------------
(* What ccfifo.h promises: a queue of at most Capacity items.               *)
EXTENDS Naturals, Sequences

CONSTANTS Capacity, Item, None

VARIABLES
    queue,  \* the items, oldest first
    ret     \* what the last call returned: None for NULL or false

vars == <<queue, ret>>

Init == queue = << >> /\ ret = None

\* A push returns where the item was put; here, the item itself.
Push(x) ==
    IF Len(queue) < Capacity THEN queue' = Append(queue, x) /\ ret' = x
                             ELSE UNCHANGED queue /\ ret' = None

Pop ==
    IF queue # << >> THEN queue' = Tail(queue) /\ ret' = Head(queue)
                     ELSE UNCHANGED queue /\ ret' = None

Next == Pop \/ \E x \in Item : Push(x)

Spec == Init /\ [][Next]_vars
=============================================================================
