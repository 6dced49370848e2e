--------------------------- MODULE MCCoThreadLock ---------------------------
(* CoThreadLock for TLC: two coroutines on two cores and plain threads.    *)
EXTENDS CoThreadLock

CONSTANTS c1, c2, c3, k1, k2

\* c1 and c3 share a core.
Homes == [t \in CoThread |-> IF t = c2 THEN k2 ELSE k1]
=============================================================================
