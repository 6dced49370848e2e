----------------------------- MODULE CoMonitor -----------------------------
(***************************************************************************)
(* What co_thread_lock_t promises its users: a mutex with one condition    *)
(* (include/cuttle/cothread/scheduler.h, co_thread_lock .. co_thread_wait).*)
(* Queues, eventfds, marks and cores are not visible here.                 *)
(***************************************************************************)
CONSTANTS User, None

VARIABLES
    holder,   \* who runs between lock and unlock
    waiting,  \* users inside co_thread_wait that have given the lock up
    limited,  \* those of them with a timeout
    woken     \* those of them that were signalled

vars == <<holder, waiting, limited, woken>>

Init == holder = None /\ waiting = {} /\ limited = {} /\ woken = {}

Lock(t) ==
    /\ holder = None /\ t \notin waiting
    /\ holder' = t
    /\ UNCHANGED <<waiting, limited, woken>>

Unlock(t) ==
    /\ holder = t
    /\ holder' = None
    /\ UNCHANGED <<waiting, limited, woken>>

\* The lock is given up and the wait begun in one step: no signal falls between.
Wait(t) ==
    /\ holder = t
    /\ holder' = None
    /\ waiting' = waiting \cup {t}
    /\ limited' \in {limited, limited \cup {t}}
    /\ UNCHANGED woken

\* A signal wakes one waiter, possibly one that is awake already; a broadcast all.
Signal(t) ==
    /\ holder = t
    /\ \E w \in {waiting} \cup {{u} : u \in waiting} : woken' = woken \cup w
    /\ UNCHANGED <<holder, waiting, limited>>

\* co_thread_wait() returns with the lock, after a signal or, if it may, a timeout.
Return(t) ==
    /\ holder = None /\ t \in waiting /\ t \in woken \cup limited
    /\ holder'  = t
    /\ waiting' = waiting \ {t}
    /\ limited' = limited \ {t}
    /\ woken'   = woken \ {t}

Next == \E t \in User : Lock(t) \/ Unlock(t) \/ Wait(t) \/ Signal(t) \/ Return(t)

Spec == Init /\ [][Next]_vars
=============================================================================
