---------------------------- MODULE CoThreadLock ----------------------------
(***************************************************************************)
(* co_thread_lock_t: the mutex with a condition that coroutines of several *)
(* scheduler cores and plain pthreads share                                *)
(* (src/src/cothread/co-scheduler.c, lines 1011-1360).                     *)
(*                                                                         *)
(* A coroutine that must wait leaves a waiter in the lock's queue and      *)
(* switches to its core's main loop.  It is resumed along a chain of       *)
(* hand-overs: eventfd_write -> epoll (edge-triggered) -> the listener     *)
(* thread, which marks every waiter of the queue and then drains the       *)
(* eventfd -> the core, which may be sleeping in epoll_listener_wait ->    *)
(* the walk over its waiters -> the coroutine, which looks again.  A       *)
(* pthread sleeps on the condition of the one global mutex instead.        *)
(*                                                                         *)
(* A section under the global mutex is one step unless it also needs the   *)
(* listener's lock.  Coroutines of one core are not preempted by each      *)
(* other in the code; here their sections interleave freely, except that a *)
(* core walks its waiters only when the coroutines it resumed have run.    *)
(***************************************************************************)
EXTENDS Sequences, FiniteSets, SequencesExt

CONSTANTS
    CoThread,   \* coroutines: cf_in_co_thread() holds
    PThread,    \* plain threads
    Core,       \* scheduler cores (pclthread)
    home,       \* the core of each coroutine
    Timeouts,   \* how co_thread_wait is called: "none" (tmo < 0) and "running"
    None        \* nobody owns the lock (obj->co = NULL)

User == CoThread \cup PThread

ASSUME UsersAssumption == /\ CoThread \cap PThread = {}
                          /\ home \in [CoThread -> Core]
                          /\ None \notin User
                          /\ Timeouts \subseteq {"none", "running"}

VARIABLES
    owner,   \* obj->co
    pc,      \* where each user is
    waitq,   \* users whose waiter has MTX_WAKEUP_WAITING, in queue order (obj->e)
    event,   \* users whose waiter has MTX_WAKEUP_EVENT
    timer,   \* the timeout of each user's waiter
    asleep,  \* coroutines switched out, pthreads in pthread_cond_wait
    marked,  \* coroutines one of whose waiters has EPOLLIN in w->events
    corew,   \* cores in epoll_listener_wait
    efd,     \* the eventfd's counter is not 0
    edge,    \* the eventfd is on epoll's ready list
    lst      \* where the epoll listener thread is

userVars  == <<owner, pc, waitq, event, timer>>
epollVars == <<efd, edge, lst>>
vars      == <<owner, pc, waitq, event, timer, asleep, marked, corew, efd, edge, lst>>

\* Waiting for the lock, or for a signal.
Locking == {"locking", "relocking"}
Parked  == Locking \cup {"waiting"}

\* No other section of the global mutex is in progress: only co_thread_wait's
\* takes two steps.
GlobalLockFree == \A u \in User : pc[u] # "queued"

\* Nobody is inside epoll_listener_lock().
ListenerLockFree == lst # "drain"

Init ==
    /\ owner  = None
    /\ pc     = [t \in User |-> "idle"]
    /\ waitq  = << >>
    /\ event  = {}
    /\ timer  = [t \in User |-> "none"]
    /\ asleep = {}
    /\ marked = {}
    /\ corew  = {}
    /\ efd    = FALSE
    /\ edge   = FALSE
    /\ lst    = "wait"

-----------------------------------------------------------------------------
(* Locking and unlocking.                                                  *)

\* t switches to its core's main loop, or sleeps on the global condition.
Park(t) == /\ asleep' = asleep \cup {t}
           /\ corew'  = corew \ (IF t \in CoThread THEN {home[t]} ELSE {})

\* epoll_dequeue(): the waiter of t, if it has one, is unlinked.
epoll_dequeue(t) ==
    IF t \in ToSet(waitq)
    THEN RemoveAt(waitq, CHOOSE k \in DOMAIN waitq : waitq[k] = t)
    ELSE waitq

\* t gets the lock and its waiters leave the queue.
Acquire(t) == /\ owner'  = t
              /\ pc'     = [pc EXCEPT ![t] = "held"]
              /\ waitq'  = epoll_dequeue(t)
              /\ event'  = event \ {t}
              /\ timer'  = [timer EXCEPT ![t] = "none"]
              /\ marked' = marked \ {t}
              /\ UNCHANGED <<asleep, corew>>

LockOrPark_regardless(t, l) == Acquire(t)

\* co_thread_lock_internal(): the first turn of its loop; l is where t waits for
\* the next one.
LockOrPark(t, l) ==
    \/ /\ owner = None
       /\ Acquire(t)
    \/ /\ owner # None
       /\ Park(t)
       /\ pc' = [pc EXCEPT ![t] = l]
       /\ UNCHANGED <<owner, waitq, event, timer, marked>>

co_thread_lock(t) ==
    /\ pc[t] = "idle" /\ GlobalLockFree
    /\ t \in CoThread => ListenerLockFree
    /\ LockOrPark(t, "locking")
    /\ UNCHANGED epollVars

\* A later turn of that loop.
co_thread_lock_internal(t) ==
    /\ pc[t] \in Locking /\ t \notin asleep /\ GlobalLockFree
    /\ t \in CoThread \/ pc[t] = "relocking" => ListenerLockFree
    /\ LockOrPark(t, pc[t])
    /\ UNCHANGED epollVars

\* eventfd_write()
eventfd_write == efd' = TRUE /\ edge' = TRUE /\ UNCHANGED lst

\* co_thread_unlock_internal() without the eventfd_write() ...
unlock_internal_quietly == /\ owner' = None
                           /\ UNCHANGED epollVars

\* ... and as it is, but for co_thread_global_signal(), which wakes the sleeping pthreads.
co_thread_unlock_internal == /\ owner' = None
                             /\ eventfd_write

co_thread_unlock(t) ==
    /\ pc[t] = "held" /\ GlobalLockFree
    /\ co_thread_unlock_internal
    /\ asleep' = asleep \ PThread
    /\ pc' = [pc EXCEPT ![t] = "idle"]
    /\ UNCHANGED <<waitq, event, timer, marked, corew>>

-----------------------------------------------------------------------------
(* Waiting and signalling.                                                 *)

\* co_thread_wait() puts a waiter in the queue, which takes the listener's lock ...
co_thread_wait(t) ==
    /\ pc[t] = "held" /\ GlobalLockFree /\ ListenerLockFree
    /\ pc' = [pc EXCEPT ![t] = "queued"]
    /\ waitq' = Append(waitq, t)
    /\ \E tmo \in Timeouts : timer' = [timer EXCEPT ![t] = tmo]
    /\ UNCHANGED <<owner, event, asleep, marked, corew, epollVars>>

\* ... and unlocks and sleeps in the same section of the global mutex.
co_thread_wait_unlock(t) ==
    /\ pc[t] = "queued"
    /\ co_thread_unlock_internal
    /\ asleep' = (asleep \ PThread) \cup {t}
    /\ corew'  = corew \ (IF t \in CoThread THEN {home[t]} ELSE {})
    /\ pc' = [pc EXCEPT ![t] = "waiting"]
    /\ UNCHANGED <<waitq, event, timer, marked>>

\* A later turn of its loop, which ends with the signal or the timeout; then the
\* lock is taken again.
co_thread_wait_return(t) ==
    /\ pc[t] = "waiting" /\ t \notin asleep /\ GlobalLockFree
    /\ \/ /\ t \in event \/ timer[t] = "expired"
          /\ ListenerLockFree
          /\ LockOrPark(t, "relocking")
       \/ /\ t \notin event /\ timer[t] # "expired"
          /\ Park(t)
          /\ UNCHANGED <<userVars, marked>>
    /\ UNCHANGED epollVars

\* The waiters that one call of co_thread_signal() or co_thread_broadcast() flags: the
\* first in the queue, woken before or not, or all of them.
Signalled == {{Head(waitq)}, ToSet(waitq)}

co_thread_signal_internal(t) ==
    /\ pc[t] = "held" /\ GlobalLockFree /\ waitq # << >>
    /\ \E s \in Signalled : event' = event \cup s
    /\ pc' = [pc EXCEPT ![t] = "signalled"]
    /\ UNCHANGED <<owner, waitq, timer, asleep, marked, corew, epollVars>>

signal_write_nothing(t) ==
    /\ pc[t] = "signalled"
    /\ pc' = [pc EXCEPT ![t] = "held"]
    /\ UNCHANGED <<owner, waitq, event, timer, asleep, marked, corew, epollVars>>

\* Its eventfd_write(), after the global mutex was released.
co_thread_signal_write(t) ==
    /\ pc[t] = "signalled"
    /\ eventfd_write
    /\ pc' = [pc EXCEPT ![t] = "held"]
    /\ UNCHANGED <<owner, waitq, event, timer, asleep, marked, corew>>

-----------------------------------------------------------------------------
(* The epoll listener, the cores and the clock.                            *)

\* The coroutines that have a waiter in the lock's queue.
Queued == {t \in CoThread : pc[t] \in Parked \cup {"queued"}}

\* epoll_wait() takes the eventfd off the ready list and reports it if it is readable.
epoll_wait_events ==
    /\ lst = "wait" /\ edge
    /\ edge' = FALSE
    /\ lst' = IF efd THEN "got" ELSE "wait"
    /\ UNCHANGED <<userVars, asleep, marked, corew, efd>>

mark_without_signal ==
    /\ lst = "got"
    /\ lst' = "drain"
    /\ marked' = marked \cup Queued
    /\ UNCHANGED <<userVars, asleep, corew, efd, edge>>

\* Under epoll_listener_lock() the listener marks the waiters and wakes the cores ...
epoll_listener_mark ==
    /\ lst = "got"
    /\ lst' = "drain"
    /\ marked' = marked \cup Queued
    /\ corew' = IF Queued = {} THEN corew ELSE {}
    /\ UNCHANGED <<userVars, asleep, efd, edge>>

\* ... and drains the eventfd before it unlocks.
epoll_listener_drain ==
    /\ lst = "drain"
    /\ lst' = "wait"
    /\ efd' = FALSE
    /\ UNCHANGED <<userVars, asleep, marked, corew, edge>>

\* What walk_waiters_list() finds for core c: the coroutines to resume.
Resumed(c) == {t \in asleep \cap CoThread :
                 home[t] = c /\ (t \in marked \/ t \in event \/ timer[t] = "expired")}

\* One turn of pclthread(): walk the waiters; resume the coroutines found, or wait
\* for the listener.
pclthread(c) ==
    /\ c \notin corew /\ ListenerLockFree
    /\ \A t \in CoThread : home[t] = c /\ pc[t] \in Parked => t \in asleep
    /\ asleep' = asleep \ Resumed(c)
    /\ marked' = marked \ Resumed(c)
    /\ corew'  = IF Resumed(c) = {} THEN corew \cup {c} ELSE corew
    /\ UNCHANGED <<userVars, epollVars>>

\* A timeout passes; the core's wait was not longer than that.
clock(t) ==
    /\ timer[t] = "running"
    /\ timer' = [timer EXCEPT ![t] = "expired"]
    /\ corew' = corew \ (IF t \in CoThread THEN {home[t]} ELSE {})
    /\ UNCHANGED <<owner, pc, waitq, event, asleep, marked, epollVars>>

\* pthread_cond_wait() returns without a broadcast: the time is over, or spuriously.
pthread_cond_return(t) ==
    /\ t \in asleep \cap PThread
    /\ asleep' = asleep \ {t}
    /\ UNCHANGED <<userVars, marked, corew, epollVars>>

-----------------------------------------------------------------------------

\* The steps of a call in progress.
Progress(t) == \/ co_thread_lock_internal(t)
               \/ co_thread_wait_unlock(t)
               \/ co_thread_wait_return(t)
               \/ co_thread_signal_write(t)

\* The calls a user may make.
Invoke(t) == \/ co_thread_lock(t)
             \/ co_thread_unlock(t)
             \/ co_thread_wait(t)
             \/ co_thread_signal_internal(t)

Listener == epoll_wait_events \/ epoll_listener_mark \/ epoll_listener_drain

Next == \/ \E t \in User : Invoke(t) \/ Progress(t) \/ clock(t) \/ pthread_cond_return(t)
        \/ \E c \in Core : pclthread(c)
        \/ Listener

Spec == Init /\ [][Next]_vars

\* Threads run, every mutex is granted in the end to who waits for it, and a user
\* that holds the lock gives it back: no section of the callers runs forever.
Fairness ==
    /\ \A t \in User : /\ SF_vars(Progress(t))
                       /\ SF_vars(co_thread_unlock(t) \/ co_thread_wait(t))
    /\ \A c \in Core : SF_vars(pclthread(c))
    /\ WF_vars(Listener)

FairSpec == Spec /\ Fairness

-----------------------------------------------------------------------------
(* Properties.                                                             *)

\* The types of the variables; only coroutines are marked (w->mask of a pthread is 0).
TypeOK ==
    /\ owner \in User \cup {None}
    /\ pc \in [User -> Parked \cup {"idle", "held", "queued", "signalled"}]
    /\ waitq \in Seq(User)
    /\ event \subseteq User
    /\ timer \in [User -> {"none", "running", "expired"}]
    /\ asleep \subseteq User
    /\ marked \subseteq CoThread
    /\ corew \subseteq Core
    /\ efd \in BOOLEAN
    /\ edge \in BOOLEAN
    /\ lst \in {"wait", "got", "drain"}

\* The states in which the code after co_thread_lock() runs.
Inside == {"held", "queued", "signalled"}

\* Only the owner runs between co_thread_lock() and co_thread_unlock(): two users
\* never do, and obj->co names the one that does -- what co_thread_check() raises
\* SIGINT about is never the lock's own doing.
MutualExclusion == \A t \in User : pc[t] \in Inside <=> owner = t

\* The listener is going to mark every waiter that is in the queue now.
MarkComing == efd /\ (edge \/ lst = "got")

\* Coroutine t will be walked over: its waiter is marked and its core is awake.
WalkComing(t) == t \in marked /\ home[t] \notin corew

\* When the lock is free, whoever sleeps waiting for it is being woken.
NoLostUnlock ==
    owner = None =>
      \A t \in asleep : pc[t] \in Locking => /\ t \in CoThread
                                             /\ MarkComing \/ WalkComing(t)

\* A waiter that was signalled is being woken: for a coroutine the signaller is about
\* to write the eventfd, or the mark is on its way, or its core is awake; a pthread is
\* woken when the signaller, who still owns the lock, releases it.
NoLostSignal ==
    \A t \in asleep \cap event : pc[t] = "waiting" =>
      IF t \in CoThread
      THEN MarkComing \/ home[t] \notin corew \/ \E u \in User : pc[u] = "signalled"
      ELSE owner # None

\* A user is waiting from the moment the lock is given up until it is owned again.
Waiting == {t \in User : pc[t] \in {"waiting", "relocking"}}

Monitor == INSTANCE CoMonitor WITH
    holder  <- owner,
    waiting <- Waiting,
    limited <- {t \in Waiting : timer[t] # "none"},
    woken   <- event

\* The lock is a monitor: it implements CoMonitor.
ImplementsMonitor == Monitor!Spec

\* co_thread_signal() and co_thread_broadcast() are not in vain: a user in the waiting
\* loop whose waiter was flagged leaves the loop.
SignalledReturns == \A t \in User : pc[t] = "waiting" /\ t \in event ~> pc[t] # "waiting"
=============================================================================
