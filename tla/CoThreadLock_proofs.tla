------------------------ MODULE CoThreadLock_proofs ------------------------
(***************************************************************************)
(* Proofs about CoThreadLock, for any number of coroutines, plain threads  *)
(* and cores: the lock is exclusive and no wake-up is lost between the     *)
(* eventfd, the listener, the cores and the coroutines.                    *)
(***************************************************************************)
EXTENDS CoThreadLock, SequenceTheorems, TLAPS

\* The queue: each waiter is there once, and waits.
QueueInv ==
    /\ waitq \in Seq(User)
    /\ \A i, j \in 1..Len(waitq) : waitq[i] = waitq[j] => i = j
    /\ \A i \in 1..Len(waitq) : pc[waitq[i]] \in {"queued", "waiting", "relocking"}
    /\ event \subseteq {t \in User : pc[t] \in {"waiting", "relocking"}}

\* A user sleeps only inside a call.
SleepInv == \A t \in asleep : pc[t] \in Parked

\* The hand-over from the eventfd to the cores: while it is readable it is on epoll's
\* list or the listener is at work; while the listener drains it, every waiter is marked;
\* and the core of a sleeping coroutine that is marked is awake.
ChainInv ==
    /\ efd => edge \/ lst # "wait"
    /\ lst = "got" => efd
    /\ lst = "drain" => Queued \subseteq marked
    /\ \A t \in asleep \cap marked : home[t] \notin corew

\* The inductive invariant.
Inv == /\ TypeOK
       /\ QueueInv
       /\ SleepInv
       /\ MutualExclusion
       /\ ChainInv
       /\ NoLostUnlock
       /\ NoLostSignal

-----------------------------------------------------------------------------
(* The queue.                                                              *)

\* What unlinking element t does to the positions in the queue.
LEMMA DequeueShifts ==
  ASSUME waitq \in Seq(User), NEW t \in User, t \in ToSet(waitq)
  PROVE  LET q == epoll_dequeue(t)
             n == Len(waitq) IN
         \E k \in 1..n :
           /\ waitq[k] = t
           /\ q \in Seq(User) /\ Len(q) = n - 1
           /\ \A i \in 1..(n-1) : q[i] = IF i < k THEN waitq[i] ELSE waitq[i + 1]
  <1> DEFINE k == CHOOSE i \in DOMAIN waitq : waitq[i] = t
             a == SubSeq(waitq, 1, k - 1)
             b == SubSeq(waitq, k + 1, Len(waitq))
             n == Len(waitq)
             q == epoll_dequeue(t)
  <1>1. k \in 1..n /\ waitq[k] = t /\ n \in Nat
    BY DEF ToSet
  <1>2. q = a \o b
    BY DEF epoll_dequeue, RemoveAt
  <1> HIDE DEF k, q
  <1>3. /\ a \in Seq(User) /\ Len(a) = k - 1
        /\ \A i \in 1..(k-1) : a[i] = waitq[i]
    BY <1>1, SubSeqProperties
  <1>4. /\ b \in Seq(User) /\ Len(b) = n - k
        /\ \A i \in 1..(n-k) : b[i] = waitq[k + i]
    <2>1. \A i \in (k+1)..n : waitq[i] \in User
      BY <1>1
    <2>2. /\ b \in Seq(User)
          /\ Len(b) = IF k + 1 <= n THEN n - (k + 1) + 1 ELSE 0
          /\ \A i \in 1..(n - (k + 1) + 1) : b[i] = waitq[(k + 1) + i - 1]
      BY <1>1, <2>1, SubSeqProperties
    <2>3. QED
      BY <1>1, <2>2
  <1> HIDE DEF a, b, n
  <1>5. /\ q \in Seq(User) /\ Len(q) = (k - 1) + (n - k)
        /\ \A i \in 1..((k - 1) + (n - k)) :
             q[i] = IF i <= k - 1 THEN a[i] ELSE b[i - (k - 1)]
    BY <1>2, <1>3, <1>4, ConcatProperties
  <1>6. /\ Len(q) = n - 1
        /\ \A i \in 1..(n-1) : q[i] = IF i < k THEN waitq[i] ELSE waitq[i + 1]
    BY <1>1, <1>3, <1>4, <1>5
  <1>7. QED
    BY <1>1, <1>5, <1>6 DEF n, q

\* Unlinking an element that occurs once leaves the others, once, and not that one.
LEMMA DequeueFacts ==
  ASSUME waitq \in Seq(User),
         \A i, j \in 1..Len(waitq) : waitq[i] = waitq[j] => i = j,
         NEW t \in User, NEW q, q = epoll_dequeue(t)
  PROVE  /\ q \in Seq(User)
         /\ \A i, j \in 1..Len(q) : q[i] = q[j] => i = j
         /\ \A i \in 1..Len(q) : q[i] # t /\ \E j \in 1..Len(waitq) : q[i] = waitq[j]
  <1>1. CASE t \notin ToSet(waitq)
    BY <1>1 DEF epoll_dequeue, ToSet
  <1>2. CASE t \in ToSet(waitq)
    <2> DEFINE n == Len(waitq)
    <2>1. PICK k \in 1..n :
            /\ waitq[k] = t
            /\ q \in Seq(User) /\ Len(q) = n - 1
            /\ \A i \in 1..(n-1) : q[i] = IF i < k THEN waitq[i] ELSE waitq[i + 1]
      BY <1>2, DequeueShifts
    <2>2. n \in Nat /\ \A i, j \in 1..n : waitq[i] = waitq[j] => i = j
      OBVIOUS
    <2> HIDE DEF n
    <2>3. \A i \in 1..(n-1) : \E h \in 1..n :
            q[i] = waitq[h] /\ h # k /\ h = IF i < k THEN i ELSE i + 1
      BY <2>1, <2>2
    <2>4. \A i \in 1..(n-1) : q[i] # t
      BY <2>1, <2>2, <2>3
    <2>5. \A i, j \in 1..(n-1) : q[i] = q[j] => i = j
      <3> SUFFICES ASSUME NEW i \in 1..(n-1), NEW j \in 1..(n-1), q[i] = q[j] PROVE i = j
        OBVIOUS
      <3>1. PICK h \in 1..n : q[i] = waitq[h] /\ h = IF i < k THEN i ELSE i + 1
        BY <2>3
      <3>2. PICK g \in 1..n : q[j] = waitq[g] /\ g = IF j < k THEN j ELSE j + 1
        BY <2>3
      <3>3. h = g
        BY <2>2, <3>1, <3>2
      <3>4. QED
        BY <2>1, <2>2, <3>1, <3>2, <3>3
    <2>6. QED
      BY <2>1, <2>3, <2>4, <2>5 DEF n
  <1>3. QED
    BY <1>1, <1>2

\* Every other element is still there.
LEMMA DequeueKeeps ==
  ASSUME waitq \in Seq(User), NEW t \in User,
         NEW j \in 1..Len(waitq), waitq[j] # t
  PROVE  \E i \in 1..Len(epoll_dequeue(t)) : epoll_dequeue(t)[i] = waitq[j]
  <1> DEFINE n == Len(waitq)
             q == epoll_dequeue(t)
  <1>1. CASE t \notin ToSet(waitq)
    BY <1>1 DEF epoll_dequeue
  <1>2. CASE t \in ToSet(waitq)
    <2>1. PICK k \in 1..n :
            /\ waitq[k] = t
            /\ q \in Seq(User) /\ Len(q) = n - 1
            /\ \A i \in 1..(n-1) : q[i] = IF i < k THEN waitq[i] ELSE waitq[i + 1]
      BY <1>2, DequeueShifts
    <2>2. n \in Nat /\ j \in 1..n /\ j # k
      BY <2>1
    <2> HIDE DEF n, q
    <2>3. CASE j < k
      <3>1. j \in 1..(n-1) /\ q[j] = waitq[j]
        BY <2>1, <2>2, <2>3
      <3>2. QED
        BY <2>1, <3>1 DEF q
    <2>4. CASE j > k
      <3>1. j - 1 \in 1..(n-1) /\ q[j - 1] = waitq[j]
        BY <2>1, <2>2, <2>4
      <3>2. QED
        BY <2>1, <3>1 DEF q
    <2>5. QED
      BY <2>2, <2>3, <2>4
  <1>3. QED
    BY <1>1, <1>2

\* A new waiter goes to the end of the queue.
LEMMA EnqueueFacts ==
  ASSUME waitq \in Seq(User), NEW t \in User
  PROVE  /\ Append(waitq, t) \in Seq(User)
         /\ Len(Append(waitq, t)) = Len(waitq) + 1
         /\ \A i \in 1..Len(waitq) : Append(waitq, t)[i] = waitq[i]
         /\ Append(waitq, t)[Len(waitq) + 1] = t
  BY AppendProperties

-----------------------------------------------------------------------------
(* Taking the lock and going to sleep.                                     *)

\* A user that takes a free lock keeps the invariant.
LEMMA AcquireInv ==
  ASSUME Inv, NEW t \in User, owner = None, pc[t] \in Parked \cup {"idle"},
         t \notin asleep, Acquire(t), UNCHANGED epollVars
  PROVE  Inv'
  <1> USE DEF Inv
  <1>1. TypeOK'
    <2>1. waitq' \in Seq(User)
      BY DequeueFacts DEF QueueInv, Acquire
    <2>2. QED
      BY <2>1 DEF TypeOK, Acquire, Parked, Locking, epollVars
  <1>2. QueueInv'
    <2>1. /\ waitq' \in Seq(User)
          /\ \A i, j \in 1..Len(waitq') : waitq'[i] = waitq'[j] => i = j
          /\ \A i \in 1..Len(waitq') :
               waitq'[i] # t /\ \E j \in 1..Len(waitq) : waitq'[i] = waitq[j]
      BY DequeueFacts DEF QueueInv, Acquire
    <2>2. \A i \in 1..Len(waitq') : pc'[waitq'[i]] \in {"queued", "waiting", "relocking"}
      BY <2>1 DEF QueueInv, TypeOK, Acquire
    <2>3. event' \subseteq {u \in User : pc'[u] \in {"waiting", "relocking"}}
      BY DEF QueueInv, TypeOK, Acquire
    <2>4. QED
      BY <2>1, <2>2, <2>3 DEF QueueInv
  <1>3. SleepInv'
    BY DEF SleepInv, TypeOK, Acquire
  <1>4. MutualExclusion'
    BY UsersAssumption DEF MutualExclusion, TypeOK, Acquire, Inside, Parked, Locking
  <1>5. ChainInv'
    BY DEF ChainInv, TypeOK, Acquire, epollVars, Queued, Parked, Locking
  <1>6. NoLostUnlock'
    BY UsersAssumption DEF NoLostUnlock, Acquire
  <1>7. NoLostSignal'
    <2> SUFFICES ASSUME NEW u \in asleep' \cap event', pc'[u] = "waiting"
                 PROVE  IF u \in CoThread
                        THEN \/ MarkComing' \/ home[u] \notin corew'
                             \/ \E v \in User : pc'[v] = "signalled"
                        ELSE owner' # None
      BY DEF NoLostSignal
    <2>1. u \in asleep \cap event /\ u # t /\ pc[u] = "waiting" /\ owner' # None
      BY UsersAssumption DEF Acquire, TypeOK
    <2>2. pc[t] # "signalled"
      BY DEF Parked, Locking
    <2>3. QED
      BY <2>1, <2>2 DEF NoLostSignal, MarkComing, Acquire, epollVars, TypeOK
  <1>8. QED
    BY <1>1, <1>2, <1>3, <1>4, <1>5, <1>6, <1>7

\* So does a user that goes to sleep: for the lock while somebody owns it, or for a
\* signal it has not got.  A coroutine whose waiter is new does so while the listener is
\* not draining.
LEMMA ParkInv ==
  ASSUME Inv, NEW t \in User, NEW l \in Parked, t \notin asleep,
         \/ pc[t] \in {"idle", "locking"} /\ l = "locking"
         \/ pc[t] \in {"waiting", "relocking"} /\ l \in {"waiting", "relocking"},
         pc[t] = "idle" /\ t \in CoThread => lst # "drain",
         l \in Locking => owner # None,
         l = "waiting" => t \notin event,
         Park(t), pc' = [pc EXCEPT ![t] = l],
         UNCHANGED <<owner, waitq, event, timer, marked, epollVars>>
  PROVE  Inv'
  <1> USE DEF Inv
  <1>1. TypeOK'
    BY DEF TypeOK, Park, epollVars
  <1>2. QueueInv'
    BY DEF QueueInv, TypeOK
  <1>3. SleepInv'
    BY DEF SleepInv, TypeOK, Park
  <1>4. MutualExclusion'
    BY DEF MutualExclusion, TypeOK, Inside, Parked, Locking
  <1>5. ChainInv'
    <2>1. lst' = "drain" => Queued' \subseteq marked'
      BY DEF ChainInv, TypeOK, epollVars, Queued, Parked, Locking
    <2>2. \A u \in asleep' \cap marked' : home[u] \notin corew'
      BY DEF ChainInv, TypeOK, Park
    <2>3. QED
      BY <2>1, <2>2 DEF ChainInv, epollVars
  <1>6. NoLostUnlock'
    BY DEF NoLostUnlock, TypeOK, Park, MarkComing, WalkComing, epollVars, Locking, Parked
  <1>7. NoLostSignal'
    <2> SUFFICES ASSUME NEW u \in asleep' \cap event', pc'[u] = "waiting"
                 PROVE  IF u \in CoThread
                        THEN \/ MarkComing' \/ home[u] \notin corew'
                             \/ \E v \in User : pc'[v] = "signalled"
                        ELSE owner' # None
      BY DEF NoLostSignal
    <2>1. u # t /\ u \in asleep \cap event /\ pc[u] = "waiting"
      BY DEF Park, TypeOK
    <2>2. \A v \in User : pc[v] = "signalled" => pc'[v] = "signalled"
      BY DEF TypeOK
    <2>3. QED
      BY <2>1, <2>2 DEF NoLostSignal, MarkComing, Park, epollVars
  <1>8. QED
    BY <1>1, <1>2, <1>3, <1>4, <1>5, <1>6, <1>7

\* One turn of co_thread_lock_internal().
LEMMA LockOrParkInv ==
  ASSUME Inv, NEW t \in User, NEW l \in Locking, t \notin asleep,
         \/ pc[t] \in {"idle", "locking"} /\ l = "locking"
         \/ pc[t] \in {"waiting", "relocking"} /\ l = "relocking",
         pc[t] = "idle" /\ t \in CoThread => lst # "drain",
         LockOrPark(t, l), UNCHANGED epollVars
  PROVE  Inv'
  <1>1. CASE owner = None
    BY <1>1, AcquireInv DEF LockOrPark, Parked, Locking
  <1>2. CASE owner # None
    BY <1>2, ParkInv DEF LockOrPark, Parked, Locking, epollVars
  <1>3. QED
    BY <1>1, <1>2

-----------------------------------------------------------------------------
(* Releasing and signalling.                                               *)

\* A user that gives the lock up, to leave or to wait, wakes everybody who wants it:
\* the pthreads directly, the coroutines through the eventfd.
LEMMA ReleaseInv ==
  ASSUME Inv, NEW t \in User, pc[t] \in Inside, NEW l \in {"idle", "waiting"},
         l = "waiting" <=> pc[t] = "queued",
         co_thread_unlock_internal, pc' = [pc EXCEPT ![t] = l],
         asleep' = (asleep \ PThread) \cup (IF l = "waiting" THEN {t} ELSE {}),
         corew' \subseteq corew,
         l = "waiting" /\ t \in CoThread => home[t] \notin corew',
         UNCHANGED <<waitq, event, timer, marked>>
  PROVE  Inv'
  <1> USE DEF Inv
  <1>0. t \notin asleep /\ t \notin event
    BY DEF SleepInv, QueueInv, Parked, Locking, Inside
  <1>1. TypeOK'
    BY DEF TypeOK, co_thread_unlock_internal, eventfd_write, Parked, Locking
  <1>2. QueueInv'
    BY DEF QueueInv, TypeOK, Inside
  <1>3. SleepInv'
    BY <1>0 DEF SleepInv, TypeOK, Parked
  <1>4. MutualExclusion'
    BY UsersAssumption DEF MutualExclusion, TypeOK, co_thread_unlock_internal, Inside
  <1>5. ChainInv'
    <2>1. lst' = "drain" => Queued' \subseteq marked'
      BY DEF ChainInv, TypeOK, co_thread_unlock_internal, eventfd_write, Queued, Parked,
             Locking
    <2>2. \A u \in asleep' \cap marked' : home[u] \notin corew'
      BY DEF ChainInv, TypeOK
    <2>3. QED
      BY <2>1, <2>2 DEF ChainInv, co_thread_unlock_internal, eventfd_write
  <1>6. MarkComing'
    BY DEF MarkComing, co_thread_unlock_internal, eventfd_write
  <1>7. NoLostUnlock'
    BY <1>0, <1>6 DEF NoLostUnlock, TypeOK, User, Locking
  <1>8. NoLostSignal'
    BY <1>0, <1>6 DEF NoLostSignal, TypeOK, User
  <1>9. QED
    BY <1>1, <1>2, <1>3, <1>4, <1>5, <1>7, <1>8

\* co_thread_wait() puts the owner in the queue.
LEMMA WaitInv ==
  ASSUME Inv, NEW t \in User, co_thread_wait(t)
  PROVE  Inv'
  <1> USE DEF Inv
  <1>0. /\ pc[t] = "held" /\ lst # "drain"
        /\ pc' = [pc EXCEPT ![t] = "queued"]
        /\ waitq' = Append(waitq, t)
        /\ \E tmo \in {"none", "running"} : timer' = [timer EXCEPT ![t] = tmo]
        /\ UNCHANGED <<owner, event, asleep, marked, corew, efd, edge, lst>>
    BY UsersAssumption DEF co_thread_wait, ListenerLockFree, epollVars
  <1>1. TypeOK'
    BY <1>0, EnqueueFacts DEF TypeOK, Parked, Locking
  <1>2. QueueInv'
    <2>1. \A i \in 1..Len(waitq) : waitq[i] # t
      BY <1>0 DEF QueueInv
    <2>2. /\ waitq' \in Seq(User)
          /\ Len(waitq') = Len(waitq) + 1
          /\ \A i \in 1..Len(waitq) : waitq'[i] = waitq[i]
          /\ waitq'[Len(waitq) + 1] = t
      BY <1>0, EnqueueFacts DEF QueueInv
    <2>3. Len(waitq) \in Nat
      BY DEF QueueInv
    <2>4. \A i, j \in 1..Len(waitq') : waitq'[i] = waitq'[j] => i = j
      BY <2>1, <2>2, <2>3 DEF QueueInv
    <2>5. \A i \in 1..Len(waitq') : pc'[waitq'[i]] \in {"queued", "waiting", "relocking"}
      <3> SUFFICES ASSUME NEW i \in 1..Len(waitq')
                   PROVE  pc'[waitq'[i]] \in {"queued", "waiting", "relocking"}
        OBVIOUS
      <3>1. CASE i = Len(waitq) + 1
        BY <1>0, <2>2, <3>1 DEF TypeOK
      <3>2. CASE i \in 1..Len(waitq)
        BY <1>0, <2>1, <2>2, <3>2 DEF QueueInv, TypeOK
      <3>3. QED
        BY <2>2, <2>3, <3>1, <3>2
    <2>6. event' \subseteq {u \in User : pc'[u] \in {"waiting", "relocking"}}
      BY <1>0 DEF QueueInv, TypeOK
    <2>7. QED
      BY <2>2, <2>4, <2>5, <2>6 DEF QueueInv
  <1>3. SleepInv'
    BY <1>0 DEF SleepInv, TypeOK, Parked, Locking
  <1>4. MutualExclusion'
    BY <1>0 DEF MutualExclusion, TypeOK, Inside
  <1>5. ChainInv'
    BY <1>0 DEF ChainInv, TypeOK
  <1>6. NoLostUnlock'
    BY <1>0 DEF NoLostUnlock, TypeOK, MarkComing, WalkComing, Locking
  <1>7. NoLostSignal'
    BY <1>0 DEF NoLostSignal, TypeOK, MarkComing
  <1>8. QED
    BY <1>1, <1>2, <1>3, <1>4, <1>5, <1>6, <1>7

\* A signal flags waiters; the owner is going to write the eventfd.
LEMMA SignalInv ==
  ASSUME Inv, NEW t \in User, co_thread_signal_internal(t)
  PROVE  Inv'
  <1> USE DEF Inv
  <1>0. /\ pc[t] = "held" /\ waitq # << >> /\ \A u \in User : pc[u] # "queued"
        /\ pc' = [pc EXCEPT ![t] = "signalled"]
        /\ \E s \in Signalled : event' = event \cup s
        /\ UNCHANGED <<owner, waitq, timer, asleep, marked, corew, efd, edge, lst>>
    BY DEF co_thread_signal_internal, GlobalLockFree, epollVars
  <1>1. event' \subseteq {u \in User : pc[u] \in {"waiting", "relocking"}}
    <2>1. \A i \in 1..Len(waitq) : waitq[i] \in User /\ pc[waitq[i]] \in {"waiting", "relocking"}
      BY <1>0 DEF QueueInv
    <2>2. Head(waitq) = waitq[1] /\ 1 \in 1..Len(waitq) /\ DOMAIN waitq = 1..Len(waitq)
      BY <1>0 DEF QueueInv
    <2>3. QED
      BY <1>0, <2>1, <2>2 DEF Signalled, ToSet, QueueInv
  <1>2. TypeOK'
    BY <1>0, <1>1 DEF TypeOK
  <1>3. QueueInv'
    BY <1>0, <1>1 DEF QueueInv, TypeOK
  <1>4. SleepInv'
    BY <1>0 DEF SleepInv, TypeOK, Parked, Locking
  <1>5. MutualExclusion'
    BY <1>0 DEF MutualExclusion, TypeOK, Inside
  <1>6. ChainInv'
    BY <1>0 DEF ChainInv, TypeOK, Queued, Parked, Locking
  <1>7. NoLostUnlock'
    BY <1>0 DEF NoLostUnlock, TypeOK, MarkComing, WalkComing, Locking
  <1>8. NoLostSignal'
    <2>1. owner' # None
      BY <1>0, UsersAssumption DEF MutualExclusion, Inside
    <2>2. pc'[t] = "signalled"
      BY <1>0 DEF TypeOK
    <2>3. QED
      BY <2>1, <2>2 DEF NoLostSignal
  <1>9. QED
    BY <1>2, <1>3, <1>4, <1>5, <1>6, <1>7, <1>8

\* Then it writes it.
LEMMA SignalWriteInv ==
  ASSUME Inv, NEW t \in User, co_thread_signal_write(t)
  PROVE  Inv'
  <1> USE DEF Inv
  <1>0. /\ pc[t] = "signalled" /\ pc' = [pc EXCEPT ![t] = "held"]
        /\ efd' = TRUE /\ edge' = TRUE
        /\ UNCHANGED <<owner, waitq, event, timer, asleep, marked, corew, lst>>
    BY DEF co_thread_signal_write, eventfd_write
  <1>1. TypeOK'
    BY <1>0 DEF TypeOK
  <1>2. QueueInv'
    BY <1>0 DEF QueueInv, TypeOK
  <1>3. SleepInv'
    BY <1>0 DEF SleepInv, TypeOK, Parked, Locking
  <1>4. MutualExclusion'
    BY <1>0 DEF MutualExclusion, TypeOK, Inside
  <1>5. ChainInv'
    BY <1>0 DEF ChainInv, TypeOK, Queued, Parked, Locking
  <1>6. MarkComing'
    BY <1>0 DEF MarkComing
  <1>7. NoLostUnlock'
    BY <1>0, <1>6 DEF NoLostUnlock, TypeOK, Locking
  <1>8. NoLostSignal'
    BY <1>0, <1>6 DEF NoLostSignal, TypeOK
  <1>9. QED
    BY <1>1, <1>2, <1>3, <1>4, <1>5, <1>7, <1>8

-----------------------------------------------------------------------------
(* The listener, the cores and the clock.                                  *)

\* epoll_wait() reports the eventfd.
LEMMA EpollWaitInv ==
  ASSUME Inv, epoll_wait_events
  PROVE  Inv'
  <1> USE DEF Inv
  <1>0. /\ lst = "wait" /\ edge /\ edge' = FALSE
        /\ lst' = IF efd THEN "got" ELSE "wait"
        /\ UNCHANGED <<owner, pc, waitq, event, timer, asleep, marked, corew, efd>>
    BY DEF epoll_wait_events, userVars
  <1>1. MarkComing' <=> MarkComing
    BY <1>0 DEF MarkComing
  <1>2. TypeOK' /\ QueueInv' /\ SleepInv' /\ MutualExclusion'
    BY <1>0 DEF TypeOK, QueueInv, SleepInv, MutualExclusion
  <1>3. ChainInv'
    BY <1>0 DEF ChainInv, Queued
  <1>4. NoLostUnlock' /\ NoLostSignal'
    BY <1>0, <1>1 DEF NoLostUnlock, NoLostSignal, WalkComing
  <1>5. QED
    BY <1>2, <1>3, <1>4

\* The listener marks the waiters: a wake-up that was coming is now at the cores.
LEMMA MarkInv ==
  ASSUME Inv, epoll_listener_mark
  PROVE  Inv'
  <1> USE DEF Inv
  <1>0. /\ lst = "got" /\ lst' = "drain"
        /\ marked' = marked \cup Queued
        /\ corew' = IF Queued = {} THEN corew ELSE {}
        /\ UNCHANGED <<owner, pc, waitq, event, timer, asleep, efd, edge>>
    BY DEF epoll_listener_mark, userVars
  <1>1. \A t \in asleep : t \in CoThread => t \in Queued
    BY DEF SleepInv, TypeOK, Queued
  <1>2. TypeOK' /\ QueueInv' /\ SleepInv' /\ MutualExclusion'
    BY <1>0 DEF TypeOK, QueueInv, SleepInv, MutualExclusion, Queued
  <1>3. ChainInv'
    BY <1>0, <1>1 DEF ChainInv, Queued
  <1>4. NoLostUnlock'
    BY <1>0, <1>1 DEF NoLostUnlock, WalkComing
  <1>5. NoLostSignal'
    BY <1>0, <1>1 DEF NoLostSignal
  <1>6. QED
    BY <1>2, <1>3, <1>4, <1>5

\* It drains the eventfd, and with it whatever was written since: nothing is lost,
\* because every waiter is marked.
LEMMA DrainInv ==
  ASSUME Inv, epoll_listener_drain
  PROVE  Inv'
  <1> USE DEF Inv
  <1>0. /\ lst = "drain" /\ lst' = "wait" /\ efd' = FALSE
        /\ UNCHANGED <<owner, pc, waitq, event, timer, asleep, marked, corew, edge>>
    BY DEF epoll_listener_drain, userVars
  <1>1. \A t \in asleep : t \in CoThread => t \in marked /\ home[t] \notin corew
    BY <1>0 DEF ChainInv, SleepInv, TypeOK, Queued
  <1>2. TypeOK' /\ QueueInv' /\ SleepInv' /\ MutualExclusion'
    BY <1>0 DEF TypeOK, QueueInv, SleepInv, MutualExclusion
  <1>3. ChainInv'
    BY <1>0 DEF ChainInv
  <1>4. NoLostUnlock'
    BY <1>0, <1>1 DEF NoLostUnlock, WalkComing
  <1>5. NoLostSignal'
    BY <1>0, <1>1 DEF NoLostSignal
  <1>6. QED
    BY <1>2, <1>3, <1>4, <1>5

\* A core goes to sleep only when none of its coroutines is to be resumed.
LEMMA CoreInv ==
  ASSUME Inv, NEW c \in Core, pclthread(c)
  PROVE  Inv'
  <1> USE DEF Inv
  <1>0. /\ lst # "drain"
        /\ asleep' = asleep \ Resumed(c)
        /\ marked' = marked \ Resumed(c)
        /\ corew' = IF Resumed(c) = {} THEN corew \cup {c} ELSE corew
        /\ UNCHANGED <<owner, pc, waitq, event, timer, efd, edge, lst>>
    BY DEF pclthread, ListenerLockFree, userVars, epollVars
  <1>1. \A t \in asleep' : t \in CoThread /\ t \in marked \cup event =>
          t \in asleep /\ home[t] # c
    BY <1>0 DEF Resumed
  <1>2. \A t \in asleep' : t \in CoThread /\ t \in marked \cup event /\ home[t] \notin corew
          => home[t] \notin corew'
    BY <1>0, <1>1
  <1>3. TypeOK'
    BY <1>0 DEF TypeOK
  <1>4. QueueInv' /\ SleepInv' /\ MutualExclusion'
    BY <1>0 DEF QueueInv, SleepInv, MutualExclusion
  <1>5. ChainInv'
    <2>1. \A t \in asleep' \cap marked' : home[t] \notin corew'
      BY <1>0, <1>2 DEF ChainInv, TypeOK
    <2>2. QED
      BY <1>0, <2>1 DEF ChainInv
  <1>6. MarkComing' <=> MarkComing
    BY <1>0 DEF MarkComing
  <1>7. NoLostUnlock'
    <2> SUFFICES ASSUME owner' = None, NEW t \in asleep', pc'[t] \in Locking
                 PROVE  t \in CoThread /\ (MarkComing' \/ WalkComing(t)')
      BY DEF NoLostUnlock
    <2>1. t \in CoThread /\ (MarkComing \/ WalkComing(t))
      BY <1>0 DEF NoLostUnlock
    <2>2. WalkComing(t) => WalkComing(t)'
      BY <1>0, <1>2, <2>1 DEF WalkComing, Resumed
    <2>3. QED
      BY <1>6, <2>1, <2>2
  <1>8. NoLostSignal'
    BY <1>0, <1>2, <1>6 DEF NoLostSignal
  <1>9. QED
    BY <1>3, <1>4, <1>5, <1>7, <1>8

\* Time passes, or a pthread wakes without a reason.
LEMMA ClockInv ==
  ASSUME Inv, NEW t \in User, clock(t) \/ pthread_cond_return(t)
  PROVE  Inv'
  <1> USE DEF Inv
  <1>0. /\ asleep' \subseteq asleep /\ corew' \subseteq corew
        /\ timer' \in [User -> {"none", "running", "expired"}]
        /\ UNCHANGED <<owner, pc, waitq, event, marked, efd, edge, lst>>
    BY DEF clock, pthread_cond_return, userVars, epollVars, TypeOK
  <1>1. TypeOK'
    BY <1>0 DEF TypeOK
  <1>2. QueueInv' /\ SleepInv' /\ MutualExclusion'
    BY <1>0 DEF QueueInv, SleepInv, MutualExclusion
  <1>3. ChainInv'
    BY <1>0 DEF ChainInv, Queued
  <1>4. NoLostUnlock' /\ NoLostSignal'
    BY <1>0 DEF NoLostUnlock, NoLostSignal, MarkComing, WalkComing
  <1>5. QED
    BY <1>1, <1>2, <1>3, <1>4

-----------------------------------------------------------------------------
(* The theorems.                                                           *)

\* The initial state satisfies the invariant.
LEMMA InitInv == Init => Inv
  <1> SUFFICES ASSUME Init PROVE Inv
    OBVIOUS
  <1>1. TypeOK
    <2>1. waitq \in Seq(User)
      BY DEF Init
    <2>2. efd \in BOOLEAN /\ edge \in BOOLEAN
      BY Zenon DEF Init
    <2>3. pc \in [User -> {"idle"}] /\ timer \in [User -> {"none"}]
      BY DEF Init
    <2>4. QED
      BY <2>1, <2>2, <2>3 DEF Init, TypeOK
  <1>2. QueueInv /\ SleepInv /\ ChainInv
    BY DEF Init, QueueInv, SleepInv, ChainInv
  <1>3. MutualExclusion
    BY UsersAssumption DEF Init, MutualExclusion, Inside
  <1>4. NoLostUnlock /\ NoLostSignal
    BY DEF Init, NoLostUnlock, NoLostSignal
  <1>5. QED
    BY <1>1, <1>2, <1>3, <1>4 DEF Inv

\* Every call and every step of a call keeps it.
LEMMA CallInv ==
  ASSUME Inv, NEW t \in User, Invoke(t) \/ Progress(t)
  PROVE  Inv'
  <1>1. CASE co_thread_lock(t)
    <2>1. pc[t] = "idle" /\ t \notin asleep
      BY <1>1 DEF co_thread_lock, Inv, SleepInv, Parked, Locking
    <2>2. QED
      BY <1>1, <2>1, LockOrParkInv DEF co_thread_lock, ListenerLockFree, Locking
  <1>2. CASE co_thread_lock_internal(t)
    BY <1>2, LockOrParkInv DEF co_thread_lock_internal, Locking
  <1>3. CASE co_thread_unlock(t)
    BY <1>3, ReleaseInv DEF co_thread_unlock, Inside
  <1>4. CASE co_thread_wait(t)
    BY <1>4, WaitInv
  <1>5. CASE co_thread_wait_unlock(t)
    BY <1>5, ReleaseInv DEF co_thread_wait_unlock, Inside
  <1>6. CASE co_thread_wait_return(t)
    <2>1. CASE LockOrPark(t, "relocking")
      BY <1>6, <2>1, LockOrParkInv DEF co_thread_wait_return, Locking
    <2>2. CASE t \notin event /\ Park(t) /\ UNCHANGED <<userVars, marked>>
      <3>1. pc' = [pc EXCEPT ![t] = "waiting"]
        BY <1>6, <2>2 DEF co_thread_wait_return, userVars, Inv, TypeOK
      <3>2. QED
        BY <1>6, <2>2, <3>1, ParkInv
           DEF co_thread_wait_return, userVars, epollVars, Parked, Locking
    <2>3. QED
      BY <1>6, <2>1, <2>2 DEF co_thread_wait_return
  <1>7. CASE co_thread_signal_internal(t)
    BY <1>7, SignalInv
  <1>8. CASE co_thread_signal_write(t)
    BY <1>8, SignalWriteInv
  <1>9. QED
    BY <1>1, <1>2, <1>3, <1>4, <1>5, <1>6, <1>7, <1>8 DEF Invoke, Progress

\* Inv is an invariant of the lock.
THEOREM Invariance == Spec => []Inv
  <1>1. Inv /\ [Next]_vars => Inv'
    <2> SUFFICES ASSUME Inv, [Next]_vars PROVE Inv'
      OBVIOUS
    <2>1. ASSUME NEW t \in User,
                 Invoke(t) \/ Progress(t) \/ clock(t) \/ pthread_cond_return(t)
          PROVE  Inv'
      BY <2>1, CallInv, ClockInv
    <2>2. ASSUME NEW c \in Core, pclthread(c) PROVE Inv'
      BY <2>2, CoreInv
    <2>3. CASE Listener
      BY <2>3, EpollWaitInv, MarkInv, DrainInv DEF Listener
    <2>4. CASE UNCHANGED vars
      BY <2>4 DEF vars, Inv, TypeOK, QueueInv, SleepInv, MutualExclusion, ChainInv,
                  NoLostUnlock, NoLostSignal, MarkComing, WalkComing, Queued
    <2>5. QED
      BY <2>1, <2>2, <2>3, <2>4 DEF Next
  <1>2. QED
    BY <1>1, InitInv, PTL DEF Spec

\* The variables keep their types.
THEOREM TypeCorrect == Spec => []TypeOK
  <1>1. Inv => TypeOK
    BY DEF Inv
  <1>2. QED
    BY <1>1, Invariance, PTL

\* At most one user, coroutine or pthread, is between co_thread_lock() and
\* co_thread_unlock(), whatever their number.
THEOREM Exclusion == Spec => []MutualExclusion
  <1>1. Inv => MutualExclusion
    BY DEF Inv
  <1>2. QED
    BY <1>1, Invariance, PTL

\* A user that sleeps while the lock is free is being woken: no interleaving of
\* unlocking, queueing, marking, draining and walking loses an unlock.
THEOREM UnlockWakes == Spec => []NoLostUnlock
  <1>1. Inv => NoLostUnlock
    BY DEF Inv
  <1>2. QED
    BY <1>1, Invariance, PTL

\* A waiter that was flagged by a signal or a broadcast is being woken.
THEOREM SignalWakes == Spec => []NoLostSignal
  <1>1. Inv => NoLostSignal
    BY DEF Inv
  <1>2. QED
    BY <1>1, Invariance, PTL

-----------------------------------------------------------------------------
(* The lock implements the monitor.                                        *)

\* What else the refinement needs: whoever waits is in the queue, where a broadcast
\* finds it, and has a reason when it stops waiting.
WaiterInv ==
    /\ \A t \in User : pc[t] \in {"queued", "waiting", "relocking"} =>
         \E i \in 1..Len(waitq) : waitq[i] = t
    /\ \A t \in User : pc[t] = "relocking" => t \in event \/ timer[t] = "expired"

\* Taking the lock leaves the other waiters in the queue.
LEMMA AcquireWaiter ==
  ASSUME Inv, WaiterInv, NEW t \in User, Acquire(t)
  PROVE  WaiterInv'
  <1>1. \A j \in 1..Len(waitq) : waitq[j] # t => \E i \in 1..Len(waitq') : waitq'[i] = waitq[j]
    <2>1. /\ waitq \in Seq(User)
          /\ \A i, j \in 1..Len(waitq) : waitq[i] = waitq[j] => i = j
          /\ waitq' = epoll_dequeue(t)
      BY DEF Inv, QueueInv, Acquire
    <2>2. QED
      BY <2>1, DequeueKeeps
  <1>2. \A u \in User : u # t => pc'[u] = pc[u] /\ timer'[u] = timer[u]
    BY DEF Acquire, Inv, TypeOK
  <1>3. pc'[t] = "held" /\ event' = event \ {t}
    BY DEF Acquire, Inv, TypeOK
  <1>4. \A u \in User : pc'[u] \in {"queued", "waiting", "relocking"} =>
          \E i \in 1..Len(waitq') : waitq'[i] = u
    BY <1>1, <1>2, <1>3 DEF WaiterInv
  <1>5. \A u \in User : pc'[u] = "relocking" => u \in event' \/ timer'[u] = "expired"
    BY <1>2, <1>3 DEF WaiterInv
  <1>6. QED
    BY <1>4, <1>5 DEF WaiterInv

\* One turn of co_thread_lock_internal() keeps it.
LEMMA LockOrParkWaiter ==
  ASSUME Inv, WaiterInv, NEW t \in User, NEW l \in Locking, LockOrPark(t, l),
         l = "relocking" => /\ pc[t] \in {"waiting", "relocking"}
                            /\ t \in event \/ timer[t] = "expired"
  PROVE  WaiterInv'
  <1>1. CASE owner = None
    BY <1>1, AcquireWaiter DEF LockOrPark
  <1>2. CASE owner # None
    <2>1. pc' = [pc EXCEPT ![t] = l] /\ UNCHANGED <<waitq, event, timer>>
      BY <1>2 DEF LockOrPark
    <2>2. QED
      BY <2>1 DEF WaiterInv, Inv, TypeOK, Locking
  <1>3. QED
    BY <1>1, <1>2

\* Every step keeps it.
LEMMA StepWaiter == Inv /\ WaiterInv /\ [Next]_vars => WaiterInv'
  <1> SUFFICES ASSUME Inv, WaiterInv, [Next]_vars PROVE WaiterInv'
    OBVIOUS
  <1>1. ASSUME NEW t \in User, co_thread_lock(t) \/ co_thread_lock_internal(t)
        PROVE  WaiterInv'
    <2>1. CASE co_thread_lock(t)
      BY <2>1, LockOrParkWaiter DEF co_thread_lock, Locking
    <2>2. CASE co_thread_lock_internal(t)
      BY <2>2, LockOrParkWaiter DEF co_thread_lock_internal, Locking, WaiterInv
    <2>3. QED
      BY <1>1, <2>1, <2>2
  <1>2. ASSUME NEW t \in User, co_thread_wait_return(t) PROVE WaiterInv'
    <2>1. CASE LockOrPark(t, "relocking") /\ (t \in event \/ timer[t] = "expired")
      BY <1>2, <2>1, LockOrParkWaiter DEF co_thread_wait_return, Locking
    <2>2. CASE UNCHANGED userVars
      BY <2>2 DEF userVars, WaiterInv
    <2>3. QED
      BY <1>2, <2>1, <2>2 DEF co_thread_wait_return
  <1>3. ASSUME NEW t \in User, co_thread_wait(t) PROVE WaiterInv'
    <2>1. /\ Len(waitq) \in Nat
          /\ Len(waitq') = Len(waitq) + 1
          /\ \A i \in 1..Len(waitq) : waitq'[i] = waitq[i]
          /\ waitq'[Len(waitq) + 1] = t
      BY <1>3, EnqueueFacts DEF co_thread_wait, Inv, QueueInv
    <2>2. /\ pc' = [pc EXCEPT ![t] = "queued"] /\ event' = event
          /\ \A u \in User : u # t => timer'[u] = timer[u]
      BY <1>3 DEF co_thread_wait, Inv, TypeOK
    <2>3. \A u \in User : pc'[u] \in {"queued", "waiting", "relocking"} =>
            \E i \in 1..Len(waitq') : waitq'[i] = u
      <3> SUFFICES ASSUME NEW u \in User, pc'[u] \in {"queued", "waiting", "relocking"}
                   PROVE  \E i \in 1..Len(waitq') : waitq'[i] = u
        OBVIOUS
      <3>1. CASE u = t
        BY <2>1, <3>1
      <3>2. CASE u # t
        <4>1. PICK i \in 1..Len(waitq) : waitq[i] = u
          BY <2>2, <3>2 DEF WaiterInv, Inv, TypeOK
        <4>2. i \in 1..Len(waitq') /\ waitq'[i] = u
          BY <2>1, <4>1
        <4>3. QED
          BY <4>2
      <3>3. QED
        BY <3>1, <3>2
    <2>4. \A u \in User : pc'[u] = "relocking" => u \in event' \/ timer'[u] = "expired"
      BY <2>2 DEF WaiterInv, Inv, TypeOK
    <2>5. QED
      BY <2>3, <2>4 DEF WaiterInv
  <1>4. ASSUME NEW t \in User,
               co_thread_unlock(t) \/ co_thread_wait_unlock(t)
                 \/ co_thread_signal_internal(t) \/ co_thread_signal_write(t)
        PROVE  WaiterInv'
    <2>1. /\ waitq' = waitq /\ timer' = timer /\ event \subseteq event'
          /\ \/ pc' = [pc EXCEPT ![t] = "waiting"] /\ pc[t] = "queued"
             \/ \E l \in {"idle", "held", "signalled"} : pc' = [pc EXCEPT ![t] = l]
      BY <1>4 DEF co_thread_unlock, co_thread_wait_unlock, co_thread_signal_internal,
                  co_thread_signal_write
    <2>2. QED
      BY <2>1 DEF WaiterInv, Inv, TypeOK
  <1>5. ASSUME NEW t \in User, clock(t) PROVE WaiterInv'
    BY <1>5 DEF clock, WaiterInv, Inv, TypeOK
  <1>6. CASE \/ \E t \in User : pthread_cond_return(t)
             \/ \E c \in Core : pclthread(c)
             \/ Listener
             \/ UNCHANGED vars
    <2>1. UNCHANGED userVars
      BY <1>6 DEF pthread_cond_return, pclthread, Listener, epoll_wait_events,
                  epoll_listener_mark, epoll_listener_drain, vars, userVars
    <2>2. QED
      BY <2>1 DEF userVars, WaiterInv
  <1>7. QED
    BY <1>1, <1>2, <1>3, <1>4, <1>5, <1>6 DEF Next, Invoke, Progress

\* The steps of the lock as steps of the monitor.
LEMMA StepImplements ==
  Inv /\ WaiterInv /\ [Next]_vars => [Monitor!Next]_(Monitor!vars)
  <1> SUFFICES ASSUME Inv, WaiterInv, [Next]_vars
               PROVE  Monitor!Next \/ UNCHANGED Monitor!vars
    OBVIOUS
  <1> DEFINE limited == {t \in Waiting : timer[t] # "none"}
  <1>1. ASSUME NEW t \in User, Acquire(t), owner = None, t \notin Waiting
        PROVE  Monitor!Lock(t)
    <2>1. owner' = t /\ pc' = [pc EXCEPT ![t] = "held"] /\ event' = event \ {t}
          /\ timer' = [timer EXCEPT ![t] = "none"]
      BY <1>1 DEF Acquire
    <2>2. Waiting' = Waiting /\ limited' = limited
      BY <1>1, <2>1 DEF Waiting, Inv, TypeOK
    <2>3. event' = event
      BY <1>1, <2>1 DEF Waiting, Inv, QueueInv
    <2>4. QED
      BY <1>1, <2>1, <2>2, <2>3 DEF Monitor!Lock
  <1>2. ASSUME NEW t \in User, Acquire(t), owner = None, t \in Waiting,
               t \in event \/ timer[t] = "expired"
        PROVE  Monitor!Return(t)
    <2>1. owner' = t /\ pc' = [pc EXCEPT ![t] = "held"] /\ event' = event \ {t}
          /\ timer' = [timer EXCEPT ![t] = "none"]
      BY <1>2 DEF Acquire
    <2>2. Waiting' = Waiting \ {t} /\ limited' = limited \ {t}
      BY <1>2, <2>1 DEF Waiting, Inv, TypeOK
    <2>3. t \in event \cup limited
      BY <1>2
    <2>4. QED
      BY <1>2, <2>1, <2>2, <2>3 DEF Monitor!Return
  <1>3. ASSUME NEW t \in User, NEW l, Park(t), pc' = [pc EXCEPT ![t] = l],
               UNCHANGED <<owner, event, timer>>, t \in Waiting <=> l \in {"waiting", "relocking"}
        PROVE  UNCHANGED Monitor!vars
    <2>1. Waiting' = Waiting /\ limited' = limited
      BY <1>3 DEF Waiting, Inv, TypeOK
    <2>2. QED
      BY <1>3, <2>1 DEF Monitor!vars
  <1>4. ASSUME NEW t \in User, co_thread_lock(t) \/ co_thread_lock_internal(t)
        PROVE  Monitor!Next \/ UNCHANGED Monitor!vars
    <2>1. PICK l \in Locking : /\ LockOrPark(t, l)
                               /\ t \in Waiting <=> l = "relocking"
                               /\ l = "relocking" => pc[t] = "relocking"
      BY <1>4 DEF co_thread_lock, co_thread_lock_internal, Locking, Waiting
    <2>2. CASE owner = None
      <3>1. t \in Waiting => t \in event \/ timer[t] = "expired"
        BY <2>1 DEF WaiterInv
      <3>2. QED
        BY <1>1, <1>2, <2>1, <2>2, <3>1 DEF LockOrPark, Monitor!Next
    <2>3. CASE owner # None
      BY <1>3, <2>1, <2>3 DEF LockOrPark, Locking
    <2>4. QED
      BY <2>2, <2>3
  <1>5. ASSUME NEW t \in User, co_thread_wait_return(t)
        PROVE  Monitor!Next \/ UNCHANGED Monitor!vars
    <2>1. t \in Waiting
      BY <1>5 DEF co_thread_wait_return, Waiting
    <2>2. CASE LockOrPark(t, "relocking") /\ (t \in event \/ timer[t] = "expired")
      BY <1>2, <1>3, <2>1, <2>2 DEF LockOrPark, Monitor!Next
    <2>3. CASE UNCHANGED userVars
      BY <2>3 DEF userVars, Monitor!vars, Waiting
    <2>4. QED
      BY <1>5, <2>2, <2>3 DEF co_thread_wait_return
  <1>6. ASSUME NEW t \in User, co_thread_unlock(t) PROVE Monitor!Unlock(t)
    <2>1. /\ pc[t] = "held" /\ pc' = [pc EXCEPT ![t] = "idle"]
          /\ owner' = None /\ UNCHANGED <<event, timer>>
      BY <1>6 DEF co_thread_unlock, co_thread_unlock_internal
    <2>2. owner = t
      BY <2>1 DEF Inv, MutualExclusion, Inside
    <2>3. Waiting' = Waiting /\ limited' = limited
      BY <2>1 DEF Waiting, Inv, TypeOK
    <2>4. QED
      BY <2>1, <2>2, <2>3 DEF Monitor!Unlock
  <1>7. ASSUME NEW t \in User, co_thread_wait_unlock(t) PROVE Monitor!Wait(t)
    <2>1. /\ pc[t] = "queued" /\ pc' = [pc EXCEPT ![t] = "waiting"]
          /\ owner' = None /\ UNCHANGED <<event, timer>>
      BY <1>7 DEF co_thread_wait_unlock, co_thread_unlock_internal
    <2>2. owner = t
      BY <2>1 DEF Inv, MutualExclusion, Inside
    <2>3. Waiting' = Waiting \cup {t}
      BY <2>1 DEF Waiting, Inv, TypeOK
    <2>4. limited' \in {limited, limited \cup {t}}
      BY <2>1, <2>3
    <2>5. QED
      BY <2>1, <2>2, <2>3, <2>4 DEF Monitor!Wait
  <1>8. ASSUME NEW t \in User, co_thread_signal_internal(t) PROVE Monitor!Signal(t)
    <2>1. /\ pc[t] = "held" /\ pc' = [pc EXCEPT ![t] = "signalled"]
          /\ waitq # << >> /\ \A u \in User : pc[u] # "queued"
          /\ UNCHANGED <<owner, timer>>
      BY <1>8 DEF co_thread_signal_internal, GlobalLockFree
    <2>2. PICK s \in Signalled : event' = event \cup s
      BY <1>8 DEF co_thread_signal_internal
    <2>3. owner = t
      BY <2>1 DEF Inv, MutualExclusion, Inside
    <2>4. Waiting' = Waiting /\ limited' = limited
      BY <2>1 DEF Waiting, Inv, TypeOK
    <2>5. waitq \in Seq(User) /\ DOMAIN waitq = 1..Len(waitq)
      BY DEF Inv, QueueInv
    <2>6. ToSet(waitq) = Waiting
      BY <2>1, <2>5 DEF ToSet, Waiting, WaiterInv, Inv, QueueInv
    <2>7. Head(waitq) \in ToSet(waitq)
      BY <2>1, <2>5 DEF ToSet
    <2>8. s \in {Waiting} \cup {{u} : u \in Waiting}
      BY <2>6, <2>7 DEF Signalled
    <2>9. QED
      BY <2>1, <2>2, <2>3, <2>4, <2>8 DEF Monitor!Signal
  <1>9. ASSUME NEW t \in User, co_thread_wait(t) PROVE UNCHANGED Monitor!vars
    <2>1. /\ pc[t] = "held" /\ pc' = [pc EXCEPT ![t] = "queued"]
          /\ UNCHANGED <<owner, event>>
          /\ \A u \in User : u # t => timer'[u] = timer[u]
      BY <1>9 DEF co_thread_wait, Inv, TypeOK
    <2>2. Waiting' = Waiting /\ limited' = limited
      BY <2>1 DEF Waiting, Inv, TypeOK
    <2>3. QED
      BY <2>1, <2>2 DEF Monitor!vars
  <1>10. ASSUME NEW t \in User, co_thread_signal_write(t) PROVE UNCHANGED Monitor!vars
    <2>1. /\ pc[t] = "signalled" /\ pc' = [pc EXCEPT ![t] = "held"]
          /\ UNCHANGED <<owner, event, timer>>
      BY <1>10 DEF co_thread_signal_write
    <2>2. Waiting' = Waiting /\ limited' = limited
      BY <2>1 DEF Waiting, Inv, TypeOK
    <2>3. QED
      BY <2>1, <2>2 DEF Monitor!vars
  <1>11. ASSUME NEW t \in User, clock(t) PROVE UNCHANGED Monitor!vars
    <2>1. /\ timer[t] = "running" /\ timer' = [timer EXCEPT ![t] = "expired"]
          /\ UNCHANGED <<owner, event, pc>>
      BY <1>11 DEF clock
    <2>2. Waiting' = Waiting /\ limited' = limited
      BY <2>1 DEF Waiting, Inv, TypeOK
    <2>3. QED
      BY <2>1, <2>2 DEF Monitor!vars
  <1>12. CASE \/ \E t \in User : pthread_cond_return(t)
              \/ \E c \in Core : pclthread(c)
              \/ Listener
              \/ UNCHANGED vars
    <2>1. UNCHANGED userVars
      BY <1>12 DEF pthread_cond_return, pclthread, Listener, epoll_wait_events,
                   epoll_listener_mark, epoll_listener_drain, vars, userVars
    <2>2. QED
      BY <2>1 DEF userVars, Monitor!vars, Waiting
  <1>13. QED
    BY <1>4, <1>5, <1>6, <1>7, <1>8, <1>9, <1>10, <1>11, <1>12
       DEF Next, Invoke, Progress, Monitor!Next

\* The lock, with its queue, eventfd, listener and cores, implements the monitor its
\* callers think of.
THEOREM Implementation == Spec => ImplementsMonitor
  <1>1. Init => Monitor!Init
    BY DEF Init, Monitor!Init, Waiting
  <1>2. Init => WaiterInv
    BY DEF Init, WaiterInv
  <1>3. QED
    BY <1>1, <1>2, StepWaiter, StepImplements, Invariance, PTL
       DEF Spec, ImplementsMonitor, Monitor!Spec
=============================================================================
