--------------------------- MODULE CoSched_proofs ---------------------------
(***************************************************************************)
(* Proofs about the coroutine scheduler, for any number of cores, plain    *)
(* threads and requests, and any capacity of the queue and of cc[].        *)
(*                                                                         *)
(* NoDeadCoroutine speaks of what a core will run; what keeps it true is   *)
(* that every coroutine is in one place only: running, in a queue, in a    *)
(* list of waiters, or about to be freed by a delete helper.  NoLostStart  *)
(* rests on the same fact, and on the test for a full queue.  OwnAnswer    *)
(* rests on what one request at a time leaves in a socketpair.             *)
(***************************************************************************)
EXTENDS CoSched, SequenceTheorems, FiniteSetTheorems, TLAPS

Jobs == {Co(j) : j \in Job}

SwitchTypeOK ==
    /\ ncpu \in 0..NCpu
    /\ curr \in [Core -> Coroutine]
    /\ caller \in [Coroutine -> Coroutine \cup {NoCo}]
    /\ restarget \in [Coroutine -> Coroutine \cup {NoCo}]
    /\ dhelper \in [Core -> Coroutine \cup {NoCo}]
    /\ alive \subseteq Coroutine

ListTypeOK ==
    /\ queue \in [Core -> Seq(Coroutine)]
    /\ waiters \in [Core -> Seq(Coroutine)]
    /\ batch \in [Core -> Seq(Coroutine)]

CallTypeOK ==
    /\ nj \in 0..MaxJobs
    /\ rq \in [Core -> Seq(Job)]
    /\ ans \in [Core -> Seq(Job \X {"ok", "EBUSY", "ENOMEM", "EPERM"})]
    /\ pc \in [Caller -> {"none", "locking", "receiving", "waiting"}]
    /\ want \in [Caller -> Core \X (0..MaxJobs)]
    /\ kind \in [Job -> {"thread", "io"}]
    /\ accepted \subseteq Job /\ polled \subseteq Job
    /\ mixed \subseteq Core /\ foreign \subseteq Core

SchedTypeOK == SwitchTypeOK /\ ListTypeOK /\ CallTypeOK

\* The coroutine that the delete helper of core k is about to free.
Dying(k) == IF curr[k] = Helper(k) THEN {caller[Helper(k)]} ELSE {}

\* The coroutines that core k has.
Of(k) == {curr[k]} \cup ToSet(queue[k]) \cup ToSet(waiters[k]) \cup Dying(k)

\* The lists of a core name nobody twice, and the queue keeps to its capacity.
Lists(k) ==
    /\ IsInjective(queue[k]) /\ IsInjective(waiters[k]) /\ IsInjective(batch[k])
    /\ Len(queue[k]) <= QueueCap

\* Who may be where: cc[] names waiters; the running coroutine is in no list, but
\* for a callback of co_schedule_io(), which keeps its waiter.
Places(k) ==
    /\ curr[k] \in {Main(k), Rqh(k), Helper(k)} \cup Jobs
    /\ ToSet(queue[k]) \subseteq {Rqh(k)} \cup Jobs
    /\ ToSet(waiters[k]) \subseteq {Rqh(k)} \cup Jobs
    /\ ToSet(queue[k]) \cap ToSet(waiters[k]) = {}
    /\ ToSet(batch[k]) \subseteq ToSet(waiters[k]) \ {curr[k]}
    /\ curr[k] \notin ToSet(queue[k])
    /\ curr[k] \in ToSet(waiters[k]) => \E j \in Job : curr[k] = Co(j) /\ kind[j] = "io"
    /\ k > ncpu => curr[k] = Main(k) /\ ToSet(queue[k]) = {} /\ ToSet(waiters[k]) = {}

\* A coroutine that ends gives the core back to its main coroutine, and is in no list
\* when the helper frees it.
Ends(k) ==
    /\ curr[k] = Helper(k) => /\ dhelper[k] = Main(k)
                              /\ caller[Helper(k)] \in Jobs
                              /\ caller[Helper(k)] \notin ToSet(queue[k]) \cup ToSet(waiters[k])
    /\ \A t \in Of(k) \cap Jobs : restarget[t] \in {NoCo, Main(k)}
    /\ curr[k] \in Jobs => restarget[curr[k]] = Main(k)

\* What a core has is alive.
Alive(k) == Of(k) \ {Main(k)} \subseteq alive /\ (k <= ncpu => Helper(k) \in alive)

CoreInv(k) == Lists(k) /\ Places(k) /\ Ends(k) /\ Alive(k)

\* No coroutine belongs to two cores.
Apart == \A k, l \in Core : k # l => Of(k) \cap Of(l) = {}

\* A coroutine exists only once it was asked for, and starts with no one to return to.
Born ==
    \A j \in Job : /\ Co(j) \in alive => j <= nj
                   /\ Co(j) \notin alive => restarget[Co(j)] = NoCo

\* A coroutine whose start was promised is in a list and has not run.
Promised ==
    \A j \in accepted : /\ \E k \in Core : Co(j) \in ToSet(queue[k]) \cup ToSet(waiters[k])
                        /\ \A k \in Core : curr[k] # Co(j)

CoresInv == (\A k \in Core : CoreInv(k)) /\ Apart /\ Born /\ Promised

\* Only coroutines of co_schedule() call it, only those of co_schedule_io() are polled.
Sorts ==
    /\ \A j \in Job : pc[Co(j)] # "none" => j <= nj /\ kind[j] = "thread"
    /\ \A j \in polled : j <= nj /\ kind[j] = "io"

\* A request on its way was made once and its coroutine does not exist yet.
Requests ==
    /\ \A k \in Core : \A n \in DOMAIN rq[k] : rq[k][n] <= nj /\ Co(rq[k][n]) \notin alive
    /\ \A k, l \in Core : \A m \in DOMAIN rq[k], n \in DOMAIN rq[l] :
         rq[k][m] = rq[l][n] => k = l /\ m = n

\* Who waits for an answer of core d.
Out(d) == {c \in Caller : pc[c] \in {"receiving", "waiting"} /\ want[c][1] = d}

\* A socketpair that one plain thread at a time uses holds its request, then the
\* answer to it, and nothing when nobody waits.
Private(d) ==
    /\ Out(d) \cap Jobs = {}
    /\ \A b, c \in Out(d) : b = c
    /\ Out(d) = {} => rq[d] = << >> /\ ans[d] = << >>
    /\ \A c \in Out(d) : \/ rq[d] = <<want[c][2]>> /\ ans[d] = << >>
                         \/ rq[d] = << >> /\ Len(ans[d]) = 1 /\ ans[d][1][1] = want[c][2]

AnswerInv == (\A d \in Core \ mixed : Private(d)) /\ OwnAnswer

SchedInv == SchedTypeOK /\ CoresInv /\ Sorts /\ Requests /\ AnswerInv

-----------------------------------------------------------------------------
(* Lists, as sets.                                                         *)

LEMMA InList == \A s, x : x \in ToSet(s) <=> \E i \in DOMAIN s : s[i] = x
  BY DEF ToSet

\* The empty list, a list that grows, a list that loses its first element.
LEMMA EmptyList == ToSet(<< >>) = {} /\ IsInjective(<< >>)
  BY DEF ToSet, IsInjective

LEMMA AppendList ==
  ASSUME NEW S, NEW s \in Seq(S), NEW t \in S
  PROVE  /\ Append(s, t) \in Seq(S) /\ Len(Append(s, t)) = Len(s) + 1
         /\ ToSet(Append(s, t)) = ToSet(s) \cup {t}
         /\ IsInjective(s) /\ t \notin ToSet(s) => IsInjective(Append(s, t))
  <1> DEFINE q == Append(s, t)
  <1>1. /\ q \in Seq(S) /\ Len(s) \in Nat /\ Len(q) = Len(s) + 1
        /\ \A i \in 1..Len(s) : q[i] = s[i]
        /\ q[Len(s) + 1] = t
        /\ DOMAIN q = 1..Len(s) + 1 /\ DOMAIN s = 1..Len(s)
    BY AppendProperties
  <1> HIDE DEF q
  <1>2. ToSet(q) = ToSet(s) \cup {t}
    BY <1>1 DEF ToSet
  <1>3. IsInjective(s) /\ t \notin ToSet(s) => IsInjective(q)
    <2> SUFFICES ASSUME IsInjective(s), t \notin ToSet(s),
                        NEW i \in 1..Len(s) + 1, NEW j \in 1..Len(s) + 1, q[i] = q[j]
                 PROVE  i = j
      BY <1>1 DEF IsInjective
    <2>1. \A h \in 1..Len(s) : s[h] # t
      BY DEF ToSet
    <2>2. QED
      BY <1>1, <2>1 DEF IsInjective
  <1>4. QED
    BY <1>1, <1>2, <1>3 DEF q

LEMMA TailList ==
  ASSUME NEW S, NEW s \in Seq(S), s # << >>
  PROVE  /\ Head(s) \in S /\ Tail(s) \in Seq(S) /\ Len(Tail(s)) = Len(s) - 1
         /\ ToSet(s) = {Head(s)} \cup ToSet(Tail(s))
         /\ IsInjective(s) => IsInjective(Tail(s)) /\ Head(s) \notin ToSet(Tail(s))
  <1> DEFINE q == Tail(s)
  <1>1. /\ q \in Seq(S) /\ Len(s) \in Nat \ {0} /\ Len(q) = Len(s) - 1
        /\ \A i \in 1..Len(q) : q[i] = s[i + 1]
        /\ Head(s) \in S /\ Head(s) = s[1]
        /\ DOMAIN q = 1..Len(q) /\ DOMAIN s = 1..Len(s)
    BY HeadTailProperties, EmptySeq
  <1> HIDE DEF q
  <1>2. ToSet(s) = {s[1]} \cup ToSet(q)
    <2>1. ASSUME NEW i \in 1..Len(s), i # 1 PROVE s[i] \in ToSet(q)
      <3>1. i - 1 \in 1..Len(q) /\ q[i - 1] = s[i]
        BY <1>1, <2>1
      <3>2. QED
        BY <1>1, <3>1 DEF ToSet
    <2>2. \A i \in 1..Len(q) : q[i] \in ToSet(s)
      BY <1>1 DEF ToSet
    <2>3. s[1] \in ToSet(s)
      BY <1>1, InList
    <2>4. \A x \in ToSet(s) : x = s[1] \/ x \in ToSet(q)
      BY <1>1, <2>1, InList
    <2>5. \A x \in ToSet(q) : x \in ToSet(s)
      BY <1>1, <2>2, InList
    <2>6. QED
      BY <2>3, <2>4, <2>5
  <1>3. ASSUME IsInjective(s) PROVE IsInjective(q) /\ s[1] \notin ToSet(q)
    <2>1. \A i, j \in 1..Len(s) : s[i] = s[j] => i = j
      BY <1>1, <1>3 DEF IsInjective
    <2>2. \A i, j \in 1..Len(q) : q[i] = q[j] => i = j
      BY <1>1, <2>1
    <2>3. \A i \in 1..Len(q) : q[i] # s[1]
      BY <1>1, <2>1
    <2>4. QED
      BY <1>1, <2>2, <2>3 DEF IsInjective, ToSet
  <1>4. QED
    BY <1>1, <1>2, <1>3 DEF q

\* What unlinking a waiter does: it is gone, and the others are there, once.
LEMMA WithoutList ==
  ASSUME NEW S, NEW s \in Seq(S), NEW t, IsInjective(s)
  PROVE  /\ Without(s, t) \in Seq(S)
         /\ ToSet(Without(s, t)) = ToSet(s) \ {t}
         /\ IsInjective(Without(s, t))
  <1>1. CASE t \notin ToSet(s)
    BY <1>1 DEF Without
  <1>2. CASE t \in ToSet(s)
    <2> DEFINE k == CHOOSE i \in DOMAIN s : s[i] = t
               a == SubSeq(s, 1, k - 1)
               b == SubSeq(s, k + 1, Len(s))
               n == Len(s)
               q == Without(s, t)
    <2>1. k \in 1..n /\ s[k] = t /\ n \in Nat /\ DOMAIN s = 1..n
      BY <1>2 DEF ToSet
    <2>2. q = a \o b
      BY <1>2 DEF Without, RemoveAt
    <2> HIDE DEF k, q
    <2>3. /\ a \in Seq(S) /\ Len(a) = k - 1
          /\ \A i \in 1..(k-1) : a[i] = s[i]
      BY <2>1, SubSeqProperties
    <2>4. /\ b \in Seq(S) /\ Len(b) = n - k
          /\ \A i \in 1..(n-k) : b[i] = s[k + i]
      <3>1. \A i \in (k+1)..n : s[i] \in S
        BY <2>1
      <3>2. /\ b \in Seq(S)
            /\ Len(b) = IF k + 1 <= n THEN n - (k + 1) + 1 ELSE 0
            /\ \A i \in 1..(n - (k + 1) + 1) : b[i] = s[(k + 1) + i - 1]
        BY <2>1, <3>1, SubSeqProperties
      <3> HIDE DEF a, b, n
      <3>3. QED
        BY <2>1, <3>2
    <2> HIDE DEF a, b, n
    <2>5. /\ q \in Seq(S) /\ Len(q) = (k - 1) + (n - k)
          /\ \A i \in 1..((k - 1) + (n - k)) :
               q[i] = IF i <= k - 1 THEN a[i] ELSE b[i - (k - 1)]
      BY <2>2, <2>3, <2>4, ConcatProperties
    <2>6. /\ Len(q) = n - 1 /\ DOMAIN q = 1..(n-1)
          /\ \A i \in 1..(n-1) : q[i] = IF i < k THEN s[i] ELSE s[i + 1]
      BY <2>1, <2>3, <2>4, <2>5
    <2>7. \A i, j \in 1..n : s[i] = s[j] => i = j
      BY <2>1 DEF IsInjective
    <2>8. \A i, j \in 1..(n-1) : q[i] = q[j] => i = j
      BY <2>1, <2>6, <2>7
    <2>9. ToSet(q) = ToSet(s) \ {t}
      <3>1. \A i \in 1..(n-1) : \E h \in 1..n : q[i] = s[h] /\ h # k
        BY <2>1, <2>6
      <3>2. ASSUME NEW j \in 1..n, j # k PROVE \E i \in 1..(n-1) : q[i] = s[j]
        <4>1. CASE j < k
          <5>1. j \in 1..(n-1) /\ q[j] = s[j]
            BY <2>1, <2>6, <4>1
          <5>2. QED
            BY <5>1
        <4>2. CASE j > k
          <5>1. j - 1 \in 1..(n-1) /\ q[j - 1] = s[j]
            BY <2>1, <2>6, <4>2
          <5>2. QED
            BY <5>1
        <4>3. QED
          BY <2>1, <3>2, <4>1, <4>2
      <3>3. \A x \in ToSet(q) : x \in ToSet(s) /\ x # t
        BY <2>1, <2>6, <2>7, <3>1, InList
      <3>4. \A x \in ToSet(s) : x # t => x \in ToSet(q)
        BY <2>1, <2>6, <3>2, InList
      <3>5. QED
        BY <3>3, <3>4
    <2>10. QED
      BY <2>5, <2>6, <2>8, <2>9 DEF IsInjective, q
  <1>3. QED
    BY <1>1, <1>2

\* The names of coroutines and callers tell them apart.
LEMMA Names ==
  /\ \A k \in Core : Main(k) \in Coroutine /\ Rqh(k) \in Coroutine /\ Helper(k) \in Coroutine
  /\ \A j \in Job : Co(j) \in Coroutine /\ Co(j) \in Caller /\ Co(j) \in Jobs
  /\ \A k, l \in Core : /\ Main(k) = Main(l) => k = l
                        /\ Rqh(k) = Rqh(l) => k = l
                        /\ Helper(k) = Helper(l) => k = l
                        /\ Main(k) # Rqh(l) /\ Main(k) # Helper(l) /\ Rqh(k) # Helper(l)
  /\ \A k \in Core : Main(k) \notin Jobs /\ Rqh(k) \notin Jobs /\ Helper(k) \notin Jobs
  /\ \A i, j \in Job : Co(i) = Co(j) => i = j
  /\ \A j \in Job : Co(j)[1] = "job" /\ Co(j)[2] = j
  /\ \A k \in Core : Rqh(k)[1] # "job"
  /\ \A t \in Jobs : \E j \in Job : t = Co(j)
  /\ NoCo \notin Coroutine /\ Jobs \subseteq Coroutine
  /\ \A p \in PThread : <<"pthread", p>> \in Caller \ Jobs
  <1>1. \A k \in Core : Main(k) \in Coroutine /\ Rqh(k) \in Coroutine /\ Helper(k) \in Coroutine
    BY DEF Main, Rqh, Helper, Coroutine
  <1>2. \A j \in Job : Co(j) \in Coroutine /\ Co(j) \in Caller /\ Co(j) \in Jobs
    BY DEF Co, Coroutine, Caller, Jobs
  <1>3. \A k, l \in Core : /\ Main(k) = Main(l) => k = l
                           /\ Rqh(k) = Rqh(l) => k = l
                           /\ Helper(k) = Helper(l) => k = l
                           /\ Main(k) # Rqh(l) /\ Main(k) # Helper(l) /\ Rqh(k) # Helper(l)
    BY DEF Main, Rqh, Helper
  <1>4. \A k \in Core : Main(k) \notin Jobs /\ Rqh(k) \notin Jobs /\ Helper(k) \notin Jobs
    BY DEF Main, Rqh, Helper, Jobs, Co
  <1>5. \A i, j \in Job : Co(i) = Co(j) => i = j
    BY DEF Co
  <1>6. \A j \in Job : Co(j)[1] = "job" /\ Co(j)[2] = j
    BY DEF Co
  <1>7. \A k \in Core : Rqh(k)[1] # "job"
    BY DEF Rqh
  <1>8. \A t \in Jobs : \E j \in Job : t = Co(j)
    BY DEF Jobs
  <1>9. NoCo \notin Coroutine
    BY DEF NoCo, Coroutine
  <1>10. \A p \in PThread : <<"pthread", p>> \in Caller \ Jobs
    BY DEF Caller, Jobs, Co
  <1>11. Jobs \subseteq Coroutine
    BY <1>2, <1>8
  <1>12. QED
    BY <1>1, <1>2, <1>3, <1>4, <1>5, <1>6, <1>7, <1>8, <1>9, <1>10, <1>11

\* Two cores have no coroutine of their own in common.
LEMMA TwoCores ==
  ASSUME NEW k \in Core, NEW l \in Core \ {k}
  PROVE  /\ Main(k) \notin {Main(l), Rqh(l), Helper(l)} \cup Jobs
         /\ Rqh(k) \notin {Main(l), Rqh(l), Helper(l)} \cup Jobs
         /\ Helper(k) \notin {Main(l), Rqh(l), Helper(l)} \cup Jobs
  <1>1. /\ Main(k) # Main(l) /\ Main(k) # Rqh(l) /\ Main(k) # Helper(l)
        /\ Rqh(k) # Main(l) /\ Rqh(k) # Rqh(l) /\ Rqh(k) # Helper(l)
        /\ Helper(k) # Main(l) /\ Helper(k) # Rqh(l) /\ Helper(k) # Helper(l)
    BY DEF Main, Rqh, Helper
  <1>2. QED
    BY <1>1, Names

-----------------------------------------------------------------------------
(* The type invariant.                                                     *)

\* What a switch of core k to t changes.
LEMMA SwitchFacts ==
  ASSUME SwitchTypeOK, NEW k \in Core, NEW t \in Coroutine, Switch(k, t)
  PROVE  /\ curr' \in [Core -> Coroutine]
         /\ caller' \in [Coroutine -> Coroutine \cup {NoCo}]
         /\ restarget' \in [Coroutine -> Coroutine \cup {NoCo}]
         /\ curr'[k] = t /\ \A l \in Core \ {k} : curr'[l] = curr[l]
         /\ caller'[t] = curr[k] /\ \A u \in Coroutine \ {t} : caller'[u] = caller[u]
         /\ \A u \in Coroutine \ {t} : restarget'[u] = restarget[u]
         /\ restarget'[t] = IF restarget[t] = NoCo /\ t # Main(k) THEN curr[k] ELSE restarget[t]
  BY DEF SwitchTypeOK, Switch

\* What the end of a waiter, and a new waiter for the running coroutine, change.
LEMMA RemoveFacts ==
  ASSUME ListTypeOK, NEW k \in Core, NEW t, IsInjective(waiters[k]), remove_waiter(k, t)
  PROVE  /\ waiters' \in [Core -> Seq(Coroutine)]
         /\ ToSet(waiters'[k]) = ToSet(waiters[k]) \ {t} /\ IsInjective(waiters'[k])
         /\ \A l \in Core \ {k} : waiters'[l] = waiters[l]
  <1>1. waiters[k] \in Seq(Coroutine)
    BY DEF ListTypeOK
  <1>2. /\ Without(waiters[k], t) \in Seq(Coroutine)
        /\ ToSet(Without(waiters[k], t)) = ToSet(waiters[k]) \ {t}
        /\ IsInjective(Without(waiters[k], t))
    BY <1>1, WithoutList
  <1>3. waiters' = [waiters EXCEPT ![k] = Without(waiters[k], t)]
    BY DEF remove_waiter
  <1>4. QED
    BY <1>2, <1>3 DEF ListTypeOK

LEMMA SleepFacts ==
  ASSUME SwitchTypeOK, ListTypeOK, NEW k \in Core, NEW a, NEW b, Sleep(k, a, b)
  PROVE  /\ waiters' \in [Core -> Seq(Coroutine)]
         /\ ToSet(waiters'[k]) = ToSet(waiters[k]) \cup {curr[k]}
         /\ curr[k] \notin ToSet(waiters[k]) /\ IsInjective(waiters[k]) => IsInjective(waiters'[k])
         /\ \A l \in Core \ {k} : waiters'[l] = waiters[l]
         /\ Switch(k, Main(k)) /\ dhelper' = dhelper /\ alive' = alive
  <1>1. waiters[k] \in Seq(Coroutine) /\ curr[k] \in Coroutine
    BY DEF ListTypeOK, SwitchTypeOK
  <1>2. waiters' = [waiters EXCEPT ![k] = Append(waiters[k], curr[k])]
    BY DEF Sleep
  <1> DEFINE s == Append(waiters[k], curr[k])
  <1>3. /\ s \in Seq(Coroutine) /\ ToSet(s) = ToSet(waiters[k]) \cup {curr[k]}
        /\ curr[k] \notin ToSet(waiters[k]) /\ IsInjective(waiters[k]) => IsInjective(s)
    BY <1>1, AppendList
  <1> HIDE DEF s
  <1>4. waiters' \in [Core -> Seq(Coroutine)] /\ waiters'[k] = s
        /\ \A l \in Core \ {k} : waiters'[l] = waiters[l]
    BY <1>2, <1>3 DEF ListTypeOK, s
  <1>5. Switch(k, Main(k)) /\ dhelper' = dhelper /\ alive' = alive
    BY DEF Sleep, co_call
  <1>6. QED
    BY <1>3, <1>4, <1>5

\* cc[] as the walk fills it: waiters of the core, each once.
LEMMA WalkBatch ==
  ASSUME ListTypeOK, NEW k \in Core, NEW place \in SetToSeqs(Signalled(k) \cap Reached(k))
  PROVE  LET cc == [n \in DOMAIN place |-> waiters[k][place[n]]] IN
         /\ cc \in Seq(Coroutine) /\ ToSet(cc) \subseteq ToSet(waiters[k])
         /\ IsInjective(waiters[k]) => IsInjective(cc)
         /\ \A t \in ToSet(cc) : t \in events \cup due
  <1> DEFINE P == Signalled(k) \cap Reached(k)
             N == Cardinality(P)
             cc == [n \in DOMAIN place |-> waiters[k][place[n]]]
  <1>1. waiters[k] \in Seq(Coroutine) /\ DOMAIN waiters[k] = 1..Len(waiters[k]) /\ Len(waiters[k]) \in Nat
    BY DEF ListTypeOK
  <1>2. P \subseteq 1..Len(waiters[k]) /\ \A n \in P : waiters[k][n] \in events \cup due
    BY <1>1 DEF Signalled
  <1>3. IsFiniteSet(1..Len(waiters[k]))
    BY <1>1, FS_Interval
  <1>4. N \in Nat
    BY <1>2, <1>3, FS_Subset, FS_CardinalityType
  <1>5. place \in [1..N -> P] /\ \A i, j \in 1..N : i # j => place[i] # place[j]
    BY DEF SetToSeqs
  <1> HIDE DEF P, N
  <1>6. /\ DOMAIN cc = 1..N
        /\ \A n \in 1..N : place[n] \in P /\ cc[n] = waiters[k][place[n]]
    BY <1>5
  <1>7. \A n \in 1..N : place[n] \in 1..Len(waiters[k]) /\ waiters[k][place[n]] \in Coroutine
    <2>1. \A i \in 1..Len(waiters[k]) : waiters[k][i] \in Coroutine
      BY <1>1
    <2>2. \A n \in 1..N : place[n] \in P
      BY <1>5
    <2>3. \A n \in P : n \in 1..Len(waiters[k])
      BY <1>2
    <2> QED
      BY <2>1, <2>2, <2>3
  <1>8. cc \in [1..N -> Coroutine]
    BY <1>5, <1>7
  <1> HIDE DEF cc
  <1>9. cc \in Seq(Coroutine)
    BY <1>4, <1>8
  <1>10. \A n \in 1..N : cc[n] \in ToSet(waiters[k]) /\ cc[n] \in events \cup due
    BY <1>1, <1>2, <1>6, <1>7, InList
  <1>11. ASSUME NEW t \in ToSet(cc) PROVE t \in ToSet(waiters[k]) /\ t \in events \cup due
    <2>1. PICK n \in DOMAIN cc : cc[n] = t
      BY InList
    <2>2. n \in 1..N
      BY <1>6, <2>1
    <2> QED
      BY <1>10, <2>1, <2>2
  <1>12. ASSUME IsInjective(waiters[k]) PROVE IsInjective(cc)
    <2>1. \A i, j \in 1..Len(waiters[k]) : waiters[k][i] = waiters[k][j] => i = j
      BY <1>1, <1>12 DEF IsInjective
    <2>2. \A i, j \in 1..N : cc[i] = cc[j] => i = j
      BY <1>5, <1>6, <1>7, <2>1
    <2>3. QED
      BY <1>6, <2>2 DEF IsInjective
  <1>13. QED
    BY <1>9, <1>11, <1>12 DEF cc

\* What a request adds.
LEMMA SendFacts ==
  ASSUME CallTypeOK, NEW c \in Caller, NEW k \in Core, NEW q \in Kinds, nj < MaxJobs, Send(c, k, q)
  PROVE  /\ nj' \in 0..MaxJobs /\ nj' = nj + 1 /\ nj' \in Job
         /\ rq' \in [Core -> Seq(Job)] /\ rq'[k] = Append(rq[k], nj + 1)
         /\ \A l \in Core \ {k} : rq'[l] = rq[l]
         /\ pc' \in [Caller -> {"none", "locking", "receiving", "waiting"}] /\ pc'[c] = "receiving"
         /\ want' \in [Caller -> Core \X (0..MaxJobs)] /\ want'[c] = <<k, nj + 1>>
         /\ \A d \in Caller \ {c} : pc'[d] = pc[d] /\ want'[d] = want[d]
         /\ kind' \in [Job -> {"thread", "io"}]
         /\ \A j \in Job : j <= nj => kind'[j] = kind[j]
         /\ accepted' = accepted /\ polled' = polled /\ foreign' = foreign
  <1>1. nj + 1 \in Job /\ nj \in Nat
    BY SchedAssumption DEF CallTypeOK, Job
  <1>2. Append(rq[k], nj + 1) \in Seq(Job)
    BY <1>1, AppendList DEF CallTypeOK
  <1>3. rq' \in [Core -> Seq(Job)] /\ rq'[k] = Append(rq[k], nj + 1) /\ \A l \in Core \ {k} : rq'[l] = rq[l]
    BY <1>2 DEF CallTypeOK, Send
  <1>4. q \in {"thread", "io"}
    BY SchedAssumption
  <1>5. kind' \in [Job -> {"thread", "io"}] /\ \A j \in Job : j <= nj => kind'[j] = kind[j]
    BY <1>1, <1>4 DEF CallTypeOK, Send, Job
  <1>6. /\ pc' \in [Caller -> {"none", "locking", "receiving", "waiting"}] /\ pc'[c] = "receiving"
        /\ \A d \in Caller \ {c} : pc'[d] = pc[d]
    BY DEF CallTypeOK, Send
  <1>7. <<k, nj + 1>> \in Core \X (0..MaxJobs)
    BY <1>1, SchedAssumption DEF CallTypeOK, Job
  <1>8. /\ want' \in [Caller -> Core \X (0..MaxJobs)] /\ want'[c] = <<k, nj + 1>>
        /\ \A d \in Caller \ {c} : want'[d] = want[d]
    BY <1>7 DEF CallTypeOK, Send
  <1>9. QED
    BY <1>1, <1>3, <1>5, <1>6, <1>8, SchedAssumption DEF Send, Job

\* What the return of a call changes.
LEMMA ReturnFacts ==
  ASSUME CallTypeOK, NEW c \in Caller, NEW j, Return(c, j)
  PROVE  /\ pc' \in [Caller -> {"none", "locking", "receiving", "waiting"}] /\ pc'[c] = "none"
         /\ want' \in [Caller -> Core \X (0..MaxJobs)]
         /\ \A d \in Caller \ {c} : pc'[d] = pc[d] /\ want'[d] = want[d]
         /\ foreign' \subseteq Core
         /\ nj' = nj /\ kind' = kind /\ accepted' = accepted /\ polled' = polled /\ mixed' = mixed
  <1>1. NoRequest \in Core \X (0..MaxJobs)
    BY SchedAssumption DEF NoRequest, Core
  <1>2. want[c][1] \in Core
    BY DEF CallTypeOK
  <1>3. QED
    BY <1>1, <1>2 DEF CallTypeOK, Return

\* The steps that a core takes keep the types.
LEMMA CoreStepType ==
  ASSUME SchedInv, NEW k \in Core, CoreStep(k) \/ JobStep(k)
  PROVE  SchedTypeOK'
  <1> USE DEF SchedTypeOK
  <1>0. /\ SwitchTypeOK /\ ListTypeOK /\ CallTypeOK /\ CoreInv(k)
        /\ curr[k] \in Coroutine /\ queue[k] \in Seq(Coroutine) /\ waiters[k] \in Seq(Coroutine)
        /\ batch[k] \in Seq(Coroutine) /\ rq[k] \in Seq(Job)
        /\ Main(k) \in Coroutine /\ Helper(k) \in Coroutine
        /\ IsInjective(waiters[k])
    BY Names DEF SchedInv, CoresInv, SwitchTypeOK, ListTypeOK, CallTypeOK, CoreInv, Lists
  <1>job. ASSUME IsJob(k) PROVE curr[k] \in Caller /\ curr[k] \in Jobs /\ want[curr[k]][1] \in Core
    BY <1>0, <1>job, Names DEF IsJob, CallTypeOK
  <1>1. ASSUME pclthread_start(k) PROVE SchedTypeOK'
    <2>1. Head(queue[k]) \in Coroutine /\ Tail(queue[k]) \in Seq(Coroutine)
      BY <1>0, <1>1, TailList DEF pclthread_start
    <2>2. Switch(k, Head(queue[k])) /\ dhelper' = dhelper
      BY <1>1 DEF pclthread_start, co_call
    <2>3. SwitchTypeOK'
      BY <1>0, <1>1, <2>1, <2>2, SwitchFacts DEF SwitchTypeOK, pclthread_start
    <2>4. ListTypeOK'
      BY <1>0, <1>1, <2>1 DEF ListTypeOK, pclthread_start, waitVars
    <2>5. CallTypeOK'
      BY <1>0, <1>1 DEF CallTypeOK, pclthread_start, pairVars
    <2>6. QED
      BY <2>3, <2>4, <2>5
  <1>2. ASSUME pclthread_walk(k) PROVE SchedTypeOK'
    <2>1. PICK place \in SetToSeqs(Signalled(k) \cap Reached(k)) :
            batch' = [batch EXCEPT ![k] = [n \in DOMAIN place |-> waiters[k][place[n]]]]
      BY <1>2 DEF pclthread_walk
    <2>2. ToSet([n \in DOMAIN place |-> waiters[k][place[n]]]) \subseteq ToSet(waiters[k])
          /\ [n \in DOMAIN place |-> waiters[k][place[n]]] \in Seq(Coroutine)
      BY <1>0, WalkBatch
    <2>3. ListTypeOK'
      BY <1>0, <1>2, <2>1, <2>2 DEF ListTypeOK, pclthread_walk
    <2>4. SwitchTypeOK' /\ CallTypeOK'
      BY <1>0, <1>2 DEF SwitchTypeOK, CallTypeOK, pclthread_walk, switchVars, pairVars, callVars
    <2>5. QED
      BY <2>3, <2>4
  <1>3. ASSUME pclthread_resume(k) PROVE SchedTypeOK'
    <2>1. Head(batch[k]) \in Coroutine /\ Tail(batch[k]) \in Seq(Coroutine)
      BY <1>0, <1>3, TailList DEF pclthread_resume
    <2>2. Switch(k, Head(batch[k])) /\ dhelper' = dhelper
      BY <1>3 DEF pclthread_resume, co_call
    <2>3. SwitchTypeOK'
      BY <1>0, <1>3, <2>1, <2>2, SwitchFacts DEF SwitchTypeOK, pclthread_resume
    <2>4. waiters' \in [Core -> Seq(Coroutine)]
      <3>1. waiters' = waiters \/ remove_waiter(k, Head(batch[k]))
        BY <1>3 DEF pclthread_resume, waitVars
      <3>2. QED
        BY <1>0, <3>1, RemoveFacts DEF ListTypeOK
    <2>5. ListTypeOK'
      BY <1>0, <1>3, <2>1, <2>4 DEF ListTypeOK, pclthread_resume
    <2>6. CallTypeOK'
      BY <1>0, <1>3 DEF CallTypeOK, pclthread_resume, pairVars
    <2>7. QED
      BY <2>3, <2>5, <2>6
  <1>4. ASSUME co_del_helper(k) PROVE SchedTypeOK'
    <2>1. dhelper[k] = Main(k)
      BY <1>0, <1>4 DEF CoreInv, Ends, co_del_helper
    <2>2. SwitchTypeOK'
      BY <1>0, <1>4, <2>1 DEF SwitchTypeOK, co_del_helper
    <2>3. ListTypeOK' /\ CallTypeOK'
      BY <1>0, <1>4 DEF ListTypeOK, CallTypeOK, co_del_helper, waitVars, coreVars, pairVars, callVars
    <2>4. QED
      BY <2>2, <2>3
  <1>sleep. ASSUME NEW a, NEW b, Sleep(k, a, b), ncpu' = ncpu, queue' = queue, batch' = batch
            PROVE  SwitchTypeOK' /\ ListTypeOK'
    <2>1. waiters' \in [Core -> Seq(Coroutine)] /\ Switch(k, Main(k)) /\ dhelper' = dhelper /\ alive' = alive
      BY <1>0, <1>sleep, SleepFacts
    <2>2. QED
      BY <1>0, <1>sleep, <2>1, SwitchFacts DEF SwitchTypeOK, ListTypeOK
  <1>5. ASSUME schedule_request_wait(k) PROVE SchedTypeOK'
    <2>1. Sleep(k, FALSE, FALSE) /\ ncpu' = ncpu /\ queue' = queue /\ batch' = batch
      BY <1>5 DEF schedule_request_wait, coreVars
    <2>2. CallTypeOK'
      BY <1>0, <1>5 DEF schedule_request_wait, CallTypeOK, callVars, pairVars
    <2>3. QED
      BY <1>sleep, <2>1, <2>2
  <1>6. ASSUME schedule_request_handler(k) PROVE SchedTypeOK'
    <2> DEFINE j == Head(rq[k])
    <2>1. j \in Job /\ Tail(rq[k]) \in Seq(Job)
      BY <1>0, <1>6, TailList DEF schedule_request_handler
    <2>2. PICK s \in {"ok", "EBUSY", "ENOMEM", "EPERM"} :
            /\ ans'   = [ans EXCEPT ![k] = Append(@, <<j, s>>)]
            /\ accepted' = IF s = "ok" THEN accepted \cup {j} ELSE accepted
            /\ polled' = IF s = "ok" /\ kind[j] = "io" THEN polled \cup {j} ELSE polled
            /\ alive' = IF s \in {"ok", "EPERM"} THEN alive \cup {Co(j)} ELSE alive
            /\ waiters' = IF kind[j] = "io" /\ s \in {"ok", "EPERM"}
                          THEN [waiters EXCEPT ![k] = Append(@, Co(j))] ELSE waiters
            /\ queue' = IF kind[j] = "thread" /\ s = "ok" THEN Push(k, Co(j)) ELSE queue
      BY <1>6 DEF schedule_request_handler
    <2>3. rq' = [rq EXCEPT ![k] = Tail(rq[k])]
      BY <1>6 DEF schedule_request_handler
    <2> HIDE DEF j
    <2>4. Co(j) \in Coroutine
      BY <2>1, Names
    <2>5. /\ Append(ans[k], <<j, s>>) \in Seq(Job \X {"ok", "EBUSY", "ENOMEM", "EPERM"})
          /\ Append(waiters[k], Co(j)) \in Seq(Coroutine)
          /\ Append(queue[k], Co(j)) \in Seq(Coroutine)
      BY <1>0, <2>1, <2>4, AppendList DEF CallTypeOK
    <2>6. CallTypeOK'
      <3>1. rq' \in [Core -> Seq(Job)] /\ ans' \in [Core -> Seq(Job \X {"ok", "EBUSY", "ENOMEM", "EPERM"})]
        BY <1>0, <2>1, <2>2, <2>3, <2>5 DEF CallTypeOK
      <3>2. accepted' \subseteq Job /\ polled' \subseteq Job
        BY <1>0, <2>1, <2>2 DEF CallTypeOK
      <3>3. QED
        BY <1>0, <1>6, <3>1, <3>2 DEF CallTypeOK, schedule_request_handler
    <2>7. ListTypeOK'
      BY <1>0, <1>6, <2>2, <2>5 DEF ListTypeOK, schedule_request_handler, Push
    <2>8. SwitchTypeOK'
      BY <1>0, <1>6, <2>2, <2>4 DEF SwitchTypeOK, schedule_request_handler
    <2>9. QED
      BY <2>6, <2>7, <2>8
  <1>7. ASSUME co_scheduler_lock(k) PROVE SchedTypeOK'
    <2> DEFINE c == curr[k]
    <2>1. c \in Caller /\ want[c][1] \in Core
      BY <1>7, <1>job DEF co_scheduler_lock
    <2>2. CASE Sleep(k, TRUE, TRUE) /\ UNCHANGED <<pairVars, callVars>>
      <3>1. SwitchTypeOK' /\ ListTypeOK'
        BY <1>7, <1>sleep, <2>2 DEF co_scheduler_lock, coreVars
      <3>2. CallTypeOK'
        BY <1>0, <2>2 DEF CallTypeOK, callVars, pairVars
      <3>3. QED
        BY <3>1, <3>2
    <2>3. CASE nj < MaxJobs /\ (\E q \in Kinds : Send(c, want[c][1], q)) /\ mixed' = mixed \cup {want[c][1]}
                /\ UNCHANGED <<ans, switchVars, waitVars>>
      <3>1. SwitchTypeOK' /\ ListTypeOK'
        BY <1>0, <1>7, <2>3 DEF co_scheduler_lock, SwitchTypeOK, ListTypeOK, switchVars, waitVars, coreVars
      <3>2. PICK q \in Kinds : Send(c, want[c][1], q)
        BY <2>3
      <3>3. CallTypeOK'
        BY <1>0, <2>1, <2>3, <3>2, SendFacts DEF CallTypeOK
      <3>4. QED
        BY <3>1, <3>3
    <2>4. QED
      BY <1>7, <2>2, <2>3 DEF co_scheduler_lock
  <1>8. ASSUME co_recv(k) PROVE SchedTypeOK'
    <2> DEFINE c == curr[k]
    <2>1. c \in Caller /\ want[c][1] \in Core
      BY <1>8, <1>job DEF co_recv
    <2>2. CASE /\ ans[want[c][1]] # << >> /\ ans' = [ans EXCEPT ![want[c][1]] = Tail(@)]
               /\ Return(c, Head(ans[want[c][1]])[1]) /\ UNCHANGED <<switchVars, waitVars>>
      <3>1. SwitchTypeOK' /\ ListTypeOK'
        BY <1>0, <1>8, <2>2 DEF co_recv, SwitchTypeOK, ListTypeOK, switchVars, waitVars, coreVars
      <3>2. Tail(ans[want[c][1]]) \in Seq(Job \X {"ok", "EBUSY", "ENOMEM", "EPERM"})
        BY <1>0, <2>1, <2>2, TailList DEF CallTypeOK
      <3>3. ans' \in [Core -> Seq(Job \X {"ok", "EBUSY", "ENOMEM", "EPERM"})]
        BY <1>0, <2>1, <2>2, <3>2 DEF CallTypeOK
      <3>4. CallTypeOK'
        BY <1>0, <1>8, <2>1, <2>2, <3>3, ReturnFacts DEF CallTypeOK, co_recv
      <3>5. QED
        BY <3>1, <3>4
    <2>3. CASE /\ Sleep(k, TRUE, FALSE) /\ pc' = [pc EXCEPT ![c] = "waiting"]
               /\ UNCHANGED <<want, nj, kind, accepted, polled, mixed, foreign, ans, csbusy>>
      <3>1. SwitchTypeOK' /\ ListTypeOK'
        BY <1>8, <1>sleep, <2>3 DEF co_recv, coreVars
      <3>2. CallTypeOK'
        BY <1>0, <1>8, <2>1, <2>3 DEF CallTypeOK, co_recv
      <3>3. QED
        BY <3>1, <3>2
    <2>4. QED
      BY <1>8, <2>2, <2>3 DEF co_recv
  <1>9. ASSUME co_recv_resume(k) PROVE SchedTypeOK'
    <2> DEFINE c == curr[k]
    <2>1. c \in Caller /\ want[c][1] \in Core
      BY <1>9, <1>job DEF co_recv_resume
    <2>2. SwitchTypeOK' /\ ListTypeOK' /\ rq' = rq /\ ans' = ans
      BY <1>0, <1>9 DEF co_recv_resume, SwitchTypeOK, ListTypeOK, switchVars, waitVars, coreVars
    <2>3. CASE /\ pc' = [pc EXCEPT ![c] = "receiving"]
               /\ UNCHANGED <<want, nj, kind, accepted, polled, mixed, foreign, csbusy>>
      BY <1>0, <2>1, <2>2, <2>3 DEF CallTypeOK
    <2>4. CASE Return(c, 0)
      BY <1>0, <2>1, <2>2, <2>4, ReturnFacts DEF CallTypeOK
    <2>5. QED
      BY <1>9, <2>3, <2>4 DEF co_recv_resume
  <1>exit. ASSUME co_exit(k), ncpu' = ncpu PROVE SwitchTypeOK'
    <2>1. Switch(k, Helper(k)) /\ alive' = alive /\ dhelper' = [dhelper EXCEPT ![k] = restarget[curr[k]]]
      BY <1>exit DEF co_exit
    <2>2. QED
      BY <1>0, <1>exit, <2>1, SwitchFacts DEF SwitchTypeOK
  <1>10. ASSUME iocb_handler(k) PROVE SchedTypeOK'
    <2>1. CASE co_call(k, Main(k)) /\ UNCHANGED <<alive, waitVars>>
      <3>1. SwitchTypeOK'
        BY <1>0, <1>10, <2>1, SwitchFacts DEF SwitchTypeOK, iocb_handler, co_call
      <3>2. ListTypeOK'
        BY <1>0, <1>10, <2>1 DEF ListTypeOK, iocb_handler, coreVars, waitVars
      <3>3. CallTypeOK'
        BY <1>0, <1>10 DEF CallTypeOK, iocb_handler, pairVars
      <3>4. QED
        BY <3>1, <3>2, <3>3
    <2>2. CASE remove_waiter(k, curr[k]) /\ co_exit(k)
      <3>1. SwitchTypeOK'
        BY <1>10, <1>exit, <2>2 DEF iocb_handler
      <3>2. ListTypeOK'
        BY <1>0, <1>10, <2>2, RemoveFacts DEF ListTypeOK, iocb_handler, coreVars
      <3>3. CallTypeOK'
        BY <1>0, <1>10 DEF CallTypeOK, iocb_handler, pairVars
      <3>4. QED
        BY <3>1, <3>2, <3>3
    <2>3. QED
      BY <1>10, <2>1, <2>2 DEF iocb_handler
  <1>11. ASSUME co_sleep(k) PROVE SchedTypeOK'
    <2>1. PICK y \in BOOLEAN : Sleep(k, y, y)
      BY <1>11 DEF co_sleep
    <2>2. SwitchTypeOK' /\ ListTypeOK'
      BY <1>11, <1>sleep, <2>1 DEF co_sleep, coreVars
    <2>3. CallTypeOK'
      BY <1>0, <1>11 DEF co_sleep, CallTypeOK, callVars, pairVars
    <2>4. QED
      BY <2>2, <2>3
  <1>12. ASSUME co_schedule_in_co(k) PROVE SchedTypeOK'
    <2>1. SwitchTypeOK' /\ ListTypeOK'
      BY <1>0, <1>12 DEF co_schedule_in_co, SwitchTypeOK, ListTypeOK, switchVars, waitVars, coreVars
    <2>2. PICK d \in Core : want' = [want EXCEPT ![curr[k]] = <<d, 0>>]
      BY <1>12 DEF co_schedule_in_co
    <2>3. <<d, 0>> \in Core \X (0..MaxJobs)
      BY SchedAssumption
    <2>4. curr[k] \in Caller
      BY <1>12, <1>job DEF co_schedule_in_co
    <2>5. CallTypeOK'
      BY <1>0, <1>12, <2>2, <2>3, <2>4 DEF co_schedule_in_co, CallTypeOK, pairVars
    <2>6. QED
      BY <2>1, <2>5
  <1>13. ASSUME co_runner(k) PROVE SchedTypeOK'
    <2>1. SwitchTypeOK'
      BY <1>13, <1>exit DEF co_runner
    <2>2. ListTypeOK' /\ CallTypeOK'
      BY <1>0, <1>13 DEF co_runner, ListTypeOK, CallTypeOK, waitVars, coreVars, pairVars, callVars
    <2>3. QED
      BY <2>1, <2>2
  <1>14. QED
    BY <1>1, <1>2, <1>3, <1>4, <1>5, <1>6, <1>7, <1>8, <1>9, <1>10, <1>11, <1>12, <1>13
       DEF CoreStep, JobStep

\* The other steps do too.
LEMMA OtherStepType ==
  ASSUME SchedInv, NEW k \in Core, Listen(k) \/ \E t \in Coroutine : clock(k, t)
  PROVE  /\ UNCHANGED <<ncpu, switchVars, waiters, queue, batch, pairVars, callVars>>
         /\ SchedTypeOK'
  BY DEF Listen, epoll_listener, clock, SchedInv, SchedTypeOK, SwitchTypeOK, ListTypeOK, CallTypeOK,
         switchVars, pairVars, callVars

LEMMA ThreadStepType ==
  ASSUME SchedInv, NEW c \in Caller \ Jobs, co_schedule(c) \/ recv(c)
  PROVE  SchedTypeOK'
  <1>0. SwitchTypeOK /\ ListTypeOK /\ CallTypeOK
    BY DEF SchedInv, SchedTypeOK
  <1>1. SwitchTypeOK' /\ ListTypeOK'
    BY <1>0 DEF co_schedule, recv, SwitchTypeOK, ListTypeOK, switchVars, waitVars, coreVars
  <1>2. ASSUME co_schedule(c) PROVE CallTypeOK'
    <2>1. PICK k \in Core, q \in Kinds : Send(c, k, q)
             /\ mixed' = IF \E d \in Caller : pc[d] # "none" /\ want[d][1] = k THEN mixed \cup {k} ELSE mixed
      BY <1>2 DEF co_schedule
    <2>2. nj < MaxJobs /\ ans' = ans
      BY <1>2 DEF co_schedule
    <2>3. QED
      BY <1>0, <2>1, <2>2, SendFacts DEF CallTypeOK
  <1>3. ASSUME recv(c) PROVE CallTypeOK'
    <2> DEFINE d == want[c][1]
    <2>1. /\ ans[d] # << >> /\ ans' = [ans EXCEPT ![d] = Tail(@)] /\ Return(c, Head(ans[d])[1]) /\ rq' = rq
      BY <1>3 DEF recv
    <2>2. d \in Core
      BY <1>0 DEF CallTypeOK
    <2> HIDE DEF d
    <2>3. Tail(ans[d]) \in Seq(Job \X {"ok", "EBUSY", "ENOMEM", "EPERM"})
      BY <1>0, <2>1, <2>2, TailList DEF CallTypeOK
    <2>4. ans' \in [Core -> Seq(Job \X {"ok", "EBUSY", "ENOMEM", "EPERM"})]
      BY <1>0, <2>1, <2>3 DEF CallTypeOK
    <2>5. QED
      BY <1>0, <2>1, <2>4, ReturnFacts DEF CallTypeOK
  <1>4. QED
    BY <1>1, <1>2, <1>3 DEF SchedTypeOK

-----------------------------------------------------------------------------
(* The cores.                                                              *)

\* Nothing but core k changes.
Elsewhere(k) ==
    /\ ncpu' = ncpu
    /\ \A l \in Core \ {k} :
         /\ curr'[l] = curr[l] /\ dhelper'[l] = dhelper[l] /\ caller'[Helper(l)] = caller[Helper(l)]
         /\ queue'[l] = queue[l] /\ waiters'[l] = waiters[l] /\ batch'[l] = batch[l]
         /\ \A t \in Of(l) : /\ t \in Jobs => restarget'[t] = restarget[t]
                             /\ t \in alive => t \in alive'
         /\ Helper(l) \in alive => Helper(l) \in alive'
    /\ \A j \in Job : j <= nj => kind'[j] = kind[j]

\* A core has its own three coroutines and those of requests; a job it has is alive.
LEMMA OfWhere ==
  ASSUME SchedInv, NEW k \in Core
  PROVE  /\ Of(k) \subseteq {Main(k), Rqh(k), Helper(k)} \cup Jobs
         /\ \A j \in Job : Co(j) \in Of(k) => Co(j) \in alive /\ j <= nj
         /\ curr[k] \in Of(k) /\ ToSet(queue[k]) \subseteq Of(k) /\ ToSet(waiters[k]) \subseteq Of(k)
         /\ ToSet(batch[k]) \subseteq Of(k)
  <1>1. Lists(k) /\ Places(k) /\ Ends(k) /\ Alive(k) /\ Born
    BY DEF SchedInv, CoresInv, CoreInv
  <1>2. Of(k) \subseteq {Main(k), Rqh(k), Helper(k)} \cup Jobs
    BY <1>1 DEF Of, Places, Ends, Dying
  <1>3. \A j \in Job : Co(j) \in Of(k) => Co(j) \in alive /\ j <= nj
    BY <1>1, Names DEF Alive, Born
  <1>4. QED
    BY <1>1, <1>2, <1>3 DEF Of, Places

LEMMA OthersKeep ==
  ASSUME SchedInv, NEW k \in Core, Elsewhere(k), NEW l \in Core \ {k}
  PROVE  CoreInv(l)' /\ Of(l)' = Of(l)
  <1>1. Lists(l) /\ Places(l) /\ Ends(l) /\ Alive(l)
    BY DEF SchedInv, CoresInv, CoreInv
  <1>2. /\ curr'[l] = curr[l] /\ dhelper'[l] = dhelper[l] /\ caller'[Helper(l)] = caller[Helper(l)]
        /\ queue'[l] = queue[l] /\ waiters'[l] = waiters[l] /\ batch'[l] = batch[l] /\ ncpu' = ncpu
        /\ Helper(l) \in alive => Helper(l) \in alive'
        /\ \A t \in Of(l) : t \in Jobs => restarget'[t] = restarget[t]
        /\ \A t \in Of(l) : t \in alive => t \in alive'
    BY DEF Elsewhere
  <1>3. Of(l)' = Of(l)
    BY <1>2 DEF Of, Dying
  <1>4. Lists(l)'
    BY <1>1, <1>2 DEF Lists
  <1>5. \A j \in Job : curr[l] = Co(j) => kind'[j] = kind[j]
    BY OfWhere DEF Elsewhere
  <1>6. Places(l)'
    BY <1>1, <1>2, <1>5 DEF Places
  <1>7. Ends(l)'
    <2>1. \A t \in Of(l) \cap Jobs : restarget'[t] = restarget[t]
      BY <1>2
    <2>2. curr[l] \in Of(l)
      BY OfWhere
    <2>3. QED
      BY <1>1, <1>2, <1>3, <2>1, <2>2 DEF Ends
  <1>8. Alive(l)'
    BY <1>1, <1>2, <1>3 DEF Alive
  <1>9. QED
    BY <1>3, <1>4, <1>6, <1>7, <1>8 DEF CoreInv

\* A step of core k that gains nobody but its own and the newly born keeps cores apart.
LEMMA CoresKeep ==
  ASSUME SchedInv, NEW k \in Core, Elsewhere(k), CoreInv(k)', Born', Promised',
         \A t \in Of(k)' : t \in Of(k) \/ t \in {Main(k), Rqh(k), Helper(k)} \/ t \notin alive
  PROVE  CoresInv'
  <1>1. \A l \in Core : CoreInv(l)'
    BY OthersKeep
  <1>2. \A l \in Core \ {k} : Of(l)' = Of(l)
    BY OthersKeep
  <1>3. ASSUME NEW l \in Core \ {k} PROVE Of(k)' \cap Of(l)' = {}
    <2>1. SUFFICES ASSUME NEW t \in Of(k)', t \in Of(l) PROVE FALSE
      BY <1>2
    <2>2. t \in {Main(l), Rqh(l), Helper(l)} \cup Jobs
      BY <2>1, OfWhere
    <2>3. t \notin Of(k)
      BY <2>1 DEF SchedInv, CoresInv, Apart
    <2>4. t \notin {Main(k), Rqh(k), Helper(k)}
      BY <2>2, TwoCores
    <2>5. t \notin alive
      BY <2>3, <2>4
    <2>6. t = Main(l)
      BY <2>1, <2>5 DEF SchedInv, CoresInv, CoreInv, Alive
    <2>7. Of(k)' \subseteq {Main(k), Rqh(k), Helper(k)} \cup Jobs
      BY DEF CoreInv, Places, Ends, Of, Dying
    <2>8. Main(l) \notin {Main(k), Rqh(k), Helper(k)} \cup Jobs
      BY TwoCores
    <2>9. QED
      BY <2>1, <2>6, <2>7, <2>8
  <1>4. Apart'
    <2>1. SUFFICES ASSUME NEW l \in Core, NEW m \in Core, l # m PROVE Of(l)' \cap Of(m)' = {}
      BY DEF Apart
    <2>2. CASE l = k \/ m = k
      BY <1>3, <2>1, <2>2
    <2>3. CASE l # k /\ m # k
      BY <1>2, <2>1, <2>3 DEF SchedInv, CoresInv, Apart
    <2>4. QED
      BY <2>2, <2>3
  <1>5. QED
    BY <1>1, <1>4 DEF CoresInv

\* Core k is idle and starts or resumes t.
LEMMA Enter ==
  ASSUME SchedInv, NEW k \in Core, NEW t \in ToSet(queue[k]) \cup ToSet(batch[k]),
         k <= ncpu, curr[k] = Main(k), Switch(k, t),
         UNCHANGED <<ncpu, dhelper, alive, nj, kind>>, Lists(k)',
         \A l \in Core \ {k} : queue'[l] = queue[l] /\ waiters'[l] = waiters[l] /\ batch'[l] = batch[l],
         ToSet(queue'[k]) = ToSet(queue[k]) \ {t},
         ToSet(batch'[k]) = ToSet(batch[k]) \ {t},
         \/ ToSet(waiters'[k]) = ToSet(waiters[k]) \ {t}
         \/ ToSet(waiters'[k]) = ToSet(waiters[k]) /\ \E j \in polled : t = Co(j),
         accepted' = {j \in accepted : Co(j) # t}
  PROVE  CoresInv'
  <1>0. /\ SwitchTypeOK /\ CallTypeOK /\ Lists(k) /\ Places(k) /\ Ends(k) /\ Alive(k) /\ Born
        /\ Promised /\ Sorts /\ Apart
    BY DEF SchedInv, SchedTypeOK, CoresInv, CoreInv
  <1>1. t \in {Rqh(k)} \cup Jobs /\ t \in Coroutine /\ t \in Of(k) /\ t # Main(k) /\ t # Helper(k)
    BY <1>0, Names, OfWhere DEF Places
  <1>2. /\ curr'[k] = t /\ \A l \in Core \ {k} : curr'[l] = curr[l]
        /\ \A u \in Coroutine \ {t} : caller'[u] = caller[u] /\ restarget'[u] = restarget[u]
        /\ restarget'[t] = IF restarget[t] = NoCo THEN Main(k) ELSE restarget[t]
    BY <1>0, <1>1, SwitchFacts
  <1>3. Elsewhere(k)
    <2>1. ASSUME NEW l \in Core \ {k} PROVE t \notin Of(l) /\ Helper(l) # t
      <3>1. Helper(l) \notin {Main(k), Rqh(k), Helper(k)} \cup Jobs
        BY TwoCores
      <3>2. QED
        BY <1>0, <1>1, <3>1 DEF Apart
    <2>2. \A l \in Core \ {k} : Of(l) \cap Jobs \subseteq Coroutine
      BY Names
    <2>3. QED
      BY <1>2, <2>1, <2>2, Names DEF Elsewhere
  <1>4. Of(k)' = {t} \cup ToSet(queue'[k]) \cup ToSet(waiters'[k])
    BY <1>1, <1>2 DEF Of, Dying
  <1>5. Of(k)' \subseteq Of(k)
    BY <1>1, <1>4 DEF Of
  <1>6. \A j \in polled : kind[j] = "io" /\ j \in Job
    BY <1>0 DEF Sorts, CallTypeOK
  <1>7. Places(k)'
    BY <1>0, <1>1, <1>2, <1>6 DEF Places
  <1>8. Ends(k)'
    <2>1. \A u \in Of(k) \cap Jobs : restarget'[u] \in {NoCo, Main(k)}
      BY <1>0, <1>2, Names DEF Ends
    <2>2. t \in Jobs => restarget'[t] = Main(k)
      BY <1>0, <1>1, <1>2 DEF Ends
    <2>3. QED
      BY <1>1, <1>2, <1>5, <2>1, <2>2 DEF Ends
  <1>9. Alive(k)'
    BY <1>0, <1>5 DEF Alive
  <1>10. Born'
    <2>1. t \in alive
      BY <1>0, <1>1 DEF Alive
    <2>2. QED
      BY <1>0, <1>2, <2>1, Names DEF Born
  <1>11. Promised'
    <2>1. SUFFICES ASSUME NEW j \in accepted, Co(j) # t
                   PROVE  /\ \E l \in Core : Co(j) \in ToSet(queue'[l]) \cup ToSet(waiters'[l])
                          /\ \A l \in Core : curr'[l] # Co(j)
      BY DEF Promised
    <2>2. PICK l \in Core : Co(j) \in ToSet(queue[l]) \cup ToSet(waiters[l])
      BY <1>0 DEF Promised
    <2>3. Co(j) \in ToSet(queue'[l]) \cup ToSet(waiters'[l])
      BY <2>1, <2>2
    <2>4. QED
      BY <1>0, <1>2, <2>1, <2>3 DEF Promised
  <1>12. QED
    BY <1>3, <1>5, <1>7, <1>8, <1>9, <1>10, <1>11, CoresKeep DEF CoreInv

\* The running coroutine of core k gives way to the main one and may leave a waiter.
LEMMA Leave ==
  ASSUME SchedInv, NEW k \in Core, curr[k] \in {Rqh(k)} \cup Jobs, Switch(k, Main(k)),
         UNCHANGED <<ncpu, dhelper, alive, queue, batch, nj, kind, accepted>>,
         IsInjective(waiters'[k]),
         \A l \in Core \ {k} : waiters'[l] = waiters[l],
         ToSet(waiters'[k]) \in {ToSet(waiters[k]), ToSet(waiters[k]) \cup {curr[k]}}
  PROVE  CoresInv'
  <1>0. /\ SwitchTypeOK /\ Lists(k) /\ Places(k) /\ Ends(k) /\ Alive(k) /\ Born /\ Promised
    BY DEF SchedInv, SchedTypeOK, CoresInv, CoreInv
  <1>1. Main(k) \in Coroutine /\ Main(k) # Helper(k) /\ Main(k) \notin Jobs /\ Main(k) # Rqh(k)
    BY Names
  <1>2. /\ curr'[k] = Main(k) /\ \A l \in Core \ {k} : curr'[l] = curr[l]
        /\ \A u \in Coroutine \ {Main(k)} : caller'[u] = caller[u]
        /\ \A u \in Jobs : restarget'[u] = restarget[u]
    BY <1>0, <1>1, SwitchFacts, Names
  <1>3. Elsewhere(k)
    <2>1. ASSUME NEW l \in Core \ {k} PROVE Helper(l) \in Coroutine \ {Main(k)}
      BY TwoCores, Names
    <2>2. QED
      BY <1>2, <2>1 DEF Elsewhere
  <1>4. Of(k)' = {Main(k)} \cup ToSet(queue[k]) \cup ToSet(waiters'[k])
    BY <1>1, <1>2 DEF Of, Dying
  <1>5. Of(k)' \subseteq Of(k) \cup {Main(k)}
    BY <1>4 DEF Of
  <1>6. Lists(k)'
    BY <1>0 DEF Lists
  <1>7. k <= ncpu
    BY <1>0, <1>1, SchedAssumption DEF Places, SwitchTypeOK, Core
  <1>8. Places(k)'
    BY <1>0, <1>1, <1>2, <1>7, SchedAssumption DEF Places, SwitchTypeOK, Core
  <1>9. Ends(k)'
    <2>1. \A u \in Of(k) \cap Jobs : restarget'[u] \in {NoCo, Main(k)}
      BY <1>0, <1>2 DEF Ends
    <2>2. QED
      BY <1>1, <1>2, <1>5, <2>1 DEF Ends
  <1>10. Alive(k)'
    BY <1>0, <1>5 DEF Alive
  <1>11. Born'
    BY <1>0, <1>2, Names DEF Born
  <1>12. Promised'
    <2>1. SUFFICES ASSUME NEW j \in accepted
                   PROVE  /\ \E l \in Core : Co(j) \in ToSet(queue[l]) \cup ToSet(waiters'[l])
                          /\ \A l \in Core : curr'[l] # Co(j)
      BY DEF Promised
    <2>2. PICK l \in Core : Co(j) \in ToSet(queue[l]) \cup ToSet(waiters[l])
      BY <1>0 DEF Promised
    <2>3. Co(j) \in ToSet(queue[l]) \cup ToSet(waiters'[l])
      BY <2>2
    <2>4. Co(j) # Main(k)
      BY Names DEF SchedInv, SchedTypeOK, CallTypeOK
    <2>5. QED
      BY <1>0, <1>2, <2>3, <2>4 DEF Promised
  <1>13. QED
    BY <1>3, <1>5, <1>6, <1>8, <1>9, <1>10, <1>11, <1>12, CoresKeep DEF CoreInv

\* The running coroutine of core k ends, and has no waiter any more.
LEMMA Exit ==
  ASSUME SchedInv, NEW k \in Core, curr[k] \in Jobs, co_exit(k),
         UNCHANGED <<ncpu, queue, batch, nj, kind, accepted>>,
         IsInjective(waiters'[k]),
         \A l \in Core \ {k} : waiters'[l] = waiters[l],
         ToSet(waiters'[k]) = ToSet(waiters[k]) \ {curr[k]}
  PROVE  CoresInv'
  <1>0. /\ SwitchTypeOK /\ Lists(k) /\ Places(k) /\ Ends(k) /\ Alive(k) /\ Born /\ Promised
    BY DEF SchedInv, SchedTypeOK, CoresInv, CoreInv
  <1>1. /\ Helper(k) \in Coroutine /\ Main(k) # Helper(k) /\ Helper(k) \notin Jobs /\ Main(k) \notin Jobs
        /\ Rqh(k) # Helper(k)
    BY Names
  <1>2. /\ Switch(k, Helper(k)) /\ alive' = alive
        /\ dhelper' = [dhelper EXCEPT ![k] = restarget[curr[k]]]
    BY DEF co_exit
  <1>3. /\ curr'[k] = Helper(k) /\ \A l \in Core \ {k} : curr'[l] = curr[l]
        /\ caller'[Helper(k)] = curr[k] /\ \A u \in Coroutine \ {Helper(k)} : caller'[u] = caller[u]
        /\ \A u \in Jobs : restarget'[u] = restarget[u]
    BY <1>0, <1>1, <1>2, SwitchFacts, Names
  <1>4. dhelper'[k] = Main(k) /\ \A l \in Core \ {k} : dhelper'[l] = dhelper[l]
    BY <1>0, <1>2 DEF Ends, SwitchTypeOK
  <1>5. Elsewhere(k)
    <2>1. ASSUME NEW l \in Core \ {k} PROVE Helper(l) \in Coroutine \ {Helper(k)}
      BY TwoCores, Names
    <2>2. QED
      BY <1>2, <1>3, <1>4, <2>1 DEF Elsewhere
  <1>6. Of(k)' = {Helper(k), curr[k]} \cup ToSet(queue[k]) \cup ToSet(waiters'[k])
    BY <1>3 DEF Of, Dying
  <1>7. Of(k)' \subseteq Of(k) \cup {Helper(k)}
    BY <1>6 DEF Of
  <1>8. Lists(k)'
    BY <1>0 DEF Lists
  <1>9. k <= ncpu
    BY <1>0, <1>1, SchedAssumption DEF Places, SwitchTypeOK, Core
  <1>10. Helper(k) \notin ToSet(queue[k]) \cup ToSet(waiters'[k])
    BY <1>0, <1>1 DEF Places
  <1>11. ~(k > ncpu)
    BY <1>0, <1>9 DEF SwitchTypeOK, Core
  <1>12. Places(k)'
    BY <1>0, <1>3, <1>10, <1>11 DEF Places
  <1>13. Ends(k)'
    <2>1. \A u \in Of(k) \cap Jobs : restarget'[u] \in {NoCo, Main(k)}
      BY <1>0, <1>3 DEF Ends
    <2>2. \A u \in Of(k)' \cap Jobs : restarget'[u] \in {NoCo, Main(k)}
      BY <1>1, <1>7, <2>1
    <2>3. curr[k] \notin ToSet(queue[k]) \cup ToSet(waiters'[k])
      BY <1>0 DEF Places
    <2>4. QED
      BY <1>1, <1>3, <1>4, <2>2, <2>3 DEF Ends
  <1>14. Alive(k)'
    BY <1>0, <1>2, <1>7, <1>9 DEF Alive
  <1>15. Born'
    BY <1>0, <1>2, <1>3, Names DEF Born
  <1>16. Promised'
    <2>1. SUFFICES ASSUME NEW j \in accepted
                   PROVE  /\ \E l \in Core : Co(j) \in ToSet(queue[l]) \cup ToSet(waiters'[l])
                          /\ \A l \in Core : curr'[l] # Co(j)
      BY DEF Promised
    <2>2. PICK l \in Core : Co(j) \in ToSet(queue[l]) \cup ToSet(waiters[l])
      BY <1>0 DEF Promised
    <2>3. Co(j) # curr[k]
      BY <1>0 DEF Promised
    <2>4. Co(j) \in ToSet(queue[l]) \cup ToSet(waiters'[l])
      BY <2>2, <2>3
    <2>5. Co(j) # Helper(k)
      BY Names DEF SchedInv, SchedTypeOK, CallTypeOK
    <2>6. QED
      BY <1>0, <1>3, <2>4, <2>5 DEF Promised
  <1>17. QED
    BY <1>5, <1>7, <1>8, <1>12, <1>13, <1>14, <1>15, <1>16, CoresKeep DEF CoreInv

\* The delete helper frees a coroutine that nobody has any more.
LEMMA DelHelper ==
  ASSUME SchedInv, NEW k \in Core, co_del_helper(k)
  PROVE  CoresInv'
  <1>0. /\ SwitchTypeOK /\ Lists(k) /\ Places(k) /\ Ends(k) /\ Alive(k) /\ Born /\ Promised /\ Apart
    BY DEF SchedInv, SchedTypeOK, CoresInv, CoreInv
  <1> DEFINE d == caller[Helper(k)]
  <1>1. /\ curr[k] = Helper(k) /\ dhelper[k] = Main(k) /\ d \in Jobs /\ d \in Of(k)
        /\ d \notin ToSet(queue[k]) \cup ToSet(waiters[k])
    BY <1>0 DEF co_del_helper, Ends, Of, Dying
  <1>2. /\ Helper(k) \in Coroutine /\ Main(k) # Helper(k) /\ Helper(k) \notin Jobs /\ Main(k) \notin Jobs
        /\ Rqh(k) # Helper(k) /\ d \in Coroutine /\ Main(k) \in Coroutine /\ Main(k) # Rqh(k)
    BY <1>1, Names
  <1>3. /\ alive' = alive \ {d} /\ curr' = [curr EXCEPT ![k] = Main(k)]
        /\ caller' = [caller EXCEPT ![Main(k)] = Helper(k), ![d] = NoCo]
        /\ restarget' = [restarget EXCEPT ![d] = NoCo]
        /\ dhelper' = [dhelper EXCEPT ![k] = NoCo]
        /\ UNCHANGED <<ncpu, queue, waiters, batch, nj, kind, accepted>>
    BY <1>1 DEF co_del_helper, waitVars, coreVars, callVars
  <1> HIDE DEF d
  <1>4. /\ curr'[k] = Main(k) /\ \A l \in Core \ {k} : curr'[l] = curr[l] /\ dhelper'[l] = dhelper[l]
        /\ \A u \in Coroutine \ {Main(k), d} : caller'[u] = caller[u]
        /\ \A u \in Coroutine \ {d} : restarget'[u] = restarget[u]
        /\ restarget'[d] = NoCo
    BY <1>0, <1>2, <1>3 DEF SwitchTypeOK
  <1>5. Elsewhere(k)
    <2>1. ASSUME NEW l \in Core \ {k}
          PROVE Helper(l) \in Coroutine \ {Main(k), d} /\ d \notin Of(l)
      BY <1>0, <1>1, TwoCores, Names DEF Apart
    <2>2. \A l \in Core \ {k} : caller'[Helper(l)] = caller[Helper(l)]
      BY <1>4, <2>1
    <2>3. ASSUME NEW l \in Core \ {k}, NEW t \in Of(l)
          PROVE (t \in Jobs => restarget'[t] = restarget[t]) /\ (t \in alive => t \in alive')
      BY <1>3, <1>4, <2>1, <2>3, Names
    <2>4. \A l \in Core \ {k} : Helper(l) \in alive => Helper(l) \in alive'
      BY <1>3, <2>1
    <2>5. QED
      BY <1>3, <1>4, <2>2, <2>3, <2>4 DEF Elsewhere
  <1>6. Of(k)' = {Main(k)} \cup ToSet(queue[k]) \cup ToSet(waiters[k])
    BY <1>2, <1>3, <1>4 DEF Of, Dying
  <1>7. Of(k)' \subseteq (Of(k) \ {d}) \cup {Main(k)}
    BY <1>1, <1>6 DEF Of
  <1>8. Lists(k)'
    BY <1>0, <1>3 DEF Lists
  <1>9. Main(k) \notin ToSet(queue[k]) \cup ToSet(waiters[k])
    BY <1>0, <1>2 DEF Places
  <1>10. ~(k > ncpu)
    BY <1>0, <1>1, <1>2 DEF Places
  <1>11. Places(k)'
    BY <1>0, <1>3, <1>4, <1>9, <1>10 DEF Places
  <1>12. Ends(k)'
    <2>1. \A u \in Of(k) \cap Jobs : restarget'[u] \in {NoCo, Main(k)}
      BY <1>0, <1>4, Names DEF Ends
    <2>2. \A u \in Of(k)' \cap Jobs : restarget'[u] \in {NoCo, Main(k)}
      BY <1>2, <1>7, <2>1
    <2>3. QED
      BY <1>2, <1>4, <2>2 DEF Ends
  <1>13. Alive(k)'
    BY <1>0, <1>1, <1>2, <1>3, <1>7 DEF Alive
  <1>14. Born'
    BY <1>0, <1>3, <1>4, Names DEF Born
  <1>15. Promised'
    <2>1. \A j \in accepted : Co(j) # Main(k)
      BY Names DEF SchedInv, SchedTypeOK, CallTypeOK
    <2>2. QED
      BY <1>0, <1>3, <1>4, <2>1 DEF Promised
  <1>16. QED
    BY <1>5, <1>7, <1>8, <1>11, <1>12, <1>13, <1>14, <1>15, CoresKeep DEF CoreInv

\* A step that changes no core; requests may be made.
LEMMA CoresSame ==
  ASSUME SchedInv, UNCHANGED <<ncpu, switchVars, queue, waiters, batch, accepted>>,
         nj' \in Nat, nj' >= nj, \A j \in Job : j <= nj => kind'[j] = kind[j]
  PROVE  CoresInv'
  <1>1. \A k \in Core : Of(k)' = Of(k)
    BY DEF Of, Dying, switchVars
  <1>2. ASSUME NEW k \in Core PROVE CoreInv(k)'
    <2>1. Lists(k) /\ Places(k) /\ Ends(k) /\ Alive(k)
      BY DEF SchedInv, CoresInv, CoreInv
    <2>2. \A j \in Job : curr[k] = Co(j) => kind'[j] = kind[j]
      BY OfWhere
    <2>3. Lists(k)' /\ Places(k)'
      BY <2>1, <2>2 DEF Lists, Places, switchVars
    <2>4. Ends(k)' /\ Alive(k)'
      BY <1>1, <2>1 DEF Ends, Alive, switchVars
    <2>5. QED
      BY <2>3, <2>4 DEF CoreInv
  <1>3. Apart'
    BY <1>1 DEF SchedInv, CoresInv, Apart
  <1>4. Born'
    BY SchedAssumption DEF SchedInv, SchedTypeOK, CallTypeOK, CoresInv, Born, switchVars, Job
  <1>5. Promised'
    BY DEF SchedInv, CoresInv, Promised, switchVars
  <1>6. QED
    BY <1>2, <1>3, <1>4, <1>5 DEF CoresInv

\* The handler creates a coroutine that nobody has, or refuses the request.
LEMMA Handle ==
  ASSUME SchedInv, NEW k \in Core, schedule_request_handler(k)
  PROVE  CoresInv'
  <1> DEFINE j == Head(rq[k])
  <1>0. /\ SwitchTypeOK /\ ListTypeOK /\ CallTypeOK /\ Lists(k) /\ Places(k) /\ Ends(k) /\ Alive(k)
        /\ Born /\ Promised /\ Apart
    BY DEF SchedInv, SchedTypeOK, CoresInv, CoreInv
  <1>1. j \in Job /\ j <= nj /\ Co(j) \notin alive
    <2>1. rq[k] \in Seq(Job) /\ rq[k] # << >>
      BY <1>0 DEF CallTypeOK, schedule_request_handler
    <2>2. 1 \in DOMAIN rq[k] /\ Head(rq[k]) = rq[k][1] /\ rq[k][1] \in Job
      BY <2>1, HeadTailProperties, EmptySeq
    <2>3. QED
      BY <2>2 DEF SchedInv, Requests
  <1>2. PICK s \in {"ok", "EBUSY", "ENOMEM", "EPERM"} :
          /\ s = "ok" => ~is_full(k)
          /\ s = "EPERM" => kind[j] = "io"
          /\ accepted' = IF s = "ok" THEN accepted \cup {j} ELSE accepted
          /\ alive' = IF s \in {"ok", "EPERM"} THEN alive \cup {Co(j)} ELSE alive
          /\ waiters' = IF kind[j] = "io" /\ s \in {"ok", "EPERM"}
                        THEN [waiters EXCEPT ![k] = Append(waiters[k], Co(j))] ELSE waiters
          /\ queue' = IF kind[j] = "thread" /\ s = "ok" THEN Push(k, Co(j)) ELSE queue
    BY DEF schedule_request_handler
  <1>3. curr[k] = Rqh(k) /\ UNCHANGED <<ncpu, curr, caller, restarget, dhelper, batch, nj, kind>>
    BY DEF schedule_request_handler
  <1> HIDE DEF j
  <1>4. Co(j) \in Coroutine /\ Co(j) \in Jobs /\ Co(j) \notin {Main(k), Rqh(k), Helper(k)}
    BY <1>1, Names
  <1>5. \A l \in Core : Co(j) \notin Of(l)
    BY <1>1, OfWhere
  <1>6. Len(queue[k]) \in Nat /\ queue[k] \in Seq(Coroutine) /\ waiters[k] \in Seq(Coroutine)
    BY <1>0 DEF ListTypeOK
  <1>7. Co(j) \notin ToSet(queue[k]) /\ Co(j) \notin ToSet(waiters[k])
    BY <1>5, OfWhere
  <1>8. CASE s \notin {"ok", "EPERM"}
    <2>1. UNCHANGED <<alive, waiters, queue, accepted>>
      BY <1>2, <1>8
    <2>2. QED
      BY <1>0, <1>3, <2>1, CoresSame, SchedAssumption DEF CallTypeOK, switchVars
  <1>9. CASE s \in {"ok", "EPERM"}
    <2>1. alive' = alive \cup {Co(j)} /\ accepted' \subseteq accepted \cup {j} /\ accepted' \subseteq Job
      BY <1>0, <1>1, <1>2, <1>9 DEF CallTypeOK
    <2>2. /\ \A l \in Core \ {k} : queue'[l] = queue[l] /\ waiters'[l] = waiters[l]
          /\ IsInjective(queue'[k]) /\ IsInjective(waiters'[k]) /\ Len(queue'[k]) <= QueueCap
          /\ \/ /\ ToSet(queue'[k]) = ToSet(queue[k]) \cup {Co(j)}
                /\ ToSet(waiters'[k]) = ToSet(waiters[k])
             \/ /\ ToSet(queue'[k]) = ToSet(queue[k])
                /\ ToSet(waiters'[k]) = ToSet(waiters[k]) \cup {Co(j)}
      <3>1. CASE kind[j] = "io"
        <4> DEFINE w == Append(waiters[k], Co(j))
        <4>1. w \in Seq(Coroutine) /\ ToSet(w) = ToSet(waiters[k]) \cup {Co(j)} /\ IsInjective(w)
          BY <1>0, <1>4, <1>6, <1>7, AppendList DEF Lists
        <4> HIDE DEF w
        <4>2. waiters' = [waiters EXCEPT ![k] = w] /\ queue' = queue
          BY <1>2, <1>9, <3>1 DEF w
        <4>3. waiters'[k] = w /\ \A l \in Core \ {k} : waiters'[l] = waiters[l]
          BY <1>0, <4>2 DEF ListTypeOK
        <4>4. QED
          BY <1>0, <4>1, <4>2, <4>3 DEF Lists
      <3>2. CASE kind[j] # "io"
        <4> DEFINE w == Append(queue[k], Co(j))
        <4>1. kind[j] = "thread" /\ s = "ok" /\ waiters' = waiters
          BY <1>0, <1>1, <1>2, <1>9, <3>2 DEF CallTypeOK
        <4>2. Len(queue[k]) < QueueCap
          BY <1>0, <1>2, <1>6, <4>1, SchedAssumption DEF is_full, Lists
        <4>3. w \in Seq(Coroutine) /\ ToSet(w) = ToSet(queue[k]) \cup {Co(j)} /\ IsInjective(w)
              /\ Len(w) = Len(queue[k]) + 1
          BY <1>0, <1>4, <1>6, <1>7, AppendList DEF Lists
        <4>4. queue' = [queue EXCEPT ![k] = w]
          BY <1>2, <4>1, <4>2 DEF Push
        <4> HIDE DEF w
        <4>5. queue'[k] = w /\ \A l \in Core \ {k} : queue'[l] = queue[l]
          BY <1>0, <4>4 DEF ListTypeOK
        <4>6. Len(w) <= QueueCap
          BY <1>6, <4>2, <4>3, SchedAssumption
        <4>7. QED
          BY <1>0, <4>1, <4>3, <4>5, <4>6 DEF Lists
      <3>3. QED
        BY <3>1, <3>2
    <2>3. Elsewhere(k)
      BY <1>3, <2>1, <2>2 DEF Elsewhere
    <2>4. Of(k)' = Of(k) \cup {Co(j)}
      BY <1>3, <2>2 DEF Of, Dying
    <2>5. Lists(k)'
      BY <1>0, <1>3, <2>2 DEF Lists
    <2>6. Places(k)'
      <3>1. ~(k > ncpu)
        BY <1>0, <1>3, Names DEF Places
      <3>2. QED
        BY <1>0, <1>3, <1>4, <1>7, <2>2, <3>1 DEF Places
    <2>7. Ends(k)'
      <3>1. restarget[Co(j)] = NoCo
        BY <1>0, <1>1 DEF Born
      <3>2. curr[k] # Helper(k) /\ curr[k] \notin Jobs
        BY <1>3, Names
      <3>3. QED
        BY <1>0, <1>3, <2>4, <3>1, <3>2 DEF Ends
    <2>8. Alive(k)'
      BY <1>0, <1>3, <2>1, <2>4 DEF Alive
    <2>9. Born'
      BY <1>0, <1>1, <1>3, <2>1, Names DEF Born
    <2>10. Promised'
      <3>1. ASSUME NEW i \in accepted
            PROVE  \E l \in Core : Co(i) \in ToSet(queue'[l]) \cup ToSet(waiters'[l])
        <4>1. PICK l \in Core : Co(i) \in ToSet(queue[l]) \cup ToSet(waiters[l])
          BY <1>0 DEF Promised
        <4>2. QED
          BY <2>2, <4>1
      <3>2. Co(j) \in ToSet(queue'[k]) \cup ToSet(waiters'[k])
        BY <2>2
      <3>3. \A l \in Core : curr[l] # Co(j)
        BY <1>5, OfWhere
      <3>4. QED
        BY <1>0, <1>3, <2>1, <3>1, <3>2, <3>3 DEF Promised
    <2>11. QED
      BY <1>1, <2>3, <2>4, <2>5, <2>6, <2>7, <2>8, <2>9, <2>10, CoresKeep DEF CoreInv
  <1>10. QED
    BY <1>8, <1>9

\* The walk fills cc[] with waiters.
LEMMA Walk ==
  ASSUME SchedInv, NEW k \in Core, pclthread_walk(k)
  PROVE  CoresInv'
  <1>0. /\ SwitchTypeOK /\ ListTypeOK /\ Lists(k) /\ Places(k) /\ Ends(k) /\ Alive(k) /\ Born /\ Promised
    BY DEF SchedInv, SchedTypeOK, CoresInv, CoreInv
  <1>1. PICK place \in SetToSeqs(Signalled(k) \cap Reached(k)) :
          batch' = [batch EXCEPT ![k] = [n \in DOMAIN place |-> waiters[k][place[n]]]]
    BY DEF pclthread_walk
  <1> DEFINE cc == [n \in DOMAIN place |-> waiters[k][place[n]]]
  <1>2. ToSet(cc) \subseteq ToSet(waiters[k]) /\ IsInjective(cc)
    BY <1>0, WalkBatch DEF Lists
  <1>3. batch' = [batch EXCEPT ![k] = cc]
    BY <1>1
  <1> HIDE DEF cc
  <1>4. batch'[k] = cc /\ \A l \in Core \ {k} : batch'[l] = batch[l]
    BY <1>0, <1>3 DEF ListTypeOK
  <1>5. /\ curr[k] = Main(k)
        /\ UNCHANGED <<ncpu, curr, caller, restarget, dhelper, alive, queue, waiters, nj, kind, accepted>>
    BY DEF pclthread_walk, Running, switchVars, callVars
  <1>6. Elsewhere(k)
    BY <1>4, <1>5 DEF Elsewhere
  <1>7. Of(k)' = Of(k)
    BY <1>5 DEF Of, Dying
  <1>8. Main(k) \notin ToSet(waiters[k])
    BY <1>0, Names DEF Places
  <1>9. Lists(k)' /\ Places(k)'
    BY <1>0, <1>2, <1>4, <1>5, <1>8 DEF Lists, Places
  <1>10. Ends(k)' /\ Alive(k)' /\ Born' /\ Promised'
    BY <1>0, <1>5, <1>7 DEF Ends, Alive, Born, Promised
  <1>11. QED
    BY <1>6, <1>7, <1>9, <1>10, CoresKeep DEF CoreInv

\* A new core starts with the request handler in its queue.
LEMMA NewCore ==
  ASSUME SchedInv, new_pcl_thread
  PROVE  SchedTypeOK' /\ CoresInv'
  <1>0. SwitchTypeOK /\ ListTypeOK /\ CallTypeOK /\ CoresInv
    BY DEF SchedInv, SchedTypeOK
  <1>1. PICK k \in Core : k = ncpu + 1 /\ ncpu \in Nat /\ k > ncpu /\ NCpu \in Nat
    BY <1>0, SchedAssumption DEF new_pcl_thread, SwitchTypeOK, Core
  <1>2. /\ ncpu' = k /\ queue' = [queue EXCEPT ![k] = <<Rqh(k)>>]
        /\ alive' = alive \cup {Main(k), Rqh(k), Helper(k)}
        /\ UNCHANGED <<curr, caller, restarget, dhelper, waiters, batch, nj, kind, accepted>>
    BY <1>1 DEF new_pcl_thread, waitVars, callVars
  <1>3. Main(k) \in Coroutine /\ Rqh(k) \in Coroutine /\ Helper(k) \in Coroutine
    BY <1>1, Names
  <1>4. <<Rqh(k)>> \in Seq(Coroutine) /\ ToSet(<<Rqh(k)>>) = {Rqh(k)} /\ IsInjective(<<Rqh(k)>>)
        /\ Len(<<Rqh(k)>>) = 1
    BY <1>3 DEF ToSet, IsInjective
  <1>5. queue'[k] = <<Rqh(k)>> /\ \A l \in Core \ {k} : queue'[l] = queue[l]
    BY <1>0, <1>1, <1>2 DEF ListTypeOK
  <1>6. SchedTypeOK'
    <2>1. k \in 0..NCpu
      BY <1>1 DEF Core
    <2>2. SwitchTypeOK'
      BY <1>0, <1>2, <1>3, <2>1 DEF SwitchTypeOK
    <2>3. ListTypeOK'
      BY <1>0, <1>1, <1>2, <1>4 DEF ListTypeOK
    <2>4. CallTypeOK'
      BY <1>0 DEF CallTypeOK, new_pcl_thread, callVars, pairVars
    <2>5. QED
      BY <2>2, <2>3, <2>4 DEF SchedTypeOK
  <1>7. Lists(k) /\ Places(k) /\ Ends(k) /\ Alive(k)
    BY <1>0, <1>1 DEF CoresInv, CoreInv
  <1>8. curr[k] = Main(k) /\ ToSet(queue[k]) = {} /\ ToSet(waiters[k]) = {} /\ ToSet(batch[k]) = {}
    BY <1>1, <1>7 DEF Places
  <1>9. Main(k) # Helper(k) /\ Main(k) \notin Jobs /\ Main(k) # Rqh(k) /\ Rqh(k) \notin Jobs
    BY <1>1, Names
  <1>10. Of(k)' = {Main(k), Rqh(k)}
    BY <1>2, <1>4, <1>5, <1>8, <1>9 DEF Of, Dying
  <1>11. CoreInv(k)'
    <2>1. Lists(k)'
      BY <1>2, <1>4, <1>5, <1>7, SchedAssumption DEF Lists
    <2>2. ~(k > k)
      BY <1>1 DEF Core
    <2>3. Places(k)'
      BY <1>2, <1>4, <1>5, <1>7, <1>8, <1>9, <2>2 DEF Places
    <2>4. Ends(k)'
      BY <1>2, <1>8, <1>9, <1>10 DEF Ends
    <2>5. Alive(k)'
      BY <1>2, <1>10 DEF Alive
    <2>6. QED
      BY <2>1, <2>3, <2>4, <2>5 DEF CoreInv
  <1>12. ASSUME NEW l \in Core \ {k} PROVE CoreInv(l)' /\ Of(l)' = Of(l)
    <2>1. Lists(l) /\ Places(l) /\ Ends(l) /\ Alive(l)
      BY <1>0 DEF CoresInv, CoreInv
    <2>2. Of(l)' = Of(l)
      BY <1>2, <1>5 DEF Of, Dying
    <2>3. (l > k => l > ncpu) /\ (l <= k => l <= ncpu)
      BY <1>1, <1>12 DEF Core
    <2>4. Lists(l)' /\ Places(l)'
      BY <1>2, <1>5, <2>1, <2>3 DEF Lists, Places
    <2>5. Ends(l)' /\ Alive(l)'
      BY <1>2, <1>5, <2>1, <2>2, <2>3 DEF Ends, Alive
    <2>6. QED
      BY <2>2, <2>4, <2>5 DEF CoreInv
  <1>13. Apart'
    <2>1. ASSUME NEW l \in Core \ {k} PROVE Of(k)' \cap Of(l)' = {}
      <3>1. Of(l) \subseteq {Main(l), Rqh(l), Helper(l)} \cup Jobs
        BY OfWhere
      <3>2. Main(k) \notin Of(l) /\ Rqh(k) \notin Of(l)
        BY <1>1, <3>1, TwoCores
      <3>3. QED
        BY <1>10, <1>12, <3>2
    <2>2. QED
      BY <1>0, <1>12, <2>1 DEF CoresInv, Apart
  <1>14. Born' /\ Promised'
    <2>1. Born'
      BY <1>0, <1>1, <1>2, Names DEF CoresInv, Born
    <2>2. Promised'
      <3>1. ASSUME NEW j \in accepted
            PROVE  \E l \in Core : Co(j) \in ToSet(queue'[l]) \cup ToSet(waiters'[l])
        <4>1. PICK l \in Core : Co(j) \in ToSet(queue[l]) \cup ToSet(waiters[l])
          BY <1>0 DEF CoresInv, Promised
        <4>2. l # k
          BY <1>8, <4>1
        <4>3. QED
          BY <1>2, <1>5, <4>1, <4>2
      <3>2. QED
        BY <1>0, <1>2, <3>1 DEF CoresInv, Promised
    <2>3. QED
      BY <2>1, <2>2
  <1>15. QED
    BY <1>6, <1>11, <1>12, <1>13, <1>14 DEF CoresInv

-----------------------------------------------------------------------------
(* Calls and requests.                                                     *)

LEMMA SortsKeep ==
  ASSUME SchedInv, nj' \in Nat, nj' >= nj, \A j \in Job : j <= nj => kind'[j] = kind[j],
         \A j \in Job : pc'[Co(j)] # "none" => pc[Co(j)] # "none" \/ (j <= nj /\ kind[j] = "thread"),
         \A j \in polled' : j \in polled \/ (j \in Job /\ j <= nj /\ kind[j] = "io")
  PROVE  Sorts'
  <1>1. nj \in Nat /\ polled \subseteq Job /\ Sorts
    BY SchedAssumption DEF SchedInv, SchedTypeOK, CallTypeOK
  <1>2. \A j \in Job : j <= nj => j <= nj'
    BY <1>1, SchedAssumption DEF Job
  <1>3. QED
    BY <1>1, <1>2 DEF Sorts

LEMMA RequestsKeep ==
  ASSUME SchedInv, nj' = nj, rq' = rq, alive' \cap Jobs \subseteq alive
  PROVE  Requests'
  <1>1. ASSUME NEW k \in Core, NEW n \in DOMAIN rq[k] PROVE Co(rq[k][n]) \in Jobs
    BY Names DEF SchedInv, SchedTypeOK, CallTypeOK
  <1>2. QED
    BY <1>1 DEF SchedInv, Requests

\* A new request has a number of its own.
LEMMA SendRequests ==
  ASSUME SchedInv, NEW k \in Core, nj < MaxJobs, nj' = nj + 1, alive' = alive,
         rq' = [rq EXCEPT ![k] = Append(@, nj + 1)]
  PROVE  Requests'
  <1>0. rq \in [Core -> Seq(Job)] /\ nj \in Nat /\ Requests /\ Born /\ nj + 1 \in Job
    BY SchedAssumption DEF SchedInv, SchedTypeOK, CallTypeOK, CoresInv, Job
  <1> DEFINE s == Append(rq[k], nj + 1)
             n == Len(rq[k])
  <1>1. /\ rq[k] \in Seq(Job) /\ n \in Nat /\ DOMAIN rq[k] = 1..n /\ DOMAIN s = 1..n+1
        /\ \A i \in 1..n : s[i] = rq[k][i]
        /\ s[n + 1] = nj + 1
    BY <1>0, AppendProperties
  <1>2. rq'[k] = s /\ \A l \in Core \ {k} : rq'[l] = rq[l]
    BY <1>0
  <1> HIDE DEF s, n
  <1>3. Co(nj + 1) \notin alive
    BY <1>0, SchedAssumption DEF Born
  <1>4. ASSUME NEW l \in Core, NEW i \in DOMAIN rq'[l]
        PROVE  \/ i \in DOMAIN rq[l] /\ rq'[l][i] = rq[l][i]
               \/ l = k /\ i = n + 1 /\ rq'[l][i] = nj + 1
    BY <1>1, <1>2
  <1>5. \A l \in Core : \A i \in DOMAIN rq[l] : rq[l][i] <= nj /\ rq[l][i] \in Nat /\ Co(rq[l][i]) \notin alive
    BY <1>0, SchedAssumption DEF Requests, Job
  <1>6. \A l \in Core : \A i \in DOMAIN rq'[l] : rq'[l][i] <= nj + 1 /\ Co(rq'[l][i]) \notin alive
    BY <1>0, <1>3, <1>4, <1>5
  <1>7. ASSUME NEW l \in Core, NEW m \in Core, NEW i \in DOMAIN rq'[l], NEW h \in DOMAIN rq'[m],
               rq'[l][i] = rq'[m][h]
        PROVE  l = m /\ i = h
    <2>1. \/ i \in DOMAIN rq[l] /\ rq'[l][i] = rq[l][i]
          \/ l = k /\ i = n + 1 /\ rq'[l][i] = nj + 1
      BY <1>4
    <2>2. \/ h \in DOMAIN rq[m] /\ rq'[m][h] = rq[m][h]
          \/ m = k /\ h = n + 1 /\ rq'[m][h] = nj + 1
      BY <1>4
    <2>3. QED
      BY <1>0, <1>5, <1>7, <2>1, <2>2 DEF Requests
  <1>8. QED
    BY <1>6, <1>7 DEF Requests

\* The handler takes the first request.
LEMMA HandleRequests ==
  ASSUME SchedInv, NEW k \in Core, schedule_request_handler(k)
  PROVE  Requests'
  <1>0. rq \in [Core -> Seq(Job)] /\ nj \in Nat /\ Requests
    BY SchedAssumption DEF SchedInv, SchedTypeOK, CallTypeOK
  <1> DEFINE s == Tail(rq[k])
  <1>1. rq[k] # << >> /\ rq' = [rq EXCEPT ![k] = s] /\ nj' = nj /\ alive' \subseteq alive \cup {Co(Head(rq[k]))}
    BY DEF schedule_request_handler
  <1>2. /\ Len(rq[k]) \in Nat /\ Len(rq[k]) > 0 /\ Len(s) = Len(rq[k]) - 1 /\ DOMAIN s = 1..Len(s)
        /\ \A i \in 1..Len(s) : s[i] = rq[k][i + 1]
        /\ Head(rq[k]) = rq[k][1] /\ DOMAIN rq[k] = 1..Len(rq[k])
    BY <1>0, <1>1, HeadTailProperties, EmptySeq
  <1>3. rq'[k] = s /\ \A l \in Core \ {k} : rq'[l] = rq[l]
    BY <1>0, <1>1
  <1> HIDE DEF s
  <1>4. ASSUME NEW l \in Core, NEW i \in DOMAIN rq'[l]
        PROVE  \E h \in DOMAIN rq[l] : /\ rq'[l][i] = rq[l][h] /\ (l = k => h # 1)
                                       /\ h = IF l = k THEN i + 1 ELSE i
    <2>1. CASE l # k
      BY <1>3, <2>1
    <2>2. CASE l = k
      <3>1. i \in 1..Len(s)
        BY <1>2, <1>3, <2>2
      <3>2. i + 1 \in DOMAIN rq[k] /\ i + 1 # 1 /\ rq'[k][i] = rq[k][i + 1]
        BY <1>2, <1>3, <3>1
      <3>3. QED
        BY <2>2, <3>2
    <2>3. QED
      BY <2>1, <2>2
  <1>5. ASSUME NEW l \in Core, NEW i \in DOMAIN rq'[l]
        PROVE  rq'[l][i] <= nj /\ Co(rq'[l][i]) \notin alive'
    <2>1. PICK h \in DOMAIN rq[l] : rq'[l][i] = rq[l][h] /\ (l = k => h # 1)
      BY <1>4
    <2>2. rq[l][h] <= nj /\ Co(rq[l][h]) \notin alive
      BY <1>0 DEF Requests
    <2>3. rq[l][h] # rq[k][1]
      BY <1>0, <1>2, <2>1 DEF Requests
    <2>4. rq[l][h] \in Job /\ rq[k][1] \in Job
      BY <1>0, <1>2
    <2>5. Co(rq[l][h]) # Co(rq[k][1])
      BY <2>3, <2>4, Names
    <2>6. QED
      BY <1>1, <1>2, <2>1, <2>2, <2>5
  <1>6. ASSUME NEW l \in Core, NEW m \in Core, NEW i \in DOMAIN rq'[l], NEW h \in DOMAIN rq'[m],
               rq'[l][i] = rq'[m][h]
        PROVE  l = m /\ i = h
    <2>1. PICK u \in DOMAIN rq[l] : rq'[l][i] = rq[l][u] /\ u = IF l = k THEN i + 1 ELSE i
      BY <1>4
    <2>2. PICK v \in DOMAIN rq[m] : rq'[m][h] = rq[m][v] /\ v = IF m = k THEN h + 1 ELSE h
      BY <1>4
    <2>3. l = m /\ u = v
      <3>1. rq[l][u] = rq[m][v]
        BY <1>6, <2>1, <2>2
      <3>2. QED
        BY <1>0, <3>1 DEF Requests
    <2>4. l # k => i = h
      BY <2>1, <2>2, <2>3
    <2>5. l = k => i \in 1..Len(s) /\ h \in 1..Len(s) /\ i + 1 = h + 1
      BY <1>2, <1>3, <2>1, <2>2, <2>3
    <2>6. QED
      BY <1>2, <2>3, <2>4, <2>5
  <1>7. QED
    BY <1>1, <1>5, <1>6 DEF Requests

-----------------------------------------------------------------------------
(* Answers.                                                                *)

\* A socketpair that a step leaves alone.
LEMMA PrivateKeep ==
  ASSUME NEW d, Private(d), rq'[d] = rq[d], ans'[d] = ans[d], Out(d)' = Out(d),
         \A c \in Out(d) : want'[c] = want[c]
  PROVE  Private(d)'
  BY DEF Private

\* The caller c, and nobody else, makes a call or changes where it is in one.
LEMMA OutElsewhere ==
  ASSUME CallTypeOK, NEW c \in Caller, NEW d,
         \A b \in Caller \ {c} : pc'[b] = pc[b] /\ want'[b] = want[b],
         c \notin Out(d), c \notin Out(d)'
  PROVE  Out(d)' = Out(d) /\ \A b \in Out(d) : want'[b] = want[b]
  BY DEF Out

\* A call that used a socketpair shared with others returns.
LEMMA ReturnAnswer ==
  ASSUME SchedInv, NEW c \in Caller, NEW j, pc[c] \in {"receiving", "waiting"}, Return(c, j),
         want[c][1] \in mixed,
         \A d \in Core : d # want[c][1] => rq'[d] = rq[d] /\ ans'[d] = ans[d]
  PROVE  AnswerInv'
  <1>0. CallTypeOK /\ AnswerInv
    BY DEF SchedInv, SchedTypeOK
  <1>1. /\ pc'[c] = "none" /\ mixed' = mixed
        /\ \A b \in Caller \ {c} : pc'[b] = pc[b] /\ want'[b] = want[b]
    BY <1>0, ReturnFacts
  <1>2. ASSUME NEW d \in Core \ mixed PROVE Private(d)'
    <2>1. c \notin Out(d) /\ c \notin Out(d)' /\ d # want[c][1]
      BY <1>1 DEF Out
    <2>2. Out(d)' = Out(d) /\ \A b \in Out(d) : want'[b] = want[b]
      BY <1>0, <1>1, <2>1, OutElsewhere
    <2>3. QED
      BY <1>0, <2>1, <2>2, PrivateKeep DEF AnswerInv
  <1>3. OwnAnswer'
    BY <1>0, <1>1 DEF AnswerInv, OwnAnswer, Return
  <1>4. QED
    BY <1>1, <1>2, <1>3 DEF AnswerInv

\* A coroutine's call uses a socketpair that counts as shared.
LEMMA JobsMix ==
  ASSUME SchedInv, NEW c \in Jobs, pc[c] \in {"receiving", "waiting"}
  PROVE  want[c][1] \in mixed
  <1>1. c \in Caller /\ want[c][1] \in Core
    BY Names DEF SchedInv, SchedTypeOK, CallTypeOK
  <1>2. c \in Out(want[c][1])
    BY <1>1 DEF Out
  <1>3. QED
    BY <1>1, <1>2 DEF SchedInv, AnswerInv, Private

\* A coroutine moves on within its call.
LEMMA MoveAnswer ==
  ASSUME SchedInv, NEW c \in Jobs, UNCHANGED <<rq, ans, mixed, foreign>>,
         \A b \in Caller \ {c} : pc'[b] = pc[b] /\ want'[b] = want[b],
         \/ pc[c] \in {"receiving", "waiting"} /\ want'[c] = want[c]
         \/ pc'[c] \notin {"receiving", "waiting"} /\ pc[c] \notin {"receiving", "waiting"}
  PROVE  AnswerInv'
  <1>0. CallTypeOK /\ AnswerInv /\ c \in Caller
    BY Names DEF SchedInv, SchedTypeOK
  <1>1. ASSUME NEW d \in Core \ mixed PROVE Private(d)'
    <2>1. c \notin Out(d) /\ c \notin Out(d)'
      <3>1. CASE pc[c] \in {"receiving", "waiting"} /\ want'[c] = want[c]
        <4>1. want[c][1] # d
          BY <3>1, JobsMix
        <4>2. QED
          BY <3>1, <4>1 DEF Out
      <3>2. CASE pc'[c] \notin {"receiving", "waiting"} /\ pc[c] \notin {"receiving", "waiting"}
        BY <3>2 DEF Out
      <3>3. QED
        BY <3>1, <3>2
    <2>2. Out(d)' = Out(d) /\ \A b \in Out(d) : want'[b] = want[b]
      BY <1>0, <2>1, OutElsewhere
    <2>3. QED
      BY <1>0, <2>2, PrivateKeep DEF AnswerInv
  <1>2. OwnAnswer'
    BY <1>0 DEF AnswerInv, OwnAnswer
  <1>3. QED
    BY <1>1, <1>2 DEF AnswerInv

LEMMA SameAnswer ==
  ASSUME SchedInv, UNCHANGED <<pc, want, rq, ans, mixed, foreign>>
  PROVE  AnswerInv'
  BY DEF SchedInv, AnswerInv, Private, Out, OwnAnswer

\* The handler turns the one request of a socketpair into the one answer.
LEMMA HandleAnswer ==
  ASSUME SchedInv, NEW k \in Core, schedule_request_handler(k)
  PROVE  AnswerInv'
  <1>0. CallTypeOK /\ AnswerInv
    BY DEF SchedInv, SchedTypeOK
  <1>1. /\ rq[k] # << >> /\ rq' = [rq EXCEPT ![k] = Tail(@)]
        /\ \E s : ans' = [ans EXCEPT ![k] = Append(@, <<Head(rq[k]), s>>)]
        /\ UNCHANGED <<pc, want, mixed, foreign>>
    BY DEF schedule_request_handler
  <1>2. \A d : Out(d)' = Out(d)
    BY <1>1 DEF Out
  <1>3. PICK s : ans' = [ans EXCEPT ![k] = Append(@, <<Head(rq[k]), s>>)]
    BY <1>1
  <1>4. ASSUME NEW d \in Core \ mixed PROVE Private(d)'
    <2>1. CASE d # k
      <3>1. rq'[d] = rq[d] /\ ans'[d] = ans[d]
        BY <1>0, <1>1, <1>3, <2>1 DEF CallTypeOK
      <3>2. QED
        BY <1>0, <1>1, <1>2, <3>1, PrivateKeep DEF AnswerInv
    <2>2. CASE d = k
      <3>1. Private(k)
        BY <1>0, <2>2 DEF AnswerInv
      <3>2. PICK c \in Out(k) : TRUE
        BY <1>1, <3>1 DEF Private
      <3>3. rq[k] = <<want[c][2]>> /\ ans[k] = << >>
        BY <1>1, <3>1, <3>2 DEF Private
      <3>4. rq'[k] = << >> /\ ans'[k] = <<<<want[c][2], s>>>>
        BY <1>0, <1>1, <1>3, <3>3 DEF CallTypeOK
      <3>5. Len(ans'[k]) = 1 /\ ans'[k][1][1] = want[c][2]
        BY <3>4
      <3>6. \A b \in Out(k) : b = c
        BY <3>1, <3>2 DEF Private
      <3>7. QED
        BY <1>1, <1>2, <2>2, <3>1, <3>2, <3>4, <3>5, <3>6 DEF Private
    <2>3. QED
      BY <2>1, <2>2
  <1>5. OwnAnswer'
    BY <1>0, <1>1 DEF AnswerInv, OwnAnswer
  <1>6. QED
    BY <1>1, <1>4, <1>5 DEF AnswerInv

\* A request goes to core k: when others use the socketpair too it counts as shared.
LEMMA SendAnswer ==
  ASSUME SchedInv, NEW c \in Caller, NEW k \in Core, NEW q \in Kinds, nj < MaxJobs, Send(c, k, q),
         pc[c] \in {"none", "locking"}, ans' = ans, mixed \subseteq mixed', mixed' \subseteq mixed \cup {k},
         k \in mixed' \/ (c \notin Jobs /\ ~\E d \in Caller : pc[d] # "none" /\ want[d][1] = k)
  PROVE  AnswerInv'
  <1>0. CallTypeOK /\ AnswerInv
    BY DEF SchedInv, SchedTypeOK
  <1>1. /\ rq'[k] = Append(rq[k], nj + 1) /\ \A l \in Core \ {k} : rq'[l] = rq[l]
        /\ pc'[c] = "receiving" /\ want'[c] = <<k, nj + 1>>
        /\ \A b \in Caller \ {c} : pc'[b] = pc[b] /\ want'[b] = want[b]
        /\ foreign' = foreign
    BY <1>0, SendFacts
  <1>2. ASSUME NEW d \in Core, d \notin mixed' PROVE Private(d)'
    <2>1. d \notin mixed /\ Private(d)
      BY <1>0, <1>2 DEF AnswerInv
    <2>2. c \notin Out(d)
      BY DEF Out
    <2>3. CASE d # k
      <3>1. c \notin Out(d)'
        BY <1>1, <2>3 DEF Out
      <3>2. Out(d)' = Out(d) /\ \A b \in Out(d) : want'[b] = want[b]
        BY <1>0, <1>1, <2>2, <3>1, OutElsewhere
      <3>3. QED
        BY <1>1, <2>1, <2>3, <3>2, PrivateKeep
    <2>4. CASE d = k
      <3>1. c \notin Jobs /\ \A b \in Caller : ~(pc[b] # "none" /\ want[b][1] = k)
        BY <1>2, <2>4
      <3>2. Out(k) = {}
        BY <3>1 DEF Out
      <3>3. rq[k] = << >> /\ ans[k] = << >>
        BY <2>1, <2>4, <3>2 DEF Private
      <3>4. \A b \in Caller \ {c} : b \notin Out(k)'
        BY <1>1, <3>1 DEF Out
      <3>5. Out(k)' = {c}
        BY <1>1, <3>4 DEF Out
      <3>6. rq'[k] = <<want'[c][2]>> /\ ans'[k] = << >>
        BY <1>1, <3>3
      <3>7. QED
        BY <2>4, <3>1, <3>5, <3>6 DEF Private
    <2>5. QED
      BY <2>3, <2>4
  <1>3. OwnAnswer'
    BY <1>0, <1>1 DEF AnswerInv, OwnAnswer
  <1>4. QED
    BY <1>2, <1>3 DEF AnswerInv

\* A plain thread takes the first answer.
LEMMA RecvAnswer ==
  ASSUME SchedInv, NEW c \in Caller \ Jobs, recv(c)
  PROVE  AnswerInv'
  <1>0. CallTypeOK /\ AnswerInv
    BY DEF SchedInv, SchedTypeOK
  <1>1. PICK d \in Core : d = want[c][1]
    BY <1>0 DEF CallTypeOK
  <1>2. /\ pc[c] = "receiving" /\ ans[d] # << >> /\ ans' = [ans EXCEPT ![d] = Tail(@)]
        /\ Return(c, Head(ans[d])[1]) /\ rq' = rq
    BY <1>1 DEF recv
  <1>3. \A e \in Core : e # d => rq'[e] = rq[e] /\ ans'[e] = ans[e]
    BY <1>0, <1>2 DEF CallTypeOK
  <1>4. CASE d \in mixed
    BY <1>1, <1>2, <1>3, <1>4, ReturnAnswer
  <1>5. CASE d \notin mixed
    <2>1. /\ pc'[c] = "none" /\ mixed' = mixed
          /\ \A b \in Caller \ {c} : pc'[b] = pc[b] /\ want'[b] = want[b]
      BY <1>0, <1>2, ReturnFacts
    <2>2. Private(d) /\ c \in Out(d)
      BY <1>0, <1>1, <1>2, <1>5 DEF AnswerInv, Out
    <2>3. rq[d] = << >> /\ Len(ans[d]) = 1 /\ ans[d][1][1] = want[c][2]
      BY <1>2, <2>2 DEF Private
    <2>4. ans[d] \in Seq(Job \X {"ok", "EBUSY", "ENOMEM", "EPERM"})
      BY <1>0 DEF CallTypeOK
    <2>5. Head(ans[d])[1] = want[c][2] /\ Tail(ans[d]) = << >>
      <3>1. Head(ans[d]) = ans[d][1] /\ Tail(ans[d]) \in Seq(Job \X {"ok", "EBUSY", "ENOMEM", "EPERM"})
            /\ Len(Tail(ans[d])) = 0
        BY <1>2, <2>3, <2>4, HeadTailProperties
      <3>2. QED
        BY <2>3, <3>1, EmptySeq
    <2>6. foreign' = foreign
      BY <1>2, <2>5 DEF Return
    <2>7. Out(d)' = {}
      BY <2>1, <2>2 DEF Private, Out
    <2>8. Private(d)'
      BY <1>0, <1>2, <2>3, <2>5, <2>7 DEF Private, CallTypeOK
    <2>9. ASSUME NEW e \in Core \ mixed, e # d PROVE Private(e)'
      <3>1. c \notin Out(e) /\ c \notin Out(e)'
        BY <1>1, <2>1, <2>9 DEF Out
      <3>2. Out(e)' = Out(e) /\ \A b \in Out(e) : want'[b] = want[b]
        BY <1>0, <2>1, <3>1, OutElsewhere
      <3>3. QED
        BY <1>0, <1>3, <2>9, <3>2, PrivateKeep DEF AnswerInv
    <2>10. QED
      BY <1>0, <2>1, <2>6, <2>8, <2>9 DEF AnswerInv, OwnAnswer
  <1>6. QED
    BY <1>4, <1>5

-----------------------------------------------------------------------------
(* The steps.                                                              *)

Rest == CoresInv /\ Sorts /\ Requests /\ AnswerInv

\* A step of a core that makes and answers no call.
LEMMA QuietStep ==
  ASSUME SchedInv, CoresInv', UNCHANGED <<nj, kind, pc, rq, want, ans, mixed, foreign>>,
         alive' \subseteq alive, polled' \subseteq polled
  PROVE  Rest'
  <1>1. nj \in Nat
    BY SchedAssumption DEF SchedInv, SchedTypeOK, CallTypeOK
  <1>2. Sorts'
    BY <1>1, SortsKeep
  <1>3. Requests'
    BY RequestsKeep
  <1>4. AnswerInv'
    BY SameAnswer
  <1>5. QED
    BY <1>2, <1>3, <1>4 DEF Rest

LEMMA CoreStepInv ==
  ASSUME SchedInv, NEW k \in Core, CoreStep(k) \/ JobStep(k)
  PROVE  Rest'
  <1>0. /\ SwitchTypeOK /\ ListTypeOK /\ CallTypeOK /\ Lists(k) /\ Places(k) /\ Ends(k) /\ Alive(k) /\ Sorts
        /\ queue[k] \in Seq(Coroutine) /\ waiters[k] \in Seq(Coroutine) /\ batch[k] \in Seq(Coroutine)
        /\ nj \in Nat
    <2>1. /\ SwitchTypeOK /\ ListTypeOK /\ CallTypeOK /\ Lists(k) /\ Places(k) /\ Ends(k) /\ Alive(k)
          /\ Sorts
      BY DEF SchedInv, SchedTypeOK, CoresInv, CoreInv
    <2>2. queue[k] \in Seq(Coroutine) /\ waiters[k] \in Seq(Coroutine) /\ batch[k] \in Seq(Coroutine)
      BY <2>1 DEF ListTypeOK
    <2>3. nj \in Nat
      <3>1. nj \in 0..MaxJobs /\ MaxJobs \in Nat
        BY <2>1, SchedAssumption DEF ListTypeOK, CallTypeOK
      <3>2. QED
        BY <3>1
    <2>4. QED
      BY <2>1, <2>2, <2>3
  <1>job. ASSUME IsJob(k)
          PROVE  /\ curr[k] \in Caller /\ curr[k] \in Jobs /\ want[curr[k]][1] \in Core
                 /\ \E j \in Job : curr[k] = Co(j) /\ j <= nj /\ KindOf(curr[k]) = kind[j]
    <2>1. PICK j \in Job : curr[k] = Co(j)
      BY <1>job DEF IsJob
    <2>2. j <= nj /\ KindOf(curr[k]) = kind[j]
      BY <2>1, OfWhere, Names DEF KindOf
    <2>3. QED
      BY <1>0, <2>1, <2>2, Names DEF CallTypeOK
  <1>callers. ASSUME IsJob(k), pc[curr[k]] # "none" PROVE KindOf(curr[k]) = "thread"
    BY <1>0, <1>job, <1>callers DEF Sorts
  <1>nowaiter. ASSUME curr[k] = Rqh(k) \/ (IsJob(k) /\ KindOf(curr[k]) = "thread")
               PROVE  curr[k] \notin ToSet(waiters[k]) /\ curr[k] \in {Rqh(k)} \cup Jobs
    <2>1. CASE curr[k] = Rqh(k)
      BY <1>0, <2>1, Names DEF Places
    <2>2. CASE IsJob(k) /\ KindOf(curr[k]) = "thread"
      BY <1>0, <1>job, <2>2, Names DEF Places
    <2>3. QED
      BY <1>nowaiter, <2>1, <2>2
  <1>sleep. ASSUME NEW a, NEW b, Sleep(k, a, b), curr[k] = Rqh(k) \/ (IsJob(k) /\ KindOf(curr[k]) = "thread"),
                   UNCHANGED <<ncpu, queue, batch, nj, kind, accepted>>
            PROVE  CoresInv' /\ alive' = alive
    <2>1. curr[k] \notin ToSet(waiters[k]) /\ curr[k] \in {Rqh(k)} \cup Jobs
      BY <1>sleep, <1>nowaiter
    <2>2. /\ ToSet(waiters'[k]) = ToSet(waiters[k]) \cup {curr[k]} /\ IsInjective(waiters'[k])
          /\ \A l \in Core \ {k} : waiters'[l] = waiters[l]
          /\ Switch(k, Main(k)) /\ dhelper' = dhelper /\ alive' = alive
      BY <1>0, <1>sleep, <2>1, SleepFacts DEF Lists
    <2>3. QED
      BY <1>sleep, <2>1, <2>2, Leave
  <1>1. ASSUME pclthread_start(k) PROVE Rest'
    <2> DEFINE t == Head(queue[k])
    <2>1. /\ k <= ncpu /\ curr[k] = Main(k) /\ queue[k] # << >>
          /\ Switch(k, t) /\ queue' = [queue EXCEPT ![k] = Tail(queue[k])]
          /\ accepted' = {j \in accepted : Co(j) # t}
          /\ UNCHANGED <<ncpu, dhelper, alive, nj, kind, waiters, batch, pc, rq, want, ans, mixed, foreign, polled>>
      BY <1>1 DEF pclthread_start, Running, co_call, waitVars, pairVars
    <2>2. /\ t \in ToSet(queue[k]) /\ ToSet(queue[k]) = {t} \cup ToSet(Tail(queue[k]))
          /\ t \notin ToSet(Tail(queue[k])) /\ IsInjective(Tail(queue[k]))
          /\ Len(Tail(queue[k])) = Len(queue[k]) - 1
      BY <1>0, <2>1, TailList DEF Lists
    <2> HIDE DEF t
    <2>3. queue'[k] = Tail(queue[k]) /\ \A l \in Core \ {k} : queue'[l] = queue[l]
      BY <1>0, <2>1 DEF ListTypeOK
    <2>4. ToSet(queue'[k]) = ToSet(queue[k]) \ {t}
      BY <2>2, <2>3
    <2>5. t \notin ToSet(waiters[k]) /\ t \notin ToSet(batch[k])
      BY <1>0, <2>2 DEF Places
    <2>6. Lists(k)'
      BY <1>0, <2>1, <2>2, <2>3, SchedAssumption DEF Lists
    <2>7. CoresInv'
      BY <2>1, <2>2, <2>3, <2>4, <2>5, <2>6, Enter
    <2>8. QED
      BY <2>1, <2>7, QuietStep
  <1>2. ASSUME pclthread_walk(k) PROVE Rest'
    <2>1. UNCHANGED <<nj, kind, pc, rq, want, ans, mixed, foreign, alive, polled>>
      BY <1>2 DEF pclthread_walk, switchVars, pairVars, callVars
    <2>2. QED
      BY <1>2, <2>1, Walk, QuietStep
  <1>3. ASSUME pclthread_resume(k) PROVE Rest'
    <2> DEFINE t == Head(batch[k])
    <2>1. /\ k <= ncpu /\ curr[k] = Main(k) /\ batch[k] # << >>
          /\ Switch(k, t) /\ batch' = [batch EXCEPT ![k] = Tail(batch[k])]
          /\ accepted' = {j \in accepted : Co(j) # t}
          /\ \/ t[1] = "job" /\ t[2] \in polled /\ waiters' = waiters
             \/ remove_waiter(k, t)
          /\ UNCHANGED <<ncpu, dhelper, alive, nj, kind, queue, pc, rq, want, ans, mixed, foreign, polled>>
      BY <1>3 DEF pclthread_resume, Running, co_call, waitVars, pairVars
    <2>2. /\ t \in ToSet(batch[k]) /\ ToSet(batch[k]) = {t} \cup ToSet(Tail(batch[k]))
          /\ t \notin ToSet(Tail(batch[k])) /\ IsInjective(Tail(batch[k]))
      BY <1>0, <2>1, TailList DEF Lists
    <2> HIDE DEF t
    <2>3. batch'[k] = Tail(batch[k]) /\ \A l \in Core \ {k} : batch'[l] = batch[l]
      BY <1>0, <2>1 DEF ListTypeOK
    <2>4. ToSet(batch'[k]) = ToSet(batch[k]) \ {t}
      BY <2>2, <2>3
    <2>5. t \in ToSet(waiters[k]) /\ t \notin ToSet(queue[k]) /\ t \in {Rqh(k)} \cup Jobs
      BY <1>0, <2>2 DEF Places
    <2>6. /\ \/ ToSet(waiters'[k]) = ToSet(waiters[k]) \ {t}
             \/ ToSet(waiters'[k]) = ToSet(waiters[k]) /\ \E j \in polled : t = Co(j)
          /\ IsInjective(waiters'[k]) /\ \A l \in Core \ {k} : waiters'[l] = waiters[l]
      <3>1. CASE remove_waiter(k, t)
        BY <1>0, <3>1, RemoveFacts DEF Lists
      <3>2. CASE t[1] = "job" /\ t[2] \in polled /\ waiters' = waiters
        <4>1. t = Co(t[2])
          BY <2>5, <3>2, Names
        <4>2. QED
          BY <1>0, <3>2, <4>1 DEF Lists
      <3>3. QED
        BY <2>1, <3>1, <3>2
    <2>7. Lists(k)'
      BY <1>0, <2>1, <2>2, <2>3, <2>6 DEF Lists
    <2>8. CoresInv'
      BY <2>1, <2>2, <2>3, <2>4, <2>5, <2>6, <2>7, Enter
    <2>9. QED
      BY <2>1, <2>8, QuietStep
  <1>4. ASSUME co_del_helper(k) PROVE Rest'
    <2>1. UNCHANGED <<nj, kind, pc, rq, want, ans, mixed, foreign, polled>> /\ alive' \subseteq alive
      BY <1>4 DEF co_del_helper, pairVars, callVars
    <2>2. QED
      BY <1>4, <2>1, DelHelper, QuietStep
  <1>5. ASSUME schedule_request_wait(k) PROVE Rest'
    <2>1. /\ Sleep(k, FALSE, FALSE) /\ curr[k] = Rqh(k)
          /\ UNCHANGED <<ncpu, queue, batch, nj, kind, accepted, pc, rq, want, ans, mixed, foreign, polled>>
      BY <1>5 DEF schedule_request_wait, coreVars, pairVars, callVars
    <2>2. CoresInv' /\ alive' = alive
      BY <1>sleep, <2>1
    <2>3. QED
      BY <2>1, <2>2, QuietStep
  <1>6. ASSUME schedule_request_handler(k) PROVE Rest'
    <2> DEFINE j == Head(rq[k])
    <2>1. /\ UNCHANGED <<nj, kind, pc>> /\ rq[k] # << >>
          /\ polled' = polled \/ (polled' = polled \cup {j} /\ kind[j] = "io")
      BY <1>6 DEF schedule_request_handler
    <2>2. j \in Job /\ j <= nj
      <3>1. rq[k] \in Seq(Job)
        BY <1>0 DEF CallTypeOK
      <3>2. 1 \in DOMAIN rq[k] /\ Head(rq[k]) = rq[k][1] /\ rq[k][1] \in Job
        BY <2>1, <3>1, HeadTailProperties, EmptySeq
      <3>3. QED
        BY <3>2 DEF SchedInv, Requests
    <2> HIDE DEF j
    <2>3. Sorts'
      BY <1>0, <2>1, <2>2, SortsKeep
    <2>4. QED
      BY <1>6, <2>3, Handle, HandleRequests, HandleAnswer DEF Rest
  <1>7. ASSUME co_scheduler_lock(k) PROVE Rest'
    <2> DEFINE c == curr[k]  d == want[c][1]
    <2>1. IsJob(k) /\ pc[c] = "locking"
      BY <1>7 DEF co_scheduler_lock
    <2>2. c \in Caller /\ c \in Jobs /\ d \in Core /\ KindOf(c) = "thread"
      BY <1>job, <1>callers, <2>1
    <2>3. CASE Sleep(k, TRUE, TRUE) /\ UNCHANGED <<pairVars, callVars>>
      <3>1. CoresInv' /\ alive' = alive
        BY <1>7, <1>sleep, <2>1, <2>2, <2>3 DEF co_scheduler_lock, coreVars, callVars
      <3>2. QED
        BY <2>3, <3>1, QuietStep DEF pairVars, callVars
    <2>4. CASE /\ nj < MaxJobs /\ (\E q \in Kinds : Send(c, d, q)) /\ mixed' = mixed \cup {d}
               /\ UNCHANGED <<ans, switchVars, waitVars>>
      <3>1. PICK q \in Kinds : Send(c, d, q)
        BY <2>4
      <3>2. /\ nj' = nj + 1 /\ polled' = polled /\ accepted' = accepted
            /\ \A b \in Caller \ {c} : pc'[b] = pc[b]
            /\ \A j \in Job : j <= nj => kind'[j] = kind[j]
        BY <1>0, <2>2, <2>4, <3>1, SendFacts
      <3>3. UNCHANGED <<ncpu, switchVars, queue, waiters, batch>> /\ alive' = alive
        BY <1>7, <2>4 DEF co_scheduler_lock, coreVars, waitVars, switchVars
      <3>4. rq' = [rq EXCEPT ![d] = Append(@, nj + 1)]
        BY <3>1 DEF Send
      <3>5. AnswerInv'
        BY <2>1, <2>2, <2>4, <3>1, SendAnswer
      <3> HIDE DEF c, d
      <3>6. CoresInv'
        BY <1>0, <3>2, <3>3, CoresSame
      <3>7. Sorts'
        <4>1. \A j \in Job : pc'[Co(j)] # "none" => pc[Co(j)] # "none"
          BY <2>1, <3>2, Names
        <4>2. QED
          BY <1>0, <3>2, <4>1, SortsKeep
      <3>8. Requests'
        BY <2>2, <2>4, <3>2, <3>3, <3>4, SendRequests
      <3>9. QED
        BY <3>5, <3>6, <3>7, <3>8 DEF Rest
    <2>5. QED
      BY <1>7, <2>3, <2>4 DEF co_scheduler_lock
  \* A call of a coroutine goes on or returns.
  <1>call. ASSUME IsJob(k), pc[curr[k]] # "none", AnswerInv', CoresInv', UNCHANGED <<nj, kind, polled, rq, alive>>,
                  \A b \in Caller \ {curr[k]} : pc'[b] = pc[b]
           PROVE  Rest'
    <2>1. \A j \in Job : pc'[Co(j)] # "none" => pc[Co(j)] # "none"
      BY <1>call, Names
    <2>2. Sorts'
      BY <1>0, <1>call, <2>1, SortsKeep
    <2>3. Requests'
      BY <1>call, RequestsKeep
    <2>4. QED
      BY <1>call, <2>2, <2>3 DEF Rest
  <1>8. ASSUME co_recv(k) PROVE Rest'
    <2> DEFINE c == curr[k]  d == want[c][1]
    <2>1. IsJob(k) /\ pc[c] = "receiving"
      BY <1>8 DEF co_recv
    <2>2. c \in Caller /\ c \in Jobs /\ d \in Core /\ KindOf(c) = "thread"
      BY <1>job, <1>callers, <2>1
    <2>3. UNCHANGED <<ncpu, queue, batch, rq>>
      BY <1>8 DEF co_recv, coreVars
    <2>4. CASE /\ ans' = [ans EXCEPT ![d] = Tail(@)] /\ Return(c, Head(ans[d])[1])
               /\ UNCHANGED <<switchVars, waitVars>>
      <3>1. /\ UNCHANGED <<nj, kind, accepted, polled, mixed>>
            /\ \A b \in Caller \ {c} : pc'[b] = pc[b]
        BY <1>0, <2>2, <2>4, ReturnFacts
      <3>2. \A e \in Core : e # d => rq'[e] = rq[e] /\ ans'[e] = ans[e]
        BY <1>0, <2>2, <2>3, <2>4 DEF CallTypeOK
      <3>3. AnswerInv'
        BY <2>1, <2>2, <2>4, <3>2, JobsMix, ReturnAnswer
      <3>4. CoresInv'
        BY <1>0, <2>3, <2>4, <3>1, CoresSame DEF waitVars
      <3>5. QED
        BY <1>call, <2>1, <2>3, <2>4, <3>1, <3>3, <3>4 DEF switchVars
    <2>5. CASE /\ Sleep(k, TRUE, FALSE) /\ pc' = [pc EXCEPT ![c] = "waiting"]
               /\ UNCHANGED <<want, nj, kind, accepted, polled, mixed, foreign, ans, csbusy>>
      <3>1. CoresInv' /\ alive' = alive
        BY <1>sleep, <2>1, <2>2, <2>3, <2>5
      <3>2. \A b \in Caller \ {c} : pc'[b] = pc[b] /\ want'[b] = want[b]
        BY <1>0, <2>5 DEF CallTypeOK
      <3>3. AnswerInv'
        BY <2>1, <2>2, <2>3, <2>5, <3>2, MoveAnswer
      <3>4. QED
        BY <1>call, <2>1, <2>3, <2>5, <3>1, <3>2, <3>3
    <2>6. QED
      BY <1>8, <2>4, <2>5 DEF co_recv
  <1>9. ASSUME co_recv_resume(k) PROVE Rest'
    <2> DEFINE c == curr[k]  d == want[c][1]
    <2>1. IsJob(k) /\ pc[c] = "waiting"
      BY <1>9 DEF co_recv_resume
    <2>2. c \in Caller /\ c \in Jobs /\ d \in Core
      BY <1>job, <2>1
    <2>3. UNCHANGED <<ncpu, switchVars, waiters, queue, batch, rq, ans, alive>>
      BY <1>9 DEF co_recv_resume, coreVars, switchVars
    <2>4. CASE /\ pc' = [pc EXCEPT ![c] = "receiving"]
               /\ UNCHANGED <<want, nj, kind, accepted, polled, mixed, foreign, csbusy>>
      <3>1. \A b \in Caller \ {c} : pc'[b] = pc[b] /\ want'[b] = want[b]
        BY <1>0, <2>4 DEF CallTypeOK
      <3>2. AnswerInv'
        BY <2>1, <2>2, <2>3, <2>4, <3>1, MoveAnswer
      <3>3. CoresInv'
        BY <1>0, <2>3, <2>4, CoresSame
      <3>4. QED
        BY <1>call, <2>1, <2>3, <2>4, <3>1, <3>2, <3>3
    <2>5. CASE Return(c, 0)
      <3>1. /\ UNCHANGED <<nj, kind, accepted, polled, mixed>>
            /\ \A b \in Caller \ {c} : pc'[b] = pc[b]
        BY <1>0, <2>2, <2>5, ReturnFacts
      <3>2. AnswerInv'
        BY <2>1, <2>2, <2>3, <2>5, JobsMix, ReturnAnswer
      <3>3. CoresInv'
        BY <1>0, <2>3, <3>1, CoresSame
      <3>4. QED
        BY <1>call, <2>1, <2>3, <3>1, <3>2, <3>3
    <2>6. QED
      BY <1>9, <2>4, <2>5 DEF co_recv_resume
  <1>10. ASSUME iocb_handler(k) PROVE Rest'
    <2>1. /\ IsJob(k) /\ polled' \subseteq polled
          /\ UNCHANGED <<ncpu, queue, batch, nj, kind, accepted, pc, rq, want, ans, mixed, foreign>>
      BY <1>10 DEF iocb_handler, coreVars, pairVars
    <2>2. curr[k] \in Jobs
      BY <1>job, <2>1
    <2>3. CASE co_call(k, Main(k)) /\ UNCHANGED <<alive, waitVars>>
      <3>1. Switch(k, Main(k)) /\ UNCHANGED <<dhelper, alive, waiters>>
        BY <2>3 DEF co_call, waitVars
      <3>2. CoresInv'
        BY <1>0, <2>1, <2>2, <3>1, Leave DEF Lists
      <3>3. QED
        BY <2>1, <3>1, <3>2, QuietStep
    <2>4. CASE remove_waiter(k, curr[k]) /\ co_exit(k)
      <3>1. /\ ToSet(waiters'[k]) = ToSet(waiters[k]) \ {curr[k]} /\ IsInjective(waiters'[k])
            /\ \A l \in Core \ {k} : waiters'[l] = waiters[l]
        BY <1>0, <2>4, RemoveFacts DEF Lists
      <3>2. CoresInv' /\ alive' = alive
        BY <2>1, <2>2, <2>4, <3>1, Exit DEF co_exit
      <3>3. QED
        BY <2>1, <3>2, QuietStep
    <2>5. QED
      BY <1>10, <2>3, <2>4 DEF iocb_handler
  <1>11. ASSUME co_sleep(k) PROVE Rest'
    <2>1. PICK y \in BOOLEAN : Sleep(k, y, y)
      BY <1>11 DEF co_sleep
    <2>2. /\ IsJob(k) /\ KindOf(curr[k]) = "thread"
          /\ UNCHANGED <<ncpu, queue, batch, nj, kind, accepted, pc, rq, want, ans, mixed, foreign, polled>>
      BY <1>11 DEF co_sleep, coreVars, pairVars, callVars
    <2>3. CoresInv' /\ alive' = alive
      BY <1>sleep, <2>1, <2>2
    <2>4. QED
      BY <2>2, <2>3, QuietStep
  <1>12. ASSUME co_schedule_in_co(k) PROVE Rest'
    <2> DEFINE c == curr[k]
    <2>1. /\ IsJob(k) /\ KindOf(c) = "thread" /\ pc[c] = "none" /\ pc' = [pc EXCEPT ![c] = "locking"]
          /\ \E d \in Core : want' = [want EXCEPT ![c] = <<d, 0>>]
          /\ UNCHANGED <<ncpu, switchVars, waiters, queue, batch, nj, kind, accepted, rq, ans, mixed, foreign,
                         polled, alive>>
      BY <1>12 DEF co_schedule_in_co, switchVars, waitVars, coreVars, pairVars
    <2>2. c \in Caller /\ c \in Jobs /\ \E j \in Job : c = Co(j) /\ j <= nj /\ kind[j] = "thread"
      BY <1>job, <2>1
    <2> HIDE DEF c
    <2>3. (\A b \in Caller \ {c} : pc'[b] = pc[b] /\ want'[b] = want[b]) /\ pc'[c] = "locking"
      BY <1>0, <2>1, <2>2 DEF CallTypeOK
    <2>4. AnswerInv'
      BY <2>1, <2>2, <2>3, MoveAnswer
    <2>5. CoresInv'
      BY <1>0, <2>1, CoresSame
    <2>6. \A j \in Job : pc'[Co(j)] # "none" => pc[Co(j)] # "none" \/ (j <= nj /\ kind[j] = "thread")
      BY <2>2, <2>3, Names
    <2>7. Sorts'
      BY <1>0, <2>1, <2>6, SortsKeep
    <2>8. Requests'
      BY <2>1, RequestsKeep
    <2>9. QED
      BY <2>4, <2>5, <2>7, <2>8 DEF Rest
  <1>13. ASSUME co_runner(k) PROVE Rest'
    <2>1. /\ IsJob(k) /\ KindOf(curr[k]) = "thread" /\ co_exit(k)
          /\ UNCHANGED <<ncpu, queue, waiters, batch, nj, kind, accepted, pc, rq, want, ans, mixed, foreign, polled>>
      BY <1>13 DEF co_runner, waitVars, coreVars, pairVars, callVars
    <2>2. curr[k] \in Jobs /\ curr[k] \notin ToSet(waiters[k])
      BY <1>job, <1>nowaiter, <2>1
    <2>3. CoresInv' /\ alive' = alive
      BY <1>0, <2>1, <2>2, Exit DEF Lists, co_exit
    <2>4. QED
      BY <2>1, <2>3, QuietStep
  <1>14. QED
    BY <1>1, <1>2, <1>3, <1>4, <1>5, <1>6, <1>7, <1>8, <1>9, <1>10, <1>11, <1>12, <1>13
       DEF CoreStep, JobStep

LEMMA ThreadStepInv ==
  ASSUME SchedInv, NEW c \in Caller \ Jobs, co_schedule(c) \/ recv(c)
  PROVE  Rest'
  <1>0. CallTypeOK /\ nj \in Nat
    BY SchedAssumption DEF SchedInv, SchedTypeOK, CallTypeOK
  <1>1. UNCHANGED <<ncpu, switchVars, queue, waiters, batch, alive>>
    BY DEF co_schedule, recv, switchVars, waitVars, coreVars
  <1>2. \A j \in Job : Co(j) \in Caller \ {c}
    BY Names
  <1>3. ASSUME co_schedule(c) PROVE Rest'
    <2>1. PICK k \in Core, q \in Kinds : Send(c, k, q)
             /\ mixed' = IF \E d \in Caller : pc[d] # "none" /\ want[d][1] = k THEN mixed \cup {k} ELSE mixed
      BY <1>3 DEF co_schedule
    <2>2. nj < MaxJobs /\ ans' = ans /\ pc[c] = "none"
      BY <1>3 DEF co_schedule
    <2>3. /\ nj' = nj + 1 /\ polled' = polled /\ accepted' = accepted
          /\ \A b \in Caller \ {c} : pc'[b] = pc[b]
          /\ \A j \in Job : j <= nj => kind'[j] = kind[j]
      BY <1>0, <2>1, <2>2, SendFacts
    <2>4. rq' = [rq EXCEPT ![k] = Append(@, nj + 1)]
      BY <2>1 DEF Send
    <2>5. k \in mixed' \/ ~\E d \in Caller : pc[d] # "none" /\ want[d][1] = k
      BY <2>1
    <2>6. mixed \subseteq mixed' /\ mixed' \subseteq mixed \cup {k}
      BY <2>1
    <2>7. AnswerInv'
      BY <2>1, <2>2, <2>5, <2>6, SendAnswer
    <2>8. CoresInv'
      BY <1>0, <1>1, <2>3, CoresSame
    <2>9. Sorts'
      BY <1>0, <1>2, <2>3, SortsKeep
    <2>10. Requests'
      BY <1>1, <2>2, <2>3, <2>4, SendRequests
    <2>11. QED
      BY <2>7, <2>8, <2>9, <2>10 DEF Rest
  <1>4. ASSUME recv(c) PROVE Rest'
    <2>1. rq' = rq /\ Return(c, Head(ans[want[c][1]])[1])
      BY <1>4 DEF recv
    <2>2. /\ UNCHANGED <<nj, kind, accepted, polled>> /\ \A b \in Caller \ {c} : pc'[b] = pc[b]
      BY <1>0, <2>1, ReturnFacts
    <2>3. CoresInv'
      BY <1>0, <1>1, <2>2, CoresSame
    <2>4. Sorts'
      BY <1>0, <1>2, <2>2, SortsKeep
    <2>5. Requests'
      BY <1>1, <2>1, <2>2, RequestsKeep
    <2>6. QED
      BY <1>4, <2>3, <2>4, <2>5, RecvAnswer DEF Rest
  <1>5. QED
    BY <1>3, <1>4

LEMMA SchedStep == SchedInv /\ [Next]_vars => SchedInv'
  <1> SUFFICES ASSUME SchedInv, [Next]_vars PROVE SchedInv'
    OBVIOUS
  <1>0. CallTypeOK /\ nj \in Nat
    BY SchedAssumption DEF SchedInv, SchedTypeOK, CallTypeOK
  <1>same. ASSUME UNCHANGED <<ncpu, switchVars, waiters, queue, batch, pairVars, callVars>> PROVE Rest'
    <2>1. UNCHANGED <<alive, nj, kind, accepted, polled, pc, rq, want, ans, mixed, foreign>>
      BY <1>same DEF switchVars, pairVars, callVars
    <2>2. CoresInv'
      BY <1>0, <1>same, <2>1, CoresSame
    <2>3. QED
      BY <2>1, <2>2, QuietStep
  <1>1. ASSUME new_pcl_thread PROVE SchedInv'
    <2>1. UNCHANGED <<nj, kind, pc, rq, want, ans, mixed, foreign, polled>>
      BY <1>1 DEF new_pcl_thread, pairVars, callVars
    <2>2. alive' \cap Jobs \subseteq alive
      <3>1. PICK k \in Core : k = ncpu + 1
        BY <1>1, SchedAssumption DEF new_pcl_thread, SchedInv, SchedTypeOK, SwitchTypeOK, Core
      <3>2. alive' = alive \cup {Main(k), Rqh(k), Helper(k)}
        BY <1>1, <3>1 DEF new_pcl_thread
      <3>3. QED
        BY <3>2, Names
    <2>3. Sorts' /\ Requests' /\ AnswerInv'
      BY <1>0, <2>1, <2>2, SortsKeep, RequestsKeep, SameAnswer
    <2>4. QED
      BY <1>1, <2>3, NewCore DEF SchedInv
  <1>2. ASSUME co_scheduler_init \/ UNCHANGED vars PROVE SchedInv'
    <2>1. UNCHANGED <<ncpu, switchVars, waiters, queue, batch, pairVars, callVars>>
      BY <1>2 DEF co_scheduler_init, vars, waitVars, coreVars
    <2>2. SchedTypeOK'
      BY <2>1 DEF SchedInv, SchedTypeOK, SwitchTypeOK, ListTypeOK, CallTypeOK, switchVars, pairVars, callVars
    <2>3. QED
      BY <1>same, <2>1, <2>2 DEF SchedInv, Rest
  <1>3. ASSUME NEW k \in Core, CoreStep(k) \/ JobStep(k) PROVE SchedInv'
    BY <1>3, CoreStepType, CoreStepInv DEF SchedInv, Rest
  <1>4. ASSUME NEW k \in Core, Listen(k) \/ \E t \in Coroutine : clock(k, t) PROVE SchedInv'
    BY <1>4, <1>same, OtherStepType DEF SchedInv, Rest
  <1>5. ASSUME NEW p \in PThread, co_schedule(<<"pthread", p>>) \/ recv(<<"pthread", p>>) PROVE SchedInv'
    BY <1>5, Names, ThreadStepType, ThreadStepInv DEF SchedInv, Rest
  <1>6. QED
    BY <1>1, <1>2, <1>3, <1>4, <1>5 DEF Next

LEMMA SchedInit == Init => SchedInv
  <1> SUFFICES ASSUME Init PROVE SchedInv
    OBVIOUS
  <1>1. SchedTypeOK
    <2>1. SwitchTypeOK
      BY Names, SchedAssumption DEF Init, SwitchTypeOK
    <2>2. ListTypeOK
      BY DEF Init, ListTypeOK
    <2>3. NoRequest \in Core \X (0..MaxJobs)
      BY SchedAssumption DEF NoRequest, Core
    <2>4. CallTypeOK
      BY <2>3, SchedAssumption DEF Init, CallTypeOK
    <2>5. QED
      BY <2>1, <2>2, <2>4 DEF SchedTypeOK
  <1>2. ASSUME NEW k \in Core
        PROVE  /\ curr[k] = Main(k) /\ queue[k] = << >> /\ waiters[k] = << >> /\ batch[k] = << >>
               /\ Of(k) = {Main(k)} /\ ncpu = 0 /\ k > ncpu /\ ~(k <= ncpu)
    <2>1. curr[k] = Main(k) /\ queue[k] = << >> /\ waiters[k] = << >> /\ batch[k] = << >> /\ ncpu = 0
      BY DEF Init
    <2>2. Of(k) = {Main(k)}
      BY <2>1, Names, EmptyList DEF Of, Dying
    <2>3. QED
      BY <2>1, <2>2, SchedAssumption DEF Core
  <1>3. ASSUME NEW k \in Core PROVE CoreInv(k)
    <2>1. Lists(k) /\ Places(k)
      BY <1>2, EmptyList, SchedAssumption DEF Lists, Places
    <2>2. Ends(k) /\ Alive(k)
      BY <1>2, Names DEF Ends, Alive
    <2>3. QED
      BY <2>1, <2>2 DEF CoreInv
  <1>4. Apart
    <2> SUFFICES ASSUME NEW k \in Core, NEW l \in Core \ {k} PROVE Of(k) \cap Of(l) = {}
      BY DEF Apart
    <2> QED
      BY <1>2, TwoCores
  <1>5. Born /\ Promised
    BY Names DEF Init, Born, Promised
  <1>6. Sorts /\ Requests
    BY Names DEF Init, Sorts, Requests
  <1>7. AnswerInv
    <2>1. \A d : Out(d) = {}
      BY DEF Init, Out
    <2>2. \A d \in Core : rq[d] = << >> /\ ans[d] = << >>
      BY DEF Init
    <2>3. QED
      BY <2>1, <2>2 DEF Init, AnswerInv, Private, OwnAnswer
  <1>8. QED
    BY <1>1, <1>3, <1>4, <1>5, <1>6, <1>7 DEF SchedInv, CoresInv

LEMMA SchedAlways == Spec => []SchedInv
  BY SchedInit, SchedStep, PTL DEF Spec

-----------------------------------------------------------------------------
(* Theorems.                                                               *)

\* Whatever the cores, the requests and the callbacks do, no core runs, or will run, a
\* coroutine whose stack co_del_helper() has freed.
THEOREM OnlyLivingRun == Spec => []NoDeadCoroutine
  <1>1. SchedInv => NoDeadCoroutine
    <2> SUFFICES ASSUME SchedInv, NEW k \in Core
                 PROVE  ({curr[k]} \cup ToSet(queue[k]) \cup ToSet(waiters[k]) \cup ToSet(batch[k]))
                          \ {Main(k)} \subseteq alive
      BY DEF NoDeadCoroutine
    <2>1. Alive(k)
      BY DEF SchedInv, CoresInv, CoreInv
    <2>2. QED
      BY <2>1, OfWhere DEF Alive
  <1>2. QED
    BY <1>1, SchedAlways, PTL

\* A request that schedule_request_handler() answered with success has its coroutine
\* in a queue or in a list of waiters until the coroutine runs.
THEOREM PromisesKept == Spec => []NoLostStart
  <1>1. SchedInv => NoLostStart
    BY DEF SchedInv, CoresInv, Promised, NoLostStart
  <1>2. QED
    BY <1>1, SchedAlways, PTL

\* send_schedule_request() of a plain thread that shares its core's socketpair with
\* nobody returns the status of its own request.
THEOREM OwnAnswers == Spec => []OwnAnswer
  <1>1. SchedInv => OwnAnswer
    BY DEF SchedInv, AnswerInv
  <1>2. QED
    BY <1>1, SchedAlways, PTL
=============================================================================
