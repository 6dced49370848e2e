------------------------------ MODULE CoSched ------------------------------
(***************************************************************************)
(* The coroutine scheduler: cores that start, resume and end coroutines,   *)
(* and the requests that create them (src/src/cothread/co-scheduler.c,     *)
(* lines 290-1003) on top of the switching of co-thread.c.                 *)
(*                                                                         *)
(* A core is a pthread (pclthread) that runs one coroutine at a time: its  *)
(* main coroutine, the request handler, and those the requests created.    *)
(* A request goes through the core's socketpair to the handler, and its    *)
(* status comes back the same way.  Plain threads wait for it with a       *)
(* blocking recv(); coroutines with co_recv(), whose timeout is the        *)
(* socket's SO_RCVTIMEO, which nobody sets: 0 ms.                          *)
(*                                                                         *)
(* Coroutine j is the one the j-th request asks for.  A coroutine has at   *)
(* most one waiter in its core's list here, so waiters are named by it.    *)
(***************************************************************************)
EXTENDS Integers, Sequences, FiniteSets, SequencesExt

CONSTANTS
    PThread,   \* plain threads that call co_schedule()
    NCpu,      \* the ncpu of co_scheduler_init()
    MaxJobs,   \* bound: requests made
    Kinds,     \* "thread" (co_schedule) and "io" (co_schedule_io)
    QueueCap,  \* capacity of core->queue (1000)
    CcMax,     \* ccmax of pclthread() (1000)
    MayFail    \* co_create(), epoll_add() and the start of a core may fail

Core == 1..NCpu
Job  == 1..MaxJobs

ASSUME SchedAssumption == /\ NCpu \in Nat \ {0} /\ MaxJobs \in Nat
                          /\ QueueCap \in Nat \ {0} /\ CcMax \in Nat \ {0}
                          /\ Kinds \subseteq {"thread", "io"} /\ MayFail \in BOOLEAN

\* The coroutines of core k: the thread's own, the request handler, the delete
\* helper; and those of the requests.
Main(k)   == <<"main", k>>
Rqh(k)    == <<"handler", k>>
Helper(k) == <<"dchelper", k>>
Co(j)     == <<"job", j>>
Coroutine == {<<"main", k>> : k \in Core} \cup {<<"handler", k>> : k \in Core}
               \cup {<<"dchelper", k>> : k \in Core} \cup {<<"job", j>> : j \in Job}
NoCo      == <<"none", 0>>

\* Who calls co_schedule(): a plain thread or a coroutine.
NoRequest == <<1, 0>>
Caller == {<<"pthread", p>> : p \in PThread} \cup {Co(j) : j \in Job}

VARIABLES
    init,      \* co_scheduler_init(): "starting", "done" or "failed"
    ncpu,      \* g_ncpu
    curr,      \* ctx->co_curr of each core's thread
    caller,    \* co->caller
    restarget, \* co->restarget
    dhelper,   \* ctx->co_dhelper
    alive,     \* coroutines whose stack is allocated
    queue,     \* core->queue: new coroutines
    waiters,   \* core->waiters
    events,    \* coroutines whose waiter has an event of its mask
    due,       \* coroutines whose waiter's time has passed
    yielded,   \* coroutines whose waiter has CO_YIELD
    revents,   \* coroutines in co_recv() whose waiter has EPOLLIN in revents
    batch,     \* what is left of cc[] in pclthread()
    idle,      \* cores in epoll_listener_wait()
    csbusy,    \* core->csbusy
    rq,        \* requests on their way to the handler
    ans,       \* answers on their way back
    pc,        \* where each caller of co_schedule() is
    want,      \* the core and the number of its request
    nj,        \* requests made so far
    kind,      \* what each request asks for
    accepted,  \* requests answered with success whose coroutine has not run yet
    polled,    \* coroutines of co_schedule_io() whose descriptor epoll watches
    mixed,     \* cores whose socketpair was used by two callers at once, or by a coroutine
    foreign    \* cores that gave somebody the answer to another's request

switchVars == <<curr, caller, restarget, dhelper, alive>>
waitVars   == <<waiters, events, due, yielded, revents>>
coreVars   == <<queue, batch, idle>>
pairVars   == <<csbusy, rq, ans>>
callVars   == <<pc, want, nj, kind, accepted, polled, mixed, foreign>>
vars == <<init, ncpu, switchVars, waitVars, coreVars, pairVars, callVars>>

Init ==
    /\ init = "starting" /\ ncpu = 0
    /\ curr      = [k \in Core |-> Main(k)]
    /\ caller    = [t \in Coroutine |-> NoCo]
    /\ restarget = [t \in Coroutine |-> NoCo]
    /\ dhelper   = [k \in Core |-> NoCo]
    /\ alive     = {}
    /\ queue     = [k \in Core |-> << >>]
    /\ waiters   = [k \in Core |-> << >>]
    /\ events = {} /\ due = {} /\ yielded = {} /\ revents = {}
    /\ batch     = [k \in Core |-> << >>]
    /\ idle      = {}
    /\ csbusy    = [k \in Core |-> FALSE]
    /\ rq        = [k \in Core |-> << >>]
    /\ ans       = [k \in Core |-> << >>]
    /\ pc        = [c \in Caller |-> "none"]
    /\ want      = [c \in Caller |-> NoRequest]
    /\ nj        = 0
    /\ kind      = [j \in Job |-> "thread"]
    /\ accepted = {} /\ polled = {} /\ mixed = {} /\ foreign = {}

-----------------------------------------------------------------------------
(* Switching (co-thread.c).                                                *)

\* Core k switches to t; the first time t enters co_runner(), which remembers whom
\* to return to.
Switch(k, t) ==
    /\ curr'   = [curr EXCEPT ![k] = t]
    /\ caller' = [caller EXCEPT ![t] = curr[k]]
    /\ restarget' = IF restarget[t] = NoCo /\ t # Main(k)
                    THEN [restarget EXCEPT ![t] = curr[k]] ELSE restarget

co_call(k, t) == Switch(k, t) /\ UNCHANGED dhelper

\* co_exit(): the coroutine cannot free its own stack and lets the helper do it ...
co_exit(k) ==
    /\ dhelper' = [dhelper EXCEPT ![k] = restarget[curr[k]]]
    /\ Switch(k, Helper(k))
    /\ UNCHANGED alive

\* ... which frees it and goes on where the coroutine would have returned to.
co_del_helper(k) ==
    /\ curr[k] = Helper(k)
    /\ alive'   = alive \ {caller[Helper(k)]}
    /\ curr'    = [curr EXCEPT ![k] = dhelper[k]]
    /\ caller'  = [caller EXCEPT ![dhelper[k]] = Helper(k), ![caller[Helper(k)]] = NoCo]
    /\ restarget' = [restarget EXCEPT ![caller[Helper(k)]] = NoCo]
    /\ dhelper' = [dhelper EXCEPT ![k] = NoCo]
    /\ UNCHANGED <<init, ncpu, waitVars, coreVars, pairVars, callVars>>

-----------------------------------------------------------------------------
(* The start of the scheduler.                                             *)

\* new_pcl_thread() and the first lines of pclthread(): the core starts with the
\* request handler in its queue.
new_pcl_thread ==
    /\ init = "starting" /\ ncpu < NCpu
    /\ ncpu'  = ncpu + 1
    /\ queue' = [queue EXCEPT ![ncpu + 1] = <<Rqh(ncpu + 1)>>]
    /\ alive' = alive \cup {Main(ncpu + 1), Rqh(ncpu + 1), Helper(ncpu + 1)}
    /\ UNCHANGED <<init, curr, caller, restarget, dhelper, waitVars, batch, idle, pairVars, callVars>>

\* co_scheduler_init() returns: all cores run, or one could not be started.
co_scheduler_init ==
    /\ init = "starting"
    /\ \/ ncpu = NCpu /\ init' = "done"
       \/ ncpu < NCpu /\ MayFail /\ init' = "failed"
    /\ UNCHANGED <<ncpu, switchVars, waitVars, coreVars, pairVars, callVars>>

-----------------------------------------------------------------------------
(* The cores.                                                              *)

\* add_waiter() for the running coroutine of core k, which then goes back to main;
\* Due are the flags of the waiter.
Sleep(k, isDue, isYield) ==
    LET t == curr[k] IN
    /\ waiters' = [waiters EXCEPT ![k] = Append(@, t)]
    /\ due'     = IF isDue THEN due \cup {t} ELSE due
    /\ yielded' = IF isYield THEN yielded \cup {t} ELSE yielded
    /\ co_call(k, Main(k))
    /\ UNCHANGED <<events, revents, alive>>

remove_waiter_not(k, t) == UNCHANGED waitVars

\* A list without one of its elements.
Without(s, t) == IF t \in ToSet(s) THEN RemoveAt(s, CHOOSE n \in DOMAIN s : s[n] = t) ELSE s

\* remove_waiter() for t, after it was resumed.
remove_waiter(k, t) ==
    /\ waiters' = [waiters EXCEPT ![k] = Without(@, t)]
    /\ events'  = events \ {t}
    /\ due'     = due \ {t}
    /\ yielded' = yielded \ {t}
    /\ UNCHANGED revents

\* walk_waiters_list(): the places in the list whose coroutine is to be resumed ...
Signalled(k) == {n \in DOMAIN waiters[k] : waiters[k][n] \in (events \cup due) \ yielded}
\* ... and those the walk comes to before it has taken CcMax of them.
Reached(k) == {n \in DOMAIN waiters[k] : Cardinality({m \in Signalled(k) : m < n}) < CcMax}
Visited(k) == {waiters[k][n] : n \in Reached(k)}
Taken(k)   == {waiters[k][n] : n \in Signalled(k) \cap Reached(k)}

Running(k) == k <= ncpu /\ curr[k] = Main(k) /\ k \notin idle

\* A new coroutine is taken from the queue and started.
pclthread_start(k) ==
    /\ Running(k) /\ batch[k] = << >> /\ queue[k] # << >>
    /\ queue' = [queue EXCEPT ![k] = Tail(@)]
    /\ co_call(k, Head(queue[k]))
    /\ accepted' = {j \in accepted : Co(j) # Head(queue[k])}
    /\ UNCHANGED <<alive, init, ncpu, waitVars, batch, idle, pairVars, pc, want, nj, kind, polled,
                   mixed, foreign>>

\* The queue is empty: walk the waiters; when nobody is to be resumed, wait for the
\* listener, unless somebody has yielded.
pclthread_walk(k) ==
    /\ Running(k) /\ batch[k] = << >> /\ queue[k] = << >>
    /\ \E place \in SetToSeqs(Signalled(k) \cap Reached(k)) :
         /\ \A m, n \in DOMAIN place : m < n => place[m] < place[n]
         /\ batch' = [batch EXCEPT ![k] = [n \in DOMAIN place |-> waiters[k][place[n]]]]
    /\ revents' = revents \cup {t \in events \cap Taken(k) : t \in Caller /\ pc[t] = "waiting"}
    /\ events'  = events \ Taken(k)
    /\ yielded' = yielded \ Visited(k)
    /\ idle'    = IF Taken(k) = {} /\ yielded \cap Visited(k) = {} THEN idle \cup {k} ELSE idle
    /\ UNCHANGED <<init, ncpu, switchVars, waiters, due, queue, pairVars, callVars>>

\* The next coroutine of cc[] is resumed; the first thing it does is to take back its
\* waiter, but for the callback of co_schedule_io(), which keeps it.
pclthread_resume(k) ==
    LET t == Head(batch[k]) IN
    /\ Running(k) /\ batch[k] # << >>
    /\ batch' = [batch EXCEPT ![k] = Tail(@)]
    /\ co_call(k, t)
    /\ IF t[1] = "job" /\ t[2] \in polled THEN UNCHANGED waitVars ELSE remove_waiter(k, t)
    /\ accepted' = {j \in accepted : Co(j) # t}
    /\ UNCHANGED <<alive, init, ncpu, queue, idle, pairVars, pc, want, nj, kind, polled,
                   mixed, foreign>>

\* The descriptors that epoll reports: the socketpair's ends, and, any time, those of
\* co_schedule_io().
Readable(k, t) ==
    \/ t = Rqh(k) /\ rq[k] # << >>
    \/ \E j \in Job : /\ t = Co(j)
                      /\ \/ pc[t] = "waiting" /\ ans[want[t][1]] # << >>
                         \/ j \in polled

epoll_listener_quietly(k, t) ==
    /\ t \in ToSet(waiters[k]) \ events /\ Readable(k, t)
    /\ events' = events \cup {t}
    /\ UNCHANGED <<init, ncpu, switchVars, waiters, due, yielded, revents, coreVars,
                   pairVars, callVars>>

\* The listener marks the waiter of a descriptor that is readable and wakes the cores.
epoll_listener(k, t) ==
    /\ t \in ToSet(waiters[k]) \ events /\ Readable(k, t)
    /\ events' = events \cup {t}
    /\ idle' = {}
    /\ UNCHANGED <<init, ncpu, switchVars, waiters, due, yielded, revents, queue, batch,
                   pairVars, callVars>>

-----------------------------------------------------------------------------
(* The request handler.                                                    *)

\* co_recv_rqh() finds no request and waits for one, without a timeout.
schedule_request_wait(k) ==
    /\ curr[k] = Rqh(k) /\ rq[k] = << >>
    /\ Sleep(k, FALSE, FALSE)
    /\ UNCHANGED <<init, ncpu, coreVars, pairVars, callVars>>

is_full_never(k) == FALSE

\* ccfifo_is_full(&current_core->queue)
is_full(k) == Len(queue[k]) = QueueCap

\* ccfifo_ppush() drops what finds no room.
Push(k, t) == IF Len(queue[k]) < QueueCap THEN [queue EXCEPT ![k] = Append(@, t)] ELSE queue

\* One request: the coroutine is created and put in the queue, or given a waiter for
\* its descriptor, or the request is refused; the status is sent back.  When
\* epoll_add() fails the coroutine and its waiter stay behind, never to be resumed.
schedule_request_handler(k) ==
    LET j == Head(rq[k]) IN
    /\ curr[k] = Rqh(k) /\ rq[k] # << >>
    /\ rq' = [rq EXCEPT ![k] = Tail(@)]
    /\ \E s \in (IF is_full(k) THEN {"EBUSY"} ELSE {"ok"} \cup (IF MayFail THEN {"ENOMEM", "EPERM"} ELSE {})) :
         /\ s = "EPERM" => kind[j] = "io"
         /\ ans'   = [ans EXCEPT ![k] = Append(@, <<j, s>>)]
         /\ accepted' = IF s = "ok" THEN accepted \cup {j} ELSE accepted
         /\ polled' = IF s = "ok" /\ kind[j] = "io" THEN polled \cup {j} ELSE polled
         /\ alive' = IF s \in {"ok", "EPERM"} THEN alive \cup {Co(j)} ELSE alive
         /\ waiters' = IF kind[j] = "io" /\ s \in {"ok", "EPERM"}
                       THEN [waiters EXCEPT ![k] = Append(@, Co(j))] ELSE waiters
         /\ queue' = IF kind[j] = "thread" /\ s = "ok" THEN Push(k, Co(j)) ELSE queue
         /\ idle'  = IF kind[j] = "thread" /\ s = "ok" THEN {} ELSE idle
    /\ UNCHANGED <<init, ncpu, curr, caller, restarget, dhelper, events, due, yielded, revents,
                   batch, csbusy, pc, want, nj, kind, mixed, foreign>>

-----------------------------------------------------------------------------
(* What a coroutine may do: schedule others, sleep, yield, end.            *)

IsJob(k) == \E j \in Job : curr[k] = Co(j)
KindOf(t) == kind[t[2]]

\* co_sleep(); a yield is due at once, but only the second walk resumes it.
co_sleep(k) ==
    /\ IsJob(k) /\ KindOf(curr[k]) = "thread" /\ pc[curr[k]] = "none"
    /\ \E yields \in BOOLEAN : Sleep(k, yields, yields)
    /\ UNCHANGED <<init, ncpu, coreVars, pairVars, callVars>>

\* The clock passes the time of a sleeping coroutine; the core's wait was no longer.
clock(k, t) ==
    /\ t \in ToSet(waiters[k]) \ due
    /\ \E j \in Job : t = Co(j) /\ kind[j] = "thread" /\ pc[t] = "none"
    /\ due' = due \cup {t}
    /\ idle' = idle \ {k}
    /\ UNCHANGED <<init, ncpu, switchVars, waiters, events, yielded, revents, queue, batch,
                   pairVars, callVars>>

\* The coroutine's function returns.
co_runner(k) ==
    /\ IsJob(k) /\ KindOf(curr[k]) = "thread" /\ pc[curr[k]] = "none"
    /\ co_exit(k)
    /\ UNCHANGED <<init, ncpu, waitVars, coreVars, pairVars, callVars>>

\* iocb_handler(): the callback wants more and the coroutine waits for the next
\* event with the waiter it has; or it is done, the waiter goes and the coroutine ends.
iocb_handler(k) ==
    /\ IsJob(k) /\ KindOf(curr[k]) = "io"
    /\ \/ /\ co_call(k, Main(k))
          /\ UNCHANGED <<alive, waitVars>>
       \/ /\ remove_waiter(k, curr[k])
          /\ co_exit(k)
    /\ polled' = IF curr'[k] = Main(k) THEN polled ELSE polled \ {curr[k][2]}
    /\ UNCHANGED <<init, ncpu, coreVars, pairVars, pc, want, nj, kind, accepted, mixed, foreign>>

-----------------------------------------------------------------------------
(* co_schedule() and co_schedule_io().                                     *)

\* Request nj + 1 of caller c for a coroutine of sort q goes to core k.
Send(c, k, q) ==
    /\ nj' = nj + 1
    /\ kind' = [kind EXCEPT ![nj + 1] = q]
    /\ want' = [want EXCEPT ![c] = <<k, nj + 1>>]
    /\ pc' = [pc EXCEPT ![c] = "receiving"]
    /\ rq' = [rq EXCEPT ![k] = Append(@, nj + 1)]
    /\ UNCHANGED <<accepted, polled, foreign>>

\* A plain thread asks a random core; nothing keeps two threads apart.
co_schedule(c) ==
    /\ init = "done" /\ pc[c] = "none" /\ nj < MaxJobs
    /\ \E k \in Core, q \in Kinds :
         /\ Send(c, k, q)
         /\ mixed' = IF \E d \in Caller : pc[d] # "none" /\ want[d][1] = k THEN mixed \cup {k} ELSE mixed
    /\ UNCHANGED <<init, ncpu, switchVars, waitVars, coreVars, csbusy, ans>>

\* A coroutine asks a random core ...
co_schedule_in_co(k) ==
    /\ IsJob(k) /\ KindOf(curr[k]) = "thread" /\ pc[curr[k]] = "none"
    /\ pc' = [pc EXCEPT ![curr[k]] = "locking"]
    /\ \E d \in Core : want' = [want EXCEPT ![curr[k]] = <<d, 0>>]
    /\ UNCHANGED <<init, ncpu, switchVars, waitVars, coreVars, pairVars, nj, kind, accepted,
                   polled, mixed, foreign>>

\* ... and takes csbusy first, with a co_yield() before every new attempt (the bound
\* on requests makes it try forever).
co_scheduler_lock(k) ==
    LET c == curr[k]  d == want[c][1] IN
    /\ IsJob(k) /\ pc[c] = "locking"
    /\ \/ /\ csbusy[d] \/ nj = MaxJobs
          /\ Sleep(k, TRUE, TRUE)
          /\ UNCHANGED <<pairVars, callVars>>
       \/ /\ ~csbusy[d] /\ nj < MaxJobs
          /\ csbusy' = [csbusy EXCEPT ![d] = TRUE]
          /\ \E q \in Kinds : Send(c, d, q)
          /\ mixed' = mixed \cup {d}
          /\ UNCHANGED <<ans, switchVars, waitVars>>
    /\ UNCHANGED <<init, ncpu, coreVars>>

\* The call of c returns with the answer to request j.
Return(c, j) ==
    /\ pc'   = [pc EXCEPT ![c] = "none"]
    /\ want' = [want EXCEPT ![c] = NoRequest]
    /\ foreign' = IF j = want[c][2] THEN foreign ELSE foreign \cup {want[c][1]}
    /\ UNCHANGED <<nj, kind, accepted, polled, mixed>>

\* What recv() would do on a non-blocking descriptor.
recv_nonblocking(c) ==
    LET d == want[c][1] IN
    /\ c \notin {Co(j) : j \in Job} /\ pc[c] = "receiving"
    /\ ans' = [ans EXCEPT ![d] = IF @ = << >> THEN @ ELSE Tail(@)]
    /\ Return(c, IF ans[d] = << >> THEN 0 ELSE Head(ans[d])[1])
    /\ UNCHANGED <<init, ncpu, switchVars, waitVars, coreVars, csbusy, rq>>

\* recv(): whoever comes first takes the first answer.
recv(c) ==
    LET d == want[c][1] IN
    /\ c \notin {Co(j) : j \in Job} /\ pc[c] = "receiving" /\ ans[d] # << >>
    /\ ans' = [ans EXCEPT ![d] = Tail(@)]
    /\ Return(c, Head(ans[d])[1])
    /\ UNCHANGED <<init, ncpu, switchVars, waitVars, coreVars, csbusy, rq>>

\* co_recv(): an answer is there, or the coroutine waits at most 0 ms ...
co_recv(k) ==
    LET c == curr[k]  d == want[c][1] IN
    /\ IsJob(k) /\ pc[c] = "receiving"
    /\ \/ /\ ans[d] # << >>
          /\ ans' = [ans EXCEPT ![d] = Tail(@)]
          /\ csbusy' = [csbusy EXCEPT ![d] = FALSE]
          /\ Return(c, Head(ans[d])[1])
          /\ UNCHANGED <<switchVars, waitVars>>
       \/ /\ ans[d] = << >>
          /\ Sleep(k, TRUE, FALSE)
          /\ pc' = [pc EXCEPT ![c] = "waiting"]
          /\ UNCHANGED <<want, nj, kind, accepted, polled, mixed, foreign, ans, csbusy>>
    /\ UNCHANGED <<init, ncpu, coreVars, rq>>

\* ... and looks again if the descriptor is readable; otherwise it gives up with the
\* socket's error, which is 0, and co_schedule() reports success.
co_recv_resume(k) ==
    LET c == curr[k]  d == want[c][1] IN
    /\ IsJob(k) /\ pc[c] = "waiting"
    /\ \/ /\ c \in revents
          /\ pc' = [pc EXCEPT ![c] = "receiving"]
          /\ UNCHANGED <<want, nj, kind, accepted, polled, mixed, foreign, csbusy>>
       \/ /\ c \notin revents
          /\ csbusy' = [csbusy EXCEPT ![d] = FALSE]
          /\ Return(c, 0)
    /\ revents' = revents \ {c}
    /\ UNCHANGED <<init, ncpu, switchVars, waiters, events, due, yielded, coreVars, rq, ans>>

-----------------------------------------------------------------------------

CoreStep(k) ==
    \/ pclthread_start(k) \/ pclthread_walk(k) \/ pclthread_resume(k) \/ co_del_helper(k)
    \/ schedule_request_wait(k) \/ schedule_request_handler(k)
    \/ co_scheduler_lock(k) \/ co_recv(k) \/ co_recv_resume(k)
    \/ iocb_handler(k)

\* What the function of a coroutine chooses to do next.
JobStep(k) == co_sleep(k) \/ co_schedule_in_co(k) \/ co_runner(k)

Listen(k) == \E t \in Coroutine : epoll_listener(k, t)

Next ==
    \/ new_pcl_thread \/ co_scheduler_init
    \/ \E k \in Core : CoreStep(k) \/ JobStep(k) \/ Listen(k) \/ \E t \in Coroutine : clock(k, t)
    \/ \E p \in PThread : co_schedule(<<"pthread", p>>) \/ recv(<<"pthread", p>>)

Spec == Init /\ [][Next]_vars

\* Threads run, coroutines give their core back, and the listener reports what is
\* readable.  Nothing is assumed of the clock.
Fairness ==
    /\ \A k \in Core : /\ WF_vars(CoreStep(k)) /\ WF_vars(CoreStep(k) \/ JobStep(k))
                       /\ WF_vars(epoll_listener(k, Rqh(k)))
    /\ \A p \in PThread : SF_vars(recv(<<"pthread", p>>))

FairSpec == Spec /\ Fairness

-----------------------------------------------------------------------------
(* Properties.                                                             *)

\* No coroutine that ended, and whose stack is freed, is ever run again: it is not
\* current, and no queue, waiter or cc[] names it.
NoDeadCoroutine ==
    \A k \in Core : ({curr[k]} \cup ToSet(queue[k]) \cup ToSet(waiters[k]) \cup ToSet(batch[k]))
                      \ {Main(k)} \subseteq alive

\* A request answered with success has its coroutine: in the queue, waiting, running
\* or ended; the queue that is full does not swallow it.
NoLostStart ==
    \A j \in accepted : \E k \in Core : Co(j) \in ToSet(queue[k]) \cup ToSet(waiters[k])

\* A plain thread that has a core's socketpair to itself is told the fate of its own
\* request.  (csbusy keeps coroutines apart from each other, but not from threads,
\* and a coroutine that gave up leaves its answer to the next.)
OwnAnswer == foreign \subseteq mixed

\* Every co_schedule() of a plain thread returns, and every coroutine in a queue is
\* started, as long as fewer than CcMax callbacks keep a core busy.
RequestsServed ==
    /\ \A p \in PThread : pc[<<"pthread", p>>] = "receiving" ~> pc[<<"pthread", p>>] = "none"
    /\ \A j \in Job : (\E k \in Core : Co(j) \in ToSet(queue[k])) ~> j \notin accepted
=============================================================================
