------------------------------ MODULE CoSocket ------------------------------
(***************************************************************************)
(* Coroutines that wait for descriptors: the operations of co_socket and   *)
(* the co_io_wait() family (src/src/cothread/co-scheduler.c, lines 107-285 *)
(* and 1366-2077).                                                         *)
(*                                                                         *)
(* A co_socket stays registered with epoll, edge-triggered, and has a list *)
(* of waiters; a call puts its waiter there first, then tries the system   *)
(* call, and switches away when it would block.  co_io_wait() registers an *)
(* iorq of its own, on the coroutine's stack, for the time of one wait.    *)
(* The listener thread is told of a ready descriptor by epoll_wait(),      *)
(* which hands it the iorq, and marks the waiters under its lock later.    *)
(*                                                                         *)
(* Each caller repeats one call (Workloads).  Bytes are counted; a         *)
(* descriptor's buffers hold Cap.  co_poll() is modelled for one           *)
(* descriptor.                                                             *)
(***************************************************************************)
EXTENDS Integers, FiniteSets

CONSTANTS
    Caller,     \* coroutines
    Sock,       \* descriptors of co_sockets
    Plain,      \* other descriptors
    Workloads,  \* what the callers do: functions to [op, fd, tmo]
    Size,       \* bytes one send is asked to send
    Cap         \* bound: bytes a descriptor buffers in each direction

Fd == Sock \cup Plain

SocketOps == {"send", "recv", "accept", "connect"}
IoOps     == {"co_send", "co_recv", "co_read", "co_write", "co_connect", "co_accept", "co_poll"}
Receives  == {"recv", "accept", "co_recv", "co_read", "co_accept"}

ASSUME SocketAssumption ==
    /\ Sock \cap Plain = {} /\ Sock \cap Caller = {} /\ Size \in Nat \ {0} /\ Cap \in Nat \ {0}
    /\ "none" \notin Sock \cup Caller
    /\ \A w \in Workloads, t \in Caller : /\ w[t].op \in SocketOps => w[t].fd \in Sock
                                          /\ w[t].op \in IoOps => w[t].fd \in Plain

VARIABLES
    job,     \* the workload
    open,    \* co_sockets with e.so # -1
    inq,     \* bytes to be read
    room,    \* bytes the send buffer can take
    conn,    \* "new", "pending", "up", "down" (the peer hung up), "error"
    reg,     \* the iorq registered for each descriptor: the co_socket's, a caller's, or None
    rdl,     \* descriptors on epoll's ready list
    got,     \* what epoll_wait() gave the listener: an iorq and events
    pc,      \* where each caller is
    queued,  \* callers whose waiter is in the list of its co_socket
    ev,      \* w->events
    rev,     \* w->revents
    timer,   \* "none", "running" or "expired"
    left,    \* bytes a sender still has to send
    res,     \* how the last call of each caller ended
    stale    \* the listener used an iorq that was gone

netVars  == <<inq, room, conn>>
waitVars == <<queued, ev, rev, timer>>
vars == <<job, open, netVars, reg, rdl, got, pc, waitVars, left, res, stale>>

None    == "none"
NoEvent == [e |-> None, ev |-> {}]

fd(t)   == job[t].fd
op(t)   == job[t].op
Want(t) == IF op(t) = "co_poll" THEN {"IN", "OUT"} ELSE IF op(t) \in Receives THEN {"IN"} ELSE {"OUT"}
\* add_waiter(): w->mask |= UNMASKED_EVENTS
Mask(t) == Want(t) \cup {"ERR", "HUP"}

\* The events epoll reports for f.
Events(f) == (IF inq[f] > 0 \/ conn[f] \in {"down", "error"} THEN {"IN"} ELSE {}) \cup
             (IF conn[f] \in {"new", "down", "error"} \/ (conn[f] = "up" /\ room[f] > 0) THEN {"OUT"} ELSE {}) \cup
             (IF conn[f] \in {"new", "down"} THEN {"HUP"} ELSE {}) \cup
             (IF conn[f] = "error" THEN {"ERR"} ELSE {})

Init ==
    /\ job \in Workloads
    /\ open = Sock
    /\ inq  = [f \in Fd |-> 0]
    /\ room = [f \in Fd |-> Cap]
    /\ conn = [f \in Fd |-> IF \E t \in Caller : fd(t) = f /\ op(t) \in {"connect", "co_connect"}
                            THEN "new" ELSE "up"]
    /\ reg  = [f \in Fd |-> IF f \in Sock THEN f ELSE None]
    /\ rdl  = Sock
    /\ got  = NoEvent
    /\ pc   = [t \in Caller |-> "none"]
    /\ queued = {}
    /\ ev   = [t \in Caller |-> {}]
    /\ rev  = [t \in Caller |-> {}]
    /\ timer = [t \in Caller |-> "none"]
    /\ left = [t \in Caller |-> 0]
    /\ res  = [t \in Caller |-> "none"]
    /\ stale = FALSE

-----------------------------------------------------------------------------
(* The network: every change that makes a descriptor readable or writable  *)
(* puts it on the ready list, if it is registered.                         *)

Edge(f) == rdl' = IF reg[f] = None THEN rdl ELSE rdl \cup {f}

\* Descriptors somebody works with.
InUse(f) == f \notin Sock \ open /\ \E t \in Caller : fd(t) = f

callVars == <<job, open, reg, got, pc, waitVars, left, res, stale>>

\* The peer sends a byte, or opens a connection to accept.
Arrive(f) ==
    /\ conn[f] = "up" /\ inq[f] < Cap /\ InUse(f)
    /\ inq' = [inq EXCEPT ![f] = @ + 1]
    /\ Edge(f)
    /\ UNCHANGED <<callVars, room, conn>>

\* The peer has read what was sent.
Drain(f) ==
    /\ conn[f] = "up" /\ room[f] < Cap /\ InUse(f)
    /\ room' = [room EXCEPT ![f] = Cap]
    /\ Edge(f)
    /\ UNCHANGED <<callVars, inq, conn>>

\* The peer hangs up, or accepts or refuses the connection.
Change(f) ==
    /\ InUse(f)
    /\ \E c \in {"up", "down", "error"} : /\ <<conn[f], c>> \in {<<"up", "down">>, <<"pending", "up">>, <<"pending", "error">>}
                                          /\ conn' = [conn EXCEPT ![f] = c]
    /\ Edge(f)
    /\ UNCHANGED <<callVars, inq, room>>

-----------------------------------------------------------------------------
(* epoll and the listener.                                                 *)

\* epoll_add(): a co_socket is registered for EPOLLIN and EPOLLOUT, an iorq of
\* co_io_wait() for the events its caller waits for; EPOLLERR and EPOLLHUP are always
\* reported.  co_poll() asks for one report only (EPOLLONESHOT).
Armed(f) == LET e == reg[f] IN e \in Caller /\ op(e) = "co_poll" => pc[e] = "asleep" /\ ev[e] = {}

Reported(f) ==
    IF Armed(f) THEN Events(f) \cap (IF reg[f] \in Caller THEN Mask(reg[f]) ELSE {"IN", "OUT", "ERR", "HUP"})
    ELSE {}

\* epoll_wait() reports the events a descriptor has now, once per edge.
epoll_wait_events(f) ==
    /\ got = NoEvent /\ f \in rdl
    /\ rdl' = rdl \ {f}
    /\ got' = IF Reported(f) = {} THEN got ELSE [e |-> reg[f], ev |-> Reported(f)]
    /\ UNCHANGED <<job, open, netVars, reg, pc, waitVars, left, res, stale>>

\* The waiters in the list of iorq e: those of a co_socket, or the one of co_io_wait().
WaitersOf(e) == {t \in Caller : (t \in queued /\ fd(t) = e) \/ (e = t /\ reg[fd(t)] = t)}

\* An iorq that is still there: a co_socket is not freed while it is used, but the
\* iorq of co_io_wait() goes with its stack frame.
Live(e) == e \in Sock \/ \E f \in Plain : reg[f] = e

mark_one_waiter ==
    /\ got # NoEvent
    /\ \E w \in Caller : /\ WaitersOf(got.e) # {} => w \in WaitersOf(got.e)
                         /\ ev' = IF WaitersOf(got.e) = {} THEN ev ELSE [ev EXCEPT ![w] = @ \cup got.ev]
    /\ stale' = (stale \/ ~Live(got.e))
    /\ got' = NoEvent
    /\ UNCHANGED <<job, open, netVars, reg, rdl, pc, queued, rev, timer, left, res>>

\* epoll_listener_thread(): under the lock the listener marks the waiters.
epoll_listener_thread ==
    /\ got # NoEvent
    /\ ev' = [t \in Caller |-> IF t \in WaitersOf(got.e) THEN ev[t] \cup got.ev ELSE ev[t]]
    /\ stale' = (stale \/ ~Live(got.e))
    /\ got' = NoEvent
    /\ UNCHANGED <<job, open, netVars, reg, rdl, pc, queued, rev, timer, left, res>>

\* walk_waiters_list() finds the waiter of t marked or its time over, and its core
\* resumes t.
pclthread(t) ==
    /\ pc[t] = "asleep" /\ (ev[t] \cap Mask(t) # {} \/ timer[t] = "expired")
    /\ rev' = [rev EXCEPT ![t] = ev[t]]
    /\ ev'  = [ev EXCEPT ![t] = @ \ Mask(t)]
    /\ pc'  = [pc EXCEPT ![t] = "resumed"]
    /\ UNCHANGED <<job, open, netVars, reg, rdl, got, queued, timer, left, res, stale>>

clock(t) ==
    /\ timer[t] = "running"
    /\ timer' = [timer EXCEPT ![t] = "expired"]
    /\ UNCHANGED <<job, open, netVars, reg, rdl, got, pc, queued, ev, rev, left, res, stale>>

-----------------------------------------------------------------------------
(* Calls on a co_socket.                                                   *)

Timer(t) == IF job[t].tmo THEN "running" ELSE "none"

\* A call begins: it is refused when the socket is closed.
enter(t) ==
    /\ pc[t] = "none" /\ op(t) \in SocketOps \cup IoOps
    /\ IF op(t) \in SocketOps \ {"accept"} /\ fd(t) \notin open
       THEN res' = [res EXCEPT ![t] = "EBADF"] /\ UNCHANGED <<pc, left>>
       ELSE /\ res'  = [res EXCEPT ![t] = "none"]
            /\ left' = [left EXCEPT ![t] = Size]
            /\ pc'   = [pc EXCEPT ![t] = IF op(t) \in SocketOps THEN "queueing" ELSE "try"]
    /\ UNCHANGED <<job, open, netVars, reg, rdl, got, waitVars, stale>>

\* add_waiter() and epoll_queue() ...
epoll_queue(t) ==
    /\ pc[t] = "queueing"
    /\ queued' = queued \cup {t}
    /\ timer'  = [timer EXCEPT ![t] = Timer(t)]
    /\ ev'     = [ev EXCEPT ![t] = {}]
    /\ rev'    = [rev EXCEPT ![t] = {}]
    /\ pc'     = [pc EXCEPT ![t] = "try"]
    /\ UNCHANGED <<job, open, netVars, reg, rdl, got, left, res, stale>>

\* ... and epoll_dequeue() and remove_waiter() when the call returns r.
Return(t, r) ==
    /\ pc'     = [pc EXCEPT ![t] = "none"]
    /\ res'    = [res EXCEPT ![t] = r]
    /\ queued' = queued \ {t}
    /\ ev'     = [ev EXCEPT ![t] = {}]
    /\ rev'    = [rev EXCEPT ![t] = {}]
    /\ timer'  = [timer EXCEPT ![t] = "none"]
    /\ left'   = [left EXCEPT ![t] = 0]

\* co_call(current_core->main)
Block(t) == /\ pc' = [pc EXCEPT ![t] = "asleep"]
            /\ UNCHANGED <<waitVars, left, res>>

Gone(t) == fd(t) \in Sock \ open

\* The system calls, on a descriptor that may be closed by now: they fail, succeed,
\* or would block (EAGAIN).  A socket that nobody connected is refused.
CanRead(t)  == ~Gone(t) /\ inq[fd(t)] > 0
CanWrite(t) == ~Gone(t) /\ conn[fd(t)] = "up" /\ room[fd(t)] > 0
WouldBlock(t) == /\ ~Gone(t) /\ conn[fd(t)] \in {"up", "pending"}
                 /\ IF op(t) \in Receives THEN inq[fd(t)] = 0 ELSE ~CanWrite(t)

\* recv() and accept() take what is there; a closed socket, an end of file or an
\* error ends the call.
take(t) ==
    /\ op(t) \in Receives /\ pc[t] = "try" /\ ~WouldBlock(t)
    /\ IF CanRead(t) THEN inq' = [inq EXCEPT ![fd(t)] = @ - 1] ELSE UNCHANGED inq
    /\ Return(t, IF CanRead(t) THEN "ok" ELSE IF Gone(t) THEN "aborted" ELSE "eof")
    /\ UNCHANGED <<job, open, room, conn, reg, rdl, got, stale>>

\* co_socket_recv() and co_socket_accept() would block: look at the clock, then sleep.
co_socket_recv(t) ==
    /\ op(t) \in {"recv", "accept"} /\ pc[t] = "try" /\ WouldBlock(t)
    /\ IF timer[t] = "expired" THEN Return(t, "timeout") ELSE Block(t)
    /\ UNCHANGED <<job, open, netVars, reg, rdl, got, stale>>

\* A resumed call of those tries again.
co_socket_recv_resume(t) ==
    /\ op(t) \in {"recv", "accept"} /\ pc[t] = "resumed"
    /\ pc' = [pc EXCEPT ![t] = "try"]
    /\ UNCHANGED <<job, open, netVars, reg, rdl, got, waitVars, left, res, stale>>

\* send() takes as much as there is room for; the timeout of co_socket_send() starts
\* anew with every part.
put(t) ==
    LET n == IF left[t] < room[fd(t)] THEN left[t] ELSE room[fd(t)] IN
    /\ op(t) \in {"send", "co_send", "co_write"} /\ pc[t] = "try" /\ ~WouldBlock(t)
    /\ IF ~CanWrite(t) THEN Return(t, "error") /\ UNCHANGED room
       ELSE /\ room' = [room EXCEPT ![fd(t)] = @ - n]
            /\ IF left[t] = n THEN Return(t, "ok")
               ELSE /\ left'  = [left EXCEPT ![t] = @ - n]
                    /\ timer' = [timer EXCEPT ![t] = IF op(t) = "send" THEN Timer(t) ELSE @]
                    /\ UNCHANGED <<pc, queued, ev, rev, res>>
    /\ UNCHANGED <<job, open, inq, conn, reg, rdl, got, stale>>

\* co_socket_send() would block, and sleeps.
co_socket_send(t) ==
    /\ op(t) = "send" /\ pc[t] = "try" /\ WouldBlock(t)
    /\ Block(t)
    /\ UNCHANGED <<job, open, netVars, reg, rdl, got, stale>>

\* Resumed without EPOLLOUT it returns a short count.
co_socket_send_resume(t) ==
    /\ op(t) = "send" /\ pc[t] = "resumed"
    /\ IF "OUT" \notin rev[t] THEN Return(t, "short")
       ELSE pc' = [pc EXCEPT ![t] = "try"] /\ UNCHANGED <<waitVars, left, res>>
    /\ UNCHANGED <<job, open, netVars, reg, rdl, got, stale>>

\* co_socket_connect(): the connection is in progress and the call sleeps ...
co_socket_connect(t) ==
    /\ op(t) \in {"connect", "co_connect"} /\ pc[t] = "try"
    /\ IF Gone(t) \/ conn[fd(t)] # "new"
       THEN Return(t, "error") /\ UNCHANGED conn
       ELSE /\ conn' = [conn EXCEPT ![fd(t)] = "pending"]
            /\ IF op(t) = "connect" THEN Block(t)
               ELSE pc' = [pc EXCEPT ![t] = "iowait"] /\ UNCHANGED <<waitVars, left, res>>
    /\ UNCHANGED <<job, open, inq, room, reg, rdl, got, stale>>

\* ... until there is EPOLLOUT or EPOLLERR or the time is over; without EPOLLERR it
\* reports success, the timeout included.
co_socket_connect_resume(t) ==
    /\ op(t) = "connect" /\ pc[t] = "resumed"
    /\ IF rev[t] \cap {"OUT", "ERR"} = {} /\ timer[t] # "expired" THEN Block(t)
       ELSE Return(t, IF "ERR" \in rev[t] THEN "error" ELSE "ok")
    /\ UNCHANGED <<job, open, netVars, reg, rdl, got, stale>>

close_quietly(s) ==
    /\ s \in open
    /\ open' = open \ {s}
    /\ reg'  = [reg EXCEPT ![s] = None]
    /\ rdl'  = rdl \ {s}
    /\ UNCHANGED <<job, netVars, got, pc, waitVars, left, res, stale>>

close_with_hup(s) ==
    /\ s \in open
    /\ open' = open \ {s}
    /\ reg'  = [reg EXCEPT ![s] = None]
    /\ rdl'  = rdl \ {s}
    /\ ev'   = [t \in Caller |-> IF t \in queued /\ fd(t) = s THEN ev[t] \cup {"HUP"} ELSE ev[t]]
    /\ UNCHANGED <<job, netVars, got, pc, queued, rev, timer, left, res, stale>>

\* co_socket_close(): the descriptor leaves epoll, and every waiter is marked under
\* the listener's lock.
co_socket_close(s) ==
    /\ s \in open
    /\ open' = open \ {s}
    /\ reg'  = [reg EXCEPT ![s] = None]
    /\ rdl'  = rdl \ {s}
    /\ ev'   = [t \in Caller |-> IF t \in queued /\ fd(t) = s THEN ev[t] \cup Mask(t) ELSE ev[t]]
    /\ UNCHANGED <<job, netVars, got, pc, queued, rev, timer, left, res, stale>>

-----------------------------------------------------------------------------
(* co_io_wait() and the calls that use it.                                 *)

\* What a call does when its wait ended with the events r: connect() goes on waiting
\* until there is an answer; co_write() and co_accept() try again whatever happened;
\* the others only if the event came.
AfterWait(t, r) ==
    CASE op(t) = "co_connect" -> IF r \cap {"OUT", "ERR"} = {} THEN "iowait" ELSE "return"
      [] op(t) \in {"co_write", "co_accept"} -> "try"
      [] op(t) = "co_poll" -> "return"
      [] OTHER -> IF r \cap Want(t) = {} THEN "return" ELSE "try"

Resume(t, r) ==
    IF AfterWait(t, r) = "return"
    THEN Return(t, CASE op(t) = "co_connect" -> IF "ERR" \in r THEN "error" ELSE "ok"
                     [] op(t) = "co_poll" -> IF r \cap {"IN", "OUT", "ERR"} = {} THEN "none ready" ELSE "ok"
                     [] OTHER -> "short")
    ELSE /\ pc'    = [pc EXCEPT ![t] = AfterWait(t, r)]
         /\ ev'    = [ev EXCEPT ![t] = {}]
         /\ rev'   = [rev EXCEPT ![t] = {}]
         /\ timer' = [timer EXCEPT ![t] = "none"]
         /\ UNCHANGED <<queued, left, res>>

\* The call would block; co_poll() waits in any case.
io_would_block(t) ==
    /\ op(t) \in IoOps \ {"co_connect"} /\ pc[t] = "try" /\ (op(t) = "co_poll" \/ WouldBlock(t))
    /\ pc' = [pc EXCEPT ![t] = "iowait"]
    /\ UNCHANGED <<job, open, netVars, reg, rdl, got, waitVars, left, res, stale>>

\* co_io_wait(): epoll_add() fails when somebody waits for the descriptor already,
\* which ends the wait, and in co_poll() the process: exit(1) stops every coroutine.
\* Otherwise a requested event that is there is reported at once.
co_io_wait(t) ==
    /\ pc[t] = "iowait"
    /\ \/ /\ reg[fd(t)] # None /\ op(t) # "co_poll"
          /\ Resume(t, {"ERR"})
          /\ UNCHANGED <<reg, rdl>>
       \/ /\ reg[fd(t)] # None /\ op(t) = "co_poll"
          /\ pc' = [c \in Caller |-> "exited"]
          /\ UNCHANGED <<reg, rdl, waitVars, left, res>>
       \/ /\ reg[fd(t)] = None
          /\ reg' = [reg EXCEPT ![fd(t)] = t]
          /\ rdl' = IF Events(fd(t)) \cap Mask(t) = {} THEN rdl ELSE rdl \cup {fd(t)}
          /\ pc'  = [pc EXCEPT ![t] = "asleep"]
          /\ timer' = [timer EXCEPT ![t] = Timer(t)]
          /\ UNCHANGED <<queued, ev, rev, left, res>>
    /\ UNCHANGED <<job, open, netVars, got, stale>>

\* The rest of it: epoll_remove(), and the iorq is gone.
co_io_wait_return(t) ==
    /\ op(t) \in IoOps /\ pc[t] = "resumed"
    /\ reg' = [reg EXCEPT ![fd(t)] = None]
    /\ rdl' = rdl \ {fd(t)}
    /\ Resume(t, rev[t])
    /\ UNCHANGED <<job, open, netVars, got, stale>>

-----------------------------------------------------------------------------

Progress(t) ==
    \/ epoll_queue(t) \/ take(t) \/ put(t) \/ pclthread(t)
    \/ co_socket_recv(t) \/ co_socket_recv_resume(t)
    \/ co_socket_send(t) \/ co_socket_send_resume(t)
    \/ co_socket_connect(t) \/ co_socket_connect_resume(t)
    \/ io_would_block(t) \/ co_io_wait(t) \/ co_io_wait_return(t)

Listener == epoll_listener_thread \/ \E f \in Fd : epoll_wait_events(f)

Next ==
    \/ \E t \in Caller : enter(t) \/ Progress(t) \/ clock(t)
    \/ \E f \in Fd : Arrive(f) \/ Drain(f) \/ Change(f)
    \/ \E s \in Sock : co_socket_close(s)
    \/ Listener

Spec == Init /\ [][Next]_vars

\* Threads run, time passes and the listener gets its turn for every descriptor.
FairSpec ==
    /\ Spec
    /\ \A t \in Caller : WF_vars(Progress(t)) /\ WF_vars(clock(t))
    /\ WF_vars(epoll_listener_thread)
    /\ \A f \in Fd : SF_vars(epoll_wait_events(f))

-----------------------------------------------------------------------------
(* Properties.                                                             *)

\* The iorq by which the listener finds the waiter of t.
Iorq(t) == IF op(t) \in SocketOps THEN fd(t) ELSE t

\* A coroutine sleeps only while it has nothing to do: when its descriptor is ready,
\* or its socket was closed, its waiter is marked or the mark is on its way.
NoLostReadiness ==
    \A t \in Caller : pc[t] = "asleep" /\ (Gone(t) \/ Events(fd(t)) \cap Want(t) # {}) =>
        \/ ev[t] \cap Mask(t) # {}
        \/ fd(t) \in rdl
        \/ got.e = Iorq(t) /\ got.ev \cap Mask(t) # {}

\* A send returns a short count only when its time is over: without a timeout
\* co_socket_send() sends everything or reports an error, whatever wakes it up.
ShortOnlyByTimeout ==
    [][\A t \in Caller : op(t) = "send" /\ res'[t] = "short" /\ res[t] # "short" => timer[t] = "expired"]_vars

\* These start their time again after every event, so that another caller who does the
\* same could take what comes from them for ever.
Contended(t) == /\ op(t) \in {"send", "co_send", "co_recv"}
                /\ \E u \in Caller \ {t} : op(u) = op(t) /\ fd(u) = fd(t)

\* Every call that was given a timeout returns: recv, accept, send and connect on a
\* co_socket, co_send(), co_recv() and co_poll(), except sends and receives that
\* contend with others of their kind.  Every call on a co_socket that is closed
\* returns.  (co_poll() may end the process instead.)
CallsReturn ==
    \A t \in Caller : pc[t] # "none" /\ (Gone(t) \/ (job[t].tmo /\ ~Contended(t))) ~> pc[t] \in {"none", "exited"}

\* The listener finds the iorq it was given.
NoStaleIorq == ~stale
=============================================================================
