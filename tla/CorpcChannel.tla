---------------------------- MODULE CorpcChannel ----------------------------
(***************************************************************************)
(* The corpc channel: two processes joined by one connection over which    *)
(* they open streams, write and read messages, and close them              *)
(* (src/src/corpc/corpc-channel.c, corpc-proto.c).                         *)
(*                                                                         *)
(* Each peer runs one channel thread (thread 0, corpc_channel_thread), the *)
(* only reader of the connection, and one application thread per stream:   *)
(* the thread that called corpc_open_stream, or the service method started *)
(* for a stream the other peer opened.  A section of code between          *)
(* channel_state_lock and channel_state_unlock (or channel_state_wait) is  *)
(* one step; everything between two sections may interleave.               *)
(*                                                                         *)
(* A stream object is named by its sid.  gensid() wraps at 2^16; the model *)
(* creates at most MaxSid streams per peer, so sids are unique here.       *)
(***************************************************************************)
EXTENDS Integers, Sequences, FiniteSets

CONSTANTS
    Client,          \* the peer that called corpc_channel_open
    Server,          \* the peer whose channel came from corpc_channel_accept
    Openers,         \* the peers whose application calls corpc_open_stream
    Targets,         \* what a request may name: "method", "no_method", "no_service"
    QueueSize,       \* CORPC_STREAM_DEFAULT_QUEUE_SIZE
    MaxStreams,      \* capacity of channel->streams
    MethodReadsFirst,\* TRUE: a service method starts with corpc_stream_read
    MaxSid,          \* bound: streams opened, by both peers together
    MaxWrites,       \* bound: messages each peer writes per stream
    NetCap,          \* bound: frames the connection buffers in one direction
    AppMayClose,     \* the application may call corpc_channel_close
    LinkMayFail,     \* the connection may be lost
    StartMayFail     \* co_schedule of a service method may fail

Peer   == {Client, Server}
Sid    == 1..MaxSid
Thread == 0..MaxSid

ASSUME PeersAssumption  == Client # Server /\ Openers \subseteq Peer
ASSUME BoundsAssumption == /\ QueueSize \in Nat \ {0}
                           /\ MaxStreams \in Nat
                           /\ MaxSid \in Nat
                           /\ MaxWrites \in [Peer -> Nat]
                           /\ NetCap \in Nat /\ NetCap >= 2
ASSUME FlagsAssumption  == /\ MethodReadsFirst \in BOOLEAN
                           /\ AppMayClose \in BOOLEAN
                           /\ LinkMayFail \in BOOLEAN
                           /\ StartMayFail \in BOOLEAN
                           /\ Targets # {}
                           /\ Targets \subseteq {"method", "no_method", "no_service"}

Other(p) == IF p = Client THEN Server ELSE Client

VARIABLES
    chst,    \* channel->state; the handshake is over, so established or closed
    refs,    \* channel->refs
    alive,   \* FALSE once channel_destroy ran
    held,    \* the application still holds the reference of corpc_channel_open
    wlock,   \* channel->write_lock
    sock,    \* channel->ssl_sock is open
    link,    \* the connection works
    net,     \* net[p]: frames on their way to p
    gsid,    \* the counter of gensid()
    tbl,     \* channel->streams
    live,    \* stream objects that are allocated
    st,      \* the stream objects
    pc,      \* where each thread is
    op,      \* the message each thread is sending
    ok,      \* fok of the send in progress
    asleep,  \* threads inside channel_state_wait
    cur,     \* the create request the channel thread is answering
    nopen,   \* calls of corpc_open_stream so far
    nwr,     \* writes made on each stream end; also numbers the messages
    nrd,     \* messages returned by corpc_stream_read
    bug      \* failed assertions and undefined behaviour met so far

chanVars   == <<chst, refs, alive, held, sock>>
streamVars == <<gsid, tbl, live, st>>
threadVars == <<pc, op, ok>>
countVars  == <<nopen, nwr, nrd>>
vars == <<chst, refs, alive, held, wlock, sock, link, net, gsid, tbl, live, st,
          pc, op, ok, asleep, cur, nopen, nwr, nrd, bug>>

-----------------------------------------------------------------------------
(* Streams, frames and threads.                                            *)

StreamState == {"created", "opening", "established", "closed_by_remote_party",
                "too_many_streams", "no_such_service", "no_such_method",
                "remote_internal_error", "protocol_error"}

Status == {"ok", "no_stream_resources", "no_service", "no_method",
           "internal_error"}

Stream(state, did, rwnd) ==
    [state |-> state, did |-> did, rwnd |-> rwnd, rxq |-> << >>]

\* What corpc_stream_cleanup() leaves of a stream: memset(st, 0).
Zeroed == Stream("created", 0, 0)

Frame(code, sid, did, rwnd, info, seq) ==
    [code |-> code, sid |-> sid, did |-> did, rwnd |-> rwnd,
     info |-> info, seq |-> seq]

Codes == {"request", "response", "close", "data", "payload", "ack"}

\* gensid()
gensid(p) == gsid[p] + 1

\* srwnd(): the room left in the receive queue.
srwnd(p, s) == QueueSize - Len(st[p][s].rxq)

\* The program counters at which a thread owns channel->write_lock.
Sending == {"send", "payload", "sent", "release"}

PCs == Sending \cup {"none", "acquire", "opening", "fail", "open", "read",
                     "erase", "recv", "start", "started", "setstate",
                     "shut", "done", "crashed"}

Ops == {"none", "request", "response", "close", "data", "ack"}

established(p) == chst[p] = "established"

\* Where a thread goes once its send is over.
After(o, fok) ==
    CASE o = "request"  -> IF fok THEN "opening" ELSE "fail"
      [] o = "close"    -> "erase"
      [] o = "response" -> "setstate"
      [] OTHER          -> "open"

Goto(p, t, l) == pc' = [pc EXCEPT ![p][t] = l]

\* Start sending a message of kind o: every sender begins in acquire_write_lock.
Call(p, t, o) == /\ Goto(p, t, "acquire")
                 /\ op' = [op EXCEPT ![p][t] = o]
                 /\ UNCHANGED ok

\* The send is over and its locals are gone.
Return(p, t, fok) == /\ Goto(p, t, After(op[p][t], fok))
                     /\ op' = [op EXCEPT ![p][t] = "none"]
                     /\ ok' = [ok EXCEPT ![p][t] = FALSE]

\* channel_state_signal(): a broadcast.
signal(p) == asleep' = [asleep EXCEPT ![p] = {}]

\* channel_state_wait(-1)
wait(p, t) == asleep' = [asleep EXCEPT ![p] = @ \cup {t}]

awake(p, t) == t \notin asleep[p]

Init ==
    /\ chst   = [p \in Peer |-> "established"]
    /\ refs   = [p \in Peer |-> IF p = Client THEN 2 ELSE 1]
    /\ alive  = [p \in Peer |-> TRUE]
    /\ held   = [p \in Peer |-> p = Client]
    /\ wlock  = [p \in Peer |-> FALSE]
    /\ sock   = [p \in Peer |-> TRUE]
    /\ link   = TRUE
    /\ net    = [p \in Peer |-> << >>]
    /\ gsid   = [p \in Peer |-> 0]
    /\ tbl    = [p \in Peer |-> {}]
    /\ live   = [p \in Peer |-> {}]
    /\ st     = [p \in Peer |-> [s \in Thread |-> Zeroed]]
    /\ pc     = [p \in Peer |-> [t \in Thread |-> IF t = 0 THEN "recv" ELSE "none"]]
    /\ op     = [p \in Peer |-> [t \in Thread |-> "none"]]
    /\ ok     = [p \in Peer |-> [t \in Thread |-> FALSE]]
    /\ asleep = [p \in Peer |-> {}]
    /\ cur    = [p \in Peer |-> [obj |-> 0, sid |-> 0, did |-> 0, rwnd |-> 0, status |-> "ok"]]
    /\ nopen  = 0
    /\ nwr    = [p \in Peer |-> [s \in Sid |-> 0]]
    /\ nrd    = [p \in Peer |-> [s \in Sid |-> 0]]
    /\ bug    = {}

-----------------------------------------------------------------------------
(* The write lock and the connection.                                      *)

\* Why a thread in acquire_write_lock gives up (ENOTCONN) ...
NotConnected(p, t) ==
    \/ ~established(p)
    \/ op[p][t] = "data" /\ st[p][t].state # "established"

LockIsFree_without_lock(p, t) == op[p][t] = "data" => st[p][t].rwnd > 0

LockIsFree_without_window(p, t) == ~wlock[p]

\* ... and when it may take the lock.
LockIsFree(p, t) ==
    /\ ~wlock[p]
    /\ op[p][t] = "data" => st[p][t].rwnd > 0

\* One turn of the loop in acquire_write_lock, with tmo = -1.
acquire_write_lock(p, t) ==
    /\ pc[p][t] = "acquire" /\ awake(p, t)
    /\ \/ /\ NotConnected(p, t)
          /\ Return(p, t, FALSE)
          /\ UNCHANGED <<wlock, asleep>>
       \/ /\ ~NotConnected(p, t) /\ LockIsFree(p, t)
          /\ wlock' = [wlock EXCEPT ![p] = TRUE]
          /\ Goto(p, t, "send")
          /\ UNCHANGED <<op, ok, asleep>>
       \/ /\ ~NotConnected(p, t) /\ ~LockIsFree(p, t)
          /\ wait(p, t)
          /\ UNCHANGED <<wlock, threadVars>>
    /\ UNCHANGED <<chanVars, link, net, streamVars, cur, countVars, bug>>

release_write_lock_silently(p, t) ==
    /\ pc[p][t] = "release"
    /\ wlock' = [wlock EXCEPT ![p] = FALSE]
    /\ Return(p, t, ok[p][t])
    /\ UNCHANGED <<chanVars, link, net, streamVars, asleep, cur, countVars, bug>>

release_write_lock(p, t) ==
    /\ pc[p][t] = "release"
    /\ wlock' = [wlock EXCEPT ![p] = FALSE]
    /\ signal(p)
    /\ Return(p, t, ok[p][t])
    /\ UNCHANGED <<chanVars, link, net, streamVars, cur, countVars, bug>>

\* Nothing p sends can arrive any more.
PeerGone(p) == ~link \/ ~sock[Other(p)]

\* co_ssl_socket_send() of frame f.  It blocks while the connection's buffer is
\* full and fails once the socket is closed; what is sent to a peer that is gone
\* is lost, whether or not the sender is told.
SendFrame(p, t, f, next) ==
    \/ /\ sock[p] /\ ~PeerGone(p) /\ Len(net[Other(p)]) < NetCap
       /\ net' = [net EXCEPT ![Other(p)] = Append(@, f)]
       /\ Goto(p, t, next)
       /\ ok' = [ok EXCEPT ![p][t] = TRUE]
    \/ /\ sock[p] /\ PeerGone(p)
       /\ Goto(p, t, next)
       /\ ok' = [ok EXCEPT ![p][t] = TRUE]
       /\ UNCHANGED net
    \/ /\ ~sock[p] \/ PeerGone(p)
       /\ Goto(p, t, "release")
       /\ ok' = [ok EXCEPT ![p][t] = FALSE]
       /\ UNCHANGED net

\* The first frame of each message, and for all but data the only one.  The
\* caller of corpc_open_stream picks the service and the method.
FirstFrames(p, t) ==
    CASE op[p][t] = "request" ->
           {Frame("request", t, 0, srwnd(p, t), target, 0) : target \in Targets}
      [] op[p][t] = "response" ->
           {Frame("response", cur[p].sid, cur[p].did, cur[p].rwnd, cur[p].status, 0)}
      [] OTHER ->
           {Frame(op[p][t], t, st[p][t].did, 0, "", 0)}

\* corpc_proto_send_*(): a data message is sent as a header and a payload, in two
\* calls of co_ssl_socket_send(); the others in one.
corpc_proto_send(p, t) ==
    /\ pc[p][t] = "send"
    /\ \E f \in FirstFrames(p, t) :
         SendFrame(p, t, f, IF op[p][t] = "data" THEN "payload" ELSE "release")
    /\ UNCHANGED <<chanVars, wlock, link, streamVars, op, asleep, cur, countVars, bug>>

corpc_proto_send_payload(p, t) ==
    /\ pc[p][t] = "payload"
    /\ SendFrame(p, t, Frame("payload", 0, 0, 0, "", nwr[p][t] + 1), "sent")
    /\ nwr' = [nwr EXCEPT ![p][t] = IF ok'[p][t] THEN @ + 1 ELSE @]
    /\ UNCHANGED <<chanVars, wlock, link, streamVars, op, asleep, cur, nopen, nrd, bug>>

send_data_uncounted(p, t) ==
    /\ pc[p][t] = "sent"
    /\ Goto(p, t, "release")
    /\ UNCHANGED <<chanVars, wlock, link, net, streamVars, op, ok, asleep, cur,
                   countVars, bug>>

\* send_data(): --st->rwnd, in a section of its own after the message left.
send_data_done(p, t) ==
    /\ pc[p][t] = "sent"
    /\ st' = [st EXCEPT ![p][t].rwnd = @ - 1]
    /\ Goto(p, t, "release")
    /\ UNCHANGED <<chanVars, wlock, link, net, gsid, tbl, live, op, ok, asleep,
                   cur, countVars, bug>>

-----------------------------------------------------------------------------
(* The application: opening, reading, writing and closing streams.         *)

\* The process is still running.
Running(p) == pc[p][0] # "crashed"

\* create_new_stream(), after the check of channel->state in corpc_open_stream().
\* The check is made without the lock and may be stale: the channel may have
\* closed since.  The caller must own the channel.
corpc_open_stream(p) ==
    /\ p \in Openers /\ nopen < MaxSid /\ gsid[p] < MaxSid
    /\ held[p] \/ (p = Server /\ alive[p] /\ Running(p))
    /\ Cardinality(tbl[p]) < MaxStreams
    /\ LET s == gensid(p) IN
         /\ gsid' = [gsid EXCEPT ![p] = s]
         /\ tbl'  = [tbl EXCEPT ![p] = @ \cup {s}]
         /\ live' = [live EXCEPT ![p] = @ \cup {s}]
         /\ st'   = [st EXCEPT ![p][s] = Stream("opening", 0, 0)]
         /\ Call(p, s, "request")
    /\ nopen' = nopen + 1
    /\ UNCHANGED <<chanVars, wlock, link, net, asleep, cur, nwr, nrd, bug>>

\* ccarray_erase_item() and corpc_stream_destroy(): stream s leaves the channel and
\* its memory is zeroed and freed.
EraseAndDestroy(p, s) == /\ tbl'  = [tbl EXCEPT ![p] = @ \ {s}]
                         /\ live' = [live EXCEPT ![p] = @ \ {s}]
                         /\ st'   = [st EXCEPT ![p][s] = Zeroed]

\* The wait for the answer in corpc_open_stream().
corpc_open_stream_wait(p, t) ==
    /\ pc[p][t] = "opening" /\ awake(p, t)
    /\ IF established(p) /\ st[p][t].state = "opening"
       THEN wait(p, t) /\ UNCHANGED pc
       ELSE /\ Goto(p, t, IF st[p][t].state = "established" THEN "open" ELSE "fail")
            /\ UNCHANGED asleep
    /\ UNCHANGED <<chanVars, wlock, link, net, streamVars, op, ok, cur, countVars, bug>>

\* The failure path of corpc_open_stream(): the stream is taken out and freed.
corpc_open_stream_fail(p, t) ==
    /\ pc[p][t] = "fail"
    /\ EraseAndDestroy(p, t)
    /\ Goto(p, t, "done")
    /\ UNCHANGED <<chanVars, wlock, link, net, gsid, op, ok, asleep, cur,
                   countVars, bug>>

corpc_stream_write(p, t) ==
    /\ pc[p][t] = "open" /\ nwr[p][t] < MaxWrites[p]
    /\ Call(p, t, "data")
    /\ UNCHANGED <<chanVars, wlock, link, net, streamVars, asleep, cur, countVars, bug>>

corpc_stream_read(p, t) ==
    /\ pc[p][t] = "open"
    /\ Goto(p, t, "read")
    /\ UNCHANGED <<chanVars, wlock, link, net, streamVars, op, ok, asleep, cur,
                   countVars, bug>>

NothingToRead_if_opening(p, t) ==
    /\ st[p][t].rxq = << >>
    /\ established(p)
    /\ st[p][t].state = "established"

\* The condition of the loop in corpc_stream_read_internal().
NothingToRead(p, t) ==
    /\ st[p][t].rxq = << >>
    /\ established(p)
    /\ st[p][t].state \in {"established", "opening"}

\* corpc_stream_read_internal(): wait for a message, take it, and acknowledge it
\* if the stream was still connected when it was taken.
corpc_stream_read_internal(p, t) ==
    /\ pc[p][t] = "read" /\ awake(p, t)
    /\ LET s == st[p][t]
           connected == established(p) /\ s.state = "established" IN
       \/ /\ NothingToRead(p, t)
          /\ wait(p, t)
          /\ UNCHANGED <<st, nrd, threadVars>>
       \/ /\ s.rxq = << >> /\ ~NothingToRead(p, t)
          /\ Goto(p, t, "open")
          /\ UNCHANGED <<st, nrd, op, ok, asleep>>
       \/ /\ s.rxq # << >>
          /\ st'  = [st EXCEPT ![p][t].rxq = Tail(@)]
          /\ nrd' = [nrd EXCEPT ![p][t] = @ + 1]
          /\ IF connected THEN Call(p, t, "ack")
                          ELSE Goto(p, t, "open") /\ UNCHANGED <<op, ok>>
          /\ UNCHANGED asleep
    /\ UNCHANGED <<chanVars, wlock, link, net, gsid, tbl, live, cur, nopen, nwr, bug>>

\* corpc_close_stream(), also called for a service method that returns.
corpc_close_stream(p, t) ==
    /\ pc[p][t] = "open"
    /\ Call(p, t, "close")
    /\ UNCHANGED <<chanVars, wlock, link, net, streamVars, asleep, cur, countVars, bug>>

\* Its second half: the stream leaves the channel, which dies with its last stream
\* when nobody refers to it any more.
corpc_close_stream_erase(p, t) ==
    /\ pc[p][t] = "erase"
    /\ EraseAndDestroy(p, t)
    /\ alive' = [alive EXCEPT ![p] = @ /\ ~(tbl'[p] = {} /\ refs[p] < 1)]
    /\ Goto(p, t, "done")
    /\ UNCHANGED <<chst, refs, held, sock, wlock, link, net, gsid, op, ok,
                   asleep, cur, countVars, bug>>

LastReference_despite_streams(p) == refs'[p] < 1

\* corpc_channel_release_internal(): the channel is destroyed with its last reference,
\* unless streams are left.
LastReference(p) == refs'[p] < 1 /\ tbl[p] = {}

close_silently(p) ==
    /\ sock'  = [sock EXCEPT ![p] = FALSE]
    /\ chst'  = [chst EXCEPT ![p] = "closed"]
    /\ refs'  = [refs EXCEPT ![p] = @ - 1]
    /\ alive' = [alive EXCEPT ![p] = @ /\ ~LastReference(p)]
    /\ UNCHANGED asleep

\* corpc_channel_close_internal(): close the socket, wake everybody, drop a reference.
close_internal(p) ==
    /\ sock'  = [sock EXCEPT ![p] = FALSE]
    /\ chst'  = [chst EXCEPT ![p] = "closed"]
    /\ refs'  = [refs EXCEPT ![p] = @ - 1]
    /\ alive' = [alive EXCEPT ![p] = @ /\ ~LastReference(p)]
    /\ signal(p)

\* corpc_channel_close() by the application that opened the channel.
corpc_channel_close(p) ==
    /\ AppMayClose /\ held[p]
    /\ close_internal(p)
    /\ held' = [held EXCEPT ![p] = FALSE]
    /\ UNCHANGED <<wlock, link, net, streamVars, threadVars, cur, countVars, bug>>

-----------------------------------------------------------------------------
(* The channel thread: corpc_channel_thread() and its handlers.            *)

Receiving(p) == pc[p][0] = "recv" /\ sock[p]

\* The next frame is a complete message of this kind.
Received(p, code) == /\ Receiving(p)
                     /\ net[p] # << >> /\ Head(net[p]).code = code

Consume(p) == net' = [net EXCEPT ![p] = Tail(@)]

\* accept_stream() and the lookup of service and method before it.
on_create_stream_request(p) ==
    /\ Received(p, "request") /\ Consume(p)
    /\ LET m == Head(net[p])
           s == gensid(p)
           refusal == CASE m.info = "no_service" -> "no_service"
                        [] m.info = "no_method"  -> "no_method"
                        [] OTHER                 -> "no_stream_resources" IN
       IF m.info = "method" /\ Cardinality(tbl[p]) < MaxStreams
       THEN /\ gsid[p] < MaxSid
            /\ gsid' = [gsid EXCEPT ![p] = s]
            /\ tbl'  = [tbl EXCEPT ![p] = @ \cup {s}]
            /\ live' = [live EXCEPT ![p] = @ \cup {s}]
            /\ st'   = [st EXCEPT ![p][s] = Stream("opening", m.sid, m.rwnd)]
            /\ cur'  = [cur EXCEPT ![p] = [obj |-> s, sid |-> 0, did |-> m.sid,
                                           rwnd |-> 0, status |-> "ok"]]
            /\ Goto(p, 0, "start")
            /\ UNCHANGED <<op, ok>>
       ELSE /\ cur'  = [cur EXCEPT ![p] = [obj |-> 0, sid |-> 0, did |-> m.sid,
                                           rwnd |-> 0, status |-> refusal]]
            /\ Call(p, 0, "response")
            /\ UNCHANGED streamVars
    /\ UNCHANGED <<chanVars, wlock, link, asleep, countVars, bug>>

\* start_service_method_thread(): once co_schedule() took it, the method runs.
start_service_method_thread(p) ==
    /\ pc[p][0] = "start"
    /\ \/ /\ pc' = [pc EXCEPT ![p][0] = "started",
                              ![p][cur[p].obj] = IF MethodReadsFirst THEN "read" ELSE "open"]
          /\ UNCHANGED <<cur, op, ok>>
       \/ /\ StartMayFail
          /\ cur' = [cur EXCEPT ![p].status = "internal_error",
                                ![p].rwnd = srwnd(p, cur[p].obj)]
          /\ Call(p, 0, "response")
    /\ UNCHANGED <<chanVars, wlock, link, net, streamVars, asleep, countVars, bug>>

\* What a pointer to stream object s reaches: the object; or, once it is freed, the
\* zeroed memory it left (object 0) or a stream allocated in its place, and so later.
Deref(p, s) == IF s \in live[p] THEN {s} ELSE {0} \cup {o \in live[p] : o > s}

UseAfterFree(p, s) == IF s \in live[p] THEN {} ELSE {"use after free"}

\* sid = st->sid and srwnd(st), read after the method thread was started.
on_create_stream_request_reply(p) ==
    /\ pc[p][0] = "started"
    /\ \E o \in Deref(p, cur[p].obj) :
         cur' = [cur EXCEPT ![p].sid = o,
                            ![p].rwnd = IF o = 0 THEN 0 ELSE srwnd(p, o)]
    /\ bug' = bug \cup UseAfterFree(p, cur[p].obj)
    /\ Call(p, 0, "response")
    /\ UNCHANGED <<chanVars, wlock, link, net, streamVars, asleep, countVars>>

\* The last section of on_create_stream_request().
on_create_stream_request_done(p) ==
    /\ pc[p][0] = "setstate"
    /\ Goto(p, 0, "recv")
    /\ LET s == cur[p].obj IN
       \/ /\ s = 0
          /\ UNCHANGED <<tbl, live, st, asleep, bug>>
       \/ /\ s # 0 /\ cur[p].status = "ok"
          /\ \E o \in Deref(p, s) :
               st' = [st EXCEPT ![p][o].state = IF o = 0 THEN @ ELSE "established"]
          /\ bug' = bug \cup UseAfterFree(p, s)
          /\ signal(p)
          /\ UNCHANGED <<tbl, live>>
       \/ /\ s # 0 /\ cur[p].status # "ok"
          /\ EraseAndDestroy(p, s)
          /\ UNCHANGED <<asleep, bug>>
    /\ UNCHANGED <<chanVars, wlock, link, net, gsid, op, ok, cur, countVars>>

\* corpc_set_stream_state()
SetState(p, s, state) == /\ st' = [st EXCEPT ![p][s].state = state]
                         /\ signal(p)

\* The states a refused stream ends in; no peer sends the status protocol_error.
RefusedState(status) ==
    CASE status = "no_stream_resources" -> "too_many_streams"
      [] status = "no_service"          -> "no_such_service"
      [] status = "no_method"           -> "no_such_method"
      [] status = "internal_error"      -> "remote_internal_error"

ResponseExpected_always(p, s) == s \in tbl[p]

ResponseExpected(p, s) == st[p][s].state = "opening"

\* An unknown stream ends the channel; one that is not opening is reported as
\* "BUG: Invalid stream state" and otherwise ignored.
on_create_stream_responce(p) ==
    /\ Received(p, "response") /\ Consume(p)
    /\ LET m == Head(net[p])
           s == m.did IN
       \/ /\ s \notin tbl[p]
          /\ Goto(p, 0, "shut")
          /\ UNCHANGED <<st, asleep, bug>>
       \/ /\ s \in tbl[p] /\ ~ResponseExpected(p, s)
          /\ bug' = bug \cup {"Invalid stream state"}
          /\ UNCHANGED <<st, asleep, pc>>
       \/ /\ s \in tbl[p] /\ ResponseExpected(p, s)
          /\ IF m.info = "ok"
             THEN st' = [st EXCEPT ![p][s].state = "established",
                                   ![p][s].did   = m.sid,
                                   ![p][s].rwnd  = m.rwnd]
             ELSE st' = [st EXCEPT ![p][s].state = RefusedState(m.info)]
          /\ signal(p)
          /\ UNCHANGED <<pc, bug>>
    /\ UNCHANGED <<chanVars, wlock, link, gsid, tbl, live, op, ok, cur, countVars>>

on_close_stream_notify_flush(p) ==
    /\ Received(p, "close") /\ Consume(p)
    /\ LET s == Head(net[p]).did IN
       IF s \in tbl[p] THEN /\ st' = [st EXCEPT ![p][s].state = "closed_by_remote_party",
                                                ![p][s].rxq = << >>]
                            /\ signal(p)
                       ELSE UNCHANGED <<st, asleep>>
    /\ UNCHANGED <<chanVars, wlock, link, gsid, tbl, live, threadVars, cur, countVars, bug>>

on_close_stream_notify(p) ==
    /\ Received(p, "close") /\ Consume(p)
    /\ LET s == Head(net[p]).did IN
       IF s \in tbl[p] THEN SetState(p, s, "closed_by_remote_party")
                       ELSE UNCHANGED <<st, asleep>>
    /\ UNCHANGED <<chanVars, wlock, link, gsid, tbl, live, threadVars, cur, countVars, bug>>

on_data_ack(p) ==
    /\ Received(p, "ack") /\ Consume(p)
    /\ LET s == Head(net[p]).did IN
       IF s \in tbl[p] THEN /\ st' = [st EXCEPT ![p][s].rwnd = @ + 1]
                            /\ signal(p)
                       ELSE UNCHANGED <<st, asleep>>
    /\ UNCHANGED <<chanVars, wlock, link, gsid, tbl, live, threadVars, cur, countVars, bug>>

\* A data message is complete when its second frame is there; if that is not a
\* payload, the checksum in corpc_proto_recv_msg() does not match and the channel ends.
DataReceived(p) == Received(p, "data") /\ Len(net[p]) > 1

ConsumeData(p) == net' = [net EXCEPT ![p] = Tail(Tail(@))]

\* The queue of a known stream takes the message, if it has room.
on_data_message(p) ==
    /\ DataReceived(p) /\ ConsumeData(p)
    /\ LET s == Head(net[p]).did
           m == net[p][2] IN
       /\ m.code = "payload" => s \in tbl[p]
       /\ IF m.code # "payload"
          THEN /\ bug' = bug \cup {"garbled frame"}
               /\ Goto(p, 0, "shut")
               /\ UNCHANGED <<st, asleep>>
          ELSE IF Len(st[p][s].rxq) >= QueueSize
          THEN /\ bug' = bug \cup {"ccfifo is full"}
               /\ SetState(p, s, "protocol_error")
               /\ Goto(p, 0, "shut")
          ELSE /\ st' = [st EXCEPT ![p][s].rxq = Append(@, m.seq)]
               /\ signal(p)
               /\ UNCHANGED <<pc, bug>>
    /\ UNCHANGED <<chanVars, wlock, link, gsid, tbl, live, op, ok, cur, countVars>>

\* For a stream that is not there, on_data_message() passes NULL to
\* corpc_set_stream_state(), which reads st->state: the process dies and its memory with it.
on_data_message_unknown(p) ==
    /\ DataReceived(p) /\ ConsumeData(p)
    /\ net[p][2].code = "payload"
    /\ Head(net[p]).did \notin tbl[p]
    /\ bug'    = bug \cup {"null stream"}
    /\ pc'     = [pc EXCEPT ![p] = [t \in Thread |-> "crashed"]]
    /\ sock'   = [sock EXCEPT ![p] = FALSE]
    /\ chst'   = [chst EXCEPT ![p] = "closed"]
    /\ held'   = [held EXCEPT ![p] = FALSE]
    /\ tbl'    = [tbl EXCEPT ![p] = {}]
    /\ live'   = [live EXCEPT ![p] = {}]
    /\ asleep' = [asleep EXCEPT ![p] = {}]
    /\ UNCHANGED <<refs, alive, wlock, link, gsid, st, op, ok, cur, countVars>>

\* corpc_proto_recv_msg() fails: the socket was closed here, or the connection is
\* gone, whether or not frames are left in it.
recv_fails(p) ==
    /\ pc[p][0] = "recv" /\ (~sock[p] \/ PeerGone(p))
    /\ Goto(p, 0, "shut")
    /\ UNCHANGED <<chanVars, wlock, link, net, streamVars, op, ok, asleep, cur,
                   countVars, bug>>

\* The end of corpc_channel_thread().
corpc_channel_thread_end(p) ==
    /\ pc[p][0] = "shut"
    /\ close_internal(p)
    /\ Goto(p, 0, "done")
    /\ UNCHANGED <<held, wlock, link, net, streamVars, op, ok, cur, countVars, bug>>

\* The connection is lost.
LinkFails ==
    /\ LinkMayFail /\ link
    /\ link' = FALSE
    /\ UNCHANGED <<chanVars, wlock, net, streamVars, threadVars, asleep, cur,
                   countVars, bug>>

-----------------------------------------------------------------------------

\* The steps of an operation in progress.
ThreadStep(p, t) ==
    \/ acquire_write_lock(p, t)
    \/ corpc_proto_send(p, t)
    \/ corpc_proto_send_payload(p, t)
    \/ send_data_done(p, t)
    \/ release_write_lock(p, t)
    \/ corpc_open_stream_wait(p, t)
    \/ corpc_open_stream_fail(p, t)
    \/ corpc_stream_read_internal(p, t)
    \/ corpc_close_stream_erase(p, t)

\* The steps of the channel thread outside acquire, send and release.
ChannelStep(p) ==
    \/ on_create_stream_request(p)
    \/ start_service_method_thread(p)
    \/ on_create_stream_request_reply(p)
    \/ on_create_stream_request_done(p)
    \/ on_create_stream_responce(p)
    \/ on_close_stream_notify(p)
    \/ on_data_message(p)
    \/ on_data_message_unknown(p)
    \/ on_data_ack(p)
    \/ recv_fails(p)
    \/ corpc_channel_thread_end(p)

\* What the application chooses to do.
AppStep(p) ==
    \/ corpc_open_stream(p)
    \/ corpc_channel_close(p)
    \/ \E t \in Sid : \/ corpc_stream_write(p, t)
                      \/ corpc_stream_read(p, t)
                      \/ corpc_close_stream(p, t)

Next ==
    \/ \E p \in Peer : \/ \E t \in Thread : ThreadStep(p, t)
                       \/ ChannelStep(p)
                       \/ AppStep(p)
    \/ LinkFails

Spec == Init /\ [][Next]_vars

\* Every thread that can run is run again: pclthread() walks its coroutines in
\* turns.  The application owes nothing: it may stop calling at any time.
Fairness == \A p \in Peer : /\ \A t \in Thread : WF_vars(ThreadStep(p, t))
                            /\ WF_vars(ChannelStep(p))

FairSpec == Spec /\ Fairness

-----------------------------------------------------------------------------
(* Properties.                                                             *)

Frames == [code : Codes \cup Ops, sid : Thread, did : Thread, rwnd : Int,
           info : Status \cup Targets \cup {""}, seq : Nat]

Streams == [state : StreamState, did : Thread, rwnd : Int, rxq : Seq(Nat)]

ChanTypes ==
    /\ chst  \in [Peer -> {"established", "closed"}]
    /\ refs  \in [Peer -> Int]
    /\ alive \in [Peer -> BOOLEAN]
    /\ held  \in [Peer -> BOOLEAN]
    /\ sock  \in [Peer -> BOOLEAN]
    /\ wlock \in [Peer -> BOOLEAN]
    /\ link  \in BOOLEAN

NetTypes == net \in [Peer -> Seq(Frames)]

StreamTypes ==
    /\ gsid \in [Peer -> Thread]
    /\ tbl  \in [Peer -> SUBSET Sid]
    /\ live \in [Peer -> SUBSET Sid]
    /\ st   \in [Peer -> [Thread -> Streams]]

ThreadTypes ==
    /\ pc     \in [Peer -> [Thread -> PCs]]
    /\ op     \in [Peer -> [Thread -> Ops]]
    /\ ok     \in [Peer -> [Thread -> BOOLEAN]]
    /\ asleep \in [Peer -> SUBSET Thread]

CurTypes == cur \in [Peer -> [obj : Thread, sid : Thread, did : Thread,
                              rwnd : Int, status : Status]]

CountTypes ==
    /\ nopen \in Nat
    /\ nwr   \in [Peer -> [Sid -> Nat]]
    /\ nrd   \in [Peer -> [Sid -> Nat]]
    /\ bug   \subseteq {"use after free", "Invalid stream state", "ccfifo is full",
                        "garbled frame", "null stream"}

\* The types of the variables.
TypeOK == ChanTypes /\ NetTypes /\ StreamTypes /\ ThreadTypes /\ CurTypes /\ CountTypes

\* channel->write_lock is a plain bool that acquire_write_lock and
\* release_write_lock pass from thread to thread: it is set exactly while one thread
\* is between the two, and never by two.
WriteLockExclusion ==
    \A p \in Peer : Running(p) =>
      /\ wlock[p] <=> \E t \in Thread : pc[p][t] \in Sending
      /\ \A t, u \in Thread : pc[p][t] \in Sending /\ pc[p][u] \in Sending => t = u

\* What each loop around channel_state_wait() waits for.
MayProceed(p, t) ==
    \/ pc[p][t] = "acquire" /\ (NotConnected(p, t) \/ LockIsFree(p, t))
    \/ pc[p][t] = "opening" /\ ~(established(p) /\ st[p][t].state = "opening")
    \/ pc[p][t] = "read" /\ ~NothingToRead(p, t)

\* No thread sleeps in channel_state_wait() while the condition it waits for holds:
\* every section that can make one of those conditions true ends in
\* channel_state_signal().
NoLostWakeup == \A p \in Peer : \A t \in asleep[p] : ~MayProceed(p, t)

\* The payload numbers of the complete data messages for stream s in a direction.
DataFor(frames, s) ==
    LET Is(i) == /\ frames[i].code = "payload" /\ i > 1
                 /\ frames[i-1].code = "data" /\ frames[i-1].did = s
        D == {i \in DOMAIN frames : Is(i)}
    IN  [n \in 1..Cardinality(D) |->
           frames[CHOOSE i \in D : Cardinality({j \in D : j <= i}) = n].seq]

AcksFor(frames, s) ==
    Cardinality({i \in DOMAIN frames : frames[i].code = "ack" /\ frames[i].did = s})

\* 1 if the condition holds.
One(b) == IF b THEN 1 ELSE 0

\* While the connection stands, the messages of a stream are neither lost, duplicated
\* nor reordered: what the receiving end holds and what is on its way to it are
\* exactly the writes it has not read, in order -- also after the writer has closed
\* its end and freed it.
InOrder ==
    \A q \in Peer : \A r \in tbl[q] :
      LET p == Other(q)
          s == st[q][r].did IN
      s # 0 /\ link /\ sock[p] /\ sock[q] =>
        st[q][r].rxq \o DataFor(net[q], r)
          = [i \in 1..(nwr[p][s] - nrd[q][r]) |-> nrd[q][r] + i]

\* "BUG BUG BUG: ccfifo is full" (on_data_message) is not reached, and no message
\* is torn apart by another thread's frames (the checksum always matches).
PeersKeepProtocol == bug \cap {"ccfifo is full", "garbled frame"} = {}

\* While methods read before they return, neither handler of a create request loses its
\* stream: on_create_stream_request() does not touch a stream its method already freed,
\* and "BUG: Invalid stream state" (on_create_stream_responce) is not reached.
StreamSurvivesOpen == bug \cap {"use after free", "Invalid stream state"} = {}

\* A data message is either queued or answered with EPROTO (on_data_message).
DataHandled == "null stream" \notin bug

\* Once channel_destroy() ran, no thread is left that would use the channel, and no
\* stream points to it.
DestroyedIsUnused ==
    \A p \in Peer : ~alive[p] =>
      /\ tbl[p] = {}
      /\ ~held[p]
      /\ \A t \in Thread : pc[p][t] \in {"none", "done", "crashed"}

Usable == {"opening", "established"}

\* A stream that was refused or closed by the other peer never becomes usable again.
ClosedStaysClosed ==
    [][\A p \in Peer : \A s \in Sid :
         /\ s \in tbl[p] /\ st[p][s].state \notin Usable
         => st'[p][s].state \notin Usable]_vars

\* Thread t is in corpc_open_stream(): it takes the write lock, sends the request, waits
\* for the answer or takes the stream out again.
InOpenStream(p, t) == op[p][t] = "request" \/ pc[p][t] \in {"opening", "fail"}

\* Every call of corpc_open_stream() returns, from its wait for the write lock to the
\* answer of the other peer, whatever that is, or the end of the channel -- as long as
\* one peer alone opens streams.  When both do and the connection is full both ways, the
\* two channel threads, the only readers, may wait for write locks for ever
\* (on_create_stream_request).
OpenReturns ==
    Cardinality(Openers) = 1 =>
      \A p \in Peer : \A t \in Sid : InOpenStream(p, t) ~> ~InOpenStream(p, t)

\* When a channel is closed, every call in progress on its streams returns, and the
\* channel thread ends.
CloseReleasesAll ==
    \A p \in Peer : \A t \in Thread :
      ~established(p) /\ pc[p][t] \notin {"none", "open", "done", "crashed"}
        ~> pc[p][t] \in {"none", "open", "done", "crashed"}
=============================================================================
