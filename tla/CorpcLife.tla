----------------------------- MODULE CorpcLife -----------------------------
(* The life of a corpc channel, from corpc_channel_open() or the accept of a
   listening port to the free(): who holds the channel, who closes it and who
   frees it.  Every channel is used by its own coroutine corpc_channel_thread(),
   by the coroutines of its streams and, on the connecting side, by the caller
   of corpc_channel_open(), which keeps the handle.

   The sections the code runs under the global channel lock are single steps.
   co_schedule() is taken to answer truthfully; module CoSched has what it
   really answers. *)
EXTENDS Naturals, Integers, FiniteSets

CONSTANTS Opened,     \* channels of corpc_channel_open()
          Accepted,   \* connections that reach the server's ports
          Ports,      \* the ports the program adds to its server
          MaxPorts,   \* max_nb_ports of the server
          MaxStreams, \* bound: streams of a channel at a time
          MaxHeld     \* bound: references of corpc_channel_addref() out at a time

ASSUME LifeAssumption == /\ Opened \cap Accepted = {}
                         /\ MaxPorts \in Nat /\ MaxStreams \in Nat /\ MaxHeld \in Nat

Ch == Opened \cup Accepted

VARIABLES mem,      \* mem[c]: "none", "live", "freed"
          refs,     \* refs[c]: channel->refs
          state,    \* state[c]: channel->state
          sock,     \* sock[c]: its ssl_sock: "none", "open", "closed", "freed"
          streams,  \* streams[c]: size of channel->streams
          thr,      \* thr[c]: where corpc_channel_thread() is
          own,      \* own[c]: where the caller of corpc_channel_open() is
          held,     \* held[c]: references taken with corpc_channel_addref()
          conn,     \* conn[c]: the connection at the port: "none", "waiting",
                    \* "accepted", "started", "refused", "done"
          ports     \* ports[p]: "none", "added", "listening"
vars == <<mem, refs, state, sock, streams, thr, own, held, conn, ports>>

Init == /\ mem = [c \in Ch |-> "none"]
        /\ refs = [c \in Ch |-> 0]
        /\ state = [c \in Ch |-> "idle"]
        /\ sock = [c \in Ch |-> "none"]
        /\ streams = [c \in Ch |-> 0]
        /\ thr = [c \in Ch |-> "none"]
        /\ own = [c \in Ch |-> "none"]
        /\ held = [c \in Ch |-> 0]
        /\ conn = [c \in Ch |-> "none"]
        /\ ports = [p \in Ports |-> "none"]

Goes(f, c, v) == f' = [f EXCEPT ![c] = v]

-----------------------------------------------------------------------------
(* Variants, one plausible bug each. *)

release_ignores_streams(c, r) == r < 1

accept_keeps_reference(c) ==
    /\ conn[c] = "accepted"
    /\ Goes(mem, c, "live") /\ Goes(refs, c, 1)
    /\ Goes(state, c, "accepting")
    /\ Goes(thr, c, "scheduled") /\ Goes(conn, c, "started")
    /\ UNCHANGED <<sock, streams, own, held, ports>>

listening_thread_stops(c) ==
    /\ conn[c] = "started"
    /\ Goes(conn, c, "done")
    /\ UNCHANGED <<mem, refs, state, sock, streams, thr, own, held, ports>>

-----------------------------------------------------------------------------
(* References. *)

\* corpc_channel_release_internal(): the last reference frees the channel,
\* unless it still has streams: the last of those does.
LastUse(c, r) == r < 1 /\ streams[c] < 1
corpc_channel_release_internal(c) ==
    /\ Goes(refs, c, refs[c] - 1)
    /\ Goes(mem, c, IF LastUse(c, refs[c] - 1) THEN "freed" ELSE mem[c])

\* corpc_channel_close_internal(): the socket is closed and not freed.
corpc_channel_close_internal(c) ==
    /\ Goes(sock, c, IF sock[c] = "open" THEN "closed" ELSE sock[c])
    /\ Goes(state, c, "closed")
    /\ corpc_channel_release_internal(c)

\* whoever was given the channel by its owner or by a stream takes references
\* of its own and drops them
corpc_channel_addref(c) ==
    /\ held[c] < MaxHeld /\ (own[c] = "open" \/ streams[c] > 0)
    /\ Goes(held, c, held[c] + 1)
    /\ Goes(refs, c, refs[c] + 1)
    /\ UNCHANGED <<mem, state, sock, streams, thr, own, conn, ports>>
corpc_channel_release(c) ==
    /\ held[c] > 0
    /\ Goes(held, c, held[c] - 1)
    /\ corpc_channel_release_internal(c)
    /\ UNCHANGED <<state, sock, streams, thr, own, conn, ports>>

-----------------------------------------------------------------------------
(* The connecting side. *)

corpc_channel_new(c) ==
    /\ own[c] = "none" /\ c \in Opened
    /\ \/ /\ Goes(mem, c, "live")
          /\ Goes(refs, c, 1)
          /\ Goes(state, c, "resolving")
          /\ Goes(own, c, "resolve")
       \/ /\ Goes(own, c, "failed")             \* no memory
          /\ UNCHANGED <<mem, refs, state>>
    /\ UNCHANGED <<sock, streams, thr, held, conn, ports>>

\* co_server_resolve() and co_ssl_socket_create_new()
ssl_server_resolve(c) ==
    /\ own[c] = "resolve"
    /\ \/ /\ Goes(sock, c, "open")
          /\ Goes(state, c, "connecting")
          /\ Goes(own, c, "connect")
       \/ /\ Goes(own, c, "undo")
          /\ UNCHANGED <<sock, state>>
    /\ UNCHANGED <<mem, refs, streams, thr, held, conn, ports>>

\* co_ssl_socket_connect() and onconnect() may fail, and so may co_schedule()
ssl_server_connect(c) ==
    /\ own[c] = "connect"
    /\ \/ /\ Goes(thr, c, "scheduled")
          /\ Goes(own, c, "wait")
       \/ /\ Goes(own, c, "undo")
          /\ UNCHANGED thr
    /\ UNCHANGED <<mem, refs, state, sock, streams, held, conn, ports>>

\* channel_state_wait() until the thread has moved the state on: by now the
\* channel may have been established and closed again
ssl_server_connected(c) ==
    /\ own[c] = "wait" /\ state[c] # "connecting"
    /\ Goes(own, c, IF state[c] = "established" THEN "open" ELSE "undo")
    /\ UNCHANGED <<mem, refs, state, sock, streams, thr, held, conn, ports>>

\* the failure path of ssl_server_connect(), then channel_destroy(), which
\* asks neither the references nor the streams
corpc_channel_open_fails(c) ==
    /\ own[c] = "undo"
    /\ Goes(sock, c, IF sock[c] = "none" THEN "none" ELSE "freed")
    /\ Goes(state, c, "idle")
    /\ Goes(mem, c, "freed")
    /\ Goes(own, c, "failed")
    /\ UNCHANGED <<refs, streams, thr, held, conn, ports>>

\* corpc_channel_close(): the handle is gone
corpc_channel_close(c) ==
    /\ own[c] = "open"
    /\ Goes(own, c, "closed")
    /\ corpc_channel_close_internal(c)
    /\ UNCHANGED <<streams, thr, held, conn, ports>>

\* the owner may drop its reference instead and leave the connection be
corpc_channel_release_handle(c) ==
    /\ own[c] = "open"
    /\ Goes(own, c, "released")
    /\ corpc_channel_release_internal(c)
    /\ UNCHANGED <<state, sock, streams, thr, held, conn, ports>>

-----------------------------------------------------------------------------
(* corpc_channel_thread(). *)

ThreadLeaves(c) == Goes(thr, c, "ended") /\ corpc_channel_close_internal(c)

corpc_channel_thread(c) ==
    /\ thr[c] = "scheduled"
    /\ Goes(refs, c, refs[c] + 1)
    /\ IF state[c] = "accepting"
       THEN Goes(thr, c, "handshake") /\ UNCHANGED state
       ELSE /\ Goes(thr, c, "serving")
            /\ Goes(state, c, IF state[c] = "connecting"
                              THEN "established" ELSE state[c])
    /\ UNCHANGED <<mem, sock, streams, own, held, conn, ports>>

\* co_ssl_accept() and onaccept()
corpc_channel_handshake(c) ==
    /\ thr[c] = "handshake"
    /\ \/ /\ sock[c] = "open"
          /\ Goes(thr, c, "serving")
          /\ Goes(state, c, "established")
          /\ UNCHANGED <<refs, mem, sock>>
       \/ ThreadLeaves(c)
    /\ UNCHANGED <<streams, own, held, conn, ports>>

\* a create_stream_request starts the coroutine of a service method
on_create_stream_request(c) ==
    /\ thr[c] = "serving" /\ streams[c] < MaxStreams
    /\ Goes(streams, c, streams[c] + 1)
    /\ UNCHANGED <<mem, refs, state, sock, thr, own, held, conn, ports>>

\* corpc_proto_recv_msg() fails: the peer is gone or the socket was closed
corpc_channel_thread_ends(c) ==
    /\ thr[c] = "serving"
    /\ ThreadLeaves(c)
    /\ UNCHANGED <<streams, own, held, conn, ports>>

corpc_close_stream(c) ==
    /\ streams[c] > 0
    /\ Goes(streams, c, streams[c] - 1)
    /\ Goes(mem, c, IF streams[c] = 1 /\ refs[c] < 1 THEN "freed" ELSE mem[c])
    /\ UNCHANGED <<refs, state, sock, thr, own, held, conn, ports>>

-----------------------------------------------------------------------------
(* The server, its ports and their coroutines. *)

\* corpc_server_add_port(): ENOBUFS when the array is full
co_ssl_server_add_port(p) ==
    /\ ports[p] = "none"
    /\ Cardinality({q \in Ports : ports[q] # "none"}) < MaxPorts
    /\ Goes(ports, p, "added")
    /\ UNCHANGED <<mem, refs, state, sock, streams, thr, own, held, conn>>

\* co_ssl_server_start(): stops at the first port that cannot listen; the
\* ports before it go on listening
co_ssl_server_start ==
    /\ \E p \in Ports : ports[p] = "added"
    /\ \E ok \in SUBSET {p \in Ports : ports[p] = "added"} :
          ports' = [p \in Ports |-> IF p \in ok THEN "listening" ELSE ports[p]]
    /\ UNCHANGED <<mem, refs, state, sock, streams, thr, own, held, conn>>

Listening == \E p \in Ports : ports[p] = "listening"

\* external: a peer connects
Arrive(c) ==
    /\ c \in Accepted /\ conn[c] = "none" /\ Listening
    /\ Goes(conn, c, "waiting")
    /\ UNCHANGED <<mem, refs, state, sock, streams, thr, own, held, ports>>

\* co_ssl_socket_accept_new(): it returns the socket even when the accept, or
\* the SSL object, has failed; the socket is closed then
co_ssl_socket_accept_new(c) ==
    /\ conn[c] = "waiting" /\ Listening
    /\ \E s \in {"open", "closed"} : Goes(sock, c, s)
    /\ Goes(conn, c, "accepted")
    /\ UNCHANGED <<mem, refs, state, streams, thr, own, held, ports>>

\* corpc_channel_accept(): refs = 0, the thread takes the only reference
corpc_channel_accept(c) ==
    /\ conn[c] = "accepted"
    /\ \/ /\ Goes(mem, c, "live")
          /\ Goes(refs, c, 0)
          /\ Goes(state, c, "accepting")
          /\ Goes(thr, c, "scheduled")
          /\ Goes(conn, c, "started")
       \/ /\ Goes(mem, c, "freed")              \* co_schedule() fails
          /\ Goes(conn, c, "refused")
          /\ UNCHANGED <<refs, state, thr>>
       \/ /\ Goes(conn, c, "refused")           \* corpc_channel_new() fails
          /\ UNCHANGED <<mem, refs, state, thr>>
    /\ UNCHANGED <<sock, streams, own, held, ports>>

\* onaccept() returned: the socket of a refused connection is destroyed
co_ssl_listening_thread(c) ==
    /\ conn[c] \in {"started", "refused"}
    /\ Goes(conn, c, "done")
    /\ Goes(sock, c, IF conn[c] = "refused" THEN "freed" ELSE sock[c])
    /\ UNCHANGED <<mem, refs, state, streams, thr, own, held, ports>>

-----------------------------------------------------------------------------
Opener(c) == \/ corpc_channel_new(c)
             \/ ssl_server_resolve(c)
             \/ ssl_server_connect(c)
             \/ ssl_server_connected(c)
             \/ corpc_channel_open_fails(c)

Thread(c) == corpc_channel_thread(c) \/ corpc_channel_handshake(c)

Port(c) == \/ co_ssl_socket_accept_new(c)
           \/ corpc_channel_accept(c)
           \/ co_ssl_listening_thread(c)

Next == \/ \E c \in Ch : \/ Opener(c) \/ Thread(c) \/ Port(c) \/ Arrive(c)
                         \/ corpc_channel_close(c) \/ corpc_channel_release_handle(c)
                         \/ corpc_channel_addref(c) \/ corpc_channel_release(c)
                         \/ on_create_stream_request(c) \/ corpc_close_stream(c)
                         \/ corpc_channel_thread_ends(c)
        \/ \E p \in Ports : co_ssl_server_add_port(p)
        \/ co_ssl_server_start

Spec == Init /\ [][Next]_vars

\* A closed socket ends the thread's receive, and the streams of a closed
\* channel fail, so their coroutines come to corpc_close_stream(); holders
\* give their references back.  A peer need not hang up, and the owner of a
\* channel need not close it.
FairSpec == /\ Spec
            /\ \A c \in Ch :
                 /\ WF_vars(Opener(c)) /\ WF_vars(Thread(c)) /\ WF_vars(Port(c))
                 /\ WF_vars(corpc_channel_release(c))
                 /\ WF_vars(state[c] = "closed" /\ corpc_channel_thread_ends(c))
                 /\ WF_vars(state[c] = "closed" /\ corpc_close_stream(c))

-----------------------------------------------------------------------------
(* Properties. *)

\* Who may still touch channel c.  The streams of a channel whose open failed
\* are left out: corpc_channel_open() frees it under them.
ThreadUses(c) == thr[c] \in {"scheduled", "handshake", "serving"}
OwnerUses(c) == own[c] \notin {"none", "failed", "closed", "released"}
StreamUses(c) == streams[c] > 0 /\ own[c] \notin {"undo", "failed"}
HolderUses(c) == held[c] > 0 /\ own[c] \notin {"undo", "failed"}

\* No channel is freed, whoever drops the last reference, while its thread, the
\* caller that has its handle, a stream or a holder of a reference can still
\* touch it; and its socket is never freed under its thread.
HandlesAreValid ==
    \A c \in Ch :
       /\ ThreadUses(c) \/ OwnerUses(c) \/ StreamUses(c) \/ HolderUses(c)
             => mem[c] = "live"
       /\ ThreadUses(c) => sock[c] # "freed"

\* A channel whose thread has ended is freed in the end: an accepted one
\* always, an opened one once its owner has closed or released it.
FreedAtLast ==
    \A c \in Ch :
       thr[c] = "ended" /\ (c \in Accepted \/ own[c] \in {"closed", "released"})
          ~> mem[c] = "freed"
=============================================================================
