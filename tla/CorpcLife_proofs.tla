-------------------------- MODULE CorpcLife_proofs --------------------------
(***************************************************************************)
(* Proofs about CorpcLife, for every set of channels and ports and every   *)
(* number of streams.                                                      *)
(***************************************************************************)
EXTENDS CorpcLife, TLAPS

LifeTypeOK ==
    /\ mem \in [Ch -> {"none", "live", "freed"}]
    /\ refs \in [Ch -> Int]
    /\ state \in [Ch -> {"idle", "resolving", "connecting", "accepting", "established", "closed"}]
    /\ sock \in [Ch -> {"none", "open", "closed", "freed"}]
    /\ streams \in [Ch -> Nat]
    /\ thr \in [Ch -> {"none", "scheduled", "handshake", "serving", "ended"}]
    /\ own \in [Ch -> {"none", "resolve", "connect", "wait", "open", "undo",
                       "failed", "closed", "released"}]
    /\ held \in [Ch -> Nat]
    /\ conn \in [Ch -> {"none", "waiting", "accepted", "started", "refused", "done"}]

\* The references the caller of corpc_channel_open() and the thread hold.
OwnerRefs(c)  == IF own[c] \in {"resolve", "connect", "wait", "open", "undo"} THEN 1 ELSE 0
ThreadRefs(c) == IF thr[c] \in {"handshake", "serving"} THEN 1 ELSE 0

\* channel->refs counts the holders, until corpc_channel_open() fails and frees the
\* channel whoever holds it.  The thread that has not run yet holds none.
Counted(c) == own[c] # "failed" => refs[c] = OwnerRefs(c) + ThreadRefs(c) + held[c]

\* A channel that is counted, streams or waits for its thread has its memory.
Kept(c) == own[c] # "failed" /\ (refs[c] > 0 \/ streams[c] > 0 \/ thr[c] = "scheduled")
             => mem[c] = "live"

\* Where the opener, the port and the thread of a channel are when.
Phases(c) ==
    /\ c \in Accepted => own[c] = "none"
    /\ thr[c] \in {"none", "scheduled", "handshake"} => streams[c] = 0 /\ held[c] = 0
    /\ own[c] \in {"resolve", "connect"} => thr[c] = "none"
    /\ own[c] = "connect" => state[c] = "connecting"
    /\ own[c] = "none" /\ c \in Opened => thr[c] = "none" /\ conn[c] = "none"
    /\ own[c] = "wait" =>
         \/ thr[c] = "scheduled" /\ state[c] = "connecting"
         \/ thr[c] = "serving" /\ state[c] = "established"
         \/ thr[c] = "ended" /\ state[c] = "closed"
    /\ own[c] \in {"undo", "failed"} => thr[c] \in {"none", "ended"}
    /\ own[c] \in {"open", "closed", "released"} => thr[c] \in {"serving", "ended"}
    /\ c \in Opened => conn[c] = "none" /\ thr[c] # "handshake"
    /\ conn[c] \in {"none", "waiting", "accepted", "refused"} /\ c \in Accepted => thr[c] = "none"

\* The socket of a channel is there until the thread cannot touch it any more.
SocketKept(c) ==
    /\ thr[c] \in {"scheduled", "handshake", "serving"} => sock[c] # "freed"
    /\ own[c] = "connect" => sock[c] # "freed"
    /\ conn[c] = "accepted" => sock[c] # "freed"

ChannelInv(c) == Counted(c) /\ Kept(c) /\ Phases(c) /\ SocketKept(c)

LifeInv == LifeTypeOK /\ \A c \in Ch : ChannelInv(c)

-----------------------------------------------------------------------------

LEMMA InitInv == Init => LifeInv
  BY LifeAssumption
     DEF Init, LifeInv, LifeTypeOK, ChannelInv, Counted, Kept, Phases, SocketKept,
         OwnerRefs, ThreadRefs, Ch

\* What a step of one channel leaves of all the others.
LEMMA OthersKeep ==
  ASSUME NEW c \in Ch, \A d \in Ch : ChannelInv(d), ChannelInv(c)',
         \A d \in Ch \ {c} : /\ mem'[d] = mem[d] /\ refs'[d] = refs[d] /\ state'[d] = state[d]
                              /\ sock'[d] = sock[d] /\ streams'[d] = streams[d]
                              /\ thr'[d] = thr[d] /\ own'[d] = own[d] /\ held'[d] = held[d]
                              /\ conn'[d] = conn[d]
  PROVE  \A d \in Ch : ChannelInv(d)'
  <1> SUFFICES ASSUME NEW d \in Ch, d # c PROVE ChannelInv(d)'
    OBVIOUS
  <1> QED
    BY DEF ChannelInv, Counted, Kept, Phases, SocketKept, OwnerRefs, ThreadRefs

\* The step of a channel keeps its own part of the invariant; one case per handler.
LEMMA OwnStep ==
  ASSUME LifeInv, NEW c \in Ch,
         \/ corpc_channel_new(c)
         \/ ssl_server_resolve(c)
         \/ ssl_server_connect(c)
         \/ ssl_server_connected(c)
         \/ corpc_channel_open_fails(c)
         \/ corpc_channel_thread(c)
         \/ corpc_channel_handshake(c)
         \/ co_ssl_socket_accept_new(c)
         \/ corpc_channel_accept(c)
         \/ co_ssl_listening_thread(c)
         \/ Arrive(c)
         \/ corpc_channel_close(c)
         \/ corpc_channel_release_handle(c)
         \/ corpc_channel_addref(c)
         \/ corpc_channel_release(c)
         \/ on_create_stream_request(c)
         \/ corpc_close_stream(c)
         \/ corpc_channel_thread_ends(c)
  PROVE  LifeInv'
  <1> USE LifeAssumption DEF Goes
  <1>a. ChannelInv(c) /\ LifeTypeOK
    BY DEF LifeInv
  <1>1. CASE corpc_channel_new(c)
    <2>1. LifeTypeOK'
      BY <1>a, <1>1 DEF LifeTypeOK, corpc_channel_new
    <2>2. ChannelInv(c)'
      BY <1>a, <1>1 DEF LifeTypeOK, ChannelInv, Counted, Kept, Phases, SocketKept,
                      OwnerRefs, ThreadRefs, Ch, corpc_channel_new
    <2>3. \A d \in Ch \ {c} : /\ mem'[d] = mem[d] /\ refs'[d] = refs[d] /\ state'[d] = state[d]
                                /\ sock'[d] = sock[d] /\ streams'[d] = streams[d]
                                /\ thr'[d] = thr[d] /\ own'[d] = own[d] /\ held'[d] = held[d]
                                /\ conn'[d] = conn[d]
      BY <1>a, <1>1 DEF LifeTypeOK, corpc_channel_new
    <2>4. QED
      BY <2>1, <2>2, <2>3, OthersKeep DEF LifeInv
  <1>2. CASE ssl_server_resolve(c)
    <2>1. LifeTypeOK'
      BY <1>a, <1>2 DEF LifeTypeOK, ssl_server_resolve
    <2>2. ChannelInv(c)'
      BY <1>a, <1>2 DEF LifeTypeOK, ChannelInv, Counted, Kept, Phases, SocketKept,
                      OwnerRefs, ThreadRefs, Ch, ssl_server_resolve
    <2>3. \A d \in Ch \ {c} : /\ mem'[d] = mem[d] /\ refs'[d] = refs[d] /\ state'[d] = state[d]
                                /\ sock'[d] = sock[d] /\ streams'[d] = streams[d]
                                /\ thr'[d] = thr[d] /\ own'[d] = own[d] /\ held'[d] = held[d]
                                /\ conn'[d] = conn[d]
      BY <1>a, <1>2 DEF LifeTypeOK, ssl_server_resolve
    <2>4. QED
      BY <2>1, <2>2, <2>3, OthersKeep DEF LifeInv
  <1>3. CASE ssl_server_connect(c)
    <2>1. LifeTypeOK'
      BY <1>a, <1>3 DEF LifeTypeOK, ssl_server_connect
    <2>2. ChannelInv(c)'
      BY <1>a, <1>3 DEF LifeTypeOK, ChannelInv, Counted, Kept, Phases, SocketKept,
                      OwnerRefs, ThreadRefs, Ch, ssl_server_connect
    <2>3. \A d \in Ch \ {c} : /\ mem'[d] = mem[d] /\ refs'[d] = refs[d] /\ state'[d] = state[d]
                                /\ sock'[d] = sock[d] /\ streams'[d] = streams[d]
                                /\ thr'[d] = thr[d] /\ own'[d] = own[d] /\ held'[d] = held[d]
                                /\ conn'[d] = conn[d]
      BY <1>a, <1>3 DEF LifeTypeOK, ssl_server_connect
    <2>4. QED
      BY <2>1, <2>2, <2>3, OthersKeep DEF LifeInv
  <1>4. CASE ssl_server_connected(c)
    <2>1. LifeTypeOK'
      BY <1>a, <1>4 DEF LifeTypeOK, ssl_server_connected
    <2>2. ChannelInv(c)'
      BY <1>a, <1>4 DEF LifeTypeOK, ChannelInv, Counted, Kept, Phases, SocketKept,
                      OwnerRefs, ThreadRefs, Ch, ssl_server_connected
    <2>3. \A d \in Ch \ {c} : /\ mem'[d] = mem[d] /\ refs'[d] = refs[d] /\ state'[d] = state[d]
                                /\ sock'[d] = sock[d] /\ streams'[d] = streams[d]
                                /\ thr'[d] = thr[d] /\ own'[d] = own[d] /\ held'[d] = held[d]
                                /\ conn'[d] = conn[d]
      BY <1>a, <1>4 DEF LifeTypeOK, ssl_server_connected
    <2>4. QED
      BY <2>1, <2>2, <2>3, OthersKeep DEF LifeInv
  <1>5. CASE corpc_channel_open_fails(c)
    <2>1. LifeTypeOK'
      BY <1>a, <1>5 DEF LifeTypeOK, corpc_channel_open_fails
    <2>2. ChannelInv(c)'
      BY <1>a, <1>5 DEF LifeTypeOK, ChannelInv, Counted, Kept, Phases, SocketKept,
                      OwnerRefs, ThreadRefs, Ch, corpc_channel_open_fails
    <2>3. \A d \in Ch \ {c} : /\ mem'[d] = mem[d] /\ refs'[d] = refs[d] /\ state'[d] = state[d]
                                /\ sock'[d] = sock[d] /\ streams'[d] = streams[d]
                                /\ thr'[d] = thr[d] /\ own'[d] = own[d] /\ held'[d] = held[d]
                                /\ conn'[d] = conn[d]
      BY <1>a, <1>5 DEF LifeTypeOK, corpc_channel_open_fails
    <2>4. QED
      BY <2>1, <2>2, <2>3, OthersKeep DEF LifeInv
  <1>6. CASE corpc_channel_thread(c)
    <2>1. LifeTypeOK'
      BY <1>a, <1>6 DEF LifeTypeOK, corpc_channel_thread
    <2>2. ChannelInv(c)'
      BY <1>a, <1>6 DEF LifeTypeOK, ChannelInv, Counted, Kept, Phases, SocketKept,
                      OwnerRefs, ThreadRefs, Ch, corpc_channel_thread
    <2>3. \A d \in Ch \ {c} : /\ mem'[d] = mem[d] /\ refs'[d] = refs[d] /\ state'[d] = state[d]
                                /\ sock'[d] = sock[d] /\ streams'[d] = streams[d]
                                /\ thr'[d] = thr[d] /\ own'[d] = own[d] /\ held'[d] = held[d]
                                /\ conn'[d] = conn[d]
      BY <1>a, <1>6 DEF LifeTypeOK, corpc_channel_thread
    <2>4. QED
      BY <2>1, <2>2, <2>3, OthersKeep DEF LifeInv
  <1>7. CASE corpc_channel_handshake(c)
    <2>1. LifeTypeOK'
      BY <1>a, <1>7 DEF LifeTypeOK, corpc_channel_handshake, ThreadLeaves, corpc_channel_close_internal, corpc_channel_release_internal, LastUse
    <2>2. ChannelInv(c)'
      BY <1>a, <1>7 DEF LifeTypeOK, ChannelInv, Counted, Kept, Phases, SocketKept,
                      OwnerRefs, ThreadRefs, Ch, corpc_channel_handshake, ThreadLeaves, corpc_channel_close_internal, corpc_channel_release_internal, LastUse
    <2>3. \A d \in Ch \ {c} : /\ mem'[d] = mem[d] /\ refs'[d] = refs[d] /\ state'[d] = state[d]
                                /\ sock'[d] = sock[d] /\ streams'[d] = streams[d]
                                /\ thr'[d] = thr[d] /\ own'[d] = own[d] /\ held'[d] = held[d]
                                /\ conn'[d] = conn[d]
      BY <1>a, <1>7 DEF LifeTypeOK, corpc_channel_handshake, ThreadLeaves, corpc_channel_close_internal, corpc_channel_release_internal, LastUse
    <2>4. QED
      BY <2>1, <2>2, <2>3, OthersKeep DEF LifeInv
  <1>8. CASE co_ssl_socket_accept_new(c)
    <2>1. LifeTypeOK'
      BY <1>a, <1>8 DEF LifeTypeOK, co_ssl_socket_accept_new
    <2>2. ChannelInv(c)'
      BY <1>a, <1>8 DEF LifeTypeOK, ChannelInv, Counted, Kept, Phases, SocketKept,
                      OwnerRefs, ThreadRefs, Ch, co_ssl_socket_accept_new
    <2>3. \A d \in Ch \ {c} : /\ mem'[d] = mem[d] /\ refs'[d] = refs[d] /\ state'[d] = state[d]
                                /\ sock'[d] = sock[d] /\ streams'[d] = streams[d]
                                /\ thr'[d] = thr[d] /\ own'[d] = own[d] /\ held'[d] = held[d]
                                /\ conn'[d] = conn[d]
      BY <1>a, <1>8 DEF LifeTypeOK, co_ssl_socket_accept_new
    <2>4. QED
      BY <2>1, <2>2, <2>3, OthersKeep DEF LifeInv
  <1>9. CASE corpc_channel_accept(c)
    <2>1. LifeTypeOK'
      BY <1>a, <1>9 DEF LifeTypeOK, corpc_channel_accept
    <2>0. /\ conn[c] = "accepted" /\ own[c] = "none" /\ c \in Accepted /\ c \notin Opened
          /\ thr[c] = "none" /\ streams[c] = 0 /\ held[c] = 0 /\ refs[c] = 0 /\ sock[c] # "freed"
      BY <1>a, <1>9 DEF LifeTypeOK, ChannelInv, Counted, Phases, SocketKept, OwnerRefs,
                        ThreadRefs, Ch, corpc_channel_accept
    <2>2. ChannelInv(c)'
      <3>1. own'[c] = "none" /\ streams'[c] = 0 /\ held'[c] = 0 /\ sock'[c] # "freed" /\ refs'[c] = 0
        BY <1>9, <2>0, <1>a DEF corpc_channel_accept, LifeTypeOK
      <3>2. \/ mem'[c] = "live" /\ thr'[c] = "scheduled" /\ conn'[c] = "started"
            \/ thr'[c] = "none" /\ conn'[c] = "refused"
        BY <1>9, <2>0, <1>a DEF corpc_channel_accept, LifeTypeOK
      <3>3. QED
        BY <2>0, <3>1, <3>2 DEF ChannelInv, Counted, Kept, Phases, SocketKept, OwnerRefs,
                                ThreadRefs
    <2>3. \A d \in Ch \ {c} : /\ mem'[d] = mem[d] /\ refs'[d] = refs[d] /\ state'[d] = state[d]
                                /\ sock'[d] = sock[d] /\ streams'[d] = streams[d]
                                /\ thr'[d] = thr[d] /\ own'[d] = own[d] /\ held'[d] = held[d]
                                /\ conn'[d] = conn[d]
      BY <1>a, <1>9 DEF LifeTypeOK, corpc_channel_accept
    <2>4. QED
      BY <2>1, <2>2, <2>3, OthersKeep DEF LifeInv
  <1>10. CASE co_ssl_listening_thread(c)
    <2>1. LifeTypeOK'
      BY <1>a, <1>10 DEF LifeTypeOK, co_ssl_listening_thread
    <2>2. ChannelInv(c)'
      BY <1>a, <1>10 DEF LifeTypeOK, ChannelInv, Counted, Kept, Phases, SocketKept,
                      OwnerRefs, ThreadRefs, Ch, co_ssl_listening_thread
    <2>3. \A d \in Ch \ {c} : /\ mem'[d] = mem[d] /\ refs'[d] = refs[d] /\ state'[d] = state[d]
                                /\ sock'[d] = sock[d] /\ streams'[d] = streams[d]
                                /\ thr'[d] = thr[d] /\ own'[d] = own[d] /\ held'[d] = held[d]
                                /\ conn'[d] = conn[d]
      BY <1>a, <1>10 DEF LifeTypeOK, co_ssl_listening_thread
    <2>4. QED
      BY <2>1, <2>2, <2>3, OthersKeep DEF LifeInv
  <1>11. CASE Arrive(c)
    <2>1. LifeTypeOK'
      BY <1>a, <1>11 DEF LifeTypeOK, Arrive
    <2>2. ChannelInv(c)'
      BY <1>a, <1>11 DEF LifeTypeOK, ChannelInv, Counted, Kept, Phases, SocketKept,
                      OwnerRefs, ThreadRefs, Ch, Arrive
    <2>3. \A d \in Ch \ {c} : /\ mem'[d] = mem[d] /\ refs'[d] = refs[d] /\ state'[d] = state[d]
                                /\ sock'[d] = sock[d] /\ streams'[d] = streams[d]
                                /\ thr'[d] = thr[d] /\ own'[d] = own[d] /\ held'[d] = held[d]
                                /\ conn'[d] = conn[d]
      BY <1>a, <1>11 DEF LifeTypeOK, Arrive
    <2>4. QED
      BY <2>1, <2>2, <2>3, OthersKeep DEF LifeInv
  <1>12. CASE corpc_channel_close(c)
    <2>1. LifeTypeOK'
      BY <1>a, <1>12 DEF LifeTypeOK, corpc_channel_close, corpc_channel_close_internal, corpc_channel_release_internal, LastUse
    <2>2. ChannelInv(c)'
      BY <1>a, <1>12 DEF LifeTypeOK, ChannelInv, Counted, Kept, Phases, SocketKept,
                      OwnerRefs, ThreadRefs, Ch, corpc_channel_close, corpc_channel_close_internal, corpc_channel_release_internal, LastUse
    <2>3. \A d \in Ch \ {c} : /\ mem'[d] = mem[d] /\ refs'[d] = refs[d] /\ state'[d] = state[d]
                                /\ sock'[d] = sock[d] /\ streams'[d] = streams[d]
                                /\ thr'[d] = thr[d] /\ own'[d] = own[d] /\ held'[d] = held[d]
                                /\ conn'[d] = conn[d]
      BY <1>a, <1>12 DEF LifeTypeOK, corpc_channel_close, corpc_channel_close_internal, corpc_channel_release_internal, LastUse
    <2>4. QED
      BY <2>1, <2>2, <2>3, OthersKeep DEF LifeInv
  <1>13. CASE corpc_channel_release_handle(c)
    <2>1. LifeTypeOK'
      BY <1>a, <1>13 DEF LifeTypeOK, corpc_channel_release_handle, corpc_channel_release_internal, LastUse
    <2>2. ChannelInv(c)'
      BY <1>a, <1>13 DEF LifeTypeOK, ChannelInv, Counted, Kept, Phases, SocketKept,
                      OwnerRefs, ThreadRefs, Ch, corpc_channel_release_handle, corpc_channel_release_internal, LastUse
    <2>3. \A d \in Ch \ {c} : /\ mem'[d] = mem[d] /\ refs'[d] = refs[d] /\ state'[d] = state[d]
                                /\ sock'[d] = sock[d] /\ streams'[d] = streams[d]
                                /\ thr'[d] = thr[d] /\ own'[d] = own[d] /\ held'[d] = held[d]
                                /\ conn'[d] = conn[d]
      BY <1>a, <1>13 DEF LifeTypeOK, corpc_channel_release_handle, corpc_channel_release_internal, LastUse
    <2>4. QED
      BY <2>1, <2>2, <2>3, OthersKeep DEF LifeInv
  <1>14. CASE corpc_channel_addref(c)
    <2>1. LifeTypeOK'
      BY <1>a, <1>14 DEF LifeTypeOK, corpc_channel_addref
    <2>2. ChannelInv(c)'
      <3>1. /\ refs'[c] = refs[c] + 1 /\ held'[c] = held[c] + 1 /\ held[c] \in Nat /\ refs[c] \in Int
            /\ UNCHANGED <<mem, state, sock, streams, thr, own, conn>>
        BY <1>a, <1>14 DEF LifeTypeOK, corpc_channel_addref
      <3>2. Counted(c)'
        BY <1>a, <3>1 DEF ChannelInv, Counted, OwnerRefs, ThreadRefs
      <3>3. thr[c] \notin {"none", "scheduled", "handshake"} /\ (own[c] = "failed" \/ mem[c] = "live")
        BY <1>a, <1>14 DEF LifeTypeOK, ChannelInv, Counted, Kept, Phases, OwnerRefs, ThreadRefs, corpc_channel_addref
      <3>4. QED
        BY <1>a, <3>1, <3>2, <3>3 DEF ChannelInv, Kept, Phases, SocketKept
    <2>3. \A d \in Ch \ {c} : /\ mem'[d] = mem[d] /\ refs'[d] = refs[d] /\ state'[d] = state[d]
                                /\ sock'[d] = sock[d] /\ streams'[d] = streams[d]
                                /\ thr'[d] = thr[d] /\ own'[d] = own[d] /\ held'[d] = held[d]
                                /\ conn'[d] = conn[d]
      BY <1>a, <1>14 DEF LifeTypeOK, corpc_channel_addref
    <2>4. QED
      BY <2>1, <2>2, <2>3, OthersKeep DEF LifeInv
  <1>15. CASE corpc_channel_release(c)
    <2>1. LifeTypeOK'
      BY <1>a, <1>15 DEF LifeTypeOK, corpc_channel_release, corpc_channel_release_internal, LastUse
    <2>2. ChannelInv(c)'
      BY <1>a, <1>15 DEF LifeTypeOK, ChannelInv, Counted, Kept, Phases, SocketKept,
                      OwnerRefs, ThreadRefs, Ch, corpc_channel_release, corpc_channel_release_internal, LastUse
    <2>3. \A d \in Ch \ {c} : /\ mem'[d] = mem[d] /\ refs'[d] = refs[d] /\ state'[d] = state[d]
                                /\ sock'[d] = sock[d] /\ streams'[d] = streams[d]
                                /\ thr'[d] = thr[d] /\ own'[d] = own[d] /\ held'[d] = held[d]
                                /\ conn'[d] = conn[d]
      BY <1>a, <1>15 DEF LifeTypeOK, corpc_channel_release, corpc_channel_release_internal, LastUse
    <2>4. QED
      BY <2>1, <2>2, <2>3, OthersKeep DEF LifeInv
  <1>16. CASE on_create_stream_request(c)
    <2>1. LifeTypeOK'
      BY <1>a, <1>16 DEF LifeTypeOK, on_create_stream_request
    <2>2. ChannelInv(c)'
      BY <1>a, <1>16 DEF LifeTypeOK, ChannelInv, Counted, Kept, Phases, SocketKept,
                      OwnerRefs, ThreadRefs, Ch, on_create_stream_request
    <2>3. \A d \in Ch \ {c} : /\ mem'[d] = mem[d] /\ refs'[d] = refs[d] /\ state'[d] = state[d]
                                /\ sock'[d] = sock[d] /\ streams'[d] = streams[d]
                                /\ thr'[d] = thr[d] /\ own'[d] = own[d] /\ held'[d] = held[d]
                                /\ conn'[d] = conn[d]
      BY <1>a, <1>16 DEF LifeTypeOK, on_create_stream_request
    <2>4. QED
      BY <2>1, <2>2, <2>3, OthersKeep DEF LifeInv
  <1>17. CASE corpc_close_stream(c)
    <2>1. LifeTypeOK'
      BY <1>a, <1>17 DEF LifeTypeOK, corpc_close_stream
    <2>2. ChannelInv(c)'
      BY <1>a, <1>17 DEF LifeTypeOK, ChannelInv, Counted, Kept, Phases, SocketKept,
                      OwnerRefs, ThreadRefs, Ch, corpc_close_stream
    <2>3. \A d \in Ch \ {c} : /\ mem'[d] = mem[d] /\ refs'[d] = refs[d] /\ state'[d] = state[d]
                                /\ sock'[d] = sock[d] /\ streams'[d] = streams[d]
                                /\ thr'[d] = thr[d] /\ own'[d] = own[d] /\ held'[d] = held[d]
                                /\ conn'[d] = conn[d]
      BY <1>a, <1>17 DEF LifeTypeOK, corpc_close_stream
    <2>4. QED
      BY <2>1, <2>2, <2>3, OthersKeep DEF LifeInv
  <1>18. CASE corpc_channel_thread_ends(c)
    <2>1. LifeTypeOK'
      BY <1>a, <1>18 DEF LifeTypeOK, corpc_channel_thread_ends, ThreadLeaves, corpc_channel_close_internal, corpc_channel_release_internal, LastUse
    <2>2. ChannelInv(c)'
      BY <1>a, <1>18 DEF LifeTypeOK, ChannelInv, Counted, Kept, Phases, SocketKept,
                      OwnerRefs, ThreadRefs, Ch, corpc_channel_thread_ends, ThreadLeaves, corpc_channel_close_internal, corpc_channel_release_internal, LastUse
    <2>3. \A d \in Ch \ {c} : /\ mem'[d] = mem[d] /\ refs'[d] = refs[d] /\ state'[d] = state[d]
                                /\ sock'[d] = sock[d] /\ streams'[d] = streams[d]
                                /\ thr'[d] = thr[d] /\ own'[d] = own[d] /\ held'[d] = held[d]
                                /\ conn'[d] = conn[d]
      BY <1>a, <1>18 DEF LifeTypeOK, corpc_channel_thread_ends, ThreadLeaves, corpc_channel_close_internal, corpc_channel_release_internal, LastUse
    <2>4. QED
      BY <2>1, <2>2, <2>3, OthersKeep DEF LifeInv
  <1> QED
    BY <1>1, <1>2, <1>3, <1>4, <1>5, <1>6, <1>7, <1>8, <1>9, <1>10, <1>11, <1>12, <1>13, <1>14, <1>15, <1>16, <1>17, <1>18

\* The ports say nothing of the channels that exist.
LEMMA PortStep ==
  ASSUME LifeInv, UNCHANGED <<mem, refs, state, sock, streams, thr, own, held, conn>>
  PROVE  LifeInv'
  BY DEF LifeInv, LifeTypeOK, ChannelInv, Counted, Kept, Phases, SocketKept,
         OwnerRefs, ThreadRefs

LEMMA StepInv == LifeInv /\ [Next]_vars => LifeInv'
  <1> SUFFICES ASSUME LifeInv, [Next]_vars PROVE LifeInv'
    OBVIOUS
  <1>1. ASSUME NEW c \in Ch, \/ Opener(c) \/ Thread(c) \/ Port(c) \/ Arrive(c)
                              \/ corpc_channel_close(c) \/ corpc_channel_release_handle(c)
                              \/ corpc_channel_addref(c) \/ corpc_channel_release(c)
                              \/ on_create_stream_request(c) \/ corpc_close_stream(c)
                              \/ corpc_channel_thread_ends(c)
        PROVE  LifeInv'
    BY <1>1, OwnStep DEF Opener, Thread, Port
  <1>2. ASSUME NEW p \in Ports, co_ssl_server_add_port(p) PROVE LifeInv'
    BY <1>2, PortStep DEF co_ssl_server_add_port
  <1>3. CASE co_ssl_server_start
    BY <1>3, PortStep DEF co_ssl_server_start
  <1>4. CASE UNCHANGED vars
    BY <1>4, PortStep DEF vars
  <1>5. QED
    BY <1>1, <1>2, <1>3, <1>4 DEF Next

LEMMA Invariance == Spec => []LifeInv
  BY InitInv, StepInv, PTL DEF Spec

\* Channels and their holders: the reference count of corpc_channel_release_internal()
\* and the phases of opening and accepting keep a channel, and its socket, for as long
\* as its thread, its owner, a stream or a holder may touch it.
THEOREM ValidHandles == Spec => []HandlesAreValid
  <1>1. LifeInv => HandlesAreValid
    BY DEF LifeInv, LifeTypeOK, ChannelInv, Counted, Kept, Phases, SocketKept, OwnerRefs,
           ThreadRefs, HandlesAreValid, ThreadUses, OwnerUses, StreamUses, HolderUses
  <1>2. QED
    BY <1>1, Invariance, PTL
=============================================================================
