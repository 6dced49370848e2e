------------------------ MODULE CorpcChannel_proofs ------------------------
(***************************************************************************)
(* Proofs about CorpcChannel, for every number of streams, size of the     *)
(* receive queue and capacity of the connection.                           *)
(***************************************************************************)
EXTENDS CorpcChannel, SequenceTheorems, TLAPS

-----------------------------------------------------------------------------
(* The write lock: channel->write_lock is owned by one thread at a time.   *)

\* The inductive invariant: the exclusion itself and the types it needs.
LockInv == /\ pc \in [Peer -> [Thread -> PCs]]
           /\ wlock \in [Peer -> BOOLEAN]
           /\ WriteLockExclusion

\* What it takes to know that a thread starts where nobody runs: threads of streams
\* not created yet have not started, nor has the method about to be started.
FreshInv ==
    /\ gsid \in [Peer -> Nat]
    /\ cur = [q \in Peer |-> cur[q]]
    /\ \A p \in Peer : Running(p) =>
         /\ \A s \in Sid : s > gsid[p] => pc[p][s] = "none"
         /\ pc[p][0] = "start" => /\ cur[p].obj \in Sid /\ cur[p].obj <= gsid[p]
                                 /\ pc[p][cur[p].obj] = "none"

\* A thread that moves without touching the lock, outside the section it protects.
LEMMA MoveOutside ==
  ASSUME LockInv, NEW p \in Peer, NEW t \in Thread, NEW l \in PCs \ Sending,
         pc[p][t] \notin Sending, pc[p][t] # "crashed", l # "crashed",
         pc' = [pc EXCEPT ![p][t] = l], wlock' = wlock
  PROVE  LockInv'
  BY BoundsAssumption
     DEF LockInv, WriteLockExclusion, Running, Thread

\* A thread that moves inside that section.
LEMMA MoveInside ==
  ASSUME LockInv, NEW p \in Peer, NEW t \in Thread, NEW l \in Sending,
         pc[p][t] \in Sending,
         pc' = [pc EXCEPT ![p][t] = l], wlock' = wlock
  PROVE  LockInv'
  BY BoundsAssumption
     DEF LockInv, WriteLockExclusion, Running, Thread, Sending, PCs

\* A thread that enters it takes a free lock.
LEMMA TakeLock ==
  ASSUME LockInv, NEW p \in Peer, NEW t \in Thread, NEW l \in Sending,
         pc[p][t] \notin Sending, pc[p][t] # "crashed", ~wlock[p],
         pc' = [pc EXCEPT ![p][t] = l], wlock' = [wlock EXCEPT ![p] = TRUE]
  PROVE  LockInv'
  BY BoundsAssumption
     DEF LockInv, WriteLockExclusion, Running, Thread, Sending, PCs

\* A thread that leaves it frees the lock.
LEMMA FreeLock ==
  ASSUME LockInv, NEW p \in Peer, NEW t \in Thread, NEW l \in PCs \ Sending,
         pc[p][t] \in Sending, l # "crashed",
         pc' = [pc EXCEPT ![p][t] = l], wlock' = [wlock EXCEPT ![p] = FALSE]
  PROVE  LockInv'
  BY BoundsAssumption
     DEF LockInv, WriteLockExclusion, Running, Thread, Sending, PCs

\* After a send, whatever it was, a thread is outside the section.
LEMMA AfterIsOutside ==
  ASSUME NEW o, NEW fok
  PROVE  After(o, fok) \in PCs \ Sending /\ After(o, fok) # "crashed"
  BY DEF After, PCs, Sending

\* The threads' own steps.
LEMMA ThreadStepLock ==
  ASSUME LockInv, NEW p \in Peer, NEW t \in Thread, ThreadStep(p, t)
  PROVE  LockInv'
  <1>1. CASE acquire_write_lock(p, t)
    <2>1. CASE Return(p, t, FALSE) /\ UNCHANGED wlock
      BY <1>1, <2>1, MoveOutside, AfterIsOutside
         DEF acquire_write_lock, Return, Goto, Sending
    <2>2. CASE LockIsFree(p, t) /\ wlock' = [wlock EXCEPT ![p] = TRUE] /\ Goto(p, t, "send")
      BY <1>1, <2>2, TakeLock DEF acquire_write_lock, LockIsFree, Goto, Sending
    <2>3. CASE UNCHANGED <<wlock, threadVars>>
      BY <2>3 DEF LockInv, WriteLockExclusion, Running, threadVars
    <2>4. QED
      BY <1>1, <2>1, <2>2, <2>3 DEF acquire_write_lock
  <1>2. CASE corpc_proto_send(p, t)
    <2>1. PICK l \in Sending : pc' = [pc EXCEPT ![p][t] = l]
      BY <1>2 DEF corpc_proto_send, SendFrame, Goto, Sending
    <2>2. QED
      BY <1>2, <2>1, MoveInside DEF corpc_proto_send, Sending
  <1>3. CASE corpc_proto_send_payload(p, t)
    <2>1. PICK l \in Sending : pc' = [pc EXCEPT ![p][t] = l]
      BY <1>3 DEF corpc_proto_send_payload, SendFrame, Goto, Sending
    <2>2. QED
      BY <1>3, <2>1, MoveInside DEF corpc_proto_send_payload, Sending
  <1>4. CASE send_data_done(p, t)
    BY <1>4, MoveInside DEF send_data_done, Goto, Sending
  <1>5. CASE release_write_lock(p, t)
    BY <1>5, FreeLock, AfterIsOutside DEF release_write_lock, Return, Goto, Sending
  <1>6. CASE corpc_open_stream_wait(p, t)
    <2>1. CASE UNCHANGED pc
      BY <1>6, <2>1 DEF corpc_open_stream_wait, LockInv, WriteLockExclusion, Running
    <2>2. CASE ~UNCHANGED pc
      <3>1. PICK l \in {"open", "fail"} : pc' = [pc EXCEPT ![p][t] = l]
        BY <1>6, <2>2 DEF corpc_open_stream_wait, Goto
      <3>2. QED
        BY <1>6, <3>1, MoveOutside DEF corpc_open_stream_wait, Sending, PCs
    <2>3. QED
      BY <2>1, <2>2
  <1>7. CASE corpc_open_stream_fail(p, t)
    BY <1>7, MoveOutside DEF corpc_open_stream_fail, Goto, Sending, PCs
  <1>8. CASE corpc_stream_read_internal(p, t)
    <2>1. UNCHANGED pc \/ \E l \in {"open", "acquire"} : pc' = [pc EXCEPT ![p][t] = l]
      <3>1. \/ UNCHANGED <<st, nrd, threadVars>>
            \/ Goto(p, t, "open")
            \/ Call(p, t, "ack")
        BY <1>8 DEF corpc_stream_read_internal
      <3>2. QED
        BY <3>1 DEF Goto, Call, threadVars
    <2>2. UNCHANGED wlock /\ pc[p][t] = "read"
      BY <1>8 DEF corpc_stream_read_internal
    <2>3. CASE UNCHANGED pc
      BY <2>2, <2>3 DEF LockInv, WriteLockExclusion, Running
    <2>4. CASE \E l \in {"open", "acquire"} : pc' = [pc EXCEPT ![p][t] = l]
      BY <2>2, <2>4, MoveOutside DEF Sending, PCs
    <2>5. QED
      BY <2>1, <2>3, <2>4
  <1>9. CASE corpc_close_stream_erase(p, t)
    BY <1>9, MoveOutside DEF corpc_close_stream_erase, Goto, Sending, PCs
  <1>10. QED
    BY <1>1, <1>2, <1>3, <1>4, <1>5, <1>6, <1>7, <1>8, <1>9 DEF ThreadStep

\* What any step of a running thread does to the program counters.
Moves(p, t) == \E l \in PCs \ {"none", "start", "crashed"} :
                 /\ pc[p][t] \notin {"none", "crashed"}
                 /\ pc' = [pc EXCEPT ![p][t] = l]

\* A step of one thread leaves FreshInv true when no sid is handed out and, unless it is
\* the channel thread's own, the request being answered stays the same.
LEMMA MoveFresh ==
  ASSUME LockInv, FreshInv, NEW p \in Peer, NEW t \in Thread,
         Moves(p, t) \/ UNCHANGED pc, UNCHANGED gsid,
         UNCHANGED cur \/ (t = 0 /\ Moves(p, t) /\ \E c : cur' = [cur EXCEPT ![p] = c])
  PROVE  FreshInv'
  <1>1. gsid' \in [Peer -> Nat] /\ cur' = [q \in Peer |-> cur'[q]]
    BY DEF FreshInv
  <1>2. ASSUME NEW q \in Peer, Running(q)'
        PROVE  /\ \A s \in Sid : s > gsid'[q] => pc'[q][s] = "none"
               /\ pc'[q][0] = "start" => /\ cur'[q].obj \in Sid /\ cur'[q].obj <= gsid'[q]
                                         /\ pc'[q][cur'[q].obj] = "none"
    <2>1. Running(q) /\ 0 \in Thread
      BY <1>2, BoundsAssumption DEF LockInv, Moves, Running, Thread
    <2>2. /\ \A s \in Sid : s > gsid[q] => pc[q][s] = "none"
          /\ pc[q][0] = "start" => /\ cur[q].obj \in Sid /\ cur[q].obj <= gsid[q]
                                  /\ pc[q][cur[q].obj] = "none"
      BY <2>1 DEF FreshInv
    <2>3. CASE UNCHANGED <<pc, cur>>
      BY <2>2, <2>3
    <2>4. CASE Moves(p, t)
      <3>1. \A s \in Sid : s > gsid'[q] => pc'[q][s] = "none"
        BY <2>2, <2>4 DEF Moves, LockInv, Thread, Sid
      <3>2. ASSUME pc'[q][0] = "start"
            PROVE  cur'[q] = cur[q] /\ pc[q][0] = "start"
        BY <2>1, <2>4, <3>2 DEF Moves, LockInv, FreshInv
      <3>3. ASSUME pc'[q][0] = "start"
            PROVE  pc'[q][cur[q].obj] = "none"
        BY <2>2, <2>4, <3>2, <3>3 DEF Moves, LockInv, Thread, Sid
      <3>4. QED
        BY <2>2, <3>1, <3>2, <3>3
    <2>5. QED
      BY <2>3, <2>4
  <1>3. QED
    BY <1>1, <1>2 DEF FreshInv

\* No step of an operation in progress hands out a sid or starts a method.
LEMMA ThreadStepMoves ==
  ASSUME LockInv, NEW p \in Peer, NEW t \in Thread, ThreadStep(p, t)
  PROVE  UNCHANGED <<gsid, cur>> /\ (Moves(p, t) \/ UNCHANGED pc)
  <1> USE DEF Moves, PCs, Sending, streamVars, threadVars, Goto
  <1>1. CASE acquire_write_lock(p, t)
    BY <1>1, AfterIsOutside DEF acquire_write_lock, Return, After
  <1>2. CASE corpc_proto_send(p, t)
    BY <1>2 DEF corpc_proto_send, SendFrame
  <1>3. CASE corpc_proto_send_payload(p, t)
    BY <1>3 DEF corpc_proto_send_payload, SendFrame
  <1>4. CASE send_data_done(p, t)
    BY <1>4 DEF send_data_done
  <1>5. CASE release_write_lock(p, t)
    BY <1>5, AfterIsOutside DEF release_write_lock, Return, After
  <1>6. CASE corpc_open_stream_wait(p, t)
    BY <1>6 DEF corpc_open_stream_wait
  <1>7. CASE corpc_open_stream_fail(p, t)
    BY <1>7 DEF corpc_open_stream_fail
  <1>8. CASE corpc_stream_read_internal(p, t)
    BY <1>8 DEF corpc_stream_read_internal, Call
  <1>9. CASE corpc_close_stream_erase(p, t)
    BY <1>9 DEF corpc_close_stream_erase
  <1>10. QED
    BY <1>1, <1>2, <1>3, <1>4, <1>5, <1>6, <1>7, <1>8, <1>9 DEF ThreadStep

\* What most steps of the channel thread do: it stays outside the section.
Outside(p) == /\ UNCHANGED <<wlock, gsid>>
              /\ pc[p][0] \notin Sending \cup {"none", "crashed"}
              /\ \E l \in PCs \ (Sending \cup {"none", "start", "crashed"}) :
                   pc' = [pc EXCEPT ![p][0] = l]
              /\ \E c : cur' = [cur EXCEPT ![p] = c]

\* A step of the channel thread outside the section the lock protects.
LEMMA OutsideInv ==
  ASSUME LockInv, FreshInv, NEW p \in Peer, Outside(p)
  PROVE  LockInv' /\ FreshInv'
  <1>1. 0 \in Thread
    BY BoundsAssumption DEF Thread
  <1>2. LockInv'
    BY <1>1, MoveOutside DEF Outside
  <1>3. Moves(p, 0)
    BY DEF Moves, Outside
  <1>4. FreshInv'
    BY <1>1, <1>3, MoveFresh DEF Outside
  <1>5. QED
    BY <1>2, <1>4

\* A step that leaves the threads where they are.
LEMMA StayInv ==
  ASSUME LockInv, FreshInv, UNCHANGED <<pc, wlock, gsid, cur>>
  PROVE  LockInv' /\ FreshInv'
  BY DEF LockInv, WriteLockExclusion, FreshInv, Running

\* The channel thread's handlers.
LEMMA ChannelStepInv ==
  ASSUME LockInv, FreshInv, NEW p \in Peer, ChannelStep(p)
  PROVE  LockInv' /\ FreshInv'
  <1>0. /\ 0 \in Thread /\ Sid \subseteq Thread /\ 0 \notin Sid
        /\ pc[p] \in [Thread -> PCs] /\ pc[p] = [pc[p] EXCEPT ![0] = pc[p][0]]
        /\ pc = [pc EXCEPT ![p][0] = pc[p][0]] /\ cur = [cur EXCEPT ![p] = cur[p]]
    BY BoundsAssumption DEF Thread, Sid, LockInv, FreshInv
  <1>1. CASE on_create_stream_request(p)
    <2>1. pc[p][0] = "recv" /\ UNCHANGED wlock
      BY <1>1 DEF on_create_stream_request, Received, Receiving
    <2>2. CASE Goto(p, 0, "start") /\ gsid[p] < MaxSid
               /\ gsid' = [gsid EXCEPT ![p] = gensid(p)]
               /\ \E c : cur' = [cur EXCEPT ![p] = c] /\ c.obj = gensid(p)
      <3>1. LockInv'
        BY <1>0, <2>1, <2>2, MoveOutside DEF Goto, Sending, PCs
      <3>2. FreshInv'
        <4>1. PICK c : cur' = [cur EXCEPT ![p] = c] /\ c.obj = gensid(p)
          BY <2>2
        <4>2. gsid' \in [Peer -> Nat] /\ cur' = [q \in Peer |-> cur'[q]]
          BY <2>2, <4>1 DEF FreshInv, gensid
        <4>3. ASSUME NEW q \in Peer, q # p
              PROVE  gsid'[q] = gsid[q] /\ cur'[q] = cur[q] /\ pc'[q] = pc[q]
          BY <2>2, <4>1, <4>3 DEF FreshInv, LockInv, Goto
        <4>4. /\ Running(p) /\ gsid'[p] = gsid[p] + 1 /\ cur'[p].obj = gsid[p] + 1
              /\ \A s \in Sid : pc'[p][s] = pc[p][s]
          BY <1>0, <2>1, <2>2, <4>1 DEF FreshInv, LockInv, Goto, gensid, Running
        <4>5. gsid[p] + 1 \in Sid /\ pc[p][gsid[p] + 1] = "none"
          BY <2>2, <4>4, BoundsAssumption DEF FreshInv, Sid
        <4>6. \A s \in Sid : s > gsid'[p] => pc'[p][s] = "none"
          BY <4>4, BoundsAssumption DEF FreshInv, Sid
        <4>7. cur'[p].obj \in Sid /\ cur'[p].obj <= gsid'[p] /\ pc'[p][cur'[p].obj] = "none"
          BY <4>4, <4>5 DEF FreshInv
        <4>8. QED
          BY <4>2, <4>3, <4>6, <4>7 DEF FreshInv, Running
      <3>3. QED
        BY <3>1, <3>2
    <2>3. CASE Call(p, 0, "response") /\ UNCHANGED streamVars
               /\ \E c : cur' = [cur EXCEPT ![p] = c]
      <3>1. Outside(p)
        BY <1>0, <2>1, <2>3 DEF Outside, Call, Goto, streamVars, PCs, Sending
      <3>2. QED
        BY <3>1, OutsideInv
    <2>4. QED
      <3> DEFINE m == Head(net[p])
                 taken == [obj |-> gensid(p), sid |-> 0, did |-> m.sid, rwnd |-> 0,
                           status |-> "ok"]
      <3>1. CASE m.info = "method" /\ Cardinality(tbl[p]) < MaxStreams
        <4>1. /\ Goto(p, 0, "start") /\ gsid[p] < MaxSid
              /\ gsid' = [gsid EXCEPT ![p] = gensid(p)]
              /\ cur' = [cur EXCEPT ![p] = taken]
          BY <1>1, <3>1 DEF on_create_stream_request
        <4>2. taken.obj = gensid(p)
          OBVIOUS
        <4>3. QED
          BY <2>2, <4>1, <4>2
      <3>2. CASE ~(m.info = "method" /\ Cardinality(tbl[p]) < MaxStreams)
        BY <1>1, <2>3, <3>2 DEF on_create_stream_request
      <3>3. QED
        BY <3>1, <3>2
  <1>2. CASE start_service_method_thread(p)
    <2>1. pc[p][0] = "start" /\ UNCHANGED <<wlock, gsid>>
      BY <1>2 DEF start_service_method_thread, streamVars
    <2>2. CASE UNCHANGED cur /\ \E l \in {"read", "open"} :
                 pc' = [pc EXCEPT ![p][0] = "started", ![p][cur[p].obj] = l]
      <3>1. /\ Running(p) /\ cur[p].obj \in Sid /\ cur[p].obj <= gsid[p]
            /\ pc[p][cur[p].obj] = "none"
        BY <2>1 DEF FreshInv, Running
      <3>2. PICK l \in {"read", "open"} :
              pc' = [pc EXCEPT ![p][0] = "started", ![p][cur[p].obj] = l]
        BY <2>2
      <3>3. /\ pc' \in [Peer -> [Thread -> PCs]]
            /\ \A q \in Peer : q # p => pc'[q] = pc[q]
            /\ pc'[p][0] = "started" /\ pc'[p][cur[p].obj] = l
            /\ \A t \in Thread : t # 0 /\ t # cur[p].obj => pc'[p][t] = pc[p][t]
        BY <1>0, <3>1, <3>2 DEF LockInv, PCs, Sending
      <3>4. \A q \in Peer, t \in Thread : pc'[q][t] \in Sending <=> pc[q][t] \in Sending
        BY <1>0, <2>1, <3>1, <3>3 DEF Sending
      <3>5. LockInv'
        BY <2>1, <3>1, <3>3, <3>4 DEF LockInv, WriteLockExclusion, Running
      <3>6. FreshInv'
        BY <1>0, <2>1, <2>2, <3>1, <3>3 DEF FreshInv, Running
      <3>7. QED
        BY <3>5, <3>6
    <2>3. CASE Call(p, 0, "response") /\ \E c : cur' = [cur EXCEPT ![p] = c]
      <3>1. Outside(p)
        BY <1>0, <2>1, <2>3 DEF Outside, Call, Goto, PCs, Sending
      <3>2. QED
        BY <3>1, OutsideInv
    <2>4. QED
      BY <1>2, <2>2, <2>3 DEF start_service_method_thread
  <1>3. CASE on_create_stream_request_reply(p)
    <2>1. \E c : cur' = [cur EXCEPT ![p] = c]
      <3>1. PICK o : cur' = [cur EXCEPT ![p].sid = o,
                                        ![p].rwnd = IF o = 0 THEN 0 ELSE srwnd(p, o)]
        BY <1>3 DEF on_create_stream_request_reply
      <3>2. QED
        BY <3>1
    <2>2. Outside(p)
      BY <1>0, <1>3, <2>1
         DEF on_create_stream_request_reply, Outside, Call, Goto, streamVars, PCs, Sending
    <2>3. QED
      BY <2>2, OutsideInv
  <1>4. CASE on_create_stream_request_done(p)
    <2>1. Outside(p)
      BY <1>0, <1>4
         DEF on_create_stream_request_done, Outside, Goto, PCs, Sending
    <2>2. QED
      BY <2>1, OutsideInv
  <1>5. CASE on_create_stream_responce(p)
    <2>1. pc[p][0] = "recv" /\ UNCHANGED <<wlock, gsid, cur>>
      BY <1>5 DEF on_create_stream_responce, Received, Receiving
    <2>2. UNCHANGED pc \/ Goto(p, 0, "shut")
      BY <1>5 DEF on_create_stream_responce
    <2>3. Outside(p)
      BY <1>0, <2>1, <2>2 DEF Outside, Goto, PCs, Sending
    <2>4. QED
      BY <2>3, OutsideInv
  <1>6. CASE on_close_stream_notify(p)
    BY <1>6, StayInv DEF on_close_stream_notify, threadVars
  <1>7. CASE on_data_message(p)
    <2>1. Outside(p)
      BY <1>0, <1>7
         DEF on_data_message, DataReceived, Received, Receiving, Outside, Goto, PCs, Sending
    <2>2. QED
      BY <2>1, OutsideInv
  <1>8. CASE on_data_message_unknown(p)
    <2>1. /\ pc' = [pc EXCEPT ![p] = [t \in Thread |-> "crashed"]]
          /\ UNCHANGED <<wlock, gsid, cur>>
      BY <1>8 DEF on_data_message_unknown
    <2>2. ~Running(p)' /\ \A q \in Peer : q # p => pc'[q] = pc[q]
      BY <1>0, <2>1 DEF LockInv, Running
    <2>3. LockInv'
      BY <2>1, <2>2 DEF LockInv, WriteLockExclusion, Running, PCs
    <2>4. FreshInv'
      BY <2>1, <2>2 DEF FreshInv, Running
    <2>5. QED
      BY <2>3, <2>4
  <1>9. CASE on_data_ack(p)
    BY <1>9, StayInv DEF on_data_ack, threadVars
  <1>10. CASE recv_fails(p)
    <2>1. Outside(p)
      BY <1>0, <1>10 DEF recv_fails, Outside, Goto, streamVars, PCs, Sending
    <2>2. QED
      BY <2>1, OutsideInv
  <1>11. CASE corpc_channel_thread_end(p)
    <2>1. Outside(p)
      BY <1>0, <1>11
         DEF corpc_channel_thread_end, Outside, Goto, streamVars, PCs, Sending
    <2>2. QED
      BY <2>1, OutsideInv
  <1>12. QED
    BY <1>1, <1>2, <1>3, <1>4, <1>5, <1>6, <1>7, <1>8, <1>9, <1>10, <1>11 DEF ChannelStep

\* The application's calls.
LEMMA AppStepInv ==
  ASSUME LockInv, FreshInv, NEW p \in Peer, AppStep(p)
  PROVE  LockInv' /\ FreshInv'
  <1>0. 0 \in Thread /\ Sid \subseteq Thread /\ 0 \notin Sid
    BY BoundsAssumption DEF Thread, Sid
  <1>1. CASE corpc_open_stream(p)
    <2>1. /\ gsid[p] < MaxSid /\ gsid' = [gsid EXCEPT ![p] = gsid[p] + 1]
          /\ pc' = [pc EXCEPT ![p][gsid[p] + 1] = "acquire"]
          /\ UNCHANGED <<wlock, cur>>
      BY <1>1 DEF corpc_open_stream, gensid, Call, Goto
    <2>2. gsid[p] + 1 \in Sid
      BY <2>1, BoundsAssumption DEF FreshInv, Sid
    <2>3. /\ pc' \in [Peer -> [Thread -> PCs]]
          /\ \A q \in Peer : q # p => pc'[q] = pc[q]
          /\ \A t \in Thread : t # gsid[p] + 1 => pc'[p][t] = pc[p][t]
          /\ pc'[p][gsid[p] + 1] = "acquire"
      BY <1>0, <2>1, <2>2 DEF LockInv, PCs, Sending
    <2>4. Running(p) => pc[p][gsid[p] + 1] = "none"
      BY <2>2 DEF FreshInv
    <2>5. LockInv'
      BY <1>0, <2>1, <2>2, <2>3, <2>4 DEF LockInv, WriteLockExclusion, Running, Sending
    <2>6. FreshInv'
      <3>1. gsid' \in [Peer -> Nat] /\ gsid'[p] = gsid[p] + 1
        BY <2>1 DEF FreshInv
      <3>2. \A q \in Peer : q # p => gsid'[q] = gsid[q]
        BY <2>1 DEF FreshInv
      <3>3. \A s \in Sid : s > gsid'[p] /\ Running(p) => pc'[p][s] = "none"
        BY <1>0, <2>3, <3>1 DEF FreshInv, Sid
      <3>4. Running(p) /\ pc[p][0] = "start" =>
              /\ cur[p].obj \in Sid /\ cur[p].obj <= gsid'[p]
              /\ pc'[p][cur[p].obj] = "none"
        BY <1>0, <2>3, <3>1 DEF FreshInv, Sid
      <3>5. QED
        BY <1>0, <2>1, <2>2, <2>3, <3>1, <3>2, <3>3, <3>4 DEF FreshInv, Running
    <2>7. QED
      BY <2>5, <2>6
  <1>2. CASE corpc_channel_close(p)
    BY <1>2, StayInv DEF corpc_channel_close, streamVars, threadVars
  <1>3. ASSUME NEW t \in Sid,
               corpc_stream_write(p, t) \/ corpc_stream_read(p, t) \/ corpc_close_stream(p, t)
        PROVE  LockInv' /\ FreshInv'
    <2>1. /\ pc[p][t] = "open" /\ UNCHANGED <<wlock, gsid, cur>>
          /\ \E l \in {"acquire", "read"} : pc' = [pc EXCEPT ![p][t] = l]
      BY <1>3 DEF corpc_stream_write, corpc_stream_read, corpc_close_stream, Call, Goto,
                  streamVars
    <2>2. LockInv'
      BY <1>0, <2>1, MoveOutside DEF Sending, PCs
    <2>3. Moves(p, t)
      BY <2>1 DEF Moves, PCs, Sending
    <2>4. FreshInv'
      BY <1>0, <2>1, <2>3, MoveFresh
    <2>5. QED
      BY <2>2, <2>4
  <1>4. QED
    BY <1>1, <1>2, <1>3 DEF AppStep

\* The lock is free and nobody has started.
LEMMA InitLock == Init => LockInv /\ FreshInv
  <1> SUFFICES ASSUME Init PROVE LockInv /\ FreshInv
    OBVIOUS
  <1>1. 0 \in Thread /\ Sid \subseteq Thread
    BY BoundsAssumption DEF Thread, Sid
  <1>2. LockInv
    BY <1>1 DEF Init, LockInv, WriteLockExclusion, Running, PCs, Sending
  <1>3. FreshInv
    <2>1. gsid \in [Peer -> Nat]
      BY DEF Init
    <2>2. cur = [q \in Peer |-> cur[q]]
      <3>1. PICK r : cur = [q \in Peer |-> r]
        BY DEF Init
      <3>2. QED
        BY <3>1
    <2>3. \A p \in Peer : pc[p][0] = "recv" /\ \A s \in Sid : pc[p][s] = "none"
      <3>1. pc = [p \in Peer |-> [t \in Thread |-> IF t = 0 THEN "recv" ELSE "none"]]
        BY DEF Init
      <3>2. QED
        BY <1>1, <3>1 DEF Sid
    <2>4. QED
      BY <2>1, <2>2, <2>3 DEF FreshInv
  <1>4. QED
    BY <1>2, <1>3

\* Both are preserved by every step.
LEMMA NextLock ==
  ASSUME LockInv, FreshInv, [Next]_vars
  PROVE  LockInv' /\ FreshInv'
  <1>1. ASSUME NEW p \in Peer, NEW t \in Thread, ThreadStep(p, t) PROVE LockInv' /\ FreshInv'
    BY <1>1, ThreadStepLock, ThreadStepMoves, MoveFresh
  <1>2. ASSUME NEW p \in Peer, ChannelStep(p) PROVE LockInv' /\ FreshInv'
    BY <1>2, ChannelStepInv
  <1>3. ASSUME NEW p \in Peer, AppStep(p) PROVE LockInv' /\ FreshInv'
    BY <1>3, AppStepInv
  <1>4. CASE LinkFails
    BY <1>4, StayInv DEF LinkFails, streamVars, threadVars
  <1>5. CASE UNCHANGED vars
    BY <1>5, StayInv DEF vars
  <1>6. QED
    BY <1>1, <1>2, <1>3, <1>4, <1>5 DEF Next

\* At any time at most one thread of a peer is between acquire_write_lock and
\* release_write_lock, and channel->write_lock is set exactly then -- for every number
\* of streams and every capacity of the connection.  The two frames of a data message
\* are therefore adjacent on the connection.
THEOREM WriteLock == Spec => []WriteLockExclusion
  <1>1. LockInv /\ FreshInv /\ [Next]_vars => (LockInv /\ FreshInv)'
    BY NextLock
  <1>2. LockInv => WriteLockExclusion
    BY DEF LockInv
  <1>3. QED
    BY <1>1, <1>2, InitLock, PTL DEF Spec

-----------------------------------------------------------------------------
(* Types, and what each thread may be doing.                               *)

\* Thread 0 is the channel thread: it receives, accepts streams and answers requests.
ChannelPCs == {"recv", "start", "started", "acquire", "send", "release", "setstate",
               "shut", "done", "crashed"}
StreamPCs  == PCs \ {"recv", "start", "started", "setstate", "shut"}

MessagesOf(t) == IF t = 0 THEN {"response"} ELSE {"request", "data", "ack", "close"}

\* A thread at l that sends a message of kind o.
Role(t, l, o) ==
    /\ l \in IF t = 0 THEN ChannelPCs ELSE StreamPCs
    /\ l \in Sending \cup {"acquire"} => o \in MessagesOf(t)
    /\ l \in {"payload", "sent"} => o = "data"

\* An answer carries a status.
GoodFrames == {f \in Frames : f.code = "response" => f.info \in Status}

Roles == \A p \in Peer : \A t \in Thread : Role(t, pc[p][t], op[p][t])

TypeInv == TypeOK /\ net \in [Peer -> Seq(GoodFrames)] /\ Roles

LEMMA ThreadFacts ==
  /\ 0 \in Thread /\ Sid \subseteq Thread /\ 0 \notin Sid
  /\ \A t \in Thread : t \in Nat /\ (t # 0 => t \in Sid)
  /\ \A s \in Sid : s \in Nat
  BY BoundsAssumption DEF Thread, Sid

LEMMA PeerFacts == \A p \in Peer : Other(p) \in Peer /\ Other(p) # p /\ Other(Other(p)) = p
  BY PeersAssumption DEF Peer, Other

\* Functions of a peer and a thread.
LEMMA Update ==
  ASSUME NEW A, NEW B, NEW C, NEW f \in [A -> [B -> C]], NEW a \in A, NEW b \in B, NEW c \in C,
         NEW g, g = [f EXCEPT ![a][b] = c]
  PROVE  /\ g \in [A -> [B -> C]] /\ g[a][b] = c
         /\ \A x \in A : x # a => g[x] = f[x]
         /\ \A y \in B : y # b => g[a][y] = f[a][y]
  OBVIOUS

\* The threads.
LEMMA RoleStep ==
  ASSUME ThreadTypes, Roles, NEW p \in Peer, NEW t \in Thread, NEW l \in PCs, NEW o \in Ops,
         pc' = [pc EXCEPT ![p][t] = l], op' = [op EXCEPT ![p][t] = o], Role(t, l, o)
  PROVE  pc' \in [Peer -> [Thread -> PCs]] /\ op' \in [Peer -> [Thread -> Ops]] /\ Roles'
  <1>1. /\ pc' \in [Peer -> [Thread -> PCs]] /\ pc'[p][t] = l
        /\ \A q \in Peer : q # p => pc'[q] = pc[q]
        /\ \A u \in Thread : u # t => pc'[p][u] = pc[p][u]
    BY Update DEF ThreadTypes
  <1>2. /\ op' \in [Peer -> [Thread -> Ops]] /\ op'[p][t] = o
        /\ \A q \in Peer : q # p => op'[q] = op[q]
        /\ \A u \in Thread : u # t => op'[p][u] = op[p][u]
    BY Update DEF ThreadTypes
  <1>3. \A q \in Peer : \A u \in Thread : Role(u, pc'[q][u], op'[q][u])
    BY <1>1, <1>2 DEF Roles
  <1>4. QED
    BY <1>1, <1>2, <1>3 DEF Roles

LEMMA GotoStep ==
  ASSUME ThreadTypes, Roles, NEW p \in Peer, NEW t \in Thread, NEW l \in PCs, Goto(p, t, l),
         UNCHANGED op, Role(t, l, op[p][t])
  PROVE  pc' \in [Peer -> [Thread -> PCs]] /\ op' \in [Peer -> [Thread -> Ops]] /\ Roles'
  <1>1. op' = [op EXCEPT ![p][t] = op[p][t]] /\ op[p][t] \in Ops
    BY DEF ThreadTypes
  <1>2. QED
    BY <1>1, RoleStep DEF Goto

LEMMA CallStep ==
  ASSUME ThreadTypes, Roles, NEW p \in Peer, NEW t \in Thread, NEW o \in MessagesOf(t), Call(p, t, o)
  PROVE  pc' \in [Peer -> [Thread -> PCs]] /\ op' \in [Peer -> [Thread -> Ops]] /\ ok' = ok /\ Roles'
  <1>1. o \in Ops /\ Role(t, "acquire", o) /\ "acquire" \in PCs
    BY DEF Ops, Role, MessagesOf, PCs, Sending, ChannelPCs, StreamPCs
  <1>2. QED
    BY <1>1, RoleStep DEF Call, Goto

LEMMA ReturnStep ==
  ASSUME ThreadTypes, Roles, NEW p \in Peer, NEW t \in Thread, pc[p][t] \in {"acquire", "release"},
         NEW fok, Return(p, t, fok)
  PROVE  /\ pc' \in [Peer -> [Thread -> PCs]] /\ op' \in [Peer -> [Thread -> Ops]]
         /\ ok' \in [Peer -> [Thread -> BOOLEAN]] /\ Roles'
  <1>1. op[p][t] \in MessagesOf(t)
    BY DEF Roles, Role, Sending
  <1>2. PICK l : l = After(op[p][t], fok)
    OBVIOUS
  <1>3. l \in PCs \ Sending
    BY <1>2, AfterIsOutside
  <1>4. Role(t, l, "none")
    BY <1>1, <1>2 DEF After, Role, MessagesOf, Sending, ChannelPCs, StreamPCs, PCs
  <1>5. pc' = [pc EXCEPT ![p][t] = l] /\ op' = [op EXCEPT ![p][t] = "none"] /\ ok' = [ok EXCEPT ![p][t] = FALSE]
    BY <1>2 DEF Return, Goto
  <1>6. ok' \in [Peer -> [Thread -> BOOLEAN]]
    BY <1>5, Update DEF ThreadTypes
  <1>7. "none" \in Ops
    BY DEF Ops
  <1>8. QED
    BY <1>3, <1>4, <1>5, <1>6, <1>7, RoleStep

\* The connection.
LEMMA AppendNet ==
  ASSUME net \in [Peer -> Seq(GoodFrames)], NEW p \in Peer, NEW f \in GoodFrames,
         net' = [net EXCEPT ![p] = Append(@, f)]
  PROVE  net' \in [Peer -> Seq(GoodFrames)]
  BY AppendProperties

LEMMA ConsumeNet ==
  ASSUME net \in [Peer -> Seq(GoodFrames)], NEW p \in Peer, net[p] # << >>, Consume(p)
  PROVE  net' \in [Peer -> Seq(GoodFrames)] /\ Head(net[p]) \in GoodFrames
  <1>1. Head(net[p]) \in GoodFrames /\ Tail(net[p]) \in Seq(GoodFrames)
    BY HeadTailProperties
  <1>2. QED
    BY <1>1 DEF Consume

LEMMA GoodNet ==
  ASSUME net' \in [Peer -> Seq(GoodFrames)]
  PROVE  NetTypes'
  <1>1. Seq(GoodFrames) \subseteq Seq(Frames)
    BY DEF GoodFrames
  <1>2. QED
    BY <1>1 DEF NetTypes

\* One stream changes.
LEMMA StreamStep ==
  ASSUME StreamTypes, NEW p \in Peer, NEW s \in Thread, NEW r \in Streams, st' = [st EXCEPT ![p][s] = r]
  PROVE  /\ st' \in [Peer -> [Thread -> Streams]] /\ st'[p][s] = r
         /\ \A q \in Peer : q # p => st'[q] = st[q]
         /\ \A u \in Thread : u # s => st'[p][u] = st[p][u]
  BY Update DEF StreamTypes

LEMMA EraseStep ==
  ASSUME StreamTypes, NEW p \in Peer, NEW s \in Thread, EraseAndDestroy(p, s), UNCHANGED gsid
  PROVE  StreamTypes'
  <1>1. Zeroed \in Streams
    BY ThreadFacts, EmptySeq DEF Zeroed, Stream, Streams, StreamState
  <1>2. st' \in [Peer -> [Thread -> Streams]]
    BY <1>1, StreamStep DEF EraseAndDestroy
  <1>3. QED
    BY <1>2 DEF StreamTypes, EraseAndDestroy

\* Sending a frame.
LEMMA SendFrameTypes ==
  ASSUME ThreadTypes, Roles, net \in [Peer -> Seq(GoodFrames)], NEW p \in Peer, NEW t \in Thread,
         NEW f \in GoodFrames, NEW next, SendFrame(p, t, f, next), UNCHANGED <<op, asleep>>,
         pc[p][t] \in Sending, next \in {"payload", "sent", "release"},
         next # "release" => op[p][t] = "data" /\ t # 0
  PROVE  net' \in [Peer -> Seq(GoodFrames)] /\ ThreadTypes' /\ Roles'
  <1>1. net' \in [Peer -> Seq(GoodFrames)]
    BY AppendNet, PeerFacts DEF SendFrame
  <1>2. PICK l \in {next, "release"} : Goto(p, t, l)
    BY DEF SendFrame
  <1>3. op[p][t] \in MessagesOf(t)
    BY DEF Roles, Role
  <1>4. l \in PCs /\ Role(t, l, op[p][t])
    BY <1>2, <1>3 DEF Role, MessagesOf, Sending, PCs, ChannelPCs, StreamPCs
  <1>5. ok' \in [Peer -> [Thread -> BOOLEAN]]
    <2>1. ok \in [Peer -> [Thread -> BOOLEAN]]
      BY DEF ThreadTypes
    <2>2. PICK b \in BOOLEAN : ok' = [ok EXCEPT ![p][t] = b]
      BY DEF SendFrame
    <2>3. QED
      BY <2>1, <2>2, Update
  <1>6. pc' \in [Peer -> [Thread -> PCs]] /\ op' \in [Peer -> [Thread -> Ops]] /\ Roles'
    BY <1>2, <1>4, GotoStep
  <1>7. QED
    BY <1>1, <1>5, <1>6 DEF ThreadTypes

\* The parts of TypeInv, one by one.
LEMMA TypeParts ==
  ASSUME TypeInv
  PROVE  /\ ChanTypes /\ NetTypes /\ StreamTypes /\ ThreadTypes /\ CurTypes /\ CountTypes /\ Roles
         /\ net \in [Peer -> Seq(GoodFrames)]
  BY DEF TypeInv, TypeOK

\* A step that changes the threads and nothing else that has a type to keep.
LEMMA ThreadsOnly ==
  ASSUME TypeInv, ThreadTypes', Roles', ChanTypes', CountTypes', CurTypes', StreamTypes',
         net' \in [Peer -> Seq(GoodFrames)]
  PROVE  TypeInv'
  BY GoodNet DEF TypeInv, TypeOK

LEMMA SleepTypes ==
  ASSUME ThreadTypes, NEW p \in Peer, NEW t \in Thread, UNCHANGED asleep \/ wait(p, t) \/ signal(p)
  PROVE  asleep' \in [Peer -> SUBSET Thread]
  <1>1. asleep \in [Peer -> SUBSET Thread]
    BY DEF ThreadTypes
  <1>2. asleep[p] \cup {t} \in SUBSET Thread /\ {} \in SUBSET Thread
    BY <1>1
  <1>3. QED
    BY <1>1, <1>2 DEF wait, signal

LEMMA AcquireTypes ==
  ASSUME TypeInv, NEW p \in Peer, NEW t \in Thread, acquire_write_lock(p, t)
  PROVE  TypeInv'
  <1>1. /\ ChanTypes /\ StreamTypes /\ ThreadTypes /\ CurTypes /\ CountTypes /\ Roles
        /\ net \in [Peer -> Seq(GoodFrames)]
    BY TypeParts
  <1>2. /\ UNCHANGED <<chst, refs, alive, held, sock, link, net, gsid, tbl, live, st, cur, nopen, nwr, nrd, bug>>
        /\ pc[p][t] = "acquire"
    BY DEF acquire_write_lock, chanVars, streamVars, countVars
  <1>3. wlock' \in [Peer -> BOOLEAN] /\ asleep' \in [Peer -> SUBSET Thread]
    <2>1. wlock' = wlock \/ wlock' = [wlock EXCEPT ![p] = TRUE]
      BY DEF acquire_write_lock
    <2>2. UNCHANGED asleep \/ wait(p, t)
      BY DEF acquire_write_lock
    <2>3. wlock' \in [Peer -> BOOLEAN]
      BY <1>1, <2>1 DEF ChanTypes
    <2>4. asleep' \in [Peer -> SUBSET Thread]
      BY <1>1, <2>2, SleepTypes
    <2>5. QED
      BY <2>3, <2>4
  <1>4. /\ pc' \in [Peer -> [Thread -> PCs]] /\ op' \in [Peer -> [Thread -> Ops]]
        /\ ok' \in [Peer -> [Thread -> BOOLEAN]] /\ Roles'
    <2>1. CASE Return(p, t, FALSE)
      BY <1>1, <1>2, <2>1, ReturnStep
    <2>2. CASE Goto(p, t, "send") /\ UNCHANGED <<op, ok>>
      <3>1. "send" \in PCs /\ Role(t, "send", op[p][t])
        BY <1>1, <1>2 DEF Roles, Role, PCs, Sending, ChannelPCs, StreamPCs
      <3>2. QED
        BY <1>1, <2>2, <3>1, GotoStep DEF ThreadTypes
    <2>3. CASE UNCHANGED threadVars
      BY <1>1, <2>3 DEF threadVars, ThreadTypes, Roles
    <2>4. QED
      BY <2>1, <2>2, <2>3 DEF acquire_write_lock
  <1>5. ChanTypes' /\ CountTypes' /\ CurTypes' /\ StreamTypes' /\ net' \in [Peer -> Seq(GoodFrames)]
    BY <1>1, <1>2, <1>3 DEF ChanTypes, CountTypes, CurTypes, StreamTypes
  <1>6. ThreadTypes'
    BY <1>3, <1>4 DEF ThreadTypes
  <1>7. QED
    BY <1>4, <1>5, <1>6, ThreadsOnly

LEMMA ReleaseTypes ==
  ASSUME TypeInv, NEW p \in Peer, NEW t \in Thread, release_write_lock(p, t)
  PROVE  TypeInv'
  <1>1. /\ ChanTypes /\ StreamTypes /\ ThreadTypes /\ CurTypes /\ CountTypes /\ Roles
        /\ net \in [Peer -> Seq(GoodFrames)]
    BY TypeParts
  <1>2. /\ UNCHANGED <<chst, refs, alive, held, sock, link, net, gsid, tbl, live, st, cur, nopen, nwr, nrd, bug>>
        /\ pc[p][t] = "release" /\ Return(p, t, ok[p][t])
    BY DEF release_write_lock, chanVars, streamVars, countVars
  <1>3. wlock' \in [Peer -> BOOLEAN] /\ asleep' \in [Peer -> SUBSET Thread]
    BY <1>1, SleepTypes DEF release_write_lock, ChanTypes
  <1>4. /\ pc' \in [Peer -> [Thread -> PCs]] /\ op' \in [Peer -> [Thread -> Ops]]
        /\ ok' \in [Peer -> [Thread -> BOOLEAN]] /\ Roles'
    BY <1>1, <1>2, ReturnStep
  <1>5. ChanTypes' /\ CountTypes' /\ CurTypes' /\ StreamTypes' /\ net' \in [Peer -> Seq(GoodFrames)]
    BY <1>1, <1>2, <1>3 DEF ChanTypes, CountTypes, CurTypes, StreamTypes
  <1>6. ThreadTypes'
    BY <1>3, <1>4 DEF ThreadTypes
  <1>7. QED
    BY <1>4, <1>5, <1>6, ThreadsOnly

LEMMA FrameTypes ==
  ASSUME NEW code \in Codes \cup Ops, NEW sid \in Thread, NEW did \in Thread, NEW rwnd \in Int,
         NEW info \in Status \cup Targets \cup {""}, NEW seq \in Nat,
         code = "response" => info \in Status
  PROVE  Frame(code, sid, did, rwnd, info, seq) \in GoodFrames
  BY DEF Frame, Frames, GoodFrames

LEMMA FirstFrameTypes ==
  ASSUME TypeInv, NEW p \in Peer, NEW t \in Thread, NEW f \in FirstFrames(p, t), pc[p][t] = "send"
  PROVE  f \in GoodFrames
  <1>1. /\ StreamTypes /\ ThreadTypes /\ CurTypes /\ Roles
    BY TypeParts
  <1>2. op[p][t] \in Ops /\ st[p][t] \in Streams /\ 0 \in Thread
    BY <1>1, ThreadFacts DEF ThreadTypes, StreamTypes
  <1>3. CASE op[p][t] = "request"
    <2>1. PICK target \in Targets : f = Frame("request", t, 0, srwnd(p, t), target, 0)
      BY <1>3 DEF FirstFrames
    <2>2. srwnd(p, t) \in Int
      <3>1. Len(st[p][t].rxq) \in Nat
        BY <1>2 DEF Streams
      <3>2. QED
        BY <3>1, BoundsAssumption DEF srwnd
    <2>3. "request" \in Codes \cup Ops /\ 0 \in Nat /\ target \in Status \cup Targets \cup {""}
      BY DEF Codes
    <2>4. Frame("request", t, 0, srwnd(p, t), target, 0) \in GoodFrames
      BY <1>2, <2>2, <2>3, FrameTypes
    <2>5. QED
      BY <2>1, <2>4
  <1>4. CASE op[p][t] = "response"
    <2>1. f = Frame("response", cur[p].sid, cur[p].did, cur[p].rwnd, cur[p].status, 0)
      BY <1>4 DEF FirstFrames
    <2>2. cur[p].sid \in Thread /\ cur[p].did \in Thread /\ cur[p].rwnd \in Int /\ cur[p].status \in Status
      BY <1>1 DEF CurTypes
    <2>3. "response" \in Codes \cup Ops /\ 0 \in Nat /\ cur[p].status \in Status \cup Targets \cup {""}
      BY <2>2 DEF Codes
    <2>4. Frame("response", cur[p].sid, cur[p].did, cur[p].rwnd, cur[p].status, 0) \in GoodFrames
      BY <2>2, <2>3, FrameTypes
    <2>5. QED
      BY <2>1, <2>4
  <1>5. CASE op[p][t] \notin {"request", "response"}
    <2>1. f = Frame(op[p][t], t, st[p][t].did, 0, "", 0)
      BY <1>5 DEF FirstFrames
    <2>2. st[p][t].did \in Thread
      BY <1>2 DEF Streams
    <2>3. op[p][t] \in Codes \cup Ops /\ 0 \in Int /\ 0 \in Nat /\ "" \in Status \cup Targets \cup {""}
      BY <1>2
    <2>4. Frame(op[p][t], t, st[p][t].did, 0, "", 0) \in GoodFrames
      BY <1>5, <2>2, <2>3, FrameTypes
    <2>5. QED
      BY <2>1, <2>4
  <1>6. QED
    BY <1>3, <1>4, <1>5

LEMMA SendTypes ==
  ASSUME TypeInv, NEW p \in Peer, NEW t \in Thread, corpc_proto_send(p, t)
  PROVE  TypeInv'
  <1>1. /\ ChanTypes /\ StreamTypes /\ ThreadTypes /\ CurTypes /\ CountTypes /\ Roles
        /\ net \in [Peer -> Seq(GoodFrames)]
    BY TypeParts
  <1>2. /\ UNCHANGED <<chst, refs, alive, held, sock, wlock, link, gsid, tbl, live, st, op, asleep, cur,
                       nopen, nwr, nrd, bug>>
        /\ pc[p][t] = "send"
    BY DEF corpc_proto_send, chanVars, streamVars, countVars
  <1> DEFINE next == IF op[p][t] = "data" THEN "payload" ELSE "release"
  <1>3. PICK f \in FirstFrames(p, t) : SendFrame(p, t, f, next)
    BY DEF corpc_proto_send
  <1>4. f \in GoodFrames
    BY <1>2, FirstFrameTypes
  <1>5. pc[p][t] \in Sending /\ op[p][t] \in MessagesOf(t)
    BY <1>1, <1>2 DEF Roles, Role, Sending
  <1>6. next \in {"payload", "sent", "release"} /\ (next # "release" => op[p][t] = "data" /\ t # 0)
    BY <1>5 DEF MessagesOf
  <1> HIDE DEF next
  <1>7. net' \in [Peer -> Seq(GoodFrames)] /\ ThreadTypes' /\ Roles'
    BY <1>1, <1>2, <1>3, <1>4, <1>5, <1>6, SendFrameTypes
  <1>8. ChanTypes' /\ CountTypes' /\ CurTypes' /\ StreamTypes'
    BY <1>1, <1>2 DEF ChanTypes, CountTypes, CurTypes, StreamTypes
  <1>9. QED
    BY <1>7, <1>8, ThreadsOnly

LEMMA PayloadTypes ==
  ASSUME TypeInv, NEW p \in Peer, NEW t \in Thread, corpc_proto_send_payload(p, t)
  PROVE  TypeInv'
  <1>1. /\ ChanTypes /\ StreamTypes /\ ThreadTypes /\ CurTypes /\ CountTypes /\ Roles
        /\ net \in [Peer -> Seq(GoodFrames)]
    BY TypeParts
  <1>2. /\ UNCHANGED <<chst, refs, alive, held, sock, wlock, link, gsid, tbl, live, st, op, asleep, cur,
                       nopen, nrd, bug>>
        /\ pc[p][t] = "payload"
    BY DEF corpc_proto_send_payload, chanVars, streamVars
  <1>3. op[p][t] = "data" /\ t # 0 /\ t \in Sid
    BY <1>1, <1>2, ThreadFacts DEF Roles, Role, ChannelPCs
  <1>4. nwr[p][t] \in Nat /\ nwr \in [Peer -> [Sid -> Nat]]
    BY <1>1, <1>3 DEF CountTypes
  <1>5. Frame("payload", 0, 0, 0, "", nwr[p][t] + 1) \in GoodFrames
    <2>1. /\ "payload" \in Codes \cup Ops /\ 0 \in Thread /\ 0 \in Int /\ nwr[p][t] + 1 \in Nat
          /\ "" \in Status \cup Targets \cup {""}
      BY <1>4, ThreadFacts DEF Codes
    <2>2. QED
      BY <2>1, FrameTypes
  <1>6. SendFrame(p, t, Frame("payload", 0, 0, 0, "", nwr[p][t] + 1), "sent") /\ pc[p][t] \in Sending
    BY <1>2 DEF corpc_proto_send_payload, Sending
  <1>7. net' \in [Peer -> Seq(GoodFrames)] /\ ThreadTypes' /\ Roles'
    BY <1>1, <1>2, <1>3, <1>5, <1>6, SendFrameTypes
  <1>8. nwr' \in [Peer -> [Sid -> Nat]]
    <2>1. PICK m \in Nat : nwr' = [nwr EXCEPT ![p][t] = m]
      <3> DEFINE m == IF ok'[p][t] THEN nwr[p][t] + 1 ELSE nwr[p][t]
      <3>1. nwr' = [nwr EXCEPT ![p][t] = m]
        BY DEF corpc_proto_send_payload
      <3>2. m \in Nat
        BY <1>4
      <3>3. QED
        BY <3>1, <3>2
    <2>2. QED
      BY <1>3, <1>4, <2>1, Update
  <1>9. ChanTypes' /\ CountTypes' /\ CurTypes' /\ StreamTypes'
    BY <1>1, <1>2, <1>8 DEF ChanTypes, CountTypes, CurTypes, StreamTypes
  <1>10. QED
    BY <1>7, <1>9, ThreadsOnly

\* A stream whose record keeps its shape.
LEMMA StreamFields ==
  ASSUME NEW r \in Streams
  PROVE  /\ r = [state |-> r.state, did |-> r.did, rwnd |-> r.rwnd, rxq |-> r.rxq]
         /\ r.state \in StreamState /\ r.did \in Thread /\ r.rwnd \in Int /\ r.rxq \in Seq(Nat)
         /\ \A x \in StreamState : [r EXCEPT !.state = x] \in Streams
         /\ \A x \in Int : [r EXCEPT !.rwnd = x] \in Streams
         /\ \A x \in Seq(Nat) : [r EXCEPT !.rxq = x] \in Streams
  BY DEF Streams

LEMMA StreamAnswered ==
  ASSUME NEW r \in Streams, NEW x \in StreamState, NEW d \in Thread, NEW w \in Int
  PROVE  [r EXCEPT !.state = x, !.did = d, !.rwnd = w] \in Streams
  BY DEF Streams

\* A change of one stream is the change of its record.
LEMMA StreamTypesStep ==
  ASSUME StreamTypes, NEW p \in Peer, NEW s \in Thread, NEW r \in Streams,
         st' = [st EXCEPT ![p][s] = r], UNCHANGED <<gsid, tbl, live>>
  PROVE  StreamTypes'
  <1>1. st' \in [Peer -> [Thread -> Streams]]
    BY StreamStep
  <1>2. QED
    BY <1>1 DEF StreamTypes

LEMMA SentTypes ==
  ASSUME TypeInv, NEW p \in Peer, NEW t \in Thread, send_data_done(p, t)
  PROVE  TypeInv'
  <1>1. /\ ChanTypes /\ StreamTypes /\ ThreadTypes /\ CurTypes /\ CountTypes /\ Roles
        /\ net \in [Peer -> Seq(GoodFrames)]
    BY TypeParts
  <1>2. /\ UNCHANGED <<chst, refs, alive, held, sock, wlock, link, net, gsid, tbl, live, op, ok, asleep, cur,
                       nopen, nwr, nrd, bug>>
        /\ pc[p][t] = "sent" /\ Goto(p, t, "release")
    BY DEF send_data_done, chanVars, countVars
  <1>3. StreamTypes'
    <2>1. st[p][t] \in Streams
      BY <1>1 DEF StreamTypes
    <2>2. st[p][t].rwnd - 1 \in Int
      BY <2>1, StreamFields
    <2>3. [st[p][t] EXCEPT !.rwnd = st[p][t].rwnd - 1] \in Streams
      BY <2>1, <2>2, StreamFields
    <2>4. st' = [st EXCEPT ![p][t] = [st[p][t] EXCEPT !.rwnd = st[p][t].rwnd - 1]]
      BY DEF send_data_done
    <2>5. QED
      BY <1>1, <1>2, <2>3, <2>4, StreamTypesStep
  <1>4. "release" \in PCs /\ Role(t, "release", op[p][t])
    BY <1>1, <1>2 DEF Roles, Role, PCs, Sending, ChannelPCs, StreamPCs
  <1>5. pc' \in [Peer -> [Thread -> PCs]] /\ op' \in [Peer -> [Thread -> Ops]] /\ Roles'
    BY <1>1, <1>2, <1>4, GotoStep
  <1>6. ThreadTypes'
    BY <1>1, <1>2, <1>5 DEF ThreadTypes
  <1>7. ChanTypes' /\ CountTypes' /\ CurTypes' /\ net' \in [Peer -> Seq(GoodFrames)]
    BY <1>1, <1>2 DEF ChanTypes, CountTypes, CurTypes
  <1>8. QED
    BY <1>3, <1>5, <1>6, <1>7, ThreadsOnly

LEMMA OpenWaitTypes ==
  ASSUME TypeInv, NEW p \in Peer, NEW t \in Thread, corpc_open_stream_wait(p, t)
  PROVE  TypeInv'
  <1>1. /\ ChanTypes /\ StreamTypes /\ ThreadTypes /\ CurTypes /\ CountTypes /\ Roles
        /\ net \in [Peer -> Seq(GoodFrames)]
    BY TypeParts
  <1>2. /\ UNCHANGED <<chst, refs, alive, held, sock, wlock, link, net, gsid, tbl, live, st, op, ok, cur,
                       nopen, nwr, nrd, bug>>
        /\ pc[p][t] = "opening"
        /\ \/ wait(p, t) /\ UNCHANGED pc
           \/ UNCHANGED asleep /\ \E l \in {"open", "fail"} : Goto(p, t, l)
    BY DEF corpc_open_stream_wait, chanVars, streamVars, countVars
  <1>3. asleep' \in [Peer -> SUBSET Thread]
    BY <1>1, <1>2, SleepTypes
  <1>4. \A l \in {"open", "fail"} : l \in PCs /\ Role(t, l, op[p][t])
    BY <1>1, <1>2 DEF Roles, Role, PCs, Sending, ChannelPCs, StreamPCs
  <1>5. pc' \in [Peer -> [Thread -> PCs]] /\ op' \in [Peer -> [Thread -> Ops]] /\ Roles'
    <2>1. CASE UNCHANGED pc
      BY <1>1, <1>2, <2>1 DEF ThreadTypes, Roles
    <2>2. CASE \E l \in {"open", "fail"} : Goto(p, t, l)
      BY <1>1, <1>2, <1>4, <2>2, GotoStep
    <2>3. QED
      BY <1>2, <2>1, <2>2
  <1>6. ThreadTypes'
    BY <1>1, <1>2, <1>3, <1>5 DEF ThreadTypes
  <1>7. ChanTypes' /\ CountTypes' /\ CurTypes' /\ StreamTypes' /\ net' \in [Peer -> Seq(GoodFrames)]
    BY <1>1, <1>2 DEF ChanTypes, CountTypes, CurTypes, StreamTypes
  <1>8. QED
    BY <1>5, <1>6, <1>7, ThreadsOnly

\* Both calls that free a stream.
LEMMA EraseTypes ==
  ASSUME TypeInv, NEW p \in Peer, NEW t \in Thread,
         corpc_open_stream_fail(p, t) \/ corpc_close_stream_erase(p, t)
  PROVE  TypeInv'
  <1>1. /\ ChanTypes /\ StreamTypes /\ ThreadTypes /\ CurTypes /\ CountTypes /\ Roles
        /\ net \in [Peer -> Seq(GoodFrames)]
    BY TypeParts
  <1>2. /\ UNCHANGED <<chst, refs, held, sock, wlock, link, net, gsid, op, ok, asleep, cur, nopen, nwr, nrd, bug>>
        /\ pc[p][t] \in {"fail", "erase"} /\ Goto(p, t, "done") /\ EraseAndDestroy(p, t)
        /\ UNCHANGED alive \/ \E b \in BOOLEAN : alive' = [alive EXCEPT ![p] = b]
    <2>1. ASSUME NEW b PROVE (alive[p] /\ b) \in BOOLEAN
      OBVIOUS
    <2>2. QED
      BY <2>1 DEF corpc_open_stream_fail, corpc_close_stream_erase, chanVars, countVars
  <1>3. StreamTypes'
    BY <1>1, <1>2, EraseStep
  <1>4. "done" \in PCs /\ Role(t, "done", op[p][t])
    BY <1>1, <1>2 DEF Roles, Role, PCs, Sending, ChannelPCs, StreamPCs
  <1>5. pc' \in [Peer -> [Thread -> PCs]] /\ op' \in [Peer -> [Thread -> Ops]] /\ Roles'
    BY <1>1, <1>2, <1>4, GotoStep
  <1>6. ThreadTypes'
    BY <1>1, <1>2, <1>5 DEF ThreadTypes
  <1>7. ChanTypes' /\ CountTypes' /\ CurTypes' /\ net' \in [Peer -> Seq(GoodFrames)]
    BY <1>1, <1>2 DEF ChanTypes, CountTypes, CurTypes
  <1>8. QED
    BY <1>3, <1>5, <1>6, <1>7, ThreadsOnly

LEMMA ReadTypes ==
  ASSUME TypeInv, NEW p \in Peer, NEW t \in Thread, corpc_stream_read_internal(p, t)
  PROVE  TypeInv'
  <1>1. /\ ChanTypes /\ StreamTypes /\ ThreadTypes /\ CurTypes /\ CountTypes /\ Roles
        /\ net \in [Peer -> Seq(GoodFrames)]
    BY TypeParts
  <1>2. /\ UNCHANGED <<chst, refs, alive, held, sock, wlock, link, net, gsid, tbl, live, cur, nopen, nwr, bug>>
        /\ pc[p][t] = "read"
    BY DEF corpc_stream_read_internal, chanVars
  <1>3. t # 0 /\ t \in Sid
    BY <1>1, <1>2, ThreadFacts DEF Roles, Role, ChannelPCs
  <1>4. asleep' \in [Peer -> SUBSET Thread]
    BY <1>1, SleepTypes DEF corpc_stream_read_internal
  <1>5. /\ pc' \in [Peer -> [Thread -> PCs]] /\ op' \in [Peer -> [Thread -> Ops]]
        /\ ok' \in [Peer -> [Thread -> BOOLEAN]] /\ Roles'
    <2>1. "open" \in PCs /\ Role(t, "open", op[p][t]) /\ "ack" \in MessagesOf(t)
      BY <1>1, <1>3 DEF Roles, Role, PCs, Sending, StreamPCs, MessagesOf
    <2>2. \/ UNCHANGED threadVars
          \/ Goto(p, t, "open") /\ UNCHANGED <<op, ok>>
          \/ Call(p, t, "ack")
      BY DEF corpc_stream_read_internal
    <2>3. CASE UNCHANGED threadVars
      BY <1>1, <2>3 DEF threadVars, ThreadTypes, Roles
    <2>4. CASE Goto(p, t, "open") /\ UNCHANGED <<op, ok>>
      BY <1>1, <2>1, <2>4, GotoStep DEF ThreadTypes
    <2>5. CASE Call(p, t, "ack")
      BY <1>1, <2>1, <2>5, CallStep DEF ThreadTypes
    <2>6. QED
      BY <2>2, <2>3, <2>4, <2>5
  <1>6. StreamTypes' /\ nrd' \in [Peer -> [Sid -> Nat]]
    <2>1. CASE UNCHANGED <<st, nrd>>
      BY <1>1, <1>2, <2>1 DEF StreamTypes, CountTypes
    <2>2. CASE /\ st[p][t].rxq # << >> /\ st' = [st EXCEPT ![p][t].rxq = Tail(@)]
               /\ nrd' = [nrd EXCEPT ![p][t] = @ + 1]
      <3>1. st[p][t] \in Streams
        BY <1>1 DEF StreamTypes
      <3>2. Tail(st[p][t].rxq) \in Seq(Nat)
        BY <2>2, <3>1, StreamFields, HeadTailProperties
      <3>3. [st[p][t] EXCEPT !.rxq = Tail(st[p][t].rxq)] \in Streams
        BY <3>1, <3>2, StreamFields
      <3>4. st' = [st EXCEPT ![p][t] = [st[p][t] EXCEPT !.rxq = Tail(st[p][t].rxq)]]
        BY <2>2
      <3>5. StreamTypes'
        BY <1>1, <1>2, <3>3, <3>4, StreamTypesStep
      <3>6. /\ nrd \in [Peer -> [Sid -> Nat]] /\ nrd[p][t] + 1 \in Nat
            /\ nrd' = [nrd EXCEPT ![p][t] = nrd[p][t] + 1]
        <4>1. nrd \in [Peer -> [Sid -> Nat]]
          BY <1>1 DEF CountTypes
        <4>2. nrd' = [nrd EXCEPT ![p][t] = nrd[p][t] + 1]
          BY <2>2
        <4>3. nrd[p][t] + 1 \in Nat
          BY <1>3, <4>1
        <4>4. QED
          BY <4>1, <4>2, <4>3
      <3>7. nrd' \in [Peer -> [Sid -> Nat]]
        BY <1>3, <3>6, Update
      <3>8. QED
        BY <3>5, <3>7
    <2>3. QED
      BY <2>1, <2>2 DEF corpc_stream_read_internal
  <1>7. ThreadTypes'
    BY <1>4, <1>5 DEF ThreadTypes
  <1>8. ChanTypes' /\ CountTypes' /\ CurTypes' /\ net' \in [Peer -> Seq(GoodFrames)]
    BY <1>1, <1>2, <1>6 DEF ChanTypes, CountTypes, CurTypes
  <1>9. QED
    BY <1>5, <1>6, <1>7, <1>8, ThreadsOnly

\* The next frame, and what is left after it.
LEMMA ReceivedFrame ==
  ASSUME TypeInv, NEW p \in Peer, NEW code, Received(p, code), Consume(p)
  PROVE  /\ net' \in [Peer -> Seq(GoodFrames)]
         /\ Head(net[p]) \in GoodFrames /\ Head(net[p]) \in Frames
         /\ Head(net[p]).sid \in Thread /\ Head(net[p]).did \in Thread /\ Head(net[p]).rwnd \in Int
         /\ code = "response" => Head(net[p]).info \in Status
  <1>1. net' \in [Peer -> Seq(GoodFrames)] /\ Head(net[p]) \in GoodFrames
    BY TypeParts, ConsumeNet DEF Received
  <1>2. Head(net[p]) \in Frames /\ (code = "response" => Head(net[p]).info \in Status)
    BY <1>1 DEF GoodFrames, Received
  <1>3. QED
    BY <1>1, <1>2 DEF Frames

\* The channel thread begins to answer a request.
LEMMA AnswerStep ==
  ASSUME TypeInv, NEW p \in Peer, Call(p, 0, "response"), UNCHANGED asleep
  PROVE  ThreadTypes' /\ Roles'
  <1>1. ThreadTypes /\ Roles
    BY TypeParts
  <1>2. "response" \in MessagesOf(0) /\ 0 \in Thread
    BY ThreadFacts DEF MessagesOf
  <1>3. /\ pc' \in [Peer -> [Thread -> PCs]] /\ op' \in [Peer -> [Thread -> Ops]] /\ ok' = ok /\ Roles'
    BY <1>1, <1>2, CallStep
  <1>4. QED
    BY <1>1, <1>3 DEF ThreadTypes

\* The channel thread moves on.
LEMMA ChannelGoto ==
  ASSUME TypeInv, NEW p \in Peer, NEW l \in {"recv", "start", "shut", "done"}, Goto(p, 0, l),
         UNCHANGED <<op, ok>>, UNCHANGED asleep \/ signal(p)
  PROVE  ThreadTypes' /\ Roles'
  <1>1. ThreadTypes /\ Roles /\ 0 \in Thread
    BY TypeParts, ThreadFacts
  <1>2. l \in PCs /\ Role(0, l, op[p][0])
    BY DEF Role, PCs, Sending, ChannelPCs
  <1>3. pc' \in [Peer -> [Thread -> PCs]] /\ op' \in [Peer -> [Thread -> Ops]] /\ Roles'
    BY <1>1, <1>2, GotoStep
  <1>4. asleep' \in [Peer -> SUBSET Thread]
    BY <1>1, SleepTypes
  <1>5. QED
    BY <1>1, <1>3, <1>4 DEF ThreadTypes

\* No thread moves.
LEMMA ChannelStays ==
  ASSUME TypeInv, NEW p \in Peer, UNCHANGED <<pc, op, ok>>, UNCHANGED asleep \/ signal(p)
  PROVE  ThreadTypes' /\ Roles'
  <1>1. ThreadTypes /\ Roles /\ 0 \in Thread
    BY TypeParts, ThreadFacts
  <1>2. asleep' \in [Peer -> SUBSET Thread]
    BY <1>1, SleepTypes
  <1>3. QED
    BY <1>1, <1>2 DEF ThreadTypes, Roles

\* The sid of a new stream.
LEMMA NewSid ==
  ASSUME TypeInv, NEW p \in Peer, gsid[p] < MaxSid
  PROVE  gensid(p) \in Sid /\ gensid(p) \in Thread /\ gensid(p) = gsid[p] + 1 /\ gsid[p] \in Nat
  <1>1. gsid[p] \in Thread
    BY TypeParts DEF StreamTypes
  <1>2. QED
    BY <1>1, BoundsAssumption DEF gensid, Sid, Thread

\* A new stream enters the channel.
LEMMA NewStreamTypes ==
  ASSUME TypeInv, NEW p \in Peer, gsid[p] < MaxSid, NEW d \in Thread, NEW w \in Int,
         gsid' = [gsid EXCEPT ![p] = gensid(p)],
         tbl'  = [tbl EXCEPT ![p] = @ \cup {gensid(p)}],
         live' = [live EXCEPT ![p] = @ \cup {gensid(p)}],
         st'   = [st EXCEPT ![p][gensid(p)] = Stream("opening", d, w)]
  PROVE  StreamTypes'
  <1>1. gensid(p) \in Sid /\ gensid(p) \in Thread
    BY NewSid
  <1>2. StreamTypes
    BY TypeParts
  <1>3. Stream("opening", d, w) \in Streams
    BY EmptySeq DEF Stream, Streams, StreamState
  <1>4. st' \in [Peer -> [Thread -> Streams]]
    BY <1>1, <1>2, <1>3, StreamStep
  <1>5. gsid' \in [Peer -> Thread]
    BY <1>1, <1>2 DEF StreamTypes
  <1>6. tbl' \in [Peer -> SUBSET Sid] /\ live' \in [Peer -> SUBSET Sid]
    <2>1. tbl[p] \cup {gensid(p)} \in SUBSET Sid /\ live[p] \cup {gensid(p)} \in SUBSET Sid
      BY <1>1, <1>2 DEF StreamTypes
    <2>2. QED
      BY <1>2, <2>1 DEF StreamTypes
  <1>7. QED
    BY <1>4, <1>5, <1>6 DEF StreamTypes

LEMMA RequestTypes ==
  ASSUME TypeInv, NEW p \in Peer, on_create_stream_request(p)
  PROVE  TypeInv'
  <1>1. /\ ChanTypes /\ StreamTypes /\ ThreadTypes /\ CurTypes /\ CountTypes /\ Roles
        /\ net \in [Peer -> Seq(GoodFrames)]
    BY TypeParts
  <1>2. UNCHANGED <<chst, refs, alive, held, sock, wlock, link, asleep, nopen, nwr, nrd, bug>>
    BY DEF on_create_stream_request, chanVars, countVars
  <1>3. net' \in [Peer -> Seq(GoodFrames)] /\ Head(net[p]).sid \in Thread /\ Head(net[p]).rwnd \in Int
    BY ReceivedFrame DEF on_create_stream_request
  <1>4. 0 \in Thread /\ 0 \in Int
    BY ThreadFacts
  <1>5. ThreadTypes' /\ Roles' /\ CurTypes' /\ StreamTypes'
    <2> DEFINE m == Head(net[p])
               taken == [obj |-> gensid(p), sid |-> 0, did |-> m.sid, rwnd |-> 0, status |-> "ok"]
    <2>1. CASE m.info = "method" /\ Cardinality(tbl[p]) < MaxStreams
      <3>1. /\ gsid[p] < MaxSid
            /\ gsid' = [gsid EXCEPT ![p] = gensid(p)]
            /\ tbl'  = [tbl EXCEPT ![p] = @ \cup {gensid(p)}]
            /\ live' = [live EXCEPT ![p] = @ \cup {gensid(p)}]
            /\ st'   = [st EXCEPT ![p][gensid(p)] = Stream("opening", m.sid, m.rwnd)]
            /\ cur'  = [cur EXCEPT ![p] = taken]
            /\ Goto(p, 0, "start") /\ UNCHANGED <<op, ok>>
        BY <2>1 DEF on_create_stream_request
      <3>2. StreamTypes'
        BY <1>3, <3>1, NewStreamTypes
      <3>3. ThreadTypes' /\ Roles'
        BY <1>2, <3>1, ChannelGoto
      <3>4. taken \in [obj : Thread, sid : Thread, did : Thread, rwnd : Int, status : Status]
        BY <1>3, <1>4, <3>1, NewSid DEF Status
      <3>5. CurTypes'
        BY <1>1, <3>1, <3>4 DEF CurTypes
      <3>6. QED
        BY <3>2, <3>3, <3>5
    <2>2. CASE ~(m.info = "method" /\ Cardinality(tbl[p]) < MaxStreams)
      <3>1. Call(p, 0, "response") /\ UNCHANGED <<gsid, tbl, live, st>>
        BY <2>2 DEF on_create_stream_request, streamVars
      <3>2. PICK x \in Status : cur' = [cur EXCEPT ![p] =
                    [obj |-> 0, sid |-> 0, did |-> m.sid, rwnd |-> 0, status |-> x]]
        <4> DEFINE x == CASE m.info = "no_service" -> "no_service"
                          [] m.info = "no_method"  -> "no_method"
                          [] OTHER                 -> "no_stream_resources"
        <4>1. x \in Status
          BY DEF Status
        <4>2. cur' = [cur EXCEPT ![p] = [obj |-> 0, sid |-> 0, did |-> m.sid, rwnd |-> 0, status |-> x]]
          BY <2>2 DEF on_create_stream_request
        <4> HIDE DEF x
        <4>3. QED
          BY <4>1, <4>2
      <3>3. CurTypes'
        BY <1>1, <1>3, <1>4, <3>2 DEF CurTypes
      <3>4. ThreadTypes' /\ Roles'
        BY <1>2, <3>1, AnswerStep
      <3>5. QED
        BY <1>1, <3>1, <3>3, <3>4 DEF StreamTypes
    <2>3. QED
      BY <2>1, <2>2
  <1>6. ChanTypes' /\ CountTypes'
    BY <1>1, <1>2 DEF ChanTypes, CountTypes
  <1>7. QED
    BY <1>3, <1>5, <1>6, ThreadsOnly

\* The room in a receive queue is a number.
LEMMA RoomType ==
  ASSUME TypeInv, NEW p \in Peer, NEW s \in Thread
  PROVE  srwnd(p, s) \in Int
  <1>1. st[p][s] \in Streams
    BY TypeParts DEF StreamTypes
  <1>2. Len(st[p][s].rxq) \in Nat
    BY <1>1, StreamFields, LenProperties
  <1>3. QED
    BY <1>2, BoundsAssumption DEF srwnd

\* The request being answered keeps its shape.
LEMMA CurStep ==
  ASSUME CurTypes, NEW p \in Peer, NEW s \in Thread, NEW w \in Int, NEW x \in Status,
         cur' = [cur EXCEPT ![p] = [cur[p] EXCEPT !.sid = s, !.rwnd = w, !.status = x]]
  PROVE  CurTypes'
  <1>1. cur[p] \in [obj : Thread, sid : Thread, did : Thread, rwnd : Int, status : Status]
    BY DEF CurTypes
  <1>2. [cur[p] EXCEPT !.sid = s, !.rwnd = w, !.status = x]
          \in [obj : Thread, sid : Thread, did : Thread, rwnd : Int, status : Status]
    BY <1>1
  <1>3. QED
    BY <1>2 DEF CurTypes

LEMMA StartTypes ==
  ASSUME TypeInv, FreshInv, NEW p \in Peer, start_service_method_thread(p)
  PROVE  TypeInv'
  <1>1. /\ ChanTypes /\ StreamTypes /\ ThreadTypes /\ CurTypes /\ CountTypes /\ Roles
        /\ net \in [Peer -> Seq(GoodFrames)]
    BY TypeParts
  <1>2. /\ UNCHANGED <<chst, refs, alive, held, sock, wlock, link, net, gsid, tbl, live, st, asleep,
                       nopen, nwr, nrd, bug>>
        /\ pc[p][0] = "start"
    BY DEF start_service_method_thread, chanVars, streamVars, countVars
  <1>3. cur[p].obj \in Sid /\ cur[p].obj \in Thread /\ cur[p].obj # 0 /\ 0 \in Thread
    BY <1>2, ThreadFacts DEF FreshInv, Running
  <1>4. ThreadTypes' /\ Roles' /\ CurTypes'
    <2>1. CASE UNCHANGED <<cur, op, ok>> /\ \E l \in {"read", "open"} :
                 pc' = [pc EXCEPT ![p][0] = "started", ![p][cur[p].obj] = l]
      <3>1. PICK l \in {"read", "open"} : pc' = [pc EXCEPT ![p][0] = "started", ![p][cur[p].obj] = l]
        BY <2>1
      <3>2. /\ pc' \in [Peer -> [Thread -> PCs]]
            /\ \A q \in Peer : q # p => pc'[q] = pc[q]
            /\ pc'[p][0] = "started" /\ pc'[p][cur[p].obj] = l
            /\ \A t \in Thread : t # 0 /\ t # cur[p].obj => pc'[p][t] = pc[p][t]
        BY <1>1, <1>3, <3>1 DEF ThreadTypes, PCs, Sending
      <3>3. Role(0, "started", op[p][0]) /\ Role(cur[p].obj, l, op[p][cur[p].obj])
        BY <1>3 DEF Role, ChannelPCs, StreamPCs, PCs, Sending
      <3>4. \A q \in Peer : \A t \in Thread : Role(t, pc'[q][t], op[q][t])
        BY <1>1, <3>2, <3>3 DEF Roles
      <3>5. QED
        BY <1>1, <1>2, <2>1, <3>2, <3>4 DEF ThreadTypes, Roles, CurTypes
    <2>2. CASE /\ cur' = [cur EXCEPT ![p].status = "internal_error", ![p].rwnd = srwnd(p, cur[p].obj)]
               /\ Call(p, 0, "response")
      <3>1. ThreadTypes' /\ Roles'
        BY <1>2, <2>2, AnswerStep
      <3>2. cur[p].sid \in Thread /\ srwnd(p, cur[p].obj) \in Int /\ "internal_error" \in Status
        BY <1>1, <1>3, RoomType DEF CurTypes, Status
      <3>3. cur' = [cur EXCEPT ![p] = [cur[p] EXCEPT !.sid = cur[p].sid, !.rwnd = srwnd(p, cur[p].obj),
                                                     !.status = "internal_error"]]
        BY <1>1, <2>2 DEF CurTypes
      <3>4. CurTypes'
        BY <1>1, <3>2, <3>3, CurStep
      <3>5. QED
        BY <3>1, <3>4
    <2>3. QED
      BY <2>1, <2>2 DEF start_service_method_thread
  <1>5. ChanTypes' /\ CountTypes' /\ StreamTypes' /\ net' \in [Peer -> Seq(GoodFrames)]
    BY <1>1, <1>2 DEF ChanTypes, CountTypes, StreamTypes
  <1>6. QED
    BY <1>4, <1>5, ThreadsOnly

\* What a pointer to a stream reaches.
LEMMA DerefTypes ==
  ASSUME StreamTypes, NEW p \in Peer, NEW s, NEW o \in Deref(p, s)
  PROVE  o \in Thread /\ (o # 0 => o \in live[p])
  BY ThreadFacts DEF Deref, StreamTypes

LEMMA ReplyTypes ==
  ASSUME TypeInv, NEW p \in Peer, on_create_stream_request_reply(p)
  PROVE  TypeInv'
  <1>1. /\ ChanTypes /\ StreamTypes /\ ThreadTypes /\ CurTypes /\ CountTypes /\ Roles
        /\ net \in [Peer -> Seq(GoodFrames)]
    BY TypeParts
  <1>2. /\ UNCHANGED <<chst, refs, alive, held, sock, wlock, link, net, gsid, tbl, live, st, asleep,
                       nopen, nwr, nrd>>
        /\ Call(p, 0, "response")
        /\ bug' = bug \cup UseAfterFree(p, cur[p].obj)
    BY DEF on_create_stream_request_reply, chanVars, streamVars, countVars
  <1>3. ThreadTypes' /\ Roles'
    BY <1>2, AnswerStep
  <1>4. CurTypes'
    <2>1. PICK o \in Deref(p, cur[p].obj) :
            cur' = [cur EXCEPT ![p].sid = o, ![p].rwnd = IF o = 0 THEN 0 ELSE srwnd(p, o)]
      BY DEF on_create_stream_request_reply
    <2>2. o \in Thread /\ cur[p].status \in Status
      BY <1>1, DerefTypes DEF CurTypes
    <2>3. PICK w \in Int : w = IF o = 0 THEN 0 ELSE srwnd(p, o)
      BY <2>2, RoomType
    <2>4. cur' = [cur EXCEPT ![p] = [cur[p] EXCEPT !.sid = o, !.rwnd = w, !.status = cur[p].status]]
      BY <1>1, <2>1, <2>3 DEF CurTypes
    <2>5. QED
      BY <1>1, <2>2, <2>4, CurStep
  <1>5. ChanTypes' /\ CountTypes' /\ StreamTypes' /\ net' \in [Peer -> Seq(GoodFrames)]
    BY <1>1, <1>2 DEF ChanTypes, CountTypes, StreamTypes, UseAfterFree
  <1>6. QED
    BY <1>3, <1>4, <1>5, ThreadsOnly

\* A stream changes its state.
LEMMA StateTypes ==
  ASSUME StreamTypes, NEW p \in Peer, NEW s \in Thread, NEW x \in StreamState,
         st' = [st EXCEPT ![p][s].state = x], UNCHANGED <<gsid, tbl, live>>
  PROVE  StreamTypes'
  <1>1. [st[p][s] EXCEPT !.state = x] \in Streams
    BY StreamFields DEF StreamTypes
  <1>2. st' = [st EXCEPT ![p][s] = [st[p][s] EXCEPT !.state = x]]
    OBVIOUS
  <1>3. QED
    BY <1>1, <1>2, StreamTypesStep

LEMMA DoneTypes ==
  ASSUME TypeInv, NEW p \in Peer, on_create_stream_request_done(p)
  PROVE  TypeInv'
  <1>1. /\ ChanTypes /\ StreamTypes /\ ThreadTypes /\ CurTypes /\ CountTypes /\ Roles
        /\ net \in [Peer -> Seq(GoodFrames)]
    BY TypeParts
  <1>2. /\ UNCHANGED <<chst, refs, alive, held, sock, wlock, link, net, gsid, op, ok, cur, nopen, nwr, nrd>>
        /\ Goto(p, 0, "recv") /\ (UNCHANGED asleep \/ signal(p))
        /\ UNCHANGED bug \/ bug' = bug \cup UseAfterFree(p, cur[p].obj)
    BY DEF on_create_stream_request_done, chanVars, countVars
  <1>3. ThreadTypes' /\ Roles'
    BY <1>2, ChannelGoto
  <1>4. StreamTypes'
    <2>1. CASE UNCHANGED <<tbl, live, st>>
      BY <1>1, <1>2, <2>1 DEF StreamTypes
    <2>2. CASE /\ \E o \in Deref(p, cur[p].obj) :
                    st' = [st EXCEPT ![p][o].state = IF o = 0 THEN @ ELSE "established"]
               /\ UNCHANGED <<tbl, live>>
      <3>1. PICK o \in Deref(p, cur[p].obj) :
              st' = [st EXCEPT ![p][o].state = IF o = 0 THEN @ ELSE "established"]
        BY <2>2
      <3>2. o \in Thread
        BY <1>1, DerefTypes
      <3>3. PICK x \in StreamState : x = IF o = 0 THEN st[p][o].state ELSE "established"
        BY <1>1, <3>2, StreamFields DEF StreamTypes, StreamState
      <3>4. st' = [st EXCEPT ![p][o].state = x]
        BY <3>1, <3>3
      <3>5. QED
        BY <1>1, <1>2, <2>2, <3>2, <3>4, StateTypes
    <2>3. CASE EraseAndDestroy(p, cur[p].obj)
      BY <1>1, <1>2, <2>3, EraseStep DEF CurTypes
    <2>4. QED
      BY <2>1, <2>2, <2>3 DEF on_create_stream_request_done
  <1>5. ChanTypes' /\ CountTypes' /\ CurTypes' /\ net' \in [Peer -> Seq(GoodFrames)]
    BY <1>1, <1>2 DEF ChanTypes, CountTypes, CurTypes, UseAfterFree
  <1>6. QED
    BY <1>3, <1>4, <1>5, ThreadsOnly

LEMMA ResponseTypes ==
  ASSUME TypeInv, NEW p \in Peer, on_create_stream_responce(p)
  PROVE  TypeInv'
  <1>1. /\ ChanTypes /\ StreamTypes /\ ThreadTypes /\ CurTypes /\ CountTypes /\ Roles
        /\ net \in [Peer -> Seq(GoodFrames)]
    BY TypeParts
  <1>2. /\ UNCHANGED <<chst, refs, alive, held, sock, wlock, link, gsid, tbl, live, op, ok, cur, nopen, nwr, nrd>>
        /\ UNCHANGED asleep \/ signal(p)
        /\ UNCHANGED pc \/ Goto(p, 0, "shut")
        /\ UNCHANGED bug \/ bug' = bug \cup {"Invalid stream state"}
    BY DEF on_create_stream_responce, chanVars, countVars
  <1>3. ThreadTypes' /\ Roles'
    BY <1>2, ChannelGoto, ChannelStays
  <1>4. /\ net' \in [Peer -> Seq(GoodFrames)] /\ Head(net[p]).did \in Thread
        /\ Head(net[p]).sid \in Thread /\ Head(net[p]).rwnd \in Int /\ Head(net[p]).info \in Status
    BY ReceivedFrame DEF on_create_stream_responce
  <1>5. StreamTypes'
    <2> DEFINE m == Head(net[p])
               s == m.did
    <2>0. s \in Thread /\ st[p][s] \in Streams
      BY <1>1, <1>4 DEF StreamTypes
    <2>1. CASE UNCHANGED st
      BY <1>1, <1>2, <2>1 DEF StreamTypes
    <2>2. CASE st' = [st EXCEPT ![p][s].state = "established", ![p][s].did = m.sid, ![p][s].rwnd = m.rwnd]
      <3>1. "established" \in StreamState
        BY DEF StreamState
      <3>2. [st[p][s] EXCEPT !.state = "established", !.did = m.sid, !.rwnd = m.rwnd] \in Streams
        BY <1>4, <2>0, <3>1, StreamAnswered
      <3>3. st' = [st EXCEPT ![p][s] = [st[p][s] EXCEPT !.state = "established", !.did = m.sid, !.rwnd = m.rwnd]]
        BY <1>1, <2>0, <2>2 DEF StreamTypes
      <3>4. QED
        BY <1>1, <1>2, <2>0, <3>2, <3>3, StreamTypesStep
    <2>3. CASE m.info # "ok" /\ st' = [st EXCEPT ![p][s].state = RefusedState(m.info)]
      <3>1. PICK x \in StreamState : x = RefusedState(m.info)
        BY <1>4, <2>3 DEF RefusedState, StreamState, Status
      <3>2. st' = [st EXCEPT ![p][s].state = x]
        BY <2>3, <3>1
      <3>3. QED
        BY <1>1, <1>2, <2>0, <3>2, StateTypes
    <2>4. QED
      BY <2>1, <2>2, <2>3 DEF on_create_stream_responce
  <1>6. ChanTypes' /\ CountTypes' /\ CurTypes'
    BY <1>1, <1>2 DEF ChanTypes, CountTypes, CurTypes
  <1>7. QED
    BY <1>3, <1>4, <1>5, <1>6, ThreadsOnly

LEMMA CloseNotifyTypes ==
  ASSUME TypeInv, NEW p \in Peer, on_close_stream_notify(p)
  PROVE  TypeInv'
  <1>1. /\ ChanTypes /\ StreamTypes /\ ThreadTypes /\ CurTypes /\ CountTypes /\ Roles
        /\ net \in [Peer -> Seq(GoodFrames)]
    BY TypeParts
  <1>2. /\ UNCHANGED <<chst, refs, alive, held, sock, wlock, link, gsid, tbl, live, pc, op, ok, cur,
                       nopen, nwr, nrd, bug>>
        /\ UNCHANGED asleep \/ signal(p)
    BY DEF on_close_stream_notify, SetState, chanVars, threadVars, countVars
  <1>3. ThreadTypes' /\ Roles'
    BY <1>2, ChannelStays
  <1>4. net' \in [Peer -> Seq(GoodFrames)] /\ Head(net[p]).did \in Thread
    BY ReceivedFrame DEF on_close_stream_notify
  <1>5. StreamTypes'
    <2>1. CASE UNCHANGED st
      BY <1>1, <1>2, <2>1 DEF StreamTypes
    <2>2. CASE st' = [st EXCEPT ![p][Head(net[p]).did].state = "closed_by_remote_party"]
      <3>1. "closed_by_remote_party" \in StreamState
        BY DEF StreamState
      <3>2. QED
        BY <1>1, <1>2, <1>4, <2>2, <3>1, StateTypes
    <2>3. QED
      BY <2>1, <2>2 DEF on_close_stream_notify, SetState
  <1>6. ChanTypes' /\ CountTypes' /\ CurTypes'
    BY <1>1, <1>2 DEF ChanTypes, CountTypes, CurTypes
  <1>7. QED
    BY <1>3, <1>4, <1>5, <1>6, ThreadsOnly

LEMMA AckTypes ==
  ASSUME TypeInv, NEW p \in Peer, on_data_ack(p)
  PROVE  TypeInv'
  <1>1. /\ ChanTypes /\ StreamTypes /\ ThreadTypes /\ CurTypes /\ CountTypes /\ Roles
        /\ net \in [Peer -> Seq(GoodFrames)]
    BY TypeParts
  <1>2. /\ UNCHANGED <<chst, refs, alive, held, sock, wlock, link, gsid, tbl, live, pc, op, ok, cur,
                       nopen, nwr, nrd, bug>>
        /\ UNCHANGED asleep \/ signal(p)
    BY DEF on_data_ack, chanVars, threadVars, countVars
  <1>3. ThreadTypes' /\ Roles'
    BY <1>2, ChannelStays
  <1>4. net' \in [Peer -> Seq(GoodFrames)] /\ Head(net[p]).did \in Thread
    BY ReceivedFrame DEF on_data_ack
  <1>5. StreamTypes'
    <2> DEFINE s == Head(net[p]).did
    <2>1. CASE UNCHANGED st
      BY <1>1, <1>2, <2>1 DEF StreamTypes
    <2>2. CASE st' = [st EXCEPT ![p][s].rwnd = @ + 1]
      <3>1. st[p][s] \in Streams
        BY <1>1, <1>4 DEF StreamTypes
      <3>2. st[p][s].rwnd + 1 \in Int
        BY <3>1, StreamFields
      <3>3. [st[p][s] EXCEPT !.rwnd = st[p][s].rwnd + 1] \in Streams
        BY <3>1, <3>2, StreamFields
      <3>4. st' = [st EXCEPT ![p][s] = [st[p][s] EXCEPT !.rwnd = st[p][s].rwnd + 1]]
        BY <2>2
      <3>5. QED
        BY <1>1, <1>2, <1>4, <3>3, <3>4, StreamTypesStep
    <2>3. QED
      BY <2>1, <2>2 DEF on_data_ack
  <1>6. ChanTypes' /\ CountTypes' /\ CurTypes'
    BY <1>1, <1>2 DEF ChanTypes, CountTypes, CurTypes
  <1>7. QED
    BY <1>3, <1>4, <1>5, <1>6, ThreadsOnly

\* Both frames of a data message.
LEMMA ReceivedData ==
  ASSUME TypeInv, NEW p \in Peer, DataReceived(p), ConsumeData(p)
  PROVE  /\ net' \in [Peer -> Seq(GoodFrames)]
         /\ Head(net[p]).did \in Thread /\ net[p][2] \in GoodFrames /\ net[p][2].seq \in Nat
  <1>1. net \in [Peer -> Seq(GoodFrames)] /\ net[p] # << >> /\ Len(net[p]) > 1
    BY TypeParts DEF DataReceived, Received
  <1>2. /\ Head(net[p]) \in GoodFrames /\ Tail(net[p]) \in Seq(GoodFrames)
        /\ Len(Tail(net[p])) = Len(net[p]) - 1 /\ Len(net[p]) \in Nat
    BY <1>1, HeadTailProperties, LenProperties
  <1>3. Tail(net[p]) # << >>
    <2>1. Len(Tail(net[p])) # 0
      BY <1>1, <1>2
    <2>2. QED
      BY <1>2, <2>1, EmptySeq
  <1>4. Tail(Tail(net[p])) \in Seq(GoodFrames)
    BY <1>2, <1>3, HeadTailProperties
  <1>5. net[p][2] \in GoodFrames
    BY <1>1, <1>2, ElementOfSeq
  <1>6. QED
    BY <1>1, <1>2, <1>4, <1>5 DEF ConsumeData, GoodFrames, Frames

LEMMA DataTypes ==
  ASSUME TypeInv, NEW p \in Peer, on_data_message(p)
  PROVE  TypeInv'
  <1>1. /\ ChanTypes /\ StreamTypes /\ ThreadTypes /\ CurTypes /\ CountTypes /\ Roles
        /\ net \in [Peer -> Seq(GoodFrames)]
    BY TypeParts
  <1>2. /\ UNCHANGED <<chst, refs, alive, held, sock, wlock, link, gsid, tbl, live, op, ok, cur,
                       nopen, nwr, nrd>>
        /\ UNCHANGED asleep \/ signal(p)
        /\ UNCHANGED pc \/ Goto(p, 0, "shut")
        /\ UNCHANGED bug \/ \E x \in {"garbled frame", "ccfifo is full"} : bug' = bug \cup {x}
    BY DEF on_data_message, SetState, chanVars, countVars
  <1>3. ThreadTypes' /\ Roles'
    BY <1>2, ChannelGoto, ChannelStays
  <1>4. net' \in [Peer -> Seq(GoodFrames)] /\ Head(net[p]).did \in Thread /\ net[p][2].seq \in Nat
    BY ReceivedData DEF on_data_message
  <1>5. StreamTypes'
    <2> DEFINE s == Head(net[p]).did
    <2>0. st[p][s] \in Streams
      BY <1>1, <1>4 DEF StreamTypes
    <2>1. CASE UNCHANGED st
      BY <1>1, <1>2, <2>1 DEF StreamTypes
    <2>2. CASE st' = [st EXCEPT ![p][s].state = "protocol_error"]
      <3>1. "protocol_error" \in StreamState
        BY DEF StreamState
      <3>2. QED
        BY <1>1, <1>2, <1>4, <2>2, <3>1, StateTypes
    <2>3. CASE st' = [st EXCEPT ![p][s].rxq = Append(@, net[p][2].seq)]
      <3>1. Append(st[p][s].rxq, net[p][2].seq) \in Seq(Nat)
        BY <1>4, <2>0, StreamFields, AppendProperties
      <3>2. [st[p][s] EXCEPT !.rxq = Append(st[p][s].rxq, net[p][2].seq)] \in Streams
        BY <2>0, <3>1, StreamFields
      <3>3. st' = [st EXCEPT ![p][s] = [st[p][s] EXCEPT !.rxq = Append(st[p][s].rxq, net[p][2].seq)]]
        BY <2>3
      <3>4. QED
        BY <1>1, <1>2, <1>4, <3>2, <3>3, StreamTypesStep
    <2>4. QED
      BY <2>1, <2>2, <2>3 DEF on_data_message, SetState
  <1>6. ChanTypes' /\ CountTypes' /\ CurTypes'
    BY <1>1, <1>2 DEF ChanTypes, CountTypes, CurTypes
  <1>7. QED
    BY <1>3, <1>4, <1>5, <1>6, ThreadsOnly

LEMMA CrashTypes ==
  ASSUME TypeInv, NEW p \in Peer, on_data_message_unknown(p)
  PROVE  TypeInv'
  <1>1. /\ ChanTypes /\ StreamTypes /\ ThreadTypes /\ CurTypes /\ CountTypes /\ Roles
        /\ net \in [Peer -> Seq(GoodFrames)]
    BY TypeParts
  <1>2. /\ UNCHANGED <<refs, alive, wlock, link, gsid, st, op, ok, cur, nopen, nwr, nrd>>
        /\ bug'    = bug \cup {"null stream"}
        /\ pc'     = [pc EXCEPT ![p] = [t \in Thread |-> "crashed"]]
        /\ sock'   = [sock EXCEPT ![p] = FALSE]
        /\ chst'   = [chst EXCEPT ![p] = "closed"]
        /\ held'   = [held EXCEPT ![p] = FALSE]
        /\ tbl'    = [tbl EXCEPT ![p] = {}]
        /\ live'   = [live EXCEPT ![p] = {}]
        /\ asleep' = [asleep EXCEPT ![p] = {}]
    BY DEF on_data_message_unknown, countVars
  <1>3. net' \in [Peer -> Seq(GoodFrames)]
    BY ReceivedData DEF on_data_message_unknown
  <1>4. ThreadTypes' /\ Roles'
    <2>1. [t \in Thread |-> "crashed"] \in [Thread -> PCs]
      BY DEF PCs
    <2>2. /\ pc' \in [Peer -> [Thread -> PCs]]
          /\ \A q \in Peer : \A t \in Thread : pc'[q][t] = IF q = p THEN "crashed" ELSE pc[q][t]
      BY <1>1, <1>2, <2>1 DEF ThreadTypes
    <2>3. \A t \in Thread : \A o : Role(t, "crashed", o)
      BY DEF Role, ChannelPCs, StreamPCs, PCs, Sending
    <2>4. \A q \in Peer : \A t \in Thread : Role(t, pc'[q][t], op[q][t])
      BY <1>1, <2>2, <2>3 DEF Roles
    <2>5. asleep' \in [Peer -> SUBSET Thread]
      BY <1>1, <1>2 DEF ThreadTypes
    <2>6. QED
      BY <1>1, <1>2, <2>2, <2>4, <2>5 DEF ThreadTypes, Roles
  <1>5. ChanTypes'
    BY <1>1, <1>2 DEF ChanTypes
  <1>6. CountTypes' /\ CurTypes'
    BY <1>1, <1>2 DEF CountTypes, CurTypes
  <1>7. StreamTypes'
    BY <1>1, <1>2 DEF StreamTypes
  <1>8. QED
    BY <1>3, <1>4, <1>5, <1>6, <1>7, ThreadsOnly

\* corpc_channel_close_internal()
LEMMA CloseTypes ==
  ASSUME ChanTypes, NEW p \in Peer, close_internal(p), UNCHANGED <<wlock, link>>,
         UNCHANGED held \/ held' = [held EXCEPT ![p] = FALSE]
  PROVE  ChanTypes'
  <1>1. /\ sock'  = [sock EXCEPT ![p] = FALSE]
        /\ chst'  = [chst EXCEPT ![p] = "closed"]
        /\ refs'  = [refs EXCEPT ![p] = refs[p] - 1]
    BY DEF close_internal
  <1>2. PICK b \in BOOLEAN : alive' = [alive EXCEPT ![p] = b]
    <2>1. (alive[p] /\ ~LastReference(p)) \in BOOLEAN
      OBVIOUS
    <2>2. alive' = [alive EXCEPT ![p] = alive[p] /\ ~LastReference(p)]
      BY DEF close_internal
    <2>3. QED
      BY <2>1, <2>2
  <1>3. refs' \in [Peer -> Int] /\ alive' \in [Peer -> BOOLEAN]
    BY <1>1, <1>2 DEF ChanTypes
  <1>4. QED
    BY <1>1, <1>3 DEF ChanTypes

LEMMA ShutTypes ==
  ASSUME TypeInv, NEW p \in Peer,
         recv_fails(p) \/ corpc_channel_thread_end(p) \/ corpc_channel_close(p) \/ LinkFails
  PROVE  TypeInv'
  <1>1. /\ ChanTypes /\ StreamTypes /\ ThreadTypes /\ CurTypes /\ CountTypes /\ Roles
        /\ net \in [Peer -> Seq(GoodFrames)]
    BY TypeParts
  <1>2. UNCHANGED <<wlock, net, gsid, tbl, live, st, op, ok, cur, nopen, nwr, nrd, bug>>
    BY DEF recv_fails, corpc_channel_thread_end, corpc_channel_close, LinkFails, streamVars, threadVars, countVars
  <1>3. ThreadTypes' /\ Roles'
    <2>1. /\ UNCHANGED asleep \/ signal(p)
          /\ UNCHANGED pc \/ \E l \in {"shut", "done"} : Goto(p, 0, l)
      BY DEF recv_fails, corpc_channel_thread_end, corpc_channel_close, LinkFails, close_internal, threadVars
    <2>2. QED
      BY <1>2, <2>1, ChannelGoto, ChannelStays
  <1>4. ChanTypes'
    <2>1. CASE close_internal(p) /\ UNCHANGED <<wlock, link>> /\ (UNCHANGED held \/ held' = [held EXCEPT ![p] = FALSE])
      BY <1>1, <2>1, CloseTypes
    <2>2. CASE UNCHANGED chanVars /\ UNCHANGED wlock /\ link' \in {link, FALSE}
      BY <1>1, <2>2 DEF ChanTypes, chanVars
    <2>3. QED
      BY <2>1, <2>2 DEF recv_fails, corpc_channel_thread_end, corpc_channel_close, LinkFails
  <1>5. CountTypes' /\ CurTypes' /\ StreamTypes' /\ net' \in [Peer -> Seq(GoodFrames)]
    BY <1>1, <1>2 DEF CountTypes, CurTypes, StreamTypes
  <1>6. QED
    BY <1>3, <1>4, <1>5, ThreadsOnly

LEMMA OpenTypes ==
  ASSUME TypeInv, NEW p \in Peer, corpc_open_stream(p)
  PROVE  TypeInv'
  <1>1. /\ ChanTypes /\ StreamTypes /\ ThreadTypes /\ CurTypes /\ CountTypes /\ Roles
        /\ net \in [Peer -> Seq(GoodFrames)]
    BY TypeParts
  <1>2. /\ UNCHANGED <<chst, refs, alive, held, sock, wlock, link, net, asleep, cur, nwr, nrd, bug>>
        /\ gsid[p] < MaxSid /\ nopen' = nopen + 1
        /\ gsid' = [gsid EXCEPT ![p] = gensid(p)]
        /\ tbl'  = [tbl EXCEPT ![p] = @ \cup {gensid(p)}]
        /\ live' = [live EXCEPT ![p] = @ \cup {gensid(p)}]
        /\ st'   = [st EXCEPT ![p][gensid(p)] = Stream("opening", 0, 0)]
        /\ Call(p, gensid(p), "request")
    BY DEF corpc_open_stream, chanVars
  <1>3. gensid(p) \in Sid /\ gensid(p) \in Thread /\ 0 \in Thread /\ 0 \in Int /\ gensid(p) # 0
    BY <1>2, NewSid, ThreadFacts
  <1>4. StreamTypes'
    BY <1>2, <1>3, NewStreamTypes
  <1>5. "request" \in MessagesOf(gensid(p))
    BY <1>3 DEF MessagesOf
  <1>6. /\ pc' \in [Peer -> [Thread -> PCs]] /\ op' \in [Peer -> [Thread -> Ops]] /\ ok' = ok /\ Roles'
    BY <1>1, <1>2, <1>3, <1>5, CallStep
  <1>7. ThreadTypes'
    BY <1>1, <1>2, <1>6 DEF ThreadTypes
  <1>8. nopen' \in Nat
    <2>1. nopen \in Nat
      BY <1>1 DEF CountTypes
    <2>2. QED
      BY <1>2, <2>1
  <1>9. ChanTypes' /\ CountTypes' /\ CurTypes' /\ net' \in [Peer -> Seq(GoodFrames)]
    BY <1>1, <1>2, <1>8 DEF ChanTypes, CountTypes, CurTypes
  <1>10. QED
    BY <1>4, <1>6, <1>7, <1>9, ThreadsOnly

LEMMA CallTypes ==
  ASSUME TypeInv, NEW p \in Peer, NEW t \in Sid,
         corpc_stream_write(p, t) \/ corpc_stream_read(p, t) \/ corpc_close_stream(p, t)
  PROVE  TypeInv'
  <1>1. /\ ChanTypes /\ StreamTypes /\ ThreadTypes /\ CurTypes /\ CountTypes /\ Roles
        /\ net \in [Peer -> Seq(GoodFrames)]
    BY TypeParts
  <1>2. /\ UNCHANGED <<chst, refs, alive, held, sock, wlock, link, net, gsid, tbl, live, st, asleep, cur,
                       nopen, nwr, nrd, bug>>
        /\ \/ \E o \in {"data", "close"} : Call(p, t, o)
           \/ Goto(p, t, "read") /\ UNCHANGED <<op, ok>>
    BY DEF corpc_stream_write, corpc_stream_read, corpc_close_stream, chanVars, streamVars, countVars
  <1>3. t \in Thread /\ t # 0
    BY ThreadFacts
  <1>4. {"data", "close"} \subseteq MessagesOf(t) /\ Role(t, "read", op[p][t]) /\ "read" \in PCs
    BY <1>3 DEF MessagesOf, Role, StreamPCs, PCs, Sending
  <1>5. pc' \in [Peer -> [Thread -> PCs]] /\ op' \in [Peer -> [Thread -> Ops]] /\ ok' = ok /\ Roles'
    <2>1. CASE \E o \in {"data", "close"} : Call(p, t, o)
      BY <1>1, <1>3, <1>4, <2>1, CallStep
    <2>2. CASE Goto(p, t, "read") /\ UNCHANGED <<op, ok>>
      BY <1>1, <1>3, <1>4, <2>2, GotoStep
    <2>3. QED
      BY <1>2, <2>1, <2>2
  <1>6. ThreadTypes'
    BY <1>1, <1>2, <1>5 DEF ThreadTypes
  <1>7. ChanTypes' /\ CountTypes' /\ CurTypes' /\ StreamTypes' /\ net' \in [Peer -> Seq(GoodFrames)]
    BY <1>1, <1>2 DEF ChanTypes, CountTypes, CurTypes, StreamTypes
  <1>8. QED
    BY <1>5, <1>6, <1>7, ThreadsOnly

LEMMA InitTypes == Init => TypeInv
  <1> SUFFICES ASSUME Init PROVE TypeInv
    OBVIOUS
  <1>1. ChanTypes
    BY DEF Init, ChanTypes
  <1>2. net \in [Peer -> Seq(GoodFrames)] /\ NetTypes
    BY EmptySeq DEF Init, NetTypes
  <1>3. StreamTypes
    <2>1. Zeroed \in Streams /\ 0 \in Thread
      BY ThreadFacts, EmptySeq DEF Zeroed, Stream, Streams, StreamState
    <2>2. QED
      BY <2>1 DEF Init, StreamTypes
  <1>4. ThreadTypes
    BY DEF Init, ThreadTypes, PCs, Ops
  <1>5. Roles
    <2>1. \A p \in Peer : \A t \in Thread : pc[p][t] = (IF t = 0 THEN "recv" ELSE "none") /\ op[p][t] = "none"
      BY DEF Init
    <2>2. \A t \in Thread : Role(t, IF t = 0 THEN "recv" ELSE "none", "none")
      BY DEF Role, ChannelPCs, StreamPCs, PCs, Sending
    <2>3. QED
      BY <2>1, <2>2 DEF Roles
  <1>6. CurTypes
    <2>1. [obj |-> 0, sid |-> 0, did |-> 0, rwnd |-> 0, status |-> "ok"]
            \in [obj : Thread, sid : Thread, did : Thread, rwnd : Int, status : Status]
      BY ThreadFacts DEF Status
    <2>2. QED
      BY <2>1 DEF Init, CurTypes
  <1>7. CountTypes
    BY DEF Init, CountTypes
  <1>8. QED
    BY <1>1, <1>2, <1>3, <1>4, <1>5, <1>6, <1>7 DEF TypeInv, TypeOK

LEMMA StutterTypes ==
  ASSUME TypeInv, UNCHANGED vars
  PROVE  TypeInv'
  BY DEF TypeInv, TypeOK, ChanTypes, NetTypes, StreamTypes, ThreadTypes, CurTypes, CountTypes, Roles, vars

\* The types, with what each thread may be doing, are inductive given FreshInv.
LEMMA NextTypes ==
  ASSUME TypeInv, FreshInv, [Next]_vars
  PROVE  TypeInv'
  <1>1. ASSUME NEW p \in Peer, NEW t \in Thread, ThreadStep(p, t) PROVE TypeInv'
    BY <1>1, AcquireTypes, SendTypes, PayloadTypes, SentTypes, ReleaseTypes, OpenWaitTypes, EraseTypes,
       ReadTypes DEF ThreadStep
  <1>2. ASSUME NEW p \in Peer, ChannelStep(p) PROVE TypeInv'
    BY <1>2, RequestTypes, StartTypes, ReplyTypes, DoneTypes, ResponseTypes, CloseNotifyTypes, DataTypes,
       CrashTypes, AckTypes, ShutTypes DEF ChannelStep
  <1>3. ASSUME NEW p \in Peer, AppStep(p) PROVE TypeInv'
    BY <1>3, OpenTypes, ShutTypes, CallTypes DEF AppStep
  <1>4. CASE LinkFails
    <2>1. Client \in Peer
      BY DEF Peer
    <2>2. QED
      BY <1>4, <2>1, ShutTypes
  <1>5. CASE UNCHANGED vars
    BY <1>5, StutterTypes
  <1>6. QED
    BY <1>1, <1>2, <1>3, <1>4, <1>5 DEF Next

-----------------------------------------------------------------------------
(* Streams, references, and the request being answered.                    *)

\* The channel thread owes an answer to a create request.
Answering == {"acquire", "send", "release", "setstate"}
Serving   == Answering \cup {"start", "started"}

\* The streams in the table are the ones allocated, and all have been handed out; a
\* thread that is using a stream finds it there.
TableInv(p) ==
    /\ live[p] = tbl[p]
    /\ \A s \in tbl[p] : s <= gsid[p]
    /\ Running(p) => \A t \in Sid : pc[p][t] \notin {"none", "done"} => t \in tbl[p]

\* References are those of the application and of the channel thread; a channel is
\* destroyed only when both are gone and no stream is left.
RefsInv(p) ==
    /\ Running(p) => refs[p] = One(held[p]) + One(pc[p][0] # "done")
    /\ ~Running(p) => ~held[p] /\ tbl[p] = {} /\ \A t \in Thread : pc[p][t] = "crashed"
    /\ ~alive[p] => tbl[p] = {} /\ ~held[p] /\ pc[p][0] \in {"done", "crashed"}

\* While a request is being answered nothing is received, so the accepted stream, and every
\* stream allocated after it, is still usable; a stream whose method did not start has no
\* thread.
AnswerInv(p) ==
    /\ pc[p][0] \in {"start", "started"} => cur[p].status = "ok" /\ cur[p].obj \in Sid
    /\ pc[p][0] = "start" => cur[p].obj \in tbl[p]
    /\ pc[p][0] \in Serving => cur[p].obj <= gsid[p]
    /\ pc[p][0] \in Answering /\ cur[p].status # "ok" /\ cur[p].obj # 0
         => pc[p][cur[p].obj] = "none"
    /\ pc[p][0] \in Serving /\ cur[p].obj # 0
         => \A o \in tbl[p] : o >= cur[p].obj => st[p][o].state \in Usable

ChannelInv == \A p \in Peer : TableInv(p) /\ RefsInv(p) /\ AnswerInv(p)

\* Who sleeps is in one of the three loops, and its condition does not hold.
SleepInv ==
    \A p \in Peer : \A t \in asleep[p] :
      pc[p][t] \in {"acquire", "opening", "read"} /\ ~MayProceed(p, t)

\* A step of peer p leaves the state of the other peer alone, but for what it sends there.
SamePeer(q) ==
    /\ chst'[q] = chst[q] /\ refs'[q] = refs[q] /\ alive'[q] = alive[q] /\ held'[q] = held[q]
    /\ wlock'[q] = wlock[q] /\ gsid'[q] = gsid[q] /\ tbl'[q] = tbl[q] /\ live'[q] = live[q]
    /\ st'[q] = st[q] /\ pc'[q] = pc[q] /\ op'[q] = op[q] /\ asleep'[q] = asleep[q]
    /\ cur'[q] = cur[q]

LEMMA DomainFacts ==
  ASSUME TypeInv
  PROVE  /\ DOMAIN chst = Peer /\ DOMAIN refs = Peer /\ DOMAIN alive = Peer /\ DOMAIN held = Peer
         /\ DOMAIN wlock = Peer /\ DOMAIN gsid = Peer /\ DOMAIN tbl = Peer /\ DOMAIN live = Peer
         /\ DOMAIN st = Peer /\ DOMAIN pc = Peer /\ DOMAIN op = Peer /\ DOMAIN asleep = Peer
         /\ DOMAIN cur = Peer
  BY DEF TypeInv, TypeOK, ChanTypes, StreamTypes, ThreadTypes, CurTypes

LEMMA ThreadOnlyPeer ==
  ASSUME TypeInv, NEW p \in Peer, NEW t \in Thread, ThreadStep(p, t), NEW q \in Peer, q # p
  PROVE  SamePeer(q)
  <1> USE DomainFacts DEF SamePeer, Goto, Return, Call, wait, signal, chanVars, streamVars, threadVars
  <1>1. CASE acquire_write_lock(p, t)
    BY <1>1 DEF acquire_write_lock
  <1>2. CASE corpc_proto_send(p, t)
    BY <1>2 DEF corpc_proto_send, SendFrame
  <1>3. CASE corpc_proto_send_payload(p, t)
    BY <1>3 DEF corpc_proto_send_payload, SendFrame
  <1>4. CASE send_data_done(p, t)
    BY <1>4 DEF send_data_done
  <1>5. CASE release_write_lock(p, t)
    BY <1>5 DEF release_write_lock
  <1>6. CASE corpc_open_stream_wait(p, t)
    BY <1>6 DEF corpc_open_stream_wait
  <1>7. CASE corpc_open_stream_fail(p, t)
    BY <1>7 DEF corpc_open_stream_fail, EraseAndDestroy
  <1>8. CASE corpc_stream_read_internal(p, t)
    BY <1>8 DEF corpc_stream_read_internal
  <1>9. CASE corpc_close_stream_erase(p, t)
    BY <1>9 DEF corpc_close_stream_erase, EraseAndDestroy
  <1>10. QED
    BY <1>1, <1>2, <1>3, <1>4, <1>5, <1>6, <1>7, <1>8, <1>9 DEF ThreadStep

LEMMA ChannelOnlyPeer ==
  ASSUME TypeInv, NEW p \in Peer, ChannelStep(p) \/ AppStep(p), NEW q \in Peer, q # p
  PROVE  SamePeer(q)
  <1> USE DomainFacts DEF SamePeer, Goto, Call, signal, chanVars, streamVars, threadVars
  <1>1. CASE on_create_stream_request(p)
    BY <1>1 DEF on_create_stream_request
  <1>2. CASE start_service_method_thread(p)
    BY <1>2 DEF start_service_method_thread
  <1>3. CASE on_create_stream_request_reply(p)
    BY <1>3 DEF on_create_stream_request_reply
  <1>4. CASE on_create_stream_request_done(p)
    BY <1>4 DEF on_create_stream_request_done, EraseAndDestroy
  <1>5. CASE on_create_stream_responce(p)
    BY <1>5 DEF on_create_stream_responce
  <1>6. CASE on_close_stream_notify(p)
    BY <1>6 DEF on_close_stream_notify, SetState
  <1>7. CASE on_data_message(p)
    BY <1>7 DEF on_data_message, SetState
  <1>8. CASE on_data_message_unknown(p)
    BY <1>8 DEF on_data_message_unknown
  <1>9. CASE on_data_ack(p)
    BY <1>9 DEF on_data_ack
  <1>10. CASE recv_fails(p)
    BY <1>10 DEF recv_fails
  <1>11. CASE corpc_channel_thread_end(p)
    BY <1>11 DEF corpc_channel_thread_end, close_internal
  <1>12. CASE corpc_open_stream(p)
    BY <1>12 DEF corpc_open_stream
  <1>13. CASE corpc_channel_close(p)
    BY <1>13 DEF corpc_channel_close, close_internal
  <1>14. CASE \E t \in Sid : corpc_stream_write(p, t) \/ corpc_stream_read(p, t) \/ corpc_close_stream(p, t)
    BY <1>14 DEF corpc_stream_write, corpc_stream_read, corpc_close_stream
  <1>15. QED
    BY <1>1, <1>2, <1>3, <1>4, <1>5, <1>6, <1>7, <1>8, <1>9, <1>10, <1>11, <1>12, <1>13, <1>14
       DEF ChannelStep, AppStep

\* What ClosedStaysClosed says of one peer.
StaysClosed(p) ==
    \A s \in Sid : s \in tbl[p] /\ st[p][s].state \notin Usable => st'[p][s].state \notin Usable

PeerInv(p) == TableInv(p) /\ RefsInv(p) /\ AnswerInv(p)

LEMMA SameInv ==
  ASSUME NEW q \in Peer, SamePeer(q), PeerInv(q)
  PROVE  PeerInv(q)' /\ StaysClosed(q)
  BY DEF SamePeer, PeerInv, TableInv, RefsInv, AnswerInv, StaysClosed, Running

\* A thread of p moves on; the channel's streams and references stay as they are.
LEMMA MoveKeeps ==
  ASSUME TypeInv, NEW p \in Peer, PeerInv(p), NEW t \in Thread, NEW l \in PCs,
         pc[p][t] \notin {"none", "done", "crashed"}, l \notin {"none", "crashed"},
         Goto(p, t, l), t = 0 => l # "done" /\ (l \in Serving => pc[p][0] \in Answering /\ l \in Answering),
         UNCHANGED <<refs, alive, held, gsid, tbl, live, cur>>,
         \A o \in tbl[p] : st'[p][o].state = st[p][o].state
  PROVE  PeerInv(p)' /\ StaysClosed(p)
  <1>1. /\ pc'[p][t] = l /\ pc[p] \in [Thread -> PCs]
        /\ \A u \in Thread : u # t => pc'[p][u] = pc[p][u]
    BY TypeParts DEF ThreadTypes, Goto
  <1>2. ThreadTypes /\ Roles /\ StreamTypes /\ CurTypes
    BY TypeParts
  <1>3. Running(p)' <=> Running(p)
    BY <1>1, ThreadFacts DEF Running
  <1>4. Running(p)
    BY ThreadFacts DEF PeerInv, RefsInv
  <1>5. TableInv(p)'
    BY <1>1, <1>3, <1>4, ThreadFacts DEF PeerInv, TableInv
  <1>6. RefsInv(p)'
    <2>1. pc'[p][0] # "done" <=> pc[p][0] # "done"
      BY <1>1, ThreadFacts
    <2>2. refs'[p] = One(held'[p]) + One(pc'[p][0] # "done")
      BY <1>4, <2>1 DEF PeerInv, RefsInv, One
    <2>3. alive[p]
      BY <1>1, <1>4, ThreadFacts DEF PeerInv, RefsInv, TableInv, Running
    <2>4. QED
      BY <1>3, <1>4, <2>2, <2>3 DEF RefsInv
  <1>7. AnswerInv(p)'
    <2>1. CASE t = 0
      <3>1. pc'[p][0] = l /\ \A u \in Sid : pc'[p][u] = pc[p][u]
        BY <1>1, <2>1, ThreadFacts
      <3>2. cur[p].obj \in Thread
        BY <1>2 DEF CurTypes
      <3>3. QED
        BY <2>1, <3>1, <3>2, ThreadFacts DEF PeerInv, AnswerInv, Serving, Answering
    <2>2. CASE t # 0
      <3>1. pc'[p][0] = pc[p][0] /\ pc[p][t] # "none"
        BY <1>1, <2>2, ThreadFacts
      <3>2. \A u \in Thread : pc[p][u] = "none" => pc'[p][u] = "none"
        BY <1>1
      <3>3. cur[p].obj \in Thread
        BY <1>2 DEF CurTypes
      <3>4. QED
        BY <3>1, <3>2, <3>3 DEF PeerInv, AnswerInv
    <2>3. QED
      BY <2>1, <2>2
  <1>8. StaysClosed(p)
    BY DEF StaysClosed
  <1>9. QED
    BY <1>5, <1>6, <1>7, <1>8 DEF PeerInv

\* The channel thread goes on receiving, or stops; no stream enters or leaves.
LEMMA ReceiveKeeps ==
  ASSUME TypeInv, NEW p \in Peer, PeerInv(p), pc[p][0] \notin {"done", "crashed"},
         NEW l \in {"recv", "shut"}, Goto(p, 0, l) \/ (UNCHANGED pc /\ pc[p][0] = l),
         UNCHANGED <<refs, alive, held, gsid, tbl, live>>
  PROVE  PeerInv(p)'
  <1>1. pc'[p][0] = l /\ \A u \in Sid : pc'[p][u] = pc[p][u]
    BY TypeParts, ThreadFacts DEF ThreadTypes, Goto
  <1>2. Running(p) /\ Running(p)' /\ alive[p]
    BY <1>1 DEF Running, PeerInv, RefsInv
  <1>3. TableInv(p)'
    BY <1>1, <1>2 DEF PeerInv, TableInv
  <1>4. RefsInv(p)'
    BY <1>1, <1>2 DEF PeerInv, RefsInv, One
  <1>5. AnswerInv(p)'
    BY <1>1 DEF AnswerInv, Serving, Answering
  <1>6. QED
    BY <1>3, <1>4, <1>5 DEF PeerInv

\* A send that is over does not bring a thread back to where it has been.
LEMMA AfterFacts ==
  ASSUME NEW o, NEW fok, NEW t \in Thread, o \in MessagesOf(t)
  PROVE  /\ After(o, fok) \in PCs /\ After(o, fok) \notin {"none", "crashed", "done"}
         /\ t = 0 => After(o, fok) \in Answering
  BY DEF After, PCs, Sending, MessagesOf, Answering

LEMMA ThreadKeeps ==
  ASSUME TypeInv, NEW p \in Peer, NEW t \in Thread, PeerInv(p),
         ThreadStep(p, t), ~corpc_open_stream_fail(p, t), ~corpc_close_stream_erase(p, t)
  PROVE  PeerInv(p)' /\ StaysClosed(p)
  <1>1. ThreadTypes /\ Roles /\ StreamTypes
    BY TypeParts
  <1>2. UNCHANGED <<refs, alive, held, gsid, tbl, live, cur>>
    BY DEF ThreadStep, acquire_write_lock, corpc_proto_send, corpc_proto_send_payload, send_data_done,
           release_write_lock, corpc_open_stream_wait, corpc_stream_read_internal, chanVars, streamVars
  <1>3. \A o \in tbl[p] : st'[p][o].state = st[p][o].state
    <2>1. CASE UNCHANGED st
      BY <2>1
    <2>2. CASE st' = [st EXCEPT ![p][t].rwnd = @ - 1] \/ st' = [st EXCEPT ![p][t].rxq = Tail(@)]
      <3>1. PICK r : st' = [st EXCEPT ![p][t] = r] /\ r.state = st[p][t].state
        <4>1. st[p][t] \in Streams
          BY <1>1 DEF StreamTypes
        <4>2. CASE st' = [st EXCEPT ![p][t].rwnd = @ - 1]
          <5>1. st' = [st EXCEPT ![p][t] = [st[p][t] EXCEPT !.rwnd = @ - 1]]
            BY <4>2
          <5>2. [st[p][t] EXCEPT !.rwnd = @ - 1].state = st[p][t].state
            BY <4>1 DEF Streams
          <5>3. QED
            BY <5>1, <5>2
        <4>3. CASE st' = [st EXCEPT ![p][t].rxq = Tail(@)]
          <5>1. st' = [st EXCEPT ![p][t] = [st[p][t] EXCEPT !.rxq = Tail(@)]]
            BY <4>3
          <5>2. [st[p][t] EXCEPT !.rxq = Tail(@)].state = st[p][t].state
            BY <4>1 DEF Streams
          <5>3. QED
            BY <5>1, <5>2
        <4>4. QED
          BY <2>2, <4>2, <4>3
      <3>2. QED
        BY <1>1, <3>1 DEF StreamTypes
    <2>3. QED
      BY <2>1, <2>2 DEF ThreadStep, acquire_write_lock, corpc_proto_send, corpc_proto_send_payload,
         send_data_done, release_write_lock, corpc_open_stream_wait, corpc_stream_read_internal, streamVars
  <1>4. PICK l \in PCs : /\ Goto(p, t, l) /\ l \notin {"none", "crashed", "done"}
                         /\ pc[p][t] \notin {"none", "done", "crashed"}
                         /\ t = 0 => pc[p][0] \in Answering /\ l \in Answering
    <2> USE DEF PCs, Sending, Answering
    <2>0. /\ pc = [pc EXCEPT ![p][t] = pc[p][t]] /\ pc[p][t] \in PCs
          /\ t = 0 => pc[p][t] \in ChannelPCs
          /\ pc[p][t] \in {"acquire", "release"} => op[p][t] \in MessagesOf(t)
      BY <1>1 DEF ThreadTypes, Roles, Role
    <2>1. CASE acquire_write_lock(p, t)
      <3>1. \/ Goto(p, t, After(op[p][t], FALSE))
            \/ Goto(p, t, "send")
            \/ UNCHANGED pc
        BY <2>1 DEF acquire_write_lock, Return, threadVars
      <3>2. pc[p][t] = "acquire"
        BY <2>1 DEF acquire_write_lock
      <3>3. CASE Goto(p, t, After(op[p][t], FALSE))
        BY <2>0, <3>2, <3>3, AfterFacts
      <3>4. CASE Goto(p, t, "send")
        BY <2>0, <3>2, <3>4
      <3>5. CASE UNCHANGED pc
        BY <2>0, <3>2, <3>5 DEF Goto
      <3>6. QED
        BY <3>1, <3>3, <3>4, <3>5
    <2>2. CASE corpc_proto_send(p, t)
      <3>1. op[p][t] \in MessagesOf(t) /\ pc[p][t] = "send"
        BY <1>1, <2>2 DEF Roles, Role, corpc_proto_send
      <3>2. Goto(p, t, "release") \/ (op[p][t] = "data" /\ Goto(p, t, "payload"))
        BY <2>2 DEF corpc_proto_send, SendFrame
      <3>3. QED
        BY <3>1, <3>2 DEF MessagesOf
    <2>3. CASE corpc_proto_send_payload(p, t)
      BY <2>0, <2>3 DEF corpc_proto_send_payload, SendFrame, ChannelPCs
    <2>4. CASE send_data_done(p, t)
      BY <2>0, <2>4 DEF send_data_done, ChannelPCs
    <2>5. CASE release_write_lock(p, t)
      BY <2>0, <2>5, AfterFacts DEF release_write_lock, Return
    <2>6. CASE corpc_open_stream_wait(p, t)
      BY <2>0, <2>6 DEF corpc_open_stream_wait, ChannelPCs, Goto
    <2>7. CASE corpc_stream_read_internal(p, t)
      BY <2>0, <2>7 DEF corpc_stream_read_internal, ChannelPCs, Goto, Call, threadVars
    <2>8. QED
      BY <2>1, <2>2, <2>3, <2>4, <2>5, <2>6, <2>7 DEF ThreadStep
  <1>5. QED
    BY <1>2, <1>3, <1>4, MoveKeeps

\* A stream leaves the channel.
LEMMA EraseKeeps ==
  ASSUME TypeInv, FreshInv, NEW p \in Peer, NEW t \in Thread, PeerInv(p),
         corpc_open_stream_fail(p, t) \/ corpc_close_stream_erase(p, t)
  PROVE  PeerInv(p)' /\ StaysClosed(p)
  <1>1. ThreadTypes /\ Roles /\ StreamTypes /\ ChanTypes /\ CurTypes
    BY TypeParts
  <1>2. /\ UNCHANGED <<refs, held, gsid, cur>>
        /\ pc[p][t] \in {"fail", "erase"} /\ Goto(p, t, "done")
        /\ tbl'  = [tbl EXCEPT ![p] = @ \ {t}]
        /\ live' = [live EXCEPT ![p] = @ \ {t}]
        /\ st'   = [st EXCEPT ![p][t] = Zeroed]
        /\ alive'[p] = alive[p] \/ alive'[p] = (alive[p] /\ ~(tbl'[p] = {} /\ refs[p] < 1))
    BY <1>1 DEF corpc_open_stream_fail, corpc_close_stream_erase, EraseAndDestroy, chanVars, ChanTypes
  <1>3. t # 0 /\ t \in Sid
    BY <1>1, <1>2, ThreadFacts DEF Roles, Role, ChannelPCs
  <1>4. /\ pc'[p][t] = "done" /\ \A u \in Thread : u # t => pc'[p][u] = pc[p][u]
        /\ pc'[p][0] = pc[p][0]
    BY <1>1, <1>2, <1>3, ThreadFacts DEF ThreadTypes, Goto
  <1>5. /\ tbl'[p] = tbl[p] \ {t} /\ live'[p] = live[p] \ {t} /\ st'[p][t].state = "created"
        /\ \A u \in Thread : u # t => st'[p][u] = st[p][u]
    BY <1>1, <1>2 DEF StreamTypes, Zeroed, Stream
  <1>6. Running(p) /\ Running(p)' /\ t \in tbl[p] /\ alive[p]
    <2>1. Running(p)
      BY <1>2 DEF PeerInv, RefsInv
    <2>2. t \in tbl[p]
      BY <1>2, <1>3, <2>1 DEF PeerInv, TableInv
    <2>3. QED
      BY <1>1, <1>4, <2>1, <2>2 DEF PeerInv, RefsInv, Running, ChanTypes
  <1>7. TableInv(p)'
    BY <1>2, <1>3, <1>4, <1>5, <1>6, ThreadFacts DEF PeerInv, TableInv
  <1>8. RefsInv(p)'
    <2>1. refs'[p] = One(held'[p]) + One(pc'[p][0] # "done")
      BY <1>2, <1>4, <1>6 DEF PeerInv, RefsInv, One
    <2>2. ~alive'[p] => tbl'[p] = {} /\ refs[p] < 1
      BY <1>2, <1>6
    <2>3. refs[p] < 1 => ~held[p] /\ pc[p][0] = "done"
      BY <1>6 DEF PeerInv, RefsInv, One
    <2>4. QED
      BY <1>2, <1>4, <1>6, <2>1, <2>2, <2>3 DEF RefsInv
  <1>9. AnswerInv(p)'
    <2>1. cur[p].obj \in Thread
      BY <1>1 DEF CurTypes
    <2>2. pc[p][0] = "start" => cur[p].obj # t
      BY <1>2, <1>6 DEF FreshInv
    <2>3. QED
      BY <1>2, <1>4, <1>5, <2>1, <2>2 DEF PeerInv, AnswerInv
  <1>10. StaysClosed(p)
    BY <1>5, ThreadFacts DEF StaysClosed, Usable
  <1>11. QED
    BY <1>7, <1>8, <1>9, <1>10 DEF PeerInv

\* A new stream enters the table: its sid is the largest so far.
LEMMA NewStream ==
  ASSUME TypeInv, NEW p \in Peer, TableInv(p), gsid[p] < MaxSid, NEW d, NEW w,
         gsid' = [gsid EXCEPT ![p] = gensid(p)],
         tbl'  = [tbl EXCEPT ![p] = @ \cup {gensid(p)}],
         live' = [live EXCEPT ![p] = @ \cup {gensid(p)}],
         st'   = [st EXCEPT ![p][gensid(p)] = Stream("opening", d, w)]
  PROVE  /\ gsid'[p] = gsid[p] + 1 /\ gensid(p) = gsid[p] + 1 /\ gsid[p] \in Nat /\ gensid(p) \in Sid
         /\ tbl'[p] = tbl[p] \cup {gensid(p)} /\ live'[p] = tbl'[p]
         /\ \A s \in tbl'[p] : s <= gsid'[p]
         /\ \A s \in tbl[p] : s < gensid(p) /\ s \in Sid /\ st'[p][s] = st[p][s]
         /\ st'[p][gensid(p)].state \in Usable
         /\ StaysClosed(p)
  <1>1. StreamTypes /\ gensid(p) \in Sid /\ gensid(p) \in Thread /\ gensid(p) = gsid[p] + 1 /\ gsid[p] \in Nat
    BY TypeParts, NewSid
  <1>2. gsid'[p] = gensid(p) /\ tbl'[p] = tbl[p] \cup {gensid(p)} /\ live'[p] = live[p] \cup {gensid(p)}
    BY <1>1 DEF StreamTypes
  <1>3. \A s \in tbl[p] : s <= gsid[p] /\ s \in Sid /\ s \in Nat
    BY <1>1, ThreadFacts DEF TableInv, StreamTypes
  <1>4. \A s \in tbl[p] : s < gensid(p) /\ s # gensid(p) /\ s \in Sid
    BY <1>1, <1>3
  <1>5. /\ st'[p][gensid(p)] = Stream("opening", d, w)
        /\ \A u \in Thread : u # gensid(p) => st'[p][u] = st[p][u]
    BY <1>1 DEF StreamTypes
  <1>6. \A s \in tbl[p] : st'[p][s] = st[p][s]
    BY <1>4, <1>5, ThreadFacts
  <1>7. \A s \in tbl'[p] : s <= gsid'[p]
    BY <1>1, <1>2, <1>3
  <1>8. st'[p][gensid(p)].state \in Usable
    BY <1>5 DEF Stream, Usable
  <1>9. QED
    BY <1>1, <1>2, <1>4, <1>6, <1>7, <1>8 DEF TableInv, StaysClosed

LEMMA RequestKeeps ==
  ASSUME TypeInv, FreshInv, NEW p \in Peer, PeerInv(p), on_create_stream_request(p)
  PROVE  PeerInv(p)' /\ StaysClosed(p)
  <1>1. ThreadTypes /\ StreamTypes /\ CurTypes /\ 0 \in Thread
    BY TypeParts, ThreadFacts
  <1>2. UNCHANGED <<refs, alive, held>> /\ pc[p][0] = "recv"
    BY DEF on_create_stream_request, Received, Receiving, chanVars
  <1>3. Running(p) /\ alive[p]
    BY <1>2 DEF Running, PeerInv, RefsInv
  <1> DEFINE m == Head(net[p])
             taken == [obj |-> gensid(p), sid |-> 0, did |-> m.sid, rwnd |-> 0, status |-> "ok"]
  <1>4. CASE m.info = "method" /\ Cardinality(tbl[p]) < MaxStreams
    <2>1. /\ gsid[p] < MaxSid
          /\ gsid' = [gsid EXCEPT ![p] = gensid(p)]
          /\ tbl'  = [tbl EXCEPT ![p] = @ \cup {gensid(p)}]
          /\ live' = [live EXCEPT ![p] = @ \cup {gensid(p)}]
          /\ st'   = [st EXCEPT ![p][gensid(p)] = Stream("opening", m.sid, m.rwnd)]
          /\ cur'  = [cur EXCEPT ![p] = taken]
          /\ Goto(p, 0, "start")
      BY <1>4 DEF on_create_stream_request
    <2>2. /\ gsid'[p] = gsid[p] + 1 /\ gensid(p) = gsid[p] + 1 /\ gsid[p] \in Nat /\ gensid(p) \in Sid
          /\ tbl'[p] = tbl[p] \cup {gensid(p)} /\ live'[p] = tbl'[p]
          /\ \A s \in tbl'[p] : s <= gsid'[p]
          /\ \A s \in tbl[p] : s < gensid(p) /\ s \in Sid /\ st'[p][s] = st[p][s]
          /\ st'[p][gensid(p)].state \in Usable
          /\ StaysClosed(p)
      <3> HIDE DEF m
      <3>1. QED
        BY <2>1, NewStream DEF PeerInv
    <2>3. pc'[p][0] = "start" /\ \A u \in Sid : pc'[p][u] = pc[p][u]
      BY <1>1, <2>1, ThreadFacts DEF ThreadTypes, Goto
    <2>4. cur'[p].obj = gensid(p) /\ cur'[p].status = "ok"
      BY <1>1, <2>1 DEF CurTypes
    <2> HIDE DEF m, taken
    <2>5. TableInv(p)'
      BY <1>3, <2>2, <2>3 DEF PeerInv, TableInv
    <2>6. RefsInv(p)'
      BY <1>2, <1>3, <2>3 DEF PeerInv, RefsInv, Running, One
    <2>7. AnswerInv(p)'
      <3>1. \A o \in tbl'[p] : o >= cur'[p].obj => st'[p][o].state \in Usable
        <4>1. \A o \in tbl[p] : ~(o >= gensid(p))
          BY <2>2, ThreadFacts
        <4>2. QED
          BY <2>2, <2>4, <4>1
      <3>2. cur'[p].obj <= gsid'[p] /\ cur'[p].obj \in Sid /\ cur'[p].obj \in tbl'[p]
        BY <2>2, <2>4
      <3>3. QED
        BY <2>3, <2>4, <3>1, <3>2 DEF AnswerInv, Answering
    <2>8. QED
      BY <2>2, <2>5, <2>6, <2>7 DEF PeerInv
  <1>5. CASE ~(m.info = "method" /\ Cardinality(tbl[p]) < MaxStreams)
    <2>1. Goto(p, 0, "acquire") /\ UNCHANGED <<gsid, tbl, live, st>>
      BY <1>5 DEF on_create_stream_request, streamVars, Call
    <2>2. cur'[p].obj = 0
      BY <1>1, <1>5 DEF on_create_stream_request, CurTypes
    <2>3. pc'[p][0] = "acquire" /\ \A u \in Sid : pc'[p][u] = pc[p][u]
      BY <1>1, <2>1, ThreadFacts DEF ThreadTypes, Goto
    <2>4. TableInv(p)'
      BY <1>3, <2>1, <2>3 DEF PeerInv, TableInv
    <2>5. RefsInv(p)'
      BY <1>2, <1>3, <2>3 DEF PeerInv, RefsInv, Running, One
    <2>6. AnswerInv(p)'
      <3>1. 0 <= gsid'[p]
        BY <1>1, <2>1, ThreadFacts DEF StreamTypes
      <3>2. QED
        BY <2>2, <2>3, <3>1 DEF AnswerInv
    <2>7. QED
      BY <2>1, <2>4, <2>5, <2>6 DEF PeerInv, StaysClosed
  <1>6. QED
    BY <1>4, <1>5

LEMMA StartKeeps ==
  ASSUME TypeInv, FreshInv, NEW p \in Peer, PeerInv(p), start_service_method_thread(p)
  PROVE  PeerInv(p)' /\ StaysClosed(p)
  <1>1. ThreadTypes /\ StreamTypes /\ CurTypes /\ 0 \in Thread
    BY TypeParts, ThreadFacts
  <1>2. UNCHANGED <<refs, alive, held, gsid, tbl, live, st>> /\ pc[p][0] = "start"
    BY DEF start_service_method_thread, chanVars, streamVars
  <1>3. Running(p) /\ alive[p]
    BY <1>2 DEF Running, PeerInv, RefsInv
  <1>4. cur[p].obj \in Sid /\ cur[p].obj \in tbl[p] /\ pc[p][cur[p].obj] = "none" /\ cur[p].obj # 0 /\ cur[p].status = "ok"
    BY <1>2, <1>3, ThreadFacts DEF FreshInv, PeerInv, AnswerInv
  <1>5. CASE UNCHANGED cur /\ \E l \in {"read", "open"} :
               pc' = [pc EXCEPT ![p][0] = "started", ![p][cur[p].obj] = l]
    <2>1. /\ pc'[p][0] = "started" /\ pc'[p][cur[p].obj] \in {"read", "open"}
          /\ \A t \in Sid : t # cur[p].obj => pc'[p][t] = pc[p][t]
      BY <1>1, <1>4, <1>5, ThreadFacts DEF ThreadTypes
    <2>2. TableInv(p)'
      BY <1>2, <1>3, <1>4, <2>1 DEF PeerInv, TableInv
    <2>3. RefsInv(p)'
      BY <1>2, <1>3, <2>1 DEF PeerInv, RefsInv, Running, One
    <2>4. AnswerInv(p)'
      BY <1>2, <1>4, <1>5, <2>1 DEF PeerInv, AnswerInv, Serving, Answering
    <2>5. QED
      BY <1>2, <2>2, <2>3, <2>4 DEF PeerInv, StaysClosed
  <1>6. CASE /\ cur' = [cur EXCEPT ![p].status = "internal_error", ![p].rwnd = srwnd(p, cur[p].obj)]
             /\ Call(p, 0, "response")
    <2>1. pc'[p][0] = "acquire" /\ \A t \in Sid : pc'[p][t] = pc[p][t]
      BY <1>1, <1>6, ThreadFacts DEF ThreadTypes, Call, Goto
    <2>2. cur'[p].obj = cur[p].obj
      BY <1>1, <1>6 DEF CurTypes
    <2>3. TableInv(p)'
      BY <1>2, <1>3, <2>1 DEF PeerInv, TableInv
    <2>4. RefsInv(p)'
      BY <1>2, <1>3, <2>1 DEF PeerInv, RefsInv, Running, One
    <2>5. AnswerInv(p)'
      BY <1>2, <1>4, <2>1, <2>2 DEF PeerInv, AnswerInv, Serving, Answering
    <2>6. QED
      BY <1>2, <2>3, <2>4, <2>5 DEF PeerInv, StaysClosed
  <1>7. QED
    BY <1>5, <1>6 DEF start_service_method_thread

LEMMA ReplyKeeps ==
  ASSUME TypeInv, NEW p \in Peer, PeerInv(p), on_create_stream_request_reply(p)
  PROVE  PeerInv(p)' /\ StaysClosed(p)
  <1>1. ThreadTypes /\ CurTypes /\ 0 \in Thread
    BY TypeParts, ThreadFacts
  <1>2. UNCHANGED <<refs, alive, held, gsid, tbl, live, st>> /\ pc[p][0] = "started" /\ Goto(p, 0, "acquire")
    BY DEF on_create_stream_request_reply, chanVars, streamVars, Call
  <1>3. Running(p) /\ alive[p]
    BY <1>2 DEF Running, PeerInv, RefsInv
  <1>4. pc'[p][0] = "acquire" /\ \A t \in Sid : pc'[p][t] = pc[p][t]
    BY <1>1, <1>2, ThreadFacts DEF ThreadTypes, Goto
  <1>5. cur'[p].obj = cur[p].obj /\ cur'[p].status = cur[p].status
    <2>1. PICK o : cur' = [cur EXCEPT ![p].sid = o, ![p].rwnd = IF o = 0 THEN 0 ELSE srwnd(p, o)]
      BY DEF on_create_stream_request_reply
    <2>2. QED
      BY <1>1, <2>1 DEF CurTypes
  <1>6. TableInv(p)'
    BY <1>2, <1>3, <1>4 DEF PeerInv, TableInv
  <1>7. RefsInv(p)'
    BY <1>2, <1>3, <1>4 DEF PeerInv, RefsInv, Running, One
  <1>8. AnswerInv(p)'
    BY <1>2, <1>4, <1>5 DEF PeerInv, AnswerInv, Serving, Answering
  <1>9. QED
    BY <1>2, <1>6, <1>7, <1>8 DEF PeerInv, StaysClosed

LEMMA DoneKeeps ==
  ASSUME TypeInv, NEW p \in Peer, PeerInv(p), on_create_stream_request_done(p)
  PROVE  PeerInv(p)' /\ StaysClosed(p)
  <1>1. ThreadTypes /\ StreamTypes /\ CurTypes /\ 0 \in Thread
    BY TypeParts, ThreadFacts
  <1>2. UNCHANGED <<refs, alive, held, gsid, cur>> /\ pc[p][0] = "setstate" /\ Goto(p, 0, "recv")
    BY DEF on_create_stream_request_done, chanVars
  <1> DEFINE s == cur[p].obj
  <1>3. CASE UNCHANGED <<tbl, live, st>>
    <2>1. PeerInv(p)'
      BY <1>2, <1>3, ReceiveKeeps
    <2>2. QED
      BY <1>3, <2>1 DEF StaysClosed
  <1>4. CASE /\ s # 0 /\ UNCHANGED <<tbl, live>>
             /\ \E o \in Deref(p, s) : st' = [st EXCEPT ![p][o].state = IF o = 0 THEN @ ELSE "established"]
    <2>1. PeerInv(p)'
      BY <1>2, <1>4, ReceiveKeeps
    <2>2. PICK o \in Deref(p, s) : st' = [st EXCEPT ![p][o].state = IF o = 0 THEN @ ELSE "established"]
      BY <1>4
    <2>3. o \in Thread /\ (o # 0 => o \in tbl[p] /\ o >= s)
      <3>1. o \in Thread /\ (o # 0 => o \in live[p])
        BY <1>1, DerefTypes
      <3>2. live[p] = tbl[p]
        BY DEF PeerInv, TableInv
      <3>3. s \in Nat /\ \A u \in live[p] : u \in Nat
        BY <1>1, ThreadFacts DEF CurTypes, StreamTypes
      <3>4. o # 0 => o >= s
        BY <3>3 DEF Deref
      <3>5. QED
        BY <3>1, <3>2, <3>4
    <2>4. o # 0 => st[p][o].state \in Usable
      BY <1>2, <1>4, <2>3 DEF PeerInv, AnswerInv, Serving, Answering
    <2>5. \A u \in Sid : u # o => st'[p][u] = st[p][u]
      BY <1>1, <2>2, ThreadFacts DEF StreamTypes
    <2>6. QED
      BY <2>1, <2>4, <2>5, ThreadFacts DEF StaysClosed
  <1>5. CASE s # 0 /\ cur[p].status # "ok" /\ EraseAndDestroy(p, s)
    <2>1. s \in Thread /\ s \in Sid /\ pc[p][s] = "none"
      BY <1>1, <1>2, <1>5, ThreadFacts DEF CurTypes, PeerInv, AnswerInv, Answering
    <2>2. /\ tbl'[p] = tbl[p] \ {s} /\ live'[p] = live[p] \ {s} /\ st'[p][s].state = "created"
          /\ \A u \in Thread : u # s => st'[p][u] = st[p][u]
      BY <1>1, <1>5, <2>1 DEF EraseAndDestroy, StreamTypes, Zeroed, Stream
    <2>3. pc'[p][0] = "recv" /\ \A u \in Sid : pc'[p][u] = pc[p][u]
      BY <1>1, <1>2, ThreadFacts DEF ThreadTypes, Goto
    <2>4. Running(p) /\ Running(p)' /\ alive[p]
      BY <1>2, <2>3 DEF Running, PeerInv, RefsInv
    <2>5. TableInv(p)'
      BY <1>2, <2>1, <2>2, <2>3, <2>4 DEF PeerInv, TableInv
    <2>6. RefsInv(p)'
      BY <1>2, <2>3, <2>4 DEF PeerInv, RefsInv, One
    <2>7. AnswerInv(p)'
      BY <2>3 DEF AnswerInv, Serving, Answering
    <2>8. StaysClosed(p)
      BY <2>2, ThreadFacts DEF StaysClosed, Usable
    <2>9. QED
      BY <2>5, <2>6, <2>7, <2>8 DEF PeerInv
  <1>6. QED
    BY <1>3, <1>4, <1>5 DEF on_create_stream_request_done

\* One stream changes, and not from a closed state to a usable one.
LEMMA OneStreamCloses ==
  ASSUME StreamTypes, NEW p \in Peer, NEW s \in Thread, NEW r, st' = [st EXCEPT ![p][s] = r],
         r.state \in Usable => st[p][s].state \in Usable
  PROVE  StaysClosed(p)
  <1>1. st'[p][s] = r /\ \A u \in Sid : u # s => st'[p][u] = st[p][u]
    BY ThreadFacts DEF StreamTypes
  <1>2. QED
    BY <1>1 DEF StaysClosed

\* What the handlers of a received message do to the state of a stream.
LEMMA ReceiverKeeps ==
  ASSUME TypeInv, NEW p \in Peer, PeerInv(p),
         \/ on_create_stream_responce(p) \/ on_close_stream_notify(p) \/ on_data_message(p)
         \/ on_data_ack(p) \/ recv_fails(p)
  PROVE  PeerInv(p)' /\ StaysClosed(p)
  <1>1. StreamTypes
    BY TypeParts
  <1>2. /\ UNCHANGED <<refs, alive, held, gsid, tbl, live>> /\ pc[p][0] = "recv"
        /\ Goto(p, 0, "shut") \/ UNCHANGED pc
    BY DEF on_create_stream_responce, on_close_stream_notify, on_data_message, on_data_ack, recv_fails,
           DataReceived, Received, Receiving, chanVars, streamVars, threadVars
  <1>3. PeerInv(p)'
    BY <1>2, ReceiveKeeps
  <1>4. StaysClosed(p)
    <2>0. ASSUME UNCHANGED st PROVE StaysClosed(p)
      BY <2>0 DEF StaysClosed
    <2>1. CASE on_create_stream_responce(p)
      <3> DEFINE m == Head(net[p])
                 s == m.did
      <3>1. s \in Thread /\ m.info \in Status
        BY <2>1, ReceivedFrame DEF on_create_stream_responce
      <3>2. CASE UNCHANGED st
        BY <2>0, <3>2
      <3>3. CASE /\ ResponseExpected(p, s)
                 /\ st' = [st EXCEPT ![p][s].state = "established", ![p][s].did = m.sid, ![p][s].rwnd = m.rwnd]
        <4>1. st' = [st EXCEPT ![p][s] = [st[p][s] EXCEPT !.state = "established", !.did = m.sid, !.rwnd = m.rwnd]]
          BY <1>1, <3>1, <3>3 DEF StreamTypes
        <4>2. st[p][s].state \in Usable
          BY <3>3 DEF ResponseExpected, Usable
        <4> HIDE DEF s, m
        <4>3. QED
          BY <1>1, <3>1, <4>1, <4>2, OneStreamCloses
      <3>4. CASE ResponseExpected(p, s) /\ st' = [st EXCEPT ![p][s].state = RefusedState(m.info)]
        <4>1. st' = [st EXCEPT ![p][s] = [st[p][s] EXCEPT !.state = RefusedState(m.info)]]
          BY <3>4
        <4>2. st[p][s].state \in Usable
          BY <3>4 DEF ResponseExpected, Usable
        <4> HIDE DEF s, m
        <4>3. QED
          BY <1>1, <3>1, <4>1, <4>2, OneStreamCloses
      <3>5. QED
        BY <2>1, <3>2, <3>3, <3>4 DEF on_create_stream_responce
    <2>2. CASE on_close_stream_notify(p)
      <3> DEFINE s == Head(net[p]).did
      <3>1. s \in Thread /\ st[p][s] \in Streams
        BY <1>1, <2>2, ReceivedFrame DEF on_close_stream_notify, StreamTypes
      <3>2. CASE st' = [st EXCEPT ![p][s].state = "closed_by_remote_party"]
        <4>1. st' = [st EXCEPT ![p][s] = [st[p][s] EXCEPT !.state = "closed_by_remote_party"]]
          BY <3>2
        <4>2. [st[p][s] EXCEPT !.state = "closed_by_remote_party"].state \notin Usable
          BY <3>1 DEF Streams, Usable
        <4> HIDE DEF s
        <4>3. QED
          BY <1>1, <3>1, <4>1, <4>2, OneStreamCloses
      <3>3. QED
        BY <2>0, <2>2, <3>2 DEF on_close_stream_notify, SetState
    <2>3. CASE on_data_message(p)
      <3> DEFINE s == Head(net[p]).did
      <3>1. s \in Thread /\ st[p][s] \in Streams
        BY <1>1, <2>3, ReceivedData DEF on_data_message, StreamTypes
      <3>2. CASE st' = [st EXCEPT ![p][s].state = "protocol_error"]
        <4>1. st' = [st EXCEPT ![p][s] = [st[p][s] EXCEPT !.state = "protocol_error"]]
          BY <3>2
        <4>2. [st[p][s] EXCEPT !.state = "protocol_error"].state \notin Usable
          BY <3>1 DEF Streams, Usable
        <4> HIDE DEF s
        <4>3. QED
          BY <1>1, <3>1, <4>1, <4>2, OneStreamCloses
      <3>3. CASE st' = [st EXCEPT ![p][s].rxq = Append(@, net[p][2].seq)]
        <4>1. st' = [st EXCEPT ![p][s] = [st[p][s] EXCEPT !.rxq = Append(@, net[p][2].seq)]]
          BY <3>3
        <4>2. [st[p][s] EXCEPT !.rxq = Append(@, net[p][2].seq)].state = st[p][s].state
          BY <3>1 DEF Streams
        <4> HIDE DEF s
        <4>3. QED
          BY <1>1, <3>1, <4>1, <4>2, OneStreamCloses
      <3>4. QED
        BY <2>0, <2>3, <3>2, <3>3 DEF on_data_message, SetState
    <2>4. CASE on_data_ack(p)
      <3> DEFINE s == Head(net[p]).did
      <3>1. s \in Thread /\ st[p][s] \in Streams
        BY <1>1, <2>4, ReceivedFrame DEF on_data_ack, StreamTypes
      <3>2. CASE st' = [st EXCEPT ![p][s].rwnd = @ + 1]
        <4>1. st' = [st EXCEPT ![p][s] = [st[p][s] EXCEPT !.rwnd = @ + 1]]
          BY <3>2
        <4>2. [st[p][s] EXCEPT !.rwnd = @ + 1].state = st[p][s].state
          BY <3>1 DEF Streams
        <4> HIDE DEF s
        <4>3. QED
          BY <1>1, <3>1, <4>1, <4>2, OneStreamCloses
      <3>3. QED
        BY <2>0, <2>4, <3>2 DEF on_data_ack
    <2>5. CASE recv_fails(p)
      BY <2>0, <2>5 DEF recv_fails, streamVars
    <2>6. QED
      BY <2>1, <2>2, <2>3, <2>4, <2>5
  <1>5. QED
    BY <1>3, <1>4

LEMMA CrashKeeps ==
  ASSUME TypeInv, NEW p \in Peer, PeerInv(p), on_data_message_unknown(p)
  PROVE  PeerInv(p)' /\ StaysClosed(p)
  <1>1. ThreadTypes /\ StreamTypes /\ ChanTypes /\ 0 \in Thread
    BY TypeParts, ThreadFacts
  <1>2. /\ \A t \in Thread : pc'[p][t] = "crashed"
        /\ held'[p] = FALSE /\ tbl'[p] = {} /\ live'[p] = {} /\ UNCHANGED st
    BY <1>1 DEF on_data_message_unknown, ThreadTypes, StreamTypes, ChanTypes
  <1>3. TableInv(p)' /\ RefsInv(p)'
    BY <1>1, <1>2 DEF TableInv, RefsInv, Running
  <1>4. AnswerInv(p)'
    BY <1>1, <1>2 DEF AnswerInv, Serving, Answering
  <1>5. QED
    BY <1>2, <1>3, <1>4 DEF PeerInv, StaysClosed

LEMMA ShutKeeps ==
  ASSUME TypeInv, NEW p \in Peer, PeerInv(p), corpc_channel_thread_end(p) \/ corpc_channel_close(p)
  PROVE  PeerInv(p)' /\ StaysClosed(p)
  <1>1. ThreadTypes /\ StreamTypes /\ ChanTypes /\ 0 \in Thread
    BY TypeParts, ThreadFacts
  <1>2. UNCHANGED <<gsid, tbl, live, st, cur>> /\ close_internal(p)
    BY DEF corpc_channel_thread_end, corpc_channel_close, streamVars
  <1>3. /\ refs'[p] = refs[p] - 1 /\ refs[p] \in Int
        /\ ~alive'[p] => ~alive[p] \/ (refs'[p] < 1 /\ tbl[p] = {})
    BY <1>1, <1>2 DEF close_internal, ChanTypes, LastReference
  <1>4. CASE corpc_channel_thread_end(p)
    <2>1. pc[p][0] = "shut" /\ held' = held /\ pc'[p][0] = "done" /\ \A u \in Sid : pc'[p][u] = pc[p][u]
      BY <1>1, <1>4, ThreadFacts DEF corpc_channel_thread_end, ThreadTypes, Goto
    <2>2. Running(p) /\ Running(p)' /\ alive[p]
      BY <2>1 DEF Running, PeerInv, RefsInv
    <2>3. TableInv(p)'
      BY <1>2, <2>1, <2>2 DEF PeerInv, TableInv
    <2>4. refs'[p] = One(held'[p]) + One(pc'[p][0] # "done")
      <3>1. refs[p] = One(held[p]) + 1
        BY <2>1, <2>2 DEF PeerInv, RefsInv, One
      <3>2. QED
        BY <1>3, <2>1, <3>1 DEF One
    <2>5. ~alive'[p] => tbl[p] = {} /\ ~held[p]
      BY <1>3, <2>1, <2>2, <2>4 DEF One
    <2>6. RefsInv(p)'
      BY <1>2, <2>1, <2>2, <2>4, <2>5 DEF RefsInv
    <2>7. AnswerInv(p)'
      BY <2>1 DEF AnswerInv, Serving, Answering
    <2>8. QED
      BY <1>2, <2>3, <2>6, <2>7 DEF PeerInv, StaysClosed
  <1>5. CASE corpc_channel_close(p)
    <2>1. held[p] /\ held'[p] = FALSE /\ pc' = pc
      BY <1>1, <1>5 DEF corpc_channel_close, threadVars, ChanTypes
    <2>2. Running(p) /\ Running(p)' /\ alive[p]
      BY <2>1 DEF Running, PeerInv, RefsInv
    <2>3. TableInv(p)'
      BY <1>2, <2>1, <2>2 DEF PeerInv, TableInv
    <2>4. refs'[p] = One(held'[p]) + One(pc'[p][0] # "done")
      BY <1>3, <2>1, <2>2 DEF PeerInv, RefsInv, One
    <2>5. ~alive'[p] => tbl[p] = {} /\ pc[p][0] = "done"
      BY <1>3, <2>1, <2>2, <2>4 DEF One
    <2>6. RefsInv(p)'
      BY <1>2, <2>1, <2>2, <2>4, <2>5 DEF RefsInv
    <2>7. AnswerInv(p)'
      BY <1>2, <2>1 DEF PeerInv, AnswerInv
    <2>8. QED
      BY <1>2, <2>3, <2>6, <2>7 DEF PeerInv, StaysClosed
  <1>6. QED
    BY <1>4, <1>5

LEMMA OpenKeeps ==
  ASSUME TypeInv, FreshInv, NEW p \in Peer, PeerInv(p), corpc_open_stream(p)
  PROVE  PeerInv(p)' /\ StaysClosed(p)
  <1>1. ThreadTypes /\ StreamTypes /\ ChanTypes /\ CurTypes /\ 0 \in Thread
    BY TypeParts, ThreadFacts
  <1>2. /\ UNCHANGED <<refs, alive, held, cur>>
        /\ held[p] \/ (alive[p] /\ Running(p))
        /\ gsid[p] < MaxSid
        /\ gsid' = [gsid EXCEPT ![p] = gensid(p)]
        /\ tbl'  = [tbl EXCEPT ![p] = @ \cup {gensid(p)}]
        /\ live' = [live EXCEPT ![p] = @ \cup {gensid(p)}]
        /\ st'   = [st EXCEPT ![p][gensid(p)] = Stream("opening", 0, 0)]
        /\ Goto(p, gensid(p), "acquire")
    BY DEF corpc_open_stream, chanVars, Call
  <1>3. /\ gsid'[p] = gsid[p] + 1 /\ gensid(p) = gsid[p] + 1 /\ gsid[p] \in Nat /\ gensid(p) \in Sid
        /\ tbl'[p] = tbl[p] \cup {gensid(p)} /\ live'[p] = tbl'[p]
        /\ \A s \in tbl'[p] : s <= gsid'[p]
        /\ \A s \in tbl[p] : s < gensid(p) /\ s \in Sid /\ st'[p][s] = st[p][s]
        /\ st'[p][gensid(p)].state \in Usable
        /\ StaysClosed(p)
    BY <1>2, NewStream DEF PeerInv
  <1>4. Running(p) /\ alive[p]
    BY <1>2 DEF PeerInv, RefsInv
  <1>5. /\ pc'[p][gensid(p)] = "acquire" /\ pc'[p][0] = pc[p][0]
        /\ \A u \in Sid : u # gensid(p) => pc'[p][u] = pc[p][u]
    BY <1>1, <1>2, <1>3, ThreadFacts DEF ThreadTypes, Goto
  <1>6. TableInv(p)'
    BY <1>3, <1>4, <1>5 DEF PeerInv, TableInv
  <1>7. RefsInv(p)'
    BY <1>2, <1>4, <1>5 DEF PeerInv, RefsInv, Running
  <1>8. AnswerInv(p)'
    <2>1. pc[p][0] \in Serving => cur[p].obj <= gsid[p] /\ cur[p].obj <= gsid'[p] /\ cur[p].obj # gensid(p)
      <3>1. cur[p].obj \in Nat
        BY <1>1, ThreadFacts DEF CurTypes
      <3>2. QED
        BY <1>3, <3>1 DEF PeerInv, AnswerInv
    <2>2. pc[p][0] \in Answering /\ cur[p].status # "ok" /\ cur[p].obj # 0 => pc'[p][cur[p].obj] = "none"
      <3>1. cur[p].obj # 0 => cur[p].obj \in Sid
        BY <1>1, ThreadFacts DEF CurTypes
      <3>2. QED
        BY <1>5, <2>1, <3>1 DEF PeerInv, AnswerInv, Serving
    <2>3. pc[p][0] \in Serving /\ cur[p].obj # 0
            => \A o \in tbl'[p] : o >= cur[p].obj => st'[p][o].state \in Usable
      BY <1>3 DEF PeerInv, AnswerInv
    <2>4. pc[p][0] = "start" => cur[p].obj \in tbl'[p]
      BY <1>3 DEF PeerInv, AnswerInv
    <2>5. pc[p][0] \in {"start", "started"} => cur[p].status = "ok" /\ cur[p].obj \in Sid
      BY DEF PeerInv, AnswerInv
    <2>6. QED
      BY <1>2, <1>5, <2>1, <2>2, <2>3, <2>4, <2>5 DEF AnswerInv
  <1>9. QED
    BY <1>3, <1>6, <1>7, <1>8 DEF PeerInv

LEMMA CallKeeps ==
  ASSUME TypeInv, NEW p \in Peer, NEW t \in Sid, PeerInv(p),
         corpc_stream_write(p, t) \/ corpc_stream_read(p, t) \/ corpc_close_stream(p, t)
  PROVE  PeerInv(p)' /\ StaysClosed(p)
  <1>1. /\ UNCHANGED <<refs, alive, held, gsid, tbl, live, st, cur>> /\ pc[p][t] = "open"
        /\ \E l \in {"acquire", "read"} : Goto(p, t, l)
    BY DEF corpc_stream_write, corpc_stream_read, corpc_close_stream, chanVars, streamVars, Call
  <1>2. t \in Thread /\ t # 0 /\ {"acquire", "read"} \subseteq PCs
    BY ThreadFacts DEF PCs
  <1>3. QED
    BY <1>1, <1>2, MoveKeeps

LEMMA InitKeeps == Init => ChannelInv
  <1> SUFFICES ASSUME Init, NEW p \in Peer PROVE TableInv(p) /\ RefsInv(p) /\ AnswerInv(p)
    BY DEF ChannelInv
  <1>1. /\ pc[p][0] = "recv" /\ \A t \in Sid : pc[p][t] = "none"
        /\ tbl[p] = {} /\ live[p] = {} /\ alive[p] /\ held[p] = (p = Client)
        /\ refs[p] = IF p = Client THEN 2 ELSE 1
    BY ThreadFacts DEF Init
  <1>2. TableInv(p)
    BY <1>1 DEF TableInv
  <1>3. RefsInv(p)
    <2>1. One(pc[p][0] # "done") = 1 /\ Running(p)
      BY <1>1 DEF One, Running
    <2>2. refs[p] = One(held[p]) + 1
      <3>1. CASE p = Client
        <4>1. refs[p] = 2 /\ held[p] = TRUE
          BY <1>1, <3>1
        <4>2. QED
          BY <4>1 DEF One
      <3>2. CASE p # Client
        <4>1. refs[p] = 1 /\ held[p] = FALSE
          BY <1>1, <3>2
        <4>2. QED
          BY <4>1 DEF One
      <3>3. QED
        BY <3>1, <3>2
    <2>3. QED
      BY <1>1, <2>1, <2>2 DEF RefsInv
  <1>4. AnswerInv(p)
    BY <1>1 DEF AnswerInv, Serving, Answering
  <1>5. QED
    BY <1>2, <1>3, <1>4

\* Every step keeps ChannelInv and lets no closed stream become usable.
LEMMA NextKeeps ==
  ASSUME TypeInv, FreshInv, ChannelInv, [Next]_vars
  PROVE  ChannelInv' /\ \A p \in Peer : StaysClosed(p)
  <1>1. \A q \in Peer : PeerInv(q)
    BY DEF ChannelInv, PeerInv
  <1>2. SUFFICES \A q \in Peer : PeerInv(q)' /\ StaysClosed(q)
    BY DEF ChannelInv, PeerInv
  <1>3. ASSUME NEW p \in Peer, PeerInv(p)' /\ StaysClosed(p), \A q \in Peer : q # p => SamePeer(q)
        PROVE  \A q \in Peer : PeerInv(q)' /\ StaysClosed(q)
    BY <1>1, <1>3, SameInv
  <1>4. ASSUME NEW p \in Peer, NEW t \in Thread, ThreadStep(p, t)
        PROVE  \A q \in Peer : PeerInv(q)' /\ StaysClosed(q)
    BY <1>1, <1>3, <1>4, ThreadKeeps, EraseKeeps, ThreadOnlyPeer
  <1>5. ASSUME NEW p \in Peer, ChannelStep(p)
        PROVE  \A q \in Peer : PeerInv(q)' /\ StaysClosed(q)
    <2>1. PeerInv(p)' /\ StaysClosed(p)
      BY <1>1, <1>5, RequestKeeps, StartKeeps, ReplyKeeps, DoneKeeps, ReceiverKeeps, CrashKeeps, ShutKeeps
         DEF ChannelStep
    <2>2. QED
      BY <1>3, <1>5, <2>1, ChannelOnlyPeer
  <1>6. ASSUME NEW p \in Peer, AppStep(p)
        PROVE  \A q \in Peer : PeerInv(q)' /\ StaysClosed(q)
    <2>1. PeerInv(p)' /\ StaysClosed(p)
      BY <1>1, <1>6, OpenKeeps, ShutKeeps, CallKeeps DEF AppStep
    <2>2. QED
      BY <1>3, <1>6, <2>1, ChannelOnlyPeer
  <1>7. CASE LinkFails \/ UNCHANGED vars
    <2>1. \A q \in Peer : SamePeer(q)
      BY <1>7 DEF LinkFails, vars, SamePeer, chanVars, streamVars, threadVars
    <2>2. QED
      BY <1>1, <2>1, SameInv
  <1>8. QED
    BY <1>4, <1>5, <1>6, <1>7 DEF Next

-----------------------------------------------------------------------------
(* Sleepers.                                                               *)

Loops == {"acquire", "opening", "read"}

SleepsWell(p) == \A t \in asleep[p] : pc[p][t] \in Loops /\ ~MayProceed(p, t)

\* A thread goes on sleeping while what it looks at does not change, and while the
\* write lock, if it was taken, is.
LEMMA StillAsleep ==
  ASSUME NEW p, NEW t, ~MayProceed(p, t), pc'[p][t] = pc[p][t], op'[p][t] = op[p][t],
         st'[p][t] = st[p][t], chst'[p] = chst[p], wlock[p] => wlock'[p]
  PROVE  ~MayProceed(p, t)'
  BY DEF MayProceed, NotConnected, LockIsFree, NothingToRead, established

LEMMA SleepKeeps ==
  ASSUME NEW p \in Peer, SleepsWell(p), chst'[p] = chst[p], wlock[p] => wlock'[p],
         \A u \in asleep'[p] :
           \/ u \in asleep[p] /\ pc'[p][u] = pc[p][u] /\ op'[p][u] = op[p][u] /\ st'[p][u] = st[p][u]
           \/ pc'[p][u] \in Loops /\ ~MayProceed(p, u)'
  PROVE  SleepsWell(p)'
  BY StillAsleep DEF SleepsWell

LEMMA SameSleep ==
  ASSUME NEW q \in Peer, SamePeer(q), SleepsWell(q)
  PROVE  SleepsWell(q)'
  BY SleepKeeps DEF SamePeer

\* channel_state_signal() leaves nobody asleep.
LEMMA SignalWakes ==
  ASSUME TypeInv, NEW p \in Peer, signal(p)
  PROVE  SleepsWell(p)'
  BY TypeParts DEF signal, SleepsWell, ThreadTypes

\* A thread that is not asleep moves; only its own stream may change.
LEMMA AwakeMoves ==
  ASSUME TypeInv, NEW p \in Peer, SleepsWell(p), NEW t \in Thread, t \notin asleep[p],
         UNCHANGED <<chst, asleep>>, wlock[p] => wlock'[p], NEW l, NEW o, NEW r,
         pc' = [pc EXCEPT ![p][t] = l], op' = [op EXCEPT ![p][t] = o], st' = [st EXCEPT ![p][t] = r]
  PROVE  SleepsWell(p)'
  <1>1. \A u \in asleep[p] : u \in Thread /\ u # t
    BY TypeParts DEF ThreadTypes
  <1>2. \A u \in asleep[p] : pc'[p][u] = pc[p][u] /\ op'[p][u] = op[p][u] /\ st'[p][u] = st[p][u]
    BY <1>1, TypeParts DEF ThreadTypes, StreamTypes
  <1>3. QED
    BY <1>2, SleepKeeps

LEMMA AwakeGoto ==
  ASSUME TypeInv, NEW p \in Peer, SleepsWell(p), NEW t \in Thread, t \notin asleep[p],
         UNCHANGED <<chst, asleep, op, st>>, wlock[p] => wlock'[p], NEW l, Goto(p, t, l)
  PROVE  SleepsWell(p)'
  <1>1. \A u \in asleep[p] : u \in Thread /\ u # t
    BY TypeParts DEF ThreadTypes
  <1>2. \A u \in asleep[p] : pc'[p][u] = pc[p][u]
    BY <1>1, TypeParts DEF ThreadTypes, Goto
  <1>3. QED
    BY <1>2, SleepKeeps

\* A thread whose condition does not hold goes to sleep.
LEMMA GoesToSleep ==
  ASSUME TypeInv, NEW p \in Peer, SleepsWell(p), NEW t \in Thread, wait(p, t),
         pc[p][t] \in Loops, ~MayProceed(p, t), UNCHANGED <<chst, wlock, pc, op, st>>
  PROVE  SleepsWell(p)'
  <1>1. asleep'[p] = asleep[p] \cup {t}
    BY TypeParts DEF ThreadTypes, wait
  <1>2. ~MayProceed(p, t)'
    BY StillAsleep
  <1>3. QED
    BY <1>1, <1>2, SleepKeeps

LEMMA ThreadSleep ==
  ASSUME TypeInv, NEW p \in Peer, NEW t \in Thread, SleepsWell(p), ThreadStep(p, t)
  PROVE  SleepsWell(p)'
  <1>1. ThreadTypes /\ StreamTypes /\ ChanTypes
    BY TypeParts
  <1>2. /\ pc = [pc EXCEPT ![p][t] = pc[p][t]] /\ op = [op EXCEPT ![p][t] = op[p][t]]
        /\ st = [st EXCEPT ![p][t] = st[p][t]]
    BY <1>1 DEF ThreadTypes, StreamTypes
  <1>3. pc[p][t] \notin Loops => t \notin asleep[p]
    BY DEF SleepsWell
  <1>4. CASE acquire_write_lock(p, t)
    <2>1. pc[p][t] = "acquire" /\ t \notin asleep[p] /\ UNCHANGED <<chst, st>>
      BY <1>4 DEF acquire_write_lock, awake, chanVars, streamVars
    <2>2. CASE Return(p, t, FALSE) /\ UNCHANGED <<wlock, asleep>>
      BY <1>2, <2>1, <2>2, AwakeMoves DEF Return, Goto
    <2>3. CASE wlock' = [wlock EXCEPT ![p] = TRUE] /\ Goto(p, t, "send") /\ UNCHANGED <<op, ok, asleep>>
      <3>1. wlock'[p]
        BY <1>1, <2>3 DEF ChanTypes
      <3>2. QED
        BY <2>1, <2>3, <3>1, AwakeGoto
    <2>4. CASE ~NotConnected(p, t) /\ ~LockIsFree(p, t) /\ wait(p, t) /\ UNCHANGED <<wlock, threadVars>>
      BY <2>1, <2>4, GoesToSleep DEF MayProceed, Loops, threadVars
    <2>5. QED
      BY <1>4, <2>2, <2>3, <2>4 DEF acquire_write_lock
  <1>5. CASE corpc_proto_send(p, t)
    <2>1. /\ pc[p][t] = "send" /\ UNCHANGED <<chst, st, asleep, wlock, op>>
          /\ \E l : Goto(p, t, l)
      BY <1>5 DEF corpc_proto_send, SendFrame, chanVars, streamVars
    <2>2. t \notin asleep[p]
      BY <1>3, <2>1 DEF Loops
    <2>3. QED
      BY <2>1, <2>2, AwakeGoto
  <1>6. CASE corpc_proto_send_payload(p, t)
    <2>1. /\ pc[p][t] = "payload" /\ UNCHANGED <<chst, st, asleep, wlock, op>>
          /\ \E l : Goto(p, t, l)
      BY <1>6 DEF corpc_proto_send_payload, SendFrame, chanVars, streamVars
    <2>2. t \notin asleep[p]
      BY <1>3, <2>1 DEF Loops
    <2>3. QED
      BY <2>1, <2>2, AwakeGoto
  <1>7. CASE send_data_done(p, t)
    <2>1. pc[p][t] = "sent" /\ UNCHANGED <<chst, asleep, wlock, op>> /\ Goto(p, t, "release")
      BY <1>7 DEF send_data_done, chanVars
    <2>2. t \notin asleep[p]
      BY <1>3, <2>1 DEF Loops
    <2>3. st' = [st EXCEPT ![p][t] = [st[p][t] EXCEPT !.rwnd = @ - 1]]
      BY <1>7 DEF send_data_done
    <2>4. QED
      BY <1>2, <2>1, <2>2, <2>3, AwakeMoves DEF Goto
  <1>8. CASE release_write_lock(p, t)
    BY <1>8, SignalWakes DEF release_write_lock
  <1>9. CASE corpc_open_stream_wait(p, t)
    <2>1. pc[p][t] = "opening" /\ t \notin asleep[p] /\ UNCHANGED <<chst, st, wlock, op>>
      BY <1>9 DEF corpc_open_stream_wait, awake, chanVars, streamVars
    <2>2. CASE established(p) /\ st[p][t].state = "opening" /\ wait(p, t) /\ UNCHANGED pc
      BY <2>1, <2>2, GoesToSleep DEF MayProceed, Loops
    <2>3. CASE UNCHANGED asleep /\ \E l : Goto(p, t, l)
      BY <2>1, <2>3, AwakeGoto
    <2>4. QED
      BY <1>9, <2>2, <2>3 DEF corpc_open_stream_wait
  <1>10. CASE corpc_open_stream_fail(p, t) \/ corpc_close_stream_erase(p, t)
    <2>1. /\ pc[p][t] \in {"fail", "erase"} /\ UNCHANGED <<chst, asleep, wlock, op>> /\ Goto(p, t, "done")
          /\ st' = [st EXCEPT ![p][t] = Zeroed]
      BY <1>10 DEF corpc_open_stream_fail, corpc_close_stream_erase, EraseAndDestroy, chanVars
    <2>2. t \notin asleep[p]
      BY <1>3, <2>1 DEF Loops
    <2>3. QED
      BY <1>2, <2>1, <2>2, AwakeMoves DEF Goto
  <1>11. CASE corpc_stream_read_internal(p, t)
    <2>1. pc[p][t] = "read" /\ t \notin asleep[p] /\ UNCHANGED <<chst, wlock>>
      BY <1>11 DEF corpc_stream_read_internal, awake, chanVars
    <2>2. CASE NothingToRead(p, t) /\ wait(p, t) /\ UNCHANGED <<st, threadVars>>
      BY <2>1, <2>2, GoesToSleep DEF MayProceed, Loops, threadVars
    <2>3. CASE /\ UNCHANGED asleep
               /\ UNCHANGED st \/ st' = [st EXCEPT ![p][t].rxq = Tail(@)]
               /\ Call(p, t, "ack") \/ (Goto(p, t, "open") /\ UNCHANGED op)
      <3>1. PICK r : st' = [st EXCEPT ![p][t] = r]
        <4>1. CASE st' = [st EXCEPT ![p][t].rxq = Tail(@)]
          <5>1. st' = [st EXCEPT ![p][t] = [st[p][t] EXCEPT !.rxq = Tail(@)]]
            BY <4>1
          <5>2. QED
            BY <5>1
        <4>2. QED
          BY <1>2, <2>3, <4>1
      <3>2. \E l, o : pc' = [pc EXCEPT ![p][t] = l] /\ op' = [op EXCEPT ![p][t] = o]
        BY <1>2, <2>3 DEF Call, Goto
      <3>3. QED
        BY <2>1, <2>3, <3>1, <3>2, AwakeMoves
    <2>4. QED
      BY <1>11, <2>2, <2>3 DEF corpc_stream_read_internal
  <1>12. QED
    BY <1>4, <1>5, <1>6, <1>7, <1>8, <1>9, <1>10, <1>11 DEF ThreadStep

\* The channel thread while it receives: streams change only where it signals.
LEMMA ReceiverSleep ==
  ASSUME TypeInv, NEW p \in Peer, SleepsWell(p),
         \/ on_create_stream_responce(p) \/ on_close_stream_notify(p) \/ on_data_message(p)
         \/ on_data_ack(p) \/ recv_fails(p)
  PROVE  SleepsWell(p)'
  <1>1. ThreadTypes /\ StreamTypes /\ 0 \in Thread
    BY TypeParts, ThreadFacts
  <1>2. /\ UNCHANGED <<chst, wlock, op>> /\ pc[p][0] = "recv"
        /\ Goto(p, 0, "shut") \/ UNCHANGED pc
        /\ signal(p) \/ UNCHANGED <<st, asleep>>
    BY DEF on_create_stream_responce, on_close_stream_notify, on_data_message, on_data_ack, recv_fails,
           DataReceived, Received, Receiving, SetState, chanVars, streamVars, threadVars
  <1>3. CASE signal(p)
    BY <1>3, SignalWakes
  <1>4. CASE UNCHANGED <<st, asleep>>
    <2>1. 0 \notin asleep[p]
      BY <1>2 DEF SleepsWell, Loops
    <2>2. /\ pc = [pc EXCEPT ![p][0] = pc[p][0]] /\ op = [op EXCEPT ![p][0] = op[p][0]]
          /\ st = [st EXCEPT ![p][0] = st[p][0]]
      BY <1>1 DEF ThreadTypes, StreamTypes
    <2>3. QED
      BY <1>1, <1>2, <1>4, <2>1, <2>2, AwakeMoves DEF Goto
  <1>5. QED
    BY <1>2, <1>3, <1>4

LEMMA ChannelSleep ==
  ASSUME TypeInv, FreshInv, NEW p \in Peer, PeerInv(p), SleepsWell(p), ChannelStep(p) \/ AppStep(p)
  PROVE  SleepsWell(p)'
  <1>1. ThreadTypes /\ StreamTypes /\ CurTypes /\ 0 \in Thread
    BY TypeParts, ThreadFacts
  <1>2. /\ pc = [pc EXCEPT ![p][0] = pc[p][0]] /\ op = [op EXCEPT ![p][0] = op[p][0]]
        /\ st = [st EXCEPT ![p][0] = st[p][0]]
    BY <1>1 DEF ThreadTypes, StreamTypes
  <1>3. /\ \A u \in asleep[p] : u \in Thread /\ pc[p][u] \in Loops
        /\ \A u \in Thread : pc[p][u] \notin Loops => u \notin asleep[p]
    BY <1>1 DEF SleepsWell, ThreadTypes
  <1>4. CASE on_create_stream_request(p)
    <2>1. UNCHANGED <<chst, wlock, asleep>> /\ pc[p][0] = "recv" /\ 0 \notin asleep[p]
      BY <1>1, <1>3, <1>4 DEF on_create_stream_request, Received, Receiving, chanVars, Loops
    <2> DEFINE m == Head(net[p])
    <2>2. CASE m.info = "method" /\ Cardinality(tbl[p]) < MaxStreams
      <3>1. /\ gsid[p] < MaxSid /\ Goto(p, 0, "start") /\ UNCHANGED op
            /\ st' = [st EXCEPT ![p][gensid(p)] = Stream("opening", m.sid, m.rwnd)]
        BY <1>4, <2>2 DEF on_create_stream_request
      <3>2. gensid(p) \in Sid /\ gensid(p) = gsid[p] + 1 /\ gsid[p] \in Nat
        BY <3>1, NewSid
      <3>3. gensid(p) \notin asleep[p]
        <4>1. pc[p][gensid(p)] = "none"
          BY <2>1, <3>2 DEF FreshInv, Running
        <4>2. QED
          BY <1>3, <3>2, <4>1, ThreadFacts DEF Loops
      <3>4. \A u \in asleep[p] : pc'[p][u] = pc[p][u] /\ op'[p][u] = op[p][u] /\ st'[p][u] = st[p][u]
        <4>1. \A u \in asleep[p] : u # 0 /\ u # gensid(p) /\ u \in Thread
          BY <1>3, <2>1, <3>3
        <4>2. \A u \in asleep[p] : pc'[p][u] = pc[p][u]
          BY <1>1, <3>1, <4>1 DEF ThreadTypes, Goto
        <4>3. \A u \in asleep[p] : st'[p][u] = st[p][u]
          BY <1>1, <3>1, <3>2, <4>1, ThreadFacts DEF StreamTypes
        <4>4. QED
          BY <3>1, <4>2, <4>3
      <3>5. QED
        BY <2>1, <3>4, SleepKeeps
    <2>3. CASE ~(m.info = "method" /\ Cardinality(tbl[p]) < MaxStreams)
      <3>1. Call(p, 0, "response") /\ UNCHANGED st
        BY <1>4, <2>3 DEF on_create_stream_request, streamVars
      <3>2. QED
        BY <1>1, <1>2, <2>1, <3>1, AwakeMoves DEF Call, Goto
    <2>4. QED
      BY <2>2, <2>3
  <1>5. CASE start_service_method_thread(p)
    <2>1. UNCHANGED <<chst, wlock, asleep, st>> /\ pc[p][0] = "start" /\ 0 \notin asleep[p]
      BY <1>1, <1>3, <1>5 DEF start_service_method_thread, chanVars, streamVars, Loops
    <2>2. cur[p].obj \in Sid /\ pc[p][cur[p].obj] = "none" /\ cur[p].obj \notin asleep[p]
      BY <1>3, <2>1, ThreadFacts DEF FreshInv, Running, Loops
    <2>3. CASE UNCHANGED op /\ \E l : pc' = [pc EXCEPT ![p][0] = "started", ![p][cur[p].obj] = l]
      <3>1. \A u \in asleep[p] : pc'[p][u] = pc[p][u]
        BY <1>1, <1>3, <2>1, <2>2, <2>3, ThreadFacts DEF ThreadTypes
      <3>2. QED
        BY <2>1, <2>3, <3>1, SleepKeeps
    <2>4. CASE Call(p, 0, "response")
      BY <1>1, <1>2, <2>1, <2>4, AwakeMoves DEF Call, Goto
    <2>5. QED
      BY <1>5, <2>3, <2>4 DEF start_service_method_thread
  <1>6. CASE on_create_stream_request_reply(p)
    <2>1. UNCHANGED <<chst, wlock, asleep, st>> /\ pc[p][0] = "started" /\ 0 \notin asleep[p] /\ Call(p, 0, "response")
      BY <1>1, <1>3, <1>6 DEF on_create_stream_request_reply, chanVars, streamVars, Loops
    <2>2. QED
      BY <1>1, <1>2, <2>1, AwakeMoves DEF Call, Goto
  <1>7. CASE on_create_stream_request_done(p)
    <2>1. UNCHANGED <<chst, wlock, op>> /\ pc[p][0] = "setstate" /\ 0 \notin asleep[p] /\ Goto(p, 0, "recv")
      BY <1>1, <1>3, <1>7 DEF on_create_stream_request_done, chanVars, Loops
    <2>2. CASE UNCHANGED <<st, asleep>>
      BY <1>1, <1>2, <2>1, <2>2, AwakeMoves DEF Goto
    <2>3. CASE signal(p)
      BY <2>3, SignalWakes
    <2>4. CASE /\ cur[p].obj # 0 /\ cur[p].status # "ok" /\ UNCHANGED asleep
               /\ st' = [st EXCEPT ![p][cur[p].obj] = Zeroed]
      <3>1. cur[p].obj \in Sid /\ pc[p][cur[p].obj] = "none"
        BY <1>1, <2>1, <2>4, ThreadFacts DEF CurTypes, PeerInv, AnswerInv, Answering
      <3>2. \A u \in asleep[p] : u # 0 /\ u # cur[p].obj /\ u \in Thread
        BY <1>3, <2>1, <3>1 DEF Loops
      <3>3. \A u \in asleep[p] : pc'[p][u] = pc[p][u] /\ st'[p][u] = st[p][u]
        BY <1>1, <2>1, <2>4, <3>1, <3>2, ThreadFacts DEF ThreadTypes, StreamTypes, Goto
      <3>4. QED
        BY <2>1, <2>4, <3>3, SleepKeeps
    <2>5. QED
      BY <1>7, <2>2, <2>3, <2>4 DEF on_create_stream_request_done, EraseAndDestroy
  <1>8. CASE on_data_message_unknown(p)
    BY <1>1, <1>8 DEF on_data_message_unknown, SleepsWell, ThreadTypes
  <1>9. CASE corpc_channel_thread_end(p) \/ corpc_channel_close(p)
    BY <1>9, SignalWakes DEF corpc_channel_thread_end, corpc_channel_close, close_internal
  <1>10. CASE corpc_open_stream(p)
    <2>1. /\ UNCHANGED <<chst, wlock, asleep>> /\ gsid[p] < MaxSid
          /\ held[p] \/ (alive[p] /\ Running(p))
          /\ st' = [st EXCEPT ![p][gensid(p)] = Stream("opening", 0, 0)]
          /\ Call(p, gensid(p), "request")
      BY <1>10 DEF corpc_open_stream, chanVars
    <2>2. gensid(p) \in Sid /\ gensid(p) = gsid[p] + 1 /\ gsid[p] \in Nat
      BY <2>1, NewSid
    <2>3. Running(p)
      BY <2>1 DEF PeerInv, RefsInv
    <2>4. gensid(p) \in Thread /\ gensid(p) \notin asleep[p]
      <3>1. pc[p][gensid(p)] = "none"
        BY <2>2, <2>3 DEF FreshInv
      <3>2. QED
        BY <1>3, <2>2, <3>1, ThreadFacts DEF Loops
    <2>5. QED
      BY <2>1, <2>4, AwakeMoves DEF Call, Goto
  <1>11. ASSUME NEW t \in Sid,
                corpc_stream_write(p, t) \/ corpc_stream_read(p, t) \/ corpc_close_stream(p, t)
         PROVE  SleepsWell(p)'
    <2>1. /\ UNCHANGED <<chst, wlock, asleep, st>> /\ pc[p][t] = "open"
          /\ \/ \E o : Call(p, t, o)
             \/ Goto(p, t, "read") /\ UNCHANGED op
      BY <1>11 DEF corpc_stream_write, corpc_stream_read, corpc_close_stream, chanVars, streamVars
    <2>2. /\ t \in Thread /\ t \notin asleep[p]
          /\ op = [op EXCEPT ![p][t] = op[p][t]] /\ st = [st EXCEPT ![p][t] = st[p][t]]
      BY <1>1, <1>3, <2>1, ThreadFacts DEF Loops, ThreadTypes, StreamTypes
    <2>3. QED
      BY <2>1, <2>2, AwakeMoves DEF Call, Goto
  <1>12. QED
    BY <1>4, <1>5, <1>6, <1>7, <1>8, <1>9, <1>10, <1>11, ReceiverSleep DEF ChannelStep, AppStep

LEMMA NextSleep ==
  ASSUME TypeInv, FreshInv, ChannelInv, SleepInv, [Next]_vars
  PROVE  SleepInv'
  <1>1. \A q \in Peer : PeerInv(q) /\ SleepsWell(q)
    BY DEF ChannelInv, PeerInv, SleepInv, SleepsWell, Loops
  <1>2. SUFFICES \A q \in Peer : SleepsWell(q)'
    BY DEF SleepInv, SleepsWell, Loops
  <1>3. ASSUME NEW p \in Peer, NEW t \in Thread, ThreadStep(p, t)
        PROVE  \A q \in Peer : SleepsWell(q)'
    <2>1. SleepsWell(p)'
      BY <1>1, <1>3, ThreadSleep
    <2>2. \A q \in Peer : q # p => SleepsWell(q)'
      BY <1>1, <1>3, ThreadOnlyPeer, SameSleep
    <2>3. QED
      BY <2>1, <2>2
  <1>4. ASSUME NEW p \in Peer, ChannelStep(p) \/ AppStep(p)
        PROVE  \A q \in Peer : SleepsWell(q)'
    <2>1. SleepsWell(p)'
      BY <1>1, <1>4, ChannelSleep
    <2>2. \A q \in Peer : q # p => SleepsWell(q)'
      BY <1>1, <1>4, ChannelOnlyPeer, SameSleep
    <2>3. QED
      BY <2>1, <2>2
  <1>5. CASE LinkFails \/ UNCHANGED vars
    <2>1. \A q \in Peer : SamePeer(q)
      BY <1>5 DEF LinkFails, vars, SamePeer, chanVars, streamVars, threadVars
    <2>2. QED
      BY <1>1, <2>1, SameSleep
  <1>6. QED
    BY <1>3, <1>4, <1>5 DEF Next

-----------------------------------------------------------------------------
(* Messages on the connection are whole.                                   *)

\* Nothing p sends arrives any more.
Severed(p) == PeerGone(p) \/ ~sock[p]

\* A payload follows its header, and nothing else does.
Pairs(f) ==
    /\ \A i \in 1..(Len(f) - 1) : f[i].code = "data" <=> f[i + 1].code = "payload"
    /\ f # << >> => f[1].code # "payload"

\* The last message is only half there.
Half(f) == f # << >> /\ f[Len(f)].code = "data"

\* What p has sent consists of whole messages, but for the one whose payload the owner of the
\* write lock is about to send.
WholeMessages(p) ==
    /\ Pairs(net[Other(p)])
    /\ Severed(p) \/ (Half(net[Other(p)]) <=> \E t \in Thread : pc[p][t] = "payload")

WholeInv == (\A p \in Peer : WholeMessages(p)) /\ "garbled frame" \notin bug

\* Sequences of frames.
LEMMA AppendPairs ==
  ASSUME NEW S, NEW f \in Seq(S), NEW x \in S, Pairs(f), x.code = "payload" <=> Half(f)
  PROVE  Pairs(Append(f, x)) /\ (Half(Append(f, x)) <=> x.code = "data")
  <1>1. PICK g : g = Append(f, x)
    OBVIOUS
  <1>2. /\ g \in Seq(S) /\ Len(g) = Len(f) + 1 /\ Len(f) \in Nat /\ g # << >>
        /\ \A i \in 1..Len(f) : g[i] = f[i]
        /\ g[Len(f) + 1] = x
    BY <1>1, AppendProperties, LenProperties
  <1>3. f = << >> <=> Len(f) = 0
    BY EmptySeq
  <1>4. \A i \in 1..(Len(g) - 1) : g[i].code = "data" <=> g[i + 1].code = "payload"
    <2> SUFFICES ASSUME NEW i \in 1..Len(f) PROVE g[i].code = "data" <=> g[i + 1].code = "payload"
      BY <1>2
    <2>1. CASE i = Len(f)
      BY <1>2, <1>3, <2>1 DEF Half
    <2>2. CASE i # Len(f)
      <3>1. i \in 1..(Len(f) - 1) /\ i + 1 \in 1..Len(f)
        BY <1>2, <2>2
      <3>2. QED
        BY <1>2, <3>1 DEF Pairs
    <2>3. QED
      BY <2>1, <2>2
  <1>5. g[1].code # "payload"
    <2>1. CASE f = << >>
      BY <1>2, <1>3, <2>1 DEF Half
    <2>2. CASE f # << >>
      BY <1>2, <1>3, <2>2 DEF Pairs
    <2>3. QED
      BY <2>1, <2>2
  <1>6. QED
    BY <1>1, <1>2, <1>4, <1>5 DEF Pairs, Half

LEMMA TailFacts ==
  ASSUME NEW S, NEW f \in Seq(S), f # << >>
  PROVE  /\ Tail(f) \in Seq(S) /\ Len(Tail(f)) = Len(f) - 1 /\ Len(f) \in Nat /\ Len(f) > 0
         /\ \A i \in 1..(Len(f) - 1) : Tail(f)[i] = f[i + 1]
         /\ Tail(f) = << >> <=> Len(f) = 1
         /\ Head(f) = f[1] /\ f[1] \in S
  <1>1. /\ Tail(f) \in Seq(S) /\ Len(Tail(f)) = Len(f) - 1 /\ Len(f) \in Nat /\ Head(f) = f[1] /\ f[1] \in S
        /\ \A i \in 1..Len(Tail(f)) : Tail(f)[i] = f[i + 1]
    BY HeadTailProperties, LenProperties
  <1>2. Len(f) # 0
    BY EmptySeq
  <1>3. Tail(f) = << >> <=> Len(Tail(f)) = 0
    BY <1>1, EmptySeq
  <1>4. QED
    BY <1>1, <1>2, <1>3

LEMMA TailPairs ==
  ASSUME NEW S, NEW f \in Seq(S), f # << >>, Pairs(f), Head(f).code # "data"
  PROVE  Pairs(Tail(f)) /\ (Half(Tail(f)) <=> Half(f))
  <1>1. PICK g : g = Tail(f)
    OBVIOUS
  <1>2. /\ Len(g) = Len(f) - 1 /\ Len(f) \in Nat /\ Len(f) > 0
        /\ \A i \in 1..(Len(f) - 1) : g[i] = f[i + 1]
        /\ g = << >> <=> Len(f) = 1
        /\ f[1].code # "data"
    BY <1>1, TailFacts
  <1>3. \A i \in 1..(Len(g) - 1) : g[i].code = "data" <=> g[i + 1].code = "payload"
    <2> SUFFICES ASSUME NEW i \in 1..(Len(f) - 2) PROVE g[i].code = "data" <=> g[i + 1].code = "payload"
      BY <1>2
    <2>1. i + 1 \in 1..(Len(f) - 1) /\ i \in 1..(Len(f) - 1) /\ g[i] = f[i + 1] /\ g[i + 1] = f[(i + 1) + 1]
      BY <1>2
    <2>2. QED
      BY <2>1 DEF Pairs
  <1>4. g # << >> => g[1].code # "payload"
    <2> SUFFICES ASSUME g # << >> PROVE g[1].code # "payload"
      OBVIOUS
    <2>1. 1 \in 1..(Len(f) - 1) /\ g[1] = f[1 + 1]
      BY <1>2
    <2>2. QED
      BY <1>2, <2>1 DEF Pairs
  <1>5. Half(g) <=> Half(f)
    <2>1. CASE Len(f) = 1
      BY <1>2, <2>1 DEF Half
    <2>2. CASE Len(f) # 1
      <3>1. g # << >> /\ Len(f) - 1 \in 1..(Len(f) - 1) /\ g[Len(g)] = f[Len(f)]
        <4>1. Len(f) - 1 \in 1..(Len(f) - 1) /\ (Len(f) - 1) + 1 = Len(f)
          BY <1>2, <2>2
        <4>2. g[Len(f) - 1] = f[(Len(f) - 1) + 1]
          BY <1>2, <4>1
        <4>3. QED
          BY <1>2, <2>2, <4>1, <4>2
      <3>2. QED
        BY <3>1 DEF Half
    <2>3. QED
      BY <2>1, <2>2
  <1>6. QED
    BY <1>1, <1>3, <1>4, <1>5 DEF Pairs

\* A whole data message is taken off the connection.
LEMMA TailPairsData ==
  ASSUME NEW S, NEW f \in Seq(S), Pairs(f), Len(f) > 1, Head(f).code = "data"
  PROVE  /\ f[2].code = "payload"
         /\ Pairs(Tail(Tail(f))) /\ (Half(Tail(Tail(f))) <=> Half(f))
  <1>1. PICK g : g = Tail(f)
    OBVIOUS
  <1>2. f # << >>
    BY EmptySeq
  <1>3. /\ g \in Seq(S) /\ Len(g) = Len(f) - 1 /\ Len(f) \in Nat /\ Len(f) > 1
        /\ \A i \in 1..(Len(f) - 1) : g[i] = f[i + 1]
        /\ g # << >> /\ f[1].code = "data"
    BY <1>1, <1>2, TailFacts
  <1>4. PICK h : h = Tail(g)
    OBVIOUS
  <1>5. /\ Len(h) = Len(g) - 1 /\ Len(g) > 0
        /\ \A i \in 1..(Len(g) - 1) : h[i] = g[i + 1]
        /\ h = << >> <=> Len(g) = 1
    BY <1>3, <1>4, TailFacts
  <1>6. f[2].code = "payload"
    <2>1. 1 \in 1..(Len(f) - 1) /\ 1 + 1 = 2
      BY <1>3
    <2>2. QED
      BY <1>3, <2>1 DEF Pairs
  <1>7. /\ Len(h) = Len(f) - 2
        /\ h = << >> <=> Len(f) = 2
        /\ \A i \in 1..(Len(f) - 2) : h[i] = f[i + 2]
    <2>1. \A i \in 1..(Len(f) - 2) : h[i] = f[i + 2]
      <3> SUFFICES ASSUME NEW i \in 1..(Len(f) - 2) PROVE h[i] = f[i + 2]
        OBVIOUS
      <3>1. i \in 1..(Len(g) - 1) /\ i + 1 \in 1..(Len(f) - 1) /\ (i + 1) + 1 = i + 2
        BY <1>3, <1>5
      <3>2. h[i] = g[i + 1] /\ g[i + 1] = f[(i + 1) + 1]
        BY <1>3, <1>5, <3>1
      <3>3. QED
        BY <3>1, <3>2
    <2>2. QED
      BY <1>3, <1>5, <2>1
  <1>8. \A i \in 1..(Len(h) - 1) : h[i].code = "data" <=> h[i + 1].code = "payload"
    <2> SUFFICES ASSUME NEW i \in 1..(Len(f) - 3) PROVE h[i].code = "data" <=> h[i + 1].code = "payload"
      BY <1>3, <1>7
    <2>1. i \in 1..(Len(f) - 2) /\ i + 1 \in 1..(Len(f) - 2) /\ i + 2 \in 1..(Len(f) - 1) /\ (i + 1) + 2 = (i + 2) + 1
      BY <1>3
    <2>2. h[i] = f[i + 2] /\ h[i + 1] = f[(i + 2) + 1]
      BY <1>7, <2>1
    <2>3. QED
      BY <2>1, <2>2 DEF Pairs
  <1>9. h # << >> => h[1].code # "payload"
    <2> SUFFICES ASSUME h # << >> PROVE h[1].code # "payload"
      OBVIOUS
    <2>1. Len(f) > 2
      BY <1>3, <1>7
    <2>2. 1 \in 1..(Len(f) - 2) /\ 2 \in 1..(Len(f) - 1) /\ 1 + 2 = 2 + 1
      BY <1>3, <2>1
    <2>3. h[1] = f[2 + 1]
      BY <1>7, <2>2
    <2>4. QED
      BY <1>6, <2>2, <2>3 DEF Pairs
  <1>10. Half(h) <=> Half(f)
    <2>1. CASE Len(f) = 2
      BY <1>2, <1>6, <1>7, <2>1 DEF Half
    <2>2. CASE Len(f) # 2
      <3>1. Len(f) - 2 \in 1..(Len(f) - 2) /\ (Len(f) - 2) + 2 = Len(f)
        BY <1>3, <2>2
      <3>2. h[Len(f) - 2] = f[(Len(f) - 2) + 2]
        BY <1>7, <3>1
      <3>3. QED
        BY <1>2, <1>3, <1>7, <2>2, <3>1, <3>2 DEF Half
    <2>3. QED
      BY <2>1, <2>2
  <1>11. QED
    BY <1>1, <1>4, <1>6, <1>8, <1>9, <1>10 DEF Pairs

\* Once broken, a connection stays so; nobody but the sender adds to it.
LEMMA SeveredStays ==
  ASSUME NEW p \in Peer, Severed(p), link' => link, \A q \in Peer : sock'[q] => sock[q]
  PROVE  Severed(p)'
  BY PeerFacts DEF Severed, PeerGone

\* The connection and the sockets stay as they are.
Wires == UNCHANGED <<link, sock, net>>

\* No thread of p comes to or goes from between the two frames.
SamePayload(p) == \A t \in Thread : pc'[p][t] = "payload" <=> pc[p][t] = "payload"

LEMMA WiresWhole ==
  ASSUME NEW p \in Peer, WholeMessages(p), Wires, SamePayload(p)
  PROVE  WholeMessages(p)'
  BY DEF WholeMessages, Wires, SamePayload, Severed, PeerGone

\* p sends a frame, or fails to.
LEMMA SendWhole ==
  ASSUME TypeInv, NEW p \in Peer, WholeMessages(p), NEW t \in Thread, NEW f \in GoodFrames, NEW next,
         SendFrame(p, t, f, next), UNCHANGED <<link, sock>>,
         Severed(p) \/ ((f.code = "payload" <=> Half(net[Other(p)]))
                       /\ (f.code = "data" <=> next = "payload")
                       /\ \A u \in Thread : u # t => pc[p][u] # "payload")
  PROVE  WholeMessages(p)'
  <1>1. net \in [Peer -> Seq(GoodFrames)] /\ ThreadTypes /\ Other(p) \in Peer
    BY TypeParts, PeerFacts
  <1>2. CASE Severed(p)
    <2>1. Severed(p)'
      BY <1>2, SeveredStays
    <2>2. UNCHANGED net
      BY <1>2 DEF SendFrame, Severed
    <2>3. QED
      BY <2>1, <2>2 DEF WholeMessages
  <1>3. CASE ~Severed(p)
    <2>1. net' = [net EXCEPT ![Other(p)] = Append(net[Other(p)], f)] /\ Goto(p, t, next)
      BY <1>3 DEF SendFrame, Severed
    <2>2. net'[Other(p)] = Append(net[Other(p)], f) /\ net[Other(p)] \in Seq(GoodFrames)
      BY <1>1, <2>1
    <2>3. Pairs(net'[Other(p)]) /\ (Half(net'[Other(p)]) <=> f.code = "data")
      BY <1>3, <2>2, AppendPairs DEF WholeMessages
    <2>4. (\E u \in Thread : pc'[p][u] = "payload") <=> next = "payload"
      <3>1. pc'[p][t] = next /\ \A u \in Thread : u # t => pc'[p][u] = pc[p][u]
        BY <1>1, <2>1 DEF ThreadTypes, Goto
      <3>2. QED
        BY <1>3, <3>1
    <2>5. QED
      BY <1>3, <2>3, <2>4 DEF WholeMessages
  <1>4. QED
    BY <1>2, <1>3

\* The first frame of a message has the message's code.
LEMMA FirstFrameCode ==
  ASSUME NEW p \in Peer, NEW t \in Thread, NEW f \in FirstFrames(p, t), op[p][t] \in Ops
  PROVE  f.code = op[p][t]
  <1>1. CASE op[p][t] = "request"
    <2>1. f \in {Frame("request", t, 0, srwnd(p, t), target, 0) : target \in Targets}
      BY <1>1 DEF FirstFrames
    <2>2. PICK target \in Targets : f = Frame("request", t, 0, srwnd(p, t), target, 0)
      BY <2>1
    <2>3. QED
      BY <1>1, <2>2 DEF Frame
  <1>2. CASE op[p][t] = "response"
    <2>1. f \in {Frame("response", cur[p].sid, cur[p].did, cur[p].rwnd, cur[p].status, 0)}
      BY <1>2 DEF FirstFrames
    <2>2. QED
      BY <1>2, <2>1 DEF Frame
  <1>3. CASE op[p][t] \notin {"request", "response"}
    <2>1. PICK o \in Ops : o = op[p][t]
      OBVIOUS
    <2>2. f = Frame(o, t, st[p][t].did, 0, "", 0)
      BY <1>3, <2>1 DEF FirstFrames
    <2>3. f.code = o
      BY <2>2 DEF Frame, Ops
    <2>4. QED
      BY <2>1, <2>3
  <1>4. QED
    BY <1>1, <1>2, <1>3

\* p's threads.
LEMMA ThreadWhole ==
  ASSUME TypeInv, LockInv, ChannelInv, NEW p \in Peer, NEW t \in Thread, WholeMessages(p), ThreadStep(p, t)
  PROVE  WholeMessages(p)'
  <1>1. ThreadTypes /\ Roles
    BY TypeParts
  <1>2. CASE corpc_proto_send(p, t)
    <2>1. pc[p][t] = "send" /\ UNCHANGED <<link, sock>>
      BY <1>2 DEF corpc_proto_send, chanVars
    <2>2. PICK f \in FirstFrames(p, t) : SendFrame(p, t, f, IF op[p][t] = "data" THEN "payload" ELSE "release")
      BY <1>2 DEF corpc_proto_send
    <2>3. f \in GoodFrames
      BY <2>1, FirstFrameTypes
    <2>4. f.code = op[p][t] /\ op[p][t] \in MessagesOf(t)
      <3>1. op[p][t] \in MessagesOf(t)
        BY <1>1, <2>1 DEF Roles, Role, Sending
      <3>2. QED
        BY <1>1, <2>2, <3>1, FirstFrameCode DEF ThreadTypes
    <2>5. \A u \in Thread : pc[p][u] # "payload"
      <3>1. Running(p)
        BY <2>1 DEF ChannelInv, RefsInv
      <3>2. QED
        BY <2>1, <3>1 DEF LockInv, WriteLockExclusion, Sending
    <2>6. PICK next : next = IF op[p][t] = "data" THEN "payload" ELSE "release"
      OBVIOUS
    <2>7. Severed(p) \/ ((f.code = "payload" <=> Half(net[Other(p)])) /\ (f.code = "data" <=> next = "payload"))
      BY <2>4, <2>5, <2>6 DEF WholeMessages, MessagesOf
    <2>8. QED
      BY <2>1, <2>2, <2>3, <2>5, <2>6, <2>7, SendWhole
  <1>3. CASE corpc_proto_send_payload(p, t)
    <2>1. pc[p][t] = "payload" /\ UNCHANGED <<link, sock>>
      BY <1>3 DEF corpc_proto_send_payload, chanVars
    <2>2. PICK f : f = Frame("payload", 0, 0, 0, "", nwr[p][t] + 1)
      OBVIOUS
    <2>3. SendFrame(p, t, f, "sent") /\ f.code = "payload"
      BY <1>3, <2>2 DEF corpc_proto_send_payload, Frame
    <2>4. t # 0 /\ t \in Sid
      BY <1>1, <2>1, ThreadFacts DEF Roles, Role, ChannelPCs
    <2>5. f \in GoodFrames
      <3>1. nwr[p][t] \in Nat
        BY <2>4, TypeParts DEF CountTypes
      <3>2. /\ "payload" \in Codes \cup Ops /\ 0 \in Thread /\ 0 \in Int /\ nwr[p][t] + 1 \in Nat
            /\ "" \in Status \cup Targets \cup {""}
        BY <3>1, ThreadFacts DEF Codes
      <3>3. QED
        BY <2>2, <3>2, FrameTypes
    <2>6. \A u \in Thread : u # t => pc[p][u] # "payload"
      <3>1. Running(p)
        BY <2>1 DEF ChannelInv, RefsInv
      <3>2. QED
        BY <2>1, <3>1 DEF LockInv, WriteLockExclusion, Sending
    <2>7. Severed(p) \/ Half(net[Other(p)])
      BY <2>1 DEF WholeMessages
    <2>8. QED
      BY <2>1, <2>3, <2>5, <2>6, <2>7, SendWhole
  <1>4. CASE ~corpc_proto_send(p, t) /\ ~corpc_proto_send_payload(p, t)
    <2>1. Wires
      BY <1>4 DEF ThreadStep, Wires, acquire_write_lock, send_data_done, release_write_lock, corpc_open_stream_wait,
         corpc_open_stream_fail, corpc_stream_read_internal, corpc_close_stream_erase, chanVars
    <2>2. UNCHANGED pc \/ (pc[p][t] # "payload" /\ \E l : l # "payload" /\ Goto(p, t, l))
      <3>1. After(op[p][t], FALSE) # "payload" /\ After(op[p][t], ok[p][t]) # "payload"
        BY DEF After
      <3>2. QED
        BY <1>4, <3>1 DEF ThreadStep, acquire_write_lock, send_data_done, release_write_lock, corpc_open_stream_wait,
         corpc_open_stream_fail, corpc_stream_read_internal, corpc_close_stream_erase, Return, Call, threadVars
    <2>3. SamePayload(p)
      BY <1>1, <2>2 DEF SamePayload, ThreadTypes, Goto
    <2>4. QED
      BY <2>1, <2>3, WiresWhole
  <1>5. QED
    BY <1>2, <1>3, <1>4

\* The other peer receives a message other than data.
LEMMA ConsumeWhole ==
  ASSUME TypeInv, NEW p \in Peer, WholeMessages(p), pc'[p] = pc[p], UNCHANGED <<link, sock>>,
         NEW code, code # "data", Received(Other(p), code), Consume(Other(p))
  PROVE  WholeMessages(p)'
  <1>1. /\ Other(p) \in Peer /\ net[Other(p)] \in Seq(GoodFrames) /\ net[Other(p)] # << >>
        /\ Head(net[Other(p)]).code # "data"
    BY TypeParts, PeerFacts DEF Received
  <1>2. net'[Other(p)] = Tail(net[Other(p)])
    BY <1>1, TypeParts DEF Consume
  <1>3. Pairs(net'[Other(p)]) /\ (Half(net'[Other(p)]) <=> Half(net[Other(p)]))
    BY <1>1, <1>2, TailPairs DEF WholeMessages
  <1>4. Severed(p) => Severed(p)'
    BY DEF Severed, PeerGone
  <1>5. QED
    BY <1>3, <1>4 DEF WholeMessages

\* The other peer receives a data message: its second frame is the payload.
LEMMA ConsumeDataWhole ==
  ASSUME TypeInv, NEW p \in Peer, WholeMessages(p), pc'[p] = pc[p], link' = link,
         \A q \in Peer : sock'[q] => sock[q], DataReceived(Other(p)), ConsumeData(Other(p))
  PROVE  WholeMessages(p)' /\ net[Other(p)][2].code = "payload"
  <1>1. /\ Other(p) \in Peer /\ net[Other(p)] \in Seq(GoodFrames) /\ Len(net[Other(p)]) > 1
        /\ Head(net[Other(p)]).code = "data"
    BY TypeParts, PeerFacts DEF DataReceived, Received
  <1>2. net'[Other(p)] = Tail(Tail(net[Other(p)]))
    BY <1>1, TypeParts DEF ConsumeData
  <1>3. /\ net[Other(p)][2].code = "payload"
        /\ Pairs(net'[Other(p)]) /\ (Half(net'[Other(p)]) <=> Half(net[Other(p)]))
    BY <1>1, <1>2, TailPairsData DEF WholeMessages
  <1>4. Severed(p) => Severed(p)'
    BY SeveredStays
  <1>5. QED
    BY <1>3, <1>4 DEF WholeMessages

\* What a step of q's channel thread or application does to what q sends: nothing, or the socket
\* is closed.
LEMMA OwnWhole ==
  ASSUME TypeInv, FreshInv, ChannelInv, NEW p \in Peer, WholeMessages(p), ChannelStep(p) \/ AppStep(p)
  PROVE  WholeMessages(p)'
  <1>1. ThreadTypes /\ ChanTypes /\ Roles /\ net \in [Peer -> Seq(GoodFrames)] /\ Other(p) \in Peer /\ Other(p) # p
    BY TypeParts, PeerFacts
  <1>2. net'[Other(p)] = net[Other(p)] /\ link' = link /\ \A q \in Peer : sock'[q] => sock[q]
    BY <1>1 DEF ChanTypes, ChannelStep, AppStep, on_create_stream_request, start_service_method_thread,
       on_create_stream_request_reply, on_create_stream_request_done, on_create_stream_responce,
       on_close_stream_notify, on_data_message, on_data_message_unknown, on_data_ack, recv_fails,
       corpc_channel_thread_end, corpc_open_stream, corpc_channel_close, corpc_stream_write, corpc_stream_read,
       corpc_close_stream, close_internal, Consume, ConsumeData, chanVars
  <1>3. SamePayload(p) \/ Severed(p)'
    <2>1. CASE on_data_message_unknown(p)
      BY <1>1, <2>1 DEF on_data_message_unknown, Severed, ChanTypes
    <2>2. CASE start_service_method_thread(p)
      <3>1. pc[p][0] = "start" /\ cur[p].obj \in Sid /\ pc[p][cur[p].obj] = "none"
        BY <2>2 DEF start_service_method_thread, FreshInv, Running
      <3>2. \/ \E l \in {"read", "open"} : pc' = [pc EXCEPT ![p][0] = "started", ![p][cur[p].obj] = l]
            \/ Goto(p, 0, "acquire")
        BY <2>2 DEF start_service_method_thread, Call
      <3>3. SamePayload(p)
        BY <1>1, <3>1, <3>2, ThreadFacts DEF SamePayload, ThreadTypes, Goto
      <3>4. QED
        BY <3>3
    <2>3. CASE corpc_open_stream(p)
      <3>1. gsid[p] < MaxSid /\ Goto(p, gensid(p), "acquire") /\ (held[p] \/ Running(p))
        BY <2>3 DEF corpc_open_stream, Call
      <3>2. gensid(p) \in Thread
        BY <3>1, NewSid
      <3>3. CASE pc[p][gensid(p)] # "payload"
        BY <1>1, <3>1, <3>2, <3>3 DEF SamePayload, ThreadTypes, Goto
      <3>4. pc[p][gensid(p)] # "payload"
        <4>1. gensid(p) \in Sid /\ gensid(p) = gsid[p] + 1 /\ gsid[p] \in Nat
          BY <3>1, NewSid
        <4>2. Running(p) => pc[p][gensid(p)] = "none"
          BY <4>1 DEF FreshInv
        <4>3. ~Running(p) => pc[p][gensid(p)] = "crashed"
          BY <3>2 DEF ChannelInv, RefsInv
        <4>4. QED
          BY <4>2, <4>3
      <3>5. QED
        BY <3>3, <3>4
    <2>4. CASE ~(on_data_message_unknown(p) \/ start_service_method_thread(p) \/ corpc_open_stream(p))
      <3>1. UNCHANGED pc \/ \E t \in Thread : pc[p][t] # "payload" /\ \E l : l # "payload" /\ Goto(p, t, l)
        BY <2>4, ThreadFacts DEF ChannelStep, AppStep, on_create_stream_request,
           on_create_stream_request_reply, on_create_stream_request_done, on_create_stream_responce,
           on_close_stream_notify, on_data_message, on_data_ack, recv_fails, DataReceived, Received, Receiving,
           corpc_channel_thread_end, corpc_channel_close, corpc_stream_write, corpc_stream_read,
           corpc_close_stream, Call, threadVars
      <3>2. QED
        BY <1>1, <3>1 DEF SamePayload, ThreadTypes, Goto
    <2>5. QED
      BY <2>1, <2>2, <2>3, <2>4
  <1>4. Severed(p) => Severed(p)'
    BY <1>2, SeveredStays
  <1>5. ~Severed(p) => Severed(p)' \/ SamePayload(p)
    BY <1>3
  <1>6. QED
    BY <1>2, <1>4, <1>5 DEF WholeMessages, SamePayload

\* What a step of p does to what the other peer has sent: nothing, or one message is taken.
LEMMA PeerWhole ==
  ASSUME TypeInv, NEW q \in Peer, WholeMessages(q), ChannelStep(Other(q)) \/ AppStep(Other(q))
  PROVE  WholeMessages(q)' /\ ("garbled frame" \in bug' => "garbled frame" \in bug)
  <1>1. ThreadTypes /\ ChanTypes /\ net \in [Peer -> Seq(GoodFrames)] /\ Other(q) \in Peer /\ Other(q) # q
    BY TypeParts, PeerFacts
  <1>2. PICK p \in Peer : p = Other(q)
    BY <1>1
  <1>3. ChannelStep(p) \/ AppStep(p)
    BY <1>2
  <1>4. pc'[q] = pc[q]
    BY <1>1, <1>2, <1>3 DEF ThreadTypes, ChannelStep, AppStep, on_create_stream_request, start_service_method_thread,
       on_create_stream_request_reply, on_create_stream_request_done, on_create_stream_responce,
       on_close_stream_notify, on_data_message, on_data_message_unknown, on_data_ack, recv_fails,
       corpc_channel_thread_end, corpc_open_stream, corpc_channel_close, corpc_stream_write, corpc_stream_read,
       corpc_close_stream, Call, Goto, threadVars
  <1>5. link' = link /\ \A r \in Peer : sock'[r] => sock[r]
    BY <1>1, <1>2, <1>3 DEF ChanTypes, ChannelStep, AppStep, on_create_stream_request, start_service_method_thread,
       on_create_stream_request_reply, on_create_stream_request_done, on_create_stream_responce,
       on_close_stream_notify, on_data_message, on_data_message_unknown, on_data_ack, recv_fails,
       corpc_channel_thread_end, corpc_open_stream, corpc_channel_close, corpc_stream_write, corpc_stream_read,
       corpc_close_stream, close_internal, chanVars
  <1>6. CASE on_data_message(p) \/ on_data_message_unknown(p)
    <2>1. DataReceived(p) /\ ConsumeData(p)
      BY <1>6 DEF on_data_message, on_data_message_unknown
    <2>2. WholeMessages(q)' /\ net[p][2].code = "payload"
      BY <1>2, <1>4, <1>5, <2>1, ConsumeDataWhole
    <2>3. bug' \in {bug, bug \cup {"ccfifo is full"}, bug \cup {"null stream"}}
      <3>1. CASE on_data_message(p)
        BY <2>2, <3>1 DEF on_data_message
      <3>2. CASE on_data_message_unknown(p)
        BY <3>2 DEF on_data_message_unknown
      <3>3. QED
        BY <1>6, <3>1, <3>2
    <2>4. QED
      BY <2>2, <2>3
  <1>7. CASE on_create_stream_request(p) \/ on_create_stream_responce(p) \/ on_close_stream_notify(p) \/ on_data_ack(p)
    <2>1. /\ UNCHANGED <<link, sock>> /\ Consume(p)
          /\ \E code \in {"request", "response", "close", "ack"} : Received(p, code)
      BY <1>7 DEF on_create_stream_request, on_create_stream_responce, on_close_stream_notify, on_data_ack, chanVars
    <2>2. WholeMessages(q)'
      BY <1>2, <1>4, <2>1, ConsumeWhole
    <2>3. bug' \in {bug, bug \cup {"Invalid stream state"}}
      BY <1>7 DEF on_create_stream_request, on_create_stream_responce, on_close_stream_notify, on_data_ack
    <2>4. QED
      BY <2>2, <2>3
  <1>8. CASE ~(on_data_message(p) \/ on_data_message_unknown(p) \/ on_create_stream_request(p)
               \/ on_create_stream_responce(p) \/ on_close_stream_notify(p) \/ on_data_ack(p))
    <2>1. UNCHANGED net
      BY <1>3, <1>8 DEF ChannelStep, AppStep, start_service_method_thread,
         on_create_stream_request_reply, on_create_stream_request_done, recv_fails,
         corpc_channel_thread_end, corpc_open_stream, corpc_channel_close, corpc_stream_write, corpc_stream_read,
         corpc_close_stream
    <2>2. Severed(q) => Severed(q)'
      BY <1>5, SeveredStays
    <2>3. WholeMessages(q)'
      BY <1>4, <2>1, <2>2 DEF WholeMessages
    <2>4. bug' \in {bug, bug \cup {}, bug \cup {"use after free"}}
      BY <1>3, <1>8 DEF ChannelStep, AppStep, start_service_method_thread,
         on_create_stream_request_reply, on_create_stream_request_done, recv_fails, UseAfterFree,
         corpc_channel_thread_end, corpc_open_stream, corpc_channel_close, corpc_stream_write, corpc_stream_read,
         corpc_close_stream
    <2>5. QED
      BY <2>3, <2>4
  <1>9. QED
    BY <1>6, <1>7, <1>8

LEMMA WholeNext ==
  ASSUME TypeInv, LockInv, FreshInv, ChannelInv, WholeInv, [Next]_vars
  PROVE  WholeInv'
  <1>1. CASE UNCHANGED vars
    BY <1>1 DEF vars, WholeInv, WholeMessages, Severed, PeerGone
  <1>2. CASE LinkFails
    <2>1. UNCHANGED <<net, bug>> /\ ~link'
      BY <1>2 DEF LinkFails
    <2>2. \A p \in Peer : Severed(p)'
      BY <2>1 DEF Severed, PeerGone
    <2>3. QED
      BY <2>1, <2>2 DEF WholeInv, WholeMessages
  <1>3. ASSUME NEW p \in Peer, NEW t \in Thread, ThreadStep(p, t) PROVE WholeInv'
    <2>1. WholeMessages(p)'
      BY <1>3, ThreadWhole DEF WholeInv
    <2>2. ASSUME NEW q \in Peer, q # p PROVE WholeMessages(q)'
      <3>1. /\ ThreadTypes /\ net \in [Peer -> Seq(GoodFrames)] /\ Other(q) \in Peer
            /\ Other(p) \in Peer /\ Other(p) # Other(q)
        BY <2>2, TypeParts, PeerFacts DEF Peer, Other
      <3>2. UNCHANGED <<link, sock>>
        BY <1>3 DEF ThreadStep, acquire_write_lock, corpc_proto_send, corpc_proto_send_payload, send_data_done,
           release_write_lock, corpc_open_stream_wait, corpc_open_stream_fail, corpc_stream_read_internal,
           corpc_close_stream_erase, chanVars
      <3>3. net'[Other(q)] = net[Other(q)]
        BY <1>3, <3>1 DEF ThreadStep, acquire_write_lock, corpc_proto_send, corpc_proto_send_payload, send_data_done,
           release_write_lock, corpc_open_stream_wait, corpc_open_stream_fail, corpc_stream_read_internal,
           corpc_close_stream_erase, SendFrame
      <3>4. UNCHANGED pc \/ \E l : Goto(p, t, l)
        BY <1>3 DEF ThreadStep, acquire_write_lock, corpc_proto_send, corpc_proto_send_payload, send_data_done,
           release_write_lock, corpc_open_stream_wait, corpc_open_stream_fail, corpc_stream_read_internal,
           corpc_close_stream_erase, SendFrame, Return, Call, threadVars
      <3>5. pc'[q] = pc[q]
        BY <2>2, <3>1, <3>4 DEF ThreadTypes, Goto
      <3>6. WholeMessages(q)
        BY DEF WholeInv
      <3>7. QED
        BY <3>2, <3>3, <3>5, <3>6 DEF WholeMessages, Severed, PeerGone
    <2>3. "garbled frame" \notin bug'
      BY <1>3 DEF WholeInv, ThreadStep, acquire_write_lock, corpc_proto_send, corpc_proto_send_payload, send_data_done,
         release_write_lock, corpc_open_stream_wait, corpc_open_stream_fail, corpc_stream_read_internal,
         corpc_close_stream_erase
    <2>4. QED
      BY <2>1, <2>2, <2>3 DEF WholeInv
  <1>4. ASSUME NEW p \in Peer, ChannelStep(p) \/ AppStep(p) PROVE WholeInv'
    <2>1. WholeMessages(p)'
      BY <1>4, OwnWhole DEF WholeInv
    <2>2. PICK q \in Peer : q = Other(p)
      BY PeerFacts
    <2>3. p = Other(q) /\ \A r \in Peer : r = p \/ r = q
      BY <2>2 DEF Peer, Other
    <2>4. WholeMessages(q)' /\ ("garbled frame" \in bug' => "garbled frame" \in bug)
      BY <1>4, <2>3, PeerWhole DEF WholeInv
    <2>5. QED
      BY <2>1, <2>3, <2>4 DEF WholeInv
  <1>5. QED
    BY <1>1, <1>2, <1>3, <1>4 DEF Next

LEMMA WholeInit == Init => WholeInv
  <1> SUFFICES ASSUME Init PROVE WholeInv
    OBVIOUS
  <1>1. ASSUME NEW p \in Peer PROVE WholeMessages(p)
    <2>1. net[Other(p)] = << >>
      BY PeerFacts DEF Init
    <2>2. \A t \in Thread : pc[p][t] # "payload"
      BY DEF Init
    <2>3. Len(<< >>) = 0
      OBVIOUS
    <2>4. QED
      BY <2>1, <2>2, <2>3 DEF WholeMessages, Pairs, Half
  <1>2. QED
    BY <1>1 DEF WholeInv, Init

-----------------------------------------------------------------------------
(* Opening a stream, when methods read first and the application leaves    *)
(* the channel open: every request has one answer, which is the first      *)
(* thing the other peer says of the new stream.                            *)

Patient == MethodReadsFirst /\ ~AppMayClose

\* The method of the stream that is being accepted waits for it in corpc_stream_read().
MethodWaits(p) ==
    /\ pc[p][0] \notin {"done", "crashed"} => established(p)
    /\ pc[p][0] \in Serving /\ cur[p].obj # 0 =>
         /\ cur[p].obj \in tbl[p]
         /\ st[p][cur[p].obj].state = "opening" /\ st[p][cur[p].obj].rxq = << >>
         /\ pc[p][cur[p].obj] \in {"none", "read"}
    /\ cur[p].sid \in {0, cur[p].obj}

\* A request for stream s of p: still with its thread, or with the other peer's channel thread.
Asking(p, s) == pc[p][s] \in {"acquire", "send"} /\ op[p][s] = "request"
Told(q, s)   == pc[q][0] \in {"start", "started", "acquire", "send"} /\ cur[q].did = s

\* What a sequence of frames says of stream s, as its sender's or its receiver's stream.
Requested(f, s)  == \E i \in 1..Len(f) : f[i].code = "request" /\ f[i].sid = s
Answered(f, s)   == \E i \in 1..Len(f) : f[i].code = "response" /\ f[i].did = s
NoSid(f, s)      == \A i \in 1..Len(f) : f[i].sid # s
NoDid(f, s)      == \A i \in 1..Len(f) : f[i].did # s
NoAnswerOf(f, s) == \A i \in 1..Len(f) : f[i].code = "response" => f[i].sid # s

\* Nothing is said of a stream before its request, and nothing to it before the answer.
RequestFirst(f) ==
    \A i, j \in 1..Len(f) : i < j /\ f[j].code = "request" /\ f[j].sid # 0 => f[i].sid # f[j].sid
AnswerFirst(f) ==
    \A i, j \in 1..Len(f) : i < j /\ f[j].code = "response" /\ f[j].did # 0 => f[i].did # f[j].did

Unanswered(p, s) == Asking(p, s) \/ Requested(net[Other(p)], s) \/ Told(Other(p), s)
Pending(p, s)    == Unanswered(p, s) \/ Answered(net[p], s)

\* Every sid of p that is in use somewhere has been handed out by gensid().
HandedOut(p) ==
    /\ \A i \in 1..Len(net[Other(p)]) : net[Other(p)][i].sid <= gsid[p]
    /\ \A i \in 1..Len(net[p]) : net[p][i].did <= gsid[p]
    /\ \A r \in Sid : st[Other(p)][r].did <= gsid[p]
    /\ cur[Other(p)].did <= gsid[p] /\ cur[p].obj <= gsid[p]

\* One stream p has asked for.
AnswerOnce(p, s) ==
    /\ Asking(p, s) => NoSid(net[Other(p)], s)
    /\ Asking(p, s) \/ Requested(net[Other(p)], s) =>
         cur[Other(p)].did # s /\ \A r \in Sid : st[Other(p)][r].did # s
    /\ Told(Other(p), s) => \A r \in Sid : st[Other(p)][r].did = s => r = cur[Other(p)].obj
    /\ Unanswered(p, s) => NoDid(net[p], s) /\ NoAnswerOf(net[Other(p)], s)
    /\ Pending(p, s) => cur[p].obj # s /\ (s \in tbl[p] => st[p][s].state = "opening")

OneAnswer(p) ==
    /\ RequestFirst(net[Other(p)]) /\ AnswerFirst(net[p])
    /\ \A s \in Sid : AnswerOnce(p, s)

OpenInv == Patient => (\A p \in Peer : MethodWaits(p) /\ HandedOut(p) /\ OneAnswer(p)) /\ StreamSurvivesOpen

\* g is what is left of f once its first k frames are taken.
Dropped(f, g, k) == /\ Len(f) \in Nat /\ Len(g) \in Nat /\ k \in Nat /\ Len(f) = Len(g) + k
                    /\ \A i \in 1..Len(g) : g[i] = f[i + k]

LEMMA DropFacts ==
  ASSUME NEW f, NEW g, NEW k, Dropped(f, g, k)
  PROVE  /\ \A s : /\ Requested(g, s) => Requested(f, s)
                   /\ Answered(g, s) => Answered(f, s)
                   /\ NoSid(f, s) => NoSid(g, s)
                   /\ NoDid(f, s) => NoDid(g, s)
                   /\ NoAnswerOf(f, s) => NoAnswerOf(g, s)
         /\ RequestFirst(f) => RequestFirst(g)
         /\ AnswerFirst(f) => AnswerFirst(g)
  <1>1. \A i \in 1..Len(g) : i + k \in 1..Len(f) /\ g[i] = f[i + k]
    BY DEF Dropped
  <1>2. ASSUME NEW s PROVE Requested(g, s) => Requested(f, s)
    BY <1>1 DEF Requested
  <1>3. ASSUME NEW s PROVE Answered(g, s) => Answered(f, s)
    BY <1>1 DEF Answered
  <1>4. ASSUME NEW s PROVE NoSid(f, s) => NoSid(g, s)
    BY <1>1 DEF NoSid
  <1>5. ASSUME NEW s PROVE NoDid(f, s) => NoDid(g, s)
    BY <1>1 DEF NoDid
  <1>6. ASSUME NEW s PROVE NoAnswerOf(f, s) => NoAnswerOf(g, s)
    BY <1>1 DEF NoAnswerOf
  <1>7. \A i, j \in 1..Len(g) : i < j => i + k < j + k
    BY DEF Dropped
  <1>8. RequestFirst(f) => RequestFirst(g)
    <2> SUFFICES ASSUME RequestFirst(f), NEW i \in 1..Len(g), NEW j \in 1..Len(g), i < j,
                        g[j].code = "request", g[j].sid # 0
                 PROVE  g[i].sid # g[j].sid
      BY DEF RequestFirst
    <2>1. PICK a \in 1..Len(f), b \in 1..Len(f) : a < b /\ g[i] = f[a] /\ g[j] = f[b]
      BY <1>1, <1>7
    <2>2. QED
      BY <2>1 DEF RequestFirst
  <1>9. AnswerFirst(f) => AnswerFirst(g)
    <2> SUFFICES ASSUME AnswerFirst(f), NEW i \in 1..Len(g), NEW j \in 1..Len(g), i < j,
                        g[j].code = "response", g[j].did # 0
                 PROVE  g[i].did # g[j].did
      BY DEF AnswerFirst
    <2>1. PICK a \in 1..Len(f), b \in 1..Len(f) : a < b /\ g[i] = f[a] /\ g[j] = f[b]
      BY <1>1, <1>7
    <2>2. QED
      BY <2>1 DEF AnswerFirst
  <1>10. QED
    BY <1>2, <1>3, <1>4, <1>5, <1>6, <1>8, <1>9

\* The first frame is gone: what it was about is not requested, or answered, further on.
LEMMA HeadFacts ==
  ASSUME NEW f, NEW g, NEW k, Dropped(f, g, k), k > 0
  PROVE  /\ 1 \in 1..Len(f)
         /\ \A s : /\ Requested(g, s) /\ RequestFirst(f) /\ s # 0 => f[1].sid # s
                   /\ Answered(g, s) /\ AnswerFirst(f) /\ s # 0 => f[1].did # s
  <1>1. 1 \in 1..Len(f) /\ \A i \in 1..Len(g) : i + k \in 1..Len(f) /\ 1 < i + k /\ g[i] = f[i + k]
    BY DEF Dropped
  <1>2. ASSUME NEW s, Requested(g, s), RequestFirst(f), s # 0 PROVE f[1].sid # s
    BY <1>1, <1>2 DEF Requested, RequestFirst
  <1>3. ASSUME NEW s, Answered(g, s), AnswerFirst(f), s # 0 PROVE f[1].did # s
    BY <1>1, <1>3 DEF Answered, AnswerFirst
  <1>4. QED
    BY <1>1, <1>2, <1>3

\* One more frame.
LEMMA AppendFacts ==
  ASSUME NEW S, NEW f \in Seq(S), NEW x \in S
  PROVE  /\ \A s : /\ Requested(Append(f, x), s) <=> Requested(f, s) \/ (x.code = "request" /\ x.sid = s)
                   /\ Answered(Append(f, x), s) <=> Answered(f, s) \/ (x.code = "response" /\ x.did = s)
                   /\ NoSid(Append(f, x), s) <=> NoSid(f, s) /\ x.sid # s
                   /\ NoDid(Append(f, x), s) <=> NoDid(f, s) /\ x.did # s
                   /\ NoAnswerOf(Append(f, x), s) <=> NoAnswerOf(f, s) /\ (x.code = "response" => x.sid # s)
         /\ RequestFirst(f) /\ (x.code = "request" /\ x.sid # 0 => NoSid(f, x.sid)) => RequestFirst(Append(f, x))
         /\ AnswerFirst(f) /\ (x.code = "response" /\ x.did # 0 => NoDid(f, x.did)) => AnswerFirst(Append(f, x))
  <1>1. PICK g : g = Append(f, x)
    OBVIOUS
  <1>2. /\ Len(g) = Len(f) + 1 /\ Len(f) \in Nat /\ g[Len(f) + 1] = x
        /\ \A i \in 1..Len(f) : g[i] = f[i]
    BY <1>1, AppendProperties, LenProperties
  <1>3. \A i : i \in 1..Len(g) <=> i \in 1..Len(f) \/ i = Len(f) + 1
    BY <1>2
  <1>4. ASSUME NEW s PROVE Requested(g, s) <=> Requested(f, s) \/ (x.code = "request" /\ x.sid = s)
    BY <1>2, <1>3 DEF Requested
  <1>5. ASSUME NEW s PROVE Answered(g, s) <=> Answered(f, s) \/ (x.code = "response" /\ x.did = s)
    BY <1>2, <1>3 DEF Answered
  <1>6. ASSUME NEW s PROVE NoSid(g, s) <=> NoSid(f, s) /\ x.sid # s
    BY <1>2, <1>3 DEF NoSid
  <1>7. ASSUME NEW s PROVE NoDid(g, s) <=> NoDid(f, s) /\ x.did # s
    BY <1>2, <1>3 DEF NoDid
  <1>8. ASSUME NEW s PROVE NoAnswerOf(g, s) <=> NoAnswerOf(f, s) /\ (x.code = "response" => x.sid # s)
    BY <1>2, <1>3 DEF NoAnswerOf
  <1>9. \A i, j \in 1..Len(g) : i < j => i \in 1..Len(f)
    BY <1>2
  <1>10. ASSUME RequestFirst(f), x.code = "request" /\ x.sid # 0 => NoSid(f, x.sid) PROVE RequestFirst(g)
    BY <1>2, <1>3, <1>9, <1>10 DEF RequestFirst, NoSid
  <1>11. ASSUME AnswerFirst(f), x.code = "response" /\ x.did # 0 => NoDid(f, x.did) PROVE AnswerFirst(g)
    BY <1>2, <1>3, <1>9, <1>11 DEF AnswerFirst, NoDid
  <1>12. QED
    BY <1>1, <1>4, <1>5, <1>6, <1>7, <1>8, <1>10, <1>11

LEMMA FrameFields ==
  ASSUME NEW f \in Seq(GoodFrames)
  PROVE  \A i \in 1..Len(f) : f[i] \in GoodFrames /\ f[i].sid \in Thread /\ f[i].did \in Thread
  <1>1. \A i \in 1..Len(f) : f[i] \in GoodFrames
    BY ElementOfSeq
  <1>2. QED
    BY <1>1 DEF GoodFrames, Frames

\* gensid() only adds sids.
LEMMA HandsOut ==
  ASSUME TypeInv, NEW p \in Peer, HandedOut(p), SamePeer(Other(p)), net'[Other(p)] = net[Other(p)],
         NEW k, Dropped(net[p], net'[p], k), gsid'[p] \in Nat, gsid'[p] >= gsid[p], cur'[p].obj <= gsid'[p]
  PROVE  HandedOut(p)'
  <1>1. \A n \in Thread : n <= gsid[p] => n <= gsid'[p]
    BY TypeParts, ThreadFacts DEF StreamTypes
  <1>2. \A i \in 1..Len(net'[p]) : net'[p][i].did <= gsid'[p]
    <2>1. \A i \in 1..Len(net'[p]) : i + k \in 1..Len(net[p]) /\ net'[p][i] = net[p][i + k]
      BY DEF Dropped
    <2>2. \A i \in 1..Len(net[p]) : net[p][i].did \in Thread
      BY TypeParts, FrameFields
    <2>3. QED
      BY <1>1, <2>1, <2>2 DEF HandedOut
  <1>3. \A i \in 1..Len(net'[Other(p)]) : net'[Other(p)][i].sid <= gsid'[p]
    <2>1. \A i \in 1..Len(net[Other(p)]) : net[Other(p)][i].sid \in Thread
      BY PeerFacts, TypeParts, FrameFields
    <2>2. QED
      BY <1>1, <2>1 DEF HandedOut
  <1>4. \A r \in Sid : st'[Other(p)][r].did <= gsid'[p]
    <2>1. \A r \in Sid : st[Other(p)][r].did \in Thread
      BY PeerFacts, ThreadFacts, TypeParts DEF StreamTypes, Streams
    <2>2. QED
      BY <1>1, <2>1 DEF HandedOut, SamePeer
  <1>5. cur'[Other(p)].did <= gsid'[p]
    <2>1. cur[Other(p)].did \in Thread
      BY PeerFacts, TypeParts DEF CurTypes
    <2>2. QED
      BY <1>1, <2>1 DEF HandedOut, SamePeer
  <1>6. QED
    BY <1>2, <1>3, <1>4, <1>5 DEF HandedOut

LEMMA NothingDropped ==
  ASSUME NEW f \in Seq(GoodFrames)
  PROVE  Dropped(f, f, 0)
  BY LenProperties DEF Dropped

\* What a step of the peer that asks does to its requests: nothing is sent or opened.
LEMMA AskerQuiet ==
  ASSUME TypeInv, NEW p \in Peer, HandedOut(p), OneAnswer(p), SamePeer(Other(p)),
         net'[Other(p)] = net[Other(p)], NEW k, Dropped(net[p], net'[p], k),
         gsid'[p] = gsid[p], cur'[p].obj \in {0, cur[p].obj},
         \A s \in Sid : Asking(p, s)' => Asking(p, s),
         \A s \in Sid : cur[p].obj # s /\ (k > 0 => net[p][1].did # s) /\ s \in tbl'[p]
                           => s \in tbl[p] /\ st'[p][s].state = st[p][s].state
  PROVE  HandedOut(p)' /\ OneAnswer(p)'
  <1>1. gsid[p] \in Nat /\ 0 \notin Sid
    BY TypeParts, ThreadFacts DEF StreamTypes
  <1>2. HandedOut(p)'
    <2>1. cur'[p].obj <= gsid'[p]
      BY <1>1 DEF HandedOut
    <2>2. QED
      BY <1>1, <2>1, HandsOut
  <1>3. \A s : Told(Other(p), s)' <=> Told(Other(p), s)
    BY DEF Told, SamePeer
  <1>4. ASSUME NEW s \in Sid PROVE AnswerOnce(p, s)'
    <2>1. AnswerOnce(p, s) /\ (Asking(p, s)' => Asking(p, s)) /\ s # 0
      BY <1>1 DEF OneAnswer
    <2>2. (Answered(net'[p], s) => Answered(net[p], s)) /\ (NoDid(net[p], s) => NoDid(net'[p], s))
      BY DropFacts
    <2>3. (Unanswered(p, s)' => Unanswered(p, s)) /\ (Pending(p, s)' => Pending(p, s))
      BY <1>3, <2>1, <2>2 DEF Unanswered, Pending
    <2>4. Pending(p, s)' /\ k > 0 => net[p][1].did # s
      <3> SUFFICES ASSUME Pending(p, s)', k > 0 PROVE net[p][1].did # s
        OBVIOUS
      <3>1. 1 \in 1..Len(net[p])
        BY HeadFacts
      <3>2. CASE Unanswered(p, s)'
        BY <2>1, <2>3, <3>1, <3>2 DEF AnswerOnce, NoDid
      <3>3. CASE Answered(net'[p], s)
        BY <2>1, <3>3, HeadFacts DEF OneAnswer
      <3>4. QED
        BY <3>2, <3>3 DEF Pending
    <2>5. Pending(p, s)' => cur'[p].obj # s /\ (s \in tbl'[p] => st'[p][s].state = "opening")
      BY <2>1, <2>3, <2>4 DEF AnswerOnce
    <2>6. QED
      BY <1>3, <2>1, <2>2, <2>3, <2>5 DEF AnswerOnce, SamePeer
  <1>5. AnswerFirst(net'[p])
    BY DropFacts DEF OneAnswer
  <1>6. QED
    BY <1>2, <1>4, <1>5 DEF OneAnswer

\* ... it sends a frame.
LEMMA AskerSends ==
  ASSUME TypeInv, NEW p \in Peer, HandedOut(p), OneAnswer(p), SamePeer(Other(p)),
         NEW f \in GoodFrames, net'[Other(p)] = Append(net[Other(p)], f), net'[p] = net[p],
         gsid'[p] = gsid[p], cur'[p] = cur[p], tbl'[p] = tbl[p], st'[p] = st[p],
         \A s \in Sid : Asking(p, s)' => Asking(p, s),
         f.sid <= gsid[p],
         f.code = "request" => f.sid \in Sid /\ Asking(p, f.sid) /\ ~Asking(p, f.sid)',
         f.code = "response" => f.sid \in {0, cur[p].obj},
         f.code \notin {"request", "response"} => f.sid = 0 \/ ~Asking(p, f.sid)
  PROVE  HandedOut(p)' /\ OneAnswer(p)'
  <1>1. /\ gsid[p] \in Nat /\ 0 \notin Sid /\ net[Other(p)] \in Seq(GoodFrames)
    BY TypeParts, ThreadFacts, PeerFacts DEF StreamTypes
  <1>2. HandedOut(p)'
    <2>1. /\ Len(net'[Other(p)]) = Len(net[Other(p)]) + 1 /\ Len(net[Other(p)]) \in Nat
          /\ net'[Other(p)][Len(net[Other(p)]) + 1] = f
          /\ \A i \in 1..Len(net[Other(p)]) : net'[Other(p)][i] = net[Other(p)][i]
      BY <1>1, AppendProperties, LenProperties
    <2>2. \A i \in 1..Len(net'[Other(p)]) : i \in 1..Len(net[Other(p)]) \/ i = Len(net[Other(p)]) + 1
      BY <2>1
    <2>3. \A i \in 1..Len(net'[Other(p)]) : net'[Other(p)][i].sid <= gsid'[p]
      BY <2>1, <2>2 DEF HandedOut
    <2>4. QED
      BY <2>3 DEF HandedOut, SamePeer
  <1>3. \A s : Told(Other(p), s)' <=> Told(Other(p), s)
    BY DEF Told, SamePeer
  <1>4. ASSUME NEW s \in Sid PROVE AnswerOnce(p, s)'
    <2>1. AnswerOnce(p, s) /\ (Asking(p, s)' => Asking(p, s)) /\ s # 0
      BY <1>1 DEF OneAnswer
    <2>2. /\ Requested(net'[Other(p)], s) <=> Requested(net[Other(p)], s) \/ (f.code = "request" /\ f.sid = s)
          /\ NoSid(net'[Other(p)], s) <=> NoSid(net[Other(p)], s) /\ f.sid # s
          /\ NoAnswerOf(net'[Other(p)], s) <=> NoAnswerOf(net[Other(p)], s) /\ (f.code = "response" => f.sid # s)
      BY <1>1, AppendFacts
    <2>3. Asking(p, s)' \/ Requested(net'[Other(p)], s) => Asking(p, s) \/ Requested(net[Other(p)], s)
      BY <2>1, <2>2
    <2>4. (Unanswered(p, s)' => Unanswered(p, s)) /\ (Pending(p, s)' => Pending(p, s))
      BY <1>3, <2>3 DEF Unanswered, Pending
    <2>5. f.code = "response" /\ Pending(p, s) => f.sid # s
      BY <2>1 DEF AnswerOnce
    <2>6. Asking(p, s)' => f.sid # s
      BY <2>1, <2>5 DEF Pending, Unanswered
    <2>7. Unanswered(p, s)' => NoAnswerOf(net'[Other(p)], s)
      BY <2>1, <2>2, <2>4, <2>5 DEF AnswerOnce, Pending
    <2>8. QED
      BY <1>3, <2>1, <2>2, <2>3, <2>4, <2>6, <2>7 DEF AnswerOnce, SamePeer
  <1>5. RequestFirst(net'[Other(p)])
    <2>1. f.code = "request" => NoSid(net[Other(p)], f.sid)
      BY DEF OneAnswer, AnswerOnce
    <2>2. QED
      BY <1>1, <2>1, AppendFacts DEF OneAnswer
  <1>6. QED
    BY <1>2, <1>4, <1>5 DEF OneAnswer

\* A sid that gensid() has not handed out yet is asked for by nobody.
LEMMA NewIsFree ==
  ASSUME TypeInv, NEW p \in Peer, HandedOut(p), NEW s \in Sid, s > gsid[p]
  PROVE  /\ ~Requested(net[Other(p)], s) /\ ~Told(Other(p), s) /\ ~Answered(net[p], s)
         /\ NoSid(net[Other(p)], s) /\ NoDid(net[p], s) /\ NoAnswerOf(net[Other(p)], s)
         /\ cur[Other(p)].did # s /\ cur[p].obj # s
         /\ \A r \in Sid : st[Other(p)][r].did # s
  <1>1. gsid[p] \in Nat /\ s \in Nat
    BY TypeParts, ThreadFacts DEF StreamTypes
  <1>2. \A n : n <= gsid[p] => n # s
    BY <1>1
  <1>3. NoSid(net[Other(p)], s) /\ NoDid(net[p], s)
    BY <1>2 DEF HandedOut, NoSid, NoDid
  <1>4. QED
    BY <1>2, <1>3 DEF HandedOut, NoSid, NoDid, NoAnswerOf, Requested, Answered, Told

\* ... it accepts a stream of the other peer.
LEMMA AskerAccepts ==
  ASSUME TypeInv, NEW p \in Peer, HandedOut(p), OneAnswer(p), SamePeer(Other(p)), gsid[p] < MaxSid,
         net'[Other(p)] = net[Other(p)], NEW k, Dropped(net[p], net'[p], k),
         gsid'[p] = gsid[p] + 1, cur'[p].obj = gsid[p] + 1, tbl'[p] = tbl[p] \cup {gsid[p] + 1},
         \A s \in Sid : s # gsid[p] + 1 => st'[p][s] = st[p][s],
         \A s \in Sid : Asking(p, s)' => Asking(p, s), ~Asking(p, gsid[p] + 1)
  PROVE  HandedOut(p)' /\ OneAnswer(p)'
  <1>1. gsid[p] \in Nat /\ 0 \notin Sid /\ gsid[p] + 1 \in Sid /\ gsid[p] + 1 > gsid[p]
    BY TypeParts, ThreadFacts, NewSid DEF StreamTypes
  <1>2. HandedOut(p)'
    BY <1>1, HandsOut
  <1>3. \A s : Told(Other(p), s)' <=> Told(Other(p), s)
    BY DEF Told, SamePeer
  <1>4. ASSUME NEW s \in Sid PROVE AnswerOnce(p, s)'
    <2>1. AnswerOnce(p, s) /\ (Asking(p, s)' => Asking(p, s)) /\ s # 0
      BY <1>1 DEF OneAnswer
    <2>2. (Answered(net'[p], s) => Answered(net[p], s)) /\ (NoDid(net[p], s) => NoDid(net'[p], s))
      BY DropFacts
    <2>3. (Unanswered(p, s)' => Unanswered(p, s)) /\ (Pending(p, s)' => Pending(p, s))
      BY <1>3, <2>1, <2>2 DEF Unanswered, Pending
    <2>4. Pending(p, s)' => s # gsid[p] + 1
      BY <1>1, <2>3, NewIsFree DEF Pending, Unanswered
    <2>5. Pending(p, s)' => cur'[p].obj # s /\ (s \in tbl'[p] => st'[p][s].state = "opening")
      BY <2>1, <2>3, <2>4 DEF AnswerOnce
    <2>6. QED
      BY <1>3, <2>1, <2>2, <2>3, <2>5 DEF AnswerOnce, SamePeer
  <1>5. AnswerFirst(net'[p])
    BY DropFacts DEF OneAnswer
  <1>6. QED
    BY <1>2, <1>4, <1>5 DEF OneAnswer

\* ... it opens a stream.
LEMMA AskerOpens ==
  ASSUME TypeInv, NEW p \in Peer, HandedOut(p), OneAnswer(p), SamePeer(Other(p)), gsid[p] < MaxSid,
         net' = net, gsid'[p] = gsid[p] + 1, cur' = cur, tbl'[p] = tbl[p] \cup {gsid[p] + 1},
         st'[p][gsid[p] + 1].state = "opening",
         \A s \in Sid : s # gsid[p] + 1 => st'[p][s] = st[p][s] /\ (Asking(p, s)' => Asking(p, s))
  PROVE  HandedOut(p)' /\ OneAnswer(p)'
  <1>1. /\ gsid[p] \in Nat /\ 0 \notin Sid /\ gsid[p] + 1 \in Sid /\ gsid[p] + 1 > gsid[p]
        /\ net[p] \in Seq(GoodFrames) /\ cur[p].obj \in Nat
    BY TypeParts, ThreadFacts, NewSid DEF StreamTypes, CurTypes
  <1>2. HandedOut(p)'
    <2>1. cur'[p].obj <= gsid'[p]
      BY <1>1 DEF HandedOut
    <2>2. QED
      BY <1>1, <2>1, HandsOut, NothingDropped
  <1>3. \A s : Told(Other(p), s)' <=> Told(Other(p), s)
    BY DEF Told, SamePeer
  <1>4. ASSUME NEW s \in Sid PROVE AnswerOnce(p, s)'
    <2>1. CASE s = gsid[p] + 1
      <3>1. /\ ~Requested(net[Other(p)], s) /\ ~Told(Other(p), s) /\ ~Answered(net[p], s)
            /\ NoSid(net[Other(p)], s) /\ NoDid(net[p], s) /\ NoAnswerOf(net[Other(p)], s)
            /\ cur[Other(p)].did # s /\ cur[p].obj # s
            /\ \A r \in Sid : st[Other(p)][r].did # s
        BY <1>1, <2>1, NewIsFree
      <3>2. QED
        BY <1>3, <2>1, <3>1 DEF AnswerOnce, SamePeer
    <2>2. CASE s # gsid[p] + 1
      <3>1. AnswerOnce(p, s) /\ (Asking(p, s)' => Asking(p, s)) /\ st'[p][s] = st[p][s]
        BY <2>2 DEF OneAnswer
      <3>2. (Unanswered(p, s)' => Unanswered(p, s)) /\ (Pending(p, s)' => Pending(p, s))
        BY <1>3, <3>1 DEF Unanswered, Pending
      <3>3. QED
        BY <1>3, <2>2, <3>1, <3>2 DEF AnswerOnce, SamePeer
    <2>3. QED
      BY <2>1, <2>2
  <1>5. QED
    BY <1>2, <1>4 DEF OneAnswer

\* What a step of the peer that answers does to p's requests: nothing is sent or accepted; the
\* peer learns a sid of p only from an answer of p.
LEMMA AnswererQuiet ==
  ASSUME TypeInv, NEW p \in Peer, HandedOut(p), OneAnswer(p), SamePeer(p),
         net'[p] = net[p], NEW k, Dropped(net[Other(p)], net'[Other(p)], k),
         cur'[Other(p)].did = cur[Other(p)].did, cur'[Other(p)].obj = cur[Other(p)].obj,
         \A s \in Sid : Told(Other(p), s)' => Told(Other(p), s),
         \A r \in Sid : \/ st'[Other(p)][r].did \in {0, st[Other(p)][r].did}
                        \/ /\ k > 0 /\ net[Other(p)][1].code = "response"
                           /\ st'[Other(p)][r].did = net[Other(p)][1].sid
  PROVE  HandedOut(p)' /\ OneAnswer(p)'
  <1>1. gsid[p] \in Nat /\ 0 \notin Sid
    BY TypeParts, ThreadFacts DEF StreamTypes
  <1>2. k > 0 => 1 \in 1..Len(net[Other(p)])
    BY DEF Dropped
  <1>3. HandedOut(p)'
    <2>1. \A i \in 1..Len(net'[Other(p)]) : net'[Other(p)][i].sid <= gsid'[p]
      <3>1. \A i \in 1..Len(net'[Other(p)]) :
              i + k \in 1..Len(net[Other(p)]) /\ net'[Other(p)][i] = net[Other(p)][i + k]
        BY DEF Dropped
      <3>2. QED
        BY <3>1 DEF HandedOut, SamePeer
    <2>2. \A r \in Sid : st'[Other(p)][r].did <= gsid'[p]
      BY <1>1, <1>2 DEF HandedOut, SamePeer
    <2>3. QED
      BY <2>1, <2>2 DEF HandedOut, SamePeer
  <1>4. ASSUME NEW s \in Sid PROVE AnswerOnce(p, s)'
    <2>1. AnswerOnce(p, s) /\ (Told(Other(p), s)' => Told(Other(p), s)) /\ (Asking(p, s)' <=> Asking(p, s)) /\ s # 0
      BY <1>1 DEF OneAnswer, Asking, SamePeer
    <2>2. /\ Requested(net'[Other(p)], s) => Requested(net[Other(p)], s)
          /\ NoSid(net[Other(p)], s) => NoSid(net'[Other(p)], s)
          /\ NoAnswerOf(net[Other(p)], s) => NoAnswerOf(net'[Other(p)], s)
      BY DropFacts
    <2>3. (Unanswered(p, s)' => Unanswered(p, s)) /\ (Pending(p, s)' => Pending(p, s))
      BY <2>1, <2>2 DEF Unanswered, Pending
    <2>4. Unanswered(p, s) => \A r \in Sid : st'[Other(p)][r].did = s => st[Other(p)][r].did = s
      <3>1. Unanswered(p, s) /\ k > 0 /\ net[Other(p)][1].code = "response" => net[Other(p)][1].sid # s
        BY <1>2, <2>1 DEF AnswerOnce, NoAnswerOf
      <3>2. QED
        BY <2>1, <3>1
    <2>5. Asking(p, s) \/ Requested(net[Other(p)], s) \/ Told(Other(p), s) <=> Unanswered(p, s)
      BY DEF Unanswered
    <2>6. Asking(p, s)' \/ Requested(net'[Other(p)], s) =>
            cur'[Other(p)].did # s /\ \A r \in Sid : st'[Other(p)][r].did # s
      BY <2>1, <2>2, <2>4, <2>5 DEF AnswerOnce
    <2>7. Told(Other(p), s)' => \A r \in Sid : st'[Other(p)][r].did = s => r = cur'[Other(p)].obj
      BY <2>1, <2>4, <2>5 DEF AnswerOnce
    <2>8. QED
      BY <2>1, <2>2, <2>3, <2>6, <2>7 DEF AnswerOnce, SamePeer
  <1>5. RequestFirst(net'[Other(p)])
    BY DropFacts DEF OneAnswer
  <1>6. QED
    BY <1>3, <1>4, <1>5 DEF OneAnswer

\* ... it takes a request.
LEMMA AnswererTakes ==
  ASSUME TypeInv, NEW p \in Peer, HandedOut(p), OneAnswer(p), SamePeer(p),
         net'[p] = net[p], NEW k, Dropped(net[Other(p)], net'[Other(p)], k), k > 0,
         net[Other(p)][1].code = "request", cur'[Other(p)].did = net[Other(p)][1].sid,
         \A r \in Sid : \/ st'[Other(p)][r].did = st[Other(p)][r].did
                        \/ r = cur'[Other(p)].obj /\ st'[Other(p)][r].did = net[Other(p)][1].sid
  PROVE  HandedOut(p)' /\ OneAnswer(p)'
  <1>1. gsid[p] \in Nat /\ 0 \notin Sid /\ 1 \in 1..Len(net[Other(p)])
    BY TypeParts, ThreadFacts, HeadFacts DEF StreamTypes
  <1>2. HandedOut(p)'
    <2>1. \A i \in 1..Len(net'[Other(p)]) : net'[Other(p)][i].sid <= gsid'[p]
      <3>1. \A i \in 1..Len(net'[Other(p)]) :
              i + k \in 1..Len(net[Other(p)]) /\ net'[Other(p)][i] = net[Other(p)][i + k]
        BY DEF Dropped
      <3>2. QED
        BY <3>1 DEF HandedOut, SamePeer
    <2>2. \A r \in Sid : st'[Other(p)][r].did <= gsid'[p]
      BY <1>1 DEF HandedOut, SamePeer
    <2>3. QED
      BY <1>1, <2>1, <2>2 DEF HandedOut, SamePeer
  <1>3. ASSUME NEW s \in Sid PROVE AnswerOnce(p, s)'
    <2>1. AnswerOnce(p, s) /\ (Asking(p, s)' <=> Asking(p, s)) /\ s # 0
      BY <1>1 DEF OneAnswer, Asking, SamePeer
    <2>2. /\ Requested(net'[Other(p)], s) => Requested(net[Other(p)], s)
          /\ NoSid(net[Other(p)], s) => NoSid(net'[Other(p)], s)
          /\ NoAnswerOf(net[Other(p)], s) => NoAnswerOf(net'[Other(p)], s)
      BY DropFacts
    <2>3. Asking(p, s) \/ Requested(net'[Other(p)], s) => net[Other(p)][1].sid # s
      <3>1. Asking(p, s) => net[Other(p)][1].sid # s
        BY <1>1, <2>1 DEF AnswerOnce, NoSid
      <3>2. Requested(net'[Other(p)], s) => net[Other(p)][1].sid # s
        BY <2>1, HeadFacts DEF OneAnswer
      <3>3. QED
        BY <3>1, <3>2
    <2>4. Told(Other(p), s)' => net[Other(p)][1].sid = s /\ Requested(net[Other(p)], s)
      BY <1>1 DEF Told, Requested
    <2>5. (Unanswered(p, s)' => Unanswered(p, s)) /\ (Pending(p, s)' => Pending(p, s))
      BY <2>1, <2>2, <2>4 DEF Unanswered, Pending
    <2>6. Asking(p, s)' \/ Requested(net'[Other(p)], s) =>
            cur'[Other(p)].did # s /\ \A r \in Sid : st'[Other(p)][r].did # s
      BY <2>1, <2>2, <2>3 DEF AnswerOnce
    <2>7. Told(Other(p), s)' => \A r \in Sid : st'[Other(p)][r].did = s => r = cur'[Other(p)].obj
      BY <2>1, <2>4 DEF AnswerOnce
    <2>8. QED
      BY <2>1, <2>2, <2>5, <2>6, <2>7 DEF AnswerOnce, SamePeer
  <1>4. RequestFirst(net'[Other(p)])
    BY DropFacts DEF OneAnswer
  <1>5. QED
    BY <1>2, <1>3, <1>4 DEF OneAnswer

\* ... it sends a frame: an answer, or on behalf of a stream other than the one being accepted.
LEMMA AnswererSends ==
  ASSUME TypeInv, NEW p \in Peer, HandedOut(p), OneAnswer(p), SamePeer(p),
         NEW f \in GoodFrames, net'[p] = Append(net[p], f), net'[Other(p)] = net[Other(p)],
         cur'[Other(p)] = cur[Other(p)], st'[Other(p)] = st[Other(p)],
         \A s \in Sid : Told(Other(p), s)' => Told(Other(p), s),
         f.code = "response" => /\ f.did = cur[Other(p)].did /\ Told(Other(p), f.did)
                                /\ \A s \in Sid : ~Told(Other(p), s)',
         f.code # "response" => \/ f.did = 0
                                \/ \E r \in Sid : /\ f.did = st[Other(p)][r].did
                                                  /\ Told(Other(p), f.did) => r # cur[Other(p)].obj
  PROVE  HandedOut(p)' /\ OneAnswer(p)'
  <1>1. /\ gsid[p] \in Nat /\ 0 \notin Sid /\ net[p] \in Seq(GoodFrames)
        /\ \A t \in Thread : t # 0 => t \in Sid
    BY TypeParts, ThreadFacts DEF StreamTypes
  <1>2. HandedOut(p)'
    <2>1. /\ Len(net'[p]) = Len(net[p]) + 1 /\ Len(net[p]) \in Nat /\ net'[p][Len(net[p]) + 1] = f
          /\ \A i \in 1..Len(net[p]) : net'[p][i] = net[p][i]
      BY <1>1, AppendProperties, LenProperties
    <2>2. \A i \in 1..Len(net'[p]) : i \in 1..Len(net[p]) \/ i = Len(net[p]) + 1
      BY <2>1
    <2>3. f.did <= gsid[p]
      BY <1>1 DEF HandedOut
    <2>4. \A i \in 1..Len(net'[p]) : net'[p][i].did <= gsid[p]
      BY <2>1, <2>2, <2>3 DEF HandedOut
    <2>5. QED
      BY <2>4 DEF HandedOut, SamePeer
  <1>3. ASSUME NEW s \in Sid PROVE AnswerOnce(p, s)'
    <2>1. AnswerOnce(p, s) /\ (Asking(p, s)' <=> Asking(p, s)) /\ (Told(Other(p), s)' => Told(Other(p), s)) /\ s # 0
      BY <1>1 DEF OneAnswer, Asking, SamePeer
    <2>2. /\ Answered(net'[p], s) <=> Answered(net[p], s) \/ (f.code = "response" /\ f.did = s)
          /\ NoDid(net'[p], s) <=> NoDid(net[p], s) /\ f.did # s
      BY <1>1, AppendFacts
    <2>3. (Unanswered(p, s)' => Unanswered(p, s)) /\ (Pending(p, s)' => Pending(p, s))
      BY <2>1, <2>2 DEF Unanswered, Pending
    <2>4. Unanswered(p, s)' => f.did # s
      <3> SUFFICES ASSUME Unanswered(p, s)' PROVE f.did # s
        OBVIOUS
      <3>1. Asking(p, s) \/ Requested(net[Other(p)], s) \/ Told(Other(p), s)'
        BY <2>1 DEF Unanswered
      <3>2. CASE f.code = "response"
        BY <2>1, <3>1, <3>2 DEF AnswerOnce
      <3>3. CASE f.code # "response"
        BY <2>1, <3>1, <3>3 DEF AnswerOnce
      <3>4. QED
        BY <3>2, <3>3
    <2>5. QED
      BY <2>1, <2>2, <2>3, <2>4 DEF AnswerOnce, SamePeer
  <1>4. AnswerFirst(net'[p])
    <2>1. f.did \in Thread
      BY DEF GoodFrames, Frames
    <2>2. f.code = "response" /\ f.did # 0 => NoDid(net[p], f.did)
      BY <1>1, <2>1 DEF OneAnswer, AnswerOnce, Unanswered
    <2>3. QED
      BY <1>1, <2>2, AppendFacts DEF OneAnswer
  <1>5. QED
    BY <1>2, <1>3, <1>4 DEF OneAnswer

-----------------------------------------------------------------------------

\* A step of p that neither sends nor opens nor takes a request: k frames are taken, and only the
\* stream the first of them is for, or the one being accepted, changes its state.
QuietStep(p) ==
    \E k \in Nat :
      /\ Dropped(net[p], net'[p], k) /\ net'[Other(p)] = net[Other(p)] /\ gsid'[p] = gsid[p]
      /\ cur'[p].obj = cur[p].obj /\ cur'[p].did = cur[p].did
      /\ \A s \in Sid : (Asking(p, s)' => Asking(p, s)) /\ (Told(p, s)' => Told(p, s))
      /\ \A s \in Sid : cur[p].obj # s /\ (k > 0 => net[p][1].did # s) /\ s \in tbl'[p]
                          => s \in tbl[p] /\ st'[p][s].state = st[p][s].state
      /\ \A r \in Sid : \/ st'[p][r].did \in {0, st[p][r].did}
                        \/ k > 0 /\ net[p][1].code = "response" /\ st'[p][r].did = net[p][1].sid

\* What both peers know of each other's requests.
Exchange == \A p \in Peer : HandedOut(p) /\ OneAnswer(p)

LEMMA QuietOpen ==
  ASSUME TypeInv, Exchange, NEW p \in Peer, QuietStep(p), SamePeer(Other(p))
  PROVE  Exchange'
  <1>1. PICK k \in Nat :
          /\ Dropped(net[p], net'[p], k) /\ net'[Other(p)] = net[Other(p)] /\ gsid'[p] = gsid[p]
          /\ cur'[p].obj = cur[p].obj /\ cur'[p].did = cur[p].did
          /\ \A s \in Sid : (Asking(p, s)' => Asking(p, s)) /\ (Told(p, s)' => Told(p, s))
          /\ \A s \in Sid : cur[p].obj # s /\ (k > 0 => net[p][1].did # s) /\ s \in tbl'[p]
                              => s \in tbl[p] /\ st'[p][s].state = st[p][s].state
          /\ \A r \in Sid : \/ st'[p][r].did \in {0, st[p][r].did}
                            \/ k > 0 /\ net[p][1].code = "response" /\ st'[p][r].did = net[p][1].sid
    BY DEF QuietStep
  <1>2. HandedOut(p)' /\ OneAnswer(p)'
    BY <1>1, AskerQuiet DEF Exchange
  <1>3. PICK q \in Peer : q = Other(p)
    BY PeerFacts
  <1>4. Other(q) = p /\ \A r \in Peer : r = p \/ r = q
    BY <1>3 DEF Peer, Other
  <1>5. HandedOut(q)' /\ OneAnswer(q)'
    <2>1. HandedOut(q) /\ OneAnswer(q) /\ SamePeer(q) /\ net'[q] = net[q]
      BY <1>1, <1>3 DEF Exchange
    <2>2. /\ Dropped(net[Other(q)], net'[Other(q)], k)
          /\ cur'[Other(q)].did = cur[Other(q)].did /\ cur'[Other(q)].obj = cur[Other(q)].obj
          /\ \A s \in Sid : Told(Other(q), s)' => Told(Other(q), s)
          /\ \A r \in Sid : \/ st'[Other(q)][r].did \in {0, st[Other(q)][r].did}
                            \/ /\ k > 0 /\ net[Other(q)][1].code = "response"
                               /\ st'[Other(q)][r].did = net[Other(q)][1].sid
      BY <1>1, <1>4
    <2>3. QED
      BY <2>1, <2>2, AnswererQuiet
  <1>6. QED
    BY <1>2, <1>4, <1>5 DEF Exchange

\* One field of one stream changes, and not its peer.
LEMMA StreamChange ==
  ASSUME StreamTypes, NEW p \in Peer, NEW s \in Thread, NEW x,
         \/ st' = [st EXCEPT ![p][s].state = x]
         \/ st' = [st EXCEPT ![p][s].rwnd = x]
         \/ st' = [st EXCEPT ![p][s].rxq = x]
  PROVE  \A r \in Thread : st'[p][r].did = st[p][r].did /\ (r # s => st'[p][r] = st[p][r])
  <1>1. PICK y : st' = [st EXCEPT ![p][s] = y] /\ y.did = st[p][s].did
    <2>1. st[p][s] \in Streams
      BY DEF StreamTypes
    <2>2. CASE st' = [st EXCEPT ![p][s].state = x]
      <3>1. st' = [st EXCEPT ![p][s] = [st[p][s] EXCEPT !.state = x]]
        BY <2>2
      <3>2. [st[p][s] EXCEPT !.state = x].did = st[p][s].did
        BY <2>1 DEF Streams
      <3>3. QED
        BY <3>1, <3>2
    <2>3. CASE st' = [st EXCEPT ![p][s].rwnd = x]
      <3>1. st' = [st EXCEPT ![p][s] = [st[p][s] EXCEPT !.rwnd = x]]
        BY <2>3
      <3>2. [st[p][s] EXCEPT !.rwnd = x].did = st[p][s].did
        BY <2>1 DEF Streams
      <3>3. QED
        BY <3>1, <3>2
    <2>4. CASE st' = [st EXCEPT ![p][s].rxq = x]
      <3>1. st' = [st EXCEPT ![p][s] = [st[p][s] EXCEPT !.rxq = x]]
        BY <2>4
      <3>2. [st[p][s] EXCEPT !.rxq = x].did = st[p][s].did
        BY <2>1 DEF Streams
      <3>3. QED
        BY <3>1, <3>2
    <2>5. QED
      BY <2>2, <2>3, <2>4
  <1>2. st'[p][s] = y /\ \A r \in Thread : r # s => st'[p][r] = st[p][r]
    BY <1>1 DEF StreamTypes
  <1>3. QED
    BY <1>1, <1>2

\* The frames a handler takes.
LEMMA Taken ==
  ASSUME TypeInv, NEW p \in Peer
  PROVE  /\ Dropped(net[p], net[p], 0)
         /\ \A code : Received(p, code) /\ Consume(p) =>
              /\ Dropped(net[p], net'[p], 1) /\ Head(net[p]) = net[p][1] /\ net[p][1].code = code
              /\ net'[Other(p)] = net[Other(p)]
         /\ DataReceived(p) /\ ConsumeData(p) =>
              Dropped(net[p], net'[p], 2) /\ Head(net[p]) = net[p][1] /\ net'[Other(p)] = net[Other(p)]
  <1>1. net \in [Peer -> Seq(GoodFrames)] /\ Other(p) \in Peer /\ Other(p) # p
    BY TypeParts, PeerFacts
  <1>2. ASSUME net[p] # << >>
        PROVE  Dropped(net[p], Tail(net[p]), 1) /\ Head(net[p]) = net[p][1]
    <2>1. /\ Len(Tail(net[p])) = Len(net[p]) - 1 /\ Len(net[p]) \in Nat /\ Len(net[p]) > 0 /\ Head(net[p]) = net[p][1]
          /\ \A i \in 1..(Len(net[p]) - 1) : Tail(net[p])[i] = net[p][i + 1]
      BY <1>1, <1>2, TailFacts
    <2>2. QED
      BY <2>1 DEF Dropped
  <1>3. ASSUME NEW code, Received(p, code), Consume(p)
        PROVE  /\ Dropped(net[p], net'[p], 1) /\ Head(net[p]) = net[p][1] /\ net[p][1].code = code
               /\ net'[Other(p)] = net[Other(p)]
    BY <1>1, <1>2, <1>3 DEF Received, Consume
  <1>4. ASSUME DataReceived(p), ConsumeData(p)
        PROVE  Dropped(net[p], net'[p], 2) /\ Head(net[p]) = net[p][1] /\ net'[Other(p)] = net[Other(p)]
    <2>1. net[p] # << >> /\ Len(net[p]) > 1
      BY <1>4 DEF DataReceived, Received
    <2>2. PICK g \in Seq(GoodFrames) : g = Tail(net[p])
      BY <1>1, <2>1, TailFacts
    <2>3. Len(g) = Len(net[p]) - 1 /\ Len(net[p]) \in Nat /\ \A i \in 1..(Len(net[p]) - 1) : g[i] = net[p][i + 1]
      BY <1>1, <2>1, <2>2, TailFacts
    <2>4. g # << >>
      <3>1. Len(g) # 0
        BY <2>1, <2>3
      <3>2. QED
        BY <3>1, EmptySeq
    <2>5. /\ Len(Tail(g)) = Len(g) - 1 /\ \A i \in 1..(Len(g) - 1) : Tail(g)[i] = g[i + 1]
      BY <2>4, TailFacts
    <2>6. /\ Len(Tail(g)) \in Nat /\ Len(net[p]) = Len(Tail(g)) + 2
          /\ \A i \in 1..Len(Tail(g)) : i \in 1..(Len(g) - 1) /\ i + 1 \in 1..(Len(net[p]) - 1) /\ (i + 1) + 1 = i + 2
      BY <2>1, <2>3, <2>5
    <2>7. \A i \in 1..Len(Tail(g)) : Tail(g)[i] = net[p][i + 2]
      <3> SUFFICES ASSUME NEW i \in 1..Len(Tail(g)) PROVE Tail(g)[i] = net[p][i + 2]
        OBVIOUS
      <3>1. i \in 1..(Len(g) - 1) /\ i + 1 \in 1..(Len(net[p]) - 1) /\ (i + 1) + 1 = i + 2
        BY <2>6
      <3>2. Tail(g)[i] = g[i + 1] /\ g[i + 1] = net[p][(i + 1) + 1]
        BY <2>3, <2>5, <3>1
      <3>3. QED
        BY <3>1, <3>2
    <2>8. net'[p] = Tail(g) /\ net'[Other(p)] = net[Other(p)]
      BY <1>1, <1>4, <2>2 DEF ConsumeData
    <2>9. Head(net[p]) = net[p][1]
      BY <1>2, <2>1
    <2>10. QED
      BY <2>3, <2>6, <2>7, <2>8, <2>9 DEF Dropped
  <1>5. QED
    BY <1>1, <1>3, <1>4, NothingDropped

\* The threads that ask, and the one that answers, after a thread moved elsewhere ...
LEMMA MovesAway ==
  ASSUME TypeInv, NEW p \in Peer, cur'[p].did = cur[p].did, UNCHANGED op,
         UNCHANGED pc \/ \E t \in Thread : \E l : Goto(p, t, l) /\ l \notin {"acquire", "send", "start", "started"}
  PROVE  \A s \in Sid : (Asking(p, s)' => Asking(p, s)) /\ (Told(p, s)' => Told(p, s))
  <1>1. ThreadTypes /\ 0 \in Thread /\ Sid \subseteq Thread
    BY TypeParts, ThreadFacts
  <1>2. \A u \in Thread : pc'[p][u] = pc[p][u] \/ pc'[p][u] \notin {"acquire", "send", "start", "started"}
    BY <1>1 DEF ThreadTypes, Goto
  <1>3. QED
    BY <1>1, <1>2 DEF Asking, Told

\* ... and after it began to send something that is not a request.
LEMMA CallsAway ==
  ASSUME TypeInv, NEW p \in Peer, cur'[p].did = cur[p].did, NEW t \in Thread, NEW o, o # "request", Call(p, t, o),
         t = 0 => pc[p][0] \in {"start", "started"}
  PROVE  \A s \in Sid : (Asking(p, s)' => Asking(p, s)) /\ (Told(p, s)' => Told(p, s))
  <1>1. ThreadTypes /\ 0 \in Thread /\ Sid \subseteq Thread /\ 0 \notin Sid
    BY TypeParts, ThreadFacts
  <1>2. /\ pc'[p][t] = "acquire" /\ op'[p][t] = o
        /\ \A u \in Thread : u # t => pc'[p][u] = pc[p][u] /\ op'[p][u] = op[p][u]
    BY <1>1 DEF ThreadTypes, Call, Goto
  <1>3. \A s \in Sid : Asking(p, s)' => Asking(p, s)
    BY <1>1, <1>2 DEF Asking
  <1>4. \A s \in Sid : Told(p, s)' => Told(p, s)
    BY <1>1, <1>2 DEF Told
  <1>5. QED
    BY <1>3, <1>4

LEMMA ReceiverQuiet ==
  ASSUME TypeInv, NEW p \in Peer,
         \/ on_create_stream_responce(p) \/ on_close_stream_notify(p) \/ on_data_message(p)
         \/ on_data_ack(p) \/ on_data_message_unknown(p)
  PROVE  QuietStep(p)
  <1>1. StreamTypes /\ ThreadTypes /\ 0 \in Thread /\ Sid \subseteq Thread
    BY TypeParts, ThreadFacts
  <1>2. UNCHANGED <<gsid, cur, op>>
    BY DEF on_create_stream_responce, on_close_stream_notify, on_data_message, on_data_ack,
           on_data_message_unknown, threadVars
  <1>3. \A s \in Sid : (Asking(p, s)' => Asking(p, s)) /\ (Told(p, s)' => Told(p, s))
    <2>1. CASE on_data_message_unknown(p)
      <3>1. \A u \in Thread : pc'[p][u] = "crashed"
        BY <1>1, <2>1 DEF on_data_message_unknown, ThreadTypes
      <3>2. QED
        BY <1>1, <3>1 DEF Asking, Told
    <2>2. CASE ~on_data_message_unknown(p)
      <3>1. UNCHANGED pc \/ Goto(p, 0, "shut")
        BY <2>2 DEF on_create_stream_responce, on_close_stream_notify, on_data_message, on_data_ack, threadVars
      <3>2. QED
        BY <1>1, <1>2, <3>1, MovesAway
    <2>3. QED
      BY <2>1, <2>2
  <1>4. \E k \in {1, 2} : /\ Dropped(net[p], net'[p], k) /\ Head(net[p]) = net[p][1]
                          /\ net'[Other(p)] = net[Other(p)]
                          /\ on_create_stream_responce(p) => net[p][1].code = "response"
    <2>1. CASE DataReceived(p) /\ ConsumeData(p)
      <3>1. ~on_create_stream_responce(p)
        BY <2>1 DEF on_create_stream_responce, DataReceived, Received
      <3>2. QED
        BY <2>1, <3>1, Taken
    <2>2. CASE \E code : Received(p, code) /\ Consume(p) /\ (on_create_stream_responce(p) => code = "response")
      BY <2>2, Taken
    <2>3. QED
      BY <2>1, <2>2 DEF on_create_stream_responce, on_close_stream_notify, on_data_message, on_data_ack,
         on_data_message_unknown
  <1>5. PICK k \in {1, 2} : /\ Dropped(net[p], net'[p], k) /\ Head(net[p]) = net[p][1]
                            /\ net'[Other(p)] = net[Other(p)]
                            /\ on_create_stream_responce(p) => net[p][1].code = "response"
    BY <1>4
  <1>6. PICK m : m = Head(net[p])
    OBVIOUS
  <1>7. m = net[p][1] /\ m.did \in Thread /\ m.sid \in Thread
    <2>1. 1 \in 1..Len(net[p]) /\ net[p] \in Seq(GoodFrames)
      BY <1>5, TypeParts DEF Dropped
    <2>2. QED
      BY <1>5, <1>6, <2>1, FrameFields
  <1>8. /\ tbl'[p] \subseteq tbl[p]
        /\ \A r \in Thread : r # m.did => st'[p][r] = st[p][r]
        /\ \A r \in Thread : st'[p][r].did = st[p][r].did \/ (on_create_stream_responce(p) /\ st'[p][r].did = m.sid)
    <2>1. CASE UNCHANGED st /\ tbl'[p] \subseteq tbl[p]
      BY <2>1
    <2>2. CASE /\ UNCHANGED tbl
               /\ \E x : \/ st' = [st EXCEPT ![p][m.did].state = x]
                         \/ st' = [st EXCEPT ![p][m.did].rwnd = x]
                         \/ st' = [st EXCEPT ![p][m.did].rxq = x]
      <3>1. PICK d \in Thread : d = m.did
        BY <1>7
      <3>2. PICK x : \/ st' = [st EXCEPT ![p][d].state = x]
                     \/ st' = [st EXCEPT ![p][d].rwnd = x]
                     \/ st' = [st EXCEPT ![p][d].rxq = x]
        BY <2>2, <3>1
      <3>3. \A r \in Thread : st'[p][r].did = st[p][r].did /\ (r # d => st'[p][r] = st[p][r])
        BY <1>1, <3>2, StreamChange
      <3>4. QED
        BY <2>2, <3>1, <3>3
    <2>3. CASE on_create_stream_responce(p) /\ UNCHANGED tbl /\
               st' = [st EXCEPT ![p][m.did].state = "established", ![p][m.did].did = m.sid, ![p][m.did].rwnd = m.rwnd]
      <3>1. st' = [st EXCEPT ![p][m.did] = [st[p][m.did] EXCEPT !.state = "established", !.did = m.sid, !.rwnd = m.rwnd]]
        BY <1>1, <1>7, <2>3 DEF StreamTypes
      <3>2. st[p][m.did] \in Streams
        BY <1>1, <1>7 DEF StreamTypes
      <3>3. [st[p][m.did] EXCEPT !.state = "established", !.did = m.sid, !.rwnd = m.rwnd].did = m.sid
        BY <3>2 DEF Streams
      <3>4. PICK y : y = [st[p][m.did] EXCEPT !.state = "established", !.did = m.sid, !.rwnd = m.rwnd]
        OBVIOUS
      <3>5. st'[p][m.did] = y /\ \A r \in Thread : r # m.did => st'[p][r] = st[p][r]
        BY <1>1, <1>7, <3>1, <3>4 DEF StreamTypes
      <3>6. QED
        BY <2>3, <3>3, <3>4, <3>5
    <2>4. CASE on_create_stream_responce(p)
      BY <1>6, <2>1, <2>2, <2>3, <2>4 DEF on_create_stream_responce
    <2>5. CASE on_close_stream_notify(p)
      BY <1>6, <2>1, <2>2, <2>5 DEF on_close_stream_notify, SetState
    <2>6. CASE on_data_message(p)
      BY <1>6, <2>1, <2>2, <2>6 DEF on_data_message, SetState
    <2>7. CASE on_data_ack(p)
      BY <1>6, <2>1, <2>2, <2>7 DEF on_data_ack
    <2>8. CASE on_data_message_unknown(p)
      BY <1>1, <2>1, <2>8 DEF on_data_message_unknown, StreamTypes
    <2>9. QED
      BY <2>4, <2>5, <2>6, <2>7, <2>8
  <1>9. k \in Nat /\ k > 0
    OBVIOUS
  <1>10. QED
    BY <1>1, <1>2, <1>3, <1>5, <1>7, <1>8, <1>9 DEF QuietStep

LEMMA ErasedStream ==
  ASSUME StreamTypes, NEW p \in Peer, NEW t \in Thread, EraseAndDestroy(p, t)
  PROVE  /\ tbl'[p] = tbl[p] \ {t} /\ st'[p][t].did = 0
         /\ \A r \in Thread : r # t => st'[p][r] = st[p][r]
  BY DEF StreamTypes, EraseAndDestroy, Zeroed, Stream

\* The channel thread between a request and its answer, and its end.
LEMMA ChannelQuiet ==
  ASSUME TypeInv, ChannelInv, NEW p \in Peer, MethodWaits(p),
         \/ start_service_method_thread(p) \/ on_create_stream_request_reply(p) \/ on_create_stream_request_done(p)
         \/ recv_fails(p) \/ corpc_channel_thread_end(p) \/ corpc_channel_close(p)
  PROVE  QuietStep(p)
  <1>1. StreamTypes /\ ThreadTypes /\ CurTypes /\ 0 \in Thread /\ Sid \subseteq Thread /\ 0 \notin Sid
    BY TypeParts, ThreadFacts
  <1>2. UNCHANGED <<gsid, net>>
    BY DEF start_service_method_thread, on_create_stream_request_reply, on_create_stream_request_done,
           recv_fails, corpc_channel_thread_end, corpc_channel_close, streamVars
  <1>3. cur'[p].obj = cur[p].obj /\ cur'[p].did = cur[p].did
    <2>1. CASE UNCHANGED cur
      BY <2>1
    <2>2. CASE \E x, y : cur' = [cur EXCEPT ![p].status = x, ![p].rwnd = y]
      BY <1>1, <2>2 DEF CurTypes
    <2>3. CASE \E x, y : cur' = [cur EXCEPT ![p].sid = x, ![p].rwnd = y]
      BY <1>1, <2>3 DEF CurTypes
    <2>4. QED
      BY <2>1, <2>2, <2>3 DEF start_service_method_thread, on_create_stream_request_reply,
         on_create_stream_request_done, recv_fails, corpc_channel_thread_end, corpc_channel_close
  <1>4. \A s \in Sid : (Asking(p, s)' => Asking(p, s)) /\ (Told(p, s)' => Told(p, s))
    <2>1. CASE /\ start_service_method_thread(p)
               /\ \E l \in {"read", "open"} : pc' = [pc EXCEPT ![p][0] = "started", ![p][cur[p].obj] = l]
               /\ UNCHANGED op
      <3>1. pc[p][0] = "start" /\ cur[p].obj \in Sid
        BY <2>1 DEF start_service_method_thread, ChannelInv, AnswerInv
      <3>2. \A u \in Sid : pc'[p][u] = pc[p][u] \/ pc'[p][u] \in {"read", "open"}
        BY <1>1, <2>1, <3>1 DEF ThreadTypes
      <3>3. QED
        BY <1>3, <2>1, <3>1, <3>2 DEF Asking, Told
    <2>2. CASE Call(p, 0, "response") /\ pc[p][0] \in {"start", "started"}
      BY <1>1, <1>3, <2>2, CallsAway
    <2>3. CASE UNCHANGED op /\ (UNCHANGED pc \/ \E l \in {"recv", "shut", "done"} : Goto(p, 0, l))
      BY <1>1, <1>3, <2>3, MovesAway
    <2>4. QED
      BY <2>1, <2>2, <2>3 DEF start_service_method_thread, on_create_stream_request_reply,
         on_create_stream_request_done, recv_fails, corpc_channel_thread_end, corpc_channel_close, threadVars
  <1>5. /\ tbl'[p] \subseteq tbl[p]
        /\ \A r \in Sid : st'[p][r].did \in {0, st[p][r].did} /\ (r # cur[p].obj => st'[p][r].state = st[p][r].state)
    <2>1. CASE UNCHANGED <<tbl, st>>
      BY <2>1
    <2>2. CASE on_create_stream_request_done(p) /\ UNCHANGED tbl /\ cur[p].obj # 0 /\
               \E o \in Deref(p, cur[p].obj) : st' = [st EXCEPT ![p][o].state = IF o = 0 THEN @ ELSE "established"]
      <3>1. cur[p].obj \in live[p] /\ cur[p].obj \in Thread
        BY <1>1, <2>2 DEF on_create_stream_request_done, MethodWaits, ChannelInv, TableInv, Serving, Answering, CurTypes
      <3>2. st' = [st EXCEPT ![p][cur[p].obj].state = "established"]
        BY <2>2, <3>1 DEF Deref
      <3>3. PICK o \in Thread : o = cur[p].obj
        BY <3>1
      <3>4. st' = [st EXCEPT ![p][o].state = "established"]
        BY <3>2, <3>3
      <3>5. \A r \in Thread : st'[p][r].did = st[p][r].did /\ (r # o => st'[p][r] = st[p][r])
        BY <1>1, <3>4, StreamChange
      <3>6. QED
        BY <1>1, <2>2, <3>3, <3>5
    <2>3. CASE EraseAndDestroy(p, cur[p].obj)
      BY <1>1, <2>3, ErasedStream DEF CurTypes
    <2>4. QED
      BY <2>1, <2>2, <2>3 DEF start_service_method_thread, on_create_stream_request_reply,
         on_create_stream_request_done, recv_fails, corpc_channel_thread_end, corpc_channel_close, streamVars
  <1>6. Dropped(net[p], net'[p], 0)
    BY <1>2, Taken
  <1>7. QED
    BY <1>1, <1>2, <1>3, <1>4, <1>5, <1>6 DEF QuietStep

LEMMA CallsQuiet ==
  ASSUME TypeInv, NEW p \in Peer, NEW t \in Sid,
         corpc_stream_write(p, t) \/ corpc_stream_read(p, t) \/ corpc_close_stream(p, t)
  PROVE  QuietStep(p)
  <1>1. 0 \in Thread /\ Sid \subseteq Thread /\ 0 \notin Sid
    BY ThreadFacts
  <1>2. UNCHANGED <<gsid, net, cur, tbl, st>>
    BY DEF corpc_stream_write, corpc_stream_read, corpc_close_stream, streamVars
  <1>3. \A s \in Sid : (Asking(p, s)' => Asking(p, s)) /\ (Told(p, s)' => Told(p, s))
    <2>1. CASE Call(p, t, "data") \/ Call(p, t, "close")
      BY <1>1, <1>2, <2>1, CallsAway
    <2>2. CASE UNCHANGED op /\ Goto(p, t, "read")
      BY <1>1, <1>2, <2>2, MovesAway
    <2>3. QED
      BY <2>1, <2>2 DEF corpc_stream_write, corpc_stream_read, corpc_close_stream
  <1>4. Dropped(net[p], net'[p], 0)
    BY <1>2, Taken
  <1>5. QED
    BY <1>2, <1>3, <1>4 DEF QuietStep

\* What the other actions do.
LEMMA RequestOpen ==
  ASSUME TypeInv, FreshInv, Exchange, NEW p \in Peer, on_create_stream_request(p), SamePeer(Other(p))
  PROVE  Exchange'
  <1>1. /\ StreamTypes /\ ThreadTypes /\ CurTypes /\ 0 \in Thread /\ Sid \subseteq Thread /\ 0 \notin Sid
        /\ gsid[p] \in Nat /\ pc[p][0] = "recv"
    BY TypeParts, ThreadFacts DEF StreamTypes, on_create_stream_request, Received, Receiving
  <1>2. PICK m : m = Head(net[p])
    OBVIOUS
  <1>3. /\ Dropped(net[p], net'[p], 1) /\ m = net[p][1] /\ m.code = "request"
        /\ net'[Other(p)] = net[Other(p)] /\ m.sid \in Thread
    <2>1. Received(p, "request") /\ Consume(p)
      BY DEF on_create_stream_request
    <2>2. QED
      BY <1>2, <2>1, Taken, ReceivedFrame
  <1>4. \/ /\ gsid[p] < MaxSid /\ gsid'[p] = gsid[p] + 1 /\ tbl'[p] = tbl[p] \cup {gsid[p] + 1}
           /\ cur'[p].obj = gsid[p] + 1 /\ cur'[p].did = m.sid /\ st'[p][gsid[p] + 1].did = m.sid
           /\ \A s \in Sid : s # gsid[p] + 1 => st'[p][s] = st[p][s]
        \/ /\ gsid'[p] = gsid[p] /\ tbl' = tbl /\ st' = st
           /\ cur'[p].obj = 0 /\ cur'[p].did = m.sid
    <2>1. CASE m.info = "method" /\ Cardinality(tbl[p]) < MaxStreams
      <3>1. /\ gsid[p] < MaxSid
            /\ gsid' = [gsid EXCEPT ![p] = gensid(p)]
            /\ tbl'  = [tbl EXCEPT ![p] = @ \cup {gensid(p)}]
            /\ st'   = [st EXCEPT ![p][gensid(p)] = Stream("opening", m.sid, m.rwnd)]
            /\ cur'  = [cur EXCEPT ![p] = [obj |-> gensid(p), sid |-> 0, did |-> m.sid, rwnd |-> 0, status |-> "ok"]]
        BY <1>2, <2>1 DEF on_create_stream_request
      <3>2. PICK n \in Sid : n = gensid(p) /\ n = gsid[p] + 1
        BY <3>1, NewSid
      <3>3. gsid'[p] = n /\ tbl'[p] = tbl[p] \cup {n}
        BY <1>1, <3>1, <3>2 DEF StreamTypes
      <3>4. cur'[p].obj = n /\ cur'[p].did = m.sid
        BY <1>1, <3>1, <3>2 DEF CurTypes
      <3>5. st'[p][n].did = m.sid /\ \A s \in Sid : s # n => st'[p][s] = st[p][s]
        BY <1>1, <3>1, <3>2 DEF StreamTypes, Stream
      <3>6. QED
        BY <3>1, <3>2, <3>3, <3>4, <3>5
    <2>2. CASE ~(m.info = "method" /\ Cardinality(tbl[p]) < MaxStreams)
      <3>1. UNCHANGED streamVars /\ \E x : cur' = [cur EXCEPT ![p] = [obj |-> 0, sid |-> 0, did |-> m.sid, rwnd |-> 0, status |-> x]]
        BY <1>2, <2>2 DEF on_create_stream_request
      <3>2. cur'[p].obj = 0 /\ cur'[p].did = m.sid
        BY <1>1, <3>1 DEF CurTypes
      <3>3. QED
        BY <3>1, <3>2 DEF streamVars
    <2>3. QED
      BY <2>1, <2>2
  <1>5. \A s \in Sid : Asking(p, s)' <=> Asking(p, s)
    <2>1. (Goto(p, 0, "start") /\ UNCHANGED op) \/ Call(p, 0, "response")
      BY DEF on_create_stream_request
    <2>2. \A s \in Sid : pc'[p][s] = pc[p][s] /\ op'[p][s] = op[p][s]
      BY <1>1, <2>1 DEF ThreadTypes, Goto, Call
    <2>3. QED
      BY <2>2 DEF Asking
  <1>6. HandedOut(p)' /\ OneAnswer(p)'
    <2>1. CASE gsid'[p] = gsid[p] /\ tbl' = tbl /\ st' = st /\ cur'[p].obj = 0
      BY <1>3, <1>5, <2>1, AskerQuiet DEF Exchange
    <2>2. CASE /\ gsid[p] < MaxSid /\ gsid'[p] = gsid[p] + 1 /\ tbl'[p] = tbl[p] \cup {gsid[p] + 1}
               /\ cur'[p].obj = gsid[p] + 1
               /\ \A s \in Sid : s # gsid[p] + 1 => st'[p][s] = st[p][s]
      <3>1. ~Asking(p, gsid[p] + 1)
        <4>1. gsid[p] + 1 \in Sid /\ gsid[p] + 1 > gsid[p]
          BY <1>1, <2>2, NewSid
        <4>2. QED
          BY <1>1, <4>1 DEF FreshInv, Running, Asking
      <3>2. QED
        BY <1>3, <1>5, <2>2, <3>1, AskerAccepts DEF Exchange
    <2>3. QED
      BY <1>4, <2>1, <2>2
  <1>7. PICK q \in Peer : q = Other(p)
    BY PeerFacts
  <1>8. Other(q) = p /\ \A r \in Peer : r = p \/ r = q
    BY <1>7 DEF Peer, Other
  <1>9. HandedOut(q)' /\ OneAnswer(q)'
    <2>1. HandedOut(q) /\ OneAnswer(q) /\ SamePeer(q) /\ net'[q] = net[q]
      BY <1>3, <1>7 DEF Exchange
    <2>2. \A r \in Sid : st'[p][r].did = st[p][r].did \/ (r = cur'[p].obj /\ st'[p][r].did = m.sid)
      BY <1>4
    <2>3. /\ Dropped(net[Other(q)], net'[Other(q)], 1) /\ net[Other(q)][1].code = "request"
          /\ cur'[Other(q)].did = net[Other(q)][1].sid
          /\ \A r \in Sid : \/ st'[Other(q)][r].did = st[Other(q)][r].did
                            \/ r = cur'[Other(q)].obj /\ st'[Other(q)][r].did = net[Other(q)][1].sid
      BY <1>3, <1>4, <1>8, <2>2
    <2>4. QED
      BY <2>1, <2>3, AnswererTakes
  <1>10. QED
    BY <1>6, <1>8, <1>9 DEF Exchange

LEMMA OpenOpen ==
  ASSUME TypeInv, Exchange, NEW p \in Peer, corpc_open_stream(p), SamePeer(Other(p))
  PROVE  Exchange'
  <1>1. StreamTypes /\ ThreadTypes /\ CurTypes /\ 0 \in Thread /\ Sid \subseteq Thread /\ 0 \notin Sid
    BY TypeParts, ThreadFacts
  <1>2. /\ gsid[p] < MaxSid
        /\ gsid' = [gsid EXCEPT ![p] = gensid(p)]
        /\ tbl'  = [tbl EXCEPT ![p] = @ \cup {gensid(p)}]
        /\ st'   = [st EXCEPT ![p][gensid(p)] = Stream("opening", 0, 0)]
        /\ Call(p, gensid(p), "request")
        /\ UNCHANGED <<net, cur>>
    BY DEF corpc_open_stream
  <1>3. PICK n \in Sid : n = gensid(p) /\ n = gsid[p] + 1
    BY <1>2, NewSid
  <1>4. /\ gsid'[p] = n /\ tbl'[p] = tbl[p] \cup {n}
        /\ st'[p][n] = Stream("opening", 0, 0) /\ \A s \in Sid : s # n => st'[p][s] = st[p][s]
    BY <1>1, <1>2, <1>3 DEF StreamTypes
  <1>5. st'[p][n].state = "opening" /\ st'[p][n].did = 0
    BY <1>4 DEF Stream
  <1>6. \A u \in Thread : u # n => pc'[p][u] = pc[p][u] /\ op'[p][u] = op[p][u]
    BY <1>1, <1>2, <1>3 DEF ThreadTypes, Call, Goto
  <1>7. \A s \in Sid : s # n => (Asking(p, s)' => Asking(p, s))
    BY <1>1, <1>6 DEF Asking
  <1>8. HandedOut(p)' /\ OneAnswer(p)'
    BY <1>2, <1>3, <1>4, <1>5, <1>7, AskerOpens DEF Exchange
  <1>9. PICK q \in Peer : q = Other(p)
    BY PeerFacts
  <1>10. Other(q) = p /\ \A r \in Peer : r = p \/ r = q
    BY <1>9 DEF Peer, Other
  <1>11. HandedOut(q)' /\ OneAnswer(q)'
    <2>1. HandedOut(q) /\ OneAnswer(q) /\ SamePeer(q) /\ net'[q] = net[q]
      BY <1>2, <1>9 DEF Exchange
    <2>2. \A s \in Sid : Told(p, s)' => Told(p, s)
      BY <1>1, <1>2, <1>6 DEF Told
    <2>3. \A r \in Sid : st'[p][r].did \in {0, st[p][r].did}
      BY <1>4, <1>5
    <2>4. Dropped(net[p], net'[p], 0)
      BY <1>2, Taken
    <2>5. /\ Dropped(net[Other(q)], net'[Other(q)], 0)
          /\ cur'[Other(q)].did = cur[Other(q)].did /\ cur'[Other(q)].obj = cur[Other(q)].obj
          /\ \A s \in Sid : Told(Other(q), s)' => Told(Other(q), s)
          /\ \A r \in Sid : st'[Other(q)][r].did \in {0, st[Other(q)][r].did}
      BY <1>2, <1>10, <2>2, <2>3, <2>4
    <2>6. QED
      BY <2>1, <2>5, AnswererQuiet
  <1>12. QED
    BY <1>8, <1>10, <1>11 DEF Exchange

\* What a step of thread t leaves alone.
LEMMA ThreadLocal ==
  ASSUME TypeInv, NEW p \in Peer, NEW t \in Thread, ThreadStep(p, t)
  PROVE  /\ UNCHANGED <<chst, gsid, cur, bug>> /\ pc[p][t] # "none"
         /\ \A u \in Thread : u # t => pc'[p][u] = pc[p][u] /\ op'[p][u] = op[p][u] /\ st'[p][u] = st[p][u]
         /\ tbl'[p] \subseteq tbl[p] /\ \A s \in tbl[p] : s # t => s \in tbl'[p]
         /\ t \in tbl'[p] => st'[p][t].state = st[p][t].state
         /\ st'[p][t].did \in {0, st[p][t].did}
         /\ t = 0 => pc[p][0] \in Answering /\ pc'[p][0] \in Answering
         /\ \A s \in Sid : (Asking(p, s)' => Asking(p, s)) /\ (Told(p, s)' => Told(p, s))
  <1>1. ThreadTypes /\ Roles /\ StreamTypes /\ 0 \in Thread /\ Sid \subseteq Thread /\ 0 \notin Sid
    BY TypeParts, ThreadFacts
  <1>2. UNCHANGED <<chst, gsid, cur, bug>> /\ pc[p][t] # "none"
    BY DEF ThreadStep, acquire_write_lock, corpc_proto_send, corpc_proto_send_payload, send_data_done,
       release_write_lock, corpc_open_stream_wait, corpc_open_stream_fail, corpc_stream_read_internal,
       corpc_close_stream_erase, chanVars, streamVars
  <1>3. /\ tbl'[p] \subseteq tbl[p] /\ \A s \in tbl[p] : s # t => s \in tbl'[p]
        /\ t \in tbl'[p] => st'[p][t].state = st[p][t].state
        /\ st'[p][t].did \in {0, st[p][t].did}
        /\ \A u \in Thread : u # t => st'[p][u] = st[p][u]
    <2>1. CASE UNCHANGED <<tbl, st>>
      BY <2>1
    <2>2. CASE EraseAndDestroy(p, t)
      BY <1>1, <2>2, ErasedStream
    <2>3. CASE UNCHANGED tbl /\ \E x : st' = [st EXCEPT ![p][t].rwnd = x] \/ st' = [st EXCEPT ![p][t].rxq = x]
      <3>1. PICK x : st' = [st EXCEPT ![p][t].rwnd = x] \/ st' = [st EXCEPT ![p][t].rxq = x]
        BY <2>3
      <3>2. \A r \in Thread : st'[p][r].did = st[p][r].did /\ (r # t => st'[p][r] = st[p][r])
        BY <1>1, <3>1, StreamChange
      <3>3. st'[p][t].state = st[p][t].state
        <4>1. st[p][t] \in Streams
          BY <1>1 DEF StreamTypes
        <4>2. CASE st' = [st EXCEPT ![p][t].rwnd = x]
          <5>1. st'[p][t] = [st[p][t] EXCEPT !.rwnd = x]
            BY <1>1, <4>2 DEF StreamTypes
          <5>2. QED
            BY <4>1, <5>1 DEF Streams
        <4>3. CASE st' = [st EXCEPT ![p][t].rxq = x]
          <5>1. st'[p][t] = [st[p][t] EXCEPT !.rxq = x]
            BY <1>1, <4>3 DEF StreamTypes
          <5>2. QED
            BY <4>1, <5>1 DEF Streams
        <4>4. QED
          BY <3>1, <4>2, <4>3
      <3>4. QED
        BY <2>3, <3>2, <3>3
    <2>4. QED
      BY <2>1, <2>2, <2>3 DEF ThreadStep, acquire_write_lock, corpc_proto_send, corpc_proto_send_payload,
         send_data_done, release_write_lock, corpc_open_stream_wait, corpc_open_stream_fail,
         corpc_stream_read_internal, corpc_close_stream_erase, streamVars
  <1>4. \A u \in Thread : u # t => pc'[p][u] = pc[p][u] /\ op'[p][u] = op[p][u]
    <2>1. UNCHANGED pc \/ \E l : Goto(p, t, l)
      BY DEF ThreadStep, acquire_write_lock, corpc_proto_send, corpc_proto_send_payload, send_data_done,
         release_write_lock, corpc_open_stream_wait, corpc_open_stream_fail, corpc_stream_read_internal,
         corpc_close_stream_erase, SendFrame, Return, Call, threadVars
    <2>2. UNCHANGED op \/ \E o : op' = [op EXCEPT ![p][t] = o]
      BY DEF ThreadStep, acquire_write_lock, corpc_proto_send, corpc_proto_send_payload, send_data_done,
         release_write_lock, corpc_open_stream_wait, corpc_open_stream_fail, corpc_stream_read_internal,
         corpc_close_stream_erase, SendFrame, Return, Call, threadVars
    <2>3. QED
      BY <1>1, <2>1, <2>2 DEF ThreadTypes, Goto
  <1>5. \/ pc'[p][t] \notin {"acquire", "send", "start", "started"}
        \/ pc[p][t] \in {"acquire", "send"} /\ op'[p][t] = op[p][t]
        \/ pc[p][t] = "read" /\ op'[p][t] = "ack"
    <2>1. CASE acquire_write_lock(p, t)
      <3>1. pc[p][t] = "acquire" /\ (UNCHANGED op \/ Goto(p, t, After(op[p][t], FALSE)))
        BY <2>1 DEF acquire_write_lock, Return, threadVars
      <3>2. CASE UNCHANGED op
        BY <3>1, <3>2
      <3>3. CASE Goto(p, t, After(op[p][t], FALSE))
        BY <1>1, <3>3 DEF Goto, After, ThreadTypes
      <3>4. QED
        BY <3>1, <3>2, <3>3
    <2>2. CASE corpc_proto_send(p, t) \/ corpc_proto_send_payload(p, t) \/ send_data_done(p, t)
      <3>1. \E l \in {"payload", "release", "sent"} : Goto(p, t, l)
        BY <2>2 DEF corpc_proto_send, corpc_proto_send_payload, send_data_done, SendFrame
      <3>2. QED
        BY <1>1, <3>1 DEF Goto, ThreadTypes
    <2>3. CASE release_write_lock(p, t)
      <3>1. Goto(p, t, After(op[p][t], ok[p][t]))
        BY <2>3 DEF release_write_lock, Return
      <3>2. QED
        BY <1>1, <3>1 DEF Goto, After, ThreadTypes
    <2>4. CASE corpc_open_stream_wait(p, t) \/ corpc_open_stream_fail(p, t) \/ corpc_close_stream_erase(p, t)
      <3>1. (UNCHANGED pc /\ pc[p][t] = "opening") \/ \E l \in {"open", "fail", "done"} : Goto(p, t, l)
        BY <2>4 DEF corpc_open_stream_wait, corpc_open_stream_fail, corpc_close_stream_erase
      <3>2. QED
        BY <1>1, <3>1 DEF Goto, ThreadTypes
    <2>5. CASE corpc_stream_read_internal(p, t)
      <3>1. pc[p][t] = "read" /\ (UNCHANGED pc \/ Goto(p, t, "open") \/ Call(p, t, "ack"))
        BY <2>5 DEF corpc_stream_read_internal, threadVars
      <3>2. QED
        BY <1>1, <3>1 DEF Goto, Call, ThreadTypes
    <2>6. QED
      BY <2>1, <2>2, <2>3, <2>4, <2>5 DEF ThreadStep
  <1>6. \A s \in Sid : (Asking(p, s)' => Asking(p, s)) /\ (Told(p, s)' => Told(p, s))
    <2>1. pc[p][0] # "read"
      BY <1>1 DEF Roles, Role, ChannelPCs
    <2>2. QED
      BY <1>1, <1>2, <1>4, <1>5, <2>1 DEF Asking, Told
  <1>7. t = 0 => pc[p][0] \in Answering /\ pc'[p][0] \in Answering
    <2> SUFFICES ASSUME t = 0 PROVE pc[p][0] \in Answering /\ pc'[p][0] \in Answering
      OBVIOUS
    <2>1. pc[p][0] \in ChannelPCs /\ (pc[p][0] \in {"acquire", "send", "release"} => op[p][0] = "response")
      BY <1>1 DEF Roles, Role, MessagesOf, Sending
    <2>2. CASE acquire_write_lock(p, 0)
      <3>1. pc[p][0] = "acquire" /\ (UNCHANGED pc \/ Goto(p, 0, "send") \/ Goto(p, 0, After(op[p][0], FALSE)))
        BY <2>2 DEF acquire_write_lock, Return, threadVars
      <3>2. After(op[p][0], FALSE) = "setstate"
        BY <2>1, <3>1 DEF After
      <3>3. UNCHANGED pc \/ Goto(p, 0, "send") \/ Goto(p, 0, "setstate")
        BY <3>1, <3>2
      <3>4. pc'[p][0] \in {"acquire", "send", "setstate"}
        BY <1>1, <3>1, <3>3 DEF ThreadTypes, Goto
      <3>5. QED
        BY <3>1, <3>4 DEF Answering
    <2>3. CASE corpc_proto_send(p, 0)
      <3>1. pc[p][0] = "send" /\ Goto(p, 0, "release")
        BY <2>1, <2>3 DEF corpc_proto_send, SendFrame
      <3>2. QED
        BY <1>1, <3>1 DEF ThreadTypes, Goto, Answering
    <2>4. CASE release_write_lock(p, 0)
      <3>1. pc[p][0] = "release" /\ Goto(p, 0, After(op[p][0], ok[p][0]))
        BY <2>4 DEF release_write_lock, Return
      <3>2. After(op[p][0], ok[p][0]) = "setstate"
        BY <2>1, <3>1 DEF After
      <3>3. QED
        BY <1>1, <3>1, <3>2 DEF ThreadTypes, Goto, Answering
    <2>5. QED
      BY <2>1, <2>2, <2>3, <2>4 DEF ThreadStep, corpc_proto_send_payload, send_data_done, corpc_open_stream_wait,
         corpc_open_stream_fail, corpc_stream_read_internal, corpc_close_stream_erase, ChannelPCs
  <1>8. QED
    BY <1>2, <1>3, <1>4, <1>6, <1>7

\* The streams a frame is about.
LEMMA FirstFrameStreams ==
  ASSUME NEW p \in Peer, NEW t \in Thread, NEW f \in FirstFrames(p, t), op[p][t] \in Ops
  PROVE  /\ f.code = op[p][t]
         /\ op[p][t] = "request" => f.sid = t /\ f.did = 0
         /\ op[p][t] = "response" => f.sid = cur[p].sid /\ f.did = cur[p].did
         /\ op[p][t] \notin {"request", "response"} => f.sid = t /\ f.did = st[p][t].did
  <1>1. CASE op[p][t] = "request"
    <2>1. f \in {Frame("request", t, 0, srwnd(p, t), target, 0) : target \in Targets}
      BY <1>1 DEF FirstFrames
    <2>2. PICK target \in Targets : f = Frame("request", t, 0, srwnd(p, t), target, 0)
      BY <2>1
    <2>3. QED
      BY <1>1, <2>2, FirstFrameCode DEF Frame
  <1>2. CASE op[p][t] = "response"
    <2>1. f \in {Frame("response", cur[p].sid, cur[p].did, cur[p].rwnd, cur[p].status, 0)}
      BY <1>2 DEF FirstFrames
    <2>2. QED
      BY <1>2, <2>1, FirstFrameCode DEF Frame
  <1>3. CASE op[p][t] \notin {"request", "response"}
    <2>1. PICK o \in Ops : o = op[p][t]
      OBVIOUS
    <2>0. PICK d : d = st[p][t].did
      OBVIOUS
    <2>2. f = Frame(o, t, d, 0, "", 0)
      BY <1>3, <2>0, <2>1 DEF FirstFrames
    <2>3. f.sid = t /\ f.did = d
      BY <2>2 DEF Frame, Ops
    <2>4. QED
      BY <1>3, <2>0, <2>1, <2>3, FirstFrameCode
  <1>4. QED
    BY <1>1, <1>2, <1>3

\* A thread sends a frame.
LEMMA SendOpen ==
  ASSUME TypeInv, FreshInv, ChannelInv, Exchange, NEW p \in Peer, MethodWaits(p), NEW t \in Thread,
         corpc_proto_send(p, t) \/ corpc_proto_send_payload(p, t), net' # net, SamePeer(Other(p))
  PROVE  Exchange'
  <1>1. /\ ThreadTypes /\ Roles /\ net \in [Peer -> Seq(GoodFrames)] /\ Other(p) \in Peer /\ Other(p) # p
        /\ 0 \in Thread /\ Sid \subseteq Thread /\ 0 \notin Sid /\ \A u \in Thread : u # 0 => u \in Sid
    BY TypeParts, PeerFacts, ThreadFacts
  <1>2. ThreadStep(p, t)
    BY DEF ThreadStep
  <1>3. /\ UNCHANGED <<gsid, cur, tbl, st>>
        /\ \A s \in Sid : (Asking(p, s)' => Asking(p, s)) /\ (Told(p, s)' => Told(p, s))
    <2>1. UNCHANGED <<tbl, st>>
      BY DEF corpc_proto_send, corpc_proto_send_payload, streamVars
    <2>2. QED
      BY <1>2, <2>1, ThreadLocal
  <1>4. pc[p][t] \in {"send", "payload"} /\ op' = op /\ pc'[p][t] \in {"release", "payload", "sent"}
    <2>1. pc[p][t] \in {"send", "payload"} /\ op' = op /\ \E l \in {"release", "payload", "sent"} : Goto(p, t, l)
      BY DEF corpc_proto_send, corpc_proto_send_payload, SendFrame
    <2>2. QED
      BY <1>1, <2>1 DEF ThreadTypes, Goto
  <1>5. PICK f \in GoodFrames :
          /\ net' = [net EXCEPT ![Other(p)] = Append(net[Other(p)], f)]
          /\ \/ f.code = "payload" /\ f.sid = 0 /\ f.did = 0
             \/ f \in FirstFrames(p, t) /\ pc[p][t] = "send"
    <2>1. CASE corpc_proto_send(p, t)
      <3>1. pc[p][t] = "send" /\ \E f \in FirstFrames(p, t) : net' = [net EXCEPT ![Other(p)] = Append(net[Other(p)], f)]
        BY <2>1 DEF corpc_proto_send, SendFrame
      <3>2. QED
        BY <3>1, FirstFrameTypes
    <2>2. CASE corpc_proto_send_payload(p, t)
      <3>1. PICK f : f = Frame("payload", 0, 0, 0, "", nwr[p][t] + 1)
        OBVIOUS
      <3>2. net' = [net EXCEPT ![Other(p)] = Append(net[Other(p)], f)]
        BY <2>2, <3>1 DEF corpc_proto_send_payload, SendFrame
      <3>3. f \in GoodFrames
        <4>1. t \in Sid
          BY <1>1, <2>2 DEF corpc_proto_send_payload, Roles, Role, ChannelPCs
        <4>2. nwr[p][t] \in Nat
          BY <4>1, TypeParts DEF CountTypes
        <4>3. /\ "payload" \in Codes \cup Ops /\ 0 \in Thread /\ 0 \in Int /\ nwr[p][t] + 1 \in Nat
              /\ "" \in Status \cup Targets \cup {""}
          BY <1>1, <4>2 DEF Codes
        <4>4. QED
          BY <3>1, <4>3, FrameTypes
      <3>4. f.code = "payload" /\ f.sid = 0 /\ f.did = 0
        BY <3>1 DEF Frame
      <3>5. QED
        BY <3>2, <3>3, <3>4
    <2>3. QED
      BY <2>1, <2>2
  <1>6. net'[Other(p)] = Append(net[Other(p)], f) /\ net'[p] = net[p]
    BY <1>1, <1>5
  <1>7. \/ f.code = "payload" /\ f.sid = 0 /\ f.did = 0
        \/ f.code = "request" /\ f.sid = t /\ f.did = 0 /\ t \in Sid /\ Asking(p, t)
        \/ f.code = "response" /\ f.sid = cur[p].sid /\ f.did = cur[p].did /\ t = 0 /\ pc[p][0] = "send"
        \/ /\ f.code \notin {"request", "response"} /\ f.sid = t /\ f.did = st[p][t].did
           /\ t \in Sid /\ ~Asking(p, t) /\ pc[p][t] = "send"
    <2> SUFFICES ASSUME f \in FirstFrames(p, t), pc[p][t] = "send"
                 PROVE  \/ f.code = "request" /\ f.sid = t /\ f.did = 0 /\ t \in Sid /\ Asking(p, t)
                        \/ f.code = "response" /\ f.sid = cur[p].sid /\ f.did = cur[p].did /\ t = 0 /\ pc[p][0] = "send"
                        \/ /\ f.code \notin {"request", "response"} /\ f.sid = t /\ f.did = st[p][t].did
                           /\ t \in Sid /\ ~Asking(p, t) /\ pc[p][t] = "send"
      BY <1>5
    <2>1. op[p][t] \in Ops /\ op[p][t] \in MessagesOf(t)
      BY <1>1 DEF ThreadTypes, Roles, Role, Sending
    <2>2. (t = 0 <=> op[p][t] = "response") /\ (t # 0 => t \in Sid)
      BY <1>1, <2>1 DEF MessagesOf
    <2>3. /\ f.code = op[p][t]
          /\ op[p][t] = "request" => f.sid = t /\ f.did = 0
          /\ op[p][t] = "response" => f.sid = cur[p].sid /\ f.did = cur[p].did
          /\ op[p][t] \notin {"request", "response"} => f.sid = t /\ f.did = st[p][t].did
      BY <2>1, FirstFrameStreams
    <2>4. Asking(p, t) <=> op[p][t] = "request"
      BY DEF Asking
    <2>5. QED
      BY <2>2, <2>3, <2>4
  <1>8. f.sid <= gsid[p]
    <2>1. gsid[p] \in Nat
      BY TypeParts, ThreadFacts DEF StreamTypes
    <2>2. t <= gsid[p]
      <3>1. Running(p)
        BY <1>4 DEF ChannelInv, RefsInv
      <3>2. t \in Sid => ~(t > gsid[p])
        BY <1>4, <3>1 DEF FreshInv
      <3>3. QED
        BY <1>1, <2>1, <3>2, ThreadFacts
    <2>3. cur[p].sid <= gsid[p]
      BY <2>1 DEF MethodWaits, Exchange, HandedOut
    <2>4. QED
      BY <1>7, <2>1, <2>2, <2>3
  <1>9. HandedOut(p)' /\ OneAnswer(p)'
    <2>1. f.code = "request" => f.sid \in Sid /\ Asking(p, f.sid) /\ ~Asking(p, f.sid)'
      BY <1>4, <1>7 DEF Asking
    <2>2. f.code = "response" => f.sid \in {0, cur[p].obj}
      BY <1>7 DEF MethodWaits
    <2>3. f.code \notin {"request", "response"} => f.sid = 0 \/ ~Asking(p, f.sid)
      BY <1>7
    <2>4. QED
      BY <1>3, <1>6, <1>8, <2>1, <2>2, <2>3, AskerSends DEF Exchange
  <1>10. PICK q \in Peer : q = Other(p)
    BY <1>1
  <1>11. Other(q) = p /\ \A r \in Peer : r = p \/ r = q
    BY <1>10 DEF Peer, Other
  <1>12. HandedOut(q)' /\ OneAnswer(q)'
    <2>1. f.code = "response" => /\ f.did = cur[p].did /\ Told(p, f.did)
                                 /\ \A s \in Sid : ~Told(p, s)'
      BY <1>4, <1>7 DEF Told
    <2>2. f.code # "response" => \/ f.did = 0
                                 \/ \E r \in Sid : f.did = st[p][r].did /\ (Told(p, f.did) => r # cur[p].obj)
      <3>1. CASE f.did = 0
        BY <3>1
      <3>2. CASE f.did = st[p][t].did /\ t \in Sid /\ pc[p][t] = "send"
        <4>1. Told(p, f.did) => t # cur[p].obj
          BY <1>1, <3>2 DEF Told, MethodWaits, Serving, Answering
        <4>2. QED
          BY <3>2, <4>1
      <3>3. QED
        BY <1>7, <3>1, <3>2
    <2>3. HandedOut(q) /\ OneAnswer(q) /\ SamePeer(q)
      BY <1>10 DEF Exchange
    <2>4. /\ net'[q] = Append(net[q], f) /\ net'[Other(q)] = net[Other(q)]
          /\ cur'[Other(q)] = cur[Other(q)] /\ st'[Other(q)] = st[Other(q)]
          /\ \A s \in Sid : Told(Other(q), s)' => Told(Other(q), s)
          /\ f.code = "response" => /\ f.did = cur[Other(q)].did /\ Told(Other(q), f.did)
                                    /\ \A s \in Sid : ~Told(Other(q), s)'
          /\ f.code # "response" => \/ f.did = 0
                                    \/ \E r \in Sid : /\ f.did = st[Other(q)][r].did
                                                      /\ Told(Other(q), f.did) => r # cur[Other(q)].obj
      BY <1>3, <1>6, <1>10, <1>11, <2>1, <2>2
    <2>5. QED
      BY <2>3, <2>4, AnswererSends
  <1>13. QED
    BY <1>9, <1>11, <1>12 DEF Exchange

LEMMA ThreadOpen ==
  ASSUME TypeInv, FreshInv, ChannelInv, Exchange, NEW p \in Peer, MethodWaits(p), NEW t \in Thread, ThreadStep(p, t)
  PROVE  Exchange'
  <1>1. SamePeer(Other(p))
    BY ThreadOnlyPeer, PeerFacts
  <1>2. CASE net' = net
    <2>1. QuietStep(p)
      <3>1. Dropped(net[p], net'[p], 0) /\ Sid \subseteq Thread
        BY <1>2, Taken, ThreadFacts
      <3>2. \A s \in Sid : s \in tbl'[p] => s \in tbl[p] /\ st'[p][s].state = st[p][s].state
        BY <3>1, ThreadLocal
      <3>3. \A r \in Sid : st'[p][r].did \in {0, st[p][r].did}
        BY <3>1, ThreadLocal
      <3>4. /\ gsid'[p] = gsid[p] /\ cur'[p].obj = cur[p].obj /\ cur'[p].did = cur[p].did
            /\ \A s \in Sid : (Asking(p, s)' => Asking(p, s)) /\ (Told(p, s)' => Told(p, s))
        BY ThreadLocal
      <3>5. QED
        BY <1>2, <3>1, <3>2, <3>3, <3>4 DEF QuietStep
    <2>2. QED
      BY <1>1, <2>1, QuietOpen
  <1>3. CASE net' # net
    <2>1. corpc_proto_send(p, t) \/ corpc_proto_send_payload(p, t)
      BY <1>3 DEF ThreadStep, acquire_write_lock, send_data_done, release_write_lock, corpc_open_stream_wait,
         corpc_open_stream_fail, corpc_stream_read_internal, corpc_close_stream_erase
    <2>2. QED
      BY <1>1, <1>3, <2>1, SendOpen
  <1>4. QED
    BY <1>2, <1>3

-----------------------------------------------------------------------------

\* The method of the stream being accepted goes on waiting.
LEMMA WaitsThread ==
  ASSUME TypeInv, NEW p \in Peer, MethodWaits(p), NEW t \in Thread, ThreadStep(p, t)
  PROVE  MethodWaits(p)'
  <1>1. /\ CurTypes /\ ThreadTypes /\ 0 \in Thread /\ cur[p].obj \in Thread
    BY TypeParts, ThreadFacts DEF CurTypes
  <1>2. /\ UNCHANGED <<chst, cur>> /\ pc[p][t] # "none"
        /\ \A u \in Thread : u # t => pc'[p][u] = pc[p][u] /\ st'[p][u] = st[p][u]
        /\ \A s \in tbl[p] : s # t => s \in tbl'[p]
        /\ t = 0 => pc[p][0] \in Answering
    BY ThreadLocal
  <1>3. pc'[p][0] = pc[p][0] \/ pc[p][0] \in Answering
    BY <1>1, <1>2
  <1>4. pc'[p][0] \notin {"done", "crashed"} => established(p)'
    BY <1>2, <1>3 DEF MethodWaits, established, Answering
  <1>5. pc'[p][0] \in Serving => pc[p][0] \in Serving
    BY <1>3 DEF Serving
  <1>6. ASSUME pc'[p][0] \in Serving, cur[p].obj # 0
        PROVE  /\ cur[p].obj \in tbl'[p]
               /\ st'[p][cur[p].obj].state = "opening" /\ st'[p][cur[p].obj].rxq = << >>
               /\ pc'[p][cur[p].obj] \in {"none", "read"}
    <2>1. /\ cur[p].obj \in tbl[p]
          /\ st[p][cur[p].obj].state = "opening" /\ st[p][cur[p].obj].rxq = << >>
          /\ pc[p][cur[p].obj] \in {"none", "read"}
      BY <1>5, <1>6 DEF MethodWaits
    <2>2. CASE t # cur[p].obj
      BY <1>1, <1>2, <2>1, <2>2
    <2>3. CASE t = cur[p].obj
      <3>1. pc[p][t] = "read" /\ established(p)
        BY <1>2, <1>5, <1>6, <2>1, <2>3 DEF MethodWaits, Serving, Answering
      <3>2. NothingToRead(p, t)
        BY <2>1, <2>3, <3>1 DEF NothingToRead
      <3>3. corpc_stream_read_internal(p, t)
        BY <3>1 DEF ThreadStep, acquire_write_lock, corpc_proto_send, corpc_proto_send_payload, send_data_done,
           release_write_lock, corpc_open_stream_wait, corpc_open_stream_fail, corpc_close_stream_erase
      <3>4. UNCHANGED <<st, pc, tbl>>
        BY <2>1, <2>3, <3>2, <3>3 DEF corpc_stream_read_internal, threadVars
      <3>5. QED
        BY <2>1, <3>4
    <2>4. QED
      BY <2>2, <2>3
  <1>7. QED
    BY <1>2, <1>4, <1>6 DEF MethodWaits

LEMMA WaitsChannel ==
  ASSUME TypeInv, FreshInv, ChannelInv, Patient, NEW p \in Peer, MethodWaits(p), ChannelStep(p)
  PROVE  MethodWaits(p)'
  <1>1. StreamTypes /\ CurTypes /\ ThreadTypes /\ 0 \in Thread /\ cur[p].obj \in Thread /\ Sid \subseteq Thread /\ 0 \notin Sid
    BY TypeParts, ThreadFacts DEF CurTypes
  <1>2. CASE on_create_stream_request(p)
    <2>1. pc[p][0] = "recv" /\ chst' = chst /\ established(p) /\ Running(p)
      BY <1>2 DEF on_create_stream_request, Received, Receiving, chanVars, MethodWaits, Running
    <2>2. PICK m : m = Head(net[p])
      OBVIOUS
    <2>3. CASE m.info = "method" /\ Cardinality(tbl[p]) < MaxStreams
      <3>1. /\ gsid[p] < MaxSid
            /\ tbl'  = [tbl EXCEPT ![p] = @ \cup {gensid(p)}]
            /\ st'   = [st EXCEPT ![p][gensid(p)] = Stream("opening", m.sid, m.rwnd)]
            /\ cur'  = [cur EXCEPT ![p] = [obj |-> gensid(p), sid |-> 0, did |-> m.sid, rwnd |-> 0, status |-> "ok"]]
            /\ Goto(p, 0, "start")
        BY <1>2, <2>2, <2>3 DEF on_create_stream_request
      <3>2. PICK n \in Sid : n = gensid(p) /\ n > gsid[p]
        BY <3>1, NewSid
      <3>3. tbl'[p] = tbl[p] \cup {n}
        BY <1>1, <3>1, <3>2 DEF StreamTypes
      <3>4. cur'[p].obj = n /\ cur'[p].sid = 0
        BY <1>1, <3>1, <3>2 DEF CurTypes
      <3>5. st'[p][n].state = "opening" /\ st'[p][n].rxq = << >>
        BY <1>1, <3>1, <3>2 DEF StreamTypes, Stream
      <3>6. pc'[p][n] = "none"
        <4>1. pc[p][n] = "none"
          BY <2>1, <3>2 DEF FreshInv
        <4>2. QED
          BY <1>1, <3>1, <4>1 DEF ThreadTypes, Goto
      <3>7. QED
        BY <2>1, <3>3, <3>4, <3>5, <3>6 DEF MethodWaits, established
    <2>4. CASE ~(m.info = "method" /\ Cardinality(tbl[p]) < MaxStreams)
      <3>1. \E x : cur' = [cur EXCEPT ![p] = [obj |-> 0, sid |-> 0, did |-> m.sid, rwnd |-> 0, status |-> x]]
        BY <1>2, <2>2, <2>4 DEF on_create_stream_request
      <3>2. cur'[p].obj = 0 /\ cur'[p].sid = 0
        BY <1>1, <3>1 DEF CurTypes
      <3>3. QED
        BY <2>1, <3>2 DEF MethodWaits, established
    <2>5. QED
      BY <2>3, <2>4
  <1>3. CASE start_service_method_thread(p)
    <2>1. pc[p][0] = "start" /\ UNCHANGED <<chst, tbl, st>> /\ cur[p].obj \in Sid
      BY <1>3 DEF start_service_method_thread, chanVars, streamVars, ChannelInv, AnswerInv
    <2>2. \/ cur' = cur /\ pc' = [pc EXCEPT ![p][0] = "started", ![p][cur[p].obj] = "read"]
          \/ /\ \E x, y : cur' = [cur EXCEPT ![p].status = x, ![p].rwnd = y]
             /\ Goto(p, 0, "acquire")
      BY <1>3 DEF start_service_method_thread, Patient, Call
    <2>3. cur'[p].obj = cur[p].obj /\ cur'[p].sid = cur[p].sid
      BY <1>1, <2>2 DEF CurTypes
    <2>4. pc'[p][cur[p].obj] \in {pc[p][cur[p].obj], "read"}
      BY <1>1, <2>1, <2>2 DEF ThreadTypes, Goto
    <2>5. QED
      BY <2>1, <2>3, <2>4 DEF MethodWaits, established, Serving
  <1>4. CASE on_create_stream_request_reply(p)
    <2>1. pc[p][0] = "started" /\ UNCHANGED <<chst, tbl, st>> /\ cur[p].obj \in Sid /\ Goto(p, 0, "acquire")
      BY <1>4 DEF on_create_stream_request_reply, chanVars, streamVars, ChannelInv, AnswerInv, Call
    <2>2. cur[p].obj \in live[p]
      BY <1>1, <2>1 DEF MethodWaits, Serving, ChannelInv, TableInv
    <2>3. \E y : cur' = [cur EXCEPT ![p].sid = cur[p].obj, ![p].rwnd = y]
      BY <1>4, <2>2 DEF on_create_stream_request_reply, Deref
    <2>4. cur'[p].obj = cur[p].obj /\ cur'[p].sid = cur[p].obj
      BY <1>1, <2>3 DEF CurTypes
    <2>5. pc'[p][cur[p].obj] = pc[p][cur[p].obj]
      BY <1>1, <2>1 DEF ThreadTypes, Goto
    <2>6. QED
      BY <2>1, <2>4, <2>5 DEF MethodWaits, established, Serving
  <1>5. CASE \/ on_create_stream_request_done(p) \/ on_create_stream_responce(p) \/ on_close_stream_notify(p)
             \/ on_data_message(p) \/ on_data_message_unknown(p) \/ on_data_ack(p) \/ recv_fails(p)
             \/ corpc_channel_thread_end(p)
    <2>1. cur' = cur
      BY <1>5 DEF on_create_stream_request_done, on_create_stream_responce, on_close_stream_notify,
         on_data_message, on_data_message_unknown, on_data_ack, recv_fails, corpc_channel_thread_end
    <2>2. \/ pc'[p][0] \in {"recv", "shut"} /\ chst' = chst /\ pc[p][0] \in {"recv", "setstate"}
          \/ pc'[p][0] \in {"done", "crashed"}
      <3>1. CASE on_data_message_unknown(p)
        BY <1>1, <3>1 DEF on_data_message_unknown, ThreadTypes
      <3>2. CASE corpc_channel_thread_end(p)
        BY <1>1, <3>2 DEF corpc_channel_thread_end, ThreadTypes, Goto
      <3>3. CASE ~on_data_message_unknown(p) /\ ~corpc_channel_thread_end(p)
        <4>1. /\ pc[p][0] \in {"recv", "setstate"} /\ chst' = chst
              /\ (UNCHANGED pc /\ pc[p][0] = "recv") \/ \E l \in {"recv", "shut"} : Goto(p, 0, l)
          BY <1>5, <3>3 DEF on_create_stream_request_done, on_create_stream_responce, on_close_stream_notify,
             on_data_message, on_data_ack, recv_fails, DataReceived, Received, Receiving, chanVars, threadVars
        <4>2. QED
          BY <1>1, <4>1 DEF ThreadTypes, Goto
      <3>4. QED
        BY <3>1, <3>2, <3>3
    <2>3. pc'[p][0] \notin Serving
      BY <2>2 DEF Serving, Answering
    <2>4. pc'[p][0] \notin {"done", "crashed"} => established(p)'
      BY <2>2 DEF MethodWaits, established
    <2>5. QED
      BY <2>1, <2>3, <2>4 DEF MethodWaits
  <1>6. QED
    BY <1>2, <1>3, <1>4, <1>5 DEF ChannelStep

LEMMA WaitsApp ==
  ASSUME TypeInv, ChannelInv, Patient, NEW p \in Peer, MethodWaits(p), AppStep(p)
  PROVE  MethodWaits(p)'
  <1>1. StreamTypes /\ CurTypes /\ ThreadTypes /\ 0 \in Thread /\ cur[p].obj \in Thread /\ Sid \subseteq Thread /\ 0 \notin Sid
    BY TypeParts, ThreadFacts DEF CurTypes
  <1>2. UNCHANGED <<chst, cur>>
    BY DEF AppStep, corpc_open_stream, corpc_channel_close, corpc_stream_write, corpc_stream_read,
       corpc_close_stream, chanVars, Patient
  <1>3. PICK t \in Sid : /\ \A u \in Thread : u # t => pc'[p][u] = pc[p][u] /\ st'[p][u] = st[p][u]
                         /\ tbl[p] \subseteq tbl'[p]
                         /\ t \notin tbl[p] \/ pc[p][t] = "open"
    <2>1. CASE corpc_open_stream(p)
      <3>1. /\ gsid[p] < MaxSid
            /\ tbl'  = [tbl EXCEPT ![p] = @ \cup {gensid(p)}]
            /\ st'   = [st EXCEPT ![p][gensid(p)] = Stream("opening", 0, 0)]
            /\ Goto(p, gensid(p), "acquire")
        BY <2>1 DEF corpc_open_stream, Call
      <3>2. PICK n \in Sid : n = gensid(p) /\ n = gsid[p] + 1 /\ gsid[p] \in Nat
        BY <3>1, NewSid
      <3>3. n \notin tbl[p]
        BY <3>2 DEF ChannelInv, TableInv
      <3>4. \A u \in Thread : u # n => pc'[p][u] = pc[p][u] /\ st'[p][u] = st[p][u]
        BY <1>1, <3>1, <3>2 DEF StreamTypes, ThreadTypes, Goto
      <3>5. tbl[p] \subseteq tbl'[p]
        BY <1>1, <3>1 DEF StreamTypes
      <3>6. QED
        BY <3>3, <3>4, <3>5
    <2>2. CASE corpc_channel_close(p)
      BY <2>2 DEF corpc_channel_close, Patient
    <2>3. ASSUME NEW t \in Sid, corpc_stream_write(p, t) \/ corpc_stream_read(p, t) \/ corpc_close_stream(p, t)
          PROVE  /\ \A u \in Thread : u # t => pc'[p][u] = pc[p][u] /\ st'[p][u] = st[p][u]
                 /\ tbl[p] \subseteq tbl'[p]
                 /\ t \notin tbl[p] \/ pc[p][t] = "open"
      <3>1. UNCHANGED <<tbl, st>> /\ pc[p][t] = "open" /\ \E l : Goto(p, t, l)
        BY <2>3 DEF corpc_stream_write, corpc_stream_read, corpc_close_stream, Call, streamVars
      <3>2. QED
        BY <1>1, <3>1 DEF ThreadTypes, Goto
    <2>4. QED
      BY <2>1, <2>2, <2>3 DEF AppStep
  <1>4. pc'[p][0] = pc[p][0]
    BY <1>1, <1>3
  <1>5. ASSUME pc[p][0] \in Serving, cur[p].obj # 0
        PROVE  /\ cur[p].obj \in tbl'[p]
               /\ st'[p][cur[p].obj].state = "opening" /\ st'[p][cur[p].obj].rxq = << >>
               /\ pc'[p][cur[p].obj] \in {"none", "read"}
    <2>1. /\ cur[p].obj \in tbl[p]
          /\ st[p][cur[p].obj].state = "opening" /\ st[p][cur[p].obj].rxq = << >>
          /\ pc[p][cur[p].obj] \in {"none", "read"}
      BY <1>5 DEF MethodWaits
    <2>2. cur[p].obj # t
      BY <1>3, <2>1
    <2>3. QED
      BY <1>1, <1>3, <2>1, <2>2
  <1>6. QED
    BY <1>2, <1>4, <1>5 DEF MethodWaits, established

\* The two things StreamSurvivesOpen excludes.
LEMMA SurvivesNext ==
  ASSUME TypeInv, ChannelInv, Exchange, StreamSurvivesOpen, NEW p \in Peer, MethodWaits(p), ChannelStep(p) \/ AppStep(p)
  PROVE  StreamSurvivesOpen'
  <1>1. bug \cap {"use after free", "Invalid stream state"} = {}
    BY DEF StreamSurvivesOpen
  <1>2. CASE on_create_stream_request_reply(p) \/ (on_create_stream_request_done(p) /\ cur[p].obj # 0)
    <2>1. cur[p].obj \in live[p]
      <3>1. pc[p][0] \in Serving /\ cur[p].obj # 0
        BY <1>2, ThreadFacts DEF on_create_stream_request_reply, on_create_stream_request_done, ChannelInv, AnswerInv,
           Serving, Answering
      <3>2. QED
        BY <3>1 DEF MethodWaits, ChannelInv, TableInv
    <2>2. bug' = bug
      BY <1>2, <2>1 DEF on_create_stream_request_reply, on_create_stream_request_done, UseAfterFree
    <2>3. QED
      BY <1>1, <2>2 DEF StreamSurvivesOpen
  <1>3. CASE on_create_stream_responce(p)
    <2>1. PICK m : m = Head(net[p])
      OBVIOUS
    <2>2. m = net[p][1] /\ m.code = "response" /\ m.did \in Thread /\ 1 \in 1..Len(net[p])
      <3>1. Received(p, "response") /\ Consume(p)
        BY <1>3 DEF on_create_stream_responce
      <3>2. QED
        BY <2>1, <3>1, Taken, ReceivedFrame, HeadFacts
    <2>3. m.did \in tbl[p] => ResponseExpected(p, m.did)
      <3> SUFFICES ASSUME m.did \in tbl[p] PROVE ResponseExpected(p, m.did)
        OBVIOUS
      <3>1. m.did \in Sid
        BY TypeParts DEF StreamTypes
      <3>2. Pending(p, m.did)
        BY <2>2 DEF Pending, Answered
      <3>3. QED
        BY <3>1, <3>2 DEF Exchange, OneAnswer, AnswerOnce, ResponseExpected
    <2>4. bug' = bug
      BY <1>3, <2>1, <2>3 DEF on_create_stream_responce
    <2>5. QED
      BY <1>1, <2>4 DEF StreamSurvivesOpen
  <1>4. CASE ~(\/ on_create_stream_request_reply(p) \/ (on_create_stream_request_done(p) /\ cur[p].obj # 0)
               \/ on_create_stream_responce(p))
    <2>1. bug' \in {bug, bug \cup {"garbled frame"}, bug \cup {"ccfifo is full"}, bug \cup {"null stream"}}
      BY <1>4 DEF ChannelStep, AppStep, on_create_stream_request, start_service_method_thread,
         on_create_stream_request_done, on_close_stream_notify, on_data_message, on_data_message_unknown, on_data_ack,
         recv_fails, corpc_channel_thread_end, corpc_open_stream, corpc_channel_close, corpc_stream_write,
         corpc_stream_read, corpc_close_stream
    <2>2. QED
      BY <1>1, <2>1 DEF StreamSurvivesOpen
  <1>5. QED
    BY <1>2, <1>3, <1>4

LEMMA OpenNext ==
  ASSUME TypeInv, FreshInv, ChannelInv, OpenInv, [Next]_vars
  PROVE  OpenInv'
  <1> SUFFICES ASSUME Patient PROVE (\A q \in Peer : MethodWaits(q)') /\ Exchange' /\ StreamSurvivesOpen'
    BY DEF OpenInv, Exchange, Patient
  <1>1. (\A q \in Peer : MethodWaits(q)) /\ Exchange /\ StreamSurvivesOpen
    BY DEF OpenInv, Exchange
  <1>2. CASE UNCHANGED vars \/ LinkFails
    <2>1. UNCHANGED <<chst, net, gsid, tbl, st, pc, op, cur, bug>>
      BY <1>2 DEF vars, LinkFails, chanVars, streamVars, threadVars
    <2>2. \A q \in Peer : MethodWaits(q)'
      BY <1>1, <2>1 DEF MethodWaits, established
    <2>3. Exchange'
      <3>1. \A q \in Peer : \A s : /\ Asking(q, s)' <=> Asking(q, s)
                                   /\ Told(q, s)' <=> Told(q, s)
                                   /\ Unanswered(q, s)' <=> Unanswered(q, s)
                                   /\ Pending(q, s)' <=> Pending(q, s)
        BY <2>1 DEF Asking, Told, Unanswered, Pending
      <3>2. QED
        BY <1>1, <2>1, <3>1, PeerFacts DEF Exchange, HandedOut, OneAnswer, AnswerOnce
    <2>4. StreamSurvivesOpen'
      BY <1>1, <2>1 DEF StreamSurvivesOpen
    <2>5. QED
      BY <2>2, <2>3, <2>4
  <1>3. ASSUME NEW p \in Peer, SamePeer(Other(p)), MethodWaits(p)'
        PROVE  \A q \in Peer : MethodWaits(q)'
    <2>1. MethodWaits(Other(p))'
      BY <1>1, <1>3, PeerFacts DEF MethodWaits, SamePeer, established
    <2>2. \A q \in Peer : q = p \/ q = Other(p)
      BY DEF Peer, Other
    <2>3. QED
      BY <1>3, <2>1, <2>2
  <1>4. ASSUME NEW p \in Peer, NEW t \in Thread, ThreadStep(p, t)
        PROVE  (\A q \in Peer : MethodWaits(q)') /\ Exchange' /\ StreamSurvivesOpen'
    <2>1. SamePeer(Other(p))
      BY <1>4, ThreadOnlyPeer, PeerFacts
    <2>2. MethodWaits(p)'
      BY <1>1, <1>4, WaitsThread
    <2>3. Exchange'
      BY <1>1, <1>4, ThreadOpen
    <2>4. StreamSurvivesOpen'
      BY <1>1, <1>4, ThreadLocal DEF StreamSurvivesOpen
    <2>5. QED
      BY <1>3, <2>1, <2>2, <2>3, <2>4
  <1>5. ASSUME NEW p \in Peer, ChannelStep(p) \/ AppStep(p)
        PROVE  (\A q \in Peer : MethodWaits(q)') /\ Exchange' /\ StreamSurvivesOpen'
    <2>1. SamePeer(Other(p))
      BY <1>5, ChannelOnlyPeer, PeerFacts
    <2>2. MethodWaits(p)'
      BY <1>1, <1>5, WaitsChannel, WaitsApp
    <2>3. Exchange'
      <3>1. CASE on_create_stream_request(p)
        BY <1>1, <2>1, <3>1, RequestOpen
      <3>2. CASE corpc_open_stream(p)
        BY <1>1, <2>1, <3>2, OpenOpen
      <3>3. CASE QuietStep(p)
        BY <1>1, <2>1, <3>3, QuietOpen
      <3>4. QED
        BY <1>1, <1>5, <3>1, <3>2, <3>3, ReceiverQuiet, ChannelQuiet, CallsQuiet DEF ChannelStep, AppStep
    <2>4. StreamSurvivesOpen'
      BY <1>1, <1>5, SurvivesNext
    <2>5. QED
      BY <1>3, <2>1, <2>2, <2>3, <2>4
  <1>6. QED
    BY <1>2, <1>4, <1>5 DEF Next

LEMMA OpenInit == Init => OpenInv
  <1> SUFFICES ASSUME Init PROVE (\A p \in Peer : MethodWaits(p) /\ HandedOut(p) /\ OneAnswer(p)) /\ StreamSurvivesOpen
    BY DEF OpenInv
  <1>1. ASSUME NEW p \in Peer
        PROVE  /\ net[p] = << >> /\ gsid[p] = 0 /\ cur[p].obj = 0 /\ cur[p].did = 0 /\ cur[p].sid = 0
               /\ pc[p][0] = "recv" /\ established(p)
               /\ \A s \in Sid : st[p][s].did = 0 /\ pc[p][s] = "none"
    BY ThreadFacts DEF Init, Zeroed, Stream, established
  <1>2. ASSUME NEW p \in Peer PROVE MethodWaits(p)
    BY <1>1 DEF MethodWaits, Serving, Answering
  <1>3. ASSUME NEW p \in Peer PROVE HandedOut(p) /\ OneAnswer(p)
    <2>1. Other(p) \in Peer /\ Len(<< >>) = 0 /\ 1..0 = {}
      BY PeerFacts
    <2>2. \A s \in Sid : ~Asking(p, s) /\ ~Told(Other(p), s)
      BY <1>1, <2>1 DEF Asking, Told
    <2>3. 1..Len(net[p]) = {} /\ 1..Len(net[Other(p)]) = {}
      BY <1>1, <2>1
    <2>4. HandedOut(p)
      BY <1>1, <2>1, <2>3 DEF HandedOut
    <2>5. QED
      BY <2>2, <2>3, <2>4 DEF OneAnswer, AnswerOnce, RequestFirst, AnswerFirst, Unanswered, Pending, Requested, Answered
  <1>4. StreamSurvivesOpen
    BY DEF Init, StreamSurvivesOpen
  <1>5. QED
    BY <1>2, <1>3, <1>4

-----------------------------------------------------------------------------
(* The theorems.                                                           *)

\* The inductive invariant of the channel.
FullInv == LockInv /\ FreshInv /\ TypeInv /\ ChannelInv /\ SleepInv /\ WholeInv /\ OpenInv

LEMMA FullInductive == Spec => []FullInv
  <1>1. Init => FullInv
    <2>1. Init => SleepInv
      BY DEF Init, SleepInv
    <2>2. QED
      BY <2>1, InitLock, InitTypes, InitKeeps, WholeInit, OpenInit DEF FullInv
  <1>2. FullInv /\ [Next]_vars => FullInv'
    BY NextLock, NextTypes, NextKeeps, NextSleep, WholeNext, OpenNext DEF FullInv
  <1>3. QED
    BY <1>1, <1>2, PTL DEF Spec

\* Every variable keeps its type, whatever messages, failures and calls come in which order.
THEOREM ChannelTypeCorrect == Spec => []TypeOK
  <1>1. FullInv => TypeOK
    BY DEF FullInv, TypeInv
  <1>2. QED
    BY <1>1, FullInductive, PTL

\* No thread of either peer sleeps in channel_state_wait() while the condition it waits for
\* holds: no interleaving of acquire_write_lock, corpc_open_stream, the reader, the channel
\* thread's handlers and corpc_channel_close loses a wakeup.
THEOREM WakeupsReach == Spec => []NoLostWakeup
  <1>1. FullInv => NoLostWakeup
    BY DEF FullInv, SleepInv, NoLostWakeup
  <1>2. QED
    BY <1>1, FullInductive, PTL

\* channel_destroy() runs only when the application and the channel thread have both dropped
\* their reference and no stream, hence no thread using one, is left -- whichever of
\* corpc_channel_close, the end of corpc_channel_thread and corpc_close_stream comes last.
THEOREM DestroyIsLast == Spec => []DestroyedIsUnused
  <1>1. FullInv => DestroyedIsUnused
    <2> SUFFICES ASSUME FullInv, NEW p \in Peer, ~alive[p]
                 PROVE  tbl[p] = {} /\ ~held[p] /\ \A t \in Thread : pc[p][t] \in {"none", "done", "crashed"}
      BY DEF DestroyedIsUnused
    <2>1. TableInv(p) /\ RefsInv(p)
      BY DEF FullInv, ChannelInv
    <2>2. tbl[p] = {} /\ ~held[p] /\ pc[p][0] \in {"done", "crashed"}
      BY <2>1 DEF RefsInv
    <2>3. \A t \in Sid : pc[p][t] \in {"none", "done", "crashed"}
      BY <2>1, <2>2, ThreadFacts DEF TableInv, RefsInv
    <2>4. QED
      BY <2>2, <2>3, ThreadFacts
  <1>2. QED
    BY <1>1, FullInductive, PTL

\* The two sends of a data message are never separated by another thread's frame, so that the
\* checksum of corpc_proto_recv_msg() matches: the write lock covers both, and a thread that
\* gives up between them does so because nothing it sends arrives any more.
THEOREM NoTornMessage == Spec => []("garbled frame" \notin bug)
  <1>1. FullInv => "garbled frame" \notin bug
    BY DEF FullInv, WholeInv
  <1>2. QED
    BY <1>1, FullInductive, PTL

\* While on_create_stream_responce and the last section of on_create_stream_request run, the
\* stream they were called for is not freed, and the responce finds it still waiting -- when
\* methods read before they return and the application leaves the channel open (Patient): then
\* the answer is the first thing said of a new stream, and it is said once.
THEOREM AnswersFindStreams ==
  ASSUME Patient
  PROVE  Spec => []StreamSurvivesOpen
  <1>1. FullInv => StreamSurvivesOpen
    BY Patient DEF FullInv, OpenInv
  <1>2. QED
    BY <1>1, FullInductive, PTL

\* A stream that was refused, closed by the other peer or failed with a protocol error stays
\* so until it is freed: in particular the last section of on_create_stream_request, which sets
\* the state of the accepted stream without looking at it, never reopens one.
THEOREM NoReopening == Spec => ClosedStaysClosed
  <1>1. FullInv /\ [Next]_vars =>
          [\A p \in Peer : \A s \in Sid :
             /\ s \in tbl[p] /\ st[p][s].state \notin Usable
             => st'[p][s].state \notin Usable]_vars
    BY NextKeeps DEF FullInv, StaysClosed
  <1>2. QED
    BY <1>1, FullInductive, PTL DEF Spec, ClosedStaysClosed

=============================================================================
