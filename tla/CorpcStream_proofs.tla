------------------------- MODULE CorpcStream_proofs -------------------------
(***************************************************************************)
(* Proofs about the streams of CorpcChannel: as long as no stream is used  *)
(* after it was freed, its messages arrive once and in order, and its      *)
(* receive queue never overflows; and each direction of the first stream   *)
(* implements the credit-controlled FIFO of CorpcFlow (CorpcChannelFlow).  *)
(***************************************************************************)
EXTENDS CorpcChannel_proofs, CorpcChannelFlow, FiniteSetTheorems, FunctionTheorems

-----------------------------------------------------------------------------
(* The two ends of a stream.                                               *)

\* Something of peer p's takes its stream s and the other peer's r for the two ends of one
\* stream: the stream itself, the answer being given, or a frame on its way.
Says(p, s, r) ==
    \/ st[p][s].did = r
    \/ cur[p].sid = s /\ cur[p].did = r
    \/ \E i \in 1..Len(net[Other(p)]) : net[Other(p)][i].sid = s /\ net[Other(p)][i].did = r

Joined(p, s, r) == Says(p, s, r) \/ Says(Other(p), r, s)

\* A stream has one other end.
OneEnd(p) == \A s, r, z \in Sid : Joined(p, s, r) /\ Joined(p, s, z) => r = z

\* The ends of a stream have been handed out by gensid(); what has not been is unused.
Known(p) ==
    /\ \A s, r \in Sid : Joined(p, s, r) => s <= gsid[p]
    /\ \A s \in Sid : s > gsid[p] => nwr[p][s] = 0 /\ nrd[p][s] = 0

\* What p sends names the streams it is about.
WellFormed(x) ==
    /\ x.code \in {"request", "data", "ack", "close"} => x.sid # 0
    /\ x.code = "data" => x.did # 0
    /\ x.code = "response" /\ x.info = "ok" => x.sid # 0
    /\ x.code \in {"request", "response"} => x.rwnd <= QueueSize

Named(p) == \A i \in 1..Len(net[Other(p)]) : WellFormed(net[Other(p)][i])

\* The answer p's channel thread is giving.
Answer(p) ==
    /\ cur[p].rwnd <= QueueSize
    /\ pc[p][0] \in Serving => cur[p].did # 0
    /\ pc[p][0] \in Serving /\ cur[p].obj \in tbl[p] => st[p][cur[p].obj].did = cur[p].did
    /\ pc[p][0] \in {"acquire", "send"} /\ cur[p].status = "ok" => cur[p].sid # 0

\* Thread t of p is sending a message of its stream.
Writing(p, t) == op[p][t] = "data" /\ pc[p][t] \in {"send", "payload", "sent"}

Writer(p, t) ==
    /\ t \in tbl[p] /\ st[p][t].state = "opening" => nwr[p][t] = 0
    /\ t \in tbl[p] /\ st[p][t].state = "established" => st[p][t].did # 0
    /\ Writing(p, t) => /\ st[p][t].state # "opening" /\ st[p][t].did # 0
                        /\ pc[p][t] # "sent" => st[p][t].rwnd > 0
    /\ pc[p][t] = "payload" /\ ~Severed(p) =>
         LET f == net[Other(p)] IN
         Len(f) > 0 /\ f[Len(f)].code = "data" /\ f[Len(f)].sid = t /\ f[Len(f)].did = st[p][t].did

\* A stream p asked for and the other peer has not accepted yet.
Fresh(p, s) == Asking(p, s) \/ Requested(net[Other(p)], s)

Asker(p, s) ==
    /\ \/ pc[p][s] \in {"acquire", "send", "release"} /\ op[p][s] = "request"
       \/ pc[p][s] \in {"opening", "fail", "done", "crashed"}
    /\ s \in tbl[p] => st[p][s].state # "established" /\ st[p][s].rwnd = 0
    /\ st[p][s].rxq = << >> /\ nwr[p][s] = 0 /\ nrd[p][s] = 0
    /\ s <= gsid[p] /\ \A r \in Sid : ~Joined(p, s, r)

Request(p, s) ==
    /\ Fresh(p, s) => Asker(p, s)
    /\ Asking(p, s) => ~Requested(net[Other(p)], s)
    /\ \A i, j \in 1..Len(net[Other(p)]) :
         /\ net[Other(p)][i].code = "request" /\ net[Other(p)][i].sid = s
         /\ net[Other(p)][j].code = "request" /\ net[Other(p)][j].sid = s
         => i = j

-----------------------------------------------------------------------------
(* Credits and messages from stream s of p to stream r of the other peer.  *)

\* The reader has taken a message and not yet sent its acknowledgement.
Owes(q, r) == One(op[q][r] = "ack" /\ pc[q][r] \in {"acquire", "send"})

\* Acknowledgements that have arrived, or never will.
Returned(p, s, r) == nrd[Other(p)][r] - Owes(Other(p), r) - AcksFor(net[p], s)

\* The credits of the writer, used and unused.
Credits(p, s) == st[p][s].rwnd - One(pc[p][s] = "sent") + nwr[p][s]

\* Frame i of f is a message for stream r.
Carries(f, r, i) == /\ i \in 2..Len(f) /\ f[i].code = "payload"
                    /\ f[i - 1].code = "data" /\ f[i - 1].did = r

\* Of w messages sent, stream r has read got and queued n: what is on its way comes after
\* those, in order, and fits the queue ...
Ahead(f, r, got, n, w) ==
    /\ got + n <= w
    /\ \A i \in 1..Len(f) : Carries(f, r, i) =>
         got + n < f[i].seq /\ f[i].seq <= w /\ f[i].seq <= got + QueueSize
    /\ \A i, j \in 1..Len(f) : Carries(f, r, i) /\ Carries(f, r, j) /\ i < j => f[i].seq < f[j].seq

\* ... and, while the connection stands, no message is missing.
Exact(f, r, got, queue, w) ==
    /\ \A k \in 1..Len(queue) : queue[k] = got + k
    /\ \A n \in 1..w : got + Len(queue) < n => \E i \in 1..Len(f) : Carries(f, r, i) /\ f[i].seq = n

Flow(p, s, r) ==
    /\ Returned(p, s, r) >= 0
    /\ s \in tbl[p] => Credits(p, s) <= QueueSize + Returned(p, s, r)
    /\ r \in tbl[Other(p)] =>
         /\ Ahead(net[Other(p)], r, nrd[Other(p)][r], Len(st[Other(p)][r].rxq), nwr[p][s])
         /\ ~Severed(p) => Exact(net[Other(p)], r, nrd[Other(p)][r], st[Other(p)][r].rxq, nwr[p][s])

Flows(p) == \A s, r \in Sid : Joined(p, s, r) => Flow(p, s, r)

PeerStreams(p) ==
    /\ OneEnd(p) /\ Known(p) /\ Named(p) /\ Answer(p)
    /\ \A s \in Sid : Writer(p, s) /\ Request(p, s)
    /\ Flows(p)

\* The inductive invariant.
StreamInv == "use after free" \notin bug =>
               (\A p \in Peer : PeerStreams(p)) /\ "ccfifo is full" \notin bug

-----------------------------------------------------------------------------
(* What a thread's step does to its peer's state, point by point.          *)

\* Thread t of p is the only one to move, and stream t the only one touched.
OnlyThread(p, t) ==
    /\ UNCHANGED <<gsid, cur, bug>>
    /\ \A u \in Thread : u # t => pc'[p][u] = pc[p][u] /\ op'[p][u] = op[p][u] /\ st'[p][u] = st[p][u]
    /\ \A u \in Sid : u # t => nwr'[p][u] = nwr[p][u] /\ nrd'[p][u] = nrd[p][u]

\* It moves and touches nothing.
Idle(p, t) == st'[p] = st[p] /\ tbl'[p] = tbl[p] /\ nwr'[p] = nwr[p] /\ nrd'[p] = nrd[p]

Moves1(p, t, l, o) == pc'[p][t] = l /\ op'[p][t] = o

Sent1(p, x) == net'[p] = net[p] /\ net'[Other(p)] = Append(net[Other(p)], x)

NextPc(p, t) == IF op[p][t] = "data" THEN "payload" ELSE "release"

DoesMove(p, t) ==
    /\ Idle(p, t) /\ net' = net
    /\ \/ Moves1(p, t, pc[p][t], op[p][t])
       \/ /\ pc[p][t] = "acquire" /\ Moves1(p, t, "send", op[p][t])
          /\ op[p][t] = "data" => st[p][t].state = "established" /\ st[p][t].rwnd > 0
       \/ /\ pc[p][t] \in {"acquire", "release"} /\ \E b \in BOOLEAN : Moves1(p, t, After(op[p][t], b), "none")
          /\ pc[p][t] = "acquire" => NotConnected(p, t)
       \/ /\ pc[p][t] = "opening" /\ \E l \in {"open", "fail"} : Moves1(p, t, l, op[p][t])
          /\ pc'[p][t] = "open" => st[p][t].state = "established"
       \/ pc[p][t] = "read" /\ Moves1(p, t, "open", op[p][t])
       \/ pc[p][t] \in {"send", "payload"} /\ Moves1(p, t, "release", op[p][t]) /\ Severed(p)
       \/ pc[p][t] = "send" /\ Moves1(p, t, NextPc(p, t), op[p][t]) /\ Severed(p)

DoesSend(p, t) ==
    /\ Idle(p, t) /\ pc[p][t] = "send" /\ Moves1(p, t, NextPc(p, t), op[p][t]) /\ ~Severed(p)
    /\ \E x \in FirstFrames(p, t) : Sent1(p, x)

DoesPay(p, t) ==
    /\ pc[p][t] = "payload" /\ Moves1(p, t, "sent", op[p][t])
    /\ st'[p] = st[p] /\ tbl'[p] = tbl[p] /\ nrd'[p] = nrd[p]
    /\ t \in Sid /\ nwr'[p][t] = nwr[p][t] + 1
    /\ \/ net' = net /\ Severed(p)
       \/ ~Severed(p) /\ Sent1(p, Frame("payload", 0, 0, 0, "", nwr[p][t] + 1))

DoesCount(p, t) ==
    /\ pc[p][t] = "sent" /\ Moves1(p, t, "release", op[p][t])
    /\ st'[p][t] = [st[p][t] EXCEPT !.rwnd = @ - 1]
    /\ tbl'[p] = tbl[p] /\ nwr'[p] = nwr[p] /\ nrd'[p] = nrd[p] /\ net' = net

DoesErase(p, t) ==
    /\ pc[p][t] \in {"fail", "erase"} /\ Moves1(p, t, "done", op[p][t])
    /\ st'[p][t] = Zeroed /\ tbl'[p] = tbl[p] \ {t}
    /\ nwr'[p] = nwr[p] /\ nrd'[p] = nrd[p] /\ net' = net

DoesRead(p, t) ==
    /\ pc[p][t] = "read" /\ (Moves1(p, t, "acquire", "ack") \/ Moves1(p, t, "open", op[p][t]))
    /\ established(p) /\ st[p][t].state = "established" => Moves1(p, t, "acquire", "ack")
    /\ st[p][t].rxq # << >> /\ st'[p][t] = [st[p][t] EXCEPT !.rxq = Tail(@)]
    /\ t \in Sid /\ nrd'[p][t] = nrd[p][t] + 1
    /\ tbl'[p] = tbl[p] /\ nwr'[p] = nwr[p] /\ net' = net

LEMMA GotoAt ==
  ASSUME ThreadTypes, NEW p \in Peer, NEW t \in Thread, NEW l, Goto(p, t, l)
  PROVE  pc'[p][t] = l /\ \A u \in Thread : u # t => pc'[p][u] = pc[p][u]
  BY DEF ThreadTypes, Goto

LEMMA OpAt ==
  ASSUME ThreadTypes, NEW p \in Peer, NEW t \in Thread, NEW o, op' = [op EXCEPT ![p][t] = o]
  PROVE  op'[p][t] = o /\ \A u \in Thread : u # t => op'[p][u] = op[p][u]
  BY DEF ThreadTypes

LEMMA SendAt ==
  ASSUME TypeInv, NEW p \in Peer, NEW t \in Thread, NEW x, NEW l, SendFrame(p, t, x, l), op' = op
  PROVE  /\ \A u \in Thread : u # t => pc'[p][u] = pc[p][u] /\ op'[p][u] = op[p][u]
         /\ \/ ~Severed(p) /\ Sent1(p, x) /\ Moves1(p, t, l, op[p][t]) /\ ok'[p][t] = TRUE
            \/ Severed(p) /\ net' = net /\ Moves1(p, t, l, op[p][t]) /\ ok'[p][t] = TRUE
            \/ Severed(p) /\ net' = net /\ Moves1(p, t, "release", op[p][t]) /\ ok'[p][t] = FALSE
  <1>1. ThreadTypes /\ Other(p) \in Peer /\ Other(p) # p /\ net \in [Peer -> Seq(GoodFrames)]
    BY TypeParts, PeerFacts
  <1>2. \A b : ok' = [ok EXCEPT ![p][t] = b] => ok'[p][t] = b
    BY <1>1 DEF ThreadTypes
  <1>3. CASE /\ sock[p] /\ ~PeerGone(p) /\ net' = [net EXCEPT ![Other(p)] = Append(@, x)]
             /\ Goto(p, t, l) /\ ok' = [ok EXCEPT ![p][t] = TRUE]
    BY <1>1, <1>2, <1>3, GotoAt DEF Goto, ThreadTypes, Severed, Sent1, Moves1
  <1>4. CASE /\ PeerGone(p) /\ Goto(p, t, l) /\ ok' = [ok EXCEPT ![p][t] = TRUE] /\ UNCHANGED net
    BY <1>1, <1>2, <1>4, GotoAt DEF Goto, ThreadTypes, Severed, Moves1
  <1>5. CASE /\ ~sock[p] \/ PeerGone(p)
             /\ Goto(p, t, "release") /\ ok' = [ok EXCEPT ![p][t] = FALSE] /\ UNCHANGED net
    BY <1>1, <1>2, <1>5, GotoAt DEF Goto, ThreadTypes, Severed, Moves1
  <1>6. QED
    BY <1>3, <1>4, <1>5 DEF SendFrame

LEMMA ThreadEffect ==
  ASSUME TypeInv, NEW p \in Peer, NEW t \in Thread, ThreadStep(p, t)
  PROVE  /\ OnlyThread(p, t)
         /\ \/ DoesMove(p, t) \/ DoesSend(p, t) \/ DoesPay(p, t)
            \/ DoesCount(p, t) \/ DoesErase(p, t) \/ DoesRead(p, t)
  <1>1. /\ ThreadTypes /\ Roles /\ StreamTypes /\ CountTypes
        /\ 0 \in Thread /\ Sid \subseteq Thread /\ 0 \notin Sid /\ \A u \in Thread : u # 0 => u \in Sid
    BY TypeParts, ThreadFacts
  <1>2. /\ UNCHANGED <<gsid, cur, bug>>
        /\ \A u \in Thread : u # t => pc'[p][u] = pc[p][u] /\ op'[p][u] = op[p][u] /\ st'[p][u] = st[p][u]
    BY ThreadLocal
  <1>3. pc[p][t] \in {"payload", "read"} => t \in Sid
    BY <1>1 DEF Roles, Role, ChannelPCs
  <1>4. CASE acquire_write_lock(p, t)
    <2>1. pc[p][t] = "acquire" /\ UNCHANGED <<net, st, tbl, nwr, nrd>>
      BY <1>4 DEF acquire_write_lock, streamVars, countVars
    <2>2. CASE NotConnected(p, t) /\ Return(p, t, FALSE)
      <3>1. Moves1(p, t, After(op[p][t], FALSE), "none")
        BY <1>1, <2>2 DEF Return, Moves1, Goto, ThreadTypes
      <3>2. DoesMove(p, t)
        BY <2>1, <2>2, <3>1 DEF DoesMove, Idle
      <3>3. QED
        BY <1>2, <2>1, <3>2 DEF OnlyThread
    <2>3. CASE ~NotConnected(p, t) /\ LockIsFree(p, t) /\ Goto(p, t, "send") /\ UNCHANGED op
      <3>1. Moves1(p, t, "send", op[p][t])
        BY <1>1, <2>3, GotoAt DEF Moves1
      <3>2. op[p][t] = "data" => st[p][t].state = "established" /\ st[p][t].rwnd > 0
        BY <2>3 DEF NotConnected, LockIsFree
      <3>3. DoesMove(p, t)
        BY <2>1, <3>1, <3>2 DEF DoesMove, Idle
      <3>4. QED
        BY <1>2, <2>1, <3>3 DEF OnlyThread
    <2>4. CASE UNCHANGED <<pc, op>>
      BY <1>2, <2>1, <2>4 DEF OnlyThread, DoesMove, Idle, Moves1
    <2>5. QED
      BY <1>4, <2>2, <2>3, <2>4 DEF acquire_write_lock, threadVars
  <1>5. CASE corpc_proto_send(p, t)
    <2>1. pc[p][t] = "send" /\ UNCHANGED <<op, st, tbl, nwr, nrd>>
      BY <1>5 DEF corpc_proto_send, streamVars, countVars
    <2>2. PICK x \in FirstFrames(p, t) : SendFrame(p, t, x, NextPc(p, t))
      BY <1>5 DEF corpc_proto_send, NextPc
    <2>3. \/ ~Severed(p) /\ Sent1(p, x) /\ Moves1(p, t, NextPc(p, t), op[p][t])
          \/ Severed(p) /\ net' = net /\ Moves1(p, t, NextPc(p, t), op[p][t])
          \/ Severed(p) /\ net' = net /\ Moves1(p, t, "release", op[p][t])
      BY <2>1, <2>2, SendAt
    <2>4. DoesMove(p, t) \/ DoesSend(p, t)
      BY <2>1, <2>3 DEF DoesMove, DoesSend, Idle
    <2>5. QED
      BY <1>2, <2>1, <2>4 DEF OnlyThread
  <1>6. CASE corpc_proto_send_payload(p, t)
    <2>1. /\ pc[p][t] = "payload" /\ UNCHANGED <<op, st, tbl, nrd>> /\ t \in Sid
          /\ SendFrame(p, t, Frame("payload", 0, 0, 0, "", nwr[p][t] + 1), "sent")
          /\ nwr' = [nwr EXCEPT ![p][t] = IF ok'[p][t] THEN @ + 1 ELSE @]
      BY <1>3, <1>6 DEF corpc_proto_send_payload, streamVars
    <2>2. PICK x : x = Frame("payload", 0, 0, 0, "", nwr[p][t] + 1)
      OBVIOUS
    <2>3. \/ ~Severed(p) /\ Sent1(p, x) /\ Moves1(p, t, "sent", op[p][t]) /\ ok'[p][t] = TRUE
          \/ Severed(p) /\ net' = net /\ Moves1(p, t, "sent", op[p][t]) /\ ok'[p][t] = TRUE
          \/ Severed(p) /\ net' = net /\ Moves1(p, t, "release", op[p][t]) /\ ok'[p][t] = FALSE
      BY <2>1, <2>2, SendAt
    <2>4. /\ \A u \in Sid : u # t => nwr'[p][u] = nwr[p][u] /\ nrd'[p][u] = nrd[p][u]
          /\ ok'[p][t] = TRUE => nwr'[p][t] = nwr[p][t] + 1
      BY <1>1, <2>1 DEF CountTypes
    <2>5. ok'[p][t] = FALSE => nwr'[p] = nwr[p]
      <3> SUFFICES ASSUME ok'[p][t] = FALSE PROVE nwr'[p] = nwr[p]
        OBVIOUS
      <3>1. nwr' = [nwr EXCEPT ![p][t] = nwr[p][t]]
        BY <2>1
      <3>2. QED
        BY <1>1, <2>1, <3>1 DEF CountTypes
    <2>6. DoesMove(p, t) \/ DoesPay(p, t)
      BY <2>1, <2>2, <2>3, <2>4, <2>5 DEF DoesMove, DoesPay, Idle
    <2>7. QED
      BY <1>2, <2>4, <2>6 DEF OnlyThread
  <1>7. CASE send_data_done(p, t)
    <2>1. /\ pc[p][t] = "sent" /\ UNCHANGED <<op, tbl, nwr, nrd, net>> /\ Goto(p, t, "release")
          /\ st' = [st EXCEPT ![p][t] = [st[p][t] EXCEPT !.rwnd = @ - 1]]
      BY <1>7 DEF send_data_done, countVars
    <2>2. Moves1(p, t, "release", op[p][t])
      BY <1>1, <2>1, GotoAt DEF Moves1
    <2>3. st'[p][t] = [st[p][t] EXCEPT !.rwnd = @ - 1]
      BY <1>1, <2>1 DEF StreamTypes
    <2>4. QED
      BY <1>2, <2>1, <2>2, <2>3 DEF OnlyThread, DoesCount
  <1>8. CASE release_write_lock(p, t)
    <2>1. pc[p][t] = "release" /\ UNCHANGED <<net, st, tbl, nwr, nrd>> /\ Return(p, t, ok[p][t])
      BY <1>8 DEF release_write_lock, streamVars, countVars
    <2>2. Moves1(p, t, After(op[p][t], ok[p][t]), "none") /\ ok[p][t] \in BOOLEAN
      BY <1>1, <2>1, GotoAt, OpAt DEF Return, Moves1, ThreadTypes
    <2>3. DoesMove(p, t)
      BY <2>1, <2>2 DEF DoesMove, Idle
    <2>4. QED
      BY <1>2, <2>1, <2>3 DEF OnlyThread
  <1>9. CASE corpc_open_stream_wait(p, t)
    <2>1. pc[p][t] = "opening" /\ UNCHANGED <<net, st, tbl, nwr, nrd, op>>
      BY <1>9 DEF corpc_open_stream_wait, streamVars, countVars
    <2>2. CASE UNCHANGED pc
      BY <1>2, <2>1, <2>2 DEF OnlyThread, DoesMove, Idle, Moves1
    <2>3. CASE \E l \in {"open", "fail"} : Goto(p, t, l) /\ (l = "open" => st[p][t].state = "established")
      <3>1. PICK l \in {"open", "fail"} : Goto(p, t, l) /\ (l = "open" => st[p][t].state = "established")
        BY <2>3
      <3>2. Moves1(p, t, l, op[p][t])
        BY <1>1, <2>1, <3>1, GotoAt DEF Moves1
      <3>3. pc'[p][t] = "open" => st[p][t].state = "established"
        BY <3>1, <3>2 DEF Moves1
      <3>4. DoesMove(p, t)
        BY <2>1, <3>2, <3>3 DEF DoesMove, Idle
      <3>5. QED
        BY <1>2, <2>1, <3>4 DEF OnlyThread
    <2>4. QED
      BY <1>9, <2>2, <2>3 DEF corpc_open_stream_wait
  <1>10. CASE corpc_open_stream_fail(p, t) \/ corpc_close_stream_erase(p, t)
    <2>1. /\ pc[p][t] \in {"fail", "erase"} /\ UNCHANGED <<op, nwr, nrd, net>> /\ Goto(p, t, "done")
          /\ tbl' = [tbl EXCEPT ![p] = @ \ {t}] /\ st' = [st EXCEPT ![p][t] = Zeroed]
      BY <1>10 DEF corpc_open_stream_fail, corpc_close_stream_erase, EraseAndDestroy, countVars
    <2>2. Moves1(p, t, "done", op[p][t])
      BY <1>1, <2>1, GotoAt DEF Moves1
    <2>3. st'[p][t] = Zeroed /\ tbl'[p] = tbl[p] \ {t}
      BY <1>1, <2>1 DEF StreamTypes
    <2>4. QED
      BY <1>2, <2>1, <2>2, <2>3 DEF OnlyThread, DoesErase
  <1>11. CASE corpc_stream_read_internal(p, t)
    <2>1. pc[p][t] = "read" /\ t \in Sid /\ UNCHANGED <<net, tbl, nwr>>
      BY <1>3, <1>11 DEF corpc_stream_read_internal
    <2>2. CASE UNCHANGED <<st, nrd, pc, op>>
      BY <1>2, <2>1, <2>2 DEF OnlyThread, DoesMove, Idle, Moves1
    <2>3. CASE Goto(p, t, "open") /\ UNCHANGED <<st, nrd, op>>
      <3>1. Moves1(p, t, "open", op[p][t])
        BY <1>1, <2>3, GotoAt DEF Moves1
      <3>2. DoesMove(p, t)
        BY <2>1, <2>3, <3>1 DEF DoesMove, Idle
      <3>3. QED
        BY <1>2, <2>1, <2>3, <3>2 DEF OnlyThread
    <2>4. CASE /\ st[p][t].rxq # << >> /\ st' = [st EXCEPT ![p][t].rxq = Tail(@)]
               /\ nrd' = [nrd EXCEPT ![p][t] = @ + 1]
               /\ IF established(p) /\ st[p][t].state = "established"
                  THEN Call(p, t, "ack") ELSE Goto(p, t, "open") /\ UNCHANGED <<op, ok>>
      <3>1. IF established(p) /\ st[p][t].state = "established"
            THEN Moves1(p, t, "acquire", "ack") ELSE Moves1(p, t, "open", op[p][t])
        <4>1. ASSUME Call(p, t, "ack") PROVE Moves1(p, t, "acquire", "ack")
          BY <1>1, <4>1 DEF Moves1, Call, Goto, ThreadTypes
        <4>2. ASSUME Goto(p, t, "open"), UNCHANGED op PROVE Moves1(p, t, "open", op[p][t])
          BY <1>1, <4>2 DEF Moves1, Goto, ThreadTypes
        <4>3. QED
          BY <2>4, <4>1, <4>2
      <3>2. st' = [st EXCEPT ![p][t] = [st[p][t] EXCEPT !.rxq = Tail(@)]]
        BY <2>4
      <3>3. st'[p][t] = [st[p][t] EXCEPT !.rxq = Tail(@)]
        BY <1>1, <3>2 DEF StreamTypes
      <3>4. nrd'[p][t] = nrd[p][t] + 1 /\ \A u \in Sid : u # t => nrd'[p][u] = nrd[p][u]
        BY <1>1, <2>1, <2>4 DEF CountTypes
      <3>5. DoesRead(p, t)
        BY <2>1, <2>4, <3>1, <3>3, <3>4 DEF DoesRead
      <3>6. QED
        BY <1>2, <2>1, <3>4, <3>5 DEF OnlyThread
    <2>5. QED
      BY <1>11, <2>2, <2>3, <2>4 DEF corpc_stream_read_internal, threadVars
  <1>12. QED
    BY <1>4, <1>5, <1>6, <1>7, <1>8, <1>9, <1>10, <1>11 DEF ThreadStep

-----------------------------------------------------------------------------
(* The same for the application's calls and the channel thread.            *)

\* A call, or a move of the channel thread, that touches no stream.
DoesCall(p, t) ==
    /\ OnlyThread(p, t) /\ Idle(p, t) /\ net' = net
    /\ \/ /\ pc[p][t] = "open" /\ t # 0
          /\ \/ Moves1(p, t, "acquire", "data") /\ nwr[p][t] < MaxWrites[p]
             \/ Moves1(p, t, "acquire", "close") \/ Moves1(p, t, "read", op[p][t])
       \/ /\ t = 0 /\ pc[p][0] \in {"recv", "shut", "setstate"} /\ (pc[p][0] = "setstate" => cur[p].obj = 0)
          /\ \E l \in {"recv", "shut", "done"} : Moves1(p, 0, l, op[p][0])
       \/ Moves1(p, t, pc[p][t], op[p][t])

\* The channel thread moves; no other thread does.
ChannelMoves(p, l) == pc'[p][0] = l /\ \A u \in Sid : pc'[p][u] = pc[p][u]

SameOps(p)     == \A u \in Thread : op'[p][u] = op[p][u]
SameStreams(p) == st'[p] = st[p] /\ tbl'[p] = tbl[p]
SameCounts     == UNCHANGED <<nwr, nrd>>

\* The channel thread turns to its answer.
Answers(p) == ChannelMoves(p, "acquire") /\ op'[p][0] = "response" /\ \A u \in Sid : op'[p][u] = op[p][u]

\* Stream s is all that changes in the table.
OneStream(p, s, x) == s \in Sid /\ st'[p][s] = x /\ \A u \in Thread : u # s => st'[p][u] = st[p][u]

DoesStart(p) ==
    /\ pc[p][0] = "start" /\ pc'[p][0] = "started" /\ cur[p].obj \in Sid /\ pc'[p][cur[p].obj] \in {"read", "open"}
    /\ \A u \in Sid : u # cur[p].obj => pc'[p][u] = pc[p][u]
    /\ SameOps(p) /\ SameStreams(p) /\ SameCounts /\ UNCHANGED <<gsid, cur, net, bug>>

DoesAnswer(p) ==
    /\ pc[p][0] \in {"start", "started"} /\ Answers(p)
    /\ SameStreams(p) /\ SameCounts /\ UNCHANGED <<gsid, net, bug>>
    /\ cur'[p].obj = cur[p].obj /\ cur'[p].did = cur[p].did /\ cur'[p].rwnd <= QueueSize
    /\ \/ cur'[p].status # "ok" /\ cur'[p].sid = cur[p].sid
       \/ cur'[p].sid = cur[p].obj /\ cur[p].obj \in tbl[p] /\ cur'[p].rwnd = srwnd(p, cur[p].obj)

DoesEstablish(p) ==
    /\ pc[p][0] = "setstate" /\ ChannelMoves(p, "recv") /\ cur[p].obj \in tbl[p]
    /\ OneStream(p, cur[p].obj, [st[p][cur[p].obj] EXCEPT !.state = "established"]) /\ tbl'[p] = tbl[p]
    /\ SameOps(p) /\ SameCounts /\ UNCHANGED <<gsid, cur, net, bug>>

DoesDiscard(p) ==
    /\ pc[p][0] = "setstate" /\ ChannelMoves(p, "recv") /\ pc[p][cur[p].obj] = "none"
    /\ OneStream(p, cur[p].obj, Zeroed) /\ tbl'[p] = tbl[p] \ {cur[p].obj}
    /\ SameOps(p) /\ SameCounts /\ UNCHANGED <<gsid, cur, net, bug>>

\* The first frame is taken from the connection.
Takes(p, k, code) ==
    /\ pc[p][0] = "recv" /\ ~(net[p] = << >>)
    /\ Dropped(net[p], net'[p], k) /\ net'[Other(p)] = net[Other(p)] /\ net[p][1].code = code /\ k >= 1

DoesRefuse(p) ==
    /\ Takes(p, 1, "request") /\ Answers(p)
    /\ SameStreams(p) /\ SameCounts /\ UNCHANGED <<gsid, bug>>
    /\ cur'[p].obj = 0 /\ cur'[p].sid = 0 /\ cur'[p].did = net[p][1].sid
    /\ cur'[p].rwnd = 0 /\ cur'[p].status # "ok"

\* A new stream.
Creates(p, d, w) ==
    /\ gsid[p] < MaxSid /\ gsid' = [gsid EXCEPT ![p] = gensid(p)]
    /\ OneStream(p, gensid(p), Stream("opening", d, w)) /\ tbl'[p] = tbl[p] \cup {gensid(p)}
    /\ SameCounts /\ bug' = bug

DoesAccept(p) ==
    /\ Takes(p, 1, "request") /\ Creates(p, net[p][1].sid, net[p][1].rwnd)
    /\ ChannelMoves(p, "start") /\ SameOps(p)
    /\ cur'[p] = [obj |-> gensid(p), sid |-> 0, did |-> net[p][1].sid, rwnd |-> 0, status |-> "ok"]

DoesOpen(p) ==
    /\ Creates(p, 0, 0) /\ UNCHANGED <<cur, net>> /\ Running(p) /\ p \in Openers
    /\ pc'[p][gensid(p)] = "acquire" /\ op'[p][gensid(p)] = "request"
    /\ \A u \in Thread : u # gensid(p) => pc'[p][u] = pc[p][u] /\ op'[p][u] = op[p][u]

\* A frame about a stream: what the handler makes of stream s.
Handles(p) ==
    /\ ChannelMoves(p, "recv") \/ ChannelMoves(p, "shut")
    /\ SameOps(p) /\ SameCounts /\ UNCHANGED <<gsid, cur>> /\ tbl'[p] = tbl[p]

DoesResponse(p) ==
    LET m == net[p][1]
        s == m.did IN
    /\ Takes(p, 1, "response") /\ Handles(p)
    /\ \/ SameStreams(p)
       \/ /\ s \in tbl[p] /\ st[p][s].state = "opening" /\ m.info = "ok"
          /\ OneStream(p, s, [st[p][s] EXCEPT !.state = "established", !.did = m.sid, !.rwnd = m.rwnd])
       \/ /\ s \in tbl[p] /\ st[p][s].state = "opening"
          /\ \E x \in StreamState \ {"opening", "established"} : OneStream(p, s, [st[p][s] EXCEPT !.state = x])

DoesNotify(p) ==
    LET s == net[p][1].did IN
    /\ Takes(p, 1, "close") /\ Handles(p)
    /\ \/ SameStreams(p)
       \/ s \in tbl[p] /\ OneStream(p, s, [st[p][s] EXCEPT !.state = "closed_by_remote_party"])

DoesAck(p) ==
    LET s == net[p][1].did IN
    /\ Takes(p, 1, "ack") /\ Handles(p)
    /\ \/ s \notin tbl[p] /\ SameStreams(p)
       \/ s \in tbl[p] /\ OneStream(p, s, [st[p][s] EXCEPT !.rwnd = @ + 1])

DoesData(p) ==
    LET s == net[p][1].did IN
    /\ Takes(p, 2, "data") /\ Handles(p) /\ net[p][2].code = "payload" /\ s \in tbl[p]
    /\ \/ Len(st[p][s].rxq) >= QueueSize
       \/ /\ OneStream(p, s, [st[p][s] EXCEPT !.rxq = Append(@, net[p][2].seq)])
          /\ bug' = bug

DoesCrash(p) ==
    /\ Takes(p, 2, "data") /\ net[p][2].code = "payload"
    /\ tbl'[p] = {} /\ st'[p] = st[p] /\ \A t \in Thread : pc'[p][t] = "crashed" /\ op'[p][t] = op[p][t]
    /\ SameCounts /\ UNCHANGED <<gsid, cur>>

\* The frame a handler takes.
LEMMA TakesOne ==
  ASSUME TypeInv, NEW p \in Peer, NEW code, Received(p, code), Consume(p)
  PROVE  Takes(p, 1, code) /\ Head(net[p]) = net[p][1] /\ net[p][1] \in Frames
  <1>1. /\ Dropped(net[p], net'[p], 1) /\ Head(net[p]) = net[p][1] /\ net[p][1].code = code
        /\ net'[Other(p)] = net[Other(p)]
    BY Taken
  <1>2. Head(net[p]) \in Frames
    BY ReceivedFrame
  <1>3. QED
    BY <1>1, <1>2 DEF Takes, Received, Receiving

LEMMA TakesTwo ==
  ASSUME TypeInv, WholeInv, NEW p \in Peer, DataReceived(p), ConsumeData(p)
  PROVE  Takes(p, 2, "data") /\ Head(net[p]) = net[p][1] /\ net[p][2].code = "payload"
  <1>1. Dropped(net[p], net'[p], 2) /\ Head(net[p]) = net[p][1] /\ net'[Other(p)] = net[Other(p)]
    BY Taken
  <1>2. pc[p][0] = "recv" /\ ~(net[p] = << >>) /\ net[p][1].code = "data" /\ Len(net[p]) > 1
    BY <1>1 DEF DataReceived, Received, Receiving
  <1>3. Pairs(net[p]) /\ Len(net[p]) \in Nat
    <2>1. Other(p) \in Peer /\ Other(Other(p)) = p
      BY PeerFacts
    <2>2. QED
      BY <1>1, <2>1 DEF WholeInv, WholeMessages, Dropped
  <1>4. 1 \in 1..(Len(net[p]) - 1) /\ 1 + 1 = 2
    BY <1>2, <1>3
  <1>5. net[p][2].code = "payload"
    BY <1>2, <1>3, <1>4 DEF Pairs
  <1>6. QED
    BY <1>1, <1>2, <1>5 DEF Takes

\* What the channel thread does to the threads.
LEMMA ChannelAt ==
  ASSUME TypeInv, NEW p \in Peer
  PROVE  /\ \A l : Goto(p, 0, l) => ChannelMoves(p, l)
         /\ UNCHANGED pc => ChannelMoves(p, pc[p][0])
         /\ UNCHANGED op => SameOps(p)
         /\ Call(p, 0, "response") => Answers(p)
  <1>1. ThreadTypes /\ 0 \in Thread /\ Sid \subseteq Thread /\ 0 \notin Sid
    BY TypeParts, ThreadFacts
  <1>2. \A l : Goto(p, 0, l) => ChannelMoves(p, l)
    BY <1>1 DEF ThreadTypes, Goto, ChannelMoves
  <1>3. Call(p, 0, "response") => op'[p][0] = "response" /\ \A u \in Sid : op'[p][u] = op[p][u]
    BY <1>1 DEF ThreadTypes, Call
  <1>4. QED
    BY <1>1, <1>2, <1>3 DEF ChannelMoves, SameOps, Answers, Call

\* What it does to one stream.
LEMMA StreamAt ==
  ASSUME TypeInv, NEW p \in Peer, NEW s \in Sid
  PROVE  /\ \A x : st' = [st EXCEPT ![p][s] = x] => OneStream(p, s, x)
         /\ \A x : st' = [st EXCEPT ![p][s].state = x] => OneStream(p, s, [st[p][s] EXCEPT !.state = x])
         /\ \A x : st' = [st EXCEPT ![p][s].rwnd = x] => OneStream(p, s, [st[p][s] EXCEPT !.rwnd = x])
         /\ \A x : st' = [st EXCEPT ![p][s].rxq = x] => OneStream(p, s, [st[p][s] EXCEPT !.rxq = x])
         /\ \A x, d, w : st' = [st EXCEPT ![p][s].state = x, ![p][s].did = d, ![p][s].rwnd = w] =>
              OneStream(p, s, [st[p][s] EXCEPT !.state = x, !.did = d, !.rwnd = w])
  <1>1. st \in [Peer -> [Thread -> Streams]] /\ s \in Thread
    BY TypeParts, ThreadFacts DEF StreamTypes
  <1>2. ASSUME NEW x, st' = [st EXCEPT ![p][s] = x] PROVE OneStream(p, s, x)
    BY <1>1, <1>2 DEF OneStream
  <1>3. ASSUME NEW x, st' = [st EXCEPT ![p][s].state = x] PROVE OneStream(p, s, [st[p][s] EXCEPT !.state = x])
    BY <1>1, <1>3 DEF OneStream
  <1>4. ASSUME NEW x, st' = [st EXCEPT ![p][s].rwnd = x] PROVE OneStream(p, s, [st[p][s] EXCEPT !.rwnd = x])
    BY <1>1, <1>4 DEF OneStream
  <1>5. ASSUME NEW x, st' = [st EXCEPT ![p][s].rxq = x] PROVE OneStream(p, s, [st[p][s] EXCEPT !.rxq = x])
    BY <1>1, <1>5 DEF OneStream
  <1>6. ASSUME NEW x, NEW d, NEW w, st' = [st EXCEPT ![p][s].state = x, ![p][s].did = d, ![p][s].rwnd = w]
        PROVE  OneStream(p, s, [st[p][s] EXCEPT !.state = x, !.did = d, !.rwnd = w])
    BY <1>1, <1>6 DEF OneStream
  <1>7. QED
    BY <1>2, <1>3, <1>4, <1>5, <1>6

LEMMA RequestEffect ==
  ASSUME TypeInv, NEW p \in Peer, on_create_stream_request(p)
  PROVE  DoesAccept(p) \/ DoesRefuse(p)
  <1>1. /\ StreamTypes /\ CurTypes /\ Takes(p, 1, "request") /\ Head(net[p]) = net[p][1]
    BY TypeParts, TakesOne DEF on_create_stream_request
  <1>2. PICK m : m = net[p][1]
    OBVIOUS
  <1>3. UNCHANGED <<nwr, nrd, bug>>
    BY DEF on_create_stream_request, countVars
  <1>4. CASE m.info = "method" /\ Cardinality(tbl[p]) < MaxStreams
    <2>1. /\ gsid[p] < MaxSid
          /\ gsid' = [gsid EXCEPT ![p] = gensid(p)]
          /\ tbl'  = [tbl EXCEPT ![p] = @ \cup {gensid(p)}]
          /\ st'   = [st EXCEPT ![p][gensid(p)] = Stream("opening", m.sid, m.rwnd)]
          /\ cur'  = [cur EXCEPT ![p] = [obj |-> gensid(p), sid |-> 0, did |-> m.sid,
                                         rwnd |-> 0, status |-> "ok"]]
          /\ Goto(p, 0, "start") /\ UNCHANGED op
      BY <1>1, <1>2, <1>4 DEF on_create_stream_request
    <2>2. ChannelMoves(p, "start") /\ SameOps(p) /\ gensid(p) \in Sid
      BY <2>1, ChannelAt, NewSid
    <2>3. OneStream(p, gensid(p), Stream("opening", m.sid, m.rwnd))
      BY <2>1, <2>2, StreamAt
    <2>4. /\ tbl'[p] = tbl[p] \cup {gensid(p)}
          /\ cur'[p] = [obj |-> gensid(p), sid |-> 0, did |-> m.sid, rwnd |-> 0, status |-> "ok"]
      BY <1>1, <2>1 DEF StreamTypes, CurTypes
    <2>5. QED
      BY <1>1, <1>2, <1>3, <2>1, <2>2, <2>3, <2>4 DEF DoesAccept, Creates, SameCounts
  <1>5. CASE ~(m.info = "method" /\ Cardinality(tbl[p]) < MaxStreams)
    <2>1. PICK refusal \in {"no_service", "no_method", "no_stream_resources"} :
            cur' = [cur EXCEPT ![p] = [obj |-> 0, sid |-> 0, did |-> m.sid, rwnd |-> 0, status |-> refusal]]
      BY <1>1, <1>2, <1>5 DEF on_create_stream_request
    <2>2. Call(p, 0, "response") /\ UNCHANGED <<gsid, tbl, st>>
      BY <1>1, <1>2, <1>5 DEF on_create_stream_request, streamVars
    <2>3. Answers(p) /\ SameStreams(p)
      BY <2>2, ChannelAt DEF SameStreams
    <2>4. cur'[p] = [obj |-> 0, sid |-> 0, did |-> m.sid, rwnd |-> 0, status |-> refusal]
      BY <1>1, <2>1 DEF CurTypes
    <2>5. QED
      BY <1>1, <1>2, <1>3, <2>2, <2>3, <2>4 DEF DoesRefuse, SameCounts
  <1>6. QED
    BY <1>4, <1>5

\* The room in a queue.
LEMMA RoomBound ==
  ASSUME TypeInv, NEW p \in Peer, NEW s \in Thread
  PROVE  srwnd(p, s) \in Int /\ srwnd(p, s) <= QueueSize
  <1>1. st[p][s].rxq \in Seq(Nat)
    BY TypeParts DEF StreamTypes, Streams
  <1>2. Len(st[p][s].rxq) \in Nat
    BY <1>1, LenProperties
  <1>3. QED
    BY <1>2, BoundsAssumption DEF srwnd

LEMMA StartEffect ==
  ASSUME TypeInv, ChannelInv, NEW p \in Peer, start_service_method_thread(p)
  PROVE  DoesStart(p) \/ DoesAnswer(p)
  <1>1. /\ ThreadTypes /\ CurTypes /\ StreamTypes /\ Sid \subseteq Thread /\ 0 \in Thread /\ 0 \notin Sid
    BY TypeParts, ThreadFacts
  <1>2. pc[p][0] = "start" /\ UNCHANGED <<net, gsid, tbl, st, nwr, nrd, bug>>
    BY DEF start_service_method_thread, streamVars, countVars
  <1>3. cur[p].obj \in Sid
    BY <1>2 DEF ChannelInv, AnswerInv
  <1>4. CASE /\ \E l \in {"read", "open"} : pc' = [pc EXCEPT ![p][0] = "started", ![p][cur[p].obj] = l]
             /\ UNCHANGED <<cur, op>>
    <2>1. PICK l \in {"read", "open"} : pc' = [pc EXCEPT ![p][0] = "started", ![p][cur[p].obj] = l]
      BY <1>4
    <2>2. /\ pc'[p][0] = "started" /\ pc'[p][cur[p].obj] = l
          /\ \A u \in Sid : u # cur[p].obj => pc'[p][u] = pc[p][u]
      BY <1>1, <1>3, <2>1 DEF ThreadTypes
    <2>3. QED
      BY <1>2, <1>3, <1>4, <2>1, <2>2, ChannelAt DEF DoesStart, SameStreams, SameCounts
  <1>5. CASE /\ cur' = [cur EXCEPT ![p].status = "internal_error", ![p].rwnd = srwnd(p, cur[p].obj)]
             /\ Call(p, 0, "response")
    <2>1. PICK w : w = srwnd(p, cur[p].obj)
      OBVIOUS
    <2>2. w <= QueueSize
      BY <1>1, <1>3, <2>1, RoomBound
    <2>3. /\ cur'[p].obj = cur[p].obj /\ cur'[p].did = cur[p].did /\ cur'[p].sid = cur[p].sid
          /\ cur'[p].rwnd = w /\ cur'[p].status = "internal_error"
      BY <1>1, <1>5, <2>1 DEF CurTypes
    <2>4. QED
      BY <1>2, <1>5, <2>2, <2>3, ChannelAt DEF DoesAnswer, SameStreams, SameCounts
  <1>6. QED
    BY <1>4, <1>5 DEF start_service_method_thread

LEMMA ReplyEffect ==
  ASSUME TypeInv, ChannelInv, NEW p \in Peer, on_create_stream_request_reply(p), "use after free" \notin bug'
  PROVE  DoesAnswer(p)
  <1>1. CurTypes /\ StreamTypes /\ Sid \subseteq Thread /\ live[p] = tbl[p] /\ 0 \notin Sid /\ CountTypes
    BY TypeParts, ThreadFacts DEF ChannelInv, TableInv
  <1>2. /\ pc[p][0] = "started" /\ UNCHANGED <<net, gsid, tbl, st, nwr, nrd>> /\ Call(p, 0, "response")
        /\ bug' = bug \cup UseAfterFree(p, cur[p].obj)
    BY DEF on_create_stream_request_reply, streamVars, countVars
  <1>3. cur[p].obj \in live[p]
    BY <1>2 DEF UseAfterFree
  <1>4. bug' = bug
    BY <1>2, <1>3 DEF UseAfterFree
  <1>5. cur[p].obj \in Sid /\ cur[p].obj # 0
    BY <1>1, <1>3 DEF StreamTypes
  <1>6. cur' = [cur EXCEPT ![p].sid = cur[p].obj, ![p].rwnd = srwnd(p, cur[p].obj)]
    BY <1>3, <1>5 DEF on_create_stream_request_reply, Deref
  <1>7. PICK w : w = srwnd(p, cur[p].obj)
    OBVIOUS
  <1>8. w <= QueueSize
    BY <1>1, <1>5, <1>7, RoomBound
  <1>9. /\ cur'[p].obj = cur[p].obj /\ cur'[p].did = cur[p].did /\ cur'[p].sid = cur[p].obj /\ cur'[p].rwnd = w
    BY <1>1, <1>6, <1>7 DEF CurTypes
  <1>10. QED
    BY <1>1, <1>2, <1>3, <1>4, <1>7, <1>8, <1>9, ChannelAt DEF DoesAnswer, SameStreams, SameCounts

LEMMA DoneEffect ==
  ASSUME TypeInv, ChannelInv, NEW p \in Peer, on_create_stream_request_done(p), "use after free" \notin bug'
  PROVE  DoesCall(p, 0) \/ DoesEstablish(p) \/ DoesDiscard(p)
  <1>1. /\ CurTypes /\ StreamTypes /\ ThreadTypes /\ Sid \subseteq Thread /\ 0 \in Thread /\ 0 \notin Sid
        /\ \A u \in Thread : u # 0 => u \in Sid
        /\ live[p] = tbl[p]
    BY TypeParts, ThreadFacts DEF ChannelInv, TableInv
  <1>2. /\ pc[p][0] = "setstate" /\ Goto(p, 0, "recv") /\ UNCHANGED <<net, gsid, op, cur, nwr, nrd>>
    BY DEF on_create_stream_request_done, countVars
  <1>3. ChannelMoves(p, "recv") /\ SameOps(p)
    BY <1>2, ChannelAt
  <1>4. CASE cur[p].obj = 0 /\ UNCHANGED <<tbl, st, bug>>
    <2>1. /\ \A u \in Thread : u # 0 => pc'[p][u] = pc[p][u] /\ op'[p][u] = op[p][u] /\ st'[p][u] = st[p][u]
      BY <1>1, <1>2, <1>3, <1>4 DEF ChannelMoves
    <2>2. OnlyThread(p, 0) /\ Idle(p, 0) /\ Moves1(p, 0, "recv", op[p][0])
      BY <1>2, <1>3, <1>4, <2>1 DEF OnlyThread, Idle, Moves1, ChannelMoves
    <2>3. QED
      BY <1>2, <1>4, <2>2 DEF DoesCall
  <1>5. CASE /\ cur[p].obj # 0 /\ bug' = bug \cup UseAfterFree(p, cur[p].obj) /\ UNCHANGED tbl
             /\ \E o \in Deref(p, cur[p].obj) : st' = [st EXCEPT ![p][o].state = IF o = 0 THEN @ ELSE "established"]
    <2>1. cur[p].obj \in live[p] /\ bug' = bug
      BY <1>5 DEF UseAfterFree
    <2>2. PICK o : o = cur[p].obj
      OBVIOUS
    <2>3. o \in tbl[p] /\ o \in Sid /\ o # 0
      BY <1>1, <2>1, <2>2 DEF StreamTypes
    <2>4. st' = [st EXCEPT ![p][o].state = "established"]
      BY <1>5, <2>1, <2>2, <2>3 DEF Deref
    <2>5. OneStream(p, o, [st[p][o] EXCEPT !.state = "established"])
      BY <2>3, <2>4, StreamAt
    <2>6. QED
      BY <1>2, <1>3, <1>5, <2>1, <2>2, <2>3, <2>5 DEF DoesEstablish, SameCounts
  <1>6. CASE cur[p].obj # 0 /\ cur[p].status # "ok" /\ EraseAndDestroy(p, cur[p].obj) /\ UNCHANGED bug
    <2>1. PICK o : o = cur[p].obj
      OBVIOUS
    <2>2. o \in Sid
      BY <1>1, <1>6, <2>1 DEF CurTypes
    <2>3. st' = [st EXCEPT ![p][o] = Zeroed] /\ tbl'[p] = tbl[p] \ {o}
      BY <1>1, <1>6, <2>1 DEF EraseAndDestroy, StreamTypes
    <2>4. OneStream(p, o, Zeroed)
      BY <2>2, <2>3, StreamAt
    <2>5. pc[p][o] = "none"
      BY <1>2, <1>6, <2>1 DEF ChannelInv, AnswerInv, Answering
    <2>6. QED
      BY <1>2, <1>3, <1>6, <2>1, <2>3, <2>4, <2>5 DEF DoesDiscard, SameCounts
  <1>7. QED
    BY <1>4, <1>5, <1>6 DEF on_create_stream_request_done

LEMMA ResponseEffect ==
  ASSUME TypeInv, NEW p \in Peer, on_create_stream_responce(p)
  PROVE  DoesResponse(p)
  <1>1. /\ StreamTypes /\ Takes(p, 1, "response") /\ Head(net[p]) = net[p][1] /\ net[p][1] \in Frames
    BY TypeParts, TakesOne DEF on_create_stream_responce
  <1>2. /\ UNCHANGED <<nwr, nrd, gsid, cur, op, tbl>>
    BY DEF on_create_stream_responce, countVars
  <1>3. PICK m : m = net[p][1]
    OBVIOUS
  <1>4. PICK s : s = m.did
    OBVIOUS
  <1>5. pc[p][0] = "recv"
    BY <1>1 DEF Takes
  <1>6. Handles(p)
    <2>1. Goto(p, 0, "shut") \/ UNCHANGED pc
      BY DEF on_create_stream_responce
    <2>2. QED
      BY <1>2, <1>5, <2>1, ChannelAt DEF Handles, SameCounts
  <1>7. m.info \in Status
    BY <1>1, <1>3, ReceivedFrame DEF on_create_stream_responce
  <1>8. CASE UNCHANGED st
    BY <1>1, <1>2, <1>6, <1>8 DEF DoesResponse, SameStreams
  <1>9. CASE s \in tbl[p] /\ ResponseExpected(p, s) /\ m.info = "ok" /\
             st' = [st EXCEPT ![p][s].state = "established", ![p][s].did = m.sid, ![p][s].rwnd = m.rwnd]
    <2>1. s \in Sid
      BY <1>1, <1>9 DEF StreamTypes
    <2>2. OneStream(p, s, [st[p][s] EXCEPT !.state = "established", !.did = m.sid, !.rwnd = m.rwnd])
      BY <1>9, <2>1, StreamAt
    <2>3. QED
      BY <1>1, <1>3, <1>4, <1>6, <1>9, <2>2 DEF DoesResponse, ResponseExpected
  <1>10. CASE s \in tbl[p] /\ ResponseExpected(p, s) /\ m.info # "ok" /\
              st' = [st EXCEPT ![p][s].state = RefusedState(m.info)]
    <2>1. PICK x \in StreamState \ {"opening", "established"} : x = RefusedState(m.info)
      BY <1>7, <1>10 DEF RefusedState, Status, StreamState
    <2>2. s \in Sid
      BY <1>1, <1>10 DEF StreamTypes
    <2>3. OneStream(p, s, [st[p][s] EXCEPT !.state = x])
      BY <1>10, <2>1, <2>2, StreamAt
    <2>4. QED
      BY <1>1, <1>3, <1>4, <1>6, <1>10, <2>3 DEF DoesResponse, ResponseExpected
  <1>11. QED
    BY <1>1, <1>3, <1>4, <1>8, <1>9, <1>10 DEF on_create_stream_responce

LEMMA NotifyEffect ==
  ASSUME TypeInv, NEW p \in Peer, on_close_stream_notify(p)
  PROVE  DoesNotify(p)
  <1>1. /\ StreamTypes /\ Takes(p, 1, "close") /\ Head(net[p]) = net[p][1]
    BY TypeParts, TakesOne DEF on_close_stream_notify
  <1>2. /\ UNCHANGED <<nwr, nrd, gsid, cur, op, tbl, pc>>
    BY DEF on_close_stream_notify, countVars, threadVars
  <1>3. PICK s : s = net[p][1].did
    OBVIOUS
  <1>4. Handles(p)
    BY <1>1, <1>2, ChannelAt DEF Handles, SameCounts, Takes
  <1>5. CASE UNCHANGED st
    BY <1>1, <1>2, <1>4, <1>5 DEF DoesNotify, SameStreams
  <1>6. CASE s \in tbl[p] /\ st' = [st EXCEPT ![p][s].state = "closed_by_remote_party"]
    <2>1. s \in Sid
      BY <1>1, <1>6 DEF StreamTypes
    <2>2. OneStream(p, s, [st[p][s] EXCEPT !.state = "closed_by_remote_party"])
      BY <1>6, <2>1, StreamAt
    <2>3. QED
      BY <1>1, <1>3, <1>4, <1>6, <2>2 DEF DoesNotify
  <1>7. QED
    BY <1>1, <1>3, <1>5, <1>6 DEF on_close_stream_notify, SetState

LEMMA AckEffect ==
  ASSUME TypeInv, NEW p \in Peer, on_data_ack(p)
  PROVE  DoesAck(p)
  <1>1. /\ StreamTypes /\ Takes(p, 1, "ack") /\ Head(net[p]) = net[p][1]
    BY TypeParts, TakesOne DEF on_data_ack
  <1>2. /\ UNCHANGED <<nwr, nrd, gsid, cur, op, tbl, pc>>
    BY DEF on_data_ack, countVars, threadVars
  <1>3. PICK s : s = net[p][1].did
    OBVIOUS
  <1>4. Handles(p)
    BY <1>1, <1>2, ChannelAt DEF Handles, SameCounts, Takes
  <1>5. CASE s \notin tbl[p] /\ UNCHANGED st
    BY <1>1, <1>2, <1>3, <1>4, <1>5 DEF DoesAck, SameStreams
  <1>6. CASE s \in tbl[p] /\ st' = [st EXCEPT ![p][s].rwnd = @ + 1]
    <2>1. s \in Sid
      BY <1>1, <1>6 DEF StreamTypes
    <2>2. PICK w : w = st[p][s].rwnd + 1
      OBVIOUS
    <2>3. st' = [st EXCEPT ![p][s].rwnd = w]
      BY <1>6, <2>2
    <2>4. OneStream(p, s, [st[p][s] EXCEPT !.rwnd = w])
      BY <2>1, <2>3, StreamAt
    <2>5. OneStream(p, s, [st[p][s] EXCEPT !.rwnd = @ + 1])
      BY <2>2, <2>4
    <2>6. QED
      BY <1>1, <1>3, <1>4, <1>6, <2>5 DEF DoesAck
  <1>7. QED
    BY <1>1, <1>3, <1>5, <1>6 DEF on_data_ack

LEMMA DataEffect ==
  ASSUME TypeInv, WholeInv, NEW p \in Peer, on_data_message(p)
  PROVE  DoesData(p)
  <1>1. /\ StreamTypes /\ Takes(p, 2, "data") /\ Head(net[p]) = net[p][1] /\ net[p][2].code = "payload"
    BY TypeParts, TakesTwo DEF on_data_message
  <1>2. UNCHANGED <<nwr, nrd, gsid, cur, op, tbl>>
    BY DEF on_data_message, countVars
  <1>3. PICK s : s = net[p][1].did
    OBVIOUS
  <1>4. Handles(p)
    <2>1. Goto(p, 0, "shut") \/ UNCHANGED pc
      BY DEF on_data_message
    <2>2. QED
      BY <1>1, <1>2, <2>1, ChannelAt DEF Handles, SameCounts, Takes
  <1>5. s \in tbl[p] /\ s \in Sid
    BY <1>1, <1>3 DEF on_data_message, StreamTypes
  <1>6. CASE Len(st[p][s].rxq) >= QueueSize
    BY <1>1, <1>3, <1>4, <1>5, <1>6 DEF DoesData
  <1>7. CASE ~(Len(st[p][s].rxq) >= QueueSize)
    <2>1. st' = [st EXCEPT ![p][s].rxq = Append(@, net[p][2].seq)] /\ bug' = bug
      BY <1>1, <1>3, <1>7 DEF on_data_message
    <2>2. PICK x : x = Append(st[p][s].rxq, net[p][2].seq)
      OBVIOUS
    <2>3. st' = [st EXCEPT ![p][s].rxq = x]
      BY <2>1, <2>2
    <2>4. OneStream(p, s, [st[p][s] EXCEPT !.rxq = x])
      BY <1>5, <2>3, StreamAt
    <2>5. OneStream(p, s, [st[p][s] EXCEPT !.rxq = Append(@, net[p][2].seq)])
      BY <2>2, <2>4
    <2>6. QED
      BY <1>1, <1>3, <1>4, <1>5, <2>1, <2>5 DEF DoesData
  <1>8. QED
    BY <1>6, <1>7

LEMMA CrashEffect ==
  ASSUME TypeInv, WholeInv, NEW p \in Peer, on_data_message_unknown(p)
  PROVE  DoesCrash(p)
  <1>1. /\ StreamTypes /\ ThreadTypes /\ Takes(p, 2, "data") /\ net[p][2].code = "payload"
    BY TypeParts, TakesTwo DEF on_data_message_unknown
  <1>2. /\ UNCHANGED <<nwr, nrd, gsid, cur, op, st>>
        /\ pc' = [pc EXCEPT ![p] = [t \in Thread |-> "crashed"]] /\ tbl' = [tbl EXCEPT ![p] = {}]
    BY DEF on_data_message_unknown, countVars
  <1>3. tbl'[p] = {} /\ \A t \in Thread : pc'[p][t] = "crashed"
    BY <1>1, <1>2 DEF StreamTypes, ThreadTypes
  <1>4. QED
    BY <1>1, <1>2, <1>3 DEF DoesCrash, SameCounts

\* No stream is touched.
LEMMA CallEffect ==
  ASSUME TypeInv, NEW p \in Peer,
         \/ recv_fails(p) \/ corpc_channel_thread_end(p) \/ corpc_channel_close(p)
         \/ \E t \in Sid : corpc_stream_write(p, t) \/ corpc_stream_read(p, t) \/ corpc_close_stream(p, t)
  PROVE  \E t \in Thread : DoesCall(p, t)
  <1>1. ThreadTypes /\ 0 \in Thread /\ Sid \subseteq Thread /\ 0 \notin Sid
    BY TypeParts, ThreadFacts
  <1>2. UNCHANGED <<net, gsid, cur, bug, st, tbl, nwr, nrd>>
    BY DEF recv_fails, corpc_channel_thread_end, corpc_channel_close, corpc_stream_write, corpc_stream_read,
       corpc_close_stream, streamVars, countVars
  <1>3. CASE recv_fails(p) \/ corpc_channel_thread_end(p)
    <2>1. pc[p][0] \in {"recv", "shut"} /\ UNCHANGED op /\ \E l \in {"shut", "done"} : Goto(p, 0, l)
      BY <1>3 DEF recv_fails, corpc_channel_thread_end
    <2>2. PICK l \in {"shut", "done"} : Goto(p, 0, l)
      BY <2>1
    <2>3. Moves1(p, 0, l, op[p][0]) /\ \A u \in Thread : u # 0 => pc'[p][u] = pc[p][u]
      BY <1>1, <2>1, <2>2, GotoAt DEF Moves1
    <2>4. OnlyThread(p, 0) /\ Idle(p, 0)
      BY <1>2, <2>1, <2>3 DEF OnlyThread, Idle
    <2>5. QED
      BY <1>1, <1>2, <2>1, <2>3, <2>4 DEF DoesCall
  <1>4. CASE corpc_channel_close(p)
    <2>1. UNCHANGED <<pc, op>>
      BY <1>4 DEF corpc_channel_close, threadVars
    <2>2. QED
      BY <1>1, <1>2, <2>1 DEF DoesCall, OnlyThread, Idle, Moves1
  <1>5. CASE \E t \in Sid : corpc_stream_write(p, t) \/ corpc_stream_read(p, t) \/ corpc_close_stream(p, t)
    <2>1. PICK t \in Sid : corpc_stream_write(p, t) \/ corpc_stream_read(p, t) \/ corpc_close_stream(p, t)
      BY <1>5
    <2>2. /\ pc[p][t] = "open" /\ t \in Thread /\ t # 0
          /\ \/ Call(p, t, "data") /\ nwr[p][t] < MaxWrites[p]
             \/ Call(p, t, "close") \/ (Goto(p, t, "read") /\ UNCHANGED op)
      BY <1>1, <2>1 DEF corpc_stream_write, corpc_stream_read, corpc_close_stream
    <2>3. /\ \/ Moves1(p, t, "acquire", "data") /\ nwr[p][t] < MaxWrites[p]
             \/ Moves1(p, t, "acquire", "close") \/ Moves1(p, t, "read", op[p][t])
          /\ \A u \in Thread : u # t => pc'[p][u] = pc[p][u] /\ op'[p][u] = op[p][u]
      BY <1>1, <2>2 DEF Moves1, Call, Goto, ThreadTypes
    <2>4. OnlyThread(p, t) /\ Idle(p, t)
      BY <1>2, <2>3 DEF OnlyThread, Idle
    <2>5. QED
      BY <1>2, <2>2, <2>3, <2>4 DEF DoesCall
  <1>6. QED
    BY <1>3, <1>4, <1>5

LEMMA OpenEffect ==
  ASSUME TypeInv, ChannelInv, NEW p \in Peer, corpc_open_stream(p)
  PROVE  DoesOpen(p)
  <1>1. ThreadTypes /\ StreamTypes /\ 0 \in Thread /\ Sid \subseteq Thread
    BY TypeParts, ThreadFacts
  <1>2. /\ p \in Openers /\ gsid[p] < MaxSid /\ UNCHANGED <<net, cur, nwr, nrd, bug>>
        /\ gsid' = [gsid EXCEPT ![p] = gensid(p)]
        /\ tbl'  = [tbl EXCEPT ![p] = @ \cup {gensid(p)}]
        /\ st'   = [st EXCEPT ![p][gensid(p)] = Stream("opening", 0, 0)]
        /\ Call(p, gensid(p), "request")
    BY DEF corpc_open_stream
  <1>3. Running(p)
    <2>1. held[p] \/ Running(p)
      BY DEF corpc_open_stream
    <2>2. QED
      BY <2>1 DEF ChannelInv, RefsInv
  <1>4. gensid(p) \in Sid /\ gensid(p) \in Thread
    BY <1>2, NewSid
  <1>5. OneStream(p, gensid(p), Stream("opening", 0, 0))
    BY <1>2, <1>4, StreamAt
  <1>6. tbl'[p] = tbl[p] \cup {gensid(p)}
    BY <1>1, <1>2 DEF StreamTypes
  <1>7. PICK s \in Thread : s = gensid(p)
    BY <1>4
  <1>8. /\ pc'[p][s] = "acquire" /\ op'[p][s] = "request"
        /\ \A u \in Thread : u # s => pc'[p][u] = pc[p][u] /\ op'[p][u] = op[p][u]
    BY <1>1, <1>2, <1>7 DEF Call, Goto, ThreadTypes
  <1>9. QED
    BY <1>2, <1>3, <1>5, <1>6, <1>7, <1>8 DEF DoesOpen, Creates, SameCounts

-----------------------------------------------------------------------------
(* Counting acknowledgements and finding messages in a sequence of frames. *)

AckSet(f, s) == {i \in DOMAIN f : f[i].code = "ack" /\ f[i].did = s}

LEMMA AcksFinite ==
  ASSUME NEW S, NEW f \in Seq(S), NEW s
  PROVE  /\ IsFiniteSet(AckSet(f, s)) /\ AcksFor(f, s) = Cardinality(AckSet(f, s)) /\ AcksFor(f, s) \in Nat
         /\ AckSet(f, s) \subseteq 1..Len(f) /\ Len(f) \in Nat
  <1>1. DOMAIN f = 1..Len(f) /\ Len(f) \in Nat
    BY LenProperties
  <1>2. IsFiniteSet(1..Len(f))
    BY <1>1, FS_Interval
  <1>3. AckSet(f, s) \subseteq 1..Len(f)
    BY <1>1 DEF AckSet
  <1>4. IsFiniteSet(AckSet(f, s))
    BY <1>2, <1>3, FS_Subset
  <1>5. AcksFor(f, s) = Cardinality(AckSet(f, s))
    BY DEF AcksFor, AckSet
  <1>6. QED
    BY <1>1, <1>3, <1>4, <1>5, FS_CardinalityType

\* One more frame.
LEMMA AcksAppend ==
  ASSUME NEW S, NEW f \in Seq(S), NEW x \in S, NEW s
  PROVE  /\ x.code = "ack" /\ x.did = s => AcksFor(Append(f, x), s) = AcksFor(f, s) + 1
         /\ ~(x.code = "ack" /\ x.did = s) => AcksFor(Append(f, x), s) = AcksFor(f, s)
  <1>1. PICK g : g = Append(f, x)
    OBVIOUS
  <1>2. /\ Len(g) = Len(f) + 1 /\ Len(f) \in Nat /\ g[Len(f) + 1] = x /\ g \in Seq(S)
        /\ \A i \in 1..Len(f) : g[i] = f[i]
    BY <1>1, AppendProperties, LenProperties
  <1>3. DOMAIN g = 1..(Len(f) + 1) /\ DOMAIN f = 1..Len(f)
    BY <1>2, LenProperties
  <1>4. IsFiniteSet(AckSet(f, s)) /\ Len(f) + 1 \notin AckSet(f, s)
    BY <1>2, AcksFinite
  <1>5. AcksFor(f, s) = Cardinality(AckSet(f, s)) /\ AcksFor(g, s) = Cardinality(AckSet(g, s))
    BY <1>2, AcksFinite
  <1>6. CASE x.code = "ack" /\ x.did = s
    <2>1. AckSet(g, s) = AckSet(f, s) \cup {Len(f) + 1}
      BY <1>2, <1>3, <1>6 DEF AckSet
    <2>2. Cardinality(AckSet(g, s)) = Cardinality(AckSet(f, s)) + 1
      BY <1>4, <2>1, FS_AddElement
    <2>3. QED
      BY <1>1, <1>5, <1>6, <2>2
  <1>7. CASE ~(x.code = "ack" /\ x.did = s)
    <2>1. AckSet(g, s) = AckSet(f, s)
      BY <1>2, <1>3, <1>7 DEF AckSet
    <2>2. QED
      BY <1>1, <1>5, <1>7, <2>1
  <1>8. QED
    BY <1>6, <1>7

\* Frames are taken; in the second case the first of them was an acknowledgement of s.
LEMMA AcksDropped ==
  ASSUME NEW S, NEW f \in Seq(S), NEW g \in Seq(S), NEW k, Dropped(f, g, k), NEW s
  PROVE  /\ AcksFor(g, s) <= AcksFor(f, s)
         /\ k > 0 /\ f[1].code = "ack" /\ f[1].did = s => AcksFor(g, s) + 1 <= AcksFor(f, s)
  <1>1. /\ IsFiniteSet(AckSet(f, s)) /\ IsFiniteSet(AckSet(g, s)) /\ Len(f) \in Nat /\ Len(g) \in Nat /\ k \in Nat
        /\ AcksFor(f, s) = Cardinality(AckSet(f, s)) /\ AcksFor(g, s) = Cardinality(AckSet(g, s))
        /\ AcksFor(f, s) \in Nat /\ AcksFor(g, s) \in Nat
        /\ DOMAIN f = 1..Len(f) /\ DOMAIN g = 1..Len(g)
    BY AcksFinite, LenProperties DEF Dropped
  <1>2. PICK h : h = [i \in AckSet(g, s) |-> i + k]
    OBVIOUS
  <1>3. \A i \in AckSet(g, s) : h[i] = i + k /\ i + k \in AckSet(f, s) /\ i \in Nat /\ i >= 1
    BY <1>1, <1>2 DEF AckSet, Dropped
  <1>4. ASSUME NEW T, IsFiniteSet(T), \A i \in AckSet(g, s) : i + k \in T
        PROVE  Cardinality(AckSet(g, s)) <= Cardinality(T)
    <2>1. h \in [AckSet(g, s) -> T]
      BY <1>2, <1>4
    <2>2. \A a, b \in AckSet(g, s) : h[a] = h[b] => a = b
      BY <1>1, <1>3
    <2>3. h \in Injection(AckSet(g, s), T)
      BY <2>1, <2>2, Fun_IsInj
    <2>4. QED
      BY <1>4, <2>3, FS_Injection
  <1>5. Cardinality(AckSet(g, s)) <= Cardinality(AckSet(f, s))
    BY <1>1, <1>3, <1>4
  <1>6. ASSUME k > 0, f[1].code = "ack", f[1].did = s
        PROVE  Cardinality(AckSet(g, s)) + 1 <= Cardinality(AckSet(f, s))
    <2>1. 1 \in AckSet(f, s)
      BY <1>1, <1>6 DEF AckSet, Dropped
    <2>2. IsFiniteSet(AckSet(f, s) \ {1}) /\ Cardinality(AckSet(f, s) \ {1}) = Cardinality(AckSet(f, s)) - 1
      BY <1>1, <2>1, FS_RemoveElement
    <2>3. \A i \in AckSet(g, s) : i + k \in AckSet(f, s) \ {1}
      BY <1>1, <1>3, <1>6
    <2>4. Cardinality(AckSet(g, s)) <= Cardinality(AckSet(f, s) \ {1})
      BY <1>4, <2>2, <2>3
    <2>5. QED
      BY <1>1, <2>2, <2>4
  <1>7. QED
    BY <1>1, <1>5, <1>6

\* No acknowledgement of s.
LEMMA AcksNone ==
  ASSUME NEW S, NEW f \in Seq(S), NEW s, \A i \in 1..Len(f) : ~(f[i].code = "ack" /\ f[i].did = s)
  PROVE  AcksFor(f, s) = 0
  <1>1. AckSet(f, s) = {} /\ AcksFor(f, s) = Cardinality(AckSet(f, s))
    BY AcksFinite, LenProperties DEF AckSet
  <1>2. QED
    BY <1>1, FS_EmptySet

\* Messages for r, after one more frame and after frames are taken.
LEMMA CarriesAppend ==
  ASSUME NEW S, NEW f \in Seq(S), NEW x \in S, NEW r
  PROVE  /\ \A i \in 1..Len(f) : Append(f, x)[i] = f[i] /\ (Carries(Append(f, x), r, i) <=> Carries(f, r, i))
         /\ Carries(Append(f, x), r, Len(f) + 1) <=>
              Len(f) > 0 /\ x.code = "payload" /\ f[Len(f)].code = "data" /\ f[Len(f)].did = r
         /\ Append(f, x)[Len(f) + 1] = x /\ Len(Append(f, x)) = Len(f) + 1 /\ Len(f) \in Nat
  <1>1. PICK g : g = Append(f, x)
    OBVIOUS
  <1>2. /\ Len(g) = Len(f) + 1 /\ Len(f) \in Nat /\ g[Len(f) + 1] = x
        /\ \A i \in 1..Len(f) : g[i] = f[i]
    BY <1>1, AppendProperties, LenProperties
  <1>3. \A i \in 1..Len(f) : Carries(g, r, i) <=> Carries(f, r, i)
    <2> SUFFICES ASSUME NEW i \in 1..Len(f) PROVE Carries(g, r, i) <=> Carries(f, r, i)
      OBVIOUS
    <2>1. i \in 2..Len(g) <=> i \in 2..Len(f)
      BY <1>2
    <2>2. i \in 2..Len(f) => i - 1 \in 1..Len(f)
      BY <1>2
    <2>3. QED
      BY <1>2, <2>1, <2>2 DEF Carries
  <1>4. Carries(g, r, Len(f) + 1) <=> Len(f) > 0 /\ x.code = "payload" /\ f[Len(f)].code = "data" /\ f[Len(f)].did = r
    <2>1. Len(f) + 1 \in 2..Len(g) <=> Len(f) > 0
      BY <1>2
    <2>2. (Len(f) + 1) - 1 = Len(f) /\ (Len(f) > 0 => Len(f) \in 1..Len(f))
      BY <1>2
    <2>3. QED
      BY <1>2, <2>1, <2>2 DEF Carries
  <1>5. QED
    BY <1>1, <1>2, <1>3, <1>4

LEMMA CarriesDropped ==
  ASSUME NEW f, NEW g, NEW k, Dropped(f, g, k), NEW r, k > 0 => f[k].code # "data"
  PROVE  \A i \in 1..Len(g) : /\ i + k \in 1..Len(f) /\ g[i] = f[i + k] /\ i + k > k
                              /\ Carries(g, r, i) <=> Carries(f, r, i + k)
  <1> SUFFICES ASSUME NEW i \in 1..Len(g)
               PROVE  /\ i + k \in 1..Len(f) /\ g[i] = f[i + k] /\ i + k > k
                      /\ Carries(g, r, i) <=> Carries(f, r, i + k)
    OBVIOUS
  <1>1. /\ Len(f) \in Nat /\ Len(g) \in Nat /\ k \in Nat /\ Len(f) = Len(g) + k
        /\ \A j \in 1..Len(g) : g[j] = f[j + k]
    BY DEF Dropped
  <1>2. i + k \in 1..Len(f) /\ g[i] = f[i + k] /\ i + k > k
    BY <1>1
  <1>3. CASE i = 1
    <2>1. (i + k) - 1 = k /\ i \notin 2..Len(g)
      BY <1>1, <1>3
    <2>2. ~Carries(g, r, i)
      BY <2>1 DEF Carries
    <2>3. ~Carries(f, r, i + k)
      <3>1. CASE k = 0
        BY <1>1, <1>3, <3>1 DEF Carries
      <3>2. CASE k > 0
        BY <2>1, <3>2 DEF Carries
      <3>3. QED
        BY <1>1, <3>1, <3>2
    <2>4. QED
      BY <1>2, <2>2, <2>3
  <1>4. CASE i # 1
    <2>1. i - 1 \in 1..Len(g) /\ (i - 1) + k = (i + k) - 1 /\ i \in 2..Len(g) /\ i + k \in 2..Len(f)
      BY <1>1, <1>4
    <2>2. g[i - 1] = f[(i + k) - 1]
      BY <1>1, <2>1
    <2>3. QED
      BY <1>2, <2>1, <2>2 DEF Carries
  <1>5. QED
    BY <1>3, <1>4

-----------------------------------------------------------------------------
(* A stream's messages on their way, and in its queue.                     *)

LEMMA FrameSeq ==
  ASSUME NEW f \in Seq(GoodFrames)
  PROVE  Len(f) \in Nat /\ \A i \in 1..Len(f) : f[i] \in GoodFrames /\ f[i].seq \in Nat
  <1>1. \A i \in 1..Len(f) : f[i] \in GoodFrames
    BY ElementOfSeq
  <1>2. QED
    BY <1>1, LenProperties DEF GoodFrames, Frames

\* Nothing is on its way.
LEMMA NothingCarried ==
  ASSUME NEW f, NEW r, \A i \in 1..Len(f) : ~Carries(f, r, i)
  PROVE  Ahead(f, r, 0, 0, 0) /\ Exact(f, r, 0, << >>, 0)
  <1>1. Ahead(f, r, 0, 0, 0)
    BY BoundsAssumption DEF Ahead
  <1>2. Len(<< >>) = 0 /\ 1..0 = {}
    OBVIOUS
  <1>3. Exact(f, r, 0, << >>, 0)
    BY <1>2 DEF Exact
  <1>4. QED
    BY <1>1, <1>3

\* The reader takes a message from the queue.
LEMMA ReaderTakes ==
  ASSUME NEW f \in Seq(GoodFrames), NEW r, NEW got \in Nat, NEW queue \in Seq(Nat), NEW w \in Nat, queue # << >>,
         Ahead(f, r, got, Len(queue), w)
  PROVE  /\ Ahead(f, r, got + 1, Len(Tail(queue)), w)
         /\ Exact(f, r, got, queue, w) => Exact(f, r, got + 1, Tail(queue), w)
  <1>1. /\ Tail(queue) \in Seq(Nat) /\ Len(Tail(queue)) = Len(queue) - 1 /\ Len(queue) \in Nat /\ Len(queue) > 0
        /\ \A i \in 1..(Len(queue) - 1) : Tail(queue)[i] = queue[i + 1]
    BY TailFacts
  <1>2. Len(f) \in Nat /\ \A i \in 1..Len(f) : f[i].seq \in Nat
    BY FrameSeq
  <1>3. PICK n \in Nat : n = Len(queue)
    BY <1>1
  <1>4. (got + 1) + (n - 1) = got + n
    BY <1>1
  <1>5. Ahead(f, r, got + 1, n - 1, w)
    BY <1>2, <1>3, <1>4, BoundsAssumption DEF Ahead
  <1>6. ASSUME Exact(f, r, got, queue, w) PROVE Exact(f, r, got + 1, Tail(queue), w)
    <2>1. \A k \in 1..Len(Tail(queue)) : Tail(queue)[k] = (got + 1) + k
      <3> SUFFICES ASSUME NEW k \in 1..Len(Tail(queue)) PROVE Tail(queue)[k] = (got + 1) + k
        OBVIOUS
      <3>1. k \in 1..(Len(queue) - 1) /\ k + 1 \in 1..Len(queue)
        BY <1>1
      <3>2. Tail(queue)[k] = queue[k + 1] /\ queue[k + 1] = got + (k + 1)
        BY <1>1, <1>6, <3>1 DEF Exact
      <3>3. QED
        BY <3>1, <3>2
    <2>2. (got + 1) + Len(Tail(queue)) = got + Len(queue)
      BY <1>1
    <2>3. QED
      BY <1>6, <2>1, <2>2 DEF Exact
  <1>7. QED
    BY <1>1, <1>3, <1>5, <1>6

\* A frame that is no message for r is sent.
LEMMA OtherSent ==
  ASSUME NEW f \in Seq(GoodFrames), NEW x \in GoodFrames, NEW r, NEW got \in Nat, NEW queue, NEW w \in Nat,
         ~Carries(Append(f, x), r, Len(f) + 1)
  PROVE  /\ Ahead(f, r, got, Len(queue), w) => Ahead(Append(f, x), r, got, Len(queue), w)
         /\ Exact(f, r, got, queue, w) => Exact(Append(f, x), r, got, queue, w)
  <1>1. PICK g : g = Append(f, x)
    OBVIOUS
  <1>2. /\ \A i \in 1..Len(f) : g[i] = f[i] /\ (Carries(g, r, i) <=> Carries(f, r, i))
        /\ Len(g) = Len(f) + 1 /\ Len(f) \in Nat
    BY <1>1, CarriesAppend
  <1>3. \A i \in 1..Len(g) : Carries(g, r, i) => i \in 1..Len(f)
    BY <1>1, <1>2
  <1>4. Ahead(f, r, got, Len(queue), w) => Ahead(g, r, got, Len(queue), w)
    BY <1>2, <1>3 DEF Ahead
  <1>5. Exact(f, r, got, queue, w) => Exact(g, r, got, queue, w)
    <2>1. 1..Len(f) \subseteq 1..Len(g)
      BY <1>2
    <2>2. QED
      BY <1>2, <2>1 DEF Exact
  <1>6. QED
    BY <1>1, <1>4, <1>5

LEMMA FramesAppend ==
  ASSUME NEW f \in Seq(GoodFrames), NEW x \in GoodFrames, NEW r
  PROVE  /\ \A i \in 1..Len(f) : Append(f, x)[i] = f[i] /\ (Carries(Append(f, x), r, i) <=> Carries(f, r, i))
         /\ Carries(Append(f, x), r, Len(f) + 1) <=>
              Len(f) > 0 /\ x.code = "payload" /\ f[Len(f)].code = "data" /\ f[Len(f)].did = r
         /\ Append(f, x)[Len(f) + 1] = x /\ Len(Append(f, x)) = Len(f) + 1 /\ Len(f) \in Nat
  BY CarriesAppend

\* The next message for r is sent.
LEMMA MessageSent ==
  ASSUME NEW f \in Seq(GoodFrames), NEW x \in GoodFrames, NEW r, NEW got \in Nat, NEW queue \in Seq(Nat), NEW w \in Nat,
         Ahead(f, r, got, Len(queue), w), x.seq = w + 1, w + 1 <= got + QueueSize
  PROVE  /\ Ahead(Append(f, x), r, got, Len(queue), w + 1)
         /\ Exact(f, r, got, queue, w) /\ Carries(Append(f, x), r, Len(f) + 1)
              => Exact(Append(f, x), r, got, queue, w + 1)
  <1>1. PICK g : g = Append(f, x)
    OBVIOUS
  <1>2. /\ \A i \in 1..Len(f) : g[i] = f[i] /\ (Carries(g, r, i) <=> Carries(f, r, i))
        /\ Len(g) = Len(f) + 1 /\ Len(f) \in Nat /\ g[Len(f) + 1] = x
    <2>1. /\ \A i \in 1..Len(f) : Append(f, x)[i] = f[i] /\ (Carries(Append(f, x), r, i) <=> Carries(f, r, i))
          /\ Append(f, x)[Len(f) + 1] = x /\ Len(Append(f, x)) = Len(f) + 1 /\ Len(f) \in Nat
      BY FramesAppend
    <2>2. QED
      BY <1>1, <2>1
  <1>3. \A i \in 1..Len(g) : i \in 1..Len(f) \/ i = Len(f) + 1
    BY <1>2
  <1>4. \A i \in 1..Len(f) : f[i].seq \in Nat /\ i < Len(f) + 1
    BY <1>2, FrameSeq
  <1>5. PICK n \in Nat : n = Len(queue)
    BY LenProperties
  <1>6. /\ got + n <= w
        /\ \A i \in 1..Len(f) : Carries(f, r, i) => got + n < f[i].seq /\ f[i].seq <= w /\ f[i].seq <= got + QueueSize
        /\ \A i, j \in 1..Len(f) : Carries(f, r, i) /\ Carries(f, r, j) /\ i < j => f[i].seq < f[j].seq
    BY <1>5 DEF Ahead
  <1>7. \A i \in 1..Len(g) : Carries(g, r, i) => got + n < g[i].seq /\ g[i].seq <= w + 1 /\ g[i].seq <= got + QueueSize
    BY <1>2, <1>3, <1>4, <1>6
  <1>8. \A i, j \in 1..Len(g) : Carries(g, r, i) /\ Carries(g, r, j) /\ i < j => g[i].seq < g[j].seq
    <2> SUFFICES ASSUME NEW i \in 1..Len(g), NEW j \in 1..Len(g), Carries(g, r, i), Carries(g, r, j), i < j
                 PROVE  g[i].seq < g[j].seq
      OBVIOUS
    <2>1. i \in 1..Len(f)
      BY <1>2
    <2>2. CASE j \in 1..Len(f)
      BY <1>2, <1>6, <2>1, <2>2
    <2>3. CASE j = Len(f) + 1
      <3>1. g[j].seq = w + 1
        BY <1>2, <2>3
      <3>2. g[i].seq = f[i].seq /\ f[i].seq \in Nat /\ f[i].seq <= w
        BY <1>2, <1>4, <1>6, <2>1
      <3>3. QED
        BY <3>1, <3>2
    <2>4. QED
      BY <1>3, <2>2, <2>3
  <1>9. Ahead(g, r, got, n, w + 1)
    BY <1>6, <1>7, <1>8 DEF Ahead
  <1>10. ASSUME Exact(f, r, got, queue, w), Carries(g, r, Len(f) + 1) PROVE Exact(g, r, got, queue, w + 1)
    <2>1. ASSUME NEW m \in 1..(w + 1), got + Len(queue) < m
          PROVE  \E i \in 1..Len(g) : Carries(g, r, i) /\ g[i].seq = m
      <3>1. CASE m = w + 1
        <4>1. Len(f) + 1 \in 1..Len(g)
          BY <1>2
        <4>2. QED
          BY <1>2, <1>10, <3>1, <4>1
      <3>2. CASE m # w + 1
        <4>1. m \in 1..w
          BY <3>2
        <4>2. PICK i \in 1..Len(f) : Carries(f, r, i) /\ f[i].seq = m
          BY <1>10, <2>1, <4>1 DEF Exact
        <4>3. i \in 1..Len(g)
          BY <1>2
        <4>4. QED
          BY <1>2, <4>2, <4>3
      <3>3. QED
        BY <3>1, <3>2
    <2>2. QED
      BY <1>10, <2>1 DEF Exact
  <1>11. QED
    BY <1>1, <1>5, <1>9, <1>10

\* Frames are taken that are no messages for r.
LEMMA OtherTaken ==
  ASSUME NEW f \in Seq(GoodFrames), NEW g, NEW k, Dropped(f, g, k), NEW r, NEW got \in Nat, NEW queue, NEW w \in Nat,
         k > 0 => f[k].code # "data", \A i \in 1..k : ~Carries(f, r, i)
  PROVE  /\ Ahead(f, r, got, Len(queue), w) => Ahead(g, r, got, Len(queue), w)
         /\ Exact(f, r, got, queue, w) => Exact(g, r, got, queue, w)
  <1>1. /\ Len(f) \in Nat /\ Len(g) \in Nat /\ k \in Nat /\ Len(f) = Len(g) + k
    BY DEF Dropped
  <1>2. \A i \in 1..Len(g) : i + k \in 1..Len(f) /\ g[i] = f[i + k] /\ (Carries(g, r, i) <=> Carries(f, r, i + k))
    BY CarriesDropped
  <1>3. \A i, j \in 1..Len(g) : i < j => i + k < j + k
    BY <1>1
  <1>4. Ahead(f, r, got, Len(queue), w) => Ahead(g, r, got, Len(queue), w)
    <2> SUFFICES ASSUME Ahead(f, r, got, Len(queue), w) PROVE Ahead(g, r, got, Len(queue), w)
      OBVIOUS
    <2>1. \A i \in 1..Len(g) : Carries(g, r, i) =>
            got + Len(queue) < g[i].seq /\ g[i].seq <= w /\ g[i].seq <= got + QueueSize
      BY <1>2 DEF Ahead
    <2>2. \A i, j \in 1..Len(g) : Carries(g, r, i) /\ Carries(g, r, j) /\ i < j => g[i].seq < g[j].seq
      BY <1>2, <1>3 DEF Ahead
    <2>3. QED
      BY <2>1, <2>2 DEF Ahead
  <1>5. ASSUME Exact(f, r, got, queue, w) PROVE Exact(g, r, got, queue, w)
    <2>1. ASSUME NEW m \in 1..w, got + Len(queue) < m
          PROVE  \E i \in 1..Len(g) : Carries(g, r, i) /\ g[i].seq = m
      <3>1. PICK j \in 1..Len(f) : Carries(f, r, j) /\ f[j].seq = m
        BY <1>5, <2>1 DEF Exact
      <3>2. j \notin 1..k
        BY <3>1
      <3>3. j - k \in 1..Len(g) /\ (j - k) + k = j
        BY <1>1, <3>2
      <3>4. Carries(g, r, j - k) /\ g[j - k] = f[j]
        BY <1>2, <3>1, <3>3
      <3>5. QED
        BY <3>1, <3>3, <3>4
    <2>2. QED
      BY <1>5, <2>1 DEF Exact
  <1>6. QED
    BY <1>4, <1>5

\* A message for r is taken: there is room for it, and it is the next one.
LEMMA MessageTaken ==
  ASSUME NEW f \in Seq(GoodFrames), NEW g, Dropped(f, g, 2), NEW r, NEW got \in Nat, NEW queue \in Seq(Nat), NEW w \in Nat,
         Carries(f, r, 2), Ahead(f, r, got, Len(queue), w)
  PROVE  /\ Len(queue) < QueueSize
         /\ Ahead(g, r, got, Len(Append(queue, f[2].seq)), w)
         /\ Exact(f, r, got, queue, w) => Exact(g, r, got, Append(queue, f[2].seq), w)
  <1>1. /\ Len(f) \in Nat /\ Len(g) \in Nat /\ Len(f) = Len(g) + 2 /\ f[2].code = "payload" /\ f[1].code = "data"
    <2>1. 2 - 1 = 1
      OBVIOUS
    <2>2. QED
      BY <2>1 DEF Dropped, Carries
  <1>2. \A i \in 1..Len(g) : /\ i + 2 \in 1..Len(f) /\ g[i] = f[i + 2] /\ i + 2 > 2
                             /\ Carries(g, r, i) <=> Carries(f, r, i + 2)
    BY <1>1, CarriesDropped
  <1>3. 2 \in 1..Len(f) /\ \A i \in 1..Len(f) : f[i].seq \in Nat
    BY <1>1, FrameSeq
  <1>4. PICK v \in Nat : v = f[2].seq
    BY <1>3
  <1>5. PICK q2 : q2 = Append(queue, v)
    OBVIOUS
  <1>6. /\ Len(q2) = Len(queue) + 1 /\ Len(queue) \in Nat /\ q2[Len(queue) + 1] = v
        /\ \A i \in 1..Len(queue) : q2[i] = queue[i]
    BY <1>5, AppendProperties, LenProperties
  <1>7. got + Len(queue) < v /\ v <= w /\ v <= got + QueueSize
    BY <1>3, <1>4 DEF Ahead
  <1>8. Len(queue) < QueueSize
    BY <1>6, <1>7, BoundsAssumption
  <1>9. \A i \in 1..Len(g) : Carries(g, r, i) => v < g[i].seq /\ g[i].seq <= w /\ g[i].seq <= got + QueueSize
    BY <1>2, <1>3, <1>4 DEF Ahead
  <1>10. \A i, j \in 1..Len(g) : i < j => i + 2 < j + 2
    BY <1>1
  <1>11. \A i, j \in 1..Len(g) : Carries(g, r, i) /\ Carries(g, r, j) /\ i < j => g[i].seq < g[j].seq
    BY <1>2, <1>10 DEF Ahead
  <1>12. Ahead(g, r, got, Len(q2), w)
    <2>1. got + Len(q2) <= v
      BY <1>6, <1>7
    <2>2. \A i \in 1..Len(g) : g[i].seq \in Nat
      BY <1>2, <1>3
    <2>3. got + Len(q2) <= w
      BY <1>6, <1>7, <2>1
    <2>4. \A i \in 1..Len(g) : Carries(g, r, i) => got + Len(q2) < g[i].seq /\ g[i].seq <= w /\ g[i].seq <= got + QueueSize
      BY <1>6, <1>9, <2>1, <2>2
    <2>5. QED
      BY <1>11, <2>3, <2>4 DEF Ahead
  <1>13. ASSUME Exact(f, r, got, queue, w) PROVE Exact(g, r, got, q2, w)
    <2>1. v = got + Len(queue) + 1
      <3>1. PICK m \in 1..w : m = got + Len(queue) + 1
        BY <1>6, <1>7
      <3>2. got + Len(queue) < m
        BY <1>6, <3>1
      <3>3. PICK j \in 1..Len(f) : Carries(f, r, j) /\ f[j].seq = m
        BY <1>13, <3>2 DEF Exact
      <3>4. j = 2 \/ 2 < j
        BY <1>1, <3>3 DEF Carries
      <3>5. 2 < j => v < m
        BY <1>3, <1>4, <3>3 DEF Ahead
      <3>6. QED
        BY <1>4, <1>6, <1>7, <3>1, <3>3, <3>4, <3>5
    <2>2. \A k \in 1..Len(q2) : q2[k] = got + k
      <3> SUFFICES ASSUME NEW k \in 1..Len(q2) PROVE q2[k] = got + k
        OBVIOUS
      <3>1. CASE k \in 1..Len(queue)
        BY <1>6, <1>13, <3>1 DEF Exact
      <3>2. CASE k = Len(queue) + 1
        BY <1>6, <2>1, <3>2
      <3>3. QED
        BY <1>6, <3>1, <3>2
    <2>3. ASSUME NEW m \in 1..w, got + Len(q2) < m
          PROVE  \E i \in 1..Len(g) : Carries(g, r, i) /\ g[i].seq = m
      <3>1. got + Len(queue) < m
        BY <1>6, <2>3
      <3>2. PICK j \in 1..Len(f) : Carries(f, r, j) /\ f[j].seq = m
        BY <1>13, <3>1 DEF Exact
      <3>3. j # 2
        <4>1. m # v
          BY <1>6, <2>1, <2>3
        <4>2. QED
          BY <1>4, <3>2, <4>1
      <3>4. j > 2
        BY <1>1, <3>2, <3>3 DEF Carries
      <3>5. j - 2 \in 1..Len(g) /\ (j - 2) + 2 = j
        BY <1>1, <3>4
      <3>6. Carries(g, r, j - 2) /\ g[j - 2] = f[j]
        BY <1>2, <3>2, <3>5
      <3>7. QED
        BY <3>2, <3>5, <3>6
    <2>4. QED
      BY <2>2, <2>3 DEF Exact
  <1>14. QED
    BY <1>4, <1>5, <1>8, <1>12, <1>13

-----------------------------------------------------------------------------
(* A step of peer p, and what it leaves alone.                             *)

\* Peer p makes a step in a state in which the invariant holds.
StepOf(p) ==
    /\ FullInv /\ TypeInv' /\ PeerStreams(p) /\ PeerStreams(Other(p))
    /\ SamePeer(Other(p)) /\ nwr'[Other(p)] = nwr[Other(p)] /\ nrd'[Other(p)] = nrd[Other(p)]
    /\ \A a \in Peer : Severed(a) => Severed(a)'

LEMMA ThreadSteps ==
  ASSUME FullInv, TypeInv', NEW p \in Peer, PeerStreams(p), PeerStreams(Other(p)), NEW t \in Thread, ThreadStep(p, t)
  PROVE  StepOf(p)
  <1>1. TypeInv /\ CountTypes /\ ChanTypes /\ Other(p) \in Peer /\ Other(p) # p
    BY TypeParts, PeerFacts DEF FullInv
  <1>2. SamePeer(Other(p))
    BY <1>1, ThreadOnlyPeer
  <1>3. UNCHANGED <<link, sock>>
    BY DEF ThreadStep, acquire_write_lock, corpc_proto_send, corpc_proto_send_payload, send_data_done,
       release_write_lock, corpc_open_stream_wait, corpc_open_stream_fail, corpc_stream_read_internal,
       corpc_close_stream_erase, chanVars
  <1>4. nwr'[Other(p)] = nwr[Other(p)] /\ nrd'[Other(p)] = nrd[Other(p)]
    BY <1>1 DEF CountTypes, ThreadStep, acquire_write_lock, corpc_proto_send, corpc_proto_send_payload, send_data_done,
       release_write_lock, corpc_open_stream_wait, corpc_open_stream_fail, corpc_stream_read_internal,
       corpc_close_stream_erase, countVars
  <1>5. \A a \in Peer : Severed(a) => Severed(a)'
    BY <1>3 DEF Severed, PeerGone
  <1>6. QED
    BY <1>2, <1>4, <1>5 DEF StepOf

LEMMA ChannelSteps ==
  ASSUME FullInv, TypeInv', NEW p \in Peer, PeerStreams(p), PeerStreams(Other(p)), ChannelStep(p) \/ AppStep(p)
  PROVE  StepOf(p)
  <1>1. TypeInv /\ CountTypes /\ ChanTypes /\ Other(p) \in Peer /\ Other(p) # p
    BY TypeParts, PeerFacts DEF FullInv
  <1>2. SamePeer(Other(p))
    BY <1>1, ChannelOnlyPeer
  <1>3. link' = link /\ \A a \in Peer : sock'[a] => sock[a]
    BY <1>1 DEF ChanTypes, ChannelStep, AppStep, on_create_stream_request, start_service_method_thread,
       on_create_stream_request_reply, on_create_stream_request_done, on_create_stream_responce,
       on_close_stream_notify, on_data_message, on_data_message_unknown, on_data_ack, recv_fails,
       corpc_channel_thread_end, corpc_open_stream, corpc_channel_close, corpc_stream_write, corpc_stream_read,
       corpc_close_stream, close_internal, chanVars
  <1>4. UNCHANGED <<nwr, nrd>>
    BY DEF ChannelStep, AppStep, on_create_stream_request, start_service_method_thread,
       on_create_stream_request_reply, on_create_stream_request_done, on_create_stream_responce,
       on_close_stream_notify, on_data_message, on_data_message_unknown, on_data_ack, recv_fails,
       corpc_channel_thread_end, corpc_open_stream, corpc_channel_close, corpc_stream_write, corpc_stream_read,
       corpc_close_stream, countVars
  <1>5. \A a \in Peer : Severed(a) => Severed(a)'
    BY <1>3, SeveredStays
  <1>6. QED
    BY <1>2, <1>4, <1>5 DEF StepOf

\* Types, point by point.
LEMMA At ==
  ASSUME NEW p \in Peer, StepOf(p)
  PROVE  /\ \A t \in Thread : /\ pc[p][t] \in PCs /\ op[p][t] \in Ops /\ Role(t, pc[p][t], op[p][t])
                              /\ st[p][t] \in Streams /\ st'[p][t] \in Streams /\ st[p][t].did \in Thread
                              /\ st[p][t].rwnd \in Int /\ st[p][t].rxq \in Seq(Nat) /\ st'[p][t].rwnd \in Int
                              /\ st'[p][t].rxq \in Seq(Nat) /\ st'[p][t].did \in Thread
         /\ \A s \in Sid : /\ nwr[p][s] \in Nat /\ nrd[p][s] \in Nat /\ nwr'[p][s] \in Nat /\ nrd'[p][s] \in Nat
         /\ net[p] \in Seq(GoodFrames) /\ net'[p] \in Seq(GoodFrames)
         /\ net[Other(p)] \in Seq(GoodFrames) /\ net'[Other(p)] \in Seq(GoodFrames)
         /\ tbl[p] \subseteq Sid /\ gsid[p] \in Nat /\ gsid'[p] \in Nat /\ cur[p].sid \in Thread /\ cur[p].did \in Thread
         /\ cur[p].obj \in Thread /\ tbl'[p] \subseteq Sid
         /\ LockInv /\ FreshInv /\ TypeInv /\ TypeInv' /\ ChannelInv /\ WholeInv
  <1>1. /\ TypeInv /\ TypeInv' /\ StreamTypes /\ ThreadTypes /\ CurTypes /\ CountTypes /\ Roles
        /\ net \in [Peer -> Seq(GoodFrames)] /\ Other(p) \in Peer
    BY TypeParts, PeerFacts DEF StepOf, FullInv
  <1>2. StreamTypes' /\ CountTypes' /\ net' \in [Peer -> Seq(GoodFrames)]
    BY <1>1 DEF TypeInv, TypeOK
  <1>3. /\ \A t \in Thread : pc[p][t] \in PCs /\ op[p][t] \in Ops /\ Role(t, pc[p][t], op[p][t])
        /\ \A t \in Thread : st[p][t] \in Streams /\ st'[p][t] \in Streams
    BY <1>1, <1>2 DEF StreamTypes, ThreadTypes, Roles
  <1>4. /\ \A x \in Streams : x.did \in Thread /\ x.rwnd \in Int /\ x.rxq \in Seq(Nat)
    BY DEF Streams
  <1>5. \A s \in Sid : nwr[p][s] \in Nat /\ nrd[p][s] \in Nat /\ nwr'[p][s] \in Nat /\ nrd'[p][s] \in Nat
    BY <1>1, <1>2 DEF CountTypes
  <1>6. tbl[p] \subseteq Sid /\ gsid[p] \in Thread /\ gsid'[p] \in Thread /\ tbl'[p] \subseteq Sid
    BY <1>1, <1>2 DEF StreamTypes
  <1>7. cur[p].sid \in Thread /\ cur[p].did \in Thread /\ cur[p].obj \in Thread
    BY <1>1 DEF CurTypes
  <1>8. LockInv /\ FreshInv /\ ChannelInv /\ WholeInv
    BY DEF StepOf, FullInv
  <1>9. QED
    BY <1>1, <1>2, <1>3, <1>4, <1>5, <1>6, <1>7, <1>8, ThreadFacts

\* Fields of a stream of which one is changed.
LEMMA Fields ==
  ASSUME NEW x \in Streams
  PROVE  /\ \A v : LET y == [x EXCEPT !.state = v] IN
                   y.state = v /\ y.did = x.did /\ y.rwnd = x.rwnd /\ y.rxq = x.rxq
         /\ \A v : LET y == [x EXCEPT !.rwnd = v] IN
                   y.state = x.state /\ y.did = x.did /\ y.rwnd = v /\ y.rxq = x.rxq
         /\ \A v : LET y == [x EXCEPT !.rxq = v] IN
                   y.state = x.state /\ y.did = x.did /\ y.rwnd = x.rwnd /\ y.rxq = v
         /\ \A u, v, w : LET y == [x EXCEPT !.state = u, !.did = v, !.rwnd = w] IN
                   y.state = u /\ y.did = v /\ y.rwnd = w /\ y.rxq = x.rxq
  BY DEF Streams

-----------------------------------------------------------------------------
(* The ends of streams: only accepting a stream joins two.                 *)

\* Nothing new is said of which streams belong together.
Quiet(p) == \A s, r \in Sid : Says(p, s, r)' => Joined(p, s, r)

LEMMA JoinedTwice ==
  ASSUME NEW p \in Peer
  PROVE  \A s, r : (Joined(p, s, r) <=> Joined(Other(p), r, s)) /\ (Joined(p, s, r)' <=> Joined(Other(p), r, s)')
  BY PeerFacts DEF Joined

LEMMA StillSays ==
  ASSUME NEW p \in Peer, StepOf(p), NEW k, Dropped(net[p], net'[p], k)
  PROVE  \A s, r : Says(Other(p), r, s)' => Says(Other(p), r, s)
  <1>1. Other(Other(p)) = p /\ SamePeer(Other(p))
    BY PeerFacts DEF StepOf
  <1>2. \A i \in 1..Len(net'[p]) : i + k \in 1..Len(net[p]) /\ net'[p][i] = net[p][i + k]
    BY DEF Dropped
  <1>3. QED
    BY <1>1, <1>2 DEF Says, SamePeer

LEMMA QuietEnds ==
  ASSUME NEW p \in Peer, StepOf(p), NEW k, Dropped(net[p], net'[p], k), Quiet(p), gsid'[p] >= gsid[p]
  PROVE  /\ \A s, r \in Sid : Joined(p, s, r)' => Joined(p, s, r)
         /\ OneEnd(p)' /\ OneEnd(Other(p))'
         /\ \A s, r \in Sid : Joined(p, s, r)' => s <= gsid'[p] /\ r <= gsid'[Other(p)]
  <1>1. \A s, r \in Sid : Joined(p, s, r)' => Joined(p, s, r)
    BY StillSays DEF Quiet, Joined
  <1>2. \A s, r : (Joined(p, s, r) <=> Joined(Other(p), r, s)) /\ (Joined(p, s, r)' <=> Joined(Other(p), r, s)')
    BY JoinedTwice
  <1>3. OneEnd(p) /\ OneEnd(Other(p)) /\ Known(p) /\ Known(Other(p)) /\ SamePeer(Other(p))
    BY DEF StepOf, PeerStreams
  <1>4. OneEnd(p)' /\ OneEnd(Other(p))'
    BY <1>1, <1>2, <1>3 DEF OneEnd
  <1>5. \A s, r \in Sid : Joined(p, s, r) => s <= gsid[p] /\ r <= gsid[Other(p)]
    BY <1>2, <1>3 DEF Known
  <1>6. \A s \in Sid : s <= gsid[p] => s <= gsid'[p]
    BY At, ThreadFacts
  <1>7. gsid'[Other(p)] = gsid[Other(p)]
    BY <1>3 DEF SamePeer
  <1>8. QED
    BY <1>1, <1>4, <1>5, <1>6, <1>7

-----------------------------------------------------------------------------
(* The peer that makes no step: it only loses the frames p takes.          *)

LEMMA PassivePeer ==
  ASSUME NEW p \in Peer, StepOf(p), NEW q \in Peer, q = Other(p),
         NEW k, Dropped(net[p], net'[p], k), k > 0 => net[p][k].code # "data",
         \A s, r \in Sid : Fresh(q, s)' /\ Joined(q, s, r)' => Joined(q, s, r)
  PROVE  /\ Named(q)' /\ Answer(q)'
         /\ \A s \in Sid : s > gsid'[q] => nwr'[q][s] = 0 /\ nrd'[q][s] = 0
         /\ \A s \in Sid : Writer(q, s)' /\ Request(q, s)'
  <1>1. /\ Other(q) = p /\ SamePeer(q) /\ nwr'[q] = nwr[q] /\ nrd'[q] = nrd[q] /\ (Severed(q) => Severed(q)')
        /\ PeerStreams(q)
    BY PeerFacts DEF StepOf
  <1>2. PICK f : f = net[p]
    OBVIOUS
  <1>3. PICK g : g = net'[p]
    OBVIOUS
  <1>4. /\ Len(f) \in Nat /\ Len(g) \in Nat /\ k \in Nat /\ Len(f) = Len(g) + k
        /\ \A i \in 1..Len(g) : i + k \in 1..Len(f) /\ g[i] = f[i + k]
        /\ \A i, j \in 1..Len(g) : i + k = j + k => i = j
    BY <1>2, <1>3 DEF Dropped
  <1>5. Named(q)'
    <2>1. \A i \in 1..Len(f) : WellFormed(f[i])
      BY <1>1, <1>2 DEF PeerStreams, Named
    <2>2. \A i \in 1..Len(g) : WellFormed(g[i])
      BY <1>4, <2>1
    <2>3. QED
      BY <1>1, <1>3, <2>2 DEF Named, WellFormed
  <1>6. Answer(q)'
    BY <1>1 DEF PeerStreams, Answer, SamePeer
  <1>7. \A s \in Sid : s > gsid'[q] => nwr'[q][s] = 0 /\ nrd'[q][s] = 0
    BY <1>1 DEF PeerStreams, Known, SamePeer
  <1>8. ASSUME NEW s \in Sid PROVE Writer(q, s)'
    <2>1. Writer(q, s)
      BY <1>1 DEF PeerStreams
    <2>2. ASSUME Len(f) > 0, f[Len(f)].code = "data" PROVE Len(g) > 0 /\ g[Len(g)] = f[Len(f)]
      <3>1. k < Len(f)
        <4>1. k = Len(f) => f[k].code = "data" /\ k > 0
          BY <2>2
        <4>2. QED
          BY <1>2, <1>4, <4>1
      <3>2. Len(g) \in 1..Len(g) /\ Len(g) + k = Len(f)
        BY <1>4, <3>1
      <3>3. QED
        BY <1>4, <3>1, <3>2
    <2>3. pc[q][s] = "payload" /\ ~Severed(q) =>
            Len(f) > 0 /\ f[Len(f)].code = "data" /\ f[Len(f)].sid = s /\ f[Len(f)].did = st[q][s].did
      BY <1>1, <1>2, <2>1 DEF Writer
    <2>4. pc[q][s] = "payload" /\ ~Severed(q) =>
            Len(g) > 0 /\ g[Len(g)].code = "data" /\ g[Len(g)].sid = s /\ g[Len(g)].did = st[q][s].did
      BY <2>2, <2>3
    <2>5. QED
      BY <1>1, <1>3, <2>1, <2>4 DEF Writer, Writing, SamePeer
  <1>9. ASSUME NEW s \in Sid PROVE Request(q, s)'
    <2>1. Request(q, s)
      BY <1>1 DEF PeerStreams
    <2>2. Requested(g, s) => Requested(f, s)
      BY <1>4 DEF Requested
    <2>3. (Asking(q, s)' <=> Asking(q, s)) /\ (Fresh(q, s)' => Fresh(q, s))
      BY <1>1, <1>2, <1>3, <2>2 DEF Asking, Fresh, SamePeer
    <2>4. ASSUME Fresh(q, s)' PROVE Asker(q, s)'
      <3>1. Asker(q, s)
        BY <2>1, <2>3, <2>4 DEF Request
      <3>2. \A r \in Sid : ~Joined(q, s, r)'
        BY <2>4, <3>1 DEF Asker
      <3>3. QED
        BY <1>1, <3>1, <3>2 DEF Asker, SamePeer
    <2>5. Asking(q, s)' => ~Requested(g, s)
      BY <1>1, <1>2, <2>1, <2>2, <2>3 DEF Request
    <2>6. \A i, j \in 1..Len(f) : /\ f[i].code = "request" /\ f[i].sid = s /\ f[j].code = "request" /\ f[j].sid = s
                                  => i = j
      BY <1>1, <1>2, <2>1 DEF Request
    <2>7. \A i, j \in 1..Len(g) : /\ g[i].code = "request" /\ g[i].sid = s /\ g[j].code = "request" /\ g[j].sid = s
                                  => i = j
      <3> SUFFICES ASSUME NEW i \in 1..Len(g), NEW j \in 1..Len(g), g[i].code = "request", g[i].sid = s,
                          g[j].code = "request", g[j].sid = s
                   PROVE  i = j
        OBVIOUS
      <3>1. PICK a \in 1..Len(f) : a = i + k
        BY <1>4
      <3>2. PICK b \in 1..Len(f) : b = j + k
        BY <1>4
      <3>3. g[i] = f[a] /\ g[j] = f[b]
        BY <1>4, <3>1, <3>2
      <3>4. a = b
        BY <2>6, <3>3
      <3>5. QED
        BY <1>4, <3>1, <3>2, <3>4
    <2>8. QED
      BY <1>1, <1>3, <2>4, <2>5, <2>7 DEF Request
  <1>10. QED
    BY <1>5, <1>6, <1>7, <1>8, <1>9

-----------------------------------------------------------------------------
(* The flow of messages, for the peer that makes the step.                 *)

\* ... as the writer.
LEMMA WriterFlow ==
  ASSUME NEW p \in Peer, StepOf(p), NEW q \in Peer, q = Other(p), NEW s \in Sid, NEW r \in Sid, Flow(p, s, r),
         AcksFor(net'[p], s) <= AcksFor(net[p], s),
         s \in tbl'[p] => \/ Credits(p, s)' <= QueueSize
                          \/ s \in tbl[p] /\ Credits(p, s)' + AcksFor(net'[p], s) <= Credits(p, s) + AcksFor(net[p], s),
         r \in tbl[q] => Ahead(net'[q], r, nrd[q][r], Len(st[q][r].rxq), nwr'[p][s]),
         r \in tbl[q] /\ ~Severed(p) => Exact(net'[q], r, nrd[q][r], st[q][r].rxq, nwr'[p][s])
  PROVE  Flow(p, s, r)'
  <1>1. SamePeer(q) /\ nrd'[q] = nrd[q] /\ (Severed(p) => Severed(p)') /\ s \in Thread /\ Other(q) = p
    BY ThreadFacts, PeerFacts DEF StepOf
  <1>2. PICK a \in Nat, b \in Nat : a = AcksFor(net[p], s) /\ b = AcksFor(net'[p], s)
    BY At, AcksFinite
  <1>3. Owes(q, r)' = Owes(q, r)
    BY <1>1 DEF Owes, SamePeer
  <1>4. PICK n \in Int : n = nrd[q][r] - Owes(q, r)
    <2>1. nrd[q][r] \in Nat
      <3>1. CountTypes
        BY TypeParts DEF StepOf, FullInv
      <3>2. QED
        BY <3>1 DEF CountTypes
    <2>2. QED
      BY <2>1 DEF Owes, One
  <1>5. Returned(p, s, r) = n - a /\ Returned(p, s, r)' = n - b
    BY <1>1, <1>2, <1>3, <1>4 DEF Returned
  <1>6. Returned(p, s, r) >= 0 /\ n - b >= n - a /\ n - b >= 0
    BY <1>2, <1>5 DEF Flow
  <1>7. PICK c \in Int, d \in Int : c = Credits(p, s) /\ d = Credits(p, s)'
    BY <1>1, At DEF Credits, One
  <1>8. s \in tbl'[p] => d <= QueueSize + (n - b)
    <2> SUFFICES ASSUME s \in tbl'[p] PROVE d <= QueueSize + (n - b)
      OBVIOUS
    <2>1. CASE d <= QueueSize
      BY <1>2, <1>4, <1>6, <1>7, <2>1, BoundsAssumption
    <2>2. CASE s \in tbl[p] /\ d + b <= c + a
      <3>1. c <= QueueSize + (n - a)
        BY <1>5, <1>7, <2>2 DEF Flow
      <3>2. QED
        BY <1>2, <1>4, <1>7, <2>2, <3>1, BoundsAssumption
    <2>3. QED
      BY <1>2, <1>7, <2>1, <2>2
  <1>9. QED
    BY <1>1, <1>5, <1>6, <1>7, <1>8 DEF Flow, SamePeer

\* ... and as the reader.
LEMMA ReaderFlow ==
  ASSUME NEW p \in Peer, StepOf(p), NEW q \in Peer, q = Other(p), NEW s \in Sid, NEW r \in Sid, Flow(q, r, s),
         nrd[p][s] - Owes(p, s) - AcksFor(net[q], r) <= nrd'[p][s] - Owes(p, s)' - AcksFor(net'[q], r),
         s \in tbl'[p] => Ahead(net'[p], s, nrd'[p][s], Len(st'[p][s].rxq), nwr[q][r]),
         s \in tbl'[p] /\ ~Severed(q) => Exact(net'[p], s, nrd'[p][s], st'[p][s].rxq, nwr[q][r])
  PROVE  Flow(q, r, s)'
  <1>1. SamePeer(q) /\ nwr'[q] = nwr[q] /\ (Severed(q) => Severed(q)') /\ r \in Thread /\ Other(q) = p
    BY ThreadFacts, PeerFacts DEF StepOf
  <1>2. /\ Returned(q, r, s) = nrd[p][s] - Owes(p, s) - AcksFor(net[q], r)
        /\ Returned(q, r, s)' = nrd'[p][s] - Owes(p, s)' - AcksFor(net'[q], r)
    BY <1>1 DEF Returned
  <1>3. Returned(q, r, s) \in Int /\ Returned(q, r, s)' \in Int
    <2>1. AcksFor(net[q], r) \in Nat /\ AcksFor(net'[q], r) \in Nat
      BY At, AcksFinite
    <2>2. nrd[p][s] \in Nat /\ nrd'[p][s] \in Nat
      BY At
    <2>3. Owes(p, s) \in Nat /\ Owes(p, s)' \in Nat
      BY DEF Owes, One
    <2>4. QED
      BY <1>2, <2>1, <2>2, <2>3
  <1>4. Credits(q, r)' = Credits(q, r)
    BY <1>1 DEF Credits, SamePeer
  <1>5. Credits(q, r) \in Int
    <2>1. StreamTypes /\ CountTypes
      BY TypeParts DEF StepOf, FullInv
    <2>2. st[q][r].rwnd \in Int /\ nwr[q][r] \in Nat
      BY <1>1, <2>1 DEF StreamTypes, CountTypes, Streams
    <2>3. QED
      BY <2>2 DEF Credits, One
  <1>6. /\ Returned(q, r, s)' >= 0
        /\ r \in tbl'[q] => Credits(q, r)' <= QueueSize + Returned(q, r, s)'
    <2>1. r \in tbl'[q] <=> r \in tbl[q]
      BY <1>1 DEF SamePeer
    <2>2. Returned(q, r, s) >= 0 /\ (r \in tbl[q] => Credits(q, r) <= QueueSize + Returned(q, r, s))
      BY DEF Flow
    <2>3. PICK a \in Int, b \in Int, c \in Int : a = Returned(q, r, s) /\ b = Returned(q, r, s)' /\ c = Credits(q, r)
      BY <1>3, <1>5
    <2>4. a <= b
      BY <1>2, <2>3
    <2>5. QED
      BY <1>4, <2>1, <2>2, <2>3, <2>4, BoundsAssumption
  <1>7. QED
    BY <1>1, <1>6 DEF Flow

\* Stream s of p takes no part in the step, but may stop owing an acknowledgement or be freed.
Calm(p, s) ==
    /\ s \in tbl'[p] => /\ s \in tbl[p] /\ st'[p][s].rwnd = st[p][s].rwnd /\ st'[p][s].rxq = st[p][s].rxq
                        /\ pc[p][s] = "sent" => pc'[p][s] = "sent"
    /\ nwr'[p][s] = nwr[p][s] /\ nrd'[p][s] = nrd[p][s]
    /\ Owes(p, s)' <= Owes(p, s)

LEMMA OwesType == \A p, s : Owes(p, s) \in {0, 1} /\ Owes(p, s)' \in {0, 1}
  BY DEF Owes, One

LEMMA CalmCredits ==
  ASSUME NEW p \in Peer, StepOf(p), NEW s \in Sid, Calm(p, s), s \in tbl'[p]
  PROVE  s \in tbl[p] /\ Credits(p, s) \in Int /\ Credits(p, s)' \in Int /\ Credits(p, s)' <= Credits(p, s)
  <1>1. s \in Thread /\ st[p][s].rwnd \in Int /\ nwr[p][s] \in Nat
    BY At, ThreadFacts
  <1>2. QED
    BY <1>1 DEF Calm, Credits, One

\* Frames are taken that are no messages for s, which p reads.
LEMMA TakenReader ==
  ASSUME NEW p \in Peer, StepOf(p), NEW q \in Peer, q = Other(p), NEW s \in Sid, NEW r \in Sid,
         Flow(q, r, s), net'[q] = net[q], nrd'[p][s] = nrd[p][s], Owes(p, s)' <= Owes(p, s),
         s \in tbl'[p] => s \in tbl[p] /\ st'[p][s].rxq = st[p][s].rxq,
         NEW k, Dropped(net[p], net'[p], k), k > 0 => net[p][k].code # "data",
         s \in tbl'[p] => \A i \in 1..k : ~Carries(net[p], s, i)
  PROVE  Flow(q, r, s)'
  <1>1. Other(q) = p /\ net[p] \in Seq(GoodFrames) /\ net'[p] \in Seq(GoodFrames) /\ net[q] \in Seq(GoodFrames)
    BY At, PeerFacts
  <1>2. nrd[p][s] - Owes(p, s) - AcksFor(net[q], r) <= nrd'[p][s] - Owes(p, s)' - AcksFor(net'[q], r)
    <2>1. PICK n \in Nat, c \in Nat : n = nrd[p][s] /\ c = AcksFor(net[q], r)
      BY <1>1, At, AcksFinite
    <2>2. PICK d \in {0, 1}, e \in {0, 1} : d = Owes(p, s) /\ e = Owes(p, s)'
      BY OwesType
    <2>3. QED
      BY <2>1, <2>2
  <1>3. PICK got \in Nat, w \in Nat : got = nrd[p][s] /\ w = nwr[q][r]
    <2>1. CountTypes
      BY TypeParts DEF StepOf, FullInv
    <2>2. QED
      BY <2>1 DEF CountTypes
  <1>4. s \in tbl'[p] => Ahead(net'[p], s, nrd'[p][s], Len(st'[p][s].rxq), nwr[q][r])
    <2> SUFFICES ASSUME s \in tbl'[p] PROVE Ahead(net'[p], s, nrd'[p][s], Len(st'[p][s].rxq), nwr[q][r])
      OBVIOUS
    <2>1. s \in tbl[p] /\ st'[p][s].rxq = st[p][s].rxq /\ nrd'[p][s] = got
      BY <1>3
    <2>2. Ahead(net[p], s, got, Len(st[p][s].rxq), w)
      BY <1>1, <1>3, <2>1 DEF Flow
    <2>3. Ahead(net'[p], s, got, Len(st[p][s].rxq), w)
      BY <1>1, <2>2, OtherTaken
    <2>4. QED
      BY <1>3, <2>1, <2>3
  <1>5. s \in tbl'[p] /\ ~Severed(q) => Exact(net'[p], s, nrd'[p][s], st'[p][s].rxq, nwr[q][r])
    <2> SUFFICES ASSUME s \in tbl'[p], ~Severed(q) PROVE Exact(net'[p], s, nrd'[p][s], st'[p][s].rxq, nwr[q][r])
      OBVIOUS
    <2>1. s \in tbl[p] /\ st'[p][s].rxq = st[p][s].rxq /\ nrd'[p][s] = got
      BY <1>3
    <2>2. Exact(net[p], s, got, st[p][s].rxq, w)
      BY <1>1, <1>3, <2>1 DEF Flow
    <2>3. Exact(net'[p], s, got, st[p][s].rxq, w)
      BY <1>1, <2>2, OtherTaken
    <2>4. QED
      BY <1>3, <2>1, <2>3
  <1>6. QED
    BY <1>2, <1>4, <1>5, ReaderFlow

\* Frames are taken that are no messages for s.
LEMMA CalmFlow ==
  ASSUME NEW p \in Peer, StepOf(p), NEW q \in Peer, q = Other(p), NEW s \in Sid, NEW r \in Sid,
         Flow(p, s, r), Flow(q, r, s), Calm(p, s), net'[q] = net[q],
         NEW k, Dropped(net[p], net'[p], k), k > 0 => net[p][k].code # "data",
         s \in tbl'[p] => \A i \in 1..k : ~Carries(net[p], s, i)
  PROVE  Flow(p, s, r)' /\ Flow(q, r, s)'
  <1>1. Other(q) = p /\ net[p] \in Seq(GoodFrames) /\ net'[p] \in Seq(GoodFrames) /\ net[q] \in Seq(GoodFrames)
    BY At, PeerFacts
  <1>2. PICK a \in Nat, b \in Nat : a = AcksFor(net[p], s) /\ b = AcksFor(net'[p], s) /\ b <= a
    BY <1>1, AcksFinite, AcksDropped
  <1>3. s \in tbl'[p] => s \in tbl[p] /\ Credits(p, s)' + b <= Credits(p, s) + a
    BY <1>2, CalmCredits
  <1>4. /\ r \in tbl[q] => Ahead(net'[q], r, nrd[q][r], Len(st[q][r].rxq), nwr'[p][s])
        /\ r \in tbl[q] /\ ~Severed(p) => Exact(net'[q], r, nrd[q][r], st[q][r].rxq, nwr'[p][s])
    BY DEF Flow, Calm
  <1>5. Flow(p, s, r)'
    BY <1>2, <1>3, <1>4, WriterFlow
  <1>6. Flow(q, r, s)'
    BY TakenReader DEF Calm
  <1>7. QED
    BY <1>5, <1>6

\* p sends a frame that is no message for r; if it acknowledges one of r's, s owed that.
LEMMA CalmSends ==
  ASSUME NEW p \in Peer, StepOf(p), NEW q \in Peer, q = Other(p), NEW s \in Sid, NEW r \in Sid,
         Flow(p, s, r), Flow(q, r, s), Calm(p, s), NEW x \in GoodFrames, Sent1(p, x),
         r \in tbl[q] => ~Carries(Append(net[q], x), r, Len(net[q]) + 1),
         x.code = "ack" /\ x.did = r => Owes(p, s)' + 1 <= Owes(p, s)
  PROVE  Flow(p, s, r)' /\ Flow(q, r, s)'
  <1>1. /\ Other(q) = p /\ net[p] \in Seq(GoodFrames) /\ net[q] \in Seq(GoodFrames)
        /\ net'[p] = net[p] /\ net'[q] = Append(net[q], x)
    BY At, PeerFacts DEF Sent1
  <1>2. PICK a \in Nat : a = AcksFor(net[p], s)
    BY <1>1, AcksFinite
  <1>3. s \in tbl'[p] => s \in tbl[p] /\ Credits(p, s)' + a <= Credits(p, s) + a
    BY <1>2, CalmCredits
  <1>4. PICK w \in Nat, got \in Nat : w = nwr[p][s] /\ got = nrd[q][r]
    <2>1. CountTypes
      BY TypeParts DEF StepOf, FullInv
    <2>2. QED
      BY <2>1 DEF CountTypes
  <1>5. /\ r \in tbl[q] => Ahead(net'[q], r, got, Len(st[q][r].rxq), w)
        /\ r \in tbl[q] /\ ~Severed(p) => Exact(net'[q], r, got, st[q][r].rxq, w)
    BY <1>1, <1>4, OtherSent DEF Flow
  <1>6. Flow(p, s, r)'
    <2>1. nwr'[p][s] = w
      BY <1>4 DEF Calm
    <2>2. AcksFor(net'[p], s) <= AcksFor(net[p], s)
      BY <1>1, <1>2
    <2>3. s \in tbl'[p] => \/ Credits(p, s)' <= QueueSize
                           \/ s \in tbl[p] /\ Credits(p, s)' + AcksFor(net'[p], s) <= Credits(p, s) + AcksFor(net[p], s)
      BY <1>1, <1>2, <1>3
    <2>4. QED
      BY <1>4, <1>5, <2>1, <2>2, <2>3, WriterFlow
  <1>7. nrd[p][s] - Owes(p, s) - AcksFor(net[q], r) <= nrd'[p][s] - Owes(p, s)' - AcksFor(net'[q], r)
    <2>1. PICK n \in Nat, c \in Nat : n = nrd[p][s] /\ c = AcksFor(net[q], r)
      BY <1>1, At, AcksFinite
    <2>2. PICK d \in {0, 1}, e \in {0, 1} : d = Owes(p, s) /\ e = Owes(p, s)'
      BY OwesType
    <2>3. AcksFor(net'[q], r) = c \/ (AcksFor(net'[q], r) = c + 1 /\ e + 1 <= d)
      BY <1>1, <2>1, <2>2, AcksAppend
    <2>4. nrd'[p][s] = n /\ e <= d
      BY <2>1, <2>2 DEF Calm
    <2>5. QED
      BY <2>1, <2>2, <2>3, <2>4
  <1>8. /\ s \in tbl'[p] => Ahead(net'[p], s, nrd'[p][s], Len(st'[p][s].rxq), nwr[q][r])
        /\ s \in tbl'[p] /\ ~Severed(q) => Exact(net'[p], s, nrd'[p][s], st'[p][s].rxq, nwr[q][r])
    BY <1>1 DEF Flow, Calm
  <1>9. Flow(q, r, s)'
    BY <1>7, <1>8, ReaderFlow
  <1>10. QED
    BY <1>6, <1>9

-----------------------------------------------------------------------------
(* What a step of p has to keep.                                           *)

LEMMA Assemble ==
  ASSUME NEW p \in Peer, StepOf(p), NEW q \in Peer, q = Other(p), gsid'[p] >= gsid[p], Quiet(p),
         NEW k, Dropped(net[p], net'[p], k), k > 0 => net[p][k].code # "data",
         Named(p)', Answer(p)', \A s \in Sid : Writer(p, s)' /\ Request(p, s)',
         \A s \in Sid : s > gsid'[p] => nwr'[p][s] = 0 /\ nrd'[p][s] = 0,
         \A s, r \in Sid : Joined(p, s, r) /\ Flow(p, s, r) /\ Flow(q, r, s) => Flow(p, s, r)' /\ Flow(q, r, s)'
  PROVE  PeerStreams(p)' /\ PeerStreams(q)'
  <1>1. /\ \A s, r \in Sid : Joined(p, s, r)' => Joined(p, s, r)
        /\ OneEnd(p)' /\ OneEnd(q)'
        /\ \A s, r \in Sid : Joined(p, s, r)' => s <= gsid'[p] /\ r <= gsid'[q]
    BY QuietEnds
  <1>2. \A s, r : (Joined(p, s, r) <=> Joined(q, r, s)) /\ (Joined(p, s, r)' <=> Joined(q, r, s)')
    BY JoinedTwice
  <1>3. /\ Named(q)' /\ Answer(q)'
        /\ \A s \in Sid : s > gsid'[q] => nwr'[q][s] = 0 /\ nrd'[q][s] = 0
        /\ \A s \in Sid : Writer(q, s)' /\ Request(q, s)'
    <2>1. \A s, r \in Sid : Fresh(q, s)' /\ Joined(q, s, r)' => Joined(q, s, r)
      BY <1>1, <1>2
    <2>2. QED
      BY <2>1, PassivePeer
  <1>4. Known(p)' /\ Known(q)'
    BY <1>1, <1>2, <1>3 DEF Known
  <1>5. Flows(p) /\ Flows(q)
    BY DEF StepOf, PeerStreams
  <1>6. \A s, r \in Sid : Joined(p, s, r)' => Flow(p, s, r)' /\ Flow(q, r, s)'
    BY <1>1, <1>2, <1>5 DEF Flows
  <1>7. Flows(p)' /\ Flows(q)'
    BY <1>2, <1>6 DEF Flows
  <1>8. QED
    BY <1>1, <1>3, <1>4, <1>7 DEF PeerStreams

\* A stream p asked for, when p sends nothing.
LEMMA RequestKept ==
  ASSUME NEW p \in Peer, StepOf(p), NEW u \in Sid, gsid'[p] >= gsid[p], net'[Other(p)] = net[Other(p)],
         \A r \in Sid : Joined(p, u, r)' => Joined(p, u, r),
         Asking(p, u)' => Asking(p, u),
         Fresh(p, u) /\ Asker(p, u) =>
           /\ \/ pc'[p][u] \in {"acquire", "send", "release"} /\ op'[p][u] = "request"
              \/ pc'[p][u] \in {"opening", "fail", "done", "crashed"}
           /\ u \in tbl'[p] => st'[p][u].state # "established" /\ st'[p][u].rwnd = 0
           /\ st'[p][u].rxq = << >> /\ nwr'[p][u] = nwr[p][u] /\ nrd'[p][u] = nrd[p][u]
  PROVE  Request(p, u)'
  <1>1. Request(p, u) /\ gsid[p] \in Nat /\ gsid'[p] \in Nat /\ u \in Nat
    BY At, ThreadFacts DEF StepOf, PeerStreams
  <1>2. Fresh(p, u)' => Fresh(p, u)
    BY DEF Fresh
  <1>3. Fresh(p, u)' => Asker(p, u)'
    <2> SUFFICES ASSUME Fresh(p, u)' PROVE Asker(p, u)'
      OBVIOUS
    <2>1. Fresh(p, u) /\ Asker(p, u)
      BY <1>1, <1>2 DEF Request
    <2>2. u <= gsid'[p] /\ \A r \in Sid : ~Joined(p, u, r)'
      BY <1>1, <2>1 DEF Asker
    <2>3. nwr'[p][u] = 0 /\ nrd'[p][u] = 0
      BY <2>1 DEF Asker
    <2>4. QED
      BY <2>1, <2>2, <2>3 DEF Asker
  <1>4. QED
    BY <1>1, <1>3 DEF Request

\* A stream of p that is written to, when p sends nothing.
LEMMA WriterKept ==
  ASSUME NEW p \in Peer, StepOf(p), NEW u \in Sid, net'[Other(p)] = net[Other(p)],
         nwr'[p][u] = nwr[p][u], u \in tbl'[p] => u \in tbl[p],
         st'[p][u].state = st[p][u].state, st'[p][u].did = st[p][u].did,
         \/ /\ pc'[p][u] = pc[p][u] /\ op'[p][u] = op[p][u] /\ st'[p][u].rwnd >= st[p][u].rwnd
         \/ pc'[p][u] \notin {"send", "payload", "sent"}
         \/ op'[p][u] # "data" /\ pc'[p][u] # "payload"
  PROVE  Writer(p, u)'
  <1>1. /\ Writer(p, u) /\ (Severed(p) => Severed(p)') /\ u \in Thread /\ st[p][u].rwnd \in Int
        /\ st'[p][u].rwnd \in Int
    BY At, ThreadFacts DEF StepOf, PeerStreams
  <1>2. QED
    BY <1>1 DEF Writer, Writing

\* The answer being given, when p's channel thread is not the one to move.
LEMMA AnswerKept ==
  ASSUME NEW p \in Peer, StepOf(p), cur'[p] = cur[p],
         pc'[p][0] \in Serving => pc[p][0] \in Serving,
         pc'[p][0] \in {"acquire", "send"} => pc[p][0] \in {"acquire", "send"},
         pc[p][0] \in Serving /\ cur[p].obj \in tbl'[p] =>
           cur[p].obj \in tbl[p] /\ st'[p][cur[p].obj].did = st[p][cur[p].obj].did
  PROVE  Answer(p)'
  <1>1. Answer(p)
    BY DEF StepOf, PeerStreams
  <1>2. QED
    BY <1>1 DEF Answer

\* Only the streams that have been handed out are used.
LEMMA CountsKept ==
  ASSUME NEW p \in Peer, StepOf(p), gsid'[p] >= gsid[p],
         \A s \in Sid : nwr'[p][s] # nwr[p][s] \/ nrd'[p][s] # nrd[p][s] => s \in tbl[p]
  PROVE  \A s \in Sid : s > gsid'[p] => nwr'[p][s] = 0 /\ nrd'[p][s] = 0
  <1>1. Known(p) /\ TableInv(p) /\ gsid[p] \in Nat /\ gsid'[p] \in Nat /\ \A s \in Sid : s \in Nat
    BY At, ThreadFacts DEF StepOf, PeerStreams, ChannelInv
  <1>2. QED
    BY <1>1 DEF Known, TableInv

\* A thread that uses its stream finds it in the table.
LEMMA UsesStream ==
  ASSUME NEW p \in Peer, StepOf(p), NEW t \in Sid, pc[p][t] \notin {"none", "done", "crashed"}
  PROVE  t \in tbl[p] /\ pc[p][0] # "crashed"
  <1>1. TableInv(p) /\ RefsInv(p) /\ t \in Thread
    BY At, ThreadFacts DEF ChannelInv
  <1>2. QED
    BY <1>1 DEF TableInv, RefsInv, Running

-----------------------------------------------------------------------------
(* A thread, or the application, moves and sends nothing.                  *)

LEMMA IdleKept ==
  ASSUME NEW p \in Peer, StepOf(p), NEW t \in Thread, OnlyThread(p, t), Idle(p, t), net' = net,
         t # 0 => /\ Owes(p, t)' <= Owes(p, t) /\ (pc[p][t] = "sent" => pc'[p][t] = "sent")
                  /\ Asking(p, t)' => Asking(p, t)
                  /\ Asker(p, t) => \/ pc'[p][t] \in {"acquire", "send", "release"} /\ op'[p][t] = "request"
                                    \/ pc'[p][t] \in {"opening", "fail", "done", "crashed"}
                  /\ Writer(p, t)',
         pc'[p][0] \in Serving => pc[p][0] \in Serving,
         pc'[p][0] \in {"acquire", "send"} => pc[p][0] \in {"acquire", "send"}
  PROVE  PeerStreams(p)' /\ PeerStreams(Other(p))'
  <1>1. /\ \A s \in Sid : s \in Thread /\ s # 0 /\ (pc[p][s] \in PCs /\ st[p][s].rwnd \in Int)
        /\ gsid' = gsid /\ gsid[p] \in Nat /\ Other(p) \in Peer /\ net[p] \in Seq(GoodFrames)
    BY At, ThreadFacts, PeerFacts DEF OnlyThread
  <1>2. PICK k : k = 0 /\ Dropped(net[p], net'[p], k)
    BY <1>1, NothingDropped
  <1>3. Quiet(p)
    BY DEF Quiet, Says, Joined, Idle, OnlyThread
  <1>4. \A s, r \in Sid : Joined(p, s, r)' => Joined(p, s, r)
    <2>1. gsid'[p] >= gsid[p]
      BY <1>1
    <2>2. QED
      BY <1>2, <1>3, <2>1, QuietEnds
  <1>5. Named(p)'
    BY DEF StepOf, PeerStreams, Named, WellFormed
  <1>6. Answer(p)'
    BY AnswerKept DEF Idle, OnlyThread
  <1>7. ASSUME NEW u \in Sid PROVE Writer(p, u)' /\ Request(p, u)'
    <2>1. Writer(p, u)'
      BY <1>1, <1>7, WriterKept DEF Idle, OnlyThread
    <2>2. Asking(p, u)' => Asking(p, u)
      BY <1>1 DEF Asking, OnlyThread
    <2>3. Asker(p, u) => \/ pc'[p][u] \in {"acquire", "send", "release"} /\ op'[p][u] = "request"
                         \/ pc'[p][u] \in {"opening", "fail", "done", "crashed"}
      BY <1>1 DEF Asker, OnlyThread
    <2>4. Request(p, u)'
      BY <1>1, <1>4, <2>2, <2>3, RequestKept DEF Idle, Asker
    <2>5. QED
      BY <2>1, <2>4
  <1>8. \A s \in Sid : s > gsid'[p] => nwr'[p][s] = 0 /\ nrd'[p][s] = 0
    BY <1>1, CountsKept DEF Idle
  <1>9. ASSUME NEW s \in Sid PROVE Calm(p, s)
    <2>1. Owes(p, s)' <= Owes(p, s)
      <3>1. s # t => Owes(p, s)' = Owes(p, s)
        BY <1>1 DEF Owes, OnlyThread
      <3>2. QED
        BY <1>1, <3>1, OwesType
    <2>2. QED
      BY <1>1, <2>1 DEF Calm, Idle, OnlyThread
  <1>10. ASSUME NEW s \in Sid, NEW r \in Sid, Flow(p, s, r), Flow(Other(p), r, s)
         PROVE  Flow(p, s, r)' /\ Flow(Other(p), r, s)'
    <2>1. Calm(p, s) /\ net'[Other(p)] = net[Other(p)] /\ ~(k > 0) /\ 1..k = {}
      BY <1>2, <1>9
    <2>2. QED
      BY <1>1, <1>2, <1>10, <2>1, CalmFlow
  <1>11. gsid'[p] >= gsid[p] /\ ~(k > 0)
    BY <1>1, <1>2
  <1>12. QED
    BY <1>1, <1>2, <1>3, <1>5, <1>6, <1>7, <1>8, <1>10, <1>11, Assemble

LEMMA MoveKept ==
  ASSUME NEW p \in Peer, StepOf(p), NEW t \in Thread, OnlyThread(p, t), DoesMove(p, t)
  PROVE  PeerStreams(p)' /\ PeerStreams(Other(p))'
  <1>1. Idle(p, t) /\ net' = net /\ pc[p][t] \in PCs /\ op[p][t] \in Ops /\ Role(t, pc[p][t], op[p][t])
    BY At DEF DoesMove
  <1>2. CASE Moves1(p, t, pc[p][t], op[p][t])
    <2>1. pc'[p][t] = pc[p][t] /\ op'[p][t] = op[p][t]
      BY <1>2 DEF Moves1
    <2>2. t # 0 => Writer(p, t)'
      <3>1. t # 0 => t \in Sid /\ st[p][t].rwnd \in Int
        BY At, ThreadFacts
      <3>2. QED
        BY <1>1, <2>1, <3>1, WriterKept DEF Idle
    <2>3. Owes(p, t)' = Owes(p, t) /\ (Asking(p, t)' <=> Asking(p, t))
      BY <2>1 DEF Owes, Asking
    <2>4. pc'[p][0] = pc[p][0]
      BY <2>1, ThreadFacts DEF OnlyThread
    <2>5. QED
      BY <1>1, <2>1, <2>2, <2>3, <2>4, IdleKept, OwesType DEF Asker
  <1>3. CASE ~Moves1(p, t, pc[p][t], op[p][t])
    <2>1. \/ /\ pc[p][t] = "acquire" /\ Moves1(p, t, "send", op[p][t])
             /\ op[p][t] = "data" => st[p][t].state = "established" /\ st[p][t].rwnd > 0
          \/ pc[p][t] \in {"acquire", "release"} /\ \E b \in BOOLEAN : Moves1(p, t, After(op[p][t], b), "none")
          \/ /\ pc[p][t] = "opening" /\ \E l \in {"open", "fail"} : Moves1(p, t, l, op[p][t])
             /\ pc'[p][t] = "open" => st[p][t].state = "established"
          \/ pc[p][t] = "read" /\ Moves1(p, t, "open", op[p][t])
          \/ pc[p][t] \in {"send", "payload"} /\ Moves1(p, t, "release", op[p][t]) /\ Severed(p)
          \/ pc[p][t] = "send" /\ Moves1(p, t, NextPc(p, t), op[p][t]) /\ Severed(p)
      BY <1>3 DEF DoesMove
    <2>2. CASE t = 0
      <3>1. pc[p][0] \in {"acquire", "send", "release"} /\ op[p][0] = "response"
        BY <1>1, <2>1, <2>2 DEF Role, ChannelPCs, MessagesOf, Sending
      <3>2. pc'[p][0] \in {"send", "release", "setstate"}
        BY <2>1, <2>2, <3>1 DEF Moves1, NextPc, After
      <3>3. pc[p][0] \in Serving /\ (pc'[p][0] = "send" => pc[p][0] \in {"acquire", "send"})
        <4>1. pc[p][0] = "release" => pc'[p][0] = "setstate"
          BY <2>1, <2>2, <3>1 DEF Moves1, NextPc, After
        <4>2. QED
          BY <3>1, <4>1 DEF Serving, Answering
      <3>4. QED
        BY <1>1, <2>2, <3>2, <3>3, IdleKept
    <2>3. CASE t # 0
      <3>1. t \in Sid /\ pc'[p][0] = pc[p][0] /\ pc[p][t] \in {"acquire", "release", "opening", "read", "send", "payload"}
        BY <2>1, <2>3, ThreadFacts DEF OnlyThread
      <3>2. /\ pc[p][t] \in {"acquire", "release", "send", "payload"} => op[p][t] \in {"request", "data", "ack", "close"}
            /\ pc[p][t] = "payload" => op[p][t] = "data"
        BY <1>1, <2>3 DEF Role, MessagesOf, Sending
      <3>3. t \in tbl[p] /\ st[p][t].rwnd \in Int
        BY <3>1, At, ThreadFacts, UsesStream
      <3>4. /\ Owes(p, t)' <= Owes(p, t) /\ pc[p][t] # "sent" /\ (Asking(p, t)' => Asking(p, t))
        <4>1. Asking(p, t)' => Asking(p, t)
          BY <2>1, <3>1, <3>2 DEF Asking, Moves1, After, NextPc
        <4>2. /\ op'[p][t] = "ack" /\ pc'[p][t] \in {"acquire", "send"}
              => op[p][t] = "ack" /\ pc[p][t] \in {"acquire", "send"}
          BY <2>1, <3>1, <3>2 DEF Moves1, After, NextPc
        <4>3. QED
          BY <3>1, <4>1, <4>2 DEF Owes, One
      <3>5. Asker(p, t) => \/ pc'[p][t] \in {"acquire", "send", "release"} /\ op'[p][t] = "request"
                           \/ pc'[p][t] \in {"opening", "fail", "done", "crashed"}
        <4> SUFFICES ASSUME Asker(p, t)
                     PROVE  \/ pc'[p][t] \in {"acquire", "send", "release"} /\ op'[p][t] = "request"
                            \/ pc'[p][t] \in {"opening", "fail", "done", "crashed"}
          OBVIOUS
        <4>1. st[p][t].state # "established"
          BY <3>3 DEF Asker
        <4>2. pc[p][t] = "opening" \/ (pc[p][t] \in {"acquire", "send", "release"} /\ op[p][t] = "request")
          BY <3>1 DEF Asker
        <4>3. QED
          BY <2>1, <3>2, <4>1, <4>2 DEF Moves1, After, NextPc
      <3>6. Writer(p, t)'
        <4>1. Writer(p, t) /\ (Severed(p) => Severed(p)')
          BY <3>1 DEF StepOf, PeerStreams
        <4>2. st'[p][t] = st[p][t] /\ tbl'[p] = tbl[p] /\ nwr'[p][t] = nwr[p][t]
          BY <1>1 DEF Idle
        <4>3. Writing(p, t)' => \/ op[p][t] = "data" /\ pc[p][t] = "acquire" /\ st[p][t].state = "established" /\ st[p][t].rwnd > 0
                                \/ Writing(p, t) /\ pc[p][t] = "send" /\ pc'[p][t] # "sent"
          BY <2>1, <3>1, <3>2 DEF Writing, Moves1, After, NextPc
        <4>4. pc'[p][t] = "payload" => Severed(p)
          BY <2>1, <3>1, <3>2 DEF Moves1, After
        <4>5. QED
          BY <3>3, <4>1, <4>2, <4>3, <4>4 DEF Writer
      <3>7. QED
        BY <1>1, <3>1, <3>4, <3>5, <3>6, IdleKept
    <2>4. QED
      BY <2>2, <2>3
  <1>4. QED
    BY <1>2, <1>3

LEMMA CallKept ==
  ASSUME NEW p \in Peer, StepOf(p), NEW t \in Thread, DoesCall(p, t)
  PROVE  PeerStreams(p)' /\ PeerStreams(Other(p))'
  <1>1. OnlyThread(p, t) /\ Idle(p, t) /\ net' = net
    BY DEF DoesCall
  <1>2. CASE Moves1(p, t, pc[p][t], op[p][t])
    BY <1>1, <1>2, MoveKept DEF DoesMove
  <1>3. CASE t = 0 /\ ~Moves1(p, t, pc[p][t], op[p][t])
    <2>1. pc'[p][0] \in {"recv", "shut", "done"}
      BY <1>3 DEF DoesCall, Moves1
    <2>2. QED
      BY <1>1, <1>3, <2>1, IdleKept DEF Serving, Answering
  <1>4. CASE t # 0 /\ ~Moves1(p, t, pc[p][t], op[p][t])
    <2>1. /\ pc[p][t] = "open" /\ t \in Sid /\ pc'[p][0] = pc[p][0]
          /\ (pc'[p][t] = "acquire" /\ op'[p][t] \in {"data", "close"}) \/ pc'[p][t] = "read"
      BY <1>1, <1>4, ThreadFacts DEF DoesCall, Moves1, OnlyThread
    <2>2. Owes(p, t)' <= Owes(p, t) /\ (Asking(p, t)' => Asking(p, t)) /\ ~Asker(p, t)
      BY <2>1 DEF Owes, One, Asking, Asker
    <2>3. Writer(p, t)'
      BY <1>1, <2>1, WriterKept DEF Idle
    <2>4. QED
      BY <1>1, <2>1, <2>2, <2>3, IdleKept
  <1>5. QED
    BY <1>2, <1>3, <1>4

-----------------------------------------------------------------------------
(* A thread works on its stream and sends nothing.                         *)

LEMMA OthersCalm ==
  ASSUME NEW p \in Peer, StepOf(p), NEW t \in Thread, OnlyThread(p, t), tbl'[p] \subseteq tbl[p],
         NEW s \in Sid, s # t
  PROVE  Calm(p, s)
  <1>1. s \in Thread /\ Owes(p, s)' = Owes(p, s)
    BY ThreadFacts DEF Owes, OnlyThread
  <1>2. QED
    BY <1>1, OwesType DEF Calm, OnlyThread

LEMMA WorkKept ==
  ASSUME NEW p \in Peer, StepOf(p), NEW q \in Peer, q = Other(p), NEW t \in Sid, OnlyThread(p, t), net' = net,
         tbl'[p] \subseteq tbl[p], t \in tbl[p], t \in tbl'[p] => st'[p][t].did = st[p][t].did,
         st'[p][t].did \in {0, st[p][t].did}, Asking(p, t)' => Asking(p, t),
         Asker(p, t) =>
           /\ \/ pc'[p][t] \in {"acquire", "send", "release"} /\ op'[p][t] = "request"
              \/ pc'[p][t] \in {"opening", "fail", "done", "crashed"}
           /\ t \in tbl'[p] => st'[p][t].state # "established" /\ st'[p][t].rwnd = 0
           /\ st'[p][t].rxq = << >> /\ nwr'[p][t] = nwr[p][t] /\ nrd'[p][t] = nrd[p][t],
         Writer(p, t)',
         \A r \in Sid : Joined(p, t, r) /\ Flow(p, t, r) /\ Flow(q, r, t) => Flow(p, t, r)' /\ Flow(q, r, t)'
  PROVE  PeerStreams(p)' /\ PeerStreams(q)'
  <1>1. /\ \A s \in Sid : s \in Thread /\ s # 0 /\ (pc[p][s] \in PCs /\ st[p][s].rwnd \in Int)
        /\ gsid' = gsid /\ gsid[p] \in Nat /\ net[p] \in Seq(GoodFrames) /\ 0 \in Thread
    BY At, ThreadFacts DEF OnlyThread
  <1>2. PICK k : k = 0 /\ Dropped(net[p], net'[p], k)
    BY <1>1, NothingDropped
  <1>3. gsid'[p] >= gsid[p] /\ ~(k > 0) /\ 1..k = {} /\ net'[q] = net[q]
    BY <1>1, <1>2
  <1>4. Quiet(p)
    <2>1. \A s \in Sid : st'[p][s].did = st[p][s].did \/ st'[p][s].did = 0
      BY <1>1 DEF OnlyThread
    <2>2. cur' = cur
      BY DEF OnlyThread
    <2>3. QED
      BY <1>1, <2>1, <2>2, ThreadFacts DEF Quiet, Says, Joined
  <1>5. \A s, r \in Sid : Joined(p, s, r)' => Joined(p, s, r)
    BY <1>2, <1>3, <1>4, QuietEnds
  <1>6. Named(p)'
    BY DEF StepOf, PeerStreams, Named, WellFormed
  <1>7. Answer(p)'
    <2>1. pc'[p][0] = pc[p][0] /\ cur' = cur
      BY <1>1 DEF OnlyThread
    <2>2. \A s \in tbl'[p] : s \in tbl[p] /\ st'[p][s].did = st[p][s].did
      BY <1>1, At DEF OnlyThread
    <2>3. QED
      BY <2>1, <2>2, AnswerKept
  <1>8. ASSUME NEW u \in Sid PROVE Writer(p, u)' /\ Request(p, u)'
    <2>1. CASE u = t
      BY <1>3, <1>5, <2>1, RequestKept
    <2>2. CASE u # t
      <3>1. /\ pc'[p][u] = pc[p][u] /\ op'[p][u] = op[p][u] /\ st'[p][u] = st[p][u]
            /\ nwr'[p][u] = nwr[p][u] /\ nrd'[p][u] = nrd[p][u]
        BY <1>1, <2>2 DEF OnlyThread
      <3>2. (Asking(p, u)' => Asking(p, u)) /\ st'[p][u].rwnd >= st[p][u].rwnd
        BY <1>1, <3>1 DEF Asking
      <3>3. Writer(p, u)'
        BY <1>3, <3>1, <3>2, WriterKept
      <3>4. Asker(p, u) =>
              /\ \/ pc'[p][u] \in {"acquire", "send", "release"} /\ op'[p][u] = "request"
                 \/ pc'[p][u] \in {"opening", "fail", "done", "crashed"}
              /\ u \in tbl'[p] => st'[p][u].state # "established" /\ st'[p][u].rwnd = 0
              /\ st'[p][u].rxq = << >>
        BY <3>1 DEF Asker
      <3>5. Request(p, u)'
        BY <1>3, <1>5, <3>1, <3>2, <3>4, RequestKept
      <3>6. QED
        BY <3>3, <3>5
    <2>3. QED
      BY <2>1, <2>2
  <1>9. \A s \in Sid : s > gsid'[p] => nwr'[p][s] = 0 /\ nrd'[p][s] = 0
    <2>1. \A s \in Sid : nwr'[p][s] # nwr[p][s] \/ nrd'[p][s] # nrd[p][s] => s \in tbl[p]
      BY DEF OnlyThread
    <2>2. QED
      BY <1>3, <2>1, CountsKept
  <1>10. ASSUME NEW s \in Sid, NEW r \in Sid, Joined(p, s, r), Flow(p, s, r), Flow(q, r, s)
         PROVE  Flow(p, s, r)' /\ Flow(q, r, s)'
    <2>1. CASE s = t
      BY <1>10, <2>1
    <2>2. CASE s # t
      <3>1. Calm(p, s)
        BY <1>1, <2>2, OthersCalm
      <3>2. QED
        BY <1>2, <1>3, <1>10, <3>1, CalmFlow
    <2>3. QED
      BY <2>1, <2>2
  <1>11. QED
    BY <1>2, <1>3, <1>4, <1>6, <1>7, <1>8, <1>9, <1>10, Assemble

LEMMA CountKept ==
  ASSUME NEW p \in Peer, StepOf(p), NEW t \in Thread, OnlyThread(p, t), DoesCount(p, t)
  PROVE  PeerStreams(p)' /\ PeerStreams(Other(p))'
  <1>1. PICK q \in Peer : q = Other(p)
    BY PeerFacts
  <1>2. pc[p][t] = "sent" /\ t \in Sid /\ net' = net /\ tbl'[p] = tbl[p] /\ pc'[p][t] = "release" /\ op'[p][t] = op[p][t]
    <2>1. Role(t, pc[p][t], op[p][t])
      BY At
    <2>2. QED
      BY <2>1, ThreadFacts DEF DoesCount, Moves1, Role, ChannelPCs
  <1>3. t \in tbl[p] /\ op[p][t] = "data"
    <2>1. Role(t, pc[p][t], op[p][t])
      BY At
    <2>2. QED
      BY <1>2, <2>1, UsesStream DEF Role
  <1>4. /\ st'[p][t].state = st[p][t].state /\ st'[p][t].did = st[p][t].did /\ st'[p][t].rxq = st[p][t].rxq
        /\ st'[p][t].rwnd = st[p][t].rwnd - 1 /\ st[p][t].rwnd \in Int /\ nwr'[p][t] = nwr[p][t] /\ nrd'[p][t] = nrd[p][t]
    <2>1. st[p][t] \in Streams /\ st[p][t].rwnd \in Int
      BY At
    <2>2. QED
      BY <2>1, Fields DEF DoesCount
  <1>5. Writer(p, t)'
    BY <1>1, <1>2, <1>4, WriterKept
  <1>6. ASSUME NEW r \in Sid, Flow(p, t, r), Flow(q, r, t) PROVE Flow(p, t, r)' /\ Flow(q, r, t)'
    <2>1. Other(q) = p /\ nwr[p][t] \in Nat /\ nrd[p][t] \in Nat
      BY <1>1, <1>2, At, PeerFacts
    <2>2. Credits(p, t)' = Credits(p, t) /\ Credits(p, t) \in Int
      BY <1>2, <1>4, <2>1 DEF Credits, One
    <2>3. PICK a \in Nat : a = AcksFor(net[p], t)
      BY At, AcksFinite
    <2>4. Flow(p, t, r)'
      <3>1. AcksFor(net'[p], t) <= AcksFor(net[p], t)
        BY <1>2, <2>3
      <3>2. t \in tbl'[p] => t \in tbl[p] /\ Credits(p, t)' + AcksFor(net'[p], t) <= Credits(p, t) + AcksFor(net[p], t)
        BY <1>2, <2>2, <2>3
      <3>3. /\ r \in tbl[q] => Ahead(net'[q], r, nrd[q][r], Len(st[q][r].rxq), nwr'[p][t])
            /\ r \in tbl[q] /\ ~Severed(p) => Exact(net'[q], r, nrd[q][r], st[q][r].rxq, nwr'[p][t])
        BY <1>1, <1>2, <1>4, <1>6 DEF Flow
      <3>4. QED
        BY <1>1, <1>2, <1>6, <3>1, <3>2, <3>3, WriterFlow
    <2>5. Flow(q, r, t)'
      <3>1. Owes(p, t)' = Owes(p, t) /\ Owes(p, t) = 0
        BY <1>2 DEF Owes, One
      <3>2. PICK b \in Nat : b = AcksFor(net[q], r)
        BY <1>1, At, AcksFinite
      <3>3. nrd[p][t] - Owes(p, t) - AcksFor(net[q], r) <= nrd'[p][t] - Owes(p, t)' - AcksFor(net'[q], r)
        BY <1>2, <1>4, <2>1, <3>1, <3>2
      <3>4. /\ t \in tbl'[p] => Ahead(net'[p], t, nrd'[p][t], Len(st'[p][t].rxq), nwr[q][r])
            /\ t \in tbl'[p] /\ ~Severed(q) => Exact(net'[p], t, nrd'[p][t], st'[p][t].rxq, nwr[q][r])
        BY <1>2, <1>4, <1>6, <2>1 DEF Flow
      <3>5. QED
        BY <1>1, <1>2, <1>6, <3>3, <3>4, ReaderFlow
    <2>6. QED
      BY <2>4, <2>5
  <1>7. ~Asker(p, t) /\ ~Asking(p, t)'
    BY <1>2 DEF Asker, Asking
  <1>8. PeerStreams(p)' /\ PeerStreams(q)'
    BY <1>1, <1>2, <1>3, <1>4, <1>5, <1>6, <1>7, WorkKept
  <1>9. QED
    BY <1>1, <1>8

LEMMA EraseKept ==
  ASSUME NEW p \in Peer, StepOf(p), NEW t \in Thread, OnlyThread(p, t), DoesErase(p, t)
  PROVE  PeerStreams(p)' /\ PeerStreams(Other(p))'
  <1>1. PICK q \in Peer : q = Other(p)
    BY PeerFacts
  <1>2. /\ pc[p][t] \in {"fail", "erase"} /\ t \in Sid /\ net' = net /\ tbl'[p] = tbl[p] \ {t} /\ pc'[p][t] = "done"
        /\ nwr'[p] = nwr[p] /\ nrd'[p] = nrd[p] /\ st'[p][t] = Zeroed
    <2>1. Role(t, pc[p][t], op[p][t])
      BY At
    <2>2. QED
      BY <2>1, ThreadFacts DEF DoesErase, Moves1, Role, ChannelPCs
  <1>3. t \in tbl[p]
    BY <1>2, UsesStream
  <1>4. st'[p][t].did = 0 /\ st'[p][t].rxq = << >> /\ t \notin tbl'[p] /\ tbl'[p] \subseteq tbl[p]
    BY <1>2 DEF Zeroed, Stream
  <1>5. Writer(p, t)'
    BY <1>2, <1>4 DEF Writer, Writing
  <1>6. Calm(p, t)
    <2>1. Owes(p, t)' = 0
      BY <1>2 DEF Owes, One
    <2>2. QED
      BY <1>2, <1>4, <2>1, OwesType DEF Calm
  <1>7. ASSUME NEW r \in Sid, Flow(p, t, r), Flow(q, r, t) PROVE Flow(p, t, r)' /\ Flow(q, r, t)'
    <2>1. PICK k : k = 0 /\ Dropped(net[p], net'[p], k)
      BY <1>2, At, NothingDropped
    <2>2. ~(k > 0) /\ net'[q] = net[q]
      BY <1>2, <2>1
    <2>3. QED
      BY <1>1, <1>2, <1>4, <1>6, <1>7, <2>1, <2>2, CalmFlow
  <1>8. ~Asking(p, t)'
    BY <1>2 DEF Asking
  <1>9. PeerStreams(p)' /\ PeerStreams(q)'
    BY <1>1, <1>2, <1>3, <1>4, <1>5, <1>7, <1>8, WorkKept
  <1>10. QED
    BY <1>1, <1>9

LEMMA ReadKept ==
  ASSUME NEW p \in Peer, StepOf(p), NEW t \in Thread, OnlyThread(p, t), DoesRead(p, t)
  PROVE  PeerStreams(p)' /\ PeerStreams(Other(p))'
  <1>1. PICK q \in Peer : q = Other(p)
    BY PeerFacts
  <1>2. /\ pc[p][t] = "read" /\ t \in Sid /\ net' = net /\ tbl'[p] = tbl[p] /\ nwr'[p] = nwr[p]
        /\ nrd'[p][t] = nrd[p][t] + 1 /\ pc'[p][t] \in {"acquire", "open"} /\ (pc'[p][t] = "acquire" => op'[p][t] = "ack")
    BY DEF DoesRead, Moves1
  <1>3. t \in tbl[p]
    BY <1>2, UsesStream
  <1>4. /\ st'[p][t].state = st[p][t].state /\ st'[p][t].did = st[p][t].did /\ st'[p][t].rxq = Tail(st[p][t].rxq)
        /\ st'[p][t].rwnd = st[p][t].rwnd /\ st[p][t].rxq # << >> /\ st[p][t].rxq \in Seq(Nat) /\ st[p][t].rwnd \in Int
    <2>1. st[p][t] \in Streams /\ st[p][t].rxq \in Seq(Nat) /\ st[p][t].rwnd \in Int
      BY At
    <2>2. QED
      BY <2>1, Fields DEF DoesRead
  <1>5. Writer(p, t)'
    BY <1>1, <1>2, <1>4, WriterKept
  <1>6. ASSUME NEW r \in Sid, Flow(p, t, r), Flow(q, r, t) PROVE Flow(p, t, r)' /\ Flow(q, r, t)'
    <2>1. Other(q) = p /\ nwr[p][t] \in Nat /\ nrd[p][t] \in Nat
      BY <1>1, <1>2, At, PeerFacts
    <2>2. Credits(p, t)' = Credits(p, t) /\ Credits(p, t) \in Int
      BY <1>2, <1>4, <2>1 DEF Credits, One
    <2>3. PICK a \in Nat : a = AcksFor(net[p], t)
      BY At, AcksFinite
    <2>4. Flow(p, t, r)'
      <3>1. AcksFor(net'[p], t) <= AcksFor(net[p], t)
        BY <1>2, <2>3
      <3>2. t \in tbl'[p] => t \in tbl[p] /\ Credits(p, t)' + AcksFor(net'[p], t) <= Credits(p, t) + AcksFor(net[p], t)
        BY <1>2, <2>2, <2>3
      <3>3. /\ r \in tbl[q] => Ahead(net'[q], r, nrd[q][r], Len(st[q][r].rxq), nwr'[p][t])
            /\ r \in tbl[q] /\ ~Severed(p) => Exact(net'[q], r, nrd[q][r], st[q][r].rxq, nwr'[p][t])
        BY <1>1, <1>2, <1>6 DEF Flow
      <3>4. QED
        BY <1>1, <1>2, <1>6, <3>1, <3>2, <3>3, WriterFlow
    <2>5. Flow(q, r, t)'
      <3>1. Owes(p, t) = 0 /\ Owes(p, t)' \in {0, 1}
        BY <1>2, OwesType DEF Owes, One
      <3>2. PICK b \in Nat : b = AcksFor(net[q], r)
        BY <1>1, At, AcksFinite
      <3>3. nrd[p][t] - Owes(p, t) - AcksFor(net[q], r) <= nrd'[p][t] - Owes(p, t)' - AcksFor(net'[q], r)
        BY <1>2, <2>1, <3>1, <3>2
      <3>4. PICK got \in Nat, w \in Nat : got = nrd[p][t] /\ w = nwr[q][r]
        <4>1. CountTypes
          BY TypeParts DEF StepOf, FullInv
        <4>2. QED
          BY <1>2, <4>1 DEF CountTypes
      <3>5. /\ Ahead(net[p], t, got, Len(st[p][t].rxq), w)
            /\ ~Severed(q) => Exact(net[p], t, got, st[p][t].rxq, w)
        BY <1>3, <1>6, <2>1, <3>4 DEF Flow
      <3>6. /\ Ahead(net[p], t, got + 1, Len(Tail(st[p][t].rxq)), w)
            /\ ~Severed(q) => Exact(net[p], t, got + 1, Tail(st[p][t].rxq), w)
        <4>1. net[p] \in Seq(GoodFrames)
          BY At
        <4>2. QED
          BY <1>4, <3>5, <4>1, ReaderTakes
      <3>7. /\ Ahead(net'[p], t, nrd'[p][t], Len(st'[p][t].rxq), nwr[q][r])
            /\ ~Severed(q) => Exact(net'[p], t, nrd'[p][t], st'[p][t].rxq, nwr[q][r])
        BY <1>2, <1>4, <3>4, <3>6
      <3>8. QED
        BY <1>1, <1>2, <1>6, <3>3, <3>7, ReaderFlow
    <2>6. QED
      BY <2>4, <2>5
  <1>7. ~Asker(p, t) /\ ~Asking(p, t)'
    BY <1>2 DEF Asker, Asking
  <1>8. PeerStreams(p)' /\ PeerStreams(q)'
    BY <1>1, <1>2, <1>3, <1>4, <1>5, <1>6, <1>7, WorkKept
  <1>9. QED
    BY <1>1, <1>8

-----------------------------------------------------------------------------
(* A thread sends a frame.                                                 *)

\* The last frame and the ones before it.
LEMMA Longer ==
  ASSUME NEW f \in Seq(GoodFrames), NEW x \in GoodFrames
  PROVE  /\ Len(Append(f, x)) = Len(f) + 1 /\ Len(f) \in Nat /\ Append(f, x)[Len(f) + 1] = x
         /\ \A i \in 1..Len(f) : Append(f, x)[i] = f[i]
         /\ \A i \in 1..Len(Append(f, x)) : i \in 1..Len(f) \/ i = Len(f) + 1
  <1>1. PICK g : g = Append(f, x)
    OBVIOUS
  <1>2. /\ Len(g) = Len(f) + 1 /\ Len(f) \in Nat /\ g[Len(f) + 1] = x
        /\ \A i \in 1..Len(f) : g[i] = f[i]
    BY <1>1, AppendProperties, LenProperties
  <1>3. \A i \in 1..Len(g) : i \in 1..Len(f) \/ i = Len(f) + 1
    BY <1>2
  <1>4. QED
    BY <1>1, <1>2, <1>3

\* The only thread that is sending.
LEMMA OneSends ==
  ASSUME NEW p \in Peer, StepOf(p), NEW t \in Thread, pc[p][t] \in {"send", "payload"},
         NEW u \in Thread, u # t
  PROVE  pc[p][u] \notin {"send", "payload", "sent"}
  <1>1. LockInv /\ RefsInv(p)
    BY At DEF ChannelInv
  <1>2. Running(p)
    BY <1>1 DEF RefsInv
  <1>3. QED
    BY <1>1, <1>2 DEF LockInv, WriteLockExclusion, Sending

\* What follows from sending frame x, whoever sends it.
LEMMA SentKept ==
  ASSUME NEW p \in Peer, StepOf(p), NEW q \in Peer, q = Other(p), NEW t \in Thread, OnlyThread(p, t),
         pc[p][t] \in {"send", "payload"}, st'[p] = st[p], tbl'[p] = tbl[p], nrd'[p] = nrd[p],
         NEW x \in GoodFrames, Sent1(p, x), WellFormed(x),
         t # 0 => nwr'[p][t] = nwr[p][t] \/ t \in tbl[p],
         \A s, r \in Sid : x.sid = s /\ x.did = r => Joined(p, s, r),
         pc'[p][0] \in Serving => pc[p][0] \in Serving,
         pc'[p][0] \in {"acquire", "send"} => pc[p][0] \in {"acquire", "send"},
         x.code = "request" => x.sid = t,
         t # 0 => Writer(p, t)',
         t # 0 => Request(p, t)' \/ (x.code # "request" /\ ~Asker(p, t) /\ ~Asking(p, t)'),
         \A s, r \in Sid : Joined(p, s, r) /\ Flow(p, s, r) /\ Flow(q, r, s) => Flow(p, s, r)' /\ Flow(q, r, s)'
  PROVE  PeerStreams(p)' /\ PeerStreams(q)'
  <1>1. /\ \A s \in Sid : s \in Thread /\ s # 0 /\ (pc[p][s] \in PCs /\ st[p][s].rwnd \in Int)
        /\ gsid' = gsid /\ gsid[p] \in Nat /\ net[p] \in Seq(GoodFrames) /\ net[q] \in Seq(GoodFrames) /\ 0 \in Thread
        /\ Other(q) = p /\ cur' = cur
    BY At, ThreadFacts, PeerFacts DEF OnlyThread
  <1>2. net'[p] = net[p] /\ net'[q] = Append(net[q], x)
    BY DEF Sent1
  <1>3. PICK k : k = 0 /\ Dropped(net[p], net'[p], k)
    BY <1>1, <1>2, NothingDropped
  <1>4. gsid'[p] >= gsid[p] /\ ~(k > 0)
    BY <1>1, <1>3
  <1>5. PICK f : f = net[q]
    OBVIOUS
  <1>6. PICK g : g = net'[q]
    OBVIOUS
  <1>7. /\ Len(g) = Len(f) + 1 /\ Len(f) \in Nat /\ g[Len(f) + 1] = x
        /\ \A i \in 1..Len(f) : g[i] = f[i] /\ i \in 1..Len(g)
        /\ \A i \in 1..Len(g) : i \in 1..Len(f) \/ i = Len(f) + 1
    <2>1. g = Append(f, x) /\ f \in Seq(GoodFrames)
      BY <1>1, <1>2, <1>5, <1>6
    <2>2. /\ Len(g) = Len(f) + 1 /\ Len(f) \in Nat /\ g[Len(f) + 1] = x
          /\ \A i \in 1..Len(f) : g[i] = f[i]
          /\ \A i \in 1..Len(g) : i \in 1..Len(f) \/ i = Len(f) + 1
      BY <2>1, Longer
    <2>3. QED
      BY <2>2
  <1>8. Quiet(p)
    <2> SUFFICES ASSUME NEW s \in Sid, NEW r \in Sid, Says(p, s, r)' PROVE Joined(p, s, r)
      BY DEF Quiet
    <2>1. CASE st'[p][s].did = r \/ (cur'[p].sid = s /\ cur'[p].did = r)
      BY <1>1, <2>1 DEF Joined, Says
    <2>2. CASE \E i \in 1..Len(g) : g[i].sid = s /\ g[i].did = r
      <3>1. PICK i \in 1..Len(g) : g[i].sid = s /\ g[i].did = r
        BY <2>2
      <3>2. CASE i \in 1..Len(f)
        BY <1>5, <1>7, <3>1, <3>2 DEF Joined, Says
      <3>3. CASE i = Len(f) + 1
        BY <1>7, <3>1, <3>3
      <3>4. QED
        BY <1>7, <3>2, <3>3
    <2>3. QED
      BY <1>6, <2>1, <2>2 DEF Says
  <1>9. \A s, r \in Sid : Joined(p, s, r)' => Joined(p, s, r)
    BY <1>3, <1>4, <1>8, QuietEnds
  <1>10. Named(p)'
    <2>1. \A i \in 1..Len(f) : WellFormed(f[i])
      BY <1>5 DEF StepOf, PeerStreams, Named
    <2>2. \A i \in 1..Len(g) : WellFormed(g[i])
      BY <1>7, <2>1
    <2>3. QED
      BY <1>6, <2>2 DEF Named, WellFormed
  <1>11. Answer(p)'
    BY <1>1, AnswerKept
  <1>12. ASSUME NEW u \in Sid PROVE Writer(p, u)'
    <2>1. CASE u # t
      <3>1. Writer(p, u) /\ pc[p][u] # "payload"
        BY <1>1, <2>1, OneSends DEF StepOf, PeerStreams
      <3>2. /\ pc'[p][u] = pc[p][u] /\ op'[p][u] = op[p][u] /\ nwr'[p][u] = nwr[p][u]
        BY <1>1, <2>1 DEF OnlyThread
      <3>3. QED
        BY <3>1, <3>2 DEF Writer, Writing
    <2>2. QED
      BY <1>1, <2>1
  <1>13. ASSUME NEW u \in Sid PROVE Request(p, u)'
    <2>1. CASE ~(x.code = "request" /\ x.sid = u) /\ (u = t => ~Asker(p, t) /\ ~Asking(p, t)')
      <3>1. Request(p, u)
        BY DEF StepOf, PeerStreams
      <3>2. u # t => /\ pc'[p][u] = pc[p][u] /\ op'[p][u] = op[p][u] /\ nwr'[p][u] = nwr[p][u]
        BY <1>1 DEF OnlyThread
      <3>3. Asking(p, u)' => Asking(p, u)
        BY <2>1, <3>2 DEF Asking
      <3>4. Requested(g, u) <=> Requested(f, u)
        BY <1>7, <2>1 DEF Requested
      <3>5. Fresh(p, u)' => Fresh(p, u)
        BY <1>5, <1>6, <3>3, <3>4 DEF Fresh
      <3>6. Fresh(p, u)' => Asker(p, u)'
        <4> SUFFICES ASSUME Fresh(p, u)' PROVE Asker(p, u)'
          OBVIOUS
        <4>1. Asker(p, u) /\ u # t
          BY <2>1, <3>1, <3>5 DEF Request
        <4>2. \A r \in Sid : ~Joined(p, u, r)'
          BY <1>9, <4>1 DEF Asker
        <4>3. QED
          BY <1>1, <3>2, <4>1, <4>2 DEF Asker
      <3>7. Asking(p, u)' => ~Requested(g, u)
        BY <1>5, <3>1, <3>3, <3>4 DEF Request
      <3>8. \A i, j \in 1..Len(f) : /\ f[i].code = "request" /\ f[i].sid = u
                                    /\ f[j].code = "request" /\ f[j].sid = u
                                    => i = j
        BY <1>5, <3>1 DEF Request
      <3>9. \A i, j \in 1..Len(g) : /\ g[i].code = "request" /\ g[i].sid = u
                                    /\ g[j].code = "request" /\ g[j].sid = u
                                    => i = j
        BY <1>7, <2>1, <3>8
      <3>10. QED
        BY <1>6, <3>6, <3>7, <3>9 DEF Request
    <2>2. QED
      BY <1>1, <2>1
  <1>14. \A s \in Sid : s > gsid'[p] => nwr'[p][s] = 0 /\ nrd'[p][s] = 0
    <2>1. \A s \in Sid : nwr'[p][s] # nwr[p][s] \/ nrd'[p][s] # nrd[p][s] => s \in tbl[p]
      BY <1>1 DEF OnlyThread
    <2>2. QED
      BY <1>4, <2>1, CountsKept
  <1>15. QED
    BY <1>3, <1>4, <1>8, <1>10, <1>11, <1>12, <1>13, <1>14, Assemble

\* The streams on the other side of two streams of p differ.
LEMMA OtherEnds ==
  ASSUME NEW p \in Peer, StepOf(p), NEW s \in Sid, NEW t \in Sid, NEW r \in Sid, Joined(p, s, r), Joined(p, t, r)
  PROVE  s = t
  <1>1. OneEnd(Other(p))
    BY DEF StepOf, PeerStreams
  <1>2. QED
    BY <1>1, JoinedTwice DEF OneEnd

\* A thread sends the first frame of its message.
LEMMA SendKept ==
  ASSUME NEW p \in Peer, StepOf(p), NEW t \in Thread, OnlyThread(p, t), DoesSend(p, t)
  PROVE  PeerStreams(p)' /\ PeerStreams(Other(p))'
  <1>1. PICK q \in Peer : q = Other(p)
    BY PeerFacts
  <1>2. /\ pc[p][t] = "send" /\ Idle(p, t) /\ pc'[p][t] = NextPc(p, t) /\ op'[p][t] = op[p][t]
        /\ op[p][t] \in Ops /\ Role(t, "send", op[p][t])
    <2>1. op[p][t] \in Ops /\ Role(t, pc[p][t], op[p][t])
      BY At
    <2>2. QED
      BY <2>1 DEF DoesSend, Moves1
  <1>3. PICK x \in FirstFrames(p, t) : Sent1(p, x)
    BY DEF DoesSend
  <1>4. /\ x.code = op[p][t]
        /\ op[p][t] = "request" => x.sid = t /\ x.did = 0
        /\ op[p][t] = "response" => x.sid = cur[p].sid /\ x.did = cur[p].did
        /\ op[p][t] \notin {"request", "response"} => x.sid = t /\ x.did = st[p][t].did
    BY <1>2, FirstFrameStreams
  <1>5. x \in GoodFrames
    BY <1>2, At, FirstFrameTypes
  <1>6. /\ op[p][t] \in MessagesOf(t)
        /\ t = 0 => op[p][t] = "response"
        /\ t # 0 => t \in Sid /\ op[p][t] \in {"request", "data", "ack", "close"}
    BY <1>2, ThreadFacts DEF Role, MessagesOf, Sending
  <1>7. t # 0 => t \in tbl[p] /\ Writer(p, t) /\ Request(p, t)
    BY <1>2, <1>6, UsesStream DEF StepOf, PeerStreams
  <1>8. x.code = "data" => st[p][t].did # 0
    BY <1>2, <1>4, <1>6, <1>7 DEF Writer, Writing
  <1>9. WellFormed(x)
    <2>1. CASE t = 0
      <3>1. Answer(p) /\ x = Frame("response", cur[p].sid, cur[p].did, cur[p].rwnd, cur[p].status, 0)
        BY <1>6, <2>1 DEF StepOf, PeerStreams, FirstFrames
      <3>2. x.code = "response" /\ x.sid = cur[p].sid /\ x.rwnd = cur[p].rwnd /\ x.info = cur[p].status
        BY <3>1 DEF Frame
      <3>3. QED
        BY <1>2, <2>1, <3>1, <3>2 DEF WellFormed, Answer
    <2>2. CASE t # 0 /\ op[p][t] = "request"
      <3>1. PICK target \in Targets : x = Frame("request", t, 0, srwnd(p, t), target, 0)
        BY <2>2 DEF FirstFrames
      <3>2. x.code = "request" /\ x.sid = t /\ x.rwnd = srwnd(p, t)
        BY <3>1 DEF Frame
      <3>3. srwnd(p, t) <= QueueSize
        BY At, RoomBound
      <3>4. QED
        BY <2>2, <3>2, <3>3 DEF WellFormed
    <2>3. CASE t # 0 /\ op[p][t] # "request"
      BY <1>4, <1>6, <1>8, <2>3 DEF WellFormed
    <2>4. QED
      BY <2>1, <2>2, <2>3
  <1>10. \A s, r \in Sid : x.sid = s /\ x.did = r => Joined(p, s, r)
    BY <1>4, ThreadFacts DEF Joined, Says
  <1>11. /\ pc'[p][0] \in Serving => pc[p][0] \in Serving
         /\ pc'[p][0] \in {"acquire", "send"} => pc[p][0] \in {"acquire", "send"}
    BY <1>2, ThreadFacts DEF OnlyThread, Serving, Answering
  <1>12. st'[p] = st[p] /\ tbl'[p] = tbl[p] /\ nrd'[p] = nrd[p] /\ nwr'[p] = nwr[p] /\ net[q] \in Seq(GoodFrames)
    BY <1>1, <1>2, At DEF Idle
  <1>13. net'[q] = Append(net[q], x)
    BY <1>1, <1>3 DEF Sent1
  <1>14. ASSUME t # 0 PROVE Writer(p, t)'
    <2>1. CASE op[p][t] = "data"
      <3>1. PICK g : g = net'[q]
        OBVIOUS
      <3>2. Len(g) > 0 /\ g[Len(g)] = x
        <4>1. g = Append(net[q], x)
          BY <1>13, <3>1
        <4>2. Len(g) = Len(net[q]) + 1 /\ Len(net[q]) \in Nat /\ g[Len(net[q]) + 1] = x
          BY <1>5, <1>12, <4>1, Longer
        <4>3. QED
          BY <4>2
      <3>3. pc'[p][t] = "payload"
        BY <1>2, <2>1 DEF NextPc
      <3>4. Len(g) > 0 /\ g[Len(g)].code = "data" /\ g[Len(g)].sid = t /\ g[Len(g)].did = st'[p][t].did
        BY <1>4, <1>12, <2>1, <3>2
      <3>5. QED
        BY <1>1, <1>2, <1>7, <1>12, <1>14, <2>1, <3>1, <3>3, <3>4 DEF Writer, Writing
    <2>2. CASE op[p][t] # "data"
      <3>1. pc'[p][t] = "release"
        BY <1>2, <2>2 DEF NextPc
      <3>2. QED
        BY <1>7, <1>12, <1>14, <3>1 DEF Writer, Writing
    <2>3. QED
      BY <2>1, <2>2
  <1>15. ASSUME NEW s \in Sid, NEW r \in Sid, Joined(p, s, r), Flow(p, s, r), Flow(q, r, s)
         PROVE  Flow(p, s, r)' /\ Flow(q, r, s)'
    <2>1. s \in Thread /\ (s = t => Owes(p, s)' = 0) /\ (s # t => Owes(p, s)' = Owes(p, s))
      BY <1>2, ThreadFacts DEF Owes, One, OnlyThread, NextPc
    <2>2. Calm(p, s)
      BY <1>2, <1>12, <2>1, OwesType DEF Calm, OnlyThread
    <2>3. ~Carries(Append(net[q], x), r, Len(net[q]) + 1)
      <3>1. x.code # "payload"
        BY <1>4, <1>6
      <3>2. QED
        BY <1>5, <1>12, <3>1, FramesAppend
    <2>4. ASSUME x.code = "ack", x.did = r PROVE Owes(p, s)' + 1 <= Owes(p, s)
      <3>1. op[p][t] = "ack" /\ t \in Sid /\ st[p][t].did = r
        BY <1>4, <1>6, <2>4
      <3>2. Joined(p, t, r)
        BY <3>1 DEF Joined, Says
      <3>3. s = t
        BY <1>15, <3>1, <3>2, OtherEnds
      <3>4. Owes(p, s) = 1
        BY <1>2, <3>1, <3>3 DEF Owes, One
      <3>5. QED
        BY <2>1, <3>3, <3>4
    <2>5. QED
      BY <1>1, <1>3, <1>5, <1>15, <2>2, <2>3, <2>4, CalmSends
  <1>16. ASSUME t # 0 PROVE Request(p, t)' \/ (x.code # "request" /\ ~Asker(p, t) /\ ~Asking(p, t)')
    <2>1. CASE op[p][t] # "request"
      BY <1>2, <1>4, <2>1 DEF Asker, Asking
    <2>2. CASE op[p][t] = "request"
      <3>1. Asking(p, t) /\ ~Asking(p, t)'
        BY <1>2, <2>2 DEF Asking, NextPc
      <3>2. Asker(p, t) /\ ~Requested(net[q], t)
        BY <1>1, <1>7, <1>16, <3>1 DEF Request, Fresh
      <3>3. \A r \in Sid : ~Joined(p, t, r)'
        <4> SUFFICES ASSUME NEW r \in Sid, Joined(p, t, r)' PROVE FALSE
          OBVIOUS
        <4>1. ~Joined(p, t, r) /\ Other(q) = p
          BY <1>1, <3>2, PeerFacts DEF Asker
        <4>2. cur' = cur /\ net'[p] = net[p] /\ SamePeer(q)
          BY <1>1, <1>3 DEF OnlyThread, Sent1, StepOf
        <4>3. ~Says(q, r, t)'
          BY <1>1, <4>1, <4>2 DEF Joined, Says, SamePeer
        <4>4. Says(p, t, r)'
          BY <1>1, <4>3 DEF Joined
        <4>5. PICK i \in 1..Len(net'[q]) : net'[q][i].sid = t /\ net'[q][i].did = r
          BY <1>1, <1>12, <4>1, <4>2, <4>4 DEF Joined, Says
        <4>6. i \in 1..Len(net[q]) /\ net'[q][i] = net[q][i]
          <5>1. PICK g : g = Append(net[q], x)
            OBVIOUS
          <5>2. /\ \A j \in 1..Len(g) : j \in 1..Len(net[q]) \/ j = Len(net[q]) + 1
                /\ \A j \in 1..Len(net[q]) : g[j] = net[q][j]
                /\ g[Len(net[q]) + 1] = x
            BY <1>5, <1>12, <5>1, Longer
          <5>3. g = net'[q] /\ x.did = 0 /\ r # 0
            BY <1>4, <1>13, <2>2, <5>1, ThreadFacts
          <5>4. QED
            BY <4>5, <5>2, <5>3
        <4>7. QED
          BY <1>1, <4>1, <4>5, <4>6 DEF Joined, Says
      <3>4. Asker(p, t)'
        <4>1. pc'[p][t] = "release" /\ op'[p][t] = "request" /\ gsid' = gsid
          BY <1>2, <2>2 DEF NextPc, OnlyThread
        <4>2. QED
          BY <1>12, <3>2, <3>3, <4>1 DEF Asker
      <3>5. \A i, j \in 1..Len(net'[q]) : /\ net'[q][i].code = "request" /\ net'[q][i].sid = t
                                          /\ net'[q][j].code = "request" /\ net'[q][j].sid = t
                                          => i = j
        <4>1. PICK g : g = Append(net[q], x)
          OBVIOUS
        <4>2. /\ \A j \in 1..Len(g) : j \in 1..Len(net[q]) \/ j = Len(net[q]) + 1
              /\ \A j \in 1..Len(net[q]) : g[j] = net[q][j]
          BY <1>5, <1>12, <4>1, Longer
        <4>3. \A j \in 1..Len(g) : g[j].code = "request" /\ g[j].sid = t => j = Len(net[q]) + 1
          BY <3>2, <4>2 DEF Requested
        <4>4. QED
          BY <1>13, <4>1, <4>3
      <3>6. QED
        BY <1>1, <3>1, <3>4, <3>5 DEF Request
    <2>3. QED
      BY <2>1, <2>2
  <1>17. x.code = "request" => x.sid = t
    BY <1>4
  <1>18. PeerStreams(p)' /\ PeerStreams(q)'
    BY <1>1, <1>2, <1>3, <1>5, <1>9, <1>10, <1>11, <1>12, <1>14, <1>15, <1>16, <1>17, SentKept
  <1>19. QED
    BY <1>1, <1>18

\* More messages have been written than are on their way, when the others are lost.
LEMMA AheadMore ==
  ASSUME NEW f \in Seq(GoodFrames), NEW r, NEW got \in Nat, NEW n \in Nat, NEW w \in Nat, Ahead(f, r, got, n, w)
  PROVE  Ahead(f, r, got, n, w + 1)
  <1>1. \A i \in 1..Len(f) : f[i].seq \in Nat
    BY FrameSeq
  <1>2. QED
    BY <1>1 DEF Ahead

\* The writer's credits allow the message it is sending.
LEMMA PayFlow ==
  ASSUME NEW p \in Peer, StepOf(p), NEW q \in Peer, q = Other(p), NEW t \in Sid, NEW r \in Sid, Joined(p, t, r),
         Flow(p, t, r), Flow(q, r, t), OnlyThread(p, t), DoesPay(p, t)
  PROVE  Flow(p, t, r)' /\ Flow(q, r, t)'
  <1>1. /\ pc[p][t] = "payload" /\ pc'[p][t] = "sent" /\ op'[p][t] = op[p][t] /\ st'[p] = st[p] /\ tbl'[p] = tbl[p]
        /\ nrd'[p] = nrd[p] /\ nwr'[p][t] = nwr[p][t] + 1 /\ net'[p] = net[p] /\ Other(q) = p
    BY PeerFacts DEF DoesPay, Moves1, Sent1
  <1>2. t \in tbl[p] /\ op[p][t] = "data" /\ Writer(p, t) /\ t \in Thread
    <2>1. t \in Thread /\ Role(t, pc[p][t], op[p][t])
      BY At, ThreadFacts
    <2>2. QED
      BY <1>1, <2>1, UsesStream DEF Role, StepOf, PeerStreams
  <1>3. /\ net[p] \in Seq(GoodFrames) /\ net[q] \in Seq(GoodFrames) /\ st[q][r].rxq \in Seq(Nat)
        /\ nrd[q][r] \in Nat /\ nwr[p][t] \in Nat /\ nrd[p][t] \in Nat /\ st[p][t].rwnd \in Int
    <2>1. CountTypes /\ StreamTypes /\ r \in Thread
      BY TypeParts, ThreadFacts DEF StepOf, FullInv
    <2>2. st[q][r].rxq \in Seq(Nat) /\ nrd[q][r] \in Nat
      BY <2>1 DEF CountTypes, StreamTypes, Streams
    <2>3. QED
      BY <1>2, <2>2, At
  <1>4. PICK a \in Nat : a = AcksFor(net[p], t)
    BY <1>3, AcksFinite
  <1>5. PICK w \in Nat, got \in Nat, rw \in Int : w = nwr[p][t] /\ got = nrd[q][r] /\ rw = st[p][t].rwnd
    BY <1>3
  <1>6. rw > 0 /\ st[p][t].did # 0
    BY <1>1, <1>2, <1>5 DEF Writer, Writing
  <1>7. Credits(p, t) = rw + w /\ Credits(p, t)' = rw + w
    BY <1>1, <1>5 DEF Credits, One
  <1>8. w + 1 <= got + QueueSize
    <2>1. PICK o \in {0, 1} : o = Owes(q, r)
      BY OwesType
    <2>2. Credits(p, t) <= QueueSize + (got - o - a)
      BY <1>1, <1>2, <1>4, <1>5, <2>1 DEF Flow, Returned
    <2>3. QED
      BY <1>4, <1>5, <1>6, <1>7, <2>1, <2>2, BoundsAssumption
  <1>9. /\ r \in tbl[q] => Ahead(net'[q], r, got, Len(st[q][r].rxq), w + 1)
        /\ r \in tbl[q] /\ ~Severed(p) => Exact(net'[q], r, got, st[q][r].rxq, w + 1)
    <2> SUFFICES ASSUME r \in tbl[q]
                 PROVE  /\ Ahead(net'[q], r, got, Len(st[q][r].rxq), w + 1)
                        /\ ~Severed(p) => Exact(net'[q], r, got, st[q][r].rxq, w + 1)
      OBVIOUS
    <2>1. /\ Ahead(net[q], r, got, Len(st[q][r].rxq), w)
          /\ ~Severed(p) => Exact(net[q], r, got, st[q][r].rxq, w)
      BY <1>5 DEF Flow
    <2>2. CASE net' = net /\ Severed(p)
      <3>1. Len(st[q][r].rxq) \in Nat
        BY <1>3, LenProperties
      <3>2. QED
        BY <1>3, <2>1, <2>2, <3>1, AheadMore
    <2>3. CASE ~Severed(p) /\ Sent1(p, Frame("payload", 0, 0, 0, "", nwr[p][t] + 1))
      <3>1. PICK x : x = Frame("payload", 0, 0, 0, "", w + 1)
        OBVIOUS
      <3>2. x \in GoodFrames /\ x.code = "payload" /\ x.seq = w + 1
        <4>1. "payload" \in Codes \cup Ops /\ 0 \in Int /\ "" \in Status \cup Targets \cup {""} /\ w + 1 \in Nat
          BY DEF Codes
        <4>2. Frame("payload", 0, 0, 0, "", w + 1) \in GoodFrames
          BY <4>1, FrameTypes, ThreadFacts
        <4>3. QED
          BY <3>1, <4>2 DEF Frame
      <3>3. net'[q] = Append(net[q], x)
        BY <1>5, <2>3, <3>1 DEF Sent1
      <3>4. /\ Len(net[q]) > 0 /\ net[q][Len(net[q])].code = "data" /\ net[q][Len(net[q])].did = st[p][t].did
        BY <1>1, <1>2, <2>3 DEF Writer
      <3>5. st[p][t].did = r
        <4>1. st[p][t].did \in Sid
          BY <1>2, <1>6, At, ThreadFacts
        <4>2. Joined(p, t, st[p][t].did) /\ OneEnd(p)
          BY DEF Joined, Says, StepOf, PeerStreams
        <4>3. QED
          BY <4>1, <4>2 DEF OneEnd
      <3>6. Carries(Append(net[q], x), r, Len(net[q]) + 1)
        BY <1>3, <3>2, <3>4, <3>5, FramesAppend
      <3>7. QED
        BY <1>3, <1>8, <2>1, <3>2, <3>3, <3>6, MessageSent
    <2>4. QED
      BY <2>2, <2>3 DEF DoesPay
  <1>10. Flow(p, t, r)'
    <2>1. AcksFor(net'[p], t) <= AcksFor(net[p], t)
      BY <1>1, <1>4
    <2>2. t \in tbl'[p] => t \in tbl[p] /\ Credits(p, t)' + AcksFor(net'[p], t) <= Credits(p, t) + AcksFor(net[p], t)
      BY <1>1, <1>4, <1>5, <1>7
    <2>3. QED
      BY <1>1, <1>5, <1>9, <2>1, <2>2, WriterFlow
  <1>11. Flow(q, r, t)'
    <2>1. Owes(p, t)' = Owes(p, t) /\ Owes(p, t) = 0
      BY <1>1 DEF Owes, One
    <2>2. PICK b \in Nat : b = AcksFor(net[q], r) /\ b = AcksFor(net'[q], r)
      <3>1. PICK b \in Nat : b = AcksFor(net[q], r)
        BY <1>3, AcksFinite
      <3>2. CASE net' = net
        BY <3>1, <3>2
      <3>3. CASE Sent1(p, Frame("payload", 0, 0, 0, "", nwr[p][t] + 1))
        <4>1. PICK x : x = Frame("payload", 0, 0, 0, "", w + 1)
          OBVIOUS
        <4>2. x \in GoodFrames /\ x.code = "payload"
          <5>1. "payload" \in Codes \cup Ops /\ 0 \in Int /\ "" \in Status \cup Targets \cup {""} /\ w + 1 \in Nat
            BY DEF Codes
          <5>2. Frame("payload", 0, 0, 0, "", w + 1) \in GoodFrames
            BY <5>1, FrameTypes, ThreadFacts
          <5>3. QED
            BY <4>1, <5>2 DEF Frame
        <4>3. net'[q] = Append(net[q], x)
          BY <1>5, <3>3, <4>1 DEF Sent1
        <4>4. AcksFor(Append(net[q], x), r) = AcksFor(net[q], r)
          BY <1>3, <4>2, AcksAppend
        <4>5. QED
          BY <3>1, <4>3, <4>4
      <3>4. QED
        BY <3>2, <3>3 DEF DoesPay
    <2>3. nrd[p][t] - Owes(p, t) - AcksFor(net[q], r) <= nrd'[p][t] - Owes(p, t)' - AcksFor(net'[q], r)
      BY <1>1, <1>3, <2>1, <2>2
    <2>4. /\ t \in tbl'[p] => Ahead(net'[p], t, nrd'[p][t], Len(st'[p][t].rxq), nwr[q][r])
          /\ t \in tbl'[p] /\ ~Severed(q) => Exact(net'[p], t, nrd'[p][t], st'[p][t].rxq, nwr[q][r])
      BY <1>1 DEF Flow
    <2>5. QED
      BY <2>3, <2>4, ReaderFlow
  <1>12. QED
    BY <1>10, <1>11

\* A thread sends the payload.
LEMMA PayKept ==
  ASSUME NEW p \in Peer, StepOf(p), NEW t \in Thread, OnlyThread(p, t), DoesPay(p, t)
  PROVE  PeerStreams(p)' /\ PeerStreams(Other(p))'
  <1>1. PICK q \in Peer : q = Other(p)
    BY PeerFacts
  <1>2. /\ pc[p][t] = "payload" /\ pc'[p][t] = "sent" /\ op'[p][t] = op[p][t] /\ st'[p] = st[p] /\ tbl'[p] = tbl[p]
        /\ nrd'[p] = nrd[p] /\ t \in Sid /\ nwr'[p][t] = nwr[p][t] + 1 /\ t # 0
    BY ThreadFacts DEF DoesPay, Moves1
  <1>3. t \in tbl[p] /\ op[p][t] = "data" /\ Writer(p, t)
    <2>1. Role(t, pc[p][t], op[p][t])
      BY At
    <2>2. QED
      BY <1>2, <2>1, UsesStream DEF Role, StepOf, PeerStreams
  <1>4. Writer(p, t)'
    BY <1>2, <1>3 DEF Writer, Writing
  <1>5. \A r \in Sid : Joined(p, t, r) /\ Flow(p, t, r) /\ Flow(q, r, t) => Flow(p, t, r)' /\ Flow(q, r, t)'
    BY <1>1, <1>2, PayFlow
  <1>6. ~Asker(p, t) /\ ~Asking(p, t)'
    BY <1>2 DEF Asker, Asking
  <1>7. CASE net' = net
    <2>1. PeerStreams(p)' /\ PeerStreams(q)'
      BY <1>1, <1>2, <1>3, <1>4, <1>5, <1>6, <1>7, WorkKept
    <2>2. QED
      BY <1>1, <2>1
  <1>8. CASE ~Severed(p) /\ Sent1(p, Frame("payload", 0, 0, 0, "", nwr[p][t] + 1))
    <2>1. PICK x : x = Frame("payload", 0, 0, 0, "", nwr[p][t] + 1)
      OBVIOUS
    <2>2. x \in GoodFrames /\ x.code = "payload" /\ x.sid = 0
      <3>1. nwr[p][t] \in Nat
        BY <1>2, At
      <3>2. "payload" \in Codes \cup Ops /\ 0 \in Int /\ "" \in Status \cup Targets \cup {""} /\ nwr[p][t] + 1 \in Nat
        BY <3>1 DEF Codes
      <3>3. Frame("payload", 0, 0, 0, "", nwr[p][t] + 1) \in GoodFrames
        BY <3>2, FrameTypes, ThreadFacts
      <3>4. QED
        BY <2>1, <3>3 DEF Frame
    <2>3. Sent1(p, x) /\ WellFormed(x)
      BY <1>8, <2>1, <2>2 DEF WellFormed
    <2>4. \A s, r \in Sid : x.sid = s /\ x.did = r => Joined(p, s, r)
      BY <2>2, ThreadFacts
    <2>5. pc'[p][0] = pc[p][0]
      BY <1>2, ThreadFacts DEF OnlyThread
    <2>6. ASSUME NEW s \in Sid, NEW r \in Sid, Joined(p, s, r), Flow(p, s, r), Flow(q, r, s)
          PROVE  Flow(p, s, r)' /\ Flow(q, r, s)'
      <3>1. CASE s = t
        BY <1>5, <2>6, <3>1
      <3>2. CASE s # t
        <4>1. Calm(p, s)
          BY <1>2, <3>2, OthersCalm
        <4>2. st[p][t].did # r
          <5>1. st[p][t].did = r => Joined(p, t, r)
            BY DEF Joined, Says
          <5>2. QED
            BY <1>2, <2>6, <3>2, <5>1, OtherEnds
        <4>3. net[q][Len(net[q])].did = st[p][t].did
          BY <1>1, <1>2, <1>3, <1>8 DEF Writer
        <4>4. ~Carries(Append(net[q], x), r, Len(net[q]) + 1)
          <5>1. net[q] \in Seq(GoodFrames)
            BY <1>1, At
          <5>2. QED
            BY <2>2, <4>2, <4>3, <5>1, FramesAppend
        <4>5. QED
          BY <1>1, <2>2, <2>3, <2>6, <4>1, <4>4, CalmSends
      <3>3. QED
        BY <3>1, <3>2
    <2>7. PeerStreams(p)' /\ PeerStreams(q)'
      BY <1>1, <1>2, <1>3, <1>4, <1>6, <2>2, <2>3, <2>4, <2>5, <2>6, SentKept
    <2>8. QED
      BY <1>1, <2>7
  <1>9. QED
    BY <1>7, <1>8 DEF DoesPay

-----------------------------------------------------------------------------
(* The channel thread answers requests.                                    *)

LEMMA ChannelKept ==
  ASSUME NEW p \in Peer, StepOf(p), NEW q \in Peer, q = Other(p), gsid'[p] = gsid[p], Quiet(p), SameCounts,
         NEW k, Dropped(net[p], net'[p], k), k > 0 => net[p][k].code # "data", net'[q] = net[q],
         Answer(p)', \A u \in Sid : Writer(p, u)', \A u \in Sid : Asking(p, u)' => Asking(p, u),
         \A u \in Sid : Fresh(p, u) /\ Asker(p, u) =>
           /\ \/ pc'[p][u] \in {"acquire", "send", "release"} /\ op'[p][u] = "request"
              \/ pc'[p][u] \in {"opening", "fail", "done", "crashed"}
           /\ u \in tbl'[p] => st'[p][u].state # "established" /\ st'[p][u].rwnd = 0
           /\ st'[p][u].rxq = << >>,
         \A s, r \in Sid : Joined(p, s, r) /\ Flow(p, s, r) /\ Flow(q, r, s) => Flow(p, s, r)' /\ Flow(q, r, s)'
  PROVE  PeerStreams(p)' /\ PeerStreams(q)'
  <1>1. gsid'[p] >= gsid[p] /\ nwr' = nwr /\ nrd' = nrd
    BY At DEF SameCounts
  <1>2. \A s, r \in Sid : Joined(p, s, r)' => Joined(p, s, r)
    BY <1>1, QuietEnds
  <1>3. Named(p)'
    BY DEF StepOf, PeerStreams, Named, WellFormed
  <1>4. ASSUME NEW u \in Sid PROVE Request(p, u)'
    <2>1. \A r \in Sid : Joined(p, u, r)' => Joined(p, u, r)
      BY <1>2
    <2>2. /\ Asking(p, u)' => Asking(p, u)
          /\ Fresh(p, u) /\ Asker(p, u) =>
             /\ \/ pc'[p][u] \in {"acquire", "send", "release"} /\ op'[p][u] = "request"
                \/ pc'[p][u] \in {"opening", "fail", "done", "crashed"}
             /\ u \in tbl'[p] => st'[p][u].state # "established" /\ st'[p][u].rwnd = 0
             /\ st'[p][u].rxq = << >> /\ nwr'[p][u] = nwr[p][u] /\ nrd'[p][u] = nrd[p][u]
      BY <1>1
    <2>3. QED
      BY <1>1, <2>1, <2>2, RequestKept
  <1>5. \A s \in Sid : s > gsid'[p] => nwr'[p][s] = 0 /\ nrd'[p][s] = 0
    BY <1>1, CountsKept
  <1>6. QED
    BY <1>1, <1>3, <1>4, <1>5, Assemble

\* The threads of streams stay where they are.
StillThreads(p) == \A u \in Sid : pc'[p][u] = pc[p][u] /\ op'[p][u] = op[p][u]

LEMMA Stills ==
  ASSUME NEW p \in Peer
  PROVE  /\ \A l : ChannelMoves(p, l) /\ SameOps(p) => StillThreads(p)
         /\ Answers(p) => StillThreads(p)
  BY ThreadFacts DEF ChannelMoves, SameOps, Answers, StillThreads

\* A stream that keeps its window and its queue.
LEMMA StillCalm ==
  ASSUME NEW p \in Peer, StillThreads(p), SameCounts, NEW s \in Sid,
         s \in tbl'[p] => s \in tbl[p] /\ st'[p][s].rwnd = st[p][s].rwnd /\ st'[p][s].rxq = st[p][s].rxq
  PROVE  Calm(p, s)
  <1>1. Owes(p, s)' = Owes(p, s)
    BY DEF Owes, StillThreads
  <1>2. QED
    BY <1>1, OwesType DEF Calm, StillThreads, SameCounts

\* A stream that nothing happens to, but for its state.
LEMMA StillWriter ==
  ASSUME NEW p \in Peer, StepOf(p), StillThreads(p), SameCounts, net'[Other(p)] = net[Other(p)], NEW u \in Sid,
         u \in tbl'[p] => u \in tbl[p],
         st'[p][u].did = st[p][u].did, st'[p][u].rwnd >= st[p][u].rwnd,
         \/ st'[p][u].state = st[p][u].state
         \/ st'[p][u].state \notin {"opening", "established"}
  PROVE  Writer(p, u)'
  <1>1. /\ Writer(p, u) /\ (Severed(p) => Severed(p)') /\ st[p][u].rwnd \in Int /\ st'[p][u].rwnd \in Int
        /\ nwr'[p][u] = nwr[p][u]
    BY At, ThreadFacts DEF StepOf, PeerStreams, SameCounts
  <1>2. QED
    BY <1>1 DEF Writer, Writing, StillThreads

LEMMA StillAsker ==
  ASSUME NEW p \in Peer, StillThreads(p), NEW u \in Sid
  PROVE  /\ Asking(p, u)' => Asking(p, u)
         /\ Asker(p, u) => \/ pc'[p][u] \in {"acquire", "send", "release"} /\ op'[p][u] = "request"
                           \/ pc'[p][u] \in {"opening", "fail", "done", "crashed"}
  BY DEF StillThreads, Asking, Asker

\* The service method is started.
LEMMA StartKept ==
  ASSUME NEW p \in Peer, StepOf(p), DoesStart(p)
  PROVE  PeerStreams(p)' /\ PeerStreams(Other(p))'
  <1>1. PICK q \in Peer : q = Other(p)
    BY PeerFacts
  <1>2. PICK o \in Sid : o = cur[p].obj
    BY DEF DoesStart
  <1>3. /\ pc[p][0] = "start" /\ pc'[p][0] = "started" /\ pc'[p][o] \in {"read", "open"}
        /\ \A u \in Sid : u # o => pc'[p][u] = pc[p][u]
        /\ \A u \in Sid : op'[p][u] = op[p][u]
        /\ st'[p] = st[p] /\ tbl'[p] = tbl[p] /\ SameCounts /\ gsid' = gsid /\ cur' = cur /\ net' = net
    BY <1>2, ThreadFacts DEF DoesStart, SameOps, SameStreams
  <1>4. pc[p][o] = "none"
    <2>1. FreshInv /\ Running(p)
      BY <1>3, At DEF Running
    <2>2. QED
      BY <1>2, <1>3, <2>1 DEF FreshInv
  <1>5. PICK k : k = 0 /\ Dropped(net[p], net'[p], k)
    BY <1>3, At, NothingDropped
  <1>6. ~(k > 0) /\ 1..k = {} /\ net'[q] = net[q] /\ gsid'[p] = gsid[p]
    BY <1>3, <1>5
  <1>7. Quiet(p)
    BY <1>3 DEF Quiet, Says, Joined
  <1>8. Answer(p)'
    BY <1>3, AnswerKept DEF Serving
  <1>9. ASSUME NEW u \in Sid PROVE Writer(p, u)'
    <2>1. st[p][u].rwnd \in Int /\ nwr'[p][u] = nwr[p][u]
      BY <1>3, At, ThreadFacts DEF SameCounts
    <2>2. QED
      BY <1>1, <1>3, <1>6, <2>1, WriterKept
  <1>10. ASSUME NEW u \in Sid
         PROVE  /\ Asking(p, u)' => Asking(p, u)
                /\ Asker(p, u) =>
                   /\ \/ pc'[p][u] \in {"acquire", "send", "release"} /\ op'[p][u] = "request"
                      \/ pc'[p][u] \in {"opening", "fail", "done", "crashed"}
                   /\ u \in tbl'[p] => st'[p][u].state # "established" /\ st'[p][u].rwnd = 0
                   /\ st'[p][u].rxq = << >>
    BY <1>3, <1>4 DEF Asking, Asker
  <1>11. ASSUME NEW s \in Sid, NEW r \in Sid, Flow(p, s, r), Flow(q, r, s)
         PROVE  Flow(p, s, r)' /\ Flow(q, r, s)'
    <2>1. Calm(p, s)
      <3>1. s = o => Owes(p, s)' = 0
        BY <1>3 DEF Owes, One
      <3>2. s # o => Owes(p, s)' = Owes(p, s)
        BY <1>3 DEF Owes
      <3>3. QED
        BY <1>3, <1>4, <3>1, <3>2, OwesType DEF Calm, SameCounts
    <2>2. QED
      BY <1>1, <1>5, <1>6, <1>11, <2>1, CalmFlow
  <1>12. PeerStreams(p)' /\ PeerStreams(q)'
    BY <1>1, <1>3, <1>5, <1>6, <1>7, <1>8, <1>9, <1>10, <1>11, ChannelKept
  <1>13. QED
    BY <1>1, <1>12

\* The channel thread turns to its answer.
LEMMA AnswerGiven ==
  ASSUME NEW p \in Peer, StepOf(p), DoesAnswer(p)
  PROVE  PeerStreams(p)' /\ PeerStreams(Other(p))'
  <1>1. PICK q \in Peer : q = Other(p)
    BY PeerFacts
  <1>2. /\ pc[p][0] \in {"start", "started"} /\ pc'[p][0] = "acquire" /\ StillThreads(p)
        /\ st'[p] = st[p] /\ tbl'[p] = tbl[p] /\ SameCounts /\ gsid' = gsid /\ net' = net
        /\ cur'[p].obj = cur[p].obj /\ cur'[p].did = cur[p].did /\ cur'[p].rwnd <= QueueSize
        /\ \/ cur'[p].status # "ok" /\ cur'[p].sid = cur[p].sid
           \/ cur'[p].sid = cur[p].obj /\ cur[p].obj \in tbl[p]
    BY Stills DEF DoesAnswer, SameStreams, Answers, ChannelMoves
  <1>3. Answer(p) /\ tbl[p] \subseteq Sid /\ pc[p][0] \in Serving
    BY <1>2, At DEF StepOf, PeerStreams, Serving
  <1>4. PICK k : k = 0 /\ Dropped(net[p], net'[p], k)
    BY <1>2, At, NothingDropped
  <1>5. ~(k > 0) /\ 1..k = {} /\ net'[q] = net[q] /\ gsid'[p] = gsid[p]
    BY <1>2, <1>4
  <1>6. Quiet(p)
    <2> SUFFICES ASSUME NEW s \in Sid, NEW r \in Sid, Says(p, s, r)' PROVE Joined(p, s, r)
      BY DEF Quiet
    <2>1. CASE cur'[p].sid = s /\ cur'[p].did = r
      BY <1>2, <1>3, <2>1 DEF Answer, Joined, Says
    <2>2. CASE ~(cur'[p].sid = s /\ cur'[p].did = r)
      BY <1>2, <2>2 DEF Joined, Says
    <2>3. QED
      BY <2>1, <2>2
  <1>7. Answer(p)'
    <2>1. cur'[p].status = "ok" => cur'[p].sid # 0
      BY <1>2, <1>3, ThreadFacts
    <2>2. QED
      BY <1>2, <1>3, <2>1 DEF Answer, Serving, Answering
  <1>8. ASSUME NEW u \in Sid PROVE Writer(p, u)'
    <2>1. st'[p][u].rwnd >= st[p][u].rwnd
      BY <1>2, At, ThreadFacts
    <2>2. QED
      BY <1>1, <1>2, <1>5, <2>1, StillWriter
  <1>9. ASSUME NEW u \in Sid, Asker(p, u)
        PROVE  (u \in tbl'[p] => st'[p][u].state # "established" /\ st'[p][u].rwnd = 0) /\ st'[p][u].rxq = << >>
    BY <1>2, <1>9 DEF Asker
  <1>10. ASSUME NEW s \in Sid, NEW r \in Sid, Flow(p, s, r), Flow(q, r, s)
         PROVE  Flow(p, s, r)' /\ Flow(q, r, s)'
    <2>1. Calm(p, s)
      BY <1>2, StillCalm
    <2>2. QED
      BY <1>1, <1>4, <1>5, <1>10, <2>1, CalmFlow
  <1>11. PeerStreams(p)' /\ PeerStreams(q)'
    BY <1>1, <1>2, <1>4, <1>5, <1>6, <1>7, <1>8, <1>9, <1>10, StillAsker, ChannelKept
  <1>12. QED
    BY <1>1, <1>11

\* The stream is established.
LEMMA EstablishKept ==
  ASSUME NEW p \in Peer, StepOf(p), DoesEstablish(p)
  PROVE  PeerStreams(p)' /\ PeerStreams(Other(p))'
  <1>1. PICK q \in Peer : q = Other(p)
    BY PeerFacts
  <1>2. PICK o : o = cur[p].obj
    OBVIOUS
  <1>3. /\ pc[p][0] = "setstate" /\ pc'[p][0] = "recv" /\ StillThreads(p) /\ o \in tbl[p] /\ o \in Sid
        /\ st'[p][o] = [st[p][o] EXCEPT !.state = "established"] /\ \A u \in Thread : u # o => st'[p][u] = st[p][u]
        /\ tbl'[p] = tbl[p] /\ SameCounts /\ gsid' = gsid /\ net' = net /\ cur' = cur
    BY <1>2, Stills DEF DoesEstablish, OneStream, ChannelMoves
  <1>4. /\ st'[p][o].state = "established" /\ st'[p][o].did = st[p][o].did /\ st'[p][o].rwnd = st[p][o].rwnd
        /\ st'[p][o].rxq = st[p][o].rxq
    BY <1>3, At, Fields, ThreadFacts
  <1>5. st[p][o].did = cur[p].did /\ st[p][o].did # 0 /\ st[p][o].did \in Sid
    <2>1. Answer(p) /\ pc[p][0] \in Serving
      BY <1>3 DEF StepOf, PeerStreams, Serving, Answering
    <2>2. QED
      BY <1>2, <1>3, <2>1, At, ThreadFacts DEF Answer
  <1>6. PICK k : k = 0 /\ Dropped(net[p], net'[p], k)
    BY <1>3, At, NothingDropped
  <1>7. ~(k > 0) /\ 1..k = {} /\ net'[q] = net[q] /\ gsid'[p] = gsid[p]
    BY <1>3, <1>6
  <1>8. \A u \in Sid : /\ st'[p][u].did = st[p][u].did /\ st'[p][u].rwnd = st[p][u].rwnd
                       /\ st'[p][u].rxq = st[p][u].rxq
    BY <1>3, <1>4, ThreadFacts
  <1>9. Quiet(p)
    BY <1>3, <1>8 DEF Quiet, Says, Joined
  <1>10. Answer(p)'
    <2>1. pc'[p][0] \notin Serving /\ pc'[p][0] \notin {"acquire", "send"}
      BY <1>3 DEF Serving, Answering
    <2>2. Answer(p) /\ cur'[p] = cur[p]
      BY <1>3 DEF StepOf, PeerStreams
    <2>3. QED
      BY <2>1, <2>2 DEF Answer
  <1>11. ASSUME NEW u \in Sid PROVE Writer(p, u)'
    <2>1. CASE u = o
      <3>1. Writer(p, o) /\ (Severed(p) => Severed(p)')
        BY <1>3 DEF StepOf, PeerStreams
      <3>2. QED
        BY <1>1, <1>3, <1>4, <1>5, <1>7, <2>1, <3>1 DEF Writer, Writing, StillThreads
    <2>2. CASE u # o
      <3>1. st'[p][u] = st[p][u] /\ st'[p][u].rwnd >= st[p][u].rwnd
        BY <1>3, <2>2, At, ThreadFacts
      <3>2. QED
        BY <1>1, <1>3, <1>7, <3>1, StillWriter
    <2>3. QED
      BY <2>1, <2>2
  <1>12. ASSUME NEW u \in Sid, Asker(p, u)
         PROVE  (u \in tbl'[p] => st'[p][u].state # "established" /\ st'[p][u].rwnd = 0) /\ st'[p][u].rxq = << >>
    <2>1. u # o
      BY <1>5, <1>12 DEF Asker, Joined, Says
    <2>2. st'[p][u] = st[p][u]
      BY <1>3, <2>1, ThreadFacts
    <2>3. QED
      BY <1>3, <1>12, <2>2 DEF Asker
  <1>13. ASSUME NEW s \in Sid, NEW r \in Sid, Flow(p, s, r), Flow(q, r, s)
         PROVE  Flow(p, s, r)' /\ Flow(q, r, s)'
    <2>1. Calm(p, s)
      BY <1>3, <1>8, StillCalm
    <2>2. QED
      BY <1>1, <1>6, <1>7, <1>13, <2>1, CalmFlow
  <1>14. PeerStreams(p)' /\ PeerStreams(q)'
    BY <1>1, <1>3, <1>6, <1>7, <1>9, <1>10, <1>11, <1>12, <1>13, StillAsker, ChannelKept
  <1>15. QED
    BY <1>1, <1>14

\* The stream of a method that could not be started is freed.
LEMMA DiscardKept ==
  ASSUME NEW p \in Peer, StepOf(p), DoesDiscard(p)
  PROVE  PeerStreams(p)' /\ PeerStreams(Other(p))'
  <1>1. PICK q \in Peer : q = Other(p)
    BY PeerFacts
  <1>2. PICK o : o = cur[p].obj
    OBVIOUS
  <1>3. /\ pc[p][0] = "setstate" /\ pc'[p][0] = "recv" /\ StillThreads(p) /\ o \in Sid /\ pc[p][o] = "none"
        /\ st'[p][o] = Zeroed /\ \A u \in Thread : u # o => st'[p][u] = st[p][u]
        /\ tbl'[p] = tbl[p] \ {o} /\ SameCounts /\ gsid' = gsid /\ net' = net /\ cur' = cur
    BY <1>2, Stills DEF DoesDiscard, OneStream, ChannelMoves
  <1>4. st'[p][o].did = 0
    BY <1>3 DEF Zeroed, Stream
  <1>5. PICK k : k = 0 /\ Dropped(net[p], net'[p], k)
    BY <1>3, At, NothingDropped
  <1>6. ~(k > 0) /\ 1..k = {} /\ net'[q] = net[q] /\ gsid'[p] = gsid[p]
    BY <1>3, <1>5
  <1>7. \A u \in Sid : u # o => st'[p][u] = st[p][u]
    BY <1>3, ThreadFacts
  <1>8. Quiet(p)
    <2>1. \A u, r \in Sid : st'[p][u].did = r => st[p][u].did = r
      BY <1>4, <1>7, ThreadFacts
    <2>2. QED
      BY <1>3, <2>1 DEF Quiet, Says, Joined
  <1>9. Answer(p)'
    <2>1. pc'[p][0] \notin Serving /\ pc'[p][0] \notin {"acquire", "send"}
      BY <1>3 DEF Serving, Answering
    <2>2. Answer(p) /\ cur'[p] = cur[p]
      BY <1>3 DEF StepOf, PeerStreams
    <2>3. QED
      BY <2>1, <2>2 DEF Answer
  <1>10. ASSUME NEW u \in Sid PROVE Writer(p, u)'
    <2>1. CASE u = o
      BY <1>3, <2>1 DEF Writer, Writing, StillThreads
    <2>2. CASE u # o
      <3>1. st'[p][u] = st[p][u] /\ st'[p][u].rwnd >= st[p][u].rwnd /\ (u \in tbl'[p] => u \in tbl[p])
        BY <1>3, <2>2, At, ThreadFacts
      <3>2. QED
        BY <1>1, <1>3, <1>6, <3>1, StillWriter
    <2>3. QED
      BY <2>1, <2>2
  <1>11. ASSUME NEW u \in Sid, Asker(p, u)
         PROVE  (u \in tbl'[p] => st'[p][u].state # "established" /\ st'[p][u].rwnd = 0) /\ st'[p][u].rxq = << >>
    <2>1. u # o
      BY <1>3, <1>11 DEF Asker
    <2>2. st'[p][u] = st[p][u]
      BY <1>7, <2>1
    <2>3. QED
      BY <1>3, <1>11, <2>2 DEF Asker
  <1>12. ASSUME NEW s \in Sid, NEW r \in Sid, Flow(p, s, r), Flow(q, r, s)
         PROVE  Flow(p, s, r)' /\ Flow(q, r, s)'
    <2>1. Calm(p, s)
      BY <1>3, <1>7, StillCalm
    <2>2. QED
      BY <1>1, <1>5, <1>6, <1>12, <2>1, CalmFlow
  <1>13. PeerStreams(p)' /\ PeerStreams(q)'
    BY <1>1, <1>3, <1>5, <1>6, <1>8, <1>9, <1>10, <1>11, <1>12, StillAsker, ChannelKept
  <1>14. QED
    BY <1>1, <1>13

-----------------------------------------------------------------------------
(* The channel thread takes a frame.                                       *)

\* One frame is taken: it is no message.
LEMMA OneTaken ==
  ASSUME NEW p \in Peer, NEW code, code # "data", Takes(p, 1, code)
  PROVE  \E k : /\ k = 1 /\ Dropped(net[p], net'[p], k) /\ net[p][k].code # "data" /\ k > 0
                /\ \A s : \A i \in 1..k : ~Carries(net[p], s, i)
  <1>1. PICK k : k = 1
    OBVIOUS
  <1>2. \A s : \A i \in 1..k : ~Carries(net[p], s, i)
    BY <1>1 DEF Carries
  <1>3. QED
    BY <1>1, <1>2 DEF Takes

\* The frame that is taken was sent by the other peer.
LEMMA FirstFrame ==
  ASSUME NEW p \in Peer, StepOf(p), NEW k, NEW code, Takes(p, k, code), NEW m, m = net[p][1]
  PROVE  /\ 1 \in 1..Len(net[p]) /\ m \in GoodFrames /\ m.code = code /\ WellFormed(m) /\ m.sid \in Thread
         /\ m.did \in Thread /\ m.rwnd \in Int /\ m.seq \in Nat
         /\ \A s, r \in Sid : m.sid = r /\ m.did = s => Joined(p, s, r)
  <1>1. /\ Other(Other(p)) = p /\ net[p] \in Seq(GoodFrames) /\ Named(Other(p))
    BY At, PeerFacts DEF StepOf, PeerStreams
  <1>2. 1 \in 1..Len(net[p])
    BY DEF Takes, Dropped
  <1>3. m \in GoodFrames
    BY <1>1, <1>2, FrameSeq
  <1>4. m.sid \in Thread /\ m.did \in Thread /\ m.rwnd \in Int /\ m.seq \in Nat
    <2>1. \A x \in GoodFrames : x.sid \in Thread /\ x.did \in Thread /\ x.rwnd \in Int /\ x.seq \in Nat
      BY DEF GoodFrames, Frames
    <2>2. QED
      BY <1>3, <2>1
  <1>5. WellFormed(m) /\ m.code = code
    <2>1. \A i \in 1..Len(net[p]) : WellFormed(net[p][i])
      BY <1>1 DEF Named
    <2>2. QED
      BY <1>2, <2>1 DEF Takes
  <1>6. \A s, r \in Sid : m.sid = r /\ m.did = s => Joined(p, s, r)
    BY <1>1, <1>2 DEF Joined, Says
  <1>7. QED
    BY <1>2, <1>3, <1>4, <1>5, <1>6

\* A request is refused.
LEMMA RefuseKept ==
  ASSUME NEW p \in Peer, StepOf(p), DoesRefuse(p)
  PROVE  PeerStreams(p)' /\ PeerStreams(Other(p))'
  <1>1. PICK q \in Peer : q = Other(p)
    BY PeerFacts
  <1>2. PICK m : m = net[p][1]
    OBVIOUS
  <1>3. /\ pc[p][0] = "recv" /\ pc'[p][0] = "acquire" /\ StillThreads(p) /\ Takes(p, 1, "request")
        /\ st'[p] = st[p] /\ tbl'[p] = tbl[p] /\ SameCounts /\ gsid'[p] = gsid[p] /\ net'[q] = net[q]
        /\ cur'[p].obj = 0 /\ cur'[p].sid = 0 /\ cur'[p].did = m.sid /\ cur'[p].rwnd = 0 /\ cur'[p].status # "ok"
    BY <1>1, <1>2, Stills DEF DoesRefuse, SameStreams, Answers, ChannelMoves, Takes
  <1>4. m.sid # 0
    <2>1. WellFormed(m) /\ m.code = "request"
      BY <1>2, <1>3, FirstFrame
    <2>2. QED
      BY <2>1 DEF WellFormed
  <1>5. PICK k : /\ k = 1 /\ Dropped(net[p], net'[p], k) /\ net[p][k].code # "data" /\ k > 0
                 /\ \A s : \A i \in 1..k : ~Carries(net[p], s, i)
    BY <1>3, OneTaken
  <1>6. Quiet(p)
    BY <1>1, <1>3, ThreadFacts DEF Quiet, Says, Joined
  <1>7. Answer(p)'
    <2>1. 0 \notin tbl'[p]
      BY At, ThreadFacts
    <2>2. QED
      BY <1>3, <1>4, <2>1, BoundsAssumption DEF Answer
  <1>8. ASSUME NEW u \in Sid PROVE Writer(p, u)'
    <2>1. st'[p][u].rwnd >= st[p][u].rwnd
      BY <1>3, At, ThreadFacts
    <2>2. QED
      BY <1>1, <1>3, <2>1, StillWriter
  <1>9. ASSUME NEW u \in Sid, Asker(p, u)
        PROVE  (u \in tbl'[p] => st'[p][u].state # "established" /\ st'[p][u].rwnd = 0) /\ st'[p][u].rxq = << >>
    BY <1>3, <1>9 DEF Asker
  <1>10. ASSUME NEW s \in Sid, NEW r \in Sid, Flow(p, s, r), Flow(q, r, s)
         PROVE  Flow(p, s, r)' /\ Flow(q, r, s)'
    <2>1. Calm(p, s)
      BY <1>3, StillCalm
    <2>2. QED
      BY <1>1, <1>3, <1>5, <1>10, <2>1, CalmFlow
  <1>11. PeerStreams(p)' /\ PeerStreams(q)'
    BY <1>1, <1>3, <1>5, <1>6, <1>7, <1>8, <1>9, <1>10, StillAsker, ChannelKept
  <1>12. QED
    BY <1>1, <1>11

\* A handler changes at most stream s.
LEMMA HandleKept ==
  ASSUME NEW p \in Peer, StepOf(p), NEW q \in Peer, q = Other(p), Handles(p), net'[q] = net[q],
         NEW k, Dropped(net[p], net'[p], k), k > 0 => net[p][k].code # "data",
         NEW s, \A u \in Sid : u # s => st'[p][u] = st[p][u],
         \A u \in Sid : u # s => \A i \in 1..k : ~Carries(net[p], u, i),
         \A r \in Sid : s \in Sid /\ st'[p][s].did = r => Joined(p, s, r),
         s \in Sid => Writer(p, s)',
         s \in Sid /\ Asker(p, s) => st'[p][s].state # "established" /\ st'[p][s].rwnd = 0 /\ st'[p][s].rxq = << >>,
         \A r \in Sid : s \in Sid /\ Joined(p, s, r) /\ Flow(p, s, r) /\ Flow(q, r, s) => Flow(p, s, r)' /\ Flow(q, r, s)'
  PROVE  PeerStreams(p)' /\ PeerStreams(q)'
  <1>1. /\ pc'[p][0] \in {"recv", "shut"} /\ StillThreads(p) /\ SameCounts /\ gsid'[p] = gsid[p] /\ cur' = cur
        /\ tbl'[p] = tbl[p]
    BY Stills DEF Handles, ChannelMoves
  <1>2. Quiet(p)
    <2> SUFFICES ASSUME NEW u \in Sid, NEW r \in Sid, Says(p, u, r)' PROVE Joined(p, u, r)
      BY DEF Quiet
    <2>1. CASE st'[p][u].did = r
      BY <2>1 DEF Joined, Says
    <2>2. CASE st'[p][u].did # r
      BY <1>1, <2>2 DEF Joined, Says
    <2>3. QED
      BY <2>1, <2>2
  <1>3. Answer(p)'
    <2>1. pc'[p][0] \notin Serving /\ pc'[p][0] \notin {"acquire", "send"}
      BY <1>1 DEF Serving, Answering
    <2>2. Answer(p) /\ cur'[p] = cur[p]
      BY <1>1 DEF StepOf, PeerStreams
    <2>3. QED
      BY <2>1, <2>2 DEF Answer
  <1>4. ASSUME NEW u \in Sid PROVE Writer(p, u)'
    <2>1. CASE u # s
      <3>1. st'[p][u] = st[p][u] /\ st'[p][u].rwnd >= st[p][u].rwnd
        BY <2>1, At, ThreadFacts
      <3>2. QED
        BY <1>1, <3>1, StillWriter
    <2>2. QED
      BY <2>1
  <1>5. ASSUME NEW u \in Sid, Asker(p, u)
        PROVE  (u \in tbl'[p] => st'[p][u].state # "established" /\ st'[p][u].rwnd = 0) /\ st'[p][u].rxq = << >>
    <2>1. CASE u # s
      BY <1>1, <1>5, <2>1 DEF Asker
    <2>2. QED
      BY <1>5, <2>1
  <1>6. ASSUME NEW u \in Sid, NEW r \in Sid, Joined(p, u, r), Flow(p, u, r), Flow(q, r, u)
        PROVE  Flow(p, u, r)' /\ Flow(q, r, u)'
    <2>1. CASE u # s
      <3>1. Calm(p, u)
        BY <1>1, <2>1, StillCalm
      <3>2. QED
        BY <1>6, <2>1, <3>1, CalmFlow
    <2>2. QED
      BY <1>6, <2>1
  <1>7. QED
    BY <1>1, <1>2, <1>3, <1>4, <1>5, <1>6, StillAsker, ChannelKept

\* It changes no stream.
LEMMA HandleNothing ==
  ASSUME NEW p \in Peer, StepOf(p), NEW q \in Peer, q = Other(p), Handles(p), net'[q] = net[q],
         NEW k, Dropped(net[p], net'[p], k), k > 0 => net[p][k].code # "data",
         st'[p] = st[p], \A u \in Sid : \A i \in 1..k : ~Carries(net[p], u, i)
  PROVE  PeerStreams(p)' /\ PeerStreams(q)'
  <1>1. PICK s : s = 0
    OBVIOUS
  <1>2. s \notin Sid
    BY <1>1, ThreadFacts
  <1>3. QED
    BY <1>2, HandleKept

\* A stream ends.
LEMMA StateKept ==
  ASSUME NEW p \in Peer, StepOf(p), NEW q \in Peer, q = Other(p), Handles(p), net'[q] = net[q],
         NEW code, code # "data", Takes(p, 1, code), NEW s \in tbl[p], NEW x, x \notin {"opening", "established"},
         OneStream(p, s, [st[p][s] EXCEPT !.state = x])
  PROVE  PeerStreams(p)' /\ PeerStreams(q)'
  <1>1. PICK k : /\ k = 1 /\ Dropped(net[p], net'[p], k) /\ net[p][k].code # "data" /\ k > 0
                 /\ \A u : \A i \in 1..k : ~Carries(net[p], u, i)
    BY OneTaken
  <1>2. /\ s \in Sid /\ \A u \in Sid : u # s => st'[p][u] = st[p][u]
    BY ThreadFacts DEF OneStream
  <1>3. /\ st'[p][s].state = x /\ st'[p][s].did = st[p][s].did
        /\ st'[p][s].rwnd = st[p][s].rwnd /\ st'[p][s].rxq = st[p][s].rxq
    BY <1>2, At, Fields, ThreadFacts DEF OneStream
  <1>4. StillThreads(p) /\ SameCounts /\ tbl'[p] = tbl[p]
    BY Stills DEF Handles
  <1>5. Writer(p, s)'
    <2>1. st'[p][s].rwnd >= st[p][s].rwnd
      BY <1>2, <1>3, At, ThreadFacts
    <2>2. QED
      BY <1>2, <1>3, <1>4, <2>1, StillWriter
  <1>6. \A r \in Sid : st'[p][s].did = r => Joined(p, s, r)
    BY <1>3 DEF Joined, Says
  <1>7. ASSUME NEW r \in Sid, Flow(p, s, r), Flow(q, r, s) PROVE Flow(p, s, r)' /\ Flow(q, r, s)'
    <2>1. Calm(p, s)
      BY <1>2, <1>3, <1>4, StillCalm
    <2>2. QED
      BY <1>1, <1>2, <1>7, <2>1, CalmFlow
  <1>8. Asker(p, s) => st'[p][s].state # "established" /\ st'[p][s].rwnd = 0 /\ st'[p][s].rxq = << >>
    BY <1>3 DEF Asker
  <1>9. QED
    BY <1>1, <1>2, <1>5, <1>6, <1>7, <1>8, HandleKept

\* The other peer has closed the stream.
LEMMA NotifyKept ==
  ASSUME NEW p \in Peer, StepOf(p), DoesNotify(p)
  PROVE  PeerStreams(p)' /\ PeerStreams(Other(p))'
  <1>1. PICK q \in Peer : q = Other(p)
    BY PeerFacts
  <1>2. PICK s : s = net[p][1].did
    OBVIOUS
  <1>3. Takes(p, 1, "close") /\ Handles(p) /\ net'[q] = net[q]
    BY <1>1 DEF DoesNotify, Takes
  <1>4. PICK k : /\ k = 1 /\ Dropped(net[p], net'[p], k) /\ net[p][k].code # "data" /\ k > 0
                 /\ \A u : \A i \in 1..k : ~Carries(net[p], u, i)
    BY <1>3, OneTaken
  <1>5. CASE SameStreams(p)
    BY <1>1, <1>3, <1>4, <1>5, HandleNothing DEF SameStreams
  <1>6. CASE s \in tbl[p] /\ OneStream(p, s, [st[p][s] EXCEPT !.state = "closed_by_remote_party"])
    BY <1>1, <1>3, <1>6, StateKept
  <1>7. QED
    BY <1>2, <1>5, <1>6 DEF DoesNotify

\* The stream p asked for is accepted.
LEMMA GrantKept ==
  ASSUME NEW p \in Peer, StepOf(p), NEW q \in Peer, q = Other(p), Handles(p), net'[q] = net[q], Takes(p, 1, "response"),
         NEW m, m = net[p][1], NEW s \in tbl[p], s = m.did, st[p][s].state = "opening", m.info = "ok",
         OneStream(p, s, [st[p][s] EXCEPT !.state = "established", !.did = m.sid, !.rwnd = m.rwnd])
  PROVE  PeerStreams(p)' /\ PeerStreams(q)'
  <1>1. PICK k : /\ k = 1 /\ Dropped(net[p], net'[p], k) /\ net[p][k].code # "data" /\ k > 0
                 /\ \A u : \A i \in 1..k : ~Carries(net[p], u, i)
    BY OneTaken
  <1>2. /\ s \in Sid /\ s \in Thread /\ \A u \in Sid : u # s => st'[p][u] = st[p][u]
    BY ThreadFacts DEF OneStream
  <1>3. PICK d, w : d = m.sid /\ w = m.rwnd
    OBVIOUS
  <1>4. st'[p][s].state = "established" /\ st'[p][s].did = d /\ st'[p][s].rwnd = w /\ st'[p][s].rxq = st[p][s].rxq
    BY <1>2, <1>3, At, Fields DEF OneStream
  <1>5. StillThreads(p) /\ SameCounts /\ tbl'[p] = tbl[p]
    BY Stills DEF Handles
  <1>6. d \in Sid /\ d # 0 /\ w \in Int /\ w <= QueueSize /\ Joined(p, s, d)
    <2>1. /\ m.code = "response" /\ WellFormed(m) /\ m.sid \in Thread /\ m.rwnd \in Int
          /\ \A u, r \in Sid : m.sid = r /\ m.did = u => Joined(p, u, r)
      BY FirstFrame
    <2>2. m.sid # 0 /\ m.rwnd <= QueueSize
      BY <2>1 DEF WellFormed
    <2>3. m.sid \in Sid
      BY <2>1, <2>2, ThreadFacts
    <2>4. QED
      BY <1>2, <1>3, <2>1, <2>2, <2>3
  <1>7. nwr[p][s] = 0 /\ ~Writing(p, s) /\ pc[p][s] \notin {"payload", "sent"}
    <2>1. Writer(p, s) /\ Role(s, pc[p][s], op[p][s])
      BY <1>2, At DEF StepOf, PeerStreams
    <2>2. nwr[p][s] = 0 /\ ~Writing(p, s)
      BY <2>1 DEF Writer
    <2>3. QED
      BY <2>1, <2>2 DEF Role, Writing
  <1>8. Writer(p, s)'
    BY <1>2, <1>4, <1>5, <1>6, <1>7 DEF Writer, Writing, StillThreads
  <1>9. \A r \in Sid : st'[p][s].did = r => Joined(p, s, r)
    BY <1>4, <1>6
  <1>10. ~Asker(p, s)
    BY <1>6 DEF Asker
  <1>11. ASSUME NEW r \in Sid, Flow(p, s, r), Flow(q, r, s) PROVE Flow(p, s, r)' /\ Flow(q, r, s)'
    <2>1. AcksFor(net'[p], s) <= AcksFor(net[p], s)
      BY <1>1, At, AcksDropped
    <2>2. Credits(p, s)' <= QueueSize
      <3>1. nwr'[p][s] = 0 /\ pc'[p][s] # "sent"
        BY <1>2, <1>5, <1>7 DEF SameCounts, StillThreads
      <3>2. QED
        BY <1>4, <1>6, <3>1, BoundsAssumption DEF Credits, One
    <2>3. nwr'[p][s] = nwr[p][s] /\ nrd'[p][s] = nrd[p][s]
      BY <1>5 DEF SameCounts
    <2>4. /\ r \in tbl[q] => Ahead(net'[q], r, nrd[q][r], Len(st[q][r].rxq), nwr'[p][s])
          /\ r \in tbl[q] /\ ~Severed(p) => Exact(net'[q], r, nrd[q][r], st[q][r].rxq, nwr'[p][s])
      BY <1>11, <2>3 DEF Flow
    <2>5. Flow(p, s, r)'
      BY <1>2, <1>11, <2>1, <2>2, <2>4, WriterFlow
    <2>6. Owes(p, s)' <= Owes(p, s)
      <3>1. Owes(p, s)' = Owes(p, s)
        BY <1>2, <1>5 DEF Owes, StillThreads
      <3>2. QED
        BY <3>1, OwesType
    <2>7. Flow(q, r, s)'
      BY <1>1, <1>2, <1>4, <1>5, <1>11, <2>3, <2>6, TakenReader, SMTT(30)
    <2>8. QED
      BY <2>5, <2>7
  <1>12. QED
    BY <1>1, <1>2, <1>8, <1>9, <1>10, <1>11, HandleKept

LEMMA ResponseKept ==
  ASSUME NEW p \in Peer, StepOf(p), DoesResponse(p)
  PROVE  PeerStreams(p)' /\ PeerStreams(Other(p))'
  <1>1. PICK q \in Peer : q = Other(p)
    BY PeerFacts
  <1>2. PICK m : m = net[p][1]
    OBVIOUS
  <1>3. PICK s : s = m.did
    OBVIOUS
  <1>4. Takes(p, 1, "response") /\ Handles(p) /\ net'[q] = net[q]
    BY <1>1 DEF DoesResponse, Takes
  <1>5. PICK k : /\ k = 1 /\ Dropped(net[p], net'[p], k) /\ net[p][k].code # "data" /\ k > 0
                 /\ \A u : \A i \in 1..k : ~Carries(net[p], u, i)
    BY <1>4, OneTaken
  <1>6. CASE SameStreams(p)
    BY <1>1, <1>4, <1>5, <1>6, HandleNothing DEF SameStreams
  <1>7. CASE /\ s \in tbl[p] /\ st[p][s].state = "opening" /\ m.info = "ok"
             /\ OneStream(p, s, [st[p][s] EXCEPT !.state = "established", !.did = m.sid, !.rwnd = m.rwnd])
    BY <1>1, <1>2, <1>3, <1>4, <1>7, GrantKept
  <1>8. CASE /\ s \in tbl[p]
             /\ \E x \in StreamState \ {"opening", "established"} : OneStream(p, s, [st[p][s] EXCEPT !.state = x])
    <2>1. PICK x : x \notin {"opening", "established"} /\ OneStream(p, s, [st[p][s] EXCEPT !.state = x])
      BY <1>8
    <2>2. QED
      BY <1>1, <1>4, <1>8, <2>1, StateKept
  <1>9. QED
    BY <1>2, <1>3, <1>6, <1>7, <1>8 DEF DoesResponse

\* An acknowledgement arrives.
LEMMA AckKept ==
  ASSUME NEW p \in Peer, StepOf(p), DoesAck(p)
  PROVE  PeerStreams(p)' /\ PeerStreams(Other(p))'
  <1>1. PICK q \in Peer : q = Other(p)
    BY PeerFacts
  <1>2. PICK s : s = net[p][1].did
    OBVIOUS
  <1>3. Takes(p, 1, "ack") /\ Handles(p) /\ net'[q] = net[q] /\ net[p][1].code = "ack"
    BY <1>1 DEF DoesAck, Takes
  <1>4. PICK k : /\ k = 1 /\ Dropped(net[p], net'[p], k) /\ net[p][k].code # "data" /\ k > 0
                 /\ \A u : \A i \in 1..k : ~Carries(net[p], u, i)
    BY <1>3, OneTaken
  <1>5. CASE SameStreams(p)
    BY <1>1, <1>3, <1>4, <1>5, HandleNothing DEF SameStreams
  <1>6. CASE s \in tbl[p] /\ OneStream(p, s, [st[p][s] EXCEPT !.rwnd = @ + 1])
    <2>1. /\ s \in Sid /\ s \in Thread /\ \A u \in Sid : u # s => st'[p][u] = st[p][u]
      BY <1>6, ThreadFacts DEF OneStream
    <2>2. PICK w : w = st[p][s].rwnd + 1
      OBVIOUS
    <2>3. st'[p][s] = [st[p][s] EXCEPT !.rwnd = w]
      BY <1>6, <2>2 DEF OneStream
    <2>4. /\ st'[p][s].state = st[p][s].state /\ st'[p][s].did = st[p][s].did
          /\ st'[p][s].rwnd = w /\ st'[p][s].rxq = st[p][s].rxq
      BY <2>1, <2>3, At, Fields
    <2>5. StillThreads(p) /\ SameCounts /\ tbl'[p] = tbl[p]
      BY <1>3, Stills DEF Handles
    <2>6. st[p][s].rwnd \in Int /\ nwr[p][s] \in Nat /\ nwr'[p][s] = nwr[p][s] /\ nrd'[p][s] = nrd[p][s]
      BY <2>1, <2>5, At DEF SameCounts
    <2>7. Writer(p, s)'
      <3>1. st'[p][s].rwnd >= st[p][s].rwnd
        BY <2>2, <2>4, <2>6
      <3>2. QED
        BY <1>1, <1>3, <2>1, <2>4, <2>5, <3>1, StillWriter
    <2>8. \A r \in Sid : st'[p][s].did = r => Joined(p, s, r)
      BY <2>4 DEF Joined, Says
    <2>9. ~Asker(p, s)
      <3>1. PICK m : m = net[p][1]
        OBVIOUS
      <3>2. /\ m.code = "ack" /\ WellFormed(m) /\ m.sid \in Thread
            /\ \A u, r \in Sid : m.sid = r /\ m.did = u => Joined(p, u, r)
        BY <1>3, <3>1, FirstFrame
      <3>3. m.sid \in Sid
        BY <3>2, ThreadFacts DEF WellFormed
      <3>4. QED
        BY <1>2, <2>1, <3>1, <3>2, <3>3 DEF Asker
    <2>10. ASSUME NEW r \in Sid, Flow(p, s, r), Flow(q, r, s) PROVE Flow(p, s, r)' /\ Flow(q, r, s)'
      <3>1. AcksFor(net'[p], s) + 1 <= AcksFor(net[p], s)
        BY <1>2, <1>3, <1>4, At, AcksDropped
      <3>2. AcksFor(net'[p], s) \in Nat /\ AcksFor(net[p], s) \in Nat
        BY At, AcksFinite
      <3>3. Credits(p, s) \in Int /\ Credits(p, s)' = Credits(p, s) + 1
        BY <2>1, <2>2, <2>4, <2>5, <2>6 DEF Credits, One, StillThreads
      <3>4. /\ AcksFor(net'[p], s) <= AcksFor(net[p], s)
            /\ Credits(p, s)' + AcksFor(net'[p], s) <= Credits(p, s) + AcksFor(net[p], s)
        BY <3>1, <3>2, <3>3
      <3>5. /\ r \in tbl[q] => Ahead(net'[q], r, nrd[q][r], Len(st[q][r].rxq), nwr'[p][s])
            /\ r \in tbl[q] /\ ~Severed(p) => Exact(net'[q], r, nrd[q][r], st[q][r].rxq, nwr'[p][s])
        BY <1>1, <1>3, <2>6, <2>10 DEF Flow
      <3>6. Flow(p, s, r)'
        BY <1>1, <1>6, <2>1, <2>10, <3>4, <3>5, WriterFlow
      <3>7. Owes(p, s)' <= Owes(p, s)
        <4>1. Owes(p, s)' = Owes(p, s)
          BY <2>1, <2>5 DEF Owes, StillThreads
        <4>2. QED
          BY <4>1, OwesType
      <3>8. Flow(q, r, s)'
        BY <1>1, <1>3, <1>4, <2>1, <2>4, <2>5, <2>6, <2>10, <3>7, TakenReader
      <3>9. QED
        BY <3>6, <3>8
    <2>11. PeerStreams(p)' /\ PeerStreams(q)'
      BY <1>1, <1>3, <1>4, <2>1, <2>7, <2>8, <2>9, <2>10, HandleKept
    <2>12. QED
      BY <1>1, <2>11
  <1>7. QED
    BY <1>2, <1>5, <1>6 DEF DoesAck

\* A message arrives: it is for the stream the other peer's is joined to, and there is room for it.
LEMMA DataFits ==
  ASSUME NEW p \in Peer, StepOf(p), NEW q \in Peer, q = Other(p), Takes(p, 2, "data"), net[p][2].code = "payload",
         NEW s \in tbl[p], s = net[p][1].did
  PROVE  /\ s \in Sid /\ Carries(net[p], s, 2) /\ Len(st[p][s].rxq) < QueueSize
         /\ \E d \in Sid : Joined(p, s, d) /\ Flow(q, d, s)
  <1>1. s \in Sid /\ net[p] \in Seq(GoodFrames) /\ st[p][s].rxq \in Seq(Nat) /\ Other(q) = p
    BY At, ThreadFacts, PeerFacts
  <1>2. PICK m : m = net[p][1]
    OBVIOUS
  <1>3. /\ m.code = "data" /\ WellFormed(m) /\ m.sid \in Thread
        /\ \A u, r \in Sid : m.sid = r /\ m.did = u => Joined(p, u, r)
    BY <1>2, FirstFrame
  <1>4. m.sid \in Sid
    BY <1>3, ThreadFacts DEF WellFormed
  <1>5. PICK d \in Sid : d = m.sid
    BY <1>4
  <1>6. Joined(p, s, d)
    BY <1>1, <1>2, <1>3, <1>5
  <1>7. Flow(q, d, s)
    <2>1. Flows(q) /\ Joined(q, d, s)
      BY <1>6, JoinedTwice DEF StepOf, PeerStreams
    <2>2. QED
      BY <1>1, <2>1 DEF Flows
  <1>8. Carries(net[p], s, 2)
    <2>1. Len(net[p]) \in Nat /\ Len(net[p]) >= 2 /\ 2 - 1 = 1
      BY DEF Takes, Dropped
    <2>2. 2 \in 2..Len(net[p])
      BY <2>1
    <2>3. QED
      BY <1>2, <1>3, <2>1, <2>2 DEF Carries
  <1>9. PICK got \in Nat, w \in Nat : got = nrd[p][s] /\ w = nwr[q][d]
    <2>1. CountTypes
      BY TypeParts DEF StepOf, FullInv
    <2>2. QED
      BY <1>1, <2>1 DEF CountTypes
  <1>10. Ahead(net[p], s, got, Len(st[p][s].rxq), w)
    BY <1>1, <1>7, <1>9 DEF Flow
  <1>11. Len(st[p][s].rxq) < QueueSize
    BY <1>1, <1>8, <1>10, MessageTaken DEF Takes
  <1>12. QED
    BY <1>1, <1>6, <1>7, <1>8, <1>11

LEMMA DataKept ==
  ASSUME NEW p \in Peer, StepOf(p), DoesData(p)
  PROVE  PeerStreams(p)' /\ PeerStreams(Other(p))'
  <1>1. PICK q \in Peer : q = Other(p)
    BY PeerFacts
  <1>2. PICK s : s = net[p][1].did
    OBVIOUS
  <1>3. /\ Takes(p, 2, "data") /\ Handles(p) /\ net'[q] = net[q] /\ net[p][2].code = "payload" /\ s \in tbl[p]
        /\ Dropped(net[p], net'[p], 2)
    BY <1>1, <1>2 DEF DoesData, Takes
  <1>4. PICK k : k = 2
    OBVIOUS
  <1>5. /\ s \in Sid /\ Carries(net[p], s, 2) /\ Len(st[p][s].rxq) < QueueSize
        /\ \E d \in Sid : Joined(p, s, d) /\ Flow(q, d, s)
    BY <1>1, <1>2, <1>3, DataFits
  <1>6. PICK d \in Sid : Joined(p, s, d) /\ Flow(q, d, s)
    BY <1>5
  <1>7. st[p][s].rxq \in Seq(Nat) /\ net[p] \in Seq(GoodFrames) /\ s \in Thread /\ Other(q) = p /\ st[p][s].rwnd \in Int
    BY <1>1, <1>5, At, ThreadFacts, PeerFacts, SMTT(30)
  <1>8. OneStream(p, s, [st[p][s] EXCEPT !.rxq = Append(@, net[p][2].seq)])
    <2>1. ~(Len(st[p][s].rxq) >= QueueSize)
      BY <1>5, <1>7, LenProperties, BoundsAssumption
    <2>2. QED
      BY <1>2, <2>1 DEF DoesData
  <1>9. PICK v : v = Append(st[p][s].rxq, net[p][2].seq)
    OBVIOUS
  <1>10. /\ st'[p][s].state = st[p][s].state /\ st'[p][s].did = st[p][s].did
         /\ st'[p][s].rwnd = st[p][s].rwnd /\ st'[p][s].rxq = v
         /\ \A u \in Sid : u # s => st'[p][u] = st[p][u]
    <2>1. st'[p][s] = [st[p][s] EXCEPT !.rxq = v]
      BY <1>8, <1>9 DEF OneStream
    <2>2. \A u \in Sid : u # s => st'[p][u] = st[p][u]
      BY <1>8, ThreadFacts DEF OneStream
    <2>3. st[p][s] \in Streams
      BY <1>7, At
    <2>4. QED
      BY <2>1, <2>2, <2>3, Fields
  <1>11. StillThreads(p) /\ SameCounts /\ tbl'[p] = tbl[p]
    BY <1>3, Stills DEF Handles
  <1>12. \A u \in Sid : u # s => \A i \in 1..k : ~Carries(net[p], u, i)
    <2>1. \A i \in 1..k : i \in 2..Len(net[p]) => i = 2 /\ i - 1 = 1
      BY <1>4
    <2>2. QED
      BY <1>2, <2>1 DEF Carries
  <1>13. Writer(p, s)'
    <2>1. st'[p][s].rwnd >= st[p][s].rwnd
      BY <1>7, <1>10
    <2>2. QED
      BY <1>1, <1>3, <1>5, <1>10, <1>11, <2>1, StillWriter
  <1>14. \A r \in Sid : st'[p][s].did = r => Joined(p, s, r)
    BY <1>10 DEF Joined, Says
  <1>15. ~Asker(p, s)
    BY <1>6 DEF Asker
  <1>16. ASSUME NEW r \in Sid, Joined(p, s, r), Flow(p, s, r), Flow(q, r, s) PROVE Flow(p, s, r)' /\ Flow(q, r, s)'
    <2>1. /\ nwr'[p][s] = nwr[p][s] /\ nrd'[p][s] = nrd[p][s] /\ pc'[p][s] = pc[p][s] /\ Owes(p, s)' = Owes(p, s)
      BY <1>5, <1>11 DEF SameCounts, StillThreads, Owes
    <2>2. PICK a \in Nat, b \in Nat : a = AcksFor(net[p], s) /\ b = AcksFor(net'[p], s) /\ b <= a
      BY <1>3, At, AcksFinite, AcksDropped, SMTT(30)
    <2>3. Credits(p, s) \in Int /\ Credits(p, s)' = Credits(p, s)
      BY <1>5, <1>7, <1>10, <2>1, At DEF Credits, One
    <2>4. Credits(p, s)' + b <= Credits(p, s) + a
      BY <2>2, <2>3
    <2>5. /\ r \in tbl[q] => Ahead(net'[q], r, nrd[q][r], Len(st[q][r].rxq), nwr'[p][s])
          /\ r \in tbl[q] /\ ~Severed(p) => Exact(net'[q], r, nrd[q][r], st[q][r].rxq, nwr'[p][s])
      BY <1>1, <1>3, <1>16, <2>1 DEF Flow
    <2>6. Flow(p, s, r)'
      BY <1>1, <1>3, <1>5, <1>16, <2>2, <2>4, <2>5, WriterFlow
    <2>7. PICK got \in Nat, w \in Nat : got = nrd[p][s] /\ w = nwr[q][r]
      <3>1. CountTypes
        BY TypeParts DEF StepOf, FullInv
      <3>2. QED
        BY <1>5, <3>1 DEF CountTypes
    <2>8. /\ Ahead(net[p], s, got, Len(st[p][s].rxq), w)
          /\ ~Severed(q) => Exact(net[p], s, got, st[p][s].rxq, w)
      BY <1>3, <1>7, <1>16, <2>7 DEF Flow
    <2>9. /\ Ahead(net'[p], s, got, Len(v), w)
          /\ ~Severed(q) => Exact(net'[p], s, got, v, w)
      BY <1>3, <1>5, <1>7, <1>9, <2>8, MessageTaken
    <2>10. nrd[p][s] - Owes(p, s) - AcksFor(net[q], r) <= nrd'[p][s] - Owes(p, s)' - AcksFor(net'[q], r)
      <3>1. PICK c \in Nat : c = AcksFor(net[q], r)
        BY <1>1, At, AcksFinite
      <3>2. PICK e \in {0, 1} : e = Owes(p, s)
        BY OwesType
      <3>3. QED
        BY <1>3, <2>1, <2>7, <3>1, <3>2
    <2>11. Flow(q, r, s)'
      BY <1>1, <1>5, <1>10, <1>16, <2>1, <2>7, <2>9, <2>10, ReaderFlow
    <2>12. QED
      BY <2>6, <2>11
  <1>17. Dropped(net[p], net'[p], k) /\ net[p][k].code # "data"
    BY <1>3, <1>4
  <1>18. PeerStreams(p)' /\ PeerStreams(q)'
    BY <1>1, <1>3, <1>5, <1>10, <1>12, <1>13, <1>14, <1>15, <1>16, <1>17, HandleKept
  <1>19. QED
    BY <1>1, <1>18

\* The process dies of a message for a stream it does not know.
LEMMA CrashKept ==
  ASSUME NEW p \in Peer, StepOf(p), DoesCrash(p)
  PROVE  PeerStreams(p)' /\ PeerStreams(Other(p))'
  <1>1. PICK q \in Peer : q = Other(p)
    BY PeerFacts
  <1>2. /\ tbl'[p] = {} /\ st'[p] = st[p] /\ pc'[p][0] = "crashed" /\ SameCounts /\ gsid'[p] = gsid[p] /\ cur' = cur
        /\ \A u \in Sid : pc'[p][u] = "crashed"
        /\ net'[q] = net[q] /\ net[p][2].code = "payload" /\ Dropped(net[p], net'[p], 2)
    BY <1>1, ThreadFacts DEF DoesCrash, Takes
  <1>3. PICK k : k = 2 /\ Dropped(net[p], net'[p], k) /\ net[p][k].code # "data"
    BY <1>2
  <1>4. Quiet(p)
    BY <1>1, <1>2 DEF Quiet, Says, Joined
  <1>5. Answer(p)'
    BY <1>2, AnswerKept DEF Serving, Answering
  <1>6. \A u \in Sid : Writer(p, u)'
    BY <1>2 DEF Writer, Writing
  <1>7. \A u \in Sid : /\ ~Asking(p, u)' /\ pc'[p][u] = "crashed" /\ u \notin tbl'[p]
                       /\ Asker(p, u) => st'[p][u].rxq = << >>
    BY <1>2 DEF Asking, Asker
  <1>8. ASSUME NEW s \in Sid, NEW r \in Sid, Flow(p, s, r), Flow(q, r, s)
        PROVE  Flow(p, s, r)' /\ Flow(q, r, s)'
    <2>1. Owes(p, s)' <= Owes(p, s)
      <3>1. Owes(p, s)' = 0
        BY <1>2 DEF Owes, One
      <3>2. QED
        BY <3>1, OwesType
    <2>2. Calm(p, s) /\ s \notin tbl'[p]
      BY <1>2, <2>1 DEF Calm, SameCounts
    <2>3. QED
      BY <1>1, <1>2, <1>3, <1>8, <2>2, CalmFlow
  <1>9. PeerStreams(p)' /\ PeerStreams(q)'
    BY <1>1, <1>2, <1>3, <1>4, <1>5, <1>6, <1>7, <1>8, ChannelKept
  <1>10. QED
    BY <1>1, <1>9

-----------------------------------------------------------------------------
(* New streams.                                                            *)

\* The sid of a new stream has not been used.
LEMMA Unused ==
  ASSUME NEW p \in Peer, StepOf(p), NEW d, NEW w, Creates(p, d, w), NEW n, n = gensid(p)
  PROVE  /\ n \in Sid /\ n \in Nat /\ gsid[p] \in Nat /\ n = gsid[p] + 1 /\ gsid'[p] = n /\ gsid'[p] >= gsid[p]
         /\ st'[p][n] = Stream("opening", d, w) /\ \A u \in Thread : u # n => st'[p][u] = st[p][u]
         /\ tbl'[p] = tbl[p] \cup {n} /\ n \notin tbl[p]
         /\ nwr[p][n] = 0 /\ nrd[p][n] = 0 /\ ~Fresh(p, n)
         /\ \A r \in Sid : ~Joined(p, n, r)
         /\ Running(p) => pc[p][n] = "none"
         /\ pc[p][0] \in Serving => cur[p].obj # n
  <1>1. TypeInv /\ ChannelInv /\ FreshInv /\ StreamTypes /\ Known(p)
    BY At, TypeParts DEF StepOf, PeerStreams
  <1>2. n \in Sid /\ gsid[p] \in Nat /\ n = gsid[p] + 1 /\ n \in Nat
    BY <1>1, NewSid, ThreadFacts DEF Creates
  <1>3. gsid'[p] = n
    BY <1>1 DEF Creates, StreamTypes
  <1>4. n > gsid[p] /\ ~(n <= gsid[p]) /\ n >= gsid[p]
    BY <1>2
  <1>5. n \notin tbl[p] /\ (pc[p][0] \in Serving => cur[p].obj # n)
    BY <1>1, <1>4 DEF ChannelInv, TableInv, AnswerInv
  <1>6. nwr[p][n] = 0 /\ nrd[p][n] = 0 /\ \A r \in Sid : ~Joined(p, n, r)
    BY <1>1, <1>2, <1>4 DEF Known
  <1>7. ~Fresh(p, n)
    <2>1. Request(p, n)
      BY <1>2 DEF StepOf, PeerStreams
    <2>2. QED
      BY <1>4, <2>1 DEF Request, Asker
  <1>8. Running(p) => pc[p][n] = "none"
    BY <1>1, <1>2, <1>4 DEF FreshInv
  <1>9. QED
    BY <1>2, <1>3, <1>4, <1>5, <1>6, <1>7, <1>8 DEF Creates, OneStream

\* corpc_open_stream() makes one.
LEMMA OpenKept ==
  ASSUME NEW p \in Peer, StepOf(p), DoesOpen(p)
  PROVE  PeerStreams(p)' /\ PeerStreams(Other(p))'
  <1>1. PICK q \in Peer : q = Other(p)
    BY PeerFacts
  <1>2. PICK n : n = gensid(p)
    OBVIOUS
  <1>3. /\ Creates(p, 0, 0) /\ cur' = cur /\ net' = net /\ SameCounts
        /\ pc'[p][n] = "acquire" /\ op'[p][n] = "request"
        /\ \A u \in Thread : u # n => pc'[p][u] = pc[p][u] /\ op'[p][u] = op[p][u]
    BY <1>2 DEF DoesOpen, Creates
  <1>4. /\ n \in Sid /\ n \in Nat /\ gsid[p] \in Nat /\ n = gsid[p] + 1 /\ gsid'[p] = n /\ gsid'[p] >= gsid[p]
        /\ st'[p][n] = Stream("opening", 0, 0) /\ \A u \in Thread : u # n => st'[p][u] = st[p][u]
        /\ tbl'[p] = tbl[p] \cup {n}
        /\ nwr[p][n] = 0 /\ nrd[p][n] = 0 /\ ~Fresh(p, n)
        /\ \A r \in Sid : ~Joined(p, n, r)
        /\ pc[p][0] \in Serving => cur[p].obj # n
    BY <1>2, <1>3, Unused
  <1>5. st'[p][n].state = "opening" /\ st'[p][n].did = 0 /\ st'[p][n].rwnd = 0 /\ st'[p][n].rxq = << >>
    BY <1>4 DEF Stream
  <1>6. /\ \A u \in Sid : u # n => /\ st'[p][u] = st[p][u] /\ pc'[p][u] = pc[p][u] /\ op'[p][u] = op[p][u]
                                   /\ (u \in tbl'[p] => u \in tbl[p])
        /\ pc'[p][0] = pc[p][0] /\ n # 0
    BY <1>3, <1>4, ThreadFacts
  <1>7. PICK k : k = 0 /\ Dropped(net[p], net'[p], k)
    BY <1>3, At, NothingDropped
  <1>8. ~(k > 0) /\ 1..k = {} /\ net'[q] = net[q]
    BY <1>3, <1>7
  <1>9. Quiet(p)
    <2>1. \A u, r \in Sid : st'[p][u].did = r => st[p][u].did = r
      BY <1>5, <1>6, ThreadFacts
    <2>2. QED
      BY <1>3, <2>1 DEF Quiet, Says, Joined
  <1>10. \A s, r \in Sid : Joined(p, s, r)' => Joined(p, s, r)
    BY <1>4, <1>7, <1>9, QuietEnds
  <1>11. Named(p)'
    BY <1>3 DEF StepOf, PeerStreams, Named, WellFormed
  <1>12. Answer(p)'
    <2>1. pc[p][0] \in Serving /\ cur[p].obj \in tbl'[p] =>
            cur[p].obj \in tbl[p] /\ st'[p][cur[p].obj].did = st[p][cur[p].obj].did
      BY <1>4, <1>6, At
    <2>2. QED
      BY <1>3, <1>6, <2>1, AnswerKept
  <1>13. ASSUME NEW u \in Sid PROVE Writer(p, u)'
    <2>1. CASE u = n
      BY <1>3, <1>4, <1>5, <2>1 DEF Writer, Writing, SameCounts
    <2>2. CASE u # n
      <3>1. nwr'[p][u] = nwr[p][u] /\ st'[p][u].rwnd >= st[p][u].rwnd
        BY <1>3, <1>6, <2>2, At, ThreadFacts DEF SameCounts
      <3>2. QED
        BY <1>1, <1>6, <1>8, <2>2, <3>1, WriterKept
    <2>3. QED
      BY <2>1, <2>2
  <1>14. ASSUME NEW u \in Sid PROVE Request(p, u)'
    <2>1. CASE u = n
      <3>1. Asker(p, n)'
        BY <1>3, <1>4, <1>5, <1>10 DEF Asker, SameCounts
      <3>2. ~Requested(net[q], n) /\ Request(p, n)
        BY <1>1, <1>4 DEF Fresh, StepOf, PeerStreams
      <3>3. ~Requested(net[q], n)'
        BY <1>8, <3>2 DEF Requested
      <3>4. QED
        BY <1>1, <1>8, <2>1, <3>1, <3>2, <3>3 DEF Request
    <2>2. CASE u # n
      <3>1. Asking(p, u)' => Asking(p, u)
        BY <1>6, <2>2 DEF Asking
      <3>2. Asker(p, u) =>
              /\ \/ pc'[p][u] \in {"acquire", "send", "release"} /\ op'[p][u] = "request"
                 \/ pc'[p][u] \in {"opening", "fail", "done", "crashed"}
              /\ u \in tbl'[p] => st'[p][u].state # "established" /\ st'[p][u].rwnd = 0
              /\ st'[p][u].rxq = << >> /\ nwr'[p][u] = nwr[p][u] /\ nrd'[p][u] = nrd[p][u]
        BY <1>3, <1>6, <2>2 DEF Asker, SameCounts
      <3>3. QED
        BY <1>1, <1>4, <1>8, <1>10, <3>1, <3>2, RequestKept
    <2>3. QED
      BY <2>1, <2>2
  <1>15. \A s \in Sid : s > gsid'[p] => nwr'[p][s] = 0 /\ nrd'[p][s] = 0
    BY <1>3, <1>4, CountsKept DEF SameCounts
  <1>16. ASSUME NEW s \in Sid, NEW r \in Sid, Joined(p, s, r), Flow(p, s, r), Flow(q, r, s)
         PROVE  Flow(p, s, r)' /\ Flow(q, r, s)'
    <2>1. s # n
      BY <1>4, <1>16
    <2>2. Owes(p, s)' = Owes(p, s)
      BY <1>6, <2>1 DEF Owes
    <2>3. Calm(p, s)
      BY <1>3, <1>6, <2>1, <2>2, OwesType DEF Calm, SameCounts
    <2>4. QED
      BY <1>1, <1>7, <1>8, <1>16, <2>3, CalmFlow
  <1>17. PeerStreams(p)' /\ PeerStreams(q)'
    BY <1>1, <1>4, <1>7, <1>8, <1>9, <1>11, <1>12, <1>13, <1>14, <1>15, <1>16, Assemble
  <1>18. QED
    BY <1>1, <1>17

\* What p accepts is a stream q asked for, which is joined to none yet.
LEMMA AcceptedRequest ==
  ASSUME NEW p \in Peer, StepOf(p), NEW q \in Peer, q = Other(p), Takes(p, 1, "request"), NEW m, m = net[p][1]
  PROVE  /\ m.sid \in Sid /\ m.rwnd \in Int /\ m.rwnd <= QueueSize
         /\ Requested(net[p], m.sid) /\ Asker(q, m.sid) /\ Request(q, m.sid)
         /\ \A i \in 1..Len(net'[p]) : ~(net'[p][i].code = "request" /\ net'[p][i].sid = m.sid)
         /\ ~Fresh(q, m.sid)'
  <1>1. /\ 1 \in 1..Len(net[p]) /\ m.code = "request" /\ WellFormed(m) /\ m.sid \in Thread /\ m.rwnd \in Int
    BY FirstFrame
  <1>2. m.sid \in Sid /\ m.rwnd <= QueueSize
    BY <1>1, ThreadFacts DEF WellFormed
  <1>3. PICK r \in Sid : r = m.sid
    BY <1>2
  <1>4. Requested(net[p], r)
    BY <1>1, <1>3 DEF Requested
  <1>5. Other(q) = p /\ SamePeer(q) /\ Request(q, r)
    BY PeerFacts DEF StepOf, PeerStreams
  <1>6. Asker(q, r) /\ ~Asking(q, r)
    BY <1>4, <1>5 DEF Request, Fresh
  <1>7. \A i, j \in 1..Len(net[p]) :
          /\ net[p][i].code = "request" /\ net[p][i].sid = r
          /\ net[p][j].code = "request" /\ net[p][j].sid = r
          => i = j
    BY <1>5 DEF Request
  <1>8. \A i \in 1..Len(net'[p]) : ~(net'[p][i].code = "request" /\ net'[p][i].sid = r)
    <2> SUFFICES ASSUME NEW i \in 1..Len(net'[p]), net'[p][i].code = "request", net'[p][i].sid = r PROVE FALSE
      OBVIOUS
    <2>1. PICK j : j = i + 1 /\ j \in 1..Len(net[p]) /\ net'[p][i] = net[p][j] /\ j # 1
      BY DEF Takes, Dropped
    <2>2. j = 1
      BY <1>1, <1>3, <1>7, <2>1
    <2>3. QED
      BY <2>1, <2>2
  <1>9. ~Fresh(q, r)'
    <2>1. ~Asking(q, r)'
      BY <1>5, <1>6 DEF Asking, SamePeer
    <2>2. ~Requested(net[p], r)'
      BY <1>8 DEF Requested
    <2>3. QED
      BY <1>5, <2>1, <2>2 DEF Fresh
  <1>10. QED
    BY <1>1, <1>2, <1>3, <1>4, <1>5, <1>6, <1>8, <1>9

\* A stream that is joined to none is sent nothing.
LEMMA Unjoined ==
  ASSUME NEW p \in Peer, StepOf(p), NEW a \in {p, Other(p)}, NEW s \in Sid, \A r \in Sid : ~Joined(a, s, r)
  PROVE  AcksFor(net[a], s) = 0 /\ \A i \in 1..Len(net[a]) : ~Carries(net[a], s, i)
  <1>1. net[a] \in Seq(GoodFrames) /\ Len(net[a]) \in Nat /\ Other(Other(a)) = a /\ Named(Other(a))
    BY At, PeerFacts, LenProperties DEF StepOf, PeerStreams
  <1>2. \A i \in 1..Len(net[a]) : net[a][i].sid \in Thread
    <2>1. \A x \in GoodFrames : x.sid \in Thread
      BY DEF GoodFrames, Frames
    <2>2. QED
      BY <1>1, <2>1, FrameSeq
  <1>3. \A i \in 1..Len(net[a]) : WellFormed(net[a][i])
    BY <1>1 DEF Named
  <1>4. ASSUME NEW i \in 1..Len(net[a]), net[a][i].code \in {"data", "ack"} PROVE net[a][i].did # s
    <2>1. net[a][i].sid # 0
      BY <1>3, <1>4 DEF WellFormed
    <2>2. net[a][i].sid \in Sid
      BY <1>2, <1>4, <2>1, ThreadFacts
    <2>3. net[a][i].did = s => Joined(a, s, net[a][i].sid)
      BY <1>1, <1>4 DEF Joined, Says
    <2>4. QED
      BY <2>2, <2>3
  <1>5. AcksFor(net[a], s) = 0
    <2>1. \A i \in 1..Len(net[a]) : ~(net[a][i].code = "ack" /\ net[a][i].did = s)
      BY <1>4
    <2>2. QED
      BY <1>1, <2>1, AcksNone
  <1>6. ASSUME NEW i \in 1..Len(net[a]), Carries(net[a], s, i) PROVE FALSE
    <2>1. PICK j : j = i - 1 /\ j \in 1..Len(net[a])
      BY <1>1, <1>6 DEF Carries
    <2>2. QED
      BY <1>4, <1>6, <2>1 DEF Carries
  <1>7. QED
    BY <1>5, <1>6

\* The new pair: nothing has been written, read, sent or acknowledged.
LEMMA NewPair ==
  ASSUME NEW p \in Peer, StepOf(p), DoesAccept(p), NEW q \in Peer, q = Other(p), NEW n, n = gensid(p),
         NEW d, d = net[p][1].sid
  PROVE  Flow(p, n, d)' /\ Flow(q, d, n)'
  <1>1. PICK m : m = net[p][1]
    OBVIOUS
  <1>2. /\ Takes(p, 1, "request") /\ Creates(p, d, m.rwnd) /\ SameCounts /\ StillThreads(p) /\ net'[q] = net[q]
        /\ pc[p][0] = "recv"
    BY <1>1, Stills DEF DoesAccept, Creates, Takes
  <1>3. /\ d \in Sid /\ m.rwnd \in Int /\ m.rwnd <= QueueSize /\ Asker(q, d)
    BY <1>1, <1>2, AcceptedRequest
  <1>4. PICK w \in Int : w = m.rwnd
    BY <1>3
  <1>5. /\ n \in Sid /\ st'[p][n] = Stream("opening", d, w)
        /\ nwr[p][n] = 0 /\ nrd[p][n] = 0 /\ \A r \in Sid : ~Joined(p, n, r)
        /\ pc[p][n] = "none"
    <2>1. Running(p)
      BY <1>2 DEF Running
    <2>2. QED
      BY <1>2, <1>4, <2>1, Unused
  <1>6. st'[p][n].rwnd = w /\ st'[p][n].rxq = << >>
    BY <1>5 DEF Stream
  <1>7. /\ Other(q) = p /\ SamePeer(q) /\ nwr' = nwr /\ nrd' = nrd
        /\ nwr[q][d] = 0 /\ nrd[q][d] = 0 /\ st[q][d].rxq = << >> /\ (d \in tbl[q] => st[q][d].rwnd = 0)
        /\ \A r \in Sid : ~Joined(q, d, r)
    BY <1>2, <1>3, PeerFacts DEF StepOf, Asker, SameCounts
  <1>8. /\ AcksFor(net[p], n) = 0 /\ \A i \in 1..Len(net[p]) : ~Carries(net[p], n, i)
        /\ AcksFor(net[q], d) = 0 /\ \A i \in 1..Len(net[q]) : ~Carries(net[q], d, i)
    BY <1>3, <1>5, <1>7, Unjoined
  <1>9. Owes(q, d) = 0 /\ Owes(q, d)' = 0 /\ Owes(p, n)' = 0
    <2>1. Owes(q, d) = 0
      BY <1>3 DEF Owes, One, Asker
    <2>2. Owes(q, d)' = 0
      BY <1>7, <2>1 DEF Owes, SamePeer
    <2>3. Owes(p, n)' = 0
      BY <1>2, <1>5 DEF Owes, One, StillThreads
    <2>4. QED
      BY <2>1, <2>2, <2>3
  <1>10. PICK k : /\ k = 1 /\ Dropped(net[p], net'[p], k) /\ net[p][k].code # "data" /\ k > 0
                  /\ \A s : \A i \in 1..k : ~Carries(net[p], s, i)
    BY <1>2, OneTaken
  <1>11. AcksFor(net'[p], n) = 0 /\ \A i \in 1..Len(net'[p]) : ~Carries(net'[p], n, i)
    <2>1. AcksFor(net'[p], n) <= AcksFor(net[p], n) /\ AcksFor(net'[p], n) \in Nat
      BY <1>10, At, AcksDropped, AcksFinite
    <2>2. \A i \in 1..Len(net'[p]) : i + k \in 1..Len(net[p]) /\ (Carries(net'[p], n, i) <=> Carries(net[p], n, i + k))
      BY <1>10, CarriesDropped
    <2>3. QED
      BY <1>8, <2>1, <2>2
  <1>12. Ahead(net[q], d, 0, 0, 0) /\ Exact(net[q], d, 0, << >>, 0)
    BY <1>8, NothingCarried
  <1>13. Ahead(net'[p], n, 0, 0, 0) /\ Exact(net'[p], n, 0, << >>, 0)
    BY <1>11, NothingCarried
  <1>14. Len(<< >>) = 0
    OBVIOUS
  <1>15. Flow(p, n, d)'
    <2>1. Returned(p, n, d)' = 0
      BY <1>7, <1>9, <1>11 DEF Returned
    <2>2. Credits(p, n)' <= QueueSize
      <3>1. pc'[p][n] # "sent" /\ nwr'[p][n] = 0
        BY <1>2, <1>5, <1>7 DEF StillThreads
      <3>2. QED
        BY <1>3, <1>4, <1>6, <3>1, BoundsAssumption DEF Credits, One
    <2>3. nrd'[q][d] = 0 /\ st'[q][d].rxq = << >> /\ nwr'[p][n] = 0
      BY <1>5, <1>7 DEF SamePeer
    <2>4. Credits(p, n)' <= QueueSize + 0 /\ 0 >= 0
      BY <2>2, BoundsAssumption
    <2>5. QED
      BY <1>2, <1>12, <1>14, <2>1, <2>3, <2>4 DEF Flow
  <1>16. Flow(q, d, n)'
    <2>1. Returned(q, d, n)' = 0
      BY <1>2, <1>5, <1>7, <1>8, <1>9 DEF Returned
    <2>2. d \in tbl'[q] => Credits(q, d)' <= QueueSize
      <3>1. st'[q][d] = st[q][d] /\ tbl'[q] = tbl[q] /\ nwr'[q][d] = 0
        BY <1>7 DEF SamePeer
      <3>2. QED
        BY <1>7, <3>1, BoundsAssumption DEF Credits, One
    <2>3. nrd'[p][n] = 0 /\ nwr'[q][d] = 0
      BY <1>5, <1>7
    <2>4. (d \in tbl'[q] => Credits(q, d)' <= QueueSize + 0) /\ 0 >= 0
      BY <2>2, BoundsAssumption
    <2>5. QED
      BY <1>6, <1>7, <1>13, <1>14, <2>1, <2>3, <2>4 DEF Flow
  <1>17. QED
    BY <1>15, <1>16

LEMMA AcceptKept ==
  ASSUME NEW p \in Peer, StepOf(p), DoesAccept(p)
  PROVE  PeerStreams(p)' /\ PeerStreams(Other(p))'
  <1>1. PICK q \in Peer : q = Other(p)
    BY PeerFacts
  <1>2. PICK m : m = net[p][1]
    OBVIOUS
  <1>3. PICK d, w, n : d = m.sid /\ w = m.rwnd /\ n = gensid(p)
    OBVIOUS
  <1>4. /\ Takes(p, 1, "request") /\ Creates(p, d, w) /\ SameCounts /\ StillThreads(p) /\ net'[q] = net[q]
        /\ pc[p][0] = "recv" /\ pc'[p][0] = "start"
        /\ cur'[p] = [obj |-> n, sid |-> 0, did |-> d, rwnd |-> 0, status |-> "ok"]
    BY <1>1, <1>2, <1>3, Stills DEF DoesAccept, Creates, Takes, ChannelMoves
  <1>5. /\ d \in Sid /\ Asker(q, d) /\ ~Fresh(q, d)'
    BY <1>1, <1>2, <1>3, <1>4, AcceptedRequest
  <1>6. /\ n \in Sid /\ n \in Nat /\ gsid[p] \in Nat /\ n = gsid[p] + 1 /\ gsid'[p] = n /\ gsid'[p] >= gsid[p]
        /\ st'[p][n] = Stream("opening", d, w) /\ \A u \in Thread : u # n => st'[p][u] = st[p][u]
        /\ tbl'[p] = tbl[p] \cup {n}
        /\ nwr[p][n] = 0 /\ nrd[p][n] = 0 /\ ~Fresh(p, n)
        /\ \A r \in Sid : ~Joined(p, n, r)
        /\ pc[p][n] = "none"
    <2>1. Running(p)
      BY <1>4 DEF Running
    <2>2. QED
      BY <1>3, <1>4, <2>1, Unused
  <1>7. /\ \A u \in Sid : u # n => st'[p][u] = st[p][u] /\ (u \in tbl'[p] => u \in tbl[p])
        /\ st'[p][n].did = d /\ st'[p][n].state = "opening"
    <2>1. \A u \in Sid : u # n => st'[p][u] = st[p][u] /\ (u \in tbl'[p] => u \in tbl[p])
      BY <1>6, ThreadFacts
    <2>2. st'[p][n].did = d /\ st'[p][n].state = "opening"
      BY <1>6 DEF Stream
    <2>3. QED
      BY <2>1, <2>2
  <1>8. PICK k : /\ k = 1 /\ Dropped(net[p], net'[p], k) /\ net[p][k].code # "data" /\ k > 0
                 /\ \A s : \A i \in 1..k : ~Carries(net[p], s, i)
    BY <1>4, OneTaken
  <1>9. \A s, r \in Sid : Joined(p, s, r)' => Joined(p, s, r) \/ (s = n /\ r = d)
    <2> SUFFICES ASSUME NEW s \in Sid, NEW r \in Sid, Joined(p, s, r)' PROVE Joined(p, s, r) \/ (s = n /\ r = d)
      OBVIOUS
    <2>1. CASE Says(q, r, s)'
      BY <1>1, <1>8, <2>1, StillSays DEF Joined
    <2>2. CASE Says(p, s, r)'
      <3>1. cur'[p].sid # s
        BY <1>4, ThreadFacts
      <3>2. st'[p][s].did = r => st[p][s].did = r \/ (s = n /\ r = d)
        BY <1>7
      <3>3. QED
        BY <1>1, <1>4, <2>2, <3>1, <3>2 DEF Joined, Says
    <2>3. QED
      BY <1>1, <2>1, <2>2 DEF Joined
  <1>10. \A s, r : (Joined(p, s, r) <=> Joined(q, r, s)) /\ (Joined(p, s, r)' <=> Joined(q, r, s)')
    BY <1>1, JoinedTwice
  <1>11. /\ OneEnd(p) /\ OneEnd(q) /\ Known(p) /\ Known(q) /\ Flows(p) /\ Flows(q) /\ SamePeer(q)
         /\ gsid'[q] = gsid[q] /\ d <= gsid[q] /\ \A r \in Sid : ~Joined(q, d, r)
    BY <1>1, <1>5 DEF StepOf, PeerStreams, SamePeer, Asker
  <1>12. OneEnd(p)'
    BY <1>6, <1>9, <1>11 DEF OneEnd
  <1>13. OneEnd(q)'
    BY <1>9, <1>10, <1>11 DEF OneEnd
  <1>14. Answer(p)'
    <2>1. d # 0 /\ cur'[p].obj = n /\ cur'[p].did = d /\ cur'[p].rwnd = 0
      BY <1>4, <1>5, ThreadFacts
    <2>2. QED
      BY <1>4, <1>7, <2>1, BoundsAssumption DEF Answer
  <1>15. Named(p)'
    BY <1>1, <1>4 DEF StepOf, PeerStreams, Named, WellFormed
  <1>16. /\ Named(q)' /\ Answer(q)'
         /\ \A s \in Sid : s > gsid'[q] => nwr'[q][s] = 0 /\ nrd'[q][s] = 0
         /\ \A s \in Sid : Writer(q, s)' /\ Request(q, s)'
    <2>1. \A s, r \in Sid : Fresh(q, s)' /\ Joined(q, s, r)' => Joined(q, s, r)
      BY <1>5, <1>9, <1>10
    <2>2. QED
      BY <1>1, <1>8, <2>1, PassivePeer
  <1>17. ASSUME NEW u \in Sid PROVE Writer(p, u)'
    <2>1. CASE u = n
      <3>1. pc'[p][n] = "none" /\ nwr'[p][n] = 0
        BY <1>4, <1>6 DEF StillThreads, SameCounts
      <3>2. QED
        BY <1>7, <2>1, <3>1 DEF Writer, Writing
    <2>2. CASE u # n
      <3>1. st'[p][u] = st[p][u] /\ st'[p][u].rwnd >= st[p][u].rwnd
        BY <1>7, <2>2, At, ThreadFacts
      <3>2. QED
        BY <1>1, <1>4, <1>7, <2>2, <3>1, StillWriter
    <2>3. QED
      BY <2>1, <2>2
  <1>18. ASSUME NEW u \in Sid PROVE Request(p, u)'
    <2>1. CASE u = n
      <3>1. ~Asking(p, n)'
        BY <1>4, <1>6 DEF Asking, StillThreads
      <3>2. ~Requested(net[q], n) /\ Request(p, n)
        BY <1>1, <1>6 DEF Fresh, StepOf, PeerStreams
      <3>3. ~Requested(net[q], n)'
        BY <1>4, <3>2 DEF Requested
      <3>4. QED
        BY <1>1, <1>4, <2>1, <3>1, <3>2, <3>3 DEF Request, Fresh
    <2>2. CASE u # n
      <3>1. Asking(p, u)' => Asking(p, u)
        BY <1>4, StillAsker
      <3>2. Asker(p, u) =>
              /\ \/ pc'[p][u] \in {"acquire", "send", "release"} /\ op'[p][u] = "request"
                 \/ pc'[p][u] \in {"opening", "fail", "done", "crashed"}
              /\ u \in tbl'[p] => st'[p][u].state # "established" /\ st'[p][u].rwnd = 0
              /\ st'[p][u].rxq = << >> /\ nwr'[p][u] = nwr[p][u] /\ nrd'[p][u] = nrd[p][u]
        BY <1>4, <1>7, <2>2 DEF Asker, SameCounts, StillThreads
      <3>3. \A r \in Sid : Joined(p, u, r)' => Joined(p, u, r)
        BY <1>9, <2>2
      <3>4. QED
        BY <1>1, <1>4, <1>6, <3>1, <3>2, <3>3, RequestKept
    <2>3. QED
      BY <2>1, <2>2
  <1>19. Known(p)'
    <2>1. \A s \in Sid : s > gsid'[p] => nwr'[p][s] = 0 /\ nrd'[p][s] = 0
      BY <1>4, <1>6, CountsKept DEF SameCounts
    <2>2. ASSUME NEW s \in Sid, NEW r \in Sid, Joined(p, s, r)' PROVE s <= gsid'[p]
      <3>1. s = n \/ s <= gsid[p]
        BY <1>9, <1>11, <2>2 DEF Known
      <3>2. s \in Nat
        BY ThreadFacts
      <3>3. QED
        BY <1>6, <3>1, <3>2
    <2>3. QED
      BY <2>1, <2>2 DEF Known
  <1>20. Known(q)'
    <2>1. ASSUME NEW s \in Sid, NEW r \in Sid, Joined(q, r, s)' PROVE r <= gsid'[q]
      BY <1>9, <1>10, <1>11, <2>1 DEF Known
    <2>2. QED
      BY <1>16, <2>1 DEF Known
  <1>21. ASSUME NEW s \in Sid, NEW r \in Sid, Joined(p, s, r)'
         PROVE  Flow(p, s, r)' /\ Flow(q, r, s)'
    <2>1. CASE s = n /\ r = d
      BY <1>1, <1>2, <1>3, <2>1, NewPair
    <2>2. CASE Joined(p, s, r)
      <3>1. s # n /\ Flow(p, s, r) /\ Flow(q, r, s)
        BY <1>6, <1>10, <1>11, <2>2 DEF Flows
      <3>2. Calm(p, s)
        BY <1>4, <1>7, <3>1, StillCalm
      <3>3. QED
        BY <1>1, <1>4, <1>8, <3>1, <3>2, CalmFlow
    <2>3. QED
      BY <1>9, <1>21, <2>1, <2>2
  <1>22. Flows(p)' /\ Flows(q)'
    BY <1>10, <1>21 DEF Flows
  <1>23. PeerStreams(p)' /\ PeerStreams(q)'
    BY <1>12, <1>13, <1>14, <1>15, <1>16, <1>17, <1>18, <1>19, <1>20, <1>22 DEF PeerStreams
  <1>24. QED
    BY <1>1, <1>23

-----------------------------------------------------------------------------
(* Every step keeps the invariant.                                         *)

LEMMA ThreadKept ==
  ASSUME FullInv, TypeInv', NEW p \in Peer, PeerStreams(p), PeerStreams(Other(p)), NEW t \in Thread, ThreadStep(p, t)
  PROVE  PeerStreams(p)' /\ PeerStreams(Other(p))' /\ bug' = bug
  <1>1. StepOf(p)
    BY ThreadSteps
  <1>2. /\ OnlyThread(p, t)
        /\ \/ DoesMove(p, t) \/ DoesSend(p, t) \/ DoesPay(p, t) \/ DoesCount(p, t) \/ DoesErase(p, t) \/ DoesRead(p, t)
    BY ThreadEffect DEF FullInv
  <1>3. QED
    BY <1>1, <1>2, MoveKept, SendKept, PayKept, CountKept, EraseKept, ReadKept DEF OnlyThread

\* What is recorded of bugs.
LEMMA BugsMet ==
  ASSUME NEW p \in Peer, ChannelStep(p) \/ AppStep(p)
  PROVE  bug \subseteq bug' /\ ("ccfifo is full" \in bug' => "ccfifo is full" \in bug \/ on_data_message(p))
  <1>1. CASE on_create_stream_request_reply(p) \/ on_create_stream_request_done(p)
    <2>1. bug' = bug \/ bug' = bug \cup UseAfterFree(p, cur[p].obj)
      BY <1>1 DEF on_create_stream_request_reply, on_create_stream_request_done
    <2>2. QED
      BY <2>1 DEF UseAfterFree
  <1>2. CASE on_create_stream_responce(p) \/ on_data_message_unknown(p)
    <2>1. bug' = bug \/ bug' = bug \cup {"Invalid stream state"} \/ bug' = bug \cup {"null stream"}
      BY <1>2 DEF on_create_stream_responce, on_data_message_unknown
    <2>2. QED
      BY <2>1
  <1>3. CASE on_data_message(p)
    <2>1. bug' = bug \/ bug' = bug \cup {"garbled frame"} \/ bug' = bug \cup {"ccfifo is full"}
      BY <1>3 DEF on_data_message
    <2>2. QED
      BY <1>3, <2>1
  <1>4. CASE \/ on_create_stream_request(p) \/ start_service_method_thread(p) \/ on_close_stream_notify(p)
             \/ on_data_ack(p) \/ recv_fails(p) \/ corpc_channel_thread_end(p) \/ AppStep(p)
    <2>1. bug' = bug
      BY <1>4 DEF AppStep, on_create_stream_request, start_service_method_thread, on_close_stream_notify,
         on_data_ack, recv_fails, corpc_channel_thread_end, corpc_open_stream, corpc_channel_close,
         corpc_stream_write, corpc_stream_read, corpc_close_stream
    <2>2. QED
      BY <2>1
  <1>5. QED
    BY <1>1, <1>2, <1>3, <1>4 DEF ChannelStep

\* A message is always queued.
LEMMA DataQueued ==
  ASSUME NEW p \in Peer, StepOf(p), DoesData(p)
  PROVE  bug' = bug
  <1>1. PICK s : s = net[p][1].did
    OBVIOUS
  <1>2. PICK q \in Peer : q = Other(p)
    BY PeerFacts
  <1>3. s \in tbl[p] /\ Takes(p, 2, "data") /\ net[p][2].code = "payload"
    BY <1>1 DEF DoesData
  <1>4. s \in Sid /\ Len(st[p][s].rxq) < QueueSize
    BY <1>1, <1>2, <1>3, DataFits
  <1>5. Len(st[p][s].rxq) \in Nat
    BY <1>4, At, ThreadFacts, LenProperties
  <1>6. ~(Len(st[p][s].rxq) >= QueueSize)
    BY <1>4, <1>5, BoundsAssumption
  <1>7. QED
    BY <1>1, <1>6 DEF DoesData

\* What a step of p's channel thread or application does.
LEMMA PeerEffect ==
  ASSUME FullInv, NEW p \in Peer, ChannelStep(p) \/ AppStep(p), "use after free" \notin bug'
  PROVE  \/ \E t \in Thread : DoesCall(p, t)
         \/ DoesStart(p) \/ DoesAnswer(p) \/ DoesEstablish(p) \/ DoesDiscard(p) \/ DoesAccept(p) \/ DoesRefuse(p)
         \/ DoesResponse(p) \/ DoesNotify(p) \/ DoesAck(p) \/ DoesData(p) \/ DoesCrash(p) \/ DoesOpen(p)
  <1>0. TypeInv /\ ChannelInv /\ WholeInv
    BY DEF FullInv
  <1>1. CASE ChannelStep(p)
    <2>1. ASSUME recv_fails(p) \/ corpc_channel_thread_end(p) PROVE \E t \in Thread : DoesCall(p, t)
      BY <1>0, <2>1, CallEffect
    <2>2. ASSUME on_create_stream_request_done(p)
          PROVE  (\E t \in Thread : DoesCall(p, t)) \/ DoesEstablish(p) \/ DoesDiscard(p)
      BY <1>0, <2>2, DoneEffect, ThreadFacts
    <2>3. QED
      BY <1>0, <1>1, <2>1, <2>2, RequestEffect, StartEffect, ReplyEffect, ResponseEffect, NotifyEffect, AckEffect,
         DataEffect, CrashEffect DEF ChannelStep
  <1>2. CASE AppStep(p)
    <2>1. CASE corpc_open_stream(p)
      BY <1>0, <2>1, OpenEffect
    <2>2. CASE ~corpc_open_stream(p)
      BY <1>0, <1>2, <2>2, CallEffect DEF AppStep
    <2>3. QED
      BY <2>1, <2>2
  <1>3. QED
    BY <1>1, <1>2

LEMMA PeerKept ==
  ASSUME FullInv, TypeInv', NEW p \in Peer, PeerStreams(p), PeerStreams(Other(p)), ChannelStep(p) \/ AppStep(p),
         "use after free" \notin bug'
  PROVE  PeerStreams(p)' /\ PeerStreams(Other(p))' /\ ("ccfifo is full" \in bug' => "ccfifo is full" \in bug)
  <1>1. StepOf(p)
    BY ChannelSteps
  <1>2. TypeInv /\ ChannelInv /\ WholeInv
    BY DEF FullInv
  <1>3. \/ \E t \in Thread : DoesCall(p, t)
        \/ DoesStart(p) \/ DoesAnswer(p) \/ DoesEstablish(p) \/ DoesDiscard(p) \/ DoesAccept(p) \/ DoesRefuse(p)
        \/ DoesResponse(p) \/ DoesNotify(p) \/ DoesAck(p) \/ DoesData(p) \/ DoesCrash(p) \/ DoesOpen(p)
    BY PeerEffect
  <1>4. PeerStreams(p)' /\ PeerStreams(Other(p))'
    BY <1>1, <1>3, CallKept, StartKept, AnswerGiven, EstablishKept, DiscardKept, AcceptKept, RefuseKept, ResponseKept,
       NotifyKept, AckKept, DataKept, CrashKept, OpenKept
  <1>5. ASSUME on_data_message(p) PROVE bug' = bug
    BY <1>1, <1>2, <1>5, DataEffect, DataQueued
  <1>6. QED
    BY <1>4, <1>5, BugsMet

\* Nothing moves, but the connection may be lost.
LEMMA NothingKept ==
  ASSUME NEW p \in Peer, PeerStreams(p), UNCHANGED <<net, gsid, tbl, st, pc, op, cur, nwr, nrd>>, Severed(p) => Severed(p)'
  PROVE  PeerStreams(p)'
  <1>1. \A a, s, r : (Says(a, s, r)' <=> Says(a, s, r)) /\ (Joined(a, s, r)' <=> Joined(a, s, r))
    BY DEF Says, Joined
  <1>2. OneEnd(p)' /\ Known(p)' /\ Named(p)' /\ Answer(p)'
    BY <1>1 DEF PeerStreams, OneEnd, Known, Named, Answer, WellFormed
  <1>3. \A s \in Sid : Writer(p, s)'
    BY DEF PeerStreams, Writer, Writing
  <1>4. \A s \in Sid : Request(p, s)'
    BY <1>1 DEF PeerStreams, Request, Fresh, Asking, Requested, Asker
  <1>5. \A s, r \in Sid : Flow(p, s, r) => Flow(p, s, r)'
    BY DEF Flow, Returned, Owes, Credits
  <1>6. Flows(p)'
    BY <1>1, <1>5 DEF PeerStreams, Flows
  <1>7. QED
    BY <1>2, <1>3, <1>4, <1>6 DEF PeerStreams

LEMMA StreamNext ==
  ASSUME FullInv, TypeInv', StreamInv, [Next]_vars
  PROVE  StreamInv'
  <1> SUFFICES ASSUME "use after free" \notin bug' PROVE (\A p \in Peer : PeerStreams(p))' /\ "ccfifo is full" \notin bug'
    BY DEF StreamInv
  <1>1. CASE \E p \in Peer : (\E t \in Thread : ThreadStep(p, t)) \/ ChannelStep(p) \/ AppStep(p)
    <2>1. PICK p \in Peer : (\E t \in Thread : ThreadStep(p, t)) \/ ChannelStep(p) \/ AppStep(p)
      BY <1>1
    <2>2. bug \subseteq bug'
      <3>1. CASE \E t \in Thread : ThreadStep(p, t)
        <4>1. PICK t \in Thread : ThreadStep(p, t)
          BY <3>1
        <4>2. OnlyThread(p, t)
          BY <4>1, ThreadEffect DEF FullInv
        <4>3. QED
          BY <4>2 DEF OnlyThread
      <3>2. CASE ChannelStep(p) \/ AppStep(p)
        BY <3>2, BugsMet
      <3>3. QED
        BY <2>1, <3>1, <3>2
    <2>3. (\A a \in Peer : PeerStreams(a)) /\ "ccfifo is full" \notin bug
      BY <2>2 DEF StreamInv
    <2>4. Other(p) \in Peer /\ PeerStreams(p) /\ PeerStreams(Other(p)) /\ \A a \in Peer : a = p \/ a = Other(p)
      BY <2>3, PeerFacts, PeersAssumption DEF Peer, Other
    <2>5. PeerStreams(p)' /\ PeerStreams(Other(p))' /\ "ccfifo is full" \notin bug'
      <3>1. CASE \E t \in Thread : ThreadStep(p, t)
        BY <2>3, <2>4, <3>1, ThreadKept
      <3>2. CASE ChannelStep(p) \/ AppStep(p)
        BY <2>3, <2>4, <3>2, PeerKept
      <3>3. QED
        BY <2>1, <3>1, <3>2
    <2>6. \A a \in Peer : PeerStreams(a)'
      BY <2>4, <2>5
    <2>7. QED
      BY <2>5, <2>6
  <1>2. CASE LinkFails \/ UNCHANGED vars
    <2>1. /\ UNCHANGED <<net, gsid, tbl, st, pc, op, cur, nwr, nrd, bug>>
      BY <1>2 DEF LinkFails, vars, streamVars, threadVars, countVars
    <2>2. \A p \in Peer : Severed(p) => Severed(p)'
      <3>1. CASE LinkFails
        BY <3>1 DEF LinkFails, Severed, PeerGone
      <3>2. CASE UNCHANGED vars
        BY <3>2 DEF vars, Severed, PeerGone
      <3>3. QED
        BY <1>2, <3>1, <3>2
    <2>3. (\A p \in Peer : PeerStreams(p)) /\ "ccfifo is full" \notin bug
      BY <2>1 DEF StreamInv
    <2>4. \A p \in Peer : PeerStreams(p)'
      BY <2>1, <2>2, <2>3, NothingKept
    <2>5. QED
      BY <2>1, <2>3, <2>4
  <1>3. QED
    BY <1>1, <1>2 DEF Next

LEMMA StreamInit == Init => StreamInv
  <1> SUFFICES ASSUME Init, NEW p \in Peer PROVE PeerStreams(p)
    BY DEF StreamInv, Init
  <1>1. /\ Other(p) \in Peer /\ Other(Other(p)) = p /\ net[p] = << >> /\ net[Other(p)] = << >>
        /\ Len(<< >>) = 0 /\ 1..0 = {}
    BY PeerFacts DEF Init
  <1>2. \A a \in Peer : /\ \A s \in Thread : st[a][s].did = 0
                        /\ \A s \in Sid : nwr[a][s] = 0 /\ nrd[a][s] = 0 /\ pc[a][s] = "none"
                        /\ cur[a].sid = 0 /\ cur[a].rwnd = 0 /\ pc[a][0] = "recv" /\ tbl[a] = {}
    BY ThreadFacts DEF Init, Zeroed, Stream
  <1>3. \A s, r \in Sid : ~Joined(p, s, r)
    BY <1>1, <1>2, ThreadFacts DEF Joined, Says
  <1>4. OneEnd(p) /\ Known(p) /\ Named(p) /\ Flows(p)
    BY <1>1, <1>2, <1>3 DEF OneEnd, Known, Named, Flows
  <1>5. Answer(p)
    BY <1>2, BoundsAssumption DEF Answer, Serving, Answering
  <1>6. \A s \in Sid : Writer(p, s)
    BY <1>2 DEF Writer, Writing
  <1>7. \A s \in Sid : Request(p, s)
    BY <1>1, <1>2 DEF Request, Fresh, Asking, Requested
  <1>8. QED
    BY <1>4, <1>5, <1>6, <1>7 DEF PeerStreams

LEMMA StreamInductive == Spec => [](FullInv /\ StreamInv)
  <1>1. FullInv /\ StreamInv /\ FullInv' /\ [Next]_vars => StreamInv'
    BY StreamNext DEF FullInv
  <1>2. QED
    BY <1>1, StreamInit, FullInductive, PTL DEF Spec

-----------------------------------------------------------------------------
(* The messages on their way, as DataFor counts them.                      *)

Messages(f, r) == {i \in DOMAIN f : f[i].code = "payload" /\ i > 1 /\ f[i-1].code = "data" /\ f[i-1].did = r}

\* The messages up to the i-th frame.
Upto(f, r, i) == {j \in Messages(f, r) : j <= i}

LEMMA MessageSet ==
  ASSUME NEW f \in Seq(GoodFrames), NEW r
  PROVE  /\ Messages(f, r) \subseteq 1..Len(f) /\ IsFiniteSet(Messages(f, r)) /\ Len(f) \in Nat
         /\ \A i \in 1..Len(f) : i \in Messages(f, r) <=> Carries(f, r, i)
         /\ \A i \in Messages(f, r) : f[i].seq \in Nat /\ i \in Nat
  <1>1. DOMAIN f = 1..Len(f) /\ Len(f) \in Nat
    BY LenProperties
  <1>2. Messages(f, r) \subseteq 1..Len(f)
    BY <1>1 DEF Messages
  <1>3. IsFiniteSet(Messages(f, r))
    <2>1. PICK a \in Int : a = 1
      OBVIOUS
    <2>2. PICK b \in Int : b = Len(f)
      <3>1. PICK n \in Nat : n = Len(f)
        BY <1>1
      <3>2. n \in Int
        OBVIOUS
      <3>3. QED
        BY <3>1, <3>2
    <2>3. IsFiniteSet(a..b)
      BY FS_Interval
    <2>4. Messages(f, r) \in SUBSET (a..b)
      BY <1>2, <2>1, <2>2
    <2>5. QED
      BY <2>3, <2>4, FS_Subset
  <1>4. ASSUME NEW i \in 1..Len(f) PROVE i \in Messages(f, r) <=> Carries(f, r, i)
    BY <1>1, <1>4 DEF Messages, Carries
  <1>5. \A i \in Messages(f, r) : f[i].seq \in Nat /\ i \in Nat
    BY <1>1, <1>2, FrameSeq
  <1>6. QED
    BY <1>1, <1>2, <1>3, <1>4, <1>5

\* The i-th frame carries the message with the number of those up to it.
LEMMA MessageNumber ==
  ASSUME NEW f \in Seq(GoodFrames), NEW r, NEW got \in Nat, NEW queue \in Seq(Nat), NEW w \in Nat,
         Ahead(f, r, got, Len(queue), w), Exact(f, r, got, queue, w),
         NEW base \in Nat, base = got + Len(queue)
  PROVE  /\ \A i \in Messages(f, r) : Cardinality(Upto(f, r, i)) = f[i].seq - base /\ base < f[i].seq /\ f[i].seq <= w
         /\ Cardinality(Messages(f, r)) = w - base /\ base <= w
         /\ \A m \in 1..w : base < m => \E i \in Messages(f, r) : f[i].seq = m
  <1>1. PICK D : D = Messages(f, r)
    OBVIOUS
  <1>2. /\ D \subseteq 1..Len(f) /\ IsFiniteSet(D) /\ Len(f) \in Nat
        /\ \A i \in 1..Len(f) : i \in D <=> Carries(f, r, i)
        /\ \A i \in D : f[i].seq \in Nat /\ i \in Nat
    BY <1>1, MessageSet
  <1>3. \A i \in D : base < f[i].seq /\ f[i].seq <= w
    BY <1>2 DEF Ahead
  <1>4. \A i, j \in D : i < j => f[i].seq < f[j].seq
    BY <1>2 DEF Ahead
  <1>5. \A m \in 1..w : base < m => \E i \in D : f[i].seq = m
    BY <1>2 DEF Exact
  <1>6. \A i, j \in D : f[i].seq = f[j].seq => i = j
    BY <1>2, <1>4
  <1>7. \A i, j \in D : j <= i <=> f[j].seq <= f[i].seq
    BY <1>2, <1>4
  <1>8. ASSUME NEW T, T \subseteq D, NEW v \in Nat, base <= v, v <= w, \A i \in D : i \in T <=> f[i].seq <= v
        PROVE  Cardinality(T) = v - base
    <2>1. PICK h : h = [i \in T |-> f[i].seq]
      OBVIOUS
    <2>2. base + 1 \in Int /\ v \in Int
      BY <1>8
    <2>3. h \in [T -> (base + 1)..v]
      <3>1. \A i \in T : f[i].seq \in (base + 1)..v
        BY <1>2, <1>3, <1>8
      <3>2. QED
        BY <2>1, <3>1
    <2>4. \A a, b \in T : h[a] = h[b] => a = b
      BY <1>6, <1>8, <2>1
    <2>5. \A m \in (base + 1)..v : \E i \in T : h[i] = m
      <3> SUFFICES ASSUME NEW m \in (base + 1)..v PROVE \E i \in T : h[i] = m
        OBVIOUS
      <3>1. m \in 1..w /\ base < m /\ m <= v
        BY <1>8
      <3>2. PICK i \in D : f[i].seq = m
        BY <1>5, <3>1
      <3>3. i \in T
        BY <1>8, <3>1, <3>2
      <3>4. QED
        BY <2>1, <3>2, <3>3
    <2>6. h \in Bijection(T, (base + 1)..v)
      BY <2>3, <2>4, <2>5, Fun_IsBij
    <2>7. ExistsBijection(T, (base + 1)..v)
      BY <2>6, Fun_ExistsBij
    <2>8. IsFiniteSet(T)
      BY <1>2, <1>8, FS_Subset
    <2>9. Cardinality((base + 1)..v) = Cardinality(T)
      BY <2>7, <2>8, FS_Bijection
    <2>10. Cardinality((base + 1)..v) = IF base + 1 > v THEN 0 ELSE v - (base + 1) + 1
      BY <2>2, FS_Interval
    <2>11. QED
      BY <1>8, <2>9, <2>10
  <1>9. base <= w
    BY DEF Ahead
  <1>10. Cardinality(D) = w - base
    <2>1. \A i \in D : i \in D <=> f[i].seq <= w
      BY <1>3
    <2>2. QED
      BY <1>8, <1>9, <2>1
  <1>11. ASSUME NEW i \in D PROVE Cardinality(Upto(f, r, i)) = f[i].seq - base
    <2>1. PICK v \in Nat : v = f[i].seq
      BY <1>2, <1>11
    <2>2. base <= v /\ v <= w
      BY <1>3, <1>11, <2>1
    <2>3. PICK T : T = Upto(f, r, i)
      OBVIOUS
    <2>4. T \subseteq D /\ \A j \in D : j \in T <=> f[j].seq <= v
      BY <1>1, <1>7, <1>11, <2>1, <2>3 DEF Upto
    <2>5. Cardinality(T) = v - base
      BY <1>8, <2>2, <2>4
    <2>6. QED
      BY <2>1, <2>3, <2>5
  <1>12. QED
    BY <1>1, <1>3, <1>5, <1>9, <1>10, <1>11

\* What is on its way follows what has been read and queued.
LEMMA OnItsWay ==
  ASSUME NEW f \in Seq(GoodFrames), NEW r, NEW got \in Nat, NEW queue \in Seq(Nat), NEW w \in Nat,
         Ahead(f, r, got, Len(queue), w), Exact(f, r, got, queue, w), NEW base \in Nat, base = got + Len(queue)
  PROVE  \E k \in Nat : k = w - base /\ DataFor(f, r) = [m \in 1..k |-> base + m]
  <1>1. PICK n \in Nat : n = Len(queue)
    BY LenProperties
  <1>2. base = got + n
    BY <1>1
  <1>3. PICK D : D = Messages(f, r)
    OBVIOUS
  <1>4. /\ \A i \in D : Cardinality(Upto(f, r, i)) = f[i].seq - base /\ base < f[i].seq /\ f[i].seq <= w
        /\ Cardinality(D) = w - base /\ base <= w
        /\ \A m \in 1..w : base < m => \E i \in D : f[i].seq = m
    <2>1. /\ \A i \in Messages(f, r) : Cardinality(Upto(f, r, i)) = f[i].seq - base /\ base < f[i].seq /\ f[i].seq <= w
          /\ Cardinality(Messages(f, r)) = w - base /\ base <= w
          /\ \A m \in 1..w : base < m => \E i \in Messages(f, r) : f[i].seq = m
      BY MessageNumber, SMTT(30)
    <2>2. QED
      BY <1>3, <2>1, Zenon
  <1>5. \A i \in D : f[i].seq \in Nat
    BY <1>3, MessageSet
  <1>6. PICK k \in Nat : k = w - base
    <2>1. base <= w
      BY <1>4
    <2>2. w - base \in Nat
      BY <2>1
    <2>3. QED
      BY <2>2, Zenon
  <1>7. DataFor(f, r) = [m \in 1..Cardinality(D) |-> f[CHOOSE i \in D : Cardinality({j \in D : j <= i}) = m].seq]
    BY <1>3 DEF DataFor, Messages
  <1>8. \A i : Upto(f, r, i) = {j \in D : j <= i}
    BY <1>3 DEF Upto
  <1>9. ASSUME NEW m \in 1..k PROVE f[CHOOSE i \in D : Cardinality({j \in D : j <= i}) = m].seq = base + m
    <2>1. base + m \in 1..w /\ base < base + m
      BY <1>4, <1>6, <1>9
    <2>2. PICK i \in D : f[i].seq = base + m
      BY <1>4, <2>1
    <2>3. Cardinality({j \in D : j <= i}) = m
      <3>1. Cardinality(Upto(f, r, i)) = (base + m) - base
        BY <1>4, <2>2
      <3>2. (base + m) - base = m
        BY <1>9
      <3>3. Cardinality(Upto(f, r, i)) = m
        BY <3>1, <3>2
      <3>4. QED
        BY <1>8, <3>3
    <2>4. PICK c : c = CHOOSE x \in D : Cardinality({j \in D : j <= x}) = m
      OBVIOUS
    <2>5. c \in D /\ Cardinality({j \in D : j <= c}) = m
      BY <2>3, <2>4, Zenon
    <2>6. f[c].seq - base = m /\ f[c].seq \in Nat
      BY <1>4, <1>5, <1>8, <2>5
    <2>7. f[c].seq = base + m
      BY <2>6
    <2>8. QED
      BY <2>4, <2>7
  <1>10. DataFor(f, r) = [m \in 1..k |-> base + m]
    <2>1. Cardinality(D) = k
      BY <1>4, <1>6
    <2>2. DataFor(f, r) = [m \in 1..k |-> f[CHOOSE i \in D : Cardinality({j \in D : j <= i}) = m].seq]
      BY <1>7, <2>1, Zenon
    <2>3. QED
      BY <1>9, <2>2, Zenon
  <1>11. WITNESS k \in Nat
  <1>12. QED
    BY <1>6, <1>10, Zenon

\* What is queued and on its way is what has been written and not read.
LEMMA Delivery ==
  ASSUME NEW f \in Seq(GoodFrames), NEW r, NEW got \in Nat, NEW queue \in Seq(Nat), NEW w \in Nat,
         Ahead(f, r, got, Len(queue), w), Exact(f, r, got, queue, w)
  PROVE  queue \o DataFor(f, r) = [i \in 1..(w - got) |-> got + i]
  <1>1. PICK n \in Nat : n = Len(queue)
    BY LenProperties
  <1>2. PICK base \in Nat : base = got + n
    BY <1>1
  <1>3. PICK k \in Nat : k = w - base /\ DataFor(f, r) = [m \in 1..k |-> base + m]
    BY <1>1, <1>2, OnItsWay
  <1>4. PICK t : t = [m \in 1..k |-> base + m]
    OBVIOUS
  <1>5. t \in Seq(Nat) /\ Len(t) = k /\ \A m \in 1..k : t[m] = base + m
    BY <1>4
  <1>6. PICK e : e = [i \in 1..(w - got) |-> got + i]
    OBVIOUS
  <1>7. w - got \in Nat /\ w - got = n + k
    BY <1>2, <1>3
  <1>8. e \in Seq(Nat) /\ Len(e) = n + k /\ \A i \in 1..(n + k) : e[i] = got + i
    BY <1>6, <1>7
  <1>9. /\ queue \o t \in Seq(Nat) /\ Len(queue \o t) = n + k
         /\ \A i \in 1..(n + k) : (queue \o t)[i] = IF i <= n THEN queue[i] ELSE t[i - n]
    BY <1>1, <1>5, ConcatProperties
  <1>10. ASSUME NEW i \in 1..(n + k) PROVE (queue \o t)[i] = e[i]
    <2>1. CASE i <= n
      <3>1. i \in 1..Len(queue)
        BY <1>1, <2>1
      <3>2. queue[i] = got + i
        BY <3>1 DEF Exact
      <3>3. QED
        BY <1>8, <1>9, <2>1, <3>2
    <2>2. CASE ~(i <= n)
      <3>1. i - n \in 1..k /\ base + (i - n) = got + i
        BY <1>2, <2>2
      <3>2. t[i - n] = got + i
        BY <1>5, <3>1
      <3>3. QED
        BY <1>8, <1>9, <2>2, <3>2
    <2>3. QED
      BY <2>1, <2>2
  <1>11. queue \o t = e
    BY <1>8, <1>9, <1>10, SeqEqual
  <1>12. QED
    BY <1>3, <1>4, <1>6, <1>11

\* The numbers of a stream's messages that are queued or on their way.
LEMMA StreamsInOrder ==
  ASSUME FullInv, \A p \in Peer : PeerStreams(p)
  PROVE  InOrder
  <1> SUFFICES ASSUME NEW q \in Peer, NEW r \in tbl[q], NEW p \in Peer, p = Other(q),
                      NEW s, s = st[q][r].did, s # 0, link, sock[p], sock[q]
               PROVE  st[q][r].rxq \o DataFor(net[q], r)
                        = [i \in 1..(nwr[p][s] - nrd[q][r]) |-> nrd[q][r] + i]
    BY PeerFacts DEF InOrder
  <1>1. TypeOK /\ Other(p) = q
    BY PeerFacts DEF FullInv, TypeInv
  <1>2. r \in Sid /\ s \in Sid /\ CountTypes /\ StreamTypes /\ r \in Thread /\ net \in [Peer -> Seq(GoodFrames)]
    <2>1. CountTypes /\ StreamTypes /\ net \in [Peer -> Seq(GoodFrames)]
      BY TypeParts DEF FullInv
    <2>2. r \in Sid
      BY <2>1 DEF StreamTypes
    <2>3. r \in Thread
      BY <2>2, ThreadFacts
    <2>4. st[q][r] \in Streams
      BY <2>1, <2>3 DEF StreamTypes
    <2>5. s \in Thread
      BY <2>4 DEF Streams
    <2>6. s \in Sid
      BY <2>5, ThreadFacts
    <2>7. QED
      BY <2>1, <2>2, <2>3, <2>6
  <1>3. Joined(p, s, r)
    BY <1>1 DEF Joined, Says
  <1>4. Flow(p, s, r)
    BY <1>2, <1>3 DEF PeerStreams, Flows
  <1>5. ~Severed(p)
    BY <1>1 DEF Severed, PeerGone
  <1>6. /\ Ahead(net[q], r, nrd[q][r], Len(st[q][r].rxq), nwr[p][s])
        /\ Exact(net[q], r, nrd[q][r], st[q][r].rxq, nwr[p][s])
    BY <1>1, <1>4, <1>5 DEF Flow
  <1>7. net[q] \in Seq(GoodFrames) /\ nrd[q][r] \in Nat /\ st[q][r].rxq \in Seq(Nat) /\ nwr[p][s] \in Nat
    <2>1. st[q][r].rxq \in Seq(Nat)
      BY <1>2 DEF StreamTypes, Streams
    <2>2. nrd[q][r] \in Nat /\ nwr[p][s] \in Nat
      BY <1>2 DEF CountTypes
    <2>3. QED
      BY <1>2, <2>1, <2>2
  <1>8. PICK f \in Seq(GoodFrames), got \in Nat, queue \in Seq(Nat), w \in Nat :
          f = net[q] /\ got = nrd[q][r] /\ queue = st[q][r].rxq /\ w = nwr[p][s]
    BY <1>7
  <1>9. Ahead(f, r, got, Len(queue), w) /\ Exact(f, r, got, queue, w)
    BY <1>6, <1>8
  <1>10. queue \o DataFor(f, r) = [i \in 1..(w - got) |-> got + i]
    BY <1>9, Delivery
  <1>11. QED
    BY <1>8, <1>10

-----------------------------------------------------------------------------
(* What the streams promise.                                               *)

\* on_data_message never finds the queue of a stream full and never meets a message torn apart
\* by another thread's frames, whatever the two peers' threads, handlers and closes interleave
\* to -- as long as on_create_stream_request has not gone on with a stream its method freed
\* (what it then grants, it grants to whatever lies there).
THEOREM WindowsHold == Spec => []("use after free" \notin bug => PeersKeepProtocol)
  <1>1. FullInv /\ StreamInv => ("use after free" \notin bug => PeersKeepProtocol)
    BY DEF FullInv, WholeInv, StreamInv, PeersKeepProtocol
  <1>2. QED
    BY <1>1, StreamInductive, PTL

\* While the connection stands, what the receiving end of a stream holds and what is on its way
\* to it are exactly the writes it has not read, in order: corpc_stream_write, the reader,
\* on_data_message and the closes of both ends lose, duplicate and reorder nothing -- again up
\* to a use after free in on_create_stream_request.
THEOREM StreamsDeliver == Spec => []("use after free" \notin bug => InOrder)
  <1>1. FullInv /\ StreamInv => ("use after free" \notin bug => InOrder)
    BY StreamsInOrder DEF StreamInv
  <1>2. QED
    BY <1>1, StreamInductive, PTL

\* Where methods read before they return and the application leaves the channel open
\* (Patient), there is no use after free: both promises of corpc_stream_read and
\* corpc_stream_write hold outright.
THEOREM PatientStreams ==
  ASSUME Patient
  PROVE  Spec => [](PeersKeepProtocol /\ InOrder)
  <1>1. FullInv /\ StreamInv => PeersKeepProtocol /\ InOrder
    <2> SUFFICES ASSUME FullInv, StreamInv PROVE PeersKeepProtocol /\ InOrder
      OBVIOUS
    <2>1. "use after free" \notin bug
      BY Patient DEF FullInv, OpenInv, StreamSurvivesOpen
    <2>2. (\A p \in Peer : PeerStreams(p)) /\ "ccfifo is full" \notin bug
      BY <2>1 DEF StreamInv
    <2>3. PeersKeepProtocol
      BY <2>2 DEF FullInv, WholeInv, PeersKeepProtocol
    <2>4. QED
      BY <2>2, <2>3, StreamsInOrder
  <1>2. QED
    BY <1>1, StreamInductive, PTL

-----------------------------------------------------------------------------
(* One stream, as the refinement of CorpcFlow sees it.                     *)

\* The instance the mapping of CorpcChannelFlow is for.
Single == MaxSid = 1 /\ Openers = {Client}

\* Nothing has come of p's end of the stream yet.
Untouched(p) == /\ nwr[p][1] = 0 /\ nrd[p][1] = 0 /\ st[p][1].rxq = << >>
                /\ op[p][1] # "ack" /\ pc[p][1] # "sent"

\* The server has its end only after the client; before that nothing happens.
Meeting == /\ gsid[Client] = 0 => gsid[Server] = 0
           /\ gsid[Server] = 0 => \A p \in Peer : Untouched(p)
           /\ gsid[Server] # 0 => st[Server][1].did # 0
           /\ \A p \in Peer : gsid[p] = 0 => st[p][1].state = "created"
           /\ cur[Client].obj = 0

\* A writer on its way has a message left.
Quota == \A p \in Peer : op[p][1] = "data" /\ pc[p][1] \in {"acquire", "send", "payload"}
                           => nwr[p][1] < MaxWrites[p]

\* While the request is answered nothing is received, and the window is whole.
Accepting == /\ st[Server][1].state = "opening" => /\ pc[Server][0] \in Serving /\ cur[Server].obj = 1
                                                   /\ st[Server][1].rwnd = QueueSize
                                                   /\ op[Server][1] # "ack" /\ st[Server][1].rxq = << >>
             /\ pc[Server][0] \in {"start", "started"} => st[Server][1].rxq = << >>

\* Until the answer comes the client waits for it.
Opening == st[Client][1].state = "opening" =>
             \/ pc[Client][1] \in {"acquire", "send", "release"} /\ op[Client][1] = "request"
             \/ pc[Client][1] \in {"opening", "fail"} /\ op[Client][1] = "none"

\* What is granted is the whole queue.
Grants == /\ pc[Server][0] \in {"acquire", "send"} /\ cur[Server].status = "ok" => cur[Server].rwnd = QueueSize
          /\ \A i \in 1..Len(net[Client]) :
               net[Client][i].code = "response" /\ net[Client][i].info = "ok" => net[Client][i].rwnd = QueueSize
          /\ \A i \in 1..Len(net[Server]) : net[Server][i].code = "request" => net[Server][i].rwnd = QueueSize

Unfolding == Meeting /\ Quota /\ Accepting /\ Opening /\ Grants

FlowInv == ~Broken => "use after free" \notin bug /\ Unfolding

LEMMA SingleFacts ==
  ASSUME Single
  PROVE  /\ Sid = {1} /\ Thread = {0, 1} /\ Peer = {Client, Server} /\ Client # Server
         /\ Other(Client) = Server /\ Other(Server) = Client
  BY PeersAssumption DEF Single, Sid, Thread, Peer, Other

-----------------------------------------------------------------------------
(* A broken stream stays broken.                                           *)

LEMMA ThreadChannel ==
  ASSUME NEW p \in Peer, NEW t \in Thread, ThreadStep(p, t)
  PROVE  UNCHANGED <<chst, sock, link>>
  BY DEF ThreadStep, acquire_write_lock, corpc_proto_send, corpc_proto_send_payload, send_data_done,
     release_write_lock, corpc_open_stream_wait, corpc_open_stream_fail, corpc_stream_read_internal,
     corpc_close_stream_erase, chanVars

\* What is over stays over: the connection, a socket, a channel; and a stream that was handed
\* out is not handed out again.
LEMMA OverStays ==
  ASSUME Single, TypeInv, [Next]_vars, NEW p \in Peer
  PROVE  /\ (~link => ~link') /\ (~sock[p] => ~sock'[p]) /\ (~established(p) => ~established(p)')
         /\ gsid[p] >= 1 => gsid'[p] = gsid[p] /\ tbl'[p] \subseteq tbl[p]
  <1>1. ChanTypes /\ StreamTypes /\ MaxSid = 1
    BY TypeParts DEF Single
  <1>2. gsid[p] \in Nat /\ \A q \in Peer : gsid[q] \in Nat
    BY <1>1, ThreadFacts DEF StreamTypes
  <1>3. \A q, s : EraseAndDestroy(q, s) => tbl'[p] \subseteq tbl[p]
    BY <1>1 DEF EraseAndDestroy, StreamTypes
  <1>4. ASSUME NEW q \in Peer, NEW t \in Thread, ThreadStep(q, t)
        PROVE  UNCHANGED <<chst, sock, link, gsid>> /\ tbl'[p] \subseteq tbl[p]
    <2>1. UNCHANGED <<chst, sock, link>>
      BY <1>4, ThreadChannel
    <2>2. CASE corpc_open_stream_fail(q, t) \/ corpc_close_stream_erase(q, t)
      BY <1>3, <2>1, <2>2 DEF corpc_open_stream_fail, corpc_close_stream_erase
    <2>3. CASE \/ acquire_write_lock(q, t) \/ corpc_proto_send(q, t) \/ corpc_proto_send_payload(q, t)
               \/ send_data_done(q, t) \/ release_write_lock(q, t) \/ corpc_open_stream_wait(q, t)
               \/ corpc_stream_read_internal(q, t)
      BY <2>1, <2>3 DEF acquire_write_lock, corpc_proto_send, corpc_proto_send_payload, send_data_done,
         release_write_lock, corpc_open_stream_wait, corpc_stream_read_internal, streamVars
    <2>4. QED
      BY <1>4, <2>2, <2>3 DEF ThreadStep
  <1>5. ASSUME NEW q \in Peer, corpc_open_stream(q) \/ on_create_stream_request(q)
        PROVE  UNCHANGED <<chst, sock, link>> /\ (gsid[p] >= 1 => gsid'[p] = gsid[p] /\ tbl'[p] = tbl[p])
    <2>1. UNCHANGED <<chst, sock, link>>
      BY <1>5 DEF corpc_open_stream, on_create_stream_request, chanVars
    <2>2. \/ UNCHANGED <<gsid, tbl>>
          \/ /\ gsid[q] < MaxSid /\ gsid' = [gsid EXCEPT ![q] = gensid(q)]
             /\ tbl' = [tbl EXCEPT ![q] = @ \cup {gensid(q)}]
      BY <1>5 DEF corpc_open_stream, on_create_stream_request, streamVars
    <2>3. QED
      BY <1>1, <1>2, <2>1, <2>2 DEF StreamTypes
  <1>6. ASSUME NEW q \in Peer, corpc_channel_close(q) \/ corpc_channel_thread_end(q)
        PROVE  UNCHANGED <<link, gsid, tbl>> /\ (~sock[p] => ~sock'[p]) /\ (~established(p) => ~established(p)')
    BY <1>1, <1>6 DEF corpc_channel_close, corpc_channel_thread_end, close_internal, established, ChanTypes, streamVars
  <1>7. ASSUME NEW q \in Peer, on_data_message_unknown(q)
        PROVE  /\ UNCHANGED <<link, gsid>> /\ (~sock[p] => ~sock'[p]) /\ (~established(p) => ~established(p)')
               /\ tbl'[p] \subseteq tbl[p]
    BY <1>1, <1>7 DEF on_data_message_unknown, established, ChanTypes, StreamTypes
  <1>8. ASSUME NEW q \in Peer, on_create_stream_request_done(q)
        PROVE  UNCHANGED <<chst, sock, link, gsid>> /\ tbl'[p] \subseteq tbl[p]
    BY <1>3, <1>8 DEF on_create_stream_request_done, chanVars
  <1>9. ASSUME NEW q \in Peer, \/ start_service_method_thread(q) \/ on_create_stream_request_reply(q)
                               \/ on_create_stream_responce(q) \/ on_close_stream_notify(q) \/ on_data_message(q)
                               \/ on_data_ack(q) \/ recv_fails(q)
                               \/ \E t \in Sid : corpc_stream_write(q, t) \/ corpc_stream_read(q, t) \/ corpc_close_stream(q, t)
        PROVE  UNCHANGED <<chst, sock, link, gsid, tbl>>
    BY <1>9 DEF start_service_method_thread, on_create_stream_request_reply, on_create_stream_responce,
       on_close_stream_notify, on_data_message, on_data_ack, recv_fails, corpc_stream_write, corpc_stream_read,
       corpc_close_stream, chanVars, streamVars
  <1>10. CASE LinkFails \/ UNCHANGED vars
    BY <1>10 DEF LinkFails, vars, chanVars, streamVars, established
  <1>11. ASSUME NEW q \in Peer, ChannelStep(q) \/ AppStep(q)
         PROVE  /\ (~link => ~link') /\ (~sock[p] => ~sock'[p]) /\ (~established(p) => ~established(p)')
                /\ gsid[p] >= 1 => gsid'[p] = gsid[p] /\ tbl'[p] \subseteq tbl[p]
    BY <1>5, <1>6, <1>7, <1>8, <1>9, <1>11 DEF ChannelStep, AppStep, established
  <1>12. QED
    BY <1>4, <1>10, <1>11 DEF Next, established

LEMMA BrokenStays ==
  ASSUME Single, FullInv, [Next]_vars, Broken
  PROVE  Broken'
  <1>1. TypeInv /\ FreshInv /\ ChannelInv
    BY DEF FullInv
  <1>2. \A p \in Peer : StaysClosed(p)
    BY <1>1, NextKeeps
  <1>3. \A p \in Peer : /\ (~link => ~link') /\ (~sock[p] => ~sock'[p]) /\ (~established(p) => ~established(p)')
                        /\ gsid[p] >= 1 => gsid'[p] = gsid[p] /\ tbl'[p] \subseteq tbl[p]
    BY <1>1, OverStays
  <1>4. ASSUME NEW p \in Peer, Gone(p) PROVE Gone(p)'
    <2>1. gsid[p] >= 1 /\ gsid'[p] = gsid[p] /\ tbl'[p] \subseteq tbl[p] /\ 1 \in Sid
      BY <1>3, <1>4, SingleFacts DEF Gone
    <2>2. 1 \in tbl[p] /\ st[p][1].state \notin Usable => st'[p][1].state \notin Usable
      BY <1>2, <2>1 DEF StaysClosed
    <2>3. QED
      BY <1>4, <2>1, <2>2 DEF Gone
  <1>5. Client \in Peer
    BY SingleFacts
  <1>6. QED
    BY <1>3, <1>4, <1>5 DEF Broken

-----------------------------------------------------------------------------
(* The stream while it stands.                                             *)

\* Acknowledgements after frames are taken.
LEMMA AcksTaken ==
  ASSUME NEW f \in Seq(GoodFrames), NEW g \in Seq(GoodFrames), NEW k, Dropped(f, g, k), NEW s
  PROVE  /\ (\A i \in 1..k : ~(f[i].code = "ack" /\ f[i].did = s)) => AcksFor(g, s) = AcksFor(f, s)
         /\ k = 1 /\ f[1].code = "ack" /\ f[1].did = s => AcksFor(f, s) = AcksFor(g, s) + 1
  <1>1. /\ IsFiniteSet(AckSet(f, s)) /\ IsFiniteSet(AckSet(g, s)) /\ Len(f) \in Nat /\ Len(g) \in Nat /\ k \in Nat
        /\ AcksFor(f, s) = Cardinality(AckSet(f, s)) /\ AcksFor(g, s) = Cardinality(AckSet(g, s))
        /\ AcksFor(f, s) \in Nat /\ AcksFor(g, s) \in Nat
        /\ DOMAIN f = 1..Len(f) /\ DOMAIN g = 1..Len(g)
    BY AcksFinite, LenProperties DEF Dropped
  <1>2. PICK h : h = [i \in AckSet(g, s) |-> i + k]
    OBVIOUS
  <1>3. \A i \in AckSet(g, s) : h[i] = i + k /\ i + k \in AckSet(f, s) /\ i \in Nat /\ i >= 1
    BY <1>1, <1>2 DEF AckSet, Dropped
  <1>4. ASSUME NEW T, T = {i \in AckSet(f, s) : i > k} PROVE Cardinality(AckSet(g, s)) = Cardinality(T)
    <2>1. \A i \in AckSet(g, s) : i + k \in T
      BY <1>1, <1>3, <1>4
    <2>2. h \in [AckSet(g, s) -> T]
      BY <1>2, <2>1
    <2>3. \A a, b \in AckSet(g, s) : h[a] = h[b] => a = b
      BY <1>1, <1>3
    <2>4. \A j \in T : \E i \in AckSet(g, s) : h[i] = j
      <3> SUFFICES ASSUME NEW j \in T PROVE \E i \in AckSet(g, s) : h[i] = j
        OBVIOUS
      <3>1. j \in 1..Len(f) /\ j > k /\ f[j].code = "ack" /\ f[j].did = s
        BY <1>1, <1>4 DEF AckSet
      <3>2. PICK i \in 1..Len(g) : i + k = j
        <4>1. j - k \in 1..Len(g) /\ (j - k) + k = j
          BY <1>1, <3>1 DEF Dropped
        <4>2. QED
          BY <4>1
      <3>3. g[i] = f[j]
        BY <3>2 DEF Dropped
      <3>4. i \in AckSet(g, s)
        BY <1>1, <3>1, <3>3 DEF AckSet
      <3>5. QED
        BY <1>3, <3>2, <3>4
    <2>5. h \in Bijection(AckSet(g, s), T)
      BY <2>2, <2>3, <2>4, Fun_IsBij
    <2>6. ExistsBijection(AckSet(g, s), T)
      BY <2>5, Fun_ExistsBij
    <2>7. QED
      BY <1>1, <2>6, FS_Bijection
  <1>5. ASSUME \A i \in 1..k : ~(f[i].code = "ack" /\ f[i].did = s) PROVE AcksFor(g, s) = AcksFor(f, s)
    <2>1. AckSet(f, s) = {i \in AckSet(f, s) : i > k}
      BY <1>1, <1>5 DEF AckSet
    <2>2. Cardinality(AckSet(g, s)) = Cardinality(AckSet(f, s))
      BY <1>4, <2>1
    <2>3. QED
      BY <1>1, <2>2
  <1>6. ASSUME k = 1, f[1].code = "ack", f[1].did = s PROVE AcksFor(f, s) = AcksFor(g, s) + 1
    <2>1. 1 \in AckSet(f, s)
      BY <1>1, <1>6 DEF AckSet, Dropped
    <2>2. Cardinality(AckSet(f, s) \ {1}) = Cardinality(AckSet(f, s)) - 1
      BY <1>1, <2>1, FS_RemoveElement
    <2>3. AckSet(f, s) \ {1} = {i \in AckSet(f, s) : i > k}
      BY <1>1, <1>6 DEF AckSet
    <2>4. Cardinality(AckSet(g, s)) = Cardinality(AckSet(f, s) \ {1})
      BY <1>4, <2>3
    <2>5. QED
      BY <1>1, <2>2, <2>4
  <1>7. QED
    BY <1>5, <1>6

\* The stream has two ends.
Met == gsid[Server] # 0

LEMMA Standing ==
  ASSUME Single, TypeInv, ChannelInv, ~Broken, \A p \in Peer : PeerStreams(p), Meeting
  PROVE  /\ link /\ \A p \in Peer : sock[p] /\ established(p) /\ ~Severed(p)
         /\ \A p \in Peer : /\ gsid[p] \in {0, 1}
                            /\ gsid[p] = 1 => 1 \in tbl[p] /\ st[p][1].state \in Usable
                            /\ gsid[p] = 0 => 1 \notin tbl[p]
         /\ ~Met => \A p \in Peer : ~Joined(p, 1, 1) /\ st[p][1].did = 0
         /\ Met => \A p \in Peer : gsid[p] = 1 /\ Joined(p, 1, 1)
  <1>1. /\ link /\ \A p \in Peer : sock[p] /\ established(p) /\ ~Gone(p)
    BY DEF Broken
  <1>2. \A p \in Peer : ~Severed(p)
    BY <1>1, PeerFacts DEF Severed, PeerGone
  <1>3. \A p \in Peer : gsid[p] \in {0, 1} /\ st[p][1].did \in {0, 1}
    BY SingleFacts, TypeParts DEF StreamTypes, Streams
  <1>4. \A p \in Peer : gsid[p] = 1 => 1 \in tbl[p] /\ st[p][1].state \in Usable
    BY <1>1, <1>3 DEF Gone
  <1>5. ASSUME NEW p \in Peer, gsid[p] = 0 PROVE 1 \notin tbl[p]
    BY <1>5 DEF ChannelInv, TableInv
  <1>6. ASSUME ~Met, NEW p \in Peer PROVE ~Joined(p, 1, 1) /\ st[p][1].did = 0
    <2>1. ~Joined(Server, 1, 1)
      BY <1>6, SingleFacts DEF Met, PeerStreams, Known
    <2>2. ~Joined(p, 1, 1)
      BY <2>1, SingleFacts DEF Joined
    <2>3. st[p][1].did # 1
      BY <2>2 DEF Joined, Says
    <2>4. QED
      BY <1>3, <2>2, <2>3
  <1>7. ASSUME Met, NEW p \in Peer PROVE gsid[p] = 1 /\ Joined(p, 1, 1)
    <2>1. gsid[Server] = 1 /\ gsid[Client] = 1 /\ st[Server][1].did = 1
      BY <1>3, <1>7, SingleFacts DEF Met, Meeting
    <2>2. Joined(Server, 1, 1)
      BY <2>1 DEF Joined, Says
    <2>3. QED
      BY <2>1, <2>2, SingleFacts DEF Joined
  <1>8. QED
    BY <1>1, <1>2, <1>3, <1>4, <1>5, <1>6, <1>7

-----------------------------------------------------------------------------
(* The steps of CorpcFlow, for the direction from p.                       *)

FlowSends(p) == /\ Window(p) > 0 /\ Uncounted(p) = 0 /\ Sent(p) < MaxWrites[p]
                /\ Wire(p)' = Append(Wire(p), Sent(p) + 1) /\ Sent(p)' = Sent(p) + 1 /\ Uncounted(p)' = 1
                /\ Window(p)' = Window(p) /\ Queue(p)' = Queue(p) /\ Owed(p)' = Owed(p) /\ Acks(p)' = Acks(p)
                /\ Got(p)' = Got(p)

FlowCounts(p) == /\ Uncounted(p) = 1 /\ Window(p)' = Window(p) - 1 /\ Uncounted(p)' = 0
                 /\ Wire(p)' = Wire(p) /\ Queue(p)' = Queue(p) /\ Owed(p)' = Owed(p) /\ Acks(p)' = Acks(p)
                 /\ Sent(p)' = Sent(p) /\ Got(p)' = Got(p)

FlowDelivers(p) == /\ Wire(p) # << >> /\ Queue(p)' = Append(Queue(p), Head(Wire(p))) /\ Wire(p)' = Tail(Wire(p))
                   /\ Window(p)' = Window(p) /\ Uncounted(p)' = Uncounted(p) /\ Owed(p)' = Owed(p)
                   /\ Acks(p)' = Acks(p) /\ Sent(p)' = Sent(p) /\ Got(p)' = Got(p)

FlowReads(p) == /\ Queue(p) # << >> /\ Owed(p) = 0 /\ Queue(p)' = Tail(Queue(p)) /\ Got(p)' = Got(p) + 1 /\ Owed(p)' = 1
                /\ Window(p)' = Window(p) /\ Uncounted(p)' = Uncounted(p) /\ Wire(p)' = Wire(p)
                /\ Acks(p)' = Acks(p) /\ Sent(p)' = Sent(p)

FlowAcks(p) == /\ Owed(p) = 1 /\ Owed(p)' = 0 /\ Acks(p)' = Acks(p) + 1
               /\ Window(p)' = Window(p) /\ Uncounted(p)' = Uncounted(p) /\ Wire(p)' = Wire(p)
               /\ Queue(p)' = Queue(p) /\ Sent(p)' = Sent(p) /\ Got(p)' = Got(p)

FlowCredits(p) == /\ Acks(p) > 0 /\ Acks(p)' = Acks(p) - 1 /\ Window(p)' = Window(p) + 1
                  /\ Uncounted(p)' = Uncounted(p) /\ Wire(p)' = Wire(p) /\ Queue(p)' = Queue(p)
                  /\ Owed(p)' = Owed(p) /\ Sent(p)' = Sent(p) /\ Got(p)' = Got(p)

FlowSame(p) == /\ Window(p)' = Window(p) /\ Uncounted(p)' = Uncounted(p) /\ Wire(p)' = Wire(p)
               /\ Queue(p)' = Queue(p) /\ Owed(p)' = Owed(p) /\ Acks(p)' = Acks(p)
               /\ Sent(p)' = Sent(p) /\ Got(p)' = Got(p)

\* The state CorpcFlow begins in, and the one it ends in.
FlowFresh(p) == /\ Window(p) = QueueSize /\ Uncounted(p) = 0 /\ Wire(p) = << >> /\ Queue(p) = << >>
                /\ Owed(p) = 0 /\ Acks(p) = 0 /\ Sent(p) = 0 /\ Got(p) = 0

FlowStep(p) == \/ FlowSame(p) /\ Phase' = Phase
               \/ /\ Phase = "connected" /\ Phase' = Phase
                  /\ \/ FlowSends(p) \/ FlowCounts(p) \/ FlowDelivers(p)
                     \/ FlowReads(p) \/ FlowAcks(p) \/ FlowCredits(p)
               \/ Phase = "connected" /\ Phase' = "broken" /\ FlowFresh(p)'

LEMMA StepToServer == FlowStep(Client) => [ToServer!Next]_(ToServer!vars)
  <1> SUFFICES ASSUME FlowStep(Client) PROVE [ToServer!Next]_(ToServer!vars)
    OBVIOUS
  <1>1. CASE FlowSame(Client) /\ Phase' = Phase
    BY <1>1 DEF FlowSame, ToServer!vars
  <1>2. CASE Phase = "connected" /\ Phase' = Phase /\ FlowSends(Client)
    BY <1>2 DEF FlowSends, ToServer!Next, ToServer!Step, ToServer!Send
  <1>3. CASE Phase = "connected" /\ Phase' = Phase /\ FlowCounts(Client)
    BY <1>3 DEF FlowCounts, ToServer!Next, ToServer!Step, ToServer!Count
  <1>4. CASE Phase = "connected" /\ Phase' = Phase /\ FlowDelivers(Client)
    BY <1>4 DEF FlowDelivers, ToServer!Next, ToServer!Step, ToServer!Deliver
  <1>5. CASE Phase = "connected" /\ Phase' = Phase /\ FlowReads(Client)
    BY <1>5 DEF FlowReads, ToServer!Next, ToServer!Step, ToServer!Read
  <1>6. CASE Phase = "connected" /\ Phase' = Phase /\ FlowAcks(Client)
    BY <1>6 DEF FlowAcks, ToServer!Next, ToServer!Step, ToServer!Ack
  <1>7. CASE Phase = "connected" /\ Phase' = Phase /\ FlowCredits(Client)
    BY <1>7 DEF FlowCredits, ToServer!Next, ToServer!Step, ToServer!Credit
  <1>8. CASE Phase = "connected" /\ Phase' = "broken" /\ FlowFresh(Client)'
    BY <1>8 DEF FlowFresh, ToServer!Next, ToServer!Break
  <1>9. QED
    BY <1>1, <1>2, <1>3, <1>4, <1>5, <1>6, <1>7, <1>8 DEF FlowStep

LEMMA StepToClient == FlowStep(Server) => [ToClient!Next]_(ToClient!vars)
  <1> SUFFICES ASSUME FlowStep(Server) PROVE [ToClient!Next]_(ToClient!vars)
    OBVIOUS
  <1>1. CASE FlowSame(Server) /\ Phase' = Phase
    BY <1>1 DEF FlowSame, ToClient!vars
  <1>2. CASE Phase = "connected" /\ Phase' = Phase /\ FlowSends(Server)
    BY <1>2 DEF FlowSends, ToClient!Next, ToClient!Step, ToClient!Send
  <1>3. CASE Phase = "connected" /\ Phase' = Phase /\ FlowCounts(Server)
    BY <1>3 DEF FlowCounts, ToClient!Next, ToClient!Step, ToClient!Count
  <1>4. CASE Phase = "connected" /\ Phase' = Phase /\ FlowDelivers(Server)
    BY <1>4 DEF FlowDelivers, ToClient!Next, ToClient!Step, ToClient!Deliver
  <1>5. CASE Phase = "connected" /\ Phase' = Phase /\ FlowReads(Server)
    BY <1>5 DEF FlowReads, ToClient!Next, ToClient!Step, ToClient!Read
  <1>6. CASE Phase = "connected" /\ Phase' = Phase /\ FlowAcks(Server)
    BY <1>6 DEF FlowAcks, ToClient!Next, ToClient!Step, ToClient!Ack
  <1>7. CASE Phase = "connected" /\ Phase' = Phase /\ FlowCredits(Server)
    BY <1>7 DEF FlowCredits, ToClient!Next, ToClient!Step, ToClient!Credit
  <1>8. CASE Phase = "connected" /\ Phase' = "broken" /\ FlowFresh(Server)'
    BY <1>8 DEF FlowFresh, ToClient!Next, ToClient!Break
  <1>9. QED
    BY <1>1, <1>2, <1>3, <1>4, <1>5, <1>6, <1>7, <1>8 DEF FlowStep

-----------------------------------------------------------------------------
(* The values the mapping takes.                                           *)

\* The k numbers that follow b.
Line(b, k) == [m \in 1..k |-> b + m]

LEMMA LineFacts ==
  ASSUME NEW b \in Nat, NEW k \in Nat
  PROVE  /\ Line(b, k) \in Seq(Nat) /\ Len(Line(b, k)) = k /\ (Line(b, k) = << >> <=> k = 0)
         /\ Line(b, k + 1) = Append(Line(b, k), b + k + 1)
         /\ Line(b, k + 1) # << >> /\ Head(Line(b, k + 1)) = b + 1 /\ Tail(Line(b, k + 1)) = Line(b + 1, k)
  <1>1. PICK j \in Nat : j = k + 1
    OBVIOUS
  <1>2. PICK c \in Nat : c = b + 1
    OBVIOUS
  <1>3. PICK f : f = Line(b, k)
    OBVIOUS
  <1>4. PICK g : g = Line(b, j)
    OBVIOUS
  <1>5. PICK h : h = Line(c, k)
    OBVIOUS
  <1>6. /\ f \in Seq(Nat) /\ Len(f) = k /\ \A m \in 1..k : f[m] = b + m
        /\ g \in Seq(Nat) /\ Len(g) = j /\ \A m \in 1..j : g[m] = b + m
        /\ h \in Seq(Nat) /\ Len(h) = k /\ \A m \in 1..k : h[m] = c + m
    BY <1>3, <1>4, <1>5 DEF Line
  <1>7. (f = << >> <=> k = 0) /\ g # << >>
    BY <1>1, <1>6, EmptySeq
  <1>8. g = Append(f, b + k + 1)
    <2>1. PICK e \in Nat : e = b + k + 1
      OBVIOUS
    <2>2. PICK a : a = Append(f, e)
      OBVIOUS
    <2>3. a \in Seq(Nat) /\ Len(a) = k + 1 /\ a[k + 1] = e /\ \A m \in 1..k : a[m] = f[m]
      BY <1>6, <2>1, <2>2, AppendProperties
    <2>4. \A m \in 1..j : a[m] = g[m]
      BY <1>1, <1>6, <2>1, <2>3, SMTT(30)
    <2>5. a = g
      BY <1>1, <1>6, <2>3, <2>4, SeqEqual
    <2>6. QED
      BY <2>1, <2>2, <2>5
  <1>9. Head(g) = b + 1
    BY <1>1, <1>6, <1>7, HeadTailProperties
  <1>10. Tail(g) = h
    <2>1. Tail(g) \in Seq(Nat) /\ Len(Tail(g)) = k /\ \A m \in 1..k : Tail(g)[m] = g[m + 1]
      BY <1>1, <1>6, <1>7, HeadTailProperties
    <2>2. \A m \in 1..k : Tail(g)[m] = h[m]
      BY <1>1, <1>2, <1>6, <2>1
    <2>3. QED
      BY <1>6, <2>1, <2>2, SeqEqual
  <1>11. QED
    BY <1>1, <1>2, <1>3, <1>4, <1>5, <1>6, <1>7, <1>8, <1>9, <1>10

\* The window the writer at p goes by.
Allowance(p) == IF st[p][1].state = "established" THEN st[p][1].rwnd ELSE QueueSize

\* What is queued and on its way from p are the writes that were not read, in order.
Lane(p) ==
    /\ nrd[Other(p)][1] \in Nat /\ AcksFor(net[p], 1) \in Nat /\ Allowance(p) \in Int
    /\ \E n, k \in Nat : /\ n = Len(st[Other(p)][1].rxq) /\ nwr[p][1] = nrd[Other(p)][1] + n + k
                         /\ st[Other(p)][1].rxq = Line(nrd[Other(p)][1], n)
                         /\ DataFor(net[Other(p)], 1) = Line(nrd[Other(p)][1] + n, k)
    /\ AcksFor(net[p], 1) <= nrd[Other(p)][1]

LEMMA EmptyLane ==
  /\ Line(0, 0) = << >>
  /\ \A f \in Seq(GoodFrames) : \A r : (\A i \in 1..Len(f) : ~Carries(f, r, i)) => DataFor(f, r) = << >>
  <1>1. Line(0, 0) = << >>
    BY LineFacts
  <1>2. ASSUME NEW f \in Seq(GoodFrames), NEW r, \A i \in 1..Len(f) : ~Carries(f, r, i)
        PROVE  DataFor(f, r) = << >>
    <2>1. PICK e \in Seq(Nat) : e = << >> /\ Len(e) = 0
      <3>1. << >> \in Seq(Nat) /\ Len(<< >>) = 0
        OBVIOUS
      <3>2. QED
        BY <3>1
    <2>2. PICK z \in Nat : z = 0
      OBVIOUS
    <2>3. Ahead(f, r, z, Len(e), z) /\ Exact(f, r, z, e, z) /\ z = z + Len(e)
      <3>1. Ahead(f, r, z, Len(e), z)
        BY <1>2, <2>1, <2>2, LenProperties DEF Ahead
      <3>2. 1..Len(e) = {} /\ 1..z = {} /\ z = z + Len(e)
        BY <2>1, <2>2
      <3>3. QED
        BY <3>1, <3>2 DEF Exact
    <2>4. \E k \in Nat : k = z - z /\ DataFor(f, r) = [m \in 1..k |-> z + m]
      BY <2>3, OnItsWay
    <2>5. DataFor(f, r) = Line(z, z)
      BY <2>2, <2>4 DEF Line
    <2>6. QED
      BY <1>1, <2>2, <2>5
  <1>3. QED
    BY <1>1, <1>2

LEMMA LaneHolds ==
  ASSUME Single, FullInv, ~Broken, \A p \in Peer : PeerStreams(p), Meeting, NEW p \in Peer
  PROVE  Lane(p)
  <1>1. PICK q \in Peer : q = Other(p)
    BY PeerFacts
  <1>2. PICK one \in Sid : one = 1
    BY SingleFacts
  <1>3. /\ TypeInv /\ ChannelInv /\ Other(q) = p /\ StreamTypes /\ CountTypes /\ one \in Thread
        /\ net[p] \in Seq(GoodFrames) /\ net[q] \in Seq(GoodFrames) /\ QueueSize \in Nat
    BY <1>1, <1>2, PeerFacts, TypeParts, ThreadFacts, BoundsAssumption DEF FullInv, TypeInv
  <1>4. /\ nwr[p][one] \in Nat /\ nrd[q][one] \in Nat /\ st[q][one].rxq \in Seq(Nat) /\ st[p][one].rwnd \in Int
        /\ AcksFor(net[p], one) \in Nat /\ Allowance(p) \in Int
    <2>1. /\ nwr[p][one] \in Nat /\ nrd[q][one] \in Nat /\ st[q][one].rxq \in Seq(Nat) /\ st[p][one].rwnd \in Int
      BY <1>3 DEF CountTypes, StreamTypes, Streams
    <2>2. AcksFor(net[p], one) \in Nat
      BY <1>3, AcksFinite
    <2>3. QED
      BY <1>2, <1>3, <2>1, <2>2 DEF Allowance
  <1>5. /\ ~Severed(p)
        /\ ~Met => ~Joined(p, one, one) /\ ~Joined(q, one, one)
        /\ Met => Joined(p, one, one) /\ one \in tbl[q]
    BY <1>2, <1>3, Standing
  <1>6. CASE Met
    <2>1. Flow(p, one, one)
      BY <1>5, <1>6 DEF PeerStreams, Flows
    <2>2. PICK g \in Nat : g = nrd[q][one]
      BY <1>4
    <2>3. PICK e \in Seq(Nat) : e = st[q][one].rxq
      BY <1>4
    <2>4. PICK w \in Nat : w = nwr[p][one]
      BY <1>4
    <2>5. PICK n \in Nat : n = Len(e)
      BY LenProperties
    <2>6. Ahead(net[q], one, g, Len(e), w) /\ Exact(net[q], one, g, e, w) /\ Returned(p, one, one) >= 0
      BY <1>1, <1>5, <1>6, <2>1, <2>2, <2>3, <2>4 DEF Flow
    <2>7. PICK b \in Nat : b = g + Len(e)
      BY <2>5
    <2>8. PICK k \in Nat : k = w - b /\ DataFor(net[q], one) = [m \in 1..k |-> b + m]
      <3>1. PICK f \in Seq(GoodFrames) : f = net[q]
        BY <1>3
      <3>2. Ahead(f, one, g, Len(e), w) /\ Exact(f, one, g, e, w)
        BY <2>6, <3>1
      <3>3. \E k \in Nat : k = w - b /\ DataFor(f, one) = [m \in 1..k |-> b + m]
        BY <2>7, <3>2, OnItsWay
      <3>4. QED
        BY <3>1, <3>3
    <2>9. DataFor(net[q], one) = Line(b, k) /\ w = g + n + k /\ b = g + n
      BY <2>5, <2>7, <2>8 DEF Line
    <2>10. e = Line(g, n)
      <3>1. PICK f : f = Line(g, n)
        OBVIOUS
      <3>2. f \in Seq(Nat) /\ Len(f) = n
        BY <3>1, LineFacts
      <3>3. \A m \in 1..n : f[m] = e[m]
        BY <2>5, <2>6, <3>1 DEF Line, Exact
      <3>4. QED
        BY <2>5, <3>1, <3>2, <3>3, SeqEqual
    <2>11. AcksFor(net[p], one) <= g
      <3>1. Returned(p, one, one) = g - Owes(q, one) - AcksFor(net[p], one) /\ Owes(q, one) \in {0, 1}
        BY <1>1, <2>2, OwesType DEF Returned
      <3>2. QED
        BY <1>4, <2>6, <3>1
    <2>12. \E i, j \in Nat : /\ i = Len(st[q][one].rxq) /\ nwr[p][one] = nrd[q][one] + i + j
                             /\ st[q][one].rxq = Line(nrd[q][one], i)
                             /\ DataFor(net[q], one) = Line(nrd[q][one] + i, j)
      BY <2>2, <2>3, <2>4, <2>5, <2>9, <2>10
    <2>13. QED
      BY <1>1, <1>2, <1>4, <2>2, <2>11, <2>12 DEF Lane
  <1>7. CASE ~Met
    <2>1. nwr[p][one] = 0 /\ nrd[q][one] = 0 /\ st[q][one].rxq = << >>
      BY <1>2, <1>7 DEF Meeting, Met, Untouched
    <2>2. Named(p) /\ Named(q)
      BY DEF PeerStreams
    <2>3. \A f \in GoodFrames : f.sid \in Thread /\ (f.sid # 0 => f.sid = one)
      BY <1>2, SingleFacts DEF GoodFrames, Frames
    <2>4. \A i \in 1..Len(net[q]) : net[q][i] \in GoodFrames
      BY <1>3, LenProperties
    <2>5. \A i \in 1..Len(net[p]) : net[p][i] \in GoodFrames
      BY <1>3, LenProperties
    <2>6. ASSUME NEW i \in 1..Len(net[q]) PROVE ~Carries(net[q], one, i)
      <3>1. SUFFICES ASSUME Carries(net[q], one, i) PROVE FALSE
        OBVIOUS
      <3>2. PICK j \in 1..Len(net[q]) : net[q][j].code = "data" /\ net[q][j].did = one
        <4>1. i - 1 \in 1..Len(net[q])
          BY <1>3, <3>1, LenProperties DEF Carries
        <4>2. QED
          BY <3>1, <4>1 DEF Carries
      <3>3. net[q][j].sid = one
        BY <1>1, <2>2, <2>3, <2>4, <3>2 DEF Named, WellFormed
      <3>4. QED
        BY <1>1, <1>5, <1>7, <3>2, <3>3 DEF Joined, Says
    <2>7. DataFor(net[q], one) = << >>
      BY <1>3, <2>6, EmptyLane
    <2>8. \A i \in 1..Len(net[p]) : ~(net[p][i].code = "ack" /\ net[p][i].did = one)
      BY <1>1, <1>3, <1>5, <1>7, <2>2, <2>3, <2>5 DEF Named, WellFormed, Joined, Says
    <2>9. AcksFor(net[p], one) = 0
      BY <1>3, <2>8, AcksNone
    <2>10. PICK z \in Nat : z = 0
      OBVIOUS
    <2>11. << >> = Line(z, z)
      BY <2>10, EmptyLane
    <2>12. \E i, j \in Nat : /\ i = Len(st[q][one].rxq) /\ nwr[p][one] = nrd[q][one] + i + j
                             /\ st[q][one].rxq = Line(nrd[q][one], i)
                             /\ DataFor(net[q], one) = Line(nrd[q][one] + i, j)
      <3>1. z + z = z /\ z + z + z = z /\ z = Len(<< >>)
        BY <2>10
      <3>2. nwr[p][one] = z + z + z /\ st[q][one].rxq = Line(z, z) /\ DataFor(net[q], one) = Line(z + z, z) /\ nrd[q][one] = z
             /\ z = Len(st[q][one].rxq)
        BY <2>1, <2>7, <2>10, <2>11, <3>1
      <3>3. QED
        BY <3>2
    <2>13. AcksFor(net[p], one) <= nrd[q][one]
      BY <2>1, <2>9
    <2>14. QED
      BY <1>1, <1>2, <1>4, <2>12, <2>13 DEF Lane
  <1>8. QED
    BY <1>6, <1>7

-----------------------------------------------------------------------------
(* What a step of one peer makes of the two directions.                    *)

WriterStays(p) == /\ Allowance(p)' = Allowance(p) /\ (pc'[p][1] = "sent" <=> pc[p][1] = "sent")
                  /\ nwr'[p][1] = nwr[p][1] /\ AcksFor(net[p], 1)' = AcksFor(net[p], 1)

WriterSends(p) == /\ pc[p][1] # "sent" /\ pc'[p][1] = "sent" /\ Allowance(p) > 0 /\ nwr[p][1] < MaxWrites[p]
                  /\ nwr'[p][1] = nwr[p][1] + 1 /\ Allowance(p)' = Allowance(p)
                  /\ AcksFor(net[p], 1)' = AcksFor(net[p], 1)

WriterCounts(p) == /\ pc[p][1] = "sent" /\ pc'[p][1] # "sent" /\ Allowance(p)' = Allowance(p) - 1
                   /\ nwr'[p][1] = nwr[p][1] /\ AcksFor(net[p], 1)' = AcksFor(net[p], 1)

WriterGains(p) == /\ AcksFor(net[p], 1) = AcksFor(net[p], 1)' + 1 /\ Allowance(p)' = Allowance(p) + 1
                  /\ (pc'[p][1] = "sent" <=> pc[p][1] = "sent") /\ nwr'[p][1] = nwr[p][1]

WriterTurn(p) == WriterStays(p) \/ WriterSends(p) \/ WriterCounts(p) \/ WriterGains(p)

ReaderStays(q) == /\ nrd'[q][1] = nrd[q][1] /\ st'[q][1].rxq = st[q][1].rxq /\ Owes(q, 1)' = Owes(q, 1)
                  /\ AcksFor(net[Other(q)], 1)' = AcksFor(net[Other(q)], 1)

ReaderQueues(q) == /\ nrd'[q][1] = nrd[q][1] /\ Len(st'[q][1].rxq) = Len(st[q][1].rxq) + 1
                   /\ Owes(q, 1)' = Owes(q, 1) /\ AcksFor(net[Other(q)], 1)' = AcksFor(net[Other(q)], 1)

ReaderReads(q) == /\ nrd'[q][1] = nrd[q][1] + 1 /\ Len(st[q][1].rxq) = Len(st'[q][1].rxq) + 1
                  /\ Owes(q, 1) = 0 /\ Owes(q, 1)' = 1 /\ AcksFor(net[Other(q)], 1)' = AcksFor(net[Other(q)], 1)

ReaderAcks(q) == /\ nrd'[q][1] = nrd[q][1] /\ st'[q][1].rxq = st[q][1].rxq /\ Owes(q, 1) = 1 /\ Owes(q, 1)' = 0
                 /\ AcksFor(net[Other(q)], 1)' = AcksFor(net[Other(q)], 1) + 1

ReaderTurn(q) == ReaderStays(q) \/ ReaderQueues(q) \/ ReaderReads(q) \/ ReaderAcks(q)

LEMMA Connected ==
  ASSUME NEW p \in Peer, NEW q \in Peer, q = Other(p), ~Broken, ~Broken'
  PROVE  /\ Window(p) = Allowance(p) /\ Uncounted(p) = One(pc[p][1] = "sent") /\ Wire(p) = DataFor(net[q], 1)
         /\ Queue(p) = st[q][1].rxq /\ Owed(p) = Owes(q, 1) /\ Acks(p) = AcksFor(net[p], 1)
         /\ Sent(p) = nwr[p][1] /\ Got(p) = nrd[q][1]
         /\ Window(p)' = Allowance(p)' /\ Uncounted(p)' = One(pc'[p][1] = "sent") /\ Wire(p)' = DataFor(net'[q], 1)
         /\ Queue(p)' = st'[q][1].rxq /\ Owed(p)' = Owes(q, 1)' /\ Acks(p)' = AcksFor(net[p], 1)'
         /\ Sent(p)' = nwr'[p][1] /\ Got(p)' = nrd'[q][1]
         /\ Phase = "connected" /\ Phase' = "connected"
  BY DEF Window, Uncounted, Wire, Queue, Owed, Acks, Sent, Got, Phase, Unless, Allowance, Owes

LEMMA WriterSteps ==
  ASSUME NEW p \in Peer, NEW q \in Peer, q = Other(p), ~Broken, ~Broken', Lane(p), Lane(p)',
         st'[q] = st[q], pc'[q] = pc[q], op'[q] = op[q], nrd'[q] = nrd[q], WriterTurn(p)
  PROVE  FlowStep(p)
  <1>a. PICK g \in Nat, n \in Nat, k \in Nat :
           /\ g = nrd[q][1] /\ n = Len(st[q][1].rxq) /\ nwr[p][1] = g + n + k
           /\ st[q][1].rxq = Line(g, n) /\ DataFor(net[q], 1) = Line(g + n, k)
    BY DEF Lane
  <1>b. PICK h \in Nat, m \in Nat, j \in Nat :
           /\ h = nrd'[q][1] /\ m = Len(st'[q][1].rxq) /\ nwr'[p][1] = h + m + j
           /\ st'[q][1].rxq = Line(h, m) /\ DataFor(net'[q], 1) = Line(h + m, j)
    BY DEF Lane
  <1>1. /\ g = nrd[q][1] /\ n = Len(st[q][1].rxq) /\ nwr[p][1] = g + n + k
        /\ st[q][1].rxq = Line(g, n) /\ DataFor(net[q], 1) = Line(g + n, k)
        /\ h = nrd'[q][1] /\ m = Len(st'[q][1].rxq) /\ nwr'[p][1] = h + m + j
        /\ st'[q][1].rxq = Line(h, m) /\ DataFor(net'[q], 1) = Line(h + m, j)
    BY <1>a, <1>b
  <1>2. h = g /\ m = n
    BY <1>1
  <1>3. /\ Queue(p)' = Queue(p) /\ Owed(p)' = Owed(p) /\ Got(p)' = Got(p) /\ Phase = "connected" /\ Phase' = Phase
        /\ Wire(p) = Line(g + n, k) /\ Wire(p)' = Line(g + n, j)
        /\ Window(p) = Allowance(p) /\ Uncounted(p) = One(pc[p][1] = "sent") /\ Acks(p) = AcksFor(net[p], 1)
        /\ Sent(p) = nwr[p][1]
        /\ Window(p)' = Allowance(p)' /\ Uncounted(p)' = One(pc'[p][1] = "sent") /\ Acks(p)' = AcksFor(net[p], 1)'
        /\ Sent(p)' = nwr'[p][1]
    <2>1. Owes(q, 1)' = Owes(q, 1)
      BY DEF Owes
    <2>2. QED
      BY <1>1, <1>2, <2>1, Connected
  <1>4. CASE WriterStays(p)
    <2>1. j = k
      BY <1>1, <1>2, <1>4 DEF WriterStays
    <2>2. QED
      BY <1>3, <1>4, <2>1 DEF WriterStays, FlowStep, FlowSame, One
  <1>5. CASE WriterSends(p)
    <2>1. j = k + 1 /\ g + n \in Nat /\ (g + n) + k + 1 = nwr[p][1] + 1
      <3>1. nwr'[p][1] = nwr[p][1] + 1
        BY <1>5 DEF WriterSends
      <3>2. g + n + j = (g + n + k) + 1
        BY <1>1, <1>2, <3>1
      <3>3. QED
        BY <1>1, <3>2
    <2>2. PICK b \in Nat : b = g + n
      BY <2>1
    <2>3. Line(b, k + 1) = Append(Line(b, k), b + k + 1)
      BY LineFacts
    <2>4. Wire(p)' = Append(Wire(p), Sent(p) + 1)
      BY <1>3, <2>1, <2>2, <2>3
    <2>5. QED
      BY <1>3, <1>5, <2>4 DEF WriterSends, FlowStep, FlowSends, One
  <1>6. CASE WriterCounts(p)
    <2>1. j = k
      BY <1>1, <1>2, <1>6 DEF WriterCounts
    <2>2. QED
      BY <1>3, <1>6, <2>1 DEF WriterCounts, FlowStep, FlowCounts, One
  <1>7. CASE WriterGains(p)
    <2>1. j = k
      BY <1>1, <1>2, <1>7 DEF WriterGains
    <2>2. AcksFor(net[p], 1) \in Nat /\ AcksFor(net[p], 1)' \in Nat
      BY DEF Lane
    <2>3. Acks(p) > 0 /\ Acks(p)' = Acks(p) - 1
      <3>1. Acks(p) \in Nat /\ Acks(p)' \in Nat /\ Acks(p) = Acks(p)' + 1
        BY <1>3, <1>7, <2>2 DEF WriterGains
      <3>2. QED
        BY <3>1
    <2>4. QED
      BY <1>3, <1>7, <2>1, <2>3 DEF WriterGains, FlowStep, FlowCredits, One
  <1>8. QED
    BY <1>4, <1>5, <1>6, <1>7 DEF WriterTurn

LEMMA ReaderSteps ==
  ASSUME NEW p \in Peer, NEW q \in Peer, q = Other(p), ~Broken, ~Broken', Lane(p), Lane(p)',
         st'[p] = st[p], pc'[p] = pc[p], nwr'[p] = nwr[p], ReaderTurn(q)
  PROVE  FlowStep(p)
  <1>0. p = Other(q)
    BY PeerFacts
  <1>a. PICK g \in Nat, n \in Nat, k \in Nat :
           /\ g = nrd[q][1] /\ n = Len(st[q][1].rxq) /\ nwr[p][1] = g + n + k
           /\ st[q][1].rxq = Line(g, n) /\ DataFor(net[q], 1) = Line(g + n, k)
    BY DEF Lane
  <1>b. PICK h \in Nat, m \in Nat, j \in Nat :
           /\ h = nrd'[q][1] /\ m = Len(st'[q][1].rxq) /\ nwr'[p][1] = h + m + j
           /\ st'[q][1].rxq = Line(h, m) /\ DataFor(net'[q], 1) = Line(h + m, j)
    BY DEF Lane
  <1>1. /\ g = nrd[q][1] /\ n = Len(st[q][1].rxq) /\ nwr[p][1] = g + n + k
        /\ st[q][1].rxq = Line(g, n) /\ DataFor(net[q], 1) = Line(g + n, k)
        /\ h = nrd'[q][1] /\ m = Len(st'[q][1].rxq) /\ nwr'[p][1] = h + m + j
        /\ st'[q][1].rxq = Line(h, m) /\ DataFor(net'[q], 1) = Line(h + m, j)
    BY <1>a, <1>b
  <1>2. h + m + j = g + n + k
    BY <1>1
  <1>3. /\ Window(p)' = Window(p) /\ Uncounted(p)' = Uncounted(p) /\ Sent(p)' = Sent(p)
        /\ Phase = "connected" /\ Phase' = Phase
        /\ Wire(p) = Line(g + n, k) /\ Wire(p)' = Line(h + m, j)
        /\ Queue(p) = Line(g, n) /\ Queue(p)' = Line(h, m)
        /\ Owed(p) = Owes(q, 1) /\ Acks(p) = AcksFor(net[p], 1) /\ Got(p) = g
        /\ Owed(p)' = Owes(q, 1)' /\ Acks(p)' = AcksFor(net[p], 1)' /\ Got(p)' = h
    <2>1. Allowance(p)' = Allowance(p)
      BY DEF Allowance
    <2>2. /\ Window(p) = Allowance(p) /\ Uncounted(p) = One(pc[p][1] = "sent") /\ Wire(p) = DataFor(net[q], 1)
          /\ Queue(p) = st[q][1].rxq /\ Owed(p) = Owes(q, 1) /\ Acks(p) = AcksFor(net[p], 1)
          /\ Sent(p) = nwr[p][1] /\ Got(p) = nrd[q][1]
          /\ Window(p)' = Allowance(p)' /\ Uncounted(p)' = One(pc'[p][1] = "sent") /\ Wire(p)' = DataFor(net'[q], 1)
          /\ Queue(p)' = st'[q][1].rxq /\ Owed(p)' = Owes(q, 1)' /\ Acks(p)' = AcksFor(net[p], 1)'
          /\ Sent(p)' = nwr'[p][1] /\ Got(p)' = nrd'[q][1]
          /\ Phase = "connected" /\ Phase' = "connected"
      BY Connected
    <2>3. Uncounted(p)' = Uncounted(p) /\ Sent(p)' = Sent(p) /\ Phase' = Phase /\ Phase = "connected"
      BY <2>2
    <2>4. QED
      BY <1>1, <2>1, <2>2, <2>3
  <1>4. CASE ReaderStays(q) \/ ReaderAcks(q)
    <2>1. h = g /\ m = n /\ j = k
      BY <1>1, <1>2, <1>4 DEF ReaderStays, ReaderAcks
    <2>2. QED
      BY <1>0, <1>3, <1>4, <2>1 DEF ReaderStays, ReaderAcks, FlowStep, FlowSame, FlowAcks
  <1>5. CASE ReaderQueues(q)
    <2>1. h = g /\ m = n + 1 /\ k = j + 1 /\ h + m = (g + n) + 1
      <3>1. h = g /\ m = n + 1
        BY <1>1, <1>5 DEF ReaderQueues
      <3>2. QED
        BY <1>2, <3>1
    <2>2. PICK b \in Nat : b = g + n
      OBVIOUS
    <2>3. /\ Line(g, n + 1) = Append(Line(g, n), g + n + 1)
          /\ Line(b, j + 1) # << >> /\ Head(Line(b, j + 1)) = b + 1 /\ Tail(Line(b, j + 1)) = Line(b + 1, j)
      BY LineFacts
    <2>4. Wire(p) # << >> /\ Queue(p)' = Append(Queue(p), Head(Wire(p))) /\ Wire(p)' = Tail(Wire(p))
      BY <1>3, <2>1, <2>2, <2>3
    <2>5. QED
      BY <1>0, <1>3, <1>5, <2>1, <2>4 DEF ReaderQueues, FlowStep, FlowDelivers
  <1>6. CASE ReaderReads(q)
    <2>1. h = g + 1 /\ n = m + 1 /\ k = j /\ h + m = g + n
      <3>1. h = g + 1 /\ n = m + 1
        BY <1>1, <1>6 DEF ReaderReads
      <3>2. QED
        BY <1>2, <3>1
    <2>2. /\ Line(g, m + 1) # << >> /\ Tail(Line(g, m + 1)) = Line(g + 1, m)
      BY LineFacts
    <2>3. Queue(p) # << >> /\ Queue(p)' = Tail(Queue(p)) /\ Wire(p)' = Wire(p) /\ Got(p)' = Got(p) + 1
      BY <1>3, <2>1, <2>2
    <2>4. QED
      BY <1>0, <1>3, <1>6, <2>3 DEF ReaderReads, FlowStep, FlowReads
  <1>7. QED
    BY <1>4, <1>5, <1>6 DEF ReaderTurn

-----------------------------------------------------------------------------
(* A step of peer x that leaves the stream unbroken.                       *)

OnStream(x) == StepOf(x) /\ ~Broken /\ ~Broken' /\ Unfolding /\ Lane(x) /\ Lane(Other(x))

LEMMA Stands ==
  ASSUME Single, NEW x \in Peer, OnStream(x), NEW y \in Peer, y = Other(x)
  PROVE  /\ 1 \in Sid /\ 1 \in Thread /\ 0 \in Thread /\ (\A t \in Thread : t = 0 \/ t = 1) /\ (\A s \in Sid : s = 1)
         /\ Other(y) = x /\ ((x = Client /\ y = Server) \/ (x = Server /\ y = Client)) /\ Client # Server
         /\ gsid[x] \in {0, 1} /\ established(x) /\ ~Severed(x)
         /\ gsid[x] = 1 => 1 \in tbl[x] /\ st[x][1].state \in Usable
         /\ gsid[x] = 0 => 1 \notin tbl[x] /\ pc[x][1] \in {"none", "crashed"} /\ st[x][1].state = "created" /\ ~Met
         /\ ~Met => Untouched(x) /\ ~Joined(x, 1, 1) /\ st[x][1].did = 0 /\ st[x][1].state # "established"
         /\ Met => gsid[x] = 1 /\ Joined(x, 1, 1)
         /\ gsid'[x] >= 1 => 1 \in tbl'[x] /\ st'[x][1].state \in Usable
  <1>1. /\ TypeInv /\ ChannelInv /\ FreshInv /\ Meeting /\ ~Broken /\ ~Broken' /\ \A a \in Peer : PeerStreams(a)
    <2>1. \A a \in Peer : a = x \/ a = y
      BY PeerFacts, SingleFacts
    <2>2. QED
      BY <2>1 DEF OnStream, StepOf, FullInv, Unfolding
  <1>2. /\ link /\ \A p \in Peer : sock[p] /\ established(p) /\ ~Severed(p)
        /\ \A p \in Peer : /\ gsid[p] \in {0, 1}
                           /\ gsid[p] = 1 => 1 \in tbl[p] /\ st[p][1].state \in Usable
                           /\ gsid[p] = 0 => 1 \notin tbl[p]
        /\ ~Met => \A p \in Peer : ~Joined(p, 1, 1) /\ st[p][1].did = 0
        /\ Met => \A p \in Peer : gsid[p] = 1 /\ Joined(p, 1, 1)
    BY <1>1, Standing
  <1>3. ASSUME gsid[x] = 0 PROVE pc[x][1] \in {"none", "crashed"} /\ st[x][1].state = "created" /\ ~Met
    <2>1. Running(x) => pc[x][1] = "none"
      BY <1>1, <1>3, SingleFacts DEF FreshInv
    <2>2. ~Running(x) => pc[x][1] = "crashed"
      BY <1>1, SingleFacts DEF ChannelInv, RefsInv
    <2>3. ~Met
      BY <1>2, <1>3
    <2>4. QED
      BY <1>1, <1>3, <2>1, <2>2, <2>3 DEF Meeting
  <1>4. ASSUME ~Met PROVE Untouched(x) /\ st[x][1].state # "established"
    <2>1. Untouched(x)
      BY <1>1, <1>4 DEF Meeting, Met
    <2>2. gsid[x] = 1 => Writer(x, 1) /\ 1 \in tbl[x]
      BY <1>1, <1>2, SingleFacts DEF PeerStreams
    <2>3. QED
      BY <1>2, <1>3, <1>4, <2>1, <2>2 DEF Writer
  <1>5. gsid'[x] >= 1 => 1 \in tbl'[x] /\ st'[x][1].state \in Usable
    BY <1>1 DEF Broken, Gone
  <1>6. QED
    BY <1>2, <1>3, <1>4, <1>5, SingleFacts

LEMMA GrantsKept ==
  ASSUME Single, NEW x \in Peer, OnStream(x), NEW y \in Peer, y = Other(x),
         x = Server /\ pc'[x][0] \in {"acquire", "send"} /\ cur'[x].status = "ok" => cur'[x].rwnd = QueueSize,
         net'[y] = net[y], NEW k, Dropped(net[x], net'[x], k)
  PROVE  Grants'
  <1>1. Grants /\ SamePeer(y)
    BY DEF OnStream, Unfolding, StepOf
  <1>2. \A i \in 1..Len(net'[x]) : i + k \in 1..Len(net[x]) /\ net'[x][i] = net[x][i + k]
    BY DEF Dropped
  <1>3. (x = Client /\ y = Server) \/ (x = Server /\ y = Client)
    BY Stands
  <1>4. pc'[Server][0] \in {"acquire", "send"} /\ cur'[Server].status = "ok" => cur'[Server].rwnd = QueueSize
    BY <1>1, <1>3 DEF Grants, SamePeer
  <1>5. \A i \in 1..Len(net'[Client]) :
          net'[Client][i].code = "response" /\ net'[Client][i].info = "ok" => net'[Client][i].rwnd = QueueSize
    BY <1>1, <1>2, <1>3 DEF Grants
  <1>6. \A i \in 1..Len(net'[Server]) : net'[Server][i].code = "request" => net'[Server][i].rwnd = QueueSize
    BY <1>1, <1>2, <1>3 DEF Grants
  <1>7. QED
    BY <1>4, <1>5, <1>6 DEF Grants

LEMMA GrantsSent ==
  ASSUME Single, NEW x \in Peer, OnStream(x), NEW y \in Peer, y = Other(x),
         x = Server /\ pc'[x][0] \in {"acquire", "send"} /\ cur'[x].status = "ok" => cur'[x].rwnd = QueueSize,
         NEW f, Sent1(x, f),
         x = Server /\ f.code = "response" /\ f.info = "ok" => f.rwnd = QueueSize,
         x = Client /\ f.code = "request" => f.rwnd = QueueSize
  PROVE  Grants'
  <1>1. Grants /\ SamePeer(y)
    BY DEF OnStream, Unfolding, StepOf
  <1>2. net'[x] = net[x] /\ net'[y] = Append(net[y], f) /\ net[y] \in Seq(GoodFrames)
    BY At DEF OnStream, Sent1
  <1>3. \A i \in 1..Len(net'[y]) : (i \in 1..Len(net[y]) /\ net'[y][i] = net[y][i]) \/ net'[y][i] = f
    BY <1>2
  <1>4. (x = Client /\ y = Server) \/ (x = Server /\ y = Client)
    BY Stands
  <1>5. pc'[Server][0] \in {"acquire", "send"} /\ cur'[Server].status = "ok" => cur'[Server].rwnd = QueueSize
    BY <1>1, <1>4 DEF Grants, SamePeer
  <1>6. QED
    BY <1>1, <1>2, <1>3, <1>4, <1>5 DEF Grants

LEMMA UnfoldKept ==
  ASSUME Single, NEW x \in Peer, OnStream(x), gsid'[x] = gsid[x], x = Client => cur'[x].obj = cur[x].obj,
         ~Met => Untouched(x)',
         st'[x][1].did # 0 \/ st'[x][1].did = st[x][1].did,
         gsid[x] = 0 => st'[x][1].state = "created",
         op'[x][1] = "data" /\ pc'[x][1] \in {"acquire", "send", "payload"} => nwr'[x][1] < MaxWrites[x],
         x = Server => Accepting', x = Client => Opening', Grants'
  PROVE  Unfolding'
  <1>1. PICK y \in Peer : y = Other(x)
    BY PeerFacts
  <1>2. /\ SamePeer(y) /\ nwr'[y] = nwr[y] /\ nrd'[y] = nrd[y] /\ Meeting /\ Quota /\ Accepting /\ Opening
    BY <1>1 DEF OnStream, StepOf, Unfolding
  <1>3. ((x = Client /\ y = Server) \/ (x = Server /\ y = Client)) /\ \A a \in Peer : a = x \/ a = y
    BY <1>1, Stands, SingleFacts
  <1>4. Met' <=> Met
    BY <1>2, <1>3 DEF Met, SamePeer
  <1>5. (\A a \in Peer : gsid'[a] = gsid[a]) /\ cur'[Client].obj = cur[Client].obj
    BY <1>2, <1>3 DEF SamePeer
  <1>6. Untouched(y) => Untouched(y)'
    BY <1>2 DEF Untouched, SamePeer
  <1>7. Meeting'
    <2>1. ~Met => \A a \in Peer : Untouched(a)'
      BY <1>2, <1>3, <1>6 DEF Meeting, Met
    <2>2. gsid'[Server] # 0 => st'[Server][1].did # 0
      BY <1>2, <1>3, <1>5 DEF Meeting, SamePeer
    <2>3. \A a \in Peer : gsid'[a] = 0 => st'[a][1].state = "created"
      BY <1>2, <1>3, <1>5 DEF Meeting, SamePeer
    <2>4. Client \in Peer /\ Server \in Peer
      BY SingleFacts
    <2>5. QED
      BY <1>2, <1>5, <2>1, <2>2, <2>3, <2>4 DEF Meeting, Met
  <1>8. Quota'
    BY <1>2, <1>3 DEF Quota, SamePeer
  <1>9. Accepting'
    BY <1>2, <1>3 DEF Accepting, SamePeer
  <1>10. Opening'
    BY <1>2, <1>3 DEF Opening, SamePeer
  <1>11. QED
    BY <1>7, <1>8, <1>9, <1>10 DEF Unfolding

\* What a step must be: the invariant is kept, and each direction makes a step.
Flowing(x) == Unfolding' /\ WriterTurn(x) /\ ReaderTurn(x)

\* Nothing but threads move.
LEMMA IdleFlows ==
  ASSUME Single, NEW x \in Peer, OnStream(x), gsid'[x] = gsid[x], x = Client => cur'[x].obj = cur[x].obj,
         st'[x] = st[x], nwr'[x] = nwr[x], nrd'[x] = nrd[x],
         pc'[x][1] = "sent" <=> pc[x][1] = "sent", Owes(x, 1)' = Owes(x, 1), op'[x][1] = "ack" => op[x][1] = "ack",
         op'[x][1] = "data" /\ pc'[x][1] \in {"acquire", "send", "payload"} => nwr'[x][1] < MaxWrites[x],
         x = Server => Accepting', x = Client => Opening', Grants',
         AcksFor(net[x], 1)' = AcksFor(net[x], 1), AcksFor(net[Other(x)], 1)' = AcksFor(net[Other(x)], 1)
  PROVE  Flowing(x)
  <1>1. PICK y \in Peer : y = Other(x)
    BY PeerFacts
  <1>2. ~Met => Untouched(x)
    BY <1>1, Stands
  <1>3. ~Met => Untouched(x)'
    BY <1>2 DEF Untouched
  <1>4. gsid[x] = 0 => st'[x][1].state = "created"
    BY <1>1, Stands
  <1>5. Unfolding'
    BY <1>3, <1>4, UnfoldKept
  <1>6. Allowance(x)' = Allowance(x)
    BY DEF Allowance
  <1>7. QED
    BY <1>5, <1>6 DEF Flowing, WriterTurn, ReaderTurn, WriterStays, ReaderStays

LEMMA MoveFlows ==
  ASSUME Single, NEW x \in Peer, OnStream(x), NEW t \in Thread, OnlyThread(x, t), DoesMove(x, t)
  PROVE  Flowing(x)
  <1>1. PICK y \in Peer : y = Other(x)
    BY PeerFacts
  <1>2. /\ st'[x] = st[x] /\ nwr'[x] = nwr[x] /\ nrd'[x] = nrd[x] /\ net' = net /\ gsid' = gsid /\ cur' = cur
        /\ \A u \in Thread : u # t => pc'[x][u] = pc[x][u] /\ op'[x][u] = op[x][u]
    BY DEF DoesMove, Idle, OnlyThread
  <1>3. /\ 1 \in Thread /\ 0 \in Thread /\ (t = 0 \/ t = 1) /\ established(x) /\ ~Severed(x)
        /\ ((x = Client /\ y = Server) \/ (x = Server /\ y = Client))
    BY <1>1, Stands
  <1>4. /\ Role(0, pc[x][0], op[x][0]) /\ Role(1, pc[x][1], op[x][1]) /\ op[x][1] \in Ops /\ StepOf(x)
    BY <1>3, At DEF OnStream
  <1>5. Meeting /\ Quota /\ Accepting /\ Opening /\ Grants /\ net[x] \in Seq(GoodFrames)
    BY <1>4, At DEF OnStream, Unfolding
  <1>6. PICK k : k = 0 /\ Dropped(net[x], net'[x], k)
    <2>1. Dropped(net[x], net[x], 0)
      BY <1>5, LenProperties DEF Dropped
    <2>2. QED
      BY <1>2, <2>1
  <1>7. CASE t = 0
    <2>1. pc'[x][1] = pc[x][1] /\ op'[x][1] = op[x][1]
      BY <1>2, <1>3, <1>7
    <2>2. /\ pc[x][0] \in Serving => pc'[x][0] \in Serving
          /\ pc'[x][0] \in {"acquire", "send"} => pc[x][0] \in {"acquire", "send"}
          /\ pc'[x][0] \in {"start", "started"} => pc[x][0] \in {"start", "started"}
      BY <1>3, <1>4, <1>7 DEF DoesMove, Moves1, Role, MessagesOf, ChannelPCs, Serving, Answering, After, Sending
    <2>3. x = Server => Accepting'
      BY <1>2, <1>5, <2>1, <2>2 DEF Accepting
    <2>4. x = Client => Opening'
      BY <1>2, <1>5, <2>1 DEF Opening
    <2>5. x = Server /\ pc'[x][0] \in {"acquire", "send"} /\ cur'[x].status = "ok" => cur'[x].rwnd = QueueSize
      BY <1>2, <1>5, <2>2 DEF Grants
    <2>6. Grants'
      BY <1>1, <1>2, <1>6, <2>5, GrantsKept
    <2>7. Owes(x, 1)' = Owes(x, 1)
      BY <2>1 DEF Owes
    <2>8. op'[x][1] = "data" /\ pc'[x][1] \in {"acquire", "send", "payload"} => nwr'[x][1] < MaxWrites[x]
      BY <1>2, <1>5, <2>1 DEF Quota
    <2>9. QED
      BY <1>2, <2>1, <2>3, <2>4, <2>6, <2>7, <2>8, IdleFlows
  <1>8. CASE t = 1
    <2>1. pc'[x][0] = pc[x][0] /\ op'[x][0] = op[x][0]
      BY <1>2, <1>3, <1>8
    <2>2. \/ pc'[x][1] = pc[x][1] /\ op'[x][1] = op[x][1]
          \/ pc[x][1] = "acquire" /\ pc'[x][1] = "send" /\ op'[x][1] = op[x][1]
          \/ /\ pc[x][1] \in {"acquire", "release"} /\ \E b \in BOOLEAN : pc'[x][1] = After(op[x][1], b)
             /\ op'[x][1] = "none" /\ (pc[x][1] = "acquire" => NotConnected(x, 1))
          \/ /\ pc[x][1] = "opening" /\ pc'[x][1] \in {"open", "fail"} /\ op'[x][1] = op[x][1]
             /\ pc'[x][1] = "open" => st[x][1].state = "established"
          \/ pc[x][1] = "read" /\ pc'[x][1] = "open" /\ op'[x][1] = op[x][1]
      BY <1>3, <1>8 DEF DoesMove, Moves1
    <2>4. \A b \in BOOLEAN : /\ After(op[x][1], b) \in {"opening", "fail", "erase", "setstate", "open"}
                             /\ op[x][1] = "request" => After(op[x][1], b) \in {"opening", "fail"}
      BY DEF After
    <2>5. pc[x][1] = "acquire" /\ NotConnected(x, 1) => op[x][1] = "data"
      BY <1>3 DEF NotConnected
    <2>6. (pc'[x][1] = "sent" <=> pc[x][1] = "sent") /\ (op'[x][1] = "ack" => op[x][1] = "ack")
      BY <2>2, <2>4
    <2>7. Owes(x, 1)' = Owes(x, 1)
      BY <2>2, <2>4, <2>5 DEF Owes, One
    <2>8. x = Server => Accepting'
      BY <1>2, <1>5, <2>1, <2>6 DEF Accepting
    <2>9. x = Client => Opening'
      BY <1>2, <1>5, <2>2, <2>4 DEF Opening
    <2>10. Grants'
      BY <1>1, <1>2, <1>5, <1>6, <2>1, GrantsKept DEF Grants
    <2>11. op'[x][1] = "data" /\ pc'[x][1] \in {"acquire", "send", "payload"} => nwr'[x][1] < MaxWrites[x]
      BY <1>2, <1>5, <2>2, <2>4 DEF Quota
    <2>12. QED
      BY <1>2, <2>6, <2>7, <2>8, <2>9, <2>10, <2>11, IdleFlows
  <1>9. QED
    BY <1>3, <1>7, <1>8

LEMMA CallFlows ==
  ASSUME Single, NEW x \in Peer, OnStream(x), NEW t \in Thread, DoesCall(x, t)
  PROVE  Flowing(x)
  <1>1. PICK y \in Peer : y = Other(x)
    BY PeerFacts
  <1>2. /\ st'[x] = st[x] /\ nwr'[x] = nwr[x] /\ nrd'[x] = nrd[x] /\ net' = net /\ gsid' = gsid /\ cur' = cur
        /\ \A u \in Thread : u # t => pc'[x][u] = pc[x][u] /\ op'[x][u] = op[x][u]
    BY DEF DoesCall, Idle, OnlyThread
  <1>3. /\ 1 \in Thread /\ 0 \in Thread /\ (t = 0 \/ t = 1) /\ net[x] \in Seq(GoodFrames)
    BY <1>1, Stands, At DEF OnStream
  <1>4. Meeting /\ Quota /\ Accepting /\ Opening /\ Grants
    BY DEF OnStream, Unfolding
  <1>5. PICK k : k = 0 /\ Dropped(net[x], net'[x], k)
    <2>1. Dropped(net[x], net[x], 0)
      BY <1>3, LenProperties DEF Dropped
    <2>2. QED
      BY <1>2, <2>1
  <1>6. CASE t = 0
    <2>1. pc'[x][1] = pc[x][1] /\ op'[x][1] = op[x][1]
      BY <1>2, <1>3, <1>6
    <2>2. \/ pc'[x][0] = pc[x][0]
          \/ /\ pc[x][0] \in {"recv", "shut", "setstate"} /\ (pc[x][0] = "setstate" => cur[x].obj = 0)
             /\ pc'[x][0] \in {"recv", "shut", "done"}
      BY <1>6 DEF DoesCall, Moves1
    <2>3. x = Server => Accepting'
      <3>1. x = Server /\ st[x][1].state = "opening" => pc'[x][0] = pc[x][0]
        BY <1>4, <2>2 DEF Accepting, Serving, Answering
      <3>2. pc'[x][0] \in {"start", "started"} => pc'[x][0] = pc[x][0]
        BY <2>2
      <3>3. QED
        BY <1>2, <1>4, <2>1, <3>1, <3>2 DEF Accepting
    <2>4. x = Client => Opening'
      BY <1>2, <1>4, <2>1 DEF Opening
    <2>5. Grants'
      BY <1>1, <1>2, <1>4, <1>5, <2>2, GrantsKept DEF Grants
    <2>6. Owes(x, 1)' = Owes(x, 1)
      BY <2>1 DEF Owes
    <2>7. op'[x][1] = "data" /\ pc'[x][1] \in {"acquire", "send", "payload"} => nwr'[x][1] < MaxWrites[x]
      BY <1>2, <1>4, <2>1 DEF Quota
    <2>8. QED
      BY <1>2, <2>1, <2>3, <2>4, <2>5, <2>6, <2>7, IdleFlows
  <1>7. CASE t = 1
    <2>1. pc'[x][0] = pc[x][0]
      BY <1>2, <1>3, <1>7
    <2>2. \/ pc'[x][1] = pc[x][1] /\ op'[x][1] = op[x][1]
          \/ /\ pc[x][1] = "open"
             /\ \/ pc'[x][1] = "acquire" /\ op'[x][1] = "data" /\ nwr[x][1] < MaxWrites[x]
                \/ pc'[x][1] = "acquire" /\ op'[x][1] = "close"
                \/ pc'[x][1] = "read" /\ op'[x][1] = op[x][1]
      BY <1>7 DEF DoesCall, Moves1
    <2>3. (pc'[x][1] = "sent" <=> pc[x][1] = "sent") /\ (op'[x][1] = "ack" => op[x][1] = "ack")
      BY <2>2
    <2>4. Owes(x, 1)' = Owes(x, 1)
      BY <2>2 DEF Owes, One
    <2>5. x = Server => Accepting'
      BY <1>2, <1>4, <2>1, <2>3 DEF Accepting
    <2>6. x = Client => Opening'
      BY <1>2, <1>4, <2>2 DEF Opening
    <2>7. Grants'
      BY <1>1, <1>2, <1>4, <1>5, <2>1, GrantsKept DEF Grants
    <2>8. op'[x][1] = "data" /\ pc'[x][1] \in {"acquire", "send", "payload"} => nwr'[x][1] < MaxWrites[x]
      BY <1>2, <1>4, <2>2 DEF Quota
    <2>9. QED
      BY <1>2, <2>3, <2>4, <2>5, <2>6, <2>7, <2>8, IdleFlows
  <1>8. QED
    BY <1>3, <1>6, <1>7

LEMMA SendFlows ==
  ASSUME Single, NEW x \in Peer, OnStream(x), NEW t \in Thread, OnlyThread(x, t), DoesSend(x, t)
  PROVE  Flowing(x)
  <1>1. PICK y \in Peer : y = Other(x)
    BY PeerFacts
  <1>2. /\ st'[x] = st[x] /\ nwr'[x] = nwr[x] /\ nrd'[x] = nrd[x] /\ gsid' = gsid /\ cur' = cur
        /\ \A u \in Thread : u # t => pc'[x][u] = pc[x][u] /\ op'[x][u] = op[x][u]
        /\ pc[x][t] = "send" /\ pc'[x][t] = NextPc(x, t) /\ op'[x][t] = op[x][t]
    BY DEF DoesSend, Idle, OnlyThread, Moves1
  <1>3. /\ 1 \in Thread /\ 0 \in Thread /\ (t = 0 \/ t = 1) /\ 1 \in Sid /\ Other(y) = x
        /\ ((x = Client /\ y = Server) \/ (x = Server /\ y = Client))
    BY <1>1, Stands
  <1>4. /\ StepOf(x) /\ op[x][t] \in Ops /\ op[x][t] \in MessagesOf(t) /\ net[y] \in Seq(GoodFrames)
        /\ t = 0 => op[x][t] = "response"
        /\ t = 1 => op[x][t] \in {"request", "data", "ack", "close"}
    <2>1. StepOf(x) /\ op[x][t] \in Ops /\ Role(t, pc[x][t], op[x][t]) /\ net[y] \in Seq(GoodFrames)
      BY <1>1, At DEF OnStream
    <2>2. QED
      BY <1>2, <2>1 DEF Role, MessagesOf, Sending
  <1>5. Meeting /\ Quota /\ Accepting /\ Opening /\ Grants
    BY DEF OnStream, Unfolding
  <1>6. PICK f \in FirstFrames(x, t) : Sent1(x, f)
    BY DEF DoesSend
  <1>7. /\ f.code = op[x][t]
        /\ op[x][t] = "request" => f.sid = t /\ f.did = 0
        /\ op[x][t] = "response" => f.sid = cur[x].sid /\ f.did = cur[x].did
        /\ op[x][t] \notin {"request", "response"} => f.sid = t /\ f.did = st[x][t].did
    BY <1>4, FirstFrameStreams
  <1>8. f \in GoodFrames
    BY <1>2, <1>4, At, FirstFrameTypes
  <1>9. net'[x] = net[x] /\ net'[y] = Append(net[y], f)
    BY <1>1, <1>6 DEF Sent1
  <1>10. /\ f.code = "ack" /\ f.did = 1 => AcksFor(net'[y], 1) = AcksFor(net[y], 1) + 1
         /\ ~(f.code = "ack" /\ f.did = 1) => AcksFor(net'[y], 1) = AcksFor(net[y], 1)
    <2>1. PICK one : one = 1
      OBVIOUS
    <2>2. /\ f.code = "ack" /\ f.did = one => AcksFor(net'[y], one) = AcksFor(net[y], one) + 1
          /\ ~(f.code = "ack" /\ f.did = one) => AcksFor(net'[y], one) = AcksFor(net[y], one)
      BY <1>4, <1>8, <1>9, AcksAppend
    <2>3. QED
      BY <2>1, <2>2
  <1>11. CASE t = 0
    <2>1. pc'[x][1] = pc[x][1] /\ op'[x][1] = op[x][1] /\ f.code = "response" /\ pc'[x][0] = "release"
      BY <1>2, <1>3, <1>4, <1>7, <1>11 DEF NextPc
    <2>2. f.rwnd = cur[x].rwnd /\ f.info = cur[x].status
      <3>1. f = Frame("response", cur[x].sid, cur[x].did, cur[x].rwnd, cur[x].status, 0)
        BY <1>4, <1>11 DEF FirstFrames
      <3>2. QED
        BY <3>1 DEF Frame
    <2>3. x = Server /\ f.code = "response" /\ f.info = "ok" => f.rwnd = QueueSize
      BY <1>2, <1>5, <1>11, <2>2 DEF Grants
    <2>4. Grants'
      BY <1>1, <1>6, <2>1, <2>3, GrantsSent
    <2>5. x = Server => Accepting'
      BY <1>2, <1>5, <2>1 DEF Accepting, Serving, Answering
    <2>6. x = Client => Opening'
      BY <1>2, <1>5, <2>1 DEF Opening
    <2>7. Owes(x, 1)' = Owes(x, 1)
      BY <2>1 DEF Owes
    <2>8. op'[x][1] = "data" /\ pc'[x][1] \in {"acquire", "send", "payload"} => nwr'[x][1] < MaxWrites[x]
      BY <1>2, <1>5, <2>1 DEF Quota
    <2>9. AcksFor(net[x], 1)' = AcksFor(net[x], 1) /\ AcksFor(net[Other(x)], 1)' = AcksFor(net[Other(x)], 1)
      BY <1>1, <1>9, <1>10, <2>1
    <2>10. QED
      BY <1>2, <2>1, <2>4, <2>5, <2>6, <2>7, <2>8, <2>9, IdleFlows
  <1>12. CASE t = 1
    <2>1. /\ pc'[x][0] = pc[x][0] /\ pc[x][1] = "send" /\ op'[x][1] = op[x][1]
          /\ pc'[x][1] \in {"payload", "release"} /\ (pc'[x][1] = "payload" <=> op[x][1] = "data")
      BY <1>2, <1>3, <1>12 DEF NextPc
    <2>2. f.code = "request" => f.rwnd = QueueSize
      <3>1. SUFFICES ASSUME f.code = "request" PROVE f.rwnd = QueueSize
        OBVIOUS
      <3>2. f.rwnd = srwnd(x, 1)
        <4>1. PICK target \in Targets : f = Frame("request", t, 0, srwnd(x, t), target, 0)
          BY <1>7, <3>1 DEF FirstFrames
        <4>2. QED
          BY <1>12, <4>1 DEF Frame
      <3>3. st[x][1].rxq = << >>
        <4>1. Asking(x, 1)
          BY <1>7, <1>12, <2>1, <3>1 DEF Asking
        <4>2. QED
          BY <1>3, <1>4, <4>1 DEF StepOf, PeerStreams, Request, Fresh, Asker
      <3>4. QED
        BY <3>2, <3>3, BoundsAssumption DEF srwnd
    <2>3. f.code # "response"
      BY <1>4, <1>7, <1>12
    <2>4. Grants'
      BY <1>1, <1>2, <1>5, <1>6, <2>1, <2>2, <2>3, GrantsSent DEF Grants
    <2>5. x = Server => Accepting'
      BY <1>2, <1>5, <2>1 DEF Accepting
    <2>6. x = Client => Opening'
      BY <1>2, <1>5, <2>1 DEF Opening
    <2>7. op'[x][1] = "data" /\ pc'[x][1] \in {"acquire", "send", "payload"} => nwr'[x][1] < MaxWrites[x]
      BY <1>2, <1>5, <2>1 DEF Quota
    <2>8. CASE op[x][1] # "ack"
      <3>1. AcksFor(net[x], 1)' = AcksFor(net[x], 1) /\ AcksFor(net[Other(x)], 1)' = AcksFor(net[Other(x)], 1)
        BY <1>1, <1>7, <1>9, <1>10, <1>12, <2>8
      <3>2. Owes(x, 1)' = Owes(x, 1)
        BY <2>1, <2>8 DEF Owes, One
      <3>3. QED
        BY <1>2, <2>1, <2>4, <2>5, <2>6, <2>7, <3>1, <3>2, IdleFlows
    <2>9. CASE op[x][1] = "ack"
      <3>1. Met /\ gsid[x] = 1 /\ 1 \in tbl[x] /\ st[x][1].state \in Usable
        <4>1. ~Met => Untouched(x)
          BY <1>1, Stands
        <4>2. Met
          BY <2>9, <4>1 DEF Untouched
        <4>3. QED
          BY <1>1, <4>2, Stands
      <3>2. st[x][1].did = 1
        <4>1. x = Client => st[x][1].state = "established"
          BY <2>9, <3>1, <1>5 DEF Opening, Usable
        <4>2. Writer(x, 1)
          BY <1>3, <1>4 DEF StepOf, PeerStreams
        <4>3. st[x][1].did # 0
          BY <1>3, <1>5, <3>1, <4>1, <4>2 DEF Meeting, Met, Writer
        <4>4. st[x][1].did \in Thread
          BY <1>3, <1>4, At
        <4>5. QED
          BY <1>1, <4>3, <4>4, Stands
      <3>3. AcksFor(net'[y], 1) = AcksFor(net[y], 1) + 1
        BY <1>7, <1>10, <1>12, <2>9, <3>2
      <3>4. Owes(x, 1) = 1 /\ Owes(x, 1)' = 0
        BY <2>1, <2>9 DEF Owes, One
      <3>5. ReaderTurn(x)
        BY <1>1, <1>2, <3>3, <3>4 DEF ReaderTurn, ReaderAcks
      <3>6. WriterTurn(x)
        BY <1>2, <1>9, <2>1 DEF WriterTurn, WriterStays, Allowance
      <3>7. Unfolding'
        BY <1>2, <2>4, <2>5, <2>6, <2>7, <3>1, UnfoldKept
      <3>8. QED
        BY <3>5, <3>6, <3>7 DEF Flowing
    <2>10. QED
      BY <2>8, <2>9
  <1>13. QED
    BY <1>3, <1>11, <1>12

LEMMA PayFlows ==
  ASSUME Single, NEW x \in Peer, OnStream(x), NEW t \in Thread, OnlyThread(x, t), DoesPay(x, t)
  PROVE  Flowing(x)
  <1>1. PICK y \in Peer : y = Other(x)
    BY PeerFacts
  <1>2. t = 1 /\ 1 \in Thread /\ 0 \in Thread /\ 1 \in Sid /\ ~Severed(x)
    BY <1>1, Stands DEF DoesPay
  <1>3. /\ st'[x] = st[x] /\ nwr'[x][1] = nwr[x][1] + 1 /\ nrd'[x] = nrd[x] /\ gsid' = gsid /\ cur' = cur
        /\ pc'[x][0] = pc[x][0] /\ pc[x][1] = "payload" /\ pc'[x][1] = "sent" /\ op'[x][1] = op[x][1]
    <2>1. /\ st'[x] = st[x] /\ nwr'[x][t] = nwr[x][t] + 1 /\ nrd'[x] = nrd[x] /\ gsid' = gsid /\ cur' = cur
          /\ (\A u \in Thread : u # t => pc'[x][u] = pc[x][u])
          /\ pc[x][t] = "payload" /\ pc'[x][t] = "sent" /\ op'[x][t] = op[x][t]
      BY DEF DoesPay, OnlyThread, Moves1
    <2>2. QED
      BY <1>2, <2>1
  <1>4. PICK f : f = Frame("payload", 0, 0, 0, "", nwr[x][1] + 1) /\ Sent1(x, f)
    BY <1>2 DEF DoesPay
  <1>5. /\ f.code = "payload" /\ net'[x] = net[x] /\ net'[y] = Append(net[y], f)
    BY <1>1, <1>4 DEF Sent1, Frame
  <1>6. /\ StepOf(x) /\ op[x][1] = "data" /\ net[y] \in Seq(GoodFrames) /\ f \in GoodFrames
    <2>1. StepOf(x) /\ Role(1, pc[x][1], op[x][1]) /\ net[y] \in Seq(GoodFrames) /\ net'[y] \in Seq(GoodFrames)
      BY <1>1, <1>2, At DEF OnStream
    <2>2. f \in GoodFrames
      BY <1>5, <2>1
    <2>3. QED
      BY <1>3, <2>1, <2>2 DEF Role
  <1>7. Meeting /\ Quota /\ Accepting /\ Opening /\ Grants
    BY DEF OnStream, Unfolding
  <1>8. Met /\ gsid[x] = 1 /\ st[x][1].state = "established" /\ st[x][1].rwnd > 0
    <2>1. Writing(x, 1) /\ Writer(x, 1)
      BY <1>2, <1>3, <1>6 DEF Writing, StepOf, PeerStreams
    <2>2. st[x][1].state # "opening" /\ st[x][1].did # 0 /\ st[x][1].rwnd > 0
      BY <1>3, <2>1 DEF Writer
    <2>3. Met /\ gsid[x] = 1 /\ st[x][1].state \in Usable
      BY <1>1, <2>2, Stands
    <2>4. QED
      BY <2>2, <2>3 DEF Usable
  <1>9. AcksFor(net'[y], 1) = AcksFor(net[y], 1)
    <2>1. PICK one : one = 1
      OBVIOUS
    <2>2. AcksFor(net'[y], one) = AcksFor(net[y], one)
      BY <1>5, <1>6, AcksAppend
    <2>3. QED
      BY <2>1, <2>2
  <1>10. Grants'
    BY <1>1, <1>3, <1>4, <1>5, <1>7, GrantsSent DEF Grants
  <1>11. x = Server => Accepting'
    BY <1>3, <1>7 DEF Accepting
  <1>12. x = Client => Opening'
    BY <1>3, <1>8 DEF Opening
  <1>13. Unfolding'
    BY <1>3, <1>8, <1>10, <1>11, <1>12, UnfoldKept
  <1>14. Owes(x, 1)' = Owes(x, 1)
    BY <1>3 DEF Owes, One
  <1>15. ReaderTurn(x)
    BY <1>1, <1>3, <1>9, <1>14 DEF ReaderTurn, ReaderStays
  <1>16. nwr[x][1] < MaxWrites[x]
    BY <1>3, <1>6, <1>7 DEF Quota
  <1>17. WriterTurn(x)
    BY <1>3, <1>5, <1>8, <1>16 DEF WriterTurn, WriterSends, Allowance
  <1>18. QED
    BY <1>13, <1>15, <1>17 DEF Flowing

LEMMA CountFlows ==
  ASSUME Single, NEW x \in Peer, OnStream(x), NEW t \in Thread, OnlyThread(x, t), DoesCount(x, t)
  PROVE  Flowing(x)
  <1>1. PICK y \in Peer : y = Other(x)
    BY PeerFacts
  <1>2. StepOf(x) /\ 1 \in Thread /\ 0 \in Thread /\ 1 \in Sid /\ (t = 0 \/ t = 1)
    BY <1>1, Stands DEF OnStream
  <1>3. t = 1 /\ op[x][1] = "data"
    <2>1. Role(t, pc[x][t], op[x][t]) /\ pc[x][t] = "sent"
      BY <1>2, At DEF DoesCount
    <2>2. QED
      BY <1>2, <2>1 DEF Role, ChannelPCs
  <1>4. /\ nwr'[x] = nwr[x] /\ nrd'[x] = nrd[x] /\ gsid' = gsid /\ cur' = cur /\ net' = net
        /\ pc'[x][0] = pc[x][0] /\ pc[x][1] = "sent" /\ pc'[x][1] = "release" /\ op'[x][1] = op[x][1]
        /\ st'[x][1] = [st[x][1] EXCEPT !.rwnd = @ - 1]
    BY <1>2, <1>3 DEF DoesCount, OnlyThread, Moves1
  <1>5. /\ st'[x][1].state = st[x][1].state /\ st'[x][1].did = st[x][1].did /\ st'[x][1].rxq = st[x][1].rxq
        /\ st'[x][1].rwnd = st[x][1].rwnd - 1
    <2>1. PICK s : s = st[x][1]
      OBVIOUS
    <2>2. s \in Streams /\ st'[x][1] = [s EXCEPT !.rwnd = s.rwnd - 1]
      BY <1>2, <1>4, <2>1, At
    <2>3. QED
      BY <2>1, <2>2, Fields
  <1>6. Meeting /\ Quota /\ Accepting /\ Opening /\ Grants /\ net[x] \in Seq(GoodFrames)
    BY <1>2, At DEF OnStream, Unfolding
  <1>7. Met /\ gsid[x] = 1 /\ st[x][1].state = "established"
    <2>1. Writing(x, 1) /\ Writer(x, 1)
      BY <1>2, <1>3, <1>4 DEF Writing, StepOf, PeerStreams
    <2>2. st[x][1].state # "opening" /\ st[x][1].did # 0
      BY <2>1 DEF Writer
    <2>3. Met /\ gsid[x] = 1 /\ st[x][1].state \in Usable
      BY <1>1, <2>2, Stands
    <2>4. QED
      BY <2>2, <2>3 DEF Usable
  <1>8. Grants'
    <2>1. Dropped(net[x], net[x], 0)
      BY <1>6, LenProperties DEF Dropped
    <2>2. PICK k : Dropped(net[x], net'[x], k)
      BY <1>4, <2>1
    <2>3. QED
      BY <1>1, <1>4, <1>6, <2>2, GrantsKept DEF Grants
  <1>9. x = Server => Accepting'
    BY <1>4, <1>5, <1>6, <1>7 DEF Accepting
  <1>10. x = Client => Opening'
    BY <1>5, <1>7 DEF Opening
  <1>11. Unfolding'
    BY <1>4, <1>5, <1>7, <1>8, <1>9, <1>10, UnfoldKept
  <1>12. Owes(x, 1)' = Owes(x, 1)
    BY <1>3, <1>4 DEF Owes, One
  <1>13. ReaderTurn(x)
    BY <1>4, <1>5, <1>12 DEF ReaderTurn, ReaderStays
  <1>14. WriterTurn(x)
    BY <1>4, <1>5, <1>7 DEF WriterTurn, WriterCounts, Allowance
  <1>15. QED
    BY <1>11, <1>13, <1>14 DEF Flowing

\* An end that is freed breaks the stream.
LEMMA EraseBreaks ==
  ASSUME Single, NEW x \in Peer, OnStream(x), NEW t \in Thread, OnlyThread(x, t), DoesErase(x, t)
  PROVE  FALSE
  <1>1. PICK y \in Peer : y = Other(x)
    BY PeerFacts
  <1>2. StepOf(x) /\ 1 \in Thread /\ 0 \in Thread /\ (t = 0 \/ t = 1)
    BY <1>1, Stands DEF OnStream
  <1>3. t = 1
    <2>1. Role(t, pc[x][t], op[x][t]) /\ pc[x][t] \in {"fail", "erase"}
      BY <1>2, At DEF DoesErase
    <2>2. QED
      BY <1>2, <2>1 DEF Role, ChannelPCs
  <1>4. gsid' = gsid /\ 1 \notin tbl'[x] /\ pc[x][1] \in {"fail", "erase"}
    BY <1>3 DEF DoesErase, OnlyThread
  <1>5. gsid[x] = 1
    BY <1>1, <1>4, Stands
  <1>6. QED
    BY <1>1, <1>4, <1>5, Stands

LEMMA ReadFlows ==
  ASSUME Single, NEW x \in Peer, OnStream(x), NEW t \in Thread, OnlyThread(x, t), DoesRead(x, t)
  PROVE  Flowing(x)
  <1>1. PICK y \in Peer : y = Other(x)
    BY PeerFacts
  <1>2. StepOf(x) /\ 1 \in Thread /\ 0 \in Thread /\ 1 \in Sid /\ t = 1 /\ established(x)
    BY <1>1, Stands DEF OnStream, DoesRead
  <1>3. /\ nwr'[x] = nwr[x] /\ nrd'[x][1] = nrd[x][1] + 1 /\ gsid' = gsid /\ cur' = cur /\ net' = net
        /\ pc'[x][0] = pc[x][0] /\ pc[x][1] = "read" /\ st[x][1].rxq # << >>
        /\ st'[x][1] = [st[x][1] EXCEPT !.rxq = Tail(@)]
        /\ st[x][1].state = "established" => pc'[x][1] = "acquire" /\ op'[x][1] = "ack"
    BY <1>2 DEF DoesRead, OnlyThread, Moves1
  <1>4. /\ st'[x][1].state = st[x][1].state /\ st'[x][1].did = st[x][1].did /\ st'[x][1].rwnd = st[x][1].rwnd
        /\ st'[x][1].rxq = Tail(st[x][1].rxq) /\ st[x][1].rxq \in Seq(Nat)
    <2>1. PICK s : s = st[x][1]
      OBVIOUS
    <2>2. s \in Streams /\ st'[x][1] = [s EXCEPT !.rxq = Tail(s.rxq)] /\ s.rxq \in Seq(Nat)
      BY <1>2, <1>3, <2>1, At
    <2>3. QED
      BY <2>1, <2>2, Fields
  <1>5. Meeting /\ Quota /\ Accepting /\ Opening /\ Grants /\ net[x] \in Seq(GoodFrames)
    BY <1>2, At DEF OnStream, Unfolding
  <1>6. Met /\ gsid[x] = 1 /\ st[x][1].state = "established"
    <2>1. Met
      BY <1>1, <1>3, Stands DEF Untouched
    <2>2. gsid[x] = 1 /\ st[x][1].state \in Usable /\ (x = Client \/ x = Server)
      BY <1>1, <2>1, Stands
    <2>3. st[x][1].state # "opening"
      BY <1>3, <1>5, <2>2 DEF Accepting, Opening
    <2>4. QED
      BY <2>1, <2>2, <2>3 DEF Usable
  <1>7. Len(st[x][1].rxq) = Len(st'[x][1].rxq) + 1
    <2>1. PICK e \in Seq(Nat) : e = st[x][1].rxq
      BY <1>4
    <2>2. Len(e) = Len(Tail(e)) + 1
      BY <1>3, <2>1, HeadTailProperties
    <2>3. QED
      BY <1>4, <2>1, <2>2
  <1>8. Grants'
    <2>1. Dropped(net[x], net[x], 0)
      BY <1>5, LenProperties DEF Dropped
    <2>2. PICK k : Dropped(net[x], net'[x], k)
      BY <1>3, <2>1
    <2>3. QED
      BY <1>1, <1>3, <1>5, <2>2, GrantsKept DEF Grants
  <1>9. x = Server => Accepting'
    <2>1. pc[x][0] \in {"start", "started"} /\ x = Server => FALSE
      BY <1>3, <1>5 DEF Accepting
    <2>2. QED
      BY <1>3, <1>4, <1>6, <2>1 DEF Accepting
  <1>10. x = Client => Opening'
    BY <1>4, <1>6 DEF Opening
  <1>11. Unfolding'
    BY <1>3, <1>4, <1>6, <1>8, <1>9, <1>10, UnfoldKept
  <1>12. Owes(x, 1) = 0 /\ Owes(x, 1)' = 1
    BY <1>3, <1>6 DEF Owes, One
  <1>13. ReaderTurn(x)
    BY <1>3, <1>7, <1>12 DEF ReaderTurn, ReaderReads
  <1>14. WriterTurn(x)
    BY <1>3, <1>4, <1>6 DEF WriterTurn, WriterStays, Allowance
  <1>15. QED
    BY <1>11, <1>13, <1>14 DEF Flowing

LEMMA StartFlows ==
  ASSUME Single, NEW x \in Peer, OnStream(x), DoesStart(x) \/ DoesAnswer(x)
  PROVE  Flowing(x)
  <1>1. PICK y \in Peer : y = Other(x)
    BY PeerFacts
  <1>2. /\ StepOf(x) /\ 1 \in Thread /\ 0 \in Thread /\ 1 \in Sid /\ (\A s \in Sid : s = 1)
        /\ ((x = Client /\ y = Server) \/ (x = Server /\ y = Client))
    BY <1>1, Stands DEF OnStream
  <1>3. Meeting /\ Quota /\ Accepting /\ Opening /\ Grants /\ net[x] \in Seq(GoodFrames)
    BY <1>2, At DEF OnStream, Unfolding
  <1>4. pc[x][0] \in {"start", "started"} /\ SameStreams(x) /\ UNCHANGED <<nwr, nrd, gsid, net>>
    BY DEF DoesStart, DoesAnswer, SameCounts
  <1>5. cur[x].obj = 1
    <2>1. ChannelInv
      BY <1>2, At
    <2>2. QED
      BY <1>2, <1>4, <2>1 DEF ChannelInv, AnswerInv
  <1>6. x = Server /\ st[x][1].rxq = << >>
    <2>1. x = Server
      BY <1>2, <1>3, <1>5 DEF Meeting
    <2>2. QED
      BY <1>3, <1>4, <2>1 DEF Accepting
  <1>7. PICK k : Dropped(net[x], net'[x], k)
    <2>1. Dropped(net[x], net[x], 0)
      BY <1>3, LenProperties DEF Dropped
    <2>2. QED
      BY <1>4, <2>1
  <1>8. CASE DoesStart(x)
    <2>1. /\ pc[x][0] = "start" /\ pc'[x][0] = "started" /\ pc'[x][1] \in {"read", "open"} /\ op'[x][1] = op[x][1]
          /\ cur' = cur
      BY <1>2, <1>5, <1>8 DEF DoesStart, SameOps
    <2>2. pc[x][1] = "none"
      <3>1. FreshInv /\ Running(x)
        BY <1>2, <2>1, At DEF Running
      <3>2. QED
        BY <1>5, <2>1, <3>1 DEF FreshInv
    <2>3. Accepting'
      BY <1>3, <1>4, <1>6, <2>1 DEF Accepting, SameStreams, Serving
    <2>4. Grants'
      BY <1>1, <1>4, <1>7, <2>1, GrantsKept
    <2>5. Owes(x, 1)' = Owes(x, 1) /\ (pc'[x][1] = "sent" <=> pc[x][1] = "sent")
      BY <2>1, <2>2 DEF Owes, One
    <2>6. op'[x][1] = "data" /\ pc'[x][1] \in {"acquire", "send", "payload"} => nwr'[x][1] < MaxWrites[x]
      BY <2>1
    <2>7. st'[x] = st[x] /\ nwr'[x] = nwr[x] /\ nrd'[x] = nrd[x] /\ gsid'[x] = gsid[x] /\ cur'[x].obj = cur[x].obj
      BY <1>4, <2>1 DEF SameStreams
    <2>8. AcksFor(net[x], 1)' = AcksFor(net[x], 1) /\ AcksFor(net[Other(x)], 1)' = AcksFor(net[Other(x)], 1)
      BY <1>4
    <2>9. x # Client
      BY <1>2, <1>6, SingleFacts
    <2>10. QED
      BY <2>1, <2>3, <2>4, <2>5, <2>6, <2>7, <2>8, <2>9, IdleFlows
  <1>9. CASE DoesAnswer(x)
    <2>1. pc'[x][0] = "acquire" /\ pc'[x][1] = pc[x][1] /\ op'[x][1] = op[x][1] /\ cur'[x].obj = cur[x].obj
      BY <1>2, <1>9 DEF DoesAnswer, Answers, ChannelMoves
    <2>2. cur'[x].status = "ok" => cur'[x].rwnd = QueueSize
      <3>1. srwnd(x, 1) = QueueSize
        BY <1>6, BoundsAssumption DEF srwnd
      <3>2. QED
        BY <1>5, <1>9, <3>1 DEF DoesAnswer
    <2>3. Accepting'
      BY <1>3, <1>4, <1>6, <2>1 DEF Accepting, SameStreams, Serving, Answering
    <2>4. Grants'
      BY <1>1, <1>4, <1>7, <2>2, GrantsKept
    <2>5. Owes(x, 1)' = Owes(x, 1)
      BY <2>1 DEF Owes
    <2>6. op'[x][1] = "data" /\ pc'[x][1] \in {"acquire", "send", "payload"} => nwr'[x][1] < MaxWrites[x]
      BY <1>3, <1>4, <2>1 DEF Quota
    <2>7. st'[x] = st[x] /\ nwr'[x] = nwr[x] /\ nrd'[x] = nrd[x] /\ gsid'[x] = gsid[x]
      BY <1>4 DEF SameStreams
    <2>8. AcksFor(net[x], 1)' = AcksFor(net[x], 1) /\ AcksFor(net[Other(x)], 1)' = AcksFor(net[Other(x)], 1)
      BY <1>4
    <2>9. x # Client
      BY <1>2, <1>6, SingleFacts
    <2>10. QED
      BY <2>1, <2>3, <2>4, <2>5, <2>6, <2>7, <2>8, <2>9, IdleFlows
  <1>10. QED
    BY <1>8, <1>9

LEMMA EstablishFlows ==
  ASSUME Single, NEW x \in Peer, OnStream(x), DoesEstablish(x)
  PROVE  Flowing(x)
  <1>1. PICK y \in Peer : y = Other(x)
    BY PeerFacts
  <1>2. /\ StepOf(x) /\ 1 \in Thread /\ 0 \in Thread /\ 1 \in Sid /\ (\A s \in Sid : s = 1)
        /\ ((x = Client /\ y = Server) \/ (x = Server /\ y = Client)) /\ Client # Server
    BY <1>1, Stands DEF OnStream
  <1>3. Meeting /\ Quota /\ Accepting /\ Grants /\ net[x] \in Seq(GoodFrames)
    BY <1>2, At DEF OnStream, Unfolding
  <1>4. /\ cur[x].obj = 1 /\ 1 \in tbl[x] /\ st'[x][1] = [st[x][1] EXCEPT !.state = "established"]
        /\ UNCHANGED <<nwr, nrd, gsid, net, cur>> /\ pc'[x][0] = "recv" /\ pc'[x][1] = pc[x][1] /\ op'[x][1] = op[x][1]
    BY <1>2 DEF DoesEstablish, OneStream, SameCounts, ChannelMoves, SameOps
  <1>5. x = Server /\ x # Client
    BY <1>2, <1>3, <1>4 DEF Meeting
  <1>6. /\ st'[x][1].state = "established" /\ st'[x][1].did = st[x][1].did /\ st'[x][1].rxq = st[x][1].rxq
        /\ st'[x][1].rwnd = st[x][1].rwnd
    <2>1. PICK s : s = st[x][1]
      OBVIOUS
    <2>2. s \in Streams /\ st'[x][1] = [s EXCEPT !.state = "established"]
      BY <1>2, <1>4, <2>1, At
    <2>3. QED
      BY <2>1, <2>2, Fields
  <1>7. gsid[x] = 1 /\ st[x][1].state \in Usable
    BY <1>1, <1>4, Stands
  <1>8. Allowance(x)' = Allowance(x)
    BY <1>3, <1>5, <1>6, <1>7 DEF Allowance, Accepting, Usable
  <1>9. Owes(x, 1)' = Owes(x, 1)
    BY <1>4 DEF Owes
  <1>10. Accepting'
    BY <1>4, <1>5, <1>6 DEF Accepting
  <1>11. Grants'
    <2>1. Dropped(net[x], net[x], 0)
      BY <1>3, LenProperties DEF Dropped
    <2>2. PICK k : Dropped(net[x], net'[x], k)
      BY <1>4, <2>1
    <2>3. QED
      BY <1>1, <1>4, <2>2, GrantsKept
  <1>12. op'[x][1] = "data" /\ pc'[x][1] \in {"acquire", "send", "payload"} => nwr'[x][1] < MaxWrites[x]
    BY <1>3, <1>4 DEF Quota
  <1>13. ~Met => Untouched(x)'
    <2>1. ~Met => Untouched(x)
      BY <1>1, Stands
    <2>2. QED
      BY <1>4, <1>6, <2>1 DEF Untouched
  <1>14. Unfolding'
    <2>1. gsid'[x] = gsid[x] /\ (gsid[x] = 0 => st'[x][1].state = "created")
      BY <1>4, <1>7
    <2>2. QED
      BY <1>5, <1>6, <1>10, <1>11, <1>12, <1>13, <2>1, UnfoldKept
  <1>15. WriterTurn(x) /\ ReaderTurn(x)
    BY <1>4, <1>6, <1>8, <1>9 DEF WriterTurn, WriterStays, ReaderTurn, ReaderStays
  <1>16. QED
    BY <1>14, <1>15 DEF Flowing

\* An accepted stream that is given up breaks it.
LEMMA DiscardBreaks ==
  ASSUME Single, NEW x \in Peer, OnStream(x), DoesDiscard(x)
  PROVE  FALSE
  <1>1. PICK y \in Peer : y = Other(x)
    BY PeerFacts
  <1>2. StepOf(x) /\ (\A s \in Sid : s = 1) /\ gsid[x] \in {0, 1}
    BY <1>1, Stands DEF OnStream
  <1>3. cur[x].obj = 1 /\ 1 \notin tbl'[x] /\ gsid' = gsid /\ pc[x][0] = "setstate"
    BY <1>2 DEF DoesDiscard, OneStream
  <1>4. gsid[x] = 1
    <2>1. ChannelInv
      BY <1>2, At
    <2>2. 1 <= gsid[x]
      BY <1>3, <2>1 DEF ChannelInv, AnswerInv, Serving, Answering
    <2>3. QED
      BY <1>2, <2>2
  <1>5. QED
    BY <1>1, <1>3, <1>4, Stands

\* A frame that arrives.
LEMMA Arrives ==
  ASSUME Single, NEW x \in Peer, OnStream(x), NEW y \in Peer, y = Other(x), NEW k, NEW code, Takes(x, k, code),
         NEW m, m = net[x][1]
  PROVE  /\ pc[x][0] = "recv" /\ Dropped(net[x], net'[x], k) /\ net'[y] = net[y]
         /\ x = Server => st[x][1].state # "opening"
         /\ m.did \in {0, 1} /\ (code \in {"data", "ack"} /\ m.did = 1 => Met)
         /\ code = "request" => x = Server /\ m.rwnd = QueueSize /\ m.sid = 1 /\ gsid[y] = 1
         /\ code = "response" /\ m.info = "ok" => m.sid # 0 /\ (x = Client => m.rwnd = QueueSize)
         /\ code = "data" => m.did = 1
         /\ AcksFor(net[Other(x)], 1)' = AcksFor(net[Other(x)], 1)
         /\ k = 1 /\ (code # "ack" \/ m.did # 1) => AcksFor(net[x], 1)' = AcksFor(net[x], 1)
         /\ k = 1 /\ code = "ack" /\ m.did = 1 => AcksFor(net[x], 1) = AcksFor(net[x], 1)' + 1
         /\ k = 2 /\ code = "data" /\ net[x][2].code = "payload" => AcksFor(net[x], 1)' = AcksFor(net[x], 1)
  <1>1. /\ StepOf(x) /\ 1 \in Sid /\ (\A t \in Thread : t = 0 \/ t = 1) /\ Other(y) = x /\ gsid[x] \in {0, 1}
        /\ ((x = Client /\ y = Server) \/ (x = Server /\ y = Client)) /\ (Met => Joined(x, 1, 1)) /\ (~Met => ~Joined(x, 1, 1))
    BY Stands DEF OnStream
  <1>2. Meeting /\ Accepting /\ Grants
    BY DEF OnStream, Unfolding
  <1>3. /\ 1 \in 1..Len(net[x]) /\ m \in GoodFrames /\ m.code = code /\ WellFormed(m) /\ m.sid \in Thread
        /\ m.did \in Thread /\ \A s, r \in Sid : m.sid = r /\ m.did = s => Joined(x, s, r)
    BY <1>1, FirstFrame
  <1>4. pc[x][0] = "recv" /\ Dropped(net[x], net'[x], k) /\ net'[y] = net[y] /\ net[x][1].code = code
    BY DEF Takes
  <1>5. x = Server => st[x][1].state # "opening"
    BY <1>2, <1>4 DEF Accepting, Serving, Answering
  <1>6. m.did \in {0, 1} /\ m.sid \in {0, 1} /\ (m.sid = 1 /\ m.did = 1 => Met)
    BY <1>1, <1>3
  <1>7. code \in {"data", "ack"} /\ m.did = 1 => Met
    BY <1>3, <1>6 DEF WellFormed
  <1>8. code = "data" => m.did = 1
    BY <1>3, <1>6 DEF WellFormed
  <1>9. ASSUME code = "request" PROVE x = Server /\ m.rwnd = QueueSize /\ m.sid = 1 /\ gsid[y] = 1
    <2>1. m.sid = 1
      BY <1>3, <1>6, <1>9 DEF WellFormed
    <2>2. Requested(net[x], 1)
      BY <1>3, <1>9, <2>1 DEF Requested
    <2>3. Asker(y, 1)
      <3>1. Request(y, 1)
        BY <1>1 DEF StepOf, PeerStreams
      <3>2. QED
        BY <1>1, <2>2, <3>1 DEF Request, Fresh
    <2>4. 1 <= gsid[y] /\ ~Joined(y, 1, 1)
      BY <1>1, <2>3 DEF Asker
    <2>5. ~Met
      BY <1>1, <2>4, JoinedTwice
    <2>6. gsid[y] \in {0, 1}
      BY SingleFacts, TypeParts DEF StreamTypes, OnStream, StepOf, FullInv
    <2>7. gsid[y] = 1
      BY <2>4, <2>6
    <2>8. x = Server
      BY <1>1, <2>5, <2>7 DEF Met
    <2>9. QED
      BY <1>2, <1>3, <1>9, <2>1, <2>7, <2>8 DEF Grants
  <1>10. code = "response" /\ m.info = "ok" => m.sid # 0 /\ (x = Client => m.rwnd = QueueSize)
    BY <1>2, <1>3 DEF WellFormed, Grants
  <1>11. AcksFor(net[Other(x)], 1)' = AcksFor(net[Other(x)], 1)
    BY <1>4
  <1>12. PICK one : one = 1
    OBVIOUS
  <1>13. net[x] \in Seq(GoodFrames) /\ net'[x] \in Seq(GoodFrames)
    BY <1>1, At
  <1>14. /\ (\A i \in 1..k : ~(net[x][i].code = "ack" /\ net[x][i].did = one)) => AcksFor(net'[x], one) = AcksFor(net[x], one)
         /\ k = 1 /\ net[x][1].code = "ack" /\ net[x][1].did = one => AcksFor(net[x], one) = AcksFor(net'[x], one) + 1
    BY <1>4, <1>13, AcksTaken
  <1>15. k = 1 /\ (code # "ack" \/ m.did # 1) => AcksFor(net[x], 1)' = AcksFor(net[x], 1)
    BY <1>4, <1>12, <1>14
  <1>16. k = 1 /\ code = "ack" /\ m.did = 1 => AcksFor(net[x], 1) = AcksFor(net[x], 1)' + 1
    BY <1>4, <1>12, <1>14
  <1>17. k = 2 /\ code = "data" /\ net[x][2].code = "payload" => AcksFor(net[x], 1)' = AcksFor(net[x], 1)
    <2>1. SUFFICES ASSUME k = 2, code = "data", net[x][2].code = "payload" PROVE AcksFor(net[x], 1)' = AcksFor(net[x], 1)
      OBVIOUS
    <2>2. \A i \in 1..k : i = 1 \/ i = 2
      BY <2>1
    <2>3. QED
      BY <1>4, <1>12, <1>14, <2>1, <2>2
  <1>18. QED
    BY <1>4, <1>5, <1>6, <1>7, <1>8, <1>9, <1>10, <1>11, <1>15, <1>16, <1>17

\* A frame that leaves the streams as they are.
LEMMA SameFlows ==
  ASSUME Single, NEW x \in Peer, OnStream(x), NEW y \in Peer, y = Other(x), NEW code, Takes(x, 1, code),
         Handles(x), SameStreams(x), AcksFor(net[x], 1)' = AcksFor(net[x], 1)
  PROVE  Flowing(x)
  <1>1. 1 \in Sid /\ 1 \in Thread
    BY Stands
  <1>2. Meeting /\ Quota /\ Accepting /\ Opening /\ Grants
    BY DEF OnStream, Unfolding
  <1>3. PICK m : m = net[x][1]
    OBVIOUS
  <1>4. /\ pc[x][0] = "recv" /\ net'[y] = net[y] /\ (x = Server => st[x][1].state # "opening")
        /\ AcksFor(net[Other(x)], 1)' = AcksFor(net[Other(x)], 1)
    BY <1>3, Arrives
  <1>5. PICK k : k = 1 /\ Dropped(net[x], net'[x], k)
    BY DEF Takes
  <1>6. /\ st'[x] = st[x] /\ UNCHANGED <<nwr, nrd, gsid, cur>> /\ pc'[x][0] \in {"recv", "shut"}
        /\ pc'[x][1] = pc[x][1] /\ op'[x][1] = op[x][1]
    BY <1>1 DEF Handles, SameStreams, SameCounts, ChannelMoves, SameOps
  <1>7. x = Server => Accepting'
    BY <1>4, <1>6 DEF Accepting
  <1>8. x = Client => Opening'
    BY <1>2, <1>6 DEF Opening
  <1>9. Grants'
    BY <1>4, <1>5, <1>6, GrantsKept
  <1>10. Owes(x, 1)' = Owes(x, 1)
    BY <1>6 DEF Owes
  <1>11. op'[x][1] = "data" /\ pc'[x][1] \in {"acquire", "send", "payload"} => nwr'[x][1] < MaxWrites[x]
    BY <1>2, <1>6 DEF Quota
  <1>12. QED
    BY <1>4, <1>6, <1>7, <1>8, <1>9, <1>10, <1>11, IdleFlows

LEMMA RefuseFlows ==
  ASSUME Single, NEW x \in Peer, OnStream(x), DoesRefuse(x)
  PROVE  Flowing(x)
  <1>1. PICK y \in Peer : y = Other(x)
    BY PeerFacts
  <1>2. 1 \in Sid /\ 1 \in Thread /\ Client # Server
    BY <1>1, Stands
  <1>3. Quota
    BY DEF OnStream, Unfolding
  <1>4. Takes(x, 1, "request") /\ \E m : m = net[x][1]
    BY DEF DoesRefuse
  <1>5. PICK k, code : k = 1 /\ code = "request" /\ Takes(x, k, code) /\ Dropped(net[x], net'[x], k)
    BY <1>4 DEF Takes
  <1>6. PICK m : m = net[x][1]
    OBVIOUS
  <1>7. /\ net'[y] = net[y] /\ x = Server /\ st[x][1].state # "opening"
        /\ AcksFor(net[Other(x)], 1)' = AcksFor(net[Other(x)], 1) /\ AcksFor(net[x], 1)' = AcksFor(net[x], 1)
    BY <1>1, <1>5, <1>6, Arrives
  <1>8. /\ st'[x] = st[x] /\ UNCHANGED <<nwr, nrd, gsid>> /\ pc'[x][0] = "acquire"
        /\ pc'[x][1] = pc[x][1] /\ op'[x][1] = op[x][1] /\ cur'[x].status # "ok"
    BY <1>2 DEF DoesRefuse, SameStreams, SameCounts, Answers, ChannelMoves
  <1>9. Accepting'
    BY <1>7, <1>8 DEF Accepting
  <1>10. Grants'
    BY <1>1, <1>5, <1>7, <1>8, GrantsKept
  <1>11. Owes(x, 1)' = Owes(x, 1)
    BY <1>8 DEF Owes
  <1>12. op'[x][1] = "data" /\ pc'[x][1] \in {"acquire", "send", "payload"} => nwr'[x][1] < MaxWrites[x]
    BY <1>3, <1>8 DEF Quota
  <1>13. QED
    BY <1>2, <1>7, <1>8, <1>9, <1>10, <1>11, <1>12, IdleFlows

\* A handler changes the end at x and no thread of the stream moves.
LEMMA HandledFlows ==
  ASSUME Single, NEW x \in Peer, OnStream(x), NEW y \in Peer, y = Other(x), NEW k, NEW code, Takes(x, k, code),
         Handles(x), Met \/ st'[x][1].rxq = << >>, 1 \in tbl[x], st'[x][1].did # 0 \/ st'[x][1].did = st[x][1].did,
         st'[x][1].state = "opening" => st[x][1].state = "opening", WriterTurn(x), ReaderTurn(x)
  PROVE  Flowing(x)
  <1>1. 1 \in Sid /\ 1 \in Thread
    BY Stands
  <1>2. Meeting /\ Quota /\ Accepting /\ Opening /\ Grants
    BY DEF OnStream, Unfolding
  <1>3. PICK m : m = net[x][1]
    OBVIOUS
  <1>4. /\ pc[x][0] = "recv" /\ net'[y] = net[y] /\ (x = Server => st[x][1].state # "opening")
        /\ Dropped(net[x], net'[x], k)
    BY <1>3, Arrives
  <1>5. /\ UNCHANGED <<nwr, nrd, gsid, cur>> /\ pc'[x][0] \in {"recv", "shut"}
        /\ pc'[x][1] = pc[x][1] /\ op'[x][1] = op[x][1]
    BY <1>1 DEF Handles, SameCounts, ChannelMoves, SameOps
  <1>6. x = Server => Accepting'
    BY <1>4, <1>5 DEF Accepting
  <1>7. x = Client => Opening'
    BY <1>2, <1>5 DEF Opening
  <1>8. Grants'
    BY <1>4, <1>5, GrantsKept
  <1>9. op'[x][1] = "data" /\ pc'[x][1] \in {"acquire", "send", "payload"} => nwr'[x][1] < MaxWrites[x]
    BY <1>2, <1>5 DEF Quota
  <1>10. gsid'[x] = gsid[x] /\ (gsid[x] = 0 => st'[x][1].state = "created") /\ cur'[x].obj = cur[x].obj
    BY <1>5, Stands
  <1>11. ~Met => Untouched(x)'
    <2>1. ~Met => Untouched(x)
      BY Stands
    <2>2. QED
      BY <1>5, <2>1 DEF Untouched
  <1>12. Unfolding'
    BY <1>6, <1>7, <1>8, <1>9, <1>10, <1>11, UnfoldKept
  <1>13. QED
    BY <1>12 DEF Flowing

LEMMA ResponseFlows ==
  ASSUME Single, NEW x \in Peer, OnStream(x), DoesResponse(x)
  PROVE  Flowing(x)
  <1>1. PICK y \in Peer : y = Other(x)
    BY PeerFacts
  <1>2. /\ StepOf(x) /\ 1 \in Sid /\ 1 \in Thread /\ (\A s \in Sid : s = 1) /\ Client # Server /\ tbl[x] \subseteq Sid
        /\ (x = Client \/ x = Server)
    BY <1>1, Stands, At DEF OnStream
  <1>3. PICK m : m = net[x][1]
    OBVIOUS
  <1>4. PICK k, code : k = 1 /\ code = "response" /\ Takes(x, k, code)
    BY DEF DoesResponse
  <1>5. /\ x = Server => st[x][1].state # "opening"
        /\ AcksFor(net[Other(x)], 1)' = AcksFor(net[Other(x)], 1) /\ AcksFor(net[x], 1)' = AcksFor(net[x], 1)
        /\ m.info = "ok" => m.sid # 0 /\ (x = Client => m.rwnd = QueueSize)
    BY <1>1, <1>3, <1>4, Arrives
  <1>6. Handles(x)
    BY DEF DoesResponse
  <1>7. CASE SameStreams(x)
    BY <1>1, <1>4, <1>5, <1>6, <1>7, SameFlows
  <1>8. CASE ~SameStreams(x)
    <2>1. /\ m.did = 1 /\ 1 \in tbl[x] /\ st[x][1].state = "opening"
          /\ \/ /\ m.info = "ok"
                /\ st'[x][1] = [st[x][1] EXCEPT !.state = "established", !.did = m.sid, !.rwnd = m.rwnd]
             \/ \E z \in StreamState \ {"opening", "established"} : st'[x][1] = [st[x][1] EXCEPT !.state = z]
      BY <1>2, <1>3, <1>8 DEF DoesResponse, OneStream
    <2>2. x = Client
      BY <1>2, <1>5, <2>1
    <2>3. PICK s : s = st[x][1] /\ s \in Streams
      BY <1>2, At
    <2>4. CASE \E z \in StreamState \ {"opening", "established"} : st'[x][1] = [st[x][1] EXCEPT !.state = z]
      <3>1. st'[x][1].state \notin Usable
        BY <2>3, <2>4, Fields DEF Usable
      <3>2. gsid[x] = 1 /\ gsid' = gsid
        BY <1>1, <1>6, <2>1, Stands DEF Handles
      <3>3. QED
        BY <1>1, <3>1, <3>2, Stands
    <2>5. CASE m.info = "ok" /\ st'[x][1] = [st[x][1] EXCEPT !.state = "established", !.did = m.sid, !.rwnd = m.rwnd]
      <3>1. /\ st'[x][1].state = "established" /\ st'[x][1].did = m.sid /\ st'[x][1].rwnd = QueueSize
            /\ st'[x][1].rxq = st[x][1].rxq
        BY <1>5, <2>2, <2>3, <2>5, Fields
      <3>2. ~Met => st[x][1].rxq = << >>
        BY <1>1, Stands DEF Untouched
      <3>3. /\ UNCHANGED <<nwr, nrd>> /\ pc'[x][1] = pc[x][1] /\ op'[x][1] = op[x][1]
        BY <1>2, <1>6 DEF Handles, SameCounts, ChannelMoves, SameOps
      <3>4. Allowance(x)' = Allowance(x)
        BY <2>1, <3>1 DEF Allowance
      <3>5. Owes(x, 1)' = Owes(x, 1)
        BY <3>3 DEF Owes
      <3>6. WriterTurn(x) /\ ReaderTurn(x)
        BY <1>5, <3>1, <3>3, <3>4, <3>5 DEF WriterTurn, WriterStays, ReaderTurn, ReaderStays
      <3>7. m.sid # 0
        BY <1>5, <2>5
      <3>8. QED
        BY <1>1, <1>4, <1>6, <2>1, <3>1, <3>2, <3>6, <3>7, HandledFlows
    <2>6. QED
      BY <2>1, <2>4, <2>5, Zenon
  <1>9. QED
    BY <1>7, <1>8

LEMMA NotifyFlows ==
  ASSUME Single, NEW x \in Peer, OnStream(x), DoesNotify(x)
  PROVE  Flowing(x)
  <1>1. PICK y \in Peer : y = Other(x)
    BY PeerFacts
  <1>2. /\ StepOf(x) /\ 1 \in Sid /\ 1 \in Thread /\ (\A s \in Sid : s = 1) /\ tbl[x] \subseteq Sid
    BY <1>1, Stands, At DEF OnStream
  <1>3. PICK m : m = net[x][1]
    OBVIOUS
  <1>4. PICK k, code : k = 1 /\ code = "close" /\ Takes(x, k, code)
    BY DEF DoesNotify
  <1>5. AcksFor(net[x], 1)' = AcksFor(net[x], 1)
    BY <1>1, <1>3, <1>4, Arrives
  <1>6. Handles(x)
    BY DEF DoesNotify
  <1>7. CASE SameStreams(x)
    BY <1>1, <1>4, <1>5, <1>6, <1>7, SameFlows
  <1>8. CASE ~SameStreams(x)
    <2>1. 1 \in tbl[x] /\ st'[x][1] = [st[x][1] EXCEPT !.state = "closed_by_remote_party"]
      BY <1>2, <1>3, <1>8 DEF DoesNotify, OneStream
    <2>2. PICK s : s = st[x][1] /\ s \in Streams
      BY <1>2, At
    <2>3. st'[x][1].state \notin Usable
      BY <2>1, <2>2, Fields DEF Usable
    <2>4. gsid[x] = 1 /\ gsid' = gsid
      BY <1>1, <1>6, <2>1, Stands DEF Handles
    <2>5. QED
      BY <1>1, <2>3, <2>4, Stands
  <1>9. QED
    BY <1>7, <1>8

LEMMA AckFlows ==
  ASSUME Single, NEW x \in Peer, OnStream(x), DoesAck(x)
  PROVE  Flowing(x)
  <1>1. PICK y \in Peer : y = Other(x)
    BY PeerFacts
  <1>2. /\ StepOf(x) /\ 1 \in Sid /\ 1 \in Thread /\ (\A s \in Sid : s = 1) /\ tbl[x] \subseteq Sid
        /\ (Met => 1 \in tbl[x]) /\ (x = Client \/ x = Server) /\ (~Met => Untouched(x))
        /\ (1 \in tbl[x] => st[x][1].state \in Usable)
    <2>1. StepOf(x)
      BY DEF OnStream
    <2>2. QED
      BY <1>1, <2>1, Stands, At
  <1>3. PICK m : m = net[x][1]
    OBVIOUS
  <1>4. PICK k, code : k = 1 /\ code = "ack" /\ Takes(x, k, code)
    BY DEF DoesAck
  <1>5. /\ x = Server => st[x][1].state # "opening"
        /\ AcksFor(net[Other(x)], 1)' = AcksFor(net[Other(x)], 1)
        /\ m.did # 1 => AcksFor(net[x], 1)' = AcksFor(net[x], 1)
        /\ m.did = 1 => AcksFor(net[x], 1) = AcksFor(net[x], 1)' + 1 /\ Met
    BY <1>1, <1>3, <1>4, Arrives
  <1>6. Handles(x)
    BY DEF DoesAck
  <1>7. CASE SameStreams(x) /\ m.did \notin tbl[x]
    <2>1. m.did # 1
      BY <1>2, <1>5, <1>7
    <2>2. QED
      BY <1>1, <1>4, <1>5, <1>6, <1>7, <2>1, SameFlows
  <1>8. CASE m.did \in tbl[x] /\ OneStream(x, m.did, [st[x][m.did] EXCEPT !.rwnd = @ + 1])
    <2>1. m.did = 1 /\ 1 \in tbl[x] /\ st'[x][1] = [st[x][1] EXCEPT !.rwnd = @ + 1]
      BY <1>2, <1>8 DEF OneStream
    <2>2. /\ st'[x][1].state = st[x][1].state /\ st'[x][1].did = st[x][1].did /\ st'[x][1].rxq = st[x][1].rxq
          /\ st'[x][1].rwnd = st[x][1].rwnd + 1
      <3>1. PICK s : s = st[x][1]
        OBVIOUS
      <3>2. s \in Streams /\ st'[x][1] = [s EXCEPT !.rwnd = s.rwnd + 1]
        BY <1>2, <2>1, <3>1, At
      <3>3. QED
        BY <3>1, <3>2, Fields
    <2>3. st[x][1].state = "established"
      <3>1. SUFFICES ASSUME st[x][1].state = "opening" PROVE FALSE
        BY <1>2, <2>1 DEF Usable
      <3>2. nwr[x][1] = 0
        BY <1>2, <2>1, <3>1 DEF StepOf, PeerStreams, Writer
      <3>3. /\ nrd[y][1] \in Nat /\ AcksFor(net[x], 1) \in Nat /\ AcksFor(net[x], 1) <= nrd[y][1]
            /\ \E a, b \in Nat : nwr[x][1] = nrd[y][1] + a + b
        BY <1>1 DEF OnStream, Lane
      <3>4. AcksFor(net[x], 1) = 0
        BY <3>2, <3>3
      <3>5. PICK f, g : f \in Seq(GoodFrames) /\ g = net'[x] /\ g \in Seq(GoodFrames)
        BY <1>2, At
      <3>6. PICK one : one = 1
        OBVIOUS
      <3>7. AcksFor(g, one) \in Nat
        BY <3>5, AcksFinite
      <3>8. AcksFor(net[x], 1) = AcksFor(g, one) + 1
        BY <1>5, <2>1, <3>5, <3>6
      <3>9. QED
        BY <3>4, <3>7, <3>8
    <2>4. /\ UNCHANGED <<nwr, nrd>> /\ pc'[x][1] = pc[x][1] /\ op'[x][1] = op[x][1]
      BY <1>2, <1>6 DEF Handles, SameCounts, ChannelMoves, SameOps
    <2>5. Owes(x, 1)' = Owes(x, 1)
      BY <2>4 DEF Owes
    <2>6. WriterTurn(x)
      BY <1>5, <2>1, <2>2, <2>3, <2>4 DEF WriterTurn, WriterGains, Allowance
    <2>7. ReaderTurn(x)
      BY <1>5, <2>2, <2>4, <2>5 DEF ReaderTurn, ReaderStays
    <2>8. QED
      BY <1>1, <1>4, <1>5, <1>6, <2>1, <2>2, <2>6, <2>7, HandledFlows
  <1>9. QED
    BY <1>3, <1>7, <1>8 DEF DoesAck

LEMMA DataFlows ==
  ASSUME Single, NEW x \in Peer, OnStream(x), DoesData(x)
  PROVE  Flowing(x)
  <1>1. PICK y \in Peer : y = Other(x)
    BY PeerFacts
  <1>2. /\ StepOf(x) /\ 1 \in Sid /\ 1 \in Thread
    BY <1>1, Stands DEF OnStream
  <1>3. PICK m : m = net[x][1]
    OBVIOUS
  <1>4. PICK k, code : k = 2 /\ code = "data" /\ Takes(x, k, code) /\ Takes(x, 2, "data") /\ net[x][2].code = "payload"
    BY DEF DoesData
  <1>5. /\ m.did = 1 /\ Met /\ AcksFor(net[Other(x)], 1)' = AcksFor(net[Other(x)], 1)
        /\ AcksFor(net[x], 1)' = AcksFor(net[x], 1)
    BY <1>1, <1>3, <1>4, Arrives
  <1>6. Handles(x) /\ 1 \in tbl[x]
    BY <1>3, <1>5 DEF DoesData
  <1>7. PICK s \in tbl[x] : s = net[x][1].did /\ s = 1
    BY <1>3, <1>5, <1>6
  <1>8. Len(st[x][s].rxq) < QueueSize
    BY <1>1, <1>2, <1>4, <1>7, DataFits
  <1>9. PICK z : z = st[x][1] /\ z \in Streams /\ z.rxq \in Seq(Nat)
    BY <1>2, At
  <1>10. st'[x][1] = [z EXCEPT !.rxq = Append(z.rxq, net[x][2].seq)]
    <2>1. ~(Len(st[x][s].rxq) >= QueueSize)
      <3>1. Len(z.rxq) \in Nat
        BY <1>9, LenProperties
      <3>2. QED
        BY <1>7, <1>8, <1>9, <3>1, BoundsAssumption
    <2>2. OneStream(x, s, [st[x][s] EXCEPT !.rxq = Append(@, net[x][2].seq)])
      BY <1>7, <2>1 DEF DoesData
    <2>3. QED
      BY <1>7, <1>9, <2>2 DEF OneStream
  <1>11. /\ st'[x][1].state = st[x][1].state /\ st'[x][1].did = st[x][1].did /\ st'[x][1].rwnd = st[x][1].rwnd
         /\ st'[x][1].rxq = Append(z.rxq, net[x][2].seq)
    BY <1>9, <1>10, Fields
  <1>12. Len(st'[x][1].rxq) = Len(st[x][1].rxq) + 1
    <2>1. st'[x][1].rxq \in Seq(Nat)
      BY <1>2, At
    <2>2. Len(Append(z.rxq, net[x][2].seq)) = Len(z.rxq) + 1
      BY <1>9
    <2>3. QED
      BY <1>9, <1>11, <2>2
  <1>13. /\ UNCHANGED <<nwr, nrd>> /\ pc'[x][1] = pc[x][1] /\ op'[x][1] = op[x][1]
    BY <1>2, <1>6 DEF Handles, SameCounts, ChannelMoves, SameOps
  <1>14. Owes(x, 1)' = Owes(x, 1)
    BY <1>13 DEF Owes
  <1>15. WriterTurn(x)
    BY <1>5, <1>11, <1>13 DEF WriterTurn, WriterStays, Allowance
  <1>16. ReaderTurn(x)
    BY <1>5, <1>12, <1>13, <1>14 DEF ReaderTurn, ReaderQueues
  <1>17. QED
    BY <1>1, <1>4, <1>5, <1>6, <1>11, <1>15, <1>16, HandledFlows

LEMMA NoCrash ==
  ASSUME Single, NEW x \in Peer, OnStream(x), DoesCrash(x)
  PROVE  FALSE
  <1>1. PICK y \in Peer : y = Other(x)
    BY PeerFacts
  <1>2. PICK m : m = net[x][1]
    OBVIOUS
  <1>3. PICK k, code : k = 2 /\ code = "data" /\ Takes(x, k, code)
    BY DEF DoesCrash
  <1>4. Met
    BY <1>1, <1>2, <1>3, Arrives
  <1>5. gsid[x] = 1 /\ gsid' = gsid /\ tbl'[x] = {}
    BY <1>1, <1>4, Stands DEF DoesCrash
  <1>6. QED
    BY <1>1, <1>5, Stands

\* A new end: the stream was not there before.
LEMMA Created ==
  ASSUME Single, NEW x \in Peer, OnStream(x), NEW y \in Peer, y = Other(x), NEW d, NEW w, Creates(x, d, w)
  PROVE  /\ gensid(x) = 1 /\ gsid[x] = 0 /\ gsid'[x] = 1 /\ ~Met /\ Untouched(x) /\ st[x][1].state = "created"
         /\ pc[x][1] \in {"none", "crashed"} /\ nwr' = nwr /\ nrd' = nrd
         /\ st'[x][1].state = "opening" /\ st'[x][1].did = d /\ st'[x][1].rwnd = w /\ st'[x][1].rxq = << >>
         /\ SamePeer(y) /\ Meeting /\ Quota /\ Accepting /\ Opening /\ Grants /\ (\A a \in Peer : a = x \/ a = y)
         /\ StepOf(x)
  <1>1. /\ gsid[x] \in {0, 1} /\ MaxSid = 1
        /\ gsid[x] = 0 => pc[x][1] \in {"none", "crashed"} /\ st[x][1].state = "created" /\ ~Met
        /\ ~Met => Untouched(x)
    BY Stands DEF Single
  <1>2. gsid[x] = 0 /\ gensid(x) = 1
    BY <1>1 DEF Creates, gensid
  <1>3. gsid'[x] = 1
    <2>1. gsid \in [Peer -> Nat]
      BY At DEF OnStream, FreshInv
    <2>2. QED
      BY <1>2, <2>1 DEF Creates
  <1>4. st'[x][1] = Stream("opening", d, w) /\ nwr' = nwr /\ nrd' = nrd
    BY <1>2 DEF Creates, OneStream, SameCounts
  <1>5. st'[x][1].state = "opening" /\ st'[x][1].did = d /\ st'[x][1].rwnd = w /\ st'[x][1].rxq = << >>
    BY <1>4 DEF Stream
  <1>6. SamePeer(y) /\ Meeting /\ Quota /\ Accepting /\ Opening /\ Grants /\ StepOf(x)
    BY DEF OnStream, StepOf, Unfolding
  <1>7. \A a \in Peer : a = x \/ a = y
    BY PeerFacts, SingleFacts
  <1>8. QED
    BY <1>1, <1>2, <1>3, <1>4, <1>5, <1>6, <1>7

\* Both directions are as they were.
LEMMA CreatedTurns ==
  ASSUME NEW x \in Peer, Untouched(x), nwr' = nwr, nrd' = nrd, st'[x][1].rxq = << >>,
         st[x][1].state = "created", st'[x][1].state = "opening",
         pc'[x][1] # "sent", op'[x][1] # "ack",
         AcksFor(net[x], 1)' = AcksFor(net[x], 1), AcksFor(net[Other(x)], 1)' = AcksFor(net[Other(x)], 1)
  PROVE  WriterTurn(x) /\ ReaderTurn(x)
  <1>1. st[x][1].rxq = << >> /\ op[x][1] # "ack" /\ pc[x][1] # "sent"
    BY DEF Untouched
  <1>2. Allowance(x)' = Allowance(x)
    BY DEF Allowance
  <1>3. Owes(x, 1)' = Owes(x, 1)
    BY <1>1 DEF Owes
  <1>4. QED
    BY <1>1, <1>2, <1>3 DEF WriterTurn, WriterStays, ReaderTurn, ReaderStays

LEMMA AcceptFlows ==
  ASSUME Single, NEW x \in Peer, OnStream(x), DoesAccept(x)
  PROVE  Flowing(x)
  <1>1. PICK y \in Peer : y = Other(x)
    BY PeerFacts
  <1>2. PICK m : m = net[x][1]
    OBVIOUS
  <1>3. PICK k, code : k = 1 /\ code = "request" /\ Takes(x, k, code)
    BY DEF DoesAccept
  <1>4. /\ x = Server /\ m.rwnd = QueueSize /\ m.sid = 1 /\ gsid[y] = 1 /\ Dropped(net[x], net'[x], k) /\ net'[y] = net[y]
        /\ AcksFor(net[x], 1)' = AcksFor(net[x], 1) /\ AcksFor(net[Other(x)], 1)' = AcksFor(net[Other(x)], 1)
    BY <1>1, <1>2, <1>3, Arrives
  <1>5. y = Client /\ 1 \in Sid /\ 1 \in Thread /\ Client # Server
    BY <1>1, <1>4, Stands
  <1>6. PICK d, w : d = 1 /\ w = QueueSize /\ Creates(x, d, w)
    BY <1>2, <1>4 DEF DoesAccept
  <1>7. /\ gensid(x) = 1 /\ gsid[x] = 0 /\ gsid'[x] = 1 /\ ~Met /\ Untouched(x) /\ st[x][1].state = "created"
        /\ pc[x][1] \in {"none", "crashed"} /\ nwr' = nwr /\ nrd' = nrd
        /\ st'[x][1].state = "opening" /\ st'[x][1].did = d /\ st'[x][1].rwnd = w /\ st'[x][1].rxq = << >>
        /\ SamePeer(y) /\ Meeting /\ Quota /\ Accepting /\ Opening /\ Grants /\ (\A a \in Peer : a = x \/ a = y)
    BY <1>1, <1>6, Created
  <1>8. /\ pc'[x][0] = "start" /\ pc'[x][1] = pc[x][1] /\ op'[x][1] = op[x][1] /\ cur'[x].obj = 1
    BY <1>5, <1>7 DEF DoesAccept, ChannelMoves, SameOps
  <1>9. op[x][1] # "ack" /\ pc[x][1] # "sent"
    BY <1>7 DEF Untouched
  <1>10. WriterTurn(x) /\ ReaderTurn(x)
    BY <1>4, <1>7, <1>8, <1>9, CreatedTurns
  <1>11. gsid'[y] = gsid[y] /\ cur'[y] = cur[y] /\ st'[y] = st[y] /\ pc'[y] = pc[y] /\ op'[y] = op[y]
    BY <1>7 DEF SamePeer
  <1>12. Meeting'
    <2>1. gsid'[Client] # 0 /\ gsid'[Server] # 0 /\ st'[Server][1].did # 0 /\ cur'[Client].obj = 0
      BY <1>4, <1>5, <1>6, <1>7, <1>11 DEF Meeting
    <2>2. \A a \in Peer : gsid'[a] # 0
      BY <1>4, <1>7, <1>11
    <2>3. QED
      BY <2>1, <2>2 DEF Meeting
  <1>13. Quota'
    <2>1. pc'[x][1] \notin {"acquire", "send", "payload"}
      BY <1>7, <1>8
    <2>2. \A a \in Peer : a # x => pc'[a] = pc[a] /\ op'[a] = op[a]
      BY <1>7, <1>11
    <2>3. QED
      BY <1>7, <2>1, <2>2 DEF Quota
  <1>14. Accepting'
    BY <1>4, <1>6, <1>7, <1>8, <1>9 DEF Accepting, Serving
  <1>15. Opening'
    BY <1>5, <1>7, <1>11 DEF Opening
  <1>16. Grants'
    BY <1>1, <1>4, <1>8, GrantsKept
  <1>17. QED
    BY <1>10, <1>12, <1>13, <1>14, <1>15, <1>16 DEF Flowing, Unfolding

LEMMA OpenFlows ==
  ASSUME Single, NEW x \in Peer, OnStream(x), DoesOpen(x)
  PROVE  Flowing(x)
  <1>1. PICK y \in Peer : y = Other(x)
    BY PeerFacts
  <1>2. x = Client /\ y = Server /\ 1 \in Sid /\ 1 \in Thread /\ 0 \in Thread /\ Client # Server
    <2>1. x = Client
      BY DEF DoesOpen, Single
    <2>2. QED
      BY <1>1, <2>1, Stands
  <1>3. PICK d, w : d = 0 /\ w = 0 /\ Creates(x, d, w)
    BY DEF DoesOpen
  <1>4. /\ gensid(x) = 1 /\ gsid[x] = 0 /\ gsid'[x] = 1 /\ ~Met /\ Untouched(x) /\ st[x][1].state = "created"
        /\ nwr' = nwr /\ nrd' = nrd /\ st'[x][1].state = "opening" /\ st'[x][1].rxq = << >>
        /\ SamePeer(y) /\ Meeting /\ Quota /\ Accepting /\ Opening /\ Grants /\ (\A a \in Peer : a = x \/ a = y)
        /\ net[x] \in Seq(GoodFrames)
    BY <1>1, <1>3, Created, At
  <1>5. pc'[x][1] = "acquire" /\ op'[x][1] = "request" /\ net' = net /\ cur' = cur
    BY <1>4 DEF DoesOpen
  <1>6. WriterTurn(x) /\ ReaderTurn(x)
    <2>1. AcksFor(net[x], 1)' = AcksFor(net[x], 1) /\ AcksFor(net[Other(x)], 1)' = AcksFor(net[Other(x)], 1)
      BY <1>5
    <2>2. QED
      BY <1>4, <1>5, <2>1, CreatedTurns
  <1>7. gsid'[y] = gsid[y] /\ st'[y] = st[y] /\ pc'[y] = pc[y] /\ op'[y] = op[y]
    BY <1>4 DEF SamePeer
  <1>8. Meeting'
    <2>1. gsid'[Client] # 0 /\ gsid'[Server] = 0 /\ cur'[Client].obj = 0 /\ st'[Server][1].state = "created"
      BY <1>2, <1>4, <1>5, <1>7 DEF Meeting, Met
    <2>2. Untouched(x)'
      BY <1>4, <1>5 DEF Untouched
    <2>3. Untouched(y)
      BY <1>2, <1>4 DEF Meeting, Met
    <2>4. Untouched(y)'
      BY <1>4, <1>7, <2>3 DEF Untouched
    <2>5. \A a \in Peer : Untouched(a)' /\ (gsid'[a] = 0 => st'[a][1].state = "created")
      BY <1>2, <1>4, <2>1, <2>2, <2>4
    <2>6. QED
      BY <2>1, <2>5 DEF Meeting
  <1>9. Quota'
    <2>1. op'[x][1] # "data" /\ \A a \in Peer : a # x => pc'[a] = pc[a] /\ op'[a] = op[a]
      BY <1>4, <1>5, <1>7
    <2>2. QED
      BY <1>4, <2>1 DEF Quota
  <1>10. Accepting'
    BY <1>2, <1>4, <1>5, <1>7 DEF Accepting
  <1>11. Opening'
    BY <1>2, <1>5 DEF Opening
  <1>12. Grants'
    <2>1. Dropped(net[x], net[x], 0)
      BY <1>4, LenProperties DEF Dropped
    <2>2. PICK k : Dropped(net[x], net'[x], k)
      BY <1>5, <2>1
    <2>3. QED
      BY <1>1, <1>2, <1>5, <2>2, GrantsKept
  <1>13. QED
    BY <1>6, <1>8, <1>9, <1>10, <1>11, <1>12 DEF Flowing, Unfolding

\* Whatever the step, as long as the stream stands.
LEMMA ThreadFlows ==
  ASSUME Single, NEW x \in Peer, OnStream(x), NEW t \in Thread, ThreadStep(x, t)
  PROVE  Flowing(x)
  <1>1. TypeInv
    BY At DEF OnStream
  <1>2. /\ OnlyThread(x, t)
        /\ \/ DoesMove(x, t) \/ DoesSend(x, t) \/ DoesPay(x, t)
           \/ DoesCount(x, t) \/ DoesErase(x, t) \/ DoesRead(x, t)
    BY <1>1, ThreadEffect
  <1>3. QED
    BY <1>2, MoveFlows, SendFlows, PayFlows, CountFlows, EraseBreaks, ReadFlows

LEMMA PeerFlows ==
  ASSUME Single, NEW x \in Peer, OnStream(x), ChannelStep(x) \/ AppStep(x), "use after free" \notin bug'
  PROVE  Flowing(x)
  <1>1. FullInv
    BY DEF OnStream, StepOf
  <1>2. \/ \E t \in Thread : DoesCall(x, t)
        \/ DoesStart(x) \/ DoesAnswer(x) \/ DoesEstablish(x) \/ DoesDiscard(x) \/ DoesAccept(x) \/ DoesRefuse(x)
        \/ DoesResponse(x) \/ DoesNotify(x) \/ DoesAck(x) \/ DoesData(x) \/ DoesCrash(x) \/ DoesOpen(x)
    BY <1>1, PeerEffect
  <1>3. QED
    BY <1>2, CallFlows, StartFlows, EstablishFlows, DiscardBreaks, AcceptFlows, RefuseFlows, ResponseFlows, NotifyFlows,
       AckFlows, DataFlows, NoCrash, OpenFlows

\* No freed stream is used while the stream stands: only this one was ever handed out.
LEMMA NothingFreed ==
  ASSUME Single, FullInv, ~Broken, "use after free" \notin bug, NEW x \in Peer, ChannelStep(x) \/ AppStep(x)
  PROVE  "use after free" \notin bug'
  <1>1. TypeInv /\ TableInv(x) /\ AnswerInv(x) /\ ~Gone(x)
    BY DEF FullInv, ChannelInv, Broken
  <1>2. ASSUME pc[x][0] \in {"started", "setstate"}, cur[x].obj # 0 PROVE cur[x].obj \in live[x]
    <2>1. cur[x].obj = 1
      BY <1>1, <1>2, TypeParts, SingleFacts DEF CurTypes
    <2>2. gsid[x] >= 1
      <3>1. gsid[x] \in Nat /\ pc[x][0] \in Serving
        BY <1>1, <1>2, TypeParts, ThreadFacts DEF StreamTypes, Serving, Answering
      <3>2. QED
        BY <1>1, <2>1, <3>1 DEF AnswerInv
    <2>3. QED
      BY <1>1, <2>1, <2>2 DEF Gone, TableInv
  <1>3. CASE on_create_stream_request_reply(x) \/ on_create_stream_request_done(x)
    <2>1. bug' = bug \/ (bug' = bug \cup UseAfterFree(x, cur[x].obj) /\ pc[x][0] \in {"started", "setstate"} /\ cur[x].obj # 0)
      <3>1. pc[x][0] = "started" => cur[x].obj # 0
        BY <1>1, ThreadFacts DEF AnswerInv
      <3>2. QED
        BY <1>3, <3>1 DEF on_create_stream_request_reply, on_create_stream_request_done
    <2>2. QED
      BY <1>2, <2>1 DEF UseAfterFree
  <1>4. CASE on_create_stream_responce(x) \/ on_data_message_unknown(x)
    <2>1. bug' = bug \/ bug' = bug \cup {"Invalid stream state"} \/ bug' = bug \cup {"null stream"}
      BY <1>4 DEF on_create_stream_responce, on_data_message_unknown
    <2>2. "use after free" # "Invalid stream state" /\ "use after free" # "null stream"
      OBVIOUS
    <2>3. \A u : u # "Invalid stream state" /\ u # "null stream" /\ u \in bug' => u \in bug
      BY <2>1
    <2>4. QED
      BY <2>2, <2>3
  <1>5. CASE on_data_message(x)
    <2>1. bug' = bug \/ bug' = bug \cup {"garbled frame"} \/ bug' = bug \cup {"ccfifo is full"}
      BY <1>5 DEF on_data_message
    <2>2. "use after free" # "garbled frame" /\ "use after free" # "ccfifo is full"
      OBVIOUS
    <2>3. \A u : u # "garbled frame" /\ u # "ccfifo is full" /\ u \in bug' => u \in bug
      BY <2>1
    <2>4. QED
      BY <2>2, <2>3
  <1>6. CASE \/ on_create_stream_request(x) \/ start_service_method_thread(x) \/ on_close_stream_notify(x) \/ on_data_ack(x)
             \/ recv_fails(x) \/ corpc_channel_thread_end(x) \/ AppStep(x)
    <2>1. bug' = bug
      BY <1>6 DEF on_create_stream_request, start_service_method_thread, on_close_stream_notify, on_data_ack, recv_fails,
         corpc_channel_thread_end, AppStep, corpc_open_stream, corpc_channel_close, corpc_stream_write,
         corpc_stream_read, corpc_close_stream
    <2>2. QED
      BY <2>1
  <1>7. QED
    BY <1>3, <1>4, <1>5, <1>6 DEF ChannelStep

-----------------------------------------------------------------------------
(* The refinement.                                                         *)

\* What the mapping needs of a state.
Mapped == FullInv /\ StreamInv /\ FlowInv

LaneInv == ~Broken => \A p \in Peer : Lane(p)

LEMMA LanesHold ==
  ASSUME Single, Mapped
  PROVE  LaneInv
  <1>1. ~Broken => FullInv /\ Meeting /\ \A a \in Peer : PeerStreams(a)
    BY DEF Mapped, FlowInv, StreamInv, Unfolding
  <1>2. QED
    BY <1>1, LaneHolds DEF LaneInv

LEMMA BrokenFresh ==
  ASSUME Broken, NEW p
  PROVE  FlowFresh(p) /\ Phase = "broken"
  BY DEF FlowFresh, Phase, Window, Uncounted, Wire, Queue, Owed, Acks, Sent, Got, Unless

\* A step that ends broken is one of the abstract specification.
LEMMA BreakSteps ==
  ASSUME Single, FullInv, [Next]_vars, Broken', NEW p
  PROVE  FlowStep(p)
  <1>1. FlowFresh(p)' /\ Phase' = "broken"
    BY BrokenFresh DEF FlowFresh, Phase, Window, Uncounted, Wire, Queue, Owed, Acks, Sent, Got, Unless
  <1>2. CASE Broken
    <2>1. FlowFresh(p) /\ Phase = "broken"
      BY <1>2, BrokenFresh
    <2>2. QED
      BY <1>1, <2>1 DEF FlowFresh, FlowSame, FlowStep
  <1>3. CASE ~Broken
    <2>1. Phase = "connected"
      BY <1>3 DEF Phase
    <2>2. QED
      BY <1>1, <2>1 DEF FlowStep
  <1>4. QED
    BY <1>2, <1>3

LEMMA FlowNext ==
  ASSUME Single, FullInv, StreamInv, FlowInv, FullInv', StreamInv', [Next]_vars
  PROVE  FlowInv' /\ (LaneInv' => \A p \in Peer : FlowStep(p))
  <1>1. CASE Broken'
    <2>1. FlowInv'
      BY <1>1 DEF FlowInv
    <2>2. QED
      BY <1>1, <2>1, BreakSteps
  <1>2. CASE ~Broken'
    <2>1. ~Broken
      BY <1>2, BrokenStays
    <2>2. "use after free" \notin bug /\ Unfolding /\ \A a \in Peer : PeerStreams(a)
      BY <2>1 DEF FlowInv, StreamInv
    <2>3. \A a \in Peer : Lane(a)
      BY <2>1, LanesHold DEF Mapped, LaneInv
    <2>4. CASE \E x \in Peer : (\E t \in Thread : ThreadStep(x, t)) \/ ChannelStep(x) \/ AppStep(x)
      <3>1. PICK x \in Peer : (\E t \in Thread : ThreadStep(x, t)) \/ ChannelStep(x) \/ AppStep(x)
        BY <2>4
      <3>2. PICK y \in Peer : y = Other(x)
        BY PeerFacts
      <3>3. TypeInv /\ TypeInv' /\ Other(y) = x /\ \A a \in Peer : a = x \/ a = y
        BY <3>2, PeerFacts, SingleFacts DEF FullInv
      <3>4. StepOf(x)
        BY <2>2, <3>1, <3>2, <3>3, ThreadSteps, ChannelSteps
      <3>5. OnStream(x)
        BY <1>2, <2>1, <2>2, <2>3, <3>2, <3>4 DEF OnStream
      <3>6. "use after free" \notin bug' /\ Flowing(x)
        <4>1. CASE \E t \in Thread : ThreadStep(x, t)
          <5>1. PICK t \in Thread : ThreadStep(x, t)
            BY <4>1
          <5>2. OnlyThread(x, t)
            BY <3>3, <5>1, ThreadEffect
          <5>3. bug' = bug
            BY <5>2 DEF OnlyThread
          <5>4. Flowing(x)
            BY <3>5, <5>1, ThreadFlows
          <5>5. QED
            BY <2>2, <5>3, <5>4
        <4>2. CASE ChannelStep(x) \/ AppStep(x)
          <5>1. "use after free" \notin bug'
            BY <2>1, <2>2, <4>2, NothingFreed
          <5>2. QED
            BY <3>5, <4>2, <5>1, PeerFlows
        <4>3. QED
          BY <3>1, <4>1, <4>2
      <3>7. FlowInv'
        BY <3>6 DEF FlowInv, Flowing
      <3>8. ASSUME LaneInv' PROVE FlowStep(x) /\ FlowStep(y)
        <4>1. Lane(x)' /\ Lane(y)' /\ Lane(x) /\ Lane(y)
          BY <1>2, <2>3, <3>8 DEF LaneInv
        <4>2. /\ st'[y] = st[y] /\ pc'[y] = pc[y] /\ op'[y] = op[y] /\ nrd'[y] = nrd[y] /\ nwr'[y] = nwr[y]
              /\ WriterTurn(x) /\ ReaderTurn(x)
          BY <3>2, <3>4, <3>6 DEF StepOf, SamePeer, Flowing
        <4>3. FlowStep(x)
          BY <1>2, <2>1, <3>2, <4>1, <4>2, WriterSteps
        <4>4. FlowStep(y)
          BY <1>2, <2>1, <3>3, <4>1, <4>2, ReaderSteps
        <4>5. QED
          BY <4>3, <4>4
      <3>9. QED
        BY <3>3, <3>7, <3>8
    <2>5. CASE UNCHANGED vars
      <3>1. /\ UNCHANGED <<link, sock, chst, gsid, tbl, st, pc, op, cur, net, nwr, nrd, bug>>
        BY <2>5 DEF vars, chanVars, streamVars, threadVars, countVars
      <3>2. FlowInv'
        BY <3>1, <2>2 DEF FlowInv, Unfolding, Meeting, Untouched, Quota, Accepting, Opening, Grants
      <3>3. Broken' <=> Broken
        BY <3>1 DEF Broken, Gone, established
      <3>4. \A p \in Peer : FlowSame(p) /\ Phase' = Phase
        BY <3>1, <3>3 DEF FlowSame, Phase, Window, Uncounted, Wire, Queue, Owed, Acks, Sent, Got, Unless
      <3>5. QED
        BY <3>2, <3>4 DEF FlowStep
    <2>6. CASE LinkFails
      BY <1>2, <2>6 DEF LinkFails, Broken
    <2>7. QED
      BY <2>4, <2>5, <2>6 DEF Next
  <1>3. QED
    BY <1>1, <1>2

LEMMA FlowInit ==
  ASSUME Single, Init
  PROVE  FlowInv /\ \A p \in Peer : FlowFresh(p) /\ Phase = "connected"
  <1>1. /\ Client \in Peer /\ Server \in Peer /\ 0 \in Thread /\ 1 \in Thread /\ 1 \in Sid
        /\ \A p \in Peer : Other(p) \in Peer
    BY SingleFacts, PeerFacts
  <1>2. /\ \A p \in Peer : /\ st[p][1].state = "created" /\ st[p][1].did = 0 /\ st[p][1].rxq = << >>
                           /\ pc[p][1] = "none" /\ op[p][1] = "none" /\ nwr[p][1] = 0 /\ nrd[p][1] = 0
                           /\ gsid[p] = 0 /\ tbl[p] = {} /\ pc[p][0] = "recv" /\ cur[p].obj = 0
                           /\ net[p] = << >> /\ sock[p] /\ established(p)
        /\ link /\ bug = {}
    BY <1>1 DEF Init, Zeroed, Stream, established
  <1>3. ~Broken
    BY <1>2 DEF Broken, Gone
  <1>4. "use after free" \notin bug
    BY <1>2
  <1>5. Meeting /\ Quota /\ Accepting /\ Opening
    BY <1>1, <1>2 DEF Meeting, Untouched, Quota, Accepting, Opening
  <1>6. Grants
    <2>1. Len(<< >>) = 0 /\ 1..0 = {}
      OBVIOUS
    <2>2. QED
      BY <1>1, <1>2, <2>1 DEF Grants
  <1>7. (\E f \in Seq(GoodFrames) : f = << >>) /\ \E one : one = 1
    <2>1. << >> \in Seq(GoodFrames)
      OBVIOUS
    <2>2. QED
      BY <2>1
  <1>f. PICK f \in Seq(GoodFrames) : f = << >>
    BY <1>7
  <1>o. PICK one : one = 1
    BY <1>7
  <1>8. DataFor(f, one) = << >> /\ AcksFor(f, one) = 0
    <2>1. Len(f) = 0 /\ 1..Len(f) = {} /\ DOMAIN f = 1..Len(f)
      BY <1>f
    <2>2. DataFor(f, one) = << >>
      BY <2>1, EmptyLane
    <2>3. AckSet(f, one) = {}
      BY <2>1 DEF AckSet
    <2>4. AcksFor(f, one) = 0
      BY <2>3, AcksFinite, FS_EmptySet
    <2>5. QED
      BY <2>2, <2>4
  <1>9. ASSUME NEW p \in Peer PROVE FlowFresh(p) /\ Phase = "connected"
    <2>1. PICK q \in Peer : q = Other(p)
      BY <1>1
    <2>2. DataFor(net[q], 1) = << >> /\ AcksFor(net[p], 1) = 0
      BY <1>2, <1>f, <1>o, <1>8
    <2>3. QED
      BY <1>2, <1>3, <2>1, <2>2 DEF FlowFresh, Phase, Window, Uncounted, Wire, Queue, Owed, Acks, Sent, Got, Unless, One
  <1>10. QED
    BY <1>3, <1>4, <1>5, <1>6, <1>9 DEF FlowInv, Unfolding

LEMMA FlowInductive ==
  ASSUME Single
  PROVE  Spec => []Mapped
  <1>1. Init => FlowInv
    BY FlowInit
  <1>2. FullInv /\ StreamInv /\ FlowInv /\ (FullInv /\ StreamInv)' /\ [Next]_vars => FlowInv'
    BY FlowNext
  <1>3. QED
    BY <1>1, <1>2, StreamInductive, PTL DEF Spec, Mapped

\* Each direction of the first stream is a credit-controlled FIFO, for every queue size
\* and every number of messages: whatever the threads of the two peers do and wherever
\* the connection fails, a step of send_data(), on_data_message(), the reader or
\* on_data_ack() is a step of CorpcFlow or leaves the mapped state alone.
THEOREM ChannelImplementsFlow ==
  ASSUME Single
  PROVE  Spec => ImplementsFlow
  <1>1. Client \in Peer /\ Server \in Peer
    BY SingleFacts
  <1>2. Init => ToServer!Init /\ ToClient!Init
    BY <1>1, FlowInit DEF ToServer!Init, ToClient!Init, FlowFresh
  <1>3. Mapped => LaneInv
    BY LanesHold
  <1>4. FullInv /\ StreamInv /\ FlowInv /\ (FullInv /\ StreamInv)' /\ LaneInv' /\ [Next]_vars
          => [ToServer!Next]_(ToServer!vars) /\ [ToClient!Next]_(ToClient!vars)
    BY <1>1, FlowNext, StepToServer, StepToClient
  <1>5. QED
    BY <1>2, <1>3, <1>4, FlowInductive, PTL DEF Spec, Mapped, ImplementsFlow, ClientToServer, ServerToClient,
       ToServer!Spec, ToClient!Spec

=============================================================================
