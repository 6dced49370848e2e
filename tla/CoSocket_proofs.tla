-------------------------- MODULE CoSocket_proofs --------------------------
(***************************************************************************)
(* Proofs about CoSocket, for every set of coroutines and descriptors and  *)
(* every workload.                                                         *)
(***************************************************************************)
EXTENDS CoSocket, TLAPS

Event == {"IN", "OUT", "HUP", "ERR"}

SocketTypeOK ==
    /\ job \in Workloads
    /\ open \subseteq Sock
    /\ inq \in [Fd -> Int] /\ room \in [Fd -> Int]
    /\ conn \in [Fd -> {"new", "pending", "up", "down", "error"}]
    /\ reg = [f \in Fd |-> reg[f]]
    /\ rdl \subseteq Fd
    /\ got = [e |-> got.e, ev |-> got.ev] /\ got.ev \subseteq Event
    /\ pc \in [Caller -> {"none", "queueing", "try", "iowait", "asleep", "resumed", "exited"}]
    /\ queued \subseteq Caller
    /\ ev \in [Caller -> SUBSET Event] /\ rev \in [Caller -> SUBSET Event]
    /\ timer \in [Caller -> {"none", "running", "expired"}]
    /\ left \in [Caller -> Nat]
    /\ res = [t \in Caller |-> res[t]]

\* A co_socket is registered until it is closed; other descriptors by the one who
\* waits for them; and only what is registered is on the ready list.
Registered ==
    /\ \A s \in Sock : reg[s] = IF s \in open THEN s ELSE None
    /\ \A f \in rdl : reg[f] # None

\* Whoever sleeps can be found by the listener: a call on a co_socket has its waiter in
\* the socket's list, and a co_io_wait() its iorq with epoll, until it has woken up.
Findable(t) ==
    /\ pc[t] \notin {"none", "exited"} => op(t) \in SocketOps \cup IoOps
    /\ pc[t] = "queueing" => op(t) \in SocketOps
    /\ pc[t] = "iowait" => op(t) \in IoOps
    /\ pc[t] \in {"try", "asleep", "resumed"} /\ op(t) \in SocketOps => t \in queued
    /\ pc[t] \in {"asleep", "resumed"} /\ op(t) \in IoOps => reg[fd(t)] = t

\* An error or a hang-up of a co_socket is never reported without EPOLLOUT.
WritersToo(t) == ev[t] \cap {"HUP", "ERR"} # {} => "OUT" \in ev[t]

\* So a send or connect that was resumed has EPOLLOUT, or its time is over.
ResumedForReason(t) ==
    op(t) \in {"send", "connect"} =>
        /\ WritersToo(t)
        /\ pc[t] = "resumed" => "OUT" \in rev[t] \/ timer[t] = "expired"

\* The mark of a sleeper whose descriptor is ready, or whose socket was closed, is made
\* or on its way.
Notified(t) ==
    pc[t] = "asleep" /\ (Gone(t) \/ Events(fd(t)) \cap Want(t) # {}) =>
        \/ ev[t] \cap Mask(t) # {}
        \/ fd(t) \in rdl
        \/ got.e = Iorq(t) /\ got.ev \cap Mask(t) # {}

SocketInv ==
    /\ SocketTypeOK
    /\ Registered
    /\ got.e \in Sock /\ got.ev \cap {"HUP", "ERR"} # {} => "OUT" \in got.ev
    /\ \A t \in Caller : Findable(t) /\ ResumedForReason(t) /\ Notified(t)

-----------------------------------------------------------------------------
(* Facts about descriptors and events.                                     *)

\* Calls on co_sockets and co_io_wait() work on different descriptors.
LEMMA JobFacts ==
  ASSUME job \in Workloads, NEW t \in Caller
  PROVE  /\ op(t) \in SocketOps => fd(t) \in Sock
         /\ op(t) \in IoOps => fd(t) \in Plain
  BY SocketAssumption DEF op, fd

LEMMA EventFacts ==
  ASSUME NEW f
  PROVE  Events(f) \subseteq Event /\ (Events(f) \cap {"HUP", "ERR"} # {} => "OUT" \in Events(f))
  BY DEF Events, Event

\* A descriptor gets no new event by being read, written or connected.
LEMMA NoNewEvents ==
  ASSUME NEW f, inq[f] \in Int, room[f] \in Int, inq'[f] \in Int, room'[f] \in Int,
         inq'[f] <= inq[f], room'[f] <= room[f],
         conn'[f] = conn[f] \/ (conn[f] = "new" /\ conn'[f] = "pending")
  PROVE  Events(f)' \subseteq Events(f)
  BY DEF Events

LEMMA InitInv == Init => SocketInv
  <1> SUFFICES ASSUME Init PROVE SocketInv
    OBVIOUS
  <1>1. SocketTypeOK
    BY SocketAssumption DEF Init, SocketTypeOK, NoEvent, Fd, None, Event
  <1>2. Registered
    BY SocketAssumption DEF Init, Registered, Fd, None
  <1>3. ASSUME NEW t \in Caller PROVE Findable(t) /\ ResumedForReason(t) /\ Notified(t)
    BY DEF Init, Findable, ResumedForReason, WritersToo, Notified
  <1>4. QED
    BY <1>1, <1>2, <1>3 DEF SocketInv, Init, NoEvent

-----------------------------------------------------------------------------
(* The network and the listener.                                           *)

\* The descriptor of a sleeper that is still open is registered.
LEMMA SleeperRegistered ==
  ASSUME SocketInv, NEW t \in Caller, pc[t] = "asleep", ~Gone(t)
  PROVE  fd(t) \in Fd /\ reg[fd(t)] # None /\ reg[fd(t)] = Iorq(t)
  <1>1. op(t) \in SocketOps \cup IoOps
    BY DEF SocketInv, Findable
  <1>2. CASE op(t) \in SocketOps
    BY <1>2, JobFacts, SocketAssumption
       DEF SocketInv, SocketTypeOK, Registered, Gone, Iorq, None, Fd
  <1>3. CASE op(t) \in IoOps
    <2>1. op(t) \notin SocketOps
      BY <1>3 DEF SocketOps, IoOps
    <2>2. reg[fd(t)] = t
      BY <1>3 DEF SocketInv, Findable
    <2>3. fd(t) \in Plain
      BY <1>3, JobFacts DEF SocketInv, SocketTypeOK
    <2>4. QED
      BY <2>1, <2>2, <2>3, SocketAssumption DEF Iorq, None, Fd
  <1>4. QED
    BY <1>1, <1>2, <1>3

\* A sleeper is in a call, and the iorq it is found by is its own or its co_socket's.
LEMMA SleeperCalls ==
  ASSUME SocketInv, NEW t \in Caller, pc[t] = "asleep"
  PROVE  Iorq(t) = t \/ Iorq(t) \notin Caller
  BY JobFacts, SocketAssumption DEF SocketInv, SocketTypeOK, Iorq

\* A change of descriptor f, with the edge it makes.
LEMMA NetStep ==
  ASSUME SocketInv, NEW f \in Fd, InUse(f), Edge(f), UNCHANGED callVars,
         inq' \in [Fd -> Int], room' \in [Fd -> Int],
         conn' \in [Fd -> {"new", "pending", "up", "down", "error"}],
         \A g \in Fd \ {f} : inq'[g] = inq[g] /\ room'[g] = room[g] /\ conn'[g] = conn[g]
  PROVE  SocketInv'
  <1> USE DEF callVars, waitVars
  <1>1. SocketTypeOK'
    BY DEF SocketInv, SocketTypeOK, Edge
  <1>2. Registered'
    BY DEF SocketInv, Registered, Edge
  <1>3. ASSUME NEW t \in Caller PROVE Findable(t)' /\ ResumedForReason(t)' /\ Notified(t)'
    <2>1. Findable(t)' /\ ResumedForReason(t)'
      BY DEF SocketInv, Findable, ResumedForReason, WritersToo, op, fd
    <2>2. SUFFICES ASSUME pc[t] = "asleep", (Gone(t) \/ Events(fd(t)) \cap Want(t) # {})'
                   PROVE  Notified(t)'
      BY <2>1 DEF Notified
    <2>3. CASE Gone(t)
      <3>1. ev[t] \cap Mask(t) # {} \/ fd(t) \in rdl \/ (got.e = Iorq(t) /\ got.ev \cap Mask(t) # {})
        BY <2>2, <2>3 DEF SocketInv, Notified
      <3>2. QED
        BY <3>1 DEF Notified, Edge, Mask, Want, Iorq, op, fd
    <2>4. CASE ~Gone(t) /\ fd(t) = f
      <3>1. reg[f] # None
        BY <2>2, <2>4, SleeperRegistered
      <3>2. fd(t)' \in rdl'
        BY <2>4, <3>1 DEF Edge, fd
      <3>3. QED
        BY <3>2 DEF Notified
    <2>5. CASE ~Gone(t) /\ fd(t) # f
      <3>1. fd(t) \in Fd \ {f} /\ ~Gone(t)'
        BY <2>2, <2>5, SleeperRegistered DEF Gone, fd
      <3>2. Events(fd(t))' = Events(fd(t)) /\ Want(t)' = Want(t)
        BY <3>1 DEF Events, fd, Want, op
      <3>3. ev[t] \cap Mask(t) # {} \/ fd(t) \in rdl \/ (got.e = Iorq(t) /\ got.ev \cap Mask(t) # {})
        BY <2>2, <3>1, <3>2 DEF SocketInv, Notified
      <3>4. QED
        BY <3>3 DEF Notified, Edge, Mask, Want, Iorq, op, fd
    <2>6. QED
      BY <2>1, <2>3, <2>4, <2>5
  <1>4. QED
    BY <1>1, <1>2, <1>3 DEF SocketInv

LEMMA NetInv ==
  ASSUME SocketInv, NEW f \in Fd, Arrive(f) \/ Drain(f) \/ Change(f)
  PROVE  SocketInv'
  <1> USE SocketAssumption DEF SocketInv, SocketTypeOK
  <1>1. CASE Arrive(f)
    <2>1. /\ inq' \in [Fd -> Int] /\ room' = room /\ conn' = conn
          /\ \A g \in Fd \ {f} : inq'[g] = inq[g]
      BY <1>1 DEF Arrive
    <2>2. QED
      BY <1>1, <2>1, NetStep DEF Arrive
  <1>2. CASE Drain(f)
    <2>1. /\ room' \in [Fd -> Int] /\ inq' = inq /\ conn' = conn
          /\ \A g \in Fd \ {f} : room'[g] = room[g]
      BY <1>2 DEF Drain
    <2>2. QED
      BY <1>2, <2>1, NetStep DEF Drain
  <1>3. CASE Change(f)
    <2>1. /\ conn' \in [Fd -> {"new", "pending", "up", "down", "error"}] /\ inq' = inq /\ room' = room
          /\ \A g \in Fd \ {f} : conn'[g] = conn[g]
      BY <1>3 DEF Change
    <2>2. QED
      BY <1>3, <2>1, NetStep DEF Change
  <1>4. QED
    BY <1>1, <1>2, <1>3

\* epoll_wait(): what leaves the ready list is in the listener's hands.
LEMMA WaitInv ==
  ASSUME SocketInv, NEW f \in Fd, epoll_wait_events(f)
  PROVE  SocketInv'
  <1> USE DEF epoll_wait_events, netVars, waitVars
  <1>1. SocketTypeOK'
    <2>1. Reported(f) \subseteq Event
      BY EventFacts DEF Reported
    <2>2. QED
      BY <2>1 DEF SocketInv, SocketTypeOK
  <1>2. Registered' /\ (got'.e \in Sock /\ got'.ev \cap {"HUP", "ERR"} # {} => "OUT" \in got'.ev)
    <2>1. CASE Reported(f) = {}
      BY <2>1 DEF SocketInv, Registered
    <2>2. CASE Reported(f) # {} /\ reg[f] \in Sock
      <3>1. Reported(f) = Events(f) \cap Event
        BY <2>2, SocketAssumption DEF Reported, Event
      <3>2. QED
        BY <2>2, <3>1, EventFacts DEF SocketInv, Registered, Event
    <2>3. CASE Reported(f) # {} /\ reg[f] \notin Sock
      BY <2>3 DEF SocketInv, Registered
    <2>4. QED
      BY <2>1, <2>2, <2>3
  <1>3. ASSUME NEW t \in Caller PROVE Findable(t)' /\ ResumedForReason(t)' /\ Notified(t)'
    <2>1. Findable(t)' /\ ResumedForReason(t)'
      BY DEF SocketInv, Findable, ResumedForReason, WritersToo, op, fd
    <2>2. /\ Gone(t)' = Gone(t) /\ Events(fd(t))' = Events(fd(t)) /\ Want(t)' = Want(t)
          /\ Mask(t)' = Mask(t) /\ Iorq(t)' = Iorq(t) /\ fd(t)' = fd(t) /\ Want(t) \subseteq Mask(t)
      BY DEF Gone, Events, Want, Mask, Iorq, op, fd
    <2>3. SUFFICES ASSUME pc[t] = "asleep", Gone(t) \/ Events(fd(t)) \cap Want(t) # {}
                   PROVE  Notified(t)'
      BY <2>1, <2>2 DEF Notified
    <2>4. ev[t] \cap Mask(t) # {} \/ fd(t) \in rdl
      BY <2>3 DEF SocketInv, Notified, NoEvent
    <2>5. CASE ev[t] \cap Mask(t) # {} \/ (fd(t) \in rdl /\ fd(t) # f)
      BY <2>2, <2>5 DEF Notified
    <2>6. CASE fd(t) \in rdl /\ fd(t) = f
      <3>1. ~Gone(t)
        BY <2>6 DEF SocketInv, Registered, Gone, None
      <3>2. reg[f] = Iorq(t)
        BY <2>3, <2>6, <3>1, SleeperRegistered
      <3>3. Events(f) \cap Want(t) # {}
        BY <2>3, <2>6, <3>1
      <3>4. CASE ~Armed(f)
        <4>1. reg[f] = t /\ ev[t] # {}
          BY <2>3, <3>2, <3>4, SleeperCalls DEF Armed
        <4>2. Mask(t) = Event
          BY <3>4, <4>1 DEF Armed, Mask, Want, Event
        <4>3. ev[t] \cap Mask(t) # {}
          BY <4>1, <4>2 DEF SocketInv, SocketTypeOK
        <4>4. QED
          BY <2>2, <4>3 DEF Notified
      <3>5. CASE Armed(f)
        <4>1. Events(f) \cap Want(t) \subseteq Reported(f)
          <5>1. CASE reg[f] \in Caller
            <6>1. reg[f] = t
              BY <2>3, <3>2, <5>1, SleeperCalls
            <6>2. QED
              BY <2>2, <3>5, <5>1, <6>1 DEF Reported
          <5>2. CASE reg[f] \notin Caller
            BY <3>5, <5>2, EventFacts DEF Reported, Event
          <5>3. QED
            BY <5>1, <5>2
        <4>2. got'.e = Iorq(t) /\ got'.ev \cap Mask(t) # {}
          BY <2>2, <3>2, <3>3, <4>1
        <4>3. QED
          BY <2>2, <4>2 DEF Notified
      <3>6. QED
        BY <3>4, <3>5
    <2>7. QED
      BY <2>4, <2>5, <2>6
  <1>4. QED
    BY <1>1, <1>2, <1>3 DEF SocketInv

\* epoll_listener_thread(): every sleeper found through the iorq is marked.
LEMMA ListenerInv ==
  ASSUME SocketInv, epoll_listener_thread
  PROVE  SocketInv'
  <1> USE DEF epoll_listener_thread, netVars
  <1>1. SocketTypeOK'
    BY DEF SocketInv, SocketTypeOK, NoEvent
  <1>2. Registered' /\ got'.ev = {}
    BY DEF SocketInv, Registered, NoEvent
  <1>3. ASSUME NEW t \in Caller PROVE Findable(t)' /\ ResumedForReason(t)' /\ Notified(t)'
    <2>1. Findable(t)'
      BY DEF SocketInv, Findable, op, fd
    <2>2. ev'[t] = (IF t \in WaitersOf(got.e) THEN ev[t] \cup got.ev ELSE ev[t])
      BY DEF SocketInv, SocketTypeOK
    <2>3. ResumedForReason(t)'
      <3>1. CASE op(t) \in {"send", "connect"} /\ t \in WaitersOf(got.e)
        <4>1. fd(t) \in Sock
          BY <3>1, JobFacts DEF SocketInv, SocketTypeOK, SocketOps
        <4>2. reg[fd(t)] # t
          BY <4>1, SocketAssumption DEF SocketInv, Registered, None
        <4>3. got.e \in Sock
          BY <3>1, <4>1, <4>2 DEF WaitersOf
        <4>4. QED
          BY <2>2, <3>1, <4>3 DEF SocketInv, ResumedForReason, WritersToo, op
      <3>2. CASE op(t) \notin {"send", "connect"} \/ t \notin WaitersOf(got.e)
        BY <2>2, <3>2 DEF SocketInv, ResumedForReason, WritersToo, op
      <3>3. QED
        BY <3>1, <3>2
    <2>4. /\ Gone(t)' = Gone(t) /\ Events(fd(t))' = Events(fd(t)) /\ Want(t)' = Want(t)
          /\ Mask(t)' = Mask(t) /\ fd(t)' = fd(t)
      BY DEF Gone, Events, Want, Mask, op, fd
    <2>5. SUFFICES ASSUME pc[t] = "asleep", Gone(t) \/ Events(fd(t)) \cap Want(t) # {}
                   PROVE  ev'[t] \cap Mask(t) # {} \/ fd(t) \in rdl
      BY <2>1, <2>3, <2>4 DEF Notified
    <2>6. CASE got.e = Iorq(t) /\ got.ev \cap Mask(t) # {}
      <3>1. t \in WaitersOf(got.e)
        <4>1. CASE op(t) \in SocketOps
          BY <2>5, <2>6, <4>1 DEF SocketInv, Findable, Iorq, WaitersOf
        <4>2. CASE op(t) \notin SocketOps
          BY <2>5, <2>6, <4>2 DEF SocketInv, Findable, Iorq, WaitersOf
        <4>3. QED
          BY <4>1, <4>2
      <3>2. QED
        BY <2>2, <2>6, <3>1
    <2>7. CASE ev[t] \cap Mask(t) # {} \/ fd(t) \in rdl
      BY <2>2, <2>7
    <2>8. QED
      BY <2>5, <2>6, <2>7 DEF SocketInv, Notified
  <1>4. QED
    BY <1>1, <1>2, <1>3 DEF SocketInv

-----------------------------------------------------------------------------
(* The callers.                                                            *)

\* What a step of caller t leaves of another: sleepers keep their registration and
\* their place on the ready list, and no descriptor gets a new event.
OthersUndisturbed(t) ==
    /\ job' = job /\ open' = open /\ got' = got
    /\ \A f \in Fd : inq'[f] <= inq[f] /\ room'[f] <= room[f]
    /\ \A f \in Fd : conn'[f] = conn[f] \/ (conn[f] = "new" /\ conn'[f] = "pending")
    /\ \A u \in Caller \ {t} :
         /\ pc'[u] = pc[u] /\ ev'[u] = ev[u] /\ rev'[u] = rev[u] /\ timer'[u] = timer[u]
         /\ u \in queued => u \in queued'
         /\ pc[u] \in {"asleep", "resumed"} => /\ reg'[fd(u)] = reg[fd(u)]
                                               /\ fd(u) \in rdl => fd(u) \in rdl'

LEMMA CallStep ==
  ASSUME SocketInv, NEW t \in Caller, SocketTypeOK', Registered', OthersUndisturbed(t),
         Findable(t)', ResumedForReason(t)', Notified(t)'
  PROVE  SocketInv'
  <1>1. ASSUME NEW u \in Caller, u # t PROVE Findable(u)' /\ ResumedForReason(u)' /\ Notified(u)'
    <2>1. Findable(u) /\ ResumedForReason(u) /\ Notified(u)
      BY DEF SocketInv
    <2>2. /\ op(u)' = op(u) /\ fd(u)' = fd(u) /\ Gone(u)' = Gone(u) /\ Want(u)' = Want(u)
          /\ Mask(u)' = Mask(u) /\ Iorq(u)' = Iorq(u)
      BY DEF OthersUndisturbed, op, fd, Gone, Want, Mask, Iorq
    <2>3. Findable(u)' /\ ResumedForReason(u)'
      BY <1>1, <2>1, <2>2 DEF OthersUndisturbed, Findable, ResumedForReason, WritersToo
    <2>4. SUFFICES ASSUME pc[u] = "asleep", Gone(u) \/ Events(fd(u))' \cap Want(u) # {}
                   PROVE  Notified(u)'
      BY <1>1, <2>2, <2>3 DEF Notified, OthersUndisturbed
    <2>5. Gone(u) \/ Events(fd(u)) \cap Want(u) # {}
      <3>1. CASE Gone(u)
        BY <3>1
      <3>2. CASE ~Gone(u)
        <4>1. fd(u) \in Fd
          BY <2>4, <3>2, SleeperRegistered
        <4>2. Events(fd(u))' \subseteq Events(fd(u))
          <5>1. fd(u)' = fd(u)
            BY <2>2
          <5>2. /\ inq[fd(u)] \in Int /\ room[fd(u)] \in Int
                /\ inq'[fd(u)] \in Int /\ room'[fd(u)] \in Int
            BY <4>1 DEF SocketInv, SocketTypeOK
          <5>3. /\ inq'[fd(u)] <= inq[fd(u)] /\ room'[fd(u)] <= room[fd(u)]
                /\ \/ conn'[fd(u)] = conn[fd(u)]
                   \/ conn[fd(u)] = "new" /\ conn'[fd(u)] = "pending"
            BY <4>1 DEF OthersUndisturbed
          <5>4. QED
            BY <5>1, <5>2, <5>3 DEF Events
        <4>3. QED
          BY <2>4, <3>2, <4>2
      <3>3. QED
        BY <3>1, <3>2
    <2>6. ev[u] \cap Mask(u) # {} \/ fd(u) \in rdl \/ (got.e = Iorq(u) /\ got.ev \cap Mask(u) # {})
      BY <2>1, <2>4, <2>5 DEF Notified
    <2>7. QED
      BY <1>1, <2>2, <2>4, <2>6 DEF Notified, OthersUndisturbed
  <1>2. got'.e \in Sock /\ got'.ev \cap {"HUP", "ERR"} # {} => "OUT" \in got'.ev
    BY DEF SocketInv, OthersUndisturbed
  <1>3. QED
    BY <1>1, <1>2 DEF SocketInv

\* A caller that runs, with its marks as they were or gone, owes nothing.
LEMMA Awake ==
  ASSUME SocketInv, NEW t \in Caller, job' = job,
         pc'[t] \in {"none", "queueing", "try", "iowait"},
         pc'[t] # "none" => op(t) \in SocketOps \cup IoOps,
         pc'[t] = "queueing" => op(t) \in SocketOps,
         pc'[t] = "iowait" => op(t) \in IoOps,
         pc'[t] = "try" /\ op(t) \in SocketOps => t \in queued',
         ev'[t] = ev[t] \/ ev'[t] = {}
  PROVE  Findable(t)' /\ ResumedForReason(t)' /\ Notified(t)'
  <1>1. op(t)' = op(t) /\ fd(t)' = fd(t)
    BY DEF op, fd
  <1>2. ResumedForReason(t)
    BY DEF SocketInv
  <1>3. QED
    BY <1>1, <1>2 DEF Findable, ResumedForReason, WritersToo, Notified

\* A call on a co_socket that would block, with its waiter in the list, may sleep.
LEMMA SleepOnSocket ==
  ASSUME SocketInv, NEW t \in Caller, op(t) \in SocketOps, t \in queued,
         ~Gone(t)', Events(fd(t))' \cap Want(t) = {},
         UNCHANGED <<job, queued, ev>>, pc'[t] = "asleep"
  PROVE  Findable(t)' /\ ResumedForReason(t)' /\ Notified(t)'
  <1>1. op(t)' = op(t) /\ fd(t)' = fd(t) /\ Want(t)' = Want(t)
    BY DEF op, fd, Want
  <1>2. ResumedForReason(t) /\ op(t) \notin IoOps
    BY DEF SocketInv, SocketOps, IoOps
  <1>3. QED
    BY <1>1, <1>2 DEF Findable, ResumedForReason, WritersToo, Notified

\* What the end of a call leaves: its caller awake, everybody else as they were.
CallerTypes ==
    /\ pc' \in [Caller -> {"none", "queueing", "try", "iowait", "asleep", "resumed", "exited"}]
    /\ queued' \subseteq Caller
    /\ ev' \in [Caller -> SUBSET Event] /\ rev' \in [Caller -> SUBSET Event]
    /\ timer' \in [Caller -> {"none", "running", "expired"}]
    /\ left' \in [Caller -> Nat] /\ res' = [u \in Caller |-> res'[u]]

OthersAsTheyWere(t) ==
    \A u \in Caller \ {t} : /\ pc'[u] = pc[u] /\ ev'[u] = ev[u] /\ rev'[u] = rev[u]
                            /\ timer'[u] = timer[u]
                            /\ u \in queued => u \in queued'

LEMMA ReturnFacts ==
  ASSUME SocketInv, NEW t \in Caller, NEW x, Return(t, x), job' = job
  PROVE  /\ Findable(t)' /\ ResumedForReason(t)' /\ Notified(t)'
         /\ OthersAsTheyWere(t) /\ CallerTypes
  <1>1. SocketTypeOK
    BY DEF SocketInv
  <1>2. pc'[t] = "none" /\ ev'[t] = {}
    BY <1>1 DEF Return, SocketTypeOK
  <1>3. Findable(t)' /\ ResumedForReason(t)' /\ Notified(t)'
    BY <1>2, Awake
  <1>4. OthersAsTheyWere(t)
    BY <1>1 DEF Return, SocketTypeOK, OthersAsTheyWere
  <1>5. CallerTypes
    BY <1>1 DEF Return, SocketTypeOK, CallerTypes
  <1>6. QED
    BY <1>3, <1>4, <1>5

\* What a call does when its wait is over: it goes on or returns, awake in any case.
LEMMA ResumeFacts ==
  ASSUME SocketInv, NEW t \in Caller, op(t) \in IoOps, NEW r, Resume(t, r), job' = job
  PROVE  /\ Findable(t)' /\ ResumedForReason(t)' /\ Notified(t)'
         /\ OthersAsTheyWere(t) /\ CallerTypes
  <1>a. SocketTypeOK
    BY DEF SocketInv
  <1>b. AfterWait(t, r) \in {"iowait", "return", "try"}
    BY DEF AfterWait
  <1>c. op(t) \notin SocketOps
    BY DEF SocketOps, IoOps
  <1>1. CASE AfterWait(t, r) = "return"
    <2>1. PICK x : Return(t, x)
      BY <1>1 DEF Resume
    <2>2. QED
      BY <2>1, ReturnFacts
  <1>2. CASE AfterWait(t, r) # "return"
    <2>1. /\ pc' = [pc EXCEPT ![t] = AfterWait(t, r)] /\ ev' = [ev EXCEPT ![t] = {}]
          /\ rev' = [rev EXCEPT ![t] = {}] /\ timer' = [timer EXCEPT ![t] = "none"]
          /\ UNCHANGED <<queued, left, res>>
      BY <1>2 DEF Resume
    <2>2. pc'[t] \in {"iowait", "try"} /\ ev'[t] = {}
      BY <1>a, <1>b, <1>2, <2>1 DEF SocketTypeOK
    <2>3. Findable(t)' /\ ResumedForReason(t)' /\ Notified(t)'
      BY <1>c, <2>2, Awake
    <2>4. OthersAsTheyWere(t) /\ CallerTypes
      BY <1>a, <1>b, <1>2, <2>1 DEF SocketTypeOK, OthersAsTheyWere, CallerTypes
    <2>5. QED
      BY <2>3, <2>4
  <1>3. QED
    BY <1>1, <1>2

\* co_io_wait(): the iorq is registered, with the events that are there already; no one
\* else waits for the descriptor.
LEMMA IoWaitInv ==
  ASSUME SocketInv, NEW t \in Caller, co_io_wait(t)
  PROVE  SocketInv'
  <1>a. SocketTypeOK /\ Registered /\ Findable(t) /\ ResumedForReason(t) /\ t # None
    BY SocketAssumption DEF SocketInv, None
  <1>b. op(t) \in IoOps /\ op(t) \notin SocketOps /\ fd(t) \in Plain /\ fd(t) \in Fd /\ fd(t) \notin Sock
    BY <1>a, JobFacts, SocketAssumption
       DEF co_io_wait, Findable, SocketTypeOK, Fd, SocketOps, IoOps
  <1>c. UNCHANGED <<job, open, inq, room, conn, got, stale>>
    BY DEF co_io_wait, netVars
  <1>0. CASE reg[fd(t)] # None /\ op(t) = "co_poll"
    <2>1. pc' = [c \in Caller |-> "exited"] /\ UNCHANGED <<reg, rdl, waitVars, left, res>>
      BY <1>0 DEF co_io_wait
    <2>2. SocketTypeOK' /\ Registered' /\ got' = got
      BY <1>a, <1>c, <2>1 DEF SocketTypeOK, Registered, waitVars
    <2>3. ASSUME NEW u \in Caller PROVE Findable(u)' /\ ResumedForReason(u)' /\ Notified(u)'
      <3>1. pc'[u] = "exited" /\ op(u)' = op(u) /\ ev' = ev
        BY <1>c, <2>1 DEF op, waitVars
      <3>2. QED
        BY <3>1 DEF SocketInv, Findable, ResumedForReason, WritersToo, Notified
    <2>4. QED
      BY <2>2, <2>3 DEF SocketInv
  <1>1. CASE reg[fd(t)] # None /\ op(t) # "co_poll"
    <2>1. Resume(t, {"ERR"}) /\ UNCHANGED <<reg, rdl>>
      BY <1>1 DEF co_io_wait
    <2>2. SocketTypeOK' /\ OthersUndisturbed(t)
      BY <1>a, <1>b, <1>c, <2>1, ResumeFacts
         DEF SocketTypeOK, OthersUndisturbed, OthersAsTheyWere, CallerTypes
    <2>3. Registered'
      BY <1>a, <1>c, <2>1 DEF Registered
    <2>4. QED
      BY <1>b, <1>c, <2>1, <2>2, <2>3, ResumeFacts, CallStep
  <1>2. CASE reg[fd(t)] = None
    <2>1. /\ reg' = [reg EXCEPT ![fd(t)] = t]
          /\ rdl' = IF Events(fd(t)) \cap Mask(t) = {} THEN rdl ELSE rdl \cup {fd(t)}
          /\ pc'  = [pc EXCEPT ![t] = "asleep"]
          /\ timer' = [timer EXCEPT ![t] = Timer(t)]
          /\ UNCHANGED <<queued, ev, rev, left, res>>
      BY <1>2 DEF co_io_wait
    <2>2. SocketTypeOK'
      BY <1>a, <1>b, <1>c, <2>1 DEF SocketTypeOK, Timer
    <2>3. Registered'
      <3>1. reg'[fd(t)] = t /\ \A f \in Fd \ {fd(t)} : reg'[f] = reg[f]
        BY <1>a, <1>b, <2>1 DEF SocketTypeOK
      <3>2. \A f \in rdl' : f = fd(t) \/ f \in rdl
        BY <2>1
      <3>3. QED
        BY <1>a, <1>b, <1>c, <3>1, <3>2 DEF Registered, SocketTypeOK, Fd
    <2>4. OthersUndisturbed(t)
      <3>1. ASSUME NEW u \in Caller \ {t}, pc[u] \in {"asleep", "resumed"} PROVE reg'[fd(u)] = reg[fd(u)]
        <4>1. CASE op(u) \in IoOps
          <5>1. reg[fd(u)] = u /\ u # None
            BY <3>1, <4>1, SocketAssumption DEF SocketInv, Findable, None
          <5>2. fd(u) # fd(t)
            BY <1>2, <5>1
          <5>3. QED
            BY <1>a, <2>1, <5>2 DEF SocketTypeOK
        <4>2. CASE op(u) \in SocketOps
          <5>1. fd(u) # fd(t)
            BY <1>a, <1>b, <4>2, JobFacts DEF SocketTypeOK
          <5>2. QED
            BY <1>a, <2>1, <5>1 DEF SocketTypeOK
        <4>3. QED
          BY <3>1, <4>1, <4>2 DEF SocketInv, Findable
      <3>2. QED
        BY <1>a, <1>c, <2>1, <3>1 DEF SocketTypeOK, OthersUndisturbed
    <2>5. Findable(t)' /\ ResumedForReason(t)' /\ Notified(t)'
      <3>1. op(t)' = op(t) /\ fd(t)' = fd(t) /\ Events(fd(t))' = Events(fd(t)) /\ ~Gone(t)'
        BY <1>b, <1>c DEF op, fd, Events, Gone
      <3>2. pc'[t] = "asleep" /\ reg'[fd(t)] = t
        BY <1>a, <1>b, <2>1 DEF SocketTypeOK
      <3>3. Findable(t)'
        BY <1>b, <3>1, <3>2 DEF Findable
      <3>4. ResumedForReason(t)'
        BY <1>b, <3>1 DEF ResumedForReason, SocketOps
      <3>5. Notified(t)'
        <4>1. Want(t)' = Want(t) /\ Want(t) \subseteq Mask(t)
          BY <3>1 DEF Want, Mask
        <4>2. QED
          BY <2>1, <3>1, <4>1 DEF Notified
      <3>6. QED
        BY <3>3, <3>4, <3>5
    <2>6. QED
      BY <2>2, <2>3, <2>4, <2>5, CallStep
  <1>3. QED
    BY <1>0, <1>1, <1>2

\* The rest of co_io_wait(): the registration that goes is the caller's own.
LEMMA IoReturnInv ==
  ASSUME SocketInv, NEW t \in Caller, co_io_wait_return(t)
  PROVE  SocketInv'
  <1>a. SocketTypeOK /\ Registered /\ Findable(t) /\ t # None
    BY SocketAssumption DEF SocketInv, None
  <1>b. /\ op(t) \in IoOps /\ fd(t) \in Plain /\ fd(t) \in Fd /\ fd(t) \notin Sock
        /\ reg[fd(t)] = t
    BY <1>a, JobFacts, SocketAssumption
       DEF co_io_wait_return, Findable, SocketTypeOK, Fd
  <1>c. /\ UNCHANGED <<job, open, inq, room, conn, got, stale>> /\ Resume(t, rev[t])
        /\ reg' = [reg EXCEPT ![fd(t)] = None] /\ rdl' = rdl \ {fd(t)}
    BY DEF co_io_wait_return, netVars
  <1>1. SocketTypeOK'
    BY <1>a, <1>b, <1>c, ResumeFacts DEF SocketTypeOK, CallerTypes
  <1>2. Registered'
    BY <1>a, <1>b, <1>c DEF Registered, SocketTypeOK, Fd
  <1>3. ASSUME NEW u \in Caller \ {t}, pc[u] \in {"asleep", "resumed"} PROVE fd(u) # fd(t)
    <2>1. CASE op(u) \in IoOps
      BY <1>b, <1>3, <2>1 DEF SocketInv, Findable
    <2>2. CASE op(u) \in SocketOps
      BY <1>a, <1>b, <2>2, JobFacts DEF SocketTypeOK
    <2>3. QED
      BY <1>3, <2>1, <2>2 DEF SocketInv, Findable
  <1>4. OthersUndisturbed(t)
    <2>1. \A u \in Caller \ {t} :
             pc[u] \in {"asleep", "resumed"} => reg'[fd(u)] = reg[fd(u)] /\ (fd(u) \in rdl => fd(u) \in rdl')
      BY <1>a, <1>c, <1>3 DEF SocketTypeOK
    <2>2. QED
      BY <1>a, <1>b, <1>c, <2>1, ResumeFacts DEF SocketTypeOK, OthersUndisturbed, OthersAsTheyWere
  <1>5. QED
    BY <1>b, <1>c, <1>1, <1>2, <1>4, ResumeFacts, CallStep


\* The steps of a caller, one case per call.
LEMMA CallerInv ==
  ASSUME SocketInv, NEW t \in Caller, enter(t) \/ Progress(t) \/ clock(t)
  PROVE  SocketInv'
  <1> USE SocketAssumption DEF netVars, waitVars
  <1>a. SocketTypeOK /\ Registered
    BY DEF SocketInv
  <1>b. Findable(t) /\ ResumedForReason(t) /\ Notified(t)
    BY DEF SocketInv
  <1>c. (op(t) \in SocketOps => fd(t) \in Sock) /\ (op(t) \in IoOps => fd(t) \in Plain)
    BY <1>a, JobFacts DEF SocketTypeOK
  <1>d. SocketOps \cap IoOps = {}
    BY DEF SocketOps, IoOps
  <1> USE <1>a
  <1>1. CASE enter(t)
    <2>1. SocketTypeOK'
      BY <1>1 DEF SocketTypeOK, enter
    <2>2. Registered'
      BY <1>1 DEF Registered, enter
    <2>3. OthersUndisturbed(t)
      BY <1>1 DEF SocketTypeOK, OthersUndisturbed, enter
    <2>4. Findable(t)' /\ ResumedForReason(t)' /\ Notified(t)'
      <3>1. /\ job' = job /\ pc'[t] \in {"none", "queueing", "try", "iowait"}
            /\ pc'[t] # "none" => op(t) \in SocketOps \cup IoOps
            /\ pc'[t] = "queueing" => op(t) \in SocketOps
            /\ pc'[t] = "iowait" => op(t) \in IoOps
            /\ pc'[t] = "try" /\ op(t) \in SocketOps => t \in queued'
            /\ ev'[t] = ev[t] \/ ev'[t] = {}
        BY <1>1, <1>b DEF SocketTypeOK, Findable, enter
      <3>2. QED
        BY <3>1, Awake
    <2>5. QED
      BY <2>1, <2>2, <2>3, <2>4, CallStep
  <1>2. CASE epoll_queue(t)
    <2>1. SocketTypeOK'
      BY <1>2 DEF SocketTypeOK, epoll_queue, Timer
    <2>2. Registered'
      BY <1>2 DEF Registered, epoll_queue, Timer
    <2>3. OthersUndisturbed(t)
      BY <1>2 DEF SocketTypeOK, OthersUndisturbed, epoll_queue, Timer
    <2>4. Findable(t)' /\ ResumedForReason(t)' /\ Notified(t)'
      <3>1. /\ job' = job /\ pc'[t] \in {"none", "queueing", "try", "iowait"}
            /\ pc'[t] # "none" => op(t) \in SocketOps \cup IoOps
            /\ pc'[t] = "queueing" => op(t) \in SocketOps
            /\ pc'[t] = "iowait" => op(t) \in IoOps
            /\ pc'[t] = "try" /\ op(t) \in SocketOps => t \in queued'
            /\ ev'[t] = ev[t] \/ ev'[t] = {}
        BY <1>2, <1>b DEF SocketTypeOK, Findable, epoll_queue
      <3>2. QED
        BY <3>1, Awake
    <2>5. QED
      BY <2>1, <2>2, <2>3, <2>4, CallStep
  <1>3. CASE take(t)
    <2>1. PICK x : Return(t, x)
      BY <1>3 DEF take
    <2>2. UNCHANGED <<job, open, room, conn, reg, rdl, got, stale>> /\ fd(t) \in Fd
      BY <1>3, <1>b, <1>c DEF take, Findable, Fd
    <2>3. inq' \in [Fd -> Int] /\ \A f \in Fd : inq'[f] <= inq[f]
      BY <1>3, <2>2 DEF take, SocketTypeOK
    <2>4. SocketTypeOK' /\ Registered'
      BY <2>1, <2>2, <2>3, ReturnFacts DEF SocketTypeOK, CallerTypes, Registered
    <2>5. OthersUndisturbed(t)
      BY <2>1, <2>2, <2>3, ReturnFacts DEF SocketTypeOK, OthersUndisturbed, OthersAsTheyWere
    <2>6. QED
      BY <2>1, <2>2, <2>4, <2>5, ReturnFacts, CallStep
  <1>4. CASE put(t)
    <2>2. UNCHANGED <<job, open, inq, conn, reg, rdl, got, stale>> /\ fd(t) \in Fd /\ pc[t] = "try"
      BY <1>4, <1>b, <1>c DEF put, Findable, Fd
    <2>3. room' \in [Fd -> Int] /\ \A f \in Fd : room'[f] <= room[f]
      <3>1. CASE ~CanWrite(t)
        BY <1>4, <3>1 DEF put, SocketTypeOK
      <3>2. CASE CanWrite(t)
        <4>1. left[t] \in Nat /\ room[fd(t)] \in Int /\ room[fd(t)] > 0
          BY <2>2, <3>2 DEF CanWrite, SocketTypeOK
        <4>2. PICK n \in Int : n >= 0 /\ room' = [room EXCEPT ![fd(t)] = @ - n]
          BY <1>4, <3>2, <4>1 DEF put
        <4>3. QED
          BY <2>2, <4>1, <4>2 DEF SocketTypeOK
      <3>3. QED
        BY <3>1, <3>2
    <2>4. CASE \E x : Return(t, x)
      <3>1. PICK x : Return(t, x)
        BY <2>4
      <3>2. SocketTypeOK' /\ Registered'
        BY <3>1, <2>2, <2>3, ReturnFacts DEF SocketTypeOK, CallerTypes, Registered
      <3>3. OthersUndisturbed(t)
        BY <3>1, <2>2, <2>3, ReturnFacts DEF SocketTypeOK, OthersUndisturbed, OthersAsTheyWere
      <3>4. QED
        BY <3>1, <2>2, <3>2, <3>3, ReturnFacts, CallStep
    <2>5. CASE ~\E x : Return(t, x)
      <3>1. PICK n \in Nat : left' = [left EXCEPT ![t] = n]
        BY <1>4, <2>2, <2>5 DEF put, SocketTypeOK
      <3>2. /\ timer' = [timer EXCEPT ![t] = IF op(t) = "send" THEN Timer(t) ELSE @]
            /\ UNCHANGED <<pc, queued, ev, rev, res>>
        BY <1>4, <2>5 DEF put
      <3>3. SocketTypeOK' /\ Registered'
        BY <2>2, <2>3, <3>1, <3>2 DEF SocketTypeOK, Registered, Timer
      <3>4. OthersUndisturbed(t)
        BY <2>2, <2>3, <3>2 DEF SocketTypeOK, OthersUndisturbed
      <3>5. Findable(t)' /\ ResumedForReason(t)' /\ Notified(t)'
        BY <1>b, <2>2, <3>2, Awake DEF Findable
      <3>6. QED
        BY <3>3, <3>4, <3>5, CallStep
    <2>6. QED
      BY <2>4, <2>5
  <1>5. CASE pclthread(t)
    <2>1. SocketTypeOK'
      BY <1>5 DEF SocketTypeOK, pclthread
    <2>2. Registered'
      BY <1>5 DEF Registered, pclthread
    <2>3. OthersUndisturbed(t)
      BY <1>5 DEF SocketTypeOK, OthersUndisturbed, pclthread
    <2>4. Findable(t)' /\ ResumedForReason(t)' /\ Notified(t)'
      <3>1. /\ op(t)' = op(t) /\ fd(t)' = fd(t) /\ pc[t] = "asleep" /\ pc'[t] = "resumed"
            /\ rev'[t] = ev[t] /\ ev'[t] = ev[t] \ Mask(t) /\ timer'[t] = timer[t]
            /\ queued' = queued /\ reg' = reg
            /\ ev[t] \cap Mask(t) # {} \/ timer[t] = "expired"
        BY <1>5 DEF SocketTypeOK, pclthread, op, fd
      <3>2. Findable(t)' /\ Notified(t)'
        BY <1>b, <3>1 DEF Findable, Notified
      <3>3. op(t) \in {"send", "connect"} => Mask(t) = {"OUT", "ERR", "HUP"}
        BY DEF Mask, Want, Receives
      <3>4. ResumedForReason(t)'
        BY <1>b, <3>1, <3>3 DEF ResumedForReason, WritersToo
      <3>5. QED
        BY <3>2, <3>4
    <2>5. QED
      BY <2>1, <2>2, <2>3, <2>4, CallStep
  <1>6. CASE co_socket_recv(t)
    <2>1. SocketTypeOK'
      BY <1>6 DEF SocketTypeOK, co_socket_recv, Return, Block
    <2>2. Registered'
      BY <1>6 DEF Registered, co_socket_recv, Return, Block
    <2>3. OthersUndisturbed(t)
      BY <1>6 DEF SocketTypeOK, OthersUndisturbed, co_socket_recv, Return, Block
    <2>4. Findable(t)' /\ ResumedForReason(t)' /\ Notified(t)'
      <3>1. CASE pc' = [pc EXCEPT ![t] = "asleep"] /\ UNCHANGED <<job, queued, ev, open, conn, inq, room>>
        <4>1. ~Gone(t)' /\ Events(fd(t))' \cap Want(t) = {}
          BY <1>6, <3>1 DEF co_socket_recv, WouldBlock, CanWrite, Gone, Events, Want, Receives, op, fd
        <4>2. t \in queued /\ op(t) \in SocketOps /\ pc'[t] = "asleep"
          BY <1>6, <1>b, <3>1 DEF SocketTypeOK, co_socket_recv, Findable, SocketOps
        <4>3. QED
          BY <3>1, <4>1, <4>2, SleepOnSocket
      <3>2. CASE Return(t, "timeout") /\ job' = job
        BY <3>2, Awake DEF Return, SocketTypeOK
      <3>3. QED
        BY <1>6, <3>1, <3>2 DEF co_socket_recv, Block
    <2>5. QED
      BY <2>1, <2>2, <2>3, <2>4, CallStep
  <1>7. CASE co_socket_recv_resume(t)
    <2>1. SocketTypeOK'
      BY <1>7 DEF SocketTypeOK, co_socket_recv_resume
    <2>2. Registered'
      BY <1>7 DEF Registered, co_socket_recv_resume
    <2>3. OthersUndisturbed(t)
      BY <1>7 DEF SocketTypeOK, OthersUndisturbed, co_socket_recv_resume
    <2>4. Findable(t)' /\ ResumedForReason(t)' /\ Notified(t)'
      <3>1. /\ job' = job /\ pc'[t] \in {"none", "queueing", "try", "iowait"}
            /\ pc'[t] # "none" => op(t) \in SocketOps \cup IoOps
            /\ pc'[t] = "queueing" => op(t) \in SocketOps
            /\ pc'[t] = "iowait" => op(t) \in IoOps
            /\ pc'[t] = "try" /\ op(t) \in SocketOps => t \in queued'
            /\ ev'[t] = ev[t] \/ ev'[t] = {}
        BY <1>7, <1>b DEF SocketTypeOK, Findable, co_socket_recv_resume, SocketOps
      <3>2. QED
        BY <3>1, Awake
    <2>5. QED
      BY <2>1, <2>2, <2>3, <2>4, CallStep
  <1>8. CASE co_socket_send(t)
    <2>1. SocketTypeOK'
      BY <1>8 DEF SocketTypeOK, co_socket_send, Block
    <2>2. Registered'
      BY <1>8 DEF Registered, co_socket_send, Block
    <2>3. OthersUndisturbed(t)
      BY <1>8 DEF SocketTypeOK, OthersUndisturbed, co_socket_send, Block
    <2>4. Findable(t)' /\ ResumedForReason(t)' /\ Notified(t)'
      <3>1. CASE pc' = [pc EXCEPT ![t] = "asleep"] /\ UNCHANGED <<job, queued, ev, open, conn, inq, room>>
        <4>1. ~Gone(t)' /\ Events(fd(t))' \cap Want(t) = {}
          BY <1>8, <3>1 DEF co_socket_send, WouldBlock, CanWrite, Gone, Events, Want, Receives, op, fd
        <4>2. t \in queued /\ op(t) \in SocketOps /\ pc'[t] = "asleep"
          BY <1>8, <1>b, <3>1 DEF SocketTypeOK, co_socket_send, Findable, SocketOps
        <4>3. QED
          BY <3>1, <4>1, <4>2, SleepOnSocket
      <3>2. QED
        BY <1>8, <3>1 DEF co_socket_send, Block
    <2>5. QED
      BY <2>1, <2>2, <2>3, <2>4, CallStep
  <1>9. CASE co_socket_send_resume(t)
    <2>1. SocketTypeOK'
      BY <1>9 DEF SocketTypeOK, co_socket_send_resume, Return
    <2>2. Registered'
      BY <1>9 DEF Registered, co_socket_send_resume, Return
    <2>3. OthersUndisturbed(t)
      BY <1>9 DEF SocketTypeOK, OthersUndisturbed, co_socket_send_resume, Return
    <2>4. Findable(t)' /\ ResumedForReason(t)' /\ Notified(t)'
      <3>1. /\ job' = job /\ pc'[t] \in {"none", "queueing", "try", "iowait"}
            /\ pc'[t] # "none" => op(t) \in SocketOps \cup IoOps
            /\ pc'[t] = "queueing" => op(t) \in SocketOps
            /\ pc'[t] = "iowait" => op(t) \in IoOps
            /\ pc'[t] = "try" /\ op(t) \in SocketOps => t \in queued'
            /\ ev'[t] = ev[t] \/ ev'[t] = {}
        BY <1>9, <1>b DEF SocketTypeOK, Findable, co_socket_send_resume, Return, SocketOps
      <3>2. QED
        BY <3>1, Awake
    <2>5. QED
      BY <2>1, <2>2, <2>3, <2>4, CallStep
  <1>10. CASE co_socket_connect(t)
    <2>1. SocketTypeOK'
      BY <1>10 DEF SocketTypeOK, co_socket_connect, Return, Block
    <2>2. Registered'
      BY <1>10 DEF Registered, co_socket_connect, Return, Block
    <2>3. OthersUndisturbed(t)
      BY <1>10 DEF SocketTypeOK, OthersUndisturbed, co_socket_connect, Return, Block
    <2>4. Findable(t)' /\ ResumedForReason(t)' /\ Notified(t)'
      <3>1. CASE Return(t, "error") /\ job' = job
        BY <3>1, Awake DEF Return, SocketTypeOK
      <3>2. CASE ~(Gone(t) \/ conn[fd(t)] # "new") /\ op(t) = "connect"
        <4>1. fd(t) \in Fd /\ op(t) \in SocketOps /\ conn' = [conn EXCEPT ![fd(t)] = "pending"]
          BY <1>10, <1>c, <3>2 DEF co_socket_connect, Fd, SocketOps
        <4>2. /\ pc'[t] = "asleep" /\ UNCHANGED <<job, queued, ev, open>> /\ t \in queued
              /\ fd(t)' = fd(t) /\ conn'[fd(t)] = "pending"
          BY <1>10, <1>b, <3>2, <4>1 DEF SocketTypeOK, co_socket_connect, Block, Findable, fd
        <4>3. ~Gone(t)' /\ Events(fd(t))' \cap Want(t) = {}
          BY <3>2, <4>2 DEF Gone, Events, Want, Receives, fd
        <4>4. QED
          BY <4>1, <4>2, <4>3, SleepOnSocket
      <3>3. CASE ~(Gone(t) \/ conn[fd(t)] # "new") /\ op(t) # "connect"
        <4>1. /\ op(t) \in IoOps /\ pc'[t] = "iowait" /\ ev'[t] = ev[t] /\ job' = job
          BY <1>10, <3>3 DEF SocketTypeOK, co_socket_connect, IoOps
        <4>2. QED
          BY <4>1, Awake
      <3>4. QED
        BY <1>10, <3>1, <3>2, <3>3 DEF co_socket_connect
    <2>5. QED
      BY <2>1, <2>2, <2>3, <2>4, CallStep
  <1>11. CASE co_socket_connect_resume(t)
    <2>1. SocketTypeOK'
      BY <1>11 DEF SocketTypeOK, co_socket_connect_resume, Return, Block
    <2>2. Registered'
      BY <1>11 DEF Registered, co_socket_connect_resume, Return, Block
    <2>3. OthersUndisturbed(t)
      BY <1>11 DEF SocketTypeOK, OthersUndisturbed, co_socket_connect_resume, Return, Block
    <2>4. Findable(t)' /\ ResumedForReason(t)' /\ Notified(t)'
      <3>1. op(t) \in SocketOps /\ ~(rev[t] \cap {"OUT", "ERR"} = {} /\ timer[t] # "expired")
        BY <1>11, <1>b DEF co_socket_connect_resume, ResumedForReason, SocketOps
      <3>2. pc'[t] = "none" /\ ev'[t] = {} /\ job' = job
        BY <1>11, <3>1 DEF SocketTypeOK, co_socket_connect_resume, Return
      <3>3. QED
        BY <3>2, Awake
    <2>5. QED
      BY <2>1, <2>2, <2>3, <2>4, CallStep
  <1>12. CASE io_would_block(t)
    <2>1. SocketTypeOK'
      BY <1>12 DEF SocketTypeOK, io_would_block
    <2>2. Registered'
      BY <1>12 DEF Registered, io_would_block
    <2>3. OthersUndisturbed(t)
      BY <1>12 DEF SocketTypeOK, OthersUndisturbed, io_would_block
    <2>4. Findable(t)' /\ ResumedForReason(t)' /\ Notified(t)'
      <3>1. /\ job' = job /\ pc'[t] \in {"none", "queueing", "try", "iowait"}
            /\ pc'[t] # "none" => op(t) \in SocketOps \cup IoOps
            /\ pc'[t] = "queueing" => op(t) \in SocketOps
            /\ pc'[t] = "iowait" => op(t) \in IoOps
            /\ pc'[t] = "try" /\ op(t) \in SocketOps => t \in queued'
            /\ ev'[t] = ev[t] \/ ev'[t] = {}
        BY <1>12, <1>b DEF SocketTypeOK, Findable, io_would_block, SocketOps
      <3>2. QED
        BY <3>1, Awake
    <2>5. QED
      BY <2>1, <2>2, <2>3, <2>4, CallStep
  <1>13. CASE co_io_wait(t)
    BY <1>13, IoWaitInv
  <1>14. CASE co_io_wait_return(t)
    BY <1>14, IoReturnInv
  <1>15. CASE clock(t)
    <2>1. SocketTypeOK'
      BY <1>15 DEF SocketTypeOK, clock
    <2>2. Registered'
      BY <1>15 DEF Registered, clock
    <2>3. OthersUndisturbed(t)
      BY <1>15 DEF SocketTypeOK, OthersUndisturbed, clock
    <2>4. Findable(t)' /\ ResumedForReason(t)' /\ Notified(t)'
      <3>1. /\ UNCHANGED <<job, pc, ev, rev, queued, reg, rdl, got, open, inq, room, conn>>
            /\ timer[t] # "expired" /\ timer'[t] = "expired"
        BY <1>15 DEF SocketTypeOK, clock
      <3>2. op(t)' = op(t) /\ fd(t)' = fd(t)
        BY <3>1 DEF op, fd
      <3>3. Findable(t)' /\ ResumedForReason(t)'
        BY <1>b, <3>1, <3>2 DEF Findable, ResumedForReason, WritersToo
      <3>4. Notified(t)'
        BY <1>b, <3>1, <3>2 DEF Notified, Gone, Events, Want, Mask, Iorq
      <3>5. QED
        BY <3>3, <3>4
    <2>5. QED
      BY <2>1, <2>2, <2>3, <2>4, CallStep
  <1>16. QED
    BY <1>1, <1>2, <1>3, <1>4, <1>5, <1>6, <1>7, <1>8, <1>9, <1>10, <1>11, <1>12, <1>13, <1>14,
       <1>15 DEF Progress

\* co_socket_close(): the socket leaves epoll, and everybody in its list is marked.
LEMMA CloseInv ==
  ASSUME SocketInv, NEW s \in Sock, co_socket_close(s)
  PROVE  SocketInv'
  <1> USE DEF co_socket_close, netVars
  <1>a. SocketTypeOK /\ Registered /\ s \in Fd
    BY DEF SocketInv, Fd
  <1>b. \A t \in Caller : Mask(t) \subseteq Event
    BY DEF Mask, Want, Event
  <1>1. SocketTypeOK'
    BY <1>a, <1>b DEF SocketTypeOK, Event
  <1>2. Registered'
    BY <1>a DEF SocketTypeOK, Registered, Fd
  <1>3. ASSUME NEW t \in Caller PROVE Findable(t)' /\ ResumedForReason(t)' /\ Notified(t)'
    <2>1. Findable(t) /\ ResumedForReason(t) /\ Notified(t)
      BY DEF SocketInv
    <2>2. /\ op(t)' = op(t) /\ fd(t)' = fd(t) /\ Events(fd(t))' = Events(fd(t))
          /\ Want(t)' = Want(t) /\ Mask(t)' = Mask(t) /\ Iorq(t)' = Iorq(t)
      BY DEF op, fd, Events, Want, Mask, Iorq
    <2>3. ev'[t] = IF t \in queued /\ fd(t) = s THEN ev[t] \cup Mask(t) ELSE ev[t]
      BY <1>a DEF SocketTypeOK
    <2>4. Findable(t)'
      <3>1. op(t) \in IoOps => fd(t) # s
        BY <1>a, JobFacts, SocketAssumption DEF SocketTypeOK
      <3>2. QED
        BY <1>a, <2>1, <2>2, <3>1 DEF Findable, SocketTypeOK
    <2>5. ResumedForReason(t)'
      <3>1. op(t) \in {"send", "connect"} => "OUT" \in Mask(t)
        BY DEF Mask, Want, Receives
      <3>2. QED
        BY <2>1, <2>2, <2>3, <3>1 DEF ResumedForReason, WritersToo
    <2>6. Notified(t)'
      <3>1. CASE pc[t] = "asleep" /\ fd(t) = s
        <4>1. op(t) \in SocketOps
          BY <1>a, <2>1, <3>1, JobFacts, SocketAssumption DEF Findable, SocketTypeOK
        <4>2. t \in queued
          BY <2>1, <3>1, <4>1 DEF Findable
        <4>3. ev'[t] \cap Mask(t)' # {}
          BY <2>2, <2>3, <3>1, <4>2 DEF Mask
        <4>4. QED
          BY <4>3 DEF Notified
      <3>2. CASE fd(t) # s
        BY <2>1, <2>2, <2>3, <3>2 DEF Notified, Gone
      <3>3. CASE pc[t] # "asleep"
        BY <3>3 DEF Notified
      <3>4. QED
        BY <3>1, <3>2, <3>3
    <2>7. QED
      BY <2>4, <2>5, <2>6
  <1>4. QED
    BY <1>1, <1>2, <1>3 DEF SocketInv

LEMMA StepInv == SocketInv /\ [Next]_vars => SocketInv'
  <1> SUFFICES ASSUME SocketInv, [Next]_vars PROVE SocketInv'
    OBVIOUS
  <1>1. CASE \E t \in Caller : enter(t) \/ Progress(t) \/ clock(t)
    BY <1>1, CallerInv
  <1>2. CASE \E f \in Fd : Arrive(f) \/ Drain(f) \/ Change(f)
    BY <1>2, NetInv
  <1>3. CASE \E s \in Sock : co_socket_close(s)
    BY <1>3, CloseInv
  <1>4. CASE Listener
    BY <1>4, ListenerInv, WaitInv DEF Listener
  <1>5. CASE UNCHANGED vars
    <2> USE <1>5 DEF vars, netVars, waitVars
    <2>1. SocketTypeOK' /\ Registered' /\ got' = got
      BY DEF SocketInv, SocketTypeOK, Registered
    <2>2. ASSUME NEW t \in Caller PROVE Findable(t)' /\ ResumedForReason(t)' /\ Notified(t)'
      <3>1. op(t)' = op(t) /\ fd(t)' = fd(t)
        BY DEF op, fd
      <3>2. Findable(t)' /\ ResumedForReason(t)'
        BY <3>1 DEF SocketInv, Findable, ResumedForReason, WritersToo
      <3>3. Notified(t)'
        BY <3>1 DEF SocketInv, Notified, Gone, Events, Want, Mask, Iorq
      <3>4. QED
        BY <3>2, <3>3
    <2>3. QED
      BY <2>1, <2>2 DEF SocketInv
  <1>6. QED
    BY <1>1, <1>2, <1>3, <1>4, <1>5 DEF Next

LEMMA Invariance == Spec => []SocketInv
  BY InitInv, StepInv, PTL DEF Spec

\* No coroutine sleeps over a descriptor that is ready or a socket that was closed: its
\* waiter is marked, or the edge is on epoll's list, or in the hands of the listener.
THEOREM ReadinessReaches == Spec => []NoLostReadiness
  <1>1. SocketInv => NoLostReadiness
    BY DEF SocketInv, Notified, NoLostReadiness
  <1>2. QED
    BY <1>1, Invariance, PTL

\* co_socket_send() returns a short count only when its time is over.
THEOREM NoEarlyShortSend == Spec => ShortOnlyByTimeout
  <1> DEFINE Short == \A t \in Caller : op(t) = "send" /\ res'[t] = "short" /\ res[t] # "short"
                                          => timer[t] = "expired"
  <1>1. SocketInv /\ [Next]_vars => [Short]_vars
    <2> SUFFICES ASSUME SocketInv, Next, NEW t \in Caller, op(t) = "send",
                        res'[t] = "short", res[t] # "short"
                 PROVE  timer[t] = "expired"
      BY DEF vars
    <2> USE DEF SocketInv, SocketTypeOK
    <2>1. CASE \E f \in Fd : Arrive(f) \/ Drain(f) \/ Change(f)
      BY <2>1 DEF Arrive, Drain, Change, callVars
    <2>2. CASE Listener \/ \E s \in Sock : co_socket_close(s)
      BY <2>2 DEF Listener, epoll_listener_thread, epoll_wait_events, co_socket_close
    <2>3. ASSUME NEW u \in Caller, u # t, enter(u) \/ Progress(u) \/ clock(u) PROVE FALSE
      <3>1. res'[t] = res[t]
        <4> USE <2>3 DEF Return, Block, Resume
        <4>1. CASE enter(u) \/ clock(u) \/ epoll_queue(u) \/ pclthread(u)
          BY <4>1 DEF enter, clock, epoll_queue, pclthread
        <4>2. CASE take(u) \/ put(u)
          BY <4>2 DEF take, put
        <4>3. CASE co_socket_recv(u) \/ co_socket_recv_resume(u) \/ co_socket_send(u)
          BY <4>3 DEF co_socket_recv, co_socket_recv_resume, co_socket_send
        <4>4. CASE co_socket_send_resume(u) \/ co_socket_connect(u) \/ co_socket_connect_resume(u)
          BY <4>4 DEF co_socket_send_resume, co_socket_connect, co_socket_connect_resume
        <4>5. CASE io_would_block(u)
          BY <4>5 DEF io_would_block
        <4>6. CASE co_io_wait(u)
          BY <4>6 DEF co_io_wait
        <4>7. CASE co_io_wait_return(u)
          BY <4>7 DEF co_io_wait_return
        <4>8. QED
          BY <4>1, <4>2, <4>3, <4>4, <4>5, <4>6, <4>7, <2>3 DEF Progress
      <3>2. QED
        BY <3>1
    <2>4. CASE enter(t) \/ clock(t) \/ epoll_queue(t) \/ pclthread(t)
      BY <2>4 DEF enter, clock, epoll_queue, pclthread
    <2>5. CASE take(t) \/ put(t)
      BY <2>5 DEF take, put, Return
    <2>6. CASE co_socket_recv(t) \/ co_socket_recv_resume(t) \/ co_socket_send(t)
      BY <2>6 DEF co_socket_recv, co_socket_recv_resume, co_socket_send, Return, Block
    <2>7. CASE co_socket_send_resume(t)
      BY <2>7 DEF co_socket_send_resume, ResumedForReason
    <2>8. CASE \/ co_socket_connect(t) \/ co_socket_connect_resume(t) \/ io_would_block(t)
               \/ co_io_wait(t) \/ co_io_wait_return(t)
      <3>1. op(t) \notin IoOps \cup {"connect", "co_connect"} /\ op(t) \in SocketOps
        BY DEF IoOps, SocketOps
      <3>2. ~co_io_wait(t)
        BY <3>1 DEF co_io_wait, Findable
      <3>3. QED
        BY <2>8, <3>1, <3>2
           DEF co_socket_connect, co_socket_connect_resume, io_would_block, co_io_wait_return
    <2>9. QED
      BY <2>1, <2>2, <2>3, <2>4, <2>5, <2>6, <2>7, <2>8 DEF Next, Progress
  <1>2. QED
    BY <1>1, Invariance, PTL DEF Spec, ShortOnlyByTimeout
=============================================================================
