-------------------------- MODULE CorpcRing_proofs --------------------------
(***************************************************************************)
(* Proofs about CorpcFlow, for every size of a stream's receive queue: no  *)
(* credit is lost or made up, so an arriving message always finds room,    *)
(* and messages are read in the order they were written; about CcFifo, for *)
(* every capacity: the ring is a bounded queue; and about CorpcRing: the   *)
(* window of credits keeps a push into a stream's ring from being refused. *)
(***************************************************************************)
EXTENDS CorpcRing, SequenceTheorems, TLAPS

-----------------------------------------------------------------------------
(* The flow control by itself.                                             *)

\* The inductive invariant: the types, where the credits are, the order of the
\* messages, and that an uncounted message still has its credit in the window.
IInv == TypeOK /\ CreditsConserved /\ InOrder /\ WindowNeverWraps

\* A new stream satisfies the invariant.
LEMMA InitInv == Init => IInv
  BY QueueAssumption
     DEF Init, IInv, TypeOK, CreditsConserved, InOrder, WindowNeverWraps

\* What Append does to a queue of message numbers.
LEMMA AppendFacts ==
  ASSUME NEW q \in Seq(Nat), NEW n \in Nat
  PROVE  /\ Append(q, n) \in Seq(Nat)
         /\ Len(Append(q, n)) = Len(q) + 1
         /\ \A i \in 1..Len(q) : Append(q, n)[i] = q[i]
         /\ Append(q, n)[Len(q) + 1] = n
  OBVIOUS

\* What taking the first message does to it.
LEMMA TailFacts ==
  ASSUME NEW q \in Seq(Nat), q # << >>
  PROVE  /\ Len(q) >= 1
         /\ Head(q) \in Nat /\ Head(q) = q[1]
         /\ Tail(q) \in Seq(Nat)
         /\ Len(Tail(q)) = Len(q) - 1
         /\ \A i \in 1..Len(Tail(q)) : Tail(q)[i] = q[i + 1]
  OBVIOUS

\* send_data(): the message that leaves continues the sequence on the wire.
LEMMA SendInv ==
  ASSUME IInv, Send, UNCHANGED phase
  PROVE  IInv'
  <1> USE DEF IInv, TypeOK
  <1>1. /\ wire' \in Seq(Nat) /\ Len(wire') = Len(wire) + 1
        /\ \A i \in 1..Len(wire) : wire'[i] = wire[i]
        /\ wire'[Len(wire) + 1] = sent + 1
    BY AppendFacts DEF Send
  <1>2. TypeOK'
    BY <1>1 DEF Send
  <1>3. CreditsConserved' /\ WindowNeverWraps'
    BY <1>1 DEF Send, CreditsConserved, WindowNeverWraps
  <1>4. InOrder'
    <2>1. sent' = got' + Len(rxq') + Len(wire')
      BY <1>1 DEF Send, InOrder
    <2>2. \A i \in 1..Len(rxq') : rxq'[i] = got' + i
      BY DEF Send, InOrder
    <2>3. ASSUME NEW i \in 1..Len(wire')
          PROVE  wire'[i] = got' + Len(rxq') + i
      <3>1. CASE i \in 1..Len(wire)
        BY <1>1, <3>1 DEF Send, InOrder
      <3>2. CASE i = Len(wire) + 1
        BY <1>1, <3>2 DEF Send, InOrder
      <3>3. QED
        BY <1>1, <3>1, <3>2
    <2>4. QED
      BY <2>1, <2>2, <2>3 DEF InOrder
  <1>5. QED
    BY <1>2, <1>3, <1>4

\* on_data_message(): the message at the head of the wire is the next one of the queue.
LEMMA DeliverInv ==
  ASSUME IInv, Deliver, UNCHANGED phase
  PROVE  IInv'
  <1> USE DEF IInv, TypeOK
  <1>1. /\ Len(wire) >= 1 /\ Head(wire) \in Nat /\ Head(wire) = wire[1]
        /\ wire' \in Seq(Nat) /\ Len(wire') = Len(wire) - 1
        /\ \A i \in 1..Len(wire') : wire'[i] = wire[i + 1]
    BY TailFacts DEF Deliver
  <1>2. /\ rxq' \in Seq(Nat) /\ Len(rxq') = Len(rxq) + 1
        /\ \A i \in 1..Len(rxq) : rxq'[i] = rxq[i]
        /\ rxq'[Len(rxq) + 1] = wire[1]
    BY <1>1, AppendFacts DEF Deliver
  <1>3. TypeOK'
    BY <1>1, <1>2 DEF Deliver
  <1>4. CreditsConserved' /\ WindowNeverWraps'
    BY <1>1, <1>2 DEF Deliver, CreditsConserved, WindowNeverWraps
  <1>5. InOrder'
    <2>1. sent' = got' + Len(rxq') + Len(wire')
      BY <1>1, <1>2 DEF Deliver, InOrder
    <2>2. ASSUME NEW i \in 1..Len(rxq')
          PROVE  rxq'[i] = got' + i
      <3>1. CASE i \in 1..Len(rxq)
        BY <1>2, <3>1 DEF Deliver, InOrder
      <3>2. CASE i = Len(rxq) + 1
        BY <1>1, <1>2, <3>2 DEF Deliver, InOrder
      <3>3. QED
        BY <1>2, <3>1, <3>2
    <2>3. ASSUME NEW i \in 1..Len(wire')
          PROVE  wire'[i] = got' + Len(rxq') + i
      <3>1. i + 1 \in 1..Len(wire)
        BY <1>1
      <3>2. QED
        BY <1>1, <1>2, <3>1 DEF Deliver, InOrder
    <2>4. QED
      BY <2>1, <2>2, <2>3 DEF InOrder
  <1>6. QED
    BY <1>3, <1>4, <1>5

\* One step of the stream keeps the invariant.
LEMMA StepInv ==
  ASSUME IInv, Next
  PROVE  IInv'
  <1> USE QueueAssumption
         DEF IInv, TypeOK, CreditsConserved, InOrder, WindowNeverWraps
  <1>1. CASE Send /\ UNCHANGED phase
    BY <1>1, SendInv
  <1>2. CASE Count /\ UNCHANGED phase
    BY <1>2 DEF Count
  <1>3. CASE Deliver /\ UNCHANGED phase
    BY <1>3, DeliverInv
  <1>4. CASE Read /\ UNCHANGED phase
    BY <1>4 DEF Read
  <1>5. CASE Ack /\ UNCHANGED phase
    BY <1>5 DEF Ack
  <1>6. CASE Credit /\ UNCHANGED phase
    BY <1>6 DEF Credit
  <1>7. CASE Break
    BY <1>7 DEF Break
  <1>8. QED
    BY <1>1, <1>2, <1>3, <1>4, <1>5, <1>6, <1>7 DEF Next, Step

\* The inductive invariant holds in every reachable state.
THEOREM Invariance == Spec => []IInv
  <1>1. Init => IInv
    BY InitInv
  <1>2. IInv /\ [Next]_vars => IInv'
    <2>1. CASE UNCHANGED vars
      BY <2>1 DEF vars, IInv, TypeOK, CreditsConserved, InOrder, WindowNeverWraps
    <2>2. QED
      BY <2>1, StepInv
  <1>3. QED
    BY <1>1, <1>2, PTL DEF Spec

\* Type correctness of the abstract stream.
THEOREM TypeCorrect == Spec => []TypeOK
  <1>1. IInv => TypeOK
    BY DEF IInv
  <1>2. QED
    BY <1>1, Invariance, PTL

\* Credits are neither lost nor made up, whatever the size of the queue.
THEOREM CreditConservation == Spec => []CreditsConserved
  <1>1. IInv => CreditsConserved
    BY DEF IInv
  <1>2. QED
    BY <1>1, Invariance, PTL

\* Whatever the size of the queue, everything on the wire fits into it: the "ccfifo
\* is full" branch of on_data_message() is dead code between peers that run this code.
THEOREM NoOverflow == Spec => []RoomForArrivals
  <1>1. IInv => RoomForArrivals
    BY QueueAssumption
       DEF IInv, TypeOK, CreditsConserved, WindowNeverWraps, RoomForArrivals
  <1>2. QED
    BY <1>1, Invariance, PTL

\* Messages are read in the order they were written, without loss or duplication.
THEOREM OrderedDelivery == Spec => []InOrder
  <1>1. IInv => InOrder
    BY DEF IInv
  <1>2. QED
    BY <1>1, Invariance, PTL


-----------------------------------------------------------------------------
(* The ring by itself.                                                     *)

\* The inductive invariant: the free slots begin where the queue ends.
FifoInv == FifoTypeOK /\ last = At(first, size)

\* The initial ring is empty.
LEMMA FifoInitInv == FifoInit => FifoInv
  BY CapacityAssumption DEF FifoInit, FifoInv, FifoTypeOK, At, Slot

\* Every call keeps the queue between first and last.
LEMMA FifoStepInv == FifoInv /\ [FifoNext]_fifoVars => FifoInv'
  <1> SUFFICES ASSUME FifoInv, [FifoNext]_fifoVars PROVE FifoInv'
    OBVIOUS
  <1> USE CapacityAssumption DEF FifoInv, FifoTypeOK, At, Slot
  <1>1. ASSUME NEW x \in Item, ccfifo_push(x) PROVE FifoInv'
    BY <1>1 DEF ccfifo_push, succ, has_room
  <1>2. CASE ccfifo_pop
    BY <1>2 DEF ccfifo_pop, succ
  <1>3. CASE UNCHANGED fifoVars
    BY <1>3 DEF fifoVars
  <1>4. QED
    BY <1>1, <1>2, <1>3 DEF FifoNext

\* The ring's indexes stay inside the array (ccfifo_push_bytes, ccfifo_pop_bytes).
THEOREM RingTypeCorrect == FifoSpec => []FifoTypeOK
  <1>1. FifoInv => FifoTypeOK
    BY DEF FifoInv
  <1>2. QED
    BY FifoInitInv, FifoStepInv, <1>1, PTL DEF FifoSpec

\* What is read from a ring is a sequence of items.
LEMMA FromType ==
  ASSUME NEW ring \in [Slot -> Item], NEW f \in Slot, NEW n \in 0..Capacity
  PROVE  /\ From(ring, f, n) \in Seq(Item)
         /\ Len(From(ring, f, n)) = n
         /\ \A i \in 1..n : From(ring, f, n)[i] = ring[At(f, i - 1)]
  <1> USE CapacityAssumption DEF At, Slot
  <1>1. \A i \in 1..n : ring[At(f, i - 1)] \in Item
    OBVIOUS
  <1>2. From(ring, f, n) \in [1..n -> Item] /\ n \in Nat
    BY <1>1 DEF From
  <1>3. QED
    BY <1>2 DEF From

\* Writing the slot after the last item appends.
LEMMA FromAppend ==
  ASSUME NEW ring \in [Slot -> Item], NEW f \in Slot, NEW n \in 0..Capacity,
         NEW x \in Item, n < Capacity
  PROVE  From([ring EXCEPT ![At(f, n)] = x], f, n + 1) = Append(From(ring, f, n), x)
  <1> DEFINE old == From(ring, f, n)
             new == [ring EXCEPT ![At(f, n)] = x]
             s   == From(new, f, n + 1)
  <1>0. n + 1 \in 0..Capacity /\ At(f, n) \in Slot
    BY CapacityAssumption DEF At, Slot
  <1>1. new \in [Slot -> Item] /\ n + 1 \in 0..Capacity
    BY <1>0
  <1>2. /\ s \in Seq(Item) /\ Len(s) = n + 1
        /\ \A i \in 1..(n + 1) : s[i] = new[At(f, i - 1)]
    <2> HIDE DEF new
    <2>1. QED
      BY <1>1, FromType
  <1>3. /\ old \in Seq(Item) /\ Len(old) = n
        /\ \A i \in 1..n : old[i] = ring[At(f, i - 1)]
    BY FromType
  <1>4. At(f, n) \in Slot /\ \A i \in 1..n : At(f, i - 1) \in Slot /\ At(f, i - 1) # At(f, n)
    BY CapacityAssumption DEF At, Slot
  <1>5. new[At(f, n)] = x /\ \A i \in 1..n : new[At(f, i - 1)] = ring[At(f, i - 1)]
    BY <1>4
  <1>6. /\ Append(old, x) \in Seq(Item) /\ Len(Append(old, x)) = n + 1
        /\ \A i \in 1..n : Append(old, x)[i] = old[i]
        /\ Append(old, x)[n + 1] = x
    <2> HIDE DEF old
    <2>1. QED
      BY <1>3, AppendProperties
  <1>7. s[n + 1] = x /\ \A i \in 1..n : s[i] = old[i]
    <2> HIDE DEF old, s, new
    <2>1. n + 1 \in 1..(n + 1) /\ (n + 1) - 1 = n /\ \A i \in 1..n : i \in 1..(n + 1)
      OBVIOUS
    <2>2. QED
      BY <1>2, <1>3, <1>5, <2>1
  <1> HIDE DEF old, s, new
  <1>8. \A i \in 1..Len(s) : s[i] = Append(old, x)[i]
    BY <1>2, <1>6, <1>7
  <1>9. s = Append(old, x)
    BY <1>2, <1>6, <1>8, SeqEqual
  <1>10. QED
    BY <1>9 DEF old, s, new

\* Advancing the first slot takes the head away.
LEMMA FromTail ==
  ASSUME NEW ring \in [Slot -> Item], NEW f \in Slot, NEW n \in 1..Capacity
  PROVE  /\ From(ring, f, n) # << >>
         /\ Head(From(ring, f, n)) = ring[f]
         /\ Tail(From(ring, f, n)) = From(ring, succ(f), n - 1)
  <1> DEFINE old == From(ring, f, n)
             s   == From(ring, succ(f), n - 1)
  <1>1. succ(f) \in Slot /\ n - 1 \in 0..Capacity /\ n \in 0..Capacity
    BY CapacityAssumption DEF succ, Slot
  <1>2. /\ s \in Seq(Item) /\ Len(s) = n - 1
        /\ \A i \in 1..(n - 1) : s[i] = ring[At(succ(f), i - 1)]
    BY <1>1, FromType
  <1>3. /\ old \in Seq(Item) /\ Len(old) = n
        /\ \A i \in 1..n : old[i] = ring[At(f, i - 1)]
    BY <1>1, FromType
  <1>4. At(f, 0) = f /\ \A i \in 1..(n - 1) : At(succ(f), i - 1) = At(f, i)
    BY CapacityAssumption DEF At, Slot, succ
  <1> HIDE DEF old, s
  <1>5. old # << >> /\ Head(old) = ring[f]
    BY <1>3, <1>4
  <1>6. /\ Tail(old) \in Seq(Item) /\ Len(Tail(old)) = n - 1
        /\ \A i \in 1..(n - 1) : Tail(old)[i] = old[i + 1]
    BY <1>3, <1>5, HeadTailProperties
  <1>7. \A i \in 1..(n - 1) : i + 1 \in 1..n /\ (i + 1) - 1 = i
    OBVIOUS
  <1>8. \A i \in 1..(n - 1) : Tail(old)[i] = s[i]
    BY <1>2, <1>3, <1>4, <1>6, <1>7
  <1>9. Tail(old) = s
    BY <1>2, <1>6, <1>8, SeqEqual
  <1>10. QED
    BY <1>5, <1>9 DEF old, s

\* A push appends to the mapped queue, or is refused when it is full.
LEMMA PushStep ==
  ASSUME FifoInv, NEW x \in Item, ccfifo_push(x)
  PROVE  Queue!Push(x)
  <1>0. Len(Contents) = size
    BY FromType DEF FifoInv, FifoTypeOK, Contents
  <1>1. CASE has_room
    <2>1. /\ items' = [items EXCEPT ![At(first, size)] = x] /\ size' = size + 1
          /\ ret' = x /\ first' = first /\ size < Capacity
      BY <1>1 DEF ccfifo_push, has_room, FifoInv
    <2>2. Contents' = Append(Contents, x)
      BY <2>1, FromAppend DEF Contents, FifoInv, FifoTypeOK
    <2>3. QED
      BY <1>0, <2>1, <2>2 DEF Queue!Push
  <1>2. CASE ~has_room
    BY <1>0, <1>2 DEF ccfifo_push, has_room, Contents, Queue!Push
  <1>3. QED
    BY <1>1, <1>2

\* A pop takes the head of the mapped queue.
LEMMA PopStep ==
  ASSUME FifoInv, ccfifo_pop
  PROVE  Queue!Pop
  <1>1. CASE size # 0
    <2>1. /\ ret' = items[first] /\ size' = size - 1 /\ items' = items
          /\ first' = succ(first) /\ size \in 1..Capacity
      BY <1>1 DEF ccfifo_pop, FifoInv, FifoTypeOK
    <2>2. /\ Contents # << >> /\ Head(Contents) = items[first]
          /\ Contents' = Tail(Contents)
      BY <2>1, FromTail DEF Contents, FifoInv, FifoTypeOK
    <2>3. QED
      BY <2>1, <2>2 DEF Queue!Pop
  <1>2. CASE size = 0
    <2>1. Contents \in Seq(Item) /\ Len(Contents) = 0
      BY <1>2, FromType DEF FifoInv, FifoTypeOK, Contents
    <2>2. Contents = << >>
      BY <2>1
    <2>3. QED
      BY <1>2, <2>2 DEF ccfifo_pop, Contents, Queue!Pop
  <1>3. QED
    BY <1>1, <1>2

\* The ring buffer implements the bounded queue: what ccfifo_pop returns is what
\* was pushed, in order, for every capacity and wherever the ring has got to.
THEOREM RingImplementation == FifoSpec => ImplementsQueue
  <1>1. FifoInit => Queue!Init
    <2> SUFFICES ASSUME FifoInit PROVE Queue!Init
      OBVIOUS
    <2>1. FifoInv
      BY FifoInitInv
    <2>2. Contents \in Seq(Item) /\ Len(Contents) = size
      BY <2>1, FromType DEF FifoInv, FifoTypeOK, Contents
    <2>3. Contents = << >>
      BY <2>2 DEF FifoInit
    <2>4. QED
      BY <2>3 DEF FifoInit, Queue!Init
  <1>2. FifoInv /\ [FifoNext]_fifoVars => [Queue!Next]_(Queue!vars)
    <2> SUFFICES ASSUME FifoInv, [FifoNext]_fifoVars PROVE [Queue!Next]_(Queue!vars)
      OBVIOUS
    <2>1. CASE UNCHANGED fifoVars
      BY <2>1 DEF fifoVars, Contents, Queue!vars
    <2>2. CASE ccfifo_pop
      BY <2>2, PopStep DEF Queue!Next
    <2>3. ASSUME NEW x \in Item, ccfifo_push(x) PROVE Queue!Next
      BY <2>3, PushStep DEF Queue!Next
    <2>4. QED
      BY <2>1, <2>2, <2>3 DEF FifoNext
  <1>3. QED
    BY FifoInitInv, FifoStepInv, <1>1, <1>2, PTL DEF FifoSpec, ImplementsQueue, Queue!Spec

-----------------------------------------------------------------------------
(* The ring under a stream.                                                *)

\* The inductive invariant: those of the stream and of the ring, and what ties them.
RingInv == IInv /\ FifoInv /\ sent <= MaxSent /\ RingHoldsQueue

LEMMA RingInitInv == RingInit => RingInv
  <1> SUFFICES ASSUME RingInit PROVE RingInv
    OBVIOUS
  <1>1. IInv /\ FifoInv
    BY InitInv, FifoInitInv DEF RingInit
  <1>2. Contents \in Seq(Item) /\ Len(Contents) = 0
    BY <1>1, FromType DEF RingInit, FifoInit, FifoInv, FifoTypeOK, Contents
  <1>3. QED
    BY <1>1, <1>2, SentAssumption DEF RingInit, Init, RingInv, RingHoldsQueue

\* A message that arrives is one that was sent, and finds room.
LEMMA HeadIsItem ==
  ASSUME RingInv, on_data_message
  PROVE  Head(wire) \in Item /\ Len(rxq) < Capacity
  <1>1. wire # << >> /\ wire \in Seq(Nat) /\ rxq \in Seq(Nat) /\ got \in Nat /\ sent \in Nat
    BY DEF on_data_message, Deliver, RingInv, IInv, TypeOK
  <1>2. Len(wire) >= 1 /\ Head(wire) = wire[1]
    BY <1>1, TailFacts
  <1>3. wire[1] = got + Len(rxq) + 1 /\ sent = got + Len(rxq) + Len(wire)
    BY <1>1, <1>2 DEF RingInv, IInv, InOrder
  <1>4. wire[1] \in 1..MaxSent
    BY <1>1, <1>2, <1>3, SentAssumption DEF RingInv
  <1>5. Len(rxq) + Len(wire) <= QueueSize
    BY QueueAssumption
       DEF RingInv, IInv, TypeOK, CreditsConserved, WindowNeverWraps
  <1>6. QED
    BY <1>1, <1>2, <1>4, <1>5, RingAssumption, QueueAssumption

\* on_data_message(): there is room for the message, so the ring takes it.
LEMMA PushKeeps ==
  ASSUME RingInv, phase = "connected", on_data_message, UNCHANGED phase
  PROVE  RingInv'
  <1>1. IInv'
    BY DeliverInv DEF on_data_message, RingInv
  <1>2. Head(wire) \in Item /\ Len(rxq) < Capacity
    BY HeadIsItem
  <1>3. FifoInv'
    BY <1>2, FifoStepInv DEF RingInv, on_data_message, FifoNext
  <1>4. Contents' = rxq'
    <2>1. Queue!Push(Head(wire))
      BY <1>2, PushStep DEF RingInv, on_data_message
    <2>2. Contents = rxq
      BY DEF RingInv, RingHoldsQueue
    <2>3. QED
      BY <1>2, <2>1, <2>2 DEF Queue!Push, on_data_message, Deliver
  <1>5. sent' <= MaxSent
    BY DEF RingInv, on_data_message, Deliver
  <1>6. QED
    BY <1>1, <1>3, <1>4, <1>5 DEF RingInv, RingHoldsQueue

\* corpc_stream_read_internal(): the ring gives the message the stream expects.
LEMMA PopKeeps ==
  ASSUME RingInv, phase = "connected", corpc_stream_read_internal, UNCHANGED phase
  PROVE  RingInv'
  <1>1. IInv'
    BY StepInv DEF corpc_stream_read_internal, RingInv, Next, Step
  <1>2. FifoInv'
    BY FifoStepInv DEF RingInv, corpc_stream_read_internal, FifoNext
  <1>3. Contents' = rxq'
    <2>1. Queue!Pop
      BY PopStep DEF RingInv, corpc_stream_read_internal
    <2>2. Contents = rxq
      BY DEF RingInv, RingHoldsQueue
    <2>3. QED
      BY <2>1, <2>2 DEF Queue!Pop, corpc_stream_read_internal, Read
  <1>4. sent' <= MaxSent
    BY DEF RingInv, corpc_stream_read_internal, Read
  <1>5. QED
    BY <1>1, <1>2, <1>3, <1>4 DEF RingInv, RingHoldsQueue

LEMMA RingStepInv == RingInv /\ [RingNext]_<<vars, fifoVars>> => RingInv'
  <1> SUFFICES ASSUME RingInv, [RingNext]_<<vars, fifoVars>> PROVE RingInv'
    OBVIOUS
  <1>1. CASE phase = "connected" /\ on_data_message /\ UNCHANGED phase
    BY <1>1, PushKeeps
  <1>2. CASE phase = "connected" /\ corpc_stream_read_internal /\ UNCHANGED phase
    BY <1>2, PopKeeps
  <1>3. CASE phase = "connected" /\ Elsewhere /\ UNCHANGED <<phase, fifoVars>>
    <2>1. IInv'
      BY <1>3, StepInv DEF RingInv, Elsewhere, Next, Step
    <2>2. FifoInv' /\ Contents' = Contents
      BY <1>3 DEF RingInv, FifoInv, FifoTypeOK, fifoVars, Contents
    <2>3. rxq' = rxq
      BY <1>3 DEF Elsewhere, Send, Count, Ack, Credit
    <2>4. sent' <= MaxSent
      BY <1>3, SentAssumption
         DEF Elsewhere, Send, Count, Ack, Credit, RingInv, IInv, TypeOK
    <2>5. QED
      BY <1>3, <2>1, <2>2, <2>3, <2>4 DEF RingInv, RingHoldsQueue
  <1>4. CASE phase = "connected" /\ Break /\ UNCHANGED fifoVars
    <2>1. IInv'
      BY <1>4, StepInv DEF RingInv, Next
    <2>2. FifoInv'
      BY <1>4 DEF RingInv, FifoInv, FifoTypeOK, fifoVars
    <2>3. QED
      BY <1>4, <2>1, <2>2, SentAssumption DEF RingInv, RingHoldsQueue, Break
  <1>5. CASE phase = "broken" /\ FifoNext /\ UNCHANGED vars
    <2>1. IInv' /\ sent' <= MaxSent
      BY <1>5
         DEF RingInv, vars, IInv, TypeOK, CreditsConserved, InOrder, WindowNeverWraps
    <2>2. FifoInv'
      BY <1>5, FifoStepInv DEF RingInv
    <2>3. QED
      BY <1>5, <2>1, <2>2 DEF RingInv, RingHoldsQueue, vars
  <1>6. CASE UNCHANGED <<vars, fifoVars>>
    BY <1>6 DEF RingInv, vars, fifoVars, IInv, TypeOK, CreditsConserved, InOrder,
                WindowNeverWraps, FifoInv, FifoTypeOK, RingHoldsQueue, Contents
  <1>7. QED
    BY <1>1, <1>2, <1>3, <1>4, <1>5, <1>6 DEF RingNext

\* A stream's ring holds what its flow control believes is queued, whatever the size
\* of the queue: the results of ccfifo_ppush() and ccfifo_ppop() that on_data_message()
\* and corpc_stream_read_internal() ignore are never failures.
THEOREM RingUnderStream == RingSpec => []RingHoldsQueue
  <1>1. RingInv => RingHoldsQueue
    BY DEF RingInv
  <1>2. QED
    BY <1>1, RingInitInv, RingStepInv, PTL DEF RingSpec

\* The stream over its ring is the stream of CorpcFlow: what is proved of CorpcFlow
\* holds of it.
THEOREM RingRefinesStream == RingSpec => Spec
  <1>1. RingInit => Init
    BY DEF RingInit
  <1>2. [RingNext]_<<vars, fifoVars>> => [Next]_vars
    BY DEF RingNext, on_data_message, corpc_stream_read_internal, Elsewhere, Next, Step, vars
  <1>3. QED
    BY <1>1, <1>2, PTL DEF RingSpec, Spec

\* Under the stream as in the other places the ring is a bounded queue.
THEOREM RingUnderStreamIsQueue == RingSpec => ImplementsQueue
  <1>1. RingInit => FifoInit
    BY DEF RingInit
  <1>2. RingInv /\ [RingNext]_<<vars, fifoVars>> => [FifoNext]_fifoVars
    <2> SUFFICES ASSUME RingInv, [RingNext]_<<vars, fifoVars>> PROVE [FifoNext]_fifoVars
      OBVIOUS
    <2>1. CASE phase = "connected" /\ on_data_message
      <3>1. Head(wire) \in Item
        BY <2>1, HeadIsItem
      <3>2. QED
        BY <2>1, <3>1 DEF on_data_message, FifoNext
    <2>2. CASE ~(phase = "connected" /\ on_data_message)
      BY <2>2 DEF RingNext, corpc_stream_read_internal, FifoNext, fifoVars
    <2>3. QED
      BY <2>1, <2>2
  <1>3. QED
    BY <1>1, <1>2, RingInitInv, RingStepInv, RingImplementation, PTL DEF RingSpec, FifoSpec
=============================================================================
