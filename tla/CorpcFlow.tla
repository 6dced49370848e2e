------------------------------ MODULE CorpcFlow ------------------------------
(***************************************************************************)
(* What a corpc stream promises in one direction while it is connected: a  *)
(* FIFO whose receive queue never overflows, kept by a window of credits   *)
(* (send_data, on_data_message, corpc_stream_read_internal, send_data_ack  *)
(* and on_data_ack in src/src/corpc/corpc-channel.c).                      *)
(*                                                                         *)
(* The sender decrements its window only after the message has left, so    *)
(* the acknowledgement of a message can arrive before the message is       *)
(* counted.  A stream that is closed, or whose connection is lost, is      *)
(* broken and promises nothing more here.                                  *)
(***************************************************************************)
EXTENDS Integers, Sequences

CONSTANTS
    QueueSize,     \* CORPC_STREAM_DEFAULT_QUEUE_SIZE, the receiver's rxq
    MaxSent        \* bound: messages written

ASSUME QueueAssumption == QueueSize \in Nat \ {0}
ASSUME SentAssumption  == MaxSent \in Nat

VARIABLES
    rwnd,       \* st->rwnd of the sender
    uncounted,  \* messages that left and rwnd has not been decremented for: 0 or 1
    wire,       \* data messages on their way
    rxq,        \* st->rxq of the receiver
    owed,       \* messages the reader took and has not acknowledged: 0 or 1
    acks,       \* acknowledgements on their way back
    sent,       \* messages written
    got,        \* messages read
    phase       \* "connected", or "broken": closed or the connection is lost

vars == <<rwnd, uncounted, wire, rxq, owed, acks, sent, got, phase>>

Init == /\ rwnd = QueueSize
        /\ uncounted = 0
        /\ wire = << >>
        /\ rxq = << >>
        /\ owed = 0
        /\ acks = 0
        /\ sent = 0
        /\ got = 0
        /\ phase = "connected"

\* send_data(): the message is on the wire.  The write lock is held until the message
\* is counted, so no second message leaves meanwhile.
Send == /\ rwnd > 0 /\ uncounted = 0 /\ sent < MaxSent
        /\ wire' = Append(wire, sent + 1)
        /\ sent' = sent + 1
        /\ uncounted' = 1
        /\ UNCHANGED <<rwnd, rxq, owed, acks, got>>

Count_without_decrement ==
    uncounted = 1 /\ uncounted' = 0 /\ UNCHANGED <<rwnd, wire, rxq, owed, acks, sent, got>>

\* send_data(): --st->rwnd
Count == /\ uncounted = 1
         /\ rwnd' = rwnd - 1
         /\ uncounted' = 0
         /\ UNCHANGED <<wire, rxq, owed, acks, sent, got>>

Deliver_in_front ==
    /\ wire # << >>
    /\ rxq' = <<Head(wire)>> \o rxq
    /\ wire' = Tail(wire)
    /\ UNCHANGED <<rwnd, uncounted, owed, acks, sent, got>>

\* on_data_message(): the channel thread queues the message without asking for room.
Deliver == /\ wire # << >>
           /\ rxq' = Append(rxq, Head(wire))
           /\ wire' = Tail(wire)
           /\ UNCHANGED <<rwnd, uncounted, owed, acks, sent, got>>

\* corpc_stream_read_internal(): one reader, which acknowledges before it reads again.
Read == /\ rxq # << >> /\ owed = 0
        /\ rxq' = Tail(rxq)
        /\ got' = got + 1
        /\ owed' = 1
        /\ UNCHANGED <<rwnd, uncounted, wire, acks, sent>>

\* send_data_ack()
Ack == /\ owed = 1
       /\ owed' = 0
       /\ acks' = acks + 1
       /\ UNCHANGED <<rwnd, uncounted, wire, rxq, sent, got>>

Credit_twice ==
    acks > 0 /\ acks' = acks - 1 /\ rwnd' = rwnd + 2
             /\ UNCHANGED <<uncounted, wire, rxq, owed, sent, got>>

\* on_data_ack()
Credit == /\ acks > 0
          /\ acks' = acks - 1
          /\ rwnd' = rwnd + 1
          /\ UNCHANGED <<uncounted, wire, rxq, owed, sent, got>>

Step == Send \/ Count \/ Deliver \/ Read \/ Ack \/ Credit

\* The stream is closed at either end or the connection is lost: its state is
\* forgotten.
Break == /\ phase' = "broken"
         /\ rwnd' = QueueSize
         /\ uncounted' = 0
         /\ wire' = << >>
         /\ rxq' = << >>
         /\ owed' = 0
         /\ acks' = 0
         /\ sent' = 0
         /\ got' = 0

Next == phase = "connected" /\ ((Step /\ UNCHANGED phase) \/ Break)

Spec == Init /\ [][Next]_vars

-----------------------------------------------------------------------------

\* The types of the variables.
TypeOK == /\ rwnd \in Nat
          /\ uncounted \in 0..1
          /\ wire \in Seq(Nat)
          /\ rxq \in Seq(Nat)
          /\ owed \in 0..1
          /\ acks \in Nat
          /\ sent \in Nat
          /\ got \in Nat
          /\ phase \in {"connected", "broken"}

\* Every credit of the window is in one place: none is lost, none is made up.
CreditsConserved ==
    rwnd - uncounted + Len(wire) + Len(rxq) + owed + acks = QueueSize

\* A message that arrives always finds room: "BUG BUG BUG: ccfifo is full" in
\* on_data_message() cannot be reached by peers that run this code.
RoomForArrivals == Len(rxq) + Len(wire) <= QueueSize

\* Messages are read in the order they were written, none lost, none twice: what is
\* queued and on the wire are exactly the writes not yet read.
InOrder == /\ sent = got + Len(rxq) + Len(wire)
           /\ \A i \in 1..Len(rxq)  : rxq[i]  = got + i
           /\ \A i \in 1..Len(wire) : wire[i] = got + Len(rxq) + i

\* A message is counted against a window it was granted: --st->rwnd on a uint16_t
\* never wraps.
WindowNeverWraps == uncounted = 1 => rwnd > 0
=============================================================================
