----------------------------- MODULE CorpcRing -----------------------------
(***************************************************************************)
(* A stream's flow control over the ring buffer that is its receive queue: *)
(* on_data_message() pushes into st->rxq and corpc_stream_read_internal()  *)
(* pops from it.  CorpcFlow keeps the queue as a sequence, CcFifo keeps it *)
(* as st->rxq does; here both move together.                               *)
(*                                                                         *)
(* When the stream is gone the ring goes on by itself and stands for the   *)
(* other rings of the program, whose callers push without asking for room  *)
(* and pop until nothing is left (a core's queue of new coroutines,        *)
(* co-scheduler.c:729-736).                                                *)
(***************************************************************************)
EXTENDS CorpcFlow, CcFifo

\* ccfifo_init() of st->rxq: the ring is as large as the window of the peer, and what
\* is queued in it are the messages.
ASSUME RingAssumption == Capacity = QueueSize /\ 1..MaxSent \subseteq Item

RingInit == Init /\ FifoInit

on_data_message == Deliver /\ ccfifo_push(Head(wire))

corpc_stream_read_internal == Read /\ ccfifo_pop

\* What leaves the receive queue alone.
Elsewhere == Send \/ Count \/ Ack \/ Credit

RingNext ==
    \/ /\ phase = "connected"
       /\ \/ (on_data_message \/ corpc_stream_read_internal) /\ UNCHANGED phase
          \/ Elsewhere /\ UNCHANGED <<phase, fifoVars>>
          \/ Break /\ UNCHANGED fifoVars
    \/ phase = "broken" /\ FifoNext /\ UNCHANGED vars

RingSpec == RingInit /\ [][RingNext]_<<vars, fifoVars>>

-----------------------------------------------------------------------------

\* While the stream is connected its ring holds what the flow control believes is
\* queued, and no push of on_data_message() is refused and no pop of the reader comes
\* back empty: the return values the code ignores (lines 809 and 1244) are never NULL.
RingHoldsQueue == phase = "connected" => Contents = rxq
=============================================================================
