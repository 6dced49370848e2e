-------------------------- MODULE CorpcChannelFlow --------------------------
(***************************************************************************)
(* The channel of CorpcChannel implements, in both directions of the first *)
(* stream the client opens, the credit-controlled FIFO of CorpcFlow.  The  *)
(* mapping holds for Openers = {Client} and MaxSid = 1: both ends of the   *)
(* stream then have sid 1.                                                 *)
(***************************************************************************)
EXTENDS CorpcChannel

\* The end at p was there and is closed, refused or freed.
Gone(p) == gsid[p] >= 1 /\ (1 \notin tbl[p] \/ st[p][1].state \notin Usable)

Broken == ~link \/ \E p \in Peer : ~sock[p] \/ ~established(p) \/ Gone(p)

\* A broken stream maps to the state of a fresh one.
Unless(fresh, value) == IF Broken THEN fresh ELSE value

Phase == IF Broken THEN "broken" ELSE "connected"

\* The direction from p to the other peer.
Window(p)    == Unless(QueueSize,
                       IF st[p][1].state = "established" THEN st[p][1].rwnd ELSE QueueSize)
Uncounted(p) == Unless(0, One(pc[p][1] = "sent"))
Wire(p)      == Unless(<< >>, DataFor(net[Other(p)], 1))
Queue(p)     == Unless(<< >>, st[Other(p)][1].rxq)
Owed(p)      == Unless(0, One(/\ op[Other(p)][1] = "ack"
                              /\ pc[Other(p)][1] \in {"acquire", "send"}))
Acks(p)      == Unless(0, AcksFor(net[p], 1))
Sent(p)      == Unless(0, nwr[p][1])
Got(p)       == Unless(0, nrd[Other(p)][1])

ToServer == INSTANCE CorpcFlow WITH
    MaxSent   <- MaxWrites[Client],
    rwnd      <- Window(Client),
    uncounted <- Uncounted(Client),
    wire      <- Wire(Client),
    rxq       <- Queue(Client),
    owed      <- Owed(Client),
    acks      <- Acks(Client),
    sent      <- Sent(Client),
    got       <- Got(Client),
    phase     <- Phase

ToClient == INSTANCE CorpcFlow WITH
    MaxSent   <- MaxWrites[Server],
    rwnd      <- Window(Server),
    uncounted <- Uncounted(Server),
    wire      <- Wire(Server),
    rxq       <- Queue(Server),
    owed      <- Owed(Server),
    acks      <- Acks(Server),
    sent      <- Sent(Server),
    got       <- Got(Server),
    phase     <- Phase

\* What the client writes reaches the server through a CorpcFlow: every step of the
\* two channel threads, the writer and the reader is a step of it or changes nothing.
ClientToServer == ToServer!Spec

\* The same for what the server's method writes.
ServerToClient == ToClient!Spec

\* Each direction of a stream is a credit-controlled FIFO, whatever the two peers'
\* threads do: send_data(), on_data_message(), the reader and on_data_ack() implement
\* CorpcFlow, and no credit and no message is lost between their sections.
ImplementsFlow == ClientToServer /\ ServerToClient
=============================================================================
