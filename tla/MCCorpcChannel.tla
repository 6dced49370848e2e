--------------------------- MODULE MCCorpcChannel ---------------------------
(* Model-checking instances of CorpcChannel: how many messages the client  *)
(* and the server write on a stream.                                       *)
EXTENDS CorpcChannel

Writes(c, s) == [p \in Peer |-> IF p = Client THEN c ELSE s]

OneOnly  == Writes(1, 0)
NoWrites == Writes(0, 0)
OneEach  == Writes(1, 1)
=============================================================================
