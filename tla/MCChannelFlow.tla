---------------------------- MODULE MCChannelFlow ----------------------------
(* Model-checking instance of CorpcChannelFlow.                            *)
EXTENDS CorpcChannelFlow

ThreeOne == [p \in Peer |-> IF p = Client THEN 3 ELSE 1]
=============================================================================
