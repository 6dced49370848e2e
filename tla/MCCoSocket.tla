----------------------------- MODULE MCCoSocket -----------------------------
(* Workloads for two callers of CoSocket.                                  *)
EXTENDS CoSocket

Call(o, f, tmo) == [op |-> o, fd |-> f, tmo |-> tmo]
Two(a, b)       == [t \in Caller |-> IF t = "c1" THEN a ELSE b]
Alone(a)        == Two(a, [a EXCEPT !.op = "idle"])

AllWorkloads == {
    Two(Call("recv", "s", TRUE), Call("send", "s", FALSE)),
    Two(Call("co_recv", "f", TRUE), Call("co_send", "f", TRUE)),
    Alone(Call("send", "s", TRUE)),
    Alone(Call("accept", "s", TRUE)),
    Alone(Call("connect", "s", TRUE)),
    Alone(Call("co_connect", "f", FALSE)),
    Alone(Call("co_read", "f", FALSE)),
    Alone(Call("co_write", "f", FALSE)),
    Alone(Call("co_accept", "f", FALSE)),
    Alone(Call("co_poll", "f", TRUE)),
    Two(Call("co_recv", "f", TRUE), Call("co_poll", "f", TRUE))}

\* A coroutine that receives datagrams, each within a time.
Receiver == {Alone(Call("co_recv", "f", TRUE))}
=============================================================================
