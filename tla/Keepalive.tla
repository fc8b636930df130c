------------------------------ MODULE Keepalive ------------------------------
(***************************************************************************)
(* What both servers of approach-2 promise about a silent connection, the  *)
(* "Keepalive" of its README: one that has given a sign of life within     *)
(* Timeout is not cut for its silence, and one that has given none for     *)
(* Limit is cut by then, unless the client is blocking: it does not read.  *)
(* No ticks, queues or broker here; WsKeepalive and GrpcChannel implement  *)
(* it.                                                                     *)
(***************************************************************************)
EXTENDS Integers

CONSTANTS
    Timeout,        \* the silence that is always put up with
    Limit           \* the silence that never is

VARIABLES
    clock,
    heard,          \* when the last sign of life was handled
    connection,     \* open, closed, or timed_out
    blocking        \* whether the client leaves the server waiting in a write

vars == <<clock, heard, connection, blocking>>

Init ==
    /\ clock = 0 /\ heard = 0
    /\ connection = "open"
    /\ blocking \in BOOLEAN

Hear ==
    /\ connection = "open"
    /\ heard' = clock
    /\ UNCHANGED <<clock, connection, blocking>>

TimeOut ==
    /\ connection = "open"
    /\ clock - heard > Timeout
    /\ connection' = "timed_out"
    /\ UNCHANGED <<clock, heard, blocking>>

Close ==
    /\ connection = "open"
    /\ connection' = "closed"
    /\ UNCHANGED <<clock, heard, blocking>>

Pass ==
    /\ connection = "open" /\ ~ blocking => clock < heard + Limit
    /\ clock' = clock + 1
    /\ UNCHANGED <<heard, connection, blocking>>

Next == Hear \/ TimeOut \/ Close \/ Pass

Spec == Init /\ [][Next]_vars
=============================================================================
