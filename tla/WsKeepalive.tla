------------------------------ MODULE WsKeepalive ------------------------------
(***************************************************************************)
(* The select loop of handle_ws in approach-2/src/server/ws_handler.rs,    *)
(* seen as a timer: when it pings, what renews last_pong_at, and when it   *)
(* closes the connection.  Time is counted in units of the reader's        *)
(* choice; what the loop sends and to whom is the business of Propeller.   *)
(***************************************************************************)
EXTENDS Integers, FiniteSets

CONSTANTS
    Period,         \* keepalive.ws_ping_interval_secs
    PongTimeout,    \* keepalive.ws_pong_timeout_secs
    Rtt,            \* from sending a ping to handling its pong, of a prompt client
    Lateness,       \* how late the loop handles a tick while it waits for nothing else
    MaxTime         \* bound: clock

\* config.rs refuses a zero for either setting.
ASSUME ConfigAssumption == Period \in Nat \ {0} /\ PongTimeout \in Nat \ {0}
ASSUME ClientAssumption ==
    /\ Rtt \in Nat
    /\ Lateness \in Nat
    /\ MaxTime \in Nat

\* A prompt client reads and answers every ping within Rtt; a reader answers when it
\* likes, or never; a slow one may also leave the server waiting in a write.
Kinds == {"prompt", "reader", "slow"}

VARIABLES
    client,         \* which of them is connected
    now,            \* the clock
    status,         \* select, write (it waits in ws_tx.send), closed, or timed_out
    next_tick,      \* when ping_interval fires
    last_pong_at,
    asked           \* when the pings were sent that the client has not answered

vars == <<client, now, status, next_tick, last_pong_at, asked>>

TypeOK ==
    /\ client \in Kinds
    /\ now \in Nat
    /\ status \in {"select", "write", "closed", "timed_out"}
    /\ next_tick \in Nat /\ next_tick <= now + Period
    /\ last_pong_at \in Nat /\ last_pong_at <= now
    /\ asked \subseteq Nat /\ \A a \in asked : a <= now

\* The first tick of a tokio interval is due at once.
Init ==
    /\ client \in Kinds
    /\ now = 0
    /\ status = "select"
    /\ next_tick = 0
    /\ last_pong_at = 0
    /\ asked = {}

Open == status \in {"select", "write"}

-----------------------------------------------------------------------------
(* The tick branch.                                                        *)

\* Mutant of RestartInterval: the default behaviour, which catches up with the ticks it
\* missed.
Burst == next_tick' = next_tick + Period

\* MissedTickBehavior::Delay: the next tick is a full period after this one.
RestartInterval == next_tick' = now + Period

\* Mutant of Overdue: off by one.
AlmostOverdue == now - last_pong_at >= PongTimeout

Overdue == now - last_pong_at > PongTimeout

TimeOut ==
    /\ status = "select"
    /\ now >= next_tick
    /\ Overdue
    /\ status' = "timed_out"
    /\ UNCHANGED <<client, now, next_tick, last_pong_at, asked>>

SendPing ==
    /\ status = "select"
    /\ now >= next_tick
    /\ ~ Overdue
    /\ RestartInterval
    /\ asked' = asked \union {now}
    /\ UNCHANGED <<client, now, status, last_pong_at>>

-----------------------------------------------------------------------------
(* The branches of the client's messages and of the events.                *)

\* Mutant of Pong: last_pong_at is not renewed.
PongIgnored ==
    /\ status = "select"
    /\ \E a \in asked : asked' = {b \in asked : b > a}
    /\ UNCHANGED <<client, now, status, next_tick, last_pong_at>>

\* A pong answers a ping and those sent before it.
Pong ==
    /\ status = "select"
    /\ \E a \in asked : asked' = {b \in asked : b > a}
    /\ last_pong_at' = now
    /\ UNCHANGED <<client, now, status, next_tick>>

\* A ping of the client is answered and counts as a pong; its text does not.
ClientPing ==
    /\ status = "select"
    /\ last_pong_at' = now
    /\ UNCHANGED <<client, now, status, next_tick, asked>>

\* An event, a ping or a pong is to be written, but the client does not read.
WriteWaits ==
    /\ client = "slow"
    /\ status = "select"
    /\ status' = "write"
    /\ UNCHANGED <<client, now, next_tick, last_pong_at, asked>>

WriteEnds ==
    /\ status = "write"
    /\ status' = "select"
    /\ UNCHANGED <<client, now, next_tick, last_pong_at, asked>>

\* The client closes, or reading or writing fails.
Disconnect ==
    /\ Open
    /\ status' = "closed"
    /\ UNCHANGED <<client, now, next_tick, last_pong_at, asked>>

\* Time does not pass the moment a free loop handles a tick, nor the one by which
\* a prompt client has answered.
Pass ==
    /\ Open
    /\ now < MaxTime
    /\ status = "select" => now < next_tick + Lateness
    /\ client = "prompt" => \A a \in asked : now < a + Rtt
    /\ now' = now + 1
    /\ UNCHANGED <<client, status, next_tick, last_pong_at, asked>>

Next ==
    \/ TimeOut \/ SendPing \/ Pong \/ ClientPing
    \/ WriteWaits \/ WriteEnds \/ Disconnect \/ Pass

Spec == Init /\ [][Next]_vars

-----------------------------------------------------------------------------
(* Properties.                                                             *)

\* README.md:73, "WS clients must reply to Ping frames with Pong": the connection of
\* a client that does is not closed by the keepalive.
PromptIsKept == client = "prompt" => status # "timed_out"

\* A client that says nothing is closed at the first tick after PongTimeout: while
\* the connection is open, the last sign of life is not older than that.  Not so of
\* a client that also stops reading: the loop waits in ws_tx.send, its timers with it.
SilentIsClosed ==
    Open /\ client # "slow" => now - last_pong_at <= PongTimeout + Period + Lateness

\* Also after the loop was held up by a slow client, it does not make up for the
\* pings it missed: between two of them there is always a full period.
PingsAreSpaced == \A a, b \in asked : a < b => b - a >= Period

\* approach-2/README.md:69, "stream-idle enforcement use [keepalive]": seen from outside the loop
\* only cuts clients that were silent for more than PongTimeout, and cuts those that
\* read before they are silent for longer than Keepalive allows; it never reopens.
Promise == INSTANCE Keepalive WITH
    Timeout <- PongTimeout,
    Limit <- PongTimeout + Period + Lateness,
    clock <- now,
    heard <- last_pong_at,
    connection <- IF Open THEN "open" ELSE status,
    blocking <- client = "slow"
ImplementsKeepalive == Promise!Spec
=============================================================================
