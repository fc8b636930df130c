------------------------------ MODULE LiveUpdates ------------------------------
(***************************************************************************)
(* The realtime side of apps/api/src/main.rs: the broadcast channel ws_tx, *)
(* the task that copies payments.confirmed into it, and the ws_stream task *)
(* of each client of /ws.                                                  *)
(***************************************************************************)
EXTENDS Integers, Sequences

CONSTANTS
    Clients,        \* connections to /ws
    Capacity,       \* of the broadcast channel (1024 in the code)
    MaxWebhooks,    \* bound: webhooks received
    MaxConfirmed,   \* bound: confirmations the worker publishes
    MaxFaults       \* bound: failures of the Redis connection

ASSUME CapacityAssumption == Capacity \in Nat \ {0}
ASSUME LiveBounds == MaxWebhooks \in Nat /\ MaxConfirmed \in Nat /\ MaxFaults \in Nat

VARIABLES
    ring,           \* messages sent to ws_tx: 0 for a webhook, n for the n-th confirmation
    webhooks,       \* webhooks received so far
    confirmed,      \* confirmations published to payments.confirmed so far
    forwarder,      \* what forward_pubsub_to_ws waits for
    taken,          \* last confirmation the forwarder has taken from Redis
    phase,          \* per client: away, recv, send or ended
    next,           \* position of a client's receiver in ring
    got,            \* positions of the messages written to a client
    gone,           \* clients that have closed their end
    faults          \* faults so far

sourceVars == <<webhooks, confirmed>>
forwarderVars == <<forwarder, taken, faults>>
clientVars == <<phase, next, got, gone>>
vars == <<ring, sourceVars, forwarderVars, clientVars>>

TypeOK ==
    /\ ring \in Seq(0..MaxConfirmed)
    /\ webhooks \in 0..MaxWebhooks
    /\ confirmed \in 0..MaxConfirmed
    /\ forwarder \in {"connect", "subscribe", "stream", "ended"}
    /\ taken \in 0..confirmed
    /\ phase \in [Clients -> {"away", "recv", "send", "ended"}]
    /\ next \in [Clients -> 1..(Len(ring) + 1)]
    /\ got \in [Clients -> Seq(1..Len(ring))]
    /\ gone \subseteq Clients
    /\ faults \in 0..MaxFaults

Init ==
    /\ ring = <<>>
    /\ webhooks = 0
    /\ confirmed = 0
    /\ forwarder = "connect"
    /\ taken = 0
    /\ phase = [c \in Clients |-> "away"]
    /\ next = [c \in Clients |-> 1]
    /\ got = [c \in Clients |-> <<>>]
    /\ gone = {}
    /\ faults = 0

-----------------------------------------------------------------------------
(* receive_webhook, and the worker's publish_payment_confirmed.            *)

ReceiveWebhook ==
    /\ webhooks < MaxWebhooks
    /\ webhooks' = webhooks + 1
    /\ ring' = Append(ring, 0)
    /\ UNCHANGED <<confirmed, forwarderVars, clientVars>>

Confirm ==
    /\ confirmed < MaxConfirmed
    /\ confirmed' = confirmed + 1
    /\ UNCHANGED <<ring, webhooks, forwarderVars, clientVars>>

-----------------------------------------------------------------------------
(* forward_pubsub_to_ws.                                                   *)

ForwarderConnects ==
    /\ forwarder = "connect"
    /\ forwarder' = "subscribe"
    /\ UNCHANGED <<ring, sourceVars, taken, faults, clientVars>>

\* What was published before the subscription is not delivered.
ForwarderSubscribes ==
    /\ forwarder = "subscribe"
    /\ forwarder' = "stream"
    /\ taken' = confirmed
    /\ UNCHANGED <<ring, sourceVars, faults, clientVars>>

\* Mutant of Forward: it hands over the newest confirmation and drops the others.
ForwardNewest ==
    /\ forwarder = "stream"
    /\ taken < confirmed
    /\ taken' = confirmed
    /\ ring' = Append(ring, confirmed)
    /\ UNCHANGED <<sourceVars, forwarder, faults, clientVars>>

Forward ==
    /\ forwarder = "stream"
    /\ taken < confirmed
    /\ taken' = taken + 1
    /\ ring' = Append(ring, taken + 1)
    /\ UNCHANGED <<sourceVars, forwarder, faults, clientVars>>

\* A failed connect or subscribe and the end of the stream all end the task.
ForwarderEnds ==
    /\ forwarder # "ended"
    /\ faults < MaxFaults
    /\ faults' = faults + 1
    /\ forwarder' = "ended"
    /\ UNCHANGED <<ring, sourceVars, taken, clientVars>>

-----------------------------------------------------------------------------
(* ws_handler and ws_stream.                                               *)

Upgrade(c) ==
    /\ phase[c] = "away"
    /\ phase' = [phase EXCEPT ![c] = "recv"]
    /\ next' = [next EXCEPT ![c] = Len(ring) + 1]
    /\ UNCHANGED <<ring, sourceVars, forwarderVars, got, gone>>

\* The channel keeps the last Capacity messages.
Oldest == IF Len(ring) > Capacity THEN Len(ring) - Capacity + 1 ELSE 1

Receive(c) ==
    /\ phase[c] = "recv"
    /\ next[c] \in Oldest..Len(ring)
    /\ phase' = [phase EXCEPT ![c] = "send"]
    /\ next' = [next EXCEPT ![c] = @ + 1]
    /\ UNCHANGED <<ring, sourceVars, forwarderVars, got, gone>>

\* Mutants of Lag: the receiver is asked again from where it was; the error only
\* moves it to the oldest message.
LagRetried(c) ==
    /\ phase[c] = "recv"
    /\ next[c] < Oldest
    /\ UNCHANGED vars
LagSkipped(c) ==
    /\ phase[c] = "recv"
    /\ next[c] < Oldest
    /\ next' = [next EXCEPT ![c] = Oldest]
    /\ UNCHANGED <<ring, sourceVars, forwarderVars, phase, got, gone>>

\* recv returns Lagged: the loop ends, and with it the connection.
Lag(c) ==
    /\ phase[c] = "recv"
    /\ next[c] < Oldest
    /\ phase' = [phase EXCEPT ![c] = "ended"]
    /\ UNCHANGED <<ring, sourceVars, forwarderVars, next, got, gone>>

Written(c) ==
    /\ phase[c] = "send"
    /\ c \notin gone
    /\ got' = [got EXCEPT ![c] = Append(@, next[c] - 1)]
    /\ phase' = [phase EXCEPT ![c] = "recv"]
    /\ UNCHANGED <<ring, sourceVars, forwarderVars, next, gone>>

\* The task never reads the socket: only a write tells it that the client is gone.
WriteFails(c) ==
    /\ phase[c] = "send"
    /\ c \in gone
    /\ phase' = [phase EXCEPT ![c] = "ended"]
    /\ UNCHANGED <<ring, sourceVars, forwarderVars, next, got, gone>>

ClientCloses(c) ==
    /\ phase[c] \in {"recv", "send"}
    /\ c \notin gone
    /\ gone' = gone \union {c}
    /\ UNCHANGED <<ring, sourceVars, forwarderVars, phase, next, got>>

Stream(c) == Receive(c) \/ Lag(c) \/ Written(c) \/ WriteFails(c)

Next ==
    \/ ReceiveWebhook \/ Confirm
    \/ ForwarderConnects \/ ForwarderSubscribes \/ Forward \/ ForwarderEnds
    \/ \E c \in Clients : Upgrade(c) \/ Stream(c) \/ ClientCloses(c)

Spec == Init /\ [][Next]_vars

\* tokio polls the tasks; a client that has not closed reads what it is sent.
Fairness ==
    /\ WF_vars(ForwarderConnects \/ ForwarderSubscribes \/ Forward)
    /\ \A c \in Clients : WF_vars(Stream(c))
FairSpec == Spec /\ Fairness

-----------------------------------------------------------------------------
(* Properties.                                                             *)

\* What a client of /ws sees has no gaps and no repetitions: a client too slow for
\* the channel loses its connection, it is never left out of a message in between.
NoGaps ==
    \A c \in Clients : \A i \in DOMAIN got[c] :
        i > 1 => got[c][i] = got[c][i - 1] + 1

\* The confirmations reach ws_tx in the order of their publication, none is left
\* out from the first one on and none is repeated.
ConfirmationsInOrder ==
    \A i, j \in DOMAIN ring :
        /\ i < j
        /\ ring[i] > 0 /\ ring[j] > 0
        /\ \A k \in (i + 1)..(j - 1) : ring[k] = 0
        => ring[j] = ring[i] + 1

\* A connected client gets every message sent to ws_tx from its upgrade on, unless
\* it closes or falls behind.
EveryoneCatchesUp ==
    \A c \in Clients :
        phase[c] = "recv" ~>
            phase[c] = "ended" \/ c \in gone \/ Len(ring) = next[c] - 1

\* A confirmation published while the forwarder streams reaches ws_tx, unless the
\* connection to Redis breaks, after which none ever does.
ConfirmedIsForwarded ==
    \A n \in 1..MaxConfirmed :
        forwarder = "stream" /\ taken < n /\ n <= confirmed ~>
            faults > 0 \/ \E i \in DOMAIN ring : ring[i] = n
=============================================================================
