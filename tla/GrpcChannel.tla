----------------------------- MODULE GrpcChannel -----------------------------
(***************************************************************************)
(* The task of one Channel call in approach-2/src/server/grpc_handler.rs:  *)
(* its select loop, the bounded queue resp_tx of its responses, and the    *)
(* idle timeout.  A time unit is long against the work between two awaits. *)
(* What a topic request does to the broker is the business of Propeller.   *)
(***************************************************************************)
EXTENDS Integers, Sequences, FiniteSets

CONSTANTS
    Capacity,       \* of resp_tx (128 in the code)
    IdleTimeout,    \* keepalive.grpc_stream_idle_timeout_secs
    Period,         \* of keepalive_tick (one second)
    Gap,            \* longest time between two frames of an active client
    RedisTime,      \* longest time the broker takes for a topic request
    MaxFrames,      \* bound: frames the client sends
    MaxEvents,      \* bound: events published for the client
    MaxTime         \* bound: clock

ASSUME ChannelAssumption ==
    /\ Capacity \in Nat \ {0} /\ IdleTimeout \in Nat \ {0} /\ Period \in Nat \ {0}
    /\ Gap \in Nat /\ RedisTime \in Nat
    /\ MaxFrames \in Nat /\ MaxEvents \in Nat /\ MaxTime \in Nat

\* An active client reads at once and sends frames in time; a reader reads at once
\* and sends when it likes, or never; a slow one reads when it likes, or never.
Kinds == {"active", "reader", "slow"}

\* A topic request is answered; an event, an event ack and an empty frame are not.
Frames == {"topic", "other"}
Events == {"own", "topic"}
Answers == {"subscribed", "refused"}
Responses == {"connect", "timeout"} \union Answers \union Events

VARIABLES
    client,         \* which kind is connected
    link,           \* open, half (the client sends no more) or reset
    now,            \* the clock
    sent,           \* frames the client has sent
    sent_at,        \* when an active client sent the last one
    taken,          \* how many of them inbound.message() has returned
    listening,      \* whether a topic request of the client has ever succeeded
    arrived,        \* events put into event_rx
    forwarded,      \* how many of them event_rx.recv() has returned
    status,         \* what the task awaits: select, broker, send; or how it ended
    holding,        \* the response it sends or sent last
    responses,      \* responses put into resp_tx
    read,           \* how many of them the client has read
    next_tick,      \* when keepalive_tick fires
    last_inbound_at

clientVars == <<client, link, sent, sent_at, read>>
loopVars == <<taken, forwarded, status, holding, responses>>
timerVars == <<next_tick, last_inbound_at>>
vars == <<clientVars, now, listening, arrived, loopVars, timerVars>>

TypeOK ==
    /\ client \in Kinds /\ link \in {"open", "half", "reset"}
    /\ now \in Nat
    /\ sent \in Seq(Frames) /\ sent_at \in 0..now
    /\ taken \in 0..Len(sent)
    /\ listening \in {"no", "yes"}
    /\ arrived \in Seq(Events) /\ forwarded \in 0..Len(arrived)
    /\ status \in {"select", "broker", "send", "closed", "timed_out"}
    /\ holding \in Responses
    /\ responses \in Seq(Responses)
    /\ read \in 0..Len(responses) /\ Len(responses) - read <= Capacity
    /\ next_tick \in Nat /\ next_tick <= now + Period
    /\ last_inbound_at \in 0..now

\* channel has subscribed the client and queued the acknowledgement; the first tick
\* of a tokio interval is due at once.
Init ==
    /\ client \in Kinds /\ link = "open"
    /\ now = 0
    /\ sent = <<>> /\ sent_at = 0 /\ taken = 0
    /\ listening = "no"
    /\ arrived = <<>> /\ forwarded = 0
    /\ status = "select" /\ holding = "connect"
    /\ responses = <<"connect">> /\ read = 0
    /\ next_tick = 0 /\ last_inbound_at = 0

Open == status \notin {"closed", "timed_out"}
HasRoom == Len(responses) - read < Capacity

-----------------------------------------------------------------------------
(* The branches of select!, which picks any that is ready.                 *)

\* Mutants of Receive: only topic requests renew last_inbound_at; the request runs
\* in a task of its own and the loop goes on.
OnlyRequestsRenew ==
    /\ status = "select"
    /\ taken < Len(sent)
    /\ taken' = taken + 1
    /\ \/ sent[taken'] = "topic" /\ status' = "broker" /\ last_inbound_at' = now
       \/ sent[taken'] = "other" /\ UNCHANGED <<status, last_inbound_at>>
    /\ UNCHANGED <<clientVars, now, listening, arrived, forwarded, holding, responses, next_tick>>
RequestDetached ==
    /\ status = "select"
    /\ taken < Len(sent)
    /\ taken' = taken + 1
    /\ last_inbound_at' = now
    /\ listening' = IF sent[taken'] = "topic" THEN "yes" ELSE listening
    /\ UNCHANGED <<clientVars, now, arrived, forwarded, status, holding, responses, next_tick>>

\* Every frame renews last_inbound_at, before handle_client_request is awaited.
Receive ==
    /\ status = "select"
    /\ taken < Len(sent)
    /\ taken' = taken + 1
    /\ last_inbound_at' = now
    /\ \/ sent[taken'] = "topic" /\ status' = "broker"
       \/ sent[taken'] = "other" /\ UNCHANGED status
    /\ UNCHANGED <<clientVars, now, listening, arrived, forwarded, holding, responses, next_tick>>

\* topic_subscribe or topic_unsubscribe returned; Ok and Err are both answered.
BrokerReturns ==
    /\ status = "broker"
    /\ status' = "send"
    /\ \/ holding' = "subscribed" /\ listening' = "yes"
       \/ holding' = "refused" /\ UNCHANGED listening
    /\ UNCHANGED <<clientVars, now, arrived, taken, forwarded, responses, timerVars>>

ForwardEvent ==
    /\ status = "select"
    /\ forwarded < Len(arrived)
    /\ forwarded' = forwarded + 1
    /\ holding' = arrived[forwarded']
    /\ status' = "send"
    /\ UNCHANGED <<clientVars, now, listening, arrived, taken, responses, timerVars>>

\* Mutant of Overdue: off by one.
AlmostOverdue == now - last_inbound_at >= IdleTimeout

Overdue == now - last_inbound_at > IdleTimeout

\* MissedTickBehavior::Delay: the next tick is a full period after this one.
Ticked ==
    /\ status = "select"
    /\ now >= next_tick
    /\ ~ Overdue
    /\ next_tick' = now + Period
    /\ UNCHANGED <<clientVars, now, listening, arrived, loopVars, last_inbound_at>>

TimeOut ==
    /\ status = "select"
    /\ now >= next_tick
    /\ Overdue
    /\ holding' = "timeout"
    /\ status' = "send"
    /\ UNCHANGED <<clientVars, now, listening, arrived, taken, forwarded, responses, timerVars>>

\* Mutants of Leave: the end of the client's frames is taken for the end of the
\* stream before they are read; an error of the stream is only logged.
LeaveAtOnce ==
    /\ status = "select"
    /\ link # "open"
    /\ status' = "closed"
    /\ UNCHANGED <<clientVars, now, listening, arrived, taken, forwarded, holding, responses,
                   timerVars>>
ErrorLogged ==
    /\ status = "select"
    /\ link = "half" /\ taken = Len(sent)
    /\ status' = "closed"
    /\ UNCHANGED <<clientVars, now, listening, arrived, taken, forwarded, holding, responses,
                   timerVars>>

\* inbound.message() returns None behind the last frame, or an error after a reset.
\* The loop ends, and the task calls unsubscribe_client.
Leave ==
    /\ status = "select"
    /\ link = "reset" \/ (link = "half" /\ taken = Len(sent))
    /\ status' = "closed"
    /\ UNCHANGED <<clientVars, now, listening, arrived, taken, forwarded, holding, responses,
                   timerVars>>

-----------------------------------------------------------------------------
(* resp_tx.send: it waits for room, and fails once the receiver is dropped. *)

AfterSend == IF holding = "timeout" THEN "timed_out" ELSE "select"

\* Mutants of Send: a queue without a bound; try_send, which drops the response when
\* the queue is full.
Unbounded ==
    /\ status = "send"
    /\ link # "reset"
    /\ responses' = Append(responses, holding)
    /\ status' = AfterSend
    /\ UNCHANGED <<clientVars, now, listening, arrived, taken, forwarded, holding, timerVars>>
TrySend ==
    /\ status = "send"
    /\ link # "reset"
    /\ responses' = IF HasRoom THEN Append(responses, holding) ELSE responses
    /\ status' = AfterSend
    /\ UNCHANGED <<clientVars, now, listening, arrived, taken, forwarded, holding, timerVars>>

Send ==
    /\ status = "send"
    /\ link # "reset"
    /\ HasRoom
    /\ responses' = Append(responses, holding)
    /\ status' = AfterSend
    /\ UNCHANGED <<clientVars, now, listening, arrived, taken, forwarded, holding, timerVars>>

\* The loop ends when it was an event; the failure of an answer is ignored.
SendFails ==
    /\ status = "send"
    /\ link = "reset"
    /\ status' = IF holding \in Events THEN "closed" ELSE AfterSend
    /\ UNCHANGED <<clientVars, now, listening, arrived, taken, forwarded, holding, responses,
                   timerVars>>

-----------------------------------------------------------------------------
(* The client, the backends that publish, and time.                        *)

ClientSends(f) ==
    /\ Open
    /\ link = "open"
    /\ Len(sent) < MaxFrames
    /\ sent' = Append(sent, f)
    /\ sent_at' = IF client = "active" THEN now ELSE sent_at
    /\ UNCHANGED <<client, link, read, now, listening, arrived, loopVars, timerVars>>

ClientReads ==
    /\ Open
    /\ link # "reset"
    /\ read < Len(responses)
    /\ read' = read + 1
    /\ UNCHANGED <<client, link, sent, sent_at, now, listening, arrived, loopVars, timerVars>>

ClientLeaves ==
    /\ Open
    /\ \/ link = "open" /\ link' = "half"
       \/ link # "reset" /\ link' = "reset"
    /\ UNCHANGED <<client, sent, sent_at, read, now, listening, arrived, loopVars, timerVars>>

\* An event of the client's own channels, or of a topic it has a listener for.
EventArrives(e) ==
    /\ Open
    /\ Len(arrived) < MaxEvents
    /\ e = "topic" => listening = "yes"
    /\ arrived' = Append(arrived, e)
    /\ UNCHANGED <<clientVars, now, listening, loopVars, timerVars>>

\* A task that can go on does so before time passes, and so do the broker and the
\* client when their time is over.
Idle == /\ taken = Len(sent) /\ forwarded = Len(arrived)
        /\ link = "open" /\ now < next_tick
Pass ==
    /\ Open
    /\ now < MaxTime
    /\ status = "select" => Idle
    /\ status = "broker" => now < last_inbound_at + RedisTime
    /\ status = "send" => ~ HasRoom /\ link # "reset"
    /\ client # "slow" => read = Len(responses)
    /\ client = "active" /\ link = "open" => now < sent_at + Gap
    /\ now' = now + 1
    /\ UNCHANGED <<clientVars, listening, arrived, loopVars, timerVars>>

Task ==
    \/ Receive \/ BrokerReturns \/ ForwardEvent \/ Ticked \/ TimeOut \/ Leave
    \/ Send \/ SendFails

Next ==
    \/ Task
    \/ \E f \in Frames : ClientSends(f)
    \/ ClientReads \/ ClientLeaves
    \/ \E e \in Events : EventArrives(e)
    \/ Pass

Spec == Init /\ [][Next]_vars

\* tokio polls the task, the broker returns, and a client that is not slow reads.
Fairness == WF_vars(Task) /\ WF_vars(client # "slow" /\ ClientReads)
FairSpec == Spec /\ Fairness

-----------------------------------------------------------------------------
(* Properties.                                                             *)

\* approach-2/README.md:74, "clients must send periodic inbound frames to stay active": one that
\* does, and reads, is not timed out, although a frame may wait behind a request at
\* the broker and select! may prefer a tick to the frame.
ActiveIsKept == client = "active" => holding # "timeout"

\* A client that reads is never overdue by more than the tick that finds out, or
\* the broker call that held up the tick.  Not so of one that does not read: while
\* the loop waits in resp_tx.send it handles no tick.
SilentIsReleased ==
    Open /\ client # "slow" =>
        \/ now - last_inbound_at <= IdleTimeout + Period
        \/ now - last_inbound_at <= RedisTime

\* A client hears nothing of topics before it was told that it is subscribed to one,
\* although the listener is started before the answer is sent.  Topics are not told
\* apart here, so it is an acknowledgement that comes first.
AckPrecedesEvents ==
    \A i \in DOMAIN responses :
        responses[i] = "topic" => \E j \in 1..(i - 1) : responses[j] = "subscribed"

\* While the client can read, nothing is lost or reordered on the way through the
\* loop, full queue or not: the n-th event in what the task has sent or is sending is
\* the n-th it took, each topic request it took is answered once, and a client that
\* stops sending is answered to the last of its requests before the task ends.
Output == IF status = "send" THEN Append(responses, holding) ELSE responses
Count(s, S, n) == Cardinality({i \in 1..n : s[i] \in S})
PassedOn ==
    /\ Count(Output, Events, Len(Output)) = forwarded
    /\ \A i \in 1..Len(Output) :
        Output[i] \in Events => Output[i] = arrived[Count(Output, Events, i)]
AnsweredOnce ==
    Count(Output, Answers, Len(Output)) + (IF status = "broker" THEN 1 ELSE 0)
        = Count(sent, {"topic"}, taken)
NothingDropped ==
    link # "reset" =>
        PassedOn /\ AnsweredOnce /\ (status = "closed" => taken = Len(sent))

\* Under FairSpec: a client that reads gets an answer to each request, or the end of
\* the stream; and the task of a client that is gone ends, even one that waits for
\* room in the queue.
EveryCallEnds ==
    /\ \A i \in 1..MaxFrames :
        Len(sent) >= i /\ client # "slow" ~> (taken >= i /\ status = "select") \/ ~ Open
    /\ link = "reset" ~> ~ Open

\* The same line again, as the contract shared with the WebSocket server: the loop sends
\* "timeout" only after IdleTimeout of silence, to a client that reads by the next tick
\* or the end of a broker call, and what happens in the queue meanwhile changes nothing.
Promise == INSTANCE Keepalive WITH
    Timeout <- IdleTimeout,
    Limit <- IF RedisTime > IdleTimeout + Period THEN RedisTime ELSE IdleTimeout + Period,
    clock <- now,
    heard <- last_inbound_at,
    connection <- IF holding = "timeout" THEN "timed_out"
                  ELSE IF Open THEN "open" ELSE "closed",
    blocking <- client = "slow"
ImplementsKeepalive == Promise!Spec
=============================================================================
