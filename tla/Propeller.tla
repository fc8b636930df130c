------------------------------- MODULE Propeller -------------------------------
(***************************************************************************)
(* The Propeller server of approach-2: the tasks that serve the client     *)
(* connections (grpc_handler.rs channel, ws_handler.rs handle_ws) with the *)
(* calls they make through PushService, the device registry in Redis, the  *)
(* broker, and backends that publish.  The connections belong to one       *)
(* client of one tenant; an action is the code between two awaits.         *)
(***************************************************************************)
EXTENDS Broker

CONSTANTS
    GrpcConns,      \* the connections that use gRPC; the others use WebSocket
    Device,         \* per connection: its device, or NoDevice
    NoDevice,       \* no device header, or device support disabled
    MaxCrashes      \* bound: crashes of the server

ASSUME GrpcAssumption == GrpcConns \subseteq Conns
ASSUME CrashBound == MaxCrashes \in Nat

VARIABLES
    pc,             \* what the task of a connection awaits
    pending,        \* topic of the add_subscription in progress
    sent,           \* how much of received the handler has passed to the client
    registry,       \* device ids in the hash "<tenant>:<client>"
    connections,    \* the gauge Metrics.connections
    due,            \* messages a connection was to hear and has not handed over
    removed,        \* history: topics a connection has ever unsubscribed from
    crashes         \* crashes so far

handlerVars == <<pc, pending, sent>>
historyVars == <<due, removed>>
vars == <<brokerVars, handlerVars, registry, connections, historyVars, crashes>>

Devices == {Device[c] : c \in Conns} \ {NoDevice}
HasDevice(c) == Device[c] # NoDevice
States == {"idle", "connect", "store", "ack", "loop", "adding", "delete", "closed", "dropped"}
AnyTopic == CHOOSE t \in Topics : TRUE

TypeOK ==
    /\ BrokerTypeOK
    /\ pc \in [Conns -> States]
    /\ pending \in [Conns -> Topics]
    /\ sent \in [Conns -> Nat]
    /\ registry \subseteq Devices
    /\ connections \in Nat
    /\ due \in [Conns -> SUBSET (1..MaxMessages)]
    /\ removed \in [Conns -> SUBSET Topics]
    /\ crashes \in 0..MaxCrashes

Init ==
    /\ BrokerInit
    /\ pc = [c \in Conns |-> "idle"]
    /\ pending = [c \in Conns |-> AnyTopic]
    /\ sent = [c \in Conns |-> 0]
    /\ registry = {}
    /\ connections = 0
    /\ due = [c \in Conns |-> {}]
    /\ removed = [c \in Conns |-> {}]
    /\ crashes = 0

Moves(c, from, to) ==
    /\ pc[c] = from
    /\ pc' = [pc EXCEPT ![c] = to]

-----------------------------------------------------------------------------
(* subscribe_client and the connect acknowledgement.                       *)

Connect(c) ==
    /\ Moves(c, "idle", "connect")
    /\ insert_entry(c)
    /\ UNCHANGED <<faults, pending, sent, registry, connections, historyVars, crashes>>

Subscribed(c) ==
    /\ Moves(c, "connect", IF HasDevice(c) THEN "store" ELSE "ack")
    /\ spawn_base(c)
    /\ connections' = IF HasDevice(c) THEN connections ELSE connections + 1
    /\ UNCHANGED <<faults, pending, sent, registry, historyVars, crashes>>

SubscribeFails(c) ==
    /\ Fault
    /\ Moves(c, "connect", "dropped")
    /\ abandon(c)
    /\ UNCHANGED <<pending, sent, registry, connections, historyVars, crashes>>

\* Mutant of StoreDevice: the connection is counted and not listed.
OnlyCounted(c) ==
    /\ Moves(c, "store", "ack")
    /\ connections' = connections + 1
    /\ UNCHANGED <<brokerVars, pending, sent, registry, historyVars, crashes>>

StoreDevice(c) ==
    /\ Moves(c, "store", "ack")
    /\ registry' = registry \union {Device[c]}
    /\ connections' = connections + 1
    /\ UNCHANGED <<brokerVars, pending, sent, historyVars, crashes>>

\* Mutant of StoreFails: the error skips the gauge.
StoreFailsEarly(c) ==
    /\ Fault
    /\ Moves(c, "store", "ack")
    /\ UNCHANGED <<memoryVars, pending, sent, registry, connections, historyVars, crashes>>

\* A failed HSET is only logged.
StoreFails(c) ==
    /\ Fault
    /\ Moves(c, "store", "ack")
    /\ registry' = registry \/ registry' = registry \union {Device[c]}
    /\ connections' = connections + 1
    /\ UNCHANGED <<memoryVars, pending, sent, historyVars, crashes>>

\* A gRPC client resets its stream while channel() runs: the future is dropped at
\* its await, the HSET it waited for may still be carried out.
Cancelled(c) ==
    /\ c \in GrpcConns
    /\ Fault
    /\ \/ Moves(c, "connect", "dropped") /\ UNCHANGED registry
       \/ /\ Moves(c, "store", "dropped")
          /\ registry' = registry \/ registry' = registry \union {Device[c]}
    /\ abandon(c)
    /\ UNCHANGED <<pending, sent, connections, historyVars, crashes>>

Acknowledge(c) ==
    /\ Moves(c, "ack", "loop")
    /\ UNCHANGED <<brokerVars, pending, sent, registry, connections, historyVars, crashes>>

\* handle_ws returns without unsubscribe_client when the socket is gone.  The gRPC
\* acknowledgement goes into an empty channel whose receiver channel() holds.
AckFails(c) ==
    /\ c \notin GrpcConns
    /\ Fault
    /\ Moves(c, "ack", "dropped")
    /\ abandon(c)
    /\ UNCHANGED <<pending, sent, registry, connections, historyVars, crashes>>

-----------------------------------------------------------------------------
(* The select loop.                                                        *)

\* Mutant of TopicSubscribe: add_subscription does not look at topic_controls.
CheckDropped(c, t) ==
    /\ c \in GrpcConns
    /\ started[c][t] < MaxSubscribes
    /\ Moves(c, "loop", "adding")
    /\ pending' = [pending EXCEPT ![c] = t]
    /\ UNCHANGED <<brokerVars, sent, registry, connections, historyVars, crashes>>

\* A request for a topic that has a control is refused and changes nothing; the
\* loop does not return before add_subscription has.
TopicSubscribe(c, t) ==
    /\ c \in GrpcConns
    /\ t \notin controls[c]
    /\ started[c][t] < MaxSubscribes
    /\ Moves(c, "loop", "adding")
    /\ pending' = [pending EXCEPT ![c] = t]
    /\ UNCHANGED <<brokerVars, sent, registry, connections, historyVars, crashes>>

TopicSubscribed(c) ==
    /\ Moves(c, "adding", "loop")
    /\ add_subscription(c, pending[c])
    /\ UNCHANGED <<faults, pending, sent, registry, connections, historyVars, crashes>>

TopicSubscribeFails(c) ==
    /\ Fault
    /\ Moves(c, "adding", "loop")
    /\ UNCHANGED <<memoryVars, pending, sent, registry, connections, historyVars, crashes>>

TopicUnsubscribe(c, t) ==
    /\ pc[c] = "loop"
    /\ c \in GrpcConns
    /\ t \in controls[c]
    /\ remove_subscription(c, t)
    /\ removed' = [removed EXCEPT ![c] = @ \union {t}]
    /\ due' = [due EXCEPT ![c] = {i \in @ : published[i] # t}]
    /\ UNCHANGED <<faults, handlerVars, registry, connections, crashes>>

\* One event of the queue is written to the client.
HandleEvent(c) ==
    /\ pc[c] = "loop"
    /\ sent[c] < Len(received[c])
    /\ sent' = [sent EXCEPT ![c] = @ + 1]
    /\ due' = [due EXCEPT ![c] = @ \ {received[c][sent[c] + 1]}]
    /\ UNCHANGED <<brokerVars, pc, pending, registry, connections, removed, crashes>>

\* The client closes, its transport fails or a keepalive runs out.
Leave(c) ==
    /\ HasDevice(c)
    /\ Moves(c, "loop", "delete")
    /\ due' = [due EXCEPT ![c] = {}]
    /\ UNCHANGED <<brokerVars, pending, sent, registry, connections, removed, crashes>>

-----------------------------------------------------------------------------
(* unsubscribe_client.                                                     *)

LeaveWithoutDevice(c) ==
    /\ ~ HasDevice(c)
    /\ Moves(c, "loop", "closed")
    /\ unsubscribe(c)
    /\ connections' = connections - 1
    /\ due' = [due EXCEPT ![c] = {}]
    /\ UNCHANGED <<faults, pending, sent, registry, removed, crashes>>

\* Mutants of DeleteDevice: the entry is not deleted; the task ends without
\* unsubscribing.
DeviceKept(c) ==
    /\ Moves(c, "delete", "closed")
    /\ unsubscribe(c)
    /\ connections' = connections - 1
    /\ UNCHANGED <<faults, pending, sent, registry, historyVars, crashes>>
OnlyDeviceDeleted(c) ==
    /\ Moves(c, "delete", "closed")
    /\ registry' = registry \ {Device[c]}
    /\ abandon(c)
    /\ connections' = connections - 1
    /\ UNCHANGED <<faults, pending, sent, historyVars, crashes>>

DeleteDevice(c) ==
    /\ Moves(c, "delete", "closed")
    /\ registry' = registry \ {Device[c]}
    /\ unsubscribe(c)
    /\ connections' = connections - 1
    /\ UNCHANGED <<faults, pending, sent, historyVars, crashes>>

\* A failed HDEL is only logged.
DeleteFails(c) ==
    /\ Fault
    /\ Moves(c, "delete", "closed")
    /\ registry' = registry \/ registry' = registry \ {Device[c]}
    /\ unsubscribe(c)
    /\ connections' = connections - 1
    /\ UNCHANGED <<pending, sent, historyVars, crashes>>

-----------------------------------------------------------------------------
(* Backends, Redis, crashes, and the system.                               *)

\* What a connection is subscribed to, as far as its client was told.
Hears(c) ==
    IF pc[c] \in {"loop", "adding"} THEN OwnChannels[c] \union controls[c] ELSE {}

\* publish_to_client, publish_to_client_device and publish_to_topic.
Publish(ch) ==
    /\ publish(ch)
    /\ due' = [c \in Conns |->
                 IF ch \in Hears(c) THEN due[c] \union {Len(published) + 1} ELSE due[c]]
    /\ UNCHANGED <<handlerVars, registry, connections, removed, crashes>>

\* Everything in memory is lost; the device hash in Redis stays.
Crash ==
    /\ crashes < MaxCrashes
    /\ crashes' = crashes + 1
    /\ pc' = [c \in Conns |-> IF pc[c] \in {"idle", "closed"} THEN pc[c] ELSE "dropped"]
    /\ entries' = {}
    /\ controls' = [c \in Conns |-> {}]
    /\ subs' = {}
    /\ running' = {}
    /\ told' = {}
    /\ pos' = [l \in Listeners |-> 0]
    /\ active_topic_listeners' = 0
    /\ connections' = 0
    /\ due' = [c \in Conns |-> {}]
    /\ UNCHANGED <<started, published, received, faults, pending, sent, registry, removed>>

Listener(l) ==
    ListenerStep(l) /\ UNCHANGED <<handlerVars, registry, connections, historyVars, crashes>>
ListenerBreaks(l) ==
    StreamEnds(l) /\ UNCHANGED <<handlerVars, registry, connections, historyVars, crashes>>

\* What the task of a connection does without its client doing anything.
Handler(c) ==
    \/ Subscribed(c) \/ StoreDevice(c) \/ Acknowledge(c)
    \/ TopicSubscribed(c) \/ HandleEvent(c) \/ DeleteDevice(c)

HandlerFault(c) ==
    \/ SubscribeFails(c) \/ StoreFails(c) \/ Cancelled(c) \/ AckFails(c)
    \/ TopicSubscribeFails(c) \/ DeleteFails(c)

Client(c) ==
    \/ Connect(c) \/ Leave(c) \/ LeaveWithoutDevice(c)
    \/ \E t \in Topics : TopicSubscribe(c, t) \/ TopicUnsubscribe(c, t)

Next ==
    \/ \E c \in Conns : Client(c) \/ Handler(c) \/ HandlerFault(c)
    \/ \E l \in Listeners : Listener(l) \/ ListenerBreaks(l)
    \/ \E ch \in Channels : Publish(ch)
    \/ Crash

Spec == Init /\ [][Next]_vars

\* tokio polls every task that can go on, and Redis answers unless a call fails.
Fairness ==
    /\ \A c \in Conns : WF_vars(Handler(c))
    /\ \A l \in Listeners : WF_vars(Listener(l))
FairSpec == Spec /\ Fairness

-----------------------------------------------------------------------------
(* Safety.                                                                 *)

Counted(c) == pc[c] \in {"ack", "loop", "adding", "delete"}
Connected(c) == pc[c] \in {"store", "ack", "loop", "adding", "delete"}

\* /metrics tells the truth: active_topic_listeners is the number of listener tasks
\* of topics, however they end, and connections exceeds the number of subscribed
\* clients at most by the connections that failed.
GaugesMatch ==
    /\ active_topic_listeners = Cardinality({l \in running : IsTopic(l)})
    /\ connections - Cardinality({c \in Conns : Counted(c)}) \in 0..faults

\* Every listener task that has not been told to stop can still be told: its owner
\* has an entry, and a topic's listener is the one whose control the entry holds.
\* So unsubscribe, which only knows the entry, reaches all of them.
ListenersControlled ==
    \A l \in running \ told :
        /\ Owner(l) \in entries
        /\ IsTopic(l) => l[2] \in controls[Owner(l)] /\ l = Control(Owner(l), l[2])

\* Until it first unsubscribes from a topic, a connection gets the messages of the
\* topic in the order of their publication and none of them twice, also when it
\* asks for the topic again; the messages of its own channels always.
InOrder ==
    \A c \in Conns : \A i, j \in DOMAIN received[c] :
        /\ i < j
        /\ published[received[c][i]] = published[received[c][j]]
        /\ published[received[c][i]] \notin removed[c]
        => received[c][i] < received[c][j]

\* Entries of the broker without a connection, and controls of a connection whose
\* listener has gone, which refuse the topic to its client when it asks again
\* (redis_pubsub.rs:128), are the traces of failures, one each.
Leaked == entries \ subs
Deaf ==
    {x \in subs \X Topics : x[2] \in controls[x[1]] /\ Control(x[1], x[2]) \notin running}
LeaksAreFailures ==
    /\ subs \subseteq entries
    /\ Cardinality(Leaked) + Cardinality(Deaf) <= faults

\* PushService.get_active_devices reads the registry: each device listed there without
\* a connection is the trace of a failed call or a vanished client, one each; a crash
\* leaves all of them behind.
Ghosts == {d \in registry : \A c \in Conns : Device[c] = d => ~ Connected(c)}
GhostsAreFailures == crashes = 0 => Cardinality(Ghosts) <= faults

\* And the other way round: a connection whose device is not listed lost the entry to
\* the delete of another one that named the same device and has left; the others are
\* the traces of failures, one each.
Unlisted ==
    {c \in Conns :
        /\ HasDevice(c) /\ Counted(c) /\ Device[c] \notin registry
        /\ \A d \in Conns \ {c} : Device[d] = Device[c] => pc[d] # "closed"}
UnlistedHasCause == Cardinality(Unlisted) <= faults

-----------------------------------------------------------------------------
(* What proto/push/v1/push.proto says of GetClientActiveDevices.           *)

\* push.proto:147 "List all active devices for a client": the device of every
\* connection whose select loop runs is in the registry.
ConnectedIsListed ==
    \A c \in Conns : HasDevice(c) /\ pc[c] = "loop" => Device[c] \in registry

-----------------------------------------------------------------------------
(* Liveness, under FairSpec.                                               *)

\* A message published on a channel the connection hears is handed to its client,
\* unless the client leaves or unsubscribes first; a failure may cost the listener.
HearsIsSent ==
    \A c \in Conns, i \in 1..MaxMessages : i \in due[c] ~> i \notin due[c] \/ faults > 0

\* After unsubscribe_client no listener task of the connection survives.
ClosedIsSilent ==
    \A c \in Conns : pc[c] = "closed" ~> \A l \in running : Owner(l) # c
=============================================================================
