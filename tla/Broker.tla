-------------------------------- MODULE Broker --------------------------------
(***************************************************************************)
(* approach-2/src/broker/redis_pubsub.rs: the subscriptions of the client  *)
(* connections and the listener tasks that copy Redis Pub/Sub messages     *)
(* into the event queue of a subscription.  The operators named like a     *)
(* method are its effect once its remote calls returned; Propeller decides *)
(* when the connection handlers call them.                                 *)
(***************************************************************************)
EXTENDS Integers, Sequences, FiniteSets

CONSTANTS
    Conns,          \* connections; a connection has one Subscription
    Topics,         \* channels tenant:<t>:topic:<topic>
    OwnChannels,    \* per connection: its client channel and its device channel
    Base,           \* stands for the listener task that subscribe spawns
    MaxSubscribes,  \* bound: times a connection subscribes to a topic
    MaxMessages,    \* bound: messages published
    MaxFaults       \* bound: failing calls, broken connections, clients that vanish

Channels == Topics \union UNION {OwnChannels[c] : c \in Conns}

\* The n-th listener task a connection got for a topic, or for its own channels.
Listeners == Conns \X (Topics \union {Base}) \X (1..MaxSubscribes)
Owner(l) == l[1]
Heard(l) == IF l[2] = Base THEN OwnChannels[Owner(l)] ELSE {l[2]}
IsTopic(l) == l[2] # Base

ASSUME BaseIsNoTopic == Base \notin Topics

\* Within a tenant the word behind it tells topics from clients and devices
\* (auth/mod.rs:350-363), whatever colons the ids have: OneAddress in PublishingProofs.
ASSUME ChannelsApart == \A c \in Conns : OwnChannels[c] \intersect Topics = {}
ASSUME SomeTopic == Topics # {}
ASSUME BrokerBounds == MaxSubscribes \in Nat \ {0} /\ MaxMessages \in Nat /\ MaxFaults \in Nat

VARIABLES
    entries,    \* keys of RedisPubSub.subscriptions
    controls,   \* topics in ActiveSubscription.topic_controls
    subs,       \* connections whose Subscription, and so event_rx, exists
    started,    \* listeners a connection has got per topic so far
    running,    \* listener tasks
    told,       \* listener tasks whose control channel holds Shutdown or is closed
    pos,        \* last message a listener has taken from its Redis connection
    active_topic_listeners,
    published,  \* messages published to Redis: the channel of each
    received,   \* messages put into the event queue of a connection so far
    faults      \* faults so far

memoryVars == <<entries, controls, subs, started, running, told, pos,
                active_topic_listeners, published, received>>
brokerVars == <<memoryVars, faults>>

BrokerTypeOK ==
    /\ entries \subseteq Conns
    /\ controls \in [Conns -> SUBSET Topics]
    /\ subs \subseteq Conns
    /\ started \in [Conns -> [Topics -> 0..MaxSubscribes]]
    /\ running \subseteq Listeners
    /\ told \subseteq running
    /\ pos \in [Listeners -> 0..MaxMessages]
    /\ active_topic_listeners \in Nat
    /\ published \in Seq(Channels)
    /\ received \in [Conns -> Seq(1..MaxMessages)]
    /\ faults \in 0..MaxFaults

BrokerInit ==
    /\ entries = {}
    /\ controls = [c \in Conns |-> {}]
    /\ subs = {}
    /\ started = [c \in Conns |-> [t \in Topics |-> 0]]
    /\ running = {}
    /\ told = {}
    /\ pos = [l \in Listeners |-> 0]
    /\ active_topic_listeners = 0
    /\ published = <<>>
    /\ received = [c \in Conns |-> <<>>]
    /\ faults = 0

Fault ==
    /\ faults < MaxFaults
    /\ faults' = faults + 1

-----------------------------------------------------------------------------
(* The methods of RedisPubSub.                                             *)

\* subscribe, up to its first await: the entry is inserted before the connects.
insert_entry(c) ==
    /\ entries' = entries \union {c}
    /\ subs' = subs \union {c}
    /\ UNCHANGED <<controls, started, running, told, pos, active_topic_listeners,
                   published, received>>

\* subscribe, after Redis confirmed: the base listener task starts.
spawn_base(c) ==
    /\ running' = running \union {<<c, Base, 1>>}
    /\ pos' = [pos EXCEPT ![<<c, Base, 1>>] = Len(published)]
    /\ UNCHANGED <<entries, controls, subs, started, told, active_topic_listeners,
                   published, received>>

\* The current listener of a topic, whose control channel topic_controls holds.
Control(c, t) == <<c, t, started[c][t]>>

\* add_subscription, after Redis confirmed.  Inserting a second control for a topic
\* drops the first, which closes its channel.
add_subscription(c, t) ==
    LET l == <<c, t, started[c][t] + 1>>
    IN  /\ started' = [started EXCEPT ![c][t] = @ + 1]
        /\ controls' = [controls EXCEPT ![c] = @ \union {t}]
        /\ running' = running \union {l}
        /\ told' = IF t \in controls[c]
                    THEN told \union ({Control(c, t)} \intersect running)
                    ELSE told
        /\ pos' = [pos EXCEPT ![l] = Len(published)]
        /\ active_topic_listeners' = active_topic_listeners + 1
        /\ UNCHANGED <<entries, subs, published, received>>

\* Mutant of remove_subscription: the control is told to stop but kept.
ControlKept(c, t) ==
    /\ told' = told \union ({Control(c, t)} \intersect running)
    /\ UNCHANGED <<entries, controls, subs, started, running, pos, active_topic_listeners,
                   published, received>>

remove_subscription(c, t) ==
    /\ controls' = [controls EXCEPT ![c] = @ \ {t}]
    /\ told' = told \union ({Control(c, t)} \intersect running)
    /\ UNCHANGED <<entries, subs, started, running, pos, active_topic_listeners,
                   published, received>>

\* Mutant of unsubscribe: only the base listener is told to stop.
TopicsForgotten(c) ==
    /\ entries' = entries \ {c}
    /\ subs' = subs \ {c}
    /\ controls' = [controls EXCEPT ![c] = {}]
    /\ told' = told \union ({<<c, Base, 1>>} \intersect running)
    /\ UNCHANGED <<started, running, pos, active_topic_listeners, published, received>>

\* unsubscribe, and the handler that called it returns: the Subscription is dropped.
unsubscribe(c) ==
    /\ entries' = entries \ {c}
    /\ subs' = subs \ {c}
    /\ controls' = [controls EXCEPT ![c] = {}]
    /\ told' = told \union
         (({<<c, Base, 1>>} \union {Control(c, t) : t \in controls[c]}) \intersect running)
    /\ UNCHANGED <<started, running, pos, active_topic_listeners, published, received>>

\* The Subscription is dropped without unsubscribe: entry and listeners stay.
abandon(c) ==
    /\ subs' = subs \ {c}
    /\ UNCHANGED <<entries, controls, started, running, told, pos, active_topic_listeners,
                   published, received>>

\* publish: every listener of the channel that runs now has it in its connection.
publish(ch) ==
    /\ Len(published) < MaxMessages
    /\ published' = Append(published, ch)
    /\ UNCHANGED <<entries, controls, subs, started, running, told, pos,
                   active_topic_listeners, received, faults>>

-----------------------------------------------------------------------------
(* The listener tasks.  tokio::select! takes either ready branch, so a     *)
(* task that was told to stop may still deliver.                           *)

Waiting(l) == {i \in (pos[l] + 1)..Len(published) : published[i] \in Heard(l)}

\* Mutant of Ends: the gauge is only decremented when Redis or the client is gone.
GaugeForgotten(l) ==
    /\ running' = running \ {l}
    /\ told' = told \ {l}
    /\ pos' = [pos EXCEPT ![l] = 0]
    /\ active_topic_listeners' =
         IF IsTopic(l) /\ l \notin told THEN active_topic_listeners - 1
                                        ELSE active_topic_listeners

Ends(l) ==
    /\ running' = running \ {l}
    /\ told' = told \ {l}
    /\ pos' = [pos EXCEPT ![l] = 0]
    /\ active_topic_listeners' =
         IF IsTopic(l) THEN active_topic_listeners - 1 ELSE active_topic_listeners

Forward(l) ==
    /\ l \in running
    /\ Owner(l) \in subs
    /\ \E i \in Waiting(l) :
        /\ \A j \in Waiting(l) : i <= j
        /\ pos' = [pos EXCEPT ![l] = i]
        /\ received' = [received EXCEPT ![Owner(l)] = Append(@, i)]
    /\ UNCHANGED <<entries, controls, subs, started, running, told,
                   active_topic_listeners, published, faults>>

\* event_tx.send fails: nobody holds the receiver any more.
ForwardFails(l) ==
    /\ l \in running
    /\ Owner(l) \notin subs
    /\ Waiting(l) # {}
    /\ Ends(l)
    /\ UNCHANGED <<entries, controls, subs, started, published, received, faults>>

Stop(l) ==
    /\ l \in told
    /\ Ends(l)
    /\ UNCHANGED <<entries, controls, subs, started, published, received, faults>>

\* The Redis connection of the listener breaks: its message stream ends.  The
\* control of the topic stays behind.
StreamEnds(l) ==
    /\ l \in running
    /\ Fault
    /\ Ends(l)
    /\ UNCHANGED <<entries, controls, subs, started, published, received>>

ListenerStep(l) == Forward(l) \/ ForwardFails(l) \/ Stop(l)
=============================================================================
