---------------------------- MODULE PropellerProofs ----------------------------
(* Theorems about Propeller, for any number of connections, topics, devices, *)
(* messages, failures and crashes.                                         *)
EXTENDS Propeller, FiniteSetTheorems, TLAPS

LEMMA AppendFacts ==
    ASSUME NEW S, NEW s \in Seq(S), NEW x \in S
    PROVE  /\ Append(s, x) \in Seq(S)
           /\ Len(Append(s, x)) = Len(s) + 1
           /\ \A i \in 1..Len(s) : Append(s, x)[i] = s[i]
           /\ Append(s, x)[Len(s) + 1] = x
OBVIOUS

LEMMA Bounds ==
    /\ MaxSubscribes \in Nat \ {0} /\ MaxMessages \in Nat /\ MaxFaults \in Nat
    /\ MaxCrashes \in Nat /\ AnyTopic \in Topics /\ Base \notin Topics
BY BrokerBounds, CrashBound, SomeTopic, BaseIsNoTopic DEF AnyTopic

-----------------------------------------------------------------------------
(* The kinds of steps.                                                     *)

Rest == <<handlerVars, registry, connections, historyVars, crashes>>

\* The Subscription is dropped without unsubscribe.
Abandons(c) == SubscribeFails(c) \/ Cancelled(c) \/ AckFails(c)
\* unsubscribe_client comes to its end.
Closes(c) == LeaveWithoutDevice(c) \/ DeleteDevice(c) \/ DeleteFails(c)
\* The broker is not called.
Quiet(c) ==
    \/ StoreDevice(c) \/ StoreFails(c) \/ Acknowledge(c) \/ TopicSubscribeFails(c)
    \/ HandleEvent(c) \/ Leave(c) \/ \E t \in Topics : TopicSubscribe(c, t)
Forwards(l) == Forward(l) /\ UNCHANGED Rest
\* A listener task ends, of itself or because its connection broke.
Stops(l) == (ForwardFails(l) \/ Stop(l) \/ StreamEnds(l)) /\ UNCHANGED Rest

LEMMA StepCases ==
    ASSUME [Next]_vars
    PROVE  \/ \E c \in Conns :
                \/ Connect(c) \/ Subscribed(c) \/ Abandons(c) \/ TopicSubscribed(c)
                \/ \E t \in Topics : TopicUnsubscribe(c, t)
                \/ Closes(c) \/ Quiet(c)
           \/ \E l \in Listeners : Forwards(l) \/ Stops(l)
           \/ \E ch \in Channels : Publish(ch)
           \/ Crash
           \/ UNCHANGED vars
BY DEF Next, Client, Handler, HandlerFault, Listener, ListenerBreaks, ListenerStep, Abandons,
   Closes, Quiet, Forwards, Stops, Rest

LEMMA AbandonsEffect ==
    ASSUME NEW c \in Conns, Abandons(c)
    PROVE  /\ abandon(c) /\ Fault
           /\ pc[c] \in {"connect", "store", "ack"} /\ pc' = [pc EXCEPT ![c] = "dropped"]
           /\ registry' \in {registry, registry \union {Device[c]}}
           /\ pc[c] # "store" => registry' = registry
           /\ UNCHANGED <<pending, sent, connections, historyVars, crashes>>
BY DEF Abandons, SubscribeFails, Cancelled, AckFails, Moves

LEMMA ClosesEffect ==
    ASSUME NEW c \in Conns, Closes(c)
    PROVE  /\ unsubscribe(c) /\ (Fault \/ UNCHANGED faults)
           /\ pc[c] \in {"loop", "delete"} /\ pc' = [pc EXCEPT ![c] = "closed"]
           /\ connections' = connections - 1
           /\ registry' \in {registry, registry \ {Device[c]}}
           /\ UNCHANGED <<pending, sent, removed, crashes>>
           /\ due' \in {due, [due EXCEPT ![c] = {}]}
BY DEF Closes, LeaveWithoutDevice, DeleteDevice, DeleteFails, Moves, historyVars

LEMMA QuietEffect ==
    ASSUME NEW c \in Conns, Quiet(c)
    PROVE  /\ UNCHANGED <<memoryVars, removed, crashes>> /\ (Fault \/ UNCHANGED faults)
           /\ \E s \in States : pc' = [pc EXCEPT ![c] = s] \/ UNCHANGED pc
           /\ UNCHANGED connections \/ (connections' = connections + 1 /\ pc[c] = "store")
BY DEF Quiet, StoreDevice, StoreFails, Acknowledge, TopicSubscribeFails, HandleEvent, Leave,
   TopicSubscribe, Moves, brokerVars, historyVars, States

-----------------------------------------------------------------------------
(* Types of the handlers.                                                  *)

HandlerTyped ==
    /\ pc \in [Conns -> States]
    /\ pending \in [Conns -> Topics]
    /\ sent \in [Conns -> Nat]
    /\ registry \subseteq Devices
    /\ due \in [Conns -> SUBSET (1..MaxMessages)]
    /\ removed \in [Conns -> SUBSET Topics]
    /\ crashes \in 0..MaxCrashes
    /\ faults \in 0..MaxFaults

\* Only connections with a device store or delete one.
DeviceInv == \A c \in Conns : pc[c] \in {"store", "delete"} => HasDevice(c)

LEMMA FaultStep ==
    ASSUME faults \in 0..MaxFaults, Fault
    PROVE  faults' \in 0..MaxFaults /\ faults' = faults + 1
BY Bounds DEF Fault

LEMMA HandlerStep ==
    ASSUME HandlerTyped, DeviceInv, Len(published) \in Nat, [Next]_vars
    PROVE  HandlerTyped'
<1> USE DEF HandlerTyped
<1>f. Fault => faults' \in 0..MaxFaults BY FaultStep
<1>d. \A c \in Conns : HasDevice(c) => Device[c] \in Devices BY DEF HasDevice, Devices
<1>1. ASSUME NEW c \in Conns, Connect(c) PROVE HandlerTyped'
  BY <1>1 DEF Connect, Moves, States, historyVars
<1>2. ASSUME NEW c \in Conns, Subscribed(c) PROVE HandlerTyped'
  BY <1>2 DEF Subscribed, Moves, States, historyVars
<1>3. ASSUME NEW c \in Conns, Abandons(c) PROVE HandlerTyped'
  <2>1. registry' \subseteq Devices
    BY <1>3, <1>d, AbandonsEffect DEF DeviceInv
  <2>2. QED BY <1>3, <1>f, <2>1, AbandonsEffect DEF States, historyVars
<1>4. ASSUME NEW c \in Conns, TopicSubscribed(c) PROVE HandlerTyped'
  BY <1>4 DEF TopicSubscribed, Moves, States, historyVars
<1>5. ASSUME NEW c \in Conns, NEW t \in Topics, TopicUnsubscribe(c, t) PROVE HandlerTyped'
  BY <1>5 DEF TopicUnsubscribe, handlerVars
<1>6. ASSUME NEW c \in Conns, Closes(c) PROVE HandlerTyped'
  BY <1>6, <1>f, ClosesEffect DEF States
<1>7. ASSUME NEW c \in Conns, Quiet(c) PROVE HandlerTyped'
  <2>1. CASE StoreDevice(c) \/ StoreFails(c)
    <3>1. registry' \subseteq Devices
      BY <1>d, <2>1 DEF DeviceInv, StoreDevice, StoreFails, Moves
    <3>2. QED
      BY <1>f, <2>1, <3>1 DEF StoreDevice, StoreFails, Moves, States, historyVars, brokerVars
  <2>2. CASE Acknowledge(c) \/ TopicSubscribeFails(c) \/ Leave(c)
    BY <1>f, <2>2 DEF Acknowledge, TopicSubscribeFails, Leave, Moves, States, historyVars,
       brokerVars
  <2>3. CASE HandleEvent(c)
    BY <2>3 DEF HandleEvent, brokerVars
  <2>4. ASSUME NEW t \in Topics, TopicSubscribe(c, t) PROVE HandlerTyped'
    BY <2>4 DEF TopicSubscribe, Moves, States, historyVars, brokerVars
  <2>5. QED BY <1>7, <2>1, <2>2, <2>3, <2>4 DEF Quiet
<1>8. ASSUME NEW l \in Listeners, Forwards(l) \/ Stops(l) PROVE HandlerTyped'
  BY <1>8, <1>f DEF Forwards, Stops, Rest, Forward, ForwardFails, Stop, StreamEnds, handlerVars,
     historyVars
<1>9. ASSUME NEW ch \in Channels, Publish(ch) PROVE HandlerTyped'
  <2>1. Len(published) + 1 \in 1..MaxMessages BY <1>9, Bounds DEF Publish, publish
  <2>2. QED BY <1>9, <2>1 DEF Publish, publish, handlerVars
<1>10. CASE Crash
  BY <1>10, Bounds DEF Crash, States
<1>11. CASE UNCHANGED vars
  BY <1>11 DEF vars, handlerVars, historyVars, brokerVars
<1>12. QED
  BY <1>1, <1>2, <1>3, <1>4, <1>5, <1>6, <1>7, <1>8, <1>9, <1>10, <1>11, StepCases

-----------------------------------------------------------------------------
(* Types of the broker.                                                    *)

SetsTyped ==
    /\ entries \subseteq Conns /\ subs \subseteq Conns
    /\ controls \in [Conns -> SUBSET Topics]
    /\ started \in [Conns -> [Topics -> 0..MaxSubscribes]]
    /\ running \subseteq Listeners /\ told \subseteq running
MessagesTyped ==
    /\ pos \in [Listeners -> 0..MaxMessages]
    /\ published \in Seq(Channels) /\ Len(published) <= MaxMessages
    /\ received \in [Conns -> Seq(1..MaxMessages)]

\* A connection that is served has its entry, and the bound on subscriptions is
\* looked at before add_subscription is called.
Held == {"connect", "store", "ack", "loop", "adding", "delete"}
ServedInv ==
    \A c \in Conns :
        /\ pc[c] \in Held => c \in entries
        /\ pc[c] = "adding" => started[c][pending[c]] < MaxSubscribes

Typed == HandlerTyped /\ DeviceInv /\ SetsTyped /\ MessagesTyped /\ ServedInv

LEMMA ListenerFacts ==
    ASSUME NEW l \in Listeners
    PROVE  /\ Owner(l) \in Conns /\ l[1] = Owner(l)
           /\ l[2] \in Topics \union {Base} /\ l[3] \in 1..MaxSubscribes
           /\ l = <<l[1], l[2], l[3]>>
           /\ IsTopic(l) <=> l[2] \in Topics
           /\ ~ IsTopic(l) <=> l[2] = Base
BY Bounds DEF Listeners, Owner, IsTopic

LEMMA ListenerOf ==
    ASSUME NEW c \in Conns, NEW t \in Topics \union {Base}, NEW n \in 1..MaxSubscribes
    PROVE  <<c, t, n>> \in Listeners
BY DEF Listeners

\* The listener a connection gets when add_subscription returns.
Newcomer(c) == <<c, pending[c], started[c][pending[c]] + 1>>

LEMMA NewcomerFacts ==
    ASSUME Typed, NEW c \in Conns, pc[c] = "adding"
    PROVE  /\ Newcomer(c) \in Listeners /\ Owner(Newcomer(c)) = c
           /\ pending[c] \in Topics /\ IsTopic(Newcomer(c))
           /\ started[c][pending[c]] + 1 \in 1..MaxSubscribes
<1>1. pending[c] \in Topics /\ started[c][pending[c]] \in 0..MaxSubscribes
      /\ started[c][pending[c]] < MaxSubscribes
  BY DEF Typed, HandlerTyped, SetsTyped, ServedInv
<1>2. started[c][pending[c]] + 1 \in 1..MaxSubscribes BY <1>1, Bounds
<1>3. QED BY <1>1, <1>2, ListenerOf, Bounds DEF Newcomer, Owner, IsTopic

LEMMA BaseListener ==
    ASSUME NEW c \in Conns
    PROVE  /\ <<c, Base, 1>> \in Listeners /\ Owner(<<c, Base, 1>>) = c
           /\ ~ IsTopic(<<c, Base, 1>>)
BY Bounds, ListenerOf DEF Owner, IsTopic

LEMMA SetsStep ==
    ASSUME Typed, [Next]_vars
    PROVE  SetsTyped'
<1>t. SetsTyped BY DEF Typed
<1> USE DEF SetsTyped
<1>1. ASSUME NEW c \in Conns, Connect(c) PROVE SetsTyped'
  BY <1>t, <1>1 DEF Connect, insert_entry
<1>2. ASSUME NEW c \in Conns, Subscribed(c) PROVE SetsTyped'
  BY <1>t, <1>2, BaseListener DEF Subscribed, spawn_base
<1>3. ASSUME NEW c \in Conns, Abandons(c) PROVE SetsTyped'
  BY <1>t, <1>3, AbandonsEffect DEF abandon
<1>4. ASSUME NEW c \in Conns, TopicSubscribed(c) PROVE SetsTyped'
  <2>1. pc[c] = "adding" BY <1>4 DEF TopicSubscribed, Moves
  <2>2. /\ started' = [started EXCEPT ![c][pending[c]] = @ + 1]
        /\ controls' = [controls EXCEPT ![c] = @ \union {pending[c]}]
        /\ running' = running \union {Newcomer(c)}
        /\ told' = told \/ told' = told \union ({Control(c, pending[c])} \intersect running)
        /\ UNCHANGED <<entries, subs>>
    BY <1>4 DEF TopicSubscribed, add_subscription, Newcomer
  <2>3. pending[c] \in Topics /\ Newcomer(c) \in Listeners
        /\ started[c][pending[c]] + 1 \in 0..MaxSubscribes
    BY <2>1, NewcomerFacts
  <2>4. started' \in [Conns -> [Topics -> 0..MaxSubscribes]] BY <1>t, <2>2, <2>3
  <2>5. QED BY <1>t, <2>2, <2>3, <2>4
<1>5. ASSUME NEW c \in Conns, NEW t \in Topics, TopicUnsubscribe(c, t) PROVE SetsTyped'
  BY <1>t, <1>5 DEF TopicUnsubscribe, remove_subscription
<1>6. ASSUME NEW c \in Conns, Closes(c) PROVE SetsTyped'
  BY <1>t, <1>6, ClosesEffect DEF unsubscribe
<1>7. ASSUME NEW c \in Conns, Quiet(c) PROVE SetsTyped'
  BY <1>t, <1>7, QuietEffect DEF memoryVars
<1>8. ASSUME NEW l \in Listeners, Forwards(l) PROVE SetsTyped'
  BY <1>t, <1>8 DEF Forwards, Forward
<1>9. ASSUME NEW l \in Listeners, Stops(l) PROVE SetsTyped'
  BY <1>t, <1>9 DEF Stops, ForwardFails, Stop, StreamEnds, Ends
<1>10. ASSUME NEW ch \in Channels, Publish(ch) PROVE SetsTyped'
  BY <1>t, <1>10 DEF Publish, publish
<1>11. CASE Crash
  BY <1>t, <1>11 DEF Crash
<1>12. CASE UNCHANGED vars
  BY <1>t, <1>12 DEF vars, brokerVars, memoryVars
<1>13. QED
  BY <1>1, <1>2, <1>3, <1>4, <1>5, <1>6, <1>7, <1>8, <1>9, <1>10, <1>11, <1>12, StepCases

\* What a listener takes is a message that was published, behind those it took before.
LEMMA Taken ==
    ASSUME MessagesTyped, NEW l \in Listeners, NEW i \in Waiting(l)
    PROVE  /\ i \in 1..MaxMessages /\ i \in 1..Len(published) /\ i > pos[l]
           /\ published[i] \in Heard(l)
<1>1. pos[l] \in 0..MaxMessages /\ Len(published) \in Nat /\ Len(published) <= MaxMessages
  BY DEF MessagesTyped
<1>2. i \in (pos[l] + 1)..Len(published) /\ published[i] \in Heard(l) BY DEF Waiting
<1>3. QED BY <1>1, <1>2, Bounds

LEMMA MessagesStep ==
    ASSUME Typed, [Next]_vars
    PROVE  MessagesTyped'
<1>t. MessagesTyped /\ Len(published) \in 0..MaxMessages BY Bounds DEF Typed, MessagesTyped
<1> USE DEF MessagesTyped
<1>1. CASE UNCHANGED <<pos, published, received>>
  BY <1>t, <1>1
<1>2. ASSUME NEW c \in Conns, Subscribed(c) PROVE MessagesTyped'
  BY <1>t, <1>2, BaseListener DEF Subscribed, spawn_base
<1>3. ASSUME NEW c \in Conns, TopicSubscribed(c) PROVE MessagesTyped'
  <2>1. pc[c] = "adding" BY <1>3 DEF TopicSubscribed, Moves
  <2>2. pos' = [pos EXCEPT ![Newcomer(c)] = Len(published)] /\ UNCHANGED <<published, received>>
    BY <1>3 DEF TopicSubscribed, add_subscription, Newcomer
  <2>3. QED BY <1>t, <2>1, <2>2, NewcomerFacts
<1>4. ASSUME NEW l \in Listeners, Forwards(l) PROVE MessagesTyped'
  <2>1. PICK i \in Waiting(l) :
            /\ pos' = [pos EXCEPT ![l] = i]
            /\ received' = [received EXCEPT ![Owner(l)] = Append(@, i)]
    BY <1>4 DEF Forwards, Forward
  <2>2. i \in 1..MaxMessages BY <1>t, Taken
  <2>3. Owner(l) \in Conns BY ListenerFacts
  <2>4. Append(received[Owner(l)], i) \in Seq(1..MaxMessages)
    BY <1>t, <2>2, <2>3, AppendFacts
  <2>5. pos' \in [Listeners -> 0..MaxMessages] BY <1>t, <2>1, <2>2
  <2>6. received' \in [Conns -> Seq(1..MaxMessages)] BY <1>t, <2>1, <2>3, <2>4
  <2>7. UNCHANGED published BY <1>4 DEF Forwards, Forward
  <2>8. QED BY <1>t, <2>5, <2>6, <2>7
<1>5. ASSUME NEW l \in Listeners, Stops(l) PROVE MessagesTyped'
  <2>1. pos' = [pos EXCEPT ![l] = 0] /\ UNCHANGED <<published, received>>
    BY <1>5 DEF Stops, ForwardFails, Stop, StreamEnds, Ends
  <2>2. QED BY <1>t, <2>1, Bounds
<1>6. ASSUME NEW ch \in Channels, Publish(ch) PROVE MessagesTyped'
  <2>1. published' = Append(published, ch) /\ Len(published) < MaxMessages
        /\ UNCHANGED <<pos, received>>
    BY <1>6 DEF Publish, publish
  <2>2. published' \in Seq(Channels) /\ Len(published') = Len(published) + 1
    BY <1>t, <2>1, AppendFacts
  <2>3. QED BY <1>t, <2>1, <2>2, Bounds
<1>7. CASE Crash
  <2>1. pos' = [l \in Listeners |-> 0] /\ UNCHANGED <<published, received>> BY <1>7 DEF Crash
  <2>2. QED BY <1>t, <2>1, Bounds
<1>8. ASSUME NEW c \in Conns, Connect(c) \/ Abandons(c) \/ Closes(c) \/ Quiet(c)
      PROVE  MessagesTyped'
  BY <1>1, <1>8, AbandonsEffect, ClosesEffect, QuietEffect DEF Connect, insert_entry, abandon,
     unsubscribe, memoryVars
<1>9. ASSUME NEW c \in Conns, NEW t \in Topics, TopicUnsubscribe(c, t) PROVE MessagesTyped'
  BY <1>1, <1>9 DEF TopicUnsubscribe, remove_subscription
<1>10. CASE UNCHANGED vars
  BY <1>1, <1>10 DEF vars, brokerVars, memoryVars
<1>11. QED
  BY <1>2, <1>3, <1>4, <1>5, <1>6, <1>7, <1>8, <1>9, <1>10, StepCases

LEMMA ServedStep ==
    ASSUME Typed, [Next]_vars
    PROVE  DeviceInv' /\ ServedInv'
<1>t. /\ pc \in [Conns -> States] /\ pending \in [Conns -> Topics]
      /\ started \in [Conns -> [Topics -> 0..MaxSubscribes]] /\ DeviceInv /\ ServedInv
  BY DEF Typed, HandlerTyped, SetsTyped
<1> USE DEF DeviceInv, ServedInv, Held
<1>1. ASSUME NEW c \in Conns, Connect(c) PROVE DeviceInv' /\ ServedInv'
  BY <1>t, <1>1 DEF Connect, insert_entry, Moves
<1>2. ASSUME NEW c \in Conns, Subscribed(c) PROVE DeviceInv' /\ ServedInv'
  BY <1>t, <1>2 DEF Subscribed, spawn_base, Moves
<1>3. ASSUME NEW c \in Conns, Abandons(c) PROVE DeviceInv' /\ ServedInv'
  BY <1>t, <1>3, AbandonsEffect DEF abandon
<1>4. ASSUME NEW c \in Conns, TopicSubscribed(c) PROVE DeviceInv' /\ ServedInv'
  <2>1. /\ started' = [started EXCEPT ![c][pending[c]] = @ + 1]
        /\ pc' = [pc EXCEPT ![c] = "loop"] /\ pc[c] = "adding" /\ UNCHANGED <<entries, pending>>
    BY <1>4 DEF TopicSubscribed, add_subscription, Moves
  <2>2. \A d \in Conns : d # c => started'[d] = started[d] BY <1>t, <2>1
  <2>3. QED BY <1>t, <2>1, <2>2
<1>5. ASSUME NEW c \in Conns, NEW t \in Topics, TopicUnsubscribe(c, t)
      PROVE DeviceInv' /\ ServedInv'
  BY <1>t, <1>5 DEF TopicUnsubscribe, remove_subscription, handlerVars
<1>6. ASSUME NEW c \in Conns, Closes(c) PROVE DeviceInv' /\ ServedInv'
  BY <1>t, <1>6, ClosesEffect DEF unsubscribe
<1>7. ASSUME NEW c \in Conns, Quiet(c) PROVE DeviceInv' /\ ServedInv'
  BY <1>t, <1>7 DEF Quiet, StoreDevice, StoreFails, Acknowledge, TopicSubscribeFails,
     HandleEvent, Leave, TopicSubscribe, Moves, brokerVars, memoryVars
<1>8. CASE UNCHANGED <<pc, entries, started, pending>>
  BY <1>t, <1>8
<1>9. CASE Crash
  BY <1>t, <1>9 DEF Crash
<1>10. ASSUME NEW l \in Listeners, Forwards(l) \/ Stops(l) PROVE DeviceInv' /\ ServedInv'
  BY <1>8, <1>10 DEF Forwards, Stops, Forward, ForwardFails, Stop, StreamEnds, Rest, handlerVars
<1>11. ASSUME NEW ch \in Channels, Publish(ch) PROVE DeviceInv' /\ ServedInv'
  BY <1>8, <1>11 DEF Publish, publish, handlerVars
<1>12. CASE UNCHANGED vars
  BY <1>8, <1>12 DEF vars, brokerVars, memoryVars, handlerVars
<1>13. QED
  BY <1>1, <1>2, <1>3, <1>4, <1>5, <1>6, <1>7, <1>9, <1>10, <1>11, <1>12, StepCases

LEMMA AlwaysTyped == Spec => []Typed
<1>1. Init => Typed
  <2>. SUFFICES ASSUME Init PROVE Typed OBVIOUS
  <2> USE Bounds DEF Init, BrokerInit
  <2>1. HandlerTyped BY DEF HandlerTyped, States
  <2>2. DeviceInv /\ ServedInv BY DEF DeviceInv, ServedInv, Held
  <2>3. SetsTyped BY DEF SetsTyped
  <2>4. MessagesTyped BY DEF MessagesTyped
  <2>5. QED BY <2>1, <2>2, <2>3, <2>4 DEF Typed
<1>2. Typed /\ [Next]_vars => Typed'
  <2>. SUFFICES ASSUME Typed, [Next]_vars PROVE Typed' OBVIOUS
  <2>1. Len(published) \in Nat BY DEF Typed, MessagesTyped
  <2>2. HandlerTyped' BY <2>1, HandlerStep DEF Typed
  <2>3. QED BY <2>2, SetsStep, MessagesStep, ServedStep DEF Typed
<1>3. QED BY <1>1, <1>2, PTL DEF Spec

-----------------------------------------------------------------------------
(* The numbers of the listeners, and who controls them.                    *)

NumberInv ==
    \A l \in running : IF IsTopic(l) THEN l[3] <= started[Owner(l)][l[2]] ELSE l[3] = 1

ControlInv == NumberInv /\ ListenersControlled

\* A listener that ends, or is told to, takes nothing from the others.
LEMMA FewerListeners ==
    ASSUME ControlInv, running' \subseteq running, running' \ told' \subseteq running \ told,
           UNCHANGED <<started, entries, controls>>
    PROVE  ControlInv'
BY DEF ControlInv, NumberInv, ListenersControlled, Control

LEMMA ControlStep ==
    ASSUME Typed, ControlInv, [Next]_vars
    PROVE  ControlInv'
<1>t. /\ running \subseteq Listeners /\ told \subseteq running
      /\ started \in [Conns -> [Topics -> 0..MaxSubscribes]]
      /\ controls \in [Conns -> SUBSET Topics]
      /\ pending \in [Conns -> Topics]
  BY DEF Typed, SetsTyped, HandlerTyped
<1>e. \A c \in Conns : pc[c] \in Held => c \in entries BY DEF Typed, ServedInv
<1>l. \A l \in running :
        /\ l \in Listeners /\ Owner(l) \in Conns /\ l[1] = Owner(l) /\ l = <<l[1], l[2], l[3]>>
        /\ l[3] \in Nat /\ (IsTopic(l) <=> l[2] \in Topics) /\ (~ IsTopic(l) => l[2] = Base)
  BY <1>t, ListenerFacts, Bounds
<1>1. ASSUME NEW c \in Conns, Connect(c) PROVE ControlInv'
  BY <1>1 DEF Connect, insert_entry, ControlInv, NumberInv, ListenersControlled, Control
<1>2. ASSUME NEW c \in Conns, Subscribed(c) PROVE ControlInv'
  <2>1. /\ running' = running \union {<<c, Base, 1>>} /\ c \in entries
        /\ UNCHANGED <<entries, controls, started, told>>
    BY <1>2, <1>e DEF Subscribed, spawn_base, Moves, Held
  <2>2. Owner(<<c, Base, 1>>) = c /\ ~ IsTopic(<<c, Base, 1>>) /\ <<c, Base, 1>>[3] = 1
    BY BaseListener
  <2>3. QED BY <2>1, <2>2 DEF ControlInv, NumberInv, ListenersControlled, Control
<1>3. ASSUME NEW c \in Conns, Abandons(c) PROVE ControlInv'
  BY <1>3, FewerListeners, AbandonsEffect DEF abandon
<1>4. ASSUME NEW c \in Conns, TopicSubscribed(c) PROVE ControlInv'
  <2>1. pc[c] = "adding" BY <1>4 DEF TopicSubscribed, Moves
  <2> DEFINE t == pending[c]
  <2>2. /\ started' = [started EXCEPT ![c][t] = @ + 1]
        /\ controls' = [controls EXCEPT ![c] = @ \union {t}]
        /\ running' = running \union {Newcomer(c)}
        /\ told' = IF t \in controls[c]
                   THEN told \union ({Control(c, t)} \intersect running) ELSE told
        /\ UNCHANGED entries
    BY <1>4 DEF TopicSubscribed, add_subscription, Newcomer
  <2>3. /\ t \in Topics /\ Owner(Newcomer(c)) = c /\ IsTopic(Newcomer(c))
        /\ Newcomer(c)[2] = t /\ Newcomer(c)[3] = started[c][t] + 1 /\ c \in entries
    BY <2>1, <1>e, NewcomerFacts DEF Newcomer, Held
  <2>4. /\ started'[c][t] = started[c][t] + 1 /\ started[c][t] \in Nat
        /\ \A d \in Conns, x \in Topics : d # c \/ x # t => started'[d][x] = started[d][x]
    BY <1>t, <2>2, <2>3, Bounds
  <2>5. controls'[c] = controls[c] \union {t} /\ \A d \in Conns : d # c => controls'[d] = controls[d]
    BY <1>t, <2>2
  <2>6. <<c, t, started'[c][t]>> = Newcomer(c) BY <2>4 DEF Newcomer
  <2>7. NumberInv'
    <3>1. ASSUME NEW l \in running, IsTopic(l) PROVE l[3] <= started'[Owner(l)][l[2]]
      <4>1. l[3] <= started[Owner(l)][l[2]] BY <3>1 DEF ControlInv, NumberInv
      <4>2. CASE Owner(l) = c /\ l[2] = t BY <1>l, <2>4, <4>1, <4>2
      <4>3. CASE ~ (Owner(l) = c /\ l[2] = t) BY <1>l, <3>1, <2>4, <4>1, <4>3
      <4>4. QED BY <4>2, <4>3
    <3>2. Newcomer(c)[3] <= started'[c][t] BY <2>3, <2>4
    <3>3. QED BY <2>2, <2>3, <3>1, <3>2 DEF NumberInv, ControlInv
  <2>8. ListenersControlled'
    <3>1. ASSUME NEW l \in running \ told, l \notin told'
          PROVE  /\ Owner(l) \in entries
                 /\ IsTopic(l) => /\ l[2] \in controls'[Owner(l)]
                                  /\ l = <<Owner(l), l[2], started'[Owner(l)][l[2]]>>
      <4>1. /\ Owner(l) \in entries
            /\ IsTopic(l) => l[2] \in controls[Owner(l)] /\ l = Control(Owner(l), l[2])
        BY DEF ControlInv, ListenersControlled
      <4>2. ASSUME IsTopic(l) PROVE ~ (Owner(l) = c /\ l[2] = t)
        BY <2>2, <3>1, <4>1, <4>2
      <4>3. ASSUME IsTopic(l) PROVE started'[Owner(l)][l[2]] = started[Owner(l)][l[2]]
        BY <1>l, <2>4, <4>2, <4>3
      <4>4. QED BY <1>l, <2>5, <4>1, <4>3 DEF Control
    <3>2. ASSUME NEW l \in running' \ told'
          PROVE  /\ Owner(l) \in entries
                 /\ IsTopic(l) => /\ l[2] \in controls'[Owner(l)]
                                  /\ l = <<Owner(l), l[2], started'[Owner(l)][l[2]]>>
      <4>1. CASE l = Newcomer(c) BY <2>3, <2>5, <2>6, <4>1
      <4>2. CASE l \in running BY <2>2, <3>1, <3>2, <4>2
      <4>3. QED BY <2>2, <3>2, <4>1, <4>2
    <3>3. UNCHANGED entries BY <2>2
    <3>4. QED BY <3>2, <3>3 DEF ListenersControlled, Control
  <2>9. QED BY <2>7, <2>8 DEF ControlInv
<1>5. ASSUME NEW c \in Conns, NEW t \in Topics, TopicUnsubscribe(c, t) PROVE ControlInv'
  <2>1. /\ controls' = [controls EXCEPT ![c] = @ \ {t}]
        /\ told' = told \union ({Control(c, t)} \intersect running)
        /\ UNCHANGED <<entries, started, running>>
    BY <1>5 DEF TopicUnsubscribe, remove_subscription
  <2>2. \A d \in Conns, x \in Topics : Control(d, x)' = Control(d, x) BY <2>1 DEF Control
  <2>3. NumberInv' BY <2>1 DEF ControlInv, NumberInv
  <2>4. ASSUME NEW l \in running \ told, l \notin told', IsTopic(l)
        PROVE  l[2] \in controls'[Owner(l)] /\ l = Control(Owner(l), l[2])'
    <3>1. l[2] \in controls[Owner(l)] /\ l = Control(Owner(l), l[2])
      BY <2>4 DEF ControlInv, ListenersControlled
    <3>2. ~ (Owner(l) = c /\ l[2] = t) BY <2>1, <2>4, <3>1
    <3>3. QED BY <1>t, <1>l, <2>1, <2>2, <2>4, <3>1, <3>2
  <2>5. QED BY <2>1, <2>3, <2>4 DEF ControlInv, ListenersControlled
<1>6. ASSUME NEW c \in Conns, Closes(c) PROVE ControlInv'
  <2>1. /\ entries' = entries \ {c}
        /\ controls' = [controls EXCEPT ![c] = {}]
        /\ told' = told \union
             (({<<c, Base, 1>>} \union {Control(c, t) : t \in controls[c]}) \intersect running)
        /\ UNCHANGED <<started, running>>
    BY <1>6, ClosesEffect DEF unsubscribe
  <2>2. NumberInv' BY <2>1 DEF ControlInv, NumberInv
  <2>3. ASSUME NEW l \in running \ told, l \notin told' PROVE Owner(l) # c
    <3>1. CASE IsTopic(l)
      BY <2>1, <2>3, <3>1 DEF ControlInv, ListenersControlled
    <3>2. CASE ~ IsTopic(l)
      <4>1. l[3] = 1 /\ l[2] = Base BY <1>l, <3>2 DEF ControlInv, NumberInv
      <4>2. l = <<Owner(l), Base, 1>> BY <1>l, <4>1
      <4>3. QED BY <2>1, <2>3, <4>2
    <3>3. QED BY <3>1, <3>2
  <2>4. ListenersControlled'
    BY <1>t, <1>l, <2>1, <2>3 DEF ControlInv, ListenersControlled, Control
  <2>5. QED BY <2>2, <2>4 DEF ControlInv
<1>7. ASSUME NEW c \in Conns, Quiet(c) PROVE ControlInv'
  BY <1>7, FewerListeners, QuietEffect DEF memoryVars
<1>8. ASSUME NEW l \in Listeners, Forwards(l) \/ Stops(l) PROVE ControlInv'
  BY <1>8, FewerListeners DEF Forwards, Stops, Forward, ForwardFails, Stop, StreamEnds, Ends
<1>9. ASSUME NEW ch \in Channels, Publish(ch) PROVE ControlInv'
  BY <1>9, FewerListeners DEF Publish, publish
<1>10. CASE Crash
  BY <1>10 DEF Crash, ControlInv, NumberInv, ListenersControlled
<1>11. CASE UNCHANGED vars
  BY <1>11, FewerListeners DEF vars, brokerVars, memoryVars
<1>12. QED
  BY <1>1, <1>2, <1>3, <1>4, <1>5, <1>6, <1>7, <1>8, <1>9, <1>10, <1>11, StepCases

LEMMA AlwaysControlled == Spec => []ControlInv
<1>1. Init => ControlInv
  BY DEF Init, BrokerInit, ControlInv, NumberInv, ListenersControlled
<1>2. QED BY <1>1, ControlStep, AlwaysTyped, PTL DEF Spec

\* unsubscribe reaches every listener task of a connection, for any number of
\* subscriptions, failures and crashes.
THEOREM EveryListenerCanBeStopped == Spec => []ListenersControlled
BY AlwaysControlled, PTL DEF ControlInv

-----------------------------------------------------------------------------
(* The gauges.                                                             *)

TopicListeners == {l \in running : IsTopic(l)}
CountedConns == {c \in Conns : Counted(c)}

ListenerGauge ==
    /\ IsFiniteSet(TopicListeners)
    /\ active_topic_listeners = Cardinality(TopicListeners)
ConnectionGauge ==
    /\ IsFiniteSet(CountedConns)
    /\ connections \in Nat
    /\ connections - Cardinality(CountedConns) \in 0..faults

\* What a gauge is moved by when the set it counts gains or loses an element.
LEMMA OneMore ==
    ASSUME NEW S, IsFiniteSet(S), NEW x, x \notin S
    PROVE  /\ IsFiniteSet(S \union {x})
           /\ Cardinality(S \union {x}) = Cardinality(S) + 1
           /\ Cardinality(S) \in Nat
BY FS_AddElement, FS_CardinalityType

LEMMA OneLess ==
    ASSUME NEW S, IsFiniteSet(S), NEW x \in S
    PROVE  /\ IsFiniteSet(S \ {x})
           /\ Cardinality(S \ {x}) = Cardinality(S) - 1
           /\ Cardinality(S) \in Nat \ {0}
<1>1. IsFiniteSet(S \ {x}) /\ Cardinality(S \ {x}) = Cardinality(S) - 1
  BY FS_RemoveElement
<1>2. Cardinality(S \ {x}) \in Nat /\ Cardinality(S) \in Nat
  BY <1>1, FS_CardinalityType
<1>3. QED BY <1>1, <1>2

LEMMA ListenerGaugeStep ==
    ASSUME Typed, ControlInv, ListenerGauge, [Next]_vars
    PROVE  ListenerGauge'
<1>t. running \subseteq Listeners /\ told \subseteq running BY DEF Typed, SetsTyped
<1>0. CASE UNCHANGED <<TopicListeners, active_topic_listeners>>
  BY <1>0 DEF ListenerGauge
<1>s. CASE UNCHANGED <<running, active_topic_listeners>>
  BY <1>0, <1>s DEF TopicListeners
<1>1. ASSUME NEW c \in Conns, Subscribed(c) PROVE ListenerGauge'
  BY <1>0, <1>1, BaseListener DEF Subscribed, spawn_base, TopicListeners
<1>2. ASSUME NEW c \in Conns, TopicSubscribed(c) PROVE ListenerGauge'
  <2>1. /\ running' = running \union {Newcomer(c)} /\ pc[c] = "adding"
        /\ active_topic_listeners' = active_topic_listeners + 1
    BY <1>2 DEF TopicSubscribed, add_subscription, Newcomer, Moves
  <2>2. Newcomer(c) \notin running
    <3>1. Newcomer(c)[3] > started[Owner(Newcomer(c))][Newcomer(c)[2]]
          /\ IsTopic(Newcomer(c))
      <4>1. started[c][pending[c]] \in Nat
        BY <2>1, NewcomerFacts, Bounds DEF Typed, SetsTyped, HandlerTyped
      <4>2. QED BY <2>1, <4>1, NewcomerFacts DEF Newcomer
    <3>2. started[Owner(Newcomer(c))][Newcomer(c)[2]] \in Nat /\ Newcomer(c)[3] \in Nat
      BY <2>1, NewcomerFacts, Bounds DEF Newcomer, Typed, SetsTyped, HandlerTyped
    <3>3. QED BY <3>1, <3>2 DEF ControlInv, NumberInv
  <2>3. TopicListeners' = TopicListeners \union {Newcomer(c)}
        /\ Newcomer(c) \notin TopicListeners
    BY <2>1, <2>2, NewcomerFacts DEF TopicListeners
  <2>4. QED BY <2>1, <2>3, OneMore DEF ListenerGauge
<1>3. ASSUME NEW l \in Listeners, Stops(l) PROVE ListenerGauge'
  <2>1. Ends(l) /\ l \in running
    BY <1>t, <1>3 DEF Stops, ForwardFails, Stop, StreamEnds
  <2>2. CASE IsTopic(l)
    <3>1. TopicListeners' = TopicListeners \ {l} /\ l \in TopicListeners
          /\ active_topic_listeners' = active_topic_listeners - 1
      BY <2>1, <2>2 DEF Ends, TopicListeners
    <3>2. QED BY <3>1, OneLess DEF ListenerGauge
  <2>3. CASE ~ IsTopic(l)
    BY <1>0, <2>1, <2>3 DEF Ends, TopicListeners
  <2>4. QED BY <2>2, <2>3
<1>4. CASE Crash
  <2>1. TopicListeners' = {} /\ active_topic_listeners' = 0
    BY <1>4 DEF Crash, TopicListeners
  <2>2. QED BY <2>1, FS_EmptySet DEF ListenerGauge
<1>5. ASSUME NEW c \in Conns, Connect(c) \/ Abandons(c) \/ Closes(c) \/ Quiet(c)
      PROVE  ListenerGauge'
  BY <1>s, <1>5, AbandonsEffect, ClosesEffect, QuietEffect DEF Connect, insert_entry, abandon,
     unsubscribe, memoryVars
<1>6. ASSUME NEW c \in Conns, NEW t \in Topics, TopicUnsubscribe(c, t) PROVE ListenerGauge'
  BY <1>s, <1>6 DEF TopicUnsubscribe, remove_subscription
<1>7. ASSUME NEW l \in Listeners, Forwards(l) PROVE ListenerGauge'
  BY <1>s, <1>7 DEF Forwards, Forward
<1>8. ASSUME NEW ch \in Channels, Publish(ch) PROVE ListenerGauge'
  BY <1>s, <1>8 DEF Publish, publish
<1>9. CASE UNCHANGED vars
  BY <1>s, <1>9 DEF vars, brokerVars, memoryVars
<1>10. QED
  BY <1>1, <1>2, <1>3, <1>4, <1>5, <1>6, <1>7, <1>8, <1>9, StepCases

\* The counted connections after the task of one connection moved on.
LEMMA CountedMove ==
    ASSUME HandlerTyped, NEW c \in Conns, NEW s, pc' = [pc EXCEPT ![c] = s]
    PROVE  CountedConns' = IF s \in {"ack", "loop", "adding", "delete"}
                           THEN CountedConns \union {c} ELSE CountedConns \ {c}
BY DEF HandlerTyped, CountedConns, Counted

LEMMA ConnectionGaugeStep ==
    ASSUME Typed, ConnectionGauge, [Next]_vars
    PROVE  ConnectionGauge'
<1>t. HandlerTyped /\ pc \in [Conns -> States] /\ faults \in Nat BY DEF Typed, HandlerTyped
<1>f. Fault \/ UNCHANGED faults => faults' \in Nat /\ faults <= faults'
  BY <1>t DEF Fault
<1>c. \A c \in Conns : c \in CountedConns <=> pc[c] \in {"ack", "loop", "adding", "delete"}
  BY DEF CountedConns, Counted
<1>n. Cardinality(CountedConns) \in Nat BY FS_CardinalityType DEF ConnectionGauge
<1>0. CASE UNCHANGED <<CountedConns, connections>> /\ faults' \in Nat /\ faults <= faults'
  BY <1>0, <1>t, <1>n DEF ConnectionGauge
<1>s. CASE UNCHANGED <<pc, connections>> /\ (Fault \/ UNCHANGED faults)
  BY <1>0, <1>f, <1>s DEF CountedConns, Counted
<1>m. ASSUME NEW c \in Conns, NEW s, pc' = [pc EXCEPT ![c] = s],
             c \notin CountedConns, s \in {"ack", "loop", "adding", "delete"},
             connections' = connections + 1, Fault \/ UNCHANGED faults
      PROVE  ConnectionGauge'
  <2>1. CountedConns' = CountedConns \union {c} BY <1>t, <1>m, CountedMove
  <2>2. IsFiniteSet(CountedConns') /\ Cardinality(CountedConns') = Cardinality(CountedConns) + 1
    BY <1>m, <2>1, OneMore DEF ConnectionGauge
  <2>3. QED BY <1>t, <1>f, <1>n, <1>m, <2>2 DEF ConnectionGauge
<1>k. ASSUME NEW c \in Conns, NEW s, pc' = [pc EXCEPT ![c] = s], UNCHANGED connections,
             c \in CountedConns <=> s \in {"ack", "loop", "adding", "delete"},
             Fault \/ UNCHANGED faults
      PROVE  ConnectionGauge'
  <2>a. CountedConns' = IF s \in {"ack", "loop", "adding", "delete"}
                        THEN CountedConns \union {c} ELSE CountedConns \ {c}
    BY <1>t, <1>k, CountedMove
  <2>1. CountedConns' = CountedConns
    <3>1. CASE c \in CountedConns BY <1>k, <2>a, <3>1
    <3>2. CASE c \notin CountedConns BY <1>k, <2>a, <3>2
    <3>3. QED BY <3>1, <3>2
  <2>2. QED BY <1>0, <1>f, <1>k, <2>1
<1>1. ASSUME NEW c \in Conns, Connect(c) \/ Acknowledge(c) \/ TopicSubscribed(c) \/ Leave(c)
             \/ TopicSubscribeFails(c) \/ \E t \in Topics : TopicSubscribe(c, t)
      PROVE  ConnectionGauge'
  BY <1>c, <1>k, <1>1 DEF Connect, Acknowledge, TopicSubscribed, Leave, TopicSubscribeFails,
     TopicSubscribe, Moves, brokerVars
<1>2. ASSUME NEW c \in Conns, Subscribed(c) PROVE ConnectionGauge'
  BY <1>c, <1>k, <1>m, <1>2 DEF Subscribed, Moves
<1>3. ASSUME NEW c \in Conns, StoreDevice(c) \/ StoreFails(c) PROVE ConnectionGauge'
  BY <1>c, <1>m, <1>3 DEF StoreDevice, StoreFails, Moves, brokerVars
<1>4. ASSUME NEW c \in Conns, Abandons(c) PROVE ConnectionGauge'
  <2>1. CountedConns' = CountedConns \ {c} /\ UNCHANGED connections /\ faults' = faults + 1
    BY <1>t, <1>4, AbandonsEffect, CountedMove DEF Fault
  <2>2. CASE c \notin CountedConns
    <3>1. CountedConns' = CountedConns BY <2>1, <2>2
    <3>2. QED BY <1>0, <1>t, <2>1, <3>1
  <2>3. CASE c \in CountedConns
    <3>1. IsFiniteSet(CountedConns')
          /\ Cardinality(CountedConns') = Cardinality(CountedConns) - 1
      BY <2>1, <2>3, OneLess DEF ConnectionGauge
    <3>2. QED BY <1>t, <1>n, <2>1, <3>1 DEF ConnectionGauge
  <2>4. QED BY <2>2, <2>3
<1>5. ASSUME NEW c \in Conns, Closes(c) PROVE ConnectionGauge'
  <2>1. CountedConns' = CountedConns \ {c} /\ connections' = connections - 1
        /\ (Fault \/ UNCHANGED faults)
    BY <1>t, <1>5, ClosesEffect, CountedMove
  <2>2. c \in CountedConns BY <1>c, <1>5, ClosesEffect
  <2>3. IsFiniteSet(CountedConns') /\ Cardinality(CountedConns') = Cardinality(CountedConns) - 1
        /\ Cardinality(CountedConns) \in Nat \ {0}
    BY <2>1, <2>2, OneLess DEF ConnectionGauge
  <2>4. QED BY <1>t, <1>f, <2>1, <2>3 DEF ConnectionGauge
<1>6. ASSUME NEW c \in Conns, HandleEvent(c) PROVE ConnectionGauge'
  BY <1>s, <1>6 DEF HandleEvent, brokerVars
<1>7. ASSUME NEW c \in Conns, NEW t \in Topics, TopicUnsubscribe(c, t) PROVE ConnectionGauge'
  BY <1>s, <1>7 DEF TopicUnsubscribe, handlerVars
<1>8. ASSUME NEW l \in Listeners, Forwards(l) \/ Stops(l) PROVE ConnectionGauge'
  BY <1>s, <1>8 DEF Forwards, Stops, Forward, ForwardFails, Stop, StreamEnds, Rest, handlerVars
<1>9. ASSUME NEW ch \in Channels, Publish(ch) PROVE ConnectionGauge'
  BY <1>s, <1>9 DEF Publish, publish, handlerVars
<1>10. CASE Crash
  <2>1. CountedConns' = {} /\ connections' = 0 /\ faults' = faults
    BY <1>t, <1>10 DEF Crash, CountedConns, Counted
  <2>2. QED BY <1>t, <2>1, FS_EmptySet DEF ConnectionGauge
<1>11. CASE UNCHANGED vars
  BY <1>s, <1>11 DEF vars, brokerVars, handlerVars
<1>12. QED
  BY <1>1, <1>2, <1>3, <1>4, <1>5, <1>6, <1>7, <1>8, <1>9, <1>10, <1>11, StepCases DEF Quiet

GaugeInv == ListenerGauge /\ ConnectionGauge

LEMMA AlwaysGauged == Spec => []GaugeInv
<1>1. Init => GaugeInv
  <2>. SUFFICES ASSUME Init PROVE GaugeInv OBVIOUS
  <2>1. TopicListeners = {} /\ CountedConns = {}
    BY DEF Init, BrokerInit, TopicListeners, CountedConns, Counted
  <2>2. QED
    BY <2>1, FS_EmptySet DEF Init, BrokerInit, GaugeInv, ListenerGauge, ConnectionGauge
<1>2. Typed /\ ControlInv /\ GaugeInv /\ [Next]_vars => GaugeInv'
  BY ListenerGaugeStep, ConnectionGaugeStep DEF GaugeInv
<1>3. QED BY <1>1, <1>2, AlwaysTyped, AlwaysControlled, PTL DEF Spec

\* /metrics tells the truth: every way in and out of a listener task and of a
\* connection moves its gauge once, and only a failure may leave a connection counted.
THEOREM GaugesTellTheTruth == Spec => []GaugesMatch
<1>1. GaugeInv => GaugesMatch
  BY DEF GaugeInv, ListenerGauge, ConnectionGauge, GaugesMatch, TopicListeners, CountedConns
<1>2. QED BY <1>1, AlwaysGauged, PTL

\* No gauge wraps below zero, and every map, queue and position keeps its type.
THEOREM PropellerTyped == Spec => []TypeOK
<1>1. Typed /\ GaugeInv => TypeOK
  <2>. SUFFICES ASSUME Typed, GaugeInv PROVE TypeOK OBVIOUS
  <2>1. active_topic_listeners \in Nat
    BY FS_CardinalityType DEF GaugeInv, ListenerGauge
  <2>2. BrokerTypeOK
    BY <2>1 DEF Typed, HandlerTyped, SetsTyped, MessagesTyped, BrokerTypeOK
  <2>3. QED BY <2>2 DEF Typed, HandlerTyped, GaugeInv, ConnectionGauge, TypeOK
<1>2. QED BY <1>1, AlwaysTyped, AlwaysGauged, PTL

-----------------------------------------------------------------------------
(* What failures leave behind.                                             *)

\* A control of a connection is never that of a listener told to stop: it goes when
\* its listener is told, and a new subscription has a new one.
OpenInv ==
    \A c \in Conns :
        /\ pc[c] = "idle" => controls[c] = {}
        /\ \A t \in controls[c] : Control(c, t) \notin told

LEMMA OpenStep ==
    ASSUME Typed, ControlInv, OpenInv, [Next]_vars
    PROVE  OpenInv'
<1>t. /\ running \subseteq Listeners /\ told \subseteq running
      /\ started \in [Conns -> [Topics -> 0..MaxSubscribes]]
      /\ controls \in [Conns -> SUBSET Topics]
      /\ pending \in [Conns -> Topics] /\ pc \in [Conns -> States]
  BY DEF Typed, SetsTyped, HandlerTyped
<1>0. ASSUME told' \subseteq told, UNCHANGED <<controls, started>>,
             \A c \in Conns : pc'[c] = "idle" => pc[c] = "idle"
      PROVE  OpenInv'
  BY <1>0 DEF OpenInv, Control
<1>1. ASSUME NEW c \in Conns, Connect(c) PROVE OpenInv'
  BY <1>0, <1>t, <1>1 DEF Connect, insert_entry, Moves
<1>2. ASSUME NEW c \in Conns, Subscribed(c) PROVE OpenInv'
  BY <1>0, <1>t, <1>2 DEF Subscribed, spawn_base, Moves
<1>3. ASSUME NEW c \in Conns, Abandons(c) PROVE OpenInv'
  BY <1>0, <1>t, <1>3, AbandonsEffect DEF abandon
<1>4. ASSUME NEW c \in Conns, TopicSubscribed(c) PROVE OpenInv'
  <2> DEFINE t == pending[c]
  <2>1. pc[c] = "adding" /\ pc' = [pc EXCEPT ![c] = "loop"] BY <1>4 DEF TopicSubscribed, Moves
  <2>2. /\ started' = [started EXCEPT ![c][t] = @ + 1]
        /\ controls' = [controls EXCEPT ![c] = @ \union {t}]
        /\ told' \subseteq told \union {Control(c, t)}
    BY <1>4 DEF TopicSubscribed, add_subscription
  <2>3. /\ t \in Topics /\ started[c][t] \in Nat /\ started'[c][t] = started[c][t] + 1
        /\ \A d \in Conns, x \in Topics : d # c \/ x # t => started'[d][x] = started[d][x]
    BY <1>t, <2>1, <2>2, Bounds
  <2>4. Newcomer(c) \notin told
    <3>1. ASSUME Newcomer(c) \in told PROVE FALSE
      <4>1. started[c][t] + 1 <= started[c][t]
        BY <1>t, <2>1, <3>1, NewcomerFacts DEF ControlInv, NumberInv, Newcomer
      <4>2. QED BY <2>3, <4>1
    <3>2. QED BY <3>1
  <2>5. <<c, t, started'[c][t]>> = Newcomer(c) /\ Newcomer(c) # Control(c, t)
    BY <2>3 DEF Control, Newcomer
  <2>6. ASSUME NEW d \in Conns, NEW x \in controls'[d], d # c \/ x # t
        PROVE  Control(d, x)' \notin told'
    <3>1. x \in controls[d] /\ x \in Topics BY <1>t, <2>2, <2>6
    <3>2. Control(d, x)' = Control(d, x) BY <2>3, <2>6, <3>1 DEF Control
    <3>3. Control(d, x) # Control(c, t) BY <2>6 DEF Control
    <3>4. QED BY <2>2, <3>1, <3>2, <3>3 DEF OpenInv
  <2>7. <<c, t, started'[c][t]>> \notin told' BY <2>2, <2>4, <2>5
  <2>8. ASSUME NEW d \in Conns, pc'[d] = "idle" PROVE controls'[d] = {}
    BY <1>t, <2>1, <2>2, <2>8 DEF OpenInv
  <2>9. ASSUME NEW d \in Conns, NEW x \in controls'[d] PROVE Control(d, x)' \notin told'
    BY <2>6, <2>7, <2>9 DEF Control
  <2>10. QED BY <2>8, <2>9 DEF OpenInv
<1>5. ASSUME NEW c \in Conns, NEW t \in Topics, TopicUnsubscribe(c, t) PROVE OpenInv'
  <2>1. /\ controls' = [controls EXCEPT ![c] = @ \ {t}]
        /\ told' \subseteq told \union {Control(c, t)}
        /\ UNCHANGED <<started, pc>>
    BY <1>5 DEF TopicUnsubscribe, remove_subscription, handlerVars
  <2>2. ASSUME NEW d \in Conns, NEW x \in controls'[d]
        PROVE  x \in controls[d] /\ Control(d, x)' = Control(d, x) /\ Control(d, x) # Control(c, t)
    BY <1>t, <2>1, <2>2 DEF Control
  <2>3. ASSUME NEW d \in Conns, pc'[d] = "idle" PROVE controls'[d] = {}
    BY <1>t, <2>1, <2>3 DEF OpenInv
  <2>4. ASSUME NEW d \in Conns, NEW x \in controls'[d] PROVE Control(d, x)' \notin told'
    BY <2>1, <2>2 DEF OpenInv
  <2>5. QED BY <2>3, <2>4 DEF OpenInv
<1>6. ASSUME NEW c \in Conns, Closes(c) PROVE OpenInv'
  <2>1. /\ controls' = [controls EXCEPT ![c] = {}] /\ pc' = [pc EXCEPT ![c] = "closed"]
        /\ told' \subseteq told \union {<<c, Base, 1>>} \union {Control(c, t) : t \in controls[c]}
        /\ UNCHANGED started
    BY <1>6, ClosesEffect DEF unsubscribe
  <2>2. ASSUME NEW d \in Conns, NEW x \in controls'[d]
        PROVE  x \in controls[d] /\ Control(d, x)' = Control(d, x) /\ Control(d, x) \notin told'
    <3>1. d # c /\ x \in controls[d] BY <1>t, <2>1, <2>2
    <3>2. Control(d, x) # <<c, Base, 1>> /\ \A t \in controls[c] : Control(d, x) # Control(c, t)
      BY <3>1 DEF Control
    <3>3. Control(d, x) \notin told BY <3>1 DEF OpenInv
    <3>4. QED BY <2>1, <3>1, <3>2, <3>3 DEF Control
  <2>3. ASSUME NEW d \in Conns, pc'[d] = "idle" PROVE controls'[d] = {}
    BY <1>t, <2>1, <2>3 DEF OpenInv
  <2>4. QED BY <2>2, <2>3 DEF OpenInv
<1>7. ASSUME NEW c \in Conns, Quiet(c) PROVE OpenInv'
  <2>1. UNCHANGED <<told, controls, started>> BY <1>7, QuietEffect DEF memoryVars
  <2>2. pc'[c] = "idle" => pc[c] = "idle"
    BY <1>t, <1>7 DEF Quiet, StoreDevice, StoreFails, Acknowledge, TopicSubscribeFails,
       HandleEvent, Leave, TopicSubscribe, Moves
  <2>3. \A d \in Conns : d # c => pc'[d] = pc[d] BY <1>t, <1>7, QuietEffect
  <2>4. QED BY <1>0, <2>1, <2>2, <2>3
<1>8. ASSUME NEW l \in Listeners, Forwards(l) \/ Stops(l) PROVE OpenInv'
  BY <1>0, <1>8 DEF Forwards, Stops, Forward, ForwardFails, Stop, StreamEnds, Ends, Rest,
     handlerVars
<1>9. ASSUME NEW ch \in Channels, Publish(ch) PROVE OpenInv'
  BY <1>0, <1>9 DEF Publish, publish, handlerVars
<1>10. CASE Crash
  BY <1>10 DEF Crash, OpenInv
<1>11. CASE UNCHANGED vars
  BY <1>0, <1>11 DEF vars, brokerVars, memoryVars, handlerVars
<1>12. QED
  BY <1>1, <1>2, <1>3, <1>4, <1>5, <1>6, <1>7, <1>8, <1>9, <1>10, <1>11, StepCases

LeakInv ==
    /\ subs \subseteq entries
    /\ IsFiniteSet(Leaked) /\ IsFiniteSet(Deaf)
    /\ Cardinality(Leaked) + Cardinality(Deaf) <= faults

\* Two sets that lose elements have no more of them.
LEMMA NoMore ==
    ASSUME NEW S, IsFiniteSet(S), NEW T, T \subseteq S
    PROVE  /\ IsFiniteSet(T) /\ Cardinality(T) <= Cardinality(S)
           /\ Cardinality(T) \in Nat /\ Cardinality(S) \in Nat
BY FS_Subset, FS_CardinalityType

\* A set that gains at most one element has at most one more.
LEMMA AtMostOneMore ==
    ASSUME NEW S, IsFiniteSet(S), NEW x, NEW T, T \subseteq S \union {x}
    PROVE  /\ IsFiniteSet(T) /\ Cardinality(T) <= Cardinality(S) + 1
           /\ Cardinality(T) \in Nat /\ Cardinality(S) \in Nat
<1>1. CASE x \in S
  <2>1. T \subseteq S BY <1>1
  <2>2. QED BY <2>1, NoMore
<1>2. CASE x \notin S
  <2>1. IsFiniteSet(S \union {x}) /\ Cardinality(S \union {x}) = Cardinality(S) + 1
        /\ Cardinality(S) \in Nat
    BY <1>2, OneMore
  <2>2. QED BY <2>1, NoMore
<1>3. QED BY <1>1, <1>2

LEMMA LeakStep ==
    ASSUME Typed, ControlInv, OpenInv, LeakInv, [Next]_vars
    PROVE  LeakInv'
<1>t. /\ faults \in Nat /\ subs \subseteq entries /\ subs \subseteq Conns
      /\ running \subseteq Listeners /\ told \subseteq running
      /\ started \in [Conns -> [Topics -> 0..MaxSubscribes]]
      /\ controls \in [Conns -> SUBSET Topics] /\ pending \in [Conns -> Topics]
  BY DEF Typed, HandlerTyped, SetsTyped, LeakInv
<1>f. Fault \/ UNCHANGED faults => faults' \in Nat /\ faults <= faults' BY <1>t DEF Fault
<1>1. ASSUME subs' \subseteq entries', Leaked' \subseteq Leaked, Deaf' \subseteq Deaf,
             Fault \/ UNCHANGED faults
      PROVE  LeakInv'
  <2>1. /\ IsFiniteSet(Leaked') /\ Cardinality(Leaked') <= Cardinality(Leaked)
        /\ Cardinality(Leaked') \in Nat /\ Cardinality(Leaked) \in Nat
    BY <1>1, NoMore DEF LeakInv
  <2>2. /\ IsFiniteSet(Deaf') /\ Cardinality(Deaf') <= Cardinality(Deaf)
        /\ Cardinality(Deaf') \in Nat /\ Cardinality(Deaf) \in Nat
    BY <1>1, NoMore DEF LeakInv
  <2>3. QED BY <1>t, <1>f, <1>1, <2>1, <2>2 DEF LeakInv
<1>2. CASE UNCHANGED <<entries, subs, controls, started, running>> /\ (Fault \/ UNCHANGED faults)
  <2>1. Leaked' = Leaked /\ Deaf' = Deaf BY <1>2 DEF Leaked, Deaf, Control
  <2>2. QED BY <1>t, <1>1, <1>2, <2>1
<1>3. ASSUME NEW c \in Conns, Connect(c) PROVE LeakInv'
  <2>1. /\ entries' = entries \union {c} /\ subs' = subs \union {c} /\ pc[c] = "idle"
        /\ UNCHANGED <<controls, started, running, faults>>
    BY <1>3 DEF Connect, insert_entry, Moves
  <2>2. controls[c] = {} BY <2>1 DEF OpenInv
  <2>3. Deaf' \subseteq Deaf BY <2>1, <2>2 DEF Deaf, Control
  <2>4. QED BY <1>t, <1>1, <2>1, <2>3 DEF Leaked
<1>4. ASSUME NEW c \in Conns, Closes(c) PROVE LeakInv'
  <2>1. /\ entries' = entries \ {c} /\ subs' = subs \ {c} /\ (Fault \/ UNCHANGED faults)
        /\ controls' = [controls EXCEPT ![c] = {}] /\ UNCHANGED <<started, running>>
    BY <1>4, ClosesEffect DEF unsubscribe
  <2>2. Deaf' \subseteq Deaf BY <1>t, <2>1 DEF Deaf, Control
  <2>3. QED BY <1>t, <1>1, <2>1, <2>2 DEF Leaked
<1>5. ASSUME NEW c \in Conns, Abandons(c) PROVE LeakInv'
  <2>1. /\ entries' = entries /\ subs' = subs \ {c} /\ faults' = faults + 1
        /\ UNCHANGED <<controls, started, running>>
    BY <1>5, AbandonsEffect DEF abandon, Fault
  <2>2. Leaked' \subseteq Leaked \union {c} /\ Deaf' \subseteq Deaf
    BY <1>t, <2>1 DEF Leaked, Deaf, Control
  <2>3. /\ IsFiniteSet(Leaked') /\ Cardinality(Leaked') <= Cardinality(Leaked) + 1
        /\ Cardinality(Leaked') \in Nat /\ Cardinality(Leaked) \in Nat
    BY <2>2, AtMostOneMore DEF LeakInv
  <2>4. /\ IsFiniteSet(Deaf') /\ Cardinality(Deaf') <= Cardinality(Deaf)
        /\ Cardinality(Deaf') \in Nat /\ Cardinality(Deaf) \in Nat
    BY <2>2, NoMore DEF LeakInv
  <2>5. QED BY <1>t, <2>1, <2>3, <2>4 DEF LeakInv
<1>6. ASSUME NEW c \in Conns, Subscribed(c) PROVE LeakInv'
  <2>1. running \subseteq running' /\ UNCHANGED <<entries, subs, controls, started, faults>>
    BY <1>6 DEF Subscribed, spawn_base
  <2>2. Leaked' = Leaked /\ Deaf' \subseteq Deaf BY <2>1 DEF Leaked, Deaf, Control
  <2>3. QED BY <1>t, <1>1, <2>1, <2>2
<1>7. ASSUME NEW c \in Conns, TopicSubscribed(c) PROVE LeakInv'
  <2> DEFINE t == pending[c]
  <2>1. /\ started' = [started EXCEPT ![c][t] = @ + 1]
        /\ controls' = [controls EXCEPT ![c] = @ \union {t}]
        /\ running' = running \union {Newcomer(c)}
        /\ UNCHANGED <<entries, subs, faults>>
    BY <1>7 DEF TopicSubscribed, add_subscription, Newcomer
  <2>2. /\ t \in Topics /\ <<c, t, started'[c][t]>> = Newcomer(c)
        /\ \A d \in Conns, x \in Topics : d # c \/ x # t => Control(d, x)' = Control(d, x)
    BY <1>t, <2>1 DEF Control, Newcomer
  <2>3. ASSUME NEW d \in subs', NEW x \in Topics, x \in controls'[d], Control(d, x)' \notin running'
        PROVE  d \in subs /\ x \in controls[d] /\ Control(d, x) \notin running
    <3>1. d \in Conns /\ d \in subs BY <1>t, <2>1
    <3>2. ~ (d = c /\ x = t) BY <2>1, <2>2, <2>3 DEF Control
    <3>3. Control(d, x)' = Control(d, x) BY <2>2, <3>1, <3>2
    <3>4. x \in controls[d] BY <1>t, <2>1, <2>3, <3>1, <3>2
    <3>5. QED BY <2>1, <2>3, <3>1, <3>3, <3>4
  <2>4. Leaked' = Leaked /\ Deaf' \subseteq Deaf BY <2>1, <2>3 DEF Leaked, Deaf
  <2>5. QED BY <1>t, <1>1, <2>1, <2>4
<1>8. ASSUME NEW c \in Conns, Quiet(c) PROVE LeakInv'
  BY <1>2, <1>8, QuietEffect DEF memoryVars
<1>9. ASSUME NEW c \in Conns, NEW t \in Topics, TopicUnsubscribe(c, t) PROVE LeakInv'
  <2>1. /\ controls' = [controls EXCEPT ![c] = @ \ {t}]
        /\ UNCHANGED <<entries, subs, started, running, faults>>
    BY <1>9 DEF TopicUnsubscribe, remove_subscription
  <2>2. Leaked' = Leaked /\ Deaf' \subseteq Deaf BY <1>t, <2>1 DEF Leaked, Deaf, Control
  <2>3. QED BY <1>t, <1>1, <2>1, <2>2
<1>10. ASSUME NEW l \in Listeners, Forwards(l) PROVE LeakInv'
  BY <1>2, <1>10 DEF Forwards, Forward
<1>11. ASSUME NEW l \in Listeners, Stops(l) PROVE LeakInv'
  <2>1. /\ running' = running \ {l} /\ UNCHANGED <<entries, subs, controls, started>>
    BY <1>11 DEF Stops, ForwardFails, Stop, StreamEnds, Ends
  <2>2. Leaked' = Leaked /\ subs' \subseteq entries' BY <1>t, <2>1 DEF Leaked
  <2>3. CASE UNCHANGED faults
    <3>1. Owner(l) \notin subs \/ l \in told
      BY <1>11, <1>t, <2>3 DEF Stops, ForwardFails, Stop, StreamEnds, Fault
    <3>2. \A c \in subs, t \in Topics : t \in controls[c] => Control(c, t) # l
      <4>1. ASSUME NEW c \in subs, NEW t \in Topics, t \in controls[c], Control(c, t) = l
            PROVE  FALSE
        <5>1. c \in Conns BY <1>t
        <5>2. Owner(l) = c /\ l \notin told BY <4>1, <5>1 DEF Control, Owner, OpenInv
        <5>3. QED BY <3>1, <5>2
      <4>2. QED BY <4>1
    <3>3. Deaf' \subseteq Deaf BY <2>1, <3>2 DEF Deaf, Control
    <3>4. QED BY <1>1, <2>2, <2>3, <3>3
  <2>4. CASE Fault
    <3>1. Deaf' \subseteq Deaf \union {<<l[1], l[2]>>} BY <2>1 DEF Deaf, Control
    <3>2. /\ IsFiniteSet(Deaf') /\ Cardinality(Deaf') <= Cardinality(Deaf) + 1
          /\ Cardinality(Deaf') \in Nat /\ Cardinality(Deaf) \in Nat
      BY <3>1, AtMostOneMore DEF LeakInv
    <3>3. Cardinality(Leaked) \in Nat BY FS_CardinalityType DEF LeakInv
    <3>4. faults' = faults + 1 BY <2>4 DEF Fault
    <3>5. QED BY <1>t, <2>2, <3>2, <3>3, <3>4 DEF LeakInv
  <2>5. QED BY <1>11, <2>3, <2>4 DEF Stops, ForwardFails, Stop, StreamEnds
<1>12. ASSUME NEW ch \in Channels, Publish(ch) PROVE LeakInv'
  BY <1>2, <1>12 DEF Publish, publish
<1>13. CASE Crash
  <2>1. subs' = {} /\ Leaked' = {} /\ Deaf' = {} /\ UNCHANGED faults
    BY <1>13 DEF Crash, Leaked, Deaf
  <2>2. QED BY <1>1, <2>1
<1>14. CASE UNCHANGED vars
  BY <1>2, <1>14 DEF vars, brokerVars, memoryVars
<1>15. QED
  BY <1>3, <1>4, <1>5, <1>6, <1>7, <1>8, <1>9, <1>10, <1>11, <1>12, <1>13, <1>14, StepCases

\* An entry nobody owns is the trace of a failed call or a vanished client, and a control
\* without its listener that of a broken connection, one each.
THEOREM OnlyFailuresLeak == Spec => []LeaksAreFailures
<1>1. Init => OpenInv BY DEF Init, BrokerInit, OpenInv
<1>2. Init => LeakInv
  <2>1. Init => Leaked = {} /\ Deaf = {} /\ subs = {} /\ faults = 0
    BY DEF Init, BrokerInit, Leaked, Deaf
  <2>2. QED BY <2>1, FS_EmptySet DEF LeakInv
<1>3. Typed /\ ControlInv /\ OpenInv /\ LeakInv /\ [Next]_vars => OpenInv' /\ LeakInv'
  BY OpenStep, LeakStep
<1>4. LeakInv => LeaksAreFailures BY DEF LeakInv, LeaksAreFailures
<1>5. QED BY <1>1, <1>2, <1>3, <1>4, AlwaysTyped, AlwaysControlled, PTL DEF Spec

\* What a connection that moves can make of its device, and of no other.
LEMMA GhostMove ==
    ASSUME pc \in [Conns -> States], NEW c \in Conns, NEW s, pc' = [pc EXCEPT ![c] = s],
           registry' \subseteq registry \union {Device[c]}
    PROVE  /\ Ghosts' \subseteq Ghosts \union {Device[c]}
           /\ \/ s \in {"store", "ack", "loop", "adding", "delete"}
              \/ Device[c] \notin registry'
              \/ ~ Connected(c) /\ registry' = registry
              => Ghosts' \subseteq Ghosts
BY DEF Ghosts, Connected

GhostInv == crashes = 0 => IsFiniteSet(Ghosts) /\ Cardinality(Ghosts) <= faults

LEMMA GhostStep ==
    ASSUME Typed, GhostInv, [Next]_vars
    PROVE  GhostInv'
<1>t. /\ pc \in [Conns -> States] /\ registry \subseteq Devices /\ DeviceInv
      /\ faults \in Nat /\ crashes \in Nat
  BY Bounds DEF Typed, HandlerTyped
<1>. SUFFICES ASSUME crashes' = 0 PROVE (IsFiniteSet(Ghosts) /\ Cardinality(Ghosts) <= faults)'
  BY DEF GhostInv
<1>k. ~ Crash BY <1>t DEF Crash
<1>s. CASE UNCHANGED crashes /\ Ghosts' \subseteq Ghosts /\ (Fault \/ UNCHANGED faults)
  <2>1. IsFiniteSet(Ghosts) /\ Cardinality(Ghosts) <= faults BY <1>s DEF GhostInv
  <2>2. IsFiniteSet(Ghosts') /\ Cardinality(Ghosts') <= Cardinality(Ghosts)
        /\ Cardinality(Ghosts') \in Nat /\ Cardinality(Ghosts) \in Nat
    BY <1>s, <2>1, FS_Subset, FS_CardinalityType
  <2>3. faults' >= faults /\ faults' \in Nat BY <1>t, <1>s DEF Fault
  <2>4. QED BY <1>t, <2>1, <2>2, <2>3
<1>g. ASSUME NEW d, UNCHANGED crashes, Ghosts' \subseteq Ghosts \union {d}, Fault
      PROVE  (IsFiniteSet(Ghosts) /\ Cardinality(Ghosts) <= faults)'
  <2>1. IsFiniteSet(Ghosts) /\ Cardinality(Ghosts) <= faults BY <1>g DEF GhostInv
  <2>2. CASE Ghosts' \subseteq Ghosts
    BY <1>s, <1>g, <2>2
  <2>3. CASE ~ (Ghosts' \subseteq Ghosts)
    <3>1. d \notin Ghosts BY <1>g, <2>3
    <3>2. IsFiniteSet(Ghosts \union {d}) /\ Cardinality(Ghosts \union {d}) = Cardinality(Ghosts) + 1
          /\ Cardinality(Ghosts) \in Nat
      BY <2>1, <3>1, OneMore
    <3>3. IsFiniteSet(Ghosts') /\ Cardinality(Ghosts') <= Cardinality(Ghosts \union {d})
          /\ Cardinality(Ghosts') \in Nat
      BY <1>g, <3>2, FS_Subset, FS_CardinalityType
    <3>4. faults' = faults + 1 BY <1>t, <1>g DEF Fault
    <3>5. QED BY <1>t, <2>1, <3>2, <3>3, <3>4
  <2>4. QED BY <2>2, <2>3
<1>u. CASE UNCHANGED <<pc, registry, crashes>> /\ (Fault \/ UNCHANGED faults)
  <2>1. Ghosts' = Ghosts BY <1>u DEF Ghosts, Connected
  <2>2. QED BY <1>s, <1>u, <2>1
<1>1. ASSUME NEW c \in Conns, Connect(c) \/ Subscribed(c) \/ SubscribeFails(c)
      PROVE  UNCHANGED crashes /\ Ghosts' \subseteq Ghosts /\ (Fault \/ UNCHANGED faults)
  <2>1. \E s \in States : pc' = [pc EXCEPT ![c] = s]
    BY <1>1 DEF Connect, Subscribed, SubscribeFails, Moves, States
  <2>2. ~ Connected(c) /\ UNCHANGED <<registry, crashes>> /\ (Fault \/ UNCHANGED faults)
    BY <1>1 DEF Connect, Subscribed, SubscribeFails, Moves, Connected
  <2>3. QED BY <1>t, <2>1, <2>2, GhostMove
<1>2. ASSUME NEW c \in Conns, StoreDevice(c) \/ StoreFails(c) \/ Acknowledge(c) \/ Leave(c)
             \/ TopicSubscribed(c) \/ TopicSubscribeFails(c) \/ \E t \in Topics : TopicSubscribe(c, t)
      PROVE  UNCHANGED crashes /\ Ghosts' \subseteq Ghosts /\ (Fault \/ UNCHANGED faults)
  <2>1. \E s \in {"ack", "loop", "adding", "delete"} : pc' = [pc EXCEPT ![c] = s]
    BY <1>2 DEF StoreDevice, StoreFails, Acknowledge, Leave, TopicSubscribed, TopicSubscribeFails,
       TopicSubscribe, Moves
  <2>2. registry' \subseteq registry \union {Device[c]} /\ UNCHANGED crashes
        /\ (Fault \/ UNCHANGED faults)
    BY <1>2 DEF StoreDevice, StoreFails, Acknowledge, Leave, TopicSubscribed, TopicSubscribeFails,
       TopicSubscribe, brokerVars
  <2>3. QED BY <1>t, <2>1, <2>2, GhostMove
<1>3. ASSUME NEW c \in Conns, LeaveWithoutDevice(c) \/ DeleteDevice(c)
      PROVE  UNCHANGED crashes /\ Ghosts' \subseteq Ghosts /\ (Fault \/ UNCHANGED faults)
  <2>1. pc' = [pc EXCEPT ![c] = "closed"] /\ registry' \subseteq registry
        /\ UNCHANGED <<faults, crashes>>
    BY <1>3 DEF LeaveWithoutDevice, DeleteDevice, Moves
  <2>2. Device[c] \notin registry'
    BY <1>t, <1>3 DEF LeaveWithoutDevice, DeleteDevice, HasDevice, Devices
  <2>3. QED BY <1>t, <2>1, <2>2, GhostMove
<1>4. ASSUME NEW c \in Conns, Cancelled(c) \/ AckFails(c) \/ DeleteFails(c)
      PROVE  UNCHANGED crashes /\ Ghosts' \subseteq Ghosts \union {Device[c]} /\ Fault
  <2>1. \E s \in {"dropped", "closed"} : pc' = [pc EXCEPT ![c] = s]
    BY <1>4 DEF Cancelled, AckFails, DeleteFails, Moves
  <2>2. registry' \subseteq registry \union {Device[c]} /\ UNCHANGED crashes /\ Fault
    BY <1>4 DEF Cancelled, AckFails, DeleteFails
  <2>3. QED BY <1>t, <2>1, <2>2, GhostMove
<1>6. ASSUME NEW c \in Conns, HandleEvent(c) \/ \E t \in Topics : TopicUnsubscribe(c, t)
      PROVE  UNCHANGED <<pc, registry, crashes>> /\ (Fault \/ UNCHANGED faults)
  BY <1>6 DEF HandleEvent, TopicUnsubscribe, brokerVars, handlerVars
<1>8. ASSUME NEW l \in Listeners, Listener(l) \/ ListenerBreaks(l)
      PROVE  UNCHANGED <<pc, registry, crashes>> /\ (Fault \/ UNCHANGED faults)
  BY <1>8 DEF Listener, ListenerBreaks, ListenerStep, Forward, ForwardFails, Stop, StreamEnds,
     handlerVars
<1>9. ASSUME NEW ch \in Channels, Publish(ch)
      PROVE  UNCHANGED <<pc, registry, crashes>> /\ (Fault \/ UNCHANGED faults)
  BY <1>9 DEF Publish, publish, handlerVars
<1>10. CASE UNCHANGED vars
  BY <1>u, <1>10 DEF vars, brokerVars, handlerVars
<1>11. QED
  BY <1>k, <1>s, <1>g, <1>u, <1>1, <1>2, <1>3, <1>4, <1>6, <1>8, <1>9, <1>10
  DEF Next, Client, Handler, HandlerFault

\* A device without a connection is the trace of a failure, one each, or of a crash,
\* however many connections share it.
THEOREM OnlyFailuresLeaveGhosts == Spec => []GhostsAreFailures
<1>1. Init => GhostInv
  <2>1. Init => Ghosts = {} /\ faults = 0 BY DEF Init, BrokerInit, Ghosts
  <2>2. QED BY <2>1, FS_EmptySet DEF GhostInv
<1>2. Typed /\ GhostInv /\ [Next]_vars => GhostInv' BY GhostStep
<1>3. GhostInv => GhostsAreFailures BY DEF GhostInv, GhostsAreFailures
<1>4. QED BY <1>1, <1>2, <1>3, AlwaysTyped, PTL DEF Spec

\* What a connection that moves can do to itself: the others lose their entry only to
\* one that leaves, and then have a cause.
LEMMA UnlistedMove ==
    ASSUME pc \in [Conns -> States], NEW c \in Conns, NEW s, pc' = [pc EXCEPT ![c] = s],
           pc[c] # "closed",
           \/ registry \subseteq registry'
           \/ s = "closed" /\ registry \ {Device[c]} \subseteq registry'
    PROVE  /\ Unlisted' \subseteq Unlisted \union {c}
           /\ (s \in {"ack", "loop", "adding", "delete"} /\ HasDevice(c) =>
                  Counted(c) \/ Device[c] \in registry')
              => Unlisted' \subseteq Unlisted
<1>1. ASSUME NEW e \in Unlisted', e # c PROVE e \in Unlisted
  <2>1. /\ e \in Conns /\ HasDevice(e) /\ pc'[e] = pc[e] /\ Device[e] \notin registry'
        /\ Counted(e) /\ \A d \in Conns \ {e} : Device[d] = Device[e] => pc'[d] # "closed"
    BY <1>1 DEF Unlisted, Counted
  <2>2. Device[e] \notin registry
    <3>1. s = "closed" => Device[e] # Device[c] BY <1>1, <2>1
    <3>2. QED BY <2>1, <3>1
  <2>3. \A d \in Conns \ {e} : Device[d] = Device[e] => pc[d] # "closed" BY <2>1
  <2>4. QED BY <2>1, <2>2, <2>3 DEF Unlisted
<1>2. ASSUME c \in Unlisted', Counted(c) \/ Device[c] \in registry' PROVE c \in Unlisted
  <2>1. /\ HasDevice(c) /\ Device[c] \notin registry' /\ s # "closed" /\ Counted(c)
        /\ \A d \in Conns \ {c} : Device[d] = Device[c] => pc'[d] # "closed"
    BY <1>2 DEF Unlisted, Counted
  <2>2. Device[c] \notin registry BY <2>1
  <2>3. \A d \in Conns \ {c} : Device[d] = Device[c] => pc[d] # "closed" BY <2>1
  <2>4. QED BY <2>1, <2>2, <2>3 DEF Unlisted
<1>3. c \in Unlisted' => s \in {"ack", "loop", "adding", "delete"} /\ HasDevice(c)
  BY DEF Unlisted, Counted
<1>4. QED BY <1>1, <1>2, <1>3

UnlistedInv == IsFiniteSet(Unlisted) /\ Cardinality(Unlisted) <= faults

LEMMA UnlistedStep ==
    ASSUME Typed, UnlistedInv, [Next]_vars
    PROVE  UnlistedInv'
<1>t. pc \in [Conns -> States] /\ registry \subseteq Devices /\ DeviceInv /\ faults \in Nat
  BY Bounds DEF Typed, HandlerTyped
<1>s. CASE Unlisted' \subseteq Unlisted /\ (Fault \/ UNCHANGED faults)
  <2>1. IsFiniteSet(Unlisted') /\ Cardinality(Unlisted') <= Cardinality(Unlisted)
        /\ Cardinality(Unlisted') \in Nat /\ Cardinality(Unlisted) \in Nat
    BY <1>s, FS_Subset, FS_CardinalityType DEF UnlistedInv
  <2>2. faults' >= faults /\ faults' \in Nat BY <1>t, <1>s DEF Fault
  <2>3. QED BY <1>t, <2>1, <2>2 DEF UnlistedInv
<1>g. ASSUME NEW c, Unlisted' \subseteq Unlisted \union {c}, Fault PROVE UnlistedInv'
  <2>1. CASE Unlisted' \subseteq Unlisted
    BY <1>s, <1>g, <2>1
  <2>2. CASE ~ (Unlisted' \subseteq Unlisted)
    <3>1. c \notin Unlisted BY <1>g, <2>2
    <3>2. IsFiniteSet(Unlisted \union {c})
          /\ Cardinality(Unlisted \union {c}) = Cardinality(Unlisted) + 1
          /\ Cardinality(Unlisted) \in Nat
      BY <3>1, OneMore DEF UnlistedInv
    <3>3. IsFiniteSet(Unlisted') /\ Cardinality(Unlisted') <= Cardinality(Unlisted \union {c})
          /\ Cardinality(Unlisted') \in Nat
      BY <1>g, <3>2, FS_Subset, FS_CardinalityType
    <3>4. faults' = faults + 1 BY <1>t, <1>g DEF Fault
    <3>5. QED BY <1>t, <3>2, <3>3, <3>4 DEF UnlistedInv
  <2>3. QED BY <2>1, <2>2
<1>u. CASE UNCHANGED <<pc, registry>> /\ (Fault \/ UNCHANGED faults)
  <2>1. Unlisted' = Unlisted BY <1>u DEF Unlisted, Counted
  <2>2. QED BY <1>s, <1>u, <2>1
<1>1. ASSUME NEW c \in Conns, Connect(c) \/ Subscribed(c) \/ StoreDevice(c) \/ Acknowledge(c)
             \/ TopicSubscribed(c) \/ Leave(c) \/ LeaveWithoutDevice(c)
             \/ \E t \in Topics : TopicSubscribe(c, t)
      PROVE  Unlisted' \subseteq Unlisted /\ UNCHANGED faults
  <2>1. \E s : /\ pc' = [pc EXCEPT ![c] = s]
               /\ s \in {"ack", "loop", "adding", "delete"} /\ HasDevice(c) =>
                    Counted(c) \/ Device[c] \in registry'
    BY <1>1 DEF Connect, Subscribed, StoreDevice, Acknowledge, TopicSubscribed, Leave,
       LeaveWithoutDevice, TopicSubscribe, Moves, Counted
  <2>2. registry \subseteq registry' /\ UNCHANGED faults /\ pc[c] # "closed"
    BY <1>1 DEF Connect, Subscribed, StoreDevice, Acknowledge, TopicSubscribed, Leave,
       LeaveWithoutDevice, TopicSubscribe, Moves, brokerVars
  <2>3. QED BY <1>t, <2>1, <2>2, UnlistedMove
<1>2. ASSUME NEW c \in Conns, DeleteDevice(c)
      PROVE  Unlisted' \subseteq Unlisted /\ UNCHANGED faults
  <2>1. pc[c] = "delete" /\ pc' = [pc EXCEPT ![c] = "closed"]
        /\ registry' = registry \ {Device[c]} /\ UNCHANGED faults
    BY <1>2 DEF DeleteDevice, Moves
  <2>2. /\ ~ ("closed" \in {"ack", "loop", "adding", "delete"})
        /\ registry \ {Device[c]} \subseteq registry' /\ pc[c] # "closed"
    BY <2>1
  <2>3. Unlisted' \subseteq Unlisted BY <1>t, <2>1, <2>2, UnlistedMove
  <2>4. QED BY <2>1, <2>3
<1>3. ASSUME NEW c \in Conns, HandlerFault(c)
      PROVE  Unlisted' \subseteq Unlisted \union {c} /\ Fault
  <2>1. \/ /\ \E s \in {"dropped", "ack", "loop"} : pc' = [pc EXCEPT ![c] = s]
           /\ registry \subseteq registry'
        \/ /\ pc' = [pc EXCEPT ![c] = "closed"]
           /\ registry \ {Device[c]} \subseteq registry'
    BY <1>3 DEF HandlerFault, SubscribeFails, StoreFails, Cancelled, AckFails,
       TopicSubscribeFails, DeleteFails, Moves
  <2>2. Fault /\ pc[c] # "closed"
    BY <1>3 DEF HandlerFault, SubscribeFails, StoreFails, Cancelled, AckFails,
       TopicSubscribeFails, DeleteFails, Moves
  <2>3. QED BY <1>t, <2>1, <2>2, UnlistedMove
<1>4. ASSUME NEW c \in Conns, HandleEvent(c) \/ \E t \in Topics : TopicUnsubscribe(c, t)
      PROVE  UNCHANGED <<pc, registry, faults>>
  BY <1>4 DEF HandleEvent, TopicUnsubscribe, brokerVars, handlerVars
<1>5. ASSUME NEW l \in Listeners, Listener(l) \/ ListenerBreaks(l)
      PROVE  UNCHANGED <<pc, registry>> /\ (Fault \/ UNCHANGED faults)
  BY <1>5 DEF Listener, ListenerBreaks, ListenerStep, Forward, ForwardFails, Stop,
     StreamEnds, handlerVars
<1>6. ASSUME NEW ch \in Channels, Publish(ch) PROVE UNCHANGED <<pc, registry, faults>>
  BY <1>6 DEF Publish, publish, handlerVars
<1>7. ASSUME Crash PROVE Unlisted' \subseteq Unlisted /\ UNCHANGED faults
  BY <1>t, <1>7 DEF Crash, Unlisted, Counted
<1>8. CASE UNCHANGED vars
  BY <1>u, <1>8 DEF vars, brokerVars, handlerVars
<1>9. QED
  BY <1>s, <1>g, <1>u, <1>1, <1>2, <1>3, <1>4, <1>5, <1>6, <1>7, <1>8 DEF Next, Client, Handler

\* Finding 2 in full: but for one connection per failed call, only the late delete of
\* another connection with the same device can make GetClientActiveDevices miss one that
\* is connected, whatever crashes.
THEOREM OnlySharedDevicesGoUnlisted == Spec => []UnlistedHasCause
<1>1. Init => UnlistedInv
  <2>1. Init => Unlisted = {} /\ faults = 0 BY DEF Init, BrokerInit, Unlisted, Counted
  <2>2. QED BY <2>1, FS_EmptySet DEF UnlistedInv
<1>2. Typed /\ UnlistedInv /\ [Next]_vars => UnlistedInv' BY UnlistedStep
<1>3. UnlistedInv => UnlistedHasCause BY DEF UnlistedInv, UnlistedHasCause
<1>4. QED BY <1>1, <1>2, <1>3, AlwaysTyped, PTL DEF Spec

-----------------------------------------------------------------------------
(* The order of messages.                                                  *)

\* Until a connection unsubscribes from a topic it gets one listener for it at most.
FirstInv ==
    \A c \in Conns :
        /\ pc[c] = "adding" => pending[c] \notin controls[c]
        /\ \A t \in Topics :
            /\ pc[c] \in {"idle", "connect", "store", "ack"} => started[c][t] = 0
            /\ t \notin removed[c] =>
                /\ started[c][t] <= 1
                /\ pc[c] \in {"loop", "adding"} /\ started[c][t] = 1 => t \in controls[c]

LEMMA FirstStep ==
    ASSUME Typed, FirstInv, [Next]_vars
    PROVE  FirstInv'
<1>t. /\ pc \in [Conns -> States] /\ pending \in [Conns -> Topics]
      /\ started \in [Conns -> [Topics -> Nat]] /\ controls \in [Conns -> SUBSET Topics]
      /\ removed \in [Conns -> SUBSET Topics]
  BY Bounds DEF Typed, HandlerTyped, SetsTyped
<1> USE DEF FirstInv
\* A step that leaves the topics alone and leads nowhere near the loop.
<1>m. ASSUME NEW c \in Conns, NEW s \in States, pc' = [pc EXCEPT ![c] = s],
             UNCHANGED <<started, controls, pending, removed>>,
             \/ s \in {"dropped", "closed", "delete"}
             \/ s \in {"connect", "store", "ack"} /\ pc[c] \in {"idle", "connect", "store", "ack"}
             \/ s = "loop" /\ pc[c] \in {"ack", "adding"}
      PROVE  FirstInv'
  BY <1>t, <1>m
<1>s. CASE UNCHANGED <<pc, started, controls, pending, removed>>
  BY <1>s
<1>1. ASSUME NEW c \in Conns, Connect(c) \/ Subscribed(c) \/ StoreDevice(c) \/ StoreFails(c)
             \/ Acknowledge(c) \/ TopicSubscribeFails(c) \/ Leave(c)
      PROVE  FirstInv'
  BY <1>m, <1>1 DEF Connect, Subscribed, StoreDevice, StoreFails, Acknowledge,
     TopicSubscribeFails, Leave, Moves, insert_entry, spawn_base, brokerVars, memoryVars,
     historyVars, States
<1>2. ASSUME NEW c \in Conns, Abandons(c) PROVE FirstInv'
  BY <1>m, <1>2, AbandonsEffect DEF abandon, historyVars, States
<1>3. ASSUME NEW c \in Conns, TopicSubscribed(c) PROVE FirstInv'
  <2> DEFINE t == pending[c]
  <2>1. /\ started' = [started EXCEPT ![c][t] = @ + 1]
        /\ controls' = [controls EXCEPT ![c] = @ \union {t}]
        /\ pc[c] = "adding" /\ pc' = [pc EXCEPT ![c] = "loop"]
        /\ UNCHANGED <<pending, removed>>
    BY <1>3 DEF TopicSubscribed, add_subscription, Moves, historyVars
  <2>2. t \in Topics /\ t \notin controls[c] BY <1>t, <2>1
  <2>3. /\ started'[c][t] = started[c][t] + 1
        /\ \A d \in Conns, x \in Topics : d # c \/ x # t => started'[d][x] = started[d][x]
    BY <1>t, <2>1, <2>2
  <2>4. t \notin removed[c] => started[c][t] = 0
    <3>1. t \notin removed[c] =>
            started[c][t] <= 1 /\ (pc[c] \in {"loop", "adding"} /\ started[c][t] = 1 => t \in controls[c])
      BY <2>2
    <3>2. started[c][t] \in Nat BY <1>t, <2>2
    <3>3. QED BY <2>1, <2>2, <3>1, <3>2
  <2>5. controls'[c] = controls[c] \union {t} /\ \A d \in Conns : d # c => controls'[d] = controls[d]
    BY <1>t, <2>1
  <2>6. pc'[c] = "loop" /\ \A d \in Conns : d # c => pc'[d] = pc[d] BY <1>t, <2>1
  <2>7. ASSUME NEW d \in Conns, NEW x \in Topics
        PROVE  /\ pc'[d] \in {"idle", "connect", "store", "ack"} => started'[d][x] = 0
               /\ x \notin removed'[d] =>
                   /\ started'[d][x] <= 1
                   /\ pc'[d] \in {"loop", "adding"} /\ started'[d][x] = 1 => x \in controls'[d]
    <3>1. CASE d = c /\ x = t BY <2>1, <2>2, <2>3, <2>4, <2>5, <2>6, <3>1
    <3>2. CASE d = c /\ x # t BY <1>t, <2>1, <2>3, <2>5, <2>6, <3>2
    <3>3. CASE d # c BY <1>t, <2>1, <2>3, <2>5, <2>6, <3>3
    <3>4. QED BY <3>1, <3>2, <3>3
  <2>8. \A d \in Conns : pc'[d] = "adding" => pending'[d] \notin controls'[d]
    BY <2>1, <2>5, <2>6
  <2>9. QED BY <2>7, <2>8
<1>4. ASSUME NEW c \in Conns, NEW t \in Topics, TopicUnsubscribe(c, t) PROVE FirstInv'
  <2>1. /\ controls' = [controls EXCEPT ![c] = @ \ {t}]
        /\ removed' = [removed EXCEPT ![c] = @ \union {t}]
        /\ UNCHANGED <<started, pc, pending>>
    BY <1>4 DEF TopicUnsubscribe, remove_subscription, handlerVars
  <2>2. QED BY <1>t, <2>1
<1>5. ASSUME NEW c \in Conns, Closes(c) PROVE FirstInv'
  <2>1. /\ controls' = [controls EXCEPT ![c] = {}] /\ pc' = [pc EXCEPT ![c] = "closed"]
        /\ UNCHANGED <<started, pending, removed>>
    BY <1>5, ClosesEffect DEF unsubscribe
  <2>2. QED BY <1>t, <2>1
<1>6. ASSUME NEW c \in Conns, NEW t \in Topics, TopicSubscribe(c, t) PROVE FirstInv'
  <2>1. /\ pc[c] = "loop" /\ pc' = [pc EXCEPT ![c] = "adding"] /\ t \notin controls[c]
        /\ pending' = [pending EXCEPT ![c] = t] /\ UNCHANGED <<started, controls, removed>>
    BY <1>6 DEF TopicSubscribe, Moves, brokerVars, memoryVars, historyVars
  <2>2. QED BY <1>t, <2>1
<1>7. ASSUME NEW c \in Conns, HandleEvent(c) PROVE FirstInv'
  BY <1>s, <1>7 DEF HandleEvent, brokerVars, memoryVars
<1>8. ASSUME NEW l \in Listeners, Forwards(l) \/ Stops(l) PROVE FirstInv'
  BY <1>s, <1>8 DEF Forwards, Stops, Forward, ForwardFails, Stop, StreamEnds, Rest, handlerVars,
     historyVars
<1>9. ASSUME NEW ch \in Channels, Publish(ch) PROVE FirstInv'
  BY <1>s, <1>9 DEF Publish, publish, handlerVars
<1>10. CASE Crash
  <2>1. /\ pc' = [c \in Conns |-> IF pc[c] \in {"idle", "closed"} THEN pc[c] ELSE "dropped"]
        /\ UNCHANGED <<started, pending, removed>>
    BY <1>10 DEF Crash
  <2>2. QED BY <1>t, <2>1
<1>11. CASE UNCHANGED vars
  BY <1>s, <1>11 DEF vars, brokerVars, memoryVars, handlerVars, historyVars
<1>12. QED
  BY <1>1, <1>2, <1>3, <1>4, <1>5, <1>6, <1>7, <1>8, <1>9, <1>10, <1>11, StepCases DEF Quiet

LEMMA OneListener ==
    ASSUME Typed, ControlInv, FirstInv, NEW l \in running, NEW k \in running,
           Owner(k) = Owner(l), NEW ch \in Heard(l) \intersect Heard(k),
           ch \notin removed[Owner(l)]
    PROVE  k = l
<1>t. l \in Listeners /\ k \in Listeners BY DEF Typed, SetsTyped
<1>l. /\ Owner(l) \in Conns /\ l = <<Owner(l), l[2], l[3]>> /\ k = <<Owner(l), k[2], k[3]>>
      /\ l[3] \in 1..MaxSubscribes /\ k[3] \in 1..MaxSubscribes
  BY <1>t, ListenerFacts
<1>1. CASE IsTopic(l) /\ IsTopic(k)
  <2>1. l[2] = ch /\ k[2] = ch /\ ch \in Topics
    BY <1>t, <1>1, ListenerFacts DEF Heard, IsTopic
  <2>2. started[Owner(l)][ch] <= 1 /\ started[Owner(l)][ch] \in Nat
    BY <1>l, <2>1, Bounds DEF FirstInv, Typed, SetsTyped
  <2>3. l[3] <= started[Owner(l)][ch] /\ k[3] <= started[Owner(l)][ch]
    BY <1>1, <2>1 DEF ControlInv, NumberInv
  <2>4. l[3] = 1 /\ k[3] = 1 BY <1>l, <2>2, <2>3, Bounds
  <2>5. QED BY <1>l, <2>1, <2>4
<1>2. CASE ~ IsTopic(l) /\ ~ IsTopic(k)
  <2>1. l[2] = Base /\ k[2] = Base BY <1>2 DEF IsTopic
  <2>2. l[3] = 1 /\ k[3] = 1 BY <1>2 DEF ControlInv, NumberInv
  <2>3. QED BY <1>l, <2>1, <2>2
<1>3. CASE IsTopic(l) /\ ~ IsTopic(k)
  BY <1>t, <1>l, <1>3, ChannelsApart, ListenerFacts DEF Heard, IsTopic
<1>4. CASE ~ IsTopic(l) /\ IsTopic(k)
  BY <1>t, <1>l, <1>4, ChannelsApart, ListenerFacts DEF Heard, IsTopic
<1>5. QED BY <1>1, <1>2, <1>3, <1>4

\* A connection has received nothing that was not published, and of the channels of a
\* listener nothing the listener has not taken, unless it has unsubscribed.
Published == \A c \in Conns : \A i \in DOMAIN received[c] : received[c][i] <= Len(published)
Behind(l, m) == published[m] \in Heard(l) /\ published[m] \notin removed[Owner(l)] => m <= pos[l]
TakenInv ==
    \A l \in running : \A i \in DOMAIN received[Owner(l)] : Behind(l, received[Owner(l)][i])
OrderInv == Published /\ TakenInv /\ InOrder

LEMMA ReceivedTypes ==
    ASSUME Typed, NEW c \in Conns
    PROVE  /\ received[c] \in Seq(1..MaxMessages)
           /\ DOMAIN received[c] = 1..Len(received[c]) /\ Len(received[c]) \in Nat
           /\ \A i \in DOMAIN received[c] : received[c][i] \in Nat /\ received[c][i] >= 1
<1>1. received[c] \in Seq(1..MaxMessages) BY DEF Typed, MessagesTyped
<1>2. QED BY <1>1, Bounds

LEMMA ForwardKeepsOrder ==
    ASSUME Typed, ControlInv, FirstInv, OrderInv, NEW l \in Listeners, Forwards(l)
    PROVE  OrderInv'
<1>t. /\ MessagesTyped /\ running \subseteq Listeners /\ Len(published) \in Nat
      /\ received \in [Conns -> Seq(1..MaxMessages)] /\ pos \in [Listeners -> 0..MaxMessages]
  BY DEF Typed, SetsTyped, MessagesTyped
<1> DEFINE o == Owner(l)
           n == Len(received[o]) + 1
           After(k, m) ==
              published[m] \in Heard(k) /\ published[m] \notin removed[Owner(k)] => m <= pos'[k]
<1>1. PICK i \in Waiting(l) :
        /\ pos' = [pos EXCEPT ![l] = i]
        /\ received' = [received EXCEPT ![o] = Append(@, i)]
        /\ l \in running /\ UNCHANGED <<running, published, removed>>
  BY DEF Forwards, Forward, Rest, historyVars
<1>2. /\ i \in 1..MaxMessages /\ i <= Len(published) /\ i > pos[l] /\ published[i] \in Heard(l)
  BY <1>t, Taken
<1>3. o \in Conns BY ListenerFacts
<1>4. /\ received'[o] = Append(received[o], i)
      /\ \A c \in Conns : c # o => received'[c] = received[c]
  BY <1>t, <1>1, <1>3
<1>5. /\ DOMAIN received[o] = 1..Len(received[o]) /\ Len(received[o]) \in Nat
      /\ DOMAIN received'[o] = 1..n /\ n \in Nat
      /\ received'[o][n] = i
      /\ \A j \in DOMAIN received[o] : received'[o][j] = received[o][j]
  <2>1. received[o] \in Seq(1..MaxMessages) BY <1>t, <1>3
  <2>2. /\ Append(received[o], i) \in Seq(1..MaxMessages)
        /\ Len(Append(received[o], i)) = n
        /\ \A j \in 1..Len(received[o]) : Append(received[o], i)[j] = received[o][j]
        /\ Append(received[o], i)[n] = i
    BY <1>2, <2>1, AppendFacts
  <2>3. QED BY <1>4, <2>1, <2>2
<1> HIDE DEF o, n
<1>6. \A j \in DOMAIN received'[o] : j = n \/ j \in DOMAIN received[o]
  BY <1>5 DEF n
<1>7. pos'[l] = i /\ \A k \in Listeners : k # l => pos'[k] = pos[k]
  BY <1>t, <1>1
<1>8. Published'
  BY <1>1, <1>2, <1>4, <1>5, <1>6 DEF OrderInv, Published
<1>9. \A j \in DOMAIN received[o] : Behind(l, received[o][j])
  BY <1>1 DEF OrderInv, TakenInv, o
<1>10. TakenInv'
  <2>1. SUFFICES ASSUME NEW k \in running, NEW j \in DOMAIN received'[Owner(k)]
                 PROVE  After(k, received'[Owner(k)][j])
    BY <1>1 DEF TakenInv, Behind
  <2>k. k \in Listeners /\ Owner(k) \in Conns BY <1>t, ListenerFacts
  <2>2. CASE Owner(k) # o
    <3>1. k # l /\ pos'[k] = pos[k] /\ received'[Owner(k)] = received[Owner(k)]
      BY <1>4, <1>7, <2>k, <2>2 DEF o
    <3>2. Behind(k, received[Owner(k)][j]) BY <2>1, <3>1 DEF OrderInv, TakenInv
    <3>3. QED BY <3>1, <3>2 DEF Behind
  <2>3. CASE Owner(k) = o /\ j = n
    <3>1. received'[Owner(k)][j] = i BY <1>5, <2>3
    <3>2. CASE k = l BY <1>2, <1>7, <3>1, <3>2
    <3>3. CASE k # l
      <4>1. ~ (published[i] \in Heard(k) /\ published[i] \notin removed[o])
        BY <1>1, <1>2, <2>3, <3>3, OneListener DEF o
      <4>2. QED BY <2>3, <3>1, <4>1
    <3>4. QED BY <3>2, <3>3
  <2>4. CASE Owner(k) = o /\ j # n
    <3>1. j \in DOMAIN received[o] /\ received'[Owner(k)][j] = received[o][j]
      BY <1>5, <1>6, <2>1, <2>4
    <3>2. Behind(k, received[o][j]) BY <2>4, <3>1 DEF OrderInv, TakenInv
    <3>3. CASE k # l BY <1>7, <2>k, <2>4, <3>1, <3>2, <3>3 DEF Behind
    <3>4. CASE k = l
      <4>1. pos[l] \in Nat /\ i \in Nat /\ pos[l] < i /\ received[o][j] \in Nat
        BY <1>t, <1>2, <1>3, <3>1, ReceivedTypes, Bounds
      <4>2. QED BY <1>7, <2>4, <3>1, <3>2, <3>4, <4>1 DEF Behind
    <3>5. QED BY <3>3, <3>4
  <2>5. QED BY <2>2, <2>3, <2>4
<1>11. InOrder'
  <2>1. SUFFICES ASSUME NEW c \in Conns,
                        NEW a \in DOMAIN received'[c], NEW b \in DOMAIN received'[c], a < b,
                        published[received'[c][a]] = published[received'[c][b]],
                        published[received'[c][a]] \notin removed[c]
                 PROVE  received'[c][a] < received'[c][b]
    BY <1>1 DEF InOrder
  <2>2. CASE c # o
    BY <1>4, <2>1, <2>2 DEF OrderInv, InOrder
  <2>3. CASE c = o /\ b # n
    <3>1. a \in 1..Len(received[o]) /\ b \in 1..Len(received[o])
      BY <1>5, <1>6, <2>1, <2>3
    <3>2. received'[c][a] = received[o][a] /\ received'[c][b] = received[o][b]
      BY <1>5, <2>3, <3>1
    <3>3. QED BY <1>3, <1>5, <2>1, <2>3, <3>1, <3>2 DEF OrderInv, InOrder
  <2>4. CASE c = o /\ b = n
    <3>1. received'[c][b] = i BY <1>5, <2>4
    <3>2. a \in DOMAIN received[o] /\ received'[c][a] = received[o][a]
      BY <1>5, <1>6, <2>1, <2>4
    <3>3. published[received[o][a]] \in Heard(l) /\ published[received[o][a]] \notin removed[Owner(l)]
      BY <1>2, <2>1, <2>4, <3>1, <3>2 DEF o
    <3>4. received[o][a] <= pos[l] BY <1>9, <3>2, <3>3 DEF Behind
    <3>5. pos[l] \in Nat /\ i \in Nat /\ received[o][a] \in Nat
      BY <1>t, <1>2, <1>3, <3>2, ReceivedTypes, Bounds
    <3>6. QED BY <1>2, <3>1, <3>2, <3>4, <3>5
  <2>5. QED BY <2>2, <2>3, <2>4
<1>12. QED BY <1>8, <1>10, <1>11 DEF OrderInv

\* A listener that starts has nothing to catch up with.
LEMMA StartKeepsOrder ==
    ASSUME Typed, OrderInv, NEW l \in Listeners,
           running' = running \union {l}, pos' = [pos EXCEPT ![l] = Len(published)],
           UNCHANGED <<published, received, removed>>
    PROVE  OrderInv'
<1>t. running \subseteq Listeners /\ pos \in [Listeners -> 0..MaxMessages]
      /\ \A k \in Listeners : Owner(k) \in Conns
  BY ListenerFacts DEF Typed, SetsTyped, MessagesTyped
<1>1. pos'[l] = Len(published) /\ \A k \in Listeners : k # l => pos'[k] = pos[k]
  BY <1>t
<1>2. ASSUME NEW k \in running', NEW i \in DOMAIN received[Owner(k)]
      PROVE  Behind(k, received[Owner(k)][i])'
  <2>1. CASE k = l BY <1>t, <1>1, <1>2, <2>1 DEF Behind, OrderInv, Published
  <2>2. CASE k # l BY <1>t, <1>1, <1>2, <2>2 DEF Behind, OrderInv, TakenInv
  <2>3. QED BY <2>1, <2>2
<1>3. QED BY <1>2 DEF OrderInv, Published, TakenInv, InOrder

LEMMA PublishKeepsOrder ==
    ASSUME Typed, OrderInv, NEW ch \in Channels, Publish(ch)
    PROVE  OrderInv'
<1>1. published' = Append(published, ch) /\ UNCHANGED <<received, pos, running, removed>>
  BY DEF Publish, publish
<1>2. published \in Seq(Channels) /\ received \in [Conns -> Seq(1..MaxMessages)]
      /\ running \subseteq Listeners
  BY DEF Typed, SetsTyped, MessagesTyped
<1>3. Len(published) \in Nat /\ Len(published') = Len(published) + 1
      /\ \A i \in 1..Len(published) : published'[i] = published[i]
  BY <1>1, <1>2, AppendFacts
<1>4. \A c \in Conns : \A i \in DOMAIN received[c] :
        received[c][i] \in 1..Len(published) /\ received[c][i] <= Len(published')
  BY <1>3, ReceivedTypes DEF OrderInv, Published
<1>5. \A c \in Conns : \A i \in DOMAIN received[c] :
        published'[received[c][i]] = published[received[c][i]]
  BY <1>3, <1>4
<1>6. Published' BY <1>1, <1>4 DEF Published
<1>7. \A l \in running : Owner(l) \in Conns BY <1>2, ListenerFacts
<1>8. TakenInv' BY <1>1, <1>5, <1>7 DEF OrderInv, TakenInv, Behind
<1>9. InOrder'
  <2>1. SUFFICES ASSUME NEW c \in Conns,
                        NEW a \in DOMAIN received[c], NEW b \in DOMAIN received[c], a < b,
                        published'[received[c][a]] = published'[received[c][b]],
                        published'[received[c][a]] \notin removed[c]
                 PROVE  received[c][a] < received[c][b]
    BY <1>1 DEF InOrder
  <2>2. QED BY <1>5, <2>1 DEF OrderInv, InOrder
<1>10. QED BY <1>6, <1>8, <1>9 DEF OrderInv

LEMMA OrderStep ==
    ASSUME Typed, ControlInv, FirstInv, OrderInv, [Next]_vars
    PROVE  OrderInv'
<1>t. running \subseteq Listeners /\ pos \in [Listeners -> 0..MaxMessages]
      /\ removed \in [Conns -> SUBSET Topics]
  BY DEF Typed, HandlerTyped, SetsTyped, MessagesTyped
<1> USE DEF OrderInv, Published, TakenInv, Behind, InOrder
<1>s. CASE UNCHANGED <<running, pos, published, received, removed>>
  BY <1>s
<1>1. ASSUME NEW c \in Conns, Subscribed(c) PROVE OrderInv'
  BY <1>1, BaseListener, StartKeepsOrder DEF Subscribed, spawn_base, historyVars
<1>2. ASSUME NEW c \in Conns, TopicSubscribed(c) PROVE OrderInv'
  <2>1. Newcomer(c) \in Listeners BY <1>2, NewcomerFacts DEF TopicSubscribed, Moves
  <2>2. /\ running' = running \union {Newcomer(c)}
        /\ pos' = [pos EXCEPT ![Newcomer(c)] = Len(published)]
        /\ UNCHANGED <<published, received, removed>>
    BY <1>2 DEF TopicSubscribed, add_subscription, Newcomer, historyVars
  <2>3. QED BY <2>1, <2>2, StartKeepsOrder
<1>3. ASSUME NEW c \in Conns, NEW t \in Topics, TopicUnsubscribe(c, t) PROVE OrderInv'
  <2>1. removed' = [removed EXCEPT ![c] = @ \union {t}]
        /\ UNCHANGED <<running, pos, published, received>>
    BY <1>3 DEF TopicUnsubscribe, remove_subscription
  <2>2. \A d \in Conns : removed[d] \subseteq removed'[d] BY <1>t, <2>1
  <2>3. \A l \in running : Owner(l) \in Conns BY <1>t, ListenerFacts
  <2>4. QED BY <2>1, <2>2, <2>3
<1>4. ASSUME NEW l \in Listeners, Stops(l) PROVE OrderInv'
  <2>1. running' = running \ {l} /\ pos' = [pos EXCEPT ![l] = 0]
        /\ UNCHANGED <<published, received, removed>>
    BY <1>4 DEF Stops, ForwardFails, Stop, StreamEnds, Ends, Rest, historyVars
  <2>2. \A k \in running' : k \in running /\ pos'[k] = pos[k] BY <1>t, <2>1
  <2>3. QED BY <2>1, <2>2
<1>5. CASE Crash
  BY <1>5 DEF Crash
<1>6. ASSUME NEW c \in Conns, Connect(c) \/ Abandons(c) \/ Closes(c) \/ Quiet(c)
      PROVE  OrderInv'
  BY <1>s, <1>6, AbandonsEffect, ClosesEffect, QuietEffect DEF Connect, insert_entry, abandon,
     unsubscribe, memoryVars, historyVars
<1>7. CASE UNCHANGED vars
  BY <1>s, <1>7 DEF vars, brokerVars, memoryVars, historyVars
<1>8. QED
  BY <1>1, <1>2, <1>3, <1>4, <1>5, <1>6, <1>7, ForwardKeepsOrder, PublishKeepsOrder, StepCases

\* Until a connection unsubscribes from a topic its messages come in the order they
\* were published and none twice, however listeners break, stop late or start again.
THEOREM MessagesKeepOrder == Spec => []InOrder
<1>1. Init => FirstInv /\ OrderInv
  BY DEF Init, BrokerInit, FirstInv, OrderInv, Published, TakenInv, InOrder
<1>2. Typed /\ ControlInv /\ FirstInv /\ OrderInv /\ [Next]_vars => FirstInv' /\ OrderInv'
  BY FirstStep, OrderStep
<1>3. FirstInv /\ OrderInv => InOrder BY DEF OrderInv
<1>4. QED BY <1>1, <1>2, <1>3, AlwaysTyped, AlwaysControlled, PTL DEF Spec

=============================================================================
