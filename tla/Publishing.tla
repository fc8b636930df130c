------------------------------- MODULE Publishing -------------------------------
(***************************************************************************)
(* The way of an event from a backend to connected clients in approach-2:  *)
(* the publisher calls of grpc_handler.rs, the publish operations of       *)
(* push/service.rs, and the channels that connections listen to.  Calls    *)
(* run concurrently, an action is one await; a backend may repeat a call   *)
(* that failed.  Device support is enabled.                                *)
(***************************************************************************)
EXTENDS Auth, FiniteSets

CONSTANTS
    Clients,        \* requests to connect: [key, token, header, device]
    Calls,          \* publisher calls
    From,           \* per call: the request it comes with
    Targets,        \* per call: where its events go, one for each
    Topics,         \* topics clients may subscribe to
    MaxAttempts,    \* bound: per call, times a backend makes it
    MaxFaults,      \* bound: failing publishes
    MaxTime         \* bound: clock, which does not reach Width

IsRequest(r) ==
    /\ r.token.bearer \in Bearers /\ Timed(r.token)
    /\ {r.token.tenant, r.token.client, r.header} \subseteq Names \union {Missing}
TargetSet ==
    [to : {"client", "device", "topic"}, client : Names, device : Names, topic : Names]

ASSUME PublishingAssumption ==
    /\ \A k \in Clients : IsRequest(k) /\ k.device \in Names \union {Missing}
    /\ \A c \in Calls : IsRequest(From[c]) /\ Targets[c] \in Seq(TargetSet)
    /\ Topics \subseteq Names
    /\ MaxAttempts \in [Calls -> Nat] /\ MaxFaults \in Nat /\ MaxTime \in 0..(Width - 1)

VARIABLES
    mode,           \* the configuration the server has loaded
    now,            \* the clock
    identity,       \* per client: the AuthContext of its connection
    joined,         \* topics a connection has subscribed to
    state,          \* of a call: idle, publishing, done, failed, refused
    tenant,         \* the tenant a call publishes for
    next,           \* the target a call publishes to next
    attempts,       \* times a call was made
    copies,         \* history: per call and target, how often Redis has carried it out
    reached,        \* history: [client, tenant, call, target] of the deliveries
    meant,          \* history: those whom the backend addressed
    admitted,       \* history: [token, at] of the requests a token let in
    faults          \* faults so far

connVars == <<identity, joined>>
callVars == <<state, tenant, next, attempts>>
sentVars == <<copies, reached, meant>>
vars == <<mode, now, connVars, callVars, sentVars, admitted, faults>>

Init ==
    /\ mode \in Modes
    /\ now \in 0..MaxTime
    /\ identity = [k \in Clients |-> Refused]
    /\ joined = [k \in Clients |-> {}]
    /\ state = [c \in Calls |-> "idle"]
    /\ tenant = [c \in Calls |-> Missing]
    /\ next = [c \in Calls |-> 1]
    /\ attempts = [c \in Calls |-> 0]
    /\ copies = [c \in Calls |-> [i \in DOMAIN Targets[c] |-> 0]]
    /\ reached = {} /\ meant = {} /\ admitted = {}
    /\ faults = 0

Connected(k) == identity[k] # Refused

Admit(request) ==
    admitted' = IF FromToken(mode, request)
                THEN admitted \union {[token |-> request.token, at |-> now]} ELSE admitted

-----------------------------------------------------------------------------
(* Connections: ws_connect and channel, with the checks of subscribe_client. *)

Connect(k) ==
    /\ ~ Connected(k)
    /\ identity' = [identity EXCEPT ![k] = Authenticate(mode, k, now)]
    /\ identity'[k] # Refused
    /\ NoId \notin {identity'[k].tenant, identity'[k].client}
    /\ Admit(k)
    /\ UNCHANGED <<mode, now, joined, callVars, sentVars, faults>>

Subscribe(k, t) ==
    /\ Connected(k)
    /\ joined' = [joined EXCEPT ![k] = @ \union {t}]
    /\ UNCHANGED <<mode, now, identity, callVars, sentVars, admitted, faults>>

\* The channels subscribe_client and topic_subscribe subscribe to.
Hears(k) ==
    LET t == identity[k].tenant
        c == identity[k].client
    IN  {client_channel(t, c)}
        \union (IF k.device = Missing THEN {} ELSE {device_channel(t, c, k.device)})
        \union {topic_channel(t, x) : x \in joined[k]}

-----------------------------------------------------------------------------
(* Publisher calls.                                                        *)

Channel(t, target) ==
    CASE target.to = "client" -> client_channel(t, target.client)
      [] target.to = "device" -> device_channel(t, target.client, target.device)
      [] target.to = "topic"  -> topic_channel(t, target.topic)

\* The tenant of a call to a device is not looked at.  An empty event is refused the
\* same way and is left out (service.rs:120, 144, 166).
Valid(t, target) ==
    CASE target.to = "client" -> NoId \notin {t, target.client}
      [] target.to = "device" -> NoId \notin {target.client, target.device}
      [] target.to = "topic"  -> NoId \notin {t, target.topic}

\* The client or topic a backend names, whatever the channel is called.
Meant(t, target) ==
    {k \in Clients :
        /\ Connected(k) /\ identity[k].tenant = t
        /\ target.to = "topic" => target.topic \in joined[k]
        /\ target.to # "topic" => identity[k].client = target.client
        /\ target.to = "device" => k.device = target.device}

\* authorize_publisher; a backend may repeat a call that failed.
Start(c) ==
    /\ state[c] \in {"idle", "failed"}
    /\ attempts[c] < MaxAttempts[c]
    /\ LET context == Authenticate(mode, From[c], now)
       IN  /\ MayPublish(mode, From[c]) /\ context # Refused
           /\ tenant' = [tenant EXCEPT ![c] = context.tenant]
    /\ state' = [state EXCEPT ![c] = IF Targets[c] = <<>> THEN "done" ELSE "publishing"]
    /\ next' = [next EXCEPT ![c] = 1]
    /\ attempts' = [attempts EXCEPT ![c] = @ + 1]
    /\ Admit(From[c])
    /\ UNCHANGED <<mode, now, connVars, sentVars, faults>>

StartRefused(c) ==
    /\ state[c] \in {"idle", "failed"}
    /\ ~ MayPublish(mode, From[c]) \/ Authenticate(mode, From[c], now) = Refused
    /\ state' = [state EXCEPT ![c] = "refused"]
    /\ UNCHANGED <<mode, now, connVars, tenant, next, attempts, sentVars, admitted, faults>>

Target(c) == Targets[c][next[c]]

Deliveries(c, receivers) ==
    {[client |-> k, tenant |-> tenant[c], call |-> c, target |-> next[c]] : k \in receivers}

\* PUBLISH, carried out by Redis.
Deliver(c) ==
    LET i == next[c]
        ch == Channel(tenant[c], Target(c))
    IN  /\ copies' = [copies EXCEPT ![c][i] = @ + 1]
        /\ reached' = reached \union Deliveries(c, {k \in Clients : Connected(k) /\ ch \in Hears(k)})
        /\ meant' = meant \union Deliveries(c, Meant(tenant[c], Target(c)))

\* Mutant of Advance: the last target is forgotten.
OneShort(c) ==
    /\ next' = [next EXCEPT ![c] = @ + 1]
    /\ state' = [state EXCEPT ![c] = IF next[c] + 1 >= Len(Targets[c]) THEN "done" ELSE @]

Advance(c) ==
    /\ next' = [next EXCEPT ![c] = @ + 1]
    /\ state' = [state EXCEPT ![c] = IF next[c] = Len(Targets[c]) THEN "done" ELSE @]

PublishNext(c) ==
    /\ state[c] = "publishing"
    /\ Valid(tenant[c], Target(c))
    /\ Deliver(c)
    /\ Advance(c)
    /\ UNCHANGED <<mode, now, connVars, tenant, attempts, admitted, faults>>

\* An empty id is found out when its turn comes, behind what is already published.
PublishInvalid(c) ==
    /\ state[c] = "publishing"
    /\ ~ Valid(tenant[c], Target(c))
    /\ state' = [state EXCEPT ![c] = "failed"]
    /\ UNCHANGED <<mode, now, connVars, tenant, next, attempts, sentVars, admitted, faults>>

\* The ? of a failed PUBLISH, carried out or not, ends the call.
PublishFails(c) ==
    /\ state[c] = "publishing"
    /\ Valid(tenant[c], Target(c))
    /\ faults < MaxFaults
    /\ faults' = faults + 1
    /\ Deliver(c) \/ UNCHANGED sentVars
    /\ state' = [state EXCEPT ![c] = "failed"]
    /\ UNCHANGED <<mode, now, connVars, tenant, next, attempts, admitted>>

TimePasses ==
    /\ now < MaxTime
    /\ now' = now + 1
    /\ UNCHANGED <<mode, connVars, callVars, sentVars, admitted, faults>>

Next ==
    \/ \E k \in Clients : Connect(k) \/ \E t \in Topics : Subscribe(k, t)
    \/ \E c \in Calls :
        Start(c) \/ StartRefused(c) \/ PublishNext(c) \/ PublishInvalid(c) \/ PublishFails(c)
    \/ TimePasses

Spec == Init /\ [][Next]_vars

-----------------------------------------------------------------------------
(* Properties.                                                             *)

\* publish_to_topics stops at the first topic that fails, so what Redis carried out
\* is a prefix of the call, once per attempt; a call that was answered with success
\* reached the end of it.  Calls of other backends in between change nothing.
CallsPublishPrefixes ==
    \A c \in Calls : \A i \in DOMAIN Targets[c] :
        /\ copies[c][i] <= attempts[c]
        /\ \A j \in 1..i : copies[c][j] >= copies[c][i]
        /\ state[c] = "done" => copies[c][i] >= 1

\* The longer of two ids is the shorter one, a colon and one of the words, and maybe more.
Continues(long, short, words) ==
    /\ Len(short) < Len(long)
    /\ \A i \in 1..Len(short) : long[i] = short[i]
    /\ long[Len(short) + 1] \in words

\* Two ids that a channel name cannot tell apart from an id and what stands behind it.
Overlap(a, b, words) == Continues(a, b, words) \/ Continues(b, a, words)

\* A connection with this identity and an event of tenant t, if their channels may have
\* the same name though they are not for the same client or topic.
Confusable(context, t, target) ==
    \/ Overlap(context.tenant, t, {"client", "topic"})
    \/ /\ context.tenant = t /\ target.to # "topic"
       /\ Overlap(context.client, target.client, {"device"})

\* The names of the channels lead an event to every connection it was meant for: those
\* of the client, of its device, or of the subscribers of the topic, of the tenant the
\* backend publishes for.  It goes astray only where an id of a tenant continues that of
\* another with :client or :topic, or, within a tenant, one of a client another with
\* :device.  Other colons do no harm, be they in tenants, clients, devices or topics.
ReachesAddressee ==
    /\ meant \subseteq reached
    /\ \A d \in reached \ meant :
          Confusable(identity[d.client], d.tenant, Targets[d.call][d.target])

\* A token lets in only between nbf and exp, give or take the leeway, also where the
\* sums wrap: at the top of the range a token is refused too early, never too late.
AdmittedInWindow ==
    \A a \in admitted :
        /\ a.token.exp # Absent /\ a.at <= a.token.exp + Leeway
        /\ a.token.nbf <= a.at + Leeway
=============================================================================
