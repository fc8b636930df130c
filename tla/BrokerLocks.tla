------------------------------ MODULE BrokerLocks ------------------------------
(***************************************************************************)
(* The locks of RedisPubSub::subscriptions in approach-2/src/broker and    *)
(* the worker threads of tokio.  A DashMap has a read-write lock for each  *)
(* shard and a call that must wait for it blocks its thread, while an      *)
(* await gives the thread back.  A waiting writer does not keep readers    *)
(* out.  What is stored in the map is the business of Broker.              *)
(***************************************************************************)
EXTENDS Integers, FiniteSets

CONSTANTS
    Conns,          \* connections, each with its task and its subscription
    Shards,         \* of the map
    Threads,        \* worker threads of the runtime
    MaxRequests     \* bound: topic requests of a connection

VARIABLES
    shard,          \* per connection: where the id of its subscription hashes to
    pc,             \* what its task is at
    requests        \* topic requests made

vars == <<shard, pc, requests>>

\* insert, remove: its thread is blocked; connect, listen: it awaits Redis with the
\* guard of its entry; connected, listening: Redis has answered, and the task needs
\* a thread to go on.
Blocked == {c \in Conns : pc[c] \in {"insert", "remove"}}
Holders == {c \in Conns : pc[c] \in {"connect", "connected", "listen", "listening"}}
ThreadFree == Cardinality(Blocked) < Threads
Guarded(s) == \E c \in Holders : shard[c] = s

TypeOK ==
    /\ shard \in [Conns -> Shards]
    /\ pc \in [Conns -> {"new", "insert", "open", "connect", "connected", "listen",
                         "listening", "remove", "gone"}]
    /\ requests \in [Conns -> 0..MaxRequests]

Init ==
    /\ shard \in [Conns -> Shards]
    /\ pc = [c \in Conns |-> "new"]
    /\ requests = [c \in Conns |-> 0]

\* The insert of subscribe and the remove of unsubscribe: at once, or blocked.
Write(c, blocked, done) ==
    /\ ThreadFree
    /\ pc' = [pc EXCEPT ![c] = IF Guarded(shard[c]) THEN blocked ELSE done]
    /\ UNCHANGED <<shard, requests>>

Subscribe(c) == pc[c] = "new" /\ Write(c, "insert", "open")
Unsubscribe(c) == pc[c] = "open" /\ Write(c, "remove", "gone")

Granted(c) ==
    /\ c \in Blocked
    /\ ~ Guarded(shard[c])
    /\ pc' = [pc EXCEPT ![c] = IF @ = "insert" THEN "open" ELSE "gone"]
    /\ UNCHANGED <<shard, requests>>

\* add_subscription takes the guard, and keeps it until it returns.
AddSubscription(c) ==
    /\ pc[c] = "open" /\ ThreadFree
    /\ requests[c] < MaxRequests
    /\ requests' = [requests EXCEPT ![c] = @ + 1]
    /\ pc' = [pc EXCEPT ![c] = "connect"]
    /\ UNCHANGED shard

RedisAnswers(c) ==
    /\ \/ pc[c] = "connect" /\ pc' = [pc EXCEPT ![c] = "connected"]
       \/ pc[c] = "listen" /\ pc' = [pc EXCEPT ![c] = "listening"]
    /\ UNCHANGED <<shard, requests>>

\* The second call follows the first unless that failed.
Resume(c) ==
    /\ ThreadFree
    /\ \/ pc[c] = "connected" /\ pc' = [pc EXCEPT ![c] = "listen"]
       \/ pc[c] \in {"connected", "listening"} /\ pc' = [pc EXCEPT ![c] = "open"]
    /\ UNCHANGED <<shard, requests>>

Next ==
    \E c \in Conns :
        \/ Subscribe(c) \/ Unsubscribe(c) \/ Granted(c)
        \/ AddSubscription(c) \/ RedisAnswers(c) \/ Resume(c)

Spec == Init /\ [][Next]_vars

-----------------------------------------------------------------------------
\* src/README.md:68 recommends the service for "a high number of concurrent
\* connections".  As long as a task holds a guard some thread must be left that can
\* go on with it, or come back from a lock that is free; else all of them wait for a
\* guard nobody can drop, and the whole runtime stands still.
HoldersGoOn ==
    Holders # {} => ThreadFree \/ \E c \in Blocked : ~ Guarded(shard[c])

\* There is no way back: whatever Redis does, the same tasks stay blocked behind the
\* same guards.
StandsStillForEver ==
    [][~ HoldersGoOn => ~ HoldersGoOn' /\ Blocked' = Blocked /\ Holders' = Holders]_vars

\* What it takes to get there, however many connections there are: a client connects or
\* leaves while all worker threads but one are blocked, and its insert or remove meets
\* the guard of a task that awaits Redis.  Topic requests, an answer of Redis and a
\* lock that is granted never bring the runtime to a standstill.
OnlyConnectOrLeaveStops ==
    [][HoldersGoOn /\ ~ HoldersGoOn' =>
        \E c \in Conns :
            /\ pc[c] \in {"new", "open"} /\ c \notin Blocked
            /\ \E d \in Holders \ {c} : shard[d] = shard[c]
            /\ Cardinality(Blocked) = Threads - 1
            /\ Blocked' = Blocked \union {c} /\ Holders' = Holders]_vars
=============================================================================
