--------------------------- MODULE BrokerLocksProofs ---------------------------
(* How the worker threads of approach-2 come to a standstill, for any      *)
(* number of connections, threads and shards.                              *)
EXTENDS BrokerLocks, TLAPS, FiniteSetTheorems

LEMMA StandingStill ==
    ASSUME TypeOK, ~ HoldersGoOn, [Next]_vars
    PROVE  shard' = shard /\ Blocked' = Blocked /\ Holders' = Holders
<1>1. ~ ThreadFree /\ \A c \in Blocked : Guarded(shard[c])
  BY DEF HoldersGoOn
<1>2. CASE UNCHANGED vars
  BY <1>2 DEF vars, Blocked, Holders
<1>3. ASSUME NEW c \in Conns, RedisAnswers(c)
      PROVE  shard' = shard /\ Blocked' = Blocked /\ Holders' = Holders
  BY <1>3 DEF RedisAnswers, TypeOK, Blocked, Holders
<1>4. QED
  BY <1>1, <1>2, <1>3 DEF Next, Subscribe, Unsubscribe, Write, Granted, AddSubscription, Resume

LEMMA LocksStep == ASSUME MaxRequests \in Nat, TypeOK, [Next]_vars PROVE TypeOK'
<1>1. CASE UNCHANGED vars
  BY <1>1 DEF vars, TypeOK
<1>2. ASSUME NEW c \in Conns, AddSubscription(c) PROVE TypeOK'
  <2>1. requests[c] + 1 \in 0..MaxRequests BY <1>2 DEF AddSubscription, TypeOK
  <2>2. QED BY <1>2, <2>1 DEF AddSubscription, TypeOK
<1>3. ASSUME NEW c \in Conns,
             Subscribe(c) \/ Unsubscribe(c) \/ Granted(c) \/ RedisAnswers(c) \/ Resume(c)
      PROVE  TypeOK'
  BY <1>3 DEF Subscribe, Unsubscribe, Write, Granted, RedisAnswers, Resume, TypeOK
<1>4. QED BY <1>1, <1>2, <1>3 DEF Next

\* The standstill broker_locks finds is not a delay: an answer of Redis changes what the
\* holder waits for, and no step blocks, frees or ends any task.
THEOREM StandstillIsFinal ==
    ASSUME MaxRequests \in Nat
    PROVE  Spec => []TypeOK /\ StandsStillForEver
<1>1. Init => TypeOK BY DEF Init, TypeOK
<1>2. TypeOK /\ [Next]_vars => TypeOK' BY LocksStep
<1>3. TypeOK /\ ~ HoldersGoOn /\ [Next]_vars
        => ~ HoldersGoOn' /\ Blocked' = Blocked /\ Holders' = Holders
  BY StandingStill DEF HoldersGoOn, ThreadFree, Guarded
<1>4. TypeOK /\ [Next]_vars
        => [~ HoldersGoOn => ~ HoldersGoOn' /\ Blocked' = Blocked /\ Holders' = Holders]_vars
  BY <1>3
<1>5. QED BY <1>1, <1>2, <1>4, PTL DEF Spec, StandsStillForEver

-----------------------------------------------------------------------------
(* How it begins.                                                          *)

\* Only a task that runs can block, and it gives up its thread by that.
BlockedFit == IsFiniteSet(Blocked) /\ Cardinality(Blocked) <= Threads

LEMMA OneMoreBlocked ==
    ASSUME Threads \in Nat, BlockedFit, ThreadFree, NEW c, c \notin Blocked,
           Blocked' = Blocked \union {c}
    PROVE  BlockedFit' /\ Cardinality(Blocked') = Cardinality(Blocked) + 1
<1>1. IsFiniteSet(Blocked') /\ Cardinality(Blocked') = Cardinality(Blocked) + 1
  BY FS_AddElement DEF BlockedFit
<1>2. Cardinality(Blocked) \in Nat BY FS_CardinalityType DEF BlockedFit
<1>3. Cardinality(Blocked') <= Threads BY <1>1, <1>2 DEF ThreadFree
<1>4. QED BY <1>1, <1>3 DEF BlockedFit

LEMMA OneLessBlocked ==
    ASSUME Threads \in Nat, BlockedFit, NEW c \in Blocked, Blocked' = Blocked \ {c}
    PROVE  BlockedFit' /\ ThreadFree'
<1>1. IsFiniteSet(Blocked') /\ Cardinality(Blocked') = Cardinality(Blocked) - 1
  BY FS_RemoveElement DEF BlockedFit
<1>2. Cardinality(Blocked) \in Nat BY FS_CardinalityType DEF BlockedFit
<1>3. Cardinality(Blocked') < Threads BY <1>1, <1>2 DEF BlockedFit
<1>4. QED BY <1>1, <1>2, <1>3 DEF BlockedFit, ThreadFree

\* An insert or a remove is done at once, or blocks.
LEMMA WriteBlocksOne ==
    ASSUME Threads \in Nat, TypeOK, BlockedFit, NEW c \in Conns, Subscribe(c) \/ Unsubscribe(c)
    PROVE  /\ BlockedFit'
           /\ ~ HoldersGoOn' =>
                /\ pc[c] \in {"new", "open"} /\ c \notin Blocked
                /\ \E d \in Holders \ {c} : shard[d] = shard[c]
                /\ Cardinality(Blocked) = Threads - 1
                /\ Blocked' = Blocked \union {c} /\ Holders' = Holders
<1>1. pc[c] \in {"new", "open"} /\ c \notin Blocked /\ c \notin Holders /\ ThreadFree
  BY DEF Subscribe, Unsubscribe, Write, Blocked, Holders
<1>2. CASE Guarded(shard[c])
  <2>1. Blocked' = Blocked \union {c} /\ Holders' = Holders
    BY <1>2 DEF Subscribe, Unsubscribe, Write, TypeOK, Blocked, Holders
  <2>2. BlockedFit' /\ Cardinality(Blocked') = Cardinality(Blocked) + 1
    BY <1>1, <2>1, OneMoreBlocked
  <2>3. Cardinality(Blocked) \in Nat BY FS_CardinalityType DEF BlockedFit
  <2>4. ~ ThreadFree' => Cardinality(Blocked) = Threads - 1
    BY <1>1, <2>2, <2>3 DEF ThreadFree
  <2>5. \E d \in Holders \ {c} : shard[d] = shard[c] BY <1>1, <1>2 DEF Guarded
  <2>6. QED BY <1>1, <2>1, <2>2, <2>4, <2>5 DEF HoldersGoOn
<1>3. CASE ~ Guarded(shard[c])
  <2>1. Blocked' = Blocked
    BY <1>3 DEF Subscribe, Unsubscribe, Write, TypeOK, Blocked
  <2>2. BlockedFit' /\ ThreadFree' BY <1>1, <2>1 DEF BlockedFit, ThreadFree
  <2>3. QED BY <2>2 DEF HoldersGoOn
<1>4. QED BY <1>2, <1>3

\* The other steps leave a thread free or change nothing of what the tasks wait for.
LEMMA OthersGoOn ==
    ASSUME Threads \in Nat, TypeOK, BlockedFit, HoldersGoOn, NEW c \in Conns,
           Granted(c) \/ AddSubscription(c) \/ RedisAnswers(c) \/ Resume(c)
    PROVE  BlockedFit' /\ HoldersGoOn'
<1>1. CASE Granted(c)
  <2>1. c \in Blocked /\ Blocked' = Blocked \ {c}
    BY <1>1 DEF Granted, TypeOK, Blocked
  <2>2. QED BY <2>1, OneLessBlocked DEF HoldersGoOn
<1>2. CASE AddSubscription(c) \/ Resume(c)
  <2>1. ThreadFree /\ Blocked' = Blocked
    BY <1>2 DEF AddSubscription, Resume, TypeOK, Blocked
  <2>2. QED BY <2>1 DEF BlockedFit, ThreadFree, HoldersGoOn
<1>3. CASE RedisAnswers(c)
  <2>1. Blocked' = Blocked /\ Holders' = Holders /\ shard' = shard
    BY <1>3 DEF RedisAnswers, TypeOK, Blocked, Holders
  <2>2. QED BY <2>1 DEF BlockedFit, ThreadFree, HoldersGoOn, Guarded
<1>4. QED BY <1>1, <1>2, <1>3

\* The standstill has one cause, with as many connections as one likes: a connect or a
\* leave takes the last thread behind a guard that is held across an await.
THEOREM StandstillHasOneCause ==
    ASSUME Threads \in Nat, MaxRequests \in Nat
    PROVE  Spec => OnlyConnectOrLeaveStops
<1> DEFINE Inv == TypeOK /\ BlockedFit
           Cause == \E c \in Conns :
                       /\ pc[c] \in {"new", "open"} /\ c \notin Blocked
                       /\ \E d \in Holders \ {c} : shard[d] = shard[c]
                       /\ Cardinality(Blocked) = Threads - 1
                       /\ Blocked' = Blocked \union {c} /\ Holders' = Holders
<1>1. Init => Inv
  <2>1. Init => TypeOK /\ Blocked = {} BY DEF Init, TypeOK, Blocked
  <2>2. IsFiniteSet({}) /\ Cardinality({}) = 0 BY FS_EmptySet
  <2>3. QED BY <2>1, <2>2 DEF BlockedFit
<1>2. Inv /\ HoldersGoOn /\ [Next]_vars => BlockedFit' /\ (~ HoldersGoOn' => Cause)
  <2> SUFFICES ASSUME Inv, HoldersGoOn, [Next]_vars
               PROVE  BlockedFit' /\ (~ HoldersGoOn' => Cause)
    OBVIOUS
  <2>1. ASSUME NEW c \in Conns, Subscribe(c) \/ Unsubscribe(c)
        PROVE  BlockedFit' /\ (~ HoldersGoOn' => Cause)
    BY <2>1, WriteBlocksOne
  <2>2. ASSUME NEW c \in Conns, Granted(c) \/ AddSubscription(c) \/ RedisAnswers(c) \/ Resume(c)
        PROVE  BlockedFit' /\ HoldersGoOn'
    BY <2>2, OthersGoOn
  <2>3. CASE UNCHANGED vars
    BY <2>3 DEF vars, BlockedFit, Blocked, HoldersGoOn, Holders, ThreadFree, Guarded
  <2>4. QED BY <2>1, <2>2, <2>3 DEF Next
<1>3. Inv /\ ~ HoldersGoOn /\ [Next]_vars => BlockedFit'
  BY StandingStill DEF BlockedFit
<1>4. Inv /\ [Next]_vars => Inv' /\ [HoldersGoOn /\ ~ HoldersGoOn' => Cause]_vars
  BY <1>2, <1>3, LocksStep
<1> HIDE DEF Inv
<1>5. QED BY <1>1, <1>4, PTL DEF Spec, OnlyConnectOrLeaveStops
=============================================================================
