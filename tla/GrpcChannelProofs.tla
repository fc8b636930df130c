--------------------------- MODULE GrpcChannelProofs ---------------------------
(* Theorems about GrpcChannel, for all settings, clients and queues.       *)
EXTENDS GrpcChannel, TLAPS, FiniteSetTheorems

LEMMA AppendFacts ==
    ASSUME NEW S, NEW s \in Seq(S), NEW x \in S
    PROVE  /\ Append(s, x) \in Seq(S)
           /\ Len(Append(s, x)) = Len(s) + 1
           /\ \A i \in 1..Len(s) : Append(s, x)[i] = s[i]
           /\ Append(s, x)[Len(s) + 1] = x
OBVIOUS

-----------------------------------------------------------------------------
(* Types.                                                                  *)

StreamsOK ==
    /\ client \in Kinds /\ link \in {"open", "half", "reset"}
    /\ sent \in Seq(Frames) /\ taken \in 0..Len(sent)
    /\ listening \in {"no", "yes"}
    /\ arrived \in Seq(Events) /\ forwarded \in 0..Len(arrived)
QueueOK ==
    /\ status \in {"select", "broker", "send", "closed", "timed_out"}
    /\ holding \in Responses
    /\ responses \in Seq(Responses)
    /\ read \in 0..Len(responses) /\ Len(responses) - read <= Capacity
TimesOK ==
    /\ now \in Nat /\ sent_at \in 0..now
    /\ next_tick \in Nat /\ next_tick <= now + Period
    /\ last_inbound_at \in 0..now

LEMMA TypeParts == TypeOK <=> StreamsOK /\ QueueOK /\ TimesOK
BY DEF TypeOK, StreamsOK, QueueOK, TimesOK

LEMMA StreamsStep == ASSUME TypeOK, [Next]_vars PROVE StreamsOK'
<1>t. StreamsOK /\ Len(sent) \in Nat /\ Len(arrived) \in Nat
  BY DEF TypeOK, StreamsOK
<1> USE DEF StreamsOK
<1>1. CASE Receive
  BY <1>t, <1>1 DEF Receive, clientVars
<1>2. CASE ForwardEvent
  BY <1>t, <1>2 DEF ForwardEvent, clientVars
<1>3. ASSUME NEW f \in Frames, ClientSends(f) PROVE StreamsOK'
  <2>1. sent' \in Seq(Frames) /\ Len(sent') = Len(sent) + 1
    BY <1>t, <1>3, AppendFacts DEF ClientSends
  <2>2. QED BY <1>t, <1>3, <2>1 DEF ClientSends, loopVars
<1>4. ASSUME NEW e \in Events, EventArrives(e) PROVE StreamsOK'
  <2>1. arrived' \in Seq(Events) /\ Len(arrived') = Len(arrived) + 1
    BY <1>t, <1>4, AppendFacts DEF EventArrives
  <2>2. QED BY <1>t, <1>4, <2>1 DEF EventArrives, clientVars, loopVars
<1>5. CASE UNCHANGED <<client, sent, taken, arrived, forwarded>> /\ link' \in {"open", "half", "reset"}
           /\ listening' \in {"no", "yes"}
  BY <1>t, <1>5
<1>6. QED
  BY <1>t, <1>1, <1>2, <1>3, <1>4, <1>5 DEF Next, Task, BrokerReturns, Ticked, TimeOut, Leave,
     Send, SendFails, ClientReads, ClientLeaves, Pass, vars, clientVars, loopVars

LEMMA QueueStep == ASSUME TypeOK, [Next]_vars PROVE QueueOK'
<1>t. QueueOK /\ Len(responses) \in Nat
  BY DEF TypeOK, QueueOK
<1>c. Capacity \in Nat BY ChannelAssumption
<1> USE DEF QueueOK
<1>1. CASE Send
  <2>1. responses' \in Seq(Responses) /\ Len(responses') = Len(responses) + 1
    BY <1>t, <1>1, AppendFacts DEF Send
  <2>2. QED BY <1>t, <1>c, <1>1, <2>1 DEF Send, HasRoom, AfterSend, clientVars
<1>2. CASE ClientReads
  BY <1>t, <1>c, <1>2 DEF ClientReads, loopVars
<1>3. CASE ForwardEvent
  <2>1. forwarded' \in 1..Len(arrived) /\ arrived \in Seq(Events)
    BY <1>3 DEF ForwardEvent, TypeOK
  <2>2. arrived[forwarded'] \in Responses BY <2>1 DEF Responses
  <2>3. QED BY <1>t, <1>3, <2>2 DEF ForwardEvent, clientVars
<1>4. CASE Receive \/ BrokerReturns \/ TimeOut
  BY <1>t, <1>4 DEF Receive, BrokerReturns, TimeOut, Responses, Answers, clientVars
<1>5. CASE UNCHANGED <<holding, responses, read>>
           /\ status' \in {"select", "broker", "send", "closed", "timed_out"}
  BY <1>t, <1>5
<1>6. QED
  BY <1>t, <1>1, <1>2, <1>3, <1>4, <1>5 DEF Next, Task, Ticked, Leave, SendFails, AfterSend,
     ClientSends, ClientLeaves, EventArrives, Pass, vars, clientVars, loopVars

LEMMA TimesStep == ASSUME TypeOK, [Next]_vars PROVE TimesOK'
<1>t. TimesOK /\ Period \in Nat
  BY ChannelAssumption DEF TypeOK, TimesOK
<1> USE DEF TimesOK
<1>1. CASE Pass
  BY <1>t, <1>1 DEF Pass, clientVars, timerVars
<1>2. ASSUME now' = now, sent_at' \in {sent_at, now}, last_inbound_at' \in {last_inbound_at, now},
             next_tick' \in {next_tick, now + Period}
      PROVE  TimesOK'
  BY <1>t, <1>2
<1>3. QED
  BY <1>1, <1>2 DEF Next, Task, Receive, BrokerReturns, ForwardEvent, Ticked, TimeOut, Leave,
     Send, SendFails, ClientSends, ClientReads, ClientLeaves, EventArrives, vars, clientVars,
     timerVars

LEMMA TypedInit == Init => TypeOK
BY ChannelAssumption DEF Init, TypeOK, Responses

\* The queue of responses never holds more than its capacity, and no timer runs ahead.
THEOREM ChannelTyped == Spec => []TypeOK
<1>1. TypeOK /\ [Next]_vars => TypeOK'
  BY StreamsStep, QueueStep, TimesStep DEF TypeOK, StreamsOK, QueueOK, TimesOK
<1>2. QED BY <1>1, TypedInit, PTL DEF Spec

-----------------------------------------------------------------------------
(* The idle timeout.                                                       *)

\* A client that reads leaves room in the queue by the time the clock moves, so no
\* time passes in resp_tx.send.
LEMMA NoTimeInSend ==
    ASSUME TypeOK, Pass, client # "slow"
    PROVE  status \in {"select", "broker"}
<1>1. read = Len(responses) /\ Len(responses) \in Nat /\ Capacity \in Nat \ {0}
  BY ChannelAssumption DEF Pass, TypeOK
<1>2. HasRoom BY <1>1 DEF HasRoom
<1>3. QED BY <1>2 DEF Pass, Open, TypeOK

ReleaseInv ==
    /\ next_tick <= last_inbound_at + IdleTimeout + Period
    /\ client # "slow" => now <= next_tick \/ now <= last_inbound_at + RedisTime

\* A client that reads and is silent is timed out by the next tick, or as soon as the
\* broker lets the loop get to it.
THEOREM SilentClientIsReleased == Spec => []SilentIsReleased
<1>n. IdleTimeout \in Nat /\ Period \in Nat /\ RedisTime \in Nat BY ChannelAssumption
<1>1. Init => ReleaseInv BY <1>n DEF Init, ReleaseInv
<1>2. TypeOK /\ ReleaseInv /\ [Next]_vars => ReleaseInv'
  <2>. SUFFICES ASSUME TypeOK, ReleaseInv, [Next]_vars PROVE ReleaseInv'
    OBVIOUS
  <2>t. now \in Nat /\ next_tick \in Nat /\ last_inbound_at \in Nat /\ last_inbound_at <= now
    BY DEF TypeOK
  <2> USE <1>n DEF ReleaseInv
  <2>1. CASE Pass
    <3>1. CASE client # "slow"
      <4>1. status \in {"select", "broker"} BY <2>1, <3>1, NoTimeInSend
      <4>2. now < next_tick \/ now < last_inbound_at + RedisTime
        BY <2>1, <4>1 DEF Pass, Idle
      <4>3. QED BY <2>t, <2>1, <4>2 DEF Pass, timerVars, clientVars
    <3>2. CASE client = "slow"
      BY <2>1, <3>2 DEF Pass, timerVars, clientVars
    <3>3. QED BY <3>1, <3>2
  <2>2. CASE Ticked
    BY <2>t, <2>2 DEF Ticked, Overdue, clientVars
  <2>3. CASE Receive
    BY <2>t, <2>3 DEF Receive, clientVars
  <2>4. CASE UNCHANGED <<client, now, next_tick, last_inbound_at>>
    BY <2>4
  <2>5. QED
    BY <2>1, <2>2, <2>3, <2>4 DEF Next, Task, BrokerReturns, ForwardEvent, TimeOut, Leave, Send,
       SendFails, ClientSends, ClientReads, ClientLeaves, EventArrives, vars, clientVars, timerVars
<1>3. TypeOK /\ ReleaseInv => SilentIsReleased
  BY <1>n DEF TypeOK, ReleaseInv, SilentIsReleased
<1>4. QED BY <1>1, <1>2, <1>3, ChannelTyped, PTL DEF Spec

\* What keeps an active client from being overdue: all it has sent is received within
\* the time its frames may lie apart, or the broker has just been busy with one.
ActiveInv ==
    client = "active" =>
        /\ holding # "timeout"
        /\ link = "open" => now <= sent_at + Gap
        /\ taken = Len(sent) => sent_at <= last_inbound_at
        /\ status = "broker" => now <= last_inbound_at + RedisTime
        /\ status \in {"select", "send"} => now <= last_inbound_at + IdleTimeout

\* What kind of client it is does not change.
LEMMA ClientStays ==
    ASSUME [Next]_vars
    PROVE  client' = client
BY DEF Next, Task, Receive, BrokerReturns, ForwardEvent, Ticked, TimeOut, Leave, Send,
   SendFails, ClientSends, ClientReads, ClientLeaves, EventArrives, Pass, vars, clientVars

\* A client whose frames and whose topic requests take no longer than the idle timeout
\* is never timed out, whatever branch the loop prefers.
THEOREM ActiveClientIsKept ==
    ASSUME Gap <= IdleTimeout, RedisTime <= IdleTimeout
    PROVE  Spec => []ActiveIsKept
<1>n. IdleTimeout \in Nat /\ Gap \in Nat /\ RedisTime \in Nat BY ChannelAssumption
<1>1. Init => ActiveInv BY <1>n DEF Init, ActiveInv
<1>2. TypeOK /\ ActiveInv /\ [Next]_vars => ActiveInv'
  <2>. SUFFICES ASSUME TypeOK, ActiveInv, [Next]_vars PROVE ActiveInv'
    OBVIOUS
  <2>c. client' = client BY ClientStays
  <2>. SUFFICES ASSUME client = "active" PROVE ActiveInv'
    BY <2>c DEF ActiveInv
  <2>t. /\ now \in Nat /\ last_inbound_at \in Nat /\ last_inbound_at <= now
        /\ sent_at \in Nat /\ sent_at <= now
        /\ taken \in Nat /\ Len(sent) \in Nat /\ taken <= Len(sent)
        /\ sent \in Seq(Frames)
    BY DEF TypeOK
  <2> USE <1>n DEF ActiveInv
  <2>1. CASE Pass
    <3>1. status \in {"select", "broker"} BY <2>1, NoTimeInSend
    <3>2. UNCHANGED <<client, link, sent, sent_at, taken, status, holding, last_inbound_at>>
          /\ now' = now + 1
      BY <2>1 DEF Pass, clientVars, loopVars, timerVars
    <3>3. link = "open" => now' <= sent_at + Gap
      BY <2>t, <2>1, <3>2 DEF Pass
    <3>4. CASE status = "select"
      <4>1. taken = Len(sent) /\ link = "open" BY <2>1, <3>4 DEF Pass, Idle
      <4>2. now' <= last_inbound_at + Gap BY <2>t, <3>2, <3>3, <4>1
      <4>3. QED BY <2>t, <3>2, <3>3, <3>4, <4>1, <4>2
    <3>5. CASE status = "broker"
      <4>1. now' <= last_inbound_at + RedisTime BY <2>t, <2>1, <3>2, <3>5 DEF Pass
      <4>2. QED BY <2>t, <3>2, <3>3, <3>5, <4>1
    <3>6. QED BY <3>1, <3>4, <3>5
  <2>2. CASE Receive
    BY <2>t, <2>2 DEF Receive, clientVars
  <2>3. CASE BrokerReturns
    <3>1. now <= last_inbound_at + IdleTimeout BY <2>t, <2>3 DEF BrokerReturns
    <3>2. QED BY <2>t, <2>3, <3>1 DEF BrokerReturns, clientVars, timerVars
  <2>4. CASE ForwardEvent
    <3>1. arrived[forwarded'] \in Events BY <2>4 DEF ForwardEvent, TypeOK
    <3>2. QED BY <2>t, <2>4, <3>1 DEF ForwardEvent, Events, clientVars, timerVars
  <2>5. CASE TimeOut
    BY <2>t, <2>5 DEF TimeOut, Overdue
  <2>6. CASE Ticked \/ Leave
    BY <2>6 DEF Ticked, Leave, clientVars, loopVars, timerVars
  <2>7. CASE Send \/ SendFails
    BY <2>7 DEF Send, SendFails, AfterSend, clientVars, timerVars
  <2>8. ASSUME NEW f \in Frames, ClientSends(f) PROVE ActiveInv'
    <3>1. Len(sent') = Len(sent) + 1 BY <2>t, <2>8, AppendFacts DEF ClientSends
    <3>2. sent_at' = now /\ UNCHANGED <<client, link, taken, status, holding, now, last_inbound_at>>
      BY <2>8 DEF ClientSends, loopVars, timerVars
    <3>3. QED BY <2>t, <3>1, <3>2
  <2>9. CASE ClientReads \/ ClientLeaves \/ (\E e \in Events : EventArrives(e)) \/ UNCHANGED vars
    BY <2>9 DEF ClientReads, ClientLeaves, EventArrives, clientVars, loopVars, timerVars, vars
  <2>10. QED
    BY <2>1, <2>2, <2>3, <2>4, <2>5, <2>6, <2>7, <2>8, <2>9 DEF Next, Task
<1>3. ActiveInv => ActiveIsKept BY DEF ActiveInv, ActiveIsKept
<1>4. QED BY <1>1, <1>2, <1>3, ChannelTyped, PTL DEF Spec

-----------------------------------------------------------------------------
(* The acknowledgement and the events of a topic.                          *)

Acked == \E j \in 1..Len(responses) : responses[j] = "subscribed"

\* As long as responses are sent at all: the listener of a topic has been acknowledged,
\* or the acknowledgement is the next response.
AckInv ==
    /\ \A i \in 1..Len(arrived) : arrived[i] = "topic" => listening = "yes"
    /\ link # "reset" /\ listening = "yes" => Acked \/ (status = "send" /\ holding = "subscribed")
    /\ link # "reset" /\ status = "send" /\ holding = "topic" => Acked
    /\ \A i \in 1..Len(responses) :
         responses[i] = "topic" => \E j \in 1..(i - 1) : responses[j] = "subscribed"

LEMMA AckStep == ASSUME TypeOK, AckInv, [Next]_vars PROVE AckInv'
<1>t. /\ responses \in Seq(Responses) /\ Len(responses) \in Nat /\ holding \in Responses
      /\ arrived \in Seq(Events) /\ Len(arrived) \in Nat
  BY DEF TypeOK
<1>1. CASE Send
  <2>1. /\ Len(responses') = Len(responses) + 1
        /\ \A i \in 1..Len(responses) : responses'[i] = responses[i]
        /\ responses'[Len(responses) + 1] = holding
    BY <1>t, <1>1, AppendFacts DEF Send
  <2>2. /\ link # "reset" /\ status = "send" /\ status' # "send"
        /\ UNCHANGED <<link, listening, arrived, holding>>
    BY <1>1 DEF Send, AfterSend, clientVars
  <2>3. Acked \/ holding = "subscribed" => Acked' BY <1>t, <2>1 DEF Acked
  <2>4. \A i \in 1..Len(responses') :
          responses'[i] = "topic" => \E j \in 1..(i - 1) : responses'[j] = "subscribed"
    <3>1. SUFFICES ASSUME NEW i \in 1..Len(responses'), responses'[i] = "topic"
                   PROVE  \E j \in 1..(i - 1) : responses'[j] = "subscribed"
      OBVIOUS
    <3>2. CASE i \in 1..Len(responses)
      <4>1. PICK j \in 1..(i - 1) : responses[j] = "subscribed" BY <2>1, <3>1, <3>2 DEF AckInv
      <4>2. j \in 1..Len(responses) BY <1>t, <3>2, <4>1
      <4>3. QED BY <2>1, <4>1, <4>2
    <3>3. CASE i = Len(responses) + 1
      <4>1. Acked BY <2>1, <2>2, <3>1, <3>3 DEF AckInv
      <4>2. PICK j \in 1..Len(responses) : responses[j] = "subscribed" BY <4>1 DEF Acked
      <4>3. QED BY <1>t, <2>1, <3>3, <4>2
    <3>4. QED BY <1>t, <2>1, <3>2, <3>3
  <2>5. QED BY <2>2, <2>3, <2>4 DEF AckInv
<1>2. ASSUME responses' = responses PROVE Acked' <=> Acked
  BY <1>2 DEF Acked
<1>3. CASE BrokerReturns
  <2>1. UNCHANGED <<responses, arrived, link>> /\ status' = "send" /\ holding' # "topic"
        /\ (listening' = "yes" => holding' = "subscribed" \/ listening = "yes")
        /\ (listening = "yes" => listening' = "yes") /\ status # "send"
    BY <1>3 DEF BrokerReturns, clientVars
  <2>2. QED BY <1>2, <2>1 DEF AckInv
<1>4. CASE ForwardEvent
  <2>1. UNCHANGED <<responses, arrived, link, listening>> /\ status = "select"
        /\ forwarded' \in 1..Len(arrived) /\ holding' = arrived[forwarded']
    BY <1>4 DEF ForwardEvent, clientVars, TypeOK
  <2>2. link # "reset" /\ listening = "yes" => Acked BY <2>1 DEF AckInv
  <2>3. holding' = "topic" => listening = "yes" BY <2>1 DEF AckInv
  <2>4. QED BY <1>2, <2>1, <2>2, <2>3 DEF AckInv
<1>5. ASSUME NEW e \in Events, EventArrives(e) PROVE AckInv'
  <2>1. UNCHANGED <<responses, link, listening, status, holding>> /\ (e = "topic" => listening = "yes")
    BY <1>5 DEF EventArrives, clientVars, loopVars
  <2>2. /\ Len(arrived') = Len(arrived) + 1
        /\ \A i \in 1..Len(arrived) : arrived'[i] = arrived[i]
        /\ arrived'[Len(arrived) + 1] = e
    BY <1>t, <1>5, AppendFacts DEF EventArrives
  <2>3. ASSUME NEW i \in 1..Len(arrived'), arrived'[i] = "topic" PROVE listening = "yes"
    <3>1. i \in 1..Len(arrived) \/ i = Len(arrived) + 1 BY <1>t, <2>2
    <3>2. QED BY <2>1, <2>2, <2>3, <3>1 DEF AckInv
  <2>4. QED BY <1>2, <2>1, <2>3 DEF AckInv
<1>6. ASSUME UNCHANGED <<responses, arrived, listening>>, link' = link \/ link' # "open",
             link = "reset" => link' = "reset", status' # "send", status # "send" \/ link = "reset"
      PROVE  AckInv'
  BY <1>2, <1>6 DEF AckInv
<1>7. ASSUME UNCHANGED <<responses, arrived, listening, status, holding>>,
             link = "reset" => link' = "reset"
      PROVE  AckInv'
  BY <1>2, <1>7 DEF AckInv
<1>8. CASE TimeOut
  <2>1. UNCHANGED <<responses, arrived, listening, link>> /\ status = "select" /\ holding' = "timeout"
    BY <1>8 DEF TimeOut, clientVars
  <2>2. QED BY <1>2, <2>1 DEF AckInv
<1>9. CASE Receive \/ Leave \/ SendFails
  BY <1>6, <1>9 DEF Receive, Leave, SendFails, AfterSend, clientVars
<1>10. CASE Ticked \/ (\E f \in Frames : ClientSends(f)) \/ ClientReads \/ ClientLeaves \/ Pass
            \/ UNCHANGED vars
  BY <1>7, <1>10 DEF Ticked, ClientSends, ClientReads, ClientLeaves, Pass, vars, clientVars, loopVars
<1>11. QED
  BY <1>1, <1>3, <1>4, <1>5, <1>8, <1>9, <1>10 DEF Next, Task

\* However fast events of a topic arrive, the client is told of its subscription first.
THEOREM AckComesFirst == Spec => []AckPrecedesEvents
<1>1. Init => AckInv
  BY DEF Init, AckInv
<1>2. TypeOK /\ AckInv /\ [Next]_vars => AckInv' BY AckStep
<1>3. TypeOK /\ AckInv => AckPrecedesEvents
  <2>1. TypeOK => DOMAIN responses = 1..Len(responses) BY DEF TypeOK
  <2>2. QED BY <2>1 DEF AckInv, AckPrecedesEvents
<1>4. QED BY <1>1, <1>2, <1>3, ChannelTyped, PTL DEF Spec
-----------------------------------------------------------------------------
(* What goes through the loop.  Its output grows at the end only, so the   *)
(* number of an event in it never changes.                                 *)

LEMMA CountFinite ==
    ASSUME NEW s, NEW S, NEW n \in Nat
    PROVE  IsFiniteSet({i \in 1..n : s[i] \in S})
<1>1. IsFiniteSet(1..n) BY FS_Interval
<1>2. {i \in 1..n : s[i] \in S} \in SUBSET (1..n) OBVIOUS
<1>3. QED BY <1>1, <1>2, FS_Subset

LEMMA CountType ==
    ASSUME NEW s, NEW S, NEW n \in Nat
    PROVE  Count(s, S, n) \in Nat
BY CountFinite, FS_CardinalityType DEF Count

\* One more element adds one to the count if it is in S.
LEMMA CountNext ==
    ASSUME NEW s, NEW S, NEW n \in Nat
    PROVE  Count(s, S, n + 1) = Count(s, S, n) + IF s[n + 1] \in S THEN 1 ELSE 0
<1> DEFINE T == {i \in 1..n : s[i] \in S}
<1> DEFINE U == {i \in 1..(n + 1) : s[i] \in S}
<1>1. IsFiniteSet(T) BY CountFinite
<1>2. n + 1 \notin T OBVIOUS
<1>3. CASE s[n + 1] \in S
  <2>1. U = T \union {n + 1} BY <1>3
  <2>2. Cardinality(U) = Cardinality(T) + 1 BY <1>1, <1>2, <2>1, FS_AddElement
  <2>3. QED BY <1>3, <2>2 DEF Count
<1>4. CASE s[n + 1] \notin S
  <2>1. U = T BY <1>4
  <2>2. Cardinality(T) \in Nat BY <1>1, FS_CardinalityType
  <2>3. QED BY <1>4, <2>1, <2>2 DEF Count
<1>5. QED BY <1>3, <1>4

\* What is behind the first n elements does not count.
LEMMA CountSame ==
    ASSUME NEW s, NEW r, NEW S, NEW n \in Nat, \A i \in 1..n : s[i] = r[i]
    PROVE  Count(s, S, n) = Count(r, S, n)
<1>1. {i \in 1..n : s[i] \in S} = {i \in 1..n : r[i] \in S} OBVIOUS
<1>2. QED BY <1>1 DEF Count

LEMMA CountGrows ==
    ASSUME NEW s, NEW S, NEW n \in Nat, NEW i \in 1..n
    PROVE  /\ Count(s, S, i) <= Count(s, S, n)
           /\ s[i] \in S => Count(s, S, i) >= 1
<1>1. IsFiniteSet({j \in 1..n : s[j] \in S}) BY CountFinite
<1>2. {j \in 1..i : s[j] \in S} \in SUBSET {j \in 1..n : s[j] \in S} OBVIOUS
<1>3. Count(s, S, i) <= Count(s, S, n) BY <1>1, <1>2, FS_Subset DEF Count
<1>4. ASSUME s[i] \in S PROVE Count(s, S, i) >= 1
  <2>1. i \in {j \in 1..i : s[j] \in S} BY <1>4
  <2>n. i \in Nat OBVIOUS
  <2>2. IsFiniteSet({j \in 1..i : s[j] \in S}) BY <2>n, CountFinite
  <2>3. Cardinality({j \in 1..i : s[j] \in S}) # 0 BY <2>1, <2>2, FS_EmptySet
  <2>4. QED BY <2>2, <2>3, FS_CardinalityType DEF Count
<1>5. QED BY <1>3, <1>4

LEMMA OutputType ==
    ASSUME TypeOK
    PROVE  /\ Output \in Seq(Responses) /\ Len(Output) \in Nat
           /\ responses \in Seq(Responses) /\ Len(responses) \in Nat /\ holding \in Responses
<1>1. responses \in Seq(Responses) /\ holding \in Responses BY DEF TypeOK
<1>2. Append(responses, holding) \in Seq(Responses) BY <1>1, AppendFacts
<1>3. QED BY <1>1, <1>2 DEF Output

\* A step leaves the output as it is, or the task starts to send one more response.
LEMMA OutputStep ==
    ASSUME TypeOK, [Next]_vars
    PROVE  \/ Output' = Output
           \/ link' = "reset"
           \/ status' = "send" /\ Output' = Append(Output, holding')
<1>1. CASE Send
  <2>1. Output' = responses' BY <1>1 DEF Send, AfterSend, Output
  <2>2. QED BY <1>1, <2>1 DEF Send, Output
<1>2. CASE BrokerReturns \/ ForwardEvent \/ TimeOut
  BY <1>2 DEF BrokerReturns, ForwardEvent, TimeOut, Output
<1>3. CASE SendFails
  BY <1>3 DEF SendFails, clientVars
<1>4. CASE Receive \/ Leave \/ Ticked
  BY <1>4 DEF Receive, Leave, Ticked, loopVars, Output
<1>5. CASE (\E f \in Frames : ClientSends(f)) \/ ClientReads \/ ClientLeaves \/ Pass
           \/ (\E e \in Events : EventArrives(e)) \/ UNCHANGED vars
  BY <1>5 DEF ClientSends, ClientReads, ClientLeaves, Pass, EventArrives, loopVars, vars, Output
<1>6. QED BY <1>1, <1>2, <1>3, <1>4, <1>5 DEF Next, Task

\* The frames and events that were taken stay where they are.
LEMMA InputStep ==
    ASSUME TypeOK, [Next]_vars
    PROVE  /\ \A i \in 1..taken : sent'[i] = sent[i]
           /\ \A i \in 1..Len(arrived) : arrived'[i] = arrived[i]
           /\ link' # "reset" => link # "reset"
<1>t. sent \in Seq(Frames) /\ arrived \in Seq(Events) /\ taken \in 0..Len(sent)
  BY DEF TypeOK
<1>1. ASSUME NEW f \in Frames, ClientSends(f) PROVE \A i \in 1..taken : sent'[i] = sent[i]
  <2>1. \A i \in 1..Len(sent) : sent'[i] = sent[i] BY <1>t, <1>1, AppendFacts DEF ClientSends
  <2>2. QED BY <1>t, <2>1
<1>2. ASSUME NEW e \in Events, EventArrives(e)
      PROVE  \A i \in 1..Len(arrived) : arrived'[i] = arrived[i]
  BY <1>t, <1>2, AppendFacts DEF EventArrives
<1>3. QED
  BY <1>t, <1>1, <1>2 DEF Next, Task, Receive, BrokerReturns, ForwardEvent, Ticked, TimeOut, Leave,
     Send, SendFails, ClientSends, ClientReads, ClientLeaves, EventArrives, Pass, vars, clientVars

\* Events: the number of those put out is the number of those taken.
LEMMA PassedStep ==
    ASSUME TypeOK, TypeOK', [Next]_vars, link' # "reset", PassedOn
    PROVE  PassedOn'
<1>t. /\ Output \in Seq(Responses) /\ Len(Output) \in Nat
      /\ arrived \in Seq(Events) /\ Len(arrived) \in Nat /\ forwarded \in 0..Len(arrived)
  BY OutputType DEF TypeOK
<1>i. \A i \in 1..Len(arrived) : arrived'[i] = arrived[i] BY InputStep
<1>f. forwarded' = forwarded \/ (ForwardEvent /\ forwarded' = forwarded + 1)
  BY DEF Next, Task, Receive, BrokerReturns, ForwardEvent, Ticked, TimeOut, Leave, Send,
     SendFails, ClientSends, ClientReads, ClientLeaves, EventArrives, Pass, vars, loopVars
<1>b. \A i \in 1..Len(Output) : Output[i] \in Events => Count(Output, Events, i) \in 1..Len(arrived)
  <2>1. SUFFICES ASSUME NEW i \in 1..Len(Output), Output[i] \in Events
                 PROVE  Count(Output, Events, i) \in 1..Len(arrived)
    OBVIOUS
  <2>2. Count(Output, Events, i) >= 1 /\ Count(Output, Events, i) <= forwarded
    BY <1>t, <2>1, CountGrows DEF PassedOn
  <2>n. i \in Nat BY <1>t
  <2>3. Count(Output, Events, i) \in Nat BY <2>n, CountType
  <2>4. QED BY <1>t, <2>2, <2>3
<1>1. CASE Output' = Output
  <2>1. ~ ForwardEvent
    <3>1. ASSUME ForwardEvent PROVE FALSE
      <4>1. Output = responses /\ Output' = Append(responses, holding')
        BY <3>1 DEF ForwardEvent, Output
      <4>2. Len(Output') = Len(Output) + 1 /\ Len(Output) \in Nat
        BY <1>t, <4>1, OutputType, AppendFacts
      <4>3. QED BY <1>1, <4>2
    <3>2. QED BY <3>1
  <2>2. forwarded' = forwarded BY <1>f, <2>1
  <2>3. QED BY <1>1, <1>i, <1>b, <2>2 DEF PassedOn, Count
<1>2. CASE status' = "send" /\ Output' = Append(Output, holding')
  <2> DEFINE n == Len(Output)
  <2>1. /\ Len(Output') = n + 1 /\ Output'[n + 1] = holding'
        /\ \A i \in 1..n : Output'[i] = Output[i]
    BY <1>t, <1>2, OutputType, AppendFacts DEF TypeOK
  <2>2. \A i \in 1..n : Count(Output', Events, i) = Count(Output, Events, i)
    <3>1. SUFFICES ASSUME NEW i \in 1..n PROVE Count(Output', Events, i) = Count(Output, Events, i)
      OBVIOUS
    <3>2. i \in Nat /\ \A j \in 1..i : Output'[j] = Output[j] BY <1>t, <2>1
    <3>3. QED BY <3>2, CountSame
  <2>3. Count(Output', Events, n) = forwarded
    BY <1>t, <2>1, CountSame DEF PassedOn
  <2>4. Count(Output', Events, n + 1) = forwarded + IF holding' \in Events THEN 1 ELSE 0
    BY <1>t, <2>1, <2>3, CountNext
  <2>5. ASSUME NEW i \in 1..n, Output'[i] \in Events
        PROVE  Output'[i] = arrived'[Count(Output', Events, i)]
    BY <1>i, <1>b, <2>1, <2>2, <2>5 DEF PassedOn
  <2>6. CASE ForwardEvent
    <3>1. forwarded' = forwarded + 1 /\ forwarded' \in 1..Len(arrived)
          /\ holding' = arrived[forwarded'] /\ arrived' = arrived
      BY <1>t, <2>6 DEF ForwardEvent
    <3>2. holding' \in Events BY <1>t, <3>1
    <3>3. Count(Output', Events, n + 1) = forwarded' BY <2>4, <3>1, <3>2
    <3>4. QED BY <1>t, <2>1, <2>5, <3>1, <3>3 DEF PassedOn
  <2>7. CASE ~ ForwardEvent
    <3>1. status # "send"
      <4>1. Output # Output' BY <1>t, <2>1
      <4>2. QED
        BY <1>2, <2>7, <4>1 DEF Next, Task, Receive, BrokerReturns, TimeOut, Ticked, Leave, Send,
           SendFails, AfterSend, ClientSends, ClientReads, ClientLeaves, EventArrives, Pass, vars,
           loopVars, Output
    <3>2. BrokerReturns \/ TimeOut
      BY <1>2, <2>7, <3>1 DEF Next, Task, Receive, BrokerReturns, TimeOut, Ticked, Leave, Send,
         SendFails, ClientSends, ClientReads, ClientLeaves, EventArrives, Pass, vars, loopVars
    <3>3. holding' \notin Events BY <3>2 DEF BrokerReturns, TimeOut, Events
    <3>4. forwarded' = forwarded BY <1>f, <2>7
    <3>5. QED BY <1>t, <2>1, <2>4, <2>5, <3>3, <3>4 DEF PassedOn
  <2>8. QED BY <2>6, <2>7
<1>3. QED BY <1>1, <1>2, OutputStep

\* Answers: a topic request that was taken is answered, unless the broker has it.
LEMMA AnsweredStep ==
    ASSUME TypeOK, TypeOK', [Next]_vars, link' # "reset", AnsweredOnce
    PROVE  AnsweredOnce'
<1>t. /\ Output \in Seq(Responses) /\ Len(Output) \in Nat
      /\ sent \in Seq(Frames) /\ taken \in 0..Len(sent)
  BY OutputType DEF TypeOK
<1>c. Count(Output, Answers, Len(Output)) \in Nat /\ Count(sent, {"topic"}, taken) \in Nat
  BY <1>t, CountType
<1>i. Count(sent', {"topic"}, taken) = Count(sent, {"topic"}, taken)
  BY <1>t, InputStep, CountSame
<1>1. CASE Receive
  <2>1. Output' = Output BY <1>1 DEF Receive, Output
  <2>2. /\ sent' = sent /\ taken' = taken + 1 /\ status = "select"
        /\ status' \in {"select", "broker"} /\ (status' = "broker" <=> sent[taken + 1] = "topic")
    BY <1>1 DEF Receive, clientVars
  <2>3. Count(sent, {"topic"}, taken + 1)
          = Count(sent, {"topic"}, taken) + IF sent[taken + 1] = "topic" THEN 1 ELSE 0
    BY <1>t, CountNext
  <2>4. QED BY <1>c, <2>1, <2>2, <2>3 DEF AnsweredOnce
<1>2. CASE BrokerReturns \/ ForwardEvent \/ TimeOut
  <2>1. /\ Output' = Append(Output, holding') /\ UNCHANGED <<sent, taken>>
        /\ status' = "send" /\ (holding' \in Answers <=> status = "broker")
    <3>1. ForwardEvent => holding' \notin Answers
      <4>1. ASSUME ForwardEvent PROVE holding' \in Events
        BY <4>1 DEF ForwardEvent, TypeOK
      <4>2. QED BY <4>1 DEF Events, Answers
    <3>2. QED
      BY <1>2, <3>1 DEF BrokerReturns, ForwardEvent, TimeOut, Answers, Output, clientVars
  <2>2. /\ Len(Output') = Len(Output) + 1 /\ Output'[Len(Output) + 1] = holding'
        /\ \A i \in 1..Len(Output) : Output'[i] = Output[i]
    BY <1>t, <2>1, AppendFacts DEF TypeOK
  <2>3. Count(Output', Answers, Len(Output)) = Count(Output, Answers, Len(Output))
    BY <1>t, <2>2, CountSame
  <2>4. Count(Output', Answers, Len(Output) + 1)
          = Count(Output, Answers, Len(Output)) + IF holding' \in Answers THEN 1 ELSE 0
    BY <1>t, <2>2, <2>3, CountNext
  <2>5. QED BY <1>c, <2>1, <2>2, <2>4 DEF AnsweredOnce
<1>3. CASE ~ (Receive \/ BrokerReturns \/ ForwardEvent \/ TimeOut)
  <2>1. Output' = Output /\ taken' = taken /\ (status' = "broker" <=> status = "broker")
    <3>1. CASE Send
      BY <3>1 DEF Send, AfterSend, Output
    <3>2. ~ SendFails BY DEF SendFails, clientVars
    <3>3. QED
      BY <1>3, <3>1, <3>2 DEF Next, Task, Ticked, Leave, ClientSends, ClientReads, ClientLeaves,
         EventArrives, Pass, vars, loopVars, Output
  <2>2. QED BY <1>i, <2>1 DEF AnsweredOnce
<1>4. QED BY <1>1, <1>2, <1>3

\* The task of a client that has stopped sending ends behind the client's last frame.
LEMMA FinishedStep ==
    ASSUME TypeOK, [Next]_vars, link' # "reset", status = "closed" => taken = Len(sent)
    PROVE  (status = "closed" => taken = Len(sent))'
<1>1. CASE Leave
  BY <1>1 DEF Leave, clientVars
<1>2. CASE Send
  BY <1>2 DEF Send, AfterSend
<1>3. ~ SendFails BY DEF SendFails, clientVars
<1>4. QED
  BY <1>1, <1>2, <1>3 DEF Next, Task, Receive, BrokerReturns, ForwardEvent, Ticked, TimeOut,
     ClientSends, ClientReads, ClientLeaves, EventArrives, Pass, Open, vars, clientVars, loopVars

\* Until the client resets the stream, every event and every answer goes out once and in
\* order, however long the queue stays full.
THEOREM NothingIsDropped == Spec => []NothingDropped
<1>1. Init => NothingDropped
  <2>. SUFFICES ASSUME Init PROVE NothingDropped
    OBVIOUS
  <2>1. /\ Output = <<"connect">> /\ Len(Output) = 1 /\ Output[1] = "connect"
        /\ taken = 0 /\ forwarded = 0 /\ status = "select"
    BY DEF Init, Output
  <2>2. \A i \in 1..1 : Output[i] \notin Events /\ Output[i] \notin Answers
    BY <2>1 DEF Events, Answers
  <2>3. {i \in 1..1 : Output[i] \in Events} = {} /\ {i \in 1..1 : Output[i] \in Answers} = {}
        /\ {i \in 1..0 : sent[i] \in {"topic"}} = {}
    BY <2>2
  <2>4. Count(Output, Events, 1) = 0 /\ Count(Output, Answers, 1) = 0
        /\ Count(sent, {"topic"}, 0) = 0
    BY <2>3, FS_EmptySet DEF Count
  <2>5. QED BY <2>1, <2>2, <2>4 DEF NothingDropped, PassedOn, AnsweredOnce
<1>2. TypeOK /\ TypeOK' /\ NothingDropped /\ [Next]_vars => NothingDropped'
  BY PassedStep, AnsweredStep, FinishedStep, InputStep DEF NothingDropped
<1>3. QED BY <1>1, <1>2, ChannelTyped, PTL DEF Spec

-----------------------------------------------------------------------------
(* The refinement of Keepalive.                                            *)

\* The task that decides to time out a client does nothing else any more.
DecisionInv == holding = "timeout" => status \in {"send", "timed_out"}

LEMMA DecisionStep == ASSUME TypeOK, DecisionInv, [Next]_vars PROVE DecisionInv'
<1>1. CASE ForwardEvent
  <2>1. holding' \in Events BY <1>1 DEF ForwardEvent, TypeOK
  <2>2. QED BY <2>1 DEF DecisionInv, Events
<1>2. QED
  BY <1>1 DEF DecisionInv, Next, Task, Receive, BrokerReturns, Ticked, TimeOut, Leave, Send,
     SendFails, AfterSend, Events, ClientSends, ClientReads, ClientLeaves, EventArrives, Pass,
     vars, loopVars

LEMMA StepKeepsPromise ==
    ASSUME TypeOK, SilentIsReleased', DecisionInv, DecisionInv', [Next]_vars
    PROVE  [Promise!Next]_(Promise!vars)
<1>n. IdleTimeout \in Nat /\ Period \in Nat /\ RedisTime \in Nat BY ChannelAssumption
<1> USE DEF Promise!Next, Promise!vars, DecisionInv, Open
<1>1. CASE Receive
  BY <1>1 DEF Receive, clientVars, Promise!Hear
<1>2. CASE BrokerReturns \/ Ticked \/ Send
  BY <1>2 DEF BrokerReturns, Ticked, Send, AfterSend, clientVars, loopVars, timerVars
<1>3. CASE ForwardEvent
  <2>1. holding' \in Events BY <1>3 DEF ForwardEvent, TypeOK
  <2>2. QED BY <1>3, <2>1 DEF ForwardEvent, Events, clientVars, timerVars
<1>4. CASE TimeOut
  BY <1>4 DEF TimeOut, Overdue, clientVars, timerVars, Promise!TimeOut
<1>5. CASE Leave \/ SendFails
  BY <1>5 DEF Leave, SendFails, AfterSend, Events, clientVars, timerVars, Promise!Close
<1>6. CASE (\E f \in Frames : ClientSends(f)) \/ ClientReads \/ ClientLeaves
           \/ (\E e \in Events : EventArrives(e)) \/ UNCHANGED vars
  BY <1>6 DEF ClientSends, ClientReads, ClientLeaves, EventArrives, vars, clientVars, loopVars,
     timerVars
<1>7. CASE Pass
  <2>1. now' = now + 1 /\ UNCHANGED <<client, status, holding, last_inbound_at>>
    BY <1>7 DEF Pass, clientVars, loopVars, timerVars
  <2>2. Open /\ client # "slow" =>
          \/ now < last_inbound_at + (IdleTimeout + Period)
          \/ now < last_inbound_at + RedisTime
    BY <1>n, <2>1 DEF TypeOK, SilentIsReleased
  <2>3. Open /\ client # "slow" =>
          now < last_inbound_at + IF RedisTime > IdleTimeout + Period THEN RedisTime
                                  ELSE IdleTimeout + Period
    BY <1>n, <2>2 DEF TypeOK
  <2>4. QED BY <2>1, <2>3 DEF Promise!Pass
<1>8. QED BY <1>1, <1>2, <1>3, <1>4, <1>5, <1>6, <1>7 DEF Next, Task

\* The gRPC server keeps the same contract as the WebSocket server, although it looks at
\* the clock once per Period only, waits for the broker, and queues what it has decided.
THEOREM StreamsKeepThePromise == Spec => ImplementsKeepalive
<1>1. Init => DecisionInv /\ Promise!Init
  BY DEF Init, DecisionInv, Open, Promise!Init
<1>2. TypeOK /\ DecisionInv /\ [Next]_vars => DecisionInv' BY DecisionStep
<1>3. TypeOK /\ SilentIsReleased' /\ DecisionInv /\ DecisionInv' /\ [Next]_vars
        => [Promise!Next]_(Promise!vars)
  BY StepKeepsPromise
<1>4. QED
  BY <1>1, <1>2, <1>3, ChannelTyped, SilentClientIsReleased, PTL
  DEF Spec, ImplementsKeepalive, Promise!Spec
=============================================================================
