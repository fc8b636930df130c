--------------------------- MODULE LiveUpdatesProofs ---------------------------
(* Theorems about LiveUpdates, for any number of clients and any capacity. *)
EXTENDS LiveUpdates, TLAPS

LEMMA AppendFacts ==
    ASSUME NEW S, NEW s \in Seq(S), NEW x \in S
    PROVE  /\ Append(s, x) \in Seq(S)
           /\ Len(Append(s, x)) = Len(s) + 1
           /\ \A i \in 1..Len(s) : Append(s, x)[i] = s[i]
           /\ Append(s, x)[Len(s) + 1] = x
OBVIOUS

LEMMA SeqWiden ==
    ASSUME NEW n \in Nat, NEW s \in Seq(1..n)
    PROVE  s \in Seq(1..(n + 1))
OBVIOUS

-----------------------------------------------------------------------------
(* Types.                                                                  *)

\* What a step may do to ws_tx: nothing, or one send.
Sends(m) == m \in 0..MaxConfirmed /\ ring' = Append(ring, m)

LEMMA StepSends ==
    ASSUME TypeOK, [Next]_vars
    PROVE  ring' = ring \/ \E m \in 0..MaxConfirmed : Sends(m)
<1>1. taken \in Nat /\ confirmed \in 0..MaxConfirmed /\ taken <= confirmed /\ MaxConfirmed \in Nat
  BY LiveBounds DEF TypeOK
<1>2. CASE ReceiveWebhook BY <1>1, <1>2 DEF ReceiveWebhook, Sends
<1>3. CASE Forward BY <1>1, <1>3 DEF Forward, Sends
<1>4. CASE ring' = ring BY <1>4
<1>5. QED
  BY <1>2, <1>3, <1>4 DEF Next, Confirm, ForwarderConnects, ForwarderSubscribes, ForwarderEnds,
     Upgrade, Stream, Receive, Lag, Written, WriteFails, ClientCloses, vars

LEMMA RingGrows ==
    ASSUME TypeOK, [Next]_vars
    PROVE  /\ ring' \in Seq(0..MaxConfirmed)
           /\ Len(ring') = Len(ring) \/ Len(ring') = Len(ring) + 1
           /\ Len(ring) \in Nat
<1>1. ring \in Seq(0..MaxConfirmed) /\ Len(ring) \in Nat BY DEF TypeOK
<1>2. CASE ring' = ring BY <1>1, <1>2
<1>3. ASSUME NEW m \in 0..MaxConfirmed, ring' = Append(ring, m)
      PROVE  ring' \in Seq(0..MaxConfirmed) /\ Len(ring') = Len(ring) + 1
  BY <1>1, <1>3, AppendFacts
<1>4. QED BY <1>1, <1>2, <1>3, StepSends DEF Sends

Phases == {"away", "recv", "send", "ended"}

\* A client that is written to has a message in hand.
InHand == \A c \in Clients : phase[c] = "send" => next[c] > 1
Typed == TypeOK /\ InHand

\* A longer ring widens the ranges of the positions.
LEMMA RangesWiden ==
    ASSUME Typed, [Next]_vars
    PROVE  /\ \A c \in Clients : next[c] \in 1..(Len(ring') + 1)
           /\ \A c \in Clients : got[c] \in Seq(1..Len(ring'))
<1>r. Len(ring) \in Nat /\ (Len(ring') = Len(ring) \/ Len(ring') = Len(ring) + 1)
  BY RingGrows DEF Typed
<1>t. \A c \in Clients : next[c] \in 1..(Len(ring) + 1) /\ got[c] \in Seq(1..Len(ring))
  BY DEF Typed, TypeOK
<1>1. CASE Len(ring') = Len(ring) BY <1>t, <1>1
<1>2. CASE Len(ring') = Len(ring) + 1
  <2>1. PICK n \in Nat : n = Len(ring) BY <1>r
  <2>2. \A c \in Clients : got[c] \in Seq(1..n) BY <1>t, <2>1
  <2>3. \A c \in Clients : got[c] \in Seq(1..(n + 1)) BY <2>2, SeqWiden
  <2>4. QED BY <1>t, <1>r, <1>2, <2>1, <2>3
<1>3. QED BY <1>r, <1>1, <1>2

LEMMA ReceivedType ==
    ASSUME Typed, NEW c \in Clients, Receive(c)
    PROVE  next[c] \in 1..Len(ring)
<1>1. Len(ring) \in Nat /\ next[c] \in 1..(Len(ring) + 1)
  BY DEF Typed, TypeOK
<1>2. Oldest \in Nat BY <1>1, CapacityAssumption DEF Oldest
<1>3. next[c] \in Oldest..Len(ring) BY DEF Receive
<1>4. QED BY <1>1, <1>2, <1>3

\* A step of one client.
LEMMA ClientTyped ==
    ASSUME Typed, [Next]_vars, NEW c \in Clients, Upgrade(c) \/ Stream(c) \/ ClientCloses(c)
    PROVE  /\ phase' \in [Clients -> Phases]
           /\ next' \in [Clients -> 1..(Len(ring') + 1)]
           /\ got' \in [Clients -> Seq(1..Len(ring'))]
           /\ gone' \subseteq Clients
           /\ InHand'
           /\ ring' = ring
<1>r. Len(ring) \in Nat BY RingGrows DEF Typed
<1>t. /\ phase \in [Clients -> Phases] /\ next \in [Clients -> 1..(Len(ring) + 1)]
      /\ got \in [Clients -> Seq(1..Len(ring))] /\ gone \subseteq Clients
      /\ \A d \in Clients : phase[d] = "send" => next[d] > 1
  BY DEF Typed, TypeOK, Phases, InHand
<1> USE DEF Phases, InHand
<1>1. CASE Upgrade(c)
  <2>1. Len(ring) + 1 \in 1..(Len(ring) + 1) BY <1>r
  <2>2. QED BY <1>1, <1>t, <2>1 DEF Upgrade
<1>2. CASE Receive(c)
  <2>1. next[c] \in 1..Len(ring) BY <1>2, ReceivedType
  <2>2. next[c] + 1 \in 1..(Len(ring) + 1) /\ next[c] + 1 > 1 BY <1>r, <2>1
  <2>3. QED BY <1>2, <1>t, <2>2 DEF Receive
<1>3. CASE Written(c)
  <2>1. next[c] - 1 \in 1..Len(ring) BY <1>r, <1>t, <1>3 DEF Written
  <2>2. PICK m \in 1..Len(ring) : m = next[c] - 1 BY <2>1
  <2>3. Append(got[c], m) \in Seq(1..Len(ring)) BY <1>t, AppendFacts
  <2>4. got' = [got EXCEPT ![c] = Append(got[c], m)] BY <1>3, <2>2 DEF Written
  <2>5. got' \in [Clients -> Seq(1..Len(ring))] BY <1>t, <2>3, <2>4
  <2>6. QED BY <1>3, <1>t, <2>5 DEF Written
<1>4. CASE Lag(c) \/ WriteFails(c) \/ ClientCloses(c)
  BY <1>4, <1>t DEF Lag, WriteFails, ClientCloses
<1>5. QED BY <1>1, <1>2, <1>3, <1>4 DEF Stream

LEMMA TypedStep == ASSUME Typed, [Next]_vars PROVE Typed'
<1>r. ring' \in Seq(0..MaxConfirmed) BY RingGrows DEF Typed
<1>1. /\ webhooks' \in 0..MaxWebhooks /\ confirmed' \in 0..MaxConfirmed
      /\ forwarder' \in {"connect", "subscribe", "stream", "ended"}
      /\ taken' \in 0..confirmed' /\ faults' \in 0..MaxFaults
  BY LiveBounds DEF Typed, TypeOK, Next, ReceiveWebhook, Confirm, ForwarderConnects,
     ForwarderSubscribes, Forward, ForwarderEnds, Upgrade, Stream, Receive, Lag, Written,
     WriteFails, ClientCloses, vars, sourceVars, forwarderVars
<1>2. CASE UNCHANGED clientVars
  BY <1>r, <1>1, <1>2, RangesWiden DEF Typed, TypeOK, InHand, clientVars
<1>3. ASSUME NEW c \in Clients, Upgrade(c) \/ Stream(c) \/ ClientCloses(c) PROVE Typed'
  BY <1>r, <1>1, <1>3, ClientTyped DEF Typed, TypeOK, Phases
<1>4. QED
  BY <1>2, <1>3 DEF Next, ReceiveWebhook, Confirm, ForwarderConnects, ForwarderSubscribes,
     Forward, ForwarderEnds, vars

LEMMA AlwaysTyped == Spec => []Typed
<1>1. Init => Typed
  BY LiveBounds DEF Init, Typed, TypeOK, InHand
<1>2. QED BY <1>1, TypedStep, PTL DEF Spec

\* Every queue, position and phase of the realtime side keeps its type.
THEOREM RealtimeTyped == Spec => []TypeOK
BY AlwaysTyped, PTL DEF Typed

-----------------------------------------------------------------------------
(* What a client sees.                                                     *)

\* The last message written to a client is the one before its receiver, or before
\* the message in hand.
LastWritten(c) ==
    /\ phase[c] = "away" => got[c] = <<>>
    /\ phase[c] = "recv" /\ got[c] # <<>> => got[c][Len(got[c])] = next[c] - 1
    /\ phase[c] = "send" /\ got[c] # <<>> => got[c][Len(got[c])] = next[c] - 2
NoGap(s) == \A i \in 1..Len(s) : i > 1 => s[i] = s[i - 1] + 1
SeenInv == \A c \in Clients : LastWritten(c) /\ NoGap(got[c])

LEMMA AppendNoGap ==
    ASSUME NEW n \in Nat, NEW s \in Seq(1..n), NEW x \in 1..n, NoGap(s),
           s # <<>> => s[Len(s)] = x - 1
    PROVE  NoGap(Append(s, x)) /\ Append(s, x)[Len(Append(s, x))] = x
<1>1. /\ Append(s, x) \in Seq(1..n) /\ Len(Append(s, x)) = Len(s) + 1 /\ Len(s) \in Nat
      /\ \A i \in 1..Len(s) : Append(s, x)[i] = s[i]
      /\ Append(s, x)[Len(s) + 1] = x
  BY AppendFacts
<1>2. ASSUME NEW i \in 1..(Len(s) + 1), i > 1 PROVE Append(s, x)[i] = Append(s, x)[i - 1] + 1
  <2>1. CASE i \in 1..Len(s)
    <3>1. i - 1 \in 1..Len(s) BY <1>2, <2>1
    <3>2. QED BY <1>1, <1>2, <2>1, <3>1 DEF NoGap
  <2>2. CASE i = Len(s) + 1
    <3>1. i - 1 = Len(s) /\ Len(s) \in 1..Len(s) /\ s # <<>> BY <1>1, <1>2, <2>2
    <3>2. s[Len(s)] = x - 1 /\ Append(s, x)[Len(s)] = s[Len(s)] BY <1>1, <3>1
    <3>3. QED BY <1>1, <2>2, <3>1, <3>2
  <2>3. QED BY <1>1, <1>2, <2>1, <2>2
<1>3. PICK t : t = Append(s, x) OBVIOUS
<1>4. Len(t) = Len(s) + 1 BY <1>1, <1>3
<1>5. NoGap(t) BY <1>2, <1>3, <1>4 DEF NoGap
<1>6. t[Len(t)] = x BY <1>1, <1>3, <1>4
<1>7. QED BY <1>3, <1>5, <1>6

LEMMA SeenStep == ASSUME Typed, SeenInv, [Next]_vars PROVE SeenInv'
<1>t. /\ phase \in [Clients -> Phases] /\ Len(ring) \in Nat
      /\ next \in [Clients -> 1..(Len(ring) + 1)]
      /\ got \in [Clients -> Seq(1..Len(ring))]
  BY DEF Typed, TypeOK, Phases
<1>1. CASE UNCHANGED clientVars
  BY <1>1 DEF SeenInv, LastWritten, clientVars
<1>2. ASSUME NEW c \in Clients, Upgrade(c) \/ Stream(c) \/ ClientCloses(c) PROVE SeenInv'
  <2>1. ASSUME NEW d \in Clients, d # c PROVE LastWritten(d)' /\ NoGap(got[d])'
    <3>1. phase'[d] = phase[d] /\ next'[d] = next[d] /\ got'[d] = got[d]
      BY <1>2, <1>t, <2>1 DEF Upgrade, Stream, Receive, Lag, Written, WriteFails, ClientCloses
    <3>2. QED BY <3>1 DEF SeenInv, LastWritten, NoGap
  <2>2. LastWritten(c)' /\ NoGap(got[c])'
    <3>1. CASE Upgrade(c)
      BY <1>t, <3>1 DEF Upgrade, SeenInv, LastWritten
    <3>2. CASE Receive(c)
      BY <1>t, <3>2 DEF Receive, SeenInv, LastWritten
    <3>3. CASE Lag(c) \/ WriteFails(c)
      BY <1>t, <3>3 DEF Lag, WriteFails, SeenInv, LastWritten
    <3>4. CASE ClientCloses(c)
      BY <1>t, <3>4 DEF ClientCloses, SeenInv, LastWritten
    <3>5. CASE Written(c)
      <4>1. next[c] - 1 \in 1..Len(ring) BY <1>t, <3>5 DEF Written, Typed, InHand
      <4>2. PICK x \in 1..Len(ring) : x = next[c] - 1 BY <4>1
      <4>3. PICK s : s = got[c] OBVIOUS
      <4>4. s \in Seq(1..Len(ring)) /\ NoGap(s) BY <1>t, <4>3 DEF SeenInv
      <4>5. s # <<>> => s[Len(s)] = x - 1
        <5>1. s # <<>> => s[Len(s)] = next[c] - 2
          BY <3>5, <4>3 DEF Written, SeenInv, LastWritten
        <5>2. QED BY <1>t, <4>2, <5>1
      <4>6. NoGap(Append(s, x)) /\ Append(s, x)[Len(Append(s, x))] = x
        BY <1>t, <4>4, <4>5, AppendNoGap
      <4>7. got'[c] = Append(s, x) /\ phase'[c] = "recv" /\ next'[c] = next[c]
        BY <1>t, <3>5, <4>2, <4>3 DEF Written
      <4>8. QED BY <4>2, <4>6, <4>7 DEF LastWritten
    <3>6. QED BY <1>2, <3>1, <3>2, <3>3, <3>4, <3>5 DEF Stream
  <2>3. QED BY <2>1, <2>2 DEF SeenInv
<1>3. QED
  BY <1>1, <1>2 DEF Next, ReceiveWebhook, Confirm, ForwarderConnects, ForwarderSubscribes,
     Forward, ForwarderEnds, vars

\* What a client of /ws sees has no gaps, for every capacity of the channel: one that
\* falls behind is disconnected.
THEOREM ClientsSeeNoGaps == Spec => []NoGaps
<1>1. Init => SeenInv
  <2>1. NoGap(<<>>) BY DEF NoGap
  <2>2. QED BY <2>1 DEF Init, SeenInv, LastWritten
<1>2. Typed /\ SeenInv /\ [Next]_vars => SeenInv' BY SeenStep
<1>3. Typed /\ SeenInv => NoGaps
  <2>1. ASSUME Typed, NEW c \in Clients PROVE DOMAIN got[c] = 1..Len(got[c])
    BY <2>1 DEF Typed, TypeOK
  <2>2. QED BY <2>1 DEF SeenInv, NoGap, NoGaps
<1>4. QED BY <1>1, <1>2, <1>3, AlwaysTyped, PTL DEF Spec

-----------------------------------------------------------------------------
(* The order of the confirmations.                                         *)

\* The last confirmation in the ring is the last one the forwarder has taken, and
\* before it streams there is none.
Quiet(r, i, j) == \A k \in (i + 1)..j : r[k] = 0
RingInv ==
    /\ forwarder \in {"connect", "subscribe"} => \A i \in 1..Len(ring) : ring[i] = 0
    /\ forwarder = "stream" =>
         \A i \in 1..Len(ring) : ring[i] > 0 /\ Quiet(ring, i, Len(ring)) => ring[i] = taken
    /\ \A i, j \in 1..Len(ring) :
         i < j /\ ring[i] > 0 /\ ring[j] > 0 /\ Quiet(ring, i, j - 1) => ring[j] = ring[i] + 1

LEMMA RingSend ==
    ASSUME Typed, RingInv, NEW m \in 0..MaxConfirmed, ring' = Append(ring, m),
           forwarder' = forwarder,
           \/ m = 0 /\ taken' = taken
           \/ forwarder = "stream" /\ m = taken + 1 /\ taken' = m
    PROVE  RingInv'
<1> DEFINE n == Len(ring)
<1>t. n \in Nat /\ taken \in Nat /\ \A i \in 1..n : ring[i] \in Nat
  BY LiveBounds DEF Typed, TypeOK
<1>a. Len(ring') = n + 1 /\ ring'[n + 1] = m /\ \A i \in 1..n : ring'[i] = ring[i]
  BY AppendFacts DEF Typed, TypeOK
<1> HIDE DEF n
<1>r. /\ forwarder \in {"connect", "subscribe"} => \A i \in 1..n : ring[i] = 0
      /\ forwarder = "stream" => \A i \in 1..n : ring[i] > 0 /\ Quiet(ring, i, n) => ring[i] = taken
      /\ \A i, j \in 1..n :
           i < j /\ ring[i] > 0 /\ ring[j] > 0 /\ Quiet(ring, i, j - 1) => ring[j] = ring[i] + 1
  BY DEF RingInv, n
<1>1. ASSUME forwarder \in {"connect", "subscribe"}, NEW i \in 1..(n + 1) PROVE ring'[i] = 0
  BY <1>t, <1>a, <1>r, <1>1
<1>2. ASSUME forwarder = "stream", NEW i \in 1..(n + 1), ring'[i] > 0, Quiet(ring', i, n + 1)
      PROVE  ring'[i] = taken'
  <2>1. CASE i = n + 1
    BY <1>t, <1>a, <1>2, <2>1
  <2>2. CASE i \in 1..n
    <3>0. \A k \in (i + 1)..(n + 1) : ring'[k] = 0 BY <1>2 DEF Quiet
    <3>1. ring'[n + 1] = 0
      <4>1. n + 1 \in (i + 1)..(n + 1) BY <1>t, <2>2
      <4>2. QED BY <3>0, <4>1
    <3>2. Quiet(ring, i, n)
      <4>1. \A k \in (i + 1)..n : k \in (i + 1)..(n + 1) /\ k \in 1..n BY <1>t, <2>2
      <4>2. QED BY <1>a, <3>0, <4>1 DEF Quiet
    <3>3. ring[i] = taken BY <1>a, <1>r, <1>2, <2>2, <3>2
    <3>4. taken' = taken BY <1>a, <1>t, <3>1
    <3>5. ring'[i] = ring[i] BY <1>a, <2>2
    <3>6. QED BY <3>3, <3>4, <3>5, Zenon
  <2>3. i \in 1..n \/ i = n + 1 BY <1>t, <1>2
  <2>4. QED BY <2>1, <2>2, <2>3, Zenon
<1>3. ASSUME NEW i \in 1..(n + 1), NEW j \in 1..(n + 1), i < j, ring'[i] > 0, ring'[j] > 0,
             Quiet(ring', i, j - 1)
      PROVE  ring'[j] = ring'[i] + 1
  <2>0. i \in 1..n BY <1>t, <1>3
  <2>1. CASE j \in 1..n
    <3>1. Quiet(ring, i, j - 1)
      <4>1. \A k \in (i + 1)..(j - 1) : k \in 1..n BY <1>t, <2>0, <2>1
      <4>2. QED BY <1>a, <1>3, <4>1 DEF Quiet
    <3>2. QED BY <1>a, <1>r, <1>3, <2>0, <2>1, <3>1
  <2>2. CASE j = n + 1
    <3>1. m > 0 /\ forwarder = "stream" /\ m = taken + 1 BY <1>t, <1>a, <1>3, <2>2
    <3>2. Quiet(ring, i, n)
      <4>1. \A k \in (i + 1)..n : k \in 1..n /\ k \in (i + 1)..(j - 1) BY <1>t, <2>0, <2>2
      <4>2. QED BY <1>a, <1>3, <4>1 DEF Quiet
    <3>3. ring[i] = taken BY <1>a, <1>r, <1>3, <2>0, <3>1, <3>2
    <3>4. ring'[i] = ring[i] /\ ring'[j] = m BY <1>a, <2>0, <2>2
    <3>5. QED BY <3>1, <3>3, <3>4
  <2>3. j \in 1..n \/ j = n + 1 BY <1>t, <1>3
  <2>4. QED BY <2>1, <2>2, <2>3, Zenon
<1>4. /\ forwarder' \in {"connect", "subscribe"} => \A i \in 1..Len(ring') : ring'[i] = 0
      /\ forwarder' = "stream" =>
           \A i \in 1..Len(ring') :
             ring'[i] > 0 /\ Quiet(ring', i, Len(ring')) => ring'[i] = taken'
  BY <1>a, <1>1, <1>2
<1>5. \A i, j \in 1..Len(ring') :
        i < j /\ ring'[i] > 0 /\ ring'[j] > 0 /\ Quiet(ring', i, j - 1) => ring'[j] = ring'[i] + 1
  BY <1>a, <1>3
<1>6. QED BY <1>4, <1>5 DEF RingInv, Quiet

LEMMA RingStep == ASSUME Typed, RingInv, [Next]_vars PROVE RingInv'
<1>t. taken \in Nat /\ taken <= confirmed /\ confirmed \in 0..MaxConfirmed /\ MaxConfirmed \in Nat
  BY LiveBounds DEF Typed, TypeOK
<1>1. CASE ReceiveWebhook
  <2>1. 0 \in 0..MaxConfirmed BY <1>t
  <2>2. QED BY <1>1, <2>1, RingSend DEF ReceiveWebhook, forwarderVars
<1>2. CASE Forward
  <2>1. PICK m \in 0..MaxConfirmed : m = taken + 1 BY <1>t, <1>2 DEF Forward
  <2>2. ring' = Append(ring, m) /\ taken' = m /\ forwarder = "stream" /\ forwarder' = forwarder
    BY <1>2, <2>1 DEF Forward
  <2>3. QED BY <2>1, <2>2, RingSend
<1>3. CASE ForwarderConnects
  BY <1>3 DEF ForwarderConnects, RingInv, Quiet
<1>4. CASE ForwarderSubscribes
  BY <1>4 DEF ForwarderSubscribes, RingInv, Quiet
<1>5. CASE ForwarderEnds
  BY <1>5 DEF ForwarderEnds, RingInv, Quiet
<1>6. CASE UNCHANGED <<ring, forwarder, taken>>
  BY <1>6 DEF RingInv, Quiet
<1>7. QED
  BY <1>1, <1>2, <1>3, <1>4, <1>5, <1>6 DEF Next, Confirm, Upgrade, Stream, Receive, Lag,
     Written, WriteFails, ClientCloses, vars, forwarderVars

\* The forwarder hands over the confirmations in order and without gaps.
THEOREM ConfirmationsKeepOrder == Spec => []ConfirmationsInOrder
<1>1. Init => RingInv BY DEF Init, RingInv
<1>2. Typed /\ RingInv /\ [Next]_vars => RingInv' BY RingStep
<1>3. Typed /\ RingInv => ConfirmationsInOrder
  <2>1. Typed => DOMAIN ring = 1..Len(ring) BY DEF Typed, TypeOK
  <2>2. QED BY <2>1 DEF RingInv, Quiet, ConfirmationsInOrder
<1>4. QED BY <1>1, <1>2, <1>3, AlwaysTyped, PTL DEF Spec
=============================================================================
