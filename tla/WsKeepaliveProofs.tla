--------------------------- MODULE WsKeepaliveProofs ---------------------------
(* Proofs about WsKeepalive, for all settings and all clients.             *)
EXTENDS WsKeepalive, TLAPS

\* The types of the timers hold throughout, and none of them runs ahead.
THEOREM TimersTyped == Spec => []TypeOK
<1>1. Init => TypeOK
    BY ConfigAssumption, ClientAssumption DEF Init, TypeOK
<1>2. TypeOK /\ [Next]_vars => TypeOK'
  <2>. SUFFICES ASSUME TypeOK, [Next]_vars PROVE TypeOK'
    OBVIOUS
  <2>. USE ConfigAssumption
  <2>1. CASE SendPing
    BY <2>1 DEF TypeOK, SendPing, RestartInterval
  <2>2. CASE Pass
    BY <2>2 DEF TypeOK, Pass
  <2>3. CASE Pong \/ ClientPing
    <3>1. asked' \subseteq asked
      BY <2>3 DEF Pong, ClientPing
    <3>2. /\ client' = client
          /\ now' = now
          /\ status' = status
          /\ next_tick' = next_tick
          /\ last_pong_at' = now
      BY <2>3 DEF Pong, ClientPing
    <3>. QED  BY <3>1, <3>2 DEF TypeOK
  <2>4. CASE TimeOut \/ WriteWaits \/ WriteEnds \/ Disconnect \/ UNCHANGED vars
    <3>1. /\ client' = client
          /\ <<now, next_tick, last_pong_at, asked>>' = <<now, next_tick, last_pong_at, asked>>
          /\ status' \in {status, "select", "write", "closed", "timed_out"}
      BY <2>4 DEF TimeOut, WriteWaits, WriteEnds, Disconnect, vars
    <3>. QED  BY <3>1 DEF TypeOK
  <2>. QED  BY <2>1, <2>2, <2>3, <2>4 DEF Next
<1>. QED  BY <1>1, <1>2, PTL DEF Spec

-----------------------------------------------------------------------------
(* The pings of the last period determine next_tick: it is never closer to *)
(* an unanswered ping than a period.                                       *)

SpacedInv ==
    /\ TypeOK
    /\ \A a \in asked : next_tick >= a + Period
    /\ PingsAreSpaced

\* Two unanswered pings are always a period apart, whatever held up the loop.
THEOREM PingsSpaced == Spec => []PingsAreSpaced
<1>1. Init => SpacedInv
    BY ConfigAssumption, ClientAssumption DEF Init, SpacedInv, TypeOK, PingsAreSpaced
<1>2. SpacedInv /\ TypeOK' /\ [Next]_vars => SpacedInv'
  <2>. SUFFICES ASSUME SpacedInv, TypeOK', [Next]_vars PROVE SpacedInv'
    OBVIOUS
  <2>. USE ConfigAssumption, ClientAssumption
  <2>1. CASE SendPing
    <3>1. \A a \in asked : a + Period <= now
      BY <2>1 DEF SpacedInv, TypeOK, SendPing
    <3>2. \A a \in asked' : next_tick' >= a + Period
      BY <2>1, <3>1 DEF SpacedInv, TypeOK, SendPing, RestartInterval
    <3>3. PingsAreSpaced'
      BY <2>1, <3>1 DEF SpacedInv, TypeOK, SendPing, PingsAreSpaced
    <3>. QED  BY <3>2, <3>3 DEF SpacedInv
  <2>2. CASE TimeOut \/ Pong \/ ClientPing \/ WriteWaits \/ WriteEnds \/ Disconnect \/ Pass
            \/ UNCHANGED vars
    BY <2>2 DEF SpacedInv, TypeOK, PingsAreSpaced, TimeOut, Pong, ClientPing, WriteWaits,
                WriteEnds, Disconnect, Pass, Open, vars
  <2>. QED  BY <2>1, <2>2 DEF Next
<1>3. SpacedInv => PingsAreSpaced
    BY DEF SpacedInv
<1>. QED  BY <1>1, <1>2, <1>3, TimersTyped, PTL DEF Spec

-----------------------------------------------------------------------------
(* A prompt client has answered a ping before the next tick, so at a tick  *)
(* its last pong is at most a period and the lateness of the loop old.     *)

Settings == Period + Lateness <= PongTimeout /\ Rtt < Period

PromptInv ==
    client = "prompt" =>
        /\ status # "timed_out"
        /\ status # "write"
        /\ status = "select" =>
            /\ now <= next_tick + Lateness
            /\ \A a \in asked : a = next_tick - Period /\ now <= a + Rtt
            /\ asked = {} => last_pong_at >= next_tick - Period

\* With settings that leave room for the period and the delay of the loop, the
\* keepalive never closes the connection of a client that answers in time.
THEOREM PromptClientIsKept == Settings /\ Spec => []PromptIsKept
<1>. SUFFICES ASSUME Settings PROVE Spec => []PromptIsKept
    OBVIOUS
<1>1. Init => PromptInv
    BY ConfigAssumption, ClientAssumption DEF Init, PromptInv
<1>2. TypeOK /\ PromptInv /\ TypeOK' /\ [Next]_vars => PromptInv'
  <2>0. [Next]_vars => client' = client
    BY DEF Next, vars, TimeOut, SendPing, Pong, ClientPing, WriteWaits, WriteEnds,
           Disconnect, Pass
  <2>. SUFFICES ASSUME TypeOK, PromptInv, TypeOK', [Next]_vars, client = "prompt"
                PROVE PromptInv'
    BY <2>0 DEF PromptInv
  <2>. USE ConfigAssumption, ClientAssumption
  <2>1. ~ WriteWaits /\ ~ WriteEnds
    BY DEF PromptInv, WriteWaits, WriteEnds
  <2>2. CASE Disconnect \/ UNCHANGED vars
    BY <2>2 DEF PromptInv, Disconnect, vars
  <2>3. CASE now >= next_tick /\ status = "select"
    <3>1. asked = {}
      BY <2>3 DEF PromptInv, TypeOK, Settings
    <3>2. ~ Overdue
      BY <2>3, <3>1 DEF PromptInv, TypeOK, Settings, Overdue
    <3>3. CASE SendPing
      BY <2>3, <3>1, <3>3
      DEF PromptInv, TypeOK, SendPing, RestartInterval
    <3>4. CASE TimeOut
      BY <3>2, <3>4 DEF TimeOut
    <3>5. CASE Pass
      BY <2>3, <3>1, <3>5 DEF PromptInv, TypeOK, Pass, Open
    <3>6. CASE ClientPing
      BY <2>3, <3>1, <3>6 DEF PromptInv, TypeOK, ClientPing
    <3>7. ~ Pong
      BY <3>1 DEF Pong
    <3>. QED  BY <2>1, <2>2, <3>3, <3>4, <3>5, <3>6, <3>7 DEF Next
  <2>4. CASE ~ (now >= next_tick /\ status = "select")
    <3>1. ~ TimeOut /\ ~ SendPing
      BY <2>4 DEF TimeOut, SendPing
    <3>2. CASE Pong
      BY <3>2 DEF PromptInv, TypeOK, Pong
    <3>3. CASE ClientPing
      BY <3>3 DEF PromptInv, TypeOK, ClientPing
    <3>4. CASE Pass
      BY <3>4 DEF PromptInv, TypeOK, Pass, Open
    <3>. QED  BY <2>1, <2>2, <3>1, <3>2, <3>3, <3>4 DEF Next
  <2>. QED  BY <2>3, <2>4
<1>3. PromptInv => PromptIsKept
    BY DEF PromptInv, PromptIsKept
<1>. QED  BY <1>1, <1>2, <1>3, TimersTyped, PTL DEF Spec

-----------------------------------------------------------------------------
(* At its last tick the loop saw a sign of life at most PongTimeout old.   *)

SilentInv ==
    client # "slow" =>
        /\ status # "write"
        /\ status = "select" =>
            /\ now <= next_tick + Lateness
            /\ last_pong_at >= next_tick - Period - PongTimeout

\* As long as no write waits for the client, a silent client is closed in time.
THEOREM SilentClientIsClosed == Spec => []SilentIsClosed
<1>1. Init => SilentInv
    BY ConfigAssumption, ClientAssumption DEF Init, SilentInv
<1>2. TypeOK /\ SilentInv /\ [Next]_vars => SilentInv'
    BY ConfigAssumption, ClientAssumption
    DEF TypeOK, SilentInv, Next, vars, TimeOut, SendPing, Pong, ClientPing, WriteWaits,
        WriteEnds, Disconnect, Pass, Open, Overdue, RestartInterval
<1>3. TypeOK /\ SilentInv => SilentIsClosed
    BY ConfigAssumption, ClientAssumption DEF TypeOK, SilentInv, SilentIsClosed, Open
<1>. QED  BY <1>1, <1>2, <1>3, TimersTyped, PTL DEF Spec

-----------------------------------------------------------------------------
(* The refinement of Keepalive.                                            *)

LEMMA StepKeepsPromise ==
    ASSUME TypeOK, SilentIsClosed', [Next]_vars
    PROVE  [Promise!Next]_(Promise!vars)
<1> USE DEF Promise!Next, Promise!vars, Open
<1>1. CASE TimeOut
  BY <1>1 DEF TimeOut, Overdue, Promise!TimeOut
<1>2. CASE Pong \/ ClientPing
  BY <1>2 DEF Pong, ClientPing, Promise!Hear
<1>3. CASE SendPing \/ WriteWaits \/ WriteEnds \/ UNCHANGED vars
  BY <1>3 DEF SendPing, WriteWaits, WriteEnds, vars
<1>4. CASE Disconnect
  BY <1>4 DEF Disconnect, Promise!Close
<1>5. CASE Pass
  <2>1. /\ now' = now + 1
        /\ UNCHANGED <<client, status, last_pong_at>>
    BY <1>5 DEF Pass
  <2>2. Open /\ client # "slow" => now < last_pong_at + PongTimeout + Period + Lateness
    BY <2>1, ConfigAssumption, ClientAssumption DEF TypeOK, SilentIsClosed
  <2>3. Open /\ client # "slow" => now < last_pong_at + (PongTimeout + Period + Lateness)
    BY <2>2, ConfigAssumption, ClientAssumption DEF TypeOK
  <2>4. status \in {"select", "write", "closed", "timed_out"} BY DEF TypeOK
  <2>5. QED BY <2>1, <2>3, <2>4 DEF Promise!Pass
<1>6. QED BY <1>1, <1>2, <1>3, <1>4, <1>5 DEF Next

\* Ticks, pings and waiting writes are steps of nobody in Keepalive: whatever their
\* order, silence alone decides, after PongTimeout and before the limit.
THEOREM SocketsKeepThePromise == Spec => ImplementsKeepalive
<1>1. Init => Promise!Init
  BY DEF Init, Open, Promise!Init
<1>2. TypeOK /\ SilentIsClosed' /\ [Next]_vars => [Promise!Next]_(Promise!vars)
  BY StepKeepsPromise
<1>3. QED
  BY <1>1, <1>2, TimersTyped, SilentClientIsClosed, PTL DEF Spec, ImplementsKeepalive, Promise!Spec
=============================================================================
