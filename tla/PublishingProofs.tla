--------------------------- MODULE PublishingProofs ---------------------------
(* Theorems about Publishing, for all backends, clients, ids and topics.   *)
EXTENDS Publishing, TLAPS

-----------------------------------------------------------------------------
(* Channel names.                                                          *)

LEMMA Single == ASSUME NEW S, NEW x \in S PROVE <<x>> \in Seq(S) /\ Len(<<x>>) = 1 /\ <<x>>[1] = x
OBVIOUS

LEMMA ConcatFacts ==
    ASSUME NEW S, NEW s \in Seq(S), NEW t \in Seq(S)
    PROVE  /\ s \o t \in Seq(S) /\ Len(s \o t) = Len(s) + Len(t)
           /\ \A i \in 1..Len(s) : (s \o t)[i] = s[i]
OBVIOUS

LEMMA ConcatTail ==
    ASSUME NEW S, NEW s \in Seq(S), NEW t \in Seq(S), NEW i \in 1..Len(t)
    PROVE  (s \o t)[Len(s) + i] = t[i]
OBVIOUS

\* A name is a sequence of parts that is not empty.
LEMMA NameFacts ==
    /\ \A s \in Names : s \in Seq(Parts) /\ Len(s) \in Nat \ {0}
    /\ \A s \in Seq(Parts) : Len(s) # 0 => s \in Names
BY DEF Names

LEMMA WordIsName ==
    ASSUME NEW word \in Parts PROVE <<word>> \in Names /\ Len(<<word>>) = 1 /\ <<word>>[1] = word
<1>1. <<word>> \in Seq(Parts) /\ Len(<<word>>) = 1 /\ <<word>>[1] = word BY Single, Zenon
<1>2. QED BY <1>1, NameFacts

\* One name behind another.
LEMMA TwoNames ==
    ASSUME NEW a \in Names, NEW b \in Names
    PROVE  /\ a \o b \in Names /\ Len(a \o b) = Len(a) + Len(b)
           /\ \A i \in 1..Len(a) : (a \o b)[i] = a[i]
           /\ \A i \in 1..Len(b) : (a \o b)[Len(a) + i] = b[i]
<1> DEFINE q == a \o b
<1>1. a \in Seq(Parts) /\ b \in Seq(Parts) BY NameFacts
<1>2. Len(a) \in Nat \ {0} /\ Len(b) \in Nat \ {0} BY NameFacts
<1>3. /\ q \in Seq(Parts) /\ Len(q) = Len(a) + Len(b)
      /\ \A i \in 1..Len(a) : q[i] = a[i]
  BY <1>1, ConcatFacts, Zenon
<1>4. \A i \in 1..Len(b) : q[Len(a) + i] = b[i] BY <1>1, ConcatTail, Zenon
<1> HIDE DEF q
<1>5. Len(q) # 0 BY <1>2, <1>3
<1>6. q \in Names BY <1>3, <1>5, NameFacts, Zenon
<1>7. QED BY <1>3, <1>4, <1>6 DEF q

LEMMA SameNames ==
    ASSUME NEW s \in Names, NEW t \in Names, Len(s) = Len(t), \A i \in 1..Len(s) : s[i] = t[i]
    PROVE  s = t
BY DEF Names

LEMMA ThreeNames ==
    ASSUME NEW a \in Names, NEW b \in Names, NEW c \in Names
    PROVE  (a \o b) \o c = a \o (b \o c)
<1> DEFINE p == a \o b
           q == b \o c
           l == p \o c
           r == a \o q
<1>n. Len(a) \in Nat /\ Len(b) \in Nat /\ Len(c) \in Nat BY NameFacts
<1>p. /\ p \in Names /\ Len(p) = Len(a) + Len(b)
      /\ \A i \in 1..Len(a) : p[i] = a[i]
      /\ \A i \in 1..Len(b) : p[Len(a) + i] = b[i]
  BY TwoNames, Zenon
<1>q. /\ q \in Names /\ Len(q) = Len(b) + Len(c)
      /\ \A i \in 1..Len(b) : q[i] = b[i]
      /\ \A i \in 1..Len(c) : q[Len(b) + i] = c[i]
  BY TwoNames, Zenon
<1> HIDE DEF p, q
<1>l. /\ l \in Names /\ Len(l) = Len(p) + Len(c)
      /\ \A i \in 1..Len(p) : l[i] = p[i]
      /\ \A i \in 1..Len(c) : l[Len(p) + i] = c[i]
  BY <1>p, TwoNames, Zenon
<1>r. /\ r \in Names /\ Len(r) = Len(a) + Len(q)
      /\ \A i \in 1..Len(a) : r[i] = a[i]
      /\ \A i \in 1..Len(q) : r[Len(a) + i] = q[i]
  BY <1>q, TwoNames, Zenon
<1> HIDE DEF l, r
<1>1. Len(l) = Len(r) BY <1>n, <1>p, <1>q, <1>l, <1>r
<1>2. ASSUME NEW i \in 1..Len(l) PROVE l[i] = r[i]
  <2>1. CASE i <= Len(a)
    <3>1. i \in 1..Len(a) /\ i \in 1..Len(p) BY <1>n, <1>p, <2>1
    <3>2. QED BY <1>p, <1>l, <1>r, <3>1
  <2>2. CASE Len(a) < i /\ i <= Len(p)
    <3>1. PICK j \in 1..Len(b) : i = Len(a) + j
      <4>1. i - Len(a) \in 1..Len(b) /\ i = Len(a) + (i - Len(a)) BY <1>n, <1>p, <2>2
      <4>2. QED BY <4>1
    <3>2. j \in 1..Len(q) /\ i \in 1..Len(p) BY <1>n, <1>p, <1>q, <2>2
    <3>3. QED BY <1>p, <1>q, <1>l, <1>r, <3>1, <3>2
  <2>3. CASE Len(p) < i
    <3>1. PICK j \in 1..Len(c) : i = Len(p) + j
      <4>1. i - Len(p) \in 1..Len(c) /\ i = Len(p) + (i - Len(p)) BY <1>n, <1>p, <1>l, <2>3
      <4>2. QED BY <4>1
    <3>2. Len(b) + j \in 1..Len(q) /\ i = Len(a) + (Len(b) + j) BY <1>n, <1>p, <1>q, <3>1
    <3>3. QED BY <1>q, <1>l, <1>r, <3>1, <3>2
  <2>4. QED BY <1>n, <1>p, <2>1, <2>2, <2>3
<1>3. l = r BY <1>l, <1>r, <1>1, <1>2, SameNames
<1>4. QED BY <1>3 DEF l, r, p, q

\* A word between two names.
Parted(q, a, word, b) ==
    /\ Len(q) = Len(a) + 1 + Len(b)
    /\ \A i \in 1..Len(a) : q[i] = a[i]
    /\ q[Len(a) + 1] = word
    /\ \A i \in 1..Len(b) : q[Len(a) + 1 + i] = b[i]

LEMMA AroundWord ==
    ASSUME NEW a \in Names, NEW b \in Names, NEW word \in Parts
    PROVE  a \o <<word>> \o b \in Names /\ Parted(a \o <<word>> \o b, a, word, b)
<1>w. PICK w : w = <<word>> OBVIOUS
<1> DEFINE p == a \o w
           q == p \o b
<1>1. w \in Names /\ Len(w) = 1 /\ w[1] = word BY <1>w, WordIsName, Zenon
<1>2. /\ p \in Names /\ Len(p) = Len(a) + Len(w)
      /\ \A i \in 1..Len(a) : p[i] = a[i]
      /\ \A i \in 1..Len(w) : p[Len(a) + i] = w[i]
  BY <1>1, TwoNames, Zenon
<1>3. q = a \o <<word>> \o b BY <1>w
<1> HIDE DEF p
<1>4. /\ q \in Names /\ Len(q) = Len(p) + Len(b)
      /\ \A i \in 1..Len(p) : q[i] = p[i]
      /\ \A i \in 1..Len(b) : q[Len(p) + i] = b[i]
  BY <1>2, TwoNames, Zenon
<1> HIDE DEF q
<1>5. Len(a) \in Nat /\ Len(p) = Len(a) + 1 BY <1>1, <1>2, NameFacts
<1>6. \A i \in 1..Len(a) : i \in 1..Len(p) BY <1>5
<1>7. Len(a) + 1 \in 1..Len(p) /\ 1 \in 1..Len(w) BY <1>1, <1>5
<1>8. q[Len(a) + 1] = word BY <1>1, <1>2, <1>4, <1>7
<1>9. \A i \in 1..Len(a) : q[i] = a[i] BY <1>2, <1>4, <1>6
<1>10. Len(q) = Len(a) + 1 + Len(b) /\ \A i \in 1..Len(b) : q[Len(a) + 1 + i] = b[i]
  BY <1>4, <1>5
<1>11. q \in Names /\ Parted(q, a, word, b) BY <1>4, <1>8, <1>9, <1>10 DEF Parted
<1>12. QED BY <1>3, <1>11, Zenon

\* A name in two parts around a word each: the parts are the same, or the longer
\* beginning goes on with the word behind the shorter.
LEMMA TwoPartings ==
    ASSUME NEW a \in Names, NEW b \in Names, NEW c \in Names, NEW d \in Names,
           NEW v, NEW w, NEW q, Parted(q, a, v, b), Parted(q, c, w, d)
    PROVE  \/ a = c /\ v = w /\ b = d
           \/ Continues(a, c, {w})
           \/ Continues(c, a, {v})
<1>l. Len(a) \in Nat /\ Len(b) \in Nat /\ Len(c) \in Nat /\ Len(d) \in Nat BY NameFacts
<1>1. /\ Len(q) = Len(a) + 1 + Len(b)
      /\ \A i \in 1..Len(a) : q[i] = a[i]
      /\ q[Len(a) + 1] = v
      /\ \A i \in 1..Len(b) : q[Len(a) + 1 + i] = b[i]
  BY DEF Parted
<1>2. /\ Len(q) = Len(c) + 1 + Len(d)
      /\ \A i \in 1..Len(c) : q[i] = c[i]
      /\ q[Len(c) + 1] = w
      /\ \A i \in 1..Len(d) : q[Len(c) + 1 + i] = d[i]
  BY DEF Parted
<1>3. CASE Len(a) = Len(c)
  <2>1. \A i \in 1..Len(a) : a[i] = c[i] BY <1>1, <1>2, <1>3
  <2>2. Len(b) = Len(d) BY <1>l, <1>1, <1>2, <1>3
  <2>3. \A i \in 1..Len(b) : b[i] = d[i] BY <1>1, <1>2, <1>3, <2>2
  <2>4. a = c /\ b = d BY <1>3, <2>1, <2>2, <2>3, SameNames
  <2>5. v = w BY <1>1, <1>2, <1>3
  <2>6. QED BY <2>4, <2>5
<1>4. CASE Len(c) < Len(a)
  <2>1. \A i \in 1..Len(c) : i \in 1..Len(a) /\ a[i] = c[i] BY <1>l, <1>1, <1>2, <1>4
  <2>2. Len(c) + 1 \in 1..Len(a) BY <1>l, <1>4
  <2>3. a[Len(c) + 1] = w BY <1>1, <1>2, <2>2
  <2>4. QED BY <1>4, <2>1, <2>3 DEF Continues
<1>5. CASE Len(a) < Len(c)
  <2>1. \A i \in 1..Len(a) : i \in 1..Len(c) /\ c[i] = a[i] BY <1>l, <1>1, <1>2, <1>5
  <2>2. Len(a) + 1 \in 1..Len(c) BY <1>l, <1>5
  <2>3. c[Len(a) + 1] = v BY <1>1, <1>2, <2>2
  <2>4. QED BY <1>5, <2>1, <2>3 DEF Continues
<1>6. QED BY <1>l, <1>3, <1>4, <1>5

LEMMA SameOrContinues ==
    ASSUME NEW a \in Names, NEW b \in Names, NEW c \in Names, NEW d \in Names,
           NEW v \in Parts, NEW w \in Parts, a \o <<v>> \o b = c \o <<w>> \o d
    PROVE  \/ a = c /\ v = w /\ b = d
           \/ Continues(a, c, {w})
           \/ Continues(c, a, {v})
<1>1. Parted(a \o <<v>> \o b, a, v, b) /\ Parted(c \o <<w>> \o d, c, w, d)
  BY AroundWord
<1>2. QED BY <1>1, TwoPartings

LEMMA BehindWord ==
    ASSUME NEW a \in Names, NEW b \in Names, NEW word \in Parts
    PROVE  Continues(a \o <<word>> \o b, a, {word})
<1> DEFINE q == a \o <<word>> \o b
<1>1. Parted(q, a, word, b) BY AroundWord
<1> HIDE DEF q
<1>2. Len(a) \in Nat /\ Len(b) \in Nat BY NameFacts
<1>3. Len(a) < Len(q) BY <1>1, <1>2 DEF Parted
<1>4. QED BY <1>1, <1>3 DEF Continues, Parted, q

\* Every channel is the one of something within a tenant.
Within(t, kind, rest) == <<"tenant">> \o t \o <<kind>> \o rest
Tenant(t) == <<"tenant">> \o t

LEMMA TenantFacts ==
    ASSUME NEW t \in Names
    PROVE  /\ Tenant(t) \in Names /\ Len(Tenant(t)) = 1 + Len(t)
           /\ \A i \in 1..Len(t) : Tenant(t)[1 + i] = t[i]
<1>1. PICK w : w = <<"tenant">> OBVIOUS
<1>2. "tenant" \in Parts BY AuthAssumption
<1>3. w \in Names /\ Len(w) = 1 BY <1>1, <1>2, WordIsName, Zenon
<1> DEFINE q == w \o t
<1>4. /\ q \in Names /\ Len(q) = Len(w) + Len(t)
      /\ \A i \in 1..Len(t) : q[Len(w) + i] = t[i]
  BY <1>3, TwoNames, Zenon
<1>5. q = Tenant(t) BY <1>1 DEF Tenant
<1> HIDE DEF q
<1>6. QED BY <1>3, <1>4, <1>5

LEMMA TenantContinues ==
    ASSUME NEW t \in Names, NEW u \in Names, NEW words, Continues(Tenant(t), Tenant(u), words)
    PROVE  Continues(t, u, words)
<1>1. Len(t) \in Nat /\ Len(u) \in Nat BY NameFacts
<1>2. PICK p, q : p = Tenant(t) /\ q = Tenant(u) OBVIOUS
<1>3. /\ Len(p) = 1 + Len(t) /\ \A i \in 1..Len(t) : p[1 + i] = t[i]
      /\ Len(q) = 1 + Len(u) /\ \A i \in 1..Len(u) : q[1 + i] = u[i]
  BY <1>2, TenantFacts
<1>4. /\ Len(q) < Len(p)
      /\ \A i \in 1..Len(q) : p[i] = q[i]
      /\ p[Len(q) + 1] \in words
  BY <1>2 DEF Continues
<1>5. Len(u) < Len(t) BY <1>1, <1>3, <1>4
<1>6. ASSUME NEW i \in 1..Len(u) PROVE t[i] = u[i]
  <2>1. i \in 1..Len(t) /\ 1 + i \in 1..Len(q) BY <1>1, <1>3, <1>5
  <2>2. QED BY <1>3, <1>4, <2>1
<1>7. Len(u) + 1 \in 1..Len(t) /\ Len(q) + 1 = 1 + (Len(u) + 1) BY <1>1, <1>3, <1>5
<1>8. t[Len(u) + 1] \in words BY <1>3, <1>4, <1>7
<1>9. QED BY <1>5, <1>6, <1>8 DEF Continues

\* Within tenants that do not overlap a channel has one name.
LEMMA OneAddress ==
    ASSUME NEW t \in Names, NEW u \in Names, NEW x \in Names, NEW y \in Names,
           NEW v \in {"client", "topic"}, NEW w \in {"client", "topic"},
           Within(t, v, x) = Within(u, w, y), ~ Overlap(u, t, {"client", "topic"})
    PROVE  t = u /\ v = w /\ x = y
<1>1. PICK p, q : p = Tenant(t) /\ q = Tenant(u) OBVIOUS
<1>2. p \in Names /\ q \in Names BY <1>1, TenantFacts
<1>3. v \in Parts /\ w \in Parts BY AuthAssumption
<1>4. p \o <<v>> \o x = q \o <<w>> \o y BY <1>1 DEF Within, Tenant
<1>5. \/ p = q /\ v = w /\ x = y
      \/ Continues(p, q, {w})
      \/ Continues(q, p, {v})
  BY <1>2, <1>3, <1>4, SameOrContinues
<1>6. ~ Continues(p, q, {w})
  <2>1. ~ Continues(t, u, {w}) BY DEF Overlap, Continues
  <2>2. QED BY <1>1, <2>1, TenantContinues
<1>7. ~ Continues(q, p, {v})
  <2>1. ~ Continues(u, t, {v}) BY DEF Overlap, Continues
  <2>2. QED BY <1>1, <2>1, TenantContinues
<1>8. p = q /\ v = w /\ x = y BY <1>5, <1>6, <1>7
<1>9. t = u
  <2>1. Len(p) = 1 + Len(t) /\ Len(q) = 1 + Len(u) BY <1>1, TenantFacts
  <2>2. Len(t) \in Nat /\ Len(u) \in Nat BY NameFacts
  <2>3. Len(t) = Len(u) BY <1>8, <2>1, <2>2
  <2>4. \A i \in 1..Len(t) : p[1 + i] = t[i] BY <1>1, TenantFacts
  <2>5. \A i \in 1..Len(u) : q[1 + i] = u[i] BY <1>1, TenantFacts
  <2>6. \A i \in 1..Len(t) : t[i] = u[i] BY <1>8, <2>3, <2>4, <2>5
  <2>7. QED BY <2>3, <2>6, SameNames
<1>10. QED BY <1>8, <1>9

Device(c, d) == c \o <<"device">> \o d

LEMMA ChannelsWithin ==
    ASSUME NEW t \in Names, NEW c \in Names, NEW d \in Names, NEW x \in Names
    PROVE  /\ client_channel(t, c) = Within(t, "client", c)
           /\ topic_channel(t, x) = Within(t, "topic", x)
           /\ Device(c, d) \in Names
           /\ device_channel(t, c, d) = Within(t, "client", Device(c, d))
<1>1. client_channel(t, c) = Within(t, "client", c) /\ topic_channel(t, x) = Within(t, "topic", x)
  BY DEF client_channel, topic_channel, Within
<1>2. "device" \in Parts /\ "client" \in Parts BY AuthAssumption
<1>3. Device(c, d) \in Names BY <1>2, AroundWord DEF Device
<1>4. PICK w, v, p : w = <<"device">> /\ v = <<"client">> /\ p = Tenant(t) OBVIOUS
<1>5. w \in Names /\ v \in Names /\ p \in Names BY <1>2, <1>4, WordIsName, TenantFacts
<1>6. p \o v \in Names /\ c \o w \in Names BY <1>5, TwoNames
<1>7. ASSUME NEW r \in Names
      PROVE  ((r \o c) \o w) \o d = r \o ((c \o w) \o d)
  <2>1. (r \o c) \o w = r \o (c \o w) BY <1>5, ThreeNames, Zenon
  <2>2. (r \o (c \o w)) \o d = r \o ((c \o w) \o d) BY <1>6, ThreeNames, Zenon
  <2>3. QED BY <2>1, <2>2, Zenon
<1>8. (((p \o v) \o c) \o w) \o d = (p \o v) \o ((c \o w) \o d)
  BY <1>6, <1>7, Zenon
<1>9. device_channel(t, c, d) = (((p \o v) \o c) \o w) \o d
  BY <1>4 DEF device_channel, client_channel, Tenant
<1>10. Within(t, "client", Device(c, d)) = (p \o v) \o ((c \o w) \o d)
  BY <1>4 DEF Within, Device, Tenant
<1>11. QED BY <1>1, <1>3, <1>8, <1>9, <1>10, Zenon

\* Nor does a client of its own pass for a device of another, unless they overlap.
LEMMA OneClient ==
    ASSUME NEW c \in Names, NEW e \in Names, ~ Overlap(c, e, {"device"}),
           NEW x \in Names, NEW y \in Names
    PROVE  /\ c # Device(e, y) /\ e # Device(c, x)
           /\ Device(c, x) = Device(e, y) => c = e /\ x = y
<1>0. "device" \in Parts BY AuthAssumption
<1>1. Continues(Device(e, y), e, {"device"}) /\ Continues(Device(c, x), c, {"device"})
  BY <1>0, BehindWord DEF Device
<1>2. c # Device(e, y) /\ e # Device(c, x) BY <1>1 DEF Overlap
<1>3. ASSUME Device(c, x) = Device(e, y) PROVE c = e /\ x = y
  <2>1. \/ c = e /\ x = y
        \/ Continues(c, e, {"device"})
        \/ Continues(e, c, {"device"})
    BY <1>0, <1>3, SameOrContinues DEF Device
  <2>2. QED BY <2>1 DEF Overlap
<1>4. QED BY <1>2, <1>3

-----------------------------------------------------------------------------
(* Identities.                                                             *)

Contexts == [tenant : Names, client : Names]

LEMMA RefusedIsNoContext == Refused \notin Contexts
BY AuthAssumption DEF Refused, Contexts

LEMMA AuthenticateType ==
    ASSUME NEW m, NEW r, IsRequest(r), NEW at
    PROVE  Authenticate(m, r, at) \in Contexts \union {Refused}
<1>1. decode_jwt(r.token, at) \in Contexts \union {Refused}
  BY DEF decode_jwt, IsRequest, Contexts
<1>2. legacy_context(r.header) \in Contexts \union {Refused}
  BY AuthAssumption DEF legacy_context, IsRequest, Contexts
<1>3. QED BY <1>1, <1>2 DEF Authenticate

\* A request that a token lets in had a token that was accepted.
LEMMA LetInByToken ==
    ASSUME NEW m, NEW r, NEW at, FromToken(m, r), Authenticate(m, r, at) # Refused
    PROVE  NotTooEarly(r.token, at) /\ NotExpired(r.token, at)
<1>1. Authenticate(m, r, at) = decode_jwt(r.token, at)
  BY DEF Authenticate, FromHeader
<1>2. TokenAccepted(r.token, at)
  BY <1>1 DEF decode_jwt
<1>3. QED BY <1>2 DEF TokenAccepted

ConnInv ==
    /\ now \in 0..MaxTime
    /\ identity \in [Clients -> Contexts \union {Refused}]
    /\ joined \in [Clients -> SUBSET Topics]
    /\ state \in [Calls -> {"idle", "publishing", "done", "failed", "refused"}]
    /\ tenant \in [Calls -> Names \union {Missing}]
    /\ \A c \in Calls : state[c] = "publishing" => tenant[c] \in Names

LEMMA ConnInit == Init => ConnInv
BY DEF Init, ConnInv

LEMMA ConnStep == ASSUME ConnInv, [Next]_vars PROVE ConnInv'
<1> USE PublishingAssumption DEF ConnInv
<1>1. ASSUME NEW k \in Clients, Connect(k) PROVE ConnInv'
  <2>1. Authenticate(mode, k, now) \in Contexts \union {Refused} BY AuthenticateType
  <2>2. QED BY <1>1, <2>1 DEF Connect, callVars
<1>2. ASSUME NEW k \in Clients, NEW t \in Topics, Subscribe(k, t) PROVE ConnInv'
  BY <1>2 DEF Subscribe, callVars
<1>3. ASSUME NEW c \in Calls, Start(c) PROVE ConnInv'
  <2> DEFINE context == Authenticate(mode, From[c], now)
  <2>1. context \in Contexts BY <1>3, AuthenticateType DEF Start
  <2> HIDE DEF context
  <2>2. context.tenant \in Names BY <2>1 DEF Contexts
  <2>3. tenant' = [tenant EXCEPT ![c] = context.tenant] BY <1>3 DEF Start, context
  <2>4. /\ state' = [state EXCEPT ![c] = IF Targets[c] = <<>> THEN "done" ELSE "publishing"]
        /\ UNCHANGED <<mode, now, connVars>>
    BY <1>3 DEF Start
  <2>5. QED BY <2>2, <2>3, <2>4 DEF connVars
<1>4. ASSUME NEW c \in Calls,
             StartRefused(c) \/ PublishNext(c) \/ PublishInvalid(c) \/ PublishFails(c)
      PROVE  ConnInv'
  <2>1. UNCHANGED <<mode, now, identity, joined, tenant>>
    BY <1>4 DEF StartRefused, PublishNext, PublishInvalid, PublishFails, connVars
  <2>2. \E s \in {"done", "failed", "refused", state[c]} : state' = [state EXCEPT ![c] = s]
    BY <1>4 DEF StartRefused, PublishNext, PublishInvalid, PublishFails, Advance
  <2>3. QED BY <2>1, <2>2
<1>5. CASE TimePasses
  BY <1>5 DEF TimePasses, connVars, callVars
<1>6. CASE UNCHANGED vars
  BY <1>6 DEF vars, connVars, callVars
<1>7. QED BY <1>1, <1>2, <1>3, <1>4, <1>5, <1>6 DEF Next

LEMMA AlwaysConn == Spec => []ConnInv
BY ConnInit, ConnStep, PTL DEF Spec

-----------------------------------------------------------------------------
(* Who is let in.                                                          *)

LEMMA WrapShrinks == ASSUME NEW n \in Nat PROVE Wrap(n) <= n /\ Wrap(n) \in Nat
BY AuthAssumption DEF Wrap

LEMMA AcceptedInWindow ==
    ASSUME NEW token, Timed(token), NEW at \in Nat, NotTooEarly(token, at), NotExpired(token, at)
    PROVE  /\ token.exp # Absent /\ at <= token.exp + Leeway
           /\ token.nbf <= at + Leeway
<1>t. /\ token.nbf \in Int /\ token.exp \in Int /\ Leeway \in Nat
      /\ token.nbf # Absent => token.nbf \in Nat
      /\ token.exp # Absent => token.exp \in Nat
  BY AuthAssumption DEF Timed, Times, Absent
<1>1. token.exp # Absent /\ at <= Wrap(token.exp + Leeway)
  BY DEF NotExpired
<1>2. at <= token.exp + Leeway
  <2>1. PICK n \in Nat : n = token.exp + Leeway BY <1>t, <1>1
  <2>2. Wrap(n) <= n /\ Wrap(n) \in Nat BY WrapShrinks
  <2>3. QED BY <1>1, <2>1, <2>2
<1>3. token.nbf <= at + Leeway
  <2>1. PICK n \in Nat : n = at + Leeway BY <1>t
  <2>2. Wrap(n) <= n /\ Wrap(n) \in Nat BY WrapShrinks
  <2>3. CASE token.nbf = Absent BY <1>t, <2>3 DEF Absent
  <2>4. CASE Wrap(n) >= token.nbf BY <1>t, <2>1, <2>2, <2>4
  <2>5. QED BY <2>1, <2>3, <2>4 DEF NotTooEarly
<1>4. QED BY <1>1, <1>2, <1>3

\* However small Width is, and wherever the sums of validate_claims wrap, a token lets
\* nobody in before nbf or after exp, up to the leeway.
THEOREM LetInWithinWindow == Spec => []AdmittedInWindow
<1>1. Init => AdmittedInWindow
  BY DEF Init, AdmittedInWindow
<1>2. ConnInv /\ AdmittedInWindow /\ [Next]_vars => AdmittedInWindow'
  <2>. SUFFICES ASSUME ConnInv, AdmittedInWindow, [Next]_vars PROVE AdmittedInWindow'
    OBVIOUS
  <2>n. now \in Nat BY PublishingAssumption DEF ConnInv
  <2>1. ASSUME NEW r, IsRequest(r), Authenticate(mode, r, now) # Refused, Admit(r)
        PROVE  AdmittedInWindow'
    <3>1. CASE ~ FromToken(mode, r)
      BY <2>1, <3>1 DEF Admit, AdmittedInWindow
    <3>2. CASE FromToken(mode, r)
      <4>1. NotTooEarly(r.token, now) /\ NotExpired(r.token, now)
        BY <2>1, <3>2, LetInByToken
      <4>2. /\ r.token.exp # Absent /\ now <= r.token.exp + Leeway
            /\ r.token.nbf <= now + Leeway
        BY <2>1, <2>n, <4>1, AcceptedInWindow DEF IsRequest
      <4>3. admitted' = admitted \union {[token |-> r.token, at |-> now]}
        BY <2>1, <3>2 DEF Admit
      <4>4. QED BY <4>2, <4>3 DEF AdmittedInWindow
    <3>3. QED BY <3>1, <3>2
  <2>2. ASSUME NEW k \in Clients, Connect(k) PROVE AdmittedInWindow'
    <3>1. identity'[k] = Authenticate(mode, k, now)
      BY <2>2 DEF Connect, ConnInv
    <3>2. QED BY <2>1, <2>2, <3>1, PublishingAssumption DEF Connect
  <2>3. ASSUME NEW c \in Calls, Start(c) PROVE AdmittedInWindow'
    BY <2>1, <2>3, PublishingAssumption DEF Start
  <2>4. CASE UNCHANGED admitted
    BY <2>4 DEF AdmittedInWindow
  <2>5. QED
    BY <2>2, <2>3, <2>4 DEF Next, Subscribe, StartRefused, PublishNext, PublishInvalid,
       PublishFails, TimePasses, vars
<1>3. QED BY <1>1, <1>2, AlwaysConn, PTL DEF Spec

-----------------------------------------------------------------------------
(* What has been published of a call.                                      *)

Positions(c) == DOMAIN Targets[c]

\* Of the counts f, no later one is greater.
Descending(f, a, D) == \A i \in D : f[i] <= a /\ \A j \in 1..i : f[j] >= f[i]

\* In the middle of a call each target behind it was published more often than each
\* target ahead of it, whatever earlier attempts did.
Split(f, n, a, D) ==
    /\ \A i, j \in D : j < n /\ n <= i => f[j] > f[i]
    /\ \A i \in D : n <= i => f[i] < a
Prefixes(c) == Descending(copies[c], attempts[c], Positions(c))
InTheMiddle(c) ==
    next[c] \in Positions(c) /\ Split(copies[c], next[c], attempts[c], Positions(c))
CallInv(c) ==
    /\ copies[c] \in [Positions(c) -> Nat]
    /\ Prefixes(c)
    /\ state[c] = "publishing" => InTheMiddle(c)
    /\ state[c] = "done" => \A i \in Positions(c) : copies[c][i] >= 1
CallsTyped ==
    /\ state \in [Calls -> {"idle", "publishing", "done", "failed", "refused"}]
    /\ next \in [Calls -> Nat]
    /\ attempts \in [Calls -> Nat]
    /\ copies \in [Calls -> UNION {[Positions(c) -> Nat] : c \in Calls}]
CopiesInv == CallsTyped /\ \A c \in Calls : CallInv(c)

LEMMA TargetsType ==
    ASSUME NEW c \in Calls
    PROVE  /\ Positions(c) = 1..Len(Targets[c]) /\ Len(Targets[c]) \in Nat
           /\ Targets[c] # <<>> => 1 \in Positions(c)
           /\ Targets[c] = <<>> => Positions(c) = {}
           /\ \A i \in Positions(c) : Targets[c][i] \in TargetSet
<1>1. PICK s \in Seq(TargetSet) : s = Targets[c] BY PublishingAssumption
<1>2. DOMAIN s = 1..Len(s) /\ Len(s) \in Nat /\ (s # <<>> => Len(s) # 0) /\ (s = <<>> => Len(s) = 0)
      /\ \A i \in DOMAIN s : s[i] \in TargetSet
  OBVIOUS
<1>3. QED BY <1>1, <1>2 DEF Positions

LEMMA CopiesInit == Init => CopiesInv
<1> SUFFICES ASSUME Init PROVE CopiesInv
  OBVIOUS
<1>1. copies = [c \in Calls |-> [i \in Positions(c) |-> 0]] BY DEF Init, Positions
<1>2. \A c \in Calls : [i \in Positions(c) |-> 0] \in [Positions(c) -> Nat] OBVIOUS
<1>3. CallsTyped BY <1>1, <1>2 DEF Init, CallsTyped
<1>4. \A c \in Calls : CallInv(c)
  BY <1>1, TargetsType DEF Init, CallInv, Prefixes, Descending
<1>5. QED BY <1>3, <1>4 DEF CopiesInv

\* A step of one call, which publishes at most the target at which it is.
LEMMA CopiesStepOf ==
    ASSUME CopiesInv, NEW c \in Calls,
           NEW s \in {"idle", "publishing", "done", "failed", "refused"}, NEW n \in Nat,
           NEW a \in Nat, NEW f \in [Positions(c) -> Nat],
           state' = [state EXCEPT ![c] = s], next' = [next EXCEPT ![c] = n],
           attempts' = [attempts EXCEPT ![c] = a], copies' = [copies EXCEPT ![c] = f],
           Descending(f, a, Positions(c)),
           s = "publishing" => n \in Positions(c) /\ Split(f, n, a, Positions(c)),
           s = "done" => \A i \in Positions(c) : f[i] >= 1
    PROVE  CopiesInv'
<1>1. CallsTyped' BY DEF CopiesInv, CallsTyped
<1>2. state'[c] = s /\ next'[c] = n /\ attempts'[c] = a /\ copies'[c] = f
  BY DEF CopiesInv, CallsTyped
<1>p. \A d : Positions(d)' = Positions(d) BY DEF Positions
<1>3. CallInv(c)' BY <1>2, <1>p DEF CallInv, Prefixes, InTheMiddle
<1>4. ASSUME NEW d \in Calls, d # c PROVE CallInv(d)'
  <2>1. state'[d] = state[d] /\ next'[d] = next[d] /\ attempts'[d] = attempts[d]
        /\ copies'[d] = copies[d]
    BY <1>4 DEF CopiesInv, CallsTyped
  <2>2. CallInv(d) BY DEF CopiesInv
  <2>3. QED BY <1>p, <2>1, <2>2 DEF CallInv, Prefixes, InTheMiddle
<1>5. QED BY <1>1, <1>3, <1>4 DEF CopiesInv

LEMMA CopiesStays ==
    ASSUME CopiesInv, UNCHANGED <<state, next, attempts, copies>>
    PROVE  CopiesInv'
BY DEF CopiesInv, CallsTyped, CallInv, Prefixes, InTheMiddle, Positions

\* The arithmetic of one publish: g becomes f at position n.
LEMMA OneMore ==
    ASSUME NEW L \in Nat, NEW n \in 1..L, NEW a \in Nat,
           NEW g \in [1..L -> Nat], NEW f \in [1..L -> Nat],
           f[n] = g[n] + 1, \A i \in 1..L : i # n => f[i] = g[i],
           Descending(g, a, 1..L), Split(g, n, a, 1..L)
    PROVE  /\ Descending(f, a, 1..L)
           /\ Split(f, n + 1, a, 1..L)
           /\ n = L => \A i \in 1..L : f[i] >= 1
<1> USE DEF Descending, Split
<1>0. \A i \in 1..L : f[i] \in Nat /\ g[i] \in Nat OBVIOUS
<1>1. ASSUME NEW i \in 1..L PROVE f[i] <= a
  <2>1. CASE i = n
    <3>1. g[n] < a /\ g[n] \in Nat BY <1>0
    <3>2. QED BY <2>1, <3>1
  <2>2. CASE i # n BY <1>0, <2>2
  <2>3. QED BY <2>1, <2>2
<1>2. ASSUME NEW i \in 1..L, NEW j \in 1..i PROVE f[j] >= f[i]
  <2>1. j \in 1..L /\ g[j] >= g[i] OBVIOUS
  <2>2. CASE i # n BY <1>0, <2>1, <2>2
  <2>3. CASE i = n /\ j = n BY <1>0, <2>3
  <2>4. CASE i = n /\ j # n
    <3>1. j < n BY <2>4
    <3>2. g[j] > g[n] BY <2>1, <3>1
    <3>3. QED BY <1>0, <2>1, <2>4, <3>2
  <2>5. QED BY <2>2, <2>3, <2>4
<1>3. ASSUME NEW i \in 1..L, NEW j \in 1..L, j < n + 1, n + 1 <= i PROVE f[j] > f[i]
  <2>1. f[i] = g[i] /\ n \in 1..i BY <1>3
  <2>2. CASE j = n
    <3>1. g[n] >= g[i] BY <2>1
    <3>2. QED BY <1>0, <2>1, <2>2, <3>1
  <2>3. CASE j # n
    <3>1. j < n /\ n <= i BY <1>3, <2>3
    <3>2. g[j] > g[i] BY <3>1
    <3>3. QED BY <1>0, <2>1, <2>3, <3>2
  <2>4. QED BY <2>2, <2>3
<1>4. ASSUME NEW i \in 1..L, n + 1 <= i PROVE f[i] < a
  BY <1>0, <1>4
<1>5. ASSUME n = L, NEW i \in 1..L PROVE f[i] >= 1
  <2>1. CASE i = n BY <1>0, <2>1
  <2>2. CASE i # n
    <3>1. i < n /\ n <= n BY <1>5, <2>2
    <3>2. g[i] > g[n] BY <3>1
    <3>3. QED BY <1>0, <2>2, <3>2
  <2>3. QED BY <2>1, <2>2
<1>6. QED BY <1>1, <1>2, <1>3, <1>4, <1>5

LEMMA CopiesStep == ASSUME CopiesInv, [Next]_vars PROVE CopiesInv'
<1>i. \A c \in Calls : CallInv(c) /\ next[c] \in Nat /\ attempts[c] \in Nat
                       /\ copies[c] \in [Positions(c) -> Nat]
  BY DEF CopiesInv, CallsTyped, CallInv
<1>1. ASSUME NEW c \in Calls, Start(c) PROVE CopiesInv'
  <2> DEFINE a == attempts[c] + 1
             f == copies[c]
             s == IF Targets[c] = <<>> THEN "done" ELSE "publishing"
  <2>1. /\ state' = [state EXCEPT ![c] = s] /\ next' = [next EXCEPT ![c] = 1]
        /\ attempts' = [attempts EXCEPT ![c] = a] /\ copies' = copies
    BY <1>1 DEF Start, sentVars
  <2>2. copies' = [copies EXCEPT ![c] = f] BY <2>1 DEF CopiesInv, CallsTyped
  <2>3. \A i \in Positions(c) : f[i] < a /\ f[i] <= a /\ \A j \in 1..i : f[j] >= f[i]
    BY <1>i DEF CallInv, Prefixes, Descending
  <2>4. a \in Nat /\ f \in [Positions(c) -> Nat] /\ 1 \in Nat
    BY <1>i
  <2>5. s \in {"done", "publishing"} /\ (s = "publishing" => 1 \in Positions(c))
        /\ (s = "done" => Positions(c) = {})
    BY TargetsType
  <2>6. \A i, j \in Positions(c) : ~ (j < 1)
    BY TargetsType
  <2> HIDE DEF a, f, s
  <2>7. Descending(f, a, Positions(c)) BY <2>3 DEF Descending
  <2>8. Split(f, 1, a, Positions(c)) BY <2>3, <2>6 DEF Split
  <2>9. QED BY <2>1, <2>2, <2>4, <2>5, <2>7, <2>8, CopiesStepOf
<1>2. ASSUME NEW c \in Calls, NEW s \in {"failed", "refused"}, state' = [state EXCEPT ![c] = s],
             UNCHANGED <<next, attempts, copies>>
      PROVE  CopiesInv'
  <2>1. /\ next' = [next EXCEPT ![c] = next[c]] /\ attempts' = [attempts EXCEPT ![c] = attempts[c]]
        /\ copies' = [copies EXCEPT ![c] = copies[c]]
    BY <1>2 DEF CopiesInv, CallsTyped
  <2>2. Descending(copies[c], attempts[c], Positions(c))
    BY <1>i DEF CallInv, Prefixes
  <2>3. QED BY <1>2, <1>i, <2>1, <2>2, CopiesStepOf
<1>3. ASSUME NEW c \in Calls, state[c] = "publishing", Deliver(c), attempts' = attempts,
             \/ Advance(c)
             \/ state' = [state EXCEPT ![c] = "failed"] /\ next' = next
      PROVE  CopiesInv'
  <2> DEFINE n == next[c]
             a == attempts[c]
             f == [copies[c] EXCEPT ![n] = @ + 1]
  <2>0. InTheMiddle(c) /\ Prefixes(c) BY <1>3, <1>i DEF CallInv
  <2>1. n \in Positions(c) /\ n \in Nat /\ a \in Nat /\ copies[c] \in [Positions(c) -> Nat]
    BY <1>i, <2>0 DEF InTheMiddle
  <2>2. f \in [Positions(c) -> Nat] /\ f[n] = copies[c][n] + 1
        /\ \A i \in Positions(c) : i # n => f[i] = copies[c][i]
    BY <2>1
  <2>3. copies' = [copies EXCEPT ![c] = f] /\ attempts' = [attempts EXCEPT ![c] = a]
    BY <1>3, <2>1 DEF Deliver, CopiesInv, CallsTyped
  <2>4. Positions(c) = 1..Len(Targets[c]) /\ Len(Targets[c]) \in Nat BY TargetsType
  <2>5. Descending(copies[c], a, Positions(c)) /\ Split(copies[c], n, a, Positions(c))
    BY <2>0 DEF Prefixes, InTheMiddle
  <2> HIDE DEF n, a, f
  <2>6. PICK m \in Nat : m = n + 1 BY <2>1
  <2>7. /\ Descending(f, a, Positions(c)) /\ Split(f, m, a, Positions(c))
        /\ n = Len(Targets[c]) => \A i \in Positions(c) : f[i] >= 1
    <3>1. PICK L \in Nat : L = Len(Targets[c]) /\ Positions(c) = 1..L BY <2>4
    <3>2. PICK g : g = copies[c] OBVIOUS
    <3>3. n \in 1..L /\ a \in Nat /\ g \in [1..L -> Nat] /\ f \in [1..L -> Nat]
      BY <2>1, <2>2, <3>1, <3>2
    <3>4. f[n] = g[n] + 1 /\ \A i \in 1..L : i # n => f[i] = g[i]
      BY <2>2, <3>1, <3>2
    <3>5. Descending(g, a, 1..L) /\ Split(g, n, a, 1..L)
      BY <2>5, <3>1, <3>2
    <3>6. /\ Descending(f, a, 1..L) /\ Split(f, n + 1, a, 1..L)
          /\ n = L => \A i \in 1..L : f[i] >= 1
      BY <3>3, <3>4, <3>5, OneMore
    <3>7. QED BY <2>6, <3>1, <3>6
  <2>8. CASE state' = [state EXCEPT ![c] = "failed"] /\ next' = next
    <3>1. next' = [next EXCEPT ![c] = n] BY <2>8 DEF CopiesInv, CallsTyped, n
    <3>2. QED BY <2>1, <2>2, <2>3, <2>7, <2>8, <3>1, CopiesStepOf
  <2>9. CASE Advance(c)
    <3>1. next' = [next EXCEPT ![c] = m]
      BY <2>6, <2>9 DEF Advance, n
    <3>2. PICK s : s = IF n = Len(Targets[c]) THEN "done" ELSE "publishing" OBVIOUS
    <3>3. state' = [state EXCEPT ![c] = s]
      BY <1>3, <2>9, <3>2 DEF Advance, CopiesInv, CallsTyped, n
    <3>4. s \in {"done", "publishing"} /\ (s = "done" => n = Len(Targets[c]))
          /\ (s = "publishing" => m \in Positions(c))
      BY <2>1, <2>4, <2>6, <3>2
    <3>5. s = "done" => \A i \in Positions(c) : f[i] >= 1 BY <2>7, <3>4
    <3>6. QED BY <2>1, <2>2, <2>3, <2>7, <3>1, <3>3, <3>4, <3>5, CopiesStepOf
  <2>10. QED BY <1>3, <2>8, <2>9
<1>4. ASSUME NEW c \in Calls, PublishNext(c) \/ PublishFails(c) PROVE CopiesInv'
  <2>1. state[c] = "publishing" /\ attempts' = attempts
    BY <1>4 DEF PublishNext, PublishFails
  <2>2. CASE Deliver(c) /\ (Advance(c) \/ (state' = [state EXCEPT ![c] = "failed"] /\ next' = next))
    BY <1>3, <2>1, <2>2
  <2>3. CASE state' = [state EXCEPT ![c] = "failed"] /\ UNCHANGED <<next, sentVars>>
    BY <1>2, <2>1, <2>3 DEF sentVars
  <2>4. QED BY <1>4, <2>2, <2>3 DEF PublishNext, PublishFails
<1>5. ASSUME NEW c \in Calls, StartRefused(c) \/ PublishInvalid(c) PROVE CopiesInv'
  BY <1>2, <1>5 DEF StartRefused, PublishInvalid, sentVars
<1>6. CASE TimePasses \/ UNCHANGED vars
           \/ \E k \in Clients : Connect(k) \/ \E t \in Topics : Subscribe(k, t)
  BY <1>6, CopiesStays DEF TimePasses, vars, Connect, Subscribe, callVars, sentVars
<1>7. QED BY <1>1, <1>4, <1>5, <1>6 DEF Next

LEMMA AlwaysCopies == Spec => []CopiesInv
BY CopiesInit, CopiesStep, PTL DEF Spec

\* What was published of a call is a prefix of it, once per attempt, and a call that
\* was answered with success published all of it.
THEOREM PrefixesArePublished == Spec => []CallsPublishPrefixes
<1>1. CopiesInv => CallsPublishPrefixes
  BY DEF CopiesInv, CallsTyped, CallInv, Prefixes, Descending, CallsPublishPrefixes, Positions
<1>2. QED BY <1>1, AlwaysCopies, PTL

-----------------------------------------------------------------------------
(* Whom an event reaches.                                                  *)

\* A connection that the backend meant listens to the channel of the event.
LEMMA MeantHear ==
    ASSUME ConnInv, NEW t, NEW target \in TargetSet, NEW k \in Meant(t, target)
    PROVE  k \in Clients /\ Connected(k) /\ Channel(t, target) \in Hears(k)
<1>1. target.device # Missing BY AuthAssumption DEF TargetSet
<1>2. target.to \in {"client", "device", "topic"} BY DEF TargetSet
<1>3. QED BY <1>1, <1>2 DEF Meant, Channel, Hears

\* A connection that listens to it was meant, unless the ids can be confused.
LEMMA HearersMeant ==
    ASSUME ConnInv, NEW k \in Clients, Connected(k), NEW t \in Names, NEW target \in TargetSet,
           Channel(t, target) \in Hears(k), ~ Confusable(identity[k], t, target)
    PROVE  k \in Meant(t, target)
<1> DEFINE u == identity[k].tenant
           c == identity[k].client
           e == target.client
<1>1. u \in Names /\ c \in Names
  BY DEF ConnInv, Connected, Contexts
<1>2. joined[k] \subseteq Names
  BY PublishingAssumption DEF ConnInv
<1>3. e \in Names /\ target.device \in Names /\ target.topic \in Names
      /\ target.to \in {"client", "device", "topic"}
  BY DEF TargetSet
<1>4. k.device # Missing => k.device \in Names
  BY PublishingAssumption
<1>5. ~ Overlap(u, t, {"client", "topic"})
      /\ (u = t /\ target.to # "topic" => ~ Overlap(c, e, {"device"}))
  BY DEF Confusable
<1>6. /\ u = t
      /\ target.to = "topic" => target.topic \in joined[k]
      /\ target.to # "topic" => c = e
      /\ target.to = "device" => k.device = target.device
      => k \in Meant(t, target)
  BY DEF Meant
<1>7. \/ Channel(t, target) = client_channel(u, c)
      \/ k.device # Missing /\ Channel(t, target) = device_channel(u, c, k.device)
      \/ \E x \in joined[k] : Channel(t, target) = topic_channel(u, x)
  BY DEF Hears
<1> DEFINE to == IF target.to = "topic" THEN "topic" ELSE "client"
           rest == CASE target.to = "client" -> e
                     [] target.to = "device" -> Device(e, target.device)
                     [] target.to = "topic"  -> target.topic
<1>8. Channel(t, target) = Within(t, to, rest) /\ rest \in Names /\ to \in {"client", "topic"}
  <2>1. CASE target.to = "client"
    BY <1>3, <2>1, ChannelsWithin DEF Channel
  <2>2. CASE target.to = "device"
    BY <1>3, <2>2, ChannelsWithin DEF Channel
  <2>3. CASE target.to = "topic"
    BY <1>3, <2>3, ChannelsWithin DEF Channel
  <2>4. QED BY <1>3, <2>1, <2>2, <2>3
<1>9. ASSUME NEW kind \in {"client", "topic"}, NEW x \in Names,
             Channel(t, target) = Within(u, kind, x)
      PROVE  t = u /\ to = kind /\ rest = x
  <2>1. Within(t, to, rest) = Within(u, kind, x) BY <1>8, <1>9
  <2> HIDE DEF u, c, e, to, rest
  <2>2. QED BY <1>1, <1>5, <1>8, <1>9, <2>1, OneAddress
<1> HIDE DEF u, c, e
<1>10. CASE Channel(t, target) = client_channel(u, c)
  <2>1. t = u /\ to = "client" /\ rest = c
    BY <1>1, <1>9, <1>10, ChannelsWithin
  <2>2. target.to # "topic" /\ (target.to = "device" => c = Device(e, target.device)) BY <2>1
  <2>3. target.to = "client" BY <1>1, <1>3, <1>5, <2>1, <2>2, OneClient
  <2>4. QED BY <1>6, <2>1, <2>3
<1>11. CASE k.device # Missing /\ Channel(t, target) = device_channel(u, c, k.device)
  <2>1. k.device \in Names BY <1>4, <1>11
  <2>2. /\ Device(c, k.device) \in Names
        /\ device_channel(u, c, k.device) = Within(u, "client", Device(c, k.device))
    BY <1>1, <2>1, ChannelsWithin
  <2>3. t = u /\ to = "client" /\ rest = Device(c, k.device)
    BY <1>9, <1>11, <2>2
  <2>4. target.to # "topic" BY <2>3
  <2>5. ~ Overlap(c, e, {"device"}) BY <1>5, <2>3, <2>4
  <2>6. target.to = "device"
    <3>1. e # Device(c, k.device) BY <1>1, <1>3, <2>1, <2>5, OneClient
    <3>2. QED BY <1>3, <2>3, <2>4, <3>1
  <2>7. Device(c, k.device) = Device(e, target.device) BY <2>3, <2>6
  <2>8. c = e /\ k.device = target.device BY <1>1, <1>3, <2>1, <2>5, <2>7, OneClient
  <2>9. QED BY <1>6, <2>3, <2>6, <2>8
<1>12. ASSUME NEW x \in joined[k], Channel(t, target) = topic_channel(u, x)
       PROVE  k \in Meant(t, target)
  <2>1. x \in Names /\ topic_channel(u, x) = Within(u, "topic", x)
    BY <1>1, <1>2, ChannelsWithin
  <2>2. t = u /\ to = "topic" /\ rest = x BY <1>9, <1>12, <2>1
  <2>3. target.to = "topic" BY <2>2
  <2>4. QED BY <1>6, <2>2, <2>3
<1>13. QED BY <1>7, <1>10, <1>11, <1>12

\* Who has received an event is connected, and keeps the identity it had then.
Receivers == \A d \in reached : d.client \in Clients /\ Connected(d.client)
ReachInv == ReachesAddressee /\ Receivers

LEMMA IdentityStays ==
    ASSUME ConnInv, [Next]_vars
    PROVE  \A k \in Clients : Connected(k) => identity'[k] = identity[k]
<1>1. ASSUME NEW k \in Clients, Connect(k)
      PROVE  \A l \in Clients : Connected(l) => identity'[l] = identity[l]
  BY <1>1 DEF Connect, ConnInv
<1>2. CASE UNCHANGED identity
  BY <1>2
<1>3. QED
  BY <1>1, <1>2 DEF Next, Subscribe, Start, StartRefused, PublishNext, PublishInvalid,
     PublishFails, TimePasses, vars, connVars

LEMMA ReachStays ==
    ASSUME ConnInv, ReachInv, [Next]_vars, UNCHANGED sentVars
    PROVE  ReachInv'
<1>1. \A d \in reached : d.client \in Clients /\ identity'[d.client] = identity[d.client]
  BY IdentityStays DEF ReachInv, Receivers
<1>2. reached' = reached /\ meant' = meant BY DEF sentVars
<1>3. Receivers' BY <1>1, <1>2 DEF ReachInv, Receivers, Connected
<1>4. ReachesAddressee' BY <1>1, <1>2 DEF ReachInv, ReachesAddressee
<1>5. QED BY <1>3, <1>4 DEF ReachInv

\* One publish: it reaches whom it was meant for, and those that may be confused.
LEMMA ReachDelivers ==
    ASSUME ConnInv, ReachInv, NEW c \in Calls, tenant[c] \in Names, Target(c) \in TargetSet,
           Deliver(c), UNCHANGED identity
    PROVE  ReachInv'
<1> DEFINE t == tenant[c]
           here == {k \in Clients : Connected(k) /\ Channel(t, Target(c)) \in Hears(k)}
<1>1. /\ reached' = reached \union Deliveries(c, here)
      /\ meant' = meant \union Deliveries(c, Meant(t, Target(c)))
  BY DEF Deliver
<1>2. Meant(t, Target(c)) \subseteq here BY MeantHear
<1>3. \A k \in here : k \in Meant(t, Target(c)) \/ Confusable(identity[k], t, Target(c))
  BY HearersMeant
<1>4. here \subseteq Clients /\ \A k \in here : Connected(k) OBVIOUS
<1> HIDE DEF here
<1>5. ASSUME NEW d \in Deliveries(c, here)
      PROVE  /\ d.client \in here /\ d.tenant = t /\ Targets[d.call][d.target] = Target(c)
             /\ d.client \in Meant(t, Target(c)) => d \in meant'
  BY <1>1 DEF Deliveries, Target
<1>6. meant' \subseteq reached'
  BY <1>1, <1>2 DEF Deliveries, ReachInv, ReachesAddressee
<1>7. ASSUME NEW d \in reached' \ meant'
      PROVE  Confusable(identity[d.client], d.tenant, Targets[d.call][d.target])
  <2>1. CASE d \in reached BY <1>1, <1>7, <2>1 DEF ReachInv, ReachesAddressee
  <2>2. CASE d \in Deliveries(c, here) BY <1>3, <1>5, <1>7, <2>2
  <2>3. QED BY <1>1, <2>1, <2>2
<1>8. Receivers' BY <1>1, <1>4, <1>5 DEF ReachInv, Receivers, Connected
<1>9. ReachesAddressee' BY <1>6, <1>7 DEF ReachesAddressee
<1>10. QED BY <1>8, <1>9 DEF ReachInv

\* Whatever colons the ids have: an event reaches every connection the backend meant,
\* and another one only if ids of tenants overlap by :client or :topic, or ids of
\* clients of one tenant by :device.
THEOREM EventsReachAddressees == Spec => []ReachesAddressee
<1>1. Init => ReachInv
  BY DEF Init, ReachInv, ReachesAddressee, Receivers
<1>2. ConnInv /\ CopiesInv /\ ReachInv /\ [Next]_vars => ReachInv'
  <2>. SUFFICES ASSUME ConnInv, CopiesInv, ReachInv, [Next]_vars PROVE ReachInv'
    OBVIOUS
  <2>1. ASSUME NEW c \in Calls, PublishNext(c) \/ PublishFails(c) PROVE ReachInv'
    <3>1. state[c] = "publishing" /\ UNCHANGED identity
      BY <2>1 DEF PublishNext, PublishFails, connVars
    <3>2. CASE UNCHANGED sentVars BY <3>2, ReachStays
    <3>3. CASE Deliver(c)
      <4>1. next[c] \in Positions(c) BY <3>1 DEF CopiesInv, CallInv, InTheMiddle
      <4>2. Target(c) \in TargetSet BY <4>1, TargetsType DEF Target
      <4>3. tenant[c] \in Names BY <3>1 DEF ConnInv
      <4>4. QED BY <3>1, <3>3, <4>2, <4>3, ReachDelivers
    <3>4. QED BY <2>1, <3>2, <3>3 DEF PublishNext, PublishFails
  <2>2. CASE UNCHANGED sentVars
    BY <2>2, ReachStays
  <2>3. QED
    BY <2>1, <2>2 DEF Next, Connect, Subscribe, Start, StartRefused, PublishInvalid, TimePasses,
       vars
<1>3. ReachInv => ReachesAddressee BY DEF ReachInv
<1>4. QED BY <1>1, <1>2, <1>3, AlwaysConn, AlwaysCopies, PTL DEF Spec
=============================================================================
