--------------------------------- MODULE Auth ---------------------------------
(***************************************************************************)
(* approach-2/src/auth/mod.rs: who a request comes from, and the names of  *)
(* the Redis channels.  A request carries an x-api-key, a bearer token and *)
(* a client header, each of which may be missing; a token is reduced to    *)
(* what decode_jwt looks at.                                               *)
(***************************************************************************)
EXTENDS Integers, Sequences

CONSTANTS
    Width,          \* usize holds 0..(Width - 1)
    Leeway,         \* auth.jwt.clock_skew_secs
    ApiKeys,        \* auth.api_keys
    LegacyTenant,   \* auth.legacy_tenant
    NoId,           \* the empty string
    Missing,        \* a header or claim that is absent
    Parts           \* strings without a colon

\* The id of a tenant, client or device and a topic, as the sequence of its parts between
\* colons: the code looks for colons in none of them.
Names == Seq(Parts) \ {<<>>}

ASSUME AuthAssumption ==
    /\ Width \in Nat \ {0} /\ Leeway \in 0..(Width - 1)
    /\ {"tenant", "client", "device", "topic"} \subseteq Parts
    /\ {LegacyTenant, NoId} \subseteq Names /\ Missing \notin Names

\* off: auth.enabled is false; legacy: legacy_header_mode; strict: neither.
Modes == {"off", "legacy", "strict"}

\* A claim nbf or exp may be absent.  The bearer of a token says whether there is one,
\* and whether its form, signature, issuer and audience are good.
Absent == -1
Times == {Absent} \union 0..(Width - 1)
Timed(token) == token.nbf \in Times /\ token.exp \in Times
Bearers == {"none", "bad", "good"}

-----------------------------------------------------------------------------
(* validate_claims, decode_jwt.  The sums wrap in a release build; a debug *)
(* build panics where they would, which refuses the request.               *)

Wrap(n) == n % Width

\* Mutant of NotTooEarly: nbf is not looked at.
NbfIgnored(token, at) == TRUE

NotTooEarly(token, at) == token.nbf = Absent \/ Wrap(at + Leeway) >= token.nbf
NotExpired(token, at) == token.exp # Absent /\ at <= Wrap(token.exp + Leeway)

\* decode_and_validate_hs256, and the issuer and the audience.
Genuine(token) == token.bearer = "good"
TokenAccepted(token, at) == Genuine(token) /\ NotTooEarly(token, at) /\ NotExpired(token, at)

Refused == [tenant |-> Missing, client |-> Missing]

decode_jwt(token, at) ==
    IF TokenAccepted(token, at) /\ Missing \notin {token.tenant, token.client}
    THEN [tenant |-> token.tenant, client |-> token.client] ELSE Refused

legacy_context(header) ==
    IF header \in {Missing, NoId} THEN Refused
    ELSE [tenant |-> LegacyTenant, client |-> header]

-----------------------------------------------------------------------------
(* authenticate_http, authenticate_grpc and authorize_api_key_grpc.        *)

FromToken(mode, request) == mode # "off" /\ request.token.bearer # "none"
FromHeader(mode, request) == ~ FromToken(mode, request) /\ mode # "strict"

\* A token decides alone: the header does not rescue a request with a bad one.
Authenticate(mode, request, at) ==
    CASE FromToken(mode, request) -> decode_jwt(request.token, at)
      [] FromHeader(mode, request) -> legacy_context(request.header)
      [] OTHER -> Refused

MayPublish(mode, request) == mode = "off" \/ request.key \in ApiKeys

-----------------------------------------------------------------------------
(* Channel names.                                                          *)

client_channel(tenant, client) == <<"tenant">> \o tenant \o <<"client">> \o client

device_channel(tenant, client, device) ==
    client_channel(tenant, client) \o <<"device">> \o device

\* Mutant of topic_channel: the topics of all tenants are one.
GlobalTopic(tenant, topic) == <<"topic">> \o topic

topic_channel(tenant, topic) == <<"tenant">> \o tenant \o <<"topic">> \o topic
=============================================================================
