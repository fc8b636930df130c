----------------------------- MODULE MCPublishing -----------------------------
(* Values of the constants of Publishing for its run.                      *)
EXTENDS Publishing, TLC

CONSTANTS bulk, mixed, single, direct

MCParts ==
    {"", "tenant", "client", "device", "topic", "old", "t1", "u", "phone", "pay"}
Empty == <<"">>
Old == <<"old">>
User == <<"u">>
Phone == <<"phone">>
Pay == <<"pay">>
PayTopic == <<"pay", "topic", "pay">>   \* the topic pay:topic:pay
UserPhone == <<"u", "device", "phone">>   \* the client u:device:phone
T1 == <<"t1">>
T1Pay == <<"t1", "topic", "pay">>   \* the tenant t1:topic:pay
MCTopics == {Pay, PayTopic}
MCApiKeys == {<<"key">>}

Token(nbf, exp, t, c) ==
    [bearer |-> "good", nbf |-> nbf, exp |-> exp, tenant |-> t, client |-> c]

\* The sum of exp and leeway wraps for the first; the second is not valid at first.
Late == Token(Absent, 2, T1, User)
Early == Token(2, 1, T1Pay, User)
NoToken == [Late EXCEPT !.bearer = "none"]
BadToken == [Late EXCEPT !.bearer = "bad"]

\* Two tenants with a client of the same name, the second let in by its token alone,
\* and a client with a bad token, let in by its header while auth is off.  The channels
\* of the tenants overlap, and those of the clients that come with their headers.
MCClients ==
    {[key |-> Missing, token |-> Late, header |-> User, device |-> Phone],
     [key |-> Missing, token |-> Early, header |-> Missing, device |-> Missing],
     [key |-> Missing, token |-> BadToken, header |-> UserPhone, device |-> Missing]}

ToTopic(x) == [to |-> "topic", topic |-> x, client |-> User, device |-> Phone]
ToDevice(d) == [to |-> "device", topic |-> Pay, client |-> User, device |-> d]
ToClient(c) == [to |-> "client", topic |-> Pay, client |-> c, device |-> Phone]

\* A bulk call; one whose last topic is empty, by a backend with a header and no token,
\* which strict refuses; a call to a device by a backend without a key, which only
\* passes while auth is off; and a call to a client, which only passes while it is on.
MCTargets ==
    bulk :> <<ToTopic(Pay), ToTopic(PayTopic)>> @@
    mixed :> <<ToTopic(PayTopic), ToTopic(Empty)>> @@
    single :> <<ToDevice(Phone)>> @@
    direct :> <<ToClient(User)>>
MCFrom ==
    bulk :> [key |-> <<"key">>, token |-> Early, header |-> User] @@
    mixed :> [key |-> <<"key">>, token |-> NoToken, header |-> User] @@
    single :> [key |-> Missing, token |-> Late, header |-> User] @@
    direct :> [key |-> <<"key">>, token |-> Late, header |-> Missing]

\* The bulk call may be repeated.
MCAttempts == [c \in Calls |-> IF c = bulk THEN 2 ELSE 1]
=============================================================================
