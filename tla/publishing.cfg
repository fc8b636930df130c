\* Overlapping tenants and clients, four calls of which the bulk call may be repeated;
\* all modes of auth.
SPECIFICATION Spec
CONSTANTS
    bulk = bulk
    mixed = mixed
    single = single
    direct = direct
    Width = 3
    Leeway = 1
    ApiKeys <- MCApiKeys
    LegacyTenant <- Old
    Missing = Missing
    NoId <- Empty
    Parts <- MCParts
    Clients <- MCClients
    Calls = {bulk, mixed, single, direct}
    From <- MCFrom
    Targets <- MCTargets
    Topics <- MCTopics
    MaxAttempts <- MCAttempts
    MaxFaults = 1
    MaxTime = 2
INVARIANTS
    CallsPublishPrefixes
    ReachesAddressee
    AdmittedInWindow
CHECK_DEADLOCK FALSE
