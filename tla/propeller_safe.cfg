\* Two connections of a client that share a device, with failures.
SPECIFICATION Spec
CONSTANTS
    c1 = c1
    c2 = c2
    topic = topic
    client = client
    phone = phone
    phoneChannel = phoneChannel
    Base = Base
    NoDevice = NoDevice
    Conns = {c1, c2}
    GrpcConns = {c1}
    Topics = {topic}
    OwnChannels <- MCOwnClient
    Device <- MCDevice
    MaxSubscribes = 2
    MaxMessages = 2
    MaxFaults = 1
    MaxCrashes = 0
INVARIANTS
    TypeOK
    GaugesMatch
    ListenersControlled
    InOrder
    LeaksAreFailures
    GhostsAreFailures
    UnlistedHasCause
CHECK_DEADLOCK FALSE
