\* push.proto:147: the device of a connection is listed.
SPECIFICATION Spec
CONSTANTS
    c1 = c1
    c2 = c2
    topic = topic
    client = client
    phone = phone
    phoneChannel = phoneChannel
    Base = Base
    NoDevice = NoDevice
    Conns = {c1, c2}
    GrpcConns = {c1}
    Topics = {topic}
    OwnChannels <- MCOwnClient
    Device <- MCDevice
    MaxSubscribes = 2
    MaxMessages = 0
    MaxFaults = 0
    MaxCrashes = 0
INVARIANTS
    ConnectedIsListed
CHECK_DEADLOCK FALSE
