\* Liveness under fairness, for one gRPC connection without a device.
SPECIFICATION FairSpec
CONSTANTS
    c1 = c1
    c2 = c2
    topic = topic
    client = client
    phone = phone
    phoneChannel = phoneChannel
    Base = Base
    NoDevice = NoDevice
    Conns = {c1}
    GrpcConns = {c1}
    Topics = {topic}
    OwnChannels <- MCOwnChannels
    Device <- MCNoDevice
    MaxSubscribes = 2
    MaxMessages = 2
    MaxFaults = 1
    MaxCrashes = 1
PROPERTIES
    HearsIsSent
    ClosedIsSilent
CHECK_DEADLOCK FALSE
