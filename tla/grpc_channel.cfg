\* All kinds of clients, a queue of one response, and a broker slower than a tick.
SPECIFICATION FairSpec
CONSTANTS
    Capacity = 1
    IdleTimeout = 2
    Period = 1
    Gap = 2
    RedisTime = 2
    MaxFrames = 2
    MaxEvents = 2
    MaxTime = 4
INVARIANTS
    TypeOK
    ActiveIsKept
    AckPrecedesEvents
    NothingDropped
PROPERTIES
    EveryCallEnds
    ImplementsKeepalive
CHECK_DEADLOCK FALSE
