\* All kinds of clients, with settings that let a prompt one live.
SPECIFICATION Spec
CONSTANTS
    Period = 3
    PongTimeout = 4
    Rtt = 2
    Lateness = 1
    MaxTime = 14
INVARIANTS
    PromptIsKept
    PingsAreSpaced
PROPERTIES
    ImplementsKeepalive
CHECK_DEADLOCK FALSE
