\* The settings of config/propeller.toml, in units of ten seconds.
SPECIFICATION Spec
CONSTANTS
    Period = 3
    PongTimeout = 1
    Rtt = 0
    Lateness = 0
    MaxTime = 6
INVARIANTS
    PromptIsKept
CHECK_DEADLOCK FALSE
