\* One connection more than worker threads.
SPECIFICATION Spec
CONSTANTS
    Conns = {c1, c2, c3}
    Shards = {s1, s2}
    Threads = 2
    MaxRequests = 1
INVARIANTS
    HoldersGoOn
CHECK_DEADLOCK FALSE
