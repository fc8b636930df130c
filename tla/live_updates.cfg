\* Two clients and a channel so small that a slow one falls behind.
SPECIFICATION FairSpec
CONSTANTS
    Clients = {"k1", "k2"}
    Capacity = 1
    MaxWebhooks = 1
    MaxConfirmed = 3
    MaxFaults = 1
INVARIANTS
    NoGaps
    ConfirmationsInOrder
PROPERTIES
    EveryoneCatchesUp
    ConfirmedIsForwarded
CHECK_DEADLOCK FALSE
