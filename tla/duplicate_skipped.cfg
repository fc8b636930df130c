\* main.rs:73: what is skipped as a duplicate was processed.
SPECIFICATION Spec
CONSTANTS
    o1 = o1
    o2 = o2
    p1 = p1
    p2 = p2
    g = g
    e1 = e1
    e2 = e2
    t1 = t1
    t2 = t2
    NoOrder = NoOrder
    OrderIds = {o1, o2}
    PaymentIds = {p1, p2}
    Gateways = {g}
    EventIds = {e1, e2}
    TxnIds = {t1, t2}
    Deliveries <- Plain
    TrustGateways = TRUE
    PendingLimit = 1
    BatchSize = 2
    MaxStream = 2
    MaxFaults = 1
    MaxRestarts = 0
    MaxExpiries = 0
INVARIANTS
    SkippedWasProcessed
CHECK_DEADLOCK FALSE
