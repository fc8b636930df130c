\* Gateways name the right order: the system implements the ledger, and under
\* fairness, with failures and a crash that come to an end, gets its work done.
SPECIFICATION FairSpec
CONSTANTS
    o1 = o1
    o2 = o2
    p1 = p1
    p2 = p2
    g = g
    e1 = e1
    e2 = e2
    t1 = t1
    t2 = t2
    NoOrder = NoOrder
    OrderIds = {o1, o2}
    PaymentIds = {p1, p2}
    Gateways = {g}
    EventIds = {e1, e2}
    TxnIds = {t1, t2}
    Deliveries <- Plain
    TrustGateways = TRUE
    PendingLimit = 1
    BatchSize = 2
    MaxStream = 2
    MaxFaults = 1
    MaxRestarts = 1
    MaxExpiries = 1
INVARIANTS
    PaidTogether
PROPERTIES
    ImplementsLedger
    PendingIsResolved
    EntriesConsumed
    
CHECK_DEADLOCK FALSE
