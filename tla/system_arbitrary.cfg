\* Gateways may send anything: safety of the whole system.
SPECIFICATION Spec
CONSTANTS
    o1 = o1
    o2 = o2
    p1 = p1
    p2 = p2
    g = g
    e1 = e1
    e2 = e2
    t1 = t1
    t2 = t2
    NoOrder = NoOrder
    OrderIds = {o1, o2}
    PaymentIds = {p1, p2}
    Gateways = {g}
    EventIds = {e1, e2}
    TxnIds = {t1, t2}
    Deliveries <- Arbitrary
    TrustGateways = FALSE
    PendingLimit = 1
    BatchSize = 2
    MaxStream = 2
    MaxFaults = 1
    MaxRestarts = 1
    MaxExpiries = 1
INVARIANTS
    TypeOK
    ConfirmedIsPaid
    ConfirmedIsLogged
    OneConfirmationPerLifetime
    SettledIsSuccess
    
    KeysGetTtl
    UnsettledAreFailures
    
PROPERTIES
    CaptureIsFinal
CHECK_DEADLOCK FALSE
