---------------------------- MODULE PaymentLedger ----------------------------
(***************************************************************************)
(* What approach-1 promises its clients: orders that are paid by capturing *)
(* a payment of theirs, in one step, and announcements and settlements     *)
(* only for captured payments.  There is no stream, no idempotency key, no *)
(* worker and no failure here; PaymentSystem implements it.                *)
(***************************************************************************)
CONSTANTS OrderIds, PaymentIds, NoOrder

VARIABLES
    order,      \* status of each order
    payment,    \* status of each payment
    owner,      \* the order a payment is for
    announced,  \* payments clients were told are confirmed
    settled     \* payments matched with a settlement

vars == <<order, payment, owner, announced, settled>>

Init ==
    /\ order = [o \in OrderIds |-> "none"]
    /\ payment = [p \in PaymentIds |-> "none"]
    /\ owner = [p \in PaymentIds |-> NoOrder]
    /\ announced = {}
    /\ settled = {}

NewOrder(o) ==
    /\ order[o] = "none"
    /\ order' = [order EXCEPT ![o] = "PENDING"]
    /\ UNCHANGED <<payment, owner, announced, settled>>

\* An order may be tried with several payments, also after it is PAID.
NewPayment(p, o) ==
    /\ payment[p] = "none"
    /\ order[o] # "none"
    /\ payment' = [payment EXCEPT ![p] = "PENDING"]
    /\ owner' = [owner EXCEPT ![p] = o]
    /\ UNCHANGED <<order, announced, settled>>

Capture(p) ==
    /\ payment[p] = "PENDING"
    /\ payment' = [payment EXCEPT ![p] = "SUCCESS"]
    /\ order' = [order EXCEPT ![owner[p]] = "PAID"]
    /\ UNCHANGED <<owner, announced, settled>>

Announce(p) ==
    /\ payment[p] = "SUCCESS"
    /\ announced' = announced \union {p}
    /\ UNCHANGED <<order, payment, owner, settled>>

Settle(p) ==
    /\ payment[p] = "SUCCESS"
    /\ settled' = settled \union {p}
    /\ UNCHANGED <<order, payment, owner, announced>>

Next ==
    \/ \E o \in OrderIds : NewOrder(o)
    \/ \E p \in PaymentIds, o \in OrderIds : NewPayment(p, o)
    \/ \E p \in PaymentIds : Capture(p) \/ Announce(p) \/ Settle(p)

Spec == Init /\ [][Next]_vars
=============================================================================
