----------------------------- MODULE PaymentStore -----------------------------
(***************************************************************************)
(* The state the API and the worker of approach-1 share: the PostgreSQL    *)
(* tables of migrations/0001_init.sql, the Redis stream "stream:webhooks", *)
(* the idempotency keys "idemp:webhook:<gateway>:<event_id>" and the       *)
(* Pub/Sub channel "payments.confirmed".  Every operator named like a      *)
(* method of crates/adapters is the effect of ONE remote call of that      *)
(* method; the modules PaymentWorker and PaymentApi decide when the calls  *)
(* are made and what happens when one fails.                               *)
(***************************************************************************)
EXTENDS Integers, Sequences, FiniteSets

CONSTANTS
    OrderIds,       \* ids Uuid::new_v4 may give an order
    PaymentIds,     \* ids Uuid::new_v4 may give a payment
    Gateways,       \* path segment of /webhooks/:gateway
    EventIds,       \* GatewayWebhookEvent.event_id
    TxnIds,         \* GatewayWebhookEvent.gateway_txn_id
    NoOrder,        \* payment_order of a payment that has no row
    PendingLimit,   \* LIMIT of pending_payments (100 in the code)
    MaxFaults,      \* bound: remote calls that return an error
    MaxExpiries     \* bound: TTLs that run out, per key

Statuses == {"PENDING", "SUCCESS", "FAILED"}
WebhookEvents ==
    [event_id : EventIds, gateway : Gateways, order_id : OrderIds,
     payment_id : PaymentIds, gateway_txn_id : TxnIds, status : Statuses]
Keys == Gateways \X EventIds
Key(e) == <<e.gateway, e.event_id>>

ASSUME PaymentIdsFinite == IsFiniteSet(PaymentIds)
ASSUME NoOrderIsNoId == NoOrder \notin OrderIds
ASSUME BoundsAssumption ==
    /\ PendingLimit \in Nat \ {0}
    /\ MaxFaults \in Nat
    /\ MaxExpiries \in Nat

VARIABLES
    order_status,   \* orders.status, "none" while the order has no row
    payment_status, \* payments.status, "none" while the payment has no row
    payment_order,  \* payments.order_id
    created_at,     \* payments.created_at, as a rank
    transactions,   \* rows of transactions, each the event it was made from
    settlements,    \* settlements.payment_id (settlement_ref is unique per payment)
    stream,         \* entries of stream:webhooks, which is never trimmed
    idemp,          \* idempotency key: absent, set without TTL, or with one
    expiries,       \* history: how often the TTL of a key ran out
    published,      \* history: events sent to payments.confirmed
    publications,   \* history: messages sent to payments.confirmed, per key
    faults          \* remote calls that have failed so far

dbVars == <<order_status, payment_status, payment_order, created_at,
            transactions, settlements>>
idempVars == <<idemp, expiries>>
channelVars == <<published, publications>>
storeVars == <<dbVars, stream, idempVars, channelVars, faults>>

StoreTypeOK ==
    /\ order_status \in [OrderIds -> {"none", "PENDING", "PAID"}]
    /\ payment_status \in [PaymentIds -> {"none", "PENDING", "SUCCESS"}]
    /\ payment_order \in [PaymentIds -> OrderIds \union {NoOrder}]
    /\ created_at \in [PaymentIds -> Nat]
    /\ transactions \subseteq WebhookEvents
    /\ settlements \subseteq PaymentIds
    /\ stream \in Seq(WebhookEvents)
    /\ idemp \in [Keys -> {"absent", "set", "expiring"}]
    /\ expiries \in [Keys -> Nat]
    /\ published \subseteq WebhookEvents
    /\ publications \in [Keys -> Nat]
    /\ faults \in Nat

StoreInit ==
    /\ order_status = [o \in OrderIds |-> "none"]
    /\ payment_status = [p \in PaymentIds |-> "none"]
    /\ payment_order = [p \in PaymentIds |-> NoOrder]
    /\ created_at = [p \in PaymentIds |-> 0]
    /\ transactions = {}
    /\ settlements = {}
    /\ stream = <<>>
    /\ idemp = [k \in Keys |-> "absent"]
    /\ expiries = [k \in Keys |-> 0]
    /\ published = {}
    /\ publications = [k \in Keys |-> 0]
    /\ faults = 0

-----------------------------------------------------------------------------
(* PostgreSQL, through crates/adapters/src/repository.rs.                  *)

OrderExists(o) == order_status[o] # "none"
PaymentExists(p) == payment_status[p] # "none"

create_order(o) ==
    /\ ~ OrderExists(o)
    /\ order_status' = [order_status EXCEPT ![o] = "PENDING"]
    /\ UNCHANGED <<payment_status, payment_order, created_at, transactions, settlements>>

\* The foreign key of payments.order_id refuses a payment of an unknown order.
create_payment(p, o) ==
    /\ ~ PaymentExists(p)
    /\ OrderExists(o)
    /\ payment_status' = [payment_status EXCEPT ![p] = "PENDING"]
    /\ payment_order' = [payment_order EXCEPT ![p] = o]
    /\ created_at' =
         [created_at EXCEPT ![p] = Cardinality({q \in PaymentIds : PaymentExists(q)}) + 1]
    /\ UNCHANGED <<order_status, transactions, settlements>>

\* Mutants of mark_payment_success: the statuses of the two tables are mixed up;
\* the UPDATE of orders is forgotten.
StatusesMixedUp(p, o) ==
    /\ payment_status' =
         IF PaymentExists(p) THEN [payment_status EXCEPT ![p] = "PAID"] ELSE payment_status
    /\ order_status' =
         IF OrderExists(o) THEN [order_status EXCEPT ![o] = "PAID"] ELSE order_status
    /\ UNCHANGED <<payment_order, created_at, transactions, settlements>>
OrderForgotten(p, o) ==
    /\ payment_status' =
         IF PaymentExists(p) THEN [payment_status EXCEPT ![p] = "SUCCESS"] ELSE payment_status
    /\ UNCHANGED <<order_status, payment_order, created_at, transactions, settlements>>

\* One transaction of two UPDATEs; an UPDATE that matches no row changes nothing.
mark_payment_success(p, o) ==
    /\ payment_status' =
         IF PaymentExists(p) THEN [payment_status EXCEPT ![p] = "SUCCESS"] ELSE payment_status
    /\ order_status' =
         IF OrderExists(o) THEN [order_status EXCEPT ![o] = "PAID"] ELSE order_status
    /\ UNCHANGED <<payment_order, created_at, transactions, settlements>>

\* UNIQUE (gateway, webhook_event_id), the arbiter of ON CONFLICT DO NOTHING ...
KeyTaken(e) == \E t \in transactions : Key(t) = Key(e)

\* ... and what that clause does not cover: UNIQUE (gateway, gateway_txn_id) and
\* the foreign key of transactions.payment_id make the INSERT fail.
TxnTaken(e) ==
    \E t \in transactions : t.gateway = e.gateway /\ t.gateway_txn_id = e.gateway_txn_id
Refused(e) == TxnTaken(e) \/ ~ PaymentExists(e.payment_id)
LogAccepts(e) == KeyTaken(e) \/ ~ Refused(e)

\* Mutant of log_transaction: the payment gets the status of the webhook.
StatusWritten(e) ==
    /\ LogAccepts(e)
    /\ transactions' = IF KeyTaken(e) THEN transactions ELSE transactions \union {e}
    /\ payment_status' =
         IF e.status = "FAILED" THEN payment_status
         ELSE [payment_status EXCEPT ![e.payment_id] = e.status]
    /\ UNCHANGED <<order_status, payment_order, created_at, settlements>>

log_transaction(e) ==
    /\ LogAccepts(e)
    /\ transactions' = IF KeyTaken(e) THEN transactions ELSE transactions \union {e}
    /\ UNCHANGED <<order_status, payment_status, payment_order, created_at, settlements>>

\* WHERE status = 'PENDING' ORDER BY created_at ASC LIMIT PendingLimit
pending_payments ==
    LET pending == {p \in PaymentIds : payment_status[p] = "PENDING"}
    IN  {p \in pending :
            Cardinality({q \in pending : created_at[q] < created_at[p]}) < PendingLimit}

insert_settlement(p) ==
    /\ settlements' = settlements \union {p}
    /\ UNCHANGED <<order_status, payment_status, payment_order, created_at, transactions>>

-----------------------------------------------------------------------------
(* Redis, through queue.rs, idempotency.rs and realtime.rs.                *)

enqueue(e) == stream' = Append(stream, e)

\* The two calls of mark_if_absent: SET NX, then EXPIRE in a round trip of its own.
set_nx(k) ==
    /\ idemp' = [idemp EXCEPT ![k] = IF @ = "absent" THEN "set" ELSE @]
    /\ UNCHANGED expiries
expire(k) ==
    /\ idemp' = [idemp EXCEPT ![k] = IF @ = "absent" THEN @ ELSE "expiring"]
    /\ UNCHANGED expiries

publish_payment_confirmed(e) ==
    /\ published' = published \union {e}
    /\ publications' = [publications EXCEPT ![Key(e)] = @ + 1]

\* Redis drops a key whose TTL ran out; a key that never got a TTL stays.
KeyExpires(k) ==
    /\ idemp[k] = "expiring"
    /\ expiries[k] < MaxExpiries
    /\ idemp' = [idemp EXCEPT ![k] = "absent"]
    /\ expiries' = [expiries EXCEPT ![k] = @ + 1]
    /\ UNCHANGED <<dbVars, stream, channelVars, faults>>

\* A remote call returns an error: the request or its reply was lost.  The caller
\* states, next to Fault, whether the call took effect.
Fault ==
    /\ faults < MaxFaults
    /\ faults' = faults + 1
=============================================================================
