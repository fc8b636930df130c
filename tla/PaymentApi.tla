------------------------------ MODULE PaymentApi ------------------------------
(***************************************************************************)
(* The handlers of apps/api/src/main.rs that change state.  A gateway may  *)
(* deliver a webhook any number of times and in any order, which is what a *)
(* gateway that retries does.                                              *)
(***************************************************************************)
EXTENDS PaymentStore

CONSTANTS
    Deliveries,     \* requests gateways may make: [path, body]
    TrustGateways,  \* TRUE: a webhook names the order its payment belongs to
    MaxStream       \* bound: webhooks received

ASSUME DeliveriesAssumption == Deliveries \subseteq [path : Gateways, body : WebhookEvents]
ASSUME ApiAssumption == TrustGateways \in BOOLEAN /\ MaxStream \in Nat

VARIABLE
    pushed          \* history: webhook payloads receive_webhook sent to ws_tx

ApiTypeOK == pushed \subseteq WebhookEvents
ApiInit == pushed = {}

\* Uuid::new_v4 returns an id nobody has used, so no webhook has named it.
FreshOrder(o) == \A i \in DOMAIN stream : stream[i].order_id # o
FreshPayment(p) == \A i \in DOMAIN stream : stream[i].payment_id # p

CreateOrder(o) ==
    /\ FreshOrder(o)
    /\ create_order(o)
    /\ UNCHANGED <<pushed, stream, idempVars, channelVars, faults>>

InitiatePayment(p, o) ==
    /\ FreshPayment(p)
    /\ create_payment(p, o)
    /\ UNCHANGED <<pushed, stream, idempVars, channelVars, faults>>

\* event.gateway = gateway: the path overrides what the body says.
Stamped(d) == [d.body EXCEPT !.gateway = d.path]

MayArrive(e) ==
    /\ Len(stream) < MaxStream
    /\ TrustGateways /\ PaymentExists(e.payment_id) => payment_order[e.payment_id] = e.order_id

\* A gateway that keeps its event ids apart: one id, one payment.  An assumption of
\* theorems only.
EventIdsIdentify ==
    \A d, f \in Deliveries :
        Key(Stamped(d)) = Key(Stamped(f)) => Stamped(d).payment_id = Stamped(f).payment_id

ReceiveWebhook(e) ==
    /\ MayArrive(e)
    /\ enqueue(e)
    /\ pushed' = pushed \union {e}
    /\ UNCHANGED <<dbVars, idempVars, channelVars, faults>>

\* XADD took effect but its reply was lost: the gateway sees a 500 and will retry.
EnqueueFails(e) ==
    /\ MayArrive(e)
    /\ Fault
    /\ enqueue(e)
    /\ UNCHANGED <<pushed, dbVars, idempVars, channelVars>>

ApiNext ==
    \/ \E o \in OrderIds : CreateOrder(o)
    \/ \E p \in PaymentIds, o \in OrderIds : InitiatePayment(p, o)
    \/ \E d \in Deliveries : ReceiveWebhook(Stamped(d)) \/ EnqueueFails(Stamped(d))
=============================================================================
