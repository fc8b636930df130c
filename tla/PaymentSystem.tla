---------------------------- MODULE PaymentSystem ----------------------------
(***************************************************************************)
(* approach-1 as it is deployed: the API and one worker process, which     *)
(* share only PostgreSQL and Redis.                                        *)
(***************************************************************************)
EXTENDS PaymentApi, PaymentWorker

vars == <<storeVars, workerVars, pushed>>

TypeOK == StoreTypeOK /\ WorkerTypeOK /\ ApiTypeOK

Init == StoreInit /\ WorkerInit /\ ApiInit

Processor == ProcessorStep /\ UNCHANGED <<reconcilerVars, restarts, pushed>>
Reconciler == ReconcilerStep /\ UNCHANGED <<processorVars, restarts, pushed>>

Next ==
    \/ ApiNext /\ UNCHANGED workerVars
    \/ WorkerNext /\ UNCHANGED pushed
    \/ \E k \in Keys : KeyExpires(k) /\ UNCHANGED <<workerVars, pushed>>

Spec == Init /\ [][Next]_vars

\* tokio polls both tasks and their sleeps end, so a task whose next remote call
\* can succeed makes it.  Calls that fail and crashes are bounded by the
\* constants: the outages the code waits out come to an end.
Fairness == WF_vars(Processor) /\ WF_vars(Reconciler)
FairSpec == Spec /\ Fairness

-----------------------------------------------------------------------------
(* Safety, whatever the gateways send.                                     *)

SameKey(k) == {e \in WebhookEvents : Key(e) = k}
Confirming(e) == wpc \in {"confirm", "publish"} /\ Current = e

\* What is announced on payments.confirmed is already committed: the payment and
\* the order of the event are no longer PENDING (handle_event publishes only
\* after mark_payment_success returned, and nothing ever goes back to PENDING).
ConfirmedIsPaid ==
    \A e \in published :
        /\ e.status = "SUCCESS"
        /\ payment_status[e.payment_id] # "PENDING"
        /\ order_status[e.order_id] # "PENDING"

\* What is announced left a row in transactions: the log and the announcements
\* can be reconciled by their (gateway, event id), crashes and replays included.
ConfirmedIsLogged == \A e \in published : KeyTaken(e)

\* The idempotency key lets at most one announcement through per lifetime of the
\* key, however often the gateway resends, the worker restarts or calls fail.
OneConfirmationPerLifetime == \A k \in Keys : publications[k] <= 1 + expiries[k]

\* A settlement is only ever recorded for a payment that is SUCCESS.
SettledIsSuccess == \A p \in settlements : payment_status[p] = "SUCCESS"

\* Without failures and crashes, every entry the worker moved past is accounted
\* for: some delivery of the same key collides with the row of another, or was logged
\* and, when it said SUCCESS, marked paid and announced.  Skipping a duplicate
\* is right then, also after its key expired.
Rejected(e) ==
    \/ \E t \in transactions :
        t.gateway = e.gateway /\ t.gateway_txn_id = e.gateway_txn_id /\ Key(t) # Key(e)
    \/ ~ PaymentExists(e.payment_id)
Done(e) ==
    /\ e \in transactions
    /\ e.status = "SUCCESS" => payment_status[e.payment_id] = "SUCCESS" /\ e \in published
NothingLost ==
    faults = 0 /\ restarts = 0 =>
        \A i \in 1..last_id : \E j \in 1..i :
            /\ Key(stream[j]) = Key(stream[i])
            /\ Done(stream[j]) \/ Rejected(stream[j])

\* When calls fail or the worker crashes, each of them costs one event at most: a key
\* that is set, so that retries are skipped, although no delivery of it came to
\* anything, or a row of a SUCCESS that was not followed by its announcement.
InWork(k) == wpc \in {"expire", "log", "confirm", "publish"} /\ Key(Current) = k
Lost ==
    {k \in Keys :
        \/ /\ idemp[k] # "absent" /\ ~ InWork(k)
           /\ \A i \in DOMAIN stream :
                Key(stream[i]) = k => ~ Done(stream[i]) /\ ~ Rejected(stream[i])
        \/ \E t \in transactions : Key(t) = k /\ ~ Done(t) /\ ~ Confirming(t)}
LostAreFailures == Cardinality(Lost) <= faults + restarts

\* A key without a TTL would suppress its event for ever: outside the two calls
\* of mark_if_absent there is one only after a failed call or a crash.
KeysGetTtl ==
    faults = 0 /\ restarts = 0 =>
        \A k \in Keys : idemp[k] = "set" => wpc = "expire" /\ Key(Current) = k

\* A payment that no webhook reported paid was captured by reconcile_once, which
\* writes its settlement in the next call.  No later round repairs one that is
\* missing, but a failed call or a crash costs one settlement at most, although it
\* drops the whole rest of the round.
Unsettled ==
    {p \in PaymentIds :
        /\ payment_status[p] = "SUCCESS" /\ p \notin settlements
        /\ ~ (rpc = "settle" /\ InHand(p))
        /\ \A i \in DOMAIN stream : stream[i].payment_id = p => stream[i].status # "SUCCESS"}
UnsettledAreFailures == Cardinality(Unsettled) <= faults + restarts

\* Webhooks arrive late, twice and out of order, and main.rs:77 logs each of them: a
\* PENDING or FAILED that comes after the capture takes nothing back.
CaptureIsFinal ==
    [][ /\ \A p \in PaymentIds : payment_status[p] = "SUCCESS" => payment_status'[p] = "SUCCESS"
        /\ \A o \in OrderIds : order_status[o] = "PAID" => order_status'[o] = "PAID"
        /\ \A e \in published : Done(e) => Done(e)' ]_vars

-----------------------------------------------------------------------------
(* Safety, when gateways name the order of the payment they report.        *)

\* orders and payments agree: an order is PAID exactly when one of its payments
\* is SUCCESS, although three writers update the two tables.
PaidTogether ==
    \A o \in OrderIds :
        order_status[o] = "PAID" <=>
            \E p \in PaymentIds : payment_order[p] = o /\ payment_status[p] = "SUCCESS"

-----------------------------------------------------------------------------
(* The abstract specification, when gateways name the order of the payment *)
(* they report and an event id stands for one event.                       *)

Ledger == INSTANCE PaymentLedger WITH
    order <- order_status,
    payment <- payment_status,
    owner <- payment_order,
    announced <- {e.payment_id : e \in published},
    settled <- settlements

\* Every behaviour of the API, the worker, the stream and the keys is one of the
\* ledger: payment and order change together, once, and nothing is announced or
\* settled before.
ImplementsLedger == Ledger!Spec

-----------------------------------------------------------------------------
(* Liveness, under FairSpec.                                               *)

\* The reconciler finds every pending payment, PendingLimit at a time and with
\* rounds that abort, so no payment stays PENDING.
PendingIsResolved ==
    \A p \in PaymentIds : payment_status[p] = "PENDING" ~> payment_status[p] = "SUCCESS"

\* No entry of the stream stops the worker: refused, failed and duplicate events
\* are passed, and a restarted worker comes back to where it was.
EntriesConsumed == \A i \in 1..MaxStream : Len(stream) >= i ~> last_id >= i

\* A webhook a client of /ws saw the API push is answered by the worker,
\* unless a call failed or the worker crashed: some delivery of its key
\* is refused by the table, or is logged and, being a SUCCESS, announced.
Answered(e) ==
    \E i \in DOMAIN stream :
        /\ Key(stream[i]) = Key(e)
        /\ Done(stream[i]) \/ Rejected(stream[i])
PushedIsAnswered ==
    \A d \in Deliveries :
        Stamped(d) \in pushed ~> (Answered(Stamped(d)) \/ faults > 0 \/ restarts > 0)

-----------------------------------------------------------------------------
(* What the log says of a skipped event, which the code does not keep.     *)

\* main.rs:73 logs "duplicate webhook skipped": what is skipped as a duplicate was
\* processed before, that is, transactions holds its key or refuses it.
SkippedWasProcessed == \A e \in skipped : KeyTaken(e) \/ Rejected(e)
=============================================================================
