------------------------- MODULE PaymentLedgerProofs -------------------------
(* PaymentSystem implements PaymentLedger when webhooks name the order of  *)
(* the payment they report and event ids are kept apart.                   *)
EXTENDS PaymentSystemProofs

Honest == TrustGateways /\ EventIdsIdentify

\* Stream, log and tables agree on the order of every payment, so the processor and
\* the reconciler mark the same two rows for the same payment.
HonestInv ==
    /\ \A i \in 1..Len(stream) :
        /\ \E d \in Deliveries : stream[i] = Stamped(d)
        /\ PaymentExists(stream[i].payment_id) =>
              payment_order[stream[i].payment_id] = stream[i].order_id
    /\ \A t \in transactions : \E i \in 1..Len(stream) : stream[i] = t
    /\ \A p \in PaymentIds :
        IF PaymentExists(p) THEN payment_order[p] \in OrderIds /\ OrderExists(payment_order[p])
                            ELSE payment_order[p] = NoOrder
    /\ PaidTogether

Inv == Typed /\ AnnounceInv /\ SettleInv /\ LoggedExist /\ HonestInv

\* A logged event has a payment, and so has any event of the same key.
LEMMA TakenExists ==
    ASSUME Honest, Inv, NEW i \in 1..Len(stream), KeyTaken(stream[i])
    PROVE  PaymentExists(stream[i].payment_id)
<1>1. PICK t \in transactions : Key(t) = Key(stream[i])
  BY DEF KeyTaken
<1>2. PICK j \in 1..Len(stream) : stream[j] = t
  BY DEF Inv, HonestInv
<1>3. PICK d \in Deliveries, f \in Deliveries : stream[i] = Stamped(d) /\ t = Stamped(f)
  BY <1>2 DEF Inv, HonestInv
<1>4. t.payment_id = stream[i].payment_id
  BY <1>1, <1>3 DEF Honest, EventIdsIdentify
<1>5. QED BY <1>4 DEF Inv, LoggedExist

\* mark_payment_success as its two callers use it.
Captures(p) == PaymentExists(p) /\ mark_payment_success(p, payment_order[p])

\* What a step does to the state the ledger sees.
HonestEffect ==
    \/ UNCHANGED <<dbVars, published>>
    \/ \E o \in OrderIds : create_order(o) /\ UNCHANGED published
    \/ \E p \in PaymentIds, o \in OrderIds :
          FreshPayment(p) /\ create_payment(p, o) /\ UNCHANGED published
    \/ \E p \in PaymentIds : Captures(p) /\ UNCHANGED published
    \/ /\ wpc # "read" /\ log_transaction(Current)
       /\ UNCHANGED published
    \/ \E p \in PaymentIds :
          payment_status[p] = "SUCCESS" /\ insert_settlement(p) /\ UNCHANGED published
    \/ /\ UNCHANGED dbVars
       /\ published' = published \union {Current}
       /\ Current.payment_id \in PaymentIds /\ payment_status[Current.payment_id] = "SUCCESS"

LEMMA HonestEffects ==
    ASSUME Honest, Inv, [Next]_vars
    PROVE  HonestEffect
<1> USE DEF HonestEffect
<1>t. StoreTypeOK /\ WorkerTypeOK /\ Typed
  BY DEF Inv, Typed, TypeOK
<1>1. CASE ApiNext
  BY <1>1 DEF ApiNext, CreateOrder, InitiatePayment, ReceiveWebhook, EnqueueFails, channelVars
<1>2. CASE ProcessorNext /\ wpc # "read"
  <2>1. /\ Current \in WebhookEvents /\ Current.payment_id \in PaymentIds
        /\ last_id + 1 \in 1..Len(stream) /\ Current = stream[last_id + 1]
    BY <1>2, <1>t, CurrentType, CurrentEntry DEF WebhookEvents
  <2>2. wpc \in {"confirm", "publish"} =>
          PaymentExists(Current.payment_id) /\ payment_order[Current.payment_id] = Current.order_id
    BY <2>1, TakenExists DEF Inv, AnnounceInv, HonestInv
  <2>3. CASE ReadBatch \/ MarkKey \/ SkipDuplicate \/ MarkFails \/ SetTtl \/ SetTtlFails
             \/ LogRefused
    BY <2>3 DEF ReadBatch, MarkKey, SkipDuplicate, MarkFails, SetTtl, SetTtlFails, LogRefused,
       storeVars, channelVars
  <2>4. CASE LogTransaction \/ LogFails
    BY <1>2, <2>4 DEF LogTransaction, LogFails, channelVars
  <2>5. CASE ConfirmPayment \/ ConfirmFails
    BY <2>1, <2>2, <2>5 DEF ConfirmPayment, ConfirmFails, channelVars, Captures
  <2>6. CASE PublishConfirmed \/ PublishFails
    <3>1. wpc = "publish" /\ UNCHANGED dbVars
          /\ (UNCHANGED published \/ published' = published \union {Current})
      BY <2>6 DEF PublishConfirmed, PublishFails, publish_payment_confirmed, channelVars
    <3>2. payment_status[Current.payment_id] = "SUCCESS"
      BY <1>t, <2>1, <2>2, <3>1 DEF Inv, AnnounceInv, Resolved, PaymentExists, StoreTypeOK
    <3>3. QED BY <2>1, <3>1, <3>2
  <2>7. QED
    BY <1>2, <2>3, <2>4, <2>5, <2>6 DEF ProcessorNext, ProcessorStep, ProcessorFault
<1>3. CASE ProcessorNext /\ wpc = "read"
  BY <1>3 DEF ProcessorNext, ProcessorStep, ProcessorFault, ReadBatch, MarkKey,
     SkipDuplicate, MarkFails, SetTtl, SetTtlFails, LogTransaction, LogRefused, LogFails,
     ConfirmPayment, ConfirmFails, PublishConfirmed, PublishFails, storeVars, channelVars
<1>4. CASE ReconcilerNext
  <2>1. ASSUME NEW p \in PaymentIds, InHand(p)
        PROVE  PaymentExists(p) /\ (rpc = "settle" => payment_status[p] = "SUCCESS")
    BY <2>1 DEF InHand, Inv, SettleInv, Rows
  <2>2. ASSUME NEW p \in PaymentIds, ReconcileMark(p) \/ ReconcileMarkFails(p)
        PROVE  HonestEffect
    BY <2>1, <2>2 DEF ReconcileMark, ReconcileMarkFails, Captures, channelVars
  <2>3. ASSUME NEW p \in PaymentIds, ReconcileSettle(p) \/ ReconcileSettleFails(p)
        PROVE  HonestEffect
    BY <2>1, <2>3 DEF ReconcileSettle, ReconcileSettleFails, channelVars
  <2>4. QED
    BY <1>4, <2>2, <2>3 DEF ReconcilerNext, ReconcilerStep, ReconcilerFault, FetchPending,
       storeVars, channelVars
<1>5. CASE Restart \/ (\E k \in Keys : KeyExpires(k)) \/ UNCHANGED vars
  BY <1>5 DEF Restart, KeyExpires, vars, storeVars, channelVars
<1>6. QED BY <1>1, <1>2, <1>3, <1>4, <1>5 DEF Next, WorkerNext

LEMMA StreamGrows ==
    ASSUME Inv, [Next]_vars
    PROVE  \/ UNCHANGED stream
           \/ \E d \in Deliveries :
                /\ MayArrive(Stamped(d)) /\ stream' = Append(stream, Stamped(d))
                /\ UNCHANGED dbVars
<1>1. CASE ApiNext
  BY <1>1 DEF ApiNext, CreateOrder, InitiatePayment, ReceiveWebhook, EnqueueFails, enqueue
<1>2. CASE ProcessorNext
  BY <1>2 DEF ProcessorNext, ProcessorStep, ProcessorFault, ReadBatch, MarkKey, SkipDuplicate,
     MarkFails, SetTtl, SetTtlFails, LogTransaction, LogRefused, LogFails, ConfirmPayment,
     ConfirmFails, PublishConfirmed, PublishFails, storeVars
<1>3. CASE ReconcilerNext
  BY <1>3 DEF ReconcilerNext, ReconcilerStep, ReconcilerFault, FetchPending, ReconcileMark,
     ReconcileMarkFails, ReconcileSettle, ReconcileSettleFails, storeVars
<1>4. CASE Restart \/ (\E k \in Keys : KeyExpires(k)) \/ UNCHANGED vars
  BY <1>4 DEF Restart, KeyExpires, vars, storeVars
<1>5. QED BY <1>1, <1>2, <1>3, <1>4 DEF Next, WorkerNext

\* Every row of payments keeps its order, which has a row too.
Owned ==
    \A p \in PaymentIds :
        IF PaymentExists(p) THEN payment_order[p] \in OrderIds /\ OrderExists(payment_order[p])
                            ELSE payment_order[p] = NoOrder

LEMMA OwnedStep ==
    ASSUME Honest, Inv, HonestEffect
    PROVE  Owned'
<1>t. StoreTypeOK BY DEF Inv, Typed, TypeOK
<1>o. Owned BY DEF Inv, HonestInv, Owned
<1> USE DEF Owned, PaymentExists, OrderExists
<1>1. CASE UNCHANGED dbVars
  BY <1>1, <1>o DEF dbVars
<1>2. ASSUME NEW o \in OrderIds, create_order(o) PROVE Owned'
  BY <1>2, <1>o, <1>t DEF create_order, StoreTypeOK
<1>3. ASSUME NEW p \in PaymentIds, NEW o \in OrderIds, create_payment(p, o) PROVE Owned'
  BY <1>3, <1>o, <1>t DEF create_payment, StoreTypeOK
<1>4. ASSUME NEW p \in PaymentIds, Captures(p) PROVE Owned'
  BY <1>4, <1>o, <1>t DEF Captures, mark_payment_success, StoreTypeOK
<1>5. CASE log_transaction(Current)
  BY <1>5, <1>o DEF log_transaction
<1>6. ASSUME NEW p \in PaymentIds, insert_settlement(p) PROVE Owned'
  BY <1>6, <1>o DEF insert_settlement
<1>7. QED BY <1>1, <1>2, <1>3, <1>4, <1>5, <1>6 DEF HonestEffect

\* payment and order change in one transaction, and only the row pair of one payment.
LEMMA PaidTogetherStep ==
    ASSUME Honest, Inv, HonestEffect
    PROVE  PaidTogether'
<1>t. StoreTypeOK BY DEF Inv, Typed, TypeOK
<1>o. Owned BY DEF Inv, HonestInv, Owned
<1>p. PaidTogether BY DEF Inv, HonestInv
<1> DEFINE Paid(o) == \E p \in PaymentIds : payment_order[p] = o /\ payment_status[p] = "SUCCESS"
<1>1. CASE UNCHANGED dbVars
  BY <1>1, <1>p DEF dbVars, PaidTogether
<1>2. ASSUME NEW o \in OrderIds, create_order(o) PROVE PaidTogether'
  <2>1. order_status[o] = "none" /\ UNCHANGED <<payment_status, payment_order>>
        /\ order_status' = [order_status EXCEPT ![o] = "PENDING"]
    BY <1>2 DEF create_order, OrderExists
  <2>2. ~ Paid(o)
    BY <1>o, <2>1 DEF Owned, PaymentExists, OrderExists
  <2>3. QED BY <1>t, <1>p, <2>1, <2>2 DEF PaidTogether, StoreTypeOK
<1>3. ASSUME NEW p \in PaymentIds, NEW o \in OrderIds, create_payment(p, o) PROVE PaidTogether'
  <2>1. /\ payment_status[p] = "none" /\ UNCHANGED order_status
        /\ payment_status' = [payment_status EXCEPT ![p] = "PENDING"]
        /\ payment_order' = [payment_order EXCEPT ![p] = o]
    BY <1>3 DEF create_payment, PaymentExists
  <2>2. ASSUME NEW x \in OrderIds PROVE Paid(x)' <=> Paid(x)
    <3>1. ASSUME NEW q \in PaymentIds
          PROVE  /\ payment_status'[q] = "SUCCESS" <=> payment_status[q] = "SUCCESS"
                 /\ payment_status[q] = "SUCCESS" => payment_order'[q] = payment_order[q]
      BY <1>t, <2>1 DEF StoreTypeOK
    <3>2. QED BY <3>1
  <2>3. QED BY <1>p, <2>1, <2>2 DEF PaidTogether
<1>4. ASSUME NEW p \in PaymentIds, Captures(p) PROVE PaidTogether'
  <2>1. /\ payment_order[p] \in OrderIds /\ UNCHANGED payment_order
        /\ payment_status' = [payment_status EXCEPT ![p] = "SUCCESS"]
        /\ order_status' = [order_status EXCEPT ![payment_order[p]] = "PAID"]
    BY <1>4, <1>o DEF Captures, mark_payment_success, Owned
  <2>2. ASSUME NEW x \in OrderIds
        PROVE  order_status'[x] = "PAID" <=> Paid(x)'
    <3>1. CASE x = payment_order[p]
      <4>1. order_status'[x] = "PAID" BY <1>t, <2>1, <3>1 DEF StoreTypeOK
      <4>2. payment_order'[p] = x /\ payment_status'[p] = "SUCCESS"
        BY <1>t, <2>1, <3>1 DEF StoreTypeOK
      <4>3. QED BY <4>1, <4>2
    <3>2. CASE x # payment_order[p]
      <4>1. order_status'[x] = order_status[x] BY <1>t, <2>1, <3>2 DEF StoreTypeOK
      <4>2. ASSUME NEW q \in PaymentIds, payment_order[q] = x
            PROVE  payment_status'[q] = payment_status[q]
        BY <1>t, <2>1, <3>2, <4>2 DEF StoreTypeOK
      <4>3. QED BY <1>p, <2>1, <4>1, <4>2 DEF PaidTogether
    <3>3. QED BY <3>1, <3>2
  <2>3. QED BY <2>2 DEF PaidTogether
<1>5. CASE log_transaction(Current)
  BY <1>5, <1>p DEF log_transaction, PaidTogether
<1>6. ASSUME NEW p \in PaymentIds, insert_settlement(p) PROVE PaidTogether'
  BY <1>6, <1>p DEF insert_settlement, PaidTogether
<1>7. QED BY <1>1, <1>2, <1>3, <1>4, <1>5, <1>6 DEF HonestEffect

LEMMA HonestStep ==
    ASSUME Honest, Inv, [Next]_vars
    PROVE  HonestInv'
<1>t. StoreTypeOK /\ Typed /\ stream \in Seq(WebhookEvents) BY DEF Inv, Typed, TypeOK, StoreTypeOK
<1>g. Grows BY <1>t, StepGrows
<1>e. HonestEffect BY HonestEffects
<1> DEFINE FromDelivery(i) == \E d \in Deliveries : stream[i] = Stamped(d)
           Agrees(i) == PaymentExists(stream[i].payment_id) =>
                          payment_order[stream[i].payment_id] = stream[i].order_id
<1>1. ASSUME NEW i \in 1..Len(stream) PROVE FromDelivery(i)' /\ Agrees(i)'
  <2>1. stream'[i] = stream[i] /\ stream[i].payment_id \in PaymentIds
    BY <1>g, <1>t, EntryType DEF Grows
  <2>2. PaymentExists(stream[i].payment_id)' => PaymentExists(stream[i].payment_id)
    BY <1>g DEF Grows
  <2>3. PaymentExists(stream[i].payment_id) =>
          payment_order'[stream[i].payment_id] = payment_order[stream[i].payment_id]
    BY <1>g, <2>1 DEF Grows
  <2>4. FromDelivery(i) /\ Agrees(i) BY DEF Inv, HonestInv
  <2>5. QED BY <2>1, <2>2, <2>3, <2>4 DEF PaymentExists
<1>2. ASSUME NEW i \in 1..Len(stream'), i \notin 1..Len(stream)
      PROVE  FromDelivery(i)' /\ Agrees(i)'
  <2>1. PICK d \in Deliveries : MayArrive(Stamped(d)) /\ stream' = Append(stream, Stamped(d))
                               /\ UNCHANGED dbVars
    BY <1>2, StreamGrows
  <2>2. Stamped(d) \in WebhookEvents BY StampedType
  <2>3. i = Len(stream) + 1 /\ stream'[i] = Stamped(d)
    BY <1>2, <1>t, <2>1, <2>2, AppendFacts
  <2>4. QED BY <2>1, <2>3 DEF MayArrive, Honest, dbVars, PaymentExists
<1>3. ASSUME NEW t \in transactions' PROVE \E i \in 1..Len(stream') : stream'[i] = t
  <2>1. ASSUME NEW i \in 1..Len(stream) PROVE i \in 1..Len(stream') /\ stream'[i] = stream[i]
    BY <1>g, <1>t, AnnouncedStays
  <2>2. CASE t \in transactions
    BY <2>1, <2>2 DEF Inv, HonestInv
  <2>3. CASE t \notin transactions
    <3>1. wpc # "read" /\ t = Current
      BY <1>e, <1>3, <2>3 DEF HonestEffect, dbVars, create_order, create_payment, Captures,
         mark_payment_success, log_transaction, insert_settlement
    <3>2. QED BY <1>t, <2>1, <3>1, CurrentEntry
  <2>4. QED BY <2>2, <2>3
<1>4. Owned' BY <1>e, OwnedStep
<1>5. PaidTogether' BY <1>e, PaidTogetherStep
<1>6. QED BY <1>1, <1>2, <1>3, <1>4, <1>5 DEF HonestInv, Owned

LEMMA HonestInit == Init => HonestInv
BY NoOrderIsNoId DEF Init, StoreInit, WorkerInit, HonestInv, PaymentExists, PaidTogether

LEMMA AlwaysInv == ASSUME Honest PROVE Spec => []Inv
<1>1. Init => Inv
  BY TypedInit, AnnounceInit, SettleInit, CleanInit, HonestInit DEF Inv, CleanInv
<1>2. Inv /\ [Next]_vars => Inv'
  BY TypedStep, AnnounceStep, SettleStep, LoggedExistStep, HonestStep DEF Inv
<1>3. QED BY <1>1, <1>2, PTL DEF Spec

\* orders and payments agree on what is paid, whoever updates them and whatever
\* fails, as long as webhooks name the right order.
THEOREM OrdersPaidTogether == ASSUME Honest PROVE Spec => []PaidTogether
<1>1. Inv => PaidTogether BY DEF Inv, HonestInv
<1>2. QED BY <1>1, AlwaysInv, PTL

-----------------------------------------------------------------------------
(* Refinement.                                                             *)

Told == {e.payment_id : e \in published}

LEMMA LedgerInit == Init => Ledger!Init
BY DEF Init, StoreInit, Ledger!Init

LEMMA LedgerStep ==
    ASSUME Honest, Inv, [Next]_vars
    PROVE  [Ledger!Next]_Ledger!vars
<1>t. StoreTypeOK BY DEF Inv, Typed, TypeOK
<1>o. Owned BY DEF Inv, HonestInv, Owned
<1>e. HonestEffect BY HonestEffects
<1> USE DEF Ledger!Next, Ledger!vars
<1>1. CASE UNCHANGED <<dbVars, published>>
  BY <1>1 DEF dbVars
<1>2. ASSUME NEW o \in OrderIds, create_order(o), UNCHANGED published
      PROVE  Ledger!Next
  <2>1. Ledger!NewOrder(o) BY <1>2 DEF create_order, OrderExists, Ledger!NewOrder
  <2>2. QED BY <2>1
<1>3. ASSUME NEW p \in PaymentIds, NEW o \in OrderIds, create_payment(p, o), UNCHANGED published
      PROVE  Ledger!Next
  <2>1. Ledger!NewPayment(p, o)
    BY <1>3 DEF create_payment, PaymentExists, OrderExists, Ledger!NewPayment
  <2>2. QED BY <2>1
<1>4. ASSUME NEW p \in PaymentIds, Captures(p), UNCHANGED published
      PROVE  [Ledger!Next]_Ledger!vars
  <2>1. /\ payment_order[p] \in OrderIds
        /\ payment_status' = [payment_status EXCEPT ![p] = "SUCCESS"]
        /\ order_status' = [order_status EXCEPT ![payment_order[p]] = "PAID"]
        /\ UNCHANGED <<payment_order, settlements>>
    BY <1>4, <1>o DEF Captures, mark_payment_success, Owned
  <2>2. CASE payment_status[p] = "PENDING"
    <3>1. Ledger!Capture(p) BY <1>4, <2>1, <2>2 DEF Ledger!Capture
    <3>2. QED BY <3>1
  <2>3. CASE payment_status[p] = "SUCCESS"
    <3>1. order_status[payment_order[p]] = "PAID"
      BY <2>1, <2>3 DEF Inv, HonestInv, PaidTogether
    <3>2. payment_status' = payment_status /\ order_status' = order_status
      BY <1>t, <2>1, <2>3, <3>1 DEF StoreTypeOK
    <3>3. QED BY <1>4, <2>1, <3>2
  <2>4. payment_status[p] \in {"PENDING", "SUCCESS"}
    BY <1>t, <1>4 DEF Captures, PaymentExists, StoreTypeOK
  <2>5. QED BY <2>2, <2>3, <2>4
<1>5. ASSUME log_transaction(Current), UNCHANGED published PROVE UNCHANGED Ledger!vars
  BY <1>5 DEF log_transaction
<1>6. ASSUME NEW p \in PaymentIds, payment_status[p] = "SUCCESS", insert_settlement(p),
             UNCHANGED published
      PROVE  Ledger!Next
  <2>1. Ledger!Settle(p) BY <1>6 DEF insert_settlement, Ledger!Settle
  <2>2. QED BY <2>1
<1>7. ASSUME UNCHANGED dbVars, published' = published \union {Current},
             Current.payment_id \in PaymentIds, payment_status[Current.payment_id] = "SUCCESS"
      PROVE  Ledger!Next
  <2>1. PICK p \in PaymentIds : p = Current.payment_id
    BY <1>7
  <2>2. {e.payment_id : e \in published'} = Told \union {p}
    BY <1>7, <2>1 DEF Told
  <2>3. Ledger!Announce(p)
    BY <1>7, <2>1, <2>2 DEF Ledger!Announce, dbVars, Told
  <2>4. QED BY <2>3
<1>8. QED BY <1>1, <1>2, <1>3, <1>4, <1>5, <1>6, <1>7, <1>e DEF HonestEffect

\* The API, the worker, the stream, the keys and the tables together implement the
\* ledger: capture is atomic and comes before every announcement and settlement.
THEOREM SystemImplementsLedger == ASSUME Honest PROVE Spec => ImplementsLedger
<1>1. Inv /\ [Next]_vars => [Ledger!Next]_Ledger!vars BY LedgerStep
<1>2. QED BY <1>1, LedgerInit, AlwaysInv, PTL DEF Spec, ImplementsLedger, Ledger!Spec

=============================================================================
