------------------------- MODULE PaymentSystemProofs -------------------------
(* Theorems about PaymentSystem, for every value of its constants.         *)
EXTENDS PaymentSystem, TLAPS, FiniteSetTheorems

-----------------------------------------------------------------------------
(* Types.                                                                  *)

\* What a request body becomes once the path has set its gateway is an event.
LEMMA StampedType == \A d \in Deliveries : Stamped(d) \in WebhookEvents
BY DeliveriesAssumption DEF Stamped, WebhookEvents

LEMMA AppendFacts ==
    ASSUME NEW S, NEW s \in Seq(S), NEW x \in S
    PROVE  /\ Append(s, x) \in Seq(S)
           /\ Len(Append(s, x)) = Len(s) + 1
           /\ \A i \in 1..Len(s) : Append(s, x)[i] = s[i]
           /\ Append(s, x)[Len(s) + 1] = x
OBVIOUS

\* A batch ends within the stream and an event in hand is an entry of it, so
\* Current is defined whenever process_webhooks is inside handle_event.
InBatch ==
    /\ batch <= Len(stream)
    /\ last_id <= batch
    /\ wpc # "read" => last_id < batch

Typed == TypeOK /\ InBatch

LEMMA KeyType == \A e \in WebhookEvents : Key(e) \in Keys
BY DEF WebhookEvents, Keys, Key

LEMMA CurrentType ==
    ASSUME Typed, wpc # "read"
    PROVE  Current \in WebhookEvents /\ Key(Current) \in Keys
<1>1. stream \in Seq(WebhookEvents) /\ last_id \in Nat /\ last_id + 1 \in 1..Len(stream)
  BY DEF Typed, InBatch, TypeOK, StoreTypeOK, WorkerTypeOK
<1>2. Current \in WebhookEvents
  BY <1>1 DEF Current
<1>3. QED BY <1>2, KeyType

LEMMA TypedInit == Init => Typed
BY NoOrderIsNoId DEF Init, StoreInit, WorkerInit, ApiInit, Typed, InBatch, TypeOK,
    StoreTypeOK, WorkerTypeOK, ApiTypeOK

LEMMA ApiTyped ==
    ASSUME Typed, ApiNext, UNCHANGED workerVars
    PROVE  Typed'
<1> USE DEF Typed, InBatch, TypeOK, StoreTypeOK, WorkerTypeOK, ApiTypeOK, workerVars,
       processorVars, reconcilerVars, idempVars, channelVars, dbVars, Fault
<1>1. ASSUME NEW o \in OrderIds, CreateOrder(o) PROVE Typed'
  BY <1>1 DEF CreateOrder, create_order
<1>2. ASSUME NEW p \in PaymentIds, NEW o \in OrderIds, InitiatePayment(p, o) PROVE Typed'
  <2>1. Cardinality({q \in PaymentIds : PaymentExists(q)}) \in Nat
    BY PaymentIdsFinite, FS_Subset, FS_CardinalityType
  <2>2. QED BY <1>2, <2>1 DEF InitiatePayment, create_payment
<1>3. ASSUME NEW e \in WebhookEvents, ReceiveWebhook(e) \/ EnqueueFails(e) PROVE Typed'
  <2>1. stream' \in Seq(WebhookEvents) /\ Len(stream') = Len(stream) + 1
    <3>1. stream' = Append(stream, e) BY <1>3 DEF ReceiveWebhook, EnqueueFails, enqueue
    <3>2. QED BY <3>1, AppendFacts
  <2>2. QED BY <1>3, <2>1 DEF ReceiveWebhook, EnqueueFails
<1>4. QED BY <1>1, <1>2, <1>3, StampedType DEF ApiNext

LEMMA MarkSuccessTyped ==
    ASSUME StoreTypeOK, NEW p, NEW o, mark_payment_success(p, o)
    PROVE  /\ order_status' \in [OrderIds -> {"none", "PENDING", "PAID"}]
           /\ payment_status' \in [PaymentIds -> {"none", "PENDING", "SUCCESS"}]
           /\ UNCHANGED <<payment_order, created_at, transactions, settlements>>
BY DEF StoreTypeOK, mark_payment_success

LEMMA IdempTyped ==
    ASSUME StoreTypeOK, NEW k \in Keys, set_nx(k) \/ expire(k)
    PROVE  idemp' \in [Keys -> {"absent", "set", "expiring"}] /\ expiries' = expiries
<1>1. idemp \in [Keys -> {"absent", "set", "expiring"}] BY DEF StoreTypeOK
<1>2. QED BY <1>1 DEF set_nx, expire

\* Where process_webhooks can be after a step that starts inside handle_event.
LEMMA PositionTyped ==
    ASSUME Typed, wpc # "read", stream' = stream,
           FinishEvent \/ \E pc \in {"expire", "log", "confirm", "publish"} : GoTo(pc)
    PROVE  /\ InBatch'
           /\ wpc' \in {"read", "mark", "expire", "log", "confirm", "publish"}
           /\ last_id' \in Nat /\ batch' \in Nat
BY DEF Typed, TypeOK, WorkerTypeOK, InBatch, FinishEvent, GoTo

LEMMA ProcessorTyped ==
    ASSUME Typed, ProcessorNext, UNCHANGED <<reconcilerVars, restarts, pushed>>
    PROVE  Typed'
<1>r. CASE ReadBatch
  BY <1>r, WorkerAssumption DEF ReadBatch, Typed, InBatch, TypeOK, StoreTypeOK, WorkerTypeOK,
     ApiTypeOK, reconcilerVars, storeVars, idempVars, channelVars, dbVars
<1>h. CASE wpc # "read"
  <2> DEFINE Moved == FinishEvent \/ \E pc \in {"expire", "log", "confirm", "publish"} : GoTo(pc)
  <2>c. Current \in WebhookEvents /\ Key(Current) \in Keys
    BY <1>h, CurrentType
  <2>s. StoreTypeOK /\ WorkerTypeOK /\ ApiTypeOK
    BY DEF Typed, TypeOK
  <2>1. Moved /\ stream' = stream /\ skipped' \subseteq WebhookEvents
    BY <1>h, <2>c, <2>s DEF ProcessorNext, ProcessorStep, ProcessorFault, ReadBatch, MarkKey,
       SkipDuplicate, MarkFails, SetTtl, SetTtlFails, LogTransaction, LogRefused, LogFails,
       ConfirmPayment, ConfirmFails, PublishConfirmed, PublishFails, storeVars, WorkerTypeOK
  <2>2. InBatch' /\ WorkerTypeOK'
    BY <1>h, <2>s, <2>1, PositionTyped DEF WorkerTypeOK, reconcilerVars
  <2>3. StoreTypeOK'
    <3>0. faults' \in Nat
      BY <1>h, <2>s DEF ProcessorNext, ProcessorStep, ProcessorFault, ReadBatch, MarkKey,
         SkipDuplicate, MarkFails, SetTtl, SetTtlFails, LogTransaction, LogRefused, LogFails,
         ConfirmPayment, ConfirmFails, PublishConfirmed, PublishFails, storeVars, StoreTypeOK,
         Fault
    <3>1. CASE MarkKey \/ SkipDuplicate \/ MarkFails \/ SetTtl \/ SetTtlFails
      <4>1. UNCHANGED <<dbVars, channelVars>>
        BY <3>1 DEF MarkKey, SkipDuplicate, MarkFails, SetTtl, SetTtlFails, storeVars
      <4>2. UNCHANGED idempVars \/ set_nx(Key(Current)) \/ expire(Key(Current))
        BY <3>1 DEF MarkKey, SkipDuplicate, MarkFails, SetTtl, SetTtlFails, storeVars
      <4>3. idemp' \in [Keys -> {"absent", "set", "expiring"}] /\ expiries' = expiries
        BY <4>2, <2>c, <2>s, IdempTyped DEF idempVars, StoreTypeOK
      <4>4. QED BY <2>1, <2>s, <3>0, <4>1, <4>3 DEF StoreTypeOK, dbVars, channelVars
    <3>2. CASE LogTransaction \/ LogRefused \/ LogFails
      BY <3>0, <3>2, <2>c, <2>s DEF LogTransaction, LogRefused, LogFails, log_transaction,
         StoreTypeOK, storeVars, dbVars, idempVars, channelVars
    <3>3. CASE ConfirmPayment \/ ConfirmFails
      <4>1. UNCHANGED <<stream, idempVars, channelVars>>
        BY <3>3 DEF ConfirmPayment, ConfirmFails
      <4>2. \/ UNCHANGED dbVars
            \/ mark_payment_success(Current.payment_id, Current.order_id)
        BY <3>3 DEF ConfirmPayment, ConfirmFails
      <4>3. QED
        BY <2>s, <3>0, <4>1, <4>2, MarkSuccessTyped DEF StoreTypeOK, dbVars, idempVars, channelVars
    <3>4. CASE PublishConfirmed \/ PublishFails
      <4>1. UNCHANGED <<dbVars, stream, idempVars>>
        BY <3>4 DEF PublishConfirmed, PublishFails
      <4>2. UNCHANGED channelVars \/ publish_payment_confirmed(Current)
        BY <3>4 DEF PublishConfirmed, PublishFails
      <4>3. published' \subseteq WebhookEvents /\ publications' \in [Keys -> Nat]
        <5>1. published \subseteq WebhookEvents /\ publications \in [Keys -> Nat]
          BY <2>s DEF StoreTypeOK
        <5>2. QED BY <2>c, <4>2, <5>1 DEF channelVars, publish_payment_confirmed
      <4>4. QED BY <2>s, <3>0, <4>1, <4>3 DEF StoreTypeOK, dbVars, idempVars
    <3>5. QED
      BY <1>h, <3>1, <3>2, <3>3, <3>4 DEF ProcessorNext, ProcessorStep, ProcessorFault, ReadBatch
  <2>4. QED BY <2>s, <2>2, <2>3 DEF Typed, TypeOK, ApiTypeOK
<1>q. QED
  BY <1>r, <1>h DEF ProcessorNext, ProcessorStep, ProcessorFault, MarkKey, SkipDuplicate,
     MarkFails, SetTtl, SetTtlFails, LogTransaction, LogRefused, LogFails, ConfirmPayment,
     ConfirmFails, PublishConfirmed, PublishFails

LEMMA ReconcilerTyped ==
    ASSUME Typed, ReconcilerNext, UNCHANGED <<processorVars, restarts, pushed>>
    PROVE  Typed'
<1> USE DEF Typed, InBatch, TypeOK, WorkerTypeOK, ApiTypeOK, processorVars, storeVars,
       idempVars, channelVars, dbVars, Fault, AbortRound
<1>1. CASE FetchPending
  BY <1>1 DEF FetchPending, pending_payments, StoreTypeOK
<1>2. ASSUME NEW p \in PaymentIds, ReconcileMark(p) \/ ReconcileMarkFails(p) PROVE Typed'
  <2>1. faults' \in Nat /\ WorkerTypeOK' /\ InBatch' /\ pushed' = pushed
        /\ UNCHANGED <<stream, idempVars, channelVars>>
    BY <1>2 DEF ReconcileMark, ReconcileMarkFails, StoreTypeOK
  <2>2. UNCHANGED dbVars \/ mark_payment_success(p, payment_order[p])
    BY <1>2 DEF ReconcileMark, ReconcileMarkFails
  <2>3. StoreTypeOK'
    BY <2>1, <2>2, MarkSuccessTyped DEF StoreTypeOK
  <2>4. QED BY <2>1, <2>3
<1>3. ASSUME NEW p \in PaymentIds, ReconcileSettle(p) \/ ReconcileSettleFails(p) PROVE Typed'
  BY <1>3 DEF ReconcileSettle, ReconcileSettleFails, insert_settlement, StoreTypeOK
<1>4. QED BY <1>1, <1>2, <1>3 DEF ReconcilerNext, ReconcilerStep, ReconcilerFault

LEMMA RestartTyped == ASSUME Typed, Restart, UNCHANGED pushed PROVE Typed'
BY DEF Restart, Typed, InBatch, TypeOK, StoreTypeOK, WorkerTypeOK, ApiTypeOK, storeVars,
   idempVars, channelVars, dbVars

LEMMA ExpiryTyped ==
    ASSUME Typed, NEW k \in Keys, KeyExpires(k), UNCHANGED <<workerVars, pushed>>
    PROVE  Typed'
BY DEF KeyExpires, Typed, InBatch, TypeOK, StoreTypeOK, WorkerTypeOK, ApiTypeOK, channelVars,
   dbVars, workerVars, processorVars, reconcilerVars

LEMMA StutterTyped == ASSUME Typed, UNCHANGED vars PROVE Typed'
BY DEF vars, Typed, InBatch, TypeOK, StoreTypeOK, WorkerTypeOK, ApiTypeOK, storeVars, dbVars,
   idempVars, channelVars, workerVars, processorVars, reconcilerVars

LEMMA TypedStep == Typed /\ [Next]_vars => Typed'
BY ApiTyped, ProcessorTyped, ReconcilerTyped, RestartTyped, ExpiryTyped, StutterTyped
   DEF Next, WorkerNext, workerVars, processorVars, reconcilerVars

LEMMA AlwaysTyped == Spec => []Typed
BY TypedInit, TypedStep, PTL DEF Spec

\* Every variable of the API, the worker, PostgreSQL and Redis keeps its type.
THEOREM TypeCorrect == Spec => []TypeOK
BY AlwaysTyped, PTL DEF Typed

-----------------------------------------------------------------------------
(* What no step undoes.                                                    *)

DbEffect ==
    \/ UNCHANGED dbVars
    \/ \E o \in OrderIds : FreshOrder(o) /\ create_order(o)
    \/ \E p \in PaymentIds, o \in OrderIds : FreshPayment(p) /\ create_payment(p, o)
    \/ \E p \in PaymentIds, o \in OrderIds \union {NoOrder} : mark_payment_success(p, o)
    \/ \E e \in WebhookEvents : log_transaction(e)
    \/ \E p \in PaymentIds : insert_settlement(p)

StreamEffect == stream' = stream \/ \E e \in WebhookEvents : stream' = Append(stream, e)

\* Every step changes the tables by at most one call of the repository, and the
\* stream by at most one XADD.
LEMMA StepEffects ==
    ASSUME Typed, [Next]_vars
    PROVE  DbEffect /\ StreamEffect /\ published \subseteq published'
<1> USE DEF DbEffect, StreamEffect
<1>1. CASE ApiNext
  <2>1. ASSUME NEW d \in Deliveries, ReceiveWebhook(Stamped(d)) \/ EnqueueFails(Stamped(d))
        PROVE  DbEffect /\ StreamEffect /\ published \subseteq published'
    BY <2>1, StampedType DEF ReceiveWebhook, EnqueueFails, enqueue, channelVars
  <2>2. QED BY <1>1, <2>1 DEF ApiNext, CreateOrder, InitiatePayment, channelVars
<1>2. CASE ProcessorNext
  <2>1. CASE wpc = "read"
    BY <1>2, <2>1 DEF ProcessorNext, ProcessorStep, ProcessorFault, ReadBatch, MarkKey,
       SkipDuplicate, MarkFails, SetTtl, SetTtlFails, LogTransaction, LogRefused, LogFails,
       ConfirmPayment, ConfirmFails, PublishConfirmed, PublishFails, storeVars, channelVars
  <2>2. CASE wpc # "read"
    <3>1. Current \in WebhookEvents /\ Current.payment_id \in PaymentIds
          /\ Current.order_id \in OrderIds
      BY <2>2, CurrentType DEF WebhookEvents
    <3>2. CASE ReadBatch \/ MarkKey \/ SkipDuplicate \/ MarkFails \/ SetTtl \/ SetTtlFails
               \/ LogRefused
      BY <3>2 DEF ReadBatch, MarkKey, SkipDuplicate, MarkFails, SetTtl, SetTtlFails, LogRefused,
         storeVars, channelVars
    <3>3. CASE LogTransaction \/ LogFails
      BY <3>1, <3>3 DEF LogTransaction, LogFails, channelVars
    <3>4. CASE ConfirmPayment \/ ConfirmFails
      BY <3>1, <3>4 DEF ConfirmPayment, ConfirmFails, channelVars
    <3>5. CASE PublishConfirmed \/ PublishFails
      BY <3>5 DEF PublishConfirmed, PublishFails, publish_payment_confirmed, channelVars
    <3>6. QED
      BY <1>2, <3>2, <3>3, <3>4, <3>5 DEF ProcessorNext, ProcessorStep, ProcessorFault
  <2>3. QED BY <2>1, <2>2
<1>3. CASE ReconcilerNext
  <2>1. \A p \in PaymentIds : payment_order[p] \in OrderIds \union {NoOrder}
    BY DEF Typed, TypeOK, StoreTypeOK
  <2>2. QED
    BY <1>3, <2>1 DEF ReconcilerNext, ReconcilerStep, ReconcilerFault, FetchPending,
       ReconcileMark, ReconcileMarkFails, ReconcileSettle, ReconcileSettleFails, storeVars,
       channelVars
<1>4. CASE Restart \/ (\E k \in Keys : KeyExpires(k)) \/ UNCHANGED vars
  BY <1>4 DEF Restart, KeyExpires, vars, storeVars, channelVars
<1>5. QED BY <1>1, <1>2, <1>3, <1>4 DEF Next, WorkerNext

\* A payment or an order that no delivery has named may still be created; one a
\* delivery has named is not, because its id would not have been fresh.
Grows ==
    /\ Len(stream) <= Len(stream')
    /\ \A i \in 1..Len(stream) :
        /\ stream'[i] = stream[i]
        /\ payment_status[stream[i].payment_id] # "PENDING" =>
              payment_status'[stream[i].payment_id] # "PENDING"
        /\ PaymentExists(stream[i].payment_id)' => PaymentExists(stream[i].payment_id)
        /\ order_status[stream[i].order_id] # "PENDING" =>
              order_status'[stream[i].order_id] # "PENDING"
    /\ transactions \subseteq transactions'
    /\ published \subseteq published'
    /\ settlements \subseteq settlements'
    /\ \A p \in PaymentIds :
        /\ payment_status[p] = "SUCCESS" => payment_status'[p] = "SUCCESS"
        /\ PaymentExists(p) => payment_status'[p] # "none"
        /\ PaymentExists(p) => payment_order'[p] = payment_order[p]
        /\ PaymentExists(p) => created_at'[p] = created_at[p]

LEMMA EntryType ==
    ASSUME Typed, NEW i \in 1..Len(stream)
    PROVE  /\ stream[i] \in WebhookEvents /\ i \in DOMAIN stream
           /\ stream[i].payment_id \in PaymentIds /\ stream[i].order_id \in OrderIds
<1>1. stream \in Seq(WebhookEvents) BY DEF Typed, TypeOK, StoreTypeOK
<1>2. stream[i] \in WebhookEvents /\ i \in DOMAIN stream BY <1>1
<1>3. QED BY <1>2 DEF WebhookEvents

LEMMA StepGrows == ASSUME Typed, [Next]_vars PROVE Grows
<1>t. StoreTypeOK BY DEF Typed, TypeOK
<1>e. DbEffect /\ StreamEffect /\ published \subseteq published'
  BY StepEffects
<1>s. Len(stream) <= Len(stream') /\ \A i \in 1..Len(stream) : stream'[i] = stream[i]
  BY <1>t, <1>e, AppendFacts DEF StreamEffect, StoreTypeOK
<1>i. \A i \in 1..Len(stream) :
        i \in DOMAIN stream /\ stream[i].payment_id \in PaymentIds /\ stream[i].order_id \in OrderIds
  BY EntryType
<1> USE DEF Grows, PaymentExists, OrderExists
<1>1. CASE UNCHANGED dbVars
  BY <1>1, <1>e, <1>s DEF dbVars
<1>2. ASSUME NEW o \in OrderIds, FreshOrder(o), create_order(o) PROVE Grows
  BY <1>2, <1>t, <1>e, <1>s, <1>i DEF FreshOrder, create_order, StoreTypeOK
<1>3. ASSUME NEW p \in PaymentIds, NEW o \in OrderIds, FreshPayment(p), create_payment(p, o)
      PROVE  Grows
  BY <1>3, <1>t, <1>e, <1>s, <1>i DEF FreshPayment, create_payment, StoreTypeOK
<1>4. ASSUME NEW p \in PaymentIds, NEW o \in OrderIds \union {NoOrder},
             mark_payment_success(p, o)
      PROVE  Grows
  BY <1>4, <1>t, <1>e, <1>s, <1>i DEF mark_payment_success, StoreTypeOK
<1>5. ASSUME NEW e \in WebhookEvents, log_transaction(e) PROVE Grows
  BY <1>5, <1>t, <1>e, <1>s DEF log_transaction
<1>6. ASSUME NEW p \in PaymentIds, insert_settlement(p) PROVE Grows
  BY <1>6, <1>t, <1>e, <1>s DEF insert_settlement
<1>7. QED BY <1>1, <1>2, <1>3, <1>4, <1>5, <1>6, <1>e DEF DbEffect

-----------------------------------------------------------------------------
(* Announcements.                                                          *)

\* No writer can make the payment or the order of e PENDING again.
Resolved(e) ==
    payment_status[e.payment_id] # "PENDING" /\ order_status[e.order_id] # "PENDING"

\* What handle_event has established when it is about to make a later call, and
\* with it every announcement: its event is an entry of the stream, so ids of it
\* that have no row will never get one.
AnnounceInv ==
    /\ wpc \in {"confirm", "publish"} => Current.status = "SUCCESS" /\ KeyTaken(Current)
    /\ wpc = "publish" => Resolved(Current)
    /\ \A e \in published :
        /\ \E i \in 1..Len(stream) : stream[i] = e
        /\ e.status = "SUCCESS" /\ Resolved(e) /\ KeyTaken(e)

LEMMA CurrentEntry ==
    ASSUME Typed, wpc # "read"
    PROVE  last_id + 1 \in 1..Len(stream) /\ Current = stream[last_id + 1]
BY DEF Typed, InBatch, TypeOK, StoreTypeOK, WorkerTypeOK, Current

\* An announcement that was right stays right.
LEMMA AnnouncedStays ==
    ASSUME Typed, Grows, NEW i \in 1..Len(stream)
    PROVE  /\ i \in 1..Len(stream') /\ stream'[i] = stream[i]
           /\ Resolved(stream[i]) => Resolved(stream[i])'
           /\ KeyTaken(stream[i]) => KeyTaken(stream[i])'
<1>1. stream \in Seq(WebhookEvents) /\ Len(stream) \in Nat
  BY DEF Typed, TypeOK, StoreTypeOK
<1>2. QED BY <1>1 DEF Grows, Resolved, KeyTaken

LEMMA PositionStays ==
    ASSUME Typed, Grows, wpc # "read", last_id' = last_id
    PROVE  /\ Current' = Current
           /\ Resolved(Current) => Resolved(Current)'
           /\ KeyTaken(Current) => KeyTaken(Current)'
<1>1. last_id + 1 \in 1..Len(stream) /\ Current = stream[last_id + 1]
  BY CurrentEntry
<1>2. stream'[last_id + 1] = stream[last_id + 1]
  BY <1>1, AnnouncedStays
<1>3. Current' = Current BY <1>1, <1>2 DEF Current
<1>4. QED BY <1>1, <1>3, AnnouncedStays

\* Steps of anybody but the processor.
Others ==
    \/ ApiNext /\ UNCHANGED workerVars
    \/ ReconcilerNext /\ UNCHANGED <<processorVars, restarts, pushed>>
    \/ \E k \in Keys : KeyExpires(k) /\ UNCHANGED <<workerVars, pushed>>
    \/ UNCHANGED vars

LEMMA OthersLeaveProcessor ==
    ASSUME Others
    PROVE  UNCHANGED <<wpc, last_id, batch, published, publications, skipped>>
BY DEF Others, ApiNext, CreateOrder, InitiatePayment, ReceiveWebhook, EnqueueFails,
   ReconcilerNext, ReconcilerStep, ReconcilerFault, FetchPending, ReconcileMark,
   ReconcileMarkFails, ReconcileSettle, ReconcileSettleFails, KeyExpires, storeVars,
   channelVars, vars, workerVars, processorVars

LEMMA NextCases ==
    ASSUME [Next]_vars
    PROVE  \/ ProcessorNext /\ UNCHANGED <<reconcilerVars, restarts, pushed>>
           \/ Restart /\ UNCHANGED pushed
           \/ Others
BY DEF Next, WorkerNext, Others

LEMMA AnnounceStep ==
    ASSUME Typed, AnnounceInv, [Next]_vars
    PROVE  AnnounceInv'
<1>t. Typed' BY TypedStep
<1>g. Grows BY StepGrows
<1> DEFINE Right(e) ==
        /\ \E i \in 1..Len(stream) : stream[i] = e
        /\ e.status = "SUCCESS" /\ Resolved(e) /\ KeyTaken(e)
<1>p. \A e \in published : Right(e)'
  <2>1. SUFFICES ASSUME NEW e \in published PROVE Right(e)'
    OBVIOUS
  <2>2. PICK i \in 1..Len(stream) : stream[i] = e
    BY DEF AnnounceInv
  <2>3. e.status = "SUCCESS" /\ Resolved(e) /\ KeyTaken(e)
    BY DEF AnnounceInv
  <2>4. i \in 1..Len(stream') /\ stream'[i] = e /\ Resolved(e)' /\ KeyTaken(e)'
    BY <1>g, <2>2, <2>3, AnnouncedStays
  <2>5. QED BY <2>3, <2>4
<1>1. CASE Others
  <2>1. wpc' = wpc /\ last_id' = last_id /\ published' = published
    BY <1>1, OthersLeaveProcessor
  <2>2. wpc # "read" => Current' = Current /\ (Resolved(Current) => Resolved(Current)')
                        /\ (KeyTaken(Current) => KeyTaken(Current)')
    BY <1>g, <2>1, PositionStays
  <2>3. QED BY <1>p, <2>1, <2>2 DEF AnnounceInv
<1>2. ASSUME wpc' \notin {"confirm", "publish"}, published' = published PROVE AnnounceInv'
  BY <1>2, <1>p DEF AnnounceInv
<1>3. CASE LogTransaction /\ Current.status = "SUCCESS"
  <2>1. wpc' = "confirm" /\ published' = published /\ Current' = Current
    BY <1>3 DEF LogTransaction, GoTo, channelVars, Current
  <2>2. KeyTaken(Current)'
    BY <1>3, <2>1 DEF LogTransaction, log_transaction, KeyTaken
  <2>3. QED BY <1>p, <1>3, <2>1, <2>2 DEF AnnounceInv
<1>4. CASE ConfirmPayment
  <2>1. wpc = "confirm" /\ wpc' = "publish" /\ published' = published /\ last_id' = last_id
    BY <1>4 DEF ConfirmPayment, GoTo, channelVars
  <2>2. Current' = Current /\ KeyTaken(Current)'
    BY <1>g, <2>1, PositionStays DEF AnnounceInv
  <2>3. Current.payment_id \in PaymentIds /\ Current.order_id \in OrderIds
    BY <2>1, CurrentType DEF WebhookEvents
  <2>4. Resolved(Current)'
    BY <1>4, <2>2, <2>3 DEF ConfirmPayment, mark_payment_success, Resolved, PaymentExists,
       OrderExists, Typed, TypeOK, StoreTypeOK
  <2>5. QED BY <1>p, <2>1, <2>2, <2>4 DEF AnnounceInv
<1>5. CASE PublishConfirmed \/ PublishFails
  <2>1. wpc = "publish" /\ wpc' \in {"mark", "read"} /\ published' \subseteq published \union {Current}
    BY <1>5 DEF PublishConfirmed, PublishFails, FinishEvent, publish_payment_confirmed,
       channelVars
  <2>2. last_id + 1 \in 1..Len(stream) /\ Current = stream[last_id + 1]
    BY <2>1, CurrentEntry
  <2>3. Current.status = "SUCCESS" /\ Resolved(Current) /\ KeyTaken(Current)
    BY <2>1 DEF AnnounceInv
  <2>4. UNCHANGED <<stream, dbVars>>
    BY <1>5 DEF PublishConfirmed, PublishFails
  <2>5. \A e : e = Current => Right(e)'
    BY <2>2, <2>3, <2>4 DEF Resolved, KeyTaken, dbVars
  <2>6. \A e \in published' : Right(e)'
    BY <1>p, <2>1, <2>5
  <2>7. QED BY <2>1, <2>6 DEF AnnounceInv
<1>6. CASE Restart
  BY <1>2, <1>6 DEF Restart, storeVars, channelVars
<1>7. CASE ProcessorNext
  <2>1. \/ wpc' \notin {"confirm", "publish"} /\ published' = published
        \/ LogTransaction /\ Current.status = "SUCCESS"
        \/ ConfirmPayment \/ PublishConfirmed \/ PublishFails
    BY <1>7 DEF ProcessorNext, ProcessorStep, ProcessorFault, ReadBatch, MarkKey, SkipDuplicate,
       MarkFails, SetTtl, SetTtlFails, LogTransaction, LogRefused, LogFails, ConfirmPayment,
       ConfirmFails, FinishEvent, GoTo, storeVars, channelVars
  <2>2. QED BY <1>2, <1>3, <1>4, <1>5, <2>1
<1>8. QED BY <1>1, <1>6, <1>7, NextCases

LEMMA AnnounceInit == Init => AnnounceInv
BY DEF Init, WorkerInit, StoreInit, AnnounceInv

LEMMA AlwaysAnnounced == Spec => []AnnounceInv
<1>1. Typed /\ AnnounceInv /\ [Next]_vars => AnnounceInv' BY AnnounceStep
<1>2. QED BY <1>1, AnnounceInit, AlwaysTyped, PTL DEF Spec

\* handle_event publishes only what it committed, and no writer of the two tables
\* takes the commit back.
THEOREM ConfirmedPaid == Spec => []ConfirmedIsPaid
<1>1. AnnounceInv => ConfirmedIsPaid BY DEF AnnounceInv, ConfirmedIsPaid, Resolved
<1>2. QED BY <1>1, AlwaysAnnounced, PTL

\* Every announcement has its row in transactions.
THEOREM ConfirmedLogged == Spec => []ConfirmedIsLogged
<1>1. AnnounceInv => ConfirmedIsLogged BY DEF AnnounceInv, ConfirmedIsLogged
<1>2. QED BY <1>1, AlwaysAnnounced, PTL

-----------------------------------------------------------------------------
(* Settlements.                                                            *)

Rows == {p \in PaymentIds : PaymentExists(p)}

\* created_at orders the rows strictly, so reconcile_once is working on one
\* payment at a time, the one it has just marked.
Ranked ==
    /\ \A p \in Rows : created_at[p] <= Cardinality(Rows)
    /\ \A p, q \in Rows : created_at[p] = created_at[q] => p = q

SettleInv ==
    /\ Ranked
    /\ rbatch \subseteq Rows
    /\ rpc = "settle" => \A p \in rbatch : InHand(p) => payment_status[p] = "SUCCESS"
    /\ SettledIsSuccess

LEMMA RankedStep ==
    ASSUME Typed, Ranked, [Next]_vars
    PROVE  Ranked'
<1>t. StoreTypeOK BY DEF Typed, TypeOK
<1>e. DbEffect BY StepEffects
<1>1. ASSUME NEW p \in PaymentIds, NEW o \in OrderIds, create_payment(p, o) PROVE Ranked'
  <2>1. IsFiniteSet(Rows) /\ Cardinality(Rows) \in Nat
    BY PaymentIdsFinite, FS_Subset, FS_CardinalityType DEF Rows
  <2>2. Rows' = Rows \union {p} /\ p \notin Rows
    BY <1>t, <1>1 DEF create_payment, Rows, PaymentExists, StoreTypeOK
  <2>3. Cardinality(Rows') = Cardinality(Rows) + 1
    BY <2>1, <2>2, FS_AddElement
  <2>4. created_at' = [created_at EXCEPT ![p] = Cardinality(Rows) + 1]
    BY <1>1 DEF create_payment, Rows
  <2>5. \A q \in Rows : created_at[q] \in Nat /\ created_at'[q] = created_at[q]
    BY <1>t, <2>2, <2>4 DEF StoreTypeOK, Rows
  <2>6. created_at'[p] = Cardinality(Rows) + 1
    BY <1>t, <2>4 DEF StoreTypeOK
  <2>7. QED BY <2>1, <2>2, <2>3, <2>5, <2>6 DEF Ranked
<1>2. ASSUME UNCHANGED created_at, Rows' = Rows PROVE Ranked'
  BY <1>2 DEF Ranked
<1>3. CASE UNCHANGED dbVars
  BY <1>2, <1>3 DEF dbVars, Rows, PaymentExists
<1>4. CASE \E o \in OrderIds : FreshOrder(o) /\ create_order(o)
  BY <1>2, <1>4 DEF create_order, Rows, PaymentExists
<1>5. CASE \E p \in PaymentIds, o \in OrderIds \union {NoOrder} : mark_payment_success(p, o)
  <2>1. PICK p \in PaymentIds, o \in OrderIds \union {NoOrder} : mark_payment_success(p, o)
    BY <1>5
  <2>2. UNCHANGED created_at /\ Rows' = Rows
    BY <1>t, <2>1 DEF mark_payment_success, Rows, PaymentExists, StoreTypeOK
  <2>3. QED BY <1>2, <2>2
<1>6. CASE \E e \in WebhookEvents : log_transaction(e)
  BY <1>2, <1>6 DEF log_transaction, Rows, PaymentExists
<1>7. CASE \E p \in PaymentIds : insert_settlement(p)
  BY <1>2, <1>7 DEF insert_settlement, Rows, PaymentExists
<1>8. QED BY <1>1, <1>3, <1>4, <1>5, <1>6, <1>7, <1>e DEF DbEffect

\* A step that neither touches the round nor writes a settlement.
LEMMA RoundStays ==
    ASSUME Typed, Grows, SettleInv, Ranked', UNCHANGED <<rbatch, rpc, settlements>>
    PROVE  SettleInv'
<1>1. rbatch' \subseteq Rows'
  BY DEF Grows, SettleInv, Rows, PaymentExists
<1>2. \A p \in rbatch : InHand(p)' => InHand(p)
  BY DEF InHand, Grows, SettleInv, Rows
<1>3. SettledIsSuccess'
  BY DEF Grows, SettleInv, SettledIsSuccess, Typed, TypeOK, StoreTypeOK
<1>4. QED BY <1>1, <1>2, <1>3 DEF SettleInv, Grows, Rows

LEMMA SettleStep ==
    ASSUME Typed, SettleInv, [Next]_vars
    PROVE  SettleInv'
<1>t. StoreTypeOK /\ WorkerTypeOK BY DEF Typed, TypeOK
<1>r. Ranked' BY RankedStep DEF SettleInv
<1>g. Grows BY StepGrows
<1>b. SettledIsSuccess /\ UNCHANGED settlements => SettledIsSuccess'
  BY <1>g, <1>t DEF Grows, SettledIsSuccess, StoreTypeOK
<1>1. CASE UNCHANGED <<rbatch, rpc, settlements>>
  BY <1>1, <1>r, <1>g, RoundStays
<1>2. CASE FetchPending
  <2>1. rbatch' \subseteq Rows' /\ rpc' = "mark" /\ UNCHANGED settlements
    BY <1>2 DEF FetchPending, pending_payments, Rows, PaymentExists, storeVars, dbVars
  <2>2. QED BY <1>r, <1>b, <2>1 DEF SettleInv
<1>3. ASSUME NEW p \in PaymentIds, ReconcileMark(p) PROVE SettleInv'
  <2>1. p \in rbatch /\ p \in Rows /\ payment_status'[p] = "SUCCESS"
    BY <1>3, <1>t DEF ReconcileMark, InHand, SettleInv, Rows, mark_payment_success,
       PaymentExists, StoreTypeOK
  <2>2. UNCHANGED <<rbatch, settlements, created_at>>
    BY <1>3 DEF ReconcileMark, mark_payment_success
  <2>3. \A q \in rbatch : InHand(q)' => q = p
    <3>1. SUFFICES ASSUME NEW q \in rbatch, InHand(q)' PROVE q = p
      OBVIOUS
    <3>2. created_at[q] <= created_at[p] /\ created_at[p] <= created_at[q]
      BY <1>3, <2>1, <2>2, <3>1 DEF InHand, ReconcileMark
    <3>3. created_at[q] \in Nat /\ created_at[p] \in Nat /\ q \in Rows
      BY <1>t DEF StoreTypeOK, WorkerTypeOK, SettleInv
    <3>4. QED BY <2>1, <3>2, <3>3 DEF SettleInv, Ranked
  <2>4. rbatch' \subseteq Rows'
    BY <1>g, <1>t, <2>2 DEF Grows, SettleInv, Rows, PaymentExists
  <2>5. QED BY <1>r, <1>b, <2>1, <2>2, <2>3, <2>4 DEF SettleInv
<1>4. ASSUME NEW p \in PaymentIds, ReconcileSettle(p) PROVE SettleInv'
  <2>1. payment_status[p] = "SUCCESS" /\ settlements' = settlements \union {p}
        /\ UNCHANGED payment_status /\ rbatch' \subseteq rbatch /\ rpc' # "settle"
    BY <1>4 DEF ReconcileSettle, InHand, SettleInv, insert_settlement
  <2>2. rbatch' \subseteq Rows'
    BY <2>1 DEF SettleInv, Rows, PaymentExists
  <2>3. QED BY <1>r, <2>1, <2>2 DEF SettleInv, SettledIsSuccess
<1>5. ASSUME NEW p \in PaymentIds, ReconcileMarkFails(p) PROVE SettleInv'
  <2>1. rbatch' = {} /\ rpc' = "read" /\ UNCHANGED settlements
    BY <1>5 DEF ReconcileMarkFails, AbortRound, mark_payment_success, dbVars
  <2>2. QED BY <1>r, <1>b, <2>1 DEF SettleInv
<1>6. ASSUME NEW p \in PaymentIds, ReconcileSettleFails(p) PROVE SettleInv'
  <2>1. rbatch' = {} /\ rpc' = "read"
    BY <1>6 DEF ReconcileSettleFails, AbortRound
  <2>2. payment_status[p] = "SUCCESS" /\ settlements' \subseteq settlements \union {p}
        /\ UNCHANGED payment_status
    BY <1>6 DEF ReconcileSettleFails, InHand, SettleInv, insert_settlement, dbVars
  <2>3. QED BY <1>r, <2>1, <2>2 DEF SettleInv, SettledIsSuccess
<1>7. CASE Restart
  <2>1. rbatch' = {} /\ rpc' = "read" /\ UNCHANGED settlements
    BY <1>7 DEF Restart, storeVars, dbVars
  <2>2. QED BY <1>r, <1>b, <2>1 DEF SettleInv
<1>8. ASSUME ProcessorNext, UNCHANGED reconcilerVars PROVE UNCHANGED <<rbatch, rpc, settlements>>
  BY <1>8 DEF ProcessorNext, ProcessorStep, ProcessorFault, ReadBatch, MarkKey, SkipDuplicate,
     MarkFails, SetTtl, SetTtlFails, LogTransaction, LogRefused, LogFails, ConfirmPayment,
     ConfirmFails, PublishConfirmed, PublishFails, log_transaction, mark_payment_success,
     storeVars, dbVars, reconcilerVars
<1>9. ASSUME Others, ~ ReconcilerNext PROVE UNCHANGED <<rbatch, rpc, settlements>>
  BY <1>9 DEF Others, ApiNext, CreateOrder, InitiatePayment, ReceiveWebhook, EnqueueFails,
     create_order, create_payment, KeyExpires, vars, storeVars, dbVars, workerVars,
     reconcilerVars
<1>10. CASE ReconcilerNext
  BY <1>10, <1>2, <1>3, <1>4, <1>5, <1>6 DEF ReconcilerNext, ReconcilerStep, ReconcilerFault
<1>11. QED BY <1>1, <1>7, <1>8, <1>9, <1>10, NextCases

LEMMA SettleInit == Init => SettleInv
BY DEF Init, StoreInit, WorkerInit, SettleInv, Ranked, Rows, PaymentExists, SettledIsSuccess

LEMMA AlwaysSettled == Spec => []SettleInv
<1>1. Typed /\ SettleInv /\ [Next]_vars => SettleInv' BY SettleStep
<1>2. QED BY <1>1, SettleInit, AlwaysTyped, PTL DEF Spec

\* A settlement is only written for a payment that is SUCCESS, also when the round
\* was read before another writer changed the payment.
THEOREM SettledPaid == Spec => []SettledIsSuccess
<1>1. SettleInv => SettledIsSuccess BY DEF SettleInv
<1>2. QED BY <1>1, AlwaysSettled, PTL
-----------------------------------------------------------------------------
(* Captures without a settlement.                                          *)

Lapses == faults + restarts

\* The round works on one payment at a time.
LEMMA HandUnique ==
    ASSUME Typed, SettleInv, NEW p, NEW q, InHand(p), InHand(q)
    PROVE  p = q
<1>1. p \in Rows /\ q \in Rows /\ created_at[p] <= created_at[q] /\ created_at[q] <= created_at[p]
  BY DEF InHand, SettleInv
<1>2. created_at[p] \in Nat /\ created_at[q] \in Nat
  BY <1>1 DEF Typed, TypeOK, StoreTypeOK, Rows
<1>3. QED BY <1>1, <1>2 DEF SettleInv, Ranked

LEMMA SumGrows ==
    ASSUME NEW a \in Nat, NEW b \in Nat, NEW c \in Nat, NEW d \in Nat,
           c = a \/ c = a + 1, d = b \/ d = b + 1
    PROVE  a + b \in Nat /\ c + d \in Nat /\ a + b <= c + d
OBVIOUS

LEMMA LapsesGrow ==
    ASSUME Typed, [Next]_vars
    PROVE  Lapses \in Nat /\ Lapses' \in Nat /\ Lapses <= Lapses'
<1>1. faults \in Nat /\ restarts \in Nat
  BY DEF Typed, TypeOK, StoreTypeOK, WorkerTypeOK
<1>2. faults' \in Nat /\ restarts' \in Nat
  BY TypedStep DEF Typed, TypeOK, StoreTypeOK, WorkerTypeOK
<1>3. faults' = faults \/ faults' = faults + 1
  BY DEF Next, ApiNext, CreateOrder, InitiatePayment, ReceiveWebhook, EnqueueFails, WorkerNext,
     ProcessorNext, ProcessorStep, ProcessorFault, ReadBatch, MarkKey, SkipDuplicate, MarkFails,
     SetTtl, SetTtlFails, LogTransaction, LogRefused, LogFails, ConfirmPayment, ConfirmFails,
     PublishConfirmed, PublishFails, ReconcilerNext, ReconcilerStep, ReconcilerFault,
     FetchPending, ReconcileMark, ReconcileMarkFails, ReconcileSettle, ReconcileSettleFails,
     Restart, KeyExpires, Fault, storeVars, vars
<1>4. restarts' = restarts \/ restarts' = restarts + 1
  BY DEF Next, WorkerNext, Restart, workerVars, vars
<1>5. Lapses = faults + restarts /\ Lapses' = faults' + restarts' BY DEF Lapses
<1>6. faults + restarts \in Nat /\ faults' + restarts' \in Nat
      /\ faults + restarts <= faults' + restarts'
  BY <1>1, <1>2, <1>3, <1>4, SumGrows
<1>7. QED BY <1>5, <1>6

\* Who marks a payment: the processor, on a SUCCESS of the stream, or the
\* reconciler, on the payment in its hand.
LEMMA MarkedBy ==
    ASSUME Typed, AnnounceInv, [Next]_vars, NEW p \in PaymentIds,
           payment_status[p] # "SUCCESS", payment_status'[p] = "SUCCESS"
    PROVE  \/ \E i \in 1..Len(stream) : stream[i].payment_id = p /\ stream[i].status = "SUCCESS"
           \/ /\ ReconcileMark(p) \/ ReconcileMarkFails(p)
              /\ UNCHANGED restarts
<1>t. payment_status \in [PaymentIds -> {"none", "PENDING", "SUCCESS"}]
  BY DEF Typed, TypeOK, StoreTypeOK
<1>m. ASSUME NEW q, NEW o, mark_payment_success(q, o) PROVE q = p
  BY <1>m, <1>t DEF mark_payment_success
<1>1. CASE ProcessorNext
  <2>1. (ConfirmPayment \/ ConfirmFails) /\ wpc = "confirm"
    BY <1>1 DEF ProcessorNext, ProcessorStep, ProcessorFault, ReadBatch, MarkKey, SkipDuplicate,
       MarkFails, SetTtl, SetTtlFails, LogTransaction, LogRefused, LogFails, ConfirmPayment,
       ConfirmFails, PublishConfirmed, PublishFails, log_transaction, storeVars, dbVars
  <2>2. Current.payment_id = p
    BY <1>m, <2>1 DEF ConfirmPayment, ConfirmFails, dbVars
  <2>3. Current.status = "SUCCESS" BY <2>1 DEF AnnounceInv
  <2>4. last_id + 1 \in 1..Len(stream) /\ Current = stream[last_id + 1]
    BY <2>1, CurrentEntry
  <2>5. QED BY <2>2, <2>3, <2>4
<1>2. CASE ReconcilerNext /\ UNCHANGED restarts
  <2>1. PICK q \in PaymentIds : ReconcileMark(q) \/ ReconcileMarkFails(q)
    BY <1>2 DEF ReconcilerNext, ReconcilerStep, ReconcilerFault, FetchPending,
       ReconcileSettle, ReconcileSettleFails, insert_settlement, storeVars, dbVars
  <2>2. mark_payment_success(q, payment_order[q])
    BY <2>1 DEF ReconcileMark, ReconcileMarkFails, dbVars
  <2>3. q = p BY <1>m, <2>2
  <2>4. QED BY <1>2, <2>1, <2>3
<1>3. CASE Restart \/ UNCHANGED vars \/ \E k \in Keys : KeyExpires(k)
  BY <1>3 DEF Restart, KeyExpires, vars, storeVars, dbVars
<1>4. CASE ApiNext
  BY <1>t, <1>4 DEF ApiNext, CreateOrder, InitiatePayment, ReceiveWebhook, EnqueueFails,
     create_order, create_payment, dbVars
<1>5. QED BY <1>1, <1>2, <1>3, <1>4 DEF Next, WorkerNext

\* The payment in hand leaves it unsettled only by a failed call or a crash.
LEMMA HandLeft ==
    ASSUME Typed, SettleInv, [Next]_vars, NEW p \in PaymentIds,
           rpc = "settle", InHand(p), p \notin settlements', ~ (rpc' = "settle" /\ InHand(p)')
    PROVE  Lapses' = Lapses + 1
<1>t. faults \in Nat /\ restarts \in Nat /\ rbatch \subseteq PaymentIds
  BY DEF Typed, TypeOK, StoreTypeOK, WorkerTypeOK
<1>1. CASE UNCHANGED reconcilerVars
  <2>1. UNCHANGED <<rpc, rbatch>> BY <1>1 DEF reconcilerVars
  <2>2. \A q \in rbatch : created_at'[q] = created_at[q]
    BY StepGrows DEF Grows, SettleInv, Rows
  <2>3. InHand(p)' BY <2>1, <2>2 DEF InHand
  <2>4. QED BY <2>1, <2>3
<1>2. CASE ReconcilerNext /\ UNCHANGED restarts
  <2>1. PICK q \in PaymentIds : ReconcileSettle(q) \/ ReconcileSettleFails(q)
    BY <1>2 DEF ReconcilerNext, ReconcilerStep, ReconcilerFault, FetchPending, ReconcileMark,
       ReconcileMarkFails
  <2>2. q = p
    BY <2>1, HandUnique DEF ReconcileSettle, ReconcileSettleFails
  <2>3. ~ ReconcileSettle(q)
    BY <2>2 DEF ReconcileSettle, insert_settlement
  <2>4. QED BY <1>t, <1>2, <2>1, <2>3 DEF ReconcileSettleFails, Fault, Lapses
<1>3. CASE Restart
  BY <1>t, <1>3 DEF Restart, storeVars, Lapses
<1>4. QED
  BY <1>1, <1>2, <1>3 DEF Next, WorkerNext, workerVars, reconcilerVars, vars

LEMMA NewlyUnsettled ==
    ASSUME Typed, AnnounceInv, SettleInv, [Next]_vars, NEW p \in Unsettled', p \notin Unsettled
    PROVE  InHand(p) /\ Lapses' = Lapses + 1
<1>g. Grows BY StepGrows
<1>1. p \in PaymentIds /\ payment_status'[p] = "SUCCESS" /\ p \notin settlements'
      /\ ~ (rpc' = "settle" /\ InHand(p)')
  BY DEF Unsettled
<1>2. \A i \in 1..Len(stream) : stream[i].payment_id = p => stream[i].status # "SUCCESS"
  <2>1. \A i \in DOMAIN stream' : stream'[i].payment_id = p => stream'[i].status # "SUCCESS"
    BY DEF Unsettled
  <2>2. Typed' BY TypedStep
  <2>3. stream' \in Seq(WebhookEvents) BY <2>2 DEF Typed, TypeOK, StoreTypeOK
  <2>4. \A i \in 1..Len(stream) : i \in DOMAIN stream' /\ stream'[i] = stream[i]
    BY <1>g, <2>3, AnnouncedStays
  <2>5. QED BY <2>1, <2>4
<1>3. CASE payment_status[p] # "SUCCESS"
  <2>1. (ReconcileMark(p) \/ ReconcileMarkFails(p)) /\ UNCHANGED restarts
    BY <1>1, <1>2, <1>3, MarkedBy
  <2>2. ~ ReconcileMark(p)
    BY <1>1 DEF ReconcileMark, InHand, mark_payment_success
  <2>3. faults \in Nat /\ restarts \in Nat
    BY DEF Typed, TypeOK, StoreTypeOK, WorkerTypeOK
  <2>4. QED BY <2>1, <2>2, <2>3 DEF ReconcileMarkFails, Fault, Lapses
<1>4. CASE payment_status[p] = "SUCCESS"
  <2>1. p \notin settlements BY <1>1, <1>g DEF Grows
  <2>2. \A i \in DOMAIN stream : stream[i].payment_id = p => stream[i].status # "SUCCESS"
    <3>1. stream \in Seq(WebhookEvents) BY DEF Typed, TypeOK, StoreTypeOK
    <3>2. QED BY <1>2, <3>1
  <2>3. rpc = "settle" /\ InHand(p)
    BY <1>1, <1>4, <2>1, <2>2 DEF Unsettled
  <2>4. QED BY <1>1, <2>3, HandLeft
<1>5. QED BY <1>3, <1>4

LEMMA UnsettledStep ==
    ASSUME Typed, AnnounceInv, SettleInv, UnsettledAreFailures, [Next]_vars
    PROVE  UnsettledAreFailures'
<1>n. Lapses \in Nat /\ Lapses' \in Nat /\ Lapses <= Lapses' BY LapsesGrow
<1>f. IsFiniteSet(Unsettled) /\ Cardinality(Unsettled) \in Nat
  BY PaymentIdsFinite, FS_Subset, FS_CardinalityType DEF Unsettled
<1>c. Cardinality(Unsettled) <= Lapses BY DEF UnsettledAreFailures, Lapses
<1>1. CASE Unsettled' \subseteq Unsettled
  <2>1. Cardinality(Unsettled') <= Cardinality(Unsettled) /\ Cardinality(Unsettled') \in Nat
    BY <1>1, <1>f, FS_Subset, FS_CardinalityType
  <2>2. Cardinality(Unsettled') <= Lapses' BY <1>n, <1>f, <1>c, <2>1
  <2>3. QED BY <2>2 DEF UnsettledAreFailures, Lapses
<1>2. CASE ~ (Unsettled' \subseteq Unsettled)
  <2>1. PICK p \in Unsettled' : p \notin Unsettled BY <1>2
  <2>2. InHand(p) /\ Lapses' = Lapses + 1 BY <2>1, NewlyUnsettled
  <2>3. Unsettled' \subseteq Unsettled \union {p}
    BY <2>2, NewlyUnsettled, HandUnique
  <2>4. /\ IsFiniteSet(Unsettled \union {p})
        /\ Cardinality(Unsettled \union {p}) = Cardinality(Unsettled) + 1
    BY <1>f, <2>1, FS_AddElement
  <2>5. /\ Cardinality(Unsettled') <= Cardinality(Unsettled \union {p})
        /\ Cardinality(Unsettled') \in Nat
    BY <2>3, <2>4, FS_Subset, FS_CardinalityType
  <2>6. Cardinality(Unsettled') <= Lapses' BY <1>n, <1>f, <1>c, <2>2, <2>4, <2>5
  <2>7. QED BY <2>6 DEF UnsettledAreFailures, Lapses
<1>3. QED BY <1>1, <1>2

LEMMA UnsettledInit == Init => UnsettledAreFailures
<1>1. Init => Unsettled = {} BY DEF Init, StoreInit, Unsettled
<1>2. Cardinality({}) = 0 BY FS_EmptySet
<1>3. Init => faults = 0 /\ restarts = 0 BY DEF Init, StoreInit, WorkerInit
<1>4. QED BY <1>1, <1>2, <1>3 DEF UnsettledAreFailures

\* A capture without a webhook loses its settlement to a failed call or a crash only,
\* and each of them costs one settlement at most.
THEOREM SettlementLostPerFailure == Spec => []UnsettledAreFailures
<1>1. Typed /\ AnnounceInv /\ SettleInv /\ UnsettledAreFailures /\ [Next]_vars
        => UnsettledAreFailures'
  BY UnsettledStep
<1>2. QED
  BY <1>1, UnsettledInit, AlwaysTyped, AlwaysAnnounced, AlwaysSettled, PTL DEF Spec


-----------------------------------------------------------------------------
(* Announcements per lifetime of an idempotency key.                       *)

Handling == wpc \in {"expire", "log", "confirm", "publish"}
Inflight(k) == IF Handling /\ Key(Current) = k THEN 1 ELSE 0
Present(k) == IF idemp[k] = "absent" THEN 0 ELSE 1

\* The announcement that may still come of the event in hand is counted with those
\* made; each is paid for by a lifetime of the key, the present one included.
CountInv ==
    \A k \in Keys : publications[k] + Inflight(k) <= expiries[k] + Present(k)

LEMMA CountTypes ==
    ASSUME Typed
    PROVE  \A k \in Keys :
              /\ publications[k] \in Nat /\ expiries[k] \in Nat
              /\ Inflight(k) \in 0..1 /\ Present(k) \in 0..1
BY DEF Typed, TypeOK, StoreTypeOK, Inflight, Present

\* A step that publishes nothing, takes no key away and takes no event in hand.
LEMMA CountStays ==
    ASSUME Typed, Typed', CountInv, UNCHANGED <<publications, expiries>>,
           \A k \in Keys : idemp[k] # "absent" => idemp'[k] # "absent",
           Handling' => Handling /\ Current' = Current
    PROVE  CountInv'
<1>1. ASSUME NEW k \in Keys
      PROVE  publications'[k] + Inflight(k)' <= expiries'[k] + Present(k)'
  <2>1. Inflight(k)' <= Inflight(k) BY DEF Inflight, Handling
  <2>2. Present(k) <= Present(k)' BY DEF Present
  <2>3. publications[k] + Inflight(k) <= expiries[k] + Present(k) BY DEF CountInv
  <2>4. /\ publications[k] \in Nat /\ expiries[k] \in Nat
        /\ Inflight(k) \in 0..1 /\ Present(k) \in 0..1
    BY CountTypes
  <2>5. Inflight(k)' \in 0..1 /\ Present(k)' \in 0..1 BY DEF Inflight, Present
  <2>6. QED BY <2>1, <2>2, <2>3, <2>4, <2>5
<1>2. QED BY <1>1 DEF CountInv

LEMMA CountStep ==
    ASSUME Typed, CountInv, [Next]_vars
    PROVE  CountInv'
<1>t. Typed' BY TypedStep
<1>g. Grows BY StepGrows
<1>y. /\ publications \in [Keys -> Nat] /\ expiries \in [Keys -> Nat]
      /\ idemp \in [Keys -> {"absent", "set", "expiring"}]
  BY DEF Typed, TypeOK, StoreTypeOK
<1>c. wpc # "read" => Current \in WebhookEvents /\ Key(Current) \in Keys
  BY CurrentType
<1>1. ASSUME NEW x \in Keys, KeyExpires(x), UNCHANGED <<workerVars, pushed>> PROVE CountInv'
  <2>1. ASSUME NEW k \in Keys
        PROVE  publications'[k] + Inflight(k)' <= expiries'[k] + Present(k)'
    <3>1. UNCHANGED <<publications, wpc, last_id, stream>>
      BY <1>1 DEF KeyExpires, channelVars, workerVars, processorVars
    <3>2. Inflight(k)' = Inflight(k)
      BY <3>1 DEF Inflight, Handling, Current
    <3>3. /\ k = x => expiries'[k] = expiries[k] + 1 /\ Present(k) = 1 /\ Present(k)' = 0
          /\ k # x => expiries'[k] = expiries[k] /\ Present(k)' = Present(k)
      BY <1>y, <1>1 DEF KeyExpires, Present
    <3>4. publications[k] + Inflight(k) <= expiries[k] + Present(k) BY DEF CountInv
    <3>5. QED BY <3>1, <3>2, <3>3, <3>4, CountTypes
  <2>2. QED BY <2>1 DEF CountInv
<1>2. CASE Others /\ ~ \E x \in Keys : KeyExpires(x) /\ UNCHANGED <<workerVars, pushed>>
  <2>1. UNCHANGED <<wpc, last_id, publications>> BY <1>2, OthersLeaveProcessor
  <2>2. wpc # "read" => Current' = Current BY <1>g, <2>1, PositionStays
  <2>3. UNCHANGED idempVars
    BY <1>2 DEF Others, ApiNext, CreateOrder, InitiatePayment, ReceiveWebhook, EnqueueFails,
       ReconcilerNext, ReconcilerStep, ReconcilerFault, FetchPending, ReconcileMark,
       ReconcileMarkFails, ReconcileSettle, ReconcileSettleFails, storeVars, vars
  <2>4. QED BY <1>t, <2>1, <2>2, <2>3, CountStays DEF idempVars, Handling
<1>3. CASE Restart
  <2>1. UNCHANGED <<publications, idempVars>> /\ ~ Handling'
    BY <1>3 DEF Restart, storeVars, channelVars, Handling
  <2>2. QED BY <1>t, <2>1, CountStays DEF idempVars
<1>4. CASE MarkKey
  <2>1. ASSUME NEW k \in Keys
        PROVE  publications'[k] + Inflight(k)' <= expiries'[k] + Present(k)'
    <3>1. UNCHANGED <<publications, expiries>> /\ Current' = Current /\ wpc' = "expire"
          /\ wpc = "mark"
      BY <1>4 DEF MarkKey, set_nx, GoTo, channelVars, Current
    <3>2. Inflight(k) = 0 /\ Inflight(k)' = IF k = Key(Current) THEN 1 ELSE 0
      BY <3>1 DEF Inflight, Handling, Key
    <3>3. k = Key(Current) => Present(k) = 0 /\ Present(k)' = 1
      BY <1>y, <1>4 DEF MarkKey, set_nx, Present
    <3>4. k # Key(Current) => Present(k)' = Present(k)
      BY <1>y, <1>4 DEF MarkKey, set_nx, Present
    <3>5. publications[k] + Inflight(k) <= expiries[k] + Present(k) BY DEF CountInv
    <3>6. QED BY <3>1, <3>2, <3>3, <3>4, <3>5, CountTypes
  <2>2. QED BY <2>1 DEF CountInv
<1>5. CASE ReadBatch \/ SkipDuplicate \/ MarkFails \/ SetTtlFails \/ LogRefused
             \/ LogFails \/ ConfirmFails
  <2>1. UNCHANGED <<publications, expiries>> /\ ~ Handling'
    BY <1>5 DEF ReadBatch, SkipDuplicate, MarkFails, SetTtlFails, LogRefused, LogFails,
       ConfirmFails, FinishEvent, storeVars, channelVars, idempVars, set_nx, expire, Handling
  <2>2. \A k \in Keys : idemp[k] # "absent" => idemp'[k] # "absent"
    <3>1. \/ UNCHANGED idempVars
          \/ wpc # "read" /\ (set_nx(Key(Current)) \/ expire(Key(Current)))
      BY <1>5 DEF ReadBatch, SkipDuplicate, MarkFails, SetTtlFails, LogRefused, LogFails,
         ConfirmFails, storeVars
    <3>2. QED BY <1>y, <1>c, <3>1 DEF idempVars, set_nx, expire
  <2>3. QED BY <1>t, <2>1, <2>2, CountStays
<1>6. CASE SetTtl \/ LogTransaction \/ ConfirmPayment
  <2>1. UNCHANGED <<publications, expiries>> /\ Handling
        /\ (Handling' => Current' = Current)
    BY <1>6 DEF SetTtl, LogTransaction, ConfirmPayment, FinishEvent, GoTo, channelVars,
       idempVars, expire, Handling, Current
  <2>2. \A k \in Keys : idemp[k] # "absent" => idemp'[k] # "absent"
    BY <1>6, <1>y DEF SetTtl, LogTransaction, ConfirmPayment, idempVars, expire
  <2>3. QED BY <1>t, <2>1, <2>2, CountStays
<1>7. CASE PublishConfirmed \/ PublishFails
  <2>1. wpc = "publish" /\ ~ Handling' /\ UNCHANGED idempVars
    BY <1>7 DEF PublishConfirmed, PublishFails, FinishEvent, Handling
  <2>2. ASSUME NEW k \in Keys
        PROVE  publications'[k] + Inflight(k)' <= expiries'[k] + Present(k)'
    <3>1. Inflight(k)' = 0 /\ Inflight(k) = IF k = Key(Current) THEN 1 ELSE 0
      BY <2>1 DEF Inflight, Handling, Key
    <3>2. publications'[k] <= publications[k] + Inflight(k) /\ publications'[k] \in Nat
      <4>1. UNCHANGED channelVars \/ publish_payment_confirmed(Current)
        BY <1>7 DEF PublishConfirmed, PublishFails
      <4>2. QED BY <1>y, <3>1, <4>1 DEF channelVars, publish_payment_confirmed
    <3>3. expiries'[k] = expiries[k] /\ Present(k)' = Present(k)
      BY <2>1 DEF idempVars, Present
    <3>4. publications[k] + Inflight(k) <= expiries[k] + Present(k) BY DEF CountInv
    <3>5. QED BY <3>1, <3>2, <3>3, <3>4, CountTypes
  <2>3. QED BY <2>2 DEF CountInv
<1>8. CASE ProcessorNext
  BY <1>4, <1>5, <1>6, <1>7, <1>8 DEF ProcessorNext, ProcessorStep, ProcessorFault
<1>9. QED BY <1>1, <1>2, <1>3, <1>8, NextCases

LEMMA CountInit == Init => CountInv
BY DEF Init, StoreInit, WorkerInit, CountInv, Inflight, Present, Handling

LEMMA AlwaysCounted == Spec => []CountInv
<1>1. Typed /\ CountInv /\ [Next]_vars => CountInv' BY CountStep
<1>2. QED BY <1>1, CountInit, AlwaysTyped, PTL DEF Spec

\* An event is announced at most once while its key lives, whatever is resent,
\* replayed after a crash, or retried after a call that failed.
THEOREM AnnouncedOncePerLifetime == Spec => []OneConfirmationPerLifetime
<1>1. Typed /\ CountInv => OneConfirmationPerLifetime
  BY CountTypes DEF CountInv, OneConfirmationPerLifetime
<1>2. QED BY <1>1, AlwaysTyped, AlwaysCounted, PTL

-----------------------------------------------------------------------------
(* Runs without failures and crashes.                                      *)

Clean == faults = 0 /\ restarts = 0
Settled(e) == Done(e) \/ Rejected(e)
Accounted(i) == \E j \in 1..i : Key(stream[j]) = Key(stream[i]) /\ Settled(stream[j])
Seen(k) == \E i \in 1..last_id : Key(stream[i]) = k
Confirms == wpc \in {"confirm", "publish"}

\* A key that is set, and a row of transactions, come from an entry the worker moved
\* past or from the one in hand; so does what makes a later delivery a duplicate.
LoggedExist == \A t \in transactions : PaymentExists(t.payment_id)
KeysSeen ==
    \A k \in Keys : idemp[k] # "absent" => Seen(k) \/ (Handling /\ Key(Current) = k)
LogSeen ==
    \A t \in transactions : Seen(Key(t)) \/ (Confirms /\ Key(Current) = Key(t))
InHandLogged ==
    /\ Confirms => Seen(Key(Current)) \/ Current \in transactions
    /\ wpc = "publish" /\ Current \in transactions =>
          payment_status[Current.payment_id] = "SUCCESS"
TtlPending == \A k \in Keys : idemp[k] = "set" => wpc = "expire" /\ Key(Current) = k

AllAccounted == \A i \in 1..last_id : Accounted(i)
CleanBody == AllAccounted /\ KeysSeen /\ LogSeen /\ InHandLogged /\ TtlPending
CleanInv == LoggedExist /\ (Clean => CleanBody)

LEMMA LoggedExistStep ==
    ASSUME Typed, LoggedExist, [Next]_vars
    PROVE  LoggedExist'
<1>g. Grows BY StepGrows
<1>1. \A t \in transactions : PaymentExists(t.payment_id)'
  BY <1>g DEF LoggedExist, Grows, PaymentExists, Typed, TypeOK, StoreTypeOK, WebhookEvents
<1>2. transactions' = transactions \/ \E e \in WebhookEvents : log_transaction(e)
  BY StepEffects DEF DbEffect, dbVars, create_order, create_payment, mark_payment_success,
     insert_settlement
<1>3. ASSUME NEW e \in WebhookEvents, log_transaction(e) PROVE LoggedExist'
  BY <1>1, <1>3 DEF log_transaction, LogAccepts, Refused, LoggedExist, PaymentExists
<1>4. QED BY <1>1, <1>2, <1>3 DEF LoggedExist

LEMMA SettledStays ==
    ASSUME Typed, Grows, NEW j \in 1..Len(stream), Settled(stream[j])
    PROVE  Settled(stream[j])' /\ stream'[j] = stream[j] /\ j \in 1..Len(stream')
<1>1. stream'[j] = stream[j] /\ j \in 1..Len(stream') /\ stream[j].payment_id \in PaymentIds
  BY AnnouncedStays, EntryType
<1>2. Done(stream[j]) => Done(stream[j])'
  BY <1>1 DEF Grows, Done
<1>3. Rejected(stream[j]) => Rejected(stream[j])'
  BY <1>1 DEF Grows, Rejected, Key
<1>4. QED BY <1>1, <1>2, <1>3 DEF Settled

\* What is accounted for stays so, and so is an entry whose key was seen before.
LEMMA AccountedStays ==
    ASSUME Typed, Grows, NEW i \in 1..Len(stream), Accounted(i)
    PROVE  Accounted(i)'
<1>1. PICK j \in 1..i : Key(stream[j]) = Key(stream[i]) /\ Settled(stream[j])
  BY DEF Accounted
<1>2. j \in 1..Len(stream)
  BY DEF Typed, TypeOK, StoreTypeOK
<1>3. Settled(stream[j])' /\ stream'[j] = stream[j] /\ stream'[i] = stream[i]
  BY <1>1, <1>2, SettledStays, AnnouncedStays
<1>4. QED BY <1>1, <1>3 DEF Accounted, Key

LEMMA SeenAccounted ==
    ASSUME Typed, NEW n \in 1..Len(stream), last_id < n, Seen(Key(stream[n])), AllAccounted
    PROVE  Accounted(n)
<1>1. PICK i \in 1..last_id : Key(stream[i]) = Key(stream[n])
  BY DEF Seen
<1>2. PICK j \in 1..i : Key(stream[j]) = Key(stream[i]) /\ Settled(stream[j])
  BY <1>1 DEF AllAccounted, Accounted
<1>3. j \in 1..n
  BY <1>1, <1>2 DEF Typed, TypeOK, WorkerTypeOK
<1>4. QED BY <1>1, <1>2, <1>3 DEF Accounted

LEMMA SeenStays ==
    ASSUME Typed, Grows, NEW k, Seen(k), last_id' \in Nat, last_id <= last_id'
    PROVE  Seen(k)'
<1>1. PICK i \in 1..last_id : Key(stream[i]) = k BY DEF Seen
<1>2. i \in 1..Len(stream) /\ i \in 1..last_id'
  BY <1>1 DEF Typed, InBatch, TypeOK, StoreTypeOK, WorkerTypeOK
<1>3. stream'[i] = stream[i] BY <1>2, AnnouncedStays
<1>4. QED BY <1>1, <1>2, <1>3 DEF Seen, Key

LEMMA CurrentSeen ==
    ASSUME Typed, Grows, wpc # "read", last_id' = last_id + 1, NEW k, k = Key(Current)
    PROVE  Seen(k)'
<1>1. last_id + 1 \in 1..Len(stream) /\ Current = stream[last_id + 1] BY CurrentEntry
<1>2. stream'[last_id + 1] = stream[last_id + 1] BY <1>1, AnnouncedStays
<1>3. last_id + 1 \in 1..last_id' BY DEF Typed, TypeOK, WorkerTypeOK
<1>4. QED BY <1>1, <1>2, <1>3 DEF Seen, Key

LEMMA CleanBefore ==
    ASSUME Typed, [Next]_vars, Clean'
    PROVE  /\ Clean
           /\ Others \/ (ProcessorStep /\ UNCHANGED <<reconcilerVars, restarts, pushed>>)
<1>1. faults \in Nat /\ restarts \in Nat
  BY DEF Typed, TypeOK, StoreTypeOK, WorkerTypeOK
<1>2. CASE Restart
  BY <1>1, <1>2 DEF Restart, Clean
<1>3. CASE Others
  BY <1>1, <1>3 DEF Others, ApiNext, CreateOrder, InitiatePayment, ReceiveWebhook, EnqueueFails,
     ReconcilerNext, ReconcilerStep, ReconcilerFault, FetchPending, ReconcileMark,
     ReconcileMarkFails, ReconcileSettle, ReconcileSettleFails, KeyExpires, storeVars, vars,
     workerVars, Fault, Clean
<1>4. CASE ProcessorNext /\ UNCHANGED <<reconcilerVars, restarts, pushed>>
  <2>1. ~ ProcessorFault
    BY <1>1, <1>4 DEF ProcessorFault, MarkFails, SetTtlFails, LogFails, ConfirmFails,
       PublishFails, Fault, Clean
  <2>2. faults' = faults
    BY <1>4, <2>1 DEF ProcessorNext, ProcessorStep, ReadBatch, MarkKey, SkipDuplicate, SetTtl,
       LogTransaction, LogRefused, ConfirmPayment, PublishConfirmed, storeVars
  <2>3. QED BY <1>4, <2>1, <2>2 DEF ProcessorNext, Clean
<1>5. QED BY <1>2, <1>3, <1>4, NextCases

\* A step that leaves the position and the log alone and adds no key.
LEMMA CleanQuiet ==
    ASSUME Typed, Typed', Grows, CleanBody, UNCHANGED <<last_id, transactions>>,
           wpc' = wpc \/ (wpc = "read" /\ wpc' = "mark"),
           \A k \in Keys : idemp'[k] = "absent" \/ idemp'[k] = idemp[k]
    PROVE  CleanBody'
<1>1. wpc # "read" => Current' = Current BY PositionStays
<1>2. \A k : Seen(k) => Seen(k)'
  BY SeenStays DEF Typed, TypeOK, WorkerTypeOK
<1>3. (Handling' <=> Handling) /\ (Confirms' <=> Confirms) /\ (wpc' = "expire" <=> wpc = "expire")
  BY DEF Handling, Confirms
<1>4. (Handling \/ Confirms \/ wpc = "publish" \/ wpc = "expire") => Current' = Current
  BY <1>1 DEF Handling, Confirms
<1>5. AllAccounted'
  BY AccountedStays DEF CleanBody, AllAccounted, Typed, InBatch, TypeOK, StoreTypeOK, WorkerTypeOK
<1>6. KeysSeen'
  BY <1>2, <1>3, <1>4 DEF CleanBody, KeysSeen, Key
<1>7. LogSeen'
  BY <1>2, <1>3, <1>4 DEF CleanBody, LogSeen, Key
<1>8. InHandLogged'
  <2>1. wpc # "read" => Current.payment_id \in PaymentIds
    BY CurrentType DEF WebhookEvents
  <2>2. Confirms' => (Seen(Key(Current)) \/ Current \in transactions)'
    <3>1. SUFFICES ASSUME Confirms' PROVE (Seen(Key(Current)) \/ Current \in transactions)'
      OBVIOUS
    <3>2. Current' = Current /\ Confirms BY <1>3, <1>4, <3>1
    <3>3. Seen(Key(Current)) \/ Current \in transactions
      BY <3>2 DEF CleanBody, InHandLogged
    <3>4. QED BY <1>2, <3>2, <3>3 DEF Key
  <2>3. QED
    BY <1>3, <1>4, <2>1, <2>2 DEF CleanBody, InHandLogged, Grows
<1>9. TtlPending'
  BY <1>3, <1>4 DEF CleanBody, TtlPending, Key
<1>10. QED BY <1>5, <1>6, <1>7, <1>8, <1>9 DEF CleanBody

\* The end of handle_event, once the entry in hand is accounted for.
LEMMA CleanFinish ==
    ASSUME Typed, Typed', Grows, CleanBody, wpc \notin {"read", "expire"}, FinishEvent,
           UNCHANGED idemp, transactions' \subseteq transactions \union {Current},
           NEW n, n = last_id + 1, Accounted(n)'
    PROVE  CleanBody'
<1>1. last_id \in Nat /\ last_id' = last_id + 1 /\ ~ Handling' /\ ~ Confirms' /\ wpc' # "expire"
  BY DEF FinishEvent, Handling, Confirms, Typed, TypeOK, WorkerTypeOK
<1>2. \A k : Seen(k) \/ k = Key(Current) => Seen(k)'
  BY <1>1, SeenStays, CurrentSeen
<1>3. AllAccounted'
  <2>1. \A i \in 1..last_id : Accounted(i)'
    BY AccountedStays DEF CleanBody, AllAccounted, Typed, InBatch, TypeOK, StoreTypeOK, WorkerTypeOK
  <2>2. \A i \in 1..last_id' : i \in 1..last_id \/ i = n
    BY <1>1
  <2>3. QED BY <2>1, <2>2 DEF AllAccounted
<1>4. KeysSeen'
  BY <1>2 DEF CleanBody, KeysSeen
<1>5. LogSeen'
  <2>1. ASSUME NEW t \in transactions' PROVE Seen(Key(t))'
    BY <1>2, <2>1 DEF CleanBody, LogSeen
  <2>2. QED BY <2>1 DEF LogSeen
<1>6. InHandLogged' BY <1>1 DEF InHandLogged, Confirms
<1>7. TtlPending' BY DEF CleanBody, TtlPending
<1>8. QED BY <1>3, <1>4, <1>5, <1>6, <1>7 DEF CleanBody

LEMMA CleanStep ==
    ASSUME Typed, CleanInv, [Next]_vars
    PROVE  CleanInv'
<1>l. LoggedExist' BY LoggedExistStep DEF CleanInv
<1> SUFFICES ASSUME Clean' PROVE CleanBody'
  BY <1>l DEF CleanInv
<1>t. Typed' BY TypedStep
<1>g. Grows BY StepGrows
<1>b. CleanBody
  BY CleanBefore DEF CleanInv
<1>y. /\ idemp \in [Keys -> {"absent", "set", "expiring"}]
      /\ last_id \in Nat /\ stream \in Seq(WebhookEvents)
  BY DEF Typed, TypeOK, StoreTypeOK, WorkerTypeOK
<1>c. wpc # "read" => /\ Current \in WebhookEvents /\ Key(Current) \in Keys
                      /\ last_id + 1 \in 1..Len(stream) /\ Current = stream[last_id + 1]
  BY CurrentType, CurrentEntry
<1>n. PICK n \in Nat : n = last_id + 1 BY <1>y
<1>s. ASSUME wpc # "read", Seen(Key(Current)) PROVE Accounted(n)
  BY <1>b, <1>c, <1>n, <1>s, <1>y, SeenAccounted DEF CleanBody
<1>d. ASSUME wpc # "read", Settled(Current) PROVE Accounted(n)
  BY <1>c, <1>d, <1>n, <1>y DEF Accounted
<1>f. ASSUME wpc \notin {"read", "expire"}, FinishEvent, UNCHANGED idemp,
             transactions' \subseteq transactions \union {Current}, Accounted(n)'
      PROVE  CleanBody'
  BY <1>b, <1>f, <1>g, <1>n, <1>t, CleanFinish
<1>1. CASE Others
  <2>1. UNCHANGED <<wpc, last_id>> BY <1>1, OthersLeaveProcessor
  <2>2. UNCHANGED transactions
    BY <1>1 DEF Others, ApiNext, CreateOrder, InitiatePayment, ReceiveWebhook, EnqueueFails,
       create_order, create_payment, ReconcilerNext, ReconcilerStep, ReconcilerFault,
       FetchPending, ReconcileMark, ReconcileMarkFails, ReconcileSettle, ReconcileSettleFails,
       mark_payment_success, insert_settlement, KeyExpires, dbVars, storeVars, vars
  <2>3. UNCHANGED idemp \/ \E x \in Keys : KeyExpires(x)
    BY <1>1 DEF Others, ApiNext, CreateOrder, InitiatePayment, ReceiveWebhook, EnqueueFails,
       ReconcilerNext, ReconcilerStep, ReconcilerFault, FetchPending, ReconcileMark,
       ReconcileMarkFails, ReconcileSettle, ReconcileSettleFails, idempVars, storeVars, vars
  <2>4. \A k \in Keys : idemp'[k] = "absent" \/ idemp'[k] = idemp[k]
    BY <1>y, <2>3 DEF KeyExpires
  <2>5. QED BY <1>b, <1>g, <1>t, <2>1, <2>2, <2>4, CleanQuiet
<1>2. CASE ReadBatch
  BY <1>2, <1>b, <1>g, <1>t, CleanQuiet DEF ReadBatch, storeVars, dbVars, idempVars
<1>3. CASE MarkKey
  <2>1. /\ wpc = "mark" /\ wpc' = "expire" /\ UNCHANGED <<last_id, stream, transactions>>
        /\ idemp' = [idemp EXCEPT ![Key(Current)] = "set"]
    BY <1>3, <1>c, <1>y DEF MarkKey, GoTo, set_nx, dbVars
  <2>2. Current' = Current BY <2>1 DEF Current
  <2>3. \A k : Seen(k)' = Seen(k) BY <2>1 DEF Seen
  <2>4. AllAccounted'
    BY <1>b, <1>g, <1>y, <2>1, AccountedStays DEF CleanBody, AllAccounted, Typed, InBatch,
       TypeOK, WorkerTypeOK
  <2>5. KeysSeen' /\ TtlPending'
    BY <1>b, <1>c, <1>y, <2>1, <2>2, <2>3 DEF CleanBody, KeysSeen, TtlPending, Handling
  <2>6. LogSeen' /\ InHandLogged'
    BY <1>b, <2>1, <2>3 DEF CleanBody, LogSeen, InHandLogged, Confirms
  <2>7. QED BY <2>4, <2>5, <2>6 DEF CleanBody
<1>4. CASE SkipDuplicate
  <2>1. wpc = "mark" /\ FinishEvent /\ UNCHANGED <<idemp, transactions>>
        /\ idemp[Key(Current)] # "absent"
    BY <1>4 DEF SkipDuplicate, storeVars, dbVars, idempVars
  <2>2. Seen(Key(Current))
    BY <1>b, <1>c, <2>1 DEF CleanBody, KeysSeen, Handling
  <2>3. UNCHANGED <<stream, transactions, payment_status, published>>
    BY <1>4 DEF SkipDuplicate, storeVars, dbVars, channelVars
  <2>4. \A m : Accounted(m) => Accounted(m)'
    BY <2>3 DEF Accounted, Settled, Done, Rejected, PaymentExists, Key
  <2>5. Accounted(n)' BY <1>s, <2>1, <2>2, <2>4
  <2>6. QED BY <1>f, <2>1, <2>5
<1>5. CASE SetTtl
  <2>1. /\ wpc = "expire" /\ wpc' = "log" /\ UNCHANGED <<last_id, stream, transactions>>
        /\ expire(Key(Current))
    BY <1>5 DEF SetTtl, GoTo, dbVars
  <2>2. Current' = Current BY <2>1 DEF Current
  <2>3. \A k : Seen(k)' = Seen(k) BY <2>1 DEF Seen
  <2>4. AllAccounted'
    BY <1>b, <1>g, <1>y, <2>1, AccountedStays DEF CleanBody, AllAccounted, Typed, InBatch,
       TypeOK, WorkerTypeOK
  <2>5. KeysSeen' /\ TtlPending'
    BY <1>b, <1>c, <1>y, <2>1, <2>2, <2>3 DEF CleanBody, KeysSeen, TtlPending, Handling, expire
  <2>6. LogSeen' /\ InHandLogged'
    BY <1>b, <2>1, <2>3 DEF CleanBody, LogSeen, InHandLogged, Confirms
  <2>7. QED BY <2>4, <2>5, <2>6 DEF CleanBody
<1>6. CASE LogTransaction
  <2>1. /\ wpc = "log" /\ UNCHANGED <<stream, idemp, payment_status, published>>
        /\ transactions' = IF KeyTaken(Current) THEN transactions ELSE transactions \union {Current}
    BY <1>6 DEF LogTransaction, log_transaction, idempVars, channelVars
  <2>2. KeyTaken(Current) => Seen(Key(Current))
    BY <1>b, <2>1 DEF CleanBody, LogSeen, KeyTaken, Confirms
  <2>3. CASE Current.status = "SUCCESS"
    <3>1. wpc' = "confirm" /\ UNCHANGED last_id
      BY <1>6, <2>3 DEF LogTransaction, GoTo
    <3>2. Current' = Current BY <2>1, <3>1 DEF Current
    <3>3. \A k : Seen(k)' = Seen(k) BY <2>1, <3>1 DEF Seen
    <3>4. AllAccounted'
      BY <1>b, <1>g, <1>y, <2>1, <3>1, AccountedStays DEF CleanBody, AllAccounted, Typed, InBatch,
         TypeOK, WorkerTypeOK
    <3>5. KeysSeen' /\ TtlPending'
      BY <1>b, <2>1, <3>1, <3>2, <3>3 DEF CleanBody, KeysSeen, TtlPending, Handling, Key
    <3>6. LogSeen'
      BY <1>b, <2>1, <3>1, <3>2, <3>3 DEF CleanBody, LogSeen, Confirms, Key
    <3>7. InHandLogged'
      BY <2>1, <2>2, <3>1, <3>2, <3>3 DEF InHandLogged, Confirms
    <3>8. QED BY <3>4, <3>5, <3>6, <3>7 DEF CleanBody
  <2>4. CASE Current.status # "SUCCESS"
    <3>1. FinishEvent /\ transactions' \subseteq transactions \union {Current}
      BY <1>6, <2>1, <2>4 DEF LogTransaction
    <3>2. Accounted(n)'
      <4>1. CASE KeyTaken(Current)
        <5>1. Accounted(n) BY <1>s, <2>1, <2>2, <4>1
        <5>2. QED BY <1>c, <1>g, <1>n, <2>1, <5>1, AccountedStays
      <4>2. CASE ~ KeyTaken(Current)
        <5>1. stream[n] = Current /\ Current \in transactions'
          BY <1>c, <1>n, <2>1, <4>2
        <5>2. Settled(stream[n])'
          BY <2>1, <2>4, <5>1 DEF Settled, Done
        <5>3. n \in 1..n BY <1>n, <1>y
        <5>4. QED BY <5>2, <5>3 DEF Accounted
      <4>3. QED BY <4>1, <4>2
    <3>3. QED BY <1>f, <2>1, <3>1, <3>2
  <2>5. QED BY <2>3, <2>4
<1>7. CASE LogRefused
  <2>1. wpc = "log" /\ FinishEvent /\ UNCHANGED <<idemp, transactions, stream, dbVars, published>>
    BY <1>7 DEF LogRefused, storeVars, dbVars, idempVars, channelVars
  <2>2. Accounted(n)
    BY <1>d, <1>7, <2>1 DEF LogRefused, LogAccepts, Refused, TxnTaken, KeyTaken, Rejected, Settled
  <2>3. Accounted(n)' BY <1>c, <1>g, <1>n, <2>1, <2>2, AccountedStays
  <2>4. QED BY <1>f, <2>1, <2>3
<1>8. CASE ConfirmPayment
  <2>1. /\ wpc = "confirm" /\ wpc' = "publish"
        /\ UNCHANGED <<last_id, stream, idemp, transactions, published>>
    BY <1>8 DEF ConfirmPayment, GoTo, mark_payment_success, idempVars, channelVars
  <2>2. Current' = Current BY <2>1 DEF Current
  <2>3. \A k : Seen(k)' = Seen(k) BY <2>1 DEF Seen
  <2>4. AllAccounted'
    BY <1>b, <1>g, <1>y, <2>1, AccountedStays DEF CleanBody, AllAccounted, Typed, InBatch,
       TypeOK, WorkerTypeOK
  <2>5. KeysSeen' /\ TtlPending'
    BY <1>b, <2>1, <2>2, <2>3 DEF CleanBody, KeysSeen, TtlPending, Handling, Key
  <2>6. LogSeen'
    BY <1>b, <2>1, <2>2, <2>3 DEF CleanBody, LogSeen, Confirms, Key
  <2>7. Current \in transactions => payment_status'[Current.payment_id] = "SUCCESS"
    <3>1. Current.payment_id \in PaymentIds BY <1>c, <2>1 DEF WebhookEvents
    <3>2. Current \in transactions => PaymentExists(Current.payment_id)
      BY DEF CleanInv, LoggedExist
    <3>3. payment_status \in [PaymentIds -> {"none", "PENDING", "SUCCESS"}]
      BY DEF Typed, TypeOK, StoreTypeOK
    <3>4. QED BY <1>8, <3>1, <3>2, <3>3 DEF ConfirmPayment, mark_payment_success
  <2>8. InHandLogged'
    BY <1>b, <2>1, <2>2, <2>3, <2>7 DEF CleanBody, InHandLogged, Confirms, Key
  <2>9. QED BY <2>4, <2>5, <2>6, <2>8 DEF CleanBody
<1>9. CASE PublishConfirmed
  <2>1. /\ wpc = "publish" /\ FinishEvent /\ UNCHANGED <<idemp, stream, transactions, payment_status>>
        /\ published' = published \union {Current}
    BY <1>9 DEF PublishConfirmed, publish_payment_confirmed, dbVars, idempVars
  <2>2. Accounted(n)'
    <3>1. CASE Seen(Key(Current))
      <4>1. Accounted(n) BY <1>s, <2>1, <3>1
      <4>2. QED BY <1>c, <1>g, <1>n, <2>1, <4>1, AccountedStays
    <3>2. CASE ~ Seen(Key(Current))
      <4>1. Current \in transactions /\ payment_status[Current.payment_id] = "SUCCESS"
        BY <1>b, <2>1, <3>2 DEF CleanBody, InHandLogged, Confirms
      <4>2. stream[n] = Current BY <1>c, <1>n, <2>1
      <4>3. Settled(stream[n])'
        BY <2>1, <4>1, <4>2 DEF Settled, Done
      <4>4. n \in 1..n BY <1>n, <1>y
      <4>5. QED BY <4>3, <4>4 DEF Accounted
    <3>3. QED BY <3>1, <3>2
  <2>3. QED BY <1>f, <2>1, <2>2
<1>10. QED
  BY <1>1, <1>2, <1>3, <1>4, <1>5, <1>6, <1>7, <1>8, <1>9, CleanBefore DEF ProcessorStep

LEMMA CleanInit == Init => CleanInv
BY DEF Init, StoreInit, WorkerInit, CleanInv, LoggedExist, CleanBody, AllAccounted, KeysSeen,
   LogSeen, InHandLogged, TtlPending, Confirms

LEMMA AlwaysClean == Spec => []CleanInv
<1>1. Typed /\ CleanInv /\ [Next]_vars => CleanInv' BY CleanStep
<1>2. QED BY <1>1, CleanInit, AlwaysTyped, PTL DEF Spec

\* As long as no call failed and the worker did not crash, every entry it moved past
\* was logged, and confirmed when it was a SUCCESS, or refused by the table, itself
\* or in an earlier delivery of its key; keys that expire do not change that.
THEOREM NothingLostWithoutFailure == Spec => []NothingLost
<1>1. CleanInv => NothingLost
  BY DEF CleanInv, CleanBody, AllAccounted, Accounted, Settled, Clean, NothingLost
<1>2. QED BY <1>1, AlwaysClean, PTL

\* A key without a TTL is always the trace of a failed call or a crash.
THEOREM KeysExpireWithoutFailure == Spec => []KeysGetTtl
<1>1. CleanInv => KeysGetTtl BY DEF CleanInv, CleanBody, TtlPending, Clean, KeysGetTtl
<1>2. QED BY <1>1, AlwaysClean, PTL

\* What the log calls a duplicate then is one: some delivery of its key was refused, or
\* logged and, being a SUCCESS, confirmed.  The message of main.rs:73 is wrong after a
\* failed call or a crash only (finding 1).
THEOREM SkippedAreAnswered == Spec => [](Clean => \A e \in skipped : Answered(e))
<1> DEFINE SkipInv == Clean => \A e \in skipped : Answered(e)
<1>1. Init => SkipInv BY DEF Init, WorkerInit
<1>2. Typed /\ CleanInv /\ SkipInv /\ [Next]_vars => SkipInv'
  <2>. SUFFICES ASSUME Typed, CleanInv, SkipInv, [Next]_vars, Clean' PROVE \A e \in skipped' : Answered(e)'
    OBVIOUS
  <2>c. Clean /\ (Others \/ ProcessorStep) BY CleanBefore
  <2>g. Grows BY StepGrows
  <2>d. Len(stream) \in Nat /\ DOMAIN stream = 1..Len(stream) /\ DOMAIN stream' = 1..Len(stream')
    BY TypedStep DEF Typed, TypeOK, StoreTypeOK
  <2>1. ASSUME NEW e, Answered(e) PROVE Answered(e)'
    <3>1. PICK i \in 1..Len(stream) : Key(stream[i]) = Key(e) /\ Settled(stream[i])
      BY <2>d, <2>1 DEF Answered, Settled
    <3>2. Settled(stream[i])' /\ stream'[i] = stream[i] /\ i \in 1..Len(stream')
      BY <2>g, <3>1, SettledStays
    <3>3. QED BY <2>d, <3>1, <3>2 DEF Answered, Settled
  <2>2. CASE skipped' = skipped
    BY <2>c, <2>1, <2>2
  <2>3. CASE SkipDuplicate
    <3>1. wpc = "mark" /\ idemp[Key(Current)] # "absent" /\ skipped' = skipped \union {Current}
      BY <2>3 DEF SkipDuplicate
    <3>2. Seen(Key(Current))
      BY <2>c, <3>1, CurrentType DEF CleanInv, CleanBody, KeysSeen, Handling
    <3>3. PICK n \in 1..last_id : Key(stream[n]) = Key(Current) BY <3>2 DEF Seen
    <3>4. PICK j \in 1..n : Key(stream[j]) = Key(stream[n]) /\ Settled(stream[j])
      BY <2>c DEF CleanInv, CleanBody, AllAccounted, Accounted
    <3>5. j \in 1..Len(stream)
      BY <2>d, <3>1 DEF Typed, InBatch, TypeOK, StoreTypeOK, WorkerTypeOK
    <3>6. Answered(Current) BY <2>d, <3>3, <3>4, <3>5 DEF Answered, Settled
    <3>7. QED BY <2>c, <2>1, <3>1, <3>6
  <2>4. QED
    BY <2>c, <2>2, <2>3, OthersLeaveProcessor DEF ProcessorStep, ReadBatch, MarkKey, SetTtl,
       LogTransaction, LogRefused, ConfirmPayment, PublishConfirmed
<1>3. QED BY <1>1, <1>2, AlwaysTyped, AlwaysClean, PTL DEF Spec

-----------------------------------------------------------------------------
(* What a failed call or a crash costs.                                    *)

\* A report that comes late takes back neither a capture nor an announcement.
THEOREM CaptureStays == Spec => CaptureIsFinal
<1>1. Typed /\ [Next]_vars =>
        [ /\ \A p \in PaymentIds : payment_status[p] = "SUCCESS" => payment_status'[p] = "SUCCESS"
          /\ \A o \in OrderIds : order_status[o] = "PAID" => order_status'[o] = "PAID"
          /\ \A e \in published : Done(e) => Done(e)' ]_vars
  <2>. SUFFICES ASSUME Typed, [Next]_vars
       PROVE  /\ \A p \in PaymentIds : payment_status[p] = "SUCCESS" => payment_status'[p] = "SUCCESS"
              /\ \A o \in OrderIds : order_status[o] = "PAID" => order_status'[o] = "PAID"
              /\ \A e \in published : Done(e) => Done(e)'
    OBVIOUS
  <2>1. Grows /\ DbEffect BY StepGrows, StepEffects
  <2>2. \A o \in OrderIds : order_status[o] = "PAID" => order_status'[o] = "PAID"
    BY <2>1 DEF DbEffect, dbVars, create_order, create_payment, mark_payment_success,
       log_transaction, insert_settlement, OrderExists, Typed, TypeOK, StoreTypeOK
  <2>3. \A e \in published : Done(e) => Done(e)'
    BY <2>1 DEF Grows, Done, Typed, TypeOK, StoreTypeOK, WebhookEvents
  <2>4. QED BY <2>1, <2>2, <2>3 DEF Grows
<1>2. QED BY <1>1, AlwaysTyped, PTL DEF Spec, CaptureIsFinal

\* Rows come from the stream.
LoggedInStream == \A t \in transactions : \E i \in 1..Len(stream) : stream[i] = t

LEMMA LoggedBy ==
    ASSUME [Next]_vars, NEW t \in transactions', t \notin transactions
    PROVE  (LogTransaction \/ LogFails) /\ wpc = "log" /\ t = Current
BY DEF Next, ApiNext, CreateOrder, create_order, InitiatePayment, create_payment, ReceiveWebhook,
   EnqueueFails, WorkerNext, ProcessorNext, ProcessorStep, ProcessorFault, ReadBatch, MarkKey,
   SkipDuplicate, MarkFails, SetTtl, SetTtlFails, LogTransaction, LogRefused, LogFails,
   log_transaction, ConfirmPayment, ConfirmFails, mark_payment_success, PublishConfirmed,
   PublishFails, ReconcilerNext, ReconcilerStep, ReconcilerFault, FetchPending, ReconcileMark,
   ReconcileMarkFails, ReconcileSettle, ReconcileSettleFails, insert_settlement, Restart,
   KeyExpires, storeVars, dbVars, vars

LEMMA AlwaysInStream == Spec => []LoggedInStream
<1>1. Init => LoggedInStream BY DEF Init, StoreInit, LoggedInStream
<1>2. Typed /\ LoggedInStream /\ [Next]_vars => LoggedInStream'
  <2>. SUFFICES ASSUME Typed, LoggedInStream, [Next]_vars, NEW t \in transactions'
                PROVE  \E i \in 1..Len(stream') : stream'[i] = t
    BY DEF LoggedInStream
  <2>1. \E i \in 1..Len(stream) : stream[i] = t
    <3>1. CASE t \in transactions BY <3>1 DEF LoggedInStream
    <3>2. CASE t \notin transactions
      <4>1. wpc = "log" /\ t = Current BY <3>2, LoggedBy
      <4>2. QED BY <4>1, CurrentEntry
    <3>3. QED BY <3>1, <3>2
  <2>2. QED BY <2>1, StepGrows, AnnouncedStays
<1>3. QED BY <1>1, <1>2, AlwaysTyped, PTL DEF Spec

SettledKey(k) == \E i \in 1..Len(stream) : Key(stream[i]) = k /\ Settled(stream[i])
Undone(t) == t \in transactions /\ ~ Done(t) /\ ~ Confirming(t)

LEMMA LostMeans ==
    ASSUME Typed, NEW k \in Keys
    PROVE  k \in Lost <=>
             \/ idemp[k] # "absent" /\ ~ InWork(k) /\ ~ SettledKey(k)
             \/ \E t \in transactions : Key(t) = k /\ Undone(t)
<1>1. DOMAIN stream = 1..Len(stream) BY DEF Typed, TypeOK, StoreTypeOK
<1>2. QED BY <1>1 DEF Lost, SettledKey, Settled, Undone

LEMMA DoneStays ==
    ASSUME Typed, Grows, NEW t \in transactions, Done(t)
    PROVE  Done(t)'
BY DEF Grows, Done, Typed, TypeOK, StoreTypeOK, WebhookEvents

LEMMA SettledKeyStays ==
    ASSUME Typed, Grows, NEW k, SettledKey(k)
    PROVE  SettledKey(k)'
<1>1. PICK i \in 1..Len(stream) : Key(stream[i]) = k /\ Settled(stream[i]) BY DEF SettledKey
<1>2. Settled(stream[i])' /\ stream'[i] = stream[i] /\ i \in 1..Len(stream')
  BY <1>1, SettledStays
<1>3. QED BY <1>1, <1>2 DEF SettledKey, Key

\* A key is lost after a step that ends its handling without a result, or sets it in
\* vain, or leaves a row behind; else it was lost before.
LEMMA LostBefore ==
    ASSUME Typed, Typed', Grows, NEW k \in Lost',
           \A t \in transactions' :
               Key(t) = k => t \in transactions \/ Done(t)' \/ Confirming(t)',
           idemp'[k] # "absent" => idemp[k] # "absent" \/ InWork(k)',
           InWork(k) => \/ InWork(k)' \/ SettledKey(k)'
                        \/ \E t \in transactions : Key(t) = k /\ Undone(t),
           \A t \in transactions : Key(t) = k /\ Confirming(t) => Confirming(t)' \/ Done(t)'
    PROVE  k \in Lost
<1>k. k \in Keys BY DEF Lost
<1>1. CASE (idemp[k] # "absent" /\ ~ InWork(k) /\ ~ SettledKey(k))'
  <2>1. ~ SettledKey(k) BY <1>1, SettledKeyStays
  <2>2. CASE InWork(k)
    BY <1>k, <1>1, <2>2, LostMeans
  <2>3. CASE ~ InWork(k)
    BY <1>k, <1>1, <2>1, <2>3, LostMeans
  <2>4. QED BY <2>2, <2>3
<1>2. CASE (\E t \in transactions : Key(t) = k /\ Undone(t))'
  <2>1. PICK t \in transactions' : Key(t) = k /\ ~ Done(t)' /\ ~ Confirming(t)'
    BY <1>2 DEF Undone, Key
  <2>2. t \in transactions /\ ~ Done(t) /\ ~ Confirming(t)
    BY <2>1, DoneStays
  <2>3. QED BY <1>k, <2>1, <2>2, LostMeans DEF Undone
<1>3. (k \in Lost <=>
         \/ idemp[k] # "absent" /\ ~ InWork(k) /\ ~ SettledKey(k)
         \/ \E t \in transactions : Key(t) = k /\ Undone(t))'
  <2>1. DOMAIN stream' = 1..Len(stream') BY DEF Typed, TypeOK, StoreTypeOK
  <2>2. QED BY <1>k, <2>1 DEF Lost, SettledKey, Settled, Undone
<1>4. QED BY <1>1, <1>2, <1>3

\* Whoever is not handling a webhook loses none.
LEMMA OthersLoseNone ==
    ASSUME Typed, Others, [Next]_vars
    PROVE  Lost' \subseteq Lost
<1>g. Typed' /\ Grows BY TypedStep, StepGrows
<1>1. UNCHANGED <<wpc, last_id>> BY OthersLeaveProcessor
<1>2. \A t \in transactions' : t \in transactions
  BY LoggedBy, OthersLeaveProcessor DEF LogTransaction, LogFails, GoTo, FinishEvent, Typed, TypeOK,
     WorkerTypeOK
<1>3. \A k \in Keys : idemp'[k] # "absent" => idemp[k] # "absent"
  BY DEF Others, ApiNext, CreateOrder, InitiatePayment, ReceiveWebhook, EnqueueFails,
     ReconcilerNext, ReconcilerStep, ReconcilerFault, FetchPending, ReconcileMark,
     ReconcileMarkFails, ReconcileSettle, ReconcileSettleFails, KeyExpires, storeVars, idempVars,
     vars, Typed, TypeOK, StoreTypeOK
<1>4. wpc # "read" => Current' = Current BY <1>g, <1>1, PositionStays
<1>5. \A k : InWork(k) => InWork(k)' BY <1>1, <1>4 DEF InWork, Key
<1>6. \A t : Confirming(t) => Confirming(t)' BY <1>1, <1>4 DEF Confirming
<1>7. ASSUME NEW k \in Lost' PROVE k \in Lost
  <2>1. k \in Keys BY DEF Lost
  <2>2. QED BY <1>g, <1>2, <1>3, <1>5, <1>6, <2>1, LostBefore
<1>8. QED BY <1>7

\* While handle_event runs, only the key it works on can be lost ...
LEMMA ProcessorLosesCurrent ==
    ASSUME Typed, ProcessorNext \/ Restart, [Next]_vars, NEW k \in Lost', k \notin Lost
    PROVE  wpc # "read" /\ k = Key(Current)
<1>g. Typed' /\ Grows BY TypedStep, StepGrows
<1>k. k \in Keys BY DEF Lost
<1>i. idemp \in [Keys -> {"absent", "set", "expiring"}] BY DEF Typed, TypeOK, StoreTypeOK
<1> SUFFICES ASSUME wpc = "read" \/ k # Key(Current) PROVE FALSE
  OBVIOUS
<1>1. \A t \in transactions' : Key(t) = k => t \in transactions
  BY LoggedBy
<1>2. idemp'[k] = idemp[k]
  <2>1. CASE wpc = "read"
    BY <2>1 DEF ProcessorNext, ProcessorStep, ProcessorFault, ReadBatch, MarkKey, SkipDuplicate,
       MarkFails, SetTtl, SetTtlFails, LogTransaction, LogRefused, LogFails, ConfirmPayment,
       ConfirmFails, PublishConfirmed, PublishFails, Restart, storeVars, idempVars
  <2>2. CASE k # Key(Current)
    BY <1>k, <1>i, <2>2 DEF ProcessorNext, ProcessorStep, ProcessorFault, ReadBatch, MarkKey,
       SkipDuplicate, MarkFails, SetTtl, SetTtlFails, LogTransaction, LogRefused, LogFails,
       ConfirmPayment, ConfirmFails, PublishConfirmed, PublishFails, Restart, set_nx, expire,
       storeVars, idempVars
  <2>3. QED BY <2>1, <2>2
<1>3. ~ InWork(k) BY DEF InWork
<1>4. \A t : Key(t) = k => ~ Confirming(t) BY DEF Confirming
<1>5. QED BY <1>g, <1>1, <1>2, <1>3, <1>4, LostBefore

\* The entry in hand stays where it is in the stream, so once it is settled its key is.
LEMMA CurrentSettles ==
    ASSUME Typed, Grows, wpc # "read", NEW e, e = Current, Settled(e)'
    PROVE  SettledKey(Key(e))'
<1>1. last_id + 1 \in 1..Len(stream) /\ stream[last_id + 1] = e BY CurrentEntry
<1>2. last_id + 1 \in 1..Len(stream') /\ stream'[last_id + 1] = e BY <1>1, AnnouncedStays
<1>3. QED BY <1>2 DEF SettledKey, Key

\* A row whose handling is over says what became of its key.
LEMMA RowSettles ==
    ASSUME Typed, Grows, LoggedInStream, NEW t \in transactions, ~ Confirming(t)
    PROVE  \/ SettledKey(Key(t))'
           \/ \E u \in transactions : Key(u) = Key(t) /\ Undone(u)
<1>1. CASE Done(t)
  <2>1. SettledKey(Key(t)) BY <1>1 DEF LoggedInStream, SettledKey, Settled
  <2>2. QED BY <2>1, SettledKeyStays
<1>2. CASE ~ Done(t) BY <1>2 DEF Undone
<1>3. QED BY <1>1, <1>2

\* ... and only by a failed call or a crash.
LEMMA StepLosesNone ==
    ASSUME Typed, AnnounceInv, LoggedExist, LoggedInStream, ProcessorStep, [Next]_vars
    PROVE  Lost' \subseteq Lost
<1>. SUFFICES ASSUME NEW k \in Lost', k \notin Lost PROVE FALSE
  OBVIOUS
<1>g. Typed' /\ Grows BY TypedStep, StepGrows
<1>c. wpc # "read" /\ k = Key(Current) BY ProcessorLosesCurrent DEF ProcessorNext
<1>. DEFINE e == Current
<1>e. last_id' = last_id => Current' = Current BY <1>g, <1>c, PositionStays
<1>q. ASSUME last_id' = last_id, InWork(k)',
             \A t \in transactions' : t \in transactions \/ Confirming(t)',
             \A t : Confirming(t) => Confirming(t)'
      PROVE  FALSE
  BY <1>g, <1>q, LostBefore
<1>f. ASSUME UNCHANGED idemp, \A t \in transactions' : t \in transactions \/ Done(t)',
             InWork(k) => SettledKey(k)' \/ \E t \in transactions : Key(t) = k /\ Undone(t),
             \A t \in transactions : Confirming(t) => Done(t)'
      PROVE  FALSE
  BY <1>g, <1>f, LostBefore
<1>1. ~ ReadBatch BY <1>c DEF ReadBatch
<1>2. CASE MarkKey \/ SetTtl
  <2>1. /\ wpc \in {"mark", "expire"} /\ wpc' \in {"expire", "log"} /\ last_id' = last_id
        /\ transactions' = transactions
    BY <1>2 DEF MarkKey, SetTtl, GoTo, dbVars
  <2>2. InWork(k)' BY <1>c, <1>e, <2>1 DEF InWork, Key
  <2>3. QED BY <1>q, <2>1, <2>2 DEF Confirming
<1>3. CASE SkipDuplicate
  BY <1>3, <1>f DEF SkipDuplicate, storeVars, dbVars, idempVars, InWork, Confirming
<1>4. CASE LogTransaction /\ Current.status = "SUCCESS"
  <2>1. wpc = "log" /\ wpc' = "confirm" /\ last_id' = last_id
    BY <1>4 DEF LogTransaction, GoTo
  <2>2. InWork(k)' /\ Confirming(Current)' BY <1>c, <1>e, <2>1 DEF InWork, Confirming, Key
  <2>3. QED BY <1>e, <1>q, <2>1, <2>2, LoggedBy DEF Confirming
<1>5. CASE LogTransaction /\ Current.status # "SUCCESS"
  <2>1. /\ wpc = "log" /\ UNCHANGED idemp
        /\ transactions' = IF KeyTaken(e) THEN transactions ELSE transactions \union {e}
    BY <1>5 DEF LogTransaction, log_transaction, idempVars
  <2>2. \A t : ~ Confirming(t) BY <2>1 DEF Confirming
  <2>3. CASE KeyTaken(e)
    <3>1. PICK t \in transactions : Key(t) = k BY <1>c, <2>3 DEF KeyTaken
    <3>2. SettledKey(k)' \/ \E u \in transactions : Key(u) = k /\ Undone(u)
      BY <1>g, <2>2, <3>1, RowSettles
    <3>3. QED BY <1>f, <2>1, <2>2, <2>3, <3>2
  <2>4. CASE ~ KeyTaken(e)
    <3>1. PICK d : d = e OBVIOUS
    <3>2. transactions' = transactions \union {d} /\ d.status # "SUCCESS" /\ k = Key(d)
      BY <1>5, <1>c, <2>1, <2>4, <3>1
    <3>3. Done(d)' BY <3>2 DEF Done
    <3>4. SettledKey(k)' BY <1>g, <1>c, <3>1, <3>2, <3>3, CurrentSettles DEF Settled
    <3>5. QED BY <1>f, <2>1, <2>2, <3>2, <3>3, <3>4
  <2>5. QED BY <2>3, <2>4
<1>6. CASE LogRefused
  <2>1. wpc = "log" /\ ~ LogAccepts(e) /\ UNCHANGED <<dbVars, idempVars>>
    BY <1>6 DEF LogRefused, storeVars
  <2>2. PICK d : d = e OBVIOUS
  <2>3. Rejected(d) BY <2>1, <2>2 DEF LogAccepts, KeyTaken, Refused, TxnTaken, Rejected
  <2>4. Rejected(d)' BY <2>1, <2>3 DEF Rejected, PaymentExists, dbVars
  <2>5. SettledKey(k)' BY <1>g, <1>c, <2>2, <2>4, CurrentSettles DEF Settled
  <2>6. QED BY <1>f, <2>1, <2>5 DEF dbVars, idempVars, Confirming
<1>7. CASE ConfirmPayment
  <2>1. /\ wpc = "confirm" /\ wpc' = "publish" /\ last_id' = last_id
        /\ transactions' = transactions
    BY <1>7 DEF ConfirmPayment, GoTo, mark_payment_success
  <2>2. InWork(k)' /\ \A t : Confirming(t) => Confirming(t)'
    BY <1>c, <1>e, <2>1 DEF InWork, Confirming, Key
  <2>3. QED BY <1>q, <2>1, <2>2
<1>8. CASE PublishConfirmed
  <2>1. PICK d : d = e OBVIOUS
  <2>2. /\ wpc = "publish" /\ published' = published \union {d}
        /\ UNCHANGED <<dbVars, idempVars>>
    BY <1>8, <2>1 DEF PublishConfirmed, publish_payment_confirmed
  <2>3. d \in transactions => Done(d)'
    <3>1. d.status = "SUCCESS" /\ payment_status[d.payment_id] # "PENDING"
      BY <2>1, <2>2 DEF AnnounceInv, Resolved
    <3>2. ASSUME d \in transactions PROVE payment_status[d.payment_id] = "SUCCESS"
      BY <3>1, <3>2 DEF LoggedExist, PaymentExists, Typed, TypeOK, StoreTypeOK, WebhookEvents
    <3>3. QED BY <2>2, <3>2 DEF Done, dbVars
  <2>4. SettledKey(k)' \/ \E u \in transactions : Key(u) = k /\ Undone(u)
    <3>1. CASE d \in transactions
      BY <1>g, <1>c, <2>1, <2>3, <3>1, CurrentSettles DEF Settled
    <3>2. CASE d \notin transactions
      <4>1. PICK t \in transactions : Key(t) = k
        BY <1>c, <2>2 DEF AnnounceInv, KeyTaken
      <4>2. ~ Confirming(t) BY <2>1, <3>2, <4>1 DEF Confirming
      <4>3. QED BY <1>g, <4>1, <4>2, RowSettles
    <3>3. QED BY <3>1, <3>2
  <2>5. \A t \in transactions : Confirming(t) => Done(t)' BY <2>1, <2>3 DEF Confirming
  <2>6. QED BY <1>f, <2>2, <2>4, <2>5 DEF dbVars, idempVars
<1>9. QED
  BY <1>1, <1>2, <1>3, <1>4, <1>5, <1>6, <1>7, <1>8 DEF ProcessorStep

\* A failed call or a crash costs the key in hand and no other.
LEMMA NewlyLost ==
    ASSUME Typed, AnnounceInv, LoggedExist, LoggedInStream, [Next]_vars,
           NEW k \in Lost', k \notin Lost
    PROVE  k = Key(Current) /\ Lapses' = Lapses + 1
<1>1. ~ Others BY OthersLoseNone
<1>2. ~ ProcessorStep BY StepLosesNone
<1>3. \/ ProcessorFault /\ UNCHANGED restarts
      \/ Restart
  BY <1>1, <1>2, NextCases DEF ProcessorNext
<1>4. k = Key(Current) BY <1>3, ProcessorLosesCurrent DEF ProcessorNext
<1>5. faults \in Nat /\ restarts \in Nat
  BY DEF Typed, TypeOK, StoreTypeOK, WorkerTypeOK
<1>6. \/ faults' = faults + 1 /\ restarts' = restarts
      \/ faults' = faults /\ restarts' = restarts + 1
  BY <1>3 DEF ProcessorFault, MarkFails, SetTtlFails, LogFails, ConfirmFails, PublishFails, Fault,
     Restart, storeVars
<1>7. QED BY <1>4, <1>5, <1>6 DEF Lapses

LostInv == IsFiniteSet(Lost) /\ LostAreFailures

LEMMA LostStep ==
    ASSUME Typed, AnnounceInv, LoggedExist, LoggedInStream, LostInv, [Next]_vars
    PROVE  LostInv'
<1>n. Lapses \in Nat /\ Lapses' \in Nat /\ Lapses <= Lapses' BY LapsesGrow
<1>f. IsFiniteSet(Lost) /\ Cardinality(Lost) \in Nat BY FS_CardinalityType DEF LostInv
<1>c. Cardinality(Lost) <= Lapses BY DEF LostInv, LostAreFailures, Lapses
<1>1. CASE Lost' \subseteq Lost
  <2>1. IsFiniteSet(Lost') /\ Cardinality(Lost') <= Cardinality(Lost) /\ Cardinality(Lost') \in Nat
    BY <1>1, <1>f, FS_Subset, FS_CardinalityType
  <2>2. Cardinality(Lost') <= Lapses' BY <1>n, <1>f, <1>c, <2>1
  <2>3. QED BY <2>1, <2>2 DEF LostInv, LostAreFailures, Lapses
<1>2. CASE ~ (Lost' \subseteq Lost)
  <2>1. PICK k \in Lost' : k \notin Lost BY <1>2
  <2>2. k = Key(Current) /\ Lapses' = Lapses + 1 BY <2>1, NewlyLost
  <2>3. Lost' \subseteq Lost \union {k} BY <2>2, NewlyLost
  <2>4. /\ IsFiniteSet(Lost \union {k})
        /\ Cardinality(Lost \union {k}) = Cardinality(Lost) + 1
    BY <1>f, <2>1, FS_AddElement
  <2>5. /\ IsFiniteSet(Lost')
        /\ Cardinality(Lost') <= Cardinality(Lost \union {k})
        /\ Cardinality(Lost') \in Nat
    BY <2>3, <2>4, FS_Subset, FS_CardinalityType
  <2>6. Cardinality(Lost') <= Lapses' BY <1>n, <1>f, <1>c, <2>2, <2>4, <2>5
  <2>7. QED BY <2>5, <2>6 DEF LostInv, LostAreFailures, Lapses
<1>3. QED BY <1>1, <1>2

LEMMA LostInit == Init => LostInv
<1>1. Init => Lost = {} BY DEF Init, StoreInit, Lost
<1>2. IsFiniteSet({}) /\ Cardinality({}) = 0 BY FS_EmptySet
<1>3. Init => faults = 0 /\ restarts = 0 BY DEF Init, StoreInit, WorkerInit
<1>4. QED BY <1>1, <1>2, <1>3 DEF LostInv, LostAreFailures

\* The at-most-once handling of main.rs:71 gives up an event only with a failed call or
\* a crash, and each of them costs the event in hand and no other, however many
\* entries are replayed, expire or arrive in between.
THEOREM EventsLostPerFailure == Spec => []LostAreFailures
<1>1. Typed /\ AnnounceInv /\ CleanInv /\ LoggedInStream /\ LostInv /\ [Next]_vars => LostInv'
  BY LostStep DEF CleanInv
<1>2. LostInv => LostAreFailures BY DEF LostInv
<1>3. QED
  BY <1>1, <1>2, LostInit, AlwaysTyped, AlwaysAnnounced, AlwaysClean, AlwaysInStream,
     PTL DEF Spec
=============================================================================
