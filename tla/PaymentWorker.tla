---------------------------- MODULE PaymentWorker ----------------------------
(***************************************************************************)
(* apps/worker/src/main.rs: the webhook processor and the reconciliation   *)
(* loop, two tasks of one process.  An action is the code between two      *)
(* remote calls, so the tasks and the API interleave at every await.       *)
(***************************************************************************)
EXTENDS PaymentStore

CONSTANTS
    BatchSize,      \* COUNT of read_after (50 in the code)
    MaxRestarts     \* bound: crashes of the worker process

ASSUME WorkerAssumption == BatchSize \in Nat \ {0} /\ MaxRestarts \in Nat

VARIABLES
    wpc,        \* the remote call process_webhooks makes next
    last_id,    \* position of the last entry handled; memory only
    batch,      \* position of the last entry of the batch read
    skipped,    \* history: events skipped as duplicates
    rpc,        \* the remote call reconcile_once makes next
    rbatch,     \* payments of the round that are still to reconcile
    restarts    \* crashes so far

processorVars == <<wpc, last_id, batch, skipped>>
reconcilerVars == <<rpc, rbatch>>
workerVars == <<processorVars, reconcilerVars, restarts>>

WorkerTypeOK ==
    /\ wpc \in {"read", "mark", "expire", "log", "confirm", "publish"}
    /\ last_id \in Nat
    /\ batch \in Nat
    /\ skipped \subseteq WebhookEvents
    /\ rpc \in {"read", "mark", "settle"}
    /\ rbatch \subseteq PaymentIds
    /\ restarts \in Nat

WorkerInit ==
    /\ wpc = "read"
    /\ last_id = 0
    /\ batch = 0
    /\ skipped = {}
    /\ rpc = "read"
    /\ rbatch = {}
    /\ restarts = 0

-----------------------------------------------------------------------------
(* process_webhooks and handle_event.                                      *)

\* The event handle_event works on while wpc # "read".
Current == stream[last_id + 1]

\* Mutant of FinishEvent: the position moves to the end of the batch at once.
BatchAcknowledged ==
    /\ last_id' = batch
    /\ wpc' = "read"
    /\ UNCHANGED batch

\* handle_event returned, Ok or Err: the loop moves past the entry either way.
FinishEvent ==
    /\ last_id' = last_id + 1
    /\ wpc' = IF last_id + 1 < batch THEN "mark" ELSE "read"
    /\ UNCHANGED batch

GoTo(pc) == wpc' = pc /\ UNCHANGED <<last_id, batch>>

ReadBatch ==
    /\ wpc = "read"
    /\ last_id < Len(stream)
    /\ batch' = IF last_id + BatchSize < Len(stream) THEN last_id + BatchSize ELSE Len(stream)
    /\ wpc' = "mark"
    /\ UNCHANGED <<last_id, skipped, storeVars>>

\* Mutants of MarkKey: a plain SET that does not look whether the key was there;
\* the EXPIRE is forgotten.
KeyOverwritten ==
    /\ wpc = "mark"
    /\ set_nx(Key(Current))
    /\ GoTo("expire")
    /\ UNCHANGED <<skipped, dbVars, stream, channelVars, faults>>
TtlForgotten ==
    /\ wpc = "mark"
    /\ idemp[Key(Current)] = "absent"
    /\ set_nx(Key(Current))
    /\ GoTo("log")
    /\ UNCHANGED <<skipped, dbVars, stream, channelVars, faults>>

MarkKey ==
    /\ wpc = "mark"
    /\ idemp[Key(Current)] = "absent"
    /\ set_nx(Key(Current))
    /\ GoTo("expire")
    /\ UNCHANGED <<skipped, dbVars, stream, channelVars, faults>>

SkipDuplicate ==
    /\ wpc = "mark"
    /\ idemp[Key(Current)] # "absent"
    /\ skipped' = skipped \union {Current}
    /\ FinishEvent
    /\ UNCHANGED storeVars

MarkFails ==
    /\ wpc = "mark"
    /\ Fault
    /\ set_nx(Key(Current)) \/ UNCHANGED idempVars
    /\ FinishEvent
    /\ UNCHANGED <<skipped, dbVars, stream, channelVars>>

SetTtl ==
    /\ wpc = "expire"
    /\ expire(Key(Current))
    /\ GoTo("log")
    /\ UNCHANGED <<skipped, dbVars, stream, channelVars, faults>>

SetTtlFails ==
    /\ wpc = "expire"
    /\ Fault
    /\ expire(Key(Current)) \/ UNCHANGED idempVars
    /\ FinishEvent
    /\ UNCHANGED <<skipped, dbVars, stream, channelVars>>

\* Mutant of LogTransaction: the announcement goes out before the commit.
AnnouncedBeforeCommit ==
    /\ wpc = "log"
    /\ log_transaction(Current)
    /\ IF Current.status = "SUCCESS" THEN GoTo("publish") ELSE FinishEvent
    /\ UNCHANGED <<skipped, stream, idempVars, channelVars, faults>>

LogTransaction ==
    /\ wpc = "log"
    /\ log_transaction(Current)
    /\ IF Current.status = "SUCCESS" THEN GoTo("confirm") ELSE FinishEvent
    /\ UNCHANGED <<skipped, stream, idempVars, channelVars, faults>>

\* Mutants of LogRefused: the error is logged and the handler goes on; the call is
\* repeated until it succeeds.
RefusalIgnored ==
    /\ wpc = "log"
    /\ ~ LogAccepts(Current)
    /\ IF Current.status = "SUCCESS" THEN GoTo("confirm") ELSE FinishEvent
    /\ UNCHANGED <<skipped, storeVars>>
RefusalRetried ==
    /\ wpc = "log"
    /\ ~ LogAccepts(Current)
    /\ UNCHANGED <<processorVars, storeVars>>

\* A constraint of the table refuses the row: no fault, and no retry helps.
LogRefused ==
    /\ wpc = "log"
    /\ ~ LogAccepts(Current)
    /\ FinishEvent
    /\ UNCHANGED <<skipped, storeVars>>

LogFails ==
    /\ wpc = "log"
    /\ Fault
    /\ log_transaction(Current) \/ UNCHANGED dbVars
    /\ FinishEvent
    /\ UNCHANGED <<skipped, stream, idempVars, channelVars>>

ConfirmPayment ==
    /\ wpc = "confirm"
    /\ mark_payment_success(Current.payment_id, Current.order_id)
    /\ GoTo("publish")
    /\ UNCHANGED <<skipped, stream, idempVars, channelVars, faults>>

ConfirmFails ==
    /\ wpc = "confirm"
    /\ Fault
    /\ mark_payment_success(Current.payment_id, Current.order_id) \/ UNCHANGED dbVars
    /\ FinishEvent
    /\ UNCHANGED <<skipped, stream, idempVars, channelVars>>

\* Mutant of PublishConfirmed: nobody is told.
NotAnnounced ==
    /\ wpc = "publish"
    /\ FinishEvent
    /\ UNCHANGED <<skipped, storeVars>>

PublishConfirmed ==
    /\ wpc = "publish"
    /\ publish_payment_confirmed(Current)
    /\ FinishEvent
    /\ UNCHANGED <<skipped, dbVars, stream, idempVars, faults>>

PublishFails ==
    /\ wpc = "publish"
    /\ Fault
    /\ publish_payment_confirmed(Current) \/ UNCHANGED channelVars
    /\ FinishEvent
    /\ UNCHANGED <<skipped, dbVars, stream, idempVars>>

ProcessorStep ==
    \/ ReadBatch \/ MarkKey \/ SkipDuplicate \/ SetTtl
    \/ LogTransaction \/ LogRefused \/ ConfirmPayment \/ PublishConfirmed

ProcessorFault ==
    \/ MarkFails \/ SetTtlFails \/ LogFails \/ ConfirmFails \/ PublishFails

-----------------------------------------------------------------------------
(* run_reconciliation and reconcile_once.                                  *)

\* The loop takes the payments of the round in the order of created_at.
InHand(p) == p \in rbatch /\ \A q \in rbatch : created_at[p] <= created_at[q]

FetchPending ==
    /\ rpc = "read"
    /\ pending_payments # {}
    /\ rbatch' = pending_payments
    /\ rpc' = "mark"
    /\ UNCHANGED storeVars

\* Mutant of ReconcileMark: the settlement is written first.
SettledBeforeMarked(p) ==
    /\ rpc = "mark"
    /\ InHand(p)
    /\ insert_settlement(p)
    /\ rpc' = "settle"
    /\ UNCHANGED <<rbatch, stream, idempVars, channelVars, faults>>

ReconcileMark(p) ==
    /\ rpc = "mark"
    /\ InHand(p)
    /\ mark_payment_success(p, payment_order[p])
    /\ rpc' = "settle"
    /\ UNCHANGED <<rbatch, stream, idempVars, channelVars, faults>>

\* Mutant of ReconcileSettle: the round goes on without the settlement.
SettlementForgotten(p) ==
    /\ rpc = "settle"
    /\ InHand(p)
    /\ rbatch' = rbatch \ {p}
    /\ rpc' = IF rbatch' = {} THEN "read" ELSE "mark"
    /\ UNCHANGED storeVars

ReconcileSettle(p) ==
    /\ rpc = "settle"
    /\ InHand(p)
    /\ insert_settlement(p)
    /\ rbatch' = rbatch \ {p}
    /\ rpc' = IF rbatch' = {} THEN "read" ELSE "mark"
    /\ UNCHANGED <<stream, idempVars, channelVars, faults>>

\* Mutant of AbortRound: the error ends the loop, not only the round.
TaskEnded == rpc' = "mark" /\ rbatch' = {}

\* The ? of a failed call leaves reconcile_once: the rest of the round is dropped.
AbortRound == rpc' = "read" /\ rbatch' = {}

ReconcileMarkFails(p) ==
    /\ rpc = "mark"
    /\ InHand(p)
    /\ Fault
    /\ mark_payment_success(p, payment_order[p]) \/ UNCHANGED dbVars
    /\ AbortRound
    /\ UNCHANGED <<stream, idempVars, channelVars>>

ReconcileSettleFails(p) ==
    /\ rpc = "settle"
    /\ InHand(p)
    /\ Fault
    /\ insert_settlement(p) \/ UNCHANGED dbVars
    /\ AbortRound
    /\ UNCHANGED <<stream, idempVars, channelVars>>

ReconcilerStep ==
    \/ FetchPending
    \/ \E p \in PaymentIds : ReconcileMark(p) \/ ReconcileSettle(p)

ReconcilerFault ==
    \E p \in PaymentIds : ReconcileMarkFails(p) \/ ReconcileSettleFails(p)

-----------------------------------------------------------------------------
\* The process dies and starts again: both tasks lose what they hold in memory
\* and main starts the stream at "0-0".
Restart ==
    /\ restarts < MaxRestarts
    /\ restarts' = restarts + 1
    /\ wpc' = "read" /\ last_id' = 0 /\ batch' = 0
    /\ rpc' = "read" /\ rbatch' = {}
    /\ UNCHANGED <<skipped, storeVars>>

ProcessorNext == ProcessorStep \/ ProcessorFault
ReconcilerNext == ReconcilerStep \/ ReconcilerFault

WorkerNext ==
    \/ ProcessorNext /\ UNCHANGED <<reconcilerVars, restarts>>
    \/ ReconcilerNext /\ UNCHANGED <<processorVars, restarts>>
    \/ Restart
=============================================================================
