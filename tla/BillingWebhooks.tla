--------------------------- MODULE BillingWebhooks ---------------------------
(***************************************************************************)
(* The Stripe webhook endpoint, process_stripe_event and the operator      *)
(* replay that calls it again.                                             *)
(*                                                                         *)
(* process_stripe_event is one READ COMMITTED transaction.  A worker runs  *)
(* it in four steps: Begin reads or inserts the event's log row, a handler *)
(* step reads and buffers its row, Recalculate reads what the entitlement  *)
(* snapshot is built from, and Commit (or Fail) publishes everything.      *)
(* Other workers' steps fall between them.  Only committed rows are        *)
(* visible to others, a row that a transaction has updated stays locked    *)
(* until it ends, and an inserted log row blocks whoever inserts the same  *)
(* event id.  The HTTP reply is a step of its own: until it arrives, the   *)
(* provider delivers the event again.                                      *)
(*                                                                         *)
(* Subscription, invoice, payment and checkout rows are kept in one table  *)
(* `rows`, numbered in the order they were created.  None of the four      *)
(* tables has a uniqueness constraint on the provider's object id.         *)
(***************************************************************************)
EXTENDS Naturals, FiniteSets, Functions, Entitlements

CONSTANTS
    Workers,      \* web processes and threads
    Replays,      \* ids of operator replay requests
    Askers,       \* requests that have a snapshot recalculated without a log entry
    Customers,    \* customers whose provider_customer_id is stored
    NoCustomer,   \* a provider customer id that no row carries
    Objects,      \* provider ids of subscriptions, invoices, payments, sessions
    NoObject,     \* an absent provider id
    Events,       \* ids of the provider's events
    Histories,    \* what the provider may emit: event id -> payload, or NoEvent
    MaxRow,       \* bound: rows created in one behaviour
    MaxTries,     \* bound: times one event is handed to process_stripe_event
    MaxFaults     \* bound: database errors, crashes and lost replies

SubscriptionUpserts ==
    {"customer.subscription.created", "customer.subscription.updated"}
InvoiceUpserts ==
    {"invoice.paid", "invoice.payment_failed", "invoice.finalized",
     "invoice.voided", "invoice.marked_uncollectible"}
PaymentUpserts ==
    {"payment_intent.succeeded", "payment_intent.payment_failed",
     "payment_intent.processing", "payment_intent.requires_action"}
Upserts == SubscriptionUpserts \union InvoiceUpserts \union PaymentUpserts
Amends ==
    {"customer.subscription.deleted", "checkout.session.completed",
     "checkout.session.expired", "charge.refunded"}
Types == Upserts \union Amends \union {"other"}

InvoiceStatuses == {"paid", "open", "draft", "void", "uncollectible"}
PaymentStatuses == {"succeeded", "failed", "processing", "requires_action", "refunded"}
CheckoutStatuses == {"open", "completed", "expired"}
RowStatuses ==
    SubscriptionStatuses \union InvoiceStatuses \union PaymentStatuses
        \union CheckoutStatuses

(* What the handlers read of an event's payload: the object it is about,   *)
(* the customer, the object's status, period and trial ends, the           *)
(* subscription an invoice belongs to, and whether the first item's price  *)
(* is one of ours.                                                         *)
EventRecord ==
    [type: Types, customer: Customers \union {NoCustomer}, object: Objects,
     status: StripeStatuses \union InvoiceStatuses, ends: When, trial: When,
     parent: Objects \union {NoObject}, priced: BOOLEAN]

NoEvent == [type |-> "none"]

Row ==
    [object: Objects, customer: Customers, status: RowStatuses,
     ends: When, trial: When, grace: {"never"}]
NoRow == [object |-> NoObject]

RowIds == 1..MaxRow
CaseKeys == (0..MaxRow) \X RowIds   \* (subscription row or 0, invoice row)
NoCase == <<0, 0>>

ASSUME NoValueAssumption == NoCustomer \notin Customers /\ NoObject \notin Objects
ASSUME BoundAssumption ==
    MaxRow \in Nat /\ MaxTries \in Nat /\ MaxFaults \in Nat
ASSUME HistoriesAssumption ==
    Histories \subseteq [Events -> EventRecord \union {NoEvent}]

VARIABLES
    content,    \* the provider's history: the payload of every event it emits
    webhook,    \* BillingWebhookEvent.status of each event, or "absent"
    rows,       \* the provider-object tables
    nextRow,    \* the number of the next row to be created
    dunning,    \* DunningCase.failed_attempts by case; 0 where there is no case
    snapshot,   \* EntitlementSnapshot of each customer
    changeLog,  \* EntitlementChangeLog
    outbox,     \* BillingOutboxEvent keys
    sync,       \* ProviderSyncState of the stripe webhooks
    replay,     \* WebhookReplayRequest.status
    asked,      \* what each asker has read
    acked,      \* events the provider has a 2xx reply for
    tries,      \* times each event was handed to process_stripe_event
    faults,     \* errors, crashes and lost replies so far
    pc,         \* where each worker is
    tx          \* each worker's open transaction

database == <<webhook, rows, dunning, snapshot, changeLog, outbox, sync>>
environment == <<acked, tries, faults>>
vars == <<database, nextRow, replay, content, asked, environment, pc, tx>>

PCs == {"idle", "begun", "handled", "recalculated", "replying"}
Provider == "provider"

NoTx ==
    [event |-> NoObject, by |-> Provider, row |-> 0, record |-> NoRow,
     case |-> NoCase, attempts |-> 0, customer |-> NoCustomer, payload |-> {},
     version |-> 0]

NoAsk == [at |-> "none", customer |-> NoCustomer, payload |-> {}, version |-> 0]

Open(w) == pc[w] \in {"begun", "handled", "recalculated"}

-----------------------------------------------------------------------------
(* What a transaction reads. *)

RowsOf(o) == {r \in RowIds : rows[r] # NoRow /\ rows[r].object = o}
IsFirst(r, S) == r \in S /\ \A s \in S : s <= r     \* .first() by -created_at

(* SELECT ... FOR UPDATE, and UPDATE, wait for the transaction that        *)
(* updated the row.                                                        *)
NeverLocked(w, r) == TRUE     \* slip: update_or_create without select_for_update
Unlocked(w, r) == \A v \in Workers \ {w} : Open(v) => tx[v].row # r

(* get_or_create waits for the transaction that inserted the same row.     *)
NotBeingInserted(e) ==
    webhook[e] = "absent" => \A v \in Workers : Open(v) => tx[v].event # e

(* The tables as the transaction that wrote `record` to row `r` sees them. *)
Written(r, record) ==
    [i \in RowIds |-> IF i = r THEN record ELSE rows[i]]

GrantingRows(table, c) ==
    {r \in RowIds : /\ table[r] # NoRow
                    /\ table[r].customer = c
                    /\ Grants(table[r])}

(* An invoice's subscription: the newest row of that provider id, or none. *)
IsParent(p, o) ==
    \/ RowsOf(o) = {} /\ p = 0
    \/ IsFirst(p, RowsOf(o))

-----------------------------------------------------------------------------
(* What the handlers write. *)

PaymentStatusOf(type) ==
    CASE type = "payment_intent.succeeded"       -> "succeeded"
      [] type = "payment_intent.payment_failed"  -> "failed"
      [] type = "payment_intent.processing"      -> "processing"
      [] OTHER                                   -> "requires_action"

UpsertStatus(c) ==
    CASE c.type \in SubscriptionUpserts -> SubscriptionStatusOf(c.status)
      [] c.type \in InvoiceUpserts      ->
            IF c.status \in InvoiceStatuses THEN c.status ELSE "open"
      [] OTHER                          -> PaymentStatusOf(c.type)

UpsertRecord(c) ==
    LET dated == c.type \in SubscriptionUpserts IN
    [object |-> c.object, customer |-> c.customer, status |-> UpsertStatus(c),
     ends |-> IF dated THEN c.ends ELSE "never",
     trial |-> IF dated THEN c.trial ELSE "never", grace |-> "never"]

AmendStatus(type) ==
    CASE type = "customer.subscription.deleted" -> "cancelled"
      [] type = "checkout.session.completed"    -> "completed"
      [] type = "checkout.session.expired"      -> "expired"
      [] OTHER                                  -> "refunded"

AmendRecord(c, row) ==
    LET ends == IF c.type = "customer.subscription.deleted" /\ c.ends # "never"
                THEN c.ends ELSE row.ends
    IN  [row EXCEPT !.status = AmendStatus(c.type), !.ends = ends]

(* The handler writes a row of the event's object.                         *)
StoresRow(c) ==
    /\ c.type \in Upserts
    /\ c.customer # NoCustomer
    /\ c.type \in SubscriptionUpserts => c.priced

Raised(errors) ==
    [status |-> IF errors >= 2 THEN "failing" ELSE "degraded",
     errors |-> IF errors < 3 THEN errors + 1 ELSE 3]

-----------------------------------------------------------------------------
Init ==
    /\ content \in Histories
    /\ webhook = [e \in Events |-> "absent"]
    /\ rows = [r \in RowIds |-> NoRow]
    /\ nextRow = 1
    /\ dunning = [k \in CaseKeys |-> 0]
    /\ snapshot = [c \in Customers |-> [version |-> 0, payload |-> {}, reason |-> "none"]]
    /\ changeLog = {}
    /\ outbox = {}
    /\ sync = [status |-> "healthy", errors |-> 0]
    /\ replay = [q \in Replays |-> "none"]
    /\ asked = [a \in Askers |-> NoAsk]
    /\ acked = {}
    /\ tries = [e \in Events |-> 0]
    /\ faults = 0
    /\ pc = [w \in Workers |-> "idle"]
    /\ tx = [w \in Workers |-> NoTx]

-----------------------------------------------------------------------------
(* An event already PROCESSED returns at once.                             *)
AlwaysBegun(e) == "begun"     \* slip: the early return is missing
AfterLookup(e) == IF webhook[e] = "processed" THEN "replying" ELSE "begun"

(* The start of process_stripe_event.  `by` says who called: the           *)
(* provider's delivery or a replay.                                        *)
Call(w, e, by) ==
    /\ pc[w] = "idle"
    /\ content[e] # NoEvent
    /\ tries[e] < MaxTries
    /\ tries' = [tries EXCEPT ![e] = @ + 1]
    /\ NotBeingInserted(e)
    /\ tx' = [tx EXCEPT ![w] = [NoTx EXCEPT !.event = e, !.by = by]]
    /\ pc' = [pc EXCEPT ![w] = AfterLookup(e)]
    /\ UNCHANGED <<database, nextRow, content, asked, acked, faults>>

(* StripeWebhookView.post with a valid signature.  Deliveries may repeat   *)
(* and come in any order.                                                  *)
Deliver(w, e) ==
    /\ Call(w, e, Provider)
    /\ UNCHANGED replay

(* create_webhook_replay_request: the event is a logged one.  Without      *)
(* process_now nothing ever replays the request.                           *)
RequestReplay(q, e) ==
    /\ replay[q] = "none"
    /\ webhook[e] # "absent"
    /\ replay' = [replay EXCEPT ![q] = "requested"]
    /\ UNCHANGED <<database, nextRow, content, asked, environment, pc, tx>>

ReplayNow(w, q, e) ==
    /\ replay[q] = "none"
    /\ webhook[e] # "absent"
    /\ \A v \in Workers : tx[v].by # q
    /\ Call(w, e, q)
    /\ replay' = IF webhook[e] = "processed"
                 THEN [replay EXCEPT ![q] = "replayed"] ELSE replay

(* CreateCheckoutSessionView, after the provider has created the session:  *)
(* the provider may tell us about the session before this step.            *)
CreateCheckoutSession(o, c) ==
    /\ \E e \in Events : /\ content[e].type \in {"checkout.session.completed",
                                                 "checkout.session.expired"}
                         /\ content[e].object = o
                         /\ content[e].customer = c
    /\ c \in Customers
    /\ RowsOf(o) = {}
    /\ nextRow <= MaxRow
    /\ nextRow' = nextRow + 1
    /\ rows' = [rows EXCEPT ![nextRow] =
                  [object |-> o, customer |-> c, status |-> "open",
                   ends |-> "never", trial |-> "never", grace |-> "never"]]
    /\ UNCHANGED <<webhook, dunning, snapshot, changeLog, outbox, sync,
                   replay, content, asked, environment, pc, tx>>

-----------------------------------------------------------------------------
(* The handlers.  Buffer records what the transaction will publish; a      *)
(* dunning case is read here and saved with the number read plus one.      *)
Buffer(w, row, record, case, customer) ==
    /\ pc' = [pc EXCEPT ![w] = "handled"]
    /\ tx' = [tx EXCEPT ![w] = [@ EXCEPT
                 !.row = row, !.record = record, !.customer = customer,
                 !.case = case,
                 !.attempts = IF case = NoCase THEN 0 ELSE dunning[case] + 1]]
    /\ UNCHANGED <<database, replay, content, asked, environment>>

(* update_or_create on the provider id, and the dunning case of a failed   *)
(* payment.  The row is created when no committed one exists.              *)
Upsert(w) ==
    LET c == content[tx[w].event] IN
    /\ pc[w] = "begun"
    /\ StoresRow(c)
    /\ \E r \in RowIds, p \in 0..MaxRow :
         /\ \/ /\ RowsOf(c.object) = {}
               /\ r = nextRow
               /\ nextRow' = nextRow + 1
            \/ /\ RowsOf(c.object) = {r}
               /\ Unlocked(w, r)
               /\ UNCHANGED nextRow
         /\ IsParent(p, c.parent)
         /\ Buffer(w, r, UpsertRecord(c),
                   IF c.type = "invoice.payment_failed" THEN <<p, r>> ELSE NoCase,
                   c.customer)

(* The handlers that change the newest row of an object and save some of   *)
(* its columns: cancellation, checkout outcome, refund.                    *)
Amend(w) ==
    LET c == content[tx[w].event] IN
    /\ pc[w] = "begun"
    /\ c.type \in Amends
    /\ \E r \in RowIds :
         /\ IsFirst(r, RowsOf(c.object))
         /\ Unlocked(w, r)
         /\ Buffer(w, r, AmendRecord(c, rows[r]), NoCase, rows[r].customer)
    /\ UNCHANGED nextRow

(* Nothing to write: an unknown customer, an unknown price, an amendment   *)
(* of an object that has no row, an event type that is not handled.        *)
PassOver(w) ==
    LET c == content[tx[w].event] IN
    /\ pc[w] = "begun"
    /\ ~ StoresRow(c)
    /\ c.type \in Amends => RowsOf(c.object) = {}
    /\ Buffer(w, 0, NoRow, NoCase,
              IF c.type = "other" THEN NoCustomer ELSE c.customer)
    /\ UNCHANGED nextRow

-----------------------------------------------------------------------------
CommittedRows(w) == rows      \* slip: subscriptions read before the handler wrote
RowsSeenBy(w) ==
    IF tx[w].row = 0 THEN rows ELSE Written(tx[w].row, tx[w].record)

(* recalculate_entitlement_snapshot_with_log, up to its first write: the   *)
(* previous version and the payload are read without a lock.               *)
Recalculate(w) ==
    LET table == RowsSeenBy(w)
        granting == GrantingRows(table, tx[w].customer)
    IN
    /\ pc[w] = "handled"
    /\ tx[w].customer # NoCustomer
    /\ IsEncodable({table[r] : r \in granting})
    /\ pc' = [pc EXCEPT ![w] = "recalculated"]
    /\ tx' = [tx EXCEPT ![w] = [@ EXCEPT
                 !.payload = granting,
                 !.version = snapshot[tx[w].customer].version + 1]]
    /\ UNCHANGED <<database, nextRow, replay, content, asked, environment>>

NothingSaved(w) == UNCHANGED <<rows, dunning>>     \* slip: save() forgotten
PublishRow(w) ==
    /\ rows' = IF tx[w].row = 0 THEN rows ELSE Written(tx[w].row, tx[w].record)
    /\ dunning' = IF tx[w].case = NoCase THEN dunning
                  ELSE [dunning EXCEPT ![tx[w].case] = tx[w].attempts]

ChangeOf(w) ==
    [customer |-> tx[w].customer, version |-> tx[w].version, payload |-> tx[w].payload]
EntitlementsChanged(w) ==
    [type |-> "billing.entitlements.changed",
     key |-> <<tx[w].customer, tx[w].version>>]
ProviderEventProcessed(e) ==
    [type |-> "billing.provider_event.processed", key |-> e]

SnapshotOnly(w) ==     \* slip: recalculated without the log
    /\ snapshot' = [snapshot EXCEPT ![tx[w].customer] =
                      [version |-> tx[w].version, payload |-> tx[w].payload,
                       reason |-> "webhook"]]
    /\ UNCHANGED changeLog

(* The writes of the recalculation.  enqueue_billing_outbox_event finds an *)
(* event with the same key and returns it: a set is what it amounts to.    *)
PublishSnapshot(w) ==
    /\ snapshot' = [snapshot EXCEPT ![tx[w].customer] =
                      [version |-> tx[w].version, payload |-> tx[w].payload,
                       reason |-> "webhook"]]
    /\ changeLog' = changeLog \union {ChangeOf(w)}

(* The transaction ends.  A replay commits its own status with it, and is  *)
(* REPLAYED whatever became of the event.                                  *)
EndTx(w) ==
    /\ pc' = [pc EXCEPT ![w] = "replying"]
    /\ tx' = [tx EXCEPT ![w] = [NoTx EXCEPT !.event = tx[w].event, !.by = tx[w].by]]
    /\ replay' = IF tx[w].by \in Replays
                 THEN [replay EXCEPT ![tx[w].by] = "replayed"] ELSE replay

(* All that a run does before it looks at the sync state: the row, and for *)
(* a customer the recalculation and both announcements.                    *)
PublishRun(w) ==
    /\ \/ pc[w] = "recalculated"
       \/ pc[w] = "handled" /\ tx[w].customer = NoCustomer
    /\ PublishRow(w)
    /\ IF pc[w] = "recalculated"
       THEN /\ PublishSnapshot(w)
            /\ outbox' = outbox \union {EntitlementsChanged(w),
                                        ProviderEventProcessed(tx[w].event)}
       ELSE UNCHANGED <<snapshot, changeLog, outbox>>

(* The transaction's successful end.                                       *)
Commit(w) ==
    /\ PublishRun(w)
    /\ sync' = [status |-> "healthy", errors |-> 0]
    /\ webhook' = [webhook EXCEPT ![tx[w].event] = "processed"]
    /\ EndTx(w)
    /\ UNCHANGED <<nextRow, content, asked, environment>>

(* An exception inside the try block: the savepoint of the failing call is *)
(* rolled back, what ran before it is committed, and the event is FAILED.  *)
LogSuccess(w) ==     \* slip: the status is set before the work, not after it
    /\ webhook' = [webhook EXCEPT ![tx[w].event] = "processed"]
    /\ sync' = Raised(sync.errors)
    /\ EndTx(w)
    /\ UNCHANGED <<nextRow, content, asked, acked, tries>>
LogFailure(w) ==
    /\ webhook' = [webhook EXCEPT ![tx[w].event] = "failed"]
    /\ sync' = Raised(sync.errors)
    /\ EndTx(w)
    /\ UNCHANGED <<nextRow, content, asked, acked, tries>>

SpendFault ==
    /\ faults < MaxFaults
    /\ faults' = faults + 1

(* update_or_create raises: two rows carry the provider id, or the         *)
(* database refuses the write.                                             *)
FailInHandler(w) ==
    LET c == content[tx[w].event] IN
    /\ pc[w] = "begun"
    /\ StoresRow(c)
    /\ \/ (\E r, s \in RowsOf(c.object) : r # s) /\ UNCHANGED faults
       \/ SpendFault
    /\ LogFailure(w)
    /\ UNCHANGED <<rows, dunning, snapshot, changeLog, outbox>>

AnnouncedFirst(w) ==     \* slip: the event is announced before the recalculation
    LET table == RowsSeenBy(w)
        granting == GrantingRows(table, tx[w].customer)
    IN
    /\ \/ /\ pc[w] = "handled"
          /\ tx[w].customer # NoCustomer
          /\ ~ IsEncodable({table[r] : r \in granting})
          /\ UNCHANGED faults
       \/ pc[w] = "recalculated" /\ SpendFault
    /\ PublishRow(w)
    /\ outbox' = outbox \union {ProviderEventProcessed(tx[w].event)}
    /\ LogFailure(w)
    /\ UNCHANGED <<snapshot, changeLog>>

(* The recalculation raises: the payload cannot be encoded, or the         *)
(* database refuses one of its writes.                                     *)
FailInRecalculation(w) ==
    LET table == RowsSeenBy(w)
        granting == GrantingRows(table, tx[w].customer)
    IN
    /\ \/ /\ pc[w] = "handled"
          /\ tx[w].customer # NoCustomer
          /\ ~ IsEncodable({table[r] : r \in granting})
          /\ UNCHANGED faults
       \/ pc[w] = "recalculated" /\ SpendFault
    /\ PublishRow(w)
    /\ LogFailure(w)
    /\ UNCHANGED <<snapshot, changeLog, outbox>>

(* Enqueueing the processed event raises: the recalculation's writes stay. *)
FailInEnqueue(w) ==
    /\ pc[w] = "recalculated"
    /\ SpendFault
    /\ PublishRow(w)
    /\ PublishSnapshot(w)
    /\ outbox' = outbox \union {EntitlementsChanged(w)}
    /\ LogFailure(w)

(* update_provider_sync_success raises: everything has been written, the   *)
(* announcement included, and the event is FAILED all the same.            *)
FailInSync(w) ==
    /\ SpendFault
    /\ PublishRun(w)
    /\ LogFailure(w)

RollBackAndReply(w) ==     \* slip: the view answers 200 to any outcome
    /\ Open(w)
    /\ SpendFault
    /\ pc' = [pc EXCEPT ![w] = "idle"]
    /\ tx' = [tx EXCEPT ![w] = NoTx]
    /\ acked' = acked \union {tx[w].event}
    /\ UNCHANGED <<database, nextRow, replay, content, asked, tries>>
(* The process dies, or the database refuses a statement that no savepoint *)
(* encloses: the whole transaction is rolled back.  In the second case a   *)
(* replay survives, in its own transaction, and records the failure.       *)
RollBack(w) ==
    /\ Open(w)
    /\ SpendFault
    /\ pc' = [pc EXCEPT ![w] = "idle"]
    /\ tx' = [tx EXCEPT ![w] = NoTx]
    /\ IF tx[w].by \in Replays
       THEN \E status \in {"none", "failed"} :
               replay' = [replay EXCEPT ![tx[w].by] = status]
       ELSE UNCHANGED replay
    /\ UNCHANGED <<database, nextRow, content, asked, acked, tries>>

ReplyOnSuccess(w) ==     \* slip: a FAILED event is answered with an error
    /\ pc[w] = "replying"
    /\ pc' = [pc EXCEPT ![w] = "idle"]
    /\ tx' = [tx EXCEPT ![w] = NoTx]
    /\ acked' = IF tx[w].by = Provider /\ webhook[tx[w].event] = "processed"
                THEN acked \union {tx[w].event} ELSE acked
    /\ UNCHANGED <<database, nextRow, replay, content, asked, tries, faults>>

(* The reply: 200 for every logged outcome.                                *)
Reply(w) ==
    /\ pc[w] = "replying"
    /\ pc' = [pc EXCEPT ![w] = "idle"]
    /\ tx' = [tx EXCEPT ![w] = NoTx]
    /\ acked' = IF tx[w].by = Provider THEN acked \union {tx[w].event} ELSE acked
    /\ UNCHANGED <<database, nextRow, replay, content, asked, tries, faults>>

LoseReply(w) ==
    /\ pc[w] = "replying"
    /\ tx[w].by = Provider
    /\ SpendFault
    /\ pc' = [pc EXCEPT ![w] = "idle"]
    /\ tx' = [tx EXCEPT ![w] = NoTx]
    /\ UNCHANGED <<database, nextRow, replay, content, asked, acked, tries>>

(* RecalculateEntitlementSnapshotView at any time, and the snapshot read of *)
(* product applications when there is none: payload and version are read,  *)
(* and only then is the snapshot row locked and written.                   *)
Ask(a, c) ==
    LET granting == GrantingRows(rows, c) IN
    /\ asked[a] = NoAsk
    /\ IsEncodable({rows[r] : r \in granting})
    /\ asked' = [asked EXCEPT ![a] =
                   [at |-> "read", customer |-> c, payload |-> granting,
                    version |-> snapshot[c].version + 1]]
    /\ UNCHANGED <<database, nextRow, replay, content, environment, pc, tx>>

Answer(a) ==
    /\ asked[a].at = "read"
    /\ snapshot' = [snapshot EXCEPT ![asked[a].customer] =
                      [version |-> asked[a].version, payload |-> asked[a].payload,
                       reason |-> "asked"]]
    /\ asked' = [asked EXCEPT ![a].at = "answered"]
    /\ UNCHANGED <<webhook, rows, nextRow, dunning, changeLog, outbox, sync,
                   replay, content, environment, pc, tx>>

(* A period or a trial of a committed subscription runs out.               *)
TimePasses(r) ==
    /\ rows[r] # NoRow
    /\ \A w \in Workers : Open(w) => tx[w].row # r
    /\ \E field \in {"ends", "trial"} :
         /\ rows[r][field] = "future"
         /\ rows' = [rows EXCEPT ![r] = [@ EXCEPT ![field] = "past"]]
    /\ UNCHANGED <<webhook, nextRow, dunning, snapshot, changeLog, outbox, sync,
                   replay, content, asked, environment, pc, tx>>

Step(w) ==
    \/ Upsert(w) \/ Amend(w) \/ PassOver(w) \/ Recalculate(w)
    \/ FailInHandler(w) \/ FailInRecalculation(w)
    \/ Commit(w) \/ FailInEnqueue(w) \/ FailInSync(w) \/ RollBack(w)
    \/ Reply(w) \/ LoseReply(w)

Next ==
    \/ \E w \in Workers : Step(w)
    \/ \E w \in Workers, e \in Events : Deliver(w, e)
    \/ \E w \in Workers, q \in Replays, e \in Events : ReplayNow(w, q, e)
    \/ \E q \in Replays, e \in Events : RequestReplay(q, e)
    \/ \E o \in Objects, c \in Customers : CreateCheckoutSession(o, c)
    \/ \E a \in Askers, c \in Customers : Ask(a, c)
    \/ \E a \in Askers : Answer(a)
    \/ \E r \in RowIds : TimePasses(r)

Spec == Init /\ [][Next]_vars

(***************************************************************************)
(* Fairness.  A worker that has begun finishes, and the provider goes on   *)
(* delivering an event that it has no 2xx reply for.  Nothing makes an     *)
(* operator replay.                                                        *)
(***************************************************************************)
Fairness ==
    /\ \A w \in Workers : WF_vars(Step(w))
    /\ \A e \in Events : WF_vars(e \notin acked /\ \E w \in Workers : Deliver(w, e))

FairSpec == Spec /\ Fairness

-----------------------------------------------------------------------------
Transaction ==
    [event: Events \union {NoObject}, by: Replays \union {Provider},
     row: 0..MaxRow, record: Row \union {NoRow},
     case: CaseKeys \union {NoCase}, attempts: Nat, customer: Customers \union {NoCustomer},
     payload: SUBSET RowIds, version: Nat]

Snapshot ==
    [version: Nat, payload: SUBSET RowIds, reason: {"none", "webhook", "asked"}]
Question ==
    [at: {"none", "read", "answered"}, customer: Customers \union {NoCustomer},
     payload: SUBSET RowIds, version: Nat]

TypeOK ==
    /\ content \in Histories
    /\ webhook \in [Events -> {"absent", "failed", "processed"}]
    /\ rows \in [RowIds -> Row \union {NoRow}]
    /\ nextRow \in Nat \ {0}
    /\ dunning \in [CaseKeys -> Nat]
    /\ snapshot \in [Customers -> Snapshot]
    /\ \A entry \in changeLog : entry.customer \in Customers /\ entry.version \in Nat
    /\ outbox \subseteq
         [type: {"billing.entitlements.changed"}, key: Customers \X Nat]
           \union [type: {"billing.provider_event.processed"}, key: Events]
    /\ sync \in [status: {"healthy", "degraded", "failing"}, errors: 0..3]
    /\ replay \in [Replays -> {"none", "requested", "replayed", "failed"}]
    /\ asked \in [Askers -> Question]
    /\ \A a \in Askers : asked[a].at = "read" => asked[a].customer \in Customers
    /\ acked \subseteq Events
    /\ tries \in [Events -> Nat]
    /\ faults \in 0..MaxFaults
    /\ pc \in [Workers -> PCs]
    /\ tx \in [Workers -> Transaction]

(***************************************************************************)
(* Safety.                                                                 *)
(***************************************************************************)

(* An event that the provider has a 2xx reply for, and so will not send    *)
(* again, is in the webhook log, whatever crashed in between.              *)
AckedIsLogged == \A e \in Events : e \in acked => webhook[e] # "absent"

(* Touches(e): the handlers return a customer for event e.                 *)
Touches(e) == content[e].type # "other" /\ content[e].customer # NoCustomer

(* The transactional outbox: an event is PROCESSED only together with its  *)
(* billing.provider_event.processed record, however the event's runs       *)
(* interleave, fail and roll back.                                         *)
ProcessedIsAnnounced ==
    \A e \in Events :
        webhook[e] = "processed" /\ Touches(e) => ProviderEventProcessed(e) \in outbox

(* A PROCESSED subscription, invoice or payment event of a known customer  *)
(* (and price) has left a row of its object.                               *)
ProcessedIsStored ==
    \A e \in Events :
        webhook[e] = "processed" /\ StoresRow(content[e])
            => \E r \in RowIds : rows[r] # NoRow /\ rows[r].object = content[e].object

(* The dunning cases of an invoice: one for each of its rows and each      *)
(* subscription row it was filed under.                                    *)
AttemptsOn(o) == SumFunctionOnSet(dunning, {k \in CaseKeys : k[2] \in RowsOf(o)})

(* IsFailure(e): event e reports a failed payment of a customer we know.   *)
IsFailure(e) ==
    content[e].type = "invoice.payment_failed" /\ content[e].customer # NoCustomer
CountedFailures(o) ==
    {e \in Events : IsFailure(e) /\ content[e].object = o /\ webhook[e] = "processed"}

(* Every PROCESSED payment failure is counted in a dunning case of its     *)
(* invoice: no concurrent run of another failure overwrites the count.     *)
NoFailureIsForgotten ==
    \A o \in Objects : AttemptsOn(o) >= Cardinality(CountedFailures(o))

(* Nothing fails: no run has ended in FAILED.                              *)
NothingFails == \A e \in Events : webhook[e] # "failed"

(* Nothing disturbs a recalculation: no two runs of one customer are       *)
(* between their recalculation and their end at once, and nobody else has  *)
(* a snapshot recalculated.                                                *)
Undisturbed ==
    /\ \A a \in Askers : asked[a].at # "answered"
    /\ \A v, w \in Workers :
         /\ pc[v] = "recalculated" /\ pc[w] = "recalculated"
         /\ tx[v].customer = tx[w].customer
         => v = w

(* The provider names one customer in all the events of an object.         *)
ObjectsHaveOneCustomer ==
    \A e, f \in Events :
        /\ content[e] # NoEvent /\ content[f] # NoEvent
        /\ content[e].object = content[f].object
        => content[e].customer = content[f].customer

(* The dunning cases count each PROCESSED payment failure once, however    *)
(* often it was delivered or replayed, and at whatever time.               *)
CountedOnce ==
    \A o \in Objects : AttemptsOn(o) = Cardinality(CountedFailures(o))

AppliedTo(c) ==
    {e \in Events : /\ webhook[e] = "processed"
                    /\ Touches(e)
                    /\ content[e].customer = c}

(* Each PROCESSED event has been applied exactly once: a snapshot's version *)
(* counts its customer's applied events, the dunning cases count the       *)
(* failed payments.                                                        *)
AppliedExactlyOnce ==
    /\ \A c \in Customers : snapshot[c].version = Cardinality(AppliedTo(c))
    /\ CountedOnce

(* Behaviours: while nothing fails and nothing disturbs a recalculation,   *)
(* every event is applied exactly once, however often it was delivered or  *)
(* replayed, and in whatever order.                                        *)
AppliedOnceUnlessDisturbed ==
    ObjectsHaveOneCustomer /\ []NothingFails /\ []Undisturbed => []AppliedExactlyOnce

(* A snapshot that a provider event left for product applications is one   *)
(* that the change log holds under its version, and that version was       *)
(* announced, whatever a recalculation without a log did before or since.  *)
SnapshotIsLogged ==
    \A c \in Customers : snapshot[c].reason = "webhook" =>
        /\ [customer |-> c, version |-> snapshot[c].version,
            payload |-> snapshot[c].payload] \in changeLog
        /\ [type |-> "billing.entitlements.changed",
            key |-> <<c, snapshot[c].version>>] \in outbox

(* What downstream applications were told of has happened: an announced    *)
(* event is in the log, and an announced upsert has left a row of its      *)
(* object and a recalculation of its customer in the change log - also     *)
(* when the run failed after the announcement, or a later one did.         *)
AnnouncedIsApplied ==
    \A e \in Events : ProviderEventProcessed(e) \in outbox =>
        /\ webhook[e] # "absent"
        /\ StoresRow(content[e]) =>
             \E r \in RowIds : rows[r] # NoRow /\ rows[r].object = content[e].object
        /\ content[e].type \in Upserts =>
             \E entry \in changeLog : entry.customer = content[e].customer

(* Steps: the step that makes an event PROCESSED leaves the row its run    *)
(* wrote in the customer's snapshot exactly when the row grants: a         *)
(* cancellation revokes and a new subscription grants, though row and      *)
(* snapshot are written by different calls with other runs between them.   *)
SnapshotReflectsRun ==
    [][\A w \in Workers :
        /\ Open(w) /\ tx[w].row # 0
        /\ pc'[w] = "replying" /\ webhook'[tx[w].event] = "processed"
        => (tx[w].row \in snapshot'[tx[w].customer].payload <=> Grants(rows'[tx[w].row]))]_vars

(* The provider's deliveries form an at-least-once queue whose consumer is *)
(* the webhook log: an event is queued from its first delivery until its   *)
(* 2xx reply, it is accepted once it is logged, and it leaves the queue    *)
(* only then, whatever crashed, was rolled back or was answered in between. *)
DeliveryState ==
    [e \in Events |-> IF e \in acked THEN "done"
                     ELSE IF tries[e] = 0 THEN "absent" ELSE "queued"]
Logged == {e \in Events : webhook[e] # "absent"}
Delivery == INSTANCE AtLeastOnceQueue
              WITH Items <- Events, state <- DeliveryState, accepted <- Logged
DeliveryIsAQueue == Delivery!Spec

(***************************************************************************)
(* Liveness, under FairSpec: every event the provider emits reaches the    *)
(* log and is acknowledged, in spite of crashes and lost replies.          *)
(***************************************************************************)
EveryEventIsAcked == \A e \in Events : content[e] # NoEvent ~> e \in acked

=============================================================================
