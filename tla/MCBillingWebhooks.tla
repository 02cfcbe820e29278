------------------------- MODULE MCBillingWebhooks -------------------------
(***************************************************************************)
(* Instances of BillingWebhooks for TLC: the events of each run, and the   *)
(* properties that compare a whole history of deliveries with the tables.  *)
(***************************************************************************)
EXTENDS BillingWebhooks, TLC

WorkerSymmetry == Permutations(Workers)

Subscription(type, object, status, ends) ==
    [type |-> type, customer |-> "cus", object |-> object, status |-> status,
     ends |-> ends, trial |-> "never", parent |-> NoObject, priced |-> TRUE]
Other(type, object, status, parent) ==
    [type |-> type, customer |-> "cus", object |-> object, status |-> status,
     ends |-> "never", trial |-> "never", parent |-> parent, priced |-> FALSE]

Created(object, ends) ==
    Subscription("customer.subscription.created", object, "active", ends)
Trial ==
    [Subscription("customer.subscription.created", "sub1", "trialing", "never")
       EXCEPT !.trial = "future"]
Updated(object, ends) ==
    Subscription("customer.subscription.updated", object, "active", ends)
Deleted(object) ==
    Subscription("customer.subscription.deleted", object, "canceled", "never")
PaymentFailed(invoice, parent) ==
    Other("invoice.payment_failed", invoice, "open", parent)

ObjectNames == {"sub1", "sub2", "inv", "pay", "cs"}

(* A history emits the events of a record, and no other.                   *)
Emits(events) ==
    [e \in Events |-> IF e \in DOMAIN events THEN events[e] ELSE NoEvent]

(* A subscription and a failed payment of its invoice.                     *)
Racing == Emits(
    [created |-> Created("sub1", "never"),
     failed  |-> PaymentFailed("inv", "sub1")])

(* One subscription's life.  Its second period ends, so that the customer's *)
(* snapshot can no longer be saved until the subscription is cancelled.    *)
Life == Emits(
    [created |-> Created("sub1", "never"),
     updated |-> Updated("sub1", "future"),
     deleted |-> Deleted("sub1")])

(* An invoice and two failures to pay it.                                  *)
Failures == Emits(
    [finalized |-> Other("invoice.finalized", "inv", "open", "sub1"),
     failed    |-> PaymentFailed("inv", "sub1"),
     failed2   |-> PaymentFailed("inv", "sub1")])

(* A checkout that completes, a trial that lapses.                         *)
Checkout == Emits(
    [completed |-> Other("checkout.session.completed", "cs", "open", NoObject),
     trial     |-> Trial])

(* A history of two events.                                                *)
Two(first, second) == Emits([first |-> first, second |-> second])
TwoEvents == {"first", "second"}

(* A dated subscription and a failed payment of its customer's invoice,    *)
(* neither of which can be processed; a subscription that ends; two        *)
(* failures of one invoice; a payment and its refund; an unknown price and *)
(* an event no handler knows.                                              *)
Dunned == Two(Created("sub1", "future"), PaymentFailed("inv", "sub1"))
Ended == Two(Created("sub1", "never"), Deleted("sub1"))
Declined == Two(PaymentFailed("inv", "sub1"), PaymentFailed("inv", "sub1"))
Money == Two(Other("payment_intent.succeeded", "pay", "open", NoObject),
             Other("charge.refunded", "pay", "open", NoObject))
Unhandled == Two([Updated("sub2", "never") EXCEPT !.priced = FALSE],
                 Other("other", "sub1", "open", NoObject))

RaceEvents ==
    {"created", "updated", "deleted", "finalized", "failed", "failed2",
     "completed", "trial"}
RaceHistories == {Racing, Life, Failures, Checkout}
LiveHistories == {Dunned, Ended, Declined, Money, Unhandled}

OneEvent == {"created"}
DatedHistory == {Emits([created |-> Created("sub1", "future")])}
PairHistory ==
    {Emits([first |-> Created("sub1", "never"), second |-> Created("sub2", "never")])}
TwinHistory ==
    {Emits([first |-> Created("sub1", "never"), second |-> Updated("sub1", "never")])}
OrderHistory ==
    {Emits([first |-> Created("sub1", "never"), second |-> Deleted("sub1")])}

-----------------------------------------------------------------------------
Emitted(e) == content[e] # NoEvent
Quiet == \A w \in Workers : ~ Open(w)

(* "Stripe webhook processing now updates entitlement snapshots after      *)
(* provider events": when no run is open and every event of a customer has *)
(* been logged, the snapshot lists exactly the granting subscriptions.     *)
SnapshotFollowsEvents ==
    Quiet /\ (\A e \in Events : Emitted(e) => webhook[e] # "absent") =>
        \A c \in Customers : snapshot[c].payload = GrantingRows(rows, c)

(* "Subscription.objects.get(provider, provider_subscription_id)": a       *)
(* provider object has one row.                                            *)
OneRowPerObject == \A o \in Objects : Cardinality(RowsOf(o)) <= 1

(* "Provider webhooks remain the source of truth for provider-owned        *)
(* subscriptions": once every event is PROCESSED, a subscription that the  *)
(* provider deleted is cancelled here.                                     *)
DeletedStaysCancelled ==
    Quiet /\ (\A e \in Events : Emitted(e) => webhook[e] = "processed") =>
        \A e \in Events : content[e].type = "customer.subscription.deleted" =>
            \A r \in RowsOf(content[e].object) : rows[r].status = "cancelled"
=============================================================================
