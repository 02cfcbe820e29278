------------------------ MODULE BillingSubscriptions ------------------------
(***************************************************************************)
(* What staff and the billing pages do to the subscriptions of a customer: *)
(* grants, change requests applied here and at Stripe, add-ons and         *)
(* entitlement rows, the cached entitlement snapshot, checkout and portal  *)
(* sessions; and the webhooks that bring what Stripe holds.  Only a webhook*)
(* locks a row; applying a change is a Stripe call and three commits.      *)
(***************************************************************************)
EXTENDS Requests, Sequences, Entitlements

CONSTANTS
    StripeSubs,     \* the subscriptions Stripe knows
    LocalSubs,      \* the rows staff may grant
    Plans, Quantities, AddOns,
    EventEnds       \* the current_period_end of Stripe's events, "never" for none

ASSUME SomePlan == Plans # {}
ASSUME EndsAreSeen == EventEnds \subseteq {"never", "future"}

VARIABLES
    subscription,   \* the Subscription rows, NoSubscription before a grant
    atStripe,       \* Stripe's copy: quantity, cancelAtEnd, cancelled
    copies,         \* history: the states Stripe's copy has had
    changes,        \* the SubscriptionChangeRequest rows
    entitlements,   \* how many entitlement rows each plan, row and add-on has
    addOns,         \* quantity of each add-on attached to each row, 0 for none
    cached,         \* the EntitlementSnapshot: payload and validity
    customerId,     \* provider_customer_id, 0 when blank
    sessions,       \* the CheckoutSession and CustomerPortalSession rows
    stripeCustomers,\* how many customers Stripe was asked to create
    since,          \* history: the payloads of the rows since staff were last told
                    \*   that an add-on or a change is in force
    fresh           \* history: the cached payload was the rows' when it was stored

stripeVars == <<atStripe, copies>>
pageVars == <<customerId, sessions, stripeCustomers>>
rowVars == <<subscription, entitlements, addOns>>
cacheVars == <<cached, fresh>>
subVars == <<rowVars, stripeVars, changes, cacheVars, since, pageVars>>

Subs == StripeSubs \cup LocalSubs
Owners == ({"plan"} \X Plans) \cup ({"subscription"} \X Subs) \cup ({"add-on"} \X AddOns)
NoSubscription == [status |-> "none"]

Targets(action) ==
    CASE action = "change_plan"     -> Plans
      [] action = "change_quantity" -> Quantities
      [] action \in {"extend_trial", "extend_grace"} -> {"past", "future"}
      [] OTHER                      -> {"none"}
ChangeActions == {"change_plan", "change_quantity", "cancel_at_period_end", "cancel_now",
                  "resume", "extend_trial", "extend_grace"}
StripeActions == {"change_quantity", "cancel_at_period_end", "cancel_now", "resume"}
ChangeStatuses == {"pending", "applied", "failed"}

Bought(plan, status, ends) ==
    [plan |-> plan, status |-> status, ends |-> ends, trial |-> "never",
     grace |-> "never", quantity |-> 1, cancelAtEnd |-> FALSE]

Subscription ==
    [plan: Plans, status: SubscriptionStatuses, ends: When, trial: When, grace: When,
     quantity: Quantities \cup {1}, cancelAtEnd: BOOLEAN]
StripeSubscription ==
    [quantity: Quantities \cup {1}, cancelAtEnd: BOOLEAN, cancelled: BOOLEAN]
SubscriptionChangeRequest(action) ==
    [sub: Subs, action: {action}, target: Targets(action), skip: BOOLEAN,
     status: ChangeStatuses]
SubscriptionAddOn == Quantities \cup {0}
PayloadLine ==
    [sub: Subs, plan: Plans, status: SubscriptionStatuses, features: SUBSET (Owners \X Nat),
     addOns: SUBSET (AddOns \X Quantities \X Nat)]
EntitlementSnapshot == [payload: SUBSET PayloadLine, valid: BOOLEAN]
BillingCustomer == 0 .. stripeCustomers      \* by provider_customer_id
Page == [kind: {"checkout", "portal"}, customer: Nat \ {0}]

SubTypes ==
    /\ subscription \in [Subs -> Subscription \cup {NoSubscription}]
    /\ atStripe \in [StripeSubs -> StripeSubscription]
    /\ copies \in [StripeSubs -> SUBSET StripeSubscription]
    /\ entitlements \in [Owners -> Nat]
    /\ \A c \in DOMAIN changes : changes[c] \in SubscriptionChangeRequest(changes[c].action)
    /\ addOns \in [Subs -> [AddOns -> SubscriptionAddOn]]
    /\ cached \in EntitlementSnapshot
    /\ customerId \in BillingCustomer
    /\ sessions \subseteq Page
    /\ \A p \in sessions : p.customer <= stripeCustomers
    /\ since \subseteq SUBSET PayloadLine /\ fresh \in BOOLEAN

-----------------------------------------------------------------------------
(* build_customer_entitlements_with_addons, by what it is computed from:   *)
(* the granting rows with the entitlement rows of their plan, their own,   *)
(* and those of the add-ons they have.                                     *)
Granting(rows) == {s \in Subs : rows[s] # NoSubscription /\ Grants(rows[s])}
Attached(s) == {a \in AddOns : addOns[s][a] # 0}
PayloadOf(rows) ==
    {[sub |-> s, plan |-> rows[s].plan, status |-> rows[s].status,
      features |-> {<<o, entitlements[o]>> : o \in {<<"plan", rows[s].plan>>,
                                                    <<"subscription", s>>}},
      addOns |-> {<<a, addOns[s][a], entitlements[<<"add-on", a>>]>> : a \in Attached(s)}]
     : s \in Granting(rows)}
Payload == PayloadOf(subscription)

StripePlan == CHOOSE p \in Plans : TRUE      \* the plan of the price Stripe bills

SubInit ==
    /\ subscription = [s \in Subs |->
          IF s \in StripeSubs THEN Bought(StripePlan, "active", "never") ELSE NoSubscription]
    /\ atStripe = [s \in StripeSubs |-> [quantity |-> 1, cancelAtEnd |-> FALSE,
                                         cancelled |-> FALSE]]
    /\ copies = [s \in StripeSubs |-> {atStripe[s]}]
    /\ changes = <<>>
    /\ entitlements = [o \in Owners |-> IF o[1] = "subscription" THEN 0 ELSE 1]
    /\ addOns = [s \in Subs |-> [a \in AddOns |-> 0]]
    /\ cached = [payload |-> {}, valid |-> FALSE] /\ fresh = FALSE
    /\ customerId = 0 /\ sessions = {} /\ stripeCustomers = 0
    /\ since = {Payload}

Valid == cached.valid
Invalidated == [cached EXCEPT !.valid = FALSE]

(* What the rows grant is one thing more they have granted; or, once staff *)
(* are told of an add-on or a change, all that may still be served.        *)
Regranted == since' = since \cup {Payload'}
Promised == since' = {Payload'}

(* grant_manual_subscription: one transaction; the snapshot stays as it is.*)
GrantManual(s, plan, status, ends) ==
    /\ subscription[s] = NoSubscription /\ Serve
    /\ subscription' = [subscription EXCEPT ![s] = Bought(plan, status, ends)]
    /\ UNCHANGED <<entitlements, addOns, stripeVars, changes, cacheVars, pageVars>>
    /\ Regranted

(* A POST of staff to the entitlements of a plan, a row or an add-on: the  *)
(* snapshot stays as it is.                                                *)
CreateEntitlement(o) ==
    /\ Serve
    /\ o[1] = "subscription" => subscription[o[2]] # NoSubscription
    /\ entitlements' = [entitlements EXCEPT ![o] = @ + 1]
    /\ UNCHANGED <<subscription, addOns, stripeVars, changes, cacheVars, pageVars>>
    /\ Regranted

KeepSnapshot == cached               \* slip: the snapshot is not invalidated
AfterAddOn == Invalidated

AttachAddOn(s, a, quantity) ==
    /\ subscription[s] # NoSubscription /\ Serve
    /\ addOns' = [addOns EXCEPT ![s][a] = quantity]
    /\ cached' = AfterAddOn
    /\ UNCHANGED <<subscription, entitlements, stripeVars, changes, fresh, pageVars>>
    /\ Promised

(* A period or a trial ends, while no request holds the row: nothing is    *)
(* told.                                                                   *)
HeldRow(w) == CASE Holds(w, "apply")   -> {changes[request[w].change].sub}
                [] Holds(w, "webhook") -> {request[w].sub}
                [] OTHER               -> {}

PeriodEnds(s) ==
    /\ subscription[s] # NoSubscription /\ Serve
    /\ \A w \in Workers : s \notin HeldRow(w)
    /\ \/ /\ subscription[s].ends = "future"
          /\ subscription' = [subscription EXCEPT ![s].ends = "past"]
       \/ /\ subscription[s].trial = "future"
          /\ subscription' = [subscription EXCEPT ![s].trial = "past"]
       \/ /\ subscription[s].grace = "future"
          /\ subscription' = [subscription EXCEPT ![s].grace = "past"]
    /\ UNCHANGED <<entitlements, addOns, stripeVars, changes, cacheVars, pageVars>>
    /\ Regranted

(* recalculate_entitlement_snapshot, asked by staff at any time and by the *)
(* snapshot read when it finds no valid one: the rows are read before the  *)
(* snapshot is locked.  A payload with a date is not saved.                *)
Encodable(rows) == IsEncodable({rows[s] : s \in Granting(rows)})

ReadRows(w) ==
    /\ Encodable(subscription)
    /\ Begin(w, [op |-> "recalculate", payload |-> Payload])
    /\ UNCHANGED subVars

StoreSnapshot(w) ==
    /\ Holds(w, "recalculate")
    /\ cached' = [payload |-> request[w].payload, valid |-> TRUE]
    /\ fresh' = (request[w].payload = Payload)
    /\ End(w)
    /\ UNCHANGED <<rowVars, stripeVars, changes, since, pageVars>>

-----------------------------------------------------------------------------
(* Stripe's copy, as Stripe answers a call: what is cancelled there can no *)
(* longer be modified.                                                     *)
CopyAfter(copy, action, target) ==
    CASE action = "change_quantity"      -> [copy EXCEPT !.quantity = target]
      [] action = "cancel_at_period_end" -> [copy EXCEPT !.cancelAtEnd = TRUE]
      [] action = "cancel_now"           -> [copy EXCEPT !.cancelled = TRUE]
      [] OTHER                           -> [copy EXCEPT !.cancelAtEnd = FALSE]

StripeDoes(s, action, target) ==
    LET copy == CopyAfter(atStripe[s], action, target) IN
    /\ ~ atStripe[s].cancelled
    /\ atStripe' = [atStripe EXCEPT ![s] = copy]
    /\ copies' = [copies EXCEPT ![s] = @ \cup {copy}]

(* The customer in Stripe's portal, or Stripe itself.                      *)
StripeChanges(s, action, target) ==
    /\ Serve
    /\ StripeDoes(s, action, target)
    /\ UNCHANGED <<rowVars, changes, cacheVars, since, pageVars>>

(* The row a webhook writes: a deletion saves status and end, an upsert the*)
(* columns Stripe has.                                                     *)
RowFrom(row, copy, deleted, ends) ==
    IF deleted
    THEN [row EXCEPT !.status = "cancelled", !.ends = IF ends = "never" THEN @ ELSE ends]
    ELSE [row EXCEPT !.plan = StripePlan, !.ends = ends, !.trial = "never",
                     !.status = IF copy.cancelled THEN "cancelled" ELSE "active",
                     !.quantity = copy.quantity, !.cancelAtEnd = copy.cancelAtEnd]

RowIsFree(s) == \A w \in Workers : Holds(w, "webhook") => request[w].sub # s

(* process_stripe_event up to the read of its recalculation: any state of  *)
(* the copy may be the one told, and the row stays locked.                 *)
TakeEvent(w, s, copy, deleted, ends) ==
    /\ RowIsFree(s)
    /\ deleted => copy.cancelled
    /\ LET row == RowFrom(subscription[s], copy, deleted, ends)
           rows == [subscription EXCEPT ![s] = row]
       IN  TakeUp(w, [op |-> "webhook", sub |-> s, row |-> row, payload |-> PayloadOf(rows),
                      saves |-> Encodable(rows)])
    /\ UNCHANGED subVars

(* The end of the webhook: PROCESSED with the snapshot, or FAILED, when the*)
(* recalculation raises, with the row alone.                               *)
CommitEvent(w, processed) ==
    /\ Holds(w, "webhook")
    /\ subscription' = [subscription EXCEPT ![request[w].sub] = request[w].row]
    /\ End(w)
    /\ UNCHANGED <<entitlements, addOns, stripeVars, changes, pageVars>>
    /\ IF processed
       THEN /\ request[w].saves
            /\ cached' = [payload |-> request[w].payload, valid |-> TRUE]
            /\ fresh' = (request[w].payload = Payload')
       ELSE UNCHANGED cacheVars
    /\ Regranted

-----------------------------------------------------------------------------
RequestChange(s, action, target, skip) ==
    /\ subscription[s] # NoSubscription /\ Serve
    /\ skip => s \in StripeSubs /\ action \in StripeActions
    /\ changes' = Append(changes, [sub |-> s, action |-> action, target |-> target,
                                   skip |-> skip, status |-> "pending"])
    /\ UNCHANGED <<rowVars, stripeVars, cacheVars, since, pageVars>>

NeedsStripe(c) ==
    /\ changes[c].sub \in StripeSubs /\ ~ changes[c].skip
    /\ changes[c].action \in StripeActions

(* The branches of apply_subscription_change, on the row it read.          *)
Changed(row, c) ==
    LET action == changes[c].action
        target == changes[c].target
    IN  CASE action = "change_plan"          -> [row EXCEPT !.plan = target]
          [] action = "change_quantity"      -> [row EXCEPT !.quantity = target]
          [] action = "cancel_at_period_end" -> [row EXCEPT !.cancelAtEnd = TRUE]
          [] action = "cancel_now" -> [row EXCEPT !.status = "cancelled", !.ends = "past"]
          [] action = "resume" ->
                [row EXCEPT !.cancelAtEnd = FALSE,
                            !.status = IF @ \in {"cancelled", "expired", "paused"}
                                       THEN "active" ELSE @]
          [] action = "extend_trial" -> [row EXCEPT !.status = "trialing", !.trial = target]
          [] OTHER -> [row EXCEPT !.grace = target]

StripeFirst == <<"stripe", "save", "mark", "invalidate">>
SaveFirst == <<"save", "stripe", "mark", "invalidate">>   \* slip: Stripe is told afterwards
ApplyOrder == StripeFirst

(* ApplySubscriptionChangeView: any change, whatever its status.           *)
StartApply(w, c) ==
    /\ Begin(w, [op |-> "apply", change |-> c, row |-> subscription[changes[c].sub], at |-> 1])
    /\ UNCHANGED subVars

NextStep(w, step) == Holds(w, "apply") /\ ApplyOrder[request[w].at] = step
GoOn(w) == Proceed(w, [request[w] EXCEPT !.at = @ + 1])

AskStripe(c) == StripeDoes(changes[c].sub, changes[c].action, changes[c].target)

StripeAccepts(w) ==
    /\ NextStep(w, "stripe")
    /\ IF NeedsStripe(request[w].change) THEN AskStripe(request[w].change)
                                        ELSE UNCHANGED stripeVars
    /\ GoOn(w)
    /\ UNCHANGED <<rowVars, changes, cacheVars, since, pageVars>>

(* The call raises, before or after its effect at Stripe: the view marks   *)
(* the change FAILED.                                                      *)
StripeFails(w, late) ==
    /\ NextStep(w, "stripe")
    /\ NeedsStripe(request[w].change)
    /\ IF late THEN AskStripe(request[w].change) ELSE UNCHANGED stripeVars
    /\ changes' = [changes EXCEPT ![request[w].change].status = "failed"]
    /\ End(w)
    /\ UNCHANGED <<rowVars, cacheVars, since, pageVars>>

(* subscription.save(): every column, from the row read at the start.      *)
SaveSubscription(w) ==
    /\ NextStep(w, "save")
    /\ LET c == request[w].change IN
        /\ RowIsFree(changes[c].sub)
        /\ subscription' = [subscription EXCEPT ![changes[c].sub] = Changed(request[w].row, c)]
    /\ GoOn(w)
    /\ UNCHANGED <<entitlements, addOns, stripeVars, changes, cacheVars, pageVars>>
    /\ Regranted

MarkApplied(w) ==
    /\ NextStep(w, "mark")
    /\ changes' = [changes EXCEPT ![request[w].change].status = "applied"]
    /\ GoOn(w)
    /\ UNCHANGED <<rowVars, stripeVars, cacheVars, since, pageVars>>

InvalidateSnapshot(w) ==
    /\ NextStep(w, "invalidate")
    /\ cached' = Invalidated
    /\ End(w)
    /\ UNCHANGED <<rowVars, stripeVars, changes, fresh, pageVars>>
    /\ Promised

Die(w) ==
    /\ Abandon(w)
    /\ UNCHANGED subVars

-----------------------------------------------------------------------------
(* CreateCheckoutSessionView and CreateCustomerPortalSessionView: the      *)
(* customer at Stripe, the session at Stripe, the row.                     *)
OpenPage(w, kind) ==
    /\ Begin(w, [op |-> "page", kind |-> kind, customer |-> customerId, stored |-> customerId # 0])
    /\ UNCHANGED subVars

EnsureCustomer(w) ==
    /\ Holds(w, "page") /\ request[w].customer = 0
    /\ stripeCustomers' = stripeCustomers + 1
    /\ Proceed(w, [request[w] EXCEPT !.customer = stripeCustomers + 1])
    /\ UNCHANGED <<rowVars, stripeVars, changes, cacheVars, since, customerId, sessions>>

SaveCustomer(w) ==
    /\ Holds(w, "page") /\ request[w].customer # 0 /\ ~ request[w].stored
    /\ customerId' = request[w].customer
    /\ Proceed(w, [request[w] EXCEPT !.stored = TRUE])
    /\ UNCHANGED <<rowVars, stripeVars, changes, cacheVars, since, sessions, stripeCustomers>>

StoreSession(w) ==
    /\ Holds(w, "page") /\ request[w].stored
    /\ sessions' = sessions \cup {[kind |-> request[w].kind, customer |-> request[w].customer]}
    /\ End(w)
    /\ UNCHANGED <<rowVars, stripeVars, changes, cacheVars, since, customerId, stripeCustomers>>

PageNext ==
    \E w \in Workers :
        \/ \E kind \in {"checkout", "portal"} : OpenPage(w, kind)
        \/ EnsureCustomer(w) \/ SaveCustomer(w) \/ StoreSession(w)

ChangeNext ==
    \/ \E s \in LocalSubs, p \in Plans, ends \in {"never", "future"} :
        GrantManual(s, p, "free", ends)
    \/ \E o \in Owners : CreateEntitlement(o)
    \/ \E s \in Subs :
        \/ PeriodEnds(s)
        \/ \E a \in AddOns, q \in Quantities : AttachAddOn(s, a, q)
        \/ \E action \in ChangeActions : \E t \in Targets(action), skip \in BOOLEAN :
            RequestChange(s, action, t, skip)
    \/ \E s \in StripeSubs, action \in StripeActions : \E t \in Targets(action) :
        StripeChanges(s, action, t)
    \/ \E w \in Workers :
        \/ ReadRows(w) \/ StoreSnapshot(w)
        \/ \E s \in StripeSubs : \E copy \in copies[s], deleted \in BOOLEAN,
            ends \in EventEnds : TakeEvent(w, s, copy, deleted, ends)
        \/ \E processed \in BOOLEAN : CommitEvent(w, processed)
        \/ \E c \in DOMAIN changes : StartApply(w, c)
        \/ StripeAccepts(w) \/ SaveSubscription(w) \/ MarkApplied(w)
        \/ InvalidateSnapshot(w) \/ Die(w)
        \/ \E late \in BOOLEAN : StripeFails(w, late)

SubNext == ChangeNext \/ PageNext

SubSpec == RequestsInit /\ SubInit /\ [][SubNext]_<<requestVars, subVars>>

-----------------------------------------------------------------------------
Shows(copy, c) ==
    CASE changes[c].action = "change_quantity"      -> copy.quantity = changes[c].target
      [] changes[c].action = "cancel_at_period_end" -> copy.cancelAtEnd
      [] changes[c].action = "cancel_now"           -> copy.cancelled
      [] OTHER                                      -> ~ copy.cancelAtEnd
Mirrored(c) == NeedsStripe(c) => \E copy \in copies[changes[c].sub] : Shows(copy, c)

Skipped(s, action) ==
    {c \in DOMAIN changes : changes[c].sub = s /\ changes[c].action = action /\ changes[c].skip}
IsFromStripe(s, row) ==
    /\ \/ \E copy \in copies[s] : copy.quantity = row.quantity
       \/ \E c \in Skipped(s, "change_quantity") : changes[c].target = row.quantity
    /\ row.cancelAtEnd =>
          (\E copy \in copies[s] : copy.cancelAtEnd) \/ Skipped(s, "cancel_at_period_end") # {}
    /\ row.status = "cancelled" =>
          (\E copy \in copies[s] : copy.cancelled) \/ Skipped(s, "cancel_now") # {}

(* Stripe owns the quantity and the cancellation of its subscriptions:     *)
(* whatever fails, dies, overlaps or arrives late, a change of them is     *)
(* APPLIED only after Stripe's copy has shown it, and the row never says   *)
(* what that copy has not said before, unless skip_provider_sync asked for *)
(* it.  Plan, trial and grace are changed here alone, Stripe is not asked. *)
ProviderColumnsCameFromStripe ==
    /\ \A c \in DOMAIN changes : changes[c].status = "applied" => Mirrored(c)
    /\ \A s \in StripeSubs : IsFromStripe(s, subscription[s])

(* Once staff are told that an add-on is attached or a change applied, no  *)
(* payload from before is served, except one a recalculation read before   *)
(* and stored after.  Grants, entitlement rows, webhooks that FAILED and   *)
(* the passing of time tell nobody: a payload from before them stays.      *)
SnapshotKeepsPromises == Valid /\ fresh => cached.payload \in since
=============================================================================
