# auth_payment: specification, model checking and proofs

This directory holds TLA+ modules that model the Django service in `src/`, the
TLC configurations that check them on small instances, and theorems about them
that TLAPS proves for every value of the constants. Paths below are relative to
`src/`.

1. [The system](#1-the-system) - components, state, operations, what makes each correct
2. [What is modelled](#2-what-is-modelled) - modules and how they correspond to the code
3. [Runs](#3-runs) - what each configuration checks and shows, and its bounds
4. [Fairness](#4-fairness)
5. [Proofs](#5-proofs)
6. [Divergences](#6-divergences-between-the-code-and-what-is-said-of-it)
7. [Abstractions and assumptions](#7-abstractions-and-assumptions)
8. [Plan](#8-plan)
9. [Not modelled](#9-not-modelled)

## 1. The system

A Django 5.2 / DRF project (Python 3.12, PostgreSQL, Celery, Redis) that gives
product applications accounts, organizations, OAuth and Stripe billing. Several
gunicorn workers and Celery workers run the same code against one database at
READ COMMITTED. `ATOMIC_REQUESTS` is not set, so each `save()` outside a
`transaction.atomic` block is a commit of its own. There is no Celery beat
schedule: dispatchers run when an operator or cron starts them.

The components interact through database rows and direct calls:

    Stripe --webhook--> billing.webhooks --> billing rows, dunning cases
                              |---------> entitlement snapshot + change log
                              '---------> billing outbox --dispatch--> hook
    staff --> billing.services (changes, refunds, credit notes, grants)
                              '--provider calls--> Stripe
    product app --> entitlement snapshot read, usage records, product access
    user --> accounts (tokens, MFA, OAuth codes, deletion, organizations)
    any app --> notifications (event, deliveries, attempts), velocity rules
    directory --> SCIM users and groups; staff --> approvals, retention jobs

### Components

| Component | State | Operations | Hard part | Correct when |
|---|---|---|---|---|
| **Stripe webhooks and replay** `billing/webhooks.py`, `services.py` 372-443, 495-554, `views.py` 240-290, 515-575 | `BillingWebhookEvent`, provider-object rows, `DunningCase`, snapshot, change log, outbox, `ProviderSyncState`, `WebhookReplayRequest` | process event, replay, checkout creation | deliveries repeat and come in any order; workers interleave between a transaction's reads and writes; a handler's error is caught inside the transaction and what it wrote is committed | nothing acknowledged is lost, nothing processed is unannounced, what products read is what was logged |
| **Entitlement rules and snapshot** `billing/services.py` 48-72, 127-148, 405-423, 533-554, `models.py` 150-192 | `EntitlementSnapshot`, `EntitlementChangeLog` | build, recalculate with and without log, invalidate, read | the version is read without a lock; time passing and manual grants do not invalidate; the API read recalculates without a log row | a product never keeps features of an ended subscription |
| **Subscription changes, add-ons** `services.py` 75-200, 384-402 | `SubscriptionChangeRequest`, `SubscriptionAddOn`, subscription | request, apply, attach, grant | provider call first, then separate commits of whole rows | a change marked APPLIED has been at the provider, and the row says nothing Stripe has never said |
| **Outbox dispatcher** `services.py` 425-478, `tasks.py` | `BillingOutboxEvent` | enqueue, dispatch, retry | skip_locked selection by several dispatchers, crash before commit | each event is delivered at least once, attempts bounded |
| **Refunds, credit notes, discounts, usage records** `services.py` 100-112, 203-353 | `RefundRequest`, `CreditNote`, `DiscountRedemption`, `UsageRecord` | review, issue, redeem, record | provider refund inside a transaction, counter without a lock, check before idempotency | marked refunded means paid back, numbers have no gaps, limits hold |
| **Billing REST views** `billing/views.py` | - | endpoints over the above | the webhook answers 200 to a FAILED event | as above |
| **Stripe client** `billing/stripe_client.py` | - | HTTP calls | external | - |
| **Usage billing** `usage_billing/services.py` | usage events, windows, lines, credit grants | ingest, aggregate, rate, apply credits, finalize | each step can be repeated in any state | every cent a grant lost is on record, and a line is its price less the credits it shows |
| **Tax and pricing** `tax_pricing/services.py` | tax profiles, prices | quotes | rounding | sums agree |
| **Product access** `business_rules/services.py` | access overrides, decisions, usage | check, record | check-then-record by concurrent callers | limits hold |
| **Account tokens** `accounts/tokens.py`, `serializers.py` | token rows | issue, validate, use | validation outside the transaction of use | nobody finds a used token usable (requests that overlap share one: section 6) |
| **Sessions, MFA, refresh tokens** `accounts/serializers.py` 120-350, 640-670 | MFA devices, recovery codes, refresh families | login, set up, confirm, rotate, revoke | concurrent use of one code | MFA is on only with codes, and nobody finds a used one usable |
| **OAuth codes, service tokens** `accounts/oauth.py`, `serializers.py` 470-540 | clients, codes, activities | authorize, exchange, revoke | lookup outside the transaction | a code is exchanged once: not so, run `codes` |
| **Privacy** `accounts/privacy.py`, `serializers.py` 760-802 | deletion requests, exports, consents | request, confirm, cancel | several requests of one account | a closed account was closed on a confirmed request |
| **Organizations** `accounts/tenancy.py`, `serializers.py` 870-960, `views.py` 700-740 | organizations, memberships, invitations | invite, accept, change role, remove | invitation accepted over an existing membership | an accepted invitation made a member (that an owner remains is not so: section 6) |
| **Notifications** `notifications/services.py` | events, deliveries, attempts | enqueue, dispatch | two workers take one delivery | a suppression is respected (a delivery can be sent twice: section 6) |
| **Admin integration, admin console, customer portal, operations** | request audits, bulk jobs, cases, maintenance rows | signed staff API, records | bookkeeping | - |
| **OIDC provider** `oidc_provider/` | signing keys, scopes, trust profiles, consents | life cycle calls, PATCH of a row, consent evaluation | an evaluation reads three tables at three moments | nothing is granted that nobody consented to |
| **SCIM** `scim_provisioning/` | application, directory users, groups, event ledger | upsert, deactivate, rotate, sync jobs | the ledger is written after the row, from what the call saw | the ledger tells of no user that was not created |
| **Identity hardening** `identity_hardening/` | passkeys, devices, step-up proofs, ledger | register, revoke, satisfy | a known identifier is handed over; ledger in a second commit | what registers, hands over, revokes or proves is in the ledger |
| **Fraud and security operations** `fraud_abuse/`, `security_ops/` | velocity events, rules, signals, cases, incidents, restrictions | record, evaluate, promote, decide | count after insert by concurrent recorders | no burst slips through |
| **Compliance** `compliance/` | policy documents, approvals, exports, evidence packs | review, publish, lock | two reviews of one request overlap | an approval has two persons |
| **Data governance** `data_governance/` | holds, policies, retention jobs, records | plan, run, force | a job is planned and run at different moments, twice | its outcome is what its records say, and holds block it: only those of its planning do, run `holds` |
| **Other optional apps** (SSO, developer platform, observability, SDK registry) | own rows | CRUD; disabled by default | - | - |
| **Configuration, SDKs, deployment, docs** | - | - | - | - |

`PROJECT.json` lists every component with its status, and under `hazards` the
lines where each of these difficulties bites.

## 2. What is modelled

### `Entitlements`
Pure operators over a subscription row: the translation of Stripe's status
(`SubscriptionStatusOf`), `Subscription.is_entitled` (`IsEntitled`), the filter
of `active_subscriptions_for_customer` (`IsCounted`), their conjunction
`Grants`, and which payloads the snapshot's JSON column can hold
(`IsEncodable`). Timestamps are seen as never / future / past. `grace_until` is
part of `IsEntitled`, but no counted row is `past_due`, so a grace period never
grants: `Grants` says so exactly as the code does.

### `BillingWebhooks`
`process_stripe_event` and who calls it. One call is one transaction, cut where
other workers' commits can change its outcome:

| Action | Code |
|---|---|
| `Deliver`, `ReplayNow` (`Call`) | `StripeWebhookView.post` / `create_webhook_replay_request(process_now=True)`, then `get_or_create` and the early return for a PROCESSED event (webhooks.py 25-35) |
| `RequestReplay` | a replay request without `process_now` |
| `CreateCheckoutSession` | the row the checkout view inserts after Stripe made the session |
| `Upsert` | `_handle_subscription`, `_handle_invoice`, `_handle_payment_intent`: `update_or_create`, and `create_or_update_dunning_case` |
| `Amend` | `_handle_subscription_deleted`, `_handle_checkout_*`, `_handle_charge_refunded`: the newest row, some columns |
| `PassOver` | unknown customer or price, nothing to amend, unhandled type |
| `Recalculate` | `recalculate_entitlement_snapshot_with_log` up to its first write |
| `PublishRun` | not an action: the writes of the recalculation and both outbox events, which the next two have in common |
| `Commit` | those writes, the sync state, PROCESSED, end of transaction |
| `FailInHandler`, `FailInRecalculation`, `FailInEnqueue`, `FailInSync` | the `except` branch, from the handler, the recalculation, the announcement or the sync state (webhooks.py:67): what was written before the statement that raised is committed with FAILED - in the last case all of it, the announcement too |
| `RollBack` | the process dies, or the connection breaks outside a savepoint; a replay may survive and record FAILED |
| `Reply`, `LoseReply` | the HTTP answer; lost with the process or the network |
| `Ask`, `Answer` | `RecalculateEntitlementSnapshotView` and the snapshot read of product applications: `recalculate_entitlement_snapshot` without a log entry, its reads and its write |
| `TimePasses` | a period or trial end of a committed row passes |

State: `webhook`, `rows` (the four provider-object tables, numbered by
creation), `dunning`, `snapshot`, `changeLog`, `outbox`, `sync`, `replay` are
the database; `asked` is what a recalculation without a log has read; `pc` and `tx` are the workers with what their transaction has
read and buffered; `content` is what the provider emits in this behaviour
(chosen from `Histories`); `acked`, `tries`, `faults` are the environment.
A buffered row is invisible to others and locked (`Unlocked`); an inserted log
row blocks another inserter of the same event (`NotBeingInserted`).

Operators marked `slip:` are one-line variants of their neighbour with a
plausible mistake in it. No behaviour uses them: `PROJECT.json` pairs each with
a property that notices the mistake.

### `MCBillingWebhooks`
Histories for TLC and the properties that compare a whole history with the
tables. A history is a handful of events that belong together: a subscription's
life, failures of an invoice, a payment and its refund, and so on.

### `BillingWebhooks_proofs`
The inductive invariant and the theorems of section 5.

### `SpentCredential`
What a mailed link, an authorization code and a recovery code have in common. A
reader checks a credential while it is usable, and later is granted something
for it; a grant needs a check of the same reader before it, uses the check up and
leaves the credential ended, and what has ended is never usable again. It does
not say that a credential is granted once: the handlers check in one commit and
spend in another, and readers between the two are let in together.

The refinement mappings are at the end of the three modules. Usable is what
`validate()` accepts of the row itself; held is what a request has read (the
recovery code of a login, not one that switches MFA off); the grants are the
passwords saved (`ResetsSaved`), the ID tokens issued (`Exchanges`) and the
logins opened with a code (`RecoveryLogins`), each under its row number.

### `AtLeastOnceQueue` and `BillingOutbox`
`AtLeastOnceQueue` is a promise that the system makes twice: an item that was put
in is handed over while it is queued, possibly several times, and leaves the
queue only once a consumer has accepted it or by being given up. The webhook
endpoint makes it to the provider (`Delivery` in `BillingWebhooks`: an event is
queued by its first delivery, accepted once it is logged, done with its 2xx
reply), the outbox to its hook (`Queue` in `BillingOutbox`). The second is the
consumer's side of the outbox that the webhooks fill; `BillingOutbox` is the
code:

| Action | Code |
|---|---|
| `Look`, `Insert` | `enqueue_billing_outbox_event`: the lookup by key, the insert under the unique constraint, which waits for another inserter and raises if that one commits |
| `CommitProducer`, `RollBackProducer` | the end of the transaction that enqueued |
| `Select` | the locked query of `dispatch_due_outbox_events`: due, `skip_locked`, at most `Limit` rows |
| `Hook` | one turn of its loop |
| `CommitDispatch`, `Crash` | the end of its transaction |
| `BecomeDue` | `next_attempt_at` is reached |

A dispatch is one transaction, so the PROCESSING status and the counted
attempts of an unfinished one are seen by nobody: the model keeps them in
`work`. The refinement mapping `QueueState` reads the committed rows only.

### `BillingOutbox_proofs`
Types, the two safety properties and the refinement.

### `Requests` and the application components
The other components have one shape: rows without locks, handlers that read in
one statement and write in another, each statement a commit of its own unless a
`transaction.atomic` block holds them together. `Requests` is that shape. A
handler that commits once is an action with `Serve`; one that commits, or reads,
and goes on is `Begin(w, held)`, then `Proceed`, then `End`, and `request[w]` is
exactly what the Python locals carry across the commit. `Abandon` is a worker
that dies, or a handler that raises, at any such point. `spent` counts requests
against the bound `MaxRequests`.

Every module keeps one table per VARIABLE (see its declarations for the Django
model each stands for) and one action per view, serializer `save`, service
function or task:

| Module | Components | What is cut where |
|---|---|---|
| `AccountTokens` | registration, e-mail verification, password reset | a mail task is three commits (`TakeMailTask`, `StoreToken`, `SendLink`) and is retried; a link is read (`ReadToken`), then redeemed (`ConfirmEmail`, `ResetPassword`) |
| `AccountMfa` | device, recovery codes, logins, session and refresh family rows | `...Check` is `validate()`, `...Save` is `save()`; `OpenLogin` and `RecordLogin` are the session and the row that lists it |
| `AccountOAuth` | authorization codes, service credentials, tokens, introspection, revocation, rotation | `ExchangeCheck` and `Exchange`; `ServiceCheck` and `IssueServiceToken`; `IntrospectRead` and `IntrospectSave` |
| `AccountPrivacy` | consents, exports, deletion requests | the consent record and the acceptance date are two commits; `ReadDeletion`, then `ConfirmDeletion` or `CancelDeletion` |
| `AccountOrgs` | organizations, memberships, invitations, policies, grants, tenant keys | creation and acceptance are two commits; PATCH reads a row and saves it whole. `UserPermissions` is the permission evaluation as an operator |
| `BillingSubscriptions` | grants, change requests, add-ons, entitlement rows, the cached snapshot, subscription webhooks and the copy Stripe holds, checkout and portal pages | `apply_subscription_change`: `StartApply`, `StripeAccepts` or `StripeFails`, `SaveSubscription`, `MarkApplied`, `InvalidateSnapshot`, and `Die` between any two; a recalculation is `ReadRows`, `StoreSnapshot`; a webhook is `TakeEvent` (the row written and locked, the payload read) and `CommitEvent`, PROCESSED with its snapshot or FAILED with the row alone; `StripeChanges` is the customer in Stripe's portal, and any state the copy has had may be told late |
| `BillingLedger` | refund requests, credit notes, usage records, discounts | the refund call inside the transaction (`RefundAtStripe`); the counter before it is locked (`ReadCounter`, `SaveCounter`); the insert under a unique key (`InsertUsage`); the locked discount (`LockDiscount`, `Redeem`) |
| `UsageBilling` | events, windows, lines, credit grants, reconciliation | aggregation reads then stores; rating reads the window, locks the line, locks the grants, commits |
| `ProductAccess` | checks, decisions, usage, overrides | `LookUp`, `Decide` or `Refuse`, `RecordUsage` |
| `Notifications` | notices, deliveries, preferences, suppressions, push tokens | per channel: `CheckChannel`, `CreateDelivery`; `SaveNoticeStatus`; `DispatchDue`, `OpenDelivery`, `DispatchDelivery` |
| `RiskOperations` | velocity rules and signals, risk events, cases, reviews, incidents, restrictions, IP reputation | `RecordVelocityEvent`, `ReadRules`, one `EvaluateRule` for each rule |
| `DataGovernance` | holds, policies, retention jobs, records, subject requests | `PlanRetentionJob` counts holds; `OpenJob`, `SaveRunning`, `BlockJob` or one `RecordAsset` per asset, `CompleteJob` |
| `ComplianceGovernance` | documents, acceptances, approvals, exports, packs | `OpenReview`, `SaveApproval`; `...Read`, `...Save` for a PATCH |
| `ScimDirectory` | application, directory users and groups, ledger, sync jobs | `CallUpsert`, `CheckAbilities`, `StoreDirectoryUser`, `RecordEvent` |
| `IdentityHardening` | passkeys, devices, step-up proofs, ledger | the change, then `RecordIdentityEvent` |
| `OidcProvider` | keys, scopes, profile, consents, evaluation | `Evaluate` (the profile), `ReadScopes`, `ReadConsents`, `AnswerEvaluation` |

Each module defines the rows of its tables as sets of records named after the
Django models (`RefundRequest` is `Refund`, `AuthSessionDevice` and
`RefreshTokenFamily` are `Login`), with the columns the actions read. Where one
column decides, the row is that column. `TypeOK` of the three MC modules says
that the variables hold such rows, and `AccountTypes`, `CommerceTypes` and
`PlatformTypes` prove it; the types of the webhooks and the outbox are proved
only (`TypeCorrectness`).

Variables such as `excused`, `late`, `acked`, `births`, `lost`, `copies`, `since`
and `fresh` record history for a property and guard nothing.

### `MCAccounts`, `MCCommerce`, `MCPlatform`
The application components in three groups. Components of a group share the
workers and touch no row of each other, so a behaviour picks one of them (`part`)
and the state spaces add up instead of multiplying. Interaction between them
that goes through rows is inside a module: the subscription, the snapshot and the
changes of `BillingSubscriptions`, or the four ledgers of `BillingLedger`, which
interleave.

### `Requests_proofs`, `Sums_proofs`, `Commerce_proofs`, `Accounts_proofs`, `Identity_proofs`, `Platform_proofs`
The proofs about the application components, one module for each group and the
lemmas they share. `Requests_proofs` is about the requests in flight: a step
*spares* the requests that will write a table when it hands no worker one of
their kind. It also has the lemmas on rows replaced in and added to a table, and
on a set of rows counted together with the workers that have yet to write one.
`Sums_proofs` is about sums over finite sets. `Identity_proofs` holds the proofs
about the OIDC provider, SCIM and the passkey ledger, `Platform_proofs` those of
the other platform apps and of all eight as `MCPlatform` composes them.

| Module | About |
|---|---|
| `Commerce_proofs` | `BillingLedger`, `BillingSubscriptions`, `UsageBilling`, `MCCommerce` |
| `Accounts_proofs` | `AccountPrivacy`, `AccountMfa`, `AccountOrgs`, `AccountTokens`, `AccountOAuth`, `MCAccounts` |
| `Identity_proofs` | `OidcProvider`, `ScimDirectory`, `IdentityHardening` |
| `Platform_proofs` | `ComplianceGovernance`, `DataGovernance`, `RiskOperations`, `Notifications`, `ProductAccess`, `MCPlatform` |

## 3. Runs

All runs set `CHECK_DEADLOCK FALSE`: the provider emits finitely many events,
each is handed over at most `MaxTries` times, producers enqueue a finite set of
items, a behaviour serves at most `MaxRequests` requests, and then the system has
nothing to do.

| Run | Instance | Checks |
|---|---|---|
| `race` | 2 workers, 1 replay, 3 histories of 2-3 events, 1 fault, 2 tries per event; about 820,000 states | `DeliveryIsAQueue`, `ProcessedIsAnnounced`, `AnnouncedIsApplied`, `ProcessedIsStored`, `SnapshotIsLogged`, `NoFailureIsForgotten`, `SnapshotReflectsRun` |
| `live` | 2 workers, 1 asker, 1 fault, `FairSpec`; 5 histories of 2 events: one whose events can never be processed, a subscription that ends, two failures of one invoice, a payment and its refund, events no handler takes; about 150,000 states | `EveryEventIsAcked`, `AppliedOnceUnlessDisturbed` |
| `outbox` | 3 producers of 2 keys, 2 dispatchers, 2 attempts, 1 crash, `FairSpec`; about 170,000 states | `CallsAreCounted`, `DispatchedIsFinal`, `ImplementsQueue`, `EveryItemSettles` |
| `accounts` | 2 workers, 2 users, 5 requests of one account component; about 1.7 million states | `TypeOK`, `LiveLinksAreBounded`, `CredentialsStaySpent`, `MfaHasCodes`, `NoCodesWithoutDevice`, `ClosedMeansConfirmed`, `AcceptanceIsOnRecord`, `AcceptedMeansMember`, `RevocationIsFinal`, `ScopesAreThoseGranted` |
| `commerce` | 2 workers, 3 requests on a Stripe and a local subscription or on 2 usage windows, 4 on pages or on the ledgers of 2 customers; about 470,000 states | `TypeOK`, `ProviderColumnsCameFromStripe`, `SnapshotKeepsPromises`, `RefundedMeansPaidBack`, `NumbersHaveNoGaps`, `AckedUsageCountsOnce`, `RedemptionsWithinLimit`, `CreditsAreAccountedFor` |
| `platform` | 2 workers, 4 requests of one platform app (3 of notices and governance); about 2 million states | `TypeOK`, `UsageStaysNearLimit`, `SuppressionIsRespected`, `ThresholdIsSignalled`, `OutcomeIsOnRecord`, `ApprovedByAnother`, `CreationsAreTold`, `ConsentIsJustified` |
| `dated`, `pair`, `twins`, `order` | the smallest instance of each | one statement of the repository each, violated: section 6 |
| `codes`, `holds` | the instances of `accounts` and `platform` | one statement of the repository each, violated: section 6 |

What the passing runs show:

- **Nothing acknowledged is lost** (`DeliveryIsAQueue`): the endpoint is an
  at-least-once queue for the provider. The transaction commits before the
  reply, so a crash in between costs a second delivery, never the event; and an
  event that was logged is not unlogged by anything that happens to a later run
  of it.
- **PROCESSED is announced** (`ProcessedIsAnnounced`): although errors are caught
  inside the transaction and partial work is committed, no interleaving drops the
  announcement of a PROCESSED event. The converse does not hold: when the sync
  state raises, the run is FAILED and its announcement is committed with it
  (`FailInSync`), and a later run of a PROCESSED event may fail.
- **What is announced has happened** (`AnnouncedIsApplied`): whatever the event's
  status says, downstream is told only of an event that is logged; a row of an
  upsert is stored, and its customer's recalculation is in the change log.
- **A processed upsert left its row** (`ProcessedIsStored`), also when another
  run of the object was rolled back meanwhile.
- **What an event published is on record** (`SnapshotIsLogged`): a snapshot
  whose reason is a webhook is in the change log under its version and was
  announced - even though versions are read without a lock and can be
  published twice, and although a recalculation without a log (a staff request,
  a first read) may overwrite it before or after.
- **Failures are not overwritten** (`NoFailureIsForgotten`, about failures of a
  customer the system knows): the dunning count
  has no lock of its own; it is safe because the invoice row written just
  before is locked to the end of the transaction. The count may be too high
  (a FAILED run keeps its increment), hence >=.
- **What a run wrote takes effect in its own transaction**
  (`SnapshotReflectsRun`): the step that makes an event PROCESSED publishes a
  snapshot that has the row of that event exactly when the row grants, so a
  cancellation revokes and a new subscription grants, whatever ran in between.
  It speaks of the row of the run, and of no other row of that object: with
  two rows of one subscription (the `twins` run) a cancellation that amends
  the one leaves the other in the snapshot. The instance of `race` is too small
  to show that; 3 tries and 2 faults for each event are enough.
- **Undisturbed and without failures, exactly once** (`AppliedOnceUnlessDisturbed`):
  in a behaviour where no run ends FAILED, no two recalculations of a customer
  overlap and an object has one customer, the snapshot's version and the dunning
  count are those of one application each (`AppliedExactlyOnce`), however often
  and in whatever order events are delivered. Section 5 says why each hypothesis
  is needed.
- **Every event ends acknowledged** (`EveryEventIsAcked`).
- **The outbox loses nothing and stops in time** (`ImplementsQueue`,
  `DispatchedIsFinal`): an item is DISPATCHED only after the hook accepted it,
  and is not handed over again from then on, although a dispatch may have
  selected it before.
- **Attempts account for deliveries** (`CallsAreCounted`): a hook call that no
  attempt counts belongs to a dispatch that was rolled back, and two dispatches
  never hand over one item at once. There is one call too many per crash, and
  there is no bound on crashes in the code: an event that kills its dispatcher
  is tried without end, and takes the other events of its batch with it.
- **Every committed item settles** (`EveryItemSettles`): dispatched, or FAILED
  with its attempts used up.

What the runs of the application components show, and what remains true of the
code beside it:

- **Links and tokens.** Overlapping requests leave several live links, never
  more than there are workers (`LiveLinksAreBounded`), and a reset link sets
  the password once per request that had read it, never after. The same holds of
  authorization codes and recovery codes: what the three promise is one abstract
  specification, `SpentCredential`, which each implements
  (`CredentialsStaySpent`). So two requests at once do use one link, two
  exchanges one code and two logins one recovery code; but every one of them
  found it usable, and once the first is through nobody finds it so again. For
  authorization codes a document promises more, and run `codes` shows that the
  code does not keep it (section 6).
- **MFA** is on only with recovery codes and off leaves none, whatever set-ups,
  confirmations and regenerations overlap (`MfaHasCodes`,
  `NoCodesWithoutDevice`).
- **OAuth.** A revoked record stays revoked although an introspection that read
  it before saves it afterwards (`RevocationIsFinal`); scopes are never widened
  nor a credential narrowed (`ScopesAreThoseGranted`).
- **Privacy.** A closed account has a confirmed request (`ClosedMeansConfirmed`),
  and a date of acceptance its proof (`AcceptanceIsOnRecord`).
- **Organizations.** An accepted invitation made a member, even when the worker
  dies between the two commits (`AcceptedMeansMember`). The loop of
  `get_role_permissions` gives the same permissions whatever order the grants
  come in (`GrantsInAnyOrder`, an assumption of `MCAccounts` that TLC evaluates
  for every set of grants on three codes). Nothing keeps the last owner in an
  organization.
- **Subscriptions.** The quantity and the cancellation of a Stripe subscription
  are ones that its copy at Stripe has had, and a change of them is APPLIED only
  after Stripe had it, unless `skip_provider_sync` says so
  (`ProviderColumnsCameFromStripe`). That is less than agreement: plan, trial and
  grace changes never reach Stripe (services.py:130-132), the row may be older
  than a webhook it overwrites, and a change whose answer was lost is made at
  Stripe and FAILED here (section 6). A payload from before an add-on or a change
  that staff were told of is not served, except one that a recalculation read
  before and stored after (`SnapshotKeepsPromises`). Manual grants, entitlement
  rows, webhooks that FAILED and the passing of time invalidate nothing, so a
  payload from before any of them stays.
- **Ledgers.** Marked refunded means paid back; numbers run without gaps;
  acknowledged usage counts once; discounts stay within their limits.
- **Credits.** Every cent that left a grant is in an application, and a line is
  its price less the credits it shows, which were taken from grants
  (`CreditsAreAccountedFor`), whatever a grant was opened with and in whatever
  status. It does not say that a charge takes credits once: rating a window again
  takes them again, and those of the earlier rating stay taken (`CreditsTaken`
  is then more than the line shows; section 6).
- **Product access** can pass a limit by one request for each other worker and
  not more (`UsageStaysNearLimit`). Usage rows are counted for each subject,
  quantity, period and key.
- **Notices.** After a suppression only what was cleared before is delivered
  (`SuppressionIsRespected`).
- **Velocity rules** count after the insert, so of two overlapping recorders the
  one that counts last sees both (`ThresholdIsSignalled`).
- **Retention jobs.** What a job reports is on record, and a job whose planning
  counted holds recorded nothing unless it was forced or its policy stopped asking
  for holds, when several workers run it (`OutcomeIsOnRecord`). A hold placed
  after the planning blocks nothing: run `holds` (section 6).
- **Approvals** name a second person even if two reviews mix
  (`ApprovedByAnother`).
- **SCIM.** The ledger tells of no creation that did not happen
  (`CreationsAreTold`).
- **Consent.** A positive evaluation had a reason for every scope at some moment
  while it ran (`ConsentIsJustified`), although it reads three tables apart.

`LedgerFollowsChanges` (IdentityHardening: every registration, hand-over and
revocation of a passkey or device and every satisfied step-up is in the ledger,
under way to it, or lost with its worker; a PATCH, a DELETE and the revocation of
a step-up write no entry, in the code as in the model) and
`KeysFollowTheirCalls` (OidcProvider) are in no run: both are proved
(`PlatformIsSafe`, `KeysKeepTheirStatus`).

### Bounds
`MaxTries` = 2 deliveries and replays per event: one more than one, which is
what a duplicate, a retry after a fault and a race of an event with itself
need; with `MaxFaults` = 1 the second try always gets through, so liveness is
not cut short by it. `MaxRow` = 4 rows: at most three objects occur in one
history, and a creation race makes one more; a transaction that rolls back
burns its row number. Two workers are all that a pairwise race needs; three
would make a chain of locks, and the waits here never form a cycle because a
transaction holds one log row and takes one object row. `sync.errors` is capped
at 3, beyond the threshold (2) where the status changes.

In the three runs of application components two workers make every pairwise
overlap. `MaxRequests` = 4 (5 for accounts) is what the longest hazard takes: a
row created, two handlers that overlap on it, and one request that follows them;
steps inside a request, webhooks and the passing of time are not counted, except
where the clock is a request of its own (`Serve` in an expiry). Notices and
retention jobs walk channels and assets step by step and get 3; so do
subscriptions (a change requested and applied while something else changes the
row, at Stripe or here; webhooks come on top) and usage windows (a grant and two
ratings). Stripe's events carry no period end there (`EventEnds`): the dates that
a snapshot cannot hold come from manual grants, and from events in `dated`. Limits are 1 or 2, so that the
second or third request is one too many; thresholds are 2. Workers, users and
windows are symmetric: no action and no property tells them apart.

In `outbox`, two keys and three producers are the least in which two producers
race for a key while another row exists; `MaxAttempts` = 2 stands for the
default of 8: one failure that is retried and one that is final. `Limit` = 2
lets a batch hold both rows, so that one crash undoes a finished and an
unfinished turn.

## 4. Fairness

`FairSpec` adds weak fairness of each worker's own steps (a worker that is not
dead runs on: gunicorn restarts processes and PostgreSQL releases the locks of
a dead one) and weak fairness of the delivery of each event that has not been
acknowledged (Stripe retries until it has a 2xx). Nothing is assumed of
operators: no replay is ever forced, and no particular outcome of a run is.

In `BillingOutbox`, `FairSpec` says that time passes and that dispatches are
run again and again and finish. The repository schedules none by itself:
docs/BILLING_RELIABILITY_OPS.md:41 tells the operator to run the command on a
short interval, and that is the assumption. Nothing is assumed of the hook, which may
refuse for ever, or of producers.
`EveryEventIsAcked` is about the acknowledgement only; that an event ends
PROCESSED is not true, see section 6.

The application components have no fairness and no liveness property: a request
that dies is not run again by anything in the repository (the mail tasks are
retried a bounded number of times, a retention job whose worker dies stays
RUNNING), so nothing is promised to happen eventually.

## 5. Proofs

Everything in `BillingWebhooks_proofs` is checked by TLAPS for any sets of
workers, replays, askers, customers, objects, events and histories and any bounds, from
three assumptions: `NoValueAssumption` (the "none" values are not members),
`BoundAssumption` (bounds are naturals) and `HistoriesAssumption` (a history
maps events to well-formed payloads). TLC evaluates them in every run.

| Theorem | Says |
|---|---|
| `Invariance` | `Spec => []IInv` |
| `TypeCorrectness` | `Spec => []TypeOK` |
| `AckedEventsAreLogged`, `ProcessedEventsAreAnnounced`, `SnapshotsAreLogged`, `ProcessedEventsAreStored` | the four safety invariants |
| `AnnouncedEventsAreApplied` | `Spec => []AnnouncedIsApplied` |
| `RunsAreReflected` | `Spec => SnapshotReflectsRun` |
| `FailuresAreCounted` | `Spec => []NoFailureIsForgotten` |
| `DeliveriesAreAQueue` | `Spec => DeliveryIsAQueue`: the refinement of `AtLeastOnceQueue` |
| `FailuresAreCountedOnce` | `Spec /\ []NothingFails => []CountedOnce` |
| `EventsAreAppliedOnce` | `Spec => AppliedOnceUnlessDisturbed`, that is, `ObjectsHaveOneCustomer /\ []NothingFails /\ []Undisturbed => []AppliedExactlyOnce` |

None of the four invariants is inductive: they speak of committed rows, and
what the next commit publishes was read steps earlier. `IInv` adds

- `TxOK`: what an open transaction carries. A worker that has answered works on
  a logged event (for `AckedIsLogged`); one that commits without a customer has
  an event that touches none (for `ProcessedIsAnnounced`); one whose event
  stores a row holds a row number and a record of the event's object (for
  `ProcessedIsStored`).
- `RowsOK`: two open transactions never hold one row, and a row being rewritten
  keeps its object. Without it a commit could erase the only row of another
  event's object and break `ProcessedIsStored`. It rests on the row locks and on
  row numbers that are never reused.

The step proofs take one action at a time: `TypeOKStep`, `TxOKStep`,
`RowsOKStep`, then one lemma per invariant on top of `StepKinds`, which sorts
the actions by which tables they touch.

Two more properties need something that `IInv` does not say:

- `RunsAreReflected` rests on `ReadOK`: a recalculation sees what its own
  transaction wrote, so the payload it has read contains the row of its run
  exactly when the record it is about to commit grants. That other runs commit
  between the write and the read does not matter, as they cannot touch that row.
- `FailuresAreCounted` rests on `CasesOK`: a run in progress holds the count of
  the committed case plus one and the lock of the invoice row until it commits,
  and a row that does not exist has no case. A failure that becomes PROCESSED
  adds one event to those counted and at least one to the count, which is then a
  statement about cardinalities of finite sets.

The last two theorems turn the "at least" into "exactly", and say what it costs:

- `NothingFails`: no run of an event ends in FAILED. Such a run keeps the
  increment of its handler, so without this the count may be too high. Runs that
  die, roll back, lose their reply, are repeated or overlap are all allowed: with
  this hypothesis alone the dunning counts are exact (`FailuresAreCountedOnce`).
- `Undisturbed`: no two runs of one customer recalculate at once, and no staff
  request does. The version is read without a lock, so two recalculations that
  overlap publish one number twice, and one that no event caused takes a number of
  its own. Runs of different customers overlap freely, and so do the other steps
  of runs of one customer.
- `ObjectsHaveOneCustomer`: the provider does not move an object to another
  customer, which would count an event with the one it names and recalculate the
  one it finds on the row.

All three are needed; each is about what happens in a behaviour, not a bound on
the instance. The run `live` checks the implication where behaviours that meet
them and behaviours that do not are mixed.

`DeliveriesAreAQueue` takes `AckedIsLogged` from `IInv` for the step that
acknowledges, and from the actions that no log row is ever removed once its
transaction has committed.

`BillingOutbox_proofs` does the same for any items, producers, dispatchers,
limit and number of attempts, from `BoundsAssumption`:

| Theorem | Says |
|---|---|
| `Invariance` | `Spec => []IInv` |
| `TypeCorrectness` | `Spec => []TypeOK` |
| `HookCallsAreCounted` | `Spec => []CallsAreCounted` |
| `DispatchedItemsAreFinal` | `Spec => DispatchedIsFinal` |
| `OutboxIsAQueue` | `Spec => ImplementsQueue` |

Its `IInv` adds what open transactions hold: an inserted key has no committed
row and only one inserter (`ProducersOK`), so a commit never resets a row; a
selected row is unsettled, has an attempt left and is held by one dispatch
(`WorkOK`). The second is what makes DISPATCHED final: no dispatch that selected
the row before can still be open. For the refinement each action maps to one
step or a stutter: `CommitPuts`, `HookHands`, `CommitSettles`.

The application components are proved each from its own specification
(`LedgerSpec`, `SubSpec`, `PrivacySpec`, `OidcSpec` and so on), for any workers,
users, rows and number of requests. None of their properties is inductive, and
the strengthening has the same idea everywhere: **what a request in flight holds
is still good when it is used.**

| Module | Theorem: property | What the invariant adds |
|---|---|---|
| `Commerce_proofs` | `LedgerInvariance`; `RefundsArePaidBack`: `RefundedMeansPaidBack` | a review that may save as processed has paid |
| | `NumbersAreSequential`: `NumbersHaveNoGaps` | a number in flight is taken or the next one |
| | `UsageIsCountedOnce`: `AckedUsageCountsOnce` | stored keys are distinct, and an acknowledged key is stored |
| | `RedemptionsStayWithinLimits`: `RedemptionsWithinLimit` | the holder of the lock is alone, holds the present counts and found room |
| | `SubInvariance`; `ProviderColumnsAreStripes`: `ProviderColumnsCameFromStripe` | a change past its Stripe call has been seen in Stripe's copy, and the rows that a request or a webhook will write have their columns from copies there have been |
| | `PromisesAreKept`: `SnapshotKeepsPromises` | what the rows grant now is among what they granted since the last promise, and a snapshot that was true when stored is too |
| | `MeterInvariance`; `CreditsAreKept`: `CreditsAreAccountedFor` | a rating that holds the grants is alone and knows them as they are; what it pays is what is owed (`PaidIsOwed`) |
| `Accounts_proofs` | `ClosedAccountsAreConfirmed`: `ClosedMeansConfirmed` | a confirmation has its row |
| | `AcceptancesAreRecorded`: `AcceptanceIsOnRecord` | a consent under way has its record |
| | `MfaComesWithCodes`: `MfaHasCodes`; `CodesGoWithDevice`: `NoCodesWithoutDevice` | a request that will write carries a primary key, and no device there is has key 0 |
| | `OAuthInvariance`; `RevocationsAreFinal`: `RevocationIsFinal`; `ScopesStayGranted`: `ScopesAreThoseGranted` | a held code, token or scope is one of a row that exists; only recorded tokens are revoked |
| | `OrgInvariance`; `AcceptedAreMembers`: `AcceptedMeansMember` | an acceptance between its two commits has inserted its member, and memberships are never deleted |
| | `TokInvariance`; `LinksStayBounded`: `LiveLinksAreBounded`; `UsedLinksResetNoMore`: `ResetsStopAtFirstUse` | live links are counted together with the tasks about to store one; a redeemed link is used and stays so |
| | `ResetLinksAreSpent`, `AuthorizationCodesAreSpent`, `RecoveryCodesAreSpent`: the refinements of `SpentCredential` | a link held is one for a reset (`LinksKnown`); a recovery code that a login holds was issued, and is marked used once the login has passed (`RecoveryOK`), and its number is given out only once (`CodesOnlyEnded`) |
| `Identity_proofs` | `EvaluationsAreJustified`: `ConsentIsJustified` | the scopes ruled out so far each had an excuse |
| | `KeysKeepTheirStatus`: `KeysFollowTheirCalls` | an open edit holds the last status, or a call has crossed it |
| | `ScimInvariance`; `CreationsWereInserted`: `CreationsAreTold` | creations told of and calls about to tell of one are together no more than the insertions |
| `Platform_proofs` | `ApprovalsNeedTwo`: `ApprovedByAnother` | a held verdict names a row and a member of staff |
| | `GovernanceInvariance`; `OutcomesAreOnRecord`: `OutcomeIsOnRecord` | the count a run carries is no more than the records of its job, and a run that records for a job whose planning counted holds was forced or its policy asks for none |
| | `RiskInvariance`; `BurstsAreSignalled`: `ThresholdIsSignalled` | until an evaluation is over its event still reaches every rule it owes a signal, and no two evaluations have one event |
| | `NoticeInvariance`; `SuppressionsHold`: `SuppressionIsRespected` | what was inserted since the suppression and what may still be stay within what had been cleared |
| | `AccessInvariance`; `UsageIsLimited`: `UsageStaysNearLimit` | usage and what granted checks have yet to record together stay near the limit (`NearLimit`, `Unrecorded`) |

Components that interleave in one module (`BillingLedger`, `AccountPrivacy`)
have one conjunct per part and a lemma that another part's step leaves it alone
(`Moves`, `Spares`). The section on `AccountOAuth` says once what a step may do
to each table (`TokenStep`, `CodeStep`, `CredentialStep`, `HeldStep`): the lemma
`EveryStep` shows that every action keeps to it, and the invariant and both
action properties follow from it.

### The composed specifications
The runs check `Spec` of `MCAccounts`, `MCCommerce` and `MCPlatform`, where a
behaviour picks a component, has its tables and stops after `MaxRequests`
requests. Three theorems for each group carry the results over to exactly that
specification: the invariant of the whole (`AccountsInvariance`,
`CommerceInvariance`, `PlatformInvariance`), every type the run checks
(`AccountTypes`, `CommerceTypes`, `PlatformTypes`: each is `Spec => []TypeOK`)
and every safety invariant it checks (`AccountsAreSafe`, `CommerceIsSafe`,
`PlatformIsSafe`); `AccountStepsAreSafe` has the two action properties and
`CredentialsAreSpent` the three refinements, for which `Apart` says that no
worker holds a credential of a part that is not served. The
invariant of the whole says that the component picked has its own invariant, that
the tables of the others stand as their initial states left them (`Standing`), and
that `spent` stays in `0 .. MaxRequests`. So **every safety property of the three
runs holds of the specification TLC explored, for every value of its constants
that meets the assumptions below**. `PlatformIsSafe` proves one more,
`LedgerFollowsChanges`.

### Counting and adding up
Induction over data through the library's theorems is out of reach here, as they
take an operator as a parameter. `Sums_proofs` goes around it for finite sets:
`SubsetInduction` and `NumberInduction` speak of a *set* of subsets or of numbers
that contains the first and is closed under the next, so that an instance is a
set comprehension. The sum of a function over a finite set is shown to be the
difference of two cardinalities (`SumIsCount`), from which follow the lemmas that
`CreditsAreKept` and `UsageIsLimited` cite: a sum splits, changes in one place,
grows, is bounded. What a worker has yet to do is counted as a set of workers
(`Issuing`, `Tellers`, `ClearedOf`) or summed over them (`Unrecorded`); the lemmas
`Pair...` of `Requests_proofs` move one element from one side to the other.

### Assumptions
TLC evaluates each of them in the runs that extend its module.

| Assumption | Why the code justifies it |
|---|---|
| `NoValueAssumption`, `BoundAssumption`, `HistoriesAssumption` (`BillingWebhooks`), `BoundsAssumption` (`BillingOutbox`) | the "none" values are not members, bounds are naturals, payloads are well formed |
| `WorkersAreFinite`, `RequestsAreBounded` (`Requests`) | a server has finitely many processes; the bound is the model's |
| `LimitsAreNumbers` (`BillingLedger`) | `max_redemptions` is a positive integer column |
| `SomePlan` (`BillingSubscriptions`) | a subscription row refers to a plan |
| `WindowsAreFinite`, `PricesAreNumbers` (`UsageBilling`) | rows are finite; unit prices and grants are positive integer columns, readings may be negative |
| `InvitedRolesAreRoles` (`AccountOrgs`) | an invitation takes its role from the choices of a membership |
| `NobodyIsNotStaff` (`ComplianceGovernance`) | the unset reviewer is no user |
| `ThresholdsAreCounts`, `ScoresAreNumbers` (`RiskOperations`) | positive integer columns (fraud_abuse/models.py:58) |
| `LimitsAreIntegers`, `UsageIsFinite` (`ProductAccess`) | limits are integers; subjects, keys and quantities in play are finitely many |
| `SomeHolder` (`IdentityHardening`) | a passkey row refers to a user |

`AccessInvariance`, `UsageIsLimited` and the three theorems of the platform
group have one hypothesis more, `Workers # {}`: the limit is passed by one largest
quantity for each *other* worker, which says nothing of a server without one.

### Only model-checked
- `EveryEventIsAcked` and `EveryItemSettles`: liveness under fairness and ENABLED
  are out of TLAPS's reach. Between them the runs `live` and `outbox` check both.
- `GrantsInAnyOrder`, an assumption of `MCAccounts` that TLC evaluates: a fold over
  a sequence in any order, which is induction over data.
- The six runs that expect a violation.

No module here has a RECURSIVE operator.

## 6. Divergences between the code and what is said of it

| Run | Statement | What the run shows |
|---|---|---|
| `dated` | docs/PAYMENT_COMPLETION_v34.md:7, webhook processing updates entitlement snapshots | a subscription with a period end puts a datetime in a JSON column; the save raises, the event is FAILED, the snapshot never changes |
| `pair` | webhooks.py:22, provider events rebuild entitlement snapshots | two concurrent events of one customer are both PROCESSED and the snapshot lists one subscription: the payload is read before the snapshot row is locked |
| `twins` | test_v11_stripe_provider.py:63 reads *the* subscription of a provider id | `update_or_create` without a unique constraint makes two, and every later upsert of the pair fails |
| `order` | docs/SUBSCRIPTION_OPERATIONS.md:21, webhooks are the source of truth | events carry no order: a deletion delivered first is passed over and the creation leaves the subscription active |
| `codes` | docs/SECURITY.md:80, "Authorization codes are short-lived, single-use" | an exchange validates the code outside the transaction that marks it used, and marks it without a lock: two overlapping exchanges of one code are both answered with tokens |
| `holds` | docs/DATA_GOVERNANCE.md:60, "Legal holds block automated retention execution", and :122 | a job asks only how many holds its planning counted: under a hold placed afterwards, or when it was posted to the job list, it records its assets |

Also met while reading, not the subject of a run. The model has each of them as
the code does it, unless it says otherwise.

Billing and usage:

- `billing/services.py:507` annotates a parameter with `BillingWebhookEvent`,
  which the module does not import, and the module has no
  `from __future__ import annotations`: on Python 3.12 importing it raises
  `NameError`. The model assumes the name resolves.
- A replay requested without `process_now` is executed by nothing; a replay is
  REPLAYED even when the event ended FAILED.
- The webhook answers 200 for a FAILED event, so the provider never retries it:
  only an operator's replay can repair it.
- A run that started before another run of the same event committed can turn
  PROCESSED into FAILED. A run whose sync state raises (webhooks.py:67) is FAILED
  after it announced `billing.provider_event.processed`; the announcement stays.
- A credit note's number is unique over all customers (models.py:539), its counter
  is per profile and every profile has the prefix CN by default: the second
  customer's first credit note is refused, although services.py:217 reserves "a
  sequential invoice/credit-note number per billing customer".
- Webhooks are to be the source of truth (docs/SUBSCRIPTION_OPERATIONS.md:21), but
  `apply_subscription_change` saves every column of the row it read before the
  Stripe call: a webhook committed in between is overwritten, for instance a
  cancellation. And a webhook's upsert writes plan, status and trial end from the
  event, so it undoes a plan change or a trial extension made here, which Stripe
  never heard of. A change that Stripe made and whose answer was lost is FAILED.
- A resume after `cancel_now` makes the row ACTIVE with a period end in the past:
  active and not entitled.
- A manual grant, a new entitlement of a plan, subscription or add-on
  (views.py:103, :461) and a webhook that FAILED after its row leave the snapshot
  as it was; docs/BILLING_REVENUE_AUTOMATION.md:77 has staff recalculate when the
  configuration changes. A worker that dies after APPLIED and before the
  invalidation leaves it too.
- A rejected or processed refund can be reviewed again, which calls Stripe a
  second time; two concurrent pages of a new customer make two Stripe customers.
- The limit of a promotion code is asked before the idempotency key, so the retry
  of the last redemption is refused; a second keyless usage record or redemption
  of a customer meets the unique constraint on the empty key.
- `usage_billing/views.py:51` passes `organization` where the service takes
  `organization_id`: the ingest endpoint always raises. The model has the
  service. Rating a window again resets the line to its price and applies credits
  again while the applications of the earlier rating stay: two credits pay one
  charge, although docs/USAGE_BASED_BILLING.md:23 calls an application the
  "ledger entry for credit consumed by a rated usage line". Aggregation reopens a
  finalized window, and expired credits are used. The POST of a credit grant takes
  any remaining amount and status, whatever the original amount.
- `admin_console/services.py:95` uses `DashboardWidget` without importing it.

Accounts:
- Starting an MFA set-up turns a confirmed device off; a confirmation may
  confirm a secret that a later set-up replaced; two regenerations leave two
  sets of codes. Recovery codes and reset links are, like authorization codes,
  read and then marked: requests that overlap share one.
- A rotated refresh token belongs to no family and has no lifecycle record, so
  revoking all families does not reach it.
- Memberships and policies are saved whole after a read: the later save wins. A
  worker that dies in the creation of an organization leaves it without its
  owner's membership, and an owner may demote the own membership. Cancelling one
  deletion request reactivates an account only when it was itself confirmed or
  pending at the time it was read.

Platform apps:
- A usage key is unique over all subjects, and a retry with a key is denied once
  the limit is reached.
- Enqueueing a notice again queues its deliveries again, two dispatchers send the
  same pending row, and a lapsed suppression blocks a new one with its reason.
- Two promotions of a signal make two risk events; the maximum of an IP
  reputation is lost between two writers; `has_active_restriction` compares a
  nullable column with `IN (..., NULL)`, which never matches.
- Holds count only where a policy is `legal_hold_exempt`
  (data_governance/services.py:83, :104), which reads as the opposite of its name.
  A job whose worker dies stays RUNNING.
- A PATCH or DELETE of a passkey or device and the revocation of a step-up write
  no entry in the assurance ledger.
- An approval can be reviewed again after it was rejected or has expired; a PATCH
  unlocks an evidence pack.
- A PATCH of a SCIM application restores a rotated token or a left status, one of
  a signing key or a consent a revoked status, one of a passkey an undone
  revocation or a deleted row. `DeprovisioningPolicy` is consulted by nothing and
  `consume_passkey_challenge` is called by nothing. Registering a known passkey
  or device moves it to the caller.

## 7. Abstractions and assumptions

- The four provider-object tables are one table `rows`, keyed by row number. A
  row keeps object, customer, status and end dates; amounts, names, URLs,
  metadata and the unmodelled columns are left out, as no property tells them
  apart.
- An `Amend` handler's read and its save are one step: the save of some columns
  locks the row from then on, and the columns it does not save do not matter to
  the properties.
- The writes of the recalculation, the outbox and the log row are published by
  the commit. Between the first of them and the commit the snapshot row is
  locked, so a concurrent recalculation of that customer waits: in the model,
  its commit comes later and publishes what it had read, as in the code.
- `ProviderSyncState` is read and saved in the last step of a run, which `Commit`
  takes when that works and `FailInSync` when it raises; that two runs may overwrite
  each other's error count is not modelled.
- Statements that fail inside a savepoint (`update_or_create`, and the
  `atomic` functions in services.py) are `FailIn...`; a plain `save()` that
  fails breaks the transaction, which is `RollBack`.
- The snapshot read recalculates only when there is no valid snapshot, the
  staff endpoint always: `Ask` is the second, which includes the first. Nothing
  in this module invalidates a snapshot.
- `TimePasses` does not touch a row that an open transaction has written.
- Bounded by constants: rows created (`MaxRow`), calls per event (`MaxTries`),
  faults (`MaxFaults`).
- The hook of `BillingOutbox` is external: in the code it is a comment where
  delivery belongs, with the `try` around it ready. The model gives it the two
  outcomes that the code distinguishes; one that raises may have delivered.
- Which due rows a dispatch takes is left open: the `event_type` filter and the
  order by `next_attempt_at` narrow the choice. An event without a key is an item
  of its own that one producer enqueues.
- The staff endpoint can create outbox rows in any status. PROCESSING and
  CANCELLED rows would never be selected and no code recovers them; the model
  starts from rows the service itself enqueues.
- The payload of an event is well formed (Stripe signs it and the SDK parses
  it); the provider never reuses an event id.
- Application components: passwords, TOTP values, secrets and hashes are right or
  wrong answers, a batch of recovery codes is one code, timestamps are flags
  that a clock action sets. A PATCH that saves a whole row is modelled with the
  columns the properties and the other actions read. Staff and owner
  permissions are guards where the code asks for them.
- `BillingSubscriptions` takes what Stripe answers as a choice: accepted, refused,
  or accepted and the answer lost. Of a webhook it has what concerns the row of one
  known subscription and the snapshot; log, announcements, insertion and rollback
  are in `BillingWebhooks`. An event may tell any state the copy has had, so late,
  repeated and reordered deliveries are in.
- An entitlement payload is what it is computed from: the granting rows with how
  many entitlement rows their plan, the row itself and their add-ons have.
  Entitlement rows are created and never edited or removed: no REST view does either.
- `max_redemptions` is always set, as a number; NULL, no limit, is not modelled.
- Quantities of usage are whole units, negative ones included, and one meter has
  one price tier.

## 8. Plan

Done: the webhooks with their replay and recalculations, the outbox, the account
components, subscriptions and ledgers, usage billing, and the platform apps of
section 2; and proofs of every safety property, action property and refinement
the passing runs check, so that liveness alone rests on TLC. What a next step
would add, in this order:

1. Several customers and creation races of `BillingWebhooks` inside
   `BillingSubscriptions`, which has the webhooks of existing rows only.
2. Group administration of SCIM, device reputation, portal cases.

## 9. Not modelled

- Pure I/O: the Stripe SDK (its answers and events are choices), e-mail, the
  hooks that deliver.
- Tax and pricing quotes: arithmetic over stored rates, without a protocol.
- Admin integration, admin console, customer portal, operations, observability,
  developer platform, SDK registry, enterprise SSO: rows that one request writes
  and nothing else depends on; and read-only reports.
- Administration of plans, prices, features, meters, providers, templates, claim
  mappings, policies of refresh and exchange, metadata snapshots: configuration.
- Parts left out of a modelled component: refunds of an invoice alone, privacy
  preference flags, refund and tax columns, staff listing with `?all=1`, cases and
  reviews created by hand, the enforcement view.
- Webhook signature checking is a guard of `Deliver`; the log row of a rejected
  signature is not modelled (its fixed event id under a unique key makes the second
  one raise).
- Everything that is not the server: SDKs, deployment files, documentation.
