--------------------------- MODULE UsageBilling ----------------------------
(***************************************************************************)
(* Metered usage of one subscription: events, aggregation windows, rated   *)
(* lines and the credits of the organization that pay for them.  Rating is *)
(* one transaction that locks the line and then the credit grants; the     *)
(* window it rates is read before.  Quantities are whole units, and no     *)
(* serializer asks that they be positive: an event may take usage back.    *)
(***************************************************************************)
EXTENDS Requests, Integers, Sequences, Functions, FiniteSetsExt

CONSTANTS
    Windows,            \* the aggregation windows
    Aggregation,        \* how the meter aggregates: sum or max
    EventKeys,          \* idempotency keys of usage events
    EventUnits,         \* their quantities
    FreeUnits,          \* MeterPrice.free_units
    UnitCents,          \* MeterPrice.unit_amount_cents
    NewGrants           \* the remaining amount and status of the grants POSTed

CreditStatuses == {"active", "depleted", "expired", "void"}

ASSUME WindowsAreFinite == IsFiniteSet(Windows)
ASSUME PricesAreNumbers ==
    /\ EventUnits \subseteq Int /\ FreeUnits \in Int /\ UnitCents \in Nat
    /\ NewGrants \subseteq [remaining: Nat, status: CreditStatuses]

VARIABLES
    events,             \* the UsageEvent rows
    windows,            \* the UsageAggregationWindow rows
    lines,              \* the RatedUsageLine of each window
    grants,             \* the CreditGrant rows, in the order of creation and of use
    applied,            \* per grant and line: the sum of its CreditApplication rows
    runs                \* the UsageReconciliationRun rows: their local total

meterVars == <<events, windows, lines, grants, applied, runs>>

NoWindow == [status |-> "none", quantity |-> 0]
NoLine == [quantity |-> 0, amount |-> 0, credited |-> 0]
WindowStatuses == {"open", "finalized"}
UsageEvent == [key: EventKeys, window: Windows, quantity: Int]
CreditGrant ==                  \* "opened" is no column: what was left at first
    [opened: Nat, remaining: Nat, status: CreditStatuses]
UsageAggregationWindow == [status: WindowStatuses, quantity: Int]
RatedUsageLine == [quantity: Int, amount: Nat, credited: Nat]
CreditApplication == [Windows -> Nat]        \* of one grant, summed by line
UsageReconciliationRun == Nat                \* by its local total

MeterTypes ==
    /\ events \subseteq UsageEvent
    /\ windows \in [Windows -> UsageAggregationWindow \cup {NoWindow}]
    /\ lines \in [Windows -> RatedUsageLine]
    /\ grants \in Seq(CreditGrant)
    /\ applied \in Seq(CreditApplication)
    /\ runs \subseteq UsageReconciliationRun

MeterInit ==
    /\ events = {} /\ windows = [x \in Windows |-> NoWindow]
    /\ lines = [x \in Windows |-> NoLine]
    /\ grants = <<>> /\ applied = <<>> /\ runs = {}

(* get_or_create under the unique constraint: the first event of a key     *)
(* stays.                                                                  *)
Ingest(key, x, quantity) ==
    /\ events' = IF \E e \in events : e.key = key THEN events
                 ELSE events \cup {[key |-> key, window |-> x, quantity |-> quantity]}
    /\ UNCHANGED <<windows, lines, grants, applied, runs, requestVars>>

(* The POST takes the remaining amount and the status as they come; the    *)
(* original amount, which nothing reads, need not be the same.             *)
GrantCredit(new) ==
    /\ Serve
    /\ grants' = Append(grants, [opened |-> new.remaining, remaining |-> new.remaining,
                                 status |-> new.status])
    /\ applied' = Append(applied, [x \in Windows |-> 0])
    /\ UNCHANGED <<events, windows, lines, runs>>

-----------------------------------------------------------------------------
(* aggregate_window, by a task or by staff: the events are read, then the  *)
(* window is written; a finalized window is opened again.                  *)
Aggregated(x) ==
    LET inside == {e \in events : e.window = x}
    IN  IF inside = {} THEN 0
        ELSE IF Aggregation = "sum" THEN SumFunction([e \in inside |-> e.quantity])
        ELSE Max({e.quantity : e \in inside})

ReadEvents(w, x) ==
    /\ TakeUp(w, [op |-> "aggregate", window |-> x, quantity |-> Aggregated(x)])
    /\ UNCHANGED meterVars

StoreWindow(w) ==
    /\ Holds(w, "aggregate")
    /\ windows' = [windows EXCEPT ![request[w].window] =
                      [status |-> "open", quantity |-> request[w].quantity]]
    /\ End(w)
    /\ UNCHANGED <<events, lines, grants, applied, runs>>

Finalize(x) ==
    /\ windows[x].status # "none"
    /\ windows' = [windows EXCEPT ![x].status = "finalized"]
    /\ UNCHANGED <<events, lines, grants, applied, runs, requestVars>>

-----------------------------------------------------------------------------
BelowFree(quantity) == quantity - FreeUnits      \* slip: less than the free units is negative
Billable(quantity) == Max({quantity - FreeUnits, 0})
Price(quantity) == Billable(quantity) * UnitCents

(* RateUsageWindowView reads a window of any status.                       *)
ReadWindow(w, x, credit) ==
    /\ windows[x].status # "none"
    /\ Begin(w, [op |-> "rate", window |-> x, quantity |-> windows[x].quantity,
                 credit |-> credit, at |-> "line", grants |-> <<>>])
    /\ UNCHANGED meterVars

Rating(w, at) == Holds(w, "rate") /\ request[w].at = at
LineIsFree(w) == \A v \in Workers \ {w} :
    Holds(v, "rate") => request[v].at = "line" \/ request[v].window # request[w].window

(* update_or_create of the line, which stays locked to the end.            *)
LockLine(w) ==
    /\ Rating(w, "line") /\ LineIsFree(w)
    /\ Proceed(w, [request[w] EXCEPT !.at =
          IF request[w].credit /\ Price(request[w].quantity) > 0 THEN "grants" ELSE "commit"])
    /\ UNCHANGED meterVars

(* What a grant has to offer: the query asks for ACTIVE and for more than  *)
(* nothing, but not for the expiry date.                                   *)
Offer(grant) == IF grant.status = "active" THEN grant.remaining ELSE 0

GrantsAreNotLocked(w) == TRUE        \* slip: apply_available_credits without select_for_update
GrantsAreFree(w) == \A v \in Workers \ {w} :
    ~ (Holds(v, "rate") /\ request[v].grants # <<>>)

LockGrants(w) ==
    /\ Rating(w, "grants") /\ GrantsAreFree(w)
    /\ Proceed(w, [request[w] EXCEPT !.at = "commit",
          !.grants = IF \E i \in DOMAIN grants : Offer(grants[i]) > 0 THEN grants ELSE <<>>])
    /\ UNCHANGED meterVars

(* The loop of apply_available_credits: each grant in turn pays what the   *)
(* ones before it have left of the amount, as far as it goes.              *)
Before(from, i) ==
    SumFunctionOnSet([j \in DOMAIN from |-> Offer(from[j])], 1 .. (i - 1))
Paid(due, from) ==
    [i \in DOMAIN from |-> Min({Offer(from[i]), Max({due - Before(from, i), 0})})]

Debited(grant, cents) ==
    [grant EXCEPT !.remaining = @ - cents,
                  !.status = IF cents > 0 /\ grant.remaining = cents THEN "depleted" ELSE @]

CommitLine(w) ==
    /\ Rating(w, "commit")
    /\ LET held == request[w]
           due == Price(held.quantity)
           from == held.grants
           paid == Paid(due, from)
           credited == SumFunction(paid)
       IN  /\ lines' = [lines EXCEPT ![held.window] =
                 [quantity |-> held.quantity, amount |-> due - credited, credited |-> credited]]
           /\ grants' = [i \in DOMAIN grants |->
                 IF i \in DOMAIN from THEN Debited(from[i], paid[i]) ELSE grants[i]]
           /\ applied' = [i \in DOMAIN applied |->
                 IF i \in DOMAIN from THEN [applied[i] EXCEPT ![held.window] = @ + paid[i]]
                 ELSE applied[i]]
    /\ End(w)
    /\ UNCHANGED <<events, windows, runs>>

(* create_reconciliation_run: the provider's total is never read.          *)
Reconcile ==
    /\ Serve
    /\ runs' = runs \cup {SumFunction([x \in Windows |-> lines[x].amount])}
    /\ UNCHANGED <<events, windows, lines, grants, applied>>

MeterNext ==
    \/ \E key \in EventKeys, x \in Windows, q \in EventUnits : Ingest(key, x, q)
    \/ \E new \in NewGrants : GrantCredit(new)
    \/ Reconcile
    \/ \E x \in Windows : Finalize(x)
    \/ \E w \in Workers :
        \/ \E x \in Windows : ReadEvents(w, x)
        \/ \E x \in Windows, credit \in BOOLEAN : ReadWindow(w, x, credit)
        \/ StoreWindow(w) \/ LockLine(w) \/ LockGrants(w) \/ CommitLine(w)
        \/ Abandon(w) /\ UNCHANGED meterVars

-----------------------------------------------------------------------------
(* The credits of all ratings of a window's line, the earlier ones too.    *)
CreditsTaken(x) == SumFunction([i \in DOMAIN applied |-> applied[i][x]])

(* However ratings overlap or die, a grant's balance is what it was opened *)
(* with less its applications, it is drawn only while ACTIVE and DEPLETED  *)
(* by the draw that empties it, and a line's amount and the credits it     *)
(* shows are its price, those credits having been taken from grants.  A    *)
(* line rated again takes credits again and shows the last ones only, the  *)
(* earlier applications stay: CreditsTaken is then more than it shows.     *)
CreditsAreAccountedFor ==
    /\ \A i \in DOMAIN grants :
          /\ grants[i].remaining + SumFunction(applied[i]) = grants[i].opened
          /\ SumFunction(applied[i]) > 0 =>
                grants[i].status = IF grants[i].remaining = 0 THEN "depleted" ELSE "active"
    /\ \A x \in Windows :
          /\ lines[x] # NoLine =>
                lines[x].amount + lines[x].credited = Price(lines[x].quantity)
          /\ lines[x].credited <= CreditsTaken(x)

MeterSpec == RequestsInit /\ MeterInit /\ [][MeterNext]_<<requestVars, meterVars>>
=============================================================================
