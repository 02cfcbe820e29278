--------------------------- MODULE ProductAccess ---------------------------
(***************************************************************************)
(* Access checks of the product apps: one limited action of a product.  A  *)
(* check reads the subject's plan, the staff overrides and the usage of    *)
(* the period, writes its decision and, when the caller asks for it,       *)
(* records the usage: four statements that commit apart.  Periods are      *)
(* numbered; an override expires with the period it names.                 *)
(***************************************************************************)
EXTENDS Requests, Integers, Sequences, Functions, FiniteSetsExt

CONSTANTS
    Subjects,           \* users and organizations
    AccessPlans,        \* plans that include the product
    PlanLimit,          \* the limit each of them carries
    OverrideLimits,     \* int_value of a LIMIT override
    AccessQuantities,   \* quantities a check may ask for
    AccessKeys,         \* idempotency keys, "" for none
    Periods             \* bound on the number of periods

(* A quantity is at least one (AccessCheckSerializer), a limit any integer. *)
ASSUME LimitsAreIntegers ==
    /\ \A p \in AccessPlans : PlanLimit[p] \in Int
    /\ OverrideLimits \subseteq Int
    /\ AccessQuantities \subseteq Nat /\ AccessQuantities # {}
ASSUME UsageIsFinite ==
    /\ IsFiniteSet(Subjects) /\ IsFiniteSet(AccessKeys) /\ IsFiniteSet(AccessQuantities)
    /\ Periods \in Nat \ {0}

VARIABLES
    plan,               \* the plan in force of each subject
    overrides,          \* the ProductAccessOverride rows
    usageEvents,        \* how many ProductUsageEvent rows there are of each kind
    decisions,          \* the ProductAccessDecision rows
    period              \* the period the clock is in

accessVars == <<plan, overrides, usageEvents, decisions, period>>

NoPlan == "none"
Override == [subject: Subjects, effect: {"allow", "deny", "limit"}, value: OverrideLimits,
             isActive: BOOLEAN, until: 1..Periods, deleted: BOOLEAN]
ProductUsageEvent == [subject: Subjects, quantity: AccessQuantities, period: 1..Periods,
                      key: AccessKeys]
Limits == {PlanLimit[p] : p \in AccessPlans} \cup OverrideLimits
Decision == [subject: Subjects, limit: Limits \cup {0}, override: BOOLEAN,
             reason: {"allowed", "limit_exceeded", "admin_denied", "missing_entitlement",
                      "missing_limit"}]

AccessTypes ==
    /\ plan \in [Subjects -> AccessPlans \cup {NoPlan}]
    /\ overrides \in Seq(Override)
    /\ usageEvents \in [ProductUsageEvent -> Nat]
    /\ decisions \subseteq Decision
    /\ period \in 1..Periods

AccessInit ==
    /\ plan \in [Subjects -> AccessPlans \cup {NoPlan}]
    /\ overrides = <<>> /\ decisions = {} /\ period = 1
    /\ usageEvents = [e \in ProductUsageEvent |-> 0]

ActiveOverrides(s, effect) ==
    {n \in DOMAIN overrides : LET o == overrides[n] IN
        o.subject = s /\ o.effect = effect /\ o.isActive /\ ~o.deleted /\ period <= o.until}

(* The newest row wins: the model orders by -created_at.                   *)
LimitFor(s, planned) ==
    LET limits == ActiveOverrides(s, "limit")
    IN  IF limits = {} THEN PlanLimit[planned] ELSE overrides[Max(limits)].value

UsageTotal(s, p) ==
    SumFunctionOnSet([e \in ProductUsageEvent |-> e.quantity * usageEvents[e]],
                     {e \in ProductUsageEvent : e.subject = s /\ e.period = p})

FitsBefore(used, quantity, limit) == used <= limit

Fits(used, quantity, limit) == used + quantity <= limit

DecidedOnRest(s, reason, limit, byOverride) ==   \* slip: what is left is logged as the limit
    decisions' = decisions \cup
        {[subject |-> s, reason |-> reason, limit |-> limit - UsageTotal(s, period),
          override |-> byOverride]}

(* _record_decision of the product apps.                                   *)
Decided(s, reason, limit, byOverride) ==
    decisions' = decisions \cup
        {[subject |-> s, reason |-> reason, limit |-> limit, override |-> byOverride]}

(* The entitlements are built first; no customer means no subject.         *)
LookUp(w, s, quantity, key) ==
    /\ Begin(w, [op |-> "check", subject |-> s, quantity |-> quantity, key |-> key,
                 plan |-> plan[s]])
    /\ UNCHANGED accessVars

Refused(s, planned) ==
    IF ActiveOverrides(s, "deny") # {} THEN "admin_denied"
    ELSE IF planned = NoPlan THEN
        IF ActiveOverrides(s, "allow") = {} THEN "missing_entitlement"
        ELSE IF ActiveOverrides(s, "limit") = {} THEN "missing_limit" ELSE ""
    ELSE ""

Refuse(w) ==
    /\ Holds(w, "check")
    /\ LET r == request[w] IN
       /\ Refused(r.subject, r.plan) # ""
       /\ Decided(r.subject, Refused(r.subject, r.plan), 0, FALSE)
    /\ End(w)
    /\ UNCHANGED <<plan, overrides, usageEvents, period>>

(* Overrides and usage are read now, whatever was true at the look-up.     *)
Decide(w) ==
    /\ Holds(w, "check")
    /\ LET r == request[w]
           limit == LimitFor(r.subject, r.plan)
           exempt == ActiveOverrides(r.subject, "allow") # {}
           fits == Fits(UsageTotal(r.subject, period), r.quantity, limit)
       IN /\ Refused(r.subject, r.plan) = ""
          /\ IF fits \/ exempt
             THEN /\ Decided(r.subject, "allowed", limit, exempt)
                  /\ Proceed(w, [r EXCEPT !.op = "record"])
             ELSE /\ Decided(r.subject, "limit_exceeded", limit, FALSE)
                  /\ End(w)
    /\ UNCHANGED <<plan, overrides, usageEvents, period>>

(* The key is unique over every subject: a key already there returns its   *)
(* event, whoever it belongs to.  The period is computed again.            *)
RecordUsage(w) ==
    /\ Holds(w, "record")
    /\ LET r == request[w]
           event == [subject |-> r.subject, quantity |-> r.quantity, period |-> period,
                     key |-> r.key]
           known == r.key # "" /\ \E e \in ProductUsageEvent : e.key = r.key /\ usageEvents[e] > 0
       IN usageEvents' = IF known THEN usageEvents ELSE [usageEvents EXCEPT ![event] = @ + 1]
    /\ End(w)
    /\ UNCHANGED <<plan, overrides, decisions, period>>

-----------------------------------------------------------------------------
(* Staff: usage is deleted, of one subject or of all, in one period or in   *)
(* all; overrides are created, changed and removed.                        *)
ResetUsage(who, when) ==
    /\ Serve
    /\ usageEvents' = [e \in ProductUsageEvent |->
          IF e.subject \in who /\ e.period \in when THEN 0 ELSE usageEvents[e]]
    /\ UNCHANGED <<plan, overrides, decisions, period>>

CreateOverride(s, effect, value, until) ==
    /\ Serve
    /\ overrides' = Append(overrides, [subject |-> s, effect |-> effect, value |-> value,
                            isActive |-> TRUE, until |-> until, deleted |-> FALSE])
    /\ UNCHANGED <<plan, usageEvents, decisions, period>>

DeactivateOverride(n) ==
    /\ Serve
    /\ overrides' = [overrides EXCEPT ![n].isActive = FALSE]
    /\ UNCHANGED <<plan, usageEvents, decisions, period>>

DeleteOverride(n) ==
    /\ Serve
    /\ overrides' = [overrides EXCEPT ![n].deleted = TRUE]
    /\ UNCHANGED <<plan, usageEvents, decisions, period>>

(* PATCH saves the whole row it read: it undoes a deactivation, and even a *)
(* deletion, in between.                                                   *)
PatchOverrideRead(w, n, value) ==
    /\ ~overrides[n].deleted
    /\ Begin(w, [op |-> "override", row |-> n, new |-> [overrides[n] EXCEPT !.value = value]])
    /\ UNCHANGED accessVars

PatchOverrideSave(w) ==
    /\ Holds(w, "override")
    /\ overrides' = [overrides EXCEPT ![request[w].row] = request[w].new]
    /\ End(w)
    /\ UNCHANGED <<plan, usageEvents, decisions, period>>

(* Billing changes the plan; the calendar goes on.                         *)
ChangePlan(s) ==
    /\ Serve
    /\ plan' \in [Subjects -> AccessPlans \cup {NoPlan}]
    /\ \A t \in Subjects \ {s} : plan'[t] = plan[t]
    /\ UNCHANGED <<overrides, usageEvents, decisions, period>>

NextPeriod ==
    /\ period < Periods
    /\ period' = period + 1
    /\ UNCHANGED <<plan, overrides, usageEvents, decisions, requestVars>>

AccessNext ==
    \/ \E w \in Workers, s \in Subjects, q \in AccessQuantities, k \in AccessKeys :
         LookUp(w, s, q, k)
    \/ \E w \in Workers : Refuse(w) \/ Decide(w) \/ RecordUsage(w) \/ PatchOverrideSave(w)
    \/ \E who \in {Subjects} \cup {{s} : s \in Subjects},
          when \in {1..Periods} \cup {{p} : p \in 1..Periods} : ResetUsage(who, when)
    \/ \E s \in Subjects : ChangePlan(s)
    \/ \E s \in Subjects, e \in {"allow", "deny", "limit"}, v \in OverrideLimits,
          u \in 1..Periods : CreateOverride(s, e, v, u)
    \/ \E n \in DOMAIN overrides : DeactivateOverride(n) \/ DeleteOverride(n)
    \/ \E w \in Workers, n \in DOMAIN overrides, v \in OverrideLimits : PatchOverrideRead(w, n, v)
    \/ NextPeriod
    \/ \E w \in Workers : Abandon(w) /\ UNCHANGED accessVars

-----------------------------------------------------------------------------
Granted(s) == {d \in decisions : d.subject = s /\ d.reason = "allowed"}

(* The check and the record are not one step, so a limit can be passed;    *)
(* but only by what the other workers had already been granted: the usage  *)
(* of a period is within the highest limit a decision was made under, plus *)
(* one largest request for each other worker (services.py:169).  An       *)
(* ALLOW override lifts the limit.                                         *)
UsageStaysNearLimit ==
    \A s \in Subjects : (\A d \in Granted(s) : ~d.override) =>
        \A p \in 1..Periods :
            UsageTotal(s, p) <= Max({0} \cup {d.limit : d \in Granted(s)})
                                + (Cardinality(Workers) - 1) * Max(AccessQuantities)

AccessSpec == RequestsInit /\ AccessInit /\ [][AccessNext]_<<requestVars, accessVars>>
=============================================================================
