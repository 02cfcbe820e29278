--------------------------- MODULE RiskOperations ---------------------------
(***************************************************************************)
(* Abuse signals and the staff's answers to them.  A recorded event is     *)
(* inserted, then every enabled rule counts the events of its window and   *)
(* signals when the threshold is reached: separate commits, side by side   *)
(* with other recorders.  Signals are promoted to risk events and cases;   *)
(* staff decide cases and reviews and place and lift restrictions.         *)
(***************************************************************************)
EXTENDS Requests, Sequences, FiniteSetsExt

CONSTANTS
    Rules,              \* the velocity rules, all of one event name
    RuleScope,          \* user or global
    Threshold,          \* their threshold
    RiskOrgs,           \* organizations a restriction may name
    RiskScores          \* scores reported for an IP address

ASSUME ThresholdsAreCounts == Threshold \in [Rules -> Nat]
ASSUME ScoresAreNumbers == RiskScores \subseteq Nat

VARIABLES
    enabled,            \* VelocityRule.enabled
    velocityEvents,     \* the VelocityEvent rows in the order of occurred_at
    since,              \* the number of them that have left the window
    signals,            \* the AbuseSignal rows: their rule and event
    riskEvents,         \* the SecurityRiskEvent rows
    cases,              \* the AbuseCase rows
    reviews,            \* the PaymentRiskReview rows
    incidents,          \* the SecurityIncident rows
    restrictions,       \* the AccountRestriction rows
    ipRisk              \* IPReputation.risk_score of one address

riskVars == <<enabled, velocityEvents, since, signals, riskEvents, cases, reviews, incidents,
              restrictions, ipRisk>>

NoOrg == "none"
CaseStatuses == {"open", "reviewing", "mitigated", "resolved", "false_positive"}
ReviewStatuses == {"pending", "approved", "rejected", "escalated"}
RiskStatuses == {"open", "acknowledged", "resolved", "false_positive"}
IncidentStatuses == {"open", "contained", "resolved", "closed"}
VelocityEvent == [user: Users, owed: SUBSET Rules, settled: BOOLEAN]
AccountRestriction == [user: Users, organization: RiskOrgs \cup {NoOrg},
                       status: {"active", "expired", "lifted"}]

AbuseSignal == [rule: Rules, event: Nat \ {0}]
AbuseCase == [signal: AbuseSignal, status: CaseStatuses, resolvedAt: BOOLEAN]
SecurityIncident == [status: IncidentStatuses, stamped: SUBSET IncidentStatuses]

VelocityRule == BOOLEAN                      \* by enabled
IPReputation == RiskScores \cup {0}          \* by risk_score

RiskTypes ==
    /\ enabled \in [Rules -> VelocityRule]
    /\ velocityEvents \in Seq(VelocityEvent)
    /\ since \in 0 .. Len(velocityEvents)
    /\ signals \subseteq AbuseSignal
    /\ riskEvents \in Seq(RiskStatuses)
    /\ cases \in Seq(AbuseCase)
    /\ reviews \in Seq(ReviewStatuses)
    /\ incidents \in Seq(SecurityIncident)
    /\ restrictions \in Seq(AccountRestriction)
    /\ ipRisk \in IPReputation

RiskInit ==
    /\ enabled \in [Rules -> BOOLEAN]
    /\ velocityEvents = <<>> /\ since = 0 /\ signals = {}
    /\ riskEvents = <<>> /\ cases = <<>> /\ restrictions = <<>> /\ incidents = <<>>
    /\ reviews = <<"pending">> /\ ipRisk = 0

InWindow(rule, user, list) ==
    {n \in since + 1..Len(list) : RuleScope[rule] = "global" \/ list[n].user = user}

Passed(rule, user, list) == Cardinality(InWindow(rule, user, list)) > Threshold[rule]

Reached(rule, user, list) == Cardinality(InWindow(rule, user, list)) >= Threshold[rule]

(* "owed" is no column: the rules whose threshold the new event reaches.   *)
RecordVelocityEvent(w, user) ==
    /\ LET row == [user |-> user, owed |-> {}, settled |-> FALSE]
           due == {r \in Rules : enabled[r]
                     /\ Cardinality(InWindow(r, user, Append(velocityEvents, row)))
                          >= Threshold[r]}
       IN velocityEvents' = Append(velocityEvents, [row EXCEPT !.owed = due])
    /\ Begin(w, [op |-> "evaluate", event |-> Len(velocityEvents) + 1])
    /\ UNCHANGED <<enabled, since, signals, riskEvents, cases, reviews, incidents,
                   restrictions, ipRisk>>

ReadRules(w) ==
    /\ Holds(w, "evaluate")
    /\ Proceed(w, [op |-> "rules", event |-> request[w].event,
                   todo |-> {r \in Rules : enabled[r]}])
    /\ UNCHANGED riskVars

(* The key of the signal names the rule and the event: get_or_create.      *)
EvaluateRule(w, r) ==
    /\ Holds(w, "rules")
    /\ r \in request[w].todo
    /\ LET n == request[w].event IN
       signals' = IF Reached(r, velocityEvents[n].user, velocityEvents)
                  THEN signals \cup {[rule |-> r, event |-> n]} ELSE signals
    /\ Proceed(w, [request[w] EXCEPT !.todo = @ \ {r}])
    /\ UNCHANGED <<enabled, velocityEvents, since, riskEvents, cases, reviews, incidents,
                   restrictions, ipRisk>>

FinishEvaluation(w) ==
    /\ Holds(w, "rules")
    /\ request[w].todo = {}
    /\ velocityEvents' = [velocityEvents EXCEPT ![request[w].event].settled = TRUE]
    /\ End(w)
    /\ UNCHANGED <<enabled, since, signals, riskEvents, cases, reviews, incidents,
                   restrictions, ipRisk>>

(* What a running evaluation need not signal any more.                     *)
Excused(rules) ==
    [n \in DOMAIN velocityEvents |->
        IF velocityEvents[n].settled THEN velocityEvents[n]
        ELSE [velocityEvents[n] EXCEPT !.owed = @ \ rules]]

SwitchRule(r) ==
    /\ Serve
    /\ enabled' = [enabled EXCEPT ![r] = ~@]
    /\ velocityEvents' = Excused({r})
    /\ UNCHANGED <<since, signals, riskEvents, cases, reviews, incidents, restrictions, ipRisk>>

WindowSlides ==
    /\ since < Len(velocityEvents)
    /\ since' = since + 1
    /\ velocityEvents' = Excused(Rules)
    /\ UNCHANGED <<enabled, signals, riskEvents, cases, reviews, incidents, restrictions,
                   ipRisk, requestVars>>

-----------------------------------------------------------------------------
(* Staff promote a signal: a risk event, and a case when they ask for one; *)
(* nothing remembers that the signal was promoted before.                  *)
Promote(signal, withRisk, withCase) ==
    /\ Serve
    /\ riskEvents' = IF withRisk THEN Append(riskEvents, "open") ELSE riskEvents
    /\ cases' = IF withCase
                THEN Append(cases, [signal |-> signal, status |-> "open", resolvedAt |-> FALSE])
                ELSE cases
    /\ UNCHANGED <<enabled, velocityEvents, since, signals, reviews, incidents, restrictions,
                   ipRisk>>

ActOnCase(n, status) ==
    /\ Serve
    /\ cases' = [cases EXCEPT ![n].status = status,
                    ![n].resolvedAt = @ \/ status \in {"resolved", "false_positive"}]
    /\ UNCHANGED <<enabled, velocityEvents, since, signals, riskEvents, reviews, incidents,
                   restrictions, ipRisk>>

(* apply_decision asks no status: a decision may be taken again.           *)
DecideReview(n, status) ==
    /\ Serve
    /\ reviews' = [reviews EXCEPT ![n] = status]
    /\ UNCHANGED <<enabled, velocityEvents, since, signals, riskEvents, cases, incidents,
                   restrictions, ipRisk>>

ActOnRiskEvent(n, status) ==
    /\ Serve
    /\ riskEvents' = [riskEvents EXCEPT ![n] = status]
    /\ UNCHANGED <<enabled, velocityEvents, since, signals, cases, reviews, incidents,
                   restrictions, ipRisk>>

(* An incident is saved whole, then the time of its new status is stamped. *)
OpenIncident ==
    /\ Serve
    /\ incidents' = Append(incidents, [status |-> "open", stamped |-> {}])
    /\ UNCHANGED <<enabled, velocityEvents, since, signals, riskEvents, cases, reviews,
                   restrictions, ipRisk>>

PatchIncidentRead(w, n, status) ==
    /\ Begin(w, [op |-> "incident", row |-> n, new |-> [incidents[n] EXCEPT !.status = status]])
    /\ UNCHANGED riskVars

PatchIncidentSave(w) ==
    /\ Holds(w, "incident")
    /\ LET new == request[w].new IN
       /\ incidents' = [incidents EXCEPT ![request[w].row] = new]
       /\ IF new.status \in {"contained", "resolved", "closed"} \ new.stamped
          THEN Proceed(w, [request[w] EXCEPT !.op = "stamp"])
          ELSE End(w)
    /\ UNCHANGED <<enabled, velocityEvents, since, signals, riskEvents, cases, reviews,
                   restrictions, ipRisk>>

StampIncident(w) ==
    /\ Holds(w, "stamp")
    /\ incidents' = [incidents EXCEPT ![request[w].row].stamped = @ \cup {request[w].new.status}]
    /\ End(w)
    /\ UNCHANGED <<enabled, velocityEvents, since, signals, riskEvents, cases, reviews,
                   restrictions, ipRisk>>

-----------------------------------------------------------------------------
PlaceRestriction(user, org) ==
    /\ Serve
    /\ restrictions' = Append(restrictions,
                              [user |-> user, organization |-> org, status |-> "active"])
    /\ UNCHANGED <<enabled, velocityEvents, since, signals, riskEvents, cases, reviews,
                   incidents, ipRisk>>

Lift(n) ==
    /\ Serve
    /\ restrictions[n].status # "lifted"
    /\ restrictions' = [restrictions EXCEPT ![n].status = "lifted"]
    /\ UNCHANGED <<enabled, velocityEvents, since, signals, riskEvents, cases, reviews,
                   incidents, ipRisk>>

RestrictionExpires(n) ==
    /\ restrictions[n].status = "active"
    /\ restrictions' = [restrictions EXCEPT ![n].status = "expired"]
    /\ UNCHANGED <<enabled, velocityEvents, since, signals, riskEvents, cases, reviews,
                   incidents, ipRisk, requestVars>>

(* The score of an address only rises in one handler; the two statements   *)
(* of two handlers overlap.                                                *)
ReadIpReputation(w, score) ==
    /\ Begin(w, [op |-> "ip", score |-> Max({ipRisk, score})])
    /\ UNCHANGED riskVars

SaveIpReputation(w) ==
    /\ Holds(w, "ip")
    /\ ipRisk' = request[w].score
    /\ End(w)
    /\ UNCHANGED <<enabled, velocityEvents, since, signals, riskEvents, cases, reviews,
                   incidents, restrictions>>

RiskNext ==
    \/ \E w \in Workers, u \in Users : RecordVelocityEvent(w, u)
    \/ \E w \in Workers : ReadRules(w) \/ FinishEvaluation(w)
    \/ \E w \in Workers, r \in Rules : EvaluateRule(w, r)
    \/ \E r \in Rules : SwitchRule(r)
    \/ WindowSlides
    \/ \E s \in signals, risk \in BOOLEAN, asCase \in BOOLEAN : Promote(s, risk, asCase)
    \/ \E n \in DOMAIN cases, status \in CaseStatuses \ {"open"} : ActOnCase(n, status)
    \/ \E n \in DOMAIN reviews, status \in ReviewStatuses \ {"pending"} : DecideReview(n, status)
    \/ \E n \in DOMAIN riskEvents, status \in RiskStatuses \ {"open"} : ActOnRiskEvent(n, status)
    \/ OpenIncident
    \/ \E w \in Workers, n \in DOMAIN incidents, status \in IncidentStatuses :
         PatchIncidentRead(w, n, status)
    \/ \E w \in Workers : PatchIncidentSave(w) \/ StampIncident(w)
    \/ \E u \in Users, o \in RiskOrgs \cup {NoOrg} : PlaceRestriction(u, o)
    \/ \E n \in DOMAIN restrictions : Lift(n) \/ RestrictionExpires(n)
    \/ \E w \in Workers, score \in RiskScores : ReadIpReputation(w, score)
    \/ \E w \in Workers : SaveIpReputation(w)
    \/ \E w \in Workers : Abandon(w) /\ UNCHANGED riskVars

RiskSpec == RequestsInit /\ RiskInit /\ [][RiskNext]_<<requestVars, riskVars>>

-----------------------------------------------------------------------------
(* However the recorders overlap, no burst slips through: an event that    *)
(* brings a window to the threshold of an enabled rule has its signal once *)
(* its evaluation is over, unless the rule was switched or the window      *)
(* moved on meanwhile (services.py:45, :71).                               *)
ThresholdIsSignalled ==
    \A n \in DOMAIN velocityEvents : velocityEvents[n].settled =>
        \A r \in velocityEvents[n].owed : [rule |-> r, event |-> n] \in signals
=============================================================================
