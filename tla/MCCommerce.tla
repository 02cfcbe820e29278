----------------------------- MODULE MCCommerce -----------------------------
(***************************************************************************)
(* The commerce components for TLC.  They share the workers and no row, so *)
(* a behaviour runs the requests of one of them.                           *)
(***************************************************************************)
EXTENDS BillingSubscriptions, BillingLedger, UsageBilling, TLC

VARIABLE part               \* the component whose requests the behaviour serves

mcVars == <<part, requestVars, subVars, ledgerVars, meterVars>>

Symmetry == Permutations(Workers) \cup Permutations(Windows)

Readings == {3}                \* units of a usage event

Posted == {[remaining |-> 5, status |-> "active"], [remaining |-> 5, status |-> "void"]}

DefaultPrefix == [c \in Customers |-> "CN"]

Init ==
    /\ part \in {"subscriptions", "pages", "ledger", "meters"}
    /\ RequestsInit /\ SubInit /\ LedgerInit /\ MeterInit

(* Bound on the requests of one behaviour where MaxRequests is too many.   *)
Room == IF part \in {"subscriptions", "meters"} THEN 3 ELSE MaxRequests

Next ==
    /\ part' = part
    /\ \/ part = "subscriptions" /\ ChangeNext /\ UNCHANGED <<ledgerVars, meterVars>>
       \/ part = "pages" /\ PageNext /\ UNCHANGED <<ledgerVars, meterVars>>
       \/ part = "ledger" /\ LedgerNext /\ UNCHANGED <<subVars, meterVars>>
       \/ part = "meters" /\ MeterNext /\ UNCHANGED <<subVars, ledgerVars>>
    /\ spent' <= Room

(* Rows stay what their tables may hold: no amount, count or credit goes   *)
(* below zero in rating and redeeming, statuses are those of the models.   *)
TypeOK ==
    /\ spent \in 0 .. MaxRequests
    /\ SubTypes /\ LedgerTypes /\ MeterTypes

Spec == Init /\ [][Next]_mcVars
=============================================================================
