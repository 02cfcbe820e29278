----------------------------- MODULE MCPlatform -----------------------------
(***************************************************************************)
(* The platform apps for TLC.  They share the workers and no row, so a     *)
(* behaviour runs the requests of one of them.                             *)
(***************************************************************************)
EXTENDS ProductAccess, Notifications, RiskOperations, DataGovernance, ComplianceGovernance,
        ScimDirectory, IdentityHardening, OidcProvider, TLC

VARIABLE part               \* the app whose requests the behaviour serves

appVars == <<accessVars, noticeVars, riskVars, governanceVars, complianceVars, scimVars,
             identityVars, oidcVars>>
mcVars == <<part, requestVars, appVars>>

Symmetry == Permutations(Workers)

LimitOfPlan == [p \in {"starter"} |-> 2]
ScopeOfRule == [r \in {"burst", "flood"} |-> IF r = "burst" THEN "user" ELSE "global"]
ThresholdOfRule == [r \in {"burst", "flood"} |-> 2]

Init ==
    /\ part \in {"access", "notices", "risk", "governance", "compliance", "scim",
                "identity", "oidc"}
    /\ RequestsInit /\ AccessInit /\ NoticeInit /\ RiskInit /\ GovernanceInit
    /\ ComplianceInit /\ ScimInit /\ IdentityInit /\ OidcInit
    \* one initial state for the apps that stand still
    /\ part = "access" \/ plan = [s \in Subjects |-> NoPlan]
    /\ part = "notices" \/ mode = "log"
    /\ part = "risk" \/ enabled = [r \in Rules |-> TRUE]
    /\ part = "governance" \/ (policyAssets = [p \in RetentionPolicies |-> Assets]
                               /\ exempt = [p \in RetentionPolicies |-> TRUE])
    /\ part = "scim" \/ (application.mayCreate /\ application.mayUpdate)

(* Bound on the requests of one behaviour where MaxRequests is too many.   *)
Room == IF part \in {"notices", "governance"} THEN 3 ELSE MaxRequests

Next ==
    /\ part' = part
    /\ \/ /\ part = "access" /\ AccessNext
          /\ UNCHANGED <<noticeVars, riskVars, governanceVars, complianceVars,
                         scimVars, identityVars, oidcVars>>
       \/ /\ part = "notices" /\ NoticeNext
          /\ UNCHANGED <<accessVars, riskVars, governanceVars, complianceVars,
                         scimVars, identityVars, oidcVars>>
       \/ /\ part = "risk" /\ RiskNext
          /\ UNCHANGED <<accessVars, noticeVars, governanceVars, complianceVars,
                         scimVars, identityVars, oidcVars>>
       \/ /\ part = "governance" /\ GovernanceNext
          /\ UNCHANGED <<accessVars, noticeVars, riskVars, complianceVars,
                         scimVars, identityVars, oidcVars>>
       \/ /\ part = "compliance" /\ ComplianceNext
          /\ UNCHANGED <<accessVars, noticeVars, riskVars, governanceVars,
                         scimVars, identityVars, oidcVars>>
       \/ /\ part = "scim" /\ ScimNext
          /\ UNCHANGED <<accessVars, noticeVars, riskVars, governanceVars,
                         complianceVars, identityVars, oidcVars>>
       \/ /\ part = "identity" /\ IdentityNext
          /\ UNCHANGED <<accessVars, noticeVars, riskVars, governanceVars,
                         complianceVars, scimVars, oidcVars>>
       \/ /\ part = "oidc" /\ OidcNext
          /\ UNCHANGED <<accessVars, noticeVars, riskVars, governanceVars,
                         complianceVars, scimVars, identityVars>>
    /\ spent' <= Room

(* Rows stay what their tables may hold: no limit or count goes below zero *)
(* in decisions and jobs, statuses are those of the models.                *)
TypeOK ==
    /\ spent \in 0 .. MaxRequests
    /\ AccessTypes /\ NoticeTypes /\ RiskTypes /\ GovernanceTypes
    /\ ComplianceTypes /\ ScimTypes /\ IdentityTypes /\ OidcTypes

Spec == Init /\ [][Next]_mcVars
=============================================================================
