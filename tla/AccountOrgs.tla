---------------------------- MODULE AccountOrgs ----------------------------
(***************************************************************************)
(* Organizations, memberships, invitations and the permissions of a role.  *)
(* Rows are read, changed in memory and saved whole; an invitation is      *)
(* accepted by two commits; an organization is created by two.             *)
(* OrganizationInvitation.revoke has no caller and is left out.            *)
(***************************************************************************)
EXTENDS Requests, Sequences

CONSTANTS
    Orgs,
    PolicyCodes,    \* the normalized codes policies are made for
    InvitedRoles    \* bound: the roles invitations and updates carry

VARIABLES
    orgOwner,       \* Organization.owner, or NoUser before the organization exists
    member,         \* per organization and user: NoMember, or role and active
    invitations,    \* the OrganizationInvitation rows
    policy,         \* per organization and code: "none", "active", "disabled", "expired"
    grants,         \* per organization, role and code: "none", "allow", "deny"
    tenantKeys      \* the TenantServiceCredential rows

orgVars == <<orgOwner, member, invitations, policy, grants, tenantKeys>>

Roles == {"owner", "admin", "member", "viewer"}
ASSUME InvitedRolesAreRoles == InvitedRoles \subseteq Roles
NoUser == "nobody"
NoMember == [role |-> "none", active |-> FALSE]
Organization == Users                        \* by its owner
OrganizationMembership == [role: Roles, active: BOOLEAN]
OrganizationInvitation ==
    [org: Orgs, user: Users, role: Roles, accepted: BOOLEAN, expired: BOOLEAN]
PermissionPolicy == {"active", "disabled", "expired"}    \* by enabled and expires_at
RolePermissionGrant == {"allow", "deny"}                 \* by effect

OrgInit ==
    /\ orgOwner = [o \in Orgs |-> NoUser]
    /\ member = [o \in Orgs |-> [u \in Users |-> NoMember]]
    /\ invitations = <<>>
    /\ policy = [o \in Orgs |-> [c \in PolicyCodes |-> "none"]]
    /\ grants = [o \in Orgs |-> [r \in Roles |-> [c \in PolicyCodes |-> "none"]]]
    /\ tenantKeys = <<>>

-----------------------------------------------------------------------------
Baseline ==
    [owner  |-> {"org.read", "org.update", "org.delete", "members.read",
                 "members.invite", "members.update", "members.remove",
                 "billing.manage", "service_credentials.manage", "audit.read",
                 "policies.read", "policies.manage"},
     admin  |-> {"org.read", "org.update", "members.read", "members.invite",
                 "members.update", "service_credentials.manage", "audit.read",
                 "policies.read"},
     member |-> {"org.read", "members.read"},
     viewer |-> {"org.read"}]

ScopePermissions ==
    [x \in {"org:read", "org:write", "members:read", "members:write",
            "users:read", "audit:read", "policies:read", "policies:write"} |->
        CASE x = "org:read"      -> {"org.read"}
          [] x = "org:write"     -> {"org.update"}
          [] x \in {"members:read", "users:read"} -> {"members.read"}
          [] x = "members:write" -> {"members.invite", "members.update", "members.remove"}
          [] x = "audit:read"    -> {"audit.read"}
          [] x = "policies:read" -> {"policies.read"}
          [] OTHER               -> {"policies.manage"}]

TenantServiceCredential ==
    [org: Orgs, scopes: SUBSET DOMAIN ScopePermissions, active: BOOLEAN, key: Nat]

OrgTypes ==
    /\ orgOwner \in [Orgs -> Organization \cup {NoUser}]
    /\ member \in [Orgs -> [Users -> OrganizationMembership \cup {NoMember}]]
    /\ invitations \in Seq(OrganizationInvitation)
    /\ policy \in [Orgs -> [PolicyCodes -> PermissionPolicy \cup {"none"}]]
    /\ grants \in [Orgs -> [Roles -> [PolicyCodes -> RolePermissionGrant \cup {"none"}]]]
    /\ tenantKeys \in Seq(TenantServiceCredential)

(* The codes of the organization's live policies a role has the effect on. *)
Effective(o, r, effect) ==
    {c \in PolicyCodes : policy[o][c] = "active" /\ grants[o][r][c] = effect}

(* One grant per organization, role and code: the loop over the grants is  *)
(* a union and a difference in whatever order the rows come.               *)
Permitted(base, allowed, denied) == (base \cup allowed) \ denied
RolePermissions(o, r) ==
    Permitted(Baseline[r], Effective(o, r, "allow"), Effective(o, r, "deny"))

UserPermissions(o, u) ==
    IF member[o][u].active THEN RolePermissions(o, member[o][u].role) ELSE {}

CanManageMembers(o, u) ==
    member[o][u].active /\ member[o][u].role \in {"owner", "admin"}

-----------------------------------------------------------------------------
CreateOrg(w, o, u) ==
    /\ orgOwner[o] = NoUser
    /\ Begin(w, [op |-> "found", org |-> o, user |-> u])
    /\ orgOwner' = [orgOwner EXCEPT ![o] = u]
    /\ UNCHANGED <<member, invitations, policy, grants, tenantKeys>>

AddFounder(w) ==
    /\ Holds(w, "found")
    /\ member' = [member EXCEPT ![request[w].org][request[w].user] =
                     [role |-> "owner", active |-> TRUE]]
    /\ End(w)
    /\ UNCHANGED <<orgOwner, invitations, policy, grants, tenantKeys>>

(* The target is read; an owner's row only by the owner.                   *)
UpdateRead(w, o, u, target, row) ==
    /\ CanManageMembers(o, u)
    /\ member[o][target] # NoMember
    /\ member[o][target].role = "owner" => target = u
    /\ row.role \in (InvitedRoles \ {"owner"}) \cup {member[o][target].role}
    /\ Begin(w, [op |-> "update", org |-> o, user |-> target, row |-> row])
    /\ UNCHANGED orgVars

UpdateSave(w) ==
    /\ Holds(w, "update")
    /\ member' = [member EXCEPT ![request[w].org][request[w].user] = request[w].row]
    /\ End(w)
    /\ UNCHANGED <<orgOwner, invitations, policy, grants, tenantKeys>>

Invite(o, u, invitee, role) ==
    /\ CanManageMembers(o, u)
    /\ Serve
    /\ invitations' = Append(invitations,
          [org |-> o, user |-> invitee, role |-> role, accepted |-> FALSE, expired |-> FALSE])
    /\ UNCHANGED <<orgOwner, member, policy, grants, tenantKeys>>

PassInvitation(i) ==
    /\ ~ invitations[i].expired
    /\ invitations' = [invitations EXCEPT ![i].expired = TRUE]
    /\ UNCHANGED <<orgOwner, member, policy, grants, tenantKeys, requestVars>>

AcceptRead(w, i) ==
    /\ ~ invitations[i].accepted /\ ~ invitations[i].expired
    /\ Begin(w, [op |-> "accept", invitation |-> i])
    /\ UNCHANGED orgVars

(* update_or_create of the membership, then mark_accepted.                 *)
MemberFirst == <<"member", "mark">>
MarkFirst == <<"mark", "member">>    \* slip: the invitation is closed before it is honoured
AcceptOrder == MemberFirst

AcceptPart(part, i) ==
    /\ member' = IF part = "member"
          THEN [member EXCEPT ![invitations[i].org][invitations[i].user] =
                   [role |-> invitations[i].role, active |-> TRUE]]
          ELSE member
    /\ invitations' = IF part = "mark"
          THEN [invitations EXCEPT ![i].accepted = TRUE] ELSE invitations

AcceptFirst(w) ==
    /\ Holds(w, "accept")
    /\ AcceptPart(AcceptOrder[1], request[w].invitation)
    /\ Proceed(w, [op |-> "accepting", invitation |-> request[w].invitation])
    /\ UNCHANGED <<orgOwner, policy, grants, tenantKeys>>

AcceptSecond(w) ==
    /\ Holds(w, "accepting")
    /\ AcceptPart(AcceptOrder[2], request[w].invitation)
    /\ End(w)
    /\ UNCHANGED <<orgOwner, policy, grants, tenantKeys>>

-----------------------------------------------------------------------------
(* require_policy_manager looks at the role of an active membership.       *)
CreatePolicy(o, u, c) ==
    /\ CanManageMembers(o, u) /\ policy[o][c] = "none"
    /\ Serve
    /\ policy' = [policy EXCEPT ![o][c] = "active"]
    /\ UNCHANGED <<orgOwner, member, invitations, grants, tenantKeys>>

(* PATCH reads the row and saves it whole: one that overlaps DELETE        *)
(* enables the policy again.                                               *)
PatchPolicyRead(w, o, u, c) ==
    /\ CanManageMembers(o, u) /\ policy[o][c] # "none"
    /\ \E state \in {policy[o][c]} \cup PermissionPolicy :
        Begin(w, [op |-> "patch", org |-> o, code |-> c, state |-> state])
    /\ UNCHANGED orgVars

PatchPolicySave(w) ==
    /\ Holds(w, "patch")
    /\ policy' = [policy EXCEPT ![request[w].org][request[w].code] = request[w].state]
    /\ End(w)
    /\ UNCHANGED <<orgOwner, member, invitations, grants, tenantKeys>>

DisablePolicy(o, u, c) ==
    /\ CanManageMembers(o, u) /\ policy[o][c] # "none"
    /\ Serve
    /\ policy' = [policy EXCEPT ![o][c] = "disabled"]
    /\ UNCHANGED <<orgOwner, member, invitations, grants, tenantKeys>>

UpsertGrant(o, u, r, c, effect) ==
    /\ CanManageMembers(o, u) /\ policy[o][c] # "none"
    /\ Serve
    /\ grants' = [grants EXCEPT ![o][r][c] = effect]
    /\ UNCHANGED <<orgOwner, member, invitations, policy, tenantKeys>>

CreateTenantKey(o, u, scopes) ==
    /\ CanManageMembers(o, u)
    /\ scopes \subseteq DOMAIN ScopePermissions
    /\ Serve
    /\ tenantKeys' = Append(tenantKeys, [org |-> o, scopes |-> scopes, active |-> TRUE, key |-> 1])
    /\ UNCHANGED <<orgOwner, member, invitations, policy, grants>>

RotateTenantKey(k, u) ==
    /\ CanManageMembers(tenantKeys[k].org, u) /\ Serve
    /\ tenantKeys' = [tenantKeys EXCEPT ![k].key = @ + 1]
    /\ UNCHANGED <<orgOwner, member, invitations, policy, grants>>

DeactivateTenantKey(k, u) ==
    /\ CanManageMembers(tenantKeys[k].org, u) /\ Serve
    /\ tenantKeys' = [tenantKeys EXCEPT ![k].active = FALSE]
    /\ UNCHANGED <<orgOwner, member, invitations, policy, grants>>

OrgNext ==
    \/ \E w \in Workers :
        \/ AddFounder(w) \/ UpdateSave(w) \/ PatchPolicySave(w)
        \/ AcceptFirst(w) \/ AcceptSecond(w)
        \/ \E i \in DOMAIN invitations : AcceptRead(w, i)
        \/ \E o \in Orgs, u \in Users :
            \/ CreateOrg(w, o, u)
            \/ \E target \in Users, role \in Roles, active \in BOOLEAN :
                UpdateRead(w, o, u, target, [role |-> role, active |-> active])
            \/ \E c \in PolicyCodes : PatchPolicyRead(w, o, u, c)
        \/ Abandon(w) /\ UNCHANGED orgVars
    \/ \E i \in DOMAIN invitations : PassInvitation(i)
    \/ \E o \in Orgs, u \in Users :
        \/ \E invitee \in Users, role \in InvitedRoles : Invite(o, u, invitee, role)
        \/ \E c \in PolicyCodes :
            \/ CreatePolicy(o, u, c) \/ DisablePolicy(o, u, c)
            \/ \E r \in InvitedRoles, effect \in RolePermissionGrant :
                UpsertGrant(o, u, r, c, effect)
        \/ \E x \in DOMAIN ScopePermissions : CreateTenantKey(o, u, {x})
    \/ \E k \in DOMAIN tenantKeys, u \in Users :
        RotateTenantKey(k, u) \/ DeactivateTenantKey(k, u)

OrgSpec == RequestsInit /\ OrgInit /\ [][OrgNext]_<<requestVars, orgVars>>

-----------------------------------------------------------------------------
(* An invitation that is closed as accepted has made its user a member,    *)
(* even when the worker dies between the two commits.                      *)
AcceptedMeansMember ==
    \A i \in DOMAIN invitations : invitations[i].accepted =>
        member[invitations[i].org][invitations[i].user] # NoMember
=============================================================================
