--------------------------- MODULE ScimDirectory ---------------------------
(***************************************************************************)
(* Directory provisioning of one organization.  The directory's calls      *)
(* carry the application's token: authentication reads the application     *)
(* and marks it used, the call writes its row, and the event ledger is     *)
(* written last, in commits of their own.  Administrators rotate, activate *)
(* and revoke the application and edit the directory's rows.               *)
(***************************************************************************)
EXTENDS Requests, Sequences, FiniteSets

CONSTANTS
    ExternalIds,        \* the directory's identifiers of its users
    Abilities           \* values of allow_create_users / allow_update_users

VARIABLES
    application,        \* the ScimApplication row
    handedOut,          \* the number of tokens made so far
    directory,          \* the DirectoryUser row of each external id
    group,              \* the DirectoryGroup row and its members
    ledger,             \* the ScimProvisioningEvent rows
    syncJobs,           \* the ScimSyncJob rows
    births              \* rows inserted for each external id

scimVars == <<application, handedOut, directory, group, ledger, syncJobs, births>>

NoEntry == [there |-> FALSE, status |-> "none", active |-> FALSE]
DirectoryUser == [there: {TRUE}, status: {"active", "suspended", "deprovisioned"},
                  active: BOOLEAN]
DirectoryGroup == [there: BOOLEAN, members: SUBSET ExternalIds]
ScimSyncJob == {"queued", "running", "completed"}
ScimEvent == [type: {"user_created", "user_updated", "user_deactivated", "group_updated",
                     "token_rotated", "running", "completed"},
              id: ExternalIds \cup {""}]

ScimApplication == [status: {"draft", "active", "revoked"}, token: Nat \ {0},
                    mayCreate: Abilities, mayUpdate: Abilities]

ScimTypes ==
    /\ application \in ScimApplication /\ application.token <= handedOut
    /\ directory \in [ExternalIds -> DirectoryUser \cup {NoEntry}]
    /\ group \in DirectoryGroup
    /\ ledger \in Seq(ScimEvent)
    /\ syncJobs \in Seq(ScimSyncJob)
    /\ births \in [ExternalIds -> Nat]

(* Creating the application makes its first token.                         *)
ScimInit ==
    /\ application \in [status: {"draft"}, token: {1}, mayCreate: Abilities, mayUpdate: Abilities]
    /\ handedOut = 1
    /\ directory = [x \in ExternalIds |-> NoEntry]
    /\ group = [there |-> FALSE, members |-> {}]
    /\ ledger = <<>> /\ syncJobs = <<>>
    /\ births = [x \in ExternalIds |-> 0]

-----------------------------------------------------------------------------
(* The administrator's side.  PATCH saves the whole row it read: it brings *)
(* back a token rotated, or a status left, in between.                     *)
RotateScimToken ==
    /\ Serve
    /\ handedOut' = handedOut + 1
    /\ application' = [application EXCEPT !.token = handedOut + 1]
    /\ ledger' = Append(ledger, [type |-> "token_rotated", id |-> ""])
    /\ UNCHANGED <<directory, group, syncJobs, births>>

SetApplicationStatus(status) ==
    /\ Serve
    /\ application' = [application EXCEPT !.status = status]
    /\ UNCHANGED <<handedOut, directory, group, ledger, syncJobs, births>>

PatchApplicationRead(w, create, update) ==
    /\ Begin(w, [op |-> "application",
                 new |-> [application EXCEPT !.mayCreate = create, !.mayUpdate = update]])
    /\ UNCHANGED scimVars

PatchApplicationSave(w) ==
    /\ Holds(w, "application")
    /\ application' = request[w].new
    /\ End(w)
    /\ UNCHANGED <<handedOut, directory, group, ledger, syncJobs, births>>

-----------------------------------------------------------------------------
(* _authenticate_scim_application: an active application and its hash.     *)
Authenticated(token) == application.status = "active" /\ token = application.token

Known(x) == directory[x].there

CallUpsert(w, x, active, token) ==
    /\ Authenticated(token)
    /\ Begin(w, [op |-> "upsert", id |-> x, active |-> active, app |-> application])
    /\ UNCHANGED scimVars

(* The two abilities are asked of the application as it was loaded.        *)
CheckAbilities(w) ==
    /\ Holds(w, "upsert")
    /\ LET r == request[w] IN
       IF (~Known(r.id) /\ ~r.app.mayCreate) \/ (Known(r.id) /\ ~r.app.mayUpdate)
       THEN End(w)
       ELSE Proceed(w, [op |-> "store", id |-> r.id, active |-> r.active, seen |-> Known(r.id)])
    /\ UNCHANGED scimVars

Entry(active) == [there |-> TRUE, active |-> active,
                  status |-> IF active THEN "active" ELSE "suspended"]

(* The view asks for the row before it is stored.                          *)
CreatedIfUnseen(x, seen) == ~seen

(* update_or_create says itself whether it inserted the row.               *)
Created(x, seen) == ~Known(x)

StoreDirectoryUser(w) ==
    /\ Holds(w, "store")
    /\ LET r == request[w] IN
       /\ directory' = [directory EXCEPT ![r.id] = Entry(r.active)]
       /\ births' = IF Known(r.id) THEN births ELSE [births EXCEPT ![r.id] = @ + 1]
       /\ Proceed(w, [op |-> "ledger", id |-> r.id,
                      type |-> IF Created(r.id, r.seen) THEN "user_created"
                               ELSE "user_updated"])
    /\ UNCHANGED <<application, handedOut, group, ledger, syncJobs>>

Deprovisioned(entry) == [entry EXCEPT !.active = FALSE, !.status = "deprovisioned"]

(* mark_deprovisioned, by the directory or by an administrator.            *)
Deactivate(w, x, token) ==
    /\ Authenticated(token) \/ token = 0        \* an administrator carries none
    /\ Known(x)
    /\ directory' = [directory EXCEPT ![x] = Deprovisioned(@)]
    /\ Begin(w, [op |-> "ledger", id |-> x, type |-> "user_deactivated"])
    /\ UNCHANGED <<application, handedOut, group, ledger, syncJobs, births>>

RecordEvent(w) ==
    /\ Holds(w, "ledger")
    /\ ledger' = Append(ledger, [type |-> request[w].type, id |-> request[w].id])
    /\ End(w)
    /\ UNCHANGED <<application, handedOut, directory, group, syncJobs, births>>

-----------------------------------------------------------------------------
(* The administrator's own POST, PATCH and DELETE of a directory user      *)
(* write no event; status and active are set apart from one another.       *)
PostDirectoryUser(x) ==
    /\ Serve
    /\ ~Known(x)
    /\ directory' = [directory EXCEPT ![x] = Entry(TRUE)]
    /\ births' = [births EXCEPT ![x] = @ + 1]
    /\ UNCHANGED <<application, handedOut, group, ledger, syncJobs>>

PatchDirectoryUserRead(w, x, active) ==
    /\ Known(x)
    /\ Begin(w, [op |-> "user", id |-> x, new |-> [directory[x] EXCEPT !.active = active]])
    /\ UNCHANGED scimVars

(* Saving a row that was deleted meanwhile inserts it again.               *)
PatchDirectoryUserSave(w) ==
    /\ Holds(w, "user")
    /\ LET x == request[w].id IN
       /\ directory' = [directory EXCEPT ![x] = request[w].new]
       /\ births' = IF Known(x) THEN births ELSE [births EXCEPT ![x] = @ + 1]
    /\ End(w)
    /\ UNCHANGED <<application, handedOut, group, ledger, syncJobs>>

DeleteDirectoryUser(x) ==
    /\ Serve
    /\ Known(x)
    /\ directory' = [directory EXCEPT ![x] = NoEntry]
    /\ group' = [group EXCEPT !.members = @ \ {x}]
    /\ UNCHANGED <<application, handedOut, ledger, syncJobs, births>>

(* A group is upserted, then its known members are linked; a member the    *)
(* directory no longer names stays linked.                                 *)
UpsertGroup(w, members, token) ==
    /\ Authenticated(token)
    /\ group' = [group EXCEPT !.there = TRUE]
    /\ Begin(w, [op |-> "members", todo |-> members])
    /\ UNCHANGED <<application, handedOut, directory, ledger, syncJobs, births>>

LinkMember(w, x) ==
    /\ Holds(w, "members")
    /\ x \in request[w].todo
    /\ group' = IF Known(x) THEN [group EXCEPT !.members = @ \cup {x}] ELSE group
    /\ Proceed(w, [request[w] EXCEPT !.todo = @ \ {x}])
    /\ UNCHANGED <<application, handedOut, directory, ledger, syncJobs, births>>

RecordGroup(w) ==
    /\ Holds(w, "members")
    /\ request[w].todo = {}
    /\ ledger' = Append(ledger, [type |-> "group_updated", id |-> ""])
    /\ End(w)
    /\ UNCHANGED <<application, handedOut, directory, group, syncJobs, births>>

(* A sync job is only bookkeeping: any job may be started or completed.    *)
AskSync ==
    /\ Serve
    /\ syncJobs' = Append(syncJobs, "queued")
    /\ UNCHANGED <<application, handedOut, directory, group, ledger, births>>

MarkSync(n, status) ==
    /\ Serve
    /\ syncJobs' = [syncJobs EXCEPT ![n] = status]
    /\ ledger' = Append(ledger, [type |-> status, id |-> ""])
    /\ UNCHANGED <<application, handedOut, directory, group, births>>

ScimNext ==
    \/ RotateScimToken \/ AskSync
    \/ \E status \in {"active", "revoked"} : SetApplicationStatus(status)
    \/ \E w \in Workers, c \in Abilities, u \in Abilities : PatchApplicationRead(w, c, u)
    \/ \E w \in Workers, x \in ExternalIds, active \in BOOLEAN, token \in 1..handedOut :
         CallUpsert(w, x, active, token)
    \/ \E w \in Workers, x \in ExternalIds, token \in 0..handedOut : Deactivate(w, x, token)
    \/ \E w \in Workers, members \in SUBSET ExternalIds, token \in 1..handedOut :
         UpsertGroup(w, members, token)
    \/ \E w \in Workers : PatchApplicationSave(w) \/ CheckAbilities(w) \/ StoreDirectoryUser(w)
                          \/ RecordEvent(w) \/ PatchDirectoryUserSave(w) \/ RecordGroup(w)
    \/ \E w \in Workers, x \in ExternalIds, active \in BOOLEAN :
        PatchDirectoryUserRead(w, x, active)
    \/ \E x \in ExternalIds : PostDirectoryUser(x) \/ DeleteDirectoryUser(x)
    \/ \E w \in Workers, x \in ExternalIds : LinkMember(w, x)
    \/ \E n \in DOMAIN syncJobs, status \in {"running", "completed"} : MarkSync(n, status)
    \/ \E w \in Workers : Abandon(w) /\ UNCHANGED scimVars

ScimSpec == RequestsInit /\ ScimInit /\ [][ScimNext]_<<requestVars, scimVars>>

-----------------------------------------------------------------------------
CreationsOf(x) ==
    Cardinality({n \in DOMAIN ledger : ledger[n] = [type |-> "user_created", id |-> x]})

(* The ledger never tells of a user being created more often than a row    *)
(* was inserted, however the directory's calls overlap; a creation may be  *)
(* missing (scim_provisioning/serializers.py:240, views.py:246).           *)
CreationsAreTold == \A x \in ExternalIds : CreationsOf(x) <= births[x]
=============================================================================
