-------------------------- MODULE IdentityHardening --------------------------
(***************************************************************************)
(* Passkeys, trusted devices and step-up proofs.  Passkeys and devices are *)
(* kept in the same way: a row per hash of what the client presented,      *)
(* registered by update_or_create, which hands a known row to whoever      *)
(* presents its identifier.  Each change of a row is one commit, the entry *)
(* in the assurance ledger another.                                        *)
(***************************************************************************)
EXTENDS Requests, Integers, Sequences, FiniteSets

CONSTANTS
    PasskeyIds,         \* identifiers of passkeys
    DeviceIds,          \* and of devices
    Triggers,           \* StepUpPolicy.Trigger
    Methods,            \* StepUpPolicy.RequiredMethod
    Holders             \* the people who present them

ASSUME SomeHolder == Holders # {}

VARIABLES
    enrolled,           \* the PasskeyCredential or TrustedDevice row of each identifier
    inserted,           \* rows inserted so far: the next primary key
    proofs,             \* the StepUpSession rows
    assurance,          \* the IdentityAssuranceEvent rows, counted by type
    changes,            \* the commits that call for an entry, by its type
    lost                \* those whose worker died before it wrote the entry

identityVars == <<enrolled, inserted, proofs, assurance, changes, lost>>

Ids == PasskeyIds \cup DeviceIds
PasskeyCredential ==
    [pk: Nat, owner: Holders, status: {"active", "disabled", "revoked", "none"},
     revokedAt: BOOLEAN]
TrustedDevice ==
    [pk: Nat, owner: Holders, status: {"active", "untrusted", "revoked", "expired", "none"},
     revokedAt: BOOLEAN]
Proof == [user: Holders, trigger: Triggers, method: Methods, state: {"valid", "expired", "revoked"}]
EntryTypes == {"passkey.registered", "passkey.revoked", "trusted_device.remembered",
               "trusted_device.revoked", "step_up.satisfied"}

There(id) == enrolled[id].status # "none"

IdentityAssuranceEvent == [EntryTypes -> Nat]        \* the ledger, counted by type

IdentityTypes ==
    /\ DOMAIN enrolled = Ids
    /\ \A id \in PasskeyIds : enrolled[id] \in PasskeyCredential
    /\ \A id \in DeviceIds : enrolled[id] \in TrustedDevice
    /\ \A id \in Ids : enrolled[id].pk <= inserted
    /\ proofs \in Seq(Proof)
    /\ {assurance, changes, lost} \subseteq IdentityAssuranceEvent

IdentityInit ==
    /\ enrolled = [id \in Ids |-> [pk |-> 0, owner |-> CHOOSE u \in Holders : TRUE,
                                   status |-> "none", revokedAt |-> FALSE]]
    /\ inserted = 0 /\ proofs = <<>>
    /\ assurance = [t \in EntryTypes |-> 0]
    /\ changes = assurance /\ lost = assurance

(* A change is committed; the entry that tells of it comes next.           *)
Owes(type) == [op |-> "tell", type |-> type]
Committed(type) == changes' = [changes EXCEPT ![type] = @ + 1]

-----------------------------------------------------------------------------
(* register_passkey_metadata and remember_trusted_device.  A known row     *)
(* gets the caller as its owner and is active again; revoked_at stays.     *)
EnrolledType(id) ==
    IF id \in PasskeyIds THEN "passkey.registered" ELSE "trusted_device.remembered"
RevokedType(id) == IF id \in PasskeyIds THEN "passkey.revoked" ELSE "trusted_device.revoked"

Enroll(w, u, id) ==
    /\ enrolled' = [enrolled EXCEPT ![id] =
                       [pk |-> IF There(id) THEN @.pk ELSE inserted + 1, owner |-> u,
                        status |-> "active", revokedAt |-> There(id) /\ @.revokedAt]]
    /\ inserted' = IF There(id) THEN inserted ELSE inserted + 1
    /\ Begin(w, Owes(EnrolledType(id)))
    /\ Committed(EnrolledType(id))
    /\ UNCHANGED <<proofs, assurance, lost>>

(* revoke reads the caller's row, then updates two columns of it by        *)
(* primary key: a row deleted in between is an error and no entry.         *)
RevokeRead(w, u, id) ==
    /\ There(id) /\ enrolled[id].owner = u
    /\ Begin(w, [op |-> "revoke", id |-> id, pk |-> enrolled[id].pk])
    /\ UNCHANGED identityVars

RevokeSave(w) ==
    /\ Holds(w, "revoke")
    /\ LET id == request[w].id
       IN  IF There(id) /\ enrolled[id].pk = request[w].pk
           THEN /\ enrolled' = [enrolled EXCEPT ![id].status = "revoked", ![id].revokedAt = TRUE]
                /\ Proceed(w, Owes(RevokedType(id)))
                /\ Committed(RevokedType(id))
           ELSE End(w) /\ UNCHANGED <<enrolled, changes>>
    /\ UNCHANGED <<inserted, proofs, assurance, lost>>

(* PATCH saves the whole row as it was read, owner and revocation          *)
(* included; only a passkey's status may be sent.  A row deleted in        *)
(* between is inserted again, unless its identifier is taken by then.      *)
PatchRead(w, u, id, status) ==
    /\ There(id) /\ enrolled[id].owner = u
    /\ id \in DeviceIds => status = enrolled[id].status
    /\ Begin(w, [op |-> "save", id |-> id, row |-> [enrolled[id] EXCEPT !.status = status]])
    /\ UNCHANGED identityVars

PatchSave(w) ==
    /\ Holds(w, "save")
    /\ LET id == request[w].id
           row == request[w].row
       IN  enrolled' = IF There(id) /\ enrolled[id].pk # row.pk THEN enrolled
                       ELSE [enrolled EXCEPT ![id] = row]
    /\ End(w)
    /\ UNCHANGED <<inserted, proofs, assurance, changes, lost>>

DeleteRow(u, id) ==
    /\ Serve
    /\ There(id) /\ enrolled[id].owner = u
    /\ enrolled' = [enrolled EXCEPT ![id].status = "none"]
    /\ UNCHANGED <<inserted, proofs, assurance, changes, lost>>

-----------------------------------------------------------------------------
(* Step-up proofs: satisfied by a request, revoked without an entry.       *)
SatisfyStepUp(w, u, trigger, method) ==
    /\ proofs' = Append(proofs, [user |-> u, trigger |-> trigger, method |-> method,
                                 state |-> "valid"])
    /\ Begin(w, Owes("step_up.satisfied"))
    /\ Committed("step_up.satisfied")
    /\ UNCHANGED <<enrolled, inserted, assurance, lost>>

RevokeStepUp(n) ==
    /\ Serve
    /\ proofs' = [proofs EXCEPT ![n].state = "revoked"]
    /\ UNCHANGED <<enrolled, inserted, assurance, changes, lost>>

StepUpExpires(n) ==
    /\ proofs[n].state = "valid"
    /\ proofs' = [proofs EXCEPT ![n].state = "expired"]
    /\ UNCHANGED <<enrolled, inserted, assurance, changes, lost, requestVars>>

-----------------------------------------------------------------------------
RecordIdentityEvent(w) ==
    /\ Holds(w, "tell")
    /\ assurance' = [assurance EXCEPT ![request[w].type] = @ + 1]
    /\ End(w)
    /\ UNCHANGED <<enrolled, inserted, proofs, changes, lost>>

WorkerDies(w) ==
    /\ Abandon(w)
    /\ lost' = IF Holds(w, "tell") THEN [lost EXCEPT ![request[w].type] = @ + 1] ELSE lost
    /\ UNCHANGED <<enrolled, inserted, proofs, assurance, changes>>

IdentityNext ==
    \/ \E w \in Workers, u \in Holders, id \in Ids :
         \/ Enroll(w, u, id) \/ RevokeRead(w, u, id)
         \/ \E status \in {"active", "disabled", "revoked"} : PatchRead(w, u, id, status)
    \/ \E w \in Workers : RevokeSave(w) \/ PatchSave(w) \/ RecordIdentityEvent(w) \/ WorkerDies(w)
    \/ \E u \in Holders, id \in Ids : DeleteRow(u, id)
    \/ \E w \in Workers, u \in Holders, t \in Triggers, m \in Methods : SatisfyStepUp(w, u, t, m)
    \/ \E n \in DOMAIN proofs : RevokeStepUp(n) \/ StepUpExpires(n)

-----------------------------------------------------------------------------
Telling(type) == {w \in Workers : request[w] = Owes(type)}

(* The ledger tells of every registration and revocation of a passkey or   *)
(* device and of every proof once: what it lacks is being written, or its  *)
(* worker died between the two commits (identity_hardening/services.py:60, *)
(* :82, :96 and views.py:81, :102).  A PATCH, a DELETE and the revocation  *)
(* of a proof write no entry.                                              *)
LedgerFollowsChanges ==
    \A t \in EntryTypes : assurance[t] + Cardinality(Telling(t)) + lost[t] = changes[t]
=============================================================================
