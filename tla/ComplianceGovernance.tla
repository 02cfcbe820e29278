------------------------ MODULE ComplianceGovernance ------------------------
(***************************************************************************)
(* Policy documents and their acceptance, two-person approvals, audit      *)
(* exports and evidence packs.  A review loads the row, then saves the     *)
(* review's columns together; PATCH of a document or a pack saves the      *)
(* whole row it read.                                                      *)
(***************************************************************************)
EXTENDS Requests, Sequences, FiniteSets

CONSTANTS
    Staff               \* people who may request and review

VARIABLES
    document,           \* one PolicyDocument row
    acceptances,        \* UserPolicyAcceptance rows of one user: their organization
    approvals,          \* the AdminApprovalRequest rows
    auditExports,       \* the AuditExport rows
    packs               \* the EvidencePack rows

complianceVars == <<document, acceptances, approvals, auditExports, packs>>

Nobody == "nobody"

ASSUME NobodyIsNotStaff == Nobody \notin Staff

PolicyDocument == [active: BOOLEAN, published: BOOLEAN, retired: BOOLEAN]
Approval == [requestedBy: Staff, status: {"pending", "approved", "rejected"},
             reviewedBy: Staff \cup {Nobody}]
EvidencePack == [status: {"draft", "locked"}, lockedBy: Staff \cup {Nobody}]

UserPolicyAcceptance == {"", "o1"}           \* by its organization, "" for none
AuditExport == {"requested", "ready"}        \* by its status

ComplianceTypes ==
    /\ document \in PolicyDocument
    /\ acceptances \in Seq(UserPolicyAcceptance)
    /\ approvals \in Seq(Approval)
    /\ auditExports \in Seq(AuditExport)
    /\ packs \in Seq(EvidencePack)

ComplianceInit ==
    /\ document = [active |-> FALSE, published |-> FALSE, retired |-> FALSE]
    /\ acceptances = <<>> /\ approvals = <<>> /\ auditExports = <<>> /\ packs = <<>>

-----------------------------------------------------------------------------
(* publish() looks at neither retirement nor the versions already active.  *)
PublishDocument ==
    /\ Serve
    /\ document' = [document EXCEPT !.active = TRUE, !.published = TRUE]
    /\ UNCHANGED <<acceptances, approvals, auditExports, packs>>

PatchDocumentRead(w, retired) ==
    /\ Begin(w, [op |-> "document", new |-> [document EXCEPT !.retired = retired]])
    /\ UNCHANGED complianceVars

PatchDocumentSave(w) ==
    /\ Holds(w, "document")
    /\ document' = request[w].new
    /\ End(w)
    /\ UNCHANGED <<acceptances, approvals, auditExports, packs>>

(* get_or_create: the unique key covers no acceptance without              *)
(* organization, so two of them may be inserted side by side.              *)
AcceptPolicyRead(w, org) ==
    /\ \A n \in DOMAIN acceptances : acceptances[n] # org
    /\ Begin(w, [op |-> "accept", organization |-> org])
    /\ UNCHANGED complianceVars

AcceptPolicyInsert(w) ==
    /\ Holds(w, "accept")
    /\ LET org == request[w].organization
           taken == org # "" /\ \E n \in DOMAIN acceptances : acceptances[n] = org
       IN acceptances' = IF taken THEN acceptances ELSE Append(acceptances, org)
    /\ End(w)
    /\ UNCHANGED <<document, approvals, auditExports, packs>>

-----------------------------------------------------------------------------
RequestApproval(s) ==
    /\ Serve
    /\ approvals' = Append(approvals, [requestedBy |-> s, status |-> "pending",
                                       reviewedBy |-> Nobody])
    /\ UNCHANGED <<document, acceptances, auditExports, packs>>

(* The row is loaded before it is reviewed; neither its status nor its     *)
(* expiry is asked.                                                        *)
OpenReview(w, n, s, verdict) ==
    /\ Begin(w, [op |-> "review", row |-> n, by |-> s, verdict |-> verdict])
    /\ UNCHANGED complianceVars

MayReview(s, verdict, requester) == verdict = "approved" => s # requester

(* The first reviewer is kept.                                             *)
ReviewedOnce(row, by, verdict) ==
    [row EXCEPT !.status = verdict, !.reviewedBy = IF @ = Nobody THEN by ELSE @]

Reviewed(row, by, verdict) == [row EXCEPT !.status = verdict, !.reviewedBy = by]

SaveApproval(w) ==
    /\ Holds(w, "review")
    /\ LET r == request[w]
           row == approvals[r.row]
       IN approvals' = IF MayReview(r.by, r.verdict, row.requestedBy)
                       THEN [approvals EXCEPT ![r.row] = Reviewed(row, r.by, r.verdict)]
                       ELSE approvals       \* ValueError, not answered by the view
    /\ End(w)
    /\ UNCHANGED <<document, acceptances, auditExports, packs>>

-----------------------------------------------------------------------------
RequestAuditExport ==
    /\ Serve
    /\ auditExports' = Append(auditExports, "requested")
    /\ UNCHANGED <<document, acceptances, approvals, packs>>

MarkReady(n) ==
    /\ Serve
    /\ auditExports' = [auditExports EXCEPT ![n] = "ready"]
    /\ UNCHANGED <<document, acceptances, approvals, packs>>

CreatePack ==
    /\ Serve
    /\ packs' = Append(packs, [status |-> "draft", lockedBy |-> Nobody])
    /\ UNCHANGED <<document, acceptances, approvals, auditExports>>

(* lock() tests the row the view has loaded.                               *)
LockPackRead(w, n, s) ==
    /\ Begin(w, [op |-> "lock", row |-> n, by |-> s, status |-> packs[n].status])
    /\ UNCHANGED complianceVars

LockPackSave(w) ==
    /\ Holds(w, "lock")
    /\ packs' = IF request[w].status = "draft"
                THEN [packs EXCEPT ![request[w].row] =
                         [status |-> "locked", lockedBy |-> request[w].by]]
                ELSE packs
    /\ End(w)
    /\ UNCHANGED <<document, acceptances, approvals, auditExports>>

(* A locked pack may still be changed, and a change that was begun before  *)
(* the lock unlocks it.                                                    *)
PatchPackRead(w, n) ==
    /\ Begin(w, [op |-> "pack", row |-> n, new |-> packs[n]])
    /\ UNCHANGED complianceVars

PatchPackSave(w) ==
    /\ Holds(w, "pack")
    /\ packs' = [packs EXCEPT ![request[w].row] = request[w].new]
    /\ End(w)
    /\ UNCHANGED <<document, acceptances, approvals, auditExports>>

ComplianceNext ==
    \/ PublishDocument \/ RequestAuditExport \/ CreatePack
    \/ \E w \in Workers, retired \in BOOLEAN : PatchDocumentRead(w, retired)
    \/ \E w \in Workers, org \in UserPolicyAcceptance : AcceptPolicyRead(w, org)
    \/ \E w \in Workers : PatchDocumentSave(w) \/ AcceptPolicyInsert(w) \/ SaveApproval(w)
                          \/ LockPackSave(w) \/ PatchPackSave(w)
    \/ \E s \in Staff : RequestApproval(s)
    \/ \E w \in Workers, n \in DOMAIN approvals, s \in Staff, v \in {"approved", "rejected"} :
         OpenReview(w, n, s, v)
    \/ \E n \in DOMAIN auditExports : MarkReady(n)
    \/ \E w \in Workers, n \in DOMAIN packs, s \in Staff : LockPackRead(w, n, s)
    \/ \E w \in Workers, n \in DOMAIN packs : PatchPackRead(w, n)
    \/ \E w \in Workers : Abandon(w) /\ UNCHANGED complianceVars

ComplianceSpec ==
    RequestsInit /\ ComplianceInit /\ [][ComplianceNext]_<<requestVars, complianceVars>>

-----------------------------------------------------------------------------
(* Two persons stand behind an approval, whatever reviews overlap or       *)
(* follow one another: the reviewer on record of an approved request is    *)
(* somebody, and not its requester (models.py:134, :142).                  *)
ApprovedByAnother ==
    \A n \in DOMAIN approvals : approvals[n].status = "approved" =>
        approvals[n].reviewedBy \notin {Nobody, approvals[n].requestedBy}
=============================================================================
