-------------------------- MODULE Platform_proofs ---------------------------
(***************************************************************************)
(* Approvals, retention jobs, velocity rules, notices and product usage    *)
(* for any staff, assets, rules, channels, subjects, limits and workers,   *)
(* and the eight apps together as TLC runs them.                           *)
(***************************************************************************)
EXTENDS MCPlatform, Identity_proofs, Requests_proofs, Sums_proofs

(***************************************************************************)
(* Two persons stand behind every approval.  The invariant adds what an    *)
(* open review holds: the place of a row that exists and a reviewer who is *)
(* staff (ReviewsHeld).                                                    *)
(***************************************************************************)

Verdicts == {"approved", "rejected"}

ReviewsHeld ==
    \A w \in Workers : Holds(w, "review") =>
        /\ request[w].row \in 1..Len(approvals)
        /\ request[w].by \in Staff
        /\ request[w].verdict \in Verdicts

ComplianceInv ==
    /\ request = [w \in Workers |-> request[w]]
    /\ approvals \in Seq(Approval)
    /\ ReviewsHeld
    /\ ApprovedByAnother

LEMMA InitComplianceInv == RequestsInit /\ ComplianceInit => ComplianceInv
BY DEF RequestsInit, ComplianceInit, ComplianceInv, ReviewsHeld, ApprovedByAnother, Holds, Idle

(* A step that leaves the approvals alone, and opens no review, keeps the  *)
(* invariant.                                                              *)
LEMMA Untouched ==
    ASSUME ComplianceInv, approvals' = approvals, request' = [w \in Workers |-> request'[w]],
           \A w \in Workers : request'[w].op = "review" => request'[w] = request[w]
    PROVE  ComplianceInv'
BY DEF ComplianceInv, ReviewsHeld, ApprovedByAnother, Holds

LEMMA BeginOther ==
    ASSUME ComplianceInv, NEW w \in Workers, NEW held, Begin(w, held), held.op # "review"
    PROVE  /\ request' = [v \in Workers |-> request'[v]]
           /\ \A v \in Workers : request'[v].op = "review" => request'[v] = request[v]
BY DEF ComplianceInv, Begin

LEMMA EndAny ==
    ASSUME ComplianceInv, NEW w \in Workers, End(w)
    PROVE  /\ request' = [v \in Workers |-> request'[v]]
           /\ \A v \in Workers : request'[v].op = "review" => request'[v] = request[v]
BY DEF ComplianceInv, End, Proceed, Idle

LEMMA ReviewedRow ==
    ASSUME NEW row \in Approval, NEW by \in Staff, NEW verdict \in Verdicts
    PROVE  /\ Reviewed(row, by, verdict) \in Approval
           /\ Reviewed(row, by, verdict).requestedBy = row.requestedBy
           /\ Reviewed(row, by, verdict).status = verdict
           /\ Reviewed(row, by, verdict).reviewedBy = by
BY DEF Approval, Reviewed, Verdicts

LEMMA StepComplianceInv ==
    ComplianceInv /\ [ComplianceNext]_<<requestVars, complianceVars>> => ComplianceInv'
<1>. SUFFICES ASSUME ComplianceInv, [ComplianceNext]_<<requestVars, complianceVars>>
              PROVE  ComplianceInv'
  OBVIOUS
<1>1. CASE UNCHANGED <<requestVars, complianceVars>>
  BY <1>1, Untouched DEF requestVars, complianceVars, ComplianceInv
<1>2. CASE PublishDocument \/ RequestAuditExport \/ CreatePack
           \/ \E n \in DOMAIN auditExports : MarkReady(n)
  BY <1>2, Untouched DEF PublishDocument, RequestAuditExport, CreatePack, MarkReady, Serve,
                         ComplianceInv
<1>3. ASSUME NEW w \in Workers, NEW retired \in BOOLEAN, PatchDocumentRead(w, retired)
      PROVE  ComplianceInv'
  <2>. DEFINE held == [op |-> "document", new |-> [document EXCEPT !.retired = retired]]
  <2>1. Begin(w, held) /\ held.op # "review" /\ approvals' = approvals
    BY <1>3 DEF PatchDocumentRead, complianceVars
  <2>. HIDE DEF held
  <2>. QED BY <2>1, BeginOther, Untouched
<1>4. ASSUME NEW w \in Workers, NEW org, AcceptPolicyRead(w, org) PROVE ComplianceInv'
  <2>1. Begin(w, [op |-> "accept", organization |-> org]) /\ approvals' = approvals
    BY <1>4 DEF AcceptPolicyRead, complianceVars
  <2>. QED BY <2>1, BeginOther, Untouched
<1>5. ASSUME NEW w \in Workers, PatchDocumentSave(w) \/ AcceptPolicyInsert(w)
                                \/ LockPackSave(w) \/ PatchPackSave(w)
      PROVE  ComplianceInv'
  <2>1. End(w) /\ approvals' = approvals
    BY <1>5 DEF PatchDocumentSave, AcceptPolicyInsert, LockPackSave, PatchPackSave
  <2>. QED BY <2>1, EndAny, Untouched
<1>6. ASSUME NEW w \in Workers, SaveApproval(w) PROVE ComplianceInv'
  <2>. DEFINE r == request[w]
              new == Reviewed(approvals[r.row], r.by, r.verdict)
  <2>1. /\ r.row \in 1..Len(approvals) /\ r.by \in Staff /\ r.verdict \in Verdicts
        /\ approvals[r.row] \in Approval
    BY <1>6 DEF SaveApproval, ComplianceInv, ReviewsHeld
  <2>2. approvals' = IF MayReview(r.by, r.verdict, approvals[r.row].requestedBy)
                     THEN [approvals EXCEPT ![r.row] = new]
                     ELSE approvals
    BY <1>6 DEF SaveApproval
  <2>3. new \in Approval /\ new.requestedBy = approvals[r.row].requestedBy
        /\ new.status = r.verdict /\ new.reviewedBy = r.by
    BY <2>1, ReviewedRow
  <2>. HIDE DEF new
  <2>4. approvals' \in Seq(Approval) /\ Len(approvals') = Len(approvals)
    BY <2>1, <2>2, <2>3 DEF ComplianceInv
  <2>5. ApprovedByAnother'
    BY <2>1, <2>2, <2>3, <2>4, NobodyIsNotStaff
       DEF ComplianceInv, ApprovedByAnother, MayReview, Verdicts
  <2>6. End(w)
    BY <1>6 DEF SaveApproval
  <2>. QED BY <2>4, <2>5, <2>6, EndAny DEF ComplianceInv, ReviewsHeld, Holds
<1>7. ASSUME NEW s \in Staff, RequestApproval(s) PROVE ComplianceInv'
  <2>. DEFINE new == [requestedBy |-> s, status |-> "pending", reviewedBy |-> Nobody]
  <2>1. new \in Approval /\ approvals' = Append(approvals, new) /\ request' = request
    BY <1>7 DEF RequestApproval, Serve, Approval
  <2>. QED BY <2>1 DEF ComplianceInv, ReviewsHeld, ApprovedByAnother, Holds
<1>8. ASSUME NEW w \in Workers, NEW n \in DOMAIN approvals, NEW s \in Staff,
             NEW v \in Verdicts, OpenReview(w, n, s, v)
      PROVE  ComplianceInv'
  BY <1>8 DEF OpenReview, Begin, complianceVars, ComplianceInv, ReviewsHeld,
              ApprovedByAnother, Holds
<1>9. ASSUME NEW w \in Workers, NEW n \in DOMAIN packs, NEW s \in Staff, LockPackRead(w, n, s)
      PROVE  ComplianceInv'
  <2>1. Begin(w, [op |-> "lock", row |-> n, by |-> s, status |-> packs[n].status])
        /\ approvals' = approvals
    BY <1>9 DEF LockPackRead, complianceVars
  <2>. QED BY <2>1, BeginOther, Untouched
<1>10. ASSUME NEW w \in Workers, NEW n \in DOMAIN packs, PatchPackRead(w, n) PROVE ComplianceInv'
  <2>1. Begin(w, [op |-> "pack", row |-> n, new |-> packs[n]]) /\ approvals' = approvals
    BY <1>10 DEF PatchPackRead, complianceVars
  <2>. QED BY <2>1, BeginOther, Untouched
<1>11. ASSUME NEW w \in Workers, Abandon(w), UNCHANGED complianceVars PROVE ComplianceInv'
  BY <1>11, EndAny, Untouched DEF Abandon, complianceVars
<1>. QED
  BY <1>1, <1>2, <1>3, <1>4, <1>5, <1>6, <1>7, <1>8, <1>9, <1>10, <1>11
     DEF ComplianceNext, Verdicts

-----------------------------------------------------------------------------
(* An approved request names a reviewer, and not its requester             *)
(* (compliance/models.py:134, :142).                                       *)
THEOREM ApprovalsNeedTwo == ComplianceSpec => []ApprovedByAnother
<1>1. ComplianceInv => ApprovedByAnother
  BY DEF ComplianceInv
<1>. QED BY <1>1, InitComplianceInv, StepComplianceInv, PTL DEF ComplianceSpec

(***************************************************************************)
(* Retention jobs.  A worker counts what it has recorded for its job, and  *)
(* runs a job that is under hold only when the job is marked unheld        *)
(* (RunHeld): the row it saves is what the records say (JobOK).            *)
(***************************************************************************)

Recorded(rs, n) == {m \in DOMAIN rs : rs[m].job = n}

JobRequest == [op: {"job", "running"}, job: Nat, row: RetentionJob, force: BOOLEAN]
AssetsRequest == [op: {"assets"}, job: Nat, processed: Nat, todo: SUBSET Assets]

(* What a worker holds of the jobs js and the records rs.                  *)
RunHeld(held, js, rs) ==
    /\ held.op \in {"job", "running"} =>
         /\ held \in JobRequest /\ held.job \in DOMAIN js
         /\ held.row.policy = js[held.job].policy /\ held.row.blocked = js[held.job].blocked
         /\ (held.op = "running" /\ held.force) => js[held.job].unheld
    /\ held.op = "assets" =>
         /\ held \in AssetsRequest /\ held.job \in DOMAIN js
         /\ held.processed <= Cardinality(Recorded(rs, held.job))
         /\ (js[held.job].blocked > 0 => js[held.job].unheld)

(* Job n has on record what it counts, and nothing while it is held.       *)
JobOK(js, n, ex, rs) ==
    /\ js[n].processed <= Cardinality(Recorded(rs, n))
    /\ (js[n].blocked > 0 /\ ~ js[n].unheld) => Recorded(rs, n) = {} /\ ex[js[n].policy]

GovInv ==
    /\ RequestsOK /\ GovernanceTypes
    /\ \A m \in DOMAIN records : records[m].job \in DOMAIN jobs
    /\ \A w \in Workers : RunHeld(request[w], jobs, records)
    /\ \A n \in DOMAIN jobs : JobOK(jobs, n, exempt, records)

-----------------------------------------------------------------------------
(* A job stays what it was planned as.                                     *)
Grown(js, new) ==
    /\ new \in Seq(RetentionJob) /\ DOMAIN js \subseteq DOMAIN new
    /\ \A n \in DOMAIN js : /\ new[n].policy = js[n].policy /\ new[n].blocked = js[n].blocked
                            /\ js[n].unheld => new[n].unheld

LEMMA RecordedIsFinite ==
    ASSUME NEW rs \in Seq(AnonymizationRecord), NEW n
    PROVE  IsFiniteSet(Recorded(rs, n)) /\ Cardinality(Recorded(rs, n)) \in Nat
<1>1. DOMAIN rs = 1 .. Len(rs) /\ Len(rs) \in Nat
  OBVIOUS
<1>2. IsFiniteSet(DOMAIN rs)
  BY <1>1, FS_Interval
<1>3. Recorded(rs, n) \in SUBSET DOMAIN rs
  BY DEF Recorded
<1>4. IsFiniteSet(Recorded(rs, n))
  BY <1>2, <1>3, FS_Subset
<1>. QED BY <1>4, FS_CardinalityType

LEMMA JobRow ==
    ASSUME NEW js \in Seq(RetentionJob), NEW n \in DOMAIN js
    PROVE  /\ js[n] \in RetentionJob /\ js[n].policy \in RetentionPolicies
           /\ js[n].blocked \in Nat /\ js[n].processed \in Nat /\ js[n].unheld \in BOOLEAN
<1>1. js[n] \in RetentionJob
  OBVIOUS
<1>. QED BY <1>1 DEF RetentionJob

LEMMA RunStays ==
    ASSUME NEW js, NEW new, Grown(js, new), NEW rs, NEW held, RunHeld(held, js, rs)
    PROVE  RunHeld(held, new, rs)
BY DEF Grown, RunHeld

LEMMA GrownSame ==
    ASSUME NEW js \in Seq(RetentionJob) PROVE Grown(js, js)
BY DEF Grown

LEMMA InitGovInv == RequestsInit /\ GovernanceInit => GovInv
<1>. SUFFICES ASSUME RequestsInit, GovernanceInit PROVE GovInv
  OBVIOUS
<1>1. \A w \in Workers : request[w].op = "idle"
  BY DEF RequestsInit, Idle
<1>2. GovernanceTypes /\ jobs = <<>> /\ records = <<>>
  BY DEF GovernanceInit, GovernanceTypes
<1>. QED BY <1>1, <1>2, InitRequests DEF GovInv, RunHeld

(* A step that records nothing.                                            *)
LEMMA NothingRecorded ==
    ASSUME GovInv, GovernanceTypes', records' = records, RequestsOK', Grown(jobs, jobs'),
           \A w \in Workers : request'[w] = request[w] \/ RunHeld(request'[w], jobs', records),
           \A n \in DOMAIN jobs' : JobOK(jobs', n, exempt', records)
    PROVE  GovInv'
<1>1. \A w \in Workers : RunHeld(request'[w], jobs', records)
  BY RunStays DEF GovInv
<1>2. \A m \in DOMAIN records : records[m].job \in DOMAIN jobs'
  BY DEF GovInv, Grown
<1>. QED BY <1>1, <1>2 DEF GovInv

(* A step that leaves the jobs as well.                                    *)
LEMMA JobsUntouched ==
    ASSUME GovInv, GovernanceTypes', UNCHANGED <<records, jobs, exempt>>, RequestsOK',
           \A w \in Workers : request'[w] = request[w] \/ RunHeld(request'[w], jobs, records)
    PROVE  GovInv'
<1>1. Grown(jobs, jobs')
  BY GrownSame DEF GovInv, GovernanceTypes
<1>. QED BY <1>1, NothingRecorded DEF GovInv

(* A job whose row is replaced by one of the same plan.                    *)
LEMMA JobReplaced ==
    ASSUME NEW js \in Seq(RetentionJob), NEW n \in DOMAIN js, NEW row \in RetentionJob,
           row.policy = js[n].policy, row.blocked = js[n].blocked,
           js[n].unheld => row.unheld, NEW ex, NEW rs,
           \A m \in DOMAIN js : JobOK(js, m, ex, rs),
           row.processed <= Cardinality(Recorded(rs, n))
    PROVE  /\ Grown(js, [js EXCEPT ![n] = row])
           /\ \A m \in DOMAIN js : JobOK([js EXCEPT ![n] = row], m, ex, rs)
           /\ DOMAIN [js EXCEPT ![n] = row] = DOMAIN js
<1>. DEFINE new == [js EXCEPT ![n] = row]
<1>1. /\ new \in Seq(RetentionJob) /\ DOMAIN new = DOMAIN js
      /\ \A m \in DOMAIN js : new[m] = IF m = n THEN row ELSE js[m]
  BY RowReplaced
<1>. HIDE DEF new
<1>2. Grown(js, new)
  BY <1>1 DEF Grown
<1>3. \A m \in DOMAIN js : JobOK(new, m, ex, rs)
  BY <1>1 DEF JobOK
<1>. QED BY <1>1, <1>2, <1>3 DEF new

-----------------------------------------------------------------------------
LEMMA HoldStep ==
    ASSUME GovInv,
           \/ PlaceHold \/ AskSubjectRequest
           \/ \E n \in DOMAIN holds : ReleaseLegalHold(n)
           \/ \E n \in DOMAIN subjectRequests, status \in RequestStatuses \ {"received"} :
                ActOnSubjectRequest(n, status)
    PROVE  GovInv'
<1>1. /\ request' = request /\ UNCHANGED <<policyAssets, exempt, jobs, records>>
      /\ RequestsOK'
  BY DEF PlaceHold, AskSubjectRequest, ReleaseLegalHold, ActOnSubjectRequest, Serve, GovInv,
         RequestsOK
<1>2. holds \in Seq(LegalHold) /\ subjectRequests \in Seq(RequestStatuses)
  BY DEF GovInv, GovernanceTypes
<1>3. holds' \in Seq(LegalHold) /\ subjectRequests' \in Seq(RequestStatuses)
  <2>1. CASE PlaceHold
    <3>1. [status |-> "active"] \in LegalHold
      BY DEF LegalHold
    <3>. QED BY <1>2, <2>1, <3>1, RowInserted DEF PlaceHold
  <2>2. CASE AskSubjectRequest
    <3>1. "received" \in RequestStatuses
      BY DEF RequestStatuses
    <3>. QED BY <1>2, <2>2, <3>1, RowInserted DEF AskSubjectRequest
  <2>3. ASSUME NEW n \in DOMAIN holds, ReleaseLegalHold(n)
        PROVE  holds' \in Seq(LegalHold) /\ subjectRequests' \in Seq(RequestStatuses)
    <3>. DEFINE row == [holds[n] EXCEPT !.status = "released"]
    <3>3. holds[n] \in LegalHold
      BY <1>2
    <3>1. row \in LegalHold
      BY <3>3 DEF LegalHold
    <3>2. holds' = [holds EXCEPT ![n] = row] /\ subjectRequests' = subjectRequests
      BY <2>3 DEF ReleaseLegalHold
    <3>. HIDE DEF row
    <3>. QED BY <1>2, <2>3, <3>1, <3>2, RowReplaced
  <2>4. ASSUME NEW n \in DOMAIN subjectRequests, NEW status \in RequestStatuses \ {"received"},
               ActOnSubjectRequest(n, status)
        PROVE  holds' \in Seq(LegalHold) /\ subjectRequests' \in Seq(RequestStatuses)
    BY <1>2, <2>4, RowReplaced DEF ActOnSubjectRequest
  <2>. QED BY <2>1, <2>2, <2>3, <2>4
<1>4. GovernanceTypes'
  BY <1>1, <1>3 DEF GovInv, GovernanceTypes
<1>. QED BY <1>1, <1>4, JobsUntouched

LEMMA ChangePolicyStep ==
    ASSUME GovInv, NEW p \in RetentionPolicies, NEW assets \in SUBSET Assets,
           NEW asks \in BOOLEAN, ChangePolicy(p, assets, asks)
    PROVE  GovInv'
<1>. DEFINE freed(n) == jobs[n].policy = p /\ ~ asks
            row(n) == [jobs[n] EXCEPT !.unheld = @ \/ freed(n)]
<1>1. jobs \in Seq(RetentionJob) /\ exempt \in [RetentionPolicies -> BOOLEAN]
  BY DEF GovInv, GovernanceTypes
<1>2. ASSUME NEW n \in DOMAIN jobs
      PROVE  /\ row(n) \in RetentionJob /\ row(n).policy = jobs[n].policy
             /\ row(n).blocked = jobs[n].blocked /\ row(n).processed = jobs[n].processed
             /\ row(n).unheld <=> (jobs[n].unheld \/ freed(n))
  <2>1. jobs[n] \in RetentionJob
    BY <1>1, JobRow
  <2>2. (jobs[n].unheld \/ freed(n)) \in BOOLEAN
    OBVIOUS
  <2>. HIDE DEF freed
  <2>. QED BY <2>1, <2>2 DEF RetentionJob
<1>3. /\ jobs' = [n \in DOMAIN jobs |-> row(n)] /\ request' = request
      /\ policyAssets' = [policyAssets EXCEPT ![p] = assets]
      /\ exempt' = [exempt EXCEPT ![p] = asks]
      /\ UNCHANGED <<holds, records, subjectRequests>>
  BY DEF ChangePolicy, Serve
<1>. HIDE DEF row
<1>4. jobs' \in Seq(RetentionJob) /\ DOMAIN jobs' = DOMAIN jobs
  BY <1>1, <1>2, <1>3
<1>5. Grown(jobs, jobs')
  BY <1>2, <1>3, <1>4 DEF Grown
<1>6. GovernanceTypes'
  BY <1>3, <1>4 DEF GovInv, GovernanceTypes
<1>7. ASSUME NEW n \in DOMAIN jobs' PROVE JobOK(jobs', n, exempt', records)
  <2>1. JobOK(jobs, n, exempt, records) /\ jobs[n].policy \in RetentionPolicies
    BY <1>1, <1>4, JobRow DEF GovInv
  <2>2. ~ freed(n) => exempt'[jobs[n].policy] \/ ~ exempt[jobs[n].policy]
    BY <1>1, <1>3, <2>1
  <2>. HIDE DEF freed
  <2>. QED BY <1>2, <1>3, <1>4, <2>1, <2>2 DEF JobOK
<1>8. RequestsOK'
  BY <1>3 DEF GovInv, RequestsOK
<1>. QED BY <1>3, <1>5, <1>6, <1>7, <1>8, NothingRecorded

(* A new job has nothing on record.                                        *)
LEMMA NewJob ==
    ASSUME GovInv, Serve, NEW row \in RetentionJob, jobs' = Append(jobs, row),
           row.processed = 0, row.blocked > 0 => exempt[row.policy],
           UNCHANGED <<policyAssets, exempt, holds, records, subjectRequests>>
    PROVE  GovInv'
<1>1. jobs \in Seq(RetentionJob) /\ records \in Seq(AnonymizationRecord)
  BY DEF GovInv, GovernanceTypes
<1>2. PICK n : n = Len(jobs) + 1
  OBVIOUS
<1>3. /\ jobs' \in Seq(RetentionJob) /\ DOMAIN jobs' = DOMAIN jobs \cup {n}
      /\ n \notin DOMAIN jobs /\ jobs'[n] = row /\ \A m \in DOMAIN jobs : jobs'[m] = jobs[m]
  BY <1>1, <1>2, RowInserted
<1>4. Grown(jobs, jobs')
  BY <1>3 DEF Grown
<1>5. GovernanceTypes'
  BY <1>3 DEF GovInv, GovernanceTypes
<1>6. Recorded(records, n) = {} /\ Cardinality(Recorded(records, n)) \in Nat
  BY <1>1, <1>3, RecordedIsFinite DEF Recorded, GovInv
<1>7. ASSUME NEW m \in DOMAIN jobs' PROVE JobOK(jobs', m, exempt', records)
  <2>1. CASE m = n
    <3>1. jobs'[m] = row /\ exempt' = exempt
      BY <1>3, <2>1
    <3>2. 0 <= Cardinality(Recorded(records, n))
      BY <1>6
    <3>. QED BY <1>6, <2>1, <3>1, <3>2 DEF JobOK
  <2>2. CASE m # n
    <3>1. JobOK(jobs, m, exempt, records) /\ jobs'[m] = jobs[m] /\ exempt' = exempt
      BY <1>3, <2>2 DEF GovInv
    <3>. QED BY <3>1 DEF JobOK
  <2>. QED BY <2>1, <2>2
<1>8. RequestsOK' /\ request' = request
  BY DEF GovInv, RequestsOK, Serve
<1>. QED BY <1>4, <1>5, <1>7, <1>8, NothingRecorded

LEMMA PlanStep ==
    ASSUME GovInv, NEW p \in RetentionPolicies,
           \/ PlanRetentionJob(p)
           \/ \E status \in {"queued", "completed"} : PostRetentionJob(p, status)
    PROVE  GovInv'
<1>1. CASE PlanRetentionJob(p)
  <2>. DEFINE blocked == IF exempt[p] THEN Cardinality(ActiveHolds) ELSE 0
              row == [policy |-> p, status |-> "queued", processed |-> 0,
                      blocked |-> blocked, unheld |-> FALSE]
  <2>1. blocked \in Nat
    <3>1. DOMAIN holds = 1 .. Len(holds) /\ Len(holds) \in Nat
      BY DEF GovInv, GovernanceTypes
    <3>2. IsFiniteSet(DOMAIN holds)
      BY <3>1, FS_Interval
    <3>3. ActiveHolds \in SUBSET DOMAIN holds
      BY DEF ActiveHolds
    <3>4. IsFiniteSet(ActiveHolds)
      BY <3>2, <3>3, FS_Subset
    <3>. QED BY <3>4, FS_CardinalityType
  <2>2. blocked > 0 => exempt[p]
    OBVIOUS
  <2>3. Serve /\ jobs' = Append(jobs, row)
        /\ UNCHANGED <<policyAssets, exempt, holds, records, subjectRequests>>
    BY <1>1 DEF PlanRetentionJob
  <2>. HIDE DEF blocked
  <2>4. row \in RetentionJob /\ row.processed = 0 /\ row.blocked = blocked /\ row.policy = p
    BY <2>1 DEF RetentionJob, JobStatuses
  <2>. HIDE DEF row
  <2>. QED BY <2>2, <2>3, <2>4, NewJob
<1>2. ASSUME NEW status \in {"queued", "completed"}, PostRetentionJob(p, status) PROVE GovInv'
  <2>. DEFINE row == [policy |-> p, status |-> status, processed |-> 0, blocked |-> 0,
                      unheld |-> FALSE]
  <2>1. row \in RetentionJob /\ row.processed = 0 /\ row.blocked = 0
    BY DEF RetentionJob, JobStatuses
  <2>2. Serve /\ jobs' = Append(jobs, row)
        /\ UNCHANGED <<policyAssets, exempt, holds, records, subjectRequests>>
    BY <1>2 DEF PostRetentionJob
  <2>. HIDE DEF row
  <2>. QED BY <2>1, <2>2, NewJob
<1>. QED BY <1>1, <1>2

-----------------------------------------------------------------------------
(* A run that reads, or ends, and writes no row.                           *)
LEMMA RunGoesOn ==
    ASSUME GovInv, NEW w \in Workers, NEW held, RunHeld(held, jobs, records),
           UNCHANGED governanceVars, Begin(w, held) \/ TakeUp(w, held) \/ Proceed(w, held)
    PROVE  GovInv'
<1>1. /\ RequestsOK' /\ request'[w] = held
      /\ \A v \in Workers : v # w => request'[v] = request[v]
  BY HeldNext DEF GovInv
<1>2. GovernanceTypes'
  BY DEF GovInv, GovernanceTypes, governanceVars
<1>. QED BY <1>1, <1>2, JobsUntouched DEF governanceVars

(* Loading a job, skipping it, blocked or not, and a worker that dies.     *)
LEMMA LoadStep ==
    ASSUME GovInv, NEW w \in Workers,
           \/ \E n \in DOMAIN jobs : TakeDueJob(w, n)
           \/ \E n \in DOMAIN jobs, force \in BOOLEAN : OpenJob(w, n, force)
           \/ SkipCompleted(w) \/ ReadAssets(w)
           \/ Abandon(w) /\ UNCHANGED governanceVars
    PROVE  GovInv'
<1>0. jobs \in Seq(RetentionJob) /\ records \in Seq(AnonymizationRecord)
  BY DEF GovInv, GovernanceTypes
<1>1. ASSUME NEW n \in DOMAIN jobs, NEW force \in BOOLEAN,
             (TakeUp(w, Running(n, force)) \/ Begin(w, Running(n, force)))
             /\ UNCHANGED governanceVars
      PROVE  GovInv'
  <2>1. jobs[n] \in RetentionJob /\ n \in Nat
    BY <1>0
  <2>2. /\ Running(n, force) \in JobRequest /\ Running(n, force).op = "job"
        /\ Running(n, force).job = n /\ Running(n, force).row = jobs[n]
    BY <2>1 DEF Running, JobRequest
  <2>3. RunHeld(Running(n, force), jobs, records)
    BY <2>2 DEF RunHeld
  <2>. QED BY <1>1, <2>3, RunGoesOn
<1>2. CASE SkipCompleted(w) \/ (Abandon(w) /\ UNCHANGED governanceVars)
  <2>1. RunHeld(Idle, jobs, records)
    BY DEF RunHeld, Idle
  <2>2. Proceed(w, Idle) /\ UNCHANGED governanceVars
    BY <1>2 DEF SkipCompleted, Abandon, End
  <2>. QED BY <2>1, <2>2, RunGoesOn
<1>3. CASE ReadAssets(w)
  <2>. DEFINE r == request[w]
              todo == policyAssets[r.row.policy]
              held == [op |-> "assets", job |-> r.job, processed |-> 0, todo |-> todo]
  <2>1. /\ r.op = "running" /\ RunHeld(r, jobs, records) /\ Proceed(w, held)
        /\ ~ IsBlocked(r.row, r.force) /\ UNCHANGED governanceVars
    BY <1>3 DEF ReadAssets, Holds, GovInv
  <2>2. /\ r \in JobRequest /\ r.job \in DOMAIN jobs /\ r.row.policy = jobs[r.job].policy
        /\ r.row.blocked = jobs[r.job].blocked /\ (r.force => jobs[r.job].unheld)
    BY <2>1 DEF RunHeld
  <2>3. todo \in SUBSET Assets
    BY <1>0, <2>2, JobRow DEF GovInv, GovernanceTypes
  <2>4. jobs[r.job].blocked > 0 => jobs[r.job].unheld
    BY <2>1, <2>2 DEF IsBlocked, JobOK, GovInv
  <2>5. r.job \in Nat
    BY <2>2 DEF JobRequest
  <2>. HIDE DEF todo, r
  <2>6. held \in AssetsRequest /\ held.op = "assets" /\ held.job = r.job /\ held.processed = 0
    BY <2>3, <2>5 DEF AssetsRequest
  <2>. HIDE DEF held
  <2>7. 0 <= Cardinality(Recorded(records, r.job))
    BY <1>0, RecordedIsFinite
  <2>8. RunHeld(held, jobs, records)
    BY <2>2, <2>4, <2>6, <2>7 DEF RunHeld
  <2>. QED BY <2>1, <2>8, RunGoesOn
<1>4. ASSUME NEW n \in DOMAIN jobs, TakeDueJob(w, n) PROVE GovInv'
  BY <1>1, <1>4, FALSE \in BOOLEAN DEF TakeDueJob
<1>5. ASSUME NEW n \in DOMAIN jobs, NEW force \in BOOLEAN, OpenJob(w, n, force) PROVE GovInv'
  BY <1>1, <1>5 DEF OpenJob
<1>. QED BY <1>2, <1>3, <1>4, <1>5

(* The three saves of a run: RUNNING, BLOCKED, and the outcome.            *)
LEMMA SaveJobStep ==
    ASSUME GovInv, NEW w \in Workers, SaveRunning(w) \/ BlockJob(w) \/ CompleteJob(w)
    PROVE  GovInv'
<1>0. jobs \in Seq(RetentionJob) /\ records \in Seq(AnonymizationRecord)
  BY DEF GovInv, GovernanceTypes
<1>. DEFINE r == request[w]
            n == r.job
<1>1. /\ n \in DOMAIN jobs /\ RunHeld(r, jobs, records)
      /\ r.op \in {"job", "running", "assets"}
  BY DEF SaveRunning, BlockJob, CompleteJob, Holds, GovInv, RunHeld
<1>2. /\ jobs[n] \in RetentionJob /\ jobs[n].unheld \in BOOLEAN
      /\ jobs[n].processed <= Cardinality(Recorded(records, n))
  BY <1>0, <1>1, JobRow DEF GovInv, JobOK
<1>3. SUFFICES ASSUME NEW row \in RetentionJob, row.policy = jobs[n].policy,
                      row.blocked = jobs[n].blocked, jobs[n].unheld => row.unheld,
                      row.processed <= Cardinality(Recorded(records, n)),
                      jobs' = [jobs EXCEPT ![n] = row],
                      UNCHANGED <<policyAssets, exempt, holds, records, subjectRequests>>,
                      NEW held, Proceed(w, held),
                      \/ held = Idle
                      \/ /\ held.op = "running" /\ held \in JobRequest /\ held.job = n
                         /\ held.row = r.row /\ r.op = "job" /\ (held.force => row.unheld)
               PROVE  GovInv'
  <2>1. CASE SaveRunning(w)
    <3>. DEFINE unheld == jobs[n].unheld \/ r.force
                row == [jobs[n] EXCEPT !.status = "running", !.unheld = unheld]
                held == [r EXCEPT !.op = "running"]
    <3>1. r \in JobRequest /\ r.op = "job"
      BY <2>1 DEF SaveRunning, Holds, GovInv, RunHeld
    <3>2. /\ held \in JobRequest /\ held.op = "running" /\ held.job = n
          /\ held.row = r.row /\ held.force = r.force
      BY <3>1 DEF JobRequest
    <3>3. unheld \in BOOLEAN /\ (jobs[n].unheld => unheld) /\ (r.force => unheld)
      OBVIOUS
    <3>. HIDE DEF unheld
    <3>4. /\ row \in RetentionJob /\ row.policy = jobs[n].policy /\ row.unheld = unheld
          /\ row.blocked = jobs[n].blocked /\ row.processed = jobs[n].processed
      BY <1>2, <3>3 DEF RetentionJob, JobStatuses
    <3>5. /\ Proceed(w, held) /\ jobs' = [jobs EXCEPT ![n] = row]
          /\ UNCHANGED <<policyAssets, exempt, holds, records, subjectRequests>>
      BY <1>0, <1>1, <2>1 DEF SaveRunning, unheld
    <3>. HIDE DEF held, row
    <3>. QED BY <1>2, <3>1, <3>2, <3>3, <3>4, <3>5
  <2>2. CASE BlockJob(w)
    <3>. DEFINE row == [jobs[n] EXCEPT !.status = "blocked"]
    <3>1. /\ row \in RetentionJob /\ row.policy = jobs[n].policy
          /\ row.unheld = jobs[n].unheld
          /\ row.blocked = jobs[n].blocked /\ row.processed = jobs[n].processed
      BY <1>2 DEF RetentionJob, JobStatuses
    <3>2. /\ Proceed(w, Idle) /\ jobs' = [jobs EXCEPT ![n] = row]
          /\ UNCHANGED <<policyAssets, exempt, holds, records, subjectRequests>>
      BY <2>2 DEF BlockJob, End
    <3>. HIDE DEF row
    <3>. QED BY <1>2, <3>1, <3>2
  <2>3. CASE CompleteJob(w)
    <3>. DEFINE row == [jobs[n] EXCEPT !.status = "completed", !.processed = r.processed]
    <3>1. /\ r \in AssetsRequest /\ r.processed <= Cardinality(Recorded(records, n))
      BY <1>1, <2>3 DEF CompleteJob, Holds, RunHeld
    <3>3. r.processed \in Nat
      BY <3>1 DEF AssetsRequest
    <3>2. /\ Proceed(w, Idle) /\ jobs' = [jobs EXCEPT ![n] = row]
          /\ UNCHANGED <<policyAssets, exempt, holds, records, subjectRequests>>
      BY <1>0, <1>1, <2>3 DEF CompleteJob, End
    <3>4. /\ row \in RetentionJob /\ row.policy = jobs[n].policy
          /\ row.unheld = jobs[n].unheld
          /\ row.blocked = jobs[n].blocked /\ row.processed = r.processed
      BY <1>2, <3>3 DEF RetentionJob, JobStatuses
    <3>. HIDE DEF row
    <3>. QED BY <1>2, <3>1, <3>2, <3>4
  <2>. QED BY <2>1, <2>2, <2>3
<1>4. /\ Grown(jobs, jobs') /\ \A m \in DOMAIN jobs : JobOK(jobs', m, exempt, records)
      /\ DOMAIN jobs' = DOMAIN jobs /\ jobs'[n] = row
  <2>1. \A m \in DOMAIN jobs : JobOK(jobs, m, exempt, records)
    BY DEF GovInv
  <2>. HIDE DEF n
  <2>2. jobs'[n] = row
    BY <1>0, <1>1, <1>3
  <2>. QED BY <1>0, <1>1, <1>3, <2>1, <2>2, JobReplaced
<1>5. GovernanceTypes'
  BY <1>3, <1>4 DEF GovInv, GovernanceTypes, Grown
<1>6. /\ RequestsOK' /\ request'[w] = held
      /\ \A v \in Workers : v # w => request'[v] = request[v]
  BY <1>3, HeldNext DEF GovInv
<1>7. RunHeld(held, jobs', records)
  BY <1>1, <1>3, <1>4 DEF RunHeld, Idle
<1>. QED BY <1>3, <1>4, <1>5, <1>6, <1>7, NothingRecorded

(* One more record, and one more processed.                                *)
LEMMA RecordAssetStep ==
    ASSUME GovInv, NEW w \in Workers, NEW a \in Assets, RecordAsset(w, a) PROVE GovInv'
<1>. DEFINE r == request[w]
            n == r.job
            rec == [job |-> n, asset |-> a]
            held == [r EXCEPT !.todo = @ \ {a}, !.processed = @ + 1]
<1>1. /\ r.op = "assets" /\ r \in AssetsRequest /\ n \in DOMAIN jobs
      /\ r.processed <= Cardinality(Recorded(records, n))
      /\ (jobs[n].blocked > 0 => jobs[n].unheld)
  BY DEF RecordAsset, Holds, GovInv, RunHeld
<1>2. jobs \in Seq(RetentionJob) /\ records \in Seq(AnonymizationRecord) /\ n \in Nat
  BY <1>1 DEF GovInv, GovernanceTypes, AssetsRequest
<1>3. rec \in AnonymizationRecord /\ rec.job = n
  BY <1>2 DEF AnonymizationRecord
<1>4. /\ held \in AssetsRequest /\ held.op = "assets" /\ held.job = n
      /\ held.processed = r.processed + 1
  <2>1. r.processed + 1 \in Nat /\ r.todo \ {a} \in SUBSET Assets
    BY <1>1 DEF AssetsRequest
  <2>. HIDE DEF r
  <2>. QED BY <1>1, <2>1 DEF AssetsRequest
<1>5. /\ records' = Append(records, rec) /\ Proceed(w, held)
      /\ UNCHANGED <<policyAssets, exempt, holds, jobs, subjectRequests>>
  BY DEF RecordAsset
<1>. HIDE DEF rec, held
<1>6. PICK k : k = Len(records) + 1
  OBVIOUS
<1>7. /\ records' \in Seq(AnonymizationRecord) /\ DOMAIN records' = DOMAIN records \cup {k}
      /\ k \notin DOMAIN records /\ records'[k] = rec
      /\ \A m \in DOMAIN records : records'[m] = records[m]
  BY <1>2, <1>3, <1>5, <1>6, RowInserted
<1>8. /\ Recorded(records', n) = Recorded(records, n) \cup {k}
      /\ k \notin Recorded(records, n)
      /\ \A m : m # n => Recorded(records', m) = Recorded(records, m)
  BY <1>3, <1>7 DEF Recorded
<1>9. /\ Cardinality(Recorded(records', n)) = Cardinality(Recorded(records, n)) + 1
      /\ \A m : /\ Cardinality(Recorded(records, m)) \in Nat
                /\ Cardinality(Recorded(records', m)) \in Nat
                /\ Cardinality(Recorded(records, m)) <= Cardinality(Recorded(records', m))
  <2>1. \A m : IsFiniteSet(Recorded(records, m)) /\ Cardinality(Recorded(records, m)) \in Nat
    BY <1>2, RecordedIsFinite
  <2>. HIDE DEF n
  <2>2. Cardinality(Recorded(records', n)) = Cardinality(Recorded(records, n)) + 1
    BY <1>8, <2>1, FS_AddElement
  <2>3. ASSUME NEW m
        PROVE  /\ Cardinality(Recorded(records', m)) \in Nat
               /\ Cardinality(Recorded(records, m)) <= Cardinality(Recorded(records', m))
    <3>1. CASE m = n
      BY <2>1, <2>2, <3>1
    <3>2. CASE m # n
      <4>1. Recorded(records', m) = Recorded(records, m)
        BY <1>8, <3>2
      <4>. QED BY <2>1, <4>1
    <3>. QED BY <3>1, <3>2
  <2>. QED BY <2>1, <2>2, <2>3
<1>10. \A m \in DOMAIN records' : records'[m].job \in DOMAIN jobs
  BY <1>1, <1>3, <1>7 DEF GovInv
<1>11. \A m \in DOMAIN jobs : JobOK(jobs, m, exempt, records')
  <2>. SUFFICES ASSUME NEW m \in DOMAIN jobs PROVE JobOK(jobs, m, exempt, records')
    OBVIOUS
  <2>1. JobOK(jobs, m, exempt, records) /\ jobs[m].processed \in Nat
    BY <1>2, JobRow DEF GovInv
  <2>. HIDE DEF n
  <2>2. jobs[m].processed <= Cardinality(Recorded(records', m))
    BY <1>9, <2>1 DEF JobOK
  <2>. QED BY <1>1, <1>8, <2>1, <2>2 DEF JobOK
<1>12. /\ RequestsOK' /\ request'[w] = held
       /\ \A v \in Workers : v # w => request'[v] = request[v]
  BY <1>5, HeldNext DEF GovInv
<1>13. RunHeld(held, jobs, records')
  <2>1. r.processed + 1 <= Cardinality(Recorded(records', n))
    BY <1>1, <1>9 DEF AssetsRequest
  <2>. HIDE DEF n, r
  <2>. QED BY <1>1, <1>4, <2>1 DEF RunHeld
<1>14. ASSUME NEW v \in Workers, v # w PROVE RunHeld(request[v], jobs, records')
  <2>1. RunHeld(request[v], jobs, records)
    BY DEF GovInv
  <2>2. request[v].op = "assets" =>
          request[v].processed <= Cardinality(Recorded(records', request[v].job))
    <3>. SUFFICES ASSUME request[v].op = "assets"
                  PROVE  request[v].processed <= Cardinality(Recorded(records', request[v].job))
      OBVIOUS
    <3>1. request[v] \in AssetsRequest
          /\ request[v].processed <= Cardinality(Recorded(records, request[v].job))
      BY <2>1 DEF RunHeld
    <3>2. request[v].processed \in Nat
      BY <3>1 DEF AssetsRequest
    <3>. QED BY <1>9, <3>1, <3>2
  <2>. QED BY <2>1, <2>2 DEF RunHeld
<1>15. GovernanceTypes'
  BY <1>5, <1>7 DEF GovInv, GovernanceTypes
<1>. HIDE DEF n, r
<1>16. \A v \in Workers : RunHeld(request'[v], jobs, records')
  BY <1>12, <1>13, <1>14
<1>. QED BY <1>5, <1>10, <1>11, <1>12, <1>15, <1>16 DEF GovInv

LEMMA StepGovInv == GovInv /\ [GovernanceNext]_<<requestVars, governanceVars>> => GovInv'
<1>. SUFFICES ASSUME GovInv, [GovernanceNext]_<<requestVars, governanceVars>> PROVE GovInv'
  OBVIOUS
<1>1. CASE UNCHANGED <<requestVars, governanceVars>>
  BY <1>1 DEF requestVars, governanceVars, GovInv, GovernanceTypes, RequestsOK
<1>2. CASE GovernanceNext
  BY <1>2, HoldStep, ChangePolicyStep, PlanStep, LoadStep, SaveJobStep, RecordAssetStep
     DEF GovernanceNext
<1>. QED BY <1>1, <1>2

(* What jobs, records and the workers that run them hold at every moment.  *)
THEOREM GovernanceInvariance == GovernanceSpec => []GovInv
BY InitGovInv, StepGovInv, PTL DEF GovernanceSpec

(* A completed job has on record what it counts as processed, and a job a  *)
(* hold was counted for when it was planned records nothing while it is    *)
(* neither forced nor freed of all holds; a hold placed after the planning *)
(* stops nothing (data_governance/services.py:78, :100, :107, :122).       *)
THEOREM OutcomesAreOnRecord == GovernanceSpec => []OutcomeIsOnRecord
<1>1. GovInv => OutcomeIsOnRecord
  BY DEF GovInv, OutcomeIsOnRecord, JobOK, Recorded, RecordsOf
<1>. QED BY GovernanceInvariance, <1>1, PTL

(***************************************************************************)
(* Velocity rules.  An event that is not settled owes rules whose window   *)
(* still reaches the threshold, and an evaluation owes the rules it has    *)
(* left or has signalled them (EventOK, EvalHeld); two evaluations never   *)
(* share an event (Apart).                                                 *)
(***************************************************************************)

EvalOps == {"evaluate", "rules"}
RulesRequest == [op: {"rules"}, event: Nat, todo: SUBSET Rules]

(* The events of the list that count for the rule and the user.            *)
Counted(from, list, r, u) ==
    {n \in from + 1 .. Len(list) : RuleScope[r] = "global" \/ list[n].user = u}

Reaching(from, list, r, u) == Cardinality(Counted(from, list, r, u)) >= Threshold[r]

(* What an evaluation holds: an event of its own that is not settled, and  *)
(* every owed rule still to come or signalled.                             *)
EvalHeld(held, list, sigs) ==
    /\ held.op \in EvalOps => held.event \in DOMAIN list /\ ~ list[held.event].settled
    /\ held.op = "rules" =>
         /\ held \in RulesRequest
         /\ \A r \in list[held.event].owed \ held.todo :
              [rule |-> r, event |-> held.event] \in sigs

EventOK(list, n, en, from, sigs) ==
    /\ ~ list[n].settled =>
         \A r \in list[n].owed : en[r] /\ Reaching(from, list, r, list[n].user)
    /\ list[n].settled => \A r \in list[n].owed : [rule |-> r, event |-> n] \in sigs

Apart(reqs) ==
    \A v, w \in Workers : v # w /\ reqs[v].op \in EvalOps /\ reqs[w].op \in EvalOps =>
        reqs[v].event # reqs[w].event

RiskInv ==
    /\ RequestsOK
    /\ enabled \in [Rules -> BOOLEAN] /\ velocityEvents \in Seq(VelocityEvent) /\ since \in Nat
    /\ \A w \in Workers : EvalHeld(request[w], velocityEvents, signals)
    /\ Apart(request)
    /\ \A n \in DOMAIN velocityEvents : EventOK(velocityEvents, n, enabled, since, signals)

-----------------------------------------------------------------------------
LEMMA EventRow ==
    ASSUME NEW list \in Seq(VelocityEvent), NEW n \in DOMAIN list
    PROVE  /\ list[n] \in VelocityEvent /\ list[n].owed \in SUBSET Rules
           /\ list[n].settled \in BOOLEAN /\ list[n].user \in Users /\ n \in Nat
<1>1. list[n] \in VelocityEvent /\ n \in Nat
  OBVIOUS
<1>. QED BY <1>1 DEF VelocityEvent

(* Events that are added take none out of a window.                        *)
LEMMA WindowGrows ==
    ASSUME NEW list \in Seq(VelocityEvent), NEW new \in Seq(VelocityEvent),
           DOMAIN list \subseteq DOMAIN new, \A n \in DOMAIN list : new[n].user = list[n].user,
           NEW from \in Nat, NEW r \in Rules, NEW u, Reaching(from, list, r, u)
    PROVE  Reaching(from, new, r, u)
<1>1. /\ DOMAIN list = 1 .. Len(list) /\ DOMAIN new = 1 .. Len(new)
      /\ Len(list) \in Nat /\ Len(new) \in Nat
  OBVIOUS
<1>2. Counted(from, list, r, u) \in SUBSET Counted(from, new, r, u)
  <2>. SUFFICES ASSUME NEW n \in Counted(from, list, r, u) PROVE n \in Counted(from, new, r, u)
    OBVIOUS
  <2>1. n \in DOMAIN list /\ n \in from + 1 .. Len(list)
    BY <1>1 DEF Counted
  <2>2. n \in DOMAIN new /\ n \in from + 1 .. Len(new)
    BY <1>1, <2>1
  <2>. QED BY <2>1, <2>2 DEF Counted
<1>3. IsFiniteSet(Counted(from, new, r, u))
  <2>1. IsFiniteSet(DOMAIN new)
    BY <1>1, FS_Interval
  <2>2. Counted(from, new, r, u) \in SUBSET DOMAIN new
    BY <1>1 DEF Counted
  <2>. QED BY <2>1, <2>2, FS_Subset
<1>4. /\ IsFiniteSet(Counted(from, list, r, u))
      /\ Cardinality(Counted(from, list, r, u)) <= Cardinality(Counted(from, new, r, u))
  BY <1>2, <1>3, FS_Subset
<1>5. /\ Cardinality(Counted(from, list, r, u)) \in Nat
      /\ Cardinality(Counted(from, new, r, u)) \in Nat
  BY <1>3, <1>4, FS_CardinalityType
<1>6. Threshold[r] \in Nat
  BY ThresholdsAreCounts
<1>. QED BY <1>4, <1>5, <1>6 DEF Reaching

LEMMA InitRiskInv == RequestsInit /\ RiskInit => RiskInv
<1>. SUFFICES ASSUME RequestsInit, RiskInit PROVE RiskInv
  OBVIOUS
<1>1. \A w \in Workers : request[w].op = "idle"
  BY DEF RequestsInit, Idle
<1>2. velocityEvents = <<>> /\ since = 0 /\ enabled \in [Rules -> BOOLEAN]
  BY DEF RiskInit
<1>. QED BY <1>1, <1>2, InitRequests DEF RiskInv, EvalHeld, Apart, EvalOps

(* A step that touches no event, no rule and no evaluation.                *)
LEMMA RiskAside ==
    ASSUME RiskInv, Spares(EvalOps), UNCHANGED <<enabled, velocityEvents, since, signals>>
    PROVE  RiskInv'
<1>1. RequestsOK'
  BY DEF Spares, RequestsOK
<1>2. \A w \in Workers : EvalHeld(request'[w], velocityEvents, signals)
  BY DEF Spares, RiskInv, EvalHeld, EvalOps
<1>3. Apart(request')
  BY DEF Spares, RiskInv, Apart
<1>. QED BY <1>1, <1>2, <1>3 DEF RiskInv

LEMMA StaffStep ==
    ASSUME RiskInv,
           \/ \E s \in signals, risk \in BOOLEAN, asCase \in BOOLEAN : Promote(s, risk, asCase)
           \/ \E n \in DOMAIN cases, status \in CaseStatuses \ {"open"} : ActOnCase(n, status)
           \/ \E n \in DOMAIN reviews, status \in ReviewStatuses \ {"pending"} :
                DecideReview(n, status)
           \/ \E n \in DOMAIN riskEvents, status \in RiskStatuses \ {"open"} :
                ActOnRiskEvent(n, status)
           \/ OpenIncident
           \/ \E u \in Users, o \in RiskOrgs \cup {NoOrg} : PlaceRestriction(u, o)
           \/ \E n \in DOMAIN restrictions : Lift(n)
    PROVE  RiskInv'
<1>1. Serve /\ UNCHANGED <<enabled, velocityEvents, since, signals>>
  BY DEF Promote, ActOnCase, DecideReview, ActOnRiskEvent, OpenIncident, PlaceRestriction, Lift
<1>2. RequestsOK
  BY DEF RiskInv
<1>. QED BY <1>1, <1>2, ServeSpares, RiskAside

LEMMA StaffWorkerStep ==
    ASSUME RiskInv, NEW w \in Workers,
           \/ \E n \in DOMAIN incidents, status \in IncidentStatuses :
                PatchIncidentRead(w, n, status)
           \/ PatchIncidentSave(w) \/ StampIncident(w)
           \/ \E score \in RiskScores : ReadIpReputation(w, score)
           \/ SaveIpReputation(w)
           \/ Abandon(w) /\ UNCHANGED riskVars
    PROVE  RiskInv'
<1>0. RequestsOK
  BY DEF RiskInv
<1>1. UNCHANGED <<enabled, velocityEvents, since, signals>>
  BY DEF PatchIncidentRead, PatchIncidentSave, StampIncident, ReadIpReputation,
         SaveIpReputation, riskVars
<1>2. ASSUME NEW n \in DOMAIN incidents, NEW status \in IncidentStatuses,
             PatchIncidentRead(w, n, status)
      PROVE  Spares(EvalOps)
  <2>. DEFINE held == [op |-> "incident", row |-> n,
                       new |-> [incidents[n] EXCEPT !.status = status]]
  <2>1. Begin(w, held) /\ held.op \notin EvalOps
    BY <1>2 DEF PatchIncidentRead, EvalOps
  <2>. HIDE DEF held
  <2>. QED BY <1>0, <2>1, ProceedSpares
<1>3. ASSUME PatchIncidentSave(w) PROVE Spares(EvalOps)
  <2>. DEFINE held == [request[w] EXCEPT !.op = "stamp"]
  <2>1. Proceed(w, held) \/ End(w)
    BY <1>3 DEF PatchIncidentSave
  <2>2. held.op = "stamp" \/ held.op = request[w].op
    OBVIOUS
  <2>3. held.op \notin EvalOps /\ "idle" \notin EvalOps
    BY <1>3, <2>2 DEF PatchIncidentSave, Holds, EvalOps
  <2>. HIDE DEF held
  <2>. QED BY <1>0, <2>1, <2>3, ProceedSpares, EndSpares
<1>4. ASSUME StampIncident(w) \/ SaveIpReputation(w) \/ Abandon(w) PROVE Spares(EvalOps)
  <2>1. End(w) /\ "idle" \notin EvalOps
    BY <1>4 DEF StampIncident, SaveIpReputation, Abandon, EvalOps
  <2>. QED BY <1>0, <2>1, EndSpares
<1>5. ASSUME NEW score \in RiskScores, ReadIpReputation(w, score) PROVE Spares(EvalOps)
  <2>. DEFINE held == [op |-> "ip", score |-> Max({ipRisk, score})]
  <2>1. Begin(w, held) /\ held.op \notin EvalOps
    BY <1>5 DEF ReadIpReputation, EvalOps
  <2>. HIDE DEF held
  <2>. QED BY <1>0, <2>1, ProceedSpares
<1>. QED BY <1>1, <1>2, <1>3, <1>4, <1>5, RiskAside

-----------------------------------------------------------------------------
(* The requests after a step in which w alone went on, with an event that  *)
(* was its own or is new.                                                  *)
LEMMA StillApart ==
    ASSUME RiskInv, NEW w \in Workers, NEW held, request'[w] = held,
           \A v \in Workers : v # w => request'[v] = request[v],
           held.op \in EvalOps =>
               \/ request[w].op \in EvalOps /\ held.event = request[w].event
               \/ held.event \notin DOMAIN velocityEvents
    PROVE  Apart(request')
BY DEF Apart, RiskInv, EvalHeld

LEMMA RecordStep ==
    ASSUME RiskInv, NEW w \in Workers, NEW u \in Users, RecordVelocityEvent(w, u) PROVE RiskInv'
<1>. DEFINE blank == [user |-> u, owed |-> {}, settled |-> FALSE]
            due == {r \in Rules : enabled[r]
                      /\ Cardinality(InWindow(r, u, Append(velocityEvents, blank)))
                           >= Threshold[r]}
            row == [blank EXCEPT !.owed = due]
<1>0. velocityEvents \in Seq(VelocityEvent) /\ since \in Nat
  BY DEF RiskInv
<1>1. PICK n : n = Len(velocityEvents) + 1
  OBVIOUS
<1>. DEFINE held == [op |-> "evaluate", event |-> n]
<1>2. /\ velocityEvents' = Append(velocityEvents, row) /\ Begin(w, held)
      /\ UNCHANGED <<enabled, since, signals>>
  BY <1>1 DEF RecordVelocityEvent
<1>3. blank \in VelocityEvent /\ row \in VelocityEvent
  BY DEF VelocityEvent
<1>4. /\ row.user = u /\ blank.user = u /\ row.owed = due /\ ~ row.settled
      /\ held.op = "evaluate" /\ held.event = n
  OBVIOUS
<1>5. \A r \in due : enabled[r] /\ Reaching(since, Append(velocityEvents, blank), r, u)
  BY DEF InWindow, Reaching, Counted
<1>6. due \subseteq Rules
  OBVIOUS
<1>. HIDE DEF blank, due, row, held
<1>7. /\ velocityEvents' \in Seq(VelocityEvent)
      /\ DOMAIN velocityEvents' = DOMAIN velocityEvents \cup {n}
      /\ n \notin DOMAIN velocityEvents /\ velocityEvents'[n] = row
      /\ \A m \in DOMAIN velocityEvents : velocityEvents'[m] = velocityEvents[m]
  BY <1>0, <1>1, <1>2, <1>3, RowInserted
<1>8. /\ Append(velocityEvents, blank) \in Seq(VelocityEvent)
      /\ DOMAIN Append(velocityEvents, blank) = DOMAIN velocityEvents \cup {n}
      /\ Append(velocityEvents, blank)[n] = blank
      /\ \A m \in DOMAIN velocityEvents : Append(velocityEvents, blank)[m] = velocityEvents[m]
  BY <1>0, <1>1, <1>3, RowInserted
<1>9. PICK before : before = Append(velocityEvents, blank)
  OBVIOUS
<1>10. PICK after : after = velocityEvents'
  OBVIOUS
<1>11. \A r \in due : Reaching(since, after, r, u)
  <2>1. before \in Seq(VelocityEvent) /\ after \in Seq(VelocityEvent)
    BY <1>7, <1>8, <1>9, <1>10
  <2>2. DOMAIN before = DOMAIN after /\ \A m \in DOMAIN before : after[m].user = before[m].user
    BY <1>4, <1>7, <1>8, <1>9, <1>10
  <2>. QED BY <1>0, <1>5, <1>6, <1>9, <2>1, <2>2, WindowGrows
<1>12. ASSUME NEW m \in DOMAIN after PROVE EventOK(after, m, enabled, since, signals)
  <2>1. CASE m = n
    BY <1>4, <1>5, <1>7, <1>10, <1>11, <2>1 DEF EventOK
  <2>2. CASE m # n
    <3>1. /\ m \in DOMAIN velocityEvents /\ after[m] = velocityEvents[m]
          /\ EventOK(velocityEvents, m, enabled, since, signals)
          /\ velocityEvents[m].owed \in SUBSET Rules
      BY <1>0, <1>7, <1>10, <2>2, EventRow DEF RiskInv
    <3>2. \A r \in velocityEvents[m].owed :
            Reaching(since, velocityEvents, r, velocityEvents[m].user) =>
                Reaching(since, after, r, velocityEvents[m].user)
      <4>1. /\ after \in Seq(VelocityEvent) /\ DOMAIN velocityEvents \subseteq DOMAIN after
            /\ \A k \in DOMAIN velocityEvents : after[k].user = velocityEvents[k].user
        BY <1>7, <1>10
      <4>. QED BY <1>0, <3>1, <4>1, WindowGrows
    <3>. QED BY <3>1, <3>2 DEF EventOK
  <2>. QED BY <2>1, <2>2
<1>13. /\ RequestsOK' /\ request'[w] = held
       /\ \A v \in Workers : v # w => request'[v] = request[v]
  BY <1>2, HeldNext DEF RiskInv
<1>14. Apart(request')
  BY <1>4, <1>7, <1>13, StillApart
<1>15. \A v \in Workers : EvalHeld(request'[v], after, signals)
  <2>1. EvalHeld(held, after, signals)
    BY <1>4, <1>7, <1>10 DEF EvalHeld
  <2>2. ASSUME NEW v \in Workers PROVE EvalHeld(request[v], after, signals)
    BY <1>7, <1>10 DEF EvalHeld, EvalOps, RiskInv
  <2>. QED BY <1>13, <2>1, <2>2
<1>. QED BY <1>2, <1>7, <1>10, <1>12, <1>13, <1>14, <1>15 DEF RiskInv

LEMMA ReadRulesStep ==
    ASSUME RiskInv, NEW w \in Workers, ReadRules(w) PROVE RiskInv'
<1>. DEFINE n == request[w].event
            todo == {r \in Rules : enabled[r]}
            held == [op |-> "rules", event |-> n, todo |-> todo]
<1>1. /\ request[w].op \in EvalOps /\ Proceed(w, held)
      /\ UNCHANGED <<enabled, velocityEvents, since, signals>>
  BY DEF ReadRules, Holds, riskVars, EvalOps
<1>2. n \in DOMAIN velocityEvents /\ ~ velocityEvents[n].settled
  BY <1>1 DEF RiskInv, EvalHeld
<1>3. n \in Nat /\ velocityEvents[n].owed \in SUBSET Rules
  BY <1>2, EventRow DEF RiskInv
<1>4. velocityEvents[n].owed \subseteq todo
  BY <1>2, <1>3 DEF RiskInv, EventOK
<1>. HIDE DEF n
<1>5. held \in RulesRequest /\ held.op = "rules" /\ held.event = n /\ held.todo = todo
  BY <1>3 DEF RulesRequest
<1>. HIDE DEF todo, held
<1>6. EvalHeld(held, velocityEvents, signals)
  BY <1>2, <1>4, <1>5 DEF EvalHeld
<1>7. /\ RequestsOK' /\ request'[w] = held
      /\ \A v \in Workers : v # w => request'[v] = request[v]
  BY <1>1, HeldNext DEF RiskInv
<1>8. Apart(request')
  BY <1>1, <1>5, <1>7, StillApart DEF n
<1>. QED BY <1>1, <1>6, <1>7, <1>8 DEF RiskInv

LEMMA EvaluateStep ==
    ASSUME RiskInv, NEW w \in Workers, NEW r \in Rules, EvaluateRule(w, r) PROVE RiskInv'
<1>. DEFINE n == request[w].event
            todo == request[w].todo \ {r}
            held == [request[w] EXCEPT !.todo = @ \ {r}]
            reached == Reaching(since, velocityEvents, r, velocityEvents[n].user)
<1>1. /\ request[w].op = "rules" /\ Proceed(w, held)
      /\ UNCHANGED <<enabled, velocityEvents, since>>
  BY DEF EvaluateRule, Holds
<1>2. signals' = IF reached THEN signals \cup {[rule |-> r, event |-> n]} ELSE signals
  BY DEF EvaluateRule, Reached, Reaching, InWindow, Counted
<1>3. /\ n \in DOMAIN velocityEvents /\ ~ velocityEvents[n].settled
      /\ request[w] \in RulesRequest
      /\ \A s \in velocityEvents[n].owed \ request[w].todo : [rule |-> s, event |-> n] \in signals
  BY <1>1 DEF RiskInv, EvalHeld, EvalOps
<1>4. held \in RulesRequest /\ held.op = "rules" /\ held.event = n /\ held.todo = todo
  BY <1>3 DEF RulesRequest
<1>5. r \in velocityEvents[n].owed => reached
  BY <1>3 DEF RiskInv, EventOK
<1>. HIDE DEF n, reached, held
<1>6. signals \subseteq signals' /\ (r \in velocityEvents[n].owed =>
                                      [rule |-> r, event |-> n] \in signals')
  BY <1>2, <1>5
<1>7. EvalHeld(held, velocityEvents, signals')
  BY <1>3, <1>4, <1>6 DEF EvalHeld
<1>8. ASSUME NEW v \in Workers PROVE EvalHeld(request[v], velocityEvents, signals')
  BY <1>6 DEF EvalHeld, RiskInv
<1>9. ASSUME NEW m \in DOMAIN velocityEvents
      PROVE  EventOK(velocityEvents, m, enabled, since, signals')
  BY <1>6 DEF EventOK, RiskInv
<1>10. /\ RequestsOK' /\ request'[w] = held
       /\ \A v \in Workers : v # w => request'[v] = request[v]
  BY <1>1, HeldNext DEF RiskInv
<1>11. Apart(request')
  BY <1>1, <1>4, <1>10, StillApart DEF n, EvalOps
<1>. QED BY <1>1, <1>7, <1>8, <1>9, <1>10, <1>11 DEF RiskInv

(* The event is settled with every owed rule signalled.                    *)
LEMMA FinishStep ==
    ASSUME RiskInv, NEW w \in Workers, FinishEvaluation(w) PROVE RiskInv'
<1>. DEFINE n == request[w].event
            row == [velocityEvents[n] EXCEPT !.settled = TRUE]
<1>1. /\ request[w].op = "rules" /\ request[w].todo = {} /\ Proceed(w, Idle)
      /\ UNCHANGED <<enabled, since, signals>>
  BY DEF FinishEvaluation, Holds, End
<1>2. velocityEvents' = [velocityEvents EXCEPT ![n] = row]
  BY DEF FinishEvaluation
<1>3. /\ n \in DOMAIN velocityEvents
      /\ \A r \in velocityEvents[n].owed : [rule |-> r, event |-> n] \in signals
  BY <1>1 DEF RiskInv, EvalHeld, EvalOps
<1>4. velocityEvents \in Seq(VelocityEvent) /\ since \in Nat
  BY DEF RiskInv
<1>5. /\ row \in VelocityEvent /\ row.user = velocityEvents[n].user
      /\ row.owed = velocityEvents[n].owed /\ row.settled
  BY <1>3, <1>4, EventRow DEF VelocityEvent
<1>6. PICK after : after = velocityEvents'
  OBVIOUS
<1>7. \A v \in Workers : v # w /\ request[v].op \in EvalOps => request[v].event # n
  BY <1>1 DEF RiskInv, Apart, EvalOps
<1>. HIDE DEF n, row
<1>8. /\ after \in Seq(VelocityEvent) /\ DOMAIN after = DOMAIN velocityEvents
      /\ \A m \in DOMAIN velocityEvents : after[m] = IF m = n THEN row ELSE velocityEvents[m]
  BY <1>2, <1>3, <1>4, <1>5, <1>6, RowReplaced
<1>9. ASSUME NEW m \in DOMAIN after PROVE EventOK(after, m, enabled, since, signals)
  <2>1. CASE m = n
    BY <1>3, <1>5, <1>8, <2>1 DEF EventOK
  <2>2. CASE m # n
    <3>1. /\ m \in DOMAIN velocityEvents /\ after[m] = velocityEvents[m]
          /\ EventOK(velocityEvents, m, enabled, since, signals)
          /\ velocityEvents[m].owed \in SUBSET Rules
      BY <1>4, <1>8, <2>2, EventRow DEF RiskInv
    <3>2. \A r \in velocityEvents[m].owed :
            Reaching(since, velocityEvents, r, velocityEvents[m].user) =>
                Reaching(since, after, r, velocityEvents[m].user)
      <4>1. /\ after \in Seq(VelocityEvent) /\ DOMAIN velocityEvents \subseteq DOMAIN after
            /\ \A k \in DOMAIN velocityEvents : after[k].user = velocityEvents[k].user
        BY <1>5, <1>8
      <4>. QED BY <1>4, <3>1, <4>1, WindowGrows
    <3>. QED BY <3>1, <3>2 DEF EventOK
  <2>. QED BY <2>1, <2>2
<1>10. /\ RequestsOK' /\ request'[w] = Idle
       /\ \A v \in Workers : v # w => request'[v] = request[v]
  BY <1>1, HeldNext DEF RiskInv
<1>11. Apart(request')
  BY <1>10, StillApart DEF Idle, EvalOps
<1>12. ASSUME NEW v \in Workers, v # w PROVE EvalHeld(request[v], after, signals)
  BY <1>7, <1>8, <1>12 DEF EvalHeld, EvalOps, RiskInv
<1>13. EvalHeld(Idle, after, signals)
  BY DEF EvalHeld, Idle, EvalOps
<1>. QED BY <1>1, <1>6, <1>8, <1>9, <1>10, <1>11, <1>12, <1>13 DEF RiskInv

-----------------------------------------------------------------------------
(* A switched rule, or a window that moves on, excuses what is not settled *)
(* yet; no request goes on.                                                *)
LEMMA ExcuseStep ==
    ASSUME RiskInv, NEW rules \in SUBSET Rules,
           velocityEvents' = Excused(rules), request' = request, signals' = signals,
           enabled' \in [Rules -> BOOLEAN], since' \in Nat,
           \A r \in Rules \ rules : enabled'[r] = enabled[r] /\ since' = since
    PROVE  RiskInv'
<1>. DEFINE row(n) == [velocityEvents[n] EXCEPT !.owed = @ \ rules]
<1>1. velocityEvents \in Seq(VelocityEvent) /\ since \in Nat
  BY DEF RiskInv
<1>2. ASSUME NEW n \in DOMAIN velocityEvents
      PROVE  /\ row(n) \in VelocityEvent /\ row(n).user = velocityEvents[n].user
             /\ row(n).owed = velocityEvents[n].owed \ rules
             /\ row(n).settled = velocityEvents[n].settled
             /\ velocityEvents[n] \in VelocityEvent
  <2>1. velocityEvents[n] \in VelocityEvent
    BY <1>1
  <2>. QED BY <2>1 DEF VelocityEvent
<1>3. PICK after : after = velocityEvents'
  OBVIOUS
<1>4. after = [n \in DOMAIN velocityEvents |->
                  IF velocityEvents[n].settled THEN velocityEvents[n] ELSE row(n)]
  BY <1>3 DEF Excused
<1>. HIDE DEF row
<1>5. after \in Seq(VelocityEvent) /\ DOMAIN after = DOMAIN velocityEvents
  BY <1>1, <1>2, <1>4
<1>6. \A n \in DOMAIN velocityEvents :
        /\ after[n].user = velocityEvents[n].user
        /\ after[n].settled = velocityEvents[n].settled
        /\ after[n].owed \subseteq velocityEvents[n].owed
        /\ ~ velocityEvents[n].settled => after[n].owed \cap rules = {}
  BY <1>2, <1>4
<1>7. ASSUME NEW m \in DOMAIN after PROVE EventOK(after, m, enabled', since', signals)
  <2>1. /\ EventOK(velocityEvents, m, enabled, since, signals)
        /\ after[m].owed \in SUBSET Rules
    BY <1>5, EventRow DEF RiskInv
  <2>2. ASSUME ~ after[m].settled, NEW r \in after[m].owed
        PROVE  enabled'[r] /\ Reaching(since', after, r, after[m].user)
    <3>1. r \in Rules \ rules /\ r \in velocityEvents[m].owed /\ ~ velocityEvents[m].settled
      BY <1>5, <1>6, <2>1, <2>2
    <3>2. enabled[r] /\ Reaching(since, velocityEvents, r, velocityEvents[m].user)
      BY <2>1, <3>1 DEF EventOK
    <3>3. Reaching(since, after, r, velocityEvents[m].user)
      BY <1>1, <1>5, <1>6, <3>1, <3>2, WindowGrows
    <3>. QED BY <1>5, <1>6, <3>1, <3>2, <3>3
  <2>. QED BY <1>5, <1>6, <2>1, <2>2 DEF EventOK
<1>8. ASSUME NEW w \in Workers PROVE EvalHeld(request[w], after, signals)
  <2>1. EvalHeld(request[w], velocityEvents, signals)
    BY DEF RiskInv
  <2>2. /\ request[w].op = "rules" => request[w].op \in EvalOps
        /\ request[w].op \in EvalOps => request[w].event \in DOMAIN velocityEvents
    BY <2>1 DEF EvalHeld, EvalOps
  <2>. QED BY <1>5, <1>6, <2>1, <2>2 DEF EvalHeld
<1>9. RequestsOK' /\ Apart(request')
  BY DEF RiskInv, RequestsOK
<1>. QED BY <1>3, <1>5, <1>7, <1>8, <1>9 DEF RiskInv

LEMMA StepRiskInv == RiskInv /\ [RiskNext]_<<requestVars, riskVars>> => RiskInv'
<1>. SUFFICES ASSUME RiskInv, [RiskNext]_<<requestVars, riskVars>> PROVE RiskInv'
  OBVIOUS
<1>1. CASE UNCHANGED <<requestVars, riskVars>>
  <2>1. Spares(EvalOps)
    BY <1>1, StillSpares DEF RiskInv, requestVars
  <2>. QED BY <1>1, <2>1, RiskAside DEF riskVars
<1>2. ASSUME NEW r \in Rules, SwitchRule(r) PROVE RiskInv'
  <2>1. /\ enabled' = [enabled EXCEPT ![r] = ~ @] /\ velocityEvents' = Excused({r})
        /\ request' = request /\ since' = since /\ signals' = signals
    BY <1>2 DEF SwitchRule, Serve
  <2>2. enabled \in [Rules -> BOOLEAN] /\ since \in Nat
    BY DEF RiskInv
  <2>3. /\ enabled' \in [Rules -> BOOLEAN]
        /\ \A s \in Rules \ {r} : enabled'[s] = enabled[s]
    BY <2>1, <2>2
  <2>4. {r} \in SUBSET Rules
    OBVIOUS
  <2>. QED BY <2>1, <2>2, <2>3, <2>4, ExcuseStep
<1>3. CASE WindowSlides
  <2>1. /\ velocityEvents' = Excused(Rules) /\ since' = since + 1 /\ since \in Nat
        /\ UNCHANGED <<request, enabled, signals>> /\ enabled \in [Rules -> BOOLEAN]
    BY <1>3 DEF WindowSlides, requestVars, RiskInv
  <2>2. since' \in Nat /\ enabled' \in [Rules -> BOOLEAN]
    BY <2>1
  <2>. QED BY <2>1, <2>2, ExcuseStep
<1>4. ASSUME NEW n \in DOMAIN restrictions, RestrictionExpires(n) PROVE RiskInv'
  <2>1. Spares(EvalOps)
    BY <1>4, StillSpares DEF RiskInv, RestrictionExpires, requestVars
  <2>. QED BY <1>4, <2>1, RiskAside DEF RestrictionExpires
<1>5. CASE \E w \in Workers, u \in Users : RecordVelocityEvent(w, u)
  BY <1>5, RecordStep
<1>6. CASE \/ \E w \in Workers : ReadRules(w) \/ FinishEvaluation(w)
           \/ \E w \in Workers, r \in Rules : EvaluateRule(w, r)
  BY <1>6, ReadRulesStep, EvaluateStep, FinishStep
<1>. QED BY <1>1, <1>2, <1>3, <1>4, <1>5, <1>6, StaffStep, StaffWorkerStep DEF RiskNext

(* What velocity events, signals and the evaluations in flight hold at     *)
(* every moment.                                                           *)
THEOREM RiskInvariance == RiskSpec => []RiskInv
BY InitRiskInv, StepRiskInv, PTL DEF RiskSpec

(* An event that reached the threshold of an enabled rule has its signal   *)
(* once its evaluation is over (fraud_abuse/services.py:45, :71), for any  *)
(* thresholds and however the recorders overlap.                           *)
THEOREM BurstsAreSignalled == RiskSpec => []ThresholdIsSignalled
<1>1. RiskInv => ThresholdIsSignalled
  BY DEF RiskInv, ThresholdIsSignalled, EventOK
<1>. QED BY RiskInvariance, <1>1, PTL

(***************************************************************************)
(* Notices.  The bound is inductive as, while a channel is suppressed, the *)
(* workers that were cleared before count with the deliveries made since   *)
(* (LateOK).                                                               *)
(***************************************************************************)

EnqueueRequest == [op: {"enqueue"}, notice: Nat, todo: SUBSET Channels, created: Nat]

(* What a worker holds of a notice or of the deliveries it dispatches.     *)
NoticeHeld(held, ns, ds) ==
    /\ held.op = "enqueue" => held \in EnqueueRequest /\ held.notice \in DOMAIN ns
    /\ held.op = "deliver" => /\ held.channel \in Channels /\ held.then \in EnqueueRequest
                              /\ held.then.notice \in DOMAIN ns
    /\ held.op = "dispatch" => /\ held = [op |-> "dispatch", rows |-> held.rows]
                               /\ \A n \in DOMAIN held.rows :
                                    n \in DOMAIN ds /\ held.rows[n] \in Delivery

Suppressed(rows) == \E r \in Reasons : rows[r] = "active"
ClearedOf(reqs, c) == {w \in Workers : reqs[w].op = "deliver" /\ reqs[w].channel = c}

(* While a channel is suppressed, what was inserted since and what the     *)
(* workers may still insert stay within what had been cleared.             *)
LateOK(l, rows, reqs, c) ==
    /\ l.made <= l.cleared
    /\ Suppressed(rows) => l.made + Cardinality(ClearedOf(reqs, c)) <= l.cleared

NoticeInv ==
    /\ RequestsOK /\ NoticeTypes
    /\ \A w \in Workers : NoticeHeld(request[w], notices, deliveries)
    /\ \A c \in Channels : LateOK(late[c], suppressions[c], request, c)

-----------------------------------------------------------------------------
LEMMA ClearedIsFinite ==
    ASSUME NEW reqs, NEW c
    PROVE  /\ IsFiniteSet(ClearedOf(reqs, c)) /\ Cardinality(ClearedOf(reqs, c)) \in Nat
           /\ Cardinality(ClearedOf(reqs, c)) \in 0 .. Cardinality(Workers)
<1>1. ClearedOf(reqs, c) \in SUBSET Workers
  BY DEF ClearedOf
<1>2. /\ IsFiniteSet(ClearedOf(reqs, c))
      /\ Cardinality(ClearedOf(reqs, c)) <= Cardinality(Workers)
  BY <1>1, WorkersAreFinite, FS_Subset
<1>3. Cardinality(ClearedOf(reqs, c)) \in Nat /\ Cardinality(Workers) \in Nat
  BY <1>2, WorkersAreFinite, FS_CardinalityType
<1>. QED BY <1>2, <1>3

LEMMA LateRow ==
    ASSUME NoticeTypes, NEW c \in Channels
    PROVE  /\ late[c] \in [made: Nat, cleared: 0 .. Cardinality(Workers)]
           /\ late[c].made \in Nat /\ late[c].cleared \in Nat /\ Cardinality(Workers) \in Nat
BY WorkersAreFinite, FS_CardinalityType DEF NoticeTypes

(* Fewer cleared workers, or a suppression less, disturb nothing.          *)
LEMMA LateStays ==
    ASSUME NoticeTypes, NEW c \in Channels, LateOK(late[c], suppressions[c], request, c),
           NEW rows, Suppressed(rows) => Suppressed(suppressions[c]),
           NEW reqs, Suppressed(rows) => ClearedOf(reqs, c) \subseteq ClearedOf(request, c)
    PROVE  LateOK(late[c], rows, reqs, c)
<1>1. /\ late[c].made \in Nat /\ late[c].cleared \in Nat
  BY LateRow
<1>2. ASSUME Suppressed(rows)
      PROVE  late[c].made + Cardinality(ClearedOf(reqs, c)) <= late[c].cleared
  <2>1. Cardinality(ClearedOf(reqs, c)) <= Cardinality(ClearedOf(request, c))
    BY <1>2, ClearedIsFinite, FS_Subset
  <2>2. /\ Cardinality(ClearedOf(reqs, c)) \in Nat
        /\ Cardinality(ClearedOf(request, c)) \in Nat
    BY ClearedIsFinite
  <2>. QED BY <1>1, <1>2, <2>1, <2>2 DEF LateOK
<1>. QED BY <1>2 DEF LateOK

LEMMA HeldStays ==
    ASSUME NEW held, NEW ns, NEW ds, NoticeHeld(held, ns, ds), NEW ns2, NEW ds2,
           DOMAIN ns \subseteq DOMAIN ns2, DOMAIN ds \subseteq DOMAIN ds2
    PROVE  NoticeHeld(held, ns2, ds2)
BY DEF NoticeHeld

LEMMA InitNoticeInv == RequestsInit /\ NoticeInit => NoticeInv
<1>. SUFFICES ASSUME RequestsInit, NoticeInit PROVE NoticeInv
  OBVIOUS
<1>1. \A w \in Workers : request[w].op = "idle"
  BY DEF RequestsInit, Idle
<1>2. 0 \in 0 .. Cardinality(Workers)
  BY WorkersAreFinite, FS_CardinalityType
<1>3. NoticeTypes
  BY <1>2 DEF NoticeInit, NoticeTypes, NotificationPreference, NotificationSuppression,
             DevicePushToken
<1>4. ASSUME NEW c \in Channels PROVE LateOK(late[c], suppressions[c], request, c)
  <2>1. late[c].made = 0 /\ late[c].cleared = 0 /\ ~ Suppressed(suppressions[c])
    BY DEF NoticeInit, Suppressed
  <2>. QED BY <2>1 DEF LateOK
<1>. QED BY <1>1, <1>3, <1>4, InitRequests DEF NoticeInv, NoticeHeld

(* A step in which one worker goes on with held, clearing no channel that  *)
(* is suppressed, and no channel is suppressed anew.                       *)
LEMMA WorkerGoesOn ==
    ASSUME NoticeInv, NoticeTypes', NEW w \in Workers, NEW held,
           Begin(w, held) \/ TakeUp(w, held) \/ Proceed(w, held), late' = late,
           suppressions' = suppressions,
           NoticeHeld(held, notices', deliveries'),
           held.op = "deliver" => ~ Suppressed(suppressions[held.channel]),
           DOMAIN notices \subseteq DOMAIN notices', DOMAIN deliveries \subseteq DOMAIN deliveries'
    PROVE  NoticeInv'
<1>1. /\ RequestsOK' /\ request'[w] = held
      /\ \A v \in Workers : v # w => request'[v] = request[v]
  BY HeldNext DEF NoticeInv
<1>2. ASSUME NEW v \in Workers PROVE NoticeHeld(request'[v], notices', deliveries')
  <2>1. NoticeHeld(request[v], notices', deliveries')
    BY HeldStays DEF NoticeInv
  <2>. QED BY <1>1, <2>1
<1>3. ASSUME NEW c \in Channels PROVE LateOK(late[c], suppressions[c], request', c)
  <2>1. Suppressed(suppressions[c]) => ClearedOf(request', c) \subseteq ClearedOf(request, c)
    BY <1>1 DEF ClearedOf
  <2>2. LateOK(late[c], suppressions[c], request, c)
    BY DEF NoticeInv
  <2>. QED BY <2>1, <2>2, LateStays DEF NoticeInv
<1>. QED BY <1>1, <1>2, <1>3 DEF NoticeInv

LEMMA EnqueueStep ==
    ASSUME NoticeInv, NEW w \in Workers,
           \/ \E k \in NoticeKeys : CreateNotice(w, k, Channels)
           \/ \E n \in DOMAIN notices : EnqueueAgain(w, n, Channels)
    PROVE  NoticeInv'
<1>. DEFINE held(n) == [op |-> "enqueue", notice |-> n, todo |-> Channels, created |-> 0]
<1>0. notices \in Seq(Notice) /\ NoticeTypes
  BY DEF NoticeInv, NoticeTypes
<1>1. ASSUME NEW n \in Nat
      PROVE held(n) \in EnqueueRequest /\ held(n).notice = n /\ held(n).op = "enqueue"
  BY DEF EnqueueRequest
<1>. HIDE DEF held
<1>2. ASSUME NEW n \in DOMAIN notices, Begin(w, held(n)), UNCHANGED noticeVars PROVE NoticeInv'
  <2>1. n \in Nat
    BY <1>0
  <2>2. NoticeHeld(held(n), notices, deliveries) /\ held(n).op # "deliver"
    BY <1>1, <2>1 DEF NoticeHeld
  <2>3. NoticeTypes'
    BY <1>0, <1>2 DEF NoticeTypes, noticeVars
  <2>. QED BY <1>2, <2>2, <2>3, WorkerGoesOn DEF noticeVars
<1>3. ASSUME NEW k \in NoticeKeys, CreateNotice(w, k, Channels), NoticesOf(k) = {} PROVE NoticeInv'
  <2>. DEFINE row == [key |-> k, status |-> "received"]
  <2>1. PICK n : n = Len(notices) + 1
    OBVIOUS
  <2>2. row \in Notice
    BY DEF Notice
  <2>3. /\ notices' = Append(notices, row) /\ Begin(w, held(n))
        /\ UNCHANGED <<deliveries, preferences, suppressions, pushToken, mode, late>>
    BY <1>3, <2>1 DEF CreateNotice, held
  <2>. HIDE DEF row
  <2>4. /\ notices' \in Seq(Notice) /\ DOMAIN notices' = DOMAIN notices \cup {n} /\ n \in Nat
    BY <1>0, <2>1, <2>2, <2>3, RowInserted
  <2>5. NoticeHeld(held(n), notices', deliveries') /\ held(n).op # "deliver"
    BY <1>1, <2>4 DEF NoticeHeld
  <2>6. NoticeTypes'
    BY <1>0, <2>3, <2>4 DEF NoticeTypes
  <2>. QED BY <2>3, <2>4, <2>5, <2>6, WorkerGoesOn
<1>4. ASSUME NEW k \in NoticeKeys, CreateNotice(w, k, Channels), NoticesOf(k) # {} PROVE NoticeInv'
  <2>1. \E n \in DOMAIN notices : Begin(w, held(n)) /\ UNCHANGED noticeVars
    BY <1>4 DEF CreateNotice, held, noticeVars, NoticesOf
  <2>. QED BY <1>2, <2>1
<1>5. ASSUME NEW n \in DOMAIN notices, EnqueueAgain(w, n, Channels) PROVE NoticeInv'
  BY <1>2, <1>5 DEF EnqueueAgain, held
<1>. QED BY <1>3, <1>4, <1>5

LEMMA CheckStep ==
    ASSUME NoticeInv, NEW w \in Workers, NEW c \in Channels, CheckChannel(w, c) PROVE NoticeInv'
<1>. DEFINE r == request[w]
            rest == [r EXCEPT !.todo = @ \ {c}]
            held == [op |-> "deliver", channel |-> c, then |-> rest]
<1>1. r \in EnqueueRequest /\ r.notice \in DOMAIN notices
  BY DEF CheckChannel, Holds, NoticeInv, NoticeHeld
<1>2. rest \in EnqueueRequest /\ rest.notice = r.notice /\ rest.op = "enqueue"
  BY <1>1 DEF EnqueueRequest
<1>3. held.op = "deliver" /\ held.channel = c /\ held.then = rest
  OBVIOUS
<1>4. /\ IF MayDeliver(c) THEN Proceed(w, held) ELSE Proceed(w, rest)
      /\ UNCHANGED noticeVars
  BY DEF CheckChannel
<1>. HIDE DEF r, rest, held
<1>5. MayDeliver(c) => ~ Suppressed(suppressions[c])
  BY DEF MayDeliver, IsSuppressed, Suppressed
<1>6. NoticeHeld(held, notices, deliveries) /\ NoticeHeld(rest, notices, deliveries)
  BY <1>1, <1>2, <1>3 DEF NoticeHeld
<1>7. NoticeTypes'
  BY <1>4 DEF NoticeInv, NoticeTypes, noticeVars
<1>. QED BY <1>2, <1>3, <1>4, <1>5, <1>6, <1>7, WorkerGoesOn DEF noticeVars

LEMMA EndNoticeStep ==
    ASSUME NoticeInv, NEW w \in Workers, SaveNoticeStatus(w) \/ (Abandon(w) /\ UNCHANGED noticeVars)
    PROVE  NoticeInv'
<1>1. NoticeHeld(Idle, notices', deliveries') /\ Idle.op # "deliver"
  BY DEF NoticeHeld, Idle
<1>2. CASE Abandon(w) /\ UNCHANGED noticeVars
  <2>1. Proceed(w, Idle) /\ NoticeTypes'
    BY <1>2 DEF Abandon, End, NoticeInv, NoticeTypes, noticeVars
  <2>. QED BY <1>1, <1>2, <2>1, WorkerGoesOn DEF noticeVars
<1>3. CASE SaveNoticeStatus(w)
  <2>. DEFINE n == request[w].notice
              status == IF request[w].created > 0 THEN "queued" ELSE "skipped"
              row == [notices[n] EXCEPT !.status = status]
  <2>1. n \in DOMAIN notices /\ notices \in Seq(Notice)
    BY <1>3 DEF SaveNoticeStatus, Holds, NoticeInv, NoticeHeld, NoticeTypes
  <2>2. notices' = [notices EXCEPT ![n] = row] /\ Proceed(w, Idle)
        /\ UNCHANGED <<deliveries, preferences, suppressions, pushToken, mode, late>>
    BY <1>3 DEF SaveNoticeStatus, End
  <2>3. notices[n] \in Notice /\ status \in {"queued", "skipped"}
    BY <2>1
  <2>. HIDE DEF n, status
  <2>4. row \in Notice
    BY <2>3 DEF Notice
  <2>. HIDE DEF row
  <2>5. notices' \in Seq(Notice) /\ DOMAIN notices' = DOMAIN notices
    BY <2>1, <2>2, <2>4, RowReplaced
  <2>6. NoticeTypes'
    BY <2>2, <2>5 DEF NoticeInv, NoticeTypes
  <2>. QED BY <1>1, <2>2, <2>5, <2>6, WorkerGoesOn
<1>. QED BY <1>2, <1>3

(* Reading the rows to dispatch, and dispatching one.                      *)
LEMMA DispatchStep ==
    ASSUME NoticeInv, NEW w \in Workers,
           \/ DispatchDue(w)
           \/ \E n \in DOMAIN deliveries : OpenDelivery(w, n) \/ DispatchDelivery(w, n)
    PROVE  NoticeInv'
<1>0. deliveries \in Seq(Delivery) /\ NoticeTypes
  BY DEF NoticeInv, NoticeTypes
<1>1. ASSUME NEW rows \in SUBSET DOMAIN deliveries, Begin(w, Held(rows)) \/ TakeUp(w, Held(rows)),
             UNCHANGED noticeVars
      PROVE  NoticeInv'
  <2>1. /\ Held(rows).op = "dispatch" /\ DOMAIN Held(rows).rows = rows
        /\ \A n \in rows : Held(rows).rows[n] = deliveries[n]
        /\ Held(rows) = [op |-> "dispatch", rows |-> Held(rows).rows]
    BY DEF Held
  <2>2. \A n \in rows : deliveries[n] \in Delivery
    BY <1>0
  <2>3. NoticeHeld(Held(rows), notices, deliveries)
    BY <2>1, <2>2 DEF NoticeHeld
  <2>4. NoticeTypes'
    BY <1>0, <1>1 DEF NoticeTypes, noticeVars
  <2>. QED BY <1>1, <2>1, <2>3, <2>4, WorkerGoesOn DEF noticeVars
<1>2. ASSUME NEW n \in DOMAIN deliveries, DispatchDelivery(w, n) PROVE NoticeInv'
  <2>. DEFINE r == request[w]
              rest == DOMAIN r.rows \ {n}
              held == [r EXCEPT !.rows = [m \in rest |-> @[m]]]
              row == IF mode = "disabled" THEN [deliveries[n] EXCEPT !.status = "skipped"]
                     ELSE MarkDeliveryAttempt(r.rows[n])
  <2>1. /\ r.op = "dispatch" /\ n \in DOMAIN r.rows /\ NoticeHeld(r, notices, deliveries)
    BY <1>2 DEF DispatchDelivery, Holds, NoticeInv
  <2>2. /\ r = [op |-> "dispatch", rows |-> r.rows] /\ r.rows[n] \in Delivery
        /\ \A m \in DOMAIN r.rows : m \in DOMAIN deliveries /\ r.rows[m] \in Delivery
    BY <2>1 DEF NoticeHeld
  <2>3. /\ deliveries' = [deliveries EXCEPT ![n] = row]
        /\ UNCHANGED <<notices, preferences, suppressions, pushToken, mode, late>>
        /\ Proceed(w, IF rest = {} THEN Idle ELSE held)
    BY <1>2 DEF DispatchDelivery, End
  <2>4. row \in Delivery
    <3>1. deliveries[n] \in Delivery
      BY <1>0
    <3>2. [deliveries[n] EXCEPT !.status = "skipped"] \in Delivery
      BY <3>1 DEF Delivery
    <3>. DEFINE mine == r.rows[n]
    <3>3. mine \in Delivery
      BY <2>2
    <3>. HIDE DEF mine
    <3>4. MarkDeliveryAttempt(mine) \in Delivery
      <4>1. mine.attempts \in Nat /\ mine.attempts + 1 \in Nat
        BY <3>3 DEF Delivery
      <4>. QED BY <3>3, <4>1 DEF Delivery, MarkDeliveryAttempt
    <3>. QED BY <3>2, <3>4 DEF mine
  <2>5. /\ held = [op |-> "dispatch", rows |-> held.rows] /\ held.op = "dispatch"
        /\ held.rows = [m \in rest |-> r.rows[m]]
    <3>. DEFINE rows == r.rows
    <3>1. r = [op |-> "dispatch", rows |-> rows]
      BY <2>2
    <3>2. held = [op |-> "dispatch", rows |-> [m \in rest |-> rows[m]]]
      BY <3>1
    <3>. QED BY <3>2
  <2>. HIDE DEF row, held
  <2>6. deliveries' \in Seq(Delivery) /\ DOMAIN deliveries' = DOMAIN deliveries
    BY <1>0, <2>3, <2>4, RowReplaced
  <2>7. NoticeHeld(held, notices', deliveries') /\ NoticeHeld(Idle, notices', deliveries')
    BY <2>2, <2>5, <2>6 DEF NoticeHeld, Idle
  <2>8. NoticeTypes'
    BY <1>0, <2>3, <2>6 DEF NoticeTypes
  <2>9. PICK next : next = IF rest = {} THEN Idle ELSE held
    OBVIOUS
  <2>10. NoticeHeld(next, notices', deliveries') /\ next.op # "deliver"
    BY <2>5, <2>7, <2>9 DEF Idle
  <2>. QED BY <2>3, <2>6, <2>8, <2>9, <2>10, WorkerGoesOn
<1>3. CASE DispatchDue(w)
  <2>1. Pending \in SUBSET DOMAIN deliveries
    BY DEF Pending
  <2>. QED BY <1>1, <1>3, <2>1 DEF DispatchDue
<1>4. ASSUME NEW n \in DOMAIN deliveries, OpenDelivery(w, n) PROVE NoticeInv'
  BY <1>1, <1>4, {n} \in SUBSET DOMAIN deliveries DEF OpenDelivery
<1>. QED BY <1>2, <1>3, <1>4

(* The insert of a cleared worker: one more made, one less cleared.        *)
LEMMA DeliverStep ==
    ASSUME NoticeInv, NEW w \in Workers, CreateDelivery(w) PROVE NoticeInv'
<1>. DEFINE c == request[w].channel
            r == request[w].then
            row == [notice |-> r.notice, channel |-> c, status |-> "pending", attempts |-> 0]
            held == [r EXCEPT !.created = @ + 1]
<1>0. deliveries \in Seq(Delivery) /\ NoticeTypes
  BY DEF NoticeInv, NoticeTypes
<1>1. /\ request[w].op = "deliver" /\ c \in Channels /\ r \in EnqueueRequest
      /\ r.notice \in DOMAIN notices
  BY DEF CreateDelivery, Holds, NoticeInv, NoticeHeld
<1>2. row \in Delivery
  BY <1>1 DEF EnqueueRequest, Delivery
<1>3. held \in EnqueueRequest /\ held.op = "enqueue" /\ held.notice = r.notice
  BY <1>1 DEF EnqueueRequest
<1>4. /\ deliveries' = Append(deliveries, row) /\ Proceed(w, held)
      /\ late' = IF IsSuppressed(c) THEN [late EXCEPT ![c].made = @ + 1] ELSE late
      /\ UNCHANGED <<notices, preferences, suppressions, pushToken, mode>>
  BY DEF CreateDelivery
<1>5. w \in ClearedOf(request, c)
  BY <1>1 DEF ClearedOf
<1>. HIDE DEF row, held, c, r
<1>6. deliveries' \in Seq(Delivery) /\ DOMAIN deliveries \subseteq DOMAIN deliveries'
  BY <1>0, <1>2, <1>4, RowInserted
<1>7. /\ RequestsOK' /\ request'[w] = held
      /\ \A v \in Workers : v # w => request'[v] = request[v]
  BY <1>4, HeldNext DEF NoticeInv
<1>8. IsSuppressed(c) <=> Suppressed(suppressions[c])
  BY DEF IsSuppressed, Suppressed
<1>9. /\ late[c].made \in Nat /\ late[c].cleared \in Nat /\ Cardinality(Workers) \in Nat
      /\ late[c] \in [made: Nat, cleared: 0 .. Cardinality(Workers)]
  BY <1>0, <1>1, LateRow
<1>10. /\ late' \in [Channels -> [made: Nat, cleared: 0 .. Cardinality(Workers)]]
       /\ \A d \in Channels : d # c => late'[d] = late[d]
       /\ late'[c].cleared = late[c].cleared
       /\ late'[c].made = IF IsSuppressed(c) THEN late[c].made + 1 ELSE late[c].made
  <2>1. late \in [Channels -> [made: Nat, cleared: 0 .. Cardinality(Workers)]]
    BY <1>0 DEF NoticeTypes
  <2>2. PICK n : n = late[c].made + 1
    OBVIOUS
  <2>3. n \in Nat /\ late' = IF IsSuppressed(c) THEN [late EXCEPT ![c].made = n] ELSE late
    BY <1>4, <1>9, <2>2
  <2>. QED BY <1>1, <1>9, <2>1, <2>2, <2>3
<1>11. ASSUME NEW d \in Channels PROVE LateOK(late'[d], suppressions[d], request', d)
  <2>1. ClearedOf(request', d) \subseteq ClearedOf(request, d)
    BY <1>3, <1>7 DEF ClearedOf
  <2>2. LateOK(late[d], suppressions[d], request, d)
    BY DEF NoticeInv
  <2>3. CASE d # c \/ ~ IsSuppressed(c)
    <3>1. late'[d].made = late[d].made /\ late'[d].cleared = late[d].cleared
      BY <1>10, <2>3
    <3>2. LateOK(late[d], suppressions[d], request', d)
      BY <1>0, <2>1, <2>2, LateStays
    <3>. QED BY <3>1, <3>2 DEF LateOK
  <2>4. CASE d = c /\ IsSuppressed(c)
    <3>1. ClearedOf(request', c) \in SUBSET (ClearedOf(request, c) \ {w})
      BY <1>3, <1>7 DEF ClearedOf
    <3>2. Cardinality(ClearedOf(request, c) \ {w}) = Cardinality(ClearedOf(request, c)) - 1
      BY <1>5, ClearedIsFinite, FS_RemoveElement
    <3>3. IsFiniteSet(ClearedOf(request, c) \ {w})
      BY ClearedIsFinite, FS_RemoveElement
    <3>4. Cardinality(ClearedOf(request', c)) <= Cardinality(ClearedOf(request, c) \ {w})
      BY <3>1, <3>3, FS_Subset
    <3>5. /\ Cardinality(ClearedOf(request', c)) \in Nat
          /\ Cardinality(ClearedOf(request, c)) \in Nat
      BY ClearedIsFinite
    <3>6. late[c].made + Cardinality(ClearedOf(request, c)) <= late[c].cleared
      BY <1>8, <2>2, <2>4 DEF LateOK
    <3>7. late'[c].made + Cardinality(ClearedOf(request', c)) <= late'[c].cleared
          /\ late'[c].made <= late'[c].cleared
      BY <1>9, <1>10, <2>4, <3>2, <3>4, <3>5, <3>6
    <3>. QED BY <2>4, <3>7 DEF LateOK
  <2>. QED BY <2>3, <2>4
<1>12. NoticeTypes'
  BY <1>0, <1>4, <1>6, <1>10 DEF NoticeTypes
<1>13. ASSUME NEW v \in Workers PROVE NoticeHeld(request'[v], notices, deliveries')
  <2>1. NoticeHeld(request[v], notices, deliveries')
    BY <1>6, HeldStays DEF NoticeInv
  <2>2. NoticeHeld(held, notices, deliveries')
    BY <1>1, <1>3 DEF NoticeHeld
  <2>. QED BY <1>7, <2>1, <2>2
<1>. QED BY <1>4, <1>7, <1>11, <1>12, <1>13 DEF NoticeInv

-----------------------------------------------------------------------------
(* The member and the suppression list: the requests stay as they are.     *)
LEMMA ListStep ==
    ASSUME NoticeInv, NoticeTypes', request' = request, UNCHANGED <<notices, deliveries>>,
           \A c \in Channels : LateOK(late'[c], suppressions'[c], request, c)
    PROVE  NoticeInv'
BY DEF NoticeInv, RequestsOK

LEMMA MemberStep ==
    ASSUME NoticeInv,
           \/ \E c \in Channels, s \in Scopes, to \in NotificationPreference :
                SetPreference(c, s, to)
           \/ RegisterPushToken \/ RevokePushToken
    PROVE  NoticeInv'
<1>1. /\ request' = request /\ UNCHANGED <<notices, deliveries, suppressions, mode, late>>
  BY DEF SetPreference, RegisterPushToken, RevokePushToken, Serve
<1>2. pushToken' \in DevicePushToken
  BY DEF SetPreference, RegisterPushToken, RevokePushToken, DevicePushToken, NoticeInv,
         NoticeTypes
<1>3. preferences' \in [Channels -> [Scopes -> NotificationPreference]]
  <2>1. preferences \in [Channels -> [Scopes -> NotificationPreference]]
    BY DEF NoticeInv, NoticeTypes
  <2>2. ASSUME NEW c \in Channels, NEW s \in Scopes, NEW to \in NotificationPreference,
               SetPreference(c, s, to)
        PROVE  preferences' \in [Channels -> [Scopes -> NotificationPreference]]
    BY <2>1, <2>2 DEF SetPreference
  <2>. QED BY <2>1, <2>2 DEF RegisterPushToken, RevokePushToken
<1>4. NoticeTypes'
  BY <1>1, <1>2, <1>3 DEF NoticeInv, NoticeTypes
<1>. QED BY <1>1, <1>4, ListStep DEF NoticeInv

LEMMA SuppressionStep ==
    ASSUME NoticeInv, NEW c \in Channels, NEW reason \in Reasons,
           Suppress(c, reason) \/ SuppressionLapses(c, reason)
    PROVE  NoticeInv'
<1>0. /\ NoticeTypes /\ suppressions \in [Channels -> [Reasons -> NotificationSuppression]]
      /\ late \in [Channels -> [made: Nat, cleared: 0 .. Cardinality(Workers)]]
  BY DEF NoticeInv, NoticeTypes
<1>1. request' = request /\ UNCHANGED <<notices, deliveries, preferences, pushToken, mode>>
  BY DEF Suppress, SuppressionLapses, Serve, requestVars
<1>2. PICK to \in {"active", "lapsed"} : suppressions' = [suppressions EXCEPT ![c][reason] = to]
  BY DEF Suppress, SuppressionLapses
<1>3. /\ suppressions' \in [Channels -> [Reasons -> NotificationSuppression]]
      /\ \A d \in Channels : d # c => suppressions'[d] = suppressions[d]
      /\ \A r \in Reasons : suppressions'[c][r] = IF r = reason THEN to ELSE suppressions[c][r]
  BY <1>0, <1>2 DEF NotificationSuppression
<1>4. Cleared(c) = ClearedOf(request, c)
  BY DEF Cleared, ClearedOf, Holds
<1>5. PICK n : n = Cardinality(ClearedOf(request, c))
  OBVIOUS
<1>6. n \in 0 .. Cardinality(Workers) /\ n \in Nat
  BY <1>5, ClearedIsFinite
<1>7. CASE Suppress(c, reason) /\ ~ IsSuppressed(c)
  <2>1. late' = [late EXCEPT ![c] = [made |-> 0, cleared |-> n]]
    BY <1>4, <1>5, <1>7 DEF Suppress
  <2>2. /\ late' \in [Channels -> [made: Nat, cleared: 0 .. Cardinality(Workers)]]
        /\ late'[c].made = 0 /\ late'[c].cleared = n
        /\ \A d \in Channels : d # c => late'[d] = late[d]
    BY <1>0, <1>6, <2>1
  <2>3. LateOK(late'[c], suppressions'[c], request, c)
    BY <1>5, <1>6, <2>2 DEF LateOK
  <2>4. NoticeTypes'
    BY <1>0, <1>1, <1>3, <2>2 DEF NoticeTypes
  <2>. QED BY <1>1, <1>3, <2>2, <2>3, <2>4, ListStep DEF NoticeInv
<1>8. CASE SuppressionLapses(c, reason) \/ IsSuppressed(c)
  <2>1. late' = late /\ NoticeTypes'
    BY <1>0, <1>1, <1>3, <1>8 DEF Suppress, SuppressionLapses, NoticeTypes
  <2>2. Suppressed(suppressions[c])
    BY <1>8 DEF SuppressionLapses, IsSuppressed, Suppressed
  <2>3. ASSUME NEW d \in Channels PROVE LateOK(late[d], suppressions'[d], request, d)
    <3>1. Suppressed(suppressions'[d]) => Suppressed(suppressions[d])
      BY <1>3, <2>2
    <3>2. LateOK(late[d], suppressions[d], request, d)
      BY DEF NoticeInv
    <3>. QED BY <1>0, <3>1, <3>2, LateStays
  <2>. QED BY <1>1, <2>1, <2>3, ListStep
<1>. QED BY <1>7, <1>8

LEMMA StepNoticeInv == NoticeInv /\ [NoticeNext]_<<requestVars, noticeVars>> => NoticeInv'
<1>. SUFFICES ASSUME NoticeInv, [NoticeNext]_<<requestVars, noticeVars>> PROVE NoticeInv'
  OBVIOUS
<1>1. CASE UNCHANGED <<requestVars, noticeVars>>
  BY <1>1 DEF requestVars, noticeVars, NoticeInv, NoticeTypes, RequestsOK
<1>2. CASE NoticeNext
  BY <1>2, EnqueueStep, CheckStep, EndNoticeStep, DispatchStep, DeliverStep, MemberStep,
     SuppressionStep DEF NoticeNext
<1>. QED BY <1>1, <1>2

(* What notices, deliveries and the workers that create them hold at every *)
(* moment.                                                                 *)
THEOREM NoticeInvariance == NoticeSpec => []NoticeInv
BY InitNoticeInv, StepNoticeInv, PTL DEF NoticeSpec

(* A suppressed channel gets only the deliveries some worker had cleared   *)
(* before (notifications/services.py:102, :109), for any channels, notices *)
(* and workers.                                                            *)
THEOREM SuppressionsHold == NoticeSpec => []SuppressionIsRespected
<1>1. NoticeInv => SuppressionIsRespected
  BY DEF NoticeInv, SuppressionIsRespected, LateOK
<1>. QED BY NoticeInvariance, <1>1, PTL

(***************************************************************************)
(* Usage stays near its limit.  The invariant says it of the usage         *)
(* together with what granted checks have yet to record (NearLimit): a     *)
(* decision fits the usage it read, and what the other workers hold is at  *)
(* most one largest quantity each.                                         *)
(***************************************************************************)

CheckRequest == [op: {"check"}, subject: Subjects, quantity: AccessQuantities,
                 key: AccessKeys, plan: AccessPlans \cup {NoPlan}]
RecordRequest == [op: {"record"}, subject: Subjects, quantity: AccessQuantities,
                  key: AccessKeys, plan: AccessPlans \cup {NoPlan}]
OverrideRequest == [op: {"override"}, row: Nat \ {0}, new: Override]

AccessRequestOK(held) ==
    /\ held.op = "check" => held \in CheckRequest
    /\ held.op = "record" => held \in RecordRequest
    /\ held.op = "override" => held \in OverrideRequest /\ held.row \in DOMAIN overrides

(* What the granted checks of a subject have yet to record.                *)
ToRecord(s) ==
    [w \in Workers |-> IF Holds(w, "record") /\ request[w].subject = s
                       THEN request[w].quantity ELSE 0]
Unrecorded(s) == SumFunctionOnSet(ToRecord(s), Workers)

LimitsSeen(s) == {0} \cup {d.limit : d \in Granted(s)}
Slack == (Cardinality(Workers) - 1) * Max(AccessQuantities)

(* Usage stays near the limit even when all that is granted is recorded;   *)
(* of the periods that are over nothing is to be recorded any more.        *)
NearLimit(s) ==
    (\A d \in Granted(s) : ~d.override) =>
        \A p \in 1..Periods :
            /\ UsageTotal(s, p) <= Max(LimitsSeen(s)) + Slack
            /\ period <= p => UsageTotal(s, p) + Unrecorded(s) <= Max(LimitsSeen(s)) + Slack

AccessInv ==
    /\ RequestsOK /\ AccessTypes /\ IsFiniteSet(decisions)
    /\ \A w \in Workers : AccessRequestOK(request[w])
    /\ \A e \in ProductUsageEvent : period < e.period => usageEvents[e] = 0
    /\ \A s \in Subjects : NearLimit(s)

-----------------------------------------------------------------------------
LEMMA EventsAreFinite == IsFiniteSet(ProductUsageEvent)
<1>. DEFINE tuples == (Subjects \X AccessQuantities) \X ((1..Periods) \X AccessKeys)
            tuple == [e \in ProductUsageEvent |->
                        <<<<e.subject, e.quantity>>, <<e.period, e.key>>>>]
<1>1. IsFiniteSet(tuples)
  <2>1. IsFiniteSet(1..Periods)
    BY FS_Interval, UsageIsFinite
  <2>2. IsFiniteSet(Subjects \X AccessQuantities)
    BY FS_Product, UsageIsFinite
  <2>3. IsFiniteSet((1..Periods) \X AccessKeys)
    BY <2>1, FS_Product, UsageIsFinite
  <2>. QED BY <2>2, <2>3, FS_Product
<1>2. tuple \in Injection(ProductUsageEvent, tuples)
  <2>1. tuple \in [ProductUsageEvent -> tuples]
    BY DEF ProductUsageEvent
  <2>2. ASSUME NEW e \in ProductUsageEvent, NEW f \in ProductUsageEvent, tuple[e] = tuple[f]
        PROVE  e = f
    BY <2>2 DEF ProductUsageEvent
  <2>. QED BY <2>1, <2>2 DEF Injection, IsInjective
<1>. QED BY <1>1, <1>2, FS_Injection

(* The rows of a period, and the sum that is their usage.                  *)
UsageOf(s, p) == {e \in ProductUsageEvent : e.subject = s /\ e.period = p}
Volume(rows) == [e \in ProductUsageEvent |-> e.quantity * rows[e]]

LEMMA VolumeType ==
    ASSUME NEW rows \in [ProductUsageEvent -> Nat], NEW e \in ProductUsageEvent
    PROVE  /\ Volume(rows)[e] \in Nat /\ Volume(rows)[e] = e.quantity * rows[e]
           /\ e.quantity \in Nat /\ rows[e] \in Nat
<1>1. e.quantity \in Nat /\ rows[e] \in Nat
  BY LimitsAreIntegers DEF ProductUsageEvent
<1>2. \A m \in Nat, n \in Nat : m * n \in Nat
  OBVIOUS
<1>. QED BY <1>1, <1>2 DEF Volume

LEMMA UsageType ==
    ASSUME NEW s, NEW p
    PROVE  /\ UsageOf(s, p) \in SUBSET ProductUsageEvent /\ IsFiniteSet(UsageOf(s, p))
           /\ UsageTotal(s, p) = SumFunctionOnSet(Volume(usageEvents), UsageOf(s, p))
           /\ AccessTypes => UsageTotal(s, p) \in Nat
<1>1. UsageOf(s, p) \in SUBSET ProductUsageEvent /\ IsFiniteSet(UsageOf(s, p))
  BY EventsAreFinite, FS_Subset DEF UsageOf
<1>2. UsageTotal(s, p) = SumFunctionOnSet(Volume(usageEvents), UsageOf(s, p))
  BY DEF UsageTotal, Volume, UsageOf
<1>3. ASSUME AccessTypes PROVE UsageTotal(s, p) \in Nat
  <2>1. \A e \in UsageOf(s, p) : Volume(usageEvents)[e] \in Nat
    BY <1>1, <1>3, VolumeType DEF AccessTypes
  <2>. QED BY <1>1, <1>2, <2>1, SumOfNaturals
<1>. QED BY <1>1, <1>2, <1>3

LEMMA UsageStays ==
    ASSUME AccessTypes', NEW s, NEW p PROVE UsageTotal(s, p)' \in Nat
<1>1. \A e \in UsageOf(s, p) : Volume(usageEvents')[e] \in Nat
  BY UsageType, VolumeType DEF AccessTypes
<1>2. UsageTotal(s, p)' = SumFunctionOnSet(Volume(usageEvents'), UsageOf(s, p))
  BY DEF UsageTotal, Volume, UsageOf
<1>. QED BY <1>1, <1>2, UsageType, SumOfNaturals

(* Fewer rows are less usage.                                              *)
LEMMA UsageFalls ==
    ASSUME AccessTypes, AccessTypes', NEW s, NEW p,
           \A e \in UsageOf(s, p) : usageEvents'[e] <= usageEvents[e]
    PROVE  UsageTotal(s, p)' <= UsageTotal(s, p)
<1>1. \A m \in Nat, n \in Nat, q \in Nat : m <= n => q * m <= q * n
  OBVIOUS
<1>2. ASSUME NEW e \in UsageOf(s, p)
      PROVE  /\ Volume(usageEvents)[e] \in Nat /\ Volume(usageEvents')[e] \in Nat
             /\ Volume(usageEvents')[e] <= Volume(usageEvents)[e]
  <2>1. /\ Volume(usageEvents)[e] \in Nat /\ Volume(usageEvents)[e] = e.quantity * usageEvents[e]
        /\ e.quantity \in Nat /\ usageEvents[e] \in Nat
    BY UsageType, VolumeType DEF AccessTypes
  <2>2. /\ Volume(usageEvents')[e] \in Nat
        /\ Volume(usageEvents')[e] = e.quantity * usageEvents'[e] /\ usageEvents'[e] \in Nat
    BY UsageType, VolumeType DEF AccessTypes
  <2>. QED BY <1>1, <2>1, <2>2
<1>3. SumFunctionOnSet(Volume(usageEvents'), UsageOf(s, p))
        <= SumFunctionOnSet(Volume(usageEvents), UsageOf(s, p))
  BY <1>2, UsageType, SumOfFewer
<1>4. UsageTotal(s, p)' = SumFunctionOnSet(Volume(usageEvents'), UsageOf(s, p))
  BY DEF UsageTotal, Volume, UsageOf
<1>. QED BY <1>3, <1>4, UsageType

(* One row more is its quantity more.                                      *)
LEMMA UsageGrows ==
    ASSUME AccessTypes, AccessTypes', NEW event \in ProductUsageEvent,
           usageEvents' = [usageEvents EXCEPT ![event] = @ + 1], NEW s, NEW p
    PROVE  UsageTotal(s, p)' = IF s = event.subject /\ p = event.period
                               THEN UsageTotal(s, p) + event.quantity
                               ELSE UsageTotal(s, p)
<1>0. UsageTotal(s, p)' = SumFunctionOnSet(Volume(usageEvents'), UsageOf(s, p))
  BY DEF UsageTotal, Volume, UsageOf
<1>1. ASSUME NEW e \in ProductUsageEvent
      PROVE  /\ Volume(usageEvents)[e] \in Int /\ Volume(usageEvents')[e] \in Int
             /\ e # event => Volume(usageEvents')[e] = Volume(usageEvents)[e]
  <2>1. /\ Volume(usageEvents)[e] \in Nat
        /\ Volume(usageEvents)[e] = e.quantity * usageEvents[e]
    BY VolumeType DEF AccessTypes
  <2>2. /\ Volume(usageEvents')[e] \in Nat
        /\ Volume(usageEvents')[e] = e.quantity * usageEvents'[e]
    BY VolumeType DEF AccessTypes
  <2>3. e # event => usageEvents'[e] = usageEvents[e]
    BY DEF AccessTypes
  <2>. QED BY <2>1, <2>2, <2>3
<1>2. CASE s = event.subject /\ p = event.period
  <2>1. event \in UsageOf(s, p)
    BY <1>2 DEF UsageOf
  <2>2. \A e \in UsageOf(s, p) :
          /\ Volume(usageEvents)[e] \in Int /\ Volume(usageEvents')[e] \in Int
          /\ e # event => Volume(usageEvents')[e] = Volume(usageEvents)[e]
    BY <1>1, UsageType
  <2>3. UsageTotal(s, p)' + Volume(usageEvents)[event]
          = UsageTotal(s, p) + Volume(usageEvents')[event]
    <3>. DEFINE fun == Volume(usageEvents)
                new == Volume(usageEvents')
                rows == UsageOf(s, p)
    <3>1. IsFiniteSet(rows) /\ UsageTotal(s, p) = SumFunctionOnSet(fun, rows)
      BY UsageType
    <3>2. UsageTotal(s, p)' = SumFunctionOnSet(new, rows)
      BY <1>0
    <3>3. /\ event \in rows
          /\ \A y \in rows : fun[y] \in Int /\ new[y] \in Int /\ (y # event => new[y] = fun[y])
      BY <2>1, <2>2
    <3>. HIDE DEF fun, new, rows
    <3>4. SumFunctionOnSet(new, rows) + fun[event] = SumFunctionOnSet(fun, rows) + new[event]
      BY <3>1, <3>3, SumChanges
    <3>. QED BY <3>1, <3>2, <3>4 DEF fun, new
  <2>4. Volume(usageEvents')[event] = Volume(usageEvents)[event] + event.quantity
    <3>1. /\ Volume(usageEvents)[event] = event.quantity * usageEvents[event]
          /\ event.quantity \in Nat /\ usageEvents[event] \in Nat
      BY VolumeType DEF AccessTypes
    <3>2. Volume(usageEvents')[event] = event.quantity * usageEvents'[event]
      BY VolumeType DEF AccessTypes
    <3>3. usageEvents'[event] = usageEvents[event] + 1
      BY DEF AccessTypes
    <3>4. \A q \in Nat, n \in Nat : q * (n + 1) = q * n + q
      OBVIOUS
    <3>. QED BY <3>1, <3>2, <3>3, <3>4
  <2>5. /\ UsageTotal(s, p) \in Nat /\ UsageTotal(s, p)' \in Nat
        /\ Volume(usageEvents)[event] \in Nat /\ event.quantity \in Nat
    BY UsageStays, UsageType, VolumeType DEF AccessTypes
  <2>. QED BY <1>2, <2>3, <2>4, <2>5
<1>3. CASE ~ (s = event.subject /\ p = event.period)
  <2>1. event \notin UsageOf(s, p)
    BY <1>3 DEF UsageOf
  <2>2. \A e \in UsageOf(s, p) :
          Volume(usageEvents)[e] \in Int /\ Volume(usageEvents')[e] = Volume(usageEvents)[e]
    BY <1>1, <2>1, UsageType
  <2>3. UsageTotal(s, p)' = UsageTotal(s, p)
    BY <1>0, <2>2, UsageType, SumOfSame
  <2>. QED BY <1>3, <2>3
<1>. QED BY <1>2, <1>3

-----------------------------------------------------------------------------
LEMMA SlackIsSpare ==
    ASSUME Workers # {}
    PROVE  /\ Max(AccessQuantities) \in Nat /\ Slack \in Nat
           /\ \A q \in AccessQuantities : q \in Nat /\ q <= Max(AccessQuantities)
           /\ \A w \in Workers : /\ IsFiniteSet(Workers \ {w})
                                 /\ Cardinality(Workers \ {w}) * Max(AccessQuantities) = Slack
<1>1. /\ Max(AccessQuantities) \in AccessQuantities
      /\ \A q \in AccessQuantities : q <= Max(AccessQuantities)
  <2>1. AccessQuantities \in SUBSET Int /\ AccessQuantities # {}
    BY LimitsAreIntegers
  <2>. QED BY <2>1, UsageIsFinite, MaxIsOne
<1>2. Max(AccessQuantities) \in Nat
  BY <1>1, LimitsAreIntegers
<1>3. \A w \in Workers : /\ IsFiniteSet(Workers \ {w})
                         /\ Cardinality(Workers \ {w}) = Cardinality(Workers) - 1
  BY WorkersAreFinite, FS_RemoveElement
<1>4. Cardinality(Workers) - 1 \in Nat
  <2>1. PICK w \in Workers : TRUE
    OBVIOUS
  <2>2. IsFiniteSet(Workers \ {w}) /\ Cardinality(Workers \ {w}) = Cardinality(Workers) - 1
    BY <1>3
  <2>. QED BY <2>2, FS_CardinalityType
<1>5. \A m \in Nat, n \in Nat : m * n \in Nat
  OBVIOUS
<1>. QED BY <1>1, <1>2, <1>3, <1>4, <1>5, LimitsAreIntegers DEF Slack

(* What each of several workers asks for, with one of them set aside.      *)
LEMMA QuantitiesSum ==
    ASSUME Workers # {}, NEW fun, \A v \in Workers : fun[v] \in AccessQuantities \/ fun[v] = 0
    PROVE  /\ \A v \in Workers : fun[v] \in Nat /\ fun[v] <= Max(AccessQuantities)
           /\ SumFunctionOnSet(fun, Workers) \in Nat
           /\ \A w \in Workers : SumFunctionOnSet(fun, Workers) <= fun[w] + Slack
<1>1. \A v \in Workers : /\ fun[v] \in Nat /\ fun[v] \in Int
                         /\ fun[v] <= Max(AccessQuantities)
  BY SlackIsSpare
<1>2. SumFunctionOnSet(fun, Workers) \in Nat
  BY <1>1, WorkersAreFinite, SumOfNaturals
<1>3. ASSUME NEW w \in Workers PROVE SumFunctionOnSet(fun, Workers) <= fun[w] + Slack
  <2>. DEFINE rest == SumFunctionOnSet(fun, Workers \ {w})
  <2>1. SumFunctionOnSet(fun, Workers) = fun[w] + rest
    BY <1>1, WorkersAreFinite, SumSplit
  <2>2. rest <= Slack
    BY <1>1, SlackIsSpare, SumIsBounded
  <2>3. rest \in Nat
    BY <1>1, SlackIsSpare, SumOfNaturals
  <2>. HIDE DEF rest
  <2>. QED BY <1>1, <2>1, <2>2, <2>3, SlackIsSpare
<1>. QED BY <1>1, <1>2, <1>3

(* What is granted and not recorded.                                       *)
LEMMA UnrecordedType ==
    ASSUME Workers # {}, \A w \in Workers : AccessRequestOK(request[w]), NEW s
    PROVE  /\ \A w \in Workers : ToRecord(s)[w] \in Nat
           /\ Unrecorded(s) \in Nat
           /\ \A w \in Workers : Unrecorded(s) <= ToRecord(s)[w] + Slack
<1>1. \A v \in Workers : ToRecord(s)[v] \in AccessQuantities \/ ToRecord(s)[v] = 0
  BY DEF AccessRequestOK, RecordRequest, Holds, ToRecord
<1>. QED BY <1>1, QuantitiesSum DEF Unrecorded

LEMMA UnrecordedFalls ==
    ASSUME Workers # {}, \A w \in Workers : AccessRequestOK(request[w]),
           \A w \in Workers : AccessRequestOK(request[w])', NEW s,
           \A w \in Workers : request'[w] = request[w] \/ request'[w].op # "record"
                              \/ request'[w].subject # s
    PROVE  Unrecorded(s)' <= Unrecorded(s) /\ Unrecorded(s)' \in Nat
<1>. DEFINE fun == ToRecord(s)
            new == ToRecord(s)'
<1>1. \A w \in Workers : fun[w] \in Nat
  BY UnrecordedType
<1>2. \A w \in Workers : new[w] = fun[w] \/ new[w] = 0
  BY DEF ToRecord, Holds
<1>3. \A w \in Workers : new[w] \in Nat /\ new[w] <= fun[w]
  BY <1>1, <1>2
<1>. HIDE DEF fun, new
<1>4. /\ SumFunctionOnSet(new, Workers) <= SumFunctionOnSet(fun, Workers)
      /\ SumFunctionOnSet(new, Workers) \in Nat
  BY <1>1, <1>3, WorkersAreFinite, SumOfFewer, SumOfNaturals
<1>. QED BY <1>4 DEF Unrecorded, fun, new

-----------------------------------------------------------------------------
LEMMA LimitsType ==
    /\ Limits \cup {0} \in SUBSET Int
    /\ \A d \in Decision : d.limit \in Int
<1>1. Limits \cup {0} \in SUBSET Int
  <2>1. \A l \in OverrideLimits : l \in Int
    BY LimitsAreIntegers
  <2>2. \A l \in {PlanLimit[p] : p \in AccessPlans} : l \in Int
    BY LimitsAreIntegers, Zenon
  <2>3. \A l \in Limits \cup {0} : l \in Int
    BY <2>1, <2>2 DEF Limits
  <2>. QED BY <2>3
<1>. QED BY <1>1 DEF Decision

LEMMA ValuesAreFinite ==
    ASSUME NEW D, IsFiniteSet(D), \A d \in D : d.limit \in Int
    PROVE  /\ IsFiniteSet({0} \cup {d.limit : d \in D})
           /\ {0} \cup {d.limit : d \in D} \in SUBSET Int
<1>. DEFINE value == [d \in D |-> d.limit]
            values == {d.limit : d \in D}
<1>1. value \in Surjection(D, values)
  BY DEF Surjection
<1>. HIDE DEF value
<1>2. IsFiniteSet(values)
  <2>. HIDE DEF values
  <2>. QED BY <1>1, FS_Surjection
<1>3. IsFiniteSet(values \cup {0}) /\ {0} \cup values = values \cup {0}
  <2>. HIDE DEF values
  <2>. QED BY <1>2, FS_AddElement
<1>. QED BY <1>3

LEMMA SeenType ==
    ASSUME decisions \subseteq Decision, IsFiniteSet(decisions), NEW s
    PROVE  IsFiniteSet(LimitsSeen(s)) /\ LimitsSeen(s) \in SUBSET Int
<1>1. Granted(s) \in SUBSET decisions /\ \A d \in Granted(s) : d.limit \in Int
  BY LimitsType DEF Granted
<1>2. IsFiniteSet(Granted(s))
  BY <1>1, FS_Subset
<1>. QED BY <1>1, <1>2, ValuesAreFinite DEF LimitsSeen

(* The limits a subject has been granted under are not forgotten.          *)
LEMMA SeenGrows ==
    ASSUME decisions' \subseteq Decision, IsFiniteSet(decisions'), NEW s,
           Granted(s) \subseteq Granted(s)'
    PROVE  /\ Max(LimitsSeen(s)) \in Int /\ Max(LimitsSeen(s))' \in Int
           /\ Max(LimitsSeen(s)) <= Max(LimitsSeen(s))'
           /\ \A d \in Granted(s)' : d.limit \in Int /\ d.limit <= Max(LimitsSeen(s))'
<1>. DEFINE old == LimitsSeen(s)
            new == LimitsSeen(s)'
<1>1. IsFiniteSet(new) /\ new \in SUBSET Int
  <2>1. Granted(s)' \in SUBSET decisions' /\ \A d \in Granted(s)' : d.limit \in Int
    BY LimitsType DEF Granted
  <2>2. IsFiniteSet(Granted(s)')
    BY <2>1, FS_Subset
  <2>3. new = {0} \cup {d.limit : d \in Granted(s)'}
    BY DEF LimitsSeen
  <2>. HIDE DEF new
  <2>. QED BY <2>1, <2>2, <2>3, ValuesAreFinite
<1>2. old \in SUBSET new /\ 0 \in old /\ \A d \in Granted(s)' : d.limit \in new
  BY DEF LimitsSeen
<1>3. Max(LimitsSeen(s))' = Max(new)
  BY DEF Max
<1>. HIDE DEF old, new
<1>4. Max(new) \in Int /\ Max(old) \in Int /\ Max(old) <= Max(new)
  BY <1>1, <1>2, MaxGrows
<1>5. \A y \in new : y \in Int /\ y <= Max(new)
  BY <1>1, <1>2, MaxIsOne
<1>. QED BY <1>2, <1>3, <1>4, <1>5 DEF old

LEMMA NearLimitKept ==
    ASSUME Workers # {}, AccessInv, AccessTypes', IsFiniteSet(decisions'),
           NEW s \in Subjects, Granted(s) \subseteq Granted(s)', period <= period',
           \A p \in 1..Periods : UsageTotal(s, p)' <= UsageTotal(s, p),
           \A p \in 1..Periods : UsageTotal(s, p)' \in Nat,
           Unrecorded(s)' <= Unrecorded(s), Unrecorded(s)' \in Nat
    PROVE  NearLimit(s)'
<1>. SUFFICES ASSUME \A d \in Granted(s)' : ~d.override, NEW p \in 1..Periods
              PROVE  /\ UsageTotal(s, p)' <= Max(LimitsSeen(s))' + Slack
                     /\ period' <= p => UsageTotal(s, p)' + Unrecorded(s)'
                                           <= Max(LimitsSeen(s))' + Slack
  BY DEF NearLimit
<1>1. /\ UsageTotal(s, p) <= Max(LimitsSeen(s)) + Slack
      /\ period <= p => UsageTotal(s, p) + Unrecorded(s) <= Max(LimitsSeen(s)) + Slack
  BY DEF AccessInv, NearLimit
<1>2. period \in Nat /\ period' \in Nat /\ p \in Nat
  BY UsageIsFinite DEF AccessInv, AccessTypes
<1>3. UsageTotal(s, p) \in Nat /\ Unrecorded(s) \in Nat /\ Slack \in Nat
  BY UsageType, UnrecordedType, SlackIsSpare DEF AccessInv
<1>4. /\ Max(LimitsSeen(s)) \in Int /\ Max(LimitsSeen(s))' \in Int
      /\ Max(LimitsSeen(s)) <= Max(LimitsSeen(s))'
  BY SeenGrows DEF AccessTypes
<1>5. PICK a : a = UsageTotal(s, p)
  OBVIOUS
<1>6. PICK b : b = UsageTotal(s, p)'
  OBVIOUS
<1>7. PICK c : c = Max(LimitsSeen(s))'
  OBVIOUS
<1>8. /\ a \in Nat /\ b \in Nat /\ c \in Int /\ b <= a
      /\ a <= Max(LimitsSeen(s)) + Slack
      /\ period <= p => a + Unrecorded(s) <= Max(LimitsSeen(s)) + Slack
      /\ Max(LimitsSeen(s)) <= c
  BY <1>1, <1>3, <1>4, <1>5, <1>6, <1>7
<1>9. b <= c + Slack
  BY <1>3, <1>4, <1>8
<1>10. period' <= p => b + Unrecorded(s)' <= c + Slack
  BY <1>2, <1>3, <1>4, <1>8
<1>. QED BY <1>6, <1>7, <1>9, <1>10

-----------------------------------------------------------------------------
(* The same of the next state.                                             *)
LEMMA UnrecordedTypeNext ==
    ASSUME Workers # {}, \A w \in Workers : AccessRequestOK(request[w])', NEW s,
           NEW w \in Workers
    PROVE  Unrecorded(s)' \in Nat /\ Unrecorded(s)' <= ToRecord(s)'[w] + Slack
<1>1. \A v \in Workers : ToRecord(s)'[v] \in AccessQuantities \/ ToRecord(s)'[v] = 0
  BY DEF AccessRequestOK, RecordRequest, Holds, ToRecord
<1>2. Unrecorded(s)' = SumFunctionOnSet(ToRecord(s)', Workers)
  BY DEF Unrecorded
<1>. QED BY <1>1, <1>2, QuantitiesSum

LEMMA NoFutureUsage ==
    ASSUME AccessTypes, \A e \in ProductUsageEvent : period < e.period => usageEvents[e] = 0,
           NEW s, NEW p, period < p
    PROVE  UsageTotal(s, p) = 0
<1>1. \A e \in UsageOf(s, p) : Volume(usageEvents)[e] = 0
  <2>1. \A e \in UsageOf(s, p) : usageEvents[e] = 0
    BY UsageType DEF UsageOf
  <2>2. \A e \in UsageOf(s, p) :
          Volume(usageEvents)[e] = e.quantity * usageEvents[e] /\ e.quantity \in Nat
    BY UsageType, VolumeType DEF AccessTypes
  <2>. QED BY <2>1, <2>2
<1>. QED BY <1>1, UsageType, SumOfZeros

(* A step that grants nothing and records nothing.                         *)
LEMMA QuietStep ==
    ASSUME Workers # {}, AccessInv, AccessTypes', RequestsOK',
           \A w \in Workers : AccessRequestOK(request[w])',
           decisions \subseteq decisions', IsFiniteSet(decisions'),
           period' \in {period, period + 1},
           \A e \in ProductUsageEvent : usageEvents'[e] <= usageEvents[e],
           \A w \in Workers : request'[w] = request[w] \/ request'[w].op # "record"
    PROVE  AccessInv'
<1>1. /\ period \in Nat /\ period' \in Nat /\ period <= period'
      /\ \A e \in ProductUsageEvent : usageEvents'[e] \in Nat /\ usageEvents[e] \in Nat
  BY UsageIsFinite DEF AccessInv, AccessTypes
<1>2. ASSUME NEW e \in ProductUsageEvent, period' < e.period PROVE usageEvents'[e] = 0
  <2>1. e.period \in Nat
    BY UsageIsFinite DEF ProductUsageEvent
  <2>2. usageEvents[e] = 0 /\ usageEvents'[e] <= usageEvents[e]
    BY <1>1, <1>2, <2>1 DEF AccessInv
  <2>. QED BY <1>1, <2>2
<1>3. ASSUME NEW s \in Subjects PROVE NearLimit(s)'
  <2>1. Granted(s) \subseteq Granted(s)'
    BY DEF Granted
  <2>2. ASSUME NEW p \in 1..Periods
        PROVE  UsageTotal(s, p)' <= UsageTotal(s, p) /\ UsageTotal(s, p)' \in Nat
    <3>1. \A e \in UsageOf(s, p) : usageEvents'[e] <= usageEvents[e]
      BY UsageType
    <3>2. UsageTotal(s, p)' <= UsageTotal(s, p)
      BY <3>1, UsageFalls DEF AccessInv
    <3>. QED BY <3>2, UsageStays
  <2>3. Unrecorded(s)' <= Unrecorded(s) /\ Unrecorded(s)' \in Nat
    BY UnrecordedFalls DEF AccessInv
  <2>. QED BY <1>1, <2>1, <2>2, <2>3, NearLimitKept
<1>. QED BY <1>2, <1>3 DEF AccessInv

(* No override row disappears.                                             *)
OverridesStay == DOMAIN overrides \subseteq DOMAIN overrides'

LEMMA SameRequests ==
    ASSUME AccessInv, request' = request, OverridesStay
    PROVE  /\ RequestsOK' /\ \A w \in Workers : AccessRequestOK(request[w])'
           /\ \A w \in Workers : request'[w] = request[w] \/ request'[w].op # "record"
BY DEF AccessInv, RequestsOK, AccessRequestOK, OverridesStay

LEMMA NextRequest ==
    ASSUME AccessInv, OverridesStay, NEW w \in Workers, NEW held, AccessRequestOK(held),
           Begin(w, held) \/ TakeUp(w, held) \/ Proceed(w, held)
    PROVE  /\ RequestsOK' /\ \A v \in Workers : AccessRequestOK(request[v])'
           /\ request'[w] = held /\ \A v \in Workers : v # w => request'[v] = request[v]
<1>1. /\ RequestsOK' /\ request'[w] = held
      /\ \A v \in Workers : v # w => request'[v] = request[v]
  BY HeldNext DEF AccessInv
<1>2. \A v \in Workers : AccessRequestOK(request[v])'
  BY <1>1 DEF AccessInv, AccessRequestOK, OverridesStay
<1>. QED BY <1>1, <1>2

LEMMA IdleFits == AccessRequestOK(Idle) /\ Idle.op # "record"
BY DEF AccessRequestOK, Idle

LEMMA InitAccess == ASSUME Workers # {}, RequestsInit, AccessInit PROVE AccessInv
<1>1. RequestsOK /\ \A w \in Workers : request[w] = Idle
  BY DEF RequestsInit, RequestsOK
<1>2. \A w \in Workers : AccessRequestOK(request[w])
  BY <1>1, IdleFits
<1>3. AccessTypes
  BY UsageIsFinite DEF AccessInit, AccessTypes
<1>4. IsFiniteSet(decisions)
  BY FS_EmptySet DEF AccessInit
<1>5. ASSUME NEW s \in Subjects, NEW p \in 1..Periods
      PROVE  /\ UsageTotal(s, p) <= Max(LimitsSeen(s)) + Slack
             /\ UsageTotal(s, p) + Unrecorded(s) <= Max(LimitsSeen(s)) + Slack
  <2>1. UsageTotal(s, p) = 0
    <3>1. \A e \in UsageOf(s, p) : Volume(usageEvents)[e] = 0
      <4>1. \A e \in UsageOf(s, p) : usageEvents[e] = 0
        BY UsageType DEF AccessInit
      <4>2. \A e \in UsageOf(s, p) :
              /\ Volume(usageEvents)[e] = e.quantity * usageEvents[e] /\ e.quantity \in Nat
        BY <1>3, UsageType, VolumeType DEF AccessTypes
      <4>. QED BY <4>1, <4>2
    <3>. QED BY <3>1, UsageType, SumOfZeros
  <2>2. Unrecorded(s) = 0
    <3>1. \A w \in Workers : ToRecord(s)[w] = 0
      BY <1>1 DEF ToRecord, Holds, Idle
    <3>. QED BY <3>1, WorkersAreFinite, SumOfZeros DEF Unrecorded
  <2>3. Max(LimitsSeen(s)) \in Int /\ 0 <= Max(LimitsSeen(s))
    <3>1. IsFiniteSet(LimitsSeen(s)) /\ LimitsSeen(s) \in SUBSET Int
      BY <1>3, <1>4, SeenType DEF AccessTypes
    <3>2. 0 \in LimitsSeen(s)
      BY DEF LimitsSeen
    <3>. QED BY <3>1, <3>2, MaxIsOne
  <2>. QED BY <2>1, <2>2, <2>3, SlackIsSpare
<1>6. \A e \in ProductUsageEvent : usageEvents[e] = 0
  BY DEF AccessInit
<1>. QED BY <1>1, <1>2, <1>3, <1>4, <1>5, <1>6 DEF AccessInv, NearLimit

-----------------------------------------------------------------------------
(* A decision is logged once; its limit is one that was set.               *)
LEMMA DecisionLogged ==
    ASSUME AccessInv, NEW s \in Subjects, NEW reason, NEW limit \in Limits \cup {0},
           NEW byOverride \in BOOLEAN, Decided(s, reason, limit, byOverride),
           reason \in {"allowed", "limit_exceeded", "admin_denied", "missing_entitlement",
                       "missing_limit"}
    PROVE  /\ decisions \subseteq decisions' /\ decisions' \subseteq Decision
           /\ IsFiniteSet(decisions')
<1>. DEFINE new == [subject |-> s, reason |-> reason, limit |-> limit, override |-> byOverride]
<1>1. new \in Decision
  BY DEF Decision
<1>2. decisions' = decisions \cup {new}
  BY DEF Decided
<1>. HIDE DEF new
<1>. QED BY <1>1, <1>2, FS_AddElement DEF AccessInv, AccessTypes

LEMMA RowsAreFinite ==
    ASSUME NEW S, NEW rows \in Seq(S)
    PROVE  /\ IsFiniteSet(DOMAIN rows) /\ DOMAIN rows \in SUBSET Int
           /\ \A n \in DOMAIN rows : rows[n] \in S
<1>1. /\ DOMAIN rows = 1 .. Len(rows) /\ Len(rows) \in Int
      /\ \A n \in DOMAIN rows : rows[n] \in S
  OBVIOUS
<1>. QED BY <1>1, FS_Interval

LEMMA LimitForType ==
    ASSUME AccessTypes, NEW s \in Subjects, NEW planned \in AccessPlans \cup {NoPlan},
           Refused(s, planned) = ""
    PROVE  LimitFor(s, planned) \in Limits
<1>. DEFINE limits == ActiveOverrides(s, "limit")
<1>0. /\ IsFiniteSet(DOMAIN overrides) /\ DOMAIN overrides \in SUBSET Int
      /\ \A n \in DOMAIN overrides : overrides[n] \in Override
  <2>1. overrides \in Seq(Override)
    BY DEF AccessTypes
  <2>. HIDE DEF limits
  <2>. QED BY <2>1, RowsAreFinite
<1>1. CASE limits = {}
  <2>1. planned \in AccessPlans
    BY <1>1 DEF Refused
  <2>. QED BY <1>1, <2>1 DEF LimitFor, Limits
<1>2. CASE limits # {}
  <2>1. limits \in SUBSET DOMAIN overrides
    BY DEF ActiveOverrides
  <2>2. IsFiniteSet(limits) /\ limits \in SUBSET Int
    <3>. HIDE DEF limits
    <3>. QED BY <1>0, <2>1, FS_Subset
  <2>3. Max(limits) \in limits
    BY <1>2, <2>2, MaxIsOne
  <2>. HIDE DEF limits
  <2>4. Max(limits) \in DOMAIN overrides
    BY <2>1, <2>3
  <2>5. overrides[Max(limits)] \in Override
    BY <1>0, <2>4
  <2>6. overrides[Max(limits)].value \in OverrideLimits
    BY <2>5 DEF Override
  <2>. QED BY <1>2, <2>6 DEF LimitFor, Limits, limits
<1>. QED BY <1>1, <1>2

LEMMA CheckSteps ==
    ASSUME Workers # {}, AccessInv, NEW w \in Workers,
           \/ \E s \in Subjects, q \in AccessQuantities, k \in AccessKeys : LookUp(w, s, q, k)
           \/ Refuse(w)
           \/ Abandon(w) /\ UNCHANGED accessVars
    PROVE  AccessInv'
<1>1. /\ OverridesStay /\ period' = period /\ usageEvents' = usageEvents
      /\ overrides' = overrides /\ plan' = plan
  BY DEF LookUp, Refuse, accessVars, OverridesStay
<1>2. \A e \in ProductUsageEvent : usageEvents'[e] <= usageEvents[e]
  BY <1>1 DEF AccessInv, AccessTypes
<1>3. period' \in {period, period + 1}
  BY <1>1
<1>4. SUFFICES ASSUME NEW held, AccessRequestOK(held), held.op # "record",
                      Begin(w, held) \/ Proceed(w, held),
                      decisions \subseteq decisions', decisions' \subseteq Decision,
                      IsFiniteSet(decisions')
               PROVE  AccessInv'
  <2>1. ASSUME NEW s \in Subjects, NEW q \in AccessQuantities, NEW k \in AccessKeys,
               LookUp(w, s, q, k)
        PROVE  AccessInv'
    <3>. DEFINE held == [op |-> "check", subject |-> s, quantity |-> q, key |-> k,
                         plan |-> plan[s]]
    <3>1. AccessRequestOK(held) /\ held.op # "record"
      BY DEF AccessRequestOK, CheckRequest, AccessInv, AccessTypes
    <3>2. Begin(w, held) /\ decisions' = decisions
      BY <2>1 DEF LookUp, accessVars
    <3>. HIDE DEF held
    <3>. QED BY <1>4, <3>1, <3>2 DEF AccessInv, AccessTypes
  <2>2. CASE Refuse(w)
    <3>. DEFINE r == request[w]
    <3>1. r \in CheckRequest
      BY <2>2 DEF Refuse, AccessInv, AccessRequestOK, Holds
    <3>2. r.subject \in Subjects
      BY <3>1 DEF CheckRequest
    <3>3. /\ Decided(r.subject, Refused(r.subject, r.plan), 0, FALSE) /\ Proceed(w, Idle)
          /\ Refused(r.subject, r.plan) # ""
      BY <2>2 DEF Refuse, End
    <3>4. Refused(r.subject, r.plan)
            \in {"admin_denied", "missing_entitlement", "missing_limit"}
      BY <3>3 DEF Refused
    <3>. HIDE DEF r
    <3>5. /\ decisions \subseteq decisions' /\ decisions' \subseteq Decision
          /\ IsFiniteSet(decisions')
      BY <3>2, <3>3, <3>4, DecisionLogged
    <3>. QED BY <1>4, <3>3, <3>5, IdleFits
  <2>3. CASE Abandon(w) /\ UNCHANGED accessVars
    <3>1. Proceed(w, Idle) /\ decisions' = decisions
      BY <2>3 DEF Abandon, End, accessVars
    <3>. QED BY <1>4, <3>1, IdleFits DEF AccessInv, AccessTypes
  <2>. QED BY <2>1, <2>2, <2>3
<1>5. /\ RequestsOK' /\ \A v \in Workers : AccessRequestOK(request[v])'
      /\ \A v \in Workers : request'[v] = request[v] \/ request'[v].op # "record"
  BY <1>1, <1>4, NextRequest
<1>6. AccessTypes'
  BY <1>1, <1>4 DEF AccessInv, AccessTypes
<1>. QED BY <1>2, <1>3, <1>4, <1>5, <1>6, QuietStep

LEMMA DecideStep ==
    ASSUME Workers # {}, AccessInv, NEW w \in Workers, Decide(w)
    PROVE  AccessInv'
<1>0. PICK r : r = request[w]
  OBVIOUS
<1>. DEFINE s == r.subject
            used == UsageTotal(s, period)
            granted == [r EXCEPT !.op = "record"]
<1>1. /\ r \in CheckRequest /\ s \in Subjects /\ r.quantity \in AccessQuantities
      /\ r.plan \in AccessPlans \cup {NoPlan}
  <2>1. r \in CheckRequest
    BY <1>0 DEF Decide, AccessInv, AccessRequestOK, Holds
  <2>. QED BY <2>1 DEF CheckRequest
<1>2. granted \in RecordRequest /\ granted.op = "record" /\ granted.subject = s
      /\ granted.quantity = r.quantity
  BY <1>1 DEF CheckRequest, RecordRequest
<1>3. PICK limit \in Int, lifted \in BOOLEAN :
        /\ limit \in Limits /\ limit = LimitFor(s, r.plan)
        /\ lifted = (ActiveOverrides(s, "allow") # {})
  <2>1. Refused(s, r.plan) = ""
    BY <1>0 DEF Decide
  <2>2. LimitFor(s, r.plan) \in Limits
    BY <1>1, <2>1, LimitForType DEF AccessInv
  <2>. QED BY <2>2, LimitsType
<1>4. /\ UNCHANGED <<plan, overrides, usageEvents, period>>
      /\ \/ /\ used + r.quantity <= limit \/ lifted
            /\ Decided(s, "allowed", limit, lifted) /\ Proceed(w, granted)
         \/ Decided(s, "limit_exceeded", limit, FALSE) /\ Proceed(w, Idle)
  BY <1>0, <1>3 DEF Decide, End, Fits
<1>. HIDE DEF granted, s
<1>5. /\ decisions \subseteq decisions' /\ decisions' \subseteq Decision
      /\ IsFiniteSet(decisions')
  BY <1>1, <1>3, <1>4, DecisionLogged
<1>6. AccessTypes' /\ OverridesStay
  BY <1>4, <1>5 DEF AccessInv, AccessTypes, OverridesStay
<1>7. CASE Decided(s, "limit_exceeded", limit, FALSE) /\ Proceed(w, Idle)
  <2>1. /\ RequestsOK' /\ \A v \in Workers : AccessRequestOK(request[v])'
        /\ \A v \in Workers : request'[v] = request[v] \/ request'[v].op # "record"
    BY <1>6, <1>7, NextRequest, IdleFits
  <2>2. \A e \in ProductUsageEvent : usageEvents'[e] <= usageEvents[e]
    BY <1>4 DEF AccessInv, AccessTypes
  <2>3. period' \in {period, period + 1}
    BY <1>4
  <2>. QED BY <1>5, <1>6, <2>1, <2>2, <2>3, QuietStep
<1>8. CASE /\ used + r.quantity <= limit \/ lifted
           /\ Decided(s, "allowed", limit, lifted) /\ Proceed(w, granted)
  <2>1. AccessRequestOK(granted)
    BY <1>2 DEF AccessRequestOK
  <2>2. /\ RequestsOK' /\ \A v \in Workers : AccessRequestOK(request[v])'
        /\ request'[w] = granted /\ \A v \in Workers : v # w => request'[v] = request[v]
    BY <1>6, <1>8, <2>1, NextRequest
  <2>. DEFINE d == [subject |-> s, reason |-> "allowed", limit |-> limit, override |-> lifted]
  <2>3. decisions' = decisions \cup {d} /\ d \in Granted(s)' /\ d.limit = limit
        /\ d.override = lifted
    BY <1>8 DEF Decided, Granted
  <2>. HIDE DEF d
  <2>4. ASSUME NEW t \in Subjects, NEW p \in 1..Periods
        PROVE  UsageTotal(t, p)' = UsageTotal(t, p) /\ UsageTotal(t, p) \in Nat
    <3>1. usageEvents' = usageEvents
      BY <1>4
    <3>2. UsageTotal(t, p)' = UsageTotal(t, p)
      BY <3>1 DEF UsageTotal
    <3>. QED BY <3>2, UsageType DEF AccessInv
  <2>5. ASSUME NEW t \in Subjects, t # s PROVE NearLimit(t)'
    <3>1. Granted(t) \subseteq Granted(t)'
      BY <2>3 DEF Granted
    <3>2. Unrecorded(t)' <= Unrecorded(t) /\ Unrecorded(t)' \in Nat
      BY <1>2, <2>2, <2>5, UnrecordedFalls DEF AccessInv
    <3>3. period <= period'
      BY <1>4, UsageIsFinite DEF AccessInv, AccessTypes
    <3>4. \A p \in 1..Periods : UsageTotal(t, p)' <= UsageTotal(t, p) /\ UsageTotal(t, p)' \in Nat
      BY <2>4
    <3>. QED BY <1>5, <1>6, <3>1, <3>2, <3>3, <3>4, NearLimitKept
  <2>6. NearLimit(s)'
    <3>. SUFFICES ASSUME \A g \in Granted(s)' : ~g.override, NEW p \in 1..Periods
                  PROVE  /\ UsageTotal(s, p)' <= Max(LimitsSeen(s))' + Slack
                         /\ period' <= p => UsageTotal(s, p)' + Unrecorded(s)'
                                               <= Max(LimitsSeen(s))' + Slack
      BY DEF NearLimit
    <3>1. used + r.quantity <= limit
      BY <1>8, <2>3
    <3>2. Granted(s) \subseteq Granted(s)'
      BY <2>3 DEF Granted
    <3>3. /\ Max(LimitsSeen(s)) \in Int /\ Max(LimitsSeen(s))' \in Int
          /\ Max(LimitsSeen(s)) <= Max(LimitsSeen(s))' /\ limit <= Max(LimitsSeen(s))'
      BY <1>5, <2>3, <3>2, SeenGrows
    <3>4. UsageTotal(s, p) <= Max(LimitsSeen(s)) + Slack
      BY <1>1, <3>2 DEF AccessInv, NearLimit
    <3>5. Unrecorded(s)' \in Nat /\ Unrecorded(s)' <= r.quantity + Slack
      <4>1. ToRecord(s)'[w] = r.quantity
        BY <1>2, <2>2 DEF ToRecord, Holds
      <4>2. Unrecorded(s)' \in Nat /\ Unrecorded(s)' <= ToRecord(s)'[w] + Slack
        BY <2>2, UnrecordedTypeNext
      <4>. QED BY <4>1, <4>2
    <3>6. r.quantity \in Nat /\ Slack \in Nat /\ used \in Nat /\ period \in 1..Periods
      BY <1>1, SlackIsSpare, UsageType DEF AccessInv, AccessTypes
    <3>7. period < p => UsageTotal(s, p) = 0
      BY NoFutureUsage DEF AccessInv
    <3>8. PICK c : c = Max(LimitsSeen(s))'
      OBVIOUS
    <3>9. PICK b : b = Unrecorded(s)'
      OBVIOUS
    <3>10. PICK u : u = UsageTotal(s, p)
      OBVIOUS
    <3>11. UsageTotal(s, p)' = u /\ u \in Nat /\ period' = period
      BY <1>1, <1>4, <2>4, <3>10
    <3>12. u <= c + Slack
      BY <3>3, <3>4, <3>6, <3>8, <3>10, <3>11
    <3>13. period <= p => u + b <= c + Slack
      <4>1. CASE period = p
        BY <3>1, <3>3, <3>5, <3>6, <3>8, <3>9, <3>10, <3>11, <4>1, <1>3
      <4>2. CASE period < p
        BY <3>1, <3>3, <3>5, <3>6, <3>7, <3>8, <3>9, <3>10, <3>11, <4>2, <1>3
      <4>3. period \in Nat /\ p \in Nat
        BY <3>6, UsageIsFinite
      <4>. QED BY <4>1, <4>2, <4>3
    <3>. QED BY <3>8, <3>9, <3>11, <3>12, <3>13
  <2>. QED BY <1>4, <1>5, <1>6, <2>2, <2>5, <2>6 DEF AccessInv
<1>. QED BY <1>4, <1>7, <1>8

(* An event that is recorded moves from what is pending to what is used.   *)
LEMMA RecordUsageStep ==
    ASSUME Workers # {}, AccessInv, NEW w \in Workers, RecordUsage(w)
    PROVE  AccessInv'
<1>0. PICK r : r = request[w]
  OBVIOUS
<1>1. /\ r \in RecordRequest /\ r.subject \in Subjects /\ r.quantity \in AccessQuantities
      /\ r.key \in AccessKeys
  <2>1. r \in RecordRequest
    BY <1>0 DEF RecordUsage, AccessInv, AccessRequestOK, Holds
  <2>. QED BY <2>1 DEF RecordRequest
<1>2. PICK now \in 1..Periods : now = period
  BY DEF AccessInv, AccessTypes
<1>3. PICK event \in ProductUsageEvent :
           /\ event = [subject |-> r.subject, quantity |-> r.quantity, period |-> now,
                       key |-> r.key]
           /\ event.subject = r.subject /\ event.period = now /\ event.quantity = r.quantity
  <2>1. [subject |-> r.subject, quantity |-> r.quantity, period |-> now, key |-> r.key]
          \in ProductUsageEvent
    BY <1>1, <1>2 DEF ProductUsageEvent
  <2>. QED BY <2>1
<1>4. /\ usageEvents' = usageEvents \/ usageEvents' = [usageEvents EXCEPT ![event] = @ + 1]
      /\ Proceed(w, Idle) /\ UNCHANGED <<plan, overrides, decisions, period>>
  BY <1>0, <1>2, <1>3 DEF RecordUsage, End
<1>5. AccessTypes' /\ OverridesStay
  BY <1>3, <1>4 DEF AccessInv, AccessTypes, OverridesStay
<1>6. /\ RequestsOK' /\ \A v \in Workers : AccessRequestOK(request[v])'
      /\ request'[w] = Idle /\ \A v \in Workers : v # w => request'[v] = request[v]
  BY <1>4, <1>5, NextRequest, IdleFits
<1>7. CASE usageEvents' = usageEvents
  <2>1. \A e \in ProductUsageEvent : usageEvents'[e] <= usageEvents[e]
    BY <1>7 DEF AccessInv, AccessTypes
  <2>2. /\ period' \in {period, period + 1} /\ decisions \subseteq decisions'
        /\ IsFiniteSet(decisions')
    BY <1>4 DEF AccessInv
  <2>3. \A v \in Workers : request'[v] = request[v] \/ request'[v].op # "record"
    BY <1>6, IdleFits
  <2>. QED BY <1>5, <1>6, <2>1, <2>2, <2>3, QuietStep
<1>8. CASE usageEvents' = [usageEvents EXCEPT ![event] = @ + 1]
  <2>1. ASSUME NEW s, NEW p
        PROVE  UsageTotal(s, p)' = IF s = r.subject /\ p = now
                                   THEN UsageTotal(s, p) + r.quantity ELSE UsageTotal(s, p)
    <3>1. UsageTotal(s, p)' = IF s = event.subject /\ p = event.period
                              THEN UsageTotal(s, p) + event.quantity ELSE UsageTotal(s, p)
      <4>1. AccessTypes /\ AccessTypes'
        BY <1>5 DEF AccessInv
      <4>. QED BY <1>8, <4>1, UsageGrows
    <3>. QED BY <1>3, <3>1
  <2>2. ASSUME NEW s, NEW p PROVE UsageTotal(s, p) \in Nat /\ UsageTotal(s, p)' \in Nat
    BY <1>5, UsageType, UsageStays DEF AccessInv
  <2>3. ASSUME NEW s \in Subjects
        PROVE  Unrecorded(s)' <= Unrecorded(s) /\ Unrecorded(s)' \in Nat /\ Unrecorded(s) \in Nat
    <3>1. \A v \in Workers : request'[v] = request[v] \/ request'[v].op # "record"
      BY <1>6, IdleFits
    <3>. QED BY <1>6, <3>1, UnrecordedFalls, UnrecordedType DEF AccessInv
  <2>4. ASSUME NEW s \in Subjects, s # r.subject PROVE NearLimit(s)'
    <3>1. \A p \in 1..Periods : UsageTotal(s, p)' <= UsageTotal(s, p) /\ UsageTotal(s, p)' \in Nat
      BY <2>1, <2>2, <2>4
    <3>2. Granted(s) \subseteq Granted(s)' /\ IsFiniteSet(decisions')
      BY <1>4 DEF Granted, AccessInv
    <3>3. period <= period'
      BY <1>4, UsageIsFinite DEF AccessInv, AccessTypes
    <3>. QED BY <1>5, <2>3, <3>1, <3>2, <3>3, NearLimitKept
  <2>5. PICK s \in Subjects : s = r.subject
    BY <1>1
  <2>6. NearLimit(s)'
    <3>. SUFFICES ASSUME \A g \in Granted(s)' : ~g.override, NEW p \in 1..Periods
                  PROVE  /\ UsageTotal(s, p)' <= Max(LimitsSeen(s))' + Slack
                         /\ period' <= p => UsageTotal(s, p)' + Unrecorded(s)'
                                               <= Max(LimitsSeen(s))' + Slack
      BY DEF NearLimit
    <3>1. Unrecorded(s)' + r.quantity = Unrecorded(s)
      <4>. DEFINE fun == ToRecord(s)
                  new == ToRecord(s)'
      <4>1. fun[w] = r.quantity /\ new[w] = 0 /\ \A v \in Workers : v # w => new[v] = fun[v]
        BY <1>0, <1>1, <1>6, <2>5 DEF ToRecord, Holds, RecordRequest, Idle
      <4>2. \A v \in Workers : fun[v] \in Nat
        BY UnrecordedType DEF AccessInv
      <4>3. \A v \in Workers : fun[v] \in Int /\ new[v] \in Int /\ (v # w => new[v] = fun[v])
        BY <4>1, <4>2
      <4>4. Unrecorded(s) = SumFunctionOnSet(fun, Workers)
            /\ Unrecorded(s)' = SumFunctionOnSet(new, Workers)
        BY DEF Unrecorded
      <4>. HIDE DEF fun, new
      <4>5. SumFunctionOnSet(new, Workers) + fun[w] = SumFunctionOnSet(fun, Workers) + new[w]
        BY <4>3, WorkersAreFinite, SumChanges
      <4>. QED BY <2>3, <4>1, <4>4, <4>5
    <3>2. Granted(s)' = Granted(s)
      BY <1>4 DEF Granted
    <3>3. Max(LimitsSeen(s))' = Max(LimitsSeen(s))
      BY <3>2 DEF LimitsSeen, Max
    <3>4. /\ UsageTotal(s, p) <= Max(LimitsSeen(s)) + Slack
          /\ period <= p => UsageTotal(s, p) + Unrecorded(s) <= Max(LimitsSeen(s)) + Slack
      BY <3>2 DEF AccessInv, NearLimit
    <3>5. /\ Max(LimitsSeen(s)) \in Int /\ Slack \in Nat /\ r.quantity \in Nat
      <4>1. IsFiniteSet(LimitsSeen(s)) /\ LimitsSeen(s) \in SUBSET Int /\ 0 \in LimitsSeen(s)
        BY SeenType DEF AccessInv, AccessTypes, LimitsSeen
      <4>2. Max(LimitsSeen(s)) \in LimitsSeen(s)
        BY <4>1, MaxIsOne
      <4>. QED BY <1>1, <4>1, <4>2, SlackIsSpare
    <3>6. period' = now /\ period = now /\ now \in Nat /\ p \in Nat
      BY <1>2, <1>4, UsageIsFinite
    <3>7. PICK a : a = UsageTotal(s, p)'
      OBVIOUS
    <3>8. PICK b : b = Unrecorded(s)'
      OBVIOUS
    <3>9. PICK c : c = Max(LimitsSeen(s))
      OBVIOUS
    <3>10. PICK u : u = UsageTotal(s, p)
      OBVIOUS
    <3>11. PICK d : d = Unrecorded(s)
      OBVIOUS
    <3>12. /\ a \in Nat /\ b \in Nat /\ c \in Int /\ u \in Nat /\ d \in Nat
           /\ b + r.quantity = d /\ u <= c + Slack /\ (now <= p => u + d <= c + Slack)
           /\ a = IF p = now THEN u + r.quantity ELSE u
      BY <2>1, <2>2, <2>3, <2>5, <3>1, <3>4, <3>5, <3>6, <3>7, <3>8, <3>9, <3>10, <3>11
    <3>13. a <= c + Slack /\ (now <= p => a + b <= c + Slack)
      BY <3>5, <3>6, <3>12
    <3>. QED BY <3>3, <3>6, <3>7, <3>8, <3>9, <3>13
  <2>7. ASSUME NEW e \in ProductUsageEvent, period' < e.period PROVE usageEvents'[e] = 0
    <3>1. e # event
      BY <1>2, <1>3, <1>4, <2>7
    <3>2. usageEvents[e] = 0
      BY <1>4, <2>7 DEF AccessInv
    <3>. QED BY <1>8, <3>1, <3>2 DEF AccessInv, AccessTypes
  <2>8. \A t \in Subjects : NearLimit(t)'
    BY <2>4, <2>5, <2>6
  <2>9. IsFiniteSet(decisions')
    BY <1>4 DEF AccessInv
  <2>. QED BY <1>5, <1>6, <2>7, <2>8, <2>9 DEF AccessInv
<1>. QED BY <1>4, <1>7, <1>8

(* What staff, billing and the calendar do.                                *)
LEMMA StaffSteps ==
    ASSUME Workers # {}, AccessInv,
           \/ \E who \in {Subjects} \cup {{s} : s \in Subjects},
                 when \in {1..Periods} \cup {{p} : p \in 1..Periods} : ResetUsage(who, when)
           \/ \E s \in Subjects : ChangePlan(s)
           \/ \E s \in Subjects, e \in {"allow", "deny", "limit"}, v \in OverrideLimits,
                 u \in 1..Periods : CreateOverride(s, e, v, u)
           \/ \E n \in DOMAIN overrides : DeactivateOverride(n) \/ DeleteOverride(n)
           \/ NextPeriod
           \/ UNCHANGED <<requestVars, accessVars>>
    PROVE  AccessInv'
<1>1. /\ overrides \in Seq(Override) /\ usageEvents \in [ProductUsageEvent -> Nat]
      /\ period \in 1..Periods /\ Periods \in Nat
  BY UsageIsFinite DEF AccessInv, AccessTypes
<1>2. /\ request' = request /\ decisions' = decisions
      /\ period' \in {period, period + 1} /\ period' \in 1..Periods
  <2>1. CASE NextPeriod
    BY <1>1, <2>1 DEF NextPeriod, requestVars
  <2>2. CASE UNCHANGED <<requestVars, accessVars>>
    BY <1>1, <2>2 DEF requestVars, accessVars
  <2>3. ASSUME Serve, UNCHANGED <<decisions, period>>
        PROVE  /\ request' = request /\ decisions' = decisions
               /\ period' \in {period, period + 1} /\ period' \in 1..Periods
    BY <1>1, <2>3 DEF Serve
  <2>. QED BY <2>1, <2>2, <2>3 DEF ResetUsage, ChangePlan, CreateOverride, DeactivateOverride,
           DeleteOverride
<1>3. plan' \in [Subjects -> AccessPlans \cup {NoPlan}]
  BY DEF ResetUsage, ChangePlan, CreateOverride, DeactivateOverride, DeleteOverride,
      NextPeriod, accessVars, AccessInv, AccessTypes
<1>4. /\ usageEvents' \in [ProductUsageEvent -> Nat]
      /\ \A e \in ProductUsageEvent : usageEvents'[e] <= usageEvents[e]
  <2>1. CASE usageEvents' = usageEvents
    BY <1>1, <2>1
  <2>2. ASSUME NEW who, NEW when, ResetUsage(who, when)
        PROVE  /\ usageEvents' \in [ProductUsageEvent -> Nat]
               /\ \A e \in ProductUsageEvent : usageEvents'[e] <= usageEvents[e]
    <3>1. usageEvents' = [e \in ProductUsageEvent |->
             IF e.subject \in who /\ e.period \in when THEN 0 ELSE usageEvents[e]]
      BY <2>2 DEF ResetUsage
    <3>. QED BY <1>1, <3>1
  <2>. QED BY <2>1, <2>2 DEF ChangePlan, CreateOverride, DeactivateOverride, DeleteOverride,
           NextPeriod, accessVars
<1>5. overrides' \in Seq(Override) /\ OverridesStay
  <2>1. CASE overrides' = overrides
    BY <1>1, <2>1 DEF OverridesStay
  <2>2. ASSUME NEW s \in Subjects, NEW e \in {"allow", "deny", "limit"}, NEW v \in OverrideLimits,
               NEW u \in 1..Periods, CreateOverride(s, e, v, u)
        PROVE  overrides' \in Seq(Override) /\ OverridesStay
    <3>. DEFINE row == [subject |-> s, effect |-> e, value |-> v, isActive |-> TRUE,
                        until |-> u, deleted |-> FALSE]
    <3>1. row \in Override
      BY DEF Override
    <3>2. overrides' = Append(overrides, row)
      BY <2>2 DEF CreateOverride
    <3>. HIDE DEF row
    <3>. QED BY <1>1, <3>1, <3>2, RowInserted DEF OverridesStay
  <2>3. ASSUME NEW n \in DOMAIN overrides, NEW row \in Override,
               overrides' = [overrides EXCEPT ![n] = row]
        PROVE  overrides' \in Seq(Override) /\ OverridesStay
    BY <1>1, <2>3, RowReplaced DEF OverridesStay
  <2>4. ASSUME NEW n \in DOMAIN overrides, DeactivateOverride(n) \/ DeleteOverride(n)
        PROVE  overrides' \in Seq(Override) /\ OverridesStay
    <3>1. overrides[n] \in Override
      BY <1>1
    <3>2. /\ [overrides[n] EXCEPT !.isActive = FALSE] \in Override
          /\ [overrides[n] EXCEPT !.deleted = TRUE] \in Override
      BY <3>1 DEF Override
    <3>3. \/ overrides' = [overrides EXCEPT ![n] = [overrides[n] EXCEPT !.isActive = FALSE]]
          \/ overrides' = [overrides EXCEPT ![n] = [overrides[n] EXCEPT !.deleted = TRUE]]
      BY <2>4 DEF DeactivateOverride, DeleteOverride
    <3>. QED BY <2>3, <3>2, <3>3
  <2>. QED BY <2>1, <2>2, <2>4 DEF ResetUsage, ChangePlan, NextPeriod, accessVars
<1>6. AccessTypes'
  BY <1>2, <1>3, <1>4, <1>5 DEF AccessInv, AccessTypes
<1>7. /\ RequestsOK' /\ \A w \in Workers : AccessRequestOK(request[w])'
      /\ \A w \in Workers : request'[w] = request[w] \/ request'[w].op # "record"
  BY <1>2, <1>5, SameRequests
<1>8. decisions \subseteq decisions' /\ IsFiniteSet(decisions')
  BY <1>2 DEF AccessInv
<1>. QED BY <1>2, <1>4, <1>6, <1>7, <1>8, QuietStep

(* An override is read, and saved as a whole.                              *)
LEMMA PatchSteps ==
    ASSUME Workers # {}, AccessInv, NEW w \in Workers,
           \/ \E n \in DOMAIN overrides, v \in OverrideLimits : PatchOverrideRead(w, n, v)
           \/ PatchOverrideSave(w)
    PROVE  AccessInv'
<1>1. /\ overrides \in Seq(Override) /\ usageEvents \in [ProductUsageEvent -> Nat]
      /\ UNCHANGED <<plan, usageEvents, decisions, period>>
  BY DEF AccessInv, AccessTypes, PatchOverrideRead, PatchOverrideSave, accessVars
<1>2. SUFFICES ASSUME NEW held, AccessRequestOK(held), held.op # "record",
                      Begin(w, held) \/ Proceed(w, held),
                      overrides' \in Seq(Override), OverridesStay
               PROVE  AccessInv'
  <2>1. ASSUME NEW n \in DOMAIN overrides, NEW v \in OverrideLimits, PatchOverrideRead(w, n, v)
        PROVE  AccessInv'
    <3>. DEFINE held == [op |-> "override", row |-> n,
                         new |-> [overrides[n] EXCEPT !.value = v]]
    <3>1. overrides[n] \in Override /\ n \in Nat \ {0}
      BY <1>1
    <3>2. [overrides[n] EXCEPT !.value = v] \in Override
      BY <3>1 DEF Override
    <3>3. AccessRequestOK(held) /\ held.op # "record"
      BY <3>1, <3>2 DEF AccessRequestOK, OverrideRequest
    <3>4. Begin(w, held) /\ overrides' = overrides
      BY <2>1 DEF PatchOverrideRead, accessVars
    <3>. HIDE DEF held
    <3>. QED BY <1>1, <1>2, <3>3, <3>4 DEF OverridesStay
  <2>2. CASE PatchOverrideSave(w)
    <3>1. PICK n, row : n = request[w].row /\ row = request[w].new
      OBVIOUS
    <3>2. n \in DOMAIN overrides /\ row \in Override
      BY <2>2, <3>1 DEF PatchOverrideSave, AccessInv, AccessRequestOK, OverrideRequest, Holds
    <3>3. overrides' = [overrides EXCEPT ![n] = row] /\ Proceed(w, Idle)
      BY <2>2, <3>1 DEF PatchOverrideSave, End
    <3>4. overrides' \in Seq(Override) /\ OverridesStay
      BY <1>1, <3>2, <3>3, RowReplaced DEF OverridesStay
    <3>. QED BY <1>2, <3>3, <3>4, IdleFits
  <2>. QED BY <2>1, <2>2
<1>3. /\ RequestsOK' /\ \A v \in Workers : AccessRequestOK(request[v])'
      /\ \A v \in Workers : request'[v] = request[v] \/ request'[v].op # "record"
  BY <1>2, NextRequest
<1>4. AccessTypes'
  BY <1>1, <1>2 DEF AccessInv, AccessTypes
<1>5. \A e \in ProductUsageEvent : usageEvents'[e] <= usageEvents[e]
  BY <1>1
<1>6. /\ period' \in {period, period + 1} /\ decisions \subseteq decisions'
      /\ IsFiniteSet(decisions')
  BY <1>1 DEF AccessInv
<1>. QED BY <1>3, <1>4, <1>5, <1>6, QuietStep

LEMMA StepAccess ==
    ASSUME Workers # {}, AccessInv, [AccessNext]_<<requestVars, accessVars>>
    PROVE  AccessInv'
BY CheckSteps, DecideStep, RecordUsageStep, StaffSteps, PatchSteps DEF AccessNext

(* Of any number of workers, subjects, limits, overrides and periods: what *)
(* is used and what is granted and not yet recorded stay near the limit.   *)
THEOREM AccessInvariance == ASSUME Workers # {} PROVE AccessSpec => []AccessInv
<1>1. RequestsInit /\ AccessInit => AccessInv
  BY InitAccess
<1>2. AccessInv /\ [AccessNext]_<<requestVars, accessVars>> => AccessInv'
  BY StepAccess
<1>. QED BY <1>1, <1>2, PTL DEF AccessSpec

(* A limit is passed by what the other workers had been granted at most.   *)
THEOREM UsageIsLimited == ASSUME Workers # {} PROVE AccessSpec => []UsageStaysNearLimit
<1>1. AccessInv => UsageStaysNearLimit
  BY DEF AccessInv, NearLimit, UsageStaysNearLimit, LimitsSeen, Slack
<1>. QED BY <1>1, AccessInvariance, PTL

-----------------------------------------------------------------------------
(* Every step serves one request or none, and only the apps that have them *)
(* hand out an answer to a consent evaluation and an entry to write.       *)
OneRequest == spent' = spent \/ (HasRoom /\ spent' = spent + 1)

Lets(ops) == OneRequest /\ Spares(ops)

LEMMA ServeLets ==
    ASSUME RequestsOK, NEW ops, Serve \/ UNCHANGED requestVars PROVE Lets(ops)
BY ServeSpares, StillSpares DEF Serve, requestVars, Lets, OneRequest

LEMMA HeldLets ==
    ASSUME RequestsOK, NEW w \in Workers, NEW held, NEW ops, held.op \notin ops,
           Begin(w, held) \/ TakeUp(w, held) \/ Proceed(w, held)
    PROVE  Lets(ops)
BY ProceedSpares DEF Begin, TakeUp, Proceed, Lets, OneRequest

LEMMA EndLets ==
    ASSUME RequestsOK, NEW w \in Workers, End(w), NEW ops, "idle" \notin ops PROVE Lets(ops)
BY EndSpares DEF End, Proceed, Lets, OneRequest

Foreign == {"answer", "tell"}

LEMMA IdleIsNotForeign == "idle" \notin Foreign
BY DEF Foreign

LEMMA AccessLets == ASSUME RequestsOK, AccessNext PROVE Lets(Foreign)
<1>1. ASSUME NEW w \in Workers, NEW s \in Subjects, NEW q \in AccessQuantities,
             NEW k \in AccessKeys, LookUp(w, s, q, k)
      PROVE  Lets(Foreign)
  <2>. DEFINE held == [op |-> "check", subject |-> s, quantity |-> q, key |-> k, plan |-> plan[s]]
  <2>1. Begin(w, held) /\ held.op \notin Foreign
    BY <1>1 DEF LookUp, Foreign
  <2>. HIDE DEF held
  <2>. QED BY <2>1, HeldLets
<1>2. ASSUME NEW w \in Workers, Decide(w) PROVE Lets(Foreign)
  <2>. DEFINE held == [request[w] EXCEPT !.op = "record"]
  <2>1. Proceed(w, held) \/ End(w)
    BY <1>2 DEF Decide
  <2>2. held.op \notin Foreign
    <3>1. held.op = "record" \/ held.op = request[w].op
      OBVIOUS
    <3>. QED BY <1>2, <3>1 DEF Decide, Holds, Foreign
  <2>. HIDE DEF held
  <2>. QED BY <2>1, <2>2, HeldLets, EndLets, IdleIsNotForeign
<1>3. ASSUME NEW w \in Workers,
             Refuse(w) \/ RecordUsage(w) \/ PatchOverrideSave(w) \/ Abandon(w)
      PROVE  Lets(Foreign)
  BY <1>3, EndLets, IdleIsNotForeign DEF Refuse, RecordUsage, PatchOverrideSave, Abandon
<1>4. ASSUME NEW w \in Workers, NEW n \in DOMAIN overrides, NEW v \in OverrideLimits,
             PatchOverrideRead(w, n, v)
      PROVE  Lets(Foreign)
  <2>. DEFINE held == [op |-> "override", row |-> n, new |-> [overrides[n] EXCEPT !.value = v]]
  <2>1. Begin(w, held) /\ held.op \notin Foreign
    BY <1>4 DEF PatchOverrideRead, Foreign
  <2>. HIDE DEF held
  <2>. QED BY <2>1, HeldLets
<1>5. ASSUME NEW who, NEW when, ResetUsage(who, when) PROVE Lets(Foreign)
  BY <1>5, ServeLets DEF ResetUsage
<1>6. ASSUME NEW s \in Subjects,
             \/ ChangePlan(s)
             \/ \E e \in {"allow", "deny", "limit"}, v \in OverrideLimits, u \in 1..Periods :
                  CreateOverride(s, e, v, u)
      PROVE  Lets(Foreign)
  BY <1>6, ServeLets DEF ChangePlan, CreateOverride
<1>7. ASSUME NEW n \in DOMAIN overrides, DeactivateOverride(n) \/ DeleteOverride(n)
      PROVE  Lets(Foreign)
  BY <1>7, ServeLets DEF DeactivateOverride, DeleteOverride
<1>8. CASE NextPeriod
  BY <1>8, ServeLets DEF NextPeriod, requestVars
<1>. QED BY <1>1, <1>2, <1>3, <1>4, <1>5, <1>6, <1>7, <1>8 DEF AccessNext

LEMMA NoticesLet == ASSUME NoticeInv, NoticeNext PROVE Lets(Foreign)
<1>0. RequestsOK
  BY DEF NoticeInv
<1>1. ASSUME NEW w \in Workers, NEW n, NEW channels,
             Begin(w, [op |-> "enqueue", notice |-> n, todo |-> channels, created |-> 0])
      PROVE  Lets(Foreign)
  <2>. DEFINE held == [op |-> "enqueue", notice |-> n, todo |-> channels, created |-> 0]
  <2>1. Begin(w, held) /\ held.op \notin Foreign
    BY <1>1 DEF Foreign
  <2>. HIDE DEF held
  <2>. QED BY <1>0, <2>1, HeldLets
<1>2. ASSUME NEW w \in Workers, NEW k, CreateNotice(w, k, Channels) PROVE Lets(Foreign)
  <2>1. \E n : Begin(w, [op |-> "enqueue", notice |-> n, todo |-> Channels, created |-> 0])
    BY <1>2 DEF CreateNotice
  <2>. QED BY <1>1, <2>1
<1>3. ASSUME NEW w \in Workers, NEW n, EnqueueAgain(w, n, Channels) PROVE Lets(Foreign)
  BY <1>1, <1>3 DEF EnqueueAgain
<1>4. ASSUME NEW w \in Workers, NEW c \in Channels, CheckChannel(w, c) PROVE Lets(Foreign)
  <2>. DEFINE rest == [request[w] EXCEPT !.todo = @ \ {c}]
              held == [op |-> "deliver", channel |-> c, then |-> rest]
  <2>1. Proceed(w, held) \/ Proceed(w, rest)
    BY <1>4 DEF CheckChannel
  <2>2. held.op = "deliver" /\ rest.op = request[w].op /\ request[w].op = "enqueue"
    BY <1>4 DEF CheckChannel, Holds
  <2>. HIDE DEF rest, held
  <2>. QED BY <2>1, <2>2, <1>0, HeldLets DEF Foreign
<1>5. ASSUME NEW w \in Workers, SaveNoticeStatus(w) \/ Abandon(w) PROVE Lets(Foreign)
  BY <1>5, <1>0, EndLets, IdleIsNotForeign DEF SaveNoticeStatus, Abandon
<1>6. ASSUME NEW w \in Workers, NEW rows, Begin(w, Held(rows)) \/ TakeUp(w, Held(rows))
      PROVE  Lets(Foreign)
  <2>1. Held(rows).op \notin Foreign
    BY DEF Held, Foreign
  <2>. QED BY <1>6, <2>1, <1>0, HeldLets
<1>7. ASSUME NEW w \in Workers, NEW n, DispatchDelivery(w, n) PROVE Lets(Foreign)
  <2>. DEFINE rest == DOMAIN request[w].rows \ {n}
              held == [request[w] EXCEPT !.rows = [m \in rest |-> @[m]]]
  <2>1. End(w) \/ Proceed(w, held)
    BY <1>7 DEF DispatchDelivery
  <2>2. held.op = request[w].op /\ request[w].op = "dispatch"
    BY <1>7 DEF DispatchDelivery, Holds
  <2>. HIDE DEF held
  <2>. QED BY <2>1, <2>2, <1>0, HeldLets, EndLets, IdleIsNotForeign DEF Foreign
<1>8. ASSUME NEW c \in Channels,
             \/ \E s \in Scopes, to \in NotificationPreference : SetPreference(c, s, to)
             \/ \E r \in Reasons : Suppress(c, r) \/ SuppressionLapses(c, r)
      PROVE  Lets(Foreign)
  BY <1>8, <1>0, ServeLets DEF SetPreference, Suppress, SuppressionLapses
<1>9. CASE RegisterPushToken \/ RevokePushToken
  BY <1>9, <1>0, ServeLets DEF RegisterPushToken, RevokePushToken
<1>10. ASSUME NEW w \in Workers, CreateDelivery(w) PROVE Lets(Foreign)
  <2>. DEFINE held == [request[w].then EXCEPT !.created = @ + 1]
  <2>1. request[w].then.op = "enqueue"
    BY <1>10 DEF CreateDelivery, Holds, NoticeInv, NoticeHeld, EnqueueRequest
  <2>2. Proceed(w, held) /\ held.op = request[w].then.op
    BY <1>10 DEF CreateDelivery
  <2>. HIDE DEF held
  <2>. QED BY <1>0, <2>1, <2>2, HeldLets DEF Foreign
<1>. QED BY <1>2, <1>3, <1>4, <1>5, <1>6, <1>7, <1>8, <1>9, <1>10
         DEF NoticeNext, DispatchDue, OpenDelivery

LEMMA RiskLets == ASSUME RequestsOK, RiskNext PROVE Lets(Foreign)
<1>1. ASSUME NEW w \in Workers, NEW u \in Users, RecordVelocityEvent(w, u) PROVE Lets(Foreign)
  <2>. DEFINE held == [op |-> "evaluate", event |-> Len(velocityEvents) + 1]
  <2>1. Begin(w, held) /\ held.op \notin Foreign
    BY <1>1 DEF RecordVelocityEvent, Foreign
  <2>. HIDE DEF held
  <2>. QED BY <2>1, HeldLets
<1>2. ASSUME NEW w \in Workers, ReadRules(w) PROVE Lets(Foreign)
  <2>. DEFINE held == [op |-> "rules", event |-> request[w].event,
                       todo |-> {r \in Rules : enabled[r]}]
  <2>1. Proceed(w, held) /\ held.op \notin Foreign
    BY <1>2 DEF ReadRules, Foreign
  <2>. HIDE DEF held
  <2>. QED BY <2>1, HeldLets
<1>3. ASSUME NEW w \in Workers, NEW r \in Rules, EvaluateRule(w, r) PROVE Lets(Foreign)
  <2>. DEFINE held == [request[w] EXCEPT !.todo = @ \ {r}]
  <2>1. Proceed(w, held) /\ held.op = request[w].op /\ request[w].op = "rules"
    BY <1>3 DEF EvaluateRule, Holds
  <2>. HIDE DEF held
  <2>. QED BY <2>1, HeldLets DEF Foreign
<1>4. ASSUME NEW w \in Workers,
             FinishEvaluation(w) \/ StampIncident(w) \/ SaveIpReputation(w) \/ Abandon(w)
      PROVE  Lets(Foreign)
  BY <1>4, EndLets, IdleIsNotForeign
     DEF FinishEvaluation, StampIncident, SaveIpReputation, Abandon
<1>5. ASSUME NEW w \in Workers, NEW n, NEW status, PatchIncidentRead(w, n, status)
      PROVE  Lets(Foreign)
  <2>. DEFINE held == [op |-> "incident", row |-> n,
                       new |-> [incidents[n] EXCEPT !.status = status]]
  <2>1. Begin(w, held) /\ held.op \notin Foreign
    BY <1>5 DEF PatchIncidentRead, Foreign
  <2>. HIDE DEF held
  <2>. QED BY <2>1, HeldLets
<1>6. ASSUME NEW w \in Workers, PatchIncidentSave(w) PROVE Lets(Foreign)
  <2>. DEFINE held == [request[w] EXCEPT !.op = "stamp"]
  <2>1. Proceed(w, held) \/ End(w)
    BY <1>6 DEF PatchIncidentSave
  <2>2. held.op \notin Foreign
    <3>1. held.op = "stamp" \/ held.op = request[w].op
      OBVIOUS
    <3>. QED BY <1>6, <3>1 DEF PatchIncidentSave, Holds, Foreign
  <2>. HIDE DEF held
  <2>. QED BY <2>1, <2>2, HeldLets, EndLets, IdleIsNotForeign
<1>7. ASSUME NEW w \in Workers, NEW score, ReadIpReputation(w, score) PROVE Lets(Foreign)
  <2>. DEFINE held == [op |-> "ip", score |-> Max({ipRisk, score})]
  <2>1. Begin(w, held) /\ held.op \notin Foreign
    BY <1>7 DEF ReadIpReputation, Foreign
  <2>. HIDE DEF held
  <2>. QED BY <2>1, HeldLets
<1>8. ASSUME Serve \/ UNCHANGED requestVars PROVE Lets(Foreign)
  BY <1>8, ServeLets
<1>9. ASSUME \/ \E r \in Rules : SwitchRule(r)
             \/ WindowSlides
             \/ \E s \in signals, risk \in BOOLEAN, asCase \in BOOLEAN : Promote(s, risk, asCase)
             \/ \E n \in DOMAIN cases, status \in CaseStatuses \ {"open"} : ActOnCase(n, status)
             \/ \E n \in DOMAIN reviews, status \in ReviewStatuses \ {"pending"} :
                  DecideReview(n, status)
             \/ \E n \in DOMAIN riskEvents, status \in RiskStatuses \ {"open"} :
                  ActOnRiskEvent(n, status)
             \/ OpenIncident
             \/ \E u \in Users, o \in RiskOrgs \cup {NoOrg} : PlaceRestriction(u, o)
             \/ \E n \in DOMAIN restrictions : Lift(n) \/ RestrictionExpires(n)
      PROVE  Serve \/ UNCHANGED requestVars
  BY <1>9 DEF SwitchRule, WindowSlides, Promote, ActOnCase, DecideReview, ActOnRiskEvent,
     OpenIncident, PlaceRestriction, Lift, RestrictionExpires, requestVars
<1>. QED BY <1>1, <1>2, <1>3, <1>4, <1>5, <1>6, <1>7, <1>8, <1>9 DEF RiskNext

LEMMA GovernanceLets == ASSUME RequestsOK, GovernanceNext PROVE Lets(Foreign)
<1>1. ASSUME NEW w \in Workers, NEW n, NEW force,
             Begin(w, Running(n, force)) \/ TakeUp(w, Running(n, force))
      PROVE  Lets(Foreign)
  <2>1. Running(n, force).op \notin Foreign
    BY DEF Running, Foreign
  <2>. QED BY <1>1, <2>1, HeldLets
<1>2. ASSUME NEW w \in Workers, SkipCompleted(w) \/ BlockJob(w) \/ CompleteJob(w) \/ Abandon(w)
      PROVE  Lets(Foreign)
  BY <1>2, EndLets, IdleIsNotForeign DEF SkipCompleted, BlockJob, CompleteJob, Abandon
<1>3. ASSUME NEW w \in Workers, SaveRunning(w) PROVE Lets(Foreign)
  <2>. DEFINE held == [request[w] EXCEPT !.op = "running"]
  <2>1. Proceed(w, held)
    BY <1>3 DEF SaveRunning
  <2>2. held.op \notin Foreign
    <3>1. held.op = "running" \/ held.op = request[w].op
      OBVIOUS
    <3>. QED BY <1>3, <3>1 DEF SaveRunning, Holds, Foreign
  <2>. HIDE DEF held
  <2>. QED BY <2>1, <2>2, HeldLets
<1>4. ASSUME NEW w \in Workers, ReadAssets(w) PROVE Lets(Foreign)
  <2>. DEFINE held == [op |-> "assets", job |-> request[w].job, processed |-> 0,
                       todo |-> policyAssets[request[w].row.policy]]
  <2>1. Proceed(w, held) /\ held.op \notin Foreign
    BY <1>4 DEF ReadAssets, Foreign
  <2>. HIDE DEF held
  <2>. QED BY <2>1, HeldLets
<1>5. ASSUME NEW w \in Workers, NEW a \in Assets, RecordAsset(w, a) PROVE Lets(Foreign)
  <2>. DEFINE held == [request[w] EXCEPT !.todo = @ \ {a}, !.processed = @ + 1]
  <2>1. Proceed(w, held) /\ held.op = request[w].op /\ request[w].op = "assets"
    BY <1>5 DEF RecordAsset, Holds
  <2>. HIDE DEF held
  <2>. QED BY <2>1, HeldLets DEF Foreign
<1>6. ASSUME \/ PlaceHold \/ AskSubjectRequest
             \/ \E n \in DOMAIN holds : ReleaseLegalHold(n)
             \/ \E p \in RetentionPolicies, assets \in SUBSET Assets, asks \in BOOLEAN :
                  ChangePolicy(p, assets, asks)
             \/ \E p \in RetentionPolicies : PlanRetentionJob(p)
             \/ \E p \in RetentionPolicies, status \in {"queued", "completed"} :
                  PostRetentionJob(p, status)
             \/ \E n \in DOMAIN subjectRequests, status \in RequestStatuses \ {"received"} :
                  ActOnSubjectRequest(n, status)
      PROVE  Serve
  BY <1>6 DEF PlaceHold, AskSubjectRequest, ReleaseLegalHold, ChangePolicy, PlanRetentionJob,
     PostRetentionJob, ActOnSubjectRequest
<1>. QED BY <1>1, <1>2, <1>3, <1>4, <1>5, <1>6, ServeLets DEF GovernanceNext, TakeDueJob, OpenJob

LEMMA ComplianceLets == ASSUME RequestsOK, ComplianceNext PROVE Lets(Foreign)
<1>1. ASSUME NEW w \in Workers, NEW retired \in BOOLEAN, PatchDocumentRead(w, retired)
      PROVE  Lets(Foreign)
  <2>. DEFINE held == [op |-> "document", new |-> [document EXCEPT !.retired = retired]]
  <2>1. Begin(w, held) /\ held.op \notin Foreign
    BY <1>1 DEF PatchDocumentRead, Foreign
  <2>. HIDE DEF held
  <2>. QED BY <2>1, HeldLets
<1>2. ASSUME NEW w \in Workers, NEW org, AcceptPolicyRead(w, org) PROVE Lets(Foreign)
  <2>. DEFINE held == [op |-> "accept", organization |-> org]
  <2>1. Begin(w, held) /\ held.op \notin Foreign
    BY <1>2 DEF AcceptPolicyRead, Foreign
  <2>. HIDE DEF held
  <2>. QED BY <2>1, HeldLets
<1>3. ASSUME NEW w \in Workers, \/ PatchDocumentSave(w) \/ AcceptPolicyInsert(w)
                                \/ SaveApproval(w) \/ LockPackSave(w) \/ PatchPackSave(w)
                                \/ Abandon(w)
      PROVE  Lets(Foreign)
  BY <1>3, EndLets, IdleIsNotForeign DEF PatchDocumentSave, AcceptPolicyInsert, SaveApproval,
     LockPackSave, PatchPackSave, Abandon
<1>4. ASSUME NEW w \in Workers, NEW n, NEW s, NEW v, OpenReview(w, n, s, v) PROVE Lets(Foreign)
  <2>. DEFINE held == [op |-> "review", row |-> n, by |-> s, verdict |-> v]
  <2>1. Begin(w, held) /\ held.op \notin Foreign
    BY <1>4 DEF OpenReview, Foreign
  <2>. HIDE DEF held
  <2>. QED BY <2>1, HeldLets
<1>5. ASSUME NEW w \in Workers, NEW n, NEW s, LockPackRead(w, n, s) PROVE Lets(Foreign)
  <2>. DEFINE held == [op |-> "lock", row |-> n, by |-> s, status |-> packs[n].status]
  <2>1. Begin(w, held) /\ held.op \notin Foreign
    BY <1>5 DEF LockPackRead, Foreign
  <2>. HIDE DEF held
  <2>. QED BY <2>1, HeldLets
<1>6. ASSUME NEW w \in Workers, NEW n, PatchPackRead(w, n) PROVE Lets(Foreign)
  <2>. DEFINE held == [op |-> "pack", row |-> n, new |-> packs[n]]
  <2>1. Begin(w, held) /\ held.op \notin Foreign
    BY <1>6 DEF PatchPackRead, Foreign
  <2>. HIDE DEF held
  <2>. QED BY <2>1, HeldLets
<1>7. ASSUME \/ PublishDocument \/ RequestAuditExport \/ CreatePack
             \/ \E s \in Staff : RequestApproval(s)
             \/ \E n \in DOMAIN auditExports : MarkReady(n)
      PROVE  Serve
  BY <1>7 DEF PublishDocument, RequestAuditExport, CreatePack, RequestApproval, MarkReady
<1>. QED BY <1>1, <1>2, <1>3, <1>4, <1>5, <1>6, <1>7, ServeLets DEF ComplianceNext

LEMMA ScimLets == ASSUME RequestsOK, ScimNext PROVE Lets(Foreign)
<1>1. ASSUME NEW w \in Workers, NEW c, NEW u, PatchApplicationRead(w, c, u) PROVE Lets(Foreign)
  <2>. DEFINE held == [op |-> "application",
                       new |-> [application EXCEPT !.mayCreate = c, !.mayUpdate = u]]
  <2>1. Begin(w, held) /\ held.op \notin Foreign
    BY <1>1 DEF PatchApplicationRead, Foreign
  <2>. HIDE DEF held
  <2>. QED BY <2>1, HeldLets
<1>2. ASSUME NEW w \in Workers, NEW x, NEW active, NEW token, CallUpsert(w, x, active, token)
      PROVE  Lets(Foreign)
  <2>. DEFINE held == [op |-> "upsert", id |-> x, active |-> active, app |-> application]
  <2>1. Begin(w, held) /\ held.op \notin Foreign
    BY <1>2 DEF CallUpsert, Foreign
  <2>. HIDE DEF held
  <2>. QED BY <2>1, HeldLets
<1>3. ASSUME NEW w \in Workers, NEW x, NEW token, Deactivate(w, x, token) PROVE Lets(Foreign)
  <2>. DEFINE held == [op |-> "ledger", id |-> x, type |-> "user_deactivated"]
  <2>1. Begin(w, held) /\ held.op \notin Foreign
    BY <1>3 DEF Deactivate, Foreign
  <2>. HIDE DEF held
  <2>. QED BY <2>1, HeldLets
<1>4. ASSUME NEW w \in Workers, NEW members, NEW token, UpsertGroup(w, members, token)
      PROVE  Lets(Foreign)
  <2>. DEFINE held == [op |-> "members", todo |-> members]
  <2>1. Begin(w, held) /\ held.op \notin Foreign
    BY <1>4 DEF UpsertGroup, Foreign
  <2>. HIDE DEF held
  <2>. QED BY <2>1, HeldLets
<1>5. ASSUME NEW w \in Workers, CheckAbilities(w) PROVE Lets(Foreign)
  <2>. DEFINE r == request[w]
              held == [op |-> "store", id |-> r.id, active |-> r.active, seen |-> Known(r.id)]
  <2>1. (End(w) \/ Proceed(w, held)) /\ held.op \notin Foreign
    BY <1>5 DEF CheckAbilities, Foreign
  <2>. HIDE DEF held
  <2>. QED BY <2>1, HeldLets, EndLets, IdleIsNotForeign
<1>6. ASSUME NEW w \in Workers, StoreDirectoryUser(w) PROVE Lets(Foreign)
  <2>. DEFINE r == request[w]
              held == [op |-> "ledger", id |-> r.id,
                       type |-> IF Created(r.id, r.seen) THEN "user_created" ELSE "user_updated"]
  <2>1. Proceed(w, held) /\ held.op \notin Foreign
    BY <1>6 DEF StoreDirectoryUser, Foreign
  <2>. HIDE DEF held
  <2>. QED BY <2>1, HeldLets
<1>7. ASSUME NEW w \in Workers, \/ PatchApplicationSave(w) \/ RecordEvent(w) \/ RecordGroup(w)
                                \/ PatchDirectoryUserSave(w) \/ Abandon(w)
      PROVE  Lets(Foreign)
  BY <1>7, EndLets, IdleIsNotForeign DEF PatchApplicationSave, RecordEvent, RecordGroup,
     PatchDirectoryUserSave, Abandon
<1>8. ASSUME NEW w \in Workers, NEW x, NEW active, PatchDirectoryUserRead(w, x, active)
      PROVE  Lets(Foreign)
  <2>. DEFINE held == [op |-> "user", id |-> x, new |-> [directory[x] EXCEPT !.active = active]]
  <2>1. Begin(w, held) /\ held.op \notin Foreign
    BY <1>8 DEF PatchDirectoryUserRead, Foreign
  <2>. HIDE DEF held
  <2>. QED BY <2>1, HeldLets
<1>9. ASSUME NEW w \in Workers, NEW x, LinkMember(w, x) PROVE Lets(Foreign)
  <2>. DEFINE held == [request[w] EXCEPT !.todo = @ \ {x}]
  <2>1. Proceed(w, held) /\ held.op = request[w].op /\ request[w].op = "members"
    BY <1>9 DEF LinkMember, Holds
  <2>. HIDE DEF held
  <2>. QED BY <2>1, HeldLets DEF Foreign
<1>10. ASSUME \/ RotateScimToken \/ AskSync
              \/ \E status \in {"active", "revoked"} : SetApplicationStatus(status)
              \/ \E x \in ExternalIds : PostDirectoryUser(x) \/ DeleteDirectoryUser(x)
              \/ \E n \in DOMAIN syncJobs, status \in {"running", "completed"} :
                   MarkSync(n, status)
       PROVE  Serve
  BY <1>10 DEF RotateScimToken, AskSync, SetApplicationStatus, PostDirectoryUser,
     DeleteDirectoryUser, MarkSync
<1>. QED BY <1>1, <1>2, <1>3, <1>4, <1>5, <1>6, <1>7, <1>8, <1>9, <1>10, ServeLets DEF ScimNext

LEMMA IdentityLets == ASSUME RequestsOK, IdentityNext PROVE Lets({"answer"})
<1>1. ASSUME NEW w \in Workers, NEW type, Begin(w, Owes(type)) PROVE Lets({"answer"})
  <2>1. Owes(type).op \notin {"answer"}
    BY DEF Owes
  <2>. QED BY <1>1, <2>1, HeldLets
<1>2. ASSUME NEW w \in Workers, NEW u, NEW id, RevokeRead(w, u, id) PROVE Lets({"answer"})
  <2>. DEFINE held == [op |-> "revoke", id |-> id, pk |-> enrolled[id].pk]
  <2>1. Begin(w, held) /\ held.op \notin {"answer"}
    BY <1>2 DEF RevokeRead
  <2>. HIDE DEF held
  <2>. QED BY <2>1, HeldLets
<1>3. ASSUME NEW w \in Workers, NEW u, NEW id, NEW status, PatchRead(w, u, id, status)
      PROVE  Lets({"answer"})
  <2>. DEFINE held == [op |-> "save", id |-> id, row |-> [enrolled[id] EXCEPT !.status = status]]
  <2>1. Begin(w, held) /\ held.op \notin {"answer"}
    BY <1>3 DEF PatchRead
  <2>. HIDE DEF held
  <2>. QED BY <2>1, HeldLets
<1>4. ASSUME NEW w \in Workers, RevokeSave(w) PROVE Lets({"answer"})
  <2>. DEFINE held == Owes(RevokedType(request[w].id))
  <2>1. Proceed(w, held) \/ End(w)
    BY <1>4 DEF RevokeSave
  <2>2. held.op \notin {"answer"}
    BY DEF Owes
  <2>. HIDE DEF held
  <2>. QED BY <2>1, <2>2, HeldLets, EndLets
<1>5. ASSUME NEW w \in Workers, PatchSave(w) \/ RecordIdentityEvent(w) \/ WorkerDies(w)
      PROVE  Lets({"answer"})
  BY <1>5, EndLets DEF PatchSave, RecordIdentityEvent, WorkerDies, Abandon
<1>6. ASSUME \/ \E u \in Holders, id \in Ids : DeleteRow(u, id)
             \/ \E n \in DOMAIN proofs : RevokeStepUp(n) \/ StepUpExpires(n)
      PROVE  Lets({"answer"})
  BY <1>6, ServeLets DEF DeleteRow, RevokeStepUp, StepUpExpires
<1>. QED BY <1>1, <1>2, <1>3, <1>4, <1>5, <1>6 DEF IdentityNext, Enroll, SatisfyStepUp

LEMMA OidcLets == ASSUME RequestsOK, OidcNext PROVE Lets({"tell"})
<1>1. ASSUME NEW w \in Workers, NEW n, NEW row,
             NEW op \in {"saveKey", "saveScope", "saveProfile", "saveConsent"},
             Begin(w, Edit(op, n, row))
      PROVE  Lets({"tell"})
  <2>1. Edit(op, n, row).op \notin {"tell"}
    BY DEF Edit
  <2>. QED BY <1>1, <2>1, HeldLets
<1>2. ASSUME NEW w \in Workers,
             \/ \E n \in DOMAIN signingKeys : PatchKey(w, n)
             \/ \E s \in OAuthScopes, field \in {"active", "asks"}, to \in BOOLEAN :
                  PatchScope(w, s, field, to)
             \/ \E to \in Screens : PatchProfile(w, to)
             \/ \E n \in DOMAIN consents, scopes \in SUBSET OAuthScopes :
                  PatchConsent(w, n, scopes)
      PROVE  Lets({"tell"})
  BY <1>1, <1>2 DEF PatchKey, PatchScope, PatchProfile, PatchConsent
<1>3. ASSUME NEW w \in Workers, NEW scopes, Evaluate(w, scopes) PROVE Lets({"tell"})
  <2>. DEFINE held == [op |-> "readScopes", asked |-> scopes, silent |-> screen = "not required"]
  <2>1. Begin(w, held) /\ held.op \notin {"tell"}
    BY <1>3 DEF Evaluate
  <2>. HIDE DEF held
  <2>. QED BY <2>1, HeldLets
<1>4. ASSUME NEW w \in Workers, ReadScopes(w) PROVE Lets({"tell"})
  <2>. DEFINE e == request[w]
              held == [op |-> "readConsents", asked |-> e.asked,
                       required |-> IF e.silent THEN {} ELSE {s \in e.asked : AsksConsent(s)}]
  <2>1. Proceed(w, held) /\ held.op \notin {"tell"}
    BY <1>4 DEF ReadScopes
  <2>. HIDE DEF held
  <2>. QED BY <2>1, HeldLets
<1>5. ASSUME NEW w \in Workers, ReadConsents(w) PROVE Lets({"tell"})
  <2>. DEFINE held == [op |-> "answer", asked |-> request[w].asked,
                       missing |-> request[w].required \ ConsentedScopes]
  <2>1. Proceed(w, held) /\ held.op \notin {"tell"}
    BY <1>5 DEF ReadConsents
  <2>. HIDE DEF held
  <2>. QED BY <2>1, HeldLets
<1>6. ASSUME NEW w \in Workers, \/ SaveKey(w) \/ SaveScope(w) \/ SaveProfile(w) \/ SaveConsent(w)
                                \/ AnswerEvaluation(w) \/ Abandon(w)
      PROVE  Lets({"tell"})
  BY <1>6, EndLets DEF SaveKey, SaveScope, SaveProfile, SaveConsent, AnswerEvaluation, Abandon
<1>7. ASSUME \/ CreateKey \/ DeleteProfile
             \/ \E n \in DOMAIN signingKeys : DeleteKey(n) \/ \E to \in LifeCycle : MoveKey(n, to)
             \/ \E s \in OAuthScopes : DeleteScope(s) \/ \E row \in ScopeRow : DefineScope(s, row)
             \/ \E to \in Screens : CreateProfile(to)
             \/ \E scopes \in SUBSET OAuthScopes : GiveConsent(scopes)
             \/ \E n \in DOMAIN consents :
                  RevokeConsent(n) \/ DeleteConsent(n) \/ ConsentExpires(n)
      PROVE  Serve \/ UNCHANGED requestVars
  BY <1>7 DEF CreateKey, DeleteProfile, DeleteKey, MoveKey, DeleteScope, DefineScope,
     CreateProfile, GiveConsent, RevokeConsent, DeleteConsent, ConsentExpires, requestVars
<1>. QED BY <1>2, <1>3, <1>4, <1>5, <1>6, <1>7, ServeLets DEF OidcNext, OidcStep

-----------------------------------------------------------------------------
(* The types of what the invariant of the velocity rules does not speak    *)
(* of: the rows of the staff and what a worker holds of them.              *)
RiskHeld(held, rows) ==
    /\ held.op \in {"incident", "stamp"} =>
         held.row \in DOMAIN rows /\ held.new \in SecurityIncident
    /\ held.op = "ip" => held.score \in IPReputation

StaffTables ==
    /\ riskEvents \in Seq(RiskStatuses) /\ cases \in Seq(AbuseCase)
    /\ reviews \in Seq(ReviewStatuses) /\ incidents \in Seq(SecurityIncident)
    /\ restrictions \in Seq(AccountRestriction) /\ ipRisk \in IPReputation

RiskRest ==
    /\ since \in 0 .. Len(velocityEvents) /\ signals \subseteq AbuseSignal
    /\ StaffTables
    /\ \A w \in Workers : RiskHeld(request[w], incidents)

LEMMA InitRiskRest == RequestsInit /\ RiskInit => RiskRest
<1>. SUFFICES ASSUME RequestsInit, RiskInit PROVE RiskRest
  OBVIOUS
<1>1. \A w \in Workers : request[w].op = "idle"
  BY DEF RequestsInit, Idle
<1>2. StaffTables
  BY DEF RiskInit, StaffTables, ReviewStatuses, IPReputation
<1>. QED BY <1>1, <1>2 DEF RiskInit, RiskRest, RiskHeld

LEMMA StaffRows ==
    /\ \A row \in AbuseCase, status \in CaseStatuses, at \in BOOLEAN :
         [row EXCEPT !.status = status, !.resolvedAt = at] \in AbuseCase
    /\ \A row \in SecurityIncident, status \in IncidentStatuses :
         /\ [row EXCEPT !.status = status] \in SecurityIncident
         /\ [row EXCEPT !.stamped = @ \cup {status}] \in SecurityIncident
    /\ \A row \in AccountRestriction :
         /\ [row EXCEPT !.status = "lifted"] \in AccountRestriction
         /\ [row EXCEPT !.status = "expired"] \in AccountRestriction
<1>1. \A row \in AbuseCase, status \in CaseStatuses, at \in BOOLEAN :
         [row EXCEPT !.status = status, !.resolvedAt = at] \in AbuseCase
  BY DEF AbuseCase
<1>2. \A row \in SecurityIncident, status \in IncidentStatuses :
         /\ [row EXCEPT !.status = status] \in SecurityIncident
         /\ [row EXCEPT !.stamped = @ \cup {status}] \in SecurityIncident
  BY DEF SecurityIncident
<1>3. \A row \in AccountRestriction :
         /\ [row EXCEPT !.status = "lifted"] \in AccountRestriction
         /\ [row EXCEPT !.status = "expired"] \in AccountRestriction
  BY DEF AccountRestriction
<1>. QED BY <1>1, <1>2, <1>3

(* The staff's steps on rows.                                              *)
LEMMA StaffTablesStep ==
    ASSUME RiskRest,
           \/ \E s \in signals, risk \in BOOLEAN, asCase \in BOOLEAN : Promote(s, risk, asCase)
           \/ \E n \in DOMAIN cases, status \in CaseStatuses \ {"open"} : ActOnCase(n, status)
           \/ \E n \in DOMAIN reviews, status \in ReviewStatuses \ {"pending"} :
                DecideReview(n, status)
           \/ \E n \in DOMAIN riskEvents, status \in RiskStatuses \ {"open"} :
                ActOnRiskEvent(n, status)
           \/ OpenIncident
           \/ \E u \in Users, o \in RiskOrgs \cup {NoOrg} : PlaceRestriction(u, o)
           \/ \E n \in DOMAIN restrictions : Lift(n) \/ RestrictionExpires(n)
    PROVE  StaffTables' /\ DOMAIN incidents \subseteq DOMAIN incidents'
<1>0. /\ StaffTables /\ \A n \in DOMAIN cases : cases[n] \in AbuseCase
      /\ \A n \in DOMAIN restrictions : restrictions[n] \in AccountRestriction
  BY DEF RiskRest, StaffTables
<1>1. ASSUME NEW s \in signals, NEW risk \in BOOLEAN, NEW asCase \in BOOLEAN,
             Promote(s, risk, asCase)
      PROVE  StaffTables' /\ DOMAIN incidents \subseteq DOMAIN incidents'
  <2>1. /\ [signal |-> s, status |-> "open", resolvedAt |-> FALSE] \in AbuseCase
        /\ "open" \in RiskStatuses
    BY DEF RiskRest, AbuseCase, CaseStatuses, RiskStatuses
  <2>. QED BY <1>0, <1>1, <2>1 DEF Promote, StaffTables
<1>2. ASSUME NEW n \in DOMAIN cases, NEW status \in CaseStatuses, ActOnCase(n, status)
      PROVE  StaffTables' /\ DOMAIN incidents \subseteq DOMAIN incidents'
  <2>. DEFINE at == cases[n].resolvedAt \/ status \in {"resolved", "false_positive"}
              row == [cases[n] EXCEPT !.status = status, !.resolvedAt = at]
  <2>1. row \in AbuseCase
    <3>1. at \in BOOLEAN
      BY <1>0 DEF AbuseCase
    <3>. HIDE DEF at
    <3>. QED BY <1>0, <3>1, StaffRows
  <2>2. cases' = [cases EXCEPT ![n] = row]
    BY <1>2, <1>0 DEF ActOnCase, StaffTables
  <2>. HIDE DEF row
  <2>3. cases' \in Seq(AbuseCase)
    BY <1>0, <2>1, <2>2, RowReplaced DEF StaffTables
  <2>. QED BY <1>0, <1>2, <2>3 DEF ActOnCase, StaffTables
<1>3. ASSUME NEW n \in DOMAIN reviews, NEW status \in ReviewStatuses, DecideReview(n, status)
      PROVE  StaffTables' /\ DOMAIN incidents \subseteq DOMAIN incidents'
  BY <1>0, <1>3, RowReplaced DEF DecideReview, StaffTables
<1>4. ASSUME NEW n \in DOMAIN riskEvents, NEW status \in RiskStatuses, ActOnRiskEvent(n, status)
      PROVE  StaffTables' /\ DOMAIN incidents \subseteq DOMAIN incidents'
  BY <1>0, <1>4, RowReplaced DEF ActOnRiskEvent, StaffTables
<1>5. CASE OpenIncident
  <2>1. [status |-> "open", stamped |-> {}] \in SecurityIncident
    BY DEF SecurityIncident, IncidentStatuses
  <2>. QED BY <1>0, <1>5, <2>1, RowInserted DEF OpenIncident, StaffTables
<1>6. ASSUME NEW u \in Users, NEW o \in RiskOrgs \cup {NoOrg}, PlaceRestriction(u, o)
      PROVE  StaffTables' /\ DOMAIN incidents \subseteq DOMAIN incidents'
  <2>1. [user |-> u, organization |-> o, status |-> "active"] \in AccountRestriction
    BY DEF AccountRestriction
  <2>. QED BY <1>0, <1>6, <2>1, RowInserted DEF PlaceRestriction, StaffTables
<1>7. ASSUME NEW n \in DOMAIN restrictions, NEW status \in {"lifted", "expired"},
             restrictions' = [restrictions EXCEPT ![n].status = status],
             UNCHANGED <<riskEvents, cases, reviews, incidents, ipRisk>>
      PROVE  StaffTables' /\ DOMAIN incidents \subseteq DOMAIN incidents'
  <2>1. [restrictions[n] EXCEPT !.status = status] \in AccountRestriction
    BY <1>0, StaffRows
  <2>2. restrictions' = [restrictions EXCEPT ![n] = [restrictions[n] EXCEPT !.status = status]]
    BY <1>7
  <2>3. restrictions' \in Seq(AccountRestriction)
    BY <1>0, <2>1, <2>2, RowReplaced DEF StaffTables
  <2>. QED BY <1>0, <1>7, <2>3 DEF StaffTables
<1>8. ASSUME NEW n \in DOMAIN restrictions, Lift(n) \/ RestrictionExpires(n)
      PROVE  StaffTables' /\ DOMAIN incidents \subseteq DOMAIN incidents'
  BY <1>7, <1>8 DEF Lift, RestrictionExpires
<1>. QED BY <1>1, <1>2, <1>3, <1>4, <1>5, <1>6, <1>8

(* Events stay in the list, and the window never passes its end.           *)
EventsStay ==
    DOMAIN velocityEvents \subseteq DOMAIN velocityEvents'
    /\ (since' = since \/ (since < Len(velocityEvents) /\ since' = since + 1))

LEMMA EventsStayStep == ASSUME RiskInv, RiskNext PROVE EventsStay
<1>1. velocityEvents \in Seq(VelocityEvent)
  BY DEF RiskInv
<1>2. ASSUME NEW w \in Workers, NEW u \in Users, RecordVelocityEvent(w, u) PROVE EventsStay
  <2>1. \E row : velocityEvents' = Append(velocityEvents, row)
    BY <1>2 DEF RecordVelocityEvent
  <2>. QED BY <1>1, <1>2, <2>1 DEF RecordVelocityEvent, EventsStay
<1>3. ASSUME NEW w \in Workers, FinishEvaluation(w) PROVE EventsStay
  BY <1>1, <1>3 DEF FinishEvaluation, EventsStay
<1>4. ASSUME NEW r \in Rules, SwitchRule(r) PROVE EventsStay
  BY <1>4 DEF SwitchRule, Excused, EventsStay
<1>5. CASE WindowSlides
  BY <1>5 DEF WindowSlides, Excused, EventsStay
<1>6. ASSUME UNCHANGED <<velocityEvents, since>> PROVE EventsStay
  BY <1>6 DEF EventsStay
<1>7. ASSUME NEW w \in Workers,
             \/ ReadRules(w) \/ \E r \in Rules : EvaluateRule(w, r)
             \/ \E n \in DOMAIN incidents, status \in IncidentStatuses :
                  PatchIncidentRead(w, n, status)
             \/ PatchIncidentSave(w) \/ StampIncident(w)
             \/ \E score \in RiskScores : ReadIpReputation(w, score)
             \/ SaveIpReputation(w)
             \/ Abandon(w) /\ UNCHANGED riskVars
      PROVE  UNCHANGED <<velocityEvents, since>>
  BY <1>7 DEF ReadRules, EvaluateRule, PatchIncidentRead, PatchIncidentSave, StampIncident,
     ReadIpReputation, SaveIpReputation, riskVars
<1>8. ASSUME \/ \E s \in signals, risk \in BOOLEAN, asCase \in BOOLEAN : Promote(s, risk, asCase)
             \/ \E n \in DOMAIN cases, status \in CaseStatuses \ {"open"} : ActOnCase(n, status)
             \/ \E n \in DOMAIN reviews, status \in ReviewStatuses \ {"pending"} :
                  DecideReview(n, status)
             \/ \E n \in DOMAIN riskEvents, status \in RiskStatuses \ {"open"} :
                  ActOnRiskEvent(n, status)
             \/ OpenIncident
             \/ \E u \in Users, o \in RiskOrgs \cup {NoOrg} : PlaceRestriction(u, o)
             \/ \E n \in DOMAIN restrictions : Lift(n) \/ RestrictionExpires(n)
      PROVE  UNCHANGED <<velocityEvents, since>>
  BY <1>8 DEF Promote, ActOnCase, DecideReview, ActOnRiskEvent, OpenIncident, PlaceRestriction,
     Lift, RestrictionExpires
<1>. QED BY <1>2, <1>3, <1>4, <1>5, <1>6, <1>7, <1>8 DEF RiskNext

LEMMA WindowStays ==
    ASSUME RiskInv, RiskInv', EventsStay, since \in 0 .. Len(velocityEvents)
    PROVE  since' \in 0 .. Len(velocityEvents')
<1>1. velocityEvents \in Seq(VelocityEvent) /\ velocityEvents' \in Seq(VelocityEvent)
  BY DEF RiskInv
<1>2. Len(velocityEvents) \in Nat /\ Len(velocityEvents') \in Nat
      /\ Len(velocityEvents) <= Len(velocityEvents')
  <2>1. /\ DOMAIN velocityEvents = 1 .. Len(velocityEvents) /\ Len(velocityEvents) \in Nat
        /\ DOMAIN velocityEvents' = 1 .. Len(velocityEvents') /\ Len(velocityEvents') \in Nat
    BY <1>1
  <2>. QED BY <2>1 DEF EventsStay
<1>. QED BY <1>2 DEF EventsStay

(* A step keeps the rest when it hands no worker what does not fit.        *)
LEMMA RiskRestKept ==
    ASSUME RiskInv, RiskRest, RiskInv', EventsStay, signals' \subseteq AbuseSignal, StaffTables',
           DOMAIN incidents \subseteq DOMAIN incidents',
           \A w \in Workers : request'[w] = request[w] \/ RiskHeld(request'[w], incidents')
    PROVE  RiskRest'
BY WindowStays DEF RiskRest, RiskHeld

LEMMA RiskRestStep == ASSUME RiskInv, RiskRest, RiskNext PROVE RiskRest'
<1>a. RiskInv' /\ EventsStay
  BY StepRiskInv, EventsStayStep
<1>b. /\ RequestsOK /\ signals \subseteq AbuseSignal /\ StaffTables
      /\ \A n \in DOMAIN incidents : incidents[n] \in SecurityIncident
  BY DEF RiskInv, RiskRest, StaffTables
<1>c. UNCHANGED <<riskEvents, cases, reviews, incidents, restrictions, ipRisk>> =>
        StaffTables' /\ DOMAIN incidents \subseteq DOMAIN incidents'
  BY <1>b DEF StaffTables
<1>d. ASSUME NEW w \in Workers, NEW held, Begin(w, held) \/ Proceed(w, held),
             RiskHeld(held, incidents')
      PROVE  \A v \in Workers : request'[v] = request[v] \/ RiskHeld(request'[v], incidents')
  BY <1>b, <1>d DEF RequestsOK, Begin, Proceed
<1>e. ASSUME NEW w \in Workers, End(w)
      PROVE  \A v \in Workers : request'[v] = request[v] \/ RiskHeld(request'[v], incidents')
  <2>1. RiskHeld(Idle, incidents')
    BY DEF RiskHeld, Idle
  <2>. QED BY <1>d, <1>e, <2>1 DEF End
<1>1. ASSUME NEW w \in Workers, NEW held, Begin(w, held) \/ Proceed(w, held),
             held.op \in EvalOps, signals' \subseteq AbuseSignal,
             UNCHANGED <<riskEvents, cases, reviews, incidents, restrictions, ipRisk>>
      PROVE  RiskRest'
  <2>1. RiskHeld(held, incidents')
    BY <1>1 DEF EvalOps, RiskHeld
  <2>. QED BY <1>1, <1>a, <1>c, <1>d, <2>1, RiskRestKept
<1>2. ASSUME NEW w \in Workers, NEW u \in Users, RecordVelocityEvent(w, u) PROVE RiskRest'
  <2>. DEFINE held == [op |-> "evaluate", event |-> Len(velocityEvents) + 1]
  <2>1. /\ Begin(w, held) /\ held.op \in EvalOps
        /\ UNCHANGED <<signals, riskEvents, cases, reviews, incidents, restrictions, ipRisk>>
    BY <1>2 DEF RecordVelocityEvent, EvalOps
  <2>. HIDE DEF held
  <2>. QED BY <1>1, <1>b, <2>1
<1>3. ASSUME NEW w \in Workers, ReadRules(w) PROVE RiskRest'
  <2>. DEFINE held == [op |-> "rules", event |-> request[w].event,
                       todo |-> {r \in Rules : enabled[r]}]
  <2>1. /\ Proceed(w, held) /\ held.op \in EvalOps
        /\ UNCHANGED <<signals, riskEvents, cases, reviews, incidents, restrictions, ipRisk>>
    BY <1>3 DEF ReadRules, EvalOps, riskVars
  <2>. HIDE DEF held
  <2>. QED BY <1>1, <1>b, <2>1
<1>4. ASSUME NEW w \in Workers, NEW r \in Rules, EvaluateRule(w, r) PROVE RiskRest'
  <2>. DEFINE held == [request[w] EXCEPT !.todo = @ \ {r}]
              new == [rule |-> r, event |-> request[w].event]
  <2>1. /\ Proceed(w, held) /\ held.op = request[w].op /\ request[w].op = "rules"
        /\ signals' \subseteq signals \cup {new}
        /\ UNCHANGED <<riskEvents, cases, reviews, incidents, restrictions, ipRisk>>
    BY <1>4 DEF EvaluateRule, Holds
  <2>2. request[w].event \in DOMAIN velocityEvents /\ velocityEvents \in Seq(VelocityEvent)
    BY <2>1 DEF RiskInv, EvalHeld, EvalOps
  <2>3. new \in AbuseSignal
    <3>1. request[w].event \in Nat \ {0}
      BY <2>2
    <3>. QED BY <3>1 DEF AbuseSignal
  <2>. HIDE DEF held, new
  <2>. QED BY <1>1, <1>b, <2>1, <2>3 DEF EvalOps
<1>5. ASSUME NEW w \in Workers, FinishEvaluation(w) \/ (Abandon(w) /\ UNCHANGED riskVars)
      PROVE  RiskRest'
  <2>1. End(w) /\ UNCHANGED <<signals, riskEvents, cases, reviews, incidents, restrictions, ipRisk>>
    BY <1>5 DEF FinishEvaluation, Abandon, riskVars
  <2>. QED BY <1>a, <1>b, <1>c, <1>e, <2>1, RiskRestKept
<1>6. ASSUME (\E r \in Rules : SwitchRule(r)) \/ WindowSlides PROVE RiskRest'
  <2>1. /\ UNCHANGED request
        /\ UNCHANGED <<signals, riskEvents, cases, reviews, incidents, restrictions, ipRisk>>
    BY <1>6 DEF SwitchRule, WindowSlides, Serve, requestVars
  <2>. QED BY <1>a, <1>b, <1>c, <2>1, RiskRestKept
<1>7. ASSUME \/ \E s \in signals, risk \in BOOLEAN, asCase \in BOOLEAN : Promote(s, risk, asCase)
             \/ \E n \in DOMAIN cases, status \in CaseStatuses \ {"open"} : ActOnCase(n, status)
             \/ \E n \in DOMAIN reviews, status \in ReviewStatuses \ {"pending"} :
                  DecideReview(n, status)
             \/ \E n \in DOMAIN riskEvents, status \in RiskStatuses \ {"open"} :
                  ActOnRiskEvent(n, status)
             \/ OpenIncident
             \/ \E u \in Users, o \in RiskOrgs \cup {NoOrg} : PlaceRestriction(u, o)
             \/ \E n \in DOMAIN restrictions : Lift(n) \/ RestrictionExpires(n)
      PROVE  RiskRest'
  <2>1. UNCHANGED request /\ UNCHANGED signals
    BY <1>7 DEF Promote, ActOnCase, DecideReview, ActOnRiskEvent, OpenIncident,
       PlaceRestriction, Lift, RestrictionExpires, Serve, requestVars
  <2>2. StaffTables' /\ DOMAIN incidents \subseteq DOMAIN incidents'
    BY <1>7, StaffTablesStep
  <2>. QED BY <1>a, <1>b, <2>1, <2>2, RiskRestKept
<1>8. ASSUME NEW w \in Workers, NEW n \in DOMAIN incidents, NEW status \in IncidentStatuses,
             PatchIncidentRead(w, n, status)
      PROVE  RiskRest'
  <2>. DEFINE held == [op |-> "incident", row |-> n,
                       new |-> [incidents[n] EXCEPT !.status = status]]
  <2>1. Begin(w, held) /\ UNCHANGED riskVars
    BY <1>8 DEF PatchIncidentRead
  <2>2. held.op = "incident" /\ held.row \in DOMAIN incidents /\ held.new \in SecurityIncident
    BY <1>b, StaffRows
  <2>. HIDE DEF held
  <2>3. RiskHeld(held, incidents')
    BY <2>1, <2>2 DEF RiskHeld, riskVars
  <2>. QED BY <1>a, <1>b, <1>c, <1>d, <2>1, <2>3, RiskRestKept DEF riskVars
<1>9. ASSUME NEW w \in Workers, PatchIncidentSave(w) PROVE RiskRest'
  <2>. DEFINE n == request[w].row
              new == request[w].new
              held == [request[w] EXCEPT !.op = "stamp"]
  <2>1. n \in DOMAIN incidents /\ new \in SecurityIncident
    BY <1>9 DEF PatchIncidentSave, Holds, RiskRest, RiskHeld
  <2>2. /\ incidents' = [incidents EXCEPT ![n] = new]
        /\ UNCHANGED <<signals, riskEvents, cases, reviews, restrictions, ipRisk>>
        /\ Proceed(w, held) \/ End(w)
    BY <1>9 DEF PatchIncidentSave
  <2>3. incidents' \in Seq(SecurityIncident) /\ DOMAIN incidents' = DOMAIN incidents
    BY <1>b, <2>1, <2>2, RowReplaced DEF StaffTables
  <2>4. StaffTables'
    BY <1>b, <2>2, <2>3 DEF StaffTables
  <2>5. held.row = n /\ held.new = new /\ (held.op = "stamp" \/ held.op = request[w].op)
        /\ request[w].op = "incident"
    BY <1>9 DEF PatchIncidentSave, Holds
  <2>. HIDE DEF held, n, new
  <2>6. RiskHeld(held, incidents')
    BY <2>1, <2>3, <2>5 DEF RiskHeld
  <2>. QED BY <1>a, <1>b, <1>d, <1>e, <2>2, <2>3, <2>4, <2>6, RiskRestKept
<1>10. ASSUME NEW w \in Workers, StampIncident(w) PROVE RiskRest'
  <2>. DEFINE n == request[w].row
              to == request[w].new.status
              row == [incidents[n] EXCEPT !.stamped = @ \cup {to}]
  <2>1. n \in DOMAIN incidents /\ to \in IncidentStatuses
    BY <1>10 DEF StampIncident, Holds, RiskRest, RiskHeld, SecurityIncident
  <2>2. row \in SecurityIncident
    BY <1>b, <2>1, StaffRows
  <2>3. /\ incidents' = [incidents EXCEPT ![n] = row] /\ End(w)
        /\ UNCHANGED <<signals, riskEvents, cases, reviews, restrictions, ipRisk>>
    BY <1>10 DEF StampIncident
  <2>. HIDE DEF n, row
  <2>4. incidents' \in Seq(SecurityIncident) /\ DOMAIN incidents' = DOMAIN incidents
    BY <1>b, <2>1, <2>2, <2>3, RowReplaced DEF StaffTables
  <2>5. StaffTables'
    BY <1>b, <2>3, <2>4 DEF StaffTables
  <2>. QED BY <1>a, <1>b, <1>e, <2>3, <2>4, <2>5, RiskRestKept
<1>11. ASSUME NEW w \in Workers, NEW score \in RiskScores, ReadIpReputation(w, score)
       PROVE  RiskRest'
  <2>. DEFINE held == [op |-> "ip", score |-> Max({ipRisk, score})]
  <2>1. Begin(w, held) /\ UNCHANGED riskVars
    BY <1>11 DEF ReadIpReputation
  <2>2. ipRisk \in IPReputation /\ score \in IPReputation /\ IPReputation \subseteq Int
    BY <1>b, ScoresAreNumbers DEF StaffTables, IPReputation
  <2>3. held.op = "ip" /\ held.score \in IPReputation
    <3>1. ipRisk \in Int /\ score \in Int
      BY <2>2
    <3>2. Max({ipRisk, score}) \in {ipRisk, score}
      BY <3>1, MaxOfTwo
    <3>. QED BY <2>2, <3>2
  <2>. HIDE DEF held
  <2>4. RiskHeld(held, incidents')
    BY <2>3 DEF RiskHeld
  <2>. QED BY <1>a, <1>b, <1>c, <1>d, <2>1, <2>4, RiskRestKept DEF riskVars
<1>12. ASSUME NEW w \in Workers, SaveIpReputation(w) PROVE RiskRest'
  <2>1. ipRisk' \in IPReputation
    BY <1>12 DEF SaveIpReputation, Holds, RiskRest, RiskHeld
  <2>2. End(w) /\ UNCHANGED <<signals, riskEvents, cases, reviews, incidents, restrictions>>
    BY <1>12 DEF SaveIpReputation
  <2>3. StaffTables' /\ DOMAIN incidents \subseteq DOMAIN incidents'
    BY <1>b, <2>1, <2>2 DEF StaffTables
  <2>. QED BY <1>a, <1>b, <1>e, <2>2, <2>3, RiskRestKept
<1>. QED BY <1>2, <1>3, <1>4, <1>5, <1>6, <1>7, <1>8, <1>9, <1>10, <1>11, <1>12 DEF RiskNext

-----------------------------------------------------------------------------
(* The rows of the compliance app beside its approvals, and what a worker  *)
(* holds of them.                                                          *)
ComplianceHeld(held, rows) ==
    /\ held.op = "document" => held.new \in PolicyDocument
    /\ held.op = "accept" => held.organization \in UserPolicyAcceptance
    /\ held.op = "lock" => held.row \in DOMAIN rows /\ held.by \in Staff
    /\ held.op = "pack" => held.row \in DOMAIN rows /\ held.new \in EvidencePack

ComplianceRows ==
    /\ document \in PolicyDocument /\ acceptances \in Seq(UserPolicyAcceptance)
    /\ auditExports \in Seq(AuditExport) /\ packs \in Seq(EvidencePack)

ComplianceRest == ComplianceRows /\ \A w \in Workers : ComplianceHeld(request[w], packs)

LEMMA InitComplianceRest == RequestsInit /\ ComplianceInit => ComplianceRest
<1>. SUFFICES ASSUME RequestsInit, ComplianceInit PROVE ComplianceRest
  OBVIOUS
<1>1. \A w \in Workers : request[w].op = "idle"
  BY DEF RequestsInit, Idle
<1>2. ComplianceRows
  BY DEF ComplianceInit, ComplianceRows, PolicyDocument
<1>. QED BY <1>1, <1>2 DEF ComplianceRest, ComplianceHeld

LEMMA ComplianceRestStep ==
    ASSUME ComplianceInv, ComplianceRest, ComplianceNext PROVE ComplianceRest'
<1>b. /\ RequestsOK /\ ComplianceRows /\ \A n \in DOMAIN packs : packs[n] \in EvidencePack
      /\ \A w \in Workers : ComplianceHeld(request[w], packs)
  BY DEF ComplianceInv, RequestsOK, ComplianceRest, ComplianceRows
<1>c. ASSUME NEW w \in Workers, NEW held, Begin(w, held) \/ Proceed(w, held),
             ComplianceHeld(held, packs'), ComplianceRows', DOMAIN packs' = DOMAIN packs
      PROVE  ComplianceRest'
  BY <1>b, <1>c DEF RequestsOK, Begin, Proceed, ComplianceRest, ComplianceHeld
<1>d. ASSUME NEW w \in Workers, End(w), ComplianceRows', DOMAIN packs' = DOMAIN packs
      PROVE  ComplianceRest'
  <2>1. ComplianceHeld(Idle, packs')
    BY DEF ComplianceHeld, Idle
  <2>. QED BY <1>c, <1>d, <2>1 DEF End
<1>e. UNCHANGED complianceVars => ComplianceRows' /\ packs' = packs
  BY <1>b DEF complianceVars, ComplianceRows
<1>1. ASSUME Serve, ComplianceRows', DOMAIN packs \subseteq DOMAIN packs' PROVE ComplianceRest'
  BY <1>1, <1>b DEF Serve, ComplianceRest, ComplianceHeld
<1>2. CASE PublishDocument
  <2>1. [document EXCEPT !.active = TRUE, !.published = TRUE] \in PolicyDocument
    BY <1>b DEF ComplianceRows, PolicyDocument
  <2>. QED BY <1>1, <1>2, <1>b, <2>1 DEF PublishDocument, ComplianceRows
<1>3. CASE RequestAuditExport
  <2>1. Append(auditExports, "requested") \in Seq(AuditExport)
    BY <1>b, RowInserted DEF ComplianceRows, AuditExport
  <2>. QED BY <1>1, <1>3, <1>b, <2>1 DEF RequestAuditExport, ComplianceRows
<1>4. CASE CreatePack
  <2>1. [status |-> "draft", lockedBy |-> Nobody] \in EvidencePack
    BY DEF EvidencePack
  <2>. HIDE DEF Nobody
  <2>2. packs' \in Seq(EvidencePack) /\ DOMAIN packs \subseteq DOMAIN packs'
    BY <1>4, <1>b, <2>1, RowInserted DEF CreatePack, ComplianceRows
  <2>. QED BY <1>1, <1>4, <1>b, <2>2 DEF CreatePack, ComplianceRows
<1>5. ASSUME NEW s \in Staff, RequestApproval(s) PROVE ComplianceRest'
  BY <1>1, <1>5, <1>b DEF RequestApproval, ComplianceRows
<1>6. ASSUME NEW n \in DOMAIN auditExports, MarkReady(n) PROVE ComplianceRest'
  <2>1. [auditExports EXCEPT ![n] = "ready"] \in Seq(AuditExport)
    BY <1>b, RowReplaced DEF ComplianceRows, AuditExport
  <2>. QED BY <1>1, <1>6, <1>b, <2>1 DEF MarkReady, ComplianceRows
<1>7. ASSUME NEW w \in Workers, NEW retired \in BOOLEAN, PatchDocumentRead(w, retired)
      PROVE  ComplianceRest'
  <2>. DEFINE held == [op |-> "document", new |-> [document EXCEPT !.retired = retired]]
  <2>1. Begin(w, held) /\ UNCHANGED complianceVars
    BY <1>7 DEF PatchDocumentRead
  <2>2. ComplianceHeld(held, packs')
    BY <1>b DEF ComplianceHeld, ComplianceRows, PolicyDocument
  <2>. HIDE DEF held
  <2>. QED BY <1>c, <1>e, <2>1, <2>2
<1>8. ASSUME NEW w \in Workers, NEW org \in UserPolicyAcceptance, AcceptPolicyRead(w, org)
      PROVE  ComplianceRest'
  <2>. DEFINE held == [op |-> "accept", organization |-> org]
  <2>1. Begin(w, held) /\ UNCHANGED complianceVars
    BY <1>8 DEF AcceptPolicyRead
  <2>2. ComplianceHeld(held, packs')
    BY DEF ComplianceHeld
  <2>. HIDE DEF held
  <2>. QED BY <1>c, <1>e, <2>1, <2>2
<1>9. ASSUME NEW w \in Workers, NEW n \in DOMAIN approvals, NEW s \in Staff, NEW v,
             OpenReview(w, n, s, v)
      PROVE  ComplianceRest'
  <2>. DEFINE held == [op |-> "review", row |-> n, by |-> s, verdict |-> v]
  <2>1. Begin(w, held) /\ UNCHANGED complianceVars
    BY <1>9 DEF OpenReview
  <2>2. ComplianceHeld(held, packs')
    BY DEF ComplianceHeld
  <2>. HIDE DEF held
  <2>. QED BY <1>c, <1>e, <2>1, <2>2
<1>10. ASSUME NEW w \in Workers, NEW n \in DOMAIN packs, NEW s \in Staff, LockPackRead(w, n, s)
       PROVE  ComplianceRest'
  <2>. DEFINE held == [op |-> "lock", row |-> n, by |-> s, status |-> packs[n].status]
  <2>1. Begin(w, held) /\ UNCHANGED complianceVars
    BY <1>10 DEF LockPackRead
  <2>2. ComplianceHeld(held, packs)
    BY DEF ComplianceHeld
  <2>. HIDE DEF held
  <2>. QED BY <1>c, <1>e, <2>1, <2>2
<1>11. ASSUME NEW w \in Workers, NEW n \in DOMAIN packs, PatchPackRead(w, n)
       PROVE  ComplianceRest'
  <2>. DEFINE held == [op |-> "pack", row |-> n, new |-> packs[n]]
  <2>1. Begin(w, held) /\ UNCHANGED complianceVars
    BY <1>11 DEF PatchPackRead
  <2>2. ComplianceHeld(held, packs)
    BY <1>b DEF ComplianceHeld
  <2>. HIDE DEF held
  <2>. QED BY <1>c, <1>e, <2>1, <2>2
<1>12. ASSUME NEW w \in Workers, PatchDocumentSave(w) PROVE ComplianceRest'
  <2>1. request[w].new \in PolicyDocument
    BY <1>12, <1>b DEF PatchDocumentSave, Holds, ComplianceHeld
  <2>. QED BY <1>d, <1>12, <1>b, <2>1 DEF PatchDocumentSave, ComplianceRows
<1>13. ASSUME NEW w \in Workers, AcceptPolicyInsert(w) PROVE ComplianceRest'
  <2>. DEFINE org == request[w].organization
  <2>1. org \in UserPolicyAcceptance
    BY <1>13, <1>b DEF AcceptPolicyInsert, Holds, ComplianceHeld
  <2>2. acceptances' = acceptances \/ acceptances' = Append(acceptances, org)
    BY <1>13 DEF AcceptPolicyInsert
  <2>. HIDE DEF org
  <2>3. acceptances \in Seq(UserPolicyAcceptance)
    BY <1>b DEF ComplianceRows
  <2>4. Append(acceptances, org) \in Seq(UserPolicyAcceptance)
    BY <2>1, <2>3, RowInserted
  <2>5. acceptances' \in Seq(UserPolicyAcceptance)
    BY <2>2, <2>3, <2>4
  <2>6. End(w) /\ UNCHANGED <<document, auditExports, packs>>
    BY <1>13 DEF AcceptPolicyInsert
  <2>7. ComplianceRows'
    BY <1>b, <2>5, <2>6 DEF ComplianceRows
  <2>. QED BY <1>d, <2>6, <2>7
<1>14. ASSUME NEW w \in Workers, SaveApproval(w) PROVE ComplianceRest'
  BY <1>d, <1>14, <1>b DEF SaveApproval, ComplianceRows
<1>15. ASSUME NEW w \in Workers, NEW n \in DOMAIN packs, NEW row \in EvidencePack, End(w),
              packs' = packs \/ packs' = [packs EXCEPT ![n] = row],
              UNCHANGED <<document, acceptances, auditExports>>
       PROVE  ComplianceRest'
  <2>1. packs \in Seq(EvidencePack)
    BY <1>b DEF ComplianceRows
  <2>2. /\ [packs EXCEPT ![n] = row] \in Seq(EvidencePack)
        /\ DOMAIN [packs EXCEPT ![n] = row] = DOMAIN packs
    BY <2>1, RowReplaced
  <2>3. packs' \in Seq(EvidencePack) /\ DOMAIN packs' = DOMAIN packs
    BY <1>15, <2>1, <2>2
  <2>4. ComplianceRows'
    BY <1>15, <1>b, <2>3 DEF ComplianceRows
  <2>. QED BY <1>d, <1>15, <2>3, <2>4
<1>16. ASSUME NEW w \in Workers, LockPackSave(w) PROVE ComplianceRest'
  <2>1. request[w].row \in DOMAIN packs /\ request[w].by \in Staff
    BY <1>16, <1>b DEF LockPackSave, Holds, ComplianceHeld
  <2>2. [status |-> "locked", lockedBy |-> request[w].by] \in EvidencePack
    BY <2>1 DEF EvidencePack
  <2>3. /\ \/ packs' = packs
           \/ packs' = [packs EXCEPT ![request[w].row] =
                           [status |-> "locked", lockedBy |-> request[w].by]]
        /\ End(w) /\ UNCHANGED <<document, acceptances, auditExports>>
    BY <1>16 DEF LockPackSave
  <2>. QED BY <1>15, <2>1, <2>2, <2>3
<1>17. ASSUME NEW w \in Workers, PatchPackSave(w) PROVE ComplianceRest'
  <2>1. request[w].row \in DOMAIN packs /\ request[w].new \in EvidencePack
    BY <1>17, <1>b DEF PatchPackSave, Holds, ComplianceHeld
  <2>. QED BY <1>15, <1>17, <2>1 DEF PatchPackSave
<1>18. ASSUME NEW w \in Workers, Abandon(w) /\ UNCHANGED complianceVars PROVE ComplianceRest'
  BY <1>d, <1>e, <1>18 DEF Abandon
<1>. QED BY <1>2, <1>3, <1>4, <1>5, <1>6, <1>7, <1>8, <1>9, <1>10, <1>11, <1>12, <1>13, <1>14,
            <1>16, <1>17, <1>18 DEF ComplianceNext

-----------------------------------------------------------------------------
(* The rows of the provider beside its keys, and what a PATCH holds.       *)
OidcHeld(held, rows) ==
    /\ held.op = "saveScope" => held.id \in OAuthScopes /\ held.row \in ScopeRow
    /\ held.op = "saveProfile" => held.row \in Screens
    /\ held.op = "saveConsent" => held.id \in DOMAIN rows /\ held.row \in Grant

OidcRows ==
    /\ scopeRows \in [OAuthScopes -> ScopeRow] /\ screen \in Screens \cup {"unprofiled"}
    /\ consents \in Seq(Grant)

OidcRest ==
    /\ OidcRows /\ excused \in [Workers -> SUBSET OAuthScopes]
    /\ \A w \in Workers : OidcHeld(request[w], consents)

LEMMA InitOidcRest == RequestsInit /\ OidcInit => OidcRest
<1>. SUFFICES ASSUME RequestsInit, OidcInit PROVE OidcRest
  OBVIOUS
<1>1. \A w \in Workers : request[w].op = "idle"
  BY DEF RequestsInit, Idle
<1>2. OidcRows
  BY DEF OidcInit, OidcRows, ScopeRow
<1>. QED BY <1>1, <1>2 DEF OidcInit, OidcRest, OidcHeld

LEMMA WatchedScopes ==
    ASSUME excused \in [Workers -> SUBSET OAuthScopes], Watch
    PROVE  excused' \in [Workers -> SUBSET OAuthScopes]
<1>. DEFINE extra == {s \in OAuthScopes : Excuse(s)'}
<1>1. excused' = [w \in Workers |->
                     IF ~Evaluates(request'[w]) THEN {}
                     ELSE (IF Evaluates(request[w]) THEN excused[w] ELSE {}) \cup extra]
  BY DEF Watch
<1>2. extra \subseteq OAuthScopes
  OBVIOUS
<1>. HIDE DEF extra
<1>. QED BY <1>1, <1>2

LEMMA ProviderRows ==
    /\ \A row \in ScopeRow, to \in BOOLEAN :
         /\ [row EXCEPT !.there = to] \in ScopeRow
         /\ [row EXCEPT !["active"] = to] \in ScopeRow
         /\ [row EXCEPT !["asks"] = to] \in ScopeRow
    /\ \A row \in Grant :
         /\ \A status \in {"active", "revoked", Gone} : [row EXCEPT !.status = status] \in Grant
         /\ [row EXCEPT !.expired = TRUE] \in Grant
         /\ \A scopes \in SUBSET OAuthScopes : [row EXCEPT !.scopes = scopes] \in Grant
<1>1. \A row \in ScopeRow, to \in BOOLEAN :
         /\ [row EXCEPT !.there = to] \in ScopeRow
         /\ [row EXCEPT !["active"] = to] \in ScopeRow
         /\ [row EXCEPT !["asks"] = to] \in ScopeRow
  BY DEF ScopeRow
<1>2. \A row \in Grant :
         /\ \A status \in {"active", "revoked", Gone} : [row EXCEPT !.status = status] \in Grant
         /\ [row EXCEPT !.expired = TRUE] \in Grant
         /\ \A scopes \in SUBSET OAuthScopes : [row EXCEPT !.scopes = scopes] \in Grant
  BY DEF Grant
<1>. QED BY <1>1, <1>2

LEMMA OidcRestStep == ASSUME OidcInv, OidcRest, OidcNext PROVE OidcRest'
<1>a. excused' \in [Workers -> SUBSET OAuthScopes]
  BY WatchedScopes DEF OidcRest, OidcNext
<1>b. /\ RequestsOK /\ OidcRows /\ scopeRows \in [OAuthScopes -> ScopeRow]
      /\ consents \in Seq(Grant) /\ \A n \in DOMAIN consents : consents[n] \in Grant
      /\ \A w \in Workers : OidcHeld(request[w], consents)
  BY DEF OidcInv, RequestsOK, OidcRest, OidcRows
<1>c. ASSUME NEW w \in Workers, NEW held, Begin(w, held) \/ Proceed(w, held),
             OidcHeld(held, consents'), OidcRows', DOMAIN consents \subseteq DOMAIN consents'
      PROVE  OidcRest'
  BY <1>a, <1>b, <1>c DEF RequestsOK, Begin, Proceed, OidcRest, OidcHeld
<1>d. ASSUME NEW w \in Workers, End(w), OidcRows', DOMAIN consents \subseteq DOMAIN consents'
      PROVE  OidcRest'
  <2>1. OidcHeld(Idle, consents')
    BY DEF OidcHeld, Idle
  <2>. QED BY <1>c, <1>d, <2>1 DEF End
<1>e. UNCHANGED <<scopeRows, screen, consents>> => OidcRows' /\ consents' = consents
  BY <1>b DEF OidcRows
<1>f. ASSUME Serve \/ UNCHANGED requestVars, OidcRows', DOMAIN consents \subseteq DOMAIN consents'
      PROVE  OidcRest'
  <2>1. UNCHANGED request
    BY <1>f DEF Serve, requestVars
  <2>. QED BY <1>a, <1>b, <1>f, <2>1 DEF OidcRest, OidcHeld
<1>1. ASSUME \/ CreateKey
             \/ \E n \in DOMAIN signingKeys : DeleteKey(n) \/ \E to \in LifeCycle : MoveKey(n, to)
      PROVE  OidcRest'
  <2>1. Serve /\ UNCHANGED <<scopeRows, screen, consents>>
    BY <1>1 DEF CreateKey, DeleteKey, MoveKey
  <2>. QED BY <1>e, <1>f, <2>1
<1>2. ASSUME NEW w \in Workers, NEW held, Begin(w, held) \/ Proceed(w, held),
             held.op \notin {"saveScope", "saveProfile", "saveConsent"},
             UNCHANGED <<scopeRows, screen, consents>>
      PROVE  OidcRest'
  <2>1. OidcHeld(held, consents')
    BY <1>2 DEF OidcHeld
  <2>. QED BY <1>2, <1>c, <1>e, <2>1
<1>3. ASSUME NEW w \in Workers, NEW n \in DOMAIN signingKeys, PatchKey(w, n) PROVE OidcRest'
  <2>1. Edit("saveKey", n, signingKeys[n]).op = "saveKey"
    BY DEF Edit
  <2>. QED BY <1>2, <1>3, <2>1 DEF PatchKey
<1>4. ASSUME NEW w \in Workers, NEW scopes, Evaluate(w, scopes) PROVE OidcRest'
  <2>. DEFINE held == [op |-> "readScopes", asked |-> scopes, silent |-> screen = "not required"]
  <2>1. /\ Begin(w, held) /\ held.op \notin {"saveScope", "saveProfile", "saveConsent"}
        /\ UNCHANGED <<scopeRows, screen, consents>>
    BY <1>4 DEF Evaluate
  <2>. HIDE DEF held
  <2>. QED BY <1>2, <2>1
<1>5. ASSUME NEW w \in Workers, ReadScopes(w) PROVE OidcRest'
  <2>. DEFINE e == request[w]
              held == [op |-> "readConsents", asked |-> e.asked,
                       required |-> IF e.silent THEN {} ELSE {s \in e.asked : AsksConsent(s)}]
  <2>1. /\ Proceed(w, held) /\ held.op \notin {"saveScope", "saveProfile", "saveConsent"}
        /\ UNCHANGED <<scopeRows, screen, consents>>
    BY <1>5 DEF ReadScopes
  <2>. HIDE DEF held
  <2>. QED BY <1>2, <2>1
<1>6. ASSUME NEW w \in Workers, ReadConsents(w) PROVE OidcRest'
  <2>. DEFINE held == [op |-> "answer", asked |-> request[w].asked,
                       missing |-> request[w].required \ ConsentedScopes]
  <2>1. /\ Proceed(w, held) /\ held.op \notin {"saveScope", "saveProfile", "saveConsent"}
        /\ UNCHANGED <<scopeRows, screen, consents>>
    BY <1>6 DEF ReadConsents
  <2>. HIDE DEF held
  <2>. QED BY <1>2, <2>1
<1>7. ASSUME NEW w \in Workers,
             \/ SaveKey(w) \/ AnswerEvaluation(w)
             \/ Abandon(w) /\ UNCHANGED <<signingKeys, scopeRows, screen, consents, keyCalls>>
      PROVE  OidcRest'
  <2>1. End(w) /\ UNCHANGED <<scopeRows, screen, consents>>
    BY <1>7 DEF SaveKey, AnswerEvaluation, Abandon
  <2>. QED BY <1>d, <1>e, <2>1
<1>8. ASSUME NEW s \in OAuthScopes, NEW row \in ScopeRow,
             scopeRows' = [scopeRows EXCEPT ![s] = row], UNCHANGED <<screen, consents>>
      PROVE  OidcRows' /\ DOMAIN consents \subseteq DOMAIN consents'
  BY <1>8, <1>b DEF OidcRows
<1>9. ASSUME NEW s \in OAuthScopes, DeleteScope(s) \/ \E row \in ScopeRow : DefineScope(s, row)
      PROVE  OidcRest'
  <2>1. PICK row \in ScopeRow : scopeRows' = [scopeRows EXCEPT ![s] = row]
    <3>1. CASE DeleteScope(s)
      <4>1. [scopeRows[s] EXCEPT !.there = FALSE] \in ScopeRow
        BY <1>b, ProviderRows
      <4>2. scopeRows' = [scopeRows EXCEPT ![s] = [scopeRows[s] EXCEPT !.there = FALSE]]
        BY <1>b, <3>1 DEF DeleteScope
      <4>. QED BY <4>1, <4>2
    <3>. QED BY <1>9, <3>1 DEF DefineScope
  <2>2. Serve /\ UNCHANGED <<screen, consents>>
    BY <1>9 DEF DeleteScope, DefineScope
  <2>. QED BY <1>8, <1>f, <2>1, <2>2
<1>10. ASSUME NEW w \in Workers, NEW s \in OAuthScopes, NEW field \in {"active", "asks"},
              NEW to \in BOOLEAN, PatchScope(w, s, field, to)
       PROVE  OidcRest'
  <2>. DEFINE row == [scopeRows[s] EXCEPT ![field] = to]
  <2>1. row \in ScopeRow
    <3>1. field = "active" \/ field = "asks"
      OBVIOUS
    <3>2. scopeRows[s] \in ScopeRow
      BY <1>b
    <3>. QED BY <3>1, <3>2, ProviderRows
  <2>2. Begin(w, Edit("saveScope", s, row)) /\ UNCHANGED <<scopeRows, screen, consents>>
    BY <1>10 DEF PatchScope
  <2>. HIDE DEF row
  <2>3. OidcHeld(Edit("saveScope", s, row), consents')
    BY <2>1 DEF Edit, OidcHeld
  <2>. QED BY <1>c, <1>e, <2>2, <2>3
<1>11. ASSUME NEW w \in Workers, SaveScope(w) PROVE OidcRest'
  <2>1. request[w].id \in OAuthScopes /\ request[w].row \in ScopeRow
    BY <1>11, <1>b DEF SaveScope, Holds, OidcHeld
  <2>2. /\ scopeRows' = [scopeRows EXCEPT ![request[w].id] = request[w].row]
        /\ End(w) /\ UNCHANGED <<screen, consents>>
    BY <1>11 DEF SaveScope
  <2>. QED BY <1>8, <1>d, <2>1, <2>2
<1>12. ASSUME DeleteProfile \/ \E to \in Screens : CreateProfile(to) PROVE OidcRest'
  <2>1. /\ Serve /\ screen' \in Screens \cup {"unprofiled"} /\ UNCHANGED <<scopeRows, consents>>
    BY <1>12 DEF DeleteProfile, CreateProfile
  <2>. QED BY <1>b, <1>f, <2>1 DEF OidcRows
<1>13. ASSUME NEW w \in Workers, NEW to \in Screens, PatchProfile(w, to) PROVE OidcRest'
  <2>1. OidcHeld(Edit("saveProfile", "client", to), consents')
    BY DEF Edit, OidcHeld
  <2>. QED BY <1>c, <1>e, <1>13, <2>1 DEF PatchProfile
<1>14. ASSUME NEW w \in Workers, SaveProfile(w) PROVE OidcRest'
  <2>1. screen' \in Screens \cup {"unprofiled"}
    BY <1>14, <1>b DEF SaveProfile, Holds, OidcHeld
  <2>. QED BY <1>b, <1>d, <1>14, <2>1 DEF SaveProfile, OidcRows
<1>15. ASSUME consents' \in Seq(Grant), UNCHANGED <<scopeRows, screen>> PROVE OidcRows'
  BY <1>15, <1>b DEF OidcRows
<1>16. ASSUME NEW scopes \in SUBSET OAuthScopes, GiveConsent(scopes) PROVE OidcRest'
  <2>. DEFINE row == [scopes |-> scopes, status |-> "active", expired |-> FALSE]
  <2>1. row \in Grant
    BY DEF Grant
  <2>2. consents' = Append(consents, row) /\ Serve /\ UNCHANGED <<scopeRows, screen>>
    BY <1>16 DEF GiveConsent
  <2>. HIDE DEF row
  <2>3. consents' \in Seq(Grant) /\ DOMAIN consents \subseteq DOMAIN consents'
    BY <1>b, <2>1, <2>2, RowInserted
  <2>. QED BY <1>15, <1>f, <2>2, <2>3
<1>17. ASSUME NEW n \in DOMAIN consents, NEW row \in Grant,
              consents' = [consents EXCEPT ![n] = row], UNCHANGED <<scopeRows, screen>>
       PROVE  OidcRows' /\ DOMAIN consents \subseteq DOMAIN consents'
  <2>1. consents' \in Seq(Grant) /\ DOMAIN consents' = DOMAIN consents
    BY <1>b, <1>17, RowReplaced
  <2>. QED BY <1>15, <1>17, <2>1
<1>18. ASSUME NEW n \in DOMAIN consents, RevokeConsent(n) \/ DeleteConsent(n) \/ ConsentExpires(n)
       PROVE  OidcRest'
  <2>1. PICK row \in Grant : consents' = [consents EXCEPT ![n] = row]
    <3>1. /\ [consents[n] EXCEPT !.status = "revoked"] \in Grant
          /\ [consents[n] EXCEPT !.status = Gone] \in Grant
          /\ [consents[n] EXCEPT !.expired = TRUE] \in Grant
      BY <1>b, ProviderRows
    <3>2. \/ consents' = [consents EXCEPT ![n] = [consents[n] EXCEPT !.status = "revoked"]]
          \/ consents' = [consents EXCEPT ![n] = [consents[n] EXCEPT !.status = Gone]]
          \/ consents' = [consents EXCEPT ![n] = [consents[n] EXCEPT !.expired = TRUE]]
      BY <1>18, <1>b DEF RevokeConsent, DeleteConsent, ConsentExpires
    <3>. QED BY <3>1, <3>2
  <2>2. (Serve \/ UNCHANGED requestVars) /\ UNCHANGED <<scopeRows, screen>>
    BY <1>18 DEF RevokeConsent, DeleteConsent, ConsentExpires
  <2>. QED BY <1>17, <1>f, <2>1, <2>2
<1>19. ASSUME NEW w \in Workers, NEW n \in DOMAIN consents, NEW scopes \in SUBSET OAuthScopes,
              PatchConsent(w, n, scopes)
       PROVE  OidcRest'
  <2>. DEFINE row == [consents[n] EXCEPT !.scopes = scopes]
  <2>1. row \in Grant
    BY <1>b, ProviderRows
  <2>2. Begin(w, Edit("saveConsent", n, row)) /\ UNCHANGED <<scopeRows, screen, consents>>
    BY <1>19 DEF PatchConsent
  <2>. HIDE DEF row
  <2>3. OidcHeld(Edit("saveConsent", n, row), consents')
    BY <2>1, <2>2 DEF Edit, OidcHeld
  <2>. QED BY <1>c, <1>e, <2>2, <2>3
<1>20. ASSUME NEW w \in Workers, SaveConsent(w) PROVE OidcRest'
  <2>1. request[w].id \in DOMAIN consents /\ request[w].row \in Grant
    BY <1>20, <1>b DEF SaveConsent, Holds, OidcHeld
  <2>2. /\ consents' = [consents EXCEPT ![request[w].id] = request[w].row]
        /\ End(w) /\ UNCHANGED <<scopeRows, screen>>
    BY <1>20 DEF SaveConsent
  <2>. QED BY <1>17, <1>d, <2>1, <2>2
<1>. QED BY <1>1, <1>3, <1>4, <1>5, <1>6, <1>7, <1>9, <1>10, <1>11, <1>12, <1>13, <1>14, <1>16,
            <1>18, <1>19, <1>20 DEF OidcNext, OidcStep

(***************************************************************************)
(* The apps together, as the run serves them: a behaviour serves the       *)
(* requests of one app, whose invariant holds, and the tables of the       *)
(* others stand still with what that invariant promises of them.           *)
(***************************************************************************)
Apps == {"access", "notices", "risk", "governance", "compliance", "scim", "identity", "oidc"}

Tables ==
    /\ AccessTypes /\ UsageStaysNearLimit
    /\ NoticeTypes /\ SuppressionIsRespected
    /\ RiskTypes /\ ThresholdIsSignalled
    /\ GovernanceTypes /\ OutcomeIsOnRecord
    /\ ComplianceTypes /\ ApprovedByAnother
    /\ ScimTypes /\ CreationsAreTold
    /\ IdentityTypes /\ OidcTypes

(* The tables of the apps a behaviour does not serve.                      *)
Standing ==
    /\ part # "access" => AccessTypes /\ UsageStaysNearLimit
    /\ part # "notices" => NoticeTypes /\ SuppressionIsRespected
    /\ part # "risk" => RiskTypes /\ ThresholdIsSignalled
    /\ part # "governance" => GovernanceTypes /\ OutcomeIsOnRecord
    /\ part # "compliance" => ComplianceTypes /\ ApprovedByAnother
    /\ part # "scim" => ScimTypes /\ CreationsAreTold
    /\ part # "identity" => IdentityTypes
    /\ part # "oidc" => OidcTypes

(* Only the provider's workers hold an answer, only the identity app's an  *)
(* entry to write.                                                         *)
OwnOps ==
    \A w \in Workers : /\ part # "oidc" => request[w].op # "answer"
                       /\ part # "identity" => request[w].op # "tell"

PlatformInv ==
    /\ part \in Apps /\ spent \in 0 .. MaxRequests /\ RequestsOK /\ OwnOps
    /\ part = "access" => AccessInv
    /\ part = "notices" => NoticeInv
    /\ part = "risk" => RiskInv /\ RiskRest
    /\ part = "governance" => GovInv
    /\ part = "compliance" => ComplianceInv /\ ComplianceRest
    /\ part = "scim" => ScimInv
    /\ part = "identity" => IdentityInv
    /\ part = "oidc" => OidcInv /\ OidcRest
    /\ Standing /\ LedgerFollowsChanges

LEMMA InvariantsGiveTables ==
    /\ AccessInv => AccessTypes /\ UsageStaysNearLimit
    /\ NoticeInv => NoticeTypes /\ SuppressionIsRespected
    /\ RiskInv /\ RiskRest => RiskTypes /\ ThresholdIsSignalled
    /\ GovInv => GovernanceTypes /\ OutcomeIsOnRecord
    /\ ComplianceInv /\ ComplianceRest => ComplianceTypes /\ ApprovedByAnother
    /\ ScimInv => ScimTypes /\ CreationsAreTold
    /\ IdentityInv => IdentityTypes
    /\ OidcInv /\ OidcRest => OidcTypes
<1>1. AccessInv => AccessTypes /\ UsageStaysNearLimit
  BY DEF AccessInv, NearLimit, UsageStaysNearLimit, LimitsSeen, Slack
<1>5. ComplianceInv /\ ComplianceRest => ComplianceTypes /\ ApprovedByAnother
  BY DEF ComplianceInv, ComplianceRest, ComplianceRows, ComplianceTypes
<1>8. OidcInv /\ OidcRest => OidcTypes
  BY DEF OidcInv, KeysOK, OidcRest, OidcRows, OidcTypes
<1>2. NoticeInv => NoticeTypes /\ SuppressionIsRespected
  BY DEF NoticeInv, SuppressionIsRespected, LateOK
<1>3. RiskInv /\ RiskRest => RiskTypes /\ ThresholdIsSignalled
  <2>1. RiskInv => ThresholdIsSignalled
    BY DEF RiskInv, ThresholdIsSignalled, EventOK
  <2>2. RiskInv /\ RiskRest => RiskTypes
    BY DEF RiskInv, RiskRest, StaffTables, RiskTypes, VelocityRule
  <2>. QED BY <2>1, <2>2
<1>4. GovInv => GovernanceTypes /\ OutcomeIsOnRecord
  BY DEF GovInv, OutcomeIsOnRecord, JobOK, Recorded, RecordsOf
<1>6. ScimInv => ScimTypes /\ CreationsAreTold
  BY InsertedIsTold DEF ScimInv
<1>. QED BY <1>1, <1>2, <1>3, <1>4, <1>5, <1>6, <1>8, IdentityTyped

LEMMA EveryTable == PlatformInv => Tables
BY InvariantsGiveTables DEF PlatformInv, Standing, Tables

LEMMA InitPlatformInv == ASSUME Workers # {}, Init PROVE PlatformInv
<1>1. /\ part \in Apps /\ spent = 0
      /\ RequestsInit /\ AccessInit /\ NoticeInit /\ RiskInit /\ GovernanceInit
      /\ ComplianceInit /\ ScimInit /\ IdentityInit /\ OidcInit
  BY DEF Init, RequestsInit, Apps
<1>2. AccessInv /\ NoticeInv /\ RiskInv /\ RiskRest /\ GovInv /\ ComplianceInv /\ ComplianceRest
  BY <1>1, InitAccess, InitNoticeInv, InitRiskInv, InitRiskRest, InitGovInv, InitComplianceInv,
     InitComplianceRest
<1>3. ScimInv /\ IdentityInv /\ OidcInv /\ OidcRest
  BY <1>1, InitScimInv, InitIdentityInv, InitOidcInv, InitOidcRest
<1>4. Standing
  BY <1>2, <1>3, InvariantsGiveTables DEF Standing
<1>5. OwnOps
  BY <1>1 DEF RequestsInit, Idle, OwnOps
<1>6. spent \in 0 .. MaxRequests
  BY <1>1, RequestsAreBounded
<1>7. LedgerFollowsChanges /\ RequestsOK
  BY <1>3 DEF IdentityInv
<1>. QED BY <1>1, <1>2, <1>3, <1>4, <1>5, <1>6, <1>7 DEF PlatformInv

(* A step serves the app of the behaviour and leaves the others alone.     *)
LEMMA StepOfOneApp ==
    ASSUME PlatformInv, [Next]_mcVars
    PROVE  /\ part' = part
           /\ part = "access" => [AccessNext]_<<requestVars, accessVars>>
           /\ part = "notices" => [NoticeNext]_<<requestVars, noticeVars>>
           /\ part = "risk" => [RiskNext]_<<requestVars, riskVars>>
           /\ part = "governance" => [GovernanceNext]_<<requestVars, governanceVars>>
           /\ part = "compliance" => [ComplianceNext]_<<requestVars, complianceVars>>
           /\ part = "scim" => [ScimNext]_<<requestVars, scimVars>>
           /\ part = "identity" => [IdentityNext]_<<requestVars, identityVars>>
           /\ part = "oidc" => [OidcNext]_<<requestVars, oidcVars>>
           /\ part # "access" => UNCHANGED accessVars
           /\ part # "notices" => UNCHANGED noticeVars
           /\ part # "risk" => UNCHANGED riskVars
           /\ part # "governance" => UNCHANGED governanceVars
           /\ part # "compliance" => UNCHANGED complianceVars
           /\ part # "scim" => UNCHANGED scimVars
           /\ part # "identity" => UNCHANGED identityVars
           /\ part # "oidc" => UNCHANGED oidcVars
<1>1. CASE UNCHANGED mcVars
  BY <1>1 DEF mcVars, appVars
<1>2. CASE Next
  BY <1>2 DEF Next
<1>. QED BY <1>1, <1>2

LEMMA AppsLet ==
    ASSUME PlatformInv, [Next]_mcVars
    PROVE  /\ part \notin {"identity", "oidc"} => Lets(Foreign)
           /\ part = "identity" => Lets({"answer"})
           /\ part = "oidc" => Lets({"tell"})
<1>0. RequestsOK /\ part \in Apps
  BY DEF PlatformInv
<1>1. ASSUME UNCHANGED requestVars, NEW ops PROVE Lets(ops)
  BY <1>0, <1>1, ServeLets
<1>2. part = "access" => Lets(Foreign)
  BY <1>0, <1>1, StepOfOneApp, AccessLets
<1>3. part = "notices" => Lets(Foreign)
  BY <1>0, <1>1, StepOfOneApp, NoticesLet DEF PlatformInv
<1>4. part = "risk" => Lets(Foreign)
  BY <1>0, <1>1, StepOfOneApp, RiskLets
<1>5. part = "governance" => Lets(Foreign)
  BY <1>0, <1>1, StepOfOneApp, GovernanceLets
<1>6. part = "compliance" => Lets(Foreign)
  BY <1>0, <1>1, StepOfOneApp, ComplianceLets
<1>7. part = "scim" => Lets(Foreign)
  BY <1>0, <1>1, StepOfOneApp, ScimLets
<1>8. part = "identity" => Lets({"answer"})
  BY <1>0, <1>1, StepOfOneApp, IdentityLets
<1>9. part = "oidc" => Lets({"tell"})
  BY <1>0, <1>1, StepOfOneApp, OidcLets
<1>. QED BY <1>0, <1>2, <1>3, <1>4, <1>5, <1>6, <1>7, <1>8, <1>9 DEF Apps

LEMMA TablesStand ==
    /\ UNCHANGED accessVars => (AccessTypes /\ UsageStaysNearLimit
                                  => AccessTypes' /\ UsageStaysNearLimit')
    /\ UNCHANGED noticeVars => (NoticeTypes /\ SuppressionIsRespected
                                  => NoticeTypes' /\ SuppressionIsRespected')
    /\ UNCHANGED riskVars => (RiskTypes /\ ThresholdIsSignalled
                                  => RiskTypes' /\ ThresholdIsSignalled')
    /\ UNCHANGED governanceVars => (GovernanceTypes /\ OutcomeIsOnRecord
                                  => GovernanceTypes' /\ OutcomeIsOnRecord')
    /\ UNCHANGED complianceVars => (ComplianceTypes /\ ApprovedByAnother
                                  => ComplianceTypes' /\ ApprovedByAnother')
    /\ UNCHANGED scimVars => (ScimTypes /\ CreationsAreTold => ScimTypes' /\ CreationsAreTold')
    /\ UNCHANGED identityVars => (IdentityTypes => IdentityTypes')
    /\ UNCHANGED oidcVars => (OidcTypes => OidcTypes')
<1>1. UNCHANGED accessVars => (AccessTypes /\ UsageStaysNearLimit
                                 => AccessTypes' /\ UsageStaysNearLimit')
  BY DEF accessVars, AccessTypes, UsageStaysNearLimit, UsageTotal, Granted
<1>2. UNCHANGED noticeVars => (NoticeTypes /\ SuppressionIsRespected
                                 => NoticeTypes' /\ SuppressionIsRespected')
  BY DEF noticeVars, NoticeTypes, SuppressionIsRespected
<1>3. UNCHANGED riskVars => (RiskTypes /\ ThresholdIsSignalled
                               => RiskTypes' /\ ThresholdIsSignalled')
  BY DEF riskVars, RiskTypes, ThresholdIsSignalled
<1>4. UNCHANGED governanceVars => (GovernanceTypes /\ OutcomeIsOnRecord
                                     => GovernanceTypes' /\ OutcomeIsOnRecord')
  <2>1. UNCHANGED governanceVars => (GovernanceTypes => GovernanceTypes')
    BY DEF governanceVars, GovernanceTypes
  <2>2. UNCHANGED governanceVars => (OutcomeIsOnRecord => OutcomeIsOnRecord')
    BY DEF governanceVars, OutcomeIsOnRecord, RecordsOf
  <2>. QED BY <2>1, <2>2
<1>5. UNCHANGED complianceVars => (ComplianceTypes /\ ApprovedByAnother
                                     => ComplianceTypes' /\ ApprovedByAnother')
  BY DEF complianceVars, ComplianceTypes, ApprovedByAnother
<1>6. UNCHANGED scimVars => (ScimTypes /\ CreationsAreTold => ScimTypes' /\ CreationsAreTold')
  BY DEF scimVars, ScimTypes, CreationsAreTold, CreationsOf
<1>7. UNCHANGED identityVars => (IdentityTypes => IdentityTypes')
  BY DEF identityVars, IdentityTypes
<1>8. UNCHANGED oidcVars => (OidcTypes => OidcTypes')
  BY DEF oidcVars, OidcTypes
<1>. QED BY <1>1, <1>2, <1>3, <1>4, <1>5, <1>6, <1>7, <1>8

(* The invariant of the app that is served.                                *)
LEMMA AppStep ==
    ASSUME Workers # {}, PlatformInv, [Next]_mcVars
    PROVE  /\ part = "access" => AccessInv'
           /\ part = "notices" => NoticeInv'
           /\ part = "risk" => (RiskInv /\ RiskRest)'
           /\ part = "governance" => GovInv'
           /\ part = "compliance" => (ComplianceInv /\ ComplianceRest)'
           /\ part = "scim" => ScimInv'
           /\ part = "identity" => IdentityInv'
           /\ part = "oidc" => (OidcInv /\ OidcRest)'
<1>1. part = "access" => AccessInv'
  BY StepOfOneApp, StepAccess DEF PlatformInv
<1>2. part = "notices" => NoticeInv'
  BY StepOfOneApp, StepNoticeInv DEF PlatformInv
<1>3. part = "risk" => (RiskInv /\ RiskRest)'
  <2>1. UNCHANGED <<requestVars, riskVars>> => (RiskRest => RiskRest')
    BY DEF requestVars, riskVars, RiskRest, StaffTables, RiskHeld
  <2>2. part = "risk" => RiskInv'
    BY StepOfOneApp, StepRiskInv DEF PlatformInv
  <2>3. part = "risk" => RiskRest'
    BY <2>1, StepOfOneApp, RiskRestStep DEF PlatformInv
  <2>. QED BY <2>2, <2>3
<1>4. part = "governance" => GovInv'
  BY StepOfOneApp, StepGovInv DEF PlatformInv
<1>5. part = "compliance" => (ComplianceInv /\ ComplianceRest)'
  <2>1. UNCHANGED <<requestVars, complianceVars>> => (ComplianceRest => ComplianceRest')
    BY DEF requestVars, complianceVars, ComplianceRest, ComplianceRows, ComplianceHeld
  <2>2. part = "compliance" => ComplianceInv'
    BY StepOfOneApp, StepComplianceInv DEF PlatformInv
  <2>3. part = "compliance" => ComplianceRest'
    BY <2>1, StepOfOneApp, ComplianceRestStep DEF PlatformInv
  <2>. QED BY <2>2, <2>3
<1>6. part = "scim" => ScimInv'
  BY StepOfOneApp, StepScimInv DEF PlatformInv
<1>7. part = "identity" => IdentityInv'
  <2>1. ASSUME IdentityInv, UNCHANGED <<requestVars, identityVars>> PROVE IdentityInv'
    BY <2>1 DEF requestVars, identityVars, IdentityInv, RequestsOK, FitsRow, Counters, IdentityHeld,
       LedgerFollowsChanges, Telling
  <2>. QED BY <2>1, StepOfOneApp, IdentityStep DEF PlatformInv
<1>8. part = "oidc" => (OidcInv /\ OidcRest)'
  <2>1. UNCHANGED <<requestVars, oidcVars>> => (OidcRest => OidcRest')
    BY DEF requestVars, oidcVars, OidcRest, OidcRows, OidcHeld
  <2>2. part = "oidc" => OidcInv'
    BY StepOfOneApp, StepOidcInv DEF PlatformInv
  <2>3. part = "oidc" => OidcRest'
    BY <2>1, StepOfOneApp, OidcRestStep DEF PlatformInv
  <2>. QED BY <2>2, <2>3
<1>. QED BY <1>1, <1>2, <1>3, <1>4, <1>5, <1>6, <1>7, <1>8

LEMMA StepPlatformInv == ASSUME Workers # {}, PlatformInv, [Next]_mcVars PROVE PlatformInv'
<1>1. part' = part /\ part \in Apps
  BY StepOfOneApp DEF PlatformInv
<1>2. Standing'
  BY <1>1, StepOfOneApp, TablesStand DEF PlatformInv, Standing
<1>3. OneRequest /\ RequestsOK'
  BY AppsLet DEF Lets, Spares, RequestsOK
<1>4. spent' \in 0 .. MaxRequests
  BY <1>3, RequestsAreBounded DEF PlatformInv, OneRequest, HasRoom
<1>5. OwnOps'
  <2>1. part # "oidc" => Spares({"answer"})
    BY AppsLet, SparesFewer DEF Lets, Foreign
  <2>2. part # "identity" => Spares({"tell"})
    BY AppsLet, SparesFewer DEF Lets, Foreign
  <2>. QED BY <1>1, <2>1, <2>2 DEF PlatformInv, OwnOps, Spares
<1>6. LedgerFollowsChanges'
  <2>1. CASE part = "identity"
    BY <2>1, AppStep DEF IdentityInv
  <2>2. CASE part # "identity"
    <3>1. \A w \in Workers : request[w].op # "tell" /\ request'[w].op # "tell"
      BY <1>1, <1>5, <2>2 DEF PlatformInv, OwnOps
    <3>2. \A t : Telling(t) = {} /\ Telling(t)' = {}
      BY <3>1 DEF Telling, Owes
    <3>3. UNCHANGED <<assurance, changes, lost>>
      BY <2>2, StepOfOneApp DEF identityVars
    <3>. QED BY <3>2, <3>3 DEF PlatformInv, LedgerFollowsChanges
  <2>. QED BY <2>1, <2>2
<1>. QED BY <1>1, <1>2, <1>3, <1>4, <1>5, <1>6, AppStep DEF PlatformInv

(* The inductive invariant of the eight apps together.                     *)
THEOREM PlatformInvariance == ASSUME Workers # {} PROVE Spec => []PlatformInv
<1>1. Init => PlatformInv
  BY InitPlatformInv
<1>2. PlatformInv /\ [Next]_mcVars => PlatformInv'
  BY StepPlatformInv
<1>. QED BY <1>1, <1>2, PTL DEF Spec

(* All tables of the apps keep their types, and no behaviour serves more   *)
(* requests than its bound.                                                *)
THEOREM PlatformTypes == ASSUME Workers # {} PROVE Spec => []TypeOK
<1>1. PlatformInv => TypeOK
  BY EveryTable DEF PlatformInv, Tables, TypeOK
<1>. QED BY <1>1, PlatformInvariance, PTL

(* What the run of the eight apps checks of their states holds of the same *)
(* specification for any instance, and so does the assurance ledger        *)
(* (identity_hardening/services.py:60, :82, :96), which no run looks at.   *)
THEOREM PlatformIsSafe ==
    ASSUME Workers # {}
    PROVE  Spec => [](/\ UsageStaysNearLimit /\ SuppressionIsRespected /\ ThresholdIsSignalled
                      /\ OutcomeIsOnRecord /\ ApprovedByAnother /\ CreationsAreTold
                      /\ ConsentIsJustified /\ LedgerFollowsChanges)
<1>. DEFINE Safe == /\ UsageStaysNearLimit /\ SuppressionIsRespected /\ ThresholdIsSignalled
                    /\ OutcomeIsOnRecord /\ ApprovedByAnother /\ CreationsAreTold
                    /\ ConsentIsJustified /\ LedgerFollowsChanges
<1>1. PlatformInv => Safe
  <2>. SUFFICES ASSUME PlatformInv PROVE Safe
    OBVIOUS
  <2>1. ConsentIsJustified
    <3>1. CASE part = "oidc"
      BY <3>1 DEF PlatformInv, OidcInv, EvalOK, ConsentIsJustified
    <3>2. CASE part # "oidc"
      BY <3>2 DEF PlatformInv, OwnOps, ConsentIsJustified, Holds
    <3>. QED BY <3>1, <3>2
  <2>. QED BY <2>1, EveryTable DEF PlatformInv, Tables
<1>. QED BY <1>1, PlatformInvariance, PTL
=============================================================================
