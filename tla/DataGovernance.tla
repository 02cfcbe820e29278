--------------------------- MODULE DataGovernance ---------------------------
(***************************************************************************)
(* Retention jobs, legal holds and data subject requests.  Planning a job  *)
(* counts the holds once and for all; running it saves RUNNING, writes one *)
(* record for each asset and saves the outcome, every write a commit.  A   *)
(* task runs whatever it found queued and staff run any job, so one job    *)
(* may be run twice at once.                                               *)
(***************************************************************************)
EXTENDS Requests, Sequences, FiniteSets

CONSTANTS
    Assets,             \* the governed DataAsset rows
    RetentionPolicies   \* the RetentionPolicy rows

VARIABLES
    policyAssets,       \* the assets of each policy
    exempt,             \* RetentionPolicy.legal_hold_exempt
    holds,              \* the LegalHold rows
    jobs,               \* the RetentionJob rows
    records,            \* the AnonymizationRecord rows: their job and asset
    subjectRequests     \* the DataSubjectRequest rows

governanceVars == <<policyAssets, exempt, holds, jobs, records, subjectRequests>>

JobStatuses == {"queued", "running", "completed", "failed", "blocked"}
RequestStatuses == {"received", "approved", "in_progress", "completed", "rejected",
                    "blocked_by_hold"}
LegalHold == [status: {"active", "released"}]
RetentionJob == [policy: RetentionPolicies, status: JobStatuses, blocked: Nat,
                 processed: Nat, unheld: BOOLEAN]
AnonymizationRecord == [job: Nat, asset: Assets]

GovernanceTypes ==
    /\ policyAssets \in [RetentionPolicies -> SUBSET Assets]
    /\ exempt \in [RetentionPolicies -> BOOLEAN]
    /\ holds \in Seq(LegalHold)
    /\ jobs \in Seq(RetentionJob)
    /\ records \in Seq(AnonymizationRecord)
    /\ subjectRequests \in Seq(RequestStatuses)

GovernanceInit ==
    /\ policyAssets \in [RetentionPolicies -> SUBSET Assets]
    /\ exempt \in [RetentionPolicies -> BOOLEAN]
    /\ holds = <<>> /\ jobs = <<>> /\ records = <<>> /\ subjectRequests = <<>>

-----------------------------------------------------------------------------
PlaceHold ==
    /\ Serve
    /\ holds' = Append(holds, [status |-> "active"])
    /\ UNCHANGED <<policyAssets, exempt, jobs, records, subjectRequests>>

ReleaseLegalHold(n) ==
    /\ Serve
    /\ holds' = [holds EXCEPT ![n].status = "released"]
    /\ UNCHANGED <<policyAssets, exempt, jobs, records, subjectRequests>>

(* PATCH of a policy.  "unheld" is no column: the job was forced, or its   *)
(* policy stopped asking for holds after it was planned.                   *)
ChangePolicy(p, assets, asksHolds) ==
    /\ Serve
    /\ policyAssets' = [policyAssets EXCEPT ![p] = assets]
    /\ exempt' = [exempt EXCEPT ![p] = asksHolds]
    /\ jobs' = [n \in DOMAIN jobs |->
                  [jobs[n] EXCEPT !.unheld = @ \/ (jobs[n].policy = p /\ ~asksHolds)]]
    /\ UNCHANGED <<holds, records, subjectRequests>>

(* Every active hold counts, whatever its scope.                           *)
ActiveHolds == {n \in DOMAIN holds : holds[n].status = "active"}

PlanRetentionJob(p) ==
    /\ Serve
    /\ jobs' = Append(jobs, [policy |-> p, status |-> "queued", processed |-> 0,
                  blocked |-> IF exempt[p] THEN Cardinality(ActiveHolds) ELSE 0,
                  unheld |-> FALSE])
    /\ UNCHANGED <<policyAssets, exempt, holds, records, subjectRequests>>

(* The job list also takes a POST, which counts no hold and may name any   *)
(* status.                                                                 *)
PostRetentionJob(p, status) ==
    /\ Serve
    /\ jobs' = Append(jobs, [policy |-> p, status |-> status, processed |-> 0, blocked |-> 0,
                             unheld |-> FALSE])
    /\ UNCHANGED <<policyAssets, exempt, holds, records, subjectRequests>>

-----------------------------------------------------------------------------
Running(n, force) == [op |-> "job", job |-> n, row |-> jobs[n], force |-> force]

(* run_due_retention_jobs finds queued jobs; the view loads any job.       *)
TakeDueJob(w, n) ==
    /\ jobs[n].status = "queued"
    /\ TakeUp(w, Running(n, FALSE))
    /\ UNCHANGED governanceVars

OpenJob(w, n, force) ==
    /\ Begin(w, Running(n, force))
    /\ UNCHANGED governanceVars

SkipCompleted(w) ==
    /\ Holds(w, "job")
    /\ request[w].row.status = "completed" /\ ~request[w].force
    /\ End(w)
    /\ UNCHANGED governanceVars

SaveRunning(w) ==
    /\ Holds(w, "job")
    /\ request[w].row.status # "completed" \/ request[w].force
    /\ jobs' = [jobs EXCEPT ![request[w].job].status = "running",
                            ![request[w].job].unheld = @ \/ request[w].force]
    /\ Proceed(w, [request[w] EXCEPT !.op = "running"])
    /\ UNCHANGED <<policyAssets, exempt, holds, records, subjectRequests>>

BlockedWhileQueued(row, force) ==     \* slip: a job once BLOCKED is not asked again
    row.blocked > 0 /\ row.status = "queued" /\ exempt[row.policy] /\ ~force

(* The holds counted when the job was planned, and the policy of now.      *)
IsBlocked(row, force) == row.blocked > 0 /\ exempt[row.policy] /\ ~force

BlockJob(w) ==
    /\ Holds(w, "running")
    /\ IsBlocked(request[w].row, request[w].force)
    /\ jobs' = [jobs EXCEPT ![request[w].job].status = "blocked"]
    /\ End(w)
    /\ UNCHANGED <<policyAssets, exempt, holds, records, subjectRequests>>

ReadAssets(w) ==
    /\ Holds(w, "running")
    /\ ~IsBlocked(request[w].row, request[w].force)
    /\ Proceed(w, [op |-> "assets", job |-> request[w].job, processed |-> 0,
                   todo |-> policyAssets[request[w].row.policy]])
    /\ UNCHANGED governanceVars

RecordAsset(w, a) ==
    /\ Holds(w, "assets")
    /\ a \in request[w].todo
    /\ records' = Append(records, [job |-> request[w].job, asset |-> a])
    /\ Proceed(w, [request[w] EXCEPT !.todo = @ \ {a}, !.processed = @ + 1])
    /\ UNCHANGED <<policyAssets, exempt, holds, jobs, subjectRequests>>

AssetsAreDone(held) == held.todo = {}

CompleteJob(w) ==
    /\ Holds(w, "assets")
    /\ AssetsAreDone(request[w])
    /\ jobs' = [jobs EXCEPT ![request[w].job].status = "completed",
                            ![request[w].job].processed = request[w].processed]
    /\ End(w)
    /\ UNCHANGED <<policyAssets, exempt, holds, records, subjectRequests>>

-----------------------------------------------------------------------------
AskSubjectRequest ==
    /\ Serve
    /\ subjectRequests' = Append(subjectRequests, "received")
    /\ UNCHANGED <<policyAssets, exempt, holds, jobs, records>>

(* The action says the new status; the old one is not asked.               *)
ActOnSubjectRequest(n, status) ==
    /\ Serve
    /\ subjectRequests' = [subjectRequests EXCEPT ![n] = status]
    /\ UNCHANGED <<policyAssets, exempt, holds, jobs, records>>

GovernanceNext ==
    \/ PlaceHold \/ AskSubjectRequest
    \/ \E n \in DOMAIN holds : ReleaseLegalHold(n)
    \/ \E p \in RetentionPolicies, assets \in SUBSET Assets, asks \in BOOLEAN :
         ChangePolicy(p, assets, asks)
    \/ \E p \in RetentionPolicies : PlanRetentionJob(p)
    \/ \E p \in RetentionPolicies, status \in {"queued", "completed"} : PostRetentionJob(p, status)
    \/ \E w \in Workers, n \in DOMAIN jobs : TakeDueJob(w, n)
    \/ \E w \in Workers, n \in DOMAIN jobs, force \in BOOLEAN : OpenJob(w, n, force)
    \/ \E w \in Workers : SkipCompleted(w) \/ SaveRunning(w) \/ BlockJob(w) \/ ReadAssets(w)
                          \/ CompleteJob(w)
    \/ \E w \in Workers, a \in Assets : RecordAsset(w, a)
    \/ \E n \in DOMAIN subjectRequests, status \in RequestStatuses \ {"received"} :
         ActOnSubjectRequest(n, status)
    \/ \E w \in Workers : Abandon(w) /\ UNCHANGED governanceVars

GovernanceSpec ==
    RequestsInit /\ GovernanceInit /\ [][GovernanceNext]_<<requestVars, governanceVars>>

-----------------------------------------------------------------------------
RecordsOf(n) == {m \in DOMAIN records : records[m].job = n}

(* However many workers run a job, and however often it is run again: what *)
(* a completed job counts as processed is on record, and a job whose       *)
(* planning counted holds has recorded nothing, as long as it is never     *)
(* forced and its policy keeps asking for holds (services.py:100, :107,    *)
(* :122).  Of the holds placed after the planning it says nothing.         *)
OutcomeIsOnRecord ==
    \A n \in DOMAIN jobs :
        /\ jobs[n].status = "completed" => jobs[n].processed <= Cardinality(RecordsOf(n))
        /\ jobs[n].blocked > 0 /\ ~jobs[n].unheld => RecordsOf(n) = {}

(* docs/DATA_GOVERNANCE.md:60, "Legal holds block automated retention      *)
(* execution", and :122: a run that is not forced does not go on to the    *)
(* assets of a policy that asks for holds while a hold is active.  The     *)
(* code does not keep it: holds run.                                       *)
HoldsBlockRetention ==
    [][\A w \in Workers :
        Holds(w, "running") /\ Holds(w, "assets")'
        => \/ ActiveHolds = {}
           \/ request[w].force \/ ~exempt[request[w].row.policy]]_<<requestVars, governanceVars>>
=============================================================================
