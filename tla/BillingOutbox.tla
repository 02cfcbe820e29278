---------------------------- MODULE BillingOutbox ----------------------------
(***************************************************************************)
(* The billing outbox: producers that enqueue an event inside their own    *)
(* transaction, and dispatchers (the Celery task, the management command,  *)
(* the staff endpoint) that hand due events to a delivery hook.            *)
(*                                                                         *)
(* An item is a row with an idempotency key, named by it.  A dispatch is   *)
(* one transaction: the due rows that no other dispatch has locked are     *)
(* locked, each is handed to the hook, and all outcomes are committed      *)
(* together.  The hook acts outside the database: what it accepted stays   *)
(* accepted when the transaction is rolled back.                           *)
(***************************************************************************)
EXTENDS Naturals, FiniteSets

CONSTANTS
    Items,         \* (event type, idempotency key) of the events
    NoItem,        \* an idle producer's item
    Producers,     \* transactions that enqueue an event
    Dispatchers,   \* concurrent runs of dispatch_due_outbox_events
    MaxAttempts,   \* BillingOutboxEvent.max_attempts
    Limit,         \* the dispatch limit
    MaxCrashes     \* bound: dispatches rolled back

ASSUME BoundsAssumption ==
    MaxAttempts \in Nat \ {0} /\ Limit \in Nat \ {0} /\ MaxCrashes \in Nat

VARIABLES
    row,        \* the committed row of each item
    producer,   \* what each producer is doing
    work,       \* work[d][i]: what dispatch d has done with item i
    accepted,   \* items the hook has accepted
    calls,      \* hook calls per item
    crashes     \* dispatches rolled back so far

vars == <<row, producer, work, accepted, calls, crashes>>

NoRow == [status |-> "absent", attempts |-> 0, due |-> FALSE]
NotSelected == [i \in Items |-> "no"]
Idle == [at |-> "idle", item |-> NoItem]

Init ==
    /\ row = [i \in Items |-> NoRow]
    /\ producer = [p \in Producers |-> Idle]
    /\ work = [d \in Dispatchers |-> NotSelected]
    /\ accepted = {}
    /\ calls = [i \in Items |-> 0]
    /\ crashes = 0

-----------------------------------------------------------------------------
(* enqueue_billing_outbox_event: look for the key, insert the row.         *)
Look(p, i) ==
    /\ producer[p] = Idle
    /\ producer' = [producer EXCEPT ![p] =
                      [at |-> IF row[i] = NoRow THEN "insert" ELSE "return", item |-> i]]
    /\ UNCHANGED <<row, work, accepted, calls, crashes>>

(* The unique constraint makes a second inserter wait for the first, and   *)
(* raises if that one commits.                                             *)
Insert(p) ==
    /\ producer[p].at = "insert"
    /\ \A q \in Producers \ {p} :
         producer[q].at = "inserted" => producer[q].item # producer[p].item
    /\ producer' = [producer EXCEPT ![p].at =
                      IF row[producer[p].item] = NoRow THEN "inserted" ELSE "raised"]
    /\ UNCHANGED <<row, work, accepted, calls, crashes>>

(* The producer's own transaction ends: the row appears with everything    *)
(* else it wrote, or not at all.                                           *)
CommitProducer(p) ==
    /\ producer[p].at = "inserted"
    /\ row' = [row EXCEPT ![producer[p].item] =
                 [status |-> "pending", attempts |-> 0, due |-> TRUE]]
    /\ producer' = [producer EXCEPT ![p].at = "return"]
    /\ UNCHANGED <<work, accepted, calls, crashes>>

RollBackProducer(p) ==
    /\ producer[p].at = "inserted"
    /\ producer' = [producer EXCEPT ![p].at = "raised"]
    /\ UNCHANGED <<row, work, accepted, calls, crashes>>

-----------------------------------------------------------------------------
AnyStatus(i) ==     \* slip: the status is not part of the filter
    row[i].status # "absent" /\ row[i].due /\ row[i].attempts < MaxAttempts
PendingOnly(i) ==     \* slip: FAILED is left out of the filter
    row[i].status = "pending" /\ row[i].due /\ row[i].attempts < MaxAttempts
IsDue(i) ==
    row[i].status \in {"pending", "failed"} /\ row[i].due /\ row[i].attempts < MaxAttempts

Selected(d) == {i \in Items : work[d][i] # "no"}
NotLocked(i) == TRUE     \* slip: no select_for_update
Unlocked(i) == \A d \in Dispatchers : i \notin Selected(d)

(* SELECT ... FOR UPDATE SKIP LOCKED, at most `Limit` rows.  Which ones is *)
(* left open: the order is by next_attempt_at.                             *)
Select(d) ==
    LET available == {i \in Items : IsDue(i) /\ Unlocked(i)} IN
    /\ work[d] = NotSelected
    /\ \E S \in SUBSET available :
         /\ S # {}
         /\ \/ S = available /\ Cardinality(S) <= Limit
            \/ Cardinality(S) = Limit
         /\ work' = [work EXCEPT ![d] =
                       [i \in Items |-> IF i \in S THEN "selected" ELSE "no"]]
    /\ UNCHANGED <<row, producer, accepted, calls, crashes>>

(* One turn of the loop: PROCESSING, one more attempt, the hook.  A hook   *)
(* that raises may have delivered all the same.                            *)
Hook(d, i) ==
    /\ work[d][i] = "selected"
    /\ calls' = [calls EXCEPT ![i] = @ + 1]
    /\ \/ /\ work' = [work EXCEPT ![d][i] = "accepted"]
          /\ accepted' = accepted \union {i}
       \/ /\ work' = [work EXCEPT ![d][i] = "refused"]
          /\ accepted' \in {accepted, accepted \union {i}}
    /\ UNCHANGED <<row, producer, crashes>>

AlwaysDispatched(outcome) == "dispatched"     \* slip: the except branch is missing
StatusAfter(outcome) == IF outcome = "accepted" THEN "dispatched" ELSE "failed"

(* A refused item is due again later.                                      *)
Settled(i, outcome) ==
    [status |-> StatusAfter(outcome), attempts |-> row[i].attempts + 1,
     due |-> outcome = "accepted"]

CommitDispatch(d) ==
    /\ Selected(d) # {}
    /\ \A i \in Selected(d) : work[d][i] # "selected"
    /\ row' = [i \in Items |->
                 IF i \in Selected(d) THEN Settled(i, work[d][i]) ELSE row[i]]
    /\ work' = [work EXCEPT ![d] = NotSelected]
    /\ UNCHANGED <<producer, accepted, calls, crashes>>

(* The process dies, or a statement fails: attempts and outcomes are lost. *)
Crash(d) ==
    /\ Selected(d) # {}
    /\ crashes < MaxCrashes
    /\ crashes' = crashes + 1
    /\ work' = [work EXCEPT ![d] = NotSelected]
    /\ UNCHANGED <<row, producer, accepted, calls>>

(* next_attempt_at of a refused item is reached.                           *)
BecomeDue(i) ==
    /\ row[i].status = "failed"
    /\ ~ row[i].due
    /\ row' = [row EXCEPT ![i].due = TRUE]
    /\ UNCHANGED <<producer, work, accepted, calls, crashes>>

Dispatch(d) == Select(d) \/ CommitDispatch(d) \/ \E i \in Items : Hook(d, i)

Next ==
    \/ \E p \in Producers : \/ \E i \in Items : Look(p, i)
                            \/ Insert(p) \/ CommitProducer(p) \/ RollBackProducer(p)
    \/ \E d \in Dispatchers : Dispatch(d) \/ Crash(d)
    \/ \E i \in Items : BecomeDue(i)

Spec == Init /\ [][Next]_vars

(***************************************************************************)
(* Fairness: time passes, and the dispatch is run again and again (by      *)
(* whatever schedules it) and finishes.  Producers promise nothing.        *)
(***************************************************************************)
FairSpec ==
    /\ Spec
    /\ \A d \in Dispatchers : WF_vars(Dispatch(d))
    /\ \A i \in Items : WF_vars(BecomeDue(i))

-----------------------------------------------------------------------------
ProducerState ==
    [at: {"idle", "insert", "inserted", "return", "raised"}, item: Items \union {NoItem}]
RowState ==
    [status: {"absent", "pending", "dispatched", "failed"}, attempts: 0..MaxAttempts,
     due: BOOLEAN]

TypeOK ==
    /\ row \in [Items -> RowState]
    /\ producer \in [Producers -> ProducerState]
    /\ work \in [Dispatchers -> [Items -> {"no", "selected", "accepted", "refused"}]]
    /\ accepted \subseteq Items
    /\ calls \in [Items -> Nat]
    /\ crashes \in 0..MaxCrashes

(* Two dispatches never hand over one item at the same time, and the       *)
(* attempts in the row account for every call of the hook but those of     *)
(* dispatches that were rolled back.                                       *)
InFlight(i) == \E d \in Dispatchers : work[d][i] \in {"accepted", "refused"}
CallsAreCounted ==
    \A i \in Items :
        calls[i] <= row[i].attempts + crashes + (IF InFlight(i) THEN 1 ELSE 0)

(* Steps: an item that is DISPATCHED is never handed to the hook again.    *)
DispatchedIsFinal ==
    [][\A i \in Items : row[i].status = "dispatched" =>
         row'[i] = row[i] /\ calls'[i] = calls[i]]_vars

(* The outbox is an at-least-once queue: "absent" until its producer has   *)
(* committed, and given up when its attempts are used up.                  *)
Place(r) ==
    CASE r.status = "absent"                                 -> "absent"
      [] r.status = "dispatched"                             -> "done"
      [] r.status = "failed" /\ r.attempts = MaxAttempts     -> "dropped"
      [] OTHER                                               -> "queued"
QueueState == [i \in Items |-> Place(row[i])]
Queue == INSTANCE AtLeastOnceQueue WITH state <- QueueState
ImplementsQueue == Queue!Spec

(* Liveness, under FairSpec: an item that was committed is dispatched, or  *)
(* given up after max_attempts.                                            *)
EveryItemSettles ==
    \A i \in Items :
        row[i].status = "pending" ~>
            row[i].status = "dispatched" \/ row[i].attempts = MaxAttempts
=============================================================================
