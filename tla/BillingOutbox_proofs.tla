------------------------ MODULE BillingOutbox_proofs ------------------------
(***************************************************************************)
(* Proofs about BillingOutbox for any items, producers, dispatches, limit  *)
(* and number of attempts: the accounting of hook calls, the finality of   *)
(* DISPATCHED, and that the outbox implements AtLeastOnceQueue.            *)
(*                                                                         *)
(* What makes them inductive is what an open transaction holds: an         *)
(* inserted key has no committed row and one inserter (ProducersOK), and a *)
(* selected row is unsettled and locked by one dispatch (WorkOK).          *)
(***************************************************************************)
EXTENDS BillingOutbox, TLAPS

ProducersOK ==
    /\ \A i \in Items : row[i].status = "absent" => row[i] = NoRow
    /\ \A p \in Producers : producer[p].at \in {"insert", "inserted"} =>
         producer[p].item \in Items
    /\ \A p \in Producers : producer[p].at = "inserted" =>
         /\ row[producer[p].item] = NoRow
         /\ \A q \in Producers \ {p} :
              producer[q].at = "inserted" => producer[q].item # producer[p].item

WorkOK ==
    \A d \in Dispatchers, i \in Items : work[d][i] # "no" =>
        /\ row[i].status \in {"pending", "failed"}
        /\ row[i].attempts < MaxAttempts
        /\ \A e \in Dispatchers \ {d} : work[e][i] = "no"
        /\ work[d][i] = "accepted" => i \in accepted

IInv == TypeOK /\ ProducersOK /\ WorkOK /\ CallsAreCounted

Produce(p) == (\E i \in Items : Look(p, i)) \/ Insert(p) \/ RollBackProducer(p)

-----------------------------------------------------------------------------
LEMMA InitIInv == Init => IInv
<1>. SUFFICES ASSUME Init PROVE IInv
  OBVIOUS
<1>1. TypeOK
  BY BoundsAssumption DEF Init, TypeOK, RowState, NoRow, ProducerState, Idle, NotSelected
<1>2. ProducersOK /\ WorkOK
  BY DEF Init, ProducersOK, WorkOK, NoRow, Idle, NotSelected
<1>3. CallsAreCounted
  BY BoundsAssumption DEF Init, CallsAreCounted, NoRow
<1>. QED BY <1>1, <1>2, <1>3 DEF IInv

(* A dispatch that ends leaves its rows unselected and the others' work    *)
(* alone.                                                                  *)
LEMMA WorkReleased ==
    ASSUME TypeOK, NEW d \in Dispatchers, work' = [work EXCEPT ![d] = NotSelected]
    PROVE  /\ work' \in [Dispatchers -> [Items -> {"no", "selected", "accepted", "refused"}]]
           /\ \A i \in Items : work'[d][i] = "no"
           /\ \A e \in Dispatchers \ {d} : work'[e] = work[e]
BY DEF TypeOK, NotSelected

(* One turn of the loop changes the state of one item in one dispatch.     *)
LEMMA HookEffect ==
    ASSUME TypeOK, NEW d \in Dispatchers, NEW i \in Items, Hook(d, i)
    PROVE  /\ work' \in [Dispatchers -> [Items -> {"no", "selected", "accepted", "refused"}]]
           /\ work'[d][i] \in {"accepted", "refused"}
           /\ work'[d][i] = "accepted" => i \in accepted'
           /\ \A e \in Dispatchers, j \in Items : e # d \/ j # i => work'[e][j] = work[e][j]
           /\ accepted \subseteq accepted' /\ accepted' \subseteq Items
           /\ UNCHANGED <<row, producer, crashes>>
           /\ calls' = [calls EXCEPT ![i] = @ + 1]
<1>1. PICK outcome \in {"accepted", "refused"} :
        /\ work' = [work EXCEPT ![d][i] = outcome]
        /\ outcome = "accepted" => i \in accepted'
  BY DEF Hook
<1>2. work' \in [Dispatchers -> [Items -> {"no", "selected", "accepted", "refused"}]]
  BY <1>1 DEF TypeOK
<1>3. /\ work'[d][i] = outcome
      /\ \A e \in Dispatchers, j \in Items : e # d \/ j # i => work'[e][j] = work[e][j]
  BY <1>1 DEF TypeOK
<1>4. /\ accepted \subseteq accepted' /\ accepted' \subseteq Items
      /\ UNCHANGED <<row, producer, crashes>>
      /\ calls' = [calls EXCEPT ![i] = @ + 1]
  BY DEF Hook, TypeOK
<1>. QED BY <1>1, <1>2, <1>3, <1>4

(* A selection takes due rows that nobody holds.                           *)
LEMMA SelectEffect ==
    ASSUME TypeOK, NEW d \in Dispatchers, Select(d)
    PROVE  /\ work' \in [Dispatchers -> [Items -> {"no", "selected", "accepted", "refused"}]]
           /\ \A i \in Items : work'[d][i] # "no" =>
                work'[d][i] = "selected" /\ IsDue(i) /\ Unlocked(i)
           /\ \A e \in Dispatchers \ {d} : work'[e] = work[e]
           /\ \A i \in Items : work[d][i] = "no"
           /\ UNCHANGED <<row, producer, accepted, calls, crashes>>
<1>1. PICK S \in SUBSET {i \in Items : IsDue(i) /\ Unlocked(i)} :
        work' = [work EXCEPT ![d] = [i \in Items |-> IF i \in S THEN "selected" ELSE "no"]]
  BY DEF Select
<1>2. \A i \in Items : work[d][i] = "no"
  BY DEF Select, NotSelected
<1>. QED BY <1>1, <1>2 DEF Select, TypeOK

LEMMA TypeOKStep == IInv /\ [Next]_vars => TypeOK'
<1>. SUFFICES ASSUME IInv, [Next]_vars PROVE TypeOK'
  OBVIOUS
<1>. USE BoundsAssumption DEF IInv
<1>1. ASSUME NEW p \in Producers, Produce(p) PROVE TypeOK'
  <2>1. producer' \in [Producers -> ProducerState]
    BY <1>1 DEF Produce, Look, Insert, RollBackProducer, TypeOK, ProducerState
  <2>. QED BY <1>1, <2>1 DEF Produce, Look, Insert, RollBackProducer, TypeOK
<1>2. ASSUME NEW p \in Producers, CommitProducer(p) PROVE TypeOK'
  <2>1. producer' \in [Producers -> ProducerState]
    BY <1>2 DEF CommitProducer, TypeOK, ProducerState
  <2>3. [status |-> "pending", attempts |-> 0, due |-> TRUE] \in RowState
    BY DEF RowState
  <2>2. row' \in [Items -> RowState]
    BY <1>2, <2>3 DEF CommitProducer, TypeOK
  <2>. QED BY <1>2, <2>1, <2>2 DEF CommitProducer, TypeOK
<1>3. ASSUME NEW d \in Dispatchers, Select(d) PROVE TypeOK'
  BY <1>3, SelectEffect DEF TypeOK
<1>4. ASSUME NEW d \in Dispatchers, NEW i \in Items, Hook(d, i) PROVE TypeOK'
  BY <1>4, HookEffect DEF TypeOK
<1>5. ASSUME NEW d \in Dispatchers, CommitDispatch(d) PROVE TypeOK'
  <2>1. \A i \in Items : i \in Selected(d) => Settled(i, work[d][i]) \in RowState
    <3>. SUFFICES ASSUME NEW i \in Items, i \in Selected(d)
                  PROVE  Settled(i, work[d][i]) \in RowState
      OBVIOUS
    <3>1. row[i].attempts \in 0..MaxAttempts /\ row[i].attempts < MaxAttempts
      BY DEF TypeOK, RowState, WorkOK, Selected
    <3>2. row[i].attempts + 1 \in 0..MaxAttempts
      BY <3>1
    <3>. QED BY <3>2 DEF Settled, StatusAfter, RowState
  <2>2. row' \in [Items -> RowState]
    BY <1>5, <2>1 DEF CommitDispatch, TypeOK
  <2>. QED BY <1>5, <2>2, WorkReleased DEF CommitDispatch, TypeOK
<1>6. ASSUME NEW d \in Dispatchers, Crash(d) PROVE TypeOK'
  <2>1. crashes' \in 0..MaxCrashes
    BY <1>6 DEF Crash, TypeOK
  <2>2. work' \in [Dispatchers -> [Items -> {"no", "selected", "accepted", "refused"}]]
    BY <1>6, WorkReleased DEF Crash
  <2>. QED BY <1>6, <2>1, <2>2 DEF Crash, TypeOK
<1>7. ASSUME NEW i \in Items, BecomeDue(i) PROVE TypeOK'
  <2>1. row' \in [Items -> RowState]
    BY <1>7 DEF BecomeDue, TypeOK, RowState
  <2>. QED BY <1>7, <2>1 DEF BecomeDue, TypeOK
<1>8. CASE UNCHANGED vars
  BY <1>8 DEF vars, TypeOK
<1>. QED BY <1>1, <1>2, <1>3, <1>4, <1>5, <1>6, <1>7, <1>8 DEF Next, Dispatch, Produce

LEMMA ProducersOKStep == IInv /\ [Next]_vars => ProducersOK'
<1>. SUFFICES ASSUME IInv, [Next]_vars PROVE ProducersOK'
  OBVIOUS
<1>. USE DEF IInv
<1>1. ASSUME NEW p \in Producers, NEW i \in Items, Look(p, i) PROVE ProducersOK'
  BY <1>1 DEF Look, ProducersOK, TypeOK
<1>2. ASSUME NEW p \in Producers, Insert(p) PROVE ProducersOK'
  BY <1>2 DEF Insert, ProducersOK, TypeOK, ProducerState
<1>3. ASSUME NEW p \in Producers, RollBackProducer(p) PROVE ProducersOK'
  BY <1>3 DEF RollBackProducer, ProducersOK, TypeOK, ProducerState
<1>4. ASSUME NEW p \in Producers, CommitProducer(p) PROVE ProducersOK'
  BY <1>4 DEF CommitProducer, ProducersOK, TypeOK, ProducerState, RowState
<1>5. ASSUME NEW d \in Dispatchers, CommitDispatch(d) PROVE ProducersOK'
  <2>1. \A i \in Items : row[i] = NoRow => row'[i] = NoRow
    BY <1>5 DEF CommitDispatch, Selected, WorkOK, NoRow
  <2>2. \A i \in Items : row'[i].status = "absent" => row'[i] = NoRow
    BY <1>5 DEF CommitDispatch, Settled, StatusAfter, ProducersOK
  <2>. QED BY <1>5, <2>1, <2>2 DEF CommitDispatch, ProducersOK
<1>6. ASSUME NEW i \in Items, BecomeDue(i) PROVE ProducersOK'
  <2>1. /\ row[i].status = "failed" /\ row'[i].status = "failed"
        /\ \A j \in Items : j # i => row'[j] = row[j]
    BY <1>6 DEF BecomeDue, TypeOK, RowState
  <2>2. /\ \A j \in Items : row[j] = NoRow => row'[j] = NoRow
        /\ \A j \in Items : row'[j].status = "absent" => row'[j] = NoRow
    BY <2>1 DEF NoRow, ProducersOK
  <2>. QED BY <1>6, <2>2 DEF BecomeDue, ProducersOK
<1>7. ASSUME UNCHANGED <<row, producer>> PROVE ProducersOK'
  BY <1>7 DEF ProducersOK
<1>8. ASSUME \/ \E d \in Dispatchers : Select(d) \/ Crash(d) \/ \E i \in Items : Hook(d, i)
             \/ UNCHANGED vars
      PROVE  ProducersOK'
  BY <1>7, <1>8 DEF Select, Crash, Hook, vars
<1>. QED BY <1>1, <1>2, <1>3, <1>4, <1>5, <1>6, <1>8 DEF Next, Dispatch

(* Nobody gains a row, and held rows stay unsettled.                       *)
LEMMA WorkKept ==
    ASSUME WorkOK,
           \A d \in Dispatchers, i \in Items : work'[d][i] # "no" =>
             /\ work[d][i] # "no"
             /\ row'[i].status = row[i].status /\ row'[i].attempts = row[i].attempts
             /\ work'[d][i] = "accepted" => i \in accepted'
    PROVE  WorkOK'
BY DEF WorkOK

LEMMA WorkOKStep == IInv /\ [Next]_vars => WorkOK'
<1>. SUFFICES ASSUME TypeOK, ProducersOK, WorkOK, [Next]_vars PROVE WorkOK'
  BY DEF IInv
<1>1. ASSUME UNCHANGED <<row, work, accepted>> PROVE WorkOK'
  BY <1>1 DEF WorkOK
<1>2. ASSUME NEW p \in Producers, CommitProducer(p) PROVE WorkOK'
  <2>1. \A i \in Items : row[i].status # "absent" => row'[i] = row[i]
    BY <1>2 DEF CommitProducer, ProducersOK, NoRow, TypeOK
  <2>. QED BY <1>2, <2>1 DEF CommitProducer, WorkOK
<1>3. ASSUME NEW d \in Dispatchers, Select(d) PROVE WorkOK'
  BY <1>3, SelectEffect DEF WorkOK, IsDue, Unlocked, Selected
<1>4. ASSUME NEW d \in Dispatchers, NEW i \in Items, Hook(d, i) PROVE WorkOK'
  <2>1. work[d][i] = "selected"
    BY <1>4 DEF Hook
  <2>2. ASSUME NEW e \in Dispatchers, NEW j \in Items, work'[e][j] # "no"
        PROVE  work[e][j] # "no" /\ (work'[e][j] = "accepted" => j \in accepted')
    <3>1. CASE e = d /\ j = i
      BY <1>4, <2>1, <3>1, HookEffect
    <3>2. CASE e # d \/ j # i
      <4>1. work'[e][j] = work[e][j] /\ accepted \subseteq accepted'
        BY <1>4, <3>2, HookEffect
      <4>. QED BY <2>2, <4>1 DEF WorkOK
    <3>. QED BY <3>1, <3>2
  <2>3. UNCHANGED row
    BY <1>4, HookEffect
  <2>. QED BY <2>2, <2>3, WorkKept
<1>5. ASSUME NEW d \in Dispatchers, work' = [work EXCEPT ![d] = NotSelected],
             UNCHANGED accepted, \A i \in Items : i \notin Selected(d) => row'[i] = row[i]
      PROVE  WorkOK'
  <2>1. ASSUME NEW e \in Dispatchers, NEW i \in Items, work'[e][i] # "no"
        PROVE  e # d /\ work'[e][i] = work[e][i]
    BY <1>5, <2>1, WorkReleased
  <2>2. ASSUME NEW e \in Dispatchers, NEW i \in Items, e # d, work[e][i] # "no"
        PROVE  i \notin Selected(d) /\ (work[e][i] = "accepted" => i \in accepted)
    BY <2>2 DEF WorkOK, Selected
  <2>. QED BY <1>5, <2>1, <2>2, WorkKept
<1>6. ASSUME NEW d \in Dispatchers, CommitDispatch(d) \/ Crash(d) PROVE WorkOK'
  BY <1>5, <1>6 DEF CommitDispatch, Crash
<1>7. ASSUME NEW i \in Items, BecomeDue(i) PROVE WorkOK'
  <2>1. \A j \in Items : row'[j].status = row[j].status /\ row'[j].attempts = row[j].attempts
    BY <1>7 DEF BecomeDue, TypeOK, RowState
  <2>. QED BY <1>7, <2>1 DEF BecomeDue, WorkOK
<1>8. ASSUME (\E p \in Producers : Produce(p)) \/ UNCHANGED vars PROVE WorkOK'
  BY <1>1, <1>8 DEF Produce, Look, Insert, RollBackProducer, vars
<1>. QED BY <1>2, <1>3, <1>4, <1>6, <1>7, <1>8 DEF Next, Dispatch, Produce

(* The accounting of hook calls.  A step that ends a dispatch moves its    *)
(* call from InFlight into the attempts or into the crashes.               *)
LEMMA CallsAreCountedStep == IInv /\ [Next]_vars => CallsAreCounted'
<1>. SUFFICES ASSUME TypeOK, ProducersOK, WorkOK, CallsAreCounted, [Next]_vars
              PROVE  CallsAreCounted'
  BY DEF IInv
<1>0. /\ \A i \in Items : row[i].attempts \in Nat /\ calls[i] \in Nat
      /\ crashes \in Nat /\ MaxAttempts \in Nat
  BY BoundsAssumption DEF TypeOK, RowState
<1>1. ASSUME UNCHANGED <<calls, crashes, work>>,
             \A i \in Items : row'[i].attempts = row[i].attempts
      PROVE  CallsAreCounted'
  BY <1>1 DEF CallsAreCounted, InFlight
<1>2. ASSUME NEW p \in Producers, CommitProducer(p) PROVE CallsAreCounted'
  <2>1. \A i \in Items : row'[i].attempts = row[i].attempts
    BY <1>2 DEF CommitProducer, ProducersOK, NoRow, TypeOK
  <2>. QED BY <1>1, <1>2, <2>1 DEF CommitProducer
<1>3. ASSUME NEW d \in Dispatchers, Select(d) PROVE CallsAreCounted'
  <2>1. \A i \in Items : InFlight(i) => InFlight(i)'
    BY <1>3, SelectEffect DEF InFlight
  <2>2. UNCHANGED <<row, calls, crashes>>
    BY <1>3, SelectEffect
  <2>. QED BY <1>0, <2>1, <2>2 DEF CallsAreCounted
<1>4. ASSUME NEW d \in Dispatchers, NEW i \in Items, Hook(d, i) PROVE CallsAreCounted'
  <2>1. work[d][i] = "selected"
    BY <1>4 DEF Hook
  <2>2. ~ InFlight(i)
    BY <2>1 DEF InFlight, WorkOK
  <2>3. InFlight(i)'
    BY <1>4, HookEffect DEF InFlight
  <2>4. \A j \in Items : j # i => (InFlight(j) => InFlight(j)')
    BY <1>4, HookEffect DEF InFlight
  <2>5. /\ calls'[i] = calls[i] + 1
        /\ \A j \in Items : j # i => calls'[j] = calls[j]
        /\ UNCHANGED <<row, crashes>>
    BY <1>4, HookEffect DEF TypeOK
  <2>. QED BY <1>0, <2>2, <2>3, <2>4, <2>5 DEF CallsAreCounted
<1>5. ASSUME NEW d \in Dispatchers, work' = [work EXCEPT ![d] = NotSelected],
             NEW i \in Items, InFlight(i), ~ InFlight(i)'
      PROVE  i \in Selected(d)
  BY <1>5, WorkReleased DEF InFlight, Selected
<1>6. ASSUME NEW d \in Dispatchers, CommitDispatch(d) PROVE CallsAreCounted'
  <2>1. ASSUME NEW i \in Items, i \in Selected(d)
        PROVE  row'[i].attempts = row[i].attempts + 1
    BY <1>6, <2>1 DEF CommitDispatch, Settled
  <2>2. ASSUME NEW i \in Items, i \notin Selected(d) PROVE row'[i] = row[i]
    BY <1>6, <2>2 DEF CommitDispatch
  <2>3. ASSUME NEW i \in Items, i \notin Selected(d), InFlight(i) PROVE InFlight(i)'
    BY <1>5, <1>6, <2>3 DEF CommitDispatch
  <2>4. UNCHANGED <<calls, crashes>>
    BY <1>6 DEF CommitDispatch
  <2>. QED BY <1>0, <2>1, <2>2, <2>3, <2>4 DEF CallsAreCounted
<1>7. ASSUME NEW d \in Dispatchers, Crash(d) PROVE CallsAreCounted'
  BY <1>0, <1>7 DEF Crash, CallsAreCounted
<1>8. ASSUME NEW i \in Items, BecomeDue(i) PROVE CallsAreCounted'
  <2>1. \A j \in Items : row'[j].attempts = row[j].attempts
    BY <1>8 DEF BecomeDue, TypeOK, RowState
  <2>. QED BY <1>1, <1>8, <2>1 DEF BecomeDue
<1>9. ASSUME (\E p \in Producers : Produce(p)) \/ UNCHANGED vars PROVE CallsAreCounted'
  BY <1>1, <1>9 DEF Produce, Look, Insert, RollBackProducer, vars
<1>. QED BY <1>2, <1>3, <1>4, <1>6, <1>7, <1>8, <1>9 DEF Next, Dispatch, Produce

-----------------------------------------------------------------------------
(* Every behaviour of the outbox satisfies the types, the locking facts    *)
(* and the accounting of hook calls.                                       *)
THEOREM Invariance == Spec => []IInv
<1>2. IInv /\ [Next]_vars => IInv'
  BY TypeOKStep, ProducersOKStep, WorkOKStep, CallsAreCountedStep DEF IInv
<1>. QED BY InitIInv, <1>2, PTL DEF Spec

(* Row, producers and dispatches keep their types; in particular no row    *)
(* ever counts more than max_attempts attempts.                            *)
THEOREM TypeCorrectness == Spec => []TypeOK
<1>1. IInv => TypeOK
  BY DEF IInv
<1>. QED BY <1>1, Invariance, PTL

(* No item is handed to the hook by two dispatches at once, and every call *)
(* but those of rolled-back dispatches is counted as an attempt.           *)
THEOREM HookCallsAreCounted == Spec => []CallsAreCounted
<1>1. IInv => CallsAreCounted
  BY DEF IInv
<1>. QED BY <1>1, Invariance, PTL

(* An item that is DISPATCHED keeps its row and is never handed to the     *)
(* hook again: no dispatch that selected it before can still be open.      *)
THEOREM DispatchedItemsAreFinal == Spec => DispatchedIsFinal
<1>1. ASSUME TypeOK, ProducersOK, WorkOK, [Next]_vars,
             NEW i \in Items, row[i].status = "dispatched"
      PROVE  row'[i] = row[i] /\ calls'[i] = calls[i]
  <2>1. \A d \in Dispatchers : work[d][i] = "no"
    BY <1>1 DEF WorkOK
  <2>2. ASSUME NEW p \in Producers, CommitProducer(p)
        PROVE  row'[i] = row[i] /\ calls'[i] = calls[i]
    <3>1. producer[p].item # i
      BY <1>1, <2>2 DEF CommitProducer, ProducersOK, NoRow
    <3>. QED BY <1>1, <2>2, <3>1 DEF CommitProducer, TypeOK
  <2>3. ASSUME NEW d \in Dispatchers, NEW j \in Items, Hook(d, j)
        PROVE  row'[i] = row[i] /\ calls'[i] = calls[i]
    <3>1. j # i
      BY <2>1, <2>3 DEF Hook
    <3>2. UNCHANGED row /\ calls' = [calls EXCEPT ![j] = @ + 1]
      BY <2>3 DEF Hook
    <3>. QED BY <1>1, <3>1, <3>2 DEF TypeOK
  <2>4. ASSUME NEW d \in Dispatchers, CommitDispatch(d)
        PROVE  row'[i] = row[i] /\ calls'[i] = calls[i]
    <3>1. i \notin Selected(d)
      BY <2>1 DEF Selected
    <3>. QED BY <2>4, <3>1 DEF CommitDispatch
  <2>5. ASSUME NEW j \in Items, BecomeDue(j)
        PROVE  row'[i] = row[i] /\ calls'[i] = calls[i]
    <3>1. j # i
      BY <1>1, <2>5 DEF BecomeDue
    <3>. QED BY <1>1, <2>5, <3>1 DEF BecomeDue, TypeOK
  <2>6. ASSUME \/ \E p \in Producers : Produce(p)
               \/ \E d \in Dispatchers : Select(d) \/ Crash(d)
               \/ UNCHANGED vars
        PROVE  row'[i] = row[i] /\ calls'[i] = calls[i]
    BY <2>6 DEF Produce, Look, Insert, RollBackProducer, Select, Crash, vars
  <2>. QED BY <1>1, <2>2, <2>3, <2>4, <2>5, <2>6 DEF Next, Dispatch, Produce
<1>2. IInv /\ [Next]_vars =>
        [\A i \in Items : row[i].status = "dispatched" =>
           row'[i] = row[i] /\ calls'[i] = calls[i]]_vars
  BY <1>1 DEF IInv
<1>. QED BY <1>2, Invariance, PTL DEF Spec, DispatchedIsFinal

-----------------------------------------------------------------------------
(***************************************************************************)
(* Refinement.  QueueState maps each row by Place, so a step is understood *)
(* from the rows it changes.                                               *)
(***************************************************************************)

(* An item that a dispatch holds is queued.                                *)
LEMMA HeldIsQueued ==
    ASSUME TypeOK, WorkOK, NEW d \in Dispatchers, NEW i \in Items, work[d][i] # "no"
    PROVE  Place(row[i]) = "queued"
<1>1. /\ row[i].status \in {"pending", "failed"} /\ row[i].attempts < MaxAttempts
      /\ row[i].attempts \in 0..MaxAttempts /\ MaxAttempts \in Nat
  BY BoundsAssumption DEF WorkOK, TypeOK, RowState
<1>2. row[i].attempts # MaxAttempts
  BY <1>1
<1>. QED BY <1>1, <1>2 DEF Place

(* The row of a producer that commits appears in the queue.                *)
LEMMA CommitPuts ==
    ASSUME TypeOK, ProducersOK, NEW p \in Producers, CommitProducer(p)
    PROVE  Queue!Next
<1>1. PICK i \in Items : i = producer[p].item /\ row[i] = NoRow
  BY DEF CommitProducer, ProducersOK
<1>2. /\ row'[i] = [status |-> "pending", attempts |-> 0, due |-> TRUE]
      /\ \A j \in Items : j # i => row'[j] = row[j]
      /\ UNCHANGED accepted
  BY <1>1 DEF CommitProducer, TypeOK
<1>3. MaxAttempts # 0
  BY BoundsAssumption
<1>4. Place(row[i]) = "absent" /\ Place(row'[i]) = "queued"
  BY <1>1, <1>2, <1>3 DEF Place, NoRow
<1>5. QueueState[i] = "absent"
  BY <1>4 DEF QueueState
<1>6. QueueState' = [QueueState EXCEPT ![i] = "queued"]
  BY <1>2, <1>4 DEF QueueState
<1>. QED BY <1>2, <1>5, <1>6 DEF Queue!Next, Queue!Put

(* A turn of a dispatch hands over a queued item.                          *)
LEMMA HookHands ==
    ASSUME TypeOK, WorkOK, NEW d \in Dispatchers, NEW i \in Items, Hook(d, i)
    PROVE  Queue!Next
<1>1. /\ work[d][i] # "no" /\ UNCHANGED row
      /\ accepted' \in {accepted, accepted \union {i}}
  BY DEF Hook
<1>2. Place(row[i]) = "queued"
  BY <1>1, HeldIsQueued
<1>3. QueueState[i] = "queued" /\ UNCHANGED QueueState
  BY <1>1, <1>2 DEF QueueState
<1>. QED BY <1>1, <1>3 DEF Queue!Next, Queue!Hand

(* What a committed dispatch does to each item.                            *)
LEMMA CommitSettles ==
    ASSUME TypeOK, WorkOK, NEW d \in Dispatchers, CommitDispatch(d), NEW i \in Items
    PROVE  \/ Place(row'[i]) = Place(row[i])
           \/ Place(row[i]) = "queued" /\ i \in accepted /\ Place(row'[i]) = "done"
           \/ Place(row[i]) = "queued" /\ Place(row'[i]) = "dropped"
<1>1. CASE i \notin Selected(d)
  <2>1. row'[i] = row[i]
    BY <1>1 DEF CommitDispatch
  <2>. QED BY <2>1
<1>2. CASE i \in Selected(d)
  <2>1. work[d][i] # "no"
    BY <1>2 DEF Selected
  <2>2. Place(row[i]) = "queued"
    BY <2>1, HeldIsQueued
  <2>3. work[d][i] \in {"accepted", "refused"}
    BY <1>2, <2>1 DEF CommitDispatch, TypeOK
  <2>4. row'[i] = Settled(i, work[d][i])
    BY <1>2 DEF CommitDispatch
  <2>5. CASE work[d][i] = "accepted"
    <3>1. i \in accepted
      BY <2>5 DEF WorkOK
    <3>2. row'[i].status = "dispatched"
      BY <2>4, <2>5 DEF Settled, StatusAfter
    <3>3. Place(row'[i]) = "done"
      BY <3>2 DEF Place
    <3>. QED BY <2>2, <3>1, <3>3
  <2>6. CASE work[d][i] = "refused"
    <3>1. row'[i].status = "failed"
      BY <2>4, <2>6 DEF Settled, StatusAfter
    <3>2. Place(row'[i]) \in {"dropped", "queued"}
      BY <3>1 DEF Place
    <3>. QED BY <2>2, <3>2
  <2>. QED BY <2>3, <2>5, <2>6
<1>. QED BY <1>1, <1>2

(* The outbox implements the at-least-once queue: an item appears when its *)
(* producer commits, and a committed dispatch settles only items that the  *)
(* hook has accepted or whose attempts are used up.                        *)
THEOREM OutboxIsAQueue == Spec => ImplementsQueue
<1>1. Init => Queue!Init
  <2>1. Place(NoRow) = "absent"
    BY BoundsAssumption DEF Place, NoRow
  <2>. QED BY <2>1 DEF Init, Queue!Init, QueueState
<1>2. ASSUME TypeOK, ProducersOK, WorkOK, [Next]_vars
      PROVE  [Queue!Next]_<<QueueState, accepted>>
  <2>1. ASSUME NEW d \in Dispatchers, CommitDispatch(d) PROVE Queue!Next
    <3>1. \A i \in Items :
            \/ QueueState'[i] = QueueState[i]
            \/ QueueState[i] = "queued" /\ i \in accepted /\ QueueState'[i] = "done"
            \/ QueueState[i] = "queued" /\ QueueState'[i] = "dropped"
      BY <1>2, <2>1, CommitSettles DEF QueueState
    <3>2. QueueState' \in [Items -> {"absent", "queued", "done", "dropped"}]
      BY DEF QueueState, Place
    <3>3. UNCHANGED accepted
      BY <2>1 DEF CommitDispatch
    <3>. QED BY <3>1, <3>2, <3>3 DEF Queue!Next, Queue!Settle
  <2>2. ASSUME NEW j \in Items, BecomeDue(j) PROVE UNCHANGED <<QueueState, accepted>>
    <3>1. \A i \in Items : row'[i].status = row[i].status /\ row'[i].attempts = row[i].attempts
      BY <1>2, <2>2 DEF BecomeDue, TypeOK, RowState
    <3>2. \A i \in Items : Place(row'[i]) = Place(row[i])
      BY <3>1 DEF Place
    <3>. QED BY <2>2, <3>2 DEF QueueState, BecomeDue
  <2>3. ASSUME \/ \E p \in Producers : Produce(p)
               \/ \E d \in Dispatchers : Select(d) \/ Crash(d)
               \/ UNCHANGED vars
        PROVE  UNCHANGED <<QueueState, accepted>>
    <3>1. UNCHANGED <<row, accepted>>
      BY <2>3 DEF Produce, Look, Insert, RollBackProducer, Select, Crash, vars
    <3>. QED BY <3>1 DEF QueueState
  <2>. QED BY <1>2, <2>1, <2>2, <2>3, CommitPuts, HookHands DEF Next, Dispatch, Produce
<1>3. IInv /\ [Next]_vars => [Queue!Next]_<<QueueState, accepted>>
  BY <1>2 DEF IInv
<1>. QED BY <1>1, <1>3, Invariance, PTL DEF Spec, ImplementsQueue, Queue!Spec
=============================================================================
