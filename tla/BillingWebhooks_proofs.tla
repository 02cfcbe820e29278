----------------------- MODULE BillingWebhooks_proofs -----------------------
(***************************************************************************)
(* Proofs about BillingWebhooks, for any number of workers, customers,     *)
(* events and replays, and any histories of the provider.                  *)
(*                                                                         *)
(* None of the safety invariants is inductive: what a worker has read and  *)
(* buffered between two of its steps must be known too.  TxOK says what an *)
(* open transaction carries, RowsOK that no two open transactions hold the *)
(* same row and that a held row keeps its object.  ReadOK (for the payload *)
(* of a snapshot) and CasesOK (for the dunning counts) add what they know  *)
(* of the subscriptions and of the cases they have read.                   *)
(***************************************************************************)
EXTENDS BillingWebhooks, Sums_proofs, TLAPS

Handled(w) == pc[w] \in {"handled", "recalculated"}

(* What a worker's transaction carries between two of its steps.           *)
CarriedOK(w) ==
    /\ pc[w] # "idle" => /\ tx[w].event \in Events
                         /\ content[tx[w].event] \in EventRecord
    /\ pc[w] = "recalculated" => tx[w].customer \in Customers
    /\ pc[w] = "replying" => webhook[tx[w].event] # "absent"
    /\ Handled(w) /\ tx[w].customer = NoCustomer => ~ Touches(tx[w].event)
    /\ Handled(w) /\ StoresRow(content[tx[w].event]) =>
         /\ tx[w].row # 0
         /\ tx[w].record.object = content[tx[w].event].object
    /\ tx[w].row # 0 => tx[w].record \in Row /\ Handled(w)
TxOK == \A w \in Workers : CarriedOK(w)

(* A row that an open transaction has written is its own, and keeps its    *)
(* object; a row not yet created is empty and is nobody's.                 *)
RowsOK ==
    /\ \A r \in RowIds : nextRow <= r => rows[r] = NoRow
    /\ \A w \in Workers : tx[w].row # 0 =>
         /\ tx[w].row < nextRow
         /\ rows[tx[w].row] # NoRow => rows[tx[w].row].object = tx[w].record.object
         /\ \A v \in Workers \ {w} : tx[v].row # tx[w].row

IInv ==
    /\ TypeOK /\ TxOK /\ RowsOK
    /\ AckedIsLogged /\ ProcessedIsAnnounced /\ SnapshotIsLogged /\ ProcessedIsStored

-----------------------------------------------------------------------------
(***************************************************************************)
(* The operators that build rows and transactions.                         *)
(***************************************************************************)

(* A stored event makes a well-formed row of the event's object.           *)
LEMMA UpsertRecordType ==
    ASSUME NEW c \in EventRecord, StoresRow(c)
    PROVE  UpsertRecord(c) \in Row /\ UpsertRecord(c).object = c.object
<1>1. c.customer \in Customers /\ c.object \in Objects /\ c.ends \in When
        /\ c.trial \in When /\ c.status \in StripeStatuses \union InvoiceStatuses
  BY DEF EventRecord, StoresRow
<1>2. UpsertStatus(c) \in RowStatuses
  BY DEF UpsertStatus, SubscriptionStatusOf, PaymentStatusOf, RowStatuses,
         SubscriptionStatuses, InvoiceStatuses, PaymentStatuses
<1>. QED BY <1>1, <1>2 DEF UpsertRecord, Row, When

(* An amendment changes a row's status and end, never its object.          *)
LEMMA AmendRecordType ==
    ASSUME NEW c \in EventRecord, NEW row \in Row
    PROVE  /\ AmendRecord(c, row) \in Row
           /\ AmendRecord(c, row).object = row.object
<1>1. AmendStatus(c.type) \in RowStatuses
  BY DEF AmendStatus, RowStatuses, SubscriptionStatuses, CheckoutStatuses, PaymentStatuses
<1>2. c.ends \in When /\ row.ends \in When
  BY DEF EventRecord, Row
<1>. QED BY <1>1, <1>2 DEF AmendRecord, Row

(* Publishing a transaction changes only its own row and its own case.     *)
LEMMA PublishRowEffect ==
    ASSUME TypeOK, TxOK, NEW w \in Workers, PublishRow(w)
    PROVE  /\ rows' \in [RowIds -> Row \union {NoRow}]
           /\ dunning' \in [CaseKeys -> Nat]
           /\ \A r \in RowIds : r # tx[w].row => rows'[r] = rows[r]
           /\ tx[w].row # 0 => tx[w].row \in RowIds /\ rows'[tx[w].row] = tx[w].record
<1>1. /\ tx[w].row \in 0..MaxRow /\ tx[w].case \in CaseKeys \union {NoCase}
      /\ tx[w].attempts \in Nat /\ MaxRow \in Nat
  BY BoundAssumption DEF TypeOK, Transaction
<1>2. tx[w].row # 0 => tx[w].row \in RowIds /\ tx[w].record \in Row
  BY <1>1 DEF TxOK, CarriedOK, RowIds
<1>3. rows \in [RowIds -> Row \union {NoRow}] /\ dunning \in [CaseKeys -> Nat]
  BY DEF TypeOK
<1>4. dunning' \in [CaseKeys -> Nat]
  BY <1>1, <1>3 DEF PublishRow
<1>. QED BY <1>2, <1>3, <1>4 DEF PublishRow, Written

-----------------------------------------------------------------------------
(***************************************************************************)
(* TypeOK.                                                                 *)
(***************************************************************************)

(* An empty transaction is a transaction.                                  *)
LEMMA NoTxType == NoTx \in Transaction
<1>1. MaxRow \in Nat BY BoundAssumption
<1>. QED BY <1>1 DEF NoTx, Transaction

LEMMA InitType == Init => TypeOK
<1>. SUFFICES ASSUME Init PROVE TypeOK
  OBVIOUS
<1>2. /\ webhook \in [Events -> {"absent", "failed", "processed"}]
      /\ rows \in [RowIds -> Row \union {NoRow}]
      /\ dunning \in [CaseKeys -> Nat]
      /\ snapshot \in [Customers -> Snapshot]
      /\ replay \in [Replays -> {"none", "requested", "replayed", "failed"}]
  BY DEF Init, Snapshot
<1>3. /\ tries \in [Events -> Nat] /\ faults \in 0..MaxFaults
      /\ pc \in [Workers -> PCs] /\ tx \in [Workers -> Transaction]
      /\ sync \in [status: {"healthy", "degraded", "failing"}, errors: 0..3]
  BY NoTxType, BoundAssumption DEF Init, PCs
<1>4. asked \in [Askers -> Question] /\ \A a \in Askers : asked[a].at = "none"
  BY DEF Init, NoAsk, Question
<1>. QED BY <1>2, <1>3, <1>4 DEF Init, TypeOK

(* What a failed run writes.                                               *)
LEMMA LogFailureType ==
    ASSUME TypeOK, TxOK, NEW w \in Workers, Open(w), LogFailure(w)
    PROVE  /\ webhook' \in [Events -> {"absent", "failed", "processed"}]
           /\ sync' \in [status: {"healthy", "degraded", "failing"}, errors: 0..3]
           /\ replay' \in [Replays -> {"none", "requested", "replayed", "failed"}]
           /\ pc' \in [Workers -> PCs]
           /\ tx' \in [Workers -> Transaction]
           /\ UNCHANGED <<nextRow, content, asked, acked, tries>>
<1>1. tx[w] \in Transaction
  BY DEF TypeOK
<1>2. [NoTx EXCEPT !.event = tx[w].event, !.by = tx[w].by] \in Transaction
  BY <1>1, NoTxType DEF Transaction, NoTx
<1>3. Raised(sync.errors) \in [status: {"healthy", "degraded", "failing"}, errors: 0..3]
  BY DEF TypeOK, Raised
<1>. QED BY <1>1, <1>2, <1>3 DEF TypeOK, LogFailure, EndTx, PCs

(* What a recalculation publishes.                                         *)
LEMMA PublishSnapshotType ==
    ASSUME TypeOK, TxOK, NEW w \in Workers, pc[w] = "recalculated", PublishSnapshot(w)
    PROVE  /\ snapshot' \in [Customers -> Snapshot]
           /\ \A entry \in changeLog' : entry.customer \in Customers /\ entry.version \in Nat
           /\ EntitlementsChanged(w)
                \in [type: {"billing.entitlements.changed"}, key: Customers \X Nat]
           /\ ProviderEventProcessed(tx[w].event)
                \in [type: {"billing.provider_event.processed"}, key: Events]
<1>1. tx[w].customer \in Customers /\ tx[w].version \in Nat
        /\ tx[w].payload \in SUBSET RowIds /\ tx[w].event \in Events
  BY DEF TypeOK, TxOK, CarriedOK, Transaction
<1>2. [version |-> tx[w].version, payload |-> tx[w].payload, reason |-> "webhook"]
        \in Snapshot
  BY <1>1 DEF Snapshot
<1>. QED BY <1>1, <1>2 DEF TypeOK, PublishSnapshot, ChangeOf, EntitlementsChanged,
                         ProviderEventProcessed

(* What a handler buffers keeps a transaction one.                         *)
LEMMA FieldsBuffered ==
    ASSUME NEW E, NEW B, NEW R, NEW D, NEW K, NEW A, NEW C, NEW P, NEW V,
           NEW t \in [event: E, by: B, row: R, record: D, case: K, attempts: A,
                      customer: C, payload: P, version: V],
           NEW r \in R, NEW record \in D, NEW case \in K, NEW n \in A, NEW customer \in C
    PROVE  [t EXCEPT !.row = r, !.record = record, !.customer = customer,
                     !.case = case, !.attempts = n]
             \in [event: E, by: B, row: R, record: D, case: K, attempts: A,
                  customer: C, payload: P, version: V]
<1>. DEFINE Rec == [event: E, by: B, row: R, record: D, case: K, attempts: A,
                    customer: C, payload: P, version: V]
<1>1. PICK a \in Rec : a = [t EXCEPT !.row = r]
  OBVIOUS
<1>2. PICK b \in Rec : b = [a EXCEPT !.record = record]
  OBVIOUS
<1>3. PICK c \in Rec : c = [b EXCEPT !.customer = customer]
  OBVIOUS
<1>4. PICK d \in Rec : d = [c EXCEPT !.case = case]
  OBVIOUS
<1>5. [d EXCEPT !.attempts = n] \in Rec
  OBVIOUS
<1>. QED BY <1>1, <1>2, <1>3, <1>4, <1>5

LEMMA TransactionBuffered ==
    ASSUME NEW t \in Transaction, NEW r \in 0..MaxRow, NEW record \in Row \union {NoRow},
           NEW case \in CaseKeys \union {NoCase}, NEW n \in Nat,
           NEW customer \in Customers \union {NoCustomer}
    PROVE  [t EXCEPT !.row = r, !.record = record, !.customer = customer,
                     !.case = case, !.attempts = n] \in Transaction
BY FieldsBuffered DEF Transaction

LEMMA TypeOKStep == TypeOK /\ TxOK /\ [Next]_vars => TypeOK'
<1>. SUFFICES ASSUME TypeOK, TxOK, [Next]_vars PROVE TypeOK'
  OBVIOUS
<1>. USE BoundAssumption, NoTxType
<1>1. ASSUME NEW w \in Workers, NEW e \in Events, NEW by \in Replays \union {Provider},
             Call(w, e, by), replay' \in [Replays -> {"none", "requested", "replayed", "failed"}]
      PROVE  TypeOK'
  <2>1. [NoTx EXCEPT !.event = e, !.by = by] \in Transaction
    BY DEF NoTx, Transaction
  <2>. QED BY <1>1, <2>1 DEF TypeOK, Call, AfterLookup, PCs, database
<1>2. ASSUME NEW w \in Workers, NEW e \in Events, Deliver(w, e) PROVE TypeOK'
  BY <1>1, <1>2 DEF TypeOK, Deliver
<1>3. ASSUME NEW w \in Workers, NEW q \in Replays, NEW e \in Events, ReplayNow(w, q, e)
      PROVE  TypeOK'
  BY <1>1, <1>3 DEF TypeOK, ReplayNow
<1>4. ASSUME NEW q \in Replays, NEW e \in Events, RequestReplay(q, e) PROVE TypeOK'
  BY <1>4 DEF TypeOK, RequestReplay, database, environment
<1>6. ASSUME NEW o \in Objects, NEW c \in Customers, CreateCheckoutSession(o, c)
      PROVE  TypeOK'
  <2>1. [object |-> o, customer |-> c, status |-> "open", ends |-> "never",
         trial |-> "never", grace |-> "never"] \in Row
    BY DEF Row, RowStatuses, CheckoutStatuses, When
  <2>2. nextRow \in RowIds /\ nextRow' \in Nat \ {0}
    BY <1>6 DEF TypeOK, CreateCheckoutSession, RowIds
  <2>3. rows' \in [RowIds -> Row \union {NoRow}]
    BY <1>6, <2>1, <2>2 DEF TypeOK, CreateCheckoutSession
  <2>. QED BY <1>6, <2>2, <2>3 DEF TypeOK, CreateCheckoutSession, environment
<1>7. ASSUME NEW w \in Workers, NEW r \in 0..MaxRow, NEW record \in Row \union {NoRow},
             NEW case \in CaseKeys \union {NoCase},
             NEW customer \in Customers \union {NoCustomer},
             Buffer(w, r, record, case, customer), nextRow' \in Nat \ {0}
      PROVE  TypeOK'
  <2>1. tx[w] \in Transaction
    BY DEF TypeOK
  <2>2. PICK n \in Nat : n = IF case = NoCase THEN 0 ELSE dunning[case] + 1
    <3>1. case # NoCase => dunning[case] \in Nat
      BY DEF TypeOK
    <3>. QED BY <3>1
  <2>. DEFINE t == [tx[w] EXCEPT !.row = r, !.record = record, !.customer = customer,
                                 !.case = case, !.attempts = n]
  <2>3. t \in Transaction
    BY <2>1, TransactionBuffered
  <2>4. /\ tx' = [tx EXCEPT ![w] = t] /\ pc' = [pc EXCEPT ![w] = "handled"]
        /\ UNCHANGED <<database, replay, content, asked, environment>>
    BY <1>7, <2>2 DEF Buffer
  <2>. HIDE DEF t
  <2>. QED BY <1>7, <2>3, <2>4 DEF TypeOK, PCs, database, environment
<1>8. ASSUME NEW w \in Workers, Upsert(w) PROVE TypeOK'
  <2>1. content[tx[w].event] \in EventRecord
    BY <1>8 DEF TxOK, CarriedOK, Upsert
  <2>2. PICK r \in RowIds, p \in 0..MaxRow :
          /\ nextRow' = nextRow + 1 \/ nextRow' = nextRow
          /\ Buffer(w, r, UpsertRecord(content[tx[w].event]),
                    IF content[tx[w].event].type = "invoice.payment_failed"
                    THEN <<p, r>> ELSE NoCase,
                    content[tx[w].event].customer)
    BY <1>8, Zenon DEF Upsert
  <2>3. UpsertRecord(content[tx[w].event]) \in Row
    BY <1>8, <2>1, UpsertRecordType DEF Upsert
  <2>4. content[tx[w].event].customer \in Customers \union {NoCustomer}
    BY <2>1 DEF EventRecord
  <2>5. /\ <<p, r>> \in CaseKeys /\ r \in 0..MaxRow
        /\ nextRow' \in Nat \ {0}
    BY <2>2 DEF CaseKeys, RowIds, TypeOK
  <2>. QED BY <1>7, <2>2, <2>3, <2>4, <2>5
<1>9. ASSUME NEW w \in Workers, Amend(w) PROVE TypeOK'
  <2>1. content[tx[w].event] \in EventRecord
    BY <1>9 DEF TxOK, CarriedOK, Amend
  <2>2. PICK r \in RowIds :
          /\ rows[r] # NoRow
          /\ Buffer(w, r, AmendRecord(content[tx[w].event], rows[r]), NoCase,
                    rows[r].customer)
    BY <1>9 DEF Amend, IsFirst, RowsOf
  <2>3. rows[r] \in Row
    BY <2>2 DEF TypeOK
  <2>4. AmendRecord(content[tx[w].event], rows[r]) \in Row
    BY <2>1, <2>3, AmendRecordType
  <2>5. rows[r].customer \in Customers /\ r \in 0..MaxRow
    BY <2>3 DEF Row, RowIds
  <2>6. nextRow' \in Nat \ {0}
    BY <1>9 DEF Amend, TypeOK
  <2>. QED BY <1>7, <2>2, <2>4, <2>5, <2>6
<1>10. ASSUME NEW w \in Workers, PassOver(w) PROVE TypeOK'
  <2>1. content[tx[w].event].customer \in Customers \union {NoCustomer}
    BY <1>10 DEF TxOK, CarriedOK, PassOver, EventRecord
  <2>2. Buffer(w, 0, NoRow, NoCase,
               IF content[tx[w].event].type = "other" THEN NoCustomer
               ELSE content[tx[w].event].customer)
    BY <1>10, Zenon DEF PassOver
  <2>3. nextRow' \in Nat \ {0}
    BY <1>10 DEF PassOver, TypeOK
  <2>. QED BY <1>7, <2>1, <2>2, <2>3
<1>11. ASSUME NEW w \in Workers, Recalculate(w) PROVE TypeOK'
  <2>1. tx[w] \in Transaction /\ tx[w].customer \in Customers
    BY <1>11 DEF TypeOK, Recalculate, Transaction
  <2>2. snapshot[tx[w].customer].version + 1 \in Nat
    BY <2>1 DEF TypeOK, Snapshot
  <2>3. GrantingRows(RowsSeenBy(w), tx[w].customer) \in SUBSET RowIds
    BY DEF GrantingRows
  <2>4. [tx[w] EXCEPT !.payload = GrantingRows(RowsSeenBy(w), tx[w].customer),
                      !.version = snapshot[tx[w].customer].version + 1] \in Transaction
    BY <2>1, <2>2, <2>3 DEF Transaction
  <2>. QED BY <1>11, <2>4 DEF TypeOK, Recalculate, PCs, database, environment
<1>12. ASSUME NEW w \in Workers, FailInHandler(w) PROVE TypeOK'
  <2>1. Open(w) /\ faults' \in 0..MaxFaults
    BY <1>12 DEF FailInHandler, Open, SpendFault, TypeOK
  <2>. QED BY <1>12, <2>1, LogFailureType DEF FailInHandler, TypeOK
<1>13. ASSUME NEW w \in Workers, FailInRecalculation(w) PROVE TypeOK'
  <2>1. Open(w) /\ faults' \in 0..MaxFaults
    BY <1>13 DEF FailInRecalculation, Open, SpendFault, TypeOK
  <2>. QED BY <1>13, <2>1, LogFailureType, PublishRowEffect DEF FailInRecalculation, TypeOK
<1>14. ASSUME NEW w \in Workers, FailInEnqueue(w) \/ FailInSync(w) PROVE TypeOK'
  <2>1. Open(w) /\ faults' \in 0..MaxFaults
    BY <1>14 DEF FailInEnqueue, FailInSync, PublishRun, Open, SpendFault, TypeOK
  <2>. QED BY <1>14, <2>1, LogFailureType, PublishRowEffect, PublishSnapshotType
           DEF FailInEnqueue, FailInSync, PublishRun, TypeOK
<1>15. ASSUME NEW w \in Workers, Commit(w) PROVE TypeOK'
  <2>1. tx[w] \in Transaction
    BY DEF TypeOK
  <2>2. [NoTx EXCEPT !.event = tx[w].event, !.by = tx[w].by] \in Transaction
    BY <2>1 DEF Transaction, NoTx
  <2>3. /\ webhook' \in [Events -> {"absent", "failed", "processed"}]
        /\ replay' \in [Replays -> {"none", "requested", "replayed", "failed"}]
        /\ pc' \in [Workers -> PCs]
        /\ tx' \in [Workers -> Transaction]
    BY <1>15, <2>1, <2>2 DEF TypeOK, Commit, PublishRun, EndTx, PCs
  <2>6. sync' \in [status: {"healthy", "degraded", "failing"}, errors: 0..3]
    BY <1>15 DEF Commit, PublishRun
  <2>4. /\ rows' \in [RowIds -> Row \union {NoRow}]
        /\ dunning' \in [CaseKeys -> Nat]
    BY <1>15, PublishRowEffect DEF Commit, PublishRun
  <2>5. /\ snapshot' \in [Customers -> Snapshot]
        /\ \A entry \in changeLog' : entry.customer \in Customers /\ entry.version \in Nat
        /\ outbox' \subseteq
             [type: {"billing.entitlements.changed"}, key: Customers \X Nat]
               \union [type: {"billing.provider_event.processed"}, key: Events]
    <3>1. CASE pc[w] = "recalculated"
      <4>1. /\ PublishSnapshot(w)
            /\ outbox' = outbox \union {EntitlementsChanged(w),
                                        ProviderEventProcessed(tx[w].event)}
        BY <1>15, <3>1 DEF Commit, PublishRun
      <4>. QED BY <3>1, <4>1, PublishSnapshotType DEF TypeOK
    <3>2. CASE pc[w] # "recalculated"
      BY <1>15, <3>2 DEF Commit, PublishRun, TypeOK
    <3>. QED BY <3>1, <3>2
  <2>. QED BY <1>15, <2>3, <2>4, <2>5, <2>6 DEF Commit, PublishRun, TypeOK, environment
<1>16. ASSUME NEW w \in Workers, RollBack(w) PROVE TypeOK'
  BY <1>16 DEF TypeOK, RollBack, SpendFault, PCs, database
<1>17. ASSUME NEW w \in Workers, Reply(w) PROVE TypeOK'
  BY <1>17 DEF TypeOK, TxOK, CarriedOK, Reply, PCs, database
<1>18. ASSUME NEW w \in Workers, LoseReply(w) PROVE TypeOK'
  BY <1>18 DEF TypeOK, LoseReply, SpendFault, PCs, database
<1>19. ASSUME NEW r \in RowIds, TimePasses(r) PROVE TypeOK'
  <2>1. rows[r] \in Row
    BY <1>19 DEF TypeOK, TimePasses
  <2>2. rows' \in [RowIds -> Row \union {NoRow}]
    BY <1>19, <2>1 DEF TypeOK, TimePasses, Row, When
  <2>. QED BY <1>19, <2>2 DEF TypeOK, TimePasses, environment
<1>20. CASE UNCHANGED vars
  BY <1>20 DEF TypeOK, vars, database, environment
<1>21. ASSUME NEW a \in Askers, NEW c \in Customers, Ask(a, c) PROVE TypeOK'
  <2>1. snapshot[c].version + 1 \in Nat
    BY DEF TypeOK, Snapshot
  <2>2. [at |-> "read", customer |-> c, payload |-> GrantingRows(rows, c),
         version |-> snapshot[c].version + 1] \in Question
    BY <2>1 DEF Question, GrantingRows
  <2>3. /\ asked' \in [Askers -> Question]
        /\ \A b \in Askers : asked'[b].at = "read" => asked'[b].customer \in Customers
    BY <1>21, <2>2 DEF TypeOK, Ask
  <2>. QED BY <1>21, <2>3 DEF TypeOK, Ask, database, environment
<1>22. ASSUME NEW a \in Askers, Answer(a) PROVE TypeOK'
  <2>1. asked[a] \in Question
    BY DEF TypeOK
  <2>2. [version |-> asked[a].version, payload |-> asked[a].payload, reason |-> "asked"]
          \in Snapshot
    BY <2>1 DEF Question, Snapshot
  <2>3. snapshot' \in [Customers -> Snapshot]
    BY <1>22, <2>2 DEF TypeOK, Answer
  <2>4. [asked[a] EXCEPT !.at = "answered"] \in Question
    BY <2>1 DEF Question
  <2>5. /\ asked' \in [Askers -> Question]
        /\ \A b \in Askers : asked'[b].at = "read" => asked'[b].customer \in Customers
    BY <1>22, <2>1, <2>4 DEF TypeOK, Answer, Question
  <2>. QED BY <1>22, <2>3, <2>5 DEF TypeOK, Answer, environment
<1>. QED BY <1>2, <1>3, <1>4, <1>6, <1>8, <1>9, <1>10, <1>11, <1>12, <1>13, <1>14,
            <1>15, <1>16, <1>17, <1>18, <1>19, <1>20, <1>21, <1>22 DEF Next, Step

-----------------------------------------------------------------------------
(***************************************************************************)
(* TxOK.                                                                   *)
(***************************************************************************)

LEMMA InitTx == Init => TxOK
BY DEF Init, TxOK, CarriedOK, Handled, NoTx

(* A step of another worker, or of none, disturbs nothing that v carries.  *)
LEMMA OthersKept ==
    ASSUME NEW v \in Workers, CarriedOK(v), TypeOK, UNCHANGED content,
           pc'[v] = pc[v], tx'[v] = tx[v],
           \A e \in Events : webhook[e] # "absent" => webhook'[e] # "absent"
    PROVE  CarriedOK(v)'
BY DEF CarriedOK, Handled, Touches, TypeOK, PCs

(* A worker whose transaction is closed carries only its event.            *)
LEMMA ClosedCarried ==
    ASSUME NEW w \in Workers, TypeOK, UNCHANGED content, tx'[w].row = 0,
           \/ pc'[w] = "idle"
           \/ /\ pc'[w] \in {"begun", "replying"}
              /\ tx'[w].event \in Events
              /\ content[tx'[w].event] \in EventRecord
              /\ pc'[w] = "replying" => webhook'[tx'[w].event] # "absent"
    PROVE  CarriedOK(w)'
BY DEF CarriedOK, Handled

(* The steps that end a run: every one closes the transaction.             *)
LEMMA EndedCarried ==
    ASSUME TypeOK, TxOK, NEW w \in Workers, Open(w), EndTx(w), UNCHANGED content,
           NEW status \in {"failed", "processed"},
           webhook' = [webhook EXCEPT ![tx[w].event] = status]
    PROVE  TxOK'
<1>1. /\ tx[w].event \in Events
      /\ content[tx[w].event] \in EventRecord
  BY DEF TxOK, CarriedOK, Open
<1>2. \A e \in Events : webhook[e] # "absent" => webhook'[e] # "absent"
  BY <1>1 DEF TypeOK
<1>3. /\ pc'[w] = "replying" /\ tx'[w].row = 0 /\ tx'[w].event = tx[w].event
      /\ webhook'[tx[w].event] # "absent"
  BY <1>1 DEF EndTx, NoTx, TypeOK
<1>4. CarriedOK(w)'
  BY <1>1, <1>3, ClosedCarried
<1>5. ASSUME NEW v \in Workers, v # w PROVE CarriedOK(v)'
  <2>1. pc'[v] = pc[v] /\ tx'[v] = tx[v]
    BY <1>5 DEF EndTx, TypeOK
  <2>. QED BY <2>1, <1>2, OthersKept DEF TxOK
<1>. QED BY <1>4, <1>5 DEF TxOK

(* The steps that abandon or answer a run.                                 *)
LEMMA IdleCarried ==
    ASSUME TypeOK, TxOK, NEW w \in Workers, UNCHANGED <<content, webhook>>,
           pc' = [pc EXCEPT ![w] = "idle"], tx' = [tx EXCEPT ![w] = NoTx]
    PROVE  TxOK'
<1>1. CarriedOK(w)'
  BY ClosedCarried DEF TypeOK, NoTx
<1>2. ASSUME NEW v \in Workers, v # w PROVE CarriedOK(v)'
  BY <1>2, OthersKept DEF TypeOK, TxOK
<1>. QED BY <1>1, <1>2 DEF TxOK

(* The handlers' common end.                                               *)
LEMMA BufferedCarried ==
    ASSUME TypeOK, TxOK, NEW w \in Workers, NEW r \in 0..MaxRow,
           NEW record \in Row \union {NoRow}, NEW case, NEW customer,
           Buffer(w, r, record, case, customer), pc[w] = "begun",
           r # 0 => record \in Row,
           customer = NoCustomer => ~ Touches(tx[w].event),
           StoresRow(content[tx[w].event]) =>
              r # 0 /\ record.object = content[tx[w].event].object
    PROVE  TxOK'
<1>1. tx[w] \in Transaction
  BY DEF TypeOK
<1>2. /\ tx'[w].event = tx[w].event /\ tx'[w].row = r /\ tx'[w].record = record
      /\ tx'[w].customer = customer
      /\ pc'[w] = "handled" /\ UNCHANGED <<content, webhook>>
  BY <1>1 DEF Buffer, TypeOK, Transaction, database
<1>3. CarriedOK(w)'
  BY <1>2 DEF TxOK, CarriedOK, Handled, Touches
<1>4. ASSUME NEW v \in Workers, v # w PROVE CarriedOK(v)'
  BY <1>4, <1>2, OthersKept DEF TypeOK, TxOK, Buffer
<1>. QED BY <1>3, <1>4 DEF TxOK

LEMMA TxOKStep == TypeOK /\ TxOK /\ [Next]_vars => TxOK'
<1>. SUFFICES ASSUME TypeOK, TxOK, [Next]_vars PROVE TxOK'
  OBVIOUS
<1>1. ASSUME NEW w \in Workers, NEW e \in Events, NEW by, Call(w, e, by) PROVE TxOK'
  <2>1. content[e] \in EventRecord
    BY <1>1, HistoriesAssumption DEF TypeOK, Call
  <2>2. /\ UNCHANGED <<content, webhook>> /\ tx'[w].event = e /\ tx'[w].row = 0
        /\ pc'[w] \in {"begun", "replying"}
        /\ pc'[w] = "replying" => webhook[e] = "processed"
    BY <1>1 DEF TypeOK, Call, AfterLookup, NoTx, database
  <2>3. CarriedOK(w)'
    BY <2>1, <2>2, ClosedCarried
  <2>4. ASSUME NEW v \in Workers, v # w PROVE CarriedOK(v)'
    BY <1>1, <2>2, <2>4, OthersKept DEF TypeOK, TxOK, Call
  <2>. QED BY <2>3, <2>4 DEF TxOK
<1>2. ASSUME NEW w \in Workers, NEW e \in Events, Deliver(w, e) PROVE TxOK'
  BY <1>1, <1>2 DEF Deliver
<1>3. ASSUME NEW w \in Workers, NEW q \in Replays, NEW e \in Events, ReplayNow(w, q, e)
      PROVE  TxOK'
  BY <1>1, <1>3 DEF ReplayNow
<1>4. ASSUME UNCHANGED <<content, webhook, pc, tx>> PROVE TxOK'
  BY <1>4, OthersKept DEF TxOK
<1>5. ASSUME NEW w \in Workers, Upsert(w) PROVE TxOK'
  <2>1. content[tx[w].event] \in EventRecord
    BY <1>5 DEF TxOK, CarriedOK, Upsert
  <2>2. PICK r \in RowIds, p \in 0..MaxRow :
          Buffer(w, r, UpsertRecord(content[tx[w].event]),
                 IF content[tx[w].event].type = "invoice.payment_failed"
                 THEN <<p, r>> ELSE NoCase,
                 content[tx[w].event].customer)
    BY <1>5, Zenon DEF Upsert
  <2>3. /\ UpsertRecord(content[tx[w].event]) \in Row
        /\ UpsertRecord(content[tx[w].event]).object = content[tx[w].event].object
    BY <1>5, <2>1, UpsertRecordType DEF Upsert
  <2>4. /\ pc[w] = "begun" /\ content[tx[w].event].customer # NoCustomer
        /\ r \in 0..MaxRow /\ r # 0
    BY <1>5 DEF Upsert, StoresRow, RowIds
  <2>. QED BY <2>2, <2>3, <2>4, BufferedCarried
<1>6. ASSUME NEW w \in Workers, Amend(w) PROVE TxOK'
  <2>1. content[tx[w].event] \in EventRecord
    BY <1>6 DEF TxOK, CarriedOK, Amend
  <2>2. PICK r \in RowIds :
          /\ rows[r] # NoRow
          /\ Buffer(w, r, AmendRecord(content[tx[w].event], rows[r]), NoCase,
                    rows[r].customer)
    BY <1>6 DEF Amend, IsFirst, RowsOf
  <2>3. rows[r] \in Row
    BY <2>2 DEF TypeOK
  <2>4. AmendRecord(content[tx[w].event], rows[r]) \in Row
    BY <2>1, <2>3, AmendRecordType
  <2>5. /\ pc[w] = "begun" /\ rows[r].customer # NoCustomer
        /\ r \in 0..MaxRow /\ r # 0
    BY <1>6, <2>3, NoValueAssumption DEF Amend, Row, RowIds
  <2>6. ~ StoresRow(content[tx[w].event])
    BY <1>6 DEF Amend, StoresRow, Amends, Upserts, SubscriptionUpserts, InvoiceUpserts,
                PaymentUpserts
  <2>. QED BY <2>2, <2>4, <2>5, <2>6, BufferedCarried
<1>7. ASSUME NEW w \in Workers, PassOver(w) PROVE TxOK'
  <2>1. /\ pc[w] = "begun" /\ ~ StoresRow(content[tx[w].event])
        /\ Buffer(w, 0, NoRow, NoCase,
                  IF content[tx[w].event].type = "other" THEN NoCustomer
                  ELSE content[tx[w].event].customer)
    BY <1>7, Zenon DEF PassOver
  <2>2. (IF content[tx[w].event].type = "other" THEN NoCustomer
         ELSE content[tx[w].event].customer) = NoCustomer => ~ Touches(tx[w].event)
    BY DEF Touches
  <2>3. 0 \in 0..MaxRow
    BY BoundAssumption
  <2>. QED BY <2>1, <2>2, <2>3, BufferedCarried
<1>8. ASSUME NEW w \in Workers, Recalculate(w) PROVE TxOK'
  <2>1. tx[w] \in Transaction
    BY DEF TypeOK
  <2>2. /\ tx'[w].event = tx[w].event /\ tx'[w].row = tx[w].row
        /\ tx'[w].record = tx[w].record /\ tx'[w].customer = tx[w].customer
        /\ pc[w] = "handled" /\ pc'[w] = "recalculated"
        /\ UNCHANGED <<content, webhook>>
        /\ tx[w].customer \in Customers
    BY <1>8, <2>1 DEF Recalculate, TypeOK, Transaction, database
  <2>3. CarriedOK(w)'
    BY <2>2 DEF TxOK, CarriedOK, Handled, Touches
  <2>4. ASSUME NEW v \in Workers, v # w PROVE CarriedOK(v)'
    BY <1>8, <2>2, <2>4, OthersKept DEF TypeOK, TxOK, Recalculate
  <2>. QED BY <2>3, <2>4 DEF TxOK
<1>9. ASSUME NEW w \in Workers, Open(w), LogFailure(w) PROVE TxOK'
  BY <1>9, EndedCarried DEF LogFailure
<1>10. ASSUME NEW w \in Workers,
              FailInHandler(w) \/ FailInRecalculation(w) \/ FailInEnqueue(w) \/ FailInSync(w)
       PROVE  TxOK'
  BY <1>9, <1>10 DEF FailInHandler, FailInRecalculation, FailInEnqueue, FailInSync, PublishRun,
                     Open
<1>11. ASSUME NEW w \in Workers, Commit(w) PROVE TxOK'
  BY <1>11, EndedCarried DEF Commit, PublishRun, Open
<1>12. ASSUME NEW w \in Workers, RollBack(w) \/ Reply(w) \/ LoseReply(w) PROVE TxOK'
  BY <1>12, IdleCarried DEF RollBack, Reply, LoseReply, database
<1>13. ASSUME \/ \E q \in Replays, e \in Events : RequestReplay(q, e)
              \/ \E o \in Objects, c \in Customers : CreateCheckoutSession(o, c)
              \/ \E a \in Askers, c \in Customers : Ask(a, c)
              \/ \E a \in Askers : Answer(a)
              \/ \E r \in RowIds : TimePasses(r)
              \/ UNCHANGED vars
       PROVE  TxOK'
  BY <1>4, <1>13 DEF RequestReplay, CreateCheckoutSession, Ask, Answer, TimePasses,
                     vars, database
<1>. QED BY <1>2, <1>3, <1>5, <1>6, <1>7, <1>8, <1>10, <1>11, <1>12, <1>13 DEF Next, Step

-----------------------------------------------------------------------------
(***************************************************************************)
(* RowsOK.                                                                 *)
(***************************************************************************)

LEMMA InitRows == Init => RowsOK
BY DEF Init, RowsOK, NoTx

(* A worker that holds no row afterwards, and has written none but its own. *)
LEMMA RowReleased ==
    ASSUME TypeOK, RowsOK, NEW w \in Workers, tx'[w].row = 0,
           \A v \in Workers \ {w} : tx'[v] = tx[v], UNCHANGED nextRow,
           \A r \in RowIds : r # tx[w].row => rows'[r] = rows[r]
    PROVE  RowsOK'
<1>1. /\ nextRow \in Nat /\ RowIds \subseteq Nat
      /\ \A v \in Workers : tx[v].row \in 0..MaxRow
  BY DEF TypeOK, Transaction, RowIds
<1>2. ASSUME NEW r \in RowIds, nextRow <= r PROVE rows'[r] = NoRow
  <2>1. rows[r] = NoRow
    BY <1>2 DEF RowsOK
  <2>2. tx[w].row # 0 => tx[w].row < nextRow
    BY DEF RowsOK
  <2>3. tx[w].row # r
    BY <1>1, <1>2, <2>2 DEF RowIds
  <2>. QED BY <2>1, <2>3
<1>3. ASSUME NEW v \in Workers, tx'[v].row # 0
      PROVE  /\ tx'[v].row < nextRow
             /\ rows'[tx'[v].row] # NoRow => rows'[tx'[v].row].object = tx'[v].record.object
             /\ \A u \in Workers \ {v} : tx'[u].row # tx'[v].row
  <2>1. v # w /\ tx'[v] = tx[v]
    BY <1>3
  <2>2. tx[v].row \in RowIds /\ tx[v].row # tx[w].row
    BY <1>1, <1>3, <2>1, BoundAssumption DEF RowsOK, RowIds
  <2>. QED BY <1>3, <2>1, <2>2 DEF RowsOK
<1>. QED BY <1>2, <1>3 DEF RowsOK

(* A worker that takes hold of a row that is free: one just numbered, or   *)
(* one that is nobody else's.                                              *)
LEMMA RowTaken ==
    ASSUME TypeOK, RowsOK, NEW w \in Workers, UNCHANGED rows,
           \A v \in Workers \ {w} : tx'[v] = tx[v],
           tx'[w].row \in RowIds,
           \/ tx'[w].row = nextRow /\ nextRow' = nextRow + 1
           \/ /\ UNCHANGED nextRow
              /\ rows[tx'[w].row] # NoRow
              /\ rows[tx'[w].row].object = tx'[w].record.object
              /\ \A v \in Workers \ {w} : tx[v].row # tx'[w].row
    PROVE  RowsOK'
<1>1. nextRow \in Nat /\ nextRow' \in Nat /\ nextRow <= nextRow' /\ RowIds \subseteq Nat
  BY DEF TypeOK, RowIds
<1>2. ASSUME NEW r \in RowIds, nextRow' <= r PROVE rows'[r] = NoRow
  <2>1. nextRow <= r
    BY <1>1, <1>2
  <2>. QED BY <2>1 DEF RowsOK
<1>3. /\ tx'[w].row < nextRow'
      /\ rows[tx'[w].row] # NoRow => rows[tx'[w].row].object = tx'[w].record.object
  <2>1. tx'[w].row = nextRow => rows[tx'[w].row] = NoRow
    BY <1>1 DEF RowsOK
  <2>2. rows[tx'[w].row] # NoRow => tx'[w].row < nextRow
    <3>1. \A r \in RowIds : rows[r] # NoRow => ~ (nextRow <= r)
      BY DEF RowsOK
    <3>2. \A r \in RowIds : ~ (nextRow <= r) => r < nextRow
      BY <1>1
    <3>. QED BY <3>1, <3>2
  <2>. QED BY <1>1, <2>1, <2>2
<1>4. ASSUME NEW v \in Workers \ {w}
      PROVE  /\ tx[v].row # 0 => tx[v].row < nextRow'
             /\ tx[v].row # tx'[w].row
  <2>1. tx[v].row \in Nat /\ (tx[v].row # 0 => tx[v].row < nextRow)
    BY BoundAssumption DEF TypeOK, Transaction, RowsOK
  <2>2. 0 \notin RowIds
    BY DEF RowIds
  <2>. QED BY <1>1, <2>1, <2>2
<1>. QED BY <1>2, <1>3, <1>4 DEF RowsOK

LEMMA RowsOKStep == TypeOK /\ TxOK /\ RowsOK /\ [Next]_vars => RowsOK'
<1>. SUFFICES ASSUME TypeOK, TxOK, RowsOK, [Next]_vars PROVE RowsOK'
  OBVIOUS
<1>1. ASSUME NEW w \in Workers, NEW e \in Events, NEW by, Call(w, e, by) PROVE RowsOK'
  BY <1>1, RowReleased DEF Call, NoTx, TypeOK, database
<1>2. ASSUME NEW w \in Workers, NEW e \in Events, Deliver(w, e) PROVE RowsOK'
  BY <1>1, <1>2 DEF Deliver
<1>3. ASSUME NEW w \in Workers, NEW q \in Replays, NEW e \in Events, ReplayNow(w, q, e)
      PROVE  RowsOK'
  BY <1>1, <1>3 DEF ReplayNow
<1>4. ASSUME UNCHANGED <<rows, nextRow, tx>> PROVE RowsOK'
  BY <1>4 DEF RowsOK
<1>5. ASSUME NEW o \in Objects, NEW c \in Customers, CreateCheckoutSession(o, c)
      PROVE  RowsOK'
  <2>1. /\ nextRow \in RowIds /\ nextRow' = nextRow + 1 /\ UNCHANGED tx
        /\ \A r \in RowIds : r # nextRow => rows'[r] = rows[r]
    BY <1>5 DEF CreateCheckoutSession, TypeOK, RowIds
  <2>2. /\ \A v \in Workers : tx[v].row \in 0..MaxRow
        /\ RowIds \subseteq Nat /\ MaxRow \in Nat
    BY BoundAssumption DEF TypeOK, Transaction, RowIds
  <2>3. \A r \in RowIds : nextRow' <= r => r # nextRow /\ nextRow <= r
    BY <2>1, <2>2
  <2>4. \A v \in Workers : tx[v].row # 0 =>
          tx[v].row \in RowIds /\ tx[v].row # nextRow /\ tx[v].row < nextRow'
    BY <2>1, <2>2 DEF RowsOK, RowIds
  <2>. QED BY <2>1, <2>3, <2>4 DEF RowsOK
<1>6. ASSUME NEW w \in Workers, Upsert(w) PROVE RowsOK'
  <2>. DEFINE c == content[tx[w].event]
  <2>1. c \in EventRecord
    BY <1>6 DEF TxOK, CarriedOK, Upsert
  <2>2. PICK r \in RowIds, p \in 0..MaxRow :
          /\ \/ /\ r = nextRow
                /\ nextRow' = nextRow + 1
             \/ /\ RowsOf(c.object) = {r}
                /\ Unlocked(w, r)
                /\ UNCHANGED nextRow
          /\ Buffer(w, r, UpsertRecord(c),
                    IF c.type = "invoice.payment_failed" THEN <<p, r>> ELSE NoCase,
                    c.customer)
    BY <1>6, Zenon DEF Upsert
  <2>3. UpsertRecord(c).object = c.object
    BY <1>6, <2>1, UpsertRecordType DEF Upsert
  <2>4. tx[w] \in Transaction
    BY DEF TypeOK
  <2>5. /\ tx'[w].row = r /\ tx'[w].record = UpsertRecord(c)
        /\ UNCHANGED rows /\ \A v \in Workers \ {w} : tx'[v] = tx[v]
    BY <2>2, <2>4 DEF Buffer, TypeOK, Transaction, database
  <2>6. RowsOf(c.object) = {r} => rows[r] # NoRow /\ rows[r].object = c.object
    BY DEF RowsOf
  <2>7. Unlocked(w, r) => \A v \in Workers \ {w} : tx[v].row # r
    BY DEF Unlocked, TxOK, CarriedOK, Handled, Open, RowIds
  <2>. QED BY <2>2, <2>3, <2>5, <2>6, <2>7, RowTaken
<1>7. ASSUME NEW w \in Workers, Amend(w) PROVE RowsOK'
  <2>. DEFINE c == content[tx[w].event]
  <2>1. c \in EventRecord
    BY <1>7 DEF TxOK, CarriedOK, Amend
  <2>2. PICK r \in RowIds :
          /\ rows[r] # NoRow
          /\ Unlocked(w, r)
          /\ Buffer(w, r, AmendRecord(c, rows[r]), NoCase, rows[r].customer)
    BY <1>7 DEF Amend, IsFirst, RowsOf
  <2>3. AmendRecord(c, rows[r]).object = rows[r].object
    BY <2>1, <2>2, AmendRecordType DEF TypeOK
  <2>4. tx[w] \in Transaction
    BY DEF TypeOK
  <2>5. /\ tx'[w].row = r /\ tx'[w].record = AmendRecord(c, rows[r])
        /\ UNCHANGED <<rows, nextRow>> /\ \A v \in Workers \ {w} : tx'[v] = tx[v]
    BY <1>7, <2>2, <2>4 DEF Amend, Buffer, TypeOK, Transaction, database
  <2>6. \A v \in Workers \ {w} : tx[v].row # r
    BY <2>2 DEF Unlocked, TxOK, CarriedOK, Handled, Open, RowIds
  <2>. QED BY <2>2, <2>3, <2>5, <2>6, RowTaken
<1>8. ASSUME NEW w \in Workers, PassOver(w) PROVE RowsOK'
  <2>1. tx[w] \in Transaction
    BY DEF TypeOK
  <2>2. PICK customer : Buffer(w, 0, NoRow, NoCase, customer)
    BY <1>8, Zenon DEF PassOver
  <2>3. /\ tx'[w].row = 0 /\ UNCHANGED <<rows, nextRow>>
        /\ \A v \in Workers \ {w} : tx'[v] = tx[v]
    BY <1>8, <2>1, <2>2 DEF PassOver, Buffer, TypeOK, Transaction, database
  <2>. QED BY <2>3, RowReleased
<1>9. ASSUME NEW w \in Workers, Recalculate(w) PROVE RowsOK'
  <2>1. tx[w] \in Transaction
    BY DEF TypeOK
  <2>2. /\ UNCHANGED <<rows, nextRow>>
        /\ \A v \in Workers : tx'[v].row = tx[v].row /\ tx'[v].record = tx[v].record
    BY <1>9, <2>1 DEF Recalculate, TypeOK, Transaction, database
  <2>. QED BY <2>2 DEF RowsOK
<1>10. ASSUME NEW w \in Workers, PublishRow(w) \/ UNCHANGED rows, EndTx(w), UNCHANGED nextRow
       PROVE  RowsOK'
  <2>1. tx'[w].row = 0 /\ \A v \in Workers \ {w} : tx'[v] = tx[v]
    BY <1>10 DEF EndTx, NoTx, TypeOK
  <2>2. \A r \in RowIds : r # tx[w].row => rows'[r] = rows[r]
    BY <1>10, PublishRowEffect
  <2>. QED BY <1>10, <2>1, <2>2, RowReleased
<1>11. ASSUME NEW w \in Workers,
              \/ FailInHandler(w) \/ FailInRecalculation(w) \/ FailInEnqueue(w) \/ FailInSync(w)
              \/ Commit(w)
       PROVE  RowsOK'
  BY <1>10, <1>11 DEF FailInHandler, FailInRecalculation, FailInEnqueue, FailInSync, PublishRun,
                      Commit, LogFailure
<1>12. ASSUME NEW w \in Workers, RollBack(w) \/ Reply(w) \/ LoseReply(w) PROVE RowsOK'
  <2>1. /\ tx'[w].row = 0 /\ UNCHANGED <<rows, nextRow>>
        /\ \A v \in Workers \ {w} : tx'[v] = tx[v]
    BY <1>12 DEF RollBack, Reply, LoseReply, NoTx, TypeOK, database
  <2>. QED BY <2>1, RowReleased
<1>13. ASSUME NEW r \in RowIds, TimePasses(r) PROVE RowsOK'
  <2>1. /\ rows[r] \in Row /\ rows[r] # NoRow
        /\ UNCHANGED <<nextRow, tx>>
    BY <1>13 DEF TypeOK, TimePasses
  <2>2. /\ rows'[r].object = rows[r].object
        /\ \A i \in RowIds : i # r => rows'[i] = rows[i]
    BY <1>13, <2>1 DEF TypeOK, TimePasses, Row
  <2>3. \A v \in Workers : tx[v].row # 0 => tx[v].row \in RowIds
    BY BoundAssumption DEF TypeOK, Transaction, RowIds
  <2>. QED BY <2>1, <2>2, <2>3 DEF RowsOK
<1>14. ASSUME \/ \E q \in Replays, e \in Events : RequestReplay(q, e)
              \/ \E a \in Askers, c \in Customers : Ask(a, c)
              \/ \E a \in Askers : Answer(a)
              \/ UNCHANGED vars
       PROVE  RowsOK'
  BY <1>4, <1>14 DEF RequestReplay, Ask, Answer, vars, database
<1>. QED BY <1>2, <1>3, <1>5, <1>6, <1>7, <1>8, <1>9, <1>11, <1>12, <1>13, <1>14
         DEF Next, Step

-----------------------------------------------------------------------------
(***************************************************************************)
(* What a step may do to the log, the snapshots, the outbox and the rows.  *)
(***************************************************************************)

(* Every step that is not a commit, a logged failure, a reply or an        *)
(* asker's answer leaves the log, the snapshots, the outbox and the        *)
(* acknowledgements alone.                                                 *)
Published == <<webhook, snapshot, changeLog, outbox>>
LoggedFailure(w) ==
    /\ Open(w)
    /\ webhook' = [webhook EXCEPT ![tx[w].event] = "failed"]
    /\ UNCHANGED acked
    /\ \/ UNCHANGED <<snapshot, changeLog, outbox>>
       \/ /\ pc[w] = "recalculated"
          /\ PublishSnapshot(w)
          /\ outbox' = outbox \union {EntitlementsChanged(w)}
       \/ PublishRun(w)

LEMMA StepKinds ==
    ASSUME [Next]_vars
    PROVE  \/ UNCHANGED <<Published, acked>>
           \/ \E w \in Workers : LoggedFailure(w)
           \/ \E w \in Workers : Commit(w)
           \/ \E w \in Workers : Reply(w)
           \/ \E a \in Askers : Answer(a)
<1>. USE DEF Published
<1>1. ASSUME NEW w \in Workers, FailInHandler(w) \/ FailInRecalculation(w)
                                \/ FailInEnqueue(w) \/ FailInSync(w)
      PROVE  LoggedFailure(w)
  BY <1>1 DEF FailInHandler, FailInRecalculation, FailInEnqueue, FailInSync, PublishRun,
              LogFailure, LoggedFailure, Open
<1>2. ASSUME NEW w \in Workers,
             \/ Upsert(w) \/ Amend(w) \/ PassOver(w)
             \/ Recalculate(w) \/ RollBack(w) \/ LoseReply(w)
      PROVE  UNCHANGED <<Published, acked>>
  BY <1>2 DEF Upsert, Amend, PassOver, Buffer, Recalculate, RollBack, LoseReply, database,
              environment
<1>3. ASSUME NEW w \in Workers, NEW e \in Events, NEW by, Call(w, e, by)
      PROVE  UNCHANGED <<Published, acked>>
  BY <1>3 DEF Call, database
<1>4. ASSUME \/ \E q \in Replays, e \in Events : RequestReplay(q, e)
             \/ \E o \in Objects, c \in Customers : CreateCheckoutSession(o, c)
             \/ \E a \in Askers, c \in Customers : Ask(a, c)
             \/ \E r \in RowIds : TimePasses(r)
             \/ UNCHANGED vars
      PROVE  UNCHANGED <<Published, acked>>
  BY <1>4 DEF RequestReplay, CreateCheckoutSession, Ask, TimePasses, vars,
              database, environment
<1>. QED BY <1>1, <1>2, <1>3, <1>4 DEF Next, Step, Deliver, ReplayNow

(* No step removes a row or changes its object.                            *)
LEMMA ObjectsKept ==
    ASSUME TypeOK, TxOK, RowsOK, [Next]_vars, NEW r \in RowIds, rows[r] # NoRow
    PROVE  rows'[r] # NoRow /\ rows'[r].object = rows[r].object
<1>. rows[r] \in Row /\ rows[r].object # NoObject
  BY NoValueAssumption DEF TypeOK, Row
<1>1. ASSUME UNCHANGED rows PROVE rows'[r] # NoRow /\ rows'[r].object = rows[r].object
  BY <1>1
<1>2. ASSUME NEW w \in Workers, PublishRow(w)
      PROVE  rows'[r] # NoRow /\ rows'[r].object = rows[r].object
  <2>1. CASE tx[w].row = r
    <3>1. r # 0 /\ rows'[r] = tx[w].record /\ tx[w].record.object = rows[r].object
      BY <1>2, <2>1, PublishRowEffect DEF RowsOK, RowIds
    <3>. QED BY <3>1 DEF NoRow
  <2>2. CASE tx[w].row # r
    BY <1>2, <2>2, PublishRowEffect
  <2>. QED BY <2>1, <2>2
<1>3. ASSUME NEW w \in Workers, Step(w)
      PROVE  rows'[r] # NoRow /\ rows'[r].object = rows[r].object
  BY <1>1, <1>2, <1>3 DEF Step, Upsert, Amend, PassOver, Buffer, Recalculate, FailInHandler,
                          FailInRecalculation, Commit, FailInEnqueue, FailInSync, PublishRun,
                          RollBack, Reply, LoseReply, database
<1>4. ASSUME NEW w \in Workers, NEW e \in Events, NEW by, Call(w, e, by)
      PROVE  rows'[r] # NoRow /\ rows'[r].object = rows[r].object
  BY <1>1, <1>4 DEF Call, database
<1>5. ASSUME NEW o \in Objects, NEW c \in Customers, CreateCheckoutSession(o, c)
      PROVE  rows'[r] # NoRow /\ rows'[r].object = rows[r].object
  <2>1. r # nextRow
    BY DEF RowsOK, TypeOK
  <2>. QED BY <1>5, <2>1 DEF CreateCheckoutSession, TypeOK
<1>6. ASSUME NEW s \in RowIds, TimePasses(s)
      PROVE  rows'[r] # NoRow /\ rows'[r].object = rows[r].object
  <2>1. rows'[r].object = rows[r].object
    BY <1>6 DEF TimePasses, TypeOK, Row
  <2>. QED BY <2>1 DEF NoRow
<1>7. ASSUME \/ \E q \in Replays, e \in Events : RequestReplay(q, e)
             \/ \E a \in Askers, c \in Customers : Ask(a, c)
             \/ \E a \in Askers : Answer(a)
             \/ UNCHANGED vars
      PROVE  rows'[r] # NoRow /\ rows'[r].object = rows[r].object
  BY <1>1, <1>7 DEF RequestReplay, Ask, Answer, vars, database
<1>. QED BY <1>3, <1>4, <1>5, <1>6, <1>7 DEF Next, Deliver, ReplayNow

-----------------------------------------------------------------------------
(***************************************************************************)
(* The safety invariants.                                                  *)
(***************************************************************************)

LEMMA AckedIsLoggedStep ==
    ASSUME TypeOK, TxOK, AckedIsLogged, [Next]_vars
    PROVE  AckedIsLogged'
<1>1. CASE UNCHANGED <<Published, acked>>
  BY <1>1 DEF AckedIsLogged, Published
<1>2. ASSUME NEW w \in Workers, LoggedFailure(w) \/ Commit(w) PROVE AckedIsLogged'
  BY <1>2 DEF LoggedFailure, Commit, PublishRun, AckedIsLogged, TypeOK, environment
<1>3. ASSUME NEW w \in Workers, Reply(w) PROVE AckedIsLogged'
  BY <1>3 DEF Reply, AckedIsLogged, TxOK, CarriedOK, database
<1>4. ASSUME NEW a \in Askers, Answer(a) PROVE AckedIsLogged'
  BY <1>4 DEF Answer, AckedIsLogged, environment
<1>. QED BY <1>1, <1>2, <1>3, <1>4, StepKinds

LEMMA ProcessedIsAnnouncedStep ==
    ASSUME TypeOK, TxOK, ProcessedIsAnnounced, [Next]_vars, UNCHANGED content
    PROVE  ProcessedIsAnnounced'
<1>1. CASE UNCHANGED <<Published, acked>>
  BY <1>1 DEF ProcessedIsAnnounced, Published, ProviderEventProcessed, Touches
<1>2. ASSUME NEW w \in Workers, LoggedFailure(w) PROVE ProcessedIsAnnounced'
  <2>1. outbox \subseteq outbox'
    BY <1>2 DEF LoggedFailure, PublishRun
  <2>2. \A e \in Events : webhook'[e] = "processed" => webhook[e] = "processed"
    BY <1>2 DEF LoggedFailure, TypeOK
  <2>. QED BY <2>1, <2>2 DEF ProcessedIsAnnounced, ProviderEventProcessed, Touches
<1>3. ASSUME NEW w \in Workers, Commit(w) PROVE ProcessedIsAnnounced'
  <2>1. outbox \subseteq outbox'
    BY <1>3 DEF Commit, PublishRun
  <2>2. \A e \in Events : e # tx[w].event => webhook'[e] = webhook[e]
    BY <1>3 DEF Commit, PublishRun, TypeOK
  <2>3. Touches(tx[w].event) => ProviderEventProcessed(tx[w].event) \in outbox'
    BY <1>3 DEF Commit, PublishRun, TxOK, CarriedOK, Handled
  <2>. QED BY <2>1, <2>2, <2>3 DEF ProcessedIsAnnounced, ProviderEventProcessed, Touches
<1>4. ASSUME NEW w \in Workers, Reply(w) PROVE ProcessedIsAnnounced'
  BY <1>4 DEF Reply, database, ProcessedIsAnnounced, ProviderEventProcessed, Touches
<1>5. ASSUME NEW a \in Askers, Answer(a) PROVE ProcessedIsAnnounced'
  BY <1>5 DEF Answer, ProcessedIsAnnounced, ProviderEventProcessed, Touches
<1>. QED BY <1>1, <1>2, <1>3, <1>4, <1>5, StepKinds

(* A published recalculation is logged and announced; a step that          *)
(* publishes none keeps every snapshot and every entry.                    *)
LEMMA PublishedIsLogged ==
    ASSUME TypeOK, SnapshotIsLogged, outbox \subseteq outbox',
           \/ UNCHANGED <<snapshot, changeLog>>
           \/ \E w \in Workers : /\ PublishSnapshot(w)
                                 /\ EntitlementsChanged(w) \in outbox'
    PROVE  SnapshotIsLogged'
<1>1. CASE UNCHANGED <<snapshot, changeLog>>
  BY <1>1 DEF SnapshotIsLogged
<1>2. ASSUME NEW w \in Workers, PublishSnapshot(w), EntitlementsChanged(w) \in outbox',
             NEW c \in Customers, snapshot'[c].reason = "webhook"
      PROVE  /\ [customer |-> c, version |-> snapshot'[c].version,
                 payload |-> snapshot'[c].payload] \in changeLog'
             /\ [type |-> "billing.entitlements.changed",
                 key |-> <<c, snapshot'[c].version>>] \in outbox'
  <2>1. CASE c = tx[w].customer
    BY <1>2, <2>1 DEF PublishSnapshot, ChangeOf, EntitlementsChanged, TypeOK
  <2>2. CASE c # tx[w].customer
    <3>1. snapshot'[c] = snapshot[c] /\ changeLog \subseteq changeLog'
      BY <1>2, <2>2 DEF PublishSnapshot, TypeOK
    <3>. QED BY <1>2, <3>1 DEF SnapshotIsLogged
  <2>. QED BY <2>1, <2>2
<1>. QED BY <1>1, <1>2 DEF SnapshotIsLogged

LEMMA SnapshotIsLoggedStep ==
    ASSUME TypeOK, SnapshotIsLogged, [Next]_vars
    PROVE  SnapshotIsLogged'
<1>1. CASE UNCHANGED <<Published, acked>>
  BY <1>1, PublishedIsLogged DEF Published
<1>2. ASSUME NEW w \in Workers, LoggedFailure(w) PROVE SnapshotIsLogged'
  BY <1>2, PublishedIsLogged DEF LoggedFailure, PublishRun
<1>3. ASSUME NEW w \in Workers, Commit(w) PROVE SnapshotIsLogged'
  BY <1>3, PublishedIsLogged DEF Commit, PublishRun
<1>4. ASSUME NEW w \in Workers, Reply(w) PROVE SnapshotIsLogged'
  BY <1>4, PublishedIsLogged DEF Reply, database
<1>5. ASSUME NEW a \in Askers, Answer(a) PROVE SnapshotIsLogged'
  <2>1. /\ \A c \in Customers : snapshot'[c].reason = "webhook" => snapshot'[c] = snapshot[c]
        /\ UNCHANGED <<changeLog, outbox>>
    BY <1>5 DEF Answer, TypeOK
  <2>. QED BY <2>1 DEF SnapshotIsLogged
<1>. QED BY <1>1, <1>2, <1>3, <1>4, <1>5, StepKinds

LEMMA ProcessedIsStoredStep ==
    ASSUME TypeOK, TxOK, RowsOK, ProcessedIsStored, [Next]_vars, UNCHANGED content
    PROVE  ProcessedIsStored'
<1>1. ASSUME NEW e \in Events, webhook[e] = "processed", StoresRow(content[e])
      PROVE  \E r \in RowIds : rows'[r] # NoRow /\ rows'[r].object = content[e].object
  <2>1. PICK r \in RowIds : rows[r] # NoRow /\ rows[r].object = content[e].object
    BY <1>1 DEF ProcessedIsStored
  <2>. QED BY <2>1, ObjectsKept
<1>2. ASSUME NEW e \in Events, webhook[e] # "processed", webhook'[e] = "processed",
             StoresRow(content[e])
      PROVE  \E r \in RowIds : rows'[r] # NoRow /\ rows'[r].object = content[e].object
  <2>1. PICK w \in Workers : Commit(w) /\ tx[w].event = e
    BY <1>2, StepKinds DEF Published, LoggedFailure, Commit, PublishRun, Reply, Answer, TypeOK,
                           database
  <2>2. Handled(w) /\ PublishRow(w)
    BY <2>1 DEF Commit, PublishRun, Handled
  <2>3. /\ tx[w].row # 0 /\ tx[w].record.object = content[e].object
        /\ tx[w].record \in Row
    BY <1>2, <2>1, <2>2 DEF TxOK, CarriedOK
  <2>4. tx[w].row \in RowIds /\ rows'[tx[w].row] = tx[w].record
    BY <2>2, <2>3, PublishRowEffect
  <2>5. tx[w].record # NoRow
    BY <2>3, NoValueAssumption DEF NoRow, Row
  <2>. QED BY <2>3, <2>4, <2>5
<1>. QED BY <1>1, <1>2 DEF ProcessedIsStored

(* The provider's history never changes.                                   *)
LEMMA HistoryKept == [Next]_vars => UNCHANGED content
<1>. SUFFICES ASSUME [Next]_vars PROVE UNCHANGED content
  OBVIOUS
<1>1. ASSUME NEW w \in Workers, Step(w) PROVE UNCHANGED content
  BY <1>1 DEF Step, Upsert, Amend, PassOver, Buffer, Recalculate, FailInHandler,
              FailInRecalculation, Commit, FailInEnqueue, FailInSync, PublishRun, LogFailure,
              RollBack, Reply, LoseReply
<1>2. ASSUME ~ \E w \in Workers : Step(w) PROVE UNCHANGED content
  BY <1>2 DEF Next, Deliver, ReplayNow, Call, RequestReplay,
       CreateCheckoutSession, Ask, Answer, TimePasses, vars
<1>. QED BY <1>1, <1>2

LEMMA InitIInv == Init => IInv
BY InitType, InitTx, InitRows
   DEF Init, IInv, AckedIsLogged, ProcessedIsAnnounced, SnapshotIsLogged, ProcessedIsStored

LEMMA StepIInv == IInv /\ [Next]_vars => IInv'
BY TypeOKStep, TxOKStep, RowsOKStep, HistoryKept, AckedIsLoggedStep,
   ProcessedIsAnnouncedStep, SnapshotIsLoggedStep, ProcessedIsStoredStep
   DEF IInv

-----------------------------------------------------------------------------
(***************************************************************************)
(* What a recalculation reads of the row its own transaction wrote.        *)
(***************************************************************************)

ReadOK(w) ==
    /\ tx[w].row # 0 => tx[w].record.customer = tx[w].customer
    /\ pc[w] = "recalculated" /\ tx[w].row # 0 =>
         (tx[w].row \in tx[w].payload <=> Grants(tx[w].record))

(* The row of an upsert or an amendment belongs to the transaction's       *)
(* customer.                                                               *)
LEMMA HandlerReadOK ==
    ASSUME TypeOK, TxOK, NEW w \in Workers, Upsert(w) \/ Amend(w) \/ PassOver(w)
    PROVE  ReadOK(w)' /\ \A v \in Workers \ {w} : tx'[v] = tx[v] /\ pc'[v] = pc[v]
<1>0. tx[w] \in Transaction
  BY DEF TypeOK
<1>1. SUFFICES ASSUME NEW r \in 0..MaxRow, NEW record, NEW case, NEW customer,
                      Buffer(w, r, record, case, customer), r # 0 => record.customer = customer
               PROVE  ReadOK(w)' /\ \A v \in Workers \ {w} : tx'[v] = tx[v] /\ pc'[v] = pc[v]
  <2>. DEFINE c == content[tx[w].event]
  <2>1. CASE Upsert(w)
    <3>1. PICK r \in RowIds, p \in 0..MaxRow :
            Buffer(w, r, UpsertRecord(c),
                   IF c.type = "invoice.payment_failed" THEN <<p, r>> ELSE NoCase, c.customer)
      BY <2>1, Zenon DEF Upsert
    <3>2. r \in 0..MaxRow /\ UpsertRecord(c).customer = c.customer
      BY BoundAssumption DEF RowIds, UpsertRecord
    <3>. QED BY <1>1, <3>1, <3>2
  <2>2. CASE Amend(w)
    <3>1. PICK r \in RowIds :
            rows[r] # NoRow /\ Buffer(w, r, AmendRecord(c, rows[r]), NoCase, rows[r].customer)
      BY <2>2 DEF Amend, IsFirst, RowsOf
    <3>2. rows[r] \in Row /\ r \in 0..MaxRow
      BY <3>1, BoundAssumption DEF TypeOK, RowIds
    <3>3. AmendRecord(c, rows[r]).customer = rows[r].customer
      BY <3>2 DEF AmendRecord, Row
    <3>. QED BY <1>1, <3>1, <3>2, <3>3
  <2>3. CASE PassOver(w)
    <3>1. Buffer(w, 0, NoRow, NoCase, IF c.type = "other" THEN NoCustomer ELSE c.customer)
      BY <2>3, Zenon DEF PassOver
    <3>2. 0 \in 0..MaxRow
      BY BoundAssumption
    <3>. QED BY <1>1, <3>1, <3>2
  <2>. QED BY <2>1, <2>2, <2>3
<1>2. /\ tx'[w].row = r /\ tx'[w].record = record /\ tx'[w].customer = customer
      /\ pc'[w] = "handled"
      /\ \A v \in Workers \ {w} : tx'[v] = tx[v] /\ pc'[v] = pc[v]
  BY <1>0, <1>1 DEF Buffer, TypeOK, Transaction
<1>. QED BY <1>1, <1>2 DEF ReadOK

(* The recalculation sees the row as its transaction has written it.       *)
LEMMA RecalculateReadOK ==
    ASSUME TypeOK, TxOK, NEW w \in Workers, ReadOK(w), Recalculate(w)
    PROVE  ReadOK(w)' /\ \A v \in Workers \ {w} : tx'[v] = tx[v] /\ pc'[v] = pc[v]
<1>. DEFINE granting == GrantingRows(RowsSeenBy(w), tx[w].customer)
<1>0. tx[w] \in Transaction
  BY DEF TypeOK
<1>1. /\ tx'[w].row = tx[w].row /\ tx'[w].record = tx[w].record
      /\ tx'[w].customer = tx[w].customer /\ tx'[w].payload = granting
      /\ \A v \in Workers \ {w} : tx'[v] = tx[v] /\ pc'[v] = pc[v]
  BY <1>0 DEF Recalculate, TypeOK, Transaction
<1>2. ASSUME tx[w].row # 0 PROVE tx[w].row \in granting <=> Grants(tx[w].record)
  <2>1. tx[w].row \in RowIds /\ tx[w].record \in Row
    BY <1>0, <1>2, BoundAssumption DEF TxOK, CarriedOK, Transaction, RowIds
  <2>2. tx[w].record # NoRow
    BY <2>1, NoValueAssumption DEF NoRow, Row
  <2>3. RowsSeenBy(w)[tx[w].row] = tx[w].record
    BY <1>2, <2>1 DEF RowsSeenBy, Written
  <2>. QED BY <1>2, <2>1, <2>2, <2>3 DEF GrantingRows, ReadOK
<1>. HIDE DEF granting
<1>. QED BY <1>1, <1>2 DEF ReadOK

LEMMA ReadOKStep ==
    ASSUME TypeOK, TxOK, \A w \in Workers : ReadOK(w), [Next]_vars
    PROVE  \A w \in Workers : ReadOK(w)'
<1>1. ASSUME NEW v \in Workers, tx'[v] = tx[v], pc'[v] = pc[v] PROVE ReadOK(v)'
  BY <1>1 DEF ReadOK
<1>2. ASSUME NEW v \in Workers, tx'[v].row = 0 PROVE ReadOK(v)'
  BY <1>2 DEF ReadOK
<1>3. ASSUME NEW w \in Workers, NEW record, record.row = 0, tx' = [tx EXCEPT ![w] = record],
             NEW at, pc' = [pc EXCEPT ![w] = at], NEW v \in Workers
      PROVE  ReadOK(v)'
  BY <1>1, <1>2, <1>3 DEF TypeOK
<1>4. ASSUME NEW w \in Workers, EndTx(w), NEW v \in Workers PROVE ReadOK(v)'
  <2>1. [NoTx EXCEPT !.event = tx[w].event, !.by = tx[w].by].row = 0
    BY DEF NoTx
  <2>. QED BY <1>3, <1>4, <2>1 DEF EndTx
<1>5. ASSUME NEW w \in Workers, RollBack(w) \/ Reply(w) \/ LoseReply(w), NEW v \in Workers
      PROVE  ReadOK(v)'
  <2>1. NoTx.row = 0
    BY DEF NoTx
  <2>. QED BY <1>3, <1>5, <2>1 DEF RollBack, Reply, LoseReply
<1>6. ASSUME NEW w \in Workers, NEW e, NEW by, Call(w, e, by), NEW v \in Workers
      PROVE  ReadOK(v)'
  <2>1. [NoTx EXCEPT !.event = e, !.by = by].row = 0
    BY DEF NoTx
  <2>. QED BY <1>3, <1>6, <2>1 DEF Call
<1>7. ASSUME NEW w \in Workers, Step(w), NEW v \in Workers PROVE ReadOK(v)'
  <2>1. CASE Upsert(w) \/ Amend(w) \/ PassOver(w)
    BY <1>1, <2>1, HandlerReadOK
  <2>2. CASE Recalculate(w)
    BY <1>1, <2>2, RecalculateReadOK
  <2>3. CASE \/ FailInHandler(w) \/ FailInRecalculation(w)
                \/ FailInEnqueue(w) \/ FailInSync(w) \/ Commit(w)
    BY <1>4, <2>3 DEF FailInHandler, FailInRecalculation, FailInEnqueue, FailInSync, PublishRun,
                      LogFailure, Commit
  <2>. QED BY <1>5, <1>7, <2>1, <2>2, <2>3 DEF Step
<1>8. ASSUME UNCHANGED <<tx, pc>>, NEW v \in Workers PROVE ReadOK(v)'
  BY <1>1, <1>8
<1>9. ASSUME \/ \E q \in Replays, e \in Events : RequestReplay(q, e)
             \/ \E o \in Objects, c \in Customers : CreateCheckoutSession(o, c)
             \/ \E a \in Askers, c \in Customers : Ask(a, c)
             \/ \E a \in Askers : Answer(a)
             \/ \E r \in RowIds : TimePasses(r)
             \/ UNCHANGED vars
      PROVE  UNCHANGED <<tx, pc>>
  BY <1>9 DEF RequestReplay, CreateCheckoutSession, Ask, Answer, TimePasses, vars
<1>. QED BY <1>6, <1>7, <1>8, <1>9 DEF Next, Deliver, ReplayNow

-----------------------------------------------------------------------------
(***************************************************************************)
(* The theorems.                                                           *)
(***************************************************************************)

(* Every behaviour of the webhook endpoint satisfies the inductive         *)
(* invariant: the types, what transactions carry and hold, and the four    *)
(* safety properties below.                                                *)
THEOREM Invariance == Spec => []IInv
BY InitIInv, StepIInv, PTL DEF Spec

(* The tables, and what workers hold, always have the types that TypeOK    *)
(* gives them.                                                             *)
THEOREM TypeCorrectness == Spec => []TypeOK
<1>1. IInv => TypeOK
  BY DEF IInv
<1>. QED BY <1>1, Invariance, PTL

(* An event that Stripe has a 2xx reply for is in the webhook log,         *)
(* whatever crashes, rolls back or runs at the same time.                  *)
THEOREM AckedEventsAreLogged == Spec => []AckedIsLogged
<1>1. IInv => AckedIsLogged
  BY DEF IInv
<1>. QED BY <1>1, Invariance, PTL

(* The transactional outbox: no event is PROCESSED without its             *)
(* billing.provider_event.processed record.                                *)
THEOREM ProcessedEventsAreAnnounced == Spec => []ProcessedIsAnnounced
<1>1. IInv => ProcessedIsAnnounced
  BY DEF IInv
<1>. QED BY <1>1, Invariance, PTL

(* A snapshot that an event left is the one its version's change log entry *)
(* and announcement describe.                                              *)
THEOREM SnapshotsAreLogged == Spec => []SnapshotIsLogged
<1>1. IInv => SnapshotIsLogged
  BY DEF IInv
<1>. QED BY <1>1, Invariance, PTL

(* A PROCESSED event has left its row: no concurrent transaction ever      *)
(* overwrites it with a row of another object.                             *)
THEOREM ProcessedEventsAreStored == Spec => []ProcessedIsStored
<1>1. IInv => ProcessedIsStored
  BY DEF IInv
<1>. QED BY <1>1, Invariance, PTL

(* The step that makes an event PROCESSED leaves the row its run wrote in  *)
(* the customer's snapshot exactly when the row grants, whatever other     *)
(* runs committed between the write and the recalculation.                 *)
THEOREM RunsAreReflected == Spec => SnapshotReflectsRun
<1>. DEFINE A == \A w \in Workers :
                    /\ Open(w) /\ tx[w].row # 0
                    /\ pc'[w] = "replying" /\ webhook'[tx[w].event] = "processed"
                    => (tx[w].row \in snapshot'[tx[w].customer].payload
                          <=> Grants(rows'[tx[w].row]))
            J == IInv /\ \A w \in Workers : ReadOK(w)
<1>1. Init => J
  BY InitIInv DEF Init, ReadOK, NoTx
<1>2. J /\ [Next]_vars => J'
  BY StepIInv, ReadOKStep DEF IInv
<1>3. J /\ [Next]_vars => [A]_vars
  <2>. SUFFICES ASSUME J, [Next]_vars, NEW w \in Workers, Open(w), tx[w].row # 0,
                       pc'[w] = "replying", webhook'[tx[w].event] = "processed"
                PROVE  tx[w].row \in snapshot'[tx[w].customer].payload
                         <=> Grants(rows'[tx[w].row])
    OBVIOUS
  <2>0. TypeOK /\ TxOK /\ ReadOK(w) /\ tx[w].event \in Events
    BY DEF IInv, TxOK, CarriedOK, Open
  <2>1. Commit(w)
    <3>1. pc'[w] # pc[w]
      BY DEF Open
    <3>2. ASSUME NEW v \in Workers, v # w, Step(v) PROVE FALSE
      <4>1. pc'[w] = pc[w]
        BY <2>0, <3>2 DEF Step, Upsert, Amend, PassOver, Buffer, Recalculate, FailInHandler,
                          FailInRecalculation, Commit, FailInEnqueue, FailInSync, PublishRun,
                          LogFailure, EndTx, RollBack, Reply, LoseReply, TypeOK
      <4>. QED BY <3>1, <4>1
    <3>3. ASSUME NEW v \in Workers, NEW e, NEW by, Call(v, e, by) PROVE FALSE
      <4>1. v # w
        BY <3>3 DEF Call, Open
      <4>. QED BY <2>0, <3>1, <3>3, <4>1 DEF Call, TypeOK
    <3>4. ASSUME FailInHandler(w) \/ FailInRecalculation(w)
                 \/ FailInEnqueue(w) \/ FailInSync(w) PROVE FALSE
      BY <2>0, <3>4 DEF FailInHandler, FailInRecalculation, FailInEnqueue, FailInSync,
                        PublishRun, LogFailure, TypeOK
    <3>5. ASSUME \/ Upsert(w) \/ Amend(w) \/ PassOver(w) \/ Recalculate(w) \/ RollBack(w)
                 \/ Reply(w) \/ LoseReply(w)
          PROVE  FALSE
      BY <2>0, <3>5 DEF Upsert, Amend, PassOver, Buffer, Recalculate, RollBack, Reply, LoseReply,
           Open, TypeOK
    <3>6. ASSUME UNCHANGED pc PROVE FALSE
      BY <3>1, <3>6
    <3>. QED BY <3>2, <3>3, <3>4, <3>5, <3>6 DEF Next, Step, Deliver, ReplayNow, RequestReplay,
              CreateCheckoutSession, Ask, Answer, TimePasses, vars
  <2>2. tx[w].customer # NoCustomer
    <3>1. tx[w].record \in Row /\ tx[w].record.customer = tx[w].customer
      BY <2>0 DEF TxOK, CarriedOK, ReadOK
    <3>. QED BY <3>1, NoValueAssumption DEF Row
  <2>3. pc[w] = "recalculated" /\ PublishRow(w) /\ PublishSnapshot(w)
    BY <2>1, <2>2 DEF Commit, PublishRun
  <2>4. rows'[tx[w].row] = tx[w].record
    BY <2>0, <2>3, PublishRowEffect
  <2>5. snapshot'[tx[w].customer].payload = tx[w].payload
    BY <2>0, <2>3 DEF PublishSnapshot, TypeOK, TxOK, CarriedOK
  <2>. QED BY <2>0, <2>3, <2>4, <2>5 DEF ReadOK
<1>4. Spec => []J
  BY <1>1, <1>2, PTL DEF Spec
<1>. HIDE DEF J
<1>. QED BY <1>3, <1>4, PTL DEF Spec, SnapshotReflectsRun

-----------------------------------------------------------------------------
(***************************************************************************)
(* What a transaction knows of the dunning case it will save.              *)
(***************************************************************************)

(* The number a handler read of a case stays the case's number until its   *)
(* own transaction ends: the case is of the row that the transaction holds. *)
CaseOK(w) ==
    /\ tx[w].case # NoCase => /\ tx[w].case \in CaseKeys
                              /\ tx[w].case[2] = tx[w].row
                              /\ tx[w].attempts = dunning[tx[w].case] + 1
    /\ Handled(w) /\ IsFailure(tx[w].event) =>
         /\ tx[w].case # NoCase
         /\ tx[w].record.object = content[tx[w].event].object

Processed == {e \in Events : webhook[e] = "processed"}

(* A row that is not there has no case, and finitely many events are done. *)
CasesOK ==
    /\ \A w \in Workers : CaseOK(w)
    /\ \A k \in CaseKeys : rows[k[2]] = NoRow => dunning[k] = 0
    /\ IsFiniteSet(Processed)

LEMMA InitCases == Init => CasesOK
<1>. SUFFICES ASSUME Init PROVE CasesOK
  OBVIOUS
<1>1. Processed = {}
  BY DEF Init, Processed
<1>2. IsFiniteSet(Processed)
  BY <1>1, FS_EmptySet
<1>. QED BY <1>2 DEF Init, CasesOK, CaseOK, Handled, NoTx

LEMMA CaseKeyType ==
    /\ \A k \in CaseKeys : k[1] \in 0..MaxRow /\ k[2] \in RowIds /\ k # NoCase
    /\ IsFiniteSet(CaseKeys)
<1>1. \A k \in CaseKeys : k[1] \in 0..MaxRow /\ k[2] \in RowIds
  BY DEF CaseKeys
<1>2. NoCase[2] = 0 /\ 0 \notin RowIds
  BY DEF NoCase, RowIds
<1>3. IsFiniteSet(0..MaxRow)
  BY FS_Interval, BoundAssumption
<1>4. IsFiniteSet(RowIds)
  BY FS_Interval, BoundAssumption DEF RowIds
<1>5. IsFiniteSet(CaseKeys)
  BY <1>3, <1>4, FS_Product DEF CaseKeys
<1>. QED BY <1>1, <1>2, <1>5

(* A failure that is to be counted stores a row.                           *)
LEMMA FailureStores ==
    ASSUME NEW e, IsFailure(e)
    PROVE  StoresRow(content[e]) /\ content[e].type \notin Amends
BY DEF IsFailure, StoresRow, Upserts, InvoiceUpserts, SubscriptionUpserts, Amends

(* What publishing does to the cases: the transaction's own is counted     *)
(* once more, the others stay.                                             *)
LEMMA PublishedCase ==
    ASSUME TypeOK, TxOK, NEW w \in Workers, CaseOK(w), PublishRow(w)
    PROVE  /\ \A k \in CaseKeys : k # tx[w].case => dunning'[k] = dunning[k]
           /\ tx[w].case # NoCase =>
                /\ tx[w].case \in CaseKeys
                /\ dunning'[tx[w].case] = dunning[tx[w].case] + 1
                /\ tx[w].row \in RowIds /\ tx[w].case[2] = tx[w].row
                /\ rows'[tx[w].row] = tx[w].record /\ tx[w].record # NoRow
<1>1. dunning \in [CaseKeys -> Nat]
  BY DEF TypeOK
<1>2. ASSUME tx[w].case # NoCase
      PROVE  /\ tx[w].row \in RowIds /\ tx[w].row # 0
             /\ rows'[tx[w].row] = tx[w].record /\ tx[w].record # NoRow
  <2>1. tx[w].row \in RowIds /\ tx[w].row # 0
    BY <1>2, CaseKeyType DEF CaseOK, RowIds
  <2>2. rows'[tx[w].row] = tx[w].record
    BY <2>1, PublishRowEffect
  <2>3. tx[w].record \in Row
    BY <2>1 DEF TxOK, CarriedOK
  <2>. QED BY <2>1, <2>2, <2>3, NoValueAssumption DEF NoRow, Row
<1>. QED BY <1>1, <1>2 DEF PublishRow, CaseOK

(* A worker that carries no case afterwards.                               *)
LEMMA CaseClosed ==
    ASSUME NEW w \in Workers, tx'[w].case = NoCase, pc'[w] \in {"idle", "begun", "replying"}
    PROVE  CaseOK(w)'
BY DEF CaseOK, Handled

(* A worker that another one's step leaves alone.                          *)
LEMMA CaseKept ==
    ASSUME NEW v \in Workers, CaseOK(v), UNCHANGED content, tx'[v] = tx[v], pc'[v] = pc[v],
           tx[v].case # NoCase => dunning'[tx[v].case] = dunning[tx[v].case]
    PROVE  CaseOK(v)'
BY DEF CaseOK, Handled, IsFailure

(* The steps that close a transaction, with or without publishing its row. *)
LEMMA CasesClosed ==
    ASSUME TypeOK, TxOK, RowsOK, CasesOK, NEW w \in Workers, UNCHANGED content,
           PublishRow(w) \/ UNCHANGED dunning,
           NEW record, tx' = [tx EXCEPT ![w] = record], record.case = NoCase,
           NEW at \in {"idle", "begun", "replying"}, pc' = [pc EXCEPT ![w] = at]
    PROVE  \A v \in Workers : CaseOK(v)'
<1>1. tx'[w].case = NoCase /\ pc'[w] = at
  BY DEF TypeOK
<1>2. CaseOK(w)'
  BY <1>1, CaseClosed
<1>3. ASSUME NEW v \in Workers, v # w PROVE CaseOK(v)'
  <2>1. tx'[v] = tx[v] /\ pc'[v] = pc[v] /\ CaseOK(v) /\ CaseOK(w)
    BY <1>3 DEF TypeOK, CasesOK
  <2>2. ASSUME tx[v].case # NoCase PROVE dunning'[tx[v].case] = dunning[tx[v].case]
    <3>1. /\ tx[v].case \in CaseKeys /\ tx[v].case[2] = tx[v].row
          /\ tx[v].row # 0
      BY <2>1, <2>2, CaseKeyType DEF CaseOK, RowIds
    <3>2. tx[w].row # tx[v].row
      BY <1>3, <3>1 DEF RowsOK
    <3>3. tx[v].case # tx[w].case
      BY <2>1, <2>2, <3>1, <3>2 DEF CaseOK
    <3>4. CASE PublishRow(w)
      BY <2>1, <3>1, <3>3, <3>4, PublishedCase
    <3>5. CASE UNCHANGED dunning
      BY <3>5
    <3>. QED BY <3>4, <3>5
  <2>. QED BY <2>1, <2>2, CaseKept
<1>. QED BY <1>2, <1>3

(* The handlers.                                                           *)
LEMMA CasesBuffered ==
    ASSUME TypeOK, TxOK, CasesOK, NEW w \in Workers, Upsert(w) \/ Amend(w) \/ PassOver(w)
    PROVE  \A v \in Workers : CaseOK(v)'
<1>. DEFINE e == tx[w].event
            c == content[e]
<1>0. tx[w] \in Transaction /\ dunning \in [CaseKeys -> Nat]
  BY DEF TypeOK
<1>1. SUFFICES ASSUME NEW r \in 0..MaxRow, NEW record, NEW case, NEW customer,
                      Buffer(w, r, record, case, customer),
                      case # NoCase => case \in CaseKeys /\ case[2] = r,
                      IsFailure(e) => case # NoCase /\ record.object = c.object
               PROVE  \A v \in Workers : CaseOK(v)'
  <2>1. CASE Upsert(w)
    <3>1. PICK r \in RowIds, p \in 0..MaxRow :
            Buffer(w, r, UpsertRecord(c),
                   IF c.type = "invoice.payment_failed" THEN <<p, r>> ELSE NoCase, c.customer)
      BY <2>1, Zenon DEF Upsert
    <3>. DEFINE case == IF c.type = "invoice.payment_failed" THEN <<p, r>> ELSE NoCase
    <3>2. r \in 0..MaxRow /\ UpsertRecord(c).object = c.object
      BY BoundAssumption DEF RowIds, UpsertRecord
    <3>3. <<p, r>> \in CaseKeys /\ <<p, r>>[2] = r
      BY DEF CaseKeys
    <3>4. case # NoCase => case \in CaseKeys /\ case[2] = r
      BY <3>3
    <3>5. IsFailure(e) => case # NoCase
      BY <3>3, CaseKeyType DEF IsFailure
    <3>6. Buffer(w, r, UpsertRecord(c), case, c.customer)
      BY <3>1
    <3>. HIDE DEF case
    <3>. QED BY <1>1, <3>2, <3>4, <3>5, <3>6
  <2>2. CASE Amend(w)
    <3>1. PICK r \in RowIds : Buffer(w, r, AmendRecord(c, rows[r]), NoCase, rows[r].customer)
      BY <2>2, Zenon DEF Amend
    <3>2. r \in 0..MaxRow /\ ~ IsFailure(e)
      BY <2>2, BoundAssumption, FailureStores DEF RowIds, Amend
    <3>. QED BY <1>1, <3>1, <3>2
  <2>3. CASE PassOver(w)
    <3>1. Buffer(w, 0, NoRow, NoCase, IF c.type = "other" THEN NoCustomer ELSE c.customer)
      BY <2>3, Zenon DEF PassOver
    <3>2. 0 \in 0..MaxRow /\ ~ IsFailure(e)
      BY <2>3, BoundAssumption, FailureStores DEF PassOver
    <3>. QED BY <1>1, <3>1, <3>2
  <2>. QED BY <2>1, <2>2, <2>3
<1>2. /\ tx'[w].row = r /\ tx'[w].record = record /\ tx'[w].case = case
      /\ tx'[w].event = e /\ UNCHANGED <<dunning, content>>
      /\ tx'[w].attempts = IF case = NoCase THEN 0 ELSE dunning[case] + 1
      /\ \A v \in Workers \ {w} : tx'[v] = tx[v] /\ pc'[v] = pc[v]
  BY <1>0, <1>1 DEF Buffer, TypeOK, Transaction, database
<1>3. CaseOK(w)'
  BY <1>1, <1>2 DEF CaseOK, IsFailure
<1>4. ASSUME NEW v \in Workers \ {w} PROVE CaseOK(v)'
  BY <1>2, CaseKept DEF CasesOK
<1>. QED BY <1>3, <1>4

(* Every step keeps what transactions know of their cases.                 *)
LEMMA CarriedCasesStep ==
    ASSUME TypeOK, TxOK, RowsOK, CasesOK, [Next]_vars
    PROVE  \A w \in Workers : CaseOK(w)'
<1>0. UNCHANGED content
  BY HistoryKept
<1>1. ASSUME NEW w \in Workers, EndTx(w), PublishRow(w) \/ UNCHANGED dunning
      PROVE  \A v \in Workers : CaseOK(v)'
  <2>1. [NoTx EXCEPT !.event = tx[w].event, !.by = tx[w].by].case = NoCase
    BY DEF NoTx
  <2>. QED BY <1>0, <1>1, <2>1, CasesClosed DEF EndTx
<1>2. ASSUME NEW w \in Workers, RollBack(w) \/ Reply(w) \/ LoseReply(w)
      PROVE  \A v \in Workers : CaseOK(v)'
  <2>1. NoTx.case = NoCase
    BY DEF NoTx
  <2>. QED BY <1>0, <1>2, <2>1, CasesClosed DEF RollBack, Reply, LoseReply, database
<1>3. ASSUME NEW w \in Workers, NEW e \in Events, NEW by, Call(w, e, by)
      PROVE  \A v \in Workers : CaseOK(v)'
  <2>1. [NoTx EXCEPT !.event = e, !.by = by].case = NoCase
    BY DEF NoTx
  <2>2. AfterLookup(e) \in {"begun", "replying"}
    BY DEF AfterLookup
  <2>. QED BY <1>0, <1>3, <2>1, <2>2, CasesClosed DEF Call, database
<1>4. ASSUME NEW w \in Workers, Recalculate(w), NEW v \in Workers PROVE CaseOK(v)'
  <2>1. tx[w] \in Transaction
    BY DEF TypeOK
  <2>2. /\ tx'[v].case = tx[v].case /\ tx'[v].row = tx[v].row
        /\ tx'[v].attempts = tx[v].attempts /\ tx'[v].event = tx[v].event
        /\ tx'[v].record = tx[v].record
    BY <1>4, <2>1 DEF Recalculate, TypeOK, Transaction
  <2>3. Handled(v)' => Handled(v)
    BY <1>4 DEF Recalculate, Handled, TypeOK
  <2>4. UNCHANGED dunning
    BY <1>4 DEF Recalculate, database
  <2>. QED BY <1>0, <2>2, <2>3, <2>4 DEF CaseOK, CasesOK, IsFailure
<1>5. ASSUME UNCHANGED <<dunning, tx, pc>> PROVE \A w \in Workers : CaseOK(w)'
  BY <1>0, <1>5, CaseKept DEF CasesOK
<1>6. ASSUME NEW w \in Workers, Step(w) PROVE \A v \in Workers : CaseOK(v)'
  <2>1. CASE Upsert(w) \/ Amend(w) \/ PassOver(w)
    BY <2>1, CasesBuffered
  <2>2. CASE \/ FailInHandler(w) \/ FailInRecalculation(w)
                \/ FailInEnqueue(w) \/ FailInSync(w) \/ Commit(w)
    BY <1>1, <2>2 DEF FailInHandler, FailInRecalculation, FailInEnqueue, FailInSync, PublishRun,
                      LogFailure, Commit
  <2>. QED BY <1>2, <1>4, <1>6, <2>1, <2>2 DEF Step
<1>7. ASSUME \/ \E q \in Replays, e \in Events : RequestReplay(q, e)
             \/ \E o \in Objects, c \in Customers : CreateCheckoutSession(o, c)
             \/ \E a \in Askers, c \in Customers : Ask(a, c)
             \/ \E a \in Askers : Answer(a)
             \/ \E r \in RowIds : TimePasses(r)
             \/ UNCHANGED vars
      PROVE  UNCHANGED <<dunning, tx, pc>>
  BY <1>7 DEF RequestReplay, CreateCheckoutSession, Ask, Answer, TimePasses, vars, database
<1>. QED BY <1>3, <1>5, <1>6, <1>7 DEF Next, Deliver, ReplayNow

-----------------------------------------------------------------------------
(***************************************************************************)
(* What a step does to the counts.                                         *)
(***************************************************************************)

(* Every step keeps the counts, or it ends a run that has written a row.   *)
LEMMA CountSteps ==
    ASSUME TypeOK, [Next]_vars
    PROVE  \/ UNCHANGED <<dunning, webhook>>
           \/ \E w \in Workers :
                /\ Open(w)
                /\ webhook' = [webhook EXCEPT ![tx[w].event] = "failed"]
                /\ PublishRow(w) \/ UNCHANGED dunning
           \/ \E w \in Workers : Commit(w)
<1>1. ASSUME NEW w \in Workers, FailInHandler(w) \/ FailInRecalculation(w)
                                \/ FailInEnqueue(w) \/ FailInSync(w)
      PROVE  /\ Open(w)
             /\ webhook' = [webhook EXCEPT ![tx[w].event] = "failed"]
             /\ PublishRow(w) \/ UNCHANGED dunning
  BY <1>1 DEF FailInHandler, FailInRecalculation, FailInEnqueue, FailInSync, PublishRun,
              LogFailure, Open
<1>2. ASSUME NEW w \in Workers,
             \/ Upsert(w) \/ Amend(w) \/ PassOver(w)
             \/ Recalculate(w) \/ RollBack(w) \/ LoseReply(w) \/ Reply(w)
      PROVE  UNCHANGED <<dunning, webhook>>
  BY <1>2 DEF Upsert, Amend, PassOver, Buffer, Recalculate, RollBack, LoseReply, Reply, database
<1>3. ASSUME NEW w \in Workers, NEW e \in Events, NEW by, Call(w, e, by)
      PROVE  UNCHANGED <<dunning, webhook>>
  BY <1>3 DEF Call, database
<1>4. ASSUME \/ \E q \in Replays, e \in Events : RequestReplay(q, e)
             \/ \E o \in Objects, c \in Customers : CreateCheckoutSession(o, c)
             \/ \E a \in Askers, c \in Customers : Ask(a, c)
             \/ \E a \in Askers : Answer(a)
             \/ \E r \in RowIds : TimePasses(r)
             \/ UNCHANGED vars
      PROVE  UNCHANGED <<dunning, webhook>>
  BY <1>4 DEF RequestReplay, CreateCheckoutSession, Ask, Answer, TimePasses, vars, database
<1>. QED BY <1>1, <1>2, <1>3, <1>4 DEF Next, Step, Deliver, ReplayNow

(* No count falls, and only a row that is there has one.                   *)
LEMMA CountsGrow ==
    ASSUME TypeOK, TxOK, RowsOK, CasesOK, [Next]_vars, NEW k \in CaseKeys
    PROVE  /\ dunning[k] \in Nat /\ dunning'[k] \in Nat /\ dunning[k] <= dunning'[k]
           /\ rows'[k[2]] = NoRow => dunning'[k] = 0
<1>1. dunning[k] \in Nat /\ k[2] \in RowIds
  BY CaseKeyType DEF TypeOK
<1>2. rows[k[2]] # NoRow => rows'[k[2]] # NoRow
  BY <1>1, ObjectsKept
<1>3. rows[k[2]] = NoRow => dunning[k] = 0
  BY DEF CasesOK
<1>4. CASE UNCHANGED dunning
  BY <1>1, <1>2, <1>3, <1>4
<1>5. ASSUME NEW w \in Workers, PublishRow(w)
      PROVE  /\ dunning'[k] \in Nat /\ dunning[k] <= dunning'[k]
             /\ rows'[k[2]] = NoRow => dunning'[k] = 0
  <2>1. CASE k = tx[w].case
    <3>1. tx[w].case # NoCase
      BY <2>1, CaseKeyType
    <3>2. dunning'[k] = dunning[k] + 1 /\ rows'[k[2]] # NoRow
      BY <1>5, <2>1, <3>1, PublishedCase DEF CasesOK
    <3>. QED BY <1>1, <3>2
  <2>2. CASE k # tx[w].case
    <3>1. dunning'[k] = dunning[k]
      BY <1>5, <2>2, PublishedCase DEF CasesOK
    <3>. QED BY <1>1, <1>2, <1>3, <3>1
  <2>. QED BY <2>1, <2>2
<1>. QED BY <1>1, <1>4, <1>5, CountSteps DEF Commit, PublishRun

LEMMA CasesOKStep ==
    ASSUME TypeOK, TxOK, RowsOK, CasesOK, [Next]_vars
    PROVE  CasesOK'
<1>1. IsFiniteSet(Processed')
  <2>1. PICK e : Processed' \subseteq Processed \union {e}
    <3>1. CASE UNCHANGED webhook
      BY <3>1 DEF Processed
    <3>2. ASSUME NEW w \in Workers, NEW status,
                 webhook' = [webhook EXCEPT ![tx[w].event] = status]
          PROVE  Processed' \subseteq Processed \union {tx[w].event}
      BY <3>2 DEF Processed, TypeOK
    <3>. QED BY <3>1, <3>2, CountSteps DEF Commit, PublishRun
  <2>2. IsFiniteSet(Processed \union {e})
    BY FS_AddElement DEF CasesOK
  <2>. QED BY <2>1, <2>2, FS_Subset
<1>. QED BY <1>1, CarriedCasesStep, CountsGrow DEF CasesOK

-----------------------------------------------------------------------------
CasesOf(o) == {k \in CaseKeys : k[2] \in RowsOf(o)}

LEMMA CasesOfKept ==
    ASSUME TypeOK, TxOK, RowsOK, [Next]_vars, NEW o
    PROVE  CasesOf(o) \subseteq CasesOf(o)'
<1>1. ASSUME NEW k \in CasesOf(o) PROVE k \in CasesOf(o)'
  <2>1. k \in CaseKeys /\ k[2] \in RowIds /\ rows[k[2]] # NoRow /\ rows[k[2]].object = o
    BY <1>1 DEF CasesOf, RowsOf
  <2>2. rows'[k[2]] # NoRow /\ rows'[k[2]].object = o
    BY <2>1, ObjectsKept
  <2>. QED BY <2>1, <2>2 DEF CasesOf, RowsOf
<1>. QED BY <1>1

LEMMA NoFailureIsForgottenStep ==
    ASSUME TypeOK, TxOK, RowsOK, CasesOK, NoFailureIsForgotten, [Next]_vars
    PROVE  NoFailureIsForgotten'
<1>. SUFFICES ASSUME NEW o \in Objects
              PROVE  AttemptsOn(o)' >= Cardinality(CountedFailures(o)')
  BY DEF NoFailureIsForgotten
<1>. DEFINE C == CasesOf(o)
            D == CasesOf(o)'
            F == CountedFailures(o)
            G == CountedFailures(o)'
            before == SumFunctionOnSet(dunning, C)
            after == SumFunctionOnSet(dunning', D)
<1>1. /\ C \subseteq D /\ D \subseteq CaseKeys
      /\ IsFiniteSet(C) /\ IsFiniteSet(D)
      /\ \A k \in D : dunning[k] \in Nat /\ dunning'[k] \in Nat /\ dunning[k] <= dunning'[k]
  <2>1. C \subseteq D /\ D \subseteq CaseKeys
    BY CasesOfKept DEF CasesOf
  <2>2. IsFiniteSet(C) /\ IsFiniteSet(D)
    BY <2>1, CaseKeyType, FS_Subset
  <2>. QED BY <2>1, <2>2, CountsGrow
<1>2. AttemptsOn(o) = before /\ AttemptsOn(o)' = after
  BY DEF AttemptsOn, CasesOf
<1>3. before >= Cardinality(F)
  BY <1>2 DEF NoFailureIsForgotten
<1>4. /\ IsFiniteSet(F) /\ Cardinality(F) \in Nat
      /\ IsFiniteSet(G) /\ Cardinality(G) \in Nat
  <2>1. F \subseteq Processed /\ G \subseteq Processed'
    BY DEF CountedFailures, Processed
  <2>2. IsFiniteSet(Processed) /\ IsFiniteSet(Processed')
    BY CasesOKStep DEF CasesOK
  <2>. QED BY <2>1, <2>2, FS_Subset, FS_CardinalityType
<1>. HIDE DEF C, D, F, G
<1>5. /\ before \in Nat /\ after \in Nat
      /\ before <= SumFunctionOnSet(dunning, D)
      /\ SumFunctionOnSet(dunning, D) \in Nat
      /\ SumFunctionOnSet(dunning, D) <= after
  <2>1. before \in Nat /\ after \in Nat /\ SumFunctionOnSet(dunning, D) \in Nat
    BY <1>1, SumOfNaturals
  <2>2. before <= SumFunctionOnSet(dunning, D)
    BY <1>1, SumOfFewer
  <2>3. SumFunctionOnSet(dunning, D) <= after
    BY <1>1, SumOfFewer
  <2>. QED BY <2>1, <2>2, <2>3
<1>6. CASE G \subseteq F
  <2>1. Cardinality(G) <= Cardinality(F)
    BY <1>4, <1>6, FS_Subset
  <2>. HIDE DEF before, after
  <2>. QED BY <1>2, <1>3, <1>4, <1>5, <2>1 DEF G
<1>7. CASE ~ (G \subseteq F)
  <2>1. UNCHANGED content
    BY HistoryKept
  <2>2. PICK e \in G : e \notin F
    BY <1>7
  <2>3. /\ e \in Events /\ IsFailure(e) /\ content[e].object = o
        /\ webhook'[e] = "processed" /\ webhook[e] # "processed"
    BY <2>1, <2>2 DEF F, G, CountedFailures, IsFailure
  <2>4. PICK w \in Workers : Commit(w) /\ tx[w].event = e
    BY <2>3, CountSteps DEF Commit, PublishRun, TypeOK
  <2>5. Handled(w) /\ PublishRow(w) /\ CaseOK(w)
    BY <2>4 DEF Commit, PublishRun, Handled, CasesOK
  <2>. DEFINE k == tx[w].case
  <2>6. /\ k \in D /\ dunning'[k] = dunning[k] + 1
        /\ \A j \in D : j # k => dunning'[j] = dunning[j]
    <3>1. tx[w].case # NoCase /\ tx[w].record.object = o
      BY <2>3, <2>4, <2>5 DEF CaseOK
    <3>2. k \in CaseKeys /\ rows'[k[2]] # NoRow /\ rows'[k[2]].object = o /\ k[2] \in RowIds
      BY <2>5, <3>1, PublishedCase
    <3>3. k \in D
      BY <3>2 DEF D, CasesOf, RowsOf
    <3>. QED BY <1>1, <2>5, <3>1, <3>3, PublishedCase
  <2>7. after = SumFunctionOnSet(dunning, D) + 1
    <3>. HIDE DEF k
    <3>1. after + dunning[k] = SumFunctionOnSet(dunning, D) + dunning'[k]
      BY <1>1, <2>6, SumChanges
    <3>2. dunning[k] \in Nat
      BY <1>1, <2>6
    <3>. HIDE DEF after
    <3>. QED BY <1>5, <2>6, <3>1, <3>2
  <2>8. Cardinality(G) <= Cardinality(F) + 1
    <3>1. G \subseteq F \union {e}
      BY <2>1, <2>4 DEF F, G, CountedFailures, IsFailure, Commit, PublishRun, TypeOK
    <3>2. IsFiniteSet(F \union {e}) /\ Cardinality(F \union {e}) = Cardinality(F) + 1
      BY <1>4, <2>2, FS_AddElement
    <3>. QED BY <3>1, <3>2, FS_Subset
  <2>. HIDE DEF before, after
  <2>. QED BY <1>2, <1>3, <1>4, <1>5, <2>7, <2>8 DEF G
<1>. QED BY <1>6, <1>7

(* Every PROCESSED payment failure of a known customer is counted.         *)
THEOREM FailuresAreCounted == Spec => []NoFailureIsForgotten
<1>. DEFINE J == IInv /\ CasesOK /\ NoFailureIsForgotten
<1>1. Init => J
  <2>. SUFFICES ASSUME Init PROVE J
    OBVIOUS
  <2>1. IInv /\ CasesOK
    BY InitIInv, InitCases
  <2>2. ASSUME NEW o \in Objects PROVE AttemptsOn(o) >= Cardinality(CountedFailures(o))
    <3>1. CountedFailures(o) = {} /\ CasesOf(o) = {}
      BY DEF Init, CountedFailures, CasesOf, RowsOf, CaseKeys, RowIds
    <3>2. AttemptsOn(o) = SumFunctionOnSet(dunning, CasesOf(o))
      BY DEF AttemptsOn, CasesOf
    <3>. QED BY <3>1, <3>2, SumOfNone, FS_EmptySet
  <2>. QED BY <2>1, <2>2 DEF NoFailureIsForgotten
<1>2. J /\ [Next]_vars => J'
  BY StepIInv, CasesOKStep, NoFailureIsForgottenStep DEF IInv
<1>3. Spec => []J
  BY <1>1, <1>2, PTL DEF Spec
<1>. QED BY <1>3, PTL

-----------------------------------------------------------------------------
(***************************************************************************)
(* Exactly once, when nothing fails: an event is open in one run only, and *)
(* only until it is PROCESSED.                                             *)
(***************************************************************************)

RunsOK ==
    /\ \A w \in Workers : Open(w) => webhook[tx[w].event] = "absent"
    /\ \A v, w \in Workers : Open(v) /\ Open(w) /\ tx[v].event = tx[w].event => v = w
    /\ \A w \in Workers : tx[w].case # NoCase => IsFailure(tx[w].event)

LEMMA InitRuns == Init => RunsOK
BY DEF Init, RunsOK, Open, NoTx

(* What a step does to the runs: one is begun, goes on, or ends.           *)
OthersStay(w) ==
    \A v \in Workers \ {w} : pc'[v] = pc[v] /\ tx'[v] = tx[v]
Begins(w, e) ==
    /\ pc'[w] = AfterLookup(e) /\ tx'[w].event = e /\ tx'[w].case = NoCase
    /\ NotBeingInserted(e)
    /\ UNCHANGED webhook
GoesOn(w) ==
    /\ Open(w) /\ tx'[w].event = tx[w].event
    /\ tx'[w].case # NoCase => tx[w].case # NoCase \/ IsFailure(tx[w].event)
    /\ UNCHANGED webhook
Ends(w) ==
    /\ pc'[w] \in {"idle", "replying"} /\ tx'[w].case = NoCase
    /\ \/ UNCHANGED webhook
       \/ Open(w) /\ \E status \in {"failed", "processed"} :
                        webhook' = [webhook EXCEPT ![tx[w].event] = status]

LEMMA RunSteps ==
    ASSUME TypeOK, [Next]_vars
    PROVE  \/ UNCHANGED <<pc, tx, webhook>>
           \/ \E w \in Workers :
                /\ OthersStay(w)
                /\ (\E e \in Events : Begins(w, e)) \/ GoesOn(w) \/ Ends(w)
<1>1. ASSUME NEW w \in Workers, NEW e \in Events, NEW by, Call(w, e, by)
      PROVE  OthersStay(w) /\ Begins(w, e)
  BY <1>1 DEF Call, OthersStay, Begins, TypeOK, NoTx, database
<1>2. ASSUME NEW w \in Workers, Upsert(w) \/ Amend(w) \/ PassOver(w)
      PROVE  OthersStay(w) /\ GoesOn(w)
  <2>. DEFINE c == content[tx[w].event]
  <2>1. SUFFICES ASSUME NEW r, NEW record, NEW case, NEW customer,
                        Buffer(w, r, record, case, customer), pc[w] = "begun",
                        case # NoCase => IsFailure(tx[w].event)
                 PROVE  OthersStay(w) /\ GoesOn(w)
    <3>1. CASE Upsert(w)
      <4>1. PICK r \in RowIds, p \in 0..MaxRow :
              Buffer(w, r, UpsertRecord(c),
                     IF c.type = "invoice.payment_failed" THEN <<p, r>> ELSE NoCase, c.customer)
        BY <3>1, Zenon DEF Upsert
      <4>2. c.type = "invoice.payment_failed" => IsFailure(tx[w].event)
        BY <3>1 DEF Upsert, StoresRow, IsFailure
      <4>. QED BY <2>1, <3>1, <4>1, <4>2 DEF Upsert
    <3>2. CASE Amend(w)
      <4>1. PICK r \in RowIds : Buffer(w, r, AmendRecord(c, rows[r]), NoCase, rows[r].customer)
        BY <3>2, Zenon DEF Amend
      <4>. QED BY <2>1, <3>2, <4>1 DEF Amend
    <3>3. CASE PassOver(w)
      <4>1. Buffer(w, 0, NoRow, NoCase, IF c.type = "other" THEN NoCustomer ELSE c.customer)
        BY <3>3, Zenon DEF PassOver
      <4>. QED BY <2>1, <3>3, <4>1 DEF PassOver
    <3>. QED BY <1>2, <3>1, <3>2, <3>3
  <2>2. tx[w] \in Transaction
    BY DEF TypeOK
  <2>. QED BY <2>1, <2>2 DEF Buffer, OthersStay, GoesOn, Open, TypeOK, Transaction, database
<1>3. ASSUME NEW w \in Workers, Recalculate(w) PROVE OthersStay(w) /\ GoesOn(w)
  <2>1. tx[w] \in Transaction
    BY DEF TypeOK
  <2>. QED BY <1>3, <2>1 DEF Recalculate, OthersStay, GoesOn, Open, TypeOK, Transaction,
                             database
<1>4. ASSUME NEW w \in Workers, RollBack(w) \/ Reply(w) \/ LoseReply(w)
      PROVE  OthersStay(w) /\ Ends(w)
  BY <1>4 DEF RollBack, Reply, LoseReply, OthersStay, Ends, TypeOK, NoTx, database
<1>5. ASSUME NEW w \in Workers,
             \/ FailInHandler(w) \/ FailInRecalculation(w)
                \/ FailInEnqueue(w) \/ FailInSync(w) \/ Commit(w)
      PROVE  OthersStay(w) /\ Ends(w)
  <2>1. EndTx(w)
    BY <1>5 DEF FailInHandler, FailInRecalculation, FailInEnqueue, FailInSync, PublishRun,
                LogFailure, Commit
  <2>2. \E status \in {"failed", "processed"} :
          webhook' = [webhook EXCEPT ![tx[w].event] = status]
    BY <1>5 DEF FailInHandler, FailInRecalculation, FailInEnqueue, FailInSync, PublishRun,
                LogFailure, Commit
  <2>3. Open(w)
    BY <1>5 DEF FailInHandler, FailInRecalculation, FailInEnqueue, FailInSync, PublishRun,
                Commit, Open
  <2>. QED BY <2>1, <2>2, <2>3 DEF EndTx, OthersStay, Ends, TypeOK, NoTx
<1>6. ASSUME \/ \E q \in Replays, e \in Events : RequestReplay(q, e)
             \/ \E o \in Objects, c \in Customers : CreateCheckoutSession(o, c)
             \/ \E a \in Askers, c \in Customers : Ask(a, c)
             \/ \E a \in Askers : Answer(a)
             \/ \E r \in RowIds : TimePasses(r)
             \/ UNCHANGED vars
      PROVE  UNCHANGED <<pc, tx, webhook>>
  BY <1>6 DEF RequestReplay, CreateCheckoutSession, Ask, Answer, TimePasses, vars, database
<1>. QED BY <1>1, <1>2, <1>3, <1>4, <1>5, <1>6 DEF Next, Step, Deliver, ReplayNow

LEMMA RunsOKStep ==
    ASSUME TypeOK, TxOK, RunsOK, NothingFails, [Next]_vars
    PROVE  RunsOK'
<1>0. UNCHANGED content
  BY HistoryKept
<1>1. CASE UNCHANGED <<pc, tx, webhook>>
  BY <1>0, <1>1 DEF RunsOK, Open, IsFailure
<1>2. ASSUME NEW w \in Workers, OthersStay(w), NEW e \in Events, Begins(w, e)
      PROVE  RunsOK'
  <2>1. Open(w)' => webhook[e] = "absent" /\ \A v \in Workers : Open(v) => tx[v].event # e
    BY <1>2 DEF Begins, AfterLookup, NotBeingInserted, NothingFails, Open, TypeOK
  <2>2. \A v \in Workers \ {w} : (Open(v)' <=> Open(v)) /\ tx'[v] = tx[v]
    BY <1>2 DEF OthersStay, Open
  <2>. QED BY <1>0, <1>2, <2>1, <2>2 DEF RunsOK, Begins, IsFailure
<1>3. ASSUME NEW w \in Workers, OthersStay(w), GoesOn(w) PROVE RunsOK'
  <2>1. \A v \in Workers \ {w} : (Open(v)' <=> Open(v)) /\ tx'[v] = tx[v]
    BY <1>3 DEF OthersStay, Open
  <2>. QED BY <1>0, <1>3, <2>1 DEF RunsOK, GoesOn, IsFailure
<1>4. ASSUME NEW w \in Workers, OthersStay(w), Ends(w) PROVE RunsOK'
  <2>1. ~ Open(w)'
    BY <1>4 DEF Ends, Open
  <2>2. \A v \in Workers \ {w} : (Open(v)' <=> Open(v)) /\ tx'[v] = tx[v]
    BY <1>4 DEF OthersStay, Open
  <2>3. \A v \in Workers \ {w} : Open(v) => webhook'[tx[v].event] = webhook[tx[v].event]
    <3>1. \A v \in Workers : Open(v) => tx[v].event \in Events
      BY DEF TxOK, CarriedOK, Open
    <3>2. \A v \in Workers \ {w} : Open(v) /\ Open(w) => tx[v].event # tx[w].event
      BY DEF RunsOK
    <3>3. webhook \in [Events -> {"absent", "failed", "processed"}]
      BY DEF TypeOK
    <3>. QED BY <1>4, <3>1, <3>2, <3>3 DEF Ends
  <2>. QED BY <1>0, <1>4, <2>1, <2>2, <2>3 DEF RunsOK, Ends, IsFailure
<1>. QED BY <1>1, <1>2, <1>3, <1>4, RunSteps

(* A new row has no case, so the counts of an object's rows sum to the     *)
(* same over the rows there are after a step.                              *)
LEMMA NewRowsCountNothing ==
    ASSUME TypeOK, TxOK, RowsOK, CasesOK, [Next]_vars, NEW o
    PROVE  /\ IsFiniteSet(CasesOf(o)')
           /\ \A k \in CasesOf(o)' : dunning[k] \in Nat /\ dunning'[k] \in Nat
           /\ SumFunctionOnSet(dunning, CasesOf(o)') = AttemptsOn(o)
           /\ AttemptsOn(o) \in Nat
<1>. DEFINE C == CasesOf(o)
            D == CasesOf(o)'
<1>1. C \subseteq D /\ D \subseteq CaseKeys /\ IsFiniteSet(C) /\ IsFiniteSet(D)
  <2>1. C \subseteq D /\ D \subseteq CaseKeys
    BY CasesOfKept DEF CasesOf
  <2>. QED BY <2>1, CaseKeyType, FS_Subset
<1>2. \A k \in D : dunning[k] \in Nat /\ dunning'[k] \in Nat
  BY <1>1, CountsGrow
<1>3. ASSUME NEW k \in D, k \notin C PROVE dunning[k] = 0
  <2>1. k \in CaseKeys /\ k[2] \in RowIds /\ rows'[k[2]].object = o
    BY <1>3 DEF CasesOf, RowsOf
  <2>2. rows[k[2]] = NoRow
    BY <1>3, <2>1, ObjectsKept DEF CasesOf, RowsOf
  <2>. QED BY <2>1, <2>2 DEF CasesOK
<1>4. AttemptsOn(o) = SumFunctionOnSet(dunning, C)
  BY DEF AttemptsOn, CasesOf
<1>. HIDE DEF C, D
<1>5. Units(dunning, D) = Units(dunning, C)
  BY <1>1, <1>2, <1>3 DEF Units
<1>6. /\ SumFunctionOnSet(dunning, D) = Cardinality(Units(dunning, D))
      /\ SumFunctionOnSet(dunning, C) = Cardinality(Units(dunning, C))
      /\ SumFunctionOnSet(dunning, C) \in Nat
  BY <1>1, <1>2, SumOfNaturals
<1>. QED BY <1>1, <1>2, <1>4, <1>5, <1>6 DEF C, D

LEMMA CountedOnceStep ==
    ASSUME TypeOK, TxOK, RowsOK, CasesOK, RunsOK, CountedOnce, NothingFails', [Next]_vars
    PROVE  CountedOnce'
<1>. SUFFICES ASSUME NEW o \in Objects
              PROVE  AttemptsOn(o)' = Cardinality(CountedFailures(o)')
  BY DEF CountedOnce
<1>. DEFINE D == CasesOf(o)'
            F == CountedFailures(o)
            G == CountedFailures(o)'
            before == SumFunctionOnSet(dunning, D)
            after == SumFunctionOnSet(dunning', D)
<1>0. UNCHANGED content
  BY HistoryKept
<1>1. /\ IsFiniteSet(D) /\ \A k \in D : dunning[k] \in Nat /\ dunning'[k] \in Nat
      /\ before = Cardinality(F) /\ before \in Nat
  BY NewRowsCountNothing DEF CountedOnce
<1>2. AttemptsOn(o)' = after
  BY DEF AttemptsOn, CasesOf
<1>3. IsFiniteSet(F)
  <2>1. F \subseteq Processed
    BY DEF CountedFailures, Processed
  <2>. QED BY <2>1, FS_Subset DEF CasesOK
<1>4. CASE UNCHANGED <<dunning, webhook>>
  <2>1. G = F /\ after = before
    BY <1>0, <1>4 DEF CountedFailures, IsFailure
  <2>. QED BY <1>1, <1>2, <2>1
<1>5. ASSUME NEW w \in Workers, Commit(w) PROVE after = Cardinality(G)
  <2>. DEFINE e == tx[w].event
              k == tx[w].case
  <2>1. /\ Handled(w) /\ Open(w) /\ PublishRow(w) /\ CaseOK(w)
        /\ e \in Events /\ webhook[e] = "absent"
        /\ webhook' = [webhook EXCEPT ![e] = "processed"]
    BY <1>5 DEF Commit, PublishRun, Handled, Open, CasesOK, TxOK, CarriedOK, RunsOK
  <2>2. CASE IsFailure(e) /\ content[e].object = o
    <3>1. k # NoCase /\ tx[w].record.object = o
      BY <2>1, <2>2 DEF CaseOK
    <3>2. k \in CaseKeys /\ rows'[k[2]] # NoRow /\ rows'[k[2]].object = o /\ k[2] \in RowIds
      BY <2>1, <3>1, PublishedCase
    <3>3. /\ k \in D /\ dunning'[k] = dunning[k] + 1
          /\ \A j \in D : j # k => dunning'[j] = dunning[j]
      BY <2>1, <3>1, <3>2, PublishedCase DEF CasesOf, RowsOf
    <3>4. G = F \cup {e} /\ e \notin F
      BY <1>0, <2>1, <2>2 DEF CountedFailures, IsFailure, TypeOK
    <3>5. Cardinality(G) = Cardinality(F) + 1
      BY <1>3, <3>4, FS_AddElement
    <3>. HIDE DEF D, F, G, k
    <3>6. after + dunning[k] = before + dunning'[k]
      BY <1>1, <3>3, SumChanges
    <3>7. after \in Nat
      BY <1>1, SumOfNaturals
    <3>. HIDE DEF before, after
    <3>. QED BY <1>1, <3>3, <3>5, <3>6, <3>7
  <2>3. CASE ~ (IsFailure(e) /\ content[e].object = o)
    <3>1. ASSUME NEW j \in D PROVE dunning'[j] = dunning[j]
      <4>1. CASE j = k
        <5>1. k # NoCase
          BY <3>1, <4>1, CaseKeyType DEF CasesOf
        <5>2. IsFailure(e) /\ tx[w].record.object = content[e].object
          BY <2>1, <5>1 DEF CaseOK, RunsOK
        <5>3. rows'[k[2]] = tx[w].record
          BY <2>1, <5>1, PublishedCase
        <5>4. rows'[k[2]].object = o
          BY <3>1, <4>1 DEF CasesOf, RowsOf
        <5>. QED BY <2>3, <5>2, <5>3, <5>4
      <4>2. CASE j # k
        BY <2>1, <3>1, <4>2, PublishedCase DEF CasesOf
      <4>. QED BY <4>1, <4>2
    <3>2. G = F
      BY <1>0, <2>1, <2>3 DEF CountedFailures, IsFailure, TypeOK
    <3>. HIDE DEF D, F, G
    <3>3. after = before
      BY <1>1, <3>1, SumOfSame
    <3>. QED BY <1>1, <3>2, <3>3
  <2>. QED BY <2>2, <2>3
<1>6. ASSUME NEW w \in Workers, Open(w),
             webhook' = [webhook EXCEPT ![tx[w].event] = "failed"]
      PROVE  FALSE
  BY <1>6 DEF TxOK, CarriedOK, Open, TypeOK, NothingFails
<1>. HIDE DEF D, F, G, before, after
<1>. QED BY <1>2, <1>4, <1>5, <1>6, CountSteps DEF G

-----------------------------------------------------------------------------
(***************************************************************************)
(* The snapshot's version: the rows of an object, and the runs of its      *)
(* events, are of the object's one customer, and nothing comes between the *)
(* version a run has read and the one it writes.                           *)
(***************************************************************************)

Owns(customer, o) ==
    \A e \in Events : content[e] # NoEvent /\ content[e].object = o
                        => content[e].customer = customer

OwnersOK ==
    /\ \A r \in RowIds : rows[r] # NoRow => Owns(rows[r].customer, rows[r].object)
    /\ \A w \in Workers :
         tx[w].row # 0 => Owns(tx[w].record.customer, tx[w].record.object)
    /\ \A w \in Workers : Handled(w) =>
         tx[w].customer = IF Touches(tx[w].event) THEN content[tx[w].event].customer
                          ELSE NoCustomer

VersionRead(w) ==
    pc[w] = "recalculated" => tx[w].version = snapshot[tx[w].customer].version + 1

LEMMA InitOwners == Init => OwnersOK /\ \A w \in Workers : VersionRead(w)
BY DEF Init, OwnersOK, VersionRead, Handled, NoTx

(* A run's row and customer are those of its event.                        *)
LEMMA HandlerOwns ==
    ASSUME TypeOK, TxOK, OwnersOK, ObjectsHaveOneCustomer,
           NEW w \in Workers, Upsert(w) \/ Amend(w) \/ PassOver(w)
    PROVE  /\ tx'[w].row # 0 => Owns(tx'[w].record.customer, tx'[w].record.object)
           /\ tx'[w].customer = IF Touches(tx[w].event) THEN content[tx[w].event].customer
                                ELSE NoCustomer
           /\ tx'[w].event = tx[w].event
<1>. DEFINE e == tx[w].event
            c == content[e]
            owner == IF Touches(e) THEN c.customer ELSE NoCustomer
<1>0. /\ tx[w] \in Transaction /\ pc[w] = "begun"
      /\ e \in Events /\ c \in EventRecord /\ c # NoEvent
  <2>1. pc[w] = "begun"
    BY DEF Upsert, Amend, PassOver
  <2>2. e \in Events /\ c \in EventRecord /\ tx[w] \in Transaction
    BY <2>1 DEF TypeOK, TxOK, CarriedOK
  <2>3. c # NoEvent
    BY <2>2 DEF EventRecord, NoEvent, Types, Upserts, SubscriptionUpserts,
                InvoiceUpserts, PaymentUpserts, Amends
  <2>. QED BY <2>1, <2>2, <2>3
<1>1. SUFFICES ASSUME NEW r, NEW record, NEW case, NEW customer,
                      Buffer(w, r, record, case, customer), customer = owner,
                      r # 0 => Owns(record.customer, record.object)
               PROVE  /\ tx'[w].row # 0 => Owns(tx'[w].record.customer, tx'[w].record.object)
                      /\ tx'[w].customer = owner /\ tx'[w].event = e
  <2>1. CASE Upsert(w)
    <3>1. PICK r \in RowIds, p \in 0..MaxRow :
            Buffer(w, r, UpsertRecord(c),
                   IF c.type = "invoice.payment_failed" THEN <<p, r>> ELSE NoCase, c.customer)
      BY <2>1, Zenon DEF Upsert
    <3>2. owner = c.customer
      BY <2>1 DEF Upsert, StoresRow, Touches, Upserts, SubscriptionUpserts,
                  InvoiceUpserts, PaymentUpserts
    <3>3. UpsertRecord(c).customer = c.customer /\ UpsertRecord(c).object = c.object
      BY DEF UpsertRecord
    <3>4. Owns(UpsertRecord(c).customer, UpsertRecord(c).object)
      BY <1>0, <3>3 DEF Owns, ObjectsHaveOneCustomer
    <3>. QED BY <1>1, <3>1, <3>2, <3>4
  <2>2. CASE Amend(w)
    <3>1. PICK r \in RowIds :
            /\ IsFirst(r, RowsOf(c.object))
            /\ Buffer(w, r, AmendRecord(c, rows[r]), NoCase, rows[r].customer)
      BY <2>2, Zenon DEF Amend
    <3>2. rows[r] # NoRow /\ rows[r] \in Row /\ rows[r].object = c.object
      BY <3>1 DEF IsFirst, RowsOf, TypeOK
    <3>3. /\ AmendRecord(c, rows[r]).customer = rows[r].customer
          /\ AmendRecord(c, rows[r]).object = rows[r].object
      BY <3>2 DEF AmendRecord, Row
    <3>4. Owns(rows[r].customer, rows[r].object)
      BY <3>2 DEF OwnersOK
    <3>5. c.customer = rows[r].customer /\ rows[r].customer \in Customers
      BY <1>0, <3>2, <3>4 DEF Owns, Row
    <3>6. owner = rows[r].customer
      BY <2>2, <3>5, NoValueAssumption DEF Amend, Touches, Amends
    <3>. QED BY <1>1, <3>1, <3>3, <3>4, <3>6
  <2>3. CASE PassOver(w)
    <3>1. Buffer(w, 0, NoRow, NoCase, IF c.type = "other" THEN NoCustomer ELSE c.customer)
      BY <2>3, Zenon DEF PassOver
    <3>2. owner = IF c.type = "other" THEN NoCustomer ELSE c.customer
      BY DEF Touches
    <3>. QED BY <1>1, <3>1, <3>2
  <2>. QED BY <2>1, <2>2, <2>3
<1>. HIDE DEF owner
<1>2. /\ tx'[w].row = r /\ tx'[w].record = record /\ tx'[w].customer = customer
      /\ tx'[w].event = e
  BY <1>0, <1>1 DEF Buffer, TypeOK, Transaction
<1>. QED BY <1>1, <1>2 DEF owner

LEMMA HandlerKeepsOthers ==
    ASSUME TypeOK, NEW w \in Workers, Upsert(w) \/ Amend(w) \/ PassOver(w)
    PROVE  /\ \A v \in Workers \ {w} : tx'[v] = tx[v] /\ pc'[v] = pc[v]
           /\ pc'[w] = "handled" /\ UNCHANGED <<rows, snapshot>>
<1>1. /\ pc' = [pc EXCEPT ![w] = "handled"]
      /\ \E record : tx' = [tx EXCEPT ![w] = record]
      /\ UNCHANGED database
  BY Zenon DEF Upsert, Amend, PassOver, Buffer
<1>. QED BY <1>1 DEF TypeOK, database

(* What a step does to one worker's transaction.                           *)
LEMMA TransactionSteps ==
    ASSUME TypeOK, [Next]_vars, NEW v \in Workers
    PROVE  \/ tx'[v] = tx[v] /\ pc'[v] = pc[v]
           \/ tx'[v].row = 0 /\ ~ Handled(v)'
           \/ Upsert(v) \/ Amend(v) \/ PassOver(v)
           \/ Recalculate(v)
<1>1. CASE UNCHANGED <<pc, tx, webhook>>
  BY <1>1
<1>2. ASSUME NEW w \in Workers, OthersStay(w), v # w PROVE tx'[v] = tx[v] /\ pc'[v] = pc[v]
  BY <1>2 DEF OthersStay
<1>. DEFINE Closed == tx'[v].row = 0 /\ ~ Handled(v)'
<1>3. ASSUME NEW record, record.row = 0, tx' = [tx EXCEPT ![v] = record],
             NEW at \in {"idle", "begun", "replying"}, pc' = [pc EXCEPT ![v] = at]
      PROVE  Closed
  BY <1>3 DEF Handled, TypeOK
<1>4. \A e, by : [NoTx EXCEPT !.event = e, !.by = by].row = 0 /\ NoTx.row = 0
  BY DEF NoTx
<1>. HIDE DEF Closed
<1>5. ASSUME EndTx(v) PROVE Closed
  BY <1>3, <1>4, <1>5 DEF EndTx
<1>6. ASSUME RollBack(v) \/ Reply(v) \/ LoseReply(v) PROVE Closed
  BY <1>3, <1>4, <1>6 DEF RollBack, Reply, LoseReply
<1>7. ASSUME NEW e, NEW by, Call(v, e, by) PROVE Closed
  BY <1>3, <1>4, <1>7 DEF Call, AfterLookup
<1>8. ASSUME NEW w \in Workers, Step(w) \/ \E e, by : Call(w, e, by), v # w
      PROVE  tx'[v] = tx[v] /\ pc'[v] = pc[v]
  <2>1. /\ \E record : tx' = [tx EXCEPT ![w] = record]
        /\ \E at : pc' = [pc EXCEPT ![w] = at]
    BY <1>8, Zenon DEF Step, Upsert, Amend, PassOver, Buffer, Recalculate, FailInHandler,
                       FailInRecalculation, FailInEnqueue, FailInSync, PublishRun, LogFailure,
                       Commit, EndTx, RollBack, Reply, LoseReply, Call
  <2>. QED BY <1>8, <2>1 DEF TypeOK
<1>9. ASSUME Step(v)
      PROVE  Closed \/ Upsert(v) \/ Amend(v) \/ PassOver(v) \/ Recalculate(v)
  BY <1>5, <1>6, <1>9 DEF Step, FailInHandler, FailInRecalculation, FailInEnqueue, FailInSync,
                          PublishRun, LogFailure, Commit
<1>10. ASSUME \/ \E q \in Replays, e \in Events : RequestReplay(q, e)
              \/ \E o \in Objects, c \in Customers : CreateCheckoutSession(o, c)
              \/ \E a \in Askers, c \in Customers : Ask(a, c)
              \/ \E a \in Askers : Answer(a)
              \/ \E r \in RowIds : TimePasses(r)
              \/ UNCHANGED vars
       PROVE  tx'[v] = tx[v] /\ pc'[v] = pc[v]
  BY <1>10 DEF RequestReplay, CreateCheckoutSession, Ask, Answer, TimePasses, vars
<1>. QED BY <1>7, <1>8, <1>9, <1>10 DEF Next, Deliver, ReplayNow, Closed

LEMMA RecalculateKeeps ==
    ASSUME TypeOK, NEW w \in Workers, Recalculate(w)
    PROVE  /\ tx'[w].row = tx[w].row /\ tx'[w].record = tx[w].record
           /\ tx'[w].customer = tx[w].customer /\ tx'[w].event = tx[w].event
           /\ tx'[w].version = snapshot[tx[w].customer].version + 1
           /\ Handled(w) /\ UNCHANGED snapshot
<1>1. tx[w] \in Transaction
  BY DEF TypeOK
<1>. QED BY <1>1 DEF Recalculate, TypeOK, Transaction, Handled, database

(* The owner of an object's rows is the owner of its events.               *)
LEMMA OwnedRowsStep ==
    ASSUME TypeOK, TxOK, OwnersOK, ObjectsHaveOneCustomer, [Next]_vars,
           NEW r \in RowIds, rows'[r] # NoRow
    PROVE  Owns(rows'[r].customer, rows'[r].object)
<1>1. CASE rows'[r] = rows[r]
  BY <1>1 DEF OwnersOK
<1>2. ASSUME NEW w \in Workers, PublishRow(w), rows'[r] # rows[r]
      PROVE  Owns(rows'[r].customer, rows'[r].object)
  <2>1. tx[w].row = r /\ rows'[r] = tx[w].record /\ tx[w].row # 0
    BY <1>2, PublishRowEffect DEF RowIds
  <2>. QED BY <2>1 DEF OwnersOK
<1>3. ASSUME NEW o \in Objects, NEW c \in Customers, CreateCheckoutSession(o, c),
             rows'[r] # rows[r]
      PROVE  Owns(rows'[r].customer, rows'[r].object)
  <2>1. rows'[r].customer = c /\ rows'[r].object = o
    BY <1>3 DEF CreateCheckoutSession, TypeOK
  <2>2. PICK e \in Events : /\ content[e].type \in {"checkout.session.completed",
                                                    "checkout.session.expired"}
                            /\ content[e].object = o /\ content[e].customer = c
    BY <1>3 DEF CreateCheckoutSession
  <2>3. content[e] # NoEvent
    BY <2>2 DEF NoEvent
  <2>. QED BY <2>1, <2>2, <2>3 DEF Owns, ObjectsHaveOneCustomer
<1>4. ASSUME NEW s \in RowIds, TimePasses(s)
      PROVE  Owns(rows'[r].customer, rows'[r].object)
  <2>1. rows[r] # NoRow
    BY <1>4 DEF TimePasses, TypeOK
  <2>2. rows'[r].object = rows[r].object /\ rows'[r].customer = rows[r].customer
    BY <1>4, <2>1 DEF TimePasses, TypeOK, Row
  <2>. QED BY <2>1, <2>2 DEF OwnersOK
<1>5. ASSUME NEW w \in Workers, Step(w) PROVE rows' = rows \/ PublishRow(w)
  <2>1. CASE FailInRecalculation(w) \/ Commit(w) \/ FailInEnqueue(w) \/ FailInSync(w)
    BY <2>1 DEF FailInRecalculation, Commit, FailInEnqueue, FailInSync, PublishRun
  <2>2. CASE Upsert(w) \/ Amend(w) \/ PassOver(w)
    BY <2>2, HandlerKeepsOthers
  <2>3. CASE \/ Recalculate(w) \/ FailInHandler(w)
             \/ RollBack(w) \/ Reply(w) \/ LoseReply(w)
    BY <2>3 DEF Recalculate, FailInHandler, RollBack, Reply, LoseReply, database
  <2>. QED BY <1>5, <2>1, <2>2, <2>3 DEF Step
<1>6. ASSUME NEW w \in Workers, NEW e, NEW by, Call(w, e, by) PROVE rows' = rows
  BY <1>6 DEF Call, database
<1>7. ASSUME \/ \E q \in Replays, e \in Events : RequestReplay(q, e)
             \/ \E a \in Askers, c \in Customers : Ask(a, c)
             \/ \E a \in Askers : Answer(a)
             \/ UNCHANGED vars
      PROVE  rows' = rows
  BY <1>7 DEF RequestReplay, Ask, Answer, vars, database
<1>. QED BY <1>1, <1>2, <1>3, <1>4, <1>5, <1>6, <1>7 DEF Next, Deliver, ReplayNow

LEMMA OwnersOKStep ==
    ASSUME TypeOK, TxOK, OwnersOK, ObjectsHaveOneCustomer, [Next]_vars
    PROVE  OwnersOK'
<1>0. UNCHANGED content
  BY HistoryKept
<1>1. \A r \in RowIds : rows'[r] # NoRow => Owns(rows'[r].customer, rows'[r].object)
  BY OwnedRowsStep
<1>2. ASSUME NEW w \in Workers
      PROVE  /\ tx'[w].row # 0 => Owns(tx'[w].record.customer, tx'[w].record.object)
             /\ Handled(w)' =>
                  tx'[w].customer = IF Touches(tx'[w].event) THEN content[tx'[w].event].customer
                                    ELSE NoCustomer
  <2>1. CASE tx'[w] = tx[w] /\ pc'[w] = pc[w]
    BY <2>1 DEF OwnersOK, Handled
  <2>2. CASE Upsert(w) \/ Amend(w) \/ PassOver(w)
    BY <2>2, HandlerOwns
  <2>3. CASE Recalculate(w)
    BY <2>3, RecalculateKeeps DEF OwnersOK
  <2>. QED BY <2>1, <2>2, <2>3, TransactionSteps
<1>. QED BY <1>0, <1>1, <1>2 DEF OwnersOK, Owns, Touches

(* A snapshot is written by a run that ends, or by an asker.               *)
LEMMA SnapshotSteps ==
    ASSUME TypeOK, TxOK, NothingFails', [Next]_vars
    PROVE  \/ UNCHANGED <<webhook, snapshot>>
           \/ \E w \in Workers : Commit(w)
           \/ \E a \in Askers : Answer(a)
<1>1. ASSUME NEW w \in Workers, LoggedFailure(w) PROVE FALSE
  BY <1>1 DEF LoggedFailure, TxOK, CarriedOK, Open, TypeOK, NothingFails
<1>2. ASSUME NEW w \in Workers, Reply(w) PROVE UNCHANGED <<webhook, snapshot>>
  BY <1>2 DEF Reply, database
<1>. QED BY <1>1, <1>2, StepKinds DEF Published

LEMMA VersionReadStep ==
    ASSUME TypeOK, TxOK, \A w \in Workers : VersionRead(w),
           NothingFails', Undisturbed, Undisturbed', [Next]_vars
    PROVE  \A w \in Workers : VersionRead(w)'
<1>1. ASSUME NEW w \in Workers, tx'[w] = tx[w], pc'[w] = pc[w], UNCHANGED snapshot
      PROVE  VersionRead(w)'
  BY <1>1 DEF VersionRead
<1>2. ASSUME NEW w \in Workers, ~ Handled(w)' PROVE VersionRead(w)'
  BY <1>2 DEF VersionRead, Handled
<1>3. ASSUME NEW w \in Workers, Upsert(w) \/ Amend(w) \/ PassOver(w) PROVE VersionRead(w)'
  BY <1>3, HandlerKeepsOthers DEF VersionRead
<1>4. ASSUME NEW w \in Workers, Recalculate(w) PROVE VersionRead(w)'
  BY <1>4, RecalculateKeeps DEF VersionRead
<1>5. ASSUME NEW w \in Workers, NEW v \in Workers, Commit(v), tx'[w] = tx[w], pc'[w] = pc[w],
             pc[w] = "recalculated"
      PROVE  snapshot'[tx[w].customer] = snapshot[tx[w].customer]
  <2>1. pc'[v] = "replying"
    BY <1>5 DEF Commit, PublishRun, EndTx, TypeOK
  <2>2. v # w
    BY <1>5, <2>1
  <2>3. CASE pc[v] = "recalculated"
    <3>1. tx[v].customer # tx[w].customer
      BY <1>5, <2>2, <2>3 DEF Undisturbed
    <3>2. tx[w].customer \in Customers
      BY <1>5 DEF TxOK, CarriedOK
    <3>. QED BY <1>5, <2>3, <3>1, <3>2 DEF Commit, PublishRun, PublishSnapshot, TypeOK
  <2>4. CASE pc[v] # "recalculated"
    BY <1>5, <2>4 DEF Commit, PublishRun
  <2>. QED BY <2>3, <2>4
<1>6. ASSUME NEW a \in Askers, Answer(a) PROVE FALSE
  BY <1>6 DEF Answer, Undisturbed, TypeOK, Question
<1>. SUFFICES ASSUME NEW w \in Workers, tx'[w] = tx[w], pc'[w] = pc[w], pc[w] = "recalculated"
              PROVE  VersionRead(w)'
  BY <1>2, <1>3, <1>4, TransactionSteps DEF VersionRead
<1>. QED BY <1>1, <1>5, <1>6, SnapshotSteps DEF VersionRead

VersionsOK == \A c \in Customers : snapshot[c].version = Cardinality(AppliedTo(c))

(* A step that makes no event PROCESSED and writes no snapshot.            *)
LEMMA AppliedKept ==
    ASSUME VersionsOK, UNCHANGED <<webhook, snapshot, content>>
    PROVE  VersionsOK'
<1>1. ASSUME NEW c PROVE AppliedTo(c)' = AppliedTo(c)
  BY DEF AppliedTo, Touches
<1>. QED BY <1>1 DEF VersionsOK

LEMMA VersionsOKStep ==
    ASSUME TypeOK, TxOK, RunsOK, OwnersOK, \A w \in Workers : VersionRead(w), VersionsOK,
           IsFiniteSet(Processed), NothingFails', Undisturbed', [Next]_vars
    PROVE  VersionsOK'
<1>0. UNCHANGED content
  BY HistoryKept
<1>1. CASE UNCHANGED <<webhook, snapshot>>
  BY <1>0, <1>1, AppliedKept
<1>2. ASSUME NEW a \in Askers, Answer(a) PROVE FALSE
  BY <1>2 DEF Answer, Undisturbed, TypeOK, Question
<1>3. ASSUME NEW w \in Workers, Commit(w), NEW c \in Customers
      PROVE  snapshot'[c].version = Cardinality(AppliedTo(c)')
  <2>. DEFINE e == tx[w].event
  <2>1. /\ Handled(w) /\ Open(w) /\ e \in Events /\ webhook[e] = "absent"
        /\ webhook' = [webhook EXCEPT ![e] = "processed"]
        /\ webhook \in [Events -> {"absent", "failed", "processed"}]
    BY <1>3 DEF Commit, PublishRun, Handled, Open, TxOK, CarriedOK, RunsOK, TypeOK
  <2>2. IsFiniteSet(AppliedTo(c)) /\ Cardinality(AppliedTo(c)) \in Nat
    <3>1. AppliedTo(c) \subseteq Processed
      BY DEF AppliedTo, Processed
    <3>. QED BY <3>1, FS_Subset, FS_CardinalityType
  <2>3. tx[w].customer = IF Touches(e) THEN content[e].customer ELSE NoCustomer
    BY <2>1 DEF OwnersOK
  <2>4. CASE Touches(e) /\ content[e].customer = c
    <3>1. tx[w].customer = c /\ c # NoCustomer
      BY <2>3, <2>4, NoValueAssumption
    <3>2. pc[w] = "recalculated" /\ PublishSnapshot(w)
      BY <1>3, <3>1 DEF Commit, PublishRun
    <3>3. snapshot'[c].version = snapshot[c].version + 1
      BY <3>1, <3>2 DEF PublishSnapshot, VersionRead, TypeOK
    <3>4. AppliedTo(c)' = AppliedTo(c) \cup {e} /\ e \notin AppliedTo(c)
      BY <1>0, <2>1, <2>4 DEF AppliedTo, Touches
    <3>5. Cardinality(AppliedTo(c)') = Cardinality(AppliedTo(c)) + 1
      BY <2>2, <3>4, FS_AddElement
    <3>. QED BY <3>3, <3>5 DEF VersionsOK
  <2>5. CASE ~ (Touches(e) /\ content[e].customer = c)
    <3>1. tx[w].customer # c
      BY <2>3, <2>5, NoValueAssumption
    <3>2. snapshot'[c] = snapshot[c]
      <4>1. CASE pc[w] = "recalculated"
        BY <1>3, <3>1, <4>1 DEF Commit, PublishRun, PublishSnapshot, TypeOK
      <4>2. CASE pc[w] # "recalculated"
        BY <1>3, <4>2 DEF Commit, PublishRun
      <4>. QED BY <4>1, <4>2
    <3>3. AppliedTo(c)' = AppliedTo(c)
      BY <1>0, <2>1, <2>5 DEF AppliedTo, Touches
    <3>. QED BY <3>2, <3>3 DEF VersionsOK
  <2>. QED BY <2>4, <2>5
<1>. QED BY <1>1, <1>2, <1>3, SnapshotSteps DEF VersionsOK

-----------------------------------------------------------------------------
LEMMA NoCountsAtFirst == Init => CountedOnce /\ VersionsOK
<1>. SUFFICES ASSUME Init PROVE CountedOnce /\ VersionsOK
  OBVIOUS
<1>1. ASSUME NEW o \in Objects PROVE AttemptsOn(o) = Cardinality(CountedFailures(o))
  <2>1. CountedFailures(o) = {} /\ CasesOf(o) = {}
    BY DEF Init, CountedFailures, CasesOf, RowsOf, CaseKeys, RowIds
  <2>2. AttemptsOn(o) = SumFunctionOnSet(dunning, CasesOf(o))
    BY DEF AttemptsOn, CasesOf
  <2>. QED BY <2>1, <2>2, SumOfNone, FS_EmptySet
<1>2. ASSUME NEW c \in Customers PROVE snapshot[c].version = Cardinality(AppliedTo(c))
  <2>1. AppliedTo(c) = {} /\ snapshot[c].version = 0
    BY DEF Init, AppliedTo
  <2>. QED BY <2>1, FS_EmptySet
<1>. QED BY <1>1, <1>2 DEF CountedOnce, VersionsOK

(* As long as no run ends in FAILED, every PROCESSED payment failure is    *)
(* counted exactly once in the dunning cases of its invoice: neither a     *)
(* repeated delivery nor a replay counts it again, and no concurrent run   *)
(* takes a count away.                                                     *)
THEOREM FailuresAreCountedOnce == Spec /\ []NothingFails => []CountedOnce
<1>. DEFINE J == IInv /\ CasesOK /\ RunsOK /\ CountedOnce
<1>1. Init => J
  BY InitIInv, InitCases, InitRuns, NoCountsAtFirst
<1>2. J /\ NothingFails /\ NothingFails' /\ [Next]_vars => J'
  BY StepIInv, CasesOKStep, RunsOKStep, CountedOnceStep DEF IInv
<1>3. J => CountedOnce
  OBVIOUS
<1>. HIDE DEF J
<1>4. Spec /\ []NothingFails => []J
  BY <1>1, <1>2, PTL DEF Spec
<1>. QED BY <1>3, <1>4, PTL

(* When moreover an object's events name one customer, and no recalculation *)
(* of a customer overlaps another, every PROCESSED event has been applied  *)
(* exactly once: the version of a customer's snapshot counts the customer's *)
(* events, however often and in whatever order they came.                  *)
THEOREM EventsAreAppliedOnce == Spec => AppliedOnceUnlessDisturbed
<1>. DEFINE J == /\ IInv /\ CasesOK /\ RunsOK
                 /\ ObjectsHaveOneCustomer /\ OwnersOK
                 /\ (\A w \in Workers : VersionRead(w)) /\ VersionsOK
<1>1. Init /\ ObjectsHaveOneCustomer => J
  BY InitIInv, InitCases, InitRuns, InitOwners, NoCountsAtFirst
<1>2. /\ J /\ [Next]_vars
      /\ NothingFails /\ NothingFails' /\ Undisturbed /\ Undisturbed'
      => J'
  <2>. SUFFICES ASSUME J, [Next]_vars, NothingFails, NothingFails', Undisturbed, Undisturbed'
                PROVE  J'
    OBVIOUS
  <2>1. TypeOK /\ TxOK /\ RowsOK /\ IsFiniteSet(Processed)
    BY DEF IInv, CasesOK
  <2>2. IInv' /\ CasesOK' /\ RunsOK'
    BY <2>1, StepIInv, CasesOKStep, RunsOKStep
  <2>3. ObjectsHaveOneCustomer'
    BY HistoryKept DEF ObjectsHaveOneCustomer
  <2>4. OwnersOK'
    BY <2>1, OwnersOKStep
  <2>5. \A w \in Workers : VersionRead(w)'
    BY <2>1, VersionReadStep
  <2>6. VersionsOK'
    BY <2>1, VersionsOKStep
  <2>. QED BY <2>2, <2>3, <2>4, <2>5, <2>6
<1>3. J /\ CountedOnce => AppliedExactlyOnce
  BY DEF VersionsOK, AppliedExactlyOnce
<1>. HIDE DEF J
<1>4. Spec /\ ObjectsHaveOneCustomer /\ []NothingFails /\ []Undisturbed => []J
  BY <1>1, <1>2, PTL DEF Spec
<1>. QED BY <1>3, <1>4, FailuresAreCountedOnce, PTL DEF AppliedOnceUnlessDisturbed

-----------------------------------------------------------------------------
(***************************************************************************)
(* Announced events have been applied.                                     *)
(***************************************************************************)

(* The customer that an upsert's run recalculates is the event's.          *)
OwnUpsert(w) ==
    Handled(w) /\ content[tx[w].event].type \in Upserts
        => tx[w].customer = content[tx[w].event].customer

LEMMA OwnUpsertStep ==
    ASSUME TypeOK, TxOK, UNCHANGED content, [Next]_vars, NEW w \in Workers, OwnUpsert(w)
    PROVE  OwnUpsert(w)'
<1>. DEFINE c == content[tx[w].event]
<1>0. tx[w] \in Transaction
  BY DEF TypeOK
<1>1. CASE tx'[w] = tx[w] /\ pc'[w] = pc[w]
  BY <1>1 DEF OwnUpsert, Handled
<1>2. CASE ~ Handled(w)'
  BY <1>2 DEF OwnUpsert
<1>3. CASE Recalculate(w)
  BY <1>3, RecalculateKeeps DEF OwnUpsert
<1>4. ASSUME NEW r, NEW record, NEW case, NEW customer,
             Buffer(w, r, record, case, customer), c.type \in Upserts => customer = c.customer
      PROVE  OwnUpsert(w)'
  <2>1. tx'[w].customer = customer /\ tx'[w].event = tx[w].event
    BY <1>0, <1>4 DEF Buffer, TypeOK, Transaction
  <2>. QED BY <1>4, <2>1 DEF OwnUpsert
<1>5. CASE Upsert(w)
  <2>1. PICK r \in RowIds, p \in 0..MaxRow :
          Buffer(w, r, UpsertRecord(c),
                 IF c.type = "invoice.payment_failed" THEN <<p, r>> ELSE NoCase, c.customer)
    BY <1>5, Zenon DEF Upsert
  <2>. QED BY <1>4, <2>1
<1>6. CASE Amend(w)
  <2>1. PICK r \in RowIds :
          Buffer(w, r, AmendRecord(c, rows[r]), NoCase, rows[r].customer)
    BY <1>6, Zenon DEF Amend
  <2>2. c.type \notin Upserts
    BY <1>6 DEF Amend, Amends, Upserts, SubscriptionUpserts, InvoiceUpserts, PaymentUpserts
  <2>. QED BY <1>4, <2>1, <2>2
<1>7. CASE PassOver(w)
  <2>1. Buffer(w, 0, NoRow, NoCase, IF c.type = "other" THEN NoCustomer ELSE c.customer)
    BY <1>7, Zenon DEF PassOver
  <2>2. "other" \notin Upserts
    BY DEF Upserts, SubscriptionUpserts, InvoiceUpserts, PaymentUpserts
  <2>. QED BY <1>4, <2>1, <2>2
<1>. QED BY <1>1, <1>2, <1>3, <1>5, <1>6, <1>7, TransactionSteps

(* A step that announces event e is the end of a run of e that published.  *)
LEMMA AnnouncingSteps ==
    ASSUME TypeOK, TxOK, [Next]_vars, NEW e \in Events,
           ProviderEventProcessed(e) \in outbox', ProviderEventProcessed(e) \notin outbox
    PROVE  \E w \in Workers : /\ pc[w] = "recalculated" /\ tx[w].event = e
                              /\ PublishRun(w) /\ webhook'[e] # "absent"
<1>. USE DEF ProviderEventProcessed, EntitlementsChanged
<1>1. outbox' # outbox
  OBVIOUS
<1>2. PICK w \in Workers : LoggedFailure(w) \/ Commit(w)
  BY <1>1, StepKinds DEF Published, Reply, Answer, database
<1>3. PublishRun(w) /\ pc[w] = "recalculated"
  BY <1>1, <1>2 DEF LoggedFailure, Commit, PublishRun
<1>4. tx[w].event = e
  BY <1>3 DEF PublishRun
<1>5. webhook'[e] # "absent"
  BY <1>2, <1>4 DEF LoggedFailure, Commit, TypeOK
<1>. QED BY <1>3, <1>4, <1>5

(* What is once announced or applied remains so.                           *)
LEMMA AppliedStays ==
    ASSUME TypeOK, TxOK, [Next]_vars
    PROVE  /\ outbox \subseteq outbox' /\ changeLog \subseteq changeLog'
           /\ \A e \in Events : webhook[e] # "absent" => webhook'[e] # "absent"
<1>1. CASE \/ UNCHANGED <<Published, acked>>
           \/ \E w \in Workers : Reply(w)
           \/ \E a \in Askers : Answer(a)
  BY <1>1 DEF Published, Reply, Answer, database
<1>2. ASSUME NEW w \in Workers, LoggedFailure(w) \/ Commit(w)
      PROVE  /\ outbox \subseteq outbox' /\ changeLog \subseteq changeLog'
             /\ \A e \in Events : webhook[e] # "absent" => webhook'[e] # "absent"
  BY <1>2 DEF LoggedFailure, Commit, PublishRun, PublishSnapshot, TypeOK
<1>. QED BY <1>1, <1>2, StepKinds

LEMMA AnnouncedIsAppliedStep ==
    ASSUME TypeOK, TxOK, RowsOK, AnnouncedIsApplied, \A w \in Workers : OwnUpsert(w),
           UNCHANGED content, [Next]_vars
    PROVE  AnnouncedIsApplied'
<1>1. ASSUME NEW e \in Events, ProviderEventProcessed(e) \in outbox
      PROVE  /\ webhook'[e] # "absent"
             /\ StoresRow(content[e]) =>
                  \E r \in RowIds : rows'[r] # NoRow /\ rows'[r].object = content[e].object
             /\ content[e].type \in Upserts =>
                  \E entry \in changeLog' : entry.customer = content[e].customer
  <2>1. webhook'[e] # "absent" /\ changeLog \subseteq changeLog'
    BY <1>1, AppliedStays DEF AnnouncedIsApplied
  <2>2. ASSUME StoresRow(content[e])
        PROVE  \E r \in RowIds : rows'[r] # NoRow /\ rows'[r].object = content[e].object
    <3>1. PICK r \in RowIds : rows[r] # NoRow /\ rows[r].object = content[e].object
      BY <1>1, <2>2 DEF AnnouncedIsApplied
    <3>. QED BY <3>1, ObjectsKept
  <2>. QED BY <1>1, <2>1, <2>2 DEF AnnouncedIsApplied
<1>2. ASSUME NEW e \in Events,
             ProviderEventProcessed(e) \in outbox', ProviderEventProcessed(e) \notin outbox
      PROVE  /\ webhook'[e] # "absent"
             /\ StoresRow(content[e]) =>
                  \E r \in RowIds : rows'[r] # NoRow /\ rows'[r].object = content[e].object
             /\ content[e].type \in Upserts =>
                  \E entry \in changeLog' : entry.customer = content[e].customer
  <2>1. PICK w \in Workers : /\ pc[w] = "recalculated" /\ tx[w].event = e
                             /\ PublishRun(w) /\ webhook'[e] # "absent"
    BY <1>2, AnnouncingSteps
  <2>2. Handled(w) /\ PublishRow(w) /\ PublishSnapshot(w)
    BY <2>1 DEF PublishRun, Handled
  <2>3. ASSUME StoresRow(content[e])
        PROVE  \E r \in RowIds : rows'[r] # NoRow /\ rows'[r].object = content[e].object
    <3>1. /\ tx[w].row # 0 /\ tx[w].record.object = content[e].object
          /\ tx[w].record \in Row
      BY <2>1, <2>2, <2>3 DEF TxOK, CarriedOK
    <3>2. tx[w].row \in RowIds /\ rows'[tx[w].row] = tx[w].record
      BY <2>2, <3>1, PublishRowEffect
    <3>3. tx[w].record # NoRow
      BY <3>1, NoValueAssumption DEF NoRow, Row
    <3>. QED BY <3>1, <3>2, <3>3
  <2>4. ChangeOf(w) \in changeLog' /\ ChangeOf(w).customer = tx[w].customer
    BY <2>2 DEF PublishSnapshot, ChangeOf
  <2>5. content[e].type \in Upserts => tx[w].customer = content[e].customer
    BY <2>1, <2>2 DEF OwnUpsert
  <2>. QED BY <2>1, <2>3, <2>4, <2>5
<1>. QED BY <1>1, <1>2 DEF AnnouncedIsApplied, ProviderEventProcessed, StoresRow

(* An event that applications were told of is in the log, and an announced *)
(* upsert has left its row and a logged recalculation of its customer,     *)
(* though the run that announced it may have ended in FAILED.              *)
THEOREM AnnouncedEventsAreApplied == Spec => []AnnouncedIsApplied
<1>. DEFINE J == IInv /\ (\A w \in Workers : OwnUpsert(w)) /\ AnnouncedIsApplied
<1>1. Init => J
  BY InitIInv DEF Init, OwnUpsert, Handled, AnnouncedIsApplied
<1>2. J /\ [Next]_vars => J'
  BY StepIInv, HistoryKept, OwnUpsertStep, AnnouncedIsAppliedStep DEF IInv
<1>3. J => AnnouncedIsApplied
  OBVIOUS
<1>. HIDE DEF J
<1>. QED BY <1>1, <1>2, <1>3, PTL DEF Spec

-----------------------------------------------------------------------------
(***************************************************************************)
(* The deliveries implement the at-least-once queue.                       *)
(***************************************************************************)

(* An event that is logged, or that a worker is at work on, was delivered. *)
TriesOK ==
    /\ \A w \in Workers : pc[w] # "idle" => tries[tx[w].event] # 0
    /\ \A e \in Events : webhook[e] # "absent" => tries[e] # 0

Calls(e) ==
    tries' = [tries EXCEPT ![e] = @ + 1] /\ UNCHANGED <<webhook, acked>>

LEMMA TriesSteps ==
    ASSUME [Next]_vars
    PROVE  UNCHANGED tries \/ \E w \in Workers, e \in Events : \E by : Call(w, e, by)
<1>1. ASSUME NEW w \in Workers, Step(w) PROVE UNCHANGED tries
  BY <1>1, Zenon DEF Step, Upsert, Amend, PassOver, Buffer, Recalculate, FailInHandler,
                     FailInRecalculation, FailInEnqueue, FailInSync, PublishRun, LogFailure,
                     Commit, RollBack, Reply, LoseReply, environment
<1>2. ASSUME \/ \E q \in Replays, e \in Events : RequestReplay(q, e)
             \/ \E o \in Objects, c \in Customers : CreateCheckoutSession(o, c)
             \/ \E a \in Askers, c \in Customers : Ask(a, c)
             \/ \E a \in Askers : Answer(a)
             \/ \E r \in RowIds : TimePasses(r)
             \/ UNCHANGED vars
      PROVE  UNCHANGED tries
  BY <1>2 DEF RequestReplay, CreateCheckoutSession, Ask, Answer, TimePasses, vars,
              environment
<1>. QED BY <1>1, <1>2 DEF Next, Deliver, ReplayNow

(* What a step does to the deliveries, the log and the acknowledgements.   *)
Logs(w) ==
    /\ UNCHANGED <<tries, acked>>
    /\ pc[w] # "idle" /\ tx[w].event \in Events
    /\ \E status \in {"failed", "processed"} :
         webhook' = [webhook EXCEPT ![tx[w].event] = status]
Acknowledges(w) ==
    /\ UNCHANGED <<tries, webhook>>
    /\ pc[w] = "replying" /\ tx[w].event \in Events
    /\ acked' = acked \union {tx[w].event}

LEMMA LogSteps ==
    ASSUME TypeOK, TxOK, [Next]_vars
    PROVE  \/ UNCHANGED <<tries, webhook, acked>>
           \/ \E e \in Events : Calls(e)
           \/ \E w \in Workers : Logs(w) \/ Acknowledges(w)
<1>1. ASSUME NEW w \in Workers, NEW e \in Events, NEW by, Call(w, e, by) PROVE Calls(e)
  BY <1>1 DEF Call, Calls, database
<1>2. ASSUME NEW w \in Workers, LoggedFailure(w) \/ Commit(w), UNCHANGED tries
      PROVE  Logs(w)
  BY <1>2 DEF LoggedFailure, Commit, PublishRun, Open, TxOK, CarriedOK, environment, Logs
<1>3. ASSUME NEW w \in Workers, Reply(w), UNCHANGED tries
      PROVE  Acknowledges(w) \/ UNCHANGED <<tries, webhook, acked>>
  BY <1>3 DEF Reply, TxOK, CarriedOK, database, Acknowledges
<1>4. ASSUME NEW a \in Askers, Answer(a) PROVE UNCHANGED <<tries, webhook, acked>>
  BY <1>4 DEF Answer, environment
<1>. QED BY <1>1, <1>2, <1>3, <1>4, StepKinds, TriesSteps DEF Published

(* A worker keeps its event until it is idle.                              *)
LEMMA EventKept ==
    ASSUME TypeOK, TxOK, [Next]_vars, NEW v \in Workers, pc'[v] # "idle"
    PROVE  \/ pc[v] # "idle" /\ tx'[v].event = tx[v].event
           \/ \E e \in Events : tx'[v].event = e /\ Calls(e)
<1>. DEFINE Working == pc[v] # "idle" /\ tx'[v].event = tx[v].event
<1>1. ASSUME NEW w \in Workers, NEW e \in Events, NEW by, Call(w, e, by)
      PROVE  (tx'[v].event = e /\ Calls(e)) \/ Working
  <2>1. Calls(e)
    BY <1>1 DEF Call, Calls, database
  <2>2. CASE v = w
    BY <1>1, <2>1, <2>2 DEF Call, TypeOK, NoTx
  <2>3. CASE v # w
    BY <1>1, <2>3 DEF Call, TypeOK
  <2>. QED BY <2>2, <2>3
<1>2. ASSUME NEW w \in Workers, Step(w) PROVE Working
  <2>1. CASE v # w
    <3>1. /\ \E record : tx' = [tx EXCEPT ![w] = record]
          /\ \E at : pc' = [pc EXCEPT ![w] = at]
      BY <1>2, Zenon DEF Step, Upsert, Amend, PassOver, Buffer, Recalculate, FailInHandler,
                         FailInRecalculation, FailInEnqueue, FailInSync, PublishRun, LogFailure,
                         Commit, EndTx, RollBack, Reply, LoseReply
    <3>. QED BY <2>1, <3>1 DEF TypeOK
  <2>2. ASSUME Upsert(v) \/ Amend(v) \/ PassOver(v) PROVE Working
    <3>1. /\ pc[v] = "begun"
          /\ \E r, record, case, customer : Buffer(v, r, record, case, customer)
      BY <2>2, Zenon DEF Upsert, Amend, PassOver
    <3>. QED BY <3>1 DEF Buffer, TypeOK, Transaction
  <2>3. ASSUME Recalculate(v) PROVE Working
    BY <2>3, RecalculateKeeps DEF Handled
  <2>4. ASSUME RollBack(v) \/ Reply(v) \/ LoseReply(v) PROVE FALSE
    BY <2>4 DEF RollBack, Reply, LoseReply, TypeOK
  <2>5. ASSUME FailInHandler(v) \/ FailInRecalculation(v)
               \/ FailInEnqueue(v) \/ FailInSync(v) \/ Commit(v)
        PROVE  Working
    <3>1. EndTx(v) /\ pc[v] # "idle"
      BY <2>5 DEF FailInHandler, FailInRecalculation, FailInEnqueue, FailInSync, PublishRun,
                  LogFailure, Commit
    <3>. QED BY <3>1 DEF EndTx, NoTx, TypeOK
  <2>. QED BY <1>2, <2>1, <2>2, <2>3, <2>4, <2>5 DEF Step
<1>3. ASSUME \/ \E q \in Replays, e \in Events : RequestReplay(q, e)
             \/ \E o \in Objects, c \in Customers : CreateCheckoutSession(o, c)
             \/ \E a \in Askers, c \in Customers : Ask(a, c)
             \/ \E a \in Askers : Answer(a)
             \/ \E r \in RowIds : TimePasses(r)
             \/ UNCHANGED vars
      PROVE  Working
  BY <1>3 DEF RequestReplay, CreateCheckoutSession, Ask, Answer, TimePasses, vars
<1>. QED BY <1>1, <1>2, <1>3 DEF Next, Deliver, ReplayNow

LEMMA TriesOKStep ==
    ASSUME TypeOK, TxOK, TriesOK, [Next]_vars
    PROVE  TriesOK'
<1>1. ASSUME NEW e \in Events, tries[e] # 0 PROVE tries'[e] # 0
  <2>1. ASSUME NEW d \in Events, Calls(d) PROVE tries'[e] # 0
    BY <1>1, <2>1 DEF Calls, TypeOK
  <2>. QED BY <1>1, <2>1, LogSteps DEF Logs, Acknowledges
<1>2. ASSUME NEW v \in Workers, pc'[v] # "idle" PROVE tries'[tx'[v].event] # 0
  <2>1. ASSUME NEW e \in Events, tx'[v].event = e, Calls(e) PROVE tries'[tx'[v].event] # 0
    BY <2>1 DEF Calls, TypeOK
  <2>2. CASE pc[v] # "idle" /\ tx'[v].event = tx[v].event
    BY <1>1, <2>2 DEF TriesOK, TxOK, CarriedOK
  <2>. QED BY <1>2, <2>1, <2>2, EventKept
<1>3. ASSUME NEW e \in Events, webhook'[e] # "absent" PROVE tries'[e] # 0
  <2>1. CASE webhook[e] # "absent"
    BY <1>1, <2>1 DEF TriesOK
  <2>2. CASE webhook[e] = "absent"
    <3>1. PICK w \in Workers : Logs(w)
      BY <1>3, <2>2, LogSteps DEF Calls, Acknowledges
    <3>2. pc[w] # "idle" /\ tx[w].event = e
      BY <1>3, <2>2, <3>1 DEF Logs, TypeOK
    <3>. QED BY <1>1, <3>2 DEF TriesOK
  <2>. QED BY <2>1, <2>2
<1>. QED BY <1>2, <1>3 DEF TriesOK

(* A first delivery puts the event into the queue.                         *)
LEMMA CallPuts ==
    ASSUME TypeOK, NEW e \in Events, Calls(e)
    PROVE  [Delivery!Next]_<<DeliveryState, Logged>>
<1>1. /\ tries'[e] # 0 /\ UNCHANGED <<acked, Logged>>
      /\ \A d \in Events : d # e => tries'[d] = tries[d]
  BY DEF Calls, TypeOK, Logged
<1>2. CASE e \in acked \/ tries[e] # 0
  BY <1>1, <1>2 DEF DeliveryState
<1>3. CASE e \notin acked /\ tries[e] = 0
  <2>1. DeliveryState[e] = "absent"
    BY <1>3 DEF DeliveryState
  <2>2. DeliveryState' = [DeliveryState EXCEPT ![e] = "queued"]
    BY <1>1, <1>3 DEF DeliveryState
  <2>. QED BY <1>1, <2>1, <2>2 DEF Delivery!Next, Delivery!Put
<1>. QED BY <1>2, <1>3

(* A first logged outcome accepts an event that is in the queue.           *)
LEMMA LogAccepts ==
    ASSUME TypeOK, AckedIsLogged, TriesOK, NEW w \in Workers, Logs(w)
    PROVE  [Delivery!Next]_<<DeliveryState, Logged>>
<1>. DEFINE e == tx[w].event
<1>1. e \in Events /\ Logged' = Logged \union {e} /\ DeliveryState' = DeliveryState
  BY DEF Logs, Logged, DeliveryState, TypeOK
<1>2. CASE e \in Logged
  BY <1>1, <1>2
<1>3. CASE e \notin Logged
  <2>1. e \notin acked /\ tries[e] # 0
    BY <1>1, <1>3 DEF AckedIsLogged, TriesOK, Logged, Logs
  <2>2. DeliveryState[e] = "queued"
    BY <1>1, <2>1 DEF DeliveryState
  <2>. QED BY <1>1, <2>2 DEF Delivery!Next, Delivery!Hand
<1>. QED BY <1>2, <1>3

(* A 2xx reply takes an accepted event out of the queue.                   *)
LEMMA ReplySettles ==
    ASSUME TypeOK, TxOK, TriesOK, NEW w \in Workers, Acknowledges(w)
    PROVE  [Delivery!Next]_<<DeliveryState, Logged>>
<1>. DEFINE e == tx[w].event
<1>1. /\ e \in Events /\ acked' = acked \union {e} /\ tries[e] # 0
      /\ e \in Logged /\ UNCHANGED <<tries, Logged>>
  BY DEF Acknowledges, TriesOK, TxOK, CarriedOK, Logged
<1>2. DeliveryState' \in [Events -> {"absent", "queued", "done", "dropped"}]
  BY DEF DeliveryState
<1>3. ASSUME NEW d \in Events
      PROVE  \/ DeliveryState'[d] = DeliveryState[d]
             \/ DeliveryState[d] = "queued" /\ d \in Logged /\ DeliveryState'[d] = "done"
  BY <1>1 DEF DeliveryState
<1>. QED BY <1>1, <1>2, <1>3 DEF Delivery!Next, Delivery!Settle

(* The provider's deliveries implement the at-least-once queue: an event   *)
(* leaves it only after a run of it was logged.                            *)
THEOREM DeliveriesAreAQueue == Spec => DeliveryIsAQueue
<1>1. Init => Delivery!Init /\ TriesOK
  BY DEF Init, Delivery!Init, DeliveryState, Logged, TriesOK
<1>2. ASSUME TypeOK, TxOK, AckedIsLogged, TriesOK, [Next]_vars
      PROVE  [Delivery!Next]_<<DeliveryState, Logged>>
  <2>1. CASE UNCHANGED <<tries, webhook, acked>>
    BY <2>1 DEF DeliveryState, Logged
  <2>. QED BY <1>2, <2>1, CallPuts, LogAccepts, ReplySettles, LogSteps
<1>3. IInv /\ TriesOK /\ [Next]_vars => TriesOK' /\ [Delivery!Next]_<<DeliveryState, Logged>>
  BY <1>2, TriesOKStep DEF IInv
<1>. QED BY <1>1, <1>3, Invariance, PTL DEF Spec, DeliveryIsAQueue, Delivery!Spec
=============================================================================
