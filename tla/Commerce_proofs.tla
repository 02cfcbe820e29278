-------------------------- MODULE Commerce_proofs ---------------------------
(***************************************************************************)
(* The commerce components for any workers, customers, subscriptions,      *)
(* payments, keys and limits.  Each part has an inductive invariant of its *)
(* own: its properties and what the requests in flight hold of its tables. *)
(***************************************************************************)
EXTENDS MCCommerce, Requests_proofs, Sums_proofs

(***************************************************************************)
(* The ledgers.  The four parts share the workers and nothing else, so the *)
(* invariant is one conjunct per part: its property and what the requests  *)
(* in flight hold.  A step of a part leaves the conjuncts of the others    *)
(* alone because it gives no worker a request of theirs (Moves).           *)
(***************************************************************************)

RefundHeld == [op: {"refund"}, refund: Nat, action: {"approve", "reject", "process"},
               paid: BOOLEAN]

(* A refund that a review may save as processed has been paid back.        *)
RefundsOK ==
    /\ refunds \in Seq(Refund)
    /\ payments \in [Payments -> PaymentStatuses]
    /\ \A w \in Workers : Holds(w, "refund") =>
         /\ request[w] \in RefundHeld
         /\ request[w].refund \in DOMAIN refunds
         /\ request[w].paid => refunds[request[w].refund].payment \in paidBack
    /\ RefundedMeansPaidBack

NoteHeld == [op: {"note"}, customer: Customers, number: Nat, locked: BOOLEAN]

(* A number in flight is taken already, or the next one.                   *)
NotesOK ==
    /\ nextNumber \in [Customers -> Nat \ {0}]
    /\ \A w \in Workers : Holds(w, "note") =>
         /\ request[w] \in NoteHeld
         /\ request[w].number \in 1 .. nextNumber[request[w].customer]
    /\ NumbersHaveNoGaps

UsageOK ==
    /\ usage \in Seq(UsageRecord)
    /\ \A w \in Workers : Holds(w, "usage") => request[w].key \in UsageKeys
    /\ \A i, j \in DOMAIN usage : usage[i].key = usage[j].key => i = j
    /\ \A key \in acked : Recorded(key)

RedeemHeld == [op: {"redeem"}, customer: Customers, promo: BOOLEAN, key: UsageKeys,
               count: [discount: Nat, promo: Nat]]

(* Whoever holds the lock holds it alone, read the present counts and      *)
(* found room.                                                             *)
DiscountsOK ==
    /\ redemptions \in Seq(DiscountRedemption)
    /\ redeemedCount \in [discount: Nat, promo: Nat]
    /\ \A w \in Workers : Holds(w, "redeem") =>
         /\ request[w] \in RedeemHeld
         /\ request[w].count = redeemedCount
         /\ IsRedeemable(request[w].promo)
    /\ \A v, w \in Workers : Holds(v, "redeem") /\ Holds(w, "redeem") => v = w
    /\ RedemptionsWithinLimit

LedgerInv ==
    /\ request = [w \in Workers |-> request[w]]
    /\ RefundsOK /\ NotesOK /\ UsageOK /\ DiscountsOK

(* No worker gets a request other than op.                                 *)
Moves(op) ==
    /\ request' = [w \in Workers |-> request'[w]]
    /\ \A w \in Workers : request'[w] = request[w] \/ request'[w].op \in {op, "idle"}

-----------------------------------------------------------------------------
LEMMA InitLedgerInv == RequestsInit /\ LedgerInit => LedgerInv
<1>. SUFFICES ASSUME RequestsInit, LedgerInit PROVE LedgerInv
  OBVIOUS
<1>1. \A w \in Workers : request[w] = Idle
  BY DEF RequestsInit
<1>2. RefundsOK
  BY <1>1 DEF LedgerInit, RefundsOK, PaymentStatuses, Holds, Idle, RefundedMeansPaidBack
<1>3. NotesOK
  BY <1>1 DEF LedgerInit, NotesOK, Holds, Idle, NumbersHaveNoGaps, NumbersOf
<1>4. UsageOK
  BY <1>1 DEF LedgerInit, UsageOK, Holds, Idle
<1>5. DiscountsOK
  <2>1. {i \in DOMAIN redemptions : redemptions[i].promo} = {}
    BY DEF LedgerInit
  <2>2. RedemptionsWithinLimit
    BY <2>1, FS_EmptySet, LimitsAreNumbers DEF LedgerInit, RedemptionsWithinLimit
  <2>. QED BY <1>1, <2>2 DEF LedgerInit, DiscountsOK, Holds, Idle
<1>. QED BY <1>2, <1>3, <1>4, <1>5 DEF LedgerInv, RequestsInit

-----------------------------------------------------------------------------
(* What a step of another part leaves as it is.                            *)
LEMMA RefundsKept ==
    ASSUME LedgerInv, UNCHANGED refundVars, NEW op, op # "refund", Moves(op) PROVE RefundsOK'
BY DEF LedgerInv, RefundsOK, refundVars, Moves, Holds, RefundedMeansPaidBack

LEMMA NotesKept ==
    ASSUME LedgerInv, UNCHANGED noteVars, NEW op, op # "note", Moves(op) PROVE NotesOK'
BY DEF LedgerInv, NotesOK, noteVars, Moves, Holds, NumbersHaveNoGaps, NumbersOf

LEMMA UsageKept ==
    ASSUME LedgerInv, UNCHANGED usageVars, NEW op, op # "usage", Moves(op) PROVE UsageOK'
BY DEF LedgerInv, UsageOK, usageVars, Moves, Holds, Recorded

LEMMA DiscountsKept ==
    ASSUME LedgerInv, UNCHANGED discountVars, NEW op, op # "redeem", Moves(op) PROVE DiscountsOK'
BY DEF LedgerInv, DiscountsOK, discountVars, Moves, Holds, IsRedeemable, RedemptionsWithinLimit

LEMMA EndMoves ==
    ASSUME LedgerInv, NEW w \in Workers, End(w), NEW op
    PROVE  Moves(op) /\ request' = [request EXCEPT ![w] = Idle]
BY DEF LedgerInv, End, Proceed, Moves, Idle

LEMMA GoMoves ==
    ASSUME LedgerInv, NEW w \in Workers, NEW held, Begin(w, held) \/ Proceed(w, held)
    PROVE  Moves(held.op) /\ request' = [request EXCEPT ![w] = held]
BY DEF LedgerInv, Begin, Proceed, Moves

-----------------------------------------------------------------------------
LEMMA RefundStep ==
    ASSUME LedgerInv, RefundNext PROVE RefundsOK' /\ Moves("refund")
<1>1. ASSUME NEW p \in Payments, OpenRefund(p) PROVE RefundsOK' /\ Moves("refund")
  <2>. DEFINE new == [payment |-> p, status |-> "pending"]
  <2>1. new \in Refund /\ new.status # "processed" /\ refunds' = Append(refunds, new)
        /\ UNCHANGED <<payments, paidBack, request>>
    BY <1>1 DEF OpenRefund, Serve, Refund, RefundStatuses
  <2>. HIDE DEF new
  <2>2. refunds' \in Seq(Refund) /\ DOMAIN refunds \subseteq DOMAIN refunds'
        /\ \A r \in DOMAIN refunds : refunds'[r] = refunds[r]
    BY <2>1 DEF LedgerInv, RefundsOK
  <2>3. RefundedMeansPaidBack'
    BY <2>1, <2>2 DEF LedgerInv, RefundsOK, RefundedMeansPaidBack
  <2>. QED BY <2>1, <2>2, <2>3 DEF LedgerInv, RefundsOK, Moves, Holds
<1>2. ASSUME NEW w \in Workers, NEW r \in DOMAIN refunds,
             NEW action \in {"approve", "reject", "process"}, NEW staffId \in BOOLEAN,
             ReadRefund(w, r, action, staffId)
      PROVE  RefundsOK' /\ Moves("refund")
  <2>. DEFINE held == [op |-> "refund", refund |-> r, action |-> action, paid |-> staffId]
  <2>1. /\ held \in RefundHeld /\ held.op = "refund" /\ held.refund = r
        /\ held.paid => refunds[r].payment \in paidBack'
    BY <1>2 DEF ReadRefund, RefundHeld, LedgerInv, RefundsOK
  <2>2. Begin(w, held) /\ UNCHANGED <<refunds, payments>> /\ paidBack \subseteq paidBack'
    BY <1>2 DEF ReadRefund
  <2>. HIDE DEF held
  <2>3. Moves("refund") /\ request' = [request EXCEPT ![w] = held]
    BY <2>1, <2>2, GoMoves
  <2>4. RefundedMeansPaidBack'
    BY <2>2 DEF LedgerInv, RefundsOK, RefundedMeansPaidBack
  <2>. QED BY <2>1, <2>2, <2>3, <2>4 DEF LedgerInv, RefundsOK, Holds
<1>3. ASSUME NEW w \in Workers, NEW answered \in BOOLEAN, RefundAtStripe(w, answered)
      PROVE  RefundsOK' /\ Moves("refund")
  <2>. DEFINE held == IF answered THEN [request[w] EXCEPT !.paid = TRUE] ELSE Idle
              r == request[w].refund
  <2>1. /\ Holds(w, "refund") /\ request[w] \in RefundHeld /\ r \in DOMAIN refunds
        /\ UNCHANGED <<refunds, payments>> /\ paidBack' = paidBack \cup {refunds[r].payment}
        /\ Proceed(w, held)
    BY <1>3 DEF RefundAtStripe, LedgerInv, RefundsOK, End
  <2>2. /\ held.op \in {"refund", "idle"}
        /\ (held.op = "refund" => held \in RefundHeld /\ held.refund = r)
    BY <2>1 DEF RefundHeld, Idle
  <2>. HIDE DEF held
  <2>3. Moves("refund") /\ request' = [request EXCEPT ![w] = held]
    BY <2>1, <2>2, GoMoves DEF Moves
  <2>4. RefundedMeansPaidBack'
    BY <2>1 DEF LedgerInv, RefundsOK, RefundedMeansPaidBack
  <2>. QED BY <2>1, <2>2, <2>3, <2>4 DEF LedgerInv, RefundsOK, Holds
<1>4. ASSUME NEW w \in Workers, SaveReview(w) PROVE RefundsOK' /\ Moves("refund")
  <2>. DEFINE r == request[w].refund
              p == refunds[r].payment
              process == request[w].action = "process"
  <2>1. /\ Holds(w, "refund") /\ request[w] \in RefundHeld /\ r \in DOMAIN refunds
        /\ process => p \in paidBack
        /\ refunds' = [refunds EXCEPT ![r].status = Reviewed(w)]
        /\ payments' = IF process THEN [payments EXCEPT ![p] = "refunded"] ELSE payments
        /\ paidBack' = paidBack /\ End(w)
    BY <1>4 DEF SaveReview, MaySave, LedgerInv, RefundsOK
  <2>2. Reviewed(w) \in RefundStatuses /\ (Reviewed(w) = "processed" => process)
    BY <2>1 DEF Reviewed, RefundHeld, RefundStatuses
  <2>3. Moves("refund") /\ request' = [request EXCEPT ![w] = Idle]
    BY <2>1, EndMoves
  <2>. HIDE DEF r, p, process
  <2>4. /\ refunds' \in Seq(Refund) /\ DOMAIN refunds' = DOMAIN refunds
        /\ \A x \in DOMAIN refunds :
             /\ refunds'[x].payment = refunds[x].payment
             /\ refunds'[x].status = IF x = r THEN Reviewed(w) ELSE refunds[x].status
    <3>. DEFINE new == [refunds[r] EXCEPT !.status = Reviewed(w)]
    <3>1. refunds \in Seq(Refund) /\ refunds' = [refunds EXCEPT ![r] = new]
      BY <2>1 DEF LedgerInv, RefundsOK
    <3>. refunds[r] \in Refund
      BY <2>1, <3>1
    <3>2. new \in Refund /\ new.status = Reviewed(w) /\ new.payment = refunds[r].payment
      BY <2>1, <2>2, <3>1 DEF Refund
    <3>. HIDE DEF new
    <3>. QED BY <2>1, <3>1, <3>2
  <2>5. payments' \in [Payments -> PaymentStatuses]
    BY <2>1 DEF LedgerInv, RefundsOK, PaymentStatuses
  <2>6. RefundedMeansPaidBack'
    <3>1. ASSUME NEW q \in Payments, payments'[q] = "refunded" PROVE q \in paidBack'
      BY <2>1, <3>1 DEF LedgerInv, RefundsOK, RefundedMeansPaidBack
    <3>2. ASSUME NEW x \in DOMAIN refunds', refunds'[x].status = "processed"
          PROVE  refunds'[x].payment \in paidBack'
      BY <2>1, <2>2, <2>4, <3>2 DEF LedgerInv, RefundsOK, RefundedMeansPaidBack, p
    <3>. QED BY <3>1, <3>2 DEF RefundedMeansPaidBack
  <2>. QED BY <2>1, <2>3, <2>4, <2>5, <2>6 DEF LedgerInv, RefundsOK, Holds, Idle
<1>5. ASSUME NEW w \in Workers, Abandon(w), UNCHANGED refundVars
      PROVE  RefundsOK' /\ Moves("refund")
  <2>1. Moves("refund") /\ request' = [request EXCEPT ![w] = Idle]
    BY <1>5, EndMoves DEF Abandon
  <2>. QED BY <1>5, <2>1
            DEF LedgerInv, RefundsOK, refundVars, Holds, Idle, RefundedMeansPaidBack
<1>. QED BY <1>1, <1>2, <1>3, <1>4, <1>5 DEF RefundNext

-----------------------------------------------------------------------------
LEMMA NoteStep ==
    ASSUME LedgerInv, NoteNext PROVE NotesOK' /\ Moves("note")
<1>1. ASSUME NEW w \in Workers, NEW c \in Customers, ReadCounter(w, c)
      PROVE  NotesOK' /\ Moves("note")
  <2>. DEFINE held == [op |-> "note", customer |-> c, number |-> nextNumber[c],
                       locked |-> FALSE]
  <2>1. /\ Begin(w, held) /\ UNCHANGED noteVars
        /\ held \in NoteHeld /\ held.op = "note" /\ held.customer = c
        /\ held.number = nextNumber[c] /\ held.number \in 1 .. nextNumber[c]
    BY <1>1 DEF ReadCounter, NoteHeld, LedgerInv, NotesOK
  <2>. HIDE DEF held
  <2>2. Moves("note") /\ request' = [request EXCEPT ![w] = held]
    BY <2>1, GoMoves
  <2>. QED BY <2>1, <2>2
            DEF LedgerInv, NotesOK, noteVars, Holds, NumbersHaveNoGaps, NumbersOf
<1>2. ASSUME NEW w \in Workers, SaveCounter(w) PROVE NotesOK' /\ Moves("note")
  <2>. DEFINE held == [request[w] EXCEPT !.locked = TRUE]
  <2>1. /\ Proceed(w, held) /\ UNCHANGED noteVars /\ Holds(w, "note")
        /\ request[w] \in NoteHeld /\ request[w].number \in 1 .. nextNumber[request[w].customer]
    BY <1>2 DEF SaveCounter, LedgerInv, NotesOK
  <2>2. /\ held \in NoteHeld /\ held.op = "note" /\ held.customer = request[w].customer
        /\ held.number = request[w].number
    BY <2>1 DEF NoteHeld
  <2>. HIDE DEF held
  <2>3. Moves("note") /\ request' = [request EXCEPT ![w] = held]
    BY <2>1, <2>2, GoMoves
  <2>. QED BY <2>1, <2>2, <2>3
            DEF LedgerInv, NotesOK, noteVars, Holds, NumbersHaveNoGaps, NumbersOf
<1>3. ASSUME NEW w \in Workers, InsertNote(w) PROVE NotesOK' /\ Moves("note")
  <2>. SUFFICES ASSUME NEW c, NEW n, c = request[w].customer, n = request[w].number
                PROVE  NotesOK' /\ Moves("note")
    OBVIOUS
  <2>1. /\ Holds(w, "note") /\ c \in Customers /\ n \in 1 .. nextNumber[c]
        /\ nextNumber \in [Customers -> Nat \ {0}] /\ End(w)
    BY <1>3 DEF InsertNote, LedgerInv, NotesOK, NoteHeld
  <2>2. \/ UNCHANGED <<notes, nextNumber>>
        \/ /\ ~ Taken(c, n) /\ nextNumber' = [nextNumber EXCEPT ![c] = n + 1]
           /\ notes' = notes \cup {[customer |-> c, number |-> n]}
    BY <1>3 DEF InsertNote, CounterAfterRefusal, CounterAfter
  <2>3. Moves("note") /\ request' = [request EXCEPT ![w] = Idle]
    BY <2>1, EndMoves
  <2>4. CASE UNCHANGED <<notes, nextNumber>>
    BY <2>3, <2>4 DEF LedgerInv, NotesOK, Holds, Idle, NumbersHaveNoGaps, NumbersOf
  <2>5. CASE ~ UNCHANGED <<notes, nextNumber>>
    <3>1. n \notin NumbersOf(c)
      BY <2>2, <2>5 DEF NumbersOf, Taken, Label
    <3>2. n = nextNumber[c]
      BY <2>1, <3>1 DEF LedgerInv, NotesOK, NumbersHaveNoGaps
    <3>3. /\ nextNumber' = [nextNumber EXCEPT ![c] = n + 1]
          /\ nextNumber' \in [Customers -> Nat \ {0}]
      BY <2>1, <2>2, <2>5
    <3>4. NumbersOf(c)' = NumbersOf(c) \cup {n}
      <4>. DEFINE new == [customer |-> c, number |-> n]
      <4>1. notes' = notes \cup {new} /\ new.customer = c /\ new.number = n
        BY <2>2, <2>5
      <4>. HIDE DEF new
      <4>2. new \in {x \in notes' : x.customer = c}
        BY <4>1
      <4>3. n \in NumbersOf(c)'
        BY <4>1, <4>2 DEF NumbersOf
      <4>. QED BY <4>1, <4>3 DEF NumbersOf
    <3>5. \A d \in Customers \ {c} : NumbersOf(d)' = NumbersOf(d)
      BY <2>2, <2>5 DEF NumbersOf
    <3>6. NumbersHaveNoGaps'
      <4>1. NumbersOf(c)' = 1 .. (nextNumber'[c] - 1)
        <5>1. NumbersOf(c) = 1 .. (n - 1) /\ n \in Nat \ {0} /\ nextNumber'[c] = n + 1
          BY <2>1, <3>2, <3>3 DEF LedgerInv, NotesOK, NumbersHaveNoGaps
        <5>. QED BY <3>4, <5>1
      <4>2. \A d \in Customers \ {c} : NumbersOf(d)' = 1 .. (nextNumber'[d] - 1)
        BY <2>1, <3>3, <3>5 DEF LedgerInv, NotesOK, NumbersHaveNoGaps
      <4>. QED BY <4>1, <4>2 DEF NumbersHaveNoGaps
    <3>7. ASSUME NEW v \in Workers, Holds(v, "note")'
          PROVE  /\ request'[v] \in NoteHeld
                 /\ request'[v].number \in 1 .. nextNumber'[request'[v].customer]
      <4>1. /\ request'[v] = request[v] /\ request[v] \in NoteHeld
            /\ request[v].number \in 1 .. nextNumber[request[v].customer]
        BY <2>3, <3>7 DEF LedgerInv, NotesOK, Holds, Idle
      <4>2. request[v].customer \in Customers /\ request[v].number \in Nat
        BY <4>1 DEF NoteHeld
      <4>. QED BY <2>1, <3>2, <3>3, <4>1, <4>2
    <3>. QED BY <2>3, <3>3, <3>6, <3>7 DEF NotesOK
  <2>. QED BY <2>4, <2>5
<1>4. ASSUME NEW w \in Workers, Abandon(w), UNCHANGED noteVars
      PROVE  NotesOK' /\ Moves("note")
  <2>1. Moves("note") /\ request' = [request EXCEPT ![w] = Idle]
    BY <1>4, EndMoves DEF Abandon
  <2>. QED BY <1>4, <2>1
            DEF LedgerInv, NotesOK, noteVars, Holds, Idle, NumbersHaveNoGaps, NumbersOf
<1>. QED BY <1>1, <1>2, <1>3, <1>4 DEF NoteNext

-----------------------------------------------------------------------------
(* An insert under a key that is free.                                     *)
LEMMA AppendUsage ==
    ASSUME UsageOK, NEW key \in UsageKeys, ~ Recorded(key),
           usage' = Append(usage, [key |-> key])
    PROVE  /\ usage' \in Seq(UsageRecord)
           /\ \A i, j \in DOMAIN usage' : usage'[i].key = usage'[j].key => i = j
           /\ Recorded(key)'
           /\ \A k : Recorded(k) => Recorded(k)'
<1>. DEFINE new == [key |-> key]
<1>1. new \in UsageRecord /\ new.key = key /\ usage \in Seq(UsageRecord)
      /\ usage' = Append(usage, new)
  BY DEF UsageOK, UsageRecord
<1>. HIDE DEF new
<1>2. /\ usage' \in Seq(UsageRecord) /\ DOMAIN usage' = DOMAIN usage \cup {Len(usage) + 1}
      /\ usage'[Len(usage) + 1] = new /\ \A i \in DOMAIN usage : usage'[i] = usage[i]
  BY <1>1
<1>3. \A i \in DOMAIN usage : usage[i].key # key
  BY DEF Recorded
<1>. QED BY <1>1, <1>2, <1>3 DEF UsageOK, Recorded

LEMMA UsageStep ==
    ASSUME LedgerInv, UsageNext PROVE UsageOK' /\ Moves("usage")
<1>1. ASSUME NEW key \in UsageKeys, AnswerRecorded(key) PROVE UsageOK' /\ Moves("usage")
  BY <1>1 DEF AnswerRecorded, Serve, LedgerInv, UsageOK, Moves, Holds, Recorded
<1>2. ASSUME NEW w \in Workers, NEW key \in UsageKeys, StartUsage(w, key)
      PROVE  UsageOK' /\ Moves("usage")
  <2>. DEFINE held == [op |-> "usage", key |-> key]
  <2>1. Begin(w, held) /\ UNCHANGED usageVars /\ held.op = "usage" /\ held.key = key
    BY <1>2 DEF StartUsage
  <2>. HIDE DEF held
  <2>2. Moves("usage") /\ request' = [request EXCEPT ![w] = held]
    BY <2>1, GoMoves
  <2>. QED BY <2>1, <2>2 DEF LedgerInv, UsageOK, usageVars, Holds, Recorded
<1>3. ASSUME NEW w \in Workers, InsertUsage(w) \/ LoseUsageAnswer(w)
      PROVE  UsageOK' /\ Moves("usage")
  <2>. SUFFICES ASSUME NEW key, key = request[w].key PROVE UsageOK' /\ Moves("usage")
    OBVIOUS
  <2>1. /\ key \in UsageKeys /\ End(w)
        /\ \/ ~ Recorded(key) /\ usage' = Append(usage, [key |-> key])
           \/ Recorded(key) /\ usage' = usage
        /\ acked' \subseteq acked \cup {key}
    BY <1>3 DEF InsertUsage, LoseUsageAnswer, KeyIsFree, LedgerInv, UsageOK
  <2>2. Moves("usage") /\ request' = [request EXCEPT ![w] = Idle]
    BY <2>1, EndMoves
  <2>3. /\ usage' \in Seq(UsageRecord)
        /\ \A i, j \in DOMAIN usage' : usage'[i].key = usage'[j].key => i = j
        /\ Recorded(key)'
        /\ \A k : Recorded(k) => Recorded(k)'
    <3>1. CASE ~ Recorded(key)
      BY <2>1, <3>1, AppendUsage DEF LedgerInv
    <3>2. CASE Recorded(key)
      BY <2>1, <3>2 DEF LedgerInv, UsageOK, Recorded
    <3>. QED BY <3>1, <3>2
  <2>4. \A k \in acked' : Recorded(k)'
    BY <2>1, <2>3 DEF LedgerInv, UsageOK
  <2>. QED BY <2>2, <2>3, <2>4 DEF LedgerInv, UsageOK, Holds, Idle
<1>4. ASSUME NEW w \in Workers, Abandon(w), UNCHANGED usageVars
      PROVE  UsageOK' /\ Moves("usage")
  <2>1. Moves("usage") /\ request' = [request EXCEPT ![w] = Idle]
    BY <1>4, EndMoves DEF Abandon
  <2>. QED BY <1>4, <2>1 DEF LedgerInv, UsageOK, usageVars, Holds, Idle, Recorded
<1>. QED BY <1>1, <1>2, <1>3, <1>4 DEF UsageNext

-----------------------------------------------------------------------------
ViaPromo == {i \in DOMAIN redemptions : redemptions[i].promo}

LEMMA DiscountStep ==
    ASSUME LedgerInv, DiscountNext PROVE DiscountsOK' /\ Moves("redeem")
<1>1. ASSUME NEW w \in Workers, NEW c \in Customers, NEW promo \in BOOLEAN,
             NEW key \in UsageKeys, LockDiscount(w, c, promo, key)
      PROVE  DiscountsOK' /\ Moves("redeem")
  <2>. DEFINE held == [op |-> "redeem", customer |-> c, promo |-> promo, key |-> key,
                       count |-> redeemedCount]
  <2>1. /\ Begin(w, held) /\ UNCHANGED discountVars /\ IsRedeemable(promo)
        /\ \A v \in Workers : ~ Holds(v, "redeem")
        /\ held \in RedeemHeld /\ held.op = "redeem" /\ held.promo = promo
        /\ held.count = redeemedCount
    BY <1>1 DEF LockDiscount, DiscountIsFree, RedeemHeld, LedgerInv, DiscountsOK
  <2>. HIDE DEF held
  <2>2. Moves("redeem") /\ request' = [request EXCEPT ![w] = held]
    BY <2>1, GoMoves
  <2>3. RedemptionsWithinLimit'
    BY <2>1 DEF LedgerInv, DiscountsOK, discountVars, RedemptionsWithinLimit
  <2>. QED BY <2>1, <2>2, <2>3 DEF LedgerInv, DiscountsOK, discountVars, Holds, IsRedeemable
<1>2. ASSUME NEW w \in Workers, Redeem(w) PROVE DiscountsOK' /\ Moves("redeem")
  <2>. DEFINE held == request[w]
              new == [customer |-> held.customer, key |-> held.key, promo |-> held.promo]
              d == redeemedCount.discount
              p == redeemedCount.promo
  <2>1. /\ Holds(w, "redeem") /\ held \in RedeemHeld /\ held.count = redeemedCount
        /\ IsRedeemable(held.promo) /\ End(w)
        /\ redemptions \in Seq(DiscountRedemption)
        /\ redemptions' = Append(redemptions, new)
        /\ d \in Nat /\ p \in Nat
    BY <1>2 DEF Redeem, LedgerInv, DiscountsOK
  <2>2. new \in DiscountRedemption /\ new.promo = held.promo /\ held.promo \in BOOLEAN
    BY <2>1 DEF RedeemHeld, DiscountRedemption
  <2>3. /\ redeemedCount' \in [discount: Nat, promo: Nat]
        /\ redeemedCount'.discount = d + 1
        /\ redeemedCount'.promo = IF held.promo THEN p + 1 ELSE p
    <3>1. redeemedCount \in [discount: Nat, promo: Nat]
      BY DEF LedgerInv, DiscountsOK
    <3>2. redeemedCount' = [redeemedCount EXCEPT !.discount = d + 1,
                                                 !.promo = IF held.promo THEN p + 1 ELSE p]
      BY <1>2, <2>1 DEF Redeem
    <3>3. (IF held.promo THEN p + 1 ELSE p) \in Nat /\ d + 1 \in Nat
      BY <2>1
    <3>. HIDE DEF held, d, p
    <3>. QED BY <3>1, <3>2, <3>3
  <2>4. Moves("redeem") /\ request' = [request EXCEPT ![w] = Idle]
    BY <2>1, EndMoves
  <2>5. \A v \in Workers : ~ Holds(v, "redeem")'
    BY <2>1, <2>4 DEF LedgerInv, DiscountsOK, Holds, Idle
  <2>. HIDE DEF new, held, d, p
  <2>6. /\ redemptions' \in Seq(DiscountRedemption) /\ Len(redemptions') = Len(redemptions) + 1
        /\ redemptions'[Len(redemptions) + 1] = new
        /\ \A i \in DOMAIN redemptions : redemptions'[i] = redemptions[i]
    BY <2>1, <2>2
  <2>7. ViaPromo' = IF held.promo THEN ViaPromo \cup {Len(redemptions) + 1} ELSE ViaPromo
    BY <2>1, <2>2, <2>6 DEF ViaPromo
  <2>8. IsFiniteSet(ViaPromo) /\ Len(redemptions) + 1 \notin ViaPromo
    <3>1. ViaPromo \subseteq 1 .. Len(redemptions) /\ Len(redemptions) \in Nat
      BY <2>1 DEF ViaPromo
    <3>2. IsFiniteSet(1 .. Len(redemptions))
      BY <3>1, FS_Interval
    <3>3. IsFiniteSet(ViaPromo)
      BY <3>1, <3>2, FS_Subset
    <3>. QED BY <3>1, <3>3
  <2>9. Cardinality(ViaPromo') = IF held.promo THEN Cardinality(ViaPromo) + 1
                                 ELSE Cardinality(ViaPromo)
    BY <2>7, <2>8, FS_AddElement
  <2>10. /\ d = Len(redemptions) /\ p = Cardinality(ViaPromo) /\ p <= PromoLimit
         /\ d < DiscountLimit /\ (held.promo => p < PromoLimit)
    BY <2>1 DEF LedgerInv, DiscountsOK, RedemptionsWithinLimit, IsRedeemable, ViaPromo, d, p
  <2>11. /\ redeemedCount'.discount = Len(redemptions') /\ Len(redemptions') <= DiscountLimit
         /\ redeemedCount'.promo = Cardinality(ViaPromo') /\ Cardinality(ViaPromo') <= PromoLimit
    BY <2>1, <2>2, <2>3, <2>6, <2>9, <2>10, LimitsAreNumbers DEF held
  <2>12. RedemptionsWithinLimit'
    BY <2>11 DEF RedemptionsWithinLimit, ViaPromo
  <2>. QED BY <2>3, <2>4, <2>5, <2>6, <2>12 DEF DiscountsOK
<1>3. ASSUME NEW w \in Workers, Abandon(w), UNCHANGED discountVars
      PROVE  DiscountsOK' /\ Moves("redeem")
  <2>1. Moves("redeem") /\ request' = [request EXCEPT ![w] = Idle]
    BY <1>3, EndMoves DEF Abandon
  <2>2. RedemptionsWithinLimit'
    BY <1>3 DEF LedgerInv, DiscountsOK, discountVars, RedemptionsWithinLimit
  <2>. QED BY <1>3, <2>1, <2>2 DEF LedgerInv, DiscountsOK, discountVars, Holds, Idle, IsRedeemable
<1>. QED BY <1>1, <1>2, <1>3 DEF DiscountNext

-----------------------------------------------------------------------------
LEMMA StepLedgerInv == LedgerInv /\ [LedgerNext]_<<requestVars, ledgerVars>> => LedgerInv'
<1>. SUFFICES ASSUME LedgerInv, [LedgerNext]_<<requestVars, ledgerVars>> PROVE LedgerInv'
  OBVIOUS
<1>1. CASE UNCHANGED <<requestVars, ledgerVars>>
  <2>1. Moves("idle") /\ UNCHANGED <<refundVars, noteVars, usageVars, discountVars>>
    BY <1>1 DEF requestVars, ledgerVars, LedgerInv, Moves
  <2>. QED BY <2>1, RefundsKept, NotesKept, UsageKept, DiscountsKept DEF LedgerInv, Moves
<1>2. CASE RefundNext /\ UNCHANGED <<noteVars, usageVars, discountVars>>
  BY <1>2, RefundStep, NotesKept, UsageKept, DiscountsKept DEF LedgerInv, Moves
<1>3. CASE NoteNext /\ UNCHANGED <<refundVars, usageVars, discountVars>>
  BY <1>3, NoteStep, RefundsKept, UsageKept, DiscountsKept DEF LedgerInv, Moves
<1>4. CASE UsageNext /\ UNCHANGED <<refundVars, noteVars, discountVars>>
  BY <1>4, UsageStep, RefundsKept, NotesKept, DiscountsKept DEF LedgerInv, Moves
<1>5. CASE DiscountNext /\ UNCHANGED <<refundVars, noteVars, usageVars>>
  BY <1>5, DiscountStep, RefundsKept, NotesKept, UsageKept DEF LedgerInv, Moves
<1>. QED BY <1>1, <1>2, <1>3, <1>4, <1>5 DEF LedgerNext

(* What the four parts hold at every moment, by induction.                 *)
THEOREM LedgerInvariance == LedgerSpec => []LedgerInv
BY InitLedgerInv, StepLedgerInv, PTL DEF LedgerSpec

(* A payment or request is marked refunded only after the money went back  *)
(* (services.py:266).                                                      *)
THEOREM RefundsArePaidBack == LedgerSpec => []RefundedMeansPaidBack
<1>1. LedgerInv => RefundedMeansPaidBack
  BY DEF LedgerInv, RefundsOK
<1>. QED BY <1>1, LedgerInvariance, PTL

(* The numbers of a customer's credit notes run from one without a gap     *)
(* (services.py:216).                                                      *)
THEOREM NumbersAreSequential == LedgerSpec => []NumbersHaveNoGaps
<1>1. LedgerInv => NumbersHaveNoGaps
  BY DEF LedgerInv, NotesOK
<1>. QED BY <1>1, LedgerInvariance, PTL

LEMMA UsageOnce == ASSUME LedgerInv PROVE AckedUsageCountsOnce
<1>. SUFFICES ASSUME NEW key \in UsageKeys
              PROVE  LET rows == {i \in DOMAIN usage : usage[i].key = key} IN
                     Cardinality(rows) <= 1 /\ (key \in acked => rows # {})
  BY DEF AckedUsageCountsOnce
<1>. DEFINE rows == {i \in DOMAIN usage : usage[i].key = key}
<1>1. key \in acked => rows # {}
  BY DEF LedgerInv, UsageOK, Recorded
<1>2. ASSUME rows # {} PROVE Cardinality(rows) = 1
  <2>1. PICK i \in rows : TRUE
    BY <1>2
  <2>2. rows = {i}
    BY <2>1 DEF LedgerInv, UsageOK
  <2>. QED BY <2>2, FS_Singleton
<1>4. Cardinality(rows) <= 1
  <2>. HIDE DEF rows
  <2>. QED BY <1>2, FS_EmptySet
<1>. QED BY <1>1, <1>4

(* Usage that was acknowledged is counted exactly once (services.py:104).  *)
THEOREM UsageIsCountedOnce == LedgerSpec => []AckedUsageCountsOnce
<1>1. LedgerInv => AckedUsageCountsOnce
  BY UsageOnce
<1>. QED BY <1>1, LedgerInvariance, PTL

(* Redemptions are counted, and the counts stay within both limits         *)
(* (services.py:308).                                                      *)
THEOREM RedemptionsStayWithinLimits == LedgerSpec => []RedemptionsWithinLimit
<1>1. LedgerInv => RedemptionsWithinLimit
  BY DEF LedgerInv, DiscountsOK
<1>. QED BY <1>1, LedgerInvariance, PTL

(***************************************************************************)
(* Subscriptions.  What a row says of Stripe's columns, and what an        *)
(* application or a webhook holds to save later, Stripe's copy has shown   *)
(* before (HeldOK); what the rows grant at present is among what they have *)
(* granted since the last promise (SnapshotOK).                            *)
(***************************************************************************)

ChangeTargets == Plans \cup Quantities \cup {"past", "future", "none"}
ChangeRow == [sub: Subs, action: ChangeActions, target: ChangeTargets, skip: BOOLEAN,
              status: ChangeStatuses]

ApplyRequest == [op: {"apply"}, change: Nat, row: Subscription, at: 1 .. 4]
WebhookRequest == [op: {"webhook"}, sub: StripeSubs, row: Subscription,
                   payload: SUBSET PayloadLine, saves: BOOLEAN]
PageRequest == [op: {"page"}, kind: {"checkout", "portal"}, customer: Nat, stored: BOOLEAN]

(* A row about to be saved says what Stripe's copy has said, and an        *)
(* application that has passed Stripe left its mark there.                 *)
HeldOK(held) ==
    /\ held.op = "apply" =>
         /\ held \in ApplyRequest /\ held.change \in DOMAIN changes
         /\ changes[held.change].sub \in StripeSubs =>
              IsFromStripe(changes[held.change].sub, held.row)
         /\ held.at > 1 => Mirrored(held.change)
    /\ held.op = "webhook" => held \in WebhookRequest /\ IsFromStripe(held.sub, held.row)
    /\ held.op = "recalculate" => held.payload \subseteq PayloadLine

StripeOK ==
    /\ atStripe \in [StripeSubs -> StripeSubscription]
    /\ copies \in [StripeSubs -> SUBSET StripeSubscription]
    /\ \A s \in StripeSubs : atStripe[s] \in copies[s]

ChangesOK ==
    /\ changes \in Seq(ChangeRow)
    /\ \A c \in DOMAIN changes : /\ changes[c].target \in Targets(changes[c].action)
                                 /\ subscription[changes[c].sub] # NoSubscription
                                 /\ changes[c].status = "applied" => Mirrored(c)

RowsOK ==
    /\ subscription \in [Subs -> Subscription \cup {NoSubscription}]
    /\ \A s \in StripeSubs : subscription[s] # NoSubscription /\ IsFromStripe(s, subscription[s])

SnapshotOK ==
    /\ entitlements \in [Owners -> Nat]
    /\ addOns \in [Subs -> [AddOns -> SubscriptionAddOn]]
    /\ cached \in EntitlementSnapshot /\ fresh \in BOOLEAN
    /\ since \subseteq SUBSET PayloadLine /\ Payload \in since
    /\ SnapshotKeepsPromises

PagesOK ==
    /\ stripeCustomers \in Nat /\ customerId \in BillingCustomer
    /\ sessions \subseteq Page /\ \A p \in sessions : p.customer <= stripeCustomers
    /\ \A w \in Workers : Holds(w, "page") =>
         /\ request[w] \in PageRequest /\ request[w].customer \in BillingCustomer
         /\ request[w].stored => request[w].customer # 0

SubInv ==
    /\ RequestsOK /\ StripeOK /\ ChangesOK /\ RowsOK /\ SnapshotOK /\ PagesOK
    /\ \A w \in Workers : HeldOK(request[w])

-----------------------------------------------------------------------------
LEMMA BoughtIsSubscription ==
    ASSUME NEW p \in Plans, NEW status \in SubscriptionStatuses, NEW ends \in When
    PROVE  /\ Bought(p, status, ends) \in Subscription
           /\ Bought(p, status, ends).status = status
           /\ Bought(p, status, ends).quantity = 1 /\ ~ Bought(p, status, ends).cancelAtEnd
BY DEF Bought, Subscription, When

LEMMA SomeRow ==
    NoSubscription \notin Subscription
BY DEF NoSubscription, Subscription, SubscriptionStatuses

LEMMA OnePlan == StripePlan \in Plans
BY SomePlan DEF StripePlan

(* A payload lists what the tables hold, now and after a step.             *)
LEMMA PayloadLines ==
    ASSUME NEW rows \in [Subs -> Subscription \cup {NoSubscription}],
           entitlements \in [Owners -> Nat], addOns \in [Subs -> [AddOns -> SubscriptionAddOn]]
    PROVE  PayloadOf(rows) \subseteq PayloadLine
<1>. DEFINE features(s) == {<<o, entitlements[o]>> :
                                  o \in {<<"plan", rows[s].plan>>, <<"subscription", s>>}}
            extras(s) == {<<a, addOns[s][a], entitlements[<<"add-on", a>>]>> :
                             a \in Attached(s)}
<1>. SUFFICES ASSUME NEW s \in Granting(rows)
              PROVE  [sub |-> s, plan |-> rows[s].plan, status |-> rows[s].status,
                      features |-> features(s), addOns |-> extras(s)] \in PayloadLine
  BY DEF PayloadOf
<1>1. /\ s \in Subs /\ rows[s].plan \in Plans /\ rows[s].status \in SubscriptionStatuses
  BY DEF Granting, Subscription
<1>2. /\ <<"plan", rows[s].plan>> \in Owners /\ <<"subscription", s>> \in Owners
      /\ \A a \in AddOns : <<"add-on", a>> \in Owners
  BY <1>1 DEF Owners
<1>3. \A o \in Owners : entitlements[o] \in Nat
  OBVIOUS
<1>4. features(s) \subseteq Owners \X Nat
  <2>1. ASSUME NEW o \in {<<"plan", rows[s].plan>>, <<"subscription", s>>}
        PROVE  <<o, entitlements[o]>> \in Owners \X Nat
    BY <1>2, <1>3
  <2>. QED BY <2>1
<1>5. ASSUME NEW a \in Attached(s)
      PROVE  <<a, addOns[s][a], entitlements[<<"add-on", a>>]>> \in AddOns \X Quantities \X Nat
  BY <1>1, <1>2, <1>3 DEF Attached, SubscriptionAddOn
<1>6. extras(s) \subseteq AddOns \X Quantities \X Nat
  BY <1>5
<1>. HIDE DEF features, extras
<1>. QED BY <1>1, <1>4, <1>6 DEF PayloadLine

LEMMA NextPayloadLines ==
    ASSUME subscription' \in [Subs -> Subscription \cup {NoSubscription}],
           entitlements' \in [Owners -> Nat],
           addOns' \in [Subs -> [AddOns -> SubscriptionAddOn]]
    PROVE  Payload' \subseteq PayloadLine
<1>. DEFINE rows == subscription'
<1>. DEFINE features(s) == {<<o, entitlements'[o]>> :
                                  o \in {<<"plan", rows[s].plan>>, <<"subscription", s>>}}
            extras(s) == {<<a, addOns'[s][a], entitlements'[<<"add-on", a>>]>> :
                             a \in Attached(s)'}
<1>. SUFFICES ASSUME NEW s \in Granting(rows)
              PROVE  [sub |-> s, plan |-> rows[s].plan, status |-> rows[s].status,
                      features |-> features(s), addOns |-> extras(s)] \in PayloadLine
  BY DEF Payload, PayloadOf, Granting
<1>1. /\ s \in Subs /\ rows[s].plan \in Plans /\ rows[s].status \in SubscriptionStatuses
  BY DEF Granting, Subscription
<1>2. /\ <<"plan", rows[s].plan>> \in Owners /\ <<"subscription", s>> \in Owners
      /\ \A a \in AddOns : <<"add-on", a>> \in Owners
  BY <1>1 DEF Owners
<1>3. \A o \in Owners : entitlements'[o] \in Nat
  OBVIOUS
<1>4. features(s) \subseteq Owners \X Nat
  <2>1. ASSUME NEW o \in {<<"plan", rows[s].plan>>, <<"subscription", s>>}
        PROVE  <<o, entitlements'[o]>> \in Owners \X Nat
    BY <1>2, <1>3
  <2>. QED BY <2>1
<1>5. ASSUME NEW a \in Attached(s)'
      PROVE  <<a, addOns'[s][a], entitlements'[<<"add-on", a>>]>>
               \in AddOns \X Quantities \X Nat
  BY <1>1, <1>2, <1>3 DEF Attached, SubscriptionAddOn
<1>6. extras(s) \subseteq AddOns \X Quantities \X Nat
  BY <1>5
<1>. HIDE DEF features, extras
<1>. QED BY <1>1, <1>4, <1>6 DEF PayloadLine

-----------------------------------------------------------------------------
LEMMA InitSubInv == RequestsInit /\ SubInit => SubInv
<1>. SUFFICES ASSUME RequestsInit, SubInit PROVE SubInv
  OBVIOUS
<1>1. \A w \in Workers : request[w].op = "idle"
  BY DEF RequestsInit, Idle
<1>. DEFINE first == Bought(StripePlan, "active", "never")
<1>2. /\ first \in Subscription /\ first.status = "active" /\ first.quantity = 1
      /\ ~ first.cancelAtEnd
  BY OnePlan, BoughtIsSubscription DEF SubscriptionStatuses, When
<1>3. subscription = [s \in Subs |-> IF s \in StripeSubs THEN first ELSE NoSubscription]
  BY DEF SubInit
<1>. HIDE DEF first
<1>4. StripeOK
  BY DEF SubInit, StripeOK, StripeSubscription
<1>5. \A s \in StripeSubs : IsFromStripe(s, first)
  <2>. SUFFICES ASSUME NEW s \in StripeSubs PROVE IsFromStripe(s, first)
    OBVIOUS
  <2>1. atStripe[s] \in copies[s] /\ atStripe[s].quantity = 1
    BY DEF SubInit
  <2>. QED BY <1>2, <2>1 DEF IsFromStripe
<1>6. RowsOK
  BY <1>2, <1>3, <1>5, SomeRow DEF RowsOK, Subs
<1>7. changes = <<>> /\ ChangesOK
  BY DEF SubInit, ChangesOK
<1>8. SnapshotOK
  <2>1. entitlements \in [Owners -> Nat] /\ addOns \in [Subs -> [AddOns -> SubscriptionAddOn]]
    BY DEF SubInit, SubscriptionAddOn
  <2>2. since = {Payload} /\ cached = [payload |-> {}, valid |-> FALSE] /\ fresh = FALSE
    BY DEF SubInit
  <2>3. Payload \subseteq PayloadLine
    BY <1>6, <2>1, PayloadLines DEF Payload, RowsOK
  <2>. QED BY <2>1, <2>2, <2>3 DEF SnapshotOK, EntitlementSnapshot, SnapshotKeepsPromises, Valid
<1>9. PagesOK
  BY <1>1 DEF SubInit, PagesOK, BillingCustomer, Holds
<1>. QED BY <1>1, <1>4, <1>6, <1>7, <1>8, <1>9, InitRequests DEF SubInv, HeldOK

-----------------------------------------------------------------------------
(* What is asked stays asked, and what Stripe has shown stays shown.       *)
Grows ==
    /\ changes' \in Seq(ChangeRow) /\ DOMAIN changes \subseteq DOMAIN changes'
    /\ \A c \in DOMAIN changes : /\ changes'[c].sub = changes[c].sub
                                 /\ changes'[c].action = changes[c].action
                                 /\ changes'[c].target = changes[c].target
                                 /\ changes'[c].skip = changes[c].skip
    /\ copies' \in [StripeSubs -> SUBSET StripeSubscription]
    /\ \A s \in StripeSubs : copies[s] \subseteq copies'[s]

LEMMA NothingNew ==
    ASSUME ChangesOK, StripeOK, changes' = changes, copies' = copies PROVE Grows
BY DEF ChangesOK, StripeOK, Grows

LEMMA MirroredStays ==
    ASSUME Grows, NEW c \in DOMAIN changes, Mirrored(c)
    PROVE  Mirrored(c)'
<1>. SUFFICES ASSUME NeedsStripe(c)' PROVE \E copy \in copies'[changes'[c].sub] : Shows(copy, c)'
  BY DEF Mirrored
<1>1. NeedsStripe(c) /\ changes[c].sub \in StripeSubs /\ changes'[c].sub = changes[c].sub
  BY DEF NeedsStripe, Grows
<1>2. PICK copy \in copies[changes[c].sub] : Shows(copy, c)
  BY <1>1 DEF Mirrored
<1>3. copy \in copies'[changes'[c].sub]
  BY <1>1 DEF Grows
<1>4. Shows(copy, c)'
  BY <1>2 DEF Shows, Grows
<1>. QED BY <1>3, <1>4

LEMMA SkippedGrows ==
    ASSUME Grows, NEW s, NEW action
    PROVE  /\ Skipped(s, action) \subseteq Skipped(s, action)'
           /\ \A c \in Skipped(s, action) : changes'[c].target = changes[c].target
BY DEF Grows, Skipped

LEMMA FromStripeStays ==
    ASSUME Grows, NEW s \in StripeSubs, NEW row, IsFromStripe(s, row)
    PROVE  IsFromStripe(s, row)'
<1>1. copies[s] \subseteq copies'[s]
  BY DEF Grows
<1>2. \/ \E copy \in copies'[s] : copy.quantity = row.quantity
      \/ \E c \in Skipped(s, "change_quantity")' : changes'[c].target = row.quantity
  BY <1>1, SkippedGrows DEF IsFromStripe
<1>3. row.cancelAtEnd => (\E copy \in copies'[s] : copy.cancelAtEnd)
                            \/ Skipped(s, "cancel_at_period_end")' # {}
  BY <1>1, SkippedGrows DEF IsFromStripe
<1>4. row.status = "cancelled" => (\E copy \in copies'[s] : copy.cancelled)
                            \/ Skipped(s, "cancel_now")' # {}
  BY <1>1, SkippedGrows DEF IsFromStripe
<1>. QED BY <1>2, <1>3, <1>4 DEF IsFromStripe

LEMMA HeldStays ==
    ASSUME Grows, NEW held, HeldOK(held)
    PROVE  HeldOK(held)'
<1>1. CASE held.op = "apply"
  <2>1. held \in ApplyRequest /\ held.change \in DOMAIN changes /\ held.change \in DOMAIN changes'
        /\ changes'[held.change].sub = changes[held.change].sub
    BY <1>1 DEF HeldOK, Grows
  <2>2. changes'[held.change].sub \in StripeSubs =>
           IsFromStripe(changes[held.change].sub, held.row)'
    <3>1. PICK s : s = changes[held.change].sub
      OBVIOUS
    <3>2. s \in StripeSubs => IsFromStripe(s, held.row)
      BY <1>1, <3>1 DEF HeldOK
    <3>3. s \in StripeSubs => IsFromStripe(s, held.row)'
      BY <3>2, FromStripeStays
    <3>4. s = changes'[held.change].sub
      BY <2>1, <3>1
    <3>. QED BY <3>3, <3>4
  <2>3. held.at > 1 => Mirrored(held.change)'
    BY <1>1, <2>1, MirroredStays DEF HeldOK
  <2>. QED BY <1>1, <2>1, <2>2, <2>3 DEF HeldOK
<1>2. CASE held.op = "webhook"
  <2>1. held \in WebhookRequest /\ held.sub \in StripeSubs /\ IsFromStripe(held.sub, held.row)
    BY <1>2 DEF HeldOK, WebhookRequest
  <2>2. IsFromStripe(held.sub, held.row)'
    BY <2>1, FromStripeStays
  <2>. QED BY <1>2, <2>1, <2>2 DEF HeldOK
<1>3. CASE held.op \notin {"apply", "webhook"}
  BY <1>3 DEF HeldOK
<1>. QED BY <1>1, <1>2, <1>3

-----------------------------------------------------------------------------
(* Each conjunct of the invariant after a step, from what the step does to *)
(* its tables.                                                             *)
LEMMA StripeKept == ASSUME StripeOK, UNCHANGED stripeVars PROVE StripeOK'
BY DEF StripeOK, stripeVars

LEMMA ChangesKept ==
    ASSUME ChangesOK, Grows, changes' = changes,
           \A s \in Subs : subscription[s] # NoSubscription => subscription'[s] # NoSubscription
    PROVE  ChangesOK'
<1>. SUFFICES ASSUME NEW c \in DOMAIN changes
              PROVE  /\ subscription'[changes[c].sub] # NoSubscription
                     /\ changes[c].status = "applied" => Mirrored(c)'
  BY DEF ChangesOK
<1>1. changes[c].sub \in Subs
  <2>1. changes[c] \in ChangeRow
    BY DEF ChangesOK
  <2>. QED BY <2>1 DEF ChangeRow
<1>. QED BY <1>1, MirroredStays DEF ChangesOK

LEMMA RowsKept == ASSUME RowsOK, Grows, subscription' = subscription PROVE RowsOK'
<1>. SUFFICES ASSUME NEW s \in StripeSubs PROVE IsFromStripe(s, subscription[s])'
  BY DEF RowsOK
<1>1. PICK row : row = subscription[s]
  OBVIOUS
<1>2. IsFromStripe(s, row)
  BY <1>1 DEF RowsOK
<1>3. IsFromStripe(s, row)'
  BY <1>2, FromStripeStays
<1>. QED BY <1>1, <1>3 DEF IsFromStripe

LEMMA RowSaved ==
    ASSUME RowsOK, Grows, NEW s \in Subs, NEW row \in Subscription,
           s \in StripeSubs => IsFromStripe(s, row),
           subscription' = [subscription EXCEPT ![s] = row]
    PROVE  /\ RowsOK'
           /\ \A x \in Subs : subscription[x] # NoSubscription => subscription'[x] # NoSubscription
<1>1. \A x \in Subs : subscription'[x] = IF x = s THEN row ELSE subscription[x]
  BY DEF RowsOK
<1>2. ASSUME NEW x \in StripeSubs PROVE IsFromStripe(x, subscription[x])'
  <2>1. PICK new : new = subscription'[x]
    OBVIOUS
  <2>2. (new = row /\ x = s) \/ new = subscription[x]
    BY <1>1, <2>1 DEF Subs
  <2>3. IsFromStripe(x, new)
    BY <2>2 DEF RowsOK
  <2>4. IsFromStripe(x, new)'
    BY <2>3, FromStripeStays
  <2>. QED BY <2>1, <2>4 DEF IsFromStripe
<1>3. subscription' \in [Subs -> Subscription \cup {NoSubscription}]
  BY DEF RowsOK
<1>4. \A x \in Subs : subscription[x] # NoSubscription => subscription'[x] # NoSubscription
  BY <1>1, SomeRow
<1>. QED BY <1>2, <1>3, <1>4 DEF RowsOK, Subs

LEMMA SnapshotKept ==
    ASSUME SnapshotOK, UNCHANGED <<rowVars, cacheVars, since>> PROVE SnapshotOK'
<1>1. UNCHANGED <<subscription, entitlements, addOns, cached, fresh, since>>
  BY DEF rowVars, cacheVars
<1>2. Payload' = Payload
  BY <1>1 DEF Payload, PayloadOf, Granting, Attached
<1>. QED BY <1>1, <1>2 DEF SnapshotOK, SnapshotKeepsPromises, Valid

TablesAfter ==
    /\ entitlements' \in [Owners -> Nat]
    /\ addOns' \in [Subs -> [AddOns -> SubscriptionAddOn]]

LEMMA SnapshotRegranted ==
    ASSUME SnapshotOK, RowsOK', TablesAfter, UNCHANGED cacheVars, Regranted
    PROVE  SnapshotOK'
<1>1. Payload' \subseteq PayloadLine
  BY NextPayloadLines DEF RowsOK, TablesAfter
<1>2. cached' = cached /\ fresh' = fresh
  BY DEF cacheVars
<1>. QED BY <1>1, <1>2 DEF SnapshotOK, TablesAfter, Regranted, SnapshotKeepsPromises, Valid

LEMMA SnapshotPromised ==
    ASSUME SnapshotOK, RowsOK', TablesAfter, cached' = Invalidated, fresh' = fresh, Promised
    PROVE  SnapshotOK'
<1>1. Payload' \subseteq PayloadLine
  BY NextPayloadLines DEF RowsOK, TablesAfter
<1>2. cached' \in EntitlementSnapshot /\ ~ cached'.valid
  BY DEF SnapshotOK, Invalidated, EntitlementSnapshot
<1>. QED BY <1>1, <1>2 DEF SnapshotOK, TablesAfter, Promised, SnapshotKeepsPromises, Valid

LEMMA PagesKept ==
    ASSUME PagesOK, UNCHANGED pageVars, Spares({"page"}) PROVE PagesOK'
BY DEF PagesOK, pageVars, Spares, Holds, BillingCustomer

(* The requests in flight, when worker w goes on with a request or none    *)
(* does.                                                                   *)
LEMMA WorkerMoves ==
    ASSUME SubInv, Grows, NEW w \in Workers, NEW held, HeldOK(held)',
           Begin(w, held) \/ TakeUp(w, held) \/ Proceed(w, held)
    PROVE  RequestsOK' /\ \A v \in Workers : HeldOK(request[v])'
<1>1. RequestsOK' /\ request'[w] = held /\ \A v \in Workers : v # w => request'[v] = request[v]
  BY HeldNext DEF SubInv
<1>2. ASSUME NEW v \in Workers PROVE HeldOK(request[v])'
  <2>1. PICK mine : mine = request'[v]
    OBVIOUS
  <2>2. mine = held \/ HeldOK(mine)
    BY <1>1, <2>1 DEF SubInv
  <2>3. HeldOK(mine)'
    BY <2>2, HeldStays
  <2>. QED BY <2>1, <2>3 DEF HeldOK
<1>. QED BY <1>1, <1>2

LEMMA WorkerStep ==
    ASSUME SubInv, Grows, NEW w \in Workers, NEW held, HeldOK(held)', held.op # "page",
           Begin(w, held) \/ TakeUp(w, held) \/ Proceed(w, held), UNCHANGED pageVars,
           StripeOK', ChangesOK', RowsOK', SnapshotOK'
    PROVE  SubInv'
<1>1. Spares({"page"})
  BY ProceedSpares DEF SubInv
<1>2. RequestsOK' /\ \A v \in Workers : HeldOK(request[v])'
  BY WorkerMoves
<1>. QED BY <1>1, <1>2, PagesKept DEF SubInv

LEMMA EndsStep ==
    ASSUME SubInv, Grows, NEW w \in Workers, End(w), UNCHANGED pageVars,
           StripeOK', ChangesOK', RowsOK', SnapshotOK'
    PROVE  SubInv'
<1>1. PICK none : none = Idle
  OBVIOUS
<1>2. Proceed(w, none) /\ none.op = "idle" /\ HeldOK(none)'
  BY <1>1 DEF End, Idle, HeldOK
<1>. QED BY <1>2, WorkerStep

LEMMA ServesStep ==
    ASSUME SubInv, Grows, request' = request, UNCHANGED pageVars,
           StripeOK', ChangesOK', RowsOK', SnapshotOK'
    PROVE  SubInv'
<1>1. RequestsOK' /\ Spares({"page"})
  BY StillSpares DEF SubInv, RequestsOK
<1>2. ASSUME NEW v \in Workers PROVE HeldOK(request[v])'
  <2>1. PICK held : held = request[v]
    OBVIOUS
  <2>2. HeldOK(held)'
    BY <2>1, HeldStays DEF SubInv
  <2>. QED BY <2>1, <2>2 DEF HeldOK
<1>. QED BY <1>1, <1>2, PagesKept DEF SubInv

-----------------------------------------------------------------------------
(* Steps that serve a request at once.                                     *)
LEMMA GrantManualStep ==
    ASSUME SubInv, NEW s \in LocalSubs, NEW p \in Plans, NEW ends \in {"never", "future"},
           GrantManual(s, p, "free", ends)
    PROVE  SubInv'
<1>. DEFINE row == Bought(p, "free", ends)
<1>1. /\ row \in Subscription /\ row.status = "free" /\ row.quantity = 1 /\ ~ row.cancelAtEnd
  BY BoughtIsSubscription DEF SubscriptionStatuses, When
<1>2. /\ subscription' = [subscription EXCEPT ![s] = row] /\ Regranted /\ request' = request
      /\ subscription[s] = NoSubscription
      /\ UNCHANGED <<entitlements, addOns, stripeVars, changes, cacheVars, pageVars>>
  BY DEF GrantManual, Serve
<1>3. Grows
  BY <1>2, NothingNew DEF SubInv, stripeVars
<1>4. s \in Subs /\ (s \in StripeSubs => IsFromStripe(s, row))
  BY <1>2 DEF Subs, SubInv, RowsOK
<1>. HIDE DEF row
<1>5. /\ RowsOK'
      /\ \A x \in Subs : subscription[x] # NoSubscription => subscription'[x] # NoSubscription
  BY <1>1, <1>2, <1>3, <1>4, RowSaved DEF SubInv
<1>6. ChangesOK' /\ StripeOK'
  BY <1>2, <1>3, <1>5, ChangesKept, StripeKept DEF SubInv
<1>7. SnapshotOK'
  BY <1>2, <1>5, SnapshotRegranted DEF SubInv, SnapshotOK, TablesAfter
<1>. QED BY <1>2, <1>3, <1>5, <1>6, <1>7, ServesStep

LEMMA PeriodEndsStep ==
    ASSUME SubInv, NEW s \in Subs, PeriodEnds(s) PROVE SubInv'
<1>1. subscription[s] \in Subscription
  BY DEF PeriodEnds, SubInv, RowsOK
<1>2. PICK row : /\ subscription' = [subscription EXCEPT ![s] = row]
                 /\ row \in {[subscription[s] EXCEPT !.ends = "past"],
                             [subscription[s] EXCEPT !.trial = "past"],
                             [subscription[s] EXCEPT !.grace = "past"]}
  BY DEF PeriodEnds
<1>3. /\ row \in Subscription /\ row.status = subscription[s].status
      /\ row.quantity = subscription[s].quantity
      /\ row.cancelAtEnd = subscription[s].cancelAtEnd
  BY <1>1, <1>2 DEF Subscription, When
<1>4. s \in StripeSubs => IsFromStripe(s, row)
  BY <1>3 DEF IsFromStripe, SubInv, RowsOK
<1>5. /\ Regranted /\ request' = request
      /\ UNCHANGED <<entitlements, addOns, stripeVars, changes, cacheVars, pageVars>>
  BY DEF PeriodEnds, Serve
<1>6. Grows
  BY <1>5, NothingNew DEF SubInv, stripeVars
<1>7. /\ RowsOK'
      /\ \A x \in Subs : subscription[x] # NoSubscription => subscription'[x] # NoSubscription
  BY <1>2, <1>3, <1>4, <1>6, RowSaved DEF SubInv
<1>8. ChangesOK' /\ StripeOK'
  BY <1>5, <1>6, <1>7, ChangesKept, StripeKept DEF SubInv
<1>9. SnapshotOK'
  BY <1>5, <1>7, SnapshotRegranted DEF SubInv, SnapshotOK, TablesAfter
<1>. QED BY <1>5, <1>6, <1>7, <1>8, <1>9, ServesStep

LEMMA CreateEntitlementStep ==
    ASSUME SubInv, NEW o \in Owners, CreateEntitlement(o) PROVE SubInv'
<1>1. /\ entitlements' = [entitlements EXCEPT ![o] = @ + 1] /\ Regranted /\ request' = request
      /\ UNCHANGED <<subscription, addOns, stripeVars, changes, cacheVars, pageVars>>
  BY DEF CreateEntitlement, Serve
<1>2. Grows
  BY <1>1, NothingNew DEF SubInv, stripeVars
<1>3. RowsOK' /\ ChangesOK' /\ StripeOK'
  BY <1>1, <1>2, RowsKept, ChangesKept, StripeKept DEF SubInv
<1>4. TablesAfter
  BY <1>1 DEF SubInv, SnapshotOK, TablesAfter
<1>5. SnapshotOK'
  BY <1>1, <1>3, <1>4, SnapshotRegranted DEF SubInv
<1>. QED BY <1>1, <1>2, <1>3, <1>5, ServesStep

LEMMA AttachAddOnStep ==
    ASSUME SubInv, NEW s \in Subs, NEW a \in AddOns, NEW q \in Quantities, AttachAddOn(s, a, q)
    PROVE  SubInv'
<1>1. /\ addOns' = [addOns EXCEPT ![s][a] = q] /\ cached' = Invalidated /\ Promised
      /\ request' = request
      /\ UNCHANGED <<subscription, entitlements, stripeVars, changes, fresh, pageVars>>
  BY DEF AttachAddOn, AfterAddOn, Serve
<1>2. Grows
  BY <1>1, NothingNew DEF SubInv, stripeVars
<1>3. RowsOK' /\ ChangesOK' /\ StripeOK'
  BY <1>1, <1>2, RowsKept, ChangesKept, StripeKept DEF SubInv
<1>4. TablesAfter
  BY <1>1 DEF SubInv, SnapshotOK, TablesAfter, SubscriptionAddOn
<1>5. SnapshotOK'
  BY <1>1, <1>3, <1>4, SnapshotPromised DEF SubInv
<1>. QED BY <1>1, <1>2, <1>3, <1>5, ServesStep

LEMMA RequestChangeStep ==
    ASSUME SubInv, NEW s \in Subs, NEW action \in ChangeActions, NEW t \in Targets(action),
           NEW skip \in BOOLEAN, RequestChange(s, action, t, skip)
    PROVE  SubInv'
<1>. DEFINE asked == [sub |-> s, action |-> action, target |-> t, skip |-> skip,
                      status |-> "pending"]
<1>1. /\ asked \in ChangeRow /\ asked.action = action /\ asked.target = t /\ asked.sub = s
      /\ asked.status = "pending"
  BY DEF ChangeRow, ChangeTargets, ChangeStatuses, Targets
<1>2. /\ changes' = Append(changes, asked) /\ request' = request
      /\ subscription[s] # NoSubscription
      /\ UNCHANGED <<rowVars, stripeVars, cacheVars, since, pageVars>>
  BY DEF RequestChange, Serve
<1>. HIDE DEF asked
<1>3. changes \in Seq(ChangeRow)
  BY DEF SubInv, ChangesOK
<1>4. /\ changes' \in Seq(ChangeRow) /\ DOMAIN changes' = DOMAIN changes \cup {Len(changes) + 1}
      /\ Len(changes) + 1 \notin DOMAIN changes /\ changes'[Len(changes) + 1] = asked
      /\ \A c \in DOMAIN changes : changes'[c] = changes[c]
  BY <1>1, <1>2, <1>3, RowInserted
<1>5. Grows
  BY <1>2, <1>4 DEF Grows, SubInv, StripeOK, stripeVars
<1>6. ChangesOK'
  <2>. SUFFICES ASSUME NEW c \in DOMAIN changes'
                PROVE  /\ changes'[c].target \in Targets(changes'[c].action)
                       /\ subscription'[changes'[c].sub] # NoSubscription
                       /\ changes'[c].status = "applied" => Mirrored(c)'
    BY <1>4 DEF ChangesOK
  <2>1. subscription' = subscription
    BY <1>2 DEF rowVars
  <2>2. CASE c = Len(changes) + 1
    BY <1>1, <1>2, <1>4, <2>1, <2>2
  <2>3. CASE c \in DOMAIN changes
    BY <1>4, <1>5, <2>1, <2>3, MirroredStays DEF SubInv, ChangesOK
  <2>. QED BY <1>4, <2>2, <2>3
<1>7. RowsOK' /\ StripeOK' /\ SnapshotOK'
  BY <1>2, <1>5, RowsKept, StripeKept, SnapshotKept DEF SubInv, rowVars
<1>. QED BY <1>2, <1>5, <1>6, <1>7, ServesStep

-----------------------------------------------------------------------------
(* A recalculation: what it read are lines of the tables; stored while it  *)
(* is current, it is what the rows grant.                                  *)
LEMMA RecalculateStep ==
    ASSUME SubInv, NEW w \in Workers, ReadRows(w) \/ StoreSnapshot(w) PROVE SubInv'
<1>1. ASSUME ReadRows(w) PROVE SubInv'
  <2>1. PICK held : held = [op |-> "recalculate", payload |-> Payload]
    OBVIOUS
  <2>2. held.op = "recalculate" /\ held.payload = Payload
    BY <2>1
  <2>3. Begin(w, held) /\ UNCHANGED subVars
    BY <1>1, <2>1 DEF ReadRows
  <2>4. UNCHANGED <<subscription, rowVars, stripeVars, copies, changes, cacheVars, since, pageVars>>
    BY <2>3 DEF subVars, rowVars, stripeVars, cacheVars, pageVars
  <2>5. Grows
    BY <2>4, NothingNew DEF SubInv
  <2>6. Payload \subseteq PayloadLine
    BY PayloadLines DEF SubInv, RowsOK, SnapshotOK, Payload
  <2>7. HeldOK(held)'
    BY <2>2, <2>6 DEF HeldOK
  <2>8. StripeOK' /\ ChangesOK' /\ RowsOK' /\ SnapshotOK'
    BY <2>4, <2>5, StripeKept, ChangesKept, RowsKept, SnapshotKept DEF SubInv
  <2>. QED BY <2>2, <2>3, <2>4, <2>5, <2>7, <2>8, WorkerStep
<1>2. ASSUME StoreSnapshot(w) PROVE SubInv'
  <2>1. /\ Holds(w, "recalculate") /\ End(w) /\ fresh' = (request[w].payload = Payload)
        /\ cached' = [payload |-> request[w].payload, valid |-> TRUE]
        /\ UNCHANGED <<rowVars, stripeVars, changes, since, pageVars>>
    BY <1>2 DEF StoreSnapshot
  <2>2. UNCHANGED <<subscription, entitlements, addOns, copies>>
    BY <2>1 DEF rowVars, stripeVars
  <2>3. Grows
    BY <2>1, <2>2, NothingNew DEF SubInv
  <2>4. StripeOK' /\ ChangesOK' /\ RowsOK'
    BY <2>1, <2>2, <2>3, StripeKept, ChangesKept, RowsKept DEF SubInv
  <2>5. request[w].payload \subseteq PayloadLine
    BY <2>1 DEF SubInv, HeldOK, Holds
  <2>6. Payload' = Payload
    BY <2>2 DEF Payload, PayloadOf, Granting, Attached
  <2>7. cached' \in EntitlementSnapshot /\ cached'.payload = request[w].payload
    BY <2>1, <2>5 DEF EntitlementSnapshot
  <2>8. SnapshotOK'
    BY <2>1, <2>2, <2>6, <2>7 DEF SubInv, SnapshotOK, SnapshotKeepsPromises
  <2>. QED BY <2>1, <2>3, <2>4, <2>8, EndsStep
<1>. QED BY <1>1, <1>2

-----------------------------------------------------------------------------
(* What Stripe does to its copy, the copy shows.                           *)
LEMMA CopyTypes ==
    ASSUME NEW copy \in StripeSubscription, NEW action \in StripeActions,
           NEW t \in Targets(action)
    PROVE  CopyAfter(copy, action, t) \in StripeSubscription
<1>1. CASE action = "change_quantity"
  <2>1. t \in Quantities
    BY <1>1 DEF Targets
  <2>2. [copy EXCEPT !.quantity = t] \in StripeSubscription
    BY <2>1 DEF StripeSubscription
  <2>. QED BY <1>1, <2>2 DEF CopyAfter
<1>2. CASE action = "cancel_at_period_end"
  <2>1. [copy EXCEPT !.cancelAtEnd = TRUE] \in StripeSubscription
    BY DEF StripeSubscription
  <2>. QED BY <1>2, <2>1 DEF CopyAfter
<1>3. CASE action = "cancel_now"
  <2>1. [copy EXCEPT !.cancelled = TRUE] \in StripeSubscription
    BY DEF StripeSubscription
  <2>. QED BY <1>3, <2>1 DEF CopyAfter
<1>4. CASE action = "resume"
  <2>1. [copy EXCEPT !.cancelAtEnd = FALSE] \in StripeSubscription
    BY DEF StripeSubscription
  <2>. QED BY <1>4, <2>1 DEF CopyAfter
<1>. QED BY <1>1, <1>2, <1>3, <1>4 DEF StripeActions

LEMMA CopyShows ==
    ASSUME NEW c \in DOMAIN changes, changes[c].action \in StripeActions,
           NEW copy \in StripeSubscription
    PROVE  Shows(CopyAfter(copy, changes[c].action, changes[c].target), c)
<1>. DEFINE action == changes[c].action
            t == changes[c].target
<1>1. CASE action = "change_quantity"
  <2>1. [copy EXCEPT !.quantity = t].quantity = t
    BY DEF StripeSubscription
  <2>. QED BY <1>1, <2>1 DEF CopyAfter, Shows
<1>2. CASE action = "cancel_at_period_end"
  <2>1. [copy EXCEPT !.cancelAtEnd = TRUE].cancelAtEnd
    BY DEF StripeSubscription
  <2>. QED BY <1>2, <2>1 DEF CopyAfter, Shows
<1>3. CASE action = "cancel_now"
  <2>1. [copy EXCEPT !.cancelled = TRUE].cancelled
    BY DEF StripeSubscription
  <2>. QED BY <1>3, <2>1 DEF CopyAfter, Shows
<1>4. CASE action = "resume"
  <2>1. ~ [copy EXCEPT !.cancelAtEnd = FALSE].cancelAtEnd
    BY DEF StripeSubscription
  <2>. QED BY <1>4, <2>1 DEF CopyAfter, Shows
<1>. QED BY <1>1, <1>2, <1>3, <1>4 DEF StripeActions

LEMMA StripeDid ==
    ASSUME StripeOK, NEW s \in StripeSubs, NEW action \in StripeActions,
           NEW t \in Targets(action), StripeDoes(s, action, t)
    PROVE  /\ StripeOK' /\ \A x \in StripeSubs : copies[x] \subseteq copies'[x]
           /\ CopyAfter(atStripe[s], action, t) \in copies'[s]
<1>1. PICK copy : copy = CopyAfter(atStripe[s], action, t)
  OBVIOUS
<1>2. copy \in StripeSubscription
  BY <1>1, CopyTypes DEF StripeOK
<1>3. /\ atStripe' = [atStripe EXCEPT ![s] = copy]
      /\ copies' = [copies EXCEPT ![s] = @ \cup {copy}]
  BY <1>1 DEF StripeDoes
<1>. QED BY <1>1, <1>2, <1>3 DEF StripeOK

LEMMA StripeChangesStep ==
    ASSUME SubInv, NEW s \in StripeSubs, NEW action \in StripeActions, NEW t \in Targets(action),
           StripeChanges(s, action, t)
    PROVE  SubInv'
<1>1. /\ request' = request /\ StripeDoes(s, action, t)
      /\ UNCHANGED <<rowVars, changes, cacheVars, since, pageVars>>
  BY DEF StripeChanges, Serve
<1>2. StripeOK' /\ \A x \in StripeSubs : copies[x] \subseteq copies'[x]
  BY <1>1, StripeDid DEF SubInv
<1>3. Grows
  BY <1>1, <1>2 DEF Grows, SubInv, StripeOK, ChangesOK
<1>4. subscription' = subscription
  BY <1>1 DEF rowVars
<1>5. ChangesOK' /\ RowsOK' /\ SnapshotOK'
  BY <1>1, <1>3, <1>4, ChangesKept, RowsKept, SnapshotKept DEF SubInv
<1>. QED BY <1>1, <1>2, <1>3, <1>5, ServesStep

-----------------------------------------------------------------------------
(* The row a webhook writes says what one of Stripe's states said.         *)
LEMMA RowFromStripe ==
    ASSUME SubInv, NEW s \in StripeSubs, NEW copy \in copies[s], NEW deleted \in BOOLEAN,
           NEW ends \in EventEnds, deleted => copy.cancelled
    PROVE  /\ RowFrom(subscription[s], copy, deleted, ends) \in Subscription
           /\ IsFromStripe(s, RowFrom(subscription[s], copy, deleted, ends))
<1>. DEFINE row == subscription[s]
            new == RowFrom(row, copy, deleted, ends)
<1>1. /\ row \in Subscription /\ IsFromStripe(s, row) /\ copy \in StripeSubscription
      /\ ends \in When
  BY EndsAreSeen DEF SubInv, RowsOK, StripeOK, Subs, When
<1>. HIDE DEF row
<1>2. /\ row.plan \in Plans /\ row.status \in SubscriptionStatuses /\ row.ends \in When
      /\ row.trial \in When /\ row.grace \in When /\ row.quantity \in Quantities \cup {1}
      /\ row.cancelAtEnd \in BOOLEAN
  BY <1>1 DEF Subscription
<1>3. CASE deleted
  <2>. DEFINE when == IF ends = "never" THEN row.ends ELSE ends
  <2>1. new = [row EXCEPT !.status = "cancelled", !.ends = when]
    BY <1>3 DEF RowFrom
  <2>2. when \in When
    BY <1>1, <1>2
  <2>. HIDE DEF when
  <2>3. /\ new \in Subscription /\ new.quantity = row.quantity
        /\ new.cancelAtEnd = row.cancelAtEnd
    BY <1>1, <2>1, <2>2 DEF Subscription, SubscriptionStatuses
  <2>. HIDE DEF new
  <2>4. IsFromStripe(s, new)
    BY <1>1, <1>3, <2>3 DEF IsFromStripe
  <2>. QED BY <2>3, <2>4 DEF row, new
<1>4. CASE ~ deleted
  <2>. DEFINE status == IF copy.cancelled THEN "cancelled" ELSE "active"
  <2>1. new = [row EXCEPT !.plan = StripePlan, !.ends = ends, !.trial = "never",
                          !.status = status, !.quantity = copy.quantity,
                          !.cancelAtEnd = copy.cancelAtEnd]
    BY <1>4 DEF RowFrom
  <2>2. /\ status \in SubscriptionStatuses /\ (status = "cancelled" => copy.cancelled)
        /\ copy.quantity \in Quantities \cup {1} /\ copy.cancelAtEnd \in BOOLEAN
        /\ "never" \in When
    BY <1>1 DEF SubscriptionStatuses, StripeSubscription, When
  <2>. HIDE DEF status
  <2>3. /\ new \in Subscription /\ new.status = status /\ new.quantity = copy.quantity
        /\ new.cancelAtEnd = copy.cancelAtEnd
    BY <1>1, <2>1, <2>2, OnePlan DEF Subscription
  <2>. HIDE DEF new
  <2>4. IsFromStripe(s, new)
    BY <2>2, <2>3 DEF IsFromStripe
  <2>. QED BY <2>3, <2>4 DEF row, new
<1>. QED BY <1>3, <1>4

LEMMA TakeEventStep ==
    ASSUME SubInv, NEW w \in Workers, NEW s \in StripeSubs, NEW copy \in copies[s],
           NEW deleted \in BOOLEAN, NEW ends \in EventEnds, TakeEvent(w, s, copy, deleted, ends)
    PROVE  SubInv'
<1>1. PICK row : row = RowFrom(subscription[s], copy, deleted, ends)
  OBVIOUS
<1>2. PICK rows : rows = [subscription EXCEPT ![s] = row]
  OBVIOUS
<1>3. PICK payload, saves : payload = PayloadOf(rows) /\ saves = Encodable(rows)
  OBVIOUS
<1>4. PICK held : held = [op |-> "webhook", sub |-> s, row |-> row, payload |-> payload,
                          saves |-> saves]
  OBVIOUS
<1>5. /\ TakeUp(w, held) /\ (deleted => copy.cancelled) /\ UNCHANGED subVars
  BY <1>1, <1>2, <1>3, <1>4 DEF TakeEvent
<1>6. row \in Subscription /\ IsFromStripe(s, row)
  BY <1>1, <1>5, RowFromStripe
<1>7. payload \subseteq PayloadLine /\ saves \in BOOLEAN
  <2>1. rows \in [Subs -> Subscription \cup {NoSubscription}]
    BY <1>2, <1>6 DEF SubInv, RowsOK
  <2>2. PayloadOf(rows) \subseteq PayloadLine
    BY <2>1, PayloadLines DEF SubInv, SnapshotOK
  <2>. QED BY <1>3, <2>2 DEF Encodable, IsEncodable
<1>8. UNCHANGED <<subscription, rowVars, stripeVars, copies, changes, cacheVars, since, pageVars>>
  BY <1>5 DEF subVars, rowVars, stripeVars, cacheVars, pageVars
<1>9. Grows
  BY <1>8, NothingNew DEF SubInv
<1>10. held.op = "webhook" /\ HeldOK(held)'
  <2>1. held \in WebhookRequest /\ held.op = "webhook" /\ held.sub = s /\ held.row = row
    BY <1>4, <1>6, <1>7 DEF WebhookRequest
  <2>2. HeldOK(held)
    BY <1>6, <2>1 DEF HeldOK
  <2>. QED BY <1>9, <2>1, <2>2, HeldStays
<1>11. StripeOK' /\ ChangesOK' /\ RowsOK' /\ SnapshotOK'
  BY <1>8, <1>9, StripeKept, ChangesKept, RowsKept, SnapshotKept DEF SubInv
<1>. QED BY <1>5, <1>8, <1>9, <1>10, <1>11, WorkerStep

LEMMA CommitEventStep ==
    ASSUME SubInv, NEW w \in Workers, NEW processed \in BOOLEAN, CommitEvent(w, processed)
    PROVE  SubInv'
<1>1. PICK held : held = request[w]
  OBVIOUS
<1>2. /\ held \in WebhookRequest /\ held.sub \in StripeSubs /\ held.row \in Subscription
      /\ held.payload \subseteq PayloadLine /\ IsFromStripe(held.sub, held.row)
  BY <1>1 DEF CommitEvent, Holds, SubInv, HeldOK, WebhookRequest
<1>3. /\ subscription' = [subscription EXCEPT ![held.sub] = held.row] /\ End(w) /\ Regranted
      /\ UNCHANGED <<entitlements, addOns, stripeVars, changes, pageVars>>
  BY <1>1 DEF CommitEvent
<1>4. Grows
  BY <1>3, NothingNew DEF SubInv, stripeVars
<1>5. /\ RowsOK'
      /\ \A x \in Subs : subscription[x] # NoSubscription => subscription'[x] # NoSubscription
  <2>1. held.sub \in Subs
    BY <1>2 DEF Subs
  <2>2. PICK s, row : s = held.sub /\ row = held.row
    OBVIOUS
  <2>. QED BY <1>2, <1>3, <1>4, <2>1, <2>2, RowSaved DEF SubInv
<1>6. ChangesOK' /\ StripeOK'
  BY <1>3, <1>4, <1>5, ChangesKept, StripeKept DEF SubInv
<1>7. SnapshotOK'
  <2>1. TablesAfter
    BY <1>3 DEF SubInv, SnapshotOK, TablesAfter
  <2>2. CASE UNCHANGED cacheVars
    BY <1>3, <1>5, <2>1, <2>2, SnapshotRegranted DEF SubInv
  <2>3. CASE /\ cached' = [payload |-> held.payload, valid |-> TRUE]
             /\ fresh' = (held.payload = Payload')
    <3>1. Payload' \subseteq PayloadLine
      BY <1>5, <2>1, NextPayloadLines DEF RowsOK, TablesAfter
    <3>2. cached' \in EntitlementSnapshot /\ cached'.payload = held.payload
      BY <1>2, <2>3 DEF EntitlementSnapshot
    <3>. QED BY <1>3, <2>1, <2>3, <3>1, <3>2
         DEF SubInv, SnapshotOK, TablesAfter, Regranted, SnapshotKeepsPromises
  <2>. QED BY <1>1, <2>2, <2>3 DEF CommitEvent
<1>. QED BY <1>3, <1>4, <1>5, <1>6, <1>7, EndsStep

-----------------------------------------------------------------------------
(* An application under way: its change, and the row it read.              *)
LEMMA ApplyIsHeld ==
    ASSUME SubInv, NEW w \in Workers, Holds(w, "apply")
    PROVE  /\ request[w] \in ApplyRequest /\ request[w].change \in DOMAIN changes
           /\ changes[request[w].change] \in ChangeRow
           /\ changes[request[w].change].target \in Targets(changes[request[w].change].action)
           /\ changes[request[w].change].sub \in StripeSubs =>
                IsFromStripe(changes[request[w].change].sub, request[w].row)
           /\ request[w].at > 1 => Mirrored(request[w].change)
BY DEF SubInv, HeldOK, Holds, ChangesOK

LEMMA StartApplyStep ==
    ASSUME SubInv, NEW w \in Workers, NEW c \in DOMAIN changes, StartApply(w, c)
    PROVE  SubInv'
<1>1. PICK row : row = subscription[changes[c].sub]
  OBVIOUS
<1>2. /\ row \in Subscription /\ c \in Nat
      /\ changes[c].sub \in StripeSubs => IsFromStripe(changes[c].sub, row)
  <2>1. changes[c] \in ChangeRow
    BY DEF SubInv, ChangesOK
  <2>2. changes[c].sub \in Subs
    BY <2>1 DEF ChangeRow
  <2>. QED BY <1>1, <2>2 DEF SubInv, ChangesOK, RowsOK
<1>3. PICK held : held = [op |-> "apply", change |-> c, row |-> row, at |-> 1]
  OBVIOUS
<1>4. /\ held \in ApplyRequest /\ held.op = "apply" /\ held.change = c /\ held.row = row
      /\ held.at = 1
  BY <1>2, <1>3 DEF ApplyRequest
<1>5. Begin(w, held) /\ UNCHANGED subVars
  BY <1>1, <1>3 DEF StartApply
<1>6. UNCHANGED <<subscription, rowVars, stripeVars, copies, changes, cacheVars, since, pageVars>>
  BY <1>5 DEF subVars, rowVars, stripeVars, cacheVars, pageVars
<1>7. Grows
  BY <1>6, NothingNew DEF SubInv
<1>8. HeldOK(held)'
  <2>1. HeldOK(held)
    BY <1>2, <1>4 DEF HeldOK
  <2>. QED BY <1>7, <2>1, HeldStays
<1>9. StripeOK' /\ ChangesOK' /\ RowsOK' /\ SnapshotOK'
  BY <1>6, <1>7, StripeKept, ChangesKept, RowsKept, SnapshotKept DEF SubInv
<1>. QED BY <1>4, <1>5, <1>6, <1>7, <1>8, <1>9, WorkerStep

(* An application one step further holds what it held, provided it is at   *)
(* Stripe no later than it saves.                                          *)
LEMMA GoneOn ==
    ASSUME SubInv, Grows, NEW w \in Workers, Holds(w, "apply"), GoOn(w), request[w].at < 4,
           NEW c, c = request[w].change, Mirrored(c)'
    PROVE  \E held : held.op = "apply" /\ Proceed(w, held) /\ HeldOK(held)'
<1>1. PICK mine : mine = request[w]
  OBVIOUS
<1>2. /\ mine \in ApplyRequest /\ mine.op = "apply" /\ HeldOK(mine)
  BY <1>1, ApplyIsHeld DEF SubInv, Holds
<1>3. PICK held : held = [mine EXCEPT !.at = @ + 1]
  OBVIOUS
<1>4. /\ held \in ApplyRequest /\ held.op = "apply" /\ held.change = mine.change
      /\ held.row = mine.row
  BY <1>1, <1>2, <1>3 DEF ApplyRequest
<1>5. Proceed(w, held)
  BY <1>1, <1>3 DEF GoOn
<1>6. HeldOK(mine)'
  BY <1>2, HeldStays
<1>7. Mirrored(held.change)'
  BY <1>1, <1>4
<1>8. HeldOK(held)'
  BY <1>2, <1>4, <1>6, <1>7 DEF HeldOK
<1>. QED BY <1>4, <1>5, <1>8

LEMMA StripeAcceptsStep ==
    ASSUME SubInv, NEW w \in Workers, StripeAccepts(w) PROVE SubInv'
<1>1. PICK c : c = request[w].change
  OBVIOUS
<1>2. /\ Holds(w, "apply") /\ request[w] \in ApplyRequest /\ c \in DOMAIN changes
      /\ changes[c] \in ChangeRow /\ changes[c].target \in Targets(changes[c].action)
      /\ ApplyOrder[request[w].at] = "stripe"
  BY <1>1, ApplyIsHeld DEF StripeAccepts, NextStep
<1>3. request[w].at = 1
  BY <1>2 DEF ApplyOrder, StripeFirst, ApplyRequest
<1>4. /\ GoOn(w) /\ UNCHANGED <<rowVars, changes, cacheVars, since, pageVars>>
      /\ IF NeedsStripe(c) THEN AskStripe(c) ELSE UNCHANGED stripeVars
  BY <1>1 DEF StripeAccepts
<1>5. /\ StripeOK' /\ \A x \in StripeSubs : copies[x] \subseteq copies'[x]
      /\ Mirrored(c)'
  <2>1. CASE NeedsStripe(c)
    <3>1. PICK s, action, t :
             s = changes[c].sub /\ action = changes[c].action /\ t = changes[c].target
      OBVIOUS
    <3>2. /\ s \in StripeSubs /\ action \in StripeActions /\ t \in Targets(action)
          /\ StripeDoes(s, action, t)
      BY <1>2, <1>4, <2>1, <3>1 DEF NeedsStripe, AskStripe
    <3>3. /\ StripeOK' /\ \A x \in StripeSubs : copies[x] \subseteq copies'[x]
          /\ CopyAfter(atStripe[s], action, t) \in copies'[s]
      BY <3>2, StripeDid DEF SubInv
    <3>4. PICK copy : copy = CopyAfter(atStripe[s], action, t)
      OBVIOUS
    <3>5. Shows(copy, c)
      BY <1>2, <3>1, <3>2, <3>4, CopyShows DEF SubInv, StripeOK
    <3>6. copy \in copies'[changes'[c].sub] /\ Shows(copy, c)'
      BY <1>4, <3>1, <3>3, <3>4, <3>5 DEF Shows
    <3>. QED BY <3>3, <3>6 DEF Mirrored
  <2>2. CASE ~ NeedsStripe(c)
    <3>1. UNCHANGED stripeVars /\ ~ NeedsStripe(c)'
      BY <1>4, <2>2 DEF NeedsStripe
    <3>. QED BY <3>1, StripeKept DEF Mirrored, SubInv, stripeVars
  <2>. QED BY <2>1, <2>2
<1>6. Grows
  BY <1>4, <1>5 DEF Grows, SubInv, StripeOK, ChangesOK
<1>7. PICK held : held.op = "apply" /\ Proceed(w, held) /\ HeldOK(held)'
  BY <1>1, <1>2, <1>3, <1>4, <1>5, <1>6, GoneOn
<1>8. subscription' = subscription
  BY <1>4 DEF rowVars
<1>9. ChangesOK' /\ RowsOK' /\ SnapshotOK'
  BY <1>4, <1>6, <1>8, ChangesKept, RowsKept, SnapshotKept DEF SubInv
<1>. QED BY <1>4, <1>5, <1>6, <1>7, <1>9, WorkerStep

(* A change that ends FAILED promises nothing, whatever Stripe did.        *)
LEMMA StripeFailsStep ==
    ASSUME SubInv, NEW w \in Workers, NEW late \in BOOLEAN, StripeFails(w, late) PROVE SubInv'
<1>1. PICK c : c = request[w].change
  OBVIOUS
<1>2. /\ c \in DOMAIN changes /\ changes[c] \in ChangeRow
      /\ changes[c].target \in Targets(changes[c].action)
  BY <1>1, ApplyIsHeld DEF StripeFails, NextStep
<1>3. /\ changes' = [changes EXCEPT ![c].status = "failed"] /\ End(w) /\ NeedsStripe(c)
      /\ (AskStripe(c) \/ UNCHANGED stripeVars)
      /\ UNCHANGED <<rowVars, cacheVars, since, pageVars>>
  BY <1>1 DEF StripeFails
<1>4. /\ StripeOK' /\ \A x \in StripeSubs : copies[x] \subseteq copies'[x]
  <2>1. CASE AskStripe(c)
    <3>1. PICK s, action, t :
             s = changes[c].sub /\ action = changes[c].action /\ t = changes[c].target
      OBVIOUS
    <3>2. /\ s \in StripeSubs /\ action \in StripeActions /\ t \in Targets(action)
          /\ StripeDoes(s, action, t)
      BY <1>2, <1>3, <2>1, <3>1 DEF NeedsStripe, AskStripe
    <3>. QED BY <3>2, StripeDid DEF SubInv
  <2>2. CASE UNCHANGED stripeVars
    BY <2>2, StripeKept DEF SubInv, stripeVars
  <2>. QED BY <1>3, <2>1, <2>2
<1>5. /\ changes' \in Seq(ChangeRow) /\ DOMAIN changes' = DOMAIN changes
      /\ \A x \in DOMAIN changes : x # c => changes'[x] = changes[x]
      /\ changes'[c] = [changes[c] EXCEPT !.status = "failed"]
  <2>1. [changes[c] EXCEPT !.status = "failed"] \in ChangeRow
    BY <1>2 DEF ChangeRow, ChangeStatuses
  <2>. QED BY <1>2, <1>3, <2>1, RowReplaced DEF SubInv, ChangesOK
<1>6. Grows
  BY <1>2, <1>4, <1>5 DEF Grows, SubInv, StripeOK, ChangeRow
<1>7. subscription' = subscription
  BY <1>3 DEF rowVars
<1>8. ChangesOK'
  <2>. SUFFICES ASSUME NEW x \in DOMAIN changes
                PROVE  /\ changes'[x].target \in Targets(changes'[x].action)
                       /\ subscription'[changes'[x].sub] # NoSubscription
                       /\ changes'[x].status = "applied" => Mirrored(x)'
    BY <1>5 DEF ChangesOK
  <2>1. CASE x = c
    BY <1>2, <1>5, <1>7, <2>1 DEF SubInv, ChangesOK, ChangeRow
  <2>2. CASE x # c
    BY <1>5, <1>6, <1>7, <2>2, MirroredStays DEF SubInv, ChangesOK
  <2>. QED BY <2>1, <2>2
<1>9. RowsOK' /\ SnapshotOK'
  BY <1>3, <1>6, <1>7, RowsKept, SnapshotKept DEF SubInv
<1>. QED BY <1>3, <1>4, <1>6, <1>8, <1>9, EndsStep

-----------------------------------------------------------------------------
(* What apply_subscription_change writes is what Stripe showed, or what    *)
(* skip_provider_sync asked for.                                           *)
LEMMA ChangedIsFromStripe ==
    ASSUME ChangesOK, NEW c \in DOMAIN changes, NEW row \in Subscription
    PROVE  /\ Changed(row, c) \in Subscription
           /\ (/\ changes[c].sub \in StripeSubs /\ Mirrored(c)
               /\ IsFromStripe(changes[c].sub, row))
                => IsFromStripe(changes[c].sub, Changed(row, c))
<1>. DEFINE s == changes[c].sub
            action == changes[c].action
            t == changes[c].target
            new == Changed(row, c)
<1>1. /\ action \in ChangeActions /\ t \in Targets(action)
  <2>1. changes[c] \in ChangeRow
    BY DEF ChangesOK
  <2>. QED BY <2>1 DEF ChangesOK, ChangeRow
<1>2. s \in StripeSubs /\ Mirrored(c) /\ action \in StripeActions =>
         (\E copy \in copies[s] : Shows(copy, c)) \/ c \in Skipped(s, action)
  BY DEF Mirrored, NeedsStripe, Skipped
<1>3. /\ row.plan \in Plans /\ row.status \in SubscriptionStatuses /\ row.ends \in When
      /\ row.trial \in When /\ row.grace \in When /\ row.quantity \in Quantities \cup {1}
      /\ row.cancelAtEnd \in BOOLEAN
  BY DEF Subscription
<1>4. CASE action = "change_plan"
  <2>1. t \in Plans /\ new = [row EXCEPT !.plan = t]
    BY <1>1, <1>4 DEF Targets, Changed
  <2>2. new \in Subscription /\ new.status = row.status /\ new.quantity = row.quantity
        /\ new.cancelAtEnd = row.cancelAtEnd
    BY <2>1 DEF Subscription
  <2>. QED BY <2>2 DEF IsFromStripe
<1>5. CASE action = "change_quantity"
  <2>1. t \in Quantities /\ new = [row EXCEPT !.quantity = t]
    BY <1>1, <1>5 DEF Targets, Changed
  <2>2. new \in Subscription /\ new.status = row.status /\ new.quantity = t
        /\ new.cancelAtEnd = row.cancelAtEnd
    BY <2>1 DEF Subscription
  <2>. QED BY <1>2, <1>5, <2>1, <2>2 DEF IsFromStripe, Shows, StripeActions
<1>6. CASE action = "cancel_at_period_end"
  <2>1. new = [row EXCEPT !.cancelAtEnd = TRUE]
    BY <1>6 DEF Changed
  <2>2. new \in Subscription /\ new.status = row.status /\ new.quantity = row.quantity
    BY <2>1 DEF Subscription
  <2>. QED BY <1>2, <1>6, <2>1, <2>2 DEF IsFromStripe, Shows, StripeActions
<1>7. CASE action = "cancel_now"
  <2>1. new = [row EXCEPT !.status = "cancelled", !.ends = "past"]
    BY <1>7 DEF Changed
  <2>2. new \in Subscription /\ new.cancelAtEnd = row.cancelAtEnd /\ new.quantity = row.quantity
    BY <2>1 DEF Subscription, SubscriptionStatuses, When
  <2>. QED BY <1>2, <1>7, <2>1, <2>2 DEF IsFromStripe, Shows, StripeActions
<1>8. CASE action = "resume"
  <2>. DEFINE status == IF row.status \in {"cancelled", "expired", "paused"}
                        THEN "active" ELSE row.status
  <2>1. new = [row EXCEPT !.cancelAtEnd = FALSE, !.status = status]
    BY <1>8 DEF Changed
  <2>2. status \in SubscriptionStatuses /\ status # "cancelled"
    BY <1>3 DEF SubscriptionStatuses
  <2>. HIDE DEF status
  <2>3. new \in Subscription /\ new.status = status /\ ~ new.cancelAtEnd
        /\ new.quantity = row.quantity
    BY <2>1, <2>2 DEF Subscription
  <2>. QED BY <2>2, <2>3 DEF IsFromStripe
<1>9. CASE action = "extend_trial"
  <2>1. t \in When /\ new = [row EXCEPT !.status = "trialing", !.trial = t]
    BY <1>1, <1>9 DEF Targets, Changed, When
  <2>2. /\ new \in Subscription /\ new.status = "trialing" /\ new.quantity = row.quantity
        /\ new.cancelAtEnd = row.cancelAtEnd
    BY <2>1 DEF Subscription, SubscriptionStatuses
  <2>. QED BY <2>2 DEF IsFromStripe
<1>10. CASE action = "extend_grace"
  <2>1. t \in When /\ new = [row EXCEPT !.grace = t]
    BY <1>1, <1>10 DEF Targets, Changed, When
  <2>2. new \in Subscription /\ new.status = row.status /\ new.quantity = row.quantity
        /\ new.cancelAtEnd = row.cancelAtEnd
    BY <2>1 DEF Subscription
  <2>. QED BY <2>2 DEF IsFromStripe
<1>. QED BY <1>1, <1>4, <1>5, <1>6, <1>7, <1>8, <1>9, <1>10 DEF ChangeActions

LEMMA SaveStep ==
    ASSUME SubInv, NEW w \in Workers, SaveSubscription(w) PROVE SubInv'
<1>1. PICK c, s, mine : c = request[w].change /\ s = changes[c].sub /\ mine = request[w].row
  OBVIOUS
<1>2. PICK new : new = Changed(mine, c)
  OBVIOUS
<1>3. /\ Holds(w, "apply") /\ request[w] \in ApplyRequest /\ c \in DOMAIN changes
      /\ changes[c] \in ChangeRow /\ (s \in StripeSubs => IsFromStripe(s, mine))
      /\ ApplyOrder[request[w].at] = "save" /\ (request[w].at > 1 => Mirrored(c))
  BY <1>1, ApplyIsHeld DEF SaveSubscription, NextStep
<1>4. request[w].at = 2 /\ mine \in Subscription /\ s \in Subs
  BY <1>1, <1>3 DEF ApplyOrder, StripeFirst, ApplyRequest, ChangeRow
<1>5. Mirrored(c)
  BY <1>3, <1>4
<1>6. new \in Subscription /\ (s \in StripeSubs => IsFromStripe(s, new))
  BY <1>1, <1>2, <1>3, <1>4, <1>5, ChangedIsFromStripe DEF SubInv
<1>7. /\ subscription' = [subscription EXCEPT ![s] = new] /\ GoOn(w) /\ Regranted
      /\ UNCHANGED <<entitlements, addOns, stripeVars, changes, cacheVars, pageVars>>
  BY <1>1, <1>2 DEF SaveSubscription
<1>8. Grows
  BY <1>7, NothingNew DEF SubInv, stripeVars
<1>9. PICK held : held.op = "apply" /\ Proceed(w, held) /\ HeldOK(held)'
  <2>1. Mirrored(c)'
    BY <1>3, <1>5, <1>8, MirroredStays
  <2>. QED BY <1>1, <1>3, <1>4, <1>7, <1>8, <2>1, GoneOn
<1>10. /\ RowsOK'
       /\ \A x \in Subs : subscription[x] # NoSubscription => subscription'[x] # NoSubscription
  BY <1>4, <1>6, <1>7, <1>8, RowSaved DEF SubInv
<1>11. ChangesOK' /\ StripeOK'
  BY <1>7, <1>8, <1>10, ChangesKept, StripeKept DEF SubInv
<1>12. SnapshotOK'
  BY <1>7, <1>10, SnapshotRegranted DEF SubInv, SnapshotOK, TablesAfter
<1>. QED BY <1>7, <1>8, <1>9, <1>10, <1>11, <1>12, WorkerStep

LEMMA MarkStep ==
    ASSUME SubInv, NEW w \in Workers, MarkApplied(w) PROVE SubInv'
<1>1. PICK c : c = request[w].change
  OBVIOUS
<1>2. /\ Holds(w, "apply") /\ request[w] \in ApplyRequest /\ c \in DOMAIN changes
      /\ changes[c] \in ChangeRow /\ ApplyOrder[request[w].at] = "mark"
      /\ (request[w].at > 1 => Mirrored(c))
  BY <1>1, ApplyIsHeld DEF MarkApplied, NextStep
<1>3. request[w].at = 3
  BY <1>2 DEF ApplyOrder, StripeFirst, ApplyRequest
<1>4. /\ changes' = [changes EXCEPT ![c].status = "applied"] /\ GoOn(w)
      /\ UNCHANGED <<rowVars, stripeVars, cacheVars, since, pageVars>>
  BY <1>1 DEF MarkApplied
<1>5. /\ changes' \in Seq(ChangeRow) /\ DOMAIN changes' = DOMAIN changes
      /\ \A x \in DOMAIN changes : x # c => changes'[x] = changes[x]
      /\ changes'[c] = [changes[c] EXCEPT !.status = "applied"]
  <2>1. [changes[c] EXCEPT !.status = "applied"] \in ChangeRow
    BY <1>2 DEF ChangeRow, ChangeStatuses
  <2>. QED BY <1>2, <1>4, <2>1, RowReplaced DEF SubInv, ChangesOK
<1>6. Grows
  BY <1>2, <1>4, <1>5 DEF Grows, SubInv, StripeOK, ChangeRow, stripeVars
<1>7. Mirrored(c)'
  BY <1>2, <1>3, <1>6, MirroredStays
<1>8. PICK held : held.op = "apply" /\ Proceed(w, held) /\ HeldOK(held)'
  BY <1>1, <1>2, <1>3, <1>4, <1>6, <1>7, GoneOn
<1>9. subscription' = subscription
  BY <1>4 DEF rowVars
<1>10. ChangesOK'
  <2>. SUFFICES ASSUME NEW x \in DOMAIN changes
                PROVE  /\ changes'[x].target \in Targets(changes'[x].action)
                       /\ subscription'[changes'[x].sub] # NoSubscription
                       /\ changes'[x].status = "applied" => Mirrored(x)'
    BY <1>5 DEF ChangesOK
  <2>1. CASE x = c
    BY <1>2, <1>5, <1>7, <1>9, <2>1 DEF SubInv, ChangesOK, ChangeRow
  <2>2. CASE x # c
    BY <1>5, <1>6, <1>9, <2>2, MirroredStays DEF SubInv, ChangesOK
  <2>. QED BY <2>1, <2>2
<1>11. StripeOK' /\ RowsOK' /\ SnapshotOK'
  BY <1>4, <1>6, <1>9, StripeKept, RowsKept, SnapshotKept DEF SubInv
<1>. QED BY <1>4, <1>6, <1>8, <1>10, <1>11, WorkerStep

(* The two ends of an application: the snapshot is invalidated and its     *)
(* promise made, or the worker dies and promises nothing.                  *)
LEMMA InvalidateStep ==
    ASSUME SubInv, NEW w \in Workers, InvalidateSnapshot(w) PROVE SubInv'
<1>1. /\ cached' = Invalidated /\ End(w) /\ Promised
      /\ UNCHANGED <<rowVars, stripeVars, changes, fresh, pageVars>>
  BY DEF InvalidateSnapshot
<1>2. UNCHANGED <<subscription, entitlements, addOns, copies>>
  BY <1>1 DEF rowVars, stripeVars
<1>3. Grows
  BY <1>1, <1>2, NothingNew DEF SubInv
<1>4. StripeOK' /\ ChangesOK' /\ RowsOK'
  BY <1>1, <1>2, <1>3, StripeKept, ChangesKept, RowsKept DEF SubInv
<1>5. SnapshotOK'
  BY <1>1, <1>2, <1>4, SnapshotPromised DEF SubInv, SnapshotOK, TablesAfter
<1>. QED BY <1>1, <1>3, <1>4, <1>5, EndsStep

LEMMA DieStep ==
    ASSUME SubInv, NEW w \in Workers, Die(w) PROVE SubInv'
<1>1. End(w) /\ UNCHANGED subVars
  BY DEF Die, Abandon
<1>2. UNCHANGED <<subscription, rowVars, stripeVars, copies, changes, cacheVars, since, pageVars>>
  BY <1>1 DEF subVars, rowVars, stripeVars, cacheVars, pageVars
<1>3. Grows
  BY <1>2, NothingNew DEF SubInv
<1>4. StripeOK' /\ ChangesOK' /\ RowsOK' /\ SnapshotOK'
  BY <1>2, <1>3, StripeKept, ChangesKept, RowsKept, SnapshotKept DEF SubInv
<1>. QED BY <1>1, <1>2, <1>3, <1>4, EndsStep

-----------------------------------------------------------------------------
tableVars == <<rowVars, stripeVars, changes, cacheVars, since>>

LEMMA PageStep ==
    ASSUME SubInv, NEW w \in Workers,
           \/ \E kind \in {"checkout", "portal"} : OpenPage(w, kind)
           \/ EnsureCustomer(w) \/ SaveCustomer(w) \/ StoreSession(w)
    PROVE  SubInv'
<1>. SUFFICES ASSUME PagesOK', UNCHANGED tableVars, request[w].op \in {"page", "idle"},
                     NEW held, held.op \in {"page", "idle"}, Begin(w, held) \/ Proceed(w, held)
              PROVE  SubInv'
  <2>1. ASSUME NEW kind \in {"checkout", "portal"}, OpenPage(w, kind) PROVE SubInv'
    <3>. DEFINE held == [op |-> "page", kind |-> kind, customer |-> customerId,
                         stored |-> customerId # 0]
    <3>4. customerId \in Nat
      BY DEF SubInv, PagesOK, BillingCustomer
    <3>5. /\ held.op = "page" /\ held \in PageRequest
          /\ held.customer = customerId /\ (held.stored => customerId # 0)
      BY <3>4 DEF PageRequest
    <3>6. /\ Begin(w, held) /\ request[w].op = "idle"
          /\ UNCHANGED <<tableVars, pageVars>>
      BY <2>1 DEF OpenPage, subVars, tableVars, pageVars, Begin, Idle
    <3>1. /\ Begin(w, held) /\ held.op = "page" /\ held \in PageRequest
          /\ held.customer = customerId /\ (held.stored => customerId # 0)
          /\ UNCHANGED <<tableVars, pageVars>> /\ request[w].op = "idle"
      BY <3>5, <3>6
    <3>. HIDE DEF held
    <3>2. request'[w] = held /\ \A v \in Workers : v # w => request'[v] = request[v]
      BY <3>1, HeldNext DEF SubInv
    <3>3. PagesOK'
      BY <3>1, <3>2 DEF SubInv, PagesOK, Holds, pageVars, BillingCustomer
    <3>. QED BY <3>1, <3>3 DEF Holds
  <2>2. ASSUME EnsureCustomer(w) PROVE SubInv'
    <3>. DEFINE held == [request[w] EXCEPT !.customer = stripeCustomers + 1]
    <3>1. request[w] \in PageRequest /\ ~ request[w].stored
      BY <2>2 DEF EnsureCustomer, SubInv, PagesOK
    <3>2. /\ held \in PageRequest /\ held.op = "page" /\ ~ held.stored
          /\ held.customer = stripeCustomers + 1
      BY <3>1 DEF PageRequest, SubInv, PagesOK
    <3>4. /\ Proceed(w, held) /\ stripeCustomers' = stripeCustomers + 1 /\ Holds(w, "page")
          /\ UNCHANGED <<tableVars, customerId, sessions>>
      BY <2>2 DEF EnsureCustomer, tableVars
    <3>. HIDE DEF held
    <3>3. request'[w] = held /\ \A v \in Workers : v # w => request'[v] = request[v]
      BY <3>4, HeldNext DEF SubInv
    <3>6. /\ stripeCustomers' \in Nat /\ BillingCustomer \subseteq BillingCustomer'
          /\ stripeCustomers + 1 \in BillingCustomer' /\ stripeCustomers + 1 # 0
      BY <3>4 DEF SubInv, PagesOK, BillingCustomer
    <3>7. sessions' \subseteq Page /\ \A p \in sessions' : p.customer <= stripeCustomers'
      BY <3>4 DEF SubInv, PagesOK, Page
    <3>8. \A v \in Workers : (Holds(v, "page"))' =>
             /\ request'[v] \in PageRequest /\ request'[v].customer \in BillingCustomer'
             /\ request'[v].stored => request'[v].customer # 0
      BY <3>2, <3>3, <3>6 DEF SubInv, PagesOK, Holds
    <3>5. PagesOK'
      BY <3>4, <3>6, <3>7, <3>8 DEF SubInv, PagesOK
    <3>. QED BY <3>2, <3>4, <3>5 DEF Holds
  <2>3. ASSUME SaveCustomer(w) PROVE SubInv'
    <3>. DEFINE held == [request[w] EXCEPT !.stored = TRUE]
    <3>4. request[w] \in PageRequest
      BY <2>3 DEF SaveCustomer, SubInv, PagesOK
    <3>1. /\ Proceed(w, held) /\ held.op = "page" /\ held \in PageRequest
          /\ held.customer = request[w].customer /\ request[w].op = "page"
          /\ request[w].customer # 0 /\ customerId' = request[w].customer
          /\ UNCHANGED <<tableVars, stripeCustomers, sessions>>
      BY <2>3, <3>4 DEF SaveCustomer, tableVars, Holds, PageRequest
    <3>. HIDE DEF held
    <3>2. request'[w] = held /\ \A v \in Workers : v # w => request'[v] = request[v]
      BY <3>1, HeldNext DEF SubInv
    <3>3. PagesOK'
      BY <3>1, <3>2 DEF SubInv, PagesOK, Holds, BillingCustomer
    <3>. QED BY <3>1, <3>3 DEF Holds
  <2>4. ASSUME StoreSession(w) PROVE SubInv'
    <3>. DEFINE p == [kind |-> request[w].kind, customer |-> request[w].customer]
    <3>1. /\ Holds(w, "page") /\ request[w].stored /\ End(w)
          /\ request[w] \in PageRequest /\ sessions' = sessions \cup {p}
          /\ UNCHANGED <<tableVars, stripeCustomers, customerId>>
      BY <2>4 DEF StoreSession, tableVars, SubInv, PagesOK
    <3>2. p \in Page /\ p.customer <= stripeCustomers
      BY <3>1 DEF SubInv, PagesOK, Page, PageRequest, BillingCustomer
    <3>. HIDE DEF p
    <3>3. Spares({"page"})
      BY <3>1, EndSpares DEF SubInv
    <3>4. PagesOK'
      BY <3>1, <3>2, <3>3 DEF SubInv, PagesOK, Spares, Holds, BillingCustomer
    <3>. QED BY <3>1, <3>4 DEF Holds, End, Idle
  <2>. QED BY <2>1, <2>2, <2>3, <2>4
<1>1. RequestsOK' /\ request'[w] = held /\ \A v \in Workers : v # w => request'[v] = request[v]
  BY HeldNext DEF SubInv
<1>2. UNCHANGED <<subscription, rowVars, stripeVars, copies, changes, cacheVars, since>>
  BY DEF tableVars, rowVars, stripeVars
<1>3. Grows
  BY <1>2, NothingNew DEF SubInv
<1>4. \A v \in Workers : HeldOK(request[v])'
  <2>. SUFFICES ASSUME NEW v \in Workers PROVE HeldOK(request[v])'
    OBVIOUS
  <2>1. PICK mine : mine = request'[v]
    OBVIOUS
  <2>2. mine.op \in {"page", "idle"} \/ HeldOK(mine)
    BY <1>1, <2>1 DEF SubInv
  <2>3. HeldOK(mine)'
    BY <1>3, <2>2, HeldStays DEF HeldOK
  <2>. QED BY <2>1, <2>3 DEF HeldOK
<1>5. StripeOK' /\ ChangesOK' /\ RowsOK' /\ SnapshotOK'
  BY <1>2, <1>3, StripeKept, ChangesKept, RowsKept, SnapshotKept DEF SubInv
<1>. QED BY <1>1, <1>4, <1>5 DEF SubInv

LEMMA ChangeNextStep == ASSUME SubInv, ChangeNext PROVE SubInv'
<1>1. ASSUME NEW s \in LocalSubs, NEW p \in Plans, NEW ends \in {"never", "future"},
             GrantManual(s, p, "free", ends)
      PROVE  SubInv'
  BY <1>1, GrantManualStep
<1>2. ASSUME NEW o \in Owners, CreateEntitlement(o) PROVE SubInv'
  BY <1>2, CreateEntitlementStep
<1>3. ASSUME NEW s \in Subs,
             \/ PeriodEnds(s)
             \/ \E a \in AddOns, q \in Quantities : AttachAddOn(s, a, q)
             \/ \E action \in ChangeActions : \E t \in Targets(action), skip \in BOOLEAN :
                   RequestChange(s, action, t, skip)
      PROVE  SubInv'
  BY <1>3, PeriodEndsStep, AttachAddOnStep, RequestChangeStep
<1>4. ASSUME NEW s \in StripeSubs, NEW action \in StripeActions, NEW t \in Targets(action),
             StripeChanges(s, action, t)
      PROVE  SubInv'
  BY <1>4, StripeChangesStep
<1>5. ASSUME NEW w \in Workers,
             \/ ReadRows(w) \/ StoreSnapshot(w)
             \/ \E s \in StripeSubs : \E copy \in copies[s], deleted \in BOOLEAN,
                   ends \in EventEnds : TakeEvent(w, s, copy, deleted, ends)
             \/ \E processed \in BOOLEAN : CommitEvent(w, processed)
      PROVE  SubInv'
  BY <1>5, RecalculateStep, TakeEventStep, CommitEventStep
<1>6. ASSUME NEW w \in Workers,
             \/ \E c \in DOMAIN changes : StartApply(w, c)
             \/ StripeAccepts(w) \/ SaveSubscription(w) \/ MarkApplied(w)
             \/ InvalidateSnapshot(w) \/ Die(w)
             \/ \E late \in BOOLEAN : StripeFails(w, late)
      PROVE  SubInv'
  BY <1>6, StartApplyStep, StripeAcceptsStep, SaveStep, MarkStep, InvalidateStep, DieStep,
     StripeFailsStep
<1>. QED BY <1>1, <1>2, <1>3, <1>4, <1>5, <1>6 DEF ChangeNext

LEMMA StepSubInv == SubInv /\ [SubNext]_<<requestVars, subVars>> => SubInv'
<1>. SUFFICES ASSUME SubInv, [SubNext]_<<requestVars, subVars>> PROVE SubInv'
  OBVIOUS
<1>1. CASE UNCHANGED <<requestVars, subVars>>
  <2>1. /\ request' = request
        /\ UNCHANGED <<subscription, rowVars, stripeVars, copies, changes, cacheVars, since>>
        /\ UNCHANGED pageVars
    BY <1>1 DEF requestVars, subVars, rowVars, stripeVars, cacheVars, pageVars
  <2>2. Grows
    BY <2>1, NothingNew DEF SubInv
  <2>3. StripeOK' /\ ChangesOK' /\ RowsOK' /\ SnapshotOK'
    BY <2>1, <2>2, StripeKept, ChangesKept, RowsKept, SnapshotKept DEF SubInv
  <2>. QED BY <2>1, <2>2, <2>3, ServesStep
<1>2. CASE SubNext
  <2>1. ASSUME NEW w \in Workers,
               \/ \E kind \in {"checkout", "portal"} : OpenPage(w, kind)
               \/ EnsureCustomer(w) \/ SaveCustomer(w) \/ StoreSession(w)
        PROVE  SubInv'
    BY <2>1, PageStep
  <2>. QED BY <1>2, <2>1, ChangeNextStep DEF SubNext, PageNext
<1>. QED BY <1>1, <1>2

(* What subscriptions, snapshots, pages and the requests in flight hold at *)
(* every moment.                                                           *)
THEOREM SubInvariance == SubSpec => []SubInv
BY InitSubInv, StepSubInv, PTL DEF SubSpec

(* A change of quantity or cancellation of a Stripe subscription is APPLIED*)
(* only after Stripe's copy has shown it, and the row says of the two only *)
(* what that copy has said before or skip_provider_sync asked for, whatever*)
(* order webhooks and applications overlap in and wherever one fails or    *)
(* dies (billing/services.py:120-166).  Plan, trial and grace are local.   *)
THEOREM ProviderColumnsAreStripes == SubSpec => []ProviderColumnsCameFromStripe
<1>1. SubInv => ProviderColumnsCameFromStripe
  BY DEF SubInv, ChangesOK, RowsOK, ProviderColumnsCameFromStripe
<1>. QED BY SubInvariance, <1>1, PTL

(* Once an add-on is attached or a change applied, no payload from before  *)
(* is served, unless a recalculation read it before and stored it after    *)
(* (billing/services.py:185, :410).                                        *)
THEOREM PromisesAreKept == SubSpec => []SnapshotKeepsPromises
<1>1. SubInv => SnapshotKeepsPromises
  BY DEF SubInv, SnapshotOK
<1>. QED BY SubInvariance, <1>1, PTL

-----------------------------------------------------------------------------
(***************************************************************************)
(* Metered usage.  A rating pays from the grants it locked and saves them  *)
(* as it computed them, so the invariant says that what it holds are the   *)
(* rows as they are, and that no other rating holds any.  That the grants  *)
(* pay no more than is due (PaidIsOwed) is an induction over their number. *)
(***************************************************************************)
AggregateRequest == [op: {"aggregate"}, window: Windows, quantity: Int]
RateRequest == [op: {"rate"}, window: Windows, quantity: Int, credit: BOOLEAN,
                at: {"line", "grants", "commit"}, grants: Seq(CreditGrant)]

LocksGrants(w) == Holds(w, "rate") /\ request[w].grants # <<>>

(* A rating that has locked the grants knows them as they are, and is the  *)
(* only one that does.                                                     *)
RatingOK(w) ==
    /\ Holds(w, "aggregate") => request[w] \in AggregateRequest
    /\ Holds(w, "rate") =>
         /\ request[w] \in RateRequest
         /\ request[w].at # "commit" => request[w].grants = <<>>
         /\ DOMAIN request[w].grants \subseteq DOMAIN grants
         /\ \A i \in DOMAIN request[w].grants : request[w].grants[i] = grants[i]
    /\ LocksGrants(w) => \A v \in Workers : v # w => ~ LocksGrants(v)

MeterInv ==
    /\ RequestsOK /\ MeterTypes /\ IsFiniteSet(events) /\ DOMAIN applied = DOMAIN grants
    /\ CreditsAreAccountedFor
    /\ \A w \in Workers : RatingOK(w)

-----------------------------------------------------------------------------
LEMMA RowsMapped ==
    ASSUME NEW S, NEW rows, rows \in Seq(S), NEW T, NEW new, new \in [DOMAIN rows -> T]
    PROVE  new \in Seq(T) /\ DOMAIN new = DOMAIN rows
OBVIOUS

LEMMA PriceType ==
    ASSUME NEW q \in Int PROVE Price(q) \in Nat
<1>1. q - FreeUnits \in Int
  BY PricesAreNumbers
<1>2. Billable(q) \in Nat
  BY <1>1, MaxOfTwo DEF Billable
<1>3. \A m \in Nat, n \in Nat : m * n \in Nat
  OBVIOUS
<1>. QED BY <1>2, <1>3, PricesAreNumbers DEF Price

(* What a grant offers.                                                    *)
LEMMA OfferType ==
    ASSUME NEW grant \in CreditGrant
    PROVE  /\ Offer(grant) \in Nat /\ Offer(grant) <= grant.remaining
           /\ Offer(grant) > 0 => grant.status = "active"
<1>1. grant.remaining \in Nat
  BY DEF CreditGrant
<1>. QED BY <1>1 DEF Offer

(* What the grants pay: none more than it offers, together no more than is *)
(* due.                                                                    *)
LEMMA PaidIsOwed ==
    ASSUME NEW due \in Nat, NEW from \in Seq(CreditGrant)
    PROVE  /\ Paid(due, from) \in [DOMAIN from -> Nat]
           /\ \A i \in DOMAIN from : Paid(due, from)[i] <= Offer(from[i])
           /\ SumFunction(Paid(due, from)) \in 0 .. due
<1>. DEFINE rem == [j \in DOMAIN from |-> Offer(from[j])]
            paid == Paid(due, from)
            Left(n) == SumFunctionOnSet(rem, 1 .. n)
            T == {n \in Nat : n <= Len(from) =>
                    SumFunctionOnSet(paid, 1 .. n) = IF due <= Left(n) THEN due ELSE Left(n)}
<1>1. /\ Len(from) \in Nat /\ DOMAIN from = 1 .. Len(from)
      /\ \A j \in DOMAIN from : rem[j] \in Nat /\ rem[j] = Offer(from[j])
  <2>1. \A j \in DOMAIN from : from[j] \in CreditGrant
    OBVIOUS
  <2>2. \A j \in DOMAIN from : Offer(from[j]) \in Nat
    BY <2>1, OfferType
  <2>. HIDE DEF T, Left, paid
  <2>. QED BY <2>2
<1>2. ASSUME NEW n \in Nat, n <= Len(from)
      PROVE  Left(n) \in Nat /\ IsFiniteSet(1 .. n) /\ 1 .. n \subseteq DOMAIN from
  <2>1. IsFiniteSet(1 .. n) /\ 1 .. n \subseteq DOMAIN from
    BY <1>1, <1>2, FS_Interval
  <2>. HIDE DEF rem
  <2>. QED BY <1>1, <2>1, SumOfNaturals
<1>3. ASSUME NEW n \in Nat, n + 1 <= Len(from)
      PROVE  /\ n + 1 \in DOMAIN from
             /\ paid[n + 1] = IF due <= Left(n) THEN 0
                              ELSE IF rem[n + 1] <= due - Left(n) THEN rem[n + 1]
                              ELSE due - Left(n)
  <2>1. n + 1 \in DOMAIN from /\ n <= Len(from) /\ (n + 1) - 1 = n
    BY <1>1, <1>3
  <2>2. paid[n + 1] = Min({rem[n + 1], Max({due - Left(n), 0})})
    BY <1>1, <2>1 DEF Paid, Before
  <2>3. Left(n) \in Nat /\ rem[n + 1] \in Nat
    BY <1>1, <1>2, <2>1
  <2>. HIDE DEF Left, rem, paid
  <2>4. Max({due - Left(n), 0}) = IF due - Left(n) >= 0 THEN due - Left(n) ELSE 0
    BY <2>3, MaxOfTwo
  <2>5. Max({due - Left(n), 0}) \in Nat
    BY <2>3, <2>4
  <2>6. PICK a \in Int : a = rem[n + 1]
    BY <2>3
  <2>7. PICK b \in Int : b = Max({due - Left(n), 0})
    BY <2>5
  <2>8. paid[n + 1] = IF a <= b THEN a ELSE b
    BY <2>2, <2>6, <2>7, MinOfTwo
  <2>9. PICK l \in Nat : l = Left(n)
    BY <2>3
  <2>10. b = IF due - l >= 0 THEN due - l ELSE 0
    BY <2>4, <2>7, <2>9
  <2>11. a \in Nat
    BY <2>3, <2>6
  <2>12. paid[n + 1] = IF due <= l THEN 0 ELSE IF a <= due - l THEN a ELSE due - l
    BY <2>8, <2>10, <2>11
  <2>. QED BY <2>1, <2>6, <2>9, <2>12
<1>4. ASSUME NEW i \in DOMAIN from PROVE paid[i] \in Nat /\ paid[i] <= Offer(from[i])
  <2>1. i - 1 \in Nat /\ (i - 1) + 1 = i /\ i <= Len(from) /\ i - 1 <= Len(from)
    BY <1>1
  <2>2. PICK n \in Nat : n = i - 1
    BY <2>1
  <2>3. Left(n) \in Nat /\ rem[i] \in Nat /\ rem[i] = Offer(from[i]) /\ n + 1 = i
    BY <1>1, <1>2, <2>1, <2>2
  <2>. HIDE DEF Left, rem, paid
  <2>4. paid[i] = IF due <= Left(n) THEN 0
                  ELSE IF rem[i] <= due - Left(n) THEN rem[i] ELSE due - Left(n)
    BY <1>3, <2>1, <2>3
  <2>. QED BY <2>3, <2>4
<1>5. paid \in [DOMAIN from -> Nat]
  BY <1>4 DEF Paid
<1>6. 0 \in T
  <2>1. 1 .. 0 = {}
    OBVIOUS
  <2>2. SumFunctionOnSet(paid, 1 .. 0) = 0 /\ Left(0) = 0
    BY <2>1, SumOfNone
  <2>. QED BY <2>2
<1>7. ASSUME NEW n \in Nat, n \in T PROVE n + 1 \in T
  <2>. SUFFICES ASSUME n + 1 <= Len(from)
                PROVE  SumFunctionOnSet(paid, 1 .. (n + 1))
                         = IF due <= Left(n + 1) THEN due ELSE Left(n + 1)
    OBVIOUS
  <2>1. /\ 1 .. (n + 1) = (1 .. n) \cup {n + 1} /\ n + 1 \notin 1 .. n
        /\ n <= Len(from) /\ n + 1 \in Nat
    BY <1>1
  <2>2. 1 .. (n + 1) \subseteq DOMAIN from /\ IsFiniteSet(1 .. n)
    BY <1>2, <2>1
  <2>3. SumFunctionOnSet(paid, 1 .. (n + 1)) = paid[n + 1] + SumFunctionOnSet(paid, 1 .. n)
    <3>. HIDE DEF paid
    <3>1. \A y \in (1 .. n) \cup {n + 1} : paid[y] \in Int
      BY <1>4, <2>1, <2>2
    <3>. QED BY <2>1, <2>2, <3>1, SumGrows
  <2>4. Left(n + 1) = rem[n + 1] + Left(n)
    <3>. HIDE DEF rem
    <3>1. \A y \in (1 .. n) \cup {n + 1} : rem[y] \in Int
      BY <1>1, <2>1, <2>2
    <3>. QED BY <2>1, <2>2, <3>1, SumGrows
  <2>5. Left(n) \in Nat /\ rem[n + 1] \in Nat
    BY <1>1, <1>2, <1>3, <2>1
  <2>6. SumFunctionOnSet(paid, 1 .. n) = IF due <= Left(n) THEN due ELSE Left(n)
    BY <1>7, <2>1
  <2>7. paid[n + 1] = IF due <= Left(n) THEN 0
                      ELSE IF rem[n + 1] <= due - Left(n) THEN rem[n + 1]
                      ELSE due - Left(n)
    BY <1>3
  <2>. HIDE DEF Left, rem, paid
  <2>8. PICK l \in Nat : l = Left(n)
    BY <2>5
  <2>9. PICK r \in Nat : r = rem[n + 1]
    BY <2>5
  <2>10. PICK p : p = paid[n + 1]
    OBVIOUS
  <2>11. PICK q : q = SumFunctionOnSet(paid, 1 .. n)
    OBVIOUS
  <2>12. /\ p = IF due <= l THEN 0 ELSE IF r <= due - l THEN r ELSE due - l
         /\ q = IF due <= l THEN due ELSE l
    BY <2>6, <2>7, <2>8, <2>9, <2>10, <2>11
  <2>13. p + q = IF due <= r + l THEN due ELSE r + l
    BY <2>12
  <2>14. SumFunctionOnSet(paid, 1 .. (n + 1)) = p + q /\ Left(n + 1) = r + l
    BY <2>3, <2>4, <2>8, <2>9, <2>10, <2>11
  <2>. QED BY <2>13, <2>14
<1>. HIDE DEF T
<1>8. Len(from) \in T
  BY <1>1, <1>6, <1>7, NumberInduction
<1>9. DOMAIN paid = 1 .. Len(from)
  BY <1>1 DEF Paid
<1>10. SumFunctionOnSet(paid, 1 .. Len(from)) \in 0 .. due
  <2>1. Left(Len(from)) \in Nat
    BY <1>1, <1>2
  <2>. HIDE DEF Left, paid
  <2>. QED BY <1>1, <1>8, <2>1 DEF T
<1>. HIDE DEF paid
<1>. QED BY <1>4, <1>5, <1>9, <1>10 DEF SumFunction, paid

-----------------------------------------------------------------------------
LEMMA InitMeterInv == RequestsInit /\ MeterInit => MeterInv
<1>. SUFFICES ASSUME RequestsInit, MeterInit PROVE MeterInv
  OBVIOUS
<1>1. RequestsOK /\ \A w \in Workers : RatingOK(w)
  BY DEF RequestsInit, RequestsOK, RatingOK, LocksGrants, Holds, Idle
<1>2. IsFiniteSet(events)
  BY FS_EmptySet DEF MeterInit
<1>3. DOMAIN grants = {} /\ DOMAIN applied = {}
  BY DEF MeterInit
<1>4. MeterTypes
  <2>1. NoLine \in RatedUsageLine
    BY DEF NoLine, RatedUsageLine
  <2>. QED BY <2>1 DEF MeterTypes, MeterInit
<1>5. \A x \in Windows : lines[x] = NoLine
  BY DEF MeterInit
<1>6. CreditsAreAccountedFor
  <2>1. ASSUME NEW x \in Windows PROVE lines[x].credited <= CreditsTaken(x)
    <3>. DEFINE fun == [i \in DOMAIN applied |-> applied[i][x]]
    <3>1. DOMAIN fun = {}
      BY <1>3
    <3>. HIDE DEF fun
    <3>2. SumFunction(fun) = 0
      BY <3>1, SumOfNone DEF SumFunction
    <3>. QED BY <1>5, <3>2 DEF NoLine, CreditsTaken, fun
  <2>. QED BY <1>3, <1>5, <2>1 DEF CreditsAreAccountedFor
<1>. QED BY <1>1, <1>2, <1>3, <1>4, <1>6 DEF MeterInv

(* Parts of what the grants have paid for a window are no more than that.  *)
LEMMA TakenFrom ==
    ASSUME NEW rows, rows \in Seq(CreditApplication), NEW x \in Windows,
           NEW A \in SUBSET DOMAIN rows, NEW some,
           \A i \in A : some[i] \in Nat /\ some[i] <= rows[i][x]
    PROVE  /\ SumFunctionOnSet(some, A) <= SumFunction([i \in DOMAIN rows |-> rows[i][x]])
           /\ SumFunction([i \in DOMAIN rows |-> rows[i][x]]) \in Nat
<1>. DEFINE all == [i \in DOMAIN rows |-> rows[i][x]]
<1>1. DOMAIN rows = 1 .. Len(rows) /\ Len(rows) \in Nat
  OBVIOUS
<1>2. IsFiniteSet(DOMAIN rows)
  <2>1. 1 \in Int /\ Len(rows) \in Int
    BY <1>1
  <2>2. IsFiniteSet(1 .. Len(rows))
    BY <2>1, FS_Interval
  <2>. QED BY <1>1, <2>2
<1>3. \A i \in DOMAIN rows : rows[i] \in [Windows -> Nat]
  <2>1. \A i \in DOMAIN rows : rows[i] \in CreditApplication
    OBVIOUS
  <2>. QED BY <2>1 DEF CreditApplication
<1>4. DOMAIN all = DOMAIN rows /\ \A i \in DOMAIN rows : all[i] \in Nat /\ all[i] = rows[i][x]
  BY <1>3
<1>. HIDE DEF all
<1>5. SumFunctionOnSet(some, A) <= SumFunctionOnSet(all, DOMAIN rows)
  BY <1>2, <1>4, SumOfFewer
<1>6. SumFunctionOnSet(all, DOMAIN rows) \in Nat
  BY <1>2, <1>4, SumOfNaturals
<1>. QED BY <1>4, <1>5, <1>6 DEF SumFunction, all

(* The grants that are there stay as they are.                             *)
GrantsKept == \A i \in DOMAIN grants : i \in DOMAIN grants' /\ grants'[i] = grants[i]

LEMMA RatingsKept ==
    ASSUME MeterInv, request' = request, GrantsKept
    PROVE  RequestsOK' /\ \A v \in Workers : RatingOK(v)'
<1>1. RequestsOK'
  BY DEF MeterInv, RequestsOK
<1>2. ASSUME NEW v \in Workers PROVE RatingOK(v)'
  <2>1. RatingOK(v)
    BY DEF MeterInv
  <2>2. /\ Holds(v, "aggregate")' <=> Holds(v, "aggregate")
        /\ Holds(v, "rate")' <=> Holds(v, "rate")
        /\ \A u \in Workers : LocksGrants(u)' <=> LocksGrants(u)
    BY DEF Holds, LocksGrants
  <2>. QED BY <2>1, <2>2 DEF RatingOK, GrantsKept
<1>. QED BY <1>1, <1>2

(* One worker goes on with what fits; the others hold what they held.      *)
LEMMA RatingsGoOn ==
    ASSUME MeterInv, GrantsKept, NEW w \in Workers, NEW held,
           request'[w] = held, \A v \in Workers : v # w => request'[v] = request[v],
           held.op = "aggregate" => held \in AggregateRequest,
           held.op = "rate" =>
             /\ held \in RateRequest
             /\ held.at # "commit" => held.grants = <<>>
             /\ DOMAIN held.grants \subseteq DOMAIN grants
             /\ \A i \in DOMAIN held.grants : held.grants[i] = grants[i]
             /\ held.grants # <<>> => \A v \in Workers : v # w => ~ LocksGrants(v)
    PROVE  \A v \in Workers : RatingOK(v)'
<1>1. \A v \in Workers : v # w => (LocksGrants(v)' <=> LocksGrants(v))
  BY DEF LocksGrants, Holds
<1>2. LocksGrants(w)' => \A v \in Workers : v # w => ~ LocksGrants(v)
  BY DEF LocksGrants, Holds
<1>3. RatingOK(w)'
  BY <1>1, <1>2 DEF RatingOK, Holds, GrantsKept
<1>4. ASSUME NEW v \in Workers, v # w PROVE RatingOK(v)'
  <2>1. RatingOK(v) /\ request'[v] = request[v]
    BY <1>4 DEF MeterInv
  <2>2. LocksGrants(v)' => \A u \in Workers : u # v => ~ LocksGrants(u)'
    BY <1>1, <1>2, <1>4, <2>1 DEF RatingOK
  <2>. QED BY <2>1, <2>2 DEF RatingOK, Holds, GrantsKept
<1>. QED BY <1>3, <1>4

LEMMA AggregatedType ==
    ASSUME MeterInv, NEW x \in Windows PROVE Aggregated(x) \in Int
<1>. DEFINE inside == {e \in events : e.window = x}
            units == [e \in inside |-> e.quantity]
<1>1. IsFiniteSet(inside)
  BY FS_Subset DEF MeterInv
<1>2. \A e \in inside : e.quantity \in Int
  BY DEF MeterInv, MeterTypes, UsageEvent
<1>3. SumFunction(units) \in Int
  <2>1. DOMAIN units = inside /\ \A e \in inside : units[e] \in Int
    BY <1>2
  <2>. HIDE DEF inside, units
  <2>2. SumFunctionOnSet(units, inside) \in Int
    BY <1>1, <2>1, SumIsCount
  <2>. QED BY <2>1, <2>2 DEF SumFunction
<1>4. CASE inside # {}
  <2>. DEFINE readings == {e.quantity : e \in inside}
  <2>1. readings \in SUBSET Int /\ readings # {}
    BY <1>2, <1>4
  <2>2. IsFiniteSet(readings)
    <3>1. units \in Surjection(inside, readings)
      BY DEF Surjection
    <3>. HIDE DEF inside, units, readings
    <3>. QED BY <1>1, <3>1, FS_Surjection
  <2>. HIDE DEF readings
  <2>3. Max(readings) \in Int
    BY <2>1, <2>2, MaxIsOne
  <2>. QED BY <1>3, <1>4, <2>3 DEF Aggregated, readings
<1>5. CASE inside = {}
  BY <1>5 DEF Aggregated
<1>. QED BY <1>4, <1>5

-----------------------------------------------------------------------------
LEMMA IngestStep ==
    ASSUME MeterInv, NEW key \in EventKeys, NEW x \in Windows, NEW q \in EventUnits,
           Ingest(key, x, q)
    PROVE  MeterInv'
<1>1. RequestsOK' /\ \A v \in Workers : RatingOK(v)'
  BY RatingsKept DEF Ingest, requestVars, GrantsKept
<1>2. CreditsAreAccountedFor'
  BY DEF Ingest, MeterInv, CreditsAreAccountedFor, CreditsTaken
<1>3. IsFiniteSet(events') /\ events' \subseteq UsageEvent
  <2>1. [key |-> key, window |-> x, quantity |-> q] \in UsageEvent
    BY PricesAreNumbers DEF UsageEvent
  <2>2. IsFiniteSet(events \cup {[key |-> key, window |-> x, quantity |-> q]})
    BY FS_AddElement DEF MeterInv
  <2>. QED BY <2>1, <2>2 DEF Ingest, MeterInv, MeterTypes
<1>. QED BY <1>1, <1>2, <1>3 DEF Ingest, MeterInv, MeterTypes

LEMMA GrantCreditStep ==
    ASSUME MeterInv, NEW given \in NewGrants, GrantCredit(given)
    PROVE  MeterInv'
<1>. DEFINE grant == [opened |-> given.remaining, remaining |-> given.remaining,
                      status |-> given.status]
            none == [x \in Windows |-> 0]
            n == Len(grants) + 1
<1>1. /\ grants \in Seq(CreditGrant) /\ grant \in CreditGrant
      /\ applied \in Seq(CreditApplication) /\ none \in CreditApplication
      /\ Len(applied) = Len(grants)
  BY PricesAreNumbers DEF MeterInv, MeterTypes, CreditGrant, CreditApplication
<1>2. grants' = Append(grants, grant) /\ applied' = Append(applied, none)
  BY DEF GrantCredit
<1>3. /\ grant.opened = grant.remaining /\ grant.remaining \in Nat
      /\ SumFunction(none) = 0 /\ \A x \in Windows : none[x] = 0
  <2>1. DOMAIN none = Windows /\ \A x \in Windows : none[x] = 0
    OBVIOUS
  <2>. HIDE DEF none
  <2>2. SumFunctionOnSet(none, Windows) = 0
    BY <2>1, WindowsAreFinite, SumOfZeros
  <2>. QED BY <2>1, <2>2, PricesAreNumbers DEF SumFunction
<1>. HIDE DEF grant, none
<1>4. /\ grants' \in Seq(CreditGrant) /\ DOMAIN grants' = DOMAIN grants \cup {n}
      /\ n \notin DOMAIN grants /\ grants'[n] = grant
      /\ \A i \in DOMAIN grants : grants'[i] = grants[i]
  BY <1>1, <1>2, RowInserted
<1>5. /\ applied' \in Seq(CreditApplication) /\ DOMAIN applied' = DOMAIN applied \cup {n}
      /\ applied'[n] = none /\ \A i \in DOMAIN applied : applied'[i] = applied[i]
  BY <1>1, <1>2, RowInserted
<1>6. RequestsOK' /\ \A v \in Workers : RatingOK(v)'
  BY <1>4, RatingsKept DEF GrantCredit, Serve, GrantsKept
<1>. HIDE DEF n
<1>7. ASSUME NEW i \in DOMAIN grants'
      PROVE  /\ grants'[i].remaining + SumFunction(applied'[i]) = grants'[i].opened
             /\ SumFunction(applied'[i]) > 0 =>
                  grants'[i].status = IF grants'[i].remaining = 0 THEN "depleted" ELSE "active"
  <2>1. CASE i = n
    BY <1>3, <1>4, <1>5, <2>1
  <2>2. CASE i \in DOMAIN grants
    BY <1>4, <1>5, <2>2 DEF MeterInv, CreditsAreAccountedFor
  <2>. QED BY <1>4, <2>1, <2>2
<1>8. ASSUME NEW x \in Windows PROVE lines'[x].credited <= CreditsTaken(x)'
  <2>. DEFINE before == [i \in DOMAIN applied |-> applied[i][x]]
  <2>1. /\ lines' = lines /\ lines[x] \in RatedUsageLine
        /\ lines[x].credited <= CreditsTaken(x)
    BY DEF GrantCredit, MeterInv, MeterTypes, CreditsAreAccountedFor
  <2>2. /\ DOMAIN before = DOMAIN applied /\ IsFiniteSet(DOMAIN applied)
        /\ \A i \in DOMAIN applied : before[i] = applied[i][x] /\ before[i] \in Nat
    <3>1. \A i \in DOMAIN applied : applied[i] \in [Windows -> Nat]
      BY <1>1 DEF CreditApplication
    <3>2. IsFiniteSet(DOMAIN applied)
      BY <1>1, FS_Interval
    <3>. QED BY <3>1, <3>2
  <2>3. CreditsTaken(x) = SumFunctionOnSet(before, DOMAIN applied)
    BY DEF CreditsTaken, SumFunction
  <2>. HIDE DEF before
  <2>4. PICK rows : rows = applied'
    OBVIOUS
  <2>5. /\ SumFunctionOnSet(before, DOMAIN applied)
             <= SumFunction([i \in DOMAIN rows |-> rows[i][x]])
        /\ SumFunction([i \in DOMAIN rows |-> rows[i][x]]) \in Nat
    <3>1. /\ rows \in Seq(CreditApplication) /\ DOMAIN applied \in SUBSET DOMAIN rows
          /\ \A i \in DOMAIN applied : before[i] \in Nat /\ before[i] <= rows[i][x]
      BY <1>5, <2>2, <2>4
    <3>. QED BY <3>1, TakenFrom
  <2>6. CreditsTaken(x)' = SumFunction([i \in DOMAIN rows |-> rows[i][x]])
    BY <2>4 DEF CreditsTaken
  <2>7. SumFunctionOnSet(before, DOMAIN applied) \in Nat
    BY <2>2, SumOfNaturals
  <2>8. PICK c \in Nat, d \in Nat, e \in Nat :
           c = lines[x].credited /\ d = CreditsTaken(x) /\ e = CreditsTaken(x)'
    BY <2>1, <2>3, <2>5, <2>6, <2>7 DEF RatedUsageLine
  <2>. QED BY <2>1, <2>3, <2>5, <2>6, <2>8
<1>9. CreditsAreAccountedFor'
  BY <1>7, <1>8 DEF GrantCredit, MeterInv, CreditsAreAccountedFor
<1>. QED BY <1>4, <1>5, <1>6, <1>9 DEF GrantCredit, MeterInv, MeterTypes

(* The steps that write the windows only, or a row of the provider's runs. *)
LEMMA StoreWindowStep ==
    ASSUME MeterInv, NEW w \in Workers, StoreWindow(w)
    PROVE  MeterInv'
<1>1. /\ RequestsOK' /\ request'[w] = Idle
      /\ \A v \in Workers : v # w => request'[v] = request[v]
  BY HeldNext DEF StoreWindow, End, MeterInv
<1>2. \A v \in Workers : RatingOK(v)'
  BY <1>1, RatingsGoOn DEF StoreWindow, GrantsKept, Idle
<1>3. CreditsAreAccountedFor'
  BY DEF StoreWindow, MeterInv, CreditsAreAccountedFor, CreditsTaken
<1>4. request[w] \in AggregateRequest
  BY DEF StoreWindow, MeterInv, RatingOK
<1>5. windows' \in [Windows -> UsageAggregationWindow \cup {NoWindow}]
  BY <1>4 DEF StoreWindow, MeterInv, MeterTypes, AggregateRequest, UsageAggregationWindow,
      WindowStatuses
<1>. QED BY <1>1, <1>2, <1>3, <1>5 DEF StoreWindow, MeterInv, MeterTypes

LEMMA FinalizeStep ==
    ASSUME MeterInv, NEW x \in Windows, Finalize(x)
    PROVE  MeterInv'
<1>1. RequestsOK' /\ \A v \in Workers : RatingOK(v)'
  BY RatingsKept DEF Finalize, requestVars, GrantsKept
<1>2. CreditsAreAccountedFor'
  BY DEF Finalize, MeterInv, CreditsAreAccountedFor, CreditsTaken
<1>3. windows[x] \in UsageAggregationWindow
  BY DEF Finalize, MeterInv, MeterTypes, NoWindow
<1>4. windows' \in [Windows -> UsageAggregationWindow \cup {NoWindow}]
  BY <1>3 DEF Finalize, MeterInv, MeterTypes, UsageAggregationWindow, WindowStatuses
<1>. QED BY <1>1, <1>2, <1>4 DEF Finalize, MeterInv, MeterTypes

LEMMA ReconcileStep ==
    ASSUME MeterInv, Reconcile
    PROVE  MeterInv'
<1>1. RequestsOK' /\ \A v \in Workers : RatingOK(v)'
  BY RatingsKept DEF Reconcile, Serve, GrantsKept
<1>2. CreditsAreAccountedFor'
  BY DEF Reconcile, MeterInv, CreditsAreAccountedFor, CreditsTaken
<1>3. runs' \subseteq Nat
  <2>. DEFINE amounts == [x \in Windows |-> lines[x].amount]
  <2>1. DOMAIN amounts = Windows /\ \A x \in Windows : amounts[x] \in Nat
    BY DEF MeterInv, MeterTypes, RatedUsageLine
  <2>2. runs' = runs \cup {SumFunction(amounts)}
    BY DEF Reconcile
  <2>. HIDE DEF amounts
  <2>3. SumFunctionOnSet(amounts, Windows) \in Nat
    BY <2>1, WindowsAreFinite, SumOfNaturals
  <2>. QED BY <2>1, <2>2, <2>3 DEF SumFunction, MeterInv, MeterTypes, UsageReconciliationRun
<1>. QED BY <1>1, <1>2, <1>3 DEF Reconcile, MeterInv, MeterTypes, UsageReconciliationRun

(* The steps that write no table.                                          *)
LEMMA HandStep ==
    ASSUME MeterInv, NEW w \in Workers,
           \/ \E x \in Windows : ReadEvents(w, x)
           \/ \E x \in Windows, credit \in BOOLEAN : ReadWindow(w, x, credit)
           \/ LockLine(w) \/ LockGrants(w)
           \/ Abandon(w) /\ UNCHANGED meterVars
    PROVE  MeterInv'
<1>0. UNCHANGED meterVars
  BY DEF ReadEvents, ReadWindow, LockLine, LockGrants
<1>1. GrantsKept /\ RequestsOK /\ grants \in Seq(CreditGrant) /\ RatingOK(w)
  BY <1>0 DEF GrantsKept, meterVars, MeterInv, MeterTypes
<1>. DEFINE Fits(held) ==
       /\ held.op = "aggregate" => held \in AggregateRequest
       /\ held.op = "rate" =>
            /\ held \in RateRequest
            /\ held.at # "commit" => held.grants = <<>>
            /\ DOMAIN held.grants \subseteq DOMAIN grants
            /\ \A i \in DOMAIN held.grants : held.grants[i] = grants[i]
            /\ held.grants # <<>> => \A v \in Workers : v # w => ~ LocksGrants(v)
<1>2. SUFFICES ASSUME NEW held, Fits(held),
                      Begin(w, held) \/ TakeUp(w, held) \/ Proceed(w, held)
               PROVE  RequestsOK' /\ \A v \in Workers : RatingOK(v)'
  <2>0. SUFFICES RequestsOK' /\ \A v \in Workers : RatingOK(v)'
    <3>1. CreditsAreAccountedFor'
      BY <1>0 DEF meterVars, MeterInv, CreditsAreAccountedFor, CreditsTaken
    <3>. QED BY <1>0, <2>0, <3>1 DEF meterVars, MeterInv, MeterTypes
  <2>1. ASSUME NEW x \in Windows, ReadEvents(w, x)
        PROVE  RequestsOK' /\ \A v \in Workers : RatingOK(v)'
    <3>. DEFINE held == [op |-> "aggregate", window |-> x, quantity |-> Aggregated(x)]
    <3>1. Fits(held)
      BY AggregatedType DEF AggregateRequest
    <3>2. TakeUp(w, held)
      BY <2>1 DEF ReadEvents
    <3>. HIDE DEF held, Fits
    <3>. QED BY <1>2, <3>1, <3>2
  <2>2. ASSUME NEW x \in Windows, NEW credit \in BOOLEAN, ReadWindow(w, x, credit)
        PROVE  RequestsOK' /\ \A v \in Workers : RatingOK(v)'
    <3>. DEFINE held == [op |-> "rate", window |-> x, quantity |-> windows[x].quantity,
                         credit |-> credit, at |-> "line", grants |-> <<>>]
    <3>1. windows[x].quantity \in Int /\ <<>> \in Seq(CreditGrant)
      BY DEF MeterInv, MeterTypes, UsageAggregationWindow, NoWindow
    <3>2. Fits(held)
      BY <3>1 DEF RateRequest
    <3>3. Begin(w, held)
      BY <2>2 DEF ReadWindow
    <3>. HIDE DEF held, Fits
    <3>. QED BY <1>2, <3>2, <3>3
  <2>3. CASE LockLine(w)
    <3>. DEFINE at == IF request[w].credit /\ Price(request[w].quantity) > 0
                      THEN "grants" ELSE "commit"
                held == [request[w] EXCEPT !.at = at]
    <3>1. request[w] \in RateRequest /\ request[w].grants = <<>> /\ at \in {"grants", "commit"}
      BY <1>1, <2>3 DEF LockLine, Rating, RatingOK
    <3>. HIDE DEF at
    <3>2. Fits(held)
      BY <3>1 DEF RateRequest
    <3>3. Proceed(w, held)
      BY <2>3 DEF LockLine, at
    <3>. HIDE DEF held, Fits
    <3>. QED BY <1>2, <3>2, <3>3
  <2>4. CASE LockGrants(w)
    <3>. DEFINE mine == IF \E i \in DOMAIN grants : Offer(grants[i]) > 0 THEN grants ELSE <<>>
                held == [request[w] EXCEPT !.at = "commit", !.grants = mine]
    <3>0. /\ mine \in Seq(CreditGrant) /\ DOMAIN mine \subseteq DOMAIN grants
          /\ \A i \in DOMAIN mine : mine[i] = grants[i]
      BY <1>1
    <3>1. request[w] \in RateRequest
      BY <1>1, <2>4 DEF LockGrants, Rating, RatingOK
    <3>2. \A v \in Workers : v # w => ~ LocksGrants(v)
      BY <2>4 DEF LockGrants, GrantsAreFree, LocksGrants
    <3>4. Proceed(w, held)
      BY <2>4 DEF LockGrants
    <3>. HIDE DEF mine
    <3>3. held \in RateRequest /\ held.at = "commit" /\ held.grants = mine
      BY <3>0, <3>1 DEF RateRequest
    <3>. HIDE DEF held
    <3>5. Fits(held)
      BY <3>0, <3>2, <3>3 DEF RateRequest
    <3>. HIDE DEF Fits
    <3>. QED BY <1>2, <3>4, <3>5
  <2>5. CASE Abandon(w)
    <3>1. Fits(Idle)
      BY DEF Idle
    <3>2. Proceed(w, Idle)
      BY <2>5 DEF Abandon, End
    <3>. HIDE DEF Fits
    <3>. QED BY <1>2, <3>1, <3>2
  <2>. QED BY <2>1, <2>2, <2>3, <2>4, <2>5
<1>3. /\ RequestsOK' /\ request'[w] = held
      /\ \A v \in Workers : v # w => request'[v] = request[v]
  BY <1>1, <1>2, HeldNext
<1>. QED BY <1>1, <1>2, <1>3, RatingsGoOn

(* A grant that has paid: nothing of it is lost, and its status tells.     *)
LEMMA DebitedGrant ==
    ASSUME NEW grant \in CreditGrant, NEW cents \in Nat, cents <= Offer(grant),
           NEW sum \in Nat, grant.remaining + sum = grant.opened,
           sum > 0 => grant.status = IF grant.remaining = 0 THEN "depleted" ELSE "active"
    PROVE  LET new == Debited(grant, cents)
           IN  /\ new \in CreditGrant
               /\ new.remaining + (sum + cents) = new.opened
               /\ sum + cents > 0 =>
                    new.status = IF new.remaining = 0 THEN "depleted" ELSE "active"
<1>. DEFINE new == Debited(grant, cents)
            rest == grant.remaining - cents
            status == IF cents > 0 /\ grant.remaining = cents THEN "depleted" ELSE grant.status
<1>1. /\ grant.remaining \in Nat /\ grant.opened \in Nat /\ grant.status \in CreditStatuses
      /\ Offer(grant) \in Nat /\ Offer(grant) <= grant.remaining
      /\ Offer(grant) > 0 => grant.status = "active"
  BY OfferType DEF CreditGrant
<1>2. PICK r \in Nat, o \in Nat, f \in Nat :
         r = grant.remaining /\ o = grant.opened /\ f = Offer(grant)
  BY <1>1
<1>3. /\ rest = r - cents /\ rest \in Nat /\ rest + (sum + cents) = o
      /\ cents > 0 => grant.status = "active"
  BY <1>1, <1>2
<1>4. /\ new = [grant EXCEPT !.remaining = rest, !.status = status]
      /\ status \in CreditStatuses
  BY <1>1 DEF Debited, CreditStatuses
<1>5. sum + cents > 0 => status = IF rest = 0 THEN "depleted" ELSE "active"
  <2>1. CASE cents > 0
    <3>1. rest = 0 <=> grant.remaining = cents
      BY <1>2, <1>3
    <3>. QED BY <1>3, <2>1, <3>1
  <2>2. CASE cents = 0
    <3>1. rest = r /\ status = grant.status /\ sum + cents = sum
      BY <1>3, <2>2
    <3>. QED BY <1>2, <3>1
  <2>. QED BY <2>1, <2>2
<1>. HIDE DEF rest, status, new
<1>6. /\ new \in CreditGrant /\ new.remaining = rest
      /\ new.status = status /\ new.opened = grant.opened
  BY <1>3, <1>4 DEF CreditGrant
<1>. QED BY <1>2, <1>3, <1>5, <1>6 DEF new

LEMMA CommitLineStep ==
    ASSUME MeterInv, NEW w \in Workers, CommitLine(w)
    PROVE  MeterInv'
<1>. DEFINE held == request[w]
            due == Price(held.quantity)
            from == held.grants
            paid == Paid(due, from)
            credited == SumFunction(paid)
            line == [quantity |-> held.quantity, amount |-> due - credited,
                     credited |-> credited]
<1>1. /\ held \in RateRequest /\ RatingOK(w) /\ Holds(w, "rate")
      /\ DOMAIN from \subseteq DOMAIN grants
      /\ \A i \in DOMAIN from : from[i] = grants[i]
  BY DEF CommitLine, Rating, MeterInv, RatingOK
<1>2. /\ held.window \in Windows /\ held.quantity \in Int
      /\ from \in Seq(CreditGrant) /\ due \in Nat
  <2>1. held.window \in Windows /\ held.quantity \in Int /\ from \in Seq(CreditGrant)
    BY <1>1 DEF RateRequest
  <2>. QED BY <2>1, PriceType
<1>3. /\ paid \in [DOMAIN from -> Nat]
      /\ \A i \in DOMAIN from : paid[i] \in Nat /\ paid[i] <= Offer(from[i])
      /\ credited \in 0 .. due
  <2>. HIDE DEF from, due
  <2>. QED BY <1>2, PaidIsOwed
<1>4. /\ grants \in Seq(CreditGrant) /\ applied \in Seq(CreditApplication)
      /\ DOMAIN applied = DOMAIN grants
      /\ \A i \in DOMAIN grants : grants[i] \in CreditGrant /\ applied[i] \in [Windows -> Nat]
  BY DEF MeterInv, MeterTypes, CreditApplication
<1>5. /\ lines' = [lines EXCEPT ![held.window] = line]
      /\ grants' = [i \in DOMAIN grants |->
            IF i \in DOMAIN from THEN Debited(from[i], paid[i]) ELSE grants[i]]
      /\ applied' = [i \in DOMAIN applied |->
            IF i \in DOMAIN from THEN [applied[i] EXCEPT ![held.window] = @ + paid[i]]
            ELSE applied[i]]
      /\ End(w) /\ UNCHANGED <<events, windows, runs>>
  BY DEF CommitLine
<1>6. /\ line \in RatedUsageLine /\ line.quantity = held.quantity
      /\ line.amount + line.credited = Price(line.quantity)
  <2>. HIDE DEF due, credited
  <2>1. due - credited \in Nat /\ credited \in Nat /\ (due - credited) + credited = due
    BY <1>2, <1>3
  <2>. QED BY <1>2, <2>1 DEF RatedUsageLine, due
<1>. HIDE DEF line, credited, paid, due
<1>7. ASSUME NEW i \in DOMAIN grants, i \in DOMAIN from
      PROVE  /\ grants'[i] \in CreditGrant /\ applied'[i] \in CreditApplication
             /\ grants'[i].remaining + SumFunction(applied'[i]) = grants'[i].opened
             /\ SumFunction(applied'[i]) > 0 =>
                  grants'[i].status = IF grants'[i].remaining = 0 THEN "depleted" ELSE "active"
  <2>1. /\ grants'[i] = Debited(grants[i], paid[i])
        /\ applied'[i] = [applied[i] EXCEPT ![held.window] = @ + paid[i]]
    BY <1>1, <1>4, <1>5, <1>7
  <2>2. /\ grants[i] \in CreditGrant /\ applied[i] \in [Windows -> Nat]
        /\ paid[i] \in Nat /\ paid[i] <= Offer(grants[i])
    BY <1>1, <1>3, <1>4, <1>7
  <2>3. PICK sum \in Nat : /\ sum = SumFunction(applied[i])
                           /\ SumFunction(applied'[i]) = sum + paid[i]
    <3>. DEFINE fun == applied[i]
                new == applied'[i]
                x == held.window
    <3>1. /\ fun \in [Windows -> Nat] /\ new \in [Windows -> Nat] /\ x \in Windows
          /\ new[x] = fun[x] + paid[i] /\ \A y \in Windows : y # x => new[y] = fun[y]
      BY <1>2, <2>1, <2>2
    <3>2. DOMAIN fun = Windows /\ DOMAIN new = Windows
      BY <3>1
    <3>3. \A y \in Windows : fun[y] \in Nat /\ new[y] \in Nat
      BY <3>1
    <3>. HIDE DEF fun, new, x
    <3>4. SumFunctionOnSet(fun, Windows) \in Nat
      BY <3>3, WindowsAreFinite, SumOfNaturals
    <3>5. SumFunctionOnSet(new, Windows) \in Nat
      BY <3>3, WindowsAreFinite, SumOfNaturals
    <3>6. SumFunctionOnSet(new, Windows) + fun[x] = SumFunctionOnSet(fun, Windows) + new[x]
      <4>1. \A y \in Windows : fun[y] \in Int /\ new[y] \in Int /\ (y # x => new[y] = fun[y])
        BY <3>1, <3>3
      <4>. QED BY <3>1, <4>1, WindowsAreFinite, SumChanges
    <3>7. fun[x] \in Nat
      BY <3>1, <3>3
    <3>8. SumFunctionOnSet(new, Windows) = SumFunctionOnSet(fun, Windows) + paid[i]
      BY <2>2, <3>1, <3>4, <3>5, <3>6, <3>7
    <3>. QED BY <3>2, <3>4, <3>8 DEF SumFunction, fun, new
  <2>4. /\ grants[i].remaining + sum = grants[i].opened
        /\ sum > 0 =>
             grants[i].status = IF grants[i].remaining = 0 THEN "depleted" ELSE "active"
    BY <2>3 DEF MeterInv, CreditsAreAccountedFor
  <2>5. applied'[i] \in [Windows -> Nat]
    BY <1>2, <2>1, <2>2
  <2>6. /\ Debited(grants[i], paid[i]) \in CreditGrant
        /\ Debited(grants[i], paid[i]).remaining + (sum + paid[i])
             = Debited(grants[i], paid[i]).opened
        /\ sum + paid[i] > 0 =>
             Debited(grants[i], paid[i]).status =
               IF Debited(grants[i], paid[i]).remaining = 0 THEN "depleted" ELSE "active"
    BY <2>2, <2>4, DebitedGrant
  <2>. QED BY <2>1, <2>3, <2>5, <2>6 DEF CreditApplication
<1>8. ASSUME NEW i \in DOMAIN grants, i \notin DOMAIN from
      PROVE  /\ grants'[i] = grants[i] /\ applied'[i] = applied[i]
             /\ grants'[i] \in CreditGrant /\ applied'[i] \in CreditApplication
             /\ grants'[i].remaining + SumFunction(applied'[i]) = grants'[i].opened
             /\ SumFunction(applied'[i]) > 0 =>
                  grants'[i].status = IF grants'[i].remaining = 0 THEN "depleted" ELSE "active"
  <2>1. grants'[i] = grants[i] /\ applied'[i] = applied[i]
    BY <1>4, <1>5, <1>8
  <2>. QED BY <1>4, <2>1 DEF MeterInv, CreditsAreAccountedFor, CreditApplication
<1>9. /\ grants' \in Seq(CreditGrant) /\ DOMAIN grants' = DOMAIN grants
      /\ applied' \in Seq(CreditApplication) /\ DOMAIN applied' = DOMAIN grants'
  <2>1. grants' \in [DOMAIN grants -> CreditGrant]
    BY <1>5, <1>7, <1>8
  <2>2. applied' \in [DOMAIN applied -> CreditApplication]
    BY <1>4, <1>5, <1>7, <1>8
  <2>. QED BY <1>4, <2>1, <2>2, RowsMapped
<1>10. /\ lines' \in [Windows -> RatedUsageLine]
       /\ \A x \in Windows : lines'[x] # NoLine =>
             lines'[x].amount + lines'[x].credited = Price(lines'[x].quantity)
  <2>1. lines \in [Windows -> RatedUsageLine]
    BY DEF MeterInv, MeterTypes
  <2>2. ASSUME NEW x \in Windows, lines'[x] # NoLine
        PROVE  lines'[x].amount + lines'[x].credited = Price(lines'[x].quantity)
    <3>1. CASE x = held.window
      BY <1>5, <1>6, <2>1, <3>1
    <3>2. CASE x # held.window
      BY <1>5, <2>1, <2>2, <3>2 DEF MeterInv, CreditsAreAccountedFor
    <3>. QED BY <3>1, <3>2
  <2>. QED BY <1>5, <1>6, <2>1, <2>2
<1>11. ASSUME NEW x \in Windows PROVE lines'[x].credited <= CreditsTaken(x)'
  <2>1. PICK rows : rows = applied'
    OBVIOUS
  <2>2. /\ rows \in Seq(CreditApplication) /\ DOMAIN rows = DOMAIN applied
        /\ CreditsTaken(x)' = SumFunction([i \in DOMAIN rows |-> rows[i][x]])
    BY <1>4, <1>9, <2>1 DEF CreditsTaken
  <2>3. lines \in [Windows -> RatedUsageLine]
    BY DEF MeterInv, MeterTypes
  <2>4. CASE x = held.window
    <3>1. lines'[x].credited = SumFunctionOnSet(paid, DOMAIN from)
      <4>1. lines'[x] = line
        BY <1>2, <1>5, <2>3, <2>4
      <4>. QED BY <1>3, <4>1 DEF line, credited, SumFunction
    <3>2. ASSUME NEW i \in DOMAIN from PROVE paid[i] \in Nat /\ paid[i] <= rows[i][x]
      <4>1. /\ rows[i] = [applied[i] EXCEPT ![held.window] = @ + paid[i]]
            /\ applied[i] \in [Windows -> Nat] /\ paid[i] \in Nat
        BY <1>1, <1>3, <1>4, <1>5, <2>1
      <4>2. rows[i][x] = applied[i][x] + paid[i] /\ applied[i][x] \in Nat
        BY <2>4, <4>1
      <4>. QED BY <4>1, <4>2
    <3>3. DOMAIN from \in SUBSET DOMAIN rows
      BY <1>1, <1>4, <2>2
    <3>4. SumFunctionOnSet(paid, DOMAIN from) <= SumFunction([i \in DOMAIN rows |-> rows[i][x]])
      BY <2>2, <3>2, <3>3, TakenFrom
    <3>. QED BY <2>2, <3>1, <3>4
  <2>5. CASE x # held.window
    <3>1. lines'[x] = lines[x] /\ lines[x].credited <= CreditsTaken(x)
      BY <1>5, <2>3, <2>5 DEF MeterInv, CreditsAreAccountedFor
    <3>2. ASSUME NEW i \in DOMAIN rows PROVE rows[i][x] = applied[i][x]
      BY <1>1, <1>4, <1>5, <2>1, <2>2, <2>5
    <3>3. [i \in DOMAIN rows |-> rows[i][x]] = [i \in DOMAIN applied |-> applied[i][x]]
      BY <2>2, <3>2
    <3>. QED BY <2>2, <3>1, <3>3 DEF CreditsTaken
  <2>. QED BY <2>4, <2>5
<1>14. CreditsAreAccountedFor'
  BY <1>7, <1>8, <1>9, <1>10, <1>11 DEF CreditsAreAccountedFor
<1>12. /\ RequestsOK' /\ request'[w] = Idle
       /\ \A v \in Workers : v # w => request'[v] = request[v]
  BY <1>5, HeldNext DEF End, MeterInv
<1>13. \A v \in Workers : RatingOK(v)'
  <2>1. CASE from = <<>>
    <3>1. GrantsKept
      BY <1>8, <1>9, <2>1 DEF GrantsKept
    <3>. QED BY <1>12, <3>1, RatingsGoOn DEF Idle
  <2>2. CASE from # <<>>
    <3>1. ASSUME NEW v \in Workers
          PROVE  ~ LocksGrants(v)' /\ (v # w => ~ LocksGrants(v))
      <4>1. LocksGrants(w)
        BY <1>1, <2>2 DEF LocksGrants
      <4>2. v # w => ~ LocksGrants(v)
        BY <1>1, <4>1 DEF RatingOK
      <4>. QED BY <1>12, <4>2 DEF LocksGrants, Holds, Idle
    <3>2. ASSUME NEW v \in Workers PROVE RatingOK(v)'
      <4>1. CASE v = w
        BY <1>12, <3>1, <4>1 DEF RatingOK, Holds, Idle
      <4>2. CASE v # w
        <5>1. RatingOK(v) /\ request'[v] = request[v]
          BY <1>12, <4>2 DEF MeterInv
        <5>2. Holds(v, "rate") => request[v].grants = <<>>
          BY <3>1, <4>2 DEF LocksGrants
        <5>. QED BY <3>1, <5>1, <5>2 DEF RatingOK, Holds
      <4>. QED BY <4>1, <4>2
    <3>. QED BY <3>2
  <2>. QED BY <2>1, <2>2
<1>. QED BY <1>5, <1>9, <1>10, <1>12, <1>13, <1>14 DEF MeterInv, MeterTypes

LEMMA StepMeterInv == MeterInv /\ [MeterNext]_<<requestVars, meterVars>> => MeterInv'
<1>. SUFFICES ASSUME MeterInv, [MeterNext]_<<requestVars, meterVars>> PROVE MeterInv'
  OBVIOUS
<1>1. CASE UNCHANGED <<requestVars, meterVars>>
  <2>1. RequestsOK' /\ \A v \in Workers : RatingOK(v)'
    BY <1>1, RatingsKept DEF requestVars, meterVars, GrantsKept
  <2>2. CreditsAreAccountedFor'
    BY <1>1 DEF meterVars, MeterInv, CreditsAreAccountedFor, CreditsTaken
  <2>. QED BY <1>1, <2>1, <2>2 DEF meterVars, MeterInv, MeterTypes
<1>. QED BY <1>1, IngestStep, GrantCreditStep, ReconcileStep, FinalizeStep, StoreWindowStep,
            CommitLineStep, HandStep DEF MeterNext

(* Of any windows, prices, grants and workers: the tables stay of their    *)
(* types, and a rating that has locked the grants holds them as they are.  *)
THEOREM MeterInvariance == MeterSpec => []MeterInv
BY InitMeterInv, StepMeterInv, PTL DEF MeterSpec

(* However ratings overlap or die, a grant's balance is what it was opened *)
(* with less its applications, and a line's amount and the credits it shows*)
(* are its price, those credits having been taken from grants; a rating    *)
(* again takes credits again (usage_billing/services.py:62-76, :92-110).   *)
THEOREM CreditsAreKept == MeterSpec => []CreditsAreAccountedFor
<1>1. MeterInv => CreditsAreAccountedFor
  BY DEF MeterInv
<1>. QED BY <1>1, MeterInvariance, PTL

(***************************************************************************)
(* The components as TLC runs them: a behaviour serves the requests of one *)
(* part, and the tables of the others stand still.  Whatever the part,     *)
(* all tables keep their types and all properties hold.                    *)
(***************************************************************************)

(* What the properties of the ledgers do not need, but their types.        *)
LedgerRest ==
    /\ paidBack \subseteq Payments /\ acked \subseteq UsageKeys
    /\ notes \subseteq CreditNote

Standing ==
    /\ part \notin {"subscriptions", "pages"} =>
          SubTypes /\ ProviderColumnsCameFromStripe /\ ~ Valid
    /\ part # "ledger" => /\ LedgerTypes /\ RefundedMeansPaidBack /\ NumbersHaveNoGaps
                          /\ AckedUsageCountsOnce /\ RedemptionsWithinLimit
    /\ part # "meters" => MeterTypes /\ CreditsAreAccountedFor

CommerceInv ==
    /\ part \in {"subscriptions", "pages", "ledger", "meters"} /\ spent \in 0 .. MaxRequests
    /\ part \in {"subscriptions", "pages"} => SubInv
    /\ part = "ledger" => LedgerInv /\ LedgerRest
    /\ part = "meters" => MeterInv
    /\ Standing

-----------------------------------------------------------------------------
(* Every step serves one request or none.                                  *)
Counted == spent' = spent \/ (HasRoom /\ spent' = spent + 1)

LEMMA SubCounted == ASSUME SubNext PROVE Counted
<1>1. CASE \E s \in LocalSubs, p \in Plans, ends \in {"never", "future"} :
              GrantManual(s, p, "free", ends)
  BY <1>1 DEF GrantManual, Serve, Counted
<1>2. CASE \E o \in Owners : CreateEntitlement(o)
  BY <1>2 DEF CreateEntitlement, Serve, Counted
<1>3. ASSUME NEW s \in Subs,
             \/ PeriodEnds(s)
             \/ \E a \in AddOns, q \in Quantities : AttachAddOn(s, a, q)
             \/ \E action \in ChangeActions : \E t \in Targets(action), skip \in BOOLEAN :
                  RequestChange(s, action, t, skip)
      PROVE  Counted
  BY <1>3 DEF PeriodEnds, AttachAddOn, RequestChange, Serve, Counted
<1>4. CASE \E s \in StripeSubs, action \in StripeActions : \E t \in Targets(action) :
              StripeChanges(s, action, t)
  BY <1>4 DEF StripeChanges, Serve, Counted
<1>5. ASSUME NEW w \in Workers,
             \/ ReadRows(w) \/ StoreSnapshot(w)
             \/ \E s \in StripeSubs : \E copy \in copies[s], deleted \in BOOLEAN,
                   ends \in EventEnds : TakeEvent(w, s, copy, deleted, ends)
             \/ \E processed \in BOOLEAN : CommitEvent(w, processed)
      PROVE  Counted
  BY <1>5 DEF ReadRows, StoreSnapshot, TakeEvent, CommitEvent, Begin, TakeUp, Proceed, End, Counted
<1>6. ASSUME NEW w \in Workers,
             \/ \E c \in DOMAIN changes : StartApply(w, c)
             \/ StripeAccepts(w) \/ SaveSubscription(w) \/ MarkApplied(w)
             \/ InvalidateSnapshot(w) \/ Die(w)
             \/ \E late \in BOOLEAN : StripeFails(w, late)
      PROVE  Counted
  BY <1>6 DEF StartApply, StripeAccepts, SaveSubscription, MarkApplied, InvalidateSnapshot, Die,
     StripeFails, GoOn, Begin, Proceed, End, Abandon, Counted
<1>7. CASE PageNext
  BY <1>7 DEF PageNext, OpenPage, EnsureCustomer, SaveCustomer, StoreSession, Begin, Proceed, End,
     Counted
<1>8. CASE ChangeNext
  BY <1>1, <1>2, <1>3, <1>4, <1>5, <1>6, <1>8 DEF ChangeNext
<1>. QED BY <1>7, <1>8 DEF SubNext

LEMMA LedgerCounted == ASSUME LedgerNext PROVE Counted
<1>1. CASE RefundNext
  BY <1>1 DEF RefundNext, OpenRefund, ReadRefund, RefundAtStripe, SaveReview, Serve, Begin,
     Proceed, End, Abandon, Counted
<1>2. CASE NoteNext
  BY <1>2 DEF NoteNext, ReadCounter, SaveCounter, InsertNote, Begin, Proceed, End, Abandon, Counted
<1>3. CASE UsageNext
  BY <1>3 DEF UsageNext, AnswerRecorded, StartUsage, InsertUsage, LoseUsageAnswer, Serve, Begin,
     Proceed, End, Abandon, Counted
<1>4. CASE DiscountNext
  BY <1>4 DEF DiscountNext, LockDiscount, Redeem, Begin, Proceed, End, Abandon, Counted
<1>. QED BY <1>1, <1>2, <1>3, <1>4 DEF LedgerNext

LEMMA MeterCounted == ASSUME MeterNext PROVE Counted
BY DEF MeterNext, Ingest, GrantCredit, Reconcile, Finalize, ReadEvents, ReadWindow, StoreWindow,
   LockLine, LockGrants, CommitLine, Serve, Begin, TakeUp, Proceed, End, Abandon, requestVars,
   Counted

-----------------------------------------------------------------------------
LEMMA SubInvTypes == SubInv => SubTypes
<1>. SUFFICES ASSUME SubInv PROVE SubTypes
  OBVIOUS
<1>1. ASSUME NEW c \in DOMAIN changes
      PROVE  changes[c] \in SubscriptionChangeRequest(changes[c].action)
  <2>1. changes[c] \in ChangeRow /\ changes[c].target \in Targets(changes[c].action)
    BY DEF SubInv, ChangesOK
  <2>. QED BY <2>1 DEF ChangeRow, SubscriptionChangeRequest
<1>. QED BY <1>1 DEF SubInv, SubTypes, StripeOK, RowsOK, SnapshotOK, PagesOK

LEMMA RedeemedCountsOK ==
    ASSUME redeemedCount \in [discount: Nat, promo: Nat], RedemptionsWithinLimit
    PROVE  redeemedCount \in RedeemedCounts
<1>1. redeemedCount.discount <= DiscountLimit /\ redeemedCount.promo <= PromoLimit
  BY DEF RedemptionsWithinLimit
<1>. QED BY <1>1, LimitsAreNumbers DEF RedeemedCounts

LEMMA LedgerInvTypes == LedgerInv /\ LedgerRest => LedgerTypes
<1>. SUFFICES ASSUME LedgerInv, LedgerRest PROVE LedgerTypes
  OBVIOUS
<1>1. redeemedCount \in RedeemedCounts
  BY RedeemedCountsOK DEF LedgerInv, DiscountsOK
<1>. QED BY <1>1 DEF LedgerInv, LedgerRest, LedgerTypes, RefundsOK, NotesOK, UsageOK, DiscountsOK

LEMMA LedgerRestStep ==
    ASSUME LedgerInv, LedgerRest, LedgerNext PROVE LedgerRest'
<1>1. CASE RefundNext /\ UNCHANGED <<noteVars, usageVars, discountVars>>
  <2>1. ASSUME NEW r \in DOMAIN refunds PROVE refunds[r].payment \in Payments
    <3>1. refunds[r] \in Refund
      BY DEF LedgerInv, RefundsOK
    <3>. QED BY <3>1 DEF Refund
  <2>2. paidBack' \subseteq Payments
    <3>1. ASSUME NEW p \in Payments, OpenRefund(p) PROVE paidBack' \subseteq Payments
      BY <3>1 DEF OpenRefund, LedgerRest
    <3>2. ASSUME NEW w \in Workers, NEW r \in DOMAIN refunds, NEW action, NEW staffId \in BOOLEAN,
                 ReadRefund(w, r, action, staffId)
          PROVE  paidBack' \subseteq Payments
      BY <2>1, <3>2 DEF ReadRefund, LedgerRest
    <3>3. ASSUME NEW w \in Workers, NEW answered \in BOOLEAN, RefundAtStripe(w, answered)
          PROVE  paidBack' \subseteq Payments
      <4>1. request[w].refund \in DOMAIN refunds
        BY <3>3 DEF RefundAtStripe, LedgerInv, RefundsOK
      <4>. QED BY <2>1, <3>3, <4>1 DEF RefundAtStripe, LedgerRest
    <3>4. ASSUME NEW w \in Workers, SaveReview(w) \/ UNCHANGED refundVars
          PROVE  paidBack' \subseteq Payments
      BY <3>4 DEF SaveReview, refundVars, LedgerRest
    <3>. QED BY <1>1, <3>1, <3>2, <3>3, <3>4 DEF RefundNext
  <2>. QED BY <1>1, <2>2 DEF LedgerRest, noteVars, usageVars
<1>2. CASE NoteNext /\ UNCHANGED <<refundVars, usageVars, discountVars>>
  <2>1. ASSUME NEW w \in Workers, Holds(w, "note")
        PROVE  [customer |-> request[w].customer, number |-> request[w].number] \in CreditNote
    <3>1. request[w] \in NoteHeld
      BY <2>1 DEF LedgerInv, NotesOK
    <3>. QED BY <3>1 DEF NoteHeld, CreditNote
  <2>2. notes' \subseteq CreditNote
    <3>1. ASSUME UNCHANGED noteVars
          PROVE  notes' \subseteq CreditNote
      BY <3>1 DEF noteVars, LedgerRest
    <3>2. ASSUME NEW w \in Workers, InsertNote(w)
          PROVE  notes' \subseteq CreditNote
      <4>1. Holds(w, "note")
        BY <3>2 DEF InsertNote
      <4>. QED BY <2>1, <3>2, <4>1 DEF InsertNote, LedgerRest
    <3>. QED BY <1>2, <3>1, <3>2 DEF NoteNext, ReadCounter, SaveCounter
  <2>. QED BY <1>2, <2>2 DEF LedgerRest, refundVars, usageVars
<1>3. CASE UsageNext /\ UNCHANGED <<refundVars, noteVars, discountVars>>
  <2>1. acked' \subseteq UsageKeys
    BY <1>3 DEF UsageNext, AnswerRecorded, StartUsage, InsertUsage, LoseUsageAnswer, LedgerInv,
       UsageOK, LedgerRest, usageVars
  <2>. QED BY <1>3, <2>1 DEF LedgerRest, refundVars, noteVars
<1>4. CASE DiscountNext /\ UNCHANGED <<refundVars, noteVars, usageVars>>
  BY <1>4 DEF LedgerRest, refundVars, noteVars, usageVars
<1>. QED BY <1>1, <1>2, <1>3, <1>4 DEF LedgerNext

-----------------------------------------------------------------------------
LEMMA InitCommerceInv == Init => CommerceInv
<1>. SUFFICES ASSUME Init PROVE CommerceInv
  OBVIOUS
<1>1. /\ part \in {"subscriptions", "pages", "ledger", "meters"}
      /\ RequestsInit /\ SubInit /\ LedgerInit /\ MeterInit
  BY DEF Init
<1>2. SubInv /\ LedgerInv /\ MeterInv
  BY <1>1, InitSubInv, InitLedgerInv, InitMeterInv
<1>3. LedgerRest
  BY <1>1 DEF LedgerInit, LedgerRest
<1>4. SubTypes /\ LedgerTypes /\ MeterTypes
  BY <1>2, <1>3, SubInvTypes, LedgerInvTypes DEF MeterInv
<1>5. AckedUsageCountsOnce
  BY <1>2, UsageOnce
<1>6. ProviderColumnsCameFromStripe /\ ~ Valid
  BY <1>1, <1>2 DEF SubInv, ChangesOK, RowsOK, ProviderColumnsCameFromStripe, SubInit, Valid
<1>7. RefundedMeansPaidBack /\ NumbersHaveNoGaps /\ RedemptionsWithinLimit
  BY <1>2 DEF LedgerInv, RefundsOK, NotesOK, DiscountsOK
<1>8. CreditsAreAccountedFor
  BY <1>2 DEF MeterInv
<1>9. spent \in 0 .. MaxRequests
  BY <1>1, RequestsAreBounded DEF RequestsInit
<1>. QED BY <1>1, <1>2, <1>3, <1>4, <1>5, <1>6, <1>7, <1>8, <1>9 DEF CommerceInv, Standing

(* Tables that no step touches.                                            *)
LEMMA SubStands ==
    ASSUME UNCHANGED subVars, SubTypes, ProviderColumnsCameFromStripe, ~ Valid
    PROVE  SubTypes' /\ ProviderColumnsCameFromStripe' /\ ~ Valid'
<1>1. UNCHANGED <<subscription, entitlements, addOns, atStripe, copies, changes, cached, fresh,
                  since, customerId, sessions, stripeCustomers>>
  BY DEF subVars, rowVars, stripeVars, cacheVars, pageVars
<1>2. SubTypes' /\ ~ Valid'
  BY <1>1 DEF SubTypes, EntitlementSnapshot, BillingCustomer, Valid
<1>3. ProviderColumnsCameFromStripe'
  BY <1>1 DEF ProviderColumnsCameFromStripe, Mirrored, NeedsStripe, Shows, IsFromStripe, Skipped
<1>. QED BY <1>2, <1>3

LEMMA LedgerStands ==
    ASSUME UNCHANGED ledgerVars, LedgerTypes, RefundedMeansPaidBack, NumbersHaveNoGaps,
           AckedUsageCountsOnce, RedemptionsWithinLimit
    PROVE  /\ LedgerTypes' /\ RefundedMeansPaidBack' /\ NumbersHaveNoGaps'
           /\ AckedUsageCountsOnce' /\ RedemptionsWithinLimit'
<1>1. UNCHANGED <<refunds, payments, paidBack, nextNumber, notes, usage, acked,
                  redemptions, redeemedCount>>
  BY DEF ledgerVars, refundVars, noteVars, usageVars, discountVars
<1>2. LedgerTypes' /\ RefundedMeansPaidBack'
  BY <1>1 DEF LedgerTypes, RefundedMeansPaidBack
<1>3. NumbersHaveNoGaps' /\ AckedUsageCountsOnce' /\ RedemptionsWithinLimit'
  BY <1>1 DEF NumbersHaveNoGaps, NumbersOf, AckedUsageCountsOnce, RedemptionsWithinLimit
<1>. QED BY <1>2, <1>3

LEMMA MeterStands ==
    ASSUME UNCHANGED meterVars, MeterTypes, CreditsAreAccountedFor
    PROVE  MeterTypes' /\ CreditsAreAccountedFor'
BY DEF meterVars, MeterTypes, CreditsAreAccountedFor, CreditsTaken

LEMMA StepCommerceInv == CommerceInv /\ [Next]_mcVars => CommerceInv'
<1>. SUFFICES ASSUME CommerceInv, [Next]_mcVars PROVE CommerceInv'
  OBVIOUS
<1>1. part' = part
  BY DEF Next, mcVars
<1>2. /\ part \notin {"subscriptions", "pages"} => UNCHANGED subVars
      /\ part # "ledger" => UNCHANGED ledgerVars
      /\ part # "meters" => UNCHANGED meterVars
  BY DEF Next, mcVars
<1>3. /\ part \in {"subscriptions", "pages"} => [SubNext]_<<requestVars, subVars>>
      /\ part = "ledger" => [LedgerNext]_<<requestVars, ledgerVars>>
      /\ part = "meters" => [MeterNext]_<<requestVars, meterVars>>
  BY DEF Next, mcVars, SubNext
<1>4. Standing'
  <2>1. part \notin {"subscriptions", "pages"} =>
           SubTypes' /\ ProviderColumnsCameFromStripe' /\ ~ Valid'
    BY <1>2, SubStands DEF CommerceInv, Standing
  <2>2. part # "ledger" => /\ LedgerTypes' /\ RefundedMeansPaidBack' /\ NumbersHaveNoGaps'
                           /\ AckedUsageCountsOnce' /\ RedemptionsWithinLimit'
    BY <1>2, LedgerStands DEF CommerceInv, Standing
  <2>3. part # "meters" => MeterTypes' /\ CreditsAreAccountedFor'
    BY <1>2, MeterStands DEF CommerceInv, Standing
  <2>. QED BY <1>1, <2>1, <2>2, <2>3 DEF Standing
<1>5. /\ part \in {"subscriptions", "pages"} => SubInv'
      /\ part = "ledger" => LedgerInv'
      /\ part = "meters" => MeterInv'
  BY <1>3, StepSubInv, StepLedgerInv, StepMeterInv DEF CommerceInv
<1>6. part = "ledger" => LedgerRest'
  <2>1. UNCHANGED ledgerVars => (LedgerRest => LedgerRest')
    BY DEF ledgerVars, refundVars, noteVars, usageVars, LedgerRest
  <2>. QED BY <1>3, <2>1, LedgerRestStep DEF CommerceInv
<1>7. spent' \in 0 .. MaxRequests
  <2>1. Counted
    <3>1. UNCHANGED requestVars => Counted
      BY DEF requestVars, Counted
    <3>. QED BY <1>3, <3>1, SubCounted, LedgerCounted, MeterCounted DEF CommerceInv
  <2>. QED BY <2>1, RequestsAreBounded DEF CommerceInv, Counted, HasRoom
<1>. QED BY <1>1, <1>4, <1>5, <1>6, <1>7 DEF CommerceInv

(* The inductive invariant of the components together.                     *)
THEOREM CommerceInvariance == Spec => []CommerceInv
BY InitCommerceInv, StepCommerceInv, PTL DEF Spec

(* All commerce tables keep their types, and no behaviour serves more      *)
(* requests than its bound.                                                *)
THEOREM CommerceTypes == Spec => []TypeOK
<1>1. CommerceInv => TypeOK
  <2>. SUFFICES ASSUME CommerceInv PROVE TypeOK
    OBVIOUS
  <2>1. SubTypes
    BY SubInvTypes DEF CommerceInv, Standing
  <2>2. LedgerTypes
    BY LedgerInvTypes DEF CommerceInv, Standing
  <2>3. MeterTypes
    BY DEF CommerceInv, Standing, MeterInv
  <2>. QED BY <2>1, <2>2, <2>3 DEF CommerceInv, TypeOK
<1>. QED BY <1>1, CommerceInvariance, PTL

(* What the run of the commerce components checks on its instance holds of *)
(* the same specification for any instance.                                *)
THEOREM CommerceIsSafe ==
    Spec => [](/\ ProviderColumnsCameFromStripe /\ SnapshotKeepsPromises
               /\ RefundedMeansPaidBack /\ NumbersHaveNoGaps /\ AckedUsageCountsOnce
               /\ RedemptionsWithinLimit /\ CreditsAreAccountedFor)
<1>. DEFINE Safe == /\ ProviderColumnsCameFromStripe /\ SnapshotKeepsPromises
                    /\ RefundedMeansPaidBack /\ NumbersHaveNoGaps /\ AckedUsageCountsOnce
                    /\ RedemptionsWithinLimit /\ CreditsAreAccountedFor
<1>1. CommerceInv => Safe
  <2>. SUFFICES ASSUME CommerceInv PROVE Safe
    OBVIOUS
  <2>1. ProviderColumnsCameFromStripe /\ SnapshotKeepsPromises
    BY DEF CommerceInv, Standing, SubInv, ChangesOK, RowsOK, SnapshotOK, SnapshotKeepsPromises,
           ProviderColumnsCameFromStripe
  <2>2. RefundedMeansPaidBack /\ NumbersHaveNoGaps /\ RedemptionsWithinLimit
    BY DEF CommerceInv, Standing, LedgerInv, RefundsOK, NotesOK, DiscountsOK
  <2>3. AckedUsageCountsOnce
    BY UsageOnce DEF CommerceInv, Standing
  <2>4. CreditsAreAccountedFor
    BY DEF CommerceInv, Standing, MeterInv
  <2>. QED BY <2>1, <2>2, <2>3, <2>4
<1>. QED BY <1>1, CommerceInvariance, PTL
=============================================================================
