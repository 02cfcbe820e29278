--------------------------- MODULE BillingLedger ---------------------------
(***************************************************************************)
(* The ledgers of a billing customer: refund requests and the refunds      *)
(* Stripe makes, credit notes and their numbers, usage records, discount   *)
(* redemptions.  The four share no row; LedgerNext lists their requests.   *)
(***************************************************************************)
EXTENDS Requests, Sequences, FiniteSets

CONSTANTS
    Payments,           \* Stripe payments refunds are asked for
    Customers,
    PrefixOf,           \* BillingProfile.invoice_prefix, or CN when it is blank
    UsageKeys,          \* idempotency keys, "" when the caller gives none
    DiscountLimit, PromoLimit       \* max_redemptions

ASSUME LimitsAreNumbers == DiscountLimit \in Nat /\ PromoLimit \in Nat

VARIABLES
    refunds,            \* the RefundRequest rows
    payments,           \* PaymentTransaction.status
    paidBack,           \* payments Stripe refunded, or staff say it did
    nextNumber,         \* BillingProfile.next_invoice_number
    notes,              \* the CreditNote rows
    usage,              \* the UsageRecord rows of one customer and metric
    acked,              \* history: the keys whose caller got an answer
    redemptions,        \* the DiscountRedemption rows of one discount
    redeemedCount       \* redeemed_count of the discount and of its promotion code

refundVars == <<refunds, payments, paidBack>>
noteVars == <<nextNumber, notes>>
usageVars == <<usage, acked>>
discountVars == <<redemptions, redeemedCount>>
ledgerVars == <<refundVars, noteVars, usageVars, discountVars>>

RefundStatuses == {"pending", "approved", "rejected", "processed"}
PaymentStatuses == {"succeeded", "refunded"}
Refund == [payment: Payments, status: RefundStatuses]
CreditNote == [customer: Customers, number: Nat]
UsageRecord == [key: UsageKeys]
DiscountRedemption == [customer: Customers, key: UsageKeys, promo: BOOLEAN]
RedeemedCounts == [discount: 0 .. DiscountLimit, promo: 0 .. PromoLimit]

LedgerTypes ==
    /\ refunds \in Seq(Refund)
    /\ payments \in [Payments -> PaymentStatuses]
    /\ paidBack \subseteq Payments
    /\ nextNumber \in [Customers -> Nat \ {0}]
    /\ notes \subseteq CreditNote
    /\ usage \in Seq(UsageRecord)
    /\ acked \subseteq UsageKeys
    /\ redemptions \in Seq(DiscountRedemption)
    /\ redeemedCount \in RedeemedCounts

LedgerInit ==
    /\ refunds = <<>> /\ payments = [p \in Payments |-> "succeeded"] /\ paidBack = {}
    /\ nextNumber = [c \in Customers |-> 1] /\ notes = {}
    /\ usage = <<>> /\ acked = {}
    /\ redemptions = <<>> /\ redeemedCount = [discount |-> 0, promo |-> 0]

-----------------------------------------------------------------------------
OpenRefund(p) ==
    /\ Serve
    /\ refunds' = Append(refunds, [payment |-> p, status |-> "pending"])
    /\ UNCHANGED <<payments, paidBack>>

(* ReviewRefundRequestView reads the request before the transaction, and   *)
(* no status is asked for: a rejected or processed one can be reviewed.    *)
ReadRefund(w, r, action, staffId) ==
    /\ staffId => action = "process"
    /\ Begin(w, [op |-> "refund", refund |-> r, action |-> action, paid |-> staffId])
    /\ paidBack' = IF staffId THEN paidBack \cup {refunds[r].payment} ELSE paidBack
    /\ UNCHANGED <<refunds, payments>>

(* stripe.Refund.create, inside the transaction; no idempotency key.  A    *)
(* call that raises, before or after its effect, rolls the review back.    *)
RefundAtStripe(w, answered) ==
    /\ Holds(w, "refund") /\ request[w].action = "process" /\ ~ request[w].paid
    /\ paidBack' = paidBack \cup {refunds[request[w].refund].payment}
    /\ IF answered THEN Proceed(w, [request[w] EXCEPT !.paid = TRUE]) ELSE End(w)
    /\ UNCHANGED <<refunds, payments>>

Reviewed(w) ==
    CASE request[w].action = "approve" -> "approved"
      [] request[w].action = "reject"  -> "rejected"
      [] OTHER                         -> "processed"

SavedWhateverStripeSays(w) == TRUE   \* slip: an error of the refund call is swallowed
MaySave(w) == request[w].action = "process" => request[w].paid

SaveReview(w) ==
    /\ Holds(w, "refund") /\ MaySave(w)
    /\ LET r == request[w].refund IN
        /\ refunds' = [refunds EXCEPT ![r].status = Reviewed(w)]
        /\ payments' = IF request[w].action = "process"
                       THEN [payments EXCEPT ![refunds[r].payment] = "refunded"]
                       ELSE payments
    /\ End(w)
    /\ UNCHANGED paidBack

RefundNext ==
    \/ \E p \in Payments : OpenRefund(p)
    \/ \E w \in Workers :
        \/ \E r \in DOMAIN refunds, action \in {"approve", "reject", "process"},
              staffId \in BOOLEAN : ReadRefund(w, r, action, staffId)
        \/ \E answered \in BOOLEAN : RefundAtStripe(w, answered)
        \/ SaveReview(w)
        \/ Abandon(w) /\ UNCHANGED refundVars

(* Nothing is marked refunded here before the money went back, whatever    *)
(* reviews overlap, fail or die.  The converse does not hold: a refund     *)
(* made by a review that is then rolled back leaves no trace.              *)
RefundedMeansPaidBack ==
    /\ \A p \in Payments : payments[p] = "refunded" => p \in paidBack
    /\ \A r \in DOMAIN refunds :
        refunds[r].status = "processed" => refunds[r].payment \in paidBack

-----------------------------------------------------------------------------
(* issue_credit_note, one transaction: the counter is read, then saved     *)
(* (from here on the profile row is locked), then the note is inserted     *)
(* under a number that is unique over all customers.                       *)
ReadCounter(w, c) ==
    /\ Begin(w, [op |-> "note", customer |-> c, number |-> nextNumber[c], locked |-> FALSE])
    /\ UNCHANGED noteVars

SaveCounter(w) ==
    /\ Holds(w, "note") /\ ~ request[w].locked
    /\ \A v \in Workers \ {w} : Holds(v, "note") =>
          ~ (request[v].locked /\ request[v].customer = request[w].customer)
    /\ Proceed(w, [request[w] EXCEPT !.locked = TRUE])
    /\ UNCHANGED noteVars

Label(c, n) == <<PrefixOf[c], n>>
Taken(c, n) == \E note \in notes : Label(note.customer, note.number) = Label(c, n)

CounterAfter(c, n) == [nextNumber EXCEPT ![c] = n + 1]
CounterKept(c, n) == CounterAfter(c, n)    \* slip: the number is reserved by a commit of its own
CounterAfterRefusal(c, n) == nextNumber

InsertNote(w) ==
    /\ Holds(w, "note") /\ request[w].locked
    /\ LET c == request[w].customer
           n == request[w].number
       IN  IF Taken(c, n)
           THEN /\ nextNumber' = CounterAfterRefusal(c, n)
                /\ UNCHANGED notes
           ELSE /\ notes' = notes \cup {[customer |-> c, number |-> n]}
                /\ nextNumber' = CounterAfter(c, n)
    /\ End(w)

NoteNext ==
    \E w \in Workers :
        \/ \E c \in Customers : ReadCounter(w, c)
        \/ SaveCounter(w) \/ InsertNote(w)
        \/ Abandon(w) /\ UNCHANGED noteVars

NumbersOf(c) == {note.number : note \in {x \in notes : x.customer = c}}

(* The numbers of a customer's notes run from one without a gap, and the   *)
(* counter is the next of them, whatever is refused or rolled back: also   *)
(* the first note of a customer whose prefix another one shares.           *)
NumbersHaveNoGaps == \A c \in Customers : NumbersOf(c) = 1 .. (nextNumber[c] - 1)

-----------------------------------------------------------------------------
(* record_usage: get_or_create for a key, a plain create without one; the  *)
(* unique constraint covers both.                                          *)
Recorded(key) == \E i \in DOMAIN usage : usage[i].key = key

AnswerRecorded(key) ==
    /\ key # "" /\ Recorded(key) /\ Serve
    /\ acked' = acked \cup {key}
    /\ UNCHANGED usage

StartUsage(w, key) ==
    /\ key # "" => ~ Recorded(key)
    /\ Begin(w, [op |-> "usage", key |-> key])
    /\ UNCHANGED usageVars

AlwaysFree(key) == TRUE              \* slip: no unique constraint on the key
KeyIsFree(key) == ~ Recorded(key)

(* A keyed insert that loses reads the winner's row; a keyless one raises. *)
InsertUsage(w) ==
    /\ Holds(w, "usage")
    /\ LET key == request[w].key IN
        /\ usage' = IF KeyIsFree(key) THEN Append(usage, [key |-> key]) ELSE usage
        /\ acked' = IF KeyIsFree(key) \/ key # "" THEN acked \cup {key} ELSE acked
    /\ End(w)

(* The row is committed and the answer is lost.                            *)
LoseUsageAnswer(w) ==
    /\ Holds(w, "usage") /\ KeyIsFree(request[w].key)
    /\ usage' = Append(usage, [key |-> request[w].key])
    /\ End(w)
    /\ UNCHANGED acked

UsageNext ==
    \/ \E key \in UsageKeys : AnswerRecorded(key)
    \/ \E w \in Workers :
        \/ \E key \in UsageKeys : StartUsage(w, key)
        \/ InsertUsage(w) \/ LoseUsageAnswer(w)
        \/ Abandon(w) /\ UNCHANGED usageVars

(* Usage that was acknowledged is counted exactly once, however often it   *)
(* was sent, answered or not.                                              *)
AckedUsageCountsOnce ==
    \A key \in UsageKeys :
        LET rows == {i \in DOMAIN usage : usage[i].key = key} IN
        Cardinality(rows) <= 1 /\ (key \in acked => rows # {})

-----------------------------------------------------------------------------
(* redeem_discount, one transaction that locks the discount, and the       *)
(* promotion code when there is one, from its first statement to its end.  *)
IsRedeemable(promo) ==
    /\ redeemedCount.discount < DiscountLimit
    /\ promo => redeemedCount.promo < PromoLimit

NoLock(w) == TRUE                    \* slip: the row is read without select_for_update
DiscountIsFree(w) == \A v \in Workers : ~ Holds(v, "redeem")

Redeemed(c, key) == \E i \in DOMAIN redemptions :
    redemptions[i].customer = c /\ redemptions[i].key = key

(* A redemption that is refused, or that the key finds, changes nothing:   *)
(* what is redeemable is asked before the key.                             *)
LockDiscount(w, c, promo, key) ==
    /\ DiscountIsFree(w) /\ IsRedeemable(promo)
    /\ ~ (key # "" /\ Redeemed(c, key))
    /\ Begin(w, [op |-> "redeem", customer |-> c, promo |-> promo, key |-> key,
                 count |-> redeemedCount])
    /\ UNCHANGED discountVars

Redeem(w) ==
    /\ Holds(w, "redeem")
    /\ LET held == request[w] IN
        /\ ~ Redeemed(held.customer, held.key)    \* else the constraint rolls back
        /\ redemptions' = Append(redemptions, [customer |-> held.customer, key |-> held.key,
                                               promo |-> held.promo])
        /\ redeemedCount' = [redeemedCount EXCEPT
              !.discount = held.count.discount + 1,
              !.promo = IF held.promo THEN held.count.promo + 1 ELSE @]
    /\ End(w)

DiscountNext ==
    \E w \in Workers :
        \/ \E c \in Customers, promo \in BOOLEAN, key \in UsageKeys :
            LockDiscount(w, c, promo, key)
        \/ Redeem(w)
        \/ Abandon(w) /\ UNCHANGED discountVars

(* The counts are those of the rows and never pass the limits, whichever   *)
(* of the two ways concurrent customers take.                              *)
RedemptionsWithinLimit ==
    LET viaPromo == {i \in DOMAIN redemptions : redemptions[i].promo} IN
    /\ redeemedCount.discount = Len(redemptions) /\ Len(redemptions) <= DiscountLimit
    /\ redeemedCount.promo = Cardinality(viaPromo) /\ Cardinality(viaPromo) <= PromoLimit

-----------------------------------------------------------------------------
LedgerNext ==
    \/ RefundNext /\ UNCHANGED <<noteVars, usageVars, discountVars>>
    \/ NoteNext /\ UNCHANGED <<refundVars, usageVars, discountVars>>
    \/ UsageNext /\ UNCHANGED <<refundVars, noteVars, discountVars>>
    \/ DiscountNext /\ UNCHANGED <<refundVars, noteVars, usageVars>>

LedgerSpec == RequestsInit /\ LedgerInit /\ [][LedgerNext]_<<requestVars, ledgerVars>>
=============================================================================
