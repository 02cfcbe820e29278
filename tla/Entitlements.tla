---------------------------- MODULE Entitlements ----------------------------
(***************************************************************************)
(* The rules by which a subscription row grants features, as pure          *)
(* operators over a row record.  A nullable timestamp column is seen only  *)
(* through its comparison with the current time: "never" (NULL), "future"  *)
(* or "past".                                                              *)
(***************************************************************************)
EXTENDS Naturals

When == {"never", "future", "past"}

SubscriptionStatuses ==
    {"trialing", "active", "past_due", "paused", "cancelled", "expired", "free"}

(* The status_map of the subscription webhook handler; a provider status   *)
(* it does not list becomes past_due.                                      *)
StripeStatuses ==
    {"trialing", "active", "past_due", "paused", "canceled",
     "incomplete_expired", "unpaid"}

SubscriptionStatusOf(raw) ==
    CASE raw = "canceled"           -> "cancelled"
      [] raw = "incomplete_expired" -> "expired"
      [] raw \in {"trialing", "active", "paused"} -> raw
      [] OTHER                      -> "past_due"

(* Subscription.is_entitled.                                               *)
IsEntitled(s) ==
    \/ s.status = "trialing" /\ s.trial # "past"
    \/ s.status \in {"active", "free"} /\ s.ends # "past"
    \/ s.status = "past_due" /\ s.grace = "future"

(* active_subscriptions_for_customer: the rows build_customer_entitlements *)
(* looks at before it asks is_entitled.                                    *)
IsCounted(s) == s.status \in {"active", "trialing", "free"}

Grants(s) == IsCounted(s) /\ IsEntitled(s)

(* The payload carries each granting subscription's current_period_end as  *)
(* a datetime, and EntitlementSnapshot.payload is a JSONField with the     *)
(* default encoder: saving a payload that holds a datetime raises.         *)
IsEncodable(S) == \A s \in S : s.ends = "never"
=============================================================================
