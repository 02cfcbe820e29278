-------------------------- MODULE AtLeastOnceQueue --------------------------
(***************************************************************************)
(* What the billing outbox promises to its hook, and the webhook endpoint  *)
(* to the provider: an item that was put into the queue leaves it only     *)
(* after a consumer has accepted it, or by being given up; a consumer may  *)
(* be handed an item more than once while it is queued, and accepts        *)
(* nothing afterwards.                                                     *)
(***************************************************************************)
CONSTANT Items

VARIABLES
    state,      \* where each item is
    accepted    \* items that a consumer has accepted at least once

Init ==
    /\ state = [i \in Items |-> "absent"]
    /\ accepted = {}

Put(i) ==
    /\ state[i] = "absent"
    /\ state' = [state EXCEPT ![i] = "queued"]
    /\ UNCHANGED accepted

Hand(i) ==
    /\ state[i] = "queued"
    /\ accepted' \in {accepted, accepted \union {i}}
    /\ UNCHANGED state

(* A batch is settled in one step: some items are done, some given up, the *)
(* others stay queued.                                                     *)
Settle ==
    /\ state' \in [Items -> {"absent", "queued", "done", "dropped"}]
    /\ \A i \in Items :
         \/ state'[i] = state[i]
         \/ state[i] = "queued" /\ i \in accepted /\ state'[i] = "done"
         \/ state[i] = "queued" /\ state'[i] = "dropped"
    /\ UNCHANGED accepted

Next ==
    \/ \E i \in Items : Put(i) \/ Hand(i)
    \/ Settle

Spec == Init /\ [][Next]_<<state, accepted>>
=============================================================================
