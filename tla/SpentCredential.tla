--------------------------- MODULE SpentCredential ---------------------------
(***************************************************************************)
(* What a mailed link, an authorization code and a recovery code have in   *)
(* common.  A handler checks the credential first and spends it in a later *)
(* commit, so requests that overlap may each be let in with the same one:  *)
(* nothing here limits a credential to one use.  What is promised is that  *)
(* a use leaves the credential unusable for good, and that whoever is let  *)
(* in found it usable and is let in once.                                  *)
(***************************************************************************)
CONSTANT Readers        \* the processes that check credentials

VARIABLES
    usable,             \* the credentials that pass the check
    ended,              \* those that were used, withdrawn or have expired
    held,               \* per reader: the credential it checked, if any
    receipts            \* what was granted: <<number, credential>>

credentialVars == <<usable, ended, held, receipts>>

Init ==
    /\ usable = {} /\ ended = {}
    /\ held = [r \in Readers |-> {}]
    /\ receipts = {}

(* Credentials are issued, withdrawn and expire; none comes back.          *)
Change ==
    /\ usable \cup ended \subseteq usable' \cup ended'
    /\ ended \subseteq ended'
    /\ usable' \cap ended' = {}
    /\ UNCHANGED <<held, receipts>>

Check(r) ==
    /\ held[r] = {}
    /\ \E i \in usable : held' = [held EXCEPT ![r] = {i}]
    /\ UNCHANGED <<usable, ended, receipts>>

(* The request is granted under a new number; the credential it checked is *)
(* unusable when the grant commits, whoever ended it.                      *)
Grant(r) ==
    \E i \in held[r], n \in {receipt[1] : receipt \in receipts'} :
        /\ n \notin {receipt[1] : receipt \in receipts}
        /\ receipts' = receipts \cup {<<n, i>>}
        /\ usable' = usable \ {i}
        /\ ended' = ended \cup {i}
        /\ held' = [held EXCEPT ![r] = {}]

Drop(r) ==
    /\ held' = [held EXCEPT ![r] = {}]
    /\ UNCHANGED <<usable, ended, receipts>>

Next == Change \/ \E r \in Readers : Check(r) \/ Grant(r) \/ Drop(r)

Spec == Init /\ [][Next]_credentialVars
=============================================================================
