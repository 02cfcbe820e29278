--------------------------- MODULE AccountPrivacy ---------------------------
(***************************************************************************)
(* Consent, data export and account deletion.  Confirmation and            *)
(* cancellation read the deletion request in validation and save it later, *)
(* in a transaction that also closes or reopens the account.               *)
(***************************************************************************)
EXTENDS Requests, Sequences

VARIABLES
    isActive,       \* User.is_active
    accepted,       \* per user: the documents with an acceptance date
    consents,       \* the UserConsent rows
    deletions,      \* the AccountDeletionRequest rows
    exports         \* the DataExportRequest rows

privacyVars == <<isActive, accepted, consents, deletions, exports>>

Documents == {"terms", "privacy"}
ConsentTypes == Documents \cup {"marketing", "analytics"}
DeletionStatuses == {"pending", "confirmed", "cancelled", "completed"}
ExportStatuses == {"pending", "processing", "ready", "failed", "expired"}
UserConsent == [user: Users, type: ConsentTypes, granted: BOOLEAN]
AccountDeletionRequest == [user: Users, status: DeletionStatuses, late: BOOLEAN]
DataExportRequest == [user: Users, status: ExportStatuses, late: BOOLEAN]

PrivacyTypes ==
    /\ isActive \in [Users -> BOOLEAN]
    /\ accepted \in [Users -> SUBSET Documents]
    /\ consents \subseteq UserConsent
    /\ deletions \in Seq(AccountDeletionRequest)
    /\ exports \in Seq(DataExportRequest)

PrivacyInit ==
    /\ isActive = [u \in Users |-> TRUE]
    /\ accepted = [u \in Users |-> {}]
    /\ consents = {}
    /\ deletions = <<>>
    /\ exports = <<>>

-----------------------------------------------------------------------------
(* record_consent: the row, then the date on the user, each by a commit of *)
(* its own.                                                                *)
ConsentFirst == <<"row", "date">>
DateFirst == <<"date", "row">>       \* slip: the user is updated before the record is kept
ConsentOrder == ConsentFirst

StoreAnyConsent(part, u, type, granted) ==   \* slip: a date for every type of consent
    /\ consents' = IF part = "row"
                   THEN consents \cup {[user |-> u, type |-> type, granted |-> granted]}
                   ELSE consents
    /\ accepted' = IF part = "date" /\ granted
                   THEN [accepted EXCEPT ![u] = @ \cup {type}] ELSE accepted
StoreConsent(part, u, type, granted) ==
    /\ consents' = IF part = "row"
                   THEN consents \cup {[user |-> u, type |-> type, granted |-> granted]}
                   ELSE consents
    /\ accepted' = IF part = "date" /\ type \in Documents /\ granted
                   THEN [accepted EXCEPT ![u] = @ \cup {type}]
                   ELSE accepted

RecordConsent(w, u, type, granted) ==
    /\ isActive[u]
    /\ Begin(w, [op |-> "consent", user |-> u, type |-> type, granted |-> granted])
    /\ StoreConsent(ConsentOrder[1], u, type, granted)
    /\ UNCHANGED <<isActive, deletions, exports>>

FinishConsent(w) ==
    /\ Holds(w, "consent")
    /\ StoreConsent(ConsentOrder[2], request[w].user, request[w].type, request[w].granted)
    /\ End(w)
    /\ UNCHANGED <<isActive, deletions, exports>>

-----------------------------------------------------------------------------
RequestExport(u) ==
    /\ isActive[u] /\ Serve
    /\ exports' = Append(exports, [user |-> u, status |-> "pending", late |-> FALSE])
    /\ UNCHANGED <<isActive, accepted, consents, deletions>>

MarkExportReady(x) ==
    /\ Serve
    /\ exports' = [exports EXCEPT ![x].status = "ready", ![x].late = FALSE]
    /\ UNCHANGED <<isActive, accepted, consents, deletions>>

PassExportExpiry(x) ==
    /\ exports[x].status = "ready" /\ ~ exports[x].late
    /\ exports' = [exports EXCEPT ![x].late = TRUE]
    /\ UNCHANGED <<isActive, accepted, consents, deletions, requestVars>>

ExpireExports ==
    /\ exports # <<>> /\ Serve
    /\ exports' = [x \in DOMAIN exports |->
          IF exports[x].status = "ready" /\ exports[x].late
          THEN [exports[x] EXCEPT !.status = "expired"] ELSE exports[x]]
    /\ UNCHANGED <<isActive, accepted, consents, deletions>>

-----------------------------------------------------------------------------
RequestDeletion(u) ==
    /\ isActive[u] /\ Serve
    /\ deletions' = Append(deletions, [user |-> u, status |-> "pending", late |-> FALSE])
    /\ UNCHANGED <<isActive, accepted, consents, exports>>

(* confirm_before passes.                                                  *)
PassConfirmWindow(d) ==
    /\ ~ deletions[d].late
    /\ deletions' = [deletions EXCEPT ![d].late = TRUE]
    /\ UNCHANGED <<isActive, accepted, consents, exports, requestVars>>

(* The request of an authenticated, hence active, user reads the row.      *)
ReadDeletion(w, d, op) ==
    /\ isActive[deletions[d].user]
    /\ op = "confirm" => deletions[d].status = "pending" /\ ~ deletions[d].late
    /\ Begin(w, [op |-> op, deletion |-> d, status |-> deletions[d].status])
    /\ UNCHANGED privacyVars

Closed(u) == [isActive EXCEPT ![u] = FALSE]
LeftClosed(u) == isActive            \* slip: the cancellation does not reopen the account
Reopened(u) == [isActive EXCEPT ![u] = TRUE]

ConfirmDeletion(w) ==
    /\ Holds(w, "confirm")
    /\ LET d == request[w].deletion IN
        /\ ~ deletions[d].late
        /\ deletions' = [deletions EXCEPT ![d].status = "confirmed"]
        /\ isActive' = Closed(deletions[d].user)
    /\ End(w)
    /\ UNCHANGED <<accepted, consents, exports>>

CancelDeletion(w) ==
    /\ Holds(w, "cancel")
    /\ request[w].status \in {"pending", "confirmed"}
    /\ LET d == request[w].deletion IN
        /\ deletions' = [deletions EXCEPT ![d].status = "cancelled"]
        /\ isActive' = Reopened(deletions[d].user)
    /\ End(w)
    /\ UNCHANGED <<accepted, consents, exports>>

PrivacyNext ==
    \/ \E u \in Users : RequestExport(u) \/ RequestDeletion(u)
    \/ \E w \in Workers :
        \/ \E u \in Users, type \in ConsentTypes, granted \in BOOLEAN :
            RecordConsent(w, u, type, granted)
        \/ \E d \in DOMAIN deletions, op \in {"confirm", "cancel"} : ReadDeletion(w, d, op)
        \/ FinishConsent(w) \/ ConfirmDeletion(w) \/ CancelDeletion(w)
        \/ Abandon(w) /\ UNCHANGED privacyVars
    \/ \E x \in DOMAIN exports : MarkExportReady(x) \/ PassExportExpiry(x)
    \/ ExpireExports
    \/ \E d \in DOMAIN deletions : PassConfirmWindow(d)

PrivacySpec == RequestsInit /\ PrivacyInit /\ [][PrivacyNext]_<<requestVars, privacyVars>>

-----------------------------------------------------------------------------
(* An account is closed only while one of its deletion requests is         *)
(* confirmed, whatever confirmations and cancellations overlap.            *)
ClosedMeansConfirmed ==
    \A u \in Users : ~ isActive[u] =>
        \E d \in DOMAIN deletions : deletions[d].user = u /\ deletions[d].status = "confirmed"

(* The acceptance date of a document is never set without the consent      *)
(* record that proves it, even when the worker dies between the two.       *)
AcceptanceIsOnRecord ==
    \A u \in Users : \A type \in accepted[u] :
        [user |-> u, type |-> type, granted |-> TRUE] \in consents
=============================================================================
