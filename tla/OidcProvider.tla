---------------------------- MODULE OidcProvider ----------------------------
(***************************************************************************)
(* The provider's signing keys, scopes and consents, for one user and one  *)
(* client.  A PATCH reads a row, changes what it was sent and saves the    *)
(* whole row; the life cycle calls save their own columns.  A consent      *)
(* evaluation reads the client's profile, the scopes and the grants one    *)
(* after the other, each as it is committed at that moment.                *)
(***************************************************************************)
EXTENDS Requests, Sequences

CONSTANT OAuthScopes        \* names of scopes, defined or not

VARIABLES
    signingKeys,        \* the OidcSigningKey rows by their status
    scopeRows,          \* the OAuthScopeDefinition row of each name
    screen,             \* the client's OAuthClientTrustProfile: is a consent screen required
    consents,           \* the OAuthConsentGrant rows
    keyCalls,           \* the last life cycle call on each key, and whether an edit of the
                        \* key was open when a call was made
    excused             \* scopes an open evaluation had a reason not to ask for, at some
                        \* moment since it began

oidcVars == <<signingKeys, scopeRows, screen, consents, keyCalls, excused>>

Gone == "gone"                              \* a deleted row
LifeCycle == {"active", "retiring", "retired", "revoked"}
ScopeRow == [there: BOOLEAN, active: BOOLEAN, asks: BOOLEAN]
Screens == {"required", "not required"}
Grant == [scopes: SUBSET OAuthScopes, status: {"active", "revoked", Gone}, expired: BOOLEAN]

KeyStatuses == LifeCycle \cup {"pending", Gone}

OidcTypes ==
    /\ signingKeys \in Seq(KeyStatuses)
    /\ scopeRows \in [OAuthScopes -> ScopeRow]
    /\ screen \in Screens \cup {"unprofiled"}
    /\ consents \in Seq(Grant)
    /\ keyCalls \in Seq([last: KeyStatuses, crossed: BOOLEAN])
    /\ Len(keyCalls) = Len(signingKeys)
    /\ excused \in [Workers -> SUBSET OAuthScopes]

OidcInit ==
    /\ signingKeys = <<>> /\ keyCalls = <<>> /\ consents = <<>>
    /\ scopeRows = [s \in OAuthScopes |-> [there |-> TRUE, active |-> TRUE, asks |-> TRUE]]
    /\ screen = "unprofiled"
    /\ excused = [w \in Workers |-> {}]

(* What a PATCH holds between reading a row and saving it.                 *)
Edit(op, n, row) == [op |-> op, id |-> n, row |-> row]

Edited(n) == \E w \in Workers : Holds(w, "saveKey") /\ request[w].id = n

-----------------------------------------------------------------------------
(* Signing keys.  No call asks for the status it starts from.              *)
CreateKey ==
    /\ Serve
    /\ signingKeys' = Append(signingKeys, "pending")
    /\ keyCalls' = Append(keyCalls, [last |-> "pending", crossed |-> FALSE])
    /\ UNCHANGED <<scopeRows, screen, consents>>

MoveKey(n, to) ==
    /\ Serve
    /\ signingKeys[n] # Gone
    /\ signingKeys' = [signingKeys EXCEPT ![n] = to]
    /\ keyCalls' = [keyCalls EXCEPT ![n] = [last |-> to, crossed |-> @.crossed \/ Edited(n)]]
    /\ UNCHANGED <<scopeRows, screen, consents>>

DeleteKey(n) ==
    /\ Serve
    /\ signingKeys[n] # Gone
    /\ signingKeys' = [signingKeys EXCEPT ![n] = Gone]
    /\ keyCalls' = [keyCalls EXCEPT ![n] = [last |-> Gone, crossed |-> @.crossed \/ Edited(n)]]
    /\ UNCHANGED <<scopeRows, screen, consents>>

(* The status is read-only, and saved with the row as it was read.         *)
PatchKey(w, n) ==
    /\ signingKeys[n] # Gone
    /\ Begin(w, Edit("saveKey", n, signingKeys[n]))
    /\ UNCHANGED <<signingKeys, scopeRows, screen, consents, keyCalls>>

SaveKey(w) ==
    /\ Holds(w, "saveKey")
    /\ signingKeys' = [signingKeys EXCEPT ![request[w].id] = request[w].row]
    /\ End(w)
    /\ UNCHANGED <<scopeRows, screen, consents, keyCalls>>

-----------------------------------------------------------------------------
(* Scope definitions and the client's trust profile, kept by staff.        *)
DefineScope(s, row) ==
    /\ Serve
    /\ ~scopeRows[s].there /\ row.there
    /\ scopeRows' = [scopeRows EXCEPT ![s] = row]
    /\ UNCHANGED <<signingKeys, screen, consents, keyCalls>>

DeleteScope(s) ==
    /\ Serve
    /\ scopeRows[s].there
    /\ scopeRows' = [scopeRows EXCEPT ![s].there = FALSE]
    /\ UNCHANGED <<signingKeys, screen, consents, keyCalls>>

PatchScope(w, s, field, to) ==
    /\ scopeRows[s].there
    /\ Begin(w, Edit("saveScope", s, [scopeRows[s] EXCEPT ![field] = to]))
    /\ UNCHANGED <<signingKeys, scopeRows, screen, consents, keyCalls>>

SaveScope(w) ==
    /\ Holds(w, "saveScope")
    /\ scopeRows' = [scopeRows EXCEPT ![request[w].id] = request[w].row]
    /\ End(w)
    /\ UNCHANGED <<signingKeys, screen, consents, keyCalls>>

(* One profile per client; what else it holds is not looked at here.       *)
CreateProfile(to) ==
    /\ Serve
    /\ screen = "unprofiled"
    /\ screen' = to
    /\ UNCHANGED <<signingKeys, scopeRows, consents, keyCalls>>

DeleteProfile ==
    /\ Serve
    /\ screen # "unprofiled"
    /\ screen' = "unprofiled"
    /\ UNCHANGED <<signingKeys, scopeRows, consents, keyCalls>>

PatchProfile(w, to) ==
    /\ screen # "unprofiled"
    /\ Begin(w, Edit("saveProfile", "client", to))
    /\ UNCHANGED <<signingKeys, scopeRows, screen, consents, keyCalls>>

SaveProfile(w) ==
    /\ Holds(w, "saveProfile")
    /\ screen' = request[w].row
    /\ End(w)
    /\ UNCHANGED <<signingKeys, scopeRows, consents, keyCalls>>

-----------------------------------------------------------------------------
(* Consents.                                                               *)
GiveConsent(scopes) ==
    /\ Serve
    /\ consents' = Append(consents, [scopes |-> scopes, status |-> "active", expired |-> FALSE])
    /\ UNCHANGED <<signingKeys, scopeRows, screen, keyCalls>>

RevokeConsent(n) ==
    /\ Serve
    /\ consents[n].status # Gone
    /\ consents' = [consents EXCEPT ![n].status = "revoked"]
    /\ UNCHANGED <<signingKeys, scopeRows, screen, keyCalls>>

DeleteConsent(n) ==
    /\ Serve
    /\ consents[n].status # Gone
    /\ consents' = [consents EXCEPT ![n].status = Gone]
    /\ UNCHANGED <<signingKeys, scopeRows, screen, keyCalls>>

(* expires_at passes; the status EXPIRED is written by nothing.            *)
ConsentExpires(n) ==
    /\ consents[n].status # Gone /\ ~consents[n].expired
    /\ consents' = [consents EXCEPT ![n].expired = TRUE]
    /\ UNCHANGED <<signingKeys, scopeRows, screen, keyCalls, requestVars>>

PatchConsent(w, n, scopes) ==
    /\ consents[n].status # Gone
    /\ Begin(w, Edit("saveConsent", n, [consents[n] EXCEPT !.scopes = scopes]))
    /\ UNCHANGED <<signingKeys, scopeRows, screen, consents, keyCalls>>

(* A row deleted in between is inserted again.                             *)
SaveConsent(w) ==
    /\ Holds(w, "saveConsent")
    /\ consents' = [consents EXCEPT ![request[w].id] = request[w].row]
    /\ End(w)
    /\ UNCHANGED <<signingKeys, scopeRows, screen, keyCalls>>

-----------------------------------------------------------------------------
(* ConsentEvaluationView: three reads, then the answer.                    *)
Rows == {n \in DOMAIN consents : consents[n].status # Gone}

EveryConsentEver == UNION {consents[n].scopes : n \in Rows}

ConsentedScopes ==
    UNION {consents[n].scopes :
             n \in {m \in Rows : consents[m].status = "active" /\ ~consents[m].expired}}

AsksConsent(s) == scopeRows[s].there /\ scopeRows[s].active /\ scopeRows[s].asks

Evaluate(w, scopes) ==
    /\ Begin(w, [op |-> "readScopes", asked |-> scopes, silent |-> screen = "not required"])
    /\ UNCHANGED <<signingKeys, scopeRows, screen, consents, keyCalls>>

ReadScopes(w) ==
    /\ Holds(w, "readScopes")
    /\ LET e == request[w]
       IN  Proceed(w, [op |-> "readConsents", asked |-> e.asked,
                       required |-> IF e.silent THEN {} ELSE {s \in e.asked : AsksConsent(s)}])
    /\ UNCHANGED <<signingKeys, scopeRows, screen, consents, keyCalls>>

ReadConsents(w) ==
    /\ Holds(w, "readConsents")
    /\ Proceed(w, [op |-> "answer", asked |-> request[w].asked,
                   missing |-> request[w].required \ ConsentedScopes])
    /\ UNCHANGED <<signingKeys, scopeRows, screen, consents, keyCalls>>

AnswerEvaluation(w) ==
    /\ Holds(w, "answer")
    /\ End(w)
    /\ UNCHANGED <<signingKeys, scopeRows, screen, consents, keyCalls>>

-----------------------------------------------------------------------------
(* Why a scope need not be asked for, in the rows as they are committed.   *)
Excuse(s) ==
    \/ screen = "not required"
    \/ ~AsksConsent(s)
    \/ \E n \in Rows : /\ s \in consents[n].scopes
                       /\ consents[n].status = "active" /\ ~consents[n].expired

Evaluates(held) == held.op \in {"readScopes", "readConsents", "answer"}

(* Every step adds what it gives the open evaluations as an excuse.        *)
Watch ==
    excused' = [w \in Workers |->
                   IF ~Evaluates(request'[w]) THEN {}
                   ELSE (IF Evaluates(request[w]) THEN excused[w] ELSE {})
                          \cup {s \in OAuthScopes : Excuse(s)'}]

OidcStep ==
    \/ CreateKey
    \/ \E n \in DOMAIN signingKeys : DeleteKey(n) \/ \E to \in LifeCycle : MoveKey(n, to)
    \/ \E w \in Workers, n \in DOMAIN signingKeys : PatchKey(w, n)
    \/ \E s \in OAuthScopes : DeleteScope(s) \/ \E row \in ScopeRow : DefineScope(s, row)
    \/ \E w \in Workers, s \in OAuthScopes, field \in {"active", "asks"}, to \in BOOLEAN :
         PatchScope(w, s, field, to)
    \/ DeleteProfile
    \/ \E to \in Screens : CreateProfile(to) \/ \E w \in Workers : PatchProfile(w, to)
    \/ \E scopes \in SUBSET OAuthScopes : GiveConsent(scopes)
    \/ \E n \in DOMAIN consents : RevokeConsent(n) \/ DeleteConsent(n) \/ ConsentExpires(n)
    \/ \E w \in Workers, n \in DOMAIN consents, scopes \in SUBSET OAuthScopes :
         PatchConsent(w, n, scopes)
    \/ \E w \in Workers, scopes \in (SUBSET OAuthScopes) \ {{}} : Evaluate(w, scopes)
    \/ \E w \in Workers : \/ SaveKey(w) \/ SaveScope(w) \/ SaveProfile(w) \/ SaveConsent(w)
                          \/ ReadScopes(w) \/ ReadConsents(w) \/ AnswerEvaluation(w)
    \/ \E w \in Workers : Abandon(w) /\ UNCHANGED <<signingKeys, scopeRows, screen, consents,
                                                   keyCalls>>

OidcNext == OidcStep /\ Watch

OidcSpec == RequestsInit /\ OidcInit /\ [][OidcNext]_<<requestVars, oidcVars>>

-----------------------------------------------------------------------------
(* An evaluation that finds nothing missing had, for every scope it was    *)
(* asked about, a reason not to ask at some moment while it ran: a grant   *)
(* withdrawn, deleted or expired before it began is never counted, nor a   *)
(* scope that required consent all along (oidc_provider/views.py:178).     *)
ConsentIsJustified ==
    \A w \in Workers :
        Holds(w, "answer") /\ request[w].missing = {} => request[w].asked \subseteq excused[w]

(* A key has the status of the last life cycle call, unless a PATCH of the *)
(* key was open when a call was made and has saved what it had read over   *)
(* it (oidc_provider/models.py:63, serializers.py:47).                     *)
KeysFollowTheirCalls ==
    \A n \in DOMAIN signingKeys :
        keyCalls[n].crossed \/ signingKeys[n] = keyCalls[n].last
=============================================================================
