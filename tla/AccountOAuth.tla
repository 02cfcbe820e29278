---------------------------- MODULE AccountOAuth ----------------------------
(***************************************************************************)
(* Authorization codes, service credentials and the lifecycle records of   *)
(* the tokens issued for them.  A code is read, with everything that is    *)
(* checked about it, before the transaction that exchanges it; a record is *)
(* read before it is saved as seen.                                        *)
(***************************************************************************)
EXTENDS Requests, Sequences, FiniteSets

CONSTANTS
    Clients,
    AllowedScopes,  \* [Clients -> SUBSET STRING], allowed_scopes of each client
    Credentials,
    ServiceScopes   \* the scopes a new service credential may ask for

VARIABLES
    clientActive,   \* OAuthClient.is_active
    authCodes,      \* the AuthorizationCode rows, in the order of their creation
    credential,     \* per service credential: NoCredential, or its row
    oauthTokens,    \* the tokens issued, each with its OAuthTokenActivity
    blacklisted     \* the refresh tokens SimpleJWT refuses

oauthVars == <<clientActive, authCodes, credential, oauthTokens, blacklisted>>

NoCredential == [key |-> 0, active |-> FALSE, expired |-> FALSE, scopes |-> {}]
NoClient == "no client"

Scopes == (UNION {AllowedScopes[c] : c \in Clients}) \cup ServiceScopes
AuthorizationCode ==
    [client: Clients, user: Users, scope: SUBSET Scopes, used: BOOLEAN, expired: BOOLEAN]
ServiceCredential ==
    [key: Nat, active: BOOLEAN, expired: BOOLEAN, scopes: SUBSET ServiceScopes]
OAuthTokenActivity ==                \* "recorded": the row is there
    [kind: {"access", "refresh", "id", "service"}, code: Nat,
     credential: Credentials \cup {NoClient}, scope: SUBSET Scopes,
     recorded: BOOLEAN, revoked: BOOLEAN, expired: BOOLEAN]

OAuthTypes ==
    /\ clientActive \in [Clients -> BOOLEAN]
    /\ authCodes \in Seq(AuthorizationCode)
    /\ credential \in [Credentials -> ServiceCredential]
    /\ oauthTokens \in Seq(OAuthTokenActivity)
    /\ blacklisted \subseteq DOMAIN oauthTokens

OAuthInit ==
    /\ clientActive = [c \in Clients |-> TRUE]
    /\ authCodes = <<>>
    /\ credential = [k \in Credentials |-> NoCredential]
    /\ oauthTokens = <<>>
    /\ blacklisted = {}

-----------------------------------------------------------------------------
(* The client is created by staff and switched in the admin site.          *)
SwitchClient(c) ==
    /\ Serve
    /\ clientActive' = [clientActive EXCEPT ![c] = ~ @]
    /\ UNCHANGED <<authCodes, credential, oauthTokens, blacklisted>>

(* OAuthAuthorizeSerializer: the client is active and allows the scopes,   *)
(* of which openid is one.                                                 *)
Authorize(u, c, scope) ==
    /\ clientActive[c]
    /\ scope \subseteq AllowedScopes[c] /\ "openid" \in scope
    /\ Serve
    /\ authCodes' = Append(authCodes, [client |-> c, user |-> u, scope |-> scope,
                                       used |-> FALSE, expired |-> FALSE])
    /\ UNCHANGED <<clientActive, credential, oauthTokens, blacklisted>>

(* OAuthTokenExchangeSerializer.validate, for a request that presents the  *)
(* right secret, redirect URI and PKCE verifier.                           *)
ExchangeCheck(w, i) ==
    /\ ~ authCodes[i].used /\ ~ authCodes[i].expired
    /\ clientActive[authCodes[i].client]
    /\ Begin(w, [op |-> "exchange", code |-> i])
    /\ UNCHANGED oauthVars

Issued(kind, code, cred, scope) ==
    [kind |-> kind, code |-> code, credential |-> cred, scope |-> scope,
     recorded |-> TRUE, revoked |-> FALSE, expired |-> FALSE]

TokenScope(i) == authCodes[i].scope

TokensOf(i) ==
    [k \in 1..3 |-> Issued(<<"access", "refresh", "id">>[k], i, NoClient, TokenScope(i))]

SpendCodeOf(i) == [authCodes EXCEPT ![i].used = TRUE]

Exchange(w) ==
    /\ Holds(w, "exchange")
    /\ oauthTokens' = oauthTokens \o TokensOf(request[w].code)
    /\ authCodes' = SpendCodeOf(request[w].code)
    /\ End(w)
    /\ UNCHANGED <<clientActive, credential, blacklisted>>

-----------------------------------------------------------------------------
CreateCredential(k, scopes) ==
    /\ credential[k] = NoCredential
    /\ scopes \subseteq ServiceScopes
    /\ Serve
    /\ credential' = [credential EXCEPT ![k] =
          [key |-> 1, active |-> TRUE, expired |-> FALSE, scopes |-> scopes]]
    /\ UNCHANGED <<clientActive, authCodes, oauthTokens, blacklisted>>

RotateCredential(k) ==
    /\ credential[k] # NoCredential /\ Serve
    /\ credential' = [credential EXCEPT ![k].key = @ + 1]
    /\ UNCHANGED <<clientActive, authCodes, oauthTokens, blacklisted>>

DeactivateCredential(k) ==
    /\ credential[k] # NoCredential /\ Serve
    /\ credential' = [credential EXCEPT ![k].active = FALSE]
    /\ UNCHANGED <<clientActive, authCodes, oauthTokens, blacklisted>>

(* The key found is active and unexpired, its last_used_at is saved, and a *)
(* narrower scope is kept in memory only.                                  *)
CredentialNarrowed(k, asked) ==      \* slip: the narrowed scopes are saved
    [credential EXCEPT ![k].scopes = asked]
CredentialAfterUse(k, asked) == credential

ServiceCheck(w, k, asked) ==
    /\ credential[k].active /\ ~ credential[k].expired
    /\ asked \subseteq credential[k].scopes
    /\ Begin(w, [op |-> "service", credential |-> k,
                 scope |-> IF asked = {} THEN credential[k].scopes ELSE asked])
    /\ credential' = CredentialAfterUse(k, asked)
    /\ UNCHANGED <<clientActive, authCodes, oauthTokens, blacklisted>>

IssueServiceToken(w) ==
    /\ Holds(w, "service")
    /\ oauthTokens' = Append(oauthTokens,
          Issued("service", 0, request[w].credential, request[w].scope))
    /\ End(w)
    /\ UNCHANGED <<clientActive, authCodes, credential, blacklisted>>

-----------------------------------------------------------------------------
(* introspect_token: the record is read, then saved as seen.               *)
SeenColumn == {"last_seen_at"}
WholeRow == {"last_seen_at", "revoked_at"}    \* slip: save() without update_fields
SavedBySeen == SeenColumn

IntrospectRead(w, t) ==
    /\ oauthTokens[t].recorded
    /\ ~ oauthTokens[t].revoked /\ ~ oauthTokens[t].expired
    /\ Begin(w, [op |-> "introspect", token |-> t])
    /\ UNCHANGED oauthVars

IntrospectSave(w) ==
    /\ Holds(w, "introspect")
    /\ oauthTokens' = IF "revoked_at" \in SavedBySeen
                      THEN [oauthTokens EXCEPT ![request[w].token].revoked = FALSE]
                      ELSE oauthTokens
    /\ End(w)
    /\ UNCHANGED <<clientActive, authCodes, credential, blacklisted>>

(* revoke_token: the record if there is one, and the blacklist if the      *)
(* token is a refresh token.                                               *)
Revoke(t) ==
    /\ ~ oauthTokens[t].expired /\ Serve
    /\ oauthTokens' = [oauthTokens EXCEPT ![t].revoked = oauthTokens[t].recorded]
    /\ blacklisted' = blacklisted \cup {x \in {t} : oauthTokens[x].kind = "refresh"}
    /\ UNCHANGED <<clientActive, authCodes, credential>>

(* TokenRefreshView rotates: the old refresh token is blacklisted and the  *)
(* new pair has no lifecycle record.                                       *)
RotateToken(t) ==
    /\ oauthTokens[t].kind = "refresh" /\ t \notin blacklisted /\ ~ oauthTokens[t].expired
    /\ Serve
    /\ blacklisted' = blacklisted \cup {t}
    /\ oauthTokens' = oauthTokens \o
          [k \in 1..2 |-> [oauthTokens[t] EXCEPT !.kind = <<"access", "refresh">>[k],
                                                 !.recorded = FALSE, !.revoked = FALSE]]
    /\ UNCHANGED <<clientActive, authCodes, credential>>

(* The clock passes the expiry of a code, a credential or a token.         *)
OAuthExpire ==
    /\ Serve
    /\ \/ \E i \in DOMAIN authCodes :
            /\ authCodes' = [authCodes EXCEPT ![i].expired = TRUE]
            /\ UNCHANGED <<credential, oauthTokens>>
       \/ \E k \in Credentials :
            /\ credential[k] # NoCredential
            /\ credential' = [credential EXCEPT ![k].expired = TRUE]
            /\ UNCHANGED <<authCodes, oauthTokens>>
       \/ \E t \in DOMAIN oauthTokens :
            /\ oauthTokens' = [oauthTokens EXCEPT ![t].expired = TRUE]
            /\ UNCHANGED <<authCodes, credential>>
    /\ UNCHANGED <<clientActive, blacklisted>>

OAuthNext ==
    \/ \E c \in Clients :
        \/ SwitchClient(c)
        \/ \E u \in Users, scope \in SUBSET AllowedScopes[c] : Authorize(u, c, scope)
    \/ \E w \in Workers :
        \/ \E i \in DOMAIN authCodes : ExchangeCheck(w, i)
        \/ \E k \in Credentials, asked \in SUBSET ServiceScopes : ServiceCheck(w, k, asked)
        \/ \E t \in DOMAIN oauthTokens : IntrospectRead(w, t)
        \/ Exchange(w) \/ IssueServiceToken(w) \/ IntrospectSave(w)
        \/ Abandon(w) /\ UNCHANGED oauthVars
    \/ \E k \in Credentials :
        \/ RotateCredential(k) \/ DeactivateCredential(k)
        \/ \E scopes \in SUBSET ServiceScopes : CreateCredential(k, scopes)
    \/ \E t \in DOMAIN oauthTokens : Revoke(t) \/ RotateToken(t)
    \/ OAuthExpire

OAuthSpec == RequestsInit /\ OAuthInit /\ [][OAuthNext]_<<requestVars, oauthVars>>

-----------------------------------------------------------------------------
(* A revoked record stays revoked: an introspection that read it before    *)
(* the revocation saves only its last_seen_at.                             *)
RevocationIsFinal ==
    [][\A t \in DOMAIN oauthTokens : oauthTokens[t].revoked => oauthTokens'[t].revoked]_oauthTokens

(* A token carries the scope its user authorized, through rotations too,   *)
(* or a part of what its service credential was created with; and asking   *)
(* for less once takes nothing from the credential.                        *)
ScopesAreThoseGranted ==
    [][/\ \A t \in DOMAIN oauthTokens' \ DOMAIN oauthTokens :
            IF oauthTokens'[t].kind = "service"
            THEN oauthTokens'[t].scope \subseteq credential[oauthTokens'[t].credential].scopes
            ELSE oauthTokens'[t].scope = authCodes[oauthTokens'[t].code].scope
       /\ \A k \in Credentials :
            credential[k] # NoCredential => credential'[k].scopes = credential[k].scopes
      ]_oauthVars

(* The authorization codes as credentials: each exchange issues one ID     *)
(* token, which is its grant.                                              *)
UsableCodes == {i \in DOMAIN authCodes : ~ authCodes[i].used /\ ~ authCodes[i].expired}
CodesHeld == [w \in Workers |-> IF Holds(w, "exchange") THEN {request[w].code} ELSE {}]
Exchanges == {<<t, oauthTokens[t].code>> :
                t \in {x \in DOMAIN oauthTokens : oauthTokens[x].kind = "id"}}

Authorizations == INSTANCE SpentCredential WITH Readers <- Workers,
    usable <- UsableCodes, ended <- DOMAIN authCodes \ UsableCodes,
    held <- CodesHeld, receipts <- Exchanges

(* The ID tokens a code was exchanged for.                                 *)
ExchangesOf(i) == Cardinality({x \in Exchanges : x[2] = i})

(* Tokens are issued only for a code that the exchange found usable, and   *)
(* no exchange that begins afterwards finds it usable.                     *)
AuthorizationCodesStaySpent == Authorizations!Spec
=============================================================================
