-------------------------- MODULE Identity_proofs ---------------------------
(***************************************************************************)
(* The OpenID provider, the SCIM directory and the assurance ledger for    *)
(* any workers, users, scopes, identifiers and number of requests.         *)
(***************************************************************************)
EXTENDS OidcProvider, ScimDirectory, IdentityHardening, Requests_proofs

(***************************************************************************)
(* A consent evaluation is justified, and a signing key has the status of  *)
(* its last call unless an edit crossed one.  KeysOK adds what an open     *)
(* edit of a key holds; EvalOK follows the scopes an evaluation has ruled  *)
(* out from one read to the next.                                          *)
(***************************************************************************)

KeysOK ==
    /\ signingKeys \in Seq(KeyStatuses)
    /\ keyCalls \in Seq([last: KeyStatuses, crossed: BOOLEAN])
    /\ Len(keyCalls) = Len(signingKeys)
    /\ \A w \in Workers : Holds(w, "saveKey") =>
         /\ request[w].id \in 1..Len(signingKeys)
         /\ request[w].row \in KeyStatuses
         /\ \/ keyCalls[request[w].id].crossed
            \/ request[w].row = keyCalls[request[w].id].last

EvalOK(w) ==
    /\ Holds(w, "readScopes") =>
         /\ request[w].asked \subseteq OAuthScopes
         /\ request[w].silent => request[w].asked \subseteq excused[w]
    /\ Holds(w, "readConsents") =>
         /\ request[w].asked \subseteq OAuthScopes
         /\ request[w].asked \ request[w].required \subseteq excused[w]
    /\ Holds(w, "answer") => request[w].asked \ request[w].missing \subseteq excused[w]

OidcInv ==
    /\ request = [w \in Workers |-> request[w]]
    /\ KeysOK
    /\ KeysFollowTheirCalls
    /\ \A w \in Workers : EvalOK(w)

keyVars == <<signingKeys, keyCalls>>

-----------------------------------------------------------------------------
LEMMA InitOidcInv == RequestsInit /\ OidcInit => OidcInv
BY DEF RequestsInit, OidcInit, OidcInv, KeysOK, KeysFollowTheirCalls, EvalOK, Holds, Idle

(* A step never takes an excuse away, and adds those of the new state.     *)
LEMMA WatchGrows ==
    ASSUME Watch, NEW w \in Workers, Evaluates(request'[w])
    PROVE  /\ Evaluates(request[w]) => excused[w] \subseteq excused'[w]
           /\ \A s \in OAuthScopes : Excuse(s)' => s \in excused'[w]
BY DEF Watch

LEMMA EvalKept ==
    ASSUME Watch, NEW w \in Workers, EvalOK(w),
           request'[w] = request[w] \/ ~Evaluates(request'[w])
    PROVE  EvalOK(w)'
<1>1. CASE ~Evaluates(request'[w])
  BY <1>1 DEF EvalOK, Evaluates, Holds
<1>2. CASE request'[w] = request[w] /\ Evaluates(request'[w])
  <2>1. excused[w] \subseteq excused'[w]
    BY <1>2, WatchGrows
  <2>. QED BY <1>2, <2>1 DEF EvalOK, Holds
<1>. QED BY <1>1, <1>2

(* What the steps of the worker's own evaluation do not touch.             *)
Aside ==
    /\ request' = [w \in Workers |-> request'[w]]
    /\ \A w \in Workers : request'[w] = request[w] \/ ~Evaluates(request'[w])

LEMMA EvalAside ==
    ASSUME OidcInv, Watch, Aside
    PROVE  \A w \in Workers : EvalOK(w)'
BY EvalKept DEF OidcInv, Aside

LEMMA ServeAside ==
    ASSUME OidcInv, request' = request PROVE Aside
BY DEF OidcInv, Aside

LEMMA BeginAside ==
    ASSUME OidcInv, NEW w \in Workers, NEW held, Begin(w, held),
           held.op \notin {"readScopes", "readConsents", "answer"}
    PROVE  Aside
BY DEF OidcInv, Aside, Begin, Evaluates

LEMMA EndAside ==
    ASSUME OidcInv, NEW w \in Workers, End(w) PROVE Aside
BY DEF OidcInv, Aside, End, Proceed, Idle, Evaluates

(* A step that leaves the keys alone and opens no edit of one.             *)
LEMMA KeysKept ==
    ASSUME OidcInv, UNCHANGED keyVars,
           \A w \in Workers : request'[w] = request[w] \/ request'[w].op # "saveKey"
    PROVE  KeysOK' /\ KeysFollowTheirCalls'
BY DEF OidcInv, KeysOK, KeysFollowTheirCalls, keyVars, Holds

LEMMA RestBegins ==
    ASSUME OidcInv, Watch, NEW w \in Workers, NEW held, Begin(w, held), UNCHANGED keyVars,
           held.op \notin {"saveKey", "readScopes", "readConsents", "answer"}
    PROVE  OidcInv'
<1>1. Aside
  BY BeginAside
<1>2. KeysOK' /\ KeysFollowTheirCalls'
  BY KeysKept DEF Begin, OidcInv
<1>. QED BY <1>1, <1>2, EvalAside DEF OidcInv, Aside

LEMMA RestEnds ==
    ASSUME OidcInv, Watch, NEW w \in Workers, End(w), UNCHANGED keyVars
    PROVE  OidcInv'
<1>1. Aside
  BY EndAside
<1>2. KeysOK' /\ KeysFollowTheirCalls'
  BY KeysKept DEF End, Proceed, Idle, OidcInv
<1>. QED BY <1>1, <1>2, EvalAside DEF OidcInv, Aside

LEMMA RestServes ==
    ASSUME OidcInv, Watch, request' = request, UNCHANGED keyVars
    PROVE  OidcInv'
BY KeysKept, ServeAside, EvalAside DEF OidcInv, Aside

-----------------------------------------------------------------------------
(* The life cycle calls: a new status, and whether an edit is open.        *)
LEMMA CallStep ==
    ASSUME OidcInv, Watch, request' = request, NEW n \in DOMAIN signingKeys, NEW to \in KeyStatuses,
           signingKeys' = [signingKeys EXCEPT ![n] = to],
           keyCalls' = [keyCalls EXCEPT ![n] = [last |-> to, crossed |-> @.crossed \/ Edited(n)]]
    PROVE  OidcInv'
<1>. DEFINE Call == [last: KeyStatuses, crossed: BOOLEAN]
            call == [last |-> to, crossed |-> keyCalls[n].crossed \/ Edited(n)]
<1>1. signingKeys \in Seq(KeyStatuses) /\ keyCalls \in Seq(Call) /\ n \in 1..Len(keyCalls)
      /\ Len(keyCalls) = Len(signingKeys)
  BY DEF OidcInv, KeysOK
<1>2. keyCalls' = [keyCalls EXCEPT ![n] = call] /\ call.last = to
      /\ call.crossed = (keyCalls[n].crossed \/ Edited(n))
  OBVIOUS
<1>3. call \in Call
  BY <1>1 DEF Edited
<1>. HIDE DEF Call, call
<1>4. /\ signingKeys' \in Seq(KeyStatuses) /\ keyCalls' \in Seq(Call)
      /\ Len(signingKeys') = Len(signingKeys) /\ Len(keyCalls') = Len(keyCalls)
  BY <1>1, <1>2, <1>3
<1>5. ASSUME NEW w \in Workers, Holds(w, "saveKey")'
      PROVE  /\ request'[w].id \in 1..Len(signingKeys')
             /\ request'[w].row \in KeyStatuses
             /\ \/ keyCalls'[request'[w].id].crossed
                \/ request'[w].row = keyCalls'[request'[w].id].last
  <2>. DEFINE i == request[w].id
  <2>1. /\ Holds(w, "saveKey") /\ i \in 1..Len(keyCalls) /\ request[w].row \in KeyStatuses
        /\ keyCalls[i].crossed \/ request[w].row = keyCalls[i].last
    BY <1>5 DEF OidcInv, KeysOK, Holds
  <2>2. CASE i = n
    <3>1. Edited(n)
      BY <2>1, <2>2 DEF Edited
    <3>2. keyCalls'[i] = call
      BY <1>1, <1>2, <2>2
    <3>3. call.crossed
      BY <1>2, <3>1
    <3>. QED BY <1>1, <1>4, <2>1, <3>2, <3>3
  <2>3. CASE i # n
    <3>1. keyCalls'[i] = keyCalls[i]
      BY <1>1, <1>2, <2>1, <2>3
    <3>. QED BY <1>1, <1>4, <2>1, <3>1
  <2>. QED BY <2>2, <2>3
<1>6. KeysOK'
  BY <1>1, <1>4, <1>5 DEF KeysOK, Call
<1>7. KeysFollowTheirCalls'
  BY <1>1, <1>2, <1>4 DEF OidcInv, KeysFollowTheirCalls
<1>. QED BY <1>6, <1>7, ServeAside, EvalAside DEF OidcInv

LEMMA StepOidcInv == OidcInv /\ [OidcNext]_<<requestVars, oidcVars>> => OidcInv'
<1>. SUFFICES ASSUME OidcInv, [OidcNext]_<<requestVars, oidcVars>> PROVE OidcInv'
  OBVIOUS
<1>1. CASE UNCHANGED <<requestVars, oidcVars>>
  BY <1>1 DEF requestVars, oidcVars, OidcInv, KeysOK, KeysFollowTheirCalls, EvalOK, Holds
<1>. SUFFICES ASSUME OidcStep, Watch PROVE OidcInv'
  BY <1>1 DEF OidcNext
<1>2. ASSUME CreateKey PROVE OidcInv'
  <2>. DEFINE call == [last |-> "pending", crossed |-> FALSE]
  <2>1. /\ signingKeys' = Append(signingKeys, "pending") /\ keyCalls' = Append(keyCalls, call)
        /\ request' = request
        /\ "pending" \in KeyStatuses /\ call \in [last: KeyStatuses, crossed: BOOLEAN]
    BY <1>2 DEF CreateKey, Serve, KeyStatuses
  <2>. HIDE DEF call
  <2>2. KeysOK'
    BY <2>1 DEF OidcInv, KeysOK, Holds
  <2>3. call.last = "pending"
    BY DEF call
  <2>4. KeysFollowTheirCalls'
    BY <2>1, <2>3 DEF OidcInv, KeysOK, KeysFollowTheirCalls
  <2>. QED BY <2>1, <2>2, <2>4, ServeAside, EvalAside DEF OidcInv
<1>3. ASSUME NEW n \in DOMAIN signingKeys, DeleteKey(n) PROVE OidcInv'
  BY <1>3, CallStep DEF DeleteKey, Serve, KeyStatuses
<1>4. ASSUME NEW n \in DOMAIN signingKeys, NEW to \in LifeCycle, MoveKey(n, to) PROVE OidcInv'
  BY <1>4, CallStep DEF MoveKey, Serve, KeyStatuses
<1>5. ASSUME NEW w \in Workers, NEW n \in DOMAIN signingKeys, PatchKey(w, n) PROVE OidcInv'
  <2>. DEFINE held == Edit("saveKey", n, signingKeys[n])
  <2>1. /\ held.op = "saveKey" /\ held.id = n /\ held.row = signingKeys[n]
        /\ Begin(w, held) /\ UNCHANGED keyVars
    BY <1>5 DEF PatchKey, Edit, keyVars
  <2>. HIDE DEF held
  <2>2. request'[w] = held /\ \A v \in Workers : v # w => request'[v] = request[v]
    BY <2>1 DEF Begin, OidcInv
  <2>3. UNCHANGED <<signingKeys, keyCalls>>
    BY <2>1 DEF keyVars
  <2>4. KeysFollowTheirCalls'
    BY <2>3 DEF OidcInv, KeysFollowTheirCalls
  <2>5. \/ keyCalls[n].crossed
        \/ signingKeys[n] = keyCalls[n].last
    BY DEF OidcInv, KeysFollowTheirCalls
  <2>6. n \in 1..Len(signingKeys) /\ signingKeys[n] \in KeyStatuses
    BY DEF OidcInv, KeysOK
  <2>7. KeysOK'
    BY <2>1, <2>2, <2>3, <2>5, <2>6 DEF OidcInv, KeysOK, Holds
  <2>. QED BY <2>1, <2>4, <2>7, BeginAside, EvalAside DEF OidcInv, Aside
<1>6. ASSUME NEW w \in Workers, SaveKey(w) PROVE OidcInv'
  <2>. DEFINE n == request[w].id
              row == request[w].row
  <2>1. /\ signingKeys' = [signingKeys EXCEPT ![n] = row] /\ keyCalls' = keyCalls
        /\ request' = [request EXCEPT ![w] = Idle]
        /\ n \in 1..Len(signingKeys) /\ row \in KeyStatuses
        /\ keyCalls[n].crossed \/ row = keyCalls[n].last
    BY <1>6 DEF SaveKey, End, Proceed, OidcInv, KeysOK
  <2>. HIDE DEF n, row
  <2>2. signingKeys' \in Seq(KeyStatuses) /\ Len(signingKeys') = Len(signingKeys)
    BY <2>1 DEF OidcInv, KeysOK
  <2>3. \A v \in Workers : Holds(v, "saveKey")' => request'[v] = request[v] /\ Holds(v, "saveKey")
    BY <2>1 DEF OidcInv, Holds, Idle
  <2>4. KeysOK'
    BY <2>1, <2>2, <2>3 DEF OidcInv, KeysOK
  <2>5. KeysFollowTheirCalls'
    BY <2>1, <2>2 DEF OidcInv, KeysOK, KeysFollowTheirCalls
  <2>6. Aside
    BY <1>6, EndAside DEF SaveKey
  <2>. QED BY <2>4, <2>5, <2>6, EvalAside DEF OidcInv, Aside
<1>7. ASSUME request' = request, UNCHANGED keyVars PROVE OidcInv'
  BY <1>7, RestServes
<1>8. ASSUME NEW w \in Workers, NEW op \in {"saveScope", "saveProfile", "saveConsent"},
             NEW id, NEW row, Begin(w, Edit(op, id, row)), UNCHANGED keyVars
      PROVE  OidcInv'
  <2>. DEFINE held == Edit(op, id, row)
  <2>1. held.op = op
    BY DEF Edit
  <2>2. Begin(w, held)
    BY <1>8
  <2>. HIDE DEF held
  <2>. QED BY <1>8, <2>1, <2>2, RestBegins
<1>9. ASSUME NEW w \in Workers, End(w), UNCHANGED keyVars PROVE OidcInv'
  BY <1>9, RestEnds
<1>10. ASSUME NEW w \in Workers, NEW scopes \in SUBSET OAuthScopes, Evaluate(w, scopes)
       PROVE  OidcInv'
  <2>. DEFINE held == [op |-> "readScopes", asked |-> scopes, silent |-> screen = "not required"]
  <2>1. /\ held.op = "readScopes" /\ held.asked = scopes
        /\ held.silent = (screen = "not required")
        /\ Begin(w, held) /\ UNCHANGED <<signingKeys, screen, keyCalls>>
    BY <1>10 DEF Evaluate
  <2>. HIDE DEF held
  <2>2. request' = [request EXCEPT ![w] = held]
    BY <2>1 DEF Begin
  <2>3. KeysOK' /\ KeysFollowTheirCalls'
    BY <2>1, <2>2, KeysKept DEF OidcInv, keyVars
  <2>4. request'[w] = held /\ Evaluates(request'[w])
    BY <2>1, <2>2 DEF OidcInv, Evaluates
  <2>5. held.silent => scopes \subseteq excused'[w]
    BY <2>1, <2>4, WatchGrows DEF Excuse
  <2>6. EvalOK(w)'
    BY <2>1, <2>4, <2>5 DEF EvalOK, Holds
  <2>7. \A v \in Workers : v # w => EvalOK(v)'
    BY <2>2, EvalKept DEF OidcInv
  <2>. QED BY <2>2, <2>3, <2>6, <2>7 DEF OidcInv
<1>11. ASSUME NEW w \in Workers, ReadScopes(w) PROVE OidcInv'
  <2>. DEFINE e == request[w]
              required == IF e.silent THEN {} ELSE {s \in e.asked : AsksConsent(s)}
              held == [op |-> "readConsents", asked |-> e.asked, required |-> required]
  <2>1. /\ held.op = "readConsents" /\ held.asked = e.asked /\ held.required = required
        /\ request' = [request EXCEPT ![w] = held]
        /\ UNCHANGED <<signingKeys, scopeRows, keyCalls>> /\ Holds(w, "readScopes")
    BY <1>11 DEF ReadScopes, Proceed
  <2>. HIDE DEF held
  <2>2. KeysOK' /\ KeysFollowTheirCalls'
    BY <2>1, KeysKept DEF OidcInv, keyVars
  <2>3. request'[w] = held /\ Evaluates(request'[w]) /\ Evaluates(request[w])
    BY <2>1 DEF OidcInv, Evaluates, Holds
  <2>4. e.asked \subseteq OAuthScopes /\ (e.silent => e.asked \subseteq excused[w])
    BY <2>1 DEF OidcInv, EvalOK
  <2>5. ASSUME NEW s \in e.asked, ~AsksConsent(s) PROVE s \in excused'[w]
    <3>1. Excuse(s)'
      BY <2>1, <2>5 DEF Excuse, AsksConsent
    <3>. QED BY <2>3, <2>4, <3>1, WatchGrows
  <2>6. e.asked \ required \subseteq excused'[w]
    BY <2>3, <2>4, <2>5, WatchGrows
  <2>7. EvalOK(w)'
    BY <2>1, <2>3, <2>4, <2>6 DEF EvalOK, Holds
  <2>8. \A v \in Workers : v # w => EvalOK(v)'
    BY <2>1, EvalKept DEF OidcInv
  <2>. QED BY <2>1, <2>2, <2>7, <2>8 DEF OidcInv
<1>12. ASSUME NEW w \in Workers, ReadConsents(w) PROVE OidcInv'
  <2>. DEFINE e == request[w]
              held == [op |-> "answer", asked |-> e.asked,
                       missing |-> e.required \ ConsentedScopes]
  <2>1. /\ held.op = "answer" /\ held.asked = e.asked
        /\ held.missing = e.required \ ConsentedScopes
        /\ request' = [request EXCEPT ![w] = held]
        /\ UNCHANGED <<signingKeys, consents, keyCalls>> /\ Holds(w, "readConsents")
    BY <1>12 DEF ReadConsents, Proceed
  <2>. HIDE DEF held
  <2>2. KeysOK' /\ KeysFollowTheirCalls'
    BY <2>1, KeysKept DEF OidcInv, keyVars
  <2>3. request'[w] = held /\ Evaluates(request'[w]) /\ Evaluates(request[w])
    BY <2>1 DEF OidcInv, Evaluates, Holds
  <2>4. e.asked \subseteq OAuthScopes /\ e.asked \ e.required \subseteq excused[w]
    BY <2>1 DEF OidcInv, EvalOK
  <2>5. ASSUME NEW s \in e.asked, s \in ConsentedScopes PROVE s \in excused'[w]
    <3>1. Excuse(s)'
      BY <2>1, <2>5 DEF Excuse, ConsentedScopes, Rows
    <3>. QED BY <2>3, <2>4, <3>1, WatchGrows
  <2>6. e.asked \ held.missing \subseteq excused'[w]
    BY <2>1, <2>3, <2>4, <2>5, WatchGrows
  <2>7. EvalOK(w)'
    BY <2>1, <2>3, <2>6 DEF EvalOK, Holds
  <2>8. \A v \in Workers : v # w => EvalOK(v)'
    BY <2>1, EvalKept DEF OidcInv
  <2>. QED BY <2>1, <2>2, <2>7, <2>8 DEF OidcInv
<1>13. ASSUME \/ DeleteProfile
              \/ \E s \in OAuthScopes : DeleteScope(s) \/ \E row \in ScopeRow : DefineScope(s, row)
              \/ \E to \in Screens : CreateProfile(to)
              \/ \E scopes \in SUBSET OAuthScopes : GiveConsent(scopes)
              \/ \E n \in DOMAIN consents :
                   RevokeConsent(n) \/ DeleteConsent(n) \/ ConsentExpires(n)
       PROVE  request' = request /\ UNCHANGED keyVars
  BY <1>13 DEF DeleteProfile, DeleteScope, DefineScope, CreateProfile, GiveConsent, RevokeConsent,
               DeleteConsent, ConsentExpires, Serve, requestVars, keyVars
<1>14. ASSUME NEW w \in Workers, \/ SaveScope(w) \/ SaveProfile(w) \/ SaveConsent(w)
                                 \/ AnswerEvaluation(w)
                                 \/ Abandon(w) /\ UNCHANGED <<signingKeys, scopeRows, screen,
                                                              consents, keyCalls>>
       PROVE  End(w) /\ UNCHANGED keyVars
  BY <1>14 DEF SaveScope, SaveProfile, SaveConsent, AnswerEvaluation, Abandon, keyVars
<1>15. ASSUME NEW w \in Workers, NEW s \in OAuthScopes, NEW field \in {"active", "asks"},
              NEW to \in BOOLEAN, PatchScope(w, s, field, to)
       PROVE  OidcInv'
  BY <1>15, <1>8 DEF PatchScope, keyVars
<1>16. ASSUME NEW w \in Workers, NEW to \in Screens, PatchProfile(w, to) PROVE OidcInv'
  BY <1>16, <1>8 DEF PatchProfile, keyVars
<1>17. ASSUME NEW w \in Workers, NEW n \in DOMAIN consents, NEW scopes \in SUBSET OAuthScopes,
              PatchConsent(w, n, scopes)
       PROVE  OidcInv'
  BY <1>17, <1>8 DEF PatchConsent, keyVars
<1>. QED
  BY <1>2, <1>3, <1>4, <1>5, <1>6, <1>7, <1>9, <1>10, <1>11, <1>12, <1>13, <1>14, <1>15,
     <1>16, <1>17 DEF OidcStep

-----------------------------------------------------------------------------
(* An evaluation that finds nothing missing had, for every scope it was    *)
(* asked about, a reason not to ask at some moment while it ran            *)
(* (oidc_provider/views.py:178).                                           *)
THEOREM EvaluationsAreJustified == OidcSpec => []ConsentIsJustified
<1>1. OidcInv => ConsentIsJustified
  BY DEF OidcInv, EvalOK, ConsentIsJustified
<1>. QED BY <1>1, InitOidcInv, StepOidcInv, PTL DEF OidcSpec

(* A key has the status of its last life cycle call, unless an edit of the *)
(* key was open when a call was made (oidc_provider/models.py:63).         *)
THEOREM KeysKeepTheirStatus == OidcSpec => []KeysFollowTheirCalls
<1>1. OidcInv => KeysFollowTheirCalls
  BY DEF OidcInv
<1>. QED BY <1>1, InitOidcInv, StepOidcInv, PTL DEF OidcSpec

(***************************************************************************)
(* The directory.  CreationsAreTold is inductive once the workers that are *)
(* about to tell of a creation count as well (Tellers).                    *)
(***************************************************************************)

EventTypes == {"user_created", "user_updated", "user_deactivated"}
ApplicationRequest == [op: {"application"}, new: ScimApplication]
UpsertRequest == [op: {"upsert"}, id: ExternalIds, active: BOOLEAN, app: ScimApplication]
StoreRequest == [op: {"store"}, id: ExternalIds, active: BOOLEAN, seen: BOOLEAN]
LedgerRequest == [op: {"ledger"}, id: ExternalIds, type: EventTypes]
UserRequest == [op: {"user"}, id: ExternalIds, new: DirectoryUser]
MembersRequest == [op: {"members"}, todo: SUBSET ExternalIds]

(* What a worker holds of the directory, "made" tokens being made so far.  *)
ScimHeld(held, made) ==
    /\ held.op = "application" => held \in ApplicationRequest /\ held.new.token <= made
    /\ held.op = "upsert" => held \in UpsertRequest
    /\ held.op = "store" => held \in StoreRequest
    /\ held.op = "ledger" => held \in LedgerRequest
    /\ held.op = "user" => held \in UserRequest
    /\ held.op = "members" => held \in MembersRequest

(* The workers about to tell of a creation.                                *)
TellsOf(held, x) == held.op = "ledger" /\ held.type = "user_created" /\ held.id = x
Tellers(x) == {w \in Workers : TellsOf(request[w], x)}

(* The creations told of.                                                  *)
CreatedEvent(x) == [type |-> "user_created", id |-> x]
Told(x) == {n \in DOMAIN ledger : ledger[n] = CreatedEvent(x)}

ScimInv ==
    /\ RequestsOK /\ handedOut \in Nat /\ ScimTypes
    /\ \A w \in Workers : ScimHeld(request[w], handedOut)
    /\ \A x \in ExternalIds : Cardinality(Told(x)) + Cardinality(Tellers(x)) <= births[x]

-----------------------------------------------------------------------------
LEMMA ToldAreFinite ==
    ASSUME ScimInv
    PROVE  /\ \A x : IsFiniteSet(Told(x)) /\ IsFiniteSet(Tellers(x))
           /\ \A x \in ExternalIds : births[x] \in Nat
<1>1. IsFiniteSet(DOMAIN ledger)
  <2>1. DOMAIN ledger = 1 .. Len(ledger) /\ Len(ledger) \in Nat
    BY DEF ScimInv, ScimTypes
  <2>. QED BY <2>1, FS_Interval
<1>2. ASSUME NEW x PROVE IsFiniteSet(Told(x)) /\ IsFiniteSet(Tellers(x))
  <2>1. Told(x) \in SUBSET DOMAIN ledger /\ Tellers(x) \in SUBSET Workers
    BY DEF Told, Tellers
  <2>. QED BY <1>1, <2>1, WorkersAreFinite, FS_Subset
<1>. QED BY <1>2 DEF ScimInv, ScimTypes

LEMMA InitScimInv == RequestsInit /\ ScimInit => ScimInv
<1>. SUFFICES ASSUME RequestsInit, ScimInit PROVE ScimInv
  OBVIOUS
<1>1. \A w \in Workers : request[w].op = "idle"
  BY DEF RequestsInit, Idle
<1>2. ScimTypes /\ handedOut \in Nat
  BY DEF ScimInit, ScimTypes, ScimApplication, DirectoryGroup
<1>3. \A x \in ExternalIds : Told(x) = {} /\ Tellers(x) = {} /\ births[x] = 0
  BY <1>1 DEF Told, Tellers, TellsOf, ScimInit
<1>4. \A x \in ExternalIds : Cardinality(Told(x)) + Cardinality(Tellers(x)) <= births[x]
  BY <1>3, FS_EmptySet
<1>. QED BY <1>1, <1>2, <1>4, InitRequests DEF ScimInv, ScimHeld

LEMMA KnownEntry ==
    ASSUME ScimTypes, NEW x \in ExternalIds
    PROVE  Known(x) \in BOOLEAN /\ (Known(x) => directory[x] \in DirectoryUser)
<1>1. directory[x] \in DirectoryUser \/ directory[x] = NoEntry
  BY DEF ScimTypes
<1>2. NoEntry.there = FALSE /\ \A row \in DirectoryUser : row.there = TRUE
  BY DEF NoEntry, DirectoryUser
<1>. QED BY <1>1, <1>2 DEF Known

(* A step that hands no worker a creation to tell of, and tells of none.   *)
LEMMA NothingTold ==
    ASSUME ScimInv, ScimTypes', RequestsOK', handedOut' \in Nat, handedOut <= handedOut',
           \A w \in Workers : \/ request'[w] = request[w]
                              \/ /\ ScimHeld(request'[w], handedOut')
                                 /\ \A x \in ExternalIds : ~ TellsOf(request'[w], x),
           \A x \in ExternalIds : Told(x)' \in SUBSET Told(x) /\ births[x] <= births'[x]
    PROVE  ScimInv'
<1>1. \A w \in Workers : ScimHeld(request'[w], handedOut')
  BY DEF ScimInv, ScimHeld, ApplicationRequest, ScimApplication
<1>2. ASSUME NEW x \in ExternalIds
      PROVE  Cardinality(Told(x)') + Cardinality(Tellers(x)') <= births'[x]
  <2>1. Tellers(x)' \in SUBSET Tellers(x)
    BY DEF Tellers
  <2>2. births[x] \in Nat /\ births'[x] \in Nat /\ births[x] <= births'[x]
    BY ToldAreFinite DEF ScimTypes
  <2>3. IsFiniteSet(Told(x)) /\ IsFiniteSet(Tellers(x))
    BY ToldAreFinite
  <2>4. Cardinality(Told(x)) + Cardinality(Tellers(x)) <= births'[x]
    BY <2>2, <2>3, FS_CardinalityType DEF ScimInv
  <2>. QED BY <2>1, <2>2, <2>3, <2>4, PairShrinks
<1>. QED BY <1>1, <1>2 DEF ScimInv

(* The events that name no user.                                           *)
Quiet == {"token_rotated", "running", "completed", "group_updated"}

QuietLedger ==
    UNCHANGED ledger \/ \E type \in Quiet : ledger' = Append(ledger, [type |-> type, id |-> ""])

LEMMA ToldSame ==
    ASSUME ScimTypes, QuietLedger
    PROVE  ledger' \in Seq(ScimEvent) /\ \A x : Told(x)' \in SUBSET Told(x)
<1>1. CASE UNCHANGED ledger
  BY <1>1 DEF Told, ScimTypes
<1>2. ASSUME NEW type \in Quiet, ledger' = Append(ledger, [type |-> type, id |-> ""])
      PROVE  ledger' \in Seq(ScimEvent) /\ \A x : Told(x)' \in SUBSET Told(x)
  <2>. DEFINE e == [type |-> type, id |-> ""]
  <2>1. e \in ScimEvent /\ e.type # "user_created"
    BY DEF Quiet, ScimEvent
  <2>2. ledger' = Append(ledger, e) /\ ledger \in Seq(ScimEvent)
    BY <1>2 DEF ScimTypes
  <2>. HIDE DEF e
  <2>3. /\ DOMAIN ledger' = 1 .. Len(ledger) + 1 /\ DOMAIN ledger = 1 .. Len(ledger)
        /\ ledger'[Len(ledger) + 1] = e /\ \A n \in DOMAIN ledger : ledger'[n] = ledger[n]
        /\ ledger' \in Seq(ScimEvent)
    BY <2>1, <2>2
  <2>4. \A x : e # CreatedEvent(x)
    BY <2>1 DEF CreatedEvent
  <2>5. \A x : Told(x)' \in SUBSET Told(x)
    BY <2>3, <2>4 DEF Told
  <2>. QED BY <2>3, <2>5
<1>. QED BY <1>1, <1>2 DEF QuietLedger

(* What a step hands on: nothing, a request in good order, or an end.      *)
HandsOn ==
    \A w \in Workers : \/ request'[w] = request[w]
                       \/ /\ ScimHeld(request'[w], handedOut')
                          /\ \A x \in ExternalIds : ~ TellsOf(request'[w], x)

LEMMA HandedOn ==
    ASSUME ScimInv, NEW w \in Workers, NEW held, Begin(w, held) \/ Proceed(w, held),
           ScimHeld(held, handedOut'), \A x \in ExternalIds : ~ TellsOf(held, x)
    PROVE  RequestsOK' /\ HandsOn
BY HeldNext DEF ScimInv, HandsOn

LEMMA Ended ==
    ASSUME ScimInv, NEW w \in Workers, End(w) PROVE RequestsOK' /\ HandsOn
<1>1. RequestsOK' /\ request' = [request EXCEPT ![w] = Idle]
  BY EndSpares DEF ScimInv, End, Proceed, RequestsOK
<1>2. ScimHeld(Idle, handedOut') /\ \A x \in ExternalIds : ~ TellsOf(Idle, x)
  BY DEF ScimHeld, TellsOf, Idle
<1>. QED BY <1>1, <1>2 DEF HandsOn, ScimInv, RequestsOK

(* A step that may write an event, but not of a creation.                  *)
LEMMA QuietScimStep ==
    ASSUME ScimInv, RequestsOK', HandsOn, ScimTypes', handedOut' \in Nat,
           handedOut <= handedOut', \A x \in ExternalIds : births[x] <= births'[x],
           QuietLedger
    PROVE  ScimInv'
<1>1. \A x : Told(x)' \in SUBSET Told(x)
  BY ToldSame DEF ScimInv
<1>. QED BY <1>1, NothingTold DEF HandsOn

LEMMA OneMoreBorn ==
    ASSUME ScimTypes, NEW x \in ExternalIds, births' = [births EXCEPT ![x] = @ + 1]
    PROVE  births' \in [ExternalIds -> Nat] /\ \A y \in ExternalIds : births[y] <= births'[y]
<1>1. births \in [ExternalIds -> Nat]
  BY DEF ScimTypes
<1>. QED BY <1>1

LEMMA ServedStep ==
    ASSUME ScimInv,
           \/ RotateScimToken \/ AskSync
           \/ \E status \in {"active", "revoked"} : SetApplicationStatus(status)
           \/ \E n \in DOMAIN syncJobs, status \in {"running", "completed"} : MarkSync(n, status)
           \/ \E x \in ExternalIds : PostDirectoryUser(x) \/ DeleteDirectoryUser(x)
    PROVE  ScimInv'
<1>0. RequestsOK' /\ HandsOn
  BY DEF RotateScimToken, AskSync, SetApplicationStatus, MarkSync, PostDirectoryUser,
         DeleteDirectoryUser, RequestsOK, HandsOn, Serve, ScimInv
<1>9. ScimTypes /\ handedOut \in Nat /\ \A x \in ExternalIds : births[x] \in Nat
  BY DEF ScimInv, ScimTypes
<1>1. CASE RotateScimToken
  <2>1. application' = [application EXCEPT !.token = handedOut + 1]
    BY <1>1 DEF RotateScimToken
  <2>2. handedOut' = handedOut + 1 /\ UNCHANGED <<directory, group, syncJobs, births>>
    BY <1>1 DEF RotateScimToken
  <2>3. QuietLedger
    BY <1>1 DEF RotateScimToken, QuietLedger, Quiet
  <2>4. handedOut' \in Nat \ {0} /\ handedOut <= handedOut' /\ handedOut' <= handedOut'
    BY <1>9, <2>2
  <2>5. application' \in ScimApplication /\ application'.token <= handedOut'
    <3>1. /\ application' = [application EXCEPT !.token = handedOut']
          /\ application \in ScimApplication
      BY <1>9, <2>1, <2>2 DEF ScimTypes
    <3>2. application' \in ScimApplication /\ application'.token = handedOut'
      BY <2>4, <3>1 DEF ScimApplication
    <3>. QED BY <2>4, <3>2
  <2>6. ledger' \in Seq(ScimEvent)
    BY <1>9, <2>3, ToldSame
  <2>7. ScimTypes'
    BY <1>9, <2>2, <2>5, <2>6 DEF ScimTypes
  <2>8. \A x \in ExternalIds : births[x] <= births'[x]
    BY <1>9, <2>2
  <2>. QED BY <1>0, <2>3, <2>4, <2>7, <2>8, QuietScimStep
<1>2. CASE AskSync
  <2>1. /\ syncJobs' = Append(syncJobs, "queued")
        /\ UNCHANGED <<application, handedOut, directory, group, ledger, births>>
    BY <1>2 DEF AskSync
  <2>2. ScimTypes'
    BY <1>9, <2>1 DEF ScimTypes, ScimSyncJob
  <2>. QED BY <1>0, <1>9, <2>1, <2>2, QuietScimStep DEF QuietLedger
<1>3. ASSUME NEW status \in {"active", "revoked"}, SetApplicationStatus(status) PROVE ScimInv'
  <2>1. /\ application' = [application EXCEPT !.status = status]
        /\ UNCHANGED <<handedOut, directory, group, ledger, syncJobs, births>>
    BY <1>3 DEF SetApplicationStatus
  <2>2. application' \in ScimApplication /\ application'.token = application.token
    BY <1>9, <2>1 DEF ScimTypes, ScimApplication
  <2>3. ScimTypes'
    BY <1>9, <2>1, <2>2 DEF ScimTypes
  <2>. QED BY <1>0, <1>9, <2>1, <2>3, QuietScimStep DEF QuietLedger
<1>4. ASSUME NEW n \in DOMAIN syncJobs, NEW status \in {"running", "completed"},
             MarkSync(n, status)
      PROVE  ScimInv'
  <2>1. /\ syncJobs' = [syncJobs EXCEPT ![n] = status] /\ QuietLedger
        /\ UNCHANGED <<application, handedOut, directory, group, births>>
    BY <1>4 DEF MarkSync, QuietLedger, Quiet
  <2>2. syncJobs' \in Seq(ScimSyncJob)
    <3>1. status \in ScimSyncJob /\ syncJobs \in Seq(ScimSyncJob)
      BY <1>9 DEF ScimTypes, ScimSyncJob
    <3>. QED BY <2>1, <3>1, RowReplaced
  <2>3. ledger' \in Seq(ScimEvent)
    BY <1>9, <2>1, ToldSame
  <2>4. ScimTypes'
    BY <1>9, <2>1, <2>2, <2>3 DEF ScimTypes
  <2>. QED BY <1>0, <1>9, <2>1, <2>4, QuietScimStep
<1>5. ASSUME NEW x \in ExternalIds, PostDirectoryUser(x) PROVE ScimInv'
  <2>1. /\ directory' = [directory EXCEPT ![x] = Entry(TRUE)]
        /\ births' = [births EXCEPT ![x] = @ + 1]
        /\ UNCHANGED <<application, handedOut, group, ledger, syncJobs>>
    BY <1>5 DEF PostDirectoryUser
  <2>2. Entry(TRUE) \in DirectoryUser
    BY DEF Entry, DirectoryUser
  <2>3. births' \in [ExternalIds -> Nat] /\ \A y \in ExternalIds : births[y] <= births'[y]
    BY <1>9, <2>1, OneMoreBorn
  <2>4. ScimTypes'
    BY <1>9, <2>1, <2>2, <2>3 DEF ScimTypes
  <2>. QED BY <1>0, <1>9, <2>1, <2>3, <2>4, QuietScimStep DEF QuietLedger
<1>6. ASSUME NEW x \in ExternalIds, DeleteDirectoryUser(x) PROVE ScimInv'
  <2>1. /\ directory' = [directory EXCEPT ![x] = NoEntry]
        /\ group' = [group EXCEPT !.members = @ \ {x}]
        /\ UNCHANGED <<application, handedOut, ledger, syncJobs, births>>
    BY <1>6 DEF DeleteDirectoryUser
  <2>2. group' \in DirectoryGroup
    BY <1>9, <2>1 DEF ScimTypes, DirectoryGroup
  <2>3. ScimTypes'
    BY <1>9, <2>1, <2>2 DEF ScimTypes
  <2>. QED BY <1>0, <1>9, <2>1, <2>3, QuietScimStep DEF QuietLedger
<1>. QED BY <1>1, <1>2, <1>3, <1>4, <1>5, <1>6

(* The steps that read, and keep what they read.                           *)
LEMMA ReadStep ==
    ASSUME ScimInv, NEW w \in Workers,
           \/ \E c \in Abilities, u \in Abilities : PatchApplicationRead(w, c, u)
           \/ \E x \in ExternalIds, active \in BOOLEAN, token \in 1..handedOut :
                CallUpsert(w, x, active, token)
           \/ \E x \in ExternalIds, active \in BOOLEAN : PatchDirectoryUserRead(w, x, active)
           \/ CheckAbilities(w)
           \/ Abandon(w) /\ UNCHANGED scimVars
    PROVE  ScimInv'
<1>. SUFFICES ASSUME UNCHANGED scimVars, RequestsOK' /\ HandsOn PROVE ScimInv'
  <2>1. ASSUME NEW c \in Abilities, NEW u \in Abilities, PatchApplicationRead(w, c, u)
        PROVE  UNCHANGED scimVars /\ RequestsOK' /\ HandsOn
    <3>. DEFINE new == [application EXCEPT !.mayCreate = c, !.mayUpdate = u]
                held == [op |-> "application", new |-> new]
    <3>1. new \in ScimApplication /\ new.token <= handedOut
      BY DEF ScimInv, ScimTypes, ScimApplication
    <3>. HIDE DEF new
    <3>2. ScimHeld(held, handedOut) /\ \A x \in ExternalIds : ~ TellsOf(held, x)
      BY <3>1 DEF ScimHeld, TellsOf, ApplicationRequest
    <3>3. Begin(w, held) /\ UNCHANGED scimVars
      BY <2>1 DEF PatchApplicationRead, new
    <3>. HIDE DEF held
    <3>. QED BY <3>2, <3>3, HandedOn DEF scimVars
  <2>2. ASSUME NEW x \in ExternalIds, NEW active \in BOOLEAN, NEW token \in 1..handedOut,
               CallUpsert(w, x, active, token)
        PROVE  UNCHANGED scimVars /\ RequestsOK' /\ HandsOn
    <3>. DEFINE held == [op |-> "upsert", id |-> x, active |-> active, app |-> application]
    <3>2. ScimHeld(held, handedOut) /\ \A y \in ExternalIds : ~ TellsOf(held, y)
      BY DEF ScimHeld, TellsOf, UpsertRequest, ScimInv, ScimTypes
    <3>3. Begin(w, held) /\ UNCHANGED scimVars
      BY <2>2 DEF CallUpsert
    <3>. HIDE DEF held
    <3>. QED BY <3>2, <3>3, HandedOn DEF scimVars
  <2>3. ASSUME NEW x \in ExternalIds, NEW active \in BOOLEAN,
               PatchDirectoryUserRead(w, x, active)
        PROVE  UNCHANGED scimVars /\ RequestsOK' /\ HandsOn
    <3>. DEFINE new == [directory[x] EXCEPT !.active = active]
                held == [op |-> "user", id |-> x, new |-> new]
    <3>4. directory[x] \in DirectoryUser
      BY <2>3, KnownEntry DEF PatchDirectoryUserRead, ScimInv
    <3>1. new \in DirectoryUser
      BY <3>4 DEF DirectoryUser
    <3>. HIDE DEF new
    <3>2. ScimHeld(held, handedOut) /\ \A y \in ExternalIds : ~ TellsOf(held, y)
      BY <3>1 DEF ScimHeld, TellsOf, UserRequest
    <3>3. Begin(w, held) /\ UNCHANGED scimVars
      BY <2>3 DEF PatchDirectoryUserRead, new
    <3>. HIDE DEF held
    <3>. QED BY <3>2, <3>3, HandedOn DEF scimVars
  <2>4. CASE CheckAbilities(w)
    <3>. DEFINE held == [op |-> "store", id |-> request[w].id, active |-> request[w].active,
                         seen |-> Known(request[w].id)]
    <3>1. request[w] \in UpsertRequest
      BY <2>4 DEF CheckAbilities, Holds, ScimInv, ScimHeld
    <3>5. request[w].id \in ExternalIds /\ request[w].active \in BOOLEAN
      BY <3>1 DEF UpsertRequest
    <3>4. Known(request[w].id) \in BOOLEAN
      BY <3>5, KnownEntry DEF ScimInv
    <3>2. ScimHeld(held, handedOut) /\ \A y \in ExternalIds : ~ TellsOf(held, y)
      BY <3>4, <3>5 DEF ScimHeld, TellsOf, StoreRequest
    <3>3. (End(w) \/ Proceed(w, held)) /\ UNCHANGED scimVars
      BY <2>4 DEF CheckAbilities
    <3>. HIDE DEF held
    <3>. QED BY <3>2, <3>3, HandedOn, Ended DEF scimVars
  <2>5. CASE Abandon(w) /\ UNCHANGED scimVars
    BY <2>5, Ended DEF Abandon
  <2>. QED BY <2>1, <2>2, <2>3, <2>4, <2>5
<1>1. ScimTypes' /\ handedOut' = handedOut /\ births' = births /\ ledger' = ledger
      /\ handedOut \in Nat
  BY DEF scimVars, ScimInv, ScimTypes
<1>2. \A x \in ExternalIds : births[x] \in Nat
  BY DEF ScimInv, ScimTypes
<1>. QED BY <1>1, <1>2, QuietScimStep DEF QuietLedger

(* The steps that save an application, a directory's row or a group.       *)
LEMMA SavedStep ==
    ASSUME ScimInv, NEW w \in Workers,
           \/ PatchApplicationSave(w) \/ PatchDirectoryUserSave(w) \/ RecordGroup(w)
           \/ \E x \in ExternalIds, token \in 0..handedOut : Deactivate(w, x, token)
           \/ \E members \in SUBSET ExternalIds, token \in 1..handedOut :
                UpsertGroup(w, members, token)
           \/ \E x \in ExternalIds : LinkMember(w, x)
    PROVE  ScimInv'
<1>9. ScimTypes /\ handedOut \in Nat /\ \A x \in ExternalIds : births[x] \in Nat
  BY DEF ScimInv, ScimTypes
<1>1. CASE PatchApplicationSave(w)
  <2>1. /\ End(w) /\ application' = request[w].new
        /\ UNCHANGED <<handedOut, directory, group, ledger, syncJobs, births>>
        /\ request[w] \in ApplicationRequest /\ request[w].new.token <= handedOut
    BY <1>1 DEF PatchApplicationSave, Holds, ScimInv, ScimHeld
  <2>2. ScimTypes'
    BY <1>9, <2>1 DEF ScimTypes, ApplicationRequest
  <2>. QED BY <1>9, <2>1, <2>2, Ended, QuietScimStep DEF QuietLedger
<1>2. CASE PatchDirectoryUserSave(w)
  <2>. DEFINE x == request[w].id
  <2>1. /\ End(w) /\ directory' = [directory EXCEPT ![x] = request[w].new]
        /\ births' = IF Known(x) THEN births ELSE [births EXCEPT ![x] = @ + 1]
        /\ UNCHANGED <<application, handedOut, group, ledger, syncJobs>>
        /\ request[w] \in UserRequest
    BY <1>2 DEF PatchDirectoryUserSave, Holds, ScimInv, ScimHeld
  <2>2. x \in ExternalIds /\ request[w].new \in DirectoryUser
    BY <2>1 DEF UserRequest
  <2>. HIDE DEF x
  <2>3. births' \in [ExternalIds -> Nat] /\ \A y \in ExternalIds : births[y] <= births'[y]
    BY <1>9, <2>1, <2>2 DEF ScimTypes
  <2>4. ScimTypes'
    BY <1>9, <2>1, <2>2, <2>3 DEF ScimTypes
  <2>. QED BY <1>9, <2>1, <2>3, <2>4, Ended, QuietScimStep DEF QuietLedger
<1>3. CASE RecordGroup(w)
  <2>1. /\ End(w) /\ QuietLedger
        /\ UNCHANGED <<application, handedOut, directory, group, syncJobs, births>>
    BY <1>3 DEF RecordGroup, QuietLedger, Quiet
  <2>2. ledger' \in Seq(ScimEvent)
    BY <1>9, <2>1, ToldSame
  <2>3. ScimTypes'
    BY <1>9, <2>1, <2>2 DEF ScimTypes
  <2>. QED BY <1>9, <2>1, <2>3, Ended, QuietScimStep
<1>4. ASSUME NEW x \in ExternalIds, NEW token \in 0..handedOut, Deactivate(w, x, token)
      PROVE  ScimInv'
  <2>. DEFINE held == [op |-> "ledger", id |-> x, type |-> "user_deactivated"]
              row == Deprovisioned(directory[x])
  <2>1. /\ Known(x) /\ Begin(w, held)
        /\ directory' = [directory EXCEPT ![x] = row]
        /\ UNCHANGED <<application, handedOut, group, ledger, syncJobs, births>>
    BY <1>4 DEF Deactivate
  <2>2. ScimHeld(held, handedOut) /\ \A y \in ExternalIds : ~ TellsOf(held, y)
    BY DEF ScimHeld, TellsOf, LedgerRequest, EventTypes
  <2>3. row \in DirectoryUser
    <3>1. directory[x] \in DirectoryUser
      BY <1>9, <2>1, KnownEntry
    <3>. QED BY <3>1 DEF Deprovisioned, DirectoryUser
  <2>. HIDE DEF held, row
  <2>4. ScimTypes'
    BY <1>9, <2>1, <2>3 DEF ScimTypes
  <2>. QED BY <1>9, <2>1, <2>2, <2>4, HandedOn, QuietScimStep DEF QuietLedger
<1>5. ASSUME NEW members \in SUBSET ExternalIds, NEW token \in 1..handedOut,
             UpsertGroup(w, members, token)
      PROVE  ScimInv'
  <2>. DEFINE held == [op |-> "members", todo |-> members]
  <2>1. /\ Begin(w, held) /\ group' = [group EXCEPT !.there = TRUE]
        /\ UNCHANGED <<application, handedOut, directory, ledger, syncJobs, births>>
    BY <1>5 DEF UpsertGroup
  <2>2. ScimHeld(held, handedOut) /\ \A y \in ExternalIds : ~ TellsOf(held, y)
    BY DEF ScimHeld, TellsOf, MembersRequest
  <2>. HIDE DEF held
  <2>3. group' \in DirectoryGroup
    BY <1>9, <2>1 DEF ScimTypes, DirectoryGroup
  <2>4. ScimTypes'
    BY <1>9, <2>1, <2>3 DEF ScimTypes
  <2>. QED BY <1>9, <2>1, <2>2, <2>4, HandedOn, QuietScimStep DEF QuietLedger
<1>6. ASSUME NEW x \in ExternalIds, LinkMember(w, x) PROVE ScimInv'
  <2>. DEFINE held == [request[w] EXCEPT !.todo = @ \ {x}]
  <2>1. /\ Proceed(w, held) /\ request[w] \in MembersRequest
        /\ group' = IF Known(x) THEN [group EXCEPT !.members = @ \cup {x}] ELSE group
        /\ UNCHANGED <<application, handedOut, directory, ledger, syncJobs, births>>
    BY <1>6 DEF LinkMember, Holds, ScimInv, ScimHeld
  <2>2. ScimHeld(held, handedOut) /\ \A y \in ExternalIds : ~ TellsOf(held, y)
    BY <2>1 DEF ScimHeld, TellsOf, MembersRequest
  <2>. HIDE DEF held
  <2>3. group' \in DirectoryGroup
    BY <1>9, <2>1 DEF ScimTypes, DirectoryGroup
  <2>4. ScimTypes'
    BY <1>9, <2>1, <2>3 DEF ScimTypes
  <2>. QED BY <1>9, <2>1, <2>2, <2>4, HandedOn, QuietScimStep DEF QuietLedger
<1>. QED BY <1>1, <1>2, <1>3, <1>4, <1>5, <1>6

-----------------------------------------------------------------------------
(* The row is stored, and the worker is to tell of it.                     *)
LEMMA StoreStep ==
    ASSUME ScimInv, NEW w \in Workers, StoreDirectoryUser(w) PROVE ScimInv'
<1>. DEFINE x == request[w].id
            isNew == ~ Known(x)
            held == [op |-> "ledger", id |-> x,
                     type |-> IF isNew THEN "user_created" ELSE "user_updated"]
<1>1. /\ request[w] \in StoreRequest /\ x \in ExternalIds
  BY DEF StoreDirectoryUser, Holds, ScimInv, ScimHeld, StoreRequest
<1>2. /\ Proceed(w, held) /\ directory' = [directory EXCEPT ![x] = Entry(request[w].active)]
      /\ births' = IF Known(x) THEN births ELSE [births EXCEPT ![x] = @ + 1]
      /\ UNCHANGED <<application, handedOut, group, ledger, syncJobs>>
  BY DEF StoreDirectoryUser, Created
<1>3. held \in LedgerRequest /\ held.op = "ledger" /\ held.id = x
      /\ (held.type = "user_created" <=> isNew)
  BY <1>1 DEF LedgerRequest, EventTypes
<1>9. ScimTypes /\ handedOut \in Nat /\ \A y \in ExternalIds : births[y] \in Nat
  BY DEF ScimInv, ScimTypes
<1>4. Entry(request[w].active) \in DirectoryUser
  BY <1>1 DEF Entry, DirectoryUser, StoreRequest
<1>. HIDE DEF x, isNew, held
<1>5. /\ births' \in [ExternalIds -> Nat] /\ \A y \in ExternalIds : births[y] <= births'[y]
      /\ isNew => births'[x] = births[x] + 1
  <2>1. births \in [ExternalIds -> Nat]
    BY <1>9 DEF ScimTypes
  <2>. QED BY <1>1, <1>2, <2>1 DEF isNew
<1>6. ScimTypes'
  BY <1>1, <1>2, <1>4, <1>5, <1>9 DEF ScimTypes
<1>7. /\ RequestsOK' /\ request'[w] = held
      /\ \A v \in Workers : v # w => request'[v] = request[v]
  BY <1>2, HeldNext DEF ScimInv
<1>8. \A v \in Workers : ScimHeld(request'[v], handedOut')
  <2>1. ScimHeld(held, handedOut)
    BY <1>3 DEF ScimHeld
  <2>. QED BY <1>2, <1>7, <2>1 DEF ScimInv
<1>10. ASSUME NEW y \in ExternalIds
       PROVE  Cardinality(Told(y)') + Cardinality(Tellers(y)') <= births'[y]
  <2>1. Told(y)' = Told(y)
    BY <1>2 DEF Told
  <2>2. IsFiniteSet(Told(y)) /\ IsFiniteSet(Tellers(y)) /\ births[y] \in Nat
        /\ births'[y] \in Nat /\ births[y] <= births'[y]
    BY <1>5, <1>9, ToldAreFinite
  <2>3. Cardinality(Told(y)) + Cardinality(Tellers(y)) <= births[y]
    BY DEF ScimInv
  <2>4. CASE y = x /\ isNew
    <3>1. Tellers(y)' \in SUBSET (Tellers(y) \cup {w})
      BY <1>7 DEF Tellers
    <3>2. births'[y] = births[y] + 1
      BY <1>5, <2>4
    <3>3. Cardinality(Told(y)) + Cardinality(Tellers(y)') <= births[y] + 1
      BY <2>2, <2>3, <3>1, PairGrows
    <3>. QED BY <2>1, <3>2, <3>3
  <2>5. CASE ~ (y = x /\ isNew)
    <3>1. Tellers(y)' \in SUBSET Tellers(y)
      BY <1>3, <1>7, <2>5 DEF Tellers, TellsOf
    <3>2. Cardinality(Told(y)') + Cardinality(Tellers(y)') <= births[y]
      BY <2>1, <2>2, <2>3, <3>1, PairShrinks
    <3>3. IsFiniteSet(Tellers(y)')
      BY <2>2, <3>1, FS_Subset
    <3>4. Cardinality(Told(y)') \in Nat /\ Cardinality(Tellers(y)') \in Nat
      BY <2>1, <2>2, <3>3, FS_CardinalityType
    <3>. QED BY <2>2, <3>2, <3>4
  <2>. QED BY <2>4, <2>5
<1>. QED BY <1>2, <1>6, <1>7, <1>8, <1>9, <1>10 DEF ScimInv

(* The worker tells of it, and has nothing more to tell.                   *)
LEMMA RecordEventStep ==
    ASSUME ScimInv, NEW w \in Workers, RecordEvent(w) PROVE ScimInv'
<1>. DEFINE e == [type |-> request[w].type, id |-> request[w].id]
<1>1. /\ End(w) /\ ledger' = Append(ledger, e) /\ request[w] \in LedgerRequest
      /\ UNCHANGED <<application, handedOut, directory, group, syncJobs, births>>
      /\ request[w].op = "ledger"
  BY DEF RecordEvent, Holds, ScimInv, ScimHeld
<1>2. /\ e \in ScimEvent
      /\ \A x : e = CreatedEvent(x) <=> TellsOf(request[w], x)
  BY <1>1 DEF LedgerRequest, EventTypes, ScimEvent, CreatedEvent, TellsOf
<1>. HIDE DEF e
<1>3. ledger \in Seq(ScimEvent) /\ ScimTypes
  BY DEF ScimInv, ScimTypes
<1>4. /\ ledger' \in Seq(ScimEvent) /\ DOMAIN ledger' = DOMAIN ledger \cup {Len(ledger) + 1}
      /\ ledger'[Len(ledger) + 1] = e /\ \A n \in DOMAIN ledger : ledger'[n] = ledger[n]
  BY <1>1, <1>2, <1>3, RowInserted
<1>5. ScimTypes'
  BY <1>1, <1>3, <1>4 DEF ScimTypes
<1>6. RequestsOK' /\ HandsOn /\ request'[w] = Idle
  BY <1>1, Ended, HeldNext DEF End, ScimInv
<1>7. \A v \in Workers : ScimHeld(request'[v], handedOut')
  BY <1>1, <1>6 DEF ScimInv, HandsOn
<1>8. ASSUME NEW x \in ExternalIds
      PROVE  Cardinality(Told(x)') + Cardinality(Tellers(x)') <= births'[x]
  <2>1. IsFiniteSet(Told(x)) /\ IsFiniteSet(Tellers(x)) /\ births[x] \in Nat
        /\ births'[x] = births[x]
    BY <1>1, ToldAreFinite
  <2>2. Cardinality(Told(x)) + Cardinality(Tellers(x)) <= births[x]
    BY DEF ScimInv
  <2>3. CASE e = CreatedEvent(x)
    <3>1. w \in Tellers(x)
      BY <1>2, <2>3 DEF Tellers
    <3>2. Told(x)' \in SUBSET (Told(x) \cup {Len(ledger) + 1})
      BY <1>4 DEF Told
    <3>3. Tellers(x)' \in SUBSET (Tellers(x) \ {w})
      BY <1>6 DEF Tellers, HandsOn, TellsOf, Idle
    <3>. QED BY <2>1, <2>2, <3>1, <3>2, <3>3, PairMoves
  <2>4. CASE e # CreatedEvent(x)
    <3>1. Told(x)' \in SUBSET Told(x)
      BY <1>4, <2>4 DEF Told
    <3>2. Tellers(x)' \in SUBSET Tellers(x)
      BY <1>6 DEF Tellers, HandsOn
    <3>. QED BY <2>1, <2>2, <3>1, <3>2, PairShrinks
  <2>. QED BY <2>3, <2>4
<1>. QED BY <1>1, <1>5, <1>6, <1>7, <1>8 DEF ScimInv

LEMMA StepScimInv == ScimInv /\ [ScimNext]_<<requestVars, scimVars>> => ScimInv'
<1>. SUFFICES ASSUME ScimInv, [ScimNext]_<<requestVars, scimVars>> PROVE ScimInv'
  OBVIOUS
<1>1. CASE UNCHANGED <<requestVars, scimVars>>
  BY <1>1 DEF requestVars, scimVars, ScimInv, ScimTypes, RequestsOK, Told, Tellers
<1>2. CASE ScimNext
  BY <1>2, ServedStep, ReadStep, SavedStep, StoreStep, RecordEventStep DEF ScimNext
<1>. QED BY <1>1, <1>2

(* What the directory, its ledger and the calls in flight hold at every    *)
(* moment.                                                                 *)
THEOREM ScimInvariance == ScimSpec => []ScimInv
BY InitScimInv, StepScimInv, PTL DEF ScimSpec

LEMMA InsertedIsTold == ScimInv => CreationsAreTold
<1>. SUFFICES ASSUME ScimInv, NEW x \in ExternalIds PROVE CreationsOf(x) <= births[x]
  BY DEF CreationsAreTold
<1>1. CreationsOf(x) = Cardinality(Told(x))
  BY DEF CreationsOf, Told, CreatedEvent
<1>2. IsFiniteSet(Told(x)) /\ IsFiniteSet(Tellers(x)) /\ births[x] \in Nat
  BY ToldAreFinite
<1>3. Cardinality(Told(x)) + Cardinality(Tellers(x)) <= births[x]
  BY DEF ScimInv
<1>. QED BY <1>1, <1>2, <1>3, FS_CardinalityType

(* The ledger never tells of a creation more often than a row was inserted *)
(* (scim_provisioning/serializers.py:235, :240), for any identifiers and   *)
(* any overlap of calls.                                                   *)
THEOREM CreationsWereInserted == ScimSpec => []CreationsAreTold
BY ScimInvariance, InsertedIsTold, PTL

(***************************************************************************)
(* The assurance ledger tells of every change once, and the rows stay what *)
(* their tables may hold.  IdentityInv adds what a worker holds: a row     *)
(* that fits its identifier and was inserted, or the entry it owes.        *)
(***************************************************************************)

FitsRow(id, row, n) ==
    /\ id \in PasskeyIds => row \in PasskeyCredential
    /\ id \in DeviceIds => row \in TrustedDevice
    /\ row.pk <= n

IdentityHeld(held, n) ==
    /\ held.op = "revoke" => held.id \in Ids
    /\ held.op = "save" => held.id \in Ids /\ FitsRow(held.id, held.row, n)
    /\ held.op = "tell" => held.type \in EntryTypes /\ held = Owes(held.type)

EnrolledOK == DOMAIN enrolled = Ids /\ \A id \in Ids : FitsRow(id, enrolled[id], inserted)

Counters ==
    /\ assurance \in [EntryTypes -> Nat] /\ changes \in [EntryTypes -> Nat]
    /\ lost \in [EntryTypes -> Nat]

IdentityInv ==
    /\ RequestsOK /\ inserted \in Nat /\ enrolled = [id \in Ids |-> enrolled[id]]
    /\ \A id \in Ids : FitsRow(id, enrolled[id], inserted)
    /\ proofs \in Seq(Proof) /\ Counters
    /\ \A w \in Workers : IdentityHeld(request[w], inserted)
    /\ LedgerFollowsChanges

LEMMA IdentityTyped == IdentityInv => IdentityTypes
BY DEF IdentityInv, FitsRow, Counters, IdentityTypes, Ids, IdentityAssuranceEvent

LEMMA TellingIsFinite ==
    ASSUME NEW t PROVE IsFiniteSet(Telling(t)) /\ Cardinality(Telling(t)) \in Nat
<1>1. Telling(t) \subseteq Workers
  BY DEF Telling
<1>. QED BY <1>1, WorkersAreFinite, FS_Subset, FS_CardinalityType

LEMMA InitIdentityInv == RequestsInit /\ IdentityInit => IdentityInv
<1>. SUFFICES ASSUME RequestsInit, IdentityInit PROVE IdentityInv
  OBVIOUS
<1>1. \A w \in Workers : request[w].op = "idle"
  BY DEF RequestsInit, Idle
<1>2. PICK u \in Holders : u = CHOOSE v \in Holders : TRUE
  BY SomeHolder
<1>3. ASSUME NEW id \in Ids PROVE FitsRow(id, enrolled[id], inserted)
  <2>1. enrolled[id] = [pk |-> 0, owner |-> u, status |-> "none", revokedAt |-> FALSE]
    BY <1>2 DEF IdentityInit
  <2>. QED BY <2>1 DEF FitsRow, PasskeyCredential, TrustedDevice, IdentityInit
<1>4. LedgerFollowsChanges
  <2>. SUFFICES ASSUME NEW t \in EntryTypes
                PROVE  assurance[t] + Cardinality(Telling(t)) + lost[t] = changes[t]
    BY DEF LedgerFollowsChanges
  <2>1. Telling(t) = {}
    BY <1>1 DEF Telling, Owes
  <2>. QED BY <2>1, FS_EmptySet DEF IdentityInit
<1>5. RequestsOK /\ \A w \in Workers : IdentityHeld(request[w], inserted)
  BY <1>1, InitRequests DEF IdentityHeld
<1>. QED BY <1>3, <1>4, <1>5 DEF IdentityInit, IdentityInv, Counters

(* Whose entry a worker goes on to write decides who still tells of it.    *)
LEMMA TellingMoves ==
    ASSUME RequestsOK, NEW w \in Workers, NEW held, request' = [request EXCEPT ![w] = held], NEW t
    PROVE  /\ request[w] # Owes(t) /\ held = Owes(t) =>
                Cardinality(Telling(t)') = Cardinality(Telling(t)) + 1
           /\ request[w] = Owes(t) /\ held # Owes(t) =>
                Cardinality(Telling(t)') = Cardinality(Telling(t)) - 1
           /\ request[w] # Owes(t) /\ held # Owes(t) =>
                Cardinality(Telling(t)') = Cardinality(Telling(t))
<1>0. request'[w] = held /\ \A v \in Workers : v # w => request'[v] = request[v]
  BY DEF RequestsOK
<1>1. ASSUME request[w] # Owes(t), held = Owes(t)
      PROVE  Cardinality(Telling(t)') = Cardinality(Telling(t)) + 1
  <2>1. Telling(t)' = Telling(t) \cup {w} /\ w \notin Telling(t)
    BY <1>0, <1>1 DEF Telling, Owes
  <2>. QED BY <2>1, TellingIsFinite, FS_AddElement
<1>2. ASSUME request[w] = Owes(t), held # Owes(t)
      PROVE  Cardinality(Telling(t)') = Cardinality(Telling(t)) - 1
  <2>1. Telling(t)' = Telling(t) \ {w} /\ w \in Telling(t)
    BY <1>0, <1>2 DEF Telling, Owes
  <2>. QED BY <2>1, TellingIsFinite, FS_RemoveElement
<1>3. ASSUME request[w] # Owes(t), held # Owes(t)
      PROVE  Cardinality(Telling(t)') = Cardinality(Telling(t))
  <2>1. Telling(t)' = Telling(t)
    BY <1>0, <1>3 DEF Telling, Owes
  <2>. QED BY <2>1
<1>. QED BY <1>1, <1>2, <1>3

LEMMA OwesOne == \A s, t : Owes(s) = Owes(t) => s = t
<1>1. \A s : Owes(s).type = s
  BY DEF Owes
<1>. QED BY <1>1

(* A step that hands nobody an entry to write and commits no change.       *)
LEMMA LedgerAside ==
    ASSUME IdentityInv, NEW w \in Workers, NEW held, request' = [request EXCEPT ![w] = held],
           held.op # "tell", request[w].op # "tell", UNCHANGED <<assurance, changes, lost>>
    PROVE  LedgerFollowsChanges'
<1>. SUFFICES ASSUME NEW t \in EntryTypes
              PROVE  assurance[t] + Cardinality(Telling(t)') + lost[t] = changes[t]
  BY DEF LedgerFollowsChanges
<1>1. held # Owes(t) /\ request[w] # Owes(t)
  BY DEF Owes
<1>2. Cardinality(Telling(t)') = Cardinality(Telling(t))
  BY <1>1, TellingMoves DEF IdentityInv
<1>. QED BY <1>2 DEF IdentityInv, LedgerFollowsChanges

(* A change is committed with the entry it owes.                           *)
LEMMA LedgerOwes ==
    ASSUME IdentityInv, NEW w \in Workers, NEW type \in EntryTypes, request[w].op # "tell",
           request' = [request EXCEPT ![w] = Owes(type)], Committed(type),
           UNCHANGED <<assurance, lost>>
    PROVE  LedgerFollowsChanges' /\ Counters'
<1>1. Counters /\ changes' = [changes EXCEPT ![type] = @ + 1]
  BY DEF IdentityInv, Committed
<1>2. ASSUME NEW t \in EntryTypes
      PROVE  assurance[t] + Cardinality(Telling(t)') + lost[t] = changes'[t]
  <2>1. /\ assurance[t] \in Nat /\ lost[t] \in Nat /\ changes[t] \in Nat
        /\ Cardinality(Telling(t)) \in Nat
        /\ assurance[t] + Cardinality(Telling(t)) + lost[t] = changes[t]
    BY <1>1, TellingIsFinite DEF Counters, IdentityInv, LedgerFollowsChanges
  <2>2. request[w] # Owes(t)
    BY DEF Owes
  <2>3. CASE t = type
    <3>1. changes'[t] = changes[t] + 1
      BY <1>1, <2>3 DEF Counters
    <3>2. Cardinality(Telling(t)') = Cardinality(Telling(t)) + 1
      BY <2>2, <2>3, TellingMoves DEF IdentityInv
    <3>. QED BY <2>1, <3>1, <3>2
  <2>4. CASE t # type
    <3>1. changes'[t] = changes[t]
      BY <1>1, <2>4 DEF Counters
    <3>2. Owes(type) # Owes(t)
      BY <2>4, OwesOne
    <3>3. Cardinality(Telling(t)') = Cardinality(Telling(t))
      BY <2>2, <3>2, TellingMoves DEF IdentityInv
    <3>. QED BY <2>1, <3>1, <3>3
  <2>. QED BY <2>3, <2>4
<1>. QED BY <1>1, <1>2 DEF LedgerFollowsChanges, Counters

(* An entry is written or given up.                                        *)
LEMMA LedgerSettles ==
    ASSUME IdentityInv, NEW w \in Workers, NEW type \in EntryTypes, request[w] = Owes(type),
           End(w), UNCHANGED changes,
           \/ assurance' = [assurance EXCEPT ![type] = @ + 1] /\ UNCHANGED lost
           \/ lost' = [lost EXCEPT ![type] = @ + 1] /\ UNCHANGED assurance
    PROVE  LedgerFollowsChanges' /\ Counters'
<1>1. Counters /\ request' = [request EXCEPT ![w] = Idle]
  BY DEF IdentityInv, End, Proceed
<1>2. ASSUME NEW t \in EntryTypes
      PROVE  assurance'[t] + Cardinality(Telling(t)') + lost'[t] = changes[t]
  <2>1. /\ assurance[t] \in Nat /\ lost[t] \in Nat /\ changes[t] \in Nat
        /\ Cardinality(Telling(t)) \in Nat
        /\ assurance[t] + Cardinality(Telling(t)) + lost[t] = changes[t]
    BY <1>1, TellingIsFinite DEF Counters, IdentityInv, LedgerFollowsChanges
  <2>2. Idle # Owes(t)
    <3>1. Idle.op = "idle" /\ Owes(t).op = "tell"
      BY DEF Idle, Owes
    <3>. QED BY <3>1
  <2>3. CASE t = type
    <3>1. assurance'[t] + lost'[t] = assurance[t] + lost[t] + 1
          /\ assurance'[t] \in Nat /\ lost'[t] \in Nat
      BY <1>1, <2>1, <2>3 DEF Counters
    <3>2. Cardinality(Telling(t)') = Cardinality(Telling(t)) - 1
      BY <1>1, <2>2, <2>3, TellingMoves DEF IdentityInv
    <3>. QED BY <2>1, <3>1, <3>2
  <2>4. CASE t # type
    <3>1. assurance'[t] = assurance[t] /\ lost'[t] = lost[t]
      BY <1>1, <2>4 DEF Counters
    <3>2. request[w] # Owes(t)
      BY <2>4, OwesOne
    <3>3. Cardinality(Telling(t)') = Cardinality(Telling(t))
      BY <1>1, <2>2, <3>2, TellingMoves DEF IdentityInv
    <3>. QED BY <2>1, <3>1, <3>3
  <2>. QED BY <2>3, <2>4
<1>. QED BY <1>1, <1>2 DEF LedgerFollowsChanges, Counters

LEMMA LedgerStill ==
    ASSUME IdentityInv, UNCHANGED request, UNCHANGED <<assurance, changes, lost>>
    PROVE  LedgerFollowsChanges'
BY DEF IdentityInv, LedgerFollowsChanges, Telling

(* What a step that owes nothing more needs to keep.                       *)
LEMMA IdentityKept ==
    ASSUME IdentityInv, RequestsOK', inserted' \in Nat, inserted <= inserted',
           enrolled' = [id \in Ids |-> enrolled'[id]],
           \A id \in Ids : FitsRow(id, enrolled'[id], inserted'),
           proofs' \in Seq(Proof), Counters', LedgerFollowsChanges',
           \A w \in Workers : request'[w] = request[w] \/ IdentityHeld(request'[w], inserted')
    PROVE  IdentityInv'
<1>1. ASSUME NEW w \in Workers, request'[w] = request[w] PROVE IdentityHeld(request'[w], inserted')
  <2>1. IdentityHeld(request[w], inserted) /\ inserted \in Nat
    BY DEF IdentityInv
  <2>2. ASSUME NEW id \in Ids, NEW row, FitsRow(id, row, inserted) PROVE FitsRow(id, row, inserted')
    <3>1. row.pk \in Nat
      BY <2>2 DEF FitsRow, Ids, PasskeyCredential, TrustedDevice
    <3>. QED BY <2>1, <2>2, <3>1 DEF FitsRow
  <2>. QED BY <1>1, <2>1, <2>2 DEF IdentityHeld
<1>. QED BY <1>1 DEF IdentityInv

LEMMA FittingKey ==
    ASSUME NEW id \in Ids, NEW row, NEW n, FitsRow(id, row, n) PROVE row.pk \in Nat
BY DEF FitsRow, Ids, PasskeyCredential, TrustedDevice

LEMMA FittingDeleted ==
    ASSUME NEW id \in Ids, NEW row, NEW n, FitsRow(id, row, n)
    PROVE  FitsRow(id, [row EXCEPT !.status = "none"], n)
BY DEF FitsRow, Ids, PasskeyCredential, TrustedDevice

LEMMA FittingRevoked ==
    ASSUME NEW id \in Ids, NEW row, NEW n, FitsRow(id, row, n)
    PROVE  FitsRow(id, [row EXCEPT !.status = "revoked", !.revokedAt = TRUE], n)
BY DEF FitsRow, Ids, PasskeyCredential, TrustedDevice

LEMMA FittingPatched ==
    ASSUME NEW id \in PasskeyIds \ DeviceIds, NEW row, NEW n, FitsRow(id, row, n),
           NEW status \in {"active", "disabled", "revoked"}
    PROVE  FitsRow(id, [row EXCEPT !.status = status], n)
BY DEF FitsRow, PasskeyCredential

LEMMA IdentityStep == ASSUME IdentityInv, IdentityNext PROVE IdentityInv'
<1>0. /\ RequestsOK /\ inserted \in Nat /\ enrolled = [id \in Ids |-> enrolled[id]]
      /\ \A id \in Ids : FitsRow(id, enrolled[id], inserted)
      /\ proofs \in Seq(Proof) /\ Counters
      /\ \A w \in Workers : IdentityHeld(request[w], inserted)
  BY DEF IdentityInv
<1>a. ASSUME NEW w \in Workers, NEW held, Begin(w, held) \/ Proceed(w, held)
      PROVE  /\ RequestsOK' /\ request' = [request EXCEPT ![w] = held] /\ request'[w] = held
             /\ \A v \in Workers : v # w => request'[v] = request[v]
  BY <1>0, <1>a DEF RequestsOK, Begin, Proceed
<1>b. /\ \A n : IdentityHeld(Idle, n) /\ Idle.op # "tell"
      /\ \A w, held : Begin(w, held) => request[w].op # "tell"
  BY DEF IdentityHeld, Idle, Begin
<1>c. ASSUME NEW type \in EntryTypes PROVE \A n : IdentityHeld(Owes(type), n)
  BY <1>c DEF IdentityHeld, Owes
<1>1. ASSUME NEW w \in Workers, NEW held, Begin(w, held), IdentityHeld(held, inserted),
             held.op # "tell", UNCHANGED identityVars
      PROVE  IdentityInv'
  <2>1. LedgerFollowsChanges'
    BY <1>1, <1>a, <1>b, LedgerAside DEF identityVars
  <2>. QED BY <1>0, <1>1, <1>a, <2>1, IdentityKept DEF identityVars, Counters
<1>2. ASSUME NEW w \in Workers, NEW u \in Holders, NEW id \in Ids, RevokeRead(w, u, id)
      PROVE  IdentityInv'
  <2>. DEFINE held == [op |-> "revoke", id |-> id, pk |-> enrolled[id].pk]
  <2>1. Begin(w, held) /\ UNCHANGED identityVars /\ held.op # "tell"
    BY <1>2 DEF RevokeRead
  <2>2. IdentityHeld(held, inserted)
    BY DEF IdentityHeld
  <2>. HIDE DEF held
  <2>. QED BY <1>1, <2>1, <2>2
<1>3. ASSUME NEW w \in Workers, NEW u \in Holders, NEW id \in Ids,
             NEW status \in {"active", "disabled", "revoked"}, PatchRead(w, u, id, status)
      PROVE  IdentityInv'
  <2>. DEFINE row == [enrolled[id] EXCEPT !.status = status]
              held == [op |-> "save", id |-> id, row |-> row]
  <2>1. Begin(w, held) /\ UNCHANGED identityVars /\ held.op # "tell"
    BY <1>3 DEF PatchRead
  <2>2. FitsRow(id, row, inserted)
    <3>1. CASE id \in DeviceIds
      <4>1. status = enrolled[id].status /\ enrolled[id] \in TrustedDevice
        BY <1>0, <1>3, <3>1 DEF PatchRead, FitsRow
      <4>2. row = enrolled[id]
        BY <4>1 DEF TrustedDevice
      <4>. QED BY <1>0, <4>2
    <3>2. CASE id \in PasskeyIds \ DeviceIds
      <4>1. FitsRow(id, enrolled[id], inserted)
        BY <1>0
      <4>. QED BY <3>2, <4>1, FittingPatched
    <3>. QED BY <3>1, <3>2 DEF Ids
  <2>. HIDE DEF row
  <2>3. IdentityHeld(held, inserted)
    BY <2>2 DEF IdentityHeld
  <2>. HIDE DEF held
  <2>. QED BY <1>1, <2>1, <2>3
<1>4. ASSUME NEW w \in Workers, NEW u \in Holders, NEW id \in Ids, Enroll(w, u, id)
      PROVE  IdentityInv'
  <2>. DEFINE row == [pk |-> IF There(id) THEN enrolled[id].pk ELSE inserted + 1, owner |-> u,
                      status |-> "active", revokedAt |-> There(id) /\ enrolled[id].revokedAt]
  <2>1. enrolled' = [enrolled EXCEPT ![id] = row]
    BY <1>0, <1>4 DEF Enroll
  <2>2. inserted' \in Nat /\ inserted <= inserted'
    BY <1>0, <1>4 DEF Enroll
  <2>3. FitsRow(id, row, inserted')
    <3>1. /\ enrolled[id].pk \in Nat /\ enrolled[id].pk <= inserted
          /\ enrolled[id].revokedAt \in BOOLEAN
      BY <1>0 DEF FitsRow, Ids, PasskeyCredential, TrustedDevice
    <3>2. row.pk \in Nat /\ row.pk <= inserted'
      BY <1>0, <1>4, <3>1 DEF Enroll
    <3>3. /\ row.revokedAt \in BOOLEAN /\ row.owner = u /\ row.status = "active"
          /\ row = [pk |-> row.pk, owner |-> u, status |-> "active", revokedAt |-> row.revokedAt]
      BY <3>1
    <3>. HIDE DEF row
    <3>. QED BY <3>2, <3>3 DEF FitsRow, PasskeyCredential, TrustedDevice
  <2>4. ASSUME NEW j \in Ids PROVE FitsRow(j, enrolled'[j], inserted')
    <3>1. CASE j = id
      <4>1. enrolled'[j] = row
        BY <1>0, <2>1, <3>1
      <4>. HIDE DEF row
      <4>. QED BY <2>3, <3>1, <4>1
    <3>2. CASE j # id
      <4>1. enrolled'[j] = enrolled[j] /\ FitsRow(j, enrolled[j], inserted)
        BY <1>0, <2>1, <3>2
      <4>2. enrolled[j].pk \in Nat
        BY <4>1, FittingKey
      <4>. QED BY <1>0, <2>2, <4>1, <4>2 DEF FitsRow
    <3>. QED BY <3>1, <3>2
  <2>. HIDE DEF row
  <2>5. EnrolledType(id) \in EntryTypes
    BY DEF EnrolledType, EntryTypes
  <2>6. /\ Begin(w, Owes(EnrolledType(id))) /\ Committed(EnrolledType(id))
        /\ UNCHANGED <<proofs, assurance, lost>>
    BY <1>4 DEF Enroll
  <2>7. LedgerFollowsChanges' /\ Counters'
    BY <1>a, <1>b, <2>5, <2>6, LedgerOwes
  <2>8. RequestsOK' /\ \A v \in Workers : request'[v] = request[v]
                                          \/ IdentityHeld(request'[v], inserted')
    BY <1>a, <1>c, <2>5, <2>6
  <2>9. enrolled' = [j \in Ids |-> enrolled'[j]]
    BY <1>0, <2>1
  <2>. QED BY <1>0, <2>2, <2>4, <2>6, <2>7, <2>8, <2>9, IdentityKept
<1>5. ASSUME NEW w \in Workers, RevokeSave(w) PROVE IdentityInv'
  <2>. DEFINE id == request[w].id
              row == [enrolled[id] EXCEPT !.status = "revoked", !.revokedAt = TRUE]
  <2>1. request[w].op = "revoke" /\ id \in Ids /\ UNCHANGED <<inserted, proofs, assurance, lost>>
    BY <1>0, <1>5 DEF RevokeSave, Holds, IdentityHeld
  <2>2. CASE There(id) /\ enrolled[id].pk = request[w].pk
    <3>1. enrolled' = [enrolled EXCEPT ![id] = row]
      BY <1>0, <1>5, <2>1, <2>2 DEF RevokeSave
    <3>2. Proceed(w, Owes(RevokedType(id))) /\ Committed(RevokedType(id))
      BY <1>5, <2>2 DEF RevokeSave
    <3>3. RevokedType(id) \in EntryTypes
      BY DEF RevokedType, EntryTypes
    <3>4. FitsRow(id, row, inserted)
      <4>1. FitsRow(id, enrolled[id], inserted)
        BY <1>0, <2>1
      <4>. QED BY <2>1, <4>1, FittingRevoked
    <3>. HIDE DEF row, id
    <3>5. LedgerFollowsChanges' /\ Counters'
      BY <1>a, <2>1, <3>2, <3>3, LedgerOwes
    <3>6. RequestsOK' /\ \A v \in Workers : request'[v] = request[v]
                                            \/ IdentityHeld(request'[v], inserted')
      BY <1>a, <1>c, <3>2, <3>3
    <3>7. enrolled' = [j \in Ids |-> enrolled'[j]]
          /\ \A j \in Ids : FitsRow(j, enrolled'[j], inserted)
      BY <1>0, <2>1, <3>1, <3>4
    <3>. QED BY <1>0, <2>1, <3>5, <3>6, <3>7, IdentityKept
  <2>3. CASE ~ (There(id) /\ enrolled[id].pk = request[w].pk)
    <3>1. End(w) /\ UNCHANGED <<enrolled, changes>>
      BY <1>5, <2>3 DEF RevokeSave
    <3>2. LedgerFollowsChanges'
      BY <1>a, <1>b, <2>1, <3>1, LedgerAside DEF End
    <3>. QED BY <1>0, <1>a, <1>b, <2>1, <3>1, <3>2, IdentityKept DEF End, Counters
  <2>. QED BY <2>2, <2>3
<1>6. ASSUME NEW w \in Workers, PatchSave(w) PROVE IdentityInv'
  <2>. DEFINE id == request[w].id
              row == request[w].row
  <2>1. /\ request[w].op = "save" /\ id \in Ids /\ FitsRow(id, row, inserted) /\ End(w)
        /\ UNCHANGED <<inserted, proofs, assurance, changes, lost>>
        /\ enrolled' = enrolled \/ enrolled' = [enrolled EXCEPT ![id] = row]
    BY <1>0, <1>6 DEF PatchSave, Holds, IdentityHeld
  <2>. HIDE DEF id, row
  <2>2. /\ enrolled' = [j \in Ids |-> enrolled'[j]]
        /\ \A j \in Ids : FitsRow(j, enrolled'[j], inserted)
    BY <1>0, <2>1
  <2>3. LedgerFollowsChanges'
    BY <1>a, <1>b, <2>1, LedgerAside DEF End
  <2>. QED BY <1>0, <1>a, <1>b, <2>1, <2>2, <2>3, IdentityKept DEF End, Counters
<1>7. ASSUME UNCHANGED <<request, inserted, assurance, changes, lost>>, proofs' \in Seq(Proof),
             enrolled' = [j \in Ids |-> enrolled'[j]],
             \A j \in Ids : FitsRow(j, enrolled'[j], inserted)
      PROVE  IdentityInv'
  <2>1. LedgerFollowsChanges'
    BY <1>7, LedgerStill
  <2>. QED BY <1>0, <1>7, <2>1, IdentityKept DEF Counters, RequestsOK
<1>8. ASSUME NEW u \in Holders, NEW id \in Ids, DeleteRow(u, id) PROVE IdentityInv'
  <2>. DEFINE row == [enrolled[id] EXCEPT !.status = "none"]
  <2>1. /\ enrolled' = [enrolled EXCEPT ![id] = row]
        /\ UNCHANGED <<request, inserted, assurance, changes, lost, proofs>>
    BY <1>0, <1>8 DEF DeleteRow, Serve
  <2>2. FitsRow(id, row, inserted)
    <3>1. FitsRow(id, enrolled[id], inserted)
      BY <1>0
    <3>. QED BY <3>1, FittingDeleted
  <2>. HIDE DEF row
  <2>. QED BY <1>0, <1>7, <2>1, <2>2
<1>9. ASSUME NEW w \in Workers, NEW u \in Holders, NEW t \in Triggers, NEW m \in Methods,
             SatisfyStepUp(w, u, t, m)
      PROVE  IdentityInv'
  <2>. DEFINE proof == [user |-> u, trigger |-> t, method |-> m, state |-> "valid"]
  <2>1. proof \in Proof /\ "step_up.satisfied" \in EntryTypes
    BY DEF Proof, EntryTypes
  <2>2. /\ proofs' = Append(proofs, proof) /\ Begin(w, Owes("step_up.satisfied"))
        /\ Committed("step_up.satisfied") /\ UNCHANGED <<enrolled, inserted, assurance, lost>>
    BY <1>9 DEF SatisfyStepUp
  <2>. HIDE DEF proof
  <2>3. proofs' \in Seq(Proof)
    BY <1>0, <2>1, <2>2, RowInserted
  <2>4. LedgerFollowsChanges' /\ Counters'
    BY <1>a, <1>b, <2>1, <2>2, LedgerOwes
  <2>5. RequestsOK' /\ \A v \in Workers : request'[v] = request[v]
                                          \/ IdentityHeld(request'[v], inserted')
    BY <1>a, <1>c, <2>1, <2>2
  <2>. QED BY <1>0, <2>2, <2>3, <2>4, <2>5, IdentityKept
<1>10. ASSUME NEW n \in DOMAIN proofs, RevokeStepUp(n) \/ StepUpExpires(n) PROVE IdentityInv'
  <2>1. PICK row \in Proof : proofs' = [proofs EXCEPT ![n] = row]
    <3>0. proofs[n] \in Proof
      BY <1>0
    <3>1. /\ [proofs[n] EXCEPT !.state = "revoked"] \in Proof
          /\ [proofs[n] EXCEPT !.state = "expired"] \in Proof
      BY <3>0 DEF Proof
    <3>2. \/ proofs' = [proofs EXCEPT ![n] = [proofs[n] EXCEPT !.state = "revoked"]]
          \/ proofs' = [proofs EXCEPT ![n] = [proofs[n] EXCEPT !.state = "expired"]]
      BY <1>10, <1>0 DEF RevokeStepUp, StepUpExpires
    <3>. QED BY <3>1, <3>2
  <2>2. UNCHANGED <<request, inserted, assurance, changes, lost, enrolled>>
    BY <1>10 DEF RevokeStepUp, StepUpExpires, Serve, requestVars
  <2>3. proofs' \in Seq(Proof)
    BY <1>0, <2>1, RowReplaced
  <2>. QED BY <1>0, <1>7, <2>2, <2>3
<1>11. ASSUME NEW w \in Workers, NEW type, request[w] = Owes(type), type \in EntryTypes,
              End(w), UNCHANGED <<enrolled, inserted, proofs, changes>>,
              \/ assurance' = [assurance EXCEPT ![type] = @ + 1] /\ UNCHANGED lost
              \/ lost' = [lost EXCEPT ![type] = @ + 1] /\ UNCHANGED assurance
       PROVE  IdentityInv'
  <2>1. LedgerFollowsChanges' /\ Counters'
    BY <1>11, LedgerSettles
  <2>. QED BY <1>0, <1>11, <1>a, <1>b, <2>1, IdentityKept DEF End
<1>12. ASSUME NEW w \in Workers, RecordIdentityEvent(w) PROVE IdentityInv'
  <2>1. request[w] = Owes(request[w].type) /\ request[w].type \in EntryTypes
    BY <1>0, <1>12 DEF RecordIdentityEvent, Holds, IdentityHeld
  <2>2. /\ assurance' = [assurance EXCEPT ![request[w].type] = @ + 1] /\ End(w)
        /\ UNCHANGED <<enrolled, inserted, proofs, changes, lost>>
    BY <1>12 DEF RecordIdentityEvent
  <2>. QED BY <1>11, <2>1, <2>2
<1>13. ASSUME NEW w \in Workers, WorkerDies(w) PROVE IdentityInv'
  <2>1. End(w) /\ UNCHANGED <<enrolled, inserted, proofs, assurance, changes>>
    BY <1>13 DEF WorkerDies, Abandon
  <2>2. CASE request[w].op = "tell"
    <3>1. request[w] = Owes(request[w].type) /\ request[w].type \in EntryTypes
      BY <1>0, <2>2 DEF IdentityHeld
    <3>2. lost' = [lost EXCEPT ![request[w].type] = @ + 1]
      BY <1>13, <2>2 DEF WorkerDies, Holds
    <3>. QED BY <1>11, <2>1, <3>1, <3>2
  <2>3. CASE request[w].op # "tell"
    <3>1. UNCHANGED lost
      BY <1>13, <2>3 DEF WorkerDies, Holds
    <3>2. LedgerFollowsChanges'
      BY <1>a, <1>b, <2>1, <2>3, <3>1, LedgerAside DEF End
    <3>. QED BY <1>0, <1>a, <1>b, <2>1, <3>1, <3>2, IdentityKept DEF End, Counters
  <2>. QED BY <2>2, <2>3
<1>. QED BY <1>2, <1>3, <1>4, <1>5, <1>6, <1>8, <1>9, <1>10, <1>12, <1>13 DEF IdentityNext
=============================================================================
