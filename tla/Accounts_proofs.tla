-------------------------- MODULE Accounts_proofs ---------------------------
(***************************************************************************)
(* Privacy, MFA, organizations, mailed links and OAuth for any workers,    *)
(* users, clients and scopes.  The components share the workers and no     *)
(* table; each has an inductive invariant of its own, the property and     *)
(* what a request in flight holds of the rows it will write.  The last     *)
(* section puts the five invariants together.                              *)
(***************************************************************************)
EXTENDS MCAccounts, Requests_proofs

(***************************************************************************)
(* Consent and account deletion.  The invariant adds to the two properties *)
(* what a request in flight holds: a consent under way has its record, a   *)
(* confirmation or cancellation its row.                                   *)
(***************************************************************************)

DeletionsOK ==
    /\ deletions \in Seq(AccountDeletionRequest)
    /\ isActive \in [Users -> BOOLEAN]
    /\ \A w \in Workers : Holds(w, "confirm") \/ Holds(w, "cancel") =>
         request[w].deletion \in DOMAIN deletions
    /\ ClosedMeansConfirmed

ConsentsOK ==
    /\ accepted \in [Users -> SUBSET ConsentTypes]
    /\ \A w \in Workers : Holds(w, "consent") =>
         /\ request[w].user \in Users /\ request[w].type \in ConsentTypes
         /\ request[w].granted \in BOOLEAN
         /\ [user |-> request[w].user, type |-> request[w].type,
             granted |-> request[w].granted] \in consents
    /\ AcceptanceIsOnRecord

PrivacyInv ==
    RequestsOK /\ DeletionsOK /\ ConsentsOK

deletionVars == <<deletions, isActive>>
consentVars == <<accepted, consents>>

-----------------------------------------------------------------------------
LEMMA InitPrivacyInv == RequestsInit /\ PrivacyInit => PrivacyInv
BY InitRequests DEF RequestsInit, PrivacyInit, PrivacyInv, DeletionsOK, ConsentsOK,
       ClosedMeansConfirmed,
       AcceptanceIsOnRecord, Holds, Idle

LEMMA DeletionsKept ==
    ASSUME PrivacyInv, UNCHANGED deletionVars, Spares({"confirm", "cancel"}) PROVE DeletionsOK'
BY DEF PrivacyInv, DeletionsOK, deletionVars, Spares, Holds, ClosedMeansConfirmed

LEMMA ConsentsKept ==
    ASSUME PrivacyInv, UNCHANGED consentVars, Spares({"consent"}) PROVE ConsentsOK'
BY DEF PrivacyInv, ConsentsOK, consentVars, Spares, Holds, AcceptanceIsOnRecord

(* A step that touches neither table.                                      *)
LEMMA PrivacyApart ==
    ASSUME PrivacyInv, UNCHANGED <<deletionVars, consentVars>>,
           Spares({"confirm", "cancel", "consent"})
    PROVE  PrivacyInv'
<1>1. Spares({"confirm", "cancel"}) /\ Spares({"consent"})
  BY DEF Spares
<1>. QED BY <1>1, DeletionsKept, ConsentsKept DEF PrivacyInv, RequestsOK, Spares

-----------------------------------------------------------------------------
LEMMA StepPrivacyInv == PrivacyInv /\ [PrivacyNext]_<<requestVars, privacyVars>> => PrivacyInv'
<1>. SUFFICES ASSUME PrivacyInv, [PrivacyNext]_<<requestVars, privacyVars>> PROVE PrivacyInv'
  OBVIOUS
<1>0. RequestsOK
  BY DEF PrivacyInv
<1>1. ASSUME request' = request, UNCHANGED <<deletionVars, consentVars>> PROVE PrivacyInv'
  BY <1>0, <1>1, PrivacyApart, StillSpares
<1>2. CASE UNCHANGED <<requestVars, privacyVars>>
  BY <1>1, <1>2 DEF requestVars, privacyVars, deletionVars, consentVars
<1>3. ASSUME \/ ExpireExports
             \/ \E u \in Users : RequestExport(u)
             \/ \E x \in DOMAIN exports : MarkExportReady(x) \/ PassExportExpiry(x)
      PROVE  PrivacyInv'
  BY <1>1, <1>3 DEF ExpireExports, RequestExport, MarkExportReady, PassExportExpiry, Serve,
                    requestVars, deletionVars, consentVars
<1>4. ASSUME NEW u \in Users, RequestDeletion(u) PROVE PrivacyInv'
  <2>. DEFINE new == [user |-> u, status |-> "pending", late |-> FALSE]
  <2>1. new \in AccountDeletionRequest /\ deletions' = Append(deletions, new)
        /\ UNCHANGED <<isActive, consentVars, request>>
    BY <1>4 DEF RequestDeletion, Serve, AccountDeletionRequest, DeletionStatuses, consentVars
  <2>. HIDE DEF new
  <2>2. /\ deletions' \in Seq(AccountDeletionRequest)
        /\ DOMAIN deletions \subseteq DOMAIN deletions'
        /\ \A d \in DOMAIN deletions : deletions'[d] = deletions[d]
    BY <2>1 DEF PrivacyInv, DeletionsOK
  <2>3. ClosedMeansConfirmed'
    BY <2>1, <2>2 DEF PrivacyInv, DeletionsOK, ClosedMeansConfirmed
  <2>4. DeletionsOK'
    BY <2>1, <2>2, <2>3 DEF PrivacyInv, DeletionsOK, Holds
  <2>. QED BY <1>0, <2>1, <2>4, ConsentsKept, StillSpares DEF PrivacyInv, RequestsOK
<1>5. ASSUME NEW d \in DOMAIN deletions, PassConfirmWindow(d) PROVE PrivacyInv'
  <2>. DEFINE new == [deletions[d] EXCEPT !.late = TRUE]
  <2>1. /\ deletions \in Seq(AccountDeletionRequest) /\ deletions' = [deletions EXCEPT ![d] = new]
        /\ UNCHANGED <<isActive, consentVars, request>>
    BY <1>5 DEF PassConfirmWindow, PrivacyInv, DeletionsOK, consentVars, requestVars
  <2>2. deletions[d] \in AccountDeletionRequest
    BY <2>1
  <2>3. /\ new \in AccountDeletionRequest /\ new.user = deletions[d].user
        /\ new.status = deletions[d].status
    BY <2>2 DEF AccountDeletionRequest
  <2>. HIDE DEF new
  <2>4. deletions' \in Seq(AccountDeletionRequest) /\ DOMAIN deletions' = DOMAIN deletions
    BY <2>1, <2>3
  <2>5. ClosedMeansConfirmed'
    BY <2>1, <2>3, <2>4 DEF PrivacyInv, DeletionsOK, ClosedMeansConfirmed
  <2>6. DeletionsOK'
    BY <2>1, <2>4, <2>5 DEF PrivacyInv, DeletionsOK, Holds
  <2>. QED BY <1>0, <2>1, <2>6, ConsentsKept, StillSpares DEF PrivacyInv, RequestsOK
<1>6. ASSUME NEW w \in Workers, NEW d \in DOMAIN deletions, NEW op \in {"confirm", "cancel"},
             ReadDeletion(w, d, op)
      PROVE  PrivacyInv'
  <2>. DEFINE held == [op |-> op, deletion |-> d, status |-> deletions[d].status]
  <2>1. Begin(w, held) /\ held.op = op /\ held.deletion = d
        /\ UNCHANGED <<deletionVars, consentVars>>
    BY <1>6 DEF ReadDeletion, privacyVars, deletionVars, consentVars
  <2>. HIDE DEF held
  <2>2. Spares({"consent"}) /\ request' = [request EXCEPT ![w] = held]
    <3>1. held.op \notin {"consent"}
      BY <2>1
    <3>. QED BY <1>0, <2>1, <3>1, ProceedSpares
  <2>3. DeletionsOK'
    BY <2>1, <2>2 DEF PrivacyInv, DeletionsOK, deletionVars, Holds, ClosedMeansConfirmed
  <2>. QED BY <2>1, <2>2, <2>3, ConsentsKept DEF PrivacyInv, RequestsOK, Spares
<1>7. ASSUME NEW w \in Workers, ConfirmDeletion(w) \/ CancelDeletion(w) PROVE PrivacyInv'
  <2>. SUFFICES ASSUME NEW d, d = request[w].deletion, NEW u, u = deletions[d].user,
                       NEW to \in {"confirmed", "cancelled"},
                       deletions' = [deletions EXCEPT ![d].status = to],
                       isActive' = [isActive EXCEPT ![u] = (to = "cancelled")],
                       End(w), UNCHANGED consentVars, Holds(w, "confirm") \/ Holds(w, "cancel")
                PROVE  PrivacyInv'
    BY <1>7 DEF ConfirmDeletion, CancelDeletion, Closed, Reopened, consentVars
  <2>. DEFINE new == [deletions[d] EXCEPT !.status = to]
  <2>1. /\ deletions \in Seq(AccountDeletionRequest) /\ d \in DOMAIN deletions
        /\ deletions' = [deletions EXCEPT ![d] = new]
    BY DEF PrivacyInv, DeletionsOK
  <2>2. deletions[d] \in AccountDeletionRequest
    BY <2>1
  <2>3. new \in AccountDeletionRequest /\ new.user = u /\ new.status = to /\ u \in Users
    BY <2>2 DEF AccountDeletionRequest, DeletionStatuses
  <2>. HIDE DEF new
  <2>4. deletions' \in Seq(AccountDeletionRequest) /\ DOMAIN deletions' = DOMAIN deletions
    BY <2>1, <2>3
  <2>5. isActive' \in [Users -> BOOLEAN]
    BY DEF PrivacyInv, DeletionsOK
  <2>6. ClosedMeansConfirmed'
    <3>. SUFFICES ASSUME NEW v \in Users, ~ isActive'[v]
                  PROVE  \E e \in DOMAIN deletions' :
                           deletions'[e].user = v /\ deletions'[e].status = "confirmed"
      BY DEF ClosedMeansConfirmed
    <3>1. CASE v = u
      <4>1. isActive'[u] = (to = "cancelled")
        BY <2>3 DEF PrivacyInv, DeletionsOK
      <4>2. to = "confirmed"
        BY <3>1, <4>1
      <4>. QED BY <2>1, <2>3, <2>4, <3>1, <4>2
    <3>2. CASE v # u
      <4>1. ~ isActive[v]
        BY <3>2 DEF PrivacyInv, DeletionsOK
      <4>2. PICK e \in DOMAIN deletions :
                   deletions[e].user = v /\ deletions[e].status = "confirmed"
        BY <4>1 DEF PrivacyInv, DeletionsOK, ClosedMeansConfirmed
      <4>3. deletions'[e] = deletions[e]
        BY <2>1, <3>2, <4>2
      <4>. QED BY <2>4, <4>2, <4>3
    <3>. QED BY <3>1, <3>2
  <2>7. request' = [request EXCEPT ![w] = Idle] /\ Spares({"consent"})
    BY <1>0, EndSpares
  <2>8. DeletionsOK'
    BY <2>4, <2>5, <2>6, <2>7 DEF PrivacyInv, DeletionsOK, Holds, Idle
  <2>. QED BY <2>7, <2>8, ConsentsKept DEF PrivacyInv, RequestsOK, Spares
<1>8. ASSUME NEW w \in Workers, NEW u \in Users, NEW type \in ConsentTypes,
             NEW granted \in BOOLEAN, RecordConsent(w, u, type, granted)
      PROVE  PrivacyInv'
  <2>. DEFINE held == [op |-> "consent", user |-> u, type |-> type, granted |-> granted]
              row == [user |-> u, type |-> type, granted |-> granted]
  <2>1. /\ Begin(w, held) /\ held.op = "consent" /\ held.user = u /\ held.type = type
        /\ held.granted = granted
        /\ consents' = consents \cup {row} /\ UNCHANGED <<accepted, deletionVars>>
    BY <1>8 DEF RecordConsent, StoreConsent, ConsentOrder, ConsentFirst, deletionVars
  <2>. HIDE DEF held
  <2>2. Spares({"confirm", "cancel"}) /\ request' = [request EXCEPT ![w] = held]
    <3>1. held.op \notin {"confirm", "cancel"}
      BY <2>1
    <3>. QED BY <1>0, <2>1, <3>1, ProceedSpares
  <2>3. AcceptanceIsOnRecord'
    BY <2>1 DEF PrivacyInv, ConsentsOK, AcceptanceIsOnRecord
  <2>4. ConsentsOK'
    BY <2>1, <2>2, <2>3 DEF PrivacyInv, ConsentsOK, Holds
  <2>. QED BY <2>1, <2>2, <2>4, DeletionsKept DEF PrivacyInv, RequestsOK, Spares
<1>9. ASSUME NEW w \in Workers, FinishConsent(w) PROVE PrivacyInv'
  <2>. DEFINE u == request[w].user
              type == request[w].type
  <2>1. /\ Holds(w, "consent") /\ End(w) /\ UNCHANGED <<consents, deletionVars>>
        /\ \/ accepted' = accepted
           \/ request[w].granted /\ accepted' = [accepted EXCEPT ![u] = @ \cup {type}]
    BY <1>9 DEF FinishConsent, StoreConsent, ConsentOrder, ConsentFirst, deletionVars
  <2>2. /\ u \in Users /\ type \in ConsentTypes
        /\ request[w].granted => [user |-> u, type |-> type, granted |-> TRUE] \in consents
    BY <2>1 DEF PrivacyInv, ConsentsOK
  <2>3. /\ accepted' \in [Users -> SUBSET ConsentTypes]
        /\ \A v \in Users : \A x \in accepted'[v] :
             x \in accepted[v] \/ (v = u /\ x = type /\ request[w].granted)
    BY <2>1, <2>2 DEF PrivacyInv, ConsentsOK
  <2>4. AcceptanceIsOnRecord'
    BY <2>1, <2>2, <2>3 DEF PrivacyInv, ConsentsOK, AcceptanceIsOnRecord
  <2>5. request' = [request EXCEPT ![w] = Idle] /\ Spares({"confirm", "cancel"})
    BY <1>0, <2>1, EndSpares
  <2>6. ConsentsOK'
    BY <2>1, <2>3, <2>4, <2>5 DEF PrivacyInv, ConsentsOK, Holds, Idle
  <2>. QED BY <2>1, <2>5, <2>6, DeletionsKept DEF PrivacyInv, RequestsOK, Spares
<1>10. ASSUME NEW w \in Workers, Abandon(w), UNCHANGED privacyVars PROVE PrivacyInv'
  BY <1>0, <1>10, PrivacyApart, EndSpares DEF Abandon, privacyVars, deletionVars, consentVars
<1>. QED
  BY <1>2, <1>3, <1>4, <1>5, <1>6, <1>7, <1>8, <1>9, <1>10 DEF PrivacyNext

-----------------------------------------------------------------------------
(* A closed account has a confirmed deletion request                       *)
(* (accounts/privacy.py:140, :159).                                        *)
THEOREM ClosedAccountsAreConfirmed == PrivacySpec => []ClosedMeansConfirmed
<1>1. PrivacyInv => ClosedMeansConfirmed
  BY DEF PrivacyInv, DeletionsOK
<1>. QED BY <1>1, InitPrivacyInv, StepPrivacyInv, PTL DEF PrivacySpec

(* An acceptance date has its consent record (accounts/privacy.py:36, :46).*)
THEOREM AcceptancesAreRecorded == PrivacySpec => []AcceptanceIsOnRecord
<1>1. PrivacyInv => AcceptanceIsOnRecord
  BY DEF PrivacyInv, ConsentsOK
<1>. QED BY <1>1, InitPrivacyInv, StepPrivacyInv, PTL DEF PrivacySpec

(***************************************************************************)
(* MFA is on only with recovery codes, and off leaves none.  A request     *)
(* that will write the device or the codes carries the primary key it      *)
(* read, and no device that exists has key 0: saving under that key is     *)
(* saving a device that is there.                                          *)
(***************************************************************************)

MfaInv ==
    /\ request = [w \in Workers |-> request[w]]
    /\ issued \in Nat
    /\ device \in [Users -> MfaDevice]
    /\ codes \in [Users -> SUBSET Nat]
    /\ \A u \in Users : device[u] # NoDevice => device[u].key # 0
    /\ \A w \in Workers : request[w].op \in {"confirm", "regenerate", "regenerated"} =>
         request[w].user \in Users /\ request[w].key # 0
    /\ MfaHasCodes /\ NoCodesWithoutDevice

(* What most steps leave alone, and whom they hand such a request.         *)
MfaAside ==
    /\ UNCHANGED <<device, codes, issued>>
    /\ request' = [w \in Workers |-> request'[w]]
    /\ \A w \in Workers : \/ request'[w] = request[w]
                          \/ request'[w].op \notin {"confirm", "regenerate", "regenerated"}
                          \/ request'[w].user \in Users /\ request'[w].key # 0

-----------------------------------------------------------------------------
LEMMA InitMfaInv == RequestsInit /\ MfaInit => MfaInv
BY DEF RequestsInit, MfaInit, MfaInv, MfaHasCodes, NoCodesWithoutDevice, HasMfa, NoDevice,
       MfaDevice, Idle

LEMMA MfaAsideKeeps == ASSUME MfaInv, MfaAside PROVE MfaInv'
BY DEF MfaInv, MfaAside, MfaHasCodes, NoCodesWithoutDevice, HasMfa

(* The device of a request that may save is there.                         *)
LEMMA ThereIsThere ==
    ASSUME MfaInv, NEW w \in Workers, DeviceIsThere(w),
           request[w].op \in {"confirm", "regenerate", "regenerated"}
    PROVE  request[w].user \in Users /\ device[request[w].user] # NoDevice
BY DEF MfaInv, DeviceIsThere, NoDevice

LEMMA EndRequest ==
    ASSUME MfaInv, NEW w \in Workers, End(w)
    PROVE  /\ request' = [v \in Workers |-> request'[v]]
           /\ \A v \in Workers : request'[v] = request[v] \/ request'[v].op = "idle"
BY DEF MfaInv, End, Proceed, Idle

-----------------------------------------------------------------------------
LEMMA StepMfaInv == MfaInv /\ [MfaNext]_<<requestVars, mfaVars>> => MfaInv'
<1>. SUFFICES ASSUME MfaInv, [MfaNext]_<<requestVars, mfaVars>> PROVE MfaInv'
  OBVIOUS
<1>1. CASE UNCHANGED <<requestVars, mfaVars>>
  BY <1>1, MfaAsideKeeps DEF requestVars, mfaVars, MfaAside, MfaInv
<1>2. ASSUME NEW u \in Users, StartSetup(u) PROVE MfaInv'
  <2>. DEFINE new == [key |-> IF device[u] = NoDevice THEN Fresh ELSE device[u].key,
                      secret |-> Fresh, confirmed |-> FALSE]
  <2>1. /\ device' = [device EXCEPT ![u] = new] /\ issued' = issued + 1
        /\ UNCHANGED <<codes, request>>
    BY <1>2 DEF StartSetup, Serve, Fresh
  <2>2. new \in MfaDevice /\ new.key # 0 /\ ~ new.confirmed /\ new # NoDevice
    BY DEF MfaInv, MfaDevice, Fresh, NoDevice
  <2>. HIDE DEF new
  <2>3. /\ device' \in [Users -> MfaDevice] /\ issued' \in Nat
        /\ \A v \in Users : device'[v] = IF v = u THEN new ELSE device[v]
    BY <2>1, <2>2 DEF MfaInv
  <2>. QED BY <2>1, <2>2, <2>3 DEF MfaInv, MfaHasCodes, NoCodesWithoutDevice, HasMfa
<1>3. ASSUME NEW w \in Workers, NEW u \in Users, ConfirmCheck(w, u) \/ RegenerateCheck(w, u)
      PROVE  MfaAside
  BY <1>3 DEF ConfirmCheck, RegenerateCheck, Begin, mfaVars, MfaAside, MfaInv, HasMfa
<1>4. ASSUME NEW w \in Workers, NEW u \in Users, NEW op \in {"disable", "login"}, NEW kind,
             CheckFactor(w, u, op, kind)
      PROVE  MfaAside
  <2>1. PICK f \in Factors(u) : Begin(w, [op |-> op, user |-> u, kind |-> kind, code |-> f,
                                         key |-> device[u].key, passed |-> f = 0])
    BY <1>4 DEF CheckFactor
  <2>. QED BY <1>4, <2>1 DEF CheckFactor, Begin, mfaVars, MfaAside, MfaInv
<1>5. ASSUME NEW w \in Workers, ConfirmSave(w) PROVE MfaInv'
  <2>. SUFFICES ASSUME NEW u, u = request[w].user PROVE MfaInv'
    OBVIOUS
  <2>. DEFINE new == [device[u] EXCEPT !.confirmed = TRUE]
  <2>1. /\ u \in Users /\ device[u] # NoDevice /\ device[u] \in MfaDevice
        /\ End(w) /\ issued' = Fresh /\ device' = [device EXCEPT ![u] = ConfirmDevice(@)]
        /\ codes' = [codes EXCEPT ![u] = {Fresh}]
    BY <1>5, ThereIsThere DEF ConfirmSave, NewCodes, Holds, MfaInv
  <2>2. device' = [device EXCEPT ![u] = new] /\ new \in MfaDevice /\ new.key = device[u].key
        /\ new.key # 0
    BY <2>1 DEF ConfirmDevice, MfaDevice, MfaInv
  <2>3. new # NoDevice
    BY <2>2 DEF NoDevice
  <2>. HIDE DEF new
  <2>4. /\ device' \in [Users -> MfaDevice]
        /\ \A v \in Users : device'[v] = IF v = u THEN new ELSE device[v]
    BY <2>1, <2>2 DEF MfaInv
  <2>5. /\ codes' \in [Users -> SUBSET Nat] /\ issued' \in Nat
        /\ \A v \in Users : codes'[v] = IF v = u THEN {Fresh} ELSE codes[v]
    BY <2>1 DEF MfaInv, Fresh
  <2>6. \A v \in Users : device'[v] # NoDevice => device'[v].key # 0
    BY <2>2, <2>4 DEF MfaInv
  <2>7. MfaHasCodes' /\ NoCodesWithoutDevice'
    BY <2>3, <2>4, <2>5 DEF MfaInv, MfaHasCodes, NoCodesWithoutDevice, HasMfa
  <2>8. /\ request' = [v \in Workers |-> request'[v]]
        /\ \A v \in Workers : request'[v].op \in {"confirm", "regenerate", "regenerated"} =>
             request'[v].user \in Users /\ request'[v].key # 0
    BY <2>1, EndRequest DEF MfaInv
  <2>. QED BY <2>4, <2>5, <2>6, <2>7, <2>8 DEF MfaInv
<1>6. ASSUME NEW w \in Workers, SpendCode(w) PROVE MfaAside
  <2>. DEFINE held == [request[w] EXCEPT !.passed = TRUE]
  <2>1. UNCHANGED <<device, codes, issued>> /\ request' = [request EXCEPT ![w] = held]
    BY <1>6 DEF SpendCode, Proceed
  <2>2. held.op = request[w].op
    OBVIOUS
  <2>. QED BY <1>6, <2>1, <2>2 DEF SpendCode, MfaAside, MfaInv
<1>7. ASSUME NEW w \in Workers, DisableSave(w) PROVE MfaInv'
  <2>1. /\ device' = [device EXCEPT ![request[w].user] = NoDevice]
        /\ codes' = [codes EXCEPT ![request[w].user] = {}] /\ End(w) /\ issued' = issued
        /\ NoDevice \in MfaDevice
    BY <1>7 DEF DisableSave, NoDevice, MfaDevice
  <2>2. ~ NoDevice.confirmed
    BY DEF NoDevice
  <2>. QED BY <2>1, <2>2, EndRequest DEF MfaInv, MfaHasCodes, NoCodesWithoutDevice, HasMfa
<1>8. ASSUME NEW w \in Workers, RegenerateDelete(w) PROVE MfaAside
  BY <1>8 DEF RegenerateDelete, Holds, Proceed, mfaVars, MfaAside, MfaInv
<1>9. ASSUME NEW w \in Workers, RegenerateSave(w) PROVE MfaInv'
  <2>. SUFFICES ASSUME NEW u, u = request[w].user PROVE MfaInv'
    OBVIOUS
  <2>. DEFINE new == (codes[u] \ request[w].seen) \cup {Fresh}
  <2>1. /\ u \in Users /\ device[u] # NoDevice /\ End(w) /\ issued' = Fresh
        /\ device' = device /\ codes' = [codes EXCEPT ![u] = new] /\ new # {}
    BY <1>9, ThereIsThere DEF RegenerateSave, Holds, MfaInv
  <2>2. new \in SUBSET Nat /\ issued' \in Nat
    BY <2>1 DEF MfaInv, Fresh
  <2>. HIDE DEF new
  <2>3. /\ codes' \in [Users -> SUBSET Nat]
        /\ \A v \in Users : codes'[v] = IF v = u THEN new ELSE codes[v]
    BY <2>1, <2>2 DEF MfaInv
  <2>. QED BY <2>1, <2>2, <2>3, EndRequest
           DEF MfaInv, MfaHasCodes, NoCodesWithoutDevice, HasMfa
<1>10. ASSUME NEW w \in Workers, OpenLogin(w) PROVE MfaAside
  BY <1>10 DEF OpenLogin, Proceed, MfaAside, MfaInv
<1>11. ASSUME NEW w \in Workers, RecordLogin(w) \/ (Abandon(w) /\ UNCHANGED mfaVars)
       PROVE  MfaAside
  BY <1>11, EndRequest DEF RecordLogin, Abandon, mfaVars, MfaAside
<1>12. ASSUME \/ \E u \in Users : RevokeFamilies(u)
              \/ \E l \in DOMAIN logins : Logout(l) \/ RotateRefresh(l) \/ RevokeRow(l)
       PROVE  MfaAside
  BY <1>12 DEF RevokeFamilies, Logout, RotateRefresh, RevokeRow, Serve, MfaAside, MfaInv
<1>. QED
  BY <1>1, <1>2, <1>3, <1>4, <1>5, <1>6, <1>7, <1>8, <1>9, <1>10, <1>11, <1>12, MfaAsideKeeps
     DEF MfaNext

-----------------------------------------------------------------------------
(* MFA is never on without recovery codes (accounts/serializers.py:341).   *)
THEOREM MfaComesWithCodes == MfaSpec => []MfaHasCodes
<1>1. MfaInv => MfaHasCodes
  BY DEF MfaInv
<1>. QED BY <1>1, InitMfaInv, StepMfaInv, PTL DEF MfaSpec

(* A user without a device has no recovery codes                           *)
(* (accounts/serializers.py:369).                                          *)
THEOREM CodesGoWithDevice == MfaSpec => []NoCodesWithoutDevice
<1>1. MfaInv => NoCodesWithoutDevice
  BY DEF MfaInv
<1>. QED BY <1>1, InitMfaInv, StepMfaInv, PTL DEF MfaSpec

(***************************************************************************)
(* Organizations.  Memberships are never deleted, so the member an         *)
(* accepting worker has inserted is still there when it closes the         *)
(* invitation.                                                             *)
(***************************************************************************)

MembersOK ==
    /\ orgOwner \in [Orgs -> Organization \cup {NoUser}]
    /\ member \in [Orgs -> [Users -> OrganizationMembership \cup {NoMember}]]
    /\ invitations \in Seq(OrganizationInvitation)
    /\ AcceptedMeansMember
    /\ \A w \in Workers :
        /\ Holds(w, "found") \/ Holds(w, "update") =>
             request[w].org \in Orgs /\ request[w].user \in Users
        /\ Holds(w, "update") => request[w].row \in OrganizationMembership
        /\ Holds(w, "accept") \/ Holds(w, "accepting") =>
             request[w].invitation \in DOMAIN invitations
        /\ Holds(w, "accepting") =>
             LET i == request[w].invitation
             IN  member[invitations[i].org][invitations[i].user] # NoMember

PoliciesOK ==
    /\ policy \in [Orgs -> [PolicyCodes -> PermissionPolicy \cup {"none"}]]
    /\ grants \in [Orgs -> [Roles -> [PolicyCodes -> RolePermissionGrant \cup {"none"}]]]
    /\ \A w \in Workers : Holds(w, "patch") =>
         /\ request[w].org \in Orgs /\ request[w].code \in PolicyCodes
         /\ request[w].state \in PermissionPolicy \cup {"none"}

KeysOK == tenantKeys \in Seq(TenantServiceCredential)

OrgInv == RequestsOK /\ MembersOK /\ PoliciesOK /\ KeysOK

memberVars == <<orgOwner, member, invitations>>
policyVars == <<policy, grants>>
MemberOps == {"found", "update", "accept", "accepting"}

-----------------------------------------------------------------------------
LEMMA InitOrgInv == RequestsInit /\ OrgInit => OrgInv
<1>. SUFFICES ASSUME RequestsInit, OrgInit PROVE OrgInv
  OBVIOUS
<1>1. \A w \in Workers : request[w].op = "idle"
  BY DEF RequestsInit, Idle
<1>2. MembersOK
  BY <1>1 DEF OrgInit, MembersOK, AcceptedMeansMember, Holds
<1>3. PoliciesOK
  BY <1>1 DEF OrgInit, PoliciesOK, Holds
<1>. QED BY <1>2, <1>3, InitRequests DEF OrgInv, OrgInit, KeysOK

LEMMA MembersKept ==
    ASSUME OrgInv, UNCHANGED memberVars, Spares(MemberOps) PROVE MembersOK'
BY DEF OrgInv, MembersOK, memberVars, Spares, MemberOps, Holds, AcceptedMeansMember

LEMMA PoliciesKept ==
    ASSUME OrgInv, UNCHANGED policyVars, Spares({"patch"}) PROVE PoliciesOK'
BY DEF OrgInv, PoliciesOK, policyVars, Spares, Holds

(* A step of the members, of the policies, of the keys, of none.           *)
LEMMA MemberStep ==
    ASSUME OrgInv, MembersOK', UNCHANGED <<policyVars, tenantKeys>>, Spares({"patch"})
    PROVE  OrgInv'
BY PoliciesKept DEF OrgInv, KeysOK, RequestsOK, Spares

LEMMA PolicyStep ==
    ASSUME OrgInv, PoliciesOK', UNCHANGED <<memberVars, tenantKeys>>, Spares(MemberOps)
    PROVE  OrgInv'
BY MembersKept DEF OrgInv, KeysOK, RequestsOK, Spares

LEMMA KeyStep ==
    ASSUME OrgInv, KeysOK', UNCHANGED <<memberVars, policyVars>>, request' = request
    PROVE  OrgInv'
<1>1. Spares(MemberOps) /\ Spares({"patch"})
  BY StillSpares DEF OrgInv
<1>. QED BY <1>1, MembersKept, PoliciesKept DEF OrgInv, RequestsOK

LEMMA OrgEnds ==
    ASSUME OrgInv, NEW w \in Workers, End(w)
    PROVE  Spares(MemberOps) /\ Spares({"patch"}) /\ request' = [request EXCEPT ![w] = Idle]
BY EndSpares DEF OrgInv, MemberOps

-----------------------------------------------------------------------------
(* A membership is only ever replaced by a membership.                     *)
LEMMA SetMember ==
    ASSUME OrgInv, NEW o \in Orgs, NEW u \in Users, NEW row \in OrganizationMembership,
           member' = [member EXCEPT ![o][u] = row]
    PROVE  /\ member' \in [Orgs -> [Users -> OrganizationMembership \cup {NoMember}]]
           /\ \A p \in Orgs, v \in Users : member[p][v] # NoMember => member'[p][v] # NoMember
           /\ member'[o][u] # NoMember
<1>1. row # NoMember
  BY DEF OrganizationMembership, NoMember, Roles
<1>. QED BY <1>1 DEF OrgInv, MembersOK

LEMMA InvitationRows ==
    ASSUME OrgInv, NEW i \in DOMAIN invitations
    PROVE  /\ invitations[i] \in OrganizationInvitation /\ i \in 1 .. Len(invitations)
           /\ invitations[i].org \in Orgs /\ invitations[i].user \in Users
           /\ invitations[i].role \in Roles
<1>1. invitations \in Seq(OrganizationInvitation)
  BY DEF OrgInv, MembersOK
<1>2. i \in 1 .. Len(invitations) /\ invitations[i] \in OrganizationInvitation
  BY <1>1
<1>. QED BY <1>2 DEF OrganizationInvitation

LEMMA MemberSaved ==
    ASSUME OrgInv, NEW o \in Orgs, NEW u \in Users, NEW row \in OrganizationMembership,
           member' = [member EXCEPT ![o][u] = row],
           UNCHANGED <<orgOwner, invitations>>, Spares(MemberOps)
    PROVE  MembersOK'
<1>1. /\ member' \in [Orgs -> [Users -> OrganizationMembership \cup {NoMember}]]
      /\ \A p \in Orgs, v \in Users : member[p][v] # NoMember => member'[p][v] # NoMember
  BY SetMember
<1>2. AcceptedMeansMember'
  BY <1>1, InvitationRows DEF OrgInv, MembersOK, AcceptedMeansMember
<1>3. \A w \in Workers : Holds(w, "accepting") =>
        LET i == request[w].invitation
        IN  member'[invitations[i].org][invitations[i].user] # NoMember
  BY <1>1, InvitationRows DEF OrgInv, MembersOK
<1>. QED BY <1>1, <1>2, <1>3 DEF OrgInv, MembersOK, Spares, MemberOps, Holds

(* An invitation keeps its organization and its user, and is closed only   *)
(* for a member.                                                           *)
LEMMA InvitationSaved ==
    ASSUME OrgInv, NEW i \in DOMAIN invitations, NEW row \in OrganizationInvitation,
           row.org = invitations[i].org, row.user = invitations[i].user,
           row.accepted => \/ invitations[i].accepted
                           \/ member[invitations[i].org][invitations[i].user] # NoMember,
           invitations' = [invitations EXCEPT ![i] = row],
           UNCHANGED <<orgOwner, member>>, Spares(MemberOps)
    PROVE  MembersOK'
<1>1. /\ invitations' \in Seq(OrganizationInvitation) /\ DOMAIN invitations' = DOMAIN invitations
      /\ \A j \in DOMAIN invitations : /\ invitations'[j].org = invitations[j].org
                                       /\ invitations'[j].user = invitations[j].user
  BY DEF OrgInv, MembersOK
<1>2. AcceptedMeansMember'
  BY <1>1 DEF OrgInv, MembersOK, AcceptedMeansMember
<1>3. \A w \in Workers : Holds(w, "accepting") =>
        LET j == request[w].invitation
        IN  member'[invitations'[j].org][invitations'[j].user] # NoMember
  BY <1>1 DEF OrgInv, MembersOK
<1>4. \A w \in Workers : \/ request'[w] = request[w]
                         \/ request'[w].op \notin MemberOps
  BY DEF Spares
<1>. QED BY <1>1, <1>2, <1>3, <1>4 DEF OrgInv, MembersOK, MemberOps, Holds

-----------------------------------------------------------------------------
LEMMA MembersStep ==
    ASSUME OrgInv, NEW w \in Workers,
           \/ AddFounder(w) \/ UpdateSave(w) \/ AcceptFirst(w) \/ AcceptSecond(w)
           \/ \E i \in DOMAIN invitations : AcceptRead(w, i)
           \/ \E o \in Orgs, u \in Users : CreateOrg(w, o, u)
           \/ \E o \in Orgs, u \in Users, target \in Users, role \in Roles, active \in BOOLEAN :
                UpdateRead(w, o, u, target, [role |-> role, active |-> active])
    PROVE  OrgInv'
<1>1. ASSUME AddFounder(w) PROVE OrgInv'
  <2>. DEFINE row == [role |-> "owner", active |-> TRUE]
  <2>1. /\ member' = [member EXCEPT ![request[w].org][request[w].user] = row]
        /\ request[w].org \in Orgs /\ request[w].user \in Users /\ End(w)
        /\ UNCHANGED <<orgOwner, invitations, policyVars, tenantKeys>>
    BY <1>1 DEF AddFounder, OrgInv, MembersOK, policyVars
  <2>2. row \in OrganizationMembership
    BY DEF OrganizationMembership, Roles
  <2>. HIDE DEF row
  <2>. QED BY <2>1, <2>2, OrgEnds, MemberSaved, MemberStep
<1>2. ASSUME UpdateSave(w) PROVE OrgInv'
  <2>1. /\ member' = [member EXCEPT ![request[w].org][request[w].user] = request[w].row]
        /\ request[w].org \in Orgs /\ request[w].user \in Users /\ End(w)
        /\ request[w].row \in OrganizationMembership
        /\ UNCHANGED <<orgOwner, invitations, policyVars, tenantKeys>>
    BY <1>2 DEF UpdateSave, OrgInv, MembersOK, policyVars
  <2>. QED BY <2>1, OrgEnds, MemberSaved, MemberStep
<1>3. ASSUME AcceptFirst(w) PROVE OrgInv'
  <2>. DEFINE i == request[w].invitation
              row == [role |-> invitations[i].role, active |-> TRUE]
              held == [op |-> "accepting", invitation |-> i]
  <2>1. /\ i \in DOMAIN invitations /\ Proceed(w, held)
        /\ member' = [member EXCEPT ![invitations[i].org][invitations[i].user] = row]
        /\ UNCHANGED <<orgOwner, invitations, policyVars, tenantKeys>>
    BY <1>3 DEF AcceptFirst, AcceptPart, AcceptOrder, MemberFirst, OrgInv, MembersOK, policyVars
  <2>2. /\ invitations[i].org \in Orgs /\ invitations[i].user \in Users
        /\ row \in OrganizationMembership
    BY <2>1, InvitationRows DEF OrganizationMembership
  <2>3. held.op = "accepting" /\ held.invitation = i
    OBVIOUS
  <2>. HIDE DEF row, held, i
  <2>4. /\ member' \in [Orgs -> [Users -> OrganizationMembership \cup {NoMember}]]
        /\ \A p \in Orgs, v \in Users : member[p][v] # NoMember => member'[p][v] # NoMember
        /\ member'[invitations[i].org][invitations[i].user] # NoMember
    BY <2>1, <2>2, SetMember
  <2>5. AcceptedMeansMember'
    BY <2>1, <2>4, InvitationRows DEF OrgInv, MembersOK, AcceptedMeansMember
  <2>6. RequestsOK' /\ request'[w] = held /\ \A v \in Workers : v # w => request'[v] = request[v]
    BY <2>1, HeldNext DEF OrgInv
  <2>7. Spares({"patch"})
    BY <2>1, <2>3, ProceedSpares DEF OrgInv
  <2>8. \A v \in Workers : Holds(v, "accepting")' =>
          LET j == request'[v].invitation
          IN  /\ j \in DOMAIN invitations
              /\ member'[invitations[j].org][invitations[j].user] # NoMember
    <3>. SUFFICES ASSUME NEW v \in Workers, request'[v].op = "accepting"
                  PROVE  LET j == request'[v].invitation
                         IN  /\ j \in DOMAIN invitations
                             /\ member'[invitations[j].org][invitations[j].user] # NoMember
      BY DEF Holds
    <3>1. CASE v = w
      BY <3>1, <2>1, <2>3, <2>4, <2>6
    <3>2. CASE v # w
      <4>. DEFINE j == request[v].invitation
      <4>1. request'[v] = request[v] /\ Holds(v, "accepting")
        BY <3>2, <2>6 DEF Holds
      <4>2. j \in DOMAIN invitations /\ member[invitations[j].org][invitations[j].user] # NoMember
        BY <4>1 DEF OrgInv, MembersOK
      <4>3. invitations[j].org \in Orgs /\ invitations[j].user \in Users
        BY <4>2, InvitationRows
      <4>. QED BY <4>1, <4>2, <4>3, <2>4
    <3>. QED BY <3>1, <3>2
  <2>9. MembersOK'
    BY <2>1, <2>3, <2>4, <2>5, <2>6, <2>8 DEF OrgInv, MembersOK, Holds
  <2>. QED BY <2>1, <2>7, <2>9, MemberStep
<1>4. ASSUME AcceptSecond(w) PROVE OrgInv'
  <2>. DEFINE i == request[w].invitation
              row == [invitations[i] EXCEPT !.accepted = TRUE]
  <2>1. /\ i \in DOMAIN invitations /\ End(w)
        /\ member[invitations[i].org][invitations[i].user] # NoMember
        /\ invitations' = [invitations EXCEPT ![i] = row]
        /\ UNCHANGED <<orgOwner, member, policyVars, tenantKeys>>
    BY <1>4 DEF AcceptSecond, AcceptPart, AcceptOrder, MemberFirst, OrgInv, MembersOK, policyVars
  <2>2. /\ row \in OrganizationInvitation /\ row.org = invitations[i].org
        /\ row.user = invitations[i].user
    BY <2>1, InvitationRows DEF OrganizationInvitation
  <2>. HIDE DEF row, i
  <2>. QED BY <2>1, <2>2, OrgEnds, InvitationSaved, MemberStep
<1>5. ASSUME NEW i \in DOMAIN invitations, AcceptRead(w, i) PROVE OrgInv'
  <2>. DEFINE held == [op |-> "accept", invitation |-> i]
  <2>1. /\ Begin(w, held) /\ UNCHANGED orgVars /\ held.op = "accept" /\ held.invitation = i
    BY <1>5 DEF AcceptRead
  <2>. HIDE DEF held
  <2>2. /\ request'[w] = held /\ \A v \in Workers : v # w => request'[v] = request[v]
    BY <2>1, HeldNext DEF OrgInv
  <2>3. Spares({"patch"})
    BY <2>1, ProceedSpares DEF OrgInv
  <2>4. MembersOK'
    BY <2>1, <2>2 DEF OrgInv, MembersOK, Holds, orgVars, AcceptedMeansMember
  <2>. QED BY <2>1, <2>3, <2>4, MemberStep DEF orgVars, policyVars
<1>6. ASSUME NEW o \in Orgs, NEW u \in Users, CreateOrg(w, o, u) PROVE OrgInv'
  <2>. DEFINE held == [op |-> "found", org |-> o, user |-> u]
  <2>1. /\ Begin(w, held) /\ held.op = "found" /\ held.org = o /\ held.user = u
        /\ orgOwner' = [orgOwner EXCEPT ![o] = u]
        /\ UNCHANGED <<member, invitations, policyVars, tenantKeys>>
    BY <1>6 DEF CreateOrg, policyVars
  <2>. HIDE DEF held
  <2>2. /\ request'[w] = held /\ \A v \in Workers : v # w => request'[v] = request[v]
    BY <2>1, HeldNext DEF OrgInv
  <2>3. Spares({"patch"})
    BY <2>1, ProceedSpares DEF OrgInv
  <2>4. orgOwner' \in [Orgs -> Organization \cup {NoUser}]
    BY <2>1 DEF OrgInv, MembersOK, Organization
  <2>5. MembersOK'
    BY <2>1, <2>2, <2>4 DEF OrgInv, MembersOK, Holds, AcceptedMeansMember
  <2>. QED BY <2>1, <2>3, <2>5, MemberStep
<1>7. ASSUME NEW o \in Orgs, NEW u \in Users, NEW target \in Users, NEW role \in Roles,
             NEW active \in BOOLEAN,
             UpdateRead(w, o, u, target, [role |-> role, active |-> active])
      PROVE  OrgInv'
  <2>. DEFINE row == [role |-> role, active |-> active]
              held == [op |-> "update", org |-> o, user |-> target, row |-> row]
  <2>1. /\ Begin(w, held) /\ UNCHANGED orgVars /\ row \in OrganizationMembership
        /\ held.op = "update" /\ held.org = o /\ held.user = target /\ held.row = row
    BY <1>7 DEF UpdateRead, OrganizationMembership
  <2>. HIDE DEF held, row
  <2>2. /\ request'[w] = held /\ \A v \in Workers : v # w => request'[v] = request[v]
    BY <2>1, HeldNext DEF OrgInv
  <2>3. Spares({"patch"})
    BY <2>1, ProceedSpares DEF OrgInv
  <2>4. MembersOK'
    BY <2>1, <2>2 DEF OrgInv, MembersOK, Holds, orgVars, AcceptedMeansMember
  <2>. QED BY <2>1, <2>3, <2>4, MemberStep DEF orgVars, policyVars
<1>. QED BY <1>1, <1>2, <1>3, <1>4, <1>5, <1>6, <1>7

LEMMA InvitationsStep ==
    ASSUME OrgInv,
           \/ \E i \in DOMAIN invitations : PassInvitation(i)
           \/ \E o \in Orgs, u \in Users, invitee \in Users, role \in InvitedRoles :
                Invite(o, u, invitee, role)
    PROVE  OrgInv'
<1>1. ASSUME request' = request PROVE Spares(MemberOps) /\ Spares({"patch"})
  BY <1>1, StillSpares DEF OrgInv
<1>2. ASSUME NEW i \in DOMAIN invitations, PassInvitation(i) PROVE OrgInv'
  <2>. DEFINE row == [invitations[i] EXCEPT !.expired = TRUE]
  <2>1. /\ invitations' = [invitations EXCEPT ![i] = row]
        /\ UNCHANGED <<orgOwner, member, policyVars, tenantKeys, request>>
    BY <1>2 DEF PassInvitation, policyVars, requestVars
  <2>2. /\ row \in OrganizationInvitation /\ row.org = invitations[i].org
        /\ row.user = invitations[i].user /\ row.accepted = invitations[i].accepted
    BY InvitationRows DEF OrganizationInvitation
  <2>. HIDE DEF row
  <2>. QED BY <1>1, <2>1, <2>2, InvitationSaved, MemberStep
<1>3. ASSUME NEW o \in Orgs, NEW u \in Users, NEW invitee \in Users, NEW role \in InvitedRoles,
             Invite(o, u, invitee, role)
      PROVE  OrgInv'
  <2>. DEFINE row == [org |-> o, user |-> invitee, role |-> role, accepted |-> FALSE,
                      expired |-> FALSE]
  <2>1. /\ invitations' = Append(invitations, row) /\ ~ row.accepted
        /\ row \in OrganizationInvitation
        /\ UNCHANGED <<orgOwner, member, policyVars, tenantKeys, request>>
    BY <1>3, InvitedRolesAreRoles DEF Invite, Serve, OrganizationInvitation, policyVars
  <2>. HIDE DEF row
  <2>2. /\ invitations' \in Seq(OrganizationInvitation)
        /\ DOMAIN invitations \subseteq DOMAIN invitations'
        /\ \A j \in DOMAIN invitations : invitations'[j] = invitations[j]
        /\ \A j \in DOMAIN invitations' \ DOMAIN invitations : invitations'[j] = row
    BY <2>1 DEF OrgInv, MembersOK
  <2>3. AcceptedMeansMember'
    BY <2>1, <2>2 DEF OrgInv, MembersOK, AcceptedMeansMember
  <2>4. MembersOK'
    BY <2>1, <2>2, <2>3 DEF OrgInv, MembersOK, Holds
  <2>. QED BY <1>1, <2>1, <2>4, MemberStep
<1>. QED BY <1>2, <1>3

LEMMA PoliciesStep ==
    ASSUME OrgInv,
           \/ \E o \in Orgs, u \in Users, c \in PolicyCodes :
                \/ CreatePolicy(o, u, c) \/ DisablePolicy(o, u, c)
                \/ \E r \in InvitedRoles, effect \in RolePermissionGrant :
                    UpsertGrant(o, u, r, c, effect)
                \/ \E w \in Workers : PatchPolicyRead(w, o, u, c)
           \/ \E w \in Workers : PatchPolicySave(w)
    PROVE  OrgInv'
<1>. DEFINE States == PermissionPolicy \cup {"none"}
<1>1. ASSUME NEW o \in Orgs, NEW c \in PolicyCodes, NEW to \in States,
             policy' = [policy EXCEPT ![o][c] = to], UNCHANGED grants, Spares({"patch"})
      PROVE  PoliciesOK'
  <2>1. policy' \in [Orgs -> [PolicyCodes -> States]]
    BY <1>1 DEF OrgInv, PoliciesOK
  <2>. QED BY <1>1, <2>1 DEF OrgInv, PoliciesOK, Spares, Holds
<1>2. ASSUME request' = request PROVE Spares(MemberOps) /\ Spares({"patch"})
  BY <1>2, StillSpares DEF OrgInv
<1>3. "active" \in States /\ "disabled" \in States
  BY DEF PermissionPolicy
<1>4. ASSUME NEW o \in Orgs, NEW u \in Users, NEW c \in PolicyCodes,
             CreatePolicy(o, u, c) \/ DisablePolicy(o, u, c)
      PROVE  OrgInv'
  <2>. HIDE DEF States
  <2>1. PICK to \in States : policy' = [policy EXCEPT ![o][c] = to]
    BY <1>3, <1>4 DEF CreatePolicy, DisablePolicy
  <2>2. UNCHANGED <<grants, memberVars, tenantKeys, request>>
    BY <1>4 DEF CreatePolicy, DisablePolicy, Serve, memberVars
  <2>. QED BY <1>1, <1>2, <2>1, <2>2, PolicyStep
<1>5. ASSUME NEW o \in Orgs, NEW u \in Users, NEW c \in PolicyCodes, NEW r \in InvitedRoles,
             NEW effect \in RolePermissionGrant, UpsertGrant(o, u, r, c, effect)
      PROVE  OrgInv'
  <2>1. /\ grants' = [grants EXCEPT ![o][r][c] = effect]
        /\ UNCHANGED <<policy, memberVars, tenantKeys, request>>
    BY <1>5 DEF UpsertGrant, Serve, memberVars
  <2>2. grants' \in [Orgs -> [Roles -> [PolicyCodes -> RolePermissionGrant \cup {"none"}]]]
    <3>1. r \in Roles
      BY InvitedRolesAreRoles
    <3>. QED BY <2>1, <3>1 DEF OrgInv, PoliciesOK
  <2>3. PoliciesOK'
    BY <2>1, <2>2 DEF OrgInv, PoliciesOK, Holds
  <2>. QED BY <1>2, <2>1, <2>3, PolicyStep
<1>6. ASSUME NEW w \in Workers, NEW o \in Orgs, NEW u \in Users, NEW c \in PolicyCodes,
             PatchPolicyRead(w, o, u, c)
      PROVE  OrgInv'
  <2>1. PICK state \in {policy[o][c]} \cup PermissionPolicy :
               Begin(w, [op |-> "patch", org |-> o, code |-> c, state |-> state])
    BY <1>6 DEF PatchPolicyRead
  <2>. DEFINE held == [op |-> "patch", org |-> o, code |-> c, state |-> state]
  <2>2. /\ Begin(w, held) /\ held.op = "patch" /\ held.org = o /\ held.code = c
        /\ held.state = state
    BY <2>1
  <2>. HIDE DEF held
  <2>3. state \in States /\ UNCHANGED orgVars
    BY <1>6, <2>1 DEF PatchPolicyRead, OrgInv, PoliciesOK
  <2>4. /\ request'[w] = held /\ \A v \in Workers : v # w => request'[v] = request[v]
    BY <2>2, HeldNext DEF OrgInv
  <2>5. Spares(MemberOps)
    BY <2>2, ProceedSpares DEF OrgInv, MemberOps
  <2>6. PoliciesOK'
    BY <2>2, <2>3, <2>4 DEF OrgInv, PoliciesOK, Holds, orgVars
  <2>. QED BY <2>3, <2>5, <2>6, PolicyStep DEF orgVars, memberVars
<1>7. ASSUME NEW w \in Workers, PatchPolicySave(w) PROVE OrgInv'
  <2>1. /\ policy' = [policy EXCEPT ![request[w].org][request[w].code] = request[w].state]
        /\ request[w].org \in Orgs /\ request[w].code \in PolicyCodes
        /\ request[w].state \in States
        /\ End(w) /\ UNCHANGED <<grants, memberVars, tenantKeys>>
    BY <1>7 DEF PatchPolicySave, OrgInv, PoliciesOK, memberVars
  <2>. HIDE DEF States
  <2>. QED BY <1>1, <2>1, OrgEnds, PolicyStep
<1>. QED BY <1>4, <1>5, <1>6, <1>7

LEMMA KeysStep ==
    ASSUME OrgInv,
           \/ \E o \in Orgs, u \in Users, x \in DOMAIN ScopePermissions :
                CreateTenantKey(o, u, {x})
           \/ \E k \in DOMAIN tenantKeys, u \in Users :
                RotateTenantKey(k, u) \/ DeactivateTenantKey(k, u)
    PROVE  OrgInv'
<1>1. UNCHANGED <<memberVars, policyVars, request>>
  BY DEF CreateTenantKey, RotateTenantKey, DeactivateTenantKey, Serve, memberVars, policyVars
<1>2. KeysOK'
  <2>1. ASSUME NEW o \in Orgs, NEW u \in Users, NEW x \in DOMAIN ScopePermissions,
               CreateTenantKey(o, u, {x})
        PROVE  KeysOK'
    <3>1. [org |-> o, scopes |-> {x}, active |-> TRUE, key |-> 1] \in TenantServiceCredential
      BY <2>1 DEF TenantServiceCredential
    <3>. QED BY <2>1, <3>1 DEF CreateTenantKey, OrgInv, KeysOK
  <2>2. ASSUME NEW k \in DOMAIN tenantKeys, NEW u \in Users,
               RotateTenantKey(k, u) \/ DeactivateTenantKey(k, u)
        PROVE  KeysOK'
    <3>1. tenantKeys \in Seq(TenantServiceCredential) /\ tenantKeys[k] \in TenantServiceCredential
      BY DEF OrgInv, KeysOK
    <3>2. PICK row \in TenantServiceCredential : tenantKeys' = [tenantKeys EXCEPT ![k] = row]
      <4>1. ASSUME NEW row \in TenantServiceCredential
            PROVE  /\ [row EXCEPT !.key = @ + 1] \in TenantServiceCredential
                   /\ [row EXCEPT !.active = FALSE] \in TenantServiceCredential
        <5>. DEFINE Sets == SUBSET DOMAIN ScopePermissions
        <5>1. TenantServiceCredential = [org: Orgs, scopes: Sets, active: BOOLEAN, key: Nat]
          BY DEF TenantServiceCredential
        <5>. HIDE DEF Sets
        <5>2. row.key + 1 \in Nat
          BY <5>1
        <5>. QED BY <5>1, <5>2
      <4>. QED BY <2>2, <3>1, <4>1 DEF RotateTenantKey, DeactivateTenantKey
    <3>. QED BY <3>1, <3>2 DEF KeysOK
  <2>. QED BY <2>1, <2>2
<1>. QED BY <1>1, <1>2, KeyStep

LEMMA StepOrgInv == OrgInv /\ [OrgNext]_<<requestVars, orgVars>> => OrgInv'
<1>. SUFFICES ASSUME OrgInv, [OrgNext]_<<requestVars, orgVars>> PROVE OrgInv'
  OBVIOUS
<1>1. CASE UNCHANGED <<requestVars, orgVars>>
  BY <1>1, KeyStep DEF requestVars, orgVars, memberVars, policyVars, OrgInv, KeysOK
<1>2. ASSUME NEW w \in Workers, Abandon(w), UNCHANGED orgVars PROVE OrgInv'
  <2>1. End(w) /\ UNCHANGED <<memberVars, policyVars, tenantKeys>>
    BY <1>2 DEF Abandon, orgVars, memberVars, policyVars
  <2>. QED BY <2>1, OrgEnds, MembersKept, MemberStep
<1>. QED BY <1>1, <1>2, MembersStep, InvitationsStep, PoliciesStep, KeysStep DEF OrgNext

-----------------------------------------------------------------------------
(* What memberships, policies, keys and the requests in flight hold at     *)
(* every moment.                                                           *)
THEOREM OrgInvariance == OrgSpec => []OrgInv
BY InitOrgInv, StepOrgInv, PTL DEF OrgSpec

(* An invitation closed as accepted has made its user a member, wherever   *)
(* the worker dies between the two commits (accounts/serializers.py:928).  *)
THEOREM AcceptedAreMembers == OrgSpec => []AcceptedMeansMember
<1>1. OrgInv => AcceptedMeansMember
  BY DEF OrgInv, MembersOK
<1>. QED BY <1>1, OrgInvariance, PTL

(***************************************************************************)
(* Mailed links.  The two bounds are inductive as they count the workers   *)
(* that are about to add a link or a reset; that a redeemed link is used,  *)
(* and stays used, keeps later readers out (LinksOK, LinksStay).           *)
(***************************************************************************)

AccountsOK ==
    /\ account \in [Users -> Account]
    /\ mailTasks \in [Users -> [Purposes -> Nat]]

LinksOK ==
    /\ tokens \in Seq(Token)
    /\ mailed \subseteq DOMAIN tokens
    /\ redeemed \in Seq(DOMAIN tokens)
    /\ \A i \in DOMAIN redeemed : tokens[redeemed[i]].used

(* What a worker holds of the links.                                       *)
LinkHeld(held) ==
    /\ held.op = "issue" => /\ held.user \in Users /\ held.purpose \in Purposes
                            /\ held.token \in DOMAIN tokens \cup {0}
    /\ held.op \in {"confirm", "reset"} => held.token \in DOMAIN tokens

TokInv ==
    /\ RequestsOK /\ AccountsOK /\ LinksOK
    /\ \A w \in Workers : LinkHeld(request[w])
    /\ LiveLinksAreBounded /\ ResetsStopAtFirstUse

accountVars == <<account, mailTasks>>
linkVars == <<tokens, mailed, redeemed>>
LinkOps == {"issue", "confirm", "reset"}

-----------------------------------------------------------------------------
(* The sets that are counted are finite.                                   *)
LEMMA CountedAreFinite ==
    ASSUME LinksOK
    PROVE  /\ Cardinality(Workers) \in Nat
           /\ \A u, p : IsFiniteSet(Live(u, p)) /\ IsFiniteSet(Issuing(u, p))
           /\ \A t : IsFiniteSet(Resets(t)) /\ IsFiniteSet(Resetting(t))
<1>1. IsFiniteSet(DOMAIN tokens) /\ IsFiniteSet(DOMAIN redeemed)
  <2>1. /\ DOMAIN tokens = 1 .. Len(tokens) /\ Len(tokens) \in Nat
        /\ DOMAIN redeemed = 1 .. Len(redeemed) /\ Len(redeemed) \in Nat
    BY DEF LinksOK
  <2>. QED BY <2>1, FS_Interval
<1>2. ASSUME NEW u, NEW p PROVE IsFiniteSet(Live(u, p)) /\ IsFiniteSet(Issuing(u, p))
  <2>1. Live(u, p) \in SUBSET DOMAIN tokens /\ Issuing(u, p) \in SUBSET Workers
    BY DEF Live, Issuing
  <2>. QED BY <1>1, <2>1, WorkersAreFinite, FS_Subset
<1>3. ASSUME NEW t PROVE IsFiniteSet(Resets(t)) /\ IsFiniteSet(Resetting(t))
  <2>1. Resets(t) \in SUBSET DOMAIN redeemed /\ Resetting(t) \in SUBSET Workers
    BY DEF Resets, Resetting
  <2>. QED BY <1>1, <2>1, WorkersAreFinite, FS_Subset
<1>. QED BY <1>2, <1>3, WorkersAreFinite, FS_CardinalityType

-----------------------------------------------------------------------------
(* Links stay what they are; a link that was used stays used.              *)
LinksStay ==
    /\ tokens' \in Seq(Token) /\ DOMAIN tokens \subseteq DOMAIN tokens'
    /\ \A t \in DOMAIN tokens :
         /\ tokens'[t].user = tokens[t].user /\ tokens'[t].purpose = tokens[t].purpose
         /\ tokens[t].used => tokens'[t].used

LEMMA InitTokInv == RequestsInit /\ TokInit => TokInv
<1>. SUFFICES ASSUME RequestsInit, TokInit PROVE TokInv
  OBVIOUS
<1>1. \A w \in Workers : request[w].op = "idle"
  BY DEF RequestsInit, Idle
<1>2. AccountsOK /\ LinksOK
  BY DEF TokInit, AccountsOK, Account, LinksOK
<1>3. LiveLinksAreBounded
  <2>1. \A u, p : Live(u, p) = {} /\ Issuing(u, p) \in SUBSET Workers
    BY DEF Live, Issuing, TokInit
  <2>. QED BY <2>1, PairOfWorkers DEF LiveLinksAreBounded
<1>4. ResetsStopAtFirstUse
  BY DEF ResetsStopAtFirstUse, TokInit
<1>. QED BY <1>1, <1>2, <1>3, <1>4, InitRequests DEF TokInv, LinkHeld

LEMMA LinkRows ==
    ASSUME LinksOK, NEW t \in DOMAIN tokens
    PROVE  t \in Nat \ {0} /\ tokens[t] \in Token /\ tokens[t].user \in Users
<1>1. tokens[t] \in Token /\ t \in Nat \ {0}
  BY DEF LinksOK
<1>. QED BY <1>1 DEF Token

(* One row is replaced by one that is used at least as much.               *)
LEMMA SetLink ==
    ASSUME LinksOK, NEW t \in DOMAIN tokens, NEW row \in Token,
           row.user = tokens[t].user, row.purpose = tokens[t].purpose,
           tokens[t].used => row.used, tokens' = [tokens EXCEPT ![t] = row]
    PROVE  LinksStay /\ DOMAIN tokens' = DOMAIN tokens
BY DEF LinksOK, LinksStay

LEMMA SupersedeLinks ==
    ASSUME LinksOK, NEW u, NEW p, tokens' = Supersede(u, p)
    PROVE  LinksStay /\ DOMAIN tokens' = DOMAIN tokens /\ Live(u, p)' = {}
<1>1. \A t \in DOMAIN tokens : /\ tokens'[t] \in Token /\ tokens'[t].user = tokens[t].user
                               /\ tokens'[t].purpose = tokens[t].purpose
                               /\ tokens[t].used => tokens'[t].used
                               /\ tokens[t].user = u /\ tokens[t].purpose = p => tokens'[t].used
  <2>. SUFFICES ASSUME NEW t \in DOMAIN tokens
                PROVE  /\ tokens'[t] \in Token /\ tokens'[t].user = tokens[t].user
                       /\ tokens'[t].purpose = tokens[t].purpose
                       /\ tokens[t].used => tokens'[t].used
                       /\ tokens[t].user = u /\ tokens[t].purpose = p => tokens'[t].used
    OBVIOUS
  <2>1. tokens'[t] = tokens[t] \/ tokens'[t] = [tokens[t] EXCEPT !.used = TRUE]
    BY DEF Supersede
  <2>2. tokens[t].user = u /\ tokens[t].purpose = p =>
          tokens'[t] = [tokens[t] EXCEPT !.used = TRUE]
    BY DEF Supersede
  <2>. QED BY <2>1, <2>2, LinkRows DEF Token
<1>2. DOMAIN tokens' = DOMAIN tokens /\ tokens' = [t \in 1 .. Len(tokens) |-> tokens'[t]]
  BY DEF Supersede, LinksOK
<1>3. tokens' \in Seq(Token)
  <2>1. Len(tokens) \in Nat /\ DOMAIN tokens = 1 .. Len(tokens)
    BY DEF LinksOK
  <2>2. tokens' \in [1 .. Len(tokens) -> Token]
    BY <1>1, <1>2, <2>1
  <2>. QED BY <2>1, <2>2
<1>. QED BY <1>1, <1>2, <1>3 DEF LinksStay, Live

(* The rows and the history after a step that adds no reset.               *)
LEMMA LinksSaved ==
    ASSUME LinksOK, LinksStay, mailed' \subseteq DOMAIN tokens', redeemed' = redeemed
    PROVE  LinksOK'
BY DEF LinksOK, LinksStay

(* A step that issues no link and begins or saves no reset.                *)
LEMMA QuietStep ==
    ASSUME TokInv, AccountsOK', LinksStay, DOMAIN tokens' = DOMAIN tokens,
           mailed' \subseteq DOMAIN tokens', redeemed' = redeemed,
           Spares({"issue", "reset"}), \A w \in Workers : LinkHeld(request[w])'
    PROVE  TokInv'
<1>1. LinksOK' /\ RequestsOK'
  BY LinksSaved DEF TokInv, Spares, RequestsOK
<1>2. LiveLinksAreBounded'
  <2>. SUFFICES ASSUME NEW u \in Users, NEW p \in Purposes
                PROVE  Cardinality(Live(u, p)') + Cardinality(Issuing(u, p)')
                         <= Cardinality(Workers)
    BY DEF LiveLinksAreBounded
  <2>1. Live(u, p)' \in SUBSET Live(u, p) /\ Issuing(u, p)' \in SUBSET Issuing(u, p)
    BY DEF Live, Issuing, LinksStay, Spares, Holds
  <2>. QED BY <2>1, CountedAreFinite, PairShrinks DEF TokInv, LiveLinksAreBounded
<1>3. ResetsStopAtFirstUse'
  <2>. SUFFICES ASSUME NEW t \in DOMAIN tokens
                PROVE  Cardinality(Resets(t)') + Cardinality(Resetting(t)')
                         <= Cardinality(Workers)
    BY DEF ResetsStopAtFirstUse
  <2>1. Resets(t)' \in SUBSET Resets(t) /\ Resetting(t)' \in SUBSET Resetting(t)
    BY DEF Resets, Resetting, Spares, Holds
  <2>. QED BY <2>1, CountedAreFinite, PairShrinks DEF TokInv, ResetsStopAtFirstUse
<1>. QED BY <1>1, <1>2, <1>3 DEF TokInv

(* A step after which no link of u for p is alive: the task of worker w    *)
(* begins, or begins again, with the earlier links marked used.            *)
LEMMA BeginsToIssue ==
    ASSUME TokInv, NEW w \in Workers, NEW u \in Users, NEW p \in Purposes, NEW held,
           held.op = "issue", held.user = u, held.purpose = p, held.token = 0,
           TakeUp(w, held) \/ Retry(w, held), tokens' = Supersede(u, p), AccountsOK',
           UNCHANGED <<mailed, redeemed>>
    PROVE  TokInv'
<1>1. LinksStay /\ DOMAIN tokens' = DOMAIN tokens /\ Live(u, p)' = {}
  BY SupersedeLinks DEF TokInv
<1>2. RequestsOK' /\ request'[w] = held /\ \A v \in Workers : v # w => request'[v] = request[v]
  BY HeldNext DEF TokInv
<1>3. LinksOK'
  BY <1>1, LinksSaved DEF TokInv, LinksOK
<1>4. \A v \in Workers : LinkHeld(request[v])'
  BY <1>1, <1>2 DEF TokInv, LinkHeld
<1>5. LiveLinksAreBounded'
  <2>. SUFFICES ASSUME NEW x \in Users, NEW y \in Purposes
                PROVE  Cardinality(Live(x, y)') + Cardinality(Issuing(x, y)')
                         <= Cardinality(Workers)
    BY DEF LiveLinksAreBounded
  <2>1. CASE x = u /\ y = p
    <3>1. Issuing(x, y)' \in SUBSET Workers
      BY DEF Issuing
    <3>. QED BY <1>1, <2>1, <3>1, PairOfWorkers
  <2>2. CASE ~ (x = u /\ y = p)
    <3>1. Live(x, y)' \in SUBSET Live(x, y)
      BY <1>1 DEF Live, LinksStay
    <3>2. Issuing(x, y)' \in SUBSET Issuing(x, y)
      BY <1>2, <2>2 DEF Issuing, Holds
    <3>. QED BY <3>1, <3>2, CountedAreFinite, PairShrinks DEF TokInv, LiveLinksAreBounded
  <2>. QED BY <2>1, <2>2
<1>6. ResetsStopAtFirstUse'
  <2>. SUFFICES ASSUME NEW t \in DOMAIN tokens
                PROVE  Cardinality(Resets(t)') + Cardinality(Resetting(t)')
                         <= Cardinality(Workers)
    BY <1>1 DEF ResetsStopAtFirstUse
  <2>1. Resets(t)' \in SUBSET Resets(t) /\ Resetting(t)' \in SUBSET Resetting(t)
    BY <1>2 DEF Resets, Resetting, Holds
  <2>. QED BY <2>1, CountedAreFinite, PairShrinks DEF TokInv, ResetsStopAtFirstUse
<1>. QED BY <1>2, <1>3, <1>4, <1>5, <1>6 DEF TokInv

LEMMA StoreTokenStep == ASSUME TokInv, NEW w \in Workers, StoreToken(w) PROVE TokInv'
<1>. DEFINE u == request[w].user
            p == request[w].purpose
            n == Len(tokens) + 1
            new == [user |-> u, purpose |-> p, used |-> FALSE, expired |-> FALSE]
            held == [request[w] EXCEPT !.token = n]
<1>1. /\ Holds(w, "issue") /\ request[w].token = 0 /\ u \in Users /\ p \in Purposes
      /\ Proceed(w, held) /\ held.op = "issue" /\ held.token = n
      /\ held.user = u /\ held.purpose = p
      /\ tokens' = Append(tokens, new) /\ UNCHANGED <<accountVars, mailed, redeemed>>
  BY DEF StoreToken, TokInv, LinkHeld, Holds, accountVars
<1>2. new \in Token /\ new.user = u /\ new.purpose = p /\ ~ new.used
  BY <1>1 DEF Token
<1>. HIDE DEF new, held
<1>3. /\ tokens' \in Seq(Token) /\ DOMAIN tokens' = DOMAIN tokens \cup {n}
      /\ n \notin DOMAIN tokens /\ n \in Nat \ {0} /\ tokens'[n] = new
      /\ \A t \in DOMAIN tokens : tokens'[t] = tokens[t]
  BY <1>1, <1>2 DEF TokInv, LinksOK
<1>. HIDE DEF n
<1>4. LinksStay
  BY <1>3 DEF LinksStay
<1>5. RequestsOK' /\ request'[w] = held /\ \A v \in Workers : v # w => request'[v] = request[v]
  BY <1>1, HeldNext DEF TokInv
<1>6. LinksOK'
  BY <1>1, <1>3, <1>4, LinksSaved DEF TokInv, LinksOK
<1>7. \A v \in Workers : LinkHeld(request[v])'
  BY <1>1, <1>3, <1>5 DEF TokInv, LinkHeld
<1>8. LiveLinksAreBounded'
  <2>. SUFFICES ASSUME NEW x \in Users, NEW y \in Purposes
                PROVE  Cardinality(Live(x, y)') + Cardinality(Issuing(x, y)')
                         <= Cardinality(Workers)
    BY DEF LiveLinksAreBounded
  <2>1. CASE x = u /\ y = p
    <3>1. w \in Issuing(x, y) /\ Issuing(x, y)' \in SUBSET (Issuing(x, y) \ {w})
      BY <1>1, <1>3, <1>5, <2>1 DEF Issuing, Holds
    <3>2. Live(x, y)' \in SUBSET (Live(x, y) \cup {n})
      BY <1>3 DEF Live
    <3>3. Cardinality(Live(x, y)) + Cardinality(Issuing(x, y)) <= Cardinality(Workers)
      BY DEF TokInv, LiveLinksAreBounded
    <3>. QED BY <3>1, <3>2, <3>3, CountedAreFinite, PairMoves DEF TokInv
  <2>2. CASE ~ (x = u /\ y = p)
    <3>1. Live(x, y)' \in SUBSET Live(x, y)
      BY <1>2, <1>3, <2>2 DEF Live
    <3>2. Issuing(x, y)' \in SUBSET Issuing(x, y)
      BY <1>1, <1>3, <1>5 DEF Issuing, Holds
    <3>. QED BY <3>1, <3>2, CountedAreFinite, PairShrinks DEF TokInv, LiveLinksAreBounded
  <2>. QED BY <2>1, <2>2
<1>9. ResetsStopAtFirstUse'
  <2>. SUFFICES ASSUME NEW t \in DOMAIN tokens'
                PROVE  Cardinality(Resets(t)') + Cardinality(Resetting(t)')
                         <= Cardinality(Workers)
    BY DEF ResetsStopAtFirstUse
  <2>1. Resets(t)' \in SUBSET Resets(t) /\ Resetting(t)' \in SUBSET Resetting(t)
    BY <1>1, <1>5 DEF Resets, Resetting, Holds
  <2>2. CASE t \in DOMAIN tokens
    BY <2>1, <2>2, CountedAreFinite, PairShrinks DEF TokInv, ResetsStopAtFirstUse
  <2>3. CASE t = n
    <3>1. Resets(t)' = {}
      BY <1>1, <1>3, <2>3 DEF Resets, TokInv, LinksOK
    <3>2. Resetting(t)' \in SUBSET Workers
      BY DEF Resetting
    <3>. QED BY <3>1, <3>2, PairOfWorkers
  <2>. QED BY <1>3, <2>2, <2>3
<1>. QED BY <1>1, <1>5, <1>6, <1>7, <1>8, <1>9 DEF TokInv, AccountsOK, accountVars

(* A reset begins only with a link that no reset has used.                 *)
LEMMA ReadResetStep ==
    ASSUME TokInv, NEW w \in Workers, NEW t \in DOMAIN tokens,
           ReadToken(w, t, "reset", "password_reset")
    PROVE  TokInv'
<1>. DEFINE held == [op |-> "reset", token |-> t]
<1>1. /\ Begin(w, held) /\ held.op = "reset" /\ held.token = t /\ ~ tokens[t].used
      /\ UNCHANGED <<accountVars, linkVars>>
  BY DEF ReadToken, IsValid, tokenVars, accountVars, linkVars
<1>. HIDE DEF held
<1>2. RequestsOK' /\ request'[w] = held /\ \A v \in Workers : v # w => request'[v] = request[v]
  BY <1>1, HeldNext DEF TokInv
<1>3. AccountsOK' /\ LinksOK'
  BY <1>1 DEF TokInv, AccountsOK, LinksOK, accountVars, linkVars
<1>4. \A v \in Workers : LinkHeld(request[v])'
  BY <1>1, <1>2 DEF TokInv, LinkHeld, linkVars
<1>5. LiveLinksAreBounded'
  <2>. SUFFICES ASSUME NEW x \in Users, NEW y \in Purposes
                PROVE  Cardinality(Live(x, y)') + Cardinality(Issuing(x, y)')
                         <= Cardinality(Workers)
    BY DEF LiveLinksAreBounded
  <2>1. Live(x, y)' \in SUBSET Live(x, y) /\ Issuing(x, y)' \in SUBSET Issuing(x, y)
    BY <1>1, <1>2 DEF Live, Issuing, Holds, linkVars
  <2>. QED BY <2>1, CountedAreFinite, PairShrinks DEF TokInv, LiveLinksAreBounded
<1>6. ResetsStopAtFirstUse'
  <2>. SUFFICES ASSUME NEW s \in DOMAIN tokens
                PROVE  Cardinality(Resets(s)') + Cardinality(Resetting(s)')
                         <= Cardinality(Workers)
    BY <1>1 DEF ResetsStopAtFirstUse, linkVars
  <2>1. CASE s = t
    <3>1. Resets(s)' = {} /\ Resetting(s)' \in SUBSET Workers
      BY <1>1, <2>1 DEF Resets, Resetting, TokInv, LinksOK, linkVars
    <3>. QED BY <3>1, PairOfWorkers
  <2>2. CASE s # t
    <3>1. Resets(s)' \in SUBSET Resets(s) /\ Resetting(s)' \in SUBSET Resetting(s)
      BY <1>1, <1>2, <2>2 DEF Resets, Resetting, Holds, linkVars
    <3>. QED BY <3>1, CountedAreFinite, PairShrinks DEF TokInv, ResetsStopAtFirstUse
  <2>. QED BY <2>1, <2>2
<1>. QED BY <1>2, <1>3, <1>4, <1>5, <1>6 DEF TokInv

LEMMA SetAccount ==
    ASSUME AccountsOK, NEW u \in Users, NEW row \in Account,
           account' = [account EXCEPT ![u] = row]
    PROVE  account' \in [Users -> Account]
BY DEF AccountsOK

LEMMA ResetStep == ASSUME TokInv, NEW w \in Workers, ResetPassword(w) PROVE TokInv'
<1>. DEFINE t == request[w].token
            u == tokens[t].user
            row == [account[u] EXCEPT !.password = @ + 1]
            used == [tokens[t] EXCEPT !.used = TRUE]
<1>1. /\ Holds(w, "reset") /\ t \in DOMAIN tokens /\ End(w)
      /\ account' = [account EXCEPT ![u] = row] /\ tokens' = [tokens EXCEPT ![t] = used]
      /\ redeemed' = Append(redeemed, t) /\ UNCHANGED <<mailTasks, mailed>>
  BY DEF ResetPassword, Spend, TokInv, LinkHeld, Holds
<1>2. tokens[t] \in Token /\ u \in Users /\ account[u] \in Account
  BY <1>1, LinkRows DEF TokInv, AccountsOK
<1>3. /\ row \in Account
      /\ used \in Token /\ used.user = u /\ used.purpose = tokens[t].purpose /\ used.used
  <2>1. ASSUME NEW a \in Account PROVE [a EXCEPT !.password = @ + 1] \in Account
    <3>1. a.password + 1 \in Nat
      BY DEF Account
    <3>. QED BY <3>1 DEF Account
  <2>2. used \in Token /\ used.user = u /\ used.purpose = tokens[t].purpose /\ used.used
    BY <1>2 DEF Token
  <2>. QED BY <1>2, <2>1, <2>2
<1>. HIDE DEF row, used, u, t
<1>4. AccountsOK'
  BY <1>1, <1>2, <1>3, SetAccount DEF TokInv, AccountsOK
<1>5. LinksStay /\ DOMAIN tokens' = DOMAIN tokens /\ tokens'[t].used
  BY <1>1, <1>2, <1>3, SetLink DEF TokInv, LinksOK, u
<1>6. /\ redeemed' \in Seq(DOMAIN tokens) /\ Len(redeemed) \in Nat
      /\ DOMAIN redeemed' = DOMAIN redeemed \cup {Len(redeemed) + 1}
      /\ redeemed'[Len(redeemed) + 1] = t
      /\ \A i \in DOMAIN redeemed : redeemed'[i] = redeemed[i] /\ redeemed[i] \in DOMAIN tokens
  BY <1>1 DEF TokInv, LinksOK
<1>7. LinksOK'
  BY <1>1, <1>5, <1>6 DEF TokInv, LinksOK, LinksStay
<1>8. /\ RequestsOK' /\ request'[w] = Idle
      /\ \A v \in Workers : v # w => request'[v] = request[v]
  BY <1>1, HeldNext DEF TokInv, End
<1>9. \A v \in Workers : LinkHeld(request[v])'
  BY <1>5, <1>8 DEF TokInv, LinkHeld, Idle
<1>10. LiveLinksAreBounded'
  <2>. SUFFICES ASSUME NEW x \in Users, NEW y \in Purposes
                PROVE  Cardinality(Live(x, y)') + Cardinality(Issuing(x, y)')
                         <= Cardinality(Workers)
    BY DEF LiveLinksAreBounded
  <2>1. Live(x, y)' \in SUBSET Live(x, y) /\ Issuing(x, y)' \in SUBSET Issuing(x, y)
    BY <1>5, <1>8 DEF Live, LinksStay, Issuing, Holds, Idle
  <2>. QED BY <2>1, CountedAreFinite, PairShrinks DEF TokInv, LiveLinksAreBounded
<1>11. ResetsStopAtFirstUse'
  <2>. SUFFICES ASSUME NEW s \in DOMAIN tokens
                PROVE  Cardinality(Resets(s)') + Cardinality(Resetting(s)')
                         <= Cardinality(Workers)
    BY <1>5 DEF ResetsStopAtFirstUse
  <2>1. CASE s = t
    <3>1. w \in Resetting(s) /\ Resetting(s)' \in SUBSET (Resetting(s) \ {w})
      BY <1>1, <1>8, <2>1 DEF Resetting, Holds, Idle, t
    <3>2. Resets(s)' \in SUBSET (Resets(s) \cup {Len(redeemed) + 1})
      BY <1>6 DEF Resets
    <3>3. Cardinality(Resets(s)) + Cardinality(Resetting(s)) <= Cardinality(Workers)
      BY DEF TokInv, ResetsStopAtFirstUse
    <3>. QED BY <3>1, <3>2, <3>3, CountedAreFinite, PairMoves DEF TokInv
  <2>2. CASE s # t
    <3>1. Resets(s)' \in SUBSET Resets(s) /\ Resetting(s)' \in SUBSET Resetting(s)
      BY <1>6, <1>8, <2>2 DEF Resets, Resetting, Holds, Idle
    <3>. QED BY <3>1, CountedAreFinite, PairShrinks DEF TokInv, ResetsStopAtFirstUse
  <2>. QED BY <2>1, <2>2
<1>. QED BY <1>4, <1>7, <1>8, <1>9, <1>10, <1>11 DEF TokInv

-----------------------------------------------------------------------------
(* The other steps are quiet.                                              *)
LEMMA LinksAsTheyWere ==
    ASSUME TokInv, UNCHANGED tokens
    PROVE  LinksStay /\ DOMAIN tokens' = DOMAIN tokens /\ mailed \subseteq DOMAIN tokens'
BY DEF TokInv, LinksOK, LinksStay

LEMMA HeldAsItWas ==
    ASSUME TokInv, DOMAIN tokens' = DOMAIN tokens, Spares(LinkOps)
    PROVE  \A w \in Workers : LinkHeld(request[w])'
BY DEF TokInv, Spares, LinkOps, LinkHeld

LEMMA AccountStep ==
    ASSUME TokInv, NEW u \in Users,
           Register(u) \/ ResendVerification(u) \/ RequestReset(u) \/ SetActive(u)
    PROVE  TokInv'
<1>1. AccountsOK'
  <2>1. account[u] \in Account
    BY DEF TokInv, AccountsOK
  <2>2. /\ [account[u] EXCEPT !.registered = TRUE, !.active = TRUE] \in Account
        /\ [account[u] EXCEPT !.active = ~ @] \in Account
    BY <2>1 DEF Account
  <2>3. account' \in [Users -> Account]
    BY <2>2, SetAccount
       DEF TokInv, AccountsOK, Register, ResendVerification, RequestReset, SetActive
  <2>4. mailTasks' \in [Users -> [Purposes -> Nat]]
    BY DEF TokInv, AccountsOK, Register, ResendVerification, RequestReset, SetActive, Enqueue,
           Purposes
  <2>. QED BY <2>3, <2>4 DEF AccountsOK
<1>2. request' = request /\ UNCHANGED linkVars
  BY DEF Register, ResendVerification, RequestReset, SetActive, Serve, linkVars
<1>3. Spares(LinkOps) /\ Spares({"issue", "reset"})
  BY <1>2, StillSpares DEF TokInv
<1>. QED BY <1>1, <1>2, <1>3, LinksAsTheyWere, HeldAsItWas, QuietStep DEF linkVars

LEMMA TakeMailTaskStep ==
    ASSUME TokInv, NEW w \in Workers, NEW u \in Users, NEW p \in Purposes, TakeMailTask(w, u, p)
    PROVE  TokInv'
<1>. DEFINE held == [op |-> "issue", user |-> u, purpose |-> p, token |-> 0, tries |-> 0]
<1>1. /\ TakeUp(w, held) /\ held.op = "issue" /\ held.user = u /\ held.purpose = p
      /\ held.token = 0 /\ tokens' = Supersede(u, p) /\ UNCHANGED <<account, mailed, redeemed>>
      /\ mailTasks[u][p] > 0 /\ mailTasks' = [mailTasks EXCEPT ![u][p] = @ - 1]
  BY DEF TakeMailTask
<1>. HIDE DEF held
<1>2. AccountsOK'
  BY <1>1 DEF TokInv, AccountsOK
<1>. QED BY <1>1, <1>2, BeginsToIssue

LEMMA RetryStep == ASSUME TokInv, NEW w \in Workers, RetryMailTask(w) PROVE TokInv'
<1>. DEFINE held == [request[w] EXCEPT !.token = 0, !.tries = @ + 1]
<1>1. /\ Retry(w, held) /\ held.op = "issue" /\ held.user = request[w].user
      /\ held.purpose = request[w].purpose /\ held.user \in Users /\ held.purpose \in Purposes
      /\ tokens' = Supersede(request[w].user, request[w].purpose)
      /\ UNCHANGED <<account, mailTasks, mailed, redeemed>>
  BY DEF RetryMailTask, TokInv, LinkHeld, Holds
<1>2. held.token = 0
  OBVIOUS
<1>. HIDE DEF held
<1>3. AccountsOK'
  BY <1>1 DEF TokInv, AccountsOK
<1>. QED BY <1>1, <1>2, <1>3, BeginsToIssue

LEMMA QuietSteps ==
    ASSUME TokInv, NEW w \in Workers,
           \/ SendLink(w) \/ ConfirmEmail(w) \/ (Abandon(w) /\ UNCHANGED tokenVars)
    PROVE  TokInv'
<1>1. Spares(LinkOps) /\ Spares({"issue", "reset"})
  BY EndSpares DEF TokInv, LinkOps, SendLink, ConfirmEmail, Abandon
<1>2. ASSUME SendLink(w) PROVE TokInv'
  <2>1. mailed' \subseteq DOMAIN tokens
    BY <1>2 DEF SendLink, TokInv, LinksOK, LinkHeld, Holds
  <2>2. UNCHANGED <<tokens, redeemed, accountVars>>
    BY <1>2 DEF SendLink, accountVars
  <2>3. AccountsOK'
    BY <2>2 DEF TokInv, AccountsOK, accountVars
  <2>. QED BY <1>1, <2>1, <2>2, <2>3, LinksAsTheyWere, HeldAsItWas, QuietStep
<1>3. ASSUME ConfirmEmail(w) PROVE TokInv'
  <2>. DEFINE t == request[w].token
              u == tokens[t].user
              row == [account[u] EXCEPT !.verified = TRUE]
              used == [tokens[t] EXCEPT !.used = TRUE]
  <2>1. /\ t \in DOMAIN tokens /\ account' = [account EXCEPT ![u] = row]
        /\ tokens' = [tokens EXCEPT ![t] = used] /\ UNCHANGED <<mailTasks, mailed, redeemed>>
    BY <1>3 DEF ConfirmEmail, TokInv, LinkHeld, Holds
  <2>2. tokens[t] \in Token /\ u \in Users /\ account[u] \in Account
    BY <2>1, LinkRows DEF TokInv, AccountsOK
  <2>3. /\ row \in Account
        /\ used \in Token /\ used.user = u /\ used.purpose = tokens[t].purpose /\ used.used
    BY <2>2 DEF Account, Token
  <2>. HIDE DEF row, used
  <2>4. AccountsOK'
    BY <2>1, <2>2, <2>3, SetAccount DEF TokInv, AccountsOK
  <2>5. LinksStay /\ DOMAIN tokens' = DOMAIN tokens
    BY <2>1, <2>3, SetLink DEF TokInv
  <2>. QED BY <1>1, <2>1, <2>4, <2>5, HeldAsItWas, QuietStep DEF TokInv, LinksOK
<1>4. ASSUME Abandon(w), UNCHANGED tokenVars PROVE TokInv'
  BY <1>1, <1>4, LinksAsTheyWere, HeldAsItWas, QuietStep DEF tokenVars, TokInv, AccountsOK
<1>. QED BY <1>2, <1>3, <1>4

LEMMA ExpireStep == ASSUME TokInv, NEW t \in DOMAIN tokens, Expire(t) PROVE TokInv'
<1>. DEFINE row == [tokens[t] EXCEPT !.expired = TRUE]
<1>1. /\ tokens' = [tokens EXCEPT ![t] = row] /\ request' = request
      /\ UNCHANGED <<account, mailTasks, mailed, redeemed>>
  BY DEF Expire, Serve
<1>2. tokens[t] \in Token
  BY LinkRows DEF TokInv
<1>3. /\ row \in Token /\ row.user = tokens[t].user /\ row.purpose = tokens[t].purpose
      /\ row.used = tokens[t].used
  BY <1>2 DEF Token
<1>. HIDE DEF row
<1>4. LinksStay /\ DOMAIN tokens' = DOMAIN tokens
  BY <1>1, <1>3, SetLink DEF TokInv
<1>5. Spares(LinkOps) /\ Spares({"issue", "reset"})
  BY <1>1, StillSpares DEF TokInv
<1>. QED BY <1>1, <1>4, <1>5, HeldAsItWas, QuietStep DEF TokInv, LinksOK, AccountsOK

LEMMA ReadConfirmStep ==
    ASSUME TokInv, NEW w \in Workers, NEW t \in DOMAIN tokens,
           ReadToken(w, t, "confirm", "email_verification")
    PROVE  TokInv'
<1>. DEFINE held == [op |-> "confirm", token |-> t]
<1>1. /\ Begin(w, held) /\ held.op = "confirm" /\ held.token = t
      /\ UNCHANGED <<accountVars, linkVars>>
  BY DEF ReadToken, tokenVars, accountVars, linkVars
<1>. HIDE DEF held
<1>2. request'[w] = held /\ \A v \in Workers : v # w => request'[v] = request[v]
  BY <1>1, HeldNext DEF TokInv
<1>3. Spares({"issue", "reset"})
  BY <1>1, ProceedSpares DEF TokInv
<1>4. \A v \in Workers : LinkHeld(request[v])'
  BY <1>1, <1>2 DEF TokInv, LinkHeld, linkVars
<1>5. AccountsOK'
  BY <1>1 DEF TokInv, AccountsOK, accountVars
<1>. QED BY <1>1, <1>3, <1>4, <1>5, LinksAsTheyWere, QuietStep DEF linkVars

LEMMA StepTokInv == TokInv /\ [TokNext]_<<requestVars, tokenVars>> => TokInv'
<1>. SUFFICES ASSUME TokInv, [TokNext]_<<requestVars, tokenVars>> PROVE TokInv'
  OBVIOUS
<1>1. CASE UNCHANGED <<requestVars, tokenVars>>
  <2>1. request' = request /\ UNCHANGED <<account, mailTasks, tokens, mailed, redeemed>>
    BY <1>1 DEF requestVars, tokenVars
  <2>2. Spares(LinkOps) /\ Spares({"issue", "reset"}) /\ AccountsOK'
    BY <2>1, StillSpares DEF TokInv, AccountsOK
  <2>. QED BY <2>1, <2>2, LinksAsTheyWere, HeldAsItWas, QuietStep
<1>. QED
  BY <1>1, AccountStep, TakeMailTaskStep, StoreTokenStep, RetryStep, QuietSteps, ResetStep,
     ExpireStep, ReadConfirmStep, ReadResetStep DEF TokNext

-----------------------------------------------------------------------------
(* What accounts, links and the requests in flight hold at every moment.   *)
THEOREM TokInvariance == TokSpec => []TokInv
BY InitTokInv, StepTokInv, PTL DEF TokSpec

(* Overlapping tasks leave at most as many live links of a purpose as      *)
(* there are workers to overlap (accounts/tokens.py:21), for any number of *)
(* tasks.                                                                  *)
THEOREM LinksStayBounded == TokSpec => []LiveLinksAreBounded
<1>1. TokInv => LiveLinksAreBounded
  BY DEF TokInv
<1>. QED BY <1>1, TokInvariance, PTL

(* A reset link sets the password at most once for each worker that read   *)
(* it before it was used, and never again (accounts/serializers.py:276).   *)
THEOREM UsedLinksResetNoMore == TokSpec => []ResetsStopAtFirstUse
<1>1. TokInv => ResetsStopAtFirstUse
  BY DEF TokInv
<1>. QED BY <1>1, TokInvariance, PTL

-----------------------------------------------------------------------------
(* The reset links as credentials that stay spent.  Rows only move from    *)
(* usable to ended (LinksEnd); what a worker holds is set by the steps     *)
(* that give it a request (LinkHolding).                                   *)
LinksEnd ==
    \A t \in DOMAIN tokens :
        /\ t \in DOMAIN tokens' /\ tokens'[t].purpose = tokens[t].purpose
        /\ tokens[t].used => tokens'[t].used
        /\ tokens[t].expired => tokens'[t].expired

LEMMA LinksOnlyEnd == ASSUME TokInv, [TokNext]_<<requestVars, tokenVars>> PROVE LinksEnd
<1>0. \A t \in DOMAIN tokens : /\ tokens[t] \in Token
                               /\ [tokens[t] EXCEPT !.used = TRUE] \in Token
                               /\ [tokens[t] EXCEPT !.expired = TRUE] \in Token
  BY LinkRows DEF TokInv, Token
<1>a. ASSUME UNCHANGED tokens PROVE LinksEnd
  BY <1>a DEF LinksEnd
<1>b. ASSUME NEW u, NEW p, tokens' = Supersede(u, p) PROVE LinksEnd
  <2>. SUFFICES ASSUME NEW t \in DOMAIN tokens
                PROVE  /\ t \in DOMAIN tokens' /\ tokens'[t].purpose = tokens[t].purpose
                       /\ tokens[t].used => tokens'[t].used
                       /\ tokens[t].expired => tokens'[t].expired
    BY DEF LinksEnd
  <2>1. t \in DOMAIN tokens' /\ (\/ tokens'[t] = tokens[t]
                                 \/ tokens'[t] = [tokens[t] EXCEPT !.used = TRUE])
    BY <1>b DEF Supersede
  <2>. QED BY <1>0, <2>1 DEF Token
<1>c. ASSUME NEW t \in DOMAIN tokens,
             \/ tokens' = [tokens EXCEPT ![t].used = TRUE]
             \/ tokens' = [tokens EXCEPT ![t].expired = TRUE]
      PROVE  LinksEnd
  <2>1. PICK row \in Token : /\ tokens' = [tokens EXCEPT ![t] = row]
                             /\ row.purpose = tokens[t].purpose
                             /\ tokens[t].used => row.used
                             /\ tokens[t].expired => row.expired
    <3>1. /\ [tokens[t] EXCEPT !.used = TRUE].purpose = tokens[t].purpose
          /\ [tokens[t] EXCEPT !.used = TRUE].used
          /\ [tokens[t] EXCEPT !.used = TRUE].expired = tokens[t].expired
          /\ [tokens[t] EXCEPT !.expired = TRUE].purpose = tokens[t].purpose
          /\ [tokens[t] EXCEPT !.expired = TRUE].used = tokens[t].used
          /\ [tokens[t] EXCEPT !.expired = TRUE].expired
      BY <1>0 DEF Token
    <3>. QED BY <1>0, <1>c, <3>1
  <2>. QED BY <2>1 DEF LinksEnd
<1>1. ASSUME NEW w \in Workers, StoreToken(w) PROVE LinksEnd
  BY <1>1 DEF StoreToken, LinksEnd, TokInv, LinksOK
<1>2. ASSUME NEW w \in Workers, ConfirmEmail(w) \/ ResetPassword(w) PROVE LinksEnd
  <2>1. request[w].token \in DOMAIN tokens
    BY <1>2 DEF ConfirmEmail, ResetPassword, Holds, TokInv, LinkHeld
  <2>. QED BY <1>2, <1>c, <2>1 DEF ConfirmEmail, ResetPassword, Spend
<1>3. ASSUME NEW w \in Workers, NEW u \in Users, NEW p \in Purposes,
             TakeMailTask(w, u, p) \/ RetryMailTask(w)
      PROVE  LinksEnd
  BY <1>3, <1>b DEF TakeMailTask, RetryMailTask
<1>4. ASSUME NEW t \in DOMAIN tokens, Expire(t) PROVE LinksEnd
  BY <1>4, <1>c DEF Expire
<1>5. CASE UNCHANGED tokens
  BY <1>5, <1>a
<1>6. "password_reset" \in Purposes
  BY DEF Purposes
<1>. QED
  <2>1. ASSUME NEW w \in Workers, RetryMailTask(w) PROVE LinksEnd
    BY <2>1, <1>b DEF RetryMailTask
  <2>2. ASSUME \/ \E u \in Users :
                    Register(u) \/ ResendVerification(u) \/ RequestReset(u) \/ SetActive(u)
               \/ \E w \in Workers : SendLink(w) \/ (Abandon(w) /\ UNCHANGED tokenVars)
               \/ \E w \in Workers, t \in DOMAIN tokens :
                    \/ ReadToken(w, t, "confirm", "email_verification")
                    \/ ReadToken(w, t, "reset", "password_reset")
               \/ UNCHANGED <<requestVars, tokenVars>>
        PROVE  UNCHANGED tokens
    BY <2>2 DEF Register, ResendVerification, RequestReset, SetActive, SendLink, ReadToken,
                tokenVars
  <2>. QED BY <1>1, <1>2, <1>3, <1>4, <1>5, <2>1, <2>2 DEF TokNext

LEMMA LinksChange ==
    ASSUME LinksEnd, UNCHANGED <<LinksHeld, ResetsSaved>> PROVE Links!Change
BY DEF Links!Change, LinksEnd, ResetLinks, UsableLinks

LinkStep == [Links!Next]_<<UsableLinks, ResetLinks \ UsableLinks, LinksHeld, ResetsSaved>>

LEMMA IdleHoldsNothing == Idle.op = "idle"
BY DEF Idle

LEMMA LinkHolding ==
    ASSUME NEW w \in Workers, NEW held, request'[w] = held,
           \A v \in Workers : v # w => request'[v] = request[v]
    PROVE  LinksHeld' = [LinksHeld EXCEPT ![w] =
                           IF held.op = "reset" THEN {held.token} ELSE {}]
<1>. DEFINE new == IF held.op = "reset" THEN {held.token} ELSE {}
<1>1. \A v \in Workers : LinksHeld'[v] = IF v = w THEN new ELSE LinksHeld[v]
  BY DEF LinksHeld, Holds
<1>2. LinksHeld = [v \in Workers |-> LinksHeld[v]] /\ LinksHeld' = [v \in Workers |-> LinksHeld'[v]]
  BY DEF LinksHeld
<1>. HIDE DEF new
<1>3. LinksHeld' = [LinksHeld EXCEPT ![w] = new]
  BY <1>1, <1>2
<1>. QED BY <1>3 DEF new

(* A step that takes no link up, spends none and lets none go.             *)
LEMMA LinksStayHeld ==
    ASSUME \A w \in Workers : \/ request'[w] = request[w]
                              \/ request[w].op # "reset" /\ request'[w].op # "reset"
    PROVE  UNCHANGED LinksHeld
BY DEF LinksHeld, Holds

(* The links held are links for a reset.                                   *)
LinksKnown == \A w \in Workers : LinksHeld[w] \subseteq ResetLinks

LEMMA LinkSteps ==
    ASSUME TokInv, LinksKnown, [TokNext]_<<requestVars, tokenVars>>
    PROVE  LinkStep
<1>0. LinksEnd /\ RequestsOK
  BY LinksOnlyEnd DEF TokInv
<1>1. ASSUME redeemed' = redeemed,
             \A w \in Workers : \/ request'[w] = request[w]
                                \/ request[w].op # "reset" /\ request'[w].op # "reset"
      PROVE  LinkStep
  BY <1>0, <1>1, LinksStayHeld, LinksChange DEF LinkStep, Links!Next, ResetsSaved
<1>2. ASSUME UNCHANGED <<request, redeemed>> PROVE LinkStep
  BY <1>1, <1>2
<1>3. ASSUME NEW w \in Workers, NEW u \in Users, NEW p \in Purposes, TakeMailTask(w, u, p)
      PROVE  LinkStep
  BY <1>0, <1>1, <1>3 DEF TakeMailTask, TakeUp, Idle, RequestsOK
<1>4. ASSUME NEW w \in Workers,
             StoreToken(w) \/ RetryMailTask(w) \/ SendLink(w) \/ ConfirmEmail(w)
      PROVE  LinkStep
  <2>1. PICK held : held.op # "reset" /\ (Proceed(w, held) \/ Retry(w, held))
    <3>1. CASE StoreToken(w)
      <4>. DEFINE held == [request[w] EXCEPT !.token = Len(tokens) + 1]
      <4>1. held.op # "reset" /\ Proceed(w, held)
        BY <3>1 DEF StoreToken, Holds
      <4>. HIDE DEF held
      <4>. QED BY <4>1
    <3>2. CASE RetryMailTask(w)
      <4>. DEFINE held == [request[w] EXCEPT !.token = 0, !.tries = @ + 1]
      <4>1. held.op # "reset" /\ Retry(w, held)
        BY <3>2 DEF RetryMailTask, Holds
      <4>. HIDE DEF held
      <4>. QED BY <4>1
    <3>3. CASE SendLink(w) \/ ConfirmEmail(w)
      BY <3>3 DEF SendLink, ConfirmEmail, End, Idle
    <3>. QED BY <1>4, <3>1, <3>2, <3>3
  <2>2. request[w].op # "reset" /\ redeemed' = redeemed
    BY <1>4 DEF StoreToken, RetryMailTask, SendLink, ConfirmEmail, Holds
  <2>3. request'[w] = held /\ \A v \in Workers : v # w => request'[v] = request[v]
    BY <1>0, <2>1, HeldNext
  <2>. QED BY <1>1, <2>1, <2>2, <2>3
<1>5. ASSUME NEW w \in Workers, NEW t \in DOMAIN tokens,
             ReadToken(w, t, "confirm", "email_verification")
      PROVE  LinkStep
  BY <1>0, <1>1, <1>5 DEF ReadToken, Begin, tokenVars, Idle, RequestsOK
<1>6. ASSUME NEW w \in Workers, NEW t \in DOMAIN tokens,
             ReadToken(w, t, "reset", "password_reset")
      PROVE  Links!Check(w)
  <2>. DEFINE held == [op |-> "reset", token |-> t]
  <2>1. /\ request[w] = Idle /\ Begin(w, held)
        /\ (IF held.op = "reset" THEN {held.token} ELSE {}) = {t}
    BY <1>6 DEF ReadToken, Begin
  <2>. HIDE DEF held
  <2>2. LinksHeld[w] = {} /\ LinksHeld' = [LinksHeld EXCEPT ![w] = {t}]
    <3>1. LinksHeld[w] = {}
      BY <2>1 DEF LinksHeld, Holds, Idle
    <3>. QED BY <1>0, <2>1, <3>1, HeldNext, LinkHolding
  <2>3. /\ t \in UsableLinks
        /\ UNCHANGED <<UsableLinks, ResetLinks \ UsableLinks, ResetsSaved>>
    BY <1>6 DEF ReadToken, IsValid, UsableLinks, ResetLinks, ResetsSaved, tokenVars
  <2>. QED BY <2>2, <2>3 DEF Links!Check
<1>7. ASSUME NEW w \in Workers, ResetPassword(w) PROVE Links!Grant(w)
  <2>. SUFFICES ASSUME NEW t, t = request[w].token PROVE Links!Grant(w)
    OBVIOUS
  <2>1. /\ request[w].op = "reset" /\ t \in DOMAIN tokens
        /\ Proceed(w, Idle)
        /\ tokens' = [tokens EXCEPT ![t].used = TRUE] /\ redeemed' = Append(redeemed, t)
    BY <1>7 DEF ResetPassword, Spend, End, Holds, TokInv, LinkHeld
  <2>2. LinksHeld[w] = {t} /\ LinksHeld' = [LinksHeld EXCEPT ![w] = {}]
    <3>1. LinksHeld[w] = {t}
      BY <2>1 DEF LinksHeld, Holds
    <3>. QED BY <1>0, <2>1, <3>1, HeldNext, LinkHolding, IdleHoldsNothing
  <2>3. t \in ResetLinks
    BY <2>2 DEF LinksKnown
  <2>4. /\ ResetLinks' = ResetLinks /\ UsableLinks' = UsableLinks \ {t}
    <3>1. /\ DOMAIN tokens' = DOMAIN tokens /\ tokens'[t] = [tokens[t] EXCEPT !.used = TRUE]
          /\ \A s \in DOMAIN tokens : s # t => tokens'[s] = tokens[s]
      BY <2>1 DEF TokInv, LinksOK
    <3>2. /\ [tokens[t] EXCEPT !.used = TRUE].used
          /\ [tokens[t] EXCEPT !.used = TRUE].purpose = tokens[t].purpose
      BY <2>1, LinkRows DEF TokInv, Token
    <3>3. \A s : (s \in UsableLinks') <=> (s \in UsableLinks /\ s # t)
      BY <3>1, <3>2 DEF ResetLinks, UsableLinks
    <3>4. \A s : (s \in ResetLinks') <=> (s \in ResetLinks)
      BY <3>1, <3>2 DEF ResetLinks
    <3>. QED BY <3>3, <3>4
  <2>5. (ResetLinks \ UsableLinks)' = (ResetLinks \ UsableLinks) \cup {t}
    BY <2>3, <2>4 DEF UsableLinks
  <2>6. /\ ResetsSaved' = ResetsSaved \cup {<<Len(redeemed) + 1, t>>}
        /\ Len(redeemed) + 1 \notin {receipt[1] : receipt \in ResetsSaved}
        /\ Len(redeemed) + 1 \in {receipt[1] : receipt \in ResetsSaved'}
    <3>1. /\ DOMAIN redeemed' = DOMAIN redeemed \cup {Len(redeemed) + 1}
          /\ Len(redeemed) + 1 \notin DOMAIN redeemed
          /\ redeemed'[Len(redeemed) + 1] = t
          /\ \A k \in DOMAIN redeemed : redeemed'[k] = redeemed[k]
      BY <2>1, RowInserted DEF TokInv, LinksOK
    <3>2. ResetsSaved' = ResetsSaved \cup {<<Len(redeemed) + 1, t>>}
      BY <3>1 DEF ResetsSaved
    <3>3. \A k : k \in {receipt[1] : receipt \in ResetsSaved} => k \in DOMAIN redeemed
      BY DEF ResetsSaved
    <3>4. /\ <<Len(redeemed) + 1, t>> \in ResetsSaved'
          /\ <<Len(redeemed) + 1, t>>[1] = Len(redeemed) + 1
      BY <3>2
    <3>. QED BY <3>1, <3>2, <3>3, <3>4, Zenon
  <2>. QED BY <2>2, <2>4, <2>5, <2>6 DEF Links!Grant
<1>8. ASSUME NEW w \in Workers, Abandon(w), UNCHANGED tokenVars PROVE Links!Drop(w)
  <2>1. Proceed(w, Idle)
    BY <1>8 DEF Abandon, End
  <2>2. LinksHeld' = [LinksHeld EXCEPT ![w] = {}]
    BY <1>0, <2>1, HeldNext, LinkHolding, IdleHoldsNothing
  <2>3. UNCHANGED <<UsableLinks, ResetLinks \ UsableLinks, ResetsSaved>>
    BY <1>8 DEF UsableLinks, ResetLinks, ResetsSaved, tokenVars
  <2>. QED BY <2>2, <2>3 DEF Links!Drop
<1>9. ASSUME NEW u \in Users,
             Register(u) \/ ResendVerification(u) \/ RequestReset(u) \/ SetActive(u)
      PROVE  LinkStep
  BY <1>2, <1>9 DEF Register, ResendVerification, RequestReset, SetActive, Serve
<1>10. ASSUME NEW t \in DOMAIN tokens, Expire(t) PROVE LinkStep
  BY <1>2, <1>10 DEF Expire, Serve
<1>11. CASE UNCHANGED <<requestVars, tokenVars>>
  BY <1>2, <1>11 DEF requestVars, tokenVars
<1>12. ASSUME NEW w \in Workers, Links!Check(w) \/ Links!Grant(w) \/ Links!Drop(w) PROVE LinkStep
  BY <1>12 DEF Links!Next, LinkStep
<1>13. CASE TokNext
  BY <1>13, <1>3, <1>4, <1>5, <1>6, <1>7, <1>8, <1>9, <1>10, <1>12 DEF TokNext
<1>. QED BY <1>11, <1>13 DEF requestVars

LEMMA LinksStayKnown ==
    ASSUME LinksKnown, LinkStep PROVE LinksKnown'
<1>0. UsableLinks \subseteq ResetLinks /\ UsableLinks' \subseteq ResetLinks'
  BY DEF UsableLinks
<1>1. LinksHeld = [w \in Workers |-> LinksHeld[w]]
  BY DEF LinksHeld
<1>2. CASE UNCHANGED <<UsableLinks, ResetLinks \ UsableLinks, LinksHeld, ResetsSaved>>
  BY <1>0, <1>2 DEF LinksKnown
<1>3. CASE Links!Change
  BY <1>0, <1>3 DEF Links!Change, LinksKnown
<1>4. ASSUME NEW r \in Workers, Links!Check(r) \/ Links!Drop(r) PROVE LinksKnown'
  BY <1>0, <1>1, <1>4 DEF Links!Check, Links!Drop, LinksKnown
<1>5. ASSUME NEW r \in Workers, Links!Grant(r) PROVE LinksKnown'
  BY <1>0, <1>1, <1>5 DEF Links!Grant, LinksKnown
<1>. QED BY <1>2, <1>3, <1>4, <1>5 DEF LinkStep, Links!Next

(* A password is reset only with a link its request found usable, and that *)
(* link lets nobody in afterwards (accounts/serializers.py:276, tokens.py).*)
THEOREM ResetLinksAreSpent == TokSpec => ResetLinksStaySpent
<1>1. RequestsInit /\ TokInit => Links!Init /\ LinksKnown
  BY DEF RequestsInit, TokInit, Idle, Links!Init, UsableLinks, ResetLinks, LinksHeld, Holds,
         ResetsSaved, LinksKnown
<1>2. TokInv /\ LinksKnown /\ [TokNext]_<<requestVars, tokenVars>>
      => LinkStep /\ LinksKnown'
  BY LinkSteps, LinksStayKnown
<1>. QED BY <1>1, <1>2, TokInvariance, PTL
        DEF TokSpec, ResetLinksStaySpent, Links!Spec, Links!credentialVars, LinkStep

(***************************************************************************)
(* Revocation and scopes.  What the steps may do to each table is said     *)
(* once (TokenStep, CodeStep, CredentialStep, HeldStep); every action      *)
(* keeps to it, and both action properties and the invariant follow.       *)
(***************************************************************************)

(* The scope of a token is the one its code was authorized with, or within *)
(* those of its credential.                                                *)
Granted(token) ==
    IF token.kind = "service"
    THEN token.credential \in Credentials /\ credential[token.credential] # NoCredential
         /\ token.scope \subseteq credential[token.credential].scopes
    ELSE token.code \in DOMAIN authCodes /\ token.scope = authCodes[token.code].scope

OAuthHeld(held) ==
    /\ held.op = "exchange" => held.code \in DOMAIN authCodes
    /\ held.op = "service" =>
         /\ held.credential \in Credentials /\ credential[held.credential] # NoCredential
         /\ held.scope \subseteq credential[held.credential].scopes
    /\ held.op = "introspect" => held.token \in DOMAIN oauthTokens

OAuthInv ==
    /\ request = [w \in Workers |-> request[w]]
    /\ authCodes \in Seq(AuthorizationCode)
    /\ credential \in [Credentials -> ServiceCredential]
    /\ \A k \in Credentials : credential[k] = NoCredential \/ credential[k].key # 0
    /\ oauthTokens \in Seq(OAuthTokenActivity)
    /\ \A t \in DOMAIN oauthTokens :
         /\ oauthTokens[t].revoked => oauthTokens[t].recorded
         /\ Granted(oauthTokens[t])
    /\ \A w \in Workers : OAuthHeld(request[w])

-----------------------------------------------------------------------------
(* What a step may do.                                                     *)
TokenStep ==
    /\ oauthTokens' \in Seq(OAuthTokenActivity) /\ DOMAIN oauthTokens \subseteq DOMAIN oauthTokens'
    /\ \A t \in DOMAIN oauthTokens :
         /\ oauthTokens'[t].kind = oauthTokens[t].kind
         /\ oauthTokens'[t].code = oauthTokens[t].code
         /\ oauthTokens'[t].credential = oauthTokens[t].credential
         /\ oauthTokens'[t].scope = oauthTokens[t].scope
         /\ oauthTokens'[t].recorded = oauthTokens[t].recorded
         /\ oauthTokens[t].revoked => oauthTokens'[t].revoked
         /\ oauthTokens'[t].revoked => oauthTokens[t].recorded
    /\ \A t \in DOMAIN oauthTokens' \ DOMAIN oauthTokens :
         ~ oauthTokens'[t].revoked /\ Granted(oauthTokens'[t])

CodeStep ==
    /\ authCodes' \in Seq(AuthorizationCode) /\ DOMAIN authCodes \subseteq DOMAIN authCodes'
    /\ \A i \in DOMAIN authCodes : authCodes'[i].scope = authCodes[i].scope

CredentialStep ==
    /\ credential' \in [Credentials -> ServiceCredential]
    /\ \A k \in Credentials :
         /\ credential'[k] = NoCredential \/ credential'[k].key # 0
         /\ credential[k] # NoCredential => /\ credential'[k] # NoCredential
                                            /\ credential'[k].scopes = credential[k].scopes

HeldStep ==
    /\ request' = [w \in Workers |-> request'[w]]
    /\ \A w \in Workers : request'[w] = request[w] \/ OAuthHeld(request'[w])

OAuthStep == TokenStep /\ CodeStep /\ CredentialStep /\ HeldStep

-----------------------------------------------------------------------------
LEMMA InitOAuthInv == RequestsInit /\ OAuthInit => OAuthInv
BY DEF RequestsInit, OAuthInit, OAuthInv, NoCredential, ServiceCredential, OAuthHeld, Idle

LEMMA GrantedStays ==
    ASSUME OAuthInv, CodeStep, CredentialStep, NEW token, Granted(token),
           NEW new, new.kind = token.kind, new.code = token.code,
           new.credential = token.credential, new.scope = token.scope
    PROVE  /\ new.kind = "service" =>
                /\ new.credential \in Credentials /\ credential'[new.credential] # NoCredential
                /\ new.scope \subseteq credential'[new.credential].scopes
           /\ new.kind # "service" =>
                new.code \in DOMAIN authCodes' /\ new.scope = authCodes'[new.code].scope
BY DEF Granted, CodeStep, CredentialStep

LEMMA StepKeeps == ASSUME OAuthInv, OAuthStep PROVE OAuthInv'
<1>1. ASSUME NEW t \in DOMAIN oauthTokens'
      PROVE  /\ oauthTokens'[t].revoked => oauthTokens'[t].recorded
             /\ Granted(oauthTokens[t])'
  <2>1. CASE t \in DOMAIN oauthTokens
    BY <2>1, GrantedStays DEF OAuthInv, OAuthStep, TokenStep, Granted
  <2>2. CASE t \notin DOMAIN oauthTokens
    BY <1>1, <2>2, GrantedStays DEF OAuthStep, TokenStep, Granted
  <2>. QED BY <2>1, <2>2
<1>2. ASSUME NEW w \in Workers PROVE OAuthHeld(request[w])'
  <2>1. OAuthHeld(request'[w])
    BY DEF OAuthInv, OAuthStep, HeldStep
  <2>. QED BY <2>1 DEF OAuthHeld, OAuthStep, TokenStep, CodeStep, CredentialStep
<1>. QED BY <1>1, <1>2 DEF OAuthInv, OAuthStep, TokenStep, CodeStep, CredentialStep, HeldStep

LEMMA TokensAlone == ASSUME OAuthInv, oauthTokens' = oauthTokens PROVE TokenStep
BY DEF OAuthInv, TokenStep

LEMMA CodesAlone == ASSUME OAuthInv, authCodes' = authCodes PROVE CodeStep
BY DEF OAuthInv, CodeStep

LEMMA CredentialsAlone == ASSUME OAuthInv, credential' = credential PROVE CredentialStep
BY DEF OAuthInv, CredentialStep

LEMMA RequestsAlone == ASSUME OAuthInv, request' = request PROVE HeldStep
BY DEF OAuthInv, HeldStep

LEMMA OAuthEnds == ASSUME OAuthInv, NEW w \in Workers, End(w) PROVE HeldStep
BY DEF OAuthInv, HeldStep, End, Proceed, Idle, OAuthHeld

LEMMA OAuthBegins ==
    ASSUME OAuthInv, NEW w \in Workers, NEW held, Begin(w, held), OAuthHeld(held) PROVE HeldStep
BY DEF OAuthInv, HeldStep, Begin

(* Tokens are added at the end.                                            *)
LEMMA AddTokens ==
    ASSUME OAuthInv, NEW n \in Nat, NEW new \in [1 .. n -> OAuthTokenActivity],
           \A k \in 1 .. n : ~ new[k].revoked /\ Granted(new[k]),
           oauthTokens' = oauthTokens \o new
    PROVE  TokenStep
<1>1. new \in Seq(OAuthTokenActivity) /\ Len(new) = n
  OBVIOUS
<1>2. /\ oauthTokens \in Seq(OAuthTokenActivity) /\ oauthTokens' \in Seq(OAuthTokenActivity)
      /\ DOMAIN oauthTokens' = 1 .. (Len(oauthTokens) + n)
      /\ \A t \in DOMAIN oauthTokens : oauthTokens'[t] = oauthTokens[t]
      /\ \A t \in DOMAIN oauthTokens' \ DOMAIN oauthTokens :
           t - Len(oauthTokens) \in 1 .. n /\ oauthTokens'[t] = new[t - Len(oauthTokens)]
  BY <1>1 DEF OAuthInv
<1>. QED BY <1>2 DEF OAuthInv, TokenStep

(* One column of a token is set.                                           *)
LEMMA SetToken ==
    ASSUME OAuthInv, NEW t \in DOMAIN oauthTokens, NEW new \in OAuthTokenActivity,
           new.kind = oauthTokens[t].kind, new.code = oauthTokens[t].code,
           new.credential = oauthTokens[t].credential, new.scope = oauthTokens[t].scope,
           new.recorded = oauthTokens[t].recorded, oauthTokens[t].revoked => new.revoked,
           new.revoked => new.recorded,
           oauthTokens' = [oauthTokens EXCEPT ![t] = new]
    PROVE  TokenStep
<1>1. oauthTokens \in Seq(OAuthTokenActivity) /\ oauthTokens' \in Seq(OAuthTokenActivity)
      /\ DOMAIN oauthTokens' = DOMAIN oauthTokens
  BY DEF OAuthInv
<1>. QED BY <1>1 DEF OAuthInv, TokenStep

(* One column of a credential that exists is set.                          *)
LEMMA SetCredential ==
    ASSUME OAuthInv, NEW k \in Credentials, credential[k] # NoCredential,
           NEW new \in ServiceCredential, new.key # 0, new.scopes = credential[k].scopes,
           credential' = [credential EXCEPT ![k] = new]
    PROVE  CredentialStep
<1>1. \A j \in Credentials : credential'[j] = IF j = k THEN new ELSE credential[j]
  BY DEF OAuthInv
<1>2. credential' \in [Credentials -> ServiceCredential] /\ new # NoCredential
  BY DEF OAuthInv, NoCredential
<1>. QED BY <1>1, <1>2 DEF OAuthInv, CredentialStep

(* One column of a code is set.                                            *)
LEMMA SetCode ==
    ASSUME OAuthInv, NEW i \in DOMAIN authCodes, NEW new \in AuthorizationCode,
           new.scope = authCodes[i].scope, authCodes' = [authCodes EXCEPT ![i] = new]
    PROVE  CodeStep
<1>1. /\ authCodes \in Seq(AuthorizationCode) /\ authCodes' \in Seq(AuthorizationCode)
      /\ DOMAIN authCodes' = DOMAIN authCodes
  BY DEF OAuthInv
<1>. QED BY <1>1 DEF CodeStep

-----------------------------------------------------------------------------
LEMMA EveryStep == OAuthInv /\ [OAuthNext]_<<requestVars, oauthVars>> => OAuthStep
<1>. SUFFICES ASSUME OAuthInv, [OAuthNext]_<<requestVars, oauthVars>> PROVE OAuthStep
  OBVIOUS
<1>. USE DEF OAuthStep
<1>1. CASE UNCHANGED <<requestVars, oauthVars>>
  BY <1>1, TokensAlone, CodesAlone, CredentialsAlone, RequestsAlone DEF requestVars, oauthVars
<1>2. ASSUME NEW c \in Clients, SwitchClient(c) PROVE OAuthStep
  BY <1>2, TokensAlone, CodesAlone, CredentialsAlone, RequestsAlone DEF SwitchClient, Serve
<1>3. ASSUME NEW c \in Clients, NEW u \in Users, NEW scope \in SUBSET AllowedScopes[c],
             Authorize(u, c, scope)
      PROVE  OAuthStep
  <2>. DEFINE new == [client |-> c, user |-> u, scope |-> scope, used |-> FALSE, expired |-> FALSE]
  <2>1. /\ authCodes' = Append(authCodes, new) /\ new \in AuthorizationCode
        /\ authCodes \in Seq(AuthorizationCode)
        /\ UNCHANGED <<oauthTokens, credential, request>>
    BY <1>3 DEF Authorize, Serve, AuthorizationCode, Scopes, OAuthInv
  <2>. HIDE DEF new
  <2>2. CodeStep
    BY <2>1 DEF CodeStep
  <2>. QED BY <2>1, <2>2, TokensAlone, CredentialsAlone, RequestsAlone
<1>4. ASSUME NEW w \in Workers, NEW i \in DOMAIN authCodes, ExchangeCheck(w, i) PROVE OAuthStep
  <2>. DEFINE held == [op |-> "exchange", code |-> i]
  <2>1. Begin(w, held) /\ OAuthHeld(held) /\ UNCHANGED oauthVars
    BY <1>4 DEF ExchangeCheck, OAuthHeld
  <2>. HIDE DEF held
  <2>. QED BY <2>1, OAuthBegins, TokensAlone, CodesAlone, CredentialsAlone DEF oauthVars
<1>5. ASSUME NEW w \in Workers, Exchange(w) PROVE OAuthStep
  <2>. SUFFICES ASSUME NEW i, i = request[w].code PROVE OAuthStep
    OBVIOUS
  <2>. DEFINE new == TokensOf(i)
              spent_code == [authCodes[i] EXCEPT !.used = TRUE]
  <2>1. /\ i \in DOMAIN authCodes /\ authCodes \in Seq(AuthorizationCode) /\ End(w)
        /\ oauthTokens' = oauthTokens \o new
        /\ authCodes' = [authCodes EXCEPT ![i] = spent_code] /\ credential' = credential
    BY <1>5 DEF Exchange, SpendCodeOf, OAuthInv, OAuthHeld, Holds
  <2>2. authCodes[i] \in AuthorizationCode /\ i \in Nat
    BY <2>1
  <2>3. spent_code \in AuthorizationCode /\ spent_code.scope = authCodes[i].scope
    BY <2>2 DEF AuthorizationCode
  <2>4. CodeStep
    <3>. HIDE DEF spent_code
    <3>. QED BY <2>1, <2>3, SetCode
  <2>5. ASSUME NEW kind \in {"access", "refresh", "id"}
        PROVE  LET token == Issued(kind, i, NoClient, TokenScope(i)) IN
               token \in OAuthTokenActivity /\ ~ token.revoked /\ Granted(token)
    BY <2>1, <2>2 DEF Issued, TokenScope, OAuthTokenActivity, AuthorizationCode, Granted
  <2>6. /\ new \in [1 .. 3 -> OAuthTokenActivity]
        /\ \A k \in 1 .. 3 : ~ new[k].revoked /\ Granted(new[k])
    <3>1. \A k \in 1 .. 3 : <<"access", "refresh", "id">>[k] \in {"access", "refresh", "id"}
      OBVIOUS
    <3>. QED BY <2>5, <3>1 DEF TokensOf
  <2>7. TokenStep
    <3>. HIDE DEF new
    <3>. QED BY <2>1, <2>6, AddTokens
  <2>. QED BY <2>1, <2>4, <2>7, CredentialsAlone, OAuthEnds
<1>6. ASSUME NEW k \in Credentials, NEW scopes \in SUBSET ServiceScopes,
             CreateCredential(k, scopes)
      PROVE  OAuthStep
  <2>. DEFINE new == [key |-> 1, active |-> TRUE, expired |-> FALSE, scopes |-> scopes]
  <2>1. /\ credential[k] = NoCredential /\ credential' = [credential EXCEPT ![k] = new]
        /\ new \in ServiceCredential /\ new.key # 0 /\ UNCHANGED <<oauthTokens, authCodes, request>>
    BY <1>6 DEF CreateCredential, Serve, ServiceCredential
  <2>. HIDE DEF new
  <2>2. CredentialStep
    BY <2>1 DEF OAuthInv, CredentialStep
  <2>. QED BY <2>1, <2>2, TokensAlone, CodesAlone, RequestsAlone
<1>7. ASSUME NEW k \in Credentials, RotateCredential(k) \/ DeactivateCredential(k)
      PROVE  OAuthStep
  <2>1. /\ credential[k] \in ServiceCredential /\ credential[k].key # 0
        /\ credential[k] # NoCredential
        /\ UNCHANGED <<oauthTokens, authCodes, request>>
    BY <1>7 DEF RotateCredential, DeactivateCredential, Serve, OAuthInv
  <2>2. PICK new \in ServiceCredential : /\ new.key # 0 /\ new.scopes = credential[k].scopes
                                  /\ credential' = [credential EXCEPT ![k] = new]
    <3>1. CASE RotateCredential(k)
      <4>. DEFINE r == [credential[k] EXCEPT !.key = @ + 1]
      <4>1. r \in ServiceCredential /\ r.key # 0 /\ r.scopes = credential[k].scopes
        BY <2>1 DEF ServiceCredential
      <4>2. credential' = [credential EXCEPT ![k] = r]
        BY <3>1 DEF RotateCredential
      <4>. QED BY <4>1, <4>2
    <3>2. CASE DeactivateCredential(k)
      <4>. DEFINE r == [credential[k] EXCEPT !.active = FALSE]
      <4>1. r \in ServiceCredential /\ r.key # 0 /\ r.scopes = credential[k].scopes
        BY <2>1 DEF ServiceCredential
      <4>2. credential' = [credential EXCEPT ![k] = r]
        BY <3>2 DEF DeactivateCredential
      <4>. QED BY <4>1, <4>2
    <3>. QED BY <1>7, <3>1, <3>2
  <2>. QED BY <2>1, <2>2, SetCredential, TokensAlone, CodesAlone, RequestsAlone
<1>8. ASSUME NEW w \in Workers, NEW k \in Credentials, NEW asked \in SUBSET ServiceScopes,
             ServiceCheck(w, k, asked)
      PROVE  OAuthStep
  <2>. DEFINE scope == IF asked = {} THEN credential[k].scopes ELSE asked
              held == [op |-> "service", credential |-> k, scope |-> scope]
  <2>1. /\ Begin(w, held) /\ UNCHANGED <<oauthTokens, authCodes, credential>>
        /\ credential[k].active /\ scope \subseteq credential[k].scopes
    BY <1>8 DEF ServiceCheck, CredentialAfterUse
  <2>2. OAuthHeld(held)
    BY <2>1 DEF OAuthHeld, NoCredential
  <2>. HIDE DEF held
  <2>. QED BY <2>1, <2>2, OAuthBegins, TokensAlone, CodesAlone, CredentialsAlone
<1>9. ASSUME NEW w \in Workers, IssueServiceToken(w) PROVE OAuthStep
  <2>. DEFINE token == Issued("service", 0, request[w].credential, request[w].scope)
              new == <<token>>
  <2>1. /\ OAuthHeld(request[w]) /\ request[w].op = "service" /\ End(w)
        /\ oauthTokens' = Append(oauthTokens, token) /\ UNCHANGED <<authCodes, credential>>
    BY <1>9 DEF IssueServiceToken, OAuthInv, Holds
  <2>2. /\ request[w].credential \in Credentials
        /\ request[w].scope \subseteq credential[request[w].credential].scopes
        /\ credential[request[w].credential] \in ServiceCredential
        /\ credential[request[w].credential] # NoCredential
    BY <2>1 DEF OAuthHeld, OAuthInv
  <2>3. token \in OAuthTokenActivity /\ ~ token.revoked /\ Granted(token)
    BY <2>2 DEF Issued, OAuthTokenActivity, ServiceCredential, Scopes, Granted
  <2>. HIDE DEF token
  <2>4. /\ new \in [1 .. 1 -> OAuthTokenActivity]
        /\ (\A n \in 1 .. 1 : ~ new[n].revoked /\ Granted(new[n]))
    BY <2>3
  <2>5. oauthTokens' = oauthTokens \o new
    BY <2>1, <2>3 DEF OAuthInv
  <2>6. TokenStep
    <3>. HIDE DEF new
    <3>. QED BY <2>4, <2>5, AddTokens
  <2>. QED BY <2>1, <2>6, CodesAlone, CredentialsAlone, OAuthEnds
<1>10. ASSUME NEW w \in Workers, NEW t \in DOMAIN oauthTokens, IntrospectRead(w, t) PROVE OAuthStep
  <2>. DEFINE held == [op |-> "introspect", token |-> t]
  <2>1. Begin(w, held) /\ OAuthHeld(held) /\ UNCHANGED oauthVars
    BY <1>10 DEF IntrospectRead, OAuthHeld
  <2>. HIDE DEF held
  <2>. QED BY <2>1, OAuthBegins, TokensAlone, CodesAlone, CredentialsAlone DEF oauthVars
<1>11. ASSUME NEW w \in Workers, IntrospectSave(w) \/ (Abandon(w) /\ UNCHANGED oauthVars)
       PROVE  OAuthStep
  <2>1. End(w) /\ UNCHANGED <<oauthTokens, authCodes, credential>>
    BY <1>11 DEF IntrospectSave, Abandon, oauthVars, SavedBySeen, SeenColumn
  <2>. QED BY <2>1, OAuthEnds, TokensAlone, CodesAlone, CredentialsAlone
<1>12. ASSUME NEW t \in DOMAIN oauthTokens, Revoke(t) PROVE OAuthStep
  <2>. DEFINE new == [oauthTokens[t] EXCEPT !.revoked = oauthTokens[t].recorded]
  <2>1. /\ oauthTokens \in Seq(OAuthTokenActivity) /\ oauthTokens' = [oauthTokens EXCEPT ![t] = new]
        /\ oauthTokens[t].revoked => oauthTokens[t].recorded
        /\ UNCHANGED <<authCodes, credential, request>>
    BY <1>12 DEF Revoke, Serve, OAuthInv
  <2>2. oauthTokens[t] \in OAuthTokenActivity
    BY <2>1
  <2>3. /\ new \in OAuthTokenActivity /\ new.kind = oauthTokens[t].kind
        /\ new.code = oauthTokens[t].code
        /\ new.credential = oauthTokens[t].credential /\ new.scope = oauthTokens[t].scope
        /\ new.recorded = oauthTokens[t].recorded /\ new.revoked = oauthTokens[t].recorded
    BY <2>2 DEF OAuthTokenActivity
  <2>. HIDE DEF new
  <2>4. TokenStep
    BY <2>1, <2>3, SetToken
  <2>. QED BY <2>1, <2>4, CodesAlone, CredentialsAlone, RequestsAlone
<1>13. ASSUME NEW t \in DOMAIN oauthTokens, RotateToken(t) PROVE OAuthStep
  <2>2. oauthTokens[t] \in OAuthTokenActivity
    BY DEF OAuthInv
  <2>. DEFINE pair(kind) == [oauthTokens[t] EXCEPT !.kind = kind, !.recorded = FALSE,
                                                   !.revoked = FALSE]
              new == [k \in 1 .. 2 |-> pair(<<"access", "refresh">>[k])]
  <2>1. /\ oauthTokens \in Seq(OAuthTokenActivity) /\ oauthTokens[t].kind = "refresh"
        /\ oauthTokens' = oauthTokens \o new /\ Granted(oauthTokens[t])
        /\ UNCHANGED <<authCodes, credential, request>>
    BY <1>13 DEF RotateToken, Serve, OAuthInv
  <2>3. ASSUME NEW kind \in {"access", "refresh"}
        PROVE  pair(kind) \in OAuthTokenActivity /\ ~ pair(kind).revoked /\ Granted(pair(kind))
    BY <2>1, <2>2 DEF OAuthTokenActivity, Granted
  <2>4. /\ new \in [1 .. 2 -> OAuthTokenActivity]
        /\ \A k \in 1 .. 2 : ~ new[k].revoked /\ Granted(new[k])
    <3>1. \A k \in 1 .. 2 : <<"access", "refresh">>[k] \in {"access", "refresh"}
      OBVIOUS
    <3>. HIDE DEF pair
    <3>. QED BY <2>3, <3>1
  <2>5. TokenStep
    <3>. HIDE DEF new
    <3>. QED BY <2>1, <2>4, AddTokens
  <2>. QED BY <2>1, <2>5, CodesAlone, CredentialsAlone, RequestsAlone
<1>14. CASE OAuthExpire
  <2>1. request' = request
    BY <1>14 DEF OAuthExpire, Serve
  <2>2. ASSUME NEW i \in DOMAIN authCodes, UNCHANGED <<credential, oauthTokens>>,
               authCodes' = [authCodes EXCEPT ![i].expired = TRUE]
        PROVE  OAuthStep
    <3>. DEFINE new == [authCodes[i] EXCEPT !.expired = TRUE]
    <3>1. authCodes[i] \in AuthorizationCode
      BY DEF OAuthInv
    <3>2. new \in AuthorizationCode /\ new.scope = authCodes[i].scope
      BY <3>1 DEF AuthorizationCode
    <3>3. authCodes' = [authCodes EXCEPT ![i] = new]
      BY <2>2
    <3>. HIDE DEF new
    <3>. QED BY <2>1, <2>2, <3>2, <3>3, SetCode, TokensAlone, CredentialsAlone, RequestsAlone
  <2>3. ASSUME NEW k \in Credentials, credential[k] # NoCredential,
               UNCHANGED <<authCodes, oauthTokens>>,
               credential' = [credential EXCEPT ![k].expired = TRUE]
        PROVE  OAuthStep
    <3>. DEFINE new == [credential[k] EXCEPT !.expired = TRUE]
    <3>1. credential[k] \in ServiceCredential /\ credential[k].key # 0
      BY <2>3 DEF OAuthInv
    <3>2. new \in ServiceCredential /\ new.scopes = credential[k].scopes /\ new.key # 0
      BY <3>1 DEF ServiceCredential
    <3>3. credential' = [credential EXCEPT ![k] = new]
      BY <2>3
    <3>. HIDE DEF new
    <3>. QED BY <2>1, <2>3, <3>2, <3>3, SetCredential, TokensAlone, CodesAlone, RequestsAlone
  <2>4. ASSUME NEW t \in DOMAIN oauthTokens, UNCHANGED <<authCodes, credential>>,
               oauthTokens' = [oauthTokens EXCEPT ![t].expired = TRUE]
        PROVE  OAuthStep
    <3>. DEFINE new == [oauthTokens[t] EXCEPT !.expired = TRUE]
    <3>1. /\ oauthTokens[t] \in OAuthTokenActivity
          /\ (oauthTokens[t].revoked => oauthTokens[t].recorded)
      BY DEF OAuthInv
    <3>2. /\ new \in OAuthTokenActivity /\ new.kind = oauthTokens[t].kind
          /\ new.code = oauthTokens[t].code
          /\ new.credential = oauthTokens[t].credential /\ new.scope = oauthTokens[t].scope
          /\ new.recorded = oauthTokens[t].recorded /\ new.revoked = oauthTokens[t].revoked
      BY <3>1 DEF OAuthTokenActivity
    <3>3. oauthTokens' = [oauthTokens EXCEPT ![t] = new]
      BY <2>4
    <3>. HIDE DEF new
    <3>4. TokenStep
      BY <3>1, <3>2, <3>3, SetToken
    <3>. QED BY <2>1, <2>4, <3>4, CodesAlone, CredentialsAlone, RequestsAlone
  <2>. QED BY <1>14, <2>2, <2>3, <2>4 DEF OAuthExpire
<1>. HIDE DEF OAuthStep
<1>. QED
  BY <1>1, <1>2, <1>3, <1>4, <1>5, <1>6, <1>7, <1>8, <1>9, <1>10, <1>11, <1>12, <1>13, <1>14
     DEF OAuthNext

-----------------------------------------------------------------------------
(* What a token may be and what a request in flight may carry.             *)
THEOREM OAuthInvariance == OAuthSpec => []OAuthInv
<1>1. OAuthInv /\ [OAuthNext]_<<requestVars, oauthVars>> => OAuthInv'
  BY EveryStep, StepKeeps
<1>. QED BY <1>1, InitOAuthInv, PTL DEF OAuthSpec

(* A revoked record stays revoked (accounts/oauth.py, revoke_token).       *)
THEOREM RevocationsAreFinal == OAuthSpec => RevocationIsFinal
<1>1. OAuthInv /\ [OAuthNext]_<<requestVars, oauthVars>>
      => [\A t \in DOMAIN oauthTokens :
            oauthTokens[t].revoked => oauthTokens'[t].revoked]_oauthTokens
  BY EveryStep DEF OAuthStep, TokenStep
<1>. QED BY <1>1, OAuthInvariance, PTL DEF OAuthSpec, RevocationIsFinal

(* A token carries what was granted, and a narrower request takes nothing  *)
(* from the credential (accounts/service_credentials.py).                  *)
THEOREM ScopesStayGranted == OAuthSpec => ScopesAreThoseGranted
<1>1. OAuthInv /\ [OAuthNext]_<<requestVars, oauthVars>>
      => [/\ \A t \in DOMAIN oauthTokens' \ DOMAIN oauthTokens :
                IF oauthTokens'[t].kind = "service"
                THEN oauthTokens'[t].scope
                       \subseteq credential[oauthTokens'[t].credential].scopes
                ELSE oauthTokens'[t].scope = authCodes[oauthTokens'[t].code].scope
          /\ \A k \in Credentials :
                credential[k] # NoCredential => credential'[k].scopes = credential[k].scopes
         ]_oauthVars
  BY EveryStep DEF OAuthStep, TokenStep, CredentialStep, Granted
<1>. QED BY <1>1, OAuthInvariance, PTL DEF OAuthSpec, ScopesAreThoseGranted

-----------------------------------------------------------------------------
(* The authorization codes as credentials that stay spent.                 *)
CodesEnd ==
    \A i \in DOMAIN authCodes :
        /\ i \in DOMAIN authCodes'
        /\ authCodes[i].used => authCodes'[i].used
        /\ authCodes[i].expired => authCodes'[i].expired

ExchangeStep ==
    [Authorizations!Next]_<<UsableCodes, DOMAIN authCodes \ UsableCodes, CodesHeld, Exchanges>>

LEMMA CodesOnlyEnd == ASSUME OAuthInv, [OAuthNext]_<<requestVars, oauthVars>> PROVE CodesEnd
<1>0. authCodes \in Seq(AuthorizationCode)
  BY DEF OAuthInv
<1>1. ASSUME NEW i \in DOMAIN authCodes,
             \/ authCodes' = [authCodes EXCEPT ![i].used = TRUE]
             \/ authCodes' = [authCodes EXCEPT ![i].expired = TRUE]
      PROVE  CodesEnd
  <2>1. authCodes[i] \in AuthorizationCode
    BY <1>0
  <2>2. PICK row : /\ authCodes' = [authCodes EXCEPT ![i] = row]
                   /\ authCodes[i].used => row.used
                   /\ authCodes[i].expired => row.expired
    <3>1. /\ [authCodes[i] EXCEPT !.used = TRUE].used
          /\ [authCodes[i] EXCEPT !.used = TRUE].expired = authCodes[i].expired
          /\ [authCodes[i] EXCEPT !.expired = TRUE].used = authCodes[i].used
          /\ [authCodes[i] EXCEPT !.expired = TRUE].expired
      BY <2>1 DEF AuthorizationCode
    <3>. QED BY <1>1, <3>1
  <2>. QED BY <2>2 DEF CodesEnd
<1>2. ASSUME NEW c \in Clients, NEW u \in Users, NEW scope \in SUBSET AllowedScopes[c],
             Authorize(u, c, scope)
      PROVE  CodesEnd
  BY <1>0, <1>2 DEF Authorize, CodesEnd
<1>3. ASSUME NEW w \in Workers, Exchange(w) PROVE CodesEnd
  <2>1. request[w].code \in DOMAIN authCodes
    BY <1>3 DEF Exchange, Holds, OAuthInv, OAuthHeld
  <2>. QED BY <1>1, <1>3, <2>1 DEF Exchange, SpendCodeOf
<1>4. CASE OAuthExpire
  BY <1>1, <1>4 DEF OAuthExpire, CodesEnd
<1>5. CASE UNCHANGED authCodes
  BY <1>5 DEF CodesEnd
<1>6. CASE UNCHANGED <<requestVars, oauthVars>>
  BY <1>5, <1>6 DEF oauthVars
<1>7. ASSUME NEW w \in Workers,
             \/ \E i \in DOMAIN authCodes : ExchangeCheck(w, i)
             \/ \E k \in Credentials, asked \in SUBSET ServiceScopes : ServiceCheck(w, k, asked)
             \/ \E t \in DOMAIN oauthTokens : IntrospectRead(w, t)
             \/ IssueServiceToken(w) \/ IntrospectSave(w)
             \/ Abandon(w) /\ UNCHANGED oauthVars
      PROVE  UNCHANGED authCodes
  BY <1>7 DEF ExchangeCheck, ServiceCheck, IntrospectRead, IssueServiceToken, IntrospectSave,
              oauthVars
<1>8. ASSUME NEW k \in Credentials,
             \/ RotateCredential(k) \/ DeactivateCredential(k)
             \/ \E scopes \in SUBSET ServiceScopes : CreateCredential(k, scopes)
      PROVE  UNCHANGED authCodes
  BY <1>8 DEF RotateCredential, DeactivateCredential, CreateCredential
<1>9. ASSUME NEW t \in DOMAIN oauthTokens, Revoke(t) \/ RotateToken(t) PROVE UNCHANGED authCodes
  BY <1>9 DEF Revoke, RotateToken
<1>10. ASSUME NEW c \in Clients, SwitchClient(c) PROVE UNCHANGED authCodes
  BY <1>10 DEF SwitchClient
<1>. QED BY <1>2, <1>3, <1>4, <1>5, <1>6, <1>7, <1>8, <1>9, <1>10 DEF OAuthNext

LEMMA CodesChange ==
    ASSUME CodesEnd, UNCHANGED <<CodesHeld, Exchanges>> PROVE Authorizations!Change
BY DEF Authorizations!Change, CodesEnd, UsableCodes

LEMMA CodeHolding ==
    ASSUME NEW w \in Workers, NEW held, request'[w] = held,
           \A v \in Workers : v # w => request'[v] = request[v]
    PROVE  CodesHeld' = [CodesHeld EXCEPT ![w] =
                           IF held.op = "exchange" THEN {held.code} ELSE {}]
<1>. DEFINE new == IF held.op = "exchange" THEN {held.code} ELSE {}
<1>1. \A v \in Workers : CodesHeld'[v] = IF v = w THEN new ELSE CodesHeld[v]
  BY DEF CodesHeld, Holds
<1>2. /\ CodesHeld = [v \in Workers |-> CodesHeld[v]]
      /\ CodesHeld' = [v \in Workers |-> CodesHeld'[v]]
  BY DEF CodesHeld
<1>. HIDE DEF new
<1>3. CodesHeld' = [CodesHeld EXCEPT ![w] = new]
  BY <1>1, <1>2
<1>. QED BY <1>3 DEF new

LEMMA CodesStayHeld ==
    ASSUME \A w \in Workers : \/ request'[w] = request[w]
                              \/ request[w].op # "exchange" /\ request'[w].op # "exchange"
    PROVE  UNCHANGED CodesHeld
BY DEF CodesHeld, Holds

(* No tokens are issued for a code but by its exchange.                    *)
LEMMA ExchangesStay ==
    ASSUME OAuthInv, TokenStep,
           \A t \in DOMAIN oauthTokens' \ DOMAIN oauthTokens : oauthTokens'[t].kind # "id"
    PROVE  Exchanges' = Exchanges
<1>1. \A t : /\ t \in DOMAIN oauthTokens' /\ oauthTokens'[t].kind = "id"
             <=> t \in DOMAIN oauthTokens /\ oauthTokens[t].kind = "id"
  BY DEF TokenStep
<1>2. \A t \in DOMAIN oauthTokens : oauthTokens'[t].code = oauthTokens[t].code
  BY DEF TokenStep
<1>. QED BY <1>1, <1>2 DEF Exchanges

(* Where the tokens of a batch stand.                                      *)
LEMMA BatchIssued ==
    ASSUME oauthTokens \in Seq(OAuthTokenActivity), NEW n \in Nat,
           NEW new, new = [k \in 1 .. n |-> new[k]], oauthTokens' = oauthTokens \o new
    PROVE  /\ DOMAIN oauthTokens = 1 .. Len(oauthTokens) /\ Len(oauthTokens) \in Nat
           /\ DOMAIN oauthTokens' = 1 .. (Len(oauthTokens) + n)
           /\ \A t \in DOMAIN oauthTokens : oauthTokens'[t] = oauthTokens[t]
           /\ \A k \in 1 .. n : oauthTokens'[Len(oauthTokens) + k] = new[k]
<1>1. PICK T : new \in [1 .. n -> T]
  <2>1. new \in [1 .. n -> {new[k] : k \in 1 .. n}]
    OBVIOUS
  <2>. QED BY <2>1
<1>2. new \in Seq(T) /\ Len(new) = n
  BY <1>1
<1>. QED BY <1>2

LEMMA ExchangeSteps ==
    ASSUME OAuthInv, [OAuthNext]_<<requestVars, oauthVars>> PROVE ExchangeStep
<1>0. CodesEnd /\ TokenStep /\ RequestsOK /\ oauthTokens \in Seq(OAuthTokenActivity)
  BY CodesOnlyEnd, EveryStep DEF OAuthInv, RequestsOK, OAuthStep
<1>1. ASSUME \A t \in DOMAIN oauthTokens' \ DOMAIN oauthTokens : oauthTokens'[t].kind # "id",
             \A w \in Workers : \/ request'[w] = request[w]
                                \/ request[w].op # "exchange" /\ request'[w].op # "exchange"
      PROVE  ExchangeStep
  <2>1. UNCHANGED <<CodesHeld, Exchanges>>
    BY <1>0, <1>1, CodesStayHeld, ExchangesStay
  <2>. QED BY <1>0, <2>1, CodesChange DEF ExchangeStep, Authorizations!Next
<1>2. ASSUME NEW w \in Workers, NEW i \in DOMAIN authCodes, ExchangeCheck(w, i)
      PROVE  Authorizations!Check(w)
  <2>. DEFINE held == [op |-> "exchange", code |-> i]
  <2>1. /\ request[w] = Idle /\ Begin(w, held)
        /\ (IF held.op = "exchange" THEN {held.code} ELSE {}) = {i}
    BY <1>2 DEF ExchangeCheck, Begin
  <2>. HIDE DEF held
  <2>2. CodesHeld[w] = {} /\ CodesHeld' = [CodesHeld EXCEPT ![w] = {i}]
    <3>1. CodesHeld[w] = {}
      BY <2>1 DEF CodesHeld, Holds, Idle
    <3>. QED BY <1>0, <2>1, <3>1, HeldNext, CodeHolding
  <2>3. /\ i \in UsableCodes
        /\ UNCHANGED <<UsableCodes, DOMAIN authCodes \ UsableCodes, Exchanges>>
    BY <1>2 DEF ExchangeCheck, UsableCodes, Exchanges, oauthVars
  <2>. QED BY <2>2, <2>3 DEF Authorizations!Check
<1>3. ASSUME NEW w \in Workers, Exchange(w) PROVE Authorizations!Grant(w)
  <2>. SUFFICES ASSUME NEW i, i = request[w].code PROVE Authorizations!Grant(w)
    OBVIOUS
  <2>1. /\ request[w].op = "exchange" /\ i \in DOMAIN authCodes /\ Proceed(w, Idle)
        /\ authCodes \in Seq(AuthorizationCode)
        /\ authCodes' = [authCodes EXCEPT ![i].used = TRUE]
        /\ oauthTokens' = oauthTokens \o TokensOf(i)
    BY <1>3 DEF Exchange, SpendCodeOf, End, Holds, OAuthInv, OAuthHeld
  <2>2. CodesHeld[w] = {i} /\ CodesHeld' = [CodesHeld EXCEPT ![w] = {}]
    <3>1. CodesHeld[w] = {i}
      BY <2>1 DEF CodesHeld, Holds
    <3>. QED BY <1>0, <2>1, <3>1, HeldNext, CodeHolding, IdleHoldsNothing
  <2>3. DOMAIN authCodes' = DOMAIN authCodes /\ UsableCodes' = UsableCodes \ {i}
    <3>1. /\ DOMAIN authCodes' = DOMAIN authCodes
          /\ authCodes'[i] = [authCodes[i] EXCEPT !.used = TRUE]
          /\ \A j \in DOMAIN authCodes : j # i => authCodes'[j] = authCodes[j]
      BY <2>1
    <3>2. authCodes[i] \in AuthorizationCode
      BY <2>1
    <3>3. [authCodes[i] EXCEPT !.used = TRUE].used
      BY <3>2 DEF AuthorizationCode
    <3>4. \A j : j \in UsableCodes' <=> (j \in UsableCodes /\ j # i)
      BY <3>1, <3>3 DEF UsableCodes
    <3>. QED BY <3>1, <3>4
  <2>4. (DOMAIN authCodes \ UsableCodes)' = (DOMAIN authCodes \ UsableCodes) \cup {i}
    BY <2>1, <2>3
  <2>. DEFINE n == Len(oauthTokens) + 3
  <2>5. /\ Exchanges' = Exchanges \cup {<<n, i>>}
        /\ n \notin {receipt[1] : receipt \in Exchanges}
        /\ n \in {receipt[1] : receipt \in Exchanges'}
    <3>1. /\ TokensOf(i) = [k \in 1 .. 3 |-> TokensOf(i)[k]]
          /\ TokensOf(i)[1].kind = "access" /\ TokensOf(i)[2].kind = "refresh"
          /\ TokensOf(i)[3].kind = "id" /\ TokensOf(i)[3].code = i
      <4>1. \A kind : /\ Issued(kind, i, NoClient, TokenScope(i)).kind = kind
                      /\ Issued(kind, i, NoClient, TokenScope(i)).code = i
        BY DEF Issued
      <4>2. TokensOf(i) = [k \in 1 .. 3 |->
              Issued(<<"access", "refresh", "id">>[k], i, NoClient, TokenScope(i))]
        BY DEF TokensOf
      <4>3. /\ TokensOf(i)[1] = Issued("access", i, NoClient, TokenScope(i))
            /\ TokensOf(i)[2] = Issued("refresh", i, NoClient, TokenScope(i))
            /\ TokensOf(i)[3] = Issued("id", i, NoClient, TokenScope(i))
        BY <4>2
      <4>. QED BY <4>1, <4>2, <4>3
    <3>. DEFINE new == TokensOf(i)
                len == Len(oauthTokens)
    <3>a. new = [k \in 1 .. 3 |-> new[k]] /\ oauthTokens' = oauthTokens \o new
      BY <2>1, <3>1
    <3>. HIDE DEF n, new
    <3>b. /\ DOMAIN oauthTokens = 1 .. len /\ len \in Nat
          /\ DOMAIN oauthTokens' = 1 .. (len + 3)
          /\ \A t \in DOMAIN oauthTokens : oauthTokens'[t] = oauthTokens[t]
          /\ \A k \in 1 .. 3 : oauthTokens'[len + k] = new[k]
      BY <1>0, <3>a, BatchIssued
    <3>2. /\ n \in DOMAIN oauthTokens' /\ n \notin DOMAIN oauthTokens
          /\ oauthTokens'[n].kind = "id" /\ oauthTokens'[n].code = i
          /\ \A t \in DOMAIN oauthTokens :
               t \in DOMAIN oauthTokens' /\ oauthTokens'[t] = oauthTokens[t]
          /\ \A t \in DOMAIN oauthTokens' \ DOMAIN oauthTokens :
               t # n => oauthTokens'[t].kind # "id"
      <4>1. /\ oauthTokens'[len + 1].kind = "access" /\ oauthTokens'[len + 2].kind = "refresh"
            /\ oauthTokens'[len + 3].kind = "id" /\ oauthTokens'[len + 3].code = i
        BY <3>1, <3>b DEF new
      <4>. QED BY <3>b, <4>1 DEF n
    <3>3. Exchanges' = Exchanges \cup {<<n, i>>}
      BY <3>2 DEF Exchanges
    <3>4. \A k : k \in {receipt[1] : receipt \in Exchanges} => k \in DOMAIN oauthTokens
      BY DEF Exchanges
    <3>5. <<n, i>> \in Exchanges' /\ <<n, i>>[1] = n
      BY <3>3
    <3>. QED BY <3>2, <3>3, <3>4, <3>5, Zenon
  <2>. HIDE DEF n
  <2>. QED BY <2>2, <2>3, <2>4, <2>5 DEF Authorizations!Grant
<1>4. ASSUME NEW w \in Workers, Abandon(w), UNCHANGED oauthVars PROVE Authorizations!Drop(w)
  <2>1. Proceed(w, Idle)
    BY <1>4 DEF Abandon, End
  <2>2. CodesHeld' = [CodesHeld EXCEPT ![w] = {}]
    BY <1>0, <2>1, HeldNext, CodeHolding, IdleHoldsNothing
  <2>3. UNCHANGED <<UsableCodes, DOMAIN authCodes \ UsableCodes, Exchanges>>
    BY <1>4 DEF UsableCodes, Exchanges, oauthVars
  <2>. QED BY <2>2, <2>3 DEF Authorizations!Drop
<1>5. ASSUME NEW w \in Workers, NEW held, held.op # "exchange", request[w].op # "exchange",
             Begin(w, held) \/ Proceed(w, held),
             DOMAIN oauthTokens' = DOMAIN oauthTokens
      PROVE  ExchangeStep
  <2>1. request'[w] = held /\ \A v \in Workers : v # w => request'[v] = request[v]
    BY <1>0, <1>5, HeldNext
  <2>. QED BY <1>1, <1>5, <2>1
<1>6. ASSUME request' = request, DOMAIN oauthTokens' = DOMAIN oauthTokens PROVE ExchangeStep
  BY <1>1, <1>6
<1>7. ASSUME NEW w \in Workers, NEW k \in Credentials, NEW asked \in SUBSET ServiceScopes,
             ServiceCheck(w, k, asked)
      PROVE  ExchangeStep
  <2>. DEFINE held == [op |-> "service", credential |-> k,
                       scope |-> IF asked = {} THEN credential[k].scopes ELSE asked]
  <2>1. /\ Begin(w, held) /\ held.op # "exchange" /\ request[w].op # "exchange"
        /\ UNCHANGED oauthTokens
    BY <1>7 DEF ServiceCheck, Begin, Idle
  <2>. HIDE DEF held
  <2>. QED BY <1>5, <2>1
<1>8. ASSUME NEW w \in Workers, NEW t \in DOMAIN oauthTokens, IntrospectRead(w, t)
      PROVE  ExchangeStep
  <2>. DEFINE held == [op |-> "introspect", token |-> t]
  <2>1. /\ Begin(w, held) /\ held.op # "exchange" /\ request[w].op # "exchange"
        /\ UNCHANGED oauthTokens
    BY <1>8 DEF IntrospectRead, Begin, Idle, oauthVars
  <2>. HIDE DEF held
  <2>. QED BY <1>5, <2>1
<1>9. ASSUME NEW w \in Workers, IntrospectSave(w) PROVE ExchangeStep
  <2>1. Proceed(w, Idle) /\ request[w].op # "exchange" /\ UNCHANGED oauthTokens
    BY <1>9 DEF IntrospectSave, End, Holds, SavedBySeen, SeenColumn
  <2>. QED BY <1>5, <2>1, IdleHoldsNothing
<1>10. ASSUME NEW w \in Workers, IssueServiceToken(w) PROVE ExchangeStep
  <2>. DEFINE new == Issued("service", 0, request[w].credential, request[w].scope)
  <2>1. /\ Proceed(w, Idle) /\ request[w].op # "exchange" /\ new.kind # "id"
        /\ oauthTokens' = Append(oauthTokens, new)
    BY <1>10 DEF IssueServiceToken, End, Holds, Issued
  <2>. HIDE DEF new
  <2>2. \A t \in DOMAIN oauthTokens' \ DOMAIN oauthTokens : oauthTokens'[t].kind # "id"
    BY <1>0, <2>1
  <2>3. request'[w] = Idle /\ \A v \in Workers : v # w => request'[v] = request[v]
    BY <1>0, <2>1, HeldNext
  <2>. QED BY <1>1, <2>1, <2>2, <2>3, IdleHoldsNothing
<1>11. ASSUME NEW t \in DOMAIN oauthTokens, RotateToken(t) PROVE ExchangeStep
  <2>1. oauthTokens[t] \in OAuthTokenActivity
    BY <1>0
  <2>. DEFINE pair(kind) == [oauthTokens[t] EXCEPT !.kind = kind, !.recorded = FALSE,
                                                   !.revoked = FALSE]
              new == [k \in 1 .. 2 |-> pair(<<"access", "refresh">>[k])]
              len == Len(oauthTokens)
  <2>2. \A kind \in {"access", "refresh"} : pair(kind).kind # "id"
    BY <2>1 DEF OAuthTokenActivity
  <2>3. oauthTokens' = oauthTokens \o new /\ request' = request
    BY <1>11 DEF RotateToken, Serve
  <2>4. new = [k \in 1 .. 2 |-> new[k]] /\ \A k \in 1 .. 2 : new[k].kind # "id"
    <3>1. \A k \in 1 .. 2 : <<"access", "refresh">>[k] \in {"access", "refresh"}
      OBVIOUS
    <3>. HIDE DEF pair
    <3>. QED BY <2>2, <3>1
  <2>. HIDE DEF new
  <2>5. /\ DOMAIN oauthTokens = 1 .. len /\ len \in Nat
        /\ DOMAIN oauthTokens' = 1 .. (len + 2)
        /\ \A k \in 1 .. 2 : oauthTokens'[len + k] = new[k]
    BY <1>0, <2>3, <2>4, BatchIssued
  <2>6. ASSUME NEW s \in DOMAIN oauthTokens' \ DOMAIN oauthTokens
        PROVE  oauthTokens'[s].kind # "id"
    <3>1. s = len + 1 \/ s = len + 2
      BY <2>5
    <3>. QED BY <2>4, <2>5, <3>1
  <2>. QED BY <1>1, <2>3, <2>6
<1>12. ASSUME NEW t \in DOMAIN oauthTokens, Revoke(t) PROVE ExchangeStep
  BY <1>6, <1>12 DEF Revoke, Serve
<1>13. CASE OAuthExpire
  BY <1>6, <1>13 DEF OAuthExpire, Serve
<1>14. ASSUME NEW c \in Clients,
              \/ SwitchClient(c)
              \/ \E u \in Users, scope \in SUBSET AllowedScopes[c] : Authorize(u, c, scope)
       PROVE  ExchangeStep
  BY <1>6, <1>14 DEF SwitchClient, Authorize, Serve
<1>15. ASSUME NEW k \in Credentials,
              \/ RotateCredential(k) \/ DeactivateCredential(k)
              \/ \E scopes \in SUBSET ServiceScopes : CreateCredential(k, scopes)
       PROVE  ExchangeStep
  BY <1>6, <1>15 DEF RotateCredential, DeactivateCredential, CreateCredential, Serve
<1>16. CASE UNCHANGED <<requestVars, oauthVars>>
  BY <1>6, <1>16 DEF requestVars, oauthVars
<1>17. ASSUME NEW w \in Workers,
              \/ Authorizations!Check(w) \/ Authorizations!Grant(w) \/ Authorizations!Drop(w)
       PROVE  ExchangeStep
  BY <1>17 DEF Authorizations!Next, ExchangeStep
<1>. QED
  BY <1>2, <1>3, <1>4, <1>7, <1>8, <1>9, <1>10, <1>11, <1>12, <1>13, <1>14, <1>15, <1>16, <1>17
     DEF OAuthNext

(* Tokens are issued only for a code that the exchange found usable, and   *)
(* that code lets nobody in afterwards (accounts/oauth.py,                 *)
(* OAuthTokenExchangeSerializer).                                          *)
THEOREM AuthorizationCodesAreSpent == OAuthSpec => AuthorizationCodesStaySpent
<1>1. RequestsInit /\ OAuthInit => Authorizations!Init
  BY DEF RequestsInit, OAuthInit, Idle, Authorizations!Init, UsableCodes, CodesHeld, Holds,
         Exchanges
<1>2. OAuthInv /\ [OAuthNext]_<<requestVars, oauthVars>> => ExchangeStep
  BY ExchangeSteps
<1>. QED BY <1>1, <1>2, OAuthInvariance, PTL
        DEF OAuthSpec, AuthorizationCodesStaySpent, Authorizations!Spec,
            Authorizations!credentialVars, ExchangeStep

(***************************************************************************)
(* The five components as TLC runs them: a behaviour serves the requests   *)
(* of one, and the tables of the others stand still.  Whatever the part,   *)
(* all tables keep their types and all properties hold.                    *)
(***************************************************************************)

(* What the properties do not need, but the types do.                      *)
FactorHeld ==
    [op: {"login", "disable"}, user: Users, kind: Kinds, code: Nat, key: Nat, passed: BOOLEAN]

MfaHeld(held, rows) ==
    /\ held.op \in {"login", "disable"} => held \in FactorHeld
    /\ held.op = "opened" => held.login \in DOMAIN rows

MfaRest ==
    /\ codes \in [Users -> SUBSET RecoveryCode] /\ usedCodes \subseteq RecoveryCode
    /\ logins \in Seq(Login)
    /\ \A w \in Workers : MfaHeld(request[w], logins)

OAuthRest == clientActive \in [Clients -> BOOLEAN] /\ blacklisted \subseteq DOMAIN oauthTokens

PrivacyRest ==
    /\ accepted \in [Users -> SUBSET Documents]
    /\ consents \subseteq UserConsent
    /\ exports \in Seq(DataExportRequest)

-----------------------------------------------------------------------------
(* Every step serves one request or none.                                  *)
Counted == spent' = spent \/ (HasRoom /\ spent' = spent + 1)

LEMMA TokCounted == ASSUME TokNext PROVE Counted
BY DEF TokNext, Register, ResendVerification, RequestReset, SetActive, TakeMailTask, StoreToken,
   SendLink, RetryMailTask, ConfirmEmail, ResetPassword, Expire, ReadToken,
   Serve, Begin, TakeUp, Proceed, Retry, End, Abandon, Counted

LEMMA MfaCounted == ASSUME MfaNext PROVE Counted
BY DEF MfaNext, StartSetup, RevokeFamilies, ConfirmCheck, RegenerateCheck, CheckFactor,
   ConfirmSave, SpendCode, DisableSave, RegenerateDelete, RegenerateSave, OpenLogin, RecordLogin,
   Logout, RotateRefresh, RevokeRow, Serve, Begin, Proceed, End, Abandon, Counted

LEMMA OAuthCounted == ASSUME OAuthNext PROVE Counted
BY DEF OAuthNext, SwitchClient, Authorize, ExchangeCheck, ServiceCheck, IntrospectRead, Exchange,
   IssueServiceToken, IntrospectSave, RotateCredential, DeactivateCredential, CreateCredential,
   Revoke, RotateToken, OAuthExpire, Serve, Begin, Proceed, End, Abandon, Counted

LEMMA PrivacyCounted == ASSUME PrivacyNext PROVE Counted
BY DEF PrivacyNext, RequestExport, RequestDeletion, RecordConsent, ReadDeletion, FinishConsent,
   ConfirmDeletion, CancelDeletion, MarkExportReady, PassExportExpiry, ExpireExports,
   PassConfirmWindow, requestVars, Serve, Begin, Proceed, End, Abandon, Counted

LEMMA OrgCounted == ASSUME OrgNext PROVE Counted
<1>1. ASSUME NEW w \in Workers,
             \/ AddFounder(w) \/ UpdateSave(w) \/ PatchPolicySave(w)
             \/ AcceptFirst(w) \/ AcceptSecond(w) \/ Abandon(w)
             \/ \E i \in DOMAIN invitations : AcceptRead(w, i)
             \/ \E o \in Orgs, u \in Users :
                  CreateOrg(w, o, u) \/ \E c \in PolicyCodes : PatchPolicyRead(w, o, u, c)
      PROVE  Counted
  BY <1>1 DEF AddFounder, UpdateSave, PatchPolicySave, AcceptFirst, AcceptSecond, AcceptRead,
     CreateOrg, PatchPolicyRead, Begin, Proceed, End, Abandon, Counted
<1>2. ASSUME NEW w \in Workers, NEW o \in Orgs, NEW u \in Users, NEW target \in Users,
             NEW row, UpdateRead(w, o, u, target, row)
      PROVE  Counted
  BY <1>2 DEF UpdateRead, Begin, Counted
<1>3. ASSUME NEW o \in Orgs, NEW u \in Users,
             \/ \E invitee \in Users, role \in InvitedRoles : Invite(o, u, invitee, role)
             \/ \E c \in PolicyCodes : CreatePolicy(o, u, c) \/ DisablePolicy(o, u, c)
             \/ \E c \in PolicyCodes, r \in InvitedRoles, effect \in RolePermissionGrant :
                  UpsertGrant(o, u, r, c, effect)
             \/ \E x \in DOMAIN ScopePermissions : CreateTenantKey(o, u, {x})
      PROVE  Counted
  BY <1>3 DEF Invite, CreatePolicy, DisablePolicy, UpsertGrant, CreateTenantKey, Serve, Counted
<1>4. ASSUME NEW k \in DOMAIN tenantKeys, NEW u \in Users,
             RotateTenantKey(k, u) \/ DeactivateTenantKey(k, u)
      PROVE  Counted
  BY <1>4 DEF RotateTenantKey, DeactivateTenantKey, Serve, Counted
<1>5. ASSUME NEW i \in DOMAIN invitations, PassInvitation(i) PROVE Counted
  BY <1>5 DEF PassInvitation, requestVars, Counted
<1>. QED BY <1>1, <1>2, <1>3, <1>4, <1>5 DEF OrgNext

-----------------------------------------------------------------------------
(* Logins are added and never removed.                                     *)
LoginsStay == logins' \in Seq(Login) /\ DOMAIN logins \subseteq DOMAIN logins'

LEMMA LoginRows ==
    ASSUME NEW x \in Login, NEW row \in Rows, NEW live \in BOOLEAN
    PROVE  /\ [x EXCEPT !.row = row] \in Login /\ [x EXCEPT !.live = live] \in Login
           /\ [x EXCEPT !.row = row, !.code = 0] \in Login
BY DEF Login

LEMMA SetLogin ==
    ASSUME MfaRest, NEW l \in DOMAIN logins, NEW row \in Login,
           logins' = [logins EXCEPT ![l] = row]
    PROVE  LoginsStay
BY RowReplaced DEF MfaRest, LoginsStay


LEMMA AddLogin ==
    ASSUME MfaRest, NEW row \in Login, logins' = Append(logins, row)
    PROVE  LoginsStay /\ Len(logins) + 1 \in DOMAIN logins'
BY RowInserted DEF MfaRest, LoginsStay

(* A step keeps the rest when it hands no worker what does not fit.        *)
LEMMA MfaRestKept ==
    ASSUME MfaRest, LoginsStay, codes' \in [Users -> SUBSET RecoveryCode],
           usedCodes' \subseteq RecoveryCode,
           \A w \in Workers : request'[w] = request[w] \/ MfaHeld(request'[w], logins')
    PROVE  MfaRest'
BY DEF MfaRest, MfaHeld, LoginsStay

LEMMA MfaRestStep == ASSUME MfaInv, MfaRest, MfaNext PROVE MfaRest'
<1>. USE DEF RecoveryCode
<1>a. UNCHANGED logins => LoginsStay
  BY DEF MfaRest, LoginsStay
<1>b. ASSUME NEW w \in Workers, End(w)
      PROVE  \A v \in Workers : request'[v] = request[v] \/ MfaHeld(request'[v], logins')
  BY <1>b DEF MfaInv, End, Proceed, Idle, MfaHeld
<1>c. Fresh \in Nat \ {0}
  BY DEF MfaInv, Fresh
<1>d. UNCHANGED <<codes, usedCodes>> =>
        codes' \in [Users -> SUBSET RecoveryCode] /\ usedCodes' \subseteq RecoveryCode
  BY DEF MfaRest
<1>e. /\ \A l \in DOMAIN logins : logins[l] \in Login
      /\ {"none", "active", "revoked"} = Rows
  BY DEF MfaRest, Rows
<1>1. ASSUME NEW u \in Users, StartSetup(u) PROVE MfaRest'
  BY <1>1, <1>a, <1>d, MfaRestKept DEF StartSetup, Serve
<1>2. ASSUME NEW u \in Users, RevokeFamilies(u) PROVE MfaRest'
  <2>. DEFINE Row(l) == IF logins[l].user = u /\ logins[l].kind = "token"
                           /\ logins[l].row = "active"
                        THEN [logins[l] EXCEPT !.row = "revoked"] ELSE logins[l]
  <2>1. ASSUME NEW l \in DOMAIN logins PROVE Row(l) \in Login
    BY <1>e, LoginRows
  <2>2. logins' = [l \in DOMAIN logins |-> Row(l)]
    BY <1>2 DEF RevokeFamilies
  <2>. HIDE DEF Row
  <2>3. LoginsStay
    BY <2>1, <2>2 DEF LoginsStay, MfaRest
  <2>. QED BY <1>2, <2>3, <1>d, MfaRestKept DEF RevokeFamilies, Serve
<1>3. ASSUME NEW w \in Workers, NEW u \in Users, ConfirmCheck(w, u) \/ RegenerateCheck(w, u)
      PROVE  MfaRest'
  BY <1>3, <1>a, <1>d, MfaRestKept
     DEF ConfirmCheck, RegenerateCheck, Begin, mfaVars, MfaHeld, MfaInv
<1>4. ASSUME NEW w \in Workers, NEW u \in Users, NEW op \in {"login", "disable"},
             NEW kind \in Kinds, CheckFactor(w, u, op, kind)
      PROVE  MfaRest'
  <2>1. PICK f \in Factors(u) :
          Begin(w, [op |-> op, user |-> u, kind |-> kind, code |-> f,
                    key |-> device[u].key, passed |-> f = 0])
    BY <1>4 DEF CheckFactor
  <2>2. f \in Nat /\ device[u].key \in Nat
    BY DEF Factors, MfaRest, MfaInv, MfaDevice
  <2>3. [op |-> op, user |-> u, kind |-> kind, code |-> f,
         key |-> device[u].key, passed |-> f = 0] \in FactorHeld
    BY <2>2 DEF FactorHeld
  <2>4. \A v \in Workers : request'[v] = request[v] \/ MfaHeld(request'[v], logins')
    BY <2>1, <2>3 DEF Begin, MfaHeld, MfaInv
  <2>. QED BY <1>4, <2>4, <1>a, <1>d, MfaRestKept DEF CheckFactor, mfaVars
<1>5. ASSUME NEW w \in Workers, ConfirmSave(w) PROVE MfaRest'
  <2>1. codes' \in [Users -> SUBSET RecoveryCode]
    BY <1>5, <1>c DEF ConfirmSave, NewCodes, MfaRest
  <2>. QED BY <1>5, <2>1, <1>a, <1>b, MfaRestKept DEF ConfirmSave, MfaRest
<1>6. ASSUME NEW w \in Workers, SpendCode(w) PROVE MfaRest'
  <2>1. request[w] \in FactorHeld
    BY <1>6 DEF SpendCode, MfaRest, MfaHeld
  <2>2. request[w].code \in RecoveryCode
    BY <1>6, <2>1 DEF SpendCode, MfaRest, FactorHeld
  <2>3. [request[w] EXCEPT !.passed = TRUE] \in FactorHeld
    BY <2>1 DEF FactorHeld
  <2>4. \A v \in Workers : request'[v] = request[v] \/ MfaHeld(request'[v], logins')
    <3>1. [request[w] EXCEPT !.passed = TRUE].op # "opened"
      BY <2>3 DEF FactorHeld
    <3>. QED BY <1>6, <2>3, <3>1 DEF SpendCode, Proceed, MfaHeld, MfaInv
  <2>. QED BY <1>6, <2>2, <2>4, <1>a, MfaRestKept DEF SpendCode, MarkUsed, MfaRest
<1>7. ASSUME NEW w \in Workers, DisableSave(w) PROVE MfaRest'
  BY <1>7, <1>a, <1>b, MfaRestKept DEF DisableSave, MfaRest
<1>8. ASSUME NEW w \in Workers, RegenerateDelete(w) PROVE MfaRest'
  BY <1>8, <1>a, <1>d, MfaRestKept DEF RegenerateDelete, Proceed, mfaVars, MfaHeld, MfaInv
<1>9. ASSUME NEW w \in Workers, RegenerateSave(w) PROVE MfaRest'
  <2>1. codes' \in [Users -> SUBSET RecoveryCode]
    BY <1>9, <1>c DEF RegenerateSave, MfaRest
  <2>. QED BY <1>9, <2>1, <1>a, <1>b, MfaRestKept DEF RegenerateSave, MfaRest
<1>10. ASSUME NEW w \in Workers, OpenLogin(w) PROVE MfaRest'
  <2>1. request[w] \in FactorHeld
    BY <1>10 DEF OpenLogin, Passed, Holds, MfaRest, MfaHeld
  <2>2. [user |-> request[w].user, kind |-> request[w].kind,
         live |-> TRUE, row |-> "none", code |-> request[w].code] \in Login
    BY <2>1 DEF FactorHeld, Login, Rows
  <2>3. LoginsStay /\ Len(logins) + 1 \in DOMAIN logins'
    BY <1>10, <2>2, AddLogin DEF OpenLogin
  <2>4. \A v \in Workers : request'[v] = request[v] \/ MfaHeld(request'[v], logins')
    BY <1>10, <2>3 DEF OpenLogin, Proceed, MfaHeld, MfaInv
  <2>. QED BY <1>10, <2>3, <2>4, <1>d, MfaRestKept DEF OpenLogin
<1>11. ASSUME NEW w \in Workers, RecordLogin(w) PROVE MfaRest'
  <2>1. request[w].login \in DOMAIN logins
    BY <1>11 DEF RecordLogin, Holds, MfaRest, MfaHeld
  <2>2. [logins[request[w].login] EXCEPT !.row = "active"] \in Login
    BY <2>1, <1>e, LoginRows
  <2>3. logins' = [logins EXCEPT ![request[w].login] =
                       [logins[request[w].login] EXCEPT !.row = "active"]]
    BY <1>11, <2>1 DEF RecordLogin
  <2>4. LoginsStay
    BY <2>1, <2>2, <2>3, SetLogin
  <2>. QED BY <1>11, <2>4, <1>b, <1>d, MfaRestKept DEF RecordLogin
<1>12. ASSUME NEW w \in Workers, Abandon(w) /\ UNCHANGED mfaVars PROVE MfaRest'
  BY <1>12, <1>a, <1>b, <1>d, MfaRestKept DEF Abandon, mfaVars
<1>13. ASSUME NEW l \in DOMAIN logins, Logout(l) PROVE MfaRest'
  <2>1. [logins[l] EXCEPT !.live = FALSE] \in Login
    BY <1>e, LoginRows
  <2>2. logins' = [logins EXCEPT ![l] = [logins[l] EXCEPT !.live = FALSE]]
    BY <1>13 DEF Logout
  <2>3. LoginsStay
    BY <2>1, <2>2, SetLogin
  <2>. QED BY <1>13, <2>3, <1>d, MfaRestKept DEF Logout, Serve
<1>14. ASSUME NEW l \in DOMAIN logins, RotateRefresh(l) PROVE MfaRest'
  <2>1. /\ [logins[l] EXCEPT !.live = FALSE] \in Login
        /\ [logins[l] EXCEPT !.row = "none", !.code = 0] \in Login
    BY <1>e, LoginRows
  <2>2. /\ [logins EXCEPT ![l].live = FALSE] \in Seq(Login)
        /\ DOMAIN [logins EXCEPT ![l].live = FALSE] = DOMAIN logins
    <3>1. [logins EXCEPT ![l].live = FALSE]
          = [logins EXCEPT ![l] = [logins[l] EXCEPT !.live = FALSE]]
      OBVIOUS
    <3>. QED BY <2>1, <3>1, RowReplaced DEF MfaRest
  <2>3. LoginsStay
    BY <1>14, <2>1, <2>2, RowInserted DEF RotateRefresh, LoginsStay
  <2>. QED BY <1>14, <2>3, <1>d, MfaRestKept DEF RotateRefresh, Serve
<1>15. ASSUME NEW l \in DOMAIN logins, RevokeRow(l) PROVE MfaRest'
  <2>1. [logins[l] EXCEPT !.row = "revoked"] \in Login
    BY <1>e, LoginRows
  <2>2. logins' = [logins EXCEPT ![l] = [logins[l] EXCEPT !.row = "revoked"]]
    BY <1>15 DEF RevokeRow
  <2>3. LoginsStay
    BY <2>1, <2>2, SetLogin
  <2>. QED BY <1>15, <2>3, <1>d, MfaRestKept DEF RevokeRow, Serve
<1>16. "session" \in Kinds
  BY DEF Kinds
<1>. QED BY <1>1, <1>2, <1>3, <1>4, <1>5, <1>6, <1>7, <1>8, <1>9, <1>10, <1>11, <1>12, <1>13,
        <1>14, <1>15, <1>16 DEF MfaNext

-----------------------------------------------------------------------------
(* The recovery codes as credentials that stay spent.  The numbers are     *)
(* never given out again, and a code that a login holds and has passed     *)
(* with is marked used (RecoveryOK).                                       *)
RecoveryHeld(held) ==
    held.op = "login" /\ held.code # 0 =>
        held.code \in 1 .. issued /\ (held.passed => held.code \in usedCodes)

RecoveryOK ==
    /\ \A u \in Users : codes[u] \subseteq 1 .. issued
    /\ \A w \in Workers : RecoveryHeld(request[w])

MfaAll == MfaInv /\ MfaRest /\ RecoveryOK

(* A number that is given out is no number given out before.               *)
CodesOnlyEnded ==
    /\ issued' \in {issued, issued + 1} /\ usedCodes \subseteq usedCodes'
    /\ \A u \in Users : codes'[u] \subseteq codes[u] \cup ((issued + 1) .. issued')

RecoveryStep ==
    [Recovery!Next]_<<UsableRecoveryCodes, (1 .. issued) \ UsableRecoveryCodes,
                      RecoveryCodesHeld, RecoveryLogins>>

LEMMA RecoveryCodesEnd ==
    ASSUME MfaInv, MfaRest, [MfaNext]_<<requestVars, mfaVars>> PROVE CodesOnlyEnded
<1>0. issued \in Nat /\ Fresh = issued + 1 /\ codes = [u \in Users |-> codes[u]]
  BY DEF MfaInv, Fresh
<1>1. ASSUME UNCHANGED <<codes, issued>>, usedCodes \subseteq usedCodes' PROVE CodesOnlyEnded
  BY <1>0, <1>1 DEF CodesOnlyEnded
<1>2. ASSUME NEW u \in Users, StartSetup(u) PROVE CodesOnlyEnded
  BY <1>0, <1>2 DEF StartSetup, CodesOnlyEnded
<1>3. ASSUME NEW w \in Workers, ConfirmSave(w) PROVE CodesOnlyEnded
  <2>1. /\ issued' = issued + 1 /\ usedCodes' = usedCodes
        /\ codes' = [codes EXCEPT ![request[w].user] = {issued + 1}]
    BY <1>0, <1>3 DEF ConfirmSave, NewCodes
  <2>. QED BY <1>0, <2>1 DEF CodesOnlyEnded
<1>4. ASSUME NEW w \in Workers, RegenerateSave(w) PROVE CodesOnlyEnded
  <2>1. /\ issued' = issued + 1 /\ usedCodes' = usedCodes
        /\ codes' = [codes EXCEPT ![request[w].user] = (@ \ request[w].seen) \cup {issued + 1}]
    BY <1>0, <1>4 DEF RegenerateSave
  <2>. QED BY <1>0, <2>1 DEF CodesOnlyEnded
<1>5. ASSUME NEW w \in Workers, DisableSave(w) PROVE CodesOnlyEnded
  <2>1. /\ issued' = issued /\ usedCodes' = usedCodes
        /\ codes' = [codes EXCEPT ![request[w].user] = {}]
    BY <1>5 DEF DisableSave
  <2>. QED BY <1>0, <2>1 DEF CodesOnlyEnded
<1>6. ASSUME NEW w \in Workers,
             \/ SpendCode(w) \/ RegenerateDelete(w) \/ OpenLogin(w) \/ RecordLogin(w)
             \/ Abandon(w) /\ UNCHANGED mfaVars
      PROVE  CodesOnlyEnded
  BY <1>1, <1>6 DEF SpendCode, MarkUsed, RegenerateDelete, OpenLogin, RecordLogin, mfaVars
<1>7. ASSUME NEW w \in Workers, NEW u \in Users,
             \/ ConfirmCheck(w, u) \/ RegenerateCheck(w, u)
             \/ CheckFactor(w, u, "disable", "session")
             \/ \E kind \in Kinds : CheckFactor(w, u, "login", kind)
      PROVE  CodesOnlyEnded
  BY <1>1, <1>7 DEF ConfirmCheck, RegenerateCheck, CheckFactor, mfaVars
<1>8. ASSUME \/ \E u \in Users : RevokeFamilies(u)
             \/ \E l \in DOMAIN logins : Logout(l) \/ RotateRefresh(l) \/ RevokeRow(l)
      PROVE  CodesOnlyEnded
  BY <1>1, <1>8 DEF RevokeFamilies, Logout, RotateRefresh, RevokeRow
<1>9. CASE UNCHANGED <<requestVars, mfaVars>>
  BY <1>1, <1>9 DEF mfaVars
<1>. QED BY <1>2, <1>3, <1>4, <1>5, <1>6, <1>7, <1>8, <1>9 DEF MfaNext

LEMMA RecoveryChange ==
    ASSUME MfaAll, CodesOnlyEnded, UNCHANGED <<RecoveryCodesHeld, RecoveryLogins>>
    PROVE  Recovery!Change
<1>0. issued \in Nat /\ issued' \in Nat /\ 1 .. issued \subseteq 1 .. issued'
  BY DEF MfaAll, MfaInv, CodesOnlyEnded
<1>1. UsableRecoveryCodes \subseteq 1 .. issued
  BY DEF MfaAll, RecoveryOK, UsableRecoveryCodes
<1>2. ASSUME NEW x \in (1 .. issued) \ UsableRecoveryCodes PROVE x \notin UsableRecoveryCodes'
  <2>. SUFFICES ASSUME NEW u \in Users, x \in codes'[u], x \notin usedCodes' PROVE FALSE
    BY DEF UsableRecoveryCodes
  <2>1. x \in codes[u]
    BY <1>0 DEF CodesOnlyEnded
  <2>2. x \notin usedCodes
    BY DEF CodesOnlyEnded
  <2>. QED BY <2>1, <2>2 DEF UsableRecoveryCodes
<1>3. UsableRecoveryCodes \cup ((1 .. issued) \ UsableRecoveryCodes)
        \subseteq UsableRecoveryCodes' \cup ((1 .. issued') \ UsableRecoveryCodes')
  BY <1>0, <1>1
<1>4. (1 .. issued) \ UsableRecoveryCodes \subseteq (1 .. issued') \ UsableRecoveryCodes'
  BY <1>0, <1>2
<1>. QED BY <1>3, <1>4 DEF Recovery!Change

-----------------------------------------------------------------------------
RecoveryIn(held) == IF held.op = "login" THEN {held.code} \ {0} ELSE {}

LEMMA RecoveryHolding ==
    ASSUME NEW w \in Workers, NEW held, request'[w] = held,
           \A v \in Workers : v # w => request'[v] = request[v]
    PROVE  RecoveryCodesHeld' = [RecoveryCodesHeld EXCEPT ![w] = RecoveryIn(held)]
<1>1. \A v \in Workers : RecoveryCodesHeld'[v] =
        IF v = w THEN RecoveryIn(held) ELSE RecoveryCodesHeld[v]
  BY DEF RecoveryCodesHeld, RecoveryIn, Holds
<1>2. /\ RecoveryCodesHeld = [v \in Workers |-> RecoveryCodesHeld[v]]
      /\ RecoveryCodesHeld' = [v \in Workers |-> RecoveryCodesHeld'[v]]
  BY DEF RecoveryCodesHeld
<1>. QED BY <1>1, <1>2

LEMMA RecoveryStaysHeld ==
    ASSUME \A w \in Workers : \/ request'[w] = request[w]
                              \/ RecoveryIn(request'[w]) = RecoveryIn(request[w])
    PROVE  UNCHANGED RecoveryCodesHeld
BY DEF RecoveryCodesHeld, RecoveryIn, Holds

(* Logins that are changed keep their code, those that are added have none.*)
LEMMA RecoveryLoginsStay ==
    ASSUME DOMAIN logins \subseteq DOMAIN logins',
           \A l \in DOMAIN logins : logins'[l].code = logins[l].code,
           \A l \in DOMAIN logins' \ DOMAIN logins : logins'[l].code = 0
    PROVE  UNCHANGED RecoveryLogins
<1>1. \A l : l \in DOMAIN logins' /\ logins'[l].code # 0
             <=> l \in DOMAIN logins /\ logins[l].code # 0
  OBVIOUS
<1>. QED BY <1>1 DEF RecoveryLogins

LEMMA RecoveryKept ==
    ASSUME MfaAll, CodesOnlyEnded,
           \A w \in Workers : request'[w] = request[w] \/ RecoveryHeld(request[w])'
    PROVE  RecoveryOK'
<1>0. issued \in Nat /\ issued' \in Nat /\ 1 .. issued \subseteq 1 .. issued'
  BY DEF MfaAll, MfaInv, CodesOnlyEnded
<1>1. ASSUME NEW u \in Users PROVE codes'[u] \subseteq 1 .. issued'
  <2>1. /\ codes[u] \subseteq 1 .. issued
        /\ codes'[u] \subseteq codes[u] \cup ((issued + 1) .. issued')
    BY DEF MfaAll, RecoveryOK, CodesOnlyEnded
  <2>. QED BY <1>0, <2>1
<1>2. ASSUME NEW w \in Workers PROVE RecoveryHeld(request[w])'
  BY <1>0 DEF MfaAll, RecoveryOK, RecoveryHeld, CodesOnlyEnded
<1>. QED BY <1>1, <1>2 DEF RecoveryOK

(* The steps that grant no login for a code: those that begin or end no    *)
(* request, and those of a worker that holds the same code after it.       *)
LoginsKeepCodes ==
    /\ DOMAIN logins \subseteq DOMAIN logins'
    /\ \A l \in DOMAIN logins : logins'[l].code = logins[l].code
    /\ \A l \in DOMAIN logins' \ DOMAIN logins : logins'[l].code = 0

RecoveryDone == RecoveryStep /\ RecoveryOK'

LEMMA RecoveryQuiet ==
    ASSUME MfaAll, CodesOnlyEnded, LoginsKeepCodes,
           \A w \in Workers :
               \/ request'[w] = request[w]
               \/ RecoveryIn(request'[w]) = RecoveryIn(request[w]) /\ RecoveryHeld(request[w])'
    PROVE  RecoveryDone
<1>1. UNCHANGED <<RecoveryCodesHeld, RecoveryLogins>>
  BY RecoveryStaysHeld, RecoveryLoginsStay DEF LoginsKeepCodes
<1>2. RecoveryOK'
  BY RecoveryKept
<1>. QED BY <1>1, <1>2, RecoveryChange DEF RecoveryDone, RecoveryStep, Recovery!Next

LEMMA RecoveryGoesOn ==
    ASSUME MfaAll, CodesOnlyEnded, LoginsKeepCodes, NEW w \in Workers, NEW held,
           Begin(w, held) \/ Proceed(w, held),
           RecoveryIn(held) = RecoveryIn(request[w]), RecoveryHeld(held)'
    PROVE  RecoveryDone
<1>1. request'[w] = held /\ \A v \in Workers : v # w => request'[v] = request[v]
  BY HeldNext DEF MfaAll, MfaInv, RequestsOK
<1>. QED BY <1>1, RecoveryQuiet DEF RecoveryHeld

(* Requests of the other operations hold no code of a login.               *)
LEMMA OtherOps ==
    ASSUME NEW held, held.op # "login" PROVE RecoveryIn(held) = {} /\ RecoveryHeld(held)'
BY DEF RecoveryIn, RecoveryHeld

LEMMA LoginSteps ==
    ASSUME MfaAll
    PROVE  /\ UNCHANGED logins => LoginsKeepCodes
           /\ \A u \in Users : RevokeFamilies(u) => LoginsKeepCodes
           /\ \A l \in DOMAIN logins :
                Logout(l) \/ RotateRefresh(l) \/ RevokeRow(l) => LoginsKeepCodes
           /\ \A w \in Workers : RecordLogin(w) => LoginsKeepCodes
<1>0. logins \in Seq(Login) /\ \A l \in DOMAIN logins : logins[l] \in Login
  BY DEF MfaAll, MfaRest
<1>1. ASSUME NEW l \in DOMAIN logins
      PROVE  /\ [logins[l] EXCEPT !.live = FALSE].code = logins[l].code
             /\ [logins[l] EXCEPT !.row = "revoked"].code = logins[l].code
             /\ [logins[l] EXCEPT !.row = "active"].code = logins[l].code
             /\ [logins[l] EXCEPT !.row = "none", !.code = 0].code = 0
  BY <1>0 DEF Login
<1>2. UNCHANGED logins => LoginsKeepCodes
  BY DEF LoginsKeepCodes
<1>3. ASSUME NEW u \in Users, RevokeFamilies(u) PROVE LoginsKeepCodes
  BY <1>1, <1>3 DEF RevokeFamilies, LoginsKeepCodes
<1>4. ASSUME NEW l \in DOMAIN logins, NEW row, row.code = logins[l].code,
             logins' = [logins EXCEPT ![l] = row]
      PROVE  LoginsKeepCodes
  BY <1>4 DEF LoginsKeepCodes
<1>5. ASSUME NEW l \in DOMAIN logins, Logout(l) \/ RevokeRow(l) PROVE LoginsKeepCodes
  BY <1>1, <1>4, <1>5 DEF Logout, RevokeRow
<1>6. ASSUME NEW w \in Workers, RecordLogin(w) PROVE LoginsKeepCodes
  <2>1. request[w].login \in DOMAIN logins
    BY <1>6 DEF RecordLogin, Holds, MfaAll, MfaRest, MfaHeld
  <2>. QED BY <1>1, <1>4, <1>6, <2>1 DEF RecordLogin
<1>7. ASSUME NEW l \in DOMAIN logins, RotateRefresh(l) PROVE LoginsKeepCodes
  <2>. DEFINE old == [logins EXCEPT ![l] = [logins[l] EXCEPT !.live = FALSE]]
              new == [logins[l] EXCEPT !.row = "none", !.code = 0]
  <2>1. /\ [logins[l] EXCEPT !.live = FALSE] \in Login /\ new \in Login /\ new.code = 0
        /\ logins' = Append(old, new)
    BY <1>0, <1>1, <1>7, LoginRows DEF RotateRefresh, Rows
  <2>2. /\ old \in Seq(Login) /\ DOMAIN old = DOMAIN logins
        /\ \A k \in DOMAIN logins : old[k].code = logins[k].code
    BY <1>0, <1>1, <2>1, RowReplaced
  <2>. HIDE DEF old, new
  <2>3. /\ DOMAIN logins' = DOMAIN old \cup {Len(old) + 1} /\ logins'[Len(old) + 1] = new
        /\ \A k \in DOMAIN old : logins'[k] = old[k]
    BY <2>1, <2>2, RowInserted
  <2>. QED BY <2>1, <2>2, <2>3 DEF LoginsKeepCodes
<1>. QED BY <1>2, <1>3, <1>5, <1>6, <1>7

-----------------------------------------------------------------------------
LEMMA RecoverySteps ==
    ASSUME MfaAll, [MfaNext]_<<requestVars, mfaVars>> PROVE RecoveryDone
<1>0. CodesOnlyEnded /\ RequestsOK /\ logins \in Seq(Login) /\ issued \in Nat
  BY RecoveryCodesEnd DEF MfaAll, MfaInv, RequestsOK, MfaRest
<1>1. ASSUME request' = request, LoginsKeepCodes PROVE RecoveryDone
  BY <1>0, <1>1, RecoveryQuiet
<1>2. ASSUME NEW w \in Workers, NEW held, Begin(w, held) \/ Proceed(w, held), LoginsKeepCodes,
             request[w].op # "login", held.op # "login"
      PROVE  RecoveryDone
  BY <1>0, <1>2, OtherOps, RecoveryGoesOn
<1>3. ASSUME NEW u \in Users, StartSetup(u) PROVE RecoveryDone
  BY <1>1, <1>3, LoginSteps DEF StartSetup, Serve
<1>4. ASSUME NEW u \in Users, RevokeFamilies(u) PROVE RecoveryDone
  BY <1>1, <1>4, LoginSteps DEF RevokeFamilies, Serve
<1>5. ASSUME NEW l \in DOMAIN logins, Logout(l) \/ RotateRefresh(l) \/ RevokeRow(l)
      PROVE  RecoveryDone
  BY <1>1, <1>5, LoginSteps DEF Logout, RotateRefresh, RevokeRow, Serve
<1>6. CASE UNCHANGED <<requestVars, mfaVars>>
  BY <1>1, <1>6, LoginSteps DEF requestVars, mfaVars
<1>7. ASSUME NEW w \in Workers, NEW u \in Users, ConfirmCheck(w, u) \/ RegenerateCheck(w, u)
      PROVE  RecoveryDone
  <2>1. PICK op \in {"confirm", "regenerate"} :
          Begin(w, [op |-> op, user |-> u, key |-> device[u].key])
    BY <1>7 DEF ConfirmCheck, RegenerateCheck
  <2>. DEFINE held == [op |-> op, user |-> u, key |-> device[u].key]
  <2>2. /\ Begin(w, held) /\ held.op # "login" /\ request[w].op # "login" /\ UNCHANGED logins
    BY <1>7, <2>1 DEF Begin, Idle, ConfirmCheck, RegenerateCheck, mfaVars
  <2>. HIDE DEF held
  <2>. QED BY <1>2, <2>2, LoginSteps
<1>8. ASSUME NEW w \in Workers, ConfirmSave(w) \/ DisableSave(w) \/ RegenerateSave(w)
      PROVE  RecoveryDone
  <2>1. Proceed(w, Idle) /\ request[w].op # "login" /\ UNCHANGED logins
    BY <1>8 DEF ConfirmSave, DisableSave, RegenerateSave, End, Holds, Passed
  <2>. QED BY <1>2, <2>1, LoginSteps, IdleHoldsNothing
<1>9. ASSUME NEW w \in Workers, RecordLogin(w) PROVE RecoveryDone
  <2>1. Proceed(w, Idle) /\ request[w].op # "login"
    BY <1>9 DEF RecordLogin, End, Holds
  <2>. QED BY <1>2, <1>9, <2>1, LoginSteps, IdleHoldsNothing
<1>10. ASSUME NEW w \in Workers, RegenerateDelete(w) PROVE RecoveryDone
  <2>. DEFINE held == [op |-> "regenerated", user |-> request[w].user,
                       key |-> request[w].key, seen |-> codes[request[w].user]]
  <2>1. /\ Proceed(w, held) /\ held.op # "login" /\ request[w].op # "login" /\ UNCHANGED logins
    BY <1>10 DEF RegenerateDelete, Holds, mfaVars
  <2>. HIDE DEF held
  <2>. QED BY <1>2, <2>1, LoginSteps
<1>11. ASSUME NEW w \in Workers, SpendCode(w) PROVE RecoveryDone
  <2>. SUFFICES ASSUME NEW held, held = [request[w] EXCEPT !.passed = TRUE] PROVE RecoveryDone
    OBVIOUS
  <2>1. request[w] \in FactorHeld
    BY <1>11 DEF SpendCode, MfaAll, MfaRest, MfaHeld
  <2>2. /\ held.op = request[w].op /\ held.code = request[w].code /\ Proceed(w, held)
        /\ usedCodes' = usedCodes \cup {request[w].code} /\ UNCHANGED <<logins, issued>>
    BY <1>11, <2>1 DEF SpendCode, MarkUsed, FactorHeld
  <2>3. RecoveryIn(held) = RecoveryIn(request[w])
    BY <2>2 DEF RecoveryIn
  <2>4. RecoveryHeld(request[w])
    BY DEF MfaAll, RecoveryOK
  <2>5. RecoveryHeld(held)'
    BY <2>2, <2>4 DEF RecoveryHeld
  <2>. QED BY <1>0, <2>2, <2>3, <2>5, LoginSteps, RecoveryGoesOn
<1>12. ASSUME NEW w \in Workers, Abandon(w), UNCHANGED mfaVars PROVE RecoveryDone
  <2>1. Proceed(w, Idle)
    BY <1>12 DEF Abandon, End
  <2>2. request'[w] = Idle /\ \A v \in Workers : v # w => request'[v] = request[v]
    BY <1>0, <2>1, HeldNext
  <2>3. RecoveryCodesHeld' = [RecoveryCodesHeld EXCEPT ![w] = {}]
    BY <2>2, RecoveryHolding, IdleHoldsNothing DEF RecoveryIn
  <2>4. UNCHANGED <<UsableRecoveryCodes, (1 .. issued) \ UsableRecoveryCodes, RecoveryLogins>>
    BY <1>12 DEF UsableRecoveryCodes, RecoveryLogins, mfaVars
  <2>5. RecoveryOK'
    BY <1>0, <2>2, RecoveryKept, IdleHoldsNothing DEF RecoveryHeld
  <2>. QED BY <2>3, <2>4, <2>5 DEF Recovery!Drop, Recovery!Next, RecoveryStep, RecoveryDone
<1>13. ASSUME NEW w \in Workers, NEW u \in Users, NEW op \in {"disable", "login"},
              NEW kind \in Kinds, CheckFactor(w, u, op, kind)
       PROVE  RecoveryDone
  <2>1. PICK f \in Factors(u) :
          Begin(w, [op |-> op, user |-> u, kind |-> kind, code |-> f,
                    key |-> device[u].key, passed |-> f = 0])
    BY <1>13 DEF CheckFactor
  <2>. SUFFICES ASSUME NEW held,
                       held = [op |-> op, user |-> u, kind |-> kind, code |-> f,
                               key |-> device[u].key, passed |-> f = 0]
                PROVE  RecoveryDone
    OBVIOUS
  <2>2. /\ Begin(w, held) /\ held.op = op /\ held.code = f /\ held.passed = (f = 0)
        /\ request[w] = Idle /\ UNCHANGED mfaVars
    BY <1>13, <2>1 DEF Begin, CheckFactor
  <2>3. f # 0 => f \in codes[u] /\ f \notin usedCodes /\ f \in 1 .. issued
    BY DEF Factors, MfaAll, RecoveryOK
  <2>4. RecoveryIn(request[w]) = {}
    BY <2>2, IdleHoldsNothing DEF RecoveryIn
  <2>5. RecoveryHeld(held)'
    BY <2>2, <2>3 DEF RecoveryHeld, mfaVars
  <2>6. CASE op = "disable" \/ f = 0
    <3>1. RecoveryIn(held) = {} /\ UNCHANGED logins
      BY <2>2, <2>6 DEF RecoveryIn, mfaVars
    <3>. QED BY <1>0, <2>2, <2>4, <2>5, <3>1, LoginSteps, RecoveryGoesOn
  <2>7. CASE op = "login" /\ f # 0
    <3>1. request'[w] = held /\ \A v \in Workers : v # w => request'[v] = request[v]
      BY <1>0, <2>2, HeldNext
    <3>2. RecoveryIn(held) = {f}
      BY <2>2, <2>7 DEF RecoveryIn
    <3>3. RecoveryCodesHeld[w] = {}
      BY <2>4 DEF RecoveryCodesHeld, RecoveryIn, Holds
    <3>4. RecoveryCodesHeld' = [RecoveryCodesHeld EXCEPT ![w] = {f}]
      BY <3>1, <3>2, RecoveryHolding
    <3>5. f \in UsableRecoveryCodes
      BY <2>3, <2>7 DEF UsableRecoveryCodes
    <3>6. UNCHANGED <<UsableRecoveryCodes, (1 .. issued) \ UsableRecoveryCodes, RecoveryLogins>>
      BY <2>2 DEF UsableRecoveryCodes, RecoveryLogins, mfaVars
    <3>7. RecoveryOK'
      BY <1>0, <2>5, <3>1, RecoveryKept
    <3>8. Recovery!Check(w)
      BY <3>3, <3>4, <3>5, <3>6 DEF Recovery!Check
    <3>. QED BY <3>7, <3>8 DEF Recovery!Next, RecoveryStep, RecoveryDone
  <2>. QED BY <2>6, <2>7
<1>14. ASSUME NEW w \in Workers, OpenLogin(w) PROVE RecoveryDone
  <2>. SUFFICES ASSUME NEW c, c = request[w].code, NEW n, n = Len(logins) + 1
                PROVE  RecoveryDone
    OBVIOUS
  <2>. DEFINE held == [op |-> "opened", login |-> n]
              row == [user |-> request[w].user, kind |-> request[w].kind,
                      live |-> TRUE, row |-> "none", code |-> c]
  <2>1. /\ request[w].op = "login" /\ request[w].passed /\ Proceed(w, held)
        /\ held.op # "login" /\ row.code = c /\ logins' = Append(logins, row)
        /\ UNCHANGED <<codes, usedCodes, issued>>
    BY <1>14 DEF OpenLogin, Passed, Holds
  <2>2. row \in Login
    <3>1. request[w] \in FactorHeld
      BY <2>1 DEF MfaAll, MfaRest, MfaHeld
    <3>. QED BY <3>1 DEF FactorHeld, Login, Rows
  <2>. HIDE DEF held, row
  <2>3. /\ DOMAIN logins' = DOMAIN logins \cup {n} /\ n \notin DOMAIN logins
        /\ logins'[n] = row /\ \A l \in DOMAIN logins : logins'[l] = logins[l]
    BY <1>0, <2>1, <2>2, RowInserted
  <2>4. request'[w] = held /\ \A v \in Workers : v # w => request'[v] = request[v]
    BY <1>0, <2>1, HeldNext
  <2>5. RecoveryIn(held) = {} /\ RecoveryHeld(held)'
    BY <2>1, OtherOps
  <2>6. CASE c = 0
    <3>1. RecoveryIn(request[w]) = {} /\ LoginsKeepCodes
      BY <2>1, <2>3, <2>6 DEF RecoveryIn, LoginsKeepCodes
    <3>. QED BY <1>0, <2>1, <2>5, <3>1, RecoveryGoesOn
  <2>7. CASE c # 0
    <3>1. c \in 1 .. issued /\ c \in usedCodes
      <4>1. RecoveryHeld(request[w])
        BY DEF MfaAll, RecoveryOK
      <4>. QED BY <2>1, <2>7, <4>1 DEF RecoveryHeld
    <3>2. RecoveryCodesHeld[w] = {c}
      BY <2>1, <2>7 DEF RecoveryCodesHeld, Holds
    <3>3. RecoveryCodesHeld' = [RecoveryCodesHeld EXCEPT ![w] = {}]
      BY <2>4, <2>5, RecoveryHolding
    <3>4. c \notin UsableRecoveryCodes /\ UNCHANGED UsableRecoveryCodes
      BY <2>1, <3>1 DEF UsableRecoveryCodes
    <3>5. /\ UsableRecoveryCodes' = UsableRecoveryCodes \ {c}
          /\ ((1 .. issued) \ UsableRecoveryCodes)'
               = ((1 .. issued) \ UsableRecoveryCodes) \cup {c}
      BY <2>1, <3>1, <3>4
    <3>6. RecoveryLogins' = RecoveryLogins \cup {<<n, c>>}
      BY <2>1, <2>3, <2>7 DEF RecoveryLogins
    <3>7. /\ n \notin {receipt[1] : receipt \in RecoveryLogins}
          /\ n \in {receipt[1] : receipt \in RecoveryLogins'}
      <4>1. \A k : k \in {receipt[1] : receipt \in RecoveryLogins} => k \in DOMAIN logins
        BY DEF RecoveryLogins
      <4>2. <<n, c>> \in RecoveryLogins' /\ <<n, c>>[1] = n
        BY <3>6
      <4>. QED BY <2>3, <4>1, <4>2, Zenon
    <3>8. Recovery!Grant(w)
      BY <3>2, <3>3, <3>5, <3>6, <3>7 DEF Recovery!Grant
    <3>9. RecoveryOK'
      BY <1>0, <2>4, <2>5, RecoveryKept
    <3>. QED BY <3>8, <3>9 DEF Recovery!Next, RecoveryStep, RecoveryDone
  <2>. QED BY <2>6, <2>7
<1>15. "session" \in Kinds
  BY DEF Kinds
<1>. QED
  BY <1>3, <1>4, <1>5, <1>6, <1>7, <1>8, <1>9, <1>10, <1>11, <1>12, <1>13, <1>14, <1>15
     DEF MfaNext

LEMMA InitMfaAll == RequestsInit /\ MfaInit => MfaAll
<1>1. RequestsInit /\ MfaInit => MfaRest /\ RecoveryOK
  BY DEF RequestsInit, Idle, MfaInit, MfaRest, MfaHeld, RecoveryOK, RecoveryHeld
<1>. QED BY <1>1, InitMfaInv DEF MfaAll

LEMMA StepMfaAll == MfaAll /\ [MfaNext]_<<requestVars, mfaVars>> => MfaAll'
<1>1. UNCHANGED <<requestVars, mfaVars>> => (MfaRest => MfaRest')
  BY DEF requestVars, mfaVars, MfaRest, MfaHeld
<1>. QED BY <1>1, StepMfaInv, MfaRestStep, RecoverySteps DEF MfaAll, RecoveryDone

(* A login that gave a recovery code found it usable, and the code lets    *)
(* nobody in afterwards (accounts/serializers.py, validate_mfa), whatever  *)
(* regenerates or deletes the codes meanwhile.                             *)
THEOREM RecoveryCodesAreSpent == MfaSpec => RecoveryCodesStaySpent
<1>1. RequestsInit /\ MfaInit => Recovery!Init
  BY DEF RequestsInit, MfaInit, Idle, Recovery!Init, UsableRecoveryCodes, RecoveryCodesHeld, Holds,
         RecoveryLogins
<1>2. MfaAll /\ [MfaNext]_<<requestVars, mfaVars>> => RecoveryStep
  BY RecoverySteps DEF RecoveryDone
<1>. QED BY <1>1, <1>2, InitMfaAll, StepMfaAll, PTL
        DEF MfaSpec, RecoveryCodesStaySpent, Recovery!Spec, Recovery!credentialVars, RecoveryStep

-----------------------------------------------------------------------------
LEMMA OAuthRestStep == ASSUME OAuthInv, OAuthRest, OAuthNext PROVE OAuthRest'
<1>1. DOMAIN oauthTokens \subseteq DOMAIN oauthTokens'
  BY EveryStep DEF OAuthStep, TokenStep
<1>2. clientActive' \in [Clients -> BOOLEAN] /\ blacklisted' \subseteq DOMAIN oauthTokens
  <2>1. ASSUME NEW c \in Clients,
               SwitchClient(c) \/ \E u \in Users, scope \in SUBSET AllowedScopes[c] :
                                    Authorize(u, c, scope)
        PROVE  clientActive' \in [Clients -> BOOLEAN] /\ blacklisted' \subseteq DOMAIN oauthTokens
    BY <2>1 DEF SwitchClient, Authorize, OAuthRest
  <2>2. ASSUME NEW w \in Workers,
               \/ \E i \in DOMAIN authCodes : ExchangeCheck(w, i)
               \/ \E k \in Credentials, asked \in SUBSET ServiceScopes : ServiceCheck(w, k, asked)
               \/ \E t \in DOMAIN oauthTokens : IntrospectRead(w, t)
               \/ Exchange(w) \/ IssueServiceToken(w) \/ IntrospectSave(w)
               \/ Abandon(w) /\ UNCHANGED oauthVars
        PROVE  clientActive' \in [Clients -> BOOLEAN] /\ blacklisted' \subseteq DOMAIN oauthTokens
    BY <2>2 DEF ExchangeCheck, ServiceCheck, IntrospectRead, Exchange, IssueServiceToken,
       IntrospectSave, oauthVars, OAuthRest
  <2>3. ASSUME NEW k \in Credentials,
               \/ RotateCredential(k) \/ DeactivateCredential(k)
               \/ \E scopes \in SUBSET ServiceScopes : CreateCredential(k, scopes)
        PROVE  clientActive' \in [Clients -> BOOLEAN] /\ blacklisted' \subseteq DOMAIN oauthTokens
    BY <2>3 DEF RotateCredential, DeactivateCredential, CreateCredential, OAuthRest
  <2>4. ASSUME NEW t \in DOMAIN oauthTokens, Revoke(t) \/ RotateToken(t)
        PROVE  clientActive' \in [Clients -> BOOLEAN] /\ blacklisted' \subseteq DOMAIN oauthTokens
    BY <2>4 DEF Revoke, RotateToken, OAuthRest
  <2>5. CASE OAuthExpire
    BY <2>5 DEF OAuthExpire, OAuthRest
  <2>. QED BY <2>1, <2>2, <2>3, <2>4, <2>5 DEF OAuthNext
<1>. QED BY <1>1, <1>2 DEF OAuthRest

-----------------------------------------------------------------------------
LEMMA ConsentStored ==
    ASSUME PrivacyRest, NEW step \in {"row", "date"}, NEW u \in Users, NEW type \in ConsentTypes,
           NEW granted \in BOOLEAN, StoreConsent(step, u, type, granted)
    PROVE  accepted' \in [Users -> SUBSET Documents] /\ consents' \subseteq UserConsent
<1>1. [user |-> u, type |-> type, granted |-> granted] \in UserConsent
  BY DEF UserConsent
<1>. QED BY <1>1 DEF StoreConsent, PrivacyRest

LEMMA ExportRows ==
    ASSUME NEW row \in DataExportRequest, NEW late \in BOOLEAN, NEW status \in ExportStatuses
    PROVE  /\ [row EXCEPT !.late = late] \in DataExportRequest
           /\ [row EXCEPT !.status = status] \in DataExportRequest
           /\ [row EXCEPT !.status = status, !.late = late] \in DataExportRequest
BY DEF DataExportRequest

LEMMA PrivacyRestStep == ASSUME PrivacyInv, PrivacyRest, PrivacyNext PROVE PrivacyRest'
<1>a. /\ {"pending", "ready", "expired"} \subseteq ExportStatuses
      /\ \A x \in DOMAIN exports : exports[x] \in DataExportRequest
  BY DEF ExportStatuses, PrivacyRest
<1>1. ASSUME NEW u \in Users, RequestExport(u) PROVE PrivacyRest'
  <2>1. [user |-> u, status |-> "pending", late |-> FALSE] \in DataExportRequest
    BY <1>a DEF DataExportRequest
  <2>. QED BY <1>1, <2>1 DEF RequestExport, PrivacyRest
<1>2. ASSUME NEW u \in Users, RequestDeletion(u) PROVE PrivacyRest'
  BY <1>2 DEF RequestDeletion, PrivacyRest
<1>3. ASSUME NEW w \in Workers, NEW u \in Users, NEW type \in ConsentTypes,
             NEW granted \in BOOLEAN, RecordConsent(w, u, type, granted)
      PROVE  PrivacyRest'
  <2>1. ConsentOrder[1] \in {"row", "date"}
    BY DEF ConsentOrder, ConsentFirst
  <2>. QED BY <1>3, <2>1, ConsentStored DEF RecordConsent, PrivacyRest
<1>4. ASSUME NEW w \in Workers, FinishConsent(w) PROVE PrivacyRest'
  <2>1. ConsentOrder[2] \in {"row", "date"}
    BY DEF ConsentOrder, ConsentFirst
  <2>2. /\ request[w].user \in Users /\ request[w].type \in ConsentTypes
        /\ request[w].granted \in BOOLEAN
    BY <1>4 DEF FinishConsent, PrivacyInv, ConsentsOK
  <2>. QED BY <1>4, <2>1, <2>2, ConsentStored DEF FinishConsent, PrivacyRest
<1>5. ASSUME NEW w \in Workers,
             ConfirmDeletion(w) \/ CancelDeletion(w) \/ (Abandon(w) /\ UNCHANGED privacyVars)
      PROVE  PrivacyRest'
  BY <1>5 DEF ConfirmDeletion, CancelDeletion, privacyVars, PrivacyRest
<1>6. ASSUME NEW w \in Workers, NEW d \in DOMAIN deletions, NEW op \in {"confirm", "cancel"},
             ReadDeletion(w, d, op)
      PROVE  PrivacyRest'
  BY <1>6 DEF ReadDeletion, privacyVars, PrivacyRest
<1>7. ASSUME NEW x \in DOMAIN exports, MarkExportReady(x) PROVE PrivacyRest'
  <2>1. [exports[x] EXCEPT !.status = "ready", !.late = FALSE] \in DataExportRequest
    BY <1>a, ExportRows
  <2>2. exports' = [exports EXCEPT ![x] = [exports[x] EXCEPT !.status = "ready", !.late = FALSE]]
    BY <1>7 DEF MarkExportReady, PrivacyRest
  <2>3. exports' \in Seq(DataExportRequest)
    BY <2>1, <2>2, RowReplaced DEF PrivacyRest
  <2>. QED BY <1>7, <2>3 DEF MarkExportReady, PrivacyRest
<1>8. ASSUME NEW x \in DOMAIN exports, PassExportExpiry(x) PROVE PrivacyRest'
  <2>1. [exports[x] EXCEPT !.late = TRUE] \in DataExportRequest
    BY <1>a, ExportRows
  <2>2. exports' = [exports EXCEPT ![x] = [exports[x] EXCEPT !.late = TRUE]]
    BY <1>8 DEF PassExportExpiry
  <2>3. exports' \in Seq(DataExportRequest)
    BY <2>1, <2>2, RowReplaced DEF PrivacyRest
  <2>. QED BY <1>8, <2>3 DEF PassExportExpiry, PrivacyRest
<1>9. CASE ExpireExports
  <2>. DEFINE Row(x) == IF exports[x].status = "ready" /\ exports[x].late
                        THEN [exports[x] EXCEPT !.status = "expired"] ELSE exports[x]
  <2>1. ASSUME NEW x \in DOMAIN exports PROVE Row(x) \in DataExportRequest
    BY <1>a, ExportRows
  <2>2. exports' = [x \in DOMAIN exports |-> Row(x)]
    BY <1>9 DEF ExpireExports
  <2>. HIDE DEF Row
  <2>3. exports' \in Seq(DataExportRequest)
    BY <2>1, <2>2 DEF PrivacyRest
  <2>. QED BY <1>9, <2>3 DEF ExpireExports, PrivacyRest
<1>10. ASSUME NEW d \in DOMAIN deletions, PassConfirmWindow(d) PROVE PrivacyRest'
  BY <1>10 DEF PassConfirmWindow, PrivacyRest
<1>. QED BY <1>1, <1>2, <1>3, <1>4, <1>5, <1>6, <1>7, <1>8, <1>9, <1>10 DEF PrivacyNext

-----------------------------------------------------------------------------
MfaSafe == MfaTypes /\ MfaHasCodes /\ NoCodesWithoutDevice
PrivacySafe == PrivacyTypes /\ ClosedMeansConfirmed /\ AcceptanceIsOnRecord
OrgSafe == OrgTypes /\ AcceptedMeansMember

(* The tables of the components a behaviour does not serve.                *)
Standing ==
    /\ part # "tokens" => TokTypes /\ tokens = <<>>
    /\ part # "mfa" => MfaSafe
    /\ part # "oauth" => OAuthTypes
    /\ part # "privacy" => PrivacySafe
    /\ part # "orgs" => OrgSafe

AccountsInv ==
    /\ part \in Parts /\ spent \in 0 .. MaxRequests
    /\ part = "tokens" => TokInv
    /\ part = "mfa" => MfaInv /\ MfaRest
    /\ part = "oauth" => OAuthInv /\ OAuthRest
    /\ part = "privacy" => PrivacyInv /\ PrivacyRest
    /\ part = "orgs" => OrgInv
    /\ Standing

LEMMA InvariantsGiveTypes ==
    /\ TokInv => TokTypes
    /\ MfaInv /\ MfaRest => MfaSafe
    /\ OAuthInv /\ OAuthRest => OAuthTypes
    /\ PrivacyInv /\ PrivacyRest => PrivacySafe
    /\ OrgInv => OrgSafe
<1>1. TokInv => TokTypes
  BY DEF TokInv, AccountsOK, LinksOK, TokTypes
<1>2. MfaInv /\ MfaRest => MfaSafe
  BY DEF MfaInv, MfaRest, MfaTypes, MfaSafe
<1>3. OAuthInv /\ OAuthRest => OAuthTypes
  BY DEF OAuthInv, OAuthRest, OAuthTypes
<1>4. PrivacyInv /\ PrivacyRest => PrivacySafe
  BY DEF PrivacyInv, DeletionsOK, ConsentsOK, PrivacyRest, PrivacyTypes, PrivacySafe
<1>5. OrgInv => OrgSafe
  BY DEF OrgInv, MembersOK, PoliciesOK, KeysOK, OrgTypes, OrgSafe
<1>. QED BY <1>1, <1>2, <1>3, <1>4, <1>5

LEMMA InitAccountsInv == Init => AccountsInv
<1>. SUFFICES ASSUME Init PROVE AccountsInv
  OBVIOUS
<1>1. /\ part \in Parts /\ spent = 0
      /\ RequestsInit /\ TokInit /\ MfaInit /\ OAuthInit /\ PrivacyInit /\ OrgInit
  BY DEF Init, RequestsInit
<1>2. TokInv /\ MfaInv /\ OAuthInv /\ PrivacyInv /\ OrgInv
  BY <1>1, InitTokInv, InitMfaInv, InitOAuthInv, InitPrivacyInv, InitOrgInv
<1>3. MfaRest
  BY <1>1 DEF RequestsInit, Idle, MfaInit, MfaRest, MfaHeld
<1>4. OAuthRest /\ PrivacyRest
  BY <1>1 DEF OAuthInit, OAuthRest, PrivacyInit, PrivacyRest
<1>5. Standing
  BY <1>1, <1>2, <1>3, <1>4, InvariantsGiveTypes DEF Standing, TokInit
<1>6. spent \in 0 .. MaxRequests
  BY <1>1, RequestsAreBounded
<1>. QED BY <1>1, <1>2, <1>3, <1>4, <1>5, <1>6 DEF AccountsInv

LEMMA TablesStand ==
    /\ UNCHANGED tokenVars => (TokTypes /\ tokens = <<>> => TokTypes' /\ tokens' = <<>>)
    /\ UNCHANGED mfaVars => (MfaSafe => MfaSafe')
    /\ UNCHANGED oauthVars => (OAuthTypes => OAuthTypes')
    /\ UNCHANGED privacyVars => (PrivacySafe => PrivacySafe')
    /\ UNCHANGED orgVars => (OrgSafe => OrgSafe')
<1>1. UNCHANGED tokenVars => (TokTypes /\ tokens = <<>> => TokTypes' /\ tokens' = <<>>)
  BY DEF tokenVars, TokTypes
<1>2. UNCHANGED mfaVars => (MfaSafe => MfaSafe')
  BY DEF mfaVars, MfaSafe, MfaTypes, MfaHasCodes, NoCodesWithoutDevice, HasMfa
<1>3. UNCHANGED oauthVars => (OAuthTypes => OAuthTypes')
  BY DEF oauthVars, OAuthTypes
<1>4. UNCHANGED privacyVars => (PrivacySafe => PrivacySafe')
  BY DEF privacyVars, PrivacySafe, PrivacyTypes, ClosedMeansConfirmed, AcceptanceIsOnRecord
<1>5. UNCHANGED orgVars => (OrgSafe => OrgSafe')
  BY DEF orgVars, OrgSafe, OrgTypes, AcceptedMeansMember
<1>. QED BY <1>1, <1>2, <1>3, <1>4, <1>5

(* A step serves the part of the behaviour and leaves the others alone.    *)
LEMMA StepOfOnePart ==
    ASSUME AccountsInv, [Next]_mcVars
    PROVE  /\ part' = part
           /\ part = "tokens" => [TokNext]_<<requestVars, tokenVars>>
           /\ part = "mfa" => [MfaNext]_<<requestVars, mfaVars>>
           /\ part = "oauth" => [OAuthNext]_<<requestVars, oauthVars>>
           /\ part = "privacy" => [PrivacyNext]_<<requestVars, privacyVars>>
           /\ part = "orgs" => [OrgNext]_<<requestVars, orgVars>>
           /\ part # "tokens" => UNCHANGED tokenVars
           /\ part # "mfa" => UNCHANGED mfaVars
           /\ part # "oauth" => UNCHANGED oauthVars
           /\ part # "privacy" => UNCHANGED privacyVars
           /\ part # "orgs" => UNCHANGED orgVars
<1>1. CASE UNCHANGED mcVars
  BY <1>1 DEF mcVars
<1>2. CASE Next
  BY <1>2 DEF Next
<1>. QED BY <1>1, <1>2

LEMMA StepAccountsInv == AccountsInv /\ [Next]_mcVars => AccountsInv'
<1>. SUFFICES ASSUME AccountsInv, [Next]_mcVars PROVE AccountsInv'
  OBVIOUS
<1>1. part' = part
  BY StepOfOnePart
<1>2. Standing'
  BY <1>1, StepOfOnePart, TablesStand DEF AccountsInv, Standing
<1>3. /\ part = "tokens" => TokInv'
      /\ part = "mfa" => MfaInv'
      /\ part = "oauth" => OAuthInv'
      /\ part = "privacy" => PrivacyInv'
      /\ part = "orgs" => OrgInv'
  BY StepOfOnePart, StepTokInv, StepMfaInv, EveryStep, StepKeeps, StepPrivacyInv, StepOrgInv
     DEF AccountsInv
<1>4. part = "mfa" => MfaRest'
  <2>1. UNCHANGED <<requestVars, mfaVars>> => (MfaRest => MfaRest')
    BY DEF requestVars, mfaVars, MfaRest, MfaHeld
  <2>. QED BY <2>1, StepOfOnePart, MfaRestStep DEF AccountsInv
<1>5. part = "oauth" => OAuthRest'
  <2>1. UNCHANGED oauthVars => (OAuthRest => OAuthRest')
    BY DEF oauthVars, OAuthRest
  <2>. QED BY <2>1, StepOfOnePart, OAuthRestStep DEF AccountsInv
<1>6. part = "privacy" => PrivacyRest'
  <2>1. UNCHANGED privacyVars => (PrivacyRest => PrivacyRest')
    BY DEF privacyVars, PrivacyRest
  <2>. QED BY <2>1, StepOfOnePart, PrivacyRestStep DEF AccountsInv
<1>7. spent' \in 0 .. MaxRequests
  <2>1. UNCHANGED requestVars => Counted
    BY DEF requestVars, Counted
  <2>2. Counted
    BY <2>1, StepOfOnePart, TokCounted, MfaCounted, OAuthCounted, PrivacyCounted, OrgCounted
       DEF AccountsInv, Parts
  <2>. QED BY <2>2, RequestsAreBounded DEF AccountsInv, Counted, HasRoom
<1>. QED BY <1>1, <1>2, <1>3, <1>4, <1>5, <1>6, <1>7 DEF AccountsInv

(* The inductive invariant of the five components together.                *)
THEOREM AccountsInvariance == Spec => []AccountsInv
BY InitAccountsInv, StepAccountsInv, PTL DEF Spec

(* All account tables keep their types, and no behaviour serves more       *)
(* requests than its bound.                                                *)
THEOREM AccountTypes == Spec => []TypeOK
<1>1. AccountsInv => TypeOK
  BY InvariantsGiveTypes
     DEF AccountsInv, Standing, TypeOK, MfaSafe, PrivacySafe, OrgSafe
<1>. QED BY <1>1, AccountsInvariance, PTL

(* What the run of the five components checks of their states holds of the *)
(* same specification for any instance.                                    *)
THEOREM AccountsAreSafe ==
    Spec => [](/\ LiveLinksAreBounded /\ ResetsStopAtFirstUse
               /\ MfaHasCodes /\ NoCodesWithoutDevice
               /\ ClosedMeansConfirmed /\ AcceptanceIsOnRecord /\ AcceptedMeansMember)
<1>. DEFINE Safe == /\ LiveLinksAreBounded /\ ResetsStopAtFirstUse
                    /\ MfaHasCodes /\ NoCodesWithoutDevice
                    /\ ClosedMeansConfirmed /\ AcceptanceIsOnRecord /\ AcceptedMeansMember
<1>1. AccountsInv => Safe
  <2>. SUFFICES ASSUME AccountsInv PROVE Safe
    OBVIOUS
  <2>1. MfaSafe /\ PrivacySafe /\ OrgSafe
    BY InvariantsGiveTypes DEF AccountsInv, Standing
  <2>2. CASE part = "tokens"
    BY <2>1, <2>2 DEF AccountsInv, TokInv, MfaSafe, PrivacySafe, OrgSafe
  <2>3. CASE part # "tokens"
    <3>1. tokens = <<>>
      BY <2>3 DEF AccountsInv, Standing
    <3>2. \A u, p : Live(u, p) = {} /\ Issuing(u, p) \in SUBSET Workers
      BY <3>1 DEF Live, Issuing
    <3>3. LiveLinksAreBounded
      BY <3>2, PairOfWorkers DEF LiveLinksAreBounded
    <3>4. ResetsStopAtFirstUse
      BY <3>1 DEF ResetsStopAtFirstUse
    <3>. QED BY <2>1, <3>3, <3>4 DEF MfaSafe, PrivacySafe, OrgSafe
  <2>. QED BY <2>2, <2>3
<1>. QED BY <1>1, AccountsInvariance, PTL

(* And so do its action properties.                                        *)
THEOREM AccountStepsAreSafe == Spec => RevocationIsFinal /\ ScopesAreThoseGranted
<1>1. AccountsInv /\ [Next]_mcVars
      => [OAuthInv /\ OAuthStep]_oauthVars
  BY StepOfOnePart, EveryStep DEF AccountsInv
<1>2. [OAuthInv /\ OAuthStep]_oauthVars
      => [\A t \in DOMAIN oauthTokens :
            oauthTokens[t].revoked => oauthTokens'[t].revoked]_oauthTokens
  BY DEF OAuthStep, TokenStep, oauthVars
<1>3. [OAuthInv /\ OAuthStep]_oauthVars
      => [/\ \A t \in DOMAIN oauthTokens' \ DOMAIN oauthTokens :
                IF oauthTokens'[t].kind = "service"
                THEN oauthTokens'[t].scope
                       \subseteq credential[oauthTokens'[t].credential].scopes
                ELSE oauthTokens'[t].scope = authCodes[oauthTokens'[t].code].scope
          /\ \A k \in Credentials :
                credential[k] # NoCredential => credential'[k].scopes = credential[k].scopes
         ]_oauthVars
  BY DEF OAuthStep, TokenStep, CredentialStep, Granted
<1>. QED BY <1>1, <1>2, <1>3, AccountsInvariance, PTL
        DEF Spec, RevocationIsFinal, ScopesAreThoseGranted

-----------------------------------------------------------------------------
(* The spent credentials of the components together.  The requests of a    *)
(* part take up no credential of another part, and the tables of the parts *)
(* that are not served stand still: their credentials do as well.          *)
LEMMA TokSpares == ASSUME TokInv, TokNext PROVE Spares({"exchange", "login"})
<1>. DEFINE ops == {"exchange", "login"}
<1>0. RequestsOK
  BY DEF TokInv
<1>1. ASSUME NEW w \in Workers, StoreToken(w) \/ RetryMailTask(w) PROVE Spares(ops)
  <2>1. CASE StoreToken(w)
    <3>. DEFINE held == [request[w] EXCEPT !.token = Len(tokens) + 1]
    <3>1. held.op \notin ops /\ Proceed(w, held)
      BY <2>1 DEF StoreToken, Holds
    <3>. HIDE DEF held
    <3>. QED BY <1>0, <3>1, ProceedSpares
  <2>2. CASE RetryMailTask(w)
    <3>. DEFINE held == [request[w] EXCEPT !.token = 0, !.tries = @ + 1]
    <3>1. held.op \notin ops /\ Retry(w, held)
      BY <2>2 DEF RetryMailTask, Holds
    <3>. HIDE DEF held
    <3>. QED BY <1>0, <3>1, ProceedSpares
  <2>. QED BY <1>1, <2>1, <2>2
<1>2. ASSUME NEW w \in Workers, NEW u \in Users, NEW p \in Purposes, TakeMailTask(w, u, p)
      PROVE  Spares(ops)
  BY <1>0, <1>2 DEF TakeMailTask, TakeUp, RequestsOK, Spares
<1>3. ASSUME NEW w \in Workers, NEW t \in DOMAIN tokens, NEW op \in {"confirm", "reset"}, NEW p,
             ReadToken(w, t, op, p)
      PROVE  Spares(ops)
  BY <1>0, <1>3 DEF ReadToken, Begin, RequestsOK, Spares
<1>4. ASSUME NEW w \in Workers,
             SendLink(w) \/ ConfirmEmail(w) \/ ResetPassword(w) \/ Abandon(w)
      PROVE  Spares(ops)
  BY <1>0, <1>4, EndSpares DEF SendLink, ConfirmEmail, ResetPassword, Abandon
<1>5. ASSUME \/ \E u \in Users :
                    Register(u) \/ ResendVerification(u) \/ RequestReset(u) \/ SetActive(u)
             \/ \E t \in DOMAIN tokens : Expire(t)
      PROVE  Spares(ops)
  BY <1>0, <1>5, ServeSpares DEF Register, ResendVerification, RequestReset, SetActive, Expire
<1>. HIDE DEF ops
<1>6. Spares(ops)
  BY <1>1, <1>2, <1>3, <1>4, <1>5 DEF TokNext
<1>. QED BY <1>6 DEF ops

LEMMA OAuthSpares == ASSUME OAuthInv, OAuthNext PROVE Spares({"reset", "login"})
<1>. DEFINE ops == {"reset", "login"}
<1>0. RequestsOK
  BY DEF OAuthInv, RequestsOK
<1>1. ASSUME NEW w \in Workers,
             \/ \E i \in DOMAIN authCodes : ExchangeCheck(w, i)
             \/ \E t \in DOMAIN oauthTokens : IntrospectRead(w, t)
      PROVE  Spares(ops)
  BY <1>0, <1>1 DEF ExchangeCheck, IntrospectRead, Begin, RequestsOK, Spares
<1>2. ASSUME NEW w \in Workers, NEW k \in Credentials, NEW asked \in SUBSET ServiceScopes,
             ServiceCheck(w, k, asked)
      PROVE  Spares(ops)
  <2>. DEFINE held == [op |-> "service", credential |-> k,
                       scope |-> IF asked = {} THEN credential[k].scopes ELSE asked]
  <2>1. held.op \notin ops /\ Begin(w, held)
    BY <1>2 DEF ServiceCheck
  <2>. HIDE DEF held
  <2>. QED BY <1>0, <2>1, ProceedSpares
<1>3. ASSUME NEW w \in Workers,
             Exchange(w) \/ IssueServiceToken(w) \/ IntrospectSave(w) \/ Abandon(w)
      PROVE  Spares(ops)
  BY <1>0, <1>3, EndSpares DEF Exchange, IssueServiceToken, IntrospectSave, Abandon
<1>4. ASSUME \/ \E c \in Clients :
                    \/ SwitchClient(c)
                    \/ \E u \in Users, scope \in SUBSET AllowedScopes[c] : Authorize(u, c, scope)
             \/ \E k \in Credentials :
                    \/ RotateCredential(k) \/ DeactivateCredential(k)
                    \/ \E scopes \in SUBSET ServiceScopes : CreateCredential(k, scopes)
             \/ \E t \in DOMAIN oauthTokens : Revoke(t) \/ RotateToken(t)
             \/ OAuthExpire
      PROVE  Spares(ops)
  <2>1. Serve
    BY <1>4 DEF SwitchClient, Authorize, RotateCredential, DeactivateCredential,
       CreateCredential, Revoke, RotateToken, OAuthExpire
  <2>. QED BY <1>0, <2>1, ServeSpares
<1>. HIDE DEF ops
<1>5. Spares(ops)
  BY <1>1, <1>2, <1>3, <1>4 DEF OAuthNext
<1>. QED BY <1>5 DEF ops

LEMMA MfaSpares == ASSUME MfaInv, MfaRest, MfaNext PROVE Spares({"reset", "exchange"})
<1>. DEFINE ops == {"reset", "exchange"}
<1>0. RequestsOK
  BY DEF MfaInv, RequestsOK
<1>1. ASSUME NEW w \in Workers, NEW u \in Users, ConfirmCheck(w, u) \/ RegenerateCheck(w, u)
      PROVE  Spares(ops)
  BY <1>0, <1>1 DEF ConfirmCheck, RegenerateCheck, Begin, RequestsOK, Spares
<1>2. ASSUME NEW w \in Workers, NEW u \in Users, NEW op \in {"disable", "login"},
             NEW kind \in Kinds, CheckFactor(w, u, op, kind)
      PROVE  Spares(ops)
  BY <1>0, <1>2 DEF CheckFactor, Begin, RequestsOK, Spares
<1>3. ASSUME NEW w \in Workers, SpendCode(w) PROVE Spares(ops)
  <2>. DEFINE held == [request[w] EXCEPT !.passed = TRUE]
  <2>1. held.op \notin ops /\ Proceed(w, held)
    BY <1>3 DEF SpendCode
  <2>. HIDE DEF held
  <2>. QED BY <1>0, <2>1, ProceedSpares
<1>4. ASSUME NEW w \in Workers, RegenerateDelete(w) \/ OpenLogin(w) PROVE Spares(ops)
  BY <1>0, <1>4 DEF RegenerateDelete, OpenLogin, Proceed, RequestsOK, Spares
<1>5. ASSUME NEW w \in Workers,
             ConfirmSave(w) \/ DisableSave(w) \/ RegenerateSave(w) \/ RecordLogin(w) \/ Abandon(w)
      PROVE  Spares(ops)
  BY <1>0, <1>5, EndSpares DEF ConfirmSave, DisableSave, RegenerateSave, RecordLogin, Abandon
<1>6. ASSUME \/ \E u \in Users : StartSetup(u) \/ RevokeFamilies(u)
             \/ \E l \in DOMAIN logins : Logout(l) \/ RotateRefresh(l) \/ RevokeRow(l)
      PROVE  Spares(ops)
  <2>1. Serve
    BY <1>6 DEF StartSetup, RevokeFamilies, Logout, RotateRefresh, RevokeRow
  <2>. QED BY <1>0, <2>1, ServeSpares
<1>. HIDE DEF ops
<1>7. "session" \in Kinds
  BY DEF Kinds
<1>8. Spares(ops)
  BY <1>1, <1>2, <1>3, <1>4, <1>5, <1>6, <1>7 DEF MfaNext
<1>. QED BY <1>8 DEF ops

LEMMA PrivacySpares ==
    ASSUME PrivacyInv, PrivacyNext PROVE Spares({"reset", "exchange", "login"})
<1>. DEFINE ops == {"reset", "exchange", "login"}
<1>0. RequestsOK
  BY DEF PrivacyInv
<1>1. ASSUME NEW w \in Workers, NEW u \in Users, NEW type \in ConsentTypes,
             NEW granted \in BOOLEAN, RecordConsent(w, u, type, granted)
      PROVE  Spares(ops)
  BY <1>0, <1>1 DEF RecordConsent, Begin, RequestsOK, Spares
<1>2. ASSUME NEW w \in Workers, NEW d \in DOMAIN deletions, NEW op \in {"confirm", "cancel"},
             ReadDeletion(w, d, op)
      PROVE  Spares(ops)
  BY <1>0, <1>2 DEF ReadDeletion, Begin, RequestsOK, Spares
<1>3. ASSUME NEW w \in Workers,
             FinishConsent(w) \/ ConfirmDeletion(w) \/ CancelDeletion(w) \/ Abandon(w)
      PROVE  Spares(ops)
  BY <1>0, <1>3, EndSpares DEF FinishConsent, ConfirmDeletion, CancelDeletion, Abandon
<1>4. ASSUME \/ \E u \in Users : RequestExport(u) \/ RequestDeletion(u)
             \/ \E x \in DOMAIN exports : MarkExportReady(x) \/ PassExportExpiry(x)
             \/ ExpireExports
             \/ \E d \in DOMAIN deletions : PassConfirmWindow(d)
      PROVE  Spares(ops)
  <2>1. UNCHANGED request
    BY <1>4 DEF RequestExport, RequestDeletion, MarkExportReady, PassExportExpiry, ExpireExports,
       PassConfirmWindow, Serve, requestVars
  <2>. QED BY <1>0, <2>1, StillSpares
<1>. HIDE DEF ops
<1>5. Spares(ops)
  BY <1>1, <1>2, <1>3, <1>4 DEF PrivacyNext
<1>. QED BY <1>5 DEF ops

LEMMA OrgSpares == ASSUME OrgInv, OrgNext PROVE Spares({"reset", "exchange", "login"})
<1>. DEFINE ops == {"reset", "exchange", "login"}
<1>0. RequestsOK
  BY DEF OrgInv
<1>1. ASSUME NEW w \in Workers,
             \/ AcceptFirst(w)
             \/ \E i \in DOMAIN invitations : AcceptRead(w, i)
             \/ \E o \in Orgs, u \in Users :
                  CreateOrg(w, o, u) \/ \E c \in PolicyCodes : PatchPolicyRead(w, o, u, c)
      PROVE  Spares(ops)
  BY <1>0, <1>1 DEF AcceptFirst, AcceptRead, CreateOrg, PatchPolicyRead, Begin, Proceed,
     RequestsOK, Spares
<1>2. ASSUME NEW w \in Workers, NEW o \in Orgs, NEW u \in Users, NEW target \in Users,
             NEW row, UpdateRead(w, o, u, target, row)
      PROVE  Spares(ops)
  BY <1>0, <1>2 DEF UpdateRead, Begin, RequestsOK, Spares
<1>3. ASSUME NEW w \in Workers,
             AddFounder(w) \/ UpdateSave(w) \/ PatchPolicySave(w) \/ AcceptSecond(w) \/ Abandon(w)
      PROVE  Spares(ops)
  BY <1>0, <1>3, EndSpares DEF AddFounder, UpdateSave, PatchPolicySave, AcceptSecond, Abandon
<1>4. ASSUME NEW o \in Orgs, NEW u \in Users,
             \/ \E invitee \in Users, role \in InvitedRoles : Invite(o, u, invitee, role)
             \/ \E c \in PolicyCodes : CreatePolicy(o, u, c) \/ DisablePolicy(o, u, c)
             \/ \E c \in PolicyCodes, r \in InvitedRoles, effect \in RolePermissionGrant :
                  UpsertGrant(o, u, r, c, effect)
             \/ \E x \in DOMAIN ScopePermissions : CreateTenantKey(o, u, {x})
      PROVE  Spares(ops)
  BY <1>0, <1>4, ServeSpares
     DEF Invite, CreatePolicy, DisablePolicy, UpsertGrant, CreateTenantKey
<1>5. ASSUME NEW k \in DOMAIN tenantKeys, NEW u \in Users,
             RotateTenantKey(k, u) \/ DeactivateTenantKey(k, u)
      PROVE  Spares(ops)
  BY <1>0, <1>5, ServeSpares DEF RotateTenantKey, DeactivateTenantKey
<1>6. ASSUME NEW i \in DOMAIN invitations, PassInvitation(i) PROVE Spares(ops)
  BY <1>0, <1>6, StillSpares DEF PassInvitation, requestVars
<1>. HIDE DEF ops
<1>7. Spares(ops)
  BY <1>1, <1>2, <1>3, <1>4, <1>5, <1>6 DEF OrgNext
<1>. QED BY <1>7 DEF ops

(* No worker holds a credential of a part that is not served.              *)
Apart ==
    \A w \in Workers :
        /\ part # "tokens" => request[w].op # "reset"
        /\ part # "oauth" => request[w].op # "exchange"
        /\ part # "mfa" => request[w].op # "login"

CredentialsInv ==
    /\ AccountsInv /\ Apart
    /\ part = "tokens" => LinksKnown
    /\ part = "mfa" => RecoveryOK

LEMMA ApartStays == ASSUME AccountsInv, Apart, [Next]_mcVars PROVE Apart'
<1>0. part' = part /\ part \in Parts
  BY StepOfOnePart DEF AccountsInv
<1>1. UNCHANGED requestVars => Apart'
  BY <1>0 DEF requestVars, Apart
<1>2. CASE part = "tokens"
  BY <1>0, <1>1, <1>2, StepOfOnePart, TokSpares DEF AccountsInv, Apart, Spares
<1>3. CASE part = "oauth"
  BY <1>0, <1>1, <1>3, StepOfOnePart, OAuthSpares DEF AccountsInv, Apart, Spares
<1>4. CASE part = "mfa"
  BY <1>0, <1>1, <1>4, StepOfOnePart, MfaSpares DEF AccountsInv, Apart, Spares
<1>5. CASE part = "privacy"
  BY <1>0, <1>1, <1>5, StepOfOnePart, PrivacySpares DEF AccountsInv, Apart, Spares
<1>6. CASE part = "orgs"
  BY <1>0, <1>1, <1>6, StepOfOnePart, OrgSpares DEF AccountsInv, Apart, Spares
<1>. QED BY <1>0, <1>2, <1>3, <1>4, <1>5, <1>6 DEF Parts

(* Each step is a step of the three abstract credentials, or leaves them.  *)
LEMMA CredentialSteps ==
    ASSUME CredentialsInv, [Next]_mcVars
    PROVE  LinkStep /\ ExchangeStep /\ RecoveryStep /\ CredentialsInv'
<1>1. AccountsInv /\ AccountsInv' /\ Apart /\ Apart' /\ part' = part
  BY StepAccountsInv, ApartStays, StepOfOnePart DEF CredentialsInv
<1>2. LinkStep /\ (part = "tokens" => LinksKnown')
  <2>1. CASE part = "tokens"
    BY <1>1, <2>1, StepOfOnePart, LinkSteps, LinksStayKnown DEF CredentialsInv, AccountsInv
  <2>2. CASE part # "tokens"
    <3>1. UNCHANGED tokenVars
      BY <1>1, <2>2, StepOfOnePart
    <3>2. UNCHANGED LinksHeld
      BY <1>1, <2>2, LinksStayHeld DEF Apart
    <3>3. UNCHANGED <<UsableLinks, ResetLinks \ UsableLinks, ResetsSaved>>
      BY <3>1 DEF tokenVars, UsableLinks, ResetLinks, ResetsSaved
    <3>. QED BY <2>2, <3>2, <3>3 DEF LinkStep
  <2>. QED BY <2>1, <2>2
<1>3. ExchangeStep
  <2>1. CASE part = "oauth"
    BY <1>1, <2>1, StepOfOnePart, ExchangeSteps DEF AccountsInv
  <2>2. CASE part # "oauth"
    <3>1. UNCHANGED oauthVars
      BY <1>1, <2>2, StepOfOnePart
    <3>2. UNCHANGED CodesHeld
      BY <1>1, <2>2, CodesStayHeld DEF Apart
    <3>3. UNCHANGED <<UsableCodes, DOMAIN authCodes \ UsableCodes, Exchanges>>
      BY <3>1 DEF oauthVars, UsableCodes, Exchanges
    <3>. QED BY <3>2, <3>3 DEF ExchangeStep
  <2>. QED BY <2>1, <2>2
<1>4. RecoveryStep /\ (part = "mfa" => RecoveryOK')
  <2>1. CASE part = "mfa"
    BY <1>1, <2>1, StepOfOnePart, RecoverySteps
       DEF CredentialsInv, AccountsInv, MfaAll, RecoveryDone
  <2>2. CASE part # "mfa"
    <3>1. UNCHANGED mfaVars
      BY <1>1, <2>2, StepOfOnePart
    <3>2. UNCHANGED RecoveryCodesHeld
      BY <1>1, <2>2, RecoveryStaysHeld DEF Apart, RecoveryIn
    <3>3. UNCHANGED <<UsableRecoveryCodes, (1 .. issued) \ UsableRecoveryCodes, RecoveryLogins>>
      BY <3>1 DEF mfaVars, UsableRecoveryCodes, RecoveryLogins
    <3>. QED BY <2>2, <3>2, <3>3 DEF RecoveryStep
  <2>. QED BY <2>1, <2>2
<1>. QED BY <1>1, <1>2, <1>3, <1>4 DEF CredentialsInv

(* What the run of the five components checks: reset links, authorization  *)
(* codes and recovery codes implement SpentCredential.                     *)
THEOREM CredentialsAreSpent == Spec => CredentialsStaySpent
<1>1. Init => CredentialsInv
  BY InitAccountsInv
     DEF Init, CredentialsInv, RequestsInit, Idle, Apart, LinksKnown, LinksHeld, Holds,
         MfaInit, RecoveryOK, RecoveryHeld
<1>2. Init => Links!Init
  BY DEF Init, RequestsInit, TokInit, Idle, Links!Init, UsableLinks, ResetLinks, LinksHeld, Holds,
         ResetsSaved
<1>3. Init => Authorizations!Init
  BY DEF Init, RequestsInit, OAuthInit, Idle, Authorizations!Init, UsableCodes, CodesHeld, Holds,
         Exchanges
<1>4. Init => Recovery!Init
  BY DEF Init, RequestsInit, MfaInit, Idle, Recovery!Init, UsableRecoveryCodes, RecoveryCodesHeld,
         Holds, RecoveryLogins
<1>5. CredentialsInv /\ [Next]_mcVars
      => LinkStep /\ ExchangeStep /\ RecoveryStep /\ CredentialsInv'
  BY CredentialSteps
<1>. QED BY <1>1, <1>2, <1>3, <1>4, <1>5, PTL
        DEF Spec, CredentialsStaySpent, ResetLinksStaySpent, AuthorizationCodesStaySpent,
            RecoveryCodesStaySpent, Links!Spec, Links!credentialVars, LinkStep,
            Authorizations!Spec, Authorizations!credentialVars, ExchangeStep,
            Recovery!Spec, Recovery!credentialVars, RecoveryStep
=============================================================================
