----------------------------- MODULE AccountMfa -----------------------------
(***************************************************************************)
(* The authenticator device of a user, the recovery codes, and the logins  *)
(* that ask for them.  Every handler reads in validate() and writes in     *)
(* save(): the device it writes may have been replaced in between.  A      *)
(* batch of recovery codes is one code here.                               *)
(***************************************************************************)
EXTENDS Requests, Sequences, FiniteSets

VARIABLES
    device,         \* per user: NoDevice, or key, secret and confirmed
    codes,          \* per user: the recovery codes stored
    usedCodes,      \* the codes with used_at
    issued,         \* the secrets, keys and codes generated so far
    logins          \* sessions and refresh tokens, in the order they were opened

mfaVars == <<device, codes, usedCodes, issued, logins>>

NoDevice == [key |-> 0, secret |-> 0, confirmed |-> FALSE]
Kinds == {"session", "token"}
Rows == {"none", "active", "revoked"}
MfaDevice == [key: Nat, secret: Nat, confirmed: BOOLEAN]
RecoveryCode == Nat \ {0}                \* by the number of its generation
Login == [user: Users, kind: Kinds, live: BOOLEAN,
          row: Rows,                     \* of AuthSessionDevice or RefreshTokenFamily
          code: Nat]

MfaTypes ==
    /\ device \in [Users -> MfaDevice]
    /\ codes \in [Users -> SUBSET RecoveryCode]
    /\ usedCodes \subseteq RecoveryCode
    /\ issued \in Nat
    /\ logins \in Seq(Login)

MfaInit ==
    /\ device = [u \in Users |-> NoDevice]
    /\ codes = [u \in Users |-> {}]
    /\ usedCodes = {}
    /\ issued = 0
    /\ logins = <<>>

HasMfa(u) == device[u] # NoDevice /\ device[u].confirmed
Fresh == issued + 1

-----------------------------------------------------------------------------
(* update_or_create: an existing row keeps its key, gets a new secret and  *)
(* is unconfirmed again.                                                   *)
StartSetup(u) ==
    /\ Serve
    /\ issued' = Fresh
    /\ device' = [device EXCEPT ![u] =
          [key |-> IF @ = NoDevice THEN Fresh ELSE @.key,
           secret |-> Fresh, confirmed |-> FALSE]]
    /\ UNCHANGED <<codes, usedCodes, logins>>

ConfirmCheck(w, u) ==
    /\ device[u] # NoDevice
    /\ Begin(w, [op |-> "confirm", user |-> u, key |-> device[u].key])
    /\ UNCHANGED mfaVars

(* save(update_fields) of a deleted row raises, and the transaction rolls  *)
(* back.                                                                   *)
SaveAnyway(w) == TRUE       \* slip: a queryset update, which matches no row in silence
DeviceIsThere(w) == device[request[w].user].key = request[w].key

ConfirmDevice(d) == IF d = NoDevice THEN d ELSE [d EXCEPT !.confirmed = TRUE]

NoCodes(u) == [codes EXCEPT ![u] = {}]   \* slip: the codes are left to a later commit
NewCodes(u) == [codes EXCEPT ![u] = {Fresh}]

ConfirmSave(w) ==
    /\ Holds(w, "confirm")
    /\ DeviceIsThere(w)
    /\ issued' = Fresh
    /\ device' = [device EXCEPT ![request[w].user] = ConfirmDevice(@)]
    /\ codes' = NewCodes(request[w].user)
    /\ End(w)
    /\ UNCHANGED <<usedCodes, logins>>

-----------------------------------------------------------------------------
(* validate_mfa: no confirmed device asks for nothing, a code of the       *)
(* authenticator passes, and a recovery code is read here and marked used  *)
(* by the next statement.                                                  *)
Factors(u) ==
    IF ~ HasMfa(u) THEN {0}
    ELSE {0} \cup (codes[u] \ usedCodes)     \* 0: nothing, or a TOTP code

CheckFactor(w, u, op, kind) ==
    /\ \E f \in Factors(u) :
        Begin(w, [op |-> op, user |-> u, kind |-> kind, code |-> f,
                  key |-> device[u].key, passed |-> f = 0])
    /\ UNCHANGED mfaVars

MarkUsed(w) == usedCodes \cup {request[w].code}

(* code.mark_used, then device.mark_used: rows that are gone raise.        *)
SpendCode(w) ==
    /\ request[w].op \in {"login", "disable"} /\ ~ request[w].passed
    /\ request[w].code \in codes[request[w].user]
    /\ DeviceIsThere(w)
    /\ usedCodes' = MarkUsed(w)
    /\ Proceed(w, [request[w] EXCEPT !.passed = TRUE])
    /\ UNCHANGED <<device, codes, issued, logins>>

Passed(w, op) == Holds(w, op) /\ request[w].passed

DisableSave(w) ==
    /\ Passed(w, "disable")
    /\ device' = [device EXCEPT ![request[w].user] = NoDevice]
    /\ codes' = [codes EXCEPT ![request[w].user] = {}]
    /\ End(w)
    /\ UNCHANGED <<usedCodes, issued, logins>>

(* Regeneration: the delete sees the codes committed when it runs, and the *)
(* device is locked last.  A deadlock with a transaction that locks the    *)
(* device first rolls it back, as Abandon does.                            *)
RegenerateCheck(w, u) ==
    /\ HasMfa(u)
    /\ Begin(w, [op |-> "regenerate", user |-> u, key |-> device[u].key])
    /\ UNCHANGED mfaVars

RegenerateDelete(w) ==
    /\ Holds(w, "regenerate")
    /\ Proceed(w, [op |-> "regenerated", user |-> request[w].user,
                   key |-> request[w].key, seen |-> codes[request[w].user]])
    /\ UNCHANGED mfaVars

RegenerateSave(w) ==
    /\ Holds(w, "regenerated")
    /\ DeviceIsThere(w)
    /\ issued' = Fresh
    /\ codes' = [codes EXCEPT ![request[w].user] = (@ \ request[w].seen) \cup {Fresh}]
    /\ End(w)
    /\ UNCHANGED <<device, usedCodes, logins>>

-----------------------------------------------------------------------------
(* login() or RefreshToken.for_user(), then the inventory row by a commit  *)
(* of its own.                                                             *)
OpenLogin(w) ==
    /\ Passed(w, "login")
    /\ logins' = Append(logins, [user |-> request[w].user, kind |-> request[w].kind,
                                 live |-> TRUE, row |-> "none", code |-> request[w].code])
    /\ Proceed(w, [op |-> "opened", login |-> Len(logins) + 1])
    /\ UNCHANGED <<device, codes, usedCodes, issued>>

RecordLogin(w) ==
    /\ Holds(w, "opened")
    /\ logins' = [logins EXCEPT ![request[w].login].row = "active"]
    /\ End(w)
    /\ UNCHANGED <<device, codes, usedCodes, issued>>

Logout(l) ==
    /\ logins[l].live /\ Serve
    /\ logins' = [logins EXCEPT ![l].live = FALSE]
    /\ UNCHANGED <<device, codes, usedCodes, issued>>

(* Rotation blacklists the token and issues another, which no family lists.*)
RotateRefresh(l) ==
    /\ logins[l].live /\ logins[l].kind = "token" /\ Serve
    /\ logins' = Append([logins EXCEPT ![l].live = FALSE],
                        [logins[l] EXCEPT !.row = "none", !.code = 0])
    /\ UNCHANGED <<device, codes, usedCodes, issued>>

RevokeRow(l) ==
    /\ logins[l].kind = "session" /\ logins[l].row = "active" /\ Serve
    /\ logins' = [logins EXCEPT ![l].row = "revoked"]
    /\ UNCHANGED <<device, codes, usedCodes, issued>>

RevokeFamilies(u) ==
    /\ \E l \in DOMAIN logins : logins[l].user = u
    /\ Serve
    /\ logins' = [l \in DOMAIN logins |->
          IF logins[l].user = u /\ logins[l].kind = "token" /\ logins[l].row = "active"
          THEN [logins[l] EXCEPT !.row = "revoked"] ELSE logins[l]]
    /\ UNCHANGED <<device, codes, usedCodes, issued>>

MfaNext ==
    \/ \E u \in Users : StartSetup(u) \/ RevokeFamilies(u)
    \/ \E w \in Workers, u \in Users :
        \/ ConfirmCheck(w, u) \/ RegenerateCheck(w, u)
        \/ CheckFactor(w, u, "disable", "session")
        \/ \E kind \in Kinds : CheckFactor(w, u, "login", kind)
    \/ \E w \in Workers :
        \/ ConfirmSave(w) \/ SpendCode(w) \/ DisableSave(w)
        \/ RegenerateDelete(w) \/ RegenerateSave(w) \/ OpenLogin(w) \/ RecordLogin(w)
        \/ Abandon(w) /\ UNCHANGED mfaVars
    \/ \E l \in DOMAIN logins : Logout(l) \/ RotateRefresh(l) \/ RevokeRow(l)

MfaSpec == RequestsInit /\ MfaInit /\ [][MfaNext]_<<requestVars, mfaVars>>

-----------------------------------------------------------------------------
(* MFA is never on without recovery codes, whichever requests overlap: the *)
(* confirmation stores both in one transaction, and no other handler takes *)
(* the codes away and leaves the device.                                   *)
MfaHasCodes == \A u \in Users : HasMfa(u) => codes[u] # {}

(* Disabling MFA leaves no recovery code behind, even when a confirmation  *)
(* or a regeneration that read the device is still to be saved.            *)
NoCodesWithoutDevice == \A u \in Users : device[u] = NoDevice => codes[u] = {}

(* The recovery codes as credentials of the logins: what is numbered and   *)
(* no usable code has ended, used or deleted with its batch.               *)
UsableRecoveryCodes == (UNION {codes[u] : u \in Users}) \ usedCodes
RecoveryCodesHeld ==
    [w \in Workers |-> IF Holds(w, "login") THEN {request[w].code} \ {0} ELSE {}]
RecoveryLogins == {<<l, logins[l].code>> : l \in {x \in DOMAIN logins : logins[x].code # 0}}

Recovery == INSTANCE SpentCredential WITH Readers <- Workers,
    usable <- UsableRecoveryCodes, ended <- (1 .. issued) \ UsableRecoveryCodes,
    held <- RecoveryCodesHeld, receipts <- RecoveryLogins

(* A login that gave a recovery code found it usable, and by the time the  *)
(* login opens the code is unusable for good.                              *)
RecoveryCodesStaySpent == Recovery!Spec
=============================================================================
