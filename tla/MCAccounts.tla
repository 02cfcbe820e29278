----------------------------- MODULE MCAccounts -----------------------------
(***************************************************************************)
(* The account components for TLC.  They share the workers and touch no    *)
(* table of each other, so a behaviour runs the requests of one of them    *)
(* and the state spaces add up instead of multiplying.                     *)
(***************************************************************************)
EXTENDS AccountTokens, AccountMfa, AccountOAuth, AccountPrivacy, AccountOrgs, TLC

VARIABLE part               \* the component whose requests the behaviour serves

mcVars == <<part, requestVars, tokenVars, mfaVars, oauthVars, privacyVars, orgVars>>

Symmetry == Permutations(Workers) \cup Permutations(Users)

Parts == {"tokens", "mfa", "oauth", "privacy", "orgs"}

S == INSTANCE SequencesExt

(* The loop of get_role_permissions over the effective grants in one order. *)
Granting(base, order) ==
    S!FoldLeft(LAMBDA got, g : IF g.effect = "allow" THEN got \cup {g.code}
                              ELSE got \ {g.code}, base, order)

(* Permitted is what that loop computes, whatever order the rows come in.  *)
ASSUME GrantsInAnyOrder ==
    LET C == {"a", "b", "c"}
    IN  \A base, allowed \in SUBSET C : \A denied \in SUBSET (C \ allowed) :
            \A order \in S!SetToSeqs({[code |-> c, effect |-> "allow"] : c \in allowed}
                                   \cup {[code |-> c, effect |-> "deny"] : c \in denied}) :
                Granting(base, order) = Permitted(base, allowed, denied)

AccountScopes == [c \in Clients |-> {"openid", "email"}]

Init ==
    /\ part \in Parts
    /\ RequestsInit /\ TokInit /\ MfaInit /\ OAuthInit /\ PrivacyInit /\ OrgInit

Next ==
    /\ part' = part
    /\ \/ /\ part = "tokens" /\ TokNext
          /\ UNCHANGED <<mfaVars, oauthVars, privacyVars, orgVars>>
       \/ /\ part = "mfa" /\ MfaNext
          /\ UNCHANGED <<tokenVars, oauthVars, privacyVars, orgVars>>
       \/ /\ part = "oauth" /\ OAuthNext
          /\ UNCHANGED <<tokenVars, mfaVars, privacyVars, orgVars>>
       \/ /\ part = "privacy" /\ PrivacyNext
          /\ UNCHANGED <<tokenVars, mfaVars, oauthVars, orgVars>>
       \/ /\ part = "orgs" /\ OrgNext
          /\ UNCHANGED <<tokenVars, mfaVars, oauthVars, privacyVars>>

(* Rows stay what their tables may hold, whatever the handlers save: only  *)
(* terms and privacy have an acceptance date, every invitation, grant and  *)
(* token names what exists, statuses are those of the models.              *)
TypeOK ==
    /\ spent \in 0 .. MaxRequests
    /\ TokTypes /\ MfaTypes /\ OAuthTypes /\ PrivacyTypes /\ OrgTypes

Spec == Init /\ [][Next]_mcVars

(* Behaviours: a reset link, an authorization code or a recovery code that *)
(* let somebody in lets in nobody who presents it afterwards, and whoever  *)
(* was let in had found it usable, although the handlers check in one      *)
(* commit and spend in another, with expiry, withdrawal and regeneration   *)
(* between the two.  Requests that overlap may share one (codes run).      *)
CredentialsStaySpent ==
    ResetLinksStaySpent /\ AuthorizationCodesStaySpent /\ RecoveryCodesStaySpent

(* docs/SECURITY.md:80: "Authorization codes are short-lived, single-use,  *)
(* and stored only as SHA-256 hashes": no code has two ID tokens.  The     *)
(* code does not keep it: codes run.                                       *)
CodesAreSingleUse == \A i \in DOMAIN authCodes : ExchangesOf(i) <= 1
=============================================================================
