--------------------------- MODULE AccountTokens ---------------------------
(***************************************************************************)
(* Registration, e-mail verification and password reset.  A link is issued *)
(* by a background task in three commits - the earlier links are marked    *)
(* used, the new token is stored, the mail is sent - and redeemed by a     *)
(* request that reads the token before the transaction that uses it.       *)
(***************************************************************************)
EXTENDS Requests, Sequences

CONSTANT MaxRetries         \* max_retries of the mail tasks

VARIABLES
    account,        \* per user: registered, active, verified, password (a generation)
    mailTasks,      \* per user and purpose: the tasks in the broker
    tokens,         \* the AccountToken rows, in the order of their creation
    mailed,         \* the tokens whose link was sent
    redeemed        \* history: the tokens of the resets that were saved

tokenVars == <<account, mailTasks, tokens, mailed, redeemed>>

Purposes == {"email_verification", "password_reset"}

Account == [registered: BOOLEAN, active: BOOLEAN, verified: BOOLEAN, password: Nat]
Token == [user: Users, purpose: Purposes, used: BOOLEAN, expired: BOOLEAN]

TokTypes ==
    /\ account \in [Users -> Account]
    /\ mailTasks \in [Users -> [Purposes -> Nat]]
    /\ tokens \in Seq(Token)
    /\ mailed \subseteq DOMAIN tokens
    /\ redeemed \in Seq(DOMAIN tokens)

TokInit ==
    /\ account = [u \in Users |-> [registered |-> FALSE, active |-> FALSE,
                                   verified |-> FALSE, password |-> 0]]
    /\ mailTasks = [u \in Users |-> [p \in Purposes |-> 0]]
    /\ tokens = <<>>
    /\ mailed = {}
    /\ redeemed = <<>>

Enqueue(u, p) == mailTasks' = [mailTasks EXCEPT ![u][p] = @ + 1]

-----------------------------------------------------------------------------
(* The user is created in a transaction whose on_commit queues the mail.   *)
Register(u) ==
    /\ ~ account[u].registered
    /\ Serve
    /\ account' = [account EXCEPT ![u].registered = TRUE, ![u].active = TRUE]
    /\ Enqueue(u, "email_verification")
    /\ UNCHANGED <<tokens, mailed, redeemed>>

ResendVerification(u) ==
    /\ account[u].active /\ ~ account[u].verified
    /\ Serve
    /\ Enqueue(u, "email_verification")
    /\ UNCHANGED <<account, tokens, mailed, redeemed>>

RequestReset(u) ==
    /\ account[u].active
    /\ Serve
    /\ Enqueue(u, "password_reset")
    /\ UNCHANGED <<account, tokens, mailed, redeemed>>

(* An account is closed by its deletion request and opened by its          *)
(* cancellation (AccountPrivacy says when).                                *)
SetActive(u) ==
    /\ account[u].registered
    /\ Serve
    /\ account' = [account EXCEPT ![u].active = ~ @]
    /\ UNCHANGED <<mailTasks, tokens, mailed, redeemed>>

-----------------------------------------------------------------------------
(* issue_account_token: the update of the earlier rows, then the create.   *)
SupersedeNothing(u, p) == tokens     \* slip: earlier links stay valid
Supersede(u, p) ==
    [t \in DOMAIN tokens |->
        IF tokens[t].user = u /\ tokens[t].purpose = p
        THEN [tokens[t] EXCEPT !.used = TRUE] ELSE tokens[t]]

TakeMailTask(w, u, p) ==
    /\ mailTasks[u][p] > 0
    /\ TakeUp(w, [op |-> "issue", user |-> u, purpose |-> p, token |-> 0, tries |-> 0])
    /\ mailTasks' = [mailTasks EXCEPT ![u][p] = @ - 1]
    /\ tokens' = Supersede(u, p)
    /\ UNCHANGED <<account, mailed, redeemed>>

StoreToken(w) ==
    /\ Holds(w, "issue") /\ request[w].token = 0
    /\ tokens' = Append(tokens, [user |-> request[w].user, purpose |-> request[w].purpose,
                                 used |-> FALSE, expired |-> FALSE])
    /\ Proceed(w, [request[w] EXCEPT !.token = Len(tokens) + 1])
    /\ UNCHANGED <<account, mailTasks, mailed, redeemed>>

SendLink(w) ==
    /\ Holds(w, "issue") /\ request[w].token # 0
    /\ mailed' = mailed \cup {request[w].token}
    /\ End(w)
    /\ UNCHANGED <<account, mailTasks, tokens, redeemed>>

(* autoretry_for: the mail server refuses and the whole task runs again.   *)
RetryMailTask(w) ==
    /\ Holds(w, "issue") /\ request[w].token # 0
    /\ request[w].tries < MaxRetries
    /\ tokens' = Supersede(request[w].user, request[w].purpose)
    /\ Retry(w, [request[w] EXCEPT !.token = 0, !.tries = @ + 1])
    /\ UNCHANGED <<account, mailTasks, mailed, redeemed>>

(* Time passes, counted as a request to bound it.                          *)
Expire(t) ==
    /\ ~ tokens[t].expired /\ Serve
    /\ tokens' = [tokens EXCEPT ![t].expired = TRUE]
    /\ UNCHANGED <<account, mailTasks, mailed, redeemed>>

-----------------------------------------------------------------------------
(* get_valid_account_token: a read without a lock.                         *)
IsValid(t, p) ==
    /\ tokens[t].purpose = p
    /\ ~ tokens[t].used /\ ~ tokens[t].expired
    /\ account[tokens[t].user].active

ReadToken(w, t, op, p) ==
    /\ t \in mailed
    /\ IsValid(t, p)
    /\ Begin(w, [op |-> op, token |-> t])
    /\ UNCHANGED tokenVars

(* The transaction of ConfirmEmailSerializer.save, which reads the token   *)
(* once more before it updates the user and the token.                     *)
ConfirmEmail(w) ==
    /\ Holds(w, "confirm")
    /\ LET t == request[w].token IN
        /\ account' = [account EXCEPT ![tokens[t].user].verified = TRUE]
        /\ tokens' = [tokens EXCEPT ![t].used = TRUE]
    /\ End(w)
    /\ UNCHANGED <<mailTasks, mailed, redeemed>>

(* The transaction of PasswordResetConfirmSerializer.save, with the token  *)
(* that validate() read before it.                                         *)
KeepToken(t) == tokens               \* slip: the reset forgets mark_used
Spend(t) == [tokens EXCEPT ![t].used = TRUE]

ResetPassword(w) ==
    /\ Holds(w, "reset")
    /\ LET t == request[w].token IN
        /\ account' = [account EXCEPT ![tokens[t].user].password = @ + 1]
        /\ tokens' = Spend(t)
        /\ redeemed' = Append(redeemed, t)
    /\ End(w)
    /\ UNCHANGED <<mailTasks, mailed>>

TokNext ==
    \/ \E u \in Users :
        Register(u) \/ ResendVerification(u) \/ RequestReset(u) \/ SetActive(u)
    \/ \E w \in Workers, u \in Users, p \in Purposes : TakeMailTask(w, u, p)
    \/ \E w \in Workers :
        \/ StoreToken(w) \/ SendLink(w) \/ RetryMailTask(w)
        \/ ConfirmEmail(w) \/ ResetPassword(w)
        \/ Abandon(w) /\ UNCHANGED tokenVars
    \/ \E t \in DOMAIN tokens :
        \/ Expire(t)
        \/ \E w \in Workers :
            \/ ReadToken(w, t, "confirm", "email_verification")
            \/ ReadToken(w, t, "reset", "password_reset")

TokSpec == RequestsInit /\ TokInit /\ [][TokNext]_<<requestVars, tokenVars>>

-----------------------------------------------------------------------------
Live(u, p) ==
    {t \in DOMAIN tokens : tokens[t].user = u /\ tokens[t].purpose = p /\ ~ tokens[t].used}
Issuing(u, p) ==
    {w \in Workers : /\ Holds(w, "issue") /\ request[w].token = 0
                     /\ request[w].user = u /\ request[w].purpose = p}

(* A task marks the earlier links used before it stores its own, without a *)
(* lock: overlapping tasks leave several links of a purpose alive, but     *)
(* never more than there are workers to overlap.                           *)
LiveLinksAreBounded ==
    \A u \in Users, p \in Purposes :
        Cardinality(Live(u, p)) + Cardinality(Issuing(u, p)) <= Cardinality(Workers)

Resets(t) == {i \in DOMAIN redeemed : redeemed[i] = t}
Resetting(t) == {w \in Workers : Holds(w, "reset") /\ request[w].token = t}

(* A reset link sets the password once for each request that read it       *)
(* before it was used, and never again afterwards.                         *)
ResetsStopAtFirstUse ==
    \A t \in DOMAIN tokens :
        Cardinality(Resets(t)) + Cardinality(Resetting(t)) <= Cardinality(Workers)

(* The reset links as credentials: a request holds the link that validate()*)
(* found, and each password saved is a grant.                              *)
ResetLinks == {t \in DOMAIN tokens : tokens[t].purpose = "password_reset"}
UsableLinks == {t \in ResetLinks : ~ tokens[t].used /\ ~ tokens[t].expired}
LinksHeld == [w \in Workers |-> IF Holds(w, "reset") THEN {request[w].token} ELSE {}]
ResetsSaved == {<<k, redeemed[k]>> : k \in DOMAIN redeemed}

Links == INSTANCE SpentCredential WITH Readers <- Workers,
    usable <- UsableLinks, ended <- ResetLinks \ UsableLinks,
    held <- LinksHeld, receipts <- ResetsSaved

(* A password is reset only with a link that its request found usable, and *)
(* the link is never found usable again.                                   *)
ResetLinksStaySpent == Links!Spec
=============================================================================
