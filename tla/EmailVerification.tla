-------------------------- MODULE EmailVerification --------------------------
(***************************************************************************)
(* The life of one account up to its first login (internal/service/auth.go *)
(* and internal/store/queries/verification_tokens.sql): Signup, the tokens *)
(* that ResendVerification issues, VerifyEmail, Login.                     *)
(***************************************************************************)
EXTENDS Integers, FiniteSets

CONSTANTS
  Verifiers,   \* requests to VerifyEmail
  Resends,     \* requests to ResendVerification
  TokenTTL,    \* verificationTokenTTL
  MaxActive,   \* maxActiveVerifications
  MaxIssued,   \* bound: tokens ever issued
  MaxDay       \* bound: the clock stops

ASSUME VerificationAssumption ==
  /\ TokenTTL \in Nat \ {0} /\ MaxActive \in Nat \ {0}
  /\ MaxIssued \in Nat /\ MaxDay \in Nat
  /\ IsFiniteSet(Resends)

VARIABLES
  day,       \* the clock
  account,   \* the row of users, if any
  vtokens,   \* verification_tokens, in the order of insertion
  mailed,    \* the tokens that reached the user
  verifier,  \* the requests to VerifyEmail
  resend,    \* the requests to ResendVerification
  session,   \* a login has succeeded
  raced      \* history variable: resends that counted before another's insert

accountVars == <<day, account, vtokens, mailed, verifier, resend, session, raced>>

VTokenIds == 1..MaxIssued
NoToken0 == 0
Unissued == [expires |-> 0, consumed |-> FALSE]

Issued == {t \in VTokenIds : vtokens[t].expires > 0}

\* CountActiveTokensByUser.
ActiveTokens == {t \in Issued : ~vtokens[t].consumed /\ vtokens[t].expires > day}

VerificationTypeOK ==
  /\ day \in 0..MaxDay
  /\ account \in {"none", "unverified", "verified"}
  /\ vtokens \in [VTokenIds -> [expires : Nat, consumed : BOOLEAN]]
  /\ mailed \subseteq VTokenIds
  /\ verifier \in [Verifiers -> [at : {"idle", "lookup", "consume", "ok", "consumed",
                                       "expired", "error"},
                                 token : VTokenIds \cup {NoToken0},
                                 late : BOOLEAN]]
  /\ resend \in [Resends -> [at : {"idle", "count", "insert", "ok", "toomany",
                                   "silent", "error"}]]
  /\ session \in BOOLEAN
  /\ raced \subseteq Resends

VerificationInit ==
  /\ day = 0
  /\ account = "none"
  /\ vtokens = [t \in VTokenIds |-> Unissued]
  /\ mailed = {}
  /\ verifier = [v \in Verifiers |-> [at |-> "idle", token |-> NoToken0, late |-> FALSE]]
  /\ resend = [r \in Resends |-> [at |-> "idle"]]
  /\ session = FALSE
  /\ raced = {}

NextDay ==
  /\ day < MaxDay
  /\ day' = day + 1
  /\ UNCHANGED <<account, vtokens, mailed, verifier, resend, session, raced>>

\* InsertVerificationToken; the e-mail may fail, which is only logged.
IssueToken ==
  LET t == Cardinality(Issued) + 1 IN
  /\ t <= MaxIssued
  /\ vtokens' = [vtokens EXCEPT ![t].expires = day + TokenTTL]
  /\ mailed' \in {mailed, mailed \cup {t}}

-----------------------------------------------------------------------------
(* Signup.                                                                  *)

\* A mutant: the account needs no verification.
VerifiedAccount == "verified"

NewAccount == "unverified"

\* CreateUser; a second signup violates the unique address.  The insertion of
\* the first token is a statement of its own and may fail.
Signup ==
  /\ account = "none"
  /\ account' = NewAccount
  /\ IssueToken \/ UNCHANGED <<vtokens, mailed>>
  /\ UNCHANGED <<day, verifier, resend, session, raced>>

-----------------------------------------------------------------------------
(* ResendVerification.                                                      *)

ResendStep(r, from, to) ==
  resend[r].at = from /\ resend' = [resend EXCEPT ![r].at = to]

\* A mutant: one more than the limit.
AboveLimit(n) == n > MaxActive

TooMany(n) == n >= MaxActive

\* GetUserByEmail: silent for an unknown or verified address.
ResendLookup(r) ==
  /\ ResendStep(r, "idle", IF account = "unverified" THEN "count" ELSE "silent")
  /\ UNCHANGED <<day, account, vtokens, mailed, verifier, session, raced>>

ResendCount(r) ==
  /\ ResendStep(r, "count",
       IF TooMany(Cardinality(ActiveTokens)) THEN "toomany" ELSE "insert")
  /\ UNCHANGED <<day, account, vtokens, mailed, verifier, session, raced>>

ResendInsert(r) ==
  /\ ResendStep(r, "insert", "ok")
  /\ IssueToken
  /\ raced' = raced \cup {q \in Resends \ {r} : resend[q].at = "insert"}
  /\ UNCHANGED <<day, account, verifier, session>>

ResendFails(r) ==
  /\ \E at \in {"count", "insert"} : ResendStep(r, at, "error")
  /\ UNCHANGED <<day, account, vtokens, mailed, verifier, session, raced>>

-----------------------------------------------------------------------------
(* VerifyEmail.                                                             *)

VerifierStep(v, from, to) ==
  verifier[v].at = from /\ verifier' = [verifier EXCEPT ![v].at = to]

\* The user follows a link.
FollowLink(v) ==
  /\ verifier[v].at = "idle"
  /\ \E t \in mailed :
       verifier' = [verifier EXCEPT ![v].at = "lookup", ![v].token = t]
  /\ UNCHANGED <<day, account, vtokens, mailed, resend, session, raced>>

\* A mutant: consumed_at is not looked at.
VerdictByExpiry(token) == IF day > token.expires THEN "expired" ELSE "consume"

Verdict(token) ==
  CASE token.consumed -> "consumed"
    [] ~token.consumed /\ day > token.expires -> "expired"
    [] OTHER -> "consume"

\* GetVerificationTokenByHash and the two checks; "late" is a history variable:
\* the token had been used when it was looked up.
VerifyLookup(v) ==
  LET token == vtokens[verifier[v].token] IN
  /\ verifier[v].at = "lookup"
  /\ verifier' = [verifier EXCEPT
       ![v].late = \E w \in Verifiers : /\ verifier[w].at = "ok"
                                        /\ verifier[w].token = verifier[v].token,
       ![v].at = Verdict(token)]
  /\ UNCHANGED <<day, account, vtokens, mailed, resend, session, raced>>

\* ExecTx.  The UPDATE waits for another transaction on the same row, then
\* matches no row; the number of rows is not looked at.  The reply to the
\* COMMIT may be lost.
VerifyCommit(v) ==
  /\ \E to \in {"ok", "error"} : VerifierStep(v, "consume", to)
  /\ vtokens' = [vtokens EXCEPT ![verifier[v].token].consumed = TRUE]
  /\ account' = "verified"
  /\ UNCHANGED <<day, mailed, resend, session, raced>>

\* An error of a statement rolls the transaction back.
VerifyFails(v) ==
  /\ \E at \in {"lookup", "consume"} : VerifierStep(v, at, "error")
  /\ UNCHANGED <<day, account, vtokens, mailed, resend, session, raced>>

\* Login with the right password.
LoginSucceeds ==
  /\ account = "verified" /\ ~session
  /\ session' = TRUE
  /\ UNCHANGED <<day, account, vtokens, mailed, verifier, resend, raced>>

VerificationNext ==
  \/ NextDay \/ Signup \/ LoginSucceeds
  \/ \E r \in Resends : \/ ResendLookup(r) \/ ResendCount(r)
                        \/ ResendInsert(r) \/ ResendFails(r)
  \/ \E v \in Verifiers : \/ FollowLink(v) \/ VerifyLookup(v)
                          \/ VerifyCommit(v) \/ VerifyFails(v)

VerificationSpec == VerificationInit /\ [][VerificationNext]_accountVars

-----------------------------------------------------------------------------
(* Properties.                                                              *)

\* A session exists only if a token that was mailed to the address, and to no
\* one else, has been consumed: nothing but VerifyEmail opens the gate.
SessionsNeedMailedToken ==
  session => \E t \in mailed : vtokens[t].consumed

\* A link serves once: a request that looks a token up after another request
\* has succeeded with it does not succeed.  (Two that overlap both succeed.)
UsedLinkRefused ==
  \A v \in Verifiers : verifier[v].late => verifier[v].at \in {"consumed", "error"}

\* The tokens that could be used are at most MaxActive, and one more for each
\* resend that had counted when another inserted.
ActiveTokensBounded == Cardinality(ActiveTokens) <= MaxActive + Cardinality(raced)
=============================================================================
