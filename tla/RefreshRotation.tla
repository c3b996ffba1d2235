--------------------------- MODULE RefreshRotation ---------------------------
(***************************************************************************)
(* Refresh and logout requests for the tokens of one login:                *)
(* AuthService.Refresh and Logout of internal/service/auth.go, served by   *)
(* several API processes that share the refresh_tokens table and keep a    *)
(* replay cache each.  PostgreSQL runs the transactions at its default     *)
(* level, READ COMMITTED: a transaction's writes are seen by others when   *)
(* it commits, and a statement waits for the rows others have locked.      *)
(***************************************************************************)
EXTENDS RotationCache

CONSTANTS
  Instances,   \* API processes, each for its lifetime
  NoInstance,
  Requests,    \* requests to refresh or to log out
  NoRequest,
  RefreshTTL,  \* lifetime of a refresh token
  MaxTime      \* bound: the clock stops here

ASSUME RefreshRotationAssumption ==
  /\ NoInstance \notin Instances
  /\ NoRequest \notin Requests
  /\ RefreshTTL \in Nat
  /\ MaxTime \in Nat

VARIABLES
  clock,    \* time, in ticks
  row,      \* refresh_tokens: the committed row of each token
  rowLock,  \* the request whose transaction has locked the row
  drawn,    \* tokens ever generated
  known,    \* tokens that a client has received
  up,       \* the processes that run
  replay,   \* the replay cache of each process
  pc,       \* where each request is
  req       \* its arguments and local variables

table   == <<row, rowLock, drawn>>
vars    == <<clock, table, known, up, replay, pc, req>>

RowStates == {"none", "live", "revoked"}

Row == [state : RowStates, expires : Nat, next : Tokens \cup {NoToken}]

NoRow == [state |-> "none", expires |-> 0, next |-> NoToken]

PCs == {"idle", "select", "branch", "commit", "family", "rollback",
        "logout", "purge", "done"}

Answers == {"", "pair", "family revoked", "expired", "invalid", "error",
            "logged out", "lost"}

Request == [
  inst   : Instances \cup {NoInstance},  \* the process that serves it
  tok    : Tokens \cup {NoToken},   \* the token it presents
  key    : Keys \cup {NoKey},       \* its idempotency key
  now    : Nat,                     \* the clock when it arrived
  row    : Row,                     \* the row its SELECT returned
  fresh  : Tokens \cup {NoToken},   \* the token its transaction inserts
  pair   : Tokens \cup {NoToken},   \* resultPair
  wanted : SUBSET Tokens,           \* rows the family's UPDATE waits for
  answer : Answers]

NotArrived == [inst |-> NoInstance, tok |-> NoToken,
               key |-> NoKey, now |-> 0, row |-> NoRow, fresh |-> NoToken,
               pair |-> NoToken, wanted |-> {}, answer |-> ""]

TypeOK ==
  /\ clock \in Nat
  /\ row \in [Tokens -> Row]
  /\ rowLock \in [Tokens -> Requests \cup {NoRequest}]
  /\ drawn \subseteq Tokens
  /\ known \subseteq Tokens
  /\ up \subseteq Instances
  /\ replay \in [Instances -> [Tokens -> CachedRotation]]
  /\ pc \in [Requests -> PCs]
  /\ req \in [Requests -> Request]

Init ==
  /\ clock = 0
  /\ row = [t \in Tokens |-> NoRow]
  /\ rowLock = [t \in Tokens |-> NoRequest]
  /\ drawn = {}
  /\ known = {}
  /\ up = Instances
  /\ replay = [i \in Instances |-> EmptyCache]
  /\ pc = [r \in Requests |-> "idle"]
  /\ req = [r \in Requests |-> NotArrived]

-----------------------------------------------------------------------------
Live == {t \in Tokens : row[t].state = "live"}

LiveRow(now) == [state |-> "live", expires |-> now + RefreshTTL,
                 next |-> NoToken]

\* Login: the first token of the family.
Login ==
  /\ drawn = {}
  /\ \E t \in Tokens :
       /\ drawn' = {t}
       /\ row' = [row EXCEPT ![t] = LiveRow(clock)]
       /\ known' = {t}
  /\ UNCHANGED <<clock, rowLock, up, replay, pc, req>>

Step(r, from, to) ==
  /\ pc[r] = from
  /\ pc' = [pc EXCEPT ![r] = to]

\* The handler returns and leaves its transaction open.
AnswerKeepsLocks(r, from, a) ==
  /\ Step(r, from, "done")
  /\ req' = [req EXCEPT ![r].answer = a]
  /\ UNCHANGED rowLock

\* The handler returns; its transaction, if it has one, is over.
Answer(r, from, a) ==
  /\ Step(r, from, "done")
  /\ req' = [req EXCEPT ![r].answer = a]
  /\ rowLock' = [t \in Tokens |-> IF rowLock[t] = r THEN NoRequest
                                                    ELSE rowLock[t]]

-----------------------------------------------------------------------------
(* Refresh.                                                                 *)

\* A client presents a token it knows; Refresh reads the clock at once.
Refresh(r) ==
  /\ Step(r, "idle", "select")
  /\ \E i \in up, t \in known, k \in Keys :
       req' = [req EXCEPT ![r].inst = i, ![r].tok = t, ![r].key = k,
                          ![r].now = clock]
  /\ UNCHANGED <<clock, table, known, up, replay>>

\* The SELECT without its FOR UPDATE.
SelectUnlocked(r) ==
  LET tok == req[r].tok IN
  /\ Step(r, "select", "branch")
  /\ row[tok].state # "none"
  /\ req' = [req EXCEPT ![r].row = row[tok]]
  /\ UNCHANGED <<clock, table, known, up, replay>>

\* GetRefreshTokenByHashForUpdate: waits for the row, then locks it.
Select(r) ==
  LET tok == req[r].tok IN
  /\ Step(r, "select", "branch")
  /\ row[tok].state # "none"
  /\ rowLock[tok] = NoRequest
  /\ rowLock' = [rowLock EXCEPT ![tok] = r]
  /\ req' = [req EXCEPT ![r].row = row[tok]]
  /\ UNCHANGED <<clock, row, drawn, known, up, replay>>

\* ErrInvalidToken: no such row (a pair whose rotation was rolled back).
SelectNothing(r) ==
  /\ Answer(r, "select", "invalid")
  /\ row[req[r].tok].state = "none"
  /\ UNCHANGED <<clock, row, drawn, known, up, replay>>

Expired(r) == req[r].now > req[r].row.expires

AnswerExpired(r) ==
  /\ Answer(r, "branch", "expired")
  /\ Expired(r)
  /\ UNCHANGED <<clock, row, drawn, known, up, replay>>

\* The branch of a live token.  The INSERT and the UPDATE wait for the
\* commit; the item in the replay cache does not.
Rotate(r) ==
  /\ Step(r, "branch", "commit")
  /\ ~Expired(r)
  /\ req[r].row.state = "live"
  /\ \E t \in Tokens \ drawn :
       /\ drawn' = drawn \cup {t}
       /\ req' = [req EXCEPT ![r].fresh = t, ![r].pair = t]
       /\ replay' = [replay EXCEPT ![req[r].inst] =
                       Put(@, req[r].tok, req[r].key, t, req[r].now)]
  /\ UNCHANGED <<clock, row, rowLock, known, up>>

Hit(r) ==
  LET items == replay[req[r].inst] IN
  /\ Found(items, req[r].tok, req[r].now)
  /\ items[req[r].tok].key = req[r].key

\* A revoked token that the cache knows with this key: the first answer again.
Replay(r) ==
  /\ Step(r, "branch", "commit")
  /\ ~Expired(r)
  /\ req[r].row.state = "revoked"
  /\ Hit(r)
  /\ req' = [req EXCEPT ![r].pair = replay[req[r].inst][req[r].tok].pair]
  /\ UNCHANGED <<clock, table, known, up, replay>>

\* A revoked token otherwise: RevokeRefreshTokenFamily begins; it finds the
\* rows that are live now.
Reuse(r) ==
  /\ Step(r, "branch", "family")
  /\ ~Expired(r)
  /\ req[r].row.state = "revoked"
  /\ ~Hit(r)
  /\ req' = [req EXCEPT ![r].wanted = Live]
  /\ UNCHANGED <<clock, table, known, up, replay>>

\* It waits for those rows and locks the ones that are still live.
RevokeFamily(r) ==
  /\ Step(r, "family", "rollback")
  /\ \A t \in req[r].wanted \cap Live : rowLock[t] \in {NoRequest, r}
  /\ rowLock' = [t \in Tokens |-> IF t \in req[r].wanted \cap Live THEN r
                                  ELSE rowLock[t]]
  /\ UNCHANGED <<clock, row, drawn, known, up, replay, req>>

\* Its error is logged, not returned.
RevokeFamilyFails(r) ==
  /\ Step(r, "family", "rollback")
  /\ UNCHANGED <<clock, table, known, up, replay, req>>

\* ErrTokenFamilyRevoked is an error to ExecTx too: it rolls back.
AnswerReused(r) ==
  /\ Answer(r, "rollback", "family revoked")
  /\ UNCHANGED <<clock, row, drawn, known, up, replay>>

\* The transaction's INSERT and UPDATE become visible, if it made them.
Write(r) ==
  row' = IF req[r].fresh = NoToken THEN row
         ELSE [row EXCEPT ![req[r].fresh] = LiveRow(req[r].now),
                          ![req[r].tok].state = "revoked",
                          ![req[r].tok].next = req[r].fresh]

\* The UPDATE forgotten: the old token stays live.
CommitInsertOnly(r) ==
  /\ row' = IF req[r].fresh = NoToken THEN row
            ELSE [row EXCEPT ![req[r].fresh] = LiveRow(req[r].now)]
  /\ known' = known \cup {req[r].pair}
  /\ Answer(r, "commit", "pair")
  /\ UNCHANGED <<clock, drawn, up, replay>>

Commit(r) ==
  /\ Write(r)
  /\ known' = known \cup {req[r].pair}
  /\ Answer(r, "commit", "pair")
  /\ UNCHANGED <<clock, drawn, up, replay>>

\* The commit took effect but its reply was lost.
CommitReplyLost(r) ==
  /\ Write(r)
  /\ Answer(r, "commit", "error")
  /\ UNCHANGED <<clock, drawn, known, up, replay>>

\* A statement, the commit or the request's context fails: rolled back, and
\* what the rotation put into the replay cache stays.
Fail(r) ==
  /\ \E from \in {"select", "branch", "commit", "logout"} :
       Answer(r, from, "error")
  /\ UNCHANGED <<clock, row, drawn, known, up, replay>>

-----------------------------------------------------------------------------
(* Logout: an UPDATE of its own, then the replay cache.                     *)

Logout(r) ==
  /\ Step(r, "idle", "logout")
  /\ \E i \in up, t \in known :
       req' = [req EXCEPT ![r].inst = i, ![r].tok = t, ![r].now = clock]
  /\ UNCHANGED <<clock, table, known, up, replay>>

\* The UPDATE of a logout that does not wait for a rotation in progress.
LogoutRevokeAtOnce(r) ==
  LET tok == req[r].tok IN
  /\ Step(r, "logout", "purge")
  /\ row' = IF tok \in Live THEN [row EXCEPT ![tok].state = "revoked"]
                            ELSE row
  /\ UNCHANGED <<clock, rowLock, drawn, known, up, replay, req>>

\* RevokeRefreshTokenByHash: a live row that is locked makes it wait.
LogoutRevoke(r) ==
  LET tok == req[r].tok IN
  /\ Step(r, "logout", "purge")
  /\ tok \in Live => rowLock[tok] = NoRequest
  /\ row' = IF tok \in Live THEN [row EXCEPT ![tok].state = "revoked"]
                            ELSE row
  /\ UNCHANGED <<clock, rowLock, drawn, known, up, replay, req>>

LogoutPurge(r) ==
  /\ Answer(r, "purge", "logged out")
  /\ replay' = [replay EXCEPT ![req[r].inst] = Delete(@, req[r].tok)]
  /\ UNCHANGED <<clock, row, drawn, known, up>>

-----------------------------------------------------------------------------
\* A process stops (another one may take its place): its requests get no
\* answer, and PostgreSQL rolls their transactions back.
Stop(i) ==
  LET gone == {r \in Requests : req[r].inst = i /\ pc[r] # "done"} IN
  /\ i \in up
  /\ up' = up \ {i}
  /\ pc' = [r \in Requests |-> IF r \in gone THEN "done" ELSE pc[r]]
  /\ req' = [r \in Requests |-> IF r \in gone
                                THEN [req[r] EXCEPT !.answer = "lost"]
                                ELSE req[r]]
  /\ rowLock' = [t \in Tokens |-> IF rowLock[t] \in gone THEN NoRequest
                                  ELSE rowLock[t]]
  /\ UNCHANGED <<clock, row, drawn, known, replay>>

Tick ==
  /\ clock < MaxTime
  /\ clock' = clock + 1
  /\ UNCHANGED <<table, known, up, replay, pc, req>>

\* What a process and its database do for a request, when nothing fails.
Serve(r) ==
  \/ Select(r) \/ SelectNothing(r) \/ AnswerExpired(r)
  \/ Rotate(r) \/ Replay(r) \/ Reuse(r)
  \/ RevokeFamily(r) \/ AnswerReused(r) \/ Commit(r)
  \/ LogoutRevoke(r) \/ LogoutPurge(r)

Disturb(r) == RevokeFamilyFails(r) \/ CommitReplyLost(r) \/ Fail(r)

\* The bounds are reached: nothing is left to ask, or nobody to ask.
Finished ==
  /\ clock = MaxTime
  /\ \A r \in Requests : pc[r] = "done" \/ (pc[r] = "idle" /\ up = {})
  /\ UNCHANGED vars

Next ==
  \/ Login
  \/ \E r \in Requests : Refresh(r) \/ Logout(r) \/ Serve(r) \/ Disturb(r)
  \/ \E i \in Instances : Stop(i)
  \/ Tick
  \/ Finished

Spec == Init /\ [][Next]_vars

FairSpec == Spec /\ \A r \in Requests : WF_vars(Serve(r))

-----------------------------------------------------------------------------
(* Properties.                                                              *)

\* The row lock makes rotations of a token exclude each other: a login never
\* has two tokens that can be exchanged (auth.go:283, FOR UPDATE).
OneLiveToken == \A s, t \in Live : s = t

\* A token is replaced by a token never used before or ended by a logout, and
\* never comes back: the rows implement TokenFamily.
Current == IF Live = {} THEN NoToken ELSE CHOOSE t \in Live : TRUE

Family == INSTANCE TokenFamily WITH
  current <- Current,
  spent   <- {t \in Tokens : row[t].state = "revoked"}

ImplementsTokenFamily == Family!Spec

\* q rotated the token that r presents, for a request with the same key served
\* by the same process, and the replay window is still open.
RetryOf(r, q) ==
  /\ req[q].fresh # NoToken
  /\ row[req[q].tok].next = req[q].fresh
  /\ req[r].inst = req[q].inst
  /\ req[r].tok = req[q].tok
  /\ req[r].key = req[q].key
  /\ clock <= req[q].now + ReplayTTL

LogoutAsked(tok) ==
  \E l \in Requests : req[l].tok = tok /\ req[l].key = NoKey

\* A client that repeats its request while the replay window is open, in any
\* interleaving with the first, is never taken for one that reuses a token
\* (auth.go:335 puts the pair into the cache before the row lock goes).
RetryIsNotReuse ==
  [][\A r, q \in Requests :
       RetryOf(r, q) /\ ~LogoutAsked(req[r].tok) => ~Reuse(r)]_vars

\* The rotation of its parent was undone, yet its item stayed in the cache and
\* the parent was revoked by somebody else: a logout, or another process.
Stranded(t) ==
  \E q \in Requests :
    /\ req[q].fresh = t
    /\ req[q].answer \in {"error", "lost"}
    /\ \/ LogoutAsked(req[q].tok)
       \/ \E p \in Requests : /\ req[p].inst # req[q].inst
                              /\ req[p].fresh # NoToken
                              /\ row[req[q].tok].next = req[p].fresh

\* A pair that a client has received is in the table: the code fills the
\* cache before the commit (auth.go:335), so that an item may name a token that
\* was rolled back, but only a stranded one is ever handed out.
PairsCommitted == \A t \in known : row[t].state = "none" => Stranded(t)

-----------------------------------------------------------------------------
(* The inductive strengthening.                                             *)

InTransaction(r) == pc[r] \in {"branch", "commit", "family", "rollback"}

Refreshing(r) == pc[r] = "select" \/ InTransaction(r)

\* What a request carries from its arrival on.
Arrivals ==
  \A r \in Requests :
    IF pc[r] = "idle" THEN req[r] = NotArrived
    ELSE /\ req[r].inst \in Instances /\ req[r].tok \in Tokens
         /\ req[r].now <= clock
         /\ Refreshing(r) => req[r].key \in Keys
         /\ pc[r] = "commit" => req[r].pair \in Tokens
         /\ pc[r] \in {"logout", "purge"} =>
              req[r].key = NoKey /\ req[r].fresh = NoToken

\* A transaction owns the row it has read, so what it read is still so.
RowsHeld ==
  \A r \in Requests : InTransaction(r) =>
    /\ rowLock[req[r].tok] = r
    /\ row[req[r].tok] = req[r].row
    /\ req[r].row.state # "none"

\* The token a transaction is about to insert is unknown to the table.
Rotations ==
  /\ \A r \in Requests : req[r].fresh # NoToken =>
       /\ pc[r] \in {"commit", "done"}
       /\ req[r].fresh \in drawn
       /\ pc[r] = "commit" =>
            row[req[r].fresh].state = "none" /\ req[r].row.state = "live"
  /\ \A r, q \in Requests : r # q /\ req[r].fresh # NoToken =>
       req[r].fresh # req[q].fresh

\* Only rotated rows have a successor, and it is in the table.
RowsLinked ==
  \A t \in Tokens :
    /\ row[t].state # "none" => t \in drawn
    /\ row[t].next # NoToken =>
         row[t].state = "revoked" /\ row[row[t].next].state # "none"

\* From its Put on, committed or about to be, a rotation is in the cache as
\* long as its replay window is open.
Remembered ==
  \A q \in Requests :
    LET tok == req[q].tok IN
    /\ req[q].fresh # NoToken
    /\ pc[q] = "commit" \/ row[tok].next = req[q].fresh
    /\ ~LogoutAsked(tok)
    /\ clock <= req[q].now + ReplayTTL
    => replay[req[q].inst][tok] =
         [key |-> req[q].key, pair |-> req[q].fresh,
          expires |-> req[q].now + ReplayTTL]

IndInv ==
  TypeOK /\ Arrivals /\ RowsHeld /\ Rotations /\ RowsLinked /\ OneLiveToken
  /\ Remembered

-----------------------------------------------------------------------------
\* Every request is answered: no two transactions wait for each other.
RequestsEnd ==
  \A r \in Requests : pc[r] # "idle" ~> pc[r] = "done"

\* docs/diagrams/05-auth-token-rotation.md:106-107: "RevokeRefreshTokenFamily
\* ... COMMIT TX": a request that has updated the family's live rows, and
\* answers that the family is revoked, leaves no live row.
ReuseRevokesFamily ==
  [][\A r \in Requests :
       AnswerReused(r) /\ (\A t \in Live : rowLock[t] = r) => Live' = {}]_vars
=============================================================================
