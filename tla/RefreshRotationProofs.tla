----------------------- MODULE RefreshRotationProofs -----------------------
(***************************************************************************)
(* RefreshRotation for any number of tokens, keys, processes and requests: *)
(* types, one live token, the refinement of TokenFamily, that a retry in   *)
(* the replay window is never taken for a reuse, that a pair a client has  *)
(* received is in the table, and that row locks deadlock nobody.           *)
(***************************************************************************)
EXTENDS RefreshRotation, TLAPS

\* A request arrives.
Arrive(r) == Refresh(r) \/ Logout(r)

\* A request that has arrived is worked on.
Work(r) == Serve(r) \/ Disturb(r)

\* The actions of Work that leave the rows and the replay caches alone.
Quiet(r) ==
  \/ Select(r) \/ SelectNothing(r) \/ AnswerExpired(r) \/ Replay(r) \/ Reuse(r)
  \/ RevokeFamily(r) \/ RevokeFamilyFails(r) \/ AnswerReused(r) \/ Fail(r)

\* The actions that write rows for a transaction.
Commits(r) == Commit(r) \/ CommitReplyLost(r)

LEMMA WorkCases ==
  ASSUME NEW r \in Requests, Work(r)
  PROVE  Quiet(r) \/ Rotate(r) \/ Commits(r) \/ LogoutRevoke(r) \/ LogoutPurge(r)
BY DEF Work, Serve, Disturb, Quiet, Commits

LEMMA NextCases ==
  ASSUME Next
  PROVE  \/ Login
         \/ \E r \in Requests : Arrive(r) \/ Work(r)
         \/ \E i \in Instances : Stop(i)
         \/ Tick
         \/ UNCHANGED vars
BY DEF Next, Arrive, Work, Finished

-----------------------------------------------------------------------------
(* What an action leaves of the requests as they were.                      *)

\* The request that acts is the only one that changes.
LEMMA OthersUnchanged ==
  ASSUME TypeOK, NEW r \in Requests, Arrive(r) \/ Work(r)
  PROVE  /\ \A q \in Requests \ {r} : req'[q] = req[q] /\ pc'[q] = pc[q]
         /\ clock' = clock
         /\ up' = up
BY DEF TypeOK, Arrive, Work, Refresh, Logout, Serve, Disturb, Select,
       SelectNothing, AnswerExpired, Rotate, Replay, Reuse, RevokeFamily,
       RevokeFamilyFails, AnswerReused, Commit, CommitReplyLost, Fail,
       LogoutRevoke, LogoutPurge, Step, Answer

\* Work keeps the arguments of the request; only Rotate draws a token for it,
\* and only Select reads a row.
LEMMA ArgumentsKept ==
  ASSUME TypeOK, NEW r \in Requests, Work(r)
  PROVE  /\ req'[r].inst = req[r].inst /\ req'[r].tok = req[r].tok
         /\ req'[r].key = req[r].key /\ req'[r].now = req[r].now
         /\ Rotate(r) \/ req'[r].fresh = req[r].fresh
         /\ Select(r) \/ req'[r].row = req[r].row
<1>1. req[r] \in Request /\ req \in [Requests -> Request]
  BY DEF TypeOK
<1>2. CASE SelectNothing(r) \/ AnswerExpired(r) \/ AnswerReused(r)
           \/ Commits(r) \/ Fail(r) \/ LogoutPurge(r)
  <2>1. PICK a : req' = [req EXCEPT ![r].answer = a]
    BY <1>2 DEF SelectNothing, AnswerExpired, AnswerReused, Commits, Commit,
                CommitReplyLost, Fail, LogoutPurge, Answer
  <2> QED
    BY <1>1, <2>1 DEF Request
<1>3. CASE RevokeFamily(r) \/ RevokeFamilyFails(r) \/ LogoutRevoke(r)
  BY <1>3 DEF RevokeFamily, RevokeFamilyFails, LogoutRevoke
<1>4. CASE Select(r)
  BY <1>1, <1>4 DEF Select, Request
<1>5. CASE Rotate(r)
  <2>1. PICK t \in Tokens : req' = [req EXCEPT ![r].fresh = t, ![r].pair = t]
    BY <1>5 DEF Rotate
  <2> QED
    BY <1>1, <1>5, <2>1 DEF Request
<1>6. CASE Replay(r)
  BY <1>1, <1>6 DEF Replay, Request
<1>7. CASE Reuse(r)
  BY <1>1, <1>7 DEF Reuse, Request
<1> QED
  BY <1>2, <1>3, <1>4, <1>5, <1>6, <1>7 DEF Work, Serve, Disturb, Commits

-----------------------------------------------------------------------------
(* Types.                                                                   *)

\* Setting fields of a request.
LEMMA RequestUpdate ==
  ASSUME NEW q \in Request
  PROVE  /\ \A a \in Answers : [q EXCEPT !.answer = a] \in Request
         /\ \A x \in Row : [q EXCEPT !.row = x] \in Request
         /\ \A t \in Tokens : [q EXCEPT !.fresh = t, !.pair = t] \in Request
         /\ \A t \in Tokens : [q EXCEPT !.pair = t] \in Request
         /\ \A x \in SUBSET Tokens : [q EXCEPT !.wanted = x] \in Request
         /\ \A i \in Instances, t \in Tokens, n \in Nat :
              [q EXCEPT !.inst = i, !.tok = t, !.now = n] \in Request
         /\ \A i \in Instances, t \in Tokens, k \in Keys, n \in Nat :
              [q EXCEPT !.inst = i, !.tok = t, !.key = k, !.now = n] \in Request
BY DEF Request

LEMMA PutType ==
  ASSUME NEW items \in [Tokens -> CachedRotation], NEW tok \in Tokens,
         NEW k \in Keys, NEW pair \in Tokens, NEW now \in Nat
  PROVE  Put(items, tok, k, pair, now) \in [Tokens -> CachedRotation]
<1>1. NoItem \in CachedRotation
  BY DEF CachedRotation
<1>2. [key |-> k, pair |-> pair, expires |-> now + ReplayTTL] \in CachedRotation
  BY RotationCacheAssumption DEF CachedRotation
<1> QED
  BY <1>1, <1>2 DEF Put

LEMMA NotArrivedType == NotArrived \in Request /\ NoRow \in Row
BY DEF NotArrived, Request, NoRow, Row, RowStates, Answers

LEMMA LiveRowType ==
  ASSUME NEW now \in Nat
  PROVE  LiveRow(now) \in Row
BY RefreshRotationAssumption DEF LiveRow, Row, RowStates

LEMMA TypeInit ==
  ASSUME Init
  PROVE  TypeOK
<1>1. EmptyCache \in [Tokens -> CachedRotation]
  BY DEF EmptyCache, NoItem, CachedRotation
<1>2. "idle" \in PCs
  BY DEF PCs
<1> QED
  BY <1>1, <1>2, NotArrivedType DEF Init, TypeOK

\* An answer leaves the request and the locks with their types.
LEMMA AnswerType ==
  ASSUME TypeOK, NEW r \in Requests, NEW from, NEW a \in Answers,
         Answer(r, from, a)
  PROVE  /\ pc' \in [Requests -> PCs]
         /\ req' \in [Requests -> Request]
         /\ rowLock' \in [Tokens -> Requests \cup {NoRequest}]
<1>1. "done" \in PCs
  BY DEF PCs
<1>2. req' \in [Requests -> Request]
  BY RequestUpdate DEF Answer, TypeOK
<1> QED
  BY <1>1, <1>2 DEF Answer, Step, TypeOK

LEMMA WriteType ==
  ASSUME TypeOK, NEW r \in Requests, Write(r)
  PROVE  row' \in [Tokens -> Row]
<1>1. req[r].now \in Nat /\ req[r].fresh \in Tokens \cup {NoToken}
  BY DEF TypeOK, Request
<1>2. LiveRow(req[r].now) \in Row
  BY <1>1, LiveRowType
<1>3. "revoked" \in RowStates
  BY DEF RowStates
<1> QED
  BY <1>1, <1>2, <1>3 DEF Write, TypeOK, Row

LEMMA TypeArrive ==
  ASSUME TypeOK, NEW r \in Requests, Arrive(r)
  PROVE  TypeOK'
<1>1. {"select", "logout"} \subseteq PCs
  BY DEF PCs
<1>2. CASE Refresh(r)
  <2>1. PICK i \in up, t \in known, k \in Keys :
          req' = [req EXCEPT ![r].inst = i, ![r].tok = t, ![r].key = k,
                             ![r].now = clock]
    BY <1>2 DEF Refresh
  <2>2. i \in Instances /\ t \in Tokens /\ clock \in Nat
    BY DEF TypeOK
  <2>3. req' \in [Requests -> Request]
    <3>1. req[r] \in Request
      BY DEF TypeOK
    <3> QED
      BY <2>1, <2>2, <3>1, RequestUpdate DEF TypeOK
  <2> QED
    BY <1>1, <1>2, <2>3 DEF Refresh, Step, TypeOK, table
<1>3. CASE Logout(r)
  <2>1. PICK i \in up, t \in known :
          req' = [req EXCEPT ![r].inst = i, ![r].tok = t, ![r].now = clock]
    BY <1>3 DEF Logout
  <2>2. i \in Instances /\ t \in Tokens /\ clock \in Nat
    BY DEF TypeOK
  <2>3. req' \in [Requests -> Request]
    <3>1. req[r] \in Request
      BY DEF TypeOK
    <3> QED
      BY <2>1, <2>2, <3>1, RequestUpdate DEF TypeOK
  <2> QED
    BY <1>1, <1>3, <2>3 DEF Logout, Step, TypeOK, table
<1> QED
  BY <1>2, <1>3 DEF Arrive

\* What the cache answers a request is a pair.
LEMMA HitPair ==
  ASSUME TypeOK, NEW r \in Requests, req[r].inst \in Instances,
         req[r].tok \in Tokens, Hit(r)
  PROVE  replay[req[r].inst][req[r].tok].pair \in Tokens
<1>1. replay[req[r].inst][req[r].tok] \in CachedRotation \ {NoItem}
  BY DEF TypeOK, Hit, Found
<1> QED
  BY <1>1 DEF CachedRotation

LEMMA TypeQuiet ==
  ASSUME TypeOK, Arrivals, RowsHeld, NEW r \in Requests, Quiet(r)
  PROVE  TypeOK'
<1>0. {"branch", "commit", "family", "rollback"} \subseteq PCs
  BY DEF PCs
<1>1. {"invalid", "expired", "family revoked", "error"} \subseteq Answers
  BY DEF Answers
<1>2. CASE SelectNothing(r) \/ AnswerExpired(r) \/ AnswerReused(r) \/ Fail(r)
  <2>1. \E from : \E a \in Answers : Answer(r, from, a)
    BY <1>1, <1>2 DEF SelectNothing, AnswerExpired, AnswerReused, Fail
  <2>2. UNCHANGED <<clock, row, drawn, known, up, replay>>
    BY <1>2 DEF SelectNothing, AnswerExpired, AnswerReused, Fail
  <2> QED
    BY <2>1, <2>2, AnswerType DEF TypeOK
<1>3. CASE Select(r)
  <2>1. req[r].tok \in Tokens
    BY <1>3 DEF Select, Step, Arrivals
  <2>2. row[req[r].tok] \in Row
    BY <2>1 DEF TypeOK
  <2>3. req' \in [Requests -> Request]
    BY <1>3, <2>2, RequestUpdate DEF Select, TypeOK
  <2> QED
    BY <1>0, <1>3, <2>3 DEF Select, Step, TypeOK
<1>4. CASE Replay(r)
  <2>1. req[r].inst \in Instances /\ req[r].tok \in Tokens
    BY <1>4 DEF Replay, Step, Arrivals
  <2>2. replay[req[r].inst][req[r].tok].pair \in Tokens
    BY <1>4, <2>1, HitPair DEF Replay
  <2>3. req' \in [Requests -> Request]
    BY <1>4, <2>2, RequestUpdate DEF Replay, TypeOK
  <2> QED
    BY <1>0, <1>4, <2>3 DEF Replay, Step, TypeOK, table
<1>5. CASE Reuse(r)
  <2>0. Live \in SUBSET Tokens
    BY DEF Live
  <2>1. req' \in [Requests -> Request]
    BY <1>5, <2>0, RequestUpdate DEF Reuse, TypeOK
  <2> QED
    BY <1>0, <1>5, <2>1 DEF Reuse, Step, TypeOK, table
<1>6. CASE RevokeFamily(r)
  BY <1>0, <1>6 DEF RevokeFamily, Step, TypeOK
<1>7. CASE RevokeFamilyFails(r)
  BY <1>0, <1>7 DEF RevokeFamilyFails, Step, TypeOK, table
<1> QED
  BY <1>2, <1>3, <1>4, <1>5, <1>6, <1>7 DEF Quiet

LEMMA TypeWork ==
  ASSUME TypeOK, Arrivals, RowsHeld, NEW r \in Requests, Work(r)
  PROVE  TypeOK'
<1>1. CASE Rotate(r)
  <2>1. PICK t \in Tokens :
          /\ drawn' = drawn \cup {t}
          /\ req' = [req EXCEPT ![r].fresh = t, ![r].pair = t]
          /\ replay' = [replay EXCEPT ![req[r].inst] =
                          Put(@, req[r].tok, req[r].key, t, req[r].now)]
    BY <1>1 DEF Rotate
  <2>2. /\ req[r].inst \in Instances /\ req[r].tok \in Tokens
        /\ req[r].key \in Keys /\ req[r].now \in Nat
    BY <1>1 DEF Rotate, Step, Arrivals, Refreshing, InTransaction, TypeOK, Request
  <2>3. replay[req[r].inst] \in [Tokens -> CachedRotation]
    BY <2>2 DEF TypeOK
  <2>4. Put(replay[req[r].inst], req[r].tok, req[r].key, t, req[r].now)
          \in [Tokens -> CachedRotation]
    BY <2>2, <2>3, PutType
  <2>5. replay' \in [Instances -> [Tokens -> CachedRotation]]
    BY <2>1, <2>4 DEF TypeOK
  <2>6. req' \in [Requests -> Request]
    BY <2>1, RequestUpdate DEF TypeOK
  <2>7. pc' \in [Requests -> PCs]
    BY <1>1 DEF Rotate, Step, TypeOK, PCs
  <2> QED
    BY <1>1, <2>1, <2>5, <2>6, <2>7 DEF Rotate, TypeOK
<1>2. CASE Commits(r)
  <2>1. PICK a \in Answers : Answer(r, "commit", a)
    BY <1>2 DEF Commits, Commit, CommitReplyLost, Answers
  <2>2. row' \in [Tokens -> Row]
    BY <1>2, WriteType DEF Commits, Commit, CommitReplyLost
  <2>3. known' \subseteq Tokens
    BY <1>2 DEF Commits, Commit, CommitReplyLost, TypeOK, Answer, Step, Arrivals
  <2>4. UNCHANGED <<clock, drawn, up, replay>>
    BY <1>2 DEF Commits, Commit, CommitReplyLost
  <2> QED
    BY <2>1, <2>2, <2>3, <2>4, AnswerType DEF TypeOK
<1>3. CASE LogoutRevoke(r)
  <2>1. row' \in [Tokens -> Row]
    BY <1>3 DEF LogoutRevoke, TypeOK, Row, RowStates
  <2>2. pc' \in [Requests -> PCs]
    BY <1>3 DEF LogoutRevoke, Step, TypeOK, PCs
  <2> QED
    BY <1>3, <2>1, <2>2 DEF LogoutRevoke, TypeOK
<1>4. CASE LogoutPurge(r)
  <2>1. "logged out" \in Answers /\ NoItem \in CachedRotation
    BY DEF Answers, NoItem, CachedRotation
  <2>2. replay' \in [Instances -> [Tokens -> CachedRotation]]
    BY <1>4, <2>1 DEF LogoutPurge, Delete, TypeOK
  <2> QED
    BY <1>4, <2>1, <2>2, AnswerType DEF LogoutPurge, TypeOK
<1> QED
  BY <1>1, <1>2, <1>3, <1>4, TypeQuiet, WorkCases

LEMMA TypeNext ==
  ASSUME TypeOK, Arrivals, RowsHeld, [Next]_vars
  PROVE  TypeOK'
<1>1. CASE Login
  <2>1. clock \in Nat
    BY DEF TypeOK
  <2>2. PICK t \in Tokens : drawn' = {t} /\ known' = {t}
                            /\ row' = [row EXCEPT ![t] = LiveRow(clock)]
    BY <1>1 DEF Login
  <2>3. row' \in [Tokens -> Row]
    BY <2>1, <2>2, LiveRowType DEF TypeOK
  <2> QED
    BY <1>1, <2>2, <2>3 DEF Login, TypeOK
<1>2. CASE \E i \in Instances : Stop(i)
  <2>1. PICK i \in Instances : Stop(i)
    BY <1>2
  <2>2. "done" \in PCs /\ "lost" \in Answers
    BY DEF PCs, Answers
  <2>3. req' \in [Requests -> Request]
    BY <2>1, <2>2, RequestUpdate DEF Stop, TypeOK
  <2> QED
    BY <2>1, <2>2, <2>3 DEF Stop, TypeOK
<1>3. CASE Tick
  BY <1>3 DEF Tick, TypeOK, table
<1>4. CASE UNCHANGED vars
  BY <1>4 DEF vars, TypeOK, table
<1> QED
  BY <1>1, <1>2, <1>3, <1>4, NextCases, TypeArrive, TypeWork

-----------------------------------------------------------------------------
(* Arrivals and transactions.                                               *)

\* How the control of a request moves.
LEMMA Moves ==
  ASSUME TypeOK, NEW r \in Requests, Work(r)
  PROVE  /\ pc[r] # "idle" /\ pc'[r] # "idle"
         /\ Refreshing(r)' => Refreshing(r)
         /\ InTransaction(r)' => InTransaction(r) \/ Select(r)
         /\ pc'[r] = "commit" => Rotate(r) \/ Replay(r)
         /\ pc'[r] \in {"logout", "purge"} => pc[r] = "logout"
<1>1. pc \in [Requests -> PCs]
  BY DEF TypeOK
<1>2. CASE \E from \in {"select", "branch", "commit", "logout", "rollback", "purge"} :
             Step(r, from, "done")
  BY <1>1, <1>2 DEF Step, Refreshing, InTransaction
<1>3. CASE Select(r)
  BY <1>1, <1>3 DEF Select, Step, Refreshing, InTransaction
<1>4. CASE Rotate(r) \/ Replay(r) \/ Reuse(r)
  BY <1>1, <1>4 DEF Rotate, Replay, Reuse, Step, Refreshing, InTransaction
<1>5. CASE RevokeFamily(r) \/ RevokeFamilyFails(r)
  BY <1>1, <1>5 DEF RevokeFamily, RevokeFamilyFails, Step, Refreshing,
                    InTransaction
<1>6. CASE LogoutRevoke(r)
  BY <1>1, <1>6 DEF LogoutRevoke, Step, Refreshing, InTransaction
<1>7. CASE SelectNothing(r) \/ AnswerExpired(r) \/ AnswerReused(r)
           \/ Commits(r) \/ Fail(r) \/ LogoutPurge(r)
  BY <1>2, <1>7 DEF SelectNothing, AnswerExpired, AnswerReused, Commits, Commit,
                    CommitReplyLost, Fail, LogoutPurge, Answer
<1> QED
  BY <1>3, <1>4, <1>5, <1>6, <1>7 DEF Work, Serve, Disturb, Commits

\* How Stop leaves the requests.
LEMMA Stopped ==
  ASSUME TypeOK, NEW i \in Instances, Stop(i)
  PROVE  \A r \in Requests :
           \/ /\ req'[r] = req[r] /\ pc'[r] = pc[r]
              /\ req[r].inst = i => pc[r] = "done"
           \/ /\ req'[r] = [req[r] EXCEPT !.answer = "lost"]
              /\ pc'[r] = "done" /\ req[r].inst = i /\ pc[r] # "done"
BY DEF Stop, TypeOK

LEMMA StoppedFields ==
  ASSUME TypeOK, NEW i \in Instances, Stop(i)
  PROVE  \A r \in Requests :
           /\ req'[r].inst = req[r].inst /\ req'[r].tok = req[r].tok
           /\ req'[r].key = req[r].key /\ req'[r].now = req[r].now
           /\ req'[r].fresh = req[r].fresh /\ req'[r].row = req[r].row
           /\ req'[r].pair = req[r].pair
<1> SUFFICES ASSUME NEW r \in Requests
             PROVE  /\ req'[r].inst = req[r].inst /\ req'[r].tok = req[r].tok
                    /\ req'[r].key = req[r].key /\ req'[r].now = req[r].now
                    /\ req'[r].fresh = req[r].fresh /\ req'[r].row = req[r].row
                    /\ req'[r].pair = req[r].pair
  OBVIOUS
<1>1. req[r] \in Request
  BY DEF TypeOK
<1>2. req'[r] = req[r] \/ req'[r] = [req[r] EXCEPT !.answer = "lost"]
  BY Stopped
<1> QED
  BY <1>1, <1>2 DEF Request

LEMMA ArrivalsArrive ==
  ASSUME TypeOK, Arrivals, NEW r \in Requests, Arrive(r)
  PROVE  /\ Arrivals' /\ req[r] = NotArrived
         /\ req'[r].fresh = NoToken /\ pc'[r] \in {"select", "logout"}
<1>0. req[r] = NotArrived
  BY DEF Arrive, Refresh, Logout, Step, Arrivals
<1>1. NotArrived \in Request /\ NotArrived.key = NoKey /\ NotArrived.fresh = NoToken
  BY NotArrivedType DEF NotArrived
<1>2. CASE Refresh(r)
  <2>1. PICK i \in up, t \in known, k \in Keys :
          req' = [req EXCEPT ![r].inst = i, ![r].tok = t, ![r].key = k,
                             ![r].now = clock]
    BY <1>2 DEF Refresh
  <2>2. i \in Instances /\ t \in Tokens /\ clock \in Nat /\ clock' = clock
    BY <1>2 DEF TypeOK, Refresh
  <2>3. /\ req'[r].inst = i /\ req'[r].tok = t /\ req'[r].key = k
        /\ req'[r].now = clock /\ req'[r].fresh = NoToken
    BY <1>0, <1>1, <2>1 DEF TypeOK, NotArrived
  <2>4. pc'[r] = "select"
    BY <1>2 DEF Refresh, Step, TypeOK
  <2>5. Arrivals'
    BY <2>2, <2>3, <2>4, OthersUnchanged DEF Arrivals, Refreshing, InTransaction
  <2> QED
    BY <1>0, <2>3, <2>4, <2>5
<1>3. CASE Logout(r)
  <2>1. PICK i \in up, t \in known :
          req' = [req EXCEPT ![r].inst = i, ![r].tok = t, ![r].now = clock]
    BY <1>3 DEF Logout
  <2>2. i \in Instances /\ t \in Tokens /\ clock \in Nat /\ clock' = clock
    BY <1>3 DEF TypeOK, Logout
  <2>3. /\ req'[r].inst = i /\ req'[r].tok = t /\ req'[r].key = NoKey
        /\ req'[r].now = clock /\ req'[r].fresh = NoToken
    BY <1>0, <1>1, <2>1 DEF TypeOK, NotArrived
  <2>4. pc'[r] = "logout"
    BY <1>3 DEF Logout, Step, TypeOK
  <2>5. Arrivals'
    BY <2>2, <2>3, <2>4, OthersUnchanged DEF Arrivals, Refreshing, InTransaction
  <2> QED
    BY <1>0, <2>3, <2>4, <2>5
<1> QED
  BY <1>2, <1>3 DEF Arrive

LEMMA ArrivalsWork ==
  ASSUME TypeOK, Arrivals, NEW r \in Requests, Work(r)
  PROVE  Arrivals'
<1>1. pc'[r] = "commit" => req'[r].pair \in Tokens
  <2>1. CASE Rotate(r)
    BY <2>1 DEF Rotate, TypeOK
  <2>2. CASE Replay(r)
    <3>1. req[r].inst \in Instances /\ req[r].tok \in Tokens
      BY <2>2 DEF Replay, Step, Arrivals
    <3>2. replay[req[r].inst][req[r].tok].pair \in Tokens
      BY <2>2, <3>1, HitPair DEF Replay
    <3> QED
      BY <2>2, <3>2 DEF Replay, TypeOK
  <2> QED
    BY <2>1, <2>2, Moves
<1>2. pc'[r] \in {"logout", "purge"} =>
        req'[r].key = NoKey /\ req'[r].fresh = NoToken
  <2>1. Rotate(r) => pc'[r] = "commit"
    BY DEF Rotate, Step, TypeOK
  <2> QED
    BY <2>1, Moves, ArgumentsKept DEF Arrivals
<1>3. /\ req'[r].inst \in Instances /\ req'[r].tok \in Tokens
      /\ req'[r].now <= clock /\ pc'[r] # "idle"
      /\ Refreshing(r)' => req'[r].key \in Keys
  BY Moves, ArgumentsKept DEF Arrivals
<1> QED
  BY <1>1, <1>2, <1>3, OthersUnchanged DEF Arrivals, Refreshing, InTransaction

LEMMA ArrivalsNext ==
  ASSUME TypeOK, Arrivals, [Next]_vars
  PROVE  Arrivals'
<1>1. CASE Login
  BY <1>1 DEF Login, Arrivals, Refreshing, InTransaction
<1>2. CASE \E i \in Instances : Stop(i)
  <2>1. PICK i \in Instances : Stop(i)
    BY <1>2
  <2>2. clock' = clock
    BY <2>1 DEF Stop
  <2> SUFFICES ASSUME NEW r \in Requests
               PROVE  IF pc'[r] = "idle" THEN req'[r] = NotArrived
                      ELSE /\ req'[r].inst \in Instances /\ req'[r].tok \in Tokens
                           /\ req'[r].now <= clock'
                           /\ Refreshing(r)' => req'[r].key \in Keys
                           /\ pc'[r] = "commit" => req'[r].pair \in Tokens
                           /\ pc'[r] \in {"logout", "purge"} =>
                                req'[r].key = NoKey /\ req'[r].fresh = NoToken
    BY DEF Arrivals
  <2>3. CASE req'[r] = req[r] /\ pc'[r] = pc[r]
    BY <2>2, <2>3 DEF Arrivals, Refreshing, InTransaction
  <2>4. CASE pc'[r] = "done" /\ req[r].inst = i
    <3>1. NotArrived.inst # i
      BY RefreshRotationAssumption DEF NotArrived
    <3>2. pc[r] # "idle"
      BY <2>4, <3>1 DEF Arrivals
    <3>3. req[r].inst \in Instances /\ req[r].tok \in Tokens /\ req[r].now <= clock
      BY <3>2 DEF Arrivals
    <3>4. ~Refreshing(r)'
      BY <2>4 DEF Refreshing, InTransaction
    <3> QED
      BY <2>1, <2>2, <2>4, <3>3, <3>4, StoppedFields
  <2> QED
    BY <2>1, <2>3, <2>4, Stopped
<1>3. CASE Tick
  <2>1. clock \in Nat /\ clock' = clock + 1 /\ UNCHANGED <<pc, req>>
    BY <1>3 DEF Tick, TypeOK
  <2>2. \A r \in Requests : req[r].now \in Nat
    BY DEF TypeOK, Request
  <2> QED
    BY <2>1, <2>2 DEF Arrivals, Refreshing, InTransaction
<1>4. CASE UNCHANGED vars
  BY <1>4 DEF vars, Arrivals, Refreshing, InTransaction
<1> QED
  BY <1>1, <1>2, <1>3, <1>4, NextCases, ArrivalsArrive, ArrivalsWork

-----------------------------------------------------------------------------
(* What the actions do to the table.                                        *)

Table == TypeOK /\ Arrivals /\ RowsHeld /\ Rotations /\ RowsLinked /\ OneLiveToken

LEMMA QuietTable ==
  ASSUME NEW r \in Requests, Quiet(r) \/ Arrive(r)
  PROVE  UNCHANGED <<clock, row, drawn, replay>>
BY DEF Quiet, Arrive, Refresh, Logout, Select, SelectNothing, AnswerExpired,
       Replay, Reuse, RevokeFamily, RevokeFamilyFails, AnswerReused, Fail, table

LEMMA CommitTable ==
  ASSUME Table, NEW r \in Requests, Commits(r)
  PROVE  /\ UNCHANGED <<clock, drawn, replay>>
         /\ pc[r] = "commit" /\ pc'[r] = "done"
         /\ req[r].tok \in Tokens /\ rowLock[req[r].tok] = r
         /\ req[r].fresh = NoToken => row' = row
         /\ req[r].fresh # NoToken =>
              /\ req[r].fresh \in drawn /\ req[r].fresh \in Tokens
              /\ row[req[r].fresh].state = "none"
              /\ row[req[r].tok].state = "live"
              /\ row'[req[r].fresh] = LiveRow(req[r].now)
              /\ row'[req[r].tok].state = "revoked"
              /\ row'[req[r].tok].next = req[r].fresh
              /\ \A t \in Tokens \ {req[r].fresh, req[r].tok} : row'[t] = row[t]
<1>1. /\ UNCHANGED <<clock, drawn, replay>> /\ Write(r)
      /\ pc[r] = "commit" /\ pc'[r] = "done"
  BY DEF Commits, Commit, CommitReplyLost, Answer, Step, Table, TypeOK
<1>2. req[r].tok \in Tokens /\ rowLock[req[r].tok] = r
      /\ row[req[r].tok] = req[r].row
  BY <1>1 DEF Table, Arrivals, RowsHeld, InTransaction
<1>3. req[r].fresh = NoToken => row' = row
  BY <1>1 DEF Write
<1>4. ASSUME req[r].fresh # NoToken
      PROVE  /\ req[r].fresh \in drawn /\ req[r].fresh \in Tokens
             /\ row[req[r].fresh].state = "none"
             /\ row[req[r].tok].state = "live"
  BY <1>1, <1>2, <1>4 DEF Table, Rotations, TypeOK
<1>5. ASSUME req[r].fresh # NoToken
      PROVE  /\ row'[req[r].fresh] = LiveRow(req[r].now)
             /\ row'[req[r].tok].state = "revoked"
             /\ row'[req[r].tok].next = req[r].fresh
             /\ \A t \in Tokens \ {req[r].fresh, req[r].tok} : row'[t] = row[t]
  <2>1. req[r].fresh # req[r].tok
    BY <1>4, <1>5
  <2>2. row' = [row EXCEPT ![req[r].fresh] = LiveRow(req[r].now),
                           ![req[r].tok].state = "revoked",
                           ![req[r].tok].next = req[r].fresh]
    BY <1>1, <1>5 DEF Write
  <2>3. row \in [Tokens -> Row] /\ row[req[r].tok] \in Row
    BY <1>2 DEF Table, TypeOK
  <2> QED
    BY <1>2, <1>4, <1>5, <2>1, <2>2, <2>3 DEF Row
<1> QED
  BY <1>1, <1>2, <1>3, <1>4, <1>5

LEMMA LogoutTable ==
  ASSUME Table, NEW r \in Requests, LogoutRevoke(r)
  PROVE  /\ UNCHANGED <<clock, drawn, replay, rowLock, req>>
         /\ \A t \in Tokens \ {req[r].tok} : row'[t] = row[t]
         /\ req[r].tok \in Tokens
         /\ row'[req[r].tok].next = row[req[r].tok].next
         /\ \/ row' = row
            \/ /\ row[req[r].tok].state = "live"
               /\ row'[req[r].tok].state = "revoked"
               /\ rowLock[req[r].tok] = NoRequest
<1>1. req[r].tok \in Tokens
  BY DEF LogoutRevoke, Step, Table, Arrivals
<1>2. row \in [Tokens -> Row] /\ row[req[r].tok] \in Row
  BY <1>1 DEF Table, TypeOK
<1>3. CASE req[r].tok \in Live
  <2>1. row' = [row EXCEPT ![req[r].tok].state = "revoked"]
        /\ rowLock[req[r].tok] = NoRequest /\ row[req[r].tok].state = "live"
    BY <1>3 DEF LogoutRevoke, Live
  <2> QED
    BY <1>1, <1>2, <2>1 DEF LogoutRevoke, Row
<1>4. CASE req[r].tok \notin Live
  BY <1>1, <1>4 DEF LogoutRevoke
<1> QED
  BY <1>3, <1>4

LEMMA LoginTable ==
  ASSUME Table, Login
  PROVE  /\ drawn = {} /\ UNCHANGED <<clock, rowLock, replay, pc, req>>
         /\ \A t \in Tokens : row[t].state = "none" /\ row[t].next = NoToken
         /\ \A r \in Requests : req[r].fresh = NoToken /\ ~InTransaction(r)
         /\ \E t \in Tokens : /\ drawn' = {t}
                              /\ row' = [row EXCEPT ![t] = LiveRow(clock)]
<1>1. drawn = {} /\ UNCHANGED <<clock, rowLock, replay, pc, req>>
  BY DEF Login
<1>2. \A t \in Tokens : row[t].state = "none" /\ row[t].next = NoToken
  BY <1>1 DEF Table, RowsLinked
<1>3. ASSUME NEW r \in Requests
      PROVE  req[r].fresh = NoToken /\ ~InTransaction(r)
  <2>1. req[r].fresh = NoToken
    BY <1>1 DEF Table, Rotations
  <2>2. InTransaction(r) => pc[r] # "idle"
    BY DEF InTransaction
  <2>3. InTransaction(r) => req[r].tok \in Tokens
    BY <2>2 DEF Table, Arrivals
  <2>4. InTransaction(r) => row[req[r].tok].state # "none"
    BY DEF Table, RowsHeld
  <2> QED
    BY <1>2, <2>1, <2>3, <2>4
<1> QED
  BY <1>1, <1>2, <1>3 DEF Login

-----------------------------------------------------------------------------
(* The invariant of the table, action by action.                            *)

\* Only the holder's answer and the process's end give a lock back, and only
\* a free lock is taken.
LEMMA LocksKept ==
  ASSUME TypeOK, NEW r \in Requests, Arrive(r) \/ Work(r),
         NEW q \in Requests \ {r}, NEW t \in Tokens, rowLock[t] = q
  PROVE  rowLock'[t] = q
<1>1. q # NoRequest
  BY RefreshRotationAssumption
<1>2. CASE Arrive(r) \/ Rotate(r) \/ Replay(r) \/ Reuse(r)
           \/ RevokeFamilyFails(r) \/ LogoutRevoke(r)
  BY <1>2 DEF Arrive, Refresh, Logout, Rotate, Replay, Reuse,
              RevokeFamilyFails, LogoutRevoke, table
<1>3. CASE Select(r)
  BY <1>1, <1>3 DEF Select, TypeOK
<1>4. CASE RevokeFamily(r)
  BY <1>1, <1>4 DEF RevokeFamily, TypeOK
<1>5. CASE \E from, a : Answer(r, from, a)
  BY <1>5 DEF Answer, TypeOK
<1>6. CASE SelectNothing(r) \/ AnswerExpired(r) \/ AnswerReused(r)
           \/ Commits(r) \/ Fail(r) \/ LogoutPurge(r)
  BY <1>5, <1>6 DEF SelectNothing, AnswerExpired, AnswerReused, Commits, Commit,
                    CommitReplyLost, Fail, LogoutPurge
<1> QED
  BY <1>2, <1>3, <1>4, <1>6 DEF Work, Serve, Disturb, Commits

\* The lock of the request that acts, as long as its transaction lasts.
LEMMA OwnLockKept ==
  ASSUME TypeOK, Arrivals, RowsHeld, NEW r \in Requests, Work(r),
         InTransaction(r)'
  PROVE  rowLock'[req'[r].tok] = r
<1>1. req'[r].tok = req[r].tok
  BY ArgumentsKept
<1>2. CASE Select(r)
  BY <1>1, <1>2 DEF Select, Step, Arrivals, TypeOK
<1>3. CASE InTransaction(r)
  <2>1. rowLock[req[r].tok] = r /\ req[r].tok \in Tokens
    BY <1>3 DEF RowsHeld, InTransaction, Arrivals
  <2>2. CASE RevokeFamily(r)
    BY <1>1, <2>1, <2>2 DEF RevokeFamily
  <2>3. CASE Rotate(r) \/ Replay(r) \/ Reuse(r) \/ RevokeFamilyFails(r)
    BY <1>1, <2>1, <2>3 DEF Rotate, Replay, Reuse, RevokeFamilyFails, table
  <2>4. CASE LogoutRevoke(r) \/ Select(r)
    BY <1>3, <2>4 DEF LogoutRevoke, Select, Step, InTransaction
  <2>5. CASE SelectNothing(r) \/ AnswerExpired(r) \/ AnswerReused(r)
             \/ Commits(r) \/ Fail(r) \/ LogoutPurge(r)
    <3>1. pc'[r] = "done"
      BY <2>5 DEF SelectNothing, AnswerExpired, AnswerReused, Commits, Commit,
                  CommitReplyLost, Fail, LogoutPurge, Answer, Step, TypeOK
    <3> QED
      BY <3>1 DEF InTransaction
  <2> QED
    BY <2>2, <2>3, <2>4, <2>5 DEF Work, Serve, Disturb, Commits
<1> QED
  BY <1>2, <1>3, Moves

\* A row that a transaction owns changes by that transaction alone.
LEMMA HeldRowsKept ==
  ASSUME Table, NEW r \in Requests, Arrive(r) \/ Work(r),
         NEW q \in Requests \ {r}, InTransaction(q)
  PROVE  row'[req[q].tok] = row[req[q].tok]
<1>1. /\ req[q].tok \in Tokens /\ rowLock[req[q].tok] = q
      /\ row[req[q].tok].state # "none"
  BY DEF Table, Arrivals, RowsHeld, InTransaction
<1>2. q # NoRequest
  BY RefreshRotationAssumption
<1>3. CASE Quiet(r) \/ Arrive(r)
  BY <1>3, QuietTable
<1>4. CASE Rotate(r) \/ LogoutPurge(r)
  BY <1>4 DEF Rotate, LogoutPurge
<1>5. CASE Commits(r)
  BY <1>1, <1>5, CommitTable
<1>6. CASE LogoutRevoke(r)
  BY <1>1, <1>2, <1>6, LogoutTable
<1> QED
  BY <1>3, <1>4, <1>5, <1>6, WorkCases

LEMMA RowsHeldByRequest ==
  ASSUME Table, NEW r \in Requests, Arrive(r) \/ Work(r)
  PROVE  RowsHeld'
<1>1. ASSUME NEW q \in Requests \ {r}, InTransaction(q)'
      PROVE  /\ rowLock'[req'[q].tok] = q /\ row'[req'[q].tok] = req'[q].row
             /\ req'[q].row.state # "none"
  <2>1. InTransaction(q) /\ req'[q] = req[q]
    BY <1>1, OthersUnchanged DEF InTransaction, Table
  <2>2. /\ req[q].tok \in Tokens /\ rowLock[req[q].tok] = q
        /\ row[req[q].tok] = req[q].row /\ req[q].row.state # "none"
    BY <2>1 DEF Table, Arrivals, RowsHeld, InTransaction
  <2> QED
    BY <2>1, <2>2, LocksKept, HeldRowsKept DEF Table
<1>2. ASSUME InTransaction(r)'
      PROVE  /\ rowLock'[req'[r].tok] = r /\ row'[req'[r].tok] = req'[r].row
             /\ req'[r].row.state # "none"
  <2>1. Work(r)
    BY <1>2, ArrivalsArrive DEF Table, InTransaction
  <2>2. rowLock'[req'[r].tok] = r
    BY <1>2, <2>1, OwnLockKept DEF Table
  <2>3. CASE Select(r)
    <3>1. /\ row' = row /\ req'[r].row = row[req[r].tok]
          /\ row[req[r].tok].state # "none"
      BY <2>3 DEF Select, Table, TypeOK
    <3> QED
      BY <2>1, <2>2, <3>1, ArgumentsKept DEF Table
  <2>4. CASE ~Select(r)
    <3>1. InTransaction(r) /\ req'[r].row = req[r].row /\ req'[r].tok = req[r].tok
      BY <1>2, <2>1, <2>4, Moves, ArgumentsKept DEF Table
    <3>2. row[req[r].tok] = req[r].row /\ req[r].row.state # "none"
      BY <3>1 DEF Table, RowsHeld
    <3>3. ~Commits(r)
      BY <1>2, CommitTable DEF InTransaction
    <3>4. ~LogoutRevoke(r)
      BY <3>1 DEF LogoutRevoke, Step, InTransaction
    <3>5. row' = row
      BY <2>1, <3>3, <3>4, WorkCases, QuietTable DEF Rotate, LogoutPurge
    <3> QED
      BY <2>2, <3>1, <3>2, <3>5
  <2> QED
    BY <2>3, <2>4
<1> QED
  BY <1>1, <1>2 DEF RowsHeld

\* A step that draws no token leaves the request with the token it had.
LEMMA FreshKept ==
  ASSUME TypeOK, NEW r \in Requests, Work(r), UNCHANGED drawn
  PROVE  req'[r].fresh = req[r].fresh
<1>1. ~Rotate(r)
  BY DEF Rotate
<1> QED
  BY <1>1, ArgumentsKept

\* What can follow a rotation apart from its commit.
LEMMA QuietAfterRotate ==
  ASSUME Table, NEW r \in Requests, Quiet(r) \/ LogoutPurge(r),
         req[r].fresh # NoToken
  PROVE  pc'[r] = "done"
<1>1. pc[r] \in {"commit", "done"}
  BY DEF Table, Rotations
<1>2. pc[r] # "purge"
  BY <1>1
<1> QED
  BY <1>1, <1>2 DEF Quiet, Select, SelectNothing, AnswerExpired, Replay, Reuse,
     RevokeFamily, RevokeFamilyFails, AnswerReused, Fail, LogoutPurge, Answer,
     Step, Table, TypeOK

LEMMA RotationsByRequest ==
  ASSUME Table, NEW r \in Requests, Arrive(r) \/ Work(r)
  PROVE  Rotations'
<1>1. CASE Arrive(r)
  <2>1. /\ UNCHANGED <<row, drawn>> /\ req'[r].fresh = NoToken
        /\ \A q \in Requests \ {r} : req'[q] = req[q] /\ pc'[q] = pc[q]
    BY <1>1, QuietTable, ArrivalsArrive, OthersUnchanged DEF Table
  <2> QED
    BY <2>1 DEF Table, Rotations
<1>2. CASE Quiet(r) \/ LogoutPurge(r)
  <2>1. Work(r)
    BY <1>2 DEF Work, Serve, Disturb, Quiet
  <2>2. UNCHANGED <<row, drawn>>
    BY <1>2, QuietTable DEF LogoutPurge
  <2>3. \A q \in Requests \ {r} : req'[q] = req[q] /\ pc'[q] = pc[q]
    BY <2>1, OthersUnchanged DEF Table
  <2>4. /\ req'[r].fresh = req[r].fresh
        /\ req'[r].fresh # NoToken => pc'[r] = "done"
    BY <1>2, <2>1, <2>2, FreshKept, QuietAfterRotate DEF Table
  <2> QED
    BY <2>2, <2>3, <2>4 DEF Table, Rotations
<1>3. CASE Rotate(r)
  <2>1. PICK t \in Tokens \ drawn :
          /\ drawn' = drawn \cup {t}
          /\ req' = [req EXCEPT ![r].fresh = t, ![r].pair = t]
    BY <1>3 DEF Rotate
  <2>2. /\ row' = row /\ req'[r].row.state = "live" /\ pc'[r] = "commit"
        /\ req'[r].fresh = t /\ row[t].state = "none"
    BY <1>3, <2>1 DEF Rotate, Step, Table, TypeOK, Request, RowsLinked
  <2>3. \A q \in Requests \ {r} : req'[q] = req[q] /\ pc'[q] = pc[q]
    BY <1>3, OthersUnchanged DEF Table, Work, Serve
  <2>4. t # NoToken
    BY RotationCacheAssumption
  <2>5. \A q \in Requests \ {r} : req[q].fresh # t
    BY <2>1, <2>4 DEF Table, Rotations
  <2>6. \A q \in Requests : req'[q].fresh # NoToken =>
          /\ pc'[q] \in {"commit", "done"}
          /\ req'[q].fresh \in drawn'
          /\ pc'[q] = "commit" =>
               row'[req'[q].fresh].state = "none" /\ req'[q].row.state = "live"
    <3>1. t \in drawn'
      BY <2>1
    <3>2. \A q \in Requests \ {r} : req[q].fresh # NoToken =>
            /\ pc[q] \in {"commit", "done"}
            /\ req[q].fresh \in drawn'
            /\ pc[q] = "commit" =>
                 row[req[q].fresh].state = "none" /\ req[q].row.state = "live"
      BY <2>1 DEF Table, Rotations
    <3> QED
      BY <2>2, <2>3, <3>1, <3>2
  <2>7. \A p, q \in Requests : p # q /\ req'[p].fresh # NoToken =>
          req'[p].fresh # req'[q].fresh
    BY <2>2, <2>3, <2>5 DEF Table, Rotations
  <2> QED
    BY <2>6, <2>7 DEF Rotations
<1>4. CASE Commits(r)
  <2>0. Work(r)
    BY <1>4 DEF Work, Serve, Disturb, Commits
  <2>1. /\ req'[r].fresh = req[r].fresh /\ drawn' = drawn /\ pc'[r] = "done"
        /\ \A q \in Requests \ {r} : req'[q] = req[q] /\ pc'[q] = pc[q]
    BY <1>4, <2>0, CommitTable, FreshKept, OthersUnchanged DEF Table
  <2>2. ASSUME NEW q \in Requests \ {r}, req[q].fresh # NoToken, pc[q] = "commit"
        PROVE  row'[req[q].fresh].state = "none"
    <3>1. /\ row[req[q].fresh].state = "none" /\ req[q].fresh # req[r].fresh
          /\ req[q].fresh \in Tokens
      BY <2>2 DEF Table, Rotations, TypeOK
    <3> QED
      BY <1>4, <3>1, CommitTable
  <2> QED
    BY <2>1, <2>2 DEF Table, Rotations
<1>5. CASE LogoutRevoke(r)
  <2>1. /\ UNCHANGED <<req, drawn>> /\ pc'[r] = "purge" /\ pc[r] = "logout"
        /\ \A q \in Requests \ {r} : pc'[q] = pc[q]
    BY <1>5 DEF LogoutRevoke, Step, Table, TypeOK
  <2>2. \A t \in Tokens : row[t].state = "none" => row'[t].state = "none"
    BY <1>5, LogoutTable
  <2> QED
    BY <2>1, <2>2 DEF Table, Rotations, TypeOK
<1> QED
  BY <1>1, <1>2, <1>3, <1>4, <1>5, WorkCases

LEMMA RowsByRequest ==
  ASSUME Table, NEW r \in Requests, Arrive(r) \/ Work(r)
  PROVE  RowsLinked' /\ OneLiveToken'
<1>1. CASE row' = row /\ drawn \subseteq drawn'
  BY <1>1 DEF Table, RowsLinked, OneLiveToken, Live
<1>2. CASE Commits(r) /\ req[r].fresh # NoToken
  <2> DEFINE new == req[r].fresh
             old == req[r].tok
  <2>1. /\ new \in Tokens /\ old \in Tokens /\ new # old /\ new \in drawn
        /\ drawn' = drawn /\ row[new].state = "none" /\ row[old].state = "live"
        /\ row'[new].state = "live" /\ row'[new].next = NoToken
        /\ row'[old].state = "revoked" /\ row'[old].next = new
        /\ \A t \in Tokens \ {new, old} : row'[t] = row[t]
    <3>1. /\ row'[new] = LiveRow(req[r].now) /\ drawn' = drawn
          /\ row[new].state = "none" /\ row[old].state = "live"
          /\ new \in Tokens /\ old \in Tokens /\ new \in drawn
      BY <1>2, CommitTable
    <3>2. /\ row'[old].state = "revoked" /\ row'[old].next = new
          /\ \A t \in Tokens \ {new, old} : row'[t] = row[t]
      BY <1>2, CommitTable
    <3>3. LiveRow(req[r].now).state = "live" /\ LiveRow(req[r].now).next = NoToken
      BY DEF LiveRow
    <3> HIDE DEF new, old
    <3>4. new # old
      BY <3>1
    <3> QED
      BY <3>1, <3>2, <3>3, <3>4
  <2> HIDE DEF new, old
  <2>2. \A t \in Tokens : row[t].state # "none" => row'[t].state # "none"
    BY <2>1
  <2>3. \A t \in Tokens : row[t].next # NoToken => row[t].next \in Tokens
    BY DEF Table, TypeOK, Row
  <2>4. \A t \in Tokens : row'[t].state # "none" => t \in drawn'
    BY <2>1 DEF Table, RowsLinked
  <2>5. ASSUME NEW t \in Tokens, row'[t].next # NoToken
        PROVE  row'[t].state = "revoked" /\ row'[row'[t].next].state # "none"
    <3>1. CASE t = old
      BY <2>1, <3>1
    <3>2. CASE t # old
      <4>1. row'[t] = row[t]
        BY <2>1, <2>5, <3>2
      <4>2. row[t].state = "revoked" /\ row[row[t].next].state # "none"
        BY <2>5, <4>1 DEF Table, RowsLinked
      <4> QED
        BY <2>2, <2>3, <2>5, <4>1, <4>2
    <3> QED
      BY <3>1, <3>2
  <2>6. ASSUME NEW t \in Tokens, row'[t].state = "live"
        PROVE  t = new
    BY <2>1, <2>6 DEF Table, OneLiveToken, Live
  <2> QED
    BY <2>4, <2>5, <2>6 DEF RowsLinked, OneLiveToken, Live
<1>3. CASE LogoutRevoke(r)
  <2>1. /\ drawn' = drawn
        /\ \A t \in Tokens : /\ row'[t].next = row[t].next
                             /\ \/ row'[t].state = row[t].state
                                \/ /\ row[t].state = "live"
                                   /\ row'[t].state = "revoked"
    BY <1>3, LogoutTable
  <2>2. \A t \in Tokens : row[t].next # NoToken => row[t].next \in Tokens
    BY DEF Table, TypeOK, Row
  <2>3. RowsLinked'
    BY <2>1, <2>2 DEF Table, RowsLinked
  <2>4. OneLiveToken'
    BY <2>1 DEF Table, OneLiveToken, Live
  <2> QED
    BY <2>3, <2>4
<1>4. CASE Rotate(r) \/ LogoutPurge(r)
  BY <1>1, <1>4 DEF Rotate, LogoutPurge
<1> QED
  BY <1>1, <1>2, <1>3, <1>4, WorkCases, QuietTable, CommitTable

LEMMA TableLogin ==
  ASSUME Table, Login
  PROVE  RowsHeld' /\ Rotations' /\ RowsLinked' /\ OneLiveToken'
<1>1. PICK t \in Tokens : drawn' = {t} /\ row' = [row EXCEPT ![t] = LiveRow(clock)]
  BY LoginTable
<1>2. row \in [Tokens -> Row]
  BY DEF Table, TypeOK
<1>3. /\ row'[t].state = "live" /\ row'[t].next = NoToken
      /\ \A u \in Tokens \ {t} : row'[u].state = "none" /\ row'[u].next = NoToken
  BY <1>1, <1>2, LoginTable DEF LiveRow
<1>4. RowsLinked' /\ OneLiveToken'
  BY <1>1, <1>3 DEF RowsLinked, OneLiveToken, Live
<1>5. RowsHeld' /\ Rotations'
  BY LoginTable DEF RowsHeld, Rotations, InTransaction
<1> QED
  BY <1>4, <1>5

LEMMA TableStop ==
  ASSUME Table, NEW i \in Instances, Stop(i)
  PROVE  RowsHeld' /\ Rotations' /\ RowsLinked' /\ OneLiveToken'
<1>0. TypeOK
  BY DEF Table
<1>1. UNCHANGED <<row, drawn>>
  BY DEF Stop
<1>2. ASSUME NEW r \in Requests, InTransaction(r)'
      PROVE  /\ rowLock'[req'[r].tok] = r /\ row'[req'[r].tok] = req'[r].row
             /\ req'[r].row.state # "none"
  <2>1. req'[r] = req[r] /\ pc'[r] = pc[r] /\ (req[r].inst = i => pc[r] = "done")
    BY <1>0, <1>2, Stopped DEF InTransaction
  <2>2. InTransaction(r) /\ req[r].inst # i
    BY <1>2, <2>1 DEF InTransaction
  <2>3. /\ rowLock[req[r].tok] = r /\ row[req[r].tok] = req[r].row
        /\ req[r].row.state # "none" /\ req[r].tok \in Tokens
    BY <2>2 DEF Table, RowsHeld, Arrivals, InTransaction
  <2>4. rowLock'[req[r].tok] = r
    BY <2>2, <2>3 DEF Stop
  <2> QED
    BY <1>1, <2>1, <2>3, <2>4
<1>3. Rotations'
  <2>1. \A r \in Requests : pc'[r] = pc[r] \/ pc'[r] = "done"
    BY <1>0, Stopped
  <2> QED
    BY <1>0, <1>1, <2>1, StoppedFields DEF Table, Rotations
<1> QED
  BY <1>1, <1>2, <1>3 DEF Table, RowsHeld, RowsLinked, OneLiveToken, Live

LEMMA TableNext ==
  ASSUME Table, [Next]_vars
  PROVE  Table'
<1>1. TypeOK' /\ Arrivals'
  BY TypeNext, ArrivalsNext DEF Table
<1>2. ASSUME UNCHANGED <<row, rowLock, drawn, pc, req>>
      PROVE  RowsHeld' /\ Rotations' /\ RowsLinked' /\ OneLiveToken'
  BY <1>2 DEF Table, RowsHeld, Rotations, RowsLinked, OneLiveToken, Live,
              InTransaction
<1>3. RowsHeld' /\ Rotations' /\ RowsLinked' /\ OneLiveToken'
  <2>1. CASE Login
    BY <2>1, TableLogin
  <2>2. CASE \E r \in Requests : Arrive(r) \/ Work(r)
    BY <2>2, RowsHeldByRequest, RotationsByRequest, RowsByRequest
  <2>3. CASE \E i \in Instances : Stop(i)
    BY <2>3, TableStop
  <2>4. CASE Tick \/ UNCHANGED vars
    BY <1>2, <2>4 DEF Tick, vars, table
  <2> QED
    BY <2>1, <2>2, <2>3, <2>4, NextCases
<1> QED
  BY <1>1, <1>3 DEF Table

LEMMA TableInit ==
  ASSUME Init
  PROVE  Table
<1>1. TypeOK
  BY TypeInit
<1> QED
  BY <1>1 DEF Init, Table, Arrivals, RowsHeld, Rotations, RowsLinked,
     OneLiveToken, Live, InTransaction, NotArrived, NoRow

-----------------------------------------------------------------------------
(* The replay cache remembers each rotation for its window.                 *)

\* The item that a rotation leaves.
Item(q) == [key |-> req[q].key, pair |-> req[q].fresh,
            expires |-> req[q].now + ReplayTTL]

\* The replay cache has to remember q's rotation.
Owed(q) ==
  /\ req[q].fresh # NoToken
  /\ pc[q] = "commit" \/ row[req[q].tok].next = req[q].fresh
  /\ ~LogoutAsked(req[q].tok)
  /\ clock <= req[q].now + ReplayTTL

LEMMA RememberedOwed ==
  Remembered <=> \A q \in Requests :
                   Owed(q) => replay[req[q].inst][req[q].tok] = Item(q)
BY DEF Remembered, Owed, Item

LEMMA PutItems ==
  ASSUME NEW items \in [Tokens -> CachedRotation], NEW tok \in Tokens,
         NEW k, NEW pair, NEW now
  PROVE  /\ Put(items, tok, k, pair, now)[tok] =
              [key |-> k, pair |-> pair, expires |-> now + ReplayTTL]
         /\ \A t \in Tokens \ {tok} : ~Stale(items[t], now) =>
              Put(items, tok, k, pair, now)[t] = items[t]
BY DEF Put

\* A request that has drawn a token has arrived.
LEMMA OwedType ==
  ASSUME Table, NEW q \in Requests, req[q].fresh # NoToken
  PROVE  /\ req[q].inst \in Instances /\ req[q].tok \in Tokens
         /\ req[q].now \in Nat /\ req[q].now <= clock
         /\ pc[q] \in {"commit", "done"} /\ req[q].fresh \in Tokens
BY DEF Table, TypeOK, Request, Arrivals, Rotations

\* Once asked for, a logout stays asked for.
LEMMA LogoutStays ==
  ASSUME Table, [Next]_vars, NEW tok \in Tokens, LogoutAsked(tok)
  PROVE  LogoutAsked(tok)'
<1>0. TypeOK
  BY DEF Table
<1>1. PICK l \in Requests : req[l].tok = tok /\ req[l].key = NoKey
  BY DEF LogoutAsked
<1>2. NotArrived.tok # tok
  BY RotationCacheAssumption DEF NotArrived
<1>3. CASE UNCHANGED req
  BY <1>3 DEF LogoutAsked
<1>4. CASE \E r \in Requests : Arrive(r) \/ Work(r)
  <2>1. PICK r \in Requests : Arrive(r) \/ Work(r)
    BY <1>4
  <2>2. CASE l # r
    BY <1>0, <1>1, <2>1, <2>2, OthersUnchanged DEF LogoutAsked
  <2>3. CASE l = r
    <3>1. Work(r)
      BY <1>1, <1>2, <2>1, <2>3, ArrivalsArrive DEF Table
    <3> QED
      BY <1>0, <1>1, <2>3, <3>1, ArgumentsKept DEF LogoutAsked
  <2> QED
    BY <2>2, <2>3
<1>5. CASE \E i \in Instances : Stop(i)
  BY <1>0, <1>1, <1>5, StoppedFields DEF LogoutAsked
<1>6. CASE Login \/ Tick
  BY <1>3, <1>6 DEF Login, Tick
<1> QED
  BY <1>3, <1>4, <1>5, <1>6, NextCases DEF vars

\* What a row says of its past stays.
LEMMA RowsKept ==
  ASSUME Table, [Next]_vars, NEW t \in Tokens
  PROVE  /\ row[t].state # "none" => row'[t].state # "none"
         /\ row[t].state = "revoked" => row'[t].state = "revoked"
         /\ row[t].next # NoToken => row'[t].next = row[t].next
<1>0. row[t].next # NoToken => row[t].state = "revoked"
  BY DEF Table, RowsLinked
<1>1. CASE Login
  BY <1>1, LoginTable
<1>2. CASE \E r \in Requests : Arrive(r) \/ Work(r)
  <2>1. PICK r \in Requests : Arrive(r) \/ Work(r)
    BY <1>2
  <2>2. CASE Commits(r)
    <3>1. CASE req[r].fresh = NoToken
      BY <2>2, <3>1, CommitTable
    <3>2. CASE req[r].fresh # NoToken
      <4>1. /\ row[req[r].fresh].state = "none" /\ row[req[r].tok].state = "live"
            /\ row'[req[r].tok].state = "revoked"
            /\ \A x \in Tokens \ {req[r].fresh, req[r].tok} : row'[x] = row[x]
        BY <2>2, <3>2, CommitTable
      <4> QED
        BY <1>0, <4>1
    <3> QED
      BY <3>1, <3>2
  <2>3. CASE LogoutRevoke(r)
    BY <1>0, <2>3, LogoutTable
  <2>4. CASE Quiet(r) \/ Arrive(r) \/ LogoutPurge(r) \/ Rotate(r)
    <3>1. row' = row
      BY <2>4, QuietTable DEF LogoutPurge, Rotate
    <3> QED
      BY <3>1
  <2> QED
    BY <2>1, <2>2, <2>3, <2>4, WorkCases
<1>3. CASE (\E i \in Instances : Stop(i)) \/ Tick \/ UNCHANGED vars
  BY <1>3 DEF Stop, Tick, table, vars
<1> QED
  BY <1>1, <1>2, <1>3, NextCases

\* A request that has drawn a token keeps it; once answered it keeps everything.
LEMMA DrawnKept ==
  ASSUME Table, [Next]_vars, NEW q \in Requests, req[q].fresh # NoToken
  PROVE  /\ req'[q].inst = req[q].inst /\ req'[q].tok = req[q].tok
         /\ req'[q].fresh = req[q].fresh
         /\ pc[q] = "done" => req'[q] = req[q] /\ pc'[q] = "done"
         /\ pc'[q] = "commit" => pc[q] = "commit" /\ req'[q] = req[q]
<1>0. TypeOK /\ pc[q] \in {"commit", "done"}
  BY OwedType DEF Table
<1>1. CASE Login \/ Tick \/ UNCHANGED vars
  BY <1>0, <1>1 DEF Login, Tick, vars
<1>2. CASE \E i \in Instances : Stop(i)
  BY <1>0, <1>2, Stopped, StoppedFields
<1>3. CASE \E r \in Requests : Arrive(r) \/ Work(r)
  <2>1. PICK r \in Requests : Arrive(r) \/ Work(r)
    BY <1>3
  <2>2. CASE q # r
    BY <1>0, <2>1, <2>2, OthersUnchanged
  <2>3. CASE q = r
    <3>1. Work(r)
      BY <1>0, <2>1, <2>3 DEF Arrive, Refresh, Logout, Step
    <3>2. pc[r] # "done"
      BY <3>1 DEF Work, Serve, Disturb, Select, SelectNothing, AnswerExpired, Rotate, Replay, Reuse,
           RevokeFamily, RevokeFamilyFails, AnswerReused, Commit, CommitReplyLost, Fail,
           LogoutRevoke, LogoutPurge, Step, Answer
    <3>3. ~Rotate(r) /\ ~Replay(r)
      BY <1>0, <2>3 DEF Rotate, Replay, Step
    <3> QED
      BY <1>0, <2>3, <3>1, <3>2, <3>3, ArgumentsKept, Moves
  <2> QED
    BY <2>2, <2>3
<1> QED
  BY <1>1, <1>2, <1>3, NextCases

\* No step of a request makes a rotation the last one of its token; only the
\* one that draws it does.
LEMMA LatestBefore ==
  ASSUME Table, [Next]_vars, NEW q \in Requests, req[q].fresh # NoToken,
         pc'[q] = "commit" \/ row'[req[q].tok].next = req[q].fresh
  PROVE  pc[q] = "commit" \/ row[req[q].tok].next = req[q].fresh
<1>1. req[q].tok \in Tokens
  BY OwedType
<1>2. pc'[q] = "commit" => pc[q] = "commit"
  BY DrawnKept
<1>3. CASE row'[req[q].tok].next = req[q].fresh /\ pc[q] # "commit"
  <2>0. CASE \E r \in Requests : Arrive(r) \/ Work(r)
    <3>0. PICK r \in Requests : Arrive(r) \/ Work(r)
      BY <2>0
    <3>1. CASE Commits(r) /\ req[r].fresh # NoToken
      <4>1. pc[r] = "commit" /\ q # r
        BY <1>3, <3>1, CommitTable
      <4>2. req[q].fresh # req[r].fresh
        BY <4>1 DEF Table, Rotations
      <4>3. CASE req[q].tok = req[r].fresh
        <5>1. row'[req[r].fresh] = LiveRow(req[r].now)
          BY <3>1, CommitTable
        <5>2. LiveRow(req[r].now).next = NoToken
          BY DEF LiveRow
        <5> QED
          BY <1>3, <4>3, <5>1, <5>2
      <4>4. CASE req[q].tok = req[r].tok
        BY <1>3, <3>1, <4>2, <4>4, CommitTable
      <4>5. CASE req[q].tok \notin {req[r].fresh, req[r].tok}
        BY <1>1, <1>3, <3>1, <4>5, CommitTable
      <4> QED
        BY <4>3, <4>4, <4>5
    <3>2. CASE Commits(r) /\ req[r].fresh = NoToken
      BY <1>3, <3>2, CommitTable
    <3>3. CASE LogoutRevoke(r)
      BY <1>1, <1>3, <3>3, LogoutTable
    <3>4. CASE Quiet(r) \/ Arrive(r) \/ LogoutPurge(r) \/ Rotate(r)
      BY <1>3, <3>4, QuietTable DEF LogoutPurge, Rotate
    <3> QED
      BY <3>0, <3>1, <3>2, <3>3, <3>4, WorkCases
  <2>1. CASE Login
    <3>1. \A x \in Requests : req[x].fresh = NoToken
      BY <2>1, LoginTable
    <3> QED
      BY <3>1
  <2>2. CASE (\E i \in Instances : Stop(i)) \/ Tick \/ UNCHANGED vars
    <3>1. row' = row
      BY <2>2 DEF Stop, Tick, table, vars
    <3> QED
      BY <1>3, <3>1
  <2> QED
    BY <2>0, <2>1, <2>2, NextCases
<1> QED
  BY <1>2, <1>3

\* What a request leaves to the others' rotations: no step makes one owed.
LEMMA OwedBefore ==
  ASSUME Table, NEW r \in Requests, Arrive(r) \/ Work(r), ~Rotate(r),
         NEW q \in Requests, Owed(q)'
  PROVE  /\ Owed(q)
         /\ req'[q].inst = req[q].inst /\ req'[q].tok = req[q].tok
         /\ Item(q)' = Item(q)
<1>0. TypeOK /\ [Next]_vars
  BY DEF Table, Next, Arrive, Work
<1>1. ~(Arrive(r) /\ q = r)
  BY ArrivalsArrive DEF Table, Owed
<1>2. /\ req'[q].inst = req[q].inst /\ req'[q].tok = req[q].tok
      /\ req'[q].key = req[q].key /\ req'[q].now = req[q].now
      /\ req'[q].fresh = req[q].fresh /\ clock' = clock
  <2>1. CASE q = r
    BY <1>0, <1>1, <2>1, ArgumentsKept, OthersUnchanged
  <2>2. CASE q # r
    BY <1>0, <2>2, OthersUnchanged
  <2> QED
    BY <2>1, <2>2
<1>3. req[q].fresh # NoToken /\ clock <= req[q].now + ReplayTTL
  BY <1>2 DEF Owed
<1>4. req[q].tok \in Tokens /\ pc[q] \in {"commit", "done"}
  BY <1>3, OwedType
<1>5. ~LogoutAsked(req[q].tok)
  BY <1>0, <1>2, <1>4, LogoutStays DEF Owed
<1>6. pc[q] = "commit" \/ row[req[q].tok].next = req[q].fresh
  BY <1>0, <1>2, <1>3, LatestBefore DEF Owed
<1> QED
  BY <1>2, <1>3, <1>5, <1>6 DEF Owed, Item

LEMMA RememberedWork ==
  ASSUME Table, Remembered, NEW r \in Requests, Arrive(r) \/ Work(r), ~Rotate(r)
  PROVE  Remembered'
<1> SUFFICES ASSUME NEW q \in Requests, Owed(q)'
             PROVE  replay'[req'[q].inst][req'[q].tok] = Item(q)'
  BY DEF Remembered, Owed, Item
<1>1. /\ Owed(q) /\ Item(q)' = Item(q)
      /\ req'[q].inst = req[q].inst /\ req'[q].tok = req[q].tok
  BY OwedBefore
<1>2. replay[req[q].inst][req[q].tok] = Item(q)
  BY <1>1, RememberedOwed
<1>3. CASE LogoutPurge(r)
  <2>1. /\ req[r].key = NoKey
        /\ replay' = [replay EXCEPT ![req[r].inst] = Delete(@, req[r].tok)]
    BY <1>3 DEF LogoutPurge, Answer, Step, Table, Arrivals
  <2>2. req[r].tok # req[q].tok
    BY <1>1, <2>1 DEF Owed, LogoutAsked
  <2>3. req[q].inst \in Instances /\ req[q].tok \in Tokens
    BY <1>1, OwedType DEF Owed
  <2> QED
    BY <1>1, <1>2, <2>1, <2>2, <2>3 DEF Delete, Table, TypeOK
<1>4. CASE ~LogoutPurge(r)
  <2>1. replay' = replay
    BY <1>4, WorkCases, QuietTable, CommitTable, LogoutTable
  <2> QED
    BY <1>1, <1>2, <2>1
<1> QED
  BY <1>3, <1>4

LEMMA RememberedRotate ==
  ASSUME Table, Remembered, NEW r \in Requests, Rotate(r)
  PROVE  Remembered'
<1> SUFFICES ASSUME NEW q \in Requests, Owed(q)'
             PROVE  replay'[req'[q].inst][req'[q].tok] = Item(q)'
  BY DEF Remembered, Owed, Item
<1>0. TypeOK /\ Work(r) /\ [Next]_vars
  BY DEF Table, Work, Serve, Next
<1>1. PICK t \in Tokens \ drawn :
        /\ req' = [req EXCEPT ![r].fresh = t, ![r].pair = t]
        /\ replay' = [replay EXCEPT ![req[r].inst] =
                        Put(@, req[r].tok, req[r].key, t, req[r].now)]
  BY DEF Rotate
<1>2. /\ UNCHANGED <<clock, row>> /\ pc[r] = "branch"
      /\ req[r].row.state = "live"
  BY DEF Rotate, Step
<1>3. /\ req[r].inst \in Instances /\ req[r].tok \in Tokens
      /\ rowLock[req[r].tok] = r /\ row[req[r].tok].state = "live"
      /\ req[r].now <= clock /\ req[r].now \in Nat /\ clock \in Nat
  BY <1>2 DEF Table, Arrivals, RowsHeld, InTransaction, TypeOK, Request
<1>4. replay[req[r].inst] \in [Tokens -> CachedRotation]
  BY <1>3 DEF Table, TypeOK
<1>5. CASE q = r
  <2>1. /\ req'[r].inst = req[r].inst /\ req'[r].tok = req[r].tok
        /\ req'[r].key = req[r].key /\ req'[r].now = req[r].now
    BY <1>0, ArgumentsKept
  <2>2. req'[r].fresh = t
    BY <1>0, <1>1 DEF TypeOK, Request
  <2>3. replay'[req[r].inst][req[r].tok] =
          [key |-> req[r].key, pair |-> t, expires |-> req[r].now + ReplayTTL]
    BY <1>0, <1>1, <1>3, <1>4, PutItems DEF TypeOK
  <2> QED
    BY <1>5, <2>1, <2>2, <2>3 DEF Item
<1>6. CASE q # r
  <2>1. req'[q] = req[q] /\ pc'[q] = pc[q]
    BY <1>0, <1>6, OthersUnchanged
  <2>2. req[q].fresh # NoToken
    BY <2>1 DEF Owed
  <2>3. req[q].inst \in Instances /\ req[q].tok \in Tokens
    BY <2>2, OwedType
  <2>4. Owed(q) /\ Item(q)' = Item(q)
    BY <1>0, <1>2, <2>1, <2>3, LogoutStays DEF Owed, Item
  <2>5. replay[req[q].inst][req[q].tok] = Item(q)
    BY <2>4, RememberedOwed
  <2>6. req[q].tok # req[r].tok
    <3>1. CASE pc[q] = "commit"
      <4>1. rowLock[req[q].tok] = q
        BY <3>1 DEF Table, RowsHeld, InTransaction
      <4> QED
        BY <1>3, <1>6, <4>1
    <3>2. CASE row[req[q].tok].next = req[q].fresh
      <4>1. row[req[q].tok].state = "revoked"
        BY <2>2, <2>3, <3>2 DEF Table, RowsLinked
      <4> QED
        BY <1>3, <4>1
    <3> QED
      BY <2>4, <3>1, <3>2 DEF Owed
  <2>7. CASE req[q].inst = req[r].inst
    <3>1. ~Stale(replay[req[q].inst][req[q].tok], req[r].now)
      <4>1. clock <= req[q].now + ReplayTTL /\ req[q].now \in Nat
        BY <2>2, <2>4, OwedType DEF Owed
      <4>2. replay[req[q].inst][req[q].tok].expires = req[q].now + ReplayTTL
        BY <2>5 DEF Item
      <4> QED
        BY <1>3, <4>1, <4>2, RotationCacheAssumption DEF Stale
    <3>2. Put(replay[req[r].inst], req[r].tok, req[r].key, t, req[r].now)[req[q].tok]
            = replay[req[q].inst][req[q].tok]
      <4> DEFINE items == replay[req[r].inst]
      <4>1. ~Stale(items[req[q].tok], req[r].now)
        BY <2>7, <3>1
      <4>2. req[q].tok \in Tokens \ {req[r].tok}
        BY <2>3, <2>6
      <4> HIDE DEF items
      <4>3. Put(items, req[r].tok, req[r].key, t, req[r].now)[req[q].tok]
              = items[req[q].tok]
        BY <4>1, <4>2 DEF Put
      <4> QED
        BY <2>7, <4>3 DEF items
    <3>3. replay'[req[q].inst] =
            Put(replay[req[r].inst], req[r].tok, req[r].key, t, req[r].now)
      BY <1>0, <1>1, <1>3, <2>7 DEF TypeOK
    <3> QED
      BY <2>1, <2>4, <2>5, <3>2, <3>3
  <2>8. CASE req[q].inst # req[r].inst
    <3>1. replay'[req[q].inst] = replay[req[q].inst]
      BY <1>0, <1>1, <2>3, <2>8 DEF TypeOK
    <3> QED
      BY <2>1, <2>4, <2>5, <3>1
  <2> QED
    BY <2>7, <2>8
<1> QED
  BY <1>5, <1>6

LEMMA RememberedNext ==
  ASSUME Table, Remembered, [Next]_vars
  PROVE  Remembered'
<1>0. TypeOK
  BY DEF Table
<1>1. CASE Login
  <2>1. \A r \in Requests : req'[r].fresh = NoToken
    BY <1>1, LoginTable
  <2> QED
    BY <2>1 DEF Remembered
<1>2. CASE \E r \in Requests : Arrive(r) \/ Work(r)
  <2>1. PICK r \in Requests : Arrive(r) \/ Work(r)
    BY <1>2
  <2> QED
    BY <2>1, RememberedWork, RememberedRotate
<1>3. CASE \E i \in Instances : Stop(i)
  <2>1. PICK i \in Instances : Stop(i)
    BY <1>3
  <2>2. UNCHANGED <<clock, row, replay>>
    BY <2>1 DEF Stop
  <2>3. \A r \in Requests : pc'[r] = "commit" => pc[r] = "commit"
    BY <1>0, <2>1, Stopped
  <2>4. \A q \in Requests : LogoutAsked(req[q].tok) => LogoutAsked(req[q].tok)'
    BY <1>0, <2>1, StoppedFields DEF LogoutAsked
  <2> SUFFICES ASSUME NEW q \in Requests, Owed(q)'
               PROVE  replay'[req'[q].inst][req'[q].tok] = Item(q)'
    BY DEF Remembered, Owed, Item
  <2>5. Owed(q) /\ Item(q)' = Item(q)
        /\ req'[q].inst = req[q].inst /\ req'[q].tok = req[q].tok
    BY <1>0, <2>1, <2>2, <2>3, <2>4, StoppedFields DEF Owed, Item
  <2> QED
    BY <2>2, <2>5, RememberedOwed
<1>4. CASE Tick
  <2>1. clock' = clock + 1 /\ UNCHANGED <<row, replay, pc, req>> /\ clock \in Nat
    BY <1>0, <1>4 DEF Tick, table, TypeOK
  <2>2. \A q \in Requests : req[q].now \in Nat
    BY <1>0 DEF TypeOK, Request
  <2> QED
    BY <2>1, <2>2, RotationCacheAssumption DEF Remembered, LogoutAsked
<1>5. CASE UNCHANGED vars
  BY <1>5 DEF vars, table, Remembered, LogoutAsked
<1> QED
  BY <1>1, <1>2, <1>3, <1>4, <1>5, NextCases

-----------------------------------------------------------------------------
(* The theorems.                                                            *)

LEMMA IndInvInit ==
  ASSUME Init
  PROVE  IndInv
BY TableInit DEF IndInv, Table, Remembered, Init, NotArrived

LEMMA IndInvNext ==
  ASSUME IndInv, [Next]_vars
  PROVE  IndInv'
BY TableNext, RememberedNext DEF IndInv, Table

\* The strengthening holds: among others, a transaction's row is as it read it,
\* and a rotation is in the replay cache while its window is open.
THEOREM Inductive == Spec => []IndInv
BY IndInvInit, IndInvNext, PTL DEF Spec

\* Every reachable state has the declared types.
THEOREM TypesCorrect == Spec => []TypeOK
BY Inductive, PTL DEF IndInv

\* No two tokens of a login are live at once, whatever requests race, fail,
\* lose their replies or die with their process.
THEOREM AtMostOneLive == Spec => []OneLiveToken
BY Inductive, PTL DEF IndInv

\* A retry of a rotation in the replay window finds its pair in the cache.
LEMMA RetryHits ==
  ASSUME IndInv, NEW r \in Requests, NEW q \in Requests,
         RetryOf(r, q), ~LogoutAsked(req[r].tok), Reuse(r)
  PROVE  FALSE
<1>1. Table /\ Remembered
  BY DEF IndInv, Table
<1>2. pc[r] = "branch" /\ ~Hit(r)
  BY DEF Reuse, Step
<1>3. /\ req[r].now <= clock /\ req[r].now \in Nat /\ clock \in Nat
      /\ req[r].key \in Keys
  BY <1>1, <1>2 DEF Table, TypeOK, Request, Arrivals, Refreshing, InTransaction
<1>4. Owed(q)
  BY DEF Owed, RetryOf
<1>5. replay[req[r].inst][req[r].tok] = Item(q)
  BY <1>1, <1>4, RememberedOwed DEF RetryOf
<1>6. Item(q) # NoItem /\ Item(q).key = req[r].key
  BY <1>3, RotationCacheAssumption DEF Item, NoItem, RetryOf
<1>7. ~Stale(Item(q), req[r].now)
  <2>1. req[q].now \in Nat /\ clock <= req[q].now + ReplayTTL
    BY <1>1 DEF RetryOf, Table, TypeOK, Request
  <2> QED
    BY <1>3, <2>1, RotationCacheAssumption DEF Stale, Item
<1> QED
  BY <1>2, <1>5, <1>6, <1>7 DEF Hit, Found

\* A client that repeats its request in the replay window is not taken for
\* one that reuses a token.
THEOREM RetriesAreServed == Spec => RetryIsNotReuse
<1>1. IndInv => [\A r, q \in Requests :
        RetryOf(r, q) /\ ~LogoutAsked(req[r].tok) => ~Reuse(r)]_vars
  BY RetryHits
<1> QED
  BY <1>1, Inductive, PTL DEF RetryIsNotReuse

-----------------------------------------------------------------------------
(* The refinement.                                                          *)

Spent == {t \in Tokens : row[t].state = "revoked"}

LEMMA CurrentIs ==
  ASSUME OneLiveToken
  PROVE  /\ \A t \in Live : Current = t
         /\ Live = {} => Current = NoToken
         /\ Live # {} => Current \in Live
BY DEF OneLiveToken, Current

LEMMA CurrentIsAfter ==
  ASSUME OneLiveToken'
  PROVE  /\ \A t \in Live' : Current' = t
         /\ Live' = {} => Current' = NoToken
BY DEF OneLiveToken, Current

LEMMA RefinesNext ==
  ASSUME Table, Table', [Next]_vars
  PROVE  [Family!Next]_<<Current, Spent>>
<1>0. OneLiveToken /\ OneLiveToken'
  BY DEF Table
<1>1. CASE row' = row
  <2>1. Live' = Live /\ Spent' = Spent
    BY <1>1 DEF Live, Spent
  <2>2. Current' = Current
    BY <2>1 DEF Current
  <2> QED
    BY <2>1, <2>2
<1>2. CASE Login
  <2>1. PICK t \in Tokens : row' = [row EXCEPT ![t] = LiveRow(clock)]
    BY <1>2, LoginTable
  <2>2. row \in [Tokens -> Row] /\ \A u \in Tokens : row[u].state = "none"
    BY <1>2, LoginTable DEF Table, TypeOK
  <2>3. row'[t].state = "live" /\ \A u \in Tokens \ {t} : row'[u].state = "none"
    BY <2>1, <2>2 DEF LiveRow
  <2>4. Live = {} /\ Live' = {t} /\ Spent = {} /\ Spent' = {}
    BY <2>2, <2>3 DEF Live, Spent
  <2>5. Current = NoToken /\ Current' = t
    BY <1>0, <2>4, CurrentIs, CurrentIsAfter
  <2>6. Family!Open
    BY <2>4, <2>5 DEF Family!Open, Spent
  <2> QED
    BY <2>6 DEF Family!Next
<1>3. CASE \E r \in Requests : Commits(r) /\ req[r].fresh # NoToken
  <2>1. PICK r \in Requests : Commits(r) /\ req[r].fresh # NoToken
    BY <1>3
  <2> DEFINE new == req[r].fresh
             old == req[r].tok
  <2>2. /\ new \in Tokens /\ old \in Tokens
        /\ row[new].state = "none" /\ row[old].state = "live"
        /\ row'[new] = LiveRow(req[r].now) /\ row'[old].state = "revoked"
        /\ \A t \in Tokens \ {new, old} : row'[t] = row[t]
    BY <2>1, CommitTable
  <2>3. LiveRow(req[r].now).state = "live"
    BY DEF LiveRow
  <2> HIDE DEF new, old
  <2>4. old \in Live /\ new \in Live' /\ new \notin Spent \cup {old}
    BY <2>2, <2>3 DEF Live, Spent
  <2>5. Current = old /\ Current' = new
    BY <1>0, <2>4, CurrentIs, CurrentIsAfter
  <2>6. Spent' = Spent \cup {old}
    BY <2>2, <2>3 DEF Spent
  <2>7. old # NoToken
    BY <2>2, RotationCacheAssumption
  <2>8. Family!Replace
    BY <2>2, <2>4, <2>5, <2>6, <2>7 DEF Family!Replace, Spent
  <2> QED
    BY <2>8 DEF Family!Next
<1>4. CASE \E r \in Requests : LogoutRevoke(r) /\ row' # row
  <2>1. PICK r \in Requests : LogoutRevoke(r) /\ row' # row
    BY <1>4
  <2> DEFINE old == req[r].tok
  <2>2. /\ old \in Tokens /\ row[old].state = "live"
        /\ row'[old].state = "revoked"
        /\ \A t \in Tokens \ {old} : row'[t] = row[t]
    BY <2>1, LogoutTable
  <2> HIDE DEF old
  <2>3. old \in Live /\ Live' = {} /\ Spent' = Spent \cup {old}
    BY <1>0, <2>2 DEF OneLiveToken, Live, Spent
  <2>4. Current = old /\ Current' = NoToken
    BY <1>0, <2>3, CurrentIs, CurrentIsAfter
  <2>5. old # NoToken
    BY <2>2, RotationCacheAssumption
  <2>6. Family!End
    BY <2>3, <2>4, <2>5 DEF Family!End, Spent
  <2> QED
    BY <2>6 DEF Family!Next
<1>5. CASE \E r \in Requests : Arrive(r) \/ Work(r)
  <2>1. PICK r \in Requests : Arrive(r) \/ Work(r)
    BY <1>5
  <2>2. CASE Commits(r)
    BY <1>1, <1>3, <2>2, CommitTable
  <2>3. CASE LogoutRevoke(r)
    BY <1>1, <1>4, <2>3
  <2>4. CASE Quiet(r) \/ Arrive(r) \/ Rotate(r) \/ LogoutPurge(r)
    BY <1>1, <2>4, QuietTable DEF Rotate, LogoutPurge
  <2> QED
    BY <2>1, <2>2, <2>3, <2>4, WorkCases
<1>6. CASE (\E i \in Instances : Stop(i)) \/ Tick \/ UNCHANGED vars
  BY <1>1, <1>6 DEF Stop, Tick, vars, table
<1> QED
  BY <1>2, <1>5, <1>6, NextCases

\* Rotation is linear: each token is replaced once, by a token never used
\* before, and what was replaced or logged out never comes back.
THEOREM ImplementsTheFamily == Spec => ImplementsTokenFamily
<1>1. Init => Family!Init
  <2>1. Init => Live = {} /\ Spent = {}
    BY DEF Init, NoRow, Live, Spent
  <2>2. Init => Current = NoToken
    BY <2>1 DEF Current
  <2> QED
    BY <2>1, <2>2 DEF Family!Init, Spent
<1>2. IndInv => Table
  BY DEF IndInv, Table
<1>3. IndInv /\ IndInv' /\ [Next]_vars => [Family!Next]_<<Current, Spent>>
  BY RefinesNext DEF IndInv, Table
<1>4. Family!family = <<Current, Spent>>
  BY DEF Family!family, Spent
<1>5. IndInv /\ IndInv' /\ [Next]_vars => [Family!Next]_(Family!family)
  BY <1>3, <1>4 DEF Family!family, Spent
<1> QED
  BY <1>1, <1>5, Inductive, PTL DEF Spec, ImplementsTokenFamily, Family!Spec

-----------------------------------------------------------------------------
(* The pairs that clients have received.                                    *)

\* The pair is in the table, or its rotation was undone.
Fit(t) == row[t].state # "none" \/ Stranded(t)

\* q's rotation is the last one of its token, committed or about to be.
Latest(q) ==
  /\ req[q].fresh # NoToken
  /\ pc[q] = "commit" \/ row[req[q].tok].next = req[q].fresh

\* A request that has not been answered has no answer.
AnswersAtTheEnd == \A r \in Requests : pc[r] # "done" => req[r].answer = ""

\* A request is about to answer with its own token, or with a pair that is fit.
AnswersFit ==
  \A r \in Requests : pc[r] = "commit" => req[r].pair = req[r].fresh \/ Fit(req[r].pair)

\* An item of a replay cache comes from a rotation that its process served.
ItemsFromRotations ==
  \A i \in Instances, t \in Tokens : replay[i][t] # NoItem =>
    \E q \in Requests : /\ req[q].fresh = replay[i][t].pair
                        /\ req[q].inst = i /\ req[q].tok = t

\* A rotation that is over is in the table, unless it was not confirmed.
RotationsEnd ==
  \A q \in Requests : req[q].fresh # NoToken /\ pc[q] = "done" =>
    row[req[q].fresh].state # "none" \/ req[q].answer \in {"error", "lost"}

\* p replaced the token.
ReplacedBy(t, p) == req[p].fresh # NoToken /\ req[p].tok = t /\ row[t].next = req[p].fresh

\* A revoked token was replaced or logged out: a family is never revoked.
RevokedBySomebody ==
  \A t \in Tokens : row[t].state = "revoked" =>
    LogoutAsked(t) \/ \E p \in Requests : ReplacedBy(t, p)

\* The cache of its process knows no other rotation than the last one.
ItemsAreLatest ==
  \A q \in Requests : Latest(q) =>
    LET item == replay[req[q].inst][req[q].tok] IN
    item = NoItem \/ item.pair = req[q].fresh

PairsInv ==
  AnswersAtTheEnd /\ AnswersFit /\ ItemsFromRotations /\ RotationsEnd /\ RevokedBySomebody
  /\ ItemsAreLatest /\ PairsCommitted

-----------------------------------------------------------------------------
\* What is fit stays so.
LEMMA FitStays ==
  ASSUME Table, AnswersAtTheEnd, [Next]_vars, NEW t \in Tokens, Fit(t)
  PROVE  Fit(t)'
<1>1. CASE row[t].state # "none"
  BY <1>1, RowsKept DEF Fit
<1>2. CASE Stranded(t)
  <2>1. PICK q \in Requests :
          /\ req[q].fresh = t
          /\ req[q].answer \in {"error", "lost"}
          /\ \/ LogoutAsked(req[q].tok)
             \/ \E p \in Requests : /\ req[p].inst # req[q].inst
                                    /\ req[p].fresh # NoToken
                                    /\ row[req[q].tok].next = req[p].fresh
    BY <1>2 DEF Stranded
  <2>2. t # NoToken /\ pc[q] = "done"
    BY <2>1, RotationCacheAssumption DEF AnswersAtTheEnd
  <2>3. req'[q] = req[q]
    BY <2>1, <2>2, DrawnKept
  <2>4. req[q].tok \in Tokens
    BY <2>1, <2>2, OwedType
  <2>5. CASE LogoutAsked(req[q].tok)
    <3>1. PICK tok \in Tokens : tok = req[q].tok
      BY <2>4
    <3>2. LogoutAsked(tok)'
      BY <2>5, <3>1, LogoutStays
    <3>3. \E l \in Requests : req'[l].tok = tok /\ req'[l].key = NoKey
      BY <3>2 DEF LogoutAsked
    <3>4. LogoutAsked(req[q].tok)'
      BY <2>3, <3>1, <3>3 DEF LogoutAsked
    <3> QED
      BY <2>1, <2>3, <3>4 DEF Fit, Stranded
  <2>6. ASSUME NEW p \in Requests, req[p].inst # req[q].inst, req[p].fresh # NoToken,
               row[req[q].tok].next = req[p].fresh
        PROVE  Fit(t)'
    <3>1. req'[p].inst = req[p].inst /\ req'[p].fresh = req[p].fresh
      BY <2>6, DrawnKept
    <3>2. row'[req[q].tok].next = req[p].fresh
      BY <2>4, <2>6, RowsKept
    <3> QED
      BY <2>1, <2>3, <2>6, <3>1, <3>2 DEF Fit, Stranded
  <2> QED
    BY <2>1, <2>5, <2>6
<1> QED
  BY <1>1, <1>2 DEF Fit

LEMMA AnswersStayAtTheEnd ==
  ASSUME Table, AnswersAtTheEnd, [Next]_vars
  PROVE  AnswersAtTheEnd'
<1>0. TypeOK
  BY DEF Table
<1>1. CASE Login \/ Tick \/ UNCHANGED vars
  BY <1>1 DEF Login, Tick, vars, AnswersAtTheEnd
<1>2. CASE \E i \in Instances : Stop(i)
  BY <1>0, <1>2, Stopped DEF AnswersAtTheEnd
<1>3. CASE \E r \in Requests : Arrive(r) \/ Work(r)
  <2>1. PICK r \in Requests : Arrive(r) \/ Work(r)
    BY <1>3
  <2>2. pc'[r] # "done" => pc[r] # "done" /\ req'[r].answer = req[r].answer
    <3>0. req \in [Requests -> Request] /\ pc \in [Requests -> PCs]
      BY <1>0 DEF TypeOK
    <3>1. CASE Arrive(r)
      <4>1. pc[r] = "idle"
        BY <3>1 DEF Arrive, Refresh, Logout, Step
      <4>2. req'[r].answer = req[r].answer
        <5>1. CASE Refresh(r)
          <6>1. PICK i \in up, t \in known, k \in Keys :
                  req' = [req EXCEPT ![r].inst = i, ![r].tok = t, ![r].key = k, ![r].now = clock]
            BY <5>1 DEF Refresh
          <6> QED
            BY <3>0, <6>1 DEF Request
        <5>2. CASE Logout(r)
          <6>1. PICK i \in up, t \in known :
                  req' = [req EXCEPT ![r].inst = i, ![r].tok = t, ![r].now = clock]
            BY <5>2 DEF Logout
          <6> QED
            BY <3>0, <6>1 DEF Request
        <5> QED
          BY <3>1, <5>1, <5>2 DEF Arrive
      <4> QED
        BY <4>1, <4>2
    <3>2. CASE Select(r) \/ Rotate(r) \/ Replay(r) \/ Reuse(r)
      <4>1. pc[r] \in {"select", "branch"}
        BY <3>2 DEF Select, Rotate, Replay, Reuse, Step
      <4>2. req'[r].answer = req[r].answer
        <5>1. CASE Select(r)
          BY <3>0, <5>1 DEF Select, Request
        <5>2. CASE Rotate(r)
          <6>1. PICK t \in Tokens : req' = [req EXCEPT ![r].fresh = t, ![r].pair = t]
            BY <5>2 DEF Rotate
          <6> QED
            BY <3>0, <6>1 DEF Request
        <5>3. CASE Replay(r)
          BY <3>0, <5>3 DEF Replay, Request
        <5>4. CASE Reuse(r)
          BY <3>0, <5>4 DEF Reuse, Request
        <5> QED
          BY <3>2, <5>1, <5>2, <5>3, <5>4
      <4> QED
        BY <4>1, <4>2
    <3>3. CASE RevokeFamily(r) \/ RevokeFamilyFails(r) \/ LogoutRevoke(r)
      BY <3>0, <3>3 DEF RevokeFamily, RevokeFamilyFails, LogoutRevoke, Step
    <3>4. CASE SelectNothing(r) \/ AnswerExpired(r) \/ AnswerReused(r) \/ Commits(r) \/ Fail(r)
               \/ LogoutPurge(r)
      BY <3>0, <3>4 DEF SelectNothing, AnswerExpired, AnswerReused, Commits, Commit,
                        CommitReplyLost, Fail, LogoutPurge, Answer, Step
    <3> QED
      BY <2>1, <3>1, <3>2, <3>3, <3>4 DEF Work, Serve, Disturb, Commits
  <2> QED
    BY <1>0, <2>1, <2>2, OthersUnchanged DEF AnswersAtTheEnd
<1> QED
  BY <1>1, <1>2, <1>3, NextCases

\* The pair of a replay is in the table or stranded.  The rotation q that left
\* the item is over, since its token is locked by r; and if it was undone, the
\* token was revoked by a logout, or by a rotation elsewhere: one of this
\* process would have left its own item.
LEMMA ReplayedIsFit ==
  ASSUME Table, PairsInv, NEW r \in Requests, Replay(r)
  PROVE  Fit(replay[req[r].inst][req[r].tok].pair)
<1> DEFINE i == req[r].inst
           tok == req[r].tok
           t == replay[i][tok].pair
<1>0. TypeOK /\ pc[r] = "branch" /\ req[r].row.state = "revoked" /\ Hit(r)
  BY DEF Table, Replay, Step
<1>1. i \in Instances /\ tok \in Tokens
  BY <1>0 DEF Table, Arrivals
<1>2. rowLock[tok] = r /\ row[tok].state = "revoked"
  BY <1>0 DEF Table, RowsHeld, InTransaction
<1>3. replay[i][tok] # NoItem /\ t \in Tokens
  BY <1>0, <1>1, HitPair DEF Hit, Found
<1>4. PICK q \in Requests : req[q].fresh = t /\ req[q].inst = i /\ req[q].tok = tok
  BY <1>1, <1>3 DEF PairsInv, ItemsFromRotations
<1>5. t # NoToken
  BY <1>3, RotationCacheAssumption
<1>6. pc[q] = "done"
  <2>1. pc[q] \in {"commit", "done"}
    BY <1>4, <1>5, OwedType
  <2>2. pc[q] = "commit" => rowLock[tok] = q
    BY <1>4 DEF Table, RowsHeld, InTransaction
  <2> QED
    BY <1>0, <1>2, <2>1, <2>2
<1>7. CASE req[q].answer \in {"error", "lost"}
  <2>1. CASE LogoutAsked(tok)
    BY <1>4, <1>7, <2>1 DEF Fit, Stranded
  <2>2. ASSUME NEW p \in Requests, ReplacedBy(tok, p)
        PROVE  Fit(t)
    <3>1. req[p].fresh # NoToken /\ req[p].tok = tok /\ row[tok].next = req[p].fresh
      BY <2>2 DEF ReplacedBy
    <3>2. CASE req[p].inst # i
      BY <1>4, <1>7, <3>1, <3>2 DEF Fit, Stranded
    <3>3. CASE req[p].inst = i
      <4>1. t = req[p].fresh
        BY <1>3, <3>1, <3>3 DEF PairsInv, ItemsAreLatest, Latest
      <4>2. row[t].state # "none"
        BY <1>1, <1>5, <3>1, <4>1 DEF Table, RowsLinked
      <4> QED
        BY <4>2 DEF Fit
    <3> QED
      BY <3>2, <3>3
  <2> QED
    BY <1>1, <1>2, <2>1, <2>2 DEF PairsInv, RevokedBySomebody
<1>8. CASE row[t].state # "none"
  BY <1>8 DEF Fit
<1> QED
  BY <1>4, <1>5, <1>6, <1>7, <1>8 DEF PairsInv, RotationsEnd

LEMMA AnswersStayFit ==
  ASSUME Table, PairsInv, [Next]_vars
  PROVE  AnswersFit'
<1>0. TypeOK
  BY DEF Table
<1> SUFFICES ASSUME NEW q \in Requests, pc'[q] = "commit"
             PROVE  (req[q].pair = req[q].fresh \/ Fit(req[q].pair))'
  BY DEF AnswersFit
<1>1. CASE pc[q] = "commit" /\ req'[q] = req[q]
  <2>1. PICK t \in Tokens : req[q].pair = t
    BY <1>1 DEF Table, Arrivals
  <2>2. Fit(t) => Fit(t)'
    BY FitStays DEF PairsInv
  <2>3. req'[q].pair = t /\ req'[q].fresh = req[q].fresh
    BY <1>1, <2>1
  <2>4. Fit(t)' => Fit(req[q].pair)'
    BY <2>3 DEF Fit, Stranded
  <2>5. t = req[q].fresh \/ Fit(t)
    BY <1>1, <2>1 DEF PairsInv, AnswersFit
  <2> QED
    BY <2>2, <2>3, <2>4, <2>5
<1>2. ASSUME Rotate(q)
      PROVE  req'[q].pair = req'[q].fresh
  <2>1. PICK t : req' = [req EXCEPT ![q].fresh = t, ![q].pair = t]
    BY <1>2 DEF Rotate
  <2> QED
    BY <1>0, <2>1 DEF TypeOK, Request
<1>3. ASSUME Replay(q)
      PROVE  Fit(req[q].pair)'
  <2>1. PICK t \in Tokens : t = replay[req[q].inst][req[q].tok].pair
    <3>1. req[q].inst \in Instances /\ req[q].tok \in Tokens /\ Hit(q)
      BY <1>3 DEF Replay, Step, Table, Arrivals
    <3> QED
      BY <1>0, <3>1, HitPair
  <2>2. req'[q].pair = t
    BY <1>0, <1>3, <2>1 DEF Replay, TypeOK, Request
  <2>3. Fit(t)
    BY <1>3, <2>1, ReplayedIsFit
  <2>4. Fit(t)'
    BY <2>3, FitStays DEF PairsInv
  <2> QED
    BY <2>2, <2>4 DEF Fit, Stranded
<1>4. CASE \E r \in Requests : Arrive(r) \/ Work(r)
  <2>1. PICK r \in Requests : Arrive(r) \/ Work(r)
    BY <1>4
  <2>2. CASE q # r
    BY <1>0, <1>1, <2>1, <2>2, OthersUnchanged
  <2>3. CASE q = r
    <3>1. ~Arrive(r)
      BY <2>3, ArrivalsArrive DEF Table
    <3> QED
      BY <1>0, <1>2, <1>3, <2>1, <2>3, <3>1, Moves
  <2> QED
    BY <2>2, <2>3
<1>5. CASE \E i \in Instances : Stop(i)
  BY <1>0, <1>1, <1>5, Stopped
<1>6. CASE Login \/ Tick \/ UNCHANGED vars
  BY <1>1, <1>6 DEF Login, Tick, vars
<1> QED
  BY <1>4, <1>5, <1>6, NextCases

\* What a step leaves in the caches: the items of a rotation, and others' items
\* or nothing.
LEMMA ItemsKept ==
  ASSUME Table, [Next]_vars, NEW i \in Instances, NEW t \in Tokens
  PROVE  \/ replay'[i][t] \in {NoItem, replay[i][t]}
         \/ \E r \in Requests : /\ Rotate(r) /\ req[r].inst = i /\ req[r].tok = t
                                /\ replay'[i][t].pair = req'[r].fresh
<1>0. TypeOK
  BY DEF Table
<1>1. ASSUME NEW r \in Requests, Rotate(r)
      PROVE  \/ replay'[i][t] \in {NoItem, replay[i][t]}
             \/ /\ Rotate(r) /\ req[r].inst = i /\ req[r].tok = t
                /\ replay'[i][t].pair = req'[r].fresh
  <2>1. PICK x \in Tokens \ drawn :
          /\ req' = [req EXCEPT ![r].fresh = x, ![r].pair = x]
          /\ replay' = [replay EXCEPT ![req[r].inst] =
                          Put(@, req[r].tok, req[r].key, x, req[r].now)]
    BY <1>1 DEF Rotate
  <2>2. req'[r].fresh = x
    BY <1>0, <2>1 DEF TypeOK, Request
  <2>3. CASE req[r].inst # i
    BY <1>0, <2>1, <2>3 DEF TypeOK
  <2>4. CASE req[r].inst = i
    <3> DEFINE items == replay[i]
    <3>1. replay'[i] = Put(items, req[r].tok, req[r].key, x, req[r].now)
      BY <1>0, <2>1, <2>4 DEF TypeOK
    <3> HIDE DEF items
    <3>2. CASE req[r].tok = t
      BY <1>1, <2>2, <2>4, <3>1, <3>2 DEF Put
    <3>3. CASE req[r].tok # t
      <4>1. replay'[i][t] \in {NoItem, items[t]}
        BY <3>1, <3>3 DEF Put
      <4> QED
        BY <4>1 DEF items
    <3> QED
      BY <3>2, <3>3
  <2> QED
    BY <2>3, <2>4
<1>2. ASSUME NEW r \in Requests, LogoutPurge(r)
      PROVE  replay'[i][t] \in {NoItem, replay[i][t]}
  BY <1>0, <1>2 DEF LogoutPurge, Delete, TypeOK
<1>3. CASE \E r \in Requests : Arrive(r) \/ Work(r)
  <2>1. PICK r \in Requests : Arrive(r) \/ Work(r)
    BY <1>3
  <2>2. Rotate(r) \/ LogoutPurge(r) \/ replay' = replay
    BY <2>1, WorkCases, QuietTable, CommitTable, LogoutTable
  <2> QED
    BY <1>1, <1>2, <2>1, <2>2
<1>4. CASE ~\E r \in Requests : Arrive(r) \/ Work(r)
  BY <1>4, NextCases DEF Login, Stop, Tick, vars
<1> QED
  BY <1>3, <1>4

LEMMA ItemsStayFromRotations ==
  ASSUME Table, PairsInv, [Next]_vars
  PROVE  ItemsFromRotations'
<1> SUFFICES ASSUME NEW i \in Instances, NEW t \in Tokens, replay'[i][t] # NoItem
             PROVE  \E q \in Requests : /\ req'[q].fresh = replay'[i][t].pair
                                        /\ req'[q].inst = i /\ req'[q].tok = t
  BY DEF ItemsFromRotations
<1>1. CASE replay'[i][t] = replay[i][t]
  <2>1. PICK q \in Requests : /\ req[q].fresh = replay[i][t].pair
                              /\ req[q].inst = i /\ req[q].tok = t
    BY <1>1 DEF PairsInv, ItemsFromRotations
  <2>2. replay[i][t].pair \in Tokens
    BY <1>1 DEF Table, TypeOK, CachedRotation
  <2>3. req[q].fresh # NoToken
    BY <2>1, <2>2, RotationCacheAssumption
  <2> QED
    BY <1>1, <2>1, <2>3, DrawnKept
<1>2. ASSUME NEW r \in Requests, Rotate(r), req[r].inst = i, req[r].tok = t,
             replay'[i][t].pair = req'[r].fresh
      PROVE  req'[r].inst = i /\ req'[r].tok = t
  BY <1>2, ArgumentsKept DEF Work, Serve, Table
<1> QED
  BY <1>1, <1>2, ItemsKept

LEMMA ItemsStayLatest ==
  ASSUME Table, PairsInv, [Next]_vars
  PROVE  ItemsAreLatest'
<1>0. TypeOK
  BY DEF Table
<1> SUFFICES ASSUME NEW q \in Requests, Latest(q)'
             PROVE  \/ replay'[req'[q].inst][req'[q].tok] = NoItem
                    \/ replay'[req'[q].inst][req'[q].tok].pair = req'[q].fresh
  BY DEF ItemsAreLatest, Latest
<1>1. CASE req[q].fresh = NoToken
  <2>1. Rotate(q)
    <3>1. PICK r \in Requests : Arrive(r) \/ Work(r)
      <4>1. req'[q].fresh # NoToken
        BY DEF Latest
      <4>2. CASE Login \/ Tick \/ UNCHANGED vars
        BY <1>1, <4>1, <4>2 DEF Login, Tick, vars
      <4>3. CASE \E i \in Instances : Stop(i)
        BY <1>0, <1>1, <4>1, <4>3, StoppedFields
      <4> QED
        BY <4>2, <4>3, NextCases
    <3>2. q = r
      BY <1>0, <1>1, <3>1, OthersUnchanged DEF Latest
    <3>3. ~Arrive(r)
      BY <3>2, ArrivalsArrive DEF Table, Latest
    <3> QED
      BY <1>0, <1>1, <3>1, <3>2, <3>3, ArgumentsKept DEF Latest
  <2>2. PICK x \in Tokens \ drawn :
          /\ req' = [req EXCEPT ![q].fresh = x, ![q].pair = x]
          /\ replay' = [replay EXCEPT ![req[q].inst] =
                          Put(@, req[q].tok, req[q].key, x, req[q].now)]
    BY <2>1 DEF Rotate
  <2>3. req[q].inst \in Instances /\ req[q].tok \in Tokens
    BY <2>1 DEF Rotate, Step, Table, Arrivals
  <2>4. req'[q].fresh = x /\ req'[q].inst = req[q].inst /\ req'[q].tok = req[q].tok
    BY <1>0, <2>2 DEF TypeOK, Request
  <2>5. replay'[req[q].inst][req[q].tok].pair = x
    <3>1. replay[req[q].inst] \in [Tokens -> CachedRotation]
      BY <1>0, <2>3 DEF TypeOK
    <3>2. Put(replay[req[q].inst], req[q].tok, req[q].key, x, req[q].now)[req[q].tok] =
            [key |-> req[q].key, pair |-> x, expires |-> req[q].now + ReplayTTL]
      BY <2>3, <3>1, PutItems
    <3>3. replay'[req[q].inst] = Put(replay[req[q].inst], req[q].tok, req[q].key, x, req[q].now)
      BY <1>0, <2>2, <2>3 DEF TypeOK
    <3> QED
      BY <3>2, <3>3
  <2> QED
    BY <2>4, <2>5
<1>2. CASE req[q].fresh # NoToken
  <2>1. req'[q].inst = req[q].inst /\ req'[q].tok = req[q].tok /\ req'[q].fresh = req[q].fresh
    BY <1>2, DrawnKept
  <2>2. req[q].inst \in Instances /\ req[q].tok \in Tokens
    BY <1>2, OwedType
  <2> DEFINE item == replay[req[q].inst][req[q].tok]
  <2>3. Latest(q)
    BY <1>2, <2>1, LatestBefore DEF Latest
  <2>4. item = NoItem \/ item.pair = req[q].fresh
    BY <2>3 DEF PairsInv, ItemsAreLatest
  <2>5. ~\E r \in Requests : Rotate(r) /\ req[r].tok = req[q].tok
    <3> SUFFICES ASSUME NEW r \in Requests, Rotate(r), req[r].tok = req[q].tok
                 PROVE  FALSE
      OBVIOUS
    <3>1. pc[r] = "branch" /\ req[r].row.state = "live"
      BY DEF Rotate, Step
    <3>2. rowLock[req[q].tok] = r /\ row[req[q].tok].state = "live"
      BY <3>1 DEF Table, RowsHeld, InTransaction
    <3>3. pc[q] = "commit" => rowLock[req[q].tok] = q
      BY DEF Table, RowsHeld, InTransaction
    <3>4. row[req[q].tok].next = req[q].fresh => row[req[q].tok].state = "revoked"
      BY <1>2, <2>2 DEF Table, RowsLinked
    <3> QED
      BY <2>3, <3>1, <3>2, <3>3, <3>4 DEF Latest
  <2>6. replay'[req[q].inst][req[q].tok] \in {NoItem, item}
    BY <2>2, <2>5, ItemsKept
  <2> QED
    BY <2>1, <2>4, <2>6
<1> QED
  BY <1>1, <1>2

LEMMA RotationsStayEnded ==
  ASSUME Table, PairsInv, [Next]_vars
  PROVE  RotationsEnd'
<1>0. TypeOK
  BY DEF Table
<1> SUFFICES ASSUME NEW q \in Requests, req'[q].fresh # NoToken, pc'[q] = "done"
             PROVE  row'[req'[q].fresh].state # "none" \/ req'[q].answer \in {"error", "lost"}
  BY DEF RotationsEnd
<1>1. CASE req[q].fresh = NoToken
  <2>1. CASE Login \/ Tick \/ UNCHANGED vars
    BY <1>1, <2>1 DEF Login, Tick, vars
  <2>2. CASE \E i \in Instances : Stop(i)
    BY <1>0, <1>1, <2>2, StoppedFields
  <2>3. ASSUME NEW r \in Requests, Arrive(r) \/ Work(r)
        PROVE  FALSE
    <3>1. q = r
      BY <1>0, <1>1, <2>3, OthersUnchanged
    <3>2. ~Arrive(r)
      BY <3>1, ArrivalsArrive DEF Table
    <3>3. ~Rotate(r)
      BY <1>0, <3>1 DEF Rotate, Step, TypeOK
    <3> QED
      BY <1>0, <1>1, <2>3, <3>1, <3>2, <3>3, ArgumentsKept
  <2> QED
    BY <2>1, <2>2, <2>3, NextCases
<1>2. CASE req[q].fresh # NoToken
  <2>1. req'[q].fresh = req[q].fresh /\ req[q].fresh \in Tokens /\ pc[q] \in {"commit", "done"}
    BY <1>2, DrawnKept, OwedType
  <2>2. row[req[q].fresh].state # "none" => row'[req[q].fresh].state # "none"
    BY <2>1, RowsKept
  <2>3. CASE pc[q] = "done"
    BY <1>2, <2>1, <2>2, <2>3, DrawnKept DEF PairsInv, RotationsEnd
  <2>4. CASE pc[q] = "commit"
    <3>1. CASE Login \/ Tick \/ UNCHANGED vars
      BY <2>4, <3>1 DEF Login, Tick, vars
    <3>2. CASE \E i \in Instances : Stop(i)
      <4>1. req'[q] = [req[q] EXCEPT !.answer = "lost"]
        BY <1>0, <2>4, <3>2, Stopped
      <4> QED
        BY <1>0, <4>1 DEF TypeOK, Request
    <3>3. ASSUME NEW r \in Requests, Arrive(r) \/ Work(r)
          PROVE  row'[req[q].fresh].state # "none" \/ req'[q].answer \in {"error", "lost"}
      <4>1. q = r /\ Work(r)
        <5>1. q = r
          BY <1>0, <2>4, <3>3, OthersUnchanged
        <5> QED
          BY <2>4, <3>3, <5>1 DEF Arrive, Refresh, Logout, Step
      <4>2. CASE Commits(r)
        <5>1. row'[req[r].fresh] = LiveRow(req[r].now)
          BY <1>2, <4>1, <4>2, CommitTable
        <5> QED
          BY <4>1, <5>1 DEF LiveRow
      <4>3. CASE Fail(r)
        <5>1. req' = [req EXCEPT ![r].answer = "error"]
          BY <4>3 DEF Fail, Answer
        <5> QED
          BY <1>0, <4>1, <5>1 DEF TypeOK, Request
      <4>4. CASE ~Commits(r) /\ ~Fail(r)
        BY <2>4, <4>1, <4>4 DEF Work, Serve, Disturb, Commits, Select, SelectNothing,
             AnswerExpired, Rotate, Replay, Reuse, RevokeFamily, RevokeFamilyFails, AnswerReused,
             LogoutRevoke, LogoutPurge, Step, Answer
      <4> QED
        BY <4>2, <4>3, <4>4
    <3> QED
      BY <2>1, <3>1, <3>2, <3>3, NextCases
  <2> QED
    BY <2>1, <2>3, <2>4
<1> QED
  BY <1>1, <1>2

LEMMA RevocationsExplained ==
  ASSUME Table, PairsInv, [Next]_vars
  PROVE  RevokedBySomebody'
<1>0. TypeOK
  BY DEF Table
<1> SUFFICES ASSUME NEW t \in Tokens, row'[t].state = "revoked"
             PROVE  LogoutAsked(t)' \/ \E p \in Requests : ReplacedBy(t, p)'
  BY DEF RevokedBySomebody
<1>1. CASE row[t].state = "revoked"
  <2>1. LogoutAsked(t) => LogoutAsked(t)'
    BY LogoutStays
  <2>2. ASSUME NEW p \in Requests, ReplacedBy(t, p)
        PROVE  ReplacedBy(t, p)'
    BY <2>2, DrawnKept, RowsKept DEF ReplacedBy
  <2> QED
    BY <1>1, <2>1, <2>2 DEF PairsInv, RevokedBySomebody
<1>2. CASE row[t].state # "revoked"
  <2>1. ASSUME NEW r \in Requests, Commits(r)
        PROVE  ReplacedBy(t, r)'
    <3>1. req[r].fresh # NoToken
      BY <1>2, <2>1, CommitTable
    <3>2. /\ row'[req[r].fresh] = LiveRow(req[r].now)
          /\ row'[req[r].tok].next = req[r].fresh
          /\ \A x \in Tokens \ {req[r].fresh, req[r].tok} : row'[x] = row[x]
      BY <2>1, <3>1, CommitTable
    <3>3. t = req[r].tok
      BY <1>2, <3>2 DEF LiveRow
    <3> QED
      BY <3>1, <3>2, <3>3, DrawnKept DEF ReplacedBy
  <2>2. ASSUME NEW r \in Requests, LogoutRevoke(r)
        PROVE  LogoutAsked(t)'
    <3>1. t = req[r].tok
      BY <1>2, <2>2, LogoutTable
    <3>2. req[r].key = NoKey
      BY <2>2 DEF LogoutRevoke, Step, Table, Arrivals
    <3>3. LogoutAsked(t)
      BY <3>1, <3>2 DEF LogoutAsked
    <3> QED
      BY <3>3, LogoutStays
  <2>3. ASSUME NEW r \in Requests, Quiet(r) \/ Arrive(r) \/ LogoutPurge(r) \/ Rotate(r)
        PROVE  FALSE
    BY <1>2, <2>3, QuietTable DEF LogoutPurge, Rotate
  <2>4. CASE Login
    <3>1. PICK x \in Tokens : row' = [row EXCEPT ![x] = LiveRow(clock)]
      BY <2>4, LoginTable
    <3> QED
      BY <1>0, <1>2, <3>1 DEF TypeOK, LiveRow
  <2>5. CASE (\E i \in Instances : Stop(i)) \/ Tick \/ UNCHANGED vars
    BY <1>2, <2>5 DEF Stop, Tick, table, vars
  <2> QED
    BY <2>1, <2>2, <2>3, <2>4, <2>5, NextCases, WorkCases
<1> QED
  BY <1>1, <1>2

LEMMA KnownStaysFit ==
  ASSUME Table, PairsInv, [Next]_vars
  PROVE  PairsCommitted'
<1>0. TypeOK /\ known \subseteq Tokens
  BY DEF Table, TypeOK
<1> SUFFICES ASSUME NEW t \in known'
             PROVE  Fit(t)'
  BY DEF PairsCommitted, Fit
<1>1. CASE t \in known
  BY <1>0, <1>1, FitStays DEF PairsInv, PairsCommitted, Fit
<1>2. ASSUME NEW r \in Requests, Commit(r), t = req[r].pair
      PROVE  Fit(t)'
  <2>1. pc[r] = "commit" /\ t \in Tokens
    BY <1>2, CommitTable DEF Commits, Table, Arrivals
  <2>2. CASE Fit(t)
    BY <2>1, <2>2, FitStays DEF PairsInv
  <2>3. CASE t = req[r].fresh
    <3>1. row'[t] = LiveRow(req[r].now)
      BY <1>2, <2>1, <2>3, CommitTable, RotationCacheAssumption DEF Commits
    <3> QED
      BY <3>1 DEF LiveRow, Fit
  <2> QED
    BY <1>2, <2>1, <2>2, <2>3 DEF PairsInv, AnswersFit
<1>3. CASE Login
  <2>1. PICK x \in Tokens : known' = {x} /\ row' = [row EXCEPT ![x] = LiveRow(clock)]
    BY <1>3 DEF Login
  <2> QED
    BY <1>0, <2>1 DEF TypeOK, LiveRow, Fit
<1>4. ASSUME NEW r \in Requests, Arrive(r) \/ Work(r), ~Commit(r)
      PROVE  known' = known
  BY <1>4 DEF Arrive, Refresh, Logout, Work, Serve, Disturb, Select, SelectNothing,
       AnswerExpired, Rotate, Replay, Reuse, RevokeFamily, RevokeFamilyFails, AnswerReused,
       CommitReplyLost, Fail, LogoutRevoke, LogoutPurge
<1>5. ASSUME NEW r \in Requests, Commit(r)
      PROVE  known' = known \cup {req[r].pair}
  BY <1>5 DEF Commit
<1>6. CASE (\E i \in Instances : Stop(i)) \/ Tick \/ UNCHANGED vars
  BY <1>1, <1>6 DEF Stop, Tick, vars
<1> QED
  BY <1>1, <1>2, <1>3, <1>4, <1>5, <1>6, NextCases

LEMMA PairsInvInit ==
  ASSUME Init
  PROVE  PairsInv
<1>1. \A i \in Instances, t \in Tokens : replay[i][t] = NoItem
  BY DEF Init, EmptyCache
<1>2. \A r \in Requests : req[r].fresh = NoToken /\ req[r].answer = "" /\ pc[r] = "idle"
  BY DEF Init, NotArrived
<1>3. known = {} /\ \A t \in Tokens : row[t].state = "none"
  BY DEF Init, NoRow
<1> QED
  BY <1>1, <1>2, <1>3
     DEF PairsInv, AnswersAtTheEnd, AnswersFit, ItemsFromRotations, RotationsEnd,
         RevokedBySomebody, ItemsAreLatest, Latest, PairsCommitted

\* Every pair that a client has received is in the table, or its rotation was
\* undone and its parent revoked by a logout or by another process: of any number
\* of requests, processes and keys (auth.go:283-345).
THEOREM PairsAreCommitted == Spec => []PairsCommitted
<1>1. Init => PairsInv
  BY PairsInvInit
<1>2. IndInv /\ PairsInv /\ [Next]_vars => PairsInv'
  BY AnswersStayAtTheEnd, AnswersStayFit, ItemsStayFromRotations, ItemsStayLatest,
     RotationsStayEnded, RevocationsExplained, KnownStaysFit
     DEF PairsInv, IndInv, Table
<1>3. PairsInv => PairsCommitted
  BY DEF PairsInv
<1> QED
  BY <1>1, <1>2, <1>3, Inductive, PTL DEF Spec
-----------------------------------------------------------------------------
(* Who waits for whom.                                                      *)

\* r waits for a row that q has locked: SELECT ... FOR UPDATE of its token, the
\* UPDATE of the live rows of its family, or the UPDATE of a logout.
WaitsFor(r, q) ==
  /\ q # r
  /\ \/ pc[r] = "select" /\ rowLock[req[r].tok] = q
     \/ pc[r] = "family" /\ \E t \in req[r].wanted \cap Live : rowLock[t] = q
     \/ pc[r] = "logout" /\ req[r].tok \in Live /\ rowLock[req[r].tok] = q

\* Only a transaction holds a lock: that of the row it has read, until it locks
\* its family; and it began to lock the family because that row was revoked.
LocksOwned ==
  /\ \A t \in Tokens, r \in Requests : rowLock[t] = r =>
       InTransaction(r) /\ (t = req[r].tok \/ pc[r] = "rollback")
  /\ \A r \in Requests : pc[r] = "family" => req[r].row.state = "revoked"

\* Row locks deadlock nobody: who waits waits for a transaction, and that one
\* either waits for nobody or, to revoke its family, for one that waits for
\* nobody.
HoldersGetOn ==
  \A r, q \in Requests : WaitsFor(r, q) =>
    /\ InTransaction(q)
    /\ \A p \in Requests : WaitsFor(q, p) =>
         InTransaction(p) /\ \A o \in Requests : ~WaitsFor(p, o)

\* What an action does to the locks of the request that acts.
LEMMA OwnLocks ==
  ASSUME TypeOK, Arrivals, LocksOwned, NEW r \in Requests, Arrive(r) \/ Work(r),
         NEW t \in Tokens, rowLock'[t] = r
  PROVE  /\ req'[r].tok = req[r].tok
         /\ InTransaction(r)' /\ (t = req[r].tok \/ pc'[r] = "rollback")
<1>0. r # NoRequest /\ pc \in [Requests -> PCs]
  BY RefreshRotationAssumption DEF TypeOK
<1>1. CASE Arrive(r) \/ LogoutRevoke(r)
  <2>1. pc[r] \in {"idle", "logout"} /\ rowLock[t] = r
    BY <1>1 DEF Arrive, Refresh, Logout, LogoutRevoke, Step, table
  <2> QED
    BY <2>1 DEF LocksOwned, InTransaction
<1>2. CASE Work(r) /\ ~LogoutRevoke(r)
  <2>0. req'[r].tok = req[r].tok
    BY <1>2, ArgumentsKept
  <2>1. CASE Select(r)
    <3>1. pc[r] = "select" /\ pc'[r] = "branch" /\ (t = req[r].tok \/ rowLock[t] = r)
      BY <1>0, <2>1 DEF Select, Step, TypeOK
    <3> QED
      BY <2>0, <3>1 DEF LocksOwned, InTransaction
  <2>2. CASE Rotate(r) \/ Replay(r) \/ Reuse(r)
    <3>1. pc[r] = "branch" /\ pc'[r] \in {"commit", "family"} /\ rowLock[t] = r
      BY <1>0, <2>2 DEF Rotate, Replay, Reuse, Step, table
    <3> QED
      BY <2>0, <3>1 DEF LocksOwned, InTransaction
  <2>3. CASE RevokeFamily(r) \/ RevokeFamilyFails(r)
    <3>1. pc'[r] = "rollback"
      BY <1>0, <2>3 DEF RevokeFamily, RevokeFamilyFails, Step
    <3> QED
      BY <2>0, <3>1 DEF InTransaction
  <2>4. CASE \E from, a : Answer(r, from, a)
    BY <1>0, <2>4 DEF Answer
  <2>5. CASE SelectNothing(r) \/ AnswerExpired(r) \/ AnswerReused(r)
             \/ Commits(r) \/ Fail(r) \/ LogoutPurge(r)
    BY <2>4, <2>5 DEF SelectNothing, AnswerExpired, AnswerReused, Commits, Commit,
                      CommitReplyLost, Fail, LogoutPurge
  <2> QED
    BY <1>2, <2>1, <2>2, <2>3, <2>5 DEF Work, Serve, Disturb, Commits
<1> QED
  BY <1>1, <1>2

\* A lock that another request holds after an action it held before.
LEMMA LocksOfOthers ==
  ASSUME TypeOK, NEW r \in Requests, Arrive(r) \/ Work(r),
         NEW q \in Requests \ {r}, NEW t \in Tokens, rowLock'[t] = q
  PROVE  rowLock[t] = q
<1>1. q # NoRequest
  BY RefreshRotationAssumption
<1>2. CASE Arrive(r) \/ Rotate(r) \/ Replay(r) \/ Reuse(r)
           \/ RevokeFamilyFails(r) \/ LogoutRevoke(r)
  BY <1>2 DEF Arrive, Refresh, Logout, Rotate, Replay, Reuse,
              RevokeFamilyFails, LogoutRevoke, table
<1>3. CASE Select(r) \/ RevokeFamily(r)
  BY <1>1, <1>3 DEF Select, RevokeFamily, TypeOK
<1>5. CASE \E from, a : Answer(r, from, a)
  BY <1>1, <1>5 DEF Answer, TypeOK
<1>6. CASE SelectNothing(r) \/ AnswerExpired(r) \/ AnswerReused(r)
           \/ Commits(r) \/ Fail(r) \/ LogoutPurge(r)
  BY <1>5, <1>6 DEF SelectNothing, AnswerExpired, AnswerReused, Commits, Commit,
                    CommitReplyLost, Fail, LogoutPurge
<1> QED
  BY <1>2, <1>3, <1>6 DEF Work, Serve, Disturb, Commits

\* Only Reuse begins to lock a family.
LEMMA FamilyReused ==
  ASSUME TypeOK, NEW r \in Requests, Arrive(r) \/ Work(r), pc'[r] = "family"
  PROVE  Reuse(r)
<1>1. pc \in [Requests -> PCs]
  BY DEF TypeOK
<1>2. ~Arrive(r) /\ ~Select(r) /\ ~Rotate(r) /\ ~Replay(r) /\ ~RevokeFamily(r)
      /\ ~RevokeFamilyFails(r) /\ ~LogoutRevoke(r)
  BY <1>1 DEF Arrive, Refresh, Logout, Select, Rotate, Replay, RevokeFamily, RevokeFamilyFails,
              LogoutRevoke, Step
<1>3. ~SelectNothing(r) /\ ~AnswerExpired(r) /\ ~AnswerReused(r) /\ ~Commits(r) /\ ~Fail(r)
      /\ ~LogoutPurge(r)
  BY <1>1 DEF SelectNothing, AnswerExpired, AnswerReused, Commits, Commit,
              CommitReplyLost, Fail, LogoutPurge, Answer, Step
<1> QED
  BY <1>2, <1>3 DEF Work, Serve, Disturb, Commits

LEMMA LocksOwnedNext ==
  ASSUME IndInv, LocksOwned, [Next]_vars
  PROVE  LocksOwned'
<1>0. TypeOK /\ Arrivals
  BY DEF IndInv
<1>1. ASSUME NEW r \in Requests, Arrive(r) \/ Work(r) PROVE LocksOwned'
  <2>1. ASSUME NEW t \in Tokens, NEW q \in Requests, rowLock'[t] = q
        PROVE  InTransaction(q)' /\ (t = req'[q].tok \/ pc'[q] = "rollback")
    <3>1. CASE q = r
      BY <1>0, <1>1, <2>1, <3>1, OwnLocks
    <3>2. CASE q # r
      <4>1. rowLock[t] = q /\ req'[q] = req[q] /\ pc'[q] = pc[q]
        BY <1>0, <1>1, <2>1, <3>2, LocksOfOthers, OthersUnchanged
      <4> QED
        BY <4>1 DEF LocksOwned, InTransaction
    <3> QED
      BY <3>1, <3>2
  <2>2. ASSUME NEW q \in Requests, pc'[q] = "family" PROVE req'[q].row.state = "revoked"
    <3>1. CASE q = r
      <4>1. Reuse(r)
        BY <1>0, <1>1, <2>2, <3>1, FamilyReused
      <4>2. req'[r].row = req[r].row
        BY <4>1 DEF IndInv, TypeOK, Reuse
      <4> QED
        BY <3>1, <4>1, <4>2 DEF Reuse
    <3>2. CASE q # r
      BY <1>0, <1>1, <2>2, <3>2, OthersUnchanged DEF LocksOwned
    <3> QED
      BY <3>1, <3>2
  <2> QED
    BY <2>1, <2>2 DEF LocksOwned
<1>2. ASSUME NEW i \in Instances, Stop(i) PROVE LocksOwned'
  <2>1. ASSUME NEW t \in Tokens, NEW q \in Requests, rowLock'[t] = q
        PROVE  InTransaction(q)' /\ (t = req'[q].tok \/ pc'[q] = "rollback")
    <3>1. q # NoRequest
      BY RefreshRotationAssumption
    <3>2. rowLock[t] = q /\ ~(req[q].inst = i /\ pc[q] # "done")
      BY <1>2, <2>1, <3>1 DEF Stop
    <3>3. req'[q] = req[q] /\ pc'[q] = pc[q]
      BY <1>0, <1>2, <3>2, Stopped
    <3> QED
      BY <3>2, <3>3 DEF LocksOwned, InTransaction
  <2>2. ASSUME NEW q \in Requests, pc'[q] = "family" PROVE req'[q].row.state = "revoked"
    <3>1. req'[q] = req[q] /\ pc'[q] = pc[q]
      BY <1>0, <1>2, <2>2, Stopped
    <3> QED
      BY <2>2, <3>1 DEF LocksOwned
  <2> QED
    BY <2>1, <2>2 DEF LocksOwned
<1>3. CASE Login \/ Tick \/ UNCHANGED vars
  <2>1. UNCHANGED <<rowLock, pc, req>>
    BY <1>3 DEF Login, Tick, vars, table
  <2> QED
    BY <2>1 DEF LocksOwned, InTransaction
<1> QED
  BY <1>1, <1>2, <1>3, NextCases

LEMMA WaitsEnd ==
  ASSUME IndInv, LocksOwned
  PROVE  HoldersGetOn
<1>1. ASSUME NEW r \in Requests, NEW q \in Requests, WaitsFor(r, q)
      PROVE  \E t \in Tokens : rowLock[t] = q /\ (pc[r] = "family" => t \in Live)
  <2>1. pc[r] \in {"select", "logout"} => req[r].tok \in Tokens
    BY DEF IndInv, Arrivals
  <2> QED
    BY <1>1, <2>1 DEF WaitsFor, Live
<1>2. ASSUME NEW r \in Requests, NEW q \in Requests, WaitsFor(r, q) PROVE InTransaction(q)
  BY <1>1, <1>2 DEF LocksOwned
<1>3. ASSUME NEW q \in Requests, NEW p \in Requests, NEW o \in Requests,
             InTransaction(q), WaitsFor(q, p), WaitsFor(p, o)
      PROVE  FALSE
  <2>1. pc[q] = "family" /\ pc[p] = "family"
    BY <1>2, <1>3 DEF WaitsFor, InTransaction
  <2>2. PICK t \in Live : rowLock[t] = p
    BY <1>3, <2>1 DEF WaitsFor
  <2>3. t = req[p].tok /\ req[p].row.state = "revoked"
    BY <2>1, <2>2 DEF LocksOwned, Live
  <2>4. row[t].state = "revoked"
    BY <2>1, <2>3 DEF IndInv, RowsHeld, InTransaction
  <2> QED
    BY <2>2, <2>4 DEF Live
<1> QED
  BY <1>2, <1>3 DEF HoldersGetOn

\* No row lock is waited for for ever because its holder waits too: of any number
\* of requests to refresh and log out, a chain of waits has at most two links,
\* and at its end is a transaction that waits for nobody (auth.go:283, 353;
\* internal/store/queries/refresh_tokens.sql).
THEOREM WaitsAreShort == Spec => []HoldersGetOn
<1>1. Init => LocksOwned
  <2>1. NoRequest \notin Requests
    BY RefreshRotationAssumption
  <2> QED
    BY <2>1 DEF Init, LocksOwned
<1>2. IndInv /\ LocksOwned /\ [Next]_vars => LocksOwned'
  BY LocksOwnedNext
<1>3. IndInv /\ LocksOwned => HoldersGetOn
  BY WaitsEnd
<1> QED
  BY <1>1, <1>2, <1>3, Inductive, PTL DEF Spec
=============================================================================
