----------------------- MODULE OrchestratorLedgerProofs -----------------------
(***************************************************************************)
(* Orchestrator.tla implements PriceLedger.tla: whatever executions start, *)
(* crash and overlap, each observation is compared and recorded as if in   *)
(* one step -- provided that every execution reaches Redis and that no     *)
(* batch names an item twice.  The promises of the ledger follow.          *)
(***************************************************************************)
EXTENDS OrchestratorProofs

-----------------------------------------------------------------------------
(* Histories whose periods follow each other.                               *)

ChronoHistory(h) ==
  /\ \A k \in 1 .. Len(h) : h[k].fetchedAt <= h[k].lastSeen
  /\ \A j, k \in 1 .. Len(h) : j < k => h[j].lastSeen < h[k].fetchedAt

AllBefore(h, t) == \A k \in 1 .. Len(h) : h[k].lastSeen < t

LEMMA ChronologicalIsPerItem ==
  Chronological <=>
    \A i \in Items : AllBefore(rows[i], clock) /\ ChronoHistory(rows[i])
BY DEF Chronological, OlderThan, AllBefore, ChronoHistory

LEMMA RowTimes ==
  ASSUME NEW row \in Row
  PROVE  row.fetchedAt \in Int /\ row.lastSeen \in Int
BY PriceAssumption DEF Row, Timestamps

\* A row later than the whole history is appended: no ON CONFLICT.
LEMMA InsertIsAppend ==
  ASSUME NEW h \in Seq(Row), NEW row \in Row, row.fetchedAt = row.lastSeen,
         ChronoHistory(h), AllBefore(h, row.fetchedAt)
  PROVE  /\ InsertPriceObservation(h, row) = Append(h, row)
         /\ ChronoHistory(Append(h, row))
         /\ \A c \in Int : row.lastSeen < c => AllBefore(Append(h, row), c)
<1> DEFINE n == Len(h)
           g == Append(h, row)
<1>1. n \in Nat /\ Len(g) = n + 1 /\ g[n + 1] = row /\ \A k \in 1 .. n : g[k] = h[k]
  OBVIOUS
<1>2. ASSUME NEW k \in 1 .. n
      PROVE  /\ h[k].fetchedAt \in Int /\ h[k].lastSeen \in Int
             /\ h[k].fetchedAt <= h[k].lastSeen /\ h[k].lastSeen < row.fetchedAt
  <2>1. h[k] \in Row
    OBVIOUS
  <2> QED
    BY <2>1, RowTimes DEF ChronoHistory, AllBefore
<1>3. row.fetchedAt \in Int /\ row.lastSeen \in Int
  BY RowTimes
<1>4. InsertPriceObservation(h, row) = g
  <2>1. ~ \E k \in 1 .. Len(h) : h[k].fetchedAt = row.fetchedAt
    BY <1>2, <1>3
  <2> QED
    BY <2>1 DEF InsertPriceObservation
<1> HIDE DEF g, n
<1>5. \A k \in 1 .. n + 1 : k \in 1 .. n \/ k = n + 1
  BY <1>1
<1>6. ChronoHistory(g)
  <2>1. ASSUME NEW k \in 1 .. Len(g) PROVE g[k].fetchedAt <= g[k].lastSeen
    BY <1>1, <1>2, <1>3, <1>5
  <2>2. ASSUME NEW j \in 1 .. Len(g), NEW k \in 1 .. Len(g), j < k
        PROVE  g[j].lastSeen < g[k].fetchedAt
    <3>1. j \in 1 .. n /\ g[j] = h[j]
      BY <1>1, <2>2
    <3>2. CASE k \in 1 .. n
      BY <1>1, <2>2, <3>1, <3>2 DEF ChronoHistory, n
    <3>3. CASE k = n + 1
      BY <1>1, <1>2, <3>1, <3>3
    <3> QED
      BY <1>1, <1>5, <3>2, <3>3
  <2> QED
    BY <2>1, <2>2 DEF ChronoHistory
<1>7. ASSUME NEW c \in Int, row.lastSeen < c PROVE AllBefore(g, c)
  <2>1. ASSUME NEW k \in 1 .. Len(g) PROVE g[k].lastSeen < c
    BY <1>1, <1>2, <1>3, <1>5, <1>7
  <2> QED
    BY <2>1 DEF AllBefore
<1> QED
  BY <1>4, <1>6, <1>7 DEF g

\* The last row's last_seen_at moves forward.
LEMMA BumpKeepsOrder ==
  ASSUME NEW h \in Seq(Row), h # <<>>, NEW t \in Timestamps,
         ChronoHistory(h), AllBefore(h, t)
  PROVE  LET g == UpdateLastSeenAt(h, Len(h), t)
         IN  /\ ChronoHistory(g)
             /\ \A c \in Int : t < c => AllBefore(g, c)
<1> DEFINE n == Len(h)
           g == UpdateLastSeenAt(h, n, t)
<1>0. n \in Nat /\ n \in 1 .. n /\ h \in [1 .. n -> Row] /\ t \in Int
  BY PriceAssumption DEF Timestamps
<1>1. g = [h EXCEPT ![n] = [h[n] EXCEPT !.lastSeen = t]] /\ h[n] \in Row
  BY <1>0 DEF UpdateLastSeenAt
<1>2. [h[n] EXCEPT !.lastSeen = t] \in Row
  BY <1>1 DEF Row
<1>3. Len(g) = n
  <2>1. g \in [1 .. n -> Row]
    BY <1>0, <1>1, <1>2
  <2> QED
    BY <1>0, <2>1
<1>4. ASSUME NEW k \in 1 .. n
      PROVE  /\ g[k].fetchedAt = h[k].fetchedAt
             /\ g[k].lastSeen = IF k = n THEN t ELSE h[k].lastSeen
             /\ h[k].fetchedAt \in Int /\ h[k].lastSeen \in Int
             /\ h[k].fetchedAt <= h[k].lastSeen /\ h[k].lastSeen < t
  <2>1. h[k] \in Row /\ (k # n => g[k] = h[k])
    BY <1>0, <1>1
  <2>2. k = n => g[k] = [h[n] EXCEPT !.lastSeen = t]
    BY <1>0, <1>1
  <2>3. /\ g[k].fetchedAt = h[k].fetchedAt
        /\ g[k].lastSeen = IF k = n THEN t ELSE h[k].lastSeen
    BY <1>1, <2>1, <2>2 DEF Row
  <2>4. h[k].fetchedAt \in Int /\ h[k].lastSeen \in Int
    BY <2>1, RowTimes
  <2> QED
    BY <2>3, <2>4 DEF ChronoHistory, AllBefore
<1> HIDE DEF g, n
<1>5. ChronoHistory(g)
  <2>1. ASSUME NEW k \in 1 .. n PROVE g[k].fetchedAt <= g[k].lastSeen
    BY <1>0, <1>4
  <2>2. ASSUME NEW j \in 1 .. n, NEW k \in 1 .. n, j < k
        PROVE  g[j].lastSeen < g[k].fetchedAt
    <3>1. j # n
      BY <1>0, <2>2
    <3>2. h[j].lastSeen < h[k].fetchedAt
      BY <2>2 DEF ChronoHistory, n
    <3> QED
      BY <1>4, <3>1, <3>2
  <2> QED
    BY <1>3, <2>1, <2>2 DEF ChronoHistory
<1>6. ASSUME NEW c \in Int, t < c PROVE AllBefore(g, c)
  <2>1. ASSUME NEW k \in 1 .. n PROVE g[k].lastSeen < c
    BY <1>0, <1>4, <1>6
  <2> QED
    BY <1>3, <2>1 DEF AllBefore
<1> QED
  BY <1>5, <1>6 DEF g, n

-----------------------------------------------------------------------------
(* With Redis, an active execution is either acquiring or inside the job.   *)

AllUseRedis == \A r \in Runs : Active(r) => run[r].redis

LEMMA AllUseRedisNext ==
  AllReachRedis /\ TypeOK /\ AllUseRedis /\ [Next]_vars => AllUseRedis'
<1> SUFFICES ASSUME AllReachRedis, TypeOK, AllUseRedis, [Next]_vars,
                    NEW s \in Runs, Active(s)'
             PROVE  run'[s].redis
  BY DEF AllUseRedis
<1>1. CASE UNCHANGED <<pc, run>>
  BY <1>1 DEF AllUseRedis, Active
<1>2. ASSUME NEW r \in Runs, Start(r) \/ Proceed(r) \/ Crash(r)
      PROVE  run'[s].redis
  <2>1. OthersStay(r) /\ (Enters(r) \/ Takes(r) \/ Stays(r) \/ Leaves(r))
    BY <1>2, StepEffect
  <2>2. CASE s # r
    BY <2>1, <2>2 DEF OthersStay, AllUseRedis, Active
  <2>3. CASE s = r /\ Enters(r)
    <3>1. PICK redis \in RedisStates :
            run' = [run EXCEPT ![r].deadline = clock + RunTimeout, ![r].redis = redis]
      BY <2>3 DEF Enters, Start
    <3> DEFINE x == [run[r] EXCEPT !.deadline = clock + RunTimeout, !.redis = redis]
    <3>2. run' = [run EXCEPT ![r] = x] /\ run[r] \in RunState
          /\ run \in [Runs -> RunState]
      BY <3>1 DEF TypeOK
    <3>3. x.redis = TRUE
      BY <3>1, <3>2 DEF RunState, AllReachRedis
    <3> HIDE DEF x
    <3> QED
      BY <2>3, <3>2, <3>3
  <2>4. CASE s = r /\ ~Enters(r)
    BY <2>1, <2>4 DEF Takes, Stays, Leaves, Active, AllUseRedis
  <2> QED
    BY <2>1, <2>2, <2>3, <2>4
<1> QED
  BY <1>1, <1>2 DEF Next, Tick, Finished, vars

\* Where an execution reads and writes the table it holds the lock.
LEMMA TableWorkIsExclusive ==
  ASSUME Inv, AllUseRedis, NEW r \in Runs, NEW s \in Runs,
         pc[r] \in {"fetching", "persist", "write"}, ~Expired(r),
         pc[s] \in {"fetching", "persist", "write"}, ~Expired(s)
  PROVE  r = s
<1>1. InJob(r) /\ InJob(s)
  BY DEF InJob, Active, AllUseRedis
<1> QED
  BY <1>1, LockInvExcludes DEF Inv, ExclusiveIngestion

-----------------------------------------------------------------------------
(* The write of one observation.                                            *)

\* What the look-ups leave behind.
LEMMA PriorFields ==
  /\ NoPrior.state = "none" /\ FailedLookup.state = "error"
  /\ \A id, row : /\ Found(id, row).state = "found" /\ Found(id, row).id = id
                  /\ Found(id, row).price = row.price
                  /\ Found(id, row).unit = row.unit
BY DEF NoPrior, FailedLookup, Found

\* The ledger speaks of the table in the orchestrator's own words.
LEMMA LedgerVocabulary ==
  /\ \A old, obs : Ledger!SamePrice(old, obs) <=> SamePrice(old, obs)
  /\ \A h, id, t : Ledger!UpdateLastSeenAt(h, id, t) = UpdateLastSeenAt(h, id, t)
  /\ \A obs, t, a : Ledger!NewRow(obs, t, a) = NewRow(obs, t, a)
  /\ \A old, new : Ledger!AnomalyStatus(old, new) = AnomalyStatus(old, new)
  /\ Ledger!NoAnomaly = NoAnomaly
  /\ Ledger!Observation = Observation /\ Ledger!Timestamps = Timestamps
  /\ Ledger!Row = Row
BY DEF Ledger!SamePrice, SamePrice, Ledger!UpdateLastSeenAt, UpdateLastSeenAt,
       Ledger!NewRow, NewRow, Ledger!NoAnomaly, NoAnomaly,
       Ledger!AnomalyStatus, AnomalyStatus, Ledger!RatioReachesThreshold,
       RatioReachesThreshold, Ledger!FreeToBillable, FreeToBillable,
       Ledger!BillableToFree, BillableToFree, Ledger!RatioExceeded, RatioExceeded,
       Ledger!Observation, Observation, Ledger!Timestamps, Timestamps, Ledger!Row, Row,
       Ledger!AnomalyStatuses, AnomalyStatuses

Writes(r) == BumpLastSeen(r) \/ InsertRow(r)

\* The write puts a history in the place of the item's history that extends it
\* in time, and it is a step of the ledger.
LEMMA WriteEffect ==
  ASSUME Inv, TableInv, NEW r \in Runs, Writes(r)
  PROVE  LET i == CurrentObs(r).item
             t == run[r].stamp
         IN  /\ i \in Items /\ t < clock
             /\ \E g : /\ rows' = [rows EXCEPT ![i] = g]
                       /\ ChronoHistory(g) /\ AllBefore(g, clock)
             /\ Ledger!Observe(CurrentObs(r), t)
<1> DEFINE obs == CurrentObs(r)
           i == obs.item
           t == run[r].stamp
           h == rows[i]
           prior == run[r].prior
<1>0. /\ run \in [Runs -> RunState] /\ run[r] \in RunState
      /\ rows \in [Items -> Seq(Row)] /\ clock \in Int
  BY DEF Inv, TypeOK, Timestamps
<1>1. pc[r] = "write" /\ ~Expired(r) /\ run[r].todo # <<>>
  BY DEF Writes, BumpLastSeen, InsertRow, Step, Inv, WritesSomething
<1>2. run[r].todo \in Seq(Observation) /\ t \in Timestamps
  BY <1>0, RunFieldTypes
<1>3. obs \in Observation /\ i \in Items /\ h \in Seq(Row)
  BY <1>0, <1>1, <1>2, TodoType DEF CurrentObs
<1>4. t < clock /\ AllBefore(h, t) /\ t \in Int
  <2>1. 1 \in 1 .. Len(run[r].todo) /\ run[r].todo[1] = obs
    BY <1>1, <1>2 DEF CurrentObs
  <2>2. t < clock /\ OlderThan(i, t)
    BY <1>1, <2>1 DEF TableInv, FetchIsNews
  <2> QED
    BY <1>2, <2>2, PriceAssumption DEF OlderThan, AllBefore, Timestamps
<1>5. ChronoHistory(h)
  BY <1>3, ChronologicalIsPerItem DEF TableInv
<1>6. prior \in {FailedLookup, IF h = <<>> THEN NoPrior ELSE Found(Len(h), h[Len(h)])}
  BY <1>1 DEF TableInv, PriorIsLast
<1>7. h # <<>> => Len(h) \in 1 .. Len(h)
  BY <1>3
<1>8. Ledger!NewsOf(i, t)
  BY <1>4, <1>7 DEF Ledger!NewsOf, AllBefore
<1> HIDE DEF t, i, h
<1>9. CASE BumpLastSeen(r)
  <2>1. /\ h # <<>> /\ prior.id = Len(h) /\ SamePrice(h[Len(h)], obs)
    <3>1. prior.state = "found" /\ SamePrice(prior, obs)
      BY <1>9 DEF BumpLastSeen, Unchanged
    <3> QED
      BY <1>6, <3>1, PriorFields DEF SamePrice
  <2> DEFINE g == UpdateLastSeenAt(h, Len(h), t)
  <2>2. rows' = [rows EXCEPT ![i] = g] /\ UNCHANGED blind
    BY <1>9, <2>1 DEF BumpLastSeen, t, i, h
  <2>3. ChronoHistory(g) /\ AllBefore(g, clock)
    BY <1>0, <1>2, <1>3, <1>4, <1>5, <2>1, BumpKeepsOrder DEF t
  <2>4. Ledger!SeeAgain(i, obs, t)
    BY <2>1, <2>2, LedgerVocabulary DEF Ledger!SeeAgain, h
  <2> HIDE DEF g
  <2>5. Ledger!Observe(obs, t)
    BY <1>8, <2>4 DEF Ledger!Observe, i
  <2> QED
    BY <1>3, <1>4, <2>2, <2>3, <2>5 DEF t, i
<1>10. CASE InsertRow(r)
  <2> DEFINE a == StatusOf(prior, obs)
             row == NewRow(obs, t, a)
             g == Append(h, row)
  <2>1. a \in AnomalyStatuses
    BY AnomalyStatusType DEF StatusOf, AnomalyStatuses
  <2>2. row \in Row /\ row.fetchedAt = t /\ row.lastSeen = t
    <3> HIDE DEF a
    <3>1. row \in Row
      BY <1>2, <1>3, <2>1, NewRowType DEF t
    <3> QED
      BY <3>1 DEF NewRow
  <2>3. /\ rows' = [rows EXCEPT ![i] = InsertPriceObservation(h, row)]
        /\ ~Unchanged(prior, obs)
        /\ blind' = IF prior.state = "error" THEN blind \cup {<<i, t>>} ELSE blind
    BY <1>10 DEF InsertRow, t, i, h
  <2>4. /\ InsertPriceObservation(h, row) = g
        /\ ChronoHistory(g) /\ AllBefore(g, clock)
    <3> HIDE DEF row
    <3> QED
      BY <1>0, <1>3, <1>4, <1>5, <2>2, InsertIsAppend
  <2>5. ASSUME prior = FailedLookup PROVE Ledger!Observe(obs, t)
    <3>1. a = NoAnomaly /\ prior.state = "error"
      BY <2>5, PriorFields DEF StatusOf
    <3>2. Ledger!RecordBlindly(i, obs, t)
      BY <2>3, <2>4, <3>1, LedgerVocabulary DEF Ledger!RecordBlindly, h
    <3> QED
      BY <1>8, <3>2 DEF Ledger!Observe, i
  <2>6. ASSUME prior = IF h = <<>> THEN NoPrior ELSE Found(Len(h), h[Len(h)])
        PROVE  Ledger!Observe(obs, t)
    <3>1. /\ prior.state # "error"
          /\ a = IF h = <<>> THEN NoAnomaly ELSE AnomalyStatus(h[Len(h)].price, obs.price)
          /\ h # <<>> => ~SamePrice(h[Len(h)], obs)
      BY <2>3, <2>6, PriorFields DEF StatusOf, Unchanged, SamePrice
    <3>2. blind' = blind /\ rows' = [rows EXCEPT ![i] = g]
      BY <2>3, <2>4, <3>1
    <3> HIDE DEF a
    <3>3. Ledger!RecordChange(i, obs, t)
      BY <3>1, <3>2, LedgerVocabulary DEF Ledger!RecordChange, h
    <3> QED
      BY <1>8, <3>3 DEF Ledger!Observe, i
  <2>7. Ledger!Observe(obs, t)
    BY <1>6, <2>5, <2>6
  <2> HIDE DEF g
  <2> QED
    BY <1>3, <1>4, <2>3, <2>4, <2>7 DEF t, i
<1> QED
  BY <1>9, <1>10 DEF Writes

-----------------------------------------------------------------------------
(* The table invariant is inductive.                                        *)

\* FetchIsNews and PriorIsLast, said of one execution.
NewsOfRun(r) ==
  ~Expired(r) =>
    /\ pc[r] = "fetching" => \A i \in Items : OlderThan(i, run[r].stamp)
    /\ pc[r] \in {"persist", "write"} =>
         /\ run[r].stamp < clock
         /\ \A k \in 1 .. Len(run[r].todo) :
              OlderThan(run[r].todo[k].item, run[r].stamp)
         /\ \A j, k \in 1 .. Len(run[r].todo) :
              run[r].todo[j].item = run[r].todo[k].item => j = k

PriorOfRun(r) ==
  pc[r] = "write" /\ ~Expired(r) =>
    LET h == rows[CurrentObs(r).item]
    IN  run[r].prior \in
          {FailedLookup, IF h = <<>> THEN NoPrior ELSE Found(Len(h), h[Len(h)])}

LEMMA TableInvParts ==
  TableInv <=> /\ Chronological
               /\ \A r \in Runs : NewsOfRun(r) /\ PriorOfRun(r)
BY DEF TableInv, FetchIsNews, PriorIsLast, NewsOfRun, PriorOfRun

\* Only the two writes touch the table.
LEMMA OnlyWritesTouchRows ==
  ASSUME NEW r \in Runs, Start(r) \/ Proceed(r) \/ Crash(r), ~Writes(r)
  PROVE  UNCHANGED <<rows, blind>>
BY DEF Writes, Proceed, stores, Start, Acquire, Skip, AcquireFails,
       AcquireReplyLost, BeginFetch, FetchCancelled, FetchReturns, FetchFails,
       ReadDLQ, WriteDLQ, RecordFails, Lookup, LookupFails, WriteFails,
       PersistDone, ClearDLQ, ClearFails, Warm, WarmDone, Release, ReleaseFails, Crash

LEMMA NextCases ==
  ASSUME [Next]_vars
  PROVE  \/ UNCHANGED vars \/ Tick
         \/ \E r \in Runs : Start(r) \/ Proceed(r) \/ Crash(r)
BY DEF Next, Finished

LEMMA ChronologicalNext ==
  Inv /\ TableInv /\ [Next]_vars => Chronological'
<1> SUFFICES ASSUME Inv, TableInv, [Next]_vars, NEW j \in Items
             PROVE  AllBefore(rows'[j], clock') /\ ChronoHistory(rows'[j])
  BY DEF Chronological, OlderThan, AllBefore, ChronoHistory
<1>1. /\ rows \in [Items -> Seq(Row)] /\ clock \in Int
      /\ AllBefore(rows[j], clock) /\ ChronoHistory(rows[j])
  BY ChronologicalIsPerItem DEF Inv, TypeOK, Timestamps, TableInv
<1>2. ASSUME NEW r \in Runs, Writes(r)
      PROVE  AllBefore(rows'[j], clock') /\ ChronoHistory(rows'[j])
  <2> DEFINE i == CurrentObs(r).item
  <2>1. PICK g : /\ rows' = [rows EXCEPT ![i] = g]
                 /\ ChronoHistory(g) /\ AllBefore(g, clock)
    BY <1>2, WriteEffect
  <2>2. clock' = clock
    BY <1>2 DEF Writes, BumpLastSeen, InsertRow
  <2> HIDE DEF i
  <2>3. CASE j = i
    BY <1>1, <2>1, <2>2, <2>3
  <2>4. CASE j # i
    BY <1>1, <2>1, <2>2, <2>4
  <2> QED
    BY <2>3, <2>4
<1>3. ASSUME rows' = rows, clock' \in {clock, clock + 1}
      PROVE  AllBefore(rows'[j], clock') /\ ChronoHistory(rows'[j])
  <2>1. ASSUME NEW k \in 1 .. Len(rows[j]) PROVE rows[j][k].lastSeen < clock'
    <3>1. rows[j] \in Seq(Row)
      BY <1>1
    <3>2. rows[j][k] \in Row
      BY <3>1
    <3>3. rows[j][k].lastSeen \in Int /\ rows[j][k].lastSeen < clock
      BY <1>1, <3>2, RowTimes DEF AllBefore
    <3> QED
      BY <1>1, <1>3, <3>3
  <2>2. AllBefore(rows[j], clock')
    BY <2>1 DEF AllBefore
  <2> QED
    BY <1>1, <1>3, <2>2
<1>4. CASE Tick \/ UNCHANGED vars
  BY <1>3, <1>4 DEF Tick, vars, stores
<1>5. ASSUME NEW r \in Runs, Start(r) \/ Proceed(r) \/ Crash(r), ~Writes(r)
      PROVE  AllBefore(rows'[j], clock') /\ ChronoHistory(rows'[j])
  BY <1>3, <1>5, StepEffect, OnlyWritesTouchRows DEF Inv, OthersStay
<1> QED
  BY <1>2, <1>4, <1>5, NextCases

\* The execution that makes the step.
LEMMA OwnRunNext ==
  ASSUME UniqueItems, Inv, TableInv,
         NEW r \in Runs, Start(r) \/ Proceed(r) \/ Crash(r)
  PROVE  NewsOfRun(r)' /\ PriorOfRun(r)'
<1>0. /\ run \in [Runs -> RunState] /\ run[r] \in RunState /\ pc \in [Runs -> PCs]
      /\ rows \in [Items -> Seq(Row)] /\ clock \in Int
      /\ NewsOfRun(r) /\ PriorOfRun(r) /\ Chronological
  BY TableInvParts DEF Inv, TypeOK, Timestamps
<1>1. clock' = clock
  BY StepEffect DEF Inv, OthersStay
<1>2. CASE BeginFetch(r)
  <2> DEFINE x == [run[r] EXCEPT !.stamp = clock]
  <2>1. run' = [run EXCEPT ![r] = x] /\ pc'[r] = "fetching" /\ rows' = rows
    BY <1>0, <1>2 DEF BeginFetch, Step, stores
  <2>2. x.stamp = clock
    BY <1>0 DEF RunState
  <2> HIDE DEF x
  <2>3. run'[r].stamp = clock
    BY <1>0, <2>1, <2>2
  <2> QED
    BY <1>0, <2>1, <2>3 DEF NewsOfRun, PriorOfRun, Chronological, OlderThan
<1>3. CASE FetchReturns(r)
  <2>1. PICK batch \in Batches :
          run' = [run EXCEPT ![r].batch = batch, ![r].todo = batch,
                             ![r].attempt = 0, ![r].err = ""]
    BY <1>3 DEF FetchReturns
  <2> DEFINE x == [run[r] EXCEPT !.batch = batch, !.todo = batch,
                                 !.attempt = 0, !.err = ""]
  <2>2. run' = [run EXCEPT ![r] = x]
    BY <2>1
  <2>3. x.todo = batch /\ x.stamp = run[r].stamp
    BY <1>0 DEF RunState
  <2> HIDE DEF x
  <2>4. run'[r].todo = batch /\ run'[r].stamp = run[r].stamp
    BY <1>0, <2>2, <2>3
  <2>5. /\ pc[r] = "fetching" /\ pc'[r] = "persist" /\ rows' = rows
        /\ ~Expired(r) /\ run[r].stamp < clock
    BY <1>0, <1>3 DEF FetchReturns, Step, stores
  <2>6. \A i \in Items : OlderThan(i, run[r].stamp)
    BY <1>0, <2>5 DEF NewsOfRun
  <2>7. ASSUME NEW k \in 1 .. Len(batch) PROVE batch[k].item \in Items
    <3>1. batch \in Seq(Observation)
      BY OrchestratorAssumption
    <3>2. batch[k] \in Observation
      BY <3>1
    <3> QED
      BY <3>2 DEF Observation
  <2>8. \A j, k \in 1 .. Len(batch) : batch[j].item = batch[k].item => j = k
    BY DEF UniqueItems
  <2>9. \A k \in 1 .. Len(batch) : OlderThan(batch[k].item, run[r].stamp)'
    BY <2>4, <2>5, <2>6, <2>7 DEF OlderThan
  <2> QED
    BY <1>1, <2>4, <2>5, <2>8, <2>9 DEF NewsOfRun, PriorOfRun, OlderThan
<1>4. CASE Lookup(r) \/ LookupFails(r)
  <2>1. /\ pc[r] = "persist" /\ pc'[r] = "write" /\ rows' = rows
        /\ run[r].todo # <<>>
    BY <1>0, <1>4 DEF Lookup, LookupFails, Step, stores
  <2> DEFINE h == rows[CurrentObs(r).item]
  <2>2. PICK p : /\ run' = [run EXCEPT ![r].prior = p]
                 /\ p \in {FailedLookup, IF h = <<>> THEN NoPrior
                                         ELSE Found(LatestId(h), h[LatestId(h)])}
    BY <1>4 DEF Lookup, LookupFails
  <2> DEFINE x == [run[r] EXCEPT !.prior = p]
  <2>3. run' = [run EXCEPT ![r] = x]
    BY <2>2
  <2>4. /\ x.prior = p /\ x.todo = run[r].todo /\ x.stamp = run[r].stamp
        /\ x.deadline = run[r].deadline
    BY <1>0 DEF RunState
  <2> HIDE DEF x
  <2>5. /\ run'[r].prior = p /\ run'[r].todo = run[r].todo
        /\ run'[r].stamp = run[r].stamp /\ run'[r].deadline = run[r].deadline
    BY <1>0, <2>3, <2>4
  <2>6. h # <<>> => LatestId(h) = Len(h)
    <3>1. run[r].todo \in Seq(Observation)
      BY <1>0, RunFieldTypes
    <3>2. CurrentObs(r).item \in Items
      BY <2>1, <3>1, TodoType DEF CurrentObs
    <3>3. h \in Seq(Row)
      BY <1>0, <3>2
    <3>4. /\ \A k \in 1 .. Len(h) : h[k].fetchedAt <= h[k].lastSeen
          /\ \A j, k \in 1 .. Len(h) : j < k => h[j].lastSeen < h[k].fetchedAt
      BY <1>0, <3>2 DEF Chronological
    <3> HIDE DEF h
    <3> QED
      BY <3>3, <3>4, LatestIsLast
  <2>7. NewsOfRun(r)'
    BY <1>0, <1>1, <2>1, <2>5 DEF NewsOfRun, Expired, OlderThan
  <2>8. PriorOfRun(r)'
    BY <2>1, <2>2, <2>5, <2>6 DEF PriorOfRun, CurrentObs
  <2> QED
    BY <2>7, <2>8
<1>5. CASE Writes(r) \/ WriteFails(r)
  <2>1. pc[r] = "write" /\ pc'[r] = "persist"
    BY <1>0, <1>5 DEF Writes, BumpLastSeen, InsertRow, WriteFails, Step
  <2> DEFINE todo == run[r].todo
             x == [run[r] EXCEPT !.todo = Tail(run[r].todo), !.prior = NoPrior]
  <2>2. run' = [run EXCEPT ![r] = x]
    BY <1>5 DEF Writes, BumpLastSeen, InsertRow, WriteFails, NextObs
  <2>3. /\ x.todo = Tail(todo) /\ x.stamp = run[r].stamp
        /\ x.deadline = run[r].deadline
    BY <1>0 DEF RunState
  <2> HIDE DEF x
  <2>4. /\ run'[r].todo = Tail(todo) /\ run'[r].stamp = run[r].stamp
        /\ run'[r].deadline = run[r].deadline
    BY <1>0, <2>2, <2>3
  <2>5. /\ todo \in Seq(Observation) /\ todo # <<>> /\ CurrentObs(r) = todo[1]
        /\ Len(Tail(todo)) = Len(todo) - 1 /\ Len(todo) \in Nat
        /\ \A k \in 1 .. Len(Tail(todo)) : Tail(todo)[k] = todo[k + 1]
    <3>1. todo \in Seq(Observation) /\ todo # <<>>
      BY <1>0, <2>1, RunFieldTypes DEF Inv, WritesSomething
    <3> QED
      BY <3>1 DEF CurrentObs
  <2>6. SUFFICES ASSUME ~Expired(r)
                 PROVE  /\ run[r].stamp < clock
                        /\ \A k \in 1 .. Len(Tail(todo)) :
                             AllBefore(rows'[Tail(todo)[k].item], run[r].stamp)
                        /\ \A j, k \in 1 .. Len(Tail(todo)) :
                             Tail(todo)[j].item = Tail(todo)[k].item => j = k
    <3>1. Expired(r)' = Expired(r)
      BY <1>1, <2>4 DEF Expired
    <3> QED
      BY <1>1, <2>1, <2>4, <3>1 DEF NewsOfRun, PriorOfRun, OlderThan, AllBefore
  <2>7. /\ run[r].stamp < clock
        /\ \A k \in 1 .. Len(todo) : OlderThan(todo[k].item, run[r].stamp)
        /\ \A j, k \in 1 .. Len(todo) : todo[j].item = todo[k].item => j = k
    BY <1>0, <2>1, <2>6 DEF NewsOfRun
  <2> HIDE DEF todo
  <2>8. ASSUME NEW k \in 1 .. Len(Tail(todo))
        PROVE  /\ k + 1 \in 1 .. Len(todo) /\ 1 \in 1 .. Len(todo) /\ k + 1 # 1
               /\ Tail(todo)[k] = todo[k + 1]
    BY <2>5
  <2>9. ASSUME NEW k \in 1 .. Len(Tail(todo))
        PROVE  rows'[Tail(todo)[k].item] = rows[Tail(todo)[k].item]
    <3>1. Tail(todo)[k].item # CurrentObs(r).item
      BY <2>5, <2>7, <2>8
    <3>2. CASE Writes(r)
      <4>1. PICK g : rows' = [rows EXCEPT ![CurrentObs(r).item] = g]
        BY <3>2, WriteEffect
      <4>2. Tail(todo)[k].item \in Items
        <5>1. todo[k + 1] \in Observation
          BY <2>5, <2>8
        <5> QED
          BY <2>8, <5>1 DEF Observation
      <4> QED
        BY <1>0, <3>1, <4>1, <4>2
    <3>3. CASE WriteFails(r)
      BY <3>3 DEF WriteFails, stores
    <3> QED
      BY <1>5, <3>2, <3>3
  <2>10. ASSUME NEW k \in 1 .. Len(Tail(todo))
         PROVE  AllBefore(rows'[Tail(todo)[k].item], run[r].stamp)
    <3>1. OlderThan(todo[k + 1].item, run[r].stamp)
      BY <2>7, <2>8
    <3> QED
      BY <2>8, <2>9, <3>1 DEF OlderThan, AllBefore
  <2>11. ASSUME NEW j \in 1 .. Len(Tail(todo)), NEW k \in 1 .. Len(Tail(todo)),
                Tail(todo)[j].item = Tail(todo)[k].item
         PROVE  j = k
    <3>1. j + 1 = k + 1
      BY <2>7, <2>8, <2>11
    <3> QED
      BY <2>5, <3>1
  <2> QED
    BY <2>7, <2>10, <2>11
<1>6. CASE pc'[r] \notin {"fetching", "persist", "write"}
  BY <1>6 DEF NewsOfRun, PriorOfRun
<1> QED
  BY <1>2, <1>3, <1>4, <1>5, <1>6, WaysIn DEF Writes, Inv

\* The executions that do not make the step.
LEMMA OtherRunNext ==
  ASSUME Inv, AllUseRedis, TableInv,
         NEW r \in Runs, Start(r) \/ Proceed(r) \/ Crash(r),
         NEW s \in Runs, s # r
  PROVE  NewsOfRun(s)' /\ PriorOfRun(s)'
<1>1. /\ clock' = clock /\ pc'[s] = pc[s] /\ run'[s] = run[s]
      /\ NewsOfRun(s) /\ PriorOfRun(s)
  BY StepEffect, TableInvParts DEF Inv, OthersStay
<1>2. Expired(s)' = Expired(s)
  BY <1>1 DEF Expired
<1>3. CASE ~Expired(s) /\ pc[s] \in {"fetching", "persist", "write"}
  <2>1. ~Writes(r)
    <3>1. Writes(r) => pc[r] = "write" /\ ~Expired(r)
      BY DEF Writes, BumpLastSeen, InsertRow, Step
    <3> QED
      BY <1>3, <3>1, TableWorkIsExclusive
  <2>2. rows' = rows
    BY <2>1, OnlyWritesTouchRows
  <2> QED
    BY <1>1, <1>2, <2>2 DEF NewsOfRun, PriorOfRun, OlderThan, CurrentObs
<1>4. CASE Expired(s) \/ pc[s] \notin {"fetching", "persist", "write"}
  BY <1>1, <1>2, <1>4 DEF NewsOfRun, PriorOfRun
<1> QED
  BY <1>3, <1>4

LEMMA TableInvNext ==
  UniqueItems /\ Inv /\ AllUseRedis /\ TableInv /\ [Next]_vars => TableInv'
<1> SUFFICES ASSUME UniqueItems, Inv, AllUseRedis, TableInv, [Next]_vars,
                    NEW s \in Runs
             PROVE  NewsOfRun(s)' /\ PriorOfRun(s)'
  BY ChronologicalNext, TableInvParts
     DEF TableInv, FetchIsNews, PriorIsLast, NewsOfRun, PriorOfRun
<1>1. NewsOfRun(s) /\ PriorOfRun(s)
  BY TableInvParts
<1>2. CASE UNCHANGED vars
  BY <1>1, <1>2 DEF vars, NewsOfRun, PriorOfRun, OlderThan, Expired, CurrentObs
<1>3. CASE Tick
  <2>1. clock' = clock + 1 /\ UNCHANGED <<rows, pc, run>>
    BY <1>3 DEF Tick, stores
  <2>2. clock \in Int /\ run[s].deadline \in Int /\ run[s].stamp \in Int
    <3>1. run[s] \in RunState /\ clock \in Timestamps
      BY DEF Inv, TypeOK
    <3>2. run[s].deadline \in Nat /\ run[s].stamp \in Timestamps
      BY <3>1, RunFieldTypes
    <3> QED
      BY <3>1, <3>2, PriceAssumption DEF Timestamps
  <2>3. ~Expired(s)' => ~Expired(s)
    BY <2>1, <2>2 DEF Expired
  <2>4. run[s].stamp < clock => run[s].stamp < clock'
    BY <2>1, <2>2
  <2> QED
    BY <1>1, <2>1, <2>3, <2>4 DEF NewsOfRun, PriorOfRun, OlderThan, CurrentObs
<1>4. ASSUME NEW r \in Runs, Start(r) \/ Proceed(r) \/ Crash(r)
      PROVE  NewsOfRun(s)' /\ PriorOfRun(s)'
  BY <1>4, OwnRunNext, OtherRunNext
<1> QED
  BY <1>2, <1>3, <1>4, NextCases

-----------------------------------------------------------------------------
(* The refinement and what follows from it.                                 *)

LEMMA TableInit == Init => AllUseRedis /\ TableInv
<1> SUFFICES ASSUME Init PROVE AllUseRedis /\ TableInv
  OBVIOUS
<1>1. /\ \A r \in Runs : pc[r] = "idle"
      /\ \A i \in Items : rows[i] = <<>> /\ Len(rows[i]) = 0
  BY DEF Init
<1> QED
  BY <1>1 DEF AllUseRedis, Active, TableInv, Chronological, OlderThan,
              FetchIsNews, PriorIsLast

\* A step of the job is a step of the ledger or leaves the ledger alone.
LEMMA Simulation ==
  Inv /\ TableInv /\ [Next]_vars => [Ledger!LedgerNext]_(Ledger!ledgerVars)
<1> SUFFICES ASSUME Inv, TableInv, [Next]_vars,
                    ~ UNCHANGED Ledger!ledgerVars
             PROVE  Ledger!LedgerNext
  OBVIOUS
<1>1. PICK r \in Runs : Start(r) \/ Proceed(r) \/ Crash(r)
  BY NextCases DEF Ledger!ledgerVars, vars, Tick, stores
<1>2. Writes(r)
  BY <1>1, OnlyWritesTouchRows DEF Ledger!ledgerVars
<1>3. Ledger!Observe(CurrentObs(r), run[r].stamp)
  BY <1>2, WriteEffect
<1>4. CurrentObs(r) \in Observation /\ run[r].stamp \in Timestamps
  <2>1. run[r] \in RunState
    BY DEF Inv, TypeOK
  <2>2. run[r].todo \in Seq(Observation) /\ run[r].stamp \in Timestamps
    BY <2>1, RunFieldTypes
  <2>3. run[r].todo # <<>>
    BY <1>2 DEF Inv, WritesSomething, Writes, BumpLastSeen, InsertRow, Step
  <2> QED
    BY <2>2, <2>3, TodoType DEF CurrentObs
<1> QED
  BY <1>3, <1>4, LedgerVocabulary DEF Ledger!LedgerNext

LEMMA LedgerInitMaps == Init => Ledger!LedgerInit
BY DEF Init, Ledger!LedgerInit

\* Executions that overlap, crash, lose replies and outlive their lock leave
\* price_observations as if each observation had been compared with the last
\* row and recorded in one step, in the order of the fetches
\* (ingest_orchestrator.go:232-357) -- if they all take the lock and no batch
\* names an item twice.
THEOREM ImplementsTheLedger ==
  ASSUME UniqueItems, AllReachRedis
  PROVE  Spec => ImplementsLedger
<1>1. AllUseRedis /\ Inv /\ TableInv /\ [Next]_vars => (AllUseRedis /\ TableInv)'
  BY AllUseRedisNext, TableInvNext DEF Inv
<1>2. Spec => [](AllUseRedis /\ TableInv)
  BY <1>1, TableInit, Invariance, PTL DEF Spec
<1> QED
  BY <1>2, Invariance, Simulation, LedgerInitMaps, PTL
     DEF Spec, ImplementsLedger, Ledger!LedgerSpec

\* The ledger's promises, proved of it in PriceLedgerProofs.
Promised == INSTANCE PriceLedgerProofs WITH ledger <- rows

LEMMA SameLedger ==
  /\ Ledger!LedgerInit => Promised!LedgerInit
  /\ [Ledger!LedgerNext]_(Ledger!ledgerVars)
       => [Promised!LedgerNext]_(Promised!ledgerVars)
BY DEF Ledger!LedgerInit, Promised!LedgerInit, Ledger!LedgerNext,
       Promised!LedgerNext, Ledger!ledgerVars, Promised!ledgerVars,
       Ledger!Observe, Promised!Observe, Ledger!NewsOf, Promised!NewsOf,
       Ledger!SeeAgain, Promised!SeeAgain, Ledger!RecordChange,
       Promised!RecordChange, Ledger!RecordBlindly, Promised!RecordBlindly,
       Ledger!SamePrice, Promised!SamePrice, Ledger!UpdateLastSeenAt,
       Promised!UpdateLastSeenAt, Ledger!NewRow, Promised!NewRow,
       Ledger!AnomalyStatus, Promised!AnomalyStatus,
       Ledger!RatioReachesThreshold, Promised!RatioReachesThreshold,
       Ledger!NoAnomaly, Promised!NoAnomaly, Ledger!FreeToBillable,
       Promised!FreeToBillable, Ledger!BillableToFree,
       Promised!BillableToFree, Ledger!RatioExceeded,
       Promised!RatioExceeded, Ledger!Observation, Promised!Observation,
       Ledger!Timestamps, Promised!Timestamps

LEMMA PromisesCarryOver ==
  Promised!LedgerInv
    => AdjacentRowsDiffer /\ AnomalyFlagsExact /\ PricePeriodsDisjoint
BY DEF Promised!LedgerInv, Promised!RowsTellChanges, Promised!RowsFlagged,
       Promised!PeriodsDisjoint, Promised!SamePrice, Promised!AnomalyStatus,
       Promised!RatioReachesThreshold, Promised!NoAnomaly,
       Promised!FreeToBillable, Promised!BillableToFree, Promised!RatioExceeded,
       AdjacentRowsDiffer, AnomalyFlagsExact, PricePeriodsDisjoint,
       RowsTellChanges, RowsFlagged, PeriodsDisjoint, SamePrice, AnomalyStatus,
       RatioReachesThreshold, NoAnomaly, FreeToBillable, BillableToFree,
       RatioExceeded

\* What executions leave in price_observations keeps the promises of the
\* ledger: consecutive rows differ in price or billing dimensions, every row
\* carries the flag its change calls for, and the periods of the rows do not
\* overlap (ingest_orchestrator.go:269-356) -- under the same two conditions.
THEOREM HistoriesAreExact ==
  ASSUME UniqueItems, AllReachRedis
  PROVE  Spec => [](AdjacentRowsDiffer /\ AnomalyFlagsExact /\ PricePeriodsDisjoint)
<1>1. Promised!LedgerSpec => [](Promised!LedgerTypeOK /\ Promised!LedgerInv)
  BY PriceAssumption, Promised!LedgerKeepsPromises
<1>2. Ledger!LedgerSpec => Promised!LedgerSpec
  BY SameLedger, PTL DEF Ledger!LedgerSpec, Promised!LedgerSpec
<1>3. Spec => Ledger!LedgerSpec
  BY ImplementsTheLedger DEF ImplementsLedger
<1> QED
  BY <1>1, <1>2, <1>3, PromisesCarryOver, PTL

\* Every row carries exactly the anomaly flag that the change from the row
\* before calls for: free to billable, billable to free, or the ratio, unless
\* it was recorded after a failed look-up (ingest_orchestrator.go:269-330).
THEOREM FlagsAreExact ==
  ASSUME UniqueItems, AllReachRedis
  PROVE  Spec => []AnomalyFlagsExact
<1>1. Spec => [](AdjacentRowsDiffer /\ AnomalyFlagsExact /\ PricePeriodsDisjoint)
  BY HistoriesAreExact
<1> QED
  BY <1>1, PTL

\* No two rows of an item claim the same time: the period [fetchedAt, lastSeen]
\* of a price ends before that of the next begins, so the history can be read
\* as a function of time (ingest_orchestrator.go:262-356).
THEOREM PeriodsNeverOverlap ==
  ASSUME UniqueItems, AllReachRedis
  PROVE  Spec => []PricePeriodsDisjoint
<1>1. Spec => [](AdjacentRowsDiffer /\ AnomalyFlagsExact /\ PricePeriodsDisjoint)
  BY HistoriesAreExact
<1> QED
  BY <1>1, PTL

\* The strengthening that the runs check, without conditions: its parts on the
\* lock and the DLQ always hold, its part on the table where every execution
\* takes the lock and no batch names an item twice
\* (ingest_orchestrator.go:131-394, lock.go:26-57, dlq.go:99-207).
THEOREM StrengtheningHolds == Spec => []IndInv
<1>1. CASE UniqueItems /\ AllReachRedis
  <2>1. AllUseRedis /\ Inv /\ TableInv /\ [Next]_vars => (AllUseRedis /\ TableInv)'
    BY <1>1, AllUseRedisNext, TableInvNext DEF Inv
  <2>2. Spec => []TableInv
    BY <2>1, TableInit, Invariance, PTL DEF Spec
  <2>3. Inv /\ TableInv => IndInv
    BY DEF Inv, IndInv
  <2> QED
    BY <2>2, <2>3, Invariance, PTL
<1>2. CASE ~(UniqueItems /\ AllReachRedis)
  <2>1. Inv => IndInv
    BY <1>2 DEF Inv, IndInv
  <2> QED
    BY <2>1, Invariance, PTL
<1> QED
  BY <1>1, <1>2
=============================================================================
