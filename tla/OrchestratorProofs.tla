------------------------- MODULE OrchestratorProofs -------------------------
(***************************************************************************)
(* Theorems about Orchestrator.tla: its types, mutual exclusion by a lock  *)
(* that expires, the count of the dead letter queue and the order of the   *)
(* cached lists, for every number of executions, items and prices and      *)
(* every RunTimeout <= LockTTL.                                            *)
(***************************************************************************)
EXTENDS Orchestrator, PriceHistoryProofs

-----------------------------------------------------------------------------
(* Types: the values the actions assign.                                    *)

LEMMA RunFieldTypes ==
  ASSUME NEW x \in RunState
  PROVE  /\ x.deadline \in Nat /\ x.redis \in BOOLEAN /\ x.attempt \in Nat
         /\ x.err \in JobErrors \cup {""} /\ x.stamp \in Timestamps
         /\ x.batch \in Seq(Observation) /\ x.todo \in Seq(Observation)
         /\ x.prior \in Prior /\ x.seen \in Nat /\ x.unwarmed \in SUBSET Regions
BY DEF RunState

LEMMA NatSuccessor == \A n \in Nat : n + 1 \in Nat
OBVIOUS

LEMMA ZeroTimestamp == 0 \in Timestamps
BY PriceAssumption DEF Timestamps

LEMMA NoPriorType == NoPrior \in Prior /\ FailedLookup \in Prior
BY DEF NoPrior, FailedLookup, Prior

LEMMA NotStartedType == NotStarted \in RunState
<1>1. <<>> \in Seq(Observation)
  OBVIOUS
<1> QED
  BY <1>1, NoPriorType, ZeroTimestamp DEF NotStarted, RunState

\* The local state after each assignment the actions make.
LEMMA RunUpdateType ==
  ASSUME NEW x \in RunState
  PROVE  /\ \A d \in Nat, b \in BOOLEAN :
              [x EXCEPT !.deadline = d, !.redis = b] \in RunState
         /\ \A t \in Timestamps : [x EXCEPT !.stamp = t] \in RunState
         /\ \A n \in Nat, err \in JobErrors :
              [x EXCEPT !.attempt = n, !.err = err] \in RunState
         /\ \A batch \in Seq(Observation) :
              [x EXCEPT !.batch = batch, !.todo = batch,
                        !.attempt = 0, !.err = ""] \in RunState
         /\ \A n \in Nat : [x EXCEPT !.seen = n] \in RunState
         /\ [x EXCEPT !.seen = 0, !.err = ""] \in RunState
         /\ \A p \in Prior : [x EXCEPT !.prior = p] \in RunState
         /\ \A todo \in Seq(Observation), p \in Prior :
              [x EXCEPT !.todo = todo, !.prior = p] \in RunState
         /\ \A G \in SUBSET Regions : [x EXCEPT !.unwarmed = G] \in RunState
BY DEF RunState

LEMMA SetRunType ==
  ASSUME run \in [Runs -> RunState], NEW r \in Runs, NEW x \in RunState,
         run' = [run EXCEPT ![r] = x]
  PROVE  run' \in [Runs -> RunState]
OBVIOUS

\* The look-up found a row.
LEMMA FoundType ==
  ASSUME NEW h \in Seq(Row), h # <<>>
  PROVE  Found(LatestId(h), h[LatestId(h)]) \in Prior
<1> DEFINE id == LatestId(h)
<1>1. id \in 1 .. Len(h)
  BY LatestIdIsLatest
<1>2. id \in Nat /\ h[id] \in Row
  BY <1>1
<1>3. h[id].price \in Prices /\ h[id].unit \in Units
  BY <1>2 DEF Row
<1> HIDE DEF id
<1> QED
  BY <1>2, <1>3 DEF Found, Prior, id

\* The observation at hand, and those left after it.
LEMMA TodoType ==
  ASSUME NEW x \in Seq(Observation), x # <<>>
  PROVE  /\ Head(x) \in Observation /\ Tail(x) \in Seq(Observation)
         /\ Head(x).item \in Items
<1>1. Head(x) \in Observation /\ Tail(x) \in Seq(Observation)
  OBVIOUS
<1> QED
  BY <1>1 DEF Observation

\* An observation of the batch is an observation of a region.
LEMMA BatchRegions ==
  ASSUME NEW batch \in Seq(Observation)
  PROVE  /\ RegionsOf(batch) \in SUBSET Regions
         /\ {batch[k] : k \in 1 .. Len(batch)} \in SUBSET Observation
<1>1. ASSUME NEW k \in 1 .. Len(batch)
      PROVE  batch[k] \in Observation /\ RegionOf[batch[k].item] \in Regions
  <2>1. batch[k] \in Observation
    OBVIOUS
  <2>2. batch[k].item \in Items
    BY <2>1 DEF Observation
  <2> QED
    BY <2>1, <2>2, OrchestratorAssumption
<1> QED
  BY <1>1 DEF RegionsOf

-----------------------------------------------------------------------------
(* Types: the two ways of assigning pc and run that actions share.          *)

LEMMA StepType ==
  ASSUME pc \in [Runs -> PCs], NEW r \in Runs, NEW from, NEW to \in PCs,
         Step(r, from, to)
  PROVE  pc' \in [Runs -> PCs]
BY DEF Step

LEMMA LeaveType ==
  ASSUME pc \in [Runs -> PCs], run \in [Runs -> RunState],
         NEW r \in Runs, NEW from, NEW to \in PCs, Leave(r, from, to)
  PROVE  pc' \in [Runs -> PCs] /\ run' \in [Runs -> RunState]
<1>1. pc' \in [Runs -> PCs]
  BY StepType DEF Leave
<1>2. run' \in [Runs -> RunState]
  BY NotStartedType DEF Leave
<1> QED
  BY <1>1, <1>2

LEMMA GiveUpType ==
  ASSUME pc \in [Runs -> PCs], run \in [Runs -> RunState],
         NEW r \in Runs, NEW from, NEW err \in JobErrors, GiveUp(r, from, err)
  PROVE  pc' \in [Runs -> PCs] /\ run' \in [Runs -> RunState]
<1>1. CASE run[r].redis
  <2>1. /\ Step(r, from, "record")
        /\ run' = [run EXCEPT ![r].attempt = 0, ![r].err = err]
    BY <1>1 DEF GiveUp
  <2>2. "record" \in PCs
    BY DEF PCs
  <2>3. pc' \in [Runs -> PCs]
    BY <2>1, <2>2, StepType
  <2>4. run' \in [Runs -> RunState]
    <3>1. run[r] \in RunState
      OBVIOUS
    <3>2. [run[r] EXCEPT !.attempt = 0, !.err = err] \in RunState
      BY <3>1, RunUpdateType
    <3>3. run' = [run EXCEPT ![r] = [run[r] EXCEPT !.attempt = 0, !.err = err]]
      BY <2>1
    <3> QED
      BY <3>2, <3>3, SetRunType
  <2> QED
    BY <2>3, <2>4
<1>2. CASE ~run[r].redis
  <2>1. Leave(r, from, "done") /\ "done" \in PCs
    BY <1>2 DEF GiveUp, PCs
  <2> QED
    BY <2>1, LeaveType
<1> QED
  BY <1>1, <1>2

-----------------------------------------------------------------------------
(* Types: one lemma for each group of actions.                              *)

LEMMA TypeAfterLock ==
  ASSUME TypeOK, NEW r \in Runs,
         \/ Start(r) \/ Acquire(r) \/ Skip(r) \/ AcquireFails(r)
         \/ AcquireReplyLost(r)
  PROVE  TypeOK'
<1>0. {"idle", "acquire", "fetch", "skipped", "done"} \subseteq PCs
  BY DEF PCs
<1>1. /\ run \in [Runs -> RunState] /\ run[r] \in RunState
      /\ pc \in [Runs -> PCs] /\ clock \in Nat
  BY DEF TypeOK, Timestamps
<1>2. ASSUME SetNX(r) PROVE lock' \in Lock
  <2>1. clock + LockTTL \in Nat
    BY <1>1, LockAssumption
  <2> QED
    BY <1>2, <2>1 DEF SetNX, Lock
<1>3. CASE Start(r)
  <2>1. PICK redis \in RedisStates :
          /\ Step(r, "idle", IF redis THEN "acquire" ELSE "fetch")
          /\ run' = [run EXCEPT ![r].deadline = clock + RunTimeout,
                                ![r].redis = redis]
    BY <1>3 DEF Start
  <2>2. redis \in BOOLEAN /\ clock + RunTimeout \in Nat
    BY <1>1, OrchestratorAssumption
  <2>3. [run[r] EXCEPT !.deadline = clock + RunTimeout, !.redis = redis] \in RunState
    BY <1>1, <2>2, RunUpdateType
  <2>4. run' = [run EXCEPT ![r] = [run[r] EXCEPT !.deadline = clock + RunTimeout,
                                                 !.redis = redis]]
    BY <2>1
  <2>5. run' \in [Runs -> RunState]
    BY <1>1, <2>3, <2>4, SetRunType
  <2>6. pc' \in [Runs -> PCs]
    BY <1>0, <1>1, <2>1, StepType
  <2> QED
    BY <1>3, <2>5, <2>6 DEF Start, TypeOK, stores, queue
<1>4. CASE Acquire(r)
  <2>1. pc' \in [Runs -> PCs]
    BY <1>0, <1>1, <1>4, StepType DEF Acquire
  <2> QED
    BY <1>2, <1>4, <2>1 DEF Acquire, TypeOK, stores, queue
<1>5. CASE Skip(r)
  <2>1. pc' \in [Runs -> PCs] /\ run' \in [Runs -> RunState]
    BY <1>0, <1>1, <1>5, LeaveType DEF Skip
  <2> QED
    BY <1>5, <2>1 DEF Skip, TypeOK, stores, queue
<1>6. CASE AcquireFails(r)
  <2>1. pc' \in [Runs -> PCs] /\ run' \in [Runs -> RunState]
    BY <1>0, <1>1, <1>6, LeaveType DEF AcquireFails
  <2> QED
    BY <1>6, <2>1 DEF AcquireFails, TypeOK, stores, queue
<1>7. CASE AcquireReplyLost(r)
  <2>1. pc' \in [Runs -> PCs] /\ run' \in [Runs -> RunState]
    BY <1>0, <1>1, <1>7, LeaveType DEF AcquireReplyLost
  <2> QED
    BY <1>2, <1>7, <2>1 DEF AcquireReplyLost, TypeOK, stores, queue
<1> QED
  BY <1>3, <1>4, <1>5, <1>6, <1>7

LEMMA TypeAfterFetch ==
  ASSUME TypeOK, NEW r \in Runs,
         BeginFetch(r) \/ FetchCancelled(r) \/ FetchReturns(r) \/ FetchFails(r)
  PROVE  TypeOK'
<1>0. {"fetch", "fetching", "persist"} \subseteq PCs /\ "ctx" \in JobErrors
  BY DEF PCs, JobErrors
<1>1. /\ run \in [Runs -> RunState] /\ run[r] \in RunState
      /\ pc \in [Runs -> PCs] /\ clock \in Timestamps
  BY DEF TypeOK
<1>2. CASE BeginFetch(r)
  <2>1. pc' \in [Runs -> PCs]
    BY <1>0, <1>1, <1>2, StepType DEF BeginFetch
  <2>2. [run[r] EXCEPT !.stamp = clock] \in RunState
    BY <1>1, RunUpdateType
  <2>3. run' = [run EXCEPT ![r] = [run[r] EXCEPT !.stamp = clock]]
    BY <1>2 DEF BeginFetch
  <2>4. run' \in [Runs -> RunState]
    BY <1>1, <2>2, <2>3, SetRunType
  <2> QED
    BY <1>2, <2>1, <2>4 DEF BeginFetch, TypeOK, stores, queue
<1>3. CASE FetchCancelled(r)
  <2>1. pc' \in [Runs -> PCs] /\ run' \in [Runs -> RunState]
    BY <1>0, <1>1, <1>3, GiveUpType DEF FetchCancelled
  <2> QED
    BY <1>3, <2>1 DEF FetchCancelled, TypeOK, stores, queue
<1>4. CASE FetchReturns(r)
  <2>1. pc' \in [Runs -> PCs]
    BY <1>0, <1>1, <1>4, StepType DEF FetchReturns
  <2>2. PICK batch \in Batches :
          run' = [run EXCEPT ![r].batch = batch, ![r].todo = batch,
                             ![r].attempt = 0, ![r].err = ""]
    BY <1>4 DEF FetchReturns
  <2>3. batch \in Seq(Observation)
    BY OrchestratorAssumption
  <2>4. [run[r] EXCEPT !.batch = batch, !.todo = batch,
                       !.attempt = 0, !.err = ""] \in RunState
    BY <1>1, <2>3, RunUpdateType
  <2>5. run' = [run EXCEPT ![r] = [run[r] EXCEPT !.batch = batch, !.todo = batch,
                                                 !.attempt = 0, !.err = ""]]
    BY <2>2
  <2>6. run' \in [Runs -> RunState]
    BY <1>1, <2>4, <2>5, SetRunType
  <2> QED
    BY <1>4, <2>1, <2>6 DEF FetchReturns, TypeOK, stores, queue
<1>5. CASE FetchFails(r)
  <2>1. PICK err \in JobErrors :
          \/ GiveUp(r, "fetching", err)
          \/ /\ Step(r, "fetching", "fetch")
             /\ run' = [run EXCEPT ![r].attempt = run[r].attempt + 1,
                                ![r].err = err]
    BY <1>0, <1>5 DEF FetchFails
  <2>2. pc' \in [Runs -> PCs] /\ run' \in [Runs -> RunState]
    <3>1. CASE GiveUp(r, "fetching", err)
      BY <1>1, <3>1, GiveUpType
    <3>2. CASE /\ Step(r, "fetching", "fetch")
               /\ run' = [run EXCEPT ![r].attempt = run[r].attempt + 1,
                                ![r].err = err]
      <4>1. pc' \in [Runs -> PCs]
        BY <1>0, <1>1, <3>2, StepType
      <4> DEFINE n == run[r].attempt + 1
      <4>2. n \in Nat
        BY <1>1, RunFieldTypes, NatSuccessor
      <4>3. run' = [run EXCEPT ![r] = [run[r] EXCEPT !.attempt = n, !.err = err]]
        BY <3>2
      <4> HIDE DEF n
      <4>4. [run[r] EXCEPT !.attempt = n, !.err = err] \in RunState
        BY <1>1, <4>2, RunUpdateType
      <4> QED
        BY <1>1, <4>1, <4>3, <4>4, SetRunType
    <3> QED
      BY <2>1, <3>1, <3>2
  <2> QED
    BY <1>5, <2>2 DEF FetchFails, TypeOK, stores, queue
<1> QED
  BY <1>2, <1>3, <1>4, <1>5

LEMMA TypeAfterRecord ==
  ASSUME TypeOK, NEW r \in Runs, ReadDLQ(r) \/ WriteDLQ(r) \/ RecordFails(r)
  PROVE  TypeOK'
<1>0. {"recording", "release"} \subseteq PCs
  BY DEF PCs
<1>1. /\ run \in [Runs -> RunState] /\ run[r] \in RunState
      /\ pc \in [Runs -> PCs] /\ dlq \in Entry /\ failures \in Nat
  BY DEF TypeOK
<1>2. ASSUME run' = [run EXCEPT ![r].seen = 0, ![r].err = ""]
      PROVE  run' \in [Runs -> RunState]
  <2>1. [run[r] EXCEPT !.seen = 0, !.err = ""] \in RunState
    BY <1>1, RunUpdateType
  <2>2. run' = [run EXCEPT ![r] = [run[r] EXCEPT !.seen = 0, !.err = ""]]
    BY <1>2
  <2> QED
    BY <1>1, <2>1, <2>2, SetRunType
<1>3. CASE ReadDLQ(r)
  <2>1. pc' \in [Runs -> PCs]
    BY <1>0, <1>1, <1>3, StepType DEF ReadDLQ
  <2>2. dlq.count \in Nat
    BY <1>1 DEF Entry
  <2>3. [run[r] EXCEPT !.seen = dlq.count] \in RunState
    BY <1>1, <2>2, RunUpdateType
  <2>4. run' = [run EXCEPT ![r] = [run[r] EXCEPT !.seen = dlq.count]]
    BY <1>3 DEF ReadDLQ
  <2>5. run' \in [Runs -> RunState]
    BY <1>1, <2>3, <2>4, SetRunType
  <2> QED
    BY <1>3, <2>1, <2>5 DEF ReadDLQ, TypeOK, stores, queue
<1>4. CASE WriteDLQ(r)
  <2>1. pc' \in [Runs -> PCs]
    BY <1>0, <1>1, <1>4, StepType DEF WriteDLQ
  <2>2. run[r].seen \in Nat /\ run[r].err \in JobErrors \cup {""}
    BY <1>1, RunFieldTypes
  <2>3. PICK status \in EntryStatuses(run[r].err) :
          dlq' = NextEntry(run[r].seen, run[r].err, status)
    BY <1>4 DEF WriteDLQ, SetEntry
  <2>4. status \in {"failed", "blocked"}
    BY DEF EntryStatuses
  <2>5. dlq' \in Entry
    <3>1. run[r].seen + 1 \in Nat
      BY <2>2, NatSuccessor
    <3> QED
      BY <2>2, <2>3, <2>4, <3>1 DEF NextEntry, Entry
  <2>6. failures' \in Nat /\ run' \in [Runs -> RunState]
    BY <1>1, <1>2, <1>4, NatSuccessor DEF WriteDLQ
  <2> QED
    BY <1>4, <2>1, <2>5, <2>6 DEF WriteDLQ, TypeOK, stores
<1>5. CASE RecordFails(r)
  <2>1. pc' \in [Runs -> PCs]
    BY <1>0, <1>1, <1>5, StepType DEF RecordFails
  <2> QED
    BY <1>2, <1>5, <2>1 DEF RecordFails, TypeOK, stores, queue
<1> QED
  BY <1>3, <1>4, <1>5

LEMMA TypeAfterLookup ==
  ASSUME TypeOK, NEW r \in Runs, Lookup(r) \/ LookupFails(r)
  PROVE  TypeOK'
<1>1. /\ run \in [Runs -> RunState] /\ run[r] \in RunState
      /\ pc \in [Runs -> PCs] /\ rows \in [Items -> Seq(Row)]
  BY DEF TypeOK
<1>2. "write" \in PCs
  BY DEF PCs
<1>3. pc' \in [Runs -> PCs]
  BY <1>1, <1>2, StepType DEF Lookup, LookupFails
<1>4. run[r].todo # <<>> /\ run[r].todo \in Seq(Observation)
  BY <1>1, RunFieldTypes DEF Lookup, LookupFails
<1> DEFINE h == rows[CurrentObs(r).item]
           found == IF h = <<>> THEN NoPrior
                                ELSE Found(LatestId(h), h[LatestId(h)])
<1>5. h \in Seq(Row)
  BY <1>1, <1>4, TodoType DEF CurrentObs
<1>6. found \in Prior /\ FailedLookup \in Prior
  BY <1>5, NoPriorType, FoundType
<1>7. PICK p \in Prior : run' = [run EXCEPT ![r].prior = p]
  BY <1>6 DEF Lookup, LookupFails
<1>8. [run[r] EXCEPT !.prior = p] \in RunState
  BY <1>1, RunUpdateType
<1>9. run' = [run EXCEPT ![r] = [run[r] EXCEPT !.prior = p]]
  BY <1>7
<1>10. run' \in [Runs -> RunState]
  BY <1>1, <1>8, <1>9, SetRunType
<1> QED
  BY <1>3, <1>10 DEF Lookup, LookupFails, TypeOK, stores, queue

LEMMA TypeAfterWrite ==
  ASSUME TypeOK, NEW r \in Runs, run[r].todo # <<>>,
         BumpLastSeen(r) \/ InsertRow(r) \/ WriteFails(r)
  PROVE  TypeOK'
<1>1. /\ run \in [Runs -> RunState] /\ run[r] \in RunState
      /\ pc \in [Runs -> PCs] /\ rows \in [Items -> Seq(Row)]
      /\ blind \subseteq Items \X Timestamps
  BY DEF TypeOK
<1>2. "persist" \in PCs
  BY DEF PCs
<1>3. pc' \in [Runs -> PCs]
  BY <1>1, <1>2, StepType DEF BumpLastSeen, InsertRow, WriteFails
<1>4. run[r].todo \in Seq(Observation) /\ run[r].stamp \in Timestamps
  BY <1>1, RunFieldTypes
<1> DEFINE todo == Tail(run[r].todo)
           obs  == CurrentObs(r)
           i    == obs.item
           t    == run[r].stamp
           row  == NewRow(obs, t, StatusOf(run[r].prior, obs))
<1>5. todo \in Seq(Observation) /\ obs \in Observation /\ i \in Items
  BY <1>4, TodoType DEF CurrentObs
<1>6. run' = [run EXCEPT ![r] = [run[r] EXCEPT !.todo = todo, !.prior = NoPrior]]
  BY DEF BumpLastSeen, InsertRow, WriteFails, NextObs
<1>7. run' \in [Runs -> RunState]
  <2> HIDE DEF todo
  <2>1. [run[r] EXCEPT !.todo = todo, !.prior = NoPrior] \in RunState
    BY <1>1, <1>5, NoPriorType, RunUpdateType
  <2> QED
    BY <1>1, <1>6, <2>1, SetRunType
<1>8. CASE BumpLastSeen(r)
  <2>1. UpdateLastSeenAt(rows[i], run[r].prior.id, t) \in Seq(Row)
    BY <1>1, <1>4, <1>5, UpdateType
  <2>2. rows' = [rows EXCEPT ![i] = UpdateLastSeenAt(rows[i], run[r].prior.id, t)]
    BY <1>8 DEF BumpLastSeen
  <2>3. rows' \in [Items -> Seq(Row)]
    BY <1>1, <1>5, <2>1, <2>2
  <2> QED
    BY <1>3, <1>7, <1>8, <2>3 DEF BumpLastSeen, TypeOK, stores, queue
<1>9. CASE InsertRow(r)
  <2>1. StatusOf(run[r].prior, obs) \in AnomalyStatuses
    BY AnomalyStatusType DEF StatusOf, AnomalyStatuses
  <2>2. row \in Row
    BY <1>4, <1>5, <2>1, NewRowType
  <2>3. InsertPriceObservation(rows[i], row) \in Seq(Row)
    BY <1>1, <1>5, <2>2, InsertType
  <2>4. rows' = [rows EXCEPT ![i] = InsertPriceObservation(rows[i], row)]
    BY <1>9 DEF InsertRow
  <2>5. rows' \in [Items -> Seq(Row)]
    BY <1>1, <1>5, <2>3, <2>4
  <2>6. blind' \in {blind, blind \cup {<<i, t>>}}
    BY <1>9 DEF InsertRow
  <2>7. blind' \subseteq Items \X Timestamps
    BY <1>1, <1>4, <1>5, <2>6
  <2> QED
    BY <1>3, <1>7, <1>9, <2>5, <2>7 DEF InsertRow, TypeOK, queue
<1>10. CASE WriteFails(r)
  BY <1>3, <1>7, <1>10 DEF WriteFails, TypeOK, stores, queue
<1> QED
  BY <1>8, <1>9, <1>10

LEMMA TypeAfterPersist ==
  ASSUME TypeOK, NEW r \in Runs,
         \/ PersistDone(r) \/ ClearDLQ(r) \/ ClearFails(r)
         \/ \E g \in Regions : Warm(r, g)
         \/ WarmDone(r) \/ Release(r) \/ ReleaseFails(r) \/ Crash(r)
  PROVE  TypeOK'
<1>0. {"clear", "warm", "release", "done", "crashed"} \subseteq PCs
  BY DEF PCs
<1>1. /\ run \in [Runs -> RunState] /\ run[r] \in RunState
      /\ pc \in [Runs -> PCs] /\ cache \in [Regions -> CacheEntry]
  BY DEF TypeOK
<1>2. /\ run[r].batch \in Seq(Observation) /\ run[r].stamp \in Timestamps
      /\ run[r].unwarmed \in SUBSET Regions
  BY <1>1, RunFieldTypes
<1>3. ASSUME NEW G \in SUBSET Regions, run' = [run EXCEPT ![r].unwarmed = G]
      PROVE  run' \in [Runs -> RunState]
  <2>1. [run[r] EXCEPT !.unwarmed = G] \in RunState
    BY <1>1, RunUpdateType
  <2>2. run' = [run EXCEPT ![r] = [run[r] EXCEPT !.unwarmed = G]]
    BY <1>3
  <2> QED
    BY <1>1, <2>1, <2>2, SetRunType
<1>4. CASE PersistDone(r)
  <2>1. CASE run[r].redis
    <3>1. /\ Step(r, "persist", "clear")
          /\ run' = [run EXCEPT ![r].unwarmed = RegionsOf(run[r].batch)]
      BY <1>4, <2>1 DEF PersistDone
    <3>2. pc' \in [Runs -> PCs]
      BY <1>0, <1>1, <3>1, StepType
    <3>3. run' \in [Runs -> RunState]
      BY <1>2, <1>3, <3>1, BatchRegions
    <3> QED
      BY <1>4, <3>2, <3>3 DEF PersistDone, TypeOK, stores, queue
  <2>2. CASE ~run[r].redis
    <3>1. Leave(r, "persist", "done")
      BY <1>4, <2>2 DEF PersistDone
    <3>2. pc' \in [Runs -> PCs] /\ run' \in [Runs -> RunState]
      BY <1>0, <1>1, <3>1, LeaveType
    <3> QED
      BY <1>4, <3>2 DEF PersistDone, TypeOK, stores, queue
  <2> QED
    BY <2>1, <2>2
<1>5. CASE ClearDLQ(r)
  <2>1. pc' \in [Runs -> PCs]
    BY <1>0, <1>1, <1>5, StepType DEF ClearDLQ
  <2>2. dlq' \in Entry /\ failures' \in Nat
    BY <1>5 DEF ClearDLQ, DelEntry, NoEntry, Entry
  <2> QED
    BY <1>5, <2>1, <2>2 DEF ClearDLQ, TypeOK, stores
<1>6. CASE ClearFails(r)
  <2>1. pc' \in [Runs -> PCs]
    BY <1>0, <1>1, <1>6, StepType DEF ClearFails
  <2> QED
    BY <1>6, <2>1 DEF ClearFails, TypeOK, stores, queue
<1>7. ASSUME NEW g \in Regions, Warm(r, g) PROVE TypeOK'
  <2> DEFINE G == run[r].unwarmed \ {g}
  <2>1. run' \in [Runs -> RunState]
    <3>1. G \in SUBSET Regions
      BY <1>2
    <3>2. run' = [run EXCEPT ![r].unwarmed = G]
      BY <1>7 DEF Warm
    <3> HIDE DEF G
    <3> QED
      BY <1>3, <3>1, <3>2
  <2>2. ListOf(r, g) \in CacheEntry
    BY <1>2, BatchRegions DEF ListOf, CacheEntry
  <2>3. cache' \in [Regions -> CacheEntry]
    BY <1>1, <1>7, <2>2 DEF Warm
  <2> QED
    BY <1>7, <2>1, <2>3 DEF Warm, TypeOK, stores, queue
<1>8. CASE WarmDone(r)
  <2>1. pc' \in [Runs -> PCs]
    BY <1>0, <1>1, <1>8, StepType DEF WarmDone
  <2> QED
    BY <1>8, <2>1 DEF WarmDone, TypeOK, stores, queue
<1>9. CASE Release(r)
  <2>1. pc' \in [Runs -> PCs] /\ run' \in [Runs -> RunState]
    BY <1>0, <1>1, <1>9, LeaveType DEF Release
  <2>2. lock' \in Lock
    BY <1>9 DEF Release, ReleaseScript, Unlocked, Lock, TypeOK
  <2> QED
    BY <1>9, <2>1, <2>2 DEF Release, TypeOK, stores, queue
<1>10. CASE ReleaseFails(r)
  <2>1. pc' \in [Runs -> PCs] /\ run' \in [Runs -> RunState]
    BY <1>0, <1>1, <1>10, LeaveType DEF ReleaseFails
  <2> QED
    BY <1>10, <2>1 DEF ReleaseFails, TypeOK, stores, queue
<1>11. CASE Crash(r)
  <2>1. pc' \in [Runs -> PCs] /\ run' \in [Runs -> RunState]
    BY <1>0, <1>1, <1>11, LeaveType DEF Crash
  <2> QED
    BY <1>11, <2>1 DEF Crash, TypeOK, stores, queue
<1> QED
  BY <1>4, <1>5, <1>6, <1>7, <1>8, <1>9, <1>10, <1>11

-----------------------------------------------------------------------------
(* Types: the specification.                                                *)

LEMMA TypeInit == Init => TypeOK /\ WritesSomething
<1> SUFFICES ASSUME Init PROVE TypeOK /\ WritesSomething
  OBVIOUS
<1>1. {"idle"} \subseteq PCs /\ <<>> \in Seq(Row)
  BY DEF PCs
<1>2. Unlocked \in Lock /\ NoEntry \in Entry /\ Uncached \in CacheEntry
  BY ZeroTimestamp DEF Unlocked, Lock, NoEntry, Entry, Uncached, CacheEntry
<1> QED
  BY <1>1, <1>2, NotStartedType, ZeroTimestamp
     DEF Init, TypeOK, WritesSomething

LEMMA TypeNext == TypeOK /\ WritesSomething /\ [Next]_vars => TypeOK'
<1> SUFFICES ASSUME TypeOK, WritesSomething, [Next]_vars PROVE TypeOK'
  OBVIOUS
<1>1. ASSUME NEW r \in Runs, Start(r) \/ Proceed(r) \/ Crash(r)
      PROVE  TypeOK'
  <2>1. BumpLastSeen(r) \/ InsertRow(r) \/ WriteFails(r) => run[r].todo # <<>>
    BY DEF WritesSomething, BumpLastSeen, InsertRow, WriteFails, Step
  <2> QED
    BY <1>1, <2>1, TypeAfterLock, TypeAfterFetch, TypeAfterRecord,
       TypeAfterLookup, TypeAfterWrite, TypeAfterPersist
       DEF Proceed
<1>2. CASE Tick
  BY <1>2, PriceAssumption DEF Tick, TypeOK, Timestamps, stores, queue
<1>3. CASE UNCHANGED vars
  BY <1>3 DEF vars, TypeOK
<1> QED
  BY <1>1, <1>2, <1>3 DEF Next, Finished

-----------------------------------------------------------------------------
(* What a step of an execution does to its own and to the others' state.    *)

LEMMA LeaveEffect ==
  ASSUME TypeOK, NEW r \in Runs, NEW from, NEW to, Leave(r, from, to)
  PROVE  /\ pc[r] = from /\ pc'[r] = to /\ run'[r] = NotStarted
         /\ \A s \in Runs \ {r} : pc'[s] = pc[s] /\ run'[s] = run[s]
BY DEF TypeOK, Leave, Step

LEMMA GiveUpEffect ==
  ASSUME TypeOK, NEW r \in Runs, NEW from, NEW err, GiveUp(r, from, err)
  PROVE  /\ pc[r] = from
         /\ \/ pc'[r] = "done"
            \/ /\ pc'[r] = "record" /\ run[r].redis
               /\ run'[r].deadline = run[r].deadline /\ run'[r].redis = run[r].redis
         /\ \A s \in Runs \ {r} : pc'[s] = pc[s] /\ run'[s] = run[s]
<1>0. run[r] \in RunState /\ run \in [Runs -> RunState] /\ pc \in [Runs -> PCs]
  BY DEF TypeOK
<1>1. CASE run[r].redis
  <2> DEFINE x == [run[r] EXCEPT !.attempt = 0, !.err = err]
  <2>1. Step(r, from, "record") /\ run' = [run EXCEPT ![r] = x]
    BY <1>1 DEF GiveUp
  <2>2. x.deadline = run[r].deadline /\ x.redis = run[r].redis
    BY <1>0 DEF RunState
  <2> HIDE DEF x
  <2> QED
    BY <1>0, <1>1, <2>1, <2>2 DEF Step
<1>2. CASE ~run[r].redis
  BY <1>2, LeaveEffect DEF GiveUp
<1> QED
  BY <1>1, <1>2

\* The actions in the middle of the job change neither the lock nor what the
\* execution's claim to it rests on.
Stays(r) ==
  /\ Active(r) /\ pc[r] # "acquire"
  /\ pc'[r] \notin {"idle", "acquire", "skipped", "crashed"}
  /\ pc'[r] # "done"
  /\ pc'[r] \in RedisOnly => run[r].redis \/ pc[r] \in RedisOnly
  /\ run'[r].deadline = run[r].deadline /\ run'[r].redis = run[r].redis
  /\ lock' = lock

\* The execution takes the lock-protected part of the job up or leaves it.
Enters(r) ==
  /\ Start(r) /\ pc[r] = "idle" /\ lock' = lock
  /\ run'[r].deadline = clock + RunTimeout
  /\ \/ pc'[r] = "acquire" /\ run'[r].redis
     \/ pc'[r] = "fetch" /\ ~run'[r].redis

Takes(r) ==
  /\ pc[r] = "acquire" /\ SetNX(r)
  /\ \/ pc'[r] \in {"skipped", "done"}
     \/ pc'[r] = "fetch" /\ run'[r] = run[r]

Leaves(r) ==
  /\ Active(r)
  /\ pc'[r] \in {"done", "skipped", "crashed"}
  /\ lock' = lock \/ ReleaseScript(r)

\* What r's step leaves alone of the others.
OthersStay(r) ==
  /\ clock' = clock
  /\ \A s \in Runs \ {r} : pc'[s] = pc[s] /\ run'[s] = run[s]

LEMMA LockStepEffect ==
  ASSUME TypeOK, NEW r \in Runs,
         \/ Start(r) \/ Acquire(r) \/ Skip(r) \/ AcquireFails(r)
         \/ AcquireReplyLost(r) \/ Release(r) \/ ReleaseFails(r) \/ Crash(r)
  PROVE  OthersStay(r) /\ (Enters(r) \/ Takes(r) \/ Leaves(r))
<1>0. run[r] \in RunState /\ run \in [Runs -> RunState] /\ pc \in [Runs -> PCs]
  BY DEF TypeOK
<1>1. CASE Start(r)
  <2>1. PICK redis \in RedisStates :
          /\ Step(r, "idle", IF redis THEN "acquire" ELSE "fetch")
          /\ run' = [run EXCEPT ![r].deadline = clock + RunTimeout,
                                ![r].redis = redis]
    BY <1>1 DEF Start
  <2> DEFINE x == [run[r] EXCEPT !.deadline = clock + RunTimeout, !.redis = redis]
  <2>2. run' = [run EXCEPT ![r] = x]
    BY <2>1
  <2>3. x.deadline = clock + RunTimeout /\ x.redis = redis
    BY <1>0 DEF RunState
  <2>4. redis \in BOOLEAN
    BY OrchestratorAssumption
  <2> HIDE DEF x
  <2>5. OthersStay(r)
    BY <1>0, <1>1, <2>1, <2>2 DEF Start, Step, OthersStay
  <2>6. Enters(r)
    BY <1>0, <1>1, <2>1, <2>2, <2>3, <2>4 DEF Start, Step, Enters
  <2> QED
    BY <2>5, <2>6
<1>2. CASE Acquire(r)
  BY <1>0, <1>2 DEF Acquire, Step, Takes, OthersStay
<1>3. CASE AcquireReplyLost(r)
  <2>1. PICK to \in {"skipped", "done"} : Leave(r, "acquire", to)
    BY <1>3 DEF AcquireReplyLost
  <2> QED
    BY <1>3, <2>1, LeaveEffect DEF AcquireReplyLost, Takes, OthersStay
<1>4. CASE Skip(r) \/ AcquireFails(r) \/ Release(r) \/ ReleaseFails(r)
  <2>1. PICK from \in {"acquire", "release"}, to \in {"skipped", "done"} :
          Leave(r, from, to)
    BY <1>4 DEF Skip, AcquireFails, Release, ReleaseFails
  <2>2. clock' = clock /\ (lock' = lock \/ ReleaseScript(r))
    BY <1>4 DEF Skip, AcquireFails, Release, ReleaseFails
  <2> QED
    BY <2>1, <2>2, LeaveEffect DEF Leaves, Active, OthersStay
<1>5. CASE Crash(r)
  <2>1. Leave(r, pc[r], "crashed") /\ Active(r) /\ clock' = clock /\ lock' = lock
    BY <1>5 DEF Crash
  <2> QED
    BY <2>1, LeaveEffect DEF Leaves, OthersStay
<1> QED
  BY <1>1, <1>2, <1>3, <1>4, <1>5

LEMMA JobStepEffect ==
  ASSUME TypeOK, NEW r \in Runs,
         \/ BeginFetch(r) \/ FetchCancelled(r) \/ FetchReturns(r) \/ FetchFails(r)
         \/ ReadDLQ(r) \/ WriteDLQ(r) \/ RecordFails(r)
         \/ Lookup(r) \/ LookupFails(r)
         \/ BumpLastSeen(r) \/ InsertRow(r) \/ WriteFails(r) \/ PersistDone(r)
         \/ ClearDLQ(r) \/ ClearFails(r) \/ (\E g \in Regions : Warm(r, g))
         \/ WarmDone(r)
  PROVE  OthersStay(r) /\ (Stays(r) \/ Leaves(r))
<1>0. run[r] \in RunState /\ run \in [Runs -> RunState] /\ pc \in [Runs -> PCs]
  BY DEF TypeOK
<1>1. clock' = clock /\ lock' = lock
  BY DEF BeginFetch, FetchCancelled, FetchReturns, FetchFails, ReadDLQ, WriteDLQ,
         RecordFails, Lookup, LookupFails, BumpLastSeen, InsertRow, WriteFails,
         PersistDone, ClearDLQ, ClearFails, Warm, WarmDone
<1>2. ASSUME NEW x, run' = [run EXCEPT ![r] = x],
             x.deadline = run[r].deadline, x.redis = run[r].redis,
             NEW from, NEW to, Step(r, from, to),
             from \in {"fetch", "fetching", "record", "recording", "persist",
                       "write", "clear", "warm"},
             to \in {"fetch", "fetching", "record", "recording", "persist",
                     "write", "clear", "warm", "release"},
             to \in RedisOnly => run[r].redis \/ from \in RedisOnly
      PROVE  OthersStay(r) /\ Stays(r)
  BY <1>0, <1>1, <1>2 DEF Step, OthersStay, Stays, Active
<1>3. CASE BeginFetch(r)
  <2> DEFINE x == [run[r] EXCEPT !.stamp = clock]
  <2>1. run' = [run EXCEPT ![r] = x] /\ Step(r, "fetch", "fetching")
    BY <1>3 DEF BeginFetch
  <2>2. x.deadline = run[r].deadline /\ x.redis = run[r].redis
    BY <1>0 DEF RunState
  <2> HIDE DEF x
  <2> QED
    BY <1>2, <2>1, <2>2 DEF RedisOnly
<1>4. ASSUME NEW from \in {"fetch", "fetching"}, NEW err, GiveUp(r, from, err)
      PROVE  OthersStay(r) /\ (Stays(r) \/ Leaves(r))
  BY <1>1, <1>4, GiveUpEffect DEF OthersStay, Stays, Leaves, Active
<1>5. CASE FetchCancelled(r)
  BY <1>4, <1>5 DEF FetchCancelled
<1>6. CASE FetchReturns(r)
  <2>1. PICK batch \in Batches :
          run' = [run EXCEPT ![r].batch = batch, ![r].todo = batch,
                             ![r].attempt = 0, ![r].err = ""]
    BY <1>6 DEF FetchReturns
  <2> DEFINE x == [run[r] EXCEPT !.batch = batch, !.todo = batch,
                                 !.attempt = 0, !.err = ""]
  <2>2. run' = [run EXCEPT ![r] = x] /\ Step(r, "fetching", "persist")
    BY <1>6, <2>1 DEF FetchReturns
  <2>3. x.deadline = run[r].deadline /\ x.redis = run[r].redis
    BY <1>0 DEF RunState
  <2> HIDE DEF x
  <2> QED
    BY <1>2, <2>2, <2>3 DEF RedisOnly
<1>7. CASE FetchFails(r)
  <2>1. PICK err \in JobErrors :
          \/ GiveUp(r, "fetching", err)
          \/ /\ Step(r, "fetching", "fetch")
             /\ run' = [run EXCEPT ![r].attempt = run[r].attempt + 1,
                                   ![r].err = err]
    BY <1>7 DEF FetchFails, JobErrors
  <2>2. CASE GiveUp(r, "fetching", err)
    BY <1>4, <2>2
  <2>3. CASE /\ Step(r, "fetching", "fetch")
             /\ run' = [run EXCEPT ![r].attempt = run[r].attempt + 1,
                                   ![r].err = err]
    <3> DEFINE x == [run[r] EXCEPT !.attempt = run[r].attempt + 1, !.err = err]
    <3>1. run' = [run EXCEPT ![r] = x]
      BY <2>3
    <3>2. x.deadline = run[r].deadline /\ x.redis = run[r].redis
      BY <1>0 DEF RunState
    <3> HIDE DEF x
    <3> QED
      BY <1>2, <2>3, <3>1, <3>2 DEF RedisOnly
  <2> QED
    BY <2>1, <2>2, <2>3
<1>8. CASE ReadDLQ(r)
  <2> DEFINE x == [run[r] EXCEPT !.seen = dlq.count]
  <2>1. run' = [run EXCEPT ![r] = x] /\ Step(r, "record", "recording")
    BY <1>8 DEF ReadDLQ
  <2>2. x.deadline = run[r].deadline /\ x.redis = run[r].redis
    BY <1>0 DEF RunState
  <2> HIDE DEF x
  <2> QED
    BY <1>2, <2>1, <2>2 DEF RedisOnly
<1>9. CASE WriteDLQ(r) \/ RecordFails(r)
  <2> DEFINE x == [run[r] EXCEPT !.seen = 0, !.err = ""]
  <2>1. /\ run' = [run EXCEPT ![r] = x]
        /\ Step(r, "record", "release") \/ Step(r, "recording", "release")
    BY <1>9 DEF WriteDLQ, RecordFails
  <2>2. x.deadline = run[r].deadline /\ x.redis = run[r].redis
    BY <1>0 DEF RunState
  <2> HIDE DEF x
  <2> QED
    BY <1>2, <2>1, <2>2 DEF RedisOnly
<1>10. CASE Lookup(r) \/ LookupFails(r)
  <2>1. Step(r, "persist", "write") /\ \E p : run' = [run EXCEPT ![r].prior = p]
    BY <1>10 DEF Lookup, LookupFails
  <2>2. PICK p : run' = [run EXCEPT ![r].prior = p]
    BY <2>1
  <2> DEFINE x == [run[r] EXCEPT !.prior = p]
  <2>3. run' = [run EXCEPT ![r] = x]
    BY <2>2
  <2>4. x.deadline = run[r].deadline /\ x.redis = run[r].redis
    BY <1>0 DEF RunState
  <2> HIDE DEF x
  <2> QED
    BY <1>2, <2>1, <2>3, <2>4 DEF RedisOnly
<1>11. CASE BumpLastSeen(r) \/ InsertRow(r) \/ WriteFails(r)
  <2> DEFINE x == [run[r] EXCEPT !.todo = Tail(run[r].todo), !.prior = NoPrior]
  <2>1. run' = [run EXCEPT ![r] = x] /\ Step(r, "write", "persist")
    BY <1>11 DEF BumpLastSeen, InsertRow, WriteFails, NextObs
  <2>2. x.deadline = run[r].deadline /\ x.redis = run[r].redis
    BY <1>0 DEF RunState
  <2> HIDE DEF x
  <2> QED
    BY <1>2, <2>1, <2>2 DEF RedisOnly
<1>12. CASE PersistDone(r)
  <2>1. CASE run[r].redis
    <3> DEFINE x == [run[r] EXCEPT !.unwarmed = RegionsOf(run[r].batch)]
    <3>1. run' = [run EXCEPT ![r] = x] /\ Step(r, "persist", "clear")
      BY <1>12, <2>1 DEF PersistDone
    <3>2. x.deadline = run[r].deadline /\ x.redis = run[r].redis
      BY <1>0 DEF RunState
    <3> HIDE DEF x
    <3> QED
      BY <1>2, <2>1, <3>1, <3>2 DEF RedisOnly
  <2>2. CASE ~run[r].redis
    <3>1. Leave(r, "persist", "done")
      BY <1>12, <2>2 DEF PersistDone
    <3> QED
      BY <1>1, <3>1, LeaveEffect DEF OthersStay, Leaves, Active
  <2> QED
    BY <2>1, <2>2
<1>13. CASE ClearDLQ(r) \/ ClearFails(r) \/ WarmDone(r)
  <2>1. /\ run' = [run EXCEPT ![r] = run[r]]
        /\ Step(r, "clear", "warm") \/ Step(r, "warm", "release")
    BY <1>0, <1>13 DEF ClearDLQ, ClearFails, WarmDone
  <2> QED
    BY <1>2, <2>1 DEF RedisOnly
<1>14. ASSUME NEW g \in Regions, Warm(r, g)
       PROVE  OthersStay(r) /\ Stays(r)
  <2> DEFINE x == [run[r] EXCEPT !.unwarmed = run[r].unwarmed \ {g}]
  <2>1. run' = [run EXCEPT ![r] = x] /\ Step(r, "warm", "warm")
    BY <1>0, <1>14 DEF Warm, Step
  <2>2. x.deadline = run[r].deadline /\ x.redis = run[r].redis
    BY <1>0 DEF RunState
  <2> HIDE DEF x
  <2> QED
    BY <1>2, <2>1, <2>2 DEF RedisOnly
<1> QED
  BY <1>3, <1>5, <1>6, <1>7, <1>8, <1>9, <1>10, <1>11, <1>12, <1>13, <1>14

LEMMA StepEffect ==
  ASSUME TypeOK, NEW r \in Runs, Start(r) \/ Proceed(r) \/ Crash(r)
  PROVE  OthersStay(r) /\ (Enters(r) \/ Takes(r) \/ Stays(r) \/ Leaves(r))
BY LockStepEffect, JobStepEffect DEF Proceed

\* The actions that lead to the places the invariants speak of.
LEMMA WaysIn ==
  ASSUME TypeOK, NEW r \in Runs, Start(r) \/ Proceed(r) \/ Crash(r)
  PROVE  /\ pc'[r] = "fetching"  => BeginFetch(r)
         /\ pc'[r] = "recording" => ReadDLQ(r)
         /\ pc'[r] = "write"     => Lookup(r) \/ LookupFails(r)
         /\ pc'[r] = "persist"
              => FetchReturns(r) \/ BumpLastSeen(r) \/ InsertRow(r) \/ WriteFails(r)
<1> DEFINE Spots == {"fetching", "recording", "write", "persist"}
<1>0. pc \in [Runs -> PCs]
  BY DEF TypeOK
<1>1. ASSUME NEW from, NEW to, Step(r, from, to) PROVE pc'[r] = to
  BY <1>0, <1>1 DEF Step
<1>2. ASSUME NEW from, NEW to, Leave(r, from, to) PROVE pc'[r] = to
  BY <1>1, <1>2 DEF Leave
<1>3. ASSUME NEW from, NEW err, GiveUp(r, from, err) PROVE pc'[r] \notin Spots
  BY <1>1, <1>2, <1>3 DEF GiveUp
<1>4. CASE BeginFetch(r)
  BY <1>1, <1>4 DEF BeginFetch
<1>5. CASE ReadDLQ(r)
  BY <1>1, <1>5 DEF ReadDLQ
<1>6. CASE Lookup(r) \/ LookupFails(r)
  BY <1>1, <1>6 DEF Lookup, LookupFails
<1>7. CASE FetchReturns(r) \/ BumpLastSeen(r) \/ InsertRow(r) \/ WriteFails(r)
  BY <1>1, <1>7 DEF FetchReturns, BumpLastSeen, InsertRow, WriteFails
<1>8. CASE \/ Start(r) \/ Acquire(r) \/ WriteDLQ(r) \/ RecordFails(r)
           \/ ClearDLQ(r) \/ ClearFails(r) \/ WarmDone(r)
  <2>1. pc'[r] \notin Spots
    BY <1>1, <1>8 DEF Start, Acquire, WriteDLQ, RecordFails, ClearDLQ, ClearFails, WarmDone
  <2> QED
    BY <2>1
<1>9. CASE \/ Skip(r) \/ AcquireFails(r) \/ AcquireReplyLost(r)
           \/ Release(r) \/ ReleaseFails(r) \/ Crash(r)
  <2>1. pc'[r] \notin Spots
    BY <1>2, <1>9 DEF Skip, AcquireFails, AcquireReplyLost, Release, ReleaseFails, Crash
  <2> QED
    BY <2>1
<1>10. CASE FetchCancelled(r) \/ FetchFails(r)
  <2>1. pc'[r] \notin Spots
    BY <1>1, <1>3, <1>10 DEF FetchCancelled, FetchFails
  <2> QED
    BY <2>1
<1>11. CASE PersistDone(r)
  BY <1>1, <1>2, <1>11 DEF PersistDone
<1>12. CASE \E g \in Regions : Warm(r, g)
  BY <1>12 DEF Warm
<1> QED
  BY <1>4, <1>5, <1>6, <1>7, <1>8, <1>9, <1>10, <1>11, <1>12 DEF Proceed

-----------------------------------------------------------------------------
(* Mutual exclusion.                                                        *)

\* LockInv, said of one execution.
LockInvOf(r) ==
  /\ Active(r) => run[r].deadline <= clock + RunTimeout
  /\ pc[r] \in RedisOnly => run[r].redis
  /\ InJob(r) /\ ~Expired(r) => lock.holder = r /\ run[r].deadline <= lock.expires

LEMMA LockInvIsPerRun == LockInv <=> \A r \in Runs : LockInvOf(r)
BY DEF LockInv, LockInvOf

\* The lock of a live execution is not free: SETNX fails for everybody else.
LEMMA LiveJobKeepsLock ==
  ASSUME TypeOK, LockInv, NEW s \in Runs, InJob(s), ~Expired(s)
  PROVE  ~LockFree /\ lock.holder = s
<1>1. lock.holder = s /\ run[s].deadline <= lock.expires /\ clock < run[s].deadline
  <2>1. clock \in Nat /\ run[s] \in RunState
    BY DEF TypeOK, Timestamps
  <2>2. run[s].deadline \in Nat
    BY <2>1, RunFieldTypes
  <2> QED
    BY <2>1, <2>2 DEF LockInv, Expired
<1>2. clock \in Nat /\ lock.expires \in Nat /\ run[s].deadline \in Nat
  <2>1. clock \in Nat /\ run[s] \in RunState /\ lock \in Lock
    BY DEF TypeOK, Timestamps
  <2> QED
    BY <2>1, RunFieldTypes DEF Lock
<1>3. lock.holder # NoRun
  BY <1>1, LockAssumption
<1> QED
  BY <1>1, <1>2, <1>3 DEF LockFree

LEMMA LockInvInit == Init => LockInv
BY DEF Init, LockInv, Active, InJob, RedisOnly

LEMMA LockInvNext == TypeOK /\ LockInv /\ [Next]_vars => LockInv'
<1> SUFFICES ASSUME TypeOK, LockInv, [Next]_vars, NEW s \in Runs
             PROVE  LockInvOf(s)'
  BY LockInvIsPerRun DEF LockInv, LockInvOf
<1>0. LockInvOf(s)
  BY LockInvIsPerRun
<1>1. /\ clock \in Nat /\ lock.expires \in Nat /\ run[s].deadline \in Nat
      /\ RunTimeout \in Nat /\ LockTTL \in Nat /\ RunTimeout <= LockTTL
  <2>1. clock \in Nat /\ run[s] \in RunState /\ lock \in Lock
    BY DEF TypeOK, Timestamps
  <2> QED
    BY <2>1, RunFieldTypes, LockAssumption, OrchestratorAssumption DEF Lock
<1>2. CASE UNCHANGED vars
  BY <1>0, <1>2 DEF vars, LockInvOf, Active, InJob, Expired
<1>3. CASE Tick
  <2>1. /\ clock' = clock + 1
        /\ pc' = pc /\ run' = run /\ lock' = lock
    BY <1>3 DEF Tick
  <2> QED
    BY <1>0, <1>1, <2>1 DEF LockInvOf, Active, InJob, Expired
<1>4. ASSUME NEW r \in Runs, Start(r) \/ Proceed(r) \/ Crash(r)
      PROVE  LockInvOf(s)'
  <2>1. OthersStay(r) /\ (Enters(r) \/ Takes(r) \/ Stays(r) \/ Leaves(r))
    BY <1>4, StepEffect
  <2>2. CASE s = r
    <3>1. CASE Enters(r)
      BY <1>1, <2>1, <2>2, <3>1
         DEF Enters, OthersStay, LockInvOf, Active, InJob, Expired, RedisOnly
    <3>2. CASE Takes(r)
      BY <1>0, <1>1, <2>1, <2>2, <3>2
         DEF Takes, OthersStay, SetNX, LockInvOf, Active, InJob, Expired, RedisOnly
    <3>3. CASE Stays(r)
      BY <1>0, <2>1, <2>2, <3>3
         DEF Stays, OthersStay, LockInvOf, Active, InJob, Expired
    <3>4. CASE Leaves(r)
      BY <2>2, <3>4 DEF Leaves, LockInvOf, Active, InJob, RedisOnly
    <3> QED
      BY <2>1, <3>1, <3>2, <3>3, <3>4
  <2>3. CASE s # r
    <3>1. clock' = clock /\ pc'[s] = pc[s] /\ run'[s] = run[s]
      BY <2>1, <2>3 DEF OthersStay
    <3>2. InJob(s) /\ ~Expired(s) => lock' = lock
      <4> SUFFICES ASSUME InJob(s), ~Expired(s) PROVE lock' = lock
        OBVIOUS
      <4>1. ~LockFree /\ lock.holder = s
        BY LiveJobKeepsLock
      <4>2. ~SetNX(r) /\ (ReleaseScript(r) => lock' = lock)
        BY <2>3, <4>1 DEF SetNX, ReleaseScript, Holds
      <4> QED
        BY <2>1, <4>2 DEF Enters, Takes, Stays, Leaves
    <3> QED
      BY <1>0, <3>1, <3>2 DEF LockInvOf, Active, InJob, Expired
  <2> QED
    BY <2>2, <2>3
<1> QED
  BY <1>2, <1>3, <1>4 DEF Next, Finished

LEMMA LockInvExcludes == TypeOK /\ LockInv => ExclusiveIngestion
<1> SUFFICES ASSUME TypeOK, LockInv, NEW r \in Runs, NEW s \in Runs,
                    InJob(r), ~Expired(r), InJob(s), ~Expired(s)
             PROVE  r = s
  BY DEF ExclusiveIngestion
<1> QED
  BY LiveJobKeepsLock

-----------------------------------------------------------------------------
(* The dead letter queue, and the write that follows a look-up.             *)

\* Only a look-up leads to "write", and it has an observation to look up.
LEMMA WritesSomethingNext ==
  TypeOK /\ WritesSomething /\ [Next]_vars => WritesSomething'
<1> SUFFICES ASSUME TypeOK, WritesSomething, [Next]_vars,
                    NEW s \in Runs, pc'[s] = "write"
             PROVE  run'[s].todo # <<>>
  BY DEF WritesSomething
<1>0. run \in [Runs -> RunState] /\ pc \in [Runs -> PCs]
  BY DEF TypeOK
<1>1. CASE UNCHANGED <<pc, run>>
  BY <1>1 DEF WritesSomething
<1>2. ASSUME NEW r \in Runs, Start(r) \/ Proceed(r) \/ Crash(r)
      PROVE  run'[s].todo # <<>>
  <2>1. CASE s # r
    <3>1. pc'[s] = pc[s] /\ run'[s] = run[s]
      BY <1>2, <2>1, StepEffect DEF OthersStay
    <3> QED
      BY <3>1 DEF WritesSomething
  <2>2. CASE s = r /\ (Lookup(r) \/ LookupFails(r))
    <3>1. \E p : run' = [run EXCEPT ![r].prior = p]
      BY <2>2 DEF Lookup, LookupFails
    <3>2. PICK p : run' = [run EXCEPT ![r].prior = p]
      BY <3>1
    <3> DEFINE x == [run[r] EXCEPT !.prior = p]
    <3>3. run' = [run EXCEPT ![r] = x] /\ run[r] \in RunState
      BY <1>0, <3>2
    <3>4. x.todo = run[r].todo
      BY <3>3 DEF RunState
    <3> HIDE DEF x
    <3>5. run[r].todo # <<>>
      BY <2>2 DEF Lookup, LookupFails
    <3> QED
      BY <1>0, <2>2, <3>3, <3>4, <3>5
  <2>3. s = r => Lookup(r) \/ LookupFails(r)
    BY <1>2, WaysIn
  <2> QED
    BY <2>1, <2>2, <2>3
<1> QED
  BY <1>1, <1>2 DEF Next, Tick, Finished, vars

\* QueueInv, said of one execution.
QueueInvOf(r) == pc[r] = "recording" /\ ~Expired(r) => run[r].seen = dlq.count

\* Under the lock the entry is written by nobody but the execution that reads
\* and writes it.
LEMMA QueueInvNext ==
  TypeOK /\ LockInv /\ QueueInv /\ [Next]_vars => QueueInv'
<1> SUFFICES ASSUME TypeOK, LockInv, QueueInv, [Next]_vars PROVE QueueInv'
  OBVIOUS
<1>0. /\ run \in [Runs -> RunState] /\ pc \in [Runs -> PCs]
      /\ dlq.count = failures
  BY DEF TypeOK, QueueInv
<1>1. CASE UNCHANGED vars
  BY <1>1 DEF vars, QueueInv, Expired
<1>2. CASE Tick
  <2>1. /\ clock' = clock + 1 /\ clock \in Nat
        /\ UNCHANGED <<pc, run, dlq, failures>>
    BY <1>2 DEF Tick, queue, TypeOK, Timestamps
  <2>2. ASSUME NEW s \in Runs, ~Expired(s)' PROVE ~Expired(s)
    <3>1. run[s].deadline \in Nat
      BY <1>0, RunFieldTypes
    <3> QED
      BY <2>1, <2>2, <3>1 DEF Expired
  <2> QED
    BY <1>0, <2>1, <2>2 DEF QueueInv
<1>3. ASSUME NEW r \in Runs, Start(r) \/ Proceed(r) \/ Crash(r) PROVE QueueInv'
  <2>0. OthersStay(r)
    BY <1>3, StepEffect
  <2>1. CASE WriteDLQ(r) \/ ClearDLQ(r)
    <3>1. pc[r] \in {"recording", "clear"} /\ ~Expired(r) /\ pc'[r] \in {"release", "warm"}
      BY <1>0, <2>1 DEF WriteDLQ, ClearDLQ, Step
    <3>2. dlq'.count = failures'
      <4>1. CASE WriteDLQ(r)
        <5>1. run[r].seen = failures
          BY <1>0, <3>1, <4>1 DEF QueueInv, WriteDLQ, Step
        <5>2. PICK status : dlq' = NextEntry(run[r].seen, run[r].err, status)
          BY <4>1 DEF WriteDLQ, SetEntry
        <5>3. dlq'.count = run[r].seen + 1
          BY <5>2 DEF NextEntry
        <5> QED
          BY <4>1, <5>1, <5>3 DEF WriteDLQ
      <4>2. CASE ClearDLQ(r)
        BY <4>2 DEF ClearDLQ, DelEntry, NoEntry
      <4> QED
        BY <2>1, <4>1, <4>2
    <3>3. InJob(r)
      BY <3>1 DEF InJob, Active, LockInv, RedisOnly
    <3>4. ASSUME NEW s \in Runs, pc'[s] = "recording", ~Expired(s)' PROVE FALSE
      <4>1. s # r
        BY <3>1, <3>4
      <4>2. pc[s] = "recording" /\ ~Expired(s)
        BY <2>0, <3>4, <4>1 DEF OthersStay, Expired
      <4>3. InJob(s)
        BY <4>2 DEF InJob, Active, LockInv, RedisOnly
      <4> QED
        BY <3>1, <3>3, <4>1, <4>2, <4>3, LockInvExcludes DEF ExclusiveIngestion
    <3> QED
      BY <3>2, <3>4 DEF QueueInv
  <2>2. CASE ~(WriteDLQ(r) \/ ClearDLQ(r))
    <3>1. UNCHANGED <<dlq, failures>>
      BY <1>3, <2>2
         DEF Proceed, queue, Start, Acquire, Skip, AcquireFails, AcquireReplyLost,
             BeginFetch, FetchCancelled, FetchReturns, FetchFails, ReadDLQ,
             RecordFails, Lookup, LookupFails, BumpLastSeen, InsertRow, WriteFails,
             PersistDone, ClearFails, Warm, WarmDone, Release, ReleaseFails, Crash
    <3>2. ASSUME NEW s \in Runs, pc'[s] = "recording", ~Expired(s)'
          PROVE  run'[s].seen = dlq'.count
      <4>1. CASE s # r
        BY <2>0, <3>1, <3>2, <4>1 DEF OthersStay, Expired, QueueInv
      <4>2. CASE s = r /\ ReadDLQ(r)
        <5> DEFINE x == [run[r] EXCEPT !.seen = dlq.count]
        <5>1. run' = [run EXCEPT ![r] = x] /\ run[r] \in RunState
          BY <1>0, <4>2 DEF ReadDLQ
        <5>2. x.seen = dlq.count
          BY <5>1 DEF RunState
        <5> HIDE DEF x
        <5> QED
          BY <1>0, <3>1, <4>2, <5>1, <5>2
      <4>3. s = r => ReadDLQ(r)
        BY <1>3, <3>2, WaysIn
      <4> QED
        BY <4>1, <4>2, <4>3
    <3> QED
      BY <1>0, <3>1, <3>2 DEF QueueInv
  <2> QED
    BY <2>1, <2>2
<1> QED
  BY <1>1, <1>2, <1>3 DEF Next, Finished

-----------------------------------------------------------------------------
(* The theorems.                                                            *)

\* The inductive invariant of all the theorems below.
Inv == TypeOK /\ WritesSomething /\ LockInv /\ QueueInv

LEMMA InvInit == Init => Inv
<1>1. ASSUME Init PROVE QueueInv
  <2>1. dlq.count = 0 /\ failures = 0 /\ pc = [r \in Runs |-> "idle"]
    BY <1>1 DEF Init, NoEntry
  <2> QED
    BY <2>1 DEF QueueInv
<1> QED
  BY <1>1, TypeInit, LockInvInit DEF Inv

LEMMA InvNext == Inv /\ [Next]_vars => Inv'
BY TypeNext, WritesSomethingNext, LockInvNext, QueueInvNext DEF Inv

LEMMA Invariance == Spec => []Inv
BY InvInit, InvNext, PTL DEF Spec

\* Every variable keeps its type: in particular a look-up always returns a row
\* of the table, and what is written to the table, the DLQ and the cache is
\* well formed (ingest_orchestrator.go:160-394).
THEOREM TypeCorrect == Spec => []TypeOK
<1>1. Inv => TypeOK
  BY DEF Inv
<1> QED
  BY <1>1, Invariance, PTL

\* At most one execution with a live context is inside the job, for any number
\* of executions that start, crash and lose replies at any time, as long as the
\* lock's TTL is not below the executions' time-out (lock.go:26-57,
\* cmd/ingest/main.go:38).
THEOREM MutualExclusion == Spec => []ExclusiveIngestion
<1>1. Inv => ExclusiveIngestion
  BY LockInvExcludes DEF Inv
<1> QED
  BY <1>1, Invariance, PTL

\* The DLQ's ConsecutiveFailures counts exactly the failures recorded since the
\* entry was last cleared, although Record reads and writes it in two commands
\* (dlq.go:99-207).
THEOREM DLQCountsFailures == Spec => []DLQCountExact
<1>1. Inv => DLQCountExact
  BY DEF Inv, QueueInv, DLQCountExact
<1> QED
  BY <1>1, Invariance, PTL
-----------------------------------------------------------------------------
(* The cached lists.                                                        *)

\* The fetch of r is over, and its lists may still be cached.
Fetched(r) == pc[r] \in {"persist", "write", "clear", "warm"}

\* The fetch of r has not ended, and cannot before time moves on.
FetchesNow(r) == ~Fetched(r) /\ (pc[r] = "fetching" => run[r].stamp = clock)

\* The task timeout: an execution does not outlive the tick of its deadline.
KilledInTime == \A r \in Runs : Active(r) => clock <= run[r].deadline

StampsPast ==
  /\ \A r \in Runs : Fetched(r) \/ pc[r] = "fetching" => run[r].stamp <= clock
  /\ \A g \in Regions : cache[g].stamp <= clock

\* Two executions that use the lock are inside the job only in the tick in which
\* the deadline of the first one falls: the second has just taken the lock.
Overlap ==
  \A r, s \in Runs : r # s /\ InJob(r) /\ InJob(s) =>
    \/ FetchesNow(r) /\ Expired(s)
    \/ FetchesNow(s) /\ Expired(r)

\* No list in the cache is later than one that is still to be cached.
CacheIsOlder ==
  \A r \in Runs, g \in Regions : run[r].redis /\ (Fetched(r) \/ pc[r] = "fetching") =>
    cache[g].stamp <= run[r].stamp

CacheInv == KilledInTime /\ StampsPast /\ Overlap /\ CacheIsOlder

LEMMA CacheNumbers ==
  ASSUME TypeOK
  PROVE  /\ clock \in Nat /\ RunTimeout \in Nat
         /\ \A r \in Runs : run[r].deadline \in Nat /\ run[r].stamp \in Nat
         /\ \A g \in Regions : cache[g].stamp \in Nat
<1>1. clock \in Nat /\ RunTimeout \in Nat
  BY OrchestratorAssumption DEF TypeOK, Timestamps
<1>2. ASSUME NEW r \in Runs PROVE run[r].deadline \in Nat /\ run[r].stamp \in Nat
  <2>1. run[r] \in RunState
    BY DEF TypeOK
  <2>2. run[r].deadline \in Nat /\ run[r].stamp \in Timestamps
    BY <2>1, RunFieldTypes
  <2>3. Timestamps \in SUBSET Nat
    BY PriceAssumption DEF Timestamps
  <2> QED
    BY <2>2, <2>3
<1>3. \A g \in Regions : cache[g].stamp \in Nat
  BY DEF TypeOK, CacheEntry, Timestamps
<1> QED
  BY <1>1, <1>2, <1>3

\* Only the provider's answer ends a fetch, and the stamp stays what it was.
LEMMA StampStays ==
  ASSUME TypeOK, NEW r \in Runs, Start(r) \/ Proceed(r) \/ Crash(r), Fetched(r)'
  PROVE  /\ run'[r].stamp = run[r].stamp
         /\ FetchReturns(r) \/ Fetched(r)
<1>0. run[r] \in RunState /\ run \in [Runs -> RunState] /\ pc \in [Runs -> PCs]
  BY DEF TypeOK
<1>1. ASSUME NEW from, NEW to, Step(r, from, to) PROVE pc[r] = from /\ pc'[r] = to
  BY <1>0, <1>1 DEF Step
<1>2. ASSUME NEW from, NEW to, Leave(r, from, to) PROVE pc'[r] = to
  BY <1>1, <1>2 DEF Leave
<1>3. ASSUME NEW from, NEW err, GiveUp(r, from, err) PROVE ~Fetched(r)'
  BY <1>1, <1>2, <1>3 DEF GiveUp, Fetched
<1>4. CASE FetchReturns(r)
  <2>1. PICK batch \in Batches :
          run' = [run EXCEPT ![r].batch = batch, ![r].todo = batch, ![r].attempt = 0, ![r].err = ""]
    BY <1>4 DEF FetchReturns
  <2>2. run'[r].stamp = run[r].stamp
    BY <1>0, <2>1 DEF RunState
  <2> QED
    BY <1>4, <2>2
<1>5. CASE Lookup(r)
  <2>1. PICK p : run' = [run EXCEPT ![r].prior = p]
    BY <1>5 DEF Lookup
  <2>2. run'[r].stamp = run[r].stamp
    BY <1>0, <2>1 DEF RunState
  <2> QED
    BY <1>1, <1>5, <2>2 DEF Lookup, Fetched
<1>6. CASE LookupFails(r)
  <2>1. run'[r].stamp = run[r].stamp
    BY <1>0, <1>6 DEF LookupFails, RunState
  <2> QED
    BY <1>1, <1>6, <2>1 DEF LookupFails, Fetched
<1>7. CASE BumpLastSeen(r) \/ InsertRow(r) \/ WriteFails(r)
  <2>1. NextObs(r) /\ Step(r, "write", "persist")
    BY <1>7 DEF BumpLastSeen, InsertRow, WriteFails
  <2>2. run'[r].stamp = run[r].stamp
    BY <1>0, <2>1 DEF NextObs, RunState
  <2> QED
    BY <1>1, <2>1, <2>2 DEF Fetched
<1>8. CASE PersistDone(r)
  <2>1. Step(r, "persist", "clear") /\ run' = [run EXCEPT ![r].unwarmed = RegionsOf(run[r].batch)]
    BY <1>2, <1>8 DEF PersistDone, Fetched
  <2>2. run'[r].stamp = run[r].stamp
    BY <1>0, <2>1 DEF RunState
  <2> QED
    BY <1>1, <2>1, <2>2 DEF Fetched
<1>9. CASE ClearDLQ(r) \/ ClearFails(r)
  BY <1>1, <1>9 DEF ClearDLQ, ClearFails, Fetched
<1>10. CASE \E g \in Regions : Warm(r, g)
  <2>1. PICK g \in Regions : Warm(r, g)
    BY <1>10
  <2>2. run'[r].stamp = run[r].stamp
    BY <1>0, <2>1 DEF Warm, RunState
  <2> QED
    BY <2>1, <2>2 DEF Warm, Fetched
<1>11. CASE \/ Start(r) \/ Acquire(r) \/ BeginFetch(r) \/ ReadDLQ(r) \/ WriteDLQ(r)
            \/ RecordFails(r) \/ WarmDone(r)
  <2>1. pc'[r] \in {"acquire", "fetch", "fetching", "recording", "release"}
    BY <1>1, <1>11 DEF Start, Acquire, BeginFetch, ReadDLQ, WriteDLQ, RecordFails, WarmDone
  <2> QED
    BY <2>1 DEF Fetched
<1>12. CASE \/ Skip(r) \/ AcquireFails(r) \/ AcquireReplyLost(r) \/ Release(r)
            \/ ReleaseFails(r) \/ Crash(r)
  <2>1. pc'[r] \in {"skipped", "done", "crashed"}
    BY <1>2, <1>12 DEF Skip, AcquireFails, AcquireReplyLost, Release, ReleaseFails, Crash
  <2> QED
    BY <2>1 DEF Fetched
<1>13. CASE FetchCancelled(r) \/ FetchFails(r)
  <2>1. CASE FetchCancelled(r)
    BY <1>3, <2>1 DEF FetchCancelled
  <2>2. CASE FetchFails(r)
    BY <1>1, <1>3, <2>2 DEF FetchFails, Fetched
  <2> QED
    BY <1>13, <2>1, <2>2
<1> QED
  BY <1>4, <1>5, <1>6, <1>7, <1>8, <1>9, <1>10, <1>11, <1>12, <1>13 DEF Proceed

\* Only warming touches the cache.
LEMMA OnlyWarmTouchesCache ==
  ASSUME TypeOK, NEW r \in Runs, Start(r) \/ Proceed(r) \/ Crash(r)
  PROVE  \/ cache' = cache
         \/ /\ pc[r] = "warm"
            /\ \A g \in Regions : cache'[g].stamp \in {cache[g].stamp, run[r].stamp}
<1>1. CASE \E g \in Regions : Warm(r, g)
  <2>1. PICK h \in Regions : Warm(r, h)
    BY <1>1
  <2>2. ListOf(r, h).stamp = run[r].stamp
    BY DEF ListOf
  <2>3. cache \in [Regions -> CacheEntry]
    BY DEF TypeOK
  <2>4. cache' \in {cache, [cache EXCEPT ![h] = ListOf(r, h)]}
    BY <2>1 DEF Warm
  <2>5. \A g \in Regions : cache'[g].stamp \in {cache[g].stamp, run[r].stamp}
    BY <2>2, <2>3, <2>4
  <2> QED
    BY <2>1, <2>5 DEF Warm
<1>2. CASE ~\E g \in Regions : Warm(r, g)
  BY <1>2 DEF Start, Proceed, Crash, Acquire, Skip, AcquireFails, AcquireReplyLost, BeginFetch,
     FetchCancelled, FetchReturns, FetchFails, ReadDLQ, WriteDLQ, RecordFails, Lookup, LookupFails,
     BumpLastSeen, InsertRow, WriteFails, PersistDone, ClearDLQ, ClearFails, WarmDone, Release,
     ReleaseFails
<1> QED
  BY <1>1, <1>2

\* An execution enters the job by taking the lock; inside, it keeps its deadline.
LEMMA InJobStep ==
  ASSUME TypeOK, NEW r \in Runs, Start(r) \/ Proceed(r) \/ Crash(r), InJob(r)'
  PROVE  \/ InJob(r) /\ run'[r].deadline = run[r].deadline
         \/ LockFree /\ pc'[r] = "fetch"
<1>1. CASE Enters(r)
  BY <1>1 DEF Enters, InJob
<1>2. CASE Takes(r)
  BY <1>2 DEF Takes, SetNX, InJob, Active
<1>3. CASE Stays(r)
  BY <1>3 DEF Stays, InJob
<1>4. CASE Leaves(r)
  BY <1>4 DEF Leaves, InJob, Active
<1> QED
  BY <1>1, <1>2, <1>3, <1>4, StepEffect

LEMMA FetchesStill ==
  ASSUME TypeOK, NEW r \in Runs, Start(r) \/ Proceed(r) \/ Crash(r), FetchesNow(r)
  PROVE  FetchesNow(r)'
<1>1. ~Fetched(r)'
  <2>1. ~FetchReturns(r)
    <3>1. FetchReturns(r) => pc[r] = "fetching" /\ run[r].stamp < clock
      BY DEF FetchReturns, Step
    <3> QED
      BY <3>1, CacheNumbers DEF FetchesNow
  <2> QED
    BY <2>1, StampStays DEF FetchesNow
<1>2. pc'[r] = "fetching" => run'[r].stamp = clock
  <2> SUFFICES ASSUME BeginFetch(r) PROVE run'[r].stamp = clock
    BY WaysIn
  <2> QED
    BY DEF BeginFetch, TypeOK, RunState
<1>3. clock' = clock
  BY StepEffect DEF OthersStay
<1> QED
  BY <1>1, <1>2, <1>3 DEF FetchesNow

LEMMA CacheInvStep ==
  ASSUME TypeOK, LockInv, CacheInv, NEW r \in Runs, Start(r) \/ Proceed(r) \/ Crash(r)
  PROVE  CacheInv' /\ \A g \in Regions : cache[g].stamp <= cache'[g].stamp
<1>0. /\ clock \in Nat /\ RunTimeout \in Nat
      /\ \A s \in Runs : run[s].deadline \in Nat /\ run[s].stamp \in Nat
      /\ \A g \in Regions : cache[g].stamp \in Nat
  BY CacheNumbers
<1>1. clock' = clock /\ \A s \in Runs \ {r} : pc'[s] = pc[s] /\ run'[s] = run[s]
  BY StepEffect DEF OthersStay
<1>2. KilledInTime'
  <2>1. Active(r)' => clock <= run'[r].deadline
    <3>1. CASE Enters(r)
      BY <1>0, <3>1 DEF Enters
    <3>2. CASE Takes(r)
      BY <3>2 DEF Takes, Active, CacheInv, KilledInTime
    <3>3. CASE Stays(r)
      BY <3>3 DEF Stays, CacheInv, KilledInTime
    <3>4. CASE Leaves(r)
      BY <3>4 DEF Leaves, Active
    <3> QED
      BY <3>1, <3>2, <3>3, <3>4, StepEffect
  <2> QED
    BY <1>1, <2>1 DEF CacheInv, KilledInTime, Active
<1>3. Fetched(r)' => run'[r].stamp = run[r].stamp /\ (Fetched(r) \/ pc[r] = "fetching")
  BY StampStays DEF FetchReturns, Step
<1>4. pc'[r] = "fetching" => run'[r].stamp = clock
  <2> SUFFICES ASSUME BeginFetch(r) PROVE run'[r].stamp = clock
    BY WaysIn
  <2> QED
    BY DEF BeginFetch, TypeOK, RunState
<1>5. \/ cache' = cache
      \/ /\ pc[r] = "warm"
         /\ \A g \in Regions : cache'[g].stamp \in {cache[g].stamp, run[r].stamp}
  BY OnlyWarmTouchesCache
<1>6. pc[r] = "warm" => run[r].redis /\ Fetched(r) /\ InJob(r)
  BY DEF LockInv, RedisOnly, Fetched, InJob, Active
<1>7. \A g \in Regions : cache[g].stamp <= cache'[g].stamp
  <2> SUFFICES ASSUME NEW g \in Regions PROVE cache[g].stamp <= cache'[g].stamp
    OBVIOUS
  <2>1. pc[r] = "warm" => cache[g].stamp <= run[r].stamp
    BY <1>6 DEF CacheInv, CacheIsOlder
  <2>2. cache'[g].stamp = cache[g].stamp \/ (pc[r] = "warm" /\ cache'[g].stamp = run[r].stamp)
    BY <1>5
  <2> QED
    BY <1>0, <2>1, <2>2
<1>8. StampsPast'
  <2>1. \A s \in Runs : (Fetched(s) \/ pc[s] = "fetching")' => run'[s].stamp <= clock
    <3> SUFFICES ASSUME NEW s \in Runs, (Fetched(s) \/ pc[s] = "fetching")'
                 PROVE  run'[s].stamp <= clock
      OBVIOUS
    <3>1. CASE s = r
      BY <1>0, <1>3, <1>4, <3>1 DEF CacheInv, StampsPast
    <3>2. CASE s # r
      BY <1>1, <3>2 DEF CacheInv, StampsPast, Fetched
    <3> QED
      BY <3>1, <3>2
  <2>2. \A g \in Regions : cache'[g].stamp <= clock
    BY <1>5, <1>6 DEF CacheInv, StampsPast
  <2> QED
    BY <1>1, <2>1, <2>2 DEF StampsPast, Fetched
<1>9. Overlap'
  <2>1. ASSUME NEW s \in Runs \ {r}, InJob(r)', InJob(s)'
        PROVE  (FetchesNow(r) /\ Expired(s))' \/ (FetchesNow(s) /\ Expired(r))'
    <3>1. InJob(s) /\ (Expired(s) => Expired(s)') /\ (FetchesNow(s) => FetchesNow(s)')
      BY <1>1, <2>1 DEF InJob, Active, Expired, FetchesNow, Fetched
    <3>2. CASE InJob(r) /\ run'[r].deadline = run[r].deadline
      <4>1. Expired(r) => Expired(r)'
        BY <1>1, <3>2 DEF Expired
      <4>2. FetchesNow(r) => FetchesNow(r)'
        BY FetchesStill
      <4> QED
        BY <3>1, <3>2, <4>1, <4>2 DEF CacheInv, Overlap
    <3>3. CASE LockFree /\ pc'[r] = "fetch"
      <4>1. Expired(s)
        BY <3>1, <3>3, LiveJobKeepsLock
      <4>2. FetchesNow(r)'
        BY <3>3 DEF FetchesNow, Fetched
      <4> QED
        BY <3>1, <4>1, <4>2
    <3> QED
      BY <2>1, <3>2, <3>3, InJobStep
  <2>2. ASSUME NEW s \in Runs \ {r}, NEW q \in Runs \ {r}, s # q, InJob(s)', InJob(q)'
        PROVE  (FetchesNow(s) /\ Expired(q))' \/ (FetchesNow(q) /\ Expired(s))'
    BY <1>1, <2>2 DEF CacheInv, Overlap, InJob, Active, Expired, FetchesNow, Fetched
  <2> SUFFICES ASSUME NEW s \in Runs, NEW q \in Runs, s # q, InJob(s)', InJob(q)'
               PROVE  (FetchesNow(s) /\ Expired(q))' \/ (FetchesNow(q) /\ Expired(s))'
    BY DEF Overlap
  <2>3. CASE s = r
    BY <2>1, <2>3
  <2>4. CASE q = r
    BY <2>1, <2>4
  <2> QED
    BY <2>2, <2>3, <2>4
<1>10. CacheIsOlder'
  <2> SUFFICES ASSUME NEW s \in Runs, NEW g \in Regions, run'[s].redis,
                      (Fetched(s) \/ pc[s] = "fetching")'
               PROVE  cache'[g].stamp <= run'[s].stamp
    BY DEF CacheIsOlder
  <2>1. cache'[g].stamp = cache[g].stamp \/ (pc[r] = "warm" /\ cache'[g].stamp = run[r].stamp)
    BY <1>5
  <2>2. cache[g].stamp <= clock /\ (Fetched(r) => run[r].stamp <= clock)
    BY DEF CacheInv, StampsPast
  <2>3. CASE s = r
    <3>1. CASE pc'[r] = "fetching"
      BY <1>4, <1>6, <2>1, <2>2, <2>3, <3>1
    <3>2. CASE Fetched(r)'
      <4>1. run[r].redis
        <5>1. CASE Stays(r)
          BY <2>3, <5>1 DEF Stays
        <5>2. CASE Enters(r) \/ Takes(r) \/ Leaves(r)
          BY <3>2, <5>2 DEF Enters, Takes, Leaves, Fetched
        <5> QED
          BY <5>1, <5>2, StepEffect
      <4>2. cache[g].stamp <= run[r].stamp
        BY <1>3, <3>2, <4>1 DEF CacheInv, CacheIsOlder
      <4>3. run[r].stamp <= run[r].stamp /\ run'[r].stamp = run[r].stamp
        BY <1>0, <1>3, <3>2
      <4> QED
        BY <2>1, <2>3, <4>2, <4>3
    <3> QED
      BY <2>3, <3>1, <3>2
  <2>4. CASE s # r
    <3>1. pc'[s] = pc[s] /\ run'[s] = run[s] /\ (Fetched(s) \/ pc[s] = "fetching")
      BY <1>1, <2>4 DEF Fetched
    <3>2. cache[g].stamp <= run[s].stamp
      BY <3>1 DEF CacheInv, CacheIsOlder
    <3>3. CASE pc[r] = "warm"
      <4>1. InJob(s)
        BY <3>1 DEF InJob, Active, Fetched
      <4>2. FetchesNow(s)
        BY <1>6, <2>4, <3>3, <4>1 DEF CacheInv, Overlap, FetchesNow
      <4>3. run[s].stamp = clock
        BY <3>1, <4>2 DEF FetchesNow
      <4> QED
        BY <1>6, <2>1, <2>2, <3>1, <3>2, <3>3, <4>3
    <3> QED
      BY <2>1, <3>1, <3>2, <3>3
  <2> QED
    BY <2>3, <2>4
<1> QED
  BY <1>2, <1>7, <1>8, <1>9, <1>10 DEF CacheInv

LEMMA CacheInvTick ==
  ASSUME TypeOK, CacheInv, Tick
  PROVE  CacheInv' /\ cache' = cache
<1>0. /\ clock \in Nat
      /\ \A s \in Runs : run[s].deadline \in Nat /\ run[s].stamp \in Nat
      /\ \A g \in Regions : cache[g].stamp \in Nat
  BY CacheNumbers
<1>1. /\ clock' = clock + 1 /\ pc' = pc /\ run' = run /\ cache' = cache
      /\ \A r \in Runs : Active(r) => clock < run[r].deadline
  BY DEF Tick
<1>2. KilledInTime' /\ StampsPast'
  BY <1>0, <1>1 DEF CacheInv, KilledInTime, StampsPast, Active, Fetched
<1>3. \A r \in Runs : InJob(r) => ~Expired(r)
  BY <1>0, <1>1 DEF InJob, Expired
<1>4. Overlap'
  BY <1>1, <1>3 DEF CacheInv, Overlap, InJob, Active
<1>5. CacheIsOlder'
  BY <1>1 DEF CacheInv, CacheIsOlder, Fetched
<1> QED
  BY <1>1, <1>2, <1>4, <1>5 DEF CacheInv

LEMMA CacheInvInit == Init => CacheInv
<1> SUFFICES ASSUME Init PROVE CacheInv
  OBVIOUS
<1>1. \A r \in Runs : ~Active(r) /\ ~Fetched(r) /\ pc[r] # "fetching"
  BY DEF Init, Active, Fetched
<1>2. \A g \in Regions : cache[g].stamp <= clock
  BY DEF Init, Uncached
<1> QED
  BY <1>1, <1>2 DEF CacheInv, KilledInTime, StampsPast, Overlap, CacheIsOlder, InJob

\* A cached list is never replaced by the list of an earlier fetch, for any
\* number of executions, regions and fetches: although warming goes on when the
\* lock has expired, nobody else has then finished a fetch
\* (ingest_orchestrator.go:359-394, cmd/ingest/main.go:38).
THEOREM CacheGoesForward == Spec => CacheNeverGoesBack
<1>1. Inv /\ CacheInv /\ [Next]_vars
        => CacheInv' /\ [\A g \in Regions : cache[g].stamp <= cache'[g].stamp]_cache
  <2> SUFFICES ASSUME Inv, CacheInv, [Next]_vars
               PROVE  CacheInv' /\ [\A g \in Regions : cache[g].stamp <= cache'[g].stamp]_cache
    OBVIOUS
  <2>1. ASSUME NEW r \in Runs, Start(r) \/ Proceed(r) \/ Crash(r)
        PROVE  CacheInv' /\ [\A g \in Regions : cache[g].stamp <= cache'[g].stamp]_cache
    BY <2>1, CacheInvStep DEF Inv
  <2>2. CASE Tick
    BY <2>2, CacheInvTick DEF Inv
  <2>3. CASE UNCHANGED vars
    BY <2>3 DEF vars, CacheInv, KilledInTime, StampsPast, Overlap, CacheIsOlder, Active, Fetched,
                FetchesNow, InJob, Expired
  <2> QED
    BY <2>1, <2>2, <2>3 DEF Next, Finished
<1> QED
  BY <1>1, CacheInvInit, Invariance, PTL DEF Spec, CacheNeverGoesBack

-----------------------------------------------------------------------------
(* Why an execution ends.                                                   *)

\* How far an execution has come.
Phase(p) ==
  CASE p = "acquire" -> 0
    [] p \in {"fetch", "fetching"} -> 1
    [] p = "record" -> 2
    [] p = "recording" -> 3
    [] p \in {"persist", "write"} -> 4
    [] p = "clear" -> 5
    [] p = "warm" -> 6
    [] p = "release" -> 7
    [] OTHER -> 8

\* The execution comes to a later phase; or an attempt begins, or has failed and
\* there is another one; or the observation at hand is looked up, or left behind;
\* or there is one region less to warm.
GetsOn(r) ==
  \/ Phase(pc[r]) < Phase(pc'[r])
  \/ pc[r] = "fetch" /\ pc'[r] = "fetching" /\ run'[r].attempt = run[r].attempt
  \/ /\ pc[r] = "fetching" /\ pc'[r] = "fetch"
     /\ run'[r].attempt = run[r].attempt + 1 /\ run'[r].attempt < MaxAttempts
  \/ pc[r] = "persist" /\ pc'[r] = "write" /\ run'[r].todo = run[r].todo
  \/ /\ pc[r] = "write" /\ pc'[r] = "persist"
     /\ run[r].todo # <<>> /\ run'[r].todo = Tail(run[r].todo)
  \/ /\ pc[r] = "warm" /\ pc'[r] = "warm"
     /\ \E g \in run[r].unwarmed : run'[r].unwarmed = run[r].unwarmed \ {g}

\* Every step of its own brings an execution on, and nobody else's step moves it.
RunsGoForward ==
  \A r \in Runs : /\ Proceed(r) => GetsOn(r)
                  /\ Active(r) => GetsOn(r) \/ (pc'[r] = pc[r] /\ run'[r] = run[r])

LEMMA PhasesFollow ==
  ASSUME NEW p, NEW q,
         \/ p = "acquire" /\ q \in {"fetch", "skipped", "done"}
         \/ p \in {"fetch", "fetching"} /\ q \in {"record", "persist", "done"}
         \/ p = "record" /\ q \in {"recording", "release"}
         \/ p = "recording" /\ q = "release"
         \/ p = "persist" /\ q \in {"clear", "done"}
         \/ p = "clear" /\ q = "warm"
         \/ p = "warm" /\ q = "release"
         \/ p = "release" /\ q = "done"
         \/ p \in PCs \ {"idle", "done", "skipped", "crashed"} /\ q = "crashed"
  PROVE  Phase(p) < Phase(q)
BY DEF Phase, PCs

LEMMA ProceedingGetsOn ==
  ASSUME TypeOK, WritesSomething, NEW r \in Runs, Proceed(r)
  PROVE  GetsOn(r)
<1>0. run[r] \in RunState /\ run \in [Runs -> RunState] /\ pc \in [Runs -> PCs]
  BY DEF TypeOK
<1>1. ASSUME NEW from, NEW to, Step(r, from, to) PROVE pc[r] = from /\ pc'[r] = to
  BY <1>0, <1>1 DEF Step
<1>2. ASSUME NEW from, NEW to, Leave(r, from, to) PROVE pc[r] = from /\ pc'[r] = to
  BY <1>1, <1>2 DEF Leave
<1>3. ASSUME NEW from \in {"fetch", "fetching"}, NEW err, GiveUp(r, from, err) PROVE GetsOn(r)
  <2>1. pc[r] = from /\ pc'[r] \in {"record", "done"}
    BY <1>1, <1>2, <1>3 DEF GiveUp
  <2> QED
    BY <2>1, PhasesFollow DEF GetsOn
<1>4. CASE Acquire(r)
  <2>1. pc[r] = "acquire" /\ pc'[r] = "fetch"
    BY <1>1, <1>4 DEF Acquire
  <2> QED
    BY <2>1, PhasesFollow DEF GetsOn
<1>5. CASE Skip(r) \/ AcquireFails(r) \/ AcquireReplyLost(r)
  <2>1. pc[r] = "acquire" /\ pc'[r] \in {"skipped", "done"}
    BY <1>2, <1>5 DEF Skip, AcquireFails, AcquireReplyLost
  <2> QED
    BY <2>1, PhasesFollow DEF GetsOn
<1>6. CASE BeginFetch(r)
  <2>1. pc[r] = "fetch" /\ pc'[r] = "fetching" /\ run' = [run EXCEPT ![r].stamp = clock]
    BY <1>1, <1>6 DEF BeginFetch
  <2>2. run'[r].attempt = run[r].attempt
    BY <1>0, <2>1 DEF RunState
  <2> QED
    BY <2>1, <2>2 DEF GetsOn
<1>7. CASE FetchCancelled(r)
  BY <1>3, <1>7 DEF FetchCancelled
<1>8. CASE FetchReturns(r)
  <2>1. pc[r] = "fetching" /\ pc'[r] = "persist"
    BY <1>1, <1>8 DEF FetchReturns
  <2> QED
    BY <2>1, PhasesFollow DEF GetsOn
<1>9. CASE FetchFails(r)
  <2>1. PICK err : IF LastAttempt(r)
                   THEN GiveUp(r, "fetching", err)
                   ELSE /\ Step(r, "fetching", "fetch")
                        /\ run' = [run EXCEPT ![r].attempt = run[r].attempt + 1, ![r].err = err]
    BY <1>9 DEF FetchFails
  <2>2. CASE LastAttempt(r)
    BY <1>3, <2>1, <2>2
  <2>3. CASE ~LastAttempt(r)
    <3>1. pc[r] = "fetching" /\ pc'[r] = "fetch"
      BY <1>1, <2>1, <2>3
    <3> DEFINE n == run[r].attempt + 1
    <3>2. run' = [run EXCEPT ![r].attempt = n, ![r].err = err]
      BY <2>1, <2>3
    <3>3. n < MaxAttempts
      <4>1. run[r].attempt \in Nat /\ MaxAttempts \in Nat
        BY <1>0, OrchestratorAssumption DEF RunState
      <4> QED
        BY <2>3, <4>1 DEF LastAttempt
    <3> HIDE DEF n
    <3>4. run'[r].attempt = n
      BY <1>0, <3>2 DEF RunState
    <3>5. run'[r].attempt = run[r].attempt + 1 /\ run'[r].attempt < MaxAttempts
      BY <3>3, <3>4 DEF n
    <3> QED
      BY <3>1, <3>5 DEF GetsOn
  <2> QED
    BY <2>2, <2>3
<1>10. CASE ReadDLQ(r) \/ WriteDLQ(r) \/ RecordFails(r)
  <2>1. \/ pc[r] = "record" /\ pc'[r] \in {"recording", "release"}
        \/ pc[r] = "recording" /\ pc'[r] = "release"
    BY <1>1, <1>10 DEF ReadDLQ, WriteDLQ, RecordFails
  <2> QED
    BY <2>1, PhasesFollow DEF GetsOn
<1>11. CASE Lookup(r) \/ LookupFails(r)
  <2>1. pc[r] = "persist" /\ pc'[r] = "write"
    BY <1>1, <1>11 DEF Lookup, LookupFails
  <2>2. PICK p : run' = [run EXCEPT ![r].prior = p]
    BY <1>11 DEF Lookup, LookupFails
  <2>3. run'[r].todo = run[r].todo
    BY <1>0, <2>2 DEF RunState
  <2> QED
    BY <2>1, <2>3 DEF GetsOn
<1>12. CASE BumpLastSeen(r) \/ InsertRow(r) \/ WriteFails(r)
  <2>1. pc[r] = "write" /\ pc'[r] = "persist"
    BY <1>1, <1>12 DEF BumpLastSeen, InsertRow, WriteFails
  <2>2. run' = [run EXCEPT ![r].todo = Tail(run[r].todo), ![r].prior = NoPrior]
    BY <1>12 DEF BumpLastSeen, InsertRow, WriteFails, NextObs
  <2>3. run'[r].todo = Tail(run[r].todo)
    BY <1>0, <2>2 DEF RunState
  <2>4. run[r].todo # <<>>
    BY <2>1 DEF WritesSomething
  <2> QED
    BY <2>1, <2>3, <2>4 DEF GetsOn
<1>13. CASE PersistDone(r)
  <2>1. pc[r] = "persist" /\ pc'[r] \in {"clear", "done"}
    BY <1>1, <1>2, <1>13 DEF PersistDone
  <2> QED
    BY <2>1, PhasesFollow DEF GetsOn
<1>14. CASE ClearDLQ(r) \/ ClearFails(r)
  <2>1. pc[r] = "clear" /\ pc'[r] = "warm"
    BY <1>1, <1>14 DEF ClearDLQ, ClearFails
  <2> QED
    BY <2>1, PhasesFollow DEF GetsOn
<1>15. ASSUME NEW g \in Regions, Warm(r, g) PROVE GetsOn(r)
  <2>1. pc[r] = "warm" /\ pc'[r] = "warm" /\ g \in run[r].unwarmed
        /\ run' = [run EXCEPT ![r].unwarmed = run[r].unwarmed \ {g}]
    BY <1>15 DEF Warm
  <2>2. run'[r].unwarmed = run[r].unwarmed \ {g}
    BY <1>0, <2>1 DEF RunState
  <2> QED
    BY <2>1, <2>2 DEF GetsOn
<1>16. CASE WarmDone(r)
  <2>1. pc[r] = "warm" /\ pc'[r] = "release"
    BY <1>1, <1>16 DEF WarmDone
  <2> QED
    BY <2>1, PhasesFollow DEF GetsOn
<1>17. CASE Release(r) \/ ReleaseFails(r)
  <2>1. pc[r] = "release" /\ pc'[r] = "done"
    BY <1>2, <1>17 DEF Release, ReleaseFails
  <2> QED
    BY <2>1, PhasesFollow DEF GetsOn
<1> QED
  BY <1>4, <1>5, <1>6, <1>7, <1>8, <1>9, <1>10, <1>11, <1>12, <1>13, <1>14, <1>15, <1>16, <1>17
     DEF Proceed

\* An execution never goes back or around, for any batch and number of attempts,
\* whatever the others do: every step of its own leads to a later phase, spends an
\* attempt, leaves an observation behind or warms a region, and it has finitely
\* many of each (provider.Do and the loops of runJob,
\* ingest_orchestrator.go:164-394).  RunsEnd rests on this besides fairness.
THEOREM ExecutionsGoForward == Spec => [][RunsGoForward]_vars
<1>1. Inv /\ [Next]_vars => [RunsGoForward]_vars
  <2> SUFFICES ASSUME Inv, Next, NEW r \in Runs
               PROVE  /\ Proceed(r) => GetsOn(r)
                      /\ Active(r) => GetsOn(r) \/ (pc'[r] = pc[r] /\ run'[r] = run[r])
    BY DEF RunsGoForward
  <2>1. TypeOK /\ WritesSomething
    BY DEF Inv
  <2>2. Proceed(r) => GetsOn(r)
    BY <2>1, ProceedingGetsOn
  <2>3. ASSUME NEW s \in Runs, Start(s) \/ Proceed(s) \/ Crash(s), Active(r)
        PROVE  GetsOn(r) \/ (pc'[r] = pc[r] /\ run'[r] = run[r])
    <3>1. CASE s # r
      BY <2>1, <2>3, <3>1, StepEffect DEF OthersStay
    <3>2. CASE s = r /\ Start(s)
      BY <2>3, <3>2 DEF Start, Step, Active
    <3>3. CASE s = r /\ Proceed(s)
      BY <2>2, <3>3
    <3>4. CASE s = r /\ Crash(s)
      <4>1. pc'[r] = "crashed"
        BY <2>1, <3>4, LeaveEffect DEF Crash
      <4>2. pc[r] \in PCs \ {"idle", "done", "skipped", "crashed"}
        BY <2>1, <2>3 DEF Active, TypeOK
      <4> QED
        BY <4>1, <4>2, PhasesFollow DEF GetsOn
    <3> QED
      BY <2>3, <3>1, <3>2, <3>3, <3>4
  <2>4. CASE Tick \/ Finished
    BY <2>2, <2>4 DEF Tick, Finished, vars
  <2> QED
    BY <2>2, <2>3, <2>4 DEF Next
<1> QED
  BY <1>1, Invariance, PTL DEF Spec
=============================================================================
