---------------------------- MODULE Orchestrator ----------------------------
(***************************************************************************)
(* Executions of the ingestion job of one (provider, category):            *)
(* cmd/ingest/main.go and Orchestrator.runJob of                           *)
(* internal/service/ingest_orchestrator.go.  The scheduler, the deployment *)
(* pipeline and an engineer can each start an execution at any time, and   *)
(* they meet in the Redis lock, the price_observations table, the dead     *)
(* letter queue and the price cache.                                       *)
(***************************************************************************)
EXTENDS PriceHistory, IngestionLock, DLQ

CONSTANTS
  Regions,      \* native provider regions
  RegionOf,     \* the region of each item
  Batches,      \* what one successful provider fetch may return
  RunTimeout,   \* context.WithTimeout of cmd/ingest
  MaxAttempts,  \* RetryConfig.MaxAttempts
  MaxStart,     \* bound: no execution starts later than this
  RedisStates   \* whether an execution reaches Redis when it starts

ASSUME OrchestratorAssumption ==
  /\ RegionOf \in [Items -> Regions]
  /\ Batches \subseteq Seq(Observation)
  /\ RunTimeout \in Nat \ {0}
  /\ RunTimeout <= LockTTL
  /\ MaxAttempts \in Nat \ {0}
  /\ MaxStart \in Nat
  /\ RedisStates \subseteq BOOLEAN

VARIABLES
  rows,     \* price_observations: the history of each item
  blind,    \* history variable: rows inserted after a failed look-up
  cache,    \* the cached price list of each region
  pc,       \* where each execution is
  run,      \* the local state of each execution
  failures  \* history variable: failures recorded since the DLQ was cleared

vars == <<clock, lock, dlq, rows, blind, cache, pc, run, failures>>

\* What the look-up left in prevErr and prev (oldPrice is zero by default).
NoPrior == [state |-> "none", id |-> 0, price |-> 0, unit |-> ""]

FailedLookup == [NoPrior EXCEPT !.state = "error"]

Prior == [state : {"none", "found", "error"}, id : Nat,
          price : Prices \cup {0}, unit : Units \cup {""}]

PCs == {"idle", "acquire", "fetch", "fetching", "record", "recording",
        "persist", "write", "clear", "warm", "release",
        "done", "skipped", "crashed"}

RunState == [
  deadline : Nat,                    \* of the execution's context
  redis    : BOOLEAN,                \* redisClient # nil
  attempt  : Nat,                    \* fetch attempts that have failed
  err      : JobErrors \cup {""},    \* lastErr
  stamp    : Timestamps,             \* fetchedAt of the running attempt
  batch    : Seq(Observation),       \* fetchResult.Observations
  todo     : Seq(Observation),       \* those still to be persisted
  prior    : Prior,
  seen     : Nat,                    \* ConsecutiveFailures that Record read
  unwarmed : SUBSET Regions]         \* regions warmCache has still to write

NotStarted == [deadline |-> 0, redis |-> FALSE, attempt |-> 0, err |-> "",
               stamp |-> 0, batch |-> <<>>, todo |-> <<>>, prior |-> NoPrior,
               seen |-> 0, unwarmed |-> {}]

\* A cached list: the observations of one region of one fetch.
CacheEntry == [stamp : Timestamps, obs : SUBSET Observation]

Uncached == [stamp |-> 0, obs |-> {}]

TypeOK ==
  /\ clock \in Timestamps
  /\ lock \in Lock
  /\ dlq \in Entry
  /\ rows \in [Items -> Seq(Row)]
  /\ blind \subseteq Items \X Timestamps
  /\ cache \in [Regions -> CacheEntry]
  /\ pc \in [Runs -> PCs]
  /\ run \in [Runs -> RunState]
  /\ failures \in Nat

Init ==
  /\ clock = 0
  /\ lock = Unlocked
  /\ dlq = NoEntry
  /\ rows = [i \in Items |-> <<>>]
  /\ blind = {}
  /\ cache = [g \in Regions |-> Uncached]
  /\ pc = [r \in Runs |-> "idle"]
  /\ run = [r \in Runs |-> NotStarted]
  /\ failures = 0

-----------------------------------------------------------------------------
Active(r) == pc[r] \notin {"idle", "done", "skipped", "crashed"}

\* ctx.Err() # nil: every Redis command, SQL statement and fetch of the
\* execution that takes the job's context fails from now on.
Expired(r) == clock >= run[r].deadline

Step(r, from, to) ==
  /\ pc[r] = from
  /\ pc' = [pc EXCEPT ![r] = to]

\* The job returns (or the container dies): its local state is gone.
Leave(r, from, to) ==
  /\ Step(r, from, to)
  /\ run' = [run EXCEPT ![r] = NotStarted]

stores == <<rows, blind>>
queue  == <<dlq, failures>>

\* An execution starts: its deadline is set before anything else is done.
Start(r) ==
  /\ clock <= MaxStart
  /\ \E redis \in RedisStates :
       /\ Step(r, "idle", IF redis THEN "acquire" ELSE "fetch")
       /\ run' = [run EXCEPT ![r].deadline = clock + RunTimeout,
                             ![r].redis = redis]
  /\ UNCHANGED <<clock, lock, stores, cache, queue>>

-----------------------------------------------------------------------------
(* Step 1: the lock.                                                        *)

Acquire(r) ==
  /\ Step(r, "acquire", "fetch")
  /\ ~Expired(r)
  /\ SetNX(r)
  /\ UNCHANGED <<clock, stores, cache, run, queue>>

\* ErrLockHeld: the job is skipped.
Skip(r) ==
  /\ ~Expired(r)
  /\ ~LockFree
  /\ Leave(r, "acquire", "skipped")
  /\ UNCHANGED <<clock, lock, stores, cache, queue>>

\* Any other error; the job ends without a Release.
AcquireFails(r) ==
  /\ Leave(r, "acquire", "done")
  /\ UNCHANGED <<clock, lock, stores, cache, queue>>

\* SETNX took effect but its reply was lost: the client's own retry of the
\* command finds the key (ErrLockHeld), or gives up.
AcquireReplyLost(r) ==
  /\ ~Expired(r)
  /\ SetNX(r)
  /\ \E to \in {"skipped", "done"} : Leave(r, "acquire", to)
  /\ UNCHANGED <<clock, stores, cache, queue>>

-----------------------------------------------------------------------------
(* Step 2: the fetch, retried by provider.Do.                               *)

\* The fetch has failed for good: the failure is recorded if there is a DLQ.
GiveUp(r, from, err) ==
  IF run[r].redis
  THEN /\ Step(r, from, "record")
       /\ run' = [run EXCEPT ![r].attempt = 0, ![r].err = err]
  ELSE Leave(r, from, "done")

\* An attempt begins; the adapter reads the clock into fetchedAt.
BeginFetch(r) ==
  /\ ~Expired(r)
  /\ Step(r, "fetch", "fetching")
  /\ run' = [run EXCEPT ![r].stamp = clock]
  /\ UNCHANGED <<clock, lock, stores, cache, queue>>

\* The deadline passed before the attempt, or during the back-off before it.
FetchCancelled(r) ==
  /\ Expired(r)
  /\ GiveUp(r, "fetch", "ctx")
  /\ UNCHANGED <<clock, lock, stores, cache, queue>>

\* The provider answers.  A fetch takes time: the clock has moved on.
FetchReturns(r) ==
  /\ Step(r, "fetching", "persist")
  /\ ~Expired(r)
  /\ run[r].stamp < clock
  /\ \E batch \in Batches :
       run' = [run EXCEPT ![r].batch = batch, ![r].todo = batch,
                          ![r].attempt = 0, ![r].err = ""]
  /\ UNCHANGED <<clock, lock, stores, cache, queue>>

\* No attempt is left after this one.
LastAttempt(r) == run[r].attempt + 1 >= MaxAttempts

\* The attempt fails.  No adapter returns an *HTTPError or an unmapped-item
\* error, so Do retries every failure, one wrapped in ErrPermanentFailure too.
FetchFails(r) ==
  /\ pc[r] = "fetching"
  /\ \E err \in IF Expired(r) THEN {"ctx"} ELSE JobErrors \ {"ctx"} :
       IF LastAttempt(r)
       THEN GiveUp(r, "fetching", err)
       ELSE /\ Step(r, "fetching", "fetch")
            /\ run' = [run EXCEPT ![r].attempt = run[r].attempt + 1, ![r].err = err]
  /\ UNCHANGED <<clock, lock, stores, cache, queue>>

\* Step 2b: Record reads the entry ...
ReadDLQ(r) ==
  /\ Step(r, "record", "recording")
  /\ ~Expired(r)
  /\ run' = [run EXCEPT ![r].seen = dlq.count]
  /\ UNCHANGED <<clock, lock, stores, cache, queue>>

\* ... and writes it back.
WriteDLQ(r) ==
  /\ Step(r, "recording", "release")
  /\ ~Expired(r)
  /\ SetEntry(run[r].seen, run[r].err)
  /\ failures' = failures + 1
  /\ run' = [run EXCEPT ![r].seen = 0, ![r].err = ""]
  /\ UNCHANGED <<clock, lock, stores, cache>>

\* One of the two commands fails; the error is only logged.
RecordFails(r) ==
  /\ \/ Step(r, "record", "release")
     \/ Step(r, "recording", "release")
  /\ run' = [run EXCEPT ![r].seen = 0, ![r].err = ""]
  /\ UNCHANGED <<clock, lock, stores, cache, queue>>

-----------------------------------------------------------------------------
(* Step 3: the observations, one after the other.                           *)

CurrentObs(r) == Head(run[r].todo)

Found(id, row) ==
  [state |-> "found", id |-> id, price |-> row.price, unit |-> row.unit]

Lookup(r) ==
  LET h == rows[CurrentObs(r).item]
  IN  /\ Step(r, "persist", "write")
      /\ ~Expired(r)
      /\ run[r].todo # <<>>
      /\ run' = [run EXCEPT ![r].prior =
                   IF h = <<>> THEN NoPrior
                               ELSE Found(LatestId(h), h[LatestId(h)])]
      /\ UNCHANGED <<clock, lock, stores, cache, queue>>

\* Any error but "no rows": the code goes on as if there were no prior row.
LookupFails(r) ==
  /\ Step(r, "persist", "write")
  /\ run[r].todo # <<>>
  /\ run' = [run EXCEPT ![r].prior = FailedLookup]
  /\ UNCHANGED <<clock, lock, stores, cache, queue>>

\* A prior price of zero never counts as unchanged.
UnchangedBelowZeroGuard(prior, obs) ==
  prior.state = "found" /\ prior.price # 0 /\ SamePrice(prior, obs)

Unchanged(prior, obs) == prior.state = "found" /\ SamePrice(prior, obs)

\* A prior price of zero is never an anomaly.
StatusIgnoringFree(prior, obs) ==
  IF prior.state = "found" /\ prior.price # 0
  THEN AnomalyStatus(prior.price, obs.price) ELSE NoAnomaly

\* anomalyStatus: "" unless there is a prior row and its price differs.
StatusOf(prior, obs) ==
  IF prior.state = "found" THEN AnomalyStatus(prior.price, obs.price)
                           ELSE NoAnomaly

\* The loop does not advance.
SameObsAgain(r) ==
  run' = [run EXCEPT ![r].prior = NoPrior]

NextObs(r) ==
  run' = [run EXCEPT ![r].todo = Tail(@), ![r].prior = NoPrior]

\* Same price: UpdatePriceObservationLastSeenAt.
BumpLastSeen(r) ==
  LET obs == CurrentObs(r)
  IN  /\ Step(r, "write", "persist")
      /\ ~Expired(r)
      /\ Unchanged(run[r].prior, obs)
      /\ rows' = [rows EXCEPT ![obs.item] =
                    UpdateLastSeenAt(@, run[r].prior.id, run[r].stamp)]
      /\ NextObs(r)
      /\ UNCHANGED <<clock, lock, blind, cache, queue>>

\* New item, changed price, or failed look-up: InsertPriceObservation.
InsertRow(r) ==
  LET obs == CurrentObs(r)
      row == NewRow(obs, run[r].stamp, StatusOf(run[r].prior, obs))
  IN  /\ Step(r, "write", "persist")
      /\ ~Expired(r)
      /\ ~Unchanged(run[r].prior, obs)
      /\ rows' = [rows EXCEPT ![obs.item] = InsertPriceObservation(@, row)]
      /\ blind' = IF run[r].prior.state = "error"
                  THEN blind \cup {<<obs.item, run[r].stamp>>} ELSE blind
      /\ NextObs(r)
      /\ UNCHANGED <<clock, lock, cache, queue>>

\* The statement fails: the observation is dropped and the loop goes on.
WriteFails(r) ==
  /\ Step(r, "write", "persist")
  /\ NextObs(r)
  /\ UNCHANGED <<clock, lock, stores, cache, queue>>

RegionsOf(batch) == {RegionOf[batch[k].item] : k \in 1 .. Len(batch)}

\* The loop is over.  Nothing that follows can turn the result into an error.
PersistDone(r) ==
  /\ run[r].todo = <<>>
  /\ IF run[r].redis
     THEN /\ Step(r, "persist", "clear")
          /\ run' = [run EXCEPT ![r].unwarmed = RegionsOf(run[r].batch)]
     ELSE Leave(r, "persist", "done")
  /\ UNCHANGED <<clock, lock, stores, cache, queue>>

-----------------------------------------------------------------------------
(* Steps 4 and 5: the DLQ entry is cleared, the cache warmed, the lock       *)
(* released.                                                                 *)

ClearDLQ(r) ==
  /\ Step(r, "clear", "warm")
  /\ ~Expired(r)
  /\ DelEntry
  /\ failures' = 0
  /\ UNCHANGED <<clock, lock, stores, cache, run>>

ClearFails(r) ==
  /\ Step(r, "clear", "warm")
  /\ UNCHANGED <<clock, lock, stores, cache, run, queue>>

ListOf(r, g) ==
  [stamp |-> run[r].stamp,
   obs |-> {obs \in {run[r].batch[k] : k \in 1 .. Len(run[r].batch)} :
              RegionOf[obs.item] = g}]

\* One region's list is written, or its write fails.  The write has a context
\* of its own, so it does not stop at the job's deadline.
Warm(r, g) ==
  /\ pc[r] = "warm"
  /\ g \in run[r].unwarmed
  /\ cache' \in {cache, [cache EXCEPT ![g] = ListOf(r, g)]}
  /\ run' = [run EXCEPT ![r].unwarmed = @ \ {g}]
  /\ UNCHANGED <<clock, lock, stores, pc, queue>>

WarmDone(r) ==
  /\ run[r].unwarmed = {}
  /\ Step(r, "warm", "release")
  /\ UNCHANGED <<clock, lock, stores, cache, run, queue>>

Release(r) ==
  /\ ~Expired(r)
  /\ ReleaseScript(r)
  /\ Leave(r, "release", "done")
  /\ UNCHANGED <<clock, stores, cache, queue>>

\* The command fails, as it must after the deadline: the lock stays.
ReleaseFails(r) ==
  /\ Leave(r, "release", "done")
  /\ UNCHANGED <<clock, lock, stores, cache, queue>>

\* The container dies between two steps.
Crash(r) ==
  /\ Active(r)
  /\ Leave(r, pc[r], "crashed")
  /\ UNCHANGED <<clock, lock, stores, cache, queue>>

\* Without the task timeout: executions outlive their deadline.
TickPastDeadline ==
  /\ clock < MaxTime
  /\ clock' = clock + 1
  /\ UNCHANGED <<lock, stores, cache, pc, run, queue>>

\* Time passes.  The task timeout of the Cloud Run job equals RunTimeout: no
\* execution outlives the tick in which its deadline falls.
Tick ==
  /\ clock < MaxTime
  /\ \A r \in Runs : Active(r) => clock < run[r].deadline
  /\ clock' = clock + 1
  /\ UNCHANGED <<lock, stores, cache, pc, run, queue>>

\* Everything has stopped and the time bound is reached.
Finished ==
  /\ clock = MaxTime
  /\ \A r \in Runs : ~Active(r)
  /\ UNCHANGED vars

\* A step the execution takes by itself, as opposed to being started or killed.
Proceed(r) ==
  \/ Acquire(r) \/ Skip(r) \/ AcquireFails(r) \/ AcquireReplyLost(r)
  \/ BeginFetch(r) \/ FetchCancelled(r) \/ FetchReturns(r) \/ FetchFails(r)
  \/ ReadDLQ(r) \/ WriteDLQ(r) \/ RecordFails(r)
  \/ Lookup(r) \/ LookupFails(r)
  \/ BumpLastSeen(r) \/ InsertRow(r) \/ WriteFails(r) \/ PersistDone(r)
  \/ ClearDLQ(r) \/ ClearFails(r)
  \/ \E g \in Regions : Warm(r, g)
  \/ WarmDone(r) \/ Release(r) \/ ReleaseFails(r)

Next ==
  \/ \E r \in Runs : Start(r) \/ Proceed(r) \/ Crash(r)
  \/ Tick
  \/ Finished

Spec == Init /\ [][Next]_vars

\* Every call an execution makes has a deadline, so an execution that is not
\* killed gets on; time passes.  Nothing forces anybody to start one.
FairSpec ==
  /\ Spec
  /\ WF_vars(Tick)
  /\ \A r \in Runs : WF_vars(Proceed(r))

-----------------------------------------------------------------------------
(* Properties.                                                              *)

\* Where an execution is between its acquisition of the lock and its end.
InJob(r) == Active(r) /\ run[r].redis /\ pc[r] # "acquire"

\* Mutual exclusion: of the executions that use the lock, at most one is inside
\* the job with a live context -- the others can no longer touch the table or
\* the DLQ -- although the lock is only a key that expires by itself
\* (ingest_orchestrator.go:165-198, lock.go:26-57).
ExclusiveIngestion ==
  \A r, s \in Runs :
    InJob(r) /\ ~Expired(r) /\ InJob(s) /\ ~Expired(s) => r = s

\* No row repeats the price of its predecessor (ADR 0006, unless the look-up
\* failed): look-up and insert are separate statements and only the lock keeps
\* two executions from inserting the same change twice.
AdjacentRowsDiffer == \A i \in Items : RowsTellChanges(i, rows[i], blind)

\* Every row carries exactly the anomaly flag its change from the preceding row
\* calls for: the price it was compared with is the one it ends up following.
AnomalyFlagsExact == \A i \in Items : RowsFlagged(i, rows[i], blind)

\* The periods in which an item had its successive prices do not overlap: rows
\* arrive in the order of their fetch, and last_seen_at is bumped on the row
\* that is still the last one.
PricePeriodsDisjoint == \A i \in Items : PeriodsDisjoint(rows[i])

\* ConsecutiveFailures counts the failures recorded since the last clearing:
\* Record's read and write are not atomic, yet no increment is lost.
DLQCountExact == dlq.count = failures

\* A cached list is never replaced by the list of an earlier fetch, although
\* warmCache goes on after the deadline, when the lock has expired.
CacheNeverGoesBack ==
  [][\A g \in Regions : cache[g].stamp <= cache'[g].stamp]_cache

\* The table and the history variable implement the abstract ledger: the
\* look-up, comparison and write of an observation appear as one atomic step.
Ledger == INSTANCE PriceLedger WITH ledger <- rows

ImplementsLedger == Ledger!LedgerSpec

\* An execution that has started ends.
RunsEnd == \A r \in Runs : Active(r) ~> ~Active(r)

\* A lock is not left behind for good: whatever becomes of its holder, it is
\* given back or expires.
LockComesFree == \A r \in Runs : Holds(r) ~> ~Holds(r)

\* ADR 0017 (docs/adr/0017-native-concurrency-with-idempotent-checkpoints.md:24):
\* on a restart after a crash "the worker skips completed chunks and resumes
\* fetching the rest".  The lock of an execution that died with the job
\* incomplete does not make the next one skip the job.
ResumesAfterCrash ==
  [][\A r \in Runs :
       pc[r] # "skipped" /\ pc'[r] = "skipped"
         => \A s \in Runs : Holds(s) => pc[s] # "crashed"]_vars

\* docs/diagrams/03-ingestion-flow.md:115,156: a fetch that fails with
\* ErrPermanentFailure is recorded in the DLQ as blocked.
PermanentFailuresBlocked == dlq.err = "permanent" => dlq.status = "blocked"

-----------------------------------------------------------------------------
(* The inductive invariant behind the safety properties.                    *)

\* No batch names an item twice.  (A fetch of Azure storage does: see
\* OrchestratorTiers.cfg.)
UniqueItems ==
  \A batch \in Batches : \A j, k \in 1 .. Len(batch) :
    batch[j].item = batch[k].item => j = k

\* Every execution reaches Redis, so every execution takes the lock.
AllReachRedis == RedisStates = {TRUE}

\* An execution that writes has an observation to write.
WritesSomething ==
  \A r \in Runs : pc[r] = "write" => run[r].todo # <<>>

\* Where only an execution with a Redis client can be.
RedisOnly == {"acquire", "record", "recording", "clear", "warm", "release"}

\* The lock of an execution outlives its context.
LockInv ==
  \A r \in Runs :
    /\ Active(r) => run[r].deadline <= clock + RunTimeout
    /\ pc[r] \in RedisOnly => run[r].redis
    /\ InJob(r) /\ ~Expired(r)
         => lock.holder = r /\ run[r].deadline <= lock.expires

\* Nobody touches the entry between the read and the write of a Record.
QueueInv ==
  /\ dlq.count = failures
  /\ \A r \in Runs : pc[r] = "recording" /\ ~Expired(r) => run[r].seen = dlq.count

\* Everything recorded of the item is older than t.
OlderThan(i, t) == \A k \in 1 .. Len(rows[i]) : rows[i][k].lastSeen < t

\* The periods of the rows follow each other, and all of them are over.
Chronological ==
  \A i \in Items :
    /\ OlderThan(i, clock)
    /\ \A k \in 1 .. Len(rows[i]) : rows[i][k].fetchedAt <= rows[i][k].lastSeen
    /\ \A j, k \in 1 .. Len(rows[i]) :
         j < k => rows[i][j].lastSeen < rows[i][k].fetchedAt

\* A live execution's fetch is later than everything recorded of the items it
\* has still to persist.
FetchIsNews ==
  \A r \in Runs : ~Expired(r) =>
    /\ pc[r] = "fetching" => \A i \in Items : OlderThan(i, run[r].stamp)
    /\ pc[r] \in {"persist", "write"} =>
         /\ run[r].stamp < clock
         /\ \A k \in 1 .. Len(run[r].todo) :
              OlderThan(run[r].todo[k].item, run[r].stamp)
         /\ \A j, k \in 1 .. Len(run[r].todo) :
              run[r].todo[j].item = run[r].todo[k].item => j = k

\* What the look-up found is still the item's last row when it is acted upon.
PriorIsLast ==
  \A r \in Runs : pc[r] = "write" /\ ~Expired(r) =>
    LET h == rows[CurrentObs(r).item]
    IN  run[r].prior \in
          {FailedLookup, IF h = <<>> THEN NoPrior ELSE Found(Len(h), h[Len(h)])}

TableInv == Chronological /\ FetchIsNews /\ PriorIsLast

\* The strengthening under which the properties are inductive: a live context
\* implies the lock, and under the lock the look-up, comparison and write of an
\* observation, and the read and write of the DLQ entry, are undisturbed.
IndInv ==
  /\ WritesSomething
  /\ LockInv
  /\ QueueInv
  /\ UniqueItems /\ AllReachRedis => TableInv
=============================================================================
