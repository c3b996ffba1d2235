--------------------------------- MODULE DLQ ---------------------------------
(***************************************************************************)
(* internal/dlq/dlq.go: the entry ingestion:dlq:<provider>:<category> of   *)
(* one job.  Record reads the entry and writes it back incremented in two  *)
(* separate Redis commands; Clear deletes it.                              *)
(***************************************************************************)
EXTENDS Integers

\* Why a job failed.  "auth": a text that names 401, 403 or credentials;
\* "permanent": wrapped in ErrPermanentFailure (unmapped ratio, payload order);
\* "transient": any other provider failure; "ctx": the run's deadline passed.
JobErrors == {"auth", "permanent", "transient", "ctx"}

VARIABLE dlq \* the entry: count 0 when there is none

Entry == [count : Nat, status : {"", "failed", "blocked"}, err : JobErrors \cup {""}]

NoEntry == [count |-> 0, status |-> "", err |-> ""]

\* The classification by the error's text.  The text of a "permanent" failure
\* carries item counts and percentages, whose digits may happen to read 401 or
\* 403.
EntryStatuses(err) ==
  {status \in {"failed", "blocked"} :
     /\ status = "failed"  => err # "auth"
     /\ status = "blocked" => err \in {"auth", "permanent"}}

\* The entry starts over instead of being incremented.
FreshEntry(seen, err, status) == [count |-> 1, status |-> status, err |-> err]

\* The count goes down instead of up.
EntryCountedDown(seen, err, status) ==
  [count |-> seen - 1, status |-> status, err |-> err]

\* The entry Record writes after it has read "seen" consecutive failures.
NextEntry(seen, err, status) ==
  [count |-> seen + 1, status |-> status, err |-> err]

SetEntry(seen, err) ==
  \E status \in EntryStatuses(err) : dlq' = NextEntry(seen, err, status)

DelEntry == dlq' = NoEntry
=============================================================================
