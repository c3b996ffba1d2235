---------------------------- MODULE IngestionLock ----------------------------
(***************************************************************************)
(* internal/cache/lock.go: the Redis lock of one (provider, category) job. *)
(* The key's value is a token drawn afresh by each acquisition; an         *)
(* execution acquires at most once, so the token is the execution itself.  *)
(* Redis deletes the key when its TTL has passed: a lock whose expiry time *)
(* has come counts as free.                                                *)
(***************************************************************************)
EXTENDS Integers

CONSTANTS
  Runs,    \* executions of the ingestion job
  NoRun,   \* no execution: the key does not exist
  LockTTL  \* OrchestratorConfig.LockTTL

ASSUME LockAssumption == NoRun \notin Runs /\ LockTTL \in Nat

VARIABLES
  clock,   \* time, in ticks
  lock     \* the key: its token and the time at which it expires

Lock == [holder : Runs \cup {NoRun}, expires : Nat]

Unlocked == [holder |-> NoRun, expires |-> 0]

LockFree == lock.holder = NoRun \/ lock.expires <= clock

Holds(r) == lock.holder = r /\ clock < lock.expires

\* SETNX does not look at the existing key.
SetOverwriting(r) == lock' = [holder |-> r, expires |-> clock + LockTTL]

\* SETNX without a TTL: the key never expires.
SetNXForever(r) ==
  /\ LockFree
  /\ lock' = [holder |-> r, expires |-> 1000]

\* The key expires one tick before the execution that set it must end.
SetNXShort(r) ==
  /\ LockFree
  /\ lock' = [holder |-> r, expires |-> clock + LockTTL - 1]

\* SETNX key token EX ttl, when it finds no key.
SetNX(r) ==
  /\ LockFree
  /\ lock' = [holder |-> r, expires |-> clock + LockTTL]

\* The script of Release: delete the key if it still holds our token.
ReleaseScript(r) == lock' = IF Holds(r) THEN Unlocked ELSE lock
=============================================================================
