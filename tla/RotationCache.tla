---------------------------- MODULE RotationCache ----------------------------
(***************************************************************************)
(* internal/auth/rotate.go: the replay cache of one API process.  Under    *)
(* the hash of a rotated token it keeps the pair the rotation returned and *)
(* the idempotency key of the request, for a short time.  "items" is the   *)
(* map of one process; each operation holds its mutex throughout.          *)
(***************************************************************************)
EXTENDS Integers, FiniteSets

CONSTANTS
  Tokens,      \* refresh tokens (a pair is named by its refresh token)
  NoToken,
  Keys,        \* idempotency keys
  NoKey,
  ReplayTTL,   \* cacheTTL
  PruneAbove   \* Put prunes a map with more items than this

ASSUME RotationCacheAssumption ==
  /\ NoToken \notin Tokens
  /\ NoKey \notin Keys
  /\ ReplayTTL \in Nat
  /\ PruneAbove \in Nat

\* The token has no item.
NoItem == [key |-> NoKey, pair |-> NoToken, expires |-> 0]

CachedRotation == [key : Keys, pair : Tokens, expires : Nat] \cup {NoItem}

EmptyCache == [t \in Tokens |-> NoItem]

\* now.After(item.ExpiresAt).
Stale(item, now) == now > item.expires

\* Pruning that takes an item's age for its lifetime and drops every item.
PutDropsAll(items, tok, k, pair, now) ==
  [t \in Tokens |->
     IF t = tok THEN [key |-> k, pair |-> pair, expires |-> now + ReplayTTL]
     ELSE NoItem]

\* The first answer is kept: an item is not overwritten while it is found.
PutKeepsFirst(items, tok, k, pair, now) ==
  [items EXCEPT ![tok] =
     IF @ # NoItem /\ ~Stale(@, now) THEN @
     ELSE [key |-> k, pair |-> pair, expires |-> now + ReplayTTL]]

Put(items, tok, k, pair, now) ==
  LET full == Cardinality({t \in Tokens : items[t] # NoItem}) > PruneAbove
  IN  [t \in Tokens |->
         IF t = tok THEN [key |-> k, pair |-> pair, expires |-> now + ReplayTTL]
         ELSE IF full /\ Stale(items[t], now) THEN NoItem
         ELSE items[t]]

\* Get finds an item; the caller then compares its key.
Found(items, tok, now) == items[tok] # NoItem /\ ~Stale(items[tok], now)

Delete(items, tok) == [items EXCEPT ![tok] = NoItem]
=============================================================================
