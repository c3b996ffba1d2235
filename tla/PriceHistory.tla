---------------------------- MODULE PriceHistory ----------------------------
(***************************************************************************)
(* The rows of price_observations that belong to one (provider, category), *)
(* as the SQL of internal/store/queries/price_observations.sql reads and   *)
(* writes them.  The history of an item -- a (sku_id, region) pair -- is   *)
(* the sequence of its rows in the order in which they were inserted, and  *)
(* the row's id is its position.  A price is a natural number of money     *)
(* units; "unit" stands for the three billing dimensions the orchestrator  *)
(* compares besides the price: unit, pricing_model and price_currency.     *)
(***************************************************************************)
EXTENDS Integers, Sequences

CONSTANTS
  Items,            \* the (sku_id, region) pairs of the category
  Prices,           \* the prices a provider may publish
  Units,            \* the billing dimensions a provider may publish
  AnomalyThreshold, \* const AnomalyThreshold
  MaxTime           \* bound on the timestamps

ASSUME PriceAssumption ==
  /\ Prices \subseteq Nat
  /\ AnomalyThreshold \in Nat
  /\ MaxTime \in Nat

Timestamps == 0 .. MaxTime

\* domain.PriceObservation: what an adapter reports of an item.
Observation == [item : Items, price : Prices, unit : Units]

FreeToBillable == "pending_review:free_to_billable"
BillableToFree == "pending_review:billable_to_free"
RatioExceeded  == "pending_review"
NoAnomaly      == ""

AnomalyStatuses == {NoAnomaly, FreeToBillable, BillableToFree, RatioExceeded}

Row == [price : Prices, unit : Units, fetchedAt : Timestamps,
        lastSeen : Timestamps, anomaly : AnomalyStatuses]

-----------------------------------------------------------------------------
(* Comparing an observation with the row it follows.                        *)

\* Price and billing dimensions are identical.
SamePrice(old, obs) ==
  old.price = obs.price /\ old.unit = obs.unit

\* The larger price is at least AnomalyThreshold times the smaller one.
RatioReachesThreshold(old, new) ==
  new >= AnomalyThreshold * old \/ old >= AnomalyThreshold * new

\* The anomaly_status of a new price that follows an old one.
AnomalyStatus(old, new) ==
  CASE old = new                        -> NoAnomaly
    [] old = 0 /\ new # 0               -> FreeToBillable
    [] old # 0 /\ new = 0               -> BillableToFree
    [] old # 0 /\ new # 0 /\ old # new  ->
         IF RatioReachesThreshold(old, new) THEN RatioExceeded ELSE NoAnomaly

-----------------------------------------------------------------------------
(* The statements.                                                          *)

NewRow(obs, stamp, anomaly) ==
  [price |-> obs.price, unit |-> obs.unit, fetchedAt |-> stamp,
   lastSeen |-> stamp, anomaly |-> anomaly]

\* The order of the rows reversed: ORDER BY fetched_at ASC.
OldestId(h) ==
  CHOOSE i \in 1 .. Len(h) :
    \A j \in 1 .. Len(h) : h[i].fetchedAt <= h[j].fetchedAt

\* GetLatestPriceForSKUAndCategory: ORDER BY fetched_at DESC LIMIT 1.
LatestId(h) ==
  CHOOSE i \in 1 .. Len(h) :
    \A j \in 1 .. Len(h) : h[j].fetchedAt <= h[i].fetchedAt

\* INSERT ... ON CONFLICT (provider, sku_id, region, fetched_at) DO UPDATE.
InsertPriceObservation(h, row) ==
  IF \E i \in 1 .. Len(h) : h[i].fetchedAt = row.fetchedAt
  THEN [i \in 1 .. Len(h) |->
          IF h[i].fetchedAt = row.fetchedAt THEN row ELSE h[i]]
  ELSE Append(h, row)

\* UPDATE ... SET last_seen_at WHERE id.
UpdateLastSeenAt(h, id, stamp) == [h EXCEPT ![id].lastSeen = stamp]

-----------------------------------------------------------------------------
(* What a history has to satisfy.  "blind" is the set of <<item, fetchedAt>> *)
(* of the rows that were inserted although the look-up of their predecessor *)
(* failed: the code inserts those without any comparison.                   *)

\* Consecutive rows tell a change: no row repeats the price and the billing
\* dimensions of the row before it.
RowsTellChanges(i, h, blind) ==
  \A k \in 1 .. Len(h) - 1 :
    SamePrice(h[k], h[k + 1]) => <<i, h[k + 1].fetchedAt>> \in blind

\* Every row is flagged exactly as its change from the row before it demands.
RowsFlagged(i, h, blind) ==
  \A k \in 1 .. Len(h) :
    \/ h[k].anomaly = IF k = 1 THEN NoAnomaly
                               ELSE AnomalyStatus(h[k - 1].price, h[k].price)
    \/ <<i, h[k].fetchedAt>> \in blind

\* The periods [fetched_at, last_seen_at] of consecutive rows do not overlap.
PeriodsDisjoint(h) ==
  /\ \A k \in 1 .. Len(h) : h[k].fetchedAt <= h[k].lastSeen
  /\ \A k \in 1 .. Len(h) - 1 : h[k].lastSeen < h[k + 1].fetchedAt
=============================================================================
