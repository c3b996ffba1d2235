------------------------- MODULE PriceHistoryProofs -------------------------
(***************************************************************************)
(* Facts about the operators of PriceHistory.tla, for every history.       *)
(***************************************************************************)
EXTENDS PriceHistory, FiniteSetTheorems, WellFoundedInduction, TLAPS

(* A function into an initial segment of the naturals attains its maximum. *)
(* The sets f[i] .. n are finite, and strict inclusion is well founded on  *)
(* finite sets: the least of them belongs to the greatest f[i].            *)
LEMMA MaximumExists ==
  ASSUME NEW n \in Nat, NEW K, K # {}, NEW f \in [K -> 0 .. n]
  PROVE  \E i \in K : \A j \in K : f[j] <= f[i]
<1> DEFINE Above(i) == f[i] .. n
           T == {Above(i) : i \in K}
<1>1. IsWellFoundedOn(StrictSubsetOrdering(0 .. n), FiniteSubsetsOf(0 .. n))
  BY FS_StrictSubsetOrderingWellFounded
<1>2. ASSUME NEW i \in K
      PROVE  Above(i) \in SUBSET (0 .. n) /\ IsFiniteSet(Above(i))
  <2>1. f[i] \in 0 .. n
    OBVIOUS
  <2>2. IsFiniteSet(f[i] .. n)
    BY <2>1, FS_Interval
  <2> QED
    BY <2>1, <2>2
<1>3. T \subseteq FiniteSubsetsOf(0 .. n) /\ T # {}
  BY <1>2 DEF FiniteSubsetsOf
<1>4. PICK X \in T : \A Y \in T : <<Y, X>> \notin StrictSubsetOrdering(0 .. n)
  BY <1>1, <1>3, WFMin
<1>5. PICK i \in K : X = Above(i)
  BY <1>4
<1>6. ASSUME NEW j \in K, f[i] < f[j] PROVE FALSE
  <2>1. f[i] \in 0 .. n /\ f[j] \in 0 .. n
    OBVIOUS
  <2>2. Above(j) \subseteq Above(i) /\ f[i] \in Above(i) /\ f[i] \notin Above(j)
    BY <2>1, <1>6
  <2>3. <<Above(j), Above(i)>> \in StrictSubsetOrdering(0 .. n)
    BY <2>2, <1>2 DEF StrictSubsetOrdering
  <2> QED
    BY <2>3, <1>4, <1>5
<1> QED
  BY <1>6

(* ORDER BY fetched_at DESC LIMIT 1 returns a row, and one fetched last.   *)
LEMMA LatestIdIsLatest ==
  ASSUME NEW h \in Seq(Row), h # <<>>
  PROVE  /\ LatestId(h) \in 1 .. Len(h)
         /\ \A j \in 1 .. Len(h) : h[j].fetchedAt <= h[LatestId(h)].fetchedAt
<1> DEFINE f == [i \in 1 .. Len(h) |-> h[i].fetchedAt]
<1>1. MaxTime \in Nat /\ 1 .. Len(h) # {}
  BY PriceAssumption
<1>2. ASSUME NEW i \in 1 .. Len(h) PROVE h[i].fetchedAt \in 0 .. MaxTime
  <2>1. h[i] \in Row
    OBVIOUS
  <2> QED
    BY <2>1 DEF Row, Timestamps
<1>3. f \in [1 .. Len(h) -> 0 .. MaxTime]
  BY <1>2
<1> HIDE DEF f
<1>4. \E i \in 1 .. Len(h) : \A j \in 1 .. Len(h) : f[j] <= f[i]
  BY <1>1, <1>3, MaximumExists
<1>5. \E i \in 1 .. Len(h) :
        \A j \in 1 .. Len(h) : h[j].fetchedAt <= h[i].fetchedAt
  BY <1>4 DEF f
<1> QED
  BY <1>5 DEF LatestId

(* In a history whose periods follow each other, the row the look-up finds *)
(* is the row inserted last.                                               *)
LEMMA LatestIsLast ==
  ASSUME NEW h \in Seq(Row), h # <<>>,
         \A k \in 1 .. Len(h) : h[k].fetchedAt <= h[k].lastSeen,
         \A j, k \in 1 .. Len(h) : j < k => h[j].lastSeen < h[k].fetchedAt
  PROVE  LatestId(h) = Len(h)
<1>1. /\ LatestId(h) \in 1 .. Len(h)
      /\ \A j \in 1 .. Len(h) : h[j].fetchedAt <= h[LatestId(h)].fetchedAt
  BY LatestIdIsLatest
<1>2. Len(h) \in 1 .. Len(h)
  OBVIOUS
<1>3. ASSUME NEW k \in 1 .. Len(h)
      PROVE  h[k].fetchedAt \in Int /\ h[k].lastSeen \in Int
  <2>1. h[k] \in Row
    OBVIOUS
  <2> QED
    BY <2>1, PriceAssumption DEF Row, Timestamps
<1>4. ASSUME LatestId(h) < Len(h) PROVE FALSE
  <2> DEFINE k == LatestId(h)
  <2>1. h[k].fetchedAt <= h[k].lastSeen /\ h[k].lastSeen < h[Len(h)].fetchedAt
    BY <1>1, <1>2, <1>4
  <2>2. h[Len(h)].fetchedAt <= h[k].fetchedAt
    BY <1>1, <1>2
  <2> HIDE DEF k
  <2> QED
    BY <2>1, <2>2, <1>1, <1>2, <1>3 DEF k
<1> QED
  BY <1>1, <1>4

(* What is written of an observation is a row.                             *)
LEMMA AnomalyStatusType ==
  ASSUME NEW old, NEW new
  PROVE  AnomalyStatus(old, new) \in AnomalyStatuses
BY DEF AnomalyStatus, AnomalyStatuses

LEMMA NewRowType ==
  ASSUME NEW obs \in Observation, NEW t \in Timestamps, NEW a \in AnomalyStatuses
  PROVE  NewRow(obs, t, a) \in Row
BY DEF NewRow, Row, Observation

(* The two statements map histories to histories.                          *)
LEMMA InsertType ==
  ASSUME NEW h \in Seq(Row), NEW row \in Row
  PROVE  InsertPriceObservation(h, row) \in Seq(Row)
<1>1. CASE \E i \in 1 .. Len(h) : h[i].fetchedAt = row.fetchedAt
  <2> DEFINE g == [i \in 1 .. Len(h) |->
                     IF h[i].fetchedAt = row.fetchedAt THEN row ELSE h[i]]
  <2>1. g \in [1 .. Len(h) -> Row] /\ Len(h) \in Nat
    OBVIOUS
  <2>2. g \in Seq(Row)
    BY <2>1
  <2> QED
    BY <1>1, <2>2 DEF InsertPriceObservation
<1>2. CASE ~ \E i \in 1 .. Len(h) : h[i].fetchedAt = row.fetchedAt
  BY <1>2 DEF InsertPriceObservation
<1> QED
  BY <1>1, <1>2

LEMMA UpdateType ==
  ASSUME NEW h \in Seq(Row), NEW id, NEW t \in Timestamps
  PROVE  UpdateLastSeenAt(h, id, t) \in Seq(Row)
<1>1. Len(h) \in Nat /\ h \in [1 .. Len(h) -> Row]
  OBVIOUS
<1>2. ASSUME NEW k \in 1 .. Len(h) PROVE [h[k] EXCEPT !.lastSeen = t] \in Row
  <2>1. h[k] \in Row
    OBVIOUS
  <2> QED
    BY <2>1 DEF Row
<1>3. UpdateLastSeenAt(h, id, t) \in [1 .. Len(h) -> Row]
  BY <1>1, <1>2 DEF UpdateLastSeenAt
<1> QED
  BY <1>1, <1>3
=============================================================================
