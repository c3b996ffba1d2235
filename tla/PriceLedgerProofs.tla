-------------------------- MODULE PriceLedgerProofs --------------------------
(***************************************************************************)
(* The promises of PriceLedger.tla hold, for every number of items, prices *)
(* and billing dimensions and for histories of any length.                 *)
(***************************************************************************)
EXTENDS PriceLedger, PriceHistoryProofs

\* What a history satisfies on its own.
HistoryInv(i, h, b) ==
  RowsTellChanges(i, h, b) /\ RowsFlagged(i, h, b) /\ PeriodsDisjoint(h)

\* A new last row keeps the promises if it is compared with the row before it,
\* or marked blind, and is later than it.
LEMMA AppendKeepsPromises ==
  ASSUME NEW i \in Items, NEW h \in Seq(Row), NEW row \in Row, NEW b, NEW c,
         b \subseteq c, HistoryInv(i, h, b),
         row.fetchedAt = row.lastSeen,
         h # <<>> => h[Len(h)].lastSeen < row.fetchedAt,
         \/ <<i, row.fetchedAt>> \in c
         \/ /\ h # <<>> => ~SamePrice(h[Len(h)], row)
            /\ row.anomaly = IF h = <<>> THEN NoAnomaly
                                         ELSE AnomalyStatus(h[Len(h)].price, row.price)
  PROVE  HistoryInv(i, Append(h, row), c)
<1> DEFINE g == Append(h, row)
           n == Len(h)
<1>1. /\ n \in Nat /\ Len(g) = n + 1 /\ g[n + 1] = row
      /\ \A k \in 1 .. n : g[k] = h[k]
      /\ h = <<>> <=> n = 0
  OBVIOUS
<1> HIDE DEF g, n
<1>2. n # 0 => h[n] = g[n] /\ n \in 1 .. n
  BY <1>1
<1>3. RowsTellChanges(i, g, c)
  <2> SUFFICES ASSUME NEW k \in 1 .. Len(g) - 1, SamePrice(g[k], g[k + 1])
               PROVE  <<i, g[k + 1].fetchedAt>> \in c
    BY DEF RowsTellChanges
  <2>1. CASE k = n
    BY <1>1, <1>2, <2>1 DEF n
  <2>2. CASE k < n
    <3>1. k \in 1 .. Len(h) - 1 /\ g[k] = h[k] /\ g[k + 1] = h[k + 1]
      BY <1>1, <2>2 DEF n
    <3> QED
      BY <3>1 DEF HistoryInv, RowsTellChanges
  <2> QED
    BY <1>1, <2>1, <2>2
<1>4. RowsFlagged(i, g, c)
  <2> SUFFICES ASSUME NEW k \in 1 .. Len(g), <<i, g[k].fetchedAt>> \notin c
               PROVE  g[k].anomaly = IF k = 1 THEN NoAnomaly
                                     ELSE AnomalyStatus(g[k - 1].price, g[k].price)
    BY DEF RowsFlagged
  <2>1. CASE k = n + 1
    <3>1. g[k] = row /\ (k = 1 <=> h = <<>>) /\ (k # 1 => g[k - 1] = h[n])
      BY <1>1, <1>2, <2>1
    <3> QED
      BY <3>1 DEF n
  <2>2. CASE k <= n
    <3>1. /\ k \in 1 .. Len(h) /\ g[k] = h[k]
          /\ k # 1 => k - 1 \in 1 .. n /\ g[k - 1] = h[k - 1]
      BY <1>1, <2>2 DEF n
    <3>2. <<i, h[k].fetchedAt>> \notin b
      BY <3>1
    <3>3. h[k].anomaly = IF k = 1 THEN NoAnomaly
                                  ELSE AnomalyStatus(h[k - 1].price, h[k].price)
      BY <3>1, <3>2 DEF HistoryInv, RowsFlagged
    <3> QED
      BY <3>1, <3>3
  <2> QED
    BY <1>1, <2>1, <2>2
<1>5. PeriodsDisjoint(g)
  <2>1. ASSUME NEW k \in 1 .. Len(g) PROVE g[k].fetchedAt <= g[k].lastSeen
    <3>1. CASE k = n + 1
      <4>1. row.fetchedAt \in Int
        BY PriceAssumption DEF Row, Timestamps
      <4> QED
        BY <1>1, <3>1, <4>1
    <3>2. CASE k <= n
      <4>1. k \in 1 .. Len(h) /\ g[k] = h[k]
        BY <1>1, <3>2 DEF n
      <4> QED
        BY <4>1 DEF HistoryInv, PeriodsDisjoint
    <3> QED
      BY <1>1, <3>1, <3>2
  <2>2. ASSUME NEW k \in 1 .. Len(g) - 1
        PROVE  g[k].lastSeen < g[k + 1].fetchedAt
    <3>1. CASE k = n
      BY <1>1, <1>2, <3>1 DEF n
    <3>2. CASE k < n
      <4>1. k \in 1 .. Len(h) - 1 /\ g[k] = h[k] /\ g[k + 1] = h[k + 1]
        BY <1>1, <3>2 DEF n
      <4> QED
        BY <4>1 DEF HistoryInv, PeriodsDisjoint
    <3> QED
      BY <1>1, <3>1, <3>2
  <2> QED
    BY <2>1, <2>2 DEF PeriodsDisjoint
<1> QED
  BY <1>3, <1>4, <1>5 DEF HistoryInv, g

\* Bumping the last row's last_seen_at keeps the promises.
LEMMA BumpKeepsPromises ==
  ASSUME NEW i \in Items, NEW h \in Seq(Row), h # <<>>, NEW b, HistoryInv(i, h, b),
         NEW t \in Timestamps, h[Len(h)].lastSeen < t
  PROVE  HistoryInv(i, UpdateLastSeenAt(h, Len(h), t), b)
<1> DEFINE n == Len(h)
           g == UpdateLastSeenAt(h, n, t)
<1>0. n \in Nat /\ n \in 1 .. n /\ h \in [1 .. n -> Row]
  OBVIOUS
<1>1. h[n] \in Row /\ [h[n] EXCEPT !.lastSeen = t] \in Row
  BY <1>0 DEF Row
<1>2. g = [h EXCEPT ![n] = [h[n] EXCEPT !.lastSeen = t]]
  BY DEF UpdateLastSeenAt
<1>3. g \in [1 .. n -> Row] /\ Len(g) = n
  <2>1. g \in [1 .. n -> Row]
    BY <1>0, <1>1, <1>2
  <2>2. Len(g) = n
    BY <1>0, <2>1
  <2> QED
    BY <2>1, <2>2
<1>4. ASSUME NEW k \in 1 .. n
      PROVE  /\ g[k].price = h[k].price /\ g[k].unit = h[k].unit
             /\ g[k].fetchedAt = h[k].fetchedAt /\ g[k].anomaly = h[k].anomaly
             /\ g[k].lastSeen = IF k = n THEN t ELSE h[k].lastSeen
  <2>1. h[k] \in Row /\ (k # n => g[k] = h[k])
    BY <1>0, <1>2
  <2>2. k = n => g[k] = [h[n] EXCEPT !.lastSeen = t]
    BY <1>0, <1>2
  <2> QED
    BY <1>1, <2>1, <2>2 DEF Row
<1> HIDE DEF g
<1>5. RowsTellChanges(i, g, b)
  <2> SUFFICES ASSUME NEW k \in 1 .. n - 1, SamePrice(g[k], g[k + 1])
               PROVE  <<i, g[k + 1].fetchedAt>> \in b
    BY <1>3 DEF RowsTellChanges
  <2>1. k \in 1 .. n /\ k + 1 \in 1 .. n /\ k \in 1 .. Len(h) - 1
    BY <1>0
  <2>2. SamePrice(h[k], h[k + 1])
    BY <1>4, <2>1 DEF SamePrice
  <2> QED
    BY <1>4, <2>1, <2>2 DEF HistoryInv, RowsTellChanges
<1>6. RowsFlagged(i, g, b)
  <2> SUFFICES ASSUME NEW k \in 1 .. n, <<i, g[k].fetchedAt>> \notin b
               PROVE  g[k].anomaly = IF k = 1 THEN NoAnomaly
                                     ELSE AnomalyStatus(g[k - 1].price, g[k].price)
    BY <1>3 DEF RowsFlagged
  <2>1. h[k].anomaly = IF k = 1 THEN NoAnomaly
                                ELSE AnomalyStatus(h[k - 1].price, h[k].price)
    BY <1>4 DEF HistoryInv, RowsFlagged
  <2>2. k # 1 => k - 1 \in 1 .. n
    BY <1>0
  <2>3. k # 1 => g[k - 1].price = h[k - 1].price
    BY <1>4, <2>2
  <2> QED
    BY <1>4, <2>1, <2>3
<1>7. ASSUME NEW k \in 1 .. n - 1
      PROVE  k \in 1 .. n /\ k + 1 \in 1 .. n /\ k # n
  <2> HIDE DEF n
  <2>1. n \in Nat
    BY <1>0
  <2> QED
    BY <2>1
<1>8. PeriodsDisjoint(g)
  <2>1. ASSUME NEW k \in 1 .. n PROVE g[k].fetchedAt <= g[k].lastSeen
    <3>1. /\ h[k].fetchedAt <= h[k].lastSeen
          /\ h[k].fetchedAt \in Int /\ h[k].lastSeen \in Int /\ t \in Int
      <4>1. h[k] \in Row
        BY <1>0
      <4> QED
        BY <4>1, PriceAssumption DEF HistoryInv, PeriodsDisjoint, Row, Timestamps
    <3> QED
      BY <1>4, <3>1
  <2>2. ASSUME NEW k \in 1 .. n - 1 PROVE g[k].lastSeen < g[k + 1].fetchedAt
    <3>1. k \in 1 .. n /\ k + 1 \in 1 .. n /\ k # n
      BY <1>7
    <3>2. h[k].lastSeen < h[k + 1].fetchedAt
      BY DEF HistoryInv, PeriodsDisjoint
    <3> QED
      BY <1>4, <3>1, <3>2
  <2> QED
    BY <1>3, <2>1, <2>2 DEF PeriodsDisjoint
<1> QED
  BY <1>5, <1>6, <1>8 DEF HistoryInv, g

-----------------------------------------------------------------------------
\* What an observation does to the item's history, and that it keeps its type.
LEMMA LedgerTypeNext == LedgerTypeOK /\ [LedgerNext]_ledgerVars => LedgerTypeOK'
<1> SUFFICES ASSUME LedgerTypeOK, [LedgerNext]_ledgerVars PROVE LedgerTypeOK'
  OBVIOUS
<1>1. CASE UNCHANGED ledgerVars
  BY <1>1 DEF LedgerTypeOK, ledgerVars
<1>2. ASSUME NEW obs \in Observation, NEW t \in Timestamps, Observe(obs, t)
      PROVE  LedgerTypeOK'
  <2> DEFINE i == obs.item
             h == ledger[i]
  <2>1. i \in Items /\ h \in Seq(Row) /\ ledger \in [Items -> Seq(Row)]
        /\ blind \subseteq Items \X Timestamps
    BY DEF Observation, LedgerTypeOK
  <2>2. ASSUME NEW a \in AnomalyStatuses
        PROVE  Append(h, NewRow(obs, t, a)) \in Seq(Row)
    <3>1. NewRow(obs, t, a) \in Row
      BY NewRowType
    <3> QED
      BY <2>1, <3>1
  <2>3. CASE SeeAgain(i, obs, t)
    <3>1. UpdateLastSeenAt(h, Len(h), t) \in Seq(Row)
      BY <2>1, UpdateType
    <3> QED
      BY <2>1, <2>3, <3>1 DEF SeeAgain, LedgerTypeOK
  <2>4. CASE RecordChange(i, obs, t)
    <3> DEFINE a == IF h = <<>> THEN NoAnomaly
                                ELSE AnomalyStatus(h[Len(h)].price, obs.price)
    <3>1. a \in AnomalyStatuses
      BY AnomalyStatusType DEF AnomalyStatuses
    <3>2. ledger' = [ledger EXCEPT ![i] = Append(h, NewRow(obs, t, a))]
      BY <2>4 DEF RecordChange
    <3> HIDE DEF a
    <3> QED
      BY <2>1, <2>2, <2>4, <3>1, <3>2 DEF RecordChange, LedgerTypeOK
  <2>5. CASE RecordBlindly(i, obs, t)
    <3>1. NoAnomaly \in AnomalyStatuses
      BY DEF AnomalyStatuses
    <3> QED
      BY <2>1, <2>2, <2>5, <3>1 DEF RecordBlindly, LedgerTypeOK
  <2> QED
    BY <1>2, <2>3, <2>4, <2>5 DEF Observe
<1> QED
  BY <1>1, <1>2 DEF LedgerNext

\* The promises, item by item.
LEMMA LedgerInvIsPerItem ==
  LedgerInv <=> \A i \in Items : HistoryInv(i, ledger[i], blind)
BY DEF LedgerInv, HistoryInv

\* More rows marked blind break no promise.
LEMMA BlindGrows ==
  ASSUME NEW i, NEW h, NEW b, NEW c, b \subseteq c, HistoryInv(i, h, b)
  PROVE  HistoryInv(i, h, c)
BY DEF HistoryInv, RowsTellChanges, RowsFlagged

LEMMA LedgerInvNext ==
  LedgerTypeOK /\ LedgerInv /\ [LedgerNext]_ledgerVars => LedgerInv'
<1> SUFFICES ASSUME LedgerTypeOK, LedgerInv, [LedgerNext]_ledgerVars
             PROVE  LedgerInv'
  OBVIOUS
<1>1. CASE UNCHANGED ledgerVars
  BY <1>1 DEF LedgerInv, ledgerVars
<1>2. ASSUME NEW obs \in Observation, NEW t \in Timestamps, Observe(obs, t)
      PROVE  LedgerInv'
  <2> DEFINE i == obs.item
             h == ledger[i]
  <2>1. /\ i \in Items /\ h \in Seq(Row) /\ ledger \in [Items -> Seq(Row)]
        /\ HistoryInv(i, h, blind)
        /\ h # <<>> => h[Len(h)].lastSeen < t
    BY <1>2, LedgerInvIsPerItem DEF Observation, LedgerTypeOK, Observe, NewsOf
  <2>2. ASSUME NEW g, ledger' = [ledger EXCEPT ![i] = g], HistoryInv(i, g, blind'),
               blind \subseteq blind'
        PROVE  LedgerInv'
    <3>1. ASSUME NEW j \in Items PROVE HistoryInv(j, ledger'[j], blind')
      <4>1. CASE j = i
        BY <2>1, <2>2, <4>1
      <4>2. CASE j # i
        <5>1. ledger'[j] = ledger[j] /\ HistoryInv(j, ledger[j], blind)
          BY <2>1, <2>2, <4>2, LedgerInvIsPerItem
        <5> QED
          BY <2>2, <5>1, BlindGrows
      <4> QED
        BY <4>1, <4>2
    <3> QED
      BY <3>1 DEF LedgerInv, HistoryInv
  <2>3. CASE SeeAgain(i, obs, t)
    <3> DEFINE g == UpdateLastSeenAt(h, Len(h), t)
    <3>1. h # <<>> /\ ledger' = [ledger EXCEPT ![i] = g] /\ blind' = blind
      BY <2>3 DEF SeeAgain
    <3>2. HistoryInv(i, g, blind)
      BY <2>1, <3>1, BumpKeepsPromises
    <3> HIDE DEF g
    <3> QED
      BY <2>2, <3>1, <3>2
  <2>4. ASSUME NEW a \in AnomalyStatuses, NEW c, blind' = c, blind \subseteq c,
               ledger' = [ledger EXCEPT ![i] = Append(h, NewRow(obs, t, a))],
               \/ <<i, t>> \in c
               \/ /\ h # <<>> => ~SamePrice(h[Len(h)], obs)
                  /\ a = IF h = <<>> THEN NoAnomaly
                                     ELSE AnomalyStatus(h[Len(h)].price, obs.price)
        PROVE  LedgerInv'
    <3> DEFINE row == NewRow(obs, t, a)
    <3>1. row \in Row
      BY NewRowType
    <3>2. /\ row.fetchedAt = t /\ row.lastSeen = t /\ row.anomaly = a
          /\ row.price = obs.price /\ row.unit = obs.unit
      BY DEF NewRow
    <3>3. h # <<>> /\ ~SamePrice(h[Len(h)], obs) => ~SamePrice(h[Len(h)], row)
      BY <3>2 DEF SamePrice
    <3> HIDE DEF row
    <3>4. HistoryInv(i, Append(h, row), c)
      BY <2>1, <2>4, <3>1, <3>2, <3>3, AppendKeepsPromises
    <3> QED
      BY <2>2, <2>4, <3>4 DEF row
  <2>5. CASE RecordChange(i, obs, t)
    <3> DEFINE a == IF h = <<>> THEN NoAnomaly
                                ELSE AnomalyStatus(h[Len(h)].price, obs.price)
    <3>1. a \in AnomalyStatuses
      BY AnomalyStatusType DEF AnomalyStatuses
    <3>2. /\ h # <<>> => ~SamePrice(h[Len(h)], obs)
          /\ ledger' = [ledger EXCEPT ![i] = Append(h, NewRow(obs, t, a))]
          /\ blind' = blind
      BY <2>5 DEF RecordChange
    <3> QED
      BY <2>4, <3>1, <3>2
  <2>6. CASE RecordBlindly(i, obs, t)
    <3>1. NoAnomaly \in AnomalyStatuses
      BY DEF AnomalyStatuses
    <3>2. /\ ledger' = [ledger EXCEPT ![i] = Append(h, NewRow(obs, t, NoAnomaly))]
          /\ blind' = blind \cup {<<i, t>>}
      BY <2>6 DEF RecordBlindly
    <3> QED
      BY <2>4, <3>1, <3>2
  <2> QED
    BY <1>2, <2>3, <2>5, <2>6 DEF Observe
<1> QED
  BY <1>1, <1>2 DEF LedgerNext

LEMMA LedgerInitially == LedgerInit => LedgerTypeOK /\ LedgerInv
<1> SUFFICES ASSUME LedgerInit PROVE LedgerTypeOK /\ LedgerInv
  OBVIOUS
<1>1. <<>> \in Seq(Row) /\ Len(<<>>) = 0
  OBVIOUS
<1>2. ASSUME NEW i \in Items PROVE ledger[i] = <<>>
  BY DEF LedgerInit
<1>3. LedgerTypeOK
  BY <1>1 DEF LedgerInit, LedgerTypeOK
<1> QED
  BY <1>1, <1>2, <1>3
     DEF LedgerInv, RowsTellChanges, RowsFlagged, PeriodsDisjoint

\* The abstract ledger keeps its promises: rows tell changes, every row carries
\* the flag its change calls for, and the periods of the rows do not overlap.
THEOREM LedgerKeepsPromises == LedgerSpec => [](LedgerTypeOK /\ LedgerInv)
<1>1. LedgerTypeOK /\ LedgerInv /\ [LedgerNext]_ledgerVars
        => (LedgerTypeOK /\ LedgerInv)'
  BY LedgerTypeNext, LedgerInvNext
<1> QED
  BY <1>1, LedgerInitially, PTL DEF LedgerSpec
=============================================================================
