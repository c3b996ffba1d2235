----------------------------- MODULE PriceLedger -----------------------------
(***************************************************************************)
(* What ingestion promises of price_observations, without locks, runs or   *)
(* time-outs: each observation of an item is compared with the item's last *)
(* row and recorded, in one step, and observations arrive in the order of  *)
(* their fetch.  Orchestrator.tla implements this specification.           *)
(***************************************************************************)
EXTENDS PriceHistory

VARIABLES
  ledger, \* the history of each item
  blind   \* the <<item, fetchedAt>> recorded without a comparison

ledgerVars == <<ledger, blind>>

LedgerTypeOK ==
  /\ ledger \in [Items -> Seq(Row)]
  /\ blind \subseteq Items \X Timestamps

LedgerInit ==
  /\ ledger = [i \in Items |-> <<>>]
  /\ blind = {}

\* t is later than everything recorded of the item so far.
NewsOf(i, t) ==
  ledger[i] # <<>> => ledger[i][Len(ledger[i])].lastSeen < t

\* The item still has the price of its last row.
SeeAgain(i, obs, t) ==
  /\ ledger[i] # <<>>
  /\ SamePrice(ledger[i][Len(ledger[i])], obs)
  /\ ledger' = [ledger EXCEPT ![i] = UpdateLastSeenAt(@, Len(@), t)]
  /\ UNCHANGED blind

\* The item is new, or its price or its billing dimensions changed.
RecordChange(i, obs, t) ==
  LET h == ledger[i]
      status == IF h = <<>> THEN NoAnomaly
                            ELSE AnomalyStatus(h[Len(h)].price, obs.price)
  IN  /\ h # <<>> => ~SamePrice(h[Len(h)], obs)
      /\ ledger' = [ledger EXCEPT ![i] = Append(h, NewRow(obs, t, status))]
      /\ UNCHANGED blind

\* The last row could not be read: the observation is recorded unflagged.
RecordBlindly(i, obs, t) ==
  /\ ledger' = [ledger EXCEPT ![i] = Append(@, NewRow(obs, t, NoAnomaly))]
  /\ blind' = blind \cup {<<i, t>>}

Observe(obs, t) ==
  /\ NewsOf(obs.item, t)
  /\ \/ SeeAgain(obs.item, obs, t)
     \/ RecordChange(obs.item, obs, t)
     \/ RecordBlindly(obs.item, obs, t)

LedgerNext == \E obs \in Observation, t \in Timestamps : Observe(obs, t)

LedgerSpec == LedgerInit /\ [][LedgerNext]_ledgerVars

-----------------------------------------------------------------------------
\* The three promises, for every item.
LedgerInv ==
  \A i \in Items :
    /\ RowsTellChanges(i, ledger[i], blind)
    /\ RowsFlagged(i, ledger[i], blind)
    /\ PeriodsDisjoint(ledger[i])
=============================================================================
