------------------------------- MODULE FxRates -------------------------------
(***************************************************************************)
(* internal/fx: the exchange rates an API process keeps in memory.  It     *)
(* refreshes them once, before it serves (cmd/api/main.go:110), loads a    *)
(* missing one from fx_rates when a conversion needs it, and converts with *)
(* a second look at the map.  The ingestion publishes newer rates into the *)
(* table meanwhile.  A rate is its date, or zero.                          *)
(***************************************************************************)
EXTENDS Integers, FiniteSets

CONSTANTS
  FxBase,         \* the base currency, USD
  FxForeign,      \* the other currencies
  FxCalls,        \* calls of Convert
  MaxDate         \* bound: dates with a publication

ASSUME FxAssumption == FxBase \notin FxForeign /\ MaxDate \in Nat \ {0}

VARIABLES
  fxDate,      \* the last date published upstream
  fxTable,     \* fx_rates: the last date stored of each currency, 0 if none
  rates,       \* the map in memory
  serving,     \* RefreshRates has returned
  conversion   \* the calls

fxVars == <<fxDate, fxTable, rates, serving, conversion>>

Currencies == FxForeign \cup {FxBase}

\* CachedRate; a rate may be zero only if upstream says so.
CachedRate == [date : 0..MaxDate, zero : BOOLEAN, fallback : BOOLEAN, known : BOOLEAN]
NoRate == [date |-> 0, zero |-> FALSE, fallback |-> FALSE, known |-> FALSE]

\* mapStoreRowToCachedRate.
FromRow(date) == [date |-> date, zero |-> FALSE, fallback |-> TRUE, known |-> TRUE]

FxTypeOK ==
  /\ fxDate \in 0..MaxDate
  /\ fxTable \in [FxForeign -> 0..MaxDate]
  /\ rates \in [Currencies -> CachedRate]
  /\ serving \in BOOLEAN
  /\ conversion \in [FxCalls ->
       [at : {"idle", "cache", "from", "storeFrom", "to", "storeTo", "again",
              "apply", "done", "failed"},
        from : Currencies, to : Currencies, row : 0..MaxDate,
        flagged : BOOLEAN,      \* FXMetadata.IsFallback of the answer
        used : SUBSET CachedRate]]  \* history: the rates the amount is made of

FxInit ==
  /\ fxDate = 0
  /\ fxTable = [c \in FxForeign |-> 0]
  /\ rates = [c \in Currencies |-> NoRate]
  /\ serving = FALSE
  /\ conversion = [v \in FxCalls |->
       [at |-> "idle", from |-> FxBase, to |-> FxBase, row |-> 0, flagged |-> FALSE,
        used |-> {}]]

-----------------------------------------------------------------------------
(* Upstream and the ingestion's RefreshRates, which only this table shares. *)

PublishRates ==
  /\ fxDate < MaxDate
  /\ fxDate' = fxDate + 1
  /\ UNCHANGED <<fxTable, rates, serving, conversion>>

\* UpsertFXRate, one currency at a time.
UpsertRate(c) ==
  /\ fxTable[c] < fxDate
  /\ fxTable' = [fxTable EXCEPT ![c] = fxDate]
  /\ UNCHANGED <<fxDate, rates, serving, conversion>>

-----------------------------------------------------------------------------
(* RefreshRates at the start of the process.                                *)

\* Upstream answers, for the currencies it knows.
RefreshFromUpstream ==
  /\ ~serving /\ fxDate > 0
  /\ serving' = TRUE
  /\ \E quoted \in SUBSET FxForeign \ {{}} : \E zero \in SUBSET quoted :
       rates' = [c \in Currencies |->
         IF c \in quoted \cup {FxBase}
         THEN [date |-> fxDate, zero |-> c \in zero, fallback |-> FALSE, known |-> TRUE]
         ELSE rates[c]]
  /\ UNCHANGED <<fxDate, fxTable, conversion>>

\* It does not, and the table has rates (ListLatestFXRates).
RefreshFromTable ==
  /\ ~serving /\ \E c \in FxForeign : fxTable[c] > 0
  /\ serving' = TRUE
  /\ rates' = [c \in Currencies |->
       IF c = FxBase THEN FromRow(fxDate)
       ELSE IF fxTable[c] > 0 THEN FromRow(fxTable[c]) ELSE rates[c]]
  /\ UNCHANGED <<fxDate, fxTable, conversion>>

\* ErrUpstreamUnavailable is logged; the process serves all the same.
RefreshFails ==
  /\ ~serving
  /\ serving' = TRUE
  /\ UNCHANGED <<fxDate, fxTable, rates, conversion>>

-----------------------------------------------------------------------------
(* Convert.                                                                 *)

ConvertCall(v, from, to) ==
  /\ serving /\ conversion[v].at = "idle" /\ from # to
  /\ conversion' = [conversion EXCEPT ![v].at = "cache", ![v].from = from, ![v].to = to]
  /\ UNCHANGED <<fxDate, fxTable, rates, serving>>

Divisible(c) == rates[c].known /\ ~rates[c].zero

\* resolveRateFromCache finds a rate.  (The base currency is in the map too.)
Resolved(from, to) ==
  \/ from = FxBase /\ rates[to].known
  \/ Divisible(from) /\ (to = FxBase \/ rates[to].known)

\* A mutant: the flag of the target currency alone.
FlagOfTarget(from, to) == rates[to].fallback

\* The flag of the rate it returns: of the currency that is not the base, or
\* of either.
ResolvedFlag(from, to) ==
  IF from = FxBase THEN rates[to].fallback
  ELSE IF to = FxBase THEN rates[from].fallback
  ELSE rates[from].fallback \/ rates[to].fallback

\* GetRate, under the first read lock, before and after the database.
LookInCache(v) ==
  LET from == conversion[v].from
      to == conversion[v].to
      again == conversion[v].at = "again"
  IN /\ conversion[v].at \in {"cache", "again"}
     /\ conversion' =
          IF Resolved(from, to)
          THEN [conversion EXCEPT ![v].at = "apply", ![v].flagged = ResolvedFlag(from, to)]
          ELSE [conversion EXCEPT ![v].at = IF again THEN "failed" ELSE "from"]
     /\ UNCHANGED <<fxDate, fxTable, rates, serving>>

\* resolveRateFromDB for one of the two currencies: skipped for the base and
\* for a currency in the map, even when its rate is zero; then GetLatestFXRate.
LookInTable(v) ==
  LET at == conversion[v].at
      currency == IF at = "from" THEN conversion[v].from ELSE conversion[v].to
      store == IF at = "from" THEN "storeFrom" ELSE "storeTo"
      next == IF at = "from" THEN "to" ELSE "again"
  IN /\ at \in {"from", "to"}
     /\ \/ /\ currency # FxBase /\ ~rates[currency].known /\ fxTable[currency] > 0
           /\ conversion' = [conversion EXCEPT ![v].at = store, ![v].row = fxTable[currency]]
        \/ conversion' = [conversion EXCEPT ![v].at = next]  \* skipped, no row, or error
     /\ UNCHANGED <<fxDate, fxTable, rates, serving>>

\* The row goes into the map, whatever the map holds by now.
StoreRate(v) ==
  LET at == conversion[v].at
      currency == IF at = "storeFrom" THEN conversion[v].from ELSE conversion[v].to
  IN /\ at \in {"storeFrom", "storeTo"}
     /\ rates' = [rates EXCEPT ![currency] = FromRow(conversion[v].row)]
     /\ conversion' = [conversion EXCEPT
          ![v].at = IF at = "storeFrom" THEN "to" ELSE "again"]
     /\ UNCHANGED <<fxDate, fxTable, serving>>

\* The amount, under the second read lock.
Apply(v) ==
  LET from == conversion[v].from
      to == conversion[v].to
  IN /\ conversion[v].at = "apply"
     /\ conversion' = [conversion EXCEPT ![v].at = "done",
          ![v].used = {rates[c] : c \in {from, to} \ {FxBase}}]
     /\ UNCHANGED <<fxDate, fxTable, rates, serving>>

FxNext ==
  \/ PublishRates \/ \E c \in FxForeign : UpsertRate(c)
  \/ RefreshFromUpstream \/ RefreshFromTable \/ RefreshFails
  \/ \E v \in FxCalls :
       \/ \E from, to \in Currencies : ConvertCall(v, from, to)
       \/ LookInCache(v) \/ LookInTable(v) \/ StoreRate(v) \/ Apply(v)

FxSpec == FxInit /\ [][FxNext]_fxVars

-----------------------------------------------------------------------------
(* Properties.                                                              *)

\* A conversion that used a rate from the table says so (docs/adr/0035: the
\* answer then carries "stale_fx_rate"), and no amount is made of a rate that
\* is missing or divided by zero: although the flag and the amount come from
\* two looks at the map, with other conversions storing rates in between.
ConversionsHonest ==
  \A v \in FxCalls : conversion[v].at = "done" =>
    /\ (\E r \in conversion[v].used : r.fallback) => conversion[v].flagged
    /\ \A r \in conversion[v].used : r.known
    /\ conversion[v].from = FxBase \/ ~rates[conversion[v].from].zero
=============================================================================
