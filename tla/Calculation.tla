----------------------------- MODULE Calculation -----------------------------
(***************************************************************************)
(* internal/service: Calculate (calculate.go) and Compare (compare.go),    *)
(* and the loops of their own that the REST handlers of compute, storage   *)
(* and network run (internal/transport/rest).  One call asks every         *)
(* provider for every category in turn; what MatchAndCalculate answers is  *)
(* an outcome, its arithmetic is in Matching.                              *)
(***************************************************************************)
EXTENDS Integers, Sequences, FiniteSets, FiniteSetsExt

CONSTANTS
  CalcProviders,  \* the providers, in the order they are asked
  CalcSupports,   \* the providers that declare more than the basic categories
  CalcCosts,      \* what a provider's match may cost per hour
  CalcRequests    \* the calls: a loop and the categories it is called for

BasicCategories == {"compute", "storage", "network"}

(* The registry's order.                                                   *)
CalcOrder == <<"compute", "storage", "network", "database_rdbms", "database_nosql",
               "kubernetes", "serverless">>
CalcCategories == {CalcOrder[i] : i \in DOMAIN CalcOrder}

(* An empty request never reaches the loop (ErrNoCategoriesRequested), and *)
(* SupportedProviders lists no provider twice.                             *)
ASSUME CalculationAssumption ==
  /\ CalcProviders \in Seq({CalcProviders[i] : i \in DOMAIN CalcProviders})
  /\ \A i, j \in DOMAIN CalcProviders : CalcProviders[i] = CalcProviders[j] => i = j
  /\ \A r \in CalcRequests :
       /\ r.loop \in {"calculate", "compare", "rest"}
       /\ r.categories \in (SUBSET CalcCategories) \ {{}}
       /\ r.loop # "calculate" => Cardinality(r.categories) = 1
       /\ r.loop = "rest" => r.categories \subseteq BasicCategories
  /\ CalcSupports \subseteq {CalcProviders[i] : i \in DOMAIN CalcProviders}
  /\ CalcCosts \subseteq Nat

VARIABLES
  calcAsk,       \* which loop runs and for which categories; "" when none does
  calcAt,        \* the provider being asked, Len + 1 when the loop is over
  calcDone,      \* the categories this provider has answered for
  calcTally,     \* this provider's prices, and how many categories failed
  calcFailures,  \* how many providers failed in every category
  calcResults, calcWarnings,
  calcOutcomes,  \* history: what MatchAndCalculate answered for each pair
  calcAnswer     \* what the caller received

calcVars == <<calcAsk, calcAt, calcDone, calcTally, calcFailures, calcResults, calcWarnings,
              calcOutcomes, calcAnswer>>

Supported(provider, category) == category \in BasicCategories \/ provider \in CalcSupports

Explained == [unsupported |-> "category_not_supported", engine |-> "engine_mismatch_excluded",
              architecture |-> "architecture_unsupported_excluded", unmatched |-> "no_match",
              empty |-> "no_data_available", failed |-> "fetch_failed"]

(* What MatchAndCalculate may answer for a pair, its cost last.  A price   *)
(* that was not in USD is converted ("stale" rates are said to be so) or   *)
(* left as it was.                                                         *)
CalcOutcomes(provider, category) ==
  IF ~Supported(provider, category) THEN {<<"unsupported", 0>>}
  ELSE {<<o, 0>> : o \in {"unmatched", "empty", "failed"}
                           \cup (IF category = "database_rdbms" THEN {"engine"} ELSE {})
                           \cup (IF category = "serverless" THEN {"architecture"} ELSE {})}
       \cup {"priced", "stale", "unconverted"} \X CalcCosts

ResultWarnings == [stale |-> {"stale_fx_rate"}, unconverted |-> {"fx_conversion_failed"}, priced |-> {}]

IsPrice(outcome) == outcome[1] \in DOMAIN ResultWarnings

(* The loop of a REST handler passes on no warning of a result.            *)
WarningsOf(loop, outcome) ==
  IF IsPrice(outcome) THEN (IF loop = "rest" THEN {} ELSE ResultWarnings[outcome[1]])
                      ELSE {Explained[outcome[1]]}

NoTally == [prices |-> << >>, failed |-> 0]
NoAsk == [loop |-> "", categories |-> {}]

CalculationInit ==
  /\ calcAsk = NoAsk /\ calcAt = 1 /\ calcDone = {} /\ calcTally = NoTally /\ calcFailures = 0
  /\ calcResults = {} /\ calcWarnings = {} /\ calcOutcomes = << >> /\ calcAnswer = "none"

CalcStart(request) ==
  /\ calcAsk = NoAsk
  /\ calcAsk' = request
  /\ UNCHANGED <<calcAt, calcDone, calcTally, calcFailures, calcResults, calcWarnings,
                 calcOutcomes, calcAnswer>>

AtProvider == calcAsk # NoAsk /\ calcAt \in DOMAIN CalcProviders
Due(categories) == CalcOrder[Min({i \in DOMAIN CalcOrder : CalcOrder[i] \in categories})]

(* An assignment to a key of a map.                                        *)
Put(map, key, value) == [k \in DOMAIN map \cup {key} |-> IF k = key THEN value ELSE map[k]]

(* One category of the current provider (MatchAndCalculate and the switch  *)
(* over its error).                                                        *)
AskCategory(provider, category, outcome) ==
  /\ calcDone' = calcDone \cup {category}
  /\ calcWarnings' = calcWarnings \cup {<<provider, w>> : w \in WarningsOf(calcAsk.loop, outcome)}
  /\ calcTally' = [prices |-> IF IsPrice(outcome) THEN Put(calcTally.prices, category, outcome[2])
                                                  ELSE calcTally.prices,
                   failed |-> calcTally.failed + (IF outcome[1] = "failed" THEN 1 ELSE 0)]
  /\ calcOutcomes' = Put(calcOutcomes, <<provider, category>>, outcome)
  /\ UNCHANGED <<calcAsk, calcAt, calcFailures, calcResults, calcAnswer>>

Total(prices) == MapThenSumSet(LAMBDA c : prices[c], DOMAIN prices)

ProviderResult(provider, prices, asked) ==
  [provider |-> provider, categories |-> DOMAIN prices, sum |-> Total(prices),
   field |-> IF DOMAIN prices = asked THEN "total" ELSE "partial_total"]

(* A mutant: the tally goes on over all providers.                         *)
SameTally == calcTally

(* The provider's total, and the counters of the next one start over.      *)
NextTally == NoTally
ProviderEnds ==
  /\ AtProvider /\ calcDone = calcAsk.categories
  /\ calcFailures' = calcFailures + (IF calcTally.failed = Cardinality(calcAsk.categories) THEN 1 ELSE 0)
  /\ calcResults' = calcResults \cup
       (IF DOMAIN calcTally.prices = {} THEN {}
        ELSE {ProviderResult(CalcProviders[calcAt], calcTally.prices, calcAsk.categories)})
  /\ calcAt' = calcAt + 1 /\ calcDone' = {} /\ calcTally' = NextTally
  /\ UNCHANGED <<calcAsk, calcWarnings, calcOutcomes, calcAnswer>>

(* ErrProviderUnavailable (502) when every single provider failed.         *)
CalcReply ==
  /\ calcAsk # NoAsk /\ calcAt > Len(CalcProviders) /\ calcAnswer = "none"
  /\ calcAnswer' = IF calcResults = {} /\ calcFailures = Len(CalcProviders)
                     THEN "provider_unavailable" ELSE "ok"
  /\ UNCHANGED <<calcAsk, calcAt, calcDone, calcTally, calcFailures, calcResults, calcWarnings,
                 calcOutcomes>>

CalculationNext ==
  \/ \E r \in CalcRequests : CalcStart(r)
  \/ /\ AtProvider /\ calcDone # calcAsk.categories
     /\ LET p == CalcProviders[calcAt]
            c == Due(calcAsk.categories \ calcDone)
        IN  \E o \in CalcOutcomes(p, c) : AskCategory(p, c, o)
  \/ ProviderEnds
  \/ CalcReply

CalculationSpec == CalculationInit /\ [][CalculationNext]_calcVars

-----------------------------------------------------------------------------
CalculationTypeOK ==
  /\ calcAsk.categories \subseteq CalcCategories
  /\ calcAt \in 1..Len(CalcProviders) + 1
  /\ calcDone \subseteq calcAsk.categories
  /\ DOMAIN calcTally.prices \subseteq calcDone
  /\ calcTally.failed \in 0..Cardinality(calcDone)
  /\ calcFailures \in 0..Len(CalcProviders)
  /\ calcAnswer \in {"none", "ok", "provider_unavailable"}

PricedFor(p) == {c \in calcAsk.categories : IsPrice(calcOutcomes[<<p, c>>])}
PricesOf(p) == [c \in PricedFor(p) |-> calcOutcomes[<<p, c>>][2]]

(* No silent partial totals (ADR 0022): in an answer, a provider's total   *)
(* stands in the complete field only if every requested category is in it, *)
(* it is the sum of that provider's own prices, a provider with any price  *)
(* is there, each category left out is explained by a warning, and so is   *)
(* each price that was converted at stale rates or not at all.  (The REST  *)
(* loops pass on no warning of a result: there the last part fails.)       *)
HonestTotals ==
  calcAnswer = "ok" =>
    \A i \in DOMAIN CalcProviders :
      LET p == CalcProviders[i]
          mine == {r \in calcResults : r.provider = p}
      IN  /\ Cardinality(mine) = (IF PricedFor(p) = {} THEN 0 ELSE 1)
          /\ \A r \in mine :
               /\ r.categories = PricedFor(p)
               /\ r.field = "total" <=> PricedFor(p) = calcAsk.categories
               /\ r.sum = Total(PricesOf(p))
          /\ \A c \in calcAsk.categories \ PricedFor(p) :
               <<p, Explained[calcOutcomes[<<p, c>>][1]]>> \in calcWarnings
          /\ calcAsk.loop # "rest" =>
               \A c \in PricedFor(p) : \A w \in ResultWarnings[calcOutcomes[<<p, c>>][1]] :
                 <<p, w>> \in calcWarnings

(* Nobody who declares the categories could be read: the caller is told.   *)
(* In no configuration: only the failure of all providers is told, and TLC *)
(* finds it violated.                                                      *)
OutageReported ==
  (calcAnswer = "ok" /\ \A pair \in DOMAIN calcOutcomes :
                          calcOutcomes[pair][1] \in {"failed", "unsupported"})
    => \A pair \in DOMAIN calcOutcomes : calcOutcomes[pair][1] = "unsupported"
=============================================================================
