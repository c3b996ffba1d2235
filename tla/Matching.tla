------------------------------- MODULE Matching -------------------------------
(***************************************************************************)
(* internal/service: matching.go, match.go, database_match.go,             *)
(* database_nosql_match.go, serverless_match.go, kubernetes_match.go and   *)
(* MatchAndCalculate in pricing_calc.go.  From the rows one read of prices *)
(* returned, the handler of a category joins the rows that belong          *)
(* together, scores each candidate by its distance from the request, takes *)
(* the nearest one and prices it.                                          *)
(*                                                                         *)
(* Distances are hundredths.  Prices and costs are whole numbers, costs    *)
(* monthly (the code's hourly cost is that over HoursInMonth); the scale   *)
(* of a category's unit of account is fixed by the constants of its        *)
(* formula.  Attributes are compared without case and "" stands for an     *)
(* attribute the row or the request leaves out, 0 for an absent number.    *)
(***************************************************************************)
EXTENDS Rules

CONSTANTS
  MatchTargets,  \* per category, the requests
  MatchLists,    \* per provider and category, the lists of rows a read may return
  MatchForeign   \* the providers and categories whose rows are not priced in USD

MatchCategories == {"compute", "storage", "network", "database_rdbms", "database_nosql",
                    "kubernetes", "serverless"}

(* What a request may ask for; its numbers are whole, of the smallest step. *)
TargetFields ==
  [compute |-> [vcpu : Nat, ram : Nat, family : STRING, strict : BOOLEAN],
   storage |-> [size : Nat, class : STRING],
   network |-> [size : Nat, class : STRING],
   kubernetes |-> [class : STRING, topology : STRING],
   database_rdbms |-> [engine : STRING, vcpu : Nat, ram : Nat, storage : Nat, iops : Nat, ha : BOOLEAN,
                       family : STRING],
   database_nosql |-> [reads : Nat, writes : Nat, storage : Nat, class : STRING, model : STRING, mode : STRING],
   serverless |-> [arch : STRING, tier : STRING, requests : Nat, memory : Nat, duration : Nat]]

ASSUME MatchAssumption ==
  /\ DOMAIN MatchTargets = MatchCategories
  /\ \A c \in MatchCategories : MatchTargets[c] \subseteq TargetFields[c]
  /\ DOMAIN MatchLists \subseteq {"aws", "azure", "gcp"} \X MatchCategories
  /\ MatchForeign \subseteq DOMAIN MatchLists
  /\ \A of \in DOMAIN MatchLists : \A list \in MatchLists[of] :
       list \in Seq({list[i] : i \in DOMAIN list})

Sized == {"compute", "database_rdbms"}  \* the categories whose offers have sizes

(* Sizes and prices of rows are whole numbers of the smallest step, and a  *)
(* request fee is for one request, ten or a million (serverlessunitmap).   *)
ASSUME RowAssumption ==
  \A of \in DOMAIN MatchLists : \A list \in MatchLists[of] : \A i \in DOMAIN list :
    LET r == list[i] IN
    /\ r.price \in Nat
    /\ of[2] \in Sized => {r.vcpu, r.ram} \subseteq Nat
    /\ of[2] = "database_rdbms" => r.iops \in Nat
    /\ of[2] = "serverless" /\ r.part = "request_fee" => r.unit \in {"request", "ten", "million"}

VARIABLES
  matchAsk,    \* what was asked last: the provider, the category, the target and the rows read
  matchAnswer  \* what MatchAndCalculate returned for it

matchVars == <<matchAsk, matchAnswer>>

Span(a, b) == IF a > b THEN a - b ELSE b - a

(* Rounded up: as in the code, only the size asked for is at distance 0.   *)
Off(candidate, target) ==
  IF target = 0 THEN 0 ELSE (100 * Span(candidate, target) + target - 1) \div target
Rows(list) == {list[i] : i \in DOMAIN list}

(* The last row of a list that satisfies a test, as a set of at most one.  *)
LastSuch(list, Test(_)) ==
  LET found == {i \in DOMAIN list : Test(list[i])}
  IN  IF found = {} THEN {} ELSE {list[Max(found)]}

PriceIn(rows) == IF rows = {} THEN 0 ELSE (CHOOSE r \in rows : TRUE).price

(* A candidate: what is offered, at which distance, with which of the      *)
(* requested attributes unknown, and its price.                            *)
Candidate(sku, row, distance, missing, price) ==
  [sku |-> sku, row |-> row, distance |-> distance, missing |-> missing, price |-> price]

-----------------------------------------------------------------------------
(* Compute, storage, network and Kubernetes: every row is a candidate.     *)

ComputeCandidates(list, t) ==
  {Candidate(r.sku, r, Off(r.vcpu, t.vcpu) + Off(r.ram, t.ram), {}, r.price)
     : r \in {r \in Rows(list) :
                /\ t.strict /\ t.family # "" => r.family = t.family
                /\ t.vcpu > 0 => r.vcpu > 0
                /\ t.ram > 0 => r.ram > 0}}

StorageOrdinal == [standard |-> 0, infrequent_access |-> 1, archive |-> 2]
TransferOrdinal == [intra_region |-> 0, inter_region |-> 1, internet_egress |-> 2]

(* A mutant: a class that is not on the scale is taken for the one asked for. *)
ByOrdinalSilently(r, ordinal, wanted, attribute) ==
  Candidate(r.sku, r,
            IF {wanted, r.class} \subseteq DOMAIN ordinal
              THEN 50 * Span(ordinal[r.class], ordinal[wanted]) ELSE 0,
            {}, r.price)

(* The two scales have three steps: a step is half the whole distance.     *)
ByOrdinal(r, ordinal, wanted, attribute) ==
  Candidate(r.sku, r,
            IF {wanted, r.class} \subseteq DOMAIN ordinal
              THEN 50 * Span(ordinal[r.class], ordinal[wanted]) ELSE 0,
            IF wanted # "" /\ r.class \notin DOMAIN ordinal THEN {attribute} ELSE {},
            r.price)

StorageCandidates(list, t) ==
  {ByOrdinal(r, StorageOrdinal, t.class, "storage_class") : r \in {r \in Rows(list) : r.sized}}

Isolated == {"direct_connect_egress", "vpn_egress"}

NetworkCandidates(list, t) ==
  {IF r.class \in Isolated THEN Candidate(r.sku, r, 0, {}, r.price)
                           ELSE ByOrdinal(r, TransferOrdinal, t.class, "transfer_type")
     : r \in {r \in Rows(list) : /\ r.sized
                                 /\ {r.class, t.class} \cap Isolated # {} => r.class = t.class}}

StandardUnlessSaid(tier) == IF tier = "" THEN "standard" ELSE tier

KubernetesCandidates(list, t) ==
  {Candidate(r.sku, r, IF StandardUnlessSaid(r.class) = StandardUnlessSaid(t.class) THEN 0 ELSE 20,
             {}, r.price) : r \in Rows(list)}

-----------------------------------------------------------------------------
(* Relational databases: an instance is joined with one storage row and    *)
(* one IOPS row of its provider and region, where there are any.           *)

RowScore(r, instance, t, usual) ==
  (IF r.ha = instance.ha THEN 10 ELSE 0)
    + (IF t.family # "" /\ r.family = t.family THEN 20
       ELSE IF r.family \in usual THEN 5
       ELSE 0)

(* findMatchingStorage and findMatchingIOPS: the first of the best.        *)
JoinedRow(list, part, instance, t, usual) ==
  LET fits == {i \in DOMAIN list : /\ list[i].part = part
                                   /\ list[i].region = instance.region
                                   /\ list[i].engine \in {"", "any", instance.engine}}
      best == {i \in fits : \A j \in fits :
                 RowScore(list[j], instance, t, usual) <= RowScore(list[i], instance, t, usual)}
  IN  IF fits = {} THEN {} ELSE {list[Min(best)]}

JoinedStorage(list, instance, t) == JoinedRow(list, "storage", instance, t, {"gp3", "ssd"})
JoinedIops(list, instance, t) == JoinedRow(list, "iops", instance, t, {"gp3", "io1"})

FirstPositive(numbers) ==
  LET positive == {i \in DOMAIN numbers : numbers[i] > 0}
  IN  IF positive = {} THEN 0 ELSE numbers[Min(positive)]

IopsOf(instance, storage) ==
  FirstPositive(<<instance.iops>> \o (IF storage = {} THEN << >> ELSE <<(CHOOSE s \in storage : TRUE).iops>>))

HoursInMonth == 730

RdbmsPrice(list, instance, t) ==
  LET storage == JoinedStorage(list, instance, t)
      iops == JoinedIops(list, instance, t)
      count == FirstPositive(<<t.iops, IopsOf(instance, storage)>>)
      hours == IF \E r \in iops : r.hourly THEN HoursInMonth ELSE 1
  IN  HoursInMonth * instance.price + Max({t.storage, 1}) * PriceIn(storage)
        + count * PriceIn(iops) * hours

RdbmsInstances(list) == {r \in Rows(list) : r.part = "instance"}
OfOtherEngine(r, t) == "" \notin {t.engine, r.engine} /\ r.engine # t.engine

(* DatabaseRDBMSScorer.Score of the joined row.  The storage term is zero: *)
(* the join gives the candidate the size that was asked for.  IOPS weigh   *)
(* half, rounded up: the least difference is a distance.                   *)
RdbmsCandidate(list, r, t) ==
  LET iops == IopsOf(r, JoinedStorage(list, r, t))
  IN  Candidate(r.sku, r,
                Off(r.vcpu, t.vcpu) + Off(r.ram, t.ram)
                  + (IF t.iops > 0 /\ iops > 0 THEN (Off(iops, t.iops) + 1) \div 2 ELSE 0)
                  + (IF r.ha = t.ha THEN 0 ELSE 50),
                IF t.iops > 0 /\ iops = 0 THEN {"iops"} ELSE {},
                RdbmsPrice(list, r, t))

RdbmsCandidates(list, t) ==
  {RdbmsCandidate(list, r, t)
     : r \in {r \in RdbmsInstances(list) : /\ ~OfOtherEngine(r, t)
                                           /\ t.vcpu > 0 => r.vcpu > 0
                                           /\ t.ram > 0 => r.ram > 0}}

-----------------------------------------------------------------------------
(* NoSQL: the last row of each part makes one or two composite offers.     *)
(* Reads and writes are tenths of a unit per second, costs monthly with    *)
(* the same factor for an hour of throughput and a GB of storage.          *)

OnDemand(mode) == mode \in {"serverless", "on_demand", "ondemand", "pay_per_request"}

(* MatchNoSQLObservations: a request without capacity is the baseline's.   *)
WithBaseline(t) ==
  IF t.reads = 0 /\ t.writes = 0 /\ t.storage = 0
    THEN [t EXCEPT !.reads = 1000, !.writes = 200, !.storage = 10] ELSE t

GBMonth == 10000  \* a GB of storage, over a month

(* NoSQLScorer.Score: a composite has the capacity that was asked for, the *)
(* regions too, and the document model.                                    *)
NoSQLOffer(sku, onDemand, t, throughput, storage) ==
  Candidate(sku, [onDemand |-> onDemand],
            (IF t.model \in {"", "document", "key_value", "multi_model"} THEN 0 ELSE 40)
              + (IF t.mode = "" \/ OnDemand(t.mode) = onDemand THEN 0 ELSE 30),
            {}, throughput + GBMonth * t.storage * PriceIn(storage))

StorageRow(list, t, special) ==
  LET usual == LastSuch(list, LAMBDA r : r.part = "storage" /\ r.class # special)
      asked == LastSuch(list, LAMBDA r : r.part = "storage" /\ r.class = special)
  IN  IF t.class = special /\ asked # {} THEN asked ELSE usual

When(condition, offer) == IF condition THEN {offer} ELSE {}

NoSQLHour == 1000 * HoursInMonth  \* an hour of a tenth of a unit, over a month
PerMillion == 2628                         \* the millions of operations of a tenth, over a month

AwsNoSQL(list, t) ==
  LET Part(part, Test(_)) == LastSuch(list, LAMBDA r : r.part = part /\ Test(r))
      rcu == Part("throughput", LAMBDA r : r.reads)
      wcu == Part("throughput", LAMBDA r : r.writes)
      rru == Part("request_operations", LAMBDA r : r.reads)
      wru == Part("request_operations", LAMBDA r : r.writes)
      storage == StorageRow(list, t, "infrequent_access")
      readUnits == (t.reads + 39) \div 40  \* a unit is four reads
      writes == IF t.writes = 0 THEN 0 ELSE Max({t.writes, 10})
  IN  When(rcu \cup wcu \cup StorageRow(list, [t EXCEPT !.class = ""], "infrequent_access") # {},
           NoSQLOffer(2, FALSE, t, NoSQLHour * (10 * readUnits * PriceIn(rcu) + writes * PriceIn(wcu)), storage))
      \cup When(rru \cup wru # {},
                NoSQLOffer(1, TRUE, t, PerMillion * (t.reads * PriceIn(rru) + t.writes * PriceIn(wru)), storage))

AzureNoSQL(list, t) ==
  LET provisioned == LastSuch(list, LAMBDA r : r.part = "throughput")
      serverless == LastSuch(list, LAMBDA r : r.part = "request_operations")
      storage == StorageRow(list, t, "analytical")
      units == t.reads + 5 * t.writes
      hundreds == IF units \in 1..9 THEN 1000 ELSE units  \* less than one unit is priced as a hundred
  IN  When(provisioned \cup StorageRow(list, [t EXCEPT !.class = ""], "analytical") # {},
           NoSQLOffer(1, FALSE, t, (NoSQLHour \div 100) * hundreds * PriceIn(provisioned), storage))
      \cup When(serverless # {}, NoSQLOffer(2, TRUE, t, PerMillion * units * PriceIn(serverless), storage))

(* Firestore is offered whatever rows there are.                           *)
GcpNoSQL(list, t) ==
  LET Operations(Test(_)) == LastSuch(list, LAMBDA r : r.part = "request_operations" /\ Test(r))
  IN  {NoSQLOffer(1, TRUE, t,
                  10 * PerMillion * (t.reads * PriceIn(Operations(LAMBDA r : r.reads))
                                       + t.writes * PriceIn(Operations(LAMBDA r : r.writes))),
                  LastSuch(list, LAMBDA r : r.part = "storage"))}

NoSQLCandidates(provider, list, t) ==
  CASE provider = "aws" -> AwsNoSQL(list, WithBaseline(t))
    [] provider = "azure" -> AzureNoSQL(list, WithBaseline(t))
    [] provider = "gcp" -> GcpNoSQL(list, WithBaseline(t))

-----------------------------------------------------------------------------
(* Serverless: requests in millions, memory in 128 MB, duration in 200 ms; *)
(* work is in 5000 GB-seconds.                                             *)

OrDefault(number, default) == IF number = 0 THEN default ELSE number
ConsumptionUnlessSaid(tier) == IF tier = "" THEN "consumption" ELSE tier

WithWorkload(t) ==
  [t EXCEPT !.tier = ConsumptionUnlessSaid(t.tier), !.requests = OrDefault(t.requests, 1),
            !.memory = OrDefault(t.memory, 4), !.duration = OrDefault(t.duration, 1)]

MemoryWork(t) == 5 * t.requests * t.memory * t.duration

(* A mutant: two clocks of the table are swapped.                          *)
GhzTenthsSwapped(memory) ==
  Decide(<< <<memory <= 1, 2>>, <<memory <= 2, 4>>, <<memory <= 4, 8>>,
            <<memory <= 8, 24>>, <<memory <= 16, 14>>, <<TRUE, 48>> >>)

(* gcp1stGenGHz, in tenths of a GHz.                                       *)
GhzTenths(memory) ==
  Decide(<< <<memory <= 1, 2>>, <<memory <= 2, 4>>, <<memory <= 4, 8>>,
            <<memory <= 8, 14>>, <<memory <= 16, 24>>, <<TRUE, 48>> >>)

Net(used, free) == Max({0, used - free})

(* The units a million requests are charged as.  GCP's branch has no case  *)
(* for a fee per ten requests and charges it for each.                     *)
PerRequestUnit == [request |-> 1000000, ten |-> 100000, million |-> 1]
UnitsCharged(provider, unit) == PerRequestUnit[IF provider = "gcp" /\ unit = "ten" THEN "request" ELSE unit]

(* CalculateCost of the rates in these rows, with the free tier netted.    *)
ServerlessCost(provider, tier, list, t) ==
  LET Part(part) == LastSuch(list, LAMBDA r : r.part = part)
      secondGen == tier = "2nd_gen"
      noFree == provider = "azure" /\ tier = "flex_consumption"
      request == Part("request_fee")
      requests == Net(t.requests, CASE noFree -> 0 [] provider = "gcp" -> 2 [] OTHER -> 1)
      memory == Net(MemoryWork(t), CASE noFree -> 0 [] provider = "gcp" /\ secondGen -> 72 [] OTHER -> 80)
      cpu == IF secondGen THEN Net((5120 * t.requests * t.memory * t.duration) \div 1769, 36)
                          ELSE Net(4 * t.requests * t.duration * GhzTenths(t.memory), 40)
      apart == provider = "gcp" /\ (PriceIn(Part("duration_fee_cpu")) > 0 \/ PriceIn(Part("duration_fee_memory")) > 0)
  IN  (IF request = {} THEN 0
       ELSE requests * PriceIn(request) * UnitsCharged(provider, (CHOOSE r \in request : TRUE).unit))
        + 5000 * (IF apart THEN memory * PriceIn(Part("duration_fee_memory")) + cpu * PriceIn(Part("duration_fee_cpu"))
                           ELSE memory * PriceIn(Part("duration_fee")))

ServerlessOffer(sku, provider, tier, list, t) ==
  Candidate(sku, [tier |-> tier], IF tier = t.tier THEN 0 ELSE 20, {}, ServerlessCost(provider, tier, list, t))

Fees(provider) ==
  {"request_fee", "duration_fee"} \cup (IF provider = "gcp" THEN {"duration_fee_cpu", "duration_fee_memory"} ELSE {})
HasFees(provider, list) == \E r \in Rows(list) : r.part \in Fees(provider)

AzureTiers == [consumption |-> 1, flex_consumption |-> 2]  \* the tiers, in the order of their SKUs

ServerlessCandidates(provider, list, t) ==
  LET OfTier(tier) == Restrict(list, {i \in DOMAIN list : ConsumptionUnlessSaid(list[i].tier) = tier})
  IN  CASE provider = "aws" ->
             When(HasFees("aws", list), ServerlessOffer(1, "aws", "consumption", list, t))
        [] provider = "azure" ->
             {ServerlessOffer(AzureTiers[tier], "azure", tier, OfTier(tier), t)
                : tier \in {tier \in DOMAIN AzureTiers : HasFees("azure", OfTier(tier))}}
        [] provider = "gcp" ->
             When(HasFees("gcp", list), ServerlessOffer(1, "gcp", t.tier, list, t))

-----------------------------------------------------------------------------
(* The handler of a category, the cost of what it matched, and the answer. *)

OfArchitecture(list, t) ==
  Restrict(list, {i \in DOMAIN list : list[i].arch = IF t.arch = "" THEN "x86_64" ELSE t.arch})

Candidates(ask) ==
  LET t == ask.target IN
  CASE ask.category = "compute" -> ComputeCandidates(ask.list, t)
    [] ask.category = "storage" -> StorageCandidates(ask.list, t)
    [] ask.category = "network" -> NetworkCandidates(ask.list, t)
    [] ask.category = "kubernetes" -> KubernetesCandidates(ask.list, t)
    [] ask.category = "database_rdbms" -> RdbmsCandidates(ask.list, t)
    [] ask.category = "database_nosql" -> NoSQLCandidates(ask.provider, ask.list, t)
    [] ask.category = "serverless" ->
         ServerlessCandidates(ask.provider, OfArchitecture(ask.list, t), WithWorkload(t))

CloseCutoff(category) == CASE category = "storage" -> 15 [] category \in {"compute", "network"} -> 10 [] OTHER -> 20
ApproximateCutoff(category) == IF category = "storage" THEN 60 ELSE 50

Quality(category, distance) ==
  Decide(<< <<distance = 0, "exact">>, <<distance <= CloseCutoff(category), "close">>,
            <<distance <= ApproximateCutoff(category), "approximate">>, <<TRUE, "none">> >>)

(* The nearest candidates: the sort is by distance, then by SKU.           *)
Nearest(candidates) ==
  {c \in candidates : \A d \in candidates :
     c.distance < d.distance \/ (c.distance = d.distance /\ c.sku <= d.sku)}

NoMatch(ask) ==
  LET t == ask.target IN
  CASE ask.category = "serverless" /\ t.arch = "arm64"
         /\ (ask.provider \in {"azure", "gcp"} \/ Rows(OfArchitecture(ask.list, t)) = {}) -> "architecture_unsupported"
    [] ask.category = "database_rdbms" /\ RdbmsInstances(ask.list) # {}
         /\ \A r \in RdbmsInstances(ask.list) : OfOtherEngine(r, t) -> "engine_mismatch"
    [] OTHER -> "no_match"

GkeCredit == 7440  \* a month's credit; prices of clusters are in hundredths

Cost(ask, price) ==
  CASE ask.category \in {"storage", "network"} -> OrDefault(ask.target.size, 1) * price
    [] ask.category = "compute" -> HoursInMonth * price
    [] ask.category = "kubernetes" ->
         IF ask.provider = "gcp" /\ ask.target.topology \in {"zonal", "autopilot"}
           THEN Max({0, HoursInMonth * price - GkeCredit}) ELSE HoursInMonth * price
    [] OTHER -> price

(* What converting the offer's currency does: "usd" needs no conversion.   *)
MatchConversions(ask) ==
  IF <<ask.provider, ask.category>> \in MatchForeign THEN {"fresh", "fallback", "failed", "no_service"} ELSE {"usd"}
MatchRate == 2

MatchWarnings(ask, fx) ==
  {w \in {"stale_fx_rate", "fx_conversion_failed", "non_usd_currency_unsupported", "cluster_topology_unspecified"} :
     \/ w = "stale_fx_rate" /\ fx = "fallback"
     \/ w = "fx_conversion_failed" /\ fx = "failed"
     \/ w = "non_usd_currency_unsupported" /\ fx = "no_service"
     \/ /\ w = "cluster_topology_unspecified"
        /\ ask.category = "kubernetes" /\ ask.provider = "gcp" /\ ask.target.topology = ""}

Priced(ask, best, fx) ==
  [outcome |-> "priced", quality |-> Quality(ask.category, best.distance), best |-> best, fx |-> fx,
   cost |-> Cost(ask, IF fx \in {"fresh", "fallback"} THEN MatchRate * best.price ELSE best.price),
   warnings |-> MatchWarnings(ask, fx)]

(* MatchAndCalculate.                                                      *)
Answers(ask) ==
  LET near == Nearest(Candidates(ask)) IN
  IF ask.list = << >> THEN {[outcome |-> "no_data"]}
  ELSE IF NoMatch(ask) # "no_match" THEN {[outcome |-> NoMatch(ask)]}
  ELSE IF \A c \in near : Quality(ask.category, c.distance) = "none" THEN {[outcome |-> "no_match"]}
  ELSE {Priced(ask, c, fx) : c \in near, fx \in MatchConversions(ask)}

NothingAsked == [provider |-> "", category |-> ""]

MatchInit == matchAsk = NothingAsked /\ matchAnswer = [outcome |-> "none"]

MatchAndCalculate(ask) == matchAsk' = ask /\ matchAnswer' \in Answers(ask)

(* A first request for a provider's prices in a category.                  *)
Ask ==
  /\ matchAsk = NothingAsked
  /\ \E of \in DOMAIN MatchLists : \E list \in MatchLists[of], t \in MatchTargets[of[2]] :
       MatchAndCalculate([provider |-> of[1], category |-> of[2], list |-> list, target |-> t])

Volumes == {"size", "storage", "iops", "reads", "writes", "requests", "memory", "duration"}

(* Another request that finds the same rows in the cache and differs in    *)
(* what it asks for is bound to the same answer as a first one; the one    *)
(* that asks for more of what is paid by volume is compared with it.       *)
AskForMore ==
  /\ matchAsk # NothingAsked
  /\ \E t \in MatchTargets[matchAsk.category] \ {matchAsk.target} :
       /\ \A f \in DOMAIN t : IF f \in Volumes THEN matchAsk.target[f] <= t[f]
                                               ELSE matchAsk.target[f] = t[f]
       /\ MatchAndCalculate([matchAsk EXCEPT !.target = t])

MatchNext == Ask \/ AskForMore

MatchSpec == MatchInit /\ [][MatchNext]_matchVars

-----------------------------------------------------------------------------
MatchTypeOK ==
  \/ matchAsk = NothingAsked /\ matchAnswer = [outcome |-> "none"]
  \/ /\ <<matchAsk.provider, matchAsk.category>> \in DOMAIN MatchLists
     /\ matchAnswer.outcome \in {"priced", "no_data", "no_match", "engine_mismatch", "architecture_unsupported"}
     /\ matchAnswer.outcome = "priced" => /\ matchAnswer.cost \in Nat
                                          /\ matchAnswer.quality \in {"exact", "close", "approximate"}

(* What the request names is what the offer has, in each dimension that    *)
(* adds to the distance: of a database with the IOPS of the instance or of *)
(* the storage joined with it; key_value and document are one model to the *)
(* scorer (database_nosql_match.go:100-112).                               *)
Agrees(ask, row) ==
  LET t == ask.target IN
  CASE ask.category = "compute" -> /\ t.vcpu \in {0, row.vcpu} /\ t.ram \in {0, row.ram}
                                   /\ t.strict => t.family \in {"", row.family}
    [] ask.category = "storage" -> t.class \in {"", row.class} \/ t.class \notin DOMAIN StorageOrdinal
    [] ask.category = "network" -> t.class \in {"", row.class} \/ t.class \notin DOMAIN TransferOrdinal \cup Isolated
    [] ask.category = "kubernetes" -> StandardUnlessSaid(t.class) = StandardUnlessSaid(row.class)
    [] ask.category = "database_rdbms" ->
         /\ t.vcpu \in {0, row.vcpu} /\ t.ram \in {0, row.ram} /\ t.ha = row.ha /\ ~OfOtherEngine(row, t)
         /\ t.iops \in {0, IopsOf(row, JoinedStorage(ask.list, row, t))}
    [] ask.category = "database_nosql" ->
         /\ t.mode # "" => OnDemand(t.mode) = row.onDemand
         /\ t.model \in {"", "document", "key_value", "multi_model"}
    [] ask.category = "serverless" -> ask.provider # "gcp" => ConsumptionUnlessSaid(t.tier) = row.tier

(* A match called exact, with no attribute reported missing, agrees with   *)
(* the request: size, IOPS, availability, engine, class, model, billing    *)
(* mode and the tier of AWS and Azure (match.go:92-121, 143-181,           *)
(* database_match.go:34-85, database_nosql_match.go:36-112).  What no      *)
(* score looks at is outside, and is quoted "exact" whatever it is: a      *)
(* class that is on no scale, a family that is not strict, the storage     *)
(* class of a NoSQL request (priced with the usual row when there is none  *)
(* of that class), and GCP's serverless tier, which the offer copies from  *)
(* the request whatever tier its rates are of (ServerlessTierPriced).      *)
ExactMeansAsked ==
  matchAnswer.outcome = "priced" /\ matchAnswer.quality = "exact" /\ matchAnswer.best.missing = {}
    => Agrees(matchAsk, matchAnswer.best.row)

(* The same request for more.  A volume that is left out takes a default,  *)
(* so it is not less than one that is named; and less than one request     *)
(* unit per second is priced as a hundred.                                 *)
Grows(t, u) ==
  /\ \A f \in DOMAIN t \cap Volumes : t[f] = 0 <=> u[f] = 0
  /\ "reads" \in DOMAIN t => t.reads + 5 * t.writes \notin 1..9

IsGrown ==
  /\ matchAnswer.outcome = "priced" /\ matchAnswer'.outcome = "priced"
  /\ Grows(matchAsk.target, matchAsk'.target)
  /\ matchAnswer'.best.row = matchAnswer.best.row /\ matchAnswer'.fx = matchAnswer.fx

(* More of the same offer never costs less: not across a free tier, a step *)
(* of the clock table, a rounded capacity unit or a joined row             *)
(* (serverless_match.go:296-456, database_nosql_match.go:214-543).         *)
GrowthNeverCheaper == [][IsGrown => matchAnswer'.cost >= matchAnswer.cost]_matchVars

(* The tier of a serverless quote is the tier of the rates it was computed *)
(* from.  In no configuration: GCP's rows are not filtered by tier, and    *)
(* TLC finds it violated.                                                  *)
ServerlessTierPriced ==
  matchAnswer.outcome = "priced" /\ matchAsk.category = "serverless"
    => \A r \in Rows(matchAsk.list) : ConsumptionUnlessSaid(r.tier) = matchAnswer.best.row.tier

=============================================================================
