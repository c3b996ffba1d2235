----------------------------- MODULE ServingProofs ----------------------------
(***************************************************************************)
(* What an answer is made of, for every number of callers and providers:   *)
(* the queries that callers share and the lists they leave in the cache,   *)
(* the exchange rates of a conversion, the totals of a calculation, the    *)
(* offer that a request is matched with, and what the two transports make  *)
(* of one request.                                                         *)
(***************************************************************************)
EXTENDS ReadPath, FxRates, Matching, Calculation, Requests, FiniteSetTheorems,
        WellFoundedInduction, TLAPS

-----------------------------------------------------------------------------
(* The read path.                                                           *)

\* What an execution has cached it has committed; a flight began after it.
HistoryOrder ==
  /\ published <= prices /\ flight.floor <= published
  /\ unwarmed => prices > 0

\* A flight that is about to warm the cache holds a list, whose first row is
\* not older than what was cached when it began.
WarmingIsNews ==
  flight.phase = "warm" => flight.list # <<>> /\ flight.list[1] >= flight.floor

ReadInv ==
  /\ ReadTypeOK
  /\ HistoryOrder
  /\ WarmingIsNews
  /\ ListNotOlderThanItsQuery
  /\ flight.error # "cancelled"
  /\ OnlyTheCancelledGiveUp

ReaderStates == {"idle", "cache", "join", "waiting", "done"}
Responses == [list : Seq(1..MaxPrices), error : AllErrors]
Flights == [phase : {"none", "query", "warm", "deliver"},
            list : Seq(1..MaxPrices), floor : 0..MaxPrices,
            error : AllErrors, starter : Readers \cup {NoReader},
            waiting : SUBSET Readers]

\* The rows of a query, the newest first.
LEMMA RowsNewestFirst ==
  ASSUME NEW n \in 0..MaxPrices
  PROVE  /\ [i \in 1..n |-> n + 1 - i] \in Seq(1..MaxPrices)
         /\ n > 0 => /\ [i \in 1..n |-> n + 1 - i] # <<>>
                     /\ [i \in 1..n |-> n + 1 - i][1] = n
<1> DEFINE s == [i \in 1..n |-> n + 1 - i]
<1>1. n \in Nat /\ n <= MaxPrices /\ MaxPrices \in Nat
  BY ReadAssumption
<1>2. s \in [1..n -> 1..MaxPrices]
  BY <1>1
<1>3. s \in Seq(1..MaxPrices)
  BY <1>1, <1>2 DEF Seq
<1>4. n > 0 => 1 \in 1..n /\ s[1] = n
  BY <1>1
<1>5. n > 0 => s # <<>>
  <2>1. DOMAIN s = 1..n
    OBVIOUS
  <2>2. DOMAIN <<>> = {}
    OBVIOUS
  <2> HIDE DEF s
  <2> QED
    BY <1>1, <2>1, <2>2
<1> QED
  BY <1>3, <1>4, <1>5

LEMMA NoFlightTyped ==
  /\ NoFlight \in Flights
  /\ NoFlight.floor = 0 /\ NoFlight.error = "" /\ NoFlight.phase = "none"
<1>1. <<>> \in Seq(1..MaxPrices) /\ 0 \in 0..MaxPrices /\ "" \in AllErrors
  BY ReadAssumption DEF AllErrors
<1> QED
  BY <1>1 DEF NoFlight, Flights

LEMMA ReadInitial ==
  ASSUME ReadInit
  PROVE  ReadInv
<1>1. <<>> \in Seq(1..MaxPrices) /\ 0 \in 0..MaxPrices
  BY ReadAssumption
<1>2. cached \in Entry /\ flight \in Flights
  BY <1>1 DEF ReadInit, Uncached, Entry, NoFlight, Flights, AllErrors
<1>3. reader \in [Readers -> ReaderStates] /\ response \in [Readers -> Responses]
  BY <1>1 DEF ReadInit, ReaderStates, Responses, NoResponse, AllErrors
<1>4. ReadTypeOK
  BY <1>1, <1>2, <1>3 DEF ReadInit, ReadTypeOK, ReaderStates, Responses, Flights
<1>5. flight.floor = 0 /\ flight.phase = "none" /\ flight.error = "" /\ cached = Uncached
      /\ \A c \in Readers : response[c].error = ""
  BY DEF ReadInit, NoFlight, NoResponse
<1>6. HistoryOrder
  <2>1. ~unwarmed
    BY Zenon DEF ReadInit
  <2>2. published = 0 /\ prices = 0
    BY DEF ReadInit
  <2> QED
    <3>1. flight.floor = 0
      BY <1>5
    <3>2. published <= prices /\ flight.floor <= published
      BY <2>2, <3>1
    <3> QED
      BY <2>1, <3>2, Zenon DEF HistoryOrder
<1>7. WarmingIsNews /\ ListNotOlderThanItsQuery /\ flight.error # "cancelled"
  BY <1>5 DEF WarmingIsNews, ListNotOlderThanItsQuery
<1>8. OnlyTheCancelledGiveUp
  BY <1>5 DEF OnlyTheCancelledGiveUp
<1> QED
  BY <1>4, <1>6, <1>7, <1>8 DEF ReadInv

\* The ingestion and Redis.
Outside == CommitPrice \/ CachePrice \/ CachePriceFails \/ CacheExpires

\* A request's own step.
RequestStep(c) ==
  Arrive(c) \/ CacheHit(c) \/ CacheMiss(c) \/ Join(c) \/ Cancel(c) \/ GiveUpWaiting(c)

LEMMA OutsideStep ==
  ASSUME ReadInv, Outside
  PROVE  ReadInv'
<1>0. ReadTypeOK /\ MaxPrices \in Nat
  BY ReadAssumption DEF ReadInv
<1>1. /\ flight' = flight /\ reader' = reader /\ response' = response /\ cancelled' = cancelled
  BY DEF Outside, CommitPrice, CachePrice, CachePriceFails, CacheExpires, requests
<1>2. /\ prices' \in 0..MaxPrices /\ unwarmed' \in BOOLEAN
      /\ published' \in 0..MaxPrices /\ published <= published' /\ published' <= prices'
      /\ unwarmed' => prices' > 0
  <2>1. /\ prices \in 0..MaxPrices /\ unwarmed \in BOOLEAN
        /\ published \in 0..MaxPrices /\ published <= prices
        /\ unwarmed => prices > 0
    BY DEF ReadTypeOK, ReadInv, HistoryOrder
  <2>2. CASE CommitPrice
    BY <1>0, <2>1, <2>2 DEF CommitPrice
  <2>3. CASE CachePrice \/ CachePriceFails
    <3>1. prices' = prices /\ unwarmed' = FALSE /\ published' \in {published, prices}
      BY <2>3 DEF CachePrice, CachePriceFails
    <3>2. ~unwarmed' /\ unwarmed' \in BOOLEAN
      BY <3>1, Zenon
    <3>3. prices' = prices /\ published' \in {published, prices}
      BY <3>1
    <3> QED
      BY <1>0, <2>1, <3>2, <3>3
  <2>4. CASE CacheExpires
    BY <1>0, <2>1, <2>4 DEF CacheExpires, history
  <2> QED
    BY <2>2, <2>3, <2>4 DEF Outside
<1>3. cached' \in Entry /\ ListNotOlderThanItsQuery'
  <2>1. CASE CachePrice
    <3>1. cached' = [list |-> <<prices>>, floor |-> prices]
      BY <2>1 DEF CachePrice
    <3>2. CASE prices \in 1..MaxPrices
      <4>1. <<prices>> \in Seq(1..MaxPrices)
        BY <3>2
      <4> QED
        BY <1>0, <3>1, <4>1 DEF Entry, ListNotOlderThanItsQuery, ReadTypeOK
    <3>3. prices \in 1..MaxPrices
      BY <1>0, <2>1 DEF CachePrice, ReadInv, HistoryOrder, ReadTypeOK
    <3> QED
      BY <3>2, <3>3
  <2>2. CASE CommitPrice \/ CachePriceFails
    BY <2>2 DEF CommitPrice, CachePriceFails, ReadInv, ReadTypeOK, ListNotOlderThanItsQuery
  <2>3. CASE CacheExpires
    <3>1. cached' = Uncached
      BY <2>3 DEF CacheExpires
    <3> QED
      BY <1>0, <3>1 DEF Entry, Uncached, ListNotOlderThanItsQuery
  <2> QED
    BY <2>1, <2>2, <2>3 DEF Outside
<1> QED
  BY <1>0, <1>1, <1>2, <1>3 DEF ReadInv, ReadTypeOK, HistoryOrder, WarmingIsNews, OnlyTheCancelledGiveUp

LEMMA RequestTyped ==
  ASSUME ReadTypeOK, NEW c \in Readers, RequestStep(c)
  PROVE  /\ reader' \in [Readers -> ReaderStates]
         /\ response' \in [Readers -> Responses]
         /\ cancelled' \subseteq Readers
         /\ flight' \in Flights
<1>1. PICK s \in ReaderStates : reader' = [reader EXCEPT ![c] = s] \/ reader' = reader
  BY DEF RequestStep, Arrive, CacheHit, CacheMiss, Join, Cancel, GiveUpWaiting, ReadStep, ReaderStates
<1>2. response' \in [Readers -> Responses]
  <2>1. response \in [Readers -> Responses] /\ cached.list \in Seq(1..MaxPrices)
    BY DEF ReadTypeOK, Responses, Entry
  <2>2. [list |-> cached.list, error |-> ""] \in Responses
        /\ [list |-> <<>>, error |-> "cancelled"] \in Responses
    <3>1. <<>> \in Seq(1..MaxPrices) /\ "" \in AllErrors /\ "cancelled" \in AllErrors
      BY DEF AllErrors
    <3> QED
      BY <2>1, <3>1 DEF Responses
  <2> QED
    BY <2>1, <2>2 DEF RequestStep, Arrive, CacheHit, CacheMiss, Join, Cancel, GiveUpWaiting, Respond
<1>3. flight' \in Flights
  <2>1. flight \in Flights /\ published \in 0..MaxPrices
    BY DEF ReadTypeOK, Flights
  <2>2. CASE Join(c)
    <3>1. NoFlight \in Flights
      BY NoFlightTyped
    <3>2. [NoFlight EXCEPT !.phase = "query", !.starter = c, !.waiting = {c}, !.floor = published]
            \in Flights
      BY <2>1, <3>1 DEF Flights
    <3>3. [flight EXCEPT !.waiting = flight.waiting \cup {c}] \in Flights
      BY <2>1 DEF Flights
    <3> QED
      BY <2>2, <3>2, <3>3 DEF Join
  <2> QED
    BY <2>1, <2>2 DEF RequestStep, Arrive, CacheHit, CacheMiss, Cancel, GiveUpWaiting
<1>4. cancelled' \subseteq Readers
  BY DEF RequestStep, Arrive, CacheHit, CacheMiss, Join, Cancel, GiveUpWaiting, ReadTypeOK
<1> QED
  BY <1>1, <1>2, <1>3, <1>4 DEF ReadTypeOK, ReaderStates

LEMMA RequestStepKeeps ==
  ASSUME ReadInv, NEW c \in Readers, RequestStep(c)
  PROVE  ReadInv'
<1>0. ReadTypeOK
  BY DEF ReadInv
<1>1. prices' = prices /\ unwarmed' = unwarmed /\ published' = published /\ cached' = cached
  BY DEF RequestStep, Arrive, CacheHit, CacheMiss, Join, Cancel, GiveUpWaiting, history
<1>2. ReadTypeOK'
  BY <1>0, <1>1, RequestTyped DEF ReadTypeOK, ReaderStates, Responses, Flights
<1>3. /\ flight'.floor <= published /\ flight'.error # "cancelled"
      /\ flight'.phase = "warm" => /\ flight.phase = "warm" /\ flight'.list = flight.list
                                   /\ flight'.floor = flight.floor
  <2>1. CASE Join(c)
    <3>1. flight'.floor \in {published, flight.floor} /\ flight'.error \in {"", flight.error}
      BY <1>0, <2>1 DEF Join, NoFlight, ReadTypeOK
    <3>2. flight'.phase = "warm" => /\ flight.phase = "warm" /\ flight'.list = flight.list
                                    /\ flight'.floor = flight.floor
      BY <1>0, <2>1 DEF Join, NoFlight, ReadTypeOK
    <3>3. published <= published /\ flight.floor <= published /\ flight.error # "cancelled"
      BY <1>0 DEF ReadInv, HistoryOrder, ReadTypeOK
    <3> QED
      BY <3>1, <3>2, <3>3
  <2>2. CASE ~Join(c)
    BY <2>2 DEF RequestStep, Arrive, CacheHit, CacheMiss, Cancel, GiveUpWaiting, ReadInv, HistoryOrder
  <2> QED
    BY <2>1, <2>2
<1>4. OnlyTheCancelledGiveUp'
  <2>1. cancelled \subseteq cancelled'
        /\ \A d \in Readers : response'[d].error = "cancelled" =>
             response[d].error = "cancelled" \/ d \in cancelled
    <3>1. CASE CacheHit(c)
      BY <1>0, <3>1 DEF CacheHit, Respond, ReadTypeOK
    <3>2. CASE GiveUpWaiting(c)
      BY <1>0, <3>2 DEF GiveUpWaiting, Respond, ReadTypeOK
    <3>3. CASE Arrive(c) \/ CacheMiss(c) \/ Join(c) \/ Cancel(c)
      BY <3>3 DEF Arrive, CacheMiss, Join, Cancel
    <3> QED
      BY <3>1, <3>2, <3>3 DEF RequestStep
  <2> QED
    BY <2>1 DEF ReadInv, OnlyTheCancelledGiveUp
<1> QED
  BY <1>1, <1>2, <1>3, <1>4 DEF ReadInv, HistoryOrder, WarmingIsNews, ListNotOlderThanItsQuery

LEMMA FlightStep ==
  ASSUME ReadInv, FlightEnds
  PROVE  ReadInv'
<1>0. ReadTypeOK /\ flight \in Flights
  BY DEF ReadInv, ReadTypeOK, Flights
<1>1. prices' = prices /\ unwarmed' = unwarmed /\ published' = published /\ cancelled' = cancelled
  BY DEF FlightEnds, Query, QueryFails, WarmList, WarmListFails, Deliver, history, requests
<1>2. CASE Query
  <2> DEFINE rows == [i \in 1..prices |-> prices + 1 - i]
  <2>1. rows \in Seq(1..MaxPrices) /\ (prices > 0 => rows # <<>> /\ rows[1] = prices)
    BY <1>0, RowsNewestFirst DEF ReadTypeOK
  <2>2. flight' = [flight EXCEPT !.phase = IF prices > 0 THEN "warm" ELSE "deliver", !.list = rows]
    BY <1>2 DEF Query
  <2> HIDE DEF rows
  <2>3. /\ flight' \in Flights /\ flight'.floor = flight.floor /\ flight'.error = flight.error
        /\ flight'.list = rows /\ (flight'.phase = "warm" => prices > 0)
    BY <1>0, <2>1, <2>2 DEF Flights
  <2>4. cached' = cached /\ reader' = reader /\ response' = response
    BY <1>2 DEF Query, requests
  <2>5. flight'.phase = "warm" => flight'.list # <<>> /\ flight'.list[1] >= flight'.floor
    BY <1>0, <2>1, <2>3 DEF ReadInv, HistoryOrder, ReadTypeOK, Flights
  <2> QED
    BY <1>0, <1>1, <2>3, <2>4, <2>5
       DEF ReadInv, ReadTypeOK, Flights, HistoryOrder, WarmingIsNews, ListNotOlderThanItsQuery,
           OnlyTheCancelledGiveUp
<1>3. CASE QueryFails \/ WarmListFails
  <2>1. PICK e \in {"database", "timeout", flight.error} :
          flight' = [flight EXCEPT !.phase = "deliver", !.error = e]
    <3>1. CASE QueryFails
      BY <3>1 DEF QueryFails, QueryErrors
    <3>2. CASE WarmListFails
      BY <1>0, <3>2 DEF WarmListFails, Flights
    <3> QED
      BY <1>3, <3>1, <3>2
  <2>2. /\ flight' \in Flights /\ flight'.floor = flight.floor /\ flight'.error # "cancelled"
        /\ flight'.phase = "deliver"
    BY <1>0, <2>1 DEF Flights, AllErrors, ReadInv
  <2>3. cached' = cached /\ reader' = reader /\ response' = response
    BY <1>3 DEF QueryFails, WarmListFails, requests
  <2> QED
    BY <1>0, <1>1, <2>2, <2>3
       DEF ReadInv, ReadTypeOK, Flights, HistoryOrder, WarmingIsNews, ListNotOlderThanItsQuery,
           OnlyTheCancelledGiveUp
<1>4. CASE WarmList
  <2>1. /\ flight' = [flight EXCEPT !.phase = "deliver"]
        /\ cached' = [list |-> flight.list, floor |-> flight.floor]
        /\ reader' = reader /\ response' = response
    BY <1>4 DEF WarmList, requests
  <2>2. /\ flight' \in Flights /\ flight'.floor = flight.floor /\ flight'.error = flight.error
        /\ flight'.phase = "deliver"
    BY <1>0, <2>1 DEF Flights
  <2>3. cached' \in Entry /\ ListNotOlderThanItsQuery'
    BY <1>0, <1>4, <2>1 DEF WarmList, ReadInv, WarmingIsNews, ListNotOlderThanItsQuery, Entry, Flights
  <2> QED
    BY <1>0, <1>1, <2>1, <2>2, <2>3
       DEF ReadInv, ReadTypeOK, Flights, HistoryOrder, WarmingIsNews, OnlyTheCancelledGiveUp
<1>5. CASE Deliver
  <2>1. flight' = NoFlight /\ cached' = cached
    BY <1>5 DEF Deliver
  <2>2. PICK got \in SUBSET Readers :
          /\ reader' = [c \in Readers |-> IF c \in got THEN "done" ELSE reader[c]]
          /\ response' = [c \in Readers |->
               IF c \in got THEN [list |-> flight.list, error |-> flight.error] ELSE response[c]]
    <3>1. PICK taken \in SUBSET flight.waiting :
            LET got == {c \in taken : Receives(c)} IN
            /\ reader' = [c \in Readers |-> IF c \in got THEN "done" ELSE reader[c]]
            /\ response' = [c \in Readers |->
                 IF c \in got THEN [list |-> flight.list, error |-> flight.error] ELSE response[c]]
      BY <1>5 DEF Deliver
    <3>2. {c \in taken : Receives(c)} \in SUBSET Readers
      BY <1>0, <3>1 DEF Flights
    <3> QED
      BY <3>1, <3>2
  <2>3. /\ NoFlight \in Flights /\ NoFlight.floor = 0 /\ NoFlight.error = ""
        /\ NoFlight.phase = "none"
    BY NoFlightTyped
  <2>4. reader' \in [Readers -> ReaderStates] /\ response' \in [Readers -> Responses]
    BY <1>0, <2>2 DEF ReadTypeOK, Flights, ReaderStates, Responses
  <2>5. \A c \in Readers : response'[c].error = "cancelled" => response[c].error = "cancelled"
    BY <2>2 DEF ReadInv
  <2>6. ReadTypeOK'
    BY <1>0, <1>1, <2>1, <2>3, <2>4 DEF ReadTypeOK, Flights, ReaderStates, Responses
  <2>7. HistoryOrder' /\ WarmingIsNews' /\ flight'.error # "cancelled"
    <3>1. 0 <= published
      BY <1>0 DEF ReadTypeOK
    <3> QED
      BY <1>1, <2>1, <2>3, <3>1 DEF ReadInv, HistoryOrder, WarmingIsNews
  <2> QED
    BY <1>1, <2>1, <2>5, <2>6, <2>7 DEF ReadInv, ListNotOlderThanItsQuery, OnlyTheCancelledGiveUp
<1> QED
  BY <1>2, <1>3, <1>4, <1>5 DEF FlightEnds

LEMMA ReadInvariant == ReadSpec => []ReadInv
<1>1. ReadInit => ReadInv
  BY ReadInitial
<1>2. ReadInv /\ [ReadNext]_readVars => ReadInv'
  <2>1. ASSUME ReadInv, ReadNext PROVE ReadInv'
    BY <2>1, OutsideStep, RequestStepKeeps, FlightStep DEF ReadNext, Outside, RequestStep, FlightEnds
  <2>2. ASSUME ReadInv, UNCHANGED readVars PROVE ReadInv'
    BY <2>2 DEF readVars, ReadInv, ReadTypeOK, HistoryOrder, WarmingIsNews, ListNotOlderThanItsQuery,
                OnlyTheCancelledGiveUp
  <2> QED
    BY <2>1, <2>2
<1> QED
  BY <1>1, <1>2, PTL DEF ReadSpec

\* The read path keeps its types.
THEOREM ReadTypesCorrect == ReadSpec => []ReadTypeOK
<1>1. ReadInv => ReadTypeOK
  BY DEF ReadInv
<1> QED
  BY <1>1, ReadInvariant, PTL

\* Of any number of callers that share queries, only one whose own client went
\* away is answered with its cancellation (read.go:121-128, WithoutCancel).
THEOREM OthersAreServed == ReadSpec => []OnlyTheCancelledGiveUp
<1>1. ReadInv => OnlyTheCancelledGiveUp
  BY DEF ReadInv
<1> QED
  BY <1>1, ReadInvariant, PTL

\* A list in the cache begins with a price that is not older than what an
\* execution had cached when the query for the list began, for any number of
\* prices, queries and executions.
THEOREM ListsAreNotOlder == ReadSpec => []ListNotOlderThanItsQuery
<1>1. ReadInv => ListNotOlderThanItsQuery
  BY DEF ReadInv
<1> QED
  BY <1>1, ReadInvariant, PTL

\* A request that waits is one of those its flight will answer.
WaitersExpected ==
  \A c \in Readers : reader[c] = "waiting" =>
    c \in cancelled \/ (flight.phase # "none" /\ c \in flight.waiting)

\* A request never waits for a query that is not in flight, or that does not know
\* of it, for any number of requests and whoever goes away: what the request
\* joins is forgotten only when it is answered (read.go:120-165).
\* ReadersAnswered rests on this besides fairness.
THEOREM WaitersAreExpected == ReadSpec => []WaitersExpected
<1>1. ReadInit => WaitersExpected
  BY DEF ReadInit, WaitersExpected
<1>2. ReadInv /\ WaitersExpected /\ [ReadNext]_readVars => WaitersExpected'
  <2> SUFFICES ASSUME ReadInv, WaitersExpected, [ReadNext]_readVars PROVE WaitersExpected'
    OBVIOUS
  <2>0. reader \in [Readers -> ReaderStates] /\ flight \in Flights
    BY DEF ReadInv, ReadTypeOK, ReaderStates, Flights
  <2>1. CASE Outside \/ UNCHANGED readVars
    BY <2>1 DEF Outside, CommitPrice, CachePrice, CachePriceFails, CacheExpires, requests, readVars,
                WaitersExpected
  <2>2. ASSUME NEW c \in Readers, Join(c) PROVE WaitersExpected'
    <3>1. flight'.phase # "none" /\ c \in flight'.waiting
          /\ (flight.phase # "none" => flight.waiting \subseteq flight'.waiting)
      BY <2>0, <2>2 DEF Join, NoFlight, Flights
    <3>2. cancelled' = cancelled /\ reader' = [reader EXCEPT ![c] = "waiting"]
      BY <2>2 DEF Join, ReadStep
    <3> QED
      BY <2>0, <3>1, <3>2 DEF WaitersExpected
  <2>3. ASSUME NEW c \in Readers,
               Arrive(c) \/ CacheHit(c) \/ CacheMiss(c) \/ Cancel(c) \/ GiveUpWaiting(c)
        PROVE  WaitersExpected'
    <3>1. flight' = flight /\ cancelled \subseteq cancelled'
      BY <2>3 DEF Arrive, CacheHit, CacheMiss, Cancel, GiveUpWaiting
    <3>2. reader' = reader \/ \E s \in {"cache", "join", "done"} : reader' = [reader EXCEPT ![c] = s]
      BY <2>3 DEF Arrive, CacheHit, CacheMiss, Cancel, GiveUpWaiting, ReadStep
    <3> QED
      BY <2>0, <3>1, <3>2 DEF WaitersExpected
  <2>4. CASE Query \/ QueryFails \/ WarmList \/ WarmListFails
    <3>1. flight'.phase # "none" /\ flight'.waiting = flight.waiting
      BY <2>0, <2>4 DEF Query, QueryFails, WarmList, WarmListFails, Flights
    <3>2. reader' = reader /\ cancelled' = cancelled
      BY <2>4 DEF Query, QueryFails, WarmList, WarmListFails, requests
    <3> QED
      BY <3>1, <3>2 DEF WaitersExpected
  <2>5. CASE Deliver
    <3>1. PICK taken \in SUBSET flight.waiting :
            /\ flight.waiting \subseteq taken \cup cancelled
            /\ reader' = [c \in Readers |->
                 IF c \in {d \in taken : Receives(d)} THEN "done" ELSE reader[c]]
      BY <2>5 DEF Deliver
    <3>2. cancelled' = cancelled
      BY <2>5 DEF Deliver
    <3> QED
      BY <3>1, <3>2 DEF WaitersExpected, Receives
  <2> QED
    BY <2>1, <2>2, <2>3, <2>4, <2>5 DEF ReadNext, Outside
<1> QED
  BY <1>1, <1>2, ReadInvariant, PTL DEF ReadSpec

-----------------------------------------------------------------------------
(* The exchange rates.                                                      *)

\* The currency a conversion is about to store the rate of.
Storing(v, c) ==
  \/ conversion[v].at = "storeFrom" /\ conversion[v].from = c
  \/ conversion[v].at = "storeTo" /\ conversion[v].to = c

\* No conversion begins before the process serves, and a rate that is about to
\* be stored replaces none from upstream.
StoresAreFallbacks ==
  \A v \in FxCalls :
    /\ conversion[v].at # "idle" => serving
    /\ \A c \in Currencies : Storing(v, c) =>
         c # FxBase /\ (rates[c].known => rates[c].fallback)

\* Between the two looks at the map the rate stays resolved, and its flag true.
FlagsStayTrue ==
  \A v \in FxCalls : conversion[v].at = "apply" =>
    LET from == conversion[v].from
        to == conversion[v].to
    IN Resolved(from, to) /\ (ResolvedFlag(from, to) => conversion[v].flagged)

FxInv == FxTypeOK /\ StoresAreFallbacks /\ FlagsStayTrue /\ ConversionsHonest

Conversions ==
  [at : {"idle", "cache", "from", "storeFrom", "to", "storeTo", "again", "apply", "done", "failed"},
   from : Currencies, to : Currencies, row : 0..MaxDate,
   flagged : BOOLEAN, used : SUBSET CachedRate]

LEMMA RatesTyped ==
  /\ NoRate \in CachedRate
  /\ \A d \in 0..MaxDate : FromRow(d) \in CachedRate
BY FxAssumption DEF NoRate, FromRow, CachedRate

\* Storing a rate from the table where none from upstream is keeps what is
\* known known, flagged what is flagged, and divides by no zero.
LEMMA StoringKeeps ==
  ASSUME FxTypeOK, NEW c \in Currencies, NEW d \in 0..MaxDate,
         rates' = [rates EXCEPT ![c] = FromRow(d)],
         rates[c].known => rates[c].fallback
  PROVE  /\ rates' \in [Currencies -> CachedRate]
         /\ \A x \in Currencies :
              /\ rates[x].known => rates'[x].known
              /\ rates[x].known /\ rates'[x].fallback => rates[x].fallback
              /\ rates'[x].zero => rates[x].zero
<1>1. FromRow(d) \in CachedRate
  BY RatesTyped
<1>2. rates' \in [Currencies -> CachedRate]
  BY <1>1 DEF FxTypeOK
<1>3. \A x \in Currencies \ {c} : rates'[x] = rates[x]
  BY DEF FxTypeOK
<1>4. rates'[c] = FromRow(d)
  BY DEF FxTypeOK
<1>5. FromRow(d).known /\ ~FromRow(d).zero
  BY DEF FromRow
<1> QED
  BY <1>2, <1>3, <1>4, <1>5

LEMMA FxInitial ==
  ASSUME FxInit
  PROVE  FxInv
<1>1. \A v \in FxCalls : conversion[v].at = "idle"
  BY DEF FxInit
<1>2. 0 \in 0..MaxDate
  BY FxAssumption
<1>3. conversion \in [FxCalls -> Conversions]
  <2>1. [at |-> "idle", from |-> FxBase, to |-> FxBase, row |-> 0, flagged |-> FALSE, used |-> {}]
          \in Conversions
    BY <1>2 DEF Conversions, Currencies
  <2> QED
    BY <2>1 DEF FxInit
<1>4. FxTypeOK
  BY <1>2, <1>3, RatesTyped DEF FxInit, FxTypeOK, Conversions
<1> QED
  BY <1>1, <1>4 DEF FxInv, StoresAreFallbacks, FlagsStayTrue, ConversionsHonest, Storing

\* Upstream, the ingestion, and the start of the process: no conversion is under
\* way while the map is refreshed.
LEMMA RefreshKeeps ==
  ASSUME FxInv,
         \/ PublishRates \/ \E c \in FxForeign : UpsertRate(c)
         \/ RefreshFromUpstream \/ RefreshFromTable \/ RefreshFails
  PROVE  FxInv'
<1>0. FxTypeOK /\ MaxDate \in Nat /\ conversion' = conversion
  BY FxAssumption DEF FxInv, PublishRates, UpsertRate, RefreshFromUpstream, RefreshFromTable, RefreshFails
<1>1. CASE PublishRates \/ \E c \in FxForeign : UpsertRate(c)
  <2>1. rates' = rates /\ serving' = serving
    BY <1>1 DEF PublishRates, UpsertRate
  <2>2. fxDate' \in 0..MaxDate /\ fxTable' \in [FxForeign -> 0..MaxDate]
    BY <1>0, <1>1 DEF PublishRates, UpsertRate, FxTypeOK
  <2>3. FxTypeOK'
    BY <1>0, <2>1, <2>2 DEF FxTypeOK
  <2> QED
    BY <1>0, <2>1, <2>3
       DEF FxInv, StoresAreFallbacks, FlagsStayTrue, ConversionsHonest, Storing, Resolved,
           Divisible, ResolvedFlag
<1>2. CASE RefreshFromUpstream \/ RefreshFromTable \/ RefreshFails
  <2>1. /\ ~serving /\ serving' = TRUE /\ fxDate' = fxDate /\ fxTable' = fxTable
    BY <1>2 DEF RefreshFromUpstream, RefreshFromTable, RefreshFails
  <2>2. rates' \in [Currencies -> CachedRate]
    <3>1. CASE RefreshFromUpstream
      BY <1>0, <3>1 DEF RefreshFromUpstream, FxTypeOK, CachedRate
    <3>2. CASE RefreshFromTable
      <4>1. \A c \in Currencies \ {FxBase} : fxTable[c] \in 0..MaxDate
        BY <1>0 DEF FxTypeOK, Currencies
      <4> QED
        BY <1>0, <3>2, <4>1, RatesTyped DEF RefreshFromTable, FxTypeOK
    <3>3. CASE RefreshFails
      BY <1>0, <3>3 DEF RefreshFails, FxTypeOK
    <3> QED
      BY <1>2, <3>1, <3>2, <3>3
  <2>3. FxTypeOK'
    BY <1>0, <2>1, <2>2 DEF FxTypeOK
  <2>4. \A v \in FxCalls : conversion'[v].at = "idle"
    BY <1>0, <2>1 DEF FxInv, StoresAreFallbacks
  <2> QED
    BY <2>3, <2>4 DEF FxInv, StoresAreFallbacks, FlagsStayTrue, ConversionsHonest, Storing
<1> QED
  BY <1>1, <1>2

\* The amount of a conversion whose rates are resolved is honest.
LEMMA ResolvedIsHonest ==
  ASSUME NEW from \in Currencies, NEW to \in Currencies, Resolved(from, to)
  PROVE  LET used == {rates[c] : c \in {from, to} \ {FxBase}} IN
         /\ (\E r \in used : r.fallback) => ResolvedFlag(from, to)
         /\ \A r \in used : r.known
         /\ from = FxBase \/ ~rates[from].zero
BY DEF Resolved, Divisible, ResolvedFlag

\* A conversion's own step that leaves the map alone.
Quiet(v) ==
  (\E from, to \in Currencies : ConvertCall(v, from, to)) \/ LookInCache(v) \/ LookInTable(v)
  \/ Apply(v)

LEMMA QuietKeeps ==
  ASSUME FxInv, NEW v \in FxCalls, Quiet(v)
  PROVE  FxInv'
<1>0. FxTypeOK /\ rates' = rates /\ serving' = serving /\ fxDate' = fxDate /\ fxTable' = fxTable
  BY DEF FxInv, Quiet, ConvertCall, LookInCache, LookInTable, Apply
<1>1. conversion \in [FxCalls -> Conversions]
  BY <1>0 DEF FxTypeOK, Conversions
<1> DEFINE from == conversion[v].from
           to == conversion[v].to
<1>2. from \in Currencies /\ to \in Currencies
  BY <1>1 DEF Conversions
<1>3. SUFFICES /\ conversion' \in [FxCalls -> Conversions]
               /\ \A w \in FxCalls \ {v} : conversion'[w] = conversion[w]
               /\ serving
               /\ \A c \in Currencies : Storing(v, c)' =>
                    c # FxBase /\ (rates[c].known => rates[c].fallback)
               /\ conversion'[v].at = "apply" =>
                    /\ Resolved(conversion'[v].from, conversion'[v].to)
                    /\ ResolvedFlag(conversion'[v].from, conversion'[v].to) => conversion'[v].flagged
               /\ conversion'[v].at = "done" =>
                    /\ (\E r \in conversion'[v].used : r.fallback) => conversion'[v].flagged
                    /\ \A r \in conversion'[v].used : r.known
                    /\ conversion'[v].from = FxBase \/ ~rates[conversion'[v].from].zero
  <2>1. FxTypeOK'
    BY <1>0, <1>3 DEF FxTypeOK, Conversions
  <2>2. StoresAreFallbacks'
    BY <1>0, <1>3 DEF FxInv, StoresAreFallbacks, Storing
  <2>3. FlagsStayTrue'
    BY <1>0, <1>3 DEF FxInv, FlagsStayTrue, Resolved, Divisible, ResolvedFlag
  <2>4. ConversionsHonest'
    BY <1>0, <1>3 DEF FxInv, ConversionsHonest
  <2> QED
    BY <2>1, <2>2, <2>3, <2>4 DEF FxInv
<1>4. CASE \E f, t \in Currencies : ConvertCall(v, f, t)
  <2>1. PICK f \in Currencies, t \in Currencies : ConvertCall(v, f, t)
    BY <1>4
  <2>2. conversion' = [conversion EXCEPT ![v].at = "cache", ![v].from = f, ![v].to = t] /\ serving
    BY <2>1 DEF ConvertCall
  <2>3. conversion' \in [FxCalls -> Conversions] /\ conversion'[v].at = "cache"
        /\ \A w \in FxCalls \ {v} : conversion'[w] = conversion[w]
    BY <1>1, <2>2 DEF Conversions
  <2> QED
    BY <2>2, <2>3 DEF Storing
<1>5. CASE LookInCache(v)
  <2>1. serving
    BY <1>5 DEF LookInCache, FxInv, StoresAreFallbacks
  <2>2. CASE Resolved(from, to)
    <3>1. conversion' = [conversion EXCEPT ![v].at = "apply", ![v].flagged = ResolvedFlag(from, to)]
      BY <1>5, <2>2 DEF LookInCache
    <3>2. ResolvedFlag(from, to) \in BOOLEAN
      <4>1. \A c \in Currencies : rates[c].fallback \in BOOLEAN
        BY <1>0 DEF FxTypeOK, CachedRate
      <4> QED
        BY <1>2, <4>1 DEF ResolvedFlag
    <3>3. conversion' \in [FxCalls -> Conversions] /\ conversion'[v].at = "apply"
          /\ conversion'[v].flagged = ResolvedFlag(from, to)
          /\ conversion'[v].from = from /\ conversion'[v].to = to
          /\ \A w \in FxCalls \ {v} : conversion'[w] = conversion[w]
      <4> HIDE DEF from, to
      <4> DEFINE flag == ResolvedFlag(from, to)
      <4>1. conversion' = [conversion EXCEPT ![v].at = "apply", ![v].flagged = flag] /\ flag \in BOOLEAN
        BY <3>1, <3>2
      <4> HIDE DEF flag
      <4>2. conversion' \in [FxCalls -> Conversions] /\ conversion'[v].at = "apply"
            /\ conversion'[v].flagged = flag
            /\ conversion'[v].from = conversion[v].from /\ conversion'[v].to = conversion[v].to
            /\ \A w \in FxCalls \ {v} : conversion'[w] = conversion[w]
        BY <1>1, <4>1 DEF Conversions
      <4> QED
        BY <4>2 DEF flag, from, to
    <3> QED
      BY <2>1, <2>2, <3>3 DEF Storing
  <2>3. CASE ~Resolved(from, to)
    <3>1. PICK at \in {"failed", "from"} : conversion' = [conversion EXCEPT ![v].at = at]
      BY <1>5, <2>3 DEF LookInCache
    <3>2. conversion' \in [FxCalls -> Conversions] /\ conversion'[v].at \in {"failed", "from"}
          /\ \A w \in FxCalls \ {v} : conversion'[w] = conversion[w]
      BY <1>1, <3>1 DEF Conversions
    <3> QED
      BY <2>1, <3>2 DEF Storing
  <2> QED
    BY <2>2, <2>3
<1>6. CASE LookInTable(v)
  <2>1. serving /\ conversion[v].at \in {"from", "to"}
    BY <1>6 DEF LookInTable, FxInv, StoresAreFallbacks
  <2> DEFINE currency == IF conversion[v].at = "from" THEN from ELSE to
             store == IF conversion[v].at = "from" THEN "storeFrom" ELSE "storeTo"
             next == IF conversion[v].at = "from" THEN "to" ELSE "again"
  <2>2. CASE /\ currency # FxBase /\ ~rates[currency].known /\ fxTable[currency] > 0
             /\ conversion' = [conversion EXCEPT ![v].at = store, ![v].row = fxTable[currency]]
    <3>1. fxTable[currency] \in 0..MaxDate
      BY <1>0, <1>2, <2>2 DEF FxTypeOK, Currencies
    <3>2. conversion' \in [FxCalls -> Conversions] /\ conversion'[v].at = store
          /\ conversion'[v].from = from /\ conversion'[v].to = to
          /\ \A w \in FxCalls \ {v} : conversion'[w] = conversion[w]
      BY <1>1, <2>2, <3>1 DEF Conversions
    <3>3. \A c \in Currencies : Storing(v, c)' => c = currency
      BY <2>1, <3>2 DEF Storing
    <3> QED
      BY <2>1, <2>2, <3>2, <3>3
  <2>3. CASE conversion' = [conversion EXCEPT ![v].at = next]
    <3>1. conversion' \in [FxCalls -> Conversions] /\ conversion'[v].at \in {"to", "again"}
          /\ \A w \in FxCalls \ {v} : conversion'[w] = conversion[w]
      BY <1>1, <2>3 DEF Conversions
    <3> QED
      BY <2>1, <3>1 DEF Storing
  <2> QED
    BY <1>6, <2>2, <2>3 DEF LookInTable
<1>7. CASE Apply(v)
  <2> DEFINE used == {rates[c] : c \in {from, to} \ {FxBase}}
  <2>1. serving /\ Resolved(from, to) /\ (ResolvedFlag(from, to) => conversion[v].flagged)
    BY <1>7 DEF Apply, FxInv, StoresAreFallbacks, FlagsStayTrue
  <2>2. conversion' = [conversion EXCEPT ![v].at = "done", ![v].used = used]
    BY <1>7 DEF Apply
  <2>3. used \subseteq CachedRate
    BY <1>0, <1>2 DEF FxTypeOK
  <2>4. /\ (\E r \in used : r.fallback) => ResolvedFlag(from, to)
        /\ \A r \in used : r.known
        /\ from = FxBase \/ ~rates[from].zero
    BY <1>2, <2>1, ResolvedIsHonest
  <2>5. conversion' \in [FxCalls -> Conversions] /\ conversion'[v].at = "done"
        /\ conversion'[v].from = from /\ conversion'[v].used = used
        /\ conversion'[v].flagged = conversion[v].flagged
        /\ \A w \in FxCalls \ {v} : conversion'[w] = conversion[w]
    <3> HIDE DEF used
    <3> QED
      BY <1>1, <2>2, <2>3 DEF Conversions
  <2> QED
    BY <2>1, <2>4, <2>5 DEF Storing
<1> QED
  BY <1>4, <1>5, <1>6, <1>7 DEF Quiet

LEMMA StoreKeeps ==
  ASSUME FxInv, NEW v \in FxCalls, StoreRate(v)
  PROVE  FxInv'
<1>0. FxTypeOK /\ conversion \in [FxCalls -> Conversions]
      /\ serving' = serving /\ fxDate' = fxDate /\ fxTable' = fxTable
  BY DEF FxInv, StoreRate, FxTypeOK, Conversions
<1>1. PICK c \in Currencies : /\ rates' = [rates EXCEPT ![c] = FromRow(conversion[v].row)]
                              /\ Storing(v, c)
  BY <1>0 DEF StoreRate, Storing, Conversions
<1>2. PICK at \in {"to", "again"} : conversion' = [conversion EXCEPT ![v].at = at]
  BY DEF StoreRate
<1>3. rates[c].known => rates[c].fallback
  BY <1>1 DEF FxInv, StoresAreFallbacks
<1>4. /\ rates' \in [Currencies -> CachedRate]
      /\ \A x \in Currencies :
           /\ rates[x].known => rates'[x].known
           /\ rates[x].known /\ rates'[x].fallback => rates[x].fallback
           /\ rates'[x].zero => rates[x].zero
  BY <1>0, <1>1, <1>3, StoringKeeps DEF Conversions
<1>5. \A x \in Currencies : (rates[x].known => rates[x].fallback) =>
                              (rates'[x].known => rates'[x].fallback)
  BY <1>0, <1>1 DEF FxTypeOK, FromRow
<1>6. /\ conversion' \in [FxCalls -> Conversions] /\ conversion'[v].at \in {"to", "again"}
      /\ \A w \in FxCalls \ {v} : conversion'[w] = conversion[w]
      /\ serving
  <2>1. serving
    BY <1>1 DEF FxInv, StoresAreFallbacks, Storing
  <2> QED
    BY <1>0, <1>2, <2>1 DEF Conversions
<1>7. FxTypeOK'
  BY <1>0, <1>4, <1>6 DEF FxTypeOK, Conversions
<1>8. StoresAreFallbacks'
  BY <1>0, <1>5, <1>6 DEF FxInv, StoresAreFallbacks, Storing
<1>9. FlagsStayTrue'
  <2>1. SUFFICES ASSUME NEW w \in FxCalls \ {v}, conversion[w].at = "apply"
                 PROVE  /\ Resolved(conversion[w].from, conversion[w].to)'
                        /\ ResolvedFlag(conversion[w].from, conversion[w].to)' => conversion[w].flagged
    BY <1>6 DEF FlagsStayTrue, Resolved, Divisible, ResolvedFlag
  <2> DEFINE from == conversion[w].from
             to == conversion[w].to
  <2>2. from \in Currencies /\ to \in Currencies /\ conversion'[w] = conversion[w]
    BY <1>0, <1>6 DEF Conversions
  <2>3. Resolved(from, to) /\ (ResolvedFlag(from, to) => conversion[w].flagged)
    BY <2>1 DEF FxInv, FlagsStayTrue
  <2>4. /\ rates[from].known => rates'[from].known
        /\ rates[from].known /\ rates'[from].fallback => rates[from].fallback
        /\ rates'[from].zero => rates[from].zero
        /\ rates[to].known => rates'[to].known
        /\ rates[to].known /\ rates'[to].fallback => rates[to].fallback
    BY <1>4, <2>2
  <2> QED
    BY <2>2, <2>3, <2>4 DEF Resolved, Divisible, ResolvedFlag
<1>10. ConversionsHonest'
  <2>1. SUFFICES ASSUME NEW w \in FxCalls \ {v}, conversion[w].at = "done"
                 PROVE  /\ (\E r \in conversion[w].used : r.fallback) => conversion[w].flagged
                        /\ \A r \in conversion[w].used : r.known
                        /\ conversion[w].from = FxBase \/ ~rates'[conversion[w].from].zero
    BY <1>6 DEF ConversionsHonest
  <2>2. conversion[w].from \in Currencies
    BY <1>0 DEF Conversions
  <2> QED
    BY <1>4, <2>1, <2>2 DEF FxInv, ConversionsHonest
<1> QED
  BY <1>7, <1>8, <1>9, <1>10 DEF FxInv

LEMMA FxInvariant == FxSpec => []FxInv
<1>1. FxInit => FxInv
  BY FxInitial
<1>2. FxInv /\ [FxNext]_fxVars => FxInv'
  <2>1. ASSUME FxInv, FxNext PROVE FxInv'
    <3>1. CASE \/ PublishRates \/ \E c \in FxForeign : UpsertRate(c)
               \/ RefreshFromUpstream \/ RefreshFromTable \/ RefreshFails
      BY <2>1, <3>1, RefreshKeeps
    <3>2. CASE \E v \in FxCalls : Quiet(v) \/ StoreRate(v)
      BY <2>1, <3>2, QuietKeeps, StoreKeeps
    <3> QED
      BY <2>1, <3>1, <3>2 DEF FxNext, Quiet
  <2>2. ASSUME FxInv, UNCHANGED fxVars PROVE FxInv'
    BY <2>2 DEF fxVars, FxInv, FxTypeOK, StoresAreFallbacks, FlagsStayTrue, ConversionsHonest,
                Storing, Resolved, Divisible, ResolvedFlag
  <2> QED
    BY <2>1, <2>2
<1> QED
  BY <1>1, <1>2, PTL DEF FxSpec

\* The rates and the conversions keep their types.
THEOREM FxTypesCorrect == FxSpec => []FxTypeOK
<1>1. FxInv => FxTypeOK
  BY DEF FxInv
<1> QED
  BY <1>1, FxInvariant, PTL

\* For any number of conversions that store rates between each other's two
\* looks at the map, an amount made of a rate from the table is flagged, none is
\* made of a missing rate, and none divides by zero (internal/fx, Convert).
THEOREM ConversionsAreHonest == FxSpec => []ConversionsHonest
<1>1. FxInv => ConversionsHonest
  BY DEF FxInv
<1> QED
  BY <1>1, FxInvariant, PTL

-----------------------------------------------------------------------------
(* The totals of a calculation.                                             *)

LEMMA PutEffect ==
  ASSUME NEW f, NEW x, NEW v
  PROVE  /\ DOMAIN Put(f, x, v) = DOMAIN f \cup {x}
         /\ Put(f, x, v)[x] = v
         /\ \A y \in DOMAIN f : y # x => Put(f, x, v)[y] = f[y]
BY DEF Put

\* What the current provider has been asked for, and the ones before it.
AnsweredOf(i) == IF i = calcAt THEN calcDone ELSE calcAsk.categories

PricesSoFar(p, done) ==
  [c \in {c \in done : IsPrice(calcOutcomes[<<p, c>>])} |-> calcOutcomes[<<p, c>>][2]]

ResultOf(i) == ProviderResult(CalcProviders[i], PricesOf(CalcProviders[i]), calcAsk.categories)

\* Only what has begun has results; past the last provider the tally is empty.
CalcShape ==
  /\ calcAsk \in CalcRequests \cup {NoAsk}
  /\ calcAsk = NoAsk => calcAt = 1 /\ calcDone = {} /\ calcAnswer = "none"
  /\ calcAt \notin DOMAIN CalcProviders => calcDone = {}
  /\ calcAnswer # "none" => calcAt = Len(CalcProviders) + 1
  /\ IsFiniteSet(calcDone)
  /\ calcFailures <= calcAt - 1

\* The tally is that of the provider being asked, whatever came before.
TallyIsOwn ==
  IF calcAt \in DOMAIN CalcProviders
  THEN calcTally.prices = PricesSoFar(CalcProviders[calcAt], calcDone)
  ELSE calcTally.prices = << >>

\* Each pair that was asked for has an outcome, and it was explained.
OutcomesExplained ==
  \A i \in DOMAIN CalcProviders : \A c \in AnsweredOf(i) :
    LET p == CalcProviders[i]
        o == calcOutcomes[<<p, c>>]
    IN  i <= calcAt =>
          /\ <<p, c>> \in DOMAIN calcOutcomes
          /\ ~IsPrice(o) => <<p, Explained[o[1]]>> \in calcWarnings
          /\ IsPrice(o) /\ calcAsk.loop # "rest" =>
               \A w \in ResultWarnings[o[1]] : <<p, w>> \in calcWarnings

\* The results are those of the providers that were asked, and had a price.
ResultsOfAsked ==
  calcResults = {ResultOf(i) : i \in {i \in DOMAIN CalcProviders :
                                        i < calcAt /\ PricedFor(CalcProviders[i]) # {}}}

CalcInv ==
  CalculationTypeOK /\ CalcShape /\ TallyIsOwn /\ OutcomesExplained /\ ResultsOfAsked

\* A set of numbers has a least one.
LEMMA MinIsLeast ==
  ASSUME NEW S \in SUBSET Nat, S # {}
  PROVE  Min(S) \in S /\ \A y \in S : Min(S) <= y
<1> DEFINE R == OpToRel(<, Nat)
<1>1. IsWellFoundedOn(R, Nat)
  BY NatLessThanWellFounded
<1>2. \A x, y \in Nat : <<y, x>> \in R <=> y < x
  BY DEF OpToRel
<1> HIDE DEF R
<1>3. PICK x \in S : \A y \in S : ~(<<y, x>> \in R)
  BY <1>1, WFMin
<1>4. \A y \in S : x \in Nat /\ y \in Nat /\ ~(y < x)
  BY <1>2, <1>3
<1>5. \A y \in S : x <= y
  BY <1>4
<1> QED
  BY <1>5 DEF Min

LEMMA CalcOrderDomain == DOMAIN CalcOrder = 1 .. 7
BY DEF CalcOrder

\* A category that is due was asked for and has not been answered.
LEMMA DueIsOneOf ==
  ASSUME NEW S \in SUBSET CalcCategories, S # {}
  PROVE  Due(S) \in S
<1> DEFINE I == {i \in DOMAIN CalcOrder : CalcOrder[i] \in S}
<1>1. I \in SUBSET (1 .. 7)
  BY CalcOrderDomain
<1>2. I # {}
  BY DEF CalcCategories
<1>3. Min(I) \in I
  BY <1>1, <1>2, MinIsLeast
<1> QED
  BY <1>3 DEF Due

LEMMA ProviderNumbers ==
  /\ Len(CalcProviders) \in Nat
  /\ DOMAIN CalcProviders = 1 .. Len(CalcProviders)
BY CalculationAssumption

LEMMA EmptyPrices == \A p : PricesSoFar(p, {}) = << >>
BY DEF PricesSoFar

LEMMA CalcInitial == CalculationInit => CalcInv
<1> SUFFICES ASSUME CalculationInit PROVE CalcInv
  OBVIOUS
<1>1. Cardinality({}) = 0 /\ IsFiniteSet({})
  BY FS_EmptySet
<1>2. CalculationTypeOK
  <2>1. calcAsk.categories = {} /\ calcTally.failed = 0 /\ calcTally.prices = << >>
    BY DEF CalculationInit, NoAsk, NoTally
  <2>3. DOMAIN calcTally.prices = {}
    BY <2>1
  <2>2. calcTally.failed \in 0 .. Cardinality(calcDone)
    BY <1>1, <2>1 DEF CalculationInit
  <2> QED
    BY <2>1, <2>2, <2>3, ProviderNumbers DEF CalculationInit, CalculationTypeOK
<1>3. CalcShape
  BY <1>1, ProviderNumbers DEF CalculationInit, CalcShape
<1>4. TallyIsOwn
  BY EmptyPrices DEF CalculationInit, TallyIsOwn, NoTally
<1>5. \A i \in DOMAIN CalcProviders : AnsweredOf(i) = {}
  BY DEF CalculationInit, AnsweredOf, NoAsk
<1>6. OutcomesExplained
  BY <1>5 DEF CalculationInit, OutcomesExplained
<1>7. ResultsOfAsked
  <2>1. calcResults = {} /\ calcAt = 1
    BY DEF CalculationInit
  <2>2. \A i \in DOMAIN CalcProviders : ~(i < calcAt)
    BY <2>1, ProviderNumbers
  <2> QED
    BY <2>1, <2>2 DEF ResultsOfAsked
<1> QED
  BY <1>2, <1>3, <1>4, <1>6, <1>7 DEF CalcInv

\* A call begins: nothing has been answered yet.
LEMMA CalcStartKeeps ==
  ASSUME CalcInv, NEW r \in CalcRequests, CalcStart(r)
  PROVE  CalcInv'
<1>1. /\ calcAsk = NoAsk /\ calcAsk' = r /\ calcAt' = 1 /\ calcAt = 1 /\ calcDone = {} /\ calcDone' = {}
      /\ calcAnswer' = "none"
  BY DEF CalcInv, CalcShape, CalcStart
<1>2. \A i \in DOMAIN CalcProviders : i <= calcAt => i = calcAt
  BY <1>1, ProviderNumbers
<1>3. CalculationTypeOK'
  <2>1. r.categories \in SUBSET CalcCategories
    BY CalculationAssumption
  <2> QED
    BY <1>1, <2>1 DEF CalcInv, CalculationTypeOK, CalcStart
<1>4. CalcShape'
  BY <1>1 DEF CalcInv, CalcShape, CalcStart
<1>5. TallyIsOwn'
  BY <1>1 DEF CalcInv, TallyIsOwn, CalcStart, PricesSoFar
<1>6. OutcomesExplained'
  BY <1>1, <1>2 DEF OutcomesExplained, AnsweredOf
<1>7. ResultsOfAsked'
  <2>1. \A i \in DOMAIN CalcProviders : ~(i < calcAt)
    BY <1>1, ProviderNumbers
  <2>2. calcResults = {} /\ calcResults' = {}
    BY <2>1 DEF CalcInv, ResultsOfAsked, CalcStart
  <2> QED
    BY <1>1, <2>1, <2>2 DEF ResultsOfAsked
<1> QED
  BY <1>3, <1>4, <1>5, <1>6, <1>7 DEF CalcInv

\* Asking the current provider for one more category.
LEMMA AskKeeps ==
  ASSUME CalcInv, AtProvider, NEW c \in calcAsk.categories \ calcDone,
         NEW o, AskCategory(CalcProviders[calcAt], c, o)
  PROVE  CalcInv'
<1> DEFINE p == CalcProviders[calcAt]
<1>1. /\ calcDone' = calcDone \cup {c}
      /\ calcWarnings' = calcWarnings \cup {<<p, w>> : w \in WarningsOf(calcAsk.loop, o)}
      /\ calcOutcomes' = Put(calcOutcomes, <<p, c>>, o)
      /\ calcAsk' = calcAsk /\ calcAt' = calcAt /\ calcFailures' = calcFailures
      /\ calcResults' = calcResults /\ calcAnswer' = calcAnswer
      /\ calcTally' = [prices |-> IF IsPrice(o) THEN Put(calcTally.prices, c, o[2]) ELSE calcTally.prices,
                        failed |-> calcTally.failed + (IF o[1] = "failed" THEN 1 ELSE 0)]
  BY DEF AskCategory
<1>2. /\ calcAsk # NoAsk /\ calcAt \in DOMAIN CalcProviders /\ calcAt \in Nat
      /\ IsFiniteSet(calcDone) /\ calcDone \subseteq calcAsk.categories
      /\ calcTally.prices = PricesSoFar(p, calcDone)
  BY ProviderNumbers DEF AtProvider, CalcInv, CalcShape, TallyIsOwn, CalculationTypeOK
<1>3. calcOutcomes'[<<p, c>>] = o /\ <<p, c>> \in DOMAIN calcOutcomes'
  <2>1. calcOutcomes' = Put(calcOutcomes, <<p, c>>, o)
    BY <1>1
  <2> QED
    BY <2>1 DEF Put
<1>4. ASSUME NEW i \in DOMAIN CalcProviders, NEW d \in AnsweredOf(i), i <= calcAt
      PROVE  /\ calcOutcomes'[<<CalcProviders[i], d>>] = calcOutcomes[<<CalcProviders[i], d>>]
             /\ <<CalcProviders[i], d>> \in DOMAIN calcOutcomes'
  <2>1. <<CalcProviders[i], d>> \in DOMAIN calcOutcomes
    BY <1>4 DEF CalcInv, OutcomesExplained
  <2>2. <<CalcProviders[i], d>> # <<p, c>>
    BY <1>2, <1>4, CalculationAssumption DEF AnsweredOf
  <2>3. calcOutcomes' = Put(calcOutcomes, <<p, c>>, o)
    BY <1>1
  <2> QED
    BY <1>3, <2>1, <2>2, <2>3 DEF Put
<1>5. calcTally'.prices = PricesSoFar(p, calcDone)'
  <2>1. \A d \in calcDone : calcOutcomes'[<<p, d>>] = calcOutcomes[<<p, d>>]
    BY <1>2, <1>4 DEF AnsweredOf
  <2>2. calcTally'.prices = IF IsPrice(o) THEN Put(PricesSoFar(p, calcDone), c, o[2]) ELSE PricesSoFar(p, calcDone)
    BY <1>1, <1>2
  <2>3. CASE IsPrice(o)
    <3> DEFINE S == {d \in calcDone : IsPrice(calcOutcomes[<<p, d>>])}
               old == PricesSoFar(p, calcDone)
    <3>1. {d \in calcDone' : IsPrice(calcOutcomes'[<<p, d>>])} = S \cup {c}
      BY <1>1, <1>3, <2>1, <2>3
    <3>2. DOMAIN old = S /\ \A d \in S : old[d] = calcOutcomes'[<<p, d>>][2]
      BY <2>1 DEF PricesSoFar
    <3>3. Put(old, c, o[2]) = [d \in S \cup {c} |-> calcOutcomes'[<<p, d>>][2]]
      BY <1>3, <3>2 DEF Put
    <3>4. p' = p
      BY <1>1
    <3> QED
      BY <2>2, <2>3, <3>1, <3>3, <3>4 DEF PricesSoFar
  <2>4. CASE ~IsPrice(o)
    <3>1. {d \in calcDone' : IsPrice(calcOutcomes'[<<p, d>>])}
              = {d \in calcDone : IsPrice(calcOutcomes[<<p, d>>])}
      BY <1>1, <1>3, <2>1, <2>4
    <3>2. p' = p
      BY <1>1
    <3> QED
      BY <2>1, <2>2, <2>4, <3>1, <3>2 DEF PricesSoFar
  <2> QED
    BY <2>3, <2>4
<1>6. CalcShape'
  <2>1. IsFiniteSet(calcDone')
    BY <1>1, <1>2, FS_AddElement
  <2> QED
    BY <1>1, <1>2, <2>1 DEF CalcInv, CalcShape
<1>7. CalculationTypeOK'
  <2>1. Cardinality(calcDone') = Cardinality(calcDone) + 1 /\ Cardinality(calcDone) \in Nat
    BY <1>1, <1>2, FS_AddElement, FS_CardinalityType
  <2>2. calcTally'.failed \in 0 .. Cardinality(calcDone')
    <3>1. calcTally.failed \in 0 .. Cardinality(calcDone)
      BY DEF CalcInv, CalculationTypeOK
    <3>2. calcTally'.failed \in {calcTally.failed, calcTally.failed + 1}
      BY <1>1, <3>1
    <3> QED
      BY <2>1, <3>1, <3>2
  <2>3. DOMAIN calcTally'.prices \subseteq calcDone'
    BY <1>5 DEF PricesSoFar
  <2> QED
    BY <1>1, <1>2, <2>2, <2>3 DEF CalcInv, CalculationTypeOK
<1>8. TallyIsOwn'
  BY <1>1, <1>2, <1>5 DEF TallyIsOwn
<1>9. OutcomesExplained'
  <2> SUFFICES ASSUME NEW i \in DOMAIN CalcProviders, NEW d \in AnsweredOf(i)', i <= calcAt
               PROVE  LET q == CalcProviders[i]
                          e == calcOutcomes'[<<q, d>>]
                      IN  /\ <<q, d>> \in DOMAIN calcOutcomes'
                          /\ ~IsPrice(e) => <<q, Explained[e[1]]>> \in calcWarnings'
                          /\ IsPrice(e) /\ calcAsk.loop # "rest" =>
                               \A w \in ResultWarnings[e[1]] : <<q, w>> \in calcWarnings'
    BY <1>1 DEF OutcomesExplained
  <2>1. CASE d \in AnsweredOf(i)
    BY <1>1, <1>4, <2>1 DEF CalcInv, OutcomesExplained
  <2>2. CASE d \notin AnsweredOf(i)
    <3>1. i = calcAt /\ d = c
      BY <1>1, <2>2 DEF AnsweredOf
    <3> QED
      BY <1>1, <1>3, <3>1 DEF WarningsOf
  <2> QED
    BY <2>1, <2>2
<1>10. ResultsOfAsked'
  <2>1. ASSUME NEW i \in DOMAIN CalcProviders, i < calcAt
        PROVE  /\ PricedFor(CalcProviders[i])' = PricedFor(CalcProviders[i])
               /\ ResultOf(i)' = ResultOf(i)
    <3>1. i # calcAt /\ i <= calcAt
      BY <1>2, <2>1, ProviderNumbers
    <3>2. \A d \in calcAsk.categories :
            calcOutcomes'[<<CalcProviders[i], d>>] = calcOutcomes[<<CalcProviders[i], d>>]
      BY <1>4, <3>1 DEF AnsweredOf
    <3>3. PricedFor(CalcProviders[i])' = PricedFor(CalcProviders[i])
      BY <1>1, <3>2 DEF PricedFor
    <3>4. PricesOf(CalcProviders[i])' = PricesOf(CalcProviders[i])
      <4>1. \A d \in PricedFor(CalcProviders[i]) : d \in calcAsk.categories
        BY DEF PricedFor
      <4> QED
        BY <3>2, <3>3, <4>1 DEF PricesOf
    <3> QED
      BY <1>1, <3>3, <3>4 DEF ResultOf
  <2> QED
    BY <1>1, <2>1 DEF CalcInv, ResultsOfAsked
<1> QED
  BY <1>6, <1>7, <1>8, <1>9, <1>10 DEF CalcInv

\* The current provider's total is formed, and the next one is asked.
LEMMA EndKeeps ==
  ASSUME CalcInv, ProviderEnds
  PROVE  CalcInv'
<1> DEFINE p == CalcProviders[calcAt]
<1>1. /\ calcAsk # NoAsk /\ calcAt \in DOMAIN CalcProviders /\ calcDone = calcAsk.categories
      /\ calcAt' = calcAt + 1 /\ calcDone' = {} /\ calcTally' = NoTally
      /\ calcAsk' = calcAsk /\ calcWarnings' = calcWarnings
      /\ calcOutcomes' = calcOutcomes /\ calcAnswer' = calcAnswer
  BY DEF ProviderEnds, AtProvider, NextTally
<1>2. calcAt \in Nat /\ calcAt >= 1 /\ calcAt <= Len(CalcProviders) /\ Len(CalcProviders) \in Nat
  BY <1>1, ProviderNumbers
<1>3. calcAnswer = "none"
  BY <1>1, <1>2 DEF CalcInv, CalcShape
<1>4. calcFailures' <= calcAt' - 1 /\ calcFailures' \in 0 .. Len(CalcProviders)
  <2>1. calcFailures \in 0 .. Len(CalcProviders) /\ calcFailures <= calcAt - 1
    BY DEF CalcInv, CalcShape, CalculationTypeOK
  <2>2. calcFailures' \in {calcFailures, calcFailures + 1}
    BY <2>1 DEF ProviderEnds
  <2> QED
    BY <1>1, <1>2, <2>1, <2>2
<1>5. IsFiniteSet({}) /\ Cardinality({}) = 0
  BY FS_EmptySet
<1>6. CalculationTypeOK'
  <2>1. calcTally'.failed = 0 /\ DOMAIN calcTally'.prices = {}
    BY <1>1 DEF NoTally
  <2>2. calcTally'.failed \in 0 .. Cardinality(calcDone')
    BY <1>1, <1>5, <2>1
  <2> QED
    BY <1>1, <1>2, <1>4, <2>1, <2>2 DEF CalcInv, CalculationTypeOK
<1>7. CalcShape'
  BY <1>1, <1>3, <1>4, <1>5 DEF CalcInv, CalcShape
<1>8. TallyIsOwn'
  BY <1>1, EmptyPrices DEF TallyIsOwn, NoTally, PricesSoFar
<1>9. OutcomesExplained'
  <2>1. ASSUME NEW i \in DOMAIN CalcProviders, NEW d \in AnsweredOf(i)', i <= calcAt'
        PROVE  i <= calcAt /\ d \in AnsweredOf(i)
    <3>1. i # calcAt'
      BY <1>1, <2>1 DEF AnsweredOf
    <3>2. i <= calcAt
      BY <1>1, <1>2, <2>1, <3>1, ProviderNumbers
    <3> QED
      BY <1>1, <2>1, <3>1, <3>2 DEF AnsweredOf
  <2> QED
    BY <1>1, <2>1 DEF CalcInv, OutcomesExplained
<1>10. ResultsOfAsked'
  <2>1. calcTally.prices = PricesOf(p)
    BY <1>1 DEF CalcInv, TallyIsOwn, PricesSoFar, PricesOf, PricedFor
  <2>2. DOMAIN PricesOf(p) = PricedFor(p)
    BY DEF PricesOf
  <2>3. calcResults' = calcResults \cup (IF PricedFor(p) = {} THEN {} ELSE {ResultOf(calcAt)})
    BY <2>1, <2>2 DEF ProviderEnds, ResultOf
  <2>4. \A i \in DOMAIN CalcProviders : i < calcAt' <=> i < calcAt \/ i = calcAt
    BY <1>1, <1>2, ProviderNumbers
  <2>5. \A i \in DOMAIN CalcProviders :
          /\ ResultOf(i)' = ResultOf(i)
          /\ PricedFor(CalcProviders[i])' = PricedFor(CalcProviders[i])
    BY <1>1 DEF ResultOf, PricesOf, PricedFor
  <2> QED
    BY <1>1, <2>3, <2>4, <2>5 DEF CalcInv, ResultsOfAsked
<1> QED
  BY <1>6, <1>7, <1>8, <1>9, <1>10 DEF CalcInv

LEMMA ReplyKeeps ==
  ASSUME CalcInv, CalcReply
  PROVE  CalcInv'
<1>1. /\ calcAsk # NoAsk /\ calcAt > Len(CalcProviders) /\ calcAnswer' \in {"ok", "provider_unavailable"}
      /\ UNCHANGED <<calcAsk, calcAt, calcDone, calcTally, calcFailures, calcResults, calcWarnings,
                      calcOutcomes>>
  BY DEF CalcReply
<1>2. calcAt = Len(CalcProviders) + 1
  BY <1>1, ProviderNumbers DEF CalcInv, CalculationTypeOK
<1>3. CalculationTypeOK' /\ CalcShape'
  BY <1>1, <1>2 DEF CalcInv, CalculationTypeOK, CalcShape
<1>4. TallyIsOwn' /\ OutcomesExplained' /\ ResultsOfAsked'
  BY <1>1 DEF CalcInv, TallyIsOwn, PricesSoFar, OutcomesExplained, AnsweredOf, ResultsOfAsked,
              ResultOf, PricesOf, PricedFor
<1> QED
  BY <1>3, <1>4 DEF CalcInv

LEMMA CalcInvariant == CalculationSpec => []CalcInv
<1>1. CalcInv /\ [CalculationNext]_calcVars => CalcInv'
  <2> SUFFICES ASSUME CalcInv, [CalculationNext]_calcVars PROVE CalcInv'
    OBVIOUS
  <2>1. ASSUME NEW r \in CalcRequests, CalcStart(r) PROVE CalcInv'
    BY <2>1, CalcStartKeeps
  <2>2. ASSUME AtProvider, calcDone # calcAsk.categories,
               NEW o, AskCategory(CalcProviders[calcAt], Due(calcAsk.categories \ calcDone), o)
        PROVE  CalcInv'
    <3>1. /\ calcAsk.categories \ calcDone \in SUBSET CalcCategories
          /\ calcAsk.categories \ calcDone # {}
      BY <2>2 DEF CalcInv, CalculationTypeOK
    <3>2. Due(calcAsk.categories \ calcDone) \in calcAsk.categories \ calcDone
      BY <3>1, DueIsOneOf
    <3> QED
      BY <2>2, <3>2, AskKeeps
  <2>3. CASE UNCHANGED calcVars
    BY <2>3 DEF calcVars, CalcInv, CalculationTypeOK, CalcShape, TallyIsOwn, PricesSoFar,
                OutcomesExplained, AnsweredOf, ResultsOfAsked, ResultOf, PricesOf, PricedFor
  <2> QED
    BY <2>1, <2>2, <2>3, EndKeeps, ReplyKeeps DEF CalculationNext
<1> QED
  BY <1>1, CalcInitial, PTL DEF CalculationSpec

-----------------------------------------------------------------------------
\* The calculation keeps its types.
THEOREM CalculationTypesCorrect == CalculationSpec => []CalculationTypeOK
<1>1. CalcInv => CalculationTypeOK
  BY DEF CalcInv
<1> QED
  BY <1>1, CalcInvariant, PTL

\* For any providers, requests and answers of theirs: in an answer, a provider's
\* total stands in the complete field only if every requested category is in it,
\* it is the sum of that provider's own prices, and what is missing is explained
\* (calculate.go:183-360, compare.go:41-140).
THEOREM TotalsAreHonest == CalculationSpec => []HonestTotals
<1>1. CalcInv => HonestTotals
  <2> SUFFICES ASSUME CalcInv, calcAnswer = "ok", NEW i \in DOMAIN CalcProviders
               PROVE  LET p == CalcProviders[i]
                          mine == {r \in calcResults : r.provider = p}
                      IN  /\ Cardinality(mine) = (IF PricedFor(p) = {} THEN 0 ELSE 1)
                          /\ \A r \in mine :
                               /\ r.categories = PricedFor(p)
                               /\ r.field = "total" <=> PricedFor(p) = calcAsk.categories
                               /\ r.sum = Total(PricesOf(p))
                          /\ \A c \in calcAsk.categories \ PricedFor(p) :
                               <<p, Explained[calcOutcomes[<<p, c>>][1]]>> \in calcWarnings
                          /\ calcAsk.loop # "rest" =>
                               \A c \in PricedFor(p) : \A w \in ResultWarnings[calcOutcomes[<<p, c>>][1]] :
                                 <<p, w>> \in calcWarnings
    BY DEF HonestTotals
  <2> DEFINE p == CalcProviders[i]
             mine == {r \in calcResults : r.provider = p}
  <2>1. calcAt = Len(CalcProviders) + 1
    BY DEF CalcInv, CalcShape
  <2>2. \A j \in DOMAIN CalcProviders : j < calcAt /\ j <= calcAt /\ j # calcAt
    BY <2>1, ProviderNumbers
  <2>3. \A j \in DOMAIN CalcProviders : /\ ResultOf(j).provider = CalcProviders[j]
                                       /\ DOMAIN PricesOf(CalcProviders[j]) = PricedFor(CalcProviders[j])
    BY DEF ResultOf, ProviderResult, PricesOf
  <2>4. mine = IF PricedFor(p) = {} THEN {} ELSE {ResultOf(i)}
    <3>1. calcResults = {ResultOf(j) : j \in {j \in DOMAIN CalcProviders :
                                        j < calcAt /\ PricedFor(CalcProviders[j]) # {}}}
      BY DEF CalcInv, ResultsOfAsked
    <3>2. ASSUME NEW j \in DOMAIN CalcProviders, ResultOf(j).provider = p PROVE j = i
      BY <2>3, <3>2, CalculationAssumption
    <3>3. \A r \in mine : r = ResultOf(i) /\ PricedFor(p) # {}
      BY <3>1, <3>2
    <3>4. PricedFor(p) # {} => ResultOf(i) \in mine
      BY <2>2, <2>3, <3>1
    <3> QED
      BY <3>3, <3>4
  <2>5. Cardinality(mine) = (IF PricedFor(p) = {} THEN 0 ELSE 1)
    BY <2>4, FS_EmptySet, FS_Singleton, Zenon
  <2>6. ASSUME NEW r \in mine
        PROVE  /\ r.categories = PricedFor(p)
               /\ r.field = "total" <=> PricedFor(p) = calcAsk.categories
               /\ r.sum = Total(PricesOf(p))
    BY <2>3, <2>4 DEF ResultOf, ProviderResult
  <2>7. \A c \in calcAsk.categories :
          /\ ~IsPrice(calcOutcomes[<<p, c>>])
               => <<p, Explained[calcOutcomes[<<p, c>>][1]]>> \in calcWarnings
          /\ IsPrice(calcOutcomes[<<p, c>>]) /\ calcAsk.loop # "rest" =>
               \A w \in ResultWarnings[calcOutcomes[<<p, c>>][1]] : <<p, w>> \in calcWarnings
    BY <2>2 DEF CalcInv, OutcomesExplained, AnsweredOf
  <2> QED
    BY <2>5, <2>6, <2>7 DEF PricedFor
<1> QED
  BY <1>1, CalcInvariant, PTL

-----------------------------------------------------------------------------
(* The offer that is called exact.                                          *)

\* A request that was made: a read's rows, and a target of its category.
ProperAsk(ask) ==
  /\ <<ask.provider, ask.category>> \in DOMAIN MatchLists
  /\ ask.category \in MatchCategories
  /\ ask.list \in MatchLists[<<ask.provider, ask.category>>]
  /\ ask.target \in MatchTargets[ask.category]

MatchInv ==
  \/ matchAsk = NothingAsked /\ matchAnswer = [outcome |-> "none"]
  \/ ProperAsk(matchAsk) /\ matchAnswer \in Answers(matchAsk)

\* Only what was asked for is at distance 0.
LEMMA OffIsExact ==
  ASSUME NEW c \in Nat, NEW t \in Nat
  PROVE  Off(c, t) \in Nat /\ (Off(c, t) = 0 => t \in {0, c})
<1> DEFINE n == 100 * Span(c, t) + t - 1
<1>1. Span(c, t) \in Nat /\ (Span(c, t) = 0 <=> c = t)
  BY DEF Span
<1>2. CASE t = 0
  BY <1>2 DEF Off
<1>3. CASE t # 0
  <2>1. n \in Nat /\ (c # t => n >= t)
    BY <1>1, <1>3
  <2>2. Off(c, t) = n \div t
    BY <1>3 DEF Off
  <2> HIDE DEF n
  <2>3. n \div t \in Nat
    BY <1>3, <2>1
  <2>4. n \div t = 0 => n < t
    BY <1>3, <2>1
  <2> QED
    BY <2>1, <2>2, <2>3, <2>4
<1> QED
  BY <1>2, <1>3

\* The first rule that applies decides; the last one always does.
LEMMA QualityRule ==
  ASSUME NEW category, NEW distance
  PROVE  /\ Quality(category, distance) \in {"exact", "close", "approximate", "none"}
         /\ Quality(category, distance) = "exact" => distance = 0
<1> DEFINE rules == << <<distance = 0, "exact">>, <<distance <= CloseCutoff(category), "close">>,
                       <<distance <= ApproximateCutoff(category), "approximate">>, <<TRUE, "none">> >>
           S == {i \in DOMAIN rules : rules[i][1]}
<1>1. /\ DOMAIN rules = 1 .. 4 /\ rules[4][1] = TRUE /\ rules[1][1] = (distance = 0)
      /\ rules[1][2] = "exact" /\ rules[2][2] = "close" /\ rules[3][2] = "approximate" /\ rules[4][2] = "none"
  OBVIOUS
<1>2. Quality(category, distance) = rules[Min(S)][2]
  BY DEF Quality, Decide
<1> HIDE DEF rules
<1>3. S \in SUBSET Nat /\ 4 \in S
  BY <1>1
<1>4. Min(S) \in S
  BY <1>3, MinIsLeast
<1>5. Min(S) \in 1 .. 4 /\ rules[Min(S)][1]
  BY <1>1, <1>4
<1>6. CASE Min(S) = 1
  BY <1>1, <1>2, <1>5, <1>6
<1>7. CASE Min(S) \in {2, 3, 4}
  BY <1>1, <1>2, <1>7
<1> QED
  BY <1>5, <1>6, <1>7

LEMMA CandidateFields ==
  ASSUME NEW sku, NEW row, NEW distance, NEW missing, NEW price
  PROVE  /\ Candidate(sku, row, distance, missing, price).row = row
         /\ Candidate(sku, row, distance, missing, price).distance = distance
         /\ Candidate(sku, row, distance, missing, price).missing = missing
BY DEF Candidate

LEMMA ComputeExact ==
  ASSUME NEW ask, ProperAsk(ask), ask.category = "compute",
         NEW c \in ComputeCandidates(ask.list, ask.target)
  PROVE  c.distance \in Nat /\ (c.distance = 0 => Agrees(ask, c.row))
<1> DEFINE t == ask.target
<1>1. PICK r \in Rows(ask.list) :
        /\ c = Candidate(r.sku, r, Off(r.vcpu, t.vcpu) + Off(r.ram, t.ram), {}, r.price)
        /\ t.strict /\ t.family # "" => r.family = t.family
  BY DEF ComputeCandidates
<1>2. {t.vcpu, t.ram} \subseteq Nat /\ {r.vcpu, r.ram} \subseteq Nat
  <2>1. t \in TargetFields["compute"]
    BY MatchAssumption DEF ProperAsk
  <2>2. <<ask.provider, "compute">>[2] \in Sized
    BY DEF Sized
  <2>3. \A i \in DOMAIN ask.list : {ask.list[i].vcpu, ask.list[i].ram} \subseteq Nat
    BY <2>2, RowAssumption DEF ProperAsk
  <2> QED
    BY <2>1, <2>3 DEF TargetFields, Rows
<1>3. c.row = r /\ c.distance = Off(r.vcpu, t.vcpu) + Off(r.ram, t.ram)
  BY <1>1 DEF Candidate
<1>4. Off(r.vcpu, t.vcpu) \in Nat /\ Off(r.ram, t.ram) \in Nat
  BY <1>2, OffIsExact
<1>5. /\ c.distance \in Nat
      /\ c.distance = 0 => Off(r.vcpu, t.vcpu) = 0 /\ Off(r.ram, t.ram) = 0
  BY <1>3, <1>4
<1>6. c.distance = 0 => t.vcpu \in {0, r.vcpu} /\ t.ram \in {0, r.ram}
  BY <1>2, <1>5, OffIsExact
<1> QED
  BY <1>1, <1>3, <1>5, <1>6 DEF Agrees

LEMMA SpanIsExact ==
  ASSUME NEW a \in Nat, NEW b \in Nat
  PROVE  Span(a, b) \in Nat /\ (50 * Span(a, b) = 0 => a = b)
BY DEF Span

LEMMA OrdinalRow ==
  ASSUME NEW r, NEW ordinal, NEW wanted, NEW attribute
  PROVE  ByOrdinal(r, ordinal, wanted, attribute).row = r
<1> DEFINE distance == IF {wanted, r.class} \subseteq DOMAIN ordinal
                         THEN 50 * Span(ordinal[r.class], ordinal[wanted]) ELSE 0
           missing == IF wanted # "" /\ r.class \notin DOMAIN ordinal THEN {attribute} ELSE {}
<1>1. ByOrdinal(r, ordinal, wanted, attribute) = Candidate(r.sku, r, distance, missing, r.price)
  BY DEF ByOrdinal
<1> HIDE DEF distance, missing
<1> QED
  BY <1>1, CandidateFields

LEMMA OrdinalDistance ==
  ASSUME NEW r, NEW wanted, NEW attribute, NEW ordinal, \A a \in DOMAIN ordinal : ordinal[a] \in Nat
  PROVE  ByOrdinal(r, ordinal, wanted, attribute).distance \in Nat
<1> DEFINE steps == Span(ordinal[r.class], ordinal[wanted])
           distance == IF {wanted, r.class} \subseteq DOMAIN ordinal THEN 50 * steps ELSE 0
<1>1. ByOrdinal(r, ordinal, wanted, attribute).distance = distance
  BY DEF ByOrdinal, Candidate
<1>2. {wanted, r.class} \subseteq DOMAIN ordinal => steps \in Nat
  BY SpanIsExact
<1> HIDE DEF steps
<1> QED
  BY <1>1, <1>2

LEMMA OrdinalExact ==
  ASSUME NEW r, NEW wanted, NEW attribute,
         NEW ordinal, \A a, b \in DOMAIN ordinal : ordinal[a] \in Nat /\ (ordinal[a] = ordinal[b] => a = b),
         ByOrdinal(r, ordinal, wanted, attribute).distance = 0,
         ByOrdinal(r, ordinal, wanted, attribute).missing = {}
  PROVE  wanted \in {"", r.class} \/ wanted \notin DOMAIN ordinal
<1> SUFFICES ASSUME wanted # "", wanted \in DOMAIN ordinal PROVE wanted = r.class
  OBVIOUS
<1>1. r.class \in DOMAIN ordinal
  BY DEF ByOrdinal, Candidate
<1>2. 50 * Span(ordinal[r.class], ordinal[wanted]) = 0
  BY <1>1 DEF ByOrdinal, Candidate
<1>3. ordinal[r.class] \in Nat /\ ordinal[wanted] \in Nat
  BY <1>1
<1>5. ordinal[r.class] = ordinal[wanted]
  BY <1>2, <1>3, SpanIsExact
<1> QED
  BY <1>1, <1>5

LEMMA StorageExact ==
  ASSUME NEW ask, ask.category = "storage", NEW c \in StorageCandidates(ask.list, ask.target)
  PROVE  /\ c.distance \in Nat
         /\ c.distance = 0 /\ c.missing = {} => Agrees(ask, c.row)
<1> DEFINE list == ask.list
           t == ask.target
<1>1. PICK r \in Rows(list) : c = ByOrdinal(r, StorageOrdinal, t.class, "storage_class")
  BY DEF StorageCandidates
<1>2. \A a, b \in DOMAIN StorageOrdinal :
        StorageOrdinal[a] \in Nat /\ (StorageOrdinal[a] = StorageOrdinal[b] => a = b)
  BY DEF StorageOrdinal
<1>3. c.row = r
  BY <1>1, CandidateFields, OrdinalRow
<1>4. c.distance \in Nat
  BY <1>1, <1>2, OrdinalDistance
<1> QED
  BY <1>1, <1>2, <1>3, <1>4, OrdinalExact DEF Agrees

LEMMA NetworkExact ==
  ASSUME NEW ask, ask.category = "network", NEW c \in NetworkCandidates(ask.list, ask.target)
  PROVE  /\ c.distance \in Nat
         /\ c.distance = 0 /\ c.missing = {} => Agrees(ask, c.row)
<1> DEFINE list == ask.list
           t == ask.target
<1>1. PICK r \in Rows(list) :
        /\ {r.class, t.class} \cap Isolated # {} => r.class = t.class
        /\ c = IF r.class \in Isolated THEN Candidate(r.sku, r, 0, {}, r.price)
                                       ELSE ByOrdinal(r, TransferOrdinal, t.class, "transfer_type")
  BY DEF NetworkCandidates
<1>2. \A a, b \in DOMAIN TransferOrdinal :
        TransferOrdinal[a] \in Nat /\ (TransferOrdinal[a] = TransferOrdinal[b] => a = b)
  BY DEF TransferOrdinal
<1>3. c.row = r
  BY <1>1, CandidateFields, OrdinalRow
<1>4. CASE r.class \in Isolated
  <2>1. c.distance \in Nat
    BY <1>1, <1>4, CandidateFields
  <2>2. Agrees(ask, c.row)
    BY <1>1, <1>3, <1>4 DEF Agrees
  <2> QED
    BY <2>1, <2>2
<1>5. CASE r.class \notin Isolated
  <2>1. c.distance \in Nat
    BY <1>1, <1>2, <1>5, OrdinalDistance
  <2> QED
    BY <1>1, <1>2, <1>3, <1>5, <2>1, OrdinalExact DEF Agrees
<1> QED
  BY <1>4, <1>5

LEMMA KubernetesExact ==
  ASSUME NEW ask, ask.category = "kubernetes", NEW c \in KubernetesCandidates(ask.list, ask.target)
  PROVE  c.distance \in {0, 20} /\ (c.distance = 0 => Agrees(ask, c.row))
BY DEF KubernetesCandidates, Candidate, Agrees

\* A composite offer at distance 0 is of the billing mode and of a model that was asked for.
LEMMA OfferExact ==
  ASSUME NEW sku, NEW onDemand, NEW u, NEW throughput, NEW storage, NEW c,
         c = NoSQLOffer(sku, onDemand, u, throughput, storage)
  PROVE  /\ c.distance \in Nat
         /\ c.distance = 0 => /\ u.mode # "" => OnDemand(u.mode) = c.row.onDemand
                              /\ u.model \in {"", "document", "key_value", "multi_model"}
<1> DEFINE alike == u.model \in {"", "document", "key_value", "multi_model"}
           agree == u.mode = "" \/ OnDemand(u.mode) = onDemand
           model == IF alike THEN 0 ELSE 40
           distance == model + (IF agree THEN 0 ELSE 30)
           row == [onDemand |-> onDemand]
           price == throughput + GBMonth * u.storage * PriceIn(storage)
<1>1. c = Candidate(sku, row, distance, {}, price)
  BY Zenon DEF NoSQLOffer
<1>2. distance \in Nat /\ (distance = 0 => agree /\ alike)
  <2> HIDE DEF agree, alike
  <2>1. (alike /\ model = 0) \/ (~alike /\ model = 40)
    BY Zenon
  <2>2. model \in {0, 40} /\ (model = 0 => alike)
    BY <2>1
  <2> HIDE DEF model
  <2> QED
    BY <2>2
<1>3. row.onDemand = onDemand
  OBVIOUS
<1> HIDE DEF row, distance, price, agree, alike
<1>4. c.distance = distance /\ c.row = row
  BY <1>1, CandidateFields
<1> QED
  BY <1>2, <1>3, <1>4, Zenon DEF agree, alike

LEMMA NoSQLExact ==
  ASSUME NEW ask, ask.category = "database_nosql", ask.provider \in {"aws", "azure", "gcp"},
         NEW c \in NoSQLCandidates(ask.provider, ask.list, ask.target)
  PROVE  c.distance \in Nat /\ (c.distance = 0 => Agrees(ask, c.row))
<1> DEFINE provider == ask.provider
           list == ask.list
           t == ask.target
           u == WithBaseline(t)
<1>1. u.mode = t.mode /\ u.model = t.model
  BY DEF WithBaseline
<1>2. \E sku, onDemand, throughput, storage : c = NoSQLOffer(sku, onDemand, u, throughput, storage)
  <2>1. CASE provider = "aws"
    <3> DEFINE Part(part, Test(_)) == LastSuch(list, LAMBDA r : r.part = part /\ Test(r))
               rcu == Part("throughput", LAMBDA r : r.reads)
               wcu == Part("throughput", LAMBDA r : r.writes)
               rru == Part("request_operations", LAMBDA r : r.reads)
               wru == Part("request_operations", LAMBDA r : r.writes)
               stored == StorageRow(list, u, "infrequent_access")
               writes == IF u.writes = 0 THEN 0 ELSE Max({u.writes, 10})
               hourly == NoSQLHour * (10 * ((u.reads + 39) \div 40) * PriceIn(rcu) + writes * PriceIn(wcu))
               paid == PerMillion * (u.reads * PriceIn(rru) + u.writes * PriceIn(wru))
               some == rcu \cup wcu \cup StorageRow(list, [u EXCEPT !.class = ""], "infrequent_access")
               any == rru \cup wru
    <3>1. AwsNoSQL(list, u) = When(some # {}, NoSQLOffer(2, FALSE, u, hourly, stored))
                                \cup When(any # {}, NoSQLOffer(1, TRUE, u, paid, stored))
      BY DEF AwsNoSQL
    <3>2. c \in AwsNoSQL(list, u)
      BY <2>1 DEF NoSQLCandidates
    <3> HIDE DEF stored, hourly, paid, some, any
    <3>3. c \in {NoSQLOffer(2, FALSE, u, hourly, stored), NoSQLOffer(1, TRUE, u, paid, stored)}
      BY <3>1, <3>2 DEF When
    <3> QED
      BY <3>3
  <2>2. CASE provider = "azure"
    <3> DEFINE provisioned == LastSuch(list, LAMBDA r : r.part = "throughput")
               serverless == LastSuch(list, LAMBDA r : r.part = "request_operations")
               stored == StorageRow(list, u, "analytical")
               units == u.reads + 5 * u.writes
               hundreds == IF units \in 1 .. 9 THEN 1000 ELSE units
               hourly == (NoSQLHour \div 100) * hundreds * PriceIn(provisioned)
               paid == PerMillion * units * PriceIn(serverless)
               some == provisioned \cup StorageRow(list, [u EXCEPT !.class = ""], "analytical")
    <3>1. AzureNoSQL(list, u) = When(some # {}, NoSQLOffer(1, FALSE, u, hourly, stored))
                                  \cup When(serverless # {}, NoSQLOffer(2, TRUE, u, paid, stored))
      BY DEF AzureNoSQL
    <3>2. c \in AzureNoSQL(list, u)
      BY <2>2 DEF NoSQLCandidates
    <3> HIDE DEF stored, hourly, paid, some, serverless
    <3>3. c \in {NoSQLOffer(1, FALSE, u, hourly, stored), NoSQLOffer(2, TRUE, u, paid, stored)}
      BY <3>1, <3>2 DEF When
    <3> QED
      BY <3>3
  <2>3. CASE provider = "gcp"
    BY <2>3, Zenon DEF NoSQLCandidates, GcpNoSQL
  <2> QED
    BY <2>1, <2>2, <2>3
<1> HIDE DEF u
<1>3. /\ c.distance \in Nat
      /\ c.distance = 0 => /\ u.mode # "" => OnDemand(u.mode) = c.row.onDemand
                           /\ u.model \in {"", "document", "key_value", "multi_model"}
  BY <1>2, OfferExact, Zenon
<1> QED
  BY <1>1, <1>3 DEF Agrees

LEMMA ServerlessExact ==
  ASSUME NEW ask, ask.category = "serverless", ask.provider \in {"aws", "azure", "gcp"}, NEW list,
         NEW c \in ServerlessCandidates(ask.provider, list, WithWorkload(ask.target))
  PROVE  c.distance \in {0, 20} /\ (c.distance = 0 => Agrees(ask, c.row))
<1> DEFINE provider == ask.provider
           t == ask.target
           u == WithWorkload(t)
<1>1. u.tier = ConsumptionUnlessSaid(t.tier)
  BY DEF WithWorkload
<1>2. PICK sku, tier, rows : c = ServerlessOffer(sku, provider, tier, rows, u)
  BY DEF ServerlessCandidates, When
<1>3. /\ c.row.tier = tier /\ c.distance \in {0, 20}
      /\ c.distance = 0 => tier = u.tier
  BY <1>2 DEF ServerlessOffer, Candidate
<1> QED
  BY <1>1, <1>3 DEF Agrees

LEMMA RowScoreBound ==
  ASSUME NEW r, NEW instance, NEW t, NEW usual
  PROVE  RowScore(r, instance, t, usual) \in 0 .. 30
<1> DEFINE ha == IF r.ha = instance.ha THEN 10 ELSE 0
           family == IF t.family # "" /\ r.family = t.family THEN 20
                     ELSE IF r.family \in usual THEN 5
                     ELSE 0
<1>1. RowScore(r, instance, t, usual) = ha + family
  BY DEF RowScore
<1>2. ha \in {0, 10}
  OBVIOUS
<1>3. family \in {0, 5, 20}
  OBVIOUS
<1> HIDE DEF ha, family
<1>4. ha + family \in 0 .. 30
  BY <1>2, <1>3
<1> QED
  BY <1>1, <1>4

\* A join takes at most one row, and one of the list.
LEMMA JoinedIsRow ==
  ASSUME NEW list, list \in Seq(Rows(list)),
         NEW part, NEW instance, NEW t, NEW usual
  PROVE  \/ JoinedRow(list, part, instance, t, usual) = {}
         \/ \E i \in DOMAIN list : JoinedRow(list, part, instance, t, usual) = {list[i]}
<1> DEFINE score(i) == RowScore(list[i], instance, t, usual)
           fits == {i \in DOMAIN list : /\ list[i].part = part
                                        /\ list[i].region = instance.region
                                        /\ list[i].engine \in {"", "any", instance.engine}}
           best == {i \in fits : \A j \in fits : score(j) <= score(i)}
           T == {30 - score(i) : i \in fits}
<1>1. JoinedRow(list, part, instance, t, usual) = IF fits = {} THEN {} ELSE {list[Min(best)]}
  BY DEF JoinedRow
<1>2. \A i \in DOMAIN list : score(i) \in 0 .. 30
  BY RowScoreBound
<1>3. fits \subseteq DOMAIN list
  OBVIOUS
<1>4. DOMAIN list \subseteq Nat
  <2>1. DOMAIN list = 1 .. Len(list) /\ Len(list) \in Nat
    OBVIOUS
  <2> QED
    BY <2>1
<1> HIDE DEF score, fits
<1>5. SUFFICES ASSUME fits # {} PROVE Min(best) \in DOMAIN list
  BY <1>1
<1>6. \A i \in fits : score(i) \in 0 .. 30
  BY <1>2, <1>3, Zenon
<1>7. T \in SUBSET Nat /\ T # {} /\ \A i \in fits : 30 - score(i) \in T
  <2>1. \A n \in 0 .. 30 : 30 - n \in Nat
    OBVIOUS
  <2>2. \A i \in fits : 30 - score(i) \in Nat
    BY <1>6, <2>1, Zenon
  <2> QED
    BY <1>5, <2>2, Zenon
<1>8. Min(T) \in T /\ \A y \in T : Min(T) <= y
  BY <1>7, MinIsLeast
<1>9. PICK i \in fits : Min(T) = 30 - score(i)
  BY <1>8
<1>10. ASSUME NEW j \in fits PROVE score(j) <= score(i)
  <2>1. \A a, b \in 0 .. 30 : 30 - a <= 30 - b => b <= a
    OBVIOUS
  <2>2. 30 - score(i) <= 30 - score(j)
    <3>1. 30 - score(j) \in T
      BY <1>7, Zenon
    <3>2. Min(T) <= 30 - score(j)
      BY <1>8, <3>1, Zenon
    <3> QED
      BY <1>9, <3>2, Zenon
  <2>3. score(i) \in 0 .. 30 /\ score(j) \in 0 .. 30
    BY <1>6, Zenon
  <2> QED
    BY <2>1, <2>2, <2>3, Zenon
<1>11. i \in best
  BY <1>10
<1>12. best \in SUBSET Nat /\ best \subseteq DOMAIN list
  BY <1>3, <1>4
<1> HIDE DEF best
<1> QED
  BY <1>11, <1>12, MinIsLeast

LEMMA FirstPositiveType ==
  ASSUME NEW numbers \in Seq(Nat)
  PROVE  FirstPositive(numbers) \in Nat
<1> DEFINE positive == {i \in DOMAIN numbers : numbers[i] > 0}
<1>1. positive \in SUBSET Nat /\ positive \subseteq DOMAIN numbers
  <2>1. DOMAIN numbers = 1 .. Len(numbers) /\ Len(numbers) \in Nat
    OBVIOUS
  <2> QED
    BY <2>1
<1>2. FirstPositive(numbers) = IF positive = {} THEN 0 ELSE numbers[Min(positive)]
  BY DEF FirstPositive
<1> HIDE DEF positive
<1>3. positive # {} => Min(positive) \in DOMAIN numbers
  BY <1>1, MinIsLeast
<1>4. \A i \in DOMAIN numbers : numbers[i] \in Nat
  OBVIOUS
<1> QED
  BY <1>2, <1>3, <1>4

\* Rows whose prices are whole numbers, of a read or of a part of one.
Priceable(list) == \E n \in Nat : /\ DOMAIN list \subseteq 1 .. n
                                  /\ \A i \in DOMAIN list : list[i].price \in Nat

LEMMA ReadIsPriceable ==
  ASSUME NEW ask, ProperAsk(ask)
  PROVE  /\ ask.list \in Seq(Rows(ask.list)) /\ Priceable(ask.list)
         /\ \A S \in SUBSET DOMAIN ask.list : Priceable(Restrict(ask.list, S))
<1> DEFINE list == ask.list
<1>1. list \in Seq(Rows(list)) /\ \A i \in DOMAIN list : list[i].price \in Nat
  BY MatchAssumption, RowAssumption DEF ProperAsk, Rows
<1>2. DOMAIN list = 1 .. Len(list) /\ Len(list) \in Nat
  BY <1>1
<1>3. ASSUME NEW S \in SUBSET DOMAIN list
      PROVE  Priceable(Restrict(list, S))
  <2>1. DOMAIN Restrict(list, S) = S /\ \A i \in S : Restrict(list, S)[i] = list[i]
    BY DEF Restrict
  <2> QED
    BY <1>1, <1>2, <2>1 DEF Priceable
<1> QED
  BY <1>1, <1>2, <1>3 DEF Priceable

\* The rows of a read of relational databases.
LEMMA DatabaseRows ==
  ASSUME NEW ask, ProperAsk(ask), ask.category = "database_rdbms"
  PROVE  \A i \in DOMAIN ask.list : LET r == ask.list[i] IN r.vcpu \in Nat /\ r.ram \in Nat /\ r.iops \in Nat
<1>1. <<ask.provider, "database_rdbms">>[2] = "database_rdbms" /\ "database_rdbms" \in Sized
  BY DEF Sized
<1> QED
  BY <1>1, RowAssumption DEF ProperAsk

LEMMA IopsType ==
  ASSUME NEW ask, ProperAsk(ask), ask.category = "database_rdbms", NEW r \in Rows(ask.list), NEW t
  PROVE  IopsOf(r, JoinedStorage(ask.list, r, t)) \in Nat
<1> DEFINE list == ask.list
           storage == JoinedStorage(list, r, t)
<1>1. list \in Seq(Rows(list)) /\ r.iops \in Nat /\ \A i \in DOMAIN list : list[i].iops \in Nat
  BY ReadIsPriceable, DatabaseRows DEF Rows
<1>2. CASE storage = {}
  <2>1. <<r.iops>> \o << >> \in Seq(Nat)
    BY <1>1
  <2> QED
    BY <1>2, <2>1, FirstPositiveType DEF IopsOf
<1>3. ASSUME NEW i \in DOMAIN list, storage = {list[i]} PROVE IopsOf(r, storage) \in Nat
  <2>1. (CHOOSE s \in storage : TRUE) = list[i]
    BY <1>3
  <2>2. <<r.iops>> \o <<list[i].iops>> \in Seq(Nat)
    BY <1>1
  <2> QED
    BY <1>3, <2>1, <2>2, FirstPositiveType DEF IopsOf
<1> QED
  BY <1>1, <1>2, <1>3, JoinedIsRow DEF JoinedStorage

LEMMA RdbmsExact ==
  ASSUME NEW ask, ProperAsk(ask), ask.category = "database_rdbms",
         NEW c \in RdbmsCandidates(ask.list, ask.target)
  PROVE  c.distance \in Nat /\ (c.distance = 0 /\ c.missing = {} => Agrees(ask, c.row))
<1> DEFINE t == ask.target
           list == ask.list
<1>1. PICK r \in RdbmsInstances(list) : c = RdbmsCandidate(list, r, t) /\ ~OfOtherEngine(r, t)
  BY DEF RdbmsCandidates
<1>2. t.iops \in Nat /\ t.vcpu \in Nat /\ t.ram \in Nat
  <2>1. t \in TargetFields["database_rdbms"]
    BY MatchAssumption DEF ProperAsk
  <2> QED
    BY <2>1 DEF TargetFields
<1>3. r \in Rows(list) /\ r.vcpu \in Nat /\ r.ram \in Nat
  BY DatabaseRows DEF RdbmsInstances, Rows
<1> DEFINE storage == JoinedStorage(list, r, t)
           iops == IopsOf(r, storage)
<1>4. iops \in Nat
  BY <1>3, IopsType
<1> DEFINE cpu == Off(r.vcpu, t.vcpu)
           ram == Off(r.ram, t.ram)
           rate == IF t.iops > 0 /\ iops > 0 THEN (Off(iops, t.iops) + 1) \div 2 ELSE 0
           ha == IF r.ha = t.ha THEN 0 ELSE 50
           missing == IF t.iops > 0 /\ iops = 0 THEN {"iops"} ELSE {}
           price == RdbmsPrice(list, r, t)
<1>5. c = Candidate(r.sku, r, cpu + ram + rate + ha, missing, price)
  BY <1>1 DEF RdbmsCandidate
<1>6. rate \in Nat /\ (rate = 0 /\ missing = {} => t.iops \in {0, iops})
  <2>1. Off(iops, t.iops) \in Nat /\ (Off(iops, t.iops) = 0 => t.iops \in {0, iops})
    BY <1>2, <1>4, OffIsExact
  <2>2. \A n \in Nat : (n + 1) \div 2 \in Nat /\ ((n + 1) \div 2 = 0 => n = 0)
    OBVIOUS
  <2> HIDE DEF iops, t
  <2> QED
    BY <1>2, <1>4, <2>1, <2>2
<1>7. cpu \in Nat /\ ram \in Nat
  BY <1>2, <1>3, OffIsExact
<1>8. ha \in {0, 50}
  OBVIOUS
<1>9. (cpu = 0 => t.vcpu \in {0, r.vcpu}) /\ (ram = 0 => t.ram \in {0, r.ram})
  BY <1>2, <1>3, OffIsExact
<1>10. ha = 0 => t.ha = r.ha
  OBVIOUS
<1> HIDE DEF cpu, ram, rate, ha, missing, price, t
<1>11. c.row = r /\ c.distance = cpu + ram + rate + ha /\ c.missing = missing
  BY <1>5, CandidateFields
<1>12. c.distance \in Nat /\ (c.distance = 0 => cpu = 0 /\ ram = 0 /\ ha = 0 /\ rate = 0)
  BY <1>6, <1>7, <1>8, <1>11
<1> QED
  BY <1>1, <1>6, <1>9, <1>10, <1>11, <1>12 DEF Agrees, t

\* Whatever the category, an offer has a distance, and one at distance 0 that
\* misses nothing agrees.
LEMMA ExactAgrees ==
  ASSUME NEW ask, ProperAsk(ask), NEW c \in Candidates(ask)
  PROVE  /\ c.distance \in Nat
         /\ c.distance = 0 /\ c.missing = {} => Agrees(ask, c.row)
<1>1. ask.provider \in {"aws", "azure", "gcp"} /\ ask.category \in MatchCategories
  BY MatchAssumption DEF ProperAsk
<1>2. CASE ask.category = "compute"
  BY <1>2, ComputeExact DEF Candidates
<1>3. CASE ask.category = "storage"
  BY <1>3, StorageExact DEF Candidates
<1>4. CASE ask.category = "network"
  BY <1>4, NetworkExact DEF Candidates
<1>5. CASE ask.category = "kubernetes"
  BY <1>5, KubernetesExact DEF Candidates
<1>6. CASE ask.category = "database_rdbms"
  BY <1>6, RdbmsExact DEF Candidates
<1>7. CASE ask.category = "database_nosql"
  BY <1>1, <1>7, NoSQLExact DEF Candidates
<1>8. CASE ask.category = "serverless"
  BY <1>1, <1>8, ServerlessExact DEF Candidates
<1> QED
  BY <1>1, <1>2, <1>3, <1>4, <1>5, <1>6, <1>7, <1>8 DEF MatchCategories

\* A price is that of a candidate.
LEMMA PricedIsCandidate ==
  ASSUME NEW ask, NEW answer \in Answers(ask), answer.outcome = "priced"
  PROVE  \E c \in Candidates(ask) : /\ answer.best = c
                                    /\ answer.quality = Quality(ask.category, c.distance)
                                    /\ answer.cost = Cost(ask, IF answer.fx \in {"fresh", "fallback"}
                                                                 THEN MatchRate * c.price ELSE c.price)
<1>1. NoMatch(ask) \in {"architecture_unsupported", "engine_mismatch", "no_match"}
  BY DEF NoMatch
<1>2. answer \in {Priced(ask, c, how) : c \in Nearest(Candidates(ask)), how \in MatchConversions(ask)}
  BY <1>1 DEF Answers
<1>3. PICK c \in Nearest(Candidates(ask)), how \in MatchConversions(ask) : answer = Priced(ask, c, how)
  BY <1>2
<1>4. c \in Candidates(ask)
  BY DEF Nearest
<1> QED
  BY <1>3, <1>4 DEF Priced

LEMMA MatchInvariant == MatchSpec => []MatchInv
<1>1. MatchInit => MatchInv
  BY DEF MatchInit, MatchInv
<1>2. MatchInv /\ [MatchNext]_matchVars => MatchInv'
  <2> SUFFICES ASSUME MatchInv, [MatchNext]_matchVars PROVE MatchInv'
    OBVIOUS
  <2>1. CASE Ask
    <3>1. PICK of \in DOMAIN MatchLists : \E list \in MatchLists[of], t \in MatchTargets[of[2]] :
            MatchAndCalculate([provider |-> of[1], category |-> of[2], list |-> list, target |-> t])
      BY <2>1 DEF Ask
    <3>2. of = <<of[1], of[2]>> /\ of[2] \in MatchCategories
      BY MatchAssumption
    <3>3. ProperAsk(matchAsk') /\ matchAnswer' \in Answers(matchAsk')
      BY <3>1, <3>2 DEF MatchAndCalculate, ProperAsk
    <3> QED
      BY <3>3 DEF MatchInv
  <2>2. CASE AskForMore
    <3>1. ProperAsk(matchAsk)
      BY <2>2 DEF AskForMore, MatchInv
    <3>2. PICK t \in MatchTargets[matchAsk.category] : MatchAndCalculate([matchAsk EXCEPT !.target = t])
      BY <2>2 DEF AskForMore
    <3>3. ProperAsk(matchAsk') /\ matchAnswer' \in Answers(matchAsk')
      BY <3>1, <3>2 DEF MatchAndCalculate, ProperAsk
    <3> QED
      BY <3>3 DEF MatchInv
  <2>3. CASE UNCHANGED matchVars
    BY <2>3 DEF matchVars, MatchInv
  <2> QED
    BY <2>1, <2>2, <2>3 DEF MatchNext
<1> QED
  BY <1>1, <1>2, PTL DEF MatchSpec

\* For any requests and lists of rows: a match called exact, with nothing
\* reported missing, agrees with the request in every dimension that adds to the
\* distance: size, IOPS, availability, engine, class on a scale, data model,
\* billing mode, and the serverless tier of AWS and Azure.  GCP's tier, which the
\* offer copies from the request, and what is not scored are outside
\* (match.go:44-181, database_match.go:34-85, database_nosql_match.go:36-112).
THEOREM ExactIsAsked == MatchSpec => []ExactMeansAsked
<1>1. MatchInv => ExactMeansAsked
  <2> SUFFICES ASSUME MatchInv, matchAnswer.outcome = "priced", matchAnswer.quality = "exact",
                      matchAnswer.best.missing = {}
               PROVE  Agrees(matchAsk, matchAnswer.best.row)
    BY DEF ExactMeansAsked
  <2>1. ProperAsk(matchAsk) /\ matchAnswer \in Answers(matchAsk)
    BY DEF MatchInv
  <2>2. PICK c \in Candidates(matchAsk) : /\ matchAnswer.best = c
                                         /\ matchAnswer.quality = Quality(matchAsk.category, c.distance)
    BY <2>1, PricedIsCandidate
  <2>3. c.distance = 0
    BY <2>2, QualityRule
  <2> QED
    BY <2>1, <2>2, <2>3, ExactAgrees
<1> QED
  BY <1>1, MatchInvariant, PTL

-----------------------------------------------------------------------------
(* More of the same offer.                                                  *)

\* Arithmetic of what is paid by volume.
LEMMA TimesGrows ==
  ASSUME NEW a \in Nat, NEW b \in Nat, NEW p \in Nat, a <= b
  PROVE  a * p \in Nat /\ b * p \in Nat /\ a * p <= b * p
<1>1. PICK k \in Nat : b = a + k
  <2>1. b - a \in Nat /\ b = a + (b - a)
    OBVIOUS
  <2> QED
    BY <2>1
<1>2. b * p = a * p + k * p
  BY <1>1
<1>3. a * p \in Nat /\ k * p \in Nat
  OBVIOUS
<1> QED
  BY <1>2, <1>3

LEMMA BothGrow ==
  ASSUME NEW a \in Nat, NEW b \in Nat, NEW p \in Nat, NEW q \in Nat, a <= b, p <= q
  PROVE  a * p \in Nat /\ b * q \in Nat /\ a * p <= b * q
<1>1. a * p \in Nat /\ b * p \in Nat /\ a * p <= b * p
  BY TimesGrows
<1>2. b * p = p * b /\ b * q = q * b
  OBVIOUS
<1>3. b * q \in Nat /\ b * p <= b * q
  BY <1>2, TimesGrows
<1> QED
  BY <1>1, <1>3

LEMMA QuotientGrows ==
  ASSUME NEW a \in Nat, NEW b \in Nat, NEW n \in Nat \ {0}, a <= b
  PROVE  a \div n \in Nat /\ b \div n \in Nat /\ a \div n <= b \div n
<1> DEFINE c == a \div n
           d == b \div n
<1>1. /\ c \in Nat /\ c * n <= a /\ a < (c + 1) * n
      /\ d \in Nat /\ d * n <= b /\ b < (d + 1) * n
  OBVIOUS
<1> HIDE DEF c, d
<1>2. ASSUME d < c PROVE FALSE
  <2>1. d + 1 <= c /\ d + 1 \in Nat
    BY <1>1, <1>2
  <2>2. (d + 1) * n <= c * n
    BY <1>1, <2>1, TimesGrows
  <2> QED
    BY <1>1, <2>2
<1>3. c <= d
  BY <1>1, <1>2
<1> QED
  BY <1>1, <1>3 DEF c, d

LEMMA MaxOfTwo ==
  ASSUME NEW a \in Int, NEW b \in Int
  PROVE  Max({a, b}) = IF a <= b THEN b ELSE a
<1>1. \A x : (x \in {a, b} /\ \A y \in {a, b} : x >= y) <=> x = (IF a <= b THEN b ELSE a)
  OBVIOUS
<1> QED
  BY <1>1 DEF Max

LEMMA MaxIsIn ==
  ASSUME NEW n \in Nat, NEW S \in SUBSET (1 .. n), S # {}
  PROVE  Max(S) \in S
<1> DEFINE T == {n - i : i \in S}
<1>1. \A i \in S : i \in 1 .. n /\ n - i \in Nat
  OBVIOUS
<1>2. T \in SUBSET Nat /\ T # {}
  BY <1>1
<1>3. Min(T) \in T /\ \A y \in T : Min(T) <= y
  BY <1>2, MinIsLeast
<1>4. PICK i \in S : Min(T) = n - i
  BY <1>3
<1>5. \A j \in S : n - i <= n - j
  BY <1>3, <1>4
<1>6. \A j \in S : i >= j
  BY <1>1, <1>5
<1> QED
  BY <1>6 DEF Max

\* The last row of some.
LastOf(list, S) == IF S = {} THEN {} ELSE {list[Max(S)]}

LEMMA LastPrice ==
  ASSUME NEW list, Priceable(list), NEW S \in SUBSET DOMAIN list
  PROVE  PriceIn(LastOf(list, S)) \in Nat
<1>1. PICK n \in Nat : DOMAIN list \subseteq 1 .. n /\ \A i \in DOMAIN list : list[i].price \in Nat
  BY DEF Priceable
<1>2. CASE S = {}
  BY <1>2 DEF LastOf, PriceIn
<1>3. CASE S # {}
  <2>1. Max(S) \in S
    BY <1>1, <1>3, MaxIsIn
  <2>2. LastOf(list, S) = {list[Max(S)]}
    BY <1>3 DEF LastOf
  <2>3. (CHOOSE r \in {list[Max(S)]} : TRUE) = list[Max(S)]
    OBVIOUS
  <2>4. {list[Max(S)]} # {}
    OBVIOUS
  <2> QED
    BY <1>1, <2>1, <2>2, <2>3, <2>4 DEF PriceIn
<1> QED
  BY <1>2, <1>3

LEMMA FirstOfTwo ==
  ASSUME NEW a \in Nat, NEW b \in Nat
  PROVE  FirstPositive(<<a, b>>) = IF a = 0 THEN b ELSE a
<1> DEFINE numbers == <<a, b>>
           positive == {i \in DOMAIN numbers : numbers[i] > 0}
<1>1. FirstPositive(numbers) = IF positive = {} THEN 0 ELSE numbers[Min(positive)]
  BY DEF FirstPositive
<1>2. DOMAIN numbers = {1, 2} /\ numbers[1] = a /\ numbers[2] = b
  OBVIOUS
<1> HIDE DEF numbers
<1>3. (1 \in positive <=> a # 0) /\ (2 \in positive <=> b # 0) /\ positive \subseteq {1, 2}
  BY <1>2
<1> HIDE DEF positive
<1>4. positive # {} => Min(positive) \in positive /\ \A i \in positive : Min(positive) <= i
  <2>1. positive \in SUBSET Nat
    BY <1>3
  <2> QED
    BY <2>1, MinIsLeast
<1>5. ASSUME a # 0 PROVE Min(positive) = 1
  <2>1. 1 \in positive
    BY <1>3, <1>5
  <2>2. Min(positive) \in {1, 2} /\ Min(positive) <= 1
    BY <1>3, <1>4, <2>1
  <2> QED
    BY <2>2
<1>6. a = 0 /\ b # 0 => Min(positive) = 2
  BY <1>3, <1>4
<1>7. a = 0 /\ b = 0 => positive = {}
  BY <1>3
<1> QED
  BY <1>1, <1>2, <1>3, <1>5, <1>6, <1>7 DEF numbers

\* The steps that GrowthNeverCheaper is about ask for no less of a volume, and
\* for the same otherwise; so does a request that is compared with itself.
GrowsTo(t, u) ==
  /\ \A f \in DOMAIN u : IF f \in Volumes THEN t[f] <= u[f] ELSE t[f] = u[f]
  /\ t = u \/ Grows(t, u)

\* A join depends on nothing that is paid by volume.
LEMMA JoinedAlways ==
  ASSUME NEW list, NEW part, NEW r, NEW t, NEW u, NEW usual, t.family = u.family
  PROVE  JoinedRow(list, part, r, t, usual) = JoinedRow(list, part, r, u, usual)
<1> DEFINE fits == {i \in DOMAIN list : /\ list[i].part = part
                                       /\ list[i].region = r.region
                                       /\ list[i].engine \in {"", "any", r.engine}}
           best(v) == {i \in fits : \A j \in fits :
                         RowScore(list[j], r, v, usual) <= RowScore(list[i], r, v, usual)}
<1>1. \A row : RowScore(row, r, t, usual) = RowScore(row, r, u, usual)
  BY DEF RowScore
<1>2. /\ JoinedRow(list, part, r, t, usual) = IF fits = {} THEN {} ELSE {list[Min(best(t))]}
      /\ JoinedRow(list, part, r, u, usual) = IF fits = {} THEN {} ELSE {list[Min(best(u))]}
  BY DEF JoinedRow
<1> HIDE DEF fits
<1>3. best(t) = best(u)
  BY <1>1
<1> HIDE DEF best
<1> QED
  BY <1>2, <1>3

LEMMA JoinedPrice ==
  ASSUME NEW list, list \in Seq(Rows(list)), Priceable(list), NEW part, NEW r, NEW t, NEW usual
  PROVE  PriceIn(JoinedRow(list, part, r, t, usual)) \in Nat
<1> DEFINE row == JoinedRow(list, part, r, t, usual)
<1>1. row = {} \/ \E i \in DOMAIN list : row = {list[i]}
  BY JoinedIsRow
<1>2. \A i \in DOMAIN list : list[i].price \in Nat
  BY DEF Priceable
<1> HIDE DEF row
<1> QED
  BY <1>1, <1>2 DEF PriceIn, row

\* An instance with more storage or throughput costs no less.
LEMMA RdbmsGrows ==
  ASSUME NEW ask, ProperAsk(ask), ask.category = "database_rdbms", NEW r \in Rows(ask.list),
         NEW t \in TargetFields["database_rdbms"], NEW u \in TargetFields["database_rdbms"], GrowsTo(t, u)
  PROVE  /\ RdbmsPrice(ask.list, r, t) \in Nat /\ RdbmsPrice(ask.list, r, u) \in Nat
         /\ RdbmsPrice(ask.list, r, t) <= RdbmsPrice(ask.list, r, u)
<1> DEFINE list == ask.list
           storage == JoinedStorage(list, r, t)
           iops == JoinedIops(list, r, t)
           has == IopsOf(r, storage)
           hours == IF \E row \in iops : row.hourly THEN HoursInMonth ELSE 1
           gb(v) == Max({v.storage, 1})
           count(v) == FirstPositive(<<v.iops, has>>)
           fixed == HoursInMonth * r.price
           stored == PriceIn(storage)
           rate == PriceIn(iops)
           price(v) == fixed + gb(v) * stored + count(v) * rate * hours
<1>1. /\ t.storage \in Nat /\ u.storage \in Nat /\ t.storage <= u.storage
      /\ t.iops \in Nat /\ u.iops \in Nat /\ t.iops <= u.iops /\ (t.iops = 0 <=> u.iops = 0)
      /\ t.family = u.family
  BY DEF TargetFields, GrowsTo, Grows, Volumes
<1>2. /\ JoinedStorage(list, r, u) = storage /\ JoinedIops(list, r, u) = iops
  BY <1>1, JoinedAlways DEF JoinedStorage, JoinedIops
<1>3. RdbmsPrice(list, r, t) = price(t) /\ RdbmsPrice(list, r, u) = price(u)
  BY <1>2 DEF RdbmsPrice
<1>4. has \in Nat /\ stored \in Nat /\ rate \in Nat /\ r.price \in Nat /\ hours \in Nat
  <2>1. has \in Nat
    BY IopsType
  <2>2. stored \in Nat /\ rate \in Nat
    BY ReadIsPriceable, JoinedPrice DEF JoinedStorage, JoinedIops
  <2>3. r.price \in Nat
    BY ReadIsPriceable DEF Priceable, Rows
  <2> QED
    BY <2>1, <2>2, <2>3 DEF HoursInMonth
<1>5. gb(t) \in Nat /\ gb(u) \in Nat /\ gb(t) <= gb(u)
  <2>1. /\ gb(t) = IF t.storage <= 1 THEN 1 ELSE t.storage
        /\ gb(u) = IF u.storage <= 1 THEN 1 ELSE u.storage
    BY <1>1, MaxOfTwo
  <2> QED
    BY <1>1, <2>1
<1>6. count(t) \in Nat /\ count(u) \in Nat /\ count(t) <= count(u)
  BY <1>1, <1>4, FirstOfTwo
<1>7. fixed \in Nat
  BY <1>4 DEF HoursInMonth
<1> HIDE DEF gb, count, stored, rate, hours, has, fixed
<1>8. gb(t) * stored \in Nat /\ gb(u) * stored \in Nat /\ gb(t) * stored <= gb(u) * stored
  BY <1>4, <1>5, TimesGrows
<1>9. /\ count(t) * rate \in Nat /\ count(u) * rate \in Nat
      /\ count(t) * rate <= count(u) * rate
  BY <1>4, <1>6, TimesGrows
<1>10. /\ count(t) * rate * hours \in Nat /\ count(u) * rate * hours \in Nat
       /\ count(t) * rate * hours <= count(u) * rate * hours
  BY <1>4, <1>9, TimesGrows
<1>11. price(t) \in Nat /\ price(u) \in Nat /\ price(t) <= price(u)
  BY <1>7, <1>8, <1>10
<1> QED
  BY <1>3, <1>11

LEMMA SumGrows ==
  ASSUME NEW a \in Nat, NEW b \in Nat, NEW c \in Nat, NEW d \in Nat, NEW p \in Nat, NEW q \in Nat,
         NEW h \in Nat, a <= b, c <= d
  PROVE  /\ h * (a * p + c * q) \in Nat /\ h * (b * p + d * q) \in Nat
         /\ h * (a * p + c * q) <= h * (b * p + d * q)
<1>1. /\ a * p \in Nat /\ b * p \in Nat /\ a * p <= b * p
      /\ c * q \in Nat /\ d * q \in Nat /\ c * q <= d * q
  BY TimesGrows
<1> DEFINE m == a * p + c * q
           n == b * p + d * q
<1>2. m \in Nat /\ n \in Nat /\ m <= n
  BY <1>1
<1> HIDE DEF m, n
<1>3. h * m = m * h /\ h * n = n * h
  BY <1>2
<1>4. m * h \in Nat /\ n * h \in Nat /\ m * h <= n * h
  BY <1>2, TimesGrows
<1>5. h * m \in Nat /\ h * n \in Nat /\ h * m <= h * n
  BY <1>3, <1>4
<1> QED
  BY <1>5 DEF m, n

\* The price of an offer grows with that of its throughput.
LEMMA OfferGrows ==
  ASSUME NEW sku, NEW onDemand, NEW t, NEW u, NEW paid \in Nat, NEW more \in Nat, NEW storage,
         paid <= more, t.storage \in Nat, u.storage \in Nat, t.storage <= u.storage,
         PriceIn(storage) \in Nat
  PROVE  LET c == NoSQLOffer(sku, onDemand, t, paid, storage)
             d == NoSQLOffer(sku, onDemand, u, more, storage)
         IN  c.price \in Nat /\ d.price \in Nat /\ c.price <= d.price
<1> DEFINE gb == PriceIn(storage)
           c == NoSQLOffer(sku, onDemand, t, paid, storage)
           d == NoSQLOffer(sku, onDemand, u, more, storage)
<1>1. c.price = paid + GBMonth * t.storage * gb /\ d.price = more + GBMonth * u.storage * gb
  BY DEF NoSQLOffer, Candidate
<1>2. GBMonth \in Nat
  BY DEF GBMonth
<1>3. GBMonth * t.storage = t.storage * GBMonth /\ GBMonth * u.storage = u.storage * GBMonth
  BY <1>2
<1>4. /\ t.storage * GBMonth \in Nat /\ u.storage * GBMonth \in Nat
      /\ t.storage * GBMonth <= u.storage * GBMonth
  BY <1>2, TimesGrows
<1> HIDE DEF c, d, gb
<1>5. /\ GBMonth * t.storage * gb \in Nat /\ GBMonth * u.storage * gb \in Nat
      /\ GBMonth * t.storage * gb <= GBMonth * u.storage * gb
  BY <1>3, <1>4, TimesGrows DEF gb
<1>6. c.price \in Nat /\ d.price \in Nat /\ c.price <= d.price
  BY <1>1, <1>5
<1> QED
  BY <1>6 DEF c, d

LEMMA OfferRow ==
  ASSUME NEW sku, NEW onDemand, NEW t, NEW paid, NEW storage
  PROVE  NoSQLOffer(sku, onDemand, t, paid, storage).row.onDemand = onDemand
BY DEF NoSQLOffer, Candidate

LEMMA StorageAlways ==
  ASSUME NEW list, Priceable(list), NEW t, NEW u, NEW special, t.class = u.class
  PROVE  /\ StorageRow(list, t, special) = StorageRow(list, u, special)
         /\ PriceIn(StorageRow(list, t, special)) \in Nat
<1> DEFINE S == {i \in DOMAIN list : list[i].part = "storage" /\ list[i].class # special}
           A == {i \in DOMAIN list : list[i].part = "storage" /\ list[i].class = special}
           row(v) == IF v.class = special /\ LastOf(list, A) # {} THEN LastOf(list, A) ELSE LastOf(list, S)
<1>1. StorageRow(list, t, special) = row(t) /\ StorageRow(list, u, special) = row(u)
  BY DEF StorageRow, LastSuch, LastOf
<1>2. PriceIn(LastOf(list, A)) \in Nat /\ PriceIn(LastOf(list, S)) \in Nat
  BY LastPrice
<1> HIDE DEF A, S
<1> QED
  BY <1>1, <1>2

\* What a request for nothing is taken for does not come between.
NoSQLGrown(t, u) ==
  /\ t.reads \in Nat /\ u.reads \in Nat /\ t.reads <= u.reads
  /\ t.writes \in Nat /\ u.writes \in Nat /\ t.writes <= u.writes /\ (t.writes = 0 <=> u.writes = 0)
  /\ t.storage \in Nat /\ u.storage \in Nat /\ t.storage <= u.storage
  /\ t = u \/ t.reads + 5 * t.writes \notin 1 .. 9
  /\ t.reads + 5 * t.writes = 0 => u.reads + 5 * u.writes = 0
  /\ t.class = u.class

LEMMA BaselineGrown ==
  ASSUME NEW t \in TargetFields["database_nosql"], NEW u \in TargetFields["database_nosql"], GrowsTo(t, u)
  PROVE  NoSQLGrown(WithBaseline(t), WithBaseline(u))
<1>1. /\ t.reads \in Nat /\ u.reads \in Nat /\ t.reads <= u.reads /\ (t.reads = 0 <=> u.reads = 0)
      /\ t.writes \in Nat /\ u.writes \in Nat /\ t.writes <= u.writes /\ (t.writes = 0 <=> u.writes = 0)
      /\ t.storage \in Nat /\ u.storage \in Nat /\ t.storage <= u.storage
      /\ (t.storage = 0 <=> u.storage = 0)
      /\ t.class = u.class /\ (t = u \/ t.reads + 5 * t.writes \notin 1 .. 9)
  BY DEF TargetFields, GrowsTo, Grows, Volumes
<1>2. CASE t.reads = 0 /\ t.writes = 0 /\ t.storage = 0
  <2>1. /\ WithBaseline(t) = [t EXCEPT !.reads = 1000, !.writes = 200, !.storage = 10]
        /\ WithBaseline(u) = [u EXCEPT !.reads = 1000, !.writes = 200, !.storage = 10]
    BY <1>1, <1>2 DEF WithBaseline
  <2> QED
    BY <1>1, <2>1 DEF NoSQLGrown, TargetFields
<1>3. CASE ~(t.reads = 0 /\ t.writes = 0 /\ t.storage = 0)
  <2>1. WithBaseline(t) = t /\ WithBaseline(u) = u
    BY <1>1, <1>3 DEF WithBaseline
  <2> QED
    BY <1>1, <2>1 DEF NoSQLGrown
<1> QED
  BY <1>2, <1>3

LEMMA AwsNoSQLGrows ==
  ASSUME NEW list, Priceable(list), NEW t, NEW u, NoSQLGrown(t, u),
         NEW c \in AwsNoSQL(list, t), NEW d \in AwsNoSQL(list, u), c.row = d.row
  PROVE  c.price \in Nat /\ d.price \in Nat /\ c.price <= d.price
<1> DEFINE Part(part, Test(_)) == LastSuch(list, LAMBDA r : r.part = part /\ Test(r))
           rcu == Part("throughput", LAMBDA r : r.reads)
           wcu == Part("throughput", LAMBDA r : r.writes)
           rru == Part("request_operations", LAMBDA r : r.reads)
           wru == Part("request_operations", LAMBDA r : r.writes)
           stored == StorageRow(list, t, "infrequent_access")
           units(v) == 10 * ((v.reads + 39) \div 40)
           writes(v) == IF v.writes = 0 THEN 0 ELSE Max({v.writes, 10})
           hourly(v) == NoSQLHour * (units(v) * PriceIn(rcu) + writes(v) * PriceIn(wcu))
           paid(v) == PerMillion * (v.reads * PriceIn(rru) + v.writes * PriceIn(wru))
           some(v) == rcu \cup wcu \cup StorageRow(list, [v EXCEPT !.class = ""], "infrequent_access")
           any == rru \cup wru
<1>1. \A v : AwsNoSQL(list, v) = When(some(v) # {}, NoSQLOffer(2, FALSE, v, hourly(v), StorageRow(list, v, "infrequent_access")))
                                   \cup When(any # {}, NoSQLOffer(1, TRUE, v, paid(v), StorageRow(list, v, "infrequent_access")))
  BY DEF AwsNoSQL
<1>2. StorageRow(list, u, "infrequent_access") = stored /\ PriceIn(stored) \in Nat
  BY StorageAlways DEF NoSQLGrown
<1>3. /\ PriceIn(rcu) \in Nat /\ PriceIn(wcu) \in Nat
      /\ PriceIn(rru) \in Nat /\ PriceIn(wru) \in Nat
  <2>1. /\ rcu = LastOf(list, {i \in DOMAIN list : list[i].part = "throughput" /\ list[i].reads})
        /\ wcu = LastOf(list, {i \in DOMAIN list : list[i].part = "throughput" /\ list[i].writes})
        /\ rru = LastOf(list, {i \in DOMAIN list : list[i].part = "request_operations" /\ list[i].reads})
        /\ wru = LastOf(list, {i \in DOMAIN list : list[i].part = "request_operations" /\ list[i].writes})
    BY DEF LastSuch, LastOf
  <2>2. \A S \in SUBSET DOMAIN list : PriceIn(LastOf(list, S)) \in Nat
    BY LastPrice
  <2> HIDE DEF rcu, wcu, rru, wru
  <2> QED
    BY <2>1, <2>2
<1> HIDE DEF rcu, wcu, rru, wru, stored, some, any
<1>4. units(t) \in Nat /\ units(u) \in Nat /\ units(t) <= units(u)
  <2>1. /\ t.reads + 39 \in Nat /\ u.reads + 39 \in Nat /\ t.reads + 39 <= u.reads + 39
        /\ 40 \in Nat \ {0}
    BY DEF NoSQLGrown
  <2>2. /\ (t.reads + 39) \div 40 \in Nat /\ (u.reads + 39) \div 40 \in Nat
        /\ (t.reads + 39) \div 40 <= (u.reads + 39) \div 40
    BY <2>1, QuotientGrows
  <2> QED
    BY <2>2
<1>5. writes(t) \in Nat /\ writes(u) \in Nat /\ writes(t) <= writes(u)
  <2>1. t.writes \in Nat /\ u.writes \in Nat /\ 10 \in Nat
    BY DEF NoSQLGrown
  <2>2. /\ Max({t.writes, 10}) = IF t.writes <= 10 THEN 10 ELSE t.writes
        /\ Max({u.writes, 10}) = IF u.writes <= 10 THEN 10 ELSE u.writes
    BY <2>1, MaxOfTwo
  <2> QED
    BY <2>1, <2>2 DEF NoSQLGrown
<1> HIDE DEF units, writes
<1>6. hourly(t) \in Nat /\ hourly(u) \in Nat /\ hourly(t) <= hourly(u)
  <2>1. NoSQLHour \in Nat
    BY DEF NoSQLHour, HoursInMonth
  <2> QED
    BY <1>3, <1>4, <1>5, <2>1, SumGrows
<1>7. paid(t) \in Nat /\ paid(u) \in Nat /\ paid(t) <= paid(u)
  <2>1. PerMillion \in Nat
    BY DEF PerMillion
  <2>2. t.reads \in Nat /\ u.reads \in Nat /\ t.reads <= u.reads /\ t.writes \in Nat /\ u.writes \in Nat /\ t.writes <= u.writes
    BY DEF NoSQLGrown
  <2> QED
    BY <1>3, <2>1, <2>2, SumGrows
<1>8. t.storage \in Nat /\ u.storage \in Nat /\ t.storage <= u.storage
  BY DEF NoSQLGrown
<1> HIDE DEF hourly, paid
<1> DEFINE provisioned(v) == NoSQLOffer(2, FALSE, v, hourly(v), stored)
           onDemand(v) == NoSQLOffer(1, TRUE, v, paid(v), stored)
<1>9. /\ c \in {provisioned(t), onDemand(t)} /\ d \in {provisioned(u), onDemand(u)}
      /\ ~provisioned(t).row.onDemand /\ ~provisioned(u).row.onDemand
      /\ onDemand(t).row.onDemand /\ onDemand(u).row.onDemand
  <2>1. c \in {provisioned(t), onDemand(t)} /\ d \in {provisioned(u), onDemand(u)}
    BY <1>1, <1>2 DEF When, stored
  <2> QED
    BY <2>1, OfferRow
<1>10. /\ provisioned(t).price \in Nat /\ provisioned(u).price \in Nat
       /\ provisioned(t).price <= provisioned(u).price
  BY <1>2, <1>6, <1>8, OfferGrows
<1>11. /\ onDemand(t).price \in Nat /\ onDemand(u).price \in Nat
       /\ onDemand(t).price <= onDemand(u).price
  BY <1>2, <1>7, <1>8, OfferGrows
<1> HIDE DEF provisioned, onDemand
<1> QED
  BY <1>9, <1>10, <1>11

LEMMA ProductGrows ==
  ASSUME NEW a \in Nat, NEW b \in Nat, NEW p \in Nat, NEW h \in Nat, a <= b
  PROVE  h * a * p \in Nat /\ h * b * p \in Nat /\ h * a * p <= h * b * p
<1>1. h * a = a * h /\ h * b = b * h
  OBVIOUS
<1>2. a * h \in Nat /\ b * h \in Nat /\ a * h <= b * h
  BY TimesGrows
<1>3. h * a \in Nat /\ h * b \in Nat /\ h * a <= h * b
  BY <1>1, <1>2
<1> QED
  BY <1>3, TimesGrows

LEMMA AzureNoSQLGrows ==
  ASSUME NEW list, Priceable(list), NEW t, NEW u, NoSQLGrown(t, u),
         NEW c \in AzureNoSQL(list, t), NEW d \in AzureNoSQL(list, u), c.row = d.row
  PROVE  c.price \in Nat /\ d.price \in Nat /\ c.price <= d.price
<1> DEFINE perUnit == LastSuch(list, LAMBDA r : r.part = "throughput")
           perRequest == LastSuch(list, LAMBDA r : r.part = "request_operations")
           stored == StorageRow(list, t, "analytical")
           units(v) == v.reads + 5 * v.writes
           hundreds(v) == IF units(v) \in 1 .. 9 THEN 1000 ELSE units(v)
           hourly(v) == (NoSQLHour \div 100) * hundreds(v) * PriceIn(perUnit)
           paid(v) == PerMillion * units(v) * PriceIn(perRequest)
           some(v) == perUnit \cup StorageRow(list, [v EXCEPT !.class = ""], "analytical")
<1>1. \A v : AzureNoSQL(list, v) = When(some(v) # {}, NoSQLOffer(1, FALSE, v, hourly(v), StorageRow(list, v, "analytical")))
                                     \cup When(perRequest # {}, NoSQLOffer(2, TRUE, v, paid(v), StorageRow(list, v, "analytical")))
  BY DEF AzureNoSQL
<1>2. StorageRow(list, u, "analytical") = stored /\ PriceIn(stored) \in Nat
  BY StorageAlways DEF NoSQLGrown
<1>3. PriceIn(perUnit) \in Nat /\ PriceIn(perRequest) \in Nat
  <2>1. /\ perUnit = LastOf(list, {i \in DOMAIN list : list[i].part = "throughput"})
        /\ perRequest = LastOf(list, {i \in DOMAIN list : list[i].part = "request_operations"})
    BY DEF LastSuch, LastOf
  <2>2. \A S \in SUBSET DOMAIN list : PriceIn(LastOf(list, S)) \in Nat
    BY LastPrice
  <2> HIDE DEF perUnit, perRequest
  <2> QED
    BY <2>1, <2>2
<1> HIDE DEF perUnit, perRequest, stored, some
<1>4. /\ units(t) \in Nat /\ units(u) \in Nat /\ units(t) <= units(u)
      /\ hundreds(t) \in Nat /\ hundreds(u) \in Nat /\ hundreds(t) <= hundreds(u)
  <2>1. /\ units(t) \in Nat /\ units(u) \in Nat /\ units(t) <= units(u)
        /\ units(t) = units(u) \/ units(t) \notin 1 .. 9
        /\ units(t) = 0 => units(u) = 0
    BY DEF NoSQLGrown
  <2> HIDE DEF units
  <2> QED
    BY <2>1
<1>5. NoSQLHour \div 100 \in Nat /\ PerMillion \in Nat
  BY DEF NoSQLHour, HoursInMonth, PerMillion
<1> HIDE DEF units, hundreds
<1>6. hourly(t) \in Nat /\ hourly(u) \in Nat /\ hourly(t) <= hourly(u)
  BY <1>3, <1>4, <1>5, ProductGrows
<1>7. paid(t) \in Nat /\ paid(u) \in Nat /\ paid(t) <= paid(u)
  BY <1>3, <1>4, <1>5, ProductGrows
<1>8. t.storage \in Nat /\ u.storage \in Nat /\ t.storage <= u.storage
  BY DEF NoSQLGrown
<1> HIDE DEF hourly, paid
<1> DEFINE provisioned(v) == NoSQLOffer(1, FALSE, v, hourly(v), stored)
           onDemand(v) == NoSQLOffer(2, TRUE, v, paid(v), stored)
<1>9. /\ c \in {provisioned(t), onDemand(t)} /\ d \in {provisioned(u), onDemand(u)}
      /\ ~provisioned(t).row.onDemand /\ ~provisioned(u).row.onDemand
      /\ onDemand(t).row.onDemand /\ onDemand(u).row.onDemand
  <2>1. c \in {provisioned(t), onDemand(t)} /\ d \in {provisioned(u), onDemand(u)}
    BY <1>1, <1>2 DEF When, stored
  <2> QED
    BY <2>1, OfferRow
<1>10. /\ provisioned(t).price \in Nat /\ provisioned(u).price \in Nat
       /\ provisioned(t).price <= provisioned(u).price
  BY <1>2, <1>6, <1>8, OfferGrows
<1>11. /\ onDemand(t).price \in Nat /\ onDemand(u).price \in Nat
       /\ onDemand(t).price <= onDemand(u).price
  BY <1>2, <1>7, <1>8, OfferGrows
<1> HIDE DEF provisioned, onDemand
<1> QED
  BY <1>9, <1>10, <1>11

LEMMA GcpNoSQLGrows ==
  ASSUME NEW list, Priceable(list), NEW t, NEW u, NoSQLGrown(t, u),
         NEW c \in GcpNoSQL(list, t), NEW d \in GcpNoSQL(list, u)
  PROVE  c.price \in Nat /\ d.price \in Nat /\ c.price <= d.price
<1> DEFINE Operations(Test(_)) == LastSuch(list, LAMBDA r : r.part = "request_operations" /\ Test(r))
           reads == Operations(LAMBDA r : r.reads)
           writes == Operations(LAMBDA r : r.writes)
           stored == LastSuch(list, LAMBDA r : r.part = "storage")
           paid(v) == 10 * PerMillion * (v.reads * PriceIn(reads) + v.writes * PriceIn(writes))
<1>1. \A v : GcpNoSQL(list, v) = {NoSQLOffer(1, TRUE, v, paid(v), stored)}
  BY DEF GcpNoSQL
<1>2. PriceIn(reads) \in Nat /\ PriceIn(writes) \in Nat /\ PriceIn(stored) \in Nat
  <2>1. /\ reads = LastOf(list, {i \in DOMAIN list : list[i].part = "request_operations" /\ list[i].reads})
        /\ writes = LastOf(list, {i \in DOMAIN list : list[i].part = "request_operations" /\ list[i].writes})
        /\ stored = LastOf(list, {i \in DOMAIN list : list[i].part = "storage"})
    BY DEF LastSuch, LastOf
  <2>2. \A S \in SUBSET DOMAIN list : PriceIn(LastOf(list, S)) \in Nat
    BY LastPrice
  <2> HIDE DEF reads, writes, stored
  <2> QED
    BY <2>1, <2>2
<1> HIDE DEF reads, writes, stored
<1>3. paid(t) \in Nat /\ paid(u) \in Nat /\ paid(t) <= paid(u)
  <2>1. 10 * PerMillion \in Nat
    BY DEF PerMillion
  <2>2. t.reads \in Nat /\ u.reads \in Nat /\ t.reads <= u.reads /\ t.writes \in Nat /\ u.writes \in Nat /\ t.writes <= u.writes
    BY DEF NoSQLGrown
  <2> QED
    BY <1>2, <2>1, <2>2, SumGrows
<1>4. t.storage \in Nat /\ u.storage \in Nat /\ t.storage <= u.storage
  BY DEF NoSQLGrown
<1> HIDE DEF paid
<1>5. c = NoSQLOffer(1, TRUE, t, paid(t), stored) /\ d = NoSQLOffer(1, TRUE, u, paid(u), stored)
  BY <1>1
<1> QED
  BY <1>2, <1>3, <1>4, <1>5, OfferGrows

LEMMA NoSQLGrows ==
  ASSUME NEW provider \in {"aws", "azure", "gcp"}, NEW list, Priceable(list),
         NEW t \in TargetFields["database_nosql"], NEW u \in TargetFields["database_nosql"], GrowsTo(t, u),
         NEW c \in NoSQLCandidates(provider, list, t), NEW d \in NoSQLCandidates(provider, list, u),
         c.row = d.row
  PROVE  c.price \in Nat /\ d.price \in Nat /\ c.price <= d.price
<1>1. NoSQLGrown(WithBaseline(t), WithBaseline(u))
  BY BaselineGrown
<1>2. CASE provider = "aws"
  BY <1>1, <1>2, AwsNoSQLGrows DEF NoSQLCandidates
<1>3. CASE provider = "azure"
  BY <1>1, <1>3, AzureNoSQLGrows DEF NoSQLCandidates
<1>4. CASE provider = "gcp"
  BY <1>1, <1>4, GcpNoSQLGrows DEF NoSQLCandidates
<1> QED
  BY <1>2, <1>3, <1>4

\* The first entry of the table of clocks that memory does not exceed.
LEMMA ClockGrows ==
  ASSUME NEW m \in Nat, NEW n \in Nat, m <= n
  PROVE  GhzTenths(m) \in Nat /\ GhzTenths(n) \in Nat /\ GhzTenths(m) <= GhzTenths(n)
<1> DEFINE Is(x) == IF x <= 1 THEN 2 ELSE IF x <= 2 THEN 4 ELSE IF x <= 4 THEN 8
                    ELSE IF x <= 8 THEN 14 ELSE IF x <= 16 THEN 24 ELSE 48
<1>1. ASSUME NEW x \in Nat PROVE GhzTenths(x) = Is(x)
  <2> DEFINE rules == << <<x <= 1, 2>>, <<x <= 2, 4>>, <<x <= 4, 8>>,
                         <<x <= 8, 14>>, <<x <= 16, 24>>, <<TRUE, 48>> >>
             S == {i \in DOMAIN rules : rules[i][1]}
  <2>1. /\ DOMAIN rules = 1 .. 6
        /\ rules[1][1] = (x <= 1) /\ rules[2][1] = (x <= 2) /\ rules[3][1] = (x <= 4)
        /\ rules[4][1] = (x <= 8) /\ rules[5][1] = (x <= 16) /\ rules[6][1] = TRUE
    OBVIOUS
  <2>2. /\ rules[1][2] = 2 /\ rules[2][2] = 4 /\ rules[3][2] = 8
        /\ rules[4][2] = 14 /\ rules[5][2] = 24 /\ rules[6][2] = 48
    OBVIOUS
  <2>3. GhzTenths(x) = rules[Min(S)][2]
    BY DEF GhzTenths, Decide
  <2> HIDE DEF rules
  <2>4. /\ 1 \in S <=> x <= 1
        /\ 2 \in S <=> x <= 2
        /\ 3 \in S <=> x <= 4
        /\ 4 \in S <=> x <= 8
        /\ 5 \in S <=> x <= 16
        /\ 6 \in S
        /\ S \subseteq 1 .. 6
    <3>1. S \subseteq 1 .. 6 /\ \A i \in 1 .. 6 : i \in S <=> rules[i][1]
      BY <2>1
    <3>2. \A i \in {1, 2, 3, 4, 5, 6} : i \in 1 .. 6
      OBVIOUS
    <3> HIDE DEF S
    <3>3. 1 \in S <=> x <= 1
      BY <2>1, <3>1, <3>2, Zenon
    <3>4. 2 \in S <=> x <= 2
      BY <2>1, <3>1, <3>2, Zenon
    <3>5. 3 \in S <=> x <= 4
      BY <2>1, <3>1, <3>2, Zenon
    <3>6. 4 \in S <=> x <= 8
      BY <2>1, <3>1, <3>2, Zenon
    <3>7. 5 \in S <=> x <= 16
      BY <2>1, <3>1, <3>2, Zenon
    <3>8. 6 \in S
      BY <2>1, <3>1, <3>2, Zenon
    <3> QED
      BY <3>1, <3>3, <3>4, <3>5, <3>6, <3>7, <3>8
  <2> HIDE DEF S
  <2>5. Min(S) \in S /\ \A i \in S : Min(S) <= i
    <3>1. S \in SUBSET Nat /\ S # {}
      BY <2>4
    <3> QED
      BY <3>1, MinIsLeast
  <2>6. Min(S) = IF x <= 1 THEN 1 ELSE IF x <= 2 THEN 2 ELSE IF x <= 4 THEN 3
                 ELSE IF x <= 8 THEN 4 ELSE IF x <= 16 THEN 5 ELSE 6
    <3>1. \A i \in S : Min(S) <= i
      BY <2>5
    <3>2. Min(S) \in 1 .. 6
      BY <2>4, <2>5
    <3>3. x <= 1 => Min(S) = 1
      BY <2>4, <3>1, <3>2
    <3>4. ~(x <= 1) /\ x <= 2 => Min(S) = 2
      BY <2>4, <2>5, <3>2
    <3>5. ~(x <= 2) /\ x <= 4 => Min(S) = 3
      BY <2>4, <2>5, <3>2
    <3>6. ~(x <= 4) /\ x <= 8 => Min(S) = 4
      BY <2>4, <2>5, <3>2
    <3>7. ~(x <= 8) /\ x <= 16 => Min(S) = 5
      BY <2>4, <2>5, <3>2
    <3>8. ~(x <= 16) => Min(S) = 6
      BY <2>4, <2>5, <3>2
    <3> QED
      BY <3>3, <3>4, <3>5, <3>6, <3>7, <3>8
  <2> QED
    BY <2>2, <2>3, <2>6
<1>2. Is(m) \in Nat /\ Is(n) \in Nat /\ Is(m) <= Is(n)
  OBVIOUS
<1> QED
  BY <1>1, <1>2

LEMMA NetGrows ==
  ASSUME NEW used \in Nat, NEW more \in Nat, NEW free \in Nat, used <= more
  PROVE  Net(used, free) \in Nat /\ Net(more, free) \in Nat /\ Net(used, free) <= Net(more, free)
<1>1. /\ Net(used, free) = IF 0 <= used - free THEN used - free ELSE 0
      /\ Net(more, free) = IF 0 <= more - free THEN more - free ELSE 0
  BY MaxOfTwo DEF Net
<1> QED
  BY <1>1

\* Rows of fees whose units the code can convert.
Rated(list) ==
  /\ Priceable(list)
  /\ \A i \in DOMAIN list : list[i].part = "request_fee" => list[i].unit \in {"request", "ten", "million"}

LEMMA PartIsRated ==
  ASSUME NEW list, Rated(list), NEW S \in SUBSET DOMAIN list
  PROVE  Rated(Restrict(list, S))
<1>1. DOMAIN Restrict(list, S) = S /\ \A i \in S : Restrict(list, S)[i] = list[i]
  BY DEF Restrict
<1> QED
  BY <1>1 DEF Rated, Priceable

LEMMA ReadIsRated ==
  ASSUME NEW ask, ProperAsk(ask), ask.category = "serverless"
  PROVE  Rated(ask.list)
<1>1. <<ask.provider, "serverless">>[2] = "serverless"
  OBVIOUS
<1>2. /\ <<ask.provider, "serverless">> \in DOMAIN MatchLists
      /\ ask.list \in MatchLists[<<ask.provider, "serverless">>]
  BY DEF ProperAsk
<1>3. \A i \in DOMAIN ask.list : ask.list[i].part = "request_fee" => ask.list[i].unit \in {"request", "ten", "million"}
  BY <1>1, <1>2, RowAssumption
<1> QED
  BY <1>3, ReadIsPriceable DEF Rated

\* The factor of the unit of the last request fee.
LEMMA RequestFactor ==
  ASSUME NEW list, Rated(list),
         NEW S, S = {i \in DOMAIN list : list[i].part = "request_fee"}, LastOf(list, S) # {}
  PROVE  \A provider : UnitsCharged(provider, (CHOOSE r \in LastOf(list, S) : TRUE).unit) \in Nat
<1>1. PICK n \in Nat : DOMAIN list \subseteq 1 .. n
  BY DEF Rated, Priceable
<1>2. S # {}
  BY DEF LastOf
<1>3. Max(S) \in S
  BY <1>1, <1>2, MaxIsIn
<1>4. (CHOOSE r \in {list[Max(S)]} : TRUE) = list[Max(S)]
  OBVIOUS
<1>5. (CHOOSE r \in LastOf(list, S) : TRUE) = list[Max(S)]
  BY <1>2, <1>4 DEF LastOf
<1>6. list[Max(S)].unit \in {"request", "ten", "million"}
  BY <1>3 DEF Rated
<1>7. ASSUME NEW provider, NEW unit \in {"request", "ten", "million"} PROVE UnitsCharged(provider, unit) \in Nat
  <2>1. \A some \in {"request", "ten", "million"} : PerRequestUnit[some] \in Nat
    BY SMT DEF PerRequestUnit
  <2>2. (IF provider = "gcp" /\ unit = "ten" THEN "request" ELSE unit) \in {"request", "ten", "million"}
    OBVIOUS
  <2> QED
    BY <2>1, <2>2, Zenon DEF UnitsCharged
<1> QED
  BY <1>5, <1>6, <1>7, Zenon

\* What a serverless request asks for, its defaults filled in.
ServerlessGrown(t, u) ==
  /\ t.requests \in Nat /\ u.requests \in Nat /\ t.requests <= u.requests
  /\ t.memory \in Nat /\ u.memory \in Nat /\ t.memory <= u.memory
  /\ t.duration \in Nat /\ u.duration \in Nat /\ t.duration <= u.duration
  /\ t.tier = u.tier

LEMMA WorkloadGrown ==
  ASSUME NEW t \in TargetFields["serverless"], NEW u \in TargetFields["serverless"], GrowsTo(t, u)
  PROVE  ServerlessGrown(WithWorkload(t), WithWorkload(u)) /\ t.arch = u.arch
<1>1. /\ t.requests \in Nat /\ u.requests \in Nat /\ t.requests <= u.requests /\ (t.requests = 0 <=> u.requests = 0)
      /\ t.memory \in Nat /\ u.memory \in Nat /\ t.memory <= u.memory /\ (t.memory = 0 <=> u.memory = 0)
      /\ t.duration \in Nat /\ u.duration \in Nat /\ t.duration <= u.duration /\ (t.duration = 0 <=> u.duration = 0)
      /\ t.tier = u.tier /\ t.arch = u.arch
  BY DEF TargetFields, GrowsTo, Grows, Volumes
<1>2. ASSUME NEW v \in TargetFields["serverless"]
      PROVE  /\ WithWorkload(v).requests = OrDefault(v.requests, 1)
             /\ WithWorkload(v).memory = OrDefault(v.memory, 4)
             /\ WithWorkload(v).duration = OrDefault(v.duration, 1)
             /\ WithWorkload(v).tier = ConsumptionUnlessSaid(v.tier)
  BY DEF WithWorkload, TargetFields
<1> DEFINE v == WithWorkload(t)
           w == WithWorkload(u)
<1>3. /\ v.requests = OrDefault(t.requests, 1) /\ w.requests = OrDefault(u.requests, 1)
      /\ v.memory = OrDefault(t.memory, 4) /\ w.memory = OrDefault(u.memory, 4)
      /\ v.duration = OrDefault(t.duration, 1) /\ w.duration = OrDefault(u.duration, 1)
      /\ v.tier = w.tier
  BY <1>1, <1>2
<1> HIDE DEF v, w
<1>4. v.requests \in Nat /\ w.requests \in Nat /\ v.requests <= w.requests
  BY <1>1, <1>3 DEF OrDefault
<1>5. v.memory \in Nat /\ w.memory \in Nat /\ v.memory <= w.memory
  BY <1>1, <1>3 DEF OrDefault
<1>6. v.duration \in Nat /\ w.duration \in Nat /\ v.duration <= w.duration
  BY <1>1, <1>3 DEF OrDefault
<1> QED
  BY <1>1, <1>3, <1>4, <1>5, <1>6 DEF ServerlessGrown, v, w

\* More requests, of more memory and for longer, cost no less at the same rates:
\* not net of what is free, nor by the clock that goes with the memory.
LEMMA ServerlessCostGrows ==
  ASSUME NEW provider, NEW tier, NEW list, Rated(list), NEW t, NEW u, ServerlessGrown(t, u)
  PROVE  LET a == ServerlessCost(provider, tier, list, t)
             b == ServerlessCost(provider, tier, list, u)
         IN  a \in Nat /\ b \in Nat /\ a <= b
<1> DEFINE Part(part) == LastSuch(list, LAMBDA r : r.part = part)
           secondGen == tier = "2nd_gen"
           noFree == provider = "azure" /\ tier = "flex_consumption"
           request == Part("request_fee")
           freeRequests == CASE noFree -> 0 [] provider = "gcp" -> 2 [] OTHER -> 1
           freeMemory == CASE noFree -> 0 [] provider = "gcp" /\ secondGen -> 72 [] OTHER -> 80
           calls(v) == Net(v.requests, freeRequests)
           memory(v) == Net(MemoryWork(v), freeMemory)
           secondCpu(v) == Net((5120 * v.requests * v.memory * v.duration) \div 1769, 36)
           firstCpu(v) == Net(4 * v.requests * v.duration * GhzTenths(v.memory), 40)
           cpu(v) == IF secondGen THEN secondCpu(v) ELSE firstCpu(v)
           duration == PriceIn(Part("duration_fee"))
           forCpu == PriceIn(Part("duration_fee_cpu"))
           forMemory == PriceIn(Part("duration_fee_memory"))
           apart == provider = "gcp" /\ (forCpu > 0 \/ forMemory > 0)
           fee == PriceIn(request)
           unit == UnitsCharged(provider, (CHOOSE r \in request : TRUE).unit)
           called(v) == IF request = {} THEN 0 ELSE calls(v) * fee * unit
           worked(v) == IF apart THEN memory(v) * forMemory + cpu(v) * forCpu ELSE memory(v) * duration
<1>1. \A v : ServerlessCost(provider, tier, list, v) = called(v) + 5000 * worked(v)
  BY DEF ServerlessCost
<1>2. /\ duration \in Nat /\ forCpu \in Nat /\ forMemory \in Nat /\ fee \in Nat
      /\ request # {} => unit \in Nat
  <2> DEFINE S(part) == {i \in DOMAIN list : list[i].part = part}
  <2>1. \A part : Part(part) = LastOf(list, S(part))
    BY DEF LastSuch, LastOf
  <2>2. \A part : PriceIn(LastOf(list, S(part))) \in Nat
    BY LastPrice DEF Rated
  <2>3. request # {} => unit \in Nat
    <3> DEFINE R == S("request_fee")
    <3>1. R = {i \in DOMAIN list : list[i].part = "request_fee"} /\ request = LastOf(list, R)
      BY <2>1
    <3> HIDE DEF R, request
    <3> QED
      BY <3>1, RequestFactor
  <2> HIDE DEF Part, S
  <2> QED
    BY <2>1, <2>2, <2>3
<1>3. freeRequests \in Nat /\ freeMemory \in Nat
  OBVIOUS
<1>4. /\ t.requests \in Nat /\ u.requests \in Nat /\ t.requests <= u.requests
      /\ t.memory \in Nat /\ u.memory \in Nat /\ t.memory <= u.memory
      /\ t.duration \in Nat /\ u.duration \in Nat /\ t.duration <= u.duration
  BY DEF ServerlessGrown
<1> HIDE DEF request, duration, forCpu, forMemory, fee, unit, freeRequests, freeMemory, apart, Part
<1>5. calls(t) \in Nat /\ calls(u) \in Nat /\ calls(t) <= calls(u)
  BY <1>3, <1>4, NetGrows
<1>6. ASSUME NEW k \in Nat
      PROVE  LET a == k * t.requests * t.memory * t.duration
                 b == k * u.requests * u.memory * u.duration
             IN  a \in Nat /\ b \in Nat /\ a <= b
  <2>1. /\ k * t.requests \in Nat /\ k * u.requests \in Nat /\ k * t.requests <= k * u.requests
    BY <1>4, <1>6, BothGrow
  <2>2. /\ k * t.requests * t.memory \in Nat /\ k * u.requests * u.memory \in Nat
        /\ k * t.requests * t.memory <= k * u.requests * u.memory
    BY <1>4, <2>1, BothGrow
  <2> QED
    BY <1>4, <2>2, BothGrow
<1>7. memory(t) \in Nat /\ memory(u) \in Nat /\ memory(t) <= memory(u)
  <2>1. MemoryWork(t) \in Nat /\ MemoryWork(u) \in Nat /\ MemoryWork(t) <= MemoryWork(u)
    BY <1>6 DEF MemoryWork
  <2> QED
    BY <1>3, <2>1, NetGrows
<1>8. secondCpu(t) \in Nat /\ secondCpu(u) \in Nat /\ secondCpu(t) <= secondCpu(u)
  <2> DEFINE a == 5120 * t.requests * t.memory * t.duration
             b == 5120 * u.requests * u.memory * u.duration
  <2>1. a \in Nat /\ b \in Nat /\ a <= b
    BY <1>6
  <2> HIDE DEF a, b
  <2>2. a \div 1769 \in Nat /\ b \div 1769 \in Nat /\ a \div 1769 <= b \div 1769
    BY <2>1, QuotientGrows
  <2> DEFINE x == a \div 1769
             y == b \div 1769
  <2>3. x \in Nat /\ y \in Nat /\ x <= y
    BY <2>2
  <2> HIDE DEF x, y
  <2>4. Net(x, 36) \in Nat /\ Net(y, 36) \in Nat /\ Net(x, 36) <= Net(y, 36)
    BY <2>3, NetGrows
  <2> QED
    BY <2>4 DEF a, b, x, y
<1>9. firstCpu(t) \in Nat /\ firstCpu(u) \in Nat /\ firstCpu(t) <= firstCpu(u)
  <2>1. /\ 4 * t.requests \in Nat /\ 4 * u.requests \in Nat /\ 4 * t.requests <= 4 * u.requests
    BY <1>4
  <2>2. /\ 4 * t.requests * t.duration \in Nat /\ 4 * u.requests * u.duration \in Nat
        /\ 4 * t.requests * t.duration <= 4 * u.requests * u.duration
    BY <1>4, <2>1, BothGrow
  <2> DEFINE p == GhzTenths(t.memory)
             q == GhzTenths(u.memory)
             a == 4 * t.requests * t.duration * p
             b == 4 * u.requests * u.duration * q
  <2>3. p \in Nat /\ q \in Nat /\ p <= q
    BY <1>4, ClockGrows
  <2>4. a \in Nat /\ b \in Nat /\ a <= b
    BY <2>2, <2>3, BothGrow
  <2> HIDE DEF a, b
  <2>5. Net(a, 40) \in Nat /\ Net(b, 40) \in Nat /\ Net(a, 40) <= Net(b, 40)
    BY <2>4, NetGrows
  <2> QED
    BY <2>5 DEF a, b
<1> HIDE DEF firstCpu, secondCpu, secondGen
<1>10. cpu(t) \in Nat /\ cpu(u) \in Nat /\ cpu(t) <= cpu(u)
  BY <1>8, <1>9
<1> HIDE DEF calls, memory, cpu
<1>11. called(t) \in Nat /\ called(u) \in Nat /\ called(t) <= called(u)
  <2>1. CASE request = {}
    BY <2>1
  <2>2. CASE request # {}
    <3>1. calls(t) * fee \in Nat /\ calls(u) * fee \in Nat /\ calls(t) * fee <= calls(u) * fee
      BY <1>2, <1>5, TimesGrows
    <3>2. /\ calls(t) * fee * unit \in Nat /\ calls(u) * fee * unit \in Nat
          /\ calls(t) * fee * unit <= calls(u) * fee * unit
      BY <1>2, <2>2, <3>1, TimesGrows
    <3> QED
      BY <2>2, <3>2
  <2> QED
    BY <2>1, <2>2
<1>12. worked(t) \in Nat /\ worked(u) \in Nat /\ worked(t) <= worked(u)
  <2>1. /\ memory(t) * forMemory \in Nat /\ memory(u) * forMemory \in Nat
        /\ memory(t) * forMemory <= memory(u) * forMemory
    BY <1>2, <1>7, TimesGrows
  <2>2. /\ cpu(t) * forCpu \in Nat /\ cpu(u) * forCpu \in Nat /\ cpu(t) * forCpu <= cpu(u) * forCpu
    BY <1>2, <1>10, TimesGrows
  <2>3. /\ memory(t) * duration \in Nat /\ memory(u) * duration \in Nat
        /\ memory(t) * duration <= memory(u) * duration
    BY <1>2, <1>7, TimesGrows
  <2> QED
    BY <2>1, <2>2, <2>3
<1> HIDE DEF called, worked
<1> QED
  BY <1>1, <1>11, <1>12

LEMMA ServerlessGrows ==
  ASSUME NEW provider \in {"aws", "azure", "gcp"}, NEW list, Rated(list), NEW t, NEW u, ServerlessGrown(t, u),
         NEW c \in ServerlessCandidates(provider, list, t), NEW d \in ServerlessCandidates(provider, list, u),
         c.row = d.row
  PROVE  c.price \in Nat /\ d.price \in Nat /\ c.price <= d.price
<1> DEFINE OfTier(tier) == Restrict(list, {i \in DOMAIN list : ConsumptionUnlessSaid(list[i].tier) = tier})
           rows(tier) == IF provider = "azure" THEN OfTier(tier) ELSE list
<1>1. ASSUME NEW v, NEW e \in ServerlessCandidates(provider, list, v)
      PROVE  \E sku, tier : e = ServerlessOffer(sku, provider, tier, rows(tier), v)
  <2>1. CASE provider = "aws"
    <3>1. e = ServerlessOffer(1, "aws", "consumption", list, v)
      BY <1>1, <2>1 DEF ServerlessCandidates, When
    <3> QED
      BY <2>1, <3>1
  <2>2. CASE provider = "azure"
    <3>1. \E tier : e = ServerlessOffer(AzureTiers[tier], "azure", tier, OfTier(tier), v)
      BY <1>1, <2>2 DEF ServerlessCandidates
    <3> QED
      BY <2>2, <3>1
  <2>3. CASE provider = "gcp"
    <3>1. e = ServerlessOffer(1, "gcp", v.tier, list, v)
      BY <1>1, <2>3 DEF ServerlessCandidates, When
    <3> QED
      BY <2>3, <3>1
  <2> QED
    BY <2>1, <2>2, <2>3
<1>2. ASSUME NEW sku, NEW tier, NEW some, NEW v
      PROVE  LET e == ServerlessOffer(sku, provider, tier, some, v)
             IN  e.row.tier = tier /\ e.price = ServerlessCost(provider, tier, some, v)
  BY DEF ServerlessOffer, Candidate
<1>3. \A tier : Rated(rows(tier))
  <2>1. \A tier : Rated(OfTier(tier))
    BY PartIsRated
  <2> QED
    BY <2>1
<1> HIDE DEF rows
<1>4. PICK sku, tier : c = ServerlessOffer(sku, provider, tier, rows(tier), t)
  BY <1>1
<1>5. PICK other, same : d = ServerlessOffer(other, provider, same, rows(same), u)
  BY <1>1
<1>6. /\ c.row.tier = tier /\ c.price = ServerlessCost(provider, tier, rows(tier), t)
      /\ d.row.tier = same /\ d.price = ServerlessCost(provider, same, rows(same), u)
  BY <1>2, <1>4, <1>5
<1>7. same = tier
  BY <1>6
<1> QED
  BY <1>3, <1>6, <1>7, ServerlessCostGrows

\* The categories whose offers are the rows themselves.
LEMMA RowOffer ==
  ASSUME NEW ask, ProperAsk(ask), ask.category \in {"compute", "storage", "network", "kubernetes"},
         NEW c \in Candidates(ask)
  PROVE  c.price = c.row.price /\ c.price \in Nat
<1>1. ASSUME NEW sku, NEW row, NEW distance, NEW missing, NEW price
      PROVE  Candidate(sku, row, distance, missing, price).row = row /\ Candidate(sku, row, distance, missing, price).price = price
  BY DEF Candidate
<1>2. ASSUME NEW r, NEW ordinal, NEW wanted, NEW attribute
      PROVE  ByOrdinal(r, ordinal, wanted, attribute).row = r /\ ByOrdinal(r, ordinal, wanted, attribute).price = r.price
  <2> DEFINE distance == IF {wanted, r.class} \subseteq DOMAIN ordinal
                           THEN 50 * Span(ordinal[r.class], ordinal[wanted]) ELSE 0
             missing == IF wanted # "" /\ r.class \notin DOMAIN ordinal THEN {attribute} ELSE {}
  <2>1. ByOrdinal(r, ordinal, wanted, attribute) = Candidate(r.sku, r, distance, missing, r.price)
    BY DEF ByOrdinal
  <2> HIDE DEF distance, missing
  <2> QED
    BY <1>1, <2>1
<1>3. \E r \in Rows(ask.list) : c.row = r /\ c.price = r.price
  <2>1. CASE ask.category = "compute"
    <3>1. PICK r \in Rows(ask.list) :
            c = Candidate(r.sku, r, Off(r.vcpu, ask.target.vcpu) + Off(r.ram, ask.target.ram), {}, r.price)
      BY <2>1 DEF Candidates, ComputeCandidates
    <3> QED
      BY <1>1, <3>1
  <2>2. CASE ask.category = "storage"
    BY <2>2, <1>2 DEF Candidates, StorageCandidates
  <2>3. CASE ask.category = "network"
    <3>1. c \in NetworkCandidates(ask.list, ask.target)
      BY <2>3 DEF Candidates
    <3>2. PICK r \in Rows(ask.list) :
            c = IF r.class \in Isolated THEN Candidate(r.sku, r, 0, {}, r.price)
                                        ELSE ByOrdinal(r, TransferOrdinal, ask.target.class, "transfer_type")
      BY <3>1 DEF NetworkCandidates
    <3> QED
      BY <1>1, <1>2, <3>2
  <2>4. CASE ask.category = "kubernetes"
    BY <2>4, <1>1 DEF Candidates, KubernetesCandidates
  <2> QED
    BY <2>1, <2>2, <2>3, <2>4
<1> QED
  BY <1>3, ReadIsPriceable DEF Priceable, Rows

LEMMA RdbmsOffer ==
  ASSUME NEW list, NEW t, NEW c \in RdbmsCandidates(list, t)
  PROVE  c.row \in Rows(list) /\ c.price = RdbmsPrice(list, c.row, t)
<1>1. PICK r \in RdbmsInstances(list) : c = RdbmsCandidate(list, r, t)
  BY DEF RdbmsCandidates
<1>2. c.row = r /\ c.price = RdbmsPrice(list, r, t)
  BY <1>1 DEF RdbmsCandidate, Candidate
<1> QED
  BY <1>2 DEF RdbmsInstances

\* The same request for more, of the same rows.
AsksMore(a, b) ==
  /\ ProperAsk(a) /\ ProperAsk(b)
  /\ b.provider = a.provider /\ b.category = a.category /\ b.list = a.list
  /\ GrowsTo(a.target, b.target)

LEMMA OffersGrow ==
  ASSUME NEW a, NEW b, AsksMore(a, b), NEW c \in Candidates(a), NEW d \in Candidates(b), c.row = d.row
  PROVE  c.price \in Nat /\ d.price \in Nat /\ c.price <= d.price
<1> DEFINE t == a.target
           u == b.target
           list == a.list
<1>1. /\ a.provider \in {"aws", "azure", "gcp"} /\ a.category \in MatchCategories
      /\ t \in TargetFields[a.category] /\ u \in TargetFields[a.category]
      /\ ProperAsk(a) /\ ProperAsk(b) /\ b.provider = a.provider /\ b.category = a.category /\ b.list = list
      /\ GrowsTo(t, u)
  BY MatchAssumption DEF AsksMore, ProperAsk
<1>2. CASE a.category \in {"compute", "storage", "network", "kubernetes"}
  <2>1. /\ c.price = c.row.price /\ c.price \in Nat
        /\ d.price = d.row.price /\ d.price \in Nat
    BY <1>1, <1>2, RowOffer
  <2> QED
    BY <2>1
<1>3. CASE a.category = "database_rdbms"
  <2>1. c \in RdbmsCandidates(list, t) /\ d \in RdbmsCandidates(list, u)
    BY <1>1, <1>3 DEF Candidates
  <2>2. /\ c.row \in Rows(list) /\ c.price = RdbmsPrice(list, c.row, t)
        /\ d.price = RdbmsPrice(list, c.row, u)
    BY <2>1, RdbmsOffer
  <2> QED
    BY <1>1, <1>3, <2>2, RdbmsGrows
<1>4. CASE a.category = "database_nosql"
  <2>1. c \in NoSQLCandidates(a.provider, list, t) /\ d \in NoSQLCandidates(a.provider, list, u)
    BY <1>1, <1>4 DEF Candidates
  <2>2. Priceable(list)
    BY <1>1, ReadIsPriceable
  <2> QED
    BY <1>1, <1>4, <2>1, <2>2, NoSQLGrows
<1>5. CASE a.category = "serverless"
  <2> DEFINE rows == OfArchitecture(list, t)
  <2>1. ServerlessGrown(WithWorkload(t), WithWorkload(u)) /\ t.arch = u.arch
    BY <1>1, <1>5, WorkloadGrown
  <2>2. rows = OfArchitecture(list, u) /\ Rated(rows)
    <3>1. Rated(list)
      BY <1>1, <1>5, ReadIsRated
    <3> QED
      BY <2>1, <3>1, PartIsRated DEF OfArchitecture
  <2>3. /\ c \in ServerlessCandidates(a.provider, rows, WithWorkload(t))
        /\ d \in ServerlessCandidates(a.provider, rows, WithWorkload(u))
    BY <1>1, <1>5, <2>2 DEF Candidates
  <2> QED
    BY <1>1, <2>1, <2>2, <2>3, ServerlessGrows
<1> QED
  BY <1>1, <1>2, <1>3, <1>4, <1>5 DEF MatchCategories

\* What is asked of an offer costs no less when it is more.
LEMMA CostGrows ==
  ASSUME NEW a, NEW b, AsksMore(a, b), NEW p \in Nat, NEW q \in Nat, p <= q
  PROVE  Cost(a, p) \in Nat /\ Cost(b, q) \in Nat /\ Cost(a, p) <= Cost(b, q)
<1> DEFINE t == a.target
           u == b.target
<1>1. /\ a.category \in MatchCategories /\ b.category = a.category /\ b.provider = a.provider
      /\ t \in TargetFields[a.category] /\ u \in TargetFields[a.category] /\ GrowsTo(t, u)
  BY MatchAssumption DEF AsksMore, ProperAsk
<1>2. CASE a.category \in {"storage", "network"}
  <2>1. t.size \in Nat /\ u.size \in Nat /\ t.size <= u.size /\ (t.size = 0 <=> u.size = 0)
    <3>1. t \in [size : Nat, class : STRING] /\ u \in [size : Nat, class : STRING]
      <4>1. TargetFields["storage"] = [size : Nat, class : STRING] /\ TargetFields["network"] = [size : Nat, class : STRING]
        BY DEF TargetFields
      <4> QED
        BY <1>1, <1>2, <4>1
    <3> QED
      BY <1>1, <3>1 DEF GrowsTo, Grows, Volumes
  <2> DEFINE m == OrDefault(t.size, 1)
             n == OrDefault(u.size, 1)
  <2>2. m \in Nat /\ n \in Nat /\ m <= n
    BY <2>1 DEF OrDefault
  <2>3. Cost(a, p) = m * p /\ Cost(b, q) = n * q
    BY <1>1, <1>2 DEF Cost
  <2> HIDE DEF m, n
  <2> QED
    BY <2>2, <2>3, BothGrow
<1>3. HoursInMonth * p \in Nat /\ HoursInMonth * q \in Nat /\ HoursInMonth * p <= HoursInMonth * q
  BY DEF HoursInMonth
<1>4. CASE a.category = "compute"
  BY <1>1, <1>3, <1>4 DEF Cost
<1>5. CASE a.category = "kubernetes"
  <2>1. t.topology = u.topology
    BY <1>1, <1>5 DEF TargetFields, GrowsTo, Volumes
  <2> DEFINE m == HoursInMonth * p
             n == HoursInMonth * q
             credited == a.provider = "gcp" /\ t.topology \in {"zonal", "autopilot"}
  <2>2. /\ Cost(a, p) = IF credited THEN Max({0, m - GkeCredit}) ELSE m
        /\ Cost(b, q) = IF credited THEN Max({0, n - GkeCredit}) ELSE n
    BY <1>1, <1>5, <2>1 DEF Cost
  <2>3. GkeCredit \in Nat
    BY DEF GkeCredit
  <2> HIDE DEF m, n, credited
  <2>4. m \in Nat /\ n \in Nat /\ m <= n
    BY <1>3 DEF m, n
  <2>5. /\ Max({0, m - GkeCredit}) = IF 0 <= m - GkeCredit THEN m - GkeCredit ELSE 0
        /\ Max({0, n - GkeCredit}) = IF 0 <= n - GkeCredit THEN n - GkeCredit ELSE 0
    BY <2>3, <2>4, MaxOfTwo
  <2> QED
    BY <2>2, <2>3, <2>4, <2>5
<1>6. CASE a.category \in {"database_rdbms", "database_nosql", "serverless"}
  BY <1>1, <1>6 DEF Cost
<1> QED
  BY <1>1, <1>2, <1>4, <1>5, <1>6 DEF MatchCategories

LEMMA AnswersGrow ==
  ASSUME NEW a, NEW b, AsksMore(a, b), NEW x \in Answers(a), NEW y \in Answers(b),
         x.outcome = "priced", y.outcome = "priced", x.best.row = y.best.row, x.fx = y.fx
  PROVE  x.cost \in Nat /\ y.cost \in Nat /\ y.cost >= x.cost
<1>1. PICK c \in Candidates(a) : x.best = c /\ x.cost = Cost(a, IF x.fx \in {"fresh", "fallback"} THEN MatchRate * c.price ELSE c.price)
  BY PricedIsCandidate
<1>2. PICK d \in Candidates(b) : y.best = d /\ y.cost = Cost(b, IF y.fx \in {"fresh", "fallback"} THEN MatchRate * d.price ELSE d.price)
  BY PricedIsCandidate
<1>3. c.price \in Nat /\ d.price \in Nat /\ c.price <= d.price
  BY <1>1, <1>2, OffersGrow
<1> DEFINE p == IF x.fx \in {"fresh", "fallback"} THEN MatchRate * c.price ELSE c.price
           q == IF x.fx \in {"fresh", "fallback"} THEN MatchRate * d.price ELSE d.price
<1>4. p \in Nat /\ q \in Nat /\ p <= q
  BY <1>3 DEF MatchRate
<1>5. x.cost = Cost(a, p) /\ y.cost = Cost(b, q)
  BY <1>1, <1>2
<1> HIDE DEF p, q
<1>6. Cost(a, p) \in Nat /\ Cost(b, q) \in Nat /\ Cost(a, p) <= Cost(b, q)
  BY <1>4, CostGrows
<1> QED
  BY <1>5, <1>6

\* For any requests and lists of rows: more of the same offer never costs less,
\* net of what is free, whatever the clock, the capacity unit or the joined row
\* (serverless_match.go:296-456, database_nosql_match.go:214-543).
THEOREM MoreNeverCostsLess == MatchSpec => GrowthNeverCheaper
<1>1. MatchInv /\ [MatchNext]_matchVars => [IsGrown => matchAnswer'.cost >= matchAnswer.cost]_matchVars
  <2> SUFFICES ASSUME MatchInv, MatchNext, IsGrown PROVE matchAnswer'.cost >= matchAnswer.cost
    OBVIOUS
  <2>1. CASE Ask
    <3>1. matchAnswer = [outcome |-> "none"]
      BY <2>1, MatchAssumption DEF Ask, MatchInv, ProperAsk, NothingAsked
    <3> QED
      BY <3>1 DEF IsGrown
  <2>2. CASE AskForMore
    <3>1. ProperAsk(matchAsk) /\ matchAnswer \in Answers(matchAsk)
      BY <2>2 DEF AskForMore, MatchInv
    <3>2. PICK t \in MatchTargets[matchAsk.category] :
            /\ \A f \in DOMAIN t : IF f \in Volumes THEN matchAsk.target[f] <= t[f] ELSE matchAsk.target[f] = t[f]
            /\ MatchAndCalculate([matchAsk EXCEPT !.target = t])
      BY <2>2 DEF AskForMore
    <3>3. matchAsk' = [matchAsk EXCEPT !.target = t] /\ matchAnswer' \in Answers(matchAsk')
      BY <3>2 DEF MatchAndCalculate
    <3>4. ProperAsk(matchAsk') /\ matchAsk'.provider = matchAsk.provider /\ matchAsk'.category = matchAsk.category
          /\ matchAsk'.list = matchAsk.list
      BY <3>1, <3>3 DEF ProperAsk
    <3>5. matchAsk'.target = t
      BY <3>1, <3>3 DEF ProperAsk
    <3>6. AsksMore(matchAsk, matchAsk')
      BY <3>1, <3>2, <3>4, <3>5 DEF AsksMore, GrowsTo, IsGrown
    <3> QED
      BY <3>1, <3>3, <3>6, AnswersGrow DEF IsGrown
  <2> QED
    BY <2>1, <2>2 DEF MatchNext
<1> QED
  BY <1>1, MatchInvariant, PTL DEF MatchSpec, GrowthNeverCheaper

\* A request asks for no less than itself.
LEMMA AsksForItself ==
  ASSUME NEW ask, ProperAsk(ask)
  PROVE  AsksMore(ask, ask)
<1> DEFINE t == ask.target
<1>1. ask.category \in MatchCategories /\ t \in TargetFields[ask.category]
  BY MatchAssumption DEF ProperAsk
<1>2. \A f \in DOMAIN t : f \in Volumes => t[f] \in Nat
  <2>1. CASE ask.category = "compute"
    BY <1>1, <2>1 DEF TargetFields, Volumes
  <2>2. CASE ask.category = "storage"
    BY <1>1, <2>2 DEF TargetFields, Volumes
  <2>3. CASE ask.category = "network"
    BY <1>1, <2>3 DEF TargetFields, Volumes
  <2>4. CASE ask.category = "kubernetes"
    BY <1>1, <2>4 DEF TargetFields, Volumes
  <2>5. CASE ask.category = "database_rdbms"
    BY <1>1, <2>5 DEF TargetFields, Volumes
  <2>6. CASE ask.category = "database_nosql"
    BY <1>1, <2>6 DEF TargetFields, Volumes
  <2>7. CASE ask.category = "serverless"
    BY <1>1, <2>7 DEF TargetFields, Volumes
  <2> QED
    BY <1>1, <2>1, <2>2, <2>3, <2>4, <2>5, <2>6, <2>7 DEF MatchCategories
<1>3. \A f \in DOMAIN t : IF f \in Volumes THEN t[f] <= t[f] ELSE t[f] = t[f]
  BY <1>2
<1> QED
  BY <1>3 DEF AsksMore, GrowsTo

\* Candidates that are nearest are equally near, and no price is quoted when all
\* of them are too far.
LEMMA PricedIsNear ==
  ASSUME NEW ask, ProperAsk(ask), NEW answer \in Answers(ask), answer.outcome = "priced"
  PROVE  answer.quality \in {"exact", "close", "approximate"}
<1> DEFINE near == Nearest(Candidates(ask))
           quality(c) == Quality(ask.category, c.distance)
<1>1. NoMatch(ask) \in {"architecture_unsupported", "engine_mismatch", "no_match"}
  BY DEF NoMatch
<1>2. /\ answer \in {Priced(ask, c, how) : c \in near, how \in MatchConversions(ask)}
      /\ \E c \in near : quality(c) # "none"
  BY <1>1 DEF Answers
<1>3. PICK c \in near : answer.quality = quality(c)
  BY <1>2 DEF Priced
<1>4. PICK d \in near : quality(d) # "none"
  BY <1>2
<1>5. c \in Candidates(ask) /\ d \in Candidates(ask)
  BY DEF Nearest
<1>6. c.distance = d.distance
  <2>1. c.distance \in Nat /\ d.distance \in Nat
    BY <1>5, ExactAgrees
  <2>2. /\ c.distance < d.distance \/ c.distance = d.distance
        /\ d.distance < c.distance \/ d.distance = c.distance
    BY <1>5 DEF Nearest
  <2> QED
    BY <2>1, <2>2
<1> QED
  BY <1>3, <1>4, <1>6, QualityRule

\* Type correctness of the match: what is priced has a cost and a quality, for
\* any requests, rows and lists.
THEOREM MatchTypesCorrect == MatchSpec => []MatchTypeOK
<1>1. MatchInv => MatchTypeOK
  <2> SUFFICES ASSUME ProperAsk(matchAsk), matchAnswer \in Answers(matchAsk) PROVE MatchTypeOK
    BY DEF MatchInv, MatchTypeOK
  <2>1. <<matchAsk.provider, matchAsk.category>> \in DOMAIN MatchLists
    BY DEF ProperAsk
  <2>2. matchAnswer.outcome \in {"priced", "no_data", "no_match", "engine_mismatch", "architecture_unsupported"}
    <3>1. NoMatch(matchAsk) \in {"architecture_unsupported", "engine_mismatch", "no_match"}
      BY DEF NoMatch
    <3>2. \A c, how : Priced(matchAsk, c, how).outcome = "priced"
      BY DEF Priced
    <3> QED
      BY <3>1, <3>2 DEF Answers
  <2>3. ASSUME matchAnswer.outcome = "priced" PROVE matchAnswer.cost \in Nat
    BY <2>3, AsksForItself, AnswersGrow
  <2>4. ASSUME matchAnswer.outcome = "priced"
        PROVE  matchAnswer.quality \in {"exact", "close", "approximate"}
    BY <2>4, PricedIsNear
  <2> QED
    BY <2>1, <2>2, <2>3, <2>4 DEF MatchTypeOK
<1> QED
  BY <1>1, MatchInvariant, PTL

-----------------------------------------------------------------------------
(* The contract of the transports.                                          *)

\* Two lists of fields that refuse the same in a request, field by field.
RefuseTheSame(f, g, given) ==
  /\ DOMAIN f = DOMAIN g /\ DOMAIN f \subseteq Nat
  /\ \A i \in DOMAIN f : /\ f[i].name = g[i].name
                         /\ Meaning(f[i], given) = Refused <=> Meaning(g[i], given) = Refused

LEMMA RefusedAlike ==
  ASSUME NEW f, NEW g, NEW given, RefuseTheSame(f, g, given)
  PROVE  Parse(f, given).refused = Parse(g, given).refused
<1> DEFINE refused(h) == {i \in DOMAIN h : Meaning(h[i], given) = Refused}
<1>1. refused(f) = refused(g)
  BY DEF RefuseTheSame
<1>2. refused(f) # {} => Min(refused(f)) \in DOMAIN f
  BY MinIsLeast DEF RefuseTheSame
<1>3. refused(f) # {} => f[Min(refused(f))].name = g[Min(refused(g))].name
  BY <1>1, <1>2 DEF RefuseTheSame
<1>4. \A h : Parse(h, given).refused = IF refused(h) # {} THEN h[Min(refused(h))].name ELSE ""
  BY DEF Parse, Refusal
<1> HIDE DEF refused
<1> QED
  BY <1>1, <1>3, <1>4

\* Two lists of fields that mean the same in a request: field by field.
MeanTheSame(f, g, given) ==
  /\ DOMAIN f = DOMAIN g /\ DOMAIN f \subseteq Nat
  /\ \A i \in DOMAIN f : /\ f[i].name = g[i].name
                         /\ Meaning(f[i], given) = Meaning(g[i], given)

LEMMA ParsedAlike ==
  ASSUME NEW f, NEW g, NEW given, MeanTheSame(f, g, given)
  PROVE  Parse(f, given) = Parse(g, given)
<1> DEFINE refused(h) == {i \in DOMAIN h : Meaning(h[i], given) = Refused}
           target(h) == {<<h[i].name, Meaning(h[i], given)>> : i \in DOMAIN h}
<1>1. refused(f) = refused(g) /\ target(f) = target(g)
  BY DEF MeanTheSame
<1>2. refused(f) # {} => Min(refused(f)) \in DOMAIN f
  BY MinIsLeast DEF MeanTheSame
<1>3. refused(f) # {} => f[Min(refused(f))].name = g[Min(refused(g))].name
  BY <1>1, <1>2 DEF MeanTheSame
<1>4. \A h : Parse(h, given) = IF refused(h) # {} THEN Refusal(h[Min(refused(h))].name)
                              ELSE [refused |-> "", target |-> target(h)]
  BY DEF Parse
<1> HIDE DEF refused, target
<1> QED
  BY <1>1, <1>3, <1>4

\* What two lists are joined with does not set them apart.
LEMMA JoinedAlike ==
  ASSUME NEW S, NEW s \in Seq(S), NEW f \in Seq(S), NEW g \in Seq(S), NEW given,
         MeanTheSame(f, g, given)
  PROVE  MeanTheSame(s \o f, s \o g, given)
<1> USE DEF MeanTheSame
<1>1. Len(f) = Len(g)
  OBVIOUS
<1>2. DOMAIN (s \o f) = 1 .. (Len(s) + Len(f)) /\ DOMAIN (s \o g) = 1 .. (Len(s) + Len(f))
  <2>1. s \o f \in Seq(S) /\ s \o g \in Seq(S)
    OBVIOUS
  <2>2. Len(s \o f) = Len(s) + Len(f) /\ Len(s \o g) = Len(s) + Len(g)
    OBVIOUS
  <2> QED
    BY <1>1, <2>1, <2>2
<1>3. \A i \in 1 .. (Len(s) + Len(f)) :
        /\ (s \o f)[i] = IF i <= Len(s) THEN s[i] ELSE f[i - Len(s)]
        /\ (s \o g)[i] = IF i <= Len(s) THEN s[i] ELSE g[i - Len(s)]
  BY <1>1
<1>4. \A i \in 1 .. (Len(s) + Len(f)) : i <= Len(s) \/ i - Len(s) \in DOMAIN f
  OBVIOUS
<1> QED
  BY <1>2, <1>3, <1>4

LEMMA FieldMeans ==
  ASSUME NEW n, NEW m, NEW d, NEW given
  PROVE  /\ Field(n, m, d).name = n
         /\ Meaning(Field(n, m, d), given) =
              IF n \notin DOMAIN given THEN d
              ELSE IF given[n] \in DOMAIN m THEN m[given[n]] ELSE Refused
<1> DEFINE f == Field(n, m, d)
<1>1. f.name = n /\ f.meaning = m /\ f.default = d
  BY DEF Field
<1> HIDE DEF f
<1>2. Meaning(f, given) = IF n \notin DOMAIN given THEN d
                          ELSE IF given[n] \in DOMAIN m THEN m[given[n]] ELSE Refused
  BY <1>1 DEF Meaning
<1> QED
  BY <1>1, <1>2 DEF f

\* A request that both transports can carry.
Plain(given) == \A n \in DOMAIN given : given[n] \notin Untyped

\* A request that does not leave a name blank.
Says(given, n) == n \in DOMAIN given => given[n] # "blank"

\* Two fields that differ in what a request does not say mean the same.
LEMMA FieldsAlike ==
  ASSUME NEW n, NEW m, NEW k, NEW d, NEW given, NEW unsaid, n \in DOMAIN given => given[n] \notin unsaid,
         \A v : v \notin unsaid =>
           (v \in DOMAIN m <=> v \in DOMAIN k) /\ (v \in DOMAIN m => m[v] = k[v])
  PROVE  Meaning(Field(n, m, d), given) = Meaning(Field(n, k, d), given)
<1>1. CASE n \in DOMAIN given
  <2>1. given[n] \notin unsaid
    BY <1>1
  <2> QED
    BY <1>1, <2>1, FieldMeans
<1>2. CASE n \notin DOMAIN given
  BY <1>2, FieldMeans
<1> QED
  BY <1>1, <1>2

\* A number that the query string alone can carry; a switch that it reads
\* leniently; a name that is left blank, refused by neither.
LEMMA NumbersAlike ==
  ASSUME NEW n, NEW A, NEW d, NEW given, Plain(given)
  PROVE  Meaning(Field(n, Each(A \cup {"nan"}), d), given) = Meaning(Field(n, Each(A), d), given)
<1> DEFINE m == Each(A \cup {"nan"})
           k == Each(A)
<1>1. \A v : v \notin Untyped =>
        (v \in DOMAIN m <=> v \in DOMAIN k) /\ (v \in DOMAIN m => m[v] = k[v])
  BY DEF Each, Untyped
<1> HIDE DEF m, k
<1>2. Meaning(Field(n, m, d), given) = Meaning(Field(n, k, d), given)
  BY <1>1, FieldsAlike DEF Plain
<1> QED
  BY <1>2 DEF m, k

LEMMA SwitchesAlike ==
  ASSUME NEW n, NEW default, NEW d, NEW given, Plain(given)
  PROVE  Meaning(Field(n, Loose(default), d), given) = Meaning(Field(n, Switch, d), given)
<1> DEFINE m == Loose(default)
           k == Switch
<1>1. \A v : v \notin Untyped =>
        (v \in DOMAIN m <=> v \in DOMAIN k) /\ (v \in DOMAIN m => m[v] = k[v])
  BY DEF Loose, Switch, Each, Untyped
<1> HIDE DEF m, k
<1>2. Meaning(Field(n, m, d), given) = Meaning(Field(n, k, d), given)
  BY <1>1, FieldsAlike DEF Plain
<1> QED
  BY <1>2 DEF m, k

LEMMA NamesAlike ==
  ASSUME NEW n, NEW a, NEW b, NEW d, NEW given, Says(given, n)
  PROVE  Meaning(Field(n, ResolvedTo(a), d), given) = Meaning(Field(n, ResolvedTo(b), d), given)
<1> DEFINE m == ResolvedTo(a)
           k == ResolvedTo(b)
           unsaid == {"blank"}
<1>1. \A v : v \notin unsaid =>
        (v \in DOMAIN m <=> v \in DOMAIN k) /\ (v \in DOMAIN m => m[v] = k[v])
  BY DEF ResolvedTo
<1>0. n \in DOMAIN given => given[n] \notin unsaid
  BY DEF Says
<1> HIDE DEF m, k, unsaid
<1>2. Meaning(Field(n, m, d), given) = Meaning(Field(n, k, d), given)
  BY <1>0, <1>1, FieldsAlike
<1> QED
  BY <1>2 DEF m, k

LEMMA NamesRefusedAlike ==
  ASSUME NEW n, NEW a, NEW b, NEW d, NEW given, a # Refused, b # Refused
  PROVE  Meaning(Field(n, ResolvedTo(a), d), given) = Refused
           <=> Meaning(Field(n, ResolvedTo(b), d), given) = Refused
<1> DEFINE m == ResolvedTo(a)
           k == ResolvedTo(b)
<1>1. DOMAIN m = DOMAIN k /\ \A v \in DOMAIN m : m[v] # Refused /\ k[v] # Refused
  BY DEF ResolvedTo, Refused
<1> HIDE DEF m, k
<1>2. Meaning(Field(n, m, d), given) = Refused <=> Meaning(Field(n, k, d), given) = Refused
  BY <1>1, FieldMeans
<1> QED
  BY <1>2 DEF m, k

LEMMA ComputeAlike ==
  ASSUME NEW given, Plain(given)
  PROVE  Parse(RestCompute, given) = Parse(McpCompute, given)
<1> DEFINE region == Field("region", Free, "us-east")
           f1 == Field("strict_family", Loose("true"), "true")
           g1 == Field("strict_family", Switch, "true")
           f2 == Field("family", Free, "")
           f3 == Field("vcpu", Each(Positive \cup {"nan"}), "zero")
           g3 == Field("vcpu", Each(Positive), "zero")
           f4 == Field("ram_gb", Each(Positive \cup {"nan"}), "zero")
           g4 == Field("ram_gb", Each(Positive), "zero")
           S == {region, f1, f2, f3, f4, g1, g3, g4}
<1>1. RestCompute = <<region>> \o <<f1, f2, f3, f4>> /\ McpCompute = <<region>> \o <<g1, f2, g3, g4>>
  BY DEF RestCompute, McpCompute, Everywhere
<1>2. /\ f1.name = g1.name /\ f3.name = g3.name /\ f4.name = g4.name
      /\ Meaning(f1, given) = Meaning(g1, given)
      /\ Meaning(f3, given) = Meaning(g3, given)
      /\ Meaning(f4, given) = Meaning(g4, given)
  BY FieldMeans, SwitchesAlike, NumbersAlike
<1> HIDE DEF region, f1, f2, f3, f4, g1, g3, g4
<1>3. MeanTheSame(<<f1, f2, f3, f4>>, <<g1, f2, g3, g4>>, given)
  BY <1>2 DEF MeanTheSame
<1>4. <<region>> \in Seq(S) /\ <<f1, f2, f3, f4>> \in Seq(S) /\ <<g1, f2, g3, g4>> \in Seq(S)
  OBVIOUS
<1>5. MeanTheSame(RestCompute, McpCompute, given)
  BY <1>1, <1>3, <1>4, JoinedAlike
<1> QED
  BY <1>5, ParsedAlike

LEMMA DatabaseAlike ==
  ASSUME NEW given, Plain(given)
  PROVE  Parse(RestDatabase, given) = Parse(McpDatabase, given)
<1> DEFINE region == Field("region", Free, "us-east")
           engine == Field("engine", ResolvedTo(""), "")
           f2 == Field("vcpu", Each(Positive \cup {"nan"}), "zero")
           g2 == Field("vcpu", Each(Positive), "zero")
           f3 == Field("ram_gb", Each(Positive \cup {"nan"}), "zero")
           g3 == Field("ram_gb", Each(Positive), "zero")
           f4 == Field("storage_gb", Each(AtMost \cup {"nan"}), "zero")
           g4 == Field("storage_gb", Each(AtMost), "zero")
           iops == Field("iops", Each(Whole), "none")
           f6 == Field("multi_az", Loose("false"), "false")
           g6 == Field("multi_az", Switch, "false")
           family == Field("storage_family", Free, "")
           S == {region, engine, f2, g2, f3, g3, f4, g4, iops, f6, g6, family}
           rest == <<engine, f2, f3, f4, iops, f6, family>>
           mcp == <<engine, g2, g3, g4, iops, g6, family>>
<1>1. RestDatabase = <<region>> \o rest /\ McpDatabase = <<region>> \o mcp
  BY DEF RestDatabase, McpDatabase, Everywhere
<1>2. f2.name = g2.name /\ f3.name = g3.name /\ f4.name = g4.name /\ f6.name = g6.name
  BY DEF Field
<1>0. /\ Meaning(f2, given) = Meaning(g2, given)
      /\ Meaning(f3, given) = Meaning(g3, given)
      /\ Meaning(f4, given) = Meaning(g4, given)
      /\ Meaning(f6, given) = Meaning(g6, given)
  <2>1. Meaning(f6, given) = Meaning(g6, given)
    BY SwitchesAlike
  <2>2. Meaning(f2, given) = Meaning(g2, given)
    BY NumbersAlike
  <2>3. Meaning(f3, given) = Meaning(g3, given)
    BY NumbersAlike
  <2>4. Meaning(f4, given) = Meaning(g4, given)
    BY NumbersAlike
  <2> QED
    BY <2>1, <2>2, <2>3, <2>4
<1> HIDE DEF region, engine, f2, g2, f3, g3, f4, g4, iops, f6, g6, family
<1>3. MeanTheSame(rest, mcp, given)
  BY <1>0, <1>2 DEF MeanTheSame
<1>4. <<region>> \in Seq(S) /\ rest \in Seq(S) /\ mcp \in Seq(S)
  OBVIOUS
<1>5. MeanTheSame(RestDatabase, McpDatabase, given)
  BY <1>1, <1>3, <1>4, JoinedAlike
<1> QED
  BY <1>5, ParsedAlike

LEMMA NoSQLAlike ==
  ASSUME NEW given, Plain(given)
  PROVE  Parse(RestNoSQL, given) = Parse(McpNoSQL, given)
<1> DEFINE region == Field("region", Free, "us-east")
           model == Field("data_model", ResolvedTo(""), "")
           mode == Field("pricing_mode", ResolvedTo("provisioned"), "provisioned")
           f3 == Field("read_units", Each(NonNegative \cup {"nan"}), "zero")
           g3 == Field("read_units", Each(NonNegative), "zero")
           f4 == Field("write_units", Each(NonNegative \cup {"nan"}), "zero")
           g4 == Field("write_units", Each(NonNegative), "zero")
           f5 == Field("storage_gb", Each(NonNegative \cup {"nan"}), "zero")
           g5 == Field("storage_gb", Each(NonNegative), "zero")
           class == Field("storage_class", Free, "")
           f7 == Field("multi_region", Loose("false"), "false")
           g7 == Field("multi_region", Switch, "false")
           S == {region, model, mode, f3, g3, f4, g4, f5, g5, class, f7, g7}
           rest == <<model, mode, f3, f4, f5, class, f7>>
           mcp == <<model, mode, g3, g4, g5, class, g7>>
<1>1. RestNoSQL = <<region>> \o rest /\ McpNoSQL = <<region>> \o mcp
  BY DEF RestNoSQL, McpNoSQL, NoSQLParams, Everywhere
<1>2. f3.name = g3.name /\ f4.name = g4.name /\ f5.name = g5.name /\ f7.name = g7.name
  BY DEF Field
<1>0. /\ Meaning(f3, given) = Meaning(g3, given)
      /\ Meaning(f4, given) = Meaning(g4, given)
      /\ Meaning(f5, given) = Meaning(g5, given)
      /\ Meaning(f7, given) = Meaning(g7, given)
  <2>1. Meaning(f7, given) = Meaning(g7, given)
    BY SwitchesAlike
  <2>2. Meaning(f3, given) = Meaning(g3, given)
    BY NumbersAlike
  <2>3. Meaning(f4, given) = Meaning(g4, given)
    BY NumbersAlike
  <2>4. Meaning(f5, given) = Meaning(g5, given)
    BY NumbersAlike
  <2> QED
    BY <2>1, <2>2, <2>3, <2>4
<1> HIDE DEF region, model, mode, f3, g3, f4, g4, f5, g5, class, f7, g7
<1>3. MeanTheSame(rest, mcp, given)
  BY <1>0, <1>2 DEF MeanTheSame
<1>4. <<region>> \in Seq(S) /\ rest \in Seq(S) /\ mcp \in Seq(S)
  OBVIOUS
<1>5. MeanTheSame(RestNoSQL, McpNoSQL, given)
  BY <1>1, <1>3, <1>4, JoinedAlike
<1> QED
  BY <1>5, ParsedAlike

\* A parameter of an endpoint.
LEMMA EndpointsAlike ==
  ASSUME NEW e \in RequestCategories, NEW given, Plain(given)
  PROVE  Parse(RestFields[e], given) = Parse(McpFields[e], given)
<1>1. /\ RestFields[e] = CASE e = "compute" -> RestCompute [] e = "storage" -> RestStorage
                           [] e = "network" -> RestNetwork [] e = "database_rdbms" -> RestDatabase
                           [] e = "database_nosql" -> RestNoSQL [] e = "kubernetes" -> RestKubernetes
                           [] e = "serverless" -> RestServerless
      /\ McpFields[e] = CASE e = "compute" -> McpCompute [] e = "storage" -> McpStorage
                          [] e = "network" -> McpNetwork [] e = "database_rdbms" -> McpDatabase
                          [] e = "database_nosql" -> McpNoSQL [] e = "kubernetes" -> McpKubernetes
                          [] e = "serverless" -> McpServerless
  BY DEF RestFields, McpFields, RequestCategories
<1>2. /\ RestStorage = McpStorage /\ RestNetwork = McpNetwork
      /\ RestKubernetes = McpKubernetes /\ RestServerless = McpServerless
  BY DEF RestStorage, McpStorage, RestNetwork, McpNetwork, RestKubernetes, McpKubernetes,
         KubernetesParams, RestServerless, McpServerless
<1>3. CASE e = "compute"
  BY <1>1, <1>3, ComputeAlike
<1>4. CASE e = "database_rdbms"
  BY <1>1, <1>4, DatabaseAlike
<1>5. CASE e = "database_nosql"
  BY <1>1, <1>5, NoSQLAlike
<1>6. CASE e \in {"storage", "network", "kubernetes", "serverless"}
  BY <1>1, <1>2, <1>6
<1> QED
  BY <1>3, <1>4, <1>5, <1>6 DEF RequestCategories

\* A section of a body: refused alike, and the same when no name that the REST
\* body keeps is blank.
KeptNames == {"engine", "data_model", "cluster_topology"}

LEMMA SectionsAlike ==
  ASSUME NEW c \in RequestCategories, NEW given
  PROVE  /\ Parse(RestSections[c], given).refused = Parse(McpSections[c], given).refused
         /\ (\A n \in KeptNames : Says(given, n)) => Parse(RestSections[c], given) = Parse(McpSections[c], given)
<1>0. ASSUME NEW f, NEW g, RefuseTheSame(f, g, given),
             (\A n \in KeptNames : Says(given, n)) => MeanTheSame(f, g, given)
      PROVE  /\ Parse(f, given).refused = Parse(g, given).refused
             /\ (\A n \in KeptNames : Says(given, n)) => Parse(f, given) = Parse(g, given)
  BY <1>0, RefusedAlike, ParsedAlike
<1>1. ASSUME NEW n \in KeptNames
      PROVE  LET f == Field(n, ResolvedTo("blank"), "")
                 g == Field(n, ResolvedTo(""), "")
             IN  /\ f.name = g.name
                 /\ Meaning(f, given) = Refused <=> Meaning(g, given) = Refused
                 /\ (\A k \in KeptNames : Says(given, k)) => Meaning(f, given) = Meaning(g, given)
  <2> DEFINE f == Field(n, ResolvedTo("blank"), "")
             g == Field(n, ResolvedTo(""), "")
  <2>1. "blank" # Refused /\ "" # Refused
    BY DEF Refused
  <2>2. f.name = g.name
    BY DEF Field
  <2>3. Meaning(f, given) = Refused <=> Meaning(g, given) = Refused
    BY <2>1, NamesRefusedAlike
  <2>4. ASSUME \A k \in KeptNames : Says(given, k) PROVE Meaning(f, given) = Meaning(g, given)
    <3>1. Says(given, n)
      BY <2>4
    <3>2. \A a, b, d :
            Meaning(Field(n, ResolvedTo(a), d), given) = Meaning(Field(n, ResolvedTo(b), d), given)
      BY <3>1, NamesAlike
    <3> QED
      BY <3>2, Zenon
  <2>5. (\A k \in KeptNames : Says(given, k)) => Meaning(f, given) = Meaning(g, given)
    BY <2>4
  <2> QED
    BY <2>2, <2>3, <2>5, Zenon
<1>2. CASE c \in {"compute", "storage", "network", "serverless"}
  <2>1. /\ RestSections.compute = McpSections.compute /\ RestSections.storage = McpSections.storage
        /\ RestSections.network = McpSections.network /\ RestSections.serverless = McpSections.serverless
    BY DEF RestSections, McpSections, McpComputeSection, McpStorageSection, McpNetworkSection
  <2> QED
    BY <1>2, <2>1
<1>3. CASE c = "database_rdbms"
  <2> DEFINE f1 == Field("engine", ResolvedTo("blank"), "")
             g1 == Field("engine", ResolvedTo(""), "")
             vcpu == Field("vcpu", Each(Positive), Refused)
             ram == Field("ram_gb", Each(Positive), Refused)
             gb == Field("storage_gb", Each(AtMost), Refused)
             iops == Field("iops", Each(Whole), "none")
             az == Field("multi_az", Switch, "false")
             family == Field("storage_family", Free, "")
  <2>1. /\ RestSections[c] = <<f1, vcpu, ram, gb, iops, az, family>>
        /\ McpSections[c] = <<g1, vcpu, ram, gb, iops, az, family>>
    BY <1>3 DEF RestSections, McpSections, McpDatabaseSection, DatabaseSection
  <2>2. /\ f1.name = g1.name
        /\ Meaning(f1, given) = Refused <=> Meaning(g1, given) = Refused
        /\ (\A n \in KeptNames : Says(given, n)) => Meaning(f1, given) = Meaning(g1, given)
    BY <1>1 DEF KeptNames
  <2> HIDE DEF f1, g1, vcpu, ram, gb, iops, az, family
  <2>3. RefuseTheSame(<<f1, vcpu, ram, gb, iops, az, family>>, <<g1, vcpu, ram, gb, iops, az, family>>, given)
    BY <2>2 DEF RefuseTheSame
  <2>4. (\A n \in KeptNames : Says(given, n)) =>
          MeanTheSame(<<f1, vcpu, ram, gb, iops, az, family>>, <<g1, vcpu, ram, gb, iops, az, family>>, given)
    BY <2>2 DEF MeanTheSame
  <2> QED
    BY <1>0, <2>1, <2>3, <2>4
<1>4. CASE c = "database_nosql"
  <2> DEFINE f1 == Field("data_model", ResolvedTo("blank"), "")
             g1 == Field("data_model", ResolvedTo(""), "")
             mode == Field("pricing_mode", ResolvedTo("provisioned"), "provisioned")
             reads == Field("read_units", Each(NonNegative), "zero")
             writes == Field("write_units", Each(NonNegative), "zero")
             gb == Field("storage_gb", Each(NonNegative), "zero")
             class == Field("storage_class", Free, "")
             regions == Field("multi_region", Switch, "false")
             S == {f1, g1, mode, reads, writes, gb, class, regions}
             others == <<mode, reads, writes, gb, class, regions>>
  <2>1. /\ RestSections[c] = <<f1>> \o Tail(NoSQLParams)
        /\ McpSections[c] = NoSQLParams
        /\ NoSQLParams = <<g1, mode, reads, writes, gb, class, regions>>
    BY <1>4 DEF RestSections, McpSections, NoSQLParams
  <2>2. /\ f1.name = g1.name
        /\ Meaning(f1, given) = Refused <=> Meaning(g1, given) = Refused
        /\ (\A n \in KeptNames : Says(given, n)) => Meaning(f1, given) = Meaning(g1, given)
    BY <1>1 DEF KeptNames
  <2> HIDE DEF f1, g1, mode, reads, writes, gb, class, regions
  <2>3. Tail(NoSQLParams) = others
    BY <2>1
  <2>4. others \in Seq(S) /\ <<f1>> \in Seq(S)
    OBVIOUS
  <2>5. Len(others) = 6 /\ Len(<<f1>>) = 1
    OBVIOUS
  <2> DEFINE joined == <<f1>> \o others
  <2>6. joined \in Seq(S) /\ Len(joined) = 7
    BY <2>4, <2>5
  <2>7. DOMAIN joined = 1 .. 7
    BY <2>6
  <2>8. joined[1] = f1 /\ \A i \in 2 .. 7 : joined[i] = others[i - 1]
    BY <2>4, <2>5
  <2>9. \A i \in 2 .. 7 : others[i - 1] = NoSQLParams[i]
    BY <2>1
  <2>10. DOMAIN NoSQLParams = 1 .. 7 /\ NoSQLParams[1] = g1
    BY <2>1
  <2> HIDE DEF joined, others
  <2>11. \A i \in 1 .. 7 : i = 1 \/ i \in 2 .. 7
    OBVIOUS
  <2>12. RefuseTheSame(joined, NoSQLParams, given)
    BY <2>2, <2>7, <2>8, <2>9, <2>10, <2>11 DEF RefuseTheSame
  <2>13. (\A n \in KeptNames : Says(given, n)) => MeanTheSame(joined, NoSQLParams, given)
    BY <2>2, <2>7, <2>8, <2>9, <2>10, <2>11 DEF MeanTheSame
  <2> QED
    BY <1>0, <2>1, <2>3, <2>12, <2>13 DEF joined
<1>5. CASE c = "kubernetes"
  <2> DEFINE tier == Field("tier", ResolvedTo("standard"), "standard")
             f2 == Field("cluster_topology", ResolvedTo("blank"), "")
             g2 == Field("cluster_topology", ResolvedTo(""), "")
  <2>1. RestSections[c] = <<tier, f2>> /\ McpSections[c] = <<tier, g2>>
    BY <1>5 DEF RestSections, McpSections, KubernetesParams
  <2>2. /\ f2.name = g2.name
        /\ Meaning(f2, given) = Refused <=> Meaning(g2, given) = Refused
        /\ (\A n \in KeptNames : Says(given, n)) => Meaning(f2, given) = Meaning(g2, given)
    BY <1>1 DEF KeptNames
  <2> HIDE DEF tier, f2, g2
  <2>3. RefuseTheSame(<<tier, f2>>, <<tier, g2>>, given)
    BY <2>2 DEF RefuseTheSame
  <2>4. (\A n \in KeptNames : Says(given, n)) => MeanTheSame(<<tier, f2>>, <<tier, g2>>, given)
    BY <2>2 DEF MeanTheSame
  <2> QED
    BY <1>0, <2>1, <2>3, <2>4
<1> QED
  BY <1>2, <1>3, <1>4, <1>5 DEF RequestCategories

\* The body of /calculate.
LEMMA BodiesAlike ==
  ASSUME NEW body, DOMAIN body \subseteq RequestCategories \cup {"database"}
  PROVE  /\ ParseBody(RestSections, body).refused = ParseBody(McpSections, body).refused
         /\ ~KeepsBlank(body) => ParseBody(RestSections, body) = ParseBody(McpSections, body)
<1> DEFINE given == Unaliased(body)
           parsed(s) == [c \in DOMAIN given |-> Parse(s[c], given[c])]
           bad(s) == {i \in DOMAIN CalculateOrder : /\ CalculateOrder[i] \in DOMAIN given
                                                    /\ parsed(s)[CalculateOrder[i]].refused # ""}
<1>1. \A c \in DOMAIN given : c \in RequestCategories /\ \E b \in DOMAIN body : given[c] = body[b]
  BY DEF Unaliased, RequestCategories
<1>2. \A s : ParseBody(s, body) =
        IF AliasConflict(body) THEN Refusal("alias")
        ELSE IF DOMAIN body = {} THEN Refusal("categories")
        ELSE IF bad(s) # {} THEN Refusal(parsed(s)[CalculateOrder[Min(bad(s))]].refused)
        ELSE [refused |-> "", target |-> {<<c, parsed(s)[c].target>> : c \in DOMAIN given}]
  BY DEF ParseBody
<1>3. \A s : parsed(s) = [c \in DOMAIN given |-> Parse(s[c], given[c])]
  OBVIOUS
<1> HIDE DEF given
<1>4. \A c \in DOMAIN given : parsed(RestSections)[c].refused = parsed(McpSections)[c].refused
  BY <1>1, SectionsAlike
<1>5. ASSUME ~KeepsBlank(body) PROVE parsed(RestSections) = parsed(McpSections)
  <2>1. ASSUME NEW c \in DOMAIN given, NEW n \in KeptNames PROVE Says(given[c], n)
    BY <1>1, <1>5 DEF KeepsBlank, KeptNames, Says
  <2> QED
    BY <1>1, <2>1, SectionsAlike
<1>6. bad(RestSections) = bad(McpSections)
  BY <1>4
<1>7. bad(RestSections) # {} => CalculateOrder[Min(bad(RestSections))] \in DOMAIN given
  <2>1. DOMAIN CalculateOrder \subseteq Nat
    BY DEF CalculateOrder
  <2>2. bad(RestSections) \in SUBSET Nat
    BY <2>1
  <2>3. \A i \in bad(RestSections) : CalculateOrder[i] \in DOMAIN given
    OBVIOUS
  <2> HIDE DEF bad
  <2> QED
    BY <2>2, <2>3, MinIsLeast
<1> HIDE DEF parsed, bad
<1>8. ParseBody(RestSections, body).refused = ParseBody(McpSections, body).refused
  <2>1. CASE AliasConflict(body) \/ DOMAIN body = {}
    BY <1>2, <2>1
  <2>2. CASE ~AliasConflict(body) /\ DOMAIN body # {} /\ bad(RestSections) # {}
    <3> DEFINE c == CalculateOrder[Min(bad(RestSections))]
    <3>1. parsed(RestSections)[c].refused = parsed(McpSections)[c].refused
      BY <1>4, <1>7, <2>2
    <3>2. /\ ParseBody(RestSections, body) = Refusal(parsed(RestSections)[c].refused)
          /\ ParseBody(McpSections, body) = Refusal(parsed(McpSections)[c].refused)
      BY <1>2, <1>6, <2>2
    <3> QED
      BY <3>1, <3>2
  <2>3. CASE ~AliasConflict(body) /\ DOMAIN body # {} /\ bad(RestSections) = {}
    <3>1. \A target : [refused |-> "", target |-> target].refused = ""
      OBVIOUS
    <3>2. ParseBody(RestSections, body).refused = "" /\ ParseBody(McpSections, body).refused = ""
      BY <1>2, <1>6, <2>3, <3>1
    <3> QED
      BY <3>2
  <2> QED
    BY <2>1, <2>2, <2>3
<1> QED
  BY <1>2, <1>5, <1>6, <1>8

-----------------------------------------------------------------------------
\* What both transports were asked last, and what each made of it.
RequestsInv ==
  \/ asked_of = NoRequest /\ heard = Nothing
  \/ \E e \in DOMAIN RequestsAsked : \E g \in RequestsAsked[e] :
       /\ asked_of = [endpoint |-> e, given |-> g]
       /\ heard = [rest |-> HeardByRest(e, g), mcp |-> HeardByMcp(e, g)]

\* A body, or a request of an endpoint whose values have the tool's types.
LEMMA HeardAlike ==
  ASSUME NEW e \in DOMAIN RequestsAsked, NEW g \in RequestsAsked[e],
         e = "calculate" \/ Typed(e, g)
  PROVE  /\ HeardByRest(e, g).refused = HeardByMcp(e, g).refused
         /\ HeardByRest(e, g) = HeardByMcp(e, g) \/ (e = "calculate" /\ KeepsBlank(g))
<1>1. CASE e = "calculate"
  <2>1. DOMAIN g \subseteq RequestCategories \cup {"database"}
    BY <1>1, RequestsAssumption
  <2>2. CASE Typed(e, g)
    BY <1>1, <2>1, <2>2, BodiesAlike DEF HeardByRest, HeardByMcp
  <2>3. CASE ~Typed(e, g)
    BY <1>1, <2>3 DEF HeardByRest, HeardByMcp
  <2> QED
    BY <2>2, <2>3
<1>2. CASE e # "calculate"
  <2>1. Plain(g)
    BY <1>2 DEF Typed, TypedSection, Plain
  <2>2. e \in RequestCategories
    BY <1>2, RequestsAssumption
  <2>3. Parse(RestFields[e], g) = Parse(McpFields[e], g)
    BY <2>1, <2>2, EndpointsAlike
  <2> QED
    BY <1>2, <2>3 DEF HeardByRest, HeardByMcp
<1> QED
  BY <1>1, <1>2

\* Between a request and its reply both transports have heard that request.
LEMMA RequestsInvHolds == RequestsSpec => []RequestsInv
<1>1. RequestsInit => RequestsInv
  BY DEF RequestsInit, RequestsInv
<1>2. RequestsInv /\ [RequestsNext]_requestVars => RequestsInv'
  BY DEF RequestsInv, RequestsNext, Reply, Request, requestVars
<1> QED
  BY <1>1, <1>2, PTL DEF RequestsSpec

\* For every body of /calculate, and for every comparison whose values have the
\* types of the tool's input (not NaN, not a switch that is no Boolean, not an
\* iops that is no integer: those the MCP schema refuses first): both transports
\* refuse for the same parameter, or the pricing service is called with the same
\* target -- except for the target of a body that leaves its engine, data model
\* or topology blank (database_handler.go:93-150, calculate_handler.go:119-262,
\* tools.go:466-682).
THEOREM TransportsAgree == RequestsSpec => []OneContract
<1>1. RequestsInv => OneContract
  <2>1. Nothing.rest = Nothing.mcp
    BY DEF Nothing
  <2> QED
    BY <2>1, HeardAlike DEF RequestsInv, OneContract
<1> QED
  BY <1>1, RequestsInvHolds, PTL

(* A refusal carries no target, whichever check of whichever transport     *)
(* refused, a parameter of an endpoint or a section of a body.             *)
LEMMA RefusedWithoutTarget ==
  ASSUME NEW endpoint, NEW given
  PROVE  /\ HeardByRest(endpoint, given).refused # "" => HeardByRest(endpoint, given).target = {}
         /\ HeardByMcp(endpoint, given).refused # "" => HeardByMcp(endpoint, given).target = {}
<1>1. ASSUME NEW fields PROVE Parse(fields, given).refused # "" => Parse(fields, given).target = {}
  BY DEF Parse, Refusal
<1>2. ASSUME NEW sections
      PROVE  ParseBody(sections, given).refused # "" => ParseBody(sections, given).target = {}
  BY DEF ParseBody, Refusal
<1>3. Refusal("schema").target = {}
  BY DEF Refusal
<1> QED
  BY <1>1, <1>2, <1>3 DEF HeardByRest, HeardByMcp

\* Type correctness of the request parameters: for any request, a transport that
\* refuses it has no target left to call the pricing service with.
THEOREM RequestsTypesCorrect == RequestsSpec => []RequestsTypeOK
<1>1. RequestsInv => RequestsTypeOK
  <2>1. CASE asked_of = NoRequest /\ heard = Nothing
    <3>1. asked_of.endpoint \in RequestCategories \cup {"calculate", ""} /\ DOMAIN heard = {"rest", "mcp"}
      BY <2>1 DEF NoRequest, Nothing
    <3>2. heard["rest"].target = {} /\ heard["mcp"].target = {}
      BY <2>1 DEF Nothing, Refusal
    <3> QED
      BY <3>1, <3>2 DEF RequestsTypeOK
  <2>2. ASSUME NEW e \in DOMAIN RequestsAsked, NEW g \in RequestsAsked[e],
               asked_of = [endpoint |-> e, given |-> g],
               heard = [rest |-> HeardByRest(e, g), mcp |-> HeardByMcp(e, g)]
        PROVE  RequestsTypeOK
    <3>1. asked_of.endpoint \in RequestCategories \cup {"calculate", ""}
      BY <2>2, RequestsAssumption
    <3>2. DOMAIN heard = {"rest", "mcp"} /\ heard["rest"] = HeardByRest(e, g) /\ heard["mcp"] = HeardByMcp(e, g)
      BY <2>2
    <3>3. /\ heard["rest"].refused # "" => heard["rest"].target = {}
          /\ heard["mcp"].refused # "" => heard["mcp"].target = {}
      BY <3>2, RefusedWithoutTarget
    <3> QED
      BY <3>1, <3>2, <3>3 DEF RequestsTypeOK
  <2> QED
    BY <2>1, <2>2 DEF RequestsInv
<1> QED
  BY <1>1, RequestsInvHolds, PTL
=============================================================================
