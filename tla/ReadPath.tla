------------------------------ MODULE ReadPath ------------------------------
(***************************************************************************)
(* PricingService.GetPrices (internal/service/read.go) for one cache key:  *)
(* concurrent requests read the cached price list, or share one query of   *)
(* the history through a singleflight, while an execution of the ingestion *)
(* commits new prices and then caches them.                                *)
(*                                                                         *)
(* The history is that of one item: its i-th price is the number i.        *)
(***************************************************************************)
EXTENDS Integers, Sequences, SequencesExt

CONSTANTS
  Readers,    \* requests
  NoReader,   \* none of them
  MaxPrices   \* bound: prices the item ever has

ASSUME ReadAssumption == NoReader \notin Readers /\ MaxPrices \in Nat

VARIABLES
  prices,     \* the number of prices committed so far
  unwarmed,   \* an execution has committed a price and not yet cached it
  published,  \* history variable: the newest price an execution has cached
  cached,     \* the cached list, or Uncached
  flight,     \* the query in flight, if any
  reader,     \* where each request is
  response,   \* what each request was answered
  cancelled   \* the requests whose context is done

readVars == <<prices, unwarmed, published, cached, flight, reader, response, cancelled>>

\* A list and, as a history variable, what had been cached by an execution
\* when the list was read.
Entry == [list : Seq(1..MaxPrices), floor : 0..MaxPrices]

Uncached == [list |-> <<>>, floor |-> 0]

NoFlight == [phase |-> "none", list |-> <<>>, floor |-> 0, error |-> "",
             starter |-> NoReader, waiting |-> {}]

NoResponse == [list |-> <<>>, error |-> ""]

\* A mutant: the query runs in the context of the request that started it.
ErrorsOfStarter(starter) ==
  {"database", "timeout"} \cup (IF starter \in cancelled THEN {"cancelled"} ELSE {})

\* Errors of a query that ran in dbCtx: of the database, or its ten seconds
\* are over.  The callers' contexts are not among them (WithoutCancel).
QueryErrors(starter) == {"database", "timeout"}

AllErrors == {"", "database", "timeout", "cancelled"}

ReadTypeOK ==
  /\ prices \in 0..MaxPrices
  /\ unwarmed \in BOOLEAN
  /\ published \in 0..MaxPrices
  /\ cached \in Entry
  /\ flight \in [phase : {"none", "query", "warm", "deliver"},
                 list : Seq(1..MaxPrices), floor : 0..MaxPrices,
                 error : AllErrors, starter : Readers \cup {NoReader},
                 waiting : SUBSET Readers]
  /\ reader \in [Readers -> {"idle", "cache", "join", "waiting", "done"}]
  /\ response \in [Readers -> [list : Seq(1..MaxPrices), error : AllErrors]]
  /\ cancelled \subseteq Readers

ReadInit ==
  /\ prices = 0 /\ unwarmed = FALSE /\ published = 0
  /\ cached = Uncached
  /\ flight = NoFlight
  /\ reader = [c \in Readers |-> "idle"]
  /\ response = [c \in Readers |-> NoResponse]
  /\ cancelled = {}

history == <<prices, unwarmed, published>>
requests == <<reader, response, cancelled>>

-----------------------------------------------------------------------------
(* Ingestion, one execution at a time (module Orchestrator).                *)

CommitPrice ==
  /\ ~unwarmed /\ prices < MaxPrices
  /\ prices' = prices + 1
  /\ unwarmed' = TRUE
  /\ UNCHANGED <<published, cached, flight, requests>>

\* warmCache: the list holds what the provider returned, the last price only.
CachePrice ==
  /\ unwarmed
  /\ cached' = [list |-> <<prices>>, floor |-> prices]
  /\ published' = prices
  /\ unwarmed' = FALSE
  /\ UNCHANGED <<prices, flight, requests>>

\* Its errors are logged only.
CachePriceFails ==
  /\ unwarmed
  /\ unwarmed' = FALSE
  /\ UNCHANGED <<prices, published, cached, flight, requests>>

\* The TTL is over, or Redis evicts the key or loses it.
CacheExpires ==
  /\ cached # Uncached
  /\ cached' = Uncached
  /\ UNCHANGED <<history, flight, requests>>

-----------------------------------------------------------------------------
(* A request.                                                               *)

ReadStep(c, from, to) == reader[c] = from /\ reader' = [reader EXCEPT ![c] = to]

Respond(c, list, error) ==
  response' = [response EXCEPT ![c] = [list |-> list, error |-> error]]

Arrive(c) ==
  /\ ReadStep(c, "idle", "cache")
  /\ UNCHANGED <<history, cached, flight, response, cancelled>>

CacheHit(c) ==
  /\ ReadStep(c, "cache", "done")
  /\ cached # Uncached
  /\ Respond(c, cached.list, "")
  /\ UNCHANGED <<history, cached, flight, cancelled>>

\* ErrCacheMiss, or any other error (also a client that is nil): the same.
CacheMiss(c) ==
  /\ ReadStep(c, "cache", "join")
  /\ UNCHANGED <<history, cached, flight, response, cancelled>>

\* DoChan: the request joins the flight, or starts one.
Join(c) ==
  /\ ReadStep(c, "join", "waiting")
  /\ flight' = IF flight.phase = "none"
               THEN [NoFlight EXCEPT !.phase = "query", !.starter = c,
                                     !.waiting = {c}, !.floor = published]
               ELSE [flight EXCEPT !.waiting = @ \cup {c}]
  /\ UNCHANGED <<history, cached, response, cancelled>>

\* The client goes away, at any time.
Cancel(c) ==
  /\ reader[c] # "done" /\ c \notin cancelled
  /\ cancelled' = cancelled \cup {c}
  /\ UNCHANGED <<history, cached, flight, reader, response>>

\* The branch <-ctx.Done() of the select.
GiveUpWaiting(c) ==
  /\ ReadStep(c, "waiting", "done")
  /\ c \in cancelled
  /\ Respond(c, <<>>, "cancelled")
  /\ UNCHANGED <<history, cached, flight, cancelled>>

-----------------------------------------------------------------------------
(* The flight.                                                              *)

\* A mutant: the rows come in the order of their insertion.
QueryOldestFirst ==
  /\ flight.phase = "query"
  /\ flight' = [flight EXCEPT !.phase = IF prices > 0 THEN "warm" ELSE "deliver",
                              !.list = [i \in 1..prices |-> i]]
  /\ UNCHANGED <<history, cached, requests>>

\* GetPriceObservations returns every row, the newest first.
Query ==
  /\ flight.phase = "query"
  /\ flight' = [flight EXCEPT !.phase = IF prices > 0 THEN "warm" ELSE "deliver",
                              !.list = [i \in 1..prices |-> prices + 1 - i]]
  /\ UNCHANGED <<history, cached, requests>>

QueryFails ==
  /\ flight.phase = "query"
  /\ \E error \in QueryErrors(flight.starter) :
       flight' = [flight EXCEPT !.phase = "deliver", !.error = error]
  /\ UNCHANGED <<history, cached, requests>>

WarmList ==
  /\ flight.phase = "warm"
  /\ flight' = [flight EXCEPT !.phase = "deliver"]
  /\ cached' = [list |-> flight.list, floor |-> flight.floor]
  /\ UNCHANGED <<history, requests>>

WarmListFails ==
  /\ flight.phase = "warm"
  /\ flight' = [flight EXCEPT !.phase = "deliver"]
  /\ UNCHANGED <<history, cached, requests>>

\* A mutant: an error is not sent to those who wait.
ReceivesLists(c) == reader[c] = "waiting" /\ flight.error = ""

Receives(c) == reader[c] = "waiting"

\* The key is forgotten, and each waiting caller's channel has the result; a
\* cancelled caller's select may take either branch.
Deliver ==
  /\ flight.phase = "deliver"
  /\ \E taken \in SUBSET flight.waiting :
       LET got == {c \in taken : Receives(c)} IN
       /\ flight.waiting \subseteq taken \cup cancelled
       /\ reader' = [c \in Readers |-> IF c \in got THEN "done" ELSE reader[c]]
       /\ response' = [c \in Readers |->
            IF c \in got THEN [list |-> flight.list, error |-> flight.error]
            ELSE response[c]]
  /\ flight' = NoFlight
  /\ UNCHANGED <<history, cached, cancelled>>

-----------------------------------------------------------------------------

ReadNext ==
  \/ CommitPrice \/ CachePrice \/ CachePriceFails \/ CacheExpires
  \/ \E c \in Readers : \/ Arrive(c) \/ CacheHit(c) \/ CacheMiss(c) \/ Join(c)
                        \/ Cancel(c) \/ GiveUpWaiting(c)
  \/ Query \/ QueryFails \/ WarmList \/ WarmListFails \/ Deliver

\* A goroutine that can run is run; query and warming have timeouts.
FlightEnds == Query \/ QueryFails \/ WarmList \/ WarmListFails \/ Deliver
ReaderProceeds(c) == CacheHit(c) \/ CacheMiss(c) \/ Join(c) \/ GiveUpWaiting(c)

ReadFairness ==
  /\ WF_readVars(FlightEnds)
  /\ \A c \in Readers : WF_readVars(ReaderProceeds(c))

ReadSpec == ReadInit /\ [][ReadNext]_readVars /\ ReadFairness

-----------------------------------------------------------------------------
(* Properties.                                                              *)

\* Only a request whose own client went away is told so: the query it shares
\* outlives the request that started it (read.go:122-124).
OnlyTheCancelledGiveUp ==
  \A c \in Readers : response[c].error = "cancelled" => c \in cancelled

\* What is cached is never older than what an execution had cached when the
\* query behind it began: a flight does not serve what an earlier one read.
\* (An execution that finishes while a query runs may be overwritten by it.)
ListNotOlderThanItsQuery ==
  cached # Uncached => cached.list[1] >= cached.floor

\* Every request that arrives is answered, whatever Redis and Postgres do.
ReadersAnswered == \A c \in Readers : reader[c] # "idle" ~> reader[c] = "done"

\* A quote for the item as the NoSQL matcher takes it from a list: the last row
\* of a component replaces those before it (database_nosql_match.go:266-300).
QuoteOf(list) == Last(list)

\* A quote is the newest price of the list it is made of (docs/adr/0006: "user
\* requirements for current prices").  In no configuration: the list of a
\* flight holds the superseded prices too, and TLC finds it violated.
QuotesCurrentPrice ==
  \A c \in Readers :
    response[c].list # <<>> => QuoteOf(response[c].list) = response[c].list[1]
=============================================================================
