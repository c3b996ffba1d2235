----------------------------- MODULE RateLimiter -----------------------------
(***************************************************************************)
(* internal/middleware/ratelimit: each request increments one or two Redis *)
(* counters of the current minute and is rejected above their limits.      *)
(* INCR and EXPIRE are separate commands, either may fail, the client sends *)
(* an INCR again whose reply was lost, and a request that cannot count is   *)
(* let through.                                                            *)
(***************************************************************************)
EXTENDS Integers, FiniteSets

CONSTANTS
  Calls,        \* requests
  Callers,      \* tables of who calls: user, cookie, ip and route profile
  Nobody,       \* no user, no valid cookie, no profile
  Ceiling,      \* IPCeilingRate: of the blunt counter of an address
  TierRate,     \* StandardTierRate, FreeTierRate and the profiles' limit
  MinuteTicks,  \* ticks in a minute
  CounterTTL,   \* the 70 seconds of EXPIRE
  RedisTimeout, \* the 2 seconds a request spends on Redis
  MaxRetries,   \* go-redis sends a command again as often: 3, its default
  MaxTick,      \* bound: the clock stops, and before that the arrivals
  MaxLost       \* bound: the replies to INCRs that are lost

Kinds == {"blunt", "user", "profile", "anon", "ip"}

ASSUME RateAssumption ==
  /\ IsFiniteSet(Calls)
  /\ Callers \subseteq [Calls -> [user : STRING, cookie : STRING, ip : STRING, profile : STRING]]
  /\ Nobody \in STRING
  /\ Ceiling \in Nat \ {0}
  /\ TierRate \in [Kinds \ {"blunt"} -> Nat \ {0}]
  /\ MinuteTicks \in Nat \ {0} /\ RedisTimeout \in Nat /\ MaxTick \in Nat
  /\ MaxRetries \in Nat /\ MaxLost \in Nat
  /\ CounterTTL \in Nat /\ CounterTTL >= MinuteTicks + RedisTimeout

VARIABLES
  caller,    \* who makes each request
  tick,      \* the clock
  counters,  \* the Redis counters
  call,      \* where each request is, and what it has read
  admitted,  \* history variable: <<key, request>>, counted within the limit
  counted,   \* history variable: <<key, request>>, whatever was answered
  lost,      \* history variable: <<key, <<request, attempt>>>>, counted unanswered
  leaked     \* history variable: the keys whose EXPIRE was lost

rateVars == <<caller, tick, counters, call, admitted, counted, lost, leaked>>

\* Authenticated callers are keyed by user, unless the route has a profile.
Authenticated(c) == caller[c].profile = Nobody /\ caller[c].user # Nobody

TierOf(c) ==
  CASE Authenticated(c) -> <<"user", caller[c].user>>
    [] caller[c].profile # Nobody -> <<"profile", caller[c].ip>>
    [] caller[c].profile = Nobody /\ caller[c].cookie # Nobody /\ ~Authenticated(c) ->
         <<"anon", caller[c].cookie>>
    [] OTHER -> <<"ip", caller[c].ip>>

\* A counter's key names the minute the request arrived in.
Window(c) == call[c].since \div MinuteTicks
BluntKey(c) == <<"blunt", caller[c].ip, Window(c)>>
TierKey(c) == <<TierOf(c)[1], TierOf(c)[2], Window(c)>>

RateLimit(key) == IF key[1] = "blunt" THEN Ceiling ELSE TierRate[key[1]]

Windows == 0..(MaxTick \div MinuteTicks)

CounterKeys ==
  {<<"blunt", caller[c].ip, w>> : c \in Calls, w \in Windows}
  \cup {<<TierOf(c)[1], TierOf(c)[2], w>> : c \in Calls, w \in Windows}

Never == MaxTick + CounterTTL + 1

\* A request sends the INCR of one counter once, and MaxRetries times again.
Attempts == Calls \X (0..MaxRetries)

MaxCount == Cardinality(Calls) + Cardinality(Attempts)

RateTypeOK ==
  /\ caller \in Callers
  /\ tick \in 0..MaxTick
  /\ counters \in [CounterKeys -> [count : 0..MaxCount, expires : 0..Never]]
  /\ call \in [Calls -> [at : {"idle", "blunt", "bluntTTL", "tier", "tierTTL",
                               "open", "pass", "reject"},
                         since : 0..MaxTick,
                         resent : 0..(MaxRetries + 1)]]
  /\ admitted \subseteq CounterKeys \X Calls
  /\ counted \subseteq CounterKeys \X Calls
  /\ lost \subseteq CounterKeys \X Attempts
  /\ leaked \subseteq CounterKeys

RateInit ==
  /\ caller \in Callers
  /\ tick = 0
  /\ counters = [k \in CounterKeys |-> [count |-> 0, expires |-> Never]]
  /\ call = [c \in Calls |-> [at |-> "idle", since |-> 0, resent |-> 0]]
  /\ admitted = {} /\ counted = {} /\ lost = {} /\ leaked = {}

\* Redis deletes the counters whose time has come.
TickRate ==
  /\ tick < MaxTick
  /\ tick' = tick + 1
  /\ counters' = [k \in CounterKeys |->
       IF counters[k].expires <= tick' THEN [count |-> 0, expires |-> Never]
       ELSE counters[k]]
  /\ UNCHANGED <<caller, call, admitted, counted, lost, leaked>>

-----------------------------------------------------------------------------
(* A request.                                                               *)

CallStep(c, from, to) == call[c].at = from /\ call' = [call EXCEPT ![c].at = to]

InTime(c) == tick <= call[c].since + RedisTimeout

\* calculateWindow; an authenticated caller has no blunt counter.
ArriveCall(c) ==
  /\ call[c].at = "idle" /\ tick < MaxTick
  /\ call' = [call EXCEPT ![c].at = IF Authenticated(c) THEN "tier" ELSE "blunt",
                          ![c].since = tick]
  /\ UNCHANGED <<caller, tick, counters, admitted, counted, lost, leaked>>

IncrKey(c) == IF call[c].at = "blunt" THEN BluntKey(c) ELSE TierKey(c)

\* The request goes on to its next counter, or to the handler.
Passes(c) == IF call[c].at \in {"blunt", "bluntTTL"} THEN "tier" ELSE "pass"

\* A mutant: the limit itself is rejected.
AdmitsFewer(n, key) == n < RateLimit(key)

Admits(n, key) == n <= RateLimit(key)

\* The client may send the INCR of the request's next counter.
Sends(c) == call[c].at \in {"blunt", "tier"} /\ call[c].resent <= MaxRetries /\ InTime(c)

\* INCR, whose reply says how many INCRs the key has counted; the one that
\* began it sets the expiry before its request goes on.
Incr(c) ==
  /\ Sends(c)
  /\ LET key == IncrKey(c)
         n == counters[key].count + 1
         within == Admits(n, key)
     IN /\ counters' = [counters EXCEPT ![key].count = n]
        /\ call' = [call EXCEPT ![c].resent = 0, ![c].at =
             IF n = 1 THEN (IF call[c].at = "blunt" THEN "bluntTTL" ELSE "tierTTL")
             ELSE IF within THEN Passes(c) ELSE "reject"]
        /\ counted' = counted \cup {<<key, c>>}
        /\ admitted' = IF within THEN admitted \cup {<<key, c>>} ELSE admitted
  /\ UNCHANGED <<caller, tick, lost, leaked>>

\* INCR, whose reply is lost: the client sends it again, and the request pays
\* twice. If it began the counter nobody sets its expiry: no later reply is 1.
IncrUnanswered(c) ==
  /\ Sends(c) /\ Cardinality(lost) < MaxLost
  /\ LET key == IncrKey(c) IN
     /\ counters' = [counters EXCEPT ![key].count = @ + 1]
     /\ lost' = lost \cup {<<key, <<c, call[c].resent>>>>}
     /\ leaked' = IF counters[key].count = 0 THEN leaked \cup {key} ELSE leaked
  /\ call' = [call EXCEPT ![c].resent = @ + 1]
  /\ UNCHANGED <<caller, tick, admitted, counted>>

\* INCR fails for good, whether or not earlier attempts took effect: Redis
\* cannot be reached, the time or the retries are up. The request passes.
FailOpen(c) ==
  /\ CallStep(c, call[c].at, "open") /\ call[c].at \in {"blunt", "tier"}
  /\ UNCHANGED <<caller, tick, counters, admitted, counted, lost, leaked>>

ExpireKey(c) == IF call[c].at = "bluntTTL" THEN BluntKey(c) ELSE TierKey(c)

\* Mutants: the counter lives as long as its minute, or is not given a TTL.
ExpiresWithMinute == tick + MinuteTicks
ExpiresNever == Never

ExpiresAt == tick + CounterTTL

\* EXPIRE, after the INCR that began the counter; the ceilings are positive,
\* so the first request is within them.
Expire(c) ==
  /\ call[c].at \in {"bluntTTL", "tierTTL"}
  /\ InTime(c)
  /\ counters' = [counters EXCEPT ![ExpireKey(c)].expires = ExpiresAt]
  /\ call' = [call EXCEPT ![c].at = Passes(c)]
  /\ UNCHANGED <<caller, tick, admitted, counted, lost, leaked>>

\* Its error is ignored.
ExpireFails(c) ==
  /\ call[c].at \in {"bluntTTL", "tierTTL"}
  /\ leaked' = leaked \cup {ExpireKey(c)}
  /\ call' = [call EXCEPT ![c].at = Passes(c)]
  /\ UNCHANGED <<caller, tick, counters, admitted, counted, lost>>

RateNext ==
  \/ TickRate
  \/ \E c \in Calls : ArriveCall(c) \/ Incr(c) \/ IncrUnanswered(c) \/ FailOpen(c)
                      \/ Expire(c) \/ ExpireFails(c)

RateSpec == RateInit /\ [][RateNext]_rateVars

-----------------------------------------------------------------------------
(* Properties.                                                              *)

\* No key of a minute lets more requests through than its limit, however they
\* interleave and however late they count: the counter outlives the last
\* request that read its minute (70 s against 60 s and the 2 s timeout).
LimitHolds ==
  \A key \in CounterKeys :
    Cardinality({c \in Calls : <<key, c>> \in admitted}) <= RateLimit(key)

\* A request is rejected only when the limit is used up by what was counted
\* under one of its own keys in its minute: by other requests, or by INCRs whose
\* reply was lost (its own among them). Each of these makes room for one request
\* less, and without any as many others as the limit were counted; nobody pays
\* for another key or another minute.
RejectionsEarned ==
  \A c \in Calls : call[c].at = "reject" =>
    \E key \in {BluntKey(c), TierKey(c)} :
      /\ <<key, c>> \in counted
      /\ Cardinality({d \in Calls \ {c} : <<key, d>> \in counted})
           + Cardinality({a \in Attempts : <<key, a>> \in lost}) >= RateLimit(key)

\* A counter that is never deleted is one whose EXPIRE, or the reply to whose
\* first INCR, was lost, or is about to be sent.
CountersExpire ==
  \A key \in CounterKeys :
    counters[key].count > 0 /\ counters[key].expires = Never =>
      \/ key \in leaked
      \/ \E c \in Calls : call[c].at \in {"bluntTTL", "tierTTL"} /\ ExpireKey(c) = key
=============================================================================
