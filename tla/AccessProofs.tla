----------------------------- MODULE AccessProofs -----------------------------
(***************************************************************************)
(* Who is let in, for every number of requests, mails and tabs: the counters *)
(* of the rate limiter, the verification of a mail address, and the session *)
(* of the web client.                                                      *)
(***************************************************************************)
EXTENDS RateLimiter, EmailVerification, WebSession, FiniteSetTheorems, TLAPS

-----------------------------------------------------------------------------
(* The rate limiter.                                                        *)

\* The first tick at which no request can count under a key any more.
Deadline(key) == (key[3] + 1) * MinuteTicks + RedisTimeout

CountedUnder(key) == {c \in Calls : <<key, c>> \in counted}
LostUnder(key) == {a \in Attempts : <<key, a>> \in lost}

SinceInPast == \A c \in Calls : call[c].since <= tick

\* A request is answered once under its blunt key and once under its tier's.
CountsOnce ==
  \A key \in CounterKeys, c \in Calls : <<key, c>> \in counted =>
    \/ key = BluntKey(c) /\ call[c].at \notin {"idle", "blunt"}
    \/ key = TierKey(c) /\ call[c].at \notin {"idle", "blunt", "bluntTTL", "tier"}

\* The attempts that were lost are those before the one it is at.
LostInTurn ==
  \A key \in CounterKeys, a \in Attempts : <<key, a>> \in lost =>
    \/ /\ key = BluntKey(a[1]) /\ call[a[1]].at # "idle"
       /\ call[a[1]].at = "blunt" => a[2] < call[a[1]].resent
    \/ /\ key = TierKey(a[1]) /\ call[a[1]].at \notin {"idle", "blunt", "bluntTTL"}
       /\ call[a[1]].at = "tier" => a[2] < call[a[1]].resent

\* A counter outlives the requests that read its minute.
CountersOutlive == \A key \in CounterKeys : counters[key].expires >= Deadline(key)

\* Until then it has counted every one of them, and every lost attempt.
CountsExact ==
  \A key \in CounterKeys : tick < Deadline(key) =>
    counters[key].count = Cardinality(CountedUnder(key)) + Cardinality(LostUnder(key))

RateInv ==
  /\ RateTypeOK
  /\ SinceInPast
  /\ CountsOnce
  /\ LostInTurn
  /\ CountersOutlive
  /\ CountsExact
  /\ admitted \subseteq counted

-----------------------------------------------------------------------------
LEMMA DivisionBounds ==
  ASSUME NEW n \in Nat, NEW m \in Nat \ {0}
  PROVE  /\ n \div m \in Nat
         /\ m * (n \div m) <= n
         /\ n < m * (n \div m) + m
OBVIOUS

LEMMA DivisionMonotonic ==
  ASSUME NEW n \in Nat, NEW k \in Nat, NEW m \in Nat \ {0}, n <= k
  PROVE  n \div m <= k \div m
<1>1. SUFFICES ASSUME n \div m >= k \div m + 1 PROVE FALSE
  BY DivisionBounds
<1>2. m * (n \div m) >= m * (k \div m + 1)
  BY <1>1, DivisionBounds
<1>3. m * (k \div m + 1) = m * (k \div m) + m
  BY DivisionBounds
<1> QED
  BY <1>2, <1>3, DivisionBounds

LEMMA RateNumbers ==
  /\ MinuteTicks \in Nat \ {0} /\ RedisTimeout \in Nat /\ MaxTick \in Nat
  /\ MaxRetries \in Nat
  /\ CounterTTL \in Nat /\ CounterTTL >= MinuteTicks + RedisTimeout
  /\ Ceiling \in Nat \ {0}
  /\ IsFiniteSet(Calls)
BY RateAssumption

LEMMA TierIsNotBlunt ==
  ASSUME caller \in Callers, NEW c \in Calls
  PROVE  TierOf(c)[1] \in Kinds \ {"blunt"}
BY RateAssumption DEF TierOf, Kinds, Authenticated

\* A request in a state of RateTypeOK.
LEMMA CallFields ==
  ASSUME RateTypeOK, NEW c \in Calls
  PROVE  /\ call[c].at \in {"idle", "blunt", "bluntTTL", "tier", "tierTTL",
                            "open", "pass", "reject"}
         /\ call[c].since \in 0..MaxTick /\ call[c].since \in Nat
         /\ call[c].resent \in 0..(MaxRetries + 1) /\ call[c].resent \in Nat
         /\ tick \in Nat
BY RateNumbers DEF RateTypeOK

\* The two keys of a request are keys of its minute, and different.
LEMMA KeysOfCall ==
  ASSUME RateTypeOK, NEW c \in Calls
  PROVE  /\ BluntKey(c) \in CounterKeys /\ TierKey(c) \in CounterKeys
         /\ BluntKey(c)[1] = "blunt" /\ TierKey(c)[1] \in Kinds \ {"blunt"}
         /\ BluntKey(c)[3] = Window(c) /\ TierKey(c)[3] = Window(c)
         /\ BluntKey(c) # TierKey(c)
<1>1. /\ BluntKey(c)[1] = "blunt" /\ TierKey(c)[1] \in Kinds \ {"blunt"}
      /\ BluntKey(c)[3] = Window(c) /\ TierKey(c)[3] = Window(c)
  BY TierIsNotBlunt DEF BluntKey, TierKey, RateTypeOK
<1>2. Window(c) \in Windows
  <2>1. call[c].since \div MinuteTicks \in Nat
    BY CallFields, DivisionBounds, RateNumbers
  <2>2. call[c].since \div MinuteTicks <= MaxTick \div MinuteTicks
    <3>1. /\ call[c].since \in Nat /\ MaxTick \in Nat /\ call[c].since <= MaxTick
          /\ MinuteTicks \in Nat \ {0}
      BY CallFields, RateNumbers
    <3> QED
      BY <3>1, DivisionMonotonic
  <2> QED
    BY <2>1, <2>2, DivisionBounds, RateNumbers DEF Window, Windows
<1>3. BluntKey(c) \in CounterKeys /\ TierKey(c) \in CounterKeys
  BY <1>2 DEF BluntKey, TierKey, CounterKeys
<1> QED
  BY <1>1, <1>3

LEMMA KeyFacts ==
  ASSUME caller \in Callers, NEW key \in CounterKeys
  PROVE  /\ key[1] \in Kinds
         /\ key[3] \in Windows /\ key[3] \in Nat
         /\ RateLimit(key) \in Nat \ {0}
<1>1. PICK c \in Calls, w \in Windows :
        key = <<"blunt", caller[c].ip, w>> \/ key = <<TierOf(c)[1], TierOf(c)[2], w>>
  BY DEF CounterKeys
<1>2. key[1] \in Kinds /\ key[3] = w
  BY <1>1, TierIsNotBlunt DEF Kinds
<1>3. w \in Nat
  BY RateNumbers, DivisionBounds DEF Windows
<1> QED
  BY <1>2, <1>3, RateAssumption DEF RateLimit, Kinds

\* A request in time counts before the deadline of its keys, and an expiry
\* set in its minute or later is not before that deadline.
LEMMA DeadlineOfCall ==
  ASSUME RateTypeOK, SinceInPast, NEW c \in Calls, NEW key, key[3] = Window(c)
  PROVE  /\ Deadline(key) \in Nat
         /\ InTime(c) => tick < Deadline(key)
         /\ tick + CounterTTL >= Deadline(key)
<1> DEFINE s == call[c].since
           w == s \div MinuteTicks
<1>1. s \in Nat /\ tick \in Nat /\ s <= tick
  BY CallFields DEF SinceInPast
<1>2. /\ w \in Nat
      /\ MinuteTicks * w <= s
      /\ s < MinuteTicks * w + MinuteTicks
  BY <1>1, DivisionBounds, RateNumbers
<1>3. (w + 1) * MinuteTicks = MinuteTicks * w + MinuteTicks
  BY <1>2, RateNumbers
<1>4. Deadline(key) = MinuteTicks * w + MinuteTicks + RedisTimeout
  BY <1>3 DEF Deadline, Window
<1>5. MinuteTicks * w \in Nat
  BY <1>2, RateNumbers
<1> HIDE DEF w
<1> QED
  BY <1>1, <1>2, <1>4, <1>5, RateNumbers DEF InTime

\* An expiry that is never is not before any deadline.
LEMMA NeverOutlives ==
  ASSUME RateTypeOK, NEW key \in CounterKeys
  PROVE  /\ Deadline(key) \in Nat
         /\ Never >= Deadline(key)
<1>1. key[3] \in Nat /\ key[3] <= MaxTick \div MinuteTicks
  BY KeyFacts, DivisionBounds, RateNumbers DEF RateTypeOK, Windows
<1>2. MinuteTicks * (MaxTick \div MinuteTicks) <= MaxTick /\ MaxTick \div MinuteTicks \in Nat
  BY DivisionBounds, RateNumbers
<1>3. MinuteTicks * key[3] <= MinuteTicks * (MaxTick \div MinuteTicks)
  <2> DEFINE k == key[3]
             m == MaxTick \div MinuteTicks
  <2>1. k \in Nat /\ m \in Nat /\ k <= m /\ MinuteTicks \in Nat
    BY <1>1, <1>2, RateNumbers
  <2> HIDE DEF k, m
  <2>2. MinuteTicks * k <= MinuteTicks * m
    BY <2>1
  <2> QED
    BY <2>2 DEF k, m
<1>4. Deadline(key) = MinuteTicks * key[3] + MinuteTicks + RedisTimeout
  BY <1>1, RateNumbers DEF Deadline
<1>5. MinuteTicks * key[3] \in Nat
  BY <1>1, RateNumbers
<1>6. MinuteTicks * key[3] <= MaxTick
  BY <1>2, <1>3, <1>5, RateNumbers
<1> QED
  BY <1>4, <1>5, <1>6, RateNumbers DEF Never

-----------------------------------------------------------------------------
(* What a step of a request leaves as it was.                               *)

\* A request is where it was in its minute: its keys stay.
LEMMA KeysStay ==
  ASSUME caller' = caller, NEW c \in Calls, call'[c].since = call[c].since
  PROVE  BluntKey(c)' = BluntKey(c) /\ TierKey(c)' = TierKey(c) /\ Window(c)' = Window(c)
BY DEF BluntKey, TierKey, Window, TierOf, Authenticated

LEMMA CounterKeysStay ==
  ASSUME caller' = caller
  PROVE  CounterKeys' = CounterKeys
BY DEF CounterKeys, TierOf, Authenticated

\* A request counts, is let through uncounted, or is through with EXPIRE.
Counting(c) == Incr(c) \/ IncrUnanswered(c) \/ FailOpen(c)
Expiring(c) == Expire(c) \/ ExpireFails(c)

LEMMA OtherCallsStay ==
  ASSUME RateTypeOK, NEW c \in Calls, ArriveCall(c) \/ Counting(c) \/ Expiring(c)
  PROVE  /\ caller' = caller /\ tick' = tick
         /\ \A d \in Calls \ {c} : call'[d] = call[d]
         /\ call'[c].since = IF ArriveCall(c) THEN tick ELSE call[c].since
         /\ ArriveCall(c) => call[c].at = "idle"
BY DEF RateTypeOK, ArriveCall, Counting, Expiring, Incr, IncrUnanswered,
           FailOpen, Expire, ExpireFails, CallStep

LEMMA MovesTo ==
  ASSUME RateTypeOK, NEW c \in Calls
  PROVE  /\ ArriveCall(c) => /\ call[c].at = "idle" /\ call'[c].at \in {"tier", "blunt"}
         /\ Incr(c) => \/ call[c].at = "blunt" /\ call'[c].at \in {"bluntTTL", "tier", "reject"}
                       \/ call[c].at = "tier" /\ call'[c].at \in {"tierTTL", "pass", "reject"}
         /\ IncrUnanswered(c) => call[c].at \in {"blunt", "tier"} /\ call'[c].at = call[c].at
         /\ FailOpen(c) => call[c].at \in {"blunt", "tier"} /\ call'[c].at = "open"
         /\ Expiring(c) => \/ call[c].at = "bluntTTL" /\ call'[c].at = "tier"
                           \/ call[c].at = "tierTTL" /\ call'[c].at = "pass"
<1>1. ArriveCall(c) => /\ call[c].at = "idle" /\ call'[c].at \in {"tier", "blunt"}
  BY DEF RateTypeOK, ArriveCall
<1>2. Incr(c) => \/ call[c].at = "blunt" /\ call'[c].at \in {"bluntTTL", "tier", "reject"}
                 \/ call[c].at = "tier" /\ call'[c].at \in {"tierTTL", "pass", "reject"}
  BY DEF RateTypeOK, Incr, Sends, Passes
<1>5. IncrUnanswered(c) => call[c].at \in {"blunt", "tier"} /\ call'[c].at = call[c].at
  BY DEF RateTypeOK, IncrUnanswered, Sends
<1>3. FailOpen(c) => call[c].at \in {"blunt", "tier"} /\ call'[c].at = "open"
  BY DEF RateTypeOK, FailOpen, CallStep
<1>4. Expiring(c) => \/ call[c].at = "bluntTTL" /\ call'[c].at = "tier"
                     \/ call[c].at = "tierTTL" /\ call'[c].at = "pass"
  BY DEF RateTypeOK, Expiring, Expire, ExpireFails, Passes
<1> QED
  BY <1>1, <1>2, <1>3, <1>4, <1>5

LEMMA CallsTyped ==
  ASSUME RateTypeOK, NEW c \in Calls, ArriveCall(c) \/ Counting(c) \/ Expiring(c)
  PROVE  call' \in [Calls -> [at : {"idle", "blunt", "bluntTTL", "tier", "tierTTL",
                                    "open", "pass", "reject"},
                              since : 0..MaxTick,
                              resent : 0..(MaxRetries + 1)]]
<1>1. PICK a \in {"idle", "blunt", "bluntTTL", "tier", "tierTTL", "open", "pass", "reject"} :
        \/ call' = [call EXCEPT ![c].at = a]
        \/ call' = [call EXCEPT ![c].at = a, ![c].since = tick]
        \/ call' = [call EXCEPT ![c].resent = 0, ![c].at = a]
        \/ /\ call' = [call EXCEPT ![c].resent = call[c].resent + 1]
           /\ call[c].resent <= MaxRetries
  BY DEF RateTypeOK, ArriveCall, Counting, Expiring, Incr, IncrUnanswered, Sends, FailOpen,
         Expire, ExpireFails, CallStep, Passes
<1>2. /\ tick \in 0..MaxTick /\ 0 \in 0..(MaxRetries + 1)
      /\ call[c].resent <= MaxRetries => call[c].resent + 1 \in 0..(MaxRetries + 1)
  BY CallFields, RateNumbers DEF RateTypeOK
<1> QED
  BY <1>1, <1>2 DEF RateTypeOK

-----------------------------------------------------------------------------
(* Counting.                                                                *)

LEMMA FiniteAttempts ==
  /\ IsFiniteSet(Attempts) /\ MaxCount \in Nat
  /\ \A S \in SUBSET Calls : /\ IsFiniteSet(S) /\ Cardinality(S) \in Nat
                             /\ Cardinality(S) <= Cardinality(Calls)
  /\ \A S \in SUBSET Attempts : /\ IsFiniteSet(S) /\ Cardinality(S) \in Nat
                                /\ Cardinality(S) <= Cardinality(Attempts)
  /\ Cardinality(Calls) \in Nat /\ Cardinality(Attempts) \in Nat
<1>1. IsFiniteSet(Calls) /\ IsFiniteSet(0..MaxRetries)
  BY RateNumbers, FS_Interval
<1>2. IsFiniteSet(Attempts)
  BY <1>1, FS_Product DEF Attempts
<1>3. Cardinality(Calls) \in Nat /\ Cardinality(Attempts) \in Nat
  BY <1>1, <1>2, FS_CardinalityType
<1>4. \A S \in SUBSET Calls : /\ IsFiniteSet(S) /\ Cardinality(S) \in Nat
                              /\ Cardinality(S) <= Cardinality(Calls)
  BY <1>1, FS_Subset, FS_CardinalityType
<1>5. \A S \in SUBSET Attempts : /\ IsFiniteSet(S) /\ Cardinality(S) \in Nat
                                 /\ Cardinality(S) <= Cardinality(Attempts)
  BY <1>2, FS_Subset, FS_CardinalityType
<1> QED
  BY <1>2, <1>3, <1>4, <1>5 DEF MaxCount

LEMMA FiniteCalls ==
  ASSUME NEW S \in SUBSET Calls
  PROVE  IsFiniteSet(S) /\ Cardinality(S) \in 0..Cardinality(Calls)
         /\ Cardinality(Calls) \in Nat
BY FiniteAttempts

\* Before a request counts, its key's counter is the number of those that
\* have, and neither it nor this attempt is among them.
LEMMA CountsItself ==
  ASSUME RateInv, NEW c \in Calls, Sends(c)
  PROVE  /\ IncrKey(c) \in CounterKeys
         /\ IncrKey(c) \in {BluntKey(c), TierKey(c)}
         /\ <<IncrKey(c), c>> \notin counted
         /\ <<c, call[c].resent>> \in Attempts
         /\ <<IncrKey(c), <<c, call[c].resent>>>> \notin lost
         /\ counters[IncrKey(c)].count =
              Cardinality(CountedUnder(IncrKey(c))) + Cardinality(LostUnder(IncrKey(c)))
<1>0. call[c].at \in {"blunt", "tier"} /\ call[c].resent <= MaxRetries /\ InTime(c)
  BY DEF Sends
<1>1. IncrKey(c) \in CounterKeys /\ IncrKey(c)[3] = Window(c)
      /\ IncrKey(c) = IF call[c].at = "blunt" THEN BluntKey(c) ELSE TierKey(c)
  BY KeysOfCall DEF IncrKey, RateInv
<1>2. <<IncrKey(c), c>> \notin counted
  BY <1>0, <1>1, KeysOfCall DEF RateInv, CountsOnce
<1>3. tick < Deadline(IncrKey(c))
  BY <1>0, <1>1, DeadlineOfCall DEF RateInv
<1>4. <<c, call[c].resent>> \in Attempts
  BY <1>0, CallFields, RateNumbers DEF RateInv, Attempts
<1>5. <<IncrKey(c), <<c, call[c].resent>>>> \notin lost
  <2> DEFINE a == <<c, call[c].resent>>
  <2>1. /\ a \in Attempts /\ a[1] = c /\ a[2] = call[c].resent
        /\ call[c].resent \in Nat /\ BluntKey(c) # TierKey(c)
    BY <1>4, CallFields, KeysOfCall DEF RateInv
  <2> HIDE DEF a
  <2>2. ~(a[2] < call[c].resent)
    BY <2>1
  <2>3. <<IncrKey(c), a>> \notin lost
    BY <1>0, <1>1, <2>1, <2>2 DEF RateInv, LostInTurn
  <2> QED
    BY <2>3 DEF a
<1> QED
  BY <1>1, <1>2, <1>3, <1>4, <1>5 DEF RateInv, CountsExact

LEMMA OneMoreCounted ==
  ASSUME RateInv, NEW c \in Calls, Sends(c), counted' = counted \cup {<<IncrKey(c), c>>}
  PROVE  /\ CountedUnder(IncrKey(c))' \subseteq Calls
         /\ \A key \in CounterKeys \ {IncrKey(c)} :
              {d \in Calls : <<key, d>> \in counted'} = CountedUnder(key)
         /\ {d \in Calls : <<IncrKey(c), d>> \in counted'} = CountedUnder(IncrKey(c)) \cup {c}
         /\ c \notin CountedUnder(IncrKey(c))
         /\ Cardinality(CountedUnder(IncrKey(c)) \cup {c}) + Cardinality(LostUnder(IncrKey(c)))
              = counters[IncrKey(c)].count + 1
         /\ counters[IncrKey(c)].count + 1 \in 0..MaxCount
<1> DEFINE key == IncrKey(c)
           S == CountedUnder(key)
           L == LostUnder(key)
<1>1. /\ c \notin S /\ S \subseteq Calls /\ L \subseteq Attempts
      /\ counters[key].count = Cardinality(S) + Cardinality(L)
  BY CountsItself DEF CountedUnder, LostUnder
<1>2. IsFiniteSet(S) /\ Cardinality(S) \in Nat
      /\ Cardinality(L) \in Nat /\ Cardinality(L) <= Cardinality(Attempts)
  BY <1>1, FiniteAttempts
<1>3. Cardinality(S \cup {c}) = Cardinality(S) + 1
  BY <1>1, <1>2, FS_AddElement
<1>4. Cardinality(S \cup {c}) <= Cardinality(Calls)
  <2>1. S \cup {c} \in SUBSET Calls
    BY <1>1
  <2> QED
    BY <2>1, FiniteAttempts
<1>5. {d \in Calls : <<key, d>> \in counted'} = S \cup {c}
  BY DEF CountedUnder
<1>6. \A k \in CounterKeys \ {key} : {d \in Calls : <<k, d>> \in counted'} = CountedUnder(k)
  BY DEF CountedUnder
<1>7. counters[key].count + 1 = Cardinality(S \cup {c}) + Cardinality(L)
      /\ counters[key].count + 1 \in 0..MaxCount
  <2> HIDE DEF S, L, key
  <2> QED
    BY <1>1, <1>2, <1>3, <1>4, FiniteAttempts DEF MaxCount
<1> QED
  BY <1>1, <1>5, <1>6, <1>7 DEF CountedUnder

LEMMA OneMoreLost ==
  ASSUME RateInv, NEW c \in Calls, Sends(c),
         lost' = lost \cup {<<IncrKey(c), <<c, call[c].resent>>>>}
  PROVE  /\ \A key \in CounterKeys \ {IncrKey(c)} :
              {a \in Attempts : <<key, a>> \in lost'} = LostUnder(key)
         /\ Cardinality(CountedUnder(IncrKey(c)))
              + Cardinality({a \in Attempts : <<IncrKey(c), a>> \in lost'})
              = counters[IncrKey(c)].count + 1
         /\ counters[IncrKey(c)].count + 1 \in 0..MaxCount
<1> DEFINE key == IncrKey(c)
           S == CountedUnder(key)
           L == LostUnder(key)
           e == <<c, call[c].resent>>
<1>1. /\ e \in Attempts /\ e \notin L /\ S \subseteq Calls /\ L \subseteq Attempts
      /\ counters[key].count = Cardinality(S) + Cardinality(L)
  BY CountsItself DEF CountedUnder, LostUnder
<1>2. {a \in Attempts : <<key, a>> \in lost'} = L \cup {e}
  BY <1>1 DEF LostUnder
<1>3. \A k \in CounterKeys \ {key} : {a \in Attempts : <<k, a>> \in lost'} = LostUnder(k)
  BY DEF LostUnder
<1> HIDE DEF e, L, S, key
<1>4. /\ IsFiniteSet(L) /\ Cardinality(L) \in Nat
      /\ Cardinality(S) \in Nat /\ Cardinality(S) <= Cardinality(Calls)
  BY <1>1, FiniteAttempts
<1>5. Cardinality(L \cup {e}) = Cardinality(L) + 1
  BY <1>1, <1>4, FS_AddElement
<1>6. L \cup {e} \in SUBSET Attempts
  BY <1>1
<1>7. Cardinality(L \cup {e}) <= Cardinality(Attempts)
  BY <1>6, FiniteAttempts
<1>8. counters[key].count + 1 = Cardinality(S) + Cardinality(L \cup {e})
      /\ counters[key].count + 1 \in 0..MaxCount
  BY <1>1, <1>4, <1>5, <1>7, FiniteAttempts DEF MaxCount
<1> QED
  BY <1>2, <1>3, <1>8 DEF key, S

-----------------------------------------------------------------------------
(* The invariant.                                                           *)

LEMMA RateInitial ==
  ASSUME RateInit
  PROVE  RateInv
<1>1. Never \in 0..Never /\ 0 \in 0..MaxCount /\ 0 \in 0..(MaxRetries + 1)
  BY FiniteAttempts, RateNumbers DEF Never
<1>2. RateTypeOK
  BY <1>1, RateNumbers DEF RateInit, RateTypeOK
<1>3. SinceInPast /\ CountsOnce /\ LostInTurn /\ admitted \subseteq counted
  BY DEF RateInit, SinceInPast, CountsOnce, LostInTurn
<1>4. CountersOutlive
  BY <1>2, NeverOutlives DEF RateInit, CountersOutlive
<1>5. CountsExact
  <2>1. \A key \in CounterKeys : CountedUnder(key) = {} /\ LostUnder(key) = {}
    BY DEF RateInit, CountedUnder, LostUnder
  <2> QED
    BY <2>1, FS_EmptySet DEF RateInit, CountsExact
<1> QED
  BY <1>2, <1>3, <1>4, <1>5 DEF RateInv

\* The counters' type, by the steps that write them.
LEMMA CountersTyped ==
  ASSUME RateInv, RateNext
  PROVE  /\ counters' \in [CounterKeys -> [count : 0..MaxCount, expires : 0..Never]]
         /\ caller' = caller
<1>1. MaxCount \in Nat /\ Never \in Nat
  BY RateNumbers, FiniteAttempts DEF Never
<1>2. CASE TickRate
  BY <1>1, <1>2, RateNumbers DEF TickRate, RateInv, RateTypeOK
<1>3. ASSUME NEW c \in Calls, Incr(c) \/ IncrUnanswered(c)
      PROVE  counters' \in [CounterKeys -> [count : 0..MaxCount, expires : 0..Never]]
  <2>1. /\ counters' = [counters EXCEPT ![IncrKey(c)].count = counters[IncrKey(c)].count + 1]
        /\ \/ counted' = counted \cup {<<IncrKey(c), c>>}
           \/ lost' = lost \cup {<<IncrKey(c), <<c, call[c].resent>>>>}
        /\ Sends(c)
    BY <1>3 DEF Incr, IncrUnanswered
  <2>2. counters[IncrKey(c)].count + 1 \in 0..MaxCount
    BY <2>1, OneMoreCounted, OneMoreLost
  <2> QED
    BY <2>1, <2>2 DEF RateInv, RateTypeOK
<1>4. ASSUME NEW c \in Calls, Expire(c)
      PROVE  counters' \in [CounterKeys -> [count : 0..MaxCount, expires : 0..Never]]
  <2>1. tick + CounterTTL \in 0..Never
    BY <1>1, RateNumbers DEF Never, RateInv, RateTypeOK
  <2> QED
    BY <1>4, <2>1 DEF Expire, ExpiresAt, RateInv, RateTypeOK
<1>5. ASSUME NEW c \in Calls,
             ArriveCall(c) \/ ExpireFails(c) \/ FailOpen(c)
      PROVE  counters' = counters
  BY <1>5 DEF ArriveCall, ExpireFails, FailOpen
<1>6. caller' = caller
  BY DEF RateNext, TickRate, ArriveCall, Incr, IncrUnanswered, FailOpen, Expire, ExpireFails
<1> QED
  BY <1>2, <1>3, <1>4, <1>5, <1>6 DEF RateNext, RateInv, RateTypeOK

LEMMA RateTyped ==
  ASSUME RateInv, RateNext
  PROVE  RateTypeOK'
<1>1. caller' \in Callers /\ CounterKeys' = CounterKeys
  BY CountersTyped, CounterKeysStay DEF RateInv, RateTypeOK
<1>2. tick' \in 0..MaxTick
  <2>1. tick \in 0..MaxTick
    BY DEF RateInv, RateTypeOK
  <2>2. CASE TickRate
    BY <2>1, <2>2, RateNumbers DEF TickRate
  <2>3. ASSUME ~TickRate PROVE tick' = tick
    BY <2>3 DEF RateNext, ArriveCall, Incr, IncrUnanswered, FailOpen, Expire, ExpireFails
  <2> QED
    BY <2>1, <2>2, <2>3
<1>3. call' \in [Calls -> [at : {"idle", "blunt", "bluntTTL", "tier", "tierTTL",
                                 "open", "pass", "reject"},
                           since : 0..MaxTick,
                           resent : 0..(MaxRetries + 1)]]
  BY CallsTyped DEF RateNext, TickRate, Counting, Expiring, RateInv, RateTypeOK
<1>4. /\ admitted' \subseteq CounterKeys \X Calls
      /\ counted' \subseteq CounterKeys \X Calls
      /\ lost' \subseteq CounterKeys \X Attempts
      /\ leaked' \subseteq CounterKeys
  <2>1. CASE TickRate
    BY <2>1 DEF TickRate, RateInv, RateTypeOK
  <2>2. ASSUME NEW c \in Calls, ArriveCall(c) \/ Counting(c) \/ Expiring(c)
        PROVE  /\ admitted' \subseteq CounterKeys \X Calls
               /\ counted' \subseteq CounterKeys \X Calls
               /\ lost' \subseteq CounterKeys \X Attempts
               /\ leaked' \subseteq CounterKeys
    <3>1. IncrKey(c) \in CounterKeys /\ ExpireKey(c) \in CounterKeys
      BY KeysOfCall DEF IncrKey, ExpireKey, RateInv
    <3>2. /\ admitted' \in {admitted, admitted \cup {<<IncrKey(c), c>>}}
          /\ counted' \in {counted, counted \cup {<<IncrKey(c), c>>}}
          /\ \/ lost' = lost
             \/ lost' = lost \cup {<<IncrKey(c), <<c, call[c].resent>>>>} /\ Sends(c)
          /\ leaked' \in {leaked, leaked \cup {IncrKey(c)}, leaked \cup {ExpireKey(c)}}
      BY <2>2 DEF ArriveCall, Counting, Expiring, Incr, IncrUnanswered,
           FailOpen, Expire, ExpireFails
    <3>3. lost' \subseteq CounterKeys \X Attempts
      <4>1. lost \subseteq CounterKeys \X Attempts
        BY DEF RateInv, RateTypeOK
      <4>2. CASE Sends(c)
        <5>1. <<IncrKey(c), <<c, call[c].resent>>>> \in CounterKeys \X Attempts
          BY <4>2, CountsItself
        <5> QED
          BY <3>2, <4>1, <5>1
      <4> QED
        BY <3>2, <4>1, <4>2
    <3> QED
      BY <2>2, <3>1, <3>2, <3>3 DEF RateInv, RateTypeOK
  <2> QED
    BY <2>1, <2>2 DEF RateNext, Counting, Expiring
<1> QED
  BY <1>1, <1>2, <1>3, <1>4, CountersTyped DEF RateTypeOK

LEMMA SinceStaysInPast ==
  ASSUME RateInv, RateNext
  PROVE  SinceInPast'
<1>1. CASE TickRate
  BY <1>1, CallFields DEF TickRate, RateInv, SinceInPast
<1>2. ASSUME NEW c \in Calls, ArriveCall(c) \/ Counting(c) \/ Expiring(c)
      PROVE  SinceInPast'
  BY <1>2, OtherCallsStay, CallFields DEF RateInv, SinceInPast
<1> QED
  BY <1>1, <1>2 DEF RateNext, Counting, Expiring

LEMMA StillCountsOnce ==
  ASSUME RateInv, RateNext
  PROVE  CountsOnce' /\ admitted' \subseteq counted'
<1>1. CASE TickRate
  <2>1. caller' = caller /\ call' = call /\ counted' = counted /\ admitted' = admitted
    BY <1>1 DEF TickRate
  <2> QED
    BY <2>1, KeysStay, CounterKeysStay DEF RateInv, CountsOnce
<1>2. ASSUME NEW c \in Calls, ArriveCall(c) \/ Counting(c) \/ Expiring(c)
      PROVE  CountsOnce' /\ admitted' \subseteq counted'
  <2>1. /\ caller' = caller /\ CounterKeys' = CounterKeys
        /\ \A d \in Calls \ {c} : call'[d] = call[d]
        /\ RateTypeOK
    BY <1>2, OtherCallsStay, CounterKeysStay DEF RateInv
  <2>2. \A d \in Calls \ {c} : BluntKey(d)' = BluntKey(d) /\ TierKey(d)' = TierKey(d)
    BY <2>1, KeysStay
  <2>3. \/ counted' = counted
        \/ counted' = counted \cup {<<IncrKey(c), c>>} /\ Incr(c)
    BY <1>2 DEF ArriveCall, Counting, Expiring, Incr, IncrUnanswered,
           FailOpen, Expire, ExpireFails
  <2>4. admitted' \subseteq counted'
    BY <1>2 DEF ArriveCall, Counting, Expiring, Incr, IncrUnanswered,
           FailOpen, Expire, ExpireFails, RateInv
  <2>5. ASSUME NEW key \in CounterKeys, <<key, c>> \in counted'
        PROVE  \/ key = BluntKey(c)' /\ call'[c].at \notin {"idle", "blunt"}
               \/ key = TierKey(c)' /\ call'[c].at \notin {"idle", "blunt", "bluntTTL", "tier"}
    <3>1. CASE ArriveCall(c)
      <4>1. call[c].at = "idle" /\ counted' = counted
        BY <3>1 DEF ArriveCall
      <4> QED
        BY <4>1, <2>5 DEF RateInv, CountsOnce
    <3>2. CASE Counting(c) \/ Expiring(c)
      <4>1. call'[c].since = call[c].since
        BY <3>2 DEF RateInv, RateTypeOK, Counting, Expiring, Incr, IncrUnanswered,
               FailOpen, Expire, ExpireFails, CallStep
      <4>2. BluntKey(c)' = BluntKey(c) /\ TierKey(c)' = TierKey(c)
        BY <2>1, <4>1, KeysStay
      <4>3. CASE <<key, c>> \in counted
        BY <2>1, <3>2, <4>2, <4>3, MovesTo DEF RateInv, CountsOnce, Counting
      <4>4. CASE key = IncrKey(c) /\ Incr(c)
        BY <2>1, <4>2, <4>4, MovesTo DEF IncrKey
      <4> QED
        BY <2>3, <2>5, <4>3, <4>4
    <3> QED
      BY <1>2, <3>1, <3>2
  <2>6. ASSUME NEW key \in CounterKeys, NEW d \in Calls \ {c}, <<key, d>> \in counted'
        PROVE  \/ key = BluntKey(d)' /\ call'[d].at \notin {"idle", "blunt"}
               \/ key = TierKey(d)' /\ call'[d].at \notin {"idle", "blunt", "bluntTTL", "tier"}
    <3>1. <<key, d>> \in counted
      BY <2>3, <2>6
    <3> QED
      BY <2>1, <2>2, <3>1 DEF RateInv, CountsOnce
  <2> QED
    BY <2>1, <2>4, <2>5, <2>6 DEF CountsOnce
<1> QED
  BY <1>1, <1>2 DEF RateNext, Counting, Expiring

LEMMA StillLostInTurn ==
  ASSUME RateInv, RateNext
  PROVE  LostInTurn'
<1>1. CASE TickRate
  <2>1. caller' = caller /\ call' = call /\ lost' = lost
    BY <1>1 DEF TickRate
  <2>2. \A a \in Attempts : a[1] \in Calls
    BY DEF Attempts
  <2> QED
    BY <2>1, <2>2, KeysStay, CounterKeysStay DEF RateInv, LostInTurn
<1>2. ASSUME NEW c \in Calls, ArriveCall(c) \/ Counting(c) \/ Expiring(c)
      PROVE  LostInTurn'
  <2>1. /\ caller' = caller /\ CounterKeys' = CounterKeys
        /\ \A d \in Calls \ {c} : call'[d] = call[d]
        /\ RateTypeOK
    BY <1>2, OtherCallsStay, CounterKeysStay DEF RateInv
  <2>2. \A d \in Calls \ {c} : BluntKey(d)' = BluntKey(d) /\ TierKey(d)' = TierKey(d)
    BY <2>1, KeysStay
  <2> SUFFICES ASSUME NEW key \in CounterKeys, NEW a \in Attempts, <<key, a>> \in lost'
               PROVE  \/ /\ key = BluntKey(a[1])' /\ call'[a[1]].at # "idle"
                         /\ call'[a[1]].at = "blunt" => a[2] < call'[a[1]].resent
                      \/ /\ key = TierKey(a[1])'
                         /\ call'[a[1]].at \notin {"idle", "blunt", "bluntTTL"}
                         /\ call'[a[1]].at = "tier" => a[2] < call'[a[1]].resent
    BY <2>1 DEF LostInTurn
  <2>3. a[1] \in Calls /\ a[2] \in Nat
    BY RateNumbers DEF Attempts
  <2>4. CASE a[1] # c
    <3>1. <<key, a>> \in lost
      BY <1>2, <2>4 DEF ArriveCall, Counting, Expiring, Incr, IncrUnanswered, FailOpen,
                        Expire, ExpireFails
    <3> QED
      BY <2>1, <2>2, <2>3, <2>4, <3>1 DEF RateInv, LostInTurn
  <2>5. CASE a[1] = c
    <3>1. CASE ArriveCall(c)
      <4>1. call[c].at = "idle" /\ <<key, a>> \in lost
        BY <3>1 DEF ArriveCall
      <4> QED
        BY <2>5, <4>1 DEF RateInv, LostInTurn
    <3>2. CASE Counting(c) \/ Expiring(c)
      <4>1. call'[c].since = call[c].since
        BY <3>2 DEF RateInv, RateTypeOK, Counting, Expiring, Incr, IncrUnanswered,
                    FailOpen, Expire, ExpireFails, CallStep
      <4>2. BluntKey(c)' = BluntKey(c) /\ TierKey(c)' = TierKey(c)
        BY <2>1, <4>1, KeysStay
      <4>3. CASE ~IncrUnanswered(c)
        <5>1. <<key, a>> \in lost
          BY <3>2, <4>3 DEF Counting, Expiring, Incr, FailOpen, Expire, ExpireFails
        <5>2. BluntKey(c) # TierKey(c)
          BY <2>1, KeysOfCall
        <5>3. \/ key = BluntKey(c) /\ call[c].at # "idle"
              \/ key = TierKey(c) /\ call[c].at \notin {"idle", "blunt", "bluntTTL"}
          BY <2>5, <5>1 DEF RateInv, LostInTurn
        <5> QED
          BY <2>1, <2>5, <3>2, <4>2, <4>3, <5>3, MovesTo DEF Counting
      <4>4. CASE IncrUnanswered(c)
        <5>1. /\ call'[c].at = call[c].at /\ call[c].at \in {"blunt", "tier"}
              /\ call'[c].resent = call[c].resent + 1 /\ call[c].resent \in Nat
          BY <2>1, <4>4, CallFields DEF IncrUnanswered, Sends, RateTypeOK
        <5>2. CASE <<key, a>> \in lost
          <6>1. a[2] < call[c].resent => a[2] < call'[c].resent
            BY <2>3, <5>1
          <6> QED
            BY <2>5, <4>2, <5>1, <5>2, <6>1 DEF RateInv, LostInTurn
        <5>3. CASE key = IncrKey(c) /\ a = <<c, call[c].resent>>
          <6>1. a[2] < call'[c].resent
            BY <5>1, <5>3
          <6> QED
            BY <2>5, <4>2, <5>1, <5>3, <6>1 DEF IncrKey
        <5> QED
          BY <4>4, <5>2, <5>3 DEF IncrUnanswered
      <4> QED
        BY <4>3, <4>4
    <3> QED
      BY <1>2, <3>1, <3>2
  <2> QED
    BY <2>4, <2>5
<1> QED
  BY <1>1, <1>2 DEF RateNext, Counting, Expiring

LEMMA DeadlineStays ==
  ASSUME NEW key
  PROVE  Deadline(key)' = Deadline(key)
BY DEF Deadline

LEMMA CountersStillOutlive ==
  ASSUME RateInv, RateNext
  PROVE  CountersOutlive'
<1>0. CounterKeys' = CounterKeys
  BY CountersTyped, CounterKeysStay
<1>1. CASE TickRate
  <2> SUFFICES ASSUME NEW key \in CounterKeys
               PROVE  counters'[key].expires >= Deadline(key)
    BY <1>0 DEF CountersOutlive, Deadline
  <2>1. counters'[key].expires \in {counters[key].expires, Never}
    BY <1>1 DEF TickRate
  <2> QED
    BY <2>1, NeverOutlives DEF RateInv, CountersOutlive
<1>2. ASSUME NEW c \in Calls, Expire(c)
      PROVE  CountersOutlive'
  <2> SUFFICES ASSUME NEW key \in CounterKeys
               PROVE  counters'[key].expires >= Deadline(key)
    BY <1>0 DEF CountersOutlive, Deadline
  <2>1. ExpireKey(c)[3] = Window(c)
    BY KeysOfCall DEF ExpireKey, RateInv
  <2>2. tick + CounterTTL >= Deadline(ExpireKey(c))
    BY <2>1, DeadlineOfCall DEF RateInv
  <2>3. counters'[key].expires = IF key = ExpireKey(c) THEN tick + CounterTTL
                                 ELSE counters[key].expires
    BY <1>2 DEF Expire, ExpiresAt, RateInv, RateTypeOK
  <2> QED
    BY <2>2, <2>3 DEF RateInv, CountersOutlive
<1>3. ASSUME NEW c \in Calls, ArriveCall(c) \/ Counting(c) \/ ExpireFails(c)
      PROVE  CountersOutlive'
  <2> SUFFICES ASSUME NEW key \in CounterKeys
               PROVE  counters'[key].expires >= Deadline(key)
    BY <1>0 DEF CountersOutlive, Deadline
  <2>1. counters'[key].expires = counters[key].expires
    <3>1. \/ counters' = counters
          \/ counters' = [counters EXCEPT ![IncrKey(c)].count = counters[IncrKey(c)].count + 1]
      BY <1>3 DEF ArriveCall, Counting, ExpireFails, Incr, IncrUnanswered, FailOpen
    <3>2. counters \in [CounterKeys -> [count : 0..MaxCount, expires : 0..Never]]
      BY DEF RateInv, RateTypeOK
    <3> QED
      BY <3>1, <3>2
  <2> QED
    BY <2>1 DEF RateInv, CountersOutlive
<1> QED
  BY <1>1, <1>2, <1>3 DEF RateNext, Counting

LEMMA CountsStayExact ==
  ASSUME RateInv, RateNext
  PROVE  CountsExact'
<1>0. CounterKeys' = CounterKeys
  BY CountersTyped, CounterKeysStay
<1>1. CASE TickRate
  <2> SUFFICES ASSUME NEW key \in CounterKeys, tick' < Deadline(key)
               PROVE  counters'[key].count
                        = Cardinality(CountedUnder(key)') + Cardinality(LostUnder(key)')
    BY <1>0 DEF CountsExact, Deadline
  <2>1. /\ tick' = tick + 1 /\ tick \in Nat /\ counted' = counted /\ lost' = lost
        /\ counters[key].expires \in Nat /\ counters[key].expires >= Deadline(key)
        /\ Deadline(key) \in Nat
    BY <1>1, NeverOutlives, RateNumbers DEF TickRate, RateInv, RateTypeOK, CountersOutlive
  <2>2. counters'[key] = counters[key] /\ tick < Deadline(key)
    BY <1>1, <2>1 DEF TickRate
  <2> QED
    BY <2>1, <2>2 DEF RateInv, CountsExact, CountedUnder, LostUnder
<1>2. ASSUME NEW c \in Calls, Incr(c) \/ IncrUnanswered(c)
      PROVE  CountsExact'
  <2>1. /\ counters' = [counters EXCEPT ![IncrKey(c)].count = counters[IncrKey(c)].count + 1]
        /\ \/ counted' = counted \cup {<<IncrKey(c), c>>} /\ lost' = lost
           \/ counted' = counted /\ lost' = lost \cup {<<IncrKey(c), <<c, call[c].resent>>>>}
        /\ Sends(c) /\ tick' = tick
    BY <1>2 DEF Incr, IncrUnanswered
  <2> SUFFICES ASSUME NEW key \in CounterKeys, tick < Deadline(key)
               PROVE  counters'[key].count
                        = Cardinality({d \in Calls : <<key, d>> \in counted'})
                            + Cardinality({a \in Attempts : <<key, a>> \in lost'})
    BY <1>0, <2>1 DEF CountsExact, Deadline, CountedUnder, LostUnder
  <2>2. CASE key = IncrKey(c)
    <3>1. counters'[key].count = counters[key].count + 1
      BY <2>1, <2>2 DEF RateInv, RateTypeOK
    <3>2. CASE counted' = counted \cup {<<IncrKey(c), c>>} /\ lost' = lost
      BY <2>1, <2>2, <3>1, <3>2, OneMoreCounted DEF LostUnder
    <3>3. CASE counted' = counted /\ lost' = lost \cup {<<IncrKey(c), <<c, call[c].resent>>>>}
      BY <2>1, <2>2, <3>1, <3>3, OneMoreLost DEF CountedUnder
    <3> QED
      BY <2>1, <3>2, <3>3
  <2>3. CASE key # IncrKey(c)
    <3>1. counters'[key] = counters[key]
      BY <2>1, <2>3 DEF RateInv, RateTypeOK
    <3>2. /\ {d \in Calls : <<key, d>> \in counted'} = CountedUnder(key)
          /\ {a \in Attempts : <<key, a>> \in lost'} = LostUnder(key)
      BY <2>1, <2>3, OneMoreCounted, OneMoreLost DEF CountedUnder, LostUnder
    <3> QED
      BY <3>1, <3>2 DEF RateInv, CountsExact
  <2> QED
    BY <2>2, <2>3
<1>3. ASSUME NEW c \in Calls, ArriveCall(c) \/ Expiring(c) \/ FailOpen(c)
      PROVE  CountsExact'
  <2> SUFFICES ASSUME NEW key \in CounterKeys, tick' < Deadline(key)
               PROVE  counters'[key].count
                        = Cardinality(CountedUnder(key)') + Cardinality(LostUnder(key)')
    BY <1>0 DEF CountsExact, Deadline
  <2>1. counters'[key].count = counters[key].count /\ tick' = tick
    BY <1>3 DEF ArriveCall, Expiring, Expire, ExpireFails, FailOpen, RateInv, RateTypeOK
  <2>2. counted' = counted /\ lost' = lost
    BY <1>3 DEF ArriveCall, Expiring, Expire, ExpireFails, FailOpen
  <2> QED
    BY <2>1, <2>2 DEF RateInv, CountsExact, CountedUnder, LostUnder
<1> QED
  BY <1>1, <1>2, <1>3 DEF RateNext, Expiring

LEMMA RateInvariant == RateSpec => []RateInv
<1>1. RateInit => RateInv
  BY RateInitial
<1>2. RateInv /\ [RateNext]_rateVars => RateInv'
  <2>1. ASSUME RateInv, RateNext PROVE RateInv'
    BY <2>1, RateTyped, SinceStaysInPast, StillCountsOnce, StillLostInTurn,
       CountersStillOutlive, CountsStayExact
       DEF RateInv
  <2>2. ASSUME RateInv, UNCHANGED rateVars PROVE RateInv'
    <3>1. /\ caller' = caller /\ tick' = tick /\ counters' = counters /\ call' = call
          /\ admitted' = admitted /\ counted' = counted /\ lost' = lost /\ leaked' = leaked
      BY <2>2 DEF rateVars
    <3>2. CounterKeys' = CounterKeys
      BY <3>1, CounterKeysStay
    <3>3. RateTypeOK' /\ SinceInPast' /\ CountersOutlive' /\ CountsExact'
      BY <2>2, <3>1, <3>2 DEF RateInv, RateTypeOK, SinceInPast, CountersOutlive, CountsExact,
                              CountedUnder, LostUnder, Deadline
    <3>4. CountsOnce' /\ LostInTurn'
      <4>1. \A a \in Attempts : a[1] \in Calls
        BY DEF Attempts
      <4> QED
        BY <2>2, <3>1, <3>2, <4>1, KeysStay DEF RateInv, CountsOnce, LostInTurn
    <3> QED
      BY <2>2, <3>1, <3>3, <3>4 DEF RateInv
  <2> QED
    BY <2>1, <2>2
<1> QED
  BY <1>1, <1>2, PTL DEF RateSpec

-----------------------------------------------------------------------------
(* The theorems.                                                            *)

\* The state keeps its types; no counter counts more than the requests and
\* the attempts whose reply was lost (ratelimit.go:107-121).
THEOREM RateTypesCorrect == RateSpec => []RateTypeOK
<1>1. RateInv => RateTypeOK
  BY DEF RateInv
<1> QED
  BY <1>1, RateInvariant, PTL

LEMMA LimitKept ==
  ASSUME RateInv, LimitHolds, RateNext
  PROVE  LimitHolds'
<1>0. CounterKeys' = CounterKeys
  BY CountersTyped, CounterKeysStay
<1> SUFFICES ASSUME NEW key \in CounterKeys
             PROVE  Cardinality({d \in Calls : <<key, d>> \in admitted'}) <= RateLimit(key)
  BY <1>0 DEF LimitHolds, RateLimit
<1>1. CASE {d \in Calls : <<key, d>> \in admitted'} = {d \in Calls : <<key, d>> \in admitted}
  BY <1>1 DEF LimitHolds
<1>2. ASSUME NEW c \in Calls, Incr(c), key = IncrKey(c), Admits(counters[key].count + 1, key)
      PROVE  Cardinality({d \in Calls : <<key, d>> \in admitted'}) <= RateLimit(key)
  <2> DEFINE A == {d \in Calls : <<key, d>> \in admitted'}
             C == CountedUnder(key) \cup {c}
  <2>1. /\ Sends(c)
        /\ counted' = counted \cup {<<key, c>>}
        /\ admitted' = admitted \cup {<<key, c>>}
    BY <1>2 DEF Incr
  <2>2. /\ Cardinality(C) + Cardinality(LostUnder(key)) = counters[key].count + 1
        /\ C \subseteq Calls
    BY <1>2, <2>1, OneMoreCounted DEF CountedUnder
  <2>8. LostUnder(key) \in SUBSET Attempts
    BY DEF LostUnder
  <2>9. Cardinality(LostUnder(key)) \in Nat
    BY <2>8, FiniteAttempts
  <2>3. A \subseteq C
    BY <2>1 DEF RateInv, CountedUnder
  <2>4. IsFiniteSet(C) /\ Cardinality(C) \in Nat
    BY <2>2, FiniteCalls
  <2>5. Cardinality(A) <= Cardinality(C) /\ Cardinality(A) \in Nat
    BY <2>3, <2>4, FS_Subset, FS_CardinalityType
  <2>7. RateLimit(key) \in Nat
    BY KeyFacts DEF RateInv, RateTypeOK
  <2>6. Cardinality(C) <= RateLimit(key)
    BY <1>2, <2>2, <2>4, <2>7, <2>9 DEF Admits
  <2> QED
    BY <2>4, <2>5, <2>6, <2>7
<1>3. ASSUME {d \in Calls : <<key, d>> \in admitted'} # {d \in Calls : <<key, d>> \in admitted}
      PROVE  \E c \in Calls : Incr(c) /\ key = IncrKey(c) /\ Admits(counters[key].count + 1, key)
  BY <1>3 DEF RateNext, TickRate, ArriveCall, Incr, IncrUnanswered, FailOpen, Expire, ExpireFails
<1> QED
  BY <1>1, <1>2, <1>3

\* No key of a minute lets more requests through than its limit, for any
\* callers, limits and lengths of a minute, if a counter lives for a minute
\* and the time a request spends on Redis (ratelimit.go:112-121).
THEOREM LimitsHold == RateSpec => []LimitHolds
<1>1. RateInit => LimitHolds
  <2> SUFFICES ASSUME RateInit, NEW key \in CounterKeys
               PROVE  Cardinality({c \in Calls : <<key, c>> \in admitted}) <= RateLimit(key)
    BY DEF LimitHolds
  <2>1. {c \in Calls : <<key, c>> \in admitted} = {}
    BY DEF RateInit
  <2>2. RateLimit(key) \in Nat \ {0}
    BY KeyFacts DEF RateInit
  <2>3. Cardinality({c \in Calls : <<key, c>> \in admitted}) = 0
    BY <2>1, FS_EmptySet, Zenon
  <2> QED
    BY <2>2, <2>3
<1>2. RateInv /\ LimitHolds /\ [RateNext]_rateVars => LimitHolds'
  <2>1. ASSUME LimitHolds, UNCHANGED rateVars PROVE LimitHolds'
    <3>1. CounterKeys' = CounterKeys
      BY <2>1, CounterKeysStay DEF rateVars
    <3> QED
      BY <2>1, <3>1 DEF rateVars, LimitHolds, RateLimit
  <2> QED
    BY <2>1, LimitKept
<1> QED
  BY <1>1, <1>2, RateInvariant, PTL DEF RateSpec

LEMMA CountedGrows ==
  ASSUME RateNext
  PROVE  counted \subseteq counted' /\ lost \subseteq lost'
BY DEF RateNext, TickRate, ArriveCall, Incr, IncrUnanswered, FailOpen, Expire, ExpireFails

\* What has used up a limit keeps it used up.
LEMMA PaidStaysPaid ==
  ASSUME RateNext, NEW c \in Calls, NEW key
  PROVE  Cardinality({d \in Calls \ {c} : <<key, d>> \in counted})
             + Cardinality({a \in Attempts : <<key, a>> \in lost})
           <= Cardinality({d \in Calls \ {c} : <<key, d>> \in counted'})
             + Cardinality({a \in Attempts : <<key, a>> \in lost'})
<1> DEFINE S == {d \in Calls \ {c} : <<key, d>> \in counted}
           T == {d \in Calls \ {c} : <<key, d>> \in counted'}
           L == {a \in Attempts : <<key, a>> \in lost}
           M == {a \in Attempts : <<key, a>> \in lost'}
<1>1. S \subseteq T /\ L \subseteq M
  BY CountedGrows
<1>2. S \in SUBSET Calls /\ T \in SUBSET Calls /\ L \in SUBSET Attempts /\ M \in SUBSET Attempts
  OBVIOUS
<1> HIDE DEF S, T, L, M
<1>3. /\ IsFiniteSet(T) /\ Cardinality(T) \in Nat /\ Cardinality(S) \in Nat
      /\ IsFiniteSet(M) /\ Cardinality(M) \in Nat /\ Cardinality(L) \in Nat
  BY <1>2, FiniteAttempts
<1>4. Cardinality(S) <= Cardinality(T) /\ Cardinality(L) <= Cardinality(M)
  BY <1>1, <1>3, FS_Subset
<1>5. Cardinality(S) + Cardinality(L) <= Cardinality(T) + Cardinality(M)
  BY <1>3, <1>4
<1> QED
  BY <1>5 DEF S, T, L, M

LEMMA RejectionsStayEarned ==
  ASSUME RateInv, RejectionsEarned, RateNext
  PROVE  RejectionsEarned'
<1> SUFFICES ASSUME NEW c \in Calls, call'[c].at = "reject"
             PROVE  \E key \in {BluntKey(c)', TierKey(c)'} :
                      /\ <<key, c>> \in counted'
                      /\ Cardinality({d \in Calls \ {c} : <<key, d>> \in counted'})
                           + Cardinality({a \in Attempts : <<key, a>> \in lost'})
                         >= RateLimit(key)
  BY DEF RejectionsEarned, RateLimit
<1>0. RateTypeOK /\ caller' = caller
  BY CountersTyped DEF RateInv
<1>1. CASE call[c].at = "reject"
  <2>1. call'[c] = call[c]
    <3>1. ASSUME NEW d \in Calls, ArriveCall(d) \/ Counting(d) \/ Expiring(d) PROVE d # c
      BY <1>0, <1>1, <3>1, MovesTo DEF Counting
    <3> QED
      BY <1>0, <3>1, OtherCallsStay DEF RateNext, TickRate, Counting, Expiring
  <2>2. BluntKey(c)' = BluntKey(c) /\ TierKey(c)' = TierKey(c)
    BY <1>0, <2>1, KeysStay
  <2>3. PICK key \in {BluntKey(c), TierKey(c)} :
          /\ <<key, c>> \in counted
          /\ Cardinality({d \in Calls \ {c} : <<key, d>> \in counted})
               + Cardinality({a \in Attempts : <<key, a>> \in lost}) >= RateLimit(key)
    BY <1>1 DEF RejectionsEarned
  <2> DEFINE before == Cardinality({d \in Calls \ {c} : <<key, d>> \in counted})
                         + Cardinality({a \in Attempts : <<key, a>> \in lost})
             now == Cardinality({d \in Calls \ {c} : <<key, d>> \in counted'})
                      + Cardinality({a \in Attempts : <<key, a>> \in lost'})
  <2>4. before <= now /\ before >= RateLimit(key)
    BY <2>3, PaidStaysPaid
  <2>5. before \in Nat /\ now \in Nat
    <3>1. /\ {d \in Calls \ {c} : <<key, d>> \in counted} \in SUBSET Calls
          /\ {d \in Calls \ {c} : <<key, d>> \in counted'} \in SUBSET Calls
          /\ {a \in Attempts : <<key, a>> \in lost} \in SUBSET Attempts
          /\ {a \in Attempts : <<key, a>> \in lost'} \in SUBSET Attempts
      OBVIOUS
    <3>2. /\ Cardinality({d \in Calls \ {c} : <<key, d>> \in counted}) \in Nat
          /\ Cardinality({d \in Calls \ {c} : <<key, d>> \in counted'}) \in Nat
          /\ Cardinality({a \in Attempts : <<key, a>> \in lost}) \in Nat
          /\ Cardinality({a \in Attempts : <<key, a>> \in lost'}) \in Nat
      BY <3>1, FiniteAttempts, Zenon
    <3> QED
      BY <3>2
  <2>6. RateLimit(key) \in Nat
    BY <1>0, <2>3, KeysOfCall, KeyFacts DEF RateTypeOK
  <2>7. now >= RateLimit(key)
    <3> HIDE DEF before, now
    <3> QED
      BY <2>4, <2>5, <2>6
  <2>8. <<key, c>> \in counted'
    BY <2>3, CountedGrows
  <2> QED
    BY <2>2, <2>3, <2>7, <2>8
<1>2. CASE call[c].at # "reject"
  <2>1. Incr(c)
    <3>1. ASSUME NEW d \in Calls, ArriveCall(d) \/ Counting(d) \/ Expiring(d) PROVE d = c
      BY <1>0, <1>2, <3>1, OtherCallsStay
    <3> QED
      BY <1>0, <1>2, <3>1, MovesTo DEF RateNext, TickRate, Counting, Expiring
  <2> DEFINE key == IncrKey(c)
             S == CountedUnder(key)
             L == LostUnder(key)
  <2>2. /\ Sends(c)
        /\ counted' = counted \cup {<<key, c>>} /\ lost' = lost
        /\ call'[c].since = call[c].since
        /\ ~Admits(counters[key].count + 1, key)
    BY <1>0, <2>1 DEF Incr, Sends, RateTypeOK, Passes
  <2>3. /\ key \in CounterKeys /\ key \in {BluntKey(c), TierKey(c)}
        /\ <<key, c>> \notin counted
        /\ counters[key].count = Cardinality(S) + Cardinality(L)
    BY <2>2, CountsItself
  <2>4. /\ {d \in Calls \ {c} : <<key, d>> \in counted'} = S
        /\ {a \in Attempts : <<key, a>> \in lost'} = L
    BY <2>2, <2>3 DEF CountedUnder, LostUnder
  <2>5. S \in SUBSET Calls /\ L \in SUBSET Attempts /\ RateLimit(key) \in Nat
    BY <1>0, <2>3, KeyFacts DEF CountedUnder, LostUnder, RateTypeOK
  <2>6. Cardinality(S) + Cardinality(L) >= RateLimit(key)
    <3> HIDE DEF S, L, key
    <3>1. Cardinality(S) \in Nat /\ Cardinality(L) \in Nat
      BY <2>5, FiniteAttempts
    <3> QED
      BY <2>2, <2>3, <2>5, <3>1 DEF Admits
  <2>7. BluntKey(c)' = BluntKey(c) /\ TierKey(c)' = TierKey(c)
    BY <1>0, <2>2, KeysStay
  <2>8. key \in {BluntKey(c)', TierKey(c)'} /\ <<key, c>> \in counted'
    BY <2>2, <2>3, <2>7
  <2> HIDE DEF key, S, L
  <2> QED
    BY <2>4, <2>6, <2>8
<1> QED
  BY <1>1, <1>2

\* A request is rejected only after the limit of one of its own keys was used
\* up in its minute, by other requests or by INCRs that the client sent again
\* because their reply was lost (cache/client.go:56-61 keeps the client's
\* retries): a request may pay for its own lost attempts, for no other key.
THEOREM EveryRejectionEarned == RateSpec => []RejectionsEarned
<1>1. RateInit => RejectionsEarned
  BY DEF RateInit, RejectionsEarned
<1>2. RateInv /\ RejectionsEarned /\ [RateNext]_rateVars => RejectionsEarned'
  <2>1. ASSUME RejectionsEarned, UNCHANGED rateVars PROVE RejectionsEarned'
    BY <2>1, KeysStay DEF rateVars, RejectionsEarned, RateLimit
  <2> QED
    BY <2>1, RejectionsStayEarned
<1> QED
  BY <1>1, <1>2, RateInvariant, PTL DEF RateSpec

LEMMA CountersStillExpire ==
  ASSUME RateInv, CountersExpire, RateNext
  PROVE  CountersExpire'
<1>0. RateTypeOK /\ caller' = caller /\ CounterKeys' = CounterKeys
  BY CountersTyped, CounterKeysStay DEF RateInv
<1> SUFFICES ASSUME NEW key \in CounterKeys,
                    counters'[key].count > 0, counters'[key].expires = Never
             PROVE  \/ key \in leaked'
                    \/ \E c \in Calls : /\ call'[c].at \in {"bluntTTL", "tierTTL"}
                                        /\ ExpireKey(c)' = key
  BY <1>0 DEF CountersExpire, Never
<1> DEFINE Sending(c) == call[c].at \in {"bluntTTL", "tierTTL"} /\ ExpireKey(c) = key
<1>1. counters[key].count \in Nat /\ counters[key].expires \in Nat
  BY <1>0, FiniteAttempts, RateNumbers DEF RateTypeOK, Never
<1>2. CASE TickRate
  <2>1. counters[key].count > 0 /\ counters[key].expires = Never
    BY <1>2 DEF TickRate
  <2>2. \A c \in Calls : ExpireKey(c)' = ExpireKey(c)
    BY <1>2 DEF TickRate, ExpireKey, BluntKey, TierKey, Window, TierOf, Authenticated
  <2> QED
    BY <1>2, <2>1, <2>2 DEF TickRate, CountersExpire
<1>3. ASSUME NEW d \in Calls, ArriveCall(d) \/ Counting(d) \/ Expiring(d)
      PROVE  \/ key \in leaked'
             \/ \E c \in Calls : /\ call'[c].at \in {"bluntTTL", "tierTTL"}
                                 /\ ExpireKey(c)' = key
  <2>0. leaked \subseteq leaked'
    BY <1>3 DEF ArriveCall, Counting, Expiring, Incr, IncrUnanswered,
           FailOpen, Expire, ExpireFails
  <2>1. ASSUME NEW c \in Calls \ {d}, Sending(c)
        PROVE  call'[c].at \in {"bluntTTL", "tierTTL"} /\ ExpireKey(c)' = key
    <3>1. call'[c] = call[c]
      BY <1>0, <1>3, OtherCallsStay
    <3> QED
      BY <1>0, <2>1, <3>1, KeysStay DEF ExpireKey
  <2>2. CASE counters[key].count > 0 /\ counters[key].expires = Never
    <3>1. CASE key \in leaked
      BY <2>0, <3>1
    <3>2. ASSUME NEW c \in Calls \ {d}, Sending(c)
          PROVE  \E e \in Calls : call'[e].at \in {"bluntTTL", "tierTTL"} /\ ExpireKey(e)' = key
      BY <2>1, <3>2
    <3>3. CASE Sending(d)
      <4>1. Expiring(d)
        BY <1>0, <1>3, <3>3, MovesTo DEF Counting
      <4>2. CASE ExpireFails(d)
        BY <3>3, <4>2 DEF ExpireFails
      <4>3. CASE Expire(d)
        <5>1. counters'[key].expires = tick + CounterTTL
          BY <1>0, <3>3, <4>3 DEF Expire, ExpiresAt, RateTypeOK
        <5> QED
          BY <1>0, <5>1, RateNumbers DEF Never, RateTypeOK
      <4> QED
        BY <4>1, <4>2, <4>3 DEF Expiring
    <3> QED
      BY <2>2, <3>1, <3>2, <3>3 DEF CountersExpire
  <2>3. CASE ~(counters[key].count > 0 /\ counters[key].expires = Never)
    <3>1. Counting(d) /\ counters' # counters
      <4>1. ASSUME Expire(d) PROVE FALSE
        <5>1. ExpireKey(d) \in CounterKeys
          BY <1>0, KeysOfCall DEF ExpireKey
        <5>2. key = ExpireKey(d)
          BY <1>0, <2>3, <4>1, <5>1 DEF Expire, RateTypeOK
        <5>3. counters'[key].expires = tick + CounterTTL
          BY <1>0, <4>1, <5>2 DEF Expire, ExpiresAt, RateTypeOK
        <5> QED
          BY <1>0, <5>3, RateNumbers DEF Never, RateTypeOK
      <4> QED
        BY <1>3, <2>3, <4>1 DEF ArriveCall, Expiring, ExpireFails
    <3>2. /\ counters' = [counters EXCEPT ![IncrKey(d)].count = counters[IncrKey(d)].count + 1]
          /\ Sends(d) /\ call[d].at \in {"blunt", "tier"}
      BY <3>1 DEF Counting, Incr, IncrUnanswered, FailOpen, Sends
    <3>3. IncrKey(d) \in CounterKeys
      BY <3>2, CountsItself
    <3>4. key = IncrKey(d) /\ counters[key].count = 0
      BY <1>0, <1>1, <2>3, <3>2, <3>3 DEF RateTypeOK
    <3>5. CASE IncrUnanswered(d)
      BY <3>4, <3>5 DEF IncrUnanswered
    <3>6. CASE Incr(d)
      <4>1. call'[d].at = IF call[d].at = "blunt" THEN "bluntTTL" ELSE "tierTTL"
        BY <1>0, <3>4, <3>6 DEF Incr, RateTypeOK
      <4>2. call'[d].since = call[d].since
        BY <1>0, <3>6 DEF Incr, RateTypeOK
      <4>3. ExpireKey(d)' = key
        BY <1>0, <3>2, <3>4, <4>1, <4>2, KeysStay DEF ExpireKey, IncrKey
      <4> QED
        BY <4>1, <4>3
    <3> QED
      BY <3>1, <3>5, <3>6 DEF Counting, FailOpen
  <2> QED
    BY <2>2, <2>3
<1> QED
  BY <1>2, <1>3 DEF RateNext, Counting, Expiring

\* Only a counter whose EXPIRE was lost, or is still to be sent, has no end:
\* no interleaving of requests leaves another one behind.
THEOREM CountersComeToAnEnd == RateSpec => []CountersExpire
<1>1. RateInit => CountersExpire
  BY DEF RateInit, CountersExpire
<1>2. RateInv /\ CountersExpire /\ [RateNext]_rateVars => CountersExpire'
  <2>1. ASSUME CountersExpire, UNCHANGED rateVars PROVE CountersExpire'
    <3>1. CounterKeys' = CounterKeys /\ \A c \in Calls : ExpireKey(c)' = ExpireKey(c)
      BY <2>1, CounterKeysStay, KeysStay DEF rateVars, ExpireKey
    <3> QED
      BY <2>1, <3>1 DEF rateVars, CountersExpire, Never
  <2> QED
    BY <2>1, CountersStillExpire
<1> QED
  BY <1>1, <1>2, RateInvariant, PTL DEF RateSpec

-----------------------------------------------------------------------------
(* The verification of a mail address.                                      *)

VerifierStates == {"idle", "lookup", "consume", "ok", "consumed", "expired", "error"}
ResendStates == {"idle", "count", "insert", "ok", "toomany", "silent", "error"}

\* The resends that overlapped another's insert and have inserted, or failed.
Spent == {r \in raced : resend[r].at # "insert"}

\* A token followed from a mail was mailed; one that served is consumed.
LinksAreMailed ==
  \A v \in Verifiers :
    /\ verifier[v].at \in {"lookup", "consume", "ok"} => verifier[v].token \in mailed
    /\ verifier[v].at = "ok" => vtokens[verifier[v].token].consumed

\* The account is verified by a token that was mailed.
VerifiedByMail ==
  account = "verified" => \E t \in mailed : vtokens[t].consumed

\* Before the signup nothing is issued, and no resend gets past its look-up.
NothingBeforeSignup ==
  account = "none" => /\ Issued = {}
                      /\ \A r \in Resends : resend[r].at \notin {"count", "insert"}

\* A resend is raced while it inserts, or was.
RacedInserted == \A r \in raced : resend[r].at \in {"insert", "ok", "error"}

\* A resend that was not overtaken inserts below the limit; every other may
\* have gone one above it.
ActiveAccounted ==
  /\ Cardinality(ActiveTokens) <= MaxActive + Cardinality(Spent)
  /\ \A r \in Resends \ raced :
       resend[r].at = "insert" => Cardinality(ActiveTokens) < MaxActive

VerificationInv ==
  /\ VerificationTypeOK
  /\ LinksAreMailed /\ VerifiedByMail /\ SessionsNeedMailedToken
  /\ NothingBeforeSignup /\ RacedInserted /\ UsedLinkRefused

-----------------------------------------------------------------------------

LEMMA FiniteTokens ==
  /\ IsFiniteSet(VTokenIds)
  /\ IsFiniteSet(Issued) /\ Cardinality(Issued) \in Nat
  /\ IsFiniteSet(ActiveTokens) /\ Cardinality(ActiveTokens) \in Nat
  /\ Issued \subseteq VTokenIds /\ ActiveTokens \subseteq Issued
<1>1. IsFiniteSet(VTokenIds)
  BY VerificationAssumption, FS_Interval DEF VTokenIds
<1>2. Issued \subseteq VTokenIds /\ ActiveTokens \subseteq Issued
  BY DEF Issued, ActiveTokens
<1>3. IsFiniteSet(Issued) /\ IsFiniteSet(ActiveTokens)
  BY <1>1, <1>2, FS_Subset
<1> QED
  BY <1>1, <1>2, <1>3, FS_CardinalityType

\* The steps of a resend and of a visit, and what they leave alone.
ResendAct(r) == ResendLookup(r) \/ ResendCount(r) \/ ResendInsert(r) \/ ResendFails(r)
VisitAct(v) == FollowLink(v) \/ VerifyLookup(v) \/ VerifyCommit(v) \/ VerifyFails(v)

LEMMA IssueTyped ==
  ASSUME VerificationTypeOK, IssueToken
  PROVE  /\ vtokens' \in [VTokenIds -> [expires : Nat, consumed : BOOLEAN]]
         /\ mailed \subseteq mailed' /\ mailed' \subseteq VTokenIds
         /\ \A t \in VTokenIds : vtokens'[t].consumed = vtokens[t].consumed
         /\ \E s \in VTokenIds : \A t \in VTokenIds \ {s} : vtokens'[t] = vtokens[t]
<1> DEFINE s == Cardinality(Issued) + 1
<1>1. s \in VTokenIds
  BY FiniteTokens, VerificationAssumption DEF IssueToken, VTokenIds
<1>2. day + TokenTTL \in Nat
  BY VerificationAssumption DEF VerificationTypeOK
<1>3. /\ vtokens' = [vtokens EXCEPT ![s].expires = day + TokenTTL]
      /\ mailed' \in {mailed, mailed \cup {s}}
  BY DEF IssueToken
<1> HIDE DEF s
<1> QED
  BY <1>1, <1>2, <1>3 DEF VerificationTypeOK

LEMMA VerificationTyped ==
  ASSUME VerificationTypeOK, VerificationNext
  PROVE  VerificationTypeOK'
<1>1. CASE NextDay \/ LoginSucceeds
  <2>1. day' \in 0..MaxDay /\ session' \in BOOLEAN
    <3>1. day \in 0..MaxDay /\ session \in BOOLEAN /\ MaxDay \in Nat
      BY VerificationAssumption DEF VerificationTypeOK
    <3>2. (day' = day + 1 /\ day < MaxDay) \/ day' = day
      BY <1>1 DEF NextDay, LoginSucceeds
    <3>3. session' = session \/ session' = TRUE
      BY <1>1 DEF NextDay, LoginSucceeds
    <3>4. day' \in 0..MaxDay
      BY <3>1, <3>2
    <3> QED
      BY <3>1, <3>3, <3>4
  <2> QED
    BY <1>1, <2>1 DEF NextDay, LoginSucceeds, VerificationTypeOK
<1>2. CASE Signup
  <2>1. /\ vtokens' \in [VTokenIds -> [expires : Nat, consumed : BOOLEAN]]
        /\ mailed' \subseteq VTokenIds
    BY <1>2, IssueTyped DEF Signup, VerificationTypeOK
  <2> QED
    BY <1>2, <2>1 DEF Signup, NewAccount, VerificationTypeOK
<1>3. ASSUME NEW r \in Resends, ResendAct(r)
      PROVE  VerificationTypeOK'
  <2>1. /\ vtokens' \in [VTokenIds -> [expires : Nat, consumed : BOOLEAN]]
        /\ mailed' \subseteq VTokenIds
    BY <1>3, IssueTyped
       DEF ResendAct, ResendLookup, ResendCount, ResendInsert, ResendFails, VerificationTypeOK
  <2>2. PICK a \in ResendStates : resend' = [resend EXCEPT ![r].at = a]
    BY <1>3 DEF ResendAct, ResendLookup, ResendCount, ResendInsert, ResendFails, ResendStep, ResendStates
  <2>3. resend' \in [Resends -> [at : ResendStates]]
    BY <2>2 DEF VerificationTypeOK, ResendStates
  <2>4. raced' \subseteq Resends /\ day' = day /\ account' = account /\ verifier' = verifier
        /\ session' = session
    BY <1>3 DEF ResendAct, ResendLookup, ResendCount, ResendInsert, ResendFails, VerificationTypeOK
  <2> QED
    BY <2>1, <2>3, <2>4 DEF VerificationTypeOK, ResendStates
<1>4. ASSUME NEW v \in Verifiers, VisitAct(v)
      PROVE  VerificationTypeOK'
  <2>1. verifier[v].token \in VTokenIds \cup {NoToken0}
    BY DEF VerificationTypeOK
  <2>2. vtokens' \in [VTokenIds -> [expires : Nat, consumed : BOOLEAN]]
    <3>1. vtokens' \in {vtokens, [vtokens EXCEPT ![verifier[v].token].consumed = TRUE]}
      BY <1>4 DEF VisitAct, FollowLink, VerifyLookup, VerifyCommit, VerifyFails
    <3>2. vtokens \in [VTokenIds -> [expires : Nat, consumed : BOOLEAN]]
      BY DEF VerificationTypeOK
    <3> QED
      BY <3>1, <3>2
  <2>3. verifier' \in [Verifiers -> [at : VerifierStates, token : VTokenIds \cup {NoToken0},
                                     late : BOOLEAN]]
    <3>1. CASE FollowLink(v)
      <4>1. PICK t \in VTokenIds : verifier' = [verifier EXCEPT ![v].at = "lookup", ![v].token = t]
        BY <3>1 DEF FollowLink, VerificationTypeOK
      <4> QED
        BY <4>1 DEF VerificationTypeOK, VerifierStates
    <3>2. CASE VerifyLookup(v)
      <4>1. Verdict(vtokens[verifier[v].token]) \in VerifierStates
        BY DEF Verdict, VerifierStates
      <4>2. PICK late \in BOOLEAN :
              verifier' = [verifier EXCEPT ![v].late = late,
                                           ![v].at = Verdict(vtokens[verifier[v].token])]
        BY <3>2 DEF VerifyLookup
      <4> QED
        BY <4>1, <4>2 DEF VerificationTypeOK, VerifierStates
    <3>3. CASE VerifyCommit(v) \/ VerifyFails(v)
      BY <3>3 DEF VerifyCommit, VerifyFails, VerifierStep, VerificationTypeOK, VerifierStates
    <3> QED
      BY <1>4, <3>1, <3>2, <3>3 DEF VisitAct
  <2>4. /\ account' \in {"none", "unverified", "verified"}
        /\ day' = day /\ mailed' = mailed /\ resend' = resend /\ session' = session /\ raced' = raced
    BY <1>4 DEF VisitAct, FollowLink, VerifyLookup, VerifyCommit, VerifyFails, VerificationTypeOK
  <2> QED
    BY <2>2, <2>3, <2>4 DEF VerificationTypeOK, VerifierStates
<1> QED
  BY <1>1, <1>2, <1>3, <1>4 DEF VerificationNext, ResendAct, VisitAct

-----------------------------------------------------------------------------
LEMMA ConsumedStays ==
  ASSUME VerificationTypeOK, VerificationNext
  PROVE  /\ mailed \subseteq mailed'
         /\ \A t \in VTokenIds : vtokens[t].consumed => vtokens'[t].consumed
<1>1. ASSUME NEW v \in Verifiers, VisitAct(v)
      PROVE  /\ mailed' = mailed
             /\ \A t \in VTokenIds : vtokens[t].consumed => vtokens'[t].consumed
  BY <1>1 DEF VisitAct, FollowLink, VerifyLookup, VerifyCommit, VerifyFails, VerificationTypeOK
<1>2. ASSUME NEW r \in Resends, ResendAct(r)
      PROVE  /\ mailed \subseteq mailed'
             /\ \A t \in VTokenIds : vtokens[t].consumed => vtokens'[t].consumed
  BY <1>2, IssueTyped DEF ResendAct, ResendLookup, ResendCount, ResendInsert, ResendFails
<1>3. CASE Signup
  BY <1>3, IssueTyped DEF Signup
<1>4. CASE NextDay \/ LoginSucceeds
  BY <1>4 DEF NextDay, LoginSucceeds
<1> QED
  BY <1>1, <1>2, <1>3, <1>4 DEF VerificationNext, ResendAct, VisitAct

LEMMA LinksStayMailed ==
  ASSUME VerificationInv, VerificationNext
  PROVE  LinksAreMailed'
<1>0. VerificationTypeOK /\ mailed \subseteq VTokenIds
  BY DEF VerificationInv, VerificationTypeOK
<1>1. CASE verifier' = verifier
  BY <1>0, <1>1, ConsumedStays DEF VerificationInv, LinksAreMailed
<1>2. ASSUME NEW v \in Verifiers, VisitAct(v)
      PROVE  LinksAreMailed'
  <2>1. \A w \in Verifiers \ {v} : verifier'[w] = verifier[w]
    BY <1>0, <1>2 DEF VisitAct, FollowLink, VerifyLookup, VerifyCommit, VerifyFails, VerifierStep, VerificationTypeOK
  <2>2. CASE FollowLink(v)
    BY <1>0, <2>1, <2>2, ConsumedStays DEF FollowLink, VerificationTypeOK, VerificationInv, LinksAreMailed
  <2>3. CASE VerifyLookup(v)
    <3>1. verifier[v].token \in mailed /\ verifier'[v].token = verifier[v].token
          /\ verifier'[v].at # "ok"
      BY <1>0, <2>3 DEF VerifyLookup, Verdict, VerificationTypeOK, VerificationInv, LinksAreMailed
    <3>2. mailed' = mailed /\ vtokens' = vtokens
      BY <2>3 DEF VerifyLookup
    <3> QED
      BY <2>1, <3>1, <3>2 DEF VerificationInv, LinksAreMailed
  <2>4. CASE VerifyCommit(v) \/ VerifyFails(v)
    BY <1>0, <2>1, <2>4, ConsumedStays
       DEF VerifyCommit, VerifyFails, VerifierStep, VerificationTypeOK, VerificationInv, LinksAreMailed
  <2> QED
    BY <1>2, <2>2, <2>3, <2>4 DEF VisitAct
<1>3. verifier' # verifier => \E v \in Verifiers : VisitAct(v)
  BY DEF VerificationNext, VisitAct, NextDay, Signup, LoginSucceeds, ResendLookup, ResendCount,
         ResendInsert, ResendFails
<1> QED
  BY <1>1, <1>2, <1>3

LEMMA StillVerifiedByMail ==
  ASSUME VerificationInv, VerificationNext
  PROVE  VerifiedByMail' /\ SessionsNeedMailedToken'
<1>0. VerificationTypeOK /\ mailed \subseteq VTokenIds
  BY DEF VerificationInv, VerificationTypeOK
<1>1. (\E t \in mailed : vtokens[t].consumed) => \E t \in mailed' : vtokens'[t].consumed
  BY <1>0, ConsumedStays
<1>2. CASE account' = account
  <2>1. session' = session \/ (account = "verified" /\ session' = TRUE)
    BY DEF VerificationNext, NextDay, Signup, LoginSucceeds, ResendLookup, ResendCount, ResendInsert,
       ResendFails, FollowLink, VerifyLookup, VerifyCommit, VerifyFails
  <2> QED
    BY <1>1, <1>2, <2>1 DEF VerificationInv, VerifiedByMail, SessionsNeedMailedToken
<1>3. CASE Signup
  BY <1>1, <1>3 DEF Signup, NewAccount, VerificationInv, VerifiedByMail, SessionsNeedMailedToken
<1>4. ASSUME NEW v \in Verifiers, VerifyCommit(v)
      PROVE  VerifiedByMail' /\ SessionsNeedMailedToken'
  <2>1. verifier[v].token \in mailed /\ mailed' = mailed
        /\ vtokens'[verifier[v].token].consumed
    BY <1>0, <1>4 DEF VerifyCommit, VerifierStep, VerificationTypeOK, VerificationInv, LinksAreMailed
  <2> QED
    BY <2>1 DEF VerifiedByMail, SessionsNeedMailedToken
<1>5. account' # account => Signup \/ \E v \in Verifiers : VerifyCommit(v)
  BY DEF VerificationNext, NextDay, LoginSucceeds, ResendLookup, ResendCount, ResendInsert, ResendFails,
         FollowLink, VerifyLookup, VerifyFails
<1> QED
  BY <1>2, <1>3, <1>4, <1>5

LEMMA StillNothingBeforeSignup ==
  ASSUME VerificationInv, VerificationNext
  PROVE  NothingBeforeSignup' /\ RacedInserted'
<1>0. VerificationTypeOK
  BY DEF VerificationInv
<1>1. ASSUME NEW r \in Resends, ResendAct(r)
      PROVE  NothingBeforeSignup' /\ RacedInserted'
  <2>1. PICK to : resend' = [resend EXCEPT ![r].at = to] /\ account' = account
    BY <1>1 DEF ResendAct, ResendLookup, ResendCount, ResendInsert, ResendFails, ResendStep
  <2>2. CASE ResendLookup(r)
    BY <1>0, <2>2 DEF ResendLookup, ResendStep, VerificationTypeOK, VerificationInv,
                      NothingBeforeSignup, RacedInserted, Issued
  <2>3. CASE ResendCount(r)
    BY <1>0, <2>3 DEF ResendCount, ResendStep, VerificationTypeOK, VerificationInv,
                      NothingBeforeSignup, RacedInserted
  <2>4. CASE ResendInsert(r)
    BY <1>0, <2>4 DEF ResendInsert, ResendStep, VerificationTypeOK, VerificationInv,
                      NothingBeforeSignup, RacedInserted
  <2>5. CASE ResendFails(r)
    BY <1>0, <2>5 DEF ResendFails, ResendStep, VerificationTypeOK, VerificationInv,
                      NothingBeforeSignup, RacedInserted
  <2> QED
    BY <1>1, <2>2, <2>3, <2>4, <2>5 DEF ResendAct
<1>2. ASSUME NEW v \in Verifiers, VisitAct(v)
      PROVE  NothingBeforeSignup' /\ RacedInserted'
  <2>1. /\ \A t \in VTokenIds : vtokens'[t].expires = vtokens[t].expires
        /\ resend' = resend /\ raced' = raced /\ account' \in {account, "verified"}
    BY <1>0, <1>2 DEF VisitAct, FollowLink, VerifyLookup, VerifyCommit, VerifyFails, VerificationTypeOK
  <2> QED
    BY <2>1 DEF VerificationInv, NothingBeforeSignup, RacedInserted, Issued
<1>3. CASE NextDay \/ Signup \/ LoginSucceeds
  BY <1>3 DEF NextDay, Signup, NewAccount, LoginSucceeds, VerificationInv, NothingBeforeSignup,
              RacedInserted, Issued
<1> QED
  BY <1>1, <1>2, <1>3 DEF VerificationNext, ResendAct, VisitAct

LEMMA UsedLinkStaysRefused ==
  ASSUME VerificationInv, VerificationNext
  PROVE  UsedLinkRefused'
<1>0. VerificationTypeOK
  BY DEF VerificationInv
<1>1. CASE verifier' = verifier
  BY <1>1 DEF VerificationInv, UsedLinkRefused
<1>2. ASSUME NEW v \in Verifiers, VisitAct(v)
      PROVE  UsedLinkRefused'
  <2>1. CASE VerifyLookup(v)
    <3>1. CASE \E w \in Verifiers : verifier[w].at = "ok" /\ verifier[w].token = verifier[v].token
      <4>1. vtokens[verifier[v].token].consumed
        BY <3>1 DEF VerificationInv, LinksAreMailed
      <4>2. verifier'[v].at = "consumed"
        BY <1>0, <2>1, <4>1 DEF VerifyLookup, Verdict, VerificationTypeOK
      <4> QED
        BY <1>0, <2>1, <4>2 DEF VerifyLookup, VerificationTypeOK, VerificationInv, UsedLinkRefused
    <3>2. CASE ~\E w \in Verifiers : verifier[w].at = "ok" /\ verifier[w].token = verifier[v].token
      BY <1>0, <2>1, <3>2 DEF VerifyLookup, VerificationTypeOK, VerificationInv, UsedLinkRefused
    <3> QED
      BY <3>1, <3>2
  <2>2. CASE FollowLink(v) \/ VerifyCommit(v) \/ VerifyFails(v)
    <3>1. verifier'[v].late = verifier[v].late /\ verifier[v].at \in {"idle", "lookup", "consume"}
          /\ \A w \in Verifiers \ {v} : verifier'[w] = verifier[w]
      BY <1>0, <2>2 DEF FollowLink, VerifyCommit, VerifyFails, VerifierStep, VerificationTypeOK
    <3> QED
      BY <3>1 DEF VerificationInv, UsedLinkRefused
  <2> QED
    BY <1>2, <2>1, <2>2 DEF VisitAct
<1>3. verifier' # verifier => \E v \in Verifiers : VisitAct(v)
  BY DEF VerificationNext, VisitAct, NextDay, Signup, LoginSucceeds, ResendLookup, ResendCount,
         ResendInsert, ResendFails
<1> QED
  BY <1>1, <1>2, <1>3

LEMMA VerificationInvariant == VerificationSpec => []VerificationInv
<1>1. VerificationInit => VerificationInv
  <2> SUFFICES ASSUME VerificationInit PROVE VerificationInv
    OBVIOUS
  <2>1. VerificationTypeOK
    <3>1. day = 0 /\ 0 \in 0..MaxDay
      BY VerificationAssumption DEF VerificationInit
    <3>2. vtokens \in [VTokenIds -> [expires : Nat, consumed : BOOLEAN]]
      BY DEF VerificationInit, Unissued
    <3>3. /\ verifier \in [Verifiers -> [at : {"idle"}, token : {NoToken0}, late : {FALSE}]]
          /\ resend \in [Resends -> [at : {"idle"}]]
      BY DEF VerificationInit
    <3> QED
      BY <3>1, <3>2, <3>3 DEF VerificationInit, VerificationTypeOK
  <2> QED
    BY <2>1 DEF VerificationInit, VerificationInv, LinksAreMailed, VerifiedByMail, SessionsNeedMailedToken,
                NothingBeforeSignup, RacedInserted, UsedLinkRefused, Issued, Unissued
<1>2. VerificationInv /\ [VerificationNext]_accountVars => VerificationInv'
  <2>1. ASSUME VerificationInv, VerificationNext PROVE VerificationInv'
    BY <2>1, VerificationTyped, LinksStayMailed, StillVerifiedByMail, StillNothingBeforeSignup,
       UsedLinkStaysRefused DEF VerificationInv
  <2>2. ASSUME VerificationInv, UNCHANGED accountVars PROVE VerificationInv'
    BY <2>2 DEF accountVars, VerificationInv, VerificationTypeOK, LinksAreMailed, VerifiedByMail,
       SessionsNeedMailedToken, NothingBeforeSignup, RacedInserted, UsedLinkRefused, Issued
  <2> QED
    BY <2>1, <2>2
<1> QED
  BY <1>1, <1>2, PTL DEF VerificationSpec

-----------------------------------------------------------------------------
(* The number of active tokens.                                             *)

\* A subset of the resends is finite.
LEMMA FiniteResends ==
  ASSUME NEW S \in SUBSET Resends
  PROVE  IsFiniteSet(S) /\ Cardinality(S) \in Nat
BY VerificationAssumption, FS_Subset, FS_CardinalityType

\* Without an insertion the active tokens only become fewer.
LEMMA ActiveShrinks ==
  ASSUME VerificationTypeOK, day' >= day, day' \in Nat,
         \A t \in VTokenIds : /\ vtokens'[t].expires = vtokens[t].expires
                              /\ vtokens[t].consumed => vtokens'[t].consumed
  PROVE  ActiveTokens' \subseteq ActiveTokens
<1>1. day \in Nat /\ \A t \in VTokenIds : vtokens[t].expires \in Nat
  BY VerificationAssumption DEF VerificationTypeOK
<1> QED
  BY <1>1 DEF ActiveTokens, Issued

\* An insertion adds at most one.
LEMMA IssueAddsOne ==
  ASSUME VerificationTypeOK, IssueToken, day' = day
  PROVE  /\ IsFiniteSet(ActiveTokens') /\ Cardinality(ActiveTokens') \in Nat
         /\ Cardinality(ActiveTokens') <= Cardinality(ActiveTokens) + 1
<1>1. PICK s \in VTokenIds : \A t \in VTokenIds \ {s} : vtokens'[t] = vtokens[t]
  BY IssueTyped
<1>2. ActiveTokens' \subseteq ActiveTokens \cup {s}
  BY <1>1 DEF ActiveTokens, Issued
<1>3. IsFiniteSet(ActiveTokens \cup {s})
      /\ Cardinality(ActiveTokens \cup {s}) <= Cardinality(ActiveTokens) + 1
  <2>1. IsFiniteSet(ActiveTokens) /\ Cardinality(ActiveTokens) \in Nat
    BY FiniteTokens
  <2>2. /\ IsFiniteSet(ActiveTokens \cup {s})
        /\ \/ Cardinality(ActiveTokens \cup {s}) = Cardinality(ActiveTokens)
           \/ Cardinality(ActiveTokens \cup {s}) = Cardinality(ActiveTokens) + 1
    BY <2>1, FS_AddElement, Zenon
  <2> QED
    BY <2>1, <2>2
<1>4. IsFiniteSet(ActiveTokens') /\ Cardinality(ActiveTokens') <= Cardinality(ActiveTokens \cup {s})
  BY <1>2, <1>3, FS_Subset
<1>5. Cardinality(ActiveTokens') \in Nat /\ Cardinality(ActiveTokens \cup {s}) \in Nat
  BY <1>3, <1>4, FS_CardinalityType
<1> QED
  BY <1>3, <1>4, <1>5, FiniteTokens

\* What the count of active tokens keeps of its bound when nothing is issued.
LEMMA StillAccounted ==
  ASSUME VerificationTypeOK, ActiveAccounted,
         ActiveTokens' \subseteq ActiveTokens, raced \subseteq raced', raced' \subseteq Resends,
         Spent \subseteq Spent',
         \A r \in Resends \ raced' : resend'[r].at = "insert" =>
           resend[r].at = "insert" \/ Cardinality(ActiveTokens) < MaxActive
  PROVE  ActiveAccounted'
<1>1. /\ Cardinality(ActiveTokens') <= Cardinality(ActiveTokens)
      /\ Cardinality(ActiveTokens') \in Nat /\ Cardinality(ActiveTokens) \in Nat
  BY FiniteTokens, FS_Subset, FS_CardinalityType
<1>2. /\ Cardinality(Spent) <= Cardinality(Spent')
      /\ Cardinality(Spent) \in Nat /\ Cardinality(Spent') \in Nat
  <2>1. Spent \in SUBSET Resends /\ Spent' \in SUBSET Resends
    BY DEF Spent, VerificationTypeOK
  <2>2. IsFiniteSet(Spent')
    BY <2>1, FiniteResends
  <2> QED
    BY <2>1, <2>2, FiniteResends, FS_Subset
<1>3. MaxActive \in Nat
  BY VerificationAssumption
<1>4. Cardinality(ActiveTokens') <= MaxActive + Cardinality(Spent')
  BY <1>1, <1>2, <1>3 DEF ActiveAccounted
<1>5. ASSUME NEW r \in Resends \ raced', resend'[r].at = "insert"
      PROVE  Cardinality(ActiveTokens') < MaxActive
  <2>1. Cardinality(ActiveTokens) < MaxActive
    BY <1>5 DEF ActiveAccounted
  <2> QED
    BY <1>1, <1>3, <2>1
<1> QED
  BY <1>4, <1>5 DEF ActiveAccounted

LEMMA InsertAccounted ==
  ASSUME VerificationInv, ActiveAccounted, NEW r \in Resends, ResendInsert(r)
  PROVE  ActiveAccounted'
<1>0. VerificationTypeOK /\ raced \subseteq Resends
  BY DEF VerificationInv, VerificationTypeOK
<1>1. /\ resend[r].at = "insert" /\ resend' = [resend EXCEPT ![r].at = "ok"]
      /\ raced' = raced \cup {q \in Resends \ {r} : resend[q].at = "insert"}
      /\ IssueToken /\ day' = day
  BY DEF ResendInsert, ResendStep
<1>2. /\ Cardinality(ActiveTokens') <= Cardinality(ActiveTokens) + 1
      /\ Cardinality(ActiveTokens') \in Nat /\ Cardinality(ActiveTokens) \in Nat
      /\ MaxActive \in Nat
  BY <1>0, <1>1, IssueAddsOne, FiniteTokens, VerificationAssumption
<1>3. ASSUME NEW q \in Resends \ raced' PROVE resend'[q].at # "insert"
  BY <1>0, <1>1 DEF VerificationTypeOK
<1>4. Spent \in SUBSET Resends /\ Spent' \in SUBSET Resends
  BY <1>0, <1>1 DEF Spent
<1>5. IsFiniteSet(Spent) /\ Cardinality(Spent) \in Nat
      /\ IsFiniteSet(Spent') /\ Cardinality(Spent') \in Nat
  BY <1>4, FiniteResends
<1>6. CASE r \notin raced
  <2>1. Cardinality(ActiveTokens) < MaxActive
    BY <1>1, <1>6 DEF ActiveAccounted
  <2>2. Cardinality(ActiveTokens') <= MaxActive + Cardinality(Spent')
    BY <1>2, <1>5, <2>1
  <2> QED
    BY <1>3, <2>2 DEF ActiveAccounted
<1>7. CASE r \in raced
  <2>1. Spent \cup {r} \subseteq Spent' /\ r \notin Spent
    BY <1>0, <1>1, <1>7 DEF Spent, VerificationTypeOK
  <2>2. IsFiniteSet(Spent \cup {r}) /\ Cardinality(Spent \cup {r}) = Cardinality(Spent) + 1
    BY <1>5, <2>1, FS_AddElement
  <2>3. Cardinality(Spent \cup {r}) <= Cardinality(Spent')
    BY <1>5, <2>1, FS_Subset
  <2>4. Cardinality(ActiveTokens') <= MaxActive + Cardinality(Spent')
    BY <1>2, <1>5, <2>2, <2>3 DEF ActiveAccounted
  <2> QED
    BY <1>3, <2>4 DEF ActiveAccounted
<1> QED
  BY <1>6, <1>7

LEMMA ActiveStaysAccounted ==
  ASSUME VerificationInv, ActiveAccounted, VerificationNext
  PROVE  ActiveAccounted'
<1>0. VerificationTypeOK /\ raced \subseteq Resends /\ day \in Nat
  BY VerificationAssumption DEF VerificationInv, VerificationTypeOK
<1>1. ASSUME \/ NextDay \/ LoginSucceeds \/ (Signup /\ vtokens' = vtokens)
             \/ \E v \in Verifiers : VisitAct(v)
      PROVE  ActiveAccounted'
  <2>1. /\ day' \in Nat /\ day' >= day
        /\ resend' = resend /\ raced' = raced
    <3>1. day' = day \/ day' = day + 1
      BY <1>1 DEF NextDay, LoginSucceeds, Signup, VisitAct, FollowLink, VerifyLookup,
                  VerifyCommit, VerifyFails
    <3>2. resend' = resend /\ raced' = raced
      BY <1>1 DEF NextDay, LoginSucceeds, Signup, VisitAct, FollowLink, VerifyLookup,
                  VerifyCommit, VerifyFails
    <3> QED
      BY <1>0, <3>1, <3>2
  <2>2. \A t \in VTokenIds : /\ vtokens'[t].expires = vtokens[t].expires
                             /\ vtokens[t].consumed => vtokens'[t].consumed
    <3>1. vtokens' = vtokens
          \/ \E v \in Verifiers : vtokens' = [vtokens EXCEPT ![verifier[v].token].consumed = TRUE]
      BY <1>1 DEF NextDay, LoginSucceeds, VisitAct, FollowLink, VerifyLookup,
                  VerifyCommit, VerifyFails
    <3>2. \A t \in VTokenIds : vtokens'[t].expires = vtokens[t].expires
      <4>1. ASSUME NEW u, vtokens' = [vtokens EXCEPT ![u].consumed = TRUE], NEW t \in VTokenIds
            PROVE  vtokens'[t].expires = vtokens[t].expires
        BY <1>0, <4>1 DEF VerificationTypeOK
      <4> QED
        BY <3>1, <4>1, Zenon
    <3>3. \A t \in VTokenIds : vtokens[t].consumed => vtokens'[t].consumed
      BY <1>0, ConsumedStays
    <3> QED
      BY <3>2, <3>3
  <2>3. ActiveTokens' \subseteq ActiveTokens
    BY <1>0, <2>1, <2>2, ActiveShrinks
  <2>4. Spent' = Spent
    BY <2>1 DEF Spent
  <2> QED
    BY <1>0, <2>1, <2>3, <2>4, StillAccounted
<1>2. CASE Signup /\ IssueToken
  <2>1. account = "none" /\ resend' = resend /\ raced' = raced /\ day' = day
    BY <1>2 DEF Signup
  <2>2. ActiveTokens = {} /\ \A r \in Resends : resend[r].at # "insert"
    BY <2>1 DEF VerificationInv, NothingBeforeSignup, ActiveTokens
  <2>3. Cardinality(ActiveTokens) = 0
    BY <2>2, FS_EmptySet, Zenon
  <2>4. Cardinality(ActiveTokens') <= 1 /\ Cardinality(ActiveTokens') \in Nat
    BY <1>0, <1>2, <2>1, <2>3, IssueAddsOne
  <2>5. Spent' \in SUBSET Resends
    BY <1>0, <2>1 DEF Spent
  <2>6. Cardinality(Spent') \in Nat
    BY <2>5, FiniteResends
  <2>7. Cardinality(ActiveTokens') <= MaxActive + Cardinality(Spent')
    BY <2>4, <2>6, VerificationAssumption
  <2> QED
    BY <2>1, <2>2, <2>7 DEF ActiveAccounted
<1>3. ASSUME NEW r \in Resends, ResendLookup(r) \/ ResendCount(r) \/ ResendFails(r)
      PROVE  ActiveAccounted'
  <2>1. day' = day /\ vtokens' = vtokens /\ raced' = raced
    BY <1>3 DEF ResendLookup, ResendCount, ResendFails
  <2>2. ActiveTokens' \subseteq ActiveTokens
    BY <2>1 DEF ActiveTokens, Issued
  <2>3. \A q \in Resends : resend'[q].at = "insert" =>
          resend[q].at = "insert" \/ Cardinality(ActiveTokens) < MaxActive
    <3>1. CASE ResendCount(r)
      <4>1. Cardinality(ActiveTokens) \in Nat /\ MaxActive \in Nat
        BY FiniteTokens, VerificationAssumption
      <4> QED
        BY <1>0, <3>1, <4>1 DEF ResendCount, ResendStep, TooMany, VerificationTypeOK
    <3>2. CASE ResendLookup(r) \/ ResendFails(r)
      BY <1>0, <3>2 DEF ResendLookup, ResendFails, ResendStep, VerificationTypeOK
    <3> QED
      BY <1>3, <3>1, <3>2
  <2>4. Spent \subseteq Spent'
    <3>1. \A q \in raced : resend[q].at # "insert" => resend'[q].at # "insert"
      BY <1>0, <1>3 DEF ResendLookup, ResendCount, ResendFails, ResendStep, VerificationTypeOK,
                        VerificationInv, RacedInserted
    <3> QED
      BY <2>1, <3>1 DEF Spent
  <2> QED
    BY <1>0, <2>1, <2>2, <2>3, <2>4, StillAccounted
<1> QED
  BY <1>1, <1>2, <1>3, InsertAccounted DEF VerificationNext, VisitAct, Signup

-----------------------------------------------------------------------------
(* The theorems.                                                            *)

\* The account and its tokens keep their types.
THEOREM VerificationTypesCorrect == VerificationSpec => []VerificationTypeOK
<1>1. VerificationInv => VerificationTypeOK
  BY DEF VerificationInv
<1> QED
  BY <1>1, VerificationInvariant, PTL

\* Whoever logs in has consumed a token that was mailed to the address, for any
\* number of visits and resends (auth.go, Login and VerifyEmail).
THEOREM LoginNeedsTheMail == VerificationSpec => []SessionsNeedMailedToken
<1>1. VerificationInv => SessionsNeedMailedToken
  BY DEF VerificationInv
<1> QED
  BY <1>1, VerificationInvariant, PTL

\* A visit that begins after another has succeeded with the same link fails.
THEOREM LinksServeOnce == VerificationSpec => []UsedLinkRefused
<1>1. VerificationInv => UsedLinkRefused
  BY DEF VerificationInv
<1> QED
  BY <1>1, VerificationInvariant, PTL

\* The limit of active tokens is exceeded by at most the resends that counted
\* before another inserted (auth.go:511-531), however long the account lives.
THEOREM ActiveTokensStayBounded == VerificationSpec => []ActiveTokensBounded
<1>1. VerificationInit => ActiveAccounted
  <2> SUFFICES ASSUME VerificationInit PROVE ActiveAccounted
    OBVIOUS
  <2>1. ActiveTokens = {} /\ Spent = {} /\ \A r \in Resends : resend[r].at # "insert"
    BY DEF VerificationInit, ActiveTokens, Issued, Unissued, Spent
  <2>2. Cardinality(ActiveTokens) = 0 /\ Cardinality(Spent) = 0
    BY <2>1, FS_EmptySet, Zenon
  <2>3. Cardinality(ActiveTokens) <= MaxActive + Cardinality(Spent)
    BY <2>2, VerificationAssumption
  <2> QED
    BY <2>1, <2>3 DEF ActiveAccounted
<1>2. VerificationInv /\ ActiveAccounted /\ [VerificationNext]_accountVars => ActiveAccounted'
  <2>1. ASSUME ActiveAccounted, UNCHANGED accountVars PROVE ActiveAccounted'
    BY <2>1 DEF accountVars, ActiveAccounted, ActiveTokens, Issued, Spent
  <2> QED
    BY <2>1, ActiveStaysAccounted
<1>3. VerificationInv /\ ActiveAccounted => ActiveTokensBounded
  <2> SUFFICES ASSUME VerificationInv, ActiveAccounted PROVE ActiveTokensBounded
    OBVIOUS
  <2>1. raced \in SUBSET Resends /\ Spent \subseteq raced
    BY DEF VerificationInv, VerificationTypeOK, Spent
  <2>2. IsFiniteSet(raced) /\ Cardinality(raced) \in Nat
    BY <2>1, FiniteResends
  <2>3. Cardinality(Spent) <= Cardinality(raced) /\ Cardinality(Spent) \in Nat
    BY <2>1, <2>2, FS_Subset, FS_CardinalityType
  <2> QED
    BY <2>2, <2>3, FiniteTokens, VerificationAssumption DEF ActiveAccounted, ActiveTokensBounded
<1> QED
  BY <1>1, <1>2, <1>3, VerificationInvariant, PTL DEF VerificationSpec

-----------------------------------------------------------------------------
(* The session of the web client.                                           *)

\* A pair in memory has been presented only by the refresh in flight.
PresentedInFlight ==
  /\ pair \in presented => InFlight
  /\ presented \subseteq 1..issued
  /\ pair <= issued

\* The calls that wait for a refresh are those the one in flight settles.
WaitersAreSettled ==
  \A f \in Fetches : fetching[f].at = "refreshing" => InFlight /\ f \in Settled

SessionInv == SessionTypeOK /\ PresentedInFlight /\ WaitersAreSettled /\ RefreshTokensServeOnce

LEMMA SessionInitial ==
  ASSUME SessionInit
  PROVE  SessionInv
<1>1. SessionTypeOK
  <2>1. issued = 0 /\ 0 \in 0..MaxPairs
    BY SessionAssumption DEF SessionInit
  <2>2. pair = NoPair /\ presenting = NoPair /\ leader = NoFetch
        /\ refreshQueue = {} /\ presented = {} /\ twice = FALSE /\ loggedOut = FALSE
    BY DEF SessionInit
  <2>3. fetching \in [Fetches -> [at : {"idle"}, carries : {NoPair}]]
    BY DEF SessionInit
  <2> QED
    BY <2>1, <2>2, <2>3 DEF SessionTypeOK
<1>2. PresentedInFlight /\ WaitersAreSettled /\ RefreshTokensServeOnce
  BY DEF SessionInit, PresentedInFlight, WaitersAreSettled, RefreshTokensServeOnce, NoPair
<1> QED
  BY <1>1, <1>2 DEF SessionInv

SessionStates == {"idle", "sent", "refreshing", "replay", "resent", "ok", "failed"}

LEMMA FetchingTyped ==
  ASSUME SessionTypeOK, SessionNext
  PROVE  fetching' \in [Fetches -> [at : SessionStates, carries : Pairs \cup {NoPair}]]
<1> USE DEF SessionStates
<1>1. CASE LogIn \/ LogOut
  BY <1>1 DEF SessionTypeOK, LogIn, LogOut
<1>2. CASE RefreshSucceeds
  <2>1. issued' \in Pairs
    BY <1>2, SessionAssumption DEF RefreshSucceeds, SessionTypeOK, Pairs
  <2> QED
    BY <1>2, <2>1 DEF RefreshSucceeds, SessionTypeOK
<1>3. CASE RefreshFails401
  BY <1>3 DEF RefreshFails401, SessionTypeOK
<1>4. ASSUME NEW f \in Fetches, Send(f) \/ Replay(f)
      PROVE  fetching' \in [Fetches -> [at : SessionStates, carries : Pairs \cup {NoPair}]]
  BY <1>4 DEF Send, Replay, SessionTypeOK
<1>5. ASSUME NEW f \in Fetches, Answered(f) \/ Unauthorized(f) \/ UnauthorizedAnonymous(f)
      PROVE  fetching' \in [Fetches -> [at : SessionStates, carries : Pairs \cup {NoPair}]]
  BY <1>5 DEF Answered, Unauthorized, UnauthorizedAnonymous, SessionTypeOK
<1> QED
  BY <1>1, <1>2, <1>3, <1>4, <1>5 DEF SessionNext

LEMMA SessionTyped ==
  ASSUME SessionTypeOK, SessionNext
  PROVE  SessionTypeOK'
<1>1. fetching' \in [Fetches -> [at : SessionStates, carries : Pairs \cup {NoPair}]]
  BY FetchingTyped
<1>2. pair' \in Pairs \cup {NoPair} /\ issued' \in 0..MaxPairs
  BY SessionAssumption DEF SessionTypeOK, SessionNext, Pairs, NoPair, LogIn, LogOut, RefreshSucceeds,
     RefreshFails401, Send, Answered, Unauthorized, UnauthorizedAnonymous, Replay, memory
<1>3. leader' \in Fetches \cup {NoFetch} /\ refreshQueue' \subseteq Fetches
      /\ presenting' \in Pairs \cup {NoPair}
  BY DEF SessionTypeOK, SessionNext, LogIn, LogOut, RefreshSucceeds,
     RefreshFails401, Send, Answered, Unauthorized, UnauthorizedAnonymous, Replay, flightVars
<1>4. presented' \subseteq Pairs /\ twice' \in BOOLEAN /\ loggedOut' \in BOOLEAN
  BY DEF SessionTypeOK, SessionNext, LogIn, LogOut, RefreshSucceeds, memory,
     RefreshFails401, Send, Answered, Unauthorized, UnauthorizedAnonymous, Replay, flightVars
<1> QED
  BY <1>1, <1>2, <1>3, <1>4 DEF SessionTypeOK, SessionStates

LEMMA SessionStep ==
  ASSUME SessionInv, SessionNext
  PROVE  SessionInv'
<1>0. SessionTypeOK /\ SessionTypeOK'
  BY SessionTyped DEF SessionInv
<1>1. CASE LogIn
  <2>1. PresentedInFlight' /\ RefreshTokensServeOnce'
    BY <1>0, <1>1 DEF LogIn, flightVars, SessionInv, SessionTypeOK, PresentedInFlight,
                      RefreshTokensServeOnce, InFlight
  <2>2. WaitersAreSettled'
    BY <1>1 DEF LogIn, flightVars, SessionInv, WaitersAreSettled, InFlight, Settled
  <2> QED
    BY <1>0, <2>1, <2>2 DEF SessionInv
<1>2. CASE LogOut
  <2>1. PresentedInFlight' /\ RefreshTokensServeOnce'
    BY <1>0, <1>2 DEF LogOut, flightVars, SessionInv, SessionTypeOK, PresentedInFlight,
                      RefreshTokensServeOnce, NoPair, Pairs
  <2>2. WaitersAreSettled'
    BY <1>2 DEF LogOut, flightVars, SessionInv, WaitersAreSettled, InFlight, Settled
  <2> QED
    BY <1>0, <2>1, <2>2 DEF SessionInv
<1>3. CASE RefreshSucceeds \/ RefreshFails401
  <2>1. PresentedInFlight'
    BY <1>0, <1>3 DEF RefreshSucceeds, RefreshFails401, SessionInv, SessionTypeOK,
                      PresentedInFlight, NoPair, Pairs
  <2>2. WaitersAreSettled'
    BY <1>0, <1>3 DEF RefreshSucceeds, RefreshFails401, SessionInv, SessionTypeOK, WaitersAreSettled
  <2> QED
    BY <1>0, <1>3, <2>1, <2>2 DEF RefreshSucceeds, RefreshFails401, SessionInv,
                                  RefreshTokensServeOnce
<1>4. ASSUME NEW f \in Fetches,
             Send(f) \/ Answered(f) \/ UnauthorizedAnonymous(f) \/ Replay(f)
      PROVE  SessionInv'
  <2>1. /\ pair' = pair /\ issued' = issued /\ leader' = leader /\ presenting' = presenting
        /\ refreshQueue' = refreshQueue /\ presented' = presented /\ twice' = twice
    BY <1>4 DEF Send, Answered, UnauthorizedAnonymous, Replay, memory, flightVars
  <2>2. \A g \in Fetches : fetching'[g].at = "refreshing" => fetching[g].at = "refreshing"
    BY <1>0, <1>4 DEF Send, Answered, UnauthorizedAnonymous, Replay, SessionTypeOK
  <2> QED
    BY <1>0, <2>1, <2>2 DEF SessionInv, PresentedInFlight, WaitersAreSettled, InFlight, Settled,
                            RefreshTokensServeOnce
<1>5. ASSUME NEW f \in Fetches, Unauthorized(f)
      PROVE  SessionInv'
  <2>0. \A g \in Fetches : fetching'[g].at = "refreshing" => g = f \/ fetching[g].at = "refreshing"
    BY <1>0, <1>5 DEF Unauthorized, SessionTypeOK
  <2>1. CASE InFlight
    BY <1>0, <1>5, <2>0, <2>1
       DEF Unauthorized, memory, SessionInv, PresentedInFlight, WaitersAreSettled,
           RefreshTokensServeOnce, InFlight, Settled
  <2>2. CASE ~InFlight
    <3>1. pair \notin presented
      BY <2>2 DEF SessionInv, PresentedInFlight
    <3>2. /\ leader' = f /\ twice' = twice /\ presented' = presented \cup {pair}
          /\ pair' = pair /\ issued' = issued
      BY <1>0, <1>5, <2>2, <3>1 DEF Unauthorized, memory, SessionTypeOK
    <3>3. InFlight'
      BY <3>2, SessionAssumption DEF InFlight
    <3>4. PresentedInFlight'
      BY <1>0, <1>5, <3>2, <3>3 DEF Unauthorized, SessionInv, PresentedInFlight, SessionTypeOK, Pairs, NoPair
    <3>5. WaitersAreSettled'
      BY <2>0, <2>2, <3>2, <3>3 DEF SessionInv, WaitersAreSettled, Settled
    <3> QED
      BY <1>0, <3>2, <3>4, <3>5 DEF SessionInv, RefreshTokensServeOnce
  <2> QED
    BY <2>1, <2>2
<1> QED
  BY <1>1, <1>2, <1>3, <1>4, <1>5 DEF SessionNext

LEMMA SessionInvariant == SessionSpec => []SessionInv
<1>1. SessionInv /\ UNCHANGED sessionVars => SessionInv'
  BY DEF sessionVars, SessionInv, SessionTypeOK, PresentedInFlight, WaitersAreSettled, InFlight,
         Settled, RefreshTokensServeOnce
<1> QED
  BY <1>1, SessionInitial, SessionStep, PTL DEF SessionSpec

\* The state of a tab keeps its types.
THEOREM SessionTypesCorrect == SessionSpec => []SessionTypeOK
<1>1. SessionInv => SessionTypeOK
  BY DEF SessionInv
<1> QED
  BY <1>1, SessionInvariant, PTL

\* No refresh token is presented twice, for any number of calls and logins
\* (refreshQueue.ts, executeSingleFlightRefresh).
THEOREM TokensServeOnce == SessionSpec => []RefreshTokensServeOnce
<1>1. SessionInv => RefreshTokensServeOnce
  BY DEF SessionInv
<1> QED
  BY <1>1, SessionInvariant, PTL

\* A call that waits for a refresh is the leader of the one in flight or in its
\* queue: the end of a refresh leaves nobody behind, which FetchesSettle rests on.
THEOREM NobodyWaitsInVain == SessionSpec => []WaitersAreSettled
<1>1. SessionInv => WaitersAreSettled
  BY DEF SessionInv
<1> QED
  BY <1>1, SessionInvariant, PTL
=============================================================================
