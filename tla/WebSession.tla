----------------------------- MODULE WebSession -----------------------------
(***************************************************************************)
(* The session of a browser tab (web/src/auth/AuthContext.tsx, web/src/    *)
(* api/client.ts, refreshQueue.ts): requests that get a 401 share one      *)
(* refresh, queue behind it and are replayed, while the user logs in and   *)
(* out.  JavaScript runs one callback at a time: a step is what happens    *)
(* between two awaits.                                                     *)
(***************************************************************************)
EXTENDS Integers, FiniteSets

CONSTANTS
  Fetches,  \* calls of apiFetch by the pages
  NoFetch,  \* none of them
  MaxPairs  \* bound: token pairs the server issues

ASSUME SessionAssumption == NoFetch \notin Fetches /\ MaxPairs \in Nat

VARIABLES
  pair,        \* the token pair in memory (tokensRef), 0 if none
  issued,      \* the pairs issued so far
  fetching,    \* where each call is, and the pair its request carries
  leader,      \* isRefreshing: the call whose 401 began the refresh
  presenting,  \* the pair whose refresh token the refresh presents
  refreshQueue,\* the calls queued behind it
  presented,   \* history variable: the pairs presented to /auth/refresh
  twice,       \* history variable: a refresh token was presented again
  loggedOut    \* history variable: the user logged out and has not logged in

sessionVars == <<pair, issued, fetching, leader, presenting, refreshQueue,
                 presented, twice, loggedOut>>

Pairs == 1..MaxPairs
NoPair == 0

SessionTypeOK ==
  /\ pair \in Pairs \cup {NoPair}
  /\ issued \in 0..MaxPairs
  /\ fetching \in [Fetches ->
       [at : {"idle", "sent", "refreshing", "replay", "resent", "ok", "failed"},
        carries : Pairs \cup {NoPair}]]
  /\ leader \in Fetches \cup {NoFetch}
  /\ presenting \in Pairs \cup {NoPair}
  /\ refreshQueue \subseteq Fetches
  /\ presented \subseteq Pairs
  /\ twice \in BOOLEAN
  /\ loggedOut \in BOOLEAN

SessionInit ==
  /\ pair = NoPair /\ issued = 0
  /\ fetching = [f \in Fetches |-> [at |-> "idle", carries |-> NoPair]]
  /\ leader = NoFetch /\ presenting = NoPair /\ refreshQueue = {}
  /\ presented = {} /\ twice = FALSE /\ loggedOut = FALSE

memory == <<pair, issued, loggedOut>>
flightVars == <<leader, presenting, refreshQueue, presented, twice>>

-----------------------------------------------------------------------------
(* The user.                                                                *)

\* The reply to a login.
LogIn ==
  /\ issued < MaxPairs
  /\ issued' = issued + 1
  /\ pair' = issued'
  /\ loggedOut' = FALSE
  /\ UNCHANGED <<fetching, flightVars>>

\* The state is reset first; the request to the server, which revokes the
\* token given to it and no successor of it, changes nothing here.
LogOut ==
  /\ pair # NoPair
  /\ pair' = NoPair
  /\ loggedOut' = TRUE
  /\ UNCHANGED <<issued, fetching, flightVars>>

-----------------------------------------------------------------------------
(* apiFetch.                                                                *)

Send(f) ==
  /\ fetching[f].at = "idle"
  /\ fetching' = [fetching EXCEPT ![f] = [at |-> "sent", carries |-> pair]]
  /\ UNCHANGED <<memory, flightVars>>

\* An answer other than 401, an error of the network, a timeout or an abort.
Answered(f) ==
  /\ \/ fetching[f].at = "sent" /\ fetching' \in
          {[fetching EXCEPT ![f].at = at] : at \in {"ok", "failed"}}
     \/ fetching[f].at = "resent" /\ fetching' \in
          {[fetching EXCEPT ![f].at = at] : at \in {"ok", "failed"}}
  /\ UNCHANGED <<memory, flightVars>>

\* A mutant: every 401 leads a refresh of its own.
NeverInFlight == FALSE

\* executeSingleFlightRefresh: whether a refresh is in flight already.
InFlight == leader # NoFetch

\* 401 with a refresh token in memory, whichever pair the request carried, if
\* any: the call queues, or leads a refresh with the token in memory.
Unauthorized(f) ==
  /\ fetching[f].at = "sent" /\ pair # NoPair
  /\ fetching' = [fetching EXCEPT ![f].at = "refreshing"]
  /\ IF InFlight
     THEN /\ refreshQueue' = refreshQueue \cup {f}
          /\ UNCHANGED <<leader, presenting, presented, twice>>
     ELSE /\ leader' = f
          /\ presenting' = pair
          /\ twice' = (twice \/ pair \in presented)
          /\ presented' = presented \cup {pair}
          /\ UNCHANGED refreshQueue
  /\ UNCHANGED memory

\* 401 and nothing to refresh with.
UnauthorizedAnonymous(f) ==
  /\ fetching[f].at = "sent" /\ pair = NoPair
  /\ fetching' = [fetching EXCEPT ![f].at = "failed"]
  /\ UNCHANGED <<memory, flightVars>>

\* A mutant: the queue is not processed.
OnlyTheLeader == {leader}

\* The calls that a refresh settles: the leader's own and the queue.
Settled == refreshQueue \cup {leader}

\* setTokens(newTokens) and processQueue; the calls are replayed. The answer has
\* an access token: the server signs one or fails (service/auth.go:304-329), so
\* processQueue never meets the empty one that it would leave unanswered.
RefreshSucceeds ==
  /\ InFlight /\ issued < MaxPairs
  /\ issued' = issued + 1
  /\ pair' = issued'
  /\ fetching' = [f \in Fetches |->
       IF f \in Settled THEN [at |-> "replay", carries |-> issued'] ELSE fetching[f]]
  /\ leader' = NoFetch /\ presenting' = NoPair /\ refreshQueue' = {}
  /\ UNCHANGED <<presented, twice, loggedOut>>

\* setTokens(null); every call throws its own 401.  The refresh is a call of
\* apiFetch itself, with a timeout, so it ends.
RefreshFails401 ==
  /\ InFlight
  /\ pair' = NoPair
  /\ fetching' = [f \in Fetches |->
       IF f \in Settled THEN [fetching[f] EXCEPT !.at = "failed"] ELSE fetching[f]]
  /\ leader' = NoFetch /\ presenting' = NoPair /\ refreshQueue' = {}
  /\ UNCHANGED <<issued, presented, twice, loggedOut>>

\* The replay carries the pair in memory, or else the one it was given; it is
\* not replayed again.
Replay(f) ==
  /\ fetching[f].at = "replay"
  /\ fetching' = [fetching EXCEPT ![f] =
       [at |-> "resent", carries |-> IF pair # NoPair THEN pair ELSE @.carries]]
  /\ UNCHANGED <<memory, flightVars>>

SessionNext ==
  \/ LogIn \/ LogOut \/ RefreshSucceeds \/ RefreshFails401
  \/ \E f \in Fetches : \/ Send(f) \/ Answered(f) \/ Unauthorized(f)
                        \/ UnauthorizedAnonymous(f) \/ Replay(f)

\* Every request is answered or times out.
SessionFairness ==
  /\ WF_sessionVars(RefreshSucceeds \/ RefreshFails401)
  /\ \A f \in Fetches : WF_sessionVars(Answered(f) \/ Replay(f))

SessionSpec == SessionInit /\ [][SessionNext]_sessionVars /\ SessionFairness

-----------------------------------------------------------------------------
(* Properties.                                                              *)

\* No refresh token is presented twice, which the server would take for theft
\* (docs/adr/0038: "only one request consumes a refresh token at any time"),
\* however the 401s, the replays, logins and logouts interleave.
RefreshTokensServeOnce == ~twice

\* Every call is settled: nobody stays in the queue of a refresh that ended.
FetchesSettle ==
  \A f \in Fetches : fetching[f].at = "sent" ~> fetching[f].at \in {"ok", "failed"}

\* After a logout the tab holds no tokens until the next login
\* (AuthContext.tsx:73: "to guarantee clean client-side state reset").  In no
\* configuration: a refresh in flight stores its reply, and TLC finds it
\* violated.
LogoutIsFinal == loggedOut => pair = NoPair
=============================================================================
