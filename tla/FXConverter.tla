----------------------------- MODULE FXConverter -----------------------------
(***************************************************************************)
(* CachedFXConverter of internal/core/price/conversion.go: the USD/IRR     *)
(* rate kept for TTL and shared by every request that normalises a price.  *)
(*                                                                         *)
(* USDToIRR reads the pair (lastRate, expires) under a read lock, lets the *)
(* lock go, asks the provider, and takes the write lock only to store what *)
(* came back.  Callers that find the rate stale together all ask, and      *)
(* store in the order they come back, which need not be the order in which *)
(* the provider quoted.                                                    *)
(*                                                                         *)
(* A rate is identified by the instant it was quoted; 0 is Go's zero value *)
(* of lastRate and expires, and the clock starts at 1.  A call of the      *)
(* provider returns within FetchTimeout (the http.Client's Timeout), and   *)
(* only the wait for the provider takes time.                              *)
(***************************************************************************)
EXTENDS Integers

CONSTANTS Callers,       \* goroutines inside USDToIRR
          TTL,           \* NewCachedFXConverter's ttl
          FetchTimeout,  \* the longest a call of the provider can take
          MaxTime        \* bound on the clock, for TLC

ASSUME FXAssumption == /\ TTL \in Nat \ {0}
                       /\ FetchTimeout \in Nat
                       /\ MaxTime \in Nat \ {0}

VARIABLES now,           \* time.Now()
          lastRate,      \* c.lastRate: when the cached rate was quoted
          expires,       \* c.expires
          pc,            \* where each caller is: "idle" or "fetching"
          since,         \* when its call of the provider began, 0 outside one
          answer         \* what USDToIRR returned to it

fxVars == <<lastRate, expires, pc, since, answer>>
vars == <<now, fxVars>>

NoAnswer == 0
Refused  == -1

Init == /\ now = 1
        /\ lastRate = 0
        /\ expires = 0
        /\ pc = [c \in Callers |-> "idle"]
        /\ since = [c \in Callers |-> 0]
        /\ answer = [c \in Callers |-> NoAnswer]

-----------------------------------------------------------------------------
\* Ways to get it wrong, each put in the place of the definition it is named
\* after: the rate is served at the instant it expires; a hit prolongs the
\* rate's life; every caller asks, whatever is cached; a rate is stored before it
\* is looked at; a failure throws the cached rate away.
Fresh_Inclusive == now <= expires /\ lastRate > 0

CacheHit_Sliding(c) ==
  /\ pc[c] = "idle" /\ answer[c] = NoAnswer
  /\ now < expires /\ lastRate > 0
  /\ answer' = [answer EXCEPT ![c] = lastRate]
  /\ expires' = now + TTL
  /\ UNCHANGED <<now, lastRate, pc, since>>

CallProvider_NoCheck(c) ==
  /\ pc[c] = "idle" /\ answer[c] = NoAnswer
  /\ pc' = [pc EXCEPT ![c] = "fetching"]
  /\ since' = [since EXCEPT ![c] = now]
  /\ UNCHANGED <<now, lastRate, expires, answer>>

ProviderFails_Stores(c) ==
  /\ pc[c] = "fetching"
  /\ answer' = [answer EXCEPT ![c] = Refused]
  /\ pc' = [pc EXCEPT ![c] = "idle"]
  /\ since' = [since EXCEPT ![c] = 0]
  /\ lastRate' = Refused
  /\ expires' = now + TTL
  /\ UNCHANGED now

ProviderFails_Evicts(c) ==
  /\ pc[c] = "fetching"
  /\ answer' = [answer EXCEPT ![c] = Refused]
  /\ pc' = [pc EXCEPT ![c] = "idle"]
  /\ since' = [since EXCEPT ![c] = 0]
  /\ lastRate' = 0
  /\ UNCHANGED <<now, expires>>

-----------------------------------------------------------------------------
\* The rate may be served without asking the provider.
Fresh == now < expires /\ lastRate > 0

Entering(c) == pc[c] = "idle" /\ answer[c] = NoAnswer

CacheHit(c) ==
  /\ Entering(c)
  /\ Fresh
  /\ answer' = [answer EXCEPT ![c] = lastRate]
  /\ UNCHANGED <<now, lastRate, expires, pc, since>>

CallProvider(c) ==
  /\ Entering(c)
  /\ ~Fresh
  /\ pc' = [pc EXCEPT ![c] = "fetching"]
  /\ since' = [since EXCEPT ![c] = now]
  /\ UNCHANGED <<now, lastRate, expires, answer>>

Leaves(c) == /\ pc' = [pc EXCEPT ![c] = "idle"]
             /\ since' = [since EXCEPT ![c] = 0]

\* The provider answered with a rate it quoted at some instant of the call.
Store(c) ==
  /\ pc[c] = "fetching"
  /\ \E quoted \in since[c]..now :
       /\ lastRate' = quoted
       /\ answer' = [answer EXCEPT ![c] = quoted]
  /\ expires' = now + TTL
  /\ Leaves(c)
  /\ UNCHANGED now

\* The provider failed, or returned a rate that is not positive.
ProviderFails(c) ==
  /\ pc[c] = "fetching"
  /\ answer' = [answer EXCEPT ![c] = Refused]
  /\ Leaves(c)
  /\ UNCHANGED <<now, lastRate, expires>>

\* The caller goes on with what it was returned.
Take(c) ==
  /\ answer[c] # NoAnswer
  /\ answer' = [answer EXCEPT ![c] = NoAnswer]
  /\ UNCHANGED <<now, lastRate, expires, pc, since>>

\* No call of the provider outlives its timeout.
MayTick == \A c \in Callers : pc[c] = "fetching" => now < since[c] + FetchTimeout

Tick == /\ now < MaxTime
        /\ MayTick
        /\ now' = now + 1
        /\ UNCHANGED fxVars

Returns(c) == Store(c) \/ ProviderFails(c)

Next == \/ Tick
        \/ \E c \in Callers : \/ CacheHit(c) \/ CallProvider(c)
                              \/ Returns(c)  \/ Take(c)

Spec == Init /\ [][Next]_vars

-----------------------------------------------------------------------------
Times == 0..MaxTime

TypeOK == /\ now \in 1..MaxTime
          /\ lastRate \in Times
          /\ expires \in 0..(MaxTime + TTL)
          /\ pc \in [Callers -> {"idle", "fetching"}]
          /\ since \in [Callers -> Times]
          /\ answer \in [Callers -> Times \cup {Refused}]

\* The cached rate expires soon after it was quoted, whoever stored it last:
\* the slack over TTL is the one call of the provider that brought it.
ExpiryTracksQuote ==
  lastRate > 0 => expires <= lastRate + FetchTimeout + TTL

\* A caller is waiting for the provider while the cached rate is fresh only if
\* it began before the store that made the rate fresh: once a refresh is done,
\* nobody asks the provider again for TTL.
NoFetchWhileFresh ==
  \A c \in Callers : pc[c] = "fetching" /\ Fresh => since[c] <= expires - TTL

\* A store may replace a rate by an older one (two fetches came back in the
\* other order than they were quoted), but never by one older than a fetch
\* can last.
RegressionBounded == [][lastRate' + FetchTimeout >= lastRate]_vars

\* What callers are promised: every rate returned is younger than TTL plus one
\* call of the provider.
Promise == INSTANCE BoundedStaleness WITH Clients <- Callers,
                                          Bound <- TTL + FetchTimeout
Freshness == Promise!Spec
=============================================================================
