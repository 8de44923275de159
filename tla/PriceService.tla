---------------------------- MODULE PriceService ----------------------------
(***************************************************************************)
(* DefaultPriceService.GetPrice of internal/core/price/service.go, with    *)
(* its price cache, over the shared USD/IRR converter (FXConverter).       *)
(*                                                                         *)
(* A request looks the symbol up in the cache, asks the providers of its   *)
(* kind in order until one answers, converts a dollar price with the       *)
(* converter and stores the result under a fresh expiry.  Each step takes  *)
(* and releases its own lock, so requests for one symbol overlap and their *)
(* stores may come in any order.  GetPricesBatch uses the same cache and   *)
(* converter; its routing is the subject of BatchPrices.                   *)
(*                                                                         *)
(* A price in rial is known by two instants: when the provider quoted it   *)
(* and when the rate it was multiplied by was quoted.  A provider call     *)
(* lasts at most CallTimeout, computation takes no time.                   *)
(***************************************************************************)
EXTENDS Integers

CONSTANTS Requests,      \* goroutines serving /prices/{symbol}
          Symbols,       \* upper-cased symbols asked for
          ChainLength,   \* how many providers providersForKind returns for each
          CacheTTL,      \* defaultCacheTTL
          CallTimeout,   \* http.Client Timeout of the price providers
          FXTTL,         \* defaultFXTTL
          FXTimeout,     \* http.Client Timeout of the irr provider
          MaxTime        \* bound on the clock, for TLC

ASSUME ServiceAssumption == /\ ChainLength \in [Symbols -> Nat]
                            /\ CacheTTL \in Nat
                            /\ CallTimeout \in Nat
                            /\ FXTTL \in Nat \ {0}
                            /\ FXTimeout \in Nat
                            /\ MaxTime \in Nat \ {0}

VARIABLES now,           \* nowFn()
          cache,         \* s.cache: for each symbol quoted, rated, expires
          req,           \* the locals of each request in GetPrice
          answer,        \* what GetPrice returned to it
          lastRate, fxExpires, fxPc, fxSince, fxAnswer   \* the converter

fxVars == <<lastRate, fxExpires, fxPc, fxSince, fxAnswer>>
vars   == <<now, cache, req, answer, fxVars>>

FX == INSTANCE FXConverter WITH Callers <- Requests, TTL <- FXTTL,
                                FetchTimeout <- FXTimeout,
                                expires <- fxExpires, pc <- fxPc,
                                since <- fxSince, answer <- fxAnswer

\* A cache entry and a price returned; Absent is a key that is not in the map.
Entry(q, r, e) == [quoted |-> q, rated |-> r, expires |-> e]
Absent         == Entry(0, 0, 0)
Price(q, r)    == [quoted |-> q, rated |-> r]
NoAnswer       == Price(0, 0)
Failure        == Price(-1, -1)

\* A request outside GetPrice; asking the n-th provider of the chain of s since
\* t; converting a price of s quoted at q.
Idle             == [pc |-> "idle"]
Asking(s, n, t)  == [pc |-> "asking", symbol |-> s, nth |-> n, since |-> t]
Converting(s, q) == [pc |-> "converting", symbol |-> s, quoted |-> q]

IsIdle(r)       == req[r].pc = "idle"
IsAsking(r)     == req[r].pc = "asking"
IsConverting(r) == req[r].pc = "converting"

Init == /\ FX!Init
        /\ cache = [s \in Symbols |-> Absent]
        /\ req = [r \in Requests |-> Idle]
        /\ answer = [r \in Requests |-> NoAnswer]

-----------------------------------------------------------------------------
\* setCache
Stored(s, q, r) == [cache EXCEPT ![s] = Entry(q, r, now + CacheTTL)]

Entering(r) == IsIdle(r) /\ answer[r] = NoAnswer

GoesTo(r, step) == req' = [req EXCEPT ![r] = step]

Returns(r, price) == /\ answer' = [answer EXCEPT ![r] = price]
                     /\ GoesTo(r, Idle)

\* Ways to get it wrong, each put in the place of the definition it is named
\* after: an entry never expires; a hit prolongs its life; the providers are
\* asked whatever is cached; the chain starts over at its end; a failure evicts
\* the entry; a failed conversion is cached, or done with the last rate known.
Hit_NeverExpires(s) == cache[s] # Absent

ServeCached_Sliding(r, s) ==
  /\ Entering(r)
  /\ cache[s] # Absent /\ now <= cache[s].expires
  /\ Returns(r, Price(cache[s].quoted, cache[s].rated))
  /\ cache' = Stored(s, cache[s].quoted, cache[s].rated)
  /\ UNCHANGED <<now, fxVars>>

AskFirst_NoCheck(r, s) ==
  /\ Entering(r)
  /\ ChainLength[s] > 0
  /\ GoesTo(r, Asking(s, 1, now))
  /\ UNCHANGED <<now, cache, answer, fxVars>>

AskNext_Wraps(r) ==
  /\ IsAsking(r)
  /\ \E n \in 1..ChainLength[req[r].symbol] :
       GoesTo(r, Asking(req[r].symbol, n, now))
  /\ UNCHANGED <<now, cache, answer, fxVars>>

AllFailed_Evicts(r) ==
  /\ IsAsking(r) /\ req[r].nth = ChainLength[req[r].symbol]
  /\ Returns(r, Failure)
  /\ cache' = [cache EXCEPT ![req[r].symbol] = Absent]
  /\ UNCHANGED <<now, fxVars>>

NotConverted_Caches(r) ==
  /\ IsConverting(r) /\ fxAnswer[r] = FX!Refused
  /\ FX!Take(r)
  /\ cache' = Stored(req[r].symbol, req[r].quoted, fxAnswer[r])
  /\ Returns(r, Failure)

NotConverted_UsesLastRate(r) ==
  /\ IsConverting(r) /\ fxAnswer[r] = FX!Refused
  /\ FX!Take(r)
  /\ cache' = Stored(req[r].symbol, req[r].quoted, lastRate)
  /\ Returns(r, Price(req[r].quoted, lastRate))

-----------------------------------------------------------------------------
\* getFromCache: the entry may be served up to and including its expiry.
Hit(s) == cache[s] # Absent /\ now <= cache[s].expires

ServeCached(r, s) ==
  /\ Entering(r) /\ Hit(s)
  /\ Returns(r, Price(cache[s].quoted, cache[s].rated))
  /\ UNCHANGED <<now, cache, fxVars>>

\* No provider is registered for the kind (commodities).
NoProviders(r, s) ==
  /\ Entering(r) /\ ~Hit(s)
  /\ ChainLength[s] = 0
  /\ Returns(r, Failure)
  /\ UNCHANGED <<now, cache, fxVars>>

AskFirst(r, s) ==
  /\ Entering(r) /\ ~Hit(s)
  /\ ChainLength[s] > 0
  /\ GoesTo(r, Asking(s, 1, now))
  /\ UNCHANGED <<now, cache, answer, fxVars>>

\* The provider in turn fails and the next one is asked, or none is left.
AskNext(r) ==
  /\ IsAsking(r) /\ req[r].nth < ChainLength[req[r].symbol]
  /\ GoesTo(r, Asking(req[r].symbol, req[r].nth + 1, now))
  /\ UNCHANGED <<now, cache, answer, fxVars>>

AllFailed(r) ==
  /\ IsAsking(r) /\ req[r].nth = ChainLength[req[r].symbol]
  /\ Returns(r, Failure)
  /\ UNCHANGED <<now, cache, fxVars>>

\* The provider quotes in rial: there is nothing to convert.
QuotedInRial(r) ==
  /\ IsAsking(r)
  /\ \E q \in req[r].since..now : /\ cache' = Stored(req[r].symbol, q, q)
                                  /\ Returns(r, Price(q, q))
  /\ UNCHANGED <<now, fxVars>>

\* The provider quotes in dollars: normalize needs the rate.
QuotedInDollars(r) ==
  /\ IsAsking(r)
  /\ \E q \in req[r].since..now : GoesTo(r, Converting(req[r].symbol, q))
  /\ UNCHANGED <<now, cache, answer, fxVars>>

\* USDToIRR, step by step.
Convert(r) ==
  /\ IsConverting(r)
  /\ FX!CacheHit(r) \/ FX!CallProvider(r) \/ FX!Returns(r)
  /\ UNCHANGED <<cache, req, answer>>

Converted(r) ==
  /\ IsConverting(r) /\ fxAnswer[r] > 0
  /\ FX!Take(r)
  /\ cache' = Stored(req[r].symbol, req[r].quoted, fxAnswer[r])
  /\ Returns(r, Price(req[r].quoted, fxAnswer[r]))

NotConverted(r) ==
  /\ IsConverting(r) /\ fxAnswer[r] = FX!Refused
  /\ FX!Take(r)
  /\ Returns(r, Failure)
  /\ UNCHANGED cache

\* The handler writes the response.
Respond(r) ==
  /\ answer[r] # NoAnswer
  /\ answer' = [answer EXCEPT ![r] = NoAnswer]
  /\ UNCHANGED <<now, cache, req, fxVars>>

\* Time passes only while every request at work waits for a provider, and for
\* none longer than its timeout.
Tick ==
  /\ \A r \in Requests :
       /\ answer[r] = NoAnswer
       /\ IsAsking(r) => now < req[r].since + CallTimeout
       /\ IsConverting(r) => fxPc[r] = "fetching"
  /\ FX!Tick
  /\ UNCHANGED <<cache, req, answer>>

\* The steps the service takes by itself once a request is in.
Serves(r) == \/ AskNext(r)      \/ AllFailed(r)
             \/ QuotedInRial(r) \/ QuotedInDollars(r)
             \/ Convert(r)      \/ Converted(r)       \/ NotConverted(r)

Next == \/ Tick
        \/ \E r \in Requests :
             \/ Serves(r) \/ Respond(r)
             \/ \E s \in Symbols : \/ ServeCached(r, s) \/ NoProviders(r, s)
                                   \/ AskFirst(r, s)

\* Every call of a provider ends, by its timeout at the latest, and the
\* goroutine of the request goes on.
Fairness == \A r \in Requests : WF_vars(Serves(r))

Spec == Init /\ [][Next]_vars /\ Fairness

-----------------------------------------------------------------------------
Times   == 0..MaxTime
Instant == Times \cup {-1}

TypeOK == /\ cache \in [Symbols -> [quoted : Times, rated : Times,
                                    expires : 0..(MaxTime + CacheTTL)]]
          /\ req \in [Requests ->
                        {Idle}
                        \cup [pc : {"asking"}, symbol : Symbols,
                              nth : Nat, since : Times]
                        \cup [pc : {"converting"}, symbol : Symbols,
                              quoted : Times]]
          /\ answer \in [Requests -> [quoted : Instant, rated : Instant]]
          /\ FX!TypeOK

LargerOf(a, b) == IF a >= b THEN a ELSE b

\* What may be served until it expires was quoted at most one provider call
\* and one rate fetch before it was stored, and rests on a rate the converter
\* still held to be good then; a price quoted in rial is its own rate, as old as
\* the provider call that brought it.
EntriesYoung ==
  \A s \in Symbols : cache[s] # Absent =>
    /\ cache[s].expires <= cache[s].quoted + CallTimeout + FXTimeout + CacheTTL
    /\ cache[s].expires < cache[s].rated + LargerOf(FXTTL, CallTimeout + 1)
                            + FXTimeout + CacheTTL

\* A rial price multiplies a quote by a rate of another instant: how far apart
\* the two can be.
SkewBounded ==
  \A s \in Symbols : cache[s] # Absent =>
    /\ cache[s].rated <= cache[s].quoted + CallTimeout + FXTimeout
    /\ cache[s].quoted < cache[s].rated + FXTTL + FXTimeout

\* While a price is cached, the first provider of its chain is being asked only
\* by requests that missed it before it was stored.
NoAskWhileCached ==
  \A r \in Requests :
    (IsAsking(r) /\ req[r].nth = 1 /\ Hit(req[r].symbol))
      => req[r].since <= cache[req[r].symbol].expires - CacheTTL

\* Requests that overlap may store in either order, but no store replaces a
\* price by one more than a provider call and a rate fetch older, and a failed
\* request takes nothing out of the cache.
RegressionBounded ==
  [][\A s \in Symbols :
       cache'[s].quoted + CallTimeout + FXTimeout >= cache[s].quoted]_vars

\* The two caches together still promise bounded staleness: the older of the
\* quote and the rate behind a price returned is younger than this.
Older(p) == IF p.quoted <= p.rated THEN p.quoted ELSE p.rated

Promise == INSTANCE BoundedStaleness
             WITH Clients <- Requests,
                  Bound   <- CacheTTL + FXTimeout + LargerOf(FXTTL, CallTimeout + 1),
                  answer  <- [r \in Requests |-> Older(answer[r])]
Freshness == Promise!Spec

\* Every request is answered, with a price or with an error.
RequestsAnswered == \A r \in Requests : ~IsIdle(r) ~> IsIdle(r)
=============================================================================
