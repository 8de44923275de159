------------------------- MODULE PriceServiceProofs -------------------------
(***************************************************************************)
(* Proofs about PriceService, for every set of requests and symbols, every *)
(* chain of providers and all times to live and timeouts.                  *)
(*                                                                         *)
(* What the converter guarantees is not proved again: every step of the    *)
(* service is a step of the converter or leaves it alone, so the invariant *)
(* of FXConverterProofs carries over.  What the service adds is the age of *)
(* what each request holds between its steps: IInv says that a provider    *)
(* call in progress is within its timeout, and how old the quote in a      *)
(* request's hands may be while the converter works for it.                *)
(***************************************************************************)
EXTENDS PriceService, TLAPS

FXP == INSTANCE FXConverterProofs WITH Callers <- Requests, TTL <- FXTTL,
                                       FetchTimeout <- FXTimeout,
                                       expires <- fxExpires, pc <- fxPc,
                                       since <- fxSince, answer <- fxAnswer

\* A request at work has not been answered, and is with the converter only
\* while it converts.
AtWorkInv(r) ==
  /\ ~IsIdle(r) => answer[r] = NoAnswer
  /\ ~IsConverting(r) => fxPc[r] = "idle" /\ fxAnswer[r] = FX!NoAnswer

\* A provider is asked for no longer than its timeout.
AskingInv(r) ==
  IsAsking(r) => /\ req[r].nth \in 1..ChainLength[req[r].symbol]
                 /\ req[r].since \in 1..now
                 /\ now <= req[r].since + CallTimeout

\* The quote a request converts is as old as one provider call while no rate is
\* fetched for it, and one fetch older once the converter answers; the rate it
\* is answered with was good when the converter gave it.
ConvertingInv(r) ==
  IsConverting(r) =>
    /\ req[r].quoted \in 1..now
    /\ fxPc[r] = "fetching" => fxSince[r] <= req[r].quoted + CallTimeout
    /\ (fxPc[r] = "idle" /\ fxAnswer[r] = FX!NoAnswer)
         => now <= req[r].quoted + CallTimeout
    /\ fxAnswer[r] # FX!NoAnswer
         => now <= req[r].quoted + CallTimeout + FXTimeout
    /\ fxAnswer[r] > 0 => /\ fxAnswer[r] <= now
                          /\ now < fxAnswer[r] + FXTTL + FXTimeout

\* An answer is a price, with both its instants, or a failure.
AnswerInv(r) == \/ answer[r] \in {NoAnswer, Failure}
                \/ answer[r].quoted >= 1 /\ answer[r].rated >= 1

RequestInv(r) == /\ AtWorkInv(r) /\ AskingInv(r)
                 /\ ConvertingInv(r) /\ AnswerInv(r)

\* Nothing cached comes from the future.
CacheInv ==
  \A s \in Symbols : cache[s] # Absent =>
    /\ cache[s].quoted \in 1..now
    /\ cache[s].rated \in 1..now
    /\ cache[s].expires <= now + CacheTTL

IInv == /\ TypeOK
        /\ FXP!IInv
        /\ \A r \in Requests : RequestInv(r)
        /\ CacheInv
        /\ EntriesYoung /\ SkewBounded /\ NoAskWhileCached

-----------------------------------------------------------------------------
\* Every step of the service is a step of the converter, or leaves it alone.
LEMMA StepOfConverter == ASSUME [Next]_vars
                         PROVE  [FXP!Next]_(FXP!vars)
<1> USE DEF FXP!vars, FXP!fxVars, fxVars, FXP!Next
<1>1. CASE Tick
  BY <1>1 DEF Tick, FX!Tick, FXP!Tick, FX!MayTick, FXP!MayTick, FX!fxVars
<1>2. ASSUME NEW r \in Requests, Convert(r)
      PROVE  FXP!Next
  BY <1>2 DEF Convert, FX!CacheHit, FXP!CacheHit, FX!CallProvider,
              FXP!CallProvider, FX!Returns, FXP!Returns, FX!Store, FXP!Store,
              FX!ProviderFails, FXP!ProviderFails, FX!Leaves, FXP!Leaves,
              FX!Entering, FXP!Entering, FX!Fresh, FXP!Fresh, FX!NoAnswer,
              FXP!NoAnswer, FX!Refused, FXP!Refused
<1>3. ASSUME NEW r \in Requests, Converted(r) \/ NotConverted(r)
      PROVE  FXP!Next
  BY <1>3 DEF Converted, NotConverted, FX!Take, FXP!Take, FX!NoAnswer,
              FXP!NoAnswer
<1>4. ASSUME NEW r \in Requests,
             \/ AskNext(r) \/ AllFailed(r) \/ QuotedInRial(r)
             \/ QuotedInDollars(r) \/ Respond(r)
             \/ \E s \in Symbols : \/ ServeCached(r, s) \/ NoProviders(r, s)
                                    \/ AskFirst(r, s)
      PROVE  UNCHANGED FXP!vars
  BY <1>4 DEF AskNext, AllFailed, QuotedInRial, QuotedInDollars, Respond,
              ServeCached, NoProviders, AskFirst
<1>5. CASE UNCHANGED vars
  BY <1>5 DEF vars
<1> QED
  BY <1>1, <1>2, <1>3, <1>4, <1>5 DEF Next, Serves

\* So the invariant of the converter is one of the service.
LEMMA ConverterIsKept == ASSUME FXP!IInv, [Next]_vars
                         PROVE  FXP!IInv' /\ FX!TypeOK'
<1>1. FXP!FXAssumption
  BY ServiceAssumption DEF FXP!FXAssumption
<1>2. FXP!IInv'
  BY <1>1, StepOfConverter, FXP!NextIInv
<1> QED
  BY <1>2 DEF FXP!IInv, FXP!TypeOK, FXP!Times, FXP!Refused,
              FX!TypeOK, FX!Times, FX!Refused

-----------------------------------------------------------------------------
\* What the invariant of the converter says, in the names of the service.
LEMMA ConverterFacts ==
  ASSUME FXP!IInv
  PROVE  /\ now \in 1..MaxTime
         /\ lastRate \in 0..now
         /\ fxPc \in [Requests -> {"idle", "fetching"}]
         /\ fxSince \in [Requests -> Times]
         /\ fxAnswer \in [Requests -> Times \cup {FX!Refused}]
         /\ lastRate > 0 => fxExpires <= lastRate + FXTimeout + FXTTL
         /\ fxExpires \in Nat
         /\ \A r \in Requests :
              fxPc[r] = "fetching" => /\ fxAnswer[r] = FX!NoAnswer
                                      /\ fxSince[r] \in 1..now
                                      /\ now <= fxSince[r] + FXTimeout
         /\ FX!TypeOK
BY ServiceAssumption
   DEF FXP!IInv, FXP!TypeOK, FXP!FetchesAreYoung, FXP!ExpiryTracksQuote,
       FXP!Times, FXP!Refused, FXP!NoAnswer, Times, FX!Refused, FX!NoAnswer,
       FX!TypeOK, FX!Times

\* A clock, a request and a cache entry in the ranges the code keeps them in.
LEMMA RequestFacts ==
  ASSUME TypeOK, NEW r \in Requests
  PROVE  /\ IsIdle(r) \/ IsAsking(r) \/ IsConverting(r)
         /\ IsAsking(r) => /\ req[r].symbol \in Symbols
                           /\ req[r].nth \in Nat
                           /\ req[r].since \in Times
                           /\ ~IsIdle(r) /\ ~IsConverting(r)
         /\ IsConverting(r) => /\ req[r].symbol \in Symbols
                               /\ req[r].quoted \in Times
                               /\ ~IsIdle(r) /\ ~IsAsking(r)
BY DEF TypeOK, IsIdle, IsAsking, IsConverting, Idle

LEMMA CacheFacts ==
  ASSUME TypeOK, NEW s \in Symbols
  PROVE  /\ cache[s].quoted \in Times
         /\ cache[s].rated \in Times
         /\ cache[s].expires \in Nat
BY ServiceAssumption DEF TypeOK, Times

\* A store of a quote and a rate as young as the chain of providers and the
\* converter leave them keeps what is said of the cache.
LEMMA StoreKeepsCache ==
  ASSUME IInv, NEW r \in Requests, NEW s \in Symbols,
         NEW q \in 1..now, NEW a \in 1..now,
         now <= q + CallTimeout + FXTimeout,
         now < a + LargerOf(FXTTL, CallTimeout + 1) + FXTimeout,
         a <= q + CallTimeout + FXTimeout, q < a + FXTTL + FXTimeout,
         cache' = Stored(s, q, a), now' = now, GoesTo(r, Idle)
  PROVE  /\ (cache \in [Symbols -> [quoted : Times, rated : Times,
                                     expires : 0..(MaxTime + CacheTTL)]])'
         /\ CacheInv' /\ EntriesYoung' /\ SkewBounded' /\ NoAskWhileCached'
<1> USE ServiceAssumption DEF Times
<1>1. now \in 1..MaxTime
  BY ConverterFacts DEF IInv
<1>2. cache \in [Symbols -> [quoted : Times, rated : Times,
                            expires : 0..(MaxTime + CacheTTL)]]
  BY DEF IInv, TypeOK
<1>3. /\ cache'[s] = Entry(q, a, now + CacheTTL)
      /\ \A t \in Symbols \ {s} : cache'[t] = cache[t]
  BY <1>2 DEF Stored
<1>4. cache'[s].quoted = q /\ cache'[s].rated = a
      /\ cache'[s].expires = now + CacheTTL
  BY <1>3 DEF Entry
<1>5. (cache \in [Symbols -> [quoted : Times, rated : Times,
                             expires : 0..(MaxTime + CacheTTL)]])'
  BY <1>1, <1>2 DEF Stored, Entry
<1>6. CacheInv'
  BY <1>1, <1>3, <1>4 DEF IInv, CacheInv
<1>7. LargerOf(FXTTL, CallTimeout + 1) \in Nat
  BY DEF LargerOf
<1>8. EntriesYoung'
  BY <1>1, <1>3, <1>4, <1>7 DEF IInv, EntriesYoung
<1>9. SkewBounded'
  BY <1>1, <1>3, <1>4 DEF IInv, SkewBounded
<1>10. NoAskWhileCached'
  <2> SUFFICES ASSUME NEW p \in Requests, IsAsking(p)', (req[p].nth = 1)',
                      Hit(req[p].symbol)'
               PROVE  (req[p].since <= cache[req[p].symbol].expires - CacheTTL)'
    BY DEF NoAskWhileCached
  <2>1. p # r /\ req'[p] = req[p] /\ IsAsking(p)
    BY DEF GoesTo, Idle, IsAsking, IInv, TypeOK
  <2>2. req[p].symbol \in Symbols /\ req[p].since \in 1..now
    BY <2>1, RequestFacts DEF IInv, RequestInv, AskingInv
  <2>3. CASE req[p].symbol = s
    BY <1>1, <1>4, <2>1, <2>2, <2>3
  <2>4. CASE req[p].symbol # s
    <3>1. cache'[req[p].symbol] = cache[req[p].symbol]
      BY <1>3, <2>2, <2>4
    <3>2. Hit(req[p].symbol)
      BY <2>1, <3>1 DEF Hit
    <3> QED
      BY <2>1, <3>1, <3>2 DEF IInv, NoAskWhileCached
  <2> QED
    BY <2>3, <2>4
<1> QED
  BY <1>5, <1>6, <1>8, <1>9, <1>10

\* A step that changes nothing in the cache keeps what is said of it, if nobody
\* starts on a provider chain for a symbol that is cached.
LEMMA CacheLeftAlone ==
  ASSUME IInv, UNCHANGED <<now, cache>>,
         \A p \in Requests :
           (IsAsking(p) /\ req[p].nth = 1)' => \/ req'[p] = req[p]
                                               \/ ~Hit(req'[p].symbol)
  PROVE  CacheInv' /\ EntriesYoung' /\ SkewBounded' /\ NoAskWhileCached'
<1>1. CacheInv' /\ EntriesYoung' /\ SkewBounded'
  BY DEF IInv, CacheInv, EntriesYoung, SkewBounded
<1>2. NoAskWhileCached'
  <2> SUFFICES ASSUME NEW p \in Requests, IsAsking(p)', (req[p].nth = 1)',
                      Hit(req[p].symbol)'
               PROVE  (req[p].since <= cache[req[p].symbol].expires - CacheTTL)'
    BY DEF NoAskWhileCached
  <2>1. Hit(req'[p].symbol)
    BY DEF Hit
  <2> QED
    BY <2>1 DEF IInv, NoAskWhileCached, IsAsking
<1> QED
  BY <1>1, <1>2

\* A request that a step leaves alone keeps what is said of it.
LEMMA RequestLeftAlone ==
  ASSUME NEW p \in Requests, RequestInv(p), now' = now,
         req'[p] = req[p], answer'[p] = answer[p],
         fxPc'[p] = fxPc[p], fxSince'[p] = fxSince[p], fxAnswer'[p] = fxAnswer[p]
  PROVE  RequestInv(p)'
BY DEF RequestInv, AtWorkInv, AskingInv, ConvertingInv, AnswerInv,
       IsIdle, IsAsking, IsConverting

\* A request that returns a price, or a failure, is done.
LEMMA ReturnKeepsRequest ==
  ASSUME TypeOK, NEW r \in Requests, NEW price, Returns(r, price),
         price = Failure \/ (price.quoted >= 1 /\ price.rated >= 1),
         fxPc'[r] = "idle", fxAnswer'[r] = FX!NoAnswer
  PROVE  RequestInv(r)'
<1>1. req'[r] = Idle /\ answer'[r] = price
  BY DEF Returns, GoesTo, TypeOK
<1> QED
  BY <1>1 DEF RequestInv, AtWorkInv, AskingInv, ConvertingInv, AnswerInv,
              IsIdle, IsAsking, IsConverting, Idle

-----------------------------------------------------------------------------
\* A request is answered at once, from the cache or for want of a provider, or
\* because the whole chain failed.
LEMMA AnsweredAtOnce ==
  ASSUME IInv, FXP!IInv', FX!TypeOK', NEW r \in Requests,
         \/ AllFailed(r)
         \/ \E s \in Symbols : ServeCached(r, s) \/ NoProviders(r, s)
  PROVE  IInv'
<1>1. PICK price \in [quoted : Instant, rated : Instant] :
        /\ Returns(r, price)
        /\ price = Failure \/ (price.quoted >= 1 /\ price.rated >= 1)
  <2>1. CASE AllFailed(r) \/ \E s \in Symbols : NoProviders(r, s)
    BY <2>1 DEF AllFailed, NoProviders, Failure, Price, Instant
  <2>2. ASSUME NEW s \in Symbols, ServeCached(r, s)
        PROVE  /\ Price(cache[s].quoted, cache[s].rated)
                    \in [quoted : Instant, rated : Instant]
               /\ Price(cache[s].quoted, cache[s].rated).quoted >= 1
               /\ Price(cache[s].quoted, cache[s].rated).rated >= 1
               /\ Returns(r, Price(cache[s].quoted, cache[s].rated))
    <3>1. cache[s].quoted \in 1..now /\ cache[s].rated \in 1..now
      BY <2>2 DEF ServeCached, Hit, IInv, CacheInv
    <3>2. cache[s].quoted \in Times /\ cache[s].rated \in Times
      BY CacheFacts DEF IInv
    <3>3. now \in Nat
      BY ConverterFacts DEF IInv
    <3> QED
      BY <2>2, <3>1, <3>2, <3>3 DEF ServeCached, Price, Instant
  <2> QED
    BY <2>1, <2>2
<1>2. UNCHANGED <<now, cache, fxVars>> /\ ~IsConverting(r)
  BY DEF AllFailed, ServeCached, NoProviders, Entering, IsIdle, IsAsking,
         IsConverting
<1>3. TypeOK /\ RequestInv(r) /\ FXP!IInv
  BY DEF IInv
<1>4. fxPc'[r] = "idle" /\ fxAnswer'[r] = FX!NoAnswer
  BY <1>2, <1>3 DEF RequestInv, AtWorkInv, fxVars
<1>5. RequestInv(r)'
  BY <1>1, <1>3, <1>4, ReturnKeepsRequest
<1>6. \A p \in Requests \ {r} : req'[p] = req[p] /\ answer'[p] = answer[p]
  BY <1>1, <1>3 DEF Returns, GoesTo, TypeOK
<1>7. \A p \in Requests \ {r} : RequestInv(p)'
  BY <1>2, <1>6, RequestLeftAlone DEF IInv, fxVars
<1>8. ~IsAsking(r)'
  BY <1>1, <1>3 DEF Returns, GoesTo, IsAsking, Idle, TypeOK
<1>9. CacheInv' /\ EntriesYoung' /\ SkewBounded' /\ NoAskWhileCached'
  BY <1>2, <1>6, <1>8, CacheLeftAlone
<1>10. TypeOK'
  BY <1>1, <1>2, <1>3 DEF TypeOK, Returns, GoesTo
<1> QED
  BY <1>5, <1>7, <1>9, <1>10 DEF IInv

\* A provider of the chain is asked: the first, for a symbol that is not cached,
\* or the next.
LEMMA ProviderAsked ==
  ASSUME IInv, FXP!IInv', FX!TypeOK', NEW r \in Requests,
         AskNext(r) \/ \E s \in Symbols : AskFirst(r, s)
  PROVE  IInv'
<1>1. PICK s \in Symbols, n \in Nat :
        /\ GoesTo(r, Asking(s, n, now))
        /\ n \in 1..ChainLength[s]
        /\ n = 1 => ~Hit(s)
  <2>1. ASSUME NEW s \in Symbols, AskFirst(r, s)
        PROVE  GoesTo(r, Asking(s, 1, now)) /\ 1 \in 1..ChainLength[s] /\ ~Hit(s)
    BY <2>1, ServiceAssumption DEF AskFirst
  <2>2. ASSUME AskNext(r)
        PROVE  /\ GoesTo(r, Asking(req[r].symbol, req[r].nth + 1, now))
               /\ req[r].symbol \in Symbols /\ req[r].nth + 1 \in Nat
               /\ req[r].nth + 1 \in 1..ChainLength[req[r].symbol]
               /\ req[r].nth + 1 # 1
    <3>1. /\ req[r].symbol \in Symbols
          /\ req[r].nth \in 1..ChainLength[req[r].symbol]
      BY <2>2, RequestFacts DEF AskNext, IInv, RequestInv, AskingInv
    <3> QED
      BY <2>2, <3>1, ServiceAssumption DEF AskNext
  <2> QED
    BY <2>1, <2>2
<1>2. UNCHANGED <<now, cache, answer, fxVars>> /\ ~IsConverting(r)
      /\ answer[r] = NoAnswer
  BY DEF AskFirst, AskNext, Entering, IInv, RequestInv, AtWorkInv, IsIdle,
         IsAsking, IsConverting
<1>3. TypeOK /\ RequestInv(r) /\ FXP!IInv /\ now \in 1..MaxTime
  BY ConverterFacts DEF IInv
<1>4. req'[r] = Asking(s, n, now)
      /\ \A p \in Requests \ {r} : req'[p] = req[p]
  BY <1>1, <1>3 DEF GoesTo, TypeOK
<1>5. RequestInv(r)'
  <2>1. /\ req'[r].pc = "asking" /\ req'[r].symbol = s
        /\ req'[r].nth = n /\ req'[r].since = now
    BY <1>4 DEF Asking
  <2> QED
    BY <1>1, <1>2, <1>3, <2>1, ServiceAssumption
       DEF RequestInv, AtWorkInv, AskingInv, ConvertingInv, AnswerInv, IsIdle,
           IsAsking, IsConverting, fxVars
<1>6. \A p \in Requests \ {r} : RequestInv(p)'
  BY <1>2, <1>4, RequestLeftAlone DEF IInv, fxVars
<1>7. CacheInv' /\ EntriesYoung' /\ SkewBounded' /\ NoAskWhileCached'
  BY <1>1, <1>2, <1>4, CacheLeftAlone DEF Asking
<1>8. TypeOK'
  BY <1>1, <1>2, <1>3 DEF TypeOK, GoesTo, Asking, Times
<1> QED
  BY <1>5, <1>6, <1>7, <1>8 DEF IInv

\* A price comes back from a provider: in rial it is cached and returned, in
\* dollars it goes to the converter.
LEMMA ProviderQuotes ==
  ASSUME IInv, FXP!IInv', FX!TypeOK', NEW r \in Requests,
         QuotedInRial(r) \/ QuotedInDollars(r)
  PROVE  IInv'
<1>1. IsAsking(r) /\ UNCHANGED <<now, fxVars>>
  BY DEF QuotedInRial, QuotedInDollars
<1>2. TypeOK /\ RequestInv(r) /\ FXP!IInv /\ now \in 1..MaxTime
  BY ConverterFacts DEF IInv
<1>3. /\ req[r].symbol \in Symbols /\ ~IsIdle(r) /\ ~IsConverting(r)
      /\ req[r].since \in 1..now /\ now <= req[r].since + CallTimeout
      /\ answer[r] = NoAnswer
      /\ fxPc[r] = "idle" /\ fxAnswer[r] = FX!NoAnswer
  BY <1>1, <1>2, RequestFacts DEF RequestInv, AtWorkInv, AskingInv
<1>4. PICK q \in req[r].since..now :
        \/ /\ cache' = Stored(req[r].symbol, q, q)
           /\ Returns(r, Price(q, q))
        \/ /\ GoesTo(r, Converting(req[r].symbol, q))
           /\ UNCHANGED <<cache, answer>>
  BY DEF QuotedInRial, QuotedInDollars
<1>5. q \in 1..now /\ now <= q + CallTimeout /\ q \in Times
  BY <1>2, <1>3, <1>4, ServiceAssumption DEF Times
<1>6. fxPc'[r] = "idle" /\ fxAnswer'[r] = FX!NoAnswer
  BY <1>1, <1>3 DEF fxVars
<1>7. \A p \in Requests \ {r} : req'[p] = req[p] /\ answer'[p] = answer[p]
  BY <1>2, <1>4 DEF Returns, GoesTo, TypeOK
<1>8. \A p \in Requests \ {r} : RequestInv(p)'
  BY <1>1, <1>7, RequestLeftAlone DEF IInv, fxVars
<1>9. CASE cache' = Stored(req[r].symbol, q, q) /\ Returns(r, Price(q, q))
  <2>1. RequestInv(r)'
    <3>1. Price(q, q).quoted >= 1 /\ Price(q, q).rated >= 1
      BY <1>5 DEF Price
    <3> QED
      BY <1>2, <1>6, <1>9, <3>1, ReturnKeepsRequest
  <2>2. GoesTo(r, Idle)
    BY <1>9 DEF Returns
  <2>3. /\ now <= q + CallTimeout + FXTimeout
        /\ now < q + LargerOf(FXTTL, CallTimeout + 1) + FXTimeout
        /\ q <= q + CallTimeout + FXTimeout /\ q < q + FXTTL + FXTimeout
    BY <1>2, <1>5, ServiceAssumption DEF LargerOf
  <2>4. /\ (cache \in [Symbols -> [quoted : Times, rated : Times,
                                   expires : 0..(MaxTime + CacheTTL)]])'
        /\ CacheInv' /\ EntriesYoung' /\ SkewBounded' /\ NoAskWhileCached'
    BY <1>1, <1>3, <1>5, <1>9, <2>2, <2>3, StoreKeepsCache
  <2>5. TypeOK'
    BY <1>2, <1>5, <1>9, <2>4 DEF TypeOK, Returns, GoesTo, Price, Instant
  <2> QED
    BY <1>8, <2>1, <2>4, <2>5 DEF IInv
<1>10. CASE /\ GoesTo(r, Converting(req[r].symbol, q))
            /\ UNCHANGED <<cache, answer>>
  <2>1. /\ req'[r].pc = "converting" /\ req'[r].quoted = q
        /\ req'[r].symbol = req[r].symbol
    BY <1>2, <1>10 DEF GoesTo, Converting, TypeOK
  <2>2. RequestInv(r)'
    BY <1>1, <1>2, <1>3, <1>5, <1>6, <1>10, <2>1
       DEF RequestInv, AtWorkInv, AskingInv, ConvertingInv, AnswerInv, IsIdle,
           IsAsking, IsConverting, FX!NoAnswer
  <2>3. CacheInv' /\ EntriesYoung' /\ SkewBounded' /\ NoAskWhileCached'
    BY <1>1, <1>7, <1>10, <2>1, CacheLeftAlone DEF IsAsking
  <2>4. TypeOK'
    BY <1>1, <1>2, <1>3, <1>5, <1>10 DEF TypeOK, GoesTo, Converting
  <2> QED
    BY <1>8, <2>2, <2>3, <2>4 DEF IInv
<1> QED
  BY <1>4, <1>9, <1>10

\* The converter works for a request: it answers from the rate it keeps, asks
\* the irr provider, or hears from it.
LEMMA ConverterWorks ==
  ASSUME IInv, FXP!IInv', FX!TypeOK', NEW r \in Requests, Convert(r)
  PROVE  IInv'
<1>1. /\ IsConverting(r) /\ UNCHANGED <<now, cache, req, answer>>
      /\ FX!CacheHit(r) \/ FX!CallProvider(r) \/ FX!Returns(r)
  BY DEF Convert, FX!CacheHit, FX!CallProvider, FX!Returns, FX!Store,
         FX!ProviderFails
<1>2. TypeOK /\ RequestInv(r) /\ FXP!IInv
  BY DEF IInv
<1>3. /\ now \in 1..MaxTime /\ lastRate \in 0..now /\ fxExpires \in Nat
      /\ fxPc \in [Requests -> {"idle", "fetching"}]
      /\ fxSince \in [Requests -> Times]
      /\ fxAnswer \in [Requests -> Times \cup {FX!Refused}]
      /\ lastRate > 0 => fxExpires <= lastRate + FXTimeout + FXTTL
      /\ fxPc[r] = "fetching" => /\ fxAnswer[r] = FX!NoAnswer
                                 /\ fxSince[r] \in 1..now
                                 /\ now <= fxSince[r] + FXTimeout
  BY <1>2, ConverterFacts
<1>4. \A p \in Requests \ {r} : /\ fxPc'[p] = fxPc[p]
                                /\ fxSince'[p] = fxSince[p]
                                /\ fxAnswer'[p] = fxAnswer[p]
  BY <1>1, <1>3 DEF FX!CacheHit, FX!CallProvider, FX!Returns, FX!Store,
                    FX!ProviderFails, FX!Leaves
<1>5. \A p \in Requests \ {r} : RequestInv(p)'
  BY <1>1, <1>4, RequestLeftAlone DEF IInv
<1>6. req[r].quoted \in 1..now
  BY <1>1, <1>2 DEF RequestInv, ConvertingInv
<1>7. ConvertingInv(r)'
  <2> USE ServiceAssumption DEF Times, FX!NoAnswer, FX!Refused
  <2> SUFFICES
        /\ fxPc'[r] = "fetching" => fxSince'[r] <= req[r].quoted + CallTimeout
        /\ (fxPc'[r] = "idle" /\ fxAnswer'[r] = FX!NoAnswer)
             => now <= req[r].quoted + CallTimeout
        /\ fxAnswer'[r] # FX!NoAnswer
             => now <= req[r].quoted + CallTimeout + FXTimeout
        /\ fxAnswer'[r] > 0 => /\ fxAnswer'[r] <= now
                               /\ now < fxAnswer'[r] + FXTTL + FXTimeout
    BY <1>1, <1>6 DEF ConvertingInv, IsConverting
  <2>1. CASE FX!CacheHit(r)
    <3>1. /\ fxPc[r] = "idle" /\ fxAnswer[r] = FX!NoAnswer
          /\ now < fxExpires /\ lastRate > 0
          /\ fxAnswer'[r] = lastRate /\ fxPc' = fxPc
      BY <1>3, <2>1 DEF FX!CacheHit, FX!Entering, FX!Fresh
    <3>2. now <= req[r].quoted + CallTimeout
      BY <1>1, <1>2, <3>1 DEF RequestInv, ConvertingInv
    <3> QED
      BY <1>3, <1>6, <3>1, <3>2
  <2>2. CASE FX!CallProvider(r)
    <3>1. /\ fxPc[r] = "idle" /\ fxAnswer[r] = FX!NoAnswer
          /\ fxAnswer' = fxAnswer /\ fxPc'[r] = "fetching" /\ fxSince'[r] = now
      BY <1>3, <2>2 DEF FX!CallProvider, FX!Entering
    <3>2. now <= req[r].quoted + CallTimeout
      BY <1>1, <1>2, <3>1 DEF RequestInv, ConvertingInv
    <3> QED
      BY <1>3, <1>6, <3>1, <3>2
  <2>3. CASE FX!Returns(r)
    <3>1. fxPc[r] = "fetching"
      BY <2>3 DEF FX!Returns, FX!Store, FX!ProviderFails
    <3>2. fxSince[r] <= req[r].quoted + CallTimeout
      BY <1>1, <1>2, <3>1 DEF RequestInv, ConvertingInv
    <3>3. now <= req[r].quoted + CallTimeout + FXTimeout
      BY <1>3, <1>6, <3>1, <3>2
    <3>4. fxPc'[r] = "idle" /\ fxAnswer'[r] \in fxSince[r]..now \cup {FX!Refused}
      BY <1>3, <2>3 DEF FX!Returns, FX!Store, FX!ProviderFails, FX!Leaves
    <3> QED
      BY <1>3, <3>1, <3>3, <3>4
  <2> QED
    BY <1>1, <2>1, <2>2, <2>3
<1>8. RequestInv(r)'
  BY <1>1, <1>2, <1>7 DEF RequestInv, AtWorkInv, AskingInv, AnswerInv, IsIdle,
                          IsAsking, IsConverting
<1>9. CacheInv' /\ EntriesYoung' /\ SkewBounded' /\ NoAskWhileCached'
  BY <1>1, CacheLeftAlone
<1>10. TypeOK'
  BY <1>1, <1>2 DEF TypeOK
<1> QED
  BY <1>5, <1>8, <1>9, <1>10 DEF IInv

\* A request takes what the converter answered: with a rate its price is cached
\* and returned, without one it fails.
LEMMA ConverterAnswers ==
  ASSUME IInv, FXP!IInv', FX!TypeOK', NEW r \in Requests,
         Converted(r) \/ NotConverted(r)
  PROVE  IInv'
<1>1. /\ IsConverting(r) /\ FX!Take(r)
      /\ fxAnswer[r] # FX!NoAnswer
  BY DEF Converted, NotConverted, FX!Take
<1>2. TypeOK /\ RequestInv(r) /\ FXP!IInv
  BY DEF IInv
<1>3. /\ now \in 1..MaxTime
      /\ fxPc \in [Requests -> {"idle", "fetching"}]
      /\ fxAnswer \in [Requests -> Times \cup {FX!Refused}]
      /\ fxPc[r] = "fetching" => fxAnswer[r] = FX!NoAnswer
  BY <1>2, ConverterFacts
<1>4. /\ UNCHANGED <<now, lastRate, fxExpires, fxPc, fxSince>>
      /\ fxPc'[r] = "idle" /\ fxAnswer'[r] = FX!NoAnswer
      /\ \A p \in Requests \ {r} : fxAnswer'[p] = fxAnswer[p]
  BY <1>1, <1>3 DEF FX!Take
<1>5. /\ req[r].symbol \in Symbols /\ req[r].quoted \in 1..now
      /\ now <= req[r].quoted + CallTimeout + FXTimeout
      /\ fxAnswer[r] > 0 => /\ fxAnswer[r] \in 1..now
                            /\ now < fxAnswer[r] + FXTTL + FXTimeout
  BY <1>1, <1>2, <1>3, RequestFacts
     DEF RequestInv, ConvertingInv, Times, FX!Refused
<1>6. CASE NotConverted(r)
  <2>1. Returns(r, Failure) /\ UNCHANGED cache
    BY <1>6 DEF NotConverted
  <2>2. RequestInv(r)'
    BY <1>2, <1>4, <2>1, ReturnKeepsRequest
  <2>3. /\ \A p \in Requests \ {r} : req'[p] = req[p] /\ answer'[p] = answer[p]
        /\ ~IsAsking(r)'
    BY <1>2, <2>1 DEF Returns, GoesTo, TypeOK, IsAsking, Idle
  <2>4. \A p \in Requests \ {r} : RequestInv(p)'
    BY <1>4, <2>3, RequestLeftAlone DEF IInv
  <2>5. CacheInv' /\ EntriesYoung' /\ SkewBounded' /\ NoAskWhileCached'
    BY <1>4, <2>1, <2>3, CacheLeftAlone
  <2>6. TypeOK'
    BY <1>2, <2>1 DEF TypeOK, Returns, GoesTo, Failure, Price, Instant
  <2> QED
    BY <2>2, <2>4, <2>5, <2>6 DEF IInv
<1>7. CASE Converted(r)
  <2> PICK q, a : q = req[r].quoted /\ a = fxAnswer[r]
    OBVIOUS
  <2>1. /\ cache' = Stored(req[r].symbol, q, a)
        /\ Returns(r, Price(q, a)) /\ GoesTo(r, Idle)
    BY <1>7 DEF Converted, Returns
  <2>2. /\ q \in 1..now /\ now <= q + CallTimeout + FXTimeout
        /\ a \in 1..now /\ now < a + FXTTL + FXTimeout
    BY <1>5, <1>7 DEF Converted
  <2>3. /\ now < a + LargerOf(FXTTL, CallTimeout + 1) + FXTimeout
        /\ a <= q + CallTimeout + FXTimeout /\ q < a + FXTTL + FXTimeout
    BY <1>3, <2>2, ServiceAssumption DEF LargerOf
  <2>4. /\ (cache \in [Symbols -> [quoted : Times, rated : Times,
                                   expires : 0..(MaxTime + CacheTTL)]])'
        /\ CacheInv' /\ EntriesYoung' /\ SkewBounded' /\ NoAskWhileCached'
    BY <1>4, <1>5, <2>1, <2>2, <2>3, StoreKeepsCache
  <2>5. RequestInv(r)'
    <3>1. Price(q, a).quoted >= 1 /\ Price(q, a).rated >= 1
      BY <2>2 DEF Price
    <3> QED
      BY <1>2, <1>4, <2>1, <3>1, ReturnKeepsRequest
  <2>6. \A p \in Requests \ {r} : req'[p] = req[p] /\ answer'[p] = answer[p]
    BY <1>2, <2>1 DEF Returns, GoesTo, TypeOK
  <2>7. \A p \in Requests \ {r} : RequestInv(p)'
    BY <1>4, <2>6, RequestLeftAlone DEF IInv
  <2>8. q \in Times /\ a \in Times
    BY <1>3, <2>2, ServiceAssumption DEF Times
  <2>9. TypeOK'
    BY <1>2, <2>1, <2>4, <2>8 DEF TypeOK, Returns, GoesTo, Price, Instant
  <2> QED
    BY <2>4, <2>5, <2>7, <2>9 DEF IInv
<1> QED
  BY <1>6, <1>7

\* The handler writes its response, and time passes for the ones that wait.
LEMMA Responds ==
  ASSUME IInv, FXP!IInv', FX!TypeOK', NEW r \in Requests, Respond(r)
  PROVE  IInv'
<1>1. /\ UNCHANGED <<now, cache, req, fxVars>>
      /\ answer' = [answer EXCEPT ![r] = NoAnswer]
  BY DEF Respond
<1>2. TypeOK
  BY DEF IInv
<1>3. \A p \in Requests : RequestInv(p)'
  <2> TAKE p \in Requests
  <2>1. RequestInv(p) /\ (p = r => answer'[p] = NoAnswer)
                      /\ (p # r => answer'[p] = answer[p])
    BY <1>1, <1>2 DEF IInv, TypeOK
  <2> QED
    BY <1>1, <2>1 DEF RequestInv, AtWorkInv, AskingInv, ConvertingInv,
                      AnswerInv, IsIdle, IsAsking, IsConverting, fxVars
<1>4. CacheInv' /\ EntriesYoung' /\ SkewBounded' /\ NoAskWhileCached'
  BY <1>1, CacheLeftAlone
<1>5. TypeOK'
  BY <1>1, <1>2, ServiceAssumption DEF TypeOK, NoAnswer, Price, Times, Instant
<1> QED
  BY <1>3, <1>4, <1>5 DEF IInv

LEMMA TimePasses == ASSUME IInv, FXP!IInv', FX!TypeOK', Tick
                    PROVE  IInv'
<1>1. /\ UNCHANGED <<cache, req, answer, fxVars>> /\ now' = now + 1
      /\ \A r \in Requests : /\ answer[r] = NoAnswer
                             /\ IsAsking(r) => now < req[r].since + CallTimeout
                             /\ IsConverting(r) => fxPc[r] = "fetching"
  BY DEF Tick, FX!Tick, FX!fxVars, fxVars
<1>2. TypeOK /\ FXP!IInv /\ now \in 1..MaxTime
  BY ConverterFacts DEF IInv
<1>3. \A r \in Requests : RequestInv(r)'
  <2> TAKE r \in Requests
  <2>1. RequestInv(r)
    BY DEF IInv
  <2>2. AtWorkInv(r)' /\ AnswerInv(r)'
    BY <1>1, <2>1 DEF RequestInv, AtWorkInv, AnswerInv, IsIdle, IsConverting,
                      fxVars
  <2>3. AskingInv(r)'
    BY <1>1, <1>2, <2>1, RequestFacts, ServiceAssumption
       DEF RequestInv, AskingInv, IsAsking, Times
  <2>4. ConvertingInv(r)'
    <3> SUFFICES ASSUME IsConverting(r)
                 PROVE  ConvertingInv(r)'
      BY <1>1 DEF ConvertingInv, IsConverting
    <3>1. fxPc[r] = "fetching" /\ fxAnswer[r] = FX!NoAnswer
      BY <1>1, <1>2, ConverterFacts
    <3> QED
      BY <1>1, <1>2, <2>1, <3>1 DEF RequestInv, ConvertingInv, IsConverting,
                                    fxVars, FX!NoAnswer
  <2> QED
    BY <2>2, <2>3, <2>4 DEF RequestInv
<1>4. CacheInv' /\ EntriesYoung' /\ SkewBounded'
  BY <1>1, <1>2, CacheFacts, ServiceAssumption
     DEF IInv, CacheInv, EntriesYoung, SkewBounded
<1>5. NoAskWhileCached'
  <2> SUFFICES ASSUME NEW r \in Requests, IsAsking(r), req[r].nth = 1,
                      Hit(req[r].symbol)'
               PROVE  req[r].since <= cache[req[r].symbol].expires - CacheTTL
    BY <1>1 DEF NoAskWhileCached, IsAsking
  <2>1. req[r].symbol \in Symbols
    BY <1>2, RequestFacts
  <2>2. Hit(req[r].symbol)
    BY <1>1, <1>2, <2>1, CacheFacts DEF Hit
  <2> QED
    BY <2>2 DEF IInv, NoAskWhileCached
<1>6. TypeOK'
  BY <1>1, <1>2 DEF TypeOK
<1> QED
  BY <1>3, <1>4, <1>5, <1>6 DEF IInv

-----------------------------------------------------------------------------
\* The service starts with nothing cached and nobody asking.
LEMMA InitIInv == Init => IInv
<1> SUFFICES ASSUME Init PROVE IInv
  OBVIOUS
<1>1. FXP!FXAssumption
  BY ServiceAssumption DEF FXP!FXAssumption
<1>2. FXP!Init
  BY DEF Init, FX!Init, FXP!Init, FX!NoAnswer, FXP!NoAnswer
<1>3. FXP!IInv
  BY <1>1, <1>2, FXP!InitIInv
<1>4. \A r \in Requests : RequestInv(r)
  BY DEF Init, FX!Init, RequestInv, AtWorkInv, AskingInv, ConvertingInv,
         AnswerInv, IsIdle, IsAsking, IsConverting, Idle
<1>5. \A s \in Symbols : cache[s] = Absent
  BY DEF Init
<1>6. CacheInv /\ EntriesYoung /\ SkewBounded
  BY <1>5 DEF CacheInv, EntriesYoung, SkewBounded
<1>7. NoAskWhileCached
  BY DEF Init, NoAskWhileCached, IsAsking, Idle
<1>8. TypeOK
  BY <1>3, ConverterFacts, ServiceAssumption
     DEF Init, TypeOK, Absent, Entry, NoAnswer, Price, Times, Instant
<1> QED
  BY <1>3, <1>4, <1>6, <1>7, <1>8 DEF IInv

\* Every step keeps the invariant.
LEMMA NextIInv == IInv /\ [Next]_vars => IInv'
<1> SUFFICES ASSUME IInv, [Next]_vars
             PROVE  IInv'
  OBVIOUS
<1>1. FXP!IInv' /\ FX!TypeOK'
  BY ConverterIsKept DEF IInv
<1>2. CASE Tick
  BY <1>1, <1>2, TimePasses
<1>3. ASSUME NEW r \in Requests, NEW s \in Symbols,
             ServeCached(r, s) \/ NoProviders(r, s) \/ AskFirst(r, s)
      PROVE  IInv'
  BY <1>1, <1>3, AnsweredAtOnce, ProviderAsked
<1>4. ASSUME NEW r \in Requests, Serves(r)
      PROVE  IInv'
  <2>1. CASE AskNext(r)
    BY <1>1, <2>1, ProviderAsked
  <2>2. CASE AllFailed(r)
    BY <1>1, <2>2, AnsweredAtOnce
  <2>3. CASE QuotedInRial(r) \/ QuotedInDollars(r)
    BY <1>1, <2>3, ProviderQuotes
  <2>4. CASE Convert(r)
    BY <1>1, <2>4, ConverterWorks
  <2>5. CASE Converted(r) \/ NotConverted(r)
    BY <1>1, <2>5, ConverterAnswers
  <2> QED
    BY <1>4, <2>1, <2>2, <2>3, <2>4, <2>5 DEF Serves
<1>5. ASSUME NEW r \in Requests, Respond(r)
      PROVE  IInv'
  BY <1>1, <1>5, Responds
<1>6. CASE UNCHANGED vars
  <2>1. UNCHANGED <<now, cache, req, answer, fxVars>>
    BY <1>6 DEF vars
  <2>2. \A p \in Requests : RequestInv(p)'
    BY <2>1, RequestLeftAlone DEF IInv, fxVars
  <2>3. CacheInv' /\ EntriesYoung' /\ SkewBounded' /\ NoAskWhileCached'
    BY <2>1, CacheLeftAlone
  <2>4. TypeOK'
    BY <1>1, <2>1 DEF IInv, TypeOK
  <2> QED
    BY <1>1, <2>2, <2>3, <2>4 DEF IInv
<1> QED
  BY <1>2, <1>3, <1>4, <1>5, <1>6 DEF Next

\* In every reachable state IInv holds.
LEMMA IInvHolds == Spec => []IInv
<1> QED
  BY InitIInv, NextIInv, PTL DEF Spec

\* Type correctness of the service and of the converter inside it: no cached
\* entry and no answer carries the mark of a failed conversion.
THEOREM TypeCorrect == Spec => []TypeOK
<1>1. IInv => TypeOK
  BY DEF IInv
<1> QED
  BY <1>1, IInvHolds, PTL

\* What is cached expires within the service's TTL, one provider call and one
\* rate fetch of the quote, whoever stored it and in whatever order.
THEOREM EntriesAreYoung == Spec => []EntriesYoung
<1>1. IInv => EntriesYoung
  BY DEF IInv
<1> QED
  BY <1>1, IInvHolds, PTL

\* The quote and the rate multiplied into one price are bounded apart.
THEOREM SkewIsBounded == Spec => []SkewBounded
<1>1. IInv => SkewBounded
  BY DEF IInv
<1> QED
  BY <1>1, IInvHolds, PTL

\* A cached symbol is asked for only by requests that missed it earlier.
THEOREM AsksStopWhileCached == Spec => []NoAskWhileCached
<1>1. IInv => NoAskWhileCached
  BY DEF IInv
<1> QED
  BY <1>1, IInvHolds, PTL

\* A late store sets a cached price back by no more than a provider call and a
\* rate fetch, and a failure takes no price away.
THEOREM RegressionIsBounded == Spec => RegressionBounded
<1>1. IInv /\ [Next]_vars
        => [\A s \in Symbols : cache'[s].quoted + CallTimeout + FXTimeout
                                 >= cache[s].quoted]_vars
  <2> USE ServiceAssumption DEF Times
  <2> SUFFICES ASSUME IInv, [Next]_vars, NEW s \in Symbols
               PROVE  cache'[s].quoted + CallTimeout + FXTimeout
                        >= cache[s].quoted
    OBVIOUS
  <2>1. /\ TypeOK /\ FXP!IInv /\ now \in 1..MaxTime
        /\ cache[s].quoted \in Times /\ cache[s].quoted <= now
    <3>1. TypeOK /\ FXP!IInv /\ now \in 1..MaxTime
      BY ConverterFacts DEF IInv
    <3> QED
      BY <3>1, CacheFacts DEF IInv, CacheInv, Absent, Entry
  <2>2. CASE cache' = cache
    BY <2>1, <2>2
  <2>3. ASSUME NEW t \in Symbols, NEW q \in 1..now, NEW a,
               now <= q + CallTimeout + FXTimeout, cache' = Stored(t, q, a)
        PROVE  cache'[s].quoted + CallTimeout + FXTimeout >= cache[s].quoted
    <3>1. cache'[s] = IF s = t THEN Entry(q, a, now + CacheTTL) ELSE cache[s]
      BY <2>1, <2>3 DEF Stored, TypeOK
    <3>2. cache'[s].quoted = IF s = t THEN q ELSE cache[s].quoted
      BY <3>1 DEF Entry
    <3> QED
      BY <2>1, <2>3, <3>2
  <2>4. ASSUME NEW r \in Requests, QuotedInRial(r)
        PROVE  cache'[s].quoted + CallTimeout + FXTimeout >= cache[s].quoted
    <3>1. PICK q \in req[r].since..now : cache' = Stored(req[r].symbol, q, q)
      BY <2>4 DEF QuotedInRial
    <3>2. /\ req[r].since \in 1..now /\ now <= req[r].since + CallTimeout
          /\ req[r].symbol \in Symbols
      BY <2>1, <2>4, RequestFacts DEF QuotedInRial, IInv, RequestInv, AskingInv
    <3>3. q \in 1..now /\ now <= q + CallTimeout + FXTimeout
      BY <2>1, <3>1, <3>2
    <3> QED
      BY <2>3, <3>1, <3>2, <3>3
  <2>5. ASSUME NEW r \in Requests, Converted(r)
        PROVE  cache'[s].quoted + CallTimeout + FXTimeout >= cache[s].quoted
    <3>1. /\ req[r].quoted \in 1..now /\ req[r].symbol \in Symbols
          /\ fxAnswer[r] # FX!NoAnswer
               => now <= req[r].quoted + CallTimeout + FXTimeout
      BY <2>1, <2>5, RequestFacts
         DEF Converted, IInv, RequestInv, ConvertingInv
    <3>2. fxAnswer[r] # FX!NoAnswer
      BY <2>5 DEF Converted, FX!Take
    <3> QED
      BY <2>3, <2>5, <3>1, <3>2 DEF Converted
  <2> QED
    BY <2>2, <2>4, <2>5
       DEF Next, Serves, Tick, ServeCached, NoProviders, AskFirst, AskNext,
           AllFailed, QuotedInDollars, Convert, NotConverted, Respond, vars
<1> QED
  BY <1>1, IInvHolds, PTL DEF Spec, RegressionBounded

\* The two caches in a row still promise bounded staleness: the older of the
\* quote and the rate behind every price returned is younger than the TTL of the
\* service, one rate fetch, and the larger of the TTL of the converter and one
\* provider call.
THEOREM ImplementsBoundedStaleness == Spec => Freshness
<1> DEFINE Bound == CacheTTL + FXTimeout + LargerOf(FXTTL, CallTimeout + 1)
           age == [r \in Requests |-> Older(answer[r])]
<1> USE DEF Promise!NoAnswer, Promise!Refused
<1>1. Init => Promise!Init
  BY DEF Init, FX!Init, Promise!Init, Older, NoAnswer, Price
<1>2. ASSUME NEW r \in Requests, NEW q \in 1..now, NEW a \in 1..now,
             now < q + Bound, now < a + Bound,
             answer[r] = NoAnswer, answer \in [Requests -> [quoted : Instant,
                                                            rated : Instant]],
             answer' = [answer EXCEPT ![r] = Price(q, a)], now' = now
      PROVE  Promise!Serve(r)
  <2>1. Older(answer[r]) = 0
    BY <1>2 DEF Older, NoAnswer, Price
  <2> PICK o : o = Older(Price(q, a))
    OBVIOUS
  <2>2. o \in 1..now /\ now < o + Bound
    BY <1>2 DEF Older, Price
  <2>3. age' = [age EXCEPT ![r] = o]
    BY <1>2
  <2> QED
    BY <1>2, <2>1, <2>2, <2>3 DEF Promise!Serve
<1>3. ASSUME NEW r \in Requests, answer[r] = NoAnswer,
             answer \in [Requests -> [quoted : Instant, rated : Instant]],
             Returns(r, Failure), now' = now
      PROVE  Promise!Refuse(r)
  <2>1. Older(answer[r]) = 0 /\ Older(Failure) = -1
    BY <1>3 DEF Older, NoAnswer, Failure, Price
  <2>2. age' = [age EXCEPT ![r] = -1]
    BY <1>3, <2>1 DEF Returns
  <2> QED
    BY <1>3, <2>1, <2>2 DEF Promise!Refuse
<1>4. IInv /\ [Next]_vars => [Promise!Next]_<<now, age>>
  <2> SUFFICES ASSUME IInv, [Next]_vars
               PROVE  [Promise!Next]_<<now, age>>
    OBVIOUS
  <2>0. /\ TypeOK /\ now \in 1..MaxTime
        /\ answer \in [Requests -> [quoted : Instant, rated : Instant]]
        /\ LargerOf(FXTTL, CallTimeout + 1) \in Nat
        /\ LargerOf(FXTTL, CallTimeout + 1) >= FXTTL
        /\ LargerOf(FXTTL, CallTimeout + 1) > CallTimeout
    BY ConverterFacts, ServiceAssumption DEF IInv, TypeOK, LargerOf
  <2> HIDE DEF Bound, age
  <2>1. ASSUME NEW r \in Requests, NEW s \in Symbols, ServeCached(r, s)
        PROVE  Promise!Serve(r)
    <3>1. /\ cache[s].quoted \in 1..now /\ cache[s].rated \in 1..now
          /\ cache[s].expires \in Nat /\ now <= cache[s].expires
          /\ cache[s].expires <= cache[s].quoted + CallTimeout + FXTimeout
                                 + CacheTTL
          /\ cache[s].expires < cache[s].rated + LargerOf(FXTTL, CallTimeout + 1)
                                 + FXTimeout + CacheTTL
      BY <2>0, <2>1, CacheFacts
         DEF ServeCached, Hit, IInv, CacheInv, EntriesYoung
    <3>2. now < cache[s].quoted + Bound /\ now < cache[s].rated + Bound
      BY <2>0, <3>1, ServiceAssumption DEF Bound
    <3> QED
      BY <1>2, <2>0, <2>1, <3>1, <3>2 DEF ServeCached, Entering, Returns
  <2>2. ASSUME NEW r \in Requests, QuotedInRial(r)
        PROVE  Promise!Serve(r)
    <3>1. PICK q \in req[r].since..now : Returns(r, Price(q, q))
      BY <2>2 DEF QuotedInRial
    <3>2. /\ req[r].since \in 1..now /\ now <= req[r].since + CallTimeout
          /\ answer[r] = NoAnswer
      BY <2>0, <2>2, RequestFacts
         DEF QuotedInRial, IInv, RequestInv, AtWorkInv, AskingInv
    <3>3. q \in 1..now /\ now < q + Bound
      BY <2>0, <3>1, <3>2, ServiceAssumption DEF Bound
    <3> QED
      BY <1>2, <2>0, <2>2, <3>1, <3>2, <3>3 DEF QuotedInRial, Returns
  <2>3. ASSUME NEW r \in Requests, Converted(r)
        PROVE  Promise!Serve(r)
    <3>1. /\ IsConverting(r) /\ fxAnswer[r] > 0 /\ fxAnswer[r] # FX!NoAnswer
          /\ Returns(r, Price(req[r].quoted, fxAnswer[r])) /\ now' = now
      BY <2>3 DEF Converted, FX!Take
    <3>2. /\ req[r].quoted \in 1..now /\ answer[r] = NoAnswer
          /\ now <= req[r].quoted + CallTimeout + FXTimeout
          /\ fxAnswer[r] <= now /\ now < fxAnswer[r] + FXTTL + FXTimeout
      BY <2>0, <3>1, RequestFacts
         DEF IInv, RequestInv, AtWorkInv, ConvertingInv
    <3>3. fxAnswer[r] \in Times \cup {FX!Refused}
      BY ConverterFacts DEF IInv
    <3>4. /\ fxAnswer[r] \in 1..now
          /\ now < req[r].quoted + Bound /\ now < fxAnswer[r] + Bound
      BY <2>0, <3>1, <3>2, <3>3, ServiceAssumption
         DEF Bound, Times, FX!Refused
    <3> QED
      BY <1>2, <2>0, <3>1, <3>2, <3>4 DEF Returns
  <2>4. ASSUME NEW r \in Requests,
               \/ AllFailed(r) \/ NotConverted(r)
               \/ \E s \in Symbols : NoProviders(r, s)
        PROVE  Promise!Refuse(r)
    <3>1. answer[r] = NoAnswer
      BY <2>0, <2>4, RequestFacts
         DEF AllFailed, NotConverted, NoProviders, Entering, IInv, RequestInv,
             AtWorkInv
    <3> QED
      BY <1>3, <2>0, <2>4, <3>1
         DEF AllFailed, NotConverted, NoProviders, FX!Take
  <2>5. ASSUME NEW r \in Requests, Respond(r)
        PROVE  Promise!Take(r)
    <3>1. answer[r] # NoAnswer /\ answer' = [answer EXCEPT ![r] = NoAnswer]
      BY <2>5 DEF Respond
    <3>2. Older(answer[r]) # 0 /\ Older(NoAnswer) = 0
      <4>1. RequestInv(r) /\ answer[r] \in [quoted : Instant, rated : Instant]
        BY <2>0 DEF IInv
      <4> QED
        BY <3>1, <4>1, ServiceAssumption
           DEF RequestInv, AnswerInv, Older, NoAnswer, Failure, Price, Instant,
               Times
    <3>3. age' = [age EXCEPT ![r] = 0]
      BY <2>0, <3>1, <3>2 DEF age
    <3> QED
      BY <2>5, <3>2, <3>3 DEF Promise!Take, Respond, age
  <2>6. CASE Tick
    BY <2>6 DEF Tick, FX!Tick, Promise!Next, Promise!Tick, age
  <2>7. ASSUME \/ UNCHANGED vars
               \/ \E r \in Requests :
                    \/ AskNext(r) \/ QuotedInDollars(r) \/ Convert(r)
                    \/ \E s \in Symbols : AskFirst(r, s)
        PROVE  UNCHANGED <<now, age>>
    BY <2>7 DEF vars, AskNext, QuotedInDollars, Convert, AskFirst,
                FX!CacheHit, FX!CallProvider, FX!Returns, FX!Store,
                FX!ProviderFails, age
  <2> QED
    BY <2>1, <2>2, <2>3, <2>4, <2>5, <2>6, <2>7
       DEF Next, Serves, Promise!Next
<1> QED
  BY <1>1, <1>4, IInvHolds, PTL DEF Spec, Freshness, Promise!Spec
=============================================================================
