----------------------------- MODULE BatchPrices -----------------------------
(***************************************************************************)
(* One call of DefaultPriceService.GetPricesBatch (service.go): the cached *)
(* symbols are taken, the others are grouped by kind, and the kinds are    *)
(* fetched one after the other in the random order of a Go map.            *)
(*                                                                         *)
(* For a kind the providers are tried in order with one batch call each;   *)
(* the first that answers, even for part of the symbols, settles the kind. *)
(* When all of them refuse, each symbol is tried on its own.  One map, the *)
(* sink, collects the prices of all kinds, cache hits included, and the    *)
(* call gives up only when the sink is empty.                              *)
(*                                                                         *)
(* Upstreams go down and come back between the calls.  Prices are named by *)
(* their symbol: their age is the subject of PriceService.                 *)
(***************************************************************************)
EXTENDS Routing, FiniteSets

CONSTANTS Symbols,     \* the part of the catalogue that is asked for
          MaxBatch     \* bound on the size of a batch, for TLC

ASSUME BatchAssumption == Symbols \subseteq Catalogue

\* Not a condition on a parameter: the chains that Routing computes, looked at.
\* The one provider that quotes every price in rials is the last of its chain, and
\* no chain is longer than that of forex.
Longest == Len(Chain("forex"))

ASSUME ChainAssumption ==
  \A k \in Kinds : /\ Chain(k) \in Seq(Providers)
                   /\ Len(Chain(k)) <= Longest
                   /\ \A n \in 1..Len(Chain(k)) :
                        Chain(k)[n] = "irr" => n = Len(Chain(k))

VARIABLES wanted,      \* the symbols of the request
          cache,       \* symbols with a cache entry that has not expired
          sink,        \* resultBySymbol
          missing,     \* the symbols in missingByKind: not cached at the start
          todo,        \* the kinds not fetched yet
          kind,        \* the kind being fetched, NoKind between two
          nth,         \* the provider of its chain that is next
          left,        \* symbols still to be tried on their own
          result,      \* "new", "running", then "returned" or "failed"
          up,          \* providers that can be reached
          fxUp,        \* USDToIRR would return a rate
          steady       \* no upstream has changed since the call began

upstream == <<up, fxUp, steady>>
callVars == <<wanted, cache, sink, missing, todo, kind, nth, left, result>>
vars     == <<callVars, upstream>>

NoKind == "none"

Init == /\ wanted \in {w \in SUBSET Symbols : Cardinality(w) \in 1..MaxBatch}
        /\ cache \in SUBSET wanted
        /\ sink = {} /\ missing = {} /\ todo = {} /\ left = {}
        /\ kind = NoKind
        /\ nth = 0
        /\ result = "new"
        /\ up \in {u \in SUBSET Providers : CannotFail \subseteq u}
        /\ fxUp \in BOOLEAN
        /\ steady = TRUE

-----------------------------------------------------------------------------
Missing(k) == {s \in missing : DetectKind(s) = k}

\* The prices that normalize can convert.
Convertible(p, symbols) == {s \in symbols : QuotedInRial(p, s) \/ fxUp}

\* Ways to get it wrong, each put in the place of the definition it is named
\* after: what was obtained is not cached; the sink holds one kind only.
Obtained_NotCached(symbols) == /\ UNCHANGED cache
                               /\ sink' = sink \cup symbols
Obtained_Replaces(symbols)  == /\ cache' = cache \cup symbols
                               /\ sink' = symbols

Obtained(symbols) == /\ cache' = cache \cup symbols
                     /\ sink' = sink \cup symbols

KindDone == kind' = NoKind /\ nth' = 0 /\ left' = {}

\* The loop over the symbols of the request.
Scan ==
  /\ result = "new"
  /\ sink' = wanted \cap cache
  /\ missing' = wanted \ cache
  /\ todo' = {DetectKind(s) : s \in wanted \ cache}
  /\ result' = "running"
  /\ UNCHANGED <<wanted, cache, kind, nth, left, upstream>>

Running == result = "running"

NoProviders(k) ==
  /\ Running /\ kind = NoKind /\ k \in todo
  /\ Chain(k) = <<>>
  /\ result' = "failed"
  /\ UNCHANGED <<wanted, cache, sink, missing, todo, kind, nth, left, upstream>>

StartKind(k) ==
  /\ Running /\ kind = NoKind /\ k \in todo
  /\ Chain(k) # <<>>
  /\ kind' = k
  /\ todo' = todo \ {k}
  /\ nth' = 1
  /\ UNCHANGED <<wanted, cache, sink, missing, left, result, upstream>>

Batching == Running /\ kind # NoKind /\ left = {}
Asked    == Chain(kind)[nth]

BatchCallOf(p, k) == IF p \in up THEN BatchOf(p, Missing(k)) ELSE {}
BatchCall(p)      == BatchCallOf(p, kind)

\* Another: an answer without a price is taken for an answer.
BatchAnswered_Empty ==
  /\ Batching
  /\ Obtained(Convertible(Asked, BatchCall(Asked)))
  /\ KindDone
  /\ UNCHANGED <<wanted, missing, todo, result, upstream>>

\* A provider answers the batch: what can be converted is cached and kept, and
\* no other provider is asked.
BatchAnswered ==
  /\ Batching
  /\ BatchCall(Asked) # {}
  /\ Obtained(Convertible(Asked, BatchCall(Asked)))
  /\ KindDone
  /\ UNCHANGED <<wanted, missing, todo, result, upstream>>

\* The converter starts or stops having a rate between two prices of the
\* answer: any part of those that need one is converted.
BatchAnsweredInPart ==
  /\ Batching
  /\ LET prices == BatchCall(Asked)
     IN /\ prices # {}
        /\ \E got \in SUBSET prices :
             /\ {s \in prices : QuotedInRial(Asked, s)} \subseteq got
             /\ Obtained(got)
  /\ KindDone
  /\ fxUp' = ~fxUp
  /\ steady' = FALSE
  /\ UNCHANGED <<wanted, missing, todo, result, up>>

\* It does not: the next one is asked, and after the last each symbol in turn.
BatchRefused ==
  /\ Batching
  /\ BatchCall(Asked) = {}
  /\ IF nth < Len(Chain(kind))
       THEN nth' = nth + 1 /\ left' = left
       ELSE nth' = 1 /\ left' = Missing(kind)
  /\ UNCHANGED <<wanted, cache, sink, missing, todo, kind, result, upstream>>

Salvaging == Running /\ left # {}
Turn      == CHOOSE s \in left : TRUE

\* Two more: the call fails when one kind yields nothing, whatever the others
\* gave; a symbol nobody has is tried for ever.
AfterTurn_OwnKind(got) ==
  /\ Obtained(got)
  /\ IF left # {Turn}
       THEN left' = left \ {Turn} /\ nth' = 1 /\ UNCHANGED <<kind, result>>
       ELSE /\ KindDone
            /\ result' = IF got = {} THEN "failed" ELSE result

SymbolRefused_Restarts ==
  /\ Salvaging
  /\ ~(Asked \in up /\ Turn \in Serves(Asked))
  /\ nth' = IF nth < Len(Chain(kind)) THEN nth + 1 ELSE 1
  /\ UNCHANGED <<wanted, missing, cache, sink, todo, kind, left, result, upstream>>

\* The last symbol has been tried: an empty sink fails the whole call (an error
\* is always at hand here, the batch calls all failed).
AfterTurn(got) ==
  /\ Obtained(got)
  /\ IF left # {Turn}
       THEN left' = left \ {Turn} /\ nth' = 1 /\ UNCHANGED <<kind, result>>
       ELSE /\ KindDone
            /\ result' = IF sink \cup got = {} THEN "failed" ELSE result

SymbolAnswered ==
  /\ Salvaging
  /\ Asked \in up /\ Turn \in Serves(Asked)
  /\ AfterTurn(Convertible(Asked, {Turn}))
  /\ UNCHANGED <<wanted, missing, todo, upstream>>

SymbolRefused ==
  /\ Salvaging
  /\ ~(Asked \in up /\ Turn \in Serves(Asked))
  /\ IF nth < Len(Chain(kind))
       THEN nth' = nth + 1 /\ UNCHANGED <<cache, sink, kind, left, result>>
       ELSE AfterTurn({})
  /\ UNCHANGED <<wanted, missing, todo, upstream>>

Return ==
  /\ Running /\ kind = NoKind /\ todo = {}
  /\ result' = "returned"
  /\ UNCHANGED <<wanted, cache, sink, missing, todo, kind, nth, left, upstream>>

Serve == \/ Scan \/ BatchAnswered \/ BatchAnsweredInPart \/ BatchRefused
         \/ SymbolAnswered \/ SymbolRefused \/ Return
         \/ \E k \in Kinds : NoProviders(k) \/ StartKind(k)

\* An upstream goes down or comes back.
Flap == /\ Running
        /\ steady' = FALSE
        /\ \/ /\ \E p \in Providers \ CannotFail :
                   up' = IF p \in up THEN up \ {p} ELSE up \cup {p}
              /\ UNCHANGED fxUp
           \/ fxUp' = ~fxUp /\ UNCHANGED up
        /\ UNCHANGED callVars

\* The response has been written.
Over == result \in {"returned", "failed"}
Finished == Over /\ UNCHANGED vars

Next == Serve \/ Flap \/ Finished

\* Every call of a provider ends and the goroutine goes on.
Spec == Init /\ [][Next]_vars /\ WF_vars(Serve)

-----------------------------------------------------------------------------
TypeOK == /\ wanted \subseteq Symbols /\ cache \subseteq wanted
          /\ sink \subseteq cache
          /\ missing \subseteq wanted
          /\ todo \subseteq Kinds /\ kind \in Kinds \cup {NoKind}
          /\ left \subseteq wanted
          /\ kind # NoKind => nth \in 1..Len(Chain(kind))
          /\ result \in {"new", "running", "returned", "failed"}
          /\ up \subseteq Providers
          /\ fxUp \in BOOLEAN /\ steady \in BOOLEAN

\* What GetPrice would return for a symbol, all upstreams staying as they are:
\* the first provider of its chain that has it, if it can be converted.
Sources(s) == {n \in 1..Len(Chain(DetectKind(s))) :
                 /\ Chain(DetectKind(s))[n] \in up
                 /\ s \in Serves(Chain(DetectKind(s))[n])}
First(s)   == CHOOSE n \in Sources(s) : \A m \in Sources(s) : n <= m
Available(s) == /\ Sources(s) # {}
                /\ Convertible(Chain(DetectKind(s))[First(s)], {s}) # {}

\* A batch that found something in the cache does not fail, whatever the
\* upstreams do meanwhile, unless a symbol of it has no provider at all.
HitsKeepTheBatch ==
  result = "failed" =>
    \/ sink = {}
    \/ \E s \in missing : Chain(DetectKind(s)) = <<>>

\* Asked for alone, a symbol is returned by the batch exactly when GetPrice
\* would return it: from the cache, or because it can be had.
AloneLikeGetPrice ==
  \A s \in Symbols :
    (wanted = {s} /\ steady /\ Over) =>
      (s \in sink <=> s \notin missing \/ Available(s))

\* A symbol GetPrice would return is missing from a batch that did not fail
\* only when static was asked for it together with another symbol of its kind, one
\* that static has: that is the one provider that may leave symbols out.
DroppedOnlyBehindStatic ==
  \A s \in wanted \ sink :
    (result = "returned" /\ steady /\ Available(s)) =>
      \E other \in (missing \cap Serves("static")) \ {s} :
        DetectKind(other) = DetectKind(s)

\* What the call amounts to for one kind, in one formula: the first provider
\* that answers the batch settles it, else each symbol is on its own.
Answering(k) == {n \in 1..Len(Chain(k)) : BatchCallOf(Chain(k)[n], k) # {}}
KindResult(k) ==
  IF Answering(k) = {}
    THEN {s \in Missing(k) : Available(s)}
    ELSE LET n == CHOOSE n \in Answering(k) : \A m \in Answering(k) : n <= m
         IN  Convertible(Chain(k)[n], BatchCallOf(Chain(k)[n], k))

\* The random order in which Go visits the kinds can decide whether the call
\* fails, never which prices a call that does not fail returns.
OrderDoesNotShow ==
  (result = "returned" /\ steady) =>
    sink = (wanted \ missing) \cup UNION {KindResult(k) : k \in Kinds}

\* The call ends, however the upstreams flap.
BatchEnds == <>Over

-----------------------------------------------------------------------------
\* What the comments and documents say and the code does not do.

\* "Fallback to per-symbol fetch to salvage partial data" (service.go:257): a
\* batch whose symbols all have providers fails only when none can be had.
SalvagesPartialData ==
  (result = "failed" /\ steady /\ \A s \in wanted : Chain(DetectKind(s)) # <<>>)
    => \A s \in wanted : ~Available(s)
=============================================================================
