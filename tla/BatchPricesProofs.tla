-------------------------- MODULE BatchPricesProofs --------------------------
(***************************************************************************)
(* Proofs about BatchPrices, for batches of any size over any part of the  *)
(* catalogue.                                                              *)
(*                                                                         *)
(* That a batch with a cache hit survives needs to know where the kinds of *)
(* a call come from (CallInv).  That a symbol asked for alone fares as in  *)
(* GetPrice is proved along the loop over the providers: those already     *)
(* asked do not have it (AloneInv).                                        *)
(*                                                                         *)
(* That the order of the kinds does not show follows from what each kind   *)
(* amounts to on its own, which is a function of the upstreams: OrderInv   *)
(* says how much of it the sink holds while the kinds are visited.  The    *)
(* calls a batch may still make are counted at the end (CallsLeft): what   *)
(* its liveness rests on, fairness apart.                                  *)
(***************************************************************************)
EXTENDS BatchPrices, FiniteSetTheorems, TLAPS

\* The kinds of a call are those of its missing symbols, and between two kinds
\* nothing is left to try.
KindsOfMissing == {DetectKind(s) : s \in missing}

CallInv ==
  /\ result = "new" => sink = {} /\ kind = NoKind /\ left = {}
  /\ result # "new" => wanted \subseteq sink \cup missing
  /\ todo \subseteq KindsOfMissing
  /\ kind = NoKind => left = {}
  /\ kind # NoKind => kind \in KindsOfMissing
  /\ left # {} => kind # NoKind /\ left \subseteq Missing(kind)

\* A symbol that is the whole batch, is not cached and has not been obtained:
\* its kind is still to come; or the providers asked so far do not have it; or
\* none has it; or the answer is that it cannot be had.
AloneInv ==
  \A s \in Symbols : (wanted = {s} /\ steady /\ s \notin sink) =>
    /\ (result = "running" /\ kind # NoKind /\ left = {})
         => \A m \in Sources(s) : nth <= m
    /\ left # {} => Sources(s) = {}
    /\ (result = "running" /\ kind = NoKind)
         => DetectKind(s) \in todo \/ ~Available(s)
    /\ Over => ~Available(s)

IInv == TypeOK /\ CallInv /\ HitsKeepTheBatch /\ AloneInv

\* While no upstream changes, each kind has put into the sink what it amounts
\* to, once it is done, and nothing before it starts.  The kind under way: the
\* providers before the next one refused the batch; or they all did, and the
\* symbols no longer left are there when they can be had.
Got(k) == sink \cap Missing(k)
KindInv(k) ==
  /\ k \in todo => Got(k) = {}
  /\ k \notin todo /\ k # kind => Got(k) = KindResult(k)
  /\ k = kind /\ left = {} => Got(k) = {} /\ \A m \in Answering(k) : nth <= m
  /\ k = kind /\ left # {} => /\ Answering(k) = {}
                             /\ Got(k) = KindResult(k) \ left
                             /\ \A m \in Sources(Turn) : nth <= m

OrderInv ==
  /\ kind \notin todo
  /\ result = "returned" => todo = {} /\ kind = NoKind
  /\ steady /\ result \in {"running", "returned"} =>
       /\ wanted \ missing \subseteq sink
       /\ \A k \in Kinds : KindInv(k)

FullInv == IInv /\ OrderInv

\* The calls of providers that a batch may still make, each kind to come asking
\* every provider for its part of the batch and then for each of its symbols.
ToCome == {s \in missing : DetectKind(s) \in todo}
InKind == IF kind = NoKind THEN 0
          ELSE IF left = {} THEN Longest * (Cardinality(Missing(kind)) + 1) - (nth - 1)
          ELSE Longest * Cardinality(left) - (nth - 1)
CallsLeft == Longest * (Cardinality(ToCome) + Cardinality(todo)) + InKind
MostCalls == Longest * (Cardinality(missing) + Cardinality(KindsOfMissing))

ProviderCall == \/ BatchAnswered  \/ BatchAnsweredInPart \/ BatchRefused
                \/ SymbolAnswered \/ SymbolRefused
CallsInv == result = "running" => CallsLeft <= MostCalls
CallsFall == /\ ProviderCall => CallsLeft' < CallsLeft
             /\ result = "running" => CallsLeft' <= CallsLeft

-----------------------------------------------------------------------------
LEMMA KindOfSymbol == \A s : DetectKind(s) \in Kinds
BY DEF DetectKind, Kinds

LEMMA ChainFacts ==
  ASSUME NEW k \in Kinds
  PROVE  /\ Len(Chain(k)) \in Nat
         /\ Chain(k) = <<>> <=> Len(Chain(k)) = 0
         /\ \A n \in 1..Len(Chain(k)) : Chain(k)[n] \in Providers
BY ChainAssumption

\* No provider answers with what it was not asked for.
LEMMA AnswersFit ==
  ASSUME NEW p, NEW k
  PROVE  /\ BatchCallOf(p, k) \subseteq Missing(k)
         /\ Missing(k) \subseteq missing
         /\ \A symbols : Convertible(p, symbols) \subseteq symbols
BY DEF BatchCallOf, BatchOf, Missing, Convertible

\* The first source of a symbol is the one before which there is none.
LEMMA FirstSource ==
  ASSUME NEW s, NEW n \in Sources(s), \A m \in Sources(s) : n <= m
  PROVE  First(s) = n
<1>1. Sources(s) \subseteq Int
  BY DEF Sources
<1>2. /\ First(s) \in Sources(s)
      /\ \A m \in Sources(s) : First(s) <= m
  BY DEF First
<1> QED
  BY <1>1, <1>2

\* Upstreams that stay as they are leave what can be had as it is.
LEMMA SameUpstream ==
  ASSUME NEW s, UNCHANGED <<up, fxUp>>
  PROVE  Sources(s)' = Sources(s) /\ (Available(s)' <=> Available(s))
<1>1. Sources(s)' = Sources(s)
  BY DEF Sources
<1>2. First(s)' = First(s)
  BY <1>1 DEF First
<1> QED
  BY <1>1, <1>2 DEF Available, Convertible

\* In a batch of one symbol that is not in the sink, everything is about it.
LEMMA AloneFacts ==
  ASSUME TypeOK, CallInv, NEW s \in Symbols, wanted = {s}, s \notin sink,
         result # "new"
  PROVE  /\ missing = {s}
         /\ todo \subseteq {DetectKind(s)}
         /\ left \subseteq {s}
         /\ kind # NoKind => kind = DetectKind(s) /\ Missing(kind) = {s}
BY DEF TypeOK, CallInv, KindsOfMissing, Missing

\* The provider asked for it answers exactly when it is a source of the symbol.
LEMMA AskedIsSource ==
  ASSUME TypeOK, CallInv, NEW s \in Symbols, wanted = {s}, s \notin sink,
         Running, kind # NoKind
  PROVE  /\ nth \in 1..Len(Chain(DetectKind(s)))
         /\ (Asked \in up /\ s \in Serves(Asked)) <=> nth \in Sources(s)
         /\ BatchCall(Asked) = IF nth \in Sources(s) THEN {s} ELSE {}
<1>1. kind = DetectKind(s) /\ Missing(kind) = {s}
  BY AloneFacts DEF Running
<1>2. nth \in 1..Len(Chain(DetectKind(s)))
  BY <1>1 DEF TypeOK
<1>3. (Asked \in up /\ s \in Serves(Asked)) <=> nth \in Sources(s)
  BY <1>1, <1>2 DEF Sources, Asked
<1>4. BatchCall(Asked) = IF Asked \in up /\ s \in Serves(Asked) THEN {s} ELSE {}
  BY <1>1 DEF BatchCall, BatchCallOf, BatchOf
<1> QED
  BY <1>2, <1>3, <1>4

\* What TypeOK says of a price obtained.
LEMMA ObtainedFits ==
  ASSUME TypeOK, NEW got \in SUBSET missing, Obtained(got), UNCHANGED wanted
  PROVE  /\ cache' \subseteq wanted' /\ sink' \subseteq cache'
         /\ sink \subseteq sink'
BY DEF TypeOK, Obtained

-----------------------------------------------------------------------------
\* The steps before and between the kinds.
LEMMA ScanKeeps == ASSUME IInv, Scan
                   PROVE  IInv'
<1> USE DEF Scan, upstream
<1>1. TypeOK'
  BY KindOfSymbol DEF IInv, TypeOK, CallInv
<1>2. CallInv'
  BY DEF IInv, TypeOK, CallInv, KindsOfMissing
<1>3. HitsKeepTheBatch'
  BY DEF HitsKeepTheBatch
<1>4. AloneInv'
  BY DEF IInv, CallInv, AloneInv, Over
<1> QED
  BY <1>1, <1>2, <1>3, <1>4 DEF IInv

LEMMA NoProvidersKeeps == ASSUME IInv, NEW k \in Kinds, NoProviders(k)
                          PROVE  IInv'
<1> USE DEF NoProviders, upstream, Running
<1>1. TypeOK'
  BY DEF IInv, TypeOK
<1>2. CallInv'
  BY DEF IInv, CallInv, KindsOfMissing, Missing
<1>3. HitsKeepTheBatch'
  BY DEF IInv, CallInv, KindsOfMissing, HitsKeepTheBatch
<1>4. AloneInv'
  <2> SUFFICES ASSUME NEW s \in Symbols, wanted = {s}, s \notin sink
               PROVE  Sources(s) = {} /\ left = {}
    BY DEF AloneInv, Over, Available, Sources, Convertible
  <2>1. DetectKind(s) = k
    BY AloneFacts DEF IInv
  <2>2. Len(Chain(k)) = 0
    BY ChainFacts
  <2> QED
    BY <2>1, <2>2 DEF Sources, IInv, CallInv
<1> QED
  BY <1>1, <1>2, <1>3, <1>4 DEF IInv

LEMMA StartKindKeeps == ASSUME IInv, NEW k \in Kinds, StartKind(k)
                        PROVE  IInv'
<1> USE DEF StartKind, upstream, Running
<1>1. TypeOK'
  BY ChainFacts DEF IInv, TypeOK
<1>2. CallInv' /\ left = {}
  BY DEF IInv, CallInv, KindsOfMissing, Kinds, NoKind
<1>3. HitsKeepTheBatch'
  BY DEF HitsKeepTheBatch
<1>4. AloneInv'
  BY <1>2 DEF AloneInv, Over, Sources, Kinds, NoKind
<1> QED
  BY <1>1, <1>2, <1>3, <1>4 DEF IInv

LEMMA ReturnKeeps == ASSUME IInv, Return
                     PROVE  IInv'
<1> USE DEF Return, upstream, Running
<1>1. TypeOK'
  BY DEF IInv, TypeOK
<1>2. CallInv'
  BY DEF IInv, CallInv, KindsOfMissing, Missing
<1>3. HitsKeepTheBatch'
  BY DEF HitsKeepTheBatch
<1>4. AloneInv'
  BY SameUpstream DEF IInv, AloneInv, CallInv, Over
<1> QED
  BY <1>1, <1>2, <1>3, <1>4 DEF IInv

-----------------------------------------------------------------------------
\* A provider answers the batch, wholly or in part.
LEMMA BatchAnsweredKeeps ==
  ASSUME IInv, BatchAnswered \/ BatchAnsweredInPart
  PROVE  IInv'
<1>1. PICK got \in SUBSET BatchCall(Asked) :
        /\ Obtained(got)
        /\ steady' => /\ UNCHANGED <<up, fxUp>> /\ steady
                      /\ got = Convertible(Asked, BatchCall(Asked))
  BY AnswersFit DEF BatchAnswered, BatchAnsweredInPart, upstream
<1>2. /\ Running /\ kind # NoKind /\ left = {}
      /\ BatchCall(Asked) # {}
      /\ KindDone /\ UNCHANGED <<wanted, missing, todo, result, up>>
      /\ fxUp' \in BOOLEAN /\ steady' \in BOOLEAN
  BY DEF BatchAnswered, BatchAnsweredInPart, Batching, upstream, IInv, TypeOK
<1>3. TypeOK /\ CallInv /\ got \subseteq missing
  BY <1>1, AnswersFit DEF IInv, BatchCall
<1>4. TypeOK'
  BY <1>1, <1>2, <1>3, ObtainedFits DEF TypeOK, KindDone
<1>5. CallInv'
  BY <1>1, <1>2, <1>3 DEF CallInv, KindsOfMissing, KindDone, Running, Obtained
<1>6. HitsKeepTheBatch'
  BY <1>2 DEF HitsKeepTheBatch, Running
<1>7. AloneInv'
  <2> SUFFICES ASSUME NEW s \in Symbols, wanted = {s}, steady', s \notin sink'
               PROVE  ~Available(s)
    BY <1>1, <1>2, SameUpstream DEF AloneInv, Over, KindDone, Running
  <2>1. steady /\ s \notin sink /\ s \notin Convertible(Asked, BatchCall(Asked))
    BY <1>1 DEF Obtained
  <2>2. nth \in Sources(s) /\ BatchCall(Asked) = {s}
    BY <1>2, <1>3, <2>1, AskedIsSource
  <2>3. \A m \in Sources(s) : nth <= m
    BY <1>2, <2>1 DEF IInv, AloneInv, Running
  <2>4. First(s) = nth
    BY <2>2, <2>3, FirstSource
  <2>5. Chain(DetectKind(s))[First(s)] = Asked
    BY <1>2, <1>3, <2>1, <2>4, AloneFacts DEF Asked, Running
  <2> QED
    BY <2>1, <2>2, <2>5 DEF Available, Convertible
<1> QED
  BY <1>4, <1>5, <1>6, <1>7 DEF IInv

\* A provider refuses the batch: the next one is asked, or each symbol is on
\* its own.
LEMMA BatchRefusedKeeps == ASSUME IInv, BatchRefused
                           PROVE  IInv'
<1>1. /\ Running /\ kind # NoKind /\ left = {}
      /\ BatchCall(Asked) = {}
      /\ UNCHANGED <<wanted, cache, sink, missing, todo, kind, result, upstream>>
      /\ \/ nth < Len(Chain(kind)) /\ nth' = nth + 1 /\ left' = left
         \/ ~(nth < Len(Chain(kind))) /\ nth' = 1 /\ left' = Missing(kind)
  BY DEF BatchRefused, Batching
<1>2. /\ TypeOK /\ CallInv /\ kind \in Kinds
      /\ nth \in 1..Len(Chain(kind)) /\ Len(Chain(kind)) \in Nat
  BY <1>1, ChainFacts DEF IInv, TypeOK
<1>3. TypeOK'
  BY <1>1, <1>2 DEF TypeOK, upstream, Missing
<1>4. CallInv'
  BY <1>1, <1>2 DEF CallInv, KindsOfMissing, Running, Missing
<1>5. HitsKeepTheBatch'
  BY <1>1 DEF HitsKeepTheBatch, Running
<1>6. AloneInv'
  <2> SUFFICES ASSUME NEW s \in Symbols, wanted = {s}, steady, s \notin sink
               PROVE  /\ left' = {} => \A m \in Sources(s) : nth' <= m
                      /\ left' # {} => Sources(s) = {}
    BY <1>1 DEF AloneInv, Over, Running, upstream, Sources
  <2>1. /\ kind = DetectKind(s) /\ Missing(kind) = {s}
        /\ nth \notin Sources(s)
    BY <1>1, <1>2, AloneFacts, AskedIsSource DEF Running
  <2>2. \A m \in Sources(s) : nth <= m
    BY <1>1 DEF IInv, AloneInv, Running
  <2>3. \A m \in Sources(s) : m \in 1..Len(Chain(kind)) /\ nth < m
    BY <1>2, <2>1, <2>2 DEF Sources
  <2> QED
    BY <1>1, <1>2, <2>1, <2>3
<1> QED
  BY <1>3, <1>4, <1>5, <1>6 DEF IInv

\* A symbol on its own is obtained, or given up after its last provider; after
\* the last symbol an empty sink fails the call.
LEMMA TurnEnds ==
  ASSUME IInv, Salvaging, NEW got \in SUBSET {Turn}, AfterTurn(got),
         UNCHANGED <<wanted, missing, todo, upstream>>,
         \A s \in Symbols : (wanted = {s} /\ steady /\ s \notin sink /\ left # {})
                              => Sources(s) = {}
  PROVE  IInv'
<1>1. /\ Running /\ left # {} /\ Turn \in left /\ kind # NoKind
      /\ left \subseteq Missing(kind) /\ Missing(kind) \subseteq missing
  BY AnswersFit DEF Salvaging, Turn, IInv, CallInv
<1>2. TypeOK /\ CallInv /\ kind \in Kinds
      /\ got \subseteq missing /\ Obtained(got)
  BY <1>1 DEF IInv, TypeOK, AfterTurn
<1>3. \/ /\ left' = left \ {Turn} /\ left' # {} /\ nth' = 1
         /\ UNCHANGED <<kind, result>>
      \/ /\ KindDone
         /\ result' = IF sink \cup got = {} THEN "failed" ELSE result
  BY <1>1 DEF AfterTurn
<1>4. TypeOK'
  <2>1. nth \in 1..Len(Chain(kind)) /\ Len(Chain(kind)) \in Nat
    BY <1>1, <1>2, ChainFacts DEF TypeOK
  <2>2. /\ cache' \subseteq wanted' /\ sink' \subseteq cache'
    BY <1>2, ObtainedFits
  <2>3. /\ left' \subseteq wanted' /\ kind' \in Kinds \cup {NoKind}
        /\ kind' # NoKind => nth' \in 1..Len(Chain(kind'))
        /\ result' \in {"new", "running", "returned", "failed"}
    BY <1>1, <1>2, <1>3, <2>1 DEF TypeOK, KindDone
  <2> QED
    BY <1>2, <2>2, <2>3 DEF TypeOK, upstream
<1>5. CallInv'
  BY <1>1, <1>2, <1>3
     DEF CallInv, KindsOfMissing, KindDone, Running, Obtained, Missing
<1>6. HitsKeepTheBatch'
  BY <1>1, <1>2, <1>3 DEF HitsKeepTheBatch, Running, Obtained
<1>7. AloneInv'
  <2> SUFFICES ASSUME NEW s \in Symbols, wanted = {s}, steady, s \notin sink'
               PROVE  Sources(s) = {} /\ (left' # {} \/ kind' = NoKind)
    BY <1>1, SameUpstream DEF AloneInv, Over, Available, upstream
  <2>1. s \notin sink
    BY <1>2 DEF Obtained
  <2> QED
    BY <1>1, <1>3, <2>1 DEF KindDone
<1> QED
  BY <1>4, <1>5, <1>6, <1>7 DEF IInv

LEMMA SymbolTried == ASSUME IInv, SymbolAnswered \/ SymbolRefused
                     PROVE  IInv'
<1>1. /\ Salvaging /\ UNCHANGED <<wanted, missing, todo, upstream>>
      /\ \A s \in Symbols : (wanted = {s} /\ steady /\ s \notin sink /\ left # {})
                              => Sources(s) = {}
  BY DEF SymbolAnswered, SymbolRefused, IInv, AloneInv
<1>2. CASE SymbolAnswered
  BY <1>1, <1>2, AnswersFit, TurnEnds DEF SymbolAnswered
<1>3. CASE SymbolRefused /\ AfterTurn({})
  BY <1>1, <1>3, TurnEnds
<1>4. CASE nth < Len(Chain(kind)) /\ nth' = nth + 1
           /\ UNCHANGED <<cache, sink, kind, left, result>>
  <2>1. /\ TypeOK /\ CallInv /\ left # {} /\ kind \in Kinds /\ kind # NoKind
        /\ nth \in 1..Len(Chain(kind)) /\ Len(Chain(kind)) \in Nat
    BY <1>1, ChainFacts DEF Salvaging, IInv, TypeOK, CallInv
  <2>2. TypeOK'
    BY <1>1, <1>4, <2>1 DEF TypeOK, upstream
  <2>3. CallInv'
    BY <1>1, <1>4, <2>1 DEF CallInv, KindsOfMissing, Missing
  <2>4. HitsKeepTheBatch'
    BY <1>1, <1>4 DEF HitsKeepTheBatch, Salvaging, Running
  <2>5. AloneInv'
    <3> SUFFICES ASSUME NEW s \in Symbols, wanted = {s}, steady, s \notin sink
                 PROVE  Sources(s)' = {}
      BY <1>1, <1>4, <2>1 DEF AloneInv, Over, Salvaging, Running, upstream
    <3> QED
      BY <1>1, <2>1, SameUpstream DEF upstream
  <2> QED
    BY <2>2, <2>3, <2>4, <2>5 DEF IInv
<1> QED
  BY <1>2, <1>3, <1>4 DEF SymbolRefused

\* An upstream that changes ends what is said of steady ones.
LEMMA FlapKeeps == ASSUME IInv, Flap
                   PROVE  IInv'
<1>1. UNCHANGED callVars /\ ~steady' /\ steady' \in BOOLEAN /\ fxUp' \in BOOLEAN
      /\ up' \subseteq Providers
  BY DEF Flap, IInv, TypeOK
<1>2. TypeOK'
  BY <1>1 DEF IInv, TypeOK, callVars
<1>3. CallInv' /\ HitsKeepTheBatch' /\ AloneInv'
  BY <1>1 DEF IInv, CallInv, HitsKeepTheBatch, AloneInv, callVars,
              KindsOfMissing, Missing
<1> QED
  BY <1>2, <1>3 DEF IInv

-----------------------------------------------------------------------------
LEMMA InitIInv == Init => IInv
BY DEF Init, IInv, TypeOK, CallInv, HitsKeepTheBatch, AloneInv, KindsOfMissing,
       Over

LEMMA NextIInv == IInv /\ [Next]_vars => IInv'
<1> SUFFICES ASSUME IInv, [Next]_vars
             PROVE  IInv'
  OBVIOUS
<1>1. CASE Scan \/ Return \/ \E k \in Kinds : NoProviders(k) \/ StartKind(k)
  BY <1>1, ScanKeeps, ReturnKeeps, NoProvidersKeeps, StartKindKeeps
<1>2. CASE BatchAnswered \/ BatchAnsweredInPart \/ BatchRefused
  BY <1>2, BatchAnsweredKeeps, BatchRefusedKeeps
<1>3. CASE SymbolAnswered \/ SymbolRefused
  BY <1>3, SymbolTried
<1>4. CASE Flap
  BY <1>4, FlapKeeps
<1>5. CASE UNCHANGED vars
  <2>1. UNCHANGED <<callVars, up, fxUp, steady>>
    BY <1>5 DEF vars, upstream
  <2>2. TypeOK' /\ CallInv' /\ HitsKeepTheBatch'
    BY <2>1 DEF IInv, TypeOK, CallInv, HitsKeepTheBatch, callVars,
                KindsOfMissing, Missing
  <2>3. AloneInv'
    BY <2>1, SameUpstream DEF IInv, AloneInv, callVars, Over
  <2> QED
    BY <2>2, <2>3 DEF IInv
<1> QED
  BY <1>1, <1>2, <1>3, <1>4, <1>5 DEF Next, Serve, Finished

LEMMA IInvHolds == Spec => []IInv
<1> QED
  BY InitIInv, NextIInv, PTL DEF Spec

-----------------------------------------------------------------------------
\* What a kind amounts to, whenever it is fetched.

\* The provider that settles a kind is the first that answers its batch.
LEMMA FirstAnswer ==
  ASSUME NEW k, NEW n \in Answering(k), \A m \in Answering(k) : n <= m
  PROVE  KindResult(k) = Convertible(Chain(k)[n], BatchCallOf(Chain(k)[n], k))
<1> DEFINE f == CHOOSE i \in Answering(k) : \A m \in Answering(k) : i <= m
<1>1. Answering(k) \subseteq Int
  BY DEF Answering
<1>2. f \in Answering(k) /\ \A m \in Answering(k) : f <= m
  OBVIOUS
<1>3. f = n
  BY <1>1, <1>2
<1>4. KindResult(k) = Convertible(Chain(k)[f], BatchCallOf(Chain(k)[f], k))
  BY <1>2 DEF KindResult
<1> QED
  BY <1>3, <1>4

\* Where none answers, what can be had of its symbols one by one.
LEMMA NoAnswer ==
  ASSUME NEW k, Answering(k) = {}
  PROVE  KindResult(k) = {s \in Missing(k) : Available(s)}
BY DEF KindResult

\* Upstreams and missing symbols that stay leave a kind what it amounts to.
LEMMA SameKinds ==
  ASSUME NEW k, UNCHANGED <<up, fxUp, missing>>
  PROVE  /\ Missing(k)' = Missing(k)
         /\ Answering(k)' = Answering(k)
         /\ KindResult(k)' = KindResult(k)
<1>1. Missing(k)' = Missing(k)
  BY DEF Missing
<1>2. \A p : BatchCallOf(p, k)' = BatchCallOf(p, k)
  BY <1>1 DEF BatchCallOf
<1>3. Answering(k)' = Answering(k)
  BY <1>2 DEF Answering
<1>4. {s \in Missing(k) : Available(s)}' = {s \in Missing(k) : Available(s)}
  BY <1>1, SameUpstream
<1>5. \A p : Convertible(p, BatchCallOf(p, k))' = Convertible(p, BatchCallOf(p, k))
  BY <1>2 DEF Convertible
<1> QED
  BY <1>1, <1>3, <1>4, <1>5 DEF KindResult

\* A step on one kind that leaves the rest of the call alone leaves what is
\* said of the other kinds.
LEMMA OtherKindsStay ==
  ASSUME NEW k, NEW j, j # k, kind \in {k, NoKind}, kind' \in {k, NoKind},
         j # NoKind, KindInv(j), UNCHANGED <<up, fxUp, missing>>,
         j \in todo' <=> j \in todo,
         NEW got \in SUBSET Missing(k), sink' = sink \cup got
  PROVE  KindInv(j)'
<1>1. Missing(j) \cap Missing(k) = {}
  BY DEF Missing
<1>2. Got(j)' = Got(j)
  BY <1>1, SameKinds DEF Got
<1>3. KindResult(j)' = KindResult(j)
  BY SameKinds
<1> QED
  BY <1>2, <1>3 DEF KindInv

-----------------------------------------------------------------------------
\* OrderInv is kept, one step at a time.
LEMMA ScanOrders == ASSUME FullInv, Scan
                    PROVE  OrderInv'
<1>1. /\ sink' = wanted \cap cache /\ missing' = wanted \ cache
      /\ todo' = {DetectKind(s) : s \in wanted \ cache}
      /\ kind' = NoKind /\ result' = "running" /\ UNCHANGED <<wanted, up, fxUp>>
  BY DEF Scan, FullInv, IInv, CallInv, upstream
<1>2. todo' \subseteq Kinds /\ NoKind \notin Kinds
  BY <1>1, KindOfSymbol DEF Kinds, NoKind
<1>3. ASSUME NEW k \in Kinds
      PROVE  KindInv(k)'
  <2>1. Got(k)' = {}
    BY <1>1 DEF Got, Missing
  <2>2. CASE k \in todo'
    BY <1>1, <1>2, <2>1, <2>2 DEF KindInv
  <2>3. CASE k \notin todo'
    <3>1. Missing(k)' = {}
      BY <1>1, <2>3 DEF Missing
    <3>2. Answering(k)' = {}
      BY <3>1 DEF Answering, BatchCallOf, BatchOf
    <3>3. KindResult(k)' = {}
      BY <3>1, <3>2 DEF KindResult
    <3> QED
      BY <1>1, <1>2, <2>1, <2>3, <3>3 DEF KindInv
  <2> QED
    BY <2>2, <2>3
<1> QED
  BY <1>1, <1>2, <1>3 DEF OrderInv

LEMMA StartKindOrders == ASSUME FullInv, NEW k \in Kinds, StartKind(k)
                         PROVE  OrderInv'
<1>1. /\ kind = NoKind /\ k \in todo /\ kind' = k /\ todo' = todo \ {k}
      /\ nth' = 1 /\ left = {} /\ left' = {} /\ result = "running"
      /\ UNCHANGED <<wanted, sink, missing, left, result, up, fxUp, steady>>
  BY DEF StartKind, Running, FullInv, IInv, CallInv, upstream
<1> SUFFICES ASSUME steady, NEW j \in Kinds
             PROVE  KindInv(j)'
  BY <1>1 DEF OrderInv, FullInv
<1>2. KindInv(j) /\ NoKind \notin Kinds
  BY <1>1 DEF FullInv, OrderInv, Kinds, NoKind
<1>3. Got(j)' = Got(j)
  BY <1>1, SameKinds DEF Got
<1>4. CASE j = k
  <2>1. \A m \in Answering(j)' : 1 <= m
    BY SameKinds, <1>1 DEF Answering
  <2> QED
    BY <1>1, <1>2, <1>3, <1>4, <2>1 DEF KindInv
<1>5. CASE j # k
  <2>1. KindResult(j)' = KindResult(j)
    BY <1>1, SameKinds
  <2> QED
    BY <1>1, <1>2, <1>3, <1>5, <2>1 DEF KindInv
<1> QED
  BY <1>4, <1>5

LEMMA ReturnOrders == ASSUME FullInv, Return
                      PROVE  OrderInv'
<1>1. /\ kind = NoKind /\ todo = {} /\ result = "running" /\ result' = "returned"
      /\ UNCHANGED <<wanted, sink, missing, todo, kind, left, nth, up, fxUp, steady>>
  BY DEF Return, Running, upstream
<1> SUFFICES ASSUME steady, NEW j \in Kinds
             PROVE  KindInv(j)'
  BY <1>1 DEF OrderInv, FullInv
<1>2. KindInv(j) /\ NoKind \notin Kinds
  BY <1>1 DEF FullInv, OrderInv, Kinds, NoKind
<1>3. Got(j)' = Got(j) /\ KindResult(j)' = KindResult(j)
  BY <1>1, SameKinds DEF Got
<1> QED
  BY <1>1, <1>2, <1>3 DEF KindInv

\* The provider that is asked for a batch answers exactly when it is one that
\* answers.
LEMMA AskedAnswers ==
  ASSUME IInv, Running, kind # NoKind
  PROVE  /\ kind \in Kinds /\ nth \in 1..Len(Chain(kind)) /\ nth \in Int
         /\ Len(Chain(kind)) \in Nat
         /\ BatchCall(Asked) # {} <=> nth \in Answering(kind)
<1>1. kind \in Kinds /\ nth \in 1..Len(Chain(kind)) /\ Len(Chain(kind)) \in Nat
  BY ChainFacts DEF IInv, TypeOK
<1> QED
  BY <1>1 DEF Answering, BatchCall, Asked

LEMMA BatchAnsweredOrders == ASSUME FullInv, BatchAnswered
                             PROVE  OrderInv'
<1>0. PICK k, got : k = kind /\ got = Convertible(Asked, BatchCall(Asked))
  OBVIOUS
<1>1. /\ Running /\ kind = k /\ k # NoKind /\ left = {} /\ BatchCall(Asked) # {}
      /\ sink' = sink \cup got /\ kind' = NoKind /\ left' = {}
      /\ UNCHANGED <<wanted, missing, todo, result, up, fxUp, steady>>
  BY <1>0 DEF BatchAnswered, Batching, Obtained, KindDone, upstream
<1>2. k \in Kinds /\ nth \in Answering(k) /\ got \subseteq Missing(k)
  BY <1>0, <1>1, AskedAnswers, AnswersFit DEF FullInv, BatchCall
<1>3. NoKind \notin Kinds /\ todo \subseteq Kinds
  BY DEF Kinds, NoKind, FullInv, IInv, TypeOK
<1> SUFFICES ASSUME steady, NEW j \in Kinds
             PROVE  KindInv(j)'
  BY <1>1, <1>3 DEF OrderInv, FullInv, Running
<1>4. KindInv(j) /\ j # NoKind /\ k \notin todo
  BY <1>1, <1>3 DEF FullInv, OrderInv, Running
<1>5. CASE j = k
  <2>1. \A m \in Answering(k) : nth <= m
    BY <1>1, <1>4, <1>5 DEF KindInv
  <2>2. KindResult(k) = got
    BY <1>0, <1>2, <2>1, FirstAnswer DEF Asked, BatchCall
  <2>3. KindResult(k)' = KindResult(k) /\ Missing(k)' = Missing(k)
    BY <1>1, SameKinds
  <2>4. Got(k)' = got
    BY <1>1, <1>2, <1>4, <1>5, <2>3 DEF KindInv, Got
  <2> QED
    BY <1>1, <1>2, <1>4, <1>5, <2>2, <2>3, <2>4 DEF KindInv
<1>6. CASE j # k
  BY <1>1, <1>2, <1>4, <1>6, OtherKindsStay
<1> QED
  BY <1>5, <1>6

LEMMA BatchRefusedOrders == ASSUME FullInv, BatchRefused
                            PROVE  OrderInv'
<1>1. /\ Running /\ kind # NoKind /\ left = {} /\ BatchCall(Asked) = {}
      /\ UNCHANGED <<wanted, sink, missing, todo, kind, result, up, fxUp, steady>>
      /\ \/ nth < Len(Chain(kind)) /\ nth' = nth + 1 /\ left' = {}
         \/ ~(nth < Len(Chain(kind))) /\ nth' = 1 /\ left' = Missing(kind)
  BY DEF BatchRefused, Batching, upstream
<1>2. /\ kind \in Kinds /\ nth \in 1..Len(Chain(kind)) /\ nth \in Int
      /\ Len(Chain(kind)) \in Nat /\ nth \notin Answering(kind)
  BY <1>1, AskedAnswers DEF FullInv
<1> SUFFICES ASSUME steady, NEW j \in Kinds
             PROVE  KindInv(j)'
  BY <1>1 DEF OrderInv, FullInv, Running
<1>3. KindInv(j)
  BY <1>1 DEF FullInv, OrderInv, Running
<1>4. /\ Got(j)' = Got(j) /\ KindResult(j)' = KindResult(j)
      /\ Answering(j)' = Answering(j)
  BY <1>1, SameKinds DEF Got
<1>5. CASE j # kind
  BY <1>1, <1>3, <1>4, <1>5 DEF KindInv
<1>6. CASE j = kind
  <2>1. /\ j \notin todo /\ Got(j) = {}
        /\ \A m \in Answering(j) : m \in 1..Len(Chain(kind)) /\ nth < m
    <3>1. \A m \in Answering(j) : m \in 1..Len(Chain(kind)) /\ nth <= m
      BY <1>1, <1>3, <1>6 DEF KindInv, Answering
    <3> QED
      BY <1>1, <1>2, <1>3, <1>6, <3>1 DEF KindInv, FullInv, OrderInv
  <2>2. CASE left' = {}
    <3>1. \A m \in Answering(j) : nth' <= m
      <4>1. CASE nth < Len(Chain(kind)) /\ nth' = nth + 1
        BY <1>2, <2>1, <4>1
      <4>2. CASE Missing(kind) = {}
        BY <1>6, <4>2, AnswersFit DEF Answering
      <4> QED
        BY <1>1, <2>2, <4>1, <4>2
    <3> QED
      BY <1>1, <1>4, <1>6, <2>1, <2>2, <3>1 DEF KindInv
  <2>3. CASE left' # {}
    <3>1. left' = Missing(j) /\ nth' = 1 /\ Answering(j) = {}
      BY <1>1, <1>2, <1>6, <2>1, <2>3
    <3>2. KindResult(j) \subseteq Missing(j)
      BY <3>1, NoAnswer
    <3>3. \A m \in Sources(Turn)' : nth' <= m
      BY <3>1 DEF Sources
    <3> QED
      BY <1>1, <1>4, <1>6, <2>1, <2>3, <3>1, <3>2, <3>3 DEF KindInv
  <2> QED
    BY <2>2, <2>3
<1> QED
  BY <1>5, <1>6

\* A symbol on its own comes out of its turn with a price exactly when it can
\* be had.
LEMMA TurnOrders ==
  ASSUME FullInv, Salvaging, NEW got \in SUBSET {Turn}, AfterTurn(got),
         UNCHANGED <<wanted, missing, todo, upstream>>,
         steady => (Turn \in got <=> Available(Turn))
  PROVE  OrderInv'
<1>1. /\ kind \in Kinds /\ kind # NoKind /\ Running /\ Turn \in left
      /\ left \subseteq Missing(kind) /\ kind \notin todo
      /\ NoKind \notin Kinds /\ todo \subseteq Kinds
  BY DEF Salvaging, Turn, FullInv, OrderInv, IInv, CallInv, TypeOK, Kinds, NoKind
<1>2. PICK k : k = kind
  OBVIOUS
<1>3. /\ sink' = sink \cup got /\ got \in SUBSET Missing(k)
      /\ UNCHANGED <<wanted, missing, todo, up, fxUp, steady>>
      /\ \/ left' = left \ {Turn} /\ left' # {} /\ nth' = 1
            /\ kind' = k /\ result' = result
         \/ /\ kind' = NoKind /\ left = {Turn} /\ left' = {}
            /\ result' \in {"failed", result}
  BY <1>1, <1>2 DEF AfterTurn, Obtained, KindDone, upstream
<1> SUFFICES ASSUME steady, result' = "running", NEW j \in Kinds
             PROVE  KindInv(j)'
  BY <1>1, <1>2, <1>3 DEF OrderInv, FullInv, Running
<1>4. KindInv(j) /\ j # NoKind
  BY <1>1, <1>3 DEF FullInv, OrderInv, Running
<1>5. CASE j # k
  BY <1>2, <1>3, <1>4, <1>5, OtherKindsStay
<1>6. CASE j = k
  <2>1. /\ Answering(k) = {} /\ Got(k) = KindResult(k) \ left
        /\ KindResult(k) = {s \in Missing(k) : Available(s)}
    BY <1>1, <1>2, <1>4, <1>6, NoAnswer DEF KindInv
  <2>2. /\ Answering(k)' = {} /\ KindResult(k)' = KindResult(k)
        /\ Missing(k)' = Missing(k)
    BY <1>3, <2>1, SameKinds
  <2>3. Got(k)' = KindResult(k) \ (left \ {Turn})
    BY <1>1, <1>2, <1>3, <2>1, <2>2 DEF Got
  <2>4. CASE left' # {}
    <3>1. \A m \in Sources(Turn)' : nth' <= m
      BY <1>3, <2>4 DEF Sources
    <3> QED
      BY <1>1, <1>2, <1>3, <1>6, <2>2, <2>3, <2>4, <3>1 DEF KindInv
  <2>5. CASE left' = {}
    BY <1>1, <1>2, <1>3, <1>6, <2>2, <2>3, <2>5 DEF KindInv
  <2> QED
    BY <2>4, <2>5
<1> QED
  BY <1>5, <1>6

LEMMA SymbolOrders == ASSUME FullInv, SymbolAnswered \/ SymbolRefused
                      PROVE  OrderInv'
<1>1. /\ Salvaging /\ Running /\ left # {} /\ Turn \in left
      /\ UNCHANGED <<wanted, missing, todo, upstream>>
  BY DEF SymbolAnswered, SymbolRefused, Salvaging, Turn
<1>2. /\ kind \in Kinds /\ kind # NoKind /\ DetectKind(Turn) = kind
      /\ nth \in 1..Len(Chain(kind)) /\ Len(Chain(kind)) \in Nat
  BY <1>1, ChainFacts DEF FullInv, IInv, CallInv, TypeOK, Missing
<1>3. steady => \A m \in Sources(Turn) : nth <= m
  BY <1>1, <1>2 DEF FullInv, OrderInv, KindInv, Running
<1>4. (Asked \in up /\ Turn \in Serves(Asked)) <=> nth \in Sources(Turn)
  BY <1>2 DEF Sources, Asked
<1>5. CASE SymbolAnswered
  <2>1. steady => First(Turn) = nth
    BY <1>3, <1>4, <1>5, FirstSource DEF SymbolAnswered
  <2>2. steady =>
          (Turn \in Convertible(Asked, {Turn}) <=> Available(Turn))
    BY <1>2, <1>4, <1>5, <2>1 DEF SymbolAnswered, Available, Convertible, Asked
  <2> QED
    BY <1>1, <1>5, <2>2, AnswersFit, TurnOrders DEF SymbolAnswered
<1>6. CASE SymbolRefused /\ ~(nth < Len(Chain(kind)))
  <2>1. steady => Sources(Turn) = {}
    <3> SUFFICES ASSUME steady, NEW m \in Sources(Turn)
                 PROVE  FALSE
      OBVIOUS
    <3>1. m \in 1..Len(Chain(kind)) /\ nth <= m /\ nth # m
      BY <1>2, <1>3, <1>4, <1>6 DEF SymbolRefused, Sources
    <3> QED
      BY <1>2, <1>6, <3>1
  <2> QED
    BY <1>1, <1>6, <2>1, TurnOrders DEF SymbolRefused, Available
<1>7. CASE SymbolRefused /\ nth < Len(Chain(kind))
  <2>1. /\ nth' = nth + 1 /\ UNCHANGED <<sink, kind, left, result>>
        /\ UNCHANGED <<wanted, missing, todo, up, fxUp, steady>>
        /\ nth \notin Sources(Turn)
    BY <1>1, <1>4, <1>7 DEF SymbolRefused, upstream
  <2> SUFFICES ASSUME steady, NEW j \in Kinds
               PROVE  KindInv(j)'
    BY <1>1, <2>1 DEF OrderInv, FullInv, Running
  <2>2. KindInv(j)
    BY <1>1 DEF FullInv, OrderInv, Running
  <2>3. /\ Got(j)' = Got(j) /\ KindResult(j)' = KindResult(j)
        /\ Answering(j)' = Answering(j)
    BY <2>1, SameKinds DEF Got
  <2>4. \A m \in Sources(Turn)' : nth' <= m
    <3>1. Turn' = Turn /\ Sources(Turn)' = Sources(Turn)
      BY <2>1, SameUpstream DEF Turn, Sources
    <3>2. \A m \in Sources(Turn) : m \in Int /\ nth <= m /\ nth # m
      BY <1>3, <2>1 DEF Sources
    <3> QED
      BY <1>2, <2>1, <3>1, <3>2
  <2> QED
    BY <1>1, <2>1, <2>2, <2>3, <2>4 DEF KindInv
<1> QED
  BY <1>5, <1>6, <1>7

\* A step of the upstreams, and one of the call that follows a change.
LEMMA UnsteadyOrders ==
  ASSUME FullInv, Flap \/ BatchAnsweredInPart \/ (\E k \in Kinds : NoProviders(k))
  PROVE  OrderInv'
<1>1. NoKind \notin Kinds /\ todo \subseteq Kinds
  BY DEF Kinds, NoKind, FullInv, IInv, TypeOK
<1> QED
  BY <1>1 DEF FullInv, OrderInv, Flap, callVars, BatchAnsweredInPart, Batching,
              KindDone, Running, NoProviders

LEMMA InitFull == Init => FullInv
BY InitIInv DEF Init, FullInv, OrderInv

LEMMA NextFull == FullInv /\ [Next]_vars => FullInv'
<1> SUFFICES ASSUME FullInv, [Next]_vars
             PROVE  OrderInv'
  BY NextIInv DEF FullInv
<1>1. CASE Serve
  BY <1>1, ScanOrders, BatchAnsweredOrders, BatchRefusedOrders, SymbolOrders,
     ReturnOrders, StartKindOrders, UnsteadyOrders DEF Serve
<1>2. CASE Flap
  BY <1>2, UnsteadyOrders
<1>3. CASE UNCHANGED vars
  <2>1. UNCHANGED <<sink, missing, wanted, todo, kind, nth, left, result, up, fxUp,
                    steady>>
    BY <1>3 DEF vars, callVars, upstream
  <2> SUFFICES ASSUME NEW j \in Kinds, KindInv(j)
               PROVE  KindInv(j)'
    BY <2>1 DEF FullInv, OrderInv
  <2>2. /\ Got(j)' = Got(j) /\ KindResult(j)' = KindResult(j)
        /\ Answering(j)' = Answering(j)
    BY <2>1, SameKinds DEF Got
  <2>3. Sources(Turn)' = Sources(Turn)
    BY <2>1 DEF Turn, Sources
  <2> QED
    BY <2>1, <2>2, <2>3 DEF KindInv
<1> QED
  BY <1>1, <1>2, <1>3 DEF Next, Finished

LEMMA FullHolds == Spec => []FullInv
<1> QED
  BY InitFull, NextFull, PTL DEF Spec

-----------------------------------------------------------------------------
\* What an answer holds of a kind when no upstream has changed.
LEMMA WhatIsReturned ==
  ASSUME FullInv, result = "returned", steady
  PROVE  /\ sink = (wanted \ missing) \cup UNION {KindResult(k) : k \in Kinds}
         /\ \A k \in Kinds : sink \cap Missing(k) = KindResult(k)
<1>1. /\ todo = {} /\ kind = NoKind /\ NoKind \notin Kinds
      /\ wanted \ missing \subseteq sink /\ sink \subseteq wanted
  BY DEF FullInv, OrderInv, IInv, TypeOK, Kinds, NoKind
<1>2. \A k \in Kinds : sink \cap Missing(k) = KindResult(k)
  BY <1>1 DEF FullInv, OrderInv, KindInv, Got
<1>3. \A s \in sink \cap missing : s \in sink \cap Missing(DetectKind(s))
  BY DEF Missing
<1>4. \A s \in sink \cap missing : \E k \in Kinds : s \in KindResult(k)
  BY <1>2, <1>3, KindOfSymbol
<1>5. \A k \in Kinds : KindResult(k) \subseteq sink
  BY <1>2
<1> QED
  BY <1>1, <1>2, <1>4, <1>5

\* A set of numbers with a bound has a least one: the library's fact about
\* strict subsets, applied to the initial parts of the set.
LEMMA LeastElement ==
  ASSUME NEW N \in Nat, NEW S \in SUBSET (1..N), S # {}
  PROVE  \E n \in S : \A m \in S : n <= m
<1>1. \A n \in S : n \in Int
  OBVIOUS
<1>2. IsFiniteSet(S)
  <2>1. IsFiniteSet(1..N)
    BY FS_Interval
  <2> QED
    BY <2>1, FS_Subset
<1> DEFINE UpTo(n) == {m \in S : m <= n}
           T == {UpTo(n) : n \in S}
<1>3. T \subseteq FiniteSubsetsOf(S) /\ T # {}
  <2>1. FiniteSubsetsOf(S) = SUBSET S
    BY <1>2, FS_FiniteSubsetsOfFinite
  <2>2. \A n \in S : UpTo(n) \subseteq S
    OBVIOUS
  <2>3. T # {}
    OBVIOUS
  <2>4. T \subseteq SUBSET S
    <3> SUFFICES ASSUME NEW n \in S
                 PROVE  UpTo(n) \in SUBSET S
      OBVIOUS
    <3> QED
      BY <2>2
  <2> QED
    BY <2>1, <2>3, <2>4
<1>4. PICK x \in T : \A y \in T : <<y, x>> \notin StrictSubsetOrdering(S)
  <2> HIDE DEF T
  <2> QED
    BY <1>3, FS_StrictSubsetOrderingWellFounded, WFMin
<1>5. PICK n \in S : x = UpTo(n)
  OBVIOUS
<1>6. ASSUME NEW m \in S, m < n
      PROVE  FALSE
  <2>1. n \in Int /\ m \in Int
    BY <1>1
  <2>2. UpTo(m) \subseteq UpTo(n) 
    <3> SUFFICES ASSUME NEW i \in S, i <= m
                 PROVE  i <= n
      OBVIOUS
    <3> QED
      BY <1>1, <1>6, <2>1
  <2>3. n \in UpTo(n) /\ n \notin UpTo(m)
    BY <1>6, <2>1
  <2>4. <<UpTo(m), UpTo(n)>> \in StrictSubsetOrdering(S)
    BY <2>2, <2>3 DEF StrictSubsetOrdering
  <2> QED
    BY <1>4, <1>5, <2>4
<1> QED
  BY <1>1, <1>6

\* So there is a first provider that answers a batch, and a first that has a
\* symbol.
LEMMA ThereIsAFirst ==
  ASSUME NEW k \in Kinds, NEW s, DetectKind(s) = k
  PROVE  /\ Answering(k) # {} =>
              \E n \in Answering(k) : \A m \in Answering(k) : n <= m
         /\ Sources(s) # {} => \E n \in Sources(s) : \A m \in Sources(s) : n <= m
<1>1. Len(Chain(k)) \in Nat
  BY ChainFacts
<1>2. /\ Answering(k) \in SUBSET (1..Len(Chain(k)))
      /\ Sources(s) \in SUBSET (1..Len(Chain(k)))
  BY DEF Answering, Sources
<1> QED
  BY <1>1, <1>2, LeastElement

\* All providers but static answer for every symbol they are asked or refuse;
\* the prices that need no rate are static's rial and those of irr.
LEMMA AllOrNothing ==
  ASSUME NEW p \in Providers, p # "static", NEW k
  PROVE  BatchCallOf(p, k) \in {{}, Missing(k)}
BY DEF BatchCallOf, BatchOf, AnswersInPart

LEMMA NeedNoRate ==
  ASSUME NEW p \in Providers, NEW s
  PROVE  /\ p # "static" => (QuotedInRial(p, s) <=> p = "irr")
         /\ QuotedInRial("static", s) <=> s = "IRR"
BY DEF QuotedInRial, Providers

\* A symbol that can be had and is left out of what its kind amounts to.
LEMMA LeftOut ==
  ASSUME NEW k \in Kinds, NEW s \in Missing(k), Available(s),
         s \notin KindResult(k)
  PROVE  BatchCallOf("static", k) \ {s} # {}
<1>1. DetectKind(s) = k
  BY DEF Missing
<1>2. Answering(k) # {}
  BY NoAnswer
<1>3. PICK n \in Answering(k) : \A m \in Answering(k) : n <= m
  BY <1>1, <1>2, ThereIsAFirst
<1>4. PICK m \in Sources(s) : \A i \in Sources(s) : m <= i
  BY <1>1, ThereIsAFirst DEF Available
<1>5. PICK p, q : p = Chain(k)[n] /\ q = Chain(k)[m]
  OBVIOUS
<1>6. /\ p \in Providers /\ q \in Providers
      /\ n \in 1..Len(Chain(k)) /\ m \in 1..Len(Chain(k)) /\ n \in Int /\ m \in Int
      /\ Len(Chain(k)) \in Nat
      /\ q = "irr" => m = Len(Chain(k))
  BY <1>1, <1>5, ChainFacts, ChainAssumption DEF Answering, Sources
<1>7. /\ BatchCallOf(p, k) # {} /\ s \notin Convertible(p, BatchCallOf(p, k))
      /\ q \in up /\ s \in Serves(q) /\ s \in Convertible(q, {s})
  <2>1. BatchCallOf(p, k) # {} /\ q \in up /\ s \in Serves(q)
    BY <1>1, <1>5 DEF Answering, Sources
  <2>2. KindResult(k) = Convertible(p, BatchCallOf(p, k))
    BY <1>3, <1>5, FirstAnswer
  <2>3. First(s) = m
    BY <1>4, FirstSource
  <2>4. Convertible(q, {s}) # {}
    BY <1>1, <1>5, <2>3 DEF Available
  <2> QED
    BY <2>1, <2>2, <2>4 DEF Convertible
<1>8. ASSUME s \in BatchCallOf(p, k)
      PROVE  FALSE
  <2>1. p \in up /\ s \in Serves(p)
    BY <1>8 DEF BatchCallOf, BatchOf
  <2>2. m <= n
    BY <1>1, <1>4, <1>5, <1>6, <2>1 DEF Sources
  <2>3. ~fxUp /\ ~QuotedInRial(p, s) /\ QuotedInRial(q, s)
    BY <1>7, <1>8 DEF Convertible
  <2>4. m < n
    BY <1>5, <1>6, <2>2, <2>3
  <2>5. q # "irr"
    BY <1>6, <2>4
  <2>6. q = "static"
    BY <1>6, <2>3, <2>5, NeedNoRate
  <2>7. s \in BatchCallOf(q, k)
    BY <1>7, <2>6 DEF BatchCallOf, BatchOf, AnswersInPart
  <2>8. m \in Answering(k)
    BY <1>5, <1>6, <2>7 DEF Answering
  <2> QED
    BY <1>3, <1>6, <2>4, <2>8
<1>9. p = "static"
  BY <1>6, <1>7, <1>8, AllOrNothing
<1> QED
  BY <1>7, <1>8, <1>9

\* Type correctness of a batch of any size: what is in the sink was asked for
\* and is cached.
THEOREM TypeCorrect == Spec => []TypeOK
<1>1. IInv => TypeOK
  BY DEF IInv
<1> QED
  BY <1>1, IInvHolds, PTL

\* A batch that found something in the cache fails only for a symbol that has no
\* provider at all, whatever the upstreams do and in whatever order the kinds
\* are visited.
THEOREM HitsAreKept == Spec => []HitsKeepTheBatch
<1>1. IInv => HitsKeepTheBatch
  BY DEF IInv
<1> QED
  BY <1>1, IInvHolds, PTL

\* What a kind amounts to when one symbol of it is missing is what GetPrice
\* returns for the symbol.
LEMMA KindOfOne ==
  ASSUME NEW s \in Catalogue, NEW k \in Kinds, Missing(k) = {s},
         DetectKind(s) = k, s \in KindResult(k)
  PROVE  Available(s)
<1>1. CASE Answering(k) = {}
  BY <1>1 DEF KindResult
<1>2. CASE Answering(k) # {}
  <2>1. PICK n \in Answering(k) : \A m \in Answering(k) : n <= m
    BY <1>2, ThereIsAFirst
  <2>2. KindResult(k) = Convertible(Chain(k)[n], BatchCallOf(Chain(k)[n], k))
    BY <2>1, FirstAnswer
  <2>3. \A p : BatchCallOf(p, k) # {} <=> p \in up /\ s \in Serves(p)
    BY DEF BatchCallOf, BatchOf
  <2>4. n \in Sources(s) /\ \A m \in Sources(s) : n <= m
    BY <2>1, <2>3 DEF Answering, Sources
  <2>5. First(s) = n
    BY <2>4, FirstSource
  <2>6. s \in Convertible(Chain(k)[n], {s})
    BY <2>2 DEF Convertible
  <2> QED
    BY <2>4, <2>5, <2>6 DEF Available
<1> QED
  BY <1>1, <1>2

\* What was obtained came from a provider of its kind.
SinkInv == \A s \in sink \cap missing : Chain(DetectKind(s)) # <<>>

LEMMA SinkKeeps == IInv /\ SinkInv /\ [Next]_vars => SinkInv'
<1> SUFFICES ASSUME IInv, SinkInv, [Next]_vars
             PROVE  SinkInv'
  OBVIOUS
<1>1. CASE Scan
  BY <1>1 DEF Scan, SinkInv
<1>2. CASE UNCHANGED <<sink, missing>>
  BY <1>2 DEF SinkInv
<1>3. ASSUME NEW got \in SUBSET Missing(kind), kind # NoKind,
             sink' = sink \cup got, UNCHANGED missing
      PROVE  SinkInv'
  <2>1. nth \in 1..Len(Chain(kind)) /\ kind \in Kinds
    BY <1>3 DEF IInv, TypeOK
  <2>2. Chain(kind) # <<>>
    BY <2>1, ChainFacts
  <2> QED
    BY <1>3, <2>2 DEF SinkInv, Missing
<1>4. CASE BatchAnswered \/ BatchAnsweredInPart
  <2>1. PICK got \in SUBSET BatchCall(Asked) : Obtained(got)
    BY <1>4, AnswersFit DEF BatchAnswered, BatchAnsweredInPart
  <2>2. kind # NoKind /\ UNCHANGED missing
    BY <1>4 DEF BatchAnswered, BatchAnsweredInPart, Batching
  <2> QED
    BY <1>3, <2>1, <2>2, AnswersFit DEF Obtained, BatchCall
<1>5. CASE SymbolAnswered \/ SymbolRefused
  <2>1. /\ left # {} /\ left \subseteq Missing(kind) /\ kind # NoKind
        /\ UNCHANGED missing
    BY <1>5 DEF SymbolAnswered, SymbolRefused, Salvaging, IInv, CallInv
  <2>2. \/ UNCHANGED sink
        \/ \E got \in SUBSET {Turn} : sink' = sink \cup got
    BY <1>5, AnswersFit DEF SymbolAnswered, SymbolRefused, AfterTurn, Obtained
  <2>3. Turn \in Missing(kind)
    BY <2>1 DEF Turn
  <2> QED
    BY <1>2, <1>3, <2>1, <2>2, <2>3
<1>6. CASE Flap \/ Return \/ BatchRefused \/ Finished
           \/ \E k \in Kinds : NoProviders(k) \/ StartKind(k)
  BY <1>2, <1>6 DEF Flap, Return, BatchRefused, Finished, NoProviders, StartKind,
                    callVars, vars
<1> QED
  BY <1>1, <1>2, <1>4, <1>5, <1>6 DEF Next, Serve, vars, callVars

LEMMA SinkHolds == Spec => []SinkInv
<1>1. Init => SinkInv
  BY DEF Init, SinkInv
<1> QED
  BY <1>1, SinkKeeps, IInvHolds, PTL DEF Spec

\* A symbol asked for alone is returned exactly when GetPrice would return it.
THEOREM AloneIsLikeGetPrice == Spec => []AloneLikeGetPrice
<1>1. ASSUME FullInv, SinkInv, NEW s \in Symbols, wanted = {s}, steady, Over
      PROVE  s \in sink <=> s \notin missing \/ Available(s)
  <2>1. /\ s \notin sink => ~Available(s)
        /\ s \notin missing => s \in sink
        /\ missing \subseteq {s}
    BY <1>1 DEF FullInv, IInv, TypeOK, AloneInv, CallInv, Over
  <2>2. ASSUME s \in sink \cap missing
        PROVE  Available(s)
    <3>1. PICK k \in Kinds : k = DetectKind(s)
      BY KindOfSymbol
    <3>2. Missing(k) = {s} /\ s \in Got(k) /\ s \in Catalogue
      BY <2>1, <2>2, <3>1, BatchAssumption DEF Missing, Got
    <3>3. result # "failed"
      BY <1>1, <2>1, <2>2 DEF FullInv, IInv, HitsKeepTheBatch, SinkInv
    <3>4. KindInv(k) /\ todo = {} /\ kind = NoKind /\ k # NoKind
      BY <1>1, <3>3 DEF FullInv, OrderInv, Over, Kinds, NoKind
    <3>5. s \in KindResult(k)
      BY <3>2, <3>4 DEF KindInv
    <3> QED
      BY <3>1, <3>2, <3>5, KindOfOne
  <2> QED
    BY <2>1, <2>2
<1>2. FullInv /\ SinkInv => AloneLikeGetPrice
  BY <1>1 DEF AloneLikeGetPrice
<1> QED
  BY <1>2, FullHolds, SinkHolds, PTL

\* The prices of an answer do not depend on the order in which the kinds were
\* visited: each kind adds what it amounts to on its own.
THEOREM KindsInAnyOrder == Spec => []OrderDoesNotShow
<1>1. FullInv => OrderDoesNotShow
  BY WhatIsReturned DEF OrderDoesNotShow
<1> QED
  BY <1>1, FullHolds, PTL

\* A symbol that GetPrice would return and the answer lacks shares its kind with
\* another one that static has.
THEOREM DroppedBehindStatic == Spec => []DroppedOnlyBehindStatic
<1>1. ASSUME FullInv, NEW s \in wanted \ sink,
             result = "returned", steady, Available(s)
      PROVE  \E other \in (missing \cap Serves("static")) \ {s} :
               DetectKind(other) = DetectKind(s)
  <2>1. PICK k \in Kinds : k = DetectKind(s)
    BY KindOfSymbol
  <2>2. s \in Missing(k) /\ missing \subseteq wanted
    BY <1>1, <2>1 DEF FullInv, IInv, CallInv, TypeOK, Missing
  <2>3. s \notin KindResult(k)
    BY <1>1, WhatIsReturned
  <2>4. PICK other : other \in BatchCallOf("static", k) /\ other # s
    BY <1>1, <2>2, <2>3, LeftOut
  <2>5. /\ other \in Serves("static") /\ other \in Missing(k)
    BY <2>4 DEF BatchCallOf, BatchOf
  <2> QED
    BY <2>1, <2>2, <2>4, <2>5 DEF Missing
<1>2. FullInv => DroppedOnlyBehindStatic
  BY <1>1 DEF DroppedOnlyBehindStatic
<1> QED
  BY <1>2, FullHolds, PTL
-----------------------------------------------------------------------------
\* The calls of a batch are counted.  The catalogue is finite, and with it every
\* set of symbols or kinds of a call.
LEMMA CatalogueIsFinite == IsFiniteSet(Catalogue) /\ IsFiniteSet(Kinds)
<1>1. \A S, T : IsFiniteSet(S) /\ IsFiniteSet(T) => IsFiniteSet(S \cup T)
  BY FS_Union
<1>2. \A a, b, c, d : IsFiniteSet({a, b, c, d})
  <2> SUFFICES ASSUME NEW a, NEW b, NEW c, NEW d
               PROVE  IsFiniteSet({a, b, c, d})
    OBVIOUS
  <2>1. IsFiniteSet({a} \cup {b}) /\ IsFiniteSet({c} \cup {d})
    BY <1>1, FS_Singleton
  <2>2. IsFiniteSet(({a} \cup {b}) \cup ({c} \cup {d}))
    BY <1>1, <2>1
  <2>3. ({a} \cup {b}) \cup ({c} \cup {d}) = {a, b, c, d}
    OBVIOUS
  <2> QED
    BY <2>2, <2>3
<1>3. IsFiniteSet({"USD", "EUR", "GBP", "IRR"} \cup {"CHF", "USD_IRR", "BTC", "ETH"})
  BY <1>1, <1>2
<1>4. IsFiniteSet({"BTCUSDT", "XAU", "XAG", "XAUUSD"} \cup {"COPPER"})
  BY <1>1, <1>2, FS_Singleton
<1>5. Catalogue = ({"USD", "EUR", "GBP", "IRR"} \cup {"CHF", "USD_IRR", "BTC", "ETH"})
                  \cup ({"BTCUSDT", "XAU", "XAG", "XAUUSD"} \cup {"COPPER"})
  BY DEF Catalogue
<1> QED
  BY <1>1, <1>2, <1>3, <1>4, <1>5 DEF Kinds

\* A part of a finite set, and the set without one of its elements.
LEMMA Part ==
  ASSUME NEW S, IsFiniteSet(S), NEW T \in SUBSET S
  PROVE  /\ IsFiniteSet(T)
         /\ Cardinality(T) \in Nat /\ Cardinality(T) <= Cardinality(S)
         /\ T # {} => Cardinality(T) >= 1
         /\ \A t \in T : Cardinality(T \ {t}) = Cardinality(T) - 1
<1>1. IsFiniteSet(T) /\ Cardinality(T) \in Nat /\ Cardinality(T) <= Cardinality(S)
  BY FS_Subset, FS_CardinalityType
<1> QED
  BY <1>1, FS_EmptySet, FS_RemoveElement

LEMMA Sizes ==
  ASSUME TypeOK
  PROVE  /\ IsFiniteSet(wanted) /\ IsFiniteSet(missing) /\ IsFiniteSet(todo)
         /\ \A S \in SUBSET wanted : IsFiniteSet(S) /\ Cardinality(S) \in Nat
         /\ Cardinality(missing) \in Nat /\ Cardinality(todo) \in Nat
         /\ Cardinality(ToCome) \in Nat /\ Cardinality(left) \in Nat
         /\ Cardinality(KindsOfMissing) \in Nat
         /\ \A k : Cardinality(Missing(k)) \in Nat
<1>1. /\ wanted \in SUBSET Catalogue /\ missing \in SUBSET wanted /\ left \in SUBSET wanted
      /\ todo \in SUBSET Kinds /\ KindsOfMissing \in SUBSET Kinds
  BY BatchAssumption, KindOfSymbol DEF TypeOK, KindsOfMissing
<1>2. ToCome \in SUBSET missing /\ \A k : Missing(k) \in SUBSET missing
  BY DEF ToCome, Missing
<1>3. /\ IsFiniteSet(wanted) /\ IsFiniteSet(todo)
      /\ Cardinality(todo) \in Nat /\ Cardinality(KindsOfMissing) \in Nat
  BY <1>1, CatalogueIsFinite, Part
<1>4. \A S \in SUBSET wanted : IsFiniteSet(S) /\ Cardinality(S) \in Nat
  BY <1>3, Part
<1> QED
  BY <1>1, <1>2, <1>3, <1>4

\* The kind under way has a call to make, and no more than its chain allows.
LEMMA KindHasCalls ==
  ASSUME FullInv
  PROVE  /\ Longest \in Nat /\ InKind \in Nat
         /\ kind # NoKind => InKind >= 1
         /\ CallsLeft = Longest * (Cardinality(ToCome) + Cardinality(todo)) + InKind
<1>1. TypeOK /\ CallInv
  BY DEF FullInv, IInv
<1>2. Longest \in Nat
  BY ChainFacts DEF Longest, Kinds
<1>3. CASE kind = NoKind
  BY <1>2, <1>3 DEF InKind, CallsLeft
<1>4. CASE kind # NoKind
  <2>1. nth \in 1..Longest
    <3>1. nth \in 1..Len(Chain(kind)) /\ kind \in Kinds
      BY <1>1, <1>4 DEF TypeOK
    <3>2. Len(Chain(kind)) <= Longest /\ Len(Chain(kind)) \in Nat
      BY <3>1, ChainAssumption, ChainFacts
    <3> QED
      BY <1>2, <3>1, <3>2
  <2>2. PICK c \in Nat \ {0} :
          c = IF left = {} THEN Cardinality(Missing(kind)) + 1 ELSE Cardinality(left)
    <3>1. Cardinality(Missing(kind)) \in Nat /\ Cardinality(left) \in Nat
      BY <1>1, Sizes
    <3>2. left # {} => Cardinality(left) >= 1
      BY <1>1, Sizes, Part DEF TypeOK
    <3> QED
      BY <3>1, <3>2
  <2>3. InKind = Longest * c - (nth - 1)
    BY <1>4, <2>2 DEF InKind
  <2>4. Longest * c >= Longest /\ Longest * c \in Nat
    BY <1>2
  <2> QED
    BY <1>2, <1>4, <2>1, <2>3, <2>4 DEF CallsLeft
<1> QED
  BY <1>3, <1>4

\* A call, by what it leaves to be done of its kind: nothing; the providers behind
\* the one asked; or, all having refused, the same chain for one symbol less or,
\* after the batch, for each.
LEMMA CallMoves ==
  ASSUME FullInv, ProviderCall
  PROVE  /\ kind # NoKind /\ UNCHANGED <<missing, todo>>
         /\ \/ kind' = NoKind
            \/ kind' = kind /\ nth < Len(Chain(kind)) /\ nth' = nth + 1 /\ left' = left
            \/ /\ kind' = kind /\ nth' = 1
               /\ \/ left = {} /\ left' = Missing(kind)
                  \/ left # {} /\ left' # {} /\ left' = left \ {Turn}
<1>1. /\ kind = NoKind => left = {}
      /\ kind # NoKind => nth \in 1..Len(Chain(kind)) /\ Missing(kind) # {}
  BY DEF FullInv, IInv, TypeOK, CallInv, KindsOfMissing, Missing
<1>2. CASE BatchAnswered \/ BatchAnsweredInPart
  BY <1>2 DEF BatchAnswered, BatchAnsweredInPart, Batching, KindDone
<1>3. CASE BatchRefused
  BY <1>1, <1>3 DEF BatchRefused, Batching
<1>4. CASE SymbolAnswered
  BY <1>1, <1>4 DEF SymbolAnswered, Salvaging, AfterTurn, KindDone
<1>5. CASE SymbolRefused
  BY <1>1, <1>5 DEF SymbolRefused, Salvaging, AfterTurn, KindDone
<1> QED
  BY <1>2, <1>3, <1>4, <1>5 DEF ProviderCall

\* So each call is one of those that were left.
LEMMA CallsUsedUp ==
  ASSUME FullInv, ProviderCall
  PROVE  CallsLeft' \in Int /\ CallsLeft' < CallsLeft
<1>1. TypeOK /\ CallInv
  BY DEF FullInv, IInv
<1>2. /\ kind # NoKind /\ nth \in 1..Len(Chain(kind)) /\ Len(Chain(kind)) \in Nat
      /\ Len(Chain(kind)) <= Longest /\ Longest \in Nat
      /\ missing' = missing /\ todo' = todo
  BY <1>1, CallMoves, KindHasCalls, ChainAssumption, ChainFacts DEF TypeOK
<1>3. /\ Missing(kind)' = {s \in missing : DetectKind(s) = kind'}
      /\ ToCome' = ToCome
  BY <1>2 DEF Missing, ToCome
<1>4. PICK m, l \in Nat : m = Cardinality(Missing(kind)) /\ l = Cardinality(left)
  BY <1>1, Sizes
<1>5. InKind = IF left = {} THEN Longest * (m + 1) - (nth - 1)
                            ELSE Longest * l - (nth - 1)
  BY <1>2, <1>4 DEF InKind
<1>6. InKind' \in Int /\ InKind' < InKind
  <2>1. CASE kind' = NoKind
    BY <1>2, <2>1, KindHasCalls DEF InKind
  <2>2. CASE kind' = kind /\ nth < Len(Chain(kind)) /\ nth' = nth + 1 /\ left' = left
    <3>1. InKind' = IF left = {} THEN Longest * (m + 1) - nth
                                 ELSE Longest * l - nth
      BY <1>2, <1>3, <1>4, <2>2 DEF InKind, Missing
    <3>2. Longest * (m + 1) \in Int /\ Longest * l \in Int
      BY <1>2, <1>4
    <3> QED
      BY <1>2, <1>5, <3>1, <3>2
  <2>3. CASE kind' = kind /\ nth' = 1 /\ left = {} /\ left' = Missing(kind)
    <3>1. Missing(kind) # {}
      BY <1>1, <1>2 DEF CallInv, KindsOfMissing, Missing
    <3>2. InKind' = Longest * m
      BY <1>2, <1>4, <2>3, <3>1 DEF InKind
    <3>3. InKind = Longest * m + Longest - (nth - 1)
      BY <1>2, <1>4, <1>5, <2>3
    <3>4. Longest * m \in Int
      BY <1>2, <1>4
    <3> QED
      BY <1>2, <3>2, <3>3, <3>4
  <2>4. CASE /\ kind' = kind /\ nth' = 1 /\ left # {} /\ left' # {}
             /\ left' = left \ {Turn}
    <3>1. Cardinality(left') = l - 1
      <4>1. Turn \in left
        BY <2>4 DEF Turn
      <4> QED
        BY <1>1, <1>4, <2>4, <4>1, Sizes, Part DEF TypeOK
    <3>2. InKind' = Longest * (l - 1)
      BY <1>2, <1>4, <2>4, <3>1 DEF InKind
    <3>3. InKind' = Longest * l - Longest
      BY <1>2, <1>4, <3>2
    <3>4. Longest * l \in Int
      BY <1>2, <1>4
    <3> QED
      BY <1>2, <1>5, <2>4, <3>3, <3>4
  <2> QED
    BY <2>1, <2>2, <2>3, <2>4, CallMoves
<1>7. CallsLeft' = Longest * (Cardinality(ToCome) + Cardinality(todo)) + InKind'
  BY <1>2, <1>3 DEF CallsLeft
<1>8. Longest * (Cardinality(ToCome) + Cardinality(todo)) \in Int /\ InKind \in Int
  BY <1>1, <1>2, Sizes, KindHasCalls
<1> QED
  BY <1>6, <1>7, <1>8, KindHasCalls

\* A kind that is begun has, of the calls counted for those to come, its own.
LEMMA BeginningCosts ==
  ASSUME FullInv, NEW k \in Kinds, StartKind(k)
  PROVE  CallsLeft' = CallsLeft
<1>1. TypeOK /\ CallInv /\ Longest \in Nat
  BY KindHasCalls DEF FullInv, IInv
<1>2. /\ kind = NoKind /\ left = {} /\ k \in todo /\ k # NoKind
      /\ kind' = k /\ nth' = 1 /\ left' = {} /\ missing' = missing /\ todo' = todo \ {k}
  BY <1>1 DEF StartKind, CallInv, Kinds, NoKind
<1>3. /\ ToCome \in SUBSET wanted /\ Missing(k) \in SUBSET ToCome
      /\ ToCome' = ToCome \ Missing(k)
  BY <1>1, <1>2 DEF TypeOK, ToCome, Missing
<1>4. Cardinality(ToCome') = Cardinality(ToCome) - Cardinality(Missing(k))
  <2>1. ToCome \cap Missing(k) = Missing(k)
    BY <1>3
  <2> QED
    BY <1>1, <1>3, <2>1, Sizes, FS_Difference
<1>5. Cardinality(todo') = Cardinality(todo) - 1
  BY <1>1, <1>2, Sizes, FS_RemoveElement
<1>6. PICK c, t, m \in Nat : /\ c = Cardinality(ToCome) /\ t = Cardinality(todo)
                             /\ m = Cardinality(Missing(k))
  BY <1>1, Sizes
<1>7. CallsLeft = Longest * (c + t)
  BY <1>1, <1>2, <1>6 DEF CallsLeft, InKind
<1>8. InKind' = Longest * (m + 1)
  <2>1. Missing(k)' = Missing(k)
    BY <1>2 DEF Missing
  <2> QED
    BY <1>1, <1>2, <1>6, <2>1 DEF InKind, Missing
<1>9. CallsLeft' = Longest * ((c - m) + (t - 1)) + Longest * (m + 1)
  BY <1>4, <1>5, <1>6, <1>8 DEF CallsLeft, Longest
<1> QED
  BY <1>1, <1>6, <1>7, <1>9

\* No other step of a call makes more of them necessary.
LEMMA CallsOnlyFall ==
  ASSUME FullInv, [Next]_vars, result = "running"
  PROVE  CallsLeft' \in Int /\ CallsLeft' <= CallsLeft
<1>1. CallsLeft \in Int
  BY KindHasCalls, Sizes DEF FullInv, IInv
<1>2. CASE ProviderCall
  <2>1. PICK m, n \in Int : m = CallsLeft' /\ n = CallsLeft /\ m < n
    BY <1>1, <1>2, CallsUsedUp
  <2> QED
    BY <2>1
<1>3. CASE \E k \in Kinds : StartKind(k)
  BY <1>1, <1>3, BeginningCosts
<1>4. CASE UNCHANGED <<missing, todo, kind, nth, left>>
  BY <1>1, <1>4 DEF CallsLeft, ToCome, InKind, Missing
<1>5. ~Scan
  BY DEF Scan
<1>6. ASSUME \/ Return \/ Flap \/ Finished \/ UNCHANGED vars
             \/ \E k \in Kinds : NoProviders(k)
      PROVE  UNCHANGED <<missing, todo, kind, nth, left>>
  BY <1>6 DEF Return, Flap, Finished, vars, callVars, NoProviders
<1> QED
  BY <1>2, <1>3, <1>4, <1>5, <1>6 DEF Next, Serve, ProviderCall

LEMMA NextCalls == FullInv /\ CallsInv /\ [Next]_vars => CallsInv'
<1> SUFFICES ASSUME FullInv, CallsInv, [Next]_vars, result' = "running"
             PROVE  CallsLeft' <= MostCalls'
  BY DEF CallsInv
<1>1. CASE Scan
  <2>1. kind = NoKind /\ kind' = NoKind
    BY <1>1 DEF Scan, FullInv, IInv, CallInv
  <2>2. ToCome' = missing' /\ todo' = KindsOfMissing'
    BY <1>1 DEF Scan, ToCome, KindsOfMissing
  <2>3. InKind' = 0
    BY <2>1 DEF InKind
  <2>4. PICK n \in Int : n = MostCalls'
    <3>1. missing' \in SUBSET wanted /\ KindsOfMissing' \in SUBSET Kinds
      BY <1>1, KindOfSymbol DEF Scan, KindsOfMissing
    <3>2. Cardinality(missing') \in Nat /\ Cardinality(KindsOfMissing') \in Nat
      BY <3>1, Sizes, CatalogueIsFinite, Part DEF FullInv, IInv
    <3> QED
      BY <3>2, KindHasCalls DEF MostCalls, Longest
  <2>5. CallsLeft' = n
    BY <2>2, <2>3, <2>4 DEF CallsLeft, MostCalls, Longest
  <2> QED
    BY <2>4, <2>5
<1>2. CASE ~Scan
  <2>1. result = "running" /\ missing' = missing
    BY <1>2 DEF Next, Serve, BatchAnswered, BatchAnsweredInPart, BatchRefused,
                SymbolAnswered, SymbolRefused, Return, NoProviders, StartKind, Flap,
                Finished, Over, Batching, Salvaging, Running, vars, callVars
  <2>2. MostCalls' = MostCalls
    BY <2>1 DEF MostCalls, KindsOfMissing
  <2>3. PICK m, n, c \in Int : m = CallsLeft' /\ n = CallsLeft /\ c = MostCalls
    BY <2>1, CallsOnlyFall, KindHasCalls, Sizes DEF FullInv, IInv, MostCalls
  <2>4. m <= n /\ n <= c
    BY <2>1, <2>3, CallsOnlyFall DEF CallsInv
  <2> QED
    BY <2>2, <2>3, <2>4
<1> QED
  BY <1>1, <1>2

\* A batch makes a bounded number of provider calls, whatever the upstreams do
\* meanwhile: no call is made twice, and no failure adds one.  With m symbols of
\* n kinds to fetch that is m + n times the longest chain, one call after another.
THEOREM CallsAreBounded ==
  Spec => /\ [](result = "running" => CallsLeft \in 0..MostCalls)
          /\ [][CallsFall]_vars
<1>1. Init => CallsInv
  BY DEF Init, CallsInv
<1>2. FullInv /\ CallsInv => (result = "running" => CallsLeft \in 0..MostCalls)
  <2> SUFFICES ASSUME FullInv, CallsInv, result = "running"
               PROVE  CallsLeft \in 0..MostCalls
    OBVIOUS
  <2>1. PICK m, n \in Nat : m = CallsLeft /\ n = MostCalls
    BY KindHasCalls, Sizes DEF FullInv, IInv, MostCalls
  <2> QED
    BY <2>1 DEF CallsInv
<1>3. FullInv /\ [Next]_vars => [CallsFall]_vars
  BY CallsUsedUp, CallsOnlyFall DEF CallsFall
<1> QED
  BY <1>1, <1>2, <1>3, FullHolds, NextCalls, PTL DEF Spec
=============================================================================
