-------------------------- MODULE FXConverterProofs --------------------------
(***************************************************************************)
(* Proofs about FXConverter, for every set of callers, every TTL and every *)
(* timeout of the provider.                                                *)
(*                                                                         *)
(* No single property of FXConverter is inductive: that a served rate is   *)
(* young needs the expiry to follow the quote, which needs every fetch in  *)
(* flight to be younger than its timeout, which is what MayTick says of    *)
(* the clock.  IInv gathers these facts.                                   *)
(***************************************************************************)
EXTENDS FXConverter, TLAPS

\* A caller in flight has no answer yet, and its fetch is younger than the
\* timeout of the provider.
FetchesAreYoung ==
  \A c \in Callers :
     pc[c] = "fetching" => /\ answer[c] = NoAnswer
                           /\ 1 <= since[c] /\ since[c] <= now
                           /\ now <= since[c] + FetchTimeout

IInv == /\ TypeOK
        /\ lastRate <= now
        /\ expires <= now + TTL
        /\ FetchesAreYoung
        /\ ExpiryTracksQuote
        /\ NoFetchWhileFresh

\* The converter starts with no rate and nobody waiting.
LEMMA InitIInv == Init => IInv
<1> USE FXAssumption
<1> QED
  BY DEF Init, IInv, TypeOK, Times, FetchesAreYoung, ExpiryTracksQuote,
         NoFetchWhileFresh, Fresh, NoAnswer, Refused

\* Every step keeps the invariant: a store sets expiry and quote together, and
\* the clock stops for a fetch that has reached its timeout.
LEMMA NextIInv == IInv /\ [Next]_vars => IInv'
<1> SUFFICES ASSUME IInv, [Next]_vars
             PROVE  IInv'
  OBVIOUS
<1> USE FXAssumption
<1> USE DEF IInv, TypeOK, Times, FetchesAreYoung, ExpiryTracksQuote,
            NoFetchWhileFresh, Fresh, NoAnswer, Refused
<1>1. CASE Tick
  BY <1>1 DEF Tick, MayTick, fxVars
<1>2. ASSUME NEW c \in Callers, CacheHit(c)
      PROVE  IInv'
  BY <1>2 DEF CacheHit, Entering
<1>3. ASSUME NEW c \in Callers, CallProvider(c)
      PROVE  IInv'
  BY <1>3 DEF CallProvider, Entering
<1>4. ASSUME NEW c \in Callers, Store(c)
      PROVE  IInv'
  <2> PICK quoted \in since[c]..now :
             /\ lastRate' = quoted
             /\ answer' = [answer EXCEPT ![c] = quoted]
    BY <1>4 DEF Store
  <2>1. /\ expires' = now + TTL
        /\ pc' = [pc EXCEPT ![c] = "idle"]
        /\ since' = [since EXCEPT ![c] = 0]
        /\ now' = now
        /\ since[c] \in Nat /\ since[c] <= now /\ now <= since[c] + FetchTimeout
    BY <1>4 DEF Store, Leaves
  <2>2. TypeOK'
    BY <2>1
  <2>3. FetchesAreYoung' /\ ExpiryTracksQuote' /\ NoFetchWhileFresh'
    BY <2>1
  <2> QED
    BY <2>1, <2>2, <2>3
<1>5. ASSUME NEW c \in Callers, ProviderFails(c)
      PROVE  IInv'
  BY <1>5 DEF ProviderFails, Leaves
<1>6. ASSUME NEW c \in Callers, Take(c)
      PROVE  IInv'
  BY <1>6 DEF Take
<1>7. CASE UNCHANGED vars
  BY <1>7 DEF vars, fxVars
<1> QED
  BY <1>1, <1>2, <1>3, <1>4, <1>5, <1>6, <1>7 DEF Next, Returns

\* In every reachable state IInv holds.
THEOREM IInvHolds == Spec => []IInv
<1> QED
  BY InitIInv, NextIInv, PTL DEF Spec

\* Type correctness of the converter, whatever the constants.
THEOREM TypeCorrect == Spec => []TypeOK
<1>1. IInv => TypeOK
  BY DEF IInv
<1> QED
  BY <1>1, IInvHolds, PTL

\* The cached rate never outlives its quote by more than the TTL and one call
\* of the provider.
THEOREM ExpiryCorrect == Spec => []ExpiryTracksQuote
<1>1. IInv => ExpiryTracksQuote
  BY DEF IInv
<1> QED
  BY <1>1, IInvHolds, PTL

\* While the cached rate is fresh, only callers that found it stale before the
\* last store are still asking the provider.
THEOREM FetchesStopWhenFresh == Spec => []NoFetchWhileFresh
<1>1. IInv => NoFetchWhileFresh
  BY DEF IInv
<1> QED
  BY <1>1, IInvHolds, PTL

\* A late store sets the rate back by no more than one call of the provider.
THEOREM RegressionIsBounded == Spec => RegressionBounded
<1>1. IInv /\ [Next]_vars => [lastRate' + FetchTimeout >= lastRate]_vars
  <2> SUFFICES ASSUME IInv, [Next]_vars
               PROVE  lastRate' + FetchTimeout >= lastRate
    OBVIOUS
  <2> USE FXAssumption DEF IInv, TypeOK, Times
  <2>1. ASSUME NEW c \in Callers, Store(c)
        PROVE  lastRate' + FetchTimeout >= lastRate
    <3>1. PICK quoted \in since[c]..now : lastRate' = quoted
      BY <2>1 DEF Store
    <3>2. since[c] \in Nat /\ now <= since[c] + FetchTimeout
      BY <2>1 DEF Store, FetchesAreYoung
    <3> QED
      BY <3>1, <3>2
  <2>2. CASE UNCHANGED lastRate
    BY <2>2
  <2> QED
    BY <2>1, <2>2 DEF Next, Returns, Tick, CacheHit, CallProvider,
                      ProviderFails, Take, vars, fxVars
<1> QED
  BY <1>1, IInvHolds, PTL DEF Spec, RegressionBounded

\* The converter implements the abstract cache: every rate it returns is
\* strictly younger than TTL plus the timeout of the provider.
THEOREM ImplementsBoundedStaleness == Spec => Freshness
<1> USE FXAssumption DEF NoAnswer, Refused, Promise!NoAnswer, Promise!Refused
<1>1. Init => Promise!Init
  BY DEF Init, Promise!Init
<1>2. IInv /\ [Next]_vars => [Promise!Next]_<<now, answer>>
  <2> SUFFICES ASSUME IInv, [Next]_vars
               PROVE  [Promise!Next]_<<now, answer>>
    OBVIOUS
  <2> USE DEF IInv, TypeOK, Times
  <2>1. ASSUME NEW c \in Callers, CacheHit(c)
        PROVE  Promise!Serve(c)
    <3>1. lastRate \in 1..now /\ now < lastRate + (TTL + FetchTimeout)
      BY <2>1 DEF CacheHit, Fresh, ExpiryTracksQuote
    <3> QED
      BY <2>1, <3>1 DEF CacheHit, Entering, Promise!Serve
  <2>2. ASSUME NEW c \in Callers, Store(c)
        PROVE  Promise!Serve(c)
    <3>1. PICK quoted \in since[c]..now :
                 answer' = [answer EXCEPT ![c] = quoted]
      BY <2>2 DEF Store
    <3>2. /\ since[c] \in Nat \ {0} /\ now <= since[c] + FetchTimeout
          /\ answer[c] = NoAnswer
      BY <2>2 DEF Store, FetchesAreYoung
    <3>3. quoted \in 1..now /\ now < quoted + (TTL + FetchTimeout)
      BY <3>1, <3>2
    <3> QED
      BY <2>2, <3>1, <3>2, <3>3 DEF Store, Promise!Serve
  <2>3. ASSUME NEW c \in Callers, ProviderFails(c)
        PROVE  Promise!Refuse(c)
    BY <2>3 DEF ProviderFails, FetchesAreYoung, Promise!Refuse
  <2>4. ASSUME NEW c \in Callers, Take(c)
        PROVE  Promise!Take(c)
    BY <2>4 DEF Take, Promise!Take
  <2>5. CASE Tick
    BY <2>5 DEF Tick, fxVars, Promise!Tick, Promise!Next
  <2>6. ASSUME NEW c \in Callers, CallProvider(c)
        PROVE  UNCHANGED <<now, answer>>
    BY <2>6 DEF CallProvider
  <2>7. CASE UNCHANGED vars
    BY <2>7 DEF vars, fxVars
  <2> QED
    BY <2>1, <2>2, <2>3, <2>4, <2>5, <2>6, <2>7
       DEF Next, Returns, Promise!Next
<1> QED
  BY <1>1, <1>2, IInvHolds, PTL DEF Spec, Freshness, Promise!Spec
=============================================================================
