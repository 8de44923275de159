------------------------------- MODULE Routing -------------------------------
(***************************************************************************)
(* Which providers a symbol is looked for at: detectKind and               *)
(* providersForKind of internal/core/price/service.go, over the registry   *)
(* and priorities that internal/wiring/price.go builds and the symbols     *)
(* each adapter of internal/adapters knows.                                *)
(*                                                                         *)
(* Symbols are upper-cased names; the catalogue has one for each way       *)
(* detectKind can decide and each set of adapters that can serve it.       *)
(***************************************************************************)
EXTENDS Sequences, SequencesExt

Catalogue == {"USD", "EUR", "GBP", "IRR", "CHF", "USD_IRR",
              "BTC", "ETH", "BTCUSDT",
              "XAU", "XAG", "XAUUSD", "COPPER"}

Kinds == {"forex", "crypto", "metal", "commodity"}

\* detectKind tests the spelling in this order, so a code of three letters is
\* forex before anybody asks whether it names a coin or a metal.
NamesFiat    == {"USD", "EUR", "IRR", "USD_IRR"}   \* IRR inside, USD or EUR first
ThreeLetters == {"USD", "EUR", "GBP", "IRR", "CHF", "BTC", "ETH", "XAU", "XAG"}
NamesCoin    == {"BTC", "ETH", "BTCUSDT"}          \* BTC or ETH first
NamesMetal   == {"XAU", "XAG", "XAUUSD"}           \* a metal code, or XAU first

DetectKind(s) ==
  CASE s \in NamesFiat \cup ThreeLetters -> "forex"
    [] s \in NamesCoin \ ThreeLetters    -> "crypto"
    [] s \in NamesMetal \ (ThreeLetters \cup NamesCoin) -> "metal"
    [] OTHER -> "commodity"

-----------------------------------------------------------------------------
Providers == {"static", "binance", "exchangerateapi", "irr", "metalsapi"}

\* The symbols each adapter answers for, its upstream willing.
StaticTable  == {"USD", "EUR", "GBP", "IRR", "BTC", "ETH", "XAU"}
BinancePairs == {"BTC", "ETH"}
ListedRates  == {"USD", "EUR", "GBP", "IRR", "CHF"}
RialPair     == {"USD_IRR"}
MetalsTable  == {"XAU", "XAG"}

Serves(p) ==
  CASE p = "static"          -> StaticTable
    [] p = "binance"         -> BinancePairs
    [] p = "exchangerateapi" -> ListedRates
    [] p = "irr"             -> RialPair
    [] p = "metalsapi"       -> MetalsTable

\* Static answers from a table, and the metals client is a stub that does too:
\* neither can fail.
CannotFail == {"static", "metalsapi"}

\* Whether a price needs the USD/IRR rate: BaseCurrency is IRR in two cases.
QuotedInRial(p, s) == p = "irr" \/ (p = "static" /\ s = "IRR")

\* What GetPricesBatch of an adapter returns for a set of symbols, {} being an
\* error: static returns the ones it has, the others all or nothing.
\* (BatchOf_AllPartial is a way to get it wrong: every adapter leaves out what
\* it does not have.)
BatchOf_AllPartial(p, symbols) == symbols \cap Serves(p)

AnswersInPart(p) == p = "static"

BatchOf(p, symbols) ==
  IF AnswersInPart(p) \/ symbols \subseteq Serves(p)
    THEN symbols \cap Serves(p)
    ELSE {}

-----------------------------------------------------------------------------
\* NewDefaultPriceService of wiring: the registry, in order of registration,
\* and the priorities, static put first.
Registered(kind) ==
  CASE kind = "crypto"    -> <<"static", "binance">>
    [] kind = "forex"     -> <<"static", "exchangerateapi", "irr">>
    [] kind = "metal"     -> <<"static", "metalsapi">>
    [] kind = "commodity" -> <<>>

Priority(kind) ==
  CASE kind = "crypto"    -> <<"static", "binance">>
    [] kind = "forex"     -> <<"static", "exchangerateapi", "irr">>
    [] kind = "metal"     -> <<"static", "metalsapi">>
    [] kind = "commodity" -> <<>>

\* providersForKind: the providers named by the priority in its order, then the
\* ones it does not name.
Preferred(providers, priority) ==
  SelectSeq(priority, LAMBDA p : p \in ToSet(providers))
    \o SelectSeq(providers, LAMBDA p : p \notin ToSet(priority))

Chain(kind) == Preferred(Registered(kind), Priority(kind))
=============================================================================
