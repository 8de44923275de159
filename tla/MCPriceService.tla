--------------------------- MODULE MCPriceService ---------------------------
(* Two requests over one dollar-quoted symbol and one with no provider, both  *)
(* caches expiring within the horizon.                                        *)
EXTENDS PriceService, TLC

CONSTANTS USD, OIL

\* static, then exchangerateapi; no provider sells commodities.
TwoProviders == (USD :> 2) @@ (OIL :> 0)
=============================================================================
