---------------------------- MODULE MCBatchPrices ----------------------------
(* Batches of up to three symbols: two static has, two only a later provider  *)
(* of the chain has, and one each whose chain never has it, is empty, or is   *)
(* not the chain of its own category.                                         *)
EXTENDS BatchPrices

BatchSymbols == {"USD", "IRR", "CHF", "USD_IRR", "XAG", "BTCUSDT", "XAUUSD", "COPPER"}
=============================================================================
