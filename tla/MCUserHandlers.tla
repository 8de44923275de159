--------------------------- MODULE MCUserHandlers ---------------------------
(* The admin, one other user and one symbol, two handlers: two that find no  *)
(* row of the switch are enough for it to have two.                           *)
EXTENDS UserHandlers, TLC

HandlerSymmetry == Permutations(Handlers)
=============================================================================
