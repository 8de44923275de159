---------------------------- MODULE MCFXConverter ----------------------------
(* Two callers around one refresh of the rate and the next: their fetches     *)
(* overlap, finish in either order and time out within the horizon.           *)
EXTENDS FXConverter
=============================================================================
