------------------------------ MODULE MCAlerts ------------------------------
(* Two alerts that static can price, and a third that poisons the batch of    *)
(* the others.                                                                *)
EXTENDS Alerts

WithCopper == [a \in Alerts |-> CASE a = "a1" -> "USD" [] a = "a2" -> "XAU"
                                    [] OTHER -> "COPPER"]
=============================================================================
