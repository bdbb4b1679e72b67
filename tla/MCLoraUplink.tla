--------------------------- MODULE MCLoraUplink ---------------------------
(* The instance of LoraUplink for TLC: one time unit is one short pass of  *)
(* the loop, and the periods keep the order they have in SystemConfig.h.   *)
EXTENDS LoraUplink

ReliableUart == {TRUE}
=============================================================================
