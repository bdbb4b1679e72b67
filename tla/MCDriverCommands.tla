-------------------------- MODULE MCDriverCommands --------------------------
(* DriverCommands for TLC: a healthy snapshot and one with a motor error.  *)
EXTENDS DriverCommands

CONSTANT Olat
MCBank == {Olat}
Healthy == [motorError |-> FALSE, motorTimeout |-> FALSE,
            bmsTimeout |-> FALSE, bmsValid |-> TRUE, packV |-> 790]
MCSnapshots == { Healthy, [Healthy EXCEPT !.motorError = TRUE] }
=============================================================================
