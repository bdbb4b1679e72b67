---------------------------- MODULE MCHmiDisplay ----------------------------
(* Instance of HmiDisplay for TLC: one field, START and E-STOP, two cell   *)
(* objects and the warning level, of which one tick can send two.          *)
EXTENDS HmiDisplay

MCValue == {"a", "b"}
MCCommand == {1, 3}
=============================================================================
