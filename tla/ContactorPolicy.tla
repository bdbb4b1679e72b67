-------------------------- MODULE ContactorPolicy --------------------------
(***************************************************************************)
(* What the vehicle controller promises about the positive contactor bank, *)
(* with timers, events and telemetry left out: contactors close only while *)
(* the vehicle is armed, open only while it is stopped, keep their         *)
(* position through every change of mode, and a stopped vehicle is armed   *)
(* again only by way of idle.                                              *)
(***************************************************************************)
CONSTANT Bank
VARIABLES mode, live

policyVars == <<mode, live>>

Init == mode = "idle" /\ live = {}

Close == live \subseteq live' /\ live' \subseteq Bank

Arm == mode = "idle" /\ mode' = "armed" /\ Close
StayArmed == mode = "armed" /\ mode' = mode /\ Close
Trip == mode \in {"idle", "armed"} /\ mode' = "stopped" /\ live' = live
Open == mode = "stopped" /\ mode' = mode /\ live' \subseteq live
Reset == mode = "stopped" /\ mode' = "idle" /\ live' = live

Next == Arm \/ StayArmed \/ Trip \/ Open \/ Reset

Spec == Init /\ [][Next]_policyVars
=============================================================================
