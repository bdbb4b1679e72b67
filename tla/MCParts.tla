---------------------------- MODULE MCParts --------------------------------
(* Parts for TLC: the packets of the buffer, the frames on the CAN bus,    *)
(* two snapshots for the start, and the fairness of the tasks.             *)
EXTENDS Parts

CONSTANTS p1, p2, p3
MCPacket == {Zero, p1, p2, p3}

(* Two different motor errors, and a pack voltage on each side of both     *)
(* thresholds and at them.                                                 *)
MCErrorFlags == {0, 1, 2}
MCPackVolts == {CriticalMinDeciV, CriticalMinDeciV + 1,
                CriticalMaxDeciV - 1, CriticalMaxDeciV}

(* A healthy snapshot and one with a motor error: what the start left the  *)
(* state machine meets both.                                               *)
MCSnapshots == [motorError : BOOLEAN, motorTimeout : {FALSE},
                bmsTimeout : {FALSE}, bmsValid : {TRUE}, packV : {790}]

(* The task that boots the radio is scheduled, and so are the CAN task and *)
(* whatever the start of the firmware creates.  The driver of the CAN bus  *)
(* finishes a recovery that was initiated.                                 *)
MCSpec ==
  /\ PartsSpec
  /\ WF_partsVars(OnlyRadio /\ E22!Task)
  /\ WF_partsVars(OnlyCan /\ CanTask!WakeUp)
  /\ WF_partsVars(OnlyCan /\ CanTask!ReadAlerts)
  /\ WF_partsVars(OnlyCan /\ CanTask!EndCycle)
  /\ WF_partsVars(OnlyCan /\ CanTask!Recovered)
  /\ WF_partsVars(OnlyStart /\ Start!Main)
  /\ WF_partsVars(OnlyStart /\ Start!CanBegin)
  /\ WF_partsVars(OnlyStart /\ Start!HmiBegin)
  /\ WF_partsVars(OnlyStart /\ Start!VcuTop)
  /\ WF_partsVars(OnlyStart /\ Start!VcuPoll)

-----------------------------------------------------------------------------
(* The radio's boot: the loop starts.                                      *)
BootEnds == E22!BootEnds

(* The CAN task: a bus-off is recovered from.                              *)
BusComesBack == CanTask!BusComesBack

(* The start: an E-STOP is taken from the moment the panel is read.        *)
EStopFromTheStart == Start!EStopFromTheStart
=============================================================================
