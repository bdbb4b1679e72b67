---------------------------- MODULE MCAksSystem ----------------------------
(* The instance of AksSystem for TLC: one bank of contactors, a healthy    *)
(* and a critical pack voltage, two different motor errors.                *)
EXTENDS AksSystem

CONSTANT Olat
MCBank == {Olat}
MCErrorFlags == {0, 1}
MCPackVolts == {CriticalMinDeciV, CriticalMinDeciV + 1}

(* TLC tells states apart only by what a later step can read.  A timer and *)
(* the flags of a stop state are reset when a state that reads them is     *)
(* entered, the snapshot of a run is replaced when the next one starts,    *)
(* and the frame count when the next cycle does.                           *)
ReadLater ==
  << state, eventQueue, eStopPending, energised, pc, motor, bms, tel, canPc,
     mailbox, sinceRun, danger,
     IF state \in {"IDLE", "DRIVE"} THEN 0 ELSE stateTimer,
     IF state \in Vcu!Stopped
     THEN <<relaysOpened[state], lastLogMs[state]>> ELSE <<FALSE, 0>>,
     IF pc = "poll" THEN telemetry ELSE Can!NoTelemetry,
     IF canPc = "rx" THEN received ELSE 0 >>
=============================================================================
