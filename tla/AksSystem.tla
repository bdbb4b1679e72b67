----------------------------- MODULE AksSystem -----------------------------
(***************************************************************************)
(* The CAN task and the VCU task together: CanManager's snapshots reach    *)
(* VcuLogic through the one-place mailbox TEL_sensorDataQueue, its fault   *)
(* events through VcuLogic's event queue, and the driver's commands come   *)
(* from the HMI task at any time.                                          *)
(*                                                                         *)
(* Time is counted in periods of the CAN task (10 ms).  In each period the *)
(* CAN task runs one cycle; the VCU task runs one cycle every VcuPeriod of *)
(* them, before, after or in between the steps of the CAN task.            *)
(*                                                                         *)
(* A bus that is off shows here as a bus without frames; its recovery, and *)
(* the charger's frames, which nothing here reads, are CanManager's own.   *)
(***************************************************************************)
EXTENDS Integers, Sequences

CONSTANTS
  QueueCap, TaskPeriodMs, OpenDelayMs, ReassertMs, TimerMod,
  CriticalMinDeciV, CriticalMaxDeciV, Bank,
  CanTimeout, ChargerTimeout, MaxPerCall, Horizon, ErrorFlags, PackVolts,
  VcuPeriod     (* CAN task periods in one VCU task period: 20 ms / 10 ms   *)

VARIABLES
  state, stateTimer, eventQueue, eStopPending, telemetry, relaysOpened,
  lastLogMs, commanded, energised, pc,
  motor, bms, charger, tel, bus, alert, canPc, received,
  mailbox,   (* TEL_sensorDataQueue; NoTelemetry stands for empty as well,  *)
             (* s_TEL_latestData being zero until the first snapshot        *)
  sinceRun,  (* periods since the VCU task last started a cycle             *)
  danger     (* history: periods the vehicle has been armed while the data  *)
             (* the CAN task holds is critical                              *)

vcuVars == <<state, stateTimer, eventQueue, eStopPending, telemetry,
             relaysOpened, lastLogMs, commanded, energised, pc>>
canVars == <<motor, bms, charger, tel, bus, alert, canPc, received>>
vars == <<vcuVars, canVars, mailbox, sinceRun, danger>>

Can == INSTANCE CanManager

(* Every write to the relay expander succeeds here; VcuLogic is checked    *)
(* with failing ones.                                                      *)
Vcu == INSTANCE VcuLogic WITH Snapshots <- Can!Published, Writes <- {Bank}

ASSUME SystemAssumption ==
  Can!CanAssumption /\ Vcu!VcuAssumption /\ VcuPeriod \in Nat \ {0}

Armed == {"READY", "DRIVE"}

-----------------------------------------------------------------------------
(* A frame whose handler raises FAULT_DETECTED posts it before it returns. *)
CanFrame ==
  /\ \E fault \in BOOLEAN :
       /\ Can!MotorFrame(fault) \/ Can!BmsFrame(fault)
       /\ IF fault THEN Vcu!PostEvent("FAULT_DETECTED") ELSE UNCHANGED vcuVars
  /\ UNCHANGED <<mailbox, sinceRun, danger>>

CanRead == /\ Can!ReadAlerts \/ Can!OtherFrame
           /\ UNCHANGED <<vcuVars, mailbox, sinceRun, danger>>

BugPublishBeforeChecks ==
  /\ Can!EndCycle
  /\ mailbox' = tel
  /\ UNCHANGED <<vcuVars, sinceRun, danger>>

CanPublish == /\ Can!EndCycle
              /\ mailbox' = tel'
              /\ UNCHANGED <<vcuVars, sinceRun, danger>>

(* The VCU task peeks the mailbox and calls run().                         *)
VcuTop ==
  /\ sinceRun = VcuPeriod /\ sinceRun' = 0
  /\ \/ Vcu!RunEStop(mailbox) \/ Vcu!RunCritical(mailbox)
     \/ Vcu!RunProceed(mailbox)
  /\ UNCHANGED <<canVars, mailbox, danger>>

VcuPoll == Vcu!RunPoll /\ UNCHANGED <<canVars, mailbox, sinceRun, danger>>

(* vTask_HMI_Display forwards the driver's touch commands.                 *)
HmiCommand ==
  /\ \/ \E e \in {"START_REQUEST", "DRIVE_ENABLE", "RESET"} : Vcu!PostEvent(e)
     \/ Vcu!PostEStop
  /\ UNCHANGED <<canVars, mailbox, sinceRun, danger>>

(* The next period begins once both tasks have done their part of this one. *)
Elapse ==
  /\ pc = "top" /\ sinceRun < VcuPeriod /\ sinceRun' = sinceRun + 1
  /\ \/ Can!WakeUp
     \/ canPc = "deleted" /\ UNCHANGED canVars
  /\ danger' = IF state \in Armed /\ Vcu!HasCriticalCondition(tel, state)
               THEN IF danger < Horizon THEN danger + 1 ELSE danger
               ELSE 0
  /\ UNCHANGED <<vcuVars, mailbox>>

Init == /\ Vcu!Init /\ Can!Init
        /\ mailbox = Can!NoTelemetry /\ sinceRun = VcuPeriod /\ danger = 0

CanTask == CanFrame \/ CanRead \/ CanPublish
VcuTask == VcuTop \/ VcuPoll

Next == CanTask \/ VcuTask \/ HmiCommand \/ Elapse

Spec == Init /\ [][Next]_vars

-----------------------------------------------------------------------------
(* Every variable stays in its type; what is published is what VcuLogic's  *)
(* own specification assumes of its snapshots.                             *)
TypeOK == /\ Vcu!TypeOK /\ Can!TypeOK
          /\ mailbox \in Can!Published
          /\ sinceRun \in 0 .. VcuPeriod /\ danger \in 0 .. Horizon

(* The vehicle is never in DRIVE on the word of a controller that went     *)
(* silent: once seen, the motor controller and the BMS have been heard     *)
(* within the CAN timeout and one period of the VCU task.                  *)
DriveOnFreshData ==
  state = "DRIVE" =>
    /\ motor.seen => motor.age <= CanTimeout + VcuPeriod
    /\ bms.seen => bms.age <= CanTimeout + VcuPeriod

(* Critical data disarms the vehicle within one period of the VCU task     *)
(* whether or not its FAULT_DETECTED event found room in the queue, and    *)
(* whatever the driver's commands: the level is checked as well as the     *)
(* event.                                                                  *)
DangerIsBrief == danger <= VcuPeriod
=============================================================================
