------------------------------- MODULE Parts -------------------------------
(***************************************************************************)
(* The parts around the tasks' loops, each against its own caller and its  *)
(* own hardware: OfflineBuffer, RelayManager, the radio's boot with        *)
(* E22Config, the fields of a LoRa packet, the cell computations, the      *)
(* arithmetic of ticks, the CAN task, and the start of the firmware.  They *)
(* share nothing here, so a behaviour picks one of them and the others     *)
(* stay as they start.                                                     *)
(***************************************************************************)
EXTENDS OfflineBuffer

CONSTANTS
  RELAY_TOTAL_CHANNELS, PerBank,
  ModeTimeout, CfgTimeout, ReadTimeout, Settle, RetryDelay, WdtTimeout,
  Foreign, MaxQueued,
  Bytes, Words, Lengths,
  N, CellMv, CellTemp,
  TickMod, Timeout, Period, MaxPause, Horizon,
  CanTimeout, ChargerTimeout, MaxPerCall, CanHorizon, ErrorFlags, PackVolts,
  QueueCap, TaskPeriodMs, OpenDelayMs, ReassertMs, TimerMod,
  CriticalMinDeciV, CriticalMaxDeciV, VcuBank, Snapshots, HmiTries

VARIABLES
  part,        (* the part this behaviour is about                          *)
  stage, relayState, initialized, todo, low, outputs, missed,
  program, bootStage, elapsed, verdict, rx, pins, mode, aux, inbox, flash,
  crypt, healthy,
  telemetry,
  cellVoltageMv, cellTempC, isValid,
  now, pc, hasSeen, lastValid, lastTick, lastTx, age, txAge,
  motor, bms, charger, tel, bus, alert, canPc, received,
  state, stateTimer, eventQueue, eStopPending, vcuTelemetry, relaysOpened,
  lastLogMs, commanded, energised, vcuPc, step, have, can, hmi, tries, vcuTask,
  mailbox

Relay == INSTANCE RelayManager
E22 == INSTANCE E22Boot WITH stage <- bootStage
Frame == INSTANCE UplinkFrame
Bms == INSTANCE BmsAlgo
Clock == INSTANCE TickClock
CanTask == INSTANCE CanManager WITH Horizon <- CanHorizon
Start == INSTANCE Startup WITH
  telemetry <- vcuTelemetry, pc <- vcuPc, Bank <- VcuBank

ASSUME PartsAssumption ==
  /\ Relay!RelayAssumption /\ E22!BootAssumption /\ Frame!FrameAssumption
  /\ Bms!CellAssumption /\ Clock!ClockAssumption /\ CanTask!CanAssumption
  /\ Start!StartAssumption

relayVars == <<stage, relayState, initialized, todo, low, outputs, missed>>
radioVars == <<program, bootStage, elapsed, verdict, rx, pins, mode, aux,
               inbox, flash, crypt, healthy>>
cellVars == <<cellVoltageMv, cellTempC, isValid>>
clockVars == <<now, pc, hasSeen, lastValid, lastTick, lastTx, age, txAge>>
canTaskVars == <<motor, bms, charger, tel, bus, alert, canPc, received>>
startVars == <<state, stateTimer, eventQueue, eStopPending, vcuTelemetry,
               relaysOpened, lastLogMs, commanded, energised, vcuPc, step,
               have, can, hmi, tries, vcuTask, mailbox>>
partsVars == <<part, ringVars, relayVars, radioVars, telemetry, cellVars,
               clockVars, canTaskVars, startVars>>

(* Where a part has several initial states, they are only told apart when  *)
(* it is the one picked.                                                   *)
PartsInit ==
  /\ part \in {"buffer", "relay", "radio", "frame", "bms", "clock", "can",
             "start"}
  /\ Init /\ Relay!Init /\ E22!Init /\ Frame!Init /\ Bms!Init /\ Clock!Init
  /\ CanTask!Init /\ Start!Init
  /\ part # "radio" =>
       /\ program = "vehicle" /\ pins = "config"
       /\ flash = E22!Contract /\ crypt = E22!Contract
  /\ part # "bms" =>
       /\ cellVoltageMv = [i \in Bms!Cell |-> CHOOSE v \in CellMv : TRUE]
       /\ cellTempC = [i \in Bms!Cell |-> CHOOSE t \in CellTemp : TRUE]
  /\ part # "can" => canPc = "sleep"

BufferIdle == UNCHANGED ringVars
RelayIdle == UNCHANGED relayVars
RadioIdle == UNCHANGED radioVars
FrameIdle == UNCHANGED telemetry
CellsIdle == UNCHANGED cellVars
ClockIdle == UNCHANGED clockVars
CanIdle == UNCHANGED canTaskVars
StartIdle == UNCHANGED startVars

OnlyBuffer == /\ part = "buffer" /\ UNCHANGED part
              /\ RelayIdle /\ RadioIdle /\ FrameIdle
              /\ CellsIdle /\ ClockIdle /\ CanIdle /\ StartIdle
OnlyRelay == /\ part = "relay" /\ UNCHANGED part
             /\ BufferIdle /\ RadioIdle /\ FrameIdle
             /\ CellsIdle /\ ClockIdle /\ CanIdle /\ StartIdle
OnlyRadio == /\ part = "radio" /\ UNCHANGED part
             /\ BufferIdle /\ RelayIdle /\ FrameIdle
             /\ CellsIdle /\ ClockIdle /\ CanIdle /\ StartIdle
OnlyFrame == /\ part = "frame" /\ UNCHANGED part
             /\ BufferIdle /\ RelayIdle /\ RadioIdle
             /\ CellsIdle /\ ClockIdle /\ CanIdle /\ StartIdle
OnlyCells == /\ part = "bms" /\ UNCHANGED part
             /\ BufferIdle /\ RelayIdle /\ RadioIdle
             /\ FrameIdle /\ ClockIdle /\ CanIdle /\ StartIdle
OnlyClock == /\ part = "clock" /\ UNCHANGED part
             /\ BufferIdle /\ RelayIdle /\ RadioIdle
             /\ FrameIdle /\ CellsIdle /\ CanIdle /\ StartIdle
OnlyCan == /\ part = "can" /\ UNCHANGED part
           /\ BufferIdle /\ RelayIdle /\ RadioIdle
           /\ FrameIdle /\ CellsIdle /\ ClockIdle /\ StartIdle
OnlyStart == /\ part = "start" /\ UNCHANGED part
             /\ BufferIdle /\ RelayIdle /\ RadioIdle
             /\ FrameIdle /\ CellsIdle /\ ClockIdle /\ CanIdle

PartsNext ==
  \/ OnlyBuffer /\ Next
  \/ OnlyRelay /\ Relay!Next
  \/ OnlyRadio /\ E22!Next
  \/ OnlyFrame /\ Frame!Next
  \/ OnlyCells /\ Bms!Next
  \/ OnlyClock /\ Clock!Next
  \/ OnlyCan /\ CanTask!Next
  \/ OnlyStart /\ Start!Next

PartsSpec == PartsInit /\ [][PartsNext]_partsVars

-----------------------------------------------------------------------------
(* The type invariants of the parts.                                       *)
PartsTypeOK ==
  /\ TypeOK /\ Relay!TypeOK /\ E22!TypeOK /\ Frame!TypeOK /\ Bms!TypeOK
  /\ Clock!TypeOK /\ CanTask!TypeOK /\ Start!TypeOK

(* RelayManager: contactors move only to where they are commanded, and a   *)
(* finished call has done what it was asked.                               *)
MovesAsCommanded == Relay!MovesAsCommanded
DoneAsCommanded == Relay!DoneAsCommanded

(* The radio's boot: its log is true, a healthy radio ends up configured,  *)
(* and the watchdog is fed.                                                *)
VerdictTrue == E22!VerdictTrue
HealthyBootConfigures == E22!HealthyBootConfigures
WatchdogFed == E22!WatchdogFed

(* The LoRa packet: the ground station drops it for the rpm only.          *)
OnlyRpmRejected == Frame!OnlyRpmRejected

(* The cells: what computePack computes is what the plain definitions say. *)
PackAsDefined == Bms!PackAsDefined

(* Ticks: timeouts and periods agree with the time that really passed.     *)
TimeoutIsTrue == Clock!TimeoutIsTrue
PeriodKept == Clock!PeriodKept

(* The CAN task: what it publishes tells exactly who is silent, and events *)
(* and levels are about the same frame.                                    *)
FlagsTellSilence == CanTask!FlagsTellSilence
EdgeAgreesWithLevel == CanTask!EdgeAgreesWithLevel

(* The start: a vehicle that can be armed can be stopped and watched.      *)
ArmedIsServed == Start!ArmedIsServed

(* And whatever comes out of the start keeps the state machine's promises. *)
StartedSafe == Start!StartedSafe
=============================================================================
