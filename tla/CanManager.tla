---------------------------- MODULE CanManager ----------------------------
(***************************************************************************)
(* lib/CanManager and the parsers it uses (lib/CanParse), as the CAN task  *)
(* runs them: what a received frame changes, how silence is turned into    *)
(* timeouts, which changes raise a FAULT_DETECTED event, and the recovery  *)
(* of the bus after bus-off.                                               *)
(*                                                                         *)
(* A frame is told by the handler it reaches and by the fields a decision  *)
(* depends on: motor error flags and pack voltage.  Every frame that       *)
(* changes none of the state below (temperatures, undecoded identifiers,   *)
(* frames too short for their parser) is OtherFrame.  Ages count cycles of *)
(* the CAN task since the last frame and stop at Horizon; a source never   *)
(* seen has no age.                                                        *)
(***************************************************************************)
EXTENDS Integers

CONSTANTS
  CanTimeout,        (* CAN_MOTOR_STATUS_TIMEOUT_MS = CAN_BMS_STATUS_TIMEOUT_MS *)
  ChargerTimeout,    (* CAN_CHARGER_TIMEOUT_MS                              *)
  MaxPerCall,        (* frames one processRxMessages() handles: 5           *)
  Horizon,           (* bound: ages beyond it are not told apart            *)
  CriticalMinDeciV,  (* BMS_CRITICAL_MIN_PACK_VOLTAGE_DECI_V                *)
  CriticalMaxDeciV,  (* BMS_CRITICAL_MAX_PACK_VOLTAGE_DECI_V                *)
  ErrorFlags,        (* the motor error bytes a frame may carry             *)
  PackVolts          (* the pack voltages a frame may carry                 *)

(* What the proofs assume of the constants; the modules that instantiate  *)
(* this one assume it.                                                     *)
CanAssumption ==
  /\ {CanTimeout, ChargerTimeout, MaxPerCall} \subseteq Nat \ {0}
  /\ Horizon \in Nat /\ Horizon >= CanTimeout /\ Horizon >= ChargerTimeout
  /\ CriticalMinDeciV \in Nat /\ CriticalMaxDeciV \in Nat
  /\ 0 \in ErrorFlags /\ PackVolts \subseteq Nat

VARIABLES
  motor,    (* s_motorStatus.errorFlags and .isValid, CAN_hasSeenMotorStatus, *)
            (* and the age of CAN_lastMotorStatusTick                       *)
  bms,      (* CAN_bmsPackFaultFlags, CAN_bmsE000Valid, CAN_hasSeen_BmsE000, *)
            (* and the age of CAN_lastBmsE000Tick                           *)
  charger,  (* CAN_chargerValid, CAN_hasSeenCharger, age                    *)
  tel,      (* s_telemetryData: the fields VcuLogic reads                   *)
  bus,      (* external: the state of the TWAI driver                       *)
  alert,    (* external: its unread alert                                   *)
  canPc,    (* where the CAN task is                                        *)
  received  (* frames handled so far in this processRxMessages()            *)

canVars == <<motor, bms, charger, tel, bus, alert, canPc, received>>

PackFault == {"none", "under", "over"}

NoTelemetry == [motorError |-> FALSE, motorTimeout |-> FALSE,
                bmsTimeout |-> FALSE, bmsValid |-> FALSE, packV |-> 0]

(* Every snapshot getTelemetryData can return.                             *)
Published == [motorError : BOOLEAN, motorTimeout : BOOLEAN,
              bmsTimeout : BOOLEAN, bmsValid : BOOLEAN,
              packV : PackVolts \cup {0}]

(* begin() either brings the driver up or ends the task for good.          *)
Init ==
  /\ motor = [flags |-> 0, valid |-> FALSE, seen |-> FALSE, age |-> 0]
  /\ bms = [flags |-> "none", valid |-> FALSE, seen |-> FALSE, age |-> 0]
  /\ charger = [valid |-> FALSE, seen |-> FALSE, age |-> 0]
  /\ tel = NoTelemetry
  /\ \/ canPc = "sleep" /\ bus = "running"
     \/ canPc = "deleted" /\ bus = "stopped"
  /\ alert = "none" /\ received = 0

-----------------------------------------------------------------------------
(* Frame handlers.  Each is a relation on motor, bms, charger and tel;     *)
(* NotifyFault tells whether it raises FAULT_DETECTED.                     *)

NotifyFault(old, new, clear) == new # clear /\ new # old

HandleMotorStatus(flags) ==
  /\ motor' = [flags |-> flags, valid |-> TRUE, seen |-> TRUE, age |-> 0]
  /\ tel' = [tel EXCEPT !.motorError = flags # 0, !.motorTimeout = FALSE]
  /\ UNCHANGED <<bms, charger>>

CheckPackVoltageFault(packV) ==
  IF packV <= CriticalMinDeciV THEN "under"
  ELSE IF packV >= CriticalMaxDeciV THEN "over" ELSE "none"

BugKeepsOldFault(packV) ==
  /\ bms' = [bms EXCEPT !.valid = TRUE, !.seen = TRUE, !.age = 0]
  /\ tel' = [tel EXCEPT !.packV = packV, !.bmsValid = TRUE,
                        !.bmsTimeout = FALSE]
  /\ UNCHANGED <<motor, charger>>

HandleLbBmsE000(packV) ==
  /\ bms' = [flags |-> CheckPackVoltageFault(packV), valid |-> TRUE,
             seen |-> TRUE, age |-> 0]
  /\ tel' = [tel EXCEPT !.packV = packV, !.bmsValid = TRUE,
                        !.bmsTimeout = FALSE]
  /\ UNCHANGED <<motor, charger>>

HandleCharger ==
  /\ charger' = [valid |-> TRUE, seen |-> TRUE, age |-> 0]
  /\ UNCHANGED <<motor, bms, tel>>

-----------------------------------------------------------------------------
(* The freshness checks at the end of processRxMessages.                   *)

IsTimedOut(s, limit) == s.seen /\ s.valid /\ s.age >= limit

BugTimeoutOnlyInvalidates ==
  LET motorLost == IsTimedOut(motor, CanTimeout)
      bmsValid == bms.valid /\ ~IsTimedOut(bms, CanTimeout) IN
  /\ motor' = [motor EXCEPT !.valid = @ /\ ~motorLost]
  /\ bms' = [bms EXCEPT !.valid = bmsValid]
  /\ charger' = [charger EXCEPT
                   !.valid = @ /\ ~IsTimedOut(charger, ChargerTimeout)]
  /\ tel' = [tel EXCEPT !.motorTimeout = @ \/ motorLost,
                        !.bmsValid = @ /\ bmsValid]

UpdateValidity ==
  LET motorLost == IsTimedOut(motor, CanTimeout)
      bmsValid == bms.valid /\ ~IsTimedOut(bms, CanTimeout) IN
  /\ motor' = [motor EXCEPT !.valid = @ /\ ~motorLost]
  /\ bms' = [bms EXCEPT !.valid = bmsValid]
  /\ charger' = [charger EXCEPT
                   !.valid = @ /\ ~IsTimedOut(charger, ChargerTimeout)]
  /\ tel' = [tel EXCEPT
               !.motorTimeout = @ \/ motorLost,
               !.bmsValid = @ /\ bmsValid,
               !.bmsTimeout = @ \/ (~bmsValid /\ bms.seen)]

-----------------------------------------------------------------------------
(* The bus.  The driver stops on bus-off until its recovery is initiated,  *)
(* and again when recovered until it is started.                           *)

BusOff == /\ bus = "running" /\ bus' = "off" /\ alert' = "busOff"
          /\ UNCHANGED <<motor, bms, charger, tel, canPc, received>>

Recovered == /\ bus = "recovering" /\ bus' = "stopped" /\ alert' = "recovered"
             /\ UNCHANGED <<motor, bms, charger, tel, canPc, received>>

BugNoRestart ==
  /\ canPc = "top" /\ canPc' = "rx" /\ received' = 0
  /\ alert' = "none"
  /\ bus' = IF alert = "busOff" THEN "recovering" ELSE bus
  /\ UNCHANGED <<motor, bms, charger, tel>>

(* processRxMessages reads the alerts and answers them.                    *)
ReadAlerts ==
  /\ canPc = "top" /\ canPc' = "rx" /\ received' = 0
  /\ alert' = "none"
  /\ bus' = CASE alert = "busOff" -> "recovering"
              [] alert = "recovered" -> "running"
              [] OTHER -> bus
  /\ UNCHANGED <<motor, bms, charger, tel>>

(* twai_receive returned a frame; fault: it raises FAULT_DETECTED.  The    *)
(* driver's queue outlives a bus-off, so the model lets a frame arrive     *)
(* whatever the bus, more freely than the driver does.                     *)
Receiving == /\ canPc = "rx" /\ received < MaxPerCall
             /\ received' = received + 1
             /\ UNCHANGED <<bus, alert, canPc>>

MotorFrame(fault) ==
  /\ Receiving
  /\ \E flags \in ErrorFlags :
       HandleMotorStatus(flags) /\ fault = NotifyFault(motor.flags, flags, 0)

BmsFrame(fault) ==
  /\ Receiving
  /\ \E packV \in PackVolts :
       /\ HandleLbBmsE000(packV)
       /\ fault = NotifyFault(bms.flags, CheckPackVoltageFault(packV), "none")

ChargerFrame == Receiving /\ HandleCharger

OtherFrame == Receiving /\ UNCHANGED <<motor, bms, charger, tel>>

(* No frame left, an RX error or the fifth frame: the freshness checks,    *)
(* after which the task overwrites the mailbox with tel' and sleeps.       *)
EndCycle == /\ canPc = "rx" /\ canPc' = "sleep"
            /\ UpdateValidity
            /\ UNCHANGED <<bus, alert, received>>

(* The task wakes up; a period has passed since every last frame.          *)
Older(s) == [s EXCEPT !.age = IF s.seen /\ @ < Horizon THEN @ + 1 ELSE @]
WakeUp == /\ canPc = "sleep" /\ canPc' = "top"
          /\ motor' = Older(motor) /\ bms' = Older(bms)
          /\ charger' = Older(charger)
          /\ UNCHANGED <<tel, bus, alert, received>>

-----------------------------------------------------------------------------
Next == \/ ReadAlerts \/ EndCycle \/ WakeUp
        \/ \E fault \in BOOLEAN : MotorFrame(fault) \/ BmsFrame(fault)
        \/ ChargerFrame \/ OtherFrame
        \/ BusOff \/ Recovered

Spec == Init /\ [][Next]_canVars

(* The CAN task runs every 10 ms - each call handles at most MaxPerCall    *)
(* frames - and the driver finishes a recovery that was initiated.         *)
FairSpec == /\ Spec
            /\ WF_canVars(WakeUp) /\ WF_canVars(ReadAlerts)
            /\ WF_canVars(EndCycle) /\ WF_canVars(Recovered)

-----------------------------------------------------------------------------
(* Every variable stays in its type.                                       *)
TypeOK ==
  /\ motor \in [flags : ErrorFlags, valid : BOOLEAN, seen : BOOLEAN,
                age : 0 .. Horizon]
  /\ bms \in [flags : PackFault, valid : BOOLEAN, seen : BOOLEAN,
              age : 0 .. Horizon]
  /\ charger \in [valid : BOOLEAN, seen : BOOLEAN, age : 0 .. Horizon]
  /\ tel \in Published
  /\ bus \in {"running", "off", "recovering", "stopped"}
  /\ alert \in {"none", "busOff", "recovered"}
  /\ canPc \in {"sleep", "top", "rx", "deleted"}
  /\ received \in 0 .. MaxPerCall

(* What a finished cycle publishes tells exactly which sources are silent: *)
(* a source once seen is flagged as timed out if and only if its last      *)
(* frame is older than its timeout, and its data counts as valid if and    *)
(* only if it is not; one never seen is neither.  Hearing a source again   *)
(* takes all of it back, in whatever order frames and checks came.         *)
FlagsTellSilence ==
  canPc = "sleep" =>
    /\ tel.motorTimeout <=> (motor.seen /\ motor.age >= CanTimeout)
    /\ tel.bmsTimeout <=> (bms.seen /\ bms.age >= CanTimeout)
    /\ motor.valid <=> (motor.seen /\ motor.age < CanTimeout)
    /\ tel.bmsValid <=> (bms.seen /\ bms.age < CanTimeout)
    /\ charger.valid <=> (charger.seen /\ charger.age < ChargerTimeout)

(* The flags whose changes raise FAULT_DETECTED and the levels VcuLogic    *)
(* compares describe the same frame: neither can be critical alone.        *)
EdgeAgreesWithLevel ==
  /\ tel.motorError <=> motor.flags # 0
  /\ bms.seen => bms.flags = CheckPackVoltageFault(tel.packV)

(* A bus-off is recovered from: the CAN task restarts the bus.             *)
BusComesBack == bus = "off" ~> bus = "running"
=============================================================================
