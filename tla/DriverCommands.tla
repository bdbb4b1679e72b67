--------------------------- MODULE DriverCommands ---------------------------
(***************************************************************************)
(* The way of a touch command to the contactors: the panel's frames wait   *)
(* in the UART buffer until vTask_HMI_Display scans it, the first command  *)
(* of a scan is posted to VcuLogic, and run() takes one event a cycle.     *)
(* The CAN task's FAULT_DETECTED events share the queue; the E-STOP does   *)
(* not.  Nothing limits how many of them come: the CAN task handles up to  *)
(* five frames every 10 ms and posts one whenever a frame's errors change. *)
(*                                                                         *)
(* Time is counted in cycles of the VCU task (20 ms): between two scans    *)
(* lie at least the 100 ms of the HMI task's delay.  Frames are whole      *)
(* here; HmiDisplay has their bytes.                                       *)
(***************************************************************************)
EXTENDS Integers, Sequences

CONSTANTS
  QueueCap, TaskPeriodMs, OpenDelayMs, ReassertMs, TimerMod,
  CriticalMinDeciV, CriticalMaxDeciV, Bank, Snapshots,
  ScanCycles,   (* VCU cycles in the delay of the HMI task: 100 ms / 20 ms  *)
  Quiet,        (* faults between two scans up to which the properties call *)
                (* the bus quiet; the environment is not bound by it        *)
  WireCap       (* bound: frames waiting in the UART buffer                 *)

VARIABLES
  state, stateTimer, eventQueue, eStopPending, telemetry, relaysOpened,
  lastLogMs, commanded, energised, pc,
  pressed,     (* touch commands that arrived since the last scan           *)
  sinceScan,   (* VCU cycles since then, up to ScanCycles                   *)
  faults,      (* history: FAULT_DETECTED events posted since then, counted *)
               (* up to Quiet + 1                                           *)
  calm,        (* history: the bus was quiet since a scan last found the    *)
               (* queue empty                                               *)
  older        (* history: events in the queue when the last E-STOP was     *)
               (* posted that have not been received yet                    *)

vcuVars == <<state, stateTimer, eventQueue, eStopPending, telemetry,
             relaysOpened, lastLogMs, commanded, energised, pc>>
scanVars == <<sinceScan, faults, calm>>
vars == <<vcuVars, pressed, scanVars, older>>

(* Every write to the relay expander succeeds here.                        *)
Vcu == INSTANCE VcuLogic WITH Writes <- {Bank}

ASSUME DriverAssumption ==
  /\ Vcu!VcuAssumption
  /\ ScanCycles \in Nat \ {0} /\ Quiet \in Nat /\ WireCap \in Nat \ {0}

Command == {"START_REQUEST", "DRIVE_ENABLE", "RESET", "EMERGENCY_STOP"}

-----------------------------------------------------------------------------
Press(c) ==
  /\ Len(pressed) < WireCap
  /\ pressed' = Append(pressed, c)
  /\ UNCHANGED <<vcuVars, scanVars, older>>

BugScanWithoutDelay ==
  /\ sinceScan' = 0
  /\ faults' = 0 /\ calm' = (calm \/ eventQueue = <<>>) /\ pressed' = <<>>
  /\ IF pressed = <<>> THEN UNCHANGED <<vcuVars, older>>
     ELSE IF Head(pressed) = "EMERGENCY_STOP"
     THEN Vcu!PostEStop /\ older' = Len(eventQueue)
     ELSE Vcu!PostEvent(Head(pressed)) /\ UNCHANGED older

BugLastCommandWins ==
  /\ sinceScan = ScanCycles /\ sinceScan' = 0
  /\ faults' = 0 /\ calm' = (calm \/ eventQueue = <<>>) /\ pressed' = <<>>
  /\ IF pressed = <<>> THEN UNCHANGED <<vcuVars, older>>
     ELSE IF pressed[Len(pressed)] = "EMERGENCY_STOP"
     THEN Vcu!PostEStop /\ older' = Len(eventQueue)
     ELSE Vcu!PostEvent(pressed[Len(pressed)]) /\ UNCHANGED older

(* readTouchCommand and the switch over its result: the buffer is emptied, *)
(* and every command in it but the first is passed over.                   *)
Scan ==
  /\ sinceScan = ScanCycles /\ sinceScan' = 0
  /\ faults' = 0 /\ calm' = (calm \/ eventQueue = <<>>) /\ pressed' = <<>>
  /\ IF pressed = <<>> THEN UNCHANGED <<vcuVars, older>>
     ELSE IF Head(pressed) = "EMERGENCY_STOP"
     THEN Vcu!PostEStop /\ older' = Len(eventQueue)
     ELSE Vcu!PostEvent(Head(pressed)) /\ UNCHANGED older

(* notifyFaultIfNeeded, at a frame whose error byte is new and not zero:   *)
(* at any moment, any number of times.  A full queue drops the event.      *)
CanFault ==
  /\ Vcu!PostEvent("FAULT_DETECTED")
  /\ faults' = IF faults > Quiet THEN faults ELSE faults + 1
  /\ calm' = (calm /\ faults < Quiet)
  /\ UNCHANGED <<pressed, sinceScan, older>>

VcuTop ==
  /\ Vcu!RunTop
  /\ sinceScan' = IF sinceScan < ScanCycles THEN sinceScan + 1 ELSE sinceScan
  /\ UNCHANGED <<pressed, faults, calm, older>>

VcuPoll ==
  /\ Vcu!RunPoll
  /\ older' = IF older > 0 THEN older - 1 ELSE 0
  /\ UNCHANGED <<pressed, scanVars>>

Init == /\ Vcu!Init
        /\ pressed = <<>> /\ sinceScan = ScanCycles
        /\ faults = 0 /\ calm = TRUE /\ older = 0

Next == VcuTop \/ VcuPoll \/ Scan \/ CanFault \/ \E c \in Command : Press(c)

Spec == Init /\ [][Next]_vars

(* The two tasks keep running.  Nobody is obliged to press anything.       *)
FairSpec == Spec /\ WF_vars(VcuTop) /\ WF_vars(VcuPoll) /\ WF_vars(Scan)

-----------------------------------------------------------------------------
(* Every variable stays in its type; events older than the last E-STOP are *)
(* at the front of the queue.                                              *)
TypeOK ==
  /\ Vcu!TypeOK
  /\ pressed \in Seq(Command) /\ Len(pressed) <= WireCap
  /\ sinceScan \in 0 .. ScanCycles /\ faults \in 0 .. Quiet + 1
  /\ calm \in BOOLEAN
  /\ older \in 0 .. Len(eventQueue)

(* An E-STOP that was taken is not undone by a RESET that had been waiting *)
(* in the queue before it.  A burst of faults delays such a RESET until    *)
(* after the E-STOP, so this does not hold of the code.                    *)
OlderResetNeverWins ==
  [][Vcu!PollResetAccepted => older = 0 \/ eStopPending]_vars

(* On a quiet bus it does hold: the queue is served before the next scan.  *)
OlderResetWinsOnlyAfterBurst ==
  [][Vcu!PollResetAccepted /\ calm => older = 0 \/ eStopPending]_vars

(* A driver's command is dropped by a full queue only after a burst of     *)
(* faults: on a quiet bus the queue has room for it.                       *)
DropsOnlyAfterBurst ==
  [][Scan /\ pressed # <<>> /\ calm => Len(eventQueue) < QueueCap]_vars

(* An E-STOP that comes first after a scan stops the vehicle, whatever is  *)
(* pressed after it and however many faults fill the queue.                *)
FirstPressStops ==
  (pressed # <<>> /\ Head(pressed) = "EMERGENCY_STOP")
    ~> state = "EMERGENCY_STOP"
=============================================================================
