------------------------------ MODULE Startup ------------------------------
(***************************************************************************)
(* The firmware starts: app_main (main.cpp), VcuLogic::init, and the begin *)
(* of the CAN and the HMI task, each of which may find that a queue, a     *)
(* mutex, a driver or a task cannot be had.  Some of these failures end    *)
(* the start, some end one task, and some are only logged.  What the       *)
(* driver can do with the vehicle that comes out of it is VcuLogic's run,  *)
(* taken from the module of that name; VcuLogic's own Init is the start in *)
(* which nothing failed.                                                   *)
(*                                                                         *)
(* Power has just come on: no contactor is closed.  RelayManager has the   *)
(* restart with closed contactors.                                         *)
(***************************************************************************)
EXTENDS Integers, Sequences

CONSTANTS
  QueueCap, TaskPeriodMs, OpenDelayMs, ReassertMs, TimerMod,
  CriticalMinDeciV, CriticalMaxDeciV, Bank, Snapshots,
  HmiTries      (* attempts of the HMI task to start its display: 5         *)

VARIABLES
  state, stateTimer, eventQueue, eStopPending, telemetry, relaysOpened,
  lastLogMs, commanded, energised, pc,
  step,        (* what app_main does next                                   *)
  have,        (* the services that could be had                            *)
  can, hmi,    (* how far the two tasks are                                 *)
  tries,       (* retry_count                                               *)
  vcuTask,     (* the VCU task was created                                  *)
  mailbox      (* TEL_sensorDataQueue's contents: {} or one snapshot        *)

vcuVars == <<state, stateTimer, eventQueue, eStopPending, telemetry,
             relaysOpened, lastLogMs, commanded, energised, pc>>
taskVars == <<can, hmi, tries, vcuTask>>
vars == <<vcuVars, step, have, taskVars, mailbox>>

Vcu == INSTANCE VcuLogic WITH Writes <- {Bank}

StartAssumption == HmiTries \in Nat \ {0} /\ Vcu!VcuAssumption

Command == {"START_REQUEST", "DRIVE_ENABLE", "RESET"}

-----------------------------------------------------------------------------
(* app_main.  Without relays or mailbox it returns.                        *)
RelayBegin ==
  /\ step = "relays"
  /\ \/ step' = "vcu" /\ have' = have \cup {"relays"}
     \/ step' = "returned" /\ UNCHANGED have
  /\ UNCHANGED <<vcuVars, taskVars, mailbox>>

(* VcuLogic::init returns early without an event queue or without a mutex, *)
(* and leaves the state at INIT; app_main does not learn of it.            *)
VcuInit ==
  /\ step = "vcu" /\ step' = "mailbox"
  /\ \/ UNCHANGED <<have, vcuVars>>
     \/ have' = have \cup {"queue"} /\ UNCHANGED vcuVars
     \/ /\ have' = have \cup {"queue", "mutex"}
        /\ Vcu!AllOff /\ Vcu!TransitionTo("IDLE")
        /\ UNCHANGED <<eventQueue, eStopPending, telemetry, pc>>
  /\ UNCHANGED <<taskVars, mailbox>>

BugMailboxUnchecked ==
  /\ step = "mailbox" /\ step' = "can"
  /\ have' \in {have, have \cup {"mailbox"}}
  /\ UNCHANGED <<vcuVars, taskVars, mailbox>>

CreateMailbox ==
  /\ step = "mailbox"
  /\ \/ step' = "can" /\ have' = have \cup {"mailbox"}
     \/ step' = "returned" /\ UNCHANGED have
  /\ UNCHANGED <<vcuVars, taskVars, mailbox>>

(* The result of xTaskCreatePinnedToCore is not looked at.                 *)
CreateCan ==
  /\ step = "can" /\ step' = "hmi"
  /\ can' \in {"none", "begin"}
  /\ UNCHANGED <<vcuVars, have, hmi, tries, vcuTask, mailbox>>

CreateHmi ==
  /\ step = "hmi" /\ step' = "vcuTask"
  /\ hmi' \in {"none", "begin"}
  /\ UNCHANGED <<vcuVars, have, can, tries, vcuTask, mailbox>>

CreateVcu ==
  /\ step = "vcuTask" /\ step' = "done"
  /\ vcuTask' \in BOOLEAN
  /\ UNCHANGED <<vcuVars, have, can, hmi, tries, mailbox>>

Main == RelayBegin \/ VcuInit \/ CreateMailbox
        \/ CreateCan \/ CreateHmi \/ CreateVcu

-----------------------------------------------------------------------------
(* The CAN task ends if its mutex or the TWAI driver cannot be had.        *)
CanBegin ==
  /\ can = "begin" /\ can' \in {"run", "deleted"}
  /\ UNCHANGED <<vcuVars, step, have, hmi, tries, vcuTask, mailbox>>

(* The HMI task tries again, and after HmiTries failures sleeps for good.  *)
(* retry_count is not read after begin has succeeded.                      *)
HmiBegin ==
  /\ hmi = "begin"
  /\ \/ hmi' = "run" /\ tries' = 0
     \/ /\ tries' = tries + 1
        /\ hmi' = IF tries' < HmiTries THEN "begin" ELSE "degraded"
  /\ UNCHANGED <<vcuVars, step, have, can, vcuTask, mailbox>>

-----------------------------------------------------------------------------
(* The running tasks.  postEvent returns at once without a queue.          *)
Post(e) == IF "queue" \in have THEN Vcu!PostEvent(e) ELSE UNCHANGED vcuVars

PostEStop == IF "queue" \in have THEN Vcu!PostEStop ELSE UNCHANGED vcuVars

CanPublish ==
  /\ can = "run" /\ \E t \in Snapshots : mailbox' = {t}
  /\ UNCHANGED <<vcuVars, step, have, taskVars>>

CanFault ==
  /\ can = "run" /\ Post("FAULT_DETECTED")
  /\ UNCHANGED <<step, have, taskVars, mailbox>>

HmiCommand ==
  /\ hmi = "run"
  /\ PostEStop \/ \E e \in Command : Post(e)
  /\ UNCHANGED <<step, have, taskVars, mailbox>>

(* setTelemetryData does nothing without the mutex: run() goes on with the *)
(* snapshot it has, which is all zero.                                     *)
Seen == IF mailbox # {} /\ "mutex" \in have THEN mailbox ELSE {telemetry}

BugInitIdles ==
  /\ vcuTask /\ state # "INIT"
  /\ \E t \in Seen : Vcu!RunEStop(t) \/ Vcu!RunCritical(t) \/ Vcu!RunProceed(t)
  /\ UNCHANGED <<step, have, taskVars, mailbox>>

VcuTop ==
  /\ vcuTask
  /\ \E t \in Seen : Vcu!RunEStop(t) \/ Vcu!RunCritical(t) \/ Vcu!RunProceed(t)
  /\ UNCHANGED <<step, have, taskVars, mailbox>>

(* In INIT only FAULT_DETECTED has an effect, and there is no handler.     *)
InitPoll ==
  /\ state = "INIT" /\ Vcu!AtPoll
  /\ \/ eventQueue = <<>> /\ UNCHANGED eventQueue
     \/ /\ eventQueue # <<>> /\ Head(eventQueue) # "FAULT_DETECTED"
        /\ eventQueue' = Tail(eventQueue)
  /\ UNCHANGED <<state, stateTimer, relaysOpened, lastLogMs, commanded, energised>>

VcuPoll ==
  /\ vcuTask
  /\ InitPoll \/ Vcu!RunPoll
  /\ UNCHANGED <<step, have, taskVars, mailbox>>

Init ==
  /\ state = "INIT" /\ stateTimer = 0 /\ eventQueue = <<>>
  /\ eStopPending = FALSE /\ telemetry = Vcu!NoTelemetry
  /\ relaysOpened = [s \in Vcu!Stopped |-> FALSE]
  /\ lastLogMs = [s \in Vcu!Stopped |-> 0]
  /\ commanded = FALSE /\ energised = {} /\ pc = "top"
  /\ step = "relays" /\ have = {} /\ can = "none" /\ hmi = "none"
  /\ tries = 0 /\ vcuTask = FALSE /\ mailbox = {}

Next == \/ Main \/ CanBegin \/ HmiBegin
        \/ CanPublish \/ CanFault \/ HmiCommand
        \/ VcuTop \/ VcuPoll

Spec == Init /\ [][Next]_vars

(* Whatever was created is scheduled.  Nobody presses or reports anything. *)
FairSpec ==
  /\ Spec
  /\ WF_vars(Main) /\ WF_vars(CanBegin) /\ WF_vars(HmiBegin)
  /\ WF_vars(VcuTop) /\ WF_vars(VcuPoll)

-----------------------------------------------------------------------------
(* Every variable stays in its type; INIT is left for good.                *)
TypeOK ==
  /\ state # "INIT" => Vcu!TypeOK
  /\ step \in {"relays", "vcu", "mailbox", "can", "hmi", "vcuTask", "done",
               "returned"}
  /\ have \subseteq {"relays", "queue", "mutex", "mailbox"}
  /\ can \in {"none", "begin", "run", "deleted"}
  /\ hmi \in {"none", "begin", "run", "degraded"}
  /\ tries \in 0 .. HmiTries /\ vcuTask \in BOOLEAN
  /\ mailbox \subseteq Snapshots

(* However the start failed, a vehicle that can be armed can be stopped    *)
(* and watched: READY and DRIVE are reached only with relays, mailbox and  *)
(* event queue in being and with the HMI task reading the driver's E-STOP. *)
ArmedIsServed ==
  state \in {"READY", "DRIVE"} =>
    {"relays", "queue", "mailbox"} \subseteq have /\ hmi = "run" /\ vcuTask

(* What VcuLogic guarantees of a vehicle whose start succeeded holds of    *)
(* every vehicle: without a mutex run() decides on zero snapshots, without *)
(* a queue or an init it sits in INIT until a stop comes, but it never     *)
(* drives on a snapshot with a critical condition, a stop's open-once flag *)
(* is never a leftover, and READY and DRIVE have their contactors closed.  *)
StartedSafe ==
  Vcu!DriveIsHealthy /\ Vcu!OpenedMeansOpen /\ Vcu!ArmedMeansEnergised

(* An E-STOP is taken from the moment the panel is read: before the VCU    *)
(* task exists, and in a vehicle whose init failed half way.               *)
EStopFromTheStart ==
  (eStopPending /\ vcuTask) ~> state = "EMERGENCY_STOP"
=============================================================================
