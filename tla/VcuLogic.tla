------------------------------ MODULE VcuLogic ------------------------------
(***************************************************************************)
(* The vehicle control state machine of src/VcuLogic.cpp, the task that    *)
(* drives it (vTask_VCU_Logic in main.cpp) and the two ways other tasks    *)
(* reach it: the bounded event queue and the atomic E-STOP flag.           *)
(*                                                                         *)
(* One call of run() is two steps, because run() touches the data other    *)
(* tasks write at two moments: it exchanges the E-STOP flag first          *)
(* (RunEStop, RunCritical, RunProceed) and receives from the queue later   *)
(* (the Poll actions).  CAN and HMI tasks may post between the two.        *)
(*                                                                         *)
(* The positive contactor bank is abstracted to the set of OLAT banks      *)
(* whose outputs are energised; a command writes each bank over SPI and a  *)
(* failed write is logged and forgotten, so a command reaches a set of     *)
(* banks chosen from Writes.                                               *)
(***************************************************************************)
EXTENDS Integers, Sequences

CONSTANTS
  QueueCap,          (* length of s_eventQueue                              *)
  TaskPeriodMs,      (* TASK_PERIOD_MS, added to the timer by every run()   *)
  OpenDelayMs,       (* VCU_CONTACTOR_OPEN_DELAY_MS                         *)
  ReassertMs,        (* the 1000 ms between two silent allOff calls         *)
  TimerMod,          (* 2^32: s_stateTimer and the log times are uint32_t   *)
  CriticalMinDeciV,  (* BMS_CRITICAL_MIN_PACK_VOLTAGE_DECI_V                *)
  CriticalMaxDeciV,  (* BMS_CRITICAL_MAX_PACK_VOLTAGE_DECI_V                *)
  Snapshots,         (* the telemetry snapshots the mailbox may hold        *)
  Bank,              (* the OLAT registers of the relay expander            *)
  Writes             (* the sets of banks one bank-wide command may reach   *)

(* What run() reads of a TelemetryData: motorError is TEL_motorErrorFlags  *)
(* # 0.  TEL_bmsSystemState is left out: no CAN handler ever writes it, so *)
(* it stays 0 and its comparison with 4 is false.                          *)
Telemetry == [motorError : BOOLEAN, motorTimeout : BOOLEAN,
              bmsTimeout : BOOLEAN, bmsValid : BOOLEAN, packV : Nat]

NoTelemetry == [motorError |-> FALSE, motorTimeout |-> FALSE,
                bmsTimeout |-> FALSE, bmsValid |-> FALSE, packV |-> 0]

ASSUME VcuAssumption ==
  /\ QueueCap \in Nat \ {0}
  /\ TaskPeriodMs \in Nat \ {0}
  /\ OpenDelayMs \in Nat
  /\ ReassertMs \in Nat \ {0}
  /\ TimerMod \in Nat /\ TimerMod > TaskPeriodMs + ReassertMs
  /\ CriticalMinDeciV \in Nat /\ CriticalMaxDeciV \in Nat
  /\ Snapshots \subseteq Telemetry /\ Snapshots # {}
  /\ Writes \subseteq SUBSET Bank /\ Writes # {}

Running == {"IDLE", "READY", "DRIVE"}
Stopped == {"EMERGENCY_STOP", "FAULT"}
VcuState == Running \cup Stopped
(* The events that travel through the queue: EMERGENCY_STOP never does.    *)
VcuEvent == {"START_REQUEST", "DRIVE_ENABLE", "FAULT_DETECTED", "RESET"}

VARIABLES
  state,         (* s_state                                                 *)
  stateTimer,    (* s_stateTimer: milliseconds since the last transition    *)
  eventQueue,    (* s_eventQueue                                            *)
  eStopPending,  (* s_eStopPending                                          *)
  telemetry,     (* s_TEL_latestData                                        *)
  relaysOpened,  (* s_relaysOpenedInEstop and s_relaysOpenedInFault         *)
  lastLogMs,     (* s_lastEstopLogMs and s_lastFaultLogMs                   *)
  commanded,     (* RelayManager's s_relayState: is the bank commanded on?  *)
  energised,     (* the banks whose outputs are really on                   *)
  pc             (* where the VCU task is: before run() or at pollEvent     *)

relayVars == <<commanded, energised>>
stopVars == <<relaysOpened, lastLogMs>>
vars == <<state, stateTimer, eventQueue, eStopPending, telemetry,
          relaysOpened, lastLogMs, commanded, energised, pc>>

-----------------------------------------------------------------------------
(* Safety predicates of VcuLogic.h.                                        *)

BugTimeoutsToleratedInReady(t, s) ==
  \/ t.motorError
  \/ t.motorTimeout /\ s \notin {"IDLE", "READY"}
  \/ t.bmsTimeout /\ s \notin {"IDLE", "READY"}
  \/ t.bmsValid /\ (t.packV <= CriticalMinDeciV \/ t.packV >= CriticalMaxDeciV)

HasCriticalCondition(t, s) ==
  \/ t.motorError
  \/ t.motorTimeout /\ s # "IDLE"
  \/ t.bmsTimeout /\ s # "IDLE"
  \/ t.bmsValid /\ (t.packV <= CriticalMinDeciV \/ t.packV >= CriticalMaxDeciV)

IsResetInterlockSatisfied(t, s) ==
  ~t.motorError /\ ~HasCriticalCondition(t, s)

-----------------------------------------------------------------------------
(* RelayManager::allOn and allOff, and transitionTo.                       *)

AllOn == /\ commanded' = TRUE
         /\ \E w \in Writes : energised' = energised \cup w

AllOff == /\ commanded' = FALSE
          /\ \E w \in Writes : energised' = energised \ w

BugTransitionKeepsFlag(next) ==
  /\ state' = next
  /\ stateTimer' = 0
  /\ UNCHANGED stopVars

TransitionTo(next) ==
  /\ state' = next
  /\ stateTimer' = 0
  /\ relaysOpened' = [s \in Stopped |-> relaysOpened[s] /\ s # next]
  /\ lastLogMs' = [s \in Stopped |-> IF s = next THEN TimerMod - ReassertMs
                                     ELSE lastLogMs[s]]

-----------------------------------------------------------------------------
(* The periodic handlers, run at the end of run() in the state it has then. *)

Elapsed(s) == (stateTimer - lastLogMs[s]) % TimerMod

HandleReady(timer) ==
  IF timer <= TaskPeriodMs THEN AllOn ELSE UNCHANGED relayVars

BugNoReassert(s) ==
  LET due == stateTimer >= OpenDelayMs IN
  /\ IF due /\ ~relaysOpened[s] THEN AllOff ELSE UNCHANGED relayVars
  /\ relaysOpened' = [relaysOpened EXCEPT ![s] = @ \/ due]
  /\ UNCHANGED lastLogMs

BugFlagBeforeDelay(s) ==
  /\ IF stateTimer > OpenDelayMs /\ ~relaysOpened[s]
     THEN AllOff ELSE UNCHANGED relayVars
  /\ relaysOpened' = [relaysOpened EXCEPT ![s] = TRUE]
  /\ UNCHANGED lastLogMs

(* handleEmergencyStop and handleFault are the same code over two pairs of *)
(* variables: open once after the delay, then again every second.          *)
HandleStop(s) ==
  LET due == stateTimer >= OpenDelayMs
      log == Elapsed(s) >= ReassertMs IN
  /\ IF due /\ (~relaysOpened[s] \/ log) THEN AllOff ELSE UNCHANGED relayVars
  /\ relaysOpened' = [relaysOpened EXCEPT ![s] = @ \/ due]
  /\ lastLogMs' = [lastLogMs EXCEPT ![s] = IF log THEN stateTimer ELSE @]

PeriodicHandler ==
  /\ UNCHANGED <<state, stateTimer>>
  /\ \/ state \in Stopped /\ HandleStop(state)
     \/ state = "READY" /\ HandleReady(stateTimer) /\ UNCHANGED stopVars
     \/ state \in {"IDLE", "DRIVE"} /\ UNCHANGED <<relayVars, stopVars>>

-----------------------------------------------------------------------------
(* First half of a cycle: peek the mailbox, advance the timer, take the    *)
(* E-STOP flag and look for a critical condition.                          *)

StartCycle(t) ==
  /\ pc = "top"
  /\ telemetry' = t
  /\ eStopPending' = FALSE
  /\ UNCHANGED <<eventQueue, relayVars>>

RunEStop(t) ==
  /\ StartCycle(t)
  /\ eStopPending /\ state # "EMERGENCY_STOP"
  /\ TransitionTo("EMERGENCY_STOP")
  /\ pc' = "top"

BugCriticalBeforeEStop(t) ==
  /\ StartCycle(t)
  /\ state \in Running /\ HasCriticalCondition(t, state)
  /\ TransitionTo("FAULT")
  /\ pc' = "top"

RunCritical(t) ==
  /\ StartCycle(t)
  /\ ~eStopPending
  /\ state \in Running /\ HasCriticalCondition(t, state)
  /\ TransitionTo("FAULT")
  /\ pc' = "top"

RunProceed(t) ==
  /\ StartCycle(t)
  /\ eStopPending => state = "EMERGENCY_STOP"
  /\ state \in Running => ~HasCriticalCondition(t, state)
  /\ stateTimer' = (stateTimer + TaskPeriodMs) % TimerMod
  /\ pc' = "poll"
  /\ UNCHANGED <<state, stopVars>>

-----------------------------------------------------------------------------
(* Second half: at most one event is received, then the periodic handler   *)
(* runs unless the event returned early.                                   *)

AtPoll == /\ pc = "poll" /\ pc' = "top"
          /\ UNCHANGED <<telemetry, eStopPending>>

Receive(e) == /\ AtPoll
              /\ eventQueue # <<>> /\ Head(eventQueue) = e
              /\ eventQueue' = Tail(eventQueue)

PollEmpty == /\ AtPoll
             /\ eventQueue = <<>> /\ UNCHANGED eventQueue
             /\ PeriodicHandler

PollFault == /\ Receive("FAULT_DETECTED")
             /\ TransitionTo("FAULT")
             /\ UNCHANGED relayVars

BugResetWithoutInterlock ==
  /\ Receive("RESET")
  /\ state \in Stopped
  /\ TransitionTo("IDLE")
  /\ UNCHANGED relayVars

BugResetAnywhere ==
  /\ Receive("RESET")
  /\ IsResetInterlockSatisfied(telemetry, state)
  /\ TransitionTo("IDLE")
  /\ UNCHANGED relayVars

PollResetAccepted ==
  /\ Receive("RESET")
  /\ state \in Stopped /\ IsResetInterlockSatisfied(telemetry, state)
  /\ TransitionTo("IDLE")
  /\ UNCHANGED relayVars

(* A rejected RESET returns before the periodic handler.                   *)
PollResetRejected ==
  /\ Receive("RESET")
  /\ state \in Stopped /\ ~IsResetInterlockSatisfied(telemetry, state)
  /\ UNCHANGED <<state, stateTimer, stopVars, relayVars>>

BugStartBeforeContactors ==
  /\ Receive("START_REQUEST")
  /\ state = "IDLE"
  /\ TransitionTo("READY")
  /\ UNCHANGED relayVars

PollStart == /\ Receive("START_REQUEST")
             /\ state = "IDLE"
             /\ TransitionTo("READY")
             /\ HandleReady(0)

PollDriveEnable == /\ Receive("DRIVE_ENABLE")
                   /\ state = "READY"
                   /\ TransitionTo("DRIVE")
                   /\ UNCHANGED relayVars

(* Any other event is dropped and the cycle goes on to the handler.        *)
PollIgnored ==
  /\ \/ Receive("START_REQUEST") /\ state # "IDLE"
     \/ Receive("DRIVE_ENABLE") /\ state # "READY"
     \/ Receive("RESET") /\ state \in Running
  /\ PeriodicHandler

-----------------------------------------------------------------------------
(* postEvent, called from the CAN task (FAULT_DETECTED) and from the HMI   *)
(* task (the rest).  xQueueSend does not wait: a full queue drops.         *)

BugPostUnchecked(e) ==
  /\ eventQueue' = IF Len(eventQueue) <= QueueCap THEN Append(eventQueue, e)
                   ELSE eventQueue
  /\ UNCHANGED <<state, stateTimer, eStopPending, telemetry, stopVars,
                 relayVars, pc>>

PostEvent(e) ==
  /\ eventQueue' = IF Len(eventQueue) < QueueCap THEN Append(eventQueue, e)
                   ELSE eventQueue
  /\ UNCHANGED <<state, stateTimer, eStopPending, telemetry, stopVars,
                 relayVars, pc>>

PostEStop ==
  /\ eStopPending' = TRUE
  /\ UNCHANGED <<state, stateTimer, eventQueue, telemetry, stopVars,
                 relayVars, pc>>

-----------------------------------------------------------------------------
(* After RelayManager::begin and VcuLogic::init: relays off and IDLE.      *)
Init ==
  /\ state = "IDLE" /\ stateTimer = 0
  /\ eventQueue = <<>> /\ eStopPending = FALSE
  /\ telemetry = NoTelemetry
  /\ relaysOpened = [s \in Stopped |-> FALSE]
  /\ lastLogMs = [s \in Stopped |-> 0]
  /\ commanded = FALSE /\ energised = {}
  /\ pc = "top"

RunTop == \E t \in Snapshots : RunEStop(t) \/ RunCritical(t) \/ RunProceed(t)

RunPoll == \/ PollEmpty \/ PollFault
           \/ PollResetAccepted \/ PollResetRejected
           \/ PollStart \/ PollDriveEnable \/ PollIgnored

Next == \/ RunTop \/ RunPoll
        \/ \E e \in VcuEvent : PostEvent(e)
        \/ PostEStop

Spec == Init /\ [][Next]_vars

(* The VCU task has core 1 to itself at the highest priority: it keeps     *)
(* running.  Nobody is obliged to press a button or to report a fault.     *)
FairSpec == Spec /\ WF_vars(RunTop) /\ WF_vars(RunPoll)

(* Whatever the SPI bus does to a write, a later one succeeds: failures of *)
(* the relay expander's writes are transient.                              *)
SpiFairSpec ==
  FairSpec /\ SF_vars(RunPoll /\ energised # {} /\ energised' = {})

-----------------------------------------------------------------------------
(* Every variable stays in its type.                                       *)
TypeOK ==
  /\ state \in VcuState
  /\ stateTimer \in 0 .. TimerMod - 1
  /\ eventQueue \in Seq(VcuEvent) /\ Len(eventQueue) <= QueueCap
  /\ eStopPending \in BOOLEAN
  /\ telemetry \in Telemetry
  /\ relaysOpened \in [Stopped -> BOOLEAN]
  /\ lastLogMs \in [Stopped -> 0 .. TimerMod - 1]
  /\ commanded \in BOOLEAN
  /\ energised \in SUBSET Bank
  /\ pc \in {"top", "poll"}

(* With a reliable SPI bus, the "relays opened" flag of the current stop   *)
(* state is never a leftover: if it is set, the bank is de-energised.      *)
(* handleEmergencyStop and handleFault skip allOff on that flag.           *)
OpenedMeansOpen ==
  state \in Stopped /\ relaysOpened[state] => energised = {}

(* With a reliable SPI bus, READY and DRIVE are never observed at the end  *)
(* of a cycle with a contactor open: allOn runs in the cycle that enters   *)
(* READY, and nothing opens a contactor without leaving DRIVE.             *)
ArmedMeansEnergised == state \in {"READY", "DRIVE"} => energised = Bank

(* The vehicle never drives on a snapshot with a critical condition: the   *)
(* check at the top of run() and DRIVE_ENABLE, polled later in the same    *)
(* cycle, see the same snapshot, and READY is checked as strictly.         *)
DriveIsHealthy ==
  state = "DRIVE" => ~HasCriticalCondition(telemetry, "DRIVE")

(* With a reliable SPI bus, a cycle that reaches the handler of a stop     *)
(* state after the open delay ends with the bank open, whether the allOff  *)
(* was this cycle's or an earlier one's.                                   *)
QuietCycleOpens ==
  [][/\ PollEmpty \/ PollIgnored
     /\ state \in Stopped /\ stateTimer >= OpenDelayMs
     => energised' = {}]_vars

(* FAULT and EMERGENCY_STOP are left only for IDLE, and only on a snapshot *)
(* that shows no critical condition, timeouts included (those that IDLE    *)
(* itself tolerates).                                                      *)
StopLeftOnlyWhenHealthy ==
  [][/\ state \in Stopped
     /\ state' \in Running
     => state' = "IDLE" /\ ~HasCriticalCondition(telemetry, "READY")]_vars

Policy ==
  INSTANCE ContactorPolicy WITH
    live <- energised,
    mode <- IF state = "IDLE" THEN "idle"
            ELSE IF state \in Stopped THEN "stopped" ELSE "armed"

(* The controller implements the contactor policy, even when SPI writes    *)
(* fail: contactors move only in the modes that may move them.             *)
ImplementsPolicy == Policy!Spec

(* An E-STOP that was posted reaches the EMERGENCY_STOP state, whatever is *)
(* queued and whatever telemetry shows.                                    *)
EStopTakesEffect == eStopPending ~> state = "EMERGENCY_STOP"

(* Even if every allOff may fail on SPI, the periodic re-assertion opens   *)
(* the contactors of a stopped vehicle once events stop arriving.          *)
QuietStopOpens ==
  <>[](eventQueue = <<>> /\ ~eStopPending)
    => <>[](state \in Stopped => energised = {})

-----------------------------------------------------------------------------
(* What comments and tests of the repository say and the code does not do. *)

(* VcuLogic.cpp:197, handleIdle: "All relays off - safe resting state".    *)
IdleMeansOpen == state = "IDLE" => energised = {}

(* test_state_machine.cpp:256: after entering EMERGENCY_STOP the second    *)
(* run() must trigger allOff; here only that a stop opens the contactors   *)
(* eventually, or is reset.                                                *)
StopOpensContactors ==
  state \in Stopped ~> (energised = {} \/ state = "IDLE")

(* CanManager.cpp:413: going to READY or DRIVE "already requires fresh     *)
(* data" of the BMS.                                                       *)
ArmedMeansFreshBms == state \in {"READY", "DRIVE"} => telemetry.bmsValid
=============================================================================
