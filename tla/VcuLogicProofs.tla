--------------------------- MODULE VcuLogicProofs ---------------------------
(***************************************************************************)
(* Proofs about VcuLogic, for every queue length, timer width, threshold   *)
(* and set of snapshots.                                                   *)
(***************************************************************************)
EXTENDS VcuLogic, TLAPS

(* The outcome of a uint32_t operation is again in the type's range.       *)
LEMMA TimerRange ==
  ASSUME NEW x \in Int
  PROVE  x % TimerMod \in 0 .. TimerMod - 1
  BY VcuAssumption

(* Receiving an event leaves a queue of events, shorter by one.            *)
LEMMA ReceiveType ==
  ASSUME TypeOK, NEW e \in VcuEvent, Receive(e)
  PROVE  /\ eventQueue' \in Seq(VcuEvent) /\ Len(eventQueue') <= QueueCap
         /\ pc' \in {"top", "poll"}
         /\ telemetry' = telemetry /\ eStopPending' = eStopPending
  BY VcuAssumption DEF TypeOK, Receive, AtPoll

(* A transition re-initialises the timer, the flags and the log times      *)
(* within their types.                                                     *)
LEMMA TransitionType ==
  ASSUME TypeOK, NEW next \in VcuState, TransitionTo(next)
  PROVE  /\ state' = next
         /\ stateTimer' \in 0 .. TimerMod - 1
         /\ relaysOpened' \in [Stopped -> BOOLEAN]
         /\ lastLogMs' \in [Stopped -> 0 .. TimerMod - 1]
  BY VcuAssumption DEF TypeOK, TransitionTo

(* Relay commands keep the energised banks a set of banks.                 *)
LEMMA RelayType ==
  ASSUME TypeOK, AllOn \/ AllOff \/ UNCHANGED relayVars
  PROVE  commanded' \in BOOLEAN /\ energised' \in SUBSET Bank
  BY VcuAssumption DEF TypeOK, AllOn, AllOff, relayVars

LEMMA StopHandlerType ==
  ASSUME TypeOK, NEW s \in Stopped, HandleStop(s)
  PROVE  /\ relaysOpened' \in [Stopped -> BOOLEAN]
         /\ lastLogMs' \in [Stopped -> 0 .. TimerMod - 1]
         /\ commanded' \in BOOLEAN /\ energised' \in SUBSET Bank
<1>1. AllOn \/ AllOff \/ UNCHANGED relayVars
  BY DEF HandleStop
<1>2. (stateTimer >= OpenDelayMs) \in BOOLEAN
  OBVIOUS
<1>3. QED
  BY <1>1, <1>2, RelayType DEF HandleStop, TypeOK

LEMMA HandlerType ==
  ASSUME TypeOK, PeriodicHandler
  PROVE  /\ state' = state /\ stateTimer' = stateTimer
         /\ relaysOpened' \in [Stopped -> BOOLEAN]
         /\ lastLogMs' \in [Stopped -> 0 .. TimerMod - 1]
         /\ commanded' \in BOOLEAN /\ energised' \in SUBSET Bank
<1>1. CASE state \in Stopped /\ HandleStop(state)
  BY <1>1, StopHandlerType DEF PeriodicHandler
<1>2. CASE state = "READY" /\ HandleReady(stateTimer) /\ UNCHANGED stopVars
  <2>1. AllOn \/ AllOff \/ UNCHANGED relayVars
    BY <1>2 DEF HandleReady
  <2>2. QED
    BY <1>2, <2>1, RelayType DEF PeriodicHandler, stopVars, TypeOK
<1>3. CASE state \in {"IDLE", "DRIVE"} /\ UNCHANGED <<relayVars, stopVars>>
  BY <1>3 DEF PeriodicHandler, relayVars, stopVars, TypeOK
<1>4. QED
  BY <1>1, <1>2, <1>3 DEF PeriodicHandler

-----------------------------------------------------------------------------
(* A step keeps every variable's type.                                     *)
LEMMA TypeStep ==
  ASSUME TypeOK, [Next]_vars
  PROVE  TypeOK'
<1>1. ASSUME NEW t \in Snapshots, RunEStop(t) PROVE TypeOK'
  <2>1. TransitionTo("EMERGENCY_STOP") /\ "EMERGENCY_STOP" \in VcuState
    BY <1>1 DEF RunEStop, VcuState, Stopped
  <2>2. QED
    BY <1>1, <2>1, TransitionType, VcuAssumption
       DEF RunEStop, StartCycle, TypeOK, relayVars
<1>2. ASSUME NEW t \in Snapshots, RunCritical(t) PROVE TypeOK'
  <2>1. TransitionTo("FAULT") /\ "FAULT" \in VcuState
    BY <1>2 DEF RunCritical, VcuState, Stopped
  <2>2. QED
    BY <1>2, <2>1, TransitionType, VcuAssumption
       DEF RunCritical, StartCycle, TypeOK, relayVars
<1>3. ASSUME NEW t \in Snapshots, RunProceed(t) PROVE TypeOK'
  <2> DEFINE sum == stateTimer + TaskPeriodMs
  <2>0. sum \in Int
    BY VcuAssumption DEF TypeOK
  <2>1. stateTimer' \in 0 .. TimerMod - 1
    <3>1. sum % TimerMod \in 0 .. TimerMod - 1
      <4> HIDE DEF sum
      <4> QED BY <2>0, TimerRange
    <3>2. QED
      BY <1>3, <3>1 DEF RunProceed
  <2>2. QED
    BY <1>3, <2>1, VcuAssumption
       DEF RunProceed, StartCycle, TypeOK, relayVars, stopVars
<1>4. CASE PollEmpty
  BY <1>4, HandlerType DEF PollEmpty, AtPoll, TypeOK
<1>5. CASE PollFault
  <2>1. TransitionTo("FAULT") /\ "FAULT" \in VcuState
    BY <1>5 DEF PollFault, VcuState, Stopped
  <2>2. Receive("FAULT_DETECTED") /\ "FAULT_DETECTED" \in VcuEvent
    BY <1>5 DEF PollFault, VcuEvent
  <2>3. QED
    BY <1>5, <2>1, <2>2, TransitionType, ReceiveType
       DEF PollFault, TypeOK, relayVars
<1>6. CASE PollResetAccepted
  <2>1. TransitionTo("IDLE") /\ "IDLE" \in VcuState
    BY <1>6 DEF PollResetAccepted, VcuState, Running
  <2>2. Receive("RESET") /\ "RESET" \in VcuEvent
    BY <1>6 DEF PollResetAccepted, VcuEvent
  <2>3. QED
    BY <1>6, <2>1, <2>2, TransitionType, ReceiveType
       DEF PollResetAccepted, TypeOK, relayVars
<1>7. CASE PollResetRejected
  <2>1. Receive("RESET") /\ "RESET" \in VcuEvent
    BY <1>7 DEF PollResetRejected, VcuEvent
  <2>2. QED
    BY <1>7, <2>1, ReceiveType
       DEF PollResetRejected, TypeOK, relayVars, stopVars
<1>8. CASE PollStart
  <2>1. TransitionTo("READY") /\ "READY" \in VcuState
    BY <1>8 DEF PollStart, VcuState, Running
  <2>2. Receive("START_REQUEST") /\ "START_REQUEST" \in VcuEvent
    BY <1>8 DEF PollStart, VcuEvent
  <2>3. AllOn \/ AllOff \/ UNCHANGED relayVars
    BY <1>8 DEF PollStart, HandleReady
  <2>4. QED
    BY <2>1, <2>2, <2>3, TransitionType, ReceiveType, RelayType DEF TypeOK
<1>9. CASE PollDriveEnable
  <2>1. TransitionTo("DRIVE") /\ "DRIVE" \in VcuState
    BY <1>9 DEF PollDriveEnable, VcuState, Running
  <2>2. Receive("DRIVE_ENABLE") /\ "DRIVE_ENABLE" \in VcuEvent
    BY <1>9 DEF PollDriveEnable, VcuEvent
  <2>3. QED
    BY <1>9, <2>1, <2>2, TransitionType, ReceiveType
       DEF PollDriveEnable, TypeOK, relayVars
<1>10. CASE PollIgnored
  <2>1. PICK e \in VcuEvent : Receive(e)
    BY <1>10 DEF PollIgnored, VcuEvent
  <2>2. PeriodicHandler
    BY <1>10 DEF PollIgnored
  <2>3. QED
    BY <2>1, <2>2, ReceiveType, HandlerType DEF TypeOK
<1>11. ASSUME NEW e \in VcuEvent, PostEvent(e) PROVE TypeOK'
  <2>1. /\ eventQueue' \in Seq(VcuEvent)
        /\ Len(eventQueue') <= QueueCap
    BY <1>11, VcuAssumption DEF PostEvent, TypeOK
  <2>2. QED
    BY <1>11, <2>1 DEF PostEvent, TypeOK, relayVars, stopVars
<1>12. CASE PostEStop
  BY <1>12 DEF PostEStop, TypeOK, relayVars, stopVars
<1>13. CASE UNCHANGED vars
  BY <1>13 DEF vars, TypeOK
<1>14. QED
  BY <1>1, <1>2, <1>3, <1>4, <1>5, <1>6, <1>7, <1>8, <1>9, <1>10, <1>11,
     <1>12, <1>13 DEF Next, RunTop, RunPoll

(* Type correctness of the whole state machine.                            *)
THEOREM TypeCorrect == Spec => []TypeOK
<1>1. Init => TypeOK
  <2> SUFFICES ASSUME Init PROVE TypeOK
    OBVIOUS
  <2>1. state \in VcuState /\ pc \in {"top", "poll"}
    BY DEF Init, VcuState, Running
  <2>2. telemetry \in Telemetry
    BY DEF Init, NoTelemetry, Telemetry
  <2>3. eventQueue \in Seq(VcuEvent) /\ Len(eventQueue) <= QueueCap
    BY VcuAssumption DEF Init
  <2>4. /\ stateTimer \in 0 .. TimerMod - 1
        /\ relaysOpened \in [Stopped -> BOOLEAN]
        /\ lastLogMs \in [Stopped -> 0 .. TimerMod - 1]
    BY VcuAssumption DEF Init
  <2>5. eStopPending \in BOOLEAN /\ commanded \in BOOLEAN
        /\ energised \in SUBSET Bank
    BY DEF Init
  <2>6. QED
    BY <2>1, <2>2, <2>3, <2>4, <2>5 DEF TypeOK
<1>2. TypeOK /\ [Next]_vars => TypeOK'
  BY TypeStep
<1>3. QED
  BY <1>1, <1>2, PTL DEF Spec

-----------------------------------------------------------------------------
(* DriveIsHealthy is inductive once READY is known to be healthy between   *)
(* the critical check and the poll of the same cycle, which is where       *)
(* DRIVE_ENABLE is taken.                                                  *)
HealthInv ==
  /\ DriveIsHealthy
  /\ state = "READY" /\ pc = "poll" => ~HasCriticalCondition(telemetry, "READY")

(* Outside IDLE the critical condition does not depend on the state.       *)
LEMMA CriticalOutsideIdle ==
  ASSUME NEW t
  PROVE  HasCriticalCondition(t, "READY") <=> HasCriticalCondition(t, "DRIVE")
  BY DEF HasCriticalCondition

LEMMA HandlerKeepsHealth ==
  ASSUME HealthInv, PeriodicHandler, AtPoll PROVE HealthInv'
  BY DEF HealthInv, DriveIsHealthy, PeriodicHandler, AtPoll,
         HasCriticalCondition

(* A step keeps a running vehicle on data that has been checked.           *)
LEMMA HealthStep ==
  ASSUME HealthInv, [Next]_vars
  PROVE  HealthInv'
<1> USE DEF HealthInv, DriveIsHealthy
<1>1. ASSUME NEW t \in Snapshots, RunEStop(t) PROVE HealthInv'
  BY <1>1 DEF RunEStop, TransitionTo
<1>2. ASSUME NEW t \in Snapshots, RunCritical(t) PROVE HealthInv'
  BY <1>2 DEF RunCritical, TransitionTo
<1>3. ASSUME NEW t \in Snapshots, RunProceed(t) PROVE HealthInv'
  BY <1>3 DEF RunProceed, StartCycle, Running, HasCriticalCondition
<1>4. CASE PollEmpty
  BY <1>4, HandlerKeepsHealth DEF PollEmpty
<1>5. CASE PollFault \/ PollResetAccepted \/ PollStart
  BY <1>5 DEF PollFault, PollResetAccepted, PollStart, TransitionTo,
              Receive, AtPoll
<1>6. CASE PollResetRejected
  BY <1>6 DEF PollResetRejected, Receive, AtPoll, Stopped
<1>7. CASE PollDriveEnable
  BY <1>7, CriticalOutsideIdle
     DEF PollDriveEnable, TransitionTo, Receive, AtPoll, HasCriticalCondition
<1>8. CASE PollIgnored
  BY <1>8, HandlerKeepsHealth DEF PollIgnored, Receive
<1>9. CASE PostEStop \/ \E e \in VcuEvent : PostEvent(e)
  BY <1>9 DEF PostEStop, PostEvent, HasCriticalCondition
<1>10. CASE UNCHANGED vars
  BY <1>10 DEF vars, HasCriticalCondition
<1>11. QED
  BY <1>1, <1>2, <1>3, <1>4, <1>5, <1>6, <1>7, <1>8, <1>9, <1>10
     DEF Next, RunTop, RunPoll

(* The vehicle never drives on a critical snapshot.                        *)
THEOREM DriveSafety == Spec => []DriveIsHealthy
<1>1. Init => HealthInv
  BY DEF Init, HealthInv, DriveIsHealthy
<1>2. HealthInv /\ [Next]_vars => HealthInv'
  BY HealthStep
<1>3. HealthInv => DriveIsHealthy
  BY DEF HealthInv
<1>4. QED
  BY <1>1, <1>2, <1>3, PTL DEF Spec

(* The reset interlock: a stop state is left only for IDLE, on a snapshot  *)
(* without any critical condition.                                         *)
THEOREM ResetSafety == Spec => StopLeftOnlyWhenHealthy
<1> DEFINE Left == /\ state \in Stopped
                   /\ state' \in Running
                   => state' = "IDLE" /\ ~HasCriticalCondition(telemetry, "READY")
<1>1. [Next]_vars => [Left]_vars
  <2> SUFFICES ASSUME [Next]_vars, state \in Stopped, state' \in Running
               PROVE  state' = "IDLE" /\ ~HasCriticalCondition(telemetry, "READY")
    OBVIOUS
  <2>1. PollResetAccepted
    BY DEF Next, vars, RunTop, RunPoll, RunEStop, RunCritical, RunProceed,
           PollEmpty, PollFault, PollResetRejected, PollStart, PollDriveEnable,
           PollIgnored, PostEvent, PostEStop, TransitionTo, PeriodicHandler,
           Running, Stopped
  <2>2. QED
    BY <2>1 DEF PollResetAccepted, TransitionTo, IsResetInterlockSatisfied,
                HasCriticalCondition, Stopped
<1>2. QED
  BY <1>1, PTL DEF Spec, StopLeftOnlyWhenHealthy

-----------------------------------------------------------------------------
(* From here on the SPI bus is reliable: Writes = {Bank}.                  *)

(* In a stop state whose flag says "opened", the periodic handler cannot   *)
(* leave a contactor closed, and at the delay it opens the bank itself.    *)
LEMMA HandlerOpens ==
  ASSUME Writes = {Bank}, TypeOK, OpenedMeansOpen, PeriodicHandler,
         state \in Stopped
  PROVE  /\ relaysOpened'[state] => energised' = {}
         /\ stateTimer >= OpenDelayMs => energised' = {}
<1>1. HandleStop(state)
  BY DEF PeriodicHandler, Stopped
<1>2. relaysOpened'[state] = (relaysOpened[state] \/ stateTimer >= OpenDelayMs)
  BY <1>1 DEF HandleStop, TypeOK
<1>3. CASE stateTimer >= OpenDelayMs
  <2>1. CASE AllOff
    BY <2>1, <1>2 DEF AllOff, TypeOK
  <2>2. CASE relaysOpened[state] /\ UNCHANGED relayVars
    BY <2>2 DEF OpenedMeansOpen, relayVars
  <2>3. QED
    BY <1>1, <1>3, <2>1, <2>2 DEF HandleStop
<1>4. CASE ~(stateTimer >= OpenDelayMs)
  BY <1>1, <1>2, <1>4 DEF HandleStop, OpenedMeansOpen, relayVars
<1>5. QED
  BY <1>3, <1>4

(* Entering a stop state clears that state's flag.                         *)
LEMMA TransitionClears ==
  ASSUME NEW next \in VcuState, TransitionTo(next)
  PROVE  OpenedMeansOpen'
  BY DEF TransitionTo, OpenedMeansOpen

(* A step keeps the flag of the current stop state true.                   *)
LEMMA OpenedStep ==
  ASSUME Writes = {Bank}, TypeOK, OpenedMeansOpen, [Next]_vars
  PROVE  OpenedMeansOpen'
<1>1. ASSUME NEW t \in Snapshots, RunEStop(t) \/ RunCritical(t)
      PROVE  OpenedMeansOpen'
  BY <1>1, TransitionClears DEF RunEStop, RunCritical, VcuState, Stopped
<1>2. ASSUME NEW t \in Snapshots, RunProceed(t) PROVE OpenedMeansOpen'
  BY <1>2 DEF RunProceed, StartCycle, OpenedMeansOpen, relayVars, stopVars
<1>3. CASE PeriodicHandler
  BY <1>3, HandlerOpens DEF PeriodicHandler, OpenedMeansOpen
<1>4. CASE PollFault \/ PollResetAccepted \/ PollStart \/ PollDriveEnable
  BY <1>4, TransitionClears
     DEF PollFault, PollResetAccepted, PollStart, PollDriveEnable,
         VcuState, Stopped, Running
<1>5. CASE UNCHANGED <<state, stopVars, relayVars>>
  BY <1>5 DEF OpenedMeansOpen, relayVars, stopVars
<1>6. QED
  BY <1>1, <1>2, <1>3, <1>4, <1>5
     DEF Next, RunTop, RunPoll, PollEmpty, PollIgnored, PollResetRejected,
         PostEvent, PostEStop, vars, relayVars, stopVars

(* The "relays opened" flag of the current stop state tells the truth.     *)
THEOREM OpenedSafety ==
  ASSUME Writes = {Bank} PROVE Spec => []OpenedMeansOpen
<1>1. Init => OpenedMeansOpen
  BY DEF Init, OpenedMeansOpen
<1>2. TypeOK /\ OpenedMeansOpen /\ [Next]_vars => OpenedMeansOpen'
  BY OpenedStep
<1>3. QED
  BY <1>1, <1>2, TypeCorrect, PTL DEF Spec

(* Every cycle that reaches a stop handler after the delay ends with the   *)
(* contactors open.                                                        *)
THEOREM QuietCycleSafety ==
  ASSUME Writes = {Bank} PROVE Spec => QuietCycleOpens
<1> DEFINE Quiet == /\ PollEmpty \/ PollIgnored
                    /\ state \in Stopped /\ stateTimer >= OpenDelayMs
                    => energised' = {}
<1>1. TypeOK /\ OpenedMeansOpen /\ [Next]_vars => [Quiet]_vars
  BY HandlerOpens DEF PollEmpty, PollIgnored
<1>2. QED
  BY <1>1, TypeCorrect, OpenedSafety, PTL DEF Spec, QuietCycleOpens

(* A step keeps the contactors of an armed vehicle closed.                 *)
LEMMA ArmedStep ==
  ASSUME Writes = {Bank}, TypeOK, ArmedMeansEnergised, [Next]_vars
  PROVE  ArmedMeansEnergised'
<1> USE DEF ArmedMeansEnergised
<1>1. ASSUME NEW t \in Snapshots, RunEStop(t) \/ RunCritical(t)
      PROVE  ArmedMeansEnergised'
  BY <1>1 DEF RunEStop, RunCritical, TransitionTo
<1>2. ASSUME NEW t \in Snapshots, RunProceed(t)
      PROVE  ArmedMeansEnergised'
  BY <1>2 DEF RunProceed, StartCycle, relayVars
<1>3. CASE PeriodicHandler
  <2>1. CASE state \in Stopped
    BY <1>3, <2>1 DEF PeriodicHandler, Stopped
  <2>2. CASE state = "READY" /\ AllOn
    BY <1>3, <2>2 DEF PeriodicHandler, AllOn, TypeOK
  <2>3. CASE state \notin Stopped /\ UNCHANGED relayVars
    BY <1>3, <2>3 DEF PeriodicHandler, relayVars
  <2>4. QED
    BY <1>3, <2>1, <2>2, <2>3 DEF PeriodicHandler, HandleReady, Stopped,
       relayVars
<1>4. CASE PollFault \/ PollResetAccepted
  BY <1>4 DEF PollFault, PollResetAccepted, TransitionTo
<1>5. CASE PollStart
  <2>1. AllOn
    BY <1>5, VcuAssumption DEF PollStart, HandleReady
  <2>2. QED
    BY <1>5, <2>1 DEF PollStart, TransitionTo, AllOn, TypeOK
<1>6. CASE PollDriveEnable
  BY <1>6 DEF PollDriveEnable, TransitionTo, relayVars
<1>7. CASE UNCHANGED <<state, relayVars>>
  BY <1>7 DEF relayVars
<1>8. QED
  BY <1>1, <1>2, <1>3, <1>4, <1>5, <1>6, <1>7
     DEF Next, RunTop, RunPoll, PollEmpty, PollIgnored, PollResetRejected,
         PostEvent, PostEStop, vars, relayVars

(* READY and DRIVE have every contactor closed.                            *)
THEOREM ArmedSafety ==
  ASSUME Writes = {Bank} PROVE Spec => []ArmedMeansEnergised
<1>1. Init => ArmedMeansEnergised
  BY DEF Init, ArmedMeansEnergised
<1>2. TypeOK /\ ArmedMeansEnergised /\ [Next]_vars => ArmedMeansEnergised'
  BY ArmedStep
<1>3. QED
  BY <1>1, <1>2, TypeCorrect, PTL DEF Spec

(* The four together, for modules in which the VCU task starts otherwise.  *)
VcuInv == TypeOK /\ HealthInv /\ OpenedMeansOpen /\ ArmedMeansEnergised

LEMMA VcuInvStep ==
  ASSUME Writes = {Bank}, VcuInv, [Next]_vars PROVE VcuInv'
  BY TypeStep, HealthStep, OpenedStep, ArmedStep DEF VcuInv

-----------------------------------------------------------------------------
(* The controller implements ContactorPolicy for any set of SPI outcomes:  *)
(* contactors close only towards or in READY, open only in a stop state,   *)
(* and keep their position in every change of state but IDLE to READY.     *)
THEOREM PolicyRefinement == Spec => ImplementsPolicy
<1> USE DEF Policy!Close, Running, Stopped, VcuState
<1>1. Init => Policy!Init
  BY DEF Init, Policy!Init
<1>2. TypeOK /\ [Next]_vars => [Policy!Next]_(Policy!policyVars)
  <2> SUFFICES ASSUME TypeOK, [Next]_vars
               PROVE  [Policy!Next]_(Policy!policyVars)
    OBVIOUS
  <2> USE DEF Policy!policyVars
  <2>1. ASSUME NEW t \in Snapshots, RunEStop(t) \/ RunCritical(t)
        PROVE  Policy!Trip \/ UNCHANGED Policy!policyVars
    BY <2>1 DEF RunEStop, RunCritical, StartCycle, TransitionTo, relayVars,
                Policy!Trip, TypeOK
  <2>2. CASE UNCHANGED <<state, relayVars>>
    BY <2>2 DEF relayVars
  <2>3. CASE PeriodicHandler
    <3>1. CASE HandleStop(state) /\ state \in Stopped /\ state' = state
      <4>1. energised' \subseteq energised
        BY <3>1 DEF HandleStop, AllOff, relayVars
      <4>2. Policy!Open
        BY <3>1, <4>1 DEF Policy!Open
      <4>3. QED
        BY <4>2 DEF Policy!Next
    <3>2. CASE HandleReady(stateTimer) /\ state = "READY" /\ state' = state
      <4>1. Policy!Close
        BY <3>2, VcuAssumption DEF HandleReady, AllOn, relayVars, TypeOK
      <4>2. Policy!StayArmed
        BY <3>2, <4>1 DEF Policy!StayArmed
      <4>3. QED
        BY <4>2 DEF Policy!Next
    <3>3. QED
      BY <2>3, <3>1, <3>2 DEF PeriodicHandler, relayVars
  <2>4. CASE PollFault
    BY <2>4 DEF PollFault, TransitionTo, relayVars, Policy!Next, Policy!Trip,
                TypeOK
  <2>5. CASE PollResetAccepted
    BY <2>5 DEF PollResetAccepted, TransitionTo, relayVars, Policy!Next,
                Policy!Reset
  <2>6. CASE PollStart
    <3>1. Policy!Close
      BY <2>6, VcuAssumption
         DEF PollStart, HandleReady, AllOn, relayVars, TypeOK
    <3>2. Policy!Arm
      BY <2>6, <3>1 DEF PollStart, TransitionTo, Policy!Arm
    <3>3. QED
      BY <3>2 DEF Policy!Next
  <2>7. CASE PollDriveEnable
    BY <2>7 DEF PollDriveEnable, TransitionTo, relayVars
  <2>8. QED
    BY <2>1, <2>2, <2>3, <2>4, <2>5, <2>6, <2>7
       DEF Next, RunTop, RunPoll, RunProceed, StartCycle, PollEmpty,
           PollIgnored, PollResetRejected, PostEvent, PostEStop, vars,
           relayVars, Policy!Next
<1>3. QED
  BY <1>1, <1>2, TypeCorrect, PTL DEF Spec, ImplementsPolicy, Policy!Spec
=============================================================================
