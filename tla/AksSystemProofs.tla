-------------------------- MODULE AksSystemProofs --------------------------
(***************************************************************************)
(* Proofs about AksSystem, for all periods, timeouts, queue lengths and    *)
(* frames.  Both tasks run here as their own specifications say, so that   *)
(* what CanManagerProofs and VcuLogicProofs show of each holds of them     *)
(* together; the rest is about the mailbox between them.                   *)
(***************************************************************************)
EXTENDS AksSystem, TLAPS

CanFacts == INSTANCE CanManagerProofs
VcuFacts == INSTANCE VcuLogicProofs WITH Snapshots <- Can!Published, Writes <- {Bank}

(* The mailbox holds what the CAN task last published.  While the task is  *)
(* in a cycle, data that is not flagged in the mailbox may have aged by    *)
(* that one period.                                                        *)
MailboxInv ==
  /\ canPc = "sleep" => mailbox = tel
  /\ canPc \in {"top", "rx"} =>
       /\ motor.seen /\ ~mailbox.motorTimeout => motor.age <= CanTimeout
       /\ bms.seen /\ ~mailbox.bmsTimeout => bms.age <= CanTimeout
  /\ canPc = "deleted" =>
       /\ mailbox = Can!NoTelemetry /\ tel = Can!NoTelemetry
       /\ ~motor.seen /\ ~bms.seen

(* DRIVE, and a READY that may be left for it in this cycle, were checked  *)
(* for fresh data when the VCU task last ran.                              *)
FreshInv ==
  /\ pc = "poll" => sinceRun = 0
  /\ state = "DRIVE" \/ (state = "READY" /\ pc = "poll") =>
       /\ motor.seen => motor.age <= CanTimeout + sinceRun
       /\ bms.seen => bms.age <= CanTimeout + sinceRun

(* A danger that is counted was seen by the last Elapse.  The mailbox      *)
(* shows it until the CAN task publishes again, and once the VCU task has  *)
(* run the vehicle is disarmed or the danger is over.                      *)
DangerInv ==
  /\ sinceRun > 0 => danger <= sinceRun
  /\ danger > 0 /\ sinceRun > 0 =>
       /\ state \in Armed
       /\ canPc \in {"top", "rx"} => Vcu!HasCriticalCondition(mailbox, state)
  /\ danger > 0 /\ sinceRun = 0 =>
       \/ state \in Vcu!Stopped /\ pc = "top"
       \/ /\ state \in Armed /\ canPc = "sleep"
          /\ ~Vcu!HasCriticalCondition(tel, state)
  /\ canPc = "deleted" => danger = 0
  /\ danger <= VcuPeriod

-----------------------------------------------------------------------------
(* The parts' definitions are those their proofs are about.                *)
LEMMA SameCan ==
  /\ Can!Init <=> CanFacts!Init
  /\ Can!ReadAlerts <=> CanFacts!ReadAlerts
  /\ Can!EndCycle <=> CanFacts!EndCycle
  /\ Can!WakeUp <=> CanFacts!WakeUp
  /\ Can!OtherFrame <=> CanFacts!OtherFrame
  /\ \A f : Can!MotorFrame(f) <=> CanFacts!MotorFrame(f)
  /\ \A f : Can!BmsFrame(f) <=> CanFacts!BmsFrame(f)
  /\ Can!TypeOK <=> CanFacts!TypeOK
  /\ Can!FlagsTellSilence <=> CanFacts!FlagsTellSilence
  BY DEF Can!Init, CanFacts!Init, Can!ReadAlerts, CanFacts!ReadAlerts,
         Can!EndCycle, CanFacts!EndCycle, Can!WakeUp, CanFacts!WakeUp,
         Can!OtherFrame, CanFacts!OtherFrame, Can!TypeOK,
         CanFacts!TypeOK, Can!FlagsTellSilence,
         CanFacts!FlagsTellSilence, Can!MotorFrame, CanFacts!MotorFrame,
         Can!BmsFrame, CanFacts!BmsFrame, Can!NoTelemetry,
         CanFacts!NoTelemetry, Can!Published, CanFacts!Published,
         Can!PackFault, CanFacts!PackFault, Can!NotifyFault,
         CanFacts!NotifyFault, Can!HandleMotorStatus,
         CanFacts!HandleMotorStatus, Can!CheckPackVoltageFault,
         CanFacts!CheckPackVoltageFault, Can!HandleLbBmsE000,
         CanFacts!HandleLbBmsE000, Can!IsTimedOut, CanFacts!IsTimedOut,
         Can!UpdateValidity, CanFacts!UpdateValidity, Can!Receiving,
         CanFacts!Receiving, Can!Older, CanFacts!Older

LEMMA SameVcu ==
  /\ Vcu!Init <=> VcuFacts!Init
  /\ \A t : Vcu!RunEStop(t) <=> VcuFacts!RunEStop(t)
  /\ \A t : Vcu!RunCritical(t) <=> VcuFacts!RunCritical(t)
  /\ \A t : Vcu!RunProceed(t) <=> VcuFacts!RunProceed(t)
  /\ Vcu!RunPoll <=> VcuFacts!RunPoll
  /\ \A e : Vcu!PostEvent(e) <=> VcuFacts!PostEvent(e)
  /\ Vcu!PostEStop <=> VcuFacts!PostEStop
  /\ Vcu!TypeOK <=> VcuFacts!TypeOK
  /\ Vcu!DriveIsHealthy <=> VcuFacts!DriveIsHealthy
  /\ Vcu!OpenedMeansOpen <=> VcuFacts!OpenedMeansOpen
  /\ Vcu!ArmedMeansEnergised <=> VcuFacts!ArmedMeansEnergised
  BY DEF Vcu!Telemetry, VcuFacts!Telemetry, Vcu!NoTelemetry,
         VcuFacts!NoTelemetry, Vcu!Running, VcuFacts!Running,
         Vcu!Stopped, VcuFacts!Stopped, Vcu!VcuState, VcuFacts!VcuState,
         Vcu!VcuEvent, VcuFacts!VcuEvent, Vcu!relayVars,
         VcuFacts!relayVars, Vcu!stopVars, VcuFacts!stopVars,
         Vcu!HasCriticalCondition, VcuFacts!HasCriticalCondition,
         Vcu!IsResetInterlockSatisfied,
         VcuFacts!IsResetInterlockSatisfied, Vcu!AllOn, VcuFacts!AllOn,
         Vcu!AllOff, VcuFacts!AllOff, Vcu!TransitionTo,
         VcuFacts!TransitionTo, Vcu!Elapsed, VcuFacts!Elapsed,
         Vcu!HandleReady, VcuFacts!HandleReady, Vcu!HandleStop,
         VcuFacts!HandleStop, Vcu!PeriodicHandler,
         VcuFacts!PeriodicHandler, Vcu!StartCycle, VcuFacts!StartCycle,
         Vcu!RunEStop, VcuFacts!RunEStop, Vcu!RunCritical,
         VcuFacts!RunCritical, Vcu!RunProceed, VcuFacts!RunProceed,
         Vcu!AtPoll, VcuFacts!AtPoll, Vcu!Receive, VcuFacts!Receive,
         Vcu!PollEmpty, VcuFacts!PollEmpty, Vcu!PollFault,
         VcuFacts!PollFault, Vcu!PollResetAccepted,
         VcuFacts!PollResetAccepted, Vcu!PollResetRejected,
         VcuFacts!PollResetRejected, Vcu!PollStart, VcuFacts!PollStart,
         Vcu!PollDriveEnable, VcuFacts!PollDriveEnable, Vcu!PollIgnored,
         VcuFacts!PollIgnored, Vcu!PostEvent, VcuFacts!PostEvent,
         Vcu!PostEStop, VcuFacts!PostEStop, Vcu!Init, VcuFacts!Init,
         Vcu!RunPoll, VcuFacts!RunPoll, Vcu!TypeOK, VcuFacts!TypeOK,
         Vcu!DriveIsHealthy, VcuFacts!DriveIsHealthy, Vcu!OpenedMeansOpen,
         VcuFacts!OpenedMeansOpen, Vcu!ArmedMeansEnergised,
         VcuFacts!ArmedMeansEnergised

-----------------------------------------------------------------------------
(* The CAN task in the system takes only steps of CanManager.              *)
LEMMA CanStep ==
  ASSUME [Next]_vars PROVE [CanFacts!Next]_(CanFacts!canVars)
<1> USE DEF CanFacts!Next, CanFacts!canVars
<1>1. CASE CanFrame
  BY <1>1, SameCan DEF CanFrame
<1>2. CASE CanRead
  BY <1>2, SameCan DEF CanRead
<1>3. CASE CanPublish
  BY <1>3, SameCan DEF CanPublish
<1>4. CASE Elapse
  BY <1>4, SameCan DEF Elapse, canVars
<1>5. CASE UNCHANGED canVars
  BY <1>5 DEF canVars
<1>6. QED
  BY <1>1, <1>2, <1>3, <1>4, <1>5
     DEF Next, CanTask, VcuTask, VcuTop, VcuPoll, HmiCommand, vars, canVars

THEOREM SystemRunsCan == Spec => CanFacts!Spec
<1>1. Init => CanFacts!Init
  BY SameCan DEF Init
<1>2. [Next]_vars => [CanFacts!Next]_(CanFacts!canVars)
  BY CanStep
<1>3. QED
  BY <1>1, <1>2, PTL DEF Spec, CanFacts!Spec

(* Hence CanManager's types and the truth of its flags hold in the system. *)
THEOREM CanInvariants == Spec => [](Can!TypeOK /\ Can!FlagsTellSilence)
<1>1. CanFacts!CanAssumption
  BY SystemAssumption DEF Can!CanAssumption, CanFacts!CanAssumption
<1>2. CanFacts!Spec => []CanFacts!TypeOK /\ []CanFacts!FlagsTellSilence
  BY <1>1, CanFacts!TypeCorrect, CanFacts!SilenceFlagged
<1>3. CanFacts!TypeOK => Can!TypeOK
  BY SameCan
<1>4. CanFacts!FlagsTellSilence => Can!FlagsTellSilence
  BY SameCan
<1>5. QED
  BY <1>2, <1>3, <1>4, SystemRunsCan, PTL

(* What the mailbox holds is a snapshot getTelemetryData returned.         *)
LEMMA MailboxType ==
  ASSUME Can!TypeOK', mailbox \in Can!Published, [Next]_vars
  PROVE  mailbox' \in Can!Published
<1>1. CASE CanPublish
  BY <1>1 DEF CanPublish, Can!TypeOK, Can!Published
<1>2. CASE UNCHANGED mailbox
  BY <1>2 DEF Can!Published
<1>3. QED
  BY <1>1, <1>2
     DEF Next, CanTask, VcuTask, CanFrame, CanRead, VcuTop, VcuPoll, HmiCommand,
         Elapse, vars

(* On such snapshots the VCU task takes only steps of VcuLogic.            *)
LEMMA VcuStep ==
  ASSUME mailbox \in Can!Published, [Next]_vars
  PROVE  [VcuFacts!Next]_(VcuFacts!vars)
<1> USE DEF VcuFacts!Next, VcuFacts!vars, VcuFacts!VcuEvent
<1>1. CASE CanFrame
  BY <1>1, SameVcu DEF CanFrame, vcuVars
<1>2. CASE VcuTop
  BY <1>2, SameVcu DEF VcuTop, VcuFacts!RunTop
<1>3. CASE VcuPoll
  BY <1>3, SameVcu DEF VcuPoll
<1>4. CASE HmiCommand
  BY <1>4, SameVcu DEF HmiCommand
<1>5. CASE UNCHANGED vcuVars
  BY <1>5 DEF vcuVars
<1>6. QED
  BY <1>1, <1>2, <1>3, <1>4, <1>5
     DEF Next, CanTask, VcuTask, CanRead, CanPublish, Elapse, vars, vcuVars

THEOREM SystemRunsVcu == Spec => VcuFacts!Spec /\ [](mailbox \in Can!Published)
<1> DEFINE Boxed == mailbox \in Can!Published
<1>1. Init => VcuFacts!Init /\ Boxed
  BY SameVcu DEF Init, Can!Published, Can!NoTelemetry
<1>2. Can!TypeOK' /\ Boxed /\ [Next]_vars
        => [VcuFacts!Next]_(VcuFacts!vars) /\ Boxed'
  BY MailboxType, VcuStep
<1> HIDE DEF Boxed
<1>3. Spec => VcuFacts!Spec /\ []Boxed
  BY <1>1, <1>2, CanInvariants, PTL DEF Spec, VcuFacts!Spec
<1>4. QED
  BY <1>3 DEF Boxed

(* Hence VcuLogic's invariants hold in the system, with real snapshots in  *)
(* place of arbitrary ones: it never drives on critical data, READY and    *)
(* DRIVE have the contactors closed, and a stop that claims to have opened *)
(* them has.                                                               *)
THEOREM VcuInvariants ==
  Spec => [](/\ Vcu!TypeOK /\ Vcu!DriveIsHealthy
             /\ Vcu!OpenedMeansOpen /\ Vcu!ArmedMeansEnergised)
<1>1. VcuFacts!VcuAssumption
  BY SystemAssumption
     DEF Vcu!VcuAssumption, VcuFacts!VcuAssumption, Vcu!Telemetry, VcuFacts!Telemetry
<1>2. VcuFacts!Spec => /\ []VcuFacts!TypeOK /\ []VcuFacts!DriveIsHealthy
                       /\ []VcuFacts!OpenedMeansOpen
                       /\ []VcuFacts!ArmedMeansEnergised
  <2>1. VcuFacts!Spec => []VcuFacts!OpenedMeansOpen
    BY <1>1, VcuFacts!OpenedSafety
  <2>2. VcuFacts!Spec => []VcuFacts!ArmedMeansEnergised
    BY <1>1, VcuFacts!ArmedSafety
  <2>3. QED
    BY <1>1, <2>1, <2>2, VcuFacts!TypeCorrect, VcuFacts!DriveSafety
<1>3. /\ VcuFacts!TypeOK /\ VcuFacts!DriveIsHealthy
      /\ VcuFacts!OpenedMeansOpen /\ VcuFacts!ArmedMeansEnergised
      => /\ Vcu!TypeOK /\ Vcu!DriveIsHealthy
         /\ Vcu!OpenedMeansOpen /\ Vcu!ArmedMeansEnergised
  BY SameVcu
<1>4. QED
  BY <1>2, <1>3, SystemRunsVcu, PTL

(* Every variable stays in its type, and what is published is what         *)
(* VcuLogic assumes of its snapshots.                                      *)
THEOREM TypeCorrect == Spec => []TypeOK
<1> DEFINE Counters == sinceRun \in 0 .. VcuPeriod /\ danger \in 0 .. Horizon
<1>1. Init => Counters
  BY SystemAssumption DEF Init, Can!CanAssumption
<1>2. Counters /\ [Next]_vars => Counters'
  <2> SUFFICES ASSUME Counters, [Next]_vars PROVE Counters'
    OBVIOUS
  <2>1. Horizon \in Nat /\ VcuPeriod \in Nat
    BY SystemAssumption DEF Can!CanAssumption
  <2>2. CASE VcuTop
    BY <2>1, <2>2 DEF VcuTop
  <2>3. CASE Elapse
    BY <2>1, <2>3 DEF Elapse
  <2>4. CASE UNCHANGED <<sinceRun, danger>>
    BY <2>4
  <2>5. QED
    BY <2>2, <2>3, <2>4
       DEF Next, CanTask, VcuTask, CanFrame, CanRead, CanPublish, VcuPoll,
           HmiCommand, vars
<1>3. Counters /\ Can!TypeOK /\ Vcu!TypeOK /\ mailbox \in Can!Published => TypeOK
  BY DEF TypeOK
<1> HIDE DEF Counters
<1>4. Spec => []Counters
  BY <1>1, <1>2, PTL DEF Spec
<1>5. Spec => [](mailbox \in Can!Published)
  BY SystemRunsVcu
<1>6. QED
  <2> DEFINE Boxed == mailbox \in Can!Published
  <2>1. Spec => []Boxed
    BY <1>5
  <2>2. Counters /\ Can!TypeOK /\ Vcu!TypeOK /\ Boxed => TypeOK
    BY <1>3
  <2> HIDE DEF Boxed
  <2>3. QED
    BY <1>4, <2>1, <2>2, CanInvariants, VcuInvariants, PTL

-----------------------------------------------------------------------------
(* What a step may do to the state of the vehicle, whichever task takes    *)
(* it: run() trips or proceeds to the poll on a snapshot that is not       *)
(* critical, the poll moves along the table of transitions, and nothing    *)
(* else touches it.                                                        *)
Trip == state' \in Vcu!Stopped /\ pc' = "top"
Proceed == /\ state' = state /\ pc' = "poll"
           /\ state \in Vcu!Running => ~Vcu!HasCriticalCondition(mailbox, state)

LEMMA TopStep ==
  ASSUME VcuTop
  PROVE  /\ pc = "top" /\ sinceRun = VcuPeriod /\ sinceRun' = 0
         /\ UNCHANGED <<canVars, mailbox, danger>>
         /\ Trip \/ Proceed
<1>1. CASE Vcu!RunEStop(mailbox)
  BY <1>1 DEF VcuTop, Trip, Vcu!RunEStop, Vcu!StartCycle, Vcu!TransitionTo, Vcu!Stopped
<1>2. CASE Vcu!RunCritical(mailbox)
  BY <1>2 DEF VcuTop, Trip, Vcu!RunCritical, Vcu!StartCycle, Vcu!TransitionTo, Vcu!Stopped
<1>3. CASE Vcu!RunProceed(mailbox)
  BY <1>3 DEF VcuTop, Proceed, Vcu!RunProceed, Vcu!StartCycle
<1>4. QED
  BY <1>1, <1>2, <1>3 DEF VcuTop

LEMMA PollStep ==
  ASSUME VcuPoll
  PROVE  /\ pc = "poll" /\ pc' = "top"
         /\ UNCHANGED <<canVars, mailbox, sinceRun, danger>>
         /\ \/ state' = state
            \/ state' = "FAULT"
            \/ state \in Vcu!Stopped /\ state' = "IDLE"
            \/ state = "IDLE" /\ state' = "READY"
            \/ state = "READY" /\ state' = "DRIVE"
  BY DEF VcuPoll, Vcu!RunPoll, Vcu!PollEmpty, Vcu!PollFault, Vcu!PollResetAccepted,
         Vcu!PollResetRejected, Vcu!PollStart, Vcu!PollDriveEnable, Vcu!PollIgnored,
         Vcu!PeriodicHandler, Vcu!Receive, Vcu!AtPoll, Vcu!TransitionTo

LEMMA OtherStep ==
  ASSUME CanTask \/ HmiCommand
  PROVE  UNCHANGED <<state, pc, sinceRun, danger>>
  BY DEF CanTask, CanFrame, CanRead, CanPublish, HmiCommand, Vcu!PostEvent,
         Vcu!PostEStop, vcuVars

(* What a step of the CAN task does to a source: a frame makes it young,   *)
(* and nothing else in the cycle touches its age.                          *)
Heard(s) == s'.age = 0
Kept(s) == s'.seen = s.seen /\ s'.age = s.age

LEMMA CanTaskStep ==
  ASSUME Can!TypeOK, CanTask
  PROVE  /\ Heard(motor) \/ Kept(motor)
         /\ Heard(bms) \/ Kept(bms)
         /\ \/ canPc \in {"top", "rx"} /\ canPc' = "rx" /\ mailbox' = mailbox
            \/ CanPublish /\ canPc' = "sleep" /\ mailbox' = tel'
<1> USE DEF Heard, Kept
<1>1. ASSUME NEW f, Can!MotorFrame(f)
      PROVE  Heard(motor) /\ Kept(bms) /\ canPc = "rx" /\ canPc' = "rx"
  BY <1>1 DEF Can!MotorFrame, Can!HandleMotorStatus, Can!Receiving
<1>2. ASSUME NEW f, Can!BmsFrame(f)
      PROVE  Heard(bms) /\ Kept(motor) /\ canPc = "rx" /\ canPc' = "rx"
  BY <1>2 DEF Can!BmsFrame, Can!HandleLbBmsE000, Can!Receiving
<1>3. CASE CanFrame
  BY <1>1, <1>2, <1>3 DEF CanFrame
<1>4. CASE CanRead
  BY <1>4 DEF CanRead, Can!ReadAlerts, Can!OtherFrame, Can!Receiving
<1>5. CASE CanPublish
  <2>1. Kept(motor) /\ Kept(bms)
    BY <1>5 DEF CanPublish, Can!EndCycle, Can!UpdateValidity, Can!TypeOK
  <2>2. canPc' = "sleep" /\ mailbox' = tel'
    BY <1>5 DEF CanPublish, Can!EndCycle
  <2>3. QED
    BY <1>5, <2>1, <2>2
<1>6. QED
  BY <1>3, <1>4, <1>5 DEF CanTask

(* When a period elapses every source seen is one period older; a task     *)
(* that was deleted has no sources.                                        *)
LEMMA ElapseStep ==
  ASSUME Can!TypeOK, Elapse
  PROVE  /\ pc = "top" /\ sinceRun < VcuPeriod /\ sinceRun' = sinceRun + 1
         /\ UNCHANGED <<state, pc, mailbox, tel>>
         /\ motor'.seen = motor.seen /\ bms'.seen = bms.seen
         /\ motor.seen => motor'.age <= motor.age + 1
         /\ bms.seen => bms'.age <= bms.age + 1
         /\ \/ canPc = "sleep" /\ canPc' = "top"
            \/ canPc = "deleted" /\ UNCHANGED canVars
<1>1. CASE Can!WakeUp
  <2>1. /\ motor'.seen = motor.seen /\ bms'.seen = bms.seen
        /\ motor'.age <= motor.age + 1 /\ bms'.age <= bms.age + 1
    BY <1>1, SystemAssumption DEF Can!WakeUp, Can!Older, Can!TypeOK, Can!CanAssumption
  <2>2. QED
    BY <1>1, <2>1 DEF Elapse, Can!WakeUp, vcuVars
<1>2. CASE canPc = "deleted" /\ UNCHANGED canVars
  <2>1. motor.age <= motor.age + 1 /\ bms.age <= bms.age + 1
    BY SystemAssumption DEF Can!TypeOK, Can!CanAssumption
  <2>2. QED
    BY <1>2, <2>1 DEF Elapse, canVars, vcuVars
<1>3. QED
  BY <1>1, <1>2 DEF Elapse

-----------------------------------------------------------------------------
(* The mailbox lags behind the bus by no more than the cycle in progress.  *)
LEMMA MailboxStep ==
  ASSUME Can!TypeOK, Can!FlagsTellSilence, MailboxInv, [Next]_vars
  PROVE  MailboxInv'
<1>1. /\ CanTimeout \in Nat \ {0} /\ motor.age \in Nat /\ bms.age \in Nat
      /\ motor.seen \in BOOLEAN /\ bms.seen \in BOOLEAN
  BY SystemAssumption DEF Can!CanAssumption, Can!TypeOK
<1>2. CASE CanTask
  <2>1. CASE CanPublish /\ canPc' = "sleep" /\ mailbox' = tel'
    BY <2>1 DEF MailboxInv
  <2>2. CASE canPc \in {"top", "rx"} /\ canPc' = "rx" /\ mailbox' = mailbox
    BY <1>1, <1>2, <2>2, CanTaskStep DEF MailboxInv, Heard, Kept
  <2>3. QED
    BY <1>2, <2>1, <2>2, CanTaskStep
<1>3. CASE Elapse
  <2>1. CASE canPc = "sleep" /\ canPc' = "top"
    <3>1. mailbox' = tel
      BY <1>3, <2>1, ElapseStep DEF MailboxInv
    <3>2. /\ motor.seen /\ ~tel.motorTimeout => motor.age < CanTimeout
          /\ bms.seen /\ ~tel.bmsTimeout => bms.age < CanTimeout
      BY <1>1, <2>1 DEF Can!FlagsTellSilence
    <3>3. motor'.age \in Nat /\ bms'.age \in Nat
      BY <1>3, SystemAssumption
         DEF Elapse, Can!WakeUp, Can!Older, Can!TypeOK, Can!CanAssumption, canVars
    <3>4. /\ motor'.seen /\ ~mailbox'.motorTimeout => motor'.age <= CanTimeout
          /\ bms'.seen /\ ~mailbox'.bmsTimeout => bms'.age <= CanTimeout
      BY <1>1, <1>3, <3>1, <3>2, <3>3, ElapseStep
    <3>5. QED
      BY <2>1, <3>4 DEF MailboxInv
  <2>2. CASE canPc = "deleted" /\ UNCHANGED canVars
    BY <1>3, <2>2, ElapseStep DEF MailboxInv, canVars
  <2>3. QED
    BY <1>3, <2>1, <2>2, ElapseStep
<1>4. CASE UNCHANGED <<canVars, mailbox>>
  BY <1>4 DEF MailboxInv, canVars
<1>5. QED
  BY <1>2, <1>3, <1>4, TopStep, PollStep DEF Next, VcuTask, HmiCommand, vars

(* What run() proceeds on is fresh, up to the CAN cycle in progress.       *)
LEMMA FreshToProceed ==
  ASSUME Can!TypeOK, Can!FlagsTellSilence, MailboxInv,
         ~mailbox.motorTimeout, ~mailbox.bmsTimeout
  PROVE  /\ motor.seen => motor.age <= CanTimeout
         /\ bms.seen => bms.age <= CanTimeout
<1>1. CanTimeout \in Nat /\ motor.age \in Nat /\ bms.age \in Nat
  BY SystemAssumption DEF Can!CanAssumption, Can!TypeOK
<1>2. CASE canPc = "sleep"
  BY <1>1, <1>2 DEF MailboxInv, Can!FlagsTellSilence
<1>3. CASE canPc # "sleep"
  BY <1>3 DEF MailboxInv, Can!TypeOK
<1>4. QED
  BY <1>2, <1>3

LEMMA FreshStep ==
  ASSUME TypeOK, Can!FlagsTellSilence, MailboxInv, FreshInv, [Next]_vars
  PROVE  FreshInv'
<1>1. /\ CanTimeout \in Nat /\ VcuPeriod \in Nat \ {0} /\ sinceRun \in Nat
      /\ motor.age \in Nat /\ bms.age \in Nat /\ Can!TypeOK
      /\ state \in Vcu!VcuState
  BY SystemAssumption DEF Can!CanAssumption, Can!TypeOK, TypeOK, Vcu!TypeOK
<1> USE DEF FreshInv
<1>2. CASE CanTask
  BY <1>1, <1>2, CanTaskStep, OtherStep DEF Heard, Kept
<1>3. CASE VcuTop
  <2>1. sinceRun' = 0 /\ motor' = motor /\ bms' = bms
    BY <1>3, TopStep DEF canVars
  <2>2. CASE Trip
    BY <2>1, <2>2 DEF Trip, Vcu!Stopped
  <2>3. CASE Proceed
    <3>1. state \in {"READY", "DRIVE"} => ~mailbox.motorTimeout /\ ~mailbox.bmsTimeout
      BY <2>3 DEF Proceed, Vcu!Running, Vcu!HasCriticalCondition
    <3>2. state \in {"READY", "DRIVE"} =>
            /\ motor.seen => motor.age <= CanTimeout
            /\ bms.seen => bms.age <= CanTimeout
      BY <1>1, <3>1, FreshToProceed
    <3>3. QED
      BY <1>1, <2>1, <2>3, <3>2 DEF Proceed
  <2>4. QED
    BY <1>3, <2>2, <2>3, TopStep
<1>4. CASE VcuPoll
  BY <1>1, <1>4, PollStep DEF canVars, Vcu!Stopped
<1>5. CASE HmiCommand
  <2>1. UNCHANGED <<state, pc, sinceRun, motor, bms>>
    BY <1>5, OtherStep DEF HmiCommand, canVars
  <2>2. QED
    BY <2>1
<1>6. CASE Elapse
  <2>1. motor'.age \in Nat /\ bms'.age \in Nat
    BY <1>1, <1>6, SystemAssumption
       DEF Elapse, Can!WakeUp, Can!Older, Can!TypeOK, Can!CanAssumption, canVars
  <2>2. QED
    BY <1>1, <1>6, <2>1, ElapseStep
<1>7. CASE UNCHANGED vars
  BY <1>7 DEF vars, vcuVars, canVars
<1>8. QED
  BY <1>2, <1>3, <1>4, <1>5, <1>6, <1>7 DEF Next, VcuTask

(* DRIVE never lasts on the word of a source that fell silent.             *)
THEOREM DriveFreshness == Spec => []DriveOnFreshData
<1>1. Init => MailboxInv /\ FreshInv
  BY SystemAssumption
     DEF Init, Can!Init, Vcu!Init, MailboxInv, FreshInv, Can!NoTelemetry
<1>2. TypeOK /\ Can!TypeOK /\ Can!FlagsTellSilence /\ MailboxInv /\ FreshInv /\ [Next]_vars
        => MailboxInv' /\ FreshInv'
  BY MailboxStep, FreshStep
<1>3. TypeOK /\ Can!TypeOK /\ FreshInv => DriveOnFreshData
  <2>1. TypeOK /\ Can!TypeOK => /\ motor.age \in Nat /\ bms.age \in Nat
                 /\ sinceRun \in 0 .. VcuPeriod
                 /\ CanTimeout \in Nat /\ VcuPeriod \in Nat
    BY SystemAssumption DEF TypeOK, Can!TypeOK, Can!CanAssumption
  <2>2. QED
    BY <2>1 DEF FreshInv, DriveOnFreshData
<1>4. QED
  BY <1>1, <1>2, <1>3, TypeCorrect, CanInvariants, PTL DEF Spec

-----------------------------------------------------------------------------
(* READY and DRIVE are checked alike.                                      *)
LEMMA ArmedAlike ==
  ASSUME NEW t, NEW s \in Armed, NEW r \in Armed
  PROVE  Vcu!HasCriticalCondition(t, s) <=> Vcu!HasCriticalCondition(t, r)
  BY DEF Armed, Vcu!HasCriticalCondition

(* An Elapse counts a danger that the VCU task has had no cycle to see, or *)
(* finds it over.                                                          *)
LEMMA DangerElapse ==
  ASSUME TypeOK, MailboxInv, DangerInv, Elapse
  PROVE  DangerInv'
<1>1. /\ VcuPeriod \in Nat \ {0} /\ Horizon \in Nat
      /\ sinceRun \in 0 .. VcuPeriod /\ danger \in 0 .. Horizon
      /\ Can!TypeOK
  BY SystemAssumption DEF TypeOK, Can!CanAssumption
<1>2. /\ sinceRun < VcuPeriod /\ sinceRun' = sinceRun + 1
      /\ UNCHANGED <<state, pc, mailbox, tel>>
      /\ \/ canPc = "sleep" /\ canPc' = "top"
         \/ canPc = "deleted" /\ UNCHANGED canVars
  BY <1>1, ElapseStep
<1>3. CASE state \in Armed /\ Vcu!HasCriticalCondition(tel, state)
  <2>1. canPc = "sleep" /\ canPc' = "top" /\ mailbox = tel
    BY <1>2, <1>3 DEF MailboxInv, Can!NoTelemetry, Vcu!HasCriticalCondition, Armed
  <2>2. danger' \in Int /\ danger' <= danger + 1
    BY <1>1, <1>3 DEF Elapse
  <2>3. danger <= sinceRun
    BY <1>1, <1>3 DEF DangerInv, Armed, Vcu!Stopped
  <2>4. Vcu!HasCriticalCondition(mailbox, state)'
    BY <1>2, <1>3, <2>1 DEF Vcu!HasCriticalCondition
  <2>5. QED
    BY <1>1, <1>2, <1>3, <2>1, <2>2, <2>3, <2>4 DEF DangerInv
<1>4. CASE ~(state \in Armed /\ Vcu!HasCriticalCondition(tel, state))
  <2>1. danger' = 0
    BY <1>4 DEF Elapse
  <2>2. QED
    BY <1>1, <1>2, <2>1 DEF DangerInv
<1>5. QED
  BY <1>3, <1>4

(* run() disarms the vehicle on a danger the mailbox shows; if it shows    *)
(* none, the CAN task has published since and the danger is over.          *)
LEMMA DangerTop ==
  ASSUME TypeOK, MailboxInv, DangerInv, VcuTop
  PROVE  DangerInv'
<1>1. VcuPeriod \in Nat \ {0} /\ danger \in Nat /\ Can!TypeOK
  BY SystemAssumption DEF TypeOK, Can!CanAssumption
<1>2. /\ sinceRun = VcuPeriod /\ sinceRun' = 0
      /\ UNCHANGED <<mailbox, danger, canPc, tel>>
  BY TopStep DEF canVars
<1>3. danger = 0 => DangerInv'
  BY <1>1, <1>2 DEF DangerInv
<1>4. ASSUME danger > 0 PROVE DangerInv'
  <2>1. /\ state \in Armed /\ canPc # "deleted" /\ danger <= VcuPeriod
        /\ canPc \in {"top", "rx"} => Vcu!HasCriticalCondition(mailbox, state)
    BY <1>1, <1>2, <1>4 DEF DangerInv
  <2>2. CASE Trip
    BY <1>1, <1>2, <2>1, <2>2 DEF Trip, DangerInv
  <2>3. CASE Proceed
    <3>1. state' = state /\ ~Vcu!HasCriticalCondition(mailbox, state)
      BY <2>1, <2>3 DEF Proceed, Armed, Vcu!Running
    <3>2. canPc = "sleep" /\ mailbox = tel
      BY <1>1, <2>1, <3>1 DEF MailboxInv, Can!TypeOK
    <3>3. ~Vcu!HasCriticalCondition(tel, state)'
      BY <1>2, <3>1, <3>2 DEF Vcu!HasCriticalCondition
    <3>4. QED
      BY <1>1, <1>2, <2>1, <3>1, <3>2, <3>3 DEF DangerInv
  <2>4. QED
    BY <2>2, <2>3, TopStep
<1>5. QED
  BY <1>1, <1>3, <1>4

LEMMA DangerStep ==
  ASSUME TypeOK, MailboxInv, FreshInv, DangerInv, [Next]_vars
  PROVE  DangerInv'
<1>1. /\ VcuPeriod \in Nat \ {0} /\ danger \in Nat /\ sinceRun \in Nat
      /\ Can!TypeOK
  BY SystemAssumption DEF TypeOK, Can!CanAssumption
<1>2. CASE CanTask
  <2>1. UNCHANGED <<state, pc, sinceRun, danger>> /\ canPc \in {"top", "rx"}
    BY <1>1, <1>2, CanTaskStep, OtherStep DEF CanPublish, Can!EndCycle
  <2>2. \/ canPc' = "rx" /\ mailbox' = mailbox
        \/ canPc' = "sleep"
    BY <1>1, <1>2, CanTaskStep
  <2>3. mailbox' = mailbox
          => (Vcu!HasCriticalCondition(mailbox, state)'
                <=> Vcu!HasCriticalCondition(mailbox, state))
    BY <2>1 DEF Vcu!HasCriticalCondition
  <2>4. QED
    BY <1>1, <2>1, <2>2, <2>3 DEF DangerInv
<1>3. CASE VcuTop
  BY <1>3, DangerTop
<1>4. CASE VcuPoll
  <2>1. /\ sinceRun = 0 /\ pc = "poll" /\ pc' = "top"
        /\ UNCHANGED <<canPc, tel, mailbox, sinceRun, danger>>
    BY <1>4, PollStep DEF FreshInv, canVars
  <2>2. CASE danger = 0
    BY <1>1, <2>1, <2>2 DEF DangerInv
  <2>3. CASE danger > 0
    <3>1. /\ state \in Armed /\ canPc = "sleep"
          /\ ~Vcu!HasCriticalCondition(tel, state)
      BY <2>1, <2>3 DEF DangerInv
    <3>2. state' \in Armed \/ state' \in Vcu!Stopped
      BY <1>4, <3>1, PollStep DEF Armed, Vcu!Stopped
    <3>3. state' \in Armed => ~Vcu!HasCriticalCondition(tel', state')
      BY <2>1, <3>1, ArmedAlike
    <3>4. QED
      BY <1>1, <2>1, <3>1, <3>2, <3>3
         DEF DangerInv, Vcu!HasCriticalCondition, Vcu!Stopped
  <2>4. QED
    BY <1>1, <2>2, <2>3
<1>5. CASE HmiCommand
  <2>1. UNCHANGED <<state, pc, sinceRun, danger, canPc, tel, mailbox>>
    BY <1>5, OtherStep DEF HmiCommand, canVars
  <2>2. QED
    BY <2>1 DEF DangerInv, Vcu!HasCriticalCondition, Vcu!Stopped
<1>6. CASE Elapse
  BY <1>6, DangerElapse
<1>7. CASE UNCHANGED vars
  BY <1>7 DEF vars, vcuVars, canVars, DangerInv, Vcu!HasCriticalCondition, Vcu!Stopped
<1>8. QED
  BY <1>2, <1>3, <1>4, <1>5, <1>6, <1>7 DEF Next, VcuTask

(* Critical data disarms the vehicle within one period of the VCU task.    *)
THEOREM DangerBrief == Spec => []DangerIsBrief
<1>1. Init => MailboxInv /\ FreshInv /\ DangerInv
  BY SystemAssumption
     DEF Init, Can!Init, Vcu!Init, MailboxInv, FreshInv, DangerInv, Can!NoTelemetry
<1>2. TypeOK /\ Can!TypeOK /\ Can!FlagsTellSilence
        /\ MailboxInv /\ FreshInv /\ DangerInv /\ [Next]_vars
        => MailboxInv' /\ FreshInv' /\ DangerInv'
  BY MailboxStep, FreshStep, DangerStep
<1>3. DangerInv => DangerIsBrief
  BY DEF DangerInv, DangerIsBrief
<1>4. QED
  BY <1>1, <1>2, <1>3, TypeCorrect, CanInvariants, PTL DEF Spec
=============================================================================
