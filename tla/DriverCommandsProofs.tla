------------------------ MODULE DriverCommandsProofs ------------------------
(***************************************************************************)
(* Proofs about DriverCommands, for any queue length and any periods of    *)
(* the two tasks: what a scan finds in the queue, and what a RESET may     *)
(* find behind it.  The VCU task runs here as VcuLogic says, so            *)
(* VcuLogicProofs gives the types.                                         *)
(***************************************************************************)
EXTENDS DriverCommands, SequenceTheorems, TLAPS

VcuFacts == INSTANCE VcuLogicProofs WITH Writes <- {Bank}

(* How quiet a bus must be for the code's numbers.  Between two scans the  *)
(* VCU task has a cycle for every fault posted meanwhile, one for the      *)
(* command and one that is preempted; and the queue holds the faults of    *)
(* two scans, a command and one that is just being received.  With 5       *)
(* cycles in 100 ms and a queue of 8 that is so for up to three faults.    *)
(* This fixes what the properties call quiet and restricts no step: faults *)
(* still come in any number.  TLC finds a RESET that undoes a later E-STOP *)
(* on a quiet bus as soon as there is one cycle less than this asks for.   *)
ServedInTime == Quiet + 2 <= ScanCycles /\ 2 * Quiet + 1 < QueueCap

(* How many of the events in the queue are older than the last scan or     *)
(* came with it.                                                           *)
Left == Len(eventQueue) - faults

(* The next cycle may receive nothing: it takes an E-STOP or a critical    *)
(* condition.  The one after that cannot.                                  *)
MayPreempt == state \in Vcu!Running \/ eStopPending

One(p) == IF p THEN 1 ELSE 0

(* A command is the last of the events left; only while the cycle that a   *)
(* scan fell into has not received yet, one may be before it.              *)
CommandIsLast ==
  \A i \in 1 .. Len(eventQueue) :
    eventQueue[i] # "FAULT_DETECTED" =>
      i = Left \/ (i = 1 /\ pc = "poll" /\ sinceScan = 0)

(* Every cycle takes one of the events left, but for one that is preempted *)
(* and for the one at its poll.                                            *)
LeftInv ==
  /\ Len(eventQueue) <= faults + Quiet + 1 + One(pc = "poll")
  /\ Left > 0 =>
       Left + sinceScan + One(MayPreempt) <= Quiet + 2 + One(pc = "poll")

(* Only faults stand in the queue before an E-STOP, but for a command that *)
(* is received before anything can take the E-STOP.                        *)
OlderInv ==
  \A i \in 1 .. older :
    eventQueue[i] = "FAULT_DETECTED" \/ (i = 1 /\ pc = "poll" /\ eStopPending)

-----------------------------------------------------------------------------
(* The instance's definitions are those its proofs are about.              *)
LEMMA SameVcu ==
  /\ Vcu!Init <=> VcuFacts!Init
  /\ Vcu!RunTop <=> VcuFacts!RunTop
  /\ Vcu!RunPoll <=> VcuFacts!RunPoll
  /\ \A e : Vcu!PostEvent(e) <=> VcuFacts!PostEvent(e)
  /\ Vcu!PostEStop <=> VcuFacts!PostEStop
  /\ Vcu!TypeOK <=> VcuFacts!TypeOK
  /\ Vcu!DriveIsHealthy <=> VcuFacts!DriveIsHealthy
  /\ Vcu!OpenedMeansOpen <=> VcuFacts!OpenedMeansOpen
  /\ Vcu!ArmedMeansEnergised <=> VcuFacts!ArmedMeansEnergised
<1>1. /\ \A t : /\ Vcu!RunEStop(t) <=> VcuFacts!RunEStop(t)
                /\ Vcu!RunCritical(t) <=> VcuFacts!RunCritical(t)
                /\ Vcu!RunProceed(t) <=> VcuFacts!RunProceed(t)
      /\ Vcu!Init <=> VcuFacts!Init
      /\ Vcu!RunPoll <=> VcuFacts!RunPoll
      /\ \A e : Vcu!PostEvent(e) <=> VcuFacts!PostEvent(e)
      /\ Vcu!PostEStop <=> VcuFacts!PostEStop
      /\ Vcu!TypeOK <=> VcuFacts!TypeOK
      /\ Vcu!DriveIsHealthy <=> VcuFacts!DriveIsHealthy
      /\ Vcu!OpenedMeansOpen <=> VcuFacts!OpenedMeansOpen
      /\ Vcu!ArmedMeansEnergised <=> VcuFacts!ArmedMeansEnergised
  BY DEF Vcu!Telemetry, VcuFacts!Telemetry, Vcu!NoTelemetry,
         VcuFacts!NoTelemetry, Vcu!Running, VcuFacts!Running,
         Vcu!Stopped, VcuFacts!Stopped, Vcu!VcuState, VcuFacts!VcuState,
         Vcu!VcuEvent, VcuFacts!VcuEvent, Vcu!relayVars,
         VcuFacts!relayVars, Vcu!stopVars, VcuFacts!stopVars,
         Vcu!HasCriticalCondition, VcuFacts!HasCriticalCondition,
         Vcu!IsResetInterlockSatisfied,
         VcuFacts!IsResetInterlockSatisfied, Vcu!AllOn, VcuFacts!AllOn,
         Vcu!AllOff, VcuFacts!AllOff, Vcu!TransitionTo,
         VcuFacts!TransitionTo, Vcu!Elapsed, VcuFacts!Elapsed,
         Vcu!HandleReady, VcuFacts!HandleReady, Vcu!HandleStop,
         VcuFacts!HandleStop, Vcu!PeriodicHandler,
         VcuFacts!PeriodicHandler, Vcu!StartCycle, VcuFacts!StartCycle,
         Vcu!RunEStop, VcuFacts!RunEStop, Vcu!RunCritical,
         VcuFacts!RunCritical, Vcu!RunProceed, VcuFacts!RunProceed,
         Vcu!AtPoll, VcuFacts!AtPoll, Vcu!Receive, VcuFacts!Receive,
         Vcu!PollEmpty, VcuFacts!PollEmpty, Vcu!PollFault,
         VcuFacts!PollFault, Vcu!PollResetAccepted,
         VcuFacts!PollResetAccepted, Vcu!PollResetRejected,
         VcuFacts!PollResetRejected, Vcu!PollStart, VcuFacts!PollStart,
         Vcu!PollDriveEnable, VcuFacts!PollDriveEnable, Vcu!PollIgnored,
         VcuFacts!PollIgnored, Vcu!PostEvent, VcuFacts!PostEvent,
         Vcu!PostEStop, VcuFacts!PostEStop, Vcu!Init, VcuFacts!Init,
         Vcu!RunPoll, VcuFacts!RunPoll, Vcu!TypeOK, VcuFacts!TypeOK,
         Vcu!DriveIsHealthy, VcuFacts!DriveIsHealthy,
         Vcu!OpenedMeansOpen, VcuFacts!OpenedMeansOpen,
         Vcu!ArmedMeansEnergised, VcuFacts!ArmedMeansEnergised
<1>2. QED
  BY ONLY <1>1 DEF Vcu!RunTop, VcuFacts!RunTop

(* The tasks around it let the VCU task take only steps of VcuLogic.       *)
LEMMA VcuStep ==
  ASSUME pressed \in Seq(Command), [Next]_vars
  PROVE  [VcuFacts!Next]_(VcuFacts!vars)
<1> USE DEF VcuFacts!Next, VcuFacts!vars, VcuFacts!VcuEvent
<1>1. CASE VcuTop
  BY <1>1, SameVcu DEF VcuTop
<1>2. CASE VcuPoll
  BY <1>2, SameVcu DEF VcuPoll
<1>3. CASE Scan
  <2>1. pressed # <<>> => Head(pressed) \in Command
    OBVIOUS
  <2>2. QED
    BY <1>3, <2>1, SameVcu DEF Scan, Command, vcuVars
<1>4. CASE CanFault
  BY <1>4, SameVcu DEF CanFault
<1>5. CASE UNCHANGED vcuVars
  BY <1>5 DEF vcuVars
<1>6. QED
  BY <1>1, <1>2, <1>3, <1>4, <1>5 DEF Next, Press, vars

(* The panel's line holds commands, and the counters stay in range.        *)
ScanTypes ==
  /\ pressed \in Seq(Command) /\ Len(pressed) <= WireCap
  /\ sinceScan \in 0 .. ScanCycles /\ faults \in 0 .. Quiet + 1
  /\ calm \in BOOLEAN

LEMMA ScanTypesStep ==
  ASSUME ScanTypes, [Next]_vars
  PROVE  ScanTypes'
<1> USE DriverAssumption DEF ScanTypes
<1>1. CASE VcuTop
  BY <1>1 DEF VcuTop
<1>2. CASE VcuPoll
  BY <1>2 DEF VcuPoll, scanVars
<1>3. CASE Scan
  BY <1>3 DEF Scan
<1>4. CASE CanFault
  BY <1>4 DEF CanFault
<1>5. ASSUME NEW c \in Command, Press(c) PROVE ScanTypes'
  BY <1>5 DEF Press, scanVars
<1>6. CASE UNCHANGED vars
  BY <1>6 DEF vars, scanVars
<1>7. QED
  BY <1>1, <1>2, <1>3, <1>4, <1>5, <1>6 DEF Next

(* Whatever is pressed, the VCU task runs as VcuLogic says: its theorems   *)
(* hold here, and its types do.                                            *)
THEOREM DriverRunsVcu == Spec => VcuFacts!Spec /\ [](Vcu!TypeOK /\ ScanTypes)
<1>1. Init => VcuFacts!Init /\ ScanTypes
  BY SameVcu, DriverAssumption DEF Init, ScanTypes
<1>2. ScanTypes /\ [Next]_vars => [VcuFacts!Next]_(VcuFacts!vars) /\ ScanTypes'
  BY ScanTypesStep, VcuStep DEF ScanTypes
<1>3. Spec => VcuFacts!Spec /\ []ScanTypes
  BY <1>1, <1>2, PTL DEF Spec, VcuFacts!Spec
<1>4. VcuFacts!VcuAssumption
  BY DriverAssumption
     DEF Vcu!VcuAssumption, VcuFacts!VcuAssumption, Vcu!Telemetry, VcuFacts!Telemetry
<1>5. VcuFacts!Spec => []VcuFacts!TypeOK
  BY <1>4, VcuFacts!TypeCorrect
<1>6. VcuFacts!TypeOK => Vcu!TypeOK
  BY SameVcu
<1>7. QED
  BY <1>3, <1>5, <1>6, PTL

(* Hence, whatever is pressed and whatever faults fill the queue, the      *)
(* vehicle drives only on snapshots without a critical condition, READY    *)
(* and DRIVE have the contactors closed, and a stop that claims to have    *)
(* opened them has.  No assumption on how fast the queue is served.        *)
THEOREM DriverVcuInvariants ==
  Spec => [](Vcu!DriveIsHealthy /\ Vcu!OpenedMeansOpen /\ Vcu!ArmedMeansEnergised)
<1>1. VcuFacts!VcuAssumption
  BY DriverAssumption
     DEF Vcu!VcuAssumption, VcuFacts!VcuAssumption, Vcu!Telemetry, VcuFacts!Telemetry
<1>2. VcuFacts!Spec => []VcuFacts!DriveIsHealthy
  BY <1>1, VcuFacts!DriveSafety
<1>3. VcuFacts!Spec => []VcuFacts!OpenedMeansOpen
  BY <1>1, VcuFacts!OpenedSafety
<1>4. VcuFacts!Spec => []VcuFacts!ArmedMeansEnergised
  BY <1>1, VcuFacts!ArmedSafety
<1>5. QED
  BY <1>2, <1>3, <1>4, SameVcu, DriverRunsVcu, PTL

-----------------------------------------------------------------------------
(* What the two halves of a cycle and a post do to the queue.              *)
LEMMA TopEffect ==
  ASSUME Vcu!RunTop
  PROVE  /\ pc = "top" /\ eventQueue' = eventQueue
         /\ \/ pc' = "top" /\ MayPreempt /\ ~MayPreempt'
            \/ pc' = "poll" /\ (MayPreempt' => MayPreempt)
<1>1. PICK t \in Snapshots :
        Vcu!RunEStop(t) \/ Vcu!RunCritical(t) \/ Vcu!RunProceed(t)
  BY DEF Vcu!RunTop
<1>2. Vcu!StartCycle(t)
  BY <1>1 DEF Vcu!RunEStop, Vcu!RunCritical, Vcu!RunProceed
<1>3. pc = "top" /\ eventQueue' = eventQueue /\ eStopPending' = FALSE
  BY <1>2 DEF Vcu!StartCycle
<1>4. CASE Vcu!RunEStop(t)
  BY <1>3, <1>4 DEF Vcu!RunEStop, Vcu!TransitionTo, MayPreempt, Vcu!Running
<1>5. CASE Vcu!RunCritical(t)
  BY <1>3, <1>5 DEF Vcu!RunCritical, Vcu!TransitionTo, MayPreempt, Vcu!Running
<1>6. CASE Vcu!RunProceed(t)
  BY <1>3, <1>6 DEF Vcu!RunProceed, MayPreempt
<1>7. QED
  BY <1>1, <1>3, <1>4, <1>5, <1>6

LEMMA PollEffect ==
  ASSUME Vcu!RunPoll
  PROVE  /\ pc = "poll" /\ pc' = "top" /\ eStopPending' = eStopPending
         /\ \/ /\ eventQueue = <<>> /\ eventQueue' = <<>>
               /\ MayPreempt' => MayPreempt
            \/ /\ eventQueue # <<>> /\ eventQueue' = Tail(eventQueue)
               /\ MayPreempt' => MayPreempt \/ Head(eventQueue) = "RESET"
<1> USE DEF Vcu!AtPoll, Vcu!Receive, Vcu!TransitionTo, Vcu!PeriodicHandler,
            MayPreempt, Vcu!Running
<1>1. CASE Vcu!PollEmpty
  BY <1>1 DEF Vcu!PollEmpty
<1>2. CASE Vcu!PollFault
  BY <1>2 DEF Vcu!PollFault
<1>3. CASE Vcu!PollResetAccepted \/ Vcu!PollResetRejected
  BY <1>3 DEF Vcu!PollResetAccepted, Vcu!PollResetRejected
<1>4. CASE Vcu!PollStart \/ Vcu!PollDriveEnable
  BY <1>4 DEF Vcu!PollStart, Vcu!PollDriveEnable
<1>5. CASE Vcu!PollIgnored
  BY <1>5 DEF Vcu!PollIgnored
<1>6. QED
  BY <1>1, <1>2, <1>3, <1>4, <1>5 DEF Vcu!RunPoll

LEMMA PostEffect ==
  ASSUME NEW e, Vcu!PostEvent(e), Len(eventQueue) < QueueCap
  PROVE  /\ eventQueue' = Append(eventQueue, e)
         /\ UNCHANGED <<state, pc, eStopPending>> /\ MayPreempt' = MayPreempt
  BY DEF Vcu!PostEvent, MayPreempt

(* Events older than the last E-STOP are in the queue, however many faults *)
(* come and whatever a full queue drops.                                   *)
OlderType == older \in Nat /\ older <= Len(eventQueue)

LEMMA OlderStep ==
  ASSUME eventQueue \in Seq(Vcu!VcuEvent), pressed \in Seq(Command), OlderType, [Next]_vars
  PROVE  OlderType'
<1> USE DEF OlderType
<1>1. CASE VcuTop
  BY <1>1, TopEffect DEF VcuTop
<1>2. CASE VcuPoll
  <2>1. \/ eventQueue = <<>> /\ eventQueue' = <<>>
        \/ eventQueue # <<>> /\ eventQueue' = Tail(eventQueue)
    BY <1>2, PollEffect DEF VcuPoll
  <2>2. eventQueue # <<>> => Len(Tail(eventQueue)) = Len(eventQueue) - 1
    OBVIOUS
  <2>3. QED
    BY <1>2, <2>1, <2>2 DEF VcuPoll
<1>3. ASSUME NEW e \in Vcu!VcuEvent, Vcu!PostEvent(e), UNCHANGED older PROVE OlderType'
  <2>1. eventQueue' = Append(eventQueue, e) \/ eventQueue' = eventQueue
    BY <1>3 DEF Vcu!PostEvent
  <2>2. Len(Append(eventQueue, e)) = Len(eventQueue) + 1
    OBVIOUS
  <2>3. QED
    BY <1>3, <2>1, <2>2
<1>4. CASE Scan
  <2>1. CASE UNCHANGED <<vcuVars, older>>
    BY <2>1 DEF vcuVars
  <2>2. CASE Vcu!PostEStop /\ older' = Len(eventQueue)
    BY <2>2 DEF Vcu!PostEStop
  <2>3. pressed # <<>> => Head(pressed) \in Command
    OBVIOUS
  <2>4. QED
    BY <1>3, <1>4, <2>1, <2>2, <2>3 DEF Scan, Command, Vcu!VcuEvent
<1>5. CASE CanFault
  BY <1>3, <1>5 DEF CanFault, Vcu!VcuEvent
<1>6. CASE UNCHANGED <<vcuVars, older>>
  BY <1>6 DEF vcuVars
<1>7. QED
  BY <1>1, <1>2, <1>4, <1>5, <1>6 DEF Next, Press, vars

(* Every variable keeps its type, whatever is pressed and however many     *)
(* faults fill the queue; events older than the last E-STOP are at the     *)
(* front of it.                                                            *)
THEOREM TypeCorrect == Spec => []TypeOK
<1>1. Init => OlderType
  BY DEF Init, Vcu!Init, OlderType
<1>2. Vcu!TypeOK /\ ScanTypes /\ OlderType /\ [Next]_vars => OlderType'
  BY OlderStep DEF Vcu!TypeOK, ScanTypes
<1>3. Vcu!TypeOK /\ ScanTypes /\ OlderType => TypeOK
  BY DEF TypeOK, ScanTypes, OlderType, Vcu!TypeOK
<1>4. QED
  BY <1>1, <1>2, <1>3, DriverRunsVcu, PTL DEF Spec

-----------------------------------------------------------------------------
(* Where the events stand while the bus is quiet.                          *)
CalmInv == faults <= Quiet /\ CommandIsLast /\ LeftInv /\ OlderInv

(* The invariant, in one formula: a burst suspends it, and the first scan  *)
(* that finds the queue empty restores it.                                 *)
QueueInv == calm => CalmInv

(* What a step needs to know of types.                                     *)
QueueTypes ==
  /\ eventQueue \in Seq(Vcu!VcuEvent) /\ pc \in {"top", "poll"}
  /\ ScanTypes /\ OlderType

(* A scan finds the events left before it received, or the last of them in *)
(* a cycle that is about to receive it.                                    *)
LEMMA ScanFinds ==
  ASSUME ServedInTime, QueueTypes, CalmInv, sinceScan = ScanCycles
  PROVE  /\ Left <= One(pc = "poll")
         /\ Left = 1 => ~MayPreempt
         /\ Len(eventQueue) < QueueCap
         /\ \A i \in 1 .. Len(eventQueue) :
              eventQueue[i] # "FAULT_DETECTED" => i = 1 /\ pc = "poll" /\ Left = 1
<1>1. /\ Len(eventQueue) \in Nat /\ faults \in Nat /\ faults <= Quiet
      /\ Quiet \in Nat /\ QueueCap \in Nat /\ ScanCycles \in Nat
  BY DriverAssumption DEF QueueTypes, ScanTypes, Vcu!VcuAssumption, CalmInv
<1>2. Left <= One(pc = "poll") /\ (Left = 1 => ~MayPreempt)
  BY <1>1 DEF ServedInTime, CalmInv, LeftInv, Left, One
<1>3. Len(eventQueue) < QueueCap
  BY <1>1, <1>2 DEF ServedInTime, Left, One
<1>4. \A i \in 1 .. Len(eventQueue) :
        eventQueue[i] # "FAULT_DETECTED" => i = 1 /\ pc = "poll" /\ Left = 1
  BY <1>1, <1>2 DEF CalmInv, CommandIsLast, Left, One, ServedInTime
<1>5. QED
  BY <1>2, <1>3, <1>4

(* There is always room for one more fault.                                *)
LEMMA RoomForFault ==
  ASSUME ServedInTime, QueueTypes, CalmInv, faults < Quiet
  PROVE  Len(eventQueue) < QueueCap
  BY DriverAssumption DEF QueueTypes, ScanTypes, Vcu!VcuAssumption, CalmInv, LeftInv,
     ServedInTime, One

LEMMA TopKeeps ==
  ASSUME QueueTypes, CalmInv, VcuTop
  PROVE  CalmInv'
<1>1. /\ pc = "top" /\ eventQueue' = eventQueue /\ faults' = faults /\ older' = older
      /\ \/ pc' = "top" /\ MayPreempt /\ ~MayPreempt'
         \/ pc' = "poll" /\ (MayPreempt' => MayPreempt)
      /\ sinceScan' <= sinceScan + 1 /\ sinceScan' \in Nat
      /\ Len(eventQueue) \in Nat /\ faults \in Nat /\ Quiet \in Nat /\ sinceScan \in Nat
      /\ faults <= Quiet
  BY TopEffect, DriverAssumption DEF VcuTop, QueueTypes, ScanTypes, CalmInv
<1>2. CommandIsLast'
  BY <1>1 DEF CalmInv, CommandIsLast, Left
<1>3. LeftInv'
  BY <1>1 DEF CalmInv, LeftInv, Left, One
<1>4. OlderInv'
  BY <1>1 DEF CalmInv, OlderInv
<1>5. QED
  BY <1>1, <1>2, <1>3, <1>4 DEF CalmInv

LEMMA PollKeeps ==
  ASSUME QueueTypes, CalmInv, VcuPoll
  PROVE  CalmInv'
<1>1. /\ pc = "poll" /\ pc' = "top" /\ UNCHANGED <<sinceScan, faults, eStopPending>>
      /\ older' = IF older > 0 THEN older - 1 ELSE 0
      /\ Len(eventQueue) \in Nat /\ faults \in Nat /\ Quiet \in Nat /\ sinceScan \in Nat
      /\ faults <= Quiet /\ older \in Nat /\ older <= Len(eventQueue)
  BY PollEffect, DriverAssumption
     DEF VcuPoll, scanVars, QueueTypes, ScanTypes, CalmInv, OlderType
<1>2. CASE /\ eventQueue = <<>> /\ eventQueue' = <<>>
           /\ MayPreempt' => MayPreempt
  BY <1>1, <1>2 DEF CalmInv, CommandIsLast, LeftInv, OlderInv, Left, One
<1>3. CASE /\ eventQueue # <<>> /\ eventQueue' = Tail(eventQueue)
           /\ MayPreempt' => MayPreempt \/ Head(eventQueue) = "RESET"
  <2>1. /\ Len(eventQueue') = Len(eventQueue) - 1
        /\ \A i \in 1 .. Len(eventQueue') : eventQueue'[i] = eventQueue[i + 1]
        /\ Head(eventQueue) = eventQueue[1] /\ Len(eventQueue) > 0
    BY <1>3 DEF QueueTypes
  <2>2. CommandIsLast'
    BY <1>1, <2>1 DEF CalmInv, CommandIsLast, Left
  <2>3. eventQueue[1] = "RESET" => Left = 1 \/ sinceScan = 0
    BY <1>1, <2>1 DEF CalmInv, CommandIsLast
  <2>4. LeftInv'
    <3>1. One(MayPreempt)' <= One(MayPreempt) \/ eventQueue[1] = "RESET"
      BY <1>3, <2>1 DEF One
    <3>2. One(MayPreempt) \in 0 .. 1 /\ One(MayPreempt)' \in 0 .. 1
      BY DEF One
    <3>3. One(pc = "poll") = 1 /\ One(pc = "poll")' = 0
      BY <1>1 DEF One
    <3>4. /\ Len(eventQueue) <= faults + Quiet + 2
          /\ Left > 0 => Left + sinceScan + One(MayPreempt) <= Quiet + 3
          /\ Left = Len(eventQueue) - faults /\ Left' = Left - 1
      BY <1>1, <2>1, <3>3 DEF CalmInv, LeftInv, Left
    <3>5. Left' > 0 => Left' + sinceScan' + One(MayPreempt)' <= Quiet + 2
      BY <1>1, <2>1, <2>3, <3>1, <3>2, <3>4
    <3>6. QED
      BY <1>1, <2>1, <3>3, <3>4, <3>5 DEF LeftInv
  <2>5. OlderInv'
    BY <1>1, <2>1 DEF CalmInv, OlderInv
  <2>6. QED
    BY <1>1, <2>2, <2>4, <2>5 DEF CalmInv
<1>4. QED
  BY <1>2, <1>3, PollEffect DEF VcuPoll

LEMMA ScanKeeps ==
  ASSUME ServedInTime, QueueTypes, QueueInv, Scan, calm'
  PROVE  CalmInv'
<1>1. /\ sinceScan = ScanCycles /\ sinceScan' = 0 /\ faults' = 0
      /\ Len(eventQueue) \in Nat /\ faults \in Nat /\ Quiet \in Nat
      /\ older \in Nat /\ older <= Len(eventQueue) /\ QueueCap \in Nat \ {0}
  BY DriverAssumption DEF Scan, QueueTypes, ScanTypes, OlderType, Vcu!VcuAssumption
<1>2. /\ Left <= One(pc = "poll")
      /\ Left = 1 => ~MayPreempt
      /\ Len(eventQueue) < QueueCap
      /\ \A i \in 1 .. Len(eventQueue) :
           eventQueue[i] # "FAULT_DETECTED" => i = 1 /\ pc = "poll" /\ Left = 1
      /\ Len(eventQueue) <= Quiet + One(pc = "poll") /\ OlderInv
  <2>1. CASE eventQueue = <<>>
    BY <1>1, <2>1 DEF Left, One, OlderInv
  <2>2. CASE calm
    <3>1. CalmInv
      BY <2>2 DEF QueueInv
    <3>2. Left <= One(pc = "poll") /\ faults <= Quiet
      BY <1>1, <3>1, ScanFinds DEF CalmInv
    <3>3. Len(eventQueue) <= Quiet + One(pc = "poll")
      BY <1>1, <3>2 DEF Left, One
    <3>4. QED
      BY <1>1, <3>1, <3>3, ScanFinds DEF CalmInv
  <2>3. QED
    BY <2>1, <2>2 DEF Scan
<1>3. CASE UNCHANGED <<vcuVars, older>>
  BY <1>1, <1>2, <1>3
     DEF vcuVars, CalmInv, CommandIsLast, LeftInv, OlderInv, Left, One, MayPreempt
<1>4. CASE Vcu!PostEStop /\ older' = Len(eventQueue)
  BY <1>1, <1>2, <1>4
     DEF Vcu!PostEStop, CalmInv, CommandIsLast, LeftInv, OlderInv, Left, One, MayPreempt
<1>5. ASSUME NEW e, Vcu!PostEvent(e), UNCHANGED older, e \in Vcu!VcuEvent
      PROVE  CalmInv'
  <2>1. /\ eventQueue' = Append(eventQueue, e)
        /\ UNCHANGED <<pc, eStopPending>> /\ MayPreempt' = MayPreempt
    BY <1>2, <1>5, PostEffect
  <2>2. /\ Len(eventQueue') = Len(eventQueue) + 1
        /\ \A i \in 1 .. Len(eventQueue) : eventQueue'[i] = eventQueue[i]
    BY <1>5, <2>1 DEF QueueTypes
  <2>3. CommandIsLast'
    BY <1>1, <1>2, <2>1, <2>2 DEF CommandIsLast, Left
  <2>4. LeftInv'
    BY <1>1, <1>2, <2>1, <2>2 DEF LeftInv, Left, One
  <2>5. OlderInv'
    BY <1>1, <1>2, <1>5, <2>1, <2>2 DEF OlderInv
  <2>6. QED
    BY <1>1, <2>3, <2>4, <2>5 DEF CalmInv
<1>6. pressed # <<>> => Head(pressed) \in Command
  BY DEF QueueTypes, ScanTypes
<1>7. QED
  BY <1>3, <1>4, <1>5, <1>6 DEF Scan, Command, Vcu!VcuEvent

LEMMA FaultKeeps ==
  ASSUME ServedInTime, QueueTypes, CalmInv, CanFault, faults < Quiet
  PROVE  CalmInv'
<1>1. /\ faults' = faults + 1 /\ UNCHANGED <<sinceScan, older>>
      /\ Len(eventQueue) \in Nat /\ faults \in Nat /\ Quiet \in Nat
      /\ older \in Nat /\ older <= Len(eventQueue) /\ sinceScan \in Nat
  BY DriverAssumption DEF CanFault, QueueTypes, ScanTypes, OlderType
<1>2. /\ eventQueue' = Append(eventQueue, "FAULT_DETECTED")
      /\ UNCHANGED <<pc, eStopPending>> /\ MayPreempt' = MayPreempt
  BY RoomForFault, PostEffect DEF CanFault
<1>3. /\ Len(eventQueue') = Len(eventQueue) + 1
      /\ \A i \in 1 .. Len(eventQueue) : eventQueue'[i] = eventQueue[i]
      /\ eventQueue'[Len(eventQueue')] = "FAULT_DETECTED"
  BY <1>2 DEF QueueTypes, Vcu!VcuEvent
<1>4. CommandIsLast'
  <2>1. Left' = Left
    BY <1>1, <1>3 DEF Left
  <2>2. ASSUME NEW i \in 1 .. Len(eventQueue'), eventQueue'[i] # "FAULT_DETECTED"
        PROVE  i \in 1 .. Len(eventQueue) /\ eventQueue[i] # "FAULT_DETECTED"
    BY <1>1, <1>3, <2>2
  <2>3. QED
    BY <1>1, <1>2, <2>1, <2>2 DEF CalmInv, CommandIsLast
<1>5. LeftInv'
  BY <1>1, <1>2, <1>3 DEF CalmInv, LeftInv, Left, One
<1>6. OlderInv'
  BY <1>1, <1>2, <1>3 DEF CalmInv, OlderInv
<1>7. QED
  BY <1>1, <1>4, <1>5, <1>6 DEF CalmInv

(* The inductive invariant: whatever is pressed and reported, where the    *)
(* commands and faults in the queue stand while the bus is quiet.          *)
THEOREM QueueInductive ==
  ASSUME ServedInTime PROVE Spec => [](QueueTypes /\ QueueInv)
<1>1. Init => QueueInv
  BY DriverAssumption
     DEF Init, Vcu!Init, QueueInv, CalmInv, CommandIsLast, LeftInv, OlderInv, Left, One
<1>2. QueueTypes /\ QueueInv /\ [Next]_vars => QueueInv'
  <2> SUFFICES ASSUME QueueTypes, QueueInv, [Next]_vars, calm' PROVE CalmInv'
    BY DEF QueueInv
  <2>1. CASE VcuTop
    BY <2>1, TopKeeps DEF VcuTop, QueueInv
  <2>2. CASE VcuPoll
    BY <2>2, PollKeeps DEF VcuPoll, scanVars, QueueInv
  <2>3. CASE Scan
    BY <2>3, ScanKeeps
  <2>4. CASE CanFault
    BY <2>4, FaultKeeps DEF CanFault, QueueInv
  <2>5. CASE UNCHANGED <<vcuVars, scanVars, older>>
    BY <2>5 DEF vcuVars, scanVars, QueueInv, CalmInv, CommandIsLast, LeftInv,
       OlderInv, Left, One, MayPreempt
  <2>6. QED
    BY <2>1, <2>2, <2>3, <2>4, <2>5 DEF Next, Press, vars
<1>3. Vcu!TypeOK /\ TypeOK => QueueTypes
  BY DEF Vcu!TypeOK, TypeOK, QueueTypes, ScanTypes, OlderType
<1>4. QED
  BY <1>1, <1>2, <1>3, DriverRunsVcu, TypeCorrect, PTL DEF Spec

-----------------------------------------------------------------------------
(* A driver's command is dropped only after more faults between two scans  *)
(* than the numbers serve in time, and not any more once a scan has found  *)
(* the queue empty again.                                                  *)
THEOREM DriverHasRoom ==
  ASSUME ServedInTime PROVE Spec => DropsOnlyAfterBurst
<1>1. QueueTypes /\ QueueInv =>
        (Scan /\ pressed # <<>> /\ calm => Len(eventQueue) < QueueCap)
  BY ScanFinds DEF Scan, QueueInv
<1>2. QED
  BY <1>1, QueueInductive, PTL DEF DropsOnlyAfterBurst

(* And only after such a burst is an E-STOP that was taken undone by a     *)
(* RESET that had been waiting before it.                                  *)
THEOREM OlderResetsLose ==
  ASSUME ServedInTime PROVE Spec => OlderResetWinsOnlyAfterBurst
<1>1. QueueTypes /\ QueueInv =>
        (Vcu!PollResetAccepted /\ calm => older = 0 \/ eStopPending)
  <2> SUFFICES ASSUME QueueTypes, CalmInv, Vcu!PollResetAccepted, older # 0
               PROVE  eStopPending
    BY DEF QueueInv
  <2>1. eventQueue[1] = "RESET"
    BY DEF Vcu!PollResetAccepted, Vcu!Receive, QueueTypes
  <2>2. 1 \in 1 .. older
    BY DEF QueueTypes, OlderType
  <2>3. QED
    BY <2>1, <2>2 DEF CalmInv, OlderInv
<1>2. QED
  BY <1>1, QueueInductive, PTL DEF OlderResetWinsOnlyAfterBurst
=============================================================================
