-------------------------- MODULE CanManagerProofs --------------------------
(***************************************************************************)
(* Proofs about CanManager, for every timeout, every set of frames and any *)
(* number of frames per call.                                              *)
(***************************************************************************)
EXTENDS CanManager, TLAPS

(* Frame handlers and the freshness checks keep the types.                 *)
LEMMA MotorType ==
  ASSUME CanAssumption, TypeOK, NEW flags \in ErrorFlags, HandleMotorStatus(flags)
  PROVE  /\ motor' \in [flags : ErrorFlags, valid : BOOLEAN, seen : BOOLEAN,
                        age : 0 .. Horizon]
         /\ tel' \in Published /\ bms' = bms /\ charger' = charger
<1>1. /\ motor' \in [flags : ErrorFlags, valid : BOOLEAN, seen : BOOLEAN,
                      age : 0 .. Horizon]
      /\ bms' = bms /\ charger' = charger
  BY DEF CanAssumption, HandleMotorStatus
<1>2. (flags # 0) \in BOOLEAN
  OBVIOUS
<1>3. tel' \in Published
  BY <1>2 DEF TypeOK, HandleMotorStatus, Published
<1>4. QED
  BY <1>1, <1>3

LEMMA BmsType ==
  ASSUME CanAssumption, TypeOK, NEW packV \in PackVolts, HandleLbBmsE000(packV)
  PROVE  /\ bms' \in [flags : PackFault, valid : BOOLEAN, seen : BOOLEAN,
                      age : 0 .. Horizon]
         /\ tel' \in Published /\ motor' = motor /\ charger' = charger
<1>1. CheckPackVoltageFault(packV) \in PackFault
  BY DEF CheckPackVoltageFault, PackFault
<1>2. /\ bms' \in [flags : PackFault, valid : BOOLEAN, seen : BOOLEAN,
                    age : 0 .. Horizon]
      /\ motor' = motor /\ charger' = charger
  BY <1>1 DEF CanAssumption, HandleLbBmsE000
<1>3. tel' \in Published
  BY DEF TypeOK, HandleLbBmsE000, Published
<1>4. QED
  BY <1>2, <1>3

LEMMA ValidityType ==
  ASSUME TypeOK, UpdateValidity
  PROVE  /\ motor' \in [flags : ErrorFlags, valid : BOOLEAN, seen : BOOLEAN,
                        age : 0 .. Horizon]
         /\ bms' \in [flags : PackFault, valid : BOOLEAN, seen : BOOLEAN,
                      age : 0 .. Horizon]
         /\ charger' \in [valid : BOOLEAN, seen : BOOLEAN, age : 0 .. Horizon]
         /\ tel' \in Published
  BY DEF TypeOK, UpdateValidity, IsTimedOut, Published

(* Every variable stays in its type.                                       *)
THEOREM TypeCorrect ==
  ASSUME CanAssumption PROVE Spec => []TypeOK
<1>1. Init => TypeOK
  BY DEF CanAssumption, Init, TypeOK, NoTelemetry, Published, PackFault
<1>2. TypeOK /\ [Next]_canVars => TypeOK'
  <2> SUFFICES ASSUME TypeOK, [Next]_canVars PROVE TypeOK'
    OBVIOUS
  <2>1. CASE ReadAlerts
    BY <2>1 DEF CanAssumption, ReadAlerts, TypeOK
  <2>2. CASE EndCycle
    BY <2>2, ValidityType DEF EndCycle, TypeOK
  <2>3. CASE WakeUp
    BY <2>3 DEF CanAssumption, WakeUp, Older, TypeOK
  <2>4. ASSUME NEW fault \in BOOLEAN, MotorFrame(fault) PROVE TypeOK'
    BY <2>4, MotorType DEF CanAssumption, MotorFrame, Receiving, TypeOK
  <2>5. ASSUME NEW fault \in BOOLEAN, BmsFrame(fault) PROVE TypeOK'
    BY <2>5, BmsType DEF CanAssumption, BmsFrame, Receiving, TypeOK
  <2>6. CASE ChargerFrame
    BY <2>6 DEF CanAssumption, ChargerFrame, HandleCharger, Receiving, TypeOK
  <2>7. CASE OtherFrame
    BY <2>7 DEF CanAssumption, OtherFrame, Receiving, TypeOK
  <2>8. CASE BusOff \/ Recovered
    BY <2>8 DEF BusOff, Recovered, TypeOK
  <2>9. CASE UNCHANGED canVars
    BY <2>9 DEF canVars, TypeOK
  <2>10. QED
    BY <2>1, <2>2, <2>3, <2>4, <2>5, <2>6, <2>7, <2>8, <2>9 DEF Next
<1>3. QED
  BY <1>1, <1>2, PTL DEF Spec

-----------------------------------------------------------------------------
(* The fault flags and the published levels come from the same frame.      *)
THEOREM EdgeLevelAgreement ==
  ASSUME CanAssumption PROVE Spec => []EdgeAgreesWithLevel
<1>1. Init => EdgeAgreesWithLevel
  BY DEF Init, EdgeAgreesWithLevel, NoTelemetry
<1>2. TypeOK /\ EdgeAgreesWithLevel /\ [Next]_canVars => EdgeAgreesWithLevel'
  <2> SUFFICES ASSUME TypeOK, EdgeAgreesWithLevel, [Next]_canVars
               PROVE  EdgeAgreesWithLevel'
    OBVIOUS
  <2> USE DEF EdgeAgreesWithLevel
  <2>1. CASE UNCHANGED <<motor, bms, tel>>
    BY <2>1
  <2>2. CASE EndCycle
    BY <2>2 DEF EndCycle, UpdateValidity, TypeOK, Published
  <2>3. CASE WakeUp
    BY <2>3 DEF WakeUp, Older, TypeOK
  <2>4. ASSUME NEW fault \in BOOLEAN, MotorFrame(fault)
        PROVE  EdgeAgreesWithLevel'
    <3>1. PICK flags \in ErrorFlags : HandleMotorStatus(flags)
      BY <2>4 DEF MotorFrame
    <3>2. motor'.flags = flags /\ bms' = bms
      BY <3>1 DEF HandleMotorStatus
    <3>3. tel' = [tel EXCEPT !.motorError = flags # 0, !.motorTimeout = FALSE]
      BY <3>1 DEF HandleMotorStatus
    <3>4. tel \in Published
      BY DEF TypeOK
    <3>5. tel'.motorError = (flags # 0) /\ tel'.packV = tel.packV
      BY ONLY <3>3, <3>4, ZenonT(30) DEF Published
    <3>6. QED
      BY <3>2, <3>5
  <2>5. ASSUME NEW fault \in BOOLEAN, BmsFrame(fault)
        PROVE  EdgeAgreesWithLevel'
    BY <2>5 DEF BmsFrame, HandleLbBmsE000, TypeOK, Published
  <2>6. QED
    BY <2>1, <2>2, <2>3, <2>4, <2>5
       DEF Next, ReadAlerts, ChargerFrame, HandleCharger, OtherFrame, BusOff,
           Recovered, canVars
<1>3. QED
  BY <1>1, <1>2, TypeCorrect, PTL DEF Spec

-----------------------------------------------------------------------------
(* The inductive form of FlagsTellSilence.  Within a cycle the flags may   *)
(* lag behind a silence that has reached the timeout, never run ahead of   *)
(* it; data that is valid is of a source that was seen, and a timeout was  *)
(* flagged exactly when validity was withdrawn.                            *)
SilenceInv ==
  /\ motor.valid => motor.seen
  /\ bms.valid => bms.seen
  /\ charger.valid => charger.seen
  /\ tel.motorTimeout <=> (motor.seen /\ ~motor.valid)
  /\ tel.bmsTimeout <=> (bms.seen /\ ~bms.valid)
  /\ tel.bmsValid <=> bms.valid
  /\ motor.seen /\ ~motor.valid => motor.age >= CanTimeout
  /\ bms.seen /\ ~bms.valid => bms.age >= CanTimeout
  /\ charger.seen /\ ~charger.valid => charger.age >= ChargerTimeout
  /\ FlagsTellSilence

(* A published snapshot flags exactly the sources that fell silent.        *)
THEOREM SilenceFlagged ==
  ASSUME CanAssumption PROVE Spec => []FlagsTellSilence
<1>1. Init => SilenceInv
  BY DEF Init, SilenceInv, FlagsTellSilence, NoTelemetry
<1>2. TypeOK /\ SilenceInv /\ [Next]_canVars => SilenceInv'
  <2> SUFFICES ASSUME TypeOK, SilenceInv, [Next]_canVars PROVE SilenceInv'
    OBVIOUS
  <2> USE DEF SilenceInv, FlagsTellSilence
  <2>1. CASE UNCHANGED <<motor, bms, charger, tel>> /\ canPc' # "sleep"
    BY <2>1
  <2>2. CASE UNCHANGED <<motor, bms, charger, tel, canPc>>
    BY <2>2
  <2>3. CASE EndCycle
    BY <2>3 DEF CanAssumption, EndCycle, UpdateValidity, IsTimedOut, TypeOK,
                               Published
  <2>4. CASE WakeUp
    BY <2>4 DEF CanAssumption, WakeUp, Older, TypeOK
  <2>5. ASSUME NEW fault \in BOOLEAN, MotorFrame(fault) PROVE SilenceInv'
    BY <2>5 DEF MotorFrame, Receiving, HandleMotorStatus, TypeOK, Published
  <2>6. ASSUME NEW fault \in BOOLEAN, BmsFrame(fault) PROVE SilenceInv'
    BY <2>6 DEF BmsFrame, Receiving, HandleLbBmsE000, TypeOK, Published
  <2>7. CASE ChargerFrame
    BY <2>7 DEF ChargerFrame, Receiving, HandleCharger, TypeOK
  <2>8. QED
    BY <2>1, <2>2, <2>3, <2>4, <2>5, <2>6, <2>7
       DEF Next, ReadAlerts, OtherFrame, Receiving, BusOff, Recovered, canVars
<1>3. SilenceInv => FlagsTellSilence
  BY DEF SilenceInv
<1>4. QED
  BY <1>1, <1>2, <1>3, TypeCorrect, PTL DEF Spec
=============================================================================
