---------------------------- MODULE UplinkFrame ----------------------------
(***************************************************************************)
(* What a telemetry packet contains: from the bytes of CAN frames          *)
(* (CanParse.cpp) through the snapshot (CanManager.cpp), the speed the CAN *)
(* task adds (Telemetry.h, VehicleParams.h) and sanitizeForUplink to the   *)
(* line sendStatus prints, against the ranges in which the ground station  *)
(* accepts a line.  The ground station (UKS) is external: its ranges are   *)
(* those of tools/e2e/contract.py.  It drops a line with one field outside *)
(* them whole.                                                             *)
(***************************************************************************)
EXTENDS Integers

CONSTANTS
  Bytes,         (* bound: the values a byte of a frame takes               *)
  Words,         (* bound: the values a big-endian word of a frame takes    *)
  Lengths        (* data length codes of frames                             *)

UINT8_MAX == 255
INT8_MIN == -128
INT8_MAX == 127
UINT16_MAX == 65535
INT16_MIN == -32768
INT16_MAX == 32767

FrameAssumption ==
  /\ Bytes \subseteq 0 .. UINT8_MAX /\ Words \subseteq 0 .. UINT16_MAX
  /\ Lengths \subseteq 0 .. 8

VARIABLE telemetry   (* s_telemetryData, one record for each frame's fields *)

vars == <<telemetry>>

(* The casts to int16_t and int8_t.                                        *)
Int16(w) == IF w > INT16_MAX THEN w - 65536 ELSE w
Int8(b) == IF b > INT8_MAX THEN b - 256 ELSE b

-----------------------------------------------------------------------------
(* Handlers.  A frame that is too short changes nothing; a motor frame of  *)
(* four bytes carries no error flags.                                      *)
MotorStatus(n, r, e) ==
  /\ n >= 4
  /\ telemetry' = [telemetry EXCEPT
       !.motor = [rpm |-> r, error |-> IF n >= 5 THEN e ELSE 0]]

LbBmsE000(n, c, v, s) ==
  /\ n >= 8
  /\ telemetry' = [telemetry EXCEPT
       !.pack = [current |-> Int16(c) * 10, packV |-> v, soc |-> s]]

LbBmsE001(n, b6, b7) ==
  /\ n >= 8
  /\ LET t1 == Int8(b6)
         t2 == Int8(b7)
     IN telemetry' = [telemetry EXCEPT
          !.temps = [high |-> IF t1 >= t2 THEN t1 ELSE t2,
                     low  |-> IF t1 <= t2 THEN t1 ELSE t2]]

-----------------------------------------------------------------------------
TEL_SPD_X10_MAX == 3000

BugSpeedUnclamped(rpm) == (rpm * 10556) \div 10000

(* rpm * pi * 0.56 m * 60 / 1000 * 10, to four places instead of a float's *)
RpmToSpeedKmhX10(rpm) ==
  LET x10 == (rpm * 10556) \div 10000
  IN IF x10 >= TEL_SPD_X10_MAX THEN TEL_SPD_X10_MAX ELSE x10

SanitizeSystemState(raw) == IF raw \in 1 .. 4 THEN raw ELSE 4
SOC_MAX == 10000
SanitizeSoc(raw) == IF raw > SOC_MAX THEN SOC_MAX ELSE raw
INT32_MIN == -2147483647 - 1
SanitizeCurrent(raw) == IF raw = INT32_MIN THEN INT32_MIN + 1 ELSE raw

(* What sendStatus prints: the snapshot of the CAN task, with the speed it *)
(* adds, sanitized.  No frame sets the system state.                       *)
Line ==
  LET motor == telemetry.motor
      pack  == telemetry.pack
  IN [rpm |-> motor.rpm, error |-> motor.error,
      current |-> SanitizeCurrent(pack.current),
      packV |-> pack.packV, soc |-> SanitizeSoc(pack.soc),
      tempH |-> telemetry.temps.high, tempL |-> telemetry.temps.low,
      sysState |-> SanitizeSystemState(0),
      spdX10 |-> RpmToSpeedKmhX10(motor.rpm)]

NoTelemetry == [motor |-> [rpm |-> 0, error |-> 0],
                pack |-> [current |-> 0, packV |-> 0, soc |-> 0],
                temps |-> [high |-> 0, low |-> 0]]
Init == telemetry = NoTelemetry

Next ==
  \/ \E n \in Lengths, r \in Words, e \in Bytes : MotorStatus(n, r, e)
  \/ \E n \in Lengths, c, v, s \in Words : LbBmsE000(n, c, v, s)
  \/ \E n \in Lengths, b6, b7 \in Bytes : LbBmsE001(n, b6, b7)

Spec == Init /\ [][Next]_vars

-----------------------------------------------------------------------------
(* Every field of the snapshot stays in its C++ type.                      *)
TypeOK ==
  telemetry \in
    [motor : [rpm : 0 .. UINT16_MAX, error : 0 .. UINT8_MAX],
     pack  : [current : 10 * INT16_MIN .. 10 * INT16_MAX,
              packV : 0 .. UINT16_MAX, soc : 0 .. UINT16_MAX],
     temps : [high : INT8_MIN .. INT8_MAX, low : INT8_MIN .. INT8_MAX]]

TEL_RPM_MAX == 20000

(* TelemetrySanitize.h: no value leaves the ranges in which the ground     *)
(* station accepts a line, whatever bytes arrive on the bus.  The firmware *)
(* does not keep this of the motor's speed.                                *)
FieldsAccepted ==
  /\ Line.rpm \in 0 .. TEL_RPM_MAX /\ Line.error \in 0 .. UINT8_MAX
  /\ Line.sysState \in 1 .. 4
  /\ Line.packV \in 0 .. UINT16_MAX
  /\ Line.current > INT32_MIN
  /\ Line.soc \in 0 .. SOC_MAX
  /\ Line.tempH \in INT8_MIN .. INT8_MAX /\ Line.tempL \in INT8_MIN .. INT8_MAX
  /\ Line.spdX10 \in 0 .. TEL_SPD_X10_MAX

(* What the code does of it: a line is dropped for the motor's speed and   *)
(* for nothing else.  The charge and the vehicle's speed, whose types are  *)
(* as wide, are clamped whatever rpm and word they are made from.  And     *)
(* tempH is the hotter of the two sensors, whichever byte that is.         *)
OnlyRpmRejected ==
  /\ FieldsAccepted <=> Line.rpm <= TEL_RPM_MAX
  /\ Line.tempL <= Line.tempH
=============================================================================
