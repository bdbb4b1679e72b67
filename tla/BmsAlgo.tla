------------------------------ MODULE BmsAlgo ------------------------------
(***************************************************************************)
(* computePack (lib/BmsAlgo/BmsAlgo.cpp): one pass over the cells of a     *)
(* snapshot, and the charge, the cells to discharge and the warning level  *)
(* that follow from it.  The snapshot comes from an ICellDataSource        *)
(* (BmsModel.h), whose cells change one at a time.                         *)
(***************************************************************************)
EXTENDS Integers

CONSTANTS
  N,           (* BMS_CELL_COUNT: 24                                        *)
  CellMv,      (* bound: the voltages a cell may have                       *)
  CellTemp     (* bound: and its temperatures                               *)

UINT16_MAX == 65535

Uint16 == 0 .. UINT16_MAX
Int16 == -32768 .. 32767

CellAssumption ==
  N \in Nat \ {0} /\ CellMv \subseteq Uint16 /\ CellTemp \subseteq Int16

VARIABLES
  cellVoltageMv,  cellTempC,  isValid    (* BmsPackData                     *)

vars == <<cellVoltageMv, cellTempC, isValid>>

Cell == 0 .. N - 1

OK == 0
WARNING == 1
CRITICAL == 2

-----------------------------------------------------------------------------
(* The pass over the cells.                                                *)

(* The first of the cells with the largest value.                          *)
MaxIndex(f) ==
  LET best[n \in 1 .. N] ==
        IF n = 1 THEN 0
        ELSE IF f[n - 1] > f[best[n - 1]] THEN n - 1 ELSE best[n - 1]
  IN best[N]

MinIndex(f) == MaxIndex([i \in Cell |-> -f[i]])

SumMv ==
  LET upTo[n \in 0 .. N] ==
        IF n = 0 THEN 0 ELSE upTo[n - 1] + cellVoltageMv[n - 1]
  IN upTo[N]

Pass ==
  LET maxIdx == MaxIndex(cellVoltageMv)
      minIdx == MinIndex(cellVoltageMv)
  IN [sumMv |-> SumMv, maxIdx |-> maxIdx, minIdx |-> minIdx,
      maxMv |-> cellVoltageMv[maxIdx], minMv |-> cellVoltageMv[minIdx],
      tMax |-> cellTempC[MaxIndex(cellTempC)],
      tMin |-> cellTempC[MinIndex(cellTempC)]]

-----------------------------------------------------------------------------
(* What follows from the pass.                                             *)
EMPTY_MV == 2500
FULL_MV == 3650

SocFromAvgMv(avgMv) ==
  CASE avgMv <= EMPTY_MV -> 0
    [] avgMv >= FULL_MV -> 100
    [] OTHER -> ((avgMv - EMPTY_MV) * 100) \div (FULL_MV - EMPTY_MV)

BALANCE_THRESHOLD_MV == 50
BALANCE_TOP_MARGIN_MV == 5

(* The cells whose balanceFlag is set.                                     *)
Balance(p) ==
  LET lowBound == IF p.maxMv > BALANCE_TOP_MARGIN_MV
                  THEN p.maxMv - BALANCE_TOP_MARGIN_MV ELSE 0
  IN IF p.maxMv - p.minMv > BALANCE_THRESHOLD_MV
     THEN {i \in Cell : cellVoltageMv[i] >= lowBound} ELSE {}

BugNoUndervoltBand(p) ==
  IF p.minMv < 2500 \/ p.maxMv > 3650 \/ p.tMax > 60 THEN CRITICAL
  ELSE IF p.maxMv > 3550 \/ p.tMax > 50 THEN WARNING
  ELSE OK

Level(p) ==
  IF p.minMv < 2500 \/ p.maxMv > 3650 \/ p.tMax > 60 THEN CRITICAL
  ELSE IF p.minMv < 2800 \/ p.maxMv > 3550 \/ p.tMax > 50 THEN WARNING
  ELSE OK

SocPercent == IF isValid THEN SocFromAvgMv(SumMv \div N) ELSE 0

ComputePack ==
  IF ~isValid
  THEN [packVoltageMv |-> 0, cellMaxMv |-> 0, cellMinMv |-> 0,
        cellMaxIndex |-> 0, cellMinIndex |-> 0, cellDeltaMv |-> 0,
        socPercent |-> SocPercent, balance |-> {}, warningLevel |-> CRITICAL,
        tempMaxC |-> 0, tempMinC |-> 0]
  ELSE LET p == Pass IN
       [packVoltageMv |-> p.sumMv, cellMaxMv |-> p.maxMv, cellMinMv |-> p.minMv,
        cellMaxIndex |-> p.maxIdx, cellMinIndex |-> p.minIdx,
        cellDeltaMv |-> p.maxMv - p.minMv,
        socPercent |-> SocPercent, balance |-> Balance(p),
        warningLevel |-> Level(p), tempMaxC |-> p.tMax, tempMinC |-> p.tMin]

-----------------------------------------------------------------------------
(* The source.                                                             *)
Voltage(i, v) ==
  /\ cellVoltageMv' = [cellVoltageMv EXCEPT ![i] = v]
  /\ UNCHANGED <<cellTempC, isValid>>

Temperature(i, t) ==
  /\ cellTempC' = [cellTempC EXCEPT ![i] = t]
  /\ UNCHANGED <<cellVoltageMv, isValid>>

Validity == isValid' = ~isValid /\ UNCHANGED <<cellVoltageMv, cellTempC>>

Init ==
  /\ \E v \in CellMv : cellVoltageMv = [i \in Cell |-> v]
  /\ \E t \in CellTemp : cellTempC = [i \in Cell |-> t]
  /\ isValid = FALSE

Next ==
  \/ \E i \in Cell, v \in CellMv : Voltage(i, v)
  \/ \E i \in Cell, t \in CellTemp : Temperature(i, t)
  \/ Validity

Spec == Init /\ [][Next]_vars

-----------------------------------------------------------------------------
(* Every field that does not carry a measurement on stays in its range:    *)
(* the charge is a percentage whatever the cells say.                      *)
TypeOK ==
  LET c == ComputePack IN
  /\ c.socPercent \in 0 .. 100 /\ c.warningLevel \in OK .. CRITICAL
  /\ c.cellMaxIndex \in Cell /\ c.cellMinIndex \in Cell
  /\ c.cellDeltaMv \in Uint16

(* The extremes are the extremes: the named cells have them and no cell    *)
(* and no temperature lies beyond.                                         *)
ExtremesExact ==
  LET c == ComputePack IN
  isValid =>
    /\ cellVoltageMv[c.cellMaxIndex] = c.cellMaxMv
    /\ cellVoltageMv[c.cellMinIndex] = c.cellMinMv
    /\ \A i \in Cell : /\ cellVoltageMv[i] \in c.cellMinMv .. c.cellMaxMv
                       /\ cellTempC[i] \in c.tempMinC .. c.tempMaxC

(* Balancing evens the pack out: it never discharges a cell while another  *)
(* one stands more than the margin above it, never a lowest one, and       *)
(* whenever two cells are more than the threshold apart it discharges      *)
(* some.  Nothing is discharged on data that is not valid.                 *)
BalancesOnlyTheTop ==
  LET flags == ComputePack.balance IN
  /\ \A i \in flags :
       /\ isValid
       /\ \A j \in Cell : cellVoltageMv[j] <= cellVoltageMv[i] + BALANCE_TOP_MARGIN_MV
       /\ \E j \in Cell \ flags : cellVoltageMv[j] < cellVoltageMv[i]
  /\ (isValid /\ \E i, j \in Cell :
        cellVoltageMv[i] - cellVoltageMv[j] > BALANCE_THRESHOLD_MV) => flags # {}

(* One bad cell decides: no number of good cells hides a cell outside the  *)
(* pack specification or a hot one, and neither does invalid data.         *)
WorstCellDecides ==
  (ComputePack.warningLevel = CRITICAL) <=>
    (isValid => \E i \in Cell : \/ cellVoltageMv[i] \notin 2500 .. 3650
                                \/ cellTempC[i] > 60)

(* CanParse::checkPackVoltageFault for a pack of N cells: its thresholds   *)
(* are SystemConfig.h's, 600 and 876 deciV for 24.                         *)
PackVoltageFault(deciV) == deciV <= 25 * N \/ 10 * deciV >= 365 * N

(* The two threshold sets agree: cells whose sum makes the VCU open the    *)
(* contactors are never shown as OK.                                       *)
PackFaultIsShown ==
  isValid /\ PackVoltageFault(ComputePack.packVoltageMv \div 100)
    => ComputePack.warningLevel # OK

(* The charge is the largest percentage whose voltage the average cell     *)
(* has reached, and 0 below the first.                                     *)
ChargeExact ==
  isValid =>
    \A p \in 1 .. 100 :
      p <= SocPercent <=>
        100 * (SumMv \div N) >= 100 * EMPTY_MV + p * (FULL_MV - EMPTY_MV)

(* What the pass and its formulas compute is what the plain definitions    *)
(* say, for any mix of cells: the five properties above together.          *)
PackAsDefined ==
  /\ ExtremesExact /\ BalancesOnlyTheTop /\ WorstCellDecides
  /\ PackFaultIsShown /\ ChargeExact
=============================================================================
