----------------------------- MODULE MCVcuLogic -----------------------------
(* Instances of VcuLogic for TLC.                                          *)
EXTENDS VcuLogic

CONSTANTS OlatA, OlatB

MCBank == {OlatA, OlatB}
ReliableWrites == {MCBank}
AnyWrites == SUBSET MCBank

(* One snapshot of each kind CanManager can publish: nothing seen yet,     *)
(* healthy, BMS stale, pack voltage just critical, motor stale with a      *)
(* healthy BMS, and a motor error.                                         *)
Healthy == [NoTelemetry EXCEPT !.bmsValid = TRUE, !.packV = 790]
MCSnapshots ==
  { NoTelemetry,
    Healthy,
    [NoTelemetry EXCEPT !.bmsTimeout = TRUE, !.packV = 790],
    [Healthy EXCEPT !.packV = CriticalMinDeciV],
    [Healthy EXCEPT !.motorTimeout = TRUE],
    [Healthy EXCEPT !.motorError = TRUE] }

(* Enough for the liveness runs: one healthy and one critical snapshot.    *)
FewSnapshots == { Healthy, [Healthy EXCEPT !.motorError = TRUE] }
=============================================================================
