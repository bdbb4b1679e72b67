----------------------------- MODULE TickClock -----------------------------
(***************************************************************************)
(* Elapsed time on a clock that wraps around.  TickType_t and the          *)
(* millisecond clock of the BMS page are 32 bits wide, and every timeout   *)
(* and period is decided on the difference of two readings.  The other     *)
(* modules keep ages that never wrap; this one justifies them: a polling   *)
(* loop reads the clock once a pass, notes it when a frame arrives or a    *)
(* period starts, and decides as CanParse's isMotorStatusTimedOut and      *)
(* isBmsStatusTimedOut and the loops of main.cpp do.                       *)
(***************************************************************************)
EXTENDS Integers

CONSTANTS
  TickMod,     (* 2^32                                                      *)
  Timeout,     (* CAN_MOTOR_STATUS_TIMEOUT_MS and its like, in ticks        *)
  Period,      (* LORA_TX_PERIOD_MS, or the 1000 ms of the BMS page         *)
  MaxPause,    (* the longest time between two passes                       *)
  Horizon      (* bound: true ages beyond it are not told apart             *)

ClockAssumption ==
  /\ {TickMod, Timeout, Period, MaxPause, Horizon} \subseteq Nat \ {0}
  /\ Timeout + MaxPause <= TickMod /\ Period + MaxPause <= TickMod
  /\ Horizon >= TickMod + Timeout

VARIABLES
  now,        (* xTaskGetTickCount() at the start of the pass               *)
  pc,         (* what is left of the pass                                   *)
  hasSeen, lastValid, lastTick,   (* the source: CAN_hasSeen..., .isValid,  *)
              (* CAN_last...Tick                                            *)
  lastTx,     (* LO_lastTelemetryTick, BMS_lastCellUpdateMs                 *)
  age,        (* history: the true age of the last frame                    *)
  txAge       (* history: the true time since lastTx was noted              *)

sourceVars == <<hasSeen, lastValid, lastTick, age>>
periodVars == <<lastTx, txAge>>
vars == <<now, pc, sourceVars, periodVars>>

Later(a, d) == IF a + d > Horizon THEN Horizon ELSE a + d

(* The next pass begins d ticks after the last one.                        *)
Advance(d) ==
  /\ pc = "sleep" /\ pc' = "rx"
  /\ now' = (now + d) % TickMod
  /\ age' = Later(age, d) /\ txAge' = Later(txAge, d)
  /\ UNCHANGED <<hasSeen, lastValid, lastTick, lastTx>>

Frame ==
  /\ pc = "rx" /\ pc' = "check"
  /\ hasSeen' = TRUE /\ lastValid' = TRUE /\ lastTick' = now /\ age' = 0
  /\ UNCHANGED <<now, periodVars>>

NoFrame == pc = "rx" /\ pc' = "check" /\ UNCHANGED <<now, sourceVars, periodVars>>

IsTimedOut ==
  hasSeen /\ lastValid /\ (now - lastTick) % TickMod >= Timeout

BugValidRecomputed ==
  /\ pc = "check" /\ pc' = "tick"
  /\ lastValid' = (hasSeen /\ (now - lastTick) % TickMod < Timeout)
  /\ UNCHANGED <<now, hasSeen, lastTick, age, periodVars>>

(* Once timed out the source stays so until its next frame: how long the   *)
(* silence lasts after that is not looked at.                              *)
CheckTimeout ==
  /\ pc = "check" /\ pc' = "tick"
  /\ lastValid' = (lastValid /\ ~IsTimedOut)
  /\ UNCHANGED <<now, hasSeen, lastTick, age, periodVars>>

BugPeriodCompared == now >= (lastTx + Period) % TickMod

IsDue == (now - lastTx) % TickMod >= Period

Tick == /\ pc = "tick" /\ IsDue
        /\ pc' = "sleep" /\ lastTx' = now /\ txAge' = 0
        /\ UNCHANGED <<now, sourceVars>>

NoTick == /\ pc = "tick" /\ ~IsDue
          /\ pc' = "sleep"
          /\ UNCHANGED <<now, sourceVars, periodVars>>

(* The clock starts at 0; the loop reaches its first pass a little later.  *)
Init ==
  /\ now = 0 /\ pc = "sleep"
  /\ hasSeen = FALSE /\ lastValid = FALSE /\ lastTick = 0 /\ age = 0
  /\ lastTx = 0 /\ txAge = 0

Next == \/ \E d \in 1 .. MaxPause : Advance(d)
        \/ Frame \/ NoFrame \/ CheckTimeout \/ Tick \/ NoTick

Spec == Init /\ [][Next]_vars

-----------------------------------------------------------------------------
(* Every variable stays in its type.                                       *)
TypeOK ==
  /\ now \in 0 .. TickMod - 1 /\ pc \in {"sleep", "rx", "check", "tick"}
  /\ {hasSeen, lastValid} \subseteq BOOLEAN
  /\ lastTick \in 0 .. TickMod - 1 /\ lastTx \in 0 .. TickMod - 1
  /\ age \in 0 .. Horizon /\ txAge \in 0 .. Horizon

(* After every pass a source counts as valid exactly if its last frame is  *)
(* younger than the timeout - also at the wrap-around, also after a        *)
(* silence longer than the clock can count.                                *)
TimeoutIsTrue ==
  pc = "sleep" /\ hasSeen => (lastValid <=> age < Timeout)

(* A period never starts early, and never a pass late.                     *)
PeriodKept == [][/\ Tick => txAge >= Period
                 /\ NoTick => txAge < Period]_vars
=============================================================================
