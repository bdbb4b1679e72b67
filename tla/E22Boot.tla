------------------------------ MODULE E22Boot ------------------------------
(***************************************************************************)
(* The E22 LoRa radio is configured at every boot: the first part of       *)
(* vTask_LoRa_UKS (main.cpp) with E22Config.cpp, and beside it the bench    *)
(* program e22_diagnostic.cpp, which reads the same registers and is       *)
(* flashed instead of the vehicle's firmware.                              *)
(*                                                                         *)
(* The radio is external: how it answers, when it follows the mode pins    *)
(* and when it moves its AUX line is taken from what the code waits for.   *)
(* It may still show AUX high just after the pins changed, and may lose,   *)
(* garble, reject or delay any answer.  Either side may lose power, and    *)
(* the ESP may restart alone while the radio is at work.                   *)
(***************************************************************************)
EXTENDS Integers, Sequences

CONSTANTS
  ModeTimeout,   (* LORA_AUX_MODE_TIMEOUT_MS, DIAG_AUX_WAIT_MS              *)
  CfgTimeout,    (* LORA_AUX_CFG_TIMEOUT_MS                                 *)
  ReadTimeout,   (* LORA_CFG_READ_TIMEOUT_MS, DIAG_RX_WAIT_MS               *)
  Settle,        (* the 50 ms the radio is given to pull AUX low            *)
  RetryDelay,    (* 1000 ms between two attempts to start the UART          *)
  WdtTimeout,    (* CONFIG_ESP_TASK_WDT_TIMEOUT_S                           *)
  Foreign,       (* readable registers that differ from E22_CONTRACT_REGS   *)
  MaxQueued      (* bound: commands and answers under way                   *)

Contract == "E22_CONTRACT_REGS"

BootAssumption ==
  /\ {ModeTimeout, CfgTimeout, ReadTimeout, Settle, RetryDelay} \subseteq Nat
  /\ WdtTimeout \in Nat /\ MaxQueued \in Nat \ {0}
  /\ Contract \notin Foreign /\ {"error", "junk", "nothing"} \cap Foreign = {}

(* What a register block says that the code looks at: all of it but the    *)
(* key (CRYPT_H, CRYPT_L), which is written and cannot be read back.       *)
Registers == Foreign \cup {Contract}
Keys == {Contract, "another"}
(* FF FF FF; anything shorter than a register block or with another header *)
NotRegisters == {"error", "junk"}

VARIABLES
  program,     (* which firmware is flashed                                 *)
  stage,       (* where it is in its sequence                               *)
  elapsed,     (* time since esp_task_wdt_add or the last esp_task_wdt_reset*)
  verdict,     (* what was logged of the configuration                      *)
  rx,          (* answers in the ESP's receive buffer                       *)
  pins,        (* the mode M0 and M1 ask for                                *)
  mode,        (* the mode the radio is in                                  *)
  aux,         (* its AUX line is high                                      *)
  inbox,       (* commands it has received and not answered                 *)
  flash,       (* its stored registers, as far as they can be read          *)
  crypt,       (* whose key is stored with them: CRYPT_H and CRYPT_L        *)
  healthy      (* history: in this boot it answered every command in time   *)

taskVars == <<program, stage, elapsed, verdict>>
radioVars == <<mode, aux, inbox, flash, crypt>>
vars == <<taskVars, rx, pins, radioVars, healthy>>

Limit(t) == IF t > WdtTimeout THEN WdtTimeout + 1 ELSE t
Put(q, v) == IF Len(q) < MaxQueued THEN Append(q, v) ELSE q

-----------------------------------------------------------------------------
(* The task.  Of a wait only its shortest and longest length are told      *)
(* apart: time is only ever added up.                                      *)
Spend(d) == elapsed' = Limit(elapsed + d)
UpTo(t) == \E d \in {0, t} : Spend(d)

(* A command reaches a radio in configuration mode; in any other mode its  *)
(* bytes go on the air.                                                    *)
Send(command) ==
  inbox' = IF mode = "config" THEN Put(inbox, command) ELSE inbox

(* uart_flush: whatever has arrived so far is forgotten.                   *)
Flush == rx' = <<>>

(* uart_read_bytes asks for a whole register block.  It returns as soon as *)
(* one is there, and at the timeout with what there is; bytes that follow  *)
(* a shorter answer are torn apart by it.                                  *)
Answer == IF rx = <<>> THEN "nothing" ELSE Head(rx)
ReadTime == IF Answer \in Registers THEN {0, ReadTimeout} ELSE {ReadTimeout}
ReadAnswer ==
  /\ \E d \in ReadTime : Spend(d)
  /\ rx' = IF Answer \in Registers THEN Tail(rx)
           ELSE IF Len(rx) > 1 THEN <<"junk">> ELSE <<>>
(* An answer missed although the radio is still at it: it is too slow.     *)
InTime == Answer # "nothing" \/ (inbox = <<>> /\ mode = pins)

(* The UART driver does not start: the task waits a second...              *)
UartFails ==
  /\ program = "vehicle" /\ stage = "uart" /\ stage' = "retry"
  /\ Spend(RetryDelay)
  /\ UNCHANGED <<program, verdict, rx, pins, radioVars, healthy>>

BugRetryUnfed ==
  /\ stage = "retry" /\ stage' = "uart"
  /\ UNCHANGED <<program, elapsed, verdict, rx, pins, radioVars, healthy>>

(* ...and only then feeds the watchdog and tries again.                    *)
UartRetry ==
  /\ stage = "retry" /\ stage' = "uart" /\ elapsed' = 0
  /\ UNCHANGED <<program, verdict, rx, pins, radioVars, healthy>>

EnterConfig ==
  /\ stage = "uart" /\ stage' = "enter"
  /\ pins' = "config"
  /\ UNCHANGED <<program, elapsed, verdict, rx, radioVars, healthy>>

AskRegisters ==
  /\ Flush /\ Send("read") /\ stage' = "read"
  /\ UNCHANGED <<program, verdict, pins, mode, aux, flash, crypt>>

LeaveConfig(v) ==
  /\ verdict' = v /\ stage' = "exit" /\ pins' = "normal"
  /\ UNCHANGED <<program, radioVars>>

ConfigReady ==
  /\ stage = "enter" /\ aux
  /\ UpTo(ModeTimeout)
  /\ AskRegisters /\ UNCHANGED healthy

(* The vehicle gives up; the diagnostic program goes on regardless.        *)
ConfigTimeout ==
  /\ stage = "enter" /\ ~aux
  /\ Spend(ModeTimeout) /\ healthy' = FALSE
  /\ IF program = "vehicle" THEN LeaveConfig("unreachable") /\ UNCHANGED rx
     ELSE AskRegisters

-----------------------------------------------------------------------------
BugParseIgnoresHeader(answer) ==
  CASE answer \in {Contract, "junk"} -> "same"
    [] answer = "error" -> "error"
    [] answer \in Foreign -> "other"
    [] OTHER -> "incomplete"

(* e22_isErrorResponse, e22_parseRegResponse, e22_regsEqual.  None of them *)
(* looks at the key: blocks that differ in it alone are the same.          *)
Judge(answer) ==
  CASE answer = Contract -> "same"
    [] answer = "error" -> "error"
    [] answer \in Foreign -> "other"
    [] OTHER -> "incomplete"

BugWriteOnlyIfOther ==
  /\ program = "vehicle" /\ stage = "read"
  /\ healthy' = (healthy /\ InTime)
  /\ ReadAnswer
  /\ CASE Judge(Answer) = "same" -> LeaveConfig("matches")
       [] Judge(Answer) = "other" ->
            /\ Send("write") /\ stage' = "flash"
            /\ UNCHANGED <<program, verdict, pins, mode, aux, flash, crypt>>
       [] OTHER -> LeaveConfig("incomplete")

(* Registers that agree are left alone.  In every other case - another     *)
(* configuration, a rejection, no or half an answer - the contract is      *)
(* written; what is still in the receive buffer is thrown away first.      *)
ReadRegisters ==
  /\ program = "vehicle" /\ stage = "read"
  /\ healthy' = (healthy /\ InTime)
  /\ IF Judge(Answer) = "same"
     THEN ReadAnswer /\ LeaveConfig("matches")
     ELSE /\ \E d \in ReadTime : Spend(d + Settle)
          /\ Flush /\ Send("write") /\ stage' = "flash"
          /\ UNCHANGED <<program, verdict, pins, mode, aux, flash, crypt>>

FlashReady ==
  /\ stage = "flash" /\ aux
  /\ UpTo(CfgTimeout) /\ stage' = "confirm"
  /\ UNCHANGED <<program, verdict, rx, pins, radioVars, healthy>>

FlashTimeout ==
  /\ stage = "flash" /\ ~aux
  /\ Spend(CfgTimeout) /\ healthy' = FALSE
  /\ LeaveConfig("unverified") /\ UNCHANGED rx

(* The answer to a write has the form of an answer to a read.              *)
Confirm ==
  /\ stage = "confirm"
  /\ healthy' = (healthy /\ InTime)
  /\ ReadAnswer
  /\ LeaveConfig(CASE Judge(Answer) = "same" -> "verified"
                   [] Judge(Answer) = "error" -> "rejected"
                   [] OTHER -> "mismatch")

(* The diagnostic program only compares and reports.                       *)
Diagnose ==
  /\ program = "diagnostic" /\ stage = "read"
  /\ healthy' = (healthy /\ InTime)
  /\ ReadAnswer
  /\ LeaveConfig(CASE Judge(Answer) = "same" -> "matches"
                   [] Judge(Answer) = "error" -> "rejected"
                   [] Judge(Answer) = "other" -> "differs"
                   [] OTHER -> "incomplete")

-----------------------------------------------------------------------------
BugWaitsForAux ==
  /\ program = "vehicle" /\ stage = "exit" /\ aux
  /\ UpTo(ModeTimeout) /\ stage' = "loop"
  /\ UNCHANGED <<program, verdict, rx, pins, radioVars, healthy>>

(* AUX high, or the timeout: the loop begins in any case.                  *)
StartLoop ==
  /\ program = "vehicle" /\ stage = "exit"
  /\ IF aux THEN UpTo(ModeTimeout) ELSE Spend(ModeTimeout)
  /\ stage' = "loop"
  /\ UNCHANGED <<program, verdict, rx, pins, radioVars, healthy>>

(* A line of text is sent; a radio still in configuration mode takes it    *)
(* for a command.                                                          *)
Ping ==
  /\ program = "diagnostic" /\ stage = "exit"
  /\ Flush /\ Send("text") /\ stage' = "echo"
  /\ UNCHANGED <<program, elapsed, verdict, pins, mode, aux, flash, crypt,
                 healthy>>

Echo ==
  /\ stage = "echo" /\ stage' = "loop" /\ Flush
  /\ UNCHANGED <<program, elapsed, verdict, pins, radioVars, healthy>>

Task == \/ UartFails \/ UartRetry \/ EnterConfig \/ ConfigReady \/ ConfigTimeout
        \/ ReadRegisters \/ FlashReady \/ FlashTimeout \/ Confirm
        \/ StartLoop \/ Diagnose \/ Ping \/ Echo

-----------------------------------------------------------------------------
(* The radio.                                                              *)
SwitchMode ==
  /\ mode # pins /\ mode' = pins
  /\ UNCHANGED <<taskVars, rx, pins, aux, inbox, flash, crypt, healthy>>

AuxLow ==
  /\ aux /\ (mode # pins \/ inbox # <<>>) /\ aux' = FALSE
  /\ UNCHANGED <<taskVars, rx, pins, mode, inbox, flash, crypt, healthy>>

AuxHigh ==
  /\ ~aux /\ mode = pins /\ inbox = <<>> /\ aux' = TRUE
  /\ UNCHANGED <<taskVars, rx, pins, mode, inbox, flash, crypt, healthy>>

(* The command in process is done: a write has stored the contract and its *)
(* key, unless it is rejected.  The answer tells the readable registers,   *)
(* or arrives garbled, or not at all.                                      *)
Reply ==
  /\ inbox # <<>> /\ inbox' = Tail(inbox)
  /\ \E a \in Registers \cup NotRegisters \cup {"nothing"} :
       /\ flash' = IF Head(inbox) = "write" /\ a # "error"
                   THEN Contract ELSE flash
       /\ crypt' = IF Head(inbox) = "write" /\ a # "error"
                   THEN Contract ELSE crypt
       /\ a \in Registers => (a = flash' /\ Head(inbox) # "text")
       /\ rx' = IF a = "nothing" THEN rx ELSE Put(rx, a)
       /\ healthy' = (healthy /\ a \in Registers)
  /\ UNCHANGED <<taskVars, pins, mode, aux>>

Radio == SwitchMode \/ AuxLow \/ AuxHigh \/ Reply

-----------------------------------------------------------------------------
(* The ESP starts (again), possibly with the other firmware.  Its pins     *)
(* float until they are configured, and its receive buffer is empty.       *)
Boot ==
  /\ program' \in {"vehicle", "diagnostic"}
  /\ stage' = "uart" /\ elapsed' = 0 /\ verdict' = "none"
  /\ rx' = <<>> /\ pins' \in {"normal", "config"}

(* Only the ESP restarts: the radio goes on with what it was doing.        *)
EspReset ==
  /\ Boot
  /\ healthy' = (inbox = <<>>)
  /\ UNCHANGED radioVars

(* Both lose power: a write in process may leave anything in the flash.    *)
PowerCycle ==
  /\ Boot
  /\ flash' \in IF inbox # <<>> /\ Head(inbox) = "write"
                THEN Registers ELSE {flash}
  /\ crypt' \in IF inbox # <<>> /\ Head(inbox) = "write"
                THEN Keys ELSE {crypt}
  /\ mode' = pins' /\ aux' = FALSE /\ inbox' = <<>> /\ healthy' = TRUE

Init ==
  /\ program \in {"vehicle", "diagnostic"}
  /\ stage = "uart" /\ elapsed = 0 /\ verdict = "none" /\ rx = <<>>
  /\ pins \in {"normal", "config"} /\ mode = pins /\ aux = FALSE
  /\ inbox = <<>> /\ flash \in Registers /\ crypt \in Keys
  /\ healthy = TRUE

Next == Task \/ Radio \/ EspReset \/ PowerCycle

Spec == Init /\ [][Next]_vars

(* The task is scheduled; nothing is asked of the radio.                   *)
FairSpec == Spec /\ WF_vars(Task)

-----------------------------------------------------------------------------
(* Every variable stays in its type.                                       *)
TypeOK ==
  /\ program \in {"vehicle", "diagnostic"}
  /\ stage \in {"uart", "retry", "enter", "read", "flash", "confirm", "exit",
                "echo", "loop"}
  /\ elapsed \in 0 .. WdtTimeout + 1
  /\ verdict \in {"none", "unreachable", "matches", "unverified", "verified",
                  "rejected", "mismatch", "differs", "incomplete"}
  /\ rx \in Seq(Registers \cup NotRegisters) /\ Len(rx) <= MaxQueued
  /\ pins \in {"normal", "config"} /\ mode \in {"normal", "config"}
  /\ aux \in BOOLEAN /\ healthy \in BOOLEAN
  /\ inbox \in Seq({"read", "write", "text"}) /\ Len(inbox) <= MaxQueued
  /\ flash \in Registers /\ crypt \in Keys

(* The log can be believed, as far as registers can be read back: "already *)
(* agrees" and "verified" mean that every readable register in the flash   *)
(* is the contract's, whatever late, stale or broken answers came before,  *)
(* over restarts of either side; and with a radio that answers in time, a  *)
(* difference is reported only where there is one.                         *)
VerdictTrue ==
  /\ verdict \in {"matches", "verified"} => flash = Contract
  /\ healthy /\ verdict = "differs" => flash # Contract
  /\ ~(healthy /\ verdict \in {"rejected", "mismatch", "unverified"})

(* A boot whose radio answers in time ends with the readable registers of  *)
(* the contract in the flash, whatever was there before - another          *)
(* configuration, or a write that lost power - and even if the first       *)
(* command was lost because AUX was still high from before the mode        *)
(* change; and with its key too, unless the registers agreed and nothing   *)
(* was written: a radio that differs in its key alone keeps it.  No answer *)
(* is left for the loop to take for bytes from the ground station.         *)
HealthyBootConfigures ==
  program = "vehicle" /\ stage = "loop" /\ healthy =>
    /\ flash = Contract /\ (verdict # "matches" => crypt = Contract)
    /\ rx = <<>> /\ inbox = <<>>

(* The task watchdog, to which the task subscribes on its first line, does *)
(* not expire before the loop: neither while the UART driver fails, where  *)
(* it is fed after each second's wait, nor in the waits that follow the    *)
(* last of these.                                                          *)
WatchdogFed == program = "vehicle" => elapsed <= WdtTimeout

(* A radio that is dead, unplugged or holds AUX low never holds up the     *)
(* task: once the UART is up and the ESP does not restart, the loop is     *)
(* reached.                                                                *)
BootEnds == <>[](stage \notin {"uart", "retry"}) => <>(stage = "loop")
=============================================================================
