---------------------------- MODULE PartsProofs -----------------------------
(***************************************************************************)
(* Proofs about the parts around the tasks' loops, for every value of      *)
(* their constants: the boot of the radio, the arithmetic of ticks, the    *)
(* fields of a packet, the start of the firmware, the relay driver and the *)
(* cell computations.  Each part is proved about from its own              *)
(* specification, the buffer and the CAN task in modules of their own; the *)
(* last sections conclude for Parts.                                       *)
(***************************************************************************)
EXTENDS Parts, OfflineBufferProofs, SequenceTheorems, WellFoundedInduction, TLAPS

(* The longest the vehicle's configuration can take: two mode changes, the *)
(* query, the write and its confirmation.  main.cpp's times add up to      *)
(* 4050 ms of the watchdog's 5 s.                                          *)
BootTime == 2 * ModeTimeout + 2 * ReadTimeout + Settle + CfgTimeout

-----------------------------------------------------------------------------
(* Where the configuration is, and for which firmware.                     *)
StageInv ==
  /\ program = "diagnostic" => bootStage \notin {"flash", "confirm"}
  /\ program = "vehicle" => bootStage # "echo" /\ verdict # "differs"
  /\ bootStage = "retry" => program = "vehicle"
  /\ bootStage \in {"enter", "read", "flash", "confirm"} => pins = "config"
  /\ bootStage \in {"uart", "retry", "enter", "read", "flash", "confirm"} =>
       verdict = "none"

(* An answer that shows the contract is never out of date: once in the     *)
(* flash it stays there while the ESP runs.                                *)
BlocksTold == flash # E22!Contract => \A i \in 1 .. Len(rx) : rx[i] # E22!Contract

LogInv == verdict \in {"matches", "verified"} => flash = E22!Contract

(* A radio that answers in time has at most one command to answer, the one *)
(* of the task's stage, and has answered nothing else.                     *)
Asked(c) == rx = <<>> /\ inbox = <<c>> /\ mode = "config"
Answered == rx = <<flash>> /\ inbox = <<>> /\ mode = "config"

VehicleInv ==
  program = "vehicle" /\ healthy =>
    /\ bootStage \in {"uart", "retry", "enter"} => rx = <<>> /\ inbox = <<>>
    /\ bootStage = "read" => \/ rx = <<>> /\ inbox = <<>>
                         \/ Asked("read") \/ Answered
    /\ bootStage \in {"flash", "confirm"} =>
         Asked("write") \/ (Answered /\ flash = E22!Contract /\ crypt = E22!Contract)
    /\ bootStage \in {"exit", "loop"} =>
         /\ flash = E22!Contract /\ rx = <<>> /\ inbox = <<>>
         /\ verdict # "matches" => crypt = E22!Contract
    /\ verdict \notin {"rejected", "mismatch", "unverified"}

(* The diagnostic program never writes, so what a healthy radio answers it *)
(* is what is in the flash.                                                *)
DiagnosticInv ==
  program = "diagnostic" /\ healthy =>
    /\ \A i \in 1 .. Len(inbox) : inbox[i] # "write"
    /\ \A i \in 1 .. Len(rx) : rx[i] = flash
    /\ verdict = "differs" => flash # E22!Contract
    /\ verdict \notin {"rejected", "mismatch", "unverified"}

(* The time since the watchdog was fed, stage by stage.                    *)
FeedInv ==
  program = "vehicle" =>
    /\ bootStage \in {"uart", "enter"} => elapsed = 0
    /\ bootStage = "retry" => elapsed <= RetryDelay
    /\ bootStage = "read" => elapsed <= ModeTimeout
    /\ bootStage = "flash" => elapsed <= ModeTimeout + ReadTimeout + Settle
    /\ bootStage = "confirm" =>
         elapsed <= ModeTimeout + ReadTimeout + Settle + CfgTimeout
    /\ bootStage = "exit" =>
         elapsed <= ModeTimeout + 2 * ReadTimeout + Settle + CfgTimeout
    /\ bootStage # "retry" => elapsed <= BootTime

-----------------------------------------------------------------------------
(* A bounded queue gets one element longer or drops it; nothing else in it *)
(* changes.                                                                *)
LEMMA PutType ==
  ASSUME E22!BootAssumption, NEW S, NEW q \in Seq(S), Len(q) <= MaxQueued, NEW v \in S
  PROVE  /\ E22!Put(q, v) \in Seq(S) /\ Len(E22!Put(q, v)) <= MaxQueued
         /\ q = <<>> => E22!Put(q, v) = <<v>>
         /\ \A i \in 1 .. Len(E22!Put(q, v)) :
              E22!Put(q, v)[i] = v \/ (i \in 1 .. Len(q) /\ E22!Put(q, v)[i] = q[i])
<1>1. Len(q) \in Nat /\ MaxQueued \in Nat \ {0}
  BY DEF E22!BootAssumption
<1>2. CASE Len(q) < MaxQueued
  <2>1. E22!Put(q, v) = Append(q, v)
    BY <1>2 DEF E22!Put
  <2>2. /\ Append(q, v) \in Seq(S) /\ Len(Append(q, v)) = Len(q) + 1
        /\ \A i \in 1 .. Len(q) : Append(q, v)[i] = q[i]
        /\ Append(q, v)[Len(q) + 1] = v
    BY ONLY q \in Seq(S), v \in S, AppendProperties
  <2>3. q = <<>> => Append(q, v) = <<v>>
    OBVIOUS
  <2>4. \A i \in 1 .. Len(q) + 1 : i \in 1 .. Len(q) \/ i = Len(q) + 1
    BY <1>1
  <2>5. QED
    BY <1>1, <1>2, <2>1, <2>2, <2>3, <2>4
<1>3. CASE ~(Len(q) < MaxQueued)
  <2>1. E22!Put(q, v) = q
    BY <1>3 DEF E22!Put
  <2>2. q # <<>>
    BY <1>1, <1>3
  <2>3. QED
    BY <1>1, <2>1, <2>2
<1>4. QED
  BY <1>2, <1>3

(* Time is only cut off beyond the watchdog's.                             *)
LEMMA TimeType ==
  ASSUME E22!BootAssumption, NEW t \in Nat
  PROVE  E22!Limit(t) \in 0 .. WdtTimeout + 1 /\ E22!Limit(t) <= t
  BY DEF E22!BootAssumption, E22!Limit

(* What is left in the receive buffer after a read.                        *)
LEMMA ReadType ==
  ASSUME E22!BootAssumption, E22!TypeOK, E22!ReadAnswer
  PROVE  /\ rx' \in Seq(E22!Registers \cup E22!NotRegisters) /\ Len(rx') <= MaxQueued
         /\ Len(rx) <= 1 => rx' = <<>>
         /\ \A i \in 1 .. Len(rx') :
              \/ rx'[i] = "junk" /\ E22!Answer \notin E22!Registers
              \/ i + 1 \in 1 .. Len(rx) /\ rx'[i] = rx[i + 1]
         /\ elapsed' \in 0 .. WdtTimeout + 1 /\ elapsed' <= elapsed + ReadTimeout
<1>1. /\ rx \in Seq(E22!Registers \cup E22!NotRegisters) /\ Len(rx) <= MaxQueued
      /\ MaxQueued \in Nat \ {0} /\ Len(rx) \in Nat
      /\ "nothing" \notin E22!Registers /\ "junk" \in E22!NotRegisters
      /\ elapsed \in Nat /\ ReadTimeout \in Nat
  BY DEF E22!TypeOK, E22!BootAssumption, E22!Registers, E22!NotRegisters, E22!Contract
<1>2. PICK d \in {0, ReadTimeout} : elapsed' = E22!Limit(elapsed + d)
  BY DEF E22!ReadAnswer, E22!ReadTime, E22!Spend
<1>3. elapsed' \in 0 .. WdtTimeout + 1 /\ elapsed' <= elapsed + ReadTimeout
  <2>1. elapsed + d \in Nat /\ elapsed + d <= elapsed + ReadTimeout
    BY <1>1, <1>2
  <2>2. E22!Limit(elapsed + d) \in 0 .. WdtTimeout + 1 /\ E22!Limit(elapsed + d) <= elapsed + d
    BY <2>1, TimeType
  <2>3. WdtTimeout \in Nat
    BY DEF E22!BootAssumption
  <2>4. QED
    BY <1>1, <1>2, <2>1, <2>2, <2>3
<1>4. CASE E22!Answer \in E22!Registers
  <2>1. rx # <<>>
    BY <1>1, <1>4 DEF E22!Answer
  <2>3. rx' = Tail(rx)
    BY <1>4 DEF E22!ReadAnswer
  <2>2. QED
    BY <1>1, <1>3, <2>1, <2>3
<1>5. CASE E22!Answer \notin E22!Registers /\ Len(rx) > 1
  <2>1. rx' = <<"junk">>
    BY <1>5 DEF E22!ReadAnswer
  <2>2. QED
    BY <1>1, <1>3, <1>5, <2>1
<1>6. CASE E22!Answer \notin E22!Registers /\ ~(Len(rx) > 1)
  <2>1. rx' = <<>>
    BY <1>6 DEF E22!ReadAnswer
  <2>2. QED
    BY <1>1, <1>3, <1>6, <2>1
<1>7. QED
  BY <1>4, <1>5, <1>6

(* A wait.                                                                 *)
LEMMA WaitType ==
  ASSUME E22!BootAssumption, E22!TypeOK, NEW t \in Nat, E22!UpTo(t) \/ E22!Spend(t)
  PROVE  elapsed' \in 0 .. WdtTimeout + 1 /\ elapsed' <= elapsed + t
<1>1. elapsed \in Nat /\ WdtTimeout \in Nat
  BY DEF E22!TypeOK, E22!BootAssumption
<1>2. PICK d \in {0, t} : elapsed' = E22!Limit(elapsed + d)
  BY DEF E22!UpTo, E22!Spend
<1>3. elapsed + d \in Nat /\ elapsed + d <= elapsed + t
  BY <1>1, <1>2
<1>4. E22!Limit(elapsed + d) \in 0 .. WdtTimeout + 1 /\ E22!Limit(elapsed + d) <= elapsed + d
  BY <1>3, TimeType
<1>5. QED
  BY <1>1, <1>2, <1>3, <1>4

(* What reaches the radio.                                                 *)
LEMMA SendType ==
  ASSUME E22!BootAssumption, E22!TypeOK, NEW c \in {"read", "write", "text"}, E22!Send(c)
  PROVE  /\ inbox' \in Seq({"read", "write", "text"}) /\ Len(inbox') <= MaxQueued
         /\ inbox = <<>> => inbox' = <<>> \/ (mode = "config" /\ inbox' = <<c>>)
         /\ \A i \in 1 .. Len(inbox') :
              inbox'[i] = c \/ (i \in 1 .. Len(inbox) /\ inbox'[i] = inbox[i])
<1>1. inbox \in Seq({"read", "write", "text"}) /\ Len(inbox) <= MaxQueued
  BY DEF E22!TypeOK
<1>2. CASE mode = "config"
  <2>1. inbox' = E22!Put(inbox, c)
    BY <1>2 DEF E22!Send
  <2>2. /\ E22!Put(inbox, c) \in Seq({"read", "write", "text"})
        /\ Len(E22!Put(inbox, c)) <= MaxQueued
        /\ inbox = <<>> => E22!Put(inbox, c) = <<c>>
        /\ \A i \in 1 .. Len(E22!Put(inbox, c)) :
             E22!Put(inbox, c)[i] = c \/ (i \in 1 .. Len(inbox) /\ E22!Put(inbox, c)[i] = inbox[i])
    <3> DEFINE T == {"read", "write", "text"}
    <3>1. c \in T /\ inbox \in Seq(T) /\ Len(inbox) <= MaxQueued
      BY <1>1
    <3> HIDE DEF T
    <3>2. /\ E22!Put(inbox, c) \in Seq(T) /\ Len(E22!Put(inbox, c)) <= MaxQueued
          /\ inbox = <<>> => E22!Put(inbox, c) = <<c>>
          /\ \A i \in 1 .. Len(E22!Put(inbox, c)) :
               E22!Put(inbox, c)[i] = c \/ (i \in 1 .. Len(inbox) /\ E22!Put(inbox, c)[i] = inbox[i])
      BY ONLY <3>1, PutType, E22!BootAssumption
    <3>3. QED
      BY <3>2 DEF T
  <2>3. QED
    BY <1>2, <2>1, <2>2
<1>3. CASE mode # "config"
  BY <1>1, <1>3 DEF E22!Send
<1>4. QED
  BY <1>2, <1>3

(* What an answer does to the flash and to the receive buffer.             *)
LEMMA ReplyType ==
  ASSUME E22!BootAssumption, E22!TypeOK, E22!Reply
  PROVE  /\ flash' \in E22!Registers /\ flash' \in {flash, E22!Contract}
         /\ (flash' = flash \/ Head(inbox) = "write")
         /\ crypt' \in {crypt, E22!Contract}
         /\ rx' \in Seq(E22!Registers \cup E22!NotRegisters) /\ Len(rx') <= MaxQueued
         /\ \A i \in 1 .. Len(rx') :
              \/ rx'[i] \in E22!NotRegisters /\ ~healthy'
              \/ rx'[i] = flash'
              \/ i \in 1 .. Len(rx) /\ rx'[i] = rx[i]
         /\ inbox' \in Seq({"read", "write", "text"}) /\ Len(inbox') <= MaxQueued
         /\ Len(inbox) = 1 => inbox' = <<>>
         /\ \A i \in 1 .. Len(inbox') : i + 1 \in 1 .. Len(inbox) /\ inbox'[i] = inbox[i + 1]
         /\ healthy' \in BOOLEAN /\ (healthy' => healthy)
         /\ healthy' => /\ rx = <<>> => rx' = <<flash'>>
                        /\ Head(inbox) = "write" =>
                             flash' = E22!Contract /\ crypt' = E22!Contract
<1>1. PICK a \in E22!Registers \cup E22!NotRegisters \cup {"nothing"} :
       /\ flash' = IF Head(inbox) = "write" /\ a # "error" THEN E22!Contract ELSE flash
       /\ crypt' = IF Head(inbox) = "write" /\ a # "error" THEN E22!Contract ELSE crypt
       /\ a \in E22!Registers => (a = flash' /\ Head(inbox) # "text")
       /\ rx' = IF a = "nothing" THEN rx ELSE E22!Put(rx, a)
       /\ healthy' = (healthy /\ a \in E22!Registers)
  BY DEF E22!Reply
<1>2. /\ rx \in Seq(E22!Registers \cup E22!NotRegisters) /\ Len(rx) <= MaxQueued
      /\ inbox \in Seq({"read", "write", "text"}) /\ Len(inbox) <= MaxQueued
      /\ inbox # <<>> /\ inbox' = Tail(inbox) /\ MaxQueued \in Nat
      /\ flash \in E22!Registers /\ E22!Contract \in E22!Registers /\ healthy \in BOOLEAN
      /\ "error" \notin E22!Registers /\ "nothing" \notin E22!Registers \cup E22!NotRegisters
  BY DEF E22!TypeOK, E22!Reply, E22!BootAssumption, E22!Registers, E22!NotRegisters,
         E22!Contract
<1>3. /\ flash' \in E22!Registers /\ flash' \in {flash, E22!Contract}
      /\ (flash' = flash \/ Head(inbox) = "write")
      /\ crypt' \in {crypt, E22!Contract}
  BY <1>1, <1>2
<1>4. /\ inbox' \in Seq({"read", "write", "text"}) /\ Len(inbox') <= MaxQueued
      /\ Len(inbox) = 1 => inbox' = <<>>
      /\ \A i \in 1 .. Len(inbox') : i + 1 \in 1 .. Len(inbox) /\ inbox'[i] = inbox[i + 1]
  BY <1>2
<1>5. /\ healthy' \in BOOLEAN /\ (healthy' => healthy) /\ (healthy' => a \in E22!Registers)
  BY ONLY <1>1, <1>2, Zenon
<1>6. CASE a = "nothing"
  BY <1>1, <1>2, <1>3, <1>4, <1>5, <1>6
<1>7. CASE a # "nothing"
  <2>1. a \in E22!Registers \cup E22!NotRegisters /\ rx' = E22!Put(rx, a)
    BY <1>1, <1>7
  <2>2. /\ rx' \in Seq(E22!Registers \cup E22!NotRegisters) /\ Len(rx') <= MaxQueued
        /\ rx = <<>> => rx' = <<a>>
        /\ \A i \in 1 .. Len(rx') : rx'[i] = a \/ (i \in 1 .. Len(rx) /\ rx'[i] = rx[i])
    <3> DEFINE T == E22!Registers \cup E22!NotRegisters
    <3>1. a \in T /\ rx \in Seq(T) /\ Len(rx) <= MaxQueued
      BY <1>2, <2>1
    <3> HIDE DEF T
    <3>2. /\ E22!Put(rx, a) \in Seq(T) /\ Len(E22!Put(rx, a)) <= MaxQueued
          /\ rx = <<>> => E22!Put(rx, a) = <<a>>
          /\ \A i \in 1 .. Len(E22!Put(rx, a)) :
               E22!Put(rx, a)[i] = a \/ (i \in 1 .. Len(rx) /\ E22!Put(rx, a)[i] = rx[i])
      BY ONLY <3>1, PutType, E22!BootAssumption
    <3>3. QED
      BY <2>1, <3>2 DEF T
  <2>3. healthy' => a = flash'
    BY <1>1, <1>5
  <2>4. a \in E22!NotRegisters => ~healthy'
    BY <1>2, <1>5 DEF E22!NotRegisters, E22!Registers, E22!Contract,
                      E22!BootAssumption
  <2>5. \A i \in 1 .. Len(rx') :
              \/ rx'[i] \in E22!NotRegisters /\ ~healthy'
              \/ rx'[i] = flash'
              \/ i \in 1 .. Len(rx) /\ rx'[i] = rx[i]
    BY <1>1, <2>1, <2>2, <2>4
  <2>6. healthy' => /\ rx = <<>> => rx' = <<flash'>>
                    /\ Head(inbox) = "write" =>
                         flash' = E22!Contract /\ crypt' = E22!Contract
    BY <1>1, <1>2, <1>5, <2>2, <2>3
  <2>7. QED
    BY <1>3, <1>4, <1>5, <2>2, <2>5, <2>6
<1>8. QED
  BY <1>6, <1>7

(* Every step of the task and of the radio keeps the types.  The leaves    *)
(* tell the steps apart by what they leave alone.                          *)
LEMMA RadioTypeStep ==
  E22!BootAssumption /\ E22!TypeOK /\ [E22!Next]_(E22!vars) => E22!TypeOK'
<1> SUFFICES ASSUME E22!BootAssumption, E22!TypeOK, [E22!Next]_(E22!vars) PROVE E22!TypeOK'
  OBVIOUS
<1>1. /\ ModeTimeout \in Nat /\ CfgTimeout \in Nat /\ ReadTimeout \in Nat
      /\ Settle \in Nat /\ RetryDelay \in Nat /\ WdtTimeout \in Nat
      /\ MaxQueued \in Nat \ {0}
  BY DEF E22!BootAssumption
<1>2. CASE E22!UartFails \/ E22!UartRetry \/ E22!EnterConfig \/ E22!Echo
  <2>1. CASE E22!UartRetry
    BY <1>1, <2>1 DEF E22!TypeOK, E22!UartRetry, E22!radioVars
  <2>5. CASE E22!UartFails
    <3>1. elapsed' \in 0 .. WdtTimeout + 1
      BY <1>1, <2>5, WaitType DEF E22!UartFails
    <3>2. QED
      BY <2>5, <3>1 DEF E22!TypeOK, E22!UartFails, E22!radioVars
  <2>2. CASE E22!EnterConfig
    BY <2>2 DEF E22!TypeOK, E22!EnterConfig, E22!radioVars
  <2>3. CASE E22!Echo
    BY <1>1, <2>3 DEF E22!TypeOK, E22!Echo, E22!Flush, E22!radioVars
  <2>4. QED
    BY <1>2, <2>1, <2>2, <2>3, <2>5
<1>11. CASE E22!SwitchMode \/ E22!AuxLow \/ E22!AuxHigh \/ UNCHANGED E22!vars
  BY <1>11 DEF E22!TypeOK, E22!SwitchMode, E22!AuxLow, E22!AuxHigh, E22!vars,
               E22!taskVars, E22!radioVars
<1>3. CASE E22!ConfigReady \/ E22!ConfigTimeout
  <2>1. elapsed' \in 0 .. WdtTimeout + 1
    BY <1>1, <1>3, WaitType DEF E22!ConfigReady, E22!ConfigTimeout
  <2>2. CASE E22!ConfigTimeout /\ program = "vehicle"
    BY <2>1, <2>2 DEF E22!TypeOK, E22!ConfigTimeout, E22!LeaveConfig, E22!radioVars
  <2>3. CASE E22!ConfigReady \/ (E22!ConfigTimeout /\ program # "vehicle")
    <3>1. E22!AskRegisters /\ healthy' \in BOOLEAN
      BY <2>3 DEF E22!ConfigReady, E22!ConfigTimeout, E22!TypeOK
    <3>2. E22!Send("read")
      BY <3>1 DEF E22!AskRegisters
    <3>3. inbox' \in Seq({"read", "write", "text"}) /\ Len(inbox') <= MaxQueued
      BY <3>2, SendType
    <3>4. QED
      BY <1>1, <2>1, <3>1, <3>3 DEF E22!TypeOK, E22!AskRegisters, E22!Flush
  <2>4. QED
    BY <1>3, <2>2, <2>3
<1>4. CASE E22!ReadRegisters
  <2>1. healthy' \in BOOLEAN
    BY ONLY <1>4, E22!TypeOK, Zenon DEF E22!ReadRegisters, E22!TypeOK
  <2>2. CASE E22!Judge(E22!Answer) = "same"
    <3>1. E22!ReadAnswer /\ E22!LeaveConfig("matches")
      BY <1>4, <2>2 DEF E22!ReadRegisters
    <3>2. QED
      BY <2>1, <3>1, ReadType DEF E22!TypeOK, E22!LeaveConfig, E22!radioVars
  <2>3. CASE E22!Judge(E22!Answer) # "same"
    <3>1. /\ \E d \in E22!ReadTime : E22!Spend(d + Settle)
          /\ E22!Flush /\ E22!Send("write") /\ bootStage' = "flash"
          /\ UNCHANGED <<program, verdict, pins, mode, aux, flash, crypt>>
      BY <1>4, <2>3 DEF E22!ReadRegisters
    <3>2. PICK d \in E22!ReadTime : E22!Spend(d + Settle)
      BY <3>1
    <3>3. d + Settle \in Nat
      BY <1>1 DEF E22!ReadTime
    <3>4. elapsed' \in 0 .. WdtTimeout + 1
      BY <3>2, <3>3, WaitType
    <3>5. inbox' \in Seq({"read", "write", "text"}) /\ Len(inbox') <= MaxQueued
      BY <3>1, SendType
    <3>6. QED
      BY <1>1, <2>1, <3>1, <3>4, <3>5 DEF E22!TypeOK, E22!Flush
  <2>4. QED
    BY <2>2, <2>3
<1>5. CASE E22!FlashReady \/ E22!FlashTimeout \/ E22!StartLoop
  <2>1. elapsed' \in 0 .. WdtTimeout + 1
    BY <1>1, <1>5, WaitType DEF E22!FlashReady, E22!FlashTimeout, E22!StartLoop
  <2>2. QED
    BY <1>5, <2>1
       DEF E22!TypeOK, E22!FlashReady, E22!FlashTimeout, E22!StartLoop,
           E22!LeaveConfig, E22!radioVars
<1>6. CASE E22!Confirm \/ E22!Diagnose
  <2>1. healthy' \in BOOLEAN
    BY ONLY <1>6, E22!TypeOK, Zenon DEF E22!Confirm, E22!Diagnose, E22!TypeOK
  <2>2. E22!ReadAnswer
    BY <1>6 DEF E22!Confirm, E22!Diagnose
  <2>3. CASE E22!Confirm
    BY <2>1, <2>2, <2>3, ReadType DEF E22!TypeOK, E22!Confirm, E22!LeaveConfig,
                                      E22!radioVars
  <2>4. CASE E22!Diagnose
    BY <2>1, <2>2, <2>4, ReadType DEF E22!TypeOK, E22!Diagnose, E22!LeaveConfig,
                                      E22!radioVars
  <2>5. QED
    BY <1>6, <2>3, <2>4
<1>7. CASE E22!Ping
  <2>1. inbox' \in Seq({"read", "write", "text"}) /\ Len(inbox') <= MaxQueued
    BY <1>7, SendType DEF E22!Ping
  <2>2. QED
    BY <1>1, <1>7, <2>1 DEF E22!TypeOK, E22!Ping, E22!Flush
<1>8. CASE E22!Reply
  BY <1>8, ReplyType DEF E22!TypeOK, E22!Reply, E22!taskVars, E22!Keys
<1>9. CASE E22!EspReset \/ E22!PowerCycle
  <2>1. healthy' \in BOOLEAN
    BY <1>9 DEF E22!EspReset, E22!PowerCycle
  <2>2. flash' \in E22!Registers /\ crypt' \in E22!Keys
    BY <1>9 DEF E22!EspReset, E22!PowerCycle, E22!TypeOK, E22!radioVars
  <2>3. mode' \in {"normal", "config"} /\ aux' \in BOOLEAN
    BY <1>9 DEF E22!EspReset, E22!PowerCycle, E22!Boot, E22!TypeOK, E22!radioVars
  <2>4. inbox' \in Seq({"read", "write", "text"}) /\ Len(inbox') <= MaxQueued
    <3>1. inbox' = inbox \/ inbox' = <<>>
      BY <1>9 DEF E22!EspReset, E22!PowerCycle, E22!radioVars
    <3>2. CASE inbox' = inbox
      BY <3>2 DEF E22!TypeOK
    <3>3. CASE inbox' = <<>>
      BY <1>1, <3>3
    <3>4. QED
      BY <3>1, <3>2, <3>3
  <2>5. E22!Boot
    BY <1>9 DEF E22!EspReset, E22!PowerCycle
  <2>6. QED
    BY <1>1, <2>1, <2>2, <2>3, <2>4, <2>5 DEF E22!TypeOK, E22!Boot
<1>10. QED
  BY <1>2, <1>3, <1>4, <1>5, <1>6, <1>7, <1>8, <1>9, <1>11
     DEF E22!Next, E22!Task, E22!Radio

(* Every variable of the boot keeps its type.                              *)
THEOREM RadioTypes ==
  ASSUME E22!BootAssumption PROVE E22!Spec => []E22!TypeOK
<1>1. E22!Init => E22!TypeOK
  <2> SUFFICES ASSUME E22!Init PROVE E22!TypeOK
    OBVIOUS
  <2>1. rx = <<>> /\ inbox = <<>> /\ MaxQueued \in Nat /\ WdtTimeout \in Nat
    BY DEF E22!Init, E22!BootAssumption
  <2>2. rx \in Seq(E22!Registers \cup E22!NotRegisters) /\ Len(rx) <= MaxQueued
    BY <2>1
  <2>3. inbox \in Seq({"read", "write", "text"}) /\ Len(inbox) <= MaxQueued
    BY <2>1
  <2>4. elapsed \in 0 .. WdtTimeout + 1
    BY <2>1 DEF E22!Init
  <2>5. /\ program \in {"vehicle", "diagnostic"}
        /\ flash \in E22!Registers /\ crypt \in E22!Keys
    BY DEF E22!Init
  <2>6. pins \in {"normal", "config"} /\ mode \in {"normal", "config"}
    BY DEF E22!Init
  <2>7. bootStage = "uart" /\ verdict = "none" /\ aux = FALSE /\ healthy = TRUE
    BY DEF E22!Init
  <2>8. QED
    BY ONLY <2>2, <2>3, <2>4, <2>5, <2>6, <2>7 DEF E22!TypeOK
<1>2. QED
  BY <1>1, RadioTypeStep, PTL DEF E22!Spec

-----------------------------------------------------------------------------
(* What is read of the buffer: an answer that counts stood at its front.   *)
LEMMA Judged ==
  ASSUME E22!BootAssumption, E22!TypeOK
  PROVE  /\ E22!Judge(E22!Answer) = "same" => rx # <<>> /\ rx[1] = E22!Contract
         /\ E22!Judge(E22!Answer) = "error" => rx # <<>> /\ rx[1] = "error"
         /\ E22!Judge(E22!Answer) = "other" => rx # <<>> /\ rx[1] \in Foreign
         /\ E22!Answer # "nothing" => rx # <<>>
         /\ E22!Judge(E22!Answer) \in {"same", "error", "other", "incomplete"}
         /\ rx # <<>> /\ rx[1] = E22!Contract => E22!Judge(E22!Answer) = "same"
         /\ rx # <<>> => E22!Answer = rx[1]
<1>1. /\ E22!Contract \notin Foreign /\ "error" \notin Foreign /\ "nothing" \notin Foreign
      /\ E22!Contract # "nothing" /\ E22!Contract # "error"
      /\ rx \in Seq(E22!Registers \cup E22!NotRegisters)
  BY DEF E22!BootAssumption, E22!Contract, E22!TypeOK
<1>2. E22!Answer = IF rx = <<>> THEN "nothing" ELSE rx[1]
  BY <1>1 DEF E22!Answer
<1>3. /\ E22!Judge(E22!Answer) = "same" <=> E22!Answer = E22!Contract
      /\ E22!Judge(E22!Answer) = "error" <=> E22!Answer = "error"
      /\ E22!Judge(E22!Answer) = "other" <=> E22!Answer \in Foreign
      /\ E22!Judge(E22!Answer) \in {"same", "error", "other", "incomplete"}
  BY <1>1 DEF E22!Judge
<1>4. QED
  BY <1>1, <1>2, <1>3

(* Where the configuration is follows from the firmware, the pins and the  *)
(* verdict: the task goes through its stages in order.                     *)
LEMMA StageStep ==
  E22!BootAssumption /\ E22!TypeOK /\ StageInv /\ [E22!Next]_(E22!vars) => StageInv'
<1> SUFFICES ASSUME E22!BootAssumption, E22!TypeOK, StageInv, [E22!Next]_(E22!vars)
             PROVE  StageInv'
  OBVIOUS
<1> USE DEF StageInv
<1>1. CASE E22!UartFails \/ E22!UartRetry \/ E22!EnterConfig \/ E22!Echo \/ E22!Ping
  BY <1>1 DEF E22!UartFails, E22!UartRetry, E22!EnterConfig, E22!Echo, E22!Ping, E22!TypeOK,
              E22!radioVars
<1>2. CASE E22!ConfigReady \/ E22!ConfigTimeout
  BY <1>2 DEF E22!ConfigReady, E22!ConfigTimeout, E22!AskRegisters, E22!LeaveConfig,
              E22!TypeOK
<1>3. CASE E22!ReadRegisters
  BY <1>3 DEF E22!ReadRegisters, E22!LeaveConfig
<1>4. CASE E22!FlashReady \/ E22!FlashTimeout \/ E22!StartLoop
  BY <1>4 DEF E22!FlashReady, E22!FlashTimeout, E22!StartLoop, E22!LeaveConfig
<1>5. CASE E22!Confirm
  BY <1>5 DEF E22!Confirm, E22!LeaveConfig, E22!TypeOK
<1>6. CASE E22!Diagnose
  BY <1>6 DEF E22!Diagnose, E22!LeaveConfig
<1>7. CASE E22!Radio \/ UNCHANGED E22!vars
  BY <1>7 DEF E22!Radio, E22!SwitchMode, E22!AuxLow, E22!AuxHigh, E22!Reply, E22!vars,
              E22!taskVars
<1>8. CASE E22!EspReset \/ E22!PowerCycle
  BY <1>8 DEF E22!EspReset, E22!PowerCycle, E22!Boot
<1>9. QED
  BY <1>1, <1>2, <1>3, <1>4, <1>5, <1>6, <1>7, <1>8 DEF E22!Next, E22!Task

(* Only an answer that tells what is in the flash shows the contract.      *)
LEMMA LogStep ==
  E22!BootAssumption /\ E22!TypeOK /\ BlocksTold /\ LogInv /\ [E22!Next]_(E22!vars)
    => BlocksTold' /\ LogInv'
<1> SUFFICES ASSUME E22!BootAssumption, E22!TypeOK, BlocksTold, LogInv, [E22!Next]_(E22!vars)
             PROVE  BlocksTold' /\ LogInv'
  OBVIOUS
<1>1. CASE UNCHANGED <<rx, flash>> /\ (UNCHANGED verdict \/ verdict' \notin {"matches", "verified"})
  BY <1>1 DEF BlocksTold, LogInv
<1>2. CASE E22!Flush /\ UNCHANGED <<verdict, flash>>
  BY <1>2 DEF BlocksTold, LogInv, E22!Flush
<1>3. CASE E22!ReadAnswer /\ UNCHANGED flash
           /\ (verdict' \in {"matches", "verified"} => E22!Judge(E22!Answer) = "same")
  <2>1. BlocksTold'
    <3> SUFFICES ASSUME flash # E22!Contract, NEW i \in 1 .. Len(rx')
                 PROVE  rx'[i] # E22!Contract
      BY <1>3 DEF BlocksTold
    <3>1. rx'[i] = "junk" \/ (i + 1 \in 1 .. Len(rx) /\ rx'[i] = rx[i + 1])
      BY <1>3, ReadType
    <3>2. QED
      BY <3>1 DEF BlocksTold, E22!Contract
  <2>2. LogInv'
    <3>1. E22!Judge(E22!Answer) = "same" => rx # <<>> /\ rx[1] = E22!Contract
      BY Judged
    <3>2. rx # <<>> => 1 \in 1 .. Len(rx)
      BY DEF E22!TypeOK
    <3>3. QED
      BY <1>3, <3>1, <3>2 DEF LogInv, BlocksTold
  <2>3. QED
    BY <2>1, <2>2
<1>4. CASE E22!Reply
  <2>1. /\ flash' \in {flash, E22!Contract}
        /\ \A i \in 1 .. Len(rx') :
              \/ rx'[i] \in E22!NotRegisters
              \/ rx'[i] = flash'
              \/ i \in 1 .. Len(rx) /\ rx'[i] = rx[i]
    BY <1>4, ReplyType
  <2>2. verdict' = verdict /\ E22!Contract \notin E22!NotRegisters
    BY <1>4 DEF E22!Reply, E22!taskVars, E22!Contract, E22!NotRegisters
  <2>3. QED
    BY <2>1, <2>2 DEF BlocksTold, LogInv
<1>5. CASE E22!Boot
  BY <1>5 DEF E22!Boot, BlocksTold, LogInv
<1>6. QED
  <2>1. CASE \/ E22!UartFails \/ E22!UartRetry \/ E22!EnterConfig \/ E22!FlashReady
             \/ E22!FlashTimeout \/ E22!StartLoop \/ E22!SwitchMode \/ E22!AuxLow \/ E22!AuxHigh \/ UNCHANGED E22!vars
    BY <1>1, <2>1
       DEF E22!UartFails, E22!UartRetry, E22!EnterConfig, E22!FlashReady,
           E22!FlashTimeout, E22!StartLoop, E22!SwitchMode, E22!AuxLow, E22!AuxHigh, E22!LeaveConfig,
           E22!vars, E22!taskVars, E22!radioVars
  <2>2. CASE E22!ConfigReady \/ E22!ConfigTimeout \/ E22!Echo \/ E22!Ping
    BY <1>1, <1>2, <2>2
       DEF E22!ConfigReady, E22!ConfigTimeout, E22!Echo, E22!Ping, E22!AskRegisters,
           E22!LeaveConfig, E22!radioVars
  <2>3. CASE E22!ReadRegisters
    BY <1>2, <1>3, <2>3 DEF E22!ReadRegisters, E22!LeaveConfig, E22!radioVars
  <2>4. CASE E22!Confirm
    BY <1>3, <2>4 DEF E22!Confirm, E22!LeaveConfig, E22!radioVars
  <2>5. CASE E22!Diagnose
    BY <1>3, <2>5 DEF E22!Diagnose, E22!LeaveConfig, E22!radioVars
  <2>6. CASE E22!Reply \/ E22!EspReset \/ E22!PowerCycle
    BY <1>4, <1>5, <2>6 DEF E22!EspReset, E22!PowerCycle
  <2>7. QED
    BY <2>1, <2>2, <2>3, <2>4, <2>5, <2>6 DEF E22!Next, E22!Task, E22!Radio

-----------------------------------------------------------------------------
(* Each stage adds its own wait to the time since the watchdog was fed.    *)
LEMMA FeedStep ==
  E22!BootAssumption /\ E22!TypeOK /\ StageInv /\ FeedInv /\ [E22!Next]_(E22!vars) => FeedInv'
<1> SUFFICES ASSUME E22!BootAssumption, E22!TypeOK, StageInv, FeedInv, [E22!Next]_(E22!vars)
             PROVE  FeedInv'
  OBVIOUS
<1>1. /\ ModeTimeout \in Nat /\ CfgTimeout \in Nat /\ ReadTimeout \in Nat
      /\ Settle \in Nat /\ RetryDelay \in Nat /\ WdtTimeout \in Nat /\ elapsed \in Nat
  BY DEF E22!BootAssumption, E22!TypeOK
<1> USE <1>1 DEF FeedInv, BootTime
<1>2. CASE E22!UartRetry \/ E22!EnterConfig \/ E22!Echo \/ E22!Ping \/ E22!Radio \/ UNCHANGED E22!vars
  BY <1>2 DEF E22!UartRetry, E22!EnterConfig, E22!Echo, E22!Ping, E22!Radio,
              E22!SwitchMode, E22!AuxLow, E22!AuxHigh, E22!Reply, E22!vars,
              E22!taskVars
<1>3. CASE E22!ConfigReady \/ E22!ConfigTimeout
  <2>1. elapsed' \in Nat /\ elapsed' <= elapsed + ModeTimeout
    BY <1>3, WaitType DEF E22!ConfigReady, E22!ConfigTimeout
  <2>2. /\ bootStage = "enter" /\ program' = program
        /\ bootStage' = "read" \/ bootStage' = "exit"
    BY <1>3 DEF E22!ConfigReady, E22!ConfigTimeout, E22!AskRegisters, E22!LeaveConfig
  <2>3. QED
    BY <2>1, <2>2
<1>4. CASE E22!ReadRegisters
  <2>1. CASE E22!Judge(E22!Answer) = "same"
    <3>1. E22!ReadAnswer /\ bootStage = "read" /\ program' = program /\ bootStage' = "exit"
      BY <1>4, <2>1 DEF E22!ReadRegisters, E22!LeaveConfig
    <3>2. elapsed' \in Nat /\ elapsed' <= elapsed + ReadTimeout
      BY <3>1, ReadType
    <3>3. QED
      BY <3>1, <3>2
  <2>2. CASE E22!Judge(E22!Answer) # "same"
    <3>1. PICK d \in E22!ReadTime : E22!Spend(d + Settle)
      BY <1>4, <2>2 DEF E22!ReadRegisters
    <3>2. d \in Nat /\ d <= ReadTimeout
      BY DEF E22!ReadTime
    <3>3. elapsed' \in Nat /\ elapsed' <= elapsed + (d + Settle)
      BY <3>1, <3>2, WaitType
    <3>4. bootStage = "read" /\ program' = program /\ bootStage' = "flash"
      BY <1>4, <2>2 DEF E22!ReadRegisters
    <3>5. QED
      BY <3>2, <3>3, <3>4
  <2>3. QED
    BY <2>1, <2>2
<1>5. CASE E22!FlashReady \/ E22!FlashTimeout
  <2>1. elapsed' \in Nat /\ elapsed' <= elapsed + CfgTimeout
    BY <1>5, WaitType DEF E22!FlashReady, E22!FlashTimeout
  <2>2. /\ bootStage = "flash" /\ program' = program
        /\ bootStage' = "confirm" \/ bootStage' = "exit"
    BY <1>5 DEF E22!FlashReady, E22!FlashTimeout, E22!LeaveConfig
  <2>3. QED
    BY <2>1, <2>2
<1>6. CASE E22!Confirm
  <2>1. E22!ReadAnswer /\ bootStage = "confirm" /\ program' = program /\ bootStage' = "exit"
    BY <1>6 DEF E22!Confirm, E22!LeaveConfig
  <2>2. elapsed' \in Nat /\ elapsed' <= elapsed + ReadTimeout
    BY <2>1, ReadType
  <2>3. QED
    BY <2>1, <2>2
<1>7. CASE E22!StartLoop
  <2>1. elapsed' \in Nat /\ elapsed' <= elapsed + ModeTimeout
    BY <1>7, WaitType DEF E22!StartLoop
  <2>2. bootStage = "exit" /\ program' = program /\ bootStage' = "loop"
    BY <1>7 DEF E22!StartLoop
  <2>3. QED
    BY <2>1, <2>2
<1>8. CASE E22!Diagnose
  BY <1>8 DEF E22!Diagnose, E22!LeaveConfig
<1>9. CASE E22!EspReset \/ E22!PowerCycle
  BY <1>9 DEF E22!EspReset, E22!PowerCycle, E22!Boot
<1>10. CASE E22!UartFails
  <2>1. elapsed' \in Nat /\ elapsed' <= elapsed + RetryDelay
    BY <1>10, WaitType DEF E22!UartFails
  <2>2. bootStage = "uart" /\ program' = program /\ bootStage' = "retry"
    BY <1>10 DEF E22!UartFails
  <2>3. QED
    BY <2>1, <2>2
<1>11. QED
  BY <1>2, <1>3, <1>4, <1>5, <1>6, <1>7, <1>8, <1>9, <1>10 DEF E22!Next, E22!Task

-----------------------------------------------------------------------------
(* With a radio that answers in time the task's stages and the radio's     *)
(* keep in step.  A queue of one has nothing behind its front.             *)
LEMMA VehicleStep ==
  E22!BootAssumption /\ E22!TypeOK /\ StageInv /\ VehicleInv /\ [E22!Next]_(E22!vars)
    => VehicleInv'
<1> SUFFICES ASSUME E22!BootAssumption, E22!TypeOK, StageInv, VehicleInv, [E22!Next]_(E22!vars),
                    program' = "vehicle", healthy'
             PROVE  VehicleInv'
  BY DEF VehicleInv
<1>0. /\ healthy \in BOOLEAN /\ "nothing" # E22!Contract
      /\ flash \in E22!Registers /\ "error" \notin E22!Registers
  BY DEF E22!TypeOK, E22!BootAssumption, E22!Contract, E22!Registers
<1> USE DEF Asked, Answered
<1>1. CASE E22!UartFails \/ E22!UartRetry \/ E22!EnterConfig
  BY <1>1 DEF E22!UartFails, E22!UartRetry, E22!EnterConfig, E22!radioVars, VehicleInv
<1>2. CASE E22!ConfigReady
  <2>1. /\ bootStage = "enter" /\ bootStage' = "read" /\ rx' = <<>> /\ E22!Send("read")
        /\ UNCHANGED <<program, verdict, mode, flash, healthy>>
    BY <1>2 DEF E22!ConfigReady, E22!AskRegisters, E22!Flush
  <2>2. inbox = <<>>
    BY <2>1 DEF VehicleInv
  <2>3. inbox' = <<>> \/ (mode = "config" /\ inbox' = <<"read">>)
    BY <2>1, <2>2, SendType
  <2>4. QED
    BY <2>1, <2>3 DEF VehicleInv
<1>3. CASE E22!ReadRegisters
  <2>1. /\ bootStage = "read" /\ program = "vehicle"
        /\ healthy' = (healthy /\ E22!InTime)
    BY <1>3 DEF E22!ReadRegisters
  <2>2. healthy /\ E22!InTime
    BY ONLY <2>1, healthy', Zenon
  <2>3. \/ rx = <<>> /\ inbox = <<>> /\ mode = pins
        \/ Answered
    BY <2>1, <2>2, Judged DEF VehicleInv, E22!InTime, E22!Answer
  <2>4. CASE E22!Judge(E22!Answer) = "same"
    <3>1. E22!ReadAnswer /\ E22!LeaveConfig("matches")
      BY <1>3, <2>4 DEF E22!ReadRegisters
    <3>2. rx # <<>> /\ rx[1] = E22!Contract
      BY <2>4, Judged
    <3>3. rx = <<flash>> /\ inbox = <<>> /\ flash = E22!Contract
      BY <2>3, <3>2
    <3>4. rx' = <<>>
      BY <3>1, <3>3, ReadType
    <3>5. QED
      BY <3>1, <3>3, <3>4 DEF VehicleInv, E22!LeaveConfig, E22!radioVars
  <2>5. CASE E22!Judge(E22!Answer) # "same"
    <3>1. /\ rx' = <<>> /\ E22!Send("write") /\ bootStage' = "flash"
          /\ UNCHANGED <<program, verdict, pins, mode, aux, flash, crypt>>
      BY <1>3, <2>5 DEF E22!ReadRegisters, E22!Flush
    <3>2. inbox = <<>> /\ mode = "config"
      BY <2>1, <2>3 DEF StageInv
    <3>3. inbox' = <<"write">>
      <4>1. inbox' = E22!Put(inbox, "write")
        BY <3>1, <3>2 DEF E22!Send
      <4>2. MaxQueued \in Nat \ {0} /\ Len(inbox) = 0
        BY <3>2 DEF E22!BootAssumption
      <4>3. QED
        BY <3>2, <4>1, <4>2 DEF E22!Put
    <3>4. QED
      BY <2>1, <2>2, <3>1, <3>2, <3>3 DEF VehicleInv
  <2>6. QED
    BY <2>4, <2>5
<1>4. CASE E22!FlashReady
  BY <1>4 DEF E22!FlashReady, VehicleInv, E22!radioVars
<1>5. CASE E22!Confirm
  <2>1. /\ bootStage = "confirm" /\ E22!ReadAnswer /\ healthy' = (healthy /\ E22!InTime)
        /\ bootStage' = "exit" /\ UNCHANGED <<program, inbox, flash, crypt>>
        /\ verdict' = CASE E22!Judge(E22!Answer) = "same" -> "verified"
                        [] E22!Judge(E22!Answer) = "error" -> "rejected"
                        [] OTHER -> "mismatch"
    BY <1>5 DEF E22!Confirm, E22!LeaveConfig, E22!radioVars
  <2>2. healthy /\ E22!InTime
    BY ONLY <2>1, healthy', Zenon
  <2>3. /\ rx = <<flash>> /\ inbox = <<>>
        /\ flash = E22!Contract /\ crypt = E22!Contract
    BY <2>1, <2>2, Judged DEF VehicleInv, E22!InTime, E22!Answer
  <2>4. rx' = <<>>
    BY <2>1, <2>3, ReadType
  <2>5. verdict' = "verified"
    <3>1. rx # <<>> /\ rx[1] = E22!Contract
      BY <2>3
    <3>2. E22!Judge(E22!Answer) = "same"
      BY <3>1, Judged
    <3>3. QED
      BY <2>1, <3>2
  <2>6. QED
    BY <2>1, <2>3, <2>4, <2>5 DEF VehicleInv
<1>6. CASE E22!StartLoop
  BY <1>6 DEF E22!StartLoop, VehicleInv, E22!radioVars
<1>7. CASE E22!SwitchMode
  BY <1>7 DEF E22!SwitchMode, StageInv, VehicleInv, E22!taskVars
<1>8. CASE E22!AuxLow \/ E22!AuxHigh \/ UNCHANGED E22!vars
  BY <1>8 DEF E22!AuxLow, E22!AuxHigh, VehicleInv, E22!vars, E22!taskVars,
              E22!radioVars
<1>9. CASE E22!Reply
  <2>1. inbox # <<>> /\ UNCHANGED <<program, bootStage, verdict, mode>>
    BY <1>9 DEF E22!Reply, E22!taskVars
  <2>2. healthy
    BY <1>9, ReplyType
  <2>3. CASE inbox = <<"read">> /\ rx = <<>> /\ bootStage = "read" /\ mode = "config"
    <3>1. Len(inbox) = 1 /\ Head(inbox) = "read"
      BY <2>3
    <3>2. inbox' = <<>> /\ rx' = <<flash'>> /\ flash' = flash
      BY <1>9, <2>3, <3>1, ReplyType
    <3>3. QED
      BY <2>1, <2>2, <2>3, <3>2 DEF VehicleInv
  <2>4. CASE /\ inbox = <<"write">> /\ rx = <<>> /\ mode = "config"
             /\ bootStage \in {"flash", "confirm"}
    <3>1. Len(inbox) = 1 /\ Head(inbox) = "write"
      BY <2>4
    <3>2. /\ inbox' = <<>> /\ rx' = <<flash'>>
          /\ flash' = E22!Contract /\ crypt' = E22!Contract
      BY <1>9, <2>4, <3>1, ReplyType
    <3>3. QED
      BY <2>1, <2>2, <2>4, <3>2 DEF VehicleInv
  <2>5. \/ inbox = <<"read">> /\ rx = <<>> /\ bootStage = "read" /\ mode = "config"
        \/ /\ inbox = <<"write">> /\ rx = <<>> /\ mode = "config"
           /\ bootStage \in {"flash", "confirm"}
    BY <2>1, <2>2 DEF VehicleInv, StageInv, E22!TypeOK
  <2>6. QED
    BY <2>3, <2>4, <2>5
<1>10. CASE E22!EspReset
  <2>1. inbox = <<>>
    BY ONLY <1>10, healthy', Zenon DEF E22!EspReset
  <2>2. QED
    BY <1>10, <2>1 DEF E22!EspReset, E22!Boot, VehicleInv, E22!radioVars
<1>11. CASE E22!PowerCycle
  BY <1>11 DEF E22!PowerCycle, E22!Boot, VehicleInv
<1>12. CASE E22!ConfigTimeout \/ E22!FlashTimeout \/ E22!Diagnose \/ E22!Ping \/ E22!Echo
  BY <1>12 DEF E22!ConfigTimeout, E22!FlashTimeout, E22!Diagnose, E22!LeaveConfig,
               E22!Ping, E22!Echo, StageInv
<1>13. QED
  BY <1>1, <1>2, <1>3, <1>4, <1>5, <1>6, <1>7, <1>8, <1>9, <1>10, <1>11, <1>12
     DEF E22!Next, E22!Task, E22!Radio

(* The diagnostic program gives the radio nothing to store.                *)
LEMMA DiagnosticStep ==
  E22!BootAssumption /\ E22!TypeOK /\ StageInv /\ DiagnosticInv /\ [E22!Next]_(E22!vars)
    => DiagnosticInv'
<1> SUFFICES ASSUME E22!BootAssumption, E22!TypeOK, StageInv, DiagnosticInv, [E22!Next]_(E22!vars),
                    program' = "diagnostic", healthy'
             PROVE  DiagnosticInv'
  BY DEF DiagnosticInv
<1>0. /\ healthy \in BOOLEAN /\ flash \in E22!Registers
      /\ "error" \notin E22!Registers /\ E22!Contract \notin Foreign
      /\ rx \in Seq(E22!Registers \cup E22!NotRegisters)
  BY DEF E22!TypeOK, E22!BootAssumption, E22!Contract, E22!Registers
<1>1. CASE UNCHANGED <<program, verdict, rx, inbox, flash, healthy>>
  BY <1>1 DEF DiagnosticInv
<1>2. CASE /\ E22!Flush /\ UNCHANGED <<program, verdict, flash, healthy>>
           /\ UNCHANGED inbox \/ E22!Send("read") \/ E22!Send("text")
  <2>1. \A i \in 1 .. Len(inbox') :
          inbox'[i] \in {"read", "text"} \/ (i \in 1 .. Len(inbox) /\ inbox'[i] = inbox[i])
    BY <1>2, SendType
  <2>2. rx' = <<>> /\ Len(<<>>) = 0
    BY <1>2 DEF E22!Flush
  <2>3. QED
    BY <1>2, <2>1, <2>2 DEF DiagnosticInv
<1>3. CASE E22!Diagnose
  <2>1. /\ E22!ReadAnswer /\ healthy' = (healthy /\ E22!InTime)
        /\ UNCHANGED <<program, inbox, flash>>
        /\ verdict' = CASE E22!Judge(E22!Answer) = "same" -> "matches"
                        [] E22!Judge(E22!Answer) = "error" -> "rejected"
                        [] E22!Judge(E22!Answer) = "other" -> "differs"
                        [] OTHER -> "incomplete"
    BY <1>3 DEF E22!Diagnose, E22!LeaveConfig, E22!radioVars
  <2>2. healthy
    BY ONLY <2>1, healthy', Zenon
  <2>3. \A i \in 1 .. Len(rx) : rx[i] = flash
    BY <2>1, <2>2 DEF DiagnosticInv
  <2>4. rx # <<>> => 1 \in 1 .. Len(rx)
    BY <1>0
  <2>5. rx # <<>> => rx[1] = flash /\ E22!Answer \in E22!Registers
    BY <1>0, <2>3, <2>4, Judged
  <2>6. \A i \in 1 .. Len(rx') : rx'[i] = flash
    <3> SUFFICES ASSUME NEW i \in 1 .. Len(rx') PROVE rx'[i] = flash
      OBVIOUS
    <3>1. \/ rx'[i] = "junk" /\ E22!Answer \notin E22!Registers
          \/ i + 1 \in 1 .. Len(rx) /\ rx'[i] = rx[i + 1]
      BY <2>1, ReadType
    <3>2. rx = <<>> => rx' = <<>>
      <4>1. rx = <<>> => Len(rx) <= 1
        OBVIOUS
      <4>2. QED
        BY <2>1, <4>1, ReadType
    <3>3. QED
      BY <2>3, <2>5, <3>1, <3>2
  <2>7. E22!Judge(E22!Answer) \in {"same", "other", "incomplete"}
    BY <1>0, <2>5, Judged
  <2>8. E22!Judge(E22!Answer) = "other" => flash # E22!Contract
    BY <1>0, <2>5, Judged
  <2>9. verdict' \in {"matches", "differs", "incomplete"}
        /\ (verdict' = "differs" => E22!Judge(E22!Answer) = "other")
    BY <2>1, <2>7
  <2>10. QED
    BY <2>1, <2>2, <2>6, <2>8, <2>9 DEF DiagnosticInv
<1>4. CASE E22!Reply
  <2>1. inbox # <<>> /\ UNCHANGED <<program, verdict>>
    BY <1>4 DEF E22!Reply, E22!taskVars
  <2>2. healthy
    BY <1>4, ReplyType
  <2>3. Head(inbox) # "write"
    BY <2>1, <2>2 DEF DiagnosticInv, E22!TypeOK
  <2>4. /\ flash' = flash
        /\ \A i \in 1 .. Len(rx') :
             rx'[i] = flash' \/ (i \in 1 .. Len(rx) /\ rx'[i] = rx[i])
        /\ \A i \in 1 .. Len(inbox') : i + 1 \in 1 .. Len(inbox) /\ inbox'[i] = inbox[i + 1]
    BY <1>4, <2>3, ReplyType
  <2>5. QED
    BY <2>1, <2>2, <2>4 DEF DiagnosticInv
<1>5. CASE E22!EspReset
  <2>1. inbox = <<>>
    BY ONLY <1>5, healthy', Zenon DEF E22!EspReset
  <2>2. rx' = <<>> /\ inbox' = <<>> /\ verdict' = "none" /\ Len(<<>>) = 0
    BY <1>5, <2>1 DEF E22!EspReset, E22!Boot, E22!radioVars
  <2>3. QED
    BY <2>2 DEF DiagnosticInv
<1>6. CASE E22!PowerCycle
  <2>1. rx' = <<>> /\ inbox' = <<>> /\ verdict' = "none" /\ Len(<<>>) = 0
    BY <1>6 DEF E22!PowerCycle, E22!Boot
  <2>2. QED
    BY <2>1 DEF DiagnosticInv
<1>7. QED
  <2>1. CASE E22!EnterConfig \/ E22!SwitchMode \/ E22!AuxLow \/ E22!AuxHigh \/ UNCHANGED E22!vars
    BY <1>1, <2>1
       DEF E22!EnterConfig, E22!SwitchMode, E22!AuxLow, E22!AuxHigh, E22!vars,
           E22!taskVars, E22!radioVars
  <2>2. CASE E22!ConfigReady \/ E22!Ping \/ E22!Echo
    BY <1>2, <2>2 DEF E22!ConfigReady, E22!AskRegisters, E22!Ping, E22!Echo,
                      E22!radioVars
  <2>3. CASE \/ E22!UartFails \/ E22!UartRetry \/ E22!ConfigTimeout \/ E22!ReadRegisters \/ E22!FlashReady
             \/ E22!FlashTimeout \/ E22!Confirm \/ E22!StartLoop
    BY <2>3
       DEF E22!UartFails, E22!UartRetry, E22!ConfigTimeout, E22!ReadRegisters, E22!FlashReady,
           E22!FlashTimeout, E22!Confirm, E22!StartLoop, E22!LeaveConfig, StageInv
  <2>4. QED
    BY <1>3, <1>4, <1>5, <1>6, <2>1, <2>2, <2>3 DEF E22!Next, E22!Task, E22!Radio

-----------------------------------------------------------------------------
RadioInv ==
  E22!TypeOK /\ StageInv /\ BlocksTold /\ LogInv /\ VehicleInv /\ DiagnosticInv

(* The inductive invariant of the boot, for every queue length, set of wrong *)
(* answers and length of a wait.                                           *)
THEOREM RadioInductive ==
  ASSUME E22!BootAssumption PROVE E22!Spec => [](RadioInv /\ FeedInv)
<1>1. E22!Init => StageInv /\ BlocksTold /\ LogInv /\ VehicleInv /\ DiagnosticInv /\ FeedInv
  <2> SUFFICES ASSUME E22!Init
               PROVE  /\ StageInv /\ BlocksTold /\ LogInv /\ VehicleInv
                      /\ DiagnosticInv /\ FeedInv
    OBVIOUS
  <2>1. Len(<<>>) = 0
    OBVIOUS
  <2>2. BootTime \in Nat
    BY DEF BootTime, E22!BootAssumption
  <2>3. QED
    BY <2>1, <2>2
       DEF E22!Init, StageInv, BlocksTold, LogInv, VehicleInv, DiagnosticInv, FeedInv
<1>2. E22!TypeOK /\ StageInv /\ [E22!Next]_(E22!vars) => StageInv'
  BY StageStep
<1>3. E22!TypeOK /\ BlocksTold /\ LogInv /\ [E22!Next]_(E22!vars) => BlocksTold' /\ LogInv'
  BY LogStep
<1>4. E22!TypeOK /\ StageInv /\ VehicleInv /\ [E22!Next]_(E22!vars) => VehicleInv'
  BY VehicleStep
<1>5. E22!TypeOK /\ StageInv /\ DiagnosticInv /\ [E22!Next]_(E22!vars) => DiagnosticInv'
  BY DiagnosticStep
<1>6. E22!TypeOK /\ StageInv /\ FeedInv /\ [E22!Next]_(E22!vars) => FeedInv'
  BY FeedStep
<1>7. QED
  BY <1>1, <1>2, <1>3, <1>4, <1>5, <1>6, RadioTypes, PTL DEF E22!Spec, RadioInv

(* Whatever is lost, late or garbled, and whenever the radio or the ESP    *)
(* restarts, the log reports the contract only if every register that can  *)
(* be read back has its value in the flash.                                *)
THEOREM VerdictsTrue ==
  ASSUME E22!BootAssumption PROVE E22!Spec => []E22!VerdictTrue
<1>1. RadioInv => E22!VerdictTrue
  BY DEF RadioInv, E22!TypeOK, StageInv, LogInv, VehicleInv, DiagnosticInv,
         E22!VerdictTrue
<1>2. QED
  BY <1>1, RadioInductive, PTL

(* A vehicle whose radio answered everything in time starts its loop with  *)
(* the contract in the flash, but for a key it had no reason to write.     *)
THEOREM HealthyBootsConfigure ==
  ASSUME E22!BootAssumption PROVE E22!Spec => []E22!HealthyBootConfigures
<1>1. RadioInv => E22!HealthyBootConfigures
  BY DEF RadioInv, VehicleInv, E22!HealthyBootConfigures
<1>2. QED
  BY <1>1, RadioInductive, PTL

(* Between two feeds of the watchdog pass at most the wait for another try *)
(* of the UART driver, or the waits of one configuration.                  *)
THEOREM WatchdogAlwaysFed ==
  ASSUME E22!BootAssumption, BootTime <= WdtTimeout, RetryDelay <= WdtTimeout
  PROVE  E22!Spec => []E22!WatchdogFed
<1>1. E22!TypeOK /\ FeedInv => E22!WatchdogFed
  BY DEF E22!TypeOK, E22!BootAssumption, FeedInv, BootTime, E22!WatchdogFed
<1>2. QED
  BY <1>1, RadioInductive, PTL DEF RadioInv

-----------------------------------------------------------------------------
Reading == 0 .. TickMod - 1

(* The time from reading b to reading a as the code computes it.           *)
Elapsed(a, b) == (a - b) % TickMod

(* A difference is the plain one unless the counter wrapped in between.    *)
LEMMA Difference ==
  ASSUME Clock!ClockAssumption, NEW a \in Reading, NEW b \in Reading
  PROVE  /\ Elapsed(a, b) = IF a >= b THEN a - b ELSE (a - b) + TickMod
         /\ Elapsed(a, b) \in Reading
  BY DEF Clock!ClockAssumption, Reading, Elapsed

(* A clock that moves on by at most one turn wraps at most once.           *)
LEMMA MovesOn ==
  ASSUME Clock!ClockAssumption, NEW a \in Reading, NEW d \in 0 .. TickMod
  PROVE  /\ (a + d) % TickMod \in Reading
         /\ (a + d) % TickMod = IF a + d < TickMod THEN a + d ELSE (a + d) - TickMod
  BY DEF Clock!ClockAssumption, Reading

(* A difference that d more ticks do not carry beyond a turn grows by d.   *)
LEMMA DifferenceGrows ==
  ASSUME Clock!ClockAssumption, NEW a \in Reading, NEW b \in Reading, NEW d \in Nat,
         Elapsed(a, b) + d < TickMod
  PROVE  Elapsed((a + d) % TickMod, b) = Elapsed(a, b) + d
<1> DEFINE c == (a + d) % TickMod
<1>1. TickMod \in Nat \ {0}
  BY DEF Clock!ClockAssumption
<1>2. /\ Elapsed(a, b) = IF a >= b THEN a - b ELSE (a - b) + TickMod
      /\ Elapsed(a, b) \in Reading
  BY Difference
<1>3. d \in 0 .. TickMod
  BY <1>1, <1>2 DEF Reading
<1>4. c \in Reading /\ c = IF a + d < TickMod THEN a + d ELSE (a + d) - TickMod
  BY <1>3, MovesOn
<1> HIDE DEF c
<1>5. Elapsed(c, b) = IF c >= b THEN c - b ELSE (c - b) + TickMod
  BY <1>4, Difference
<1>6. Elapsed(c, b) = Elapsed(a, b) + d
  BY <1>1, <1>2, <1>4, <1>5 DEF Reading
<1>7. QED
  BY <1>6 DEF c

(* A reading taken now is no time ago.                                     *)
LEMMA NoTimeAgo ==
  ASSUME Clock!ClockAssumption, NEW a \in Reading
  PROVE  Elapsed(a, a) = 0
  BY Difference DEF Reading, Clock!ClockAssumption

-----------------------------------------------------------------------------
(* The time a source may already be silent and still be marked valid: the  *)
(* pause may carry it past the timeout until the pass has checked it.      *)
SourceInv ==
  /\ lastValid => hasSeen
  /\ lastValid => /\ age = Elapsed(now, lastTick)
                  /\ age < IF pc \in {"rx", "check"} THEN Timeout + MaxPause
                           ELSE Timeout
  /\ hasSeen /\ ~lastValid => age >= Timeout

(* The readings tell how far the period is, overdue or not.                *)
PeriodInv ==
  /\ txAge = Elapsed(now, lastTx)
  /\ txAge < IF pc = "sleep" THEN Period ELSE Period + MaxPause

ClockInv == Clock!TypeOK /\ SourceInv /\ PeriodInv

(* Every variable stays in its type.                                       *)
THEOREM ClockTypes ==
  ASSUME Clock!ClockAssumption PROVE Clock!Spec => []Clock!TypeOK
<1> USE DEF Clock!ClockAssumption
<1>1. Clock!Init => Clock!TypeOK
  <2>1. 0 \in 0 .. TickMod - 1 /\ 0 \in 0 .. Horizon
    OBVIOUS
  <2>2. QED
    BY <2>1 DEF Clock!Init, Clock!TypeOK
<1>2. Clock!TypeOK /\ [Clock!Next]_(Clock!vars) => Clock!TypeOK'
  <2> SUFFICES ASSUME Clock!TypeOK, [Clock!Next]_(Clock!vars) PROVE Clock!TypeOK'
    OBVIOUS
  <2> USE DEF Clock!TypeOK, Clock!sourceVars, Clock!periodVars
  <2>1. ASSUME NEW d \in 1 .. MaxPause, Clock!Advance(d) PROVE Clock!TypeOK'
    <3>1. now' \in 0 .. TickMod - 1
      BY <2>1 DEF Clock!Advance
    <3>2. age' \in 0 .. Horizon /\ txAge' \in 0 .. Horizon
      BY <2>1 DEF Clock!Advance, Clock!Later
    <3>3. QED
      BY <2>1, <3>1, <3>2 DEF Clock!Advance
  <2>2. CASE Clock!Frame
    BY <2>2 DEF Clock!Frame
  <2>3. CASE Clock!NoFrame
    BY <2>3 DEF Clock!NoFrame
  <2>4. CASE Clock!CheckTimeout
    BY <2>4 DEF Clock!CheckTimeout, Clock!IsTimedOut
  <2>5. CASE Clock!Tick \/ Clock!NoTick
    BY <2>5 DEF Clock!Tick, Clock!NoTick
  <2>6. CASE UNCHANGED Clock!vars
    BY <2>6 DEF Clock!vars
  <2>7. QED
    BY <2>1, <2>2, <2>3, <2>4, <2>5, <2>6 DEF Clock!Next
<1>3. QED
  BY <1>1, <1>2, PTL DEF Clock!Spec

(* The history of true ages and the readings agree after every step.       *)
LEMMA AgreementStep ==
  ASSUME Clock!ClockAssumption, ClockInv, [Clock!Next]_(Clock!vars)
  PROVE  SourceInv' /\ PeriodInv'
<1>1. /\ TickMod \in Nat \ {0} /\ Timeout \in Nat \ {0} /\ Period \in Nat \ {0}
      /\ MaxPause \in Nat \ {0} /\ Horizon \in Nat
      /\ Timeout + MaxPause <= TickMod /\ Period + MaxPause <= TickMod
      /\ Horizon >= TickMod + Timeout
  BY DEF Clock!ClockAssumption
<1>2. /\ now \in Reading /\ lastTick \in Reading /\ lastTx \in Reading
      /\ age \in 0 .. Horizon /\ txAge \in 0 .. Horizon
      /\ lastValid \in BOOLEAN /\ hasSeen \in BOOLEAN
  BY DEF ClockInv, Clock!TypeOK, Reading
<1> USE DEF ClockInv, SourceInv, PeriodInv, Clock!sourceVars, Clock!periodVars
<1>3. ASSUME NEW d \in 1 .. MaxPause, Clock!Advance(d) PROVE SourceInv' /\ PeriodInv'
  <2>1. /\ pc = "sleep" /\ pc' = "rx" /\ now' = (now + d) % TickMod
        /\ age' = Clock!Later(age, d) /\ txAge' = Clock!Later(txAge, d)
        /\ UNCHANGED <<hasSeen, lastValid, lastTick, lastTx>>
    BY <1>3 DEF Clock!Advance
  <2>2. lastValid => Elapsed(now', lastTick) = age + d
    BY <1>1, <1>2, <2>1, DifferenceGrows
  <2>3. Elapsed(now', lastTx) = txAge + d
    BY <1>1, <1>2, <2>1, DifferenceGrows
  <2>4. lastValid => age' = age + d /\ age + d < Timeout + MaxPause
    BY <1>1, <1>2, <2>1 DEF Clock!Later
  <2>5. txAge' = txAge + d /\ txAge + d < Period + MaxPause
    BY <1>1, <1>2, <2>1 DEF Clock!Later
  <2>6. age >= Timeout => age' >= Timeout
    BY <1>1, <1>2, <2>1 DEF Clock!Later
  <2>7. QED
    BY <2>1, <2>2, <2>3, <2>4, <2>5, <2>6
<1>4. CASE Clock!Frame
  BY <1>1, <1>2, <1>4, NoTimeAgo DEF Clock!Frame
<1>5. CASE Clock!NoFrame
  BY <1>5 DEF Clock!NoFrame
<1>6. CASE Clock!CheckTimeout
  <2>1. /\ pc = "check" /\ pc' = "tick"
        /\ lastValid' = (lastValid /\ ~Clock!IsTimedOut)
        /\ UNCHANGED <<now, hasSeen, lastTick, age, Clock!periodVars>>
    BY <1>6 DEF Clock!CheckTimeout
  <2>2. lastValid => (Clock!IsTimedOut <=> age >= Timeout)
    BY <1>1 DEF Clock!IsTimedOut, Elapsed
  <2>3. CASE lastValid /\ ~Clock!IsTimedOut
    <3>1. lastValid' = TRUE
      BY ONLY <2>1, <2>3, Zenon
    <3>2. age < Timeout
      BY <1>1, <1>2, <2>2, <2>3
    <3>3. QED
      BY <1>1, <1>2, <2>1, <2>3, <3>1, <3>2
  <2>4. CASE ~(lastValid /\ ~Clock!IsTimedOut)
    BY <1>1, <1>2, <2>1, <2>2, <2>4
  <2>5. QED
    BY <2>3, <2>4
<1>7. CASE Clock!Tick
  BY <1>1, <1>2, <1>7, NoTimeAgo DEF Clock!Tick
<1>8. CASE Clock!NoTick
  BY <1>1, <1>2, <1>8 DEF Clock!NoTick, Clock!IsDue, Elapsed
<1>9. CASE UNCHANGED Clock!vars
  BY <1>9 DEF Clock!vars
<1>10. QED
  BY <1>3, <1>4, <1>5, <1>6, <1>7, <1>8, <1>9 DEF Clock!Next

(* The inductive invariant.                                                *)
THEOREM ClockInductive ==
  ASSUME Clock!ClockAssumption PROVE Clock!Spec => []ClockInv
<1>1. Clock!Init => SourceInv /\ PeriodInv
  BY NoTimeAgo DEF Clock!Init, SourceInv, PeriodInv, Reading, Clock!ClockAssumption
<1>2. ClockInv /\ [Clock!Next]_(Clock!vars) => SourceInv' /\ PeriodInv'
  BY AgreementStep
<1>3. QED
  BY <1>1, <1>2, ClockTypes, PTL DEF Clock!Spec, ClockInv

-----------------------------------------------------------------------------
(* After every pass a source is valid exactly if its last frame is younger *)
(* than the timeout, also when the counter wrapped and also after a        *)
(* silence it cannot count.                                                *)
THEOREM TimeoutsAreTrue ==
  ASSUME Clock!ClockAssumption PROVE Clock!Spec => []Clock!TimeoutIsTrue
<1>1. ClockInv => Clock!TimeoutIsTrue
  BY DEF ClockInv, Clock!TypeOK, SourceInv, Clock!TimeoutIsTrue, Clock!ClockAssumption
<1>2. QED
  BY <1>1, ClockInductive, PTL

(* A period never starts early and never a pass late.                      *)
THEOREM PeriodsAreKept ==
  ASSUME Clock!ClockAssumption PROVE Clock!Spec => Clock!PeriodKept
<1>1. ClockInv => (Clock!IsDue <=> txAge >= Period)
  BY DEF ClockInv, PeriodInv, Clock!IsDue, Elapsed
<1>2. ClockInv => txAge \in Int /\ Period \in Int
  BY DEF ClockInv, Clock!TypeOK, Clock!ClockAssumption
<1>3. ClockInv => (Clock!Tick => txAge >= Period) /\ (Clock!NoTick => txAge < Period)
  BY <1>1, <1>2 DEF Clock!Tick, Clock!NoTick
<1>4. QED
  BY <1>3, ClockInductive, PTL DEF Clock!PeriodKept

-----------------------------------------------------------------------------
(* The fields of a packet.  Their types are ranges of integers:            *)
LEMMA Ranges ==
  /\ \A w : w \in 0 .. Frame!UINT16_MAX <=> w \in Int /\ 0 <= w /\ w <= Frame!UINT16_MAX
  /\ \A b : b \in 0 .. Frame!UINT8_MAX <=> b \in Int /\ 0 <= b /\ b <= Frame!UINT8_MAX
  /\ \A t : t \in Frame!INT8_MIN .. Frame!INT8_MAX
              <=> t \in Int /\ Frame!INT8_MIN <= t /\ t <= Frame!INT8_MAX
  /\ \A c : c \in 10 * Frame!INT16_MIN .. 10 * Frame!INT16_MAX
              <=> c \in Int /\ 10 * Frame!INT16_MIN <= c /\ c <= 10 * Frame!INT16_MAX
<1>1. /\ Frame!UINT16_MAX \in Int /\ Frame!UINT8_MAX \in Int
      /\ Frame!INT8_MIN \in Int /\ Frame!INT8_MAX \in Int
      /\ Frame!INT16_MIN \in Int /\ Frame!INT16_MAX \in Int
  BY DEF Frame!UINT16_MAX, Frame!UINT8_MAX, Frame!INT8_MIN, Frame!INT8_MAX,
         Frame!INT16_MIN, Frame!INT16_MAX
<1>2. 10 * Frame!INT16_MIN \in Int /\ 10 * Frame!INT16_MAX \in Int
  BY <1>1
<1>3. QED
  BY ONLY <1>1, <1>2

(* The casts to signed integers.                                           *)
LEMMA Casts ==
  /\ \A w \in 0 .. Frame!UINT16_MAX :
       Frame!Int16(w) * 10 \in 10 * Frame!INT16_MIN .. 10 * Frame!INT16_MAX
  /\ \A b \in 0 .. Frame!UINT8_MAX : Frame!Int8(b) \in Frame!INT8_MIN .. Frame!INT8_MAX
<1>1. ASSUME NEW w \in 0 .. Frame!UINT16_MAX
      PROVE  Frame!Int16(w) * 10 \in 10 * Frame!INT16_MIN .. 10 * Frame!INT16_MAX
  <2>1. w \in Int /\ 0 <= w /\ w <= Frame!UINT16_MAX
    BY Ranges
  <2>2. /\ Frame!Int16(w) \in Int
        /\ Frame!INT16_MIN <= Frame!Int16(w) /\ Frame!Int16(w) <= Frame!INT16_MAX
    BY ONLY <2>1 DEF Frame!Int16, Frame!UINT16_MAX, Frame!INT16_MIN, Frame!INT16_MAX
  <2>3. Frame!INT16_MIN \in Int /\ Frame!INT16_MAX \in Int
    BY DEF Frame!INT16_MIN, Frame!INT16_MAX
  <2>4. /\ Frame!Int16(w) * 10 \in Int
        /\ 10 * Frame!INT16_MIN <= Frame!Int16(w) * 10
        /\ Frame!Int16(w) * 10 <= 10 * Frame!INT16_MAX
    BY ONLY <2>2, <2>3
  <2>5. QED
    BY <2>4, Ranges
<1>2. ASSUME NEW b \in 0 .. Frame!UINT8_MAX PROVE Frame!Int8(b) \in Frame!INT8_MIN .. Frame!INT8_MAX
  <2>1. b \in Int /\ 0 <= b /\ b <= Frame!UINT8_MAX
    BY Ranges
  <2>2. Frame!Int8(b) \in Int /\ Frame!INT8_MIN <= Frame!Int8(b) /\ Frame!Int8(b) <= Frame!INT8_MAX
    BY ONLY <2>1 DEF Frame!Int8, Frame!UINT8_MAX, Frame!INT8_MIN, Frame!INT8_MAX
  <2>3. QED
    BY <2>2, Ranges
<1>3. QED
  BY <1>1, <1>2

(* tempH is not below tempL: both are set by the same frame.               *)
FrameInv == Frame!TypeOK /\ telemetry.temps.low <= telemetry.temps.high

(* Every frame keeps the fields in their C++ types and the temperatures in *)
(* order.                                                                  *)
LEMMA FrameStep ==
  Frame!FrameAssumption /\ FrameInv /\ [Frame!Next]_(Frame!vars) => FrameInv'
<1> SUFFICES ASSUME Frame!FrameAssumption, FrameInv, [Frame!Next]_(Frame!vars) PROVE FrameInv'
  OBVIOUS
<1>0. FrameInv
  OBVIOUS
<1>1. ASSUME NEW n \in Lengths, NEW r \in Words, NEW e \in Bytes, Frame!MotorStatus(n, r, e)
      PROVE  FrameInv'
  <2>1. r \in 0 .. Frame!UINT16_MAX /\ e \in 0 .. Frame!UINT8_MAX
    BY DEF Frame!FrameAssumption
  <2>2. (IF n >= 5 THEN e ELSE 0) \in 0 .. Frame!UINT8_MAX
    <3>1. 0 \in 0 .. Frame!UINT8_MAX
      BY Ranges DEF Frame!UINT8_MAX
    <3>2. QED
      BY <2>1, <3>1
  <2>3. QED
    BY ONLY <1>0, <1>1, <2>1, <2>2 DEF FrameInv, Frame!TypeOK, Frame!MotorStatus
<1>2. ASSUME NEW n \in Lengths, NEW c \in Words, NEW v \in Words, NEW s \in Words,
             Frame!LbBmsE000(n, c, v, s)
      PROVE  FrameInv'
  <2>1. /\ c \in 0 .. Frame!UINT16_MAX
        /\ v \in 0 .. Frame!UINT16_MAX /\ s \in 0 .. Frame!UINT16_MAX
    BY DEF Frame!FrameAssumption
  <2>2. Frame!Int16(c) * 10 \in 10 * Frame!INT16_MIN .. 10 * Frame!INT16_MAX
    BY <2>1, Casts
  <2>3. QED
    BY ONLY <1>0, <1>2, <2>1, <2>2 DEF FrameInv, Frame!TypeOK, Frame!LbBmsE000
<1>3. ASSUME NEW n \in Lengths, NEW b6 \in Bytes, NEW b7 \in Bytes,
             Frame!LbBmsE001(n, b6, b7)
      PROVE  FrameInv'
  <2>1. /\ Frame!Int8(b6) \in Frame!INT8_MIN .. Frame!INT8_MAX
        /\ Frame!Int8(b7) \in Frame!INT8_MIN .. Frame!INT8_MAX
    BY Casts DEF Frame!FrameAssumption
  <2>2. Frame!Int8(b6) \in Int /\ Frame!Int8(b7) \in Int
    BY <2>1, Ranges
  <2>3. QED
    BY ONLY <1>0, <1>3, <2>1, <2>2 DEF FrameInv, Frame!TypeOK, Frame!LbBmsE001
<1>4. CASE UNCHANGED Frame!vars
  BY ONLY <1>0, <1>4 DEF Frame!vars, FrameInv, Frame!TypeOK
<1>5. QED
  BY <1>1, <1>2, <1>3, <1>4 DEF Frame!Next

(* The fields start within them.                                           *)
LEMMA FrameStart == Frame!Init => FrameInv
<1>1. /\ 0 <= Frame!UINT16_MAX /\ 0 <= Frame!UINT8_MAX
      /\ 10 * Frame!INT16_MIN <= 0 /\ 0 <= 10 * Frame!INT16_MAX
      /\ Frame!INT8_MIN <= 0 /\ 0 <= Frame!INT8_MAX
  BY ONLY DEF Frame!UINT16_MAX, Frame!UINT8_MAX, Frame!INT16_MIN, Frame!INT16_MAX,
              Frame!INT8_MIN, Frame!INT8_MAX
<1>2. 0 \in Int /\ 0 <= 0
  OBVIOUS
<1>3. 0 \in 0 .. Frame!UINT16_MAX /\ 0 \in 0 .. Frame!UINT8_MAX
  BY ONLY <1>1, <1>2, Ranges
<1>4. 0 \in 10 * Frame!INT16_MIN .. 10 * Frame!INT16_MAX /\ 0 \in Frame!INT8_MIN .. Frame!INT8_MAX
  BY ONLY <1>1, <1>2, Ranges
<1>5. QED
  BY ONLY <1>3, <1>4, <1>2 DEF Frame!Init, Frame!NoTelemetry, FrameInv, Frame!TypeOK

(* Every field of the snapshot keeps its C++ type.                         *)
THEOREM FrameTypes ==
  ASSUME Frame!FrameAssumption PROVE Frame!Spec => []Frame!TypeOK
<1>1. FrameInv => Frame!TypeOK
  BY DEF FrameInv
<1>2. QED
  BY <1>1, FrameStart, FrameStep, PTL DEF Frame!Spec

(* Whatever bytes arrive, the ground station accepts every field but the   *)
(* motor's speed.                                                          *)
LEMMA FieldsStayAccepted ==
  ASSUME Frame!FrameAssumption
  PROVE  Frame!Spec => []Frame!OnlyRpmRejected
<1>2. FrameInv => Frame!OnlyRpmRejected
  <2> SUFFICES ASSUME FrameInv PROVE Frame!OnlyRpmRejected
    OBVIOUS
  <2>1. /\ telemetry.motor.rpm \in 0 .. Frame!UINT16_MAX
        /\ telemetry.motor.error \in 0 .. Frame!UINT8_MAX
        /\ telemetry.pack.current \in 10 * Frame!INT16_MIN .. 10 * Frame!INT16_MAX
        /\ telemetry.pack.packV \in 0 .. Frame!UINT16_MAX
        /\ telemetry.pack.soc \in 0 .. Frame!UINT16_MAX
        /\ telemetry.temps.high \in Frame!INT8_MIN .. Frame!INT8_MAX
        /\ telemetry.temps.low \in Frame!INT8_MIN .. Frame!INT8_MAX
        /\ telemetry.temps.low <= telemetry.temps.high
    BY DEF FrameInv, Frame!TypeOK
  <2>2. Frame!RpmToSpeedKmhX10(telemetry.motor.rpm) \in 0 .. Frame!TEL_SPD_X10_MAX
    <3>1. ASSUME NEW rpm \in Int, 0 <= rpm
          PROVE  /\ Frame!RpmToSpeedKmhX10(rpm) \in Int /\ 0 <= Frame!RpmToSpeedKmhX10(rpm)
                 /\ Frame!RpmToSpeedKmhX10(rpm) <= Frame!TEL_SPD_X10_MAX
      <4>1. (rpm * 10556) \div 10000 \in Int /\ 0 <= (rpm * 10556) \div 10000
        BY ONLY <3>1
      <4>2. QED
        BY ONLY <4>1 DEF Frame!RpmToSpeedKmhX10, Frame!TEL_SPD_X10_MAX
    <3>2. Frame!TEL_SPD_X10_MAX \in Int
      BY DEF Frame!TEL_SPD_X10_MAX
    <3>3. telemetry.motor.rpm \in Int /\ 0 <= telemetry.motor.rpm
      BY <2>1, Ranges
    <3>4. QED
      BY ONLY <3>1, <3>2, <3>3
  <2>3. Frame!SanitizeSoc(telemetry.pack.soc) \in 0 .. Frame!SOC_MAX
    <3>1. Frame!SOC_MAX \in Int /\ 0 <= Frame!SOC_MAX
      BY DEF Frame!SOC_MAX
    <3>2. telemetry.pack.soc \in Int /\ 0 <= telemetry.pack.soc
      BY <2>1, Ranges
    <3>3. QED
      BY ONLY <3>1, <3>2 DEF Frame!SanitizeSoc
  <2>4. Frame!SanitizeCurrent(telemetry.pack.current) > Frame!INT32_MIN
    <3>1. /\ telemetry.pack.current \in Int
          /\ 10 * Frame!INT16_MIN <= telemetry.pack.current
      BY <2>1, Ranges
    <3>2. QED
      BY ONLY <3>1 DEF Frame!SanitizeCurrent, Frame!INT32_MIN, Frame!INT16_MIN
  <2>5. Frame!SanitizeSystemState(0) \in 1 .. 4
    BY DEF Frame!SanitizeSystemState
  <2>6. /\ telemetry.motor.rpm \in Int /\ 0 <= telemetry.motor.rpm
        /\ Frame!TEL_RPM_MAX \in Int
    BY <2>1, Ranges DEF Frame!TEL_RPM_MAX
  <2>7. telemetry.motor.rpm \in 0 .. Frame!TEL_RPM_MAX
          <=> telemetry.motor.rpm <= Frame!TEL_RPM_MAX
    BY ONLY <2>6
  <2>8. QED
    BY ONLY <2>1, <2>2, <2>3, <2>4, <2>5, <2>7
       DEF Frame!OnlyRpmRejected, Frame!FieldsAccepted, Frame!Line
<1>3. QED
  BY FrameStart, <1>2, FrameStep, PTL DEF Frame!Spec

-----------------------------------------------------------------------------
(* The start of the firmware.  app_main has what lies behind the step it   *)
(* is at; a command can only stand in the queue if there is one and the    *)
(* panel is read; and only START_REQUEST arms the vehicle.                 *)
StartInv ==
  /\ step \in {"vcu", "mailbox", "can", "hmi", "vcuTask", "done"} =>
       "relays" \in have
  /\ step \in {"can", "hmi", "vcuTask", "done"} => "mailbox" \in have
  /\ hmi # "none" => step \in {"vcuTask", "done"}
  /\ vcuTask => step = "done"
  /\ eventQueue \in Seq(Start!Vcu!VcuEvent)
  /\ eventQueue # <<>> => "queue" \in have
  /\ \A i \in 1 .. Len(eventQueue) :
       eventQueue[i] = "START_REQUEST" => hmi = "run"
  /\ state \in {"READY", "DRIVE"} =>
       "queue" \in have /\ hmi = "run" /\ vcuTask

(* What a cycle of the VCU task does to queue and state.                   *)
LEMMA PollTakes ==
  ASSUME Start!InitPoll \/ Start!Vcu!RunPoll
  PROVE  /\ \/ eventQueue' = eventQueue
            \/ eventQueue # <<>> /\ eventQueue' = Tail(eventQueue)
         /\ \/ state' = state
            \/ state' \in {"IDLE", "FAULT"}
            \/ state' = "DRIVE" /\ state = "READY"
            \/ /\ state' = "READY"
               /\ eventQueue # <<>> /\ Head(eventQueue) = "START_REQUEST"
<1> USE DEF Start!Vcu!AtPoll, Start!Vcu!Receive, Start!Vcu!PeriodicHandler,
            Start!Vcu!TransitionTo
<1>1. CASE Start!InitPoll
  BY <1>1 DEF Start!InitPoll
<1>2. CASE Start!Vcu!PollEmpty \/ Start!Vcu!PollIgnored
  BY <1>2 DEF Start!Vcu!PollEmpty, Start!Vcu!PollIgnored
<1>3. CASE \/ Start!Vcu!PollFault \/ Start!Vcu!PollResetAccepted
           \/ Start!Vcu!PollResetRejected
  BY <1>3 DEF Start!Vcu!PollFault, Start!Vcu!PollResetAccepted,
              Start!Vcu!PollResetRejected
<1>4. CASE Start!Vcu!PollStart \/ Start!Vcu!PollDriveEnable
  BY <1>4 DEF Start!Vcu!PollStart, Start!Vcu!PollDriveEnable
<1>5. QED
  BY <1>1, <1>2, <1>3, <1>4 DEF Start!Vcu!RunPoll

(* What posting does to them.                                              *)
LEMMA PostPuts ==
  ASSUME NEW e \in Start!Vcu!VcuEvent, eventQueue \in Seq(Start!Vcu!VcuEvent),
         Start!Post(e)
  PROVE  /\ state' = state
         /\ eventQueue' \in Seq(Start!Vcu!VcuEvent)
         /\ eventQueue' # <<>> => eventQueue # <<>> \/ "queue" \in have
         /\ \A i \in 1 .. Len(eventQueue') :
              \/ eventQueue'[i] = e
              \/ i \in 1 .. Len(eventQueue) /\ eventQueue'[i] = eventQueue[i]
<1>1. CASE eventQueue' = eventQueue /\ state' = state
  BY <1>1
<1>2. CASE /\ eventQueue' = Append(eventQueue, e) /\ state' = state
           /\ "queue" \in have
  <2>1. \A i \in 1 .. Len(eventQueue) + 1 :
          Append(eventQueue, e)[i] = IF i = Len(eventQueue) + 1 THEN e ELSE eventQueue[i]
    OBVIOUS
  <2>2. QED
    BY <1>2, <2>1
<1>3. QED
  BY <1>1, <1>2 DEF Start!Post, Start!Vcu!PostEvent, Start!vcuVars

(* Every step of app_main, of the tasks it created and of the driver keeps *)
(* what the start guarantees.                                              *)
LEMMA StartStep ==
  StartInv /\ [Start!Next]_(Start!vars) => StartInv'
<1> SUFFICES ASSUME StartInv, [Start!Next]_(Start!vars) PROVE StartInv'
  OBVIOUS
<1> USE DEF StartInv
<1>1. CASE Start!Main
  <2>1. eventQueue' = eventQueue /\ have \subseteq have'
    BY <1>1 DEF Start!Main, Start!RelayBegin, Start!VcuInit, Start!CreateMailbox,
                Start!CreateCan, Start!CreateHmi, Start!CreateVcu, Start!vcuVars
  <2>2. CASE Start!RelayBegin \/ Start!CreateMailbox
    BY <2>1, <2>2 DEF Start!RelayBegin, Start!CreateMailbox, Start!vcuVars,
                      Start!taskVars
  <2>3. CASE Start!VcuInit
    <3>1. step = "vcu" /\ step' = "mailbox" /\ UNCHANGED <<hmi, vcuTask>>
      BY <2>3 DEF Start!VcuInit, Start!taskVars
    <3>2. state' \in {state, "IDLE"}
      BY <2>3 DEF Start!VcuInit, Start!vcuVars, Start!Vcu!TransitionTo
    <3>3. QED
      BY <2>1, <3>1, <3>2
  <2>4. CASE Start!CreateCan \/ Start!CreateHmi
    BY <2>1, <2>4 DEF Start!CreateCan, Start!CreateHmi, Start!vcuVars
  <2>5. CASE Start!CreateVcu
    BY <2>1, <2>5 DEF Start!CreateVcu, Start!vcuVars
  <2>6. QED
    BY <1>1, <2>2, <2>3, <2>4, <2>5 DEF Start!Main
<1>2. CASE Start!CanBegin \/ Start!HmiBegin \/ Start!CanPublish
  BY <1>2 DEF Start!CanBegin, Start!HmiBegin, Start!CanPublish, Start!vcuVars,
              Start!taskVars
<1>3. CASE Start!CanFault
  <2>1. Start!Post("FAULT_DETECTED") /\ UNCHANGED <<step, have, hmi, vcuTask>>
    BY <1>3 DEF Start!CanFault, Start!taskVars
  <2>2. "FAULT_DETECTED" \in Start!Vcu!VcuEvent
    BY DEF Start!Vcu!VcuEvent
  <2>3. /\ state' = state
        /\ eventQueue' \in Seq(Start!Vcu!VcuEvent)
        /\ eventQueue' # <<>> => eventQueue # <<>> \/ "queue" \in have
        /\ \A i \in 1 .. Len(eventQueue') :
             \/ eventQueue'[i] = "FAULT_DETECTED"
             \/ i \in 1 .. Len(eventQueue) /\ eventQueue'[i] = eventQueue[i]
    BY <2>1, <2>2, PostPuts
  <2>4. QED
    BY <2>1, <2>3
<1>4. CASE Start!HmiCommand
  <2>1. hmi = "run" /\ UNCHANGED <<step, have, hmi, vcuTask>>
    BY <1>4 DEF Start!HmiCommand, Start!taskVars
  <2>2. CASE Start!PostEStop
    <3>1. UNCHANGED <<state, eventQueue>>
      BY <2>2 DEF Start!PostEStop, Start!Vcu!PostEStop, Start!vcuVars
    <3>2. QED
      BY <2>1, <3>1
  <2>3. ASSUME NEW e \in Start!Command, Start!Post(e) PROVE StartInv'
    <3>1. e \in Start!Vcu!VcuEvent
      BY DEF Start!Command, Start!Vcu!VcuEvent
    <3>2. /\ state' = state
          /\ eventQueue' \in Seq(Start!Vcu!VcuEvent)
          /\ eventQueue' # <<>> => eventQueue # <<>> \/ "queue" \in have
      BY <2>3, <3>1, PostPuts
    <3>3. QED
      BY <2>1, <3>2
  <2>4. QED
    BY <1>4, <2>2, <2>3 DEF Start!HmiCommand
<1>5. CASE Start!VcuTop
  <2>1. state' \in {state, "EMERGENCY_STOP", "FAULT"} /\ eventQueue' = eventQueue
    BY <1>5 DEF Start!VcuTop, Start!Vcu!RunEStop, Start!Vcu!RunCritical,
                Start!Vcu!RunProceed, Start!Vcu!StartCycle, Start!Vcu!TransitionTo
  <2>2. UNCHANGED <<step, have, hmi, vcuTask>>
    BY <1>5 DEF Start!VcuTop, Start!taskVars
  <2>3. QED
    BY <2>1, <2>2
<1>6. CASE Start!VcuPoll
  <2>1. vcuTask /\ UNCHANGED <<step, have, hmi, vcuTask>>
    BY <1>6 DEF Start!VcuPoll, Start!taskVars
  <2>2. /\ \/ eventQueue' = eventQueue
           \/ eventQueue # <<>> /\ eventQueue' = Tail(eventQueue)
        /\ \/ state' = state
           \/ state' \in {"IDLE", "FAULT"}
           \/ state' = "DRIVE" /\ state = "READY"
           \/ /\ state' = "READY"
              /\ eventQueue # <<>> /\ Head(eventQueue) = "START_REQUEST"
    BY <1>6, PollTakes DEF Start!VcuPoll
  <2>3. /\ eventQueue' \in Seq(Start!Vcu!VcuEvent)
        /\ eventQueue' # <<>> => eventQueue # <<>>
        /\ \A i \in 1 .. Len(eventQueue') :
             \E j \in 1 .. Len(eventQueue) : eventQueue'[i] = eventQueue[j]
    <3>1. CASE eventQueue' = eventQueue
      BY <3>1
    <3>2. CASE eventQueue # <<>> /\ eventQueue' = Tail(eventQueue)
      <4>1. \A i \in 1 .. Len(eventQueue') :
              i + 1 \in 1 .. Len(eventQueue) /\ eventQueue'[i] = eventQueue[i + 1]
        BY <3>2
      <4>2. QED
        BY <3>2, <4>1
    <3>3. QED
      BY <2>2, <3>1, <3>2
  <2>4. eventQueue # <<>> =>
          1 \in 1 .. Len(eventQueue) /\ Head(eventQueue) = eventQueue[1]
    OBVIOUS
  <2>5. state' \in {"READY", "DRIVE"} => "queue" \in have /\ hmi = "run"
    BY <2>2, <2>4
  <2>6. QED
    BY <2>1, <2>3, <2>5
<1>7. CASE UNCHANGED Start!vars
  BY <1>7 DEF Start!vars, Start!vcuVars, Start!taskVars
<1>8. QED
  BY <1>1, <1>2, <1>3, <1>4, <1>5, <1>6, <1>7 DEF Start!Next

(* A vehicle that can be armed can be stopped and is watched.              *)
LEMMA ArmedStaysServed == Start!Spec => []Start!ArmedIsServed
<1>1. Start!Init => StartInv
  BY DEF Start!Init, StartInv
<1>2. StartInv => Start!ArmedIsServed
  BY DEF StartInv, Start!ArmedIsServed
<1>3. QED
  BY <1>1, <1>2, StartStep, PTL DEF Start!Spec

-----------------------------------------------------------------------------
(* Startup again: the VCU task it starts.  What VcuLogicProofs shows of a  *)
(* step of VcuLogic holds here; the snapshots are those of the mailbox and *)
(* the zero one that is seen without mutex or mailbox.                     *)
StartVcu == INSTANCE VcuLogicProofs WITH
  telemetry <- vcuTelemetry, pc <- vcuPc, Bank <- VcuBank, Writes <- {VcuBank},
  Snapshots <- Snapshots \cup {Start!Vcu!NoTelemetry}

(* Before init has succeeded, and unless a stop comes first, nothing has   *)
(* moved but the timer, the queue and the E-STOP flag.                     *)
Untouched ==
  /\ "mutex" \notin have /\ vcuTelemetry = Start!Vcu!NoTelemetry
  /\ commanded = FALSE /\ energised = {}
  /\ relaysOpened = [s \in Start!Vcu!Stopped |-> FALSE]
  /\ lastLogMs = [s \in Start!Vcu!Stopped |-> 0]
  /\ stateTimer \in 0 .. TimerMod - 1
  /\ eventQueue \in Seq(Start!Vcu!VcuEvent) /\ Len(eventQueue) <= QueueCap
  /\ eStopPending \in BOOLEAN /\ vcuPc \in {"top", "poll"}

(* What the VCU task sees was published, or is zero.                       *)
SeenInv ==
  /\ mailbox \subseteq Snapshots
  /\ vcuTelemetry \in Snapshots \cup {Start!Vcu!NoTelemetry}

VehicleSafe ==
  /\ SeenInv
  /\ step \in {"relays", "vcu"} => state = "INIT"
  /\ vcuTask => step = "done"
  /\ state = "INIT" => Untouched
  /\ state # "INIT" => StartVcu!VcuInv

(* The definitions of the two instances of VcuLogic agree.                 *)
LEMMA SameStartTop ==
  ASSUME NEW t
  PROVE  /\ Start!Vcu!RunEStop(t) <=> StartVcu!RunEStop(t)
         /\ Start!Vcu!RunCritical(t) <=> StartVcu!RunCritical(t)
         /\ Start!Vcu!RunProceed(t) <=> StartVcu!RunProceed(t)
  BY DEF Start!Vcu!Running, StartVcu!Running, Start!Vcu!Stopped,
         StartVcu!Stopped, Start!Vcu!relayVars, StartVcu!relayVars,
         Start!Vcu!stopVars, StartVcu!stopVars, Start!Vcu!HasCriticalCondition,
         StartVcu!HasCriticalCondition, Start!Vcu!TransitionTo,
         StartVcu!TransitionTo, Start!Vcu!StartCycle, StartVcu!StartCycle,
         Start!Vcu!RunEStop, StartVcu!RunEStop, Start!Vcu!RunCritical,
         StartVcu!RunCritical, Start!Vcu!RunProceed, StartVcu!RunProceed

LEMMA SameStartPoll == Start!Vcu!RunPoll <=> StartVcu!RunPoll
  BY DEF Start!Vcu!Running, StartVcu!Running, Start!Vcu!Stopped,
         StartVcu!Stopped, Start!Vcu!relayVars, StartVcu!relayVars,
         Start!Vcu!stopVars, StartVcu!stopVars, Start!Vcu!HasCriticalCondition,
         StartVcu!HasCriticalCondition, Start!Vcu!IsResetInterlockSatisfied,
         StartVcu!IsResetInterlockSatisfied, Start!Vcu!AllOn, StartVcu!AllOn,
         Start!Vcu!AllOff, StartVcu!AllOff, Start!Vcu!TransitionTo,
         StartVcu!TransitionTo, Start!Vcu!Elapsed, StartVcu!Elapsed,
         Start!Vcu!HandleReady, StartVcu!HandleReady, Start!Vcu!HandleStop,
         StartVcu!HandleStop, Start!Vcu!PeriodicHandler,
         StartVcu!PeriodicHandler, Start!Vcu!AtPoll, StartVcu!AtPoll,
         Start!Vcu!Receive, StartVcu!Receive, Start!Vcu!PollEmpty,
         StartVcu!PollEmpty, Start!Vcu!PollFault, StartVcu!PollFault,
         Start!Vcu!PollResetAccepted, StartVcu!PollResetAccepted,
         Start!Vcu!PollResetRejected, StartVcu!PollResetRejected,
         Start!Vcu!PollStart, StartVcu!PollStart, Start!Vcu!PollDriveEnable,
         StartVcu!PollDriveEnable, Start!Vcu!PollIgnored, StartVcu!PollIgnored,
         Start!Vcu!RunPoll, StartVcu!RunPoll

LEMMA SameStartPosts ==
  /\ \A e : Start!Vcu!PostEvent(e) <=> StartVcu!PostEvent(e)
  /\ Start!Vcu!PostEStop <=> StartVcu!PostEStop
  BY DEF Start!Vcu!relayVars, StartVcu!relayVars, Start!Vcu!stopVars,
         StartVcu!stopVars, Start!Vcu!PostEvent, StartVcu!PostEvent,
         Start!Vcu!PostEStop, StartVcu!PostEStop

LEMMA SameStartInvariants ==
  /\ Start!Vcu!TypeOK <=> StartVcu!TypeOK
  /\ Start!Vcu!DriveIsHealthy <=> StartVcu!DriveIsHealthy
  /\ Start!Vcu!OpenedMeansOpen <=> StartVcu!OpenedMeansOpen
  /\ Start!Vcu!ArmedMeansEnergised <=> StartVcu!ArmedMeansEnergised
  BY DEF Start!Vcu!Telemetry, StartVcu!Telemetry, Start!Vcu!Running,
         StartVcu!Running, Start!Vcu!Stopped, StartVcu!Stopped,
         Start!Vcu!VcuState, StartVcu!VcuState, Start!Vcu!VcuEvent,
         StartVcu!VcuEvent, Start!Vcu!HasCriticalCondition,
         StartVcu!HasCriticalCondition, Start!Vcu!TypeOK, StartVcu!TypeOK,
         Start!Vcu!DriveIsHealthy, StartVcu!DriveIsHealthy,
         Start!Vcu!OpenedMeansOpen, StartVcu!OpenedMeansOpen,
         Start!Vcu!ArmedMeansEnergised, StartVcu!ArmedMeansEnergised

LEMMA StartVcuAssumed ==
  ASSUME Start!StartAssumption
  PROVE  StartVcu!VcuAssumption
<1>1. /\ QueueCap \in Nat \ {0} /\ TaskPeriodMs \in Nat \ {0} /\ OpenDelayMs \in Nat
      /\ ReassertMs \in Nat \ {0}
      /\ TimerMod \in Nat /\ TimerMod > TaskPeriodMs + ReassertMs
      /\ CriticalMinDeciV \in Nat /\ CriticalMaxDeciV \in Nat
      /\ Snapshots \subseteq Start!Vcu!Telemetry
  BY DEF Start!StartAssumption, Start!Vcu!VcuAssumption
<1>2. Start!Vcu!NoTelemetry \in Start!Vcu!Telemetry
  BY DEF Start!Vcu!NoTelemetry, Start!Vcu!Telemetry
<1>3. Start!Vcu!Telemetry = StartVcu!Telemetry
  BY DEF Start!Vcu!Telemetry, StartVcu!Telemetry
<1>4. QED
  BY ONLY <1>1, <1>2, <1>3 DEF StartVcu!VcuAssumption

(* A step of VcuLogic keeps its invariant once INIT is left.               *)
LEMMA RunningSafe ==
  ASSUME Start!StartAssumption, StartVcu!VcuInv,
         [StartVcu!Next]_(StartVcu!vars)
  PROVE  StartVcu!VcuInv'
  BY StartVcuAssumed, StartVcu!VcuInvStep

(* INIT is left with every contactor open and every flag cleared.          *)
LEMMA LeavesInit ==
  ASSUME Start!StartAssumption, Untouched,
         NEW next \in {"IDLE", "FAULT", "EMERGENCY_STOP"},
         Start!Vcu!TransitionTo(next),
         commanded' = FALSE, energised' = {},
         vcuTelemetry' \in Snapshots \cup {Start!Vcu!NoTelemetry},
         eventQueue' \in Seq(Start!Vcu!VcuEvent), Len(eventQueue') <= QueueCap,
         eStopPending' \in BOOLEAN, vcuPc' \in {"top", "poll"}
  PROVE  StartVcu!VcuInv'
<1>1. /\ state' = next /\ stateTimer' = 0
      /\ relaysOpened' = [s \in StartVcu!Stopped |-> FALSE]
      /\ lastLogMs' = [s \in StartVcu!Stopped |->
                         IF s = next THEN TimerMod - ReassertMs ELSE 0]
  BY DEF Start!Vcu!TransitionTo, Untouched, Start!Vcu!Stopped, StartVcu!Stopped
<1>2. /\ TimerMod \in Nat /\ ReassertMs \in Nat \ {0} /\ TimerMod > ReassertMs
      /\ Snapshots \cup {Start!Vcu!NoTelemetry} \subseteq StartVcu!Telemetry
  BY StartVcuAssumed DEF StartVcu!VcuAssumption
<1>3. lastLogMs' \in [StartVcu!Stopped -> 0 .. TimerMod - 1]
  BY <1>1, <1>2
<1>4. StartVcu!TypeOK'
  BY <1>1, <1>2, <1>3
  DEF StartVcu!TypeOK, StartVcu!VcuState, StartVcu!Running, StartVcu!Stopped,
      StartVcu!VcuEvent, Start!Vcu!VcuEvent
<1>5. /\ StartVcu!HealthInv' /\ StartVcu!OpenedMeansOpen'
      /\ StartVcu!ArmedMeansEnergised'
  BY <1>1
  DEF StartVcu!HealthInv, StartVcu!DriveIsHealthy, StartVcu!OpenedMeansOpen,
      StartVcu!ArmedMeansEnergised
<1>6. QED
  BY <1>4, <1>5 DEF StartVcu!VcuInv

(* What the start and its tasks leave alone.                               *)
LEMMA OthersSafe ==
  ASSUME Start!StartAssumption, VehicleSafe, Start!vcuVars' = Start!vcuVars,
         SeenInv', state = "INIT" => "mutex" \notin have',
         step' \in {"relays", "vcu"} => step \in {"relays", "vcu"},
         vcuTask' => step' = "done"
  PROVE  VehicleSafe'
<1>1. UNCHANGED <<state, stateTimer, eventQueue, eStopPending, vcuTelemetry,
                  relaysOpened, lastLogMs, commanded, energised, vcuPc>>
  BY DEF Start!vcuVars
<1>2. state # "INIT" => StartVcu!VcuInv'
  <2> SUFFICES ASSUME state # "INIT" PROVE StartVcu!VcuInv'
    OBVIOUS
  <2>1. StartVcu!VcuInv
    BY DEF VehicleSafe
  <2>2. UNCHANGED StartVcu!vars
    BY <1>1 DEF StartVcu!vars
  <2>3. QED
    BY <2>1, <2>2, RunningSafe
<1>3. QED
  BY <1>1, <1>2 DEF VehicleSafe, Untouched

LEMMA NothingSafe ==
  ASSUME Start!StartAssumption, VehicleSafe, UNCHANGED Start!vars
  PROVE  VehicleSafe'
<1>1. /\ Start!vcuVars' = Start!vcuVars
      /\ UNCHANGED <<step, have, vcuTask, mailbox>>
  BY DEF Start!vars, Start!taskVars
<1>2. SeenInv'
  BY <1>1 DEF VehicleSafe, SeenInv, Start!vcuVars
<1>3. state = "INIT" => "mutex" \notin have'
  BY <1>1 DEF VehicleSafe, Untouched
<1>4. vcuTask' => step' = "done"
  BY <1>1 DEF VehicleSafe
<1>5. QED
  BY <1>1, <1>2, <1>3, <1>4, OthersSafe

(* The steps of app_main.                                                  *)
LEMMA MainSafe ==
  ASSUME Start!StartAssumption, VehicleSafe, Start!Main
  PROVE  VehicleSafe'
<1>1. CASE Start!RelayBegin \/ Start!CreateMailbox
  <2>1. /\ Start!vcuVars' = Start!vcuVars /\ mailbox' = mailbox
        /\ have' \in {have, have \cup {"relays"}, have \cup {"mailbox"}}
        /\ step' \in {"relays", "vcu"} => step \in {"relays", "vcu"}
        /\ step # "done" /\ vcuTask' = vcuTask
    BY <1>1 DEF Start!RelayBegin, Start!CreateMailbox, Start!taskVars
  <2>2. SeenInv'
    BY <2>1 DEF VehicleSafe, SeenInv, Start!vcuVars
  <2>3. state = "INIT" => "mutex" \notin have'
    BY <2>1 DEF VehicleSafe, Untouched
  <2>4. vcuTask' => step' = "done"
    BY <2>1 DEF VehicleSafe
  <2>5. QED
    BY <2>1, <2>2, <2>3, <2>4, OthersSafe
<1>2. CASE Start!CreateCan \/ Start!CreateHmi \/ Start!CreateVcu
  <2>1. /\ Start!vcuVars' = Start!vcuVars /\ mailbox' = mailbox /\ have' = have
        /\ step' \notin {"relays", "vcu"} /\ step # "done"
        /\ vcuTask' = vcuTask \/ step' = "done"
    BY <1>2 DEF Start!CreateCan, Start!CreateHmi, Start!CreateVcu
  <2>2. SeenInv'
    BY <2>1 DEF VehicleSafe, SeenInv, Start!vcuVars
  <2>3. state = "INIT" => "mutex" \notin have'
    BY <2>1 DEF VehicleSafe, Untouched
  <2>4. vcuTask' => step' = "done"
    BY <2>1 DEF VehicleSafe
  <2>5. QED
    BY <2>1, <2>2, <2>3, <2>4, OthersSafe
<1>3. CASE Start!VcuInit
  <2>1. /\ step = "vcu" /\ step' = "mailbox" /\ UNCHANGED <<vcuTask, mailbox>>
        /\ state = "INIT" /\ Untouched /\ vcuTask # TRUE
    BY <1>3 DEF Start!VcuInit, Start!taskVars, VehicleSafe
  <2>2. CASE Start!vcuVars' = Start!vcuVars /\ have' \in {have, have \cup {"queue"}}
    <3>1. SeenInv'
      BY <2>1, <2>2 DEF VehicleSafe, SeenInv, Start!vcuVars
    <3>2. QED
      BY <2>1, <2>2, <3>1, OthersSafe DEF VehicleSafe, Untouched
  <2>3. CASE /\ Start!Vcu!AllOff /\ Start!Vcu!TransitionTo("IDLE")
             /\ UNCHANGED <<eventQueue, eStopPending, vcuTelemetry, vcuPc>>
    <3>1. commanded' = FALSE /\ energised' = {}
      BY <2>1, <2>3 DEF Start!Vcu!AllOff, Untouched
    <3>2. StartVcu!VcuInv'
      BY <2>1, <2>3, <3>1, LeavesInit DEF Untouched
    <3>3. state' = "IDLE"
      BY <2>3 DEF Start!Vcu!TransitionTo
    <3>4. QED
      BY <2>1, <2>3, <3>2, <3>3 DEF VehicleSafe, SeenInv
  <2>4. QED
    BY <1>3, <2>2, <2>3 DEF Start!VcuInit
<1>4. QED
  BY <1>1, <1>2, <1>3 DEF Start!Main

(* Receiving shortens the queue.                                           *)
LEMMA QueueShrinks ==
  ASSUME NEW S, NEW q \in Seq(S), q # <<>>, NEW cap \in Nat, Len(q) <= cap
  PROVE  Tail(q) \in Seq(S) /\ Len(Tail(q)) <= cap
  OBVIOUS

(* What a task posts waits in the queue.                                   *)
LEMMA PostSafe ==
  ASSUME Start!StartAssumption, VehicleSafe,
         \/ \E e \in Start!Vcu!VcuEvent : Start!Vcu!PostEvent(e)
         \/ Start!Vcu!PostEStop,
         UNCHANGED <<step, have, vcuTask, mailbox>>
  PROVE  VehicleSafe'
<1>1. CASE state = "INIT"
  <2>1. Untouched /\ QueueCap \in Nat
    BY <1>1, StartVcuAssumed DEF VehicleSafe, StartVcu!VcuAssumption
  <2>2. /\ eventQueue' \in Seq(Start!Vcu!VcuEvent) /\ Len(eventQueue') <= QueueCap
        /\ eStopPending' \in BOOLEAN
    <3>1. CASE Start!Vcu!PostEStop
      BY <2>1, <3>1 DEF Start!Vcu!PostEStop, Untouched
    <3>2. ASSUME NEW e \in Start!Vcu!VcuEvent, Start!Vcu!PostEvent(e)
          PROVE  /\ eventQueue' \in Seq(Start!Vcu!VcuEvent)
                 /\ Len(eventQueue') <= QueueCap /\ eStopPending' \in BOOLEAN
      <4>1. /\ eventQueue' = IF Len(eventQueue) < QueueCap
                             THEN Append(eventQueue, e) ELSE eventQueue
            /\ eStopPending' = eStopPending
        BY <3>2 DEF Start!Vcu!PostEvent
      <4>2. eventQueue \in Seq(Start!Vcu!VcuEvent) /\ eStopPending \in BOOLEAN
            /\ Len(eventQueue) <= QueueCap
        BY <2>1 DEF Untouched
      <4>3. QED
        BY ONLY <2>1, <3>2, <4>1, <4>2
    <3>3. QED
      BY <3>1, <3>2
  <2>3. UNCHANGED <<state, stateTimer, vcuTelemetry, relaysOpened, lastLogMs,
                    commanded, energised, vcuPc>>
    BY DEF Start!Vcu!PostEvent, Start!Vcu!PostEStop, Start!Vcu!relayVars,
           Start!Vcu!stopVars
  <2>4. QED
    BY <1>1, <2>1, <2>2, <2>3 DEF VehicleSafe, Untouched, SeenInv
<1>2. CASE state # "INIT"
  <2>1. StartVcu!Next
    BY SameStartPosts DEF StartVcu!Next, StartVcu!VcuEvent, Start!Vcu!VcuEvent
  <2>2. StartVcu!VcuInv'
    BY <1>2, <2>1, RunningSafe DEF VehicleSafe
  <2>3. UNCHANGED <<state, vcuTelemetry>>
    BY DEF Start!Vcu!PostEvent, Start!Vcu!PostEStop
  <2>4. QED
    BY <1>2, <2>2, <2>3 DEF VehicleSafe, SeenInv
<1>3. QED
  BY <1>1, <1>2

(* The first half of a cycle, in INIT and after.                           *)
LEMMA TopSafe ==
  ASSUME Start!StartAssumption, VehicleSafe, Start!VcuTop
  PROVE  VehicleSafe'
<1>1. PICK t \in Start!Seen :
        Start!Vcu!RunEStop(t) \/ Start!Vcu!RunCritical(t) \/ Start!Vcu!RunProceed(t)
  BY DEF Start!VcuTop
<1>2. /\ t \in Snapshots \cup {Start!Vcu!NoTelemetry}
      /\ state = "INIT" => t = Start!Vcu!NoTelemetry
  BY <1>1 DEF Start!Seen, VehicleSafe, SeenInv, Untouched
<1>3. vcuTask /\ UNCHANGED <<step, have, vcuTask, mailbox>> /\ step = "done"
  BY DEF Start!VcuTop, Start!taskVars, VehicleSafe
<1>4. vcuTelemetry' = t
  BY <1>1 DEF Start!Vcu!RunEStop, Start!Vcu!RunCritical, Start!Vcu!RunProceed,
              Start!Vcu!StartCycle
<1>5. CASE state # "INIT"
  <2>1. StartVcu!Next
    BY <1>1, <1>2, SameStartTop DEF StartVcu!Next, StartVcu!RunTop
  <2>2. StartVcu!VcuInv'
    BY <1>5, <2>1, RunningSafe DEF VehicleSafe
  <2>3. state' # "INIT"
    BY <1>1, <1>5 DEF Start!Vcu!RunEStop, Start!Vcu!RunCritical,
                      Start!Vcu!RunProceed, Start!Vcu!TransitionTo
  <2>4. QED
    BY <1>2, <1>3, <1>4, <2>2, <2>3 DEF VehicleSafe, SeenInv
<1>6. CASE state = "INIT"
  <2>1. Untouched
    BY <1>6 DEF VehicleSafe
  <2>2. CASE Start!Vcu!RunEStop(t)
    <3>1. /\ Start!Vcu!TransitionTo("EMERGENCY_STOP") /\ state' = "EMERGENCY_STOP"
          /\ eventQueue' = eventQueue /\ eStopPending' = FALSE /\ vcuPc' = "top"
          /\ commanded' = FALSE /\ energised' = {}
      BY <2>1, <2>2 DEF Start!Vcu!RunEStop, Start!Vcu!StartCycle, Untouched,
                        Start!Vcu!TransitionTo, Start!Vcu!relayVars
    <3>2. StartVcu!VcuInv'
      BY <1>2, <1>4, <2>1, <3>1, LeavesInit DEF Untouched
    <3>3. QED
      BY <1>2, <1>3, <1>4, <3>1, <3>2 DEF VehicleSafe, SeenInv
  <2>3. CASE Start!Vcu!RunProceed(t)
    <3>1. stateTimer' \in 0 .. TimerMod - 1
      <4>1. TaskPeriodMs \in Int /\ TimerMod \in Int /\ stateTimer \in Int
        BY <2>1, StartVcuAssumed DEF StartVcu!VcuAssumption, Untouched
      <4>2. stateTimer + TaskPeriodMs \in Int
        BY <4>1
      <4>3. (stateTimer + TaskPeriodMs) % TimerMod \in 0 .. TimerMod - 1
        BY <4>2, StartVcuAssumed, StartVcu!TimerRange
      <4>4. QED
        BY <2>3, <4>3 DEF Start!Vcu!RunProceed
    <3>2. /\ state' = "INIT" /\ vcuPc' = "poll" /\ eStopPending' = FALSE
          /\ UNCHANGED <<eventQueue, relaysOpened, lastLogMs, commanded, energised>>
      BY <1>6, <2>3 DEF Start!Vcu!RunProceed, Start!Vcu!StartCycle,
                        Start!Vcu!relayVars, Start!Vcu!stopVars
    <3>3. QED
      BY <1>2, <1>3, <1>4, <1>6, <2>1, <3>1, <3>2 DEF VehicleSafe, SeenInv, Untouched
  <2>4. ~ Start!Vcu!RunCritical(t)
    BY <1>6 DEF Start!Vcu!RunCritical, Start!Vcu!Running
  <2>5. QED
    BY <1>1, <2>2, <2>3, <2>4
<1>7. QED
  BY <1>5, <1>6

(* The second half.                                                        *)
LEMMA PollSafe ==
  ASSUME Start!StartAssumption, VehicleSafe, Start!VcuPoll
  PROVE  VehicleSafe'
<1>1. /\ vcuTask /\ UNCHANGED <<step, have, vcuTask, mailbox>> /\ step = "done"
      /\ Start!InitPoll \/ Start!Vcu!RunPoll
  BY DEF Start!VcuPoll, Start!taskVars, VehicleSafe
<1>2. vcuTelemetry' = vcuTelemetry
  BY <1>1 DEF Start!InitPoll, Start!Vcu!RunPoll, Start!Vcu!PollEmpty,
     Start!Vcu!PollFault, Start!Vcu!PollResetAccepted, Start!Vcu!PollResetRejected,
     Start!Vcu!PollStart, Start!Vcu!PollDriveEnable, Start!Vcu!PollIgnored,
     Start!Vcu!Receive, Start!Vcu!AtPoll
<1>3. CASE state # "INIT"
  <2>1. Start!Vcu!RunPoll
    BY <1>1, <1>3 DEF Start!InitPoll
  <2>2. StartVcu!VcuInv'
    BY <1>3, <2>1, SameStartPoll, RunningSafe DEF VehicleSafe, StartVcu!Next
  <2>3. state' # "INIT"
    BY <2>2 DEF StartVcu!VcuInv, StartVcu!TypeOK, StartVcu!VcuState,
                StartVcu!Running, StartVcu!Stopped
  <2>4. QED
    BY <1>1, <1>2, <2>2, <2>3 DEF VehicleSafe, SeenInv
<1>4. CASE state = "INIT"
  <2>1. Untouched
    BY <1>4 DEF VehicleSafe
  <2>2. CASE Start!InitPoll
    <3>1. /\ vcuPc' = "top" /\ eStopPending' = eStopPending
          /\ UNCHANGED <<state, stateTimer, relaysOpened, lastLogMs, commanded, energised>>
          /\ eventQueue' = eventQueue \/ (eventQueue # <<>> /\ eventQueue' = Tail(eventQueue))
      BY <2>2 DEF Start!InitPoll, Start!Vcu!AtPoll
    <3>2. eventQueue' \in Seq(Start!Vcu!VcuEvent) /\ Len(eventQueue') <= QueueCap
      BY <2>1, <3>1, QueueShrinks, StartVcuAssumed
      DEF Untouched, StartVcu!VcuAssumption
    <3>3. QED
      BY <1>1, <1>2, <1>4, <2>1, <3>1, <3>2 DEF VehicleSafe, SeenInv, Untouched
  <2>3. CASE Start!Vcu!PollFault
    <3>1. /\ Start!Vcu!TransitionTo("FAULT") /\ state' = "FAULT"
          /\ vcuPc' = "top" /\ eStopPending' = eStopPending
          /\ commanded' = FALSE /\ energised' = {}
          /\ eventQueue # <<>> /\ eventQueue' = Tail(eventQueue)
      BY <2>1, <2>3 DEF Start!Vcu!PollFault, Start!Vcu!Receive, Start!Vcu!AtPoll,
                        Start!Vcu!TransitionTo, Start!Vcu!relayVars, Untouched
    <3>2. eventQueue' \in Seq(Start!Vcu!VcuEvent) /\ Len(eventQueue') <= QueueCap
      BY <2>1, <3>1, QueueShrinks, StartVcuAssumed
      DEF Untouched, StartVcu!VcuAssumption
    <3>3. vcuTelemetry' \in Snapshots \cup {Start!Vcu!NoTelemetry}
      BY <1>2 DEF VehicleSafe, SeenInv
    <3>4. StartVcu!VcuInv'
      BY <2>1, <3>1, <3>2, <3>3, LeavesInit DEF Untouched
    <3>5. QED
      BY <1>1, <1>2, <3>1, <3>4 DEF VehicleSafe, SeenInv
  <2>4. Start!Vcu!RunPoll => Start!Vcu!PollFault
    BY <1>4 DEF Start!Vcu!RunPoll, Start!Vcu!PollEmpty, Start!Vcu!PollResetAccepted,
       Start!Vcu!PollResetRejected, Start!Vcu!PollStart, Start!Vcu!PollDriveEnable,
       Start!Vcu!PollIgnored, Start!Vcu!PeriodicHandler, Start!Vcu!Running,
       Start!Vcu!Stopped
  <2>5. QED
    BY <1>1, <2>2, <2>3, <2>4
<1>5. QED
  BY <1>3, <1>4

(* Every step of the start keeps the invariant.                            *)
LEMMA VehicleSafeStep ==
  ASSUME Start!StartAssumption, VehicleSafe, [Start!Next]_(Start!vars)
  PROVE  VehicleSafe'
<1>1. CASE Start!CanBegin \/ Start!HmiBegin \/ Start!CanPublish
  <2>1. /\ Start!vcuVars' = Start!vcuVars
        /\ UNCHANGED <<step, have, vcuTask>>
        /\ mailbox' = mailbox \/ \E t \in Snapshots : mailbox' = {t}
    BY <1>1 DEF Start!CanBegin, Start!HmiBegin, Start!CanPublish, Start!taskVars
  <2>2. SeenInv'
    BY <2>1 DEF VehicleSafe, SeenInv, Start!vcuVars
  <2>3. state = "INIT" => "mutex" \notin have'
    BY <2>1 DEF VehicleSafe, Untouched
  <2>4. vcuTask' => step' = "done"
    BY <2>1 DEF VehicleSafe
  <2>5. QED
    BY <2>1, <2>2, <2>3, <2>4, OthersSafe
<1>2. CASE Start!CanFault \/ Start!HmiCommand
  <2>1. UNCHANGED <<step, have, vcuTask, mailbox>>
    BY <1>2 DEF Start!CanFault, Start!HmiCommand, Start!taskVars
  <2>2. \/ \E e \in Start!Vcu!VcuEvent : Start!Vcu!PostEvent(e)
        \/ Start!Vcu!PostEStop
        \/ UNCHANGED Start!vars
    BY <1>2 DEF Start!CanFault, Start!HmiCommand, Start!Post, Start!PostEStop,
                Start!Command, Start!Vcu!VcuEvent, Start!vars, Start!taskVars
  <2>3. CASE UNCHANGED Start!vars
    BY <2>3, NothingSafe
  <2>4. QED
    BY <2>1, <2>2, <2>3, PostSafe
<1>3. CASE UNCHANGED Start!vars
  BY <1>3, NothingSafe
<1>4. QED
  BY <1>1, <1>2, <1>3, MainSafe, TopSafe, PollSafe DEF Start!Next

(* The start and its tasks keep their own variables in their types; the    *)
(* panel is never tried once more than HmiTries times.                     *)
TaskTypes ==
  /\ step \in {"relays", "vcu", "mailbox", "can", "hmi", "vcuTask", "done",
               "returned"}
  /\ have \subseteq {"relays", "queue", "mutex", "mailbox"}
  /\ can \in {"none", "begin", "run", "deleted"}
  /\ hmi \in {"none", "begin", "run", "degraded"}
  /\ tries \in 0 .. HmiTries /\ vcuTask \in BOOLEAN
  /\ hmi \in {"none", "begin"} => tries < HmiTries

LEMMA TaskTypesStep ==
  ASSUME Start!StartAssumption, StartInv, TaskTypes, [Start!Next]_(Start!vars)
  PROVE  TaskTypes'
<1>0. HmiTries \in Nat \ {0}
  BY DEF Start!StartAssumption
<1>1. CASE Start!RelayBegin \/ Start!CreateMailbox \/ Start!VcuInit
  BY <1>1 DEF TaskTypes, Start!RelayBegin, Start!CreateMailbox, Start!VcuInit,
              Start!taskVars
<1>2. CASE Start!CreateCan \/ Start!CreateVcu
  BY <1>2 DEF TaskTypes, Start!CreateCan, Start!CreateVcu
<1>3. CASE Start!CreateHmi
  BY <1>3 DEF TaskTypes, StartInv, Start!CreateHmi
<1>4. CASE Start!HmiBegin
  BY <1>0, <1>4 DEF TaskTypes, Start!HmiBegin
<1>5. CASE Start!CanBegin
  BY <1>5 DEF TaskTypes, Start!CanBegin
<1>6. CASE \/ Start!CanPublish \/ Start!CanFault \/ Start!HmiCommand
           \/ Start!VcuTop \/ Start!VcuPoll \/ UNCHANGED Start!vars
  <2>1. UNCHANGED <<step, have, can, hmi, tries, vcuTask>>
    BY <1>6 DEF Start!CanPublish, Start!CanFault, Start!HmiCommand, Start!VcuTop,
                Start!VcuPoll, Start!vars, Start!taskVars
  <2>2. QED
    BY <2>1 DEF TaskTypes
<1>7. QED
  BY <1>1, <1>2, <1>3, <1>4, <1>5, <1>6 DEF Start!Next, Start!Main

(* The three parts of the invariant together.                              *)
LEMMA StartInductive ==
  ASSUME Start!StartAssumption
  PROVE  Start!Spec => [](StartInv /\ VehicleSafe /\ TaskTypes)
<1>1. Start!Init => StartInv /\ VehicleSafe /\ TaskTypes
  <2> SUFFICES ASSUME Start!Init PROVE StartInv /\ VehicleSafe /\ TaskTypes
    OBVIOUS
  <2>1. /\ TimerMod \in Nat \ {0} /\ QueueCap \in Nat /\ HmiTries \in Nat \ {0}
    BY StartVcuAssumed DEF StartVcu!VcuAssumption, Start!StartAssumption
  <2>2. StartInv
    BY DEF Start!Init, StartInv
  <2>3. Untouched
    <3>1. eventQueue = <<>> /\ stateTimer = 0
      BY DEF Start!Init
    <3>2. /\ eventQueue \in Seq(Start!Vcu!VcuEvent) /\ Len(eventQueue) <= QueueCap
          /\ stateTimer \in 0 .. TimerMod - 1
      BY ONLY <2>1, <3>1
    <3>3. QED
      BY <3>2 DEF Start!Init, Untouched
  <2>4. VehicleSafe
    BY <2>3 DEF Start!Init, VehicleSafe, SeenInv
  <2>5. TaskTypes
    <3>1. 0 \in 0 .. HmiTries /\ 0 < HmiTries
      BY ONLY <2>1
    <3>2. QED
      BY <3>1 DEF Start!Init, TaskTypes
  <2>6. QED
    BY <2>2, <2>4, <2>5
<1>2. StartInv /\ VehicleSafe /\ TaskTypes /\ [Start!Next]_(Start!vars)
        => (StartInv /\ VehicleSafe /\ TaskTypes)'
  BY StartStep, VehicleSafeStep, TaskTypesStep
<1>3. QED
  BY <1>1, <1>2, PTL DEF Start!Spec

(* Every variable of the start keeps its type, those of the state machine  *)
(* too once init has succeeded or a stop has come.                         *)
THEOREM StartTypes ==
  ASSUME Start!StartAssumption PROVE Start!Spec => []Start!TypeOK
<1>1. VehicleSafe /\ TaskTypes => Start!TypeOK
  BY SameStartInvariants
  DEF VehicleSafe, SeenInv, TaskTypes, StartVcu!VcuInv, Start!TypeOK
<1>2. QED
  BY <1>1, StartInductive, PTL

(* What VcuLogic guarantees of the vehicle whose start succeeded holds of  *)
(* every vehicle, however its start failed: without a mutex it decides on  *)
(* zero snapshots and without init it starts from INIT, but it never       *)
(* drives on a snapshot with a critical condition, the open-once flag of a *)
(* stop is never a leftover, and an armed vehicle's contactors are closed. *)
THEOREM StartedVehicleSafe ==
  ASSUME Start!StartAssumption
  PROVE  Start!Spec => []Start!StartedSafe
<1>1. VehicleSafe => Start!StartedSafe
  <2>1. CASE state = "INIT"
    BY <2>1 DEF Start!StartedSafe, Start!Vcu!DriveIsHealthy,
                Start!Vcu!OpenedMeansOpen, Start!Vcu!ArmedMeansEnergised,
                Start!Vcu!Stopped
  <2>2. CASE state # "INIT"
    BY <2>2, SameStartInvariants
    DEF Start!StartedSafe, VehicleSafe, StartVcu!VcuInv, StartVcu!HealthInv
  <2>3. QED
    BY <2>1, <2>2
<1>2. QED
  BY <1>1, StartInductive, PTL

-----------------------------------------------------------------------------
(* What is left of begin() and of a call at any of their transactions.     *)
BeginRest == {Relay!BeginWrites, <<Relay!Olat("B", {}), Relay!Iodir("A"), Relay!Iodir("B")>>,
              <<Relay!Iodir("A"), Relay!Iodir("B")>>, <<Relay!Iodir("B")>>, <<>>}
CallRest == {Relay!Latches(relayState), <<Relay!Olat("B", relayState)>>, <<>>}

Pending(reg, b) == \E i \in 1 .. Len(todo) : todo[i].reg = reg /\ todo[i].bank = b

(* The writes still to be made follow from the stage, and every latch      *)
(* write carries s_relayState.                                             *)
WritesLeft ==
  /\ stage \in {"boot", "halted"} => todo = <<>>
  /\ stage = "begin" => todo \in BeginRest
  /\ stage \in {"init", "run"} => todo \in CallRest
  /\ stage # "run" => relayState = {}

(* A bank whose latch write is behind the call and did not fail holds what *)
(* is commanded; one whose direction write is behind begin() drives its    *)
(* pins or failed.                                                         *)
BanksSettled ==
  stage \in {"begin", "init", "run"} =>
    \A b \in Relay!Banks :
      /\ Pending("OLAT", b) \/ <<"OLAT", b>> \in missed
           \/ \A c \in Relay!Channels : Relay!Bank(c) = b => (c \in low <=> c \in relayState)
      /\ Pending("IODIR", b) \/ <<"IODIR", b>> \in missed \/ b \in outputs

RelayInv == Relay!TypeOK /\ WritesLeft /\ BanksSettled

-----------------------------------------------------------------------------
(* begin() makes four transactions.                                        *)
LEMMA FourWrites ==
  Relay!BeginWrites = <<Relay!Olat("A", {}), Relay!Olat("B", {}), Relay!Iodir("A"), Relay!Iodir("B")>>
<1>1. ASSUME NEW a, NEW b, NEW c, NEW d
      PROVE  <<a, b>> \o <<c, d>> = <<a, b, c, d>>
  <2> DEFINE S == {a, b, c, d}
  <2>1. <<a, b>> \in Seq(S) /\ <<c, d>> \in Seq(S) /\ <<a, b, c, d>> \in Seq(S)
    OBVIOUS
  <2>2. ASSUME NEW i \in 1 .. 4
        PROVE  (<<a, b>> \o <<c, d>>)[i] = <<a, b, c, d>>[i]
    BY <2>1
  <2>3. Len(<<a, b>> \o <<c, d>>) = 4
    BY <2>1
  <2>4. <<a, b>> \o <<c, d>> \in Seq(S)
    BY <2>1
  <2>5. Len(<<a, b, c, d>>) = 4
    OBVIOUS
  <2> HIDE DEF S
  <2>6. QED
    BY <2>1, <2>2, <2>3, <2>4, <2>5, SeqEqual
<1>2. QED
  BY <1>1 DEF Relay!BeginWrites, Relay!Latches

(* What a transaction writes: a latch write carries s_relayState, and a    *)
(* direction write comes in begin() only, after both latches.              *)
LEMMA HeadOfWrites ==
  ASSUME Relay!TypeOK, WritesLeft, todo # <<>>
  PROVE  /\ stage \in {"begin", "init", "run"}
         /\ \/ \E b \in Relay!Banks : Head(todo) = Relay!Olat(b, relayState)
            \/ /\ stage = "begin"
               /\ \E b \in Relay!Banks : Head(todo) = Relay!Iodir(b)
               /\ \A b \in Relay!Banks : ~Pending("OLAT", b)
<1>1. stage \in {"begin", "init", "run"}
  BY DEF Relay!TypeOK, WritesLeft
<1>2. CASE todo \in CallRest
  BY <1>1, <1>2 DEF CallRest, Relay!Latches, Relay!Banks
<1>3. CASE stage = "begin" /\ todo \in BeginRest
  <2>1. relayState = {}
    BY <1>3 DEF WritesLeft
  <2>2. CASE todo = Relay!BeginWrites
    BY <1>1, <2>1, <2>2 DEF Relay!BeginWrites, Relay!Latches, Relay!Banks
  <2>3. CASE todo = <<Relay!Olat("B", {}), Relay!Iodir("A"), Relay!Iodir("B")>>
    BY <1>1, <2>1, <2>3 DEF Relay!Banks
  <2>4. CASE todo \in {<<Relay!Iodir("A"), Relay!Iodir("B")>>, <<Relay!Iodir("B")>>}
    <3>1. \E b \in Relay!Banks : Head(todo) = Relay!Iodir(b)
      BY <2>4 DEF Relay!Banks
    <3>2. \A b \in Relay!Banks : ~Pending("OLAT", b)
      BY <2>4 DEF Pending, Relay!Iodir
    <3>3. QED
      BY <1>1, <1>3, <3>1, <3>2
  <2>5. QED
    BY <1>3, <2>2, <2>3, <2>4 DEF BeginRest
<1>4. QED
  BY <1>1, <1>2, <1>3 DEF WritesLeft

(* The writes of a shorter list are the writes after its head.             *)
LEMMA PendingAfterHead ==
  ASSUME Relay!TypeOK, todo # <<>>, todo' = Tail(todo), NEW reg, NEW b
  PROVE  Pending(reg, b) =>
           Pending(reg, b)' \/ (Head(todo).reg = reg /\ Head(todo).bank = b)
<1>1. todo \in Seq([reg : {"OLAT", "IODIR"}, bank : Relay!Banks, low : SUBSET Relay!Channels])
  BY DEF Relay!TypeOK
<1>2. SUFFICES ASSUME NEW i \in 1 .. Len(todo), todo[i].reg = reg, todo[i].bank = b
               PROVE  Pending(reg, b)' \/ (Head(todo).reg = reg /\ Head(todo).bank = b)
  BY DEF Pending
<1>3. CASE i = 1
  BY <1>1, <1>2, <1>3
<1>4. CASE i # 1
  <2>1. i - 1 \in 1 .. Len(todo') /\ todo'[i - 1] = todo[i]
    BY <1>1, <1>2, <1>4
  <2>2. QED
    BY <1>2, <2>1 DEF Pending
<1>5. QED
  BY <1>3, <1>4

-----------------------------------------------------------------------------
(* Every variable stays in its type, a call to a channel that does not     *)
(* exist included.                                                         *)
THEOREM RelayTypes ==
  ASSUME Relay!RelayAssumption PROVE Relay!Spec => []Relay!TypeOK
<1> DEFINE Write == [reg : {"OLAT", "IODIR"}, bank : Relay!Banks, low : SUBSET Relay!Channels]
<1>1. \A b \in Relay!Banks, on \in SUBSET Relay!Channels : Relay!Olat(b, on) \in Write /\ Relay!Iodir(b) \in Write
  BY DEF Relay!Olat, Relay!Iodir
<1>2. \A on \in SUBSET Relay!Channels : Relay!Latches(on) \in Seq(Write)
  BY <1>1 DEF Relay!Latches, Relay!Banks
<1>3. Relay!BeginWrites \in Seq(Write) /\ <<>> \in Seq(Write)
  BY <1>1, FourWrites DEF Relay!Banks
<1>4. Relay!Init => Relay!TypeOK
  BY <1>3 DEF Relay!Init, Relay!TypeOK
<1>5. Relay!TypeOK /\ [Relay!Next]_(Relay!vars) => Relay!TypeOK'
  <2> SUFFICES ASSUME Relay!TypeOK, [Relay!Next]_(Relay!vars) PROVE Relay!TypeOK'
    OBVIOUS
  <2>1. CASE Relay!Begin
    BY <1>3, <2>1 DEF Relay!TypeOK, Relay!Begin, Relay!chip
  <2>2. CASE Relay!Begun
    BY <1>2, <2>2 DEF Relay!TypeOK, Relay!Begun, Relay!chip
  <2>3. CASE Relay!Started
    BY <2>3 DEF Relay!TypeOK, Relay!Started, Relay!chip
  <2>4. CASE Relay!WriteRegister
    <3>1. todo \in Seq(Write) /\ Head(todo) \in Write /\ todo' \in Seq(Write)
      <4>1. todo \in Seq(Write) /\ todo # <<>> /\ todo' = Tail(todo)
        BY <2>4 DEF Relay!TypeOK, Relay!WriteRegister
      <4>2. QED
        BY <4>1, HeadTailProperties
    <3>2. /\ Head(todo).reg \in {"OLAT", "IODIR"} /\ Head(todo).bank \in Relay!Banks
          /\ Head(todo).low \in SUBSET Relay!Channels
      BY <3>1
    <3>3. low' \in SUBSET Relay!Channels
      BY <2>4, <3>2 DEF Relay!TypeOK, Relay!WriteRegister
    <3>4. outputs' \in SUBSET Relay!Banks /\ missed' \subseteq {"OLAT", "IODIR"} \X Relay!Banks
      BY <2>4, <3>2 DEF Relay!TypeOK, Relay!WriteRegister
    <3>5. QED
      BY <2>4, <3>1, <3>3, <3>4 DEF Relay!TypeOK, Relay!WriteRegister
  <2>5. ASSUME NEW c \in 0 .. RELAY_TOTAL_CHANNELS, NEW on \in BOOLEAN, Relay!SetRelay(c, on)
        PROVE  Relay!TypeOK'
    <3>1. relayState' \in SUBSET Relay!Channels
      BY <2>5 DEF Relay!TypeOK, Relay!SetRelay, Relay!Channels, Relay!RelayAssumption
    <3>2. QED
      BY <1>2, <2>5, <3>1 DEF Relay!TypeOK, Relay!SetRelay, Relay!Call, Relay!chip
  <2>6. CASE Relay!AllOn
    BY <1>2, <2>6 DEF Relay!TypeOK, Relay!AllOn, Relay!Call, Relay!chip
  <2>7. CASE Relay!AllOff
    BY <1>2, <2>7 DEF Relay!TypeOK, Relay!AllOff, Relay!Call, Relay!chip
  <2>8. CASE Relay!EspReset
    BY <1>3, <2>8 DEF Relay!TypeOK, Relay!EspReset, Relay!Boot, Relay!chip
  <2>9. CASE Relay!PowerCycle
    BY <1>3, <2>9 DEF Relay!TypeOK, Relay!PowerCycle, Relay!Boot
  <2>10. CASE UNCHANGED Relay!vars
    BY <2>10 DEF Relay!TypeOK, Relay!vars, Relay!chip
  <2>11. QED
    BY <2>1, <2>2, <2>3, <2>4, <2>5, <2>6, <2>7, <2>8, <2>9, <2>10 DEF Relay!Next
<1>6. QED
  BY <1>4, <1>5, PTL DEF Relay!Spec

(* The writes left keep their shape.                                       *)
LEMMA WritesStep ==
  ASSUME Relay!TypeOK, WritesLeft, [Relay!Next]_(Relay!vars)
  PROVE  WritesLeft'
<1> USE DEF WritesLeft
<1>1. CASE Relay!Begin
  BY <1>1 DEF Relay!Begin, BeginRest
<1>2. CASE Relay!Begun
  BY <1>2 DEF Relay!Begun, CallRest
<1>3. CASE Relay!Started
  BY <1>3 DEF Relay!Started, CallRest
<1>4. CASE Relay!WriteRegister
  <2>1. stage' = stage /\ relayState' = relayState /\ todo' = Tail(todo) /\ todo # <<>>
    BY <1>4 DEF Relay!WriteRegister
  <2>2. todo \in CallRest => todo' \in {<<Relay!Olat("B", relayState)>>, <<>>}
    <3>1. CASE todo = Relay!Latches(relayState)
      BY <2>1, <3>1 DEF Relay!Latches
    <3>2. CASE todo = <<Relay!Olat("B", relayState)>>
      BY <2>1, <3>2
    <3>3. QED
      BY <2>1, <3>1, <3>2 DEF CallRest
  <2>3. todo \in BeginRest => todo' \in BeginRest
    <3>2. CASE todo = Relay!BeginWrites
      BY <2>1, <3>2, FourWrites DEF BeginRest
    <3>3. CASE todo = <<Relay!Olat("B", {}), Relay!Iodir("A"), Relay!Iodir("B")>>
      BY <2>1, <3>3 DEF BeginRest
    <3>4. CASE todo = <<Relay!Iodir("A"), Relay!Iodir("B")>>
      BY <2>1, <3>4 DEF BeginRest
    <3>5. CASE todo = <<Relay!Iodir("B")>>
      BY <2>1, <3>5 DEF BeginRest
    <3>6. QED
      BY <2>1, <3>2, <3>3, <3>4, <3>5 DEF BeginRest
  <2>4. QED
    BY <2>1, <2>2, <2>3 DEF CallRest
<1>5. ASSUME NEW c \in 0 .. RELAY_TOTAL_CHANNELS, NEW on \in BOOLEAN, Relay!SetRelay(c, on)
      PROVE  WritesLeft'
  BY <1>5 DEF Relay!SetRelay, Relay!Call, CallRest
<1>6. CASE Relay!AllOn
  BY <1>6 DEF Relay!AllOn, Relay!Call, CallRest
<1>7. CASE Relay!AllOff
  BY <1>7 DEF Relay!AllOff, Relay!Call, CallRest
<1>8. CASE Relay!EspReset \/ Relay!PowerCycle
  BY <1>8 DEF Relay!EspReset, Relay!PowerCycle, Relay!Boot
<1>9. CASE UNCHANGED Relay!vars
  BY <1>9 DEF Relay!vars, CallRest
<1>10. QED
  BY <1>1, <1>2, <1>3, <1>4, <1>5, <1>6, <1>7, <1>8, <1>9 DEF Relay!Next

(* A call that starts has both latch writes ahead of it.                   *)
LEMMA CallPending ==
  ASSUME NEW on, todo' = Relay!Latches(on) \/ todo' = Relay!BeginWrites
  PROVE  \A b \in Relay!Banks : Pending("OLAT", b)'
<1> USE DEF Relay!Olat
<1>1. Len(todo') \in Nat /\ Len(todo') >= 2
  <2>1. CASE todo' = Relay!Latches(on)
    BY <2>1 DEF Relay!Latches
  <2>2. CASE todo' = Relay!BeginWrites
    BY <2>2, FourWrites
  <2>3. QED
    BY <2>1, <2>2
<1>2. /\ todo'[1].reg = "OLAT" /\ todo'[1].bank = "A"
      /\ todo'[2].reg = "OLAT" /\ todo'[2].bank = "B"
  <2>1. CASE todo' = Relay!Latches(on)
    BY <2>1 DEF Relay!Latches
  <2>2. CASE todo' = Relay!BeginWrites
    BY <2>2, FourWrites
  <2>3. QED
    BY <2>1, <2>2
<1>3. 1 \in 1 .. Len(todo') /\ 2 \in 1 .. Len(todo')
  BY <1>1
<1>4. QED
  BY <1>2, <1>3 DEF Pending, Relay!Banks

(* begin() has both direction writes ahead of it.                          *)
LEMMA BeginPending ==
  ASSUME todo' = Relay!BeginWrites
  PROVE  \A b \in Relay!Banks : Pending("IODIR", b)'
<1>1. todo'[3].reg = "IODIR" /\ todo'[3].bank = "A" /\ 3 \in 1 .. Len(todo')
  BY FourWrites DEF Relay!Iodir
<1>2. todo'[4].reg = "IODIR" /\ todo'[4].bank = "B" /\ 4 \in 1 .. Len(todo')
  BY FourWrites DEF Relay!Iodir
<1>3. QED
  BY <1>1, <1>2 DEF Pending, Relay!Banks

(* A transaction settles its bank or is recorded as missed.                *)
LEMMA WriteSettles ==
  ASSUME Relay!TypeOK, WritesLeft, BanksSettled, Relay!WriteRegister
  PROVE  BanksSettled'
<1>1. /\ todo # <<>> /\ todo' = Tail(todo) /\ stage \in {"begin", "init", "run"}
      /\ UNCHANGED <<stage, relayState>>
  BY HeadOfWrites DEF Relay!WriteRegister
<1> SUFFICES ASSUME NEW b \in Relay!Banks
    PROVE /\ \/ Pending("OLAT", b)' \/ <<"OLAT", b>> \in missed'
             \/ \A c \in Relay!Channels : Relay!Bank(c) = b => (c \in low' <=> c \in relayState)
          /\ Pending("IODIR", b)' \/ <<"IODIR", b>> \in missed' \/ b \in outputs'
  BY <1>1 DEF BanksSettled
<1> DEFINE w == Head(todo)
<1>2. /\ Pending("OLAT", b) => Pending("OLAT", b)' \/ (w.reg = "OLAT" /\ w.bank = b)
      /\ Pending("IODIR", b) => Pending("IODIR", b)' \/ (w.reg = "IODIR" /\ w.bank = b)
  BY <1>1, PendingAfterHead
<1>3. /\ \/ Pending("OLAT", b) \/ <<"OLAT", b>> \in missed
         \/ \A c \in Relay!Channels : Relay!Bank(c) = b => (c \in low <=> c \in relayState)
      /\ Pending("IODIR", b) \/ <<"IODIR", b>> \in missed \/ b \in outputs
  BY <1>1 DEF BanksSettled
<1>4. CASE \E d \in Relay!Banks : w = Relay!Olat(d, relayState)
  <2>1. PICK d \in Relay!Banks : w = Relay!Olat(d, relayState)
    BY <1>4
  <2>2. w.reg = "OLAT" /\ w.bank = d /\ w.low = relayState
    BY <2>1 DEF Relay!Olat
  <2> HIDE DEF w
  <2>3. CASE missed' = missed \cup {<<w.reg, w.bank>>} /\ UNCHANGED <<low, outputs>>
    BY <1>2, <1>3, <2>2, <2>3
  <2>4. CASE /\ missed' = missed \ {<<w.reg, w.bank>>}
             /\ low' = {c \in low : Relay!Bank(c) # w.bank}
                       \cup {c \in w.low : Relay!Bank(c) = w.bank}
             /\ UNCHANGED outputs
    BY <1>2, <1>3, <2>2, <2>4
  <2>5. QED
    BY <2>2, <2>3, <2>4 DEF Relay!WriteRegister, w
<1>5. CASE \E d \in Relay!Banks : w = Relay!Iodir(d)
  <2>1. PICK d \in Relay!Banks : w = Relay!Iodir(d)
    BY <1>5
  <2>2. w.reg = "IODIR" /\ w.bank = d
    BY <2>1 DEF Relay!Iodir
  <2> HIDE DEF w
  <2>3. CASE missed' = missed \cup {<<w.reg, w.bank>>} /\ UNCHANGED <<low, outputs>>
    BY <1>2, <1>3, <2>2, <2>3
  <2>4. CASE /\ missed' = missed \ {<<w.reg, w.bank>>}
             /\ outputs' = outputs \cup {w.bank} /\ UNCHANGED low
    BY <1>2, <1>3, <2>2, <2>4
  <2>5. QED
    BY <2>2, <2>3, <2>4 DEF Relay!WriteRegister, w
<1>6. QED
  BY <1>1, <1>4, <1>5, HeadOfWrites

(* Every step leaves the banks settled.                                    *)
LEMMA SettledStep ==
  ASSUME Relay!TypeOK, WritesLeft, BanksSettled, [Relay!Next]_(Relay!vars)
  PROVE  BanksSettled'
<1>1. CASE Relay!Begin
  <2>1. CASE stage' = "begin" /\ todo' = Relay!BeginWrites
    BY <2>1, CallPending, BeginPending DEF BanksSettled
  <2>2. CASE stage' = "halted"
    BY <2>2 DEF BanksSettled
  <2>3. QED
    BY <1>1, <2>1, <2>2 DEF Relay!Begin
<1>2. ASSUME NEW on, todo' = Relay!Latches(on), UNCHANGED Relay!chip, todo = <<>>,
             stage \in {"begin", "init", "run"}
      PROVE  BanksSettled'
  <2>1. \A b \in Relay!Banks : Pending("OLAT", b)'
    BY <1>2, CallPending
  <2>2. \A b \in Relay!Banks : ~Pending("IODIR", b)
    BY <1>2 DEF Pending
  <2>3. QED
    BY <1>2, <2>1, <2>2 DEF BanksSettled, Relay!chip
<1>3. CASE Relay!Begun
  BY <1>2, <1>3 DEF Relay!Begun
<1>4. CASE Relay!Started
  BY <1>4 DEF Relay!Started, BanksSettled, Pending, Relay!chip
<1>5. CASE Relay!WriteRegister
  BY <1>5, WriteSettles
<1>6. ASSUME NEW c \in 0 .. RELAY_TOTAL_CHANNELS, NEW on \in BOOLEAN, Relay!SetRelay(c, on)
      PROVE  BanksSettled'
  BY <1>2, <1>6 DEF Relay!SetRelay, Relay!Call
<1>7. CASE Relay!AllOn
  BY <1>2, <1>7 DEF Relay!AllOn, Relay!Call
<1>8. CASE Relay!AllOff
  BY <1>2, <1>8 DEF Relay!AllOff, Relay!Call
<1>9. CASE Relay!EspReset \/ Relay!PowerCycle
  BY <1>9 DEF Relay!EspReset, Relay!PowerCycle, Relay!Boot, BanksSettled
<1>10. CASE UNCHANGED Relay!vars
  BY <1>10 DEF Relay!vars, Relay!chip, BanksSettled, Pending
<1>11. QED
  BY <1>1, <1>3, <1>4, <1>5, <1>6, <1>7, <1>8, <1>9, <1>10 DEF Relay!Next

(* The inductive invariant: what is left to be written and what the banks  *)
(* hold, in every stage.                                                   *)
THEOREM RelayInductive ==
  ASSUME Relay!RelayAssumption PROVE Relay!Spec => []RelayInv
<1>1. Relay!Init => WritesLeft /\ BanksSettled
  BY DEF Relay!Init, WritesLeft, BanksSettled
<1>2. Relay!TypeOK /\ WritesLeft /\ BanksSettled /\ [Relay!Next]_(Relay!vars)
        => WritesLeft' /\ BanksSettled'
  BY WritesStep, SettledStep
<1>3. QED
  BY <1>1, <1>2, RelayTypes, PTL DEF Relay!Spec, RelayInv

-----------------------------------------------------------------------------
(* A call that returned has done what it was asked wherever its own latch  *)
(* write came through, whatever went before.                               *)
THEOREM CallsDoneAsCommanded ==
  ASSUME Relay!RelayAssumption PROVE Relay!Spec => []Relay!DoneAsCommanded
<1>1. RelayInv => Relay!DoneAsCommanded
  <2> SUFFICES ASSUME RelayInv, stage = "run", todo = <<>>, NEW c \in Relay!Channels,
                      <<"OLAT", Relay!Bank(c)>> \notin missed
               PROVE  /\ c \in Relay!Energised => c \in relayState
                      /\ c \in relayState =>
                           c \in Relay!Energised \/ <<"IODIR", Relay!Bank(c)>> \in missed
    BY DEF Relay!DoneAsCommanded
  <2>1. Relay!Bank(c) \in Relay!Banks /\ ~Pending("OLAT", Relay!Bank(c)) /\ ~Pending("IODIR", Relay!Bank(c))
    BY DEF Relay!Bank, Relay!Banks, Pending
  <2>2. (c \in low <=> c \in relayState)
        /\ (<<"IODIR", Relay!Bank(c)>> \in missed \/ Relay!Bank(c) \in outputs)
    BY <2>1 DEF RelayInv, BanksSettled
  <2>3. QED
    BY <2>2 DEF Relay!Energised
<1>2. QED
  BY <1>1, RelayInductive, PTL

(* Between any two transactions contactors move only to where they are     *)
(* commanded, but for a bank whose latch write failed in begin().          *)
THEOREM ContactorsMoveAsCommanded ==
  ASSUME Relay!RelayAssumption PROVE Relay!Spec => Relay!MovesAsCommanded
<1> DEFINE Moves ==
      /\ \A c \in Relay!Energised' \ Relay!Energised :
           c \in relayState' \/ (stage = "begin" /\ <<"OLAT", Relay!Bank(c)>> \in missed)
      /\ (Relay!Energised \ Relay!Energised') \cap relayState' = {}
<1>1. RelayInv /\ [Relay!Next]_(Relay!vars) => Moves
  <2> SUFFICES ASSUME RelayInv, [Relay!Next]_(Relay!vars) PROVE Moves
    OBVIOUS
  <2>1. CASE UNCHANGED Relay!chip
    BY <2>1 DEF Relay!chip, Relay!Energised
  <2>2. CASE Relay!EspReset \/ Relay!PowerCycle
    BY <2>2 DEF Relay!EspReset, Relay!PowerCycle, Relay!Boot, Relay!chip, Relay!Energised
  <2>3. CASE Relay!WriteRegister
    <3> DEFINE w == Head(todo)
    <3>1. todo # <<>> /\ Relay!TypeOK /\ WritesLeft /\ relayState' = relayState
      BY <2>3 DEF RelayInv, Relay!WriteRegister
    <3>2. CASE \E d \in Relay!Banks : w = Relay!Olat(d, relayState)
      <4>1. w.reg = "OLAT" /\ w.low = relayState
        BY <3>2 DEF Relay!Olat
      <4> HIDE DEF w
      <4>2. CASE UNCHANGED <<low, outputs>>
        BY <4>2 DEF Relay!Energised
      <4>3. CASE /\ low' = {c \in low : Relay!Bank(c) # w.bank}
                           \cup {c \in w.low : Relay!Bank(c) = w.bank}
                 /\ UNCHANGED outputs
        BY <3>1, <4>1, <4>3 DEF Relay!Energised
      <4>4. QED
        BY <2>3, <4>1, <4>2, <4>3 DEF Relay!WriteRegister, w
    <3>3. CASE /\ stage = "begin" /\ \E d \in Relay!Banks : w = Relay!Iodir(d)
               /\ \A b \in Relay!Banks : ~Pending("OLAT", b)
      <4>1. w.reg = "IODIR" /\ relayState = {}
        BY <3>1, <3>3 DEF Relay!Iodir, WritesLeft
      <4>2. ASSUME NEW c \in low PROVE <<"OLAT", Relay!Bank(c)>> \in missed
        BY <3>1, <3>3, <4>1, <4>2 DEF RelayInv, BanksSettled, Relay!TypeOK, Relay!Bank, Relay!Banks
      <4> HIDE DEF w
      <4>3. UNCHANGED low
        BY <2>3, <4>1 DEF Relay!WriteRegister, w
      <4>4. QED
        BY <3>1, <3>3, <4>1, <4>2, <4>3 DEF Relay!Energised
    <3>4. QED
      BY <3>1, <3>2, <3>3, HeadOfWrites
  <2>4. QED
    BY <2>1, <2>2, <2>3 DEF Relay!Next, Relay!Begin, Relay!Begun, Relay!Started, Relay!SetRelay, Relay!AllOn, Relay!AllOff, Relay!Call,
       Relay!vars, Relay!chip
<1>2. QED
  BY <1>1, RelayInductive, PTL DEF Relay!Spec, Relay!MovesAsCommanded

-----------------------------------------------------------------------------
(* BmsAlgo: the pass over the cells.  Its recursive functions are reasoned *)
(* about by induction in the form of a least natural: MaxIndex and SumMv   *)
(* choose a function that satisfies their equations, so each needs that    *)
(* one exists and what every such function returns.                        *)

(* A set of naturals that is not empty has a least one: the form in which  *)
(* the proofs below use induction.                                         *)
LEMMA LeastNatural ==
  ASSUME NEW T \in SUBSET Nat, T # {}
  PROVE  \E m \in T : \A k \in T : m <= k
<1> DEFINE R == OpToRel(<, Nat)
<1>1. IsWellFoundedOn(R, Nat)
  BY NatLessThanWellFounded, Zenon
<1>2. \A i, j \in Nat : i < j => <<i, j>> \in R
  BY DEF OpToRel
<1> HIDE DEF R
<1>3. PICK m \in T : \A k \in T : ~ (<<k, m>> \in R)
  BY <1>1, WFMin
<1>4. \A k \in T : ~ (k < m)
  BY <1>2, <1>3
<1>5. QED
  BY <1>4

(* Induction up to a bound, for a set.                                     *)
LEMMA UpTo ==
  ASSUME NEW a \in Nat, NEW b \in Nat, NEW S, a \in S,
         \A n \in a .. b - 1 : n \in S => n + 1 \in S
  PROVE  \A n \in a .. b : n \in S
<1> DEFINE T == (a .. b) \ S
<1> SUFFICES ASSUME T # {} PROVE FALSE
  OBVIOUS
<1>1. T \in SUBSET Nat
  OBVIOUS
<1> HIDE DEF T
<1>2. PICK m \in T : \A k \in T : m <= k
  BY <1>1, LeastNatural
<1>3. m \in a .. b /\ m \notin S /\ m # a
  BY <1>2 DEF T
<1>4. m - 1 \in a .. b - 1 /\ m - 1 \in S
  BY <1>2, <1>3 DEF T
<1>5. QED
  BY <1>3, <1>4

(* The recursion over the cells that MaxIndex is.                          *)
IsBest(best, f, m) ==
  best = [n \in 1 .. m |->
            IF n = 1 THEN 0
            ELSE IF f[n - 1] > f[best[n - 1]] THEN n - 1 ELSE best[n - 1]]

LEMMA BestExists ==
  ASSUME N \in Nat \ {0}, NEW f
  PROVE  \E best : IsBest(best, f, N)
<1> DEFINE S == {m \in 1 .. N : \E best : IsBest(best, f, m)}
<1>1. 1 \in S
  <2>1. IsBest([n \in 1 .. 1 |-> 0], f, 1)
    BY DEF IsBest
  <2>2. QED
    BY <2>1
<1>2. ASSUME NEW m \in 1 .. N - 1, m \in S PROVE m + 1 \in S
  <2>1. PICK g : IsBest(g, f, m)
    BY <1>2
  <2> DEFINE next == IF f[m] > f[g[m]] THEN m ELSE g[m]
             h == [n \in 1 .. m + 1 |-> IF n = m + 1 THEN next ELSE g[n]]
  <2>2. \A n \in 1 .. m : g[n] = IF n = 1 THEN 0
                                 ELSE IF f[n - 1] > f[g[n - 1]] THEN n - 1 ELSE g[n - 1]
    BY <2>1 DEF IsBest
  <2>3. ASSUME NEW n \in 1 .. m + 1
        PROVE  h[n] = IF n = 1 THEN 0
                      ELSE IF f[n - 1] > f[h[n - 1]] THEN n - 1 ELSE h[n - 1]
    <3>1. CASE n = m + 1
      <4>1. h[n] = next /\ n # 1 /\ n - 1 = m /\ h[n - 1] = g[m]
        BY <3>1
      <4>2. QED
        BY <4>1
    <3>2. CASE n # m + 1
      <4>1. h[n] = g[n] /\ n \in 1 .. m
        BY <3>2
      <4>2. n # 1 => h[n - 1] = g[n - 1]
        BY <3>2
      <4>3. QED
        BY <2>2, <4>1, <4>2
    <3>3. QED
      BY <3>1, <3>2
  <2>4. h = [n \in 1 .. m + 1 |-> h[n]]
    OBVIOUS
  <2> HIDE DEF h
  <2>5. IsBest(h, f, m + 1)
    BY <2>3, <2>4 DEF IsBest
  <2>6. QED
    BY <2>5
<1> HIDE DEF S
<1>3. \A m \in 1 .. N : m \in S
  BY <1>1, <1>2, UpTo
<1>4. QED
  BY <1>3 DEF S

(* MaxIndex names a cell with the largest value, MinIndex one with the     *)
(* smallest.                                                               *)
LEMMA MaxIndexIs ==
  ASSUME N \in Nat \ {0}, NEW f \in [Bms!Cell -> Int]
  PROVE  /\ Bms!MaxIndex(f) \in Bms!Cell
         /\ \A i \in Bms!Cell : f[i] <= f[Bms!MaxIndex(f)]
<1> DEFINE best == CHOOSE b : IsBest(b, f, N)
<1>1. IsBest(best, f, N)
  BY BestExists
<1>2. Bms!MaxIndex(f) = best[N]
  BY DEF Bms!MaxIndex, IsBest
<1> HIDE DEF best
<1>3. \A n \in 1 .. N : best[n] = IF n = 1 THEN 0
        ELSE IF f[n - 1] > f[best[n - 1]] THEN n - 1 ELSE best[n - 1]
  BY <1>1 DEF IsBest
<1> DEFINE S == {n \in 1 .. N : /\ best[n] \in 0 .. n - 1
                                /\ \A i \in 0 .. n - 1 : f[i] <= f[best[n]]}
<1>4. 1 \in S
  BY <1>3 DEF Bms!Cell
<1>5. ASSUME NEW n \in 1 .. N - 1, n \in S PROVE n + 1 \in S
  <2>1. /\ best[n] \in 0 .. n - 1 /\ \A i \in 0 .. n - 1 : f[i] <= f[best[n]]
        /\ best[n + 1] = IF f[n] > f[best[n]] THEN n ELSE best[n]
        /\ f[n] \in Int /\ \A i \in 0 .. n : f[i] \in Int
    BY <1>3, <1>5 DEF Bms!Cell
  <2>2. best[n + 1] \in 0 .. n
    BY <2>1
  <2>3. ASSUME NEW i \in 0 .. n PROVE f[i] <= f[best[n + 1]]
    BY <2>1
  <2>4. QED
    BY <2>2, <2>3
<1> HIDE DEF S
<1>6. \A n \in 1 .. N : n \in S
  BY <1>4, <1>5, UpTo
<1>7. N \in S
  BY <1>6
<1>8. QED
  BY <1>2, <1>7 DEF S, Bms!Cell

LEMMA MinIndexIs ==
  ASSUME N \in Nat \ {0}, NEW f \in [Bms!Cell -> Int]
  PROVE  /\ Bms!MinIndex(f) \in Bms!Cell
         /\ \A i \in Bms!Cell : f[Bms!MinIndex(f)] <= f[i]
<1> DEFINE g == [i \in Bms!Cell |-> -f[i]]
<1>1. g \in [Bms!Cell -> Int]
  OBVIOUS
<1>2. Bms!MinIndex(f) = Bms!MaxIndex(g)
  BY DEF Bms!MinIndex
<1>3. \A i \in Bms!Cell : g[i] = -f[i] /\ f[i] \in Int
  OBVIOUS
<1> HIDE DEF g
<1>4. /\ Bms!MinIndex(f) \in Bms!Cell
      /\ \A i \in Bms!Cell : g[i] <= g[Bms!MinIndex(f)]
  BY <1>1, <1>2, MaxIndexIs
<1>5. QED
  BY <1>3, <1>4

(* The sum of the voltages: the recursion, and that the average lies       *)
(* between any bounds of the cells.                                        *)
IsSum(sum, m) ==
  sum = [n \in 0 .. m |-> IF n = 0 THEN 0 ELSE sum[n - 1] + cellVoltageMv[n - 1]]

LEMMA SumExists ==
  ASSUME N \in Nat
  PROVE  \E sum : IsSum(sum, N)
<1> DEFINE S == {m \in 0 .. N : \E sum : IsSum(sum, m)}
<1>1. 0 \in S
  <2>1. IsSum([n \in 0 .. 0 |-> 0], 0)
    BY DEF IsSum
  <2>2. QED
    BY <2>1
<1>2. ASSUME NEW m \in 0 .. N - 1, m \in S PROVE m + 1 \in S
  <2>1. PICK g : IsSum(g, m)
    BY <1>2
  <2> DEFINE next == g[m] + cellVoltageMv[m]
             h == [n \in 0 .. m + 1 |-> IF n = m + 1 THEN next ELSE g[n]]
  <2>2. \A n \in 0 .. m : g[n] = IF n = 0 THEN 0 ELSE g[n - 1] + cellVoltageMv[n - 1]
    BY <2>1 DEF IsSum
  <2>3. ASSUME NEW n \in 0 .. m + 1
        PROVE  h[n] = IF n = 0 THEN 0 ELSE h[n - 1] + cellVoltageMv[n - 1]
    <3>1. CASE n = m + 1
      <4>1. h[n] = next /\ n # 0 /\ n - 1 = m /\ h[n - 1] = g[m]
        BY <3>1
      <4>2. QED
        BY <4>1
    <3>2. CASE n # m + 1
      <4>1. h[n] = g[n] /\ n \in 0 .. m
        BY <3>2
      <4>2. n # 0 => h[n - 1] = g[n - 1]
        BY <3>2
      <4>3. QED
        BY <2>2, <4>1, <4>2
    <3>3. QED
      BY <3>1, <3>2
  <2>4. h = [n \in 0 .. m + 1 |-> h[n]]
    OBVIOUS
  <2> HIDE DEF h
  <2>5. IsSum(h, m + 1)
    BY <2>3, <2>4 DEF IsSum
  <2>6. QED
    BY <2>5
<1> HIDE DEF S
<1>3. \A m \in 0 .. N : m \in S
  BY <1>1, <1>2, UpTo
<1>4. QED
  BY <1>3 DEF S

LEMMA SumBounds ==
  ASSUME N \in Nat, cellVoltageMv \in [Bms!Cell -> Int], NEW lo \in Int, NEW hi \in Int,
         \A i \in Bms!Cell : lo <= cellVoltageMv[i] /\ cellVoltageMv[i] <= hi
  PROVE  Bms!SumMv \in Int /\ N * lo <= Bms!SumMv /\ Bms!SumMv <= N * hi
<1> DEFINE sum == CHOOSE s : IsSum(s, N)
<1>1. IsSum(sum, N)
  BY SumExists
<1>2. Bms!SumMv = sum[N]
  BY DEF Bms!SumMv, IsSum
<1> HIDE DEF sum
<1>3. \A n \in 0 .. N : sum[n] = IF n = 0 THEN 0 ELSE sum[n - 1] + cellVoltageMv[n - 1]
  BY <1>1 DEF IsSum
<1> DEFINE S == {n \in 0 .. N : sum[n] \in Int /\ n * lo <= sum[n] /\ sum[n] <= n * hi}
<1>4. 0 \in S
  BY <1>3
<1>5. ASSUME NEW n \in 0 .. N - 1, n \in S PROVE n + 1 \in S
  <2>1. /\ sum[n] \in Int /\ n * lo <= sum[n] /\ sum[n] <= n * hi
        /\ sum[n + 1] = sum[n] + cellVoltageMv[n]
        /\ cellVoltageMv[n] \in Int /\ lo <= cellVoltageMv[n] /\ cellVoltageMv[n] <= hi
    BY <1>3, <1>5 DEF Bms!Cell
  <2>2. (n + 1) * lo = n * lo + lo /\ (n + 1) * hi = n * hi + hi
    OBVIOUS
  <2>3. n * lo \in Int /\ n * hi \in Int
    OBVIOUS
  <2>4. QED
    BY <2>1, <2>2, <2>3
<1> HIDE DEF S
<1>6. \A n \in 0 .. N : n \in S
  BY <1>4, <1>5, UpTo
<1>7. QED
  BY <1>2, <1>6 DEF S

(* The snapshot holds 16-bit voltages and temperatures.                    *)
CellTypes ==
  /\ cellVoltageMv \in [Bms!Cell -> Bms!Uint16]
  /\ cellTempC \in [Bms!Cell -> Bms!Int16]
  /\ isValid \in BOOLEAN

LEMMA Widths ==
  /\ \A v \in Bms!Uint16 : v \in Int /\ 0 <= v /\ v <= Bms!UINT16_MAX
  /\ \A v \in Int : 0 <= v /\ v <= Bms!UINT16_MAX => v \in Bms!Uint16
  /\ \A t \in Bms!Int16 : t \in Int
<1>1. Bms!UINT16_MAX \in Nat
  BY DEF Bms!UINT16_MAX
<1>2. \A v : v \in Bms!Uint16 <=> v \in Int /\ 0 <= v /\ v <= Bms!UINT16_MAX
  BY <1>1 DEF Bms!Uint16
<1>3. ASSUME NEW t \in Bms!Int16 PROVE t \in Int
  BY SMT DEF Bms!Int16
<1>4. QED
  BY <1>2, <1>3

LEMMA CellsTyped ==
  ASSUME Bms!CellAssumption PROVE Bms!Spec => []CellTypes
<1> USE DEF CellTypes
<1>0. CellMv \subseteq Bms!Uint16 /\ CellTemp \subseteq Bms!Int16
  BY DEF Bms!CellAssumption
<1>1. Bms!Init => CellTypes
  BY <1>0 DEF Bms!Init
<1>2. CellTypes /\ [Bms!Next]_(Bms!vars) => CellTypes'
  <2> SUFFICES ASSUME CellTypes, [Bms!Next]_(Bms!vars) PROVE CellTypes'
    OBVIOUS
  <2>1. ASSUME NEW i \in Bms!Cell, NEW v \in CellMv, Bms!Voltage(i, v) PROVE CellTypes'
    BY <1>0, <2>1 DEF Bms!Voltage
  <2>2. ASSUME NEW i \in Bms!Cell, NEW t \in CellTemp, Bms!Temperature(i, t)
        PROVE  CellTypes'
    BY <1>0, <2>2 DEF Bms!Temperature
  <2>3. CASE Bms!Validity
    BY <2>3 DEF Bms!Validity
  <2>4. CASE UNCHANGED Bms!vars
    BY <2>4 DEF Bms!vars
  <2>5. QED
    BY <2>1, <2>2, <2>3, <2>4 DEF Bms!Next
<1>3. QED
  BY <1>1, <1>2, PTL DEF Bms!Spec

(* The pass finds the extremes, each at the cell it names, and their sum   *)
(* lies between so many times the one and so many times the other.         *)
LEMMA PassIs ==
  ASSUME N \in Nat \ {0}, CellTypes
  PROVE  LET p == Bms!Pass IN
         /\ p.maxIdx \in Bms!Cell /\ p.minIdx \in Bms!Cell
         /\ p.maxMv = cellVoltageMv[p.maxIdx] /\ p.minMv = cellVoltageMv[p.minIdx]
         /\ p.maxMv \in Int /\ p.minMv \in Int
         /\ p.sumMv = Bms!SumMv /\ Bms!SumMv \in Int
         /\ N * p.minMv <= p.sumMv /\ p.sumMv <= N * p.maxMv
         /\ p.tMax \in Int /\ p.tMin \in Int
         /\ \A i \in Bms!Cell :
              /\ p.minMv <= cellVoltageMv[i] /\ cellVoltageMv[i] <= p.maxMv
              /\ p.tMin <= cellTempC[i] /\ cellTempC[i] <= p.tMax
         /\ \E i \in Bms!Cell : cellTempC[i] = p.tMax
<1> DEFINE hi == Bms!MaxIndex(cellVoltageMv)
           lo == Bms!MinIndex(cellVoltageMv)
           hot == Bms!MaxIndex(cellTempC)
           cold == Bms!MinIndex(cellTempC)
<1>1. cellVoltageMv \in [Bms!Cell -> Int] /\ cellTempC \in [Bms!Cell -> Int]
  BY Widths DEF CellTypes
<1> HIDE DEF hi, lo, hot, cold
<1>2. /\ hi \in Bms!Cell /\ \A i \in Bms!Cell : cellVoltageMv[i] <= cellVoltageMv[hi]
      /\ lo \in Bms!Cell /\ \A i \in Bms!Cell : cellVoltageMv[lo] <= cellVoltageMv[i]
      /\ hot \in Bms!Cell /\ \A i \in Bms!Cell : cellTempC[i] <= cellTempC[hot]
      /\ cold \in Bms!Cell /\ \A i \in Bms!Cell : cellTempC[cold] <= cellTempC[i]
  BY <1>1, MaxIndexIs, MinIndexIs DEF hi, lo, hot, cold
<1> DEFINE p == Bms!Pass
<1>3. /\ p.sumMv = Bms!SumMv /\ p.maxIdx = hi /\ p.minIdx = lo
      /\ p.maxMv = cellVoltageMv[hi] /\ p.minMv = cellVoltageMv[lo]
      /\ p.tMax = cellTempC[hot] /\ p.tMin = cellTempC[cold]
  BY DEF Bms!Pass, hi, lo, hot, cold
<1> HIDE DEF p
<1>4. /\ cellVoltageMv[hi] \in Int /\ cellVoltageMv[lo] \in Int
      /\ cellTempC[hot] \in Int /\ cellTempC[cold] \in Int
  BY <1>1, <1>2
<1>5. /\ Bms!SumMv \in Int
      /\ N * cellVoltageMv[lo] <= Bms!SumMv /\ Bms!SumMv <= N * cellVoltageMv[hi]
  BY <1>1, <1>2, <1>4, SumBounds
<1>6. QED
  BY <1>2, <1>3, <1>4, <1>5 DEF p

(* The fields of a valid snapshot's result.                                *)
LEMMA ValidResult ==
  ASSUME isValid = TRUE
  PROVE  LET c == Bms!ComputePack
             p == Bms!Pass IN
         /\ c.packVoltageMv = p.sumMv
         /\ c.cellMaxMv = p.maxMv /\ c.cellMinMv = p.minMv
         /\ c.cellMaxIndex = p.maxIdx /\ c.cellMinIndex = p.minIdx
         /\ c.cellDeltaMv = p.maxMv - p.minMv
         /\ c.balance = Bms!Balance(p) /\ c.warningLevel = Bms!Level(p)
         /\ c.tempMaxC = p.tMax /\ c.tempMinC = p.tMin
  BY DEF Bms!ComputePack

(* What invalid data counts as.                                            *)
LEMMA InvalidResult ==
  ASSUME isValid = FALSE
  PROVE  LET c == Bms!ComputePack IN
         c.balance = {} /\ c.warningLevel = Bms!CRITICAL
  BY DEF Bms!ComputePack

LEMMA ExtremesAreExact ==
  ASSUME N \in Nat \ {0}, CellTypes
  PROVE  Bms!ExtremesExact
<1> SUFFICES ASSUME isValid = TRUE PROVE Bms!ExtremesExact
  BY DEF Bms!ExtremesExact, CellTypes
<1> DEFINE c == Bms!ComputePack
           p == Bms!Pass
<1>1. /\ c.cellMaxMv = p.maxMv /\ c.cellMinMv = p.minMv
      /\ c.cellMaxIndex = p.maxIdx /\ c.cellMinIndex = p.minIdx
      /\ c.tempMaxC = p.tMax /\ c.tempMinC = p.tMin
  BY ValidResult
<1>2. /\ p.maxMv = cellVoltageMv[p.maxIdx] /\ p.minMv = cellVoltageMv[p.minIdx]
      /\ p.maxMv \in Int /\ p.minMv \in Int /\ p.tMax \in Int /\ p.tMin \in Int
      /\ \A i \in Bms!Cell :
           /\ p.minMv <= cellVoltageMv[i] /\ cellVoltageMv[i] <= p.maxMv
           /\ p.tMin <= cellTempC[i] /\ cellTempC[i] <= p.tMax
  BY PassIs
<1>3. \A i \in Bms!Cell : cellVoltageMv[i] \in Int /\ cellTempC[i] \in Int
  BY Widths DEF CellTypes
<1> HIDE DEF c, p
<1>4. /\ cellVoltageMv[c.cellMaxIndex] = c.cellMaxMv
      /\ cellVoltageMv[c.cellMinIndex] = c.cellMinMv
      /\ \A i \in Bms!Cell : /\ cellVoltageMv[i] \in c.cellMinMv .. c.cellMaxMv
                             /\ cellTempC[i] \in c.tempMinC .. c.tempMaxC
  BY <1>1, <1>2, <1>3
<1>5. QED
  BY <1>4 DEF Bms!ExtremesExact, c

(* The cells to discharge.  The bound below the largest voltage is above   *)
(* the smallest, so the smallest cell is always spared.                    *)
LEMMA BalancesTheTop ==
  ASSUME N \in Nat \ {0}, CellTypes
  PROVE  Bms!BalancesOnlyTheTop
<1> DEFINE flags == Bms!ComputePack.balance
           p == Bms!Pass
<1>1. CASE isValid = FALSE
  <2>1. flags = {}
    BY <1>1, InvalidResult
  <2>2. QED
    BY <1>1, <2>1 DEF Bms!BalancesOnlyTheTop
<1>2. CASE isValid = TRUE
  <2>1. flags = Bms!Balance(p)
    BY <1>2, ValidResult
  <2>2. /\ p.maxIdx \in Bms!Cell /\ p.minIdx \in Bms!Cell
        /\ p.maxMv = cellVoltageMv[p.maxIdx] /\ p.minMv = cellVoltageMv[p.minIdx]
        /\ \A i \in Bms!Cell : p.minMv <= cellVoltageMv[i] /\ cellVoltageMv[i] <= p.maxMv
    BY PassIs
  <2>3. \A i \in Bms!Cell : cellVoltageMv[i] \in Int /\ 0 <= cellVoltageMv[i]
    BY Widths DEF CellTypes
  <2>4. p.maxMv - p.minMv > 50 =>
          flags = {i \in Bms!Cell : cellVoltageMv[i] >= p.maxMv - 5}
    BY <2>1, <2>2, <2>3
    DEF Bms!Balance, Bms!BALANCE_THRESHOLD_MV, Bms!BALANCE_TOP_MARGIN_MV
  <2>5. ~ (p.maxMv - p.minMv > 50) => flags = {}
    BY <2>1 DEF Bms!Balance, Bms!BALANCE_THRESHOLD_MV
  <2> HIDE DEF flags, p
  <2>6. ASSUME NEW i \in flags
        PROVE  /\ \A j \in Bms!Cell : cellVoltageMv[j] <= cellVoltageMv[i] + 5
               /\ \E j \in Bms!Cell \ flags : cellVoltageMv[j] < cellVoltageMv[i]
    <3>1. /\ p.maxMv - p.minMv > 50
          /\ i \in Bms!Cell /\ cellVoltageMv[i] >= p.maxMv - 5
      BY <2>4, <2>5, <2>6
    <3>2. p.minIdx \in Bms!Cell \ flags /\ cellVoltageMv[p.minIdx] < cellVoltageMv[i]
      BY <2>2, <2>3, <2>4, <3>1
    <3>3. QED
      BY <2>2, <2>3, <3>1, <3>2
  <2>7. ASSUME NEW i \in Bms!Cell, NEW j \in Bms!Cell,
               cellVoltageMv[i] - cellVoltageMv[j] > 50
        PROVE  flags # {}
    <3>1. p.maxMv - p.minMv > 50
      BY <2>2, <2>3, <2>7
    <3>2. p.maxIdx \in flags
      BY <2>2, <2>3, <2>4, <3>1
    <3>3. QED
      BY <3>2
  <2>8. QED
    BY <1>2, <2>6, <2>7
    DEF Bms!BalancesOnlyTheTop, Bms!BALANCE_THRESHOLD_MV, Bms!BALANCE_TOP_MARGIN_MV, flags
<1>3. QED
  BY <1>1, <1>2 DEF CellTypes

(* The warning level: the extremes stand for all the cells.                *)
LEMMA LevelIs ==
  ASSUME N \in Nat \ {0}, CellTypes, isValid = TRUE
  PROVE  /\ Bms!ComputePack.warningLevel = Bms!CRITICAL <=>
              \/ Bms!Pass.minMv < 2500 \/ Bms!Pass.maxMv > 3650 \/ Bms!Pass.tMax > 60
         /\ Bms!Pass.minMv < 2800 \/ Bms!Pass.maxMv > 3550 =>
              Bms!ComputePack.warningLevel # Bms!OK
<1> DEFINE p == Bms!Pass
<1>1. Bms!ComputePack.warningLevel = Bms!Level(p)
  BY ValidResult
<1>2. p.minMv \in Int /\ p.maxMv \in Int /\ p.tMax \in Int
  BY PassIs
<1> HIDE DEF p
<1>3. /\ Bms!Level(p) = Bms!CRITICAL <=>
            p.minMv < 2500 \/ p.maxMv > 3650 \/ p.tMax > 60
      /\ p.minMv < 2800 \/ p.maxMv > 3550 => Bms!Level(p) # Bms!OK
  BY <1>2 DEF Bms!Level, Bms!OK, Bms!WARNING, Bms!CRITICAL
<1>4. QED
  BY <1>1, <1>3 DEF p

LEMMA TheWorstCellDecides ==
  ASSUME N \in Nat \ {0}, CellTypes
  PROVE  Bms!WorstCellDecides
<1>1. CASE isValid = FALSE
  BY <1>1, InvalidResult DEF Bms!WorstCellDecides
<1>2. CASE isValid = TRUE
  <2> DEFINE p == Bms!Pass
  <2>1. /\ p.maxIdx \in Bms!Cell /\ p.minIdx \in Bms!Cell
        /\ p.maxMv = cellVoltageMv[p.maxIdx] /\ p.minMv = cellVoltageMv[p.minIdx]
        /\ p.tMax \in Int
        /\ \A i \in Bms!Cell : /\ p.minMv <= cellVoltageMv[i] /\ cellVoltageMv[i] <= p.maxMv
                               /\ cellTempC[i] <= p.tMax
        /\ \E i \in Bms!Cell : cellTempC[i] = p.tMax
    BY PassIs
  <2>2. \A i \in Bms!Cell : cellVoltageMv[i] \in Int /\ cellTempC[i] \in Int
    BY Widths DEF CellTypes
  <2>3. Bms!ComputePack.warningLevel = Bms!CRITICAL <=>
          p.minMv < 2500 \/ p.maxMv > 3650 \/ p.tMax > 60
    BY <1>2, LevelIs
  <2> HIDE DEF p
  <2>4. (p.minMv < 2500 \/ p.maxMv > 3650 \/ p.tMax > 60) <=>
          \E i \in Bms!Cell : \/ cellVoltageMv[i] < 2500 \/ cellVoltageMv[i] > 3650
                             \/ cellTempC[i] > 60
    BY <2>1, <2>2
  <2>5. \A i \in Bms!Cell : cellVoltageMv[i] \notin 2500 .. 3650 <=>
                             cellVoltageMv[i] < 2500 \/ cellVoltageMv[i] > 3650
    BY <2>2, SMT
  <2>6. QED
    BY <1>2, <2>3, <2>4, <2>5, SMT DEF Bms!WorstCellDecides
<1>3. QED
  BY <1>1, <1>2 DEF CellTypes

(* The pack's thresholds against a cell's: a pack at or below 2.5 V per    *)
(* cell has a cell below 2.8 V, whatever the truncation to deciV loses,    *)
(* and one at or above 3.65 V per cell has a cell above 3.55 V.            *)
LEMMA PackFaultShows ==
  ASSUME N \in Nat \ {0}, CellTypes
  PROVE  Bms!PackFaultIsShown
<1> DEFINE c == Bms!ComputePack
           p == Bms!Pass
<1> SUFFICES ASSUME isValid = TRUE, Bms!PackVoltageFault(c.packVoltageMv \div 100)
             PROVE  c.warningLevel # Bms!OK
  BY DEF Bms!PackFaultIsShown, CellTypes
<1>1. c.packVoltageMv = p.sumMv
  BY ValidResult
<1>2. /\ p.minMv \in Int /\ p.maxMv \in Int /\ p.sumMv \in Int
      /\ N * p.minMv <= p.sumMv /\ p.sumMv <= N * p.maxMv
  BY PassIs
<1>3. p.minMv < 2800 \/ p.maxMv > 3550 => c.warningLevel # Bms!OK
  BY LevelIs
<1> DEFINE d == p.sumMv \div 100
<1>4. Bms!PackVoltageFault(d)
  BY <1>1
<1> HIDE DEF c, p
<1>5. d \in Int /\ 100 * d <= p.sumMv /\ p.sumMv <= 100 * d + 99
  BY <1>2
<1> HIDE DEF d
<1>6. d <= 25 * N \/ 10 * d >= 365 * N
  BY <1>4 DEF Bms!PackVoltageFault
<1>7. ASSUME NEW a \in Int, NEW b \in Int, a <= b PROVE N * a <= N * b
  BY <1>7
<1>8. CASE d <= 25 * N
  <2>1. p.sumMv <= 2500 * N + 99
    BY <1>2, <1>5, <1>8
  <2>2. p.minMv >= 2800 => N * 2800 <= N * p.minMv
    BY <1>2, <1>7
  <2>3. p.minMv < 2800
    BY <1>2, <2>1, <2>2
  <2>4. QED
    BY <1>3, <2>3
<1>9. CASE 10 * d >= 365 * N
  <2>1. p.sumMv >= 3650 * N
    BY <1>2, <1>5, <1>9
  <2>2. p.maxMv <= 3550 => N * p.maxMv <= N * 3550
    BY <1>2, <1>7
  <2>3. p.maxMv > 3550
    BY <1>2, <2>1, <2>2
  <2>4. QED
    BY <1>3, <2>3
<1>10. QED
  BY <1>6, <1>8, <1>9

LEMMA ChargeIsExact ==
  ASSUME N \in Nat \ {0}, CellTypes
  PROVE  Bms!ChargeExact
<1> SUFFICES ASSUME isValid = TRUE, NEW q \in 1 .. 100
             PROVE  q <= Bms!SocPercent <=>
                      100 * (Bms!SumMv \div N) >=
                        100 * Bms!EMPTY_MV + q * (Bms!FULL_MV - Bms!EMPTY_MV)
  BY DEF Bms!ChargeExact, CellTypes
<1> DEFINE avg == Bms!SumMv \div N
<1>1. Bms!SumMv \in Int
  BY PassIs
<1>2. avg \in Int
  BY <1>1
<1>3. Bms!SocPercent = Bms!SocFromAvgMv(avg)
  BY DEF Bms!SocPercent
<1> HIDE DEF avg
<1>4. q <= Bms!SocFromAvgMv(avg) <=> 100 * avg >= 250000 + q * 1150
  <2>1. CASE avg <= 2500
    BY <1>2, <2>1 DEF Bms!SocFromAvgMv, Bms!EMPTY_MV, Bms!FULL_MV
  <2>2. CASE avg >= 3650
    <3>1. Bms!SocFromAvgMv(avg) = 100
      BY <1>2, <2>2 DEF Bms!SocFromAvgMv, Bms!EMPTY_MV, Bms!FULL_MV
    <3>2. QED
      BY <1>2, <2>2, <3>1
  <2>3. CASE 2500 < avg /\ avg < 3650
    <3>1. Bms!SocFromAvgMv(avg) = ((avg - 2500) * 100) \div 1150
      <4>1. ~ (avg <= 2500) /\ ~ (avg >= 3650) /\ 3650 - 2500 = 1150
        BY <1>2, <2>3
      <4>2. Bms!SocFromAvgMv(avg) = ((avg - 2500) * 100) \div (3650 - 2500)
        BY <4>1 DEF Bms!SocFromAvgMv, Bms!EMPTY_MV, Bms!FULL_MV
      <4>3. QED
        BY <4>1, <4>2
    <3>2. q <= ((avg - 2500) * 100) \div 1150 <=> q * 1150 <= (avg - 2500) * 100
      BY <1>2
    <3>3. QED
      BY <1>2, <3>1, <3>2
  <2>4. QED
    BY <1>2, <2>1, <2>2, <2>3
<1>5. QED
  BY <1>3, <1>4 DEF avg, Bms!EMPTY_MV, Bms!FULL_MV

(* Every field of a result is in its range.                                *)
THEOREM CellFieldsTyped ==
  ASSUME Bms!CellAssumption PROVE Bms!Spec => []Bms!TypeOK
<1>1. CellTypes => Bms!TypeOK
  <2> SUFFICES ASSUME CellTypes PROVE Bms!TypeOK
    OBVIOUS
  <2> DEFINE c == Bms!ComputePack
             p == Bms!Pass
             avg == Bms!SumMv \div N
  <2>1. N \in Nat \ {0} /\ 0 \in Bms!Cell
    BY DEF Bms!CellAssumption, Bms!Cell
  <2>2. Bms!SocFromAvgMv(avg) \in 0 .. 100
    <3>1. avg \in Int
      BY <2>1, PassIs
    <3> HIDE DEF avg
    <3>2. CASE avg <= 2500
      BY <3>1, <3>2 DEF Bms!SocFromAvgMv, Bms!EMPTY_MV, Bms!FULL_MV
    <3>3. CASE avg >= 3650
      BY <3>1, <3>3 DEF Bms!SocFromAvgMv, Bms!EMPTY_MV, Bms!FULL_MV
    <3>4. CASE 2500 < avg /\ avg < 3650
      <4>1. ~ (avg <= 2500) /\ ~ (avg >= 3650) /\ 3650 - 2500 = 1150
        BY <3>1, <3>4
      <4>2. Bms!SocFromAvgMv(avg) = ((avg - 2500) * 100) \div (3650 - 2500)
        BY <4>1 DEF Bms!SocFromAvgMv, Bms!EMPTY_MV, Bms!FULL_MV
      <4>3. QED
        BY <3>1, <3>4, <4>1, <4>2
    <3>5. QED
      BY <3>1, <3>2, <3>3, <3>4
  <2>3. CASE isValid = FALSE
    <3>1. /\ c.socPercent = 0 /\ c.cellMaxIndex = 0 /\ c.cellMinIndex = 0
          /\ c.cellDeltaMv = 0 /\ c.warningLevel = Bms!CRITICAL
      BY <2>3 DEF Bms!ComputePack, Bms!SocPercent
    <3>2. 0 \in Bms!Uint16
      BY DEF Bms!Uint16, Bms!UINT16_MAX
    <3> HIDE DEF c
    <3>3. c.socPercent \in 0 .. 100 /\ c.warningLevel \in Bms!OK .. Bms!CRITICAL
      BY <3>1 DEF Bms!OK, Bms!CRITICAL
    <3>4. QED
      BY <2>1, <3>1, <3>2, <3>3 DEF Bms!TypeOK, c
  <2>4. CASE isValid = TRUE
    <3>1. /\ c.socPercent = Bms!SocFromAvgMv(avg) /\ c.cellMaxIndex = p.maxIdx
          /\ c.cellMinIndex = p.minIdx /\ c.cellDeltaMv = p.maxMv - p.minMv
          /\ c.warningLevel = Bms!Level(p)
      BY <2>4 DEF Bms!ComputePack, Bms!SocPercent
    <3>2. /\ p.maxIdx \in Bms!Cell /\ p.minIdx \in Bms!Cell
          /\ p.maxMv = cellVoltageMv[p.maxIdx] /\ p.minMv = cellVoltageMv[p.minIdx]
          /\ p.minMv <= cellVoltageMv[p.maxIdx]
      BY <2>1, PassIs
    <3>3. /\ cellVoltageMv[p.maxIdx] \in Bms!Uint16
          /\ cellVoltageMv[p.minIdx] \in Bms!Uint16
      BY <3>2 DEF CellTypes
    <3>4. Bms!Level(p) \in Bms!OK .. Bms!CRITICAL
      BY DEF Bms!Level, Bms!OK, Bms!WARNING, Bms!CRITICAL
    <3> HIDE DEF c, p, avg
    <3>5. c.cellDeltaMv \in Bms!Uint16
      <4>1. Bms!UINT16_MAX \in Nat
        BY DEF Bms!UINT16_MAX
      <4>2. QED
        BY <3>1, <3>2, <3>3, <4>1, Widths
    <3>6. QED
      BY <2>2, <3>1, <3>2, <3>4, <3>5 DEF Bms!TypeOK, c
  <2>5. QED
    BY <2>3, <2>4 DEF CellTypes
<1>2. QED
  BY <1>1, CellsTyped, PTL

(* What the pass and its formulas compute is what the plain definitions    *)
(* say, for any number of cells and any voltages and temperatures.         *)
THEOREM PackStaysAsDefined ==
  ASSUME Bms!CellAssumption PROVE Bms!Spec => []Bms!PackAsDefined
<1>1. CellTypes => Bms!PackAsDefined
  BY ExtremesAreExact, BalancesTheTop, TheWorstCellDecides, PackFaultShows, ChargeIsExact
  DEF Bms!PackAsDefined, Bms!CellAssumption
<1>2. QED
  BY <1>1, CellsTyped, PTL


-----------------------------------------------------------------------------
(* A behaviour of Parts is, for every part, a behaviour of that part: the  *)
(* one it is about takes its own steps and the others none.                *)
LEMMA RunsRadio == PartsSpec => E22!Spec
<1>1. PartsInit => E22!Init
  BY DEF PartsInit
<1>2. [PartsNext]_partsVars => [E22!Next]_(E22!vars)
  BY DEF PartsNext, OnlyBuffer, OnlyRelay, OnlyRadio, OnlyFrame, OnlyCells, OnlyClock, OnlyCan, OnlyStart,
         RadioIdle, radioVars, partsVars, E22!vars, E22!taskVars, E22!radioVars
<1>3. QED
  BY <1>1, <1>2, PTL DEF PartsSpec, E22!Spec

(* The fields of a packet change only with a frame.                        *)
LEMMA RunsFrame == PartsSpec => Frame!Spec
<1>1. PartsInit => Frame!Init
  BY DEF PartsInit
<1>2. [PartsNext]_partsVars => [Frame!Next]_(Frame!vars)
  BY DEF PartsNext, OnlyBuffer, OnlyRelay, OnlyRadio, OnlyFrame, OnlyCells, OnlyClock, OnlyCan, OnlyStart,
         FrameIdle, partsVars, Frame!vars
<1>3. QED
  BY <1>1, <1>2, PTL DEF PartsSpec, Frame!Spec

(* The clock moves only in a pass of its task.                             *)
LEMMA RunsClock == PartsSpec => Clock!Spec
<1>1. PartsInit => Clock!Init
  BY DEF PartsInit
<1>2. [PartsNext]_partsVars => [Clock!Next]_(Clock!vars)
  BY DEF PartsNext, OnlyBuffer, OnlyRelay, OnlyRadio, OnlyFrame, OnlyCells, OnlyClock, OnlyCan, OnlyStart,
         ClockIdle, clockVars, partsVars, Clock!vars, Clock!sourceVars, Clock!periodVars
<1>3. QED
  BY <1>1, <1>2, PTL DEF PartsSpec, Clock!Spec

(* The start moves only with app_main, its tasks and the driver.           *)
LEMMA RunsStart == PartsSpec => Start!Spec
<1>1. PartsInit => Start!Init
  BY DEF PartsInit
<1>2. [PartsNext]_partsVars => [Start!Next]_(Start!vars)
  BY DEF PartsNext, OnlyBuffer, OnlyRelay, OnlyRadio, OnlyFrame, OnlyCells, OnlyClock, OnlyCan, OnlyStart,
         StartIdle, startVars, partsVars, Start!vars, Start!vcuVars, Start!taskVars
<1>3. QED
  BY <1>1, <1>2, PTL DEF PartsSpec, Start!Spec

(* Contactors and their expander change only with a call, a transaction or *)
(* a restart.                                                              *)
LEMMA RunsRelay == PartsSpec => Relay!Spec
<1>1. PartsInit => Relay!Init
  BY DEF PartsInit
<1>2. [PartsNext]_partsVars => [Relay!Next]_(Relay!vars)
  BY DEF PartsNext, OnlyBuffer, OnlyRelay, OnlyRadio, OnlyFrame, OnlyCells, OnlyClock, OnlyCan, OnlyStart,
         RelayIdle, relayVars, partsVars, Relay!vars, Relay!chip
<1>3. QED
  BY <1>1, <1>2, PTL DEF PartsSpec, Relay!Spec

(* The snapshot of the cells changes only at its source.                   *)
LEMMA RunsCells == PartsSpec => Bms!Spec
<1>1. PartsInit => Bms!Init
  BY DEF PartsInit
<1>2. [PartsNext]_partsVars => [Bms!Next]_(Bms!vars)
  BY DEF PartsNext, OnlyBuffer, OnlyRelay, OnlyRadio, OnlyFrame, OnlyCells, OnlyClock,
         OnlyCan, OnlyStart, CellsIdle, cellVars, partsVars, Bms!vars
<1>3. QED
  BY <1>1, <1>2, PTL DEF PartsSpec, Bms!Spec

(* The packets of the buffer change only with a call.                      *)
LEMMA RunsBuffer == PartsSpec => Spec
<1>1. PartsInit => Init
  BY DEF PartsInit
<1>2. [PartsNext]_partsVars => [Next]_ringVars
  BY DEF PartsNext, OnlyBuffer, OnlyRelay, OnlyRadio, OnlyFrame, OnlyCells, OnlyClock,
         OnlyCan, OnlyStart, BufferIdle, partsVars
<1>3. QED
  BY <1>1, <1>2, PTL DEF PartsSpec, Spec

(* The CAN task's definitions are those its proofs are about, and its      *)
(* state changes only in its cycle and on the bus.                         *)
CanFacts == INSTANCE CanManagerProofs WITH Horizon <- CanHorizon

LEMMA SameCan ==
  /\ CanTask!Init <=> CanFacts!Init
  /\ CanTask!ReadAlerts <=> CanFacts!ReadAlerts
  /\ CanTask!EndCycle <=> CanFacts!EndCycle
  /\ CanTask!WakeUp <=> CanFacts!WakeUp
  /\ CanTask!ChargerFrame <=> CanFacts!ChargerFrame
  /\ CanTask!OtherFrame <=> CanFacts!OtherFrame
  /\ CanTask!BusOff <=> CanFacts!BusOff
  /\ CanTask!Recovered <=> CanFacts!Recovered
  /\ \A f : CanTask!MotorFrame(f) <=> CanFacts!MotorFrame(f)
  /\ \A f : CanTask!BmsFrame(f) <=> CanFacts!BmsFrame(f)
  /\ CanTask!TypeOK <=> CanFacts!TypeOK
  /\ CanTask!FlagsTellSilence <=> CanFacts!FlagsTellSilence
  /\ CanTask!EdgeAgreesWithLevel <=> CanFacts!EdgeAgreesWithLevel
  BY DEF CanTask!Init, CanFacts!Init, CanTask!ReadAlerts, CanFacts!ReadAlerts,
         CanTask!EndCycle, CanFacts!EndCycle, CanTask!WakeUp, CanFacts!WakeUp,
         CanTask!ChargerFrame, CanFacts!ChargerFrame, CanTask!OtherFrame,
         CanFacts!OtherFrame, CanTask!BusOff, CanFacts!BusOff,
         CanTask!Recovered, CanFacts!Recovered, CanTask!TypeOK,
         CanFacts!TypeOK, CanTask!FlagsTellSilence, CanFacts!FlagsTellSilence,
         CanTask!EdgeAgreesWithLevel, CanFacts!EdgeAgreesWithLevel,
         CanTask!MotorFrame, CanFacts!MotorFrame, CanTask!BmsFrame,
         CanFacts!BmsFrame, CanTask!NoTelemetry, CanFacts!NoTelemetry,
         CanTask!Published, CanFacts!Published, CanTask!PackFault,
         CanFacts!PackFault, CanTask!NotifyFault, CanFacts!NotifyFault,
         CanTask!HandleMotorStatus, CanFacts!HandleMotorStatus,
         CanTask!CheckPackVoltageFault, CanFacts!CheckPackVoltageFault,
         CanTask!HandleLbBmsE000, CanFacts!HandleLbBmsE000,
         CanTask!HandleCharger, CanFacts!HandleCharger, CanTask!IsTimedOut,
         CanFacts!IsTimedOut, CanTask!UpdateValidity, CanFacts!UpdateValidity,
         CanTask!Receiving, CanFacts!Receiving, CanTask!Older, CanFacts!Older

LEMMA RunsCan == PartsSpec => CanFacts!Spec
<1>1. PartsInit => CanFacts!Init
  BY SameCan DEF PartsInit
<1>2. CanTask!Next => CanFacts!Next
  BY SameCan DEF CanTask!Next, CanFacts!Next
<1>3. [PartsNext]_partsVars => [CanFacts!Next]_(CanFacts!canVars)
  BY <1>2
  DEF PartsNext, OnlyBuffer, OnlyRelay, OnlyRadio, OnlyFrame, OnlyCells, OnlyClock,
      OnlyCan, OnlyStart, CanIdle, canTaskVars, partsVars, CanFacts!canVars
<1>4. QED
  BY <1>1, <1>3, PTL DEF PartsSpec, CanFacts!Spec

(* Hence CanManager's theorems hold of it.                                 *)
LEMMA CanInvariants ==
  PartsSpec => /\ []CanTask!TypeOK /\ []CanTask!FlagsTellSilence
               /\ []CanTask!EdgeAgreesWithLevel
<1>1. CanFacts!CanAssumption
  BY PartsAssumption DEF CanTask!CanAssumption, CanFacts!CanAssumption
<1>2. CanFacts!Spec => /\ []CanFacts!TypeOK /\ []CanFacts!FlagsTellSilence
                       /\ []CanFacts!EdgeAgreesWithLevel
  BY <1>1, CanFacts!TypeCorrect, CanFacts!SilenceFlagged, CanFacts!EdgeLevelAgreement
<1>3. CanFacts!TypeOK => CanTask!TypeOK
  BY SameCan
<1>4. CanFacts!FlagsTellSilence => CanTask!FlagsTellSilence
  BY SameCan
<1>5. CanFacts!EdgeAgreesWithLevel => CanTask!EdgeAgreesWithLevel
  BY SameCan
<1>6. QED
  BY <1>2, <1>3, <1>4, <1>5, RunsCan, PTL

-----------------------------------------------------------------------------
(* Hence what MCParts checks of the parts, for every value of their        *)
(* constants.                                                              *)

(* Every variable of every part keeps its type.                            *)
THEOREM PartsTyped == PartsSpec => []PartsTypeOK
<1>1. Spec => []TypeOK
  BY TypeCorrect
<1>2. Relay!Spec => []Relay!TypeOK
  BY PartsAssumption, RelayTypes
<1>3. E22!Spec => []E22!TypeOK
  BY PartsAssumption, RadioTypes
<1>4. Frame!Spec => []Frame!TypeOK
  BY PartsAssumption, FrameTypes
<1>5. Bms!Spec => []Bms!TypeOK
  BY PartsAssumption, CellFieldsTyped
<1>6. Clock!Spec => []Clock!TypeOK
  BY PartsAssumption, ClockTypes
<1>7. Start!Spec => []Start!TypeOK
  BY PartsAssumption, StartTypes
<1>8. QED
  BY <1>1, <1>2, <1>3, <1>4, <1>5, <1>6, <1>7, RunsBuffer, RunsRelay, RunsRadio,
     RunsFrame, RunsCells, RunsClock, RunsStart, CanInvariants, PTL DEF PartsTypeOK

(* The ring's indices agree after every call, and its calls are those of a *)
(* bounded queue that drops the oldest.                                    *)
THEOREM BufferAgrees == PartsSpec => []IndicesAgree
  BY IndexAgreement, RunsBuffer, PTL

THEOREM BufferIsFifo == PartsSpec => ImplementsFifo
  BY FifoRefinement, RunsBuffer

(* The log of the radio's boot is true of what can be read back: it        *)
(* reports the contract only if the readable registers in the flash are    *)
(* the contract's, and with a radio that answers in time a difference only *)
(* where there is one.  Of the key it says nothing.                        *)
THEOREM LogIsTrue == PartsSpec => []VerdictTrue
<1>1. E22!Spec => []E22!VerdictTrue
  BY PartsAssumption, VerdictsTrue
<1>2. QED
  BY <1>1, RunsRadio, PTL DEF VerdictTrue

(* A boot whose radio answers in time ends with the readable registers of  *)
(* the contract in the flash, with its key too if anything was written,    *)
(* and with no answer left for the loop, whatever was in the flash and in  *)
(* the queues before.                                                      *)
THEOREM HealthyRadioConfigured == PartsSpec => []HealthyBootConfigures
<1>1. E22!Spec => []E22!HealthyBootConfigures
  BY PartsAssumption, HealthyBootsConfigure
<1>2. QED
  BY <1>1, RunsRadio, PTL DEF HealthyBootConfigures

(* The task's watchdog is fed in time, however often the UART driver fails *)
(* to start, if neither the wait for another try nor the sum of the waits  *)
(* of the configuration - two mode changes, a query, a write and a         *)
(* confirmation - exceeds the watchdog's timeout.                          *)
THEOREM BootFeedsWatchdog ==
  ASSUME BootTime <= WdtTimeout, RetryDelay <= WdtTimeout
  PROVE  PartsSpec => []WatchdogFed
<1>1. E22!Spec => []E22!WatchdogFed
  BY PartsAssumption, WatchdogAlwaysFed
<1>2. QED
  BY <1>1, RunsRadio, PTL DEF WatchdogFed

(* Whatever bytes arrive on the bus, the ground station drops a packet     *)
(* exactly if the motor's speed in it is out of range: every other field   *)
(* is one it accepts.  tempH is the hotter sensor.                         *)
THEOREM RejectedForRpmOnly == PartsSpec => []OnlyRpmRejected
<1>1. Frame!Spec => []Frame!OnlyRpmRejected
  BY PartsAssumption, FieldsStayAccepted
<1>2. QED
  BY <1>1, RunsFrame, PTL DEF OnlyRpmRejected

(* After every pass a source is valid exactly if its last frame is younger *)
(* than the timeout, however often the tick counter wraps around.          *)
THEOREM TimeoutTellsTime == PartsSpec => []TimeoutIsTrue
<1>1. Clock!Spec => []Clock!TimeoutIsTrue
  BY PartsAssumption, TimeoutsAreTrue
<1>2. QED
  BY <1>1, RunsClock, PTL DEF TimeoutIsTrue

(* A period never starts early and never a pass late.                      *)
THEOREM PeriodTellsTime == PartsSpec => PeriodKept
<1>1. Clock!Spec => Clock!PeriodKept
  BY PartsAssumption, PeriodsAreKept
<1>2. QED
  BY <1>1, RunsClock DEF PeriodKept

(* What the CAN task publishes at the end of a cycle tells exactly which   *)
(* sources are silent.                                                     *)
THEOREM SilenceIsTold == PartsSpec => []FlagsTellSilence
  BY CanInvariants, PTL DEF FlagsTellSilence

(* Fault events and published levels are about the same frame.             *)
THEOREM EdgeAndLevelAgree == PartsSpec => []EdgeAgreesWithLevel
  BY CanInvariants, PTL DEF EdgeAgreesWithLevel

(* A vehicle that can be armed has relays, a queue, a mailbox, a panel     *)
(* that is read and a task that runs its state machine, whatever failed    *)
(* during the start.                                                       *)
THEOREM ArmedVehicleServed == PartsSpec => []ArmedIsServed
<1>1. Start!Spec => []Start!ArmedIsServed
  BY ArmedStaysServed
<1>2. QED
  BY <1>1, RunsStart, PTL DEF ArmedIsServed

(* A vehicle that started in any way drives only on snapshots without a    *)
(* critical condition, with its contactors closed, and its stops open them.*)
THEOREM VehicleSafeFromTheStart == PartsSpec => []StartedSafe
<1>1. Start!Spec => []Start!StartedSafe
  BY PartsAssumption, StartedVehicleSafe
<1>2. QED
  BY <1>1, RunsStart, PTL DEF StartedSafe

(* A call of RelayManager that returned has done what it was asked         *)
(* wherever its own latch write came through.                              *)
THEOREM RelayCallsDone == PartsSpec => []DoneAsCommanded
<1>1. Relay!Spec => []Relay!DoneAsCommanded
  BY PartsAssumption, CallsDoneAsCommanded
<1>2. QED
  BY <1>1, RunsRelay, PTL DEF DoneAsCommanded

(* Between any two transactions on the bus contactors move only to where   *)
(* they are commanded.                                                     *)
THEOREM RelayMovesCommanded == PartsSpec => MovesAsCommanded
<1>1. Relay!Spec => Relay!MovesAsCommanded
  BY PartsAssumption, ContactorsMoveAsCommanded
<1>2. QED
  BY <1>1, RunsRelay DEF MovesAsCommanded

(* The result of computePack is what the plain definitions of its fields   *)
(* say: the extremes, the cells to discharge, the warning level and the    *)
(* charge, and no pack that makes the VCU open the contactors is shown as  *)
(* OK.                                                                     *)
THEOREM PackComputedAsDefined == PartsSpec => []PackAsDefined
<1>1. Bms!Spec => []Bms!PackAsDefined
  BY PartsAssumption, PackStaysAsDefined
<1>2. QED
  BY <1>1, RunsCells, PTL DEF PackAsDefined
=============================================================================
