----------------------------- MODULE HmiDisplay -----------------------------
(***************************************************************************)
(* vTask_HMI_Display (main.cpp) with DisplayHMI, the byte classifier of    *)
(* HMIHelpers.h and the BMS page of lib/BmsAlgo/BmsNextionPacket: the loop *)
(* that keeps a Nextion panel up to date with caches of what it was sent,  *)
(* and listens on the same UART for the driver's touch commands and for    *)
(* the panel's own restarts.                                               *)
(*                                                                         *)
(* The panel is external.  It forgets everything it shows when it          *)
(* restarts, ignores what it is sent until it is up again, and what it     *)
(* sends arrives byte by byte, so that a scan of the UART may end in the   *)
(* middle of a frame.                                                      *)
(*                                                                         *)
(* The per-cell source flag is FALSE in this code, which makes every       *)
(* object of the BMS page but the warning level a constant; the byte       *)
(* budget of a tick is counted in objects.                                 *)
(***************************************************************************)
EXTENDS Integers, Sequences, FiniteSets

CONSTANTS
  Field,       (* the fields of the main page                               *)
  Value,       (* the values they may have                                  *)
  Command,     (* the touch commands: 1 START .. 4 DRIVE_ENABLE             *)
  NCells,      (* per-cell objects of the BMS page, sent before the others  *)
  NObjects,    (* all its objects; the last one is the warning level        *)
  Budget,      (* objects that fit into the maxBytes of one tick            *)
  CellPeriod,  (* ticks in the 1000 ms between two looks at the cells       *)
  WireCap      (* bound: bytes under way from the panel                     *)

ASSUME HmiAssumption ==
  /\ Command \subseteq 1 .. 4
  /\ {NCells, CellPeriod} \subseteq Nat /\ {NObjects, Budget} \subseteq Nat \ {0}
  /\ NCells < NObjects
  /\ WireCap \in Nat

VARIABLES
  panel,         (* external: "up" or "booting"                             *)
  screen,        (* external: what the panel shows of the main page         *)
  page,          (* external: what it shows of the BMS page                 *)
  wire,          (* bytes the panel sent that readTouchCommand has not read *)
  data,          (* what the mailbox, VcuLogic and RelayManager say         *)
  bmsValid,      (* TEL_bmsDataValid of the mailbox                         *)
  pc,            (* where the HMI task is                                   *)
  hasCached,     (* HMI_hasCachedScreen                                     *)
  last,          (* HMI_lastScreenData                                      *)
  resetPending,  (* HMI_nextionResetPending                                 *)
  bmsForce,      (* HMI_bmsForceFromReset or BMS_firstRun                   *)
  cellAge,       (* ticks since BMS_lastCellUpdateMs                        *)
  cache,         (* BMS_hmiCache                                            *)
  isWarm,        (* BMS_hmiCache.isWarm                                     *)
  rx,            (* HMI_rxState                                             *)
  got,           (* the command of this scan, 0 while HMI_gotCommand is false *)
  owed           (* history: presses of each command neither reported,      *)
                 (* passed over for an earlier one of the same scan, nor    *)
                 (* cut short by a restart                                  *)

mainVars == <<screen, data, hasCached, last>>
bmsVars == <<page, bmsValid, bmsForce, cellAge, cache, isWarm>>
rxVars == <<wire, rx, got, owed>>
vars == <<panel, mainVars, bmsVars, rxVars, pc, resetPending>>

Blank == "blank"      (* what a restarted panel shows                       *)
Unsent == "unsent"    (* an initial cache entry: different from every value *)

-----------------------------------------------------------------------------
(* The main page: every field that changed, or all of them when the cache  *)
(* was invalidated.                                                        *)
Start == pc = "main" /\ pc' = "bms"

UpdateScreen ==
  /\ Start
  /\ bmsForce' = (bmsForce \/ resetPending) /\ resetPending' = FALSE
  /\ screen' = [f \in Field |->
                  IF panel = "up" /\ (~hasCached \/ data[f] # last[f])
                  THEN data[f] ELSE screen[f]]
  /\ last' = data /\ hasCached' = TRUE
  /\ UNCHANGED <<panel, page, data, bmsValid, cellAge, cache, isWarm, rxVars>>

-----------------------------------------------------------------------------
(* The BMS page.  Commands go out in object order until one no longer fits *)
(* the tick's budget; only what went out enters the cache.                 *)
Object == 1 .. NObjects

Target(o) == IF o < NObjects THEN "fixed"
             ELSE IF bmsValid THEN "ok" ELSE "critical"

Due(update) ==
  {o \in Object : /\ o <= NCells => update \/ ~isWarm
                  /\ bmsForce \/ Target(o) # cache[o]}

BugCachesUnsent(sent) ==
  /\ page' = [o \in Object |-> IF panel = "up" /\ o \in sent
                               THEN Target(o) ELSE page[o]]
  /\ cache' = [o \in Object |-> Target(o)]

Emit(sent) ==
  /\ page' = [o \in Object |-> IF panel = "up" /\ o \in sent
                               THEN Target(o) ELSE page[o]]
  /\ cache' = [o \in Object |-> IF o \in sent THEN Target(o) ELSE cache[o]]

BuildBmsNextionCommands ==
  /\ pc = "bms" /\ pc' = "scan"
  /\ LET update == bmsForce \/ cellAge >= CellPeriod
         due == Due(update)
         sent == {o \in due : Cardinality({p \in due : p <= o}) <= Budget} IN
     /\ Emit(sent)
     /\ isWarm' = (isWarm \/ sent = due)
     /\ cellAge' = IF update THEN 0 ELSE cellAge + 1
  /\ bmsForce' = FALSE
  /\ UNCHANGED <<panel, mainVars, bmsValid, rxVars, resetPending>>

-----------------------------------------------------------------------------
(* HMI_rxClassifyByte.  A touch frame is 0x5A, the command and its         *)
(* complement; 0x88, or three 0x00 and three 0xFF, tell a restart.         *)
Rx(touch, cmd, zeros, ffs) ==
  [touchState |-> touch, pendingCmd |-> cmd, zeroRun |-> zeros, ffRun |-> ffs]

IdleRx == Rx(0, 0, 0, 0)

Result(st, event, cmd) == [st |-> st, event |-> event, cmd |-> cmd]

ClassifyZero(st) ==
  Result(Rx(0, 0, IF st.ffRun > 0 THEN 1
                  ELSE IF st.zeroRun < 3 THEN st.zeroRun + 1
                  ELSE st.zeroRun, 0),
         "none", 0)

ClassifyFF(st) ==
  IF st.zeroRun < 3 THEN Result(IdleRx, "none", 0)
  ELSE IF st.ffRun + 1 >= 3 THEN Result(IdleRx, "reset", 0)
  ELSE Result(Rx(0, 0, st.zeroRun, st.ffRun + 1), "none", 0)

ClassifyTouch(st, b) ==
  CASE st.touchState = 0 ->
         Result(Rx(IF b = 90 THEN 1 ELSE 0, st.pendingCmd, 0, 0), "none", 0)
    [] st.touchState = 1 -> Result(Rx(2, b, 0, 0), "none", 0)
    [] st.touchState = 2 ->
         Result(Rx(0, st.pendingCmd, 0, 0),
                IF b = 255 - st.pendingCmd THEN "touch" ELSE "none",
                st.pendingCmd)

Classify(st, b) ==
  CASE b = 136 -> Result(IdleRx, "reset", 0)
    [] b = 0   -> ClassifyZero(st)
    [] b = 255 -> ClassifyFF(st)
    [] OTHER   -> ClassifyTouch(st, b)

-----------------------------------------------------------------------------
(* readTouchCommand reads what has arrived, keeps the first command and    *)
(* goes on, so as not to miss a restart behind it.                         *)
BugResetKeepsCache ==
  /\ pc = "scan" /\ wire # <<>> /\ wire' = Tail(wire)
  /\ LET r == Classify(rx, Head(wire)) IN
     /\ rx' = r.st
     /\ resetPending' = (resetPending \/ r.event = "reset")
     /\ UNCHANGED hasCached
     /\ got' = IF r.event = "touch" /\ got = 0 THEN r.cmd ELSE got
     /\ owed' = IF r.event = "touch" /\ got # 0 /\ r.cmd \in Command
                THEN [owed EXCEPT ![r.cmd] = @ - 1] ELSE owed
  /\ UNCHANGED <<panel, screen, data, last, bmsVars, pc>>

ScanByte ==
  /\ pc = "scan" /\ wire # <<>> /\ wire' = Tail(wire)
  /\ LET r == Classify(rx, Head(wire)) IN
     /\ rx' = r.st
     /\ resetPending' = (resetPending \/ r.event = "reset")
     /\ hasCached' = (hasCached /\ r.event # "reset")
     /\ got' = IF r.event = "touch" /\ got = 0 THEN r.cmd ELSE got
     /\ owed' = IF r.event = "touch" /\ got # 0 /\ r.cmd \in Command
                THEN [owed EXCEPT ![r.cmd] = @ - 1] ELSE owed
  /\ UNCHANGED <<panel, screen, data, last, bmsVars, pc>>

BugScanForgetsState ==
  /\ pc = "scan" /\ pc' = "main"
  /\ rx' = IdleRx /\ got' = 0
  /\ owed' = IF got \in Command THEN [owed EXCEPT ![got] = @ - 1] ELSE owed
  /\ UNCHANGED <<panel, mainVars, bmsVars, wire, resetPending>>

(* Nothing more has arrived: the command, if any, is posted to VcuLogic.   *)
ScanEnd ==
  /\ pc = "scan" /\ pc' = "main"
  /\ got' = 0
  /\ owed' = IF got \in Command THEN [owed EXCEPT ![got] = @ - 1] ELSE owed
  /\ UNCHANGED <<panel, mainVars, bmsVars, wire, rx, resetPending>>

-----------------------------------------------------------------------------
(* The panel and the sources of what is shown.                             *)

Press(c) ==
  /\ panel = "up" /\ Len(wire) + 3 <= WireCap
  /\ wire' = wire \o <<90, c, 255 - c>>
  /\ owed' = [owed EXCEPT ![c] = @ + 1]
  /\ UNCHANGED <<panel, mainVars, bmsVars, pc, rx, got, resetPending>>

FramesEnding(c, s) == Cardinality({i \in DOMAIN s : s[i] = 255 - c})

(* A restart, at any moment: it blanks both pages, cuts off what was not   *)
(* sent yet and, as the panel starts, announces itself.                    *)
Restart ==
  /\ panel' = "booting"
  /\ screen' = [f \in Field |-> Blank] /\ page' = [o \in Object |-> Blank]
  /\ \E n \in 0 .. Len(wire) :
       /\ n + 6 <= WireCap
       /\ wire' = SubSeq(wire, 1, n) \o <<0, 0, 0, 255, 255, 255>>
       /\ owed' = [c \in Command |->
                     owed[c] - FramesEnding(c, SubSeq(wire, n + 1, Len(wire)))]
  /\ UNCHANGED <<data, hasCached, last, bmsValid, bmsForce, cellAge, cache,
                 isWarm, pc, rx, got, resetPending>>

(* The panel is ready and says so.                                         *)
Ready ==
  /\ panel = "booting" /\ Len(wire) + 4 <= WireCap
  /\ panel' = "up" /\ wire' = wire \o <<136, 255, 255, 255>>
  /\ UNCHANGED <<mainVars, bmsVars, pc, rx, got, owed, resetPending>>

Change ==
  /\ \/ \E f \in Field, v \in Value :
          data' = [data EXCEPT ![f] = v] /\ UNCHANGED bmsValid
     \/ bmsValid' = ~bmsValid /\ UNCHANGED data
  /\ UNCHANGED <<panel, screen, hasCached, last, page, bmsForce, cellAge, cache,
                 isWarm, rxVars, pc, resetPending>>

-----------------------------------------------------------------------------
(* DisplayHMI::begin succeeded.  The panel may still be starting.          *)
Init ==
  /\ panel \in {"up", "booting"}
  /\ screen = [f \in Field |-> Blank] /\ page = [o \in Object |-> Blank]
  /\ wire = <<>> /\ rx = IdleRx /\ got = 0 /\ owed = [c \in Command |-> 0]
  /\ data \in [Field -> Value] /\ bmsValid \in BOOLEAN
  /\ pc = "main" /\ resetPending = FALSE
  /\ hasCached = FALSE /\ last \in [Field -> Value]
  /\ bmsForce = TRUE /\ cellAge = 0
  /\ cache = [o \in Object |-> Unsent] /\ isWarm = FALSE

Panel == Restart \/ Ready \/ \E c \in Command : Press(c)

Next == \/ UpdateScreen \/ BuildBmsNextionCommands \/ ScanByte \/ ScanEnd
        \/ Panel \/ Change

Spec == Init /\ [][Next]_vars

(* The HMI task keeps running and its scans end: the panel sends far less  *)
(* than the UART carries.  A byte that was sent arrives, and some scan     *)
(* reads it.                                                               *)
FairSpec ==
  /\ Spec
  /\ WF_vars(UpdateScreen) /\ WF_vars(BuildBmsNextionCommands)
  /\ WF_vars(ScanEnd) /\ SF_vars(ScanByte)

-----------------------------------------------------------------------------
(* Every variable stays in its type.                                       *)
TypeOK ==
  /\ panel \in {"up", "booting"} /\ pc \in {"main", "bms", "scan"}
  /\ screen \in [Field -> Value \cup {Blank}]
  /\ page \in [Object -> {Blank, "fixed", "ok", "critical"}]
  /\ wire \in Seq(0 .. 255) /\ Len(wire) <= WireCap
  /\ data \in [Field -> Value] /\ last \in [Field -> Value]
  /\ {bmsValid, hasCached, resetPending, bmsForce, isWarm} \subseteq BOOLEAN
  /\ cellAge \in 0 .. CellPeriod
  /\ cache \in [Object -> {Unsent, "fixed", "ok", "critical"}]
  /\ rx \in [touchState : 0 .. 2, pendingCmd : 0 .. 255, zeroRun : 0 .. 3,
             ffRun : 0 .. 2]
  /\ got \in {0} \cup Command
  /\ owed \in [Command -> Nat]

(* No command is missed, reported twice or invented: wherever scans cut    *)
(* the frames and whatever restarts leave of them, the presses owed are    *)
(* those whose last byte is still under way, and the one being reported.   *)
EveryPressAccounted ==
  \A c \in Command :
    owed[c] = FramesEnding(c, wire) + (IF got = c THEN 1 ELSE 0)

(* The main page's cache claims nothing the panel does not show, unless a  *)
(* restart's announcement is still under way: a field is left out of an    *)
(* update only if the panel shows it.                                      *)
CacheIsHonest ==
  panel = "up" /\ hasCached /\ (\A i \in DOMAIN wire : wire[i] # 136)
    => screen = last

PageShown == \A o \in Object : page[o] = Target(o)

(* A panel that never restarts is shown the whole BMS page, budget or not, *)
(* and every change of the warning level once it settles.                  *)
BmsPagePaints ==
  \A v \in BOOLEAN :
    [](panel = "up") /\ <>[](bmsValid = v) => <>[]PageShown

-----------------------------------------------------------------------------
(* What comments of the code and a document say and the code does not do.  *)

(* main.cpp:338: after a Nextion reset "print all BMS objects again";      *)
(* Teknik_Kontrol_Hazirlik_P7.md:91: the whole page is repainted within    *)
(* a tick, or 1.5 s.                                                        *)
BmsPageRepainted ==
  \A v \in BOOLEAN :
    <>[](panel = "up" /\ bmsValid = v) => <>[]PageShown
=============================================================================
