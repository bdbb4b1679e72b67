---------------------------- MODULE RelayManager ----------------------------
(***************************************************************************)
(* The relay driver (RelayManager.cpp) register by register: begin(), the  *)
(* calls that move contactors, and the MCP23S17 expander they write to,    *)
(* one SPI transaction at a time.  The outputs are active-low: a contactor *)
(* is energised when its bank's pins are outputs and its latch is low.     *)
(*                                                                         *)
(* The expander keeps its registers when only the ESP restarts, and has    *)
(* low latches on inputs after a power cycle.  VcuLogic models the same    *)
(* calls as one step each.                                                 *)
(***************************************************************************)
EXTENDS Integers, Sequences

CONSTANTS
  RELAY_TOTAL_CHANNELS,
  PerBank        (* channels of a bank: eight                               *)

RelayAssumption ==
  RELAY_TOTAL_CHANNELS \in Nat \ {0} /\ PerBank \in Nat \ {0}

Channels == 0 .. RELAY_TOTAL_CHANNELS - 1
Banks == {"A", "B"}
Bank(c) == IF c < PerBank THEN "A" ELSE "B"

VARIABLES
  stage,         (* how far app_main has come                               *)
  relayState,    (* s_relayState, the channels that are on                  *)
  initialized,   (* s_initialized                                           *)
  todo,          (* register writes the current call has still to make      *)
  low,           (* OLATA, OLATB: the channels whose latch is low           *)
  outputs,       (* IODIRA, IODIRB: the banks whose pins are outputs        *)
  missed         (* history: registers whose last write failed              *)

chip == <<low, outputs, missed>>
vars == <<stage, relayState, initialized, todo, chip>>

Energised == {c \in low : Bank(c) \in outputs}

Olat(b, on) == [reg |-> "OLAT", bank |-> b, low |-> on]
Iodir(b) == [reg |-> "IODIR", bank |-> b, low |-> {}]
Latches(on) == <<Olat("A", on), Olat("B", on)>>

-----------------------------------------------------------------------------
(* begin(): latches first, directions second.  A bus that cannot be        *)
(* initialised makes app_main return.                                      *)
BugDirectionsFirst == <<Iodir("A"), Iodir("B")>> \o Latches({})
BeginWrites == Latches({}) \o <<Iodir("A"), Iodir("B")>>

Begin ==
  /\ stage = "boot"
  /\ \/ stage' = "begin" /\ todo' = BeginWrites
     \/ stage' = "halted" /\ UNCHANGED todo
  /\ UNCHANGED <<relayState, initialized, chip>>

(* begin() returns true; VcuLogic::init opens everything once more.        *)
Begun ==
  /\ stage = "begin" /\ todo = <<>>
  /\ stage' = "init" /\ initialized' = TRUE
  /\ relayState' = {} /\ todo' = Latches({})
  /\ UNCHANGED chip

Started ==
  /\ stage = "init" /\ todo = <<>> /\ stage' = "run"
  /\ UNCHANGED <<relayState, initialized, todo, chip>>

-----------------------------------------------------------------------------
(* writeRegister: a transaction that fails is only logged, and the caller  *)
(* goes on with its next one.                                              *)
WriteRegister ==
  /\ todo # <<>> /\ todo' = Tail(todo)
  /\ LET w == Head(todo) IN
     \/ /\ missed' = missed \cup {<<w.reg, w.bank>>}
        /\ UNCHANGED <<low, outputs>>
     \/ /\ missed' = missed \ {<<w.reg, w.bank>>}
        /\ IF w.reg = "OLAT"
           THEN /\ low' = {c \in low : Bank(c) # w.bank}
                          \cup {c \in w.low : Bank(c) = w.bank}
                /\ UNCHANGED outputs
           ELSE outputs' = outputs \cup {w.bank} /\ UNCHANGED low
  /\ UNCHANGED <<stage, relayState, initialized>>

(* The VCU task makes one call after the other.                            *)
Call == stage = "run" /\ todo = <<>> /\ UNCHANGED <<stage, initialized, chip>>

(* A channel that does not exist changes nothing.                          *)
SetRelay(c, on) ==
  /\ Call /\ initialized /\ c < RELAY_TOTAL_CHANNELS
  /\ relayState' = IF on THEN relayState \cup {c} ELSE relayState \ {c}
  /\ todo' = Latches(relayState')

AllOn ==
  /\ Call /\ initialized
  /\ relayState' = Channels /\ todo' = Latches(Channels)

BugAllOffOneBank ==
  /\ Call /\ relayState' = {} /\ todo' = <<Olat("A", {})>>

AllOff == Call /\ relayState' = {} /\ todo' = Latches({})

-----------------------------------------------------------------------------
Boot == /\ stage' = "boot" /\ relayState' = {} /\ initialized' = FALSE
        /\ todo' = <<>>

(* The ESP restarts in the middle of anything; the contactors stay as      *)
(* they are.                                                               *)
EspReset == Boot /\ UNCHANGED chip

PowerCycle == Boot /\ low' = Channels /\ outputs' = {} /\ missed' = {}

Init ==
  /\ stage = "boot" /\ relayState = {} /\ initialized = FALSE /\ todo = <<>>
  /\ low = Channels /\ outputs = {} /\ missed = {}

(* The calls are made with every channel, and with one there is not.       *)
Next ==
  \/ Begin \/ Begun \/ Started \/ WriteRegister
  \/ \E c \in 0 .. RELAY_TOTAL_CHANNELS, on \in BOOLEAN : SetRelay(c, on)
  \/ AllOn \/ AllOff
  \/ EspReset \/ PowerCycle

Spec == Init /\ [][Next]_vars

-----------------------------------------------------------------------------
(* Every variable stays in its type.                                       *)
TypeOK ==
  /\ stage \in {"boot", "begin", "init", "run", "halted"}
  /\ relayState \in SUBSET Channels /\ initialized \in BOOLEAN
  /\ todo \in Seq([reg : {"OLAT", "IODIR"}, bank : Banks,
                   low : SUBSET Channels])
  /\ low \in SUBSET Channels /\ outputs \in SUBSET Banks
  /\ missed \subseteq {"OLAT", "IODIR"} \X Banks

(* No contactor ever moves but to where it is commanded, between any two   *)
(* SPI transactions: not while begin() turns pins into outputs after a     *)
(* power cycle, not while a restarted ESP takes over an expander with      *)
(* closed contactors, and not in one bank while the other is written.  The *)
(* exception is a bank whose latch write failed in begin(): making its     *)
(* pins outputs energises it.                                              *)
MovesAsCommanded ==
  [][/\ \A c \in Energised' \ Energised :
          c \in relayState' \/ (stage = "begin" /\ <<"OLAT", Bank(c)>> \in missed)
     /\ (Energised \ Energised') \cap relayState' = {}]_vars

(* Whatever calls came before, whichever of their writes failed and        *)
(* wherever the ESP restarted, a call that returns has done what it was    *)
(* asked in every bank that its own latch write reached: nothing else is   *)
(* energised there, and all that was asked for is, unless the direction    *)
(* was lost in begin().                                                    *)
DoneAsCommanded ==
  stage = "run" /\ todo = <<>> =>
    \A c \in Channels : <<"OLAT", Bank(c)>> \notin missed =>
      /\ c \in Energised => c \in relayState
      /\ c \in relayState => c \in Energised \/ <<"IODIR", Bank(c)>> \in missed
=============================================================================
