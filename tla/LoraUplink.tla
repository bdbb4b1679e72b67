---------------------------- MODULE LoraUplink ----------------------------
(***************************************************************************)
(* The loop of vTask_LoRa_UKS (main.cpp): it listens for the ground        *)
(* station's heartbeat, decides whether the link is up, and every TX       *)
(* period sends the current telemetry - with at most a burst of packets    *)
(* kept from the last outage before it - or, while the link is down, keeps *)
(* a sample in the offline buffer.                                         *)
(*                                                                         *)
(* A pass of the loop is cut where the CAN task may publish a snapshot in  *)
(* between or the radio's AUX line is read again: Listen, the Tick         *)
(* actions, one replayed packet at a time, the live packet.  The program   *)
(* compares clocks only as "now - then"; the model keeps those differences *)
(* ("ages"), all advanced by Listen, and stops counting at Horizon.        *)
(***************************************************************************)
EXTENDS Integers, Sequences

CONSTANTS
  LinkTimeout,   (* LINK_TIMEOUT_MS                                         *)
  BootGrace,     (* BOOT_LINK_GRACE_MS                                      *)
  TxPeriod,      (* LORA_TX_PERIOD_MS                                       *)
  SamplePeriod,  (* OFFLINE_SAMPLE_PERIOD_MS                                *)
  ReplayBurst,   (* REPLAY_BURST_PER_TICK                                   *)
  MaxDelay,      (* the longest pass of the loop                            *)
  Horizon,       (* bound: ages beyond it are not told apart                *)
  SeqMod,        (* 2^32: the sequence counter is a uint32_t                *)
  MaxTs,         (* bound: the number of snapshots the CAN task publishes   *)
  OB_CAPACITY,   (* packets the offline buffer holds                        *)
  UartResults    (* may uart_write_bytes succeed (TRUE), fail (FALSE)?      *)

ASSUME UplinkAssumption ==
  /\ {LinkTimeout, BootGrace, SamplePeriod} \subseteq Nat
  /\ {TxPeriod, ReplayBurst, MaxDelay, SeqMod, OB_CAPACITY} \subseteq Nat \ {0}
  /\ MaxTs \in Nat /\ Horizon \in Nat
  /\ \A t \in {LinkTimeout, BootGrace, SamplePeriod} :
       Horizon > t + TxPeriod + MaxDelay
  /\ UartResults \subseteq BOOLEAN /\ UartResults # {}

(* A packet is told by its TEL_timestampMs, the number of its snapshot; 0  *)
(* is the zeroed packet, and an empty mailbox.                             *)
Packet == 0 .. MaxTs
Nothing == 0

VARIABLES
  pc,          (* where the loop is                                         *)
  heard,       (* s_lastHeartbeatMs # 0                                     *)
  silence,     (* now - s_lastHeartbeatMs, or - LO_bootMs if ~heard         *)
  linkDown,    (* s_linkDown                                                *)
  txAge,       (* now - LO_lastTelemetryTick                                *)
  hasSamples,  (* LO_offlineHasSamples                                      *)
  sampleAge,   (* now - LO_lastOfflineSampleMs                              *)
  firstTs,     (* LO_offlineFirstTs                                         *)
  lastTs,      (* LO_offlineLastTs                                          *)
  burst,       (* LO_burst                                                  *)
  mailbox,     (* TEL_sensorDataQueue, a queue of length one                *)
  seq,         (* TEL_sequenceCounter                                       *)
  air,         (* history: the last packet written to the radio             *)
  gap,         (* history: time with data at hand and neither a heartbeat   *)
               (* nor a kept sample                                         *)
  buf, head, tail, count    (* the offline buffer                           *)

ringVars == <<buf, head, tail, count>>
linkVars == <<heard, silence, linkDown>>
sampleVars == <<hasSamples, sampleAge, firstTs, lastTs>>
radioVars == <<seq, air>>
vars == <<pc, linkVars, txAge, sampleVars, burst, mailbox, radioVars, gap,
          ringVars>>

Ring == INSTANCE OfflineBuffer WITH Zero <- Nothing

Later(age, d) == IF age + d > Horizon THEN Horizon ELSE age + d

-----------------------------------------------------------------------------
(* link_check_timeout_with_boot_grace, of the silence since then.          *)
BugCheckIgnoresGrace(quiet, known) == known /\ quiet > LinkTimeout

LinkCheckTimeout(quiet, known) ==
  IF known THEN quiet > LinkTimeout ELSE quiet > BootGrace

(* The read blocks for a while; of the bytes read only heartbeats matter.  *)
(* Then the link state follows, in every pass.  Going down starts a new    *)
(* outage: no sample taken yet.                                            *)
Listen(d, beat) ==
  /\ pc = "rx" /\ pc' = "tick"
  /\ heard' = (heard \/ beat)
  /\ silence' = IF beat THEN 0 ELSE Later(silence, d)
  /\ txAge' = Later(txAge, d)
  /\ gap' = IF beat \/ mailbox = Nothing THEN 0 ELSE Later(gap, d)
  /\ LET timeout == LinkCheckTimeout(silence', heard') IN
     /\ linkDown' = IF ~linkDown THEN timeout
                    ELSE ~(~timeout /\ heard')
     /\ IF timeout /\ ~linkDown
        THEN hasSamples' = FALSE /\ sampleAge' = Horizon
        ELSE hasSamples' = hasSamples /\ sampleAge' = Later(sampleAge, d)
  /\ UNCHANGED <<firstTs, lastTs, burst, mailbox, radioVars, ringVars>>

-----------------------------------------------------------------------------
BugNotDueRestarts ==
  /\ pc = "tick" /\ txAge < TxPeriod
  /\ pc' = "rx" /\ txAge' = 0
  /\ UNCHANGED <<linkVars, sampleVars, burst, mailbox, radioVars, gap, ringVars>>

(* Nothing more happens until a TX period has passed since the last tick.  *)
TickNotDue ==
  /\ pc = "tick" /\ txAge < TxPeriod
  /\ pc' = "rx"
  /\ UNCHANGED <<linkVars, txAge, sampleVars, burst, mailbox, radioVars, gap,
                 ringVars>>

Tick == /\ pc = "tick" /\ txAge >= TxPeriod
        /\ txAge' = 0
        /\ UNCHANGED <<linkVars, mailbox, radioVars>>

TickOnline ==
  /\ Tick /\ ~linkDown
  /\ pc' = "replay" /\ burst' = 0
  /\ UNCHANGED <<sampleVars, gap, ringVars>>

OfflineShouldSample == hasSamples => sampleAge >= SamplePeriod

BugSampleUnchecked ==
  /\ Tick /\ linkDown
  /\ OfflineShouldSample
  /\ Ring!Push(mailbox)
  /\ sampleAge' = 0 /\ gap' = 0
  /\ hasSamples' = TRUE
  /\ firstTs' = IF hasSamples THEN firstTs ELSE mailbox
  /\ lastTs' = mailbox
  /\ pc' = "rx" /\ UNCHANGED burst

(* Down: a sample is kept when none was in this outage or the sampling     *)
(* period has passed.                                                      *)
TickSample ==
  /\ Tick /\ linkDown
  /\ mailbox # Nothing /\ OfflineShouldSample
  /\ Ring!Push(mailbox)
  /\ sampleAge' = 0 /\ gap' = 0
  /\ hasSamples' = TRUE
  /\ firstTs' = IF hasSamples THEN firstTs ELSE mailbox
  /\ lastTs' = mailbox
  /\ pc' = "rx" /\ UNCHANGED burst

TickNoSample ==
  /\ Tick /\ linkDown
  /\ mailbox = Nothing \/ ~OfflineShouldSample
  /\ pc' = "rx"
  /\ UNCHANGED <<sampleVars, burst, gap, ringVars>>

-----------------------------------------------------------------------------
(* Telemetry::sendStatus: the counter moves only if the write succeeded.   *)
SendStatus(p) ==
  \E ok \in UartResults :
    IF ok THEN seq' = (seq + 1) % SeqMod /\ air' = p
    ELSE UNCHANGED radioVars

BugReplayKeepsPacket ==
  /\ pc = "replay" /\ burst < ReplayBurst /\ ~Ring!IsEmpty
  /\ SendStatus(Ring!Front)
  /\ burst' = burst + 1
  /\ UNCHANGED <<pc, linkVars, txAge, sampleVars, mailbox, gap, ringVars>>

(* AUX is high: the front packet is sent and dropped, whether or not the   *)
(* write succeeded.                                                        *)
ReplaySend ==
  /\ pc = "replay" /\ burst < ReplayBurst /\ ~Ring!IsEmpty
  /\ SendStatus(Ring!Front)
  /\ Ring!DropFront
  /\ burst' = burst + 1
  /\ UNCHANGED <<pc, linkVars, txAge, sampleVars, mailbox, gap>>

BugBusyDropsPacket ==
  /\ pc = "replay" /\ pc' = "live"
  /\ Ring!DropFront \/ (Ring!IsEmpty /\ UNCHANGED ringVars)
  /\ UNCHANGED <<linkVars, txAge, sampleVars, burst, mailbox, radioVars, gap>>

(* The burst is over, the buffer is empty, or AUX is low: on to the live   *)
(* packet.  A packet AUX held up stays in the buffer.                      *)
ReplayStop ==
  /\ pc = "replay" /\ pc' = "live"
  /\ UNCHANGED <<linkVars, txAge, sampleVars, burst, mailbox, radioVars, gap,
                 ringVars>>

LiveSend ==
  /\ pc = "live" /\ pc' = "rx"
  /\ mailbox # Nothing
  /\ SendStatus(mailbox)
  /\ UNCHANGED <<linkVars, txAge, sampleVars, burst, mailbox, gap, ringVars>>

(* The mailbox is still empty, or AUX is low: this tick sends nothing.     *)
LiveSkip ==
  /\ pc = "live" /\ pc' = "rx"
  /\ UNCHANGED <<linkVars, txAge, sampleVars, burst, mailbox, radioVars, gap,
                 ringVars>>

-----------------------------------------------------------------------------
(* vTask_CAN_Comm overwrites the mailbox with a newer snapshot.            *)
Publish ==
  /\ mailbox < MaxTs
  /\ mailbox' = mailbox + 1
  /\ UNCHANGED <<pc, linkVars, txAge, sampleVars, burst, radioVars, gap,
                 ringVars>>

-----------------------------------------------------------------------------
Init ==
  /\ pc = "rx"
  /\ heard = FALSE /\ silence = 0 /\ linkDown = FALSE
  /\ txAge = TxPeriod
  /\ hasSamples = FALSE /\ sampleAge = Horizon /\ firstTs = 0 /\ lastTs = 0
  /\ burst = 0 /\ mailbox = Nothing
  /\ seq = 0 /\ air = Nothing /\ gap = 0
  /\ Ring!Init

Loop == \/ \E d \in 1 .. MaxDelay, beat \in BOOLEAN : Listen(d, beat)
        \/ TickNotDue \/ TickOnline \/ TickSample \/ TickNoSample
        \/ ReplaySend \/ ReplayStop \/ LiveSend \/ LiveSkip

Next == Loop \/ Publish

Spec == Init /\ [][Next]_vars

(* The LoRa task keeps running; AUX returns to high again and again, so of *)
(* the packets ready to be replayed and of the live ones some find it so.  *)
FairSpec ==
  Spec /\ WF_vars(Loop) /\ SF_vars(ReplaySend) /\ SF_vars(LiveSend)

-----------------------------------------------------------------------------
(* Every variable stays in its type.                                       *)
TypeOK ==
  /\ pc \in {"rx", "tick", "replay", "live"}
  /\ heard \in BOOLEAN /\ linkDown \in BOOLEAN /\ hasSamples \in BOOLEAN
  /\ silence \in 0 .. Horizon /\ txAge \in 0 .. Horizon
  /\ sampleAge \in 0 .. Horizon /\ gap \in 0 .. Horizon
  /\ firstTs \in Packet /\ lastTs \in Packet
  /\ mailbox \in Packet /\ air \in Packet
  /\ burst \in 0 .. ReplayBurst
  /\ seq \in 0 .. SeqMod - 1
  /\ Ring!TypeOK

(* The buffer holds snapshots in the order they were taken, none newer     *)
(* than the mailbox, across outages that begin before the last one is      *)
(* replayed: the ground station tells a replay from a reboot by that.      *)
BacklogInOrder ==
  /\ \A i, j \in 1 .. count : i <= j => Ring!Contents[i] <= Ring!Contents[j]
  /\ \A i \in 1 .. count : Ring!Contents[i] \in 1 .. mailbox

(* The record has no holes: with data at hand, whenever no heartbeat was   *)
(* heard for the link timeout (the boot grace before the first), a sample  *)
(* was kept since, at most a TX period and one pass of the loop later; and *)
(* no pass ends with a hole longer than timeout and TX period.  With the   *)
(* program's constants that is 3.2 s once a heartbeat was heard, and 5.2 s *)
(* before.                                                                 *)
LinkGrace == IF heard THEN LinkTimeout ELSE BootGrace

OutageCovered ==
  /\ gap <= LinkGrace + TxPeriod + MaxDelay
  /\ pc = "rx" => gap <= LinkGrace + TxPeriod

Uplink ==
  INSTANCE StoreAndForward WITH
    down <- linkDown, backlog <- Ring!Contents, number <- seq,
    Capacity <- OB_CAPACITY

(* With a UART that accepts every write, the task implements store and     *)
(* forward: nothing is sent on a link that is down, no kept sample is lost *)
(* but by overflow or sent twice, and every packet gets the next number.   *)
ImplementsStoreAndForward == Uplink!Spec

(* When the link stays up the whole backlog is sent.                       *)
BacklogDrains == <>[]~linkDown => <>[](count = 0)

(* On a link that stays up live telemetry goes on for good: a packet that  *)
(* finds AUX low is lost, but not the next, and no backlog starves it.     *)
LiveFlows ==
  <>[](~linkDown /\ mailbox # Nothing) => []<><<LiveSend>>_vars
=============================================================================
