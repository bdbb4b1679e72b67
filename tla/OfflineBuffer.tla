--------------------------- MODULE OfflineBuffer ---------------------------
(***************************************************************************)
(* The static ring buffer of lib/OfflineBuffer, which keeps the telemetry  *)
(* packets sampled while the radio link is down.  s_head, s_tail and       *)
(* s_count are kept apart, as in the code: nothing there computes one from *)
(* the others, so that they agree is a property, not a definition.         *)
(*                                                                         *)
(* The operators are the functions of OfflineBuffer.h; LoraUplink calls    *)
(* them from the LoRa task.  Spec is a client that calls them in any order.*)
(***************************************************************************)
EXTENDS Integers, Sequences

CONSTANTS
  OB_CAPACITY,  (* number of slots                                          *)
  Packet,       (* the packets, here what tells one TelemetryData from another *)
  Zero          (* the zeroed packet static storage starts with             *)

ASSUME BufferAssumption ==
  OB_CAPACITY \in Nat \ {0} /\ Zero \in Packet

Slot == 0 .. OB_CAPACITY - 1

VARIABLES
  buf,    (* s_buf                                                          *)
  head,   (* s_head: the oldest packet                                      *)
  tail,   (* s_tail: the next slot to write                                 *)
  count   (* s_count                                                        *)

ringVars == <<buf, head, tail, count>>

After(i) == (i + 1) % OB_CAPACITY

Init == /\ buf = [i \in Slot |-> Zero]
        /\ head = 0 /\ tail = 0 /\ count = 0

-----------------------------------------------------------------------------
BugResetForgetsTail ==
  head' = 0 /\ count' = 0 /\ UNCHANGED <<buf, tail>>

Reset == head' = 0 /\ tail' = 0 /\ count' = 0 /\ UNCHANGED buf

BugPushKeepsHead(p) ==
  /\ UNCHANGED head
  /\ count' = IF count = OB_CAPACITY THEN count ELSE count + 1
  /\ buf' = [buf EXCEPT ![tail] = p]
  /\ tail' = After(tail)

Push(p) ==
  /\ IF count = OB_CAPACITY
     THEN head' = After(head) /\ count' = count
     ELSE head' = head /\ count' = count + 1
  /\ buf' = [buf EXCEPT ![tail] = p]
  /\ tail' = After(tail)

IsEmpty == count = 0

(* The packet ob_peek copies out when it returns true.                     *)
Front == buf[head]

(* ob_drop_front when it returns true; ob_pop is ob_peek and this.         *)
DropFront ==
  /\ ~IsEmpty
  /\ head' = After(head)
  /\ count' = count - 1
  /\ UNCHANGED <<buf, tail>>

-----------------------------------------------------------------------------
Next == Reset \/ DropFront \/ \E p \in Packet : Push(p)

Spec == Init /\ [][Next]_ringVars

-----------------------------------------------------------------------------
(* Indices address slots of s_buf and no more packets are counted than it  *)
(* holds.                                                                  *)
TypeOK == /\ buf \in [Slot -> Packet]
          /\ head \in Slot /\ tail \in Slot
          /\ count \in 0 .. OB_CAPACITY

(* The three indices agree after any sequence of calls: tail is count      *)
(* slots after head, wrap-arounds and overflows included.                  *)
IndicesAgree == tail = (head + count) % OB_CAPACITY

(* The packets from the oldest to the newest.                              *)
Contents == [i \in 1 .. count |-> buf[(head + (i - 1)) % OB_CAPACITY]]

Fifo == INSTANCE BoundedFifo WITH fifo <- Contents, Capacity <- OB_CAPACITY

(* Every call acts on the contents as the bounded queue's operation does:  *)
(* order is kept and only an overflow loses a packet, the oldest one.      *)
ImplementsFifo == Fifo!Spec
=============================================================================
