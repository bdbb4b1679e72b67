-------------------------- MODULE StoreAndForward --------------------------
(***************************************************************************)
(* What the telemetry uplink promises, with clocks, heartbeats and the     *)
(* radio's busy line left out: while the link is down nothing is sent and  *)
(* the newest Capacity samples are kept; while it is up, kept samples are  *)
(* sent oldest first, each exactly once, between current ones; and every   *)
(* packet sent takes the next sequence number.                             *)
(***************************************************************************)
EXTENDS Integers, Sequences

CONSTANTS Capacity, Packet, SeqMod
VARIABLES
  down,      (* is the link considered down?                                *)
  backlog,   (* the samples kept, oldest first                              *)
  number,    (* the sequence number of the next packet                      *)
  air        (* the last packet sent                                        *)

sfVars == <<down, backlog, number, air>>

Init == down = FALSE /\ backlog = <<>> /\ number = 0 /\ air \in Packet

Lose == ~down /\ down' = TRUE /\ UNCHANGED <<backlog, number, air>>
Regain == down /\ down' = FALSE /\ UNCHANGED <<backlog, number, air>>

Send(p) == /\ ~down /\ UNCHANGED down
           /\ air' = p /\ number' = (number + 1) % SeqMod

Current == /\ \E p \in Packet : Send(p)
           /\ UNCHANGED backlog

Replay == /\ backlog # <<>> /\ Send(Head(backlog))
          /\ backlog' = Tail(backlog)

Keep == /\ down
        /\ \E p \in Packet :
             backlog' = IF Len(backlog) = Capacity
                        THEN Append(Tail(backlog), p) ELSE Append(backlog, p)
        /\ UNCHANGED <<down, number, air>>

Next == Lose \/ Regain \/ Current \/ Replay \/ Keep

Spec == Init /\ [][Next]_sfVars
=============================================================================
