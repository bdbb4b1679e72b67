---------------------------- MODULE BoundedFifo ----------------------------
(***************************************************************************)
(* What OfflineBuffer.h promises: a first-in first-out queue of at most    *)
(* Capacity packets that makes room for a new packet by forgetting its     *)
(* oldest one.                                                             *)
(***************************************************************************)
EXTENDS Integers, Sequences

CONSTANTS Capacity, Packet
VARIABLE fifo

Init == fifo = <<>>

Put(p) == fifo' = IF Len(fifo) = Capacity THEN Append(Tail(fifo), p)
                  ELSE Append(fifo, p)

Get == fifo # <<>> /\ fifo' = Tail(fifo)

Clear == fifo' = <<>>

Next == Get \/ Clear \/ \E p \in Packet : Put(p)

Spec == Init /\ [][Next]_fifo
=============================================================================
