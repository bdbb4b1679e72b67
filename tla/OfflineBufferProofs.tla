------------------------ MODULE OfflineBufferProofs ------------------------
(***************************************************************************)
(* Proofs about OfflineBuffer: for every capacity and every set of packets *)
(* the ring's indices agree and its contents behave as the bounded queue.  *)
(***************************************************************************)
EXTENDS OfflineBuffer, TLAPS

(* A step of at most one buffer from a slot wraps at most once.            *)
LEMMA WrapOnce ==
  ASSUME NEW n \in Nat \ {0}, NEW h \in 0 .. n - 1, NEW k \in 0 .. n
  PROVE  (h + k) % n = IF h + k < n THEN h + k ELSE h + k - n
  OBVIOUS

(* The slot k places after a slot.                                         *)
LEMMA SlotAt ==
  ASSUME NEW h \in Slot, NEW k \in 0 .. OB_CAPACITY
  PROVE  /\ (h + k) % OB_CAPACITY \in Slot
         /\ (h + k) % OB_CAPACITY =
              IF h + k < OB_CAPACITY THEN h + k ELSE h + k - OB_CAPACITY
<1>1. (h + k) % OB_CAPACITY =
        IF h + k < OB_CAPACITY THEN h + k ELSE h + k - OB_CAPACITY
  BY BufferAssumption DEF Slot
<1>2. QED
  BY <1>1, BufferAssumption DEF Slot

(* The slot after a slot: the next one, or the first after the last.       *)
LEMMA AfterSlot ==
  ASSUME NEW i \in Slot
  PROVE  /\ After(i) \in Slot
         /\ After(i) = IF i = OB_CAPACITY - 1 THEN 0 ELSE i + 1
<1>1. 1 \in 0 .. OB_CAPACITY
  BY BufferAssumption
<1>2. After(i) \in Slot
      /\ After(i) = IF i + 1 < OB_CAPACITY THEN i + 1 ELSE i + 1 - OB_CAPACITY
  BY <1>1, SlotAt DEF After
<1>3. QED
  BY <1>2, BufferAssumption DEF Slot

-----------------------------------------------------------------------------
(* Every call keeps the indices inside s_buf and the count within it.      *)
THEOREM TypeCorrect == Spec => []TypeOK
<1>1. Init => TypeOK
  BY BufferAssumption DEF Init, TypeOK, Slot
<1>2. TypeOK /\ [Next]_ringVars => TypeOK'
  <2> SUFFICES ASSUME TypeOK, [Next]_ringVars PROVE TypeOK'
    OBVIOUS
  <2> USE DEF TypeOK
  <2>1. CASE Reset
    BY <2>1, BufferAssumption DEF Reset, Slot
  <2>2. CASE DropFront
    BY <2>2, AfterSlot, BufferAssumption DEF DropFront, IsEmpty
  <2>3. ASSUME NEW p \in Packet, Push(p) PROVE TypeOK'
    BY <2>3, AfterSlot, BufferAssumption DEF Push
  <2>4. CASE UNCHANGED ringVars
    BY <2>4 DEF ringVars
  <2>5. QED
    BY <2>1, <2>2, <2>3, <2>4 DEF Next
<1>3. QED
  BY <1>1, <1>2, PTL DEF Spec

(* tail stays count slots after head whatever the calls.                   *)
THEOREM IndexAgreement == Spec => []IndicesAgree
<1>1. Init => IndicesAgree
  BY BufferAssumption, SlotAt DEF Init, IndicesAgree, Slot
<1>2. TypeOK /\ TypeOK' /\ IndicesAgree /\ [Next]_ringVars => IndicesAgree'
  <2> SUFFICES ASSUME TypeOK, TypeOK', IndicesAgree, [Next]_ringVars
               PROVE  IndicesAgree'
    OBVIOUS
  <2>1. /\ count \in 0 .. OB_CAPACITY /\ count' \in 0 .. OB_CAPACITY
        /\ head \in Slot /\ tail \in Slot /\ head' \in Slot /\ tail' \in Slot
        /\ OB_CAPACITY \in Nat \ {0}
    BY BufferAssumption DEF TypeOK
  <2>2. tail = IF head + count < OB_CAPACITY THEN head + count
               ELSE head + count - OB_CAPACITY
    BY <2>1, SlotAt DEF IndicesAgree
  <2>3. SUFFICES tail' = IF head' + count' < OB_CAPACITY THEN head' + count'
                         ELSE head' + count' - OB_CAPACITY
    BY <2>1, SlotAt DEF IndicesAgree
  <2>4. CASE Reset
    BY <2>1, <2>4 DEF Reset
  <2>5. CASE DropFront
    BY <2>1, <2>2, <2>5, AfterSlot DEF DropFront, IsEmpty, Slot
  <2>6. ASSUME NEW p \in Packet, Push(p)
        PROVE  tail' = IF head' + count' < OB_CAPACITY THEN head' + count'
                       ELSE head' + count' - OB_CAPACITY
    <3>1. /\ After(head) = IF head = OB_CAPACITY - 1 THEN 0 ELSE head + 1
          /\ After(tail) = IF tail = OB_CAPACITY - 1 THEN 0 ELSE tail + 1
          /\ tail' = After(tail)
      BY <2>1, <2>6, AfterSlot DEF Push
    <3>2. CASE count = OB_CAPACITY
      <4>1. tail = head /\ head' = After(head) /\ count' = OB_CAPACITY
        BY <2>1, <2>2, <2>6, <3>2 DEF Push, Slot
      <4>2. QED
        BY <2>1, <3>1, <4>1 DEF Slot
    <3>3. CASE count # OB_CAPACITY
      <4>1. head' = head /\ count' = count + 1
        BY <2>6, <3>3 DEF Push
      <4>2. QED
        BY <2>1, <2>2, <3>1, <3>3, <4>1 DEF Slot
    <3>4. QED
      BY <3>2, <3>3
  <2>7. CASE UNCHANGED ringVars
    BY <2>2, <2>7 DEF ringVars
  <2>8. QED
    BY <2>4, <2>5, <2>6, <2>7 DEF Next
<1>3. QED
  BY <1>1, <1>2, TypeCorrect, PTL DEF Spec

-----------------------------------------------------------------------------
(* The contents are count packets, read from head on with one wrap.        *)
ContentsShape ==
  /\ Contents \in Seq(Packet) /\ Len(Contents) = count
  /\ \A i \in 1 .. count :
       Contents[i] = buf[IF head + i - 1 < OB_CAPACITY THEN head + i - 1
                         ELSE head + i - 1 - OB_CAPACITY]

(* In a state of the right type the contents have that shape.              *)
LEMMA ContentsType ==
  TypeOK => ContentsShape
<1> SUFFICES ASSUME TypeOK PROVE ContentsShape
  OBVIOUS
<1>1. ASSUME NEW i \in 1 .. count
      PROVE  /\ (head + (i - 1)) % OB_CAPACITY \in Slot
             /\ (head + (i - 1)) % OB_CAPACITY =
                  IF head + i - 1 < OB_CAPACITY THEN head + i - 1
                  ELSE head + i - 1 - OB_CAPACITY
  <2>1. head \in Slot /\ i - 1 \in 0 .. OB_CAPACITY /\ head \in Int
    BY BufferAssumption DEF TypeOK, Slot
  <2>2. QED
    BY <2>1, SlotAt, BufferAssumption
<1>2. \A i \in 1 .. count : buf[(head + (i - 1)) % OB_CAPACITY] \in Packet
  BY <1>1 DEF TypeOK
<1>3. Contents \in Seq(Packet) /\ Len(Contents) = count
  BY <1>2 DEF Contents, TypeOK
<1>4. QED
  BY <1>1, <1>3 DEF Contents, ContentsShape

(* ob_push appends, and forgets the oldest packet when the ring is full.   *)
LEMMA PushContents ==
  ASSUME TypeOK, TypeOK', IndicesAgree, NEW p \in Packet, Push(p)
  PROVE  Contents' = IF count = OB_CAPACITY THEN Append(Tail(Contents), p)
                     ELSE Append(Contents, p)
<1>1. /\ count \in 0 .. OB_CAPACITY /\ head \in Slot /\ tail \in Slot
      /\ OB_CAPACITY \in Nat \ {0} /\ buf \in [Slot -> Packet]
  BY BufferAssumption DEF TypeOK
<1>2. tail = IF head + count < OB_CAPACITY THEN head + count
             ELSE head + count - OB_CAPACITY
  BY <1>1, SlotAt DEF IndicesAgree
<1>3. ContentsShape
  BY ContentsType
<1>4. ContentsShape'
  BY ContentsType, PTL
<1>5. buf' = [buf EXCEPT ![tail] = p]
  BY DEF Push
<1>6. CASE count = OB_CAPACITY
  <2>1. /\ head' = (IF head = OB_CAPACITY - 1 THEN 0 ELSE head + 1)
        /\ count' = count /\ tail = head
    BY <1>1, <1>2, <1>6, AfterSlot DEF Push, Slot
  <2>2. ASSUME NEW i \in 1 .. count
        PROVE  Contents'[i] = Append(Tail(Contents), p)[i]
    <3>1. CASE i = count
      BY <1>1, <1>3, <1>4, <1>5, <1>6, <2>1, <3>1 DEF Slot, ContentsShape
    <3>2. CASE i < count
      <4> DEFINE j == IF head + i < OB_CAPACITY THEN head + i
                      ELSE head + i - OB_CAPACITY
      <4>1. j \in Slot /\ j # tail
        BY <1>1, <1>6, <2>1, <3>2 DEF Slot
      <4>2. Contents'[i] = buf'[j]
        BY <1>1, <1>4, <1>6, <2>1, <3>2 DEF Slot, ContentsShape
      <4>3. buf'[j] = buf[j]
        BY <1>1, <1>5, <4>1
      <4>4. i + 1 \in 1 .. count /\ Contents[i + 1] = buf[j]
        BY <1>1, <1>3, <3>2 DEF ContentsShape, Slot
      <4>5. Append(Tail(Contents), p)[i] = Contents[i + 1]
        BY <1>1, <1>3, <3>2 DEF ContentsShape
      <4>6. QED
        BY <4>2, <4>3, <4>4, <4>5
    <3>3. i = count \/ i < count
      BY <1>1
    <3>4. QED
      BY <3>1, <3>2, <3>3
  <2>3. QED
    BY <1>1, <1>3, <1>4, <1>6, <2>1, <2>2 DEF ContentsShape
<1>7. CASE count # OB_CAPACITY
  <2>1. head' = head /\ count' = count + 1
    BY <1>7 DEF Push
  <2>2. ASSUME NEW i \in 1 .. count + 1
        PROVE  Contents'[i] = Append(Contents, p)[i]
    <3>1. CASE i = count + 1
      BY <1>1, <1>2, <1>3, <1>4, <1>5, <1>7, <2>1, <3>1 DEF Slot, ContentsShape
    <3>2. CASE i \in 1 .. count
      <4> DEFINE j == IF head + i - 1 < OB_CAPACITY THEN head + i - 1
                      ELSE head + i - 1 - OB_CAPACITY
      <4>1. j \in Slot /\ j # tail
        BY <1>1, <1>2, <1>7, <3>2 DEF Slot
      <4>2. Contents'[i] = buf'[j]
        BY <1>1, <1>4, <2>1, <3>2 DEF ContentsShape
      <4>3. buf'[j] = buf[j]
        BY <1>1, <1>5, <4>1
      <4>4. Contents[i] = buf[j] /\ Append(Contents, p)[i] = Contents[i]
        BY <1>1, <1>3, <3>2 DEF ContentsShape
      <4>5. QED
        BY <4>2, <4>3, <4>4
    <3>3. i = count + 1 \/ i \in 1 .. count
      BY <1>1
    <3>4. QED
      BY <3>1, <3>2, <3>3
  <2>3. QED
    BY <1>1, <1>3, <1>4, <1>7, <2>1, <2>2 DEF ContentsShape
<1>8. QED
  BY <1>6, <1>7

(* ob_drop_front removes the oldest packet and no other.                   *)
LEMMA DropContents ==
  ASSUME TypeOK, TypeOK', DropFront
  PROVE  Contents # <<>> /\ Contents' = Tail(Contents)
<1>1. /\ count \in 1 .. OB_CAPACITY /\ head \in Slot /\ count' = count - 1
      /\ OB_CAPACITY \in Nat \ {0} /\ buf' = buf
      /\ head' = (IF head = OB_CAPACITY - 1 THEN 0 ELSE head + 1)
  BY BufferAssumption, AfterSlot DEF TypeOK, DropFront, IsEmpty
<1>2. ContentsShape
  BY ContentsType
<1>3. ContentsShape'
  BY ContentsType, PTL
<1>4. ASSUME NEW i \in 1 .. count' PROVE Contents'[i] = Tail(Contents)[i]
  BY <1>1, <1>2, <1>3 DEF Slot, ContentsShape
<1>5. QED
  BY <1>1, <1>2, <1>3, <1>4 DEF ContentsShape

(* The ring implements the bounded drop-oldest queue, for every capacity.  *)
THEOREM FifoRefinement == Spec => ImplementsFifo
<1>1. Init => Fifo!Init
  BY DEF Init, Contents, Fifo!Init
<1>2. TypeOK /\ TypeOK' /\ IndicesAgree /\ [Next]_ringVars
        => [Fifo!Next]_Contents
  <2> SUFFICES ASSUME TypeOK, TypeOK', IndicesAgree, [Next]_ringVars
               PROVE  [Fifo!Next]_Contents
    OBVIOUS
  <2>1. CASE Reset
    BY <2>1 DEF Reset, Contents, Fifo!Next, Fifo!Clear
  <2>2. CASE DropFront
    BY <2>2, DropContents DEF Fifo!Next, Fifo!Get
  <2>3. ASSUME NEW p \in Packet, Push(p) PROVE Fifo!Next
    BY <2>3, PushContents, ContentsType
       DEF Fifo!Next, Fifo!Put, ContentsShape
  <2>4. CASE UNCHANGED ringVars
    BY <2>4 DEF ringVars, Contents
  <2>5. QED
    BY <2>1, <2>2, <2>3, <2>4 DEF Next
<1>3. QED
  BY <1>1, <1>2, TypeCorrect, IndexAgreement, PTL DEF Spec, ImplementsFifo, Fifo!Spec
=============================================================================
