-------------------------- MODULE LoraUplinkProofs --------------------------
(***************************************************************************)
(* Proofs about LoraUplink, for every period, timeout, buffer size and     *)
(* number of snapshots.  The facts about the ring buffer are those of      *)
(* OfflineBufferProofs, read at the uplink's packets.                      *)
(***************************************************************************)
EXTENDS LoraUplink, TLAPS

RingFacts == INSTANCE OfflineBufferProofs WITH Zero <- Nothing

(* How the clocks, the link and the gap in the record hang together.  The  *)
(* gap began no earlier than the silence.  Once the link is down the gap   *)
(* exceeds the grace - or, after a first sample, the sampling period - by  *)
(* no more than what has passed of the current TX period.                  *)
OutageInv ==
  /\ txAge <= IF pc = "tick" THEN TxPeriod + MaxDelay ELSE TxPeriod
  /\ gap <= silence
  /\ mailbox = Nothing => gap = 0
  /\ linkDown <=> silence > LinkGrace
  /\ linkDown /\ ~hasSamples => gap <= LinkGrace + txAge
  /\ linkDown /\ hasSamples => gap <= sampleAge /\ gap <= SamplePeriod + txAge
  /\ pc \in {"replay", "live"} => ~linkDown

-----------------------------------------------------------------------------
(* The buffer of the uplink is an OfflineBuffer of packets.                *)
LEMMA RingAssumption == RingFacts!BufferAssumption
  BY UplinkAssumption DEF RingFacts!BufferAssumption, Packet, Nothing

LEMMA SameRing ==
  /\ Ring!TypeOK <=> RingFacts!TypeOK
  /\ Ring!Contents = RingFacts!Contents
  /\ \A p : Ring!Push(p) <=> RingFacts!Push(p)
  /\ Ring!DropFront <=> RingFacts!DropFront
  /\ Ring!Init <=> RingFacts!Init
  BY DEF Ring!TypeOK, RingFacts!TypeOK, Ring!Contents, RingFacts!Contents,
         Ring!Push, RingFacts!Push, Ring!DropFront, RingFacts!DropFront,
         Ring!Init, RingFacts!Init, Ring!IsEmpty, RingFacts!IsEmpty,
         Ring!After, RingFacts!After, Ring!Slot, RingFacts!Slot

(* Only three actions touch the buffer, and each calls it once.            *)
LEMMA RingStep ==
  ASSUME mailbox \in Packet, [Next]_vars
  PROVE  [RingFacts!Next]_(RingFacts!ringVars)
<1> USE DEF RingFacts!Next, RingFacts!ringVars, ringVars
<1>1. CASE TickSample
  BY <1>1, SameRing DEF TickSample
<1>2. CASE ReplaySend
  BY <1>2, SameRing DEF ReplaySend
<1>3. CASE UNCHANGED ringVars
  BY <1>3
<1>4. QED
  BY <1>1, <1>2, <1>3
     DEF Next, Loop, Listen, TickNotDue, Tick, TickOnline, TickNoSample,
         ReplayStop, LiveSend, LiveSkip, Publish, vars

(* The mailbox only ever moves on to the next snapshot.                    *)
LEMMA MailboxStep ==
  ASSUME mailbox \in Packet, [Next]_vars
  PROVE  mailbox' \in Packet /\ mailbox' >= mailbox
<1>1. CASE Publish
  BY <1>1, UplinkAssumption DEF Publish, Packet
<1>2. CASE UNCHANGED mailbox
  BY <1>2 DEF Packet
<1>3. QED
  BY <1>1, <1>2
     DEF Next, Loop, Listen, TickNotDue, Tick, TickOnline, TickSample,
         TickNoSample, ReplaySend, ReplayStop, LiveSend, LiveSkip, vars

(* The uplink uses the buffer only through its functions.                  *)
THEOREM RingUsed == Spec => RingFacts!Spec /\ [](mailbox \in Packet)
<1> DEFINE Boxed == mailbox \in Packet
<1>1. Init => RingFacts!Init /\ Boxed
  BY SameRing, UplinkAssumption DEF Init, Packet, Nothing
<1>2. Boxed /\ [Next]_vars
        => [RingFacts!Next]_(RingFacts!ringVars) /\ Boxed'
  BY RingStep, MailboxStep
<1> HIDE DEF Boxed
<1>3. QED
  <2>1. Spec => RingFacts!Spec /\ []Boxed
    BY <1>1, <1>2, PTL DEF Spec, RingFacts!Spec
  <2>2. QED
    BY <2>1 DEF Boxed

(* Hence what holds of the buffer for any client holds here.               *)
THEOREM RingInvariants ==
  Spec => [](Ring!TypeOK /\ RingFacts!TypeOK /\ RingFacts!IndicesAgree)
<1>1. RingFacts!TypeOK => Ring!TypeOK
  BY SameRing
<1>2. RingFacts!Spec => []RingFacts!TypeOK /\ []RingFacts!IndicesAgree
  BY RingAssumption, RingFacts!TypeCorrect, RingFacts!IndexAgreement
<1>3. QED
  BY <1>1, <1>2, RingUsed, PTL

-----------------------------------------------------------------------------
(* Adding to an age leaves an age, never less than before.                 *)
LEMMA LaterAge ==
  ASSUME NEW a \in 0 .. Horizon, NEW d \in 1 .. MaxDelay
  PROVE  /\ Later(a, d) \in 0 .. Horizon
         /\ Later(a, d) >= a /\ Later(a, d) <= a + d
         /\ a + d <= Horizon => Later(a, d) = a + d
  BY UplinkAssumption DEF Later

(* Sending keeps the counter a uint32_t and the radio's packet a packet.   *)
LEMMA SendType ==
  ASSUME NEW p \in Packet, seq \in 0 .. SeqMod - 1, air \in Packet, SendStatus(p)
  PROVE  seq' \in 0 .. SeqMod - 1 /\ air' \in Packet
<1>1. (seq + 1) % SeqMod \in 0 .. SeqMod - 1
  BY UplinkAssumption
<1>2. QED
  BY <1>1 DEF SendStatus, radioVars

(* What a packet replayed from the buffer is.                              *)
LEMMA FrontType ==
  ASSUME Ring!TypeOK PROVE Ring!Front \in Packet
  BY DEF Ring!TypeOK, Ring!Front

(* Every variable stays in its type, the ages below their bound and the    *)
(* sequence counter within its width included.                             *)
THEOREM TypeCorrect == Spec => []TypeOK
<1>1. Init => TypeOK
  <2> SUFFICES ASSUME Init PROVE TypeOK
    OBVIOUS
  <2>1. Ring!TypeOK
    BY SameRing, UplinkAssumption
       DEF Init, Ring!Init, Ring!TypeOK, Ring!Slot, Nothing, Packet
  <2>2. /\ TxPeriod \in 0 .. Horizon /\ Horizon \in 0 .. Horizon /\ 0 \in 0 .. Horizon
        /\ 0 \in Packet /\ 0 \in 0 .. ReplayBurst /\ 0 \in 0 .. SeqMod - 1
    BY UplinkAssumption DEF Packet
  <2>3. QED
    BY <2>1, <2>2 DEF Init, TypeOK, Nothing
<1>2. TypeOK /\ Ring!TypeOK' /\ [Next]_vars => TypeOK'
  <2> SUFFICES ASSUME TypeOK, Ring!TypeOK', [Next]_vars PROVE TypeOK'
    OBVIOUS
  <2> USE DEF TypeOK, linkVars, sampleVars, radioVars
  <2>0. 0 \in 0 .. Horizon /\ Horizon \in 0 .. Horizon /\ 0 \in 0 .. ReplayBurst
    BY UplinkAssumption
  <2>1. ASSUME NEW d \in 1 .. MaxDelay, NEW beat \in BOOLEAN, Listen(d, beat)
        PROVE  TypeOK'
    <3>1. /\ silence' \in 0 .. Horizon /\ txAge' \in 0 .. Horizon
          /\ gap' \in 0 .. Horizon /\ sampleAge' \in 0 .. Horizon
      BY <2>0, <2>1, LaterAge DEF Listen
    <3>2. /\ pc' = "tick" /\ heard' \in BOOLEAN /\ hasSamples' \in BOOLEAN
          /\ UNCHANGED <<firstTs, lastTs, burst, mailbox, seq, air>>
      BY <2>1 DEF Listen
    <3>3. linkDown' \in BOOLEAN
      <4> DEFINE timeout == LinkCheckTimeout(silence', heard')
      <4>1. timeout \in BOOLEAN
        <5>1. CASE heard'
          BY <5>1 DEF LinkCheckTimeout
        <5>2. CASE ~heard'
          BY <5>2 DEF LinkCheckTimeout
        <5>3. QED
          BY <5>1, <5>2
      <4>2. linkDown' = IF ~linkDown THEN timeout ELSE ~(~timeout /\ heard')
        BY <2>1 DEF Listen
      <4>3. (~(~timeout /\ heard')) \in BOOLEAN
        OBVIOUS
      <4> HIDE DEF timeout
      <4>4. QED
        BY <4>1, <4>2, <4>3
    <3>4. QED
      BY <3>1, <3>2, <3>3
  <2>2. CASE TickNotDue
    BY <2>2 DEF TickNotDue
  <2>3. CASE TickOnline
    BY <2>0, <2>3 DEF TickOnline, Tick
  <2>4. CASE TickSample
    BY <2>0, <2>4 DEF TickSample, Tick
  <2>5. CASE TickNoSample
    BY <2>0, <2>5 DEF TickNoSample, Tick
  <2>6. CASE ReplaySend
    <3>1. seq' \in 0 .. SeqMod - 1 /\ air' \in Packet
      BY <2>6, SendType, FrontType DEF ReplaySend
    <3>2. burst' \in 0 .. ReplayBurst
      BY <2>6, UplinkAssumption DEF ReplaySend
    <3>3. QED
      BY <2>6, <3>1, <3>2 DEF ReplaySend
  <2>7. CASE ReplayStop \/ LiveSkip
    BY <2>7 DEF ReplayStop, LiveSkip
  <2>8. CASE LiveSend
    <3>1. seq' \in 0 .. SeqMod - 1 /\ air' \in Packet
      BY <2>8, SendType DEF LiveSend
    <3>2. QED
      BY <2>8, <3>1 DEF LiveSend
  <2>9. CASE Publish
    BY <2>9, MailboxStep DEF Publish
  <2>10. CASE UNCHANGED vars
    BY <2>10 DEF vars
  <2>11. QED
    BY <2>1, <2>2, <2>3, <2>4, <2>5, <2>6, <2>7, <2>8, <2>9, <2>10 DEF Next, Loop
<1>3. QED
  BY <1>1, <1>2, RingInvariants, PTL DEF Spec

-----------------------------------------------------------------------------
(* Hearing a heartbeat, or not, moves the link state, the gap and the ages *)
(* together.                                                               *)
LEMMA ListenKeepsOutageInv ==
  ASSUME TypeOK, OutageInv, NEW d \in 1 .. MaxDelay, NEW beat \in BOOLEAN,
         Listen(d, beat)
  PROVE  OutageInv'
<1>1. /\ LinkTimeout \in Nat /\ BootGrace \in Nat /\ SamplePeriod \in Nat
      /\ TxPeriod \in Nat \ {0} /\ MaxDelay \in Nat \ {0} /\ Horizon \in Nat
      /\ Horizon > LinkTimeout + TxPeriod + MaxDelay
      /\ Horizon > BootGrace + TxPeriod + MaxDelay
      /\ Horizon > SamplePeriod + TxPeriod + MaxDelay
  BY UplinkAssumption
<1>2. /\ silence \in 0 .. Horizon /\ txAge \in 0 .. Horizon
      /\ sampleAge \in 0 .. Horizon /\ gap \in 0 .. Horizon
      /\ heard \in BOOLEAN /\ linkDown \in BOOLEAN /\ hasSamples \in BOOLEAN
  BY DEF TypeOK
<1>3. /\ pc = "rx" /\ pc' = "tick" /\ heard' = (heard \/ beat)
      /\ silence' = IF beat THEN 0 ELSE Later(silence, d)
      /\ txAge' = Later(txAge, d)
      /\ gap' = IF beat \/ mailbox = Nothing THEN 0 ELSE Later(gap, d)
      /\ mailbox' = mailbox
  BY DEF Listen
<1>4. txAge' = txAge + d /\ txAge' <= TxPeriod + MaxDelay
  BY <1>1, <1>2, <1>3, LaterAge DEF OutageInv
<1>5. gap' <= silence' /\ (mailbox' = Nothing => gap' = 0)
  BY <1>1, <1>2, <1>3 DEF OutageInv, Later
<1> DEFINE timeout == LinkCheckTimeout(silence', heard')
<1>6. timeout <=> silence' > LinkGrace'
  BY DEF LinkCheckTimeout, LinkGrace
<1>7. /\ linkDown' = (IF ~linkDown THEN timeout ELSE ~(~timeout /\ heard'))
      /\ IF timeout /\ ~linkDown
         THEN hasSamples' = FALSE /\ sampleAge' = Horizon
         ELSE hasSamples' = hasSamples /\ sampleAge' = Later(sampleAge, d)
  BY DEF Listen
<1> HIDE DEF timeout
<1>8. LinkGrace' \in Nat /\ LinkGrace \in Nat
  BY <1>1 DEF LinkGrace
<1>9. CASE beat
  <2>1. silence' = 0 /\ gap' = 0 /\ heard'
    BY <1>3, <1>9
  <2>2. ~timeout
    BY <1>6, <1>8, <2>1
  <2>3. ~linkDown'
    BY <1>7, <2>1, <2>2
  <2>4. QED
    BY <1>3, <1>4, <1>5, <1>6, <2>2, <2>3 DEF OutageInv
<1>10. CASE ~beat
  <2>1. (heard' <=> heard) /\ LinkGrace' = LinkGrace
    BY <1>3, <1>10 DEF LinkGrace
  <2>2. silence' = Later(silence, d) /\ silence' >= silence
    BY <1>2, <1>3, <1>10, LaterAge
  <2>3. gap' \in Int /\ gap' <= gap + d /\ gap' <= silence + d
    BY <1>1, <1>2, <1>3, <1>10 DEF Later, OutageInv
  <2>4. CASE linkDown
    <3>1. timeout /\ linkDown'
      <4>1. silence' > LinkGrace'
        BY <1>1, <1>2, <1>8, <2>1, <2>2, <2>4, LaterAge DEF OutageInv
      <4>2. QED
        BY <1>6, <1>7, <2>4, <4>1
    <3>2. hasSamples' = hasSamples /\ sampleAge' = Later(sampleAge, d)
      BY <1>7, <2>4
    <3>3. ~hasSamples => gap' <= LinkGrace' + txAge'
      BY <1>2, <1>4, <1>8, <2>1, <2>3, <2>4 DEF OutageInv
    <3>4. hasSamples => gap' <= SamplePeriod + txAge'
      BY <1>1, <1>2, <1>4, <2>3, <2>4 DEF OutageInv
    <3>5. hasSamples => gap' <= sampleAge'
      BY <1>1, <1>2, <1>3, <1>10, <2>4, <3>2 DEF OutageInv, Later
    <3>6. QED
      BY <1>3, <1>4, <1>5, <1>6, <3>1, <3>2, <3>3, <3>4, <3>5 DEF OutageInv
  <2>5. CASE ~linkDown
    <3>1. linkDown' <=> timeout
      BY <1>7, <2>5
    <3>2. timeout => ~hasSamples'
      BY <1>7, <2>5
    <3>3. gap' <= LinkGrace' + txAge'
      BY <1>1, <1>2, <1>4, <1>8, <2>1, <2>3, <2>5 DEF OutageInv
    <3>4. QED
      BY <1>3, <1>4, <1>5, <1>6, <3>1, <3>2, <3>3 DEF OutageInv
  <2>6. QED
    BY <2>4, <2>5
<1>11. QED
  BY <1>9, <1>10

(* The rest of the loop ends a TX period, and with it what the gap may     *)
(* still grow, only by keeping a sample or when none was due.              *)
LEMMA OutageStep ==
  ASSUME TypeOK, OutageInv, [Next]_vars
  PROVE  OutageInv'
<1>1. /\ LinkTimeout \in Nat /\ BootGrace \in Nat /\ SamplePeriod \in Nat
      /\ TxPeriod \in Nat \ {0} /\ MaxDelay \in Nat \ {0} /\ Horizon \in Nat
      /\ LinkGrace \in Nat
  BY UplinkAssumption DEF LinkGrace
<1>2. /\ silence \in 0 .. Horizon /\ txAge \in 0 .. Horizon
      /\ sampleAge \in 0 .. Horizon /\ gap \in 0 .. Horizon
      /\ linkDown \in BOOLEAN /\ hasSamples \in BOOLEAN
  BY DEF TypeOK
<1> USE DEF linkVars, sampleVars
<1>3. ASSUME UNCHANGED <<heard, silence, linkDown>>
      PROVE  LinkGrace' = LinkGrace
  BY <1>3 DEF LinkGrace
<1>4. CASE \E d \in 1 .. MaxDelay, beat \in BOOLEAN : Listen(d, beat)
  BY <1>4, ListenKeepsOutageInv
<1>5. CASE TickNotDue
  BY <1>1, <1>2, <1>3, <1>5 DEF TickNotDue, OutageInv
<1>6. CASE TickOnline
  BY <1>1, <1>2, <1>3, <1>6 DEF TickOnline, Tick, OutageInv
<1>7. CASE TickSample
  BY <1>1, <1>2, <1>3, <1>7 DEF TickSample, Tick, OutageInv
<1>8. CASE TickNoSample
  <2>1. /\ linkDown /\ pc' = "rx" /\ txAge' = 0 /\ linkDown' = linkDown
        /\ UNCHANGED <<hasSamples, sampleAge, gap, silence, mailbox>>
        /\ LinkGrace' = LinkGrace
    BY <1>3, <1>8 DEF TickNoSample, Tick
  <2>2. CASE mailbox = Nothing
    BY <1>1, <1>2, <2>1, <2>2 DEF OutageInv
  <2>3. CASE hasSamples /\ sampleAge < SamplePeriod
    BY <1>1, <1>2, <2>1, <2>3 DEF OutageInv
  <2>4. QED
    BY <1>1, <1>2, <1>8, <2>2, <2>3 DEF TickNoSample, OfflineShouldSample
<1>9. CASE ReplaySend \/ ReplayStop \/ LiveSend \/ LiveSkip
  <2>1. /\ UNCHANGED <<linkVars, txAge, sampleVars, mailbox, gap>>
        /\ pc \in {"replay", "live"} /\ pc' \in {"replay", "live", "rx"}
    BY <1>9 DEF ReplaySend, ReplayStop, LiveSend, LiveSkip
  <2>2. QED
    BY <1>1, <1>2, <1>3, <2>1 DEF OutageInv
<1>10. CASE Publish
  <2>1. mailbox' # Nothing \/ mailbox' = mailbox
    BY <1>10, UplinkAssumption DEF Publish, TypeOK, Packet, Nothing
  <2>2. UNCHANGED <<pc, linkVars, txAge, sampleVars, gap>>
    BY <1>10 DEF Publish
  <2>3. QED
    BY <1>3, <2>1, <2>2 DEF OutageInv
<1>11. CASE UNCHANGED vars
  BY <1>3, <1>11 DEF vars, OutageInv
<1>12. QED
  BY <1>4, <1>5, <1>6, <1>7, <1>8, <1>9, <1>10, <1>11 DEF Next, Loop

(* The inductive invariant of the outage.                                  *)
THEOREM OutageInductive == Spec => []OutageInv
<1>1. Init => OutageInv
  BY UplinkAssumption DEF Init, OutageInv, LinkGrace
<1>2. TypeOK /\ OutageInv /\ [Next]_vars => OutageInv'
  BY OutageStep
<1>3. QED
  BY <1>1, <1>2, TypeCorrect, PTL DEF Spec

(* No outage leaves a hole in the record longer than the grace, one TX     *)
(* period and one pass - provided samples are taken at least as often as a *)
(* silent link is noticed, as SystemConfig.h has it (1 s against 3 s and   *)
(* 5 s).                                                                   *)
THEOREM OutagesAreCovered ==
  ASSUME SamplePeriod <= LinkTimeout, SamplePeriod <= BootGrace
  PROVE  Spec => []OutageCovered
<1>1. TypeOK /\ OutageInv => OutageCovered
  <2> SUFFICES ASSUME TypeOK, OutageInv PROVE OutageCovered
    OBVIOUS
  <2>1. /\ TxPeriod \in Nat /\ MaxDelay \in Nat /\ SamplePeriod \in Nat
        /\ LinkGrace \in Nat /\ SamplePeriod <= LinkGrace
    BY UplinkAssumption DEF LinkGrace
  <2>2. gap \in Nat /\ txAge \in Nat /\ silence \in Nat
    BY UplinkAssumption DEF TypeOK
  <2>3. gap <= LinkGrace + txAge
    BY <2>1, <2>2 DEF OutageInv
  <2>4. QED
    BY <2>1, <2>2, <2>3 DEF OutageInv, OutageCovered
<1>2. QED
  BY <1>1, TypeCorrect, OutageInductive, PTL

-----------------------------------------------------------------------------
(* The contents are count packets; a push and a drop act on them as on a   *)
(* queue.                                                                  *)
LEMMA BacklogShape ==
  ASSUME RingFacts!TypeOK
  PROVE  Ring!Contents \in Seq(Packet) /\ Len(Ring!Contents) = count
  BY RingAssumption, RingFacts!ContentsType, SameRing DEF RingFacts!ContentsShape

LEMMA BacklogPush ==
  ASSUME RingFacts!TypeOK, RingFacts!TypeOK', RingFacts!IndicesAgree,
         NEW p \in Packet, Ring!Push(p)
  PROVE  Ring!Contents' = IF Len(Ring!Contents) = OB_CAPACITY
                          THEN Append(Tail(Ring!Contents), p)
                          ELSE Append(Ring!Contents, p)
<1>1. RingFacts!Push(p)
  BY SameRing
<1>2. RingFacts!Contents' = IF count = OB_CAPACITY
                            THEN Append(Tail(RingFacts!Contents), p)
                            ELSE Append(RingFacts!Contents, p)
  BY <1>1, RingAssumption, RingFacts!PushContents
<1>3. Ring!Contents = RingFacts!Contents
  BY SameRing
<1>4. Ring!Contents' = RingFacts!Contents'
  BY DEF Ring!Contents, RingFacts!Contents
<1>5. QED
  BY <1>2, <1>3, <1>4, BacklogShape

LEMMA BacklogDrop ==
  ASSUME RingFacts!TypeOK, RingFacts!TypeOK', Ring!DropFront
  PROVE  /\ Ring!Contents # <<>> /\ Ring!Contents' = Tail(Ring!Contents)
         /\ Ring!Front = Head(Ring!Contents)
<1>1. RingFacts!DropFront
  BY SameRing
<1>2. RingFacts!Contents # <<>> /\ RingFacts!Contents' = Tail(RingFacts!Contents)
  BY <1>1, RingAssumption, RingFacts!DropContents
<1>3. Ring!Contents = RingFacts!Contents
  BY SameRing
<1>4. Ring!Contents' = RingFacts!Contents'
  BY DEF Ring!Contents, RingFacts!Contents
<1>5. RingFacts!ContentsShape /\ 1 \in 1 .. count
  BY <1>1, RingAssumption, RingFacts!ContentsType
     DEF RingFacts!DropFront, RingFacts!IsEmpty, RingFacts!TypeOK
<1>6. head \in 0 .. OB_CAPACITY - 1 /\ OB_CAPACITY \in Nat
  BY UplinkAssumption DEF RingFacts!TypeOK, RingFacts!Slot
<1>7. RingFacts!Contents[1] = buf[head]
  BY <1>5, <1>6 DEF RingFacts!ContentsShape
<1>8. Ring!Front = Head(Ring!Contents)
  BY <1>2, <1>3, <1>7 DEF Ring!Front
<1>9. QED
  BY <1>2, <1>3, <1>4, <1>8

(* Every step pushes the mailbox, drops the front or leaves the contents.  *)
LEMMA BacklogStep ==
  ASSUME TypeOK, RingFacts!TypeOK, RingFacts!TypeOK', RingFacts!IndicesAgree,
         [Next]_vars
  PROVE  \/ /\ TickSample
            /\ Ring!Contents' = IF Len(Ring!Contents) = OB_CAPACITY
                                THEN Append(Tail(Ring!Contents), mailbox)
                                ELSE Append(Ring!Contents, mailbox)
         \/ /\ ReplaySend /\ Ring!Contents # <<>>
            /\ Ring!Contents' = Tail(Ring!Contents)
            /\ Ring!Front = Head(Ring!Contents)
         \/ ~TickSample /\ ~ReplaySend /\ Ring!Contents' = Ring!Contents
<1>1. CASE TickSample
  BY <1>1, BacklogPush DEF TickSample, TypeOK
<1>2. CASE ReplaySend
  BY <1>2, BacklogDrop DEF ReplaySend
<1>3. CASE UNCHANGED ringVars
  BY <1>1, <1>2, <1>3 DEF ringVars, Ring!Contents
<1>4. QED
  BY <1>1, <1>2, <1>3
     DEF Next, Loop, Listen, TickNotDue, Tick, TickOnline, TickNoSample,
         ReplayStop, LiveSend, LiveSkip, Publish, vars

(* Snapshots in the order they were taken, none newer than m.              *)
Ordered(s, m) ==
  /\ \A i, j \in 1 .. Len(s) : i <= j => s[i] <= s[j]
  /\ \A i \in 1 .. Len(s) : s[i] \in 1 .. m

LEMMA OrderedTail ==
  ASSUME NEW s \in Seq(Packet), s # <<>>, NEW m \in Packet, Ordered(s, m)
  PROVE  Tail(s) \in Seq(Packet) /\ Ordered(Tail(s), m)
<1>1. /\ Tail(s) \in Seq(Packet) /\ Len(Tail(s)) = Len(s) - 1 /\ Len(s) \in Nat
      /\ \A i \in 1 .. Len(Tail(s)) : Tail(s)[i] = s[i + 1]
  OBVIOUS
<1>2. QED
  BY <1>1 DEF Ordered

LEMMA OrderedAppend ==
  ASSUME NEW s \in Seq(Packet), NEW m \in Packet, m # Nothing, Ordered(s, m)
  PROVE  Ordered(Append(s, m), m)
<1>1. m \in 1 .. m /\ m \in Nat
  BY UplinkAssumption DEF Packet, Nothing
<1>2. /\ Len(s) \in Nat /\ Len(Append(s, m)) = Len(s) + 1
      /\ Append(s, m)[Len(s) + 1] = m
      /\ \A i \in 1 .. Len(s) : Append(s, m)[i] = s[i]
  OBVIOUS
<1> DEFINE t == Append(s, m)
<1>3. ASSUME NEW i \in 1 .. Len(s) + 1 PROVE t[i] \in 1 .. m
  BY <1>1, <1>2 DEF Ordered
<1>4. ASSUME NEW i \in 1 .. Len(s) + 1, NEW j \in 1 .. Len(s) + 1, i <= j
      PROVE  t[i] <= t[j]
  <2>1. CASE j = Len(s) + 1
    BY <1>1, <1>2, <1>3, <2>1
  <2>2. CASE j # Len(s) + 1
    BY <1>2, <1>4, <2>2 DEF Ordered
  <2>3. QED
    BY <2>1, <2>2
<1> HIDE DEF t
<1>5. QED
  <2>1. Len(t) = Len(s) + 1
    BY <1>2 DEF t
  <2>2. Ordered(t, m)
    BY <1>3, <1>4, <2>1 DEF Ordered
  <2>3. QED
    BY <2>2 DEF t

(* The buffer's packets are in the order they were sampled, none newer     *)
(* than the mailbox, across any number of outages.                         *)
THEOREM BacklogOrdered == Spec => []BacklogInOrder
<1> DEFINE Kept == Ordered(Ring!Contents, mailbox)
<1>1. Init => Kept
  BY DEF Init, Ring!Init, Ring!Contents, Ordered
<1>2. /\ TypeOK /\ RingFacts!TypeOK /\ RingFacts!TypeOK' /\ RingFacts!IndicesAgree
      /\ Kept /\ [Next]_vars
      => Kept'
  <2> SUFFICES ASSUME TypeOK, RingFacts!TypeOK, RingFacts!TypeOK',
                      RingFacts!IndicesAgree, Kept, [Next]_vars
               PROVE  Kept'
    OBVIOUS
  <2> DEFINE s == Ring!Contents
  <2>1. s \in Seq(Packet) /\ mailbox \in Packet /\ Ordered(s, mailbox)
    BY BacklogShape DEF TypeOK
  <2>2. Len(s) \in Nat /\ (Len(s) = OB_CAPACITY => s # <<>>)
    BY <2>1, UplinkAssumption
  <2>3. CASE TickSample /\ s' = IF Len(s) = OB_CAPACITY
                                THEN Append(Tail(s), mailbox)
                                ELSE Append(s, mailbox)
    <3>1. mailbox # Nothing /\ mailbox' = mailbox
      BY <2>3 DEF TickSample, Tick
    <3> HIDE DEF s
    <3>2. CASE Len(s) = OB_CAPACITY
      <4>1. Tail(s) \in Seq(Packet) /\ Ordered(Tail(s), mailbox)
        BY <2>1, <2>2, <3>2, OrderedTail
      <4>2. Ordered(Append(Tail(s), mailbox), mailbox)
        BY <2>1, <3>1, <4>1, OrderedAppend
      <4>3. QED
        BY <2>3, <3>1, <3>2, <4>2 DEF s
    <3>3. CASE Len(s) # OB_CAPACITY
      <4>1. Ordered(Append(s, mailbox), mailbox)
        BY <2>1, <3>1, OrderedAppend
      <4>2. QED
        BY <2>3, <3>1, <3>3, <4>1 DEF s
    <3>4. QED
      BY <3>2, <3>3
  <2>4. CASE ReplaySend /\ s # <<>> /\ s' = Tail(s)
    <3>1. mailbox' = mailbox
      BY <2>4 DEF ReplaySend
    <3> HIDE DEF s
    <3>2. Ordered(Tail(s), mailbox)
      BY <2>1, <2>4, OrderedTail
    <3>3. QED
      BY <2>4, <3>1, <3>2 DEF s
  <2>5. CASE s' = s
    <3>1. mailbox' \in Nat /\ mailbox' >= mailbox
      BY <2>1, MailboxStep DEF Packet
    <3>2. mailbox \in Nat
      BY <2>1 DEF Packet
    <3> HIDE DEF s
    <3>3. Ordered(s, mailbox')
      BY <2>1, <3>1, <3>2 DEF Ordered
    <3>4. QED
      BY <2>5, <3>3 DEF s
  <2>6. QED
    BY <2>3, <2>4, <2>5, BacklogStep
<1>3. RingFacts!TypeOK /\ Kept => BacklogInOrder
  BY BacklogShape DEF Ordered, BacklogInOrder
<1> HIDE DEF Kept
<1>4. QED
  BY <1>1, <1>2, <1>3, TypeCorrect, RingInvariants, PTL DEF Spec

-----------------------------------------------------------------------------
(* With a UART that accepts every write, the task implements store and     *)
(* forward.                                                                *)
THEOREM UplinkRefinement ==
  ASSUME UartResults = {TRUE} PROVE Spec => ImplementsStoreAndForward
<1>1. Init => Uplink!Init
  BY UplinkAssumption DEF Init, Uplink!Init, Ring!Init, Ring!Contents, Packet, Nothing
<1>2. /\ TypeOK /\ TypeOK' /\ OutageInv /\ RingFacts!TypeOK /\ RingFacts!TypeOK'
      /\ RingFacts!IndicesAgree /\ [Next]_vars
      => [Uplink!Next]_(Uplink!sfVars)
  <2> SUFFICES ASSUME TypeOK, TypeOK', OutageInv, RingFacts!TypeOK,
                      RingFacts!TypeOK', RingFacts!IndicesAgree, [Next]_vars
               PROVE  Uplink!Next \/ UNCHANGED Uplink!sfVars
    OBVIOUS
  <2> USE DEF Uplink!sfVars, Uplink!Next
  <2>1. ASSUME NEW p \in Packet, SendStatus(p)
        PROVE  air' = p /\ seq' = (seq + 1) % SeqMod
    BY <2>1 DEF SendStatus
  <2>2. CASE TickSample /\ Ring!Contents' = IF Len(Ring!Contents) = OB_CAPACITY
                                            THEN Append(Tail(Ring!Contents), mailbox)
                                            ELSE Append(Ring!Contents, mailbox)
    <3>1. linkDown /\ UNCHANGED <<linkDown, seq, air>> /\ mailbox \in Packet
      BY <2>2 DEF TickSample, Tick, linkVars, radioVars, TypeOK
    <3>2. Uplink!Keep
      BY <2>2, <3>1 DEF Uplink!Keep
    <3>3. QED
      BY <3>2
  <2>3. CASE /\ ReplaySend /\ Ring!Contents # <<>>
             /\ Ring!Contents' = Tail(Ring!Contents)
             /\ Ring!Front = Head(Ring!Contents)
    <3>1. ~linkDown /\ UNCHANGED linkDown
      BY <2>3 DEF ReplaySend, OutageInv, linkVars
    <3>2. Ring!Front \in Packet
      BY FrontType DEF TypeOK
    <3>3. air' = Head(Ring!Contents) /\ seq' = (seq + 1) % SeqMod
      BY <2>1, <2>3, <3>2 DEF ReplaySend
    <3>4. Uplink!Replay
      BY <2>3, <3>1, <3>3 DEF Uplink!Replay, Uplink!Send
    <3>5. QED
      BY <3>4
  <2>4. CASE ~TickSample /\ ~ReplaySend /\ Ring!Contents' = Ring!Contents
    <3>1. CASE LiveSend
      <4>1. ~linkDown /\ UNCHANGED linkDown /\ mailbox \in Packet
        BY <3>1 DEF LiveSend, OutageInv, linkVars, TypeOK
      <4>2. air' = mailbox /\ seq' = (seq + 1) % SeqMod
        BY <2>1, <3>1, <4>1 DEF LiveSend
      <4>3. Uplink!Current
        BY <2>4, <4>1, <4>2 DEF Uplink!Current, Uplink!Send
      <4>4. QED
        BY <4>3
    <3>2. ASSUME NEW d \in 1 .. MaxDelay, NEW beat \in BOOLEAN, Listen(d, beat)
          PROVE  Uplink!Next \/ UNCHANGED Uplink!sfVars
      <4>1. UNCHANGED <<seq, air>>
        BY <3>2 DEF Listen, radioVars
      <4>2. linkDown \in BOOLEAN /\ linkDown' \in BOOLEAN
        BY DEF TypeOK
      <4>3. QED
        BY <2>4, <4>1, <4>2 DEF Uplink!Lose, Uplink!Regain
    <3>3. CASE UNCHANGED <<linkDown, seq, air>>
      BY <2>4, <3>3
    <3>4. QED
      BY <2>4, <3>1, <3>2, <3>3
         DEF Next, Loop, TickNotDue, Tick, TickOnline, TickNoSample, ReplayStop,
             LiveSkip, Publish, vars, linkVars, radioVars
  <2>5. QED
    BY <2>2, <2>3, <2>4, BacklogStep
<1>3. QED
  BY <1>1, <1>2, TypeCorrect, OutageInductive, RingInvariants, PTL
     DEF Spec, ImplementsStoreAndForward, Uplink!Spec
=============================================================================
