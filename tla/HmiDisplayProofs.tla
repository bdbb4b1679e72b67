-------------------------- MODULE HmiDisplayProofs --------------------------
(***************************************************************************)
(* Proofs about HmiDisplay, for all fields, commands, page sizes, budgets  *)
(* and lengths of the line from the panel: every press is accounted for,   *)
(* and the cache of the main page is honest.                               *)
(***************************************************************************)
EXTENDS HmiDisplay, SequenceTheorems, FiniteSetTheorems, TLAPS

(* What the panel sends, and what a restart leaves of it: a touch frame is *)
(* whole, or cut off by the zeros of the announcement.                     *)
Between == {0, 90, 136, 255}

After(b) == IF b = 90 THEN Command \cup {0}
            ELSE IF b \in Command THEN {0, 255 - b}
            ELSE Between

Expected == CASE rx.touchState = 0 -> Between
              [] rx.touchState = 1 -> Command \cup {0}
              [] OTHER -> {0, 255 - rx.pendingCmd}

(* The line from the panel follows that grammar from the byte the          *)
(* classifier is at, wherever the last scan ended, to a frame's end.       *)
FrameInv ==
  /\ \A i \in 1 .. Len(wire) - 1 : wire[i + 1] \in After(wire[i])
  /\ wire # <<>> => /\ wire[1] \in Expected
                    /\ wire[Len(wire)] \notin Command \cup {90}
  /\ wire = <<>> => rx.touchState = 0
  /\ rx.touchState = 2 => rx.pendingCmd \in Command

(* The types the accounting rests on; that no press is owed a negative     *)
(* number of times follows from the accounting itself.                     *)
RxState == [touchState : 0 .. 2, pendingCmd : 0 .. 255, zeroRun : 0 .. 3,
            ffRun : 0 .. 2]

WireTypes ==
  /\ wire \in Seq(0 .. 255) /\ Len(wire) <= WireCap
  /\ rx \in RxState
  /\ got \in {0} \cup Command
  /\ owed \in [Command -> Int]

-----------------------------------------------------------------------------
(* Counting the ends of frames.                                            *)
Ends(c, s) == {i \in DOMAIN s : s[i] = 255 - c}

LEMMA EndsFinite ==
  ASSUME NEW c, NEW s \in Seq(0 .. 255)
  PROVE  IsFiniteSet(Ends(c, s)) /\ FramesEnding(c, s) \in Nat
<1>1. DOMAIN s = 1 .. Len(s) /\ Len(s) \in Nat
  BY LenProperties
<1>2. IsFiniteSet(1 .. Len(s))
  BY <1>1, FS_Interval
<1>3. IsFiniteSet(Ends(c, s))
  BY <1>1, <1>2, FS_Subset DEF Ends
<1>4. QED
  BY <1>3, FS_CardinalityType DEF Ends, FramesEnding

(* The ends in a concatenation are those of its parts.                     *)
LEMMA EndsConcat ==
  ASSUME NEW c, NEW s \in Seq(0 .. 255), NEW t \in Seq(0 .. 255)
  PROVE  FramesEnding(c, s \o t) = FramesEnding(c, s) + FramesEnding(c, t)
<1> DEFINE n == Len(s)
           Moved == {i \in n + 1 .. n + Len(t) : t[i - n] = 255 - c}
           shift == [j \in Ends(c, t) |-> j + n]
<1>1. n \in Nat /\ Len(t) \in Nat /\ DOMAIN s = 1 .. n /\ DOMAIN t = 1 .. Len(t)
  BY LenProperties
<1>2. /\ s \o t \in Seq(0 .. 255) /\ Len(s \o t) = n + Len(t)
      /\ \A i \in 1 .. n + Len(t) :
           (s \o t)[i] = IF i <= n THEN s[i] ELSE t[i - n]
  BY ConcatProperties
<1>3. DOMAIN (s \o t) = 1 .. n + Len(t)
  BY <1>2, LenProperties
<1>4. Ends(c, s \o t) = Ends(c, s) \cup Moved
  BY <1>1, <1>2, <1>3 DEF Ends
<1>5. Ends(c, s) \cap Moved = {}
  BY <1>1 DEF Ends
<1>6. ExistsBijection(Ends(c, t), Moved)
  <2>1. shift \in [Ends(c, t) -> Moved]
    BY <1>1 DEF Ends
  <2>2. \A a, b \in Ends(c, t) : shift[a] = shift[b] => a = b
    BY <1>1 DEF Ends
  <2>3. \A i \in Moved : \E j \in Ends(c, t) : shift[j] = i
    <3>1. TAKE i \in Moved
    <3>2. i - n \in Ends(c, t) /\ (i - n) + n = i
      BY <1>1 DEF Ends
    <3>3. QED
      BY <3>2
  <2> HIDE DEF shift, Moved
  <2>4. shift \in Injection(Ends(c, t), Moved)
    BY <2>1, <2>2 DEF Injection, IsInjective
  <2>5. shift \in Surjection(Ends(c, t), Moved)
    BY <2>1, <2>3 DEF Surjection
  <2>6. QED
    BY <2>4, <2>5 DEF Bijection, ExistsBijection
<1>7. IsFiniteSet(Moved) /\ Cardinality(Moved) = Cardinality(Ends(c, t))
  BY <1>6, EndsFinite, FS_Bijection
<1> HIDE DEF Moved
<1>8. Cardinality(Ends(c, s) \cup Moved) = Cardinality(Ends(c, s)) + Cardinality(Moved)
  <2>1. Cardinality(Ends(c, s) \cup Moved)
          = Cardinality(Ends(c, s)) + Cardinality(Moved)
              - Cardinality(Ends(c, s) \cap Moved)
    BY <1>7, EndsFinite, FS_Union
  <2>2. Cardinality(Ends(c, s) \cap Moved) = 0
    BY <1>5, FS_EmptySet
  <2>3. Cardinality(Ends(c, s)) \in Nat /\ Cardinality(Moved) \in Nat
    BY <1>7, EndsFinite, FS_CardinalityType
  <2>4. QED
    BY <2>1, <2>2, <2>3
<1>9. QED
  BY <1>4, <1>7, <1>8 DEF Ends, FramesEnding

(* A sequence without the last byte of a frame counts none, and one byte   *)
(* that is one counts once.                                                *)
LEMMA EndsNone ==
  ASSUME NEW c, NEW s \in Seq(0 .. 255), \A i \in DOMAIN s : s[i] # 255 - c
  PROVE  FramesEnding(c, s) = 0
  BY FS_EmptySet DEF FramesEnding

LEMMA EndsOne ==
  ASSUME NEW c, 255 - c \in 0 .. 255
  PROVE  FramesEnding(c, <<255 - c>>) = 1
<1>1. {i \in DOMAIN <<255 - c>> : <<255 - c>>[i] = 255 - c} = {1}
  OBVIOUS
<1>2. QED
  BY <1>1, FS_Singleton DEF FramesEnding

-----------------------------------------------------------------------------
(* One byte of the line: the classifier reports a command at the last byte *)
(* of its frame and nowhere else, and what it expects next is what the     *)
(* grammar has follow the byte.                                            *)
LEMMA ByteHeard ==
  ASSUME WireTypes, FrameInv, wire # <<>>,
         NEW b, b = Head(wire), NEW r, r = Classify(rx, b)
  PROVE  /\ b \in 0 .. 255 /\ b \in Expected /\ r.st \in RxState
         /\ r.event = "touch" => r.cmd \in Command /\ b = 255 - r.cmd
         /\ r.event # "touch" => \A c \in Command : b # 255 - c
         /\ r.st.touchState = IF b = 90 THEN 1 ELSE IF b \in Command THEN 2 ELSE 0
         /\ r.st.touchState = 2 => r.st.pendingCmd = b
<1>1. b = wire[1] /\ b \in 0 .. 255 /\ b \in Expected
  <2>1. b \in 0 .. 255
    BY HeadTailProperties DEF WireTypes
  <2>2. b = wire[1]
    OBVIOUS
  <2>3. QED
    BY <2>1, <2>2 DEF FrameInv
<1>2. /\ Command \subseteq 1 .. 4 /\ rx \in RxState
      /\ rx.touchState \in 0 .. 2 /\ rx.pendingCmd \in 0 .. 255
      /\ rx.zeroRun \in 0 .. 3 /\ rx.ffRun \in 0 .. 2
  BY HmiAssumption DEF WireTypes, RxState
<1>3. CASE b = 136
  BY <1>1, <1>2, <1>3 DEF Classify, Result, IdleRx, Rx, RxState
<1>4. CASE b = 0
  <2>1. r = ClassifyZero(rx)
    BY <1>4 DEF Classify
  <2>2. r.event = "none" /\ r.st.touchState = 0 /\ r.st \in RxState
    BY <1>2, <2>1 DEF ClassifyZero, Result, IdleRx, Rx, RxState
  <2>3. QED
    BY <1>1, <1>2, <1>4, <2>2
<1>5. CASE b = 255
  <2>1. r = ClassifyFF(rx)
    BY <1>5 DEF Classify
  <2>2. \/ r.event = "none" /\ r.st = IdleRx
        \/ r.event = "reset" /\ r.st = IdleRx
        \/ /\ r.event = "none" /\ rx.ffRun + 1 < 3
           /\ r.st = Rx(0, 0, rx.zeroRun, rx.ffRun + 1)
    BY <1>2, <2>1 DEF ClassifyFF, Result, IdleRx
  <2>3. r.event # "touch" /\ r.st.touchState = 0 /\ r.st \in RxState
    <3>1. IdleRx \in RxState /\ IdleRx.touchState = 0
      BY DEF IdleRx, Rx, RxState
    <3>2. rx.ffRun + 1 < 3 =>
            /\ Rx(0, 0, rx.zeroRun, rx.ffRun + 1) \in RxState
            /\ Rx(0, 0, rx.zeroRun, rx.ffRun + 1).touchState = 0
      <4>1. rx.ffRun + 1 < 3 => rx.ffRun + 1 \in 0 .. 2
        BY <1>2
      <4>2. QED
        BY <1>2, <4>1 DEF Rx, RxState
    <3>3. QED
      BY <2>2, <3>1, <3>2
  <2>4. QED
    BY <1>1, <1>2, <1>5, <2>3
<1>6. CASE b \notin {0, 136, 255}
  <2>1. r = ClassifyTouch(rx, b)
    BY <1>6 DEF Classify
  <2>2. CASE rx.touchState = 0
    <3>1. b = 90
      BY <1>1, <1>6, <2>2 DEF Expected, Between
    <3>2. /\ r.event = "none"
          /\ r.st = Rx(1, rx.pendingCmd, 0, 0)
      BY <1>2, <2>1, <2>2, <3>1 DEF ClassifyTouch, Result
    <3>3. r.st.touchState = 1 /\ r.st \in RxState
      <4>1. /\ Rx(1, rx.pendingCmd, 0, 0) \in RxState /\ Rx(1, rx.pendingCmd, 0, 0).touchState = 1
        BY <1>1, <1>2 DEF Rx, RxState
      <4>2. QED
        BY <3>2, <4>1
    <3>4. QED
      BY <1>1, <1>2, <3>1, <3>2, <3>3
  <2>3. CASE rx.touchState = 1
    <3>1. b \in Command
      BY <1>1, <1>6, <2>3 DEF Expected
    <3>5. b # 90 /\ \A c \in Command : b # 255 - c
      <4>1. b \in 1 .. 4 /\ \A c \in Command : c \in 1 .. 4
        BY <1>2, <3>1
      <4>2. QED
        BY <4>1
    <3>2. /\ r.event = "none"
          /\ r.st = Rx(2, b, 0, 0)
      BY <1>2, <2>1, <2>3 DEF ClassifyTouch, Result
    <3>3. r.st.touchState = 2 /\ r.st.pendingCmd = b /\ r.st \in RxState
      <4>1. /\ Rx(2, b, 0, 0) \in RxState /\ Rx(2, b, 0, 0).touchState = 2
           /\ Rx(2, b, 0, 0).pendingCmd = b
        BY <1>1, <1>2 DEF Rx, RxState
      <4>2. QED
        BY <3>2, <4>1
    <3>4. QED
      BY <1>1, <1>2, <3>1, <3>2, <3>3, <3>5
  <2>4. CASE rx.touchState = 2
    <3>1. rx.pendingCmd \in Command /\ b = 255 - rx.pendingCmd
      BY <1>1, <1>6, <2>4 DEF Expected, FrameInv
    <3>2. /\ r.event = "touch" /\ r.cmd = rx.pendingCmd
          /\ r.st = Rx(0, rx.pendingCmd, 0, 0)
      BY <1>2, <2>1, <2>4, <3>1 DEF ClassifyTouch, Result
    <3>3. r.st.touchState = 0 /\ r.st \in RxState
      <4>1. /\ Rx(0, rx.pendingCmd, 0, 0) \in RxState /\ Rx(0, rx.pendingCmd, 0, 0).touchState = 0
        BY <1>1, <1>2 DEF Rx, RxState
      <4>2. QED
        BY <3>2, <4>1
    <3>4. b # 90 /\ b \notin 1 .. 4
      <4>1. rx.pendingCmd \in 1 .. 4
        BY <1>2, <3>1
      <4>2. QED
        BY <3>1, <4>1
    <3>5. b # 90 /\ b \notin Command
      BY ONLY <1>2, <3>4
    <3>6. r.st.touchState = IF b = 90 THEN 1 ELSE IF b \in Command THEN 2 ELSE 0
      BY ONLY <3>3, <3>5
    <3>7. r.st.touchState # 2
      BY ONLY <3>3
    <3>8. r.event = "touch" /\ r.cmd \in Command /\ b = 255 - r.cmd
      BY ONLY <3>1, <3>2
    <3>9. QED
      BY ONLY <1>1, <3>3, <3>6, <3>7, <3>8
  <2>5. QED
    BY <1>2, <2>2, <2>3, <2>4 DEF RxState
<1>7. QED
  BY <1>3, <1>4, <1>5, <1>6

LEMMA ScanKeepsFrames ==
  ASSUME WireTypes, FrameInv, ScanByte
  PROVE  FrameInv'
<1> DEFINE b == Head(wire)
           r == Classify(rx, b)
<1>1. wire # <<>> /\ wire' = Tail(wire) /\ rx' = r.st
  BY DEF ScanByte
<1>2. /\ b = wire[1] /\ Len(wire) \in Nat \ {0}
      /\ Len(wire') = Len(wire) - 1 /\ wire' \in Seq(0 .. 255)
      /\ \A i \in 1 .. Len(wire') : wire'[i] = wire[i + 1]
  BY <1>1, HeadTailProperties, LenProperties, EmptySeq DEF WireTypes
<1>3. /\ rx'.touchState = IF b = 90 THEN 1 ELSE IF b \in Command THEN 2 ELSE 0
      /\ rx'.touchState = 2 => rx'.pendingCmd = b
  BY <1>1, ByteHeard
<1> HIDE DEF b, r
<1>4. Expected' = After(b)
  BY <1>3, HmiAssumption DEF Expected, After
<1>5. \A i \in 1 .. Len(wire') - 1 : wire'[i + 1] \in After(wire'[i])
  BY <1>2 DEF FrameInv
<1>6. wire' # <<>> => wire'[1] \in Expected'
  <2> SUFFICES ASSUME wire' # <<>> PROVE wire'[1] \in Expected'
    OBVIOUS
  <2>1. Len(wire) > 1
    BY <1>2, EmptySeq
  <2>2. wire'[1] = wire[2] /\ wire[2] \in After(wire[1])
    BY <1>2, <2>1 DEF FrameInv
  <2>3. QED
    BY <1>2, <1>4, <2>2
<1>7. wire' # <<>> => wire'[Len(wire')] \notin Command \cup {90}
  <2> SUFFICES ASSUME wire' # <<>> PROVE wire'[Len(wire')] \notin Command \cup {90}
    OBVIOUS
  <2>1. Len(wire) > 1
    BY <1>2, EmptySeq
  <2>2. wire'[Len(wire')] = wire[Len(wire)]
    BY <1>2, <2>1
  <2>3. QED
    BY <1>1, <2>2 DEF FrameInv
<1>8. wire' = <<>> => rx'.touchState = 0
  <2> SUFFICES ASSUME wire' = <<>> PROVE rx'.touchState = 0
    OBVIOUS
  <2>1. Len(wire) = 1
    BY <1>2, EmptySeq
  <2>2. QED
    BY <1>1, <1>2, <1>3, <2>1 DEF FrameInv
<1>9. rx'.touchState = 2 => rx'.pendingCmd \in Command
  BY <1>3, HmiAssumption
<1>10. QED
  BY <1>5, <1>6, <1>7, <1>8, <1>9 DEF FrameInv

(* What the panel adds to the line, or puts in place of its end.           *)
LEMMA FramesAdded ==
  ASSUME WireTypes, FrameInv, NEW n \in 0 .. Len(wire),
         NEW t \in Seq(0 .. 255), t # <<>>,
         \A i \in 1 .. Len(t) - 1 : t[i + 1] \in After(t[i]),
         t[Len(t)] \notin Command \cup {90},
         t[1] = 0 \/ (n = Len(wire) /\ t[1] \in Between),
         wire' = SubSeq(wire, 1, n) \o t, rx' = rx
  PROVE  FrameInv' /\ wire' \in Seq(0 .. 255) /\ Len(wire') = n + Len(t)
<1>1. wire \in Seq(0 .. 255) /\ Len(wire) \in Nat /\ Len(t) \in Nat \ {0}
  BY LenProperties, EmptySeq DEF WireTypes
<1>2. /\ SubSeq(wire, 1, n) \in Seq(0 .. 255) /\ Len(SubSeq(wire, 1, n)) = n
      /\ \A i \in 1 .. n : SubSeq(wire, 1, n)[i] = wire[i]
  <2>1. \A i \in 1 .. n : wire[i] \in 0 .. 255
    <3>1. \A i \in 1 .. Len(wire) : wire[i] \in 0 .. 255
      BY <1>1, ElementOfSeq
    <3>2. QED
      BY <1>1, <3>1
  <2>2. /\ SubSeq(wire, 1, n) \in Seq(0 .. 255)
        /\ Len(SubSeq(wire, 1, n)) = IF 1 <= n THEN n - 1 + 1 ELSE 0
        /\ \A i \in 1 .. n - 1 + 1 : SubSeq(wire, 1, n)[i] = wire[1 + i - 1]
    BY ONLY <2>1, SubSeqProperties, n \in 0 .. Len(wire), <1>1
  <2>3. QED
    BY <1>1, <2>2
<1>3. /\ wire' \in Seq(0 .. 255) /\ Len(wire') = n + Len(t)
      /\ \A i \in 1 .. n + Len(t) :
           wire'[i] = IF i <= n THEN wire[i] ELSE t[i - n]
  BY <1>1, <1>2, ConcatProperties
<1>4. t[1] \in After(wire[n]) \/ n = 0
  BY <1>1, HmiAssumption DEF After, Between, FrameInv
<1>5. t[1] \in Expected \/ n # 0
  BY <1>1, EmptySeq DEF Expected, Between, FrameInv
<1>6. \A i \in 1 .. Len(wire') - 1 : wire'[i + 1] \in After(wire'[i])
  <2>1. TAKE i \in 1 .. Len(wire') - 1
  <2>2. CASE i < n
    BY <1>1, <1>3, <2>2 DEF FrameInv
  <2>3. CASE i = n
    BY <1>1, <1>3, <1>4, <2>3
  <2>4. CASE i > n
    <3>1. wire'[i] = t[i - n] /\ wire'[i + 1] = t[(i - n) + 1]
      BY <1>1, <1>3, <2>4
    <3>2. i - n \in 1 .. Len(t) - 1
      BY <1>1, <1>3, <2>4
    <3>3. QED
      BY <3>1, <3>2
  <2>5. QED
    BY <1>1, <2>2, <2>3, <2>4
<1>7. wire'[1] \in Expected'
  <2>1. Expected' = Expected
    BY DEF Expected
  <2>2. CASE n = 0
    BY <1>1, <1>3, <1>5, <2>1, <2>2
  <2>3. CASE n > 0
    <3>1. wire # <<>> /\ wire'[1] = wire[1]
      BY <1>1, <1>3, <2>3, EmptySeq
    <3>2. QED
      BY <2>1, <3>1 DEF FrameInv
  <2>4. QED
    BY <1>1, <2>2, <2>3
<1>8. wire' # <<>> /\ wire'[Len(wire')] = t[Len(t)]
  BY <1>1, <1>3, EmptySeq
<1>9. QED
  BY <1>3, <1>6, <1>7, <1>8 DEF FrameInv

-----------------------------------------------------------------------------
(* A byte of the line that a scan reads: if it ends a frame, the command   *)
(* is taken for the one to be reported, or passed over for an earlier one. *)
LEMMA ScanAccounts ==
  ASSUME WireTypes, FrameInv, EveryPressAccounted, ScanByte
  PROVE  WireTypes' /\ EveryPressAccounted'
<1> DEFINE b == Head(wire)
           r == Classify(rx, b)
<1>1. /\ wire # <<>> /\ wire' = Tail(wire) /\ rx' = r.st
      /\ got' = IF r.event = "touch" /\ got = 0 THEN r.cmd ELSE got
      /\ owed' = IF r.event = "touch" /\ got # 0 /\ r.cmd \in Command
                 THEN [owed EXCEPT ![r.cmd] = @ - 1] ELSE owed
  BY DEF ScanByte
<1>2. /\ b \in 0 .. 255 /\ r.st \in RxState
      /\ r.event = "touch" => r.cmd \in Command /\ b = 255 - r.cmd
      /\ r.event # "touch" => \A c \in Command : b # 255 - c
  <2>1. b = Head(wire) /\ r = Classify(rx, b)
    OBVIOUS
  <2> HIDE DEF b, r
  <2>2. QED
    BY <1>1, <2>1, ByteHeard
<1> HIDE DEF r
<1>3. /\ Tail(wire) \in Seq(0 .. 255) /\ Len(Tail(wire)) = Len(wire) - 1
      /\ Len(wire) \in Nat \ {0} /\ b = wire[1]
  BY <1>1, HeadTailProperties, EmptySeq DEF WireTypes
<1>4. wire = <<b>> \o Tail(wire)
  <2>1. SubSeq(wire, 1, Len(wire)) = <<wire[1]>> \o SubSeq(wire, 2, Len(wire))
    BY <1>3, SubSeqRecursiveFirst DEF WireTypes
  <2>2. SubSeq(wire, 1, Len(wire)) = wire /\ Tail(wire) = SubSeq(wire, 2, Len(wire))
    BY <1>1, SubSeqFull, TailIsSubSeq DEF WireTypes
  <2>3. QED
    BY <1>3, <2>1, <2>2
<1>5. \A c \in Command :
        /\ FramesEnding(c, wire) = FramesEnding(c, <<b>>) + FramesEnding(c, wire')
        /\ FramesEnding(c, wire') \in Nat
  <2>1. <<b>> \in Seq(0 .. 255)
    BY <1>2
  <2>2. \A c : FramesEnding(c, <<b>> \o Tail(wire))
                 = FramesEnding(c, <<b>>) + FramesEnding(c, Tail(wire))
    BY <1>3, <2>1, EndsConcat
  <2>3. QED
    BY <1>1, <1>3, <1>4, <2>2, EndsFinite
<1>6. \A c \in Command :
        FramesEnding(c, <<b>>) = IF r.event = "touch" /\ c = r.cmd THEN 1 ELSE 0
  <2> SUFFICES ASSUME NEW c \in Command
               PROVE  FramesEnding(c, <<b>>)
                        = IF r.event = "touch" /\ c = r.cmd THEN 1 ELSE 0
    OBVIOUS
  <2>1. c \in 1 .. 4 /\ (r.event = "touch" => r.cmd \in 1 .. 4)
    BY <1>2, HmiAssumption
  <2>2. CASE r.event = "touch" /\ c = r.cmd
    BY <1>2, <2>1, <2>2, EndsOne
  <2>3. CASE ~(r.event = "touch" /\ c = r.cmd)
    <3>1. b # 255 - c
      BY <1>2, <2>1, <2>3
    <3>2. <<b>> \in Seq(0 .. 255) /\ \A i \in DOMAIN <<b>> : <<b>>[i] # 255 - c
      BY <1>2, <3>1
    <3>3. QED
      BY <2>3, <3>2, EndsNone
  <2>4. QED
    BY <2>2, <2>3
<1>7. 0 \notin Command
  BY HmiAssumption
<1>8. WireTypes'
  <2>1. got' \in {0} \cup Command
    BY <1>1, <1>2 DEF WireTypes
  <2>2. owed' \in [Command -> Int]
    BY <1>1 DEF WireTypes
  <2>3. wire' \in Seq(0 .. 255) /\ Len(wire') <= WireCap
    BY <1>1, <1>3, HmiAssumption DEF WireTypes
  <2>4. QED
    BY <1>1, <1>2, <2>1, <2>2, <2>3 DEF WireTypes
<1>9. EveryPressAccounted'
  <2> SUFFICES ASSUME NEW c \in Command
               PROVE  owed'[c] = FramesEnding(c, wire') + (IF got' = c THEN 1 ELSE 0)
    BY DEF EveryPressAccounted
  <2>1. owed[c] = FramesEnding(c, wire) + (IF got = c THEN 1 ELSE 0)
    BY DEF EveryPressAccounted
  <2>2. owed'[c] = IF r.event = "touch" /\ got # 0 /\ c = r.cmd
                   THEN owed[c] - 1 ELSE owed[c]
    BY <1>1, <1>2 DEF WireTypes
  <2>3. QED
    BY <1>1, <1>2, <1>5, <1>6, <1>7, <2>1, <2>2
<1>10. QED
  BY <1>8, <1>9

(* The rest of a step adds its own frames to the line, takes what it cuts  *)
(* off it from the presses owed, or reports the one of this scan.          *)
LEMMA PressAccounts ==
  ASSUME WireTypes, FrameInv, EveryPressAccounted, NEW c \in Command, Press(c)
  PROVE  WireTypes' /\ FrameInv' /\ EveryPressAccounted'
<1>0. PICK t : t = <<90, c, 255 - c>>
  OBVIOUS
<1>1. /\ wire' = wire \o t /\ owed' = [owed EXCEPT ![c] = @ + 1]
      /\ rx' = rx /\ got' = got /\ Len(wire) + 3 <= WireCap
  BY <1>0 DEF Press
<1>2. c \in 1 .. 4
  BY HmiAssumption
<1>3. /\ t \in Seq(0 .. 255) /\ t # <<>> /\ Len(t) = 3 /\ DOMAIN t = 1 .. 3
      /\ t[1] = 90 /\ t[2] = c /\ t[3] = 255 - c
  BY <1>0, <1>2
<1>4. wire' = SubSeq(wire, 1, Len(wire)) \o t /\ Len(wire) \in Nat
  BY <1>1, SubSeqFull, LenProperties DEF WireTypes
<1>5. FrameInv' /\ wire' \in Seq(0 .. 255) /\ Len(wire') = Len(wire) + Len(t)
  <2>1. \A i \in 1 .. Len(t) - 1 : t[i + 1] \in After(t[i])
    BY <1>2, <1>3 DEF After
  <2>2. t[Len(t)] \notin Command \cup {90}
    BY <1>2, <1>3, HmiAssumption
  <2>3. t[1] = 0 \/ (Len(wire) = Len(wire) /\ t[1] \in Between)
    BY <1>3 DEF Between
  <2>4. Len(wire) \in 0 .. Len(wire)
    BY <1>4
  <2>5. wire' = SubSeq(wire, 1, Len(wire)) \o t /\ rx' = rx
    BY <1>1, <1>3, <1>4
  <2>6. t \in Seq(0 .. 255) /\ t # <<>>
    BY <1>3
  <2>7. QED
    BY ONLY WireTypes, FrameInv, <2>1, <2>2, <2>3, <2>4, <2>5, <2>6, FramesAdded
<1>6. \A d \in Command : FramesEnding(d, t) = IF d = c THEN 1 ELSE 0
  <2> SUFFICES ASSUME NEW d \in Command
               PROVE  FramesEnding(d, t) = IF d = c THEN 1 ELSE 0
    OBVIOUS
  <2>1. d \in 1 .. 4
    BY HmiAssumption
  <2>2. CASE d = c
    <3>1. {i \in DOMAIN t : t[i] = 255 - d} = {3}
      BY <1>2, <1>3, <2>2
    <3>2. QED
      BY <2>2, <3>1, FS_Singleton DEF FramesEnding
  <2>3. CASE d # c
    <3>1. \A i \in DOMAIN t : t[i] # 255 - d
      BY <1>2, <1>3, <2>1, <2>3
    <3>2. QED
      BY <1>3, <2>3, <3>1, EndsNone
  <2>4. QED
    BY <2>2, <2>3
<1>7. \A d \in Command : /\ FramesEnding(d, wire') = FramesEnding(d, wire) + FramesEnding(d, t)
                         /\ FramesEnding(d, wire) \in Nat
  BY <1>1, <1>3, EndsConcat, EndsFinite DEF WireTypes
<1>8. WireTypes'
  <2>1. owed' \in [Command -> Int]
    BY <1>1 DEF WireTypes
  <2>2. QED
    BY <1>1, <1>3, <1>5, <2>1 DEF WireTypes
<1>9. EveryPressAccounted'
  <2> SUFFICES ASSUME NEW d \in Command
               PROVE  owed'[d] = FramesEnding(d, wire') + (IF got' = d THEN 1 ELSE 0)
    BY DEF EveryPressAccounted
  <2>1. owed[d] = FramesEnding(d, wire) + (IF got = d THEN 1 ELSE 0)
    BY DEF EveryPressAccounted
  <2>2. owed'[d] = IF d = c THEN owed[d] + 1 ELSE owed[d]
    BY <1>1 DEF WireTypes
  <2>3. QED
    BY <1>1, <1>6, <1>7, <2>1, <2>2
<1>10. QED
  BY <1>5, <1>8, <1>9

LEMMA RestartAccounts ==
  ASSUME WireTypes, FrameInv, EveryPressAccounted, Restart
  PROVE  WireTypes' /\ FrameInv' /\ EveryPressAccounted'
<1>0. PICK t : t = <<0, 0, 0, 255, 255, 255>>
  OBVIOUS
<1> DEFINE Lost(n) == SubSeq(wire, n + 1, Len(wire))
<1>1. PICK n \in 0 .. Len(wire) :
        /\ n + 6 <= WireCap
        /\ wire' = SubSeq(wire, 1, n) \o t
        /\ owed' = [c \in Command |-> owed[c] - FramesEnding(c, Lost(n))]
  BY <1>0 DEF Restart
<1>2. rx' = rx /\ got' = got
  BY DEF Restart
<1>3. wire \in Seq(0 .. 255) /\ Len(wire) \in Nat
  BY LenProperties DEF WireTypes
<1>4. /\ t \in Seq(0 .. 255) /\ t # <<>> /\ Len(t) = 6 /\ DOMAIN t = 1 .. 6
      /\ \A i \in 1 .. 6 : t[i] \in {0, 255}
      /\ t[1] = 0 /\ t[6] = 255
  BY <1>0
<1> HIDE DEF Lost
<1>5. FrameInv' /\ wire' \in Seq(0 .. 255) /\ Len(wire') = n + Len(t)
  <2>1. \A i \in 1 .. Len(t) - 1 : t[i + 1] \in After(t[i])
    <3>1. \A i \in 1 .. 5 : t[i + 1] \in {0, 255} /\ t[i] \in {0, 255}
      BY <1>4
    <3>2. QED
      BY <1>4, <3>1, HmiAssumption DEF After, Between
  <2>2. t[Len(t)] \notin Command \cup {90}
    BY <1>4, HmiAssumption
  <2>3. wire' = SubSeq(wire, 1, n) \o t /\ rx' = rx
    BY <1>1, <1>2
  <2>4. t \in Seq(0 .. 255) /\ t # <<>> /\ t[1] = 0
    BY <1>4
  <2>5. QED
    BY ONLY WireTypes, FrameInv, n \in 0 .. Len(wire), <2>1, <2>2, <2>3, <2>4,
            FramesAdded
<1>6. ASSUME NEW c \in Command
      PROVE  /\ FramesEnding(c, wire') + FramesEnding(c, Lost(n)) = FramesEnding(c, wire)
             /\ {FramesEnding(c, wire'), FramesEnding(c, Lost(n)), FramesEnding(c, wire)}
                  \subseteq Nat
  <2>1. /\ SubSeq(wire, 1, n) \in Seq(0 .. 255) /\ Lost(n) \in Seq(0 .. 255)
        /\ wire = SubSeq(wire, 1, n) \o Lost(n)
    <3>1. SubSeq(wire, 1, n) \o SubSeq(wire, n + 1, Len(wire)) = SubSeq(wire, 1, Len(wire))
      <4>1. 1 \in 1 .. Len(wire) + 1 /\ n \in 1 - 1 .. Len(wire)
            /\ Len(wire) \in n .. Len(wire)
        BY <1>3
      <4>2. QED
        BY <1>3, <4>1, ConcatAdjacentSubSeq, Zenon
    <3>2. SubSeq(wire, 1, Len(wire)) = wire
      BY <1>3, SubSeqFull
    <3>3. \A i \in 1 .. Len(wire) : wire[i] \in 0 .. 255
      BY <1>3, ElementOfSeq
    <3>4. SubSeq(wire, 1, n) \in Seq(0 .. 255)
      BY <1>3, <3>3, SubSeqProperties
    <3>5. SubSeq(wire, n + 1, Len(wire)) \in Seq(0 .. 255)
      BY <1>3, <3>3, SubSeqProperties
    <3>6. QED
      BY <3>1, <3>2, <3>4, <3>5 DEF Lost
  <2>2. FramesEnding(c, t) = 0
    <3>1. \A i \in DOMAIN t : t[i] # 255 - c
      BY <1>4, HmiAssumption
    <3>2. QED
      BY <1>4, <3>1, EndsNone
  <2>3. FramesEnding(c, wire') = FramesEnding(c, SubSeq(wire, 1, n)) + FramesEnding(c, t)
    BY <1>1, <1>4, <2>1, EndsConcat
  <2>4. FramesEnding(c, SubSeq(wire, 1, n) \o Lost(n))
          = FramesEnding(c, SubSeq(wire, 1, n)) + FramesEnding(c, Lost(n))
    BY <2>1, EndsConcat
  <2>5. {FramesEnding(c, wire'), FramesEnding(c, SubSeq(wire, 1, n)),
         FramesEnding(c, Lost(n)), FramesEnding(c, wire)} \subseteq Nat
    BY <1>3, <1>5, <2>1, EndsFinite
  <2>6. FramesEnding(c, wire)
          = FramesEnding(c, SubSeq(wire, 1, n)) + FramesEnding(c, Lost(n))
    BY <2>1, <2>4
  <2>7. QED
    BY <2>2, <2>3, <2>5, <2>6
<1>7. WireTypes'
  <2>1. owed' \in [Command -> Int]
    BY <1>1, <1>6 DEF WireTypes
  <2>2. QED
    BY <1>1, <1>2, <1>4, <1>5, <2>1 DEF WireTypes
<1>8. EveryPressAccounted'
  <2> SUFFICES ASSUME NEW c \in Command
               PROVE  owed'[c] = FramesEnding(c, wire') + (IF got' = c THEN 1 ELSE 0)
    BY DEF EveryPressAccounted
  <2>1. owed[c] = FramesEnding(c, wire) + (IF got = c THEN 1 ELSE 0)
    BY DEF EveryPressAccounted
  <2>2. owed'[c] = owed[c] - FramesEnding(c, Lost(n))
    BY <1>1
  <2>3. QED
    BY <1>2, <1>6, <2>1, <2>2
<1>9. QED
  BY <1>5, <1>7, <1>8

LEMMA ReadyAccounts ==
  ASSUME WireTypes, FrameInv, EveryPressAccounted, Ready
  PROVE  WireTypes' /\ FrameInv' /\ EveryPressAccounted'
<1>0. PICK t : t = <<136, 255, 255, 255>>
  OBVIOUS
<1>1. wire' = wire \o t /\ rx' = rx /\ got' = got /\ owed' = owed
      /\ Len(wire) + 4 <= WireCap
  BY <1>0 DEF Ready
<1>2. /\ t \in Seq(0 .. 255) /\ t # <<>> /\ Len(t) = 4 /\ DOMAIN t = 1 .. 4
      /\ \A i \in 1 .. 4 : t[i] \in {136, 255}
      /\ t[1] = 136 /\ t[4] = 255 /\ \A i \in 1 .. 3 : t[i + 1] = 255
  BY <1>0
<1>3. wire' = SubSeq(wire, 1, Len(wire)) \o t /\ Len(wire) \in Nat
  BY <1>1, SubSeqFull, LenProperties DEF WireTypes
<1>4. FrameInv' /\ wire' \in Seq(0 .. 255) /\ Len(wire') = Len(wire) + Len(t)
  <2>1. \A i \in 1 .. Len(t) - 1 : t[i + 1] \in After(t[i])
    BY <1>2, HmiAssumption DEF After, Between
  <2>2. t[Len(t)] \notin Command \cup {90}
    BY <1>2, HmiAssumption
  <2>3. t[1] = 0 \/ (Len(wire) = Len(wire) /\ t[1] \in Between)
    BY <1>2 DEF Between
  <2>4. Len(wire) \in 0 .. Len(wire)
    BY <1>3
  <2>5. wire' = SubSeq(wire, 1, Len(wire)) \o t /\ rx' = rx
    BY <1>1, <1>2, <1>3
  <2>6. t \in Seq(0 .. 255) /\ t # <<>>
    BY <1>2
  <2>7. QED
    BY ONLY WireTypes, FrameInv, <2>1, <2>2, <2>3, <2>4, <2>5, <2>6, FramesAdded
<1>5. \A c \in Command : FramesEnding(c, wire') = FramesEnding(c, wire)
  <2> TAKE c \in Command
  <2>1. \A i \in DOMAIN t : t[i] # 255 - c
    BY <1>2, HmiAssumption
  <2>2. FramesEnding(c, t) = 0
    BY <1>2, <2>1, EndsNone
  <2>3. FramesEnding(c, wire') = FramesEnding(c, wire) + FramesEnding(c, t)
    BY <1>1, <1>2, EndsConcat DEF WireTypes
  <2>4. FramesEnding(c, wire) \in Nat
    BY EndsFinite DEF WireTypes
  <2>5. QED
    BY <2>2, <2>3, <2>4
<1>6. WireTypes'
  BY <1>1, <1>2, <1>4 DEF WireTypes
<1>7. EveryPressAccounted'
  BY <1>1, <1>5 DEF EveryPressAccounted
<1>8. QED
  BY <1>4, <1>6, <1>7

LEMMA EndAccounts ==
  ASSUME WireTypes, FrameInv, EveryPressAccounted, ScanEnd
  PROVE  WireTypes' /\ FrameInv' /\ EveryPressAccounted'
<1>1. /\ got' = 0 /\ UNCHANGED <<wire, rx>>
      /\ owed' = IF got \in Command THEN [owed EXCEPT ![got] = @ - 1] ELSE owed
  BY DEF ScanEnd
<1>2. WireTypes'
  BY <1>1 DEF WireTypes
<1>3. FrameInv'
  BY <1>1 DEF FrameInv, Expected
<1>4. EveryPressAccounted'
  <2> SUFFICES ASSUME NEW c \in Command
               PROVE  owed'[c] = FramesEnding(c, wire') + (IF got' = c THEN 1 ELSE 0)
    BY DEF EveryPressAccounted
  <2>1. owed[c] = FramesEnding(c, wire) + (IF got = c THEN 1 ELSE 0)
    BY DEF EveryPressAccounted
  <2>2. owed'[c] = IF got = c THEN owed[c] - 1 ELSE owed[c]
    BY <1>1 DEF WireTypes
  <2>3. FramesEnding(c, wire) \in Nat /\ c # 0
    BY EndsFinite, HmiAssumption DEF WireTypes
  <2>4. QED
    BY <1>1, <2>1, <2>2, <2>3
<1>5. QED
  BY <1>2, <1>3, <1>4

THEOREM LineInductive == Spec => [](WireTypes /\ FrameInv /\ EveryPressAccounted)
<1>1. Init => WireTypes /\ FrameInv /\ EveryPressAccounted
  <2> SUFFICES ASSUME Init PROVE WireTypes /\ FrameInv /\ EveryPressAccounted
    OBVIOUS
  <2>1. wire = <<>> /\ rx = IdleRx /\ got = 0 /\ owed = [c \in Command |-> 0]
    BY DEF Init
  <2>2. WireTypes
    BY <2>1, HmiAssumption DEF WireTypes, IdleRx, Rx, RxState
  <2>3. FrameInv
    BY <2>1 DEF FrameInv, IdleRx, Rx
  <2>4. \A c : FramesEnding(c, <<>>) = 0
    <3>1. <<>> \in Seq(0 .. 255) /\ DOMAIN <<>> = {}
      OBVIOUS
    <3>2. QED
      BY <3>1, EndsNone
  <2>5. EveryPressAccounted
    BY <2>1, <2>4, HmiAssumption DEF EveryPressAccounted
  <2>6. QED
    BY <2>2, <2>3, <2>5
<1>2. WireTypes /\ FrameInv /\ EveryPressAccounted /\ [Next]_vars
        => WireTypes' /\ FrameInv' /\ EveryPressAccounted'
  <2> SUFFICES ASSUME WireTypes, FrameInv, EveryPressAccounted, [Next]_vars
               PROVE  WireTypes' /\ FrameInv' /\ EveryPressAccounted'
    OBVIOUS
  <2>1. CASE ScanByte
    BY <2>1, ScanKeepsFrames, ScanAccounts
  <2>2. CASE ScanEnd
    BY <2>2, EndAccounts
  <2>3. CASE Panel
    BY <2>3, RestartAccounts, ReadyAccounts, PressAccounts DEF Panel
  <2>4. CASE UNCHANGED rxVars
    BY <2>4 DEF rxVars, WireTypes, FrameInv, Expected, EveryPressAccounted
  <2>5. QED
    BY <2>1, <2>2, <2>3, <2>4
       DEF Next, UpdateScreen, BuildBmsNextionCommands, Change, vars
<1>3. QED
  BY <1>1, <1>2, PTL DEF Spec

(* No press is missed, reported twice or invented.                         *)
THEOREM PressesAccounted == Spec => []EveryPressAccounted
  BY LineInductive, PTL

-----------------------------------------------------------------------------
(* The types of the rest of the state.                                     *)
PageTypes ==
  /\ panel \in {"up", "booting"} /\ pc \in {"main", "bms", "scan"}
  /\ screen \in [Field -> Value \cup {Blank}]
  /\ page \in [Object -> {Blank, "fixed", "ok", "critical"}]
  /\ data \in [Field -> Value] /\ last \in [Field -> Value]
  /\ bmsValid \in BOOLEAN /\ hasCached \in BOOLEAN /\ resetPending \in BOOLEAN
  /\ bmsForce \in BOOLEAN /\ isWarm \in BOOLEAN
  /\ cellAge \in 0 .. CellPeriod
  /\ cache \in [Object -> {Unsent, "fixed", "ok", "critical"}]

LEMMA PageTypesInit == Init => PageTypes
<1> SUFFICES ASSUME Init PROVE PageTypes
  OBVIOUS
<1>1. screen \in [Field -> Value \cup {Blank}]
  BY DEF Init
<1>2. /\ page \in [Object -> {Blank, "fixed", "ok", "critical"}]
      /\ cache \in [Object -> {Unsent, "fixed", "ok", "critical"}]
  BY DEF Init
<1>3. cellAge \in 0 .. CellPeriod
  BY HmiAssumption DEF Init
<1>4. QED
  BY <1>1, <1>2, <1>3 DEF Init, PageTypes

LEMMA PageTypesStep ==
  ASSUME PageTypes, [Next]_vars
  PROVE  PageTypes'
<1>1. CASE UpdateScreen
  <2>1. screen' \in [Field -> Value \cup {Blank}] /\ last' \in [Field -> Value]
    BY <1>1 DEF UpdateScreen, PageTypes
  <2>2. bmsForce' \in BOOLEAN /\ resetPending' \in BOOLEAN /\ hasCached' \in BOOLEAN
    BY <1>1 DEF UpdateScreen
  <2>3. /\ panel' = panel /\ pc' = "bms" /\ page' = page /\ data' = data
        /\ bmsValid' = bmsValid /\ isWarm' = isWarm /\ cellAge' = cellAge /\ cache' = cache
    BY <1>1 DEF UpdateScreen, Start
  <2>4. QED
    BY <2>1, <2>2, <2>3 DEF PageTypes
<1>2. CASE BuildBmsNextionCommands
  <2>1. \A o \in Object : Target(o) \in {"fixed", "ok", "critical"}
    BY DEF Target
  <2>2. PICK sent :
          /\ Emit(sent)
          /\ isWarm' = (isWarm \/ sent = Due(bmsForce \/ cellAge >= CellPeriod))
          /\ cellAge' = IF bmsForce \/ cellAge >= CellPeriod THEN 0 ELSE cellAge + 1
    BY <1>2 DEF BuildBmsNextionCommands
  <2>3. /\ page' \in [Object -> {Blank, "fixed", "ok", "critical"}]
        /\ cache' \in [Object -> {Unsent, "fixed", "ok", "critical"}]
    BY <2>1, <2>2 DEF Emit, PageTypes
  <2>4. cellAge' \in 0 .. CellPeriod
    BY <2>2, HmiAssumption DEF PageTypes
  <2>5. isWarm' \in BOOLEAN
    BY <2>2
  <2>6. /\ pc' = "scan" /\ panel' = panel /\ screen' = screen /\ data' = data
        /\ last' = last /\ bmsValid' = bmsValid /\ hasCached' = hasCached
        /\ resetPending' = resetPending /\ bmsForce' = FALSE
    BY <1>2 DEF BuildBmsNextionCommands, mainVars
  <2>7. QED
    BY <2>3, <2>4, <2>5, <2>6 DEF PageTypes
<1>3. CASE ScanByte
  <2>1. hasCached' \in BOOLEAN /\ resetPending' \in BOOLEAN
    BY <1>3 DEF ScanByte
  <2>2. QED
    BY <1>3, <2>1 DEF ScanByte, bmsVars, PageTypes
<1>4. CASE ScanEnd
  BY <1>4 DEF ScanEnd, mainVars, bmsVars, PageTypes
<1>5. CASE Restart
  <2>1. /\ screen' \in [Field -> Value \cup {Blank}]
        /\ page' \in [Object -> {Blank, "fixed", "ok", "critical"}]
    BY <1>5 DEF Restart
  <2>2. QED
    BY <1>5, <2>1 DEF Restart, PageTypes
<1>6. CASE Ready
  BY <1>6 DEF Ready, mainVars, bmsVars, PageTypes
<1>7. CASE \E c \in Command : Press(c)
  BY <1>7 DEF Press, mainVars, bmsVars, PageTypes
<1>8. CASE Change
  BY <1>8 DEF Change, PageTypes
<1>9. CASE UNCHANGED vars
  BY <1>9 DEF vars, mainVars, bmsVars, PageTypes
<1>10. QED
  BY <1>1, <1>2, <1>3, <1>4, <1>5, <1>6, <1>7, <1>8, <1>9 DEF Next, Panel

(* Every variable stays in its type.                                       *)
THEOREM TypeCorrect == Spec => []TypeOK
<1>1. Init => PageTypes
  BY PageTypesInit
<1>2. PageTypes /\ [Next]_vars => PageTypes'
  BY PageTypesStep
<1>3. PageTypes /\ WireTypes /\ EveryPressAccounted => TypeOK
  <2> SUFFICES ASSUME PageTypes, WireTypes, EveryPressAccounted PROVE TypeOK
    OBVIOUS
  <2>1. \A c \in Command : owed[c] \in Nat
    BY EndsFinite DEF WireTypes, EveryPressAccounted
  <2>2. owed \in [Command -> Nat]
    BY <2>1 DEF WireTypes
  <2>3. {bmsValid, hasCached, resetPending, bmsForce, isWarm} \subseteq BOOLEAN
    BY Zenon DEF PageTypes
  <2>4. QED
    BY <2>2, <2>3 DEF TypeOK, PageTypes, WireTypes, RxState
<1>4. QED
  BY <1>1, <1>2, <1>3, LineInductive, PTL DEF Spec

-----------------------------------------------------------------------------
(* The cache of the main page.                                             *)
LEMMA CacheStep ==
  ASSUME PageTypes, WireTypes, FrameInv, WireTypes', CacheIsHonest, [Next]_vars
  PROVE  CacheIsHonest'
<1> SUFFICES ASSUME panel' = "up", hasCached', \A i \in DOMAIN wire' : wire'[i] # 136
             PROVE  screen' = last'
  BY DEF CacheIsHonest
<1>1. /\ wire \in Seq(0 .. 255) /\ DOMAIN wire = 1 .. Len(wire) /\ Len(wire) \in Nat
      /\ DOMAIN wire' = 1 .. Len(wire')
  BY LenProperties DEF WireTypes
<1>2. CASE UpdateScreen
  <2>1. /\ panel = "up" /\ wire' = wire /\ last' = data
        /\ screen' = [f \in Field |-> IF ~hasCached \/ data[f] # last[f]
                                      THEN data[f] ELSE screen[f]]
    BY <1>2 DEF UpdateScreen, rxVars
  <2>2. hasCached => screen = last
    BY <2>1 DEF CacheIsHonest
  <2>3. \A f \in Field : screen'[f] = data[f]
    BY <2>1, <2>2
  <2>4. QED
    BY <2>1, <2>3 DEF PageTypes
<1>3. CASE ScanByte
  <2>1. /\ wire # <<>> /\ wire' = Tail(wire) /\ panel = "up"
        /\ hasCached /\ Classify(rx, Head(wire)).event # "reset"
        /\ UNCHANGED <<screen, last>>
    BY <1>3 DEF ScanByte
  <2>2. Head(wire) # 136
    BY <2>1 DEF Classify, Result
  <2>3. /\ Len(wire') = Len(wire) - 1 /\ Head(wire) = wire[1]
        /\ \A i \in 1 .. Len(wire') : wire'[i] = wire[i + 1]
    BY <1>1, <2>1, HeadTailProperties
  <2>4. \A i \in DOMAIN wire : wire[i] # 136
    <3> SUFFICES ASSUME NEW i \in 1 .. Len(wire) PROVE wire[i] # 136
      BY <1>1
    <3>1. CASE i = 1
      BY <2>2, <2>3, <3>1
    <3>2. CASE i > 1
      <4>1. i - 1 \in 1 .. Len(wire') /\ wire'[i - 1] = wire[(i - 1) + 1]
        BY <1>1, <2>3, <3>2
      <4>2. QED
        BY <1>1, <4>1
    <3>3. QED
      BY <3>1, <3>2
  <2>5. QED
    BY <2>1, <2>4 DEF CacheIsHonest
<1>4. CASE Restart
  BY <1>4 DEF Restart
<1>5. CASE Ready
  <2>1. /\ wire' = wire \o <<136, 255, 255, 255>>
        /\ <<136, 255, 255, 255>> \in Seq(0 .. 255)
        /\ Len(<<136, 255, 255, 255>>) = 4 /\ <<136, 255, 255, 255>>[1] = 136
    BY <1>5 DEF Ready
  <2>2. Len(wire') = Len(wire) + 4 /\ wire'[Len(wire) + 1] = 136
    BY <1>1, <2>1, ConcatProperties
  <2>3. QED
    BY <1>1, <2>2
<1>6. CASE \E c \in Command : Press(c)
  <2>1. PICK c \in Command : Press(c)
    BY <1>6
  <2>2. c \in 1 .. 4
    BY HmiAssumption
  <2>3. PICK t : t = <<90, c, 255 - c>>
    OBVIOUS
  <2>4. Len(wire') = Len(wire) + 3 /\ \A i \in 1 .. Len(wire) : wire'[i] = wire[i]
    <3>1. wire' = wire \o t
      BY <2>1, <2>3 DEF Press
    <3>2. wire \in Seq(0 .. 255) /\ t \in Seq(0 .. 255) /\ Len(t) = 3
      BY <1>1, <2>2, <2>3
    <3>3. /\ Len(wire \o t) = Len(wire) + Len(t)
          /\ \A i \in 1 .. Len(wire) + Len(t) :
               (wire \o t)[i] = IF i <= Len(wire) THEN wire[i] ELSE t[i - Len(wire)]
      BY ONLY <3>2, ConcatProperties
    <3>4. QED
      BY <1>1, <3>1, <3>2, <3>3
  <2>5. \A i \in DOMAIN wire : wire[i] # 136
    BY <1>1, <2>4
  <2>6. QED
    BY <2>1, <2>5 DEF CacheIsHonest, Press, mainVars
<1>7. CASE UNCHANGED <<panel, screen, last, hasCached, wire>>
  BY <1>7 DEF CacheIsHonest
<1>8. QED
  BY <1>2, <1>3, <1>4, <1>5, <1>6, <1>7
     DEF Next, Panel, BuildBmsNextionCommands, ScanEnd, Change, vars, mainVars, rxVars

(* A field is left out of an update only if the panel shows it.            *)
THEOREM CacheHonest == Spec => []CacheIsHonest
<1>1. Init => PageTypes /\ CacheIsHonest
  BY PageTypesInit DEF Init, CacheIsHonest
<1>2. /\ PageTypes /\ WireTypes /\ FrameInv /\ WireTypes' /\ CacheIsHonest /\ [Next]_vars
      => PageTypes' /\ CacheIsHonest'
  BY PageTypesStep, CacheStep
<1>3. QED
  BY <1>1, <1>2, LineInductive, PTL DEF Spec
=============================================================================
