----------------------- MODULE BitAllocSearch_proofs -----------------------
(***************************************************************************)
(* What is proved of the SNR offset search for every frame, every table of *)
(* frame sizes, every rate and every number of channels.  Of bit_alloc     *)
(* BitsAreCounts is assumed: its value need not grow with the offset.  Two *)
(* theorems at the end also need it not to be much larger below an offset. *)
(***************************************************************************)
EXTENDS BitAllocSearch, TLAPS

Slow == {"jump1", "jump2", "jump3", "up"}

\* The bits in hand are those of the offset in hand.
LeftInv ==
    /\ pc # "idle" => leftover = Left(snroffst)
    /\ pc \in {"fastup", "fastdown", "fastend"} =>
         leftover0 = Left(snr0) /\ leftover1 = Left(snr1)

\* The offsets that are kept for a later frame are not negative.
OffsetInv ==
    /\ last_quality >= 0
    /\ pc \in {"fastup", "fastdown", "fastend"} =>
         snroffst >= 0 /\ snr0 >= 0 /\ snr1 >= snr0
    /\ pc \in {"down", "accept"} => leftover < 0 \/ snroffst >= 0

\* The next offset up is known not to fit.
Tight(s) == s >= MaxOffset \/ Left(s + 1) < 0

FastTight(s) == s + 32 > MaxOffset \/ Left(s) = 0 \/ Left(s + 16) <= 0

\* Where the search stands: what the loops know of the offset above.
UseInv ==
    /\ pc \in Slow \cup {"down"} => ~Fast
    /\ pc = "down" => leftover < 0 \/ Tight(snroffst)
    /\ pc = "accept" /\ ~Fast => leftover < 0 \/ Tight(snroffst)
    /\ pc \in {"fastup", "fastdown", "fastend"} => Fast
    /\ pc = "fastup" => leftover0 > 0 /\ (snr0 = snr1 \/ snr1 = snr0 + 16)
                        /\ snroffst <= snr1 /\ leftover > 0
                        /\ (snr0 = snr1 => snroffst = snr0)
    /\ pc = "fastdown" => (snr0 = snr1 /\ leftover < 0 /\ snroffst = snr0)
                          \/ (snr1 = snr0 + 16 /\ leftover1 < 0)
    /\ pc = "fastend" =>
         \/ snr0 = snr1 /\ snroffst = snr0 /\ (leftover < 0 \/ snr0 + 16 > MaxOffset)
         \/ snr1 = snr0 + 16 /\ (leftover1 <= 0 \/ snr1 + 16 > MaxOffset)
    /\ pc = "accept" /\ Fast => leftover < 0 \/ FastTight(snroffst)

\* What the search has promised when it succeeds.
ResultInv ==
    /\ pc # "idle" => result = "none"
    /\ FrameFits
    /\ FrameIsUsed

IInv == TypeOK /\ LeftInv /\ OffsetInv /\ UseInv /\ ResultInv

-----------------------------------------------------------------------------
(* Arithmetic.                                                             *)

\* The numbers of a context and of a frame.
LEMMA ContextType ==
    ASSUME ctx \in Contexts
    PROVE  /\ NChannels \in 1 .. 5 /\ TargetRate \in Nat /\ HalfRate \in 0 .. 2
           /\ FrameSizes \in Seq(Nat) /\ FrameSizes # <<>>
  BY SearchAssumption DEF NChannels, TargetRate, HalfRate, FrameSizes

LEMMA FrameType ==
    ASSUME NEW g \in Frames
    PROVE  g.fixed \in Nat /\ g.size \in Nat
<1>1. PICK x \in Contexts : g \in x.frames
  BY DEF Frames
<1> QED
  BY <1>1, SearchAssumption

\* VBR's offset is in the range.
LEMMA QualityType == Quality \in Nat /\ Quality <= MaxOffset
<1>1. Quality \in 0 .. 1023
  BY SearchAssumption, Zenon
<1> QED
  BY <1>1 DEF MaxOffset

\* aften_encode_init starts with an offset that is not negative.
LEMMA InitialQualityType ==
    ASSUME ctx \in Contexts
    PROVE  InitialQuality \in Nat
<1>1. TargetRate \div NChannels \in Nat
  BY ContextType
<1> DEFINE q == (TargetRate \div NChannels) * 35
<1>2. q \in Nat
  BY <1>1
<1>3. q \div 24 \in Nat
  BY <1>2
<1>4. HalfRate \in Nat /\ Quality \in Nat
  BY ContextType, QualityType
<1>5. CbrQuality \in Nat
  BY <1>3, <1>4 DEF CbrQuality
<1> QED
  BY <1>4, <1>5 DEF InitialQuality

\* Division in C gives an integer.
LEMMA QuotientType ==
    ASSUME NEW a \in Int, NEW b \in Nat, b > 0
    PROVE  Quotient(a, b) \in Int
  BY DEF Quotient

\* What is left of a frame at any offset is an integer.
LEMMA LeftType ==
    ASSUME BitsAreCounts, TypeOK, NEW s \in Int
    PROVE  Left(s) \in Int
<1>1. f \in Frames /\ size \in Int
  BY DEF TypeOK
<1>2. f.fixed \in Int
  BY <1>1, FrameType
<1>3. Bits(f, s) \in Int
  BY <1>1 DEF BitsAreCounts
<1> QED
  BY <1>1, <1>2, <1>3 DEF Left

\* The frame size is a number of bits.
LEMMA SizeForType ==
    ASSUME ctx \in Contexts, NEW g \in Frames, NEW z \in SizeFor(g)
    PROVE  z \in Nat
<1>1. \A i \in DOMAIN FrameSizes : FrameSizes[i] \in Nat
  BY ContextType
<1>2. CASE Vbr
  <2>1. PICK i \in DOMAIN FrameSizes : z = FrameSizes[i]
    BY <1>2 DEF SizeFor
  <2> QED
    BY <1>1, <2>1
<1>3. CASE ~Vbr
  BY <1>3, FrameType DEF SizeFor
<1> QED
  BY <1>2, <1>3

-----------------------------------------------------------------------------
(* The invariant holds at the start.                                       *)

\* Before the first frame nothing is promised and nothing is in hand.
LEMMA InvInit == Init => IInv
<1> SUFFICES ASSUME Init PROVE IInv
  OBVIOUS
<1>0. ctx \in Contexts /\ f \in Frames
  BY DEF Init, Frames
<1>1. TypeOK
  BY <1>0, InitialQualityType, SearchAssumption DEF Init, TypeOK
<1>2. LeftInv /\ UseInv
  BY DEF Init, LeftInv, UseInv, Slow
<1>3. OffsetInv
  BY <1>0, InitialQualityType DEF Init, OffsetInv
<1>4. ResultInv
  BY DEF Init, ResultInv, FrameFits, FrameIsUsed
<1> QED
  BY <1>1, <1>2, <1>3, <1>4 DEF IInv

-----------------------------------------------------------------------------
(* Every step preserves it.  A frame and its size stay as they are during  *)
(* its search, and so does what is left at any offset.                     *)

\* Within a search Left is a constant function.
LEMMA LeftStays ==
    ASSUME UNCHANGED <<f, size>>, NEW s
    PROVE  Left(s)' = Left(s)
  BY DEF Left

\* During a search nothing is promised yet.
LEMMA NothingPromised ==
    ASSUME result' = "none"
    PROVE  FrameFits' /\ FrameIsUsed'
  BY DEF FrameFits, FrameIsUsed

\* cbr_bit_allocation takes a jump, or not.
LEMMA JumpStep ==
    ASSUME BitsAreCounts, IInv,
           NEW from \in {"jump1", "jump2", "jump3"},
           NEW to \in {"jump2", "jump3", "up"},
           NEW condition, NEW divisor \in Nat, divisor > 0,
           Jump(from, to, condition, divisor), UNCHANGED settings
    PROVE  IInv'
<1> DEFINE d == divisor * NChannels
           s == snroffst + Quotient(leftover, d)
<1>0. TypeOK /\ LeftInv /\ OffsetInv /\ UseInv /\ ResultInv
  BY DEF IInv
<1>1. d \in Nat /\ d > 0
  <2>1. NChannels \in Nat /\ NChannels > 0
    BY <1>0, ContextType DEF TypeOK
  <2> QED
    BY <2>1
<1>2. s \in Int
  BY <1>0, <1>1, QuotientType DEF TypeOK
<1>3. Left(s) \in Int
  BY <1>0, <1>2, LeftType
<1> HIDE DEF s, d
<1>4. UNCHANGED <<ctx, encoding_mode, bitalloc_fast, f, size, snr0, snr1, leftover0, leftover1, last_quality, result>>
  BY DEF settings, Jump, fastVars
<1>5. pc = from /\ pc' = to
  BY DEF Jump
<1>6. \/ snroffst' = s /\ leftover' = Left(s)
      \/ UNCHANGED <<snroffst, leftover>>
  BY DEF Jump, MoveTo, s, d
<1>7. TypeOK'
  BY <1>0, <1>2, <1>3, <1>4, <1>5, <1>6 DEF TypeOK
<1>8. LeftInv'
  BY <1>0, <1>4, <1>5, <1>6 DEF LeftInv, Left
<1>9. OffsetInv'
  BY <1>0, <1>4, <1>5 DEF OffsetInv
<1>10. UseInv'
  BY <1>0, <1>4, <1>5 DEF UseInv, Slow, Fast
<1>11. ResultInv'
  BY <1>0, <1>4, <1>5, NothingPromised DEF ResultInv
<1> QED
  BY <1>7, <1>8, <1>9, <1>10, <1>11 DEF IInv

\* cbr_bit_allocation goes up in steps.
LEMMA UpStep ==
    ASSUME BitsAreCounts, IInv, Up, UNCHANGED settings
    PROVE  IInv'
<1> DEFINE s == snroffst + (10 \div NChannels)
<1>0. TypeOK /\ LeftInv /\ OffsetInv /\ UseInv /\ ResultInv
  BY DEF IInv
<1>2. s \in Int /\ MaxOffset \in Int
  BY <1>0, ContextType DEF TypeOK, MaxOffset
<1>3. Left(s) \in Int /\ Left(MaxOffset) \in Int
  BY <1>0, <1>2, LeftType
<1>4. UNCHANGED <<ctx, encoding_mode, bitalloc_fast, f, size, snr0, snr1, leftover0, leftover1, last_quality, result>>
  BY DEF settings, Up, fastVars
<1>5. pc = "up"
  BY DEF Up
<1>6. \/ snroffst' = MaxOffset /\ leftover' = Left(MaxOffset) /\ pc' = "down"
      \/ snroffst' = s /\ leftover' = Left(s) /\ pc' = pc
      \/ leftover <= -100 /\ pc' = "down" /\ UNCHANGED <<snroffst, leftover>>
  BY <1>0, <1>2, <1>5 DEF Up, MoveTo, TypeOK, GoesUp, Breaks
<1> HIDE DEF s
<1>7. TypeOK'
  BY <1>0, <1>2, <1>3, <1>4, <1>5, <1>6 DEF TypeOK
<1>8. LeftInv'
  BY <1>0, <1>4, <1>5, <1>6 DEF LeftInv, Left
<1>9. OffsetInv'
  BY <1>0, <1>4, <1>5, <1>6 DEF OffsetInv, MaxOffset, TypeOK
<1>10. UseInv'
  BY <1>0, <1>4, <1>5, <1>6 DEF UseInv, Fast, Slow, Tight, MaxOffset, TypeOK
<1>11. ResultInv'
  BY <1>0, <1>4, <1>5, NothingPromised DEF ResultInv
<1> QED
  BY <1>7, <1>8, <1>9, <1>10, <1>11 DEF IInv

\* cbr_bit_allocation goes down by one, past offsets that do not fit.
LEMMA DownStep ==
    ASSUME BitsAreCounts, IInv, Down, UNCHANGED settings
    PROVE  IInv'
<1> DEFINE s == snroffst - 1
<1>0. TypeOK /\ LeftInv /\ OffsetInv /\ UseInv /\ ResultInv
  BY DEF IInv
<1>2. s \in Int
  BY <1>0 DEF TypeOK
<1>3. Left(s) \in Int
  BY <1>0, <1>2, LeftType
<1>4. UNCHANGED <<ctx, encoding_mode, bitalloc_fast, f, size, snr0, snr1, leftover0, leftover1, last_quality, result>>
  BY DEF settings, Down, fastVars
<1>5. pc = "down" /\ pc' \in {"down", "accept"}
  BY DEF Down
<1>6. \/ leftover < 0 /\ snroffst > 0 /\ snroffst' = s /\ leftover' = Left(s)
      \/ UNCHANGED <<snroffst, leftover>>
  BY DEF Down, MoveTo, GoesDown
<1>7. TypeOK'
  BY <1>0, <1>2, <1>3, <1>4, <1>5, <1>6 DEF TypeOK
<1>8. LeftInv'
  BY <1>0, <1>4, <1>5, <1>6 DEF LeftInv, Left
<1>9. OffsetInv'
  BY <1>0, <1>4, <1>5, <1>6 DEF OffsetInv, TypeOK
<1>10. leftover' < 0 \/ Tight(snroffst)'
  <2>1. CASE leftover < 0 /\ snroffst > 0 /\ snroffst' = s /\ leftover' = Left(s)
    <3>1. Left(snroffst) < 0
      BY <1>0, <1>5, <2>1 DEF LeftInv
    <3>2. snroffst' + 1 = snroffst
      BY <1>0, <2>1 DEF TypeOK
    <3>3. Left(snroffst + 1)' < 0
      BY <1>4, <3>1, <3>2 DEF Left
    <3> QED
      BY <3>3 DEF Tight
  <2>2. CASE UNCHANGED <<snroffst, leftover>>
    BY <1>0, <1>4, <1>5, <2>2 DEF UseInv, Tight, Left
  <2> QED
    BY <1>6, <2>1, <2>2
<1>11. UseInv'
  BY <1>0, <1>4, <1>5, <1>10 DEF UseInv, Slow, Fast
<1>12. ResultInv'
  BY <1>0, <1>4, <1>5, NothingPromised DEF ResultInv
<1> QED
  BY <1>7, <1>8, <1>9, <1>11, <1>12 DEF IInv

\* The fast search takes a step of 16 up, or ends.
LEMMA FastUpStep ==
    ASSUME BitsAreCounts, IInv, FastUp, UNCHANGED settings
    PROVE  IInv'
<1> DEFINE s == snr1 + 16
<1>0. TypeOK /\ LeftInv /\ OffsetInv /\ UseInv /\ ResultInv
  BY DEF IInv
<1>2. s \in Int
  BY <1>0 DEF TypeOK
<1>3. Left(s) \in Int
  BY <1>0, <1>2, LeftType
<1>4. UNCHANGED <<ctx, encoding_mode, bitalloc_fast, f, size, snroffst, leftover, last_quality, result>>
  BY DEF settings, FastUp
<1>5. pc = "fastup" /\ pc' \in {"fastup", "fastend"}
  BY DEF FastUp
<1>6. \/ /\ leftover1 > 0 /\ pc' = "fastup"
         /\ snr0' = snr1 /\ leftover0' = leftover1
         /\ snr1' = s /\ leftover1' = Left(s)
      \/ /\ ~(leftover1 > 0 /\ s <= MaxOffset) /\ pc' = "fastend"
         /\ UNCHANGED <<snr0, snr1, leftover0, leftover1>>
  BY <1>5 DEF FastUp, fastVars, GoesFastUp, NextSnr1
<1>7. TypeOK'
  BY <1>0, <1>2, <1>3, <1>4, <1>5, <1>6 DEF TypeOK
<1>8. LeftInv'
  BY <1>0, <1>4, <1>5, <1>6 DEF LeftInv, Left
<1>9. OffsetInv'
  BY <1>0, <1>4, <1>5, <1>6 DEF OffsetInv, TypeOK
<1>10. UseInv'
  BY <1>0, <1>4, <1>5, <1>6 DEF UseInv, Fast, LeftInv, Slow, MaxOffset, TypeOK
<1>11. ResultInv'
  BY <1>0, <1>4, <1>5, NothingPromised DEF ResultInv
<1> QED
  BY <1>7, <1>8, <1>9, <1>10, <1>11 DEF IInv

\* The fast search takes a step of 16 down, or ends.
LEMMA FastDownStep ==
    ASSUME BitsAreCounts, IInv, FastDown, UNCHANGED settings
    PROVE  IInv'
<1> DEFINE s == snr0 - 16
<1>0. TypeOK /\ LeftInv /\ OffsetInv /\ UseInv /\ ResultInv
  BY DEF IInv
<1>2. s \in Int
  BY <1>0 DEF TypeOK
<1>3. Left(s) \in Int
  BY <1>0, <1>2, LeftType
<1>4. UNCHANGED <<ctx, encoding_mode, bitalloc_fast, f, size, snroffst, leftover, last_quality, result>>
  BY DEF settings, FastDown
<1>5. pc = "fastdown" /\ pc' \in {"fastdown", "fastend"}
  BY DEF FastDown
<1>6. \/ /\ leftover0 < 0 /\ s >= 0 /\ pc' = "fastdown"
         /\ snr1' = snr0 /\ leftover1' = leftover0
         /\ snr0' = s /\ leftover0' = Left(s)
      \/ /\ pc' = "fastend"
         /\ UNCHANGED <<snr0, snr1, leftover0, leftover1>>
  BY <1>5 DEF FastDown, fastVars, GoesFastDown
<1>7. TypeOK'
  BY <1>0, <1>2, <1>3, <1>4, <1>5, <1>6 DEF TypeOK
<1>8. LeftInv'
  BY <1>0, <1>4, <1>5, <1>6 DEF LeftInv, Left
<1>9. OffsetInv'
  BY <1>0, <1>4, <1>5, <1>6 DEF OffsetInv, TypeOK
<1>10. UseInv'
  BY <1>0, <1>4, <1>5, <1>6 DEF UseInv, Fast, LeftInv, Slow, MaxOffset, TypeOK
<1>11. ResultInv'
  BY <1>0, <1>4, <1>5, NothingPromised DEF ResultInv
<1> QED
  BY <1>7, <1>8, <1>9, <1>10, <1>11 DEF IInv

\* The fast search settles on the lower of its two offsets.
LEMMA FastEndStep ==
    ASSUME BitsAreCounts, IInv, FastEnd, UNCHANGED settings
    PROVE  IInv'
<1>0. TypeOK /\ LeftInv /\ OffsetInv /\ UseInv /\ ResultInv
  BY DEF IInv
<1>1. pc = "fastend" /\ pc' = "accept" /\ Fast
  BY <1>0 DEF FastEnd, UseInv
<1>2. UNCHANGED <<ctx, encoding_mode, bitalloc_fast, f, size, snr0, snr1, leftover0, leftover1, last_quality, result>>
  BY DEF settings, FastEnd, fastVars
<1>3. snr0 \in Int /\ Left(snr0) \in Int /\ leftover0 = Left(snr0)
  BY <1>0, <1>1, LeftType DEF TypeOK, LeftInv
<1>4. \/ snr0 # snr1 /\ snroffst' = snr0 /\ leftover' = Left(snr0)
      \/ snr0 = snr1 /\ UNCHANGED <<snroffst, leftover>>
  BY DEF FastEnd, MoveTo
<1>5. TypeOK'
  BY <1>0, <1>1, <1>2, <1>3, <1>4 DEF TypeOK
<1>6. LeftInv'
  BY <1>0, <1>1, <1>2, <1>4 DEF LeftInv, Left
<1>7. OffsetInv'
  BY <1>0, <1>1, <1>2, <1>4 DEF OffsetInv, TypeOK
<1>8. leftover' < 0 \/ FastTight(snroffst)'
  <2>1. CASE snr0 = snr1
    BY <1>0, <1>1, <1>2, <1>4, <2>1 DEF UseInv, FastTight, MaxOffset, TypeOK
  <2>2. CASE snr0 # snr1
    <3>1. snr1 = snr0 + 16 /\ (leftover1 <= 0 \/ snr1 + 16 > MaxOffset)
      BY <1>0, <1>1, <2>2 DEF UseInv
    <3>2. snroffst' = snr0 /\ leftover1 = Left(snr0 + 16)
      BY <1>0, <1>1, <1>4, <2>2, <3>1 DEF LeftInv
    <3>3. CASE leftover1 <= 0
      <4>1. Left(snroffst + 16)' <= 0
        BY <1>2, <3>2, <3>3 DEF Left
      <4> QED
        BY <4>1 DEF FastTight
    <3>4. CASE snr1 + 16 > MaxOffset
      BY <1>0, <3>1, <3>2, <3>4 DEF FastTight, MaxOffset, TypeOK
    <3> QED
      BY <3>1, <3>3, <3>4
  <2> QED
    BY <2>1, <2>2
<1>9. UseInv'
  BY <1>1, <1>2, <1>8 DEF UseInv, Slow, Fast
<1>10. ResultInv'
  BY <1>0, <1>1, <1>2, NothingPromised DEF ResultInv
<1> QED
  BY <1>5, <1>6, <1>7, <1>9, <1>10 DEF IInv

\* The search ends: what it knows of the offset is now promised.
LEMMA AcceptStep ==
    ASSUME BitsAreCounts, IInv, Accept, UNCHANGED settings
    PROVE  IInv'
<1>0. TypeOK /\ LeftInv /\ OffsetInv /\ UseInv /\ ResultInv
  BY DEF IInv
<1>1. pc = "accept" /\ pc' = "idle"
  BY DEF Accept
<1>2. UNCHANGED <<ctx, encoding_mode, bitalloc_fast, f, size, snroffst, leftover, snr0, snr1, leftover0, leftover1>>
  BY DEF settings, Accept, fastVars
<1>3. \/ leftover < 0 /\ result' = "fail" /\ last_quality' = last_quality
      \/ ~(leftover < 0) /\ result' = "ok" /\ last_quality' = snroffst
  BY DEF Accept
<1>4. TypeOK'
  BY <1>0, <1>1, <1>2, <1>3 DEF TypeOK
<1>5. LeftInv' /\ UseInv'
  BY <1>1 DEF LeftInv, UseInv, Slow
<1>6. OffsetInv'
  BY <1>0, <1>1, <1>2, <1>3 DEF OffsetInv, TypeOK
<1>7. leftover = Left(snroffst)
  BY <1>0, <1>1 DEF LeftInv
<1>8. result' = "ok" => snroffst' >= 0
  BY <1>0, <1>1, <1>2, <1>3 DEF OffsetInv
<1>9. FrameFits'
  <2>1. f.fixed \in Int /\ Bits(f, snroffst) \in Int /\ size \in Int
    BY <1>0, FrameType, SMTT(30) DEF BitsAreCounts, TypeOK
  <2> QED
    BY <1>2, <1>3, <1>7, <1>8, <2>1 DEF FrameFits, Left
<1>10. FrameIsUsed'
  <2>1. ASSUME result' = "ok"
        PROVE  IF Fast THEN FastTight(snroffst) ELSE Tight(snroffst)
    BY <1>0, <1>1, <1>3, <2>1 DEF UseInv
  <2> QED
    BY <1>2, <2>1 DEF FrameIsUsed, Fast, Tight, FastTight, Left
<1>11. ResultInv'
  BY <1>1, <1>9, <1>10 DEF ResultInv
<1> QED
  BY <1>4, <1>5, <1>6, <1>11 DEF IInv

\* A frame comes in.
LEMMA BeginStep ==
    ASSUME BitsAreCounts, IInv, NEW g \in Frames, Begin(g)
    PROVE  IInv'
<1>0. TypeOK /\ OffsetInv
  BY DEF IInv
<1>1. f' = g /\ size' \in Nat
  BY <1>0, SizeForType DEF Begin, TypeOK
<1>2. snroffst' \in Int /\ snroffst' >= 0
  BY <1>0, QualityType DEF Begin, TypeOK, OffsetInv
<1>3. leftover' = Left(snroffst)'
  BY DEF Begin
<1>4. g.fixed \in Int /\ Bits(g, snroffst') \in Int
  <2>1. \A t \in Int : Bits(g, t) \in Nat
    BY DEF BitsAreCounts
  <2>2. g.fixed \in Int
    BY FrameType
  <2> QED
    BY <1>2, <2>1, <2>2
<1>5. leftover' \in Int
  BY <1>1, <1>3, <1>4 DEF Left
<1>6. /\ snr0' = snroffst' /\ snr1' = snroffst'
      /\ leftover0' = leftover' /\ leftover1' = leftover'
      /\ result' = "none" /\ last_quality' = last_quality
      /\ ctx' = ctx /\ encoding_mode' = encoding_mode /\ bitalloc_fast' = bitalloc_fast
  BY DEF Begin, settings
<1>7. \/ pc' = "jump1" /\ ~Fast
      \/ pc' = "fastup" /\ Fast /\ leftover' > 0
      \/ pc' = "fastdown" /\ Fast /\ leftover' < 0
      \/ pc' = "accept" /\ Fast /\ leftover' = 0
  BY <1>5 DEF Begin
<1>8. TypeOK'
  BY <1>0, <1>1, <1>2, <1>5, <1>6, <1>7 DEF TypeOK
<1>9. LeftInv'
  BY <1>3, <1>6 DEF LeftInv, Left
<1>10. OffsetInv'
  BY <1>0, <1>2, <1>6, <1>7 DEF OffsetInv
<1>11. ASSUME pc' = "accept" PROVE UseInv'
  <2>1. FastTight(snroffst)' /\ Fast'
    BY <1>3, <1>6, <1>7, <1>11 DEF FastTight, Left, Fast
  <2> QED
    BY <1>11, <2>1 DEF UseInv, Slow
<1>12. UseInv'
  <2>1. CASE pc' = "jump1"
    BY <1>6, <1>7, <2>1 DEF UseInv, Slow, Fast
  <2>2. CASE pc' = "fastup"
    BY <1>2, <1>6, <1>7, <2>2 DEF UseInv, Slow, Fast
  <2>3. CASE pc' = "fastdown"
    BY <1>6, <1>7, <2>3 DEF UseInv, Slow, Fast
  <2> QED
    BY <1>7, <1>11, <2>1, <2>2, <2>3
<1>13. ResultInv'
  BY <1>6, NothingPromised DEF ResultInv
<1> QED
  BY <1>8, <1>9, <1>10, <1>12, <1>13 DEF IInv

\* The invariant is inductive.
LEMMA InvInductive == BitsAreCounts /\ IInv /\ [Next]_vars => IInv'
<1> SUFFICES ASSUME BitsAreCounts, IInv, [Next]_vars PROVE IInv'
  OBVIOUS
<1>1. CASE Jumps /\ UNCHANGED settings
  BY <1>1, JumpStep DEF Jumps
<1>2. CASE Up /\ UNCHANGED settings
  BY <1>2, UpStep
<1>3. CASE Down /\ UNCHANGED settings
  BY <1>3, DownStep
<1>4. CASE (FastUp \/ FastDown \/ FastEnd) /\ UNCHANGED settings
  BY <1>4, FastUpStep, FastDownStep, FastEndStep
<1>5. CASE Accept /\ UNCHANGED settings
  BY <1>5, AcceptStep
<1>6. ASSUME NEW g \in Frames, Begin(g) PROVE IInv'
  BY <1>6, BeginStep
<1>7. CASE UNCHANGED vars
  BY <1>7 DEF IInv, vars, fastVars, settings, Fast, TypeOK, LeftInv, OffsetInv, UseInv,
       ResultInv, FrameFits, FrameIsUsed, Tight, FastTight,
       Left
<1> QED
  BY <1>1, <1>2, <1>3, <1>4, <1>5, <1>6, <1>7 DEF Next, Search

-----------------------------------------------------------------------------
\* cbr_bit_allocation never accepts a negative offset or one at which the frame
\* overflows.
THEOREM AcceptedFramesFit ==
    ASSUME BitsAreCounts
    PROVE  Spec => []FrameFits
<1>1. IInv /\ [Next]_vars => IInv'
  BY InvInductive
<1>2. IInv => FrameFits
  BY DEF IInv, ResultInv
<1> QED
  BY InvInit, <1>1, <1>2, PTL DEF Spec

\* cbr_bit_allocation stops at an offset whose next step up does not fit.
THEOREM AcceptedFramesAreUsed ==
    ASSUME BitsAreCounts
    PROVE  Spec => []FrameIsUsed
<1>1. IInv /\ [Next]_vars => IInv'
  BY InvInductive
<1>2. IInv => FrameIsUsed
  BY DEF IInv, ResultInv
<1> QED
  BY InvInit, <1>1, <1>2, PTL DEF Spec

-----------------------------------------------------------------------------
(* The fast search never leaves the range, or the offsets up to the one it *)
(* starts with; the slow one does, by its second jump.                     *)

\* The largest offset the fast search may reach.
Bound == IF InitialQuality > MaxOffset THEN InitialQuality ELSE MaxOffset

\* No offset in hand is above it.
RangeInv ==
    /\ last_quality <= Bound
    /\ pc # "idle" => snroffst <= Bound
    /\ pc \in {"fastup", "fastdown", "fastend"} => snr1 <= Bound
    /\ FastOffsetBounded

\* The bound is a number, and stays.
LEMMA BoundType ==
    ASSUME TypeOK
    PROVE  Bound \in Int /\ Bound >= MaxOffset /\ Bound >= InitialQuality
  BY InitialQualityType DEF TypeOK, Bound, MaxOffset

LEMMA BoundStays ==
    ASSUME UNCHANGED settings
    PROVE  Bound' = Bound
  BY DEF settings, Bound, InitialQuality, CbrQuality, NChannels, TargetRate, HalfRate, Vbr

\* No step changes the context's params.
LEMMA SettingsStay ==
    ASSUME [Next]_vars
    PROVE  UNCHANGED settings
  BY DEF Next, Search, Begin, vars

\* Every step of the fast search stays within the bound.
LEMMA RangeInductive ==
    ASSUME Fast, IInv, RangeInv, [Next]_vars
    PROVE  RangeInv'
<1>0. TypeOK /\ OffsetInv /\ UseInv /\ ResultInv
  BY DEF IInv
<1> DEFINE b == Bound
<1>b. b \in Int /\ b >= MaxOffset /\ Bound' = b
  BY <1>0, BoundType, BoundStays, SettingsStay
<1>r. /\ last_quality <= b
      /\ pc # "idle" => snroffst <= b
      /\ pc \in {"fastup", "fastdown", "fastend"} => snr1 <= b
  BY DEF RangeInv
<1>n. ASSUME result' = "none" PROVE FastOffsetBounded'
  BY <1>n DEF FastOffsetBounded
<1>p. RangeInv' <=> /\ last_quality' <= b
                    /\ pc' # "idle" => snroffst' <= b
                    /\ pc' \in {"fastup", "fastdown", "fastend"} => snr1' <= b
                    /\ FastOffsetBounded'
  BY <1>b DEF RangeInv
<1> HIDE DEF b
<1>1. CASE Jumps \/ Up \/ Down
  <2>1. pc \in Slow \cup {"down"}
    BY <1>1 DEF Jumps, Jump, Up, Down, Slow
  <2> QED
    BY <1>0, <2>1 DEF UseInv
<1>2. CASE FastUp
  <2>1. result' = "none"
    BY <1>0, <1>2 DEF FastUp, ResultInv
  <2> QED
    BY <1>0, <1>2, <1>b, <1>r, <1>n, <1>p, <2>1 DEF FastUp, fastVars, GoesFastUp, NextSnr1,
         TypeOK, MaxOffset
<1>3. CASE FastDown
  <2>1. result' = "none"
    BY <1>0, <1>3 DEF FastDown, ResultInv
  <2> QED
    BY <1>0, <1>3, <1>b, <1>r, <1>n, <1>p, <2>1 DEF FastDown, fastVars, GoesFastDown,
         OffsetInv, TypeOK, MaxOffset
<1>4. CASE FastEnd
  <2>1. result' = "none" /\ pc = "fastend" /\ pc' = "accept"
    BY <1>0, <1>4 DEF FastEnd, ResultInv
  <2>2. snr0 <= snr1 /\ snr1 <= b
    BY <1>0, <1>r, <2>1 DEF OffsetInv
  <2>3. snroffst' = snr0 \/ snroffst' = snroffst
    BY <1>4 DEF FastEnd, MoveTo
  <2>4. snroffst' <= b /\ last_quality' = last_quality
    BY <1>0, <1>4, <1>b, <1>r, <2>1, <2>2, <2>3 DEF FastEnd, TypeOK
  <2> QED
    BY <1>n, <1>p, <1>r, <2>1, <2>4
<1>5. CASE Accept
  <2>1. pc = "accept" /\ pc' = "idle" /\ snroffst' = snroffst
    BY <1>5 DEF Accept
  <2>2. \/ result' = "fail" /\ last_quality' = last_quality
        \/ result' = "ok" /\ last_quality' = snroffst /\ ~(leftover < 0)
    BY <1>5 DEF Accept
  <2>3. snroffst \in Int /\ snroffst <= b /\ (leftover < 0 \/ snroffst >= 0)
    BY <1>0, <1>r, <2>1 DEF OffsetInv, TypeOK
  <2>4. result' = "ok" => snroffst' \in 0 .. Bound'
    BY <1>b, <2>1, <2>2, <2>3
  <2>5. FastOffsetBounded'
    BY <2>4 DEF FastOffsetBounded, Bound
  <2> QED
    BY <1>p, <1>r, <2>1, <2>2, <2>3, <2>5
<1>6. ASSUME NEW g \in Frames, Begin(g) PROVE RangeInv'
  <2>1. snroffst' = (IF Vbr THEN Quality ELSE last_quality) /\ snr1' = snroffst'
        /\ result' = "none" /\ last_quality' = last_quality
    BY <1>6 DEF Begin
  <2>2. Quality \in Int /\ Quality <= MaxOffset /\ MaxOffset \in Int
    BY QualityType DEF MaxOffset
  <2>3. Quality <= b
    BY <1>b, <2>2
  <2>4. snroffst' <= b
    BY <1>r, <2>1, <2>3
  <2> QED
    BY <1>n, <1>p, <1>r, <2>1, <2>4
<1>7. CASE UNCHANGED vars
  <2>1. UNCHANGED <<settings, pc, snroffst, snr1, last_quality, result>>
    BY <1>7 DEF vars, fastVars
  <2>2. FastOffsetBounded'
    BY <1>b, <2>1 DEF RangeInv, FastOffsetBounded, Bound, b, Fast, settings
  <2> QED
    BY <1>p, <1>r, <2>1, <2>2
<1> QED
  BY <1>1, <1>2, <1>3, <1>4, <1>5, <1>6, <1>7 DEF Next, Search

\* With bitalloc_fast an accepted offset can be written into the frame, or is not
\* above the first guess of aften_encode_init: the only way out of the range is to
\* start outside.
THEOREM FastOffsetsBounded ==
    ASSUME BitsAreCounts
    PROVE  Spec => []FastOffsetBounded
<1> DEFINE FastRange == Fast => RangeInv
<1>1. IInv /\ [Next]_vars => IInv'
  BY InvInductive
<1>2. IInv /\ FastRange /\ [Next]_vars => FastRange'
  <2> SUFFICES ASSUME IInv, FastRange, [Next]_vars, Fast' PROVE RangeInv'
    OBVIOUS
  <2>1. Fast
    BY SettingsStay DEF Fast, settings
  <2> QED
    BY <2>1, RangeInductive
<1>3. Init => FastRange
  <2> SUFFICES ASSUME Init PROVE RangeInv
    OBVIOUS
  <2>1. TypeOK
    BY InvInit DEF IInv
  <2>2. last_quality <= Bound
    BY <2>1, BoundType DEF Init
  <2> QED
    BY <2>2 DEF Init, RangeInv, FastOffsetBounded
<1>4. FastRange => FastOffsetBounded
  BY DEF RangeInv, FastOffsetBounded
<1> HIDE DEF FastRange
<1> QED
  BY InvInit, <1>1, <1>2, <1>3, <1>4, PTL DEF Spec

-----------------------------------------------------------------------------
(* When a search gives up.                                                 *)

\* Below offset t no frame takes 100 bits more than at t.  What the groups of
\* mantissas waste in six blocks is less than that.
BitsGrow(t) == \A g \in Frames, s \in Int : s < t => Bits(g, s) < Bits(g, t) + 100

\* A search that is about to give up has tried the lowest offsets.
FailInv ==
    /\ pc \in {"down", "accept"} => snroffst >= 0 \/ (~Fast /\ leftover <= -100)
    /\ pc = "accept" /\ leftover < 0 => snroffst < IF Fast THEN 16 ELSE 1
    /\ pc = "fastend" /\ leftover0 < 0 => snr0 < 16
    /\ FailsOnlyIfTooSmall

\* Every step keeps that.
LEMMA FailInductive ==
    ASSUME BitsAreCounts, BitsGrow(0), IInv, FailInv, [Next]_vars
    PROVE  FailInv'
<1>0. TypeOK /\ LeftInv /\ OffsetInv /\ UseInv /\ ResultInv
  BY DEF IInv
<1>1. UNCHANGED settings /\ (Fast' <=> Fast)
  BY SettingsStay DEF settings, Fast
<1>2. ASSUME result' = "none" PROVE FailsOnlyIfTooSmall'
  BY <1>2 DEF FailsOnlyIfTooSmall
<1>3. CASE Jumps
  <2>1. pc' \in {"jump2", "jump3", "up"} /\ result' = "none"
    BY <1>0, <1>3 DEF Jumps, Jump, ResultInv
  <2> QED
    BY <1>2, <2>1 DEF FailInv
<1>4. CASE Up
  <2>1. result' = "none" /\ ~Fast
    BY <1>0, <1>4 DEF Up, ResultInv, UseInv, Slow
  <2>2. \/ pc' = "up"
        \/ pc' = "down" /\ snroffst' = MaxOffset
        \/ pc' = "down" /\ leftover <= -100 /\ leftover' = leftover
    BY <1>0, <1>4 DEF Up, MoveTo, TypeOK, GoesUp, Breaks
  <2> QED
    BY <1>1, <1>2, <2>1, <2>2 DEF FailInv, MaxOffset
<1>5. CASE Down
  <2>1. result' = "none" /\ pc = "down" /\ ~Fast
    BY <1>0, <1>5 DEF Down, ResultInv, UseInv
  <2>2. \/ pc' = "down" /\ snroffst > 0 /\ snroffst' = snroffst - 1
        \/ /\ pc' = "accept" /\ ~(leftover < 0 /\ snroffst > 0)
           /\ UNCHANGED <<snroffst, leftover>>
    BY <1>5 DEF Down, MoveTo, GoesDown
  <2> QED
    BY <1>0, <1>1, <1>2, <2>1, <2>2 DEF FailInv, TypeOK
<1>6. CASE FastUp
  <2>1. result' = "none" /\ leftover0 > 0
    BY <1>0, <1>6 DEF FastUp, ResultInv, UseInv
  <2>2. pc' = "fastup" \/ (pc' = "fastend" /\ leftover0' = leftover0)
    BY <1>6 DEF FastUp, fastVars
  <2> QED
    BY <1>0, <1>2, <2>1, <2>2 DEF FailInv, TypeOK
<1>7. CASE FastDown
  <2>1. result' = "none"
    BY <1>0, <1>7 DEF FastDown, ResultInv
  <2>2. \/ pc' = "fastdown"
        \/ /\ pc' = "fastend" /\ ~(leftover0 < 0 /\ snr0 - 16 >= 0)
           /\ UNCHANGED <<snr0, leftover0>>
    BY <1>7 DEF FastDown, fastVars, GoesFastDown
  <2> QED
    BY <1>0, <1>2, <2>1, <2>2 DEF FailInv, TypeOK
<1>8. CASE FastEnd
  <2>1. result' = "none" /\ pc = "fastend" /\ pc' = "accept" /\ Fast
    BY <1>0, <1>8 DEF FastEnd, ResultInv, UseInv
  <2>2. leftover = Left(snroffst) /\ leftover0 = Left(snr0) /\ snr0 >= 0
    BY <1>0, <2>1 DEF LeftInv, OffsetInv
  <2>3. snr0 = snr1 => snroffst = snr0
    BY <1>0, <2>1 DEF UseInv, TypeOK
  <2>4. snroffst' = snr0 /\ leftover' = leftover0
    <3>1. CASE snr0 = snr1
      BY <1>8, <2>2, <2>3, <3>1 DEF FastEnd
    <3>2. CASE snr0 # snr1
      BY <1>8, <2>2, <3>2 DEF FastEnd, MoveTo
    <3> QED
      BY <3>1, <3>2
  <2> QED
    BY <1>1, <1>2, <2>1, <2>2, <2>4 DEF FailInv
<1>9. CASE Accept
  <2>1. pc = "accept" /\ pc' = "idle" /\ UNCHANGED <<f, size>>
    BY <1>9 DEF Accept
  <2>2. FailsOnlyIfTooSmall'
    <3> SUFFICES ASSUME result' = "fail"
                 PROVE  \E s \in IF Fast' THEN 0 .. 15 ELSE {0} :
                           f'.fixed + Bits(f', s) > size'
      BY DEF FailsOnlyIfTooSmall
    <3>1. leftover < 0 /\ leftover = Left(snroffst)
      BY <1>0, <1>9, <2>1 DEF Accept, LeftInv
    <3>2. snroffst \in Int /\ size \in Int /\ f \in Frames
      BY <1>0 DEF TypeOK
    <3>3. f.fixed \in Int /\ Bits(f, snroffst) \in Int /\ Bits(f, 0) \in Int
      BY <3>2, FrameType, SMTT(30) DEF BitsAreCounts
    <3>4. f.fixed + Bits(f, snroffst) > size
      BY <3>1, <3>2, <3>3 DEF Left
    <3>5. CASE Fast
      <4>1. snroffst \in 0 .. 15
        BY <2>1, <3>1, <3>2, <3>5 DEF FailInv
      <4> QED
        BY <1>1, <2>1, <3>5, <3>4, <4>1
    <3>6. CASE ~Fast
      <4>1. snroffst <= 0 /\ (snroffst >= 0 \/ leftover <= -100)
        BY <2>1, <3>1, <3>2, <3>6 DEF FailInv
      <4>2. CASE snroffst = 0
        BY <1>1, <2>1, <3>6, <3>4, <4>2
      <4>3. CASE snroffst < 0
        <5>1. size - f.fixed - Bits(f, snroffst) <= -100
          BY <3>1, <3>2, <4>1, <4>3 DEF Left
        <5>2. Bits(f, snroffst) < Bits(f, 0) + 100
          BY <3>2, <4>3 DEF BitsGrow
        <5>3. f.fixed + Bits(f, 0) > size
          BY <3>2, <3>3, <5>1, <5>2
        <5> QED
          BY <1>1, <2>1, <3>6, <5>3
      <4> QED
        BY <3>2, <4>1, <4>2, <4>3
    <3> QED
      BY <3>5, <3>6
  <2> QED
    BY <2>1, <2>2 DEF FailInv
<1>10. ASSUME NEW g \in Frames, Begin(g) PROVE FailInv'
  <2>1. result' = "none" /\ pc' # "fastend" /\ pc' # "down"
    BY <1>10 DEF Begin
  <2>2. pc' = "accept" => ~(leftover' < 0)
    BY <1>10 DEF Begin
  <2>3. snroffst' >= 0
    BY <1>0, <1>10, QualityType DEF Begin, OffsetInv
  <2> QED
    BY <1>2, <2>1, <2>2, <2>3 DEF FailInv
<1>11. CASE UNCHANGED vars
  BY <1>11 DEF FailInv, FailsOnlyIfTooSmall, vars, fastVars, settings, Fast
<1> QED
  BY <1>3, <1>4, <1>5, <1>6, <1>7, <1>8, <1>9, <1>10, <1>11 DEF Next, Search

\* cbr_bit_allocation calls a bit rate too small only when the frame does not fit
\* at offset 0, or at one of the lowest 16 with bitalloc_fast.  The slow search,
\* whose first jump may go below 0, needs that no frame takes 100 bits there.
THEOREM FailuresAreTooSmall ==
    ASSUME BitsAreCounts, BitsGrow(0)
    PROVE  Spec => []FailsOnlyIfTooSmall
<1>1. IInv /\ [Next]_vars => IInv'
  BY InvInductive
<1>2. IInv /\ FailInv /\ [Next]_vars => FailInv'
  BY FailInductive
<1>3. Init => FailInv
  BY DEF Init, FailInv, FailsOnlyIfTooSmall
<1>4. FailInv => FailsOnlyIfTooSmall
  BY DEF FailInv
<1> QED
  BY InvInit, <1>1, <1>2, <1>3, <1>4, PTL DEF Spec

-----------------------------------------------------------------------------
(* The quality of VBR.                                                     *)

Largest == FrameSizes[Len(FrameSizes)]

\* In a frame that is not the largest the quality asked for fits, and the search
\* ends at it or above it.
KeepInv ==
    /\ Vbr /\ size # Largest =>
         /\ pc # "idle" => Left(Quality) >= 0
         /\ pc # "fastdown"
         /\ pc \in {"fastup", "fastend"} => snr0 >= Quality /\ snroffst >= Quality
         /\ pc \in {"down", "accept"} => snroffst >= Quality
    /\ VbrKeepsQuality

\* vbr_bit_allocation stops before the largest size only at one that holds the frame.
LEMMA SmallerSizeHolds ==
    ASSUME Vbr, NEW g \in Frames, NEW z \in SizeFor(g), z # Largest
    PROVE  z >= g.fixed + Bits(g, Quality)
<1>1. PICK i \in DOMAIN FrameSizes : VbrStopsAt(g, i) /\ z = FrameSizes[i]
  BY DEF SizeFor
<1>2. i # Len(FrameSizes)
  BY <1>1 DEF Largest
<1> QED
  BY <1>1, <1>2 DEF VbrStopsAt

\* Every step keeps that.
LEMMA KeepInductive ==
    ASSUME BitsAreCounts, BitsGrow(Quality), IInv, KeepInv, [Next]_vars
    PROVE  KeepInv'
<1>0. TypeOK /\ LeftInv /\ OffsetInv /\ UseInv /\ ResultInv
  BY DEF IInv
<1>1. UNCHANGED settings /\ (Vbr' <=> Vbr) /\ Largest' = Largest
  BY SettingsStay DEF settings, Vbr, Largest, FrameSizes
<1>2. ASSUME result' = "none" PROVE VbrKeepsQuality'
  BY <1>2 DEF VbrKeepsQuality
<1>3. Quality \in Int /\ Quality <= MaxOffset /\ Left(Quality) \in Int
  <2>1. Quality \in Int /\ Quality <= MaxOffset
    BY QualityType
  <2> QED
    BY <1>0, <2>1, LeftType
<1>4. ASSUME UNCHANGED <<f, size>> PROVE Left(Quality)' = Left(Quality)
  BY <1>4 DEF Left
<1>5. CASE Jumps
  <2>1. /\ pc \in Slow /\ pc' \in {"jump2", "jump3", "up"} /\ result' = "none"
        /\ UNCHANGED <<f, size>>
    BY <1>0, <1>5 DEF Jumps, Jump, ResultInv, Slow
  <2> QED
    BY <1>1, <1>2, <1>4, <2>1 DEF KeepInv, Slow
<1>6. CASE Up
  <2>1. pc = "up" /\ result' = "none" /\ UNCHANGED <<f, size>>
    BY <1>0, <1>6 DEF Up, ResultInv
  <2>2. \/ pc' = "up"
        \/ pc' = "down" /\ snroffst' = MaxOffset
        \/ pc' = "down" /\ leftover <= -100 /\ snroffst' = snroffst
    BY <1>0, <1>6 DEF Up, MoveTo, TypeOK, GoesUp, Breaks
  <2>3. ASSUME leftover <= -100, Left(Quality) >= 0 PROVE snroffst >= Quality
    <3>1. snroffst \in Int /\ size \in Int /\ f \in Frames
      BY <1>0 DEF TypeOK
    <3>2. f.fixed \in Int /\ Bits(f, snroffst) \in Int /\ Bits(f, Quality) \in Int
      <4>1. f.fixed \in Int
        BY <3>1, FrameType
      <4>2. Bits(f, snroffst) \in Int /\ Bits(f, Quality) \in Int
        BY <1>3, <3>1 DEF BitsAreCounts
      <4> QED
        BY <4>1, <4>2
    <3>3. size - f.fixed - Bits(f, snroffst) <= -100
      BY <1>0, <2>1, <2>3 DEF LeftInv, Left
    <3>4. size - f.fixed - Bits(f, Quality) >= 0
      BY <2>3 DEF Left
    <3>5. ~(Bits(f, snroffst) < Bits(f, Quality) + 100)
      BY <3>1, <3>2, <3>3, <3>4
    <3> QED
      BY <1>3, <3>1, <3>5 DEF BitsGrow
  <2> QED
    BY <1>1, <1>2, <1>3, <1>4, <2>1, <2>2, <2>3 DEF KeepInv
<1>7. CASE Down
  <2>1. pc = "down" /\ result' = "none" /\ UNCHANGED <<f, size>> /\ leftover = Left(snroffst)
    BY <1>0, <1>7 DEF Down, ResultInv, LeftInv
  <2>2. \/ pc' = "down" /\ leftover < 0 /\ snroffst' = snroffst - 1
        \/ pc' = "accept" /\ snroffst' = snroffst
    BY <1>7 DEF Down, MoveTo, GoesDown
  <2>3. snroffst \in Int /\ (leftover < 0 /\ Left(Quality) >= 0 => snroffst # Quality)
    BY <1>0, <1>3, <2>1 DEF TypeOK
  <2> QED
    BY <1>1, <1>2, <1>3, <1>4, <2>1, <2>2, <2>3 DEF KeepInv
<1>8. CASE FastUp
  <2>1. pc = "fastup" /\ result' = "none" /\ UNCHANGED <<f, size, snroffst>> /\ snr1 >= snr0
    BY <1>0, <1>8 DEF FastUp, ResultInv, OffsetInv
  <2>2. pc' \in {"fastup", "fastend"} /\ snr0' \in {snr0, snr1}
    BY <1>8 DEF FastUp, fastVars
  <2>3. snr0 \in Int /\ snr1 \in Int
    BY <1>0 DEF TypeOK
  <2> QED
    BY <1>1, <1>2, <1>3, <1>4, <2>1, <2>2, <2>3 DEF KeepInv
<1>9. CASE FastDown
  <2>1. pc = "fastdown" /\ result' = "none" /\ UNCHANGED size
    BY <1>0, <1>9 DEF FastDown, ResultInv
  <2> QED
    BY <1>1, <1>2, <2>1 DEF KeepInv
<1>10. CASE FastEnd
  <2>1. pc = "fastend" /\ pc' = "accept" /\ result' = "none" /\ UNCHANGED <<f, size>>
    BY <1>0, <1>10 DEF FastEnd, ResultInv
  <2>2. snroffst' \in {snr0, snroffst}
    BY <1>10 DEF FastEnd, MoveTo
  <2> QED
    BY <1>1, <1>2, <1>4, <2>1, <2>2 DEF KeepInv
<1>11. CASE Accept
  <2>1. pc = "accept" /\ pc' = "idle" /\ UNCHANGED <<size, snroffst>>
    BY <1>11 DEF Accept
  <2>2. Vbr /\ size # Largest => snroffst >= Quality
    BY <2>1 DEF KeepInv
  <2>3. VbrKeepsQuality'
    BY <1>0, <1>1, <1>3, <2>1, <2>2 DEF VbrKeepsQuality, Largest, TypeOK, FrameSizes, settings
  <2> QED
    BY <2>1, <2>3 DEF KeepInv
<1>12. ASSUME NEW g \in Frames, Begin(g) PROVE KeepInv'
  <2>1. result' = "none" /\ f' = g /\ size' \in SizeFor(g) /\ pc' \notin {"down", "fastend"}
    BY <1>12 DEF Begin
  <2>2. ASSUME Vbr', size' # Largest PROVE Left(Quality)' >= 0
    <3>1. size' >= g.fixed + Bits(g, Quality)
      BY <1>1, <2>1, <2>2, SmallerSizeHolds
    <3>2. size' \in Int /\ g.fixed \in Int /\ Bits(g, Quality) \in Int
      <4>1. size' \in Int /\ g.fixed \in Int
        BY <1>0, <2>1, SizeForType, FrameType DEF TypeOK
      <4>2. Bits(g, Quality) \in Int
        BY <1>3 DEF BitsAreCounts
      <4> QED
        BY <4>1, <4>2
    <3> QED
      BY <2>1, <3>1, <3>2 DEF Left
  <2>3. Vbr' => snroffst' = Quality /\ snr0' = Quality /\ leftover' = Left(Quality)'
    BY <1>1, <1>12 DEF Begin, Left
  <2>4. pc' = "fastdown" => leftover' < 0
    BY <1>12 DEF Begin
  <2>5. Vbr' /\ size' # Largest =>
           /\ Left(Quality)' >= 0 /\ snroffst' >= Quality /\ snr0' >= Quality
           /\ ~(leftover' < 0)
    <3>1. IInv'
      BY InvInductive
    <3>2. leftover' \in Int
      BY <3>1 DEF IInv, TypeOK
    <3> QED
      BY <1>3, <2>2, <2>3, <3>2
  <2> QED
    BY <1>1, <1>2, <2>1, <2>4, <2>5 DEF KeepInv
<1>13. CASE UNCHANGED vars
  BY <1>13 DEF KeepInv, VbrKeepsQuality, vars, fastVars, settings, Vbr, Left, Largest, FrameSizes
<1> QED
  BY <1>5, <1>6, <1>7, <1>8, <1>9, <1>10, <1>11, <1>12, <1>13 DEF Next, Search

\* vbr_bit_allocation gives up quality only in the largest frame, wherever the
\* jumps of cbr_bit_allocation lead in between.
THEOREM QualityIsKept ==
    ASSUME BitsAreCounts, BitsGrow(Quality)
    PROVE  Spec => []VbrKeepsQuality
<1>1. IInv /\ [Next]_vars => IInv'
  BY InvInductive
<1>2. IInv /\ KeepInv /\ [Next]_vars => KeepInv'
  BY KeepInductive
<1>3. Init => KeepInv
  BY DEF Init, KeepInv, VbrKeepsQuality
<1>4. KeepInv => VbrKeepsQuality
  BY DEF KeepInv
<1> QED
  BY InvInit, <1>1, <1>2, <1>3, <1>4, PTL DEF Spec

-----------------------------------------------------------------------------
(* Every step of a search brings it nearer to its end.                     *)

\* The number of stages left, stage by stage.
LEMMA StagesOf ==
    /\ pc = "jump1" => StagesLeft = 6
    /\ pc = "jump2" => StagesLeft = 5
    /\ pc = "jump3" => StagesLeft = 4
    /\ pc \in {"up", "fastup", "fastdown"} => StagesLeft = 3
    /\ pc \in {"down", "fastend"} => StagesLeft = 2
    /\ pc = "accept" => StagesLeft = 1
    /\ pc = "idle" => StagesLeft = 0
  BY DEF StagesLeft

\* The same of the next state.
LEMMA StagesOfNext ==
    /\ pc' = "jump2" => StagesLeft' = 5
    /\ pc' = "jump3" => StagesLeft' = 4
    /\ pc' \in {"up", "fastup", "fastdown"} => StagesLeft' = 3
    /\ pc' \in {"down", "fastend"} => StagesLeft' = 2
    /\ pc' = "accept" => StagesLeft' = 1
    /\ pc' = "idle" => StagesLeft' = 0
  BY DEF StagesLeft

\* A jump leads on to the next stage; a loop leads on or has less room.
LEMMA SearchStepAdvances ==
    ASSUME TypeOK, Search
    PROVE  Nearer
<1>0. /\ snroffst \in Int /\ snr0 \in Int /\ snr1 \in Int /\ leftover \in Int
      /\ leftover0 \in Int /\ leftover1 \in Int
  BY DEF TypeOK
<1>1. CASE Jumps
  <2>1. \/ pc = "jump1" /\ pc' = "jump2"
        \/ pc = "jump2" /\ pc' = "jump3"
        \/ pc = "jump3" /\ pc' = "up"
    BY <1>1 DEF Jumps, Jump
  <2> QED
    BY <2>1, StagesOf, StagesOfNext DEF Nearer
<1>2. CASE Up
  <2> DEFINE k == 10 \div NChannels
  <2>1. k \in Nat /\ k > 0
    <3>1. NChannels \in 1 .. 5
      BY ContextType DEF TypeOK
    <3> QED
      BY <3>1
  <2> HIDE DEF k
  <2>2. \/ pc = "up" /\ pc' = "down"
        \/ pc = "up" /\ pc' = "up" /\ snroffst' = snroffst + k /\ snroffst' <= MaxOffset
    BY <1>0, <1>2, <2>1 DEF Up, MoveTo, Breaks, MaxOffset, k
  <2>3. CASE pc = "up" /\ pc' = "down"
    BY <2>3, StagesOf, StagesOfNext DEF Nearer
  <2>4. CASE pc = "up" /\ pc' = "up" /\ snroffst' = snroffst + k /\ snroffst' <= MaxOffset
    <3>1. Room' < Room
      BY <1>0, <2>1, <2>4 DEF Room, MaxOffset
    <3> QED
      BY <2>4, <3>1, StagesOf, StagesOfNext DEF Nearer
  <2> QED
    BY <2>2, <2>3, <2>4
<1>3. CASE Down
  <2>1. \/ pc = "down" /\ pc' = "accept"
        \/ pc = "down" /\ pc' = "down" /\ snroffst > 0 /\ snroffst' = snroffst - 1
    BY <1>3 DEF Down, MoveTo, GoesDown
  <2>2. CASE pc = "down" /\ pc' = "accept"
    BY <2>2, StagesOf, StagesOfNext DEF Nearer
  <2>3. CASE pc = "down" /\ pc' = "down" /\ snroffst > 0 /\ snroffst' = snroffst - 1
    <3>1. Room' < Room
      BY <1>0, <2>3 DEF Room
    <3> QED
      BY <2>3, <3>1, StagesOf, StagesOfNext DEF Nearer
  <2> QED
    BY <2>1, <2>2, <2>3
<1>4. CASE FastUp
  <2>1. \/ pc = "fastup" /\ pc' = "fastend"
        \/ pc = "fastup" /\ pc' = "fastup" /\ snr1' = snr1 + 16 /\ snr1 + 16 <= MaxOffset
    BY <1>4 DEF FastUp, GoesFastUp, NextSnr1
  <2>2. CASE pc = "fastup" /\ pc' = "fastend"
    BY <2>2, StagesOf, StagesOfNext DEF Nearer
  <2>3. CASE pc = "fastup" /\ pc' = "fastup" /\ snr1' = snr1 + 16 /\ snr1 + 16 <= MaxOffset
    <3>1. Room' < Room
      BY <1>0, <2>3 DEF Room, MaxOffset
    <3> QED
      BY <2>3, <3>1, StagesOf, StagesOfNext DEF Nearer
  <2> QED
    BY <2>1, <2>2, <2>3
<1>5. CASE FastDown
  <2>1. \/ pc = "fastdown" /\ pc' = "fastend"
        \/ pc = "fastdown" /\ pc' = "fastdown" /\ snr0' = snr0 - 16 /\ snr0 - 16 >= 0
    BY <1>5 DEF FastDown, GoesFastDown
  <2>2. CASE pc = "fastdown" /\ pc' = "fastend"
    BY <2>2, StagesOf, StagesOfNext DEF Nearer
  <2>3. CASE pc = "fastdown" /\ pc' = "fastdown" /\ snr0' = snr0 - 16 /\ snr0 - 16 >= 0
    <3>1. Room' < Room
      BY <1>0, <2>3 DEF Room
    <3> QED
      BY <2>3, <3>1, StagesOf, StagesOfNext DEF Nearer
  <2> QED
    BY <2>1, <2>2, <2>3
<1>6. CASE FastEnd
  <2>1. pc = "fastend" /\ pc' = "accept"
    BY <1>6 DEF FastEnd
  <2> QED
    BY <2>1, StagesOf, StagesOfNext DEF Nearer
<1>7. CASE Accept
  <2>1. pc = "accept" /\ pc' = "idle"
    BY <1>7 DEF Accept
  <2> QED
    BY <2>1, StagesOf, StagesOfNext DEF Nearer
<1> QED
  BY <1>1, <1>2, <1>3, <1>4, <1>5, <1>6, <1>7 DEF Search

\* No search of cbr_bit_allocation goes on for ever, whatever bit_alloc counts at the
\* offsets it is called with: the pair of stages left and room left, both natural
\* numbers, becomes smaller with every step.
THEOREM SearchesAdvance ==
    ASSUME BitsAreCounts
    PROVE  Spec => SearchAdvances
<1>1. IInv /\ [Next]_vars => IInv'
  BY InvInductive
<1>2. IInv => [Search => Nearer]_vars
  BY SearchStepAdvances DEF IInv
<1> QED
  BY InvInit, <1>1, <1>2, PTL DEF Spec, SearchAdvances
=============================================================================
