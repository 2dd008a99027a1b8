--------------------------- MODULE BitAllocSearch ---------------------------
(***************************************************************************)
(* The search for the SNR offset of a frame (bitalloc.c:                   *)
(* cbr_bit_allocation and vbr_bit_allocation), frame after frame in one    *)
(* thread.  The search only looks at a frame through the number of         *)
(* mantissa bits it needs at an offset, which is the parameter Bits(f, s): *)
(* the psychoacoustic model behind it (bit_alloc) is abstracted to that.   *)
(* Every call of bit_alloc is one step.                                    *)
(***************************************************************************)
EXTENDS Integers, Sequences

CONSTANTS
    Contexts,      \* the encoders to look at: n_channels, target_bitrate in kbps,
                   \* halfratecod and VBR's frame_sizes of the A52Context, in bits,
                   \* and the frames it may get: [fixed |-> bits, size |-> bits, ...]
    Bits(_, _),    \* mantissa bits of a frame at an SNR offset
    Quality,       \* params.quality, the offset VBR asks for
    Modes,         \* the values of encoding_mode to look at
    FastFlags      \* the values of bitalloc_fast to look at

\* Every frame of every encoder.
Frames == UNION {x.frames : x \in Contexts}

ASSUME SearchAssumption ==
    /\ \A x \in Contexts :
         /\ x.n_channels \in 1 .. 5
         /\ x.target_bitrate \in Nat /\ x.halfratecod \in 0 .. 2
         /\ x.frame_sizes \in Seq(Nat) /\ x.frame_sizes # <<>>
         /\ \A g \in x.frames : g.fixed \in Nat /\ g.size \in Nat
    /\ Modes \subseteq {"CBR", "VBR"} /\ FastFlags \subseteq {0, 1}
    /\ Quality \in 0 .. 1023

\* Bits counts bits.  TLC cannot enumerate the offsets: the proofs assume it.
BitsAreCounts == \A g \in Frames, s \in Int : Bits(g, s) \in Nat

VARIABLES
    ctx,                             \* the A52Context
    encoding_mode, bitalloc_fast,    \* of the context's params
    pc,                              \* where cbr_bit_allocation is
    f,                               \* the frame
    size,                            \* 16 * frame_size
    snroffst, leftover,
    snr0, snr1, leftover0, leftover1,   \* of the fast search
    last_quality,                    \* of the A52ThreadContext
    result                           \* how the latest search ended

fastVars == <<snr0, snr1, leftover0, leftover1>>
settings == <<ctx, encoding_mode, bitalloc_fast>>
vars == <<settings, pc, f, size, snroffst, leftover, fastVars, last_quality, result>>

NChannels  == ctx.n_channels         \* full-bandwidth channels
TargetRate == ctx.target_bitrate
HalfRate   == ctx.halfratecod
FrameSizes == ctx.frame_sizes        \* VBR: the sizes up to frmsizecod

Vbr  == encoding_mode = "VBR"
Fast == bitalloc_fast # 0

MaxOffset == 1023

\* Division as in C: towards zero.
Quotient(a, b) == IF a >= 0 THEN a \div b ELSE -((-a) \div b)

\* What aften_encode_init starts last_quality with: for CBR a guess from the rate.
CbrQuality == ((((TargetRate \div NChannels) * 35) \div 24) + 95) + (25 * HalfRate)

InitialQuality == IF Vbr THEN Quality ELSE CbrQuality

Init ==
    /\ ctx \in Contexts
    /\ encoding_mode \in Modes /\ bitalloc_fast \in FastFlags
    /\ pc = "idle"
    /\ f \in ctx.frames
    /\ size = 0
    /\ snroffst = 0 /\ leftover = 0
    /\ snr0 = 0 /\ snr1 = 0 /\ leftover0 = 0 /\ leftover1 = 0
    /\ last_quality = InitialQuality
    /\ result = "none"

\* Mutant: the bits of header and exponents are forgotten.
LeftForMantissas(s) == size - Bits(f, s)

\* Bits left in the frame at offset s.
Left(s) == size - f.fixed - Bits(f, s)

\* Mutant: the bits of header and exponents are forgotten.
VbrStopsEarly(g, i) ==
    /\ \A j \in 1 .. i - 1 : FrameSizes[j] < Bits(g, Quality)
    /\ FrameSizes[i] >= Bits(g, Quality) \/ i = Len(FrameSizes)

\* vbr_bit_allocation: the loop stops at size i, the first that holds the frame
\* at the quality asked for, or the last one.
VbrStopsAt(g, i) ==
    LET holds(j) == FrameSizes[j] >= g.fixed + Bits(g, Quality)
    IN  /\ \A j \in 1 .. i - 1 : ~holds(j)
        /\ holds(i) \/ i = Len(FrameSizes)

\* The frame size the search works with.
SizeFor(g) ==
    IF Vbr THEN {FrameSizes[i] : i \in {j \in DOMAIN FrameSizes : VbrStopsAt(g, j)}}
           ELSE {g.size}

\* The next frame, up to the branch between the fast and the slow search.
Begin(g) ==
    /\ pc = "idle"
    /\ g \in ctx.frames
    /\ f' = g
    /\ size' \in SizeFor(g)
    /\ snroffst' = IF Vbr THEN Quality ELSE last_quality
    /\ leftover' = Left(snroffst)'
    /\ snr0' = snroffst' /\ snr1' = snroffst'
    /\ leftover0' = leftover' /\ leftover1' = leftover'
    /\ pc' = IF ~Fast THEN "jump1"
             ELSE IF leftover' > 0 THEN "fastup"
             ELSE IF leftover' < 0 THEN "fastdown" ELSE "accept"
    /\ result' = "none"
    /\ UNCHANGED <<settings, last_quality>>

\* Move to offset s and count the bits there.
MoveTo(s) == snroffst' = s /\ leftover' = Left(s)

-----------------------------------------------------------------------------
(* The slow search: up to three jumps, then up in steps, then down by one. *)

Jump(from, to, condition, divisor) ==
    /\ pc = from
    /\ IF condition
         THEN MoveTo(snroffst + Quotient(leftover, divisor * NChannels))
         ELSE UNCHANGED <<snroffst, leftover>>
    /\ pc' = to
    /\ UNCHANGED <<f, size, fastVars, last_quality, result>>

Jumps ==
    \/ Jump("jump1", "jump2", leftover < -400, 16)
    \/ Jump("jump2", "jump3", leftover > 400, 24)
    \/ Jump("jump3", "up", leftover < -200, 40)

\* Mutants: the loop stops before the frame is full, or does not break.
UpTooShort     == leftover > 100
NeverBreaks(s) == FALSE

\* while (leftover > -100), with a break at the largest offset.
GoesUp    == leftover > -100
Breaks(s) == s > MaxOffset

Up ==
    /\ pc = "up"
    /\ IF GoesUp
         THEN LET s == snroffst + (10 \div NChannels)
              IN  /\ MoveTo(IF s > MaxOffset THEN MaxOffset ELSE s)
                  /\ pc' = IF Breaks(s) THEN "down" ELSE "up"
         ELSE pc' = "down" /\ UNCHANGED <<snroffst, leftover>>
    /\ UNCHANGED <<f, size, fastVars, last_quality, result>>

\* Mutant: the loop stops before offset 0.
DownTo16 == leftover < 0 /\ snroffst > 16

\* while (leftover < 0 && snroffst > 0)
GoesDown == leftover < 0 /\ snroffst > 0

Down ==
    /\ pc = "down"
    /\ IF GoesDown
         THEN MoveTo(snroffst - 1) /\ UNCHANGED pc
         ELSE pc' = "accept" /\ UNCHANGED <<snroffst, leftover>>
    /\ UNCHANGED <<f, size, fastVars, last_quality, result>>

-----------------------------------------------------------------------------
(* The fast search: steps of 16 until the sign of leftover changes.        *)

\* Mutant: nothing stops the search at the largest offset.
UpWithoutEnd == leftover1 > 0

\* while (leftover1 > 0 && snr1+16 <= 1023)
GoesFastUp == leftover1 > 0 /\ snr1 + 16 <= MaxOffset
NextSnr1   == snr1 + 16

FastUp ==
    /\ pc = "fastup"
    /\ IF GoesFastUp
         THEN /\ snr0' = snr1 /\ leftover0' = leftover1
              /\ snr1' = NextSnr1 /\ leftover1' = Left(NextSnr1)
              /\ UNCHANGED pc
         ELSE pc' = "fastend" /\ UNCHANGED fastVars
    /\ UNCHANGED <<f, size, snroffst, leftover, last_quality, result>>

\* Mutant: nothing stops the search at offset 0.
DownWithoutEnd == leftover0 < 0

\* while (leftover0 < 0 && snr0-16 >= 0)
GoesFastDown == leftover0 < 0 /\ snr0 - 16 >= 0

FastDown ==
    /\ pc = "fastdown"
    /\ IF GoesFastDown
         THEN /\ snr1' = snr0 /\ leftover1' = leftover0
              /\ snr0' = snr0 - 16 /\ leftover0' = Left(snr0 - 16)
              /\ UNCHANGED pc
         ELSE pc' = "fastend" /\ UNCHANGED fastVars
    /\ UNCHANGED <<f, size, snroffst, leftover, last_quality, result>>

\* Take the lower of the two offsets when they differ.
FastEnd ==
    /\ pc = "fastend"
    /\ IF snr0 # snr1 THEN MoveTo(snr0) ELSE UNCHANGED <<snroffst, leftover>>
    /\ pc' = "accept"
    /\ UNCHANGED <<f, size, fastVars, last_quality, result>>

-----------------------------------------------------------------------------
\* The frame is too small, or the offset found becomes the next frame's start.
Accept ==
    /\ pc = "accept"
    /\ IF leftover < 0
         THEN result' = "fail" /\ UNCHANGED last_quality
         ELSE result' = "ok" /\ last_quality' = snroffst
    /\ pc' = "idle"
    /\ UNCHANGED <<f, size, snroffst, leftover, fastVars>>

Search ==
    /\ Jumps \/ Up \/ Down \/ FastUp \/ FastDown \/ FastEnd \/ Accept
    /\ UNCHANGED settings

Next == Search \/ \E g \in Frames : Begin(g)

\* process_frame runs the search to its end.
Spec == Init /\ [][Next]_vars /\ WF_vars(Search)

-----------------------------------------------------------------------------
\* The types of the state of cbr_bit_allocation.
TypeOK ==
    /\ ctx \in Contexts
    /\ encoding_mode \in {"CBR", "VBR"} /\ bitalloc_fast \in {0, 1}
    /\ pc \in {"idle", "jump1", "jump2", "jump3", "up", "down",
               "fastup", "fastdown", "fastend", "accept"}
    /\ f \in Frames
    /\ size \in Nat
    /\ snroffst \in Int /\ leftover \in Int
    /\ snr0 \in Int /\ snr1 \in Int /\ leftover0 \in Int /\ leftover1 \in Int
    /\ last_quality \in Int
    /\ result \in {"none", "ok", "fail"}

\* The comment of cbr_bit_allocation: the offsets, "when used, keep the size of
\* the encoded data within a fixed frame size".  A negative offset, which the frame
\* has no code for, is never used, although the first jump may go below 0.
FrameFits == result = "ok" => snroffst >= 0 /\ f.fixed + Bits(f, snroffst) <= size

\* With bitalloc_fast, which goes up and down in steps of 16 from where the frame
\* before ended, no sequence of frames drives the offset out of 0 .. 1023, the range
\* that the 6 bits of csnroffst (offset >> 4) hold, beyond where aften_encode_init
\* started it.  That first guess is 1028 at 640 kbps mono, and a frame that is easy to
\* encode is accepted there: the loop up at bitalloc.c:268 does not bring it back.
FastOffsetBounded ==
    Fast /\ result = "ok" =>
        snroffst \in 0 .. IF InitialQuality > MaxOffset THEN InitialQuality ELSE MaxOffset

\* "bitrate: %d kbps too small" is said only when it is: the slow search goes
\* down to offset 0, the fast one may stop up to 15 above it.
FailsOnlyIfTooSmall ==
    result = "fail" =>
        \E s \in IF Fast THEN 0 .. 15 ELSE {0} : f.fixed + Bits(f, s) > size

\* vbr_bit_allocation: the search then makes "optimal use of the frame bits".
\* One more step of the offset would not fit.  The fast search steps by 16, takes
\* the lower end when the upper one fits exactly and when the range ends there.
FrameIsUsed ==
    result = "ok" =>
        IF Fast THEN snroffst + 32 > MaxOffset \/ Left(snroffst) = 0
                     \/ Left(snroffst + 16) <= 0
                ELSE snroffst >= MaxOffset \/ Left(snroffst + 1) < 0

\* VBR lowers the offset below the quality asked for only in the largest frame.
VbrKeepsQuality ==
    Vbr /\ result = "ok" /\ snroffst < Quality => size = FrameSizes[Len(FrameSizes)]

\* How far the search is from its end: the stages still to come, and how far the loop
\* of the present one may still go.
StagesLeft ==
    [jump1 |-> 6, jump2 |-> 5, jump3 |-> 4, up |-> 3, down |-> 2,
     fastup |-> 3, fastdown |-> 3, fastend |-> 2, accept |-> 1, idle |-> 0][pc]
Room ==
    LET room == CASE pc = "up" -> MaxOffset - snroffst
                  [] pc = "down" -> snroffst
                  [] pc = "fastup" -> MaxOffset - snr1
                  [] pc = "fastdown" -> snr0
                  [] OTHER -> 0
    IN  IF room > 0 THEN room ELSE 0

Nearer ==
    \/ StagesLeft' < StagesLeft
    \/ StagesLeft' = StagesLeft /\ Room' < Room

\* Every call of bit_alloc brings the search of cbr_bit_allocation nearer to its end,
\* whatever the number of bits it finds: no loop turns on the spot or back.
SearchAdvances == [][Search => Nearer]_vars

\* Every search ends.
SearchEnds == pc # "idle" ~> pc = "idle"
=============================================================================
