------------------------- MODULE AftenMain_proofs -------------------------
(***************************************************************************)
(* What is proved of the encoding loop for inputs of every length, with    *)
(* and without start padding, for encoders with any number of threads,     *)
(* whichever frames fail.                                                  *)
(***************************************************************************)
EXTENDS AftenMain, DelayLine_proofs

Full == A52_SAMPLES_PER_FRAME

\* The types of the variables that the proofs count with.
TypeInv ==
    /\ pc \in {"init", "loop", "close", "exit"}
    /\ depth \in Nat /\ pad_start \in BOOLEAN /\ length \in Nat /\ left \in Nat
    /\ fs \in {-1, 0, 1} /\ frame_cnt \in Nat /\ failed \in BOOLEAN
    /\ last \in {NoCallYet} \cup 0 .. Full
    /\ submitted \in Nat

\* Nothing has happened yet.
StartInv ==
    pc = "init" =>
        /\ left = length /\ last = NoCallYet /\ submitted = 0 /\ frame_cnt = 0
        /\ slots = Line(0, depth) /\ phase = "open" /\ failed = FALSE

\* The frames submitted hold the whole input and the 256 samples of the MDCT,
\* and one frame less would not.
WholeInput == submitted * Full <= Body + 1791 /\ Body + 1791 < (submitted + 1) * Full

\* What has been submitted and what is left make up the input.
Account ==
    IF Drained(last) THEN left = 0 /\ WholeInput
    ELSE IF last \in {NoCallYet, Full} THEN Body = submitted * Full + left
    ELSE left = 0 /\ Body = (submitted - 1) * Full + last

\* The encoder holds the latest n frames, the others have been written.
Holds(n) ==
    /\ slots = Line(submitted, n)
    /\ ~Drained(last) => n = depth
    /\ depth # 0 \/ ~failed => frame_cnt = IF submitted > n THEN submitted - n ELSE 0

LoopInv == pc = "loop" => phase = "open" /\ Account /\ \E n \in 0 .. depth : Holds(n)

\* The loop is over.
EndInv ==
    /\ InputConsumed
    /\ pc \in {"close", "exit"} /\ ~failed => frame_cnt = submitted /\ WholeInput

IInv == TypeInv /\ StartInv /\ LoopInv /\ EndInv

-----------------------------------------------------------------------------
(* One call of the encoder.                                                *)

\* The rules on sample counts are the same in both modules.
LEMMA SameRules ==
    /\ \A c, l : Encoder!Rejects(c, l) = Rejects(c, l)
    /\ \A l : Encoder!Drained(l) = Drained(l)
    /\ Encoder!NoCallYet = NoCallYet
  BY DEF Encoder!Rejects, Encoder!Drained, Rejects, Drained, Encoder!NoCallYet, NoCallYet,
       Encoder!A52_SAMPLES_PER_FRAME, A52_SAMPLES_PER_FRAME

\* A call with count c pushes a frame, unless the stream is drained, and takes
\* the slot at the head.
Shifts(n, c) ==
    /\ ~Rejects(c, last) /\ phase' = phase
    /\ IF Drained(last)
         THEN n > 0 /\ slots' = Line(submitted, n - 1) /\ UNCHANGED <<last, submitted>>
         ELSE slots' = Line(submitted + 1, n) /\ last' = c /\ submitted' = submitted + 1

\* What a call can come to.
LEMMA CallOutcomes ==
    ASSUME TypeInv, phase = "open", NEW n \in Nat, slots = Line(submitted, n), NEW c,
           EncodeFrame(c)
    PROVE  \/ /\ n = 0 /\ Drained(last) /\ ret' = 0
              /\ UNCHANGED <<slots, last, submitted, phase, failed>>
           \/ /\ Shifts(n, c) /\ failed' = failed
              /\ ret' = IF submitted >= n THEN 1 ELSE 0
           \/ /\ Shifts(n, c) /\ failed' = TRUE /\ n = 0 /\ ret' = 0
           \/ /\ ret' = -1 /\ failed' = TRUE /\ phase' = "aborted"
              /\ UNCHANGED <<last, submitted>>
<1>1. submitted \in Nat
  BY DEF TypeInv
<1>2. slots = <<>> <=> n = 0
  BY <1>1, LineTaken
<1>3. CASE Encoder!Exhausted(c) /\ UNCHANGED failed
  BY <1>2, <1>3, SameRules DEF Encoder!Exhausted
<1>4. CASE slots # <<>> /\ Encoder!Fail(c) /\ failed' = TRUE
  BY <1>4 DEF Encoder!Fail
<1>5. ASSUME Encoder!Shift(c), ~Encoder!Rejects(c, last), phase' = phase
      PROVE  /\ Shifts(n, c)
             /\ Head(Encoder!Pushed) = IF submitted >= n THEN submitted + 1 - n ELSE 0
  <2>1. CASE Drained(last)
    <3>1. Encoder!Pushed = slots /\ slots # <<>> /\ slots' = Tail(slots)
          /\ UNCHANGED <<last, submitted>>
      BY <1>5, <2>1, SameRules DEF Encoder!Shift, Encoder!Pushed
    <3>2. n > 0
      BY <1>2, <3>1
    <3> QED
      BY <1>1, <1>5, <2>1, <3>1, <3>2, LineTaken, SameRules DEF Shifts
  <2>2. CASE ~Drained(last)
    <3>1. /\ Encoder!Pushed = Append(slots, submitted + 1)
          /\ slots' = Tail(Append(slots, submitted + 1))
          /\ last' = c /\ submitted' = submitted + 1
      BY <1>5, <2>2, SameRules DEF Encoder!Shift, Encoder!Pushed
    <3> QED
      BY <1>1, <1>5, <2>2, <3>1, LinePushed, SameRules DEF Shifts
  <2> QED
    BY <2>1, <2>2
<1>6. CASE Encoder!Take(c) /\ UNCHANGED failed
  <2>1. /\ Shifts(n, c)
        /\ Head(Encoder!Pushed) = IF submitted >= n THEN submitted + 1 - n ELSE 0
    BY <1>5, <1>6 DEF Encoder!Take
  <2>2. Head(Encoder!Pushed) = 0 <=> ~(submitted >= n)
    BY <1>1, <2>1
  <2>3. ret' = IF submitted >= n THEN 1 ELSE 0
    BY <1>6, <2>2 DEF Encoder!Take
  <2> QED
    BY <1>6, <2>1, <2>3
<1>7. CASE Encoder!FailSilently(c) /\ failed' = TRUE
  <2>1. Shifts(n, c)
    BY <1>5, <1>7 DEF Encoder!FailSilently
  <2> QED
    BY <1>2, <1>7, <2>1 DEF Encoder!FailSilently
<1> QED
  BY <1>3, <1>4, <1>6, <1>7 DEF EncodeFrame, Encoder!FailAsCoded

-----------------------------------------------------------------------------
(* The invariant.                                                          *)

\* Before aften_encode_init nothing has happened.
LEMMA InvInit == Init => IInv
<1> SUFFICES ASSUME Init PROVE IInv
  OBVIOUS
<1>1. PICK d \in Depths : slots = [i \in 1 .. d |-> 0]
  BY DEF Init, Encoder!Init
<1>2. d \in Nat
  BY MainAssumption
<1>3. depth = d
  BY <1>1, <1>2 DEF Init
<1>4. slots = Line(0, depth)
  BY <1>1, <1>2, <1>3 DEF Line
<1>5. last = NoCallYet /\ submitted = 0 /\ phase = "open"
  BY SameRules DEF Init, Encoder!Init
<1>6. length \in Nat /\ pad_start \in BOOLEAN
  BY MainAssumption DEF Init
<1>7. TypeInv
  BY <1>2, <1>3, <1>5, <1>6 DEF Init, TypeInv
<1>8. StartInv /\ LoopInv /\ EndInv
  BY <1>4, <1>5 DEF Init, StartInv, LoopInv, EndInv, InputConsumed
<1> QED
  BY <1>7, <1>8 DEF IInv

\* The loop begins with the body of the input.
LEMMA InitEncoderStep ==
    ASSUME IInv, InitEncoder
    PROVE  IInv'
<1>1. /\ TypeInv /\ left = length /\ last = NoCallYet /\ submitted = 0 /\ frame_cnt = 0
      /\ slots = Line(0, depth) /\ phase = "open" /\ failed = FALSE
  BY DEF IInv, StartInv, InitEncoder
<1>2. /\ nr' = (IF pad_start THEN 0 ELSE Read(256)) /\ left' = left - nr' /\ pc' = "loop"
      /\ UNCHANGED <<depth, pad_start, length, fs, frame_cnt, failed, slots, last, submitted,
                     phase>>
  BY DEF InitEncoder, settings, encoderVars
<1>3. left' = Body /\ left' \in Nat /\ Body' = Body
  BY <1>1, <1>2 DEF Body, Read, TypeInv
<1>4. TypeInv'
  BY <1>1, <1>2, <1>3 DEF TypeInv
<1>5. Account'
  BY <1>1, <1>2, <1>3 DEF Account, Drained, NoCallYet, Full, A52_SAMPLES_PER_FRAME
<1>6. Holds(depth)'
  BY <1>1, <1>2 DEF Holds, TypeInv
<1>7. LoopInv'
  <2>1. depth \in 0 .. depth
    BY <1>1 DEF TypeInv
  <2> QED
    BY <1>1, <1>2, <1>5, <1>6, <2>1 DEF LoopInv
<1>8. StartInv' /\ EndInv'
  BY <1>2 DEF StartInv, EndInv, InputConsumed
<1> QED
  BY <1>4, <1>7, <1>8 DEF IInv

\* A call that shifts keeps the account: it takes what was read, or pads.
LEMMA AccountKept ==
    ASSUME TypeInv, Account, NEW n \in Nat, NEW c, c = Read(Full), left' = left - c,
           Shifts(n, c), Body' = Body
    PROVE  Account' /\ last' \in {NoCallYet} \cup 0 .. Full /\ submitted' \in Nat
<1>1. /\ left \in Nat /\ submitted \in Nat /\ Full \in Nat /\ Body \in Nat
      /\ last \in {NoCallYet} \cup 0 .. Full
  BY DEF TypeInv, Full, A52_SAMPLES_PER_FRAME, Body
<1>2. /\ c \in 0 .. Full /\ left' \in Nat /\ (left < Full => c = left /\ left' = 0)
      /\ (left >= Full => c = Full)
  BY <1>1 DEF Read
<1>3. CASE Drained(last)
  <2>1. UNCHANGED <<last, submitted>> /\ left = 0
    BY <1>3 DEF Shifts, Account
  <2>2. left' = 0
    BY <1>2, <2>1 DEF Full, A52_SAMPLES_PER_FRAME
  <2> QED
    BY <1>1, <1>3, <2>1, <2>2 DEF Account, WholeInput
<1>4. CASE ~Drained(last) /\ last \in {NoCallYet, Full}
  <2>1. last' = c /\ submitted' = submitted + 1 /\ Body = submitted * Full + left
    BY <1>4 DEF Shifts, Account
  <2>2. CASE left >= Full
    BY <1>1, <1>2, <2>1, <2>2
       DEF Account, Drained, NoCallYet, Full, A52_SAMPLES_PER_FRAME
  <2>3. CASE left < Full
    <3>1. last' = left /\ left' = 0 /\ left < 1536 /\ Body = submitted * 1536 + left
      BY <1>2, <2>1, <2>3 DEF Full, A52_SAMPLES_PER_FRAME
    <3>2. CASE left <= 1280
      <4>1. WholeInput'
        BY <1>1, <2>1, <3>1, <3>2 DEF WholeInput, Full, A52_SAMPLES_PER_FRAME
      <4> QED
        BY <1>1, <2>1, <3>1, <3>2, <4>1, SMTT(30)
           DEF Account, Drained, NoCallYet, Full, A52_SAMPLES_PER_FRAME
    <3>3. CASE left > 1280
      BY <1>1, <2>1, <3>1, <3>3
         DEF Account, Drained, NoCallYet, Full, A52_SAMPLES_PER_FRAME
    <3> QED
      BY <1>1, <3>2, <3>3
  <2> QED
    BY <1>1, <1>2, <2>1, <2>2, <2>3
<1>5. CASE ~Drained(last) /\ last \notin {NoCallYet, Full}
  <2>1. /\ last' = c /\ submitted' = submitted + 1 /\ left = 0
        /\ Body = (submitted - 1) * Full + last
    BY <1>5 DEF Shifts, Account
  <2>2. c = 0 /\ left' = 0
    BY <1>2, <2>1 DEF Full, A52_SAMPLES_PER_FRAME
  <2> QED
    BY <1>1, <1>5, <2>1, <2>2
       DEF Account, WholeInput, Drained, NoCallYet, Full, A52_SAMPLES_PER_FRAME
<1> QED
  BY <1>3, <1>4, <1>5

\* An iteration of the loop.
LEMMA IterateStep ==
    ASSUME IInv, Iterate
    PROVE  IInv'
<1>1. TypeInv /\ pc = "loop" /\ phase = "open" /\ Account
  BY DEF IInv, Iterate, LoopInv
<1>2. PICK n \in 0 .. depth : Holds(n)
  BY <1>1 DEF IInv, LoopInv
<1>3. /\ nr' = Read(Full) /\ left' = left - nr' /\ EncodeFrame(nr') /\ fs' = ret'
      /\ frame_cnt' = (IF fs' > 0 THEN frame_cnt + 1 ELSE frame_cnt)
      /\ pc' = IF fs' >= 0 /\ (nr' > 0 \/ fs' > 0 \/ frame_cnt' = 0) THEN "loop"
               ELSE "close"
      /\ UNCHANGED <<depth, pad_start, length>>
  BY DEF Iterate, Full, Counted, GoesOn, settings
<1>4. /\ nr' \in 0 .. Full /\ left' \in Nat /\ (nr' = 0 => left = 0 /\ left' = 0)
      /\ n \in Nat /\ submitted \in Nat /\ frame_cnt \in Nat /\ depth \in Nat
  BY <1>1, <1>3 DEF TypeInv, Read, Full, A52_SAMPLES_PER_FRAME
<1>5. Body' = Body
  BY <1>3 DEF Body
<1>6. \/ /\ n = 0 /\ Drained(last) /\ ret' = 0
         /\ UNCHANGED <<slots, last, submitted, phase, failed>>
      \/ /\ Shifts(n, nr') /\ failed' = failed
         /\ ret' = IF submitted >= n THEN 1 ELSE 0
      \/ /\ Shifts(n, nr') /\ failed' = TRUE /\ n = 0 /\ ret' = 0
      \/ /\ ret' = -1 /\ failed' = TRUE /\ phase' = "aborted"
         /\ UNCHANGED <<last, submitted>>
  BY <1>1, <1>2, <1>3, <1>4, CallOutcomes DEF Holds
<1>7. StartInv'
  BY <1>3 DEF StartInv
<1>8. CASE n = 0 /\ Drained(last) /\ ret' = 0
           /\ UNCHANGED <<slots, last, submitted, phase, failed>>
  <2>1. left = 0 /\ left' = 0 /\ slots = <<>>
    BY <1>1, <1>2, <1>3, <1>4, <1>8, LineTaken
       DEF Account, Holds, Read, Full, A52_SAMPLES_PER_FRAME
  <2>2. fs' = 0 /\ frame_cnt' = frame_cnt
    BY <1>3, <1>8
  <2>3. TypeInv'
    BY <1>1, <1>3, <1>4, <1>8, <2>2 DEF TypeInv
  <2>4. Account'
    BY <1>1, <1>5, <1>8, <2>1 DEF Account, WholeInput
  <2>5. Holds(n)'
    BY <1>2, <1>3, <1>8, <2>2 DEF Holds
  <2>6. LoopInv'
    BY <1>1, <1>2, <1>3, <1>8, <2>4, <2>5 DEF LoopInv
  <2>7. ~failed => frame_cnt = submitted /\ WholeInput
    BY <1>1, <1>2, <1>4, <1>8 DEF Account, Holds
  <2>8. EndInv'
    BY <1>5, <1>8, <2>1, <2>2, <2>7
       DEF EndInv, InputConsumed, WholeInput
  <2> QED
    BY <1>7, <2>3, <2>6, <2>8 DEF IInv
<1>9. CASE ret' = -1 /\ failed' = TRUE /\ phase' = "aborted" /\ UNCHANGED <<last, submitted>>
  <2>1. fs' = -1 /\ pc' = "close" /\ frame_cnt' = frame_cnt
    BY <1>3, <1>9
  <2>2. TypeInv'
    BY <1>1, <1>3, <1>4, <1>9, <2>1 DEF TypeInv
  <2>3. LoopInv' /\ EndInv'
    BY <1>9, <2>1 DEF LoopInv, EndInv, InputConsumed
  <2> QED
    BY <1>7, <2>2, <2>3 DEF IInv
<1>10. ASSUME Shifts(n, nr'),
              \/ failed' = failed /\ ret' = IF submitted >= n THEN 1 ELSE 0
              \/ failed' = TRUE /\ n = 0 /\ ret' = 0
       PROVE  IInv'
  <2>1. Account' /\ last' \in {NoCallYet} \cup 0 .. Full /\ submitted' \in Nat
    BY <1>1, <1>3, <1>4, <1>5, <1>10, AccountKept
  <2>2. TypeInv'
    <3>1. fs' \in {-1, 0, 1} /\ failed' \in BOOLEAN
      BY <1>1, <1>3, <1>10 DEF TypeInv
    <3>2. frame_cnt' \in Nat /\ pc' \in {"loop", "close"}
      BY <1>3, <1>4
    <3> QED
      BY <1>1, <1>3, <1>4, <2>1, <3>1, <3>2 DEF TypeInv
  <2>0. PICK m \in Int : m = IF Drained(last) THEN n - 1 ELSE n
    BY <1>4
  <2>3. m \in 0 .. depth /\ slots' = Line(submitted', m)
    BY <1>2, <1>4, <1>10, <2>0 DEF Shifts, Holds
  <2>4. ~Drained(last)' => m = depth
    BY <1>2, <1>4, <1>10, <2>0 DEF Shifts, Holds
  <2>5. depth # 0 \/ ~failed' =>
          frame_cnt' = IF submitted' > m THEN submitted' - m ELSE 0
    <3> SUFFICES ASSUME depth # 0 \/ ~failed'
                 PROVE  frame_cnt' = IF submitted' > m THEN submitted' - m ELSE 0
      OBVIOUS
    <3>1. n = 0 => depth = 0 \/ Drained(last)
      BY <1>2 DEF Holds
    <3>2. failed' = failed /\ ret' = IF submitted >= n THEN 1 ELSE 0
      BY <1>10, <3>1 DEF Shifts
    <3>3. frame_cnt = IF submitted > n THEN submitted - n ELSE 0
      BY <1>2, <3>2 DEF Holds
    <3>4. IF Drained(last) THEN n > 0 /\ submitted' = submitted
          ELSE submitted' = submitted + 1
      BY <1>10 DEF Shifts
    <3> QED
      BY <1>3, <1>4, <2>0, <3>2, <3>3, <3>4
  <2>6. Holds(m)'
    BY <1>3, <2>3, <2>4, <2>5 DEF Holds
  <2>7. LoopInv'
    BY <1>1, <1>3, <1>10, <2>1, <2>3, <2>6 DEF LoopInv, Shifts
  <2>8. CASE pc' = "close"
    <3>1. nr' = 0 /\ ret' = 0 /\ frame_cnt' # 0 /\ frame_cnt' = frame_cnt
      BY <1>3, <1>4, <1>10, <2>8
    <3>2. n = 0 /\ failed' = TRUE
      BY <1>2, <1>4, <1>10, <3>1 DEF Holds
    <3>3. slots' = <<>> /\ left' = 0
      BY <1>4, <1>10, <2>0, <2>1, <2>3, <3>1, <3>2, LineTaken DEF Shifts
    <3> QED
      BY <1>7, <2>2, <2>7, <3>2, <3>3
         DEF IInv, EndInv, InputConsumed
  <2>9. CASE pc' = "loop"
    BY <1>7, <2>2, <2>7, <2>9 DEF IInv, EndInv, InputConsumed
  <2> QED
    BY <1>3, <2>8, <2>9
<1> QED
  BY <1>6, <1>8, <1>9, <1>10

\* Closing the encoder counts nothing and reads nothing.
LEMMA CloseEncoderStep ==
    ASSUME IInv, CloseEncoder
    PROVE  IInv'
<1>1. /\ TypeInv /\ EndInv /\ pc = "close" /\ pc' = "exit"
      /\ UNCHANGED <<depth, pad_start, length, left, fs, frame_cnt, failed, last, submitted>>
  BY DEF IInv, CloseEncoder, settings
<1>2. TypeInv'
  BY <1>1 DEF TypeInv
<1>3. StartInv' /\ LoopInv'
  BY <1>1 DEF StartInv, LoopInv
<1>4. EndInv'
  BY <1>1 DEF EndInv, InputConsumed, WholeInput, Body
<1> QED
  BY <1>2, <1>3, <1>4 DEF IInv

\* The invariant is inductive.
LEMMA InvInductive == IInv /\ [Next]_vars => IInv'
<1> SUFFICES ASSUME IInv, [Next]_vars PROVE IInv'
  OBVIOUS
<1>1. CASE InitEncoder
  BY <1>1, InitEncoderStep
<1>2. CASE Iterate
  BY <1>2, IterateStep
<1>3. CASE CloseEncoder
  BY <1>3, CloseEncoderStep
<1>4. CASE UNCHANGED vars
  <2>1. UNCHANGED <<pc, depth, pad_start, length, left, nr, fs, frame_cnt, failed, slots, last,
                    submitted, phase>>
    BY <1>4 DEF vars, mainVars, settings, encoderVars
  <2>2. TypeInv' /\ StartInv'
    BY <2>1 DEF IInv, TypeInv, StartInv
  <2>3. LoopInv'
    BY <2>1 DEF IInv, LoopInv, Account, Holds, WholeInput, Body
  <2>4. EndInv'
    BY <2>1 DEF IInv, EndInv, InputConsumed, WholeInput, Body
  <2> QED
    BY <2>2, <2>3, <2>4 DEF IInv
<1> QED
  BY <1>1, <1>2, <1>3, <1>4 DEF Next, Finished

-----------------------------------------------------------------------------
\* main's loop ends without an error only at the end of the input and leaves
\* nothing for aften_encode_close to abort, whichever frames fail, although without
\* threads a failure looks like a flushed queue: for every number of threads, input
\* length and start padding.
THEOREM InputIsConsumed == Spec => []InputConsumed
<1>1. IInv => InputConsumed
  BY DEF IInv, EndInv
<1> QED
  BY InvInit, InvInductive, <1>1, PTL DEF Spec

\* main writes the frames that hold the input and the delay of the MDCT, no more
\* and no less, for every input length when no frame fails.
THEOREM FrameCountIsExact == Spec => []FrameCountExact
<1>1. IInv => FrameCountExact
  <2> SUFFICES ASSUME IInv, pc = "exit", ~failed
               PROVE  frame_cnt = (Body + 256 + A52_SAMPLES_PER_FRAME - 1)
                                    \div A52_SAMPLES_PER_FRAME
    BY DEF FrameCountExact
  <2>1. frame_cnt = submitted /\ WholeInput /\ submitted \in Nat /\ Body \in Nat
    BY DEF IInv, EndInv, TypeInv, Body
  <2> QED
    BY <2>1 DEF WholeInput, Full, A52_SAMPLES_PER_FRAME
<1> QED
  BY InvInit, InvInductive, <1>1, PTL DEF Spec
=============================================================================
