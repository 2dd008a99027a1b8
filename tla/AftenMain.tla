----------------------------- MODULE AftenMain -----------------------------
(***************************************************************************)
(* The encoding loop of the command line program (main in aften/aften.c),  *)
(* which API.txt gives as the model for every application, composed with   *)
(* the encoder as EncodeQueue has it (CodedSpec): n_threads slots, or none *)
(* for the encoder without threads, whose failures look different.         *)
(***************************************************************************)
EXTENDS SampleCounts, Sequences

CONSTANTS
    Depths,        \* lengths of the encoder's queue, 0 without threads
    Lengths,       \* lengths of the input, in samples
    PadStarts,     \* values of opts.pad_start
    EncodeFails    \* bit allocation may fail

ASSUME MainAssumption ==
    /\ Depths \subseteq Nat
    /\ Lengths \subseteq Nat
    /\ PadStarts \subseteq BOOLEAN
    /\ EncodeFails \in BOOLEAN

VARIABLES
    pc,            \* where main is: "init", "loop", "close" or "exit"
    depth,         \* slots of the encoder's queue
    pad_start,     \* start with silence, not with the first 256 samples
    length, left,  \* samples of the input, and those not yet read
    nr, fs, frame_cnt, ret_val,                         \* main's locals
    failed,        \* history: some frame could not be encoded
    slots, last, submitted, delivered, ret, phase       \* the encoder

settings    == <<depth, pad_start, length>>
mainVars    == <<pc, settings, left, nr, fs, frame_cnt, ret_val, failed>>
encoderVars == <<slots, last, submitted, delivered, ret, phase>>
vars        == <<mainVars, encoderVars>>

Encoder == INSTANCE EncodeQueue WITH
              Counts <- 0 .. A52_SAMPLES_PER_FRAME,
              FirstOverlap <- 0    \* silence or initial_samples: main never looks

Init ==
    /\ pc = "init"
    /\ length \in Lengths
    /\ left = length
    /\ nr = 0 /\ fs = 0 /\ frame_cnt = 0 /\ ret_val = 0
    /\ failed = FALSE
    /\ pad_start \in PadStarts
    /\ Encoder!Init
    /\ depth = Len(slots)

\* pcm_read_samples: short only at the end of the input.
Read(n) == IF left < n THEN left ELSE n

\* Without start padding the first 256 samples become initial_samples: how many, while
\* EncoderSetup has what becomes of them.
InitEncoder ==
    /\ pc = "init"
    /\ nr' = IF pad_start THEN 0 ELSE Read(256)
    /\ left' = left - nr'
    /\ pc' = "loop"
    /\ UNCHANGED <<settings, fs, frame_cnt, ret_val, failed, encoderVars>>

\* aften_encode_frame with count c.  The loop never passes a count that the
\* encoder rejects: the model would stop there, and TerminatesIfFed fail.
EncodeFrame(c) ==
    \/ Encoder!Exhausted(c) /\ UNCHANGED failed
    \/ Encoder!Take(c) /\ UNCHANGED failed
    \/ Encoder!FailAsCoded(c) /\ failed' = TRUE

\* Mutants: a condition of the loop is dropped, or one that never fails is used.
WithoutCount(n, size, cnt)  == n > 0 \/ size > 0
WithoutSize(n, size, cnt)   == n > 0 \/ cnt = 0
WithoutSign(n, size, cnt)   == n > 0 \/ size >= 0 \/ cnt = 0

\* while (nr > 0 || fs > 0 || !frame_cnt)
GoesOn(n, size, cnt) == n > 0 \/ size > 0 \/ cnt = 0

\* frame_cnt after a call that returned size.
Counted(size) == IF size > 0 THEN frame_cnt + 1 ELSE frame_cnt

\* One iteration: read, encode, write; a negative size breaks the loop.
Iterate ==
    /\ pc = "loop"
    /\ nr' = Read(A52_SAMPLES_PER_FRAME)
    /\ left' = left - nr'
    /\ EncodeFrame(nr')
    /\ fs' = ret'
    /\ frame_cnt' = Counted(fs')
    /\ pc' = IF fs' >= 0 /\ GoesOn(nr', fs', frame_cnt') THEN "loop" ELSE "close"
    /\ UNCHANGED <<settings, ret_val>>

\* aften_encode_close drops what the queue still holds, and then fails.  It joins
\* every thread, and one that never was given a frame never ends (WorkerPool).
CloseEncoder ==
    /\ pc = "close"
    /\ submitted >= depth \/ phase = "aborted"
    /\ ret_val' = IF slots = <<>> THEN 0 ELSE 1
    /\ slots' = <<>>
    /\ phase' = "closed"
    /\ pc' = "exit"
    /\ UNCHANGED <<settings, left, nr, fs, frame_cnt, failed, last, submitted,
                   delivered, ret>>

Finished == pc = "exit" /\ UNCHANGED vars

Next == InitEncoder \/ Iterate \/ CloseEncoder \/ Finished

\* One sequential program: it runs on as long as it can.
Spec == Init /\ [][Next]_vars /\ WF_vars(Next)

-----------------------------------------------------------------------------
\* The loop ends without an error only when it has read the whole input, although
\* a frame that fails looks like the end of a flush, and when the queue holds no
\* more frames: aften_encode_close has nothing to abort.
InputConsumed == pc = "close" /\ fs >= 0 => left = 0 /\ slots = <<>>

\* The samples that aften_encode_frame gets.
Body == IF pad_start THEN length ELSE IF length < 256 THEN 0 ELSE length - 256

\* The output has exactly the frames that hold every input sample and the 256
\* samples by which the MDCT delays them (the first 256 samples go in as
\* initial_samples when there is no start padding).
FrameCountExact ==
    pc = "exit" /\ ~failed =>
        frame_cnt = (Body + 256 + A52_SAMPLES_PER_FRAME - 1) \div A52_SAMPLES_PER_FRAME

\* The program comes to its end.
Terminates == <>(pc = "exit")

\* The program comes to its end, failing frames or not, when the input reaches
\* every thread and, without threads, when no frame fails.
TerminatesIfFed ==
    /\ Body >= (depth - 1) * A52_SAMPLES_PER_FRAME
    /\ depth # 0 \/ []~failed
    => Terminates
=============================================================================
