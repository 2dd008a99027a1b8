---------------------------- MODULE FrameEncoder ----------------------------
(* FrameEncoder<TSample> of the C# binding, composed with the encoder as EncodeQueue
   has it (CodedSpec).  The class takes arrays and streams of any length, collects whole
   frames in m_Samples and keeps what is left over for the next call.  Samples are
   numbered in the order the application gives them, in units of 256 per channel (an
   AC-3 block), so that m_Samples has six places; the remapping of the channels, which
   moves no sample to another unit, is left out. *)
EXTENDS SampleCounts, Sequences

CONSTANTS Depths,        \* lengths of the encoder's queue, 0 without threads
          Lengths,       \* lengths of the application's arrays and streams, in units
          MaxFed,        \* bound: units the application gives in all
          EncodeFails    \* bit allocation may fail

Unit == 256
Frame == A52_SAMPLES_PER_FRAME \div Unit     \* m_nTotalSamplesPerFrame

VARIABLES
    m_Samples, m_nRemainingSamplesCount, m_bFedSamples, m_bGotFrames, m_bAbort, EncodingDone,
    pc,          \* the method that runs: "idle", "encode", "stream", "flush", "disposed"
    call,        \* Encode's samples: the unit before the first, their number, nSamplesDone, nOffset
    stream,      \* Encode(Stream): units left to read, and whether the end is a whole sample
    fed,         \* history: units the application gave
    encoded,     \* history: units that went to aften_encode_frame
    quit,        \* history: an exception was thrown or the encoding aborted
    slots, last, submitted, delivered, ret, phase       \* the encoder

classVars   == <<m_Samples, m_nRemainingSamplesCount, m_bFedSamples, m_bGotFrames, m_bAbort, EncodingDone>>
callVars    == <<pc, call, stream, fed, quit>>
encoderVars == <<slots, last, submitted, delivered, ret, phase>>
vars        == <<classVars, callVars, encoded, encoderVars>>

Encoder == INSTANCE EncodeQueue WITH Counts <- 0 .. A52_SAMPLES_PER_FRAME, FirstOverlap <- 0

NoCall == [first |-> 0, n |-> 0, done |-> 0, offset |-> 0]
NoStream == [left |-> 0, whole |-> TRUE]

Init ==
    /\ m_Samples = [i \in 0 .. Frame - 1 |-> 0]
    /\ m_nRemainingSamplesCount = 0
    /\ m_bFedSamples = FALSE /\ m_bGotFrames = FALSE /\ m_bAbort = FALSE /\ EncodingDone = FALSE
    /\ pc = "idle" /\ call = NoCall /\ stream = NoStream
    /\ fed = 0 /\ encoded = <<>> /\ quit = FALSE
    /\ Encoder!Init

(* m_Samples after a copy of n units of the call's samples to place at. *)
BlockCopy(at, n) ==
    [i \in DOMAIN m_Samples |-> IF i \in at .. at + n - 1 THEN call.first + call.done + 1 + i - at ELSE m_Samples[i]]

AftenEncodeFrame(count) ==
    \/ Encoder!Reject(count) \/ Encoder!Exhausted(count) \/ Encoder!Take(count)
    \/ Encoder!FailAsCoded(count)

(* EncodeFrame, but for its exception: n units of buffer go to the encoder. *)
EncodeFrame(buffer, n) ==
    /\ m_bFedSamples' = (m_bFedSamples \/ n > 0)
    /\ AftenEncodeFrame(n * Unit)
    /\ m_bGotFrames' = (m_bGotFrames \/ ret' > 0)
    /\ encoded' = encoded \o [i \in 1 .. n |-> buffer[i - 1]]

-----------------------------------------------------------------------------
(* CheckEncodingState, and the call begins; n units, of which the first follows first. *)
Begin(first, n) == call' = [first |-> first, n |-> n, done |-> 0, offset |-> m_nRemainingSamplesCount]

Encode(n) ==
    /\ pc = "idle" /\ ~EncodingDone /\ fed + n <= MaxFed
    /\ Begin(fed, n)
    /\ fed' = fed + n
    /\ pc' = "encode"
    /\ UNCHANGED <<classVars, stream, quit, encoded, encoderVars>>

(* Where Encode returns to: the loop over the stream, or the application. *)
Return == IF stream.left > 0 \/ ~stream.whole THEN "stream" ELSE "idle"

(* One frame, unless Abort was called. *)
EncodeLoop ==
    /\ pc = "encode"
    /\ call.n - call.done + call.offset >= Frame
    /\ IF m_bAbort
       THEN /\ m_bAbort' = FALSE /\ EncodingDone' = TRUE /\ quit' = TRUE
            /\ pc' = "idle" /\ stream' = NoStream
            /\ UNCHANGED <<m_Samples, m_bFedSamples, m_bGotFrames, call, encoded, encoderVars>>
       ELSE /\ m_Samples' = BlockCopy(call.offset, Frame - call.offset)
            /\ EncodeFrame(m_Samples', Frame)
            /\ IF ret' < 0
               THEN quit' = TRUE /\ pc' = "idle" /\ stream' = NoStream /\ UNCHANGED call
               ELSE /\ call' = [call EXCEPT !.done = @ + Frame - call.offset, !.offset = 0]
                    /\ UNCHANGED <<quit, pc, stream>>
            /\ UNCHANGED <<m_bAbort, EncodingDone>>
    /\ UNCHANGED <<m_nRemainingSamplesCount, fed>>

(* The rest of the call's samples waits at the start of m_Samples. *)
EncodeRest ==
    /\ pc = "encode"
    /\ call.n - call.done + call.offset < Frame
    /\ m_nRemainingSamplesCount' = call.n - call.done
    /\ m_Samples' = BlockCopy(0, m_nRemainingSamplesCount')
    /\ pc' = Return
    /\ UNCHANGED <<m_bFedSamples, m_bGotFrames, m_bAbort, EncodingDone, call, stream, fed, quit, encoded, encoderVars>>

(* A stream of n units that may end inside a sample or between two channels. *)
EncodeStream(n, whole) ==
    /\ pc = "idle" /\ ~EncodingDone /\ fed + n <= MaxFed
    /\ stream' = [left |-> n, whole |-> whole]
    /\ pc' = "stream"
    /\ UNCHANGED <<classVars, call, fed, quit, encoded, encoderVars>>

(* It is encoded a frame at a time, and what is left at its end if it is whole. *)
ReadStream ==
    /\ pc = "stream"
    /\ LET n == IF stream.left < Frame THEN stream.left ELSE Frame
       IN  IF n < Frame /\ ~stream.whole
           THEN quit' = TRUE /\ pc' = "idle" /\ stream' = NoStream /\ UNCHANGED <<call, fed>>
           ELSE /\ Begin(fed, n)
                /\ fed' = fed + n
                /\ stream' = [stream EXCEPT !.left = @ - n]
                /\ pc' = IF n > 0 THEN "encode" ELSE "idle"
                /\ UNCHANGED quit
    /\ UNCHANGED <<classVars, encoded, encoderVars>>

-----------------------------------------------------------------------------
Flush ==
    /\ pc = "idle" /\ ~EncodingDone
    /\ call' = [NoCall EXCEPT !.n = m_nRemainingSamplesCount]
    /\ pc' = "flush"
    /\ UNCHANGED <<classVars, stream, fed, quit, encoded, encoderVars>>

(* One turn of its loop: the remainder first, then calls without samples. *)
FlushLoop ==
    /\ pc = "flush"
    /\ EncodeFrame(m_Samples, call.n)
    /\ call' = NoCall
    /\ LET again == ret' > 0 \/ (m_bFedSamples' /\ ~m_bGotFrames')
       IN  /\ pc' = IF ret' >= 0 /\ again THEN "flush" ELSE "idle"
           /\ EncodingDone' = (ret' >= 0 /\ ~again)
           /\ quit' = (quit \/ ret' < 0)
    /\ UNCHANGED <<m_Samples, m_nRemainingSamplesCount, m_bAbort, stream, fed>>

(* Abort comes from any thread, at any time. *)
Abort ==
    /\ ~m_bAbort /\ pc # "disposed"
    /\ m_bAbort' = TRUE
    /\ UNCHANGED <<m_Samples, m_nRemainingSamplesCount, m_bFedSamples, m_bGotFrames, EncodingDone, callVars,
                   encoded, encoderVars>>

(* aften_encode_close, once: it returns if every thread has had a frame. *)
Dispose ==
    /\ pc = "idle"
    /\ submitted >= Len(slots) \/ phase = "aborted"
    /\ pc' = "disposed"
    /\ slots' = <<>> /\ phase' = "closed"
    /\ UNCHANGED <<classVars, call, stream, fed, quit, encoded, last, submitted, delivered, ret>>

Next ==
    \/ \E n \in Lengths : Encode(n) \/ \E whole \in BOOLEAN : EncodeStream(n, whole)
    \/ EncodeLoop \/ EncodeRest \/ ReadStream
    \/ Flush \/ FlushLoop \/ Abort \/ Dispose

Spec == Init /\ [][Next]_vars

-----------------------------------------------------------------------------
(* When a flush has ended, every sample of every call has gone to the encoder, once
   and in order: Encode "encodes the specified interleaved samples", however long the
   arrays and streams of the calls are. *)
SamplesEncoded ==
    EncodingDone /\ ~quit => encoded = [i \in 1 .. fed |-> i]
=============================================================================
