--------------------------- MODULE SerialEncoder ---------------------------
(***************************************************************************)
(* The encoder without threads (n_threads = 1): aften_encode_frame runs    *)
(* process_frame itself and returns the frame of the same call.  The audio *)
(* is abstracted as in WorkerPool.                                         *)
(***************************************************************************)
EXTENDS SampleCounts, Sequences

CONSTANTS
    Counts,            \* sample counts the application may pass
    MaxFrames,         \* bound: frames the application submits
    InitialSamples,    \* s->initial_samples is given
    EncodeFails        \* bit allocation may fail

VARIABLES
    last_samples, last_samples_count,       \* A52Context
    framesize,                              \* of the only A52ThreadContext
    ret,                                    \* what the latest call returned
    phase,                                  \* "open" or "closed"
    submitted, delivered                    \* history, as in WorkerPool

vars == <<last_samples, last_samples_count, framesize, ret, phase, submitted,
          delivered>>

NoFrame      == -1
FirstOverlap == IF InitialSamples THEN 0 ELSE NoFrame

\* aften_encode_init: initial_samples pass through copy_samples.
Init ==
    /\ last_samples = FirstOverlap
    /\ last_samples_count = NoCallYet
    /\ framesize = 0
    /\ ret = 0
    /\ phase = "open"
    /\ submitted = 0
    /\ delivered = <<>>

\* A call that returns before it reaches the encoder.
EncodeNothing(c) ==
    /\ phase = "open"
    /\ \/ Rejects(c, last_samples_count) /\ ret' = -1
       \/ /\ ~Rejects(c, last_samples_count)
          /\ Drained(last_samples_count)
          /\ ret' = 0
    /\ UNCHANGED <<last_samples, last_samples_count, framesize, phase,
                   submitted, delivered>>

\* process_frame: copy_samples, then the frame is encoded and written to the
\* application's buffer, or bit allocation fails and framesize is 0.
ProcessFrame(k) ==
    /\ last_samples' = k
    /\ \/ /\ framesize' = 1
          /\ delivered' = Append(delivered, <<k, last_samples>>)
       \/ /\ EncodeFails
          /\ framesize' = 0
          /\ UNCHANGED delivered

\* The result of process_frame is not looked at: framesize is returned.
Encode(c) ==
    /\ phase = "open"
    /\ submitted < MaxFrames
    /\ ~Rejects(c, last_samples_count)
    /\ ~Drained(last_samples_count)
    /\ submitted' = submitted + 1
    /\ ProcessFrame(submitted + 1)
    /\ last_samples_count' = c
    /\ ret' = framesize'
    /\ UNCHANGED phase

\* aften_encode_close: no threads to stop.
Close ==
    /\ phase = "open"
    /\ phase' = "closed"
    /\ UNCHANGED <<last_samples, last_samples_count, framesize, ret, submitted,
                   delivered>>

Finished == phase = "closed" /\ UNCHANGED vars

Next ==
    \/ \E c \in Counts : EncodeNothing(c) \/ Encode(c)
    \/ Close
    \/ Finished

Spec == Init /\ [][Next]_vars

-----------------------------------------------------------------------------
Queue == INSTANCE EncodeQueue WITH
            Depths <- {0}, slots <- <<>>, last <- last_samples_count,
            phase <- IF phase = "closed" THEN "closing" ELSE "open"

\* The unthreaded encoder keeps the promise of the queue, as a line of no slots: every
\* frame comes back from the call that submitted it, and the silent frame that
\* flushes the MDCT from one more call.  It does as long as no frame fails.
ImplementsQueue == Queue!Spec

\* Frames may fail: then it does what EncodeQueue says that the code does.
ImplementsCode == Queue!CodedSpec

\* aften_encode_frame "returns a negative value on error" (aften.h): as long as the
\* latest call returned none, every frame that was accepted has been returned.
ErrorsReported == ret >= 0 => Len(delivered) = submitted
=============================================================================
