------------------------ MODULE SerialEncoder_proofs ------------------------
(***************************************************************************)
(* The encoder without threads implements EncodeQueue with no slots, for   *)
(* every set of counts and any number of frames: its promise while no      *)
(* frame fails, and what EncodeQueue says of the code when one does.       *)
(***************************************************************************)
EXTENDS SerialEncoder, TLAPS

\* copy_samples has left the samples of the latest accepted frame behind, or
\* those that aften_encode_init put there.
OverlapInv ==
    /\ submitted \in Nat
    /\ last_samples = IF submitted = 0 THEN FirstOverlap ELSE submitted
    /\ phase \in {"open", "closed"}

\* The overlap is that of the frame before in every state of the encoder.
LEMMA OverlapInductive ==
    /\ Init => OverlapInv
    /\ OverlapInv /\ [Next]_vars => OverlapInv'
<1>1. Init => OverlapInv
  BY DEF Init, OverlapInv
<1>2. OverlapInv /\ [Next]_vars => OverlapInv'
  BY DEF OverlapInv, Next, vars, EncodeNothing, Encode, ProcessFrame, Close, Finished
<1> QED
  BY <1>1, <1>2

-----------------------------------------------------------------------------
(* Every step is a step of the queue, or leaves it alone.                  *)

\* A frame number is pushed into a line of no slots, and falls out at once.
LEMMA PushedAndTaken ==
    ASSUME NEW k
    PROVE  LET line == Append(<<>>, k)
           IN  line # <<>> /\ Head(line) = k /\ Tail(line) = <<>>
  OBVIOUS

\* The rules on sample counts are the same in both modules.
LEMMA SameRules ==
    /\ \A c, l : Queue!Rejects(c, l) = Rejects(c, l)
    /\ \A l : Queue!Drained(l) = Drained(l)
    /\ Queue!NoCallYet = NoCallYet
  BY DEF Queue!Rejects, Queue!Drained, Rejects, Drained, Queue!NoCallYet, NoCallYet,
       Queue!A52_SAMPLES_PER_FRAME, A52_SAMPLES_PER_FRAME

\* A call that is turned away, or that finds the stream drained.
LEMMA NothingStep ==
    ASSUME NEW c \in Counts, EncodeNothing(c)
    PROVE  Queue!Reject(c) \/ Queue!Exhausted(c)
  BY SameRules DEF EncodeNothing, Queue!Reject, Queue!Exhausted

\* A call that encodes its frame, or loses it without a word.
LEMMA EncodeStep ==
    ASSUME OverlapInv, NEW c \in Counts, Encode(c)
    PROVE  Queue!Take(c) \/ Queue!FailSilently(c)
<1> DEFINE k == submitted + 1
<1>1. k # 0 /\ k \in Nat
  BY DEF OverlapInv
<1>2. Queue!Pushed # <<>> /\ Head(Queue!Pushed) = k /\ Tail(Queue!Pushed) = <<>>
  BY SameRules, PushedAndTaken DEF Encode, Queue!Pushed
<1>3. /\ phase = "open" /\ phase' = phase
      /\ ~Queue!Rejects(c, last_samples_count)
      /\ Queue!Shift(c)
  BY <1>2, SameRules DEF Encode, Queue!Shift
<1>4. last_samples = IF k = 1 THEN FirstOverlap ELSE k - 1
  BY DEF OverlapInv
<1>5. Queue!Encoded(k) = <<k, last_samples>>
  BY <1>4 DEF Queue!Encoded
<1> HIDE DEF k
<1>6. CASE framesize' = 1 /\ delivered' = Append(delivered, <<k, last_samples>>)
  BY <1>1, <1>2, <1>3, <1>5, <1>6 DEF Encode, Queue!Take
<1>7. CASE EncodeFails /\ framesize' = 0 /\ UNCHANGED delivered
  BY <1>3, <1>7 DEF Encode, Queue!FailSilently
<1> QED
  BY <1>6, <1>7 DEF Encode, ProcessFrame, k

\* aften_encode_close has nothing to run empty.
LEMMA CloseStep ==
    ASSUME Close
    PROVE  Queue!Close
  BY DEF Close, Queue!Close

\* The encoder starts as an empty line.
LEMMA QueueStarts == Init => Queue!Init
<1>1. <<>> \in {[i \in 1 .. d |-> 0] : d \in {0}}
  <2>1. [i \in 1 .. 0 |-> 0] = <<>>
    OBVIOUS
  <2> QED
    BY <2>1
<1> QED
  BY <1>1, SameRules DEF Init, Queue!Init

\* Between the calls of the application and what the delay line of no slots does,
\* with the failures as they are coded, there is no difference.
THEOREM SerialImplementsCode == Spec => ImplementsCode
<1>1. OverlapInv /\ [Next]_vars => [Queue!CodedNext]_Queue!vars
  <2> SUFFICES ASSUME OverlapInv, [Next]_vars PROVE [Queue!CodedNext]_Queue!vars
    OBVIOUS
  <2>1. ASSUME NEW c \in Counts, EncodeNothing(c) PROVE Queue!CodedNext
    BY <2>1, NothingStep DEF Queue!CodedNext
  <2>2. ASSUME NEW c \in Counts, Encode(c) PROVE Queue!CodedNext
    BY <2>2, EncodeStep DEF Queue!CodedNext, Queue!FailAsCoded
  <2>3. CASE Close
    BY <2>3, CloseStep DEF Queue!CodedNext
  <2>4. CASE UNCHANGED vars
    BY <2>4 DEF vars, Queue!vars
  <2> QED
    BY <2>1, <2>2, <2>3, <2>4 DEF Next, Finished
<1> QED
  BY <1>1, QueueStarts, OverlapInductive, PTL DEF Spec, ImplementsCode, Queue!CodedSpec

\* As long as no frame fails the encoder keeps the promise that aften.h makes of it.
\* The hypothesis is needed: ErrorsReported fails otherwise.
THEOREM SerialImplementsQueue ==
    ASSUME ~EncodeFails
    PROVE  Spec => ImplementsQueue
<1>1. OverlapInv /\ [Next]_vars => [Queue!Next]_Queue!vars
  <2> SUFFICES ASSUME OverlapInv, [Next]_vars PROVE [Queue!Next]_Queue!vars
    OBVIOUS
  <2>1. ASSUME NEW c \in Counts, EncodeNothing(c) PROVE Queue!Next
    BY <2>1, NothingStep DEF Queue!Next
  <2>2. ASSUME NEW c \in Counts, Encode(c) PROVE Queue!Next
    BY <2>2, EncodeStep DEF Queue!Next, Queue!FailSilently
  <2>3. CASE Close
    BY <2>3, CloseStep DEF Queue!Next
  <2>4. CASE UNCHANGED vars
    BY <2>4 DEF vars, Queue!vars
  <2> QED
    BY <2>1, <2>2, <2>3, <2>4 DEF Next, Finished
<1> QED
  BY <1>1, QueueStarts, OverlapInductive, PTL DEF Spec, ImplementsQueue, Queue!Spec
=============================================================================
