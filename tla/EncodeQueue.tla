---------------------------- MODULE EncodeQueue ----------------------------
(***************************************************************************)
(* What the encoder promises its application, whatever threads it runs on: *)
(* API.txt calls it "some sort of internal queue, which needs to be filled,*)
(* prior you get encoded frames back".  It is a delay line of slots.       *)
(* A call pushes its frame in at one end and takes what falls out at the   *)
(* other; once the stream is drained calls only take.  An empty slot comes *)
(* out as 0, a frame as itself, overlapped with the frame before it.       *)
(*                                                                         *)
(* The line is as long as the number of threads, and has no slot for the   *)
(* encoder without threads; Depths holds the lengths to look at.  A frame  *)
(* whose encoding failed comes out as -1 and ends the encoder: that is     *)
(* Spec, what aften.h promises.  Without threads the code does otherwise:  *)
(* CodedSpec has this deviation, for the models of the encoder's callers.  *)
(***************************************************************************)
EXTENDS SampleCounts, Sequences

CONSTANTS Depths, Counts, EncodeFails, FirstOverlap

VARIABLES
    slots,       \* the delay line: frame numbers, 0 where no frame is
    last,        \* the count of the last accepted call
    submitted,   \* frames accepted
    delivered,   \* encoded frames returned, <<frame, overlap>>
    ret,         \* sign of the last result: 0, 1 or -1
    phase        \* "open", "aborted", "closing" or "closed"

vars == <<slots, last, submitted, delivered, ret, phase>>

Init ==
    /\ slots \in {[i \in 1 .. d |-> 0] : d \in Depths}
    /\ last = NoCallYet
    /\ submitted = 0
    /\ delivered = <<>>
    /\ ret = 0
    /\ phase = "open"

Encoded(k) == <<k, IF k = 1 THEN FirstOverlap ELSE k - 1>>

Reject(c) ==
    /\ phase \in {"open", "aborted"}
    /\ Rejects(c, last)
    /\ ret' = -1
    /\ UNCHANGED <<slots, last, submitted, delivered, phase>>

\* Drained and empty, or aborted: every further call returns 0.
Exhausted(c) ==
    /\ phase \in {"open", "aborted"}
    /\ ~Rejects(c, last)
    /\ phase = "aborted" \/ (slots = <<>> /\ Drained(last))
    /\ ret' = 0
    /\ UNCHANGED <<slots, last, submitted, delivered, phase>>

\* The line after a call, the slot that comes out still at its head.
Pushed == IF Drained(last) THEN slots ELSE Append(slots, submitted + 1)

Shift(c) ==
    /\ Pushed # <<>>
    /\ slots' = Tail(Pushed)
    /\ IF Drained(last)
         THEN UNCHANGED <<last, submitted>>
         ELSE last' = c /\ submitted' = submitted + 1

\* A call takes what falls out of the line.
Take(c) ==
    /\ phase = "open"
    /\ ~Rejects(c, last)
    /\ Shift(c)
    /\ IF Head(Pushed) = 0
         THEN ret' = 0 /\ UNCHANGED delivered
         ELSE ret' = 1 /\ delivered' = Append(delivered, Encoded(Head(Pushed)))
    /\ UNCHANGED phase

\* The frame that falls out could not be encoded: "returns a negative value on
\* error" (aften.h).  The encoder stops, and the frames behind it, the one of this
\* call included, are dropped.
Fail(c) ==
    /\ EncodeFails
    /\ phase = "open"
    /\ ~Rejects(c, last)
    /\ Pushed # <<>> /\ Head(Pushed) # 0
    /\ ret' = -1
    /\ slots' = <<>>
    /\ phase' = "aborted"
    /\ UNCHANGED <<last, submitted, delivered>>

\* What the code does without threads, against its promise: the frame of this call
\* is lost, and the call returns 0.
FailSilently(c) ==
    /\ EncodeFails
    /\ phase = "open"
    /\ ~Rejects(c, last)
    /\ slots = <<>>
    /\ Shift(c)
    /\ ret' = 0
    /\ UNCHANGED <<delivered, phase>>

\* How a frame fails in the code, with and without threads.
FailAsCoded(c) == (slots # <<>> /\ Fail(c)) \/ FailSilently(c)

Close ==
    /\ phase \in {"open", "aborted"}
    /\ phase' = "closing"
    /\ UNCHANGED <<slots, last, submitted, delivered, ret>>

\* aften_encode_close runs the line empty and drops what comes out.
Discard ==
    /\ phase = "closing"
    /\ slots # <<>>
    /\ \/ /\ Shift(0)
          /\ ret' = IF Head(Pushed) = 0 THEN 0 ELSE 1
       \/ /\ EncodeFails
          /\ Head(Pushed) # 0
          /\ slots' = <<>>
          /\ ret' = -1
          /\ UNCHANGED <<last, submitted>>
    /\ UNCHANGED <<delivered, phase>>

Closed ==
    /\ phase = "closing"
    /\ slots = <<>>
    /\ phase' = "closed"
    /\ UNCHANGED <<slots, last, submitted, delivered, ret>>

Next ==
    \/ \E c \in Counts : Reject(c) \/ Exhausted(c) \/ Take(c) \/ Fail(c)
    \/ Close \/ Discard \/ Closed

Spec == Init /\ [][Next]_vars

CodedNext ==
    \/ \E c \in Counts : Reject(c) \/ Exhausted(c) \/ Take(c) \/ FailAsCoded(c)
    \/ Close \/ Discard \/ Closed

CodedSpec == Init /\ [][CodedNext]_vars
=============================================================================
