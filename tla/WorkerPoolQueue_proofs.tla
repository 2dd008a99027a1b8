----------------------- MODULE WorkerPoolQueue_proofs -----------------------
(***************************************************************************)
(* The threads are invisible: WorkerPool implements EncodeQueue with as    *)
(* many slots as there are threads, for every number of threads, every set *)
(* of counts, any number of frames and any pattern of failures.            *)
(***************************************************************************)
EXTENDS WorkerPool_proofs, DelayLine_proofs

-----------------------------------------------------------------------------
(* The queue that a state of the pool stands for.                          *)

\* The encoder has stopped: the abort loop is running, or has ended.
LEMMA WhenAborted ==
    IInv => (Aborted <=> ~Starting /\ (threads_to_abort # 0 \/ AllAborted))
<1> SUFFICES ASSUME IInv
             PROVE  Aborted <=> ~Starting /\ (threads_to_abort # 0 \/ AllAborted)
  OBVIOUS
<1>1. CASE Starting
  BY <1>1 DEF IInv, StartInv, Starting, Aborted, Visiting
<1>2. CASE ~Starting
  BY <1>2 DEF IInv, CallInv, Starting, Aborted, AllAborted
<1> QED
  BY <1>1, <1>2

\* The slots are a line: the ring holds the latest frames, in their order.
LEMMA SlotsAreALine ==
    IInv => QueueSlots = IF Aborted THEN <<>> ELSE IF Starting THEN Line(0, N)
                         ELSE Line(submitted, threads_running)
<1> SUFFICES ASSUME IInv, ~Aborted
             PROVE  QueueSlots = IF Starting THEN Line(0, N)
                                 ELSE Line(submitted, threads_running)
  BY DEF QueueSlots
<1>1. N \in Nat /\ N > 1
  BY PoolAssumption
<1>2. CASE Starting
  BY <1>1, <1>2 DEF QueueSlots, Line, Starting
<1>3. CASE ~Starting
  <2>1. First \in 0 .. N - 1 /\ threads_running \in 0 .. N /\ submitted \in Nat
    BY <1>3, FirstType DEF IInv, CountInv, TypeOK, HistType, Workers
  <2>2. ASSUME NEW i \in 1 .. threads_running
        PROVE  SlotOf((First + i - 1) % N) = IF submitted - threads_running + i > 0
                                               THEN submitted - threads_running + i ELSE 0
    <3> DEFINE w == (First + i - 1) % N
    <3>1. w = IF First + i - 1 < N THEN First + i - 1 ELSE First + i - 1 - N
      BY <1>1, <2>1, <2>2
    <3>2. w \in Workers /\ Pos(w) = i - 1
      BY <1>1, <2>1, <2>2, <3>1 DEF Workers, Pos
    <3> HIDE DEF w
    <3>3. Running(w) /\ FrameDue(w) = submitted - threads_running + i
      <4>1. i \in Int /\ i >= 1 /\ i <= threads_running
        BY <2>1, <2>2
      <4>2. Running(w)
        BY <2>1, <3>2, <4>1 DEF Running
      <4> QED
        BY <2>1, <3>2, <4>1, <4>2 DEF FrameDue
    <3>4. SlotOf(w) = IF FrameDue(w) <= 0 THEN 0 ELSE FrameDue(w)
      BY <1>3, <3>2, <3>3 DEF IInv, RingInv, InRing, SlotOf
    <3> QED
      BY <2>1, <2>2, <3>3, <3>4 DEF w
  <2>3. QueueSlots = [i \in 1 .. threads_running |-> SlotOf((First + i - 1) % N)]
    BY <1>3 DEF QueueSlots, First, Starting
  <2> QED
    BY <1>3, <2>2, <2>3 DEF Line
<1> QED
  BY <1>2, <1>3

\* The same of the state after a step.
LEMMA NextQueue ==
    IInv' => /\ Aborted' <=> ~Starting' /\ (threads_to_abort' # 0 \/ AllAborted')
             /\ QueueSlots' = IF Aborted' THEN <<>> ELSE IF Starting' THEN Line(0, N)
                              ELSE Line(submitted', threads_running')
<1>1. (IInv => (Aborted <=> ~Starting /\ (threads_to_abort # 0 \/ AllAborted)))'
  BY WhenAborted, PTL
<1>2. (IInv => QueueSlots = IF Aborted THEN <<>> ELSE IF Starting THEN Line(0, N)
                            ELSE Line(submitted, threads_running))'
  BY SlotsAreALine, PTL
<1> QED
  BY <1>1, <1>2 DEF Line

-----------------------------------------------------------------------------
(* Steps that the application cannot see.                                  *)

\* The rules on sample counts are the same in both modules.
LEMMA SameRules ==
    /\ \A c, l : Queue!Rejects(c, l) = Rejects(c, l)
    /\ \A l : Queue!Drained(l) = Drained(l)
    /\ Queue!NoCallYet = NoCallYet
  BY DEF Queue!Rejects, Queue!Drained, Rejects, Drained, Queue!NoCallYet, NoCallYet,
       Queue!A52_SAMPLES_PER_FRAME, A52_SAMPLES_PER_FRAME

\* The creation of the threads.
LEMMA StartUnseen ==
    ASSUME IInv, IInv', Starting, Starting' \/ mpc' = "idle",
           UNCHANGED <<last_samples_count, submitted, delivered, ret, closing>>,
           ~Starting' => threads_running' = N /\ threads_to_abort' = 0
    PROVE  UNCHANGED Queue!vars
<1>1. ~Aborted /\ submitted = 0 /\ closing = FALSE /\ N > 1 /\ N \in Nat
  BY WhenAborted, PoolAssumption DEF IInv, StartInv
<1>2. ~Aborted'
  BY <1>1, NextQueue DEF AllAborted
<1>3. QueueSlots = Line(0, N) /\ QueueSlots' = Line(0, N)
  BY <1>1, <1>2, SlotsAreALine, NextQueue
<1>4. QueuePhase = "open" /\ QueuePhase' = "open"
  BY <1>1, <1>2 DEF QueuePhase, Starting
<1> QED
  BY <1>3, <1>4 DEF Queue!vars

\* Everything that moves no frame.
LEMMA MovesNoFrame ==
    ASSUME IInv, IInv', ~Starting, ~Starting',
           UNCHANGED <<last_samples_count, submitted, delivered, ret, closing,
                       threads_running, threads_to_abort>>,
           AllAborted' <=> AllAborted,
           mpc' \in {"join", "closed"} <=> mpc \in {"join", "closed"}
    PROVE  UNCHANGED Queue!vars
<1>1. Aborted' <=> Aborted
  BY WhenAborted, NextQueue
<1>2. QueueSlots' = QueueSlots
  BY <1>1, SlotsAreALine, NextQueue
<1>3. QueuePhase' = QueuePhase
  BY <1>1 DEF QueuePhase
<1> QED
  BY <1>2, <1>3 DEF Queue!vars

\* Main creates the workers, which greet it.
LEMMA CreationUnseen ==
    ASSUME IInv, IInv',
           \/ CreateWorker \/ AwaitWorker \/ WorkerCreated
           \/ \E w \in Workers : WorkerStart(w) \/ WorkerHello(w)
    PROVE  UNCHANGED Queue!vars
<1>1. Starting
  BY DEF IInv, HandshakeInv, Handshake, CreateWorker, AwaitWorker, WorkerCreated,
         WorkerStart, WorkerHello, Starting
<1>2. UNCHANGED <<last_samples_count, submitted, delivered, ret, closing>>
  BY DEF CreateWorker, AwaitWorker, WorkerCreated, WorkerStart, WorkerHello, ringVars,
         histVars, callVars
<1>3. Starting' \/ mpc' = "idle"
  BY <1>1 DEF CreateWorker, AwaitWorker, WorkerCreated, WorkerStart, WorkerHello, Starting
<1>4. ~Starting' => threads_running' = N /\ threads_to_abort' = 0
  <2> SUFFICES ASSUME ~Starting' PROVE threads_running' = N /\ threads_to_abort' = 0
    OBVIOUS
  <2>1. WorkerCreated /\ idx = N - 1 /\ mpc = "created"
    BY <1>1, PoolAssumption DEF CreateWorker, AwaitWorker, WorkerCreated, WorkerStart,
         WorkerHello, Starting, IInv, TypeOK, CallType, Workers
  <2>2. Main \notin enter_cond[idx] /\ UNCHANGED <<threads_running, threads_to_abort>>
    BY <2>1 DEF WorkerCreated, ringVars
  <2> QED
    BY <1>1, <2>1, <2>2, PoolAssumption DEF IInv, StartInv
<1> QED
  BY <1>1, <1>2, <1>3, <1>4, StartUnseen

\* The workers wake, copy, encode and end, and waits return spuriously.
LEMMA WorkersUnseen ==
    ASSUME IInv, IInv', NEW w \in Workers,
           \/ WorkerWake(w) \/ WorkerConfirm(w) \/ WorkerDispatch(w) \/ WorkerTurn(w)
           \/ WorkerCopy(w) \/ WorkerExit(w) \/ WorkerEncode(w)
    PROVE  UNCHANGED Queue!vars
<1>1. ~Starting
  BY OnlyGreetings DEF WorkerWake, WorkerConfirm, WorkerDispatch, WorkerTurn, WorkerCopy,
       WorkerExit, WorkerEncode
<1>2. UNCHANGED <<mpc, last_samples_count, submitted, delivered, ret, closing,
                  threads_running, threads_to_abort>>
  BY DEF WorkerWake, WorkerConfirm, WorkerDispatch, WorkerTurn, WorkerCopy,
         WorkerExit, WorkerEncode, ringVars, histVars, callVars
<1>3. ~Starting'
  BY <1>1, <1>2 DEF Starting
<1>4. AllAborted' <=> AllAborted
  <2>1. CASE WorkerEncode(w)
    <3>1. state[w] = "WORK" /\ Running(w)
      BY <1>1, <2>1 DEF WorkerEncode, IInv, StateInv, Obeys, RingInv, InRing
    <3>2. Pos(w) \in Nat /\ threads_running \in Nat
      BY <1>1, PosFacts, PoolAssumption DEF IInv, CountInv
    <3> QED
      BY <1>2, <3>1, <3>2 DEF Running, AllAborted
  <2>2. CASE ~WorkerEncode(w)
    <3>1. UNCHANGED state
      BY <2>2 DEF WorkerWake, WorkerConfirm, WorkerDispatch, WorkerTurn, WorkerCopy,
           WorkerExit, tctxVars
    <3> QED
      BY <1>2, <3>1 DEF AllAborted
  <2> QED
    BY <2>1, <2>2
<1> QED
  BY <1>1, <1>2, <1>3, <1>4, MovesNoFrame

\* A wait returns without a signal.
LEMMA SpuriousUnseen ==
    ASSUME IInv, IInv', NEW w \in Workers, Spurious(w)
    PROVE  UNCHANGED Queue!vars
<1>1. UNCHANGED <<mpc, last_samples_count, submitted, delivered, ret, closing, state,
                  threads_running, threads_to_abort>>
  BY DEF Spurious, ringVars, tctxVars, histVars, callVars
<1>2. (Starting' <=> Starting) /\ (AllAborted' <=> AllAborted)
  BY <1>1 DEF Starting, AllAborted
<1> QED
  BY <1>1, <1>2, StartUnseen, MovesNoFrame

\* The hand-over to a worker.
LEMMA HandoverUnseen ==
    ASSUME IInv, IInv', NEW w \in Workers,
           SignalWorker(w) \/ AwaitConfirm(w) \/ Confirmed(w)
    PROVE  UNCHANGED Queue!vars
<1>1. /\ mpc \in {"signal", "await", "confirm"}
      /\ mpc' \in {"await", "confirm", "visit", "closing", "idle"}
  BY DEF SignalWorker, AwaitConfirm, Confirmed, Advance
<1>2. UNCHANGED <<last_samples_count, submitted, delivered, ret, closing, state,
                  threads_running, threads_to_abort>>
  BY DEF SignalWorker, AwaitConfirm, Confirmed, ringVars, tctxVars, histVars, callVars
<1>3. ~Starting /\ ~Starting' /\ (AllAborted' <=> AllAborted)
  BY <1>1, <1>2 DEF Starting, AllAborted
<1> QED
  BY <1>1, <1>2, <1>3, MovesNoFrame

-----------------------------------------------------------------------------
(* Steps of the queue.                                                     *)

\* A call of aften_encode_frame that is turned away, or that finds the encoder
\* at its end; any other takes effect with the visit that follows.
LEMMA EncodeSeen ==
    ASSUME IInv, IInv', NEW c \in Counts, Encode(c)
    PROVE  Queue!Next \/ UNCHANGED Queue!vars
<1>1. /\ mpc = "idle" /\ mpc' \in {"idle", "visit"}
      /\ UNCHANGED <<last_samples_count, submitted, delivered, closing, state,
                     threads_running, threads_to_abort>>
  BY DEF Encode, ringVars, tctxVars, histVars
<1>2. ~Starting /\ ~Starting' /\ (AllAborted' <=> AllAborted)
  BY <1>1 DEF Starting, AllAborted
<1>3. closing = FALSE /\ threads_to_abort = 0 /\ submitted \in Nat
      /\ threads_running \in 0 .. N /\ N \in Nat /\ N > 1
  BY <1>1, <1>2, PoolAssumption DEF IInv, CallInv, CountInv, Visiting, TypeOK, CallType,
       HistType
<1>4. (Aborted <=> AllAborted) /\ (Aborted' <=> Aborted)
  BY <1>1, <1>2, <1>3, WhenAborted, NextQueue
<1>5. /\ QueueSlots = IF Aborted THEN <<>> ELSE Line(submitted, threads_running)
      /\ QueueSlots' = QueueSlots
  BY <1>1, <1>2, <1>4, SlotsAreALine, NextQueue
<1>6. /\ QueuePhase = IF Aborted THEN "aborted" ELSE "open"
      /\ QueuePhase' = QueuePhase
  BY <1>1, <1>3, <1>4 DEF QueuePhase
<1>7. CASE Rejects(c, last_samples_count)
  <2>1. ret' = -1
    BY <1>7 DEF Encode
  <2>2. Queue!Reject(c)
    BY <1>1, <1>5, <1>6, <1>7, <2>1, SameRules DEF Queue!Reject
  <2> QED
    BY <2>2 DEF Queue!Next
<1>8. CASE ~Rejects(c, last_samples_count) /\ threads_running = 0
  <2>1. ret' = 0
    BY <1>8 DEF Encode
  <2>2. Aborted \/ Drained(last_samples_count)
    BY <1>2, <1>3, <1>4, <1>8 DEF IInv, CountInv
  <2>3. ~Aborted => QueueSlots = <<>>
    BY <1>3, <1>5, <1>8, LineTaken
  <2>4. Queue!Exhausted(c)
    BY <1>1, <1>5, <1>6, <1>8, <2>1, <2>2, <2>3, SameRules DEF Queue!Exhausted
  <2> QED
    BY <2>4 DEF Queue!Next
<1>9. CASE ~Rejects(c, last_samples_count) /\ threads_running # 0
  <2>1. ret' = ret
    BY <1>9 DEF Encode
  <2> QED
    BY <1>1, <1>5, <1>6, <2>1 DEF Queue!vars
<1> QED
  BY <1>7, <1>8, <1>9

\* aften_encode_close begins, leaves its loop and joins the threads.
LEMMA CloseSeen ==
    ASSUME IInv, IInv', Close \/ CloseLoop \/ Join
    PROVE  Queue!Next \/ UNCHANGED Queue!vars
<1>1. /\ mpc \in {"idle", "closing", "join"}
      /\ mpc' \in {"closing", "visit", "join", "closed"}
      /\ UNCHANGED <<last_samples_count, submitted, delivered, ret, state,
                     threads_running, threads_to_abort>>
  BY DEF Close, CloseLoop, Join, ringVars, tctxVars, histVars
<1>2. ~Starting /\ ~Starting' /\ (AllAborted' <=> AllAborted)
  BY <1>1 DEF Starting, AllAborted
<1>3. CASE Close
  <2>1. closing = FALSE /\ closing' = TRUE /\ mpc = "idle" /\ mpc' = "closing"
    BY <1>3 DEF Close, IInv, CallInv, TypeOK, CallType
  <2>2. Aborted' <=> Aborted
    BY <1>1, <1>2, WhenAborted, NextQueue
  <2>3. QueueSlots' = QueueSlots
    BY <1>1, <1>2, <2>2, SlotsAreALine, NextQueue
  <2>4. QueuePhase \in {"open", "aborted"} /\ QueuePhase' = "closing"
    BY <2>1 DEF QueuePhase
  <2>5. Queue!Close
    BY <1>1, <2>3, <2>4 DEF Queue!Close
  <2> QED
    BY <2>5 DEF Queue!Next
<1>4. CASE CloseLoop /\ threads_running = 0
  <2>1. closing = TRUE /\ closing' = TRUE /\ mpc = "closing" /\ mpc' = "join"
    BY <1>4 DEF CloseLoop, IInv, CallInv, TypeOK, CallType
  <2>2. submitted \in Nat
    BY DEF IInv, TypeOK, HistType
  <2>3. QueueSlots = <<>> /\ QueueSlots' = <<>>
    BY <1>1, <1>2, <1>4, <2>2, LineTaken, SlotsAreALine, NextQueue
  <2>4. QueuePhase = "closing" /\ QueuePhase' = "closed"
    BY <2>1 DEF QueuePhase
  <2>5. Queue!Closed
    BY <1>1, <2>3, <2>4 DEF Queue!Closed
  <2> QED
    BY <2>5 DEF Queue!Next
<1>5. CASE (CloseLoop /\ threads_running # 0) \/ Join
  <2>1. /\ closing' = closing
        /\ mpc' \in {"join", "closed"} <=> mpc \in {"join", "closed"}
    BY <1>5 DEF CloseLoop, Join
  <2> QED
    BY <1>1, <1>2, <2>1, MovesNoFrame
<1> QED
  BY <1>3, <1>4, <1>5

\* What the abstract call of a visit is: the application's, or a call with no
\* samples from aften_encode_close.
LEMMA CallOfVisit ==
    ASSUME IInv, NEW w \in Workers, AtWorker(w), threads_to_abort = 0
    PROVE  /\ ~Starting /\ ~Aborted /\ threads_running \in 1 .. N /\ submitted \in Nat
           /\ QueueSlots = Line(submitted, threads_running)
           /\ \/ /\ ~closing /\ QueuePhase = "open"
                 /\ count \in Counts /\ ~Queue!Rejects(count, last_samples_count)
              \/ closing /\ QueuePhase = "closing" /\ count = 0
<1>1. /\ ~Starting /\ threads_running \in 1 .. N /\ mpc = "visit" /\ submitted \in Nat
      /\ N \in Nat
  BY VisitedWorker, PoolAssumption DEF AtWorker, IInv, TypeOK, HistType
<1>2. ~Aborted
  BY <1>1, WhenAborted DEF AllAborted
<1>3. QueueSlots = Line(submitted, threads_running)
  BY <1>1, <1>2, SlotsAreALine
<1>4. QueuePhase = IF closing THEN "closing" ELSE "open"
  BY <1>1, <1>2 DEF QueuePhase
<1>5. IF closing THEN count = 0
      ELSE count \in Counts /\ ~Rejects(count, last_samples_count)
  BY <1>1 DEF IInv, CallInv
<1> QED
  BY <1>1, <1>2, <1>3, <1>4, <1>5, SameRules

\* The slot that such a call takes: the frame of the worker visited, or nothing if
\* it has had none.
LEMMA HeadOfQueue ==
    ASSUME IInv, NEW w \in Workers, AtWorker(w), threads_to_abort = 0, NEW k,
           k = IF submitted >= threads_running THEN submitted + 1 - threads_running ELSE 0
    PROVE  /\ QueueSlots # <<>> /\ Head(QueueSlots) = k
           /\ Queue!Pushed # <<>> /\ Head(Queue!Pushed) = k
           /\ Tail(Queue!Pushed) = IF Drained(last_samples_count)
                                     THEN Line(submitted, threads_running - 1)
                                     ELSE Line(submitted + 1, threads_running)
<1>1. /\ threads_running \in Nat /\ threads_running > 0 /\ submitted \in Nat
      /\ QueueSlots = Line(submitted, threads_running)
  BY CallOfVisit, PoolAssumption
<1>2. /\ QueueSlots # <<>> /\ Head(QueueSlots) = k
      /\ Tail(QueueSlots) = Line(submitted, threads_running - 1)
  BY <1>1, LineTaken
<1>3. LET pushed == Append(QueueSlots, submitted + 1)
      IN  /\ pushed # <<>> /\ Head(pushed) = k
          /\ Tail(pushed) = Line(submitted + 1, threads_running)
  BY <1>1, LinePushed
<1> QED
  BY <1>2, <1>3, SameRules DEF Queue!Pushed

\* A frame could not be encoded: the call fails, and the visits that follow in
\* the abort loop are not seen.
LEMMA AbortSeen ==
    ASSUME IInv, IInv', NEW w \in Workers, VisitAbort(w)
    PROVE  Queue!Next \/ UNCHANGED Queue!vars
<1>1. /\ AtWorker(w) /\ mpc = "visit" /\ mpc' = "signal" /\ ret' = -1
      /\ UNCHANGED <<last_samples_count, submitted, delivered, closing>>
  BY DEF VisitAbort, AtWorker, histVars
<1>2. Aborted' /\ QueueSlots' = <<>>
  <2>1. Aborted'
    BY <1>1 DEF Aborted, Visiting
  <2> QED
    BY <2>1, NextQueue
<1>3. QueuePhase' = IF closing THEN "closing" ELSE "aborted"
  BY <1>1, <1>2 DEF QueuePhase
<1>4. CASE threads_to_abort # 0
  <2>1. Aborted /\ QueueSlots = <<>> /\ ret = -1
    BY <1>4, SlotsAreALine DEF Aborted, IInv, CallInv
  <2>2. QueuePhase = IF closing THEN "closing" ELSE "aborted"
    BY <1>1, <2>1 DEF QueuePhase
  <2> QED
    BY <1>1, <1>2, <1>3, <2>1, <2>2 DEF Queue!vars
<1>5. CASE threads_to_abort = 0
  <2>1. /\ threads_running \in 1 .. N /\ submitted \in Nat /\ N \in Nat
        /\ QueueSlots = Line(submitted, threads_running)
        /\ \/ /\ ~closing /\ QueuePhase = "open"
              /\ count \in Counts /\ ~Queue!Rejects(count, last_samples_count)
           \/ closing /\ QueuePhase = "closing" /\ count = 0
    BY <1>1, <1>5, CallOfVisit, PoolAssumption
  <2>2. state[w] = "ABORT" /\ EncodeFails /\ submitted >= threads_running
    BY <1>1, <1>5, VisitedState DEF VisitAbort, MustAbort
  <2> DEFINE k == submitted + 1 - threads_running
  <2>3. /\ k # 0 /\ QueueSlots # <<>> /\ Queue!Pushed # <<>>
        /\ Head(QueueSlots) = k /\ Head(Queue!Pushed) = k
    BY <1>1, <1>5, <2>1, <2>2, HeadOfQueue
  <2>4. CASE ~closing
    <3>1. Queue!Fail(count)
      BY <1>1, <1>2, <1>3, <2>1, <2>2, <2>3, <2>4 DEF Queue!Fail
    <3> QED
      BY <2>1, <2>4, <3>1 DEF Queue!Next
  <2>5. CASE closing
    <3>1. Queue!Discard
      BY <1>1, <1>2, <1>3, <2>1, <2>2, <2>3, <2>5 DEF Queue!Discard
    <3> QED
      BY <3>1 DEF Queue!Next
  <2> QED
    BY <2>4, <2>5
<1> QED
  BY <1>4, <1>5

\* Any other visit is a call that takes a slot of the line.
LEMMA ShiftSeen ==
    ASSUME IInv, IInv', NEW w \in Workers, AtWorker(w), ~Starting',
           threads_to_abort = 0, threads_to_abort' = 0, ~AllAborted', closing' = closing,
           mpc' \notin {"join", "closed"},
           IF Drained(last_samples_count)
             THEN threads_running' = threads_running - 1
                  /\ UNCHANGED <<last_samples_count, submitted>>
             ELSE UNCHANGED threads_running
                  /\ last_samples_count' = count /\ submitted' = submitted + 1,
           NEW k,
           k = IF submitted >= threads_running THEN submitted + 1 - threads_running ELSE 0,
           ret' = IF k = 0 THEN 0 ELSE 1,
           delivered' = IF closing \/ k = 0 THEN delivered
                        ELSE Append(delivered, <<k, Before(k)>>)
    PROVE  Queue!Next
<1>1. /\ ~Starting /\ ~Aborted /\ QueueSlots = Line(submitted, threads_running)
      /\ \/ /\ ~closing /\ QueuePhase = "open"
            /\ count \in Counts /\ ~Queue!Rejects(count, last_samples_count)
         \/ closing /\ QueuePhase = "closing" /\ count = 0
  BY CallOfVisit
<1>2. ~Aborted' /\ QueueSlots' = Line(submitted', threads_running')
  BY NextQueue
<1>3. QueuePhase' = QueuePhase
  BY <1>1, <1>2 DEF QueuePhase, AtWorker
<1>4. /\ QueueSlots # <<>> /\ Queue!Pushed # <<>> /\ Head(Queue!Pushed) = k
      /\ Tail(Queue!Pushed) = IF Drained(last_samples_count)
                                THEN Line(submitted, threads_running - 1)
                                ELSE Line(submitted + 1, threads_running)
  BY HeadOfQueue
<1>5. QueueSlots' = Tail(Queue!Pushed)
  BY <1>2, <1>4
<1>6. Queue!Shift(count)
  BY <1>4, <1>5, SameRules DEF Queue!Shift
<1>7. Queue!Encoded(k) = <<k, Before(k)>>
  BY DEF Queue!Encoded, Before
<1>8. CASE ~closing
  <2>1. Queue!Take(count)
    BY <1>1, <1>3, <1>4, <1>6, <1>7, <1>8 DEF Queue!Take
  <2> QED
    BY <1>1, <1>8, <2>1 DEF Queue!Next
<1>9. CASE closing
  <2>1. Queue!Discard
    BY <1>1, <1>3, <1>4, <1>6, <1>9 DEF Queue!Discard
  <2> QED
    BY <2>1 DEF Queue!Next
<1> QED
  BY <1>8, <1>9

\* After a visit that is not an abort no worker counts as aborted.
LEMMA NoneAborted ==
    ASSUME IInv, NEW w \in Workers, AtWorker(w), threads_to_abort = 0, state[w] # "ABORT",
           PrepareEncode(w, state[w]) \/ (PrepareEncode(w, "WORK") /\ state[w] = "START")
    PROVE  ~AllAborted'
<1>1. /\ ~Starting /\ Running(w) /\ w = First /\ threads_running \in 1 .. N
      /\ TypeOK /\ state \in [Workers -> {"START", "WORK", "END", "ABORT"}]
  BY VisitedWorker DEF IInv, TypeOK, TctxType
<1>2. CASE ~Drained(last_samples_count)
  <2>1. threads_running' # 0
    BY <1>1, <1>2 DEF PrepareEncode
  <2> QED
    BY <2>1 DEF AllAborted
<1>3. CASE Drained(last_samples_count)
  <2>1. state' = [state EXCEPT ![w] = "END"] /\ threads_running' = threads_running - 1
    BY <1>3 DEF PrepareEncode
  <2> SUFFICES ASSUME threads_running' = 0, NEW v \in Workers, state'[v] = "ABORT"
               PROVE  FALSE
    BY DEF AllAborted
  <2>2. v # w /\ state[v] = "ABORT" /\ threads_running = 1
    BY <1>1, <2>1
  <2>3. Running(v)
    BY <1>1, <2>2 DEF IInv, RingInv, InRing
  <2>4. Pos(v) = 0
    BY <1>1, <2>2, <2>3, PosFacts, PoolAssumption DEF Running
  <2> QED
    BY <1>1, <2>2, <2>4, PosFacts
<1> QED
  BY <1>2, <1>3

\* The first frame of a worker: an empty slot falls out.
LEMMA StartSeen ==
    ASSUME IInv, IInv', NEW w \in Workers, VisitStart(w)
    PROVE  Queue!Next
<1>1. /\ AtWorker(w) /\ threads_to_abort = 0 /\ threads_to_abort' = 0 /\ closing' = closing
      /\ state[w] = "START" /\ ~Drained(last_samples_count) /\ mpc' = "signal"
      /\ PrepareEncode(w, "WORK") /\ ret' = 0 /\ delivered' = delivered
  BY DEF VisitStart, MustAbort
<1>2. ~AllAborted' /\ ~Starting'
  BY <1>1, NoneAborted DEF Starting
<1>3. UNCHANGED threads_running /\ last_samples_count' = count /\ submitted' = submitted + 1
  BY <1>1 DEF PrepareEncode
<1>4. submitted < threads_running /\ submitted \in Nat /\ threads_running \in Int
  BY <1>1, VisitedState DEF IInv, TypeOK, HistType, RingType
<1> DEFINE k == IF submitted >= threads_running THEN submitted + 1 - threads_running ELSE 0
<1>5. k = 0
  BY <1>4
<1> QED
  BY <1>1, <1>2, <1>3, <1>5, ShiftSeen

\* A finished frame falls out.
LEMMA DeliverSeen ==
    ASSUME IInv, IInv', NEW w \in Workers, VisitDeliver(w)
    PROVE  Queue!Next
<1>1. /\ AtWorker(w) /\ threads_to_abort = 0 /\ threads_to_abort' = 0 /\ closing' = closing
      /\ framesize[w] > 0 /\ mpc' = "signal" /\ state[w] # "ABORT"
      /\ PrepareEncode(w, state[w]) /\ ret' = framesize[w]
      /\ delivered' = IF closing THEN delivered ELSE Append(delivered, frame_buffer[w])
  BY DEF VisitDeliver, MustAbort
<1>2. ~AllAborted' /\ ~Starting'
  BY <1>1, NoneAborted DEF Starting
<1>3. IF Drained(last_samples_count)
        THEN threads_running' = threads_running - 1
             /\ UNCHANGED <<last_samples_count, submitted>>
        ELSE UNCHANGED threads_running
             /\ last_samples_count' = count /\ submitted' = submitted + 1
  BY <1>1 DEF PrepareEncode
<1>4. /\ state[w] = "WORK" /\ framesize[w] = 1 /\ submitted >= threads_running
      /\ frame[w] = submitted + 1 - threads_running
      /\ frame_buffer[w] = <<frame[w], Before(frame[w])>>
  BY <1>1, VisitedState
<1>5. submitted \in Nat /\ threads_running \in Int
  BY DEF IInv, TypeOK, HistType, RingType
<1> DEFINE k == IF submitted >= threads_running THEN submitted + 1 - threads_running ELSE 0
<1>6. k = frame[w] /\ k # 0
  BY <1>4, <1>5
<1>7. delivered' = IF closing \/ k = 0 THEN delivered
                   ELSE Append(delivered, <<k, Before(k)>>)
  BY <1>1, <1>4, <1>6
<1> QED
  BY <1>1, <1>2, <1>3, <1>4, <1>6, <1>7, ShiftSeen

\* A worker without a frame is retired: an empty slot falls out.
LEMMA SkipSeen ==
    ASSUME IInv, IInv', NEW w \in Workers, VisitSkip(w)
    PROVE  Queue!Next
<1>1. /\ AtWorker(w) /\ threads_to_abort = 0 /\ threads_to_abort' = 0 /\ closing' = closing
      /\ framesize[w] <= 0 /\ mpc' \in {"idle", "closing"} /\ state[w] # "ABORT"
      /\ state[w] # "START" \/ Drained(last_samples_count)
      /\ PrepareEncode(w, state[w]) /\ ret' = 0 /\ delivered' = delivered
  BY DEF VisitSkip, MustAbort, Advance
<1>2. ~AllAborted' /\ ~Starting'
  BY <1>1, NoneAborted DEF Starting
<1>3. state[w] = "START" /\ Drained(last_samples_count) /\ submitted < threads_running
  BY <1>1, VisitedState
<1>4. threads_running' = threads_running - 1 /\ UNCHANGED <<last_samples_count, submitted>>
  BY <1>1, <1>3 DEF PrepareEncode
<1>5. submitted \in Nat /\ threads_running \in Int
  BY DEF IInv, TypeOK, HistType, RingType
<1> DEFINE k == IF submitted >= threads_running THEN submitted + 1 - threads_running ELSE 0
<1>6. k = 0
  BY <1>3, <1>5
<1> QED
  BY <1>1, <1>2, <1>3, <1>4, <1>6, ShiftSeen

-----------------------------------------------------------------------------

\* The pool of N threads implements the delay line of N slots: what a call
\* returns, which frames come back and in which order, and what a failure or
\* aften_encode_close drops, do not depend on how the threads are scheduled.
THEOREM PoolImplementsQueue ==
    ASSUME HandoverNotSpurious
    PROVE  Spec => ImplementsQueue
<1>1. Init => Queue!Init
  <2> SUFFICES ASSUME Init PROVE Queue!Init
    OBVIOUS
  <2>1. IInv /\ Starting
    BY InvInit DEF Init, Starting
  <2>2. ~Aborted
    BY <2>1, WhenAborted
  <2>3. QueueSlots = [i \in 1 .. N |-> 0]
    BY <2>1, <2>2 DEF QueueSlots, Starting
  <2>4. QueuePhase = "open"
    BY <2>2 DEF Init, QueuePhase
  <2> QED
    BY <2>3, <2>4, SameRules DEF Init, Queue!Init
<1>2. IInv /\ IInv' /\ [Next]_vars => [Queue!Next]_Queue!vars
  <2> SUFFICES ASSUME IInv, IInv', [Next]_vars PROVE Queue!Next \/ UNCHANGED Queue!vars
    OBVIOUS
  <2>1. CASE \/ CreateWorker \/ AwaitWorker \/ WorkerCreated
             \/ \E w \in Workers : WorkerStart(w) \/ WorkerHello(w)
    BY <2>1, CreationUnseen
  <2>2. CASE CloseLoop \/ Join \/ Close
    BY <2>2, CloseSeen
  <2>3. ASSUME NEW c \in Counts, Encode(c) PROVE Queue!Next \/ UNCHANGED Queue!vars
    BY <2>3, EncodeSeen
  <2>4. ASSUME NEW w \in Workers, Visit(w) PROVE Queue!Next \/ UNCHANGED Queue!vars
    BY <2>4, AbortSeen, StartSeen, DeliverSeen, SkipSeen DEF Visit
  <2>5. ASSUME NEW w \in Workers, SignalWorker(w) \/ AwaitConfirm(w) \/ Confirmed(w)
        PROVE  UNCHANGED Queue!vars
    BY <2>5, HandoverUnseen
  <2>6. ASSUME NEW w \in Workers, WorkerStep(w), ~WorkerStart(w), ~WorkerHello(w)
        PROVE  UNCHANGED Queue!vars
    BY <2>6, WorkersUnseen DEF WorkerStep
  <2>7. ASSUME NEW w \in Workers, Spurious(w) PROVE UNCHANGED Queue!vars
    BY <2>7, SpuriousUnseen
  <2>8. CASE UNCHANGED vars
    <3>1. UNCHANGED <<mpc, last_samples_count, submitted, delivered, ret, closing, state,
                      threads_running, threads_to_abort>>
      BY <2>8 DEF vars, ringVars, tctxVars, histVars, callVars
    <3>2. (Starting' <=> Starting) /\ (AllAborted' <=> AllAborted)
      BY <3>1 DEF Starting, AllAborted
    <3> QED
      BY <3>1, <3>2, StartUnseen, MovesNoFrame
  <2> QED
    BY <2>1, <2>2, <2>3, <2>4, <2>5, <2>6, <2>7, <2>8
       DEF Next, MainStep, WorkerStep, Application, Finished
<1> QED
  BY <1>1, <1>2, PoolInvariant, PTL DEF Spec, ImplementsQueue, Queue!Spec
=============================================================================
