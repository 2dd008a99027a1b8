------------------------- MODULE WorkerPool_proofs -------------------------
(***************************************************************************)
(* What is proved of WorkerPool for every number of threads, every set of  *)
(* counts and whichever waits return spuriously.                           *)
(***************************************************************************)
EXTENDS WorkerPool, TLAPS

-----------------------------------------------------------------------------
(* The ring of workers and the numbers of frames.                          *)

\* Modular increment without the modulus: what the provers reason with.
LEMMA NextWorker ==
    ASSUME NEW w \in Workers
    PROVE  Next_(w) = (IF w = N - 1 THEN 0 ELSE w + 1)
  BY PoolAssumption DEF Workers, Next_

\* The worker after a worker is a worker.
LEMMA NextWorkerType ==
    ASSUME NEW w \in Workers
    PROVE  Next_(w) \in Workers
  BY NextWorker, PoolAssumption DEF Workers

\* The frame numbers that the actions store.
LEMMA FrameFacts ==
    /\ NoFrame \in FrameNo /\ 0 \in FrameNo
    /\ \A k \in Nat : k + 1 \in FrameNo
    /\ 0 \in Workers
  BY PoolAssumption DEF NoFrame, FrameNo, Workers

-----------------------------------------------------------------------------
(* Type correctness.                                                       *)

\* The initial state of aften_encode_init has the declared types.
LEMMA TypeInit == Init => TypeOK
<1> SUFFICES ASSUME Init PROVE TypeOK
  OBVIOUS
<1>1. TsType
  BY DEF Init, TsType
<1>2. CopyType /\ RingType
  <2>1. last_samples_count \in LastCounts(Counts)
    BY DEF Init, LastCounts, CallCounts
  <2> QED
    BY <2>1, FrameFacts DEF Init, CopyType, RingType
<1>3. TctxType
  <2>1. <<NoFrame, NoFrame>> \in Frames
    BY FrameFacts DEF Frames
  <2> QED
    BY <2>1, FrameFacts DEF Init, TctxType
<1>4. CallType
  BY FrameFacts DEF Init, CallType, CallCounts
<1>5. HistType
  BY DEF Init, HistType
<1>6. PcType
  BY DEF Init, PcType, WorkerPcs, MainPcs
<1> QED
  BY <1>1, <1>2, <1>3, <1>4, <1>5, <1>6 DEF TypeOK

\* Every step of Main, of a worker or of a spurious wake-up preserves the types.
LEMMA TypeInductive == TypeOK /\ [Next]_vars => TypeOK'
<1> SUFFICES ASSUME TsType, CopyType, RingType, TctxType, CallType, HistType,
                    PcType, [Next]_vars
             PROVE  TypeOK'
  BY DEF TypeOK
<1>1. CASE CreateWorker
  <2>1. TsType'
    BY <1>1 DEF CreateWorker, TsType, Threads
  <2>2. PcType'
    BY <1>1 DEF CreateWorker, PcType, WorkerPcs, MainPcs
  <2>3. CopyType' /\ RingType' /\ TctxType' /\ CallType' /\ HistType'
    BY <1>1 DEF CreateWorker, CopyType, RingType, TctxType, CallType,
         HistType, copyVars, ringVars, tctxVars, callVars, histVars
  <2> QED
    BY <2>1, <2>2, <2>3 DEF TypeOK
<1>2. CASE AwaitWorker
  <2>1. TsType'
    BY <1>2 DEF AwaitWorker, TsType, Threads
  <2>2. PcType'
    BY <1>2 DEF AwaitWorker, PcType, WorkerPcs, MainPcs
  <2>3. CopyType' /\ RingType' /\ TctxType' /\ CallType' /\ HistType'
    BY <1>2 DEF AwaitWorker, CopyType, RingType, TctxType, CallType, HistType,
         copyVars, ringVars, tctxVars, callVars, histVars
  <2> QED
    BY <2>1, <2>2, <2>3 DEF TypeOK
<1>3. CASE WorkerCreated
  <2>1. CopyType'
    BY <1>3, FrameFacts, NextWorkerType DEF WorkerCreated, CopyType, TctxType,
         Threads
  <2>2. TctxType'
    BY <1>3, FrameFacts DEF WorkerCreated, TctxType, CopyType, HistType,
         Frames
  <2>3. CallType'
    BY <1>3, PoolAssumption DEF WorkerCreated, CallType, TctxType, Workers
  <2>4. PcType'
    BY <1>3 DEF WorkerCreated, PcType, WorkerPcs, MainPcs
  <2>5. TsType' /\ RingType' /\ HistType'
    BY <1>3 DEF WorkerCreated, TsType, RingType, HistType, tsVars, ringVars,
         histVars
  <2> QED
    BY <2>1, <2>2, <2>3, <2>4, <2>5 DEF TypeOK
<1>4. CASE CloseLoop
  <2>1. CallType'
    BY <1>4, PoolAssumption DEF CloseLoop, CallType, CallCounts, TctxType, Workers
  <2>2. PcType'
    BY <1>4 DEF CloseLoop, PcType, WorkerPcs, MainPcs
  <2>3. TsType' /\ CopyType' /\ RingType' /\ TctxType' /\ HistType'
    BY <1>4 DEF CloseLoop, TsType, CopyType, RingType, TctxType, HistType,
         tsVars, copyVars, ringVars, tctxVars, histVars
  <2> QED
    BY <2>1, <2>2, <2>3 DEF TypeOK
<1>5. CASE Join
  <2>1. CallType'
    BY <1>5, PoolAssumption DEF Join, CallType, TctxType, Workers
  <2>2. PcType'
    BY <1>5 DEF Join, PcType, WorkerPcs, MainPcs
  <2>3. TsType' /\ CopyType' /\ RingType' /\ TctxType' /\ HistType'
    BY <1>5 DEF Join, TsType, CopyType, RingType, TctxType, HistType, tsVars,
         copyVars, ringVars, tctxVars, histVars
  <2> QED
    BY <2>1, <2>2, <2>3 DEF TypeOK
<1>6. CASE Close
  <2>1. CallType'
    BY <1>6, PoolAssumption DEF Close, CallType, TctxType, Workers
  <2>2. PcType'
    BY <1>6 DEF Close, PcType, WorkerPcs, MainPcs
  <2>3. TsType' /\ CopyType' /\ RingType' /\ TctxType' /\ HistType'
    BY <1>6 DEF Close, TsType, CopyType, RingType, TctxType, HistType, tsVars,
         copyVars, ringVars, tctxVars, histVars
  <2> QED
    BY <2>1, <2>2, <2>3 DEF TypeOK
<1>7. ASSUME NEW c \in Counts, Encode(c) PROVE TypeOK'
  <2>1. CallType'
    <3>1. ~Rejects(c, last_samples_count) => c \in CallCounts(Counts)
      BY <1>7, PoolAssumption DEF Rejects, CallCounts, A52_SAMPLES_PER_FRAME
    <3>2. count' \in CallCounts(Counts) /\ ret' \in {-1, 0, 1}
      BY <1>7, <3>1 DEF Encode, CallType
    <3> QED
      BY <1>7, <3>2 DEF Encode, CallType
  <2>2. PcType'
    BY <1>7 DEF Encode, PcType, WorkerPcs, MainPcs
  <2>3. TsType' /\ CopyType' /\ RingType' /\ TctxType' /\ HistType'
    BY <1>7 DEF Encode, TsType, CopyType, RingType, TctxType, HistType,
         tsVars, copyVars, ringVars, tctxVars, histVars
  <2> QED
    BY <2>1, <2>2, <2>3 DEF TypeOK
<1>8. ASSUME NEW w \in Workers, VisitAbort(w) PROVE TypeOK'
  <2>1. TsType'
    BY <1>8 DEF VisitAbort, AtWorker, TsType, Threads
  <2>2. RingType'
    BY <1>8, NextWorkerType DEF VisitAbort, AtWorker, RingType, CallType,
         LastCounts, CallCounts
  <2>3. TctxType'
    BY <1>8, FrameFacts DEF VisitAbort, AtWorker, TctxType, CopyType,
         HistType, Frames
  <2>4. CallType'
    BY <1>8, PoolAssumption DEF VisitAbort, AtWorker, CallType, TctxType,
         Workers
  <2>5. PcType'
    BY <1>8 DEF VisitAbort, AtWorker, PcType, WorkerPcs, MainPcs
  <2>6. CopyType' /\ HistType'
    BY <1>8 DEF VisitAbort, AtWorker, CopyType, HistType, copyVars, histVars
  <2> QED
    BY <2>1, <2>2, <2>3, <2>4, <2>5, <2>6 DEF TypeOK
<1>9. ASSUME NEW w \in Workers, VisitStart(w) PROVE TypeOK'
  <2>1. TsType'
    BY <1>9 DEF VisitStart, AtWorker, PrepareEncode, TsType, Threads
  <2>2. RingType'
    BY <1>9, NextWorkerType DEF VisitStart, AtWorker, PrepareEncode, RingType,
         CallType, LastCounts, CallCounts
  <2>3. TctxType'
    BY <1>9, FrameFacts DEF VisitStart, AtWorker, PrepareEncode, TctxType,
         CopyType, HistType, Frames
  <2>4. CallType'
    BY <1>9, PoolAssumption DEF VisitStart, AtWorker, PrepareEncode, CallType,
         TctxType, Workers
  <2>5. HistType'
    BY <1>9 DEF VisitStart, AtWorker, PrepareEncode, HistType, TctxType
  <2>6. PcType'
    BY <1>9 DEF VisitStart, AtWorker, PrepareEncode, PcType, WorkerPcs,
         MainPcs
  <2>7. CopyType'
    BY <1>9 DEF VisitStart, AtWorker, PrepareEncode, CopyType, copyVars
  <2> QED
    BY <2>1, <2>2, <2>3, <2>4, <2>5, <2>6, <2>7 DEF TypeOK
<1>10. ASSUME NEW w \in Workers, VisitDeliver(w) PROVE TypeOK'
  <2>1. TsType'
    BY <1>10 DEF VisitDeliver, AtWorker, PrepareEncode, TsType, Threads
  <2>2. RingType'
    BY <1>10, NextWorkerType DEF VisitDeliver, AtWorker, PrepareEncode,
         RingType, CallType, LastCounts, CallCounts
  <2>3. TctxType'
    BY <1>10, FrameFacts DEF VisitDeliver, AtWorker, PrepareEncode, TctxType,
         CopyType, HistType, Frames
  <2>4. CallType'
    BY <1>10, PoolAssumption DEF VisitDeliver, AtWorker, PrepareEncode,
         CallType, TctxType, Workers
  <2>5. HistType'
    BY <1>10 DEF VisitDeliver, AtWorker, PrepareEncode, HistType, TctxType
  <2>6. PcType'
    BY <1>10 DEF VisitDeliver, AtWorker, PrepareEncode, PcType, WorkerPcs,
         MainPcs
  <2>7. CopyType'
    BY <1>10 DEF VisitDeliver, AtWorker, PrepareEncode, CopyType, copyVars
  <2> QED
    BY <2>1, <2>2, <2>3, <2>4, <2>5, <2>6, <2>7 DEF TypeOK
<1>11. ASSUME NEW w \in Workers, VisitSkip(w) PROVE TypeOK'
  <2>1. RingType'
    BY <1>11, NextWorkerType DEF VisitSkip, AtWorker, PrepareEncode, Advance,
         RingType, CallType, LastCounts, CallCounts
  <2>2. TctxType'
    BY <1>11, FrameFacts DEF VisitSkip, AtWorker, PrepareEncode, Advance,
         TctxType, CopyType, HistType, Frames
  <2>3. CallType'
    BY <1>11, PoolAssumption DEF VisitSkip, AtWorker, PrepareEncode, Advance,
         CallType, TctxType, Workers
  <2>4. HistType'
    BY <1>11 DEF VisitSkip, AtWorker, PrepareEncode, Advance, HistType,
         TctxType
  <2>5. PcType'
    BY <1>11 DEF VisitSkip, AtWorker, PrepareEncode, Advance, PcType,
         WorkerPcs, MainPcs
  <2>6. TsType' /\ CopyType'
    BY <1>11 DEF VisitSkip, AtWorker, PrepareEncode, Advance, TsType,
         CopyType, tsVars, copyVars
  <2> QED
    BY <2>1, <2>2, <2>3, <2>4, <2>5, <2>6 DEF TypeOK
<1>12. ASSUME NEW w \in Workers, SignalWorker(w) PROVE TypeOK'
  <2>1. TsType'
    BY <1>12 DEF SignalWorker, Signalled, TsType, Threads
  <2>2. PcType'
    BY <1>12 DEF SignalWorker, Signalled, PcType, WorkerPcs, MainPcs
  <2>3. CopyType' /\ RingType' /\ TctxType' /\ CallType' /\ HistType'
    BY <1>12 DEF SignalWorker, Signalled, CopyType, RingType, TctxType,
         CallType, HistType, copyVars, ringVars, tctxVars, callVars, histVars
  <2> QED
    BY <2>1, <2>2, <2>3 DEF TypeOK
<1>13. ASSUME NEW w \in Workers, AwaitConfirm(w) PROVE TypeOK'
  <2>1. TsType'
    BY <1>13 DEF AwaitConfirm, TsType, Threads
  <2>2. PcType'
    BY <1>13 DEF AwaitConfirm, PcType, WorkerPcs, MainPcs
  <2>3. CopyType' /\ RingType' /\ TctxType' /\ CallType' /\ HistType'
    BY <1>13 DEF AwaitConfirm, CopyType, RingType, TctxType, CallType,
         HistType, copyVars, ringVars, tctxVars, callVars, histVars
  <2> QED
    BY <2>1, <2>2, <2>3 DEF TypeOK
<1>14. ASSUME NEW w \in Workers, Confirmed(w) PROVE TypeOK'
  <2>1. RingType'
    BY <1>14, NextWorkerType DEF Confirmed, Advance, RingType, CallType,
         LastCounts, CallCounts
  <2>2. PcType'
    BY <1>14 DEF Confirmed, Advance, PcType, WorkerPcs, MainPcs
  <2>3. TsType' /\ CopyType' /\ TctxType' /\ CallType' /\ HistType'
    BY <1>14 DEF Confirmed, Advance, TsType, CopyType, TctxType, CallType,
         HistType, tsVars, copyVars, tctxVars, callVars, histVars
  <2> QED
    BY <2>1, <2>2, <2>3 DEF TypeOK
<1>15. ASSUME NEW w \in Workers, WorkerStart(w) PROVE TypeOK'
  <2>1. RingType'
    BY <1>15, NextWorkerType DEF WorkerStart, RingType, CallType, LastCounts, CallCounts
  <2>2. PcType'
    BY <1>15 DEF WorkerStart, PcType, WorkerPcs, MainPcs
  <2>3. TsType' /\ CopyType' /\ TctxType' /\ CallType' /\ HistType'
    BY <1>15 DEF WorkerStart, TsType, CopyType, TctxType, CallType, HistType,
         tsVars, copyVars, tctxVars, callVars, histVars
  <2> QED
    BY <2>1, <2>2, <2>3 DEF TypeOK
<1>16. ASSUME NEW w \in Workers, WorkerHello(w) PROVE TypeOK'
  <2>1. TsType'
    BY <1>16 DEF WorkerHello, Signalled, TsType, Threads
  <2>2. PcType'
    BY <1>16 DEF WorkerHello, Signalled, PcType, WorkerPcs, MainPcs
  <2>3. CopyType' /\ RingType' /\ TctxType' /\ CallType' /\ HistType'
    BY <1>16 DEF WorkerHello, Signalled, CopyType, RingType, TctxType,
         CallType, HistType, copyVars, ringVars, tctxVars, callVars, histVars
  <2> QED
    BY <2>1, <2>2, <2>3 DEF TypeOK
<1>17. ASSUME NEW w \in Workers, WorkerWake(w) PROVE TypeOK'
  <2>1. TsType'
    BY <1>17 DEF WorkerWake, TsType, Threads
  <2>2. PcType'
    BY <1>17 DEF WorkerWake, PcType, WorkerPcs, MainPcs
  <2>3. CopyType' /\ RingType' /\ TctxType' /\ CallType' /\ HistType'
    BY <1>17 DEF WorkerWake, CopyType, RingType, TctxType, CallType, HistType,
         copyVars, ringVars, tctxVars, callVars, histVars
  <2> QED
    BY <2>1, <2>2, <2>3 DEF TypeOK
<1>18. ASSUME NEW w \in Workers, WorkerConfirm(w) PROVE TypeOK'
  <2>1. TsType'
    BY <1>18 DEF WorkerConfirm, Signalled, TsType, Threads
  <2>2. PcType'
    BY <1>18 DEF WorkerConfirm, Signalled, PcType, WorkerPcs, MainPcs
  <2>3. CopyType' /\ RingType' /\ TctxType' /\ CallType' /\ HistType'
    BY <1>18 DEF WorkerConfirm, Signalled, CopyType, RingType, TctxType,
         CallType, HistType, copyVars, ringVars, tctxVars, callVars, histVars
  <2> QED
    BY <2>1, <2>2, <2>3 DEF TypeOK
<1>19. ASSUME NEW w \in Workers, WorkerDispatch(w) PROVE TypeOK'
  <2>1. TctxType'
    BY <1>19, FrameFacts DEF WorkerDispatch, TctxType, CopyType, HistType,
         Frames
  <2>2. PcType'
    BY <1>19 DEF WorkerDispatch, PcType, WorkerPcs, MainPcs
  <2>3. TsType' /\ CopyType' /\ RingType' /\ CallType' /\ HistType'
    BY <1>19 DEF WorkerDispatch, TsType, CopyType, RingType, CallType,
         HistType, tsVars, copyVars, ringVars, callVars, histVars
  <2> QED
    BY <2>1, <2>2, <2>3 DEF TypeOK
<1>20. ASSUME NEW w \in Workers, WorkerTurn(w) PROVE TypeOK'
  <2>1. CopyType'
    BY <1>20, FrameFacts, NextWorkerType DEF WorkerTurn, CopyType, TctxType,
         Threads
  <2>2. PcType'
    BY <1>20 DEF WorkerTurn, PcType, WorkerPcs, MainPcs
  <2>3. TsType' /\ RingType' /\ TctxType' /\ CallType' /\ HistType'
    BY <1>20 DEF WorkerTurn, TsType, RingType, TctxType, CallType, HistType,
         tsVars, ringVars, tctxVars, callVars, histVars
  <2> QED
    BY <2>1, <2>2, <2>3 DEF TypeOK
<1>21. ASSUME NEW w \in Workers, WorkerCopy(w) PROVE TypeOK'
  <2>1. CopyType'
    BY <1>21, FrameFacts, NextWorkerType DEF WorkerCopy, SamplesBefore, Signalled, CopyType,
         TctxType, Threads
  <2>2. PcType'
    BY <1>21 DEF WorkerCopy, Signalled, PcType, WorkerPcs, MainPcs
  <2>3. TsType' /\ RingType' /\ TctxType' /\ CallType' /\ HistType'
    BY <1>21 DEF WorkerCopy, Signalled, TsType, RingType, TctxType, CallType,
         HistType, tsVars, ringVars, tctxVars, callVars, histVars
  <2> QED
    BY <2>1, <2>2, <2>3 DEF TypeOK
<1>22. ASSUME NEW w \in Workers, WorkerEncode(w) PROVE TypeOK'
  <2>1. TsType'
    BY <1>22 DEF WorkerEncode, TsType, Threads
  <2>2. TctxType'
    <3>1. <<frame[w], overlap[w]>> \in Frames
      BY DEF TctxType, CopyType, Frames
    <3> QED
      BY <1>22, <3>1 DEF WorkerEncode, TctxType
  <2>3. PcType'
    BY <1>22 DEF WorkerEncode, PcType, WorkerPcs, MainPcs
  <2>4. CopyType' /\ RingType' /\ CallType' /\ HistType'
    BY <1>22 DEF WorkerEncode, CopyType, RingType, CallType, HistType,
         copyVars, ringVars, callVars, histVars
  <2> QED
    BY <2>1, <2>2, <2>3, <2>4 DEF TypeOK
<1>23. ASSUME NEW w \in Workers, WorkerExit(w) PROVE TypeOK'
  <2>1. TsType'
    BY <1>23 DEF WorkerExit, TsType, Threads
  <2>2. PcType'
    BY <1>23 DEF WorkerExit, PcType, WorkerPcs, MainPcs
  <2>3. CopyType' /\ RingType' /\ TctxType' /\ CallType' /\ HistType'
    BY <1>23 DEF WorkerExit, CopyType, RingType, TctxType, CallType, HistType,
         copyVars, ringVars, tctxVars, callVars, histVars
  <2> QED
    BY <2>1, <2>2, <2>3 DEF TypeOK
<1>24. ASSUME NEW w \in Workers, Spurious(w) PROVE TypeOK'
  <2>1. TsType'
    BY <1>24 DEF Spurious, TsType, Threads
  <2>2. CopyType'
    BY <1>24, FrameFacts, NextWorkerType DEF Spurious, CopyType, TctxType,
         Threads
  <2>3. RingType' /\ TctxType' /\ CallType' /\ HistType' /\ PcType'
    BY <1>24 DEF Spurious, RingType, TctxType, CallType, HistType, PcType,
         ringVars, tctxVars, callVars, histVars
  <2> QED
    BY <2>1, <2>2, <2>3 DEF TypeOK
<1>25. CASE UNCHANGED vars
  BY <1>25 DEF vars, tsVars, copyVars, ringVars, tctxVars, callVars, histVars,
       TypeOK, TsType, CopyType, RingType, TctxType, CallType, HistType,
       PcType
<1> QED
  BY <1>1, <1>2, <1>3, <1>4, <1>5, <1>6, <1>7, <1>8, <1>9, <1>10, <1>11,
       <1>12, <1>13, <1>14, <1>15, <1>16, <1>17, <1>18, <1>19, <1>20, <1>21,
       <1>22, <1>23, <1>24, <1>25 DEF Next, MainStep, Visit, WorkerStep,
       Application, Finished

\* The variables of WorkerPool keep their types in every behaviour.
THEOREM TypeCorrect == Spec => []TypeOK
  BY TypeInit, TypeInductive, PTL DEF Spec

-----------------------------------------------------------------------------
(* Mutual exclusion.                                                       *)

\* No mutex is held before the first thread is created.
LEMMA MutexInit == Init => MutexInv
  BY DEF Init, MutexInv, Active, Main, None, Workers

\* Every step keeps the mutexes with the threads whose code holds them.
LEMMA MutexInductive == TypeOK /\ MutexInv /\ [Next]_vars => MutexInv'
<1> SUFFICES ASSUME TsType, CopyType, RingType, CallType, PcType, MutexInv,
                    [Next]_vars
             PROVE  MutexInv'
  BY DEF TypeOK
<1> USE DEF MutexInv, Active, Main, None, Workers, TsType, CopyType, RingType,
            CallType, PcType
<1>1. CASE CreateWorker
  BY <1>1 DEF CreateWorker, tsVars, copyVars, ringVars, callVars
<1>2. CASE AwaitWorker
  BY <1>2 DEF AwaitWorker, tsVars, copyVars, ringVars, callVars
<1>3. CASE WorkerCreated
  BY <1>3 DEF WorkerCreated, tsVars, copyVars, ringVars, callVars
<1>4. CASE CloseLoop
  BY <1>4 DEF CloseLoop, tsVars, copyVars, ringVars, callVars
<1>5. CASE Join
  BY <1>5 DEF Join, tsVars, copyVars, ringVars, callVars
<1>6. CASE Close
  BY <1>6 DEF Close, tsVars, copyVars, ringVars, callVars
<1>7. ASSUME NEW c \in Counts, Encode(c) PROVE MutexInv'
  BY <1>7 DEF Encode, tsVars, copyVars, ringVars, callVars
<1>8. ASSUME NEW w \in Workers, VisitAbort(w) PROVE MutexInv'
  BY <1>8 DEF VisitAbort, AtWorker, tsVars, copyVars, ringVars, callVars
<1>9. ASSUME NEW w \in Workers, VisitStart(w) PROVE MutexInv'
  BY <1>9 DEF VisitStart, AtWorker, PrepareEncode, tsVars, copyVars, ringVars,
       callVars
<1>10. ASSUME NEW w \in Workers, VisitDeliver(w) PROVE MutexInv'
  BY <1>10 DEF VisitDeliver, AtWorker, PrepareEncode, tsVars, copyVars,
       ringVars, callVars
<1>11. ASSUME NEW w \in Workers, VisitSkip(w) PROVE MutexInv'
  BY <1>11 DEF VisitSkip, AtWorker, PrepareEncode, Advance, tsVars, copyVars,
       ringVars, callVars
<1>12. ASSUME NEW w \in Workers, SignalWorker(w) PROVE MutexInv'
  BY <1>12 DEF SignalWorker, Signalled, tsVars, copyVars, ringVars, callVars
<1>13. ASSUME NEW w \in Workers, AwaitConfirm(w) PROVE MutexInv'
  BY <1>13 DEF AwaitConfirm, tsVars, copyVars, ringVars, callVars
<1>14. ASSUME NEW w \in Workers, Confirmed(w) PROVE MutexInv'
  BY <1>14 DEF Confirmed, Advance, tsVars, copyVars, ringVars, callVars
<1>15. ASSUME NEW w \in Workers, WorkerStart(w) PROVE MutexInv'
  BY <1>15 DEF WorkerStart, tsVars, copyVars, ringVars, callVars
<1>16. ASSUME NEW w \in Workers, WorkerHello(w) PROVE MutexInv'
  BY <1>16 DEF WorkerHello, Signalled, tsVars, copyVars, ringVars, callVars
<1>17. ASSUME NEW w \in Workers, WorkerWake(w) PROVE MutexInv'
  BY <1>17 DEF WorkerWake, tsVars, copyVars, ringVars, callVars
<1>18. ASSUME NEW w \in Workers, WorkerConfirm(w) PROVE MutexInv'
  BY <1>18 DEF WorkerConfirm, Signalled, tsVars, copyVars, ringVars, callVars
<1>19. ASSUME NEW w \in Workers, WorkerDispatch(w) PROVE MutexInv'
  <2>1. /\ wpc[w] = "dispatch"
        /\ \E q \in {"exit", "turn"} : wpc' = [wpc EXCEPT ![w] = q]
    BY <1>19 DEF WorkerDispatch
  <2>2. UNCHANGED <<enter_mutex, samples_mutex, mpc, idx, current_thread_num>>
    BY <1>19 DEF WorkerDispatch, tsVars, copyVars, ringVars, callVars
  <2> QED
    BY <2>1, <2>2
<1>20. ASSUME NEW w \in Workers, WorkerTurn(w) PROVE MutexInv'
  <2>1. UNCHANGED <<enter_mutex, mpc, idx, current_thread_num>>
    BY <1>20 DEF WorkerTurn, tsVars, copyVars, ringVars, callVars
  <2>2. CASE samples_thread_num = w
    <3>1. /\ wpc[w] = "turn" /\ wpc' = [wpc EXCEPT ![w] = "copy"]
          /\ samples_mutex = None /\ samples_mutex' = w
      BY <1>20, <2>2 DEF WorkerTurn
    <3> QED
      BY <2>1, <3>1
  <2>3. CASE samples_thread_num # w
    <3>1. UNCHANGED <<samples_mutex, wpc>>
      BY <1>20, <2>3 DEF WorkerTurn
    <3> QED
      BY <2>1, <3>1
  <2> QED
    BY <2>2, <2>3
<1>21. ASSUME NEW w \in Workers, WorkerCopy(w) PROVE MutexInv'
  BY <1>21 DEF WorkerCopy, Signalled, tsVars, copyVars, ringVars, callVars
<1>22. ASSUME NEW w \in Workers, WorkerEncode(w) PROVE MutexInv'
  BY <1>22 DEF WorkerEncode, tsVars, copyVars, ringVars, callVars
<1>23. ASSUME NEW w \in Workers, WorkerExit(w) PROVE MutexInv'
  BY <1>23 DEF WorkerExit, tsVars, copyVars, ringVars, callVars
<1>24. ASSUME NEW w \in Workers, Spurious(w) PROVE MutexInv'
  BY <1>24 DEF Spurious, tsVars, copyVars, ringVars, callVars
<1>25. CASE UNCHANGED vars
  BY <1>25 DEF vars, tsVars, copyVars, ringVars, callVars
<1> QED
  BY <1>1, <1>2, <1>3, <1>4, <1>5, <1>6, <1>7, <1>8, <1>9, <1>10, <1>11,
       <1>12, <1>13, <1>14, <1>15, <1>16, <1>17, <1>18, <1>19, <1>20, <1>21,
       <1>22, <1>23, <1>24, <1>25 DEF Next, MainStep, Visit, WorkerStep,
       Application, Finished

\* In every behaviour, with any number of threads and any spurious wake-ups, a
\* worker's context has one user at a time.
THEOREM ContextIsExclusive == Spec => []ContextExclusive
<1>1. TypeOK /\ MutexInv => ContextExclusive
  BY DEF TypeOK, TsType, RingType, MutexInv, ContextExclusive, Active, Main, Workers
<1> QED
  BY TypeInit, TypeInductive, MutexInit, MutexInductive, <1>1, PTL DEF Spec

\* In every behaviour at most one worker copies samples at a time.
THEOREM CopyIsExclusive == Spec => []CopyExclusive
<1>1. MutexInv => CopyExclusive
  BY DEF MutexInv, CopyExclusive
<1> QED
  BY TypeInit, TypeInductive, MutexInit, MutexInductive, <1>1, PTL DEF Spec

-----------------------------------------------------------------------------
(* The inductive invariant of the ring: which workers still run, which     *)
(* frame each of them has, who is awake and why, and how far copy_samples  *)
(* has come.  It holds for every number of threads, every set of counts,   *)
(* any number of frames and any pattern of failures, provided that the     *)
(* waits on enter_cond and confirm_cond, which the code does not repeat,   *)
(* return only when they are signalled.                                    *)


\* The waits of the hand-over return only when signalled.  The wait for a turn
\* to copy tests its condition again, so it may return at any time.
HandoverNotSpurious == SpuriousOn \subseteq {"samples"}

\* aften_encode_init is still creating threads.
Starting == mpc \in {"create", "greet", "created"}

-----------------------------------------------------------------------------
(* The ring, seen from the worker that Main visits next.                   *)

First == IF Visiting THEN Next_(current_thread_num) ELSE current_thread_num

\* How many visits come before the one of worker w.
Pos(w) == IF w >= First THEN w - First ELSE w - First + N

\* The workers that are not retired are the first ones.
Running(w) == Pos(w) < threads_running

\* The number of the frame that the ring's order gives worker w: not positive
\* when it has had none yet.
FrameDue(w) ==
    submitted - threads_running + 1 + Pos(w) - (IF Running(w) THEN 0 ELSE N)

\* Worker w has been signalled and has not confirmed it yet.
Called(w) == wpc[w] = "confirm" \/ (wpc[w] = "asleep" /\ w \notin enter_cond[w])

\* Main has told worker w what to do and the worker has not begun with it.
Woken(w) ==
    (mpc = "signal" /\ current_thread_num = w) \/ Called(w) \/ wpc[w] = "dispatch"

\* Worker w has a frame that copy_samples has not seen.
Pending(w) == state[w] = "WORK" /\ (Woken(w) \/ wpc[w] \in {"turn", "copy"})

\* The frames that copy_samples has seen.
Copied == IF last_samples = NoFrame THEN 0 ELSE last_samples

\* What the overlap of frame k should be.
Before(k) == IF k = 1 THEN FirstOverlap ELSE k - 1

-----------------------------------------------------------------------------
(* The parts of the invariant.                                             *)

\* While threads are created: those before idx sleep, those after it do not
\* exist, and nothing else has happened.
StartInv ==
    Starting =>
        /\ current_thread_num = 0 /\ threads_to_abort = 0
        /\ submitted = 0 /\ delivered = <<>>
        /\ last_samples_count = NoCallYet /\ last_samples = NoFrame
        /\ samples_thread_num = 0
        /\ closing = FALSE /\ close_ret = 0 /\ ret = 0
        /\ threads_running = idx + (IF wpc[idx] \in {"hello", "asleep"} THEN 1 ELSE 0)
        /\ \A w \in Workers :
             /\ state[w] = "START" /\ framesize[w] = 0
             /\ confirm_mutex[w] = None /\ confirm_cond[w] = {}
             /\ w < idx => wpc[w] = "asleep" /\ enter_cond[w] = {w}
             /\ w > idx => wpc[w] = "unborn" /\ enter_cond[w] = {}
        /\ mpc = "create" => wpc[idx] = "unborn" /\ enter_cond[idx] = {}
        /\ mpc = "greet" => wpc[idx] \in {"start", "hello"} /\ enter_cond[idx] = {}
        /\ mpc = "created" =>
             \/ wpc[idx] \in {"start", "hello"} /\ enter_cond[idx] = {Main}
             \/ wpc[idx] = "asleep" /\ enter_cond[idx] = {idx}

\* The hand-over of a worker: who sleeps on which of its conditions.
Handshake(w) ==
    /\ wpc[w] \notin {"unborn", "start", "hello"}
    /\ enter_cond[w] \subseteq {w}
    /\ w \in enter_cond[w] => wpc[w] = "asleep"
    /\ mpc = "signal" /\ current_thread_num = w => w \in enter_cond[w]
    /\ Called(w) => mpc \in {"await", "confirm"} /\ current_thread_num = w
    /\ mpc = "await" /\ current_thread_num = w => Called(w)
    /\ confirm_mutex[w] = IF mpc = "await" /\ current_thread_num = w THEN Main ELSE None
    /\ confirm_cond[w] =
         IF mpc = "confirm" /\ current_thread_num = w /\ Called(w) THEN {Main} ELSE {}

HandshakeInv == ~Starting => \A w \in Workers : Handshake(w)

\* A failure has been noticed, and its last worker told to stop.
AllAborted == threads_running = 0 /\ \E w \in Workers : state[w] = "ABORT"

\* The counters of the ring.
CountInv ==
    ~Starting =>
        /\ threads_running \in 0 .. N
        /\ threads_to_abort \in {0, threads_running}
        /\ threads_to_abort # 0 => mpc = "visit" \/ Visiting
        /\ mpc = "visit" => threads_running # 0
        /\ threads_running < N =>
             Drained(last_samples_count) \/ threads_to_abort # 0 \/ AllAborted

\* A worker's state: the frame of a running one is the one that is due.
InRing(w) ==
    IF Running(w)
      THEN /\ state[w] # "END" /\ (state[w] = "ABORT" => EncodeFails)
           /\ state[w] = "START" <=> FrameDue(w) <= 0
           /\ state[w] # "START" => frame[w] = FrameDue(w)
      ELSE /\ state[w] \in {"END", "ABORT"}
           /\ state[w] = "ABORT" => threads_to_abort # 0 \/ threads_running = 0

RingInv == ~Starting => \A w \in Workers : InRing(w)

\* What a worker does agrees with its state, and it ends only when retired.
Obeys(w) ==
    /\ wpc[w] \in {"turn", "copy", "encode"} => state[w] = "WORK"
    /\ wpc[w] \in {"exit", "done"} => ~Running(w)
    /\ Woken(w) => state[w] # "START" /\ (state[w] = "ABORT" => ~Running(w))
    /\ state[w] = "START" => framesize[w] = 0

StateInv == ~Starting => \A w \in Workers : Obeys(w)

\* How far the copies have come, and whose turn is next.
TurnInv ==
    ~Starting =>
        /\ Copied \in 0 .. submitted
        /\ last_samples = IF Copied = 0 THEN FirstOverlap ELSE Copied
        /\ FrameDue(samples_thread_num) =
             IF Copied < submitted THEN Copied + 1 ELSE submitted + 1 - N

\* The frames not yet copied are those of the workers that are about to; what
\* was copied, and then encoded, is the frame with its predecessor's samples.
Overlapped(w) ==
    /\ Pending(w) <=> FrameDue(w) > Copied
    /\ wpc[w] = "copy" => samples_thread_num = w
    /\ wpc[w] = "encode" => overlap[w] = Before(frame[w])
    /\ state[w] = "WORK" /\ ~Pending(w) /\ wpc[w] # "encode" =>
         framesize[w] = 1 /\ frame_buffer[w] = <<frame[w], Before(frame[w])>>

CopyInv == ~Starting => \A w \in Workers : Overlapped(w)

\* Nothing has been aborted or dropped so far.
AllKept == close_ret = 0 /\ \A w \in Workers : Running(w) \/ state[w] = "END"

\* Then everything that has left the ring was delivered.
DeliverInv ==
    ~Starting =>
        /\ AllKept => Len(delivered) = IF submitted > threads_running
                                         THEN submitted - threads_running ELSE 0
        /\ closing /\ (mpc = "visit" \/ Visiting) => close_ret = -1

\* The call in progress, and what it is going to return.
CallInv ==
    /\ mpc \in {"closing", "join", "closed"} => closing
    /\ mpc \in {"join", "closed"} => threads_running = 0
    /\ mpc = "idle" => ~closing
    /\ mpc = "visit" /\ threads_to_abort = 0 =>
         IF closing THEN count = 0
         ELSE count \in Counts /\ ~Rejects(count, last_samples_count)
    /\ threads_to_abort # 0 => ret = -1
    /\ Visiting /\ ret = -1 => threads_to_abort # 0 \/ AllAborted

IInv ==
    /\ TypeOK /\ MutexInv
    /\ StartInv /\ HandshakeInv /\ CountInv /\ RingInv /\ StateInv
    /\ TurnInv /\ CopyInv /\ DeliverInv /\ CallInv

-----------------------------------------------------------------------------
(* The arithmetic of the ring.                                             *)

\* The worker visited next, without the modulus.
LEMMA FirstType ==
    ASSUME TypeOK
    PROVE  First \in Workers
  BY NextWorkerType DEF TypeOK, RingType, First

\* Positions number the workers from 0 to N - 1, starting with the first.
LEMMA PosFacts ==
    ASSUME TypeOK
    PROVE  /\ \A w \in Workers : Pos(w) \in 0 .. N - 1
           /\ \A v, w \in Workers : Pos(v) = Pos(w) => v = w
           /\ \A w \in Workers : Pos(w) = 0 <=> w = First
           /\ \A w \in Workers : Pos(Next_(w)) = IF Pos(w) = N - 1 THEN 0 ELSE Pos(w) + 1
<1>1. First \in 0 .. N - 1 /\ N \in Nat /\ N > 1
  BY FirstType, PoolAssumption DEF Workers
<1>2. \A w \in Workers : Next_(w) = IF w = N - 1 THEN 0 ELSE w + 1
  BY NextWorker
<1> QED
  BY <1>1, <1>2 DEF Pos, Workers

\* A step that moves neither Main's place nor the counts moves no worker.
LEMMA RingStays ==
    ASSUME First' = First, UNCHANGED <<threads_running, submitted>>
    PROVE  \A w : /\ Pos(w)' = Pos(w) /\ Running(w)' = Running(w)
                  /\ FrameDue(w)' = FrameDue(w)
  BY DEF Pos, Running, FrameDue

\* Retiring the first worker makes it the last, and leaves every frame's
\* number as it was.
LEMMA RingRetires ==
    ASSUME TypeOK, First' = Next_(First), threads_running \in 1 .. N,
           threads_running' = threads_running - 1, submitted' = submitted
    PROVE  \A w \in Workers : /\ Running(w)' <=> Running(w) /\ w # First
                              /\ FrameDue(w)' = FrameDue(w)
<1>1. First \in 0 .. N - 1 /\ N \in Nat /\ N > 1
  BY FirstType, PoolAssumption DEF Workers
<1>2. First' = IF First = N - 1 THEN 0 ELSE First + 1
  BY FirstType, NextWorker
<1>3. submitted \in Nat
  BY DEF TypeOK, HistType
<1> QED
  BY <1>1, <1>2, <1>3 DEF Pos, Running, FrameDue, Workers

\* Giving the first worker a frame makes it the last, with that frame's number.
LEMMA RingFeeds ==
    ASSUME TypeOK, First' = Next_(First), threads_running = N,
           threads_running' = N, submitted' = submitted + 1
    PROVE  \A w \in Workers :
             /\ Running(w) /\ Running(w)'
             /\ FrameDue(w)' = IF w = First THEN submitted + 1 ELSE FrameDue(w)
<1>1. First \in 0 .. N - 1 /\ N \in Nat /\ N > 1
  BY FirstType, PoolAssumption DEF Workers
<1>2. First' = IF First = N - 1 THEN 0 ELSE First + 1
  BY FirstType, NextWorker
<1>3. submitted \in Nat
  BY DEF TypeOK, HistType
<1> QED
  BY <1>1, <1>2, <1>3 DEF Pos, Running, FrameDue, Workers

\* The numbers due are N consecutive ones, one for each worker, the latest
\* being the last one submitted.
LEMMA DueFacts ==
    ASSUME TypeOK, threads_running \in 0 .. N
    PROVE  /\ \A w \in Workers : FrameDue(w) \in (submitted + 1 - N) .. submitted
           /\ \A v, w \in Workers : FrameDue(v) = FrameDue(w) => v = w
           /\ \A w \in Workers : Running(w) <=> FrameDue(w) > submitted - threads_running
           /\ Running(First) => FrameDue(First) = submitted + 1 - threads_running
           /\ \A w \in Workers :
                FrameDue(Next_(w)) = IF FrameDue(w) = submitted THEN submitted + 1 - N
                                     ELSE FrameDue(w) + 1
<1>1. N \in Nat /\ N > 1 /\ submitted \in Nat /\ First \in Workers
  BY FirstType, PoolAssumption DEF TypeOK, HistType
<1>2. \A w \in Workers : Next_(w) \in Workers
  BY NextWorkerType
<1> QED
  BY <1>1, <1>2, PosFacts DEF Running, FrameDue

-----------------------------------------------------------------------------
(* aften_encode_init.                                                      *)

\* Before the first thread is created nothing has happened.
LEMMA InvInit == Init => IInv
<1> SUFFICES ASSUME Init PROVE IInv
  OBVIOUS
<1>1. TypeOK /\ MutexInv
  BY TypeInit, MutexInit
<1>2. Starting /\ mpc = "create" /\ idx = 0 /\ idx \in Workers
  BY FrameFacts DEF Init, Starting
<1>3. StartInv
  BY <1>2 DEF Init, StartInv, Workers
<1>4. HandshakeInv /\ CountInv /\ RingInv /\ StateInv /\ TurnInv /\ CopyInv /\ DeliverInv
  BY <1>2 DEF HandshakeInv, CountInv, RingInv, StateInv, TurnInv, CopyInv, DeliverInv
<1>5. CallInv
  BY DEF Init, CallInv, Visiting
<1> QED
  BY <1>1, <1>3, <1>4, <1>5 DEF IInv

\* As long as threads are being created only StartInv says anything.
LEMMA StillStarting ==
    ASSUME StartInv', Starting', TypeOK', MutexInv'
    PROVE  IInv'
<1>1. /\ HandshakeInv' /\ CountInv' /\ RingInv' /\ StateInv' /\ TurnInv'
      /\ CopyInv' /\ DeliverInv'
  BY DEF HandshakeInv, CountInv, RingInv, StateInv, TurnInv, CopyInv, DeliverInv
<1>2. CallInv'
  BY DEF StartInv, CallInv, Starting, Visiting
<1> QED
  BY <1>1, <1>2 DEF IInv

\* Main locks a new worker's enter_mutex and creates it.
LEMMA CreateStep ==
    ASSUME IInv, CreateWorker, TypeOK', MutexInv'
    PROVE  IInv'
<1>1. StartInv /\ Starting /\ idx \in Workers /\ wpc \in [Workers -> WorkerPcs]
  BY DEF IInv, CreateWorker, Starting, TypeOK, CallType, PcType
<1>2. /\ mpc = "create" /\ mpc' = "greet" /\ wpc' = [wpc EXCEPT ![idx] = "start"]
      /\ UNCHANGED <<enter_cond, confirm_cond, confirm_mutex, current_thread_num,
                     threads_to_abort, threads_running, submitted, delivered,
                     last_samples_count, last_samples, samples_thread_num, closing,
                     close_ret, ret, idx, state, framesize>>
  BY DEF CreateWorker, copyVars, ringVars, tctxVars, callVars, histVars
<1>3. Starting'
  BY <1>2 DEF Starting
<1>4. StartInv'
  BY <1>1, <1>2 DEF StartInv, Workers
<1> QED
  BY <1>3, <1>4, StillStarting

\* Main goes to sleep until the new worker greets it.
LEMMA AwaitStep ==
    ASSUME IInv, AwaitWorker, TypeOK', MutexInv'
    PROVE  IInv'
<1>1. StartInv /\ Starting /\ idx \in Workers /\ enter_cond \in [Workers -> SUBSET Threads]
  BY DEF IInv, AwaitWorker, Starting, TypeOK, CallType, TsType
<1>2. /\ mpc = "greet" /\ mpc' = "created"
      /\ enter_cond' = [enter_cond EXCEPT ![idx] = enter_cond[idx] \cup {Main}]
      /\ UNCHANGED <<wpc, confirm_cond, confirm_mutex, current_thread_num,
                     threads_to_abort, threads_running, submitted, delivered,
                     last_samples_count, last_samples, samples_thread_num, closing,
                     close_ret, ret, idx, state, framesize>>
  BY DEF AwaitWorker, copyVars, ringVars, tctxVars, callVars, histVars
<1>3. Starting'
  BY <1>2 DEF Starting
<1>4. StartInv'
  BY <1>1, <1>2 DEF StartInv, Workers
<1> QED
  BY <1>3, <1>4, StillStarting

\* A new worker counts itself.
LEMMA WorkerStartStep ==
    ASSUME IInv, NEW w \in Workers, WorkerStart(w), TypeOK', MutexInv'
    PROVE  IInv'
<1>1. StartInv /\ HandshakeInv /\ idx \in Workers /\ wpc \in [Workers -> WorkerPcs]
  BY DEF IInv, TypeOK, CallType, PcType
<1>2. /\ wpc[w] = "start" /\ wpc' = [wpc EXCEPT ![w] = "hello"]
      /\ threads_running' = threads_running + 1
      /\ UNCHANGED <<mpc, enter_cond, confirm_cond, confirm_mutex, current_thread_num,
                     threads_to_abort, submitted, delivered,
                     last_samples_count, last_samples, samples_thread_num, closing,
                     close_ret, ret, idx, state, framesize>>
  BY DEF WorkerStart, tsVars, copyVars, ringVars, tctxVars, callVars, histVars
<1>3. Starting
  BY <1>1, <1>2 DEF HandshakeInv, Handshake
<1>4. Starting'
  BY <1>2, <1>3 DEF Starting
<1>5. w = idx
  BY <1>1, <1>2, <1>3 DEF StartInv, Workers
<1>6. StartInv'
  BY <1>1, <1>2, <1>3, <1>5 DEF StartInv, Workers
<1> QED
  BY <1>4, <1>6, StillStarting

\* A new worker greets Main and goes to sleep.
LEMMA WorkerHelloStep ==
    ASSUME IInv, NEW w \in Workers, WorkerHello(w), TypeOK', MutexInv'
    PROVE  IInv'
<1>1. /\ StartInv /\ HandshakeInv /\ MutexInv /\ idx \in Workers
      /\ wpc \in [Workers -> WorkerPcs] /\ enter_cond \in [Workers -> SUBSET Threads]
  BY DEF IInv, TypeOK, CallType, PcType, TsType
<1>2. PICK rest \in Signalled(enter_cond[w]) :
        /\ wpc[w] = "hello" /\ wpc' = [wpc EXCEPT ![w] = "asleep"]
        /\ enter_mutex[w] = None
        /\ enter_cond' = [enter_cond EXCEPT ![w] = rest \cup {w}]
        /\ UNCHANGED <<mpc, threads_running, confirm_cond, confirm_mutex,
                       current_thread_num, threads_to_abort, submitted, delivered,
                       last_samples_count, last_samples, samples_thread_num, closing,
                       close_ret, ret, idx, state, framesize>>
  BY DEF WorkerHello, copyVars, ringVars, tctxVars, callVars, histVars
<1>3. Starting
  BY <1>1, <1>2 DEF HandshakeInv, Handshake
<1>4. Starting'
  BY <1>2, <1>3 DEF Starting
<1>5. w = idx
  BY <1>1, <1>2, <1>3 DEF StartInv, Workers
<1>6. mpc = "created" /\ enter_cond[w] = {Main}
  BY <1>1, <1>2, <1>3, <1>5 DEF StartInv, Starting, MutexInv, Main, None
<1>7. rest = {}
  BY <1>2, <1>6 DEF Signalled
<1>8. StartInv'
  BY <1>1, <1>2, <1>3, <1>5, <1>6, <1>7 DEF StartInv, Workers
<1> QED
  BY <1>4, <1>8, StillStarting

\* The last worker is asleep: the pool is ready, all its workers are running and
\* none has had a frame.
LEMMA ReadyStep ==
    ASSUME IInv, WorkerCreated, TypeOK', MutexInv', idx = N - 1
    PROVE  IInv'
<1>1. /\ StartInv /\ Starting /\ mpc = "created" /\ idx \in Workers
      /\ frame \in [Workers -> FrameNo] /\ overlap \in [Workers -> FrameNo]
      /\ N \in Nat /\ N > 1
  BY PoolAssumption DEF IInv, WorkerCreated, Starting, TypeOK, CallType, TctxType, CopyType
<1>2. Main \notin enter_cond[idx]
  BY DEF WorkerCreated
<1>3. wpc[idx] = "asleep" /\ enter_cond[idx] = {idx}
  BY <1>1, <1>2 DEF StartInv
<1>4. \A w \in Workers : wpc[w] = "asleep" /\ enter_cond[w] = {w}
  BY <1>1, <1>3 DEF StartInv, Workers
<1>5. /\ mpc' = "idle"
      /\ last_samples' = FirstOverlap
      /\ UNCHANGED <<wpc, enter_cond, threads_running, confirm_cond, confirm_mutex,
                     current_thread_num, threads_to_abort, submitted, delivered,
                     last_samples_count, samples_thread_num, closing,
                     close_ret, ret, state, framesize>>
  BY <1>1 DEF WorkerCreated, tsVars, ringVars, callVars, histVars, StartInv, FirstOverlap
<1>6. ~Starting' /\ ~Visiting'
  BY <1>5 DEF Starting, Visiting
<1>7. /\ threads_running' = N /\ submitted' = 0 /\ First' = 0 /\ samples_thread_num' = 0
      /\ Copied' = 0 /\ 0 \in Workers
  BY <1>1, <1>3, <1>5, <1>6, FrameFacts
     DEF StartInv, First, Visiting, Copied, FirstOverlap, NoFrame
<1>8. \A w \in Workers : Running(w)' /\ Pos(w)' = w /\ FrameDue(w)' = 1 - N + w
                         /\ FrameDue(w)' <= 0 /\ ~(FrameDue(w)' > 0)
  BY <1>1, <1>7 DEF Running, Pos, FrameDue, Workers
<1>9. \A w \in Workers : ~Called(w)' /\ ~Woken(w)' /\ ~Pending(w)'
                         /\ wpc'[w] = "asleep" /\ state'[w] = "START"
  BY <1>1, <1>4, <1>5 DEF Called, Woken, Pending, StartInv
<1>10. StartInv'
  BY <1>6 DEF StartInv
<1>11. HandshakeInv'
  BY <1>1, <1>4, <1>5, <1>6, <1>9 DEF HandshakeInv, Handshake, StartInv
<1>12. CountInv'
  BY <1>1, <1>5, <1>6, <1>7 DEF CountInv, StartInv
<1>13. RingInv'
  BY <1>8, <1>9 DEF RingInv, InRing
<1>14. StateInv'
  BY <1>1, <1>5, <1>9 DEF StateInv, Obeys, StartInv
<1>15. TurnInv'
  BY <1>1, <1>5, <1>7, <1>8 DEF TurnInv
<1>16. CopyInv'
  BY <1>7, <1>8, <1>9 DEF CopyInv, Overlapped
<1>17. DeliverInv'
  BY <1>1, <1>5, <1>6, <1>7 DEF DeliverInv, StartInv
<1>18. CallInv'
  BY <1>1, <1>5, <1>6 DEF CallInv, StartInv
<1> QED
  BY <1>10, <1>11, <1>12, <1>13, <1>14, <1>15, <1>16, <1>17, <1>18 DEF IInv

\* A worker is asleep: Main creates the next.
LEMMA CreatedStep ==
    ASSUME IInv, WorkerCreated, TypeOK', MutexInv'
    PROVE  IInv'
<1>1. CASE idx = N - 1
  BY <1>1, ReadyStep
<1>2. CASE idx # N - 1
  <2>1. /\ StartInv /\ Starting /\ mpc = "created" /\ idx \in Workers
        /\ N \in Nat /\ N > 1
    BY PoolAssumption DEF IInv, WorkerCreated, Starting, TypeOK, CallType
  <2>2. Main \notin enter_cond[idx] /\ idx < N - 1
    BY <1>2, <2>1 DEF WorkerCreated, Workers
  <2>3. wpc[idx] = "asleep" /\ enter_cond[idx] = {idx}
    BY <2>1, <2>2 DEF StartInv
  <2>4. /\ mpc' = "create" /\ idx' = idx + 1
        /\ UNCHANGED <<wpc, enter_cond, threads_running, confirm_cond, confirm_mutex,
                       current_thread_num, threads_to_abort, submitted, delivered,
                       last_samples_count, last_samples, samples_thread_num, closing,
                       close_ret, ret, state, framesize>>
    BY <2>2 DEF WorkerCreated, tsVars, ringVars, callVars, histVars
  <2>5. Starting'
    BY <2>4 DEF Starting
  <2>6. StartInv'
    BY <2>1, <2>2, <2>3, <2>4 DEF StartInv, Workers
  <2> QED
    BY <2>5, <2>6, StillStarting
<1> QED
  BY <1>1, <1>2

-----------------------------------------------------------------------------
(* threaded_worker, once the pool is ready.                                *)

\* Until then the workers that exist only greet Main and sleep.
LEMMA OnlyGreetings ==
    ASSUME IInv, Starting, NEW w \in Workers
    PROVE  /\ wpc[w] \in {"unborn", "start", "hello", "asleep"}
           /\ wpc[w] = "asleep" => w \in enter_cond[w]
<1>1. StartInv /\ idx \in Workers
  BY DEF IInv, TypeOK, CallType
<1> QED
  BY <1>1 DEF StartInv, Starting, Workers

\* A step that leaves Main, the ring and the states alone disturbs nothing but
\* the hand-over and the copies.
LEMMA QuietStep ==
    ASSUME IInv, ~Starting,
           UNCHANGED <<mpc, ringVars, state, frame, histVars, callVars>>
    PROVE  /\ ~Starting' /\ First' = First
           /\ StartInv' /\ CountInv' /\ RingInv' /\ DeliverInv' /\ CallInv'
<1>1. UNCHANGED <<mpc, current_thread_num, threads_to_abort, threads_running,
                  last_samples_count, state, frame, submitted, delivered, closing,
                  close_ret, ret, count>>
  BY DEF ringVars, histVars, callVars
<1>2. ~Starting' /\ Starting' = Starting /\ Visiting' = Visiting /\ First' = First
      /\ AllAborted' = AllAborted
  BY <1>1 DEF Starting, Visiting, First, AllAborted
<1>3. \A w : InRing(w)' = InRing(w) /\ Running(w)' = Running(w)
  BY <1>1, <1>2, RingStays DEF InRing
<1>4. AllKept' = AllKept
  BY <1>1, <1>3 DEF AllKept
<1>5. StartInv'
  BY <1>2 DEF StartInv
<1>6. CountInv'
  BY <1>1, <1>2 DEF IInv, CountInv
<1>7. RingInv'
  BY <1>2, <1>3 DEF IInv, RingInv
<1>8. DeliverInv'
  BY <1>1, <1>2, <1>4 DEF IInv, DeliverInv
<1>9. CallInv'
  BY <1>1, <1>2 DEF IInv, CallInv
<1> QED
  BY <1>2, <1>5, <1>6, <1>7, <1>8, <1>9

\* If it also leaves the copies alone, so does what is known of them.
LEMMA TurnStays ==
    ASSUME IInv, ~Starting, First' = First,
           UNCHANGED <<threads_running, submitted, last_samples, samples_thread_num>>
    PROVE  TurnInv' /\ Copied' = Copied
<1>1. \A w : FrameDue(w)' = FrameDue(w)
  BY RingStays
<1>2. Copied' = Copied
  BY DEF Copied
<1> QED
  BY <1>1, <1>2 DEF IInv, TurnInv

\* A worker wakes up.
LEMMA WakeStep ==
    ASSUME IInv, NEW w \in Workers, WorkerWake(w), TypeOK', MutexInv'
    PROVE  IInv'
<1>1. ~Starting
  BY OnlyGreetings DEF WorkerWake
<1>2. /\ wpc[w] = "asleep" /\ w \notin enter_cond[w] /\ wpc \in [Workers -> WorkerPcs]
      /\ wpc' = [wpc EXCEPT ![w] = "confirm"]
      /\ UNCHANGED <<mpc, ringVars, tctxVars, histVars, callVars, copyVars, enter_cond,
                     confirm_mutex, confirm_cond>>
  BY DEF WorkerWake, IInv, TypeOK, PcType
<1>3. /\ UNCHANGED <<state, frame, framesize, frame_buffer, last_samples, overlap,
                     samples_thread_num, threads_running, submitted, current_thread_num>>
  BY <1>2 DEF tctxVars, copyVars, ringVars, histVars
<1>4. ~Starting' /\ First' = First /\ StartInv' /\ CountInv' /\ RingInv' /\ DeliverInv'
      /\ CallInv'
  BY <1>1, <1>2, <1>3, QuietStep
<1>5. TurnInv' /\ Copied' = Copied
  BY <1>1, <1>3, <1>4, TurnStays
<1>6. \A v \in Workers : /\ Called(v)' = Called(v) /\ Woken(v)' = Woken(v)
                         /\ Pending(v)' = Pending(v)
  BY <1>2, <1>3 DEF Called, Woken, Pending
<1>7. \A v \in Workers : Running(v)' = Running(v) /\ FrameDue(v)' = FrameDue(v)
  BY <1>3, <1>4, RingStays
<1>8. HandshakeInv'
  BY <1>1, <1>2, <1>3, <1>6 DEF IInv, HandshakeInv, Handshake
<1>9. StateInv'
  BY <1>1, <1>2, <1>3, <1>6, <1>7 DEF IInv, StateInv, Obeys
<1>10. CopyInv'
  BY <1>1, <1>2, <1>3, <1>5, <1>6, <1>7 DEF IInv, CopyInv, Overlapped
<1> QED
  BY <1>4, <1>5, <1>8, <1>9, <1>10 DEF IInv

\* A worker lets Main go on.
LEMMA ConfirmStep ==
    ASSUME IInv, NEW w \in Workers, WorkerConfirm(w), TypeOK', MutexInv'
    PROVE  IInv'
<1>1. ~Starting
  BY OnlyGreetings DEF WorkerConfirm
<1>2. PICK rest \in Signalled(confirm_cond[w]) :
        /\ wpc[w] = "confirm" /\ confirm_mutex[w] = None
        /\ wpc \in [Workers -> WorkerPcs] /\ confirm_cond \in [Workers -> SUBSET Threads]
        /\ confirm_cond' = [confirm_cond EXCEPT ![w] = rest]
        /\ wpc' = [wpc EXCEPT ![w] = "dispatch"]
        /\ UNCHANGED <<mpc, ringVars, tctxVars, histVars, callVars, copyVars, enter_cond,
                       confirm_mutex>>
  BY DEF WorkerConfirm, IInv, TypeOK, PcType, TsType
<1>3. /\ UNCHANGED <<state, frame, framesize, frame_buffer, last_samples, overlap,
                     samples_thread_num, threads_running, submitted, current_thread_num>>
  BY <1>2 DEF tctxVars, copyVars, ringVars, histVars
<1>4. ~Starting' /\ First' = First /\ StartInv' /\ CountInv' /\ RingInv' /\ DeliverInv'
      /\ CallInv'
  BY <1>1, <1>2, <1>3, QuietStep
<1>5. TurnInv' /\ Copied' = Copied
  BY <1>1, <1>3, <1>4, TurnStays
<1>6. Called(w) /\ Woken(w)
  BY <1>2 DEF Called, Woken
<1>7. mpc = "confirm" /\ current_thread_num = w /\ rest = {}
  <2>1. mpc \in {"await", "confirm"} /\ current_thread_num = w /\ mpc # "await"
    BY <1>1, <1>2, <1>6 DEF IInv, HandshakeInv, Handshake, Main, None
  <2>2. confirm_cond[w] = {Main}
    BY <1>1, <1>6, <2>1 DEF IInv, HandshakeInv, Handshake
  <2> QED
    BY <1>2, <2>1, <2>2 DEF Signalled
<1>8. \A v \in Workers : /\ Called(v)' <=> Called(v) /\ v # w
                         /\ Woken(v)' <=> Woken(v)
                         /\ Pending(v)' <=> Pending(v)
  BY <1>2, <1>3, <1>6 DEF Called, Woken, Pending
<1>9. \A v \in Workers : Running(v)' = Running(v) /\ FrameDue(v)' = FrameDue(v)
  BY <1>3, <1>4, RingStays
<1>10. HandshakeInv'
  BY <1>1, <1>2, <1>3, <1>7, <1>8 DEF IInv, HandshakeInv, Handshake
<1>11. StateInv'
  BY <1>1, <1>2, <1>3, <1>6, <1>8, <1>9 DEF IInv, StateInv, Obeys
<1>12. CopyInv'
  BY <1>1, <1>2, <1>3, <1>5, <1>8, <1>9 DEF IInv, CopyInv, Overlapped
<1> QED
  BY <1>4, <1>5, <1>10, <1>11, <1>12 DEF IInv

\* A worker that is at work is not asleep: Main is not about to signal it.
LEMMA NotSignalled ==
    ASSUME IInv, ~Starting, NEW w \in Workers, wpc[w] # "asleep"
    PROVE  /\ ~(mpc = "signal" /\ current_thread_num = w)
           /\ Woken(w) <=> wpc[w] \in {"confirm", "dispatch"}
<1>1. ~(mpc = "signal" /\ current_thread_num = w)
  BY DEF IInv, HandshakeInv, Handshake
<1> QED
  BY <1>1 DEF Woken, Called

\* A worker looks at its state: retired or aborted, it is going to end.
LEMMA DispatchStep ==
    ASSUME IInv, NEW w \in Workers, WorkerDispatch(w), TypeOK', MutexInv'
    PROVE  IInv'
<1>1. ~Starting
  BY OnlyGreetings DEF WorkerDispatch
<1>2. /\ wpc[w] = "dispatch" /\ wpc \in [Workers -> WorkerPcs]
      /\ framesize \in [Workers -> {-1, 0, 1}]
      /\ state \in [Workers -> {"START", "WORK", "END", "ABORT"}]
      /\ UNCHANGED <<mpc, ringVars, state, frame, frame_buffer, histVars, callVars,
                     copyVars, enter_cond, confirm_mutex, confirm_cond>>
  BY DEF WorkerDispatch, tsVars, IInv, TypeOK, PcType, TctxType
<1>3. /\ UNCHANGED <<last_samples, overlap, samples_thread_num, threads_running,
                     submitted, current_thread_num>>
  BY <1>2 DEF copyVars, ringVars, histVars
<1>4. ~Starting' /\ First' = First /\ StartInv' /\ CountInv' /\ RingInv' /\ DeliverInv'
      /\ CallInv'
  BY <1>1, <1>2, <1>3, QuietStep
<1>5. TurnInv' /\ Copied' = Copied
  BY <1>1, <1>3, <1>4, TurnStays
<1>6. \A v \in Workers : Running(v)' = Running(v) /\ FrameDue(v)' = FrameDue(v)
  BY <1>3, <1>4, RingStays
<1>7. ~(mpc = "signal" /\ current_thread_num = w) /\ Woken(w) /\ ~Called(w)
  BY <1>1, <1>2, NotSignalled DEF Called
<1>8. /\ state[w] # "START"
      /\ state[w] # "WORK" => ~Running(w)
  BY <1>1, <1>2, <1>7 DEF IInv, StateInv, Obeys, RingInv, InRing
<1>9. \/ /\ state[w] \in {"END", "ABORT"}
         /\ \E f \in {-1, 0} : framesize' = [framesize EXCEPT ![w] = f]
         /\ wpc' = [wpc EXCEPT ![w] = "exit"]
      \/ /\ state[w] = "WORK"
         /\ framesize' = framesize
         /\ wpc' = [wpc EXCEPT ![w] = "turn"]
  BY <1>2, <1>8 DEF WorkerDispatch
<1>10. \A v \in Workers : /\ Called(v)' <=> Called(v)
                          /\ Woken(v)' <=> Woken(v) /\ v # w
                          /\ Pending(v)' <=> Pending(v)
  BY <1>2, <1>3, <1>7, <1>9 DEF Called, Woken, Pending
<1>11. HandshakeInv'
  BY <1>1, <1>2, <1>3, <1>9, <1>10 DEF IInv, HandshakeInv, Handshake
<1>12. StateInv'
  BY <1>1, <1>2, <1>3, <1>6, <1>8, <1>9, <1>10 DEF IInv, StateInv, Obeys
<1>13. CopyInv'
  BY <1>1, <1>2, <1>3, <1>5, <1>6, <1>9, <1>10 DEF IInv, CopyInv, Overlapped
<1> QED
  BY <1>4, <1>5, <1>11, <1>12, <1>13 DEF IInv

\* A worker tests whether it is its turn to copy.
LEMMA TurnStep ==
    ASSUME IInv, NEW w \in Workers, WorkerTurn(w), TypeOK', MutexInv'
    PROVE  IInv'
<1>1. ~Starting
  BY OnlyGreetings DEF WorkerTurn
<1>2. /\ wpc[w] = "turn" /\ wpc \in [Workers -> WorkerPcs]
      /\ UNCHANGED <<mpc, ringVars, tctxVars, histVars, callVars, samples_thread_num,
                     last_samples, overlap, enter_cond, confirm_mutex, confirm_cond>>
  BY DEF WorkerTurn, tsVars, IInv, TypeOK, PcType
<1>3. /\ UNCHANGED <<state, frame, framesize, frame_buffer, threads_running,
                     submitted, current_thread_num>>
  BY <1>2 DEF tctxVars, ringVars, histVars
<1>4. ~Starting' /\ First' = First /\ StartInv' /\ CountInv' /\ RingInv' /\ DeliverInv'
      /\ CallInv'
  BY <1>1, <1>2, <1>3, QuietStep
<1>5. TurnInv' /\ Copied' = Copied
  BY <1>1, <1>2, <1>3, <1>4, TurnStays
<1>6. \A v \in Workers : Running(v)' = Running(v) /\ FrameDue(v)' = FrameDue(v)
  BY <1>3, <1>4, RingStays
<1>7. \/ samples_thread_num = w /\ wpc' = [wpc EXCEPT ![w] = "copy"]
      \/ wpc' = wpc
  BY DEF WorkerTurn
<1>8. \A v \in Workers : /\ Called(v)' <=> Called(v)
                         /\ Woken(v)' <=> Woken(v)
                         /\ Pending(v)' <=> Pending(v)
  BY <1>2, <1>3, <1>7 DEF Called, Woken, Pending
<1>9. HandshakeInv'
  BY <1>1, <1>2, <1>3, <1>7, <1>8 DEF IInv, HandshakeInv, Handshake
<1>10. StateInv'
  BY <1>1, <1>2, <1>3, <1>6, <1>7, <1>8 DEF IInv, StateInv, Obeys
<1>11. CopyInv'
  BY <1>1, <1>2, <1>3, <1>5, <1>6, <1>7, <1>8 DEF IInv, CopyInv, Overlapped
<1> QED
  BY <1>4, <1>5, <1>9, <1>10, <1>11 DEF IInv

\* The worker that copies has the first frame not copied yet.
LEMMA CopierIsNext ==
    ASSUME IInv, ~Starting, NEW w \in Workers, wpc[w] = "copy"
    PROVE  /\ samples_thread_num = w /\ state[w] = "WORK"
           /\ frame[w] = Copied + 1 /\ FrameDue(w) = Copied + 1 /\ Copied + 1 <= submitted
<1>1. /\ TypeOK /\ threads_running \in 0 .. N /\ submitted \in Nat
      /\ Copied \in 0 .. submitted /\ N \in Nat /\ N > 1
  BY PoolAssumption DEF IInv, CountInv, TypeOK, HistType, TurnInv
<1>2. state[w] = "WORK" /\ samples_thread_num = w /\ FrameDue(w) > Copied
  BY DEF IInv, StateInv, Obeys, CopyInv, Overlapped, Pending
<1>3. FrameDue(w) = Copied + 1 /\ Copied + 1 <= submitted
  BY <1>1, <1>2 DEF IInv, TurnInv
<1>4. frame[w] = FrameDue(w)
  BY <1>2 DEF IInv, RingInv, InRing
<1> QED
  BY <1>2, <1>3, <1>4

\* A worker copies and passes the turn on.
LEMMA CopyStep ==
    ASSUME IInv, NEW w \in Workers, WorkerCopy(w), TypeOK', MutexInv'
    PROVE  IInv'
<1>1. ~Starting
  BY OnlyGreetings DEF WorkerCopy
<1>2. /\ wpc[w] = "copy" /\ wpc \in [Workers -> WorkerPcs]
      /\ overlap \in [Workers -> FrameNo]
      /\ overlap' = [overlap EXCEPT ![w] = last_samples]
      /\ last_samples' = frame[w]
      /\ samples_thread_num' = Next_(samples_thread_num)
      /\ wpc' = [wpc EXCEPT ![w] = "encode"]
      /\ UNCHANGED <<mpc, ringVars, tctxVars, histVars, callVars,
                     enter_cond, confirm_mutex, confirm_cond>>
  BY DEF WorkerCopy, SamplesBefore, tsVars, IInv, TypeOK, PcType, CopyType
<1>3. /\ UNCHANGED <<state, frame, framesize, frame_buffer, threads_running,
                     submitted, current_thread_num>>
  BY <1>2 DEF tctxVars, ringVars, histVars
<1>4. ~Starting' /\ First' = First /\ StartInv' /\ CountInv' /\ RingInv' /\ DeliverInv'
      /\ CallInv'
  BY <1>1, <1>2, <1>3, QuietStep
<1>5. \A v \in Workers : Running(v)' = Running(v) /\ FrameDue(v)' = FrameDue(v)
  BY <1>3, <1>4, RingStays
<1>6. /\ samples_thread_num = w /\ state[w] = "WORK" /\ frame[w] = Copied + 1
      /\ FrameDue(w) = Copied + 1 /\ Copied + 1 <= submitted
  BY <1>1, <1>2, CopierIsNext
<1>7. /\ TypeOK /\ threads_running \in 0 .. N /\ submitted \in Nat /\ Next_(w) \in Workers
      /\ Copied \in Nat
      /\ last_samples = IF Copied = 0 THEN FirstOverlap ELSE Copied
  BY <1>1, NextWorkerType DEF IInv, CountInv, TypeOK, HistType, TurnInv
<1>8. /\ \A v \in Workers : FrameDue(v) \in Int /\ (FrameDue(v) = FrameDue(w) => v = w)
      /\ FrameDue(Next_(w)) = IF FrameDue(w) = submitted THEN submitted + 1 - N
                              ELSE FrameDue(w) + 1
  BY <1>7, DueFacts
<1>9. Copied' = Copied + 1 /\ last_samples' = Copied + 1
  BY <1>2, <1>6, <1>7 DEF Copied, NoFrame
<1>10. \A v \in Workers : /\ Called(v)' <=> Called(v)
                          /\ Woken(v)' <=> Woken(v)
                          /\ Pending(v)' <=> Pending(v) /\ v # w
  <2>1. ~Woken(w)
    BY <1>1, <1>2, NotSignalled
  <2> QED
    BY <1>2, <1>3, <2>1 DEF Called, Woken, Pending
<1>11. HandshakeInv'
  BY <1>1, <1>2, <1>3, <1>10 DEF IInv, HandshakeInv, Handshake
<1>12. StateInv'
  BY <1>1, <1>2, <1>3, <1>5, <1>10 DEF IInv, StateInv, Obeys
<1>13. TurnInv'
  <2>1. FrameDue(samples_thread_num)' = FrameDue(Next_(w))
    BY <1>2, <1>3, <1>4, <1>6 DEF FrameDue, Running, Pos
  <2> QED
    BY <1>3, <1>6, <1>7, <1>8, <1>9, <2>1 DEF TurnInv
<1>14. CopyInv'
  <2> SUFFICES ASSUME NEW v \in Workers PROVE Overlapped(v)'
    BY DEF CopyInv
  <2>1. Overlapped(v)
    BY <1>1 DEF IInv, CopyInv
  <2>2. Pending(v)' <=> FrameDue(v)' > Copied'
    <3>1. FrameDue(v) > Copied + 1 <=> FrameDue(v) > Copied /\ v # w
      BY <1>6, <1>7, <1>8
    <3> QED
      BY <1>5, <1>9, <1>10, <2>1, <3>1 DEF Overlapped
  <2>3. wpc'[v] # "copy"
    BY <1>2, <1>6, <2>1 DEF Overlapped
  <2>4. wpc'[v] = "encode" => overlap'[v] = Before(frame[v])
    <3>1. last_samples = Before(Copied + 1)
      BY <1>7 DEF Before
    <3> QED
      BY <1>2, <1>6, <2>1, <3>1 DEF Overlapped
  <2>5. state[v] = "WORK" /\ ~Pending(v)' /\ wpc'[v] # "encode" =>
          framesize[v] = 1 /\ frame_buffer[v] = <<frame[v], Before(frame[v])>>
    BY <1>2, <1>10, <2>1 DEF Overlapped
  <2> QED
    BY <1>3, <2>2, <2>3, <2>4, <2>5 DEF Overlapped, Before
<1> QED
  BY <1>4, <1>11, <1>12, <1>13, <1>14 DEF IInv

\* A worker's thread ends.
LEMMA ExitStep ==
    ASSUME IInv, NEW w \in Workers, WorkerExit(w), TypeOK', MutexInv'
    PROVE  IInv'
<1>1. ~Starting
  BY OnlyGreetings DEF WorkerExit
<1>2. /\ wpc[w] = "exit" /\ wpc \in [Workers -> WorkerPcs]
      /\ wpc' = [wpc EXCEPT ![w] = "done"]
      /\ UNCHANGED <<mpc, ringVars, tctxVars, histVars, callVars, copyVars, enter_cond,
                     confirm_mutex, confirm_cond>>
  BY DEF WorkerExit, IInv, TypeOK, PcType
<1>3. /\ UNCHANGED <<state, frame, framesize, frame_buffer, last_samples, overlap,
                     samples_thread_num, threads_running, submitted, current_thread_num>>
  BY <1>2 DEF tctxVars, copyVars, ringVars, histVars
<1>4. ~Starting' /\ First' = First /\ StartInv' /\ CountInv' /\ RingInv' /\ DeliverInv'
      /\ CallInv'
  BY <1>1, <1>2, <1>3, QuietStep
<1>5. TurnInv' /\ Copied' = Copied
  BY <1>1, <1>3, <1>4, TurnStays
<1>6. \A v \in Workers : /\ Called(v)' <=> Called(v)
                         /\ Woken(v)' <=> Woken(v)
                         /\ Pending(v)' <=> Pending(v)
  BY <1>2, <1>3 DEF Called, Woken, Pending
<1>7. \A v \in Workers : Running(v)' = Running(v) /\ FrameDue(v)' = FrameDue(v)
  BY <1>3, <1>4, RingStays
<1>8. HandshakeInv'
  BY <1>1, <1>2, <1>3, <1>6 DEF IInv, HandshakeInv, Handshake
<1>9. StateInv'
  BY <1>1, <1>2, <1>3, <1>6, <1>7 DEF IInv, StateInv, Obeys
<1>10. CopyInv'
  BY <1>1, <1>2, <1>3, <1>5, <1>6, <1>7 DEF IInv, CopyInv, Overlapped
<1> QED
  BY <1>4, <1>5, <1>8, <1>9, <1>10 DEF IInv

\* A wait returns without a signal: only the one for a turn does.
LEMMA SpuriousStep ==
    ASSUME IInv, HandoverNotSpurious, NEW w \in Workers, Spurious(w), TypeOK', MutexInv'
    PROVE  IInv'
<1>1. UNCHANGED <<mpc, wpc, ringVars, tctxVars, histVars, callVars, samples_thread_num,
                  last_samples, overlap, enter_cond, confirm_mutex, confirm_cond>>
  BY DEF Spurious, HandoverNotSpurious
<1>2. /\ UNCHANGED <<state, frame, framesize, frame_buffer, threads_running, submitted,
                     delivered, current_thread_num, threads_to_abort,
                     last_samples_count, closing, close_ret, ret, idx>>
  BY <1>1 DEF tctxVars, ringVars, histVars, callVars
<1>3. CASE Starting
  <2>1. Starting' /\ StartInv
    BY <1>1, <1>3 DEF Starting, IInv
  <2>2. StartInv'
    BY <1>1, <1>2, <2>1, <1>3 DEF StartInv
  <2> QED
    BY <2>1, <2>2, StillStarting
<1>4. CASE ~Starting
  <2>1. ~Starting' /\ First' = First /\ StartInv' /\ CountInv' /\ RingInv' /\ DeliverInv'
        /\ CallInv'
    BY <1>1, <1>2, <1>4, QuietStep
  <2>2. TurnInv' /\ Copied' = Copied
    BY <1>1, <1>2, <1>4, <2>1, TurnStays
  <2>3. \A v \in Workers : /\ Called(v)' <=> Called(v)
                           /\ Woken(v)' <=> Woken(v)
                           /\ Pending(v)' <=> Pending(v)
    BY <1>1, <1>2 DEF Called, Woken, Pending
  <2>4. \A v \in Workers : Running(v)' = Running(v) /\ FrameDue(v)' = FrameDue(v)
    BY <1>2, <2>1, RingStays
  <2>5. HandshakeInv'
    BY <1>1, <1>2, <1>4, <2>3 DEF IInv, HandshakeInv, Handshake
  <2>6. StateInv'
    BY <1>1, <1>2, <1>4, <2>3, <2>4 DEF IInv, StateInv, Obeys
  <2>7. CopyInv'
    BY <1>1, <1>2, <1>4, <2>2, <2>3, <2>4 DEF IInv, CopyInv, Overlapped
  <2> QED
    BY <2>1, <2>2, <2>5, <2>6, <2>7 DEF IInv
<1> QED
  BY <1>3, <1>4

\* A worker has encoded its frame, or failed to, and goes to sleep.
LEMMA EncodedStep ==
    ASSUME IInv, NEW w \in Workers, WorkerEncode(w), TypeOK', MutexInv'
    PROVE  IInv'
<1>1. ~Starting
  BY OnlyGreetings DEF WorkerEncode
<1>2. /\ wpc[w] = "encode" /\ wpc \in [Workers -> WorkerPcs]
      /\ enter_cond \in [Workers -> SUBSET Threads]
      /\ wpc' = [wpc EXCEPT ![w] = "asleep"]
      /\ enter_cond' = [enter_cond EXCEPT ![w] = enter_cond[w] \cup {w}]
      /\ UNCHANGED <<mpc, ringVars, frame, histVars, callVars, copyVars,
                     confirm_mutex, confirm_cond>>
  BY DEF WorkerEncode, IInv, TypeOK, PcType, TsType
<1>3. UNCHANGED <<last_samples, overlap, samples_thread_num, threads_running, submitted,
                  delivered, current_thread_num, threads_to_abort, last_samples_count,
                  closing, close_ret, ret, count>>
  BY <1>2 DEF copyVars, ringVars, histVars, callVars
<1>4. /\ ~Starting' /\ (Visiting' <=> Visiting) /\ First' = First
  BY <1>1, <1>2, <1>3 DEF Starting, Visiting, First
<1>5. TurnInv' /\ Copied' = Copied
  BY <1>1, <1>3, <1>4, TurnStays
<1>6. \A v \in Workers : Running(v)' = Running(v) /\ FrameDue(v)' = FrameDue(v)
  BY <1>3, <1>4, RingStays
<1>7. /\ state[w] = "WORK" /\ Running(w) /\ ~Called(w) /\ ~Woken(w) /\ ~Pending(w)
      /\ overlap[w] = Before(frame[w])
  <2>1. state[w] = "WORK" /\ overlap[w] = Before(frame[w])
    BY <1>1, <1>2 DEF IInv, StateInv, Obeys, CopyInv, Overlapped
  <2>2. Running(w)
    BY <1>1, <2>1 DEF IInv, RingInv, InRing
  <2>3. ~Woken(w) /\ ~Called(w)
    BY <1>1, <1>2, NotSignalled DEF Called
  <2> QED
    BY <1>2, <2>1, <2>2, <2>3 DEF Pending
<1>8. /\ state \in [Workers -> {"START", "WORK", "END", "ABORT"}]
      /\ framesize \in [Workers -> {-1, 0, 1}] /\ frame_buffer \in [Workers -> Frames]
  BY DEF IInv, TypeOK, TctxType
<1>9. /\ \A v \in Workers \ {w} : /\ state'[v] = state[v] /\ framesize'[v] = framesize[v]
                                  /\ frame_buffer'[v] = frame_buffer[v]
      /\ \/ state'[w] = "WORK" /\ framesize'[w] = 1
            /\ frame_buffer'[w] = <<frame[w], overlap[w]>>
         \/ state'[w] = "ABORT" /\ EncodeFails
  BY <1>7, <1>8 DEF WorkerEncode
<1>10. \A v \in Workers : /\ Called(v)' <=> Called(v)
                          /\ Woken(v)' <=> Woken(v)
                          /\ Pending(v)' <=> Pending(v)
  <2>1. ~(mpc = "signal" /\ current_thread_num = w)
    BY <1>1, <1>2, NotSignalled
  <2> QED
    BY <1>2, <1>3, <1>7, <1>9, <2>1 DEF Called, Woken, Pending
<1>11. threads_running # 0 /\ threads_running \in Nat
  <2>1. Pos(w) \in Nat /\ threads_running \in Nat
    BY <1>1, PosFacts, PoolAssumption DEF IInv, CountInv
  <2> QED
    BY <1>7, <2>1 DEF Running
<1>12. StartInv'
  BY <1>4 DEF StartInv
<1>13. HandshakeInv'
  BY <1>1, <1>2, <1>3, <1>7, <1>10, SMTT(30) DEF IInv, HandshakeInv, Handshake
<1>14. CountInv'
  BY <1>1, <1>2, <1>3, <1>4, <1>11 DEF IInv, CountInv, AllAborted
<1>15. RingInv'
  BY <1>1, <1>2, <1>3, <1>6, <1>7, <1>9 DEF IInv, RingInv, InRing
<1>16. StateInv'
  BY <1>1, <1>2, <1>6, <1>7, <1>9, <1>10 DEF IInv, StateInv, Obeys
<1>17. CopyInv'
  BY <1>1, <1>2, <1>3, <1>5, <1>6, <1>7, <1>9, <1>10
     DEF IInv, CopyInv, Overlapped, Before
<1>18. DeliverInv'
  <2>1. AllKept' => AllKept
    BY <1>3, <1>6, <1>7, <1>9 DEF AllKept
  <2> QED
    BY <1>1, <1>2, <1>3, <1>4, <2>1 DEF IInv, DeliverInv
<1>19. CallInv'
  BY <1>1, <1>2, <1>3, <1>4, <1>11 DEF IInv, CallInv, AllAborted
<1> QED
  BY <1>5, <1>12, <1>13, <1>14, <1>15, <1>16, <1>17, <1>18, <1>19 DEF IInv

-----------------------------------------------------------------------------
(* The rest of process_frame_parallel, and the calls that do not visit a    *)
(* worker.                                                                 *)

\* A step of Main that neither tells a worker what to do nor moves on in the ring
\* leaves the frames where they are.
LEMMA FramesStay ==
    ASSUME IInv, ~Starting, ~Starting', First' = First,
           UNCHANGED <<threads_running, threads_to_abort, submitted, tctxVars, wpc,
                       last_samples, overlap, samples_thread_num>>,
           \A v \in Workers : Woken(v)' <=> Woken(v)
    PROVE  /\ StartInv' /\ RingInv' /\ StateInv' /\ TurnInv' /\ CopyInv'
           /\ \A v \in Workers : Running(v)' = Running(v)
<1>1. UNCHANGED <<state, frame, framesize, frame_buffer>>
  BY DEF tctxVars
<1>2. TurnInv' /\ Copied' = Copied
  BY TurnStays
<1>3. \A v \in Workers : Running(v)' = Running(v) /\ FrameDue(v)' = FrameDue(v)
  BY RingStays
<1>4. \A v \in Workers : Pending(v)' <=> Pending(v)
  BY <1>1 DEF Pending
<1>5. RingInv'
  BY <1>1, <1>3 DEF IInv, RingInv, InRing
<1>6. StateInv'
  BY <1>1, <1>3 DEF IInv, StateInv, Obeys
<1>7. CopyInv'
  BY <1>1, <1>2, <1>3, <1>4 DEF IInv, CopyInv, Overlapped
<1> QED
  BY <1>2, <1>3, <1>5, <1>6, <1>7 DEF StartInv

\* Main signals the worker.
LEMMA SignalStep ==
    ASSUME IInv, NEW w \in Workers, SignalWorker(w), TypeOK', MutexInv'
    PROVE  IInv'
<1>1. PICK rest \in Signalled(enter_cond[w]) :
        /\ mpc = "signal" /\ mpc' = "await" /\ w = current_thread_num
        /\ confirm_mutex' = [confirm_mutex EXCEPT ![w] = Main]
        /\ enter_cond' = [enter_cond EXCEPT ![w] = rest]
        /\ UNCHANGED <<confirm_cond, copyVars, ringVars, tctxVars, callVars, histVars, wpc>>
  BY DEF SignalWorker
<1>2. /\ confirm_mutex \in [Workers -> Threads \cup {None}]
      /\ enter_cond \in [Workers -> SUBSET Threads]
  BY DEF IInv, TypeOK, TsType
<1>3. UNCHANGED <<state, last_samples, overlap, samples_thread_num, threads_running,
                  submitted, delivered, current_thread_num, threads_to_abort,
                  last_samples_count, closing, close_ret, ret, count>>
  BY <1>1 DEF copyVars, ringVars, tctxVars, histVars, callVars
<1>4. ~Starting /\ ~Starting' /\ Visiting /\ Visiting' /\ First' = First
  BY <1>1, <1>3 DEF Starting, Visiting, First
<1>5. enter_cond[w] = {w} /\ wpc[w] = "asleep" /\ rest = {}
  <2>1. enter_cond[w] = {w} /\ wpc[w] = "asleep"
    BY <1>1, <1>4 DEF IInv, HandshakeInv, Handshake
  <2> QED
    BY <1>1, <2>1 DEF Signalled
<1>6. \A v \in Workers : /\ ~Called(v) /\ (Called(v)' <=> v = w)
                         /\ (Woken(v)' <=> Woken(v))
  <2>1. \A v \in Workers : ~Called(v)
    BY <1>1, <1>4 DEF IInv, HandshakeInv, Handshake
  <2> QED
    BY <1>1, <1>2, <1>3, <1>5, <2>1 DEF Called, Woken
<1>7. /\ StartInv' /\ RingInv' /\ StateInv' /\ TurnInv' /\ CopyInv'
      /\ \A v \in Workers : Running(v)' = Running(v)
  BY <1>1, <1>3, <1>4, <1>6, FramesStay
<1>8. HandshakeInv'
  BY <1>1, <1>2, <1>3, <1>4, <1>5, <1>6 DEF IInv, HandshakeInv, Handshake
<1>9. CountInv'
  BY <1>1, <1>3, <1>4 DEF IInv, CountInv, AllAborted
<1>10. DeliverInv'
  BY <1>1, <1>3, <1>4, <1>7 DEF IInv, DeliverInv, AllKept
<1>11. CallInv'
  BY <1>1, <1>3, <1>4 DEF IInv, CallInv, AllAborted
<1> QED
  BY <1>7, <1>8, <1>9, <1>10, <1>11 DEF IInv

\* Main goes to sleep until the worker has its enter_mutex.
LEMMA AwaitConfirmStep ==
    ASSUME IInv, NEW w \in Workers, AwaitConfirm(w), TypeOK', MutexInv'
    PROVE  IInv'
<1>1. /\ mpc = "await" /\ mpc' = "confirm" /\ w = current_thread_num
      /\ confirm_cond' = [confirm_cond EXCEPT ![w] = confirm_cond[w] \cup {Main}]
      /\ confirm_mutex' = [confirm_mutex EXCEPT ![w] = None]
      /\ UNCHANGED <<enter_cond, copyVars, ringVars, tctxVars, callVars, histVars, wpc>>
  BY DEF AwaitConfirm
<1>2. /\ confirm_mutex \in [Workers -> Threads \cup {None}]
      /\ confirm_cond \in [Workers -> SUBSET Threads]
  BY DEF IInv, TypeOK, TsType
<1>3. UNCHANGED <<state, last_samples, overlap, samples_thread_num, threads_running,
                  submitted, delivered, current_thread_num, threads_to_abort,
                  last_samples_count, closing, close_ret, ret, count>>
  BY <1>1 DEF copyVars, ringVars, tctxVars, histVars, callVars
<1>4. ~Starting /\ ~Starting' /\ Visiting /\ Visiting' /\ First' = First
  BY <1>1, <1>3 DEF Starting, Visiting, First
<1>5. \A v \in Workers : /\ (Called(v)' <=> Called(v)) /\ (Called(v) <=> v = w)
                         /\ (Woken(v)' <=> Woken(v))
  <2>1. \A v \in Workers : Called(v) <=> v = w
    BY <1>1, <1>4 DEF IInv, HandshakeInv, Handshake
  <2> QED
    BY <1>1, <1>3, <2>1 DEF Called, Woken
<1>6. /\ StartInv' /\ RingInv' /\ StateInv' /\ TurnInv' /\ CopyInv'
      /\ \A v \in Workers : Running(v)' = Running(v)
  BY <1>1, <1>3, <1>4, <1>5, FramesStay
<1>7. HandshakeInv'
  <2>1. ASSUME NEW v \in Workers PROVE Handshake(v)'
    <3>1. Handshake(v)
      BY <1>4 DEF IInv, HandshakeInv
    <3>2. CASE v = w
      <4>1. confirm_mutex'[v] = None /\ confirm_cond'[v] = {Main}
        BY <1>1, <1>2, <3>1, <3>2 DEF Handshake
      <4> QED
        BY <1>1, <1>3, <1>5, <3>1, <3>2, <4>1 DEF Handshake
    <3>3. CASE v # w
      <4>1. confirm_mutex'[v] = confirm_mutex[v] /\ confirm_cond'[v] = confirm_cond[v]
        BY <1>1, <1>2, <3>3
      <4> QED
        BY <1>1, <1>3, <1>5, <3>1, <3>3, <4>1 DEF Handshake
    <3> QED
      BY <3>2, <3>3
  <2> QED
    BY <2>1 DEF HandshakeInv
<1>8. CountInv'
  BY <1>1, <1>3, <1>4 DEF IInv, CountInv, AllAborted
<1>9. DeliverInv'
  BY <1>1, <1>3, <1>4, <1>6 DEF IInv, DeliverInv, AllKept
<1>10. CallInv'
  BY <1>1, <1>3, <1>4 DEF IInv, CallInv, AllAborted
<1> QED
  BY <1>6, <1>7, <1>8, <1>9, <1>10 DEF IInv

\* The worker has confirmed: Main moves on in the ring.
LEMMA ConfirmedStep ==
    ASSUME IInv, NEW w \in Workers, Confirmed(w), TypeOK', MutexInv'
    PROVE  IInv'
<1>1. /\ mpc = "confirm" /\ w = current_thread_num /\ Main \notin confirm_cond[w]
      /\ current_thread_num' = Next_(current_thread_num)
      /\ mpc' = IF threads_to_abort # 0 THEN "visit"
                ELSE IF closing THEN "closing" ELSE "idle"
      /\ UNCHANGED <<tsVars, copyVars, tctxVars, callVars, histVars, wpc>>
  BY DEF Confirmed, Advance
<1>2. UNCHANGED <<enter_cond, confirm_cond, confirm_mutex, state, last_samples, overlap,
                  samples_thread_num, threads_running, submitted, delivered,
                  threads_to_abort, last_samples_count, closing, close_ret, ret, count>>
  BY <1>1 DEF Confirmed, tsVars, copyVars, tctxVars, histVars, callVars
<1>3. ~Starting /\ ~Starting' /\ Visiting /\ ~Visiting' /\ First' = First
  BY <1>1 DEF Starting, Visiting, First
<1>4. \A v \in Workers : ~Called(v) /\ ~Called(v)' /\ (Woken(v)' <=> Woken(v))
  <2>1. \A v \in Workers : ~Called(v)
    BY <1>1, <1>3 DEF IInv, HandshakeInv, Handshake
  <2> QED
    BY <1>1, <1>2, <2>1 DEF Called, Woken
<1>5. /\ StartInv' /\ RingInv' /\ StateInv' /\ TurnInv' /\ CopyInv'
      /\ \A v \in Workers : Running(v)' = Running(v)
  BY <1>1, <1>2, <1>3, <1>4, FramesStay
<1>6. HandshakeInv'
  BY <1>1, <1>2, <1>3, <1>4 DEF IInv, HandshakeInv, Handshake
<1>7. CountInv'
  BY <1>1, <1>2, <1>3 DEF IInv, CountInv, AllAborted
<1>8. DeliverInv'
  BY <1>1, <1>2, <1>3, <1>5 DEF IInv, DeliverInv, AllKept
<1>9. CallInv'
  BY <1>1, <1>2, <1>3 DEF IInv, CallInv, AllAborted
<1> QED
  BY <1>5, <1>6, <1>7, <1>8, <1>9 DEF IInv

\* A step between two calls, or between two iterations of aften_encode_close:
\* Main is not in the middle of a visit, before it and after it.
LEMMA OutsideStep ==
    ASSUME IInv, ~Starting, ~Starting', ~Visiting, ~Visiting',
           UNCHANGED <<tsVars, copyVars, ringVars, tctxVars, histVars, wpc>>
    PROVE  /\ StartInv' /\ HandshakeInv' /\ RingInv' /\ StateInv' /\ TurnInv' /\ CopyInv'
           /\ \A v \in Workers : Running(v)' = Running(v)
<1>1. UNCHANGED <<enter_cond, confirm_cond, confirm_mutex, state, last_samples, overlap,
                  samples_thread_num, threads_running, threads_to_abort, submitted,
                  current_thread_num>>
  BY DEF tsVars, copyVars, ringVars, tctxVars, histVars
<1>2. First' = First
  BY <1>1 DEF First
<1>3. \A v \in Workers : ~Called(v) /\ ~Called(v)' /\ (Woken(v)' <=> Woken(v))
  <2>1. \A v \in Workers : ~Called(v)
    BY DEF IInv, HandshakeInv, Handshake, Visiting
  <2> QED
    BY <1>1, <2>1 DEF Called, Woken, Visiting
<1>4. /\ StartInv' /\ RingInv' /\ StateInv' /\ TurnInv' /\ CopyInv'
      /\ \A v \in Workers : Running(v)' = Running(v)
  BY <1>1, <1>2, <1>3, FramesStay
<1>5. HandshakeInv'
  BY <1>1, <1>3 DEF IInv, HandshakeInv, Handshake, Visiting
<1> QED
  BY <1>4, <1>5

\* The application calls aften_encode_frame.
LEMMA EncodeCallStep ==
    ASSUME IInv, NEW c \in Counts, Encode(c), TypeOK', MutexInv'
    PROVE  IInv'
<1>1. /\ mpc = "idle"
      /\ \/ mpc' = "idle"
         \/ mpc' = "visit" /\ count' = c /\ threads_running # 0 /\ ret' = ret
            /\ ~Rejects(c, last_samples_count)
      /\ UNCHANGED <<tsVars, copyVars, ringVars, tctxVars, histVars, wpc, closing, close_ret>>
  BY DEF Encode
<1>2. ~Starting /\ ~Starting' /\ ~Visiting /\ ~Visiting'
  BY <1>1 DEF Starting, Visiting
<1>3. /\ StartInv' /\ HandshakeInv' /\ RingInv' /\ StateInv' /\ TurnInv' /\ CopyInv'
      /\ \A v \in Workers : Running(v)' = Running(v)
  BY <1>1, <1>2, OutsideStep
<1>4. UNCHANGED <<state, threads_running, submitted, delivered, threads_to_abort,
                  last_samples_count, current_thread_num>>
  BY <1>1 DEF ringVars, tctxVars, histVars
<1>5. threads_to_abort = 0 /\ closing = FALSE
  BY <1>1, <1>2 DEF IInv, CountInv, CallInv, TypeOK, CallType
<1>6. CountInv'
  BY <1>1, <1>2, <1>4, <1>5 DEF IInv, CountInv, AllAborted
<1>7. DeliverInv'
  BY <1>1, <1>2, <1>3, <1>4, <1>5 DEF IInv, DeliverInv, AllKept
<1>8. CallInv'
  BY <1>1, <1>2, <1>4, <1>5 DEF IInv, CallInv
<1> QED
  BY <1>3, <1>6, <1>7, <1>8 DEF IInv

\* The application calls aften_encode_close, which loops until no thread runs and
\* then joins them all.
LEMMA CloseSteps ==
    ASSUME IInv, Close \/ CloseLoop \/ Join, TypeOK', MutexInv'
    PROVE  IInv'
<1>1. /\ mpc \in {"idle", "closing", "join"}
      /\ mpc' \in {"closing", "visit", "join", "closed"} /\ closing' = TRUE
      /\ mpc' = "visit" => mpc = "closing" /\ threads_running # 0 /\ count' = 0
                           /\ close_ret' = -1
      /\ mpc' \in {"join", "closed"} => threads_running = 0
      /\ close_ret' = close_ret \/ close_ret' = -1
      /\ UNCHANGED <<tsVars, copyVars, ringVars, tctxVars, histVars, wpc, ret>>
  <2>1. CASE Close
    BY <2>1 DEF Close
  <2>2. CASE CloseLoop
    BY <2>2 DEF CloseLoop, IInv, CallInv, TypeOK, CallType
  <2>3. CASE Join
    BY <2>3 DEF Join, IInv, CallInv, TypeOK, CallType
  <2> QED
    BY <2>1, <2>2, <2>3
<1>2. ~Starting /\ ~Starting' /\ ~Visiting /\ ~Visiting'
  BY <1>1 DEF Starting, Visiting
<1>3. /\ StartInv' /\ HandshakeInv' /\ RingInv' /\ StateInv' /\ TurnInv' /\ CopyInv'
      /\ \A v \in Workers : Running(v)' = Running(v)
  BY <1>1, <1>2, OutsideStep
<1>4. UNCHANGED <<state, threads_running, submitted, delivered, threads_to_abort,
                  last_samples_count, current_thread_num>>
  BY <1>1 DEF ringVars, tctxVars, histVars
<1>5. threads_to_abort = 0
  BY <1>1, <1>2 DEF IInv, CountInv
<1>6. CountInv'
  BY <1>1, <1>2, <1>4, <1>5 DEF IInv, CountInv, AllAborted
<1>7. DeliverInv'
  <2>1. AllKept' => AllKept
    BY <1>1, <1>3, <1>4 DEF AllKept
  <2> QED
    BY <1>1, <1>2, <1>4, <2>1 DEF IInv, DeliverInv
<1>8. CallInv'
  BY <1>1, <1>2, <1>4, <1>5 DEF IInv, CallInv
<1> QED
  BY <1>3, <1>6, <1>7, <1>8 DEF IInv

-----------------------------------------------------------------------------
(* The visits of process_frame_parallel.                                   *)

\* The worker visited is the first of the ring, asleep, and its frame has been
\* copied; no worker has a signal to answer.
LEMMA VisitedWorker ==
    ASSUME IInv, NEW w \in Workers, AtWorker(w)
    PROVE  /\ ~Starting /\ ~Visiting /\ w = First /\ Running(w)
           /\ threads_running \in 1 .. N
           /\ FrameDue(w) = submitted + 1 - threads_running
           /\ wpc[w] = "asleep" /\ w \in enter_cond[w]
           /\ ~Pending(w) /\ ~(FrameDue(w) > Copied)
           /\ \A v \in Workers : /\ ~Called(v) /\ (Woken(v) <=> wpc[v] = "dispatch")
                                 /\ confirm_mutex[v] = None /\ confirm_cond[v] = {}
<1>1. /\ mpc = "visit" /\ w = current_thread_num /\ enter_mutex[w] = None
      /\ TypeOK /\ wpc \in [Workers -> WorkerPcs] /\ N \in Nat /\ submitted \in Nat
  BY PoolAssumption DEF AtWorker, IInv, TypeOK, PcType, HistType
<1>2. ~Starting /\ ~Visiting /\ w = First
  BY <1>1 DEF Starting, Visiting, First
<1>3. threads_running \in 1 .. N
  BY <1>1, <1>2 DEF IInv, CountInv
<1>4. Running(w) /\ FrameDue(w) = submitted + 1 - threads_running
  <2>1. Pos(w) = 0
    BY <1>1, <1>2, PosFacts
  <2> QED
    BY <1>1, <1>3, <2>1 DEF Running, FrameDue
<1>5. \A v \in Workers : ~Called(v) /\ confirm_mutex[v] = None /\ confirm_cond[v] = {}
  BY <1>1, <1>2 DEF IInv, HandshakeInv, Handshake
<1>6. \A v \in Workers : Woken(v) <=> wpc[v] = "dispatch"
  BY <1>1, <1>5 DEF Woken
<1>7. wpc[w] = "asleep"
  <2>1. wpc[w] \notin Active
    BY <1>1 DEF IInv, MutexInv, None, Workers
  <2>2. wpc[w] \notin {"unborn", "start", "hello", "done"}
    BY <1>2, <1>4 DEF IInv, HandshakeInv, Handshake, StateInv, Obeys
  <2> QED
    BY <1>1, <2>1, <2>2 DEF WorkerPcs, Active
<1>8. w \in enter_cond[w]
  BY <1>5, <1>7 DEF Called
<1>9. ~Pending(w)
  BY <1>6, <1>7 DEF Pending
<1>10. ~(FrameDue(w) > Copied)
  BY <1>2, <1>9 DEF IInv, CopyInv, Overlapped
<1> QED
  BY <1>2, <1>3, <1>4, <1>5, <1>6, <1>7, <1>8, <1>9, <1>10

\* What a visit may assume of the worker's state: at work it has a frame to take
\* back, otherwise it has had none or has failed.
LEMMA VisitedState ==
    ASSUME IInv, NEW w \in Workers, AtWorker(w)
    PROVE  /\ state[w] \in {"START", "WORK", "ABORT"}
           /\ state[w] = "START" => framesize[w] = 0 /\ submitted < threads_running
           /\ state[w] # "START" => submitted >= threads_running
                                    /\ frame[w] = submitted + 1 - threads_running
           /\ state[w] = "WORK" => framesize[w] = 1
                                   /\ frame_buffer[w] = <<frame[w], Before(frame[w])>>
           /\ state[w] = "ABORT" => EncodeFails
           /\ threads_to_abort = 0 /\ ~Drained(last_samples_count) => threads_running = N
<1>1. /\ ~Starting /\ w = First /\ Running(w) /\ threads_running \in 1 .. N
      /\ FrameDue(w) = submitted + 1 - threads_running
      /\ wpc[w] = "asleep" /\ ~Pending(w)
  BY VisitedWorker
<1>2. /\ submitted \in Nat /\ N \in Nat
      /\ state[w] \in {"START", "WORK", "END", "ABORT"}
  BY PoolAssumption DEF IInv, TypeOK, HistType, TctxType
<1>3. /\ state[w] # "END" /\ (state[w] = "ABORT" => EncodeFails)
      /\ state[w] = "START" <=> FrameDue(w) <= 0
      /\ state[w] # "START" => frame[w] = FrameDue(w)
  BY <1>1 DEF IInv, RingInv, InRing
<1>4. /\ state[w] = "START" => framesize[w] = 0
      /\ state[w] = "WORK" => framesize[w] = 1
                              /\ frame_buffer[w] = <<frame[w], Before(frame[w])>>
  BY <1>1 DEF IInv, StateInv, Obeys, CopyInv, Overlapped
<1>5. threads_to_abort = 0 /\ ~Drained(last_samples_count) => threads_running = N
  BY <1>1, <1>2 DEF IInv, CountInv, AllAborted
<1> QED
  BY <1>1, <1>2, <1>3, <1>4, <1>5

\* The visit takes its worker out of the ring.
LEMMA RetireStep ==
    ASSUME IInv, NEW w \in Workers, AtWorker(w), NEW q \in {"END", "ABORT"},
           First' = Next_(First), threads_running' = threads_running - 1,
           state' = [state EXCEPT ![w] = q],
           q = "END" => threads_to_abort = 0 /\ threads_to_abort' = 0,
           q = "ABORT" => threads_to_abort' = threads_running - 1,
           \/ mpc' = "signal" /\ current_thread_num' = w
           \/ mpc' \in {"idle", "closing"},
           UNCHANGED <<submitted, frame, framesize, frame_buffer, last_samples, overlap,
                       samples_thread_num, enter_cond, confirm_cond, confirm_mutex, wpc>>
    PROVE  /\ StartInv' /\ HandshakeInv' /\ RingInv' /\ StateInv' /\ TurnInv' /\ CopyInv'
           /\ ~Starting' /\ \A v \in Workers : Running(v)' <=> Running(v) /\ v # w
<1>1. /\ ~Starting /\ ~Visiting /\ w = First /\ Running(w)
      /\ threads_running \in 1 .. N /\ wpc[w] = "asleep" /\ w \in enter_cond[w]
      /\ ~Pending(w) /\ ~(FrameDue(w) > Copied)
      /\ \A v \in Workers : /\ ~Called(v) /\ (Woken(v) <=> wpc[v] = "dispatch")
                            /\ confirm_mutex[v] = None /\ confirm_cond[v] = {}
  BY VisitedWorker
<1>2. ~Starting' /\ TypeOK /\ state \in [Workers -> {"START", "WORK", "END", "ABORT"}]
  BY DEF Starting, IInv, TypeOK, TctxType
<1>3. \A v \in Workers : /\ Running(v)' <=> Running(v) /\ v # w
                         /\ FrameDue(v)' = FrameDue(v)
  BY <1>1, <1>2, RingRetires
<1>4. Copied' = Copied
  BY DEF Copied
<1>5. \A v \in Workers : /\ ~Called(v)'
                         /\ v # w => /\ state'[v] = state[v]
                                     /\ (Woken(v)' <=> Woken(v))
                                     /\ (Pending(v)' <=> Pending(v))
  BY <1>1, <1>2 DEF Called, Woken, Pending
<1>6. ~Pending(w)' /\ state'[w] = q
  BY <1>2 DEF Pending
<1>7. HandshakeInv'
  BY <1>1, <1>5 DEF IInv, HandshakeInv, Handshake
<1>8. RingInv'
  <2> SUFFICES ASSUME NEW v \in Workers PROVE InRing(v)'
    BY DEF RingInv
  <2>1. InRing(v)
    BY <1>1 DEF IInv, RingInv
  <2>2. q = "ABORT" => threads_to_abort' # 0 \/ threads_running' = 0
    BY <1>1
  <2> QED
    BY <1>1, <1>3, <1>5, <1>6, <2>1, <2>2 DEF InRing
<1>9. StateInv'
  BY <1>1, <1>3, <1>5, <1>6 DEF IInv, StateInv, Obeys
<1>10. TurnInv'
  <2>1. samples_thread_num \in Workers
    BY DEF IInv, TypeOK, CopyType
  <2>2. FrameDue(samples_thread_num)' = FrameDue(samples_thread_num)
    BY <1>3, <2>1 DEF FrameDue, Running, Pos
  <2> QED
    BY <1>1, <1>4, <2>2 DEF IInv, TurnInv
<1>11. CopyInv'
  BY <1>1, <1>3, <1>4, <1>5, <1>6 DEF IInv, CopyInv, Overlapped
<1> QED
  BY <1>2, <1>3, <1>7, <1>8, <1>9, <1>10, <1>11 DEF StartInv

\* The visit gives its worker the next frame.
LEMMA FeedStep ==
    ASSUME IInv, NEW w \in Workers, AtWorker(w),
           First' = Next_(First), threads_running = N, threads_running' = N,
           threads_to_abort = 0, threads_to_abort' = 0,
           state' = [state EXCEPT ![w] = "WORK"],
           frame' = [frame EXCEPT ![w] = submitted + 1], submitted' = submitted + 1,
           mpc' = "signal", current_thread_num' = w,
           UNCHANGED <<framesize, frame_buffer, last_samples, overlap,
                       samples_thread_num, enter_cond, confirm_cond, confirm_mutex, wpc>>
    PROVE  /\ StartInv' /\ HandshakeInv' /\ RingInv' /\ StateInv' /\ TurnInv' /\ CopyInv'
           /\ ~Starting' /\ \A v \in Workers : Running(v) /\ Running(v)'
<1>1. /\ ~Starting /\ ~Visiting /\ w = First /\ Running(w)
      /\ threads_running \in 1 .. N /\ wpc[w] = "asleep" /\ w \in enter_cond[w]
      /\ ~Pending(w) /\ ~(FrameDue(w) > Copied)
      /\ FrameDue(w) = submitted + 1 - N
      /\ \A v \in Workers : /\ ~Called(v) /\ (Woken(v) <=> wpc[v] = "dispatch")
                            /\ confirm_mutex[v] = None /\ confirm_cond[v] = {}
  BY VisitedWorker
<1>2. /\ ~Starting' /\ TypeOK /\ state \in [Workers -> {"START", "WORK", "END", "ABORT"}]
      /\ frame \in [Workers -> FrameNo] /\ submitted \in Nat /\ Copied \in 0 .. submitted
      /\ samples_thread_num \in Workers /\ N \in Nat /\ N > 1
  BY <1>1, PoolAssumption
     DEF Starting, IInv, TypeOK, TctxType, HistType, TurnInv, CopyType
<1>3. \A v \in Workers :
        /\ Running(v) /\ Running(v)'
        /\ FrameDue(v)' = IF v = w THEN submitted + 1 ELSE FrameDue(v)
  BY <1>1, <1>2, RingFeeds
<1>4. Copied' = Copied
  BY DEF Copied
<1>5. \A v \in Workers : /\ ~Called(v)'
                         /\ v # w => /\ state'[v] = state[v] /\ frame'[v] = frame[v]
                                     /\ (Woken(v)' <=> Woken(v))
                                     /\ (Pending(v)' <=> Pending(v))
  BY <1>1, <1>2 DEF Called, Woken, Pending
<1>6. Pending(w)' /\ state'[w] = "WORK" /\ frame'[w] = submitted + 1
  BY <1>2 DEF Pending, Woken
<1>7. HandshakeInv'
  BY <1>1, <1>5 DEF IInv, HandshakeInv, Handshake
<1>8. RingInv'
  <2> SUFFICES ASSUME NEW v \in Workers PROVE InRing(v)'
    BY DEF RingInv
  <2>1. InRing(v)
    BY <1>1 DEF IInv, RingInv
  <2> QED
    BY <1>2, <1>3, <1>5, <1>6, <2>1 DEF InRing
<1>9. StateInv'
  BY <1>1, <1>3, <1>5, <1>6 DEF IInv, StateInv, Obeys
<1>10. TurnInv'
  <2>1. /\ FrameDue(samples_thread_num) =
             IF Copied < submitted THEN Copied + 1 ELSE submitted + 1 - N
        /\ last_samples = IF Copied = 0 THEN FirstOverlap ELSE Copied
    BY <1>1 DEF IInv, TurnInv
  <2>2. FrameDue(samples_thread_num)' =
          IF samples_thread_num = w THEN submitted + 1 ELSE FrameDue(samples_thread_num)
    BY <1>2, <1>3 DEF FrameDue, Running, Pos
  <2>3. FrameDue(samples_thread_num) = FrameDue(w) => samples_thread_num = w
    BY <1>1, <1>2, DueFacts
  <2>4. FrameDue(samples_thread_num)' = Copied + 1
    BY <1>1, <1>2, <2>1, <2>2, <2>3
  <2> QED
    BY <1>2, <1>4, <2>1, <2>4 DEF TurnInv
<1>11. CopyInv'
  <2> SUFFICES ASSUME NEW v \in Workers PROVE Overlapped(v)'
    BY DEF CopyInv
  <2>1. Overlapped(v)
    BY <1>1 DEF IInv, CopyInv
  <2>2. CASE v = w
    BY <1>1, <1>2, <1>3, <1>4, <1>6, <2>2 DEF Overlapped
  <2>3. CASE v # w
    BY <1>3, <1>4, <1>5, <2>1, <2>3 DEF Overlapped, Before
  <2> QED
    BY <2>2, <2>3
<1> QED
  BY <1>2, <1>3, <1>7, <1>8, <1>9, <1>10, <1>11 DEF StartInv

\* A failure: the visit aborts its worker.
LEMMA VisitAbortStep ==
    ASSUME IInv, NEW w \in Workers, VisitAbort(w), TypeOK', MutexInv'
    PROVE  IInv'
<1>1. /\ AtWorker(w) /\ mpc' = "signal" /\ ret' = -1
      /\ state' = [state EXCEPT ![w] = "ABORT"]
      /\ threads_running' = threads_running - 1
      /\ UNCHANGED <<confirm_mutex, enter_cond, confirm_cond, copyVars,
                     current_thread_num, last_samples_count, framesize, frame,
                     frame_buffer, count, closing, close_ret, histVars, wpc>>
  BY DEF VisitAbort
<1>2. UNCHANGED <<last_samples, overlap, samples_thread_num, submitted, delivered>>
  BY <1>1 DEF copyVars, histVars
<1>3. /\ ~Starting /\ ~Visiting /\ w = First /\ Running(w) /\ threads_running \in 1 .. N
      /\ mpc = "visit" /\ w = current_thread_num
      /\ state \in [Workers -> {"START", "WORK", "END", "ABORT"}]
  BY <1>1, VisitedWorker DEF AtWorker, IInv, TypeOK, TctxType
<1>4. threads_to_abort' = threads_running - 1
  BY <1>3 DEF VisitAbort, IInv, CountInv
<1>5. Visiting' /\ First' = Next_(First)
  BY <1>1, <1>3 DEF Visiting, First
<1>6. /\ StartInv' /\ HandshakeInv' /\ RingInv' /\ StateInv' /\ TurnInv' /\ CopyInv'
      /\ ~Starting' /\ \A v \in Workers : Running(v)' <=> Running(v) /\ v # w
  BY <1>1, <1>2, <1>3, <1>4, <1>5, RetireStep
<1>7. state'[w] = "ABORT" /\ N \in Nat
  BY <1>1, <1>3, PoolAssumption
<1>8. CountInv'
  BY <1>1, <1>3, <1>4, <1>5, <1>7 DEF CountInv, AllAborted
<1>9. DeliverInv'
  <2>1. ~AllKept'
    BY <1>6, <1>7 DEF AllKept
  <2>2. closing' => close_ret' = -1
    BY <1>1, <1>3 DEF IInv, DeliverInv
  <2> QED
    BY <2>1, <2>2 DEF DeliverInv
<1>10. CallInv'
  BY <1>1, <1>3, <1>4, <1>5, <1>7 DEF CallInv, AllAborted
<1> QED
  BY <1>6, <1>8, <1>9, <1>10 DEF IInv

\* Another call, which finds the stream drained or is fed to the worker.
LEMMA VisitDeliverStep ==
    ASSUME IInv, NEW w \in Workers, VisitDeliver(w), TypeOK', MutexInv'
    PROVE  IInv'
<1>1. /\ AtWorker(w) /\ mpc' = "signal" /\ ret' = framesize[w] /\ threads_to_abort = 0
      /\ PrepareEncode(w, state[w]) /\ framesize[w] > 0 /\ state[w] # "ABORT"
      /\ delivered' = IF closing THEN delivered ELSE Append(delivered, frame_buffer[w])
      /\ UNCHANGED <<confirm_mutex, enter_cond, confirm_cond, copyVars,
                     current_thread_num, threads_to_abort, framesize,
                     frame_buffer, count, closing, close_ret, wpc>>
  BY DEF VisitDeliver, MustAbort
<1>2. UNCHANGED <<last_samples, overlap, samples_thread_num>>
  BY <1>1 DEF copyVars
<1>3. /\ ~Starting /\ ~Visiting /\ w = First /\ Running(w) /\ threads_running \in 1 .. N
      /\ mpc = "visit" /\ w = current_thread_num
      /\ state \in [Workers -> {"START", "WORK", "END", "ABORT"}]
  BY <1>1, VisitedWorker DEF AtWorker, IInv, TypeOK, TctxType
<1>4. state[w] = "WORK" /\ framesize[w] = 1 /\ submitted >= threads_running
  BY <1>1, VisitedState
<1>5. Visiting' /\ First' = Next_(First)
  BY <1>1, <1>3 DEF Visiting, First
<1>6. /\ N \in Nat /\ submitted \in Nat /\ delivered \in Seq(Frames)
      /\ frame_buffer[w] \in Frames
  BY PoolAssumption DEF IInv, TypeOK, HistType, TctxType
<1>7. closing => close_ret = -1
  BY <1>3 DEF IInv, DeliverInv
<1>8. ~closing => Len(delivered') = Len(delivered) + 1
  BY <1>1, <1>6
<1>9. CallInv'
  BY <1>1, <1>3, <1>4, <1>5 DEF CallInv
<1>10. CASE Drained(last_samples_count)
  <2>1. /\ state' = [state EXCEPT ![w] = "END"]
        /\ threads_running' = threads_running - 1
        /\ UNCHANGED <<frame, last_samples_count, submitted>>
    BY <1>1, <1>10 DEF PrepareEncode
  <2>2. /\ StartInv' /\ HandshakeInv' /\ RingInv' /\ StateInv' /\ TurnInv' /\ CopyInv'
        /\ ~Starting' /\ \A v \in Workers : Running(v)' <=> Running(v) /\ v # w
    BY <1>1, <1>2, <1>3, <1>5, <2>1, RetireStep
  <2>3. CountInv'
    BY <1>1, <1>3, <1>5, <1>6, <1>10, <2>1 DEF CountInv
  <2>4. DeliverInv'
    <3>1. AllKept' => AllKept /\ ~closing
      BY <1>1, <1>3, <1>7, <2>1, <2>2 DEF AllKept
    <3>2. AllKept => Len(delivered) = submitted - threads_running
      BY <1>3, <1>4, <1>6 DEF IInv, DeliverInv
    <3> QED
      BY <1>1, <1>3, <1>4, <1>6, <1>7, <1>8, <2>1, <3>1, <3>2 DEF DeliverInv
  <2> QED
    BY <1>9, <2>2, <2>3, <2>4 DEF IInv
<1>11. CASE ~Drained(last_samples_count)
  <2>1. /\ state' = [state EXCEPT ![w] = "WORK"]
        /\ frame' = [frame EXCEPT ![w] = submitted + 1]
        /\ submitted' = submitted + 1 /\ UNCHANGED threads_running
    BY <1>1, <1>4, <1>11 DEF PrepareEncode
  <2>2. threads_running = N
    BY <1>1, <1>11, VisitedState
  <2>3. /\ StartInv' /\ HandshakeInv' /\ RingInv' /\ StateInv' /\ TurnInv' /\ CopyInv'
        /\ ~Starting' /\ \A v \in Workers : Running(v) /\ Running(v)'
    BY <1>1, <1>2, <1>3, <1>5, <2>1, <2>2, FeedStep
  <2>4. CountInv'
    BY <1>1, <1>3, <1>5, <1>6, <2>1, <2>2 DEF CountInv
  <2>5. DeliverInv'
    <3>1. AllKept' => AllKept /\ ~closing
      BY <1>1, <1>7, <2>3 DEF AllKept
    <3>2. AllKept => Len(delivered) = submitted - threads_running
      BY <1>3, <1>4, <1>6 DEF IInv, DeliverInv
    <3> QED
      BY <1>1, <1>3, <1>4, <1>6, <1>7, <1>8, <2>1, <3>1, <3>2 DEF DeliverInv
  <2> QED
    BY <1>9, <2>3, <2>4, <2>5 DEF IInv
<1> QED
  BY <1>10, <1>11

\* The first frame of a worker.
LEMMA VisitStartStep ==
    ASSUME IInv, NEW w \in Workers, VisitStart(w), TypeOK', MutexInv'
    PROVE  IInv'
<1>1. /\ AtWorker(w) /\ mpc' = "signal" /\ ret' = 0 /\ threads_to_abort = 0
      /\ state[w] = "START" /\ ~Drained(last_samples_count)
      /\ state' = [state EXCEPT ![w] = "WORK"]
      /\ frame' = [frame EXCEPT ![w] = submitted + 1]
      /\ submitted' = submitted + 1 /\ UNCHANGED threads_running
      /\ UNCHANGED <<confirm_mutex, enter_cond, confirm_cond, copyVars,
                     current_thread_num, threads_to_abort, framesize,
                     frame_buffer, count, closing, close_ret, delivered, wpc>>
  BY DEF VisitStart, MustAbort, PrepareEncode
<1>2. UNCHANGED <<last_samples, overlap, samples_thread_num>>
  BY <1>1 DEF copyVars
<1>3. /\ ~Starting /\ ~Visiting /\ w = First /\ Running(w) /\ threads_running \in 1 .. N
      /\ mpc = "visit" /\ w = current_thread_num
  BY <1>1, VisitedWorker DEF AtWorker
<1>4. submitted < threads_running /\ threads_running = N
  BY <1>1, VisitedState
<1>5. Visiting' /\ First' = Next_(First)
  BY <1>1, <1>3 DEF Visiting, First
<1>6. N \in Nat /\ submitted \in Nat
  BY PoolAssumption DEF IInv, TypeOK, HistType
<1>7. /\ StartInv' /\ HandshakeInv' /\ RingInv' /\ StateInv' /\ TurnInv' /\ CopyInv'
      /\ ~Starting' /\ \A v \in Workers : Running(v) /\ Running(v)'
  BY <1>1, <1>2, <1>3, <1>4, <1>5, FeedStep
<1>8. CountInv'
  BY <1>1, <1>3, <1>4, <1>5, <1>6 DEF CountInv
<1>9. DeliverInv'
  <2>1. AllKept' => AllKept
    BY <1>1, <1>7 DEF AllKept
  <2> QED
    BY <1>1, <1>3, <1>4, <1>6, <2>1 DEF IInv, DeliverInv
<1>10. CallInv'
  BY <1>1, <1>3, <1>5 DEF CallInv
<1> QED
  BY <1>7, <1>8, <1>9, <1>10 DEF IInv

\* Only a worker that never had a frame is skipped, when the stream is drained.
LEMMA VisitSkipStep ==
    ASSUME IInv, NEW w \in Workers, VisitSkip(w), TypeOK', MutexInv'
    PROVE  IInv'
<1>1. /\ AtWorker(w) /\ ret' = 0 /\ threads_to_abort = 0 /\ state[w] # "ABORT"
      /\ framesize[w] <= 0 /\ (state[w] # "START" \/ Drained(last_samples_count))
      /\ PrepareEncode(w, state[w])
      /\ current_thread_num' = Next_(current_thread_num)
      /\ mpc' = IF closing THEN "closing" ELSE "idle"
      /\ UNCHANGED <<tsVars, copyVars, threads_to_abort, framesize,
                     frame_buffer, count, closing, close_ret, delivered, wpc>>
  BY DEF VisitSkip, MustAbort, Advance
<1>2. UNCHANGED <<confirm_mutex, enter_cond, confirm_cond, last_samples, overlap,
                  samples_thread_num>>
  BY <1>1 DEF tsVars, copyVars
<1>3. /\ ~Starting /\ ~Visiting /\ w = First /\ Running(w) /\ threads_running \in 1 .. N
      /\ mpc = "visit" /\ w = current_thread_num
      /\ state \in [Workers -> {"START", "WORK", "END", "ABORT"}]
  BY <1>1, VisitedWorker DEF AtWorker, IInv, TypeOK, TctxType
<1>4. /\ state[w] = "START" /\ Drained(last_samples_count) /\ submitted < threads_running
  BY <1>1, VisitedState
<1>5. /\ state' = [state EXCEPT ![w] = "END"]
      /\ threads_running' = threads_running - 1
      /\ UNCHANGED <<frame, last_samples_count, submitted>>
  BY <1>1, <1>4 DEF PrepareEncode
<1>6. ~Visiting' /\ First' = Next_(First)
  BY <1>1, <1>3 DEF Visiting, First
<1>7. N \in Nat /\ submitted \in Nat
  BY PoolAssumption DEF IInv, TypeOK, HistType
<1>8. /\ StartInv' /\ HandshakeInv' /\ RingInv' /\ StateInv' /\ TurnInv' /\ CopyInv'
      /\ ~Starting' /\ \A v \in Workers : Running(v)' <=> Running(v) /\ v # w
  BY <1>1, <1>2, <1>3, <1>5, <1>6, RetireStep
<1>9. CountInv'
  BY <1>1, <1>3, <1>4, <1>5, <1>7 DEF CountInv
<1>10. DeliverInv'
  <2>1. AllKept' => AllKept
    BY <1>1, <1>3, <1>5, <1>8 DEF AllKept
  <2>2. AllKept => Len(delivered) = 0
    BY <1>3, <1>4, <1>7 DEF IInv, DeliverInv
  <2> QED
    BY <1>1, <1>3, <1>4, <1>5, <1>6, <1>7, <2>1, <2>2 DEF DeliverInv
<1>11. CallInv'
  BY <1>1, <1>3, <1>6 DEF CallInv
<1> QED
  BY <1>8, <1>9, <1>10, <1>11 DEF IInv

-----------------------------------------------------------------------------
(* The invariant holds in every behaviour.                                 *)

\* Every step of Main, of a worker or of the application preserves it.
LEMMA InvInductive ==
    ASSUME HandoverNotSpurious
    PROVE  IInv /\ [Next]_vars => IInv'
<1> SUFFICES ASSUME IInv, [Next]_vars PROVE IInv'
  OBVIOUS
<1>1. TypeOK' /\ MutexInv'
  BY TypeInductive, MutexInductive DEF IInv
<1>2. CASE CreateWorker \/ AwaitWorker \/ WorkerCreated
  BY <1>1, <1>2, CreateStep, AwaitStep, CreatedStep
<1>3. CASE CloseLoop \/ Join \/ Close
  BY <1>1, <1>3, CloseSteps
<1>4. ASSUME NEW c \in Counts, Encode(c) PROVE IInv'
  BY <1>1, <1>4, EncodeCallStep
<1>5. ASSUME NEW w \in Workers, Visit(w) PROVE IInv'
  BY <1>1, <1>5, VisitAbortStep, VisitStartStep, VisitDeliverStep, VisitSkipStep DEF Visit
<1>6. ASSUME NEW w \in Workers, SignalWorker(w) \/ AwaitConfirm(w) \/ Confirmed(w)
      PROVE  IInv'
  BY <1>1, <1>6, SignalStep, AwaitConfirmStep, ConfirmedStep
<1>7. ASSUME NEW w \in Workers, WorkerStep(w) PROVE IInv'
  BY <1>1, <1>7, WorkerStartStep, WorkerHelloStep, WakeStep, ConfirmStep, DispatchStep,
     TurnStep, CopyStep, EncodedStep, ExitStep DEF WorkerStep
<1>8. ASSUME NEW w \in Workers, Spurious(w) PROVE IInv'
  BY <1>1, <1>8, SpuriousStep
<1>9. CASE UNCHANGED vars
  <2>1. UNCHANGED <<mpc, wpc, tsVars, copyVars, ringVars, tctxVars, histVars, callVars>>
    BY <1>9 DEF vars
  <2>2. UNCHANGED <<enter_cond, confirm_mutex, confirm_cond, state, frame, framesize,
                    frame_buffer, threads_running, threads_to_abort, last_samples_count,
                    submitted, delivered, current_thread_num, idx, count, closing, ret,
                    close_ret, samples_thread_num, last_samples, overlap>>
    BY <2>1 DEF tsVars, copyVars, ringVars, tctxVars, histVars, callVars
  <2>3. Visiting' = Visiting /\ Starting' = Starting /\ First' = First /\ Copied' = Copied
    BY <2>1, <2>2 DEF Visiting, Starting, First, Copied
  <2>4. \A w : /\ Called(w)' = Called(w) /\ Woken(w)' = Woken(w)
               /\ Pending(w)' = Pending(w)
    BY <2>1, <2>2 DEF Called, Woken, Pending
  <2>5. \A w : /\ Pos(w)' = Pos(w) /\ Running(w)' = Running(w)
               /\ FrameDue(w)' = FrameDue(w)
    BY <2>2, <2>3, RingStays
  <2>6. StartInv' /\ CountInv' /\ CallInv' /\ DeliverInv' /\ TurnInv'
    BY <2>1, <2>2, <2>3, <2>5
       DEF IInv, StartInv, CountInv, CallInv, DeliverInv, TurnInv, AllAborted, AllKept
  <2>7. HandshakeInv' /\ RingInv' /\ StateInv' /\ CopyInv'
    BY <2>1, <2>2, <2>3, <2>4, <2>5
       DEF IInv, HandshakeInv, RingInv, StateInv, CopyInv, Handshake, InRing, Obeys,
           Overlapped, Before
  <2> QED
    BY <1>1, <2>6, <2>7 DEF IInv
<1> QED
  BY <1>2, <1>3, <1>4, <1>5, <1>6, <1>7, <1>8, <1>9
     DEF Next, MainStep, Application, Finished

\* The invariant of the pool, for every number of threads.
THEOREM PoolInvariant ==
    ASSUME HandoverNotSpurious
    PROVE  Spec => []IInv
  BY InvInit, InvInductive, PTL DEF Spec

\* Whenever Main signals a worker, or a worker signals Main, the other is asleep
\* on the condition: the unrepeated waits of the hand-over miss no signal.
THEOREM WakeupsAreNotLost ==
    ASSUME HandoverNotSpurious
    PROVE  Spec => []NoLostWakeup
<1>1. IInv => NoLostWakeup
  <2> SUFFICES ASSUME IInv PROVE NoLostWakeup
    OBVIOUS
  <2>1. current_thread_num \in Workers
    BY DEF IInv, TypeOK, RingType
  <2>2. mpc = "signal" => /\ wpc[current_thread_num] = "asleep"
                          /\ current_thread_num \in enter_cond[current_thread_num]
    BY <2>1 DEF IInv, HandshakeInv, Handshake, Starting
  <2>3. ASSUME NEW w \in Workers, wpc[w] = "confirm", confirm_mutex[w] = None
        PROVE  Main \in confirm_cond[w]
    <3>1. ~Starting /\ Called(w)
      BY <2>3, OnlyGreetings DEF Called
    <3>2. mpc = "confirm" /\ current_thread_num = w
      BY <2>3, <3>1 DEF IInv, HandshakeInv, Handshake, Main, None
    <3> QED
      BY <3>1, <3>2 DEF IInv, HandshakeInv, Handshake
  <2> QED
    BY <2>2, <2>3 DEF NoLostWakeup
<1> QED
  BY <1>1, PoolInvariant, PTL

\* Whatever order the workers run in, a frame is overlapped with the samples of
\* the frame submitted before it.
THEOREM CopiesAreInOrder ==
    ASSUME HandoverNotSpurious
    PROVE  Spec => []CopiesInOrder
<1>1. IInv => CopiesInOrder
  <2> SUFFICES ASSUME IInv, NEW w \in Workers, wpc[w] = "copy"
               PROVE  last_samples = IF frame[w] = 1 THEN FirstOverlap ELSE frame[w] - 1
    BY DEF CopiesInOrder
  <2>1. ~Starting
    BY OnlyGreetings
  <2>2. frame[w] = Copied + 1
    BY <2>1, CopierIsNext
  <2>3. /\ Copied \in Nat
        /\ last_samples = IF Copied = 0 THEN FirstOverlap ELSE Copied
    BY <2>1 DEF IInv, TurnInv, TypeOK, HistType
  <2> QED
    BY <2>2, <2>3
<1> QED
  BY <1>1, PoolInvariant, PTL

\* Between calls the threads_running next workers of the ring are the ones that
\* still run, and the others are on their way out.
THEOREM RunningWorkersAreNext ==
    ASSUME HandoverNotSpurious
    PROVE  Spec => []RunningAreNext
<1>1. IInv => RunningAreNext
  <2> SUFFICES ASSUME IInv, mpc = "idle", NEW i \in 0 .. N - 1,
                      NEW w, w = (current_thread_num + i) % N
               PROVE  IF i < threads_running
                        THEN state[w] # "END" /\ wpc[w] \notin {"exit", "done"}
                        ELSE state[w] \in {"END", "ABORT"}
    BY DEF RunningAreNext
  <2>1. ~Starting /\ First = current_thread_num /\ current_thread_num \in 0 .. N - 1
        /\ N \in Nat /\ N > 1 /\ threads_running \in 0 .. N
    BY PoolAssumption
       DEF Starting, First, Visiting, IInv, TypeOK, RingType, Workers, CountInv
  <2>2. w = IF current_thread_num + i < N THEN current_thread_num + i
            ELSE current_thread_num + i - N
    BY <2>1
  <2>3. w \in Workers /\ Pos(w) = i
    BY <2>1, <2>2 DEF Workers, Pos
  <2>4. Running(w) <=> i < threads_running
    BY <2>3 DEF Running
  <2> QED
    BY <2>1, <2>3, <2>4 DEF IInv, RingInv, InRing, StateInv, Obeys
<1> QED
  BY <1>1, PoolInvariant, PTL

\* When aften_encode_close returns 0 and no worker was aborted, every frame that
\* was accepted has been delivered.
THEOREM CloseIsClean ==
    ASSUME HandoverNotSpurious
    PROVE  Spec => []CleanClose
<1>1. IInv => CleanClose
  <2> SUFFICES ASSUME IInv, mpc = "closed", close_ret = 0, \A w \in Workers : state[w] = "END"
               PROVE  Len(delivered) = submitted
    BY DEF CleanClose
  <2>1. ~Starting /\ threads_running = 0 /\ submitted \in Nat
    BY DEF Starting, IInv, CallInv, TypeOK, HistType
  <2>2. AllKept
    BY DEF AllKept
  <2> QED
    BY <2>1, <2>2 DEF IInv, DeliverInv
<1> QED
  BY <1>1, PoolInvariant, PTL

-----------------------------------------------------------------------------
(* Somebody can always go on.                                              *)

\* Who sleeps on samples_cond waits for a turn that is another worker's.
SleepInv ==
    \A w \in Workers :
        /\ samples_cond[w] \subseteq {w}
        /\ w \in samples_cond[w] => wpc[w] = "turn" /\ samples_thread_num # w

\* A worker that was retired has been woken for it and ends, unless the stream
\* was drained before its first frame.
Leaves(w) ==
    \/ Running(w) \/ Woken(w) \/ wpc[w] \in {"exit", "done"}
    \/ FrameDue(w) <= 0 /\ Drained(last_samples_count)

LeaveInv == ~Starting => \A w \in Workers : Leaves(w)

\* Only copy_samples moves turns and sleepers.
LEMMA SleepersStay ==
    ASSUME SleepInv, UNCHANGED <<samples_cond, samples_thread_num>>,
           \A v \in Workers : wpc[v] = "turn" => wpc'[v] = "turn"
    PROVE  SleepInv'
  BY DEF SleepInv

\* A worker that copies wakes its successor along with giving it the turn.
LEMMA SleepInductive ==
    IInv /\ SleepInv /\ [Next]_vars => SleepInv'
<1> SUFFICES ASSUME IInv, SleepInv, [Next]_vars PROVE SleepInv'
  OBVIOUS
<1>1. /\ wpc \in [Workers -> WorkerPcs] /\ samples_cond \in [Workers -> SUBSET Threads]
      /\ samples_thread_num \in Workers
  BY DEF IInv, TypeOK, PcType, CopyType
<1>2. CASE MainStep \/ Application \/ UNCHANGED vars
  <2>1. UNCHANGED <<samples_cond, samples_thread_num>>
    BY <1>2 DEF MainStep, Application, CreateWorker, AwaitWorker, WorkerCreated, CloseLoop,
       Join, Visit, VisitAbort, VisitStart, VisitDeliver, VisitSkip, SignalWorker,
       AwaitConfirm, Confirmed, Close, Encode, copyVars, vars
  <2>2. \A v \in Workers : wpc[v] = "turn" => wpc'[v] = "turn"
    <3>1. CASE CreateWorker
      <4>1. mpc = "create" /\ wpc' = [wpc EXCEPT ![idx] = "start"]
        BY <3>1 DEF CreateWorker
      <4>2. Starting
        BY <4>1 DEF Starting
      <4> QED
        BY <4>1, <4>2, OnlyGreetings
    <3>2. CASE ~CreateWorker
      BY <1>2, <3>2 DEF MainStep, Application, AwaitWorker, WorkerCreated, CloseLoop,
         Join, Visit, VisitAbort, VisitStart, VisitDeliver, VisitSkip, SignalWorker,
         AwaitConfirm, Confirmed, Close, Encode, vars
    <3> QED
      BY <3>1, <3>2
  <2> QED
    BY <2>1, <2>2, SleepersStay
<1>3. ASSUME NEW w \in Workers, WorkerStep(w), ~WorkerTurn(w), ~WorkerCopy(w)
      PROVE  SleepInv'
  <2>1. UNCHANGED <<samples_cond, samples_thread_num>>
    BY <1>3 DEF WorkerStep, WorkerStart, WorkerHello, WorkerWake, WorkerConfirm,
       WorkerDispatch, WorkerEncode, WorkerExit, copyVars
  <2>2. \A v \in Workers : wpc[v] = "turn" => wpc'[v] = "turn"
    BY <1>1, <1>3 DEF WorkerStep, WorkerStart, WorkerHello, WorkerWake, WorkerConfirm,
       WorkerDispatch, WorkerEncode, WorkerExit
  <2> QED
    BY <2>1, <2>2, SleepersStay
<1>4. ASSUME NEW w \in Workers, WorkerTurn(w) PROVE SleepInv'
  <2>1. /\ wpc[w] = "turn" /\ w \notin samples_cond[w] /\ UNCHANGED samples_thread_num
        /\ \/ samples_thread_num = w /\ wpc' = [wpc EXCEPT ![w] = "copy"]
              /\ UNCHANGED samples_cond
           \/ samples_thread_num # w /\ UNCHANGED wpc
              /\ samples_cond' = [samples_cond EXCEPT ![w] = @ \cup {w}]
    BY <1>4 DEF WorkerTurn
  <2> QED
    BY <1>1, <2>1 DEF SleepInv
<1>5. ASSUME NEW w \in Workers, WorkerCopy(w) PROVE SleepInv'
  <2>1. /\ wpc[w] = "copy" /\ samples_thread_num' = Next_(samples_thread_num)
        /\ wpc' = [wpc EXCEPT ![w] = "encode"]
        /\ \E rest \in Signalled(samples_cond[Next_(w)]) :
             samples_cond' = [samples_cond EXCEPT ![Next_(w)] = rest]
    BY <1>5 DEF WorkerCopy
  <2>2. ~Starting
    BY <2>1, OnlyGreetings
  <2>3. samples_thread_num = w /\ Next_(w) \in Workers
    BY <2>1, <2>2, NextWorkerType DEF IInv, CopyInv, Overlapped
  <2>4. samples_cond[Next_(w)] \subseteq {Next_(w)}
    BY <2>3 DEF SleepInv
  <2>5. samples_cond' = [samples_cond EXCEPT ![Next_(w)] = {}]
    BY <2>1, <2>4 DEF Signalled
  <2>6. \A v \in Workers : v \in samples_cond[v] => wpc'[v] = wpc[v]
    BY <1>1, <2>1 DEF SleepInv
  <2> QED
    BY <1>1, <2>1, <2>3, <2>5, <2>6 DEF SleepInv
<1>6. ASSUME NEW w \in Workers, Spurious(w) PROVE SleepInv'
  <2>1. UNCHANGED <<wpc, samples_thread_num>>
    BY <1>6 DEF Spurious
  <2>2. \A v \in Workers : samples_cond'[v] \subseteq samples_cond[v]
    BY <1>1, <1>6 DEF Spurious
  <2> QED
    BY <2>1, <2>2 DEF SleepInv
<1> QED
  BY <1>2, <1>3, <1>4, <1>5, <1>6 DEF Next, Finished

\* Where the ring stands still, only a worker's own way can matter.
LEMMA LeaversStay ==
    ASSUME IInv, LeaveInv, ~Starting, First' = First,
           UNCHANGED <<threads_running, submitted, last_samples_count>>,
           \A v \in Workers :
               Woken(v) \/ wpc[v] \in {"exit", "done"} =>
                   Woken(v)' \/ wpc'[v] \in {"exit", "done"}
    PROVE  LeaveInv'
<1>1. \A v : Running(v)' = Running(v) /\ FrameDue(v)' = FrameDue(v)
  BY RingStays
<1> QED
  BY <1>1 DEF LeaveInv, Leaves

\* Main signals each worker that it retires, except one that never had a frame;
\* and a worker told to stop goes to its end.
LEMMA LeaveInductive ==
    ASSUME HandoverNotSpurious
    PROVE  IInv /\ IInv' /\ LeaveInv /\ [Next]_vars => LeaveInv'
<1> SUFFICES ASSUME IInv, IInv', LeaveInv, [Next]_vars, ~Starting'
             PROVE  LeaveInv'
  BY DEF LeaveInv
<1>1. wpc \in [Workers -> WorkerPcs] /\ enter_cond \in [Workers -> SUBSET Threads]
  BY DEF IInv, TypeOK, PcType, TsType
<1>2. CASE Starting
  <2>1. WorkerCreated
    BY <1>2, OnlyGreetings DEF Next, MainStep, Application, WorkerStep, Finished, CreateWorker,
       AwaitWorker, CloseLoop, Join, Visit, VisitAbort, VisitStart, VisitDeliver, VisitSkip,
       AtWorker, SignalWorker, AwaitConfirm, Confirmed, Close, Encode, Starting, WorkerStart,
       WorkerHello, WorkerWake, WorkerConfirm, WorkerDispatch, WorkerTurn, WorkerCopy,
       WorkerEncode, WorkerExit, Spurious, vars
  <2>2. /\ UNCHANGED <<last_samples_count, threads_to_abort, state>>
        /\ last_samples_count = NoCallYet /\ threads_to_abort = 0
        /\ \A w \in Workers : state[w] = "START"
    BY <1>2, <2>1 DEF WorkerCreated, ringVars, IInv, StartInv
  <2>3. \A w \in Workers : Running(w)'
    BY <2>2 DEF IInv, RingInv, InRing
  <2> QED
    BY <2>3 DEF LeaveInv, Leaves
<1> SUFFICES ASSUME ~Starting PROVE LeaveInv'
  BY <1>2
<1>3. ASSUME NEW w \in Workers, WorkerStep(w) PROVE LeaveInv'
  <2>1. /\ UNCHANGED <<mpc, current_thread_num, threads_running, submitted, last_samples_count>>
        /\ \A v \in Workers : v # w => wpc'[v] = wpc[v] /\ enter_cond'[v] = enter_cond[v]
    <3>1. wpc[w] \notin {"start", "hello"}
      BY DEF IInv, HandshakeInv, Handshake
    <3> QED
      BY <1>1, <1>3, <3>1 DEF WorkerStep, WorkerStart, WorkerHello, WorkerWake, WorkerConfirm,
         WorkerDispatch, WorkerTurn, WorkerCopy, WorkerEncode, WorkerExit, tsVars, copyVars,
         ringVars, histVars
  <2>2. First' = First
    BY <2>1 DEF First, Visiting
  <2>3. CASE WorkerWake(w) \/ WorkerConfirm(w) \/ WorkerExit(w)
    <3>1. /\ wpc[w] \in {"asleep", "confirm", "exit"}
          /\ wpc'[w] \in {"confirm", "dispatch", "done"}
      BY <1>1, <2>3 DEF WorkerWake, WorkerConfirm, WorkerExit
    <3>2. \A v \in Workers : Woken(v) \/ wpc[v] \in {"exit", "done"} =>
                   Woken(v)' \/ wpc'[v] \in {"exit", "done"}
      BY <2>1, <3>1 DEF Woken, Called
    <3> QED
      BY <2>1, <2>2, <3>2, LeaversStay
  <2>4. CASE WorkerDispatch(w) /\ state[w] \in {"END", "ABORT"}
    <3>1. wpc'[w] = "exit"
      BY <1>1, <2>4 DEF WorkerDispatch
    <3>2. \A v \in Workers : Woken(v) \/ wpc[v] \in {"exit", "done"} =>
                   Woken(v)' \/ wpc'[v] \in {"exit", "done"}
      BY <2>1, <3>1 DEF Woken, Called
    <3> QED
      BY <2>1, <2>2, <3>2, LeaversStay
  <2>5. CASE state[w] \notin {"END", "ABORT"}
    <3>1. Running(w) /\ Running(w)'
      BY <2>1, <2>2, <2>5, RingStays DEF IInv, RingInv, InRing
    <3>2. ASSUME NEW v \in Workers PROVE Leaves(v)'
      <4>1. CASE v = w
        BY <3>1, <4>1 DEF Leaves
      <4>2. CASE v # w
        <5>1. Leaves(v) /\ Running(v)' = Running(v) /\ FrameDue(v)' = FrameDue(v)
          BY <2>1, <2>2, RingStays DEF LeaveInv
        <5>2. Woken(v)' = Woken(v) /\ wpc'[v] = wpc[v]
          BY <2>1, <4>2 DEF Woken, Called
        <5> QED
          BY <2>1, <5>1, <5>2 DEF Leaves
      <4> QED
        BY <4>1, <4>2
    <3> QED
      BY <3>2 DEF LeaveInv
  <2>6. wpc[w] \in {"turn", "copy", "encode"} => state[w] = "WORK"
    BY DEF IInv, StateInv, Obeys
  <2> QED
    BY <1>3, <2>1, <2>3, <2>4, <2>5, <2>6 DEF WorkerStep, WorkerTurn, WorkerCopy, WorkerEncode,
       WorkerDispatch, WorkerStart, WorkerHello, IInv, HandshakeInv, Handshake
<1>4. ASSUME NEW w \in Workers, SignalWorker(w) PROVE LeaveInv'
  <2>1. /\ mpc = "signal" /\ mpc' = "await" /\ w = current_thread_num
        /\ UNCHANGED <<wpc, current_thread_num, threads_running, submitted, last_samples_count>>
        /\ \A v \in Workers : v # w => enter_cond'[v] = enter_cond[v]
    BY <1>1, <1>4 DEF SignalWorker, ringVars, histVars
  <2>2. First' = First
    BY <2>1 DEF First, Visiting
  <2>3. Called(w)'
    BY <2>1 DEF IInv, HandshakeInv, Handshake
  <2>4. \A v \in Workers : Woken(v) \/ wpc[v] \in {"exit", "done"} =>
                 Woken(v)' \/ wpc'[v] \in {"exit", "done"}
    BY <2>1, <2>3 DEF Woken, Called
  <2> QED
    BY <2>1, <2>2, <2>4, LeaversStay
<1>5. CASE Application \/ CloseLoop \/ Join \/ UNCHANGED vars
           \/ \E w \in Workers : AwaitConfirm(w) \/ Confirmed(w) \/ Spurious(w)
  <2>1. /\ UNCHANGED <<wpc, enter_cond, threads_running, submitted, last_samples_count>>
        /\ mpc = "signal" => UNCHANGED <<mpc, current_thread_num>>
    BY <1>5 DEF Application, Close, Encode, CloseLoop, Join, AwaitConfirm, Confirmed, Spurious,
       HandoverNotSpurious, vars, tsVars, ringVars, histVars, vars
  <2>2. First' = First
    BY <1>5 DEF Application, Close, Encode, CloseLoop, Join, AwaitConfirm, Confirmed, Spurious,
       ringVars, vars, First, Visiting, Advance
  <2>3. \A v \in Workers : Woken(v) \/ wpc[v] \in {"exit", "done"} =>
                 Woken(v)' \/ wpc'[v] \in {"exit", "done"}
    BY <2>1 DEF Woken, Called
  <2> QED
    BY <2>1, <2>2, <2>3, LeaversStay
<1>6. ASSUME NEW w \in Workers, Visit(w) PROVE LeaveInv'
  <2>1. /\ AtWorker(w) /\ UNCHANGED <<wpc, enter_cond>>
        /\ \/ mpc' = "signal" /\ UNCHANGED current_thread_num
           \/ VisitSkip(w)
    BY <1>6 DEF Visit, VisitAbort, VisitStart, VisitDeliver, VisitSkip, tsVars
  <2>2. /\ ~Visiting /\ w = First /\ Running(w) /\ threads_running \in 1 .. N
        /\ mpc = "visit" /\ w = current_thread_num
    BY <2>1, VisitedWorker DEF AtWorker
  <2>3. First' = Next_(First)
    BY <2>1, <2>2 DEF First, Visiting, VisitSkip, Advance
  <2>4. \A v \in Workers : (Called(v) \/ wpc[v] = "dispatch" \/ wpc[v] \in {"exit", "done"}) =>
                            (Woken(v)' \/ wpc'[v] \in {"exit", "done"})
    BY <2>1 DEF Woken, Called
  <2>5. CASE \/ VisitAbort(w) \/ Drained(last_samples_count)
    <3>1. /\ threads_running' = threads_running - 1
          /\ UNCHANGED <<submitted, last_samples_count>>
      BY <1>6, <2>5 DEF Visit, VisitAbort, VisitStart, VisitDeliver, VisitSkip, PrepareEncode,
         histVars
    <3>2. Drained(last_samples_count)' = Drained(last_samples_count)
      BY <3>1 DEF Drained
    <3>3. \A v \in Workers : /\ Running(v)' <=> Running(v) /\ v # First
                             /\ FrameDue(v)' = FrameDue(v)
      BY <2>2, <2>3, <3>1, RingRetires DEF IInv
    <3>4. Woken(w)' \/ (FrameDue(w) <= 0 /\ Drained(last_samples_count))
      <4>1. CASE mpc' = "signal"
        BY <2>1, <2>2, <4>1 DEF Woken, VisitSkip, Advance
      <4>2. CASE VisitSkip(w)
        <5>1. state[w] = "START" /\ Drained(last_samples_count)
          BY <2>1, <4>2, VisitedState DEF VisitSkip, MustAbort
        <5> QED
          BY <2>2, <5>1 DEF IInv, RingInv, InRing
      <4> QED
        BY <2>1, <4>1, <4>2
    <3>5. ASSUME NEW v \in Workers, v # w PROVE Leaves(v)'
      <4>1. Leaves(v) /\ (Woken(v) => Called(v) \/ wpc[v] = "dispatch")
        BY <2>2 DEF LeaveInv, Woken
      <4>2. /\ Running(v) => Running(v)'
            /\ Woken(v) \/ wpc[v] \in {"exit", "done"} => Woken(v)' \/ wpc'[v] \in {"exit", "done"}
            /\ FrameDue(v) <= 0 => FrameDue(v)' <= 0
        BY <2>2, <2>4, <3>3, <3>5, <4>1
      <4> QED
        BY <3>2, <4>1, <4>2 DEF Leaves
    <3>6. Leaves(w)'
      <4>1. FrameDue(w) <= 0 => FrameDue(w)' <= 0
        BY <3>3
      <4> QED
        BY <3>4, <3>2, <4>1 DEF Leaves
    <3> QED
      BY <3>5, <3>6 DEF LeaveInv
  <2>6. CASE ~VisitAbort(w) /\ ~Drained(last_samples_count)
    <3>1. threads_running = N /\ threads_running' = N /\ submitted' = submitted + 1
      BY <1>6, <2>1, <2>6, VisitedState DEF Visit, VisitAbort, VisitStart, VisitDeliver,
         VisitSkip, PrepareEncode, MustAbort
    <3> QED
      BY <2>2, <2>3, <3>1, RingFeeds DEF IInv, LeaveInv, Leaves
  <2> QED
    BY <2>5, <2>6
<1> QED
  BY <1>3, <1>4, <1>5, <1>6 DEF Next, MainStep, Finished, Starting, CreateWorker, AwaitWorker,
     WorkerCreated

\* Nobody but Main, in the greeting and the hand-over, holds up a sleeping worker.
LEMMA FreeToEnter ==
    ASSUME IInv, NEW w \in Workers, wpc[w] \notin Active,
           ~(mpc = "greet" /\ idx = w), ~(mpc = "signal" /\ current_thread_num = w)
    PROVE  enter_mutex[w] = None
  BY DEF IInv, MutexInv

\* While threads are created, Main and the latest worker wait for each other in turn.
LEMMA GreetingsGoOn ==
    ASSUME IInv, Starting
    PROVE  MainCanStep \/ \E w \in Workers : WorkerCanStep(w)
<1>1. StartInv /\ idx \in Workers /\ Main \notin Workers
  BY DEF IInv, TypeOK, CallType, Main, Workers
<1>2. CASE mpc = "create"
  <2>1. enter_mutex[idx] = None
    BY <1>1, <1>2, FreeToEnter DEF StartInv, Active
  <2> QED
    BY <1>2, <2>1 DEF MainCanStep
<1>3. CASE mpc = "greet"
  BY <1>3 DEF MainCanStep
<1>4. CASE mpc = "created"
  <2>1. \/ wpc[idx] = "start"
        \/ wpc[idx] = "hello"
        \/ wpc[idx] = "asleep" /\ Main \notin enter_cond[idx]
    BY <1>1, <1>4 DEF StartInv
  <2>2. enter_mutex[idx] = None
    BY <1>1, <1>4, <2>1, FreeToEnter DEF Active
  <2> QED
    BY <1>1, <1>4, <2>1, <2>2 DEF MainCanStep, WorkerCanStep
<1> QED
  BY <1>2, <1>3, <1>4 DEF Starting

\* If the worker that Main waits for is to copy, some worker on the way to that
\* can go on: the one whose turn it is, or the one that copies.
LEMMA CopiesGoOn ==
    ASSUME IInv, SleepInv, mpc = "visit", NEW w \in Workers, wpc[w] = "turn"
    PROVE  \E v \in Workers : WorkerCanStep(v)
<1> DEFINE s == samples_thread_num
<1>1. /\ ~Starting /\ s \in Workers /\ samples_mutex \in Workers \cup {None}
      /\ submitted \in Nat /\ TypeOK /\ threads_running \in 0 .. N
  BY DEF Starting, IInv, TypeOK, CopyType, HistType, CountInv
<1>2. FrameDue(w) > Copied
  <2>1. Pending(w)
    BY <1>1 DEF IInv, StateInv, Obeys, Pending
  <2> QED
    BY <1>1, <2>1 DEF IInv, CopyInv, Overlapped
<1>3. Copied \in 0 .. submitted
  BY <1>1 DEF IInv, TurnInv
<1>4. FrameDue(w) \in (submitted + 1 - N) .. submitted
  BY <1>1, DueFacts
<1>5. Copied < submitted
  BY <1>1, <1>2, <1>3, <1>4, PoolAssumption
<1>6. FrameDue(s) = Copied + 1
  BY <1>1, <1>5 DEF IInv, TurnInv
<1>7. Pending(s)
  BY <1>1, <1>3, <1>6 DEF IInv, CopyInv, Overlapped
<1>8. ~Called(s)
  BY <1>1 DEF IInv, HandshakeInv, Handshake
<1>9. wpc[s] \in {"dispatch", "turn", "copy"}
  BY <1>7, <1>8 DEF Pending, Woken
<1>10. CASE wpc[s] = "turn" /\ samples_mutex # None
  <2>1. samples_mutex \in Workers /\ wpc[samples_mutex] = "copy"
    BY <1>1, <1>10 DEF IInv, MutexInv
  <2> QED
    BY <2>1 DEF WorkerCanStep
<1>11. CASE ~(wpc[s] = "turn" /\ samples_mutex # None)
  <2>1. s \notin samples_cond[s]
    BY <1>1 DEF SleepInv
  <2> QED
    BY <1>1, <1>9, <1>11, <2>1 DEF WorkerCanStep
<1> QED
  BY <1>10, <1>11

\* A thread that aften_encode_close joins is on its way, or has never had a frame.
LEMMA JoinGoesOn ==
    ASSUME IInv, LeaveInv, mpc = "join", EveryWorkerFed
    PROVE  MainCanStep \/ WorkerCanStep(idx)
<1>1. /\ ~Starting /\ idx \in Workers /\ threads_running = 0
      /\ submitted \in Nat /\ TypeOK /\ N \in Nat
  BY PoolAssumption DEF Starting, IInv, TypeOK, CallType, HistType, CallInv
<1>2. Leaves(idx) /\ ~Called(idx)
  BY <1>1 DEF LeaveInv, IInv, HandshakeInv, Handshake
<1>3. ~Running(idx) /\ FrameDue(idx) \in (submitted + 1 - N) .. submitted
  <2>1. Pos(idx) \in 0 .. N - 1
    BY <1>1, PosFacts
  <2> QED
    BY <1>1, <2>1 DEF Running, FrameDue
<1>4. ~(FrameDue(idx) <= 0 /\ Drained(last_samples_count))
  BY <1>1, <1>3 DEF EveryWorkerFed
<1>5. wpc[idx] \in {"dispatch", "exit", "done"}
  BY <1>2, <1>3, <1>4 DEF Leaves, Woken
<1> QED
  BY <1>5 DEF MainCanStep, WorkerCanStep, Joinable

\* Nobody waits for a thread that waits for him.
LEMMA SomebodyGoesOn ==
    ASSUME IInv, SleepInv, LeaveInv
    PROVE  NoDeadlock
<1> SUFFICES ASSUME mpc \notin {"idle", "join", "closed"}
             PROVE  MainCanStep \/ \E w \in Workers : WorkerCanStep(w)
  BY JoinGoesOn DEF NoDeadlock
<1> DEFINE w == current_thread_num
<1>1. w \in Workers /\ mpc \in MainPcs /\ wpc[w] \in WorkerPcs
  BY DEF IInv, TypeOK, RingType, PcType
<1>2. CASE Starting
  BY <1>2, GreetingsGoOn
<1>3. CASE mpc = "signal"
  <2>1. confirm_mutex[w] = None
    BY <1>1, <1>3 DEF Starting, IInv, HandshakeInv, Handshake
  <2> QED
    BY <1>3, <2>1 DEF MainCanStep
<1>4. CASE mpc \in {"await", "closing"}
  BY <1>4 DEF MainCanStep
<1>5. CASE mpc = "confirm"
  <2>1. /\ confirm_mutex[w] = None
        /\ ~Called(w) => confirm_cond[w] = {}
    BY <1>1, <1>5 DEF Starting, IInv, HandshakeInv, Handshake
  <2>2. CASE Called(w)
    <3>1. wpc[w] = "asleep" => enter_mutex[w] = None
      BY <1>1, <1>5, FreeToEnter DEF Active
    <3> QED
      BY <1>1, <2>1, <2>2, <3>1 DEF Called, WorkerCanStep
  <2>3. CASE ~Called(w)
    BY <1>5, <2>1, <2>3 DEF MainCanStep
  <2> QED
    BY <2>2, <2>3
<1>6. CASE mpc = "visit"
  <2>1. CASE enter_mutex[w] = None
    BY <1>6, <2>1 DEF MainCanStep
  <2>2. CASE enter_mutex[w] # None
    <3>1. wpc[w] \in Active
      BY <1>1, <1>6, <2>2, FreeToEnter
    <3>2. wpc[w] # "confirm"
      BY <1>1, <1>6 DEF Starting, IInv, HandshakeInv, Handshake, Called
    <3>3. CASE wpc[w] = "turn"
      BY <1>1, <1>6, <3>3, CopiesGoOn
    <3>4. CASE wpc[w] # "turn"
      BY <1>1, <3>1, <3>2, <3>4 DEF WorkerCanStep, Active
    <3> QED
      BY <3>3, <3>4
  <2> QED
    BY <2>1, <2>2
<1> QED
  BY <1>1, <1>2, <1>3, <1>4, <1>5, <1>6 DEF MainPcs, Starting

\* Inside a call of the library some thread can always go on, and a thread that
\* aften_encode_close joins has ended or is on its way when every worker had a
\* frame: the mutexes, conditions and turns of the pool never block all threads.
THEOREM PoolNeverDeadlocks ==
    ASSUME HandoverNotSpurious
    PROVE  Spec => []NoDeadlock
<1>1. Init => SleepInv /\ LeaveInv
  BY DEF Init, SleepInv, LeaveInv, Starting
<1>2. IInv /\ IInv' /\ SleepInv /\ LeaveInv /\ [Next]_vars => SleepInv' /\ LeaveInv'
  BY SleepInductive, LeaveInductive
<1>3. IInv /\ SleepInv /\ LeaveInv => NoDeadlock
  BY SomebodyGoesOn
<1> QED
  BY <1>1, <1>2, <1>3, PoolInvariant, PTL DEF Spec
=============================================================================
