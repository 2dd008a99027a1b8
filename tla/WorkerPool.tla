----------------------------- MODULE WorkerPool -----------------------------
(***************************************************************************)
(* The multi-threaded encoder of libaften (a52enc.c and the POSIX half of  *)
(* threading.h), for n_threads = N > 1.                                    *)
(*                                                                         *)
(* The application's thread ("Main") runs aften_encode_init, then any      *)
(* sequence of aften_encode_frame calls, then aften_encode_close.  Worker  *)
(* w \in 0..N-1 runs threaded_worker.  Main hands one frame to one worker  *)
(* per call, in ring order, and takes the worker's previous frame back.    *)
(* The workers encode concurrently, except that copy_samples chains the    *)
(* shared overlap buffer last_samples from frame to frame and is taken in  *)
(* ring order too.                                                         *)
(*                                                                         *)
(* A mutex variable holds the thread that owns it or None.  A condition    *)
(* variable is the set of threads asleep on it: a signal takes one of them *)
(* out, and a thread out of the set continues once it has the mutex back.  *)
(* One action is a stretch of code between two points where the thread can *)
(* block.  Audio is abstracted to frame numbers: the k-th accepted call    *)
(* carries frame k, and an encoded frame is the pair <<k, p>> of the frame *)
(* and of the frame p whose last 256 samples it was overlapped with.       *)
(***************************************************************************)
EXTENDS SampleCounts, Sequences, FiniteSets

CONSTANTS
    N,                 \* n_threads
    Counts,            \* sample counts the application may pass
    MaxFrames,         \* bound: full frames the application submits
    InitialSamples,    \* s->initial_samples is given
    EncodeFails,       \* bit allocation may fail
    SpuriousOn         \* conditions whose waits may return without a signal

ASSUME PoolAssumption ==
    /\ N \in Nat /\ N > 1
    /\ Counts \subseteq Int
    /\ MaxFrames \in Nat
    /\ InitialSamples \in BOOLEAN
    /\ EncodeFails \in BOOLEAN
    /\ SpuriousOn \subseteq {"enter", "confirm", "samples"}

Workers == 0 .. N - 1
Main    == -1
None    == -2
Threads == Workers \cup {Main}

VARIABLES
    \* A52ThreadSync of every worker
    enter_mutex, confirm_mutex, enter_cond, confirm_cond, samples_cond,
    \* A52GlobalThreadSync
    current_thread_num, threads_to_abort, threads_running,
    samples_thread_num, samples_mutex,
    \* A52Context: what copy_samples and prepare_encode carry over
    last_samples, last_samples_count,
    \* A52ThreadContext of every worker
    state, framesize,
    frame,             \* the frame in frame.input_audio
    overlap,           \* the frame that blocks[0].input_samples starts with
    frame_buffer,      \* the encoded frame
    \* control
    wpc,               \* where worker w is in threaded_worker
    mpc,               \* where Main is
    idx,               \* Main's loop index in aften_encode_init and _close
    count,             \* the count of the call in progress
    closing,           \* the call in progress comes from aften_encode_close
    ret,               \* what the latest aften_encode_frame returns
    close_ret,         \* what aften_encode_close returns
    \* history
    submitted,         \* frames accepted by prepare_encode
    delivered          \* encoded frames given to the application

tsVars   == <<enter_mutex, confirm_mutex, enter_cond, confirm_cond>>
copyVars == <<samples_mutex, samples_cond, samples_thread_num, last_samples, overlap>>
ringVars == <<current_thread_num, threads_to_abort, threads_running, last_samples_count>>
tctxVars == <<state, framesize, frame, frame_buffer>>
callVars == <<idx, count, closing, ret, close_ret>>
histVars == <<submitted, delivered>>
vars     == <<tsVars, copyVars, ringVars, tctxVars, callVars, histVars, wpc, mpc>>

Next_(w) == (w + 1) % N

\* No frame, and the overlap before the first frame: silence, or the 256
\* samples given as initial_samples, which count as frame 0.
NoFrame      == -1
FirstOverlap == IF InitialSamples THEN 0 ELSE NoFrame

FrameNo == {NoFrame} \cup Nat

Init ==
    /\ enter_mutex = [w \in Workers |-> None]
    /\ confirm_mutex = [w \in Workers |-> None]
    /\ enter_cond = [w \in Workers |-> {}]
    /\ confirm_cond = [w \in Workers |-> {}]
    /\ samples_cond = [w \in Workers |-> {}]
    /\ samples_mutex = None
    /\ current_thread_num = 0
    /\ threads_to_abort = 0
    /\ threads_running = 0
    /\ samples_thread_num = 0
    /\ last_samples = NoFrame
    /\ last_samples_count = NoCallYet
    /\ state = [w \in Workers |-> "START"]
    /\ framesize = [w \in Workers |-> 0]
    /\ frame = [w \in Workers |-> NoFrame]
    /\ overlap = [w \in Workers |-> NoFrame]
    /\ frame_buffer = [w \in Workers |-> <<NoFrame, NoFrame>>]
    /\ wpc = [w \in Workers |-> "unborn"]
    /\ mpc = "create"
    /\ idx = 0
    /\ count = 0
    /\ closing = FALSE
    /\ ret = 0
    /\ close_ret = 0
    /\ submitted = 0
    /\ delivered = <<>>

-----------------------------------------------------------------------------
(* Condition variables.                                                    *)

\* pthread_cond_signal: the sleepers that may remain.
Signalled(sleepers) ==
    IF sleepers = {} THEN {sleepers} ELSE {sleepers \ {t} : t \in sleepers}

-----------------------------------------------------------------------------
(* aften_encode_init: the thread-creation loop.                            *)

\* Lock enter_mutex of worker idx and create its thread.
CreateWorker ==
    /\ mpc = "create"
    /\ enter_mutex[idx] = None
    /\ enter_mutex' = [enter_mutex EXCEPT ![idx] = Main]
    /\ wpc' = [wpc EXCEPT ![idx] = "start"]
    /\ mpc' = "greet"
    /\ UNCHANGED <<confirm_mutex, enter_cond, confirm_cond, copyVars, ringVars,
                   tctxVars, callVars, histVars>>

\* Sleep on its enter_cond.
AwaitWorker ==
    /\ mpc = "greet"
    /\ enter_mutex' = [enter_mutex EXCEPT ![idx] = None]
    /\ enter_cond' = [enter_cond EXCEPT ![idx] = @ \cup {Main}]
    /\ mpc' = "created"
    /\ UNCHANGED <<confirm_mutex, confirm_cond, copyVars, ringVars,
                   tctxVars, callVars, histVars, wpc>>

\* The wait returns: on to the next thread, or to the end of aften_encode_init.
\* There initial_samples, if given, pass through copy_samples of worker 0 with
\* n_threads set to 1, so that the copy takes no lock and no turn.
WorkerCreated ==
    /\ mpc = "created"
    /\ Main \notin enter_cond[idx]
    /\ enter_mutex[idx] = None
    /\ IF idx < N - 1
         THEN /\ idx' = idx + 1
              /\ mpc' = "create"
              /\ UNCHANGED <<frame, overlap, last_samples>>
         ELSE /\ idx' = 0
              /\ mpc' = "idle"
              /\ IF InitialSamples
                   THEN /\ frame' = [frame EXCEPT ![0] = 0]
                        /\ overlap' = [overlap EXCEPT ![0] = last_samples]
                        /\ last_samples' = 0
                   ELSE UNCHANGED <<frame, overlap, last_samples>>
    /\ UNCHANGED <<tsVars, samples_mutex, samples_cond, samples_thread_num,
                   ringVars, state, framesize, frame_buffer, count, closing,
                   ret, close_ret, histVars, wpc>>

-----------------------------------------------------------------------------
(* aften_encode_frame and process_frame_parallel.                          *)

\* A call of the application, which may pass any count at any time; MaxFrames
\* bounds the model.
Encode(c) ==
    /\ mpc = "idle"
    /\ c = A52_SAMPLES_PER_FRAME => submitted < MaxFrames
    /\ \/ /\ Rejects(c, last_samples_count)
          /\ ret' = -1
          /\ UNCHANGED <<mpc, count>>
       \/ /\ ~Rejects(c, last_samples_count)
          /\ threads_running = 0
          /\ ret' = 0
          /\ UNCHANGED <<mpc, count>>
       \/ /\ ~Rejects(c, last_samples_count)
          /\ threads_running # 0
          /\ count' = c
          /\ mpc' = "visit"
          /\ UNCHANGED ret
    /\ UNCHANGED <<tsVars, copyVars, ringVars, tctxVars, idx, closing,
                   close_ret, histVars, wpc>>

\* The end of an iteration of process_frame_parallel: the next worker of the
\* ring, and another iteration as long as threads are to be aborted.
Advance(toAbort) ==
    /\ current_thread_num' = Next_(current_thread_num)
    /\ mpc' = IF toAbort # 0 THEN "visit"
              ELSE IF closing THEN "closing" ELSE "idle"

\* Mutant: a retired worker stays counted as running.
PrepareUncounted(w, st) ==
    /\ UNCHANGED threads_running
    /\ IF Drained(last_samples_count)
         THEN /\ state' = [state EXCEPT ![w] = "END"]
              /\ UNCHANGED <<frame, last_samples_count, submitted>>
         ELSE /\ state' = [state EXCEPT ![w] = st]
              /\ frame' = [frame EXCEPT ![w] = submitted + 1]
              /\ last_samples_count' = count
              /\ submitted' = submitted + 1

\* prepare_encode on worker w: retire it when the stream is drained, give it
\* the samples of this call otherwise.  st is its state when not retired.
PrepareEncode(w, st) ==
    IF Drained(last_samples_count)
      THEN /\ state' = [state EXCEPT ![w] = "END"]
           /\ threads_running' = threads_running - 1
           /\ UNCHANGED <<frame, last_samples_count, submitted>>
      ELSE /\ state' = [state EXCEPT ![w] = st]
           /\ frame' = [frame EXCEPT ![w] = submitted + 1]
           /\ last_samples_count' = count
           /\ submitted' = submitted + 1
           /\ UNCHANGED threads_running

\* Mutant: Main does not wait for enter_mutex.
AtBusyWorker(w) == mpc = "visit" /\ w = current_thread_num

\* Main has enter_mutex of the current worker: w is idle.
AtWorker(w) ==
    /\ mpc = "visit"
    /\ w = current_thread_num
    /\ enter_mutex[w] = None

\* Mutant: only the worker that failed is aborted.
MustAbortAlone(w) == state[w] = "ABORT"

MustAbort(w) == state[w] = "ABORT" \/ threads_to_abort # 0

\* A worker failed: this one, and in further iterations all the running ones,
\* are told to stop.
VisitAbort(w) ==
    /\ AtWorker(w)
    /\ MustAbort(w)
    /\ state' = [state EXCEPT ![w] = "ABORT"]
    /\ ret' = -1
    /\ threads_to_abort' =
         (IF threads_to_abort = 0 THEN threads_running ELSE threads_to_abort) - 1
    /\ threads_running' = threads_running - 1
    /\ enter_mutex' = [enter_mutex EXCEPT ![w] = Main]
    /\ mpc' = "signal"
    /\ UNCHANGED <<confirm_mutex, enter_cond, confirm_cond, copyVars,
                   current_thread_num, last_samples_count, framesize, frame,
                   frame_buffer, idx, count, closing, close_ret, histVars, wpc>>

\* The first frame of worker w: nothing to take back.
VisitStart(w) ==
    /\ AtWorker(w)
    /\ ~MustAbort(w)
    /\ state[w] = "START" /\ ~Drained(last_samples_count)
    /\ PrepareEncode(w, "WORK")
    /\ ret' = 0
    /\ enter_mutex' = [enter_mutex EXCEPT ![w] = Main]
    /\ mpc' = "signal"
    /\ UNCHANGED <<confirm_mutex, enter_cond, confirm_cond, copyVars,
                   current_thread_num, threads_to_abort, framesize,
                   frame_buffer, idx, count, closing, close_ret, delivered, wpc>>

\* Worker w has a finished frame: copy it out.  aften_encode_close passes a
\* buffer of its own, which it drops.
VisitDeliver(w) ==
    /\ AtWorker(w)
    /\ ~MustAbort(w)
    /\ state[w] # "START" \/ Drained(last_samples_count)
    /\ framesize[w] > 0
    /\ PrepareEncode(w, state[w])
    /\ ret' = framesize[w]
    /\ delivered' = IF closing THEN delivered
                    ELSE Append(delivered, frame_buffer[w])
    /\ enter_mutex' = [enter_mutex EXCEPT ![w] = Main]
    /\ mpc' = "signal"
    /\ UNCHANGED <<confirm_mutex, enter_cond, confirm_cond, copyVars,
                   current_thread_num, threads_to_abort, framesize,
                   frame_buffer, idx, count, closing, close_ret, wpc>>

\* Nothing to take back from worker w: Main unlocks it and goes on to the end
\* of the iteration without signalling enter_cond.
VisitSkip(w) ==
    /\ AtWorker(w)
    /\ ~MustAbort(w)
    /\ state[w] # "START" \/ Drained(last_samples_count)
    /\ framesize[w] <= 0
    /\ PrepareEncode(w, state[w])
    /\ ret' = 0
    /\ Advance(threads_to_abort)
    /\ UNCHANGED <<tsVars, copyVars, threads_to_abort, framesize, frame_buffer,
                   idx, count, closing, close_ret, delivered, wpc>>

\* Mutant: Main wakes the worker without confirm_mutex.
SignalUnconfirmed(w) ==
    /\ mpc = "signal"
    /\ w = current_thread_num
    /\ \E rest \in Signalled(enter_cond[w]) :
         enter_cond' = [enter_cond EXCEPT ![w] = rest]
    /\ enter_mutex' = [enter_mutex EXCEPT ![w] = None]
    /\ mpc' = "await"
    /\ UNCHANGED <<confirm_mutex, confirm_cond, copyVars, ringVars, tctxVars,
                   callVars, histVars, wpc>>

\* Lock confirm_mutex, wake the worker and give it its enter_mutex back.
SignalWorker(w) ==
    /\ mpc = "signal"
    /\ w = current_thread_num
    /\ confirm_mutex[w] = None
    /\ confirm_mutex' = [confirm_mutex EXCEPT ![w] = Main]
    /\ \E rest \in Signalled(enter_cond[w]) :
         enter_cond' = [enter_cond EXCEPT ![w] = rest]
    /\ enter_mutex' = [enter_mutex EXCEPT ![w] = None]
    /\ mpc' = "await"
    /\ UNCHANGED <<confirm_cond, copyVars, ringVars, tctxVars, callVars,
                   histVars, wpc>>

\* Sleep on confirm_cond until the worker has its enter_mutex.
AwaitConfirm(w) ==
    /\ mpc = "await"
    /\ w = current_thread_num
    /\ confirm_cond' = [confirm_cond EXCEPT ![w] = @ \cup {Main}]
    /\ confirm_mutex' = [confirm_mutex EXCEPT ![w] = None]
    /\ mpc' = "confirm"
    /\ UNCHANGED <<enter_mutex, enter_cond, copyVars, ringVars, tctxVars,
                   callVars, histVars, wpc>>

Confirmed(w) ==
    /\ mpc = "confirm"
    /\ w = current_thread_num
    /\ Main \notin confirm_cond[w]
    /\ confirm_mutex[w] = None
    /\ Advance(threads_to_abort)
    /\ UNCHANGED <<tsVars, copyVars, threads_to_abort, threads_running,
                   last_samples_count, tctxVars, callVars, histVars, wpc>>

-----------------------------------------------------------------------------
(* aften_encode_close.                                                     *)

Close ==
    /\ mpc = "idle"
    /\ closing' = TRUE
    /\ mpc' = "closing"
    /\ UNCHANGED <<tsVars, copyVars, ringVars, tctxVars, idx, count, ret,
                   close_ret, histVars, wpc>>

\* Mutant: aften_encode_close does not report that it dropped frames.
CloseSilently ==
    /\ mpc = "closing"
    /\ count' = 0
    /\ mpc' = IF threads_running # 0 THEN "visit" ELSE "join"
    /\ UNCHANGED <<tsVars, copyVars, ringVars, tctxVars, idx, closing, ret,
                   close_ret, histVars, wpc>>

\* while (threads_running) process_frame_parallel(s, frame_buffer, NULL, 0, ..)
CloseLoop ==
    /\ mpc = "closing"
    /\ IF threads_running # 0
         THEN count' = 0 /\ close_ret' = -1 /\ mpc' = "visit"
         ELSE mpc' = "join" /\ UNCHANGED <<count, close_ret>>
    /\ UNCHANGED <<tsVars, copyVars, ringVars, tctxVars, idx, closing, ret,
                   histVars, wpc>>

\* thread_join returns once the thread's function has.
Joinable(w) == wpc[w] = "done"

\* Mutant: one worker too many.
JoinTooMany ==
    /\ mpc = "join"
    /\ Joinable(idx)
    /\ idx' = idx + 1
    /\ mpc' = IF idx < N THEN "join" ELSE "closed"
    /\ UNCHANGED <<tsVars, copyVars, ringVars, tctxVars, count, closing, ret,
                   close_ret, histVars, wpc>>

\* Join worker idx, and its mutexes and conditions are destroyed.
Join ==
    /\ mpc = "join"
    /\ Joinable(idx)
    /\ IF idx < N - 1
         THEN idx' = idx + 1 /\ UNCHANGED mpc
         ELSE mpc' = "closed" /\ UNCHANGED idx
    /\ UNCHANGED <<tsVars, copyVars, ringVars, tctxVars, count, closing, ret,
                   close_ret, histVars, wpc>>

-----------------------------------------------------------------------------
(* threaded_worker.                                                        *)

\* ++threads_running, with no lock held.
WorkerStart(w) ==
    /\ wpc[w] = "start"
    /\ threads_running' = threads_running + 1
    /\ wpc' = [wpc EXCEPT ![w] = "hello"]
    /\ UNCHANGED <<tsVars, copyVars, current_thread_num, threads_to_abort,
                   last_samples_count, tctxVars, callVars, histVars, mpc>>

\* Lock enter_mutex, signal the creator, sleep on enter_cond.
WorkerHello(w) ==
    /\ wpc[w] = "hello"
    /\ enter_mutex[w] = None
    /\ \E rest \in Signalled(enter_cond[w]) :
         enter_cond' = [enter_cond EXCEPT ![w] = rest \cup {w}]
    /\ wpc' = [wpc EXCEPT ![w] = "asleep"]
    /\ UNCHANGED <<enter_mutex, confirm_mutex, confirm_cond, copyVars, ringVars,
                   tctxVars, callVars, histVars, mpc>>

\* The wait on enter_cond returns, with enter_mutex.
WorkerWake(w) ==
    /\ wpc[w] = "asleep"
    /\ w \notin enter_cond[w]
    /\ enter_mutex[w] = None
    /\ enter_mutex' = [enter_mutex EXCEPT ![w] = w]
    /\ wpc' = [wpc EXCEPT ![w] = "confirm"]
    /\ UNCHANGED <<confirm_mutex, enter_cond, confirm_cond, copyVars, ringVars,
                   tctxVars, callVars, histVars, mpc>>

\* Lock confirm_mutex, signal confirm_cond, unlock.
WorkerConfirm(w) ==
    /\ wpc[w] = "confirm"
    /\ confirm_mutex[w] = None
    /\ \E rest \in Signalled(confirm_cond[w]) :
         confirm_cond' = [confirm_cond EXCEPT ![w] = rest]
    /\ wpc' = [wpc EXCEPT ![w] = "dispatch"]
    /\ UNCHANGED <<enter_mutex, confirm_mutex, enter_cond, copyVars, ringVars,
                   tctxVars, callVars, histVars, mpc>>

\* END and ABORT leave the loop; otherwise process_frame begins.
WorkerDispatch(w) ==
    /\ wpc[w] = "dispatch"
    /\ \/ /\ state[w] = "END"
          /\ framesize' = [framesize EXCEPT ![w] = 0]
          /\ wpc' = [wpc EXCEPT ![w] = "exit"]
       \/ /\ state[w] = "ABORT"
          /\ framesize' = [framesize EXCEPT ![w] = -1]
          /\ wpc' = [wpc EXCEPT ![w] = "exit"]
       \/ /\ state[w] \notin {"END", "ABORT"}
          /\ wpc' = [wpc EXCEPT ![w] = "turn"]
          /\ UNCHANGED framesize
    /\ UNCHANGED <<tsVars, copyVars, ringVars, state, frame, frame_buffer,
                   callVars, histVars, mpc>>

\* Mutant: copy_samples without its lock.
TurnUnlocked(w) ==
    /\ wpc[w] = "turn"
    /\ wpc' = [wpc EXCEPT ![w] = "copy"]
    /\ UNCHANGED <<tsVars, copyVars, ringVars, tctxVars, callVars, histVars, mpc>>

\* copy_samples, up to the copy: with samples_mutex (from the lock or from the
\* wait) test whose turn it is, and sleep on samples_cond when it is another's.
WorkerTurn(w) ==
    /\ wpc[w] = "turn"
    /\ w \notin samples_cond[w]
    /\ samples_mutex = None
    /\ IF samples_thread_num = w
         THEN /\ samples_mutex' = w
              /\ wpc' = [wpc EXCEPT ![w] = "copy"]
              /\ UNCHANGED samples_cond
         ELSE /\ samples_cond' = [samples_cond EXCEPT ![w] = @ \cup {w}]
              /\ UNCHANGED <<samples_mutex, wpc>>
    /\ UNCHANGED <<tsVars, samples_thread_num, last_samples, overlap, ringVars,
                   tctxVars, callVars, histVars, mpc>>

\* What copy_samples puts in front of the samples of worker w.
SamplesBefore(w) == last_samples

\* Mutant: copy_samples signals its own condition, not its successor's.
CopySignalsItself(w) ==
    /\ wpc[w] = "copy"
    /\ overlap' = [overlap EXCEPT ![w] = SamplesBefore(w)]
    /\ last_samples' = frame[w]
    /\ samples_thread_num' = Next_(samples_thread_num)
    /\ \E rest \in Signalled(samples_cond[w]) :
         samples_cond' = [samples_cond EXCEPT ![w] = rest]
    /\ samples_mutex' = None
    /\ wpc' = [wpc EXCEPT ![w] = "encode"]
    /\ UNCHANGED <<tsVars, ringVars, tctxVars, callVars, histVars, mpc>>

\* copy_samples: the copy, the next worker's turn, signal and unlock.
WorkerCopy(w) ==
    /\ wpc[w] = "copy"
    /\ overlap' = [overlap EXCEPT ![w] = SamplesBefore(w)]
    /\ last_samples' = frame[w]
    /\ samples_thread_num' = Next_(samples_thread_num)
    /\ \E rest \in Signalled(samples_cond[Next_(w)]) :
         samples_cond' = [samples_cond EXCEPT ![Next_(w)] = rest]
    /\ samples_mutex' = None
    /\ wpc' = [wpc EXCEPT ![w] = "encode"]
    /\ UNCHANGED <<tsVars, ringVars, tctxVars, callVars, histVars, mpc>>

\* The rest of process_frame, and back to sleep on enter_cond.
WorkerEncode(w) ==
    /\ wpc[w] = "encode"
    /\ \/ /\ frame_buffer' = [frame_buffer EXCEPT ![w] = <<frame[w], overlap[w]>>]
          /\ framesize' = [framesize EXCEPT ![w] = 1]
          /\ UNCHANGED state
       \/ /\ EncodeFails
          /\ framesize' = [framesize EXCEPT ![w] = 0]
          /\ state' = [state EXCEPT ![w] = "ABORT"]
          /\ UNCHANGED frame_buffer
    /\ enter_cond' = [enter_cond EXCEPT ![w] = @ \cup {w}]
    /\ enter_mutex' = [enter_mutex EXCEPT ![w] = None]
    /\ wpc' = [wpc EXCEPT ![w] = "asleep"]
    /\ UNCHANGED <<confirm_mutex, confirm_cond, copyVars, ringVars, frame,
                   callVars, histVars, mpc>>

\* threaded_worker returns, with enter_mutex unlocked.
WorkerExit(w) ==
    /\ wpc[w] = "exit"
    /\ enter_mutex' = [enter_mutex EXCEPT ![w] = None]
    /\ wpc' = [wpc EXCEPT ![w] = "done"]
    /\ UNCHANGED <<confirm_mutex, enter_cond, confirm_cond, copyVars, ringVars,
                   tctxVars, callVars, histVars, mpc>>

-----------------------------------------------------------------------------
(* What POSIX allows besides: a wait that returns without a signal.        *)
Spurious(w) ==
    /\ \/ /\ "enter" \in SpuriousOn
          /\ \E t \in enter_cond[w] :
               enter_cond' = [enter_cond EXCEPT ![w] = @ \ {t}]
          /\ UNCHANGED <<confirm_cond, samples_cond>>
       \/ /\ "confirm" \in SpuriousOn
          /\ \E t \in confirm_cond[w] :
               confirm_cond' = [confirm_cond EXCEPT ![w] = @ \ {t}]
          /\ UNCHANGED <<enter_cond, samples_cond>>
       \/ /\ "samples" \in SpuriousOn
          /\ \E t \in samples_cond[w] :
               samples_cond' = [samples_cond EXCEPT ![w] = @ \ {t}]
          /\ UNCHANGED <<enter_cond, confirm_cond>>
    /\ UNCHANGED <<enter_mutex, confirm_mutex, samples_mutex, samples_thread_num,
                   last_samples, overlap, ringVars, tctxVars, callVars,
                   histVars, wpc, mpc>>

-----------------------------------------------------------------------------
Visit(w) == VisitAbort(w) \/ VisitStart(w) \/ VisitDeliver(w) \/ VisitSkip(w)

\* Main inside the library, where it does not depend on the application.
MainStep ==
    \/ CreateWorker \/ AwaitWorker \/ WorkerCreated \/ CloseLoop \/ Join
    \/ \E w \in Workers :
         Visit(w) \/ SignalWorker(w) \/ AwaitConfirm(w) \/ Confirmed(w)

WorkerStep(w) ==
    \/ WorkerStart(w) \/ WorkerHello(w) \/ WorkerWake(w) \/ WorkerConfirm(w)
    \/ WorkerDispatch(w) \/ WorkerTurn(w) \/ WorkerCopy(w) \/ WorkerEncode(w)
    \/ WorkerExit(w)

\* What the application may do between two calls of the library.
Application == Close \/ \E c \in Counts : Encode(c)

\* After aften_encode_close nothing is left to run.
Finished == mpc = "closed" /\ UNCHANGED vars

Next ==
    \/ MainStep
    \/ Application
    \/ \E w \in Workers : WorkerStep(w) \/ Spurious(w)
    \/ Finished

Spec == Init /\ [][Next]_vars

\* Every thread that can run is eventually run by the kernel's scheduler; the
\* application owes the encoder nothing.
FairSpec ==
    /\ Spec
    /\ WF_vars(MainStep)
    /\ \A w \in Workers : WF_vars(WorkerStep(w))

-----------------------------------------------------------------------------
(* Properties.                                                             *)

WorkerPcs == {"unborn", "start", "hello", "asleep", "confirm", "dispatch",
              "turn", "copy", "encode", "exit", "done"}
MainPcs   == {"create", "greet", "created", "idle", "visit", "signal", "await",
              "confirm", "closing", "join", "closed"}

Frames    == FrameNo \X FrameNo

TsType ==
    /\ enter_mutex \in [Workers -> Threads \cup {None}]
    /\ confirm_mutex \in [Workers -> Threads \cup {None}]
    /\ enter_cond \in [Workers -> SUBSET Threads]
    /\ confirm_cond \in [Workers -> SUBSET Threads]

CopyType ==
    /\ samples_mutex \in Workers \cup {None}
    /\ samples_cond \in [Workers -> SUBSET Threads]
    /\ samples_thread_num \in Workers
    /\ last_samples \in FrameNo
    /\ overlap \in [Workers -> FrameNo]

RingType ==
    /\ current_thread_num \in Workers
    /\ threads_to_abort \in Int
    /\ threads_running \in Int
    /\ last_samples_count \in LastCounts(Counts)

TctxType ==
    /\ state \in [Workers -> {"START", "WORK", "END", "ABORT"}]
    /\ framesize \in [Workers -> {-1, 0, 1}]
    /\ frame \in [Workers -> FrameNo]
    /\ frame_buffer \in [Workers -> Frames]

CallType ==
    /\ idx \in Workers
    /\ count \in CallCounts(Counts)
    /\ closing \in BOOLEAN
    /\ ret \in {-1, 0, 1}
    /\ close_ret \in {-1, 0}

HistType == submitted \in Nat /\ delivered \in Seq(Frames)

PcType == wpc \in [Workers -> WorkerPcs] /\ mpc \in MainPcs

\* The types of the state: what process_frame_parallel indexes and counts with
\* stays in range.
TypeOK == TsType /\ CopyType /\ RingType /\ TctxType /\ CallType /\ HistType /\ PcType

\* A worker between its wake-up and its next sleep: it reads and writes its
\* A52ThreadContext.
Active == {"confirm", "dispatch", "turn", "copy", "encode", "exit"}

\* A worker's A52ThreadContext has one user at a time: while Main is between the
\* lock and the unlock of enter_mutex in process_frame_parallel, where it reads
\* and writes the context, the worker is not active.
ContextExclusive ==
    \A w \in Workers :
        (mpc = "signal" /\ current_thread_num = w) => wpc[w] \notin Active

\* At most one worker at a time is inside copy_samples' critical section.
CopyExclusive ==
    \A v, w \in Workers : wpc[v] = "copy" /\ wpc[w] = "copy" => v = w

\* Who owns the mutexes: the inductive strengthening of the two above.
MutexInv ==
    \A w \in Workers :
        /\ enter_mutex[w] \in {w, Main, None}
        /\ enter_mutex[w] = w <=> wpc[w] \in Active
        /\ enter_mutex[w] = Main <=>
             \/ mpc = "greet" /\ idx = w
             \/ mpc = "signal" /\ current_thread_num = w
        /\ samples_mutex = w <=> wpc[w] = "copy"

\* No wake-up is lost: when Main signals enter_cond the worker is asleep on it,
\* and when a worker signals confirm_cond under confirm_mutex Main is.
NoLostWakeup ==
    /\ mpc = "signal" =>
         /\ wpc[current_thread_num] = "asleep"
         /\ current_thread_num \in enter_cond[current_thread_num]
    /\ \A w \in Workers :
         wpc[w] = "confirm" /\ confirm_mutex[w] = None => Main \in confirm_cond[w]

\* Whatever order the workers run in, copy_samples sees the frames in the order
\* they were submitted: the overlap a frame gets is its predecessor's.
CopiesInOrder ==
    \A w \in Workers :
        wpc[w] = "copy" =>
            last_samples = IF frame[w] = 1 THEN FirstOverlap ELSE frame[w] - 1

\* Between calls the running workers are the threads_running next ones of the
\* ring: the abort loop, which counts down from there, stops exactly those.
RunningAreNext ==
    mpc = "idle" =>
        \A i \in 0 .. N - 1 :
            LET w == (current_thread_num + i) % N
            IN  IF i < threads_running
                  THEN state[w] # "END" /\ wpc[w] \notin {"exit", "done"}
                  ELSE state[w] \in {"END", "ABORT"}

\* aften_encode_close returned 0: no accepted frame was dropped, unless a
\* failure was reported before.
CleanClose ==
    mpc = "closed" /\ close_ret = 0 /\ (\A w \in Workers : state[w] = "END")
        => Len(delivered) = submitted

\* The frames submitted, and the silent one that aften_encode_close submits
\* itself when the stream is not drained, reach every worker.
EveryWorkerFed == submitted + (IF Drained(last_samples_count) THEN 0 ELSE 1) >= N

\* The conditions under which Main's next step inside the library, and worker w's,
\* is not kept waiting: by a mutex, a condition or a thread to be joined.
MainCanStep ==
    CASE mpc = "create"  -> enter_mutex[idx] = None
      [] mpc = "created" -> Main \notin enter_cond[idx] /\ enter_mutex[idx] = None
      [] mpc = "visit"   -> enter_mutex[current_thread_num] = None
      [] mpc = "signal"  -> confirm_mutex[current_thread_num] = None
      [] mpc = "confirm" -> /\ Main \notin confirm_cond[current_thread_num]
                            /\ confirm_mutex[current_thread_num] = None
      [] mpc = "join"    -> Joinable(idx)
      [] OTHER           -> mpc \in {"greet", "await", "closing"}

WorkerCanStep(w) ==
    CASE wpc[w] = "hello"   -> enter_mutex[w] = None
      [] wpc[w] = "asleep"  -> w \notin enter_cond[w] /\ enter_mutex[w] = None
      [] wpc[w] = "confirm" -> confirm_mutex[w] = None
      [] wpc[w] = "turn"    -> w \notin samples_cond[w] /\ samples_mutex = None
      [] OTHER              -> wpc[w] \notin {"unborn", "done"}

\* Main and the workers never all wait for each other: inside a call of the
\* library some thread can go on, over the enter, confirm and samples mutexes, the
\* conditions and the turns at copy_samples; and a thread that aften_encode_close
\* joins has ended or is on its way, unless it never had a frame.
NoDeadlock ==
    /\ mpc \notin {"idle", "join", "closed"} =>
         MainCanStep \/ \E w \in Workers : WorkerCanStep(w)
    /\ mpc = "join" /\ EveryWorkerFed => MainCanStep \/ WorkerCanStep(idx)

\* Every call of aften_encode_frame returns.
CallReturns == (mpc = "visit" /\ ~closing) ~> (mpc = "idle")

\* aften_encode_close returns, whenever it is called.
CloseReturns == mpc = "closing" ~> mpc = "closed"

\* aften_encode_close returns when every worker has had a frame by then: frames
\* in hand, failures and aborts do not keep a thread from ending.
FedCloseReturns == (mpc = "closing" /\ EveryWorkerFed) ~> mpc = "closed"

-----------------------------------------------------------------------------
(* The pool is an EncodeQueue of N slots.  A call takes effect when Main    *)
(* has the worker's enter_mutex (Visit).                                    *)

Visiting == mpc \in {"signal", "await", "confirm"}

Aborted ==
    \/ threads_to_abort # 0
    \/ Visiting /\ ret = -1
    \/ mpc \notin {"create", "greet", "created"} /\ threads_running = 0
       /\ \E w \in Workers : state[w] = "ABORT"

SlotOf(w) == IF state[w] = "START" THEN 0 ELSE frame[w]

QueueSlots ==
    IF Aborted THEN <<>>
    ELSE IF mpc \in {"create", "greet", "created"} THEN [i \in 1 .. N |-> 0]
    ELSE LET first == IF Visiting THEN Next_(current_thread_num)
                                  ELSE current_thread_num
         IN  [i \in 1 .. threads_running |-> SlotOf((first + i - 1) % N)]

QueuePhase ==
    IF mpc \in {"join", "closed"} THEN "closed"
    ELSE IF closing THEN "closing"
    ELSE IF Aborted THEN "aborted" ELSE "open"

Queue == INSTANCE EncodeQueue WITH
            Depths <- {N}, slots <- QueueSlots, last <- last_samples_count,
            phase <- QueuePhase

\* The threads are invisible: the pool implements the delay line.
ImplementsQueue == Queue!Spec
=============================================================================
