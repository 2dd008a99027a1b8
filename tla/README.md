# A verification project for Aften

Aften is an AC-3 (A/52) audio encoder: a library (`libaften`) with an init /
encode-frame / close interface, a PCM reader (`pcm`), a command line program
(`aften`) and bindings for C++ and C#. This directory models its control and its
integer arithmetic: threads, calls and queues, the bit allocation, the making of a
frame, the reading of files, the command line. TLC checks the models, TLAPS proves
the safety properties of the pool, the main loop, the search and the setup, and
where the reader of a file stands. The signal processing (filters, MDCT, dynamic
range) is floating-point arithmetic and is not modelled.

All paths are relative to the repository's root; `PROJECT.json` maps every
definition to the lines it stands for.

## 1. Inventory

| component | state | operations | talks to | what is hard | what makes it correct |
|---|---|---|---|---|---|
| threaded encoder (`libaften/a52enc.c`, `threading.h`) | per worker: context with `state`, `framesize`, input and output frame, two mutexes, three conditions; global: `current_thread_num`, `threads_running`, `threads_to_abort`, `samples_thread_num`, `last_samples`, `last_samples_count` | `aften_encode_init`, `aften_encode_frame` / `process_frame_parallel`, `threaded_worker`, `copy_samples`, `aften_encode_close` | application, workers | interleaving, lost and spurious wake-ups, abort with frames in flight, join | one user per context; frames chained and delivered in order; every call returns; close drops nothing silently |
| serial encoder (`a52enc.c`, one thread) | `last_samples`, `last_samples_count`, `framesize` | `aften_encode_frame`, `aften_encode_close` | application | flush rule at 1280 samples, failed frames | same promise as the threaded one, with no delay; failures reported |
| command line program (`aften/aften.c`) | options, `nr`, `fs`, `frame_cnt`, position in the input | parse, open, choose a layout, init; read, encode, write, close | option parser, PCM reader, encoder | settings from four sources; counts in samples, values and bytes; 0 means three different things | consistent settings; whole input read, exact number of frames, termination |
| option parser (`aften/opts.c`) | options | parse, check | main | checks between options, files per speaker in any order | files in the order of their speakers, refuses what does not fit |
| encoder initialization (`a52enc.c`, `x86/cpu_caps.c`) | context, instructions in use | defaults, checks, filters, choice of kernels | main | fixed cutoffs at low rates, global capabilities | filters fit, kernels are available |
| channel mapping (`libaften/util.c`) | none | `aften_wav_channels_to_acmod`, remaps | main | six permutations | each channel is the right speaker |
| SNR offset search (`libaften/bitalloc.c`) | `snroffst`, `leftover`, `last_quality` | CBR slow and fast search, VBR size choice | bit counting (`bit_alloc`) | non-monotone counts, jumps over the range, stale start | fits, is maximal, leaves the range no further than it started, ends, fails only when it must |
| frame pacing (`a52enc.c`: `frame_init`, `adjust_frame_size`) | `bit_cnt`, `sample_cnt` | one step per frame | header output | 32-bit products wrap | the average rate is exact, sizes are codable |
| exponents (`exponent.c`, `x86/exponent_*.c`) | exponents per block, strategies | extract, choose, merge, encode, group | bit counting | in-place merging, reuse across blocks, vector versions | a decoder gets the same exponents |
| psychoacoustic model (`a52.c`) | PSD, masking curve, `bap` | per band | `bit_alloc` | table ends, reuse across blocks | a decoder gets the same pointers |
| mantissas (`a52enc.c`: `quantize_mantissas`) | three groups in progress | one step per coefficient | `bit_alloc`'s count | partial groups at a block's end | groups as counted, codes a decoder can undo |
| frame output (`a52enc.c`, `bitio.c`, `crc.c`) | bit buffer, frame buffer | write bits, pad, CRC | bit allocation's prediction | word boundary, end of buffer, predicted against written bits | written bits = predicted bits, both CRCs valid |
| PCM input (`pcm/byteio.c`, `pcm_io.c`, `pcmfile.c`, `pcm.c`, `pcm_convert.c`) | block buffer, file position | read, peek, skip, seek, convert | header parsers, main | reads across blocks and at the end, seeks with a full buffer, several files | the samples that are in the file, positions true |
| header parsers (`pcm/wav.c`, `aiff.c`, `caff.c`, `raw.c`, `formats.c`) | chunk position, format | probe, chunk walk | PCM input | odd and truncated chunks, floats by hand | ends, finds the audio and its format |
| C# binding (`bindings/cs/FrameEncoder.cs`) | remainder buffer, flags | Encode, Flush, Abort, Dispose | encoder | remainder across calls, abort | every sample encoded once |
| C++ binding, WAV utilities, transforms, filters, dynamic range | | | | | not modelled, see section 8 |

**How they interact.** `main` parses its arguments, opens its files with `pcm_init`,
chooses acmod and lfe, and calls `aften_encode_init`. Then it reads up to 1536
samples with `pcm_read_samples`, remaps the channels and hands them to
`aften_encode_frame`. Without threads that call encodes and returns the frame.
With `n` threads it visits one worker in ring order: it takes the frame this worker
finished, gives it the new samples, wakes it and waits for its confirmation; so the
first `n` calls return 0, and `n` more calls with count 0 flush. The workers
share one thing, the 256 overlap samples and filter states, taken in ring order by
`copy_samples`. Each worker then sizes its frame (pacing), takes exponents from the
transform, searches an SNR offset, quantizes and writes the bits.
`aften_encode_close` calls the same routine until no worker runs, then joins.

## 2. Modules

| module | models | depends on |
|---|---|---|
| `SampleCounts` | the rules on the count of a call (`Rejects`, `Drained`) | |
| `EncodeQueue` | abstract: what an encoder promises, a delay line of one slot per thread (`Spec`); what the code makes of it when a frame fails (`CodedSpec`) | `SampleCounts` |
| `WorkerPool` | the threaded encoder with POSIX threads; shown to implement `EncodeQueue` | `SampleCounts` |
| `SerialEncoder` | the encoder with one thread; shown to implement `EncodeQueue` as far as it does | `SampleCounts` |
| `AftenMain` | the loop of `main`, composed with `EncodeQueue` | `SampleCounts`, `EncodeQueue` |
| `FrameEncoder` | the C# class, composed with `EncodeQueue` | `SampleCounts`, `EncodeQueue` |
| `BitAllocSearch` | `cbr_bit_allocation`, `vbr_bit_allocation` | |
| `A52Tables` | the tables of `a52tab.c` | |
| `FramePacing` | frame sizes at a constant bit rate, with 32-bit wrap-around | `A52Tables` |
| `Psychoacoustics` | `a52.c`: PSD, masking curve, pointers | `A52Tables` |
| `Exponents` | `exponent.c` and its MMX and SSE2 versions | |
| `Mantissas` | quantization and grouping | |
| `BitWriter`, `Crc16` | `bitio.c`, `crc.c` | |
| `FrameOutput` | one frame from coefficients to bytes | the five above |
| `ByteIO` | `byteio.c`: the block buffer over a FILE | |
| `SampleFormat` | `pcm_convert.c`: conversions between sample formats | |
| `PcmFile`, `PcmHeaders` | one file: reads, seeks, positions; the formats' headers | `ByteIO`, `SampleFormat` |
| `PcmInput` | `pcm.c`: one or several files, from `pcm_init` to `pcm_close` | `PcmHeaders` |
| `ChannelLayout` | `util.c` | |
| `EncoderInit`, `CommandLine` | `aften_set_defaults`, `aften_encode_init`; `opts.c` | |
| `EncoderSetup` | `main` up to its loop | `CommandLine`, `ChannelLayout` |
| `MC*` | instances for TLC | the module named |
| `WorkerPool_proofs` | types and mutual exclusion of the pool; the ring: who runs, which frame each worker has, wake-ups, order; that the pool never stands still | `WorkerPool`, TLAPS |
| `DelayLine_proofs` | the arithmetic of a delay line | TLAPS |
| `WorkerPoolQueue_proofs`, `SerialEncoder_proofs` | the refinements of `EncodeQueue` | `WorkerPool_proofs`, `SerialEncoder`, `DelayLine_proofs` |
| `AftenMain_proofs` | the loop of `main` | `AftenMain`, `DelayLine_proofs` |
| `BitAllocSearch_proofs` | the search | `BitAllocSearch`, TLAPS |
| `EncoderSetup_proofs` | the way from the command line to the encoder | `EncoderSetup`, TLAPS |
| `PcmInput_proofs` | the block buffer, the headers and the position of every file of an input | `PcmInput`, TLAPS |

Operators whose comment begins with "Mutant" are plausible wrong versions of the
definition that follows them. No specification uses them; replacing the
definition by one of them makes the property it is paired with in `PROJECT.json`
fail, which shows that the property depends on that piece of code.

### WorkerPool

State keeps the names of `A52ThreadSync`, `A52GlobalThreadSync`, `A52Context` and
`A52ThreadContext`. A mutex holds its owner or `None`. A condition is the set of
threads asleep on it; `Signalled` takes one out, `Spurious` takes one out without
a signal (only for the conditions in `SpuriousOn`), and a thread out of the set
continues when it can lock the mutex again. One action is the code between two
points where its thread can block:

| action | code |
|---|---|
| `CreateWorker`, `AwaitWorker`, `WorkerCreated` | the creation loop of `aften_encode_init`, then the initial samples |
| `Encode` | the argument checks of `aften_encode_frame` and the early return of `process_frame_parallel` |
| `VisitAbort`, `VisitStart`, `VisitDeliver`, `VisitSkip` | the critical section under `enter_mutex`, one action per branch, `prepare_encode` included |
| `SignalWorker`, `AwaitConfirm`, `Confirmed` | the two-mutex handshake, then the next worker of the ring |
| `Close`, `CloseLoop`, `Join` | `aften_encode_close` |
| `WorkerStart` ... `WorkerExit` | `threaded_worker`, with `copy_samples` (`WorkerTurn`, `WorkerCopy`) and the rest of `process_frame` (`WorkerEncode`) |

Audio is a frame number, and an encoded frame is the pair of its number and the
number of the frame whose tail it was overlapped with, which is what an ordering
error would get wrong. Initial samples are frame 0, silence is -1. A frame size
is 1, 0 or -1.

`ImplementsQueue` maps the pool to the delay line. The slots are the contexts of
the running workers, from the next one to be visited; a call takes effect at its
`Visit` action. After an abort the line is empty.

### EncodeQueue and its clients

`EncodeQueue!Spec` is the promise of `aften.h` and `API.txt`: a frame that cannot be
encoded comes out as -1 (`Fail`). The pool keeps it (`ImplementsQueue`). `SerialEncoder`
runs `process_frame` in the call and, as the code does, ignores its result: a frame that
fails is lost and the call returns 0, which the promise does not allow
(`SerialErrors`). It keeps the promise when no frame fails. `CodedSpec` is the
queue with this deviation (`FailSilently`, for a line of no slots), and `SerialEncoder`
implements it always. `AftenMain` and `FrameEncoder` are about the program there
is, so they take the encoder as it is coded (`FailAsCoded`). In both, closing waits for
ever when a thread never had a frame, which `WorkerPool` establishes (`PoolShortStream`).

`FrameEncoder` numbers the application's samples in units of 256 per channel, so that
`m_Samples` has six places, and records which of them reach the encoder. `Abort` may
come between any two frames of an `Encode`; a stream may end inside a sample.

### BitAllocSearch

The search looks at a frame through one function only: `Bits(f, s)`, the mantissa
bits at offset `s`. It is a constant, so the proofs hold for whatever the
psychoacoustic model computes. An encoder (`ctx`) has a rate, a number of channels and
the frames it gets. Every call of `bit_alloc` is a step. The next
frame starts from `last_quality`, so sequences of frames matter.

### FramePacing

`bit_cnt` and `sample_cnt` per thread. The comparison multiplies `uint32_t`
values, which exceed 32 bits at high rates; `Product` computes both halves in
parts that stay within TLC's integers and `Wrap` drops what C drops.

### FrameOutput

Inputs are coefficients (times 2^24), block switch flags, rematrixing decisions and
dynamic range words. One action per function of `process_frame` after the transform:
rematrixing, `ExtractExponents`, the choice of strategies, `EncodeExponents`,
`GroupExponents`, `start_bit_allocation` and `count_frame_bits`, the pointers at an
offset, a frame size that holds the predicted bits exactly or with a word to spare,
`Quantize`, then header, one block per step, and the end with padding and CRCs. The
bit writer works on 32-bit words as `bitio.c` does, with its end-of-buffer flag.
Against this stand readers written from the A/52 syntax: `FrameReadsBack` takes
the bytes apart field by field; `ExponentsDecode`, `PointersDecode` and
`MantissasDecode` rebuild what a decoder has from what was sent.
`compute_expstr_ch` reads an array it did not fill: its first content is any of
`Garbage`.

### ByteIO to PcmInput

Files are byte sequences, seekable or not. The block buffer has 16 bytes instead of
16384, so every read can straddle one; `INT32_MAX` and `PCM_MAX_READ` are constants
too. Numbers in headers are parsed from bytes, the 80-bit and 64-bit floats from their
exponents and upper mantissas. A sample is an exact fraction of full scale; a
conversion is what `pcm_convert.c` computes, with its rounding and clipping.
`pcm_init` walks one chunk per step, because it need not end. Sizes and positions are
unsigned in C: a negative one is `NoFileIsLonger`. A read whose `uint32_t` gap wraps
ends the process (`ReadCrashes`). For the properties `at` is the sample the next read
should return: that of a seek from the start or from here, or of the end; from an
offset from the end, where the code and `pcmfile.h` disagree (section 5), the reads
are followed from where the seek led.

### ChannelLayout to EncoderSetup

A command line is built argument by argument from small sets that hold each kind of
option; values are numbers. What the files hold, whether they open and
what the processor can do is the environment's choice. `handed` is the order
of speakers after `aften_remap`, starting from where each channel really came from:
the mask, the MPEG order, or the option that named its file. `initial` is the buffer
that `-pad 0` fills, sample by sample with the time of each, through the `memmove` and
the remap as they are coded; 256 is the constant `Initial`. A command line that makes
the parser read a name through a null pointer ends in the stage `crashed`.

## 3. Runs

| run | expects | what it checks | bounds |
|---|---|---|---|
| `Pool` | pass | `TypeOK`, `ContextExclusive`, `CopyExclusive`, `NoLostWakeup`, `CopiesInOrder`, `RunningAreNext`, `CleanClose`, `NoDeadlock`, refinement of `EncodeQueue`, `CallReturns`, `FedCloseReturns` | 3 workers, 4 full frames, counts on both sides of every limit, failures, close at any moment, spurious returns where the code loops |
| `PoolShortStream` | violation | `CloseReturns` | 2 workers, no failures, no spurious returns |
| `SerialErrors` | violation | `ErrorsReported` | 8 frames, all boundary counts, any frame failing |
| `MainLoop` | pass | `InputConsumed`, `FrameCountExact`, `TerminatesIfFed` | queues of 0 and 3 slots, with and without start padding, 54 lengths up to 6 frames around every boundary, any frame failing |
| `CsRemainder` | violation | `SamplesEncoded` | queues of 0 and 2 slots, calls of 1, 5, 6 and 8 sixths of a frame, 20 in all |
| `Search` | pass | `FrameFits`, `FastOffsetBounded`, `FailsOnlyIfTooSmall`, `FrameIsUsed`, `VbrKeepsQuality`, `SearchAdvances`, `SearchEnds` | CBR and VBR, slow and fast, stereo at 192 kbps and mono at 640 kbps, sequences of any length over sixteen kinds of frame at real sizes |
| `Pacing` | pass | `SizeIsCoded`, `RateKept` | none: all 171 settings, the complete orbit of the counters |
| `Frame` | pass | `BitsAsPredicted`, `FrameReadsBack`, `ChecksumsHold`, `ExponentsDecode`, `VectorsAgree`, `PointersDecode`, `MantissasDecode` | all acmods, LFE, dynamic range, extended header, half rate, two searched strategy settings; three spectra, two offsets, frames with and without slack; bandwidth codes 0 and 1; vector kernels on 7, 73 and 76 exponents |
| `ExpStrategy` | violation | `StrategyIsBest` | the two settings that search |
| `Input` | pass | `PositionKept`, `HeaderUnderstood`, `SamplesRight`, `PositionReported`, `InitReturns` | 23 inputs of up to three files, four read formats, reads of 2, 3 and 7 samples, seeks in every direction |
| `HeaderHang` | violation | `InitReturns` | a WAVE and an AIFF file cut in the header |
| `Setup` | pass | `ChannelsAgree`, `SpeakersInOrder`, `FiltersFit`, `SimdAvailable` | command lines with two options and up to seven files, 18 streams, two processors, starts of up to five samples |

**Why the bounds are enough.** Three workers are the fewest at which a worker's
predecessor and successor in the ring differ, so that a turn taken out of order
shows. Four full frames wrap the ring and reuse a context; the calls that flush come
on top. Counts matter only through the comparisons with 0, 1280 and 1536, and
both sides of each are present. `MaxFrames` is the only cap on `WorkerPool` and
`SerialEncoder`; `Search` and `Pacing` have none. A frame at bandwidth code 0
has 73 coefficients per channel, enough for every band of the masking curve's three
regions, every kind of group and thousands of bits of output across word boundaries;
code 1 lets the last group of exponents end beyond the last coefficient. The small
block buffer of `Input` makes every boundary case of a large one happen within
a few reads. In `Setup` two options are enough for each check between options, and
seven files are one more than the encoder takes; its masks are some for which A/52 has a
layout and some for which it has none, with and without LFE. Five samples (`Initial`)
are not a multiple of `SizeOfFloat`, so that a move of `nr` bytes may tear one. 640 kbps
mono is the setting at which the first guess of `Search` is above 1023.
In `Search` a frame takes no bits at offset 0, where `a52_bit_alloc_calc_bap` makes
an exception, but one of them does a little below it, as the low-frequency compensation
allows.

`PcmInput` seeks stay within `INT32_MAX`: beyond it, see section 5. `MainLoop` and
the pool runs do not check deadlock: after a short stream `aften_encode_close`
really waits for ever (finding 1). `Input` and `Setup` end where the program ends.

## 4. Fairness

`WorkerPool`: weak fairness of Main's steps inside a library call and of every
worker's steps, which is what a preemptive scheduler and mutexes that are
eventually granted give. Nothing is assumed of the application: it may stop
calling. No strong fairness is used: each mutex is contended by two threads
that alternate by construction, and `samples_mutex` is passed on in ring order.
`AftenMain` and `BitAllocSearch` are sequential programs: weak fairness of
the next step, and for the search only while one is in progress. `PcmInput`: weak
fairness of the turns of `pcm_init`, one call that runs until it returns. A
turn at the end of a file changes nothing but `turn`, which is what lets the
loop be seen to go round; nothing is assumed of reads and seeks.

## 5. Findings

1. **`aften_encode_close` may wait for ever** (`PoolShortStream`). When the stream
   is drained before a worker had its first frame, `prepare_encode` marks this
   worker `END`, but `process_frame_parallel` leaves through `goto end`
   (`a52enc.c:1463`) without waking it. It is no longer counted in
   `threads_running`, and `thread_join` waits for it. `API.txt` promises
   that close shuts the threads down. `FedCloseReturns` is the part that holds.
2. **The C# encoder loses samples** (`CsRemainder`). A call that together with the
   kept samples does not make a frame overwrites them (`FrameEncoder.cs:438`).
3. **Exponent strategies are compared by garbage** (`ExpStrategy`). In
   `compute_expstr_ch` a block that no other reuses is encoded from a stack array that
   is never filled for it (`exponent.c:83`). The frame is still valid, since the
   chosen set is then applied properly (`ExponentsDecode`), but it need not be the best.
4. **A truncated file is read for ever** (`HeaderHang`): the chunk loops do not look
   for the end of the file.
5. **Without threads a failed frame is not reported** (`SerialErrors`).
   `aften_encode_frame` drops the result of `process_frame` (`a52enc.c:1546`) and
   returns `framesize`, which is 0; `aften.h:84` promises a negative value on error.
   The frame is lost, and an application cannot tell it from a call that had nothing to
   return. In `main`, if every frame fails, `!frame_cnt` keeps the loop running:
   `TerminatesIfFed` excludes this.

Noticed while modelling, without a run of their own here:

- `a52enc.c:1382` increments `threads_running` without a lock, "as thread creater
  waits"; it waits with a `pthread_cond_wait` without predicate, which may return
  early. Exclusion of the contexts does not depend on it (the theorems).
- At 640 kbps mono the first guess is 1028 (`a52enc.c:408`), more than the header can
  hold, and both searches accept it for a frame that is easy to encode: the fast one
  because its loop up (`bitalloc.c:268`) is not entered, the slow one because it looks
  at the end of the range only when it goes up, and its jumps are not bounded either.
  `FastOffsetBounded` is what holds of the fast search: no frame takes it out of the
  range any further than its first guess.
- For a mask with LFE and speakers A/52 has no layout for, `aften_wav_channels_to_acmod`
  looks up the acmod of all channels, the LFE among them (`util.c:110`), and adds the LFE
  again: with front left and right, LFE and two more of bits 6 and 7, five channels become
  3/2 with LFE, and the frame announces six. `ChannelsAgree` excepts this case
  (`LfeCountedTwice`), which the `Setup` run reaches; without the exception it is
  violated. `LfeToldTwice` proves that it is always exactly one channel too many. Six
  channels come out right in number by the end of the table, though the LFE need not be
  the last of them. Of channels with no layout `SpeakersInOrder` says nothing: there is no
  right order.
- With `-pad 0` and an input of fewer than 256 samples, `main` moves `nr` bytes instead of
  `nr` samples to the end of the buffer (`aften.c:278`), and remaps from `fwav + diff` on
  instead of `fwav + diff * channels` (`aften.c:282`): most of the samples are lost and
  what is left is out of order. `SpeakersInOrder` is about a start with all 256, where `diff`
  is 0; asserted of shorter ones it is violated. (If `pcm_read_samples` cannot allocate
  its buffer `nr` is -1; that is not modelled.)
- A `-ch_` option with an unknown name counts as a file and sets none (`opts.c:295`).
  With other files it can get past `validate_input_files`, and `strncmp` is handed a null
  pointer (`opts.c:512`, `521`): the stage `crashed` of `Setup`.
- `pcmfile.h:162` says of `pcmfile_seek_samples` "Syntax works like fseek". With
  `PCM_SEEK_END` the code takes the offset back from the end (`pcm_io.c:219`), and clips
  what would be fseek's way of saying so, a negative offset, to none. The two agree at 0.
- Three-byte audio that ends inside a sample: `bytes_needed` includes the rest of it,
  `buffer_size` does not (`pcm_io.c:114`). With two bytes of it the in-place widening
  overwrites a byte of the last sample before it is read; with few samples left the gap
  between the two sizes wraps and the bytes go far behind the buffer (`ReadCrashes`).
  On a seekable file whose audio ends inside a block, seeks back from the end stay off
  the block boundary. The `Input` run has audio that ends one byte into a sample, which
  comes out right, and the gap that wraps, but neither the overwritten byte nor such
  seeks.
- An unseekable CAFF file with a size of -1, which stands for an unknown length, is read
  as if it had no audio: `data_start + data_size` wraps to a position before the first
  sample. A negative destination on a stream would be read for, piece by piece, for about
  2^54 turns (`pcm_io.c:68`); the model jumps to the end.
- `util.c:64` says that a mask with the high bit set stands for the plain layout. The
  code clears that bit only: 0xFFFFFFFF leaves 31 speakers and is refused.
- At offsets far below 0 `a52_bit_alloc_calc_bap` masks a negative number with 0x1FE0,
  so that some coefficients get bits again. Nothing is ever accepted there
  (`AcceptedFramesFit`), but the jumps of the slow search can get there; the
  hypothesis of `FailuresAreTooSmall` says what is needed of the counts.
- Seeks past 2^31 bytes use `SEEK_CUR` from the FILE's position, which is ahead of
  `filepos` by what is buffered (`pcm_io.c:44`).
- `-lfe 0` does not override a mask with an LFE channel, as `helptext.h:118` says;
  the default bit rates are not in the tables of half and quarter sample rates;
  `pcm_set_source_params` does not report what it refuses; the padding of a shorter 8-bit file among
  several is 0, which is not silence; WAVE chunks of odd size are not padded.

A suspicion that turned out harmless: the 32-bit products of `adjust_frame_size`
do wrap, but the rate still stays within two words of the exact one (`Pacing`).

## 6. Proofs

Checked by TLAPS for every value of the constants.

**WorkerPool** (assumption `PoolAssumption`: N > 1 and the types of the constants).
`TypeCorrect`: `Spec => []TypeOK`. `ContextIsExclusive` and `CopyIsExclusive`:
neither is inductive, since nothing in them says why a worker that wakes up
cannot meet Main. The strengthening `MutexInv` ties each mutex to program
counters: a worker owns its `enter_mutex` exactly while it is active, Main owns
it exactly while it creates or visits this worker, and `samples_mutex` belongs to
the worker that copies. It is preserved by every action, spurious wake-ups
of every condition included, and implies both.

**The ring.** `WakeupsAreNotLost`, `CopiesAreInOrder`,
`RunningWorkersAreNext` and `CloseIsClean` follow from one inductive invariant `IInv`,
on top of `MutexInv`. It places every worker by its distance `Pos(w)` from the one
that Main visits next. `RingInv`: the `threads_running` next workers run, and each has
the frame that its distance says is due, `submitted - threads_running + Pos(w) + 1`.
`HandshakeInv`: who sleeps on which condition at each point of the hand-over.
`TurnInv`, `CopyInv`: the worker whose turn it is to copy has the oldest frame that was
not copied, and what `copy_samples` left behind is that frame's predecessor.
`StateInv`, `CountInv`, `CallInv`, `DeliverInv`: states, counters and deliveries agree
with the phase of the stream; `StartInv` covers the creation of the threads. Each
theorem's promise is about one moment of the hand-over and says nothing of the
others, which is why the whole of it is needed.
Its hypothesis is `HandoverNotSpurious`: waits on `enter_cond` and
`confirm_cond` return only when signalled. The code waits on them once, without a loop
(`a52enc.c:546`, `1386`, `1471`), so a spurious return there does break the order; the wait
for a turn (`a52enc.c:1013`) is in a loop and may return at any time. The
`Pool` run makes the same choice.

`PoolNeverDeadlocks` (same hypothesis) says that inside a call of the library Main or
some worker can always take a step, and that `aften_encode_close` joins only threads
that have ended or still can, provided that every worker had a frame
(`EveryWorkerFed`; finding 1 is what happens otherwise). Enabledness is written out as
the predicates `MainCanStep` and `WorkerCanStep`. On top of `IInv` it needs `SleepInv`,
who sleeps on `samples_cond` waits for a turn that is another worker's, and
`LeaveInv`, a worker that no longer runs has been woken for it or has ended, unless the
stream was drained before its first frame.

**The delay line.** `PoolImplementsQueue` (same hypothesis) and `SerialImplementsQueue`
(no frame fails) prove the refinements of `EncodeQueue`: initial states map to initial
states and every step to a step or a stutter. `SerialImplementsCode` has no hypothesis
and is about `CodedSpec`, the queue that `AftenMain` and `FrameEncoder` use. `DelayLine_proofs` has the
one idea: after `k` frames a line of `n` slots is `Line(k, n)`, the latest `n` of them
behind empty slots, and a call that pushes and takes yields `Line(k + 1, n)`, one that
flushes `Line(k, n - 1)`. The ring invariant shows that the pool's contexts in ring
order are such a line; a `Visit` is then one step of the queue, and everything else
that Main and the workers do leaves the line alone.

**AftenMain** (no hypothesis, `EncodeQueue`'s encoder of any depth). `InputIsConsumed`
and `FrameCountIsExact` for inputs of every length. `IInv` says, at the
head of the loop, `Account`: what was submitted and what is left make up the input, or,
once the stream is drained, the frames submitted hold it with the 256 samples of the
transform and one frame less would not; and `Holds(n)`: the encoder holds the latest
`n` frames as a `Line`, the others have been written. The promises speak of the end of
the loop only, and its condition reads three variables that mean different things in
each phase, so they need both.

**BitAllocSearch** (assumptions `SearchAssumption`: the types of the settings;
`BitsAreCounts`: bit counts are natural numbers, *not* that they grow with the
offset, which they need not). `AcceptedFramesFit` and `AcceptedFramesAreUsed` follow from one inductive invariant `IInv`: the
types; `LeftInv`, `leftover` is what is left at the offset in hand; `OffsetInv`,
an offset below 0 is never in hand together with bits to spare once the upward
loop is over; `UseInv`, what each loop knows of the offset above (in `down` it
was just left because it did not fit); `ResultInv`, the promises. The middle three
are needed because the promises are about a finished search and say nothing of
one in progress. `FastOffsetsBounded` adds `RangeInv`, that no offset in hand or kept for
the next frame is above both 1023 and the first guess.

`FailuresAreTooSmall` and `QualityIsKept` add `FailInv` and `KeepInv`, and do need
something of the counts: `BitsGrow(t)`, no offset below `t` takes 100 bits more than
`t`, for `t = 0` and for `t = Quality`. The slow search goes up while fewer than 100
bits are missing, so a dip or bump of less than 100 cannot stop it. From 0 up pointers
grow with the offset and only the groups of mantissas, at most 11.5 bits in each
of the six blocks, disturb the count. Below 0 low-frequency compensation may give a few
bins bits that offset 0 does not; the code has no proof that it is below 100 for every
signal, and the theorem says what it depends on. The frames of the `Search` run satisfy both.

`SearchesAdvance` is the part of `SearchEnds` that does not depend on fairness: every
step lowers the pair (`StagesLeft`, `Room`) of natural numbers, so no search can go on
for ever, whatever `Bits` is. That the next step is then taken is the fairness of the run.

**EncoderSetup** (assumption `SetupAssumption`: the arguments are options of the table,
the streams have at least one channel). `FiltersAlwaysFit` and `SimdIsAvailable` hold
for command lines of any length, all files, processors and builds. `SettingsInv`
says what parsing keeps: the ranges of the table for bandwidth and quality, and that
nothing a `nosimd` so far ruled out is wanted. `EncoderMade` is the lemma about
`aften_encode_init` behind them: the nine sample rates have different codes, so the
search finds the one there is, the bandwidth is clipped into its range
whatever the quality, and each cutoff is at most half of each rate it can meet.
`ChannelsAlwaysAgree` and `LfeToldTwice` add `LayoutInv`, which follows the channels
and the mask from the file to the encoder. Both are for every mask: the first says that
acmod and lfe stand for the channels unless the LFE is counted twice, the second that
there is then one too many.

**PcmInput**, for every buffer size, every set of inputs and every sequence of reads and
seeks. `ReadIsRight` is about `byteio_read` alone: whatever block and position the buffer
is in, a read returns the bytes that follow the position, in order, and falls short
only at the end of the file. Its loop is handled by induction over its turns, which the
prover does reach when it starts from the least element of a set of numbers (`LeastOf`).
`PositionIsKept` is about the whole stack: after every header of every format, read and
seek, the bytes in the buffer are the ones at `filepos`, which is where the next byte comes
from unless the file is over. Its invariant `InputInv` goes up the layers: `IoOK`, the buffer
holds the bytes before the position of the stream, as many as `size` says; `Stands`,
`filepos` is `At(io)`, or the stream has reached the end; `Opened`, the audio of an opened file
lies inside it, so that every target of `pcmfile_seek_samples` is a position an
`int32_t` can hold and a seek does not overshoot; `PfOK` and `FilesAre`, each file is in
a phase its header reader can leave it in. `Opened` is what the promise needs and does
not say: a seek computes its target from `data_start` and `data_size`, which come from
the file. Two hypotheses, both true of the `Input` run:
`FilesFit`, no file is longer than `INT32_MAX` (what happens beyond is in section 5); and
`AudioInside`, the `SSND` chunk of an AIFF file does not point out of the file, since its
offset is a signed `int` that `aiff.c` adds to the position without a check, and no chunk
of a CAFF file has a negative size that leads back before the file's start.

**Only model-checked.** Liveness, which under fairness is out of the prover's reach;
`SearchesAdvance` and `PoolNeverDeadlocks` are its safety halves for the search and the
pool. `FramePacing`, which TLC covers completely: all settings and the complete orbit of
the counters. `SpeakersInOrder`, which is about sorted sequences. `HeaderUnderstood`,
`SamplesRight` and `PositionReported`, which compare a file with a description of what
was put into it, and so hold for the files described. The frame family computes with
recursive operators over data, which the prover cannot induct over: TLC compares it
with reference definitions on the inputs of its run. `FrameEncoder`, whose property is
refuted.

## 7. Plan

Done: every module of section 2. Next:

1. Proofs: lemmas about the operators of `ChannelLayout` that `SpeakersInOrder` needs;
   `PositionReported`, on top of `PositionIsKept`.
2. `EventPool`: the Windows-event form of the handshake, as a third implementation of
   `EncodeQueue`.
3. `vbw_bit_allocation`, with its estimates in thousandths of a bit.

## 8. What is left out, and why

- Failing allocations and thread creations: the code does not handle them.
- Transcoding: compiled out (`#if 0`) in the encoder.
- MDCT, windows, filters, block switching decisions, dynamic range levels,
  `convert.c`: floating-point arithmetic, out of TLC's reach. Their *order* is in
  `copy_samples`, their results are inputs of `FrameOutput`, the choice among their
  versions is in `EncoderInit`. So are the Altivec and SSE transforms.
- `vbw_bit_allocation`: floating-point estimates.
- The Windows build of the threads.
- The C++ binding, a wrapper without state; the WAV utilities, test programs around
  the PCM reader; the C# type declarations.
- Messages, help texts, progress output, status fields.
- Data races on `threads_running` as such: the model increments it atomically.
- Memory-model effects: contexts are handed over under mutexes.
- The result -1 of `output_frame` (`a52enc.c:967`), for a frame that has no room for
  its checksum: `FrameFits` and `BitsAsPredicted` are why it does not come up.
