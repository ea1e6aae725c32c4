# Camera FPGA development platform: the verification project

The repository brings IMX676 cameras behind a DA322 FPGA board (a Holoscan Sensor Bridge) up to
a host, shows and records what they see, measures the link, and compresses frames with JPEG XS.
This directory holds a formal model of its own logic: TLA+ modules, TLC configurations that
check them on small instances, and theorems proved with TLAPS for every instance.

Contents: 1 inventory, 2 modules and how they correspond to the code, 3 runs, bounds, fairness,
4 proofs, 5 disagreements between the code and what is said of it, 6 what is left out,
7 plan.

    tlc -workers 2 -config MCPreview.cfg MCPreview
    tlapm Preview_proofs.tla

## 1. Inventory

| Part | State it keeps | Operations | Talks to |
|---|---|---|---|
| `PreviewSink` (hsb/preview) | last stream frame, last still, two sequence counters, a request flag; a mutex, a condition variable | Publish, PublishStill, RequestStill, TakeStillRequest, WaitForNewer, WaitForStill | called by the encoder operator and by every HTTP thread |
| `JpegEncoderOp` | a queue of `capacity` messages, the time of the last publication | compute | pulls from the pipeline, publishes to the sink |
| `PreviewServer` | listening socket, accept thread, list of workers, `running` | Start, Stop, accept loop, Reap, one handler per connection | sink, `Controls`, the browser |
| `SnapshotOp` | `requested_`, `pending_base_`, `last_written_`, host buffer | Request, LastWritten, compute | HTTP threads on one side, the pipeline on the other, files |
| `CameraControls` (cam_tuner) | cached black level and test pattern | Get, Apply, CaptureRaw | sensor driver, SnapshotOp |
| `NativeImx676Sensor`, mode planner, register tables, P22 adapter, TCA6408 | cached timing and options; the sensor's and expander's registers | configure, start, stop, power, runtime setters | I2C over the board |
| DA322 helpers | FPGA registers: clock, CAM_EN, lanes and data type of each port | reset, setup_clock, ConfigurePort, SetDataType | hololink |
| `CameraRig`, `RigConfig` | sensors, receivers, run conditions | Connect, ConfigureSensors, BuildChain, StopAll | all of the above; the framework starts and stops receivers on its own threads |
| `hsbctl` | none | one command per process | board and sensor |
| `FrameStatsOp`, `FrameCheckOp`, `bandwidth_test` | counters, two receiver pages, dump counters | compute, snapshot; the measurement and its verdict | receiver pages written by the FPGA meanwhile |
| `NvencSession` | ring of output bitstreams, pending pictures, mapped inputs | Register, Encode, Flush, Unregister, destructor | NVENC driver |
| `IvfWriter`, `IvfReader` | file, frame count | Open, WriteFrame, Close, ReadFrame | a file, which a crash may cut |
| JPEG XS codec (compression/jxs) | band layout, predictors per column, rate-control search | MakeHeaders, Encode, Decode | none; a pure function |
| HSB emulator (apps/emu_source) | the emulated sensor's register store, never reset; per camera a thread with its schedule; the limit of frames | I2C transactions, ServeCamera, main's wait | the driver over I2C, the receiver over the data plane |
| cam_player, scripts, examples | see section 6 | | |

What makes these parts hard to test, in short (PROJECT.json lists each hazard at its line):

- *Interleaving*: HTTP threads and pipeline threads meet in the sink, in SnapshotOp and in the
  live controls; the sensor takes registers over at frame starts nobody controls; the FPGA
  rewrites a page while it is being checked; connections come while the server stops; the
  emulator reads a register store the driver is rewriting.
- *Partial failure*: an I2C transaction fails in the middle of a latched sequence or of a
  bring-up; a driver call fails half way through Encode; the disk is full; the server is out
  of descriptors; a segment or a slice of a codestream is missing.
- *Crash and restart*: hardware outlives processes, a file outlives its writer.
- *Liveness*: a waiting browser gets its still, the backlog is served, Stop returns, the rig
  ends, the bandwidth test comes to a verdict.
- *Sequences and numeric edges*: an encoder and a decoder that must take the same decisions for
  every precinct, and a rate control whose binary searches assume monotonic sizes.

For each part, what makes it correct: a request is neither lost nor served twice and never
answered with something stale (preview, snapshot); every thread is joined exactly once and none
survives Stop (server); registers are taken over whole and agree with the driver's cache
(sensor); ports, sensors and receivers agree whatever a previous session left (rig); a PASS
means what it says (bandwidth); outputs are not overwritten, not lost, in order (NVENC); a
reader obtains a prefix of what was written (IVF); the decoder reconstructs the picture and
never loses step, and works with the headers that were written or refuses the codestream (JPEG
XS); a session of the emulator finds the frame it is trained on, at its pace (emulator).

## 2. Modules

Every module header states its abstraction. `MC*` modules only supply constants.

| Module | Code | Correspondence |
|---|---|---|
| `OnDemand` | (abstract) | what "at most one result per request, none without one" means: `asked`, `pending`, `working`, `done`. Implemented by `Preview` and by `SnapshotOp` |
| `PreviewSink` | hsb/preview/preview_sink | each method holds the mutex from first to last access and is one operator, conjoined with the step of the thread that calls it |
| `Preview` | jpeg_encoder_op.cc compute, its queue; the /still.jpg, /stream.mjpg and /snapshot.jpg handlers of preview_server.cc | one action between two accesses to the sink. A JPEG is the number of the frame it was made from. The two reads of LatestStill in one line of the handler are two actions |
| `SnapshotOp` | snapshot_op | the exchange of the flag, the lock, the copy, the .raw and the .json are separate steps |
| `PreviewServer` | preview_server.cc Start, Stop, accept loop, Reap, worker threads | `callerPc`, `acceptPc` and `conn[c]` are program counters; who owns a `std::thread` is a set per list; `MaxOpen` descriptors are left for connections, and accept fails with EMFILE beyond |
| `SensorControl` | CameraControls::Apply and the setters of native_imx676_sensor.cc, VmaxForFps, Shr0ForExposure, GainRegisterForDb | a call is a `script` of I2C byte writes and assignments, executed one by one; a frame may start in every state with REGHOLD 0 |
| `RigBringup` | camera_rig.cc, da322_board.cc, native_imx676_sensor.cc configure/start/stop, imx676_tables.cc, p22_adapter.cc, hsbctl | a session is a script of accesses to hardware that outlives it: `ConfigureBoard` puts the first part together, then `NextCamera` one part per camera (`todo`); receivers run concurrently once composed |
| `BandwidthTest` | frame_stats_op.cc, frame_check_op.cc, apps/bandwidth_test | pages, queues of one message, the check's two copies of a page as separate steps, the drain and the verdict |
| `NvencSession` | nvenc_session.cc | one action per driver call that can fail; the driver is external and may buffer |
| `Ivf` | ivf.cc | the file as a sequence of fields, `flushed` is what survives a crash |
| `Imx676Mode` | imx676_mode.cc: lane rates, HmaxFor, VmaxForFps, PlanTiming, the CSI layout | pure operators with the real numbers of the mode catalogue; a frame rate is a fraction; an exception of PlanTiming is the value `NoTiming` |
| `EmuSource` | apps/emu_source (ServeCamera, imx676_emulator.cc, main's wait) and the driver's set_mode, configure, start, set_frame_rate, stop | the emulated registers are bytes and the driver writes them one by one; the camera's thread asks streaming(), reads geometry() and sends in three steps; a tick is the time of a frame at 60 Hz |
| `JxsGeometry`, `JxsTransform`, `JxsEntropy`, `JxsHeaders`, `JxsCodec` | geometry.cc, transform.cc, entropy.cc, headers.cc, encoder.cc, decoder.cc | the first four are pure operators in the structure of the code: marker segments are sequences of bits, with the fields of the writer and of the parser listed separately as in the code; `JxsCodec` runs Encode precinct by precinct (with each probe of the rate control a step), lets the pieces of the codestream be altered, then parses and decodes it |

Composition: `Preview` extends `PreviewSink`; `JxsCodec` extends the other four JPEG XS modules;
`EmuSource` extends `Imx676Mode` and composes the emulator with the driver that programs it;
`Preview` and `SnapshotOp` each instantiate `OnDemand` with a refinement mapping. The detail of
live control (`SensorControl`) and of bring-up (`RigBringup`) are two views of the same driver:
the first keeps bytes and times, the second keeps register groups and sessions; a pattern
request (`SetPattern`) is the one live control the second needs.

## 3. Runs

Every run finishes within four minutes, most of them within one. Counters that could grow for ever are bounded by
constants named in the modules (`MaxFrames`, `MaxAsks`, `MaxOpens`, ...).

| Run | Question and bounds | Fairness |
|---|---|---|
| `preview` | Two /still.jpg clients, or two stream or snapshot clients (the constraint `OneKind` keeps the kinds apart, which share nothing but the sink), two requests, two frame numbers, a queue of two, two publications. `NoLostRequest`, `StillNotStale`, `StillServed`, `ImplementsOnDemand`, `StreamInOrder`. Two clients suffice for one to consume the still another asked for, and for a late still of an expired request to answer a later one | the camera captures, the scheduler calls compute, messages carry a tensor again and again; no fairness for clients |
| `snapshot` | Two HTTP threads, three requests, four frames; writes may fail. `ReportedComplete`, `NewestWritten`, `ImplementsOnDemand` | compute proceeds once entered, frames keep coming |
| `server` | Three connections, descriptors for two of them so that accept fails with EMFILE, two Start/Stop cycles. `OneOwner`, `StoppedMeansQuiet`, `BacklogServed`, `StopReturnsIfClientsGoOn` | threads run; for the last property clients read or go away |
| `server_stalled` | One client that stays connected and stops reading. `StopReturns` is violated | threads run |
| `sensor` | Six request combinations over all six controls, base-2 digits so that three-byte registers carry; a frame start or a failure between any two bytes. `LatchedWhole`, `TimingMatchesDriver`, `PatternMatchesControls` | none |
| `sensor_frame` | One request for a shorter frame with a short exposure. `FrameExposes` is violated | none |
| `rig` | Two ports, three rigs that differ in mode, lanes, pattern, reset and adapter, nine hsbctl commands; every session may die anywhere. `PortMatches`, `NothingInherited`, `ConfiguresInStandby`, `NoStrayStream`, `StopEnds` | receivers are scheduled, main waits for its future |
| `emulator` | Two sessions out of three configurations with the real mode numbers: into a window, out of it to binning with another pixel format, and one that PlanTiming refuses; the first may be killed anywhere; one call of set_frame_rate; sends fail for up to two ticks. `TrainedOnIt`, `OneStrayFrame`, `NoBurst`, `PlanIsSound`, `FramesFlow` | the thread of the camera runs and sleeps, sends succeed again and again, main looks at its flag |
| `bandwidth` | Four frames of five kinds through two pages, so that a page is overwritten twice. `GapsExact`, `PassIsSound`, `OverwriteDetected`, `VerifiedDumpIsGood`, `Concludes` | operators are scheduled; the measurement ends; its verdict follows |
| `nvenc` | Three bitstreams, two frames, six pictures: the ring wraps once. Any driver call may fail. `NotOverwritten`, `NothingLost` (which includes that an input is mapped exactly while its entry is pending), `PacketsInOrder` | none |
| `ivf` | Two files of two frames, empty or of two fields, a crash or short write at any field. `ReadsPrefix`, `CountIsFrames` | none |
| `jxs` | 196 jobs: seven layouts (grey with two vertical levels and a cut-off last precinct, Bayer in both Star-Tetrix forms, RGB, subsampled chroma, two columns, three significance groups), four combinations of coding flags, lossless with three contents or at two budgets with two contents each. `Lossless`, `DecoderFollows`, `BestFits`, `BudgetExact`, `OnlyAsWritten`. One content in two flag sets is also altered on the way: a piece (segment, slice, EOC) lost, repeated or exchanged with its neighbour, the segments reversed, the rest cut off, a segment nobody asked for. Four sets of foreign headers (everything optional, subsampled chroma, the two non-linearities' parameters) are written and parsed | none |

Why the `jxs` jobs suffice for their purpose: every branch of the entropy coder is reached,
including the raw fallback (682 of the 1192 packets in the finished codestreams use it), zero predictors, cut-off
precincts and bands without a line; 40 jobs are rejected because the budget is too small even at
Q = 31, which the code reports as a configuration error; the best Q and R found are spread
over their range. It is a check of chosen pictures, not of all.

`CHECK_DEADLOCK FALSE` is set where the modelled system really stops: clients that went home, a
pipeline that ended, a destroyed session, a decoded picture. `sensor` and `rig` never stop and
are checked for deadlock.

*Why the fairness is justified.* The framework's schedulers (event based or multi-threaded) run
an operator whose conditions hold, and the operating system schedules threads: weak fairness of
their steps. `TakeRequest` has strong fairness because a message without a tensor
(`NoTensor`) may always come in between, and a configured pipeline does not send only such
messages. No fairness is assumed of browsers, of the driver, of the disk, or of the user, except
in `StopReturnsIfClientsGoOn`, which says so.

Each property of a passing run has a mutant in PROJECT.json: an operator next to the definition
it replaces, marked as a mutant, with which TLC finds the property violated.

## 4. Proofs

The theorems hold for every value of the constants (any number of clients, connections, frames,
any ring size), under the named ASSUMEs of the modules, which TLC evaluates in every run.

- **`Preview_proofs`**: `TypeCorrect`; `NoRequestIsLost`; `StillsAreNotStale`;
  `StreamsMoveForward`; `StillsOnlyOnDemand`; `StillsImplementOnDemand` (initial states map to
  initial states, each step to a step or a stutter of `OnDemand`). The inductive invariant adds
  to the type invariant `FramesInOrder` (camera, queue, encoder in capture order),
  `ViewsInOrder`, `StillNumbers` (stills are numbered without gaps and no `before` is from the
  future) and `NewerIsFresh`: "newer than `before`" implies "made from a frame not older than
  the one seen on entry". Without the last, staleness is not inductive, because the handler
  compares sequence numbers while the property speaks of frames.
- **`Outputs_proofs`** holds the proofs of `PreviewServer`, `SnapshotOp`, `NvencSession` and
  `Ivf`. Server:
  `TypeCorrect`; `EveryThreadHasOneOwner`; `StopLeavesNothing`.
  `Stages` says which list of threads is in use at which point of Stop and of the accept thread;
  with it the partition of the threads among their owners is inductive. Snapshots:
  `SnapshotTypeCorrect`; `ReportedFilesComplete`; `DumpsOnlyOnDemand`;
  `DumpsImplementOnDemand`. Rests on `LockCoversDump`, `RequestHasPath` and `OthersComplete`:
  only the dump under way, which holds the mutex, may have unequal files.
- **`Outputs_proofs`**, the video encoder's session: `SessionTypeCorrect`;
  `BitstreamsNotOverwritten`; `PacketsStayInOrder`; `NoPictureIsLost`.
  The pending entries are the last places of the ring in ring order (`RingSegment`); since the
  ring is drained before it is full, they are distinct. `NoPictureIsLost` (packets and pending
  entries together are the pictures, and inputs are mapped exactly while pending) is inductive
  on top of that.
- **`RigBringup_proofs`**: `TypeCorrect`, `PortsMatch`, `NothingIsInherited`,
  `AlwaysConfiguresInStandby`, `NoStrayStreams`, for any ports, rigs and commands. What a session
  has still to do is in its script, so the invariant `IInv` speaks of the script. An access `Sets`
  an item of a camera (a register, the lanes, the data type, the clock, whether it answers) or
  `Touches` it; the script `Ends` with an item set to a value if no later access touches it. For
  every camera the rig has come to (not in `todo`), each item either is about to end at the value
  wanted or is not touched any more and has it (`SettledInv`); what an earlier session left is
  therefore irrelevant. `ScriptInv` has the power cut before the first register, `DeviceInv` what
  is left of a start or stop sequence, `CleanInv` that only receivers of this session stream.
- **`Outputs_proofs`**, the IVF container: `FileShape`, `PrefixIsRead`, `CountIsTrue`. The
  invariant `IvfInv` cuts the file up: the frames abut (`FramesAbut`) and each is where it says
  (`FramesLaidOut`), what follows the last is a part of one (`PartialEnd`), a closed file has
  nothing there and the true count (`ClosedFile`), and the reader stands at a frame boundary
  (`ReaderInStep`). Without the last two a reader of a growing file could be anywhere.
- **`JxsCodec_proofs`**, JPEG XS, building blocks for every input: `LiftingRoundTrip` (one
  dimension, mirrored samples at both ends, even and odd lengths) and on it `LevelRoundTrip` (the
  four bands of a two-dimensional level); `ColourRoundTrip` and on it `ComponentsRoundTrip` (RCT,
  or Star-Tetrix with any CFA pattern, Cf and weights; each lifting step leaves what it reads
  alone, since no neighbour lies in the component that is updated); `StoredBands` and
  `ScaleRoundTrip` (fractional bits, bit depths); `VlcRoundTrip`, `QuantisedFits`,
  `DeadZoneWithinStep`. They are the reasons `Lossless` and `DecoderFollows` hold.
- **`JxsCodec_proofs`**, JPEG XS encoder, a theorem of its whole specification: `WriterInv` is
  inductive. The binary search for Q keeps "what lies below `lo` does not fit, `hi` does", the one
  for R the opposite, and the best pair so far is what coding the precinct again would give
  (`Measured`), as nothing it depends on changes while the search goes on. So the pair written fits
  and its neighbours do not (`RateControlIsLocal`); it is the best of all (`BestFits`) in every
  state in which sizes are monotone, which the code assumes (encoder.cc:184) and nothing guarantees
  (`RateControlIsBest`; TLC finds them monotone wherever it has looked); coding it again cannot
  throw (`SecondCoding`, an action property); and what is written is within the limits a decoder
  checks (`WrittenIsReadable`).
- **`JxsCodec_proofs`**, length of a constant-rate codestream: `BudgetIsMet` (never above the
  target, less than a byte per precinct below it) and `BudgetIsExact` (and Lcod, parsed from the
  header written last, says so). The count behind it (`BudgetSound`): the slices written so far
  have 6 bytes each and `PrecinctHeaderBytes + BodyBudget` per precinct (`Spent`), a slice is
  begun where the one before is full (`Due`, `Within`, from the precinct grid), so at the end
  there are `NumSlices` of them, and what is missing to the target is the remainder of the
  division in `BodyBudget`. It needs that the headers are as long when they are written as they
  were when the budget was computed, although Lcod has changed since (`LcodIsFree`, from
  `WrittenTwice`: segment by segment the bits are as many), and that Lcod is read back
  (`FieldsRoundTrip`, for any list of fields). Sums over a sequence are the model's recursive
  function `Total`; that it has a next term follows from an induction on prefixes
  (`RunningSum`), and concatenations are found again in `FlattenSeq` by place (`FlattenPlaces`).
- **`JxsCodec_proofs`**, JPEG XS decoder, for any codestream, altered or not: `NeverIncomplete`. A
  picture is put out only when every precinct was taken from its place in a slice bearing the
  number it must bear, within range, and EOC lies behind the last slice (`DecoderInv`: all the
  precincts before the current one were).

- **`JxsEntropy_proofs`**, JPEG XS entropy coding, for every layout, all coding options, every
  (Q, R), any coefficients and any state of the predictors: what the decoder has to keep in step
  with. `CountsRoundTrip`: the bitplane counts of a line of a band, with either predictor, with or
  without significance flags, or raw; `DataRoundTrip`: its magnitudes and signs, packed with the
  data or behind it; `PacketFollows`: all the lines of a packet, each in its place;
  `PrecinctFollows`: all the packets of a precinct, after which the decoder's counts are the
  encoder's and every coefficient is its quantised value; `UniformWithinStep`: both
  reconstructions are off by less than a step. The model writes positions of a set (groups with
  a flag, signs of nonzero values) in order as the code's loops do; the lemmas `OrderFacts` say
  that "the n-th member" and "how many are before" are inverse, by recursion over 0..n. The uniform
  quantiser's shift-and-add loop is a recursive function; `SeriesBounds` bounds it on both sides.
  What a packet leaves in the two tables being filled is `Filled`, in terms of the lines sent so
  far, and `HasRead` joins the two tables and the reader's position in an induction over packets.
  It needs that each line of a band is sent exactly once and after the line above, which
  predicts it (`LayoutSound`).
- **`JxsEntropy_proofs`**, the layout: `EveryLayoutIsSound`, for every job that passes Validate
  and every precinct of it. From the band table of geometry.cc (`TablesPrepared`): a band has as many lines in a
  precinct as that precinct covers rows of it, cut off at the bottom (`LinesAre`), a band's width
  shrinks with its level by rounding up (`BandTable`), and the packets of a level are a block
  that sends its bands' lines row by row (`LevelSent`); blocks one behind the other send each
  line once (`BlockConcat`, `EveryLineIsSent`).

- **`JxsDecoder_proofs`**, JPEG XS decoder beside the encoder: `DecoderNeverDrifts`, a theorem of
  the whole specification. `DecoderFollows` holds in every run, whatever is encoded at whatever
  rate and whatever becomes of the codestream, while three things hold: the encoder did not throw,
  every coefficient fits its 32-bit integer (`CoefficientsNarrow`), and the headers parsed are
  those written (`HeadersRead`, a part of `OnlyAsWritten`, which the run checks). The precincts
  coded so far are a chain (`Chain`): each takes its reader from the predictor states the encoder
  had before it to those it had after it, and gives the coefficients back within a step (`Sent`,
  from `PrecinctFollows`). A slice begins where all columns are without a predictor, so the chain
  is cut there. The codestream lays it out in slices (`Laid`, `CodedSoFar`, kept by every step of
  the encoder). No alteration puts into a slice that bears the right number a precinct the encoder
  did not put there (`WrittenPieces`, `AlteredPieces`, `PiecesOk`), so a decoder that has got to
  precinct p has read exactly the first p of the chain: its predictor states are the p-th of it,
  and what it has placed in its band buffers are those precincts, each sample in a place of its
  own (`PlacesDiffer`). `FollowInv` says this of encoder and decoder, and `SyncInv` (`InStep`)
  joins it to the invariants of the encoder.

- **`Frames_proofs`**, the measurement: `TypeCorrect`; `GapsAreExact`; `OverwritesAreDetected`;
  `VerifiedDumpsAreGood`; `PassMeansGood`. The argument is one of order: frames never overtake
  each other in the pipeline (`StatsInOrder`, `CheckInOrder`), so what is behind was counted or
  copied before; and a page is only overwritten by a later frame (`PagesMoveOn`), so a spoilt
  copy stays spoilt. For the verdict, what the counters say is related to the frames seen, and
  once the receiver has stopped and the queues are empty the two agree.
- **`Frames_proofs`**, the emulator: `SessionsFindTheirFrame`, `StrayFramesAreFew`, `FramesKeepTheirPace`.
  A session is trusted with what it has written or still has to write (`ScriptInv`), so that
  the registers are those of the plan once the script is empty, whatever was in them; a frame of
  another geometry can then only be the one that was read before (`StrayInv`, `LateInv`); the
  pace is an invariant of the thread alone (`PaceInv`). Its lemmas say that the little-endian
  bytes of a value are put together again, for every value up to kMaxVmax. `PlansAreSound` is
  about PlanTiming and set_frame_rate: for every mode of the catalogue and every request (any
  frame rate a fraction stands for, any line length, any receiver), HMAX and VMAX round up
  (`CeilCovers`), so the frame is neither shorter than its readout nor faster than asked.
- **`SensorControl_proofs`**: `Inductive`, `OnlyWholeRegistersAreLatched`. What is left of a
  driver call, counted from its end, says where the call stands (`Shape`): whether REGHOLD is 1
  (`Held`), which register may be half written (`TornIsHeld`) and which one is still to be
  written whole (`WholeAgain`). The lemmas on concatenation establish the shape for every call
  Apply makes, with every value. `Settles`, `TypeCorrect`, `TimingSettles` and `PatternSettles`
  are about values: what a register (`Will`) or a cached setting (`WillBe`) will be when the call
  returns is its last write in the script or, without one, what it is now. `TimingInv` and
  `PatternInv` say that these are the values of one frame length, exposure, level and pattern,
  unless a failed call was not repeated (`Clean`); when the script is empty, "will be" is "is".

All type invariants and on-demand counts are proved (`Preview`, `SnapshotOp`, `PreviewServer`,
`NvencSession`, `BandwidthTest`, `EmuSource`, `SensorControl`, `RigBringup`, and that of `Ivf` as
part of `FileShape`) and not run again: `ImplementsOnDemand` already implies the counts. `JxsCodec`
states none; what its encoder keeps in `search` and `stream` is described by `WriterInv`.

Assumptions the proofs rest on, beyond the kinds of the constants: `SensorAssumption` (limits and
base large enough for the real registers' digits), those of `EmuSource` on the plans that may be
asked for (`Wanted`: a frame rate is a fraction of positive numbers, or 0 for the mode's own, and
a requested line length fits 16 bits), and
`JobsAssumption` in `JxsCodec`: a job's headers pass Validate, its picture is not subsampled
vertically (which the code refuses), and its fields fit the C++ types of PictureHeader and its
neighbours (`FieldsFit`), and its two coding flags are Booleans. `BudgetIsExact` also takes targets to be below 2^31 bytes, as the
model's bit writer computes no larger power.

Model-checked only: all liveness (`StillServed`, `NewestWritten`, `BacklogServed`,
`StopReturnsIfClientsGoOn`, `StopEnds`, `Concludes`, `FramesFlow`), as TLAPS has no proof rule
here for fairness; and of `JxsCodec`: `Lossless`, which speaks of folds over levels and bands;
`OnlyAsWritten`, of every alteration of a codestream, and with it the hypothesis `HeadersRead` of
`DecoderNeverDrifts`; and `BestFits` where sizes are not known to be monotone.

## 5. Where code and description disagree

Two disagreements are shown by runs:

- `server_stalled`: preview_server.hpp:43 says Stop "closes the listening socket and joins the
  threads". A handler blocked in `send()` to a client that stays connected and does not read has
  no send timeout, so the join at preview_server.cc:340 need not return.
- `sensor_frame`: native_imx676_sensor.hpp:51 calls the runtime controls "safe while streaming;
  latched with REGHOLD". set_frame_rate latches VMAX and SHR0 in two sequences
  (native_imx676_sensor.cc:101); a frame that starts between them runs with a shutter outside of
  the frame.

Others were met while modelling and have no run of their own; the model follows the code:

- preview_sink.hpp:30 speaks of a "full-resolution JPEG of the next frame"; preview_server.cc:387
  waits for a still newer than the last one, so a still of the frame already in the encoder's
  hands may answer (`StillNotStale` states what does hold).
- controls.hpp:33 has CaptureRaw return "the base path that will be written"; two requests
  before the next frame share one dump, and the first path is never written (snapshot_op.cc:64;
  `NewestWritten` speaks of the newest). snapshot_op.hpp:26 says the files "exist once non-empty"
  of LastWritten; snapshot_op.cc:110 sets it without looking at the streams.
- BLKLEVEL is written in two bytes without REGHOLD (native_imx676_sensor.cc:120), so
  `LatchedWhole` does not include it; the test pattern tables rewrite its low byte, and the
  reported level is then not the programmed one (:124, controls.hpp:18). A failure inside a
  latched sequence leaves REGHOLD set until the next setter succeeds (:99). The reported exposure
  is the requested one, not the one clamped to the frame (:106).
- da322_board.hpp:49 asks that a port be configured "before the sensor starts streaming";
  camera_rig.cc:128 does not ensure it after a crashed session when `reset_board` is false, nor
  does `hsbctl configure`. WORKING.md:203 says the clock setup runs after every reset
  "(rig, hsbctl)"; `hsbctl reset` only resets (hsb/cli/hsbctl/main.cc:296). On boards without the
  P22 adapter the camera is not power-cycled, so an earlier test pattern survives configure().
- With NVENC, a failing EncodePicture still advances the ring (nvenc_session.cc:288, :312), and
  an entry whose lock fails leaves its input mapped (:94).
- A writer used on after a short write joins the cut frame with the next (ivf.cc:79,
  ivf.hpp:51); `ReadsPrefix` excludes that history.
- A frame lost on the wire counts as a gap and as a drop for `--allow-drops`
  (apps/bandwidth_test/main.cc:193). A frame number that stays 0 or wraps hides gaps
  (frame_check_op.cc:136). The verdict ignores `size_mismatches`. frame_check_op.hpp:46 names
  dumps by frame number, the code by an index of its own. DESIGN.md 6.3 says overwritten pages
  are detected: they are for frames whose CRC is checked.
- The planner (`Imx676Mode` follows the code): imx676_mode.hpp:96 calls VMAX even and clamped to
  kMaxVmax, which is odd, so the slowest rates get an odd VMAX. PlanTiming plans two lanes of
  RAW12 at 1440 Mbps with an HMAX of 628, more bits per line than the lanes carry, although
  imx676_mode.hpp:116 says it throws if impossible; `PlanIsSound` claims the line fits for four
  lanes only, and imx676_mode_test.cc checks it with HmaxFor of the rate rather than with the
  planned HMAX. set_mode assigns the mode before PlanTiming throws (native_imx676_sensor.cc:41).
  cam_tuner's ceiling for the frame rate assumes four lanes and the table's HMAX.
- The emulator knows neither REGHOLD nor the camera's power, so it is no reference for
  `SensorControl`, nor for `ConfiguresInStandby`. A camera that no host starts never reaches
  `--frames`, so the emulator waits for it. frames_sent is read without synchronisation
  (main.cc:172). After failed sends the emulator catches up with its schedule at full speed
  (`behind` in `NoBurst`).
- A black level and a change of the pattern in one request: the tables run last, and the low
  byte of the level is lost (`PatternMatchesControls` states what the register then holds).
- Stop writes -1 to listen_fd while the accept thread reads it (preview_server.cc:337), a data
  race; the model makes the shutdown one step, after which every accept fails.
- The JPEG XS parser ignores a repeated CAP or PIH, of which jpegxs_part1_notes.md:152 wants
  exactly one; it takes unknown capability bits below 32, where the notes (:127) want an abort;
  a reserved CRG layout passes ParseHeaders and throws only in the transform.

## 6. What is left out

- JPEG coding (nvJPEG, NPP), the control page, preview_demo, CUDA memory: no state the other
  parts depend on; a failing call is an exception that ends the pipeline, which the modules have.
  One case is not in the modules: when cudaMallocHost fails after cudaFreeHost, host_buffer_
  dangles and stop() frees it again (snapshot_op.cc:91).
- The files /still.jpg saves, HTTP parsing (a request is its outcome).
- The YAML parser, mode names, the operator graph of BuildChain beyond its receivers, Holoviz.
- hsbctl's reading commands, `wr` to arbitrary addresses and `ptp`.
- Rates, latencies, CSV and JSON reports of the operators.
- Frame rates below 0.02 Hz, whose VMAX does not fit the integer it is converted to
  (imx676_mode.cc:29, undefined behaviour).
- JPEG XS: the two non-linearities of Annex G (their parameters are written and parsed; their
  squares need 64 bits, which TLC's integers do not have), damage inside a segment or a precinct,
  default weights, TDC slices (which the decoder refuses), mosaic conversions, the options and
  files of the command-line tools. Very wide pictures, whose subpackets exceed the short header
  (headers.cc:623), are outside of the jobs.
- The emulator's expander and board registers, its options and several cameras at once (they do
  not interact), and its frame contents beyond the layout; cam_player's display; examples, build
  rules, analysis scripts and vendored code: nothing of these has state the modules would share.
- One process drives the board at a time (bound of `RigBringup`): the read-modify-write of the
  shared data type word and of the expander are atomic only then.

## 7. Plan

Order: the preview (the part with most concurrency) first, then sensor and board, measurement,
recording, the codec, the planner and the emulator. Done: the modules of section 2, the runs of
section 3, the theorems of section 4. Open:

1. JPEG XS headers: that no alteration of the codestream lets ParseHeaders return fields the
   decoder codes with other than those written, which `DecoderNeverDrifts` assumes.
2. JPEG XS geometry: that the bands of a level partition its samples, from the ceilings in
   geometry.cc, for every width and height.
3. A refinement of the preview server by an abstract "set of workers, each joined once", of which
   `OneOwner` and `StoppedMeansQuiet` are two consequences.
