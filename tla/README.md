# RTSPMultiCam in TLA+

RTSPMultiCam captures up to nine DirectShow cameras with FFmpeg, puts their
pictures side by side into one mosaic picture, encodes it as H.264 and serves the
stream with live555 over RTSP. This directory holds TLA+ models of the program
under `src/RTSPMultiCam`, TLC configurations that check them on small instances, and
proofs about them for TLAPS.

    tlc -config FrameQueue.cfg MCFrameQueue.tla     # one of the runs listed below
    tlapm FrameQueueProofs.tla                      # one of the proof modules

## 1. The system

One process, with these threads:

| thread | runs | code |
|---|---|---|
| main, later the encoder thread | set-up, `CameraH264Encoder::run`, teardown | `main.cpp:110-334`, `CameraH264Encoder.cpp:255-408` |
| one capture thread per camera | `runCapture` -> `CameraCapture::capture` -> `CamOnFrame_n` -> `receive_frame` | `main.cpp:50-103`, `CameraCapture.cpp:287-364` |
| the RTSP thread | `CameraRTSPServer::run`, the live555 event loop, `CameraFrameSource` | `CameraRTSPServer.cpp`, `CameraFrameSource.cpp` |

Shared state and how it is guarded:

* the slots of the mosaic: `fSubPict[]`, `fSubPictState[]`, one critical section
  `fSubPictMutex[]` each (the flag is also read without it);
* the output queue: `fvOutQueue`, `fOutQuePos` under `fOutQueLock` (`empty()` is also
  called without it);
* the callback `OnFrameFunc` and the live555 event trigger, without a lock;
* `THREAD_STATE` and `fQuit`, which end the program.

Frames and packets are never copied on the way: `DataPacket::swap` exchanges the
memory of two packets. Correctness hangs on every buffer having one owner.

### Components

| component | state | operations | interacts with | what makes it correct | modules |
|---|---|---|---|---|---|
| Encoder output queue (`CameraH264Encoder`, `TCircularQueue`, `DataPacket`) | ring indices, packets, lock, `data_out`, `fOutPack` | `send_packet`, `fetch_packet`, `release_packet` | encoder and RTSP threads | one owner per buffer; newest packets kept, in order; a packet seen is a packet taken | `CircularQueue`, `FrameQueue`, `LossyFifo` |
| RTSP frame source (`CameraFrameSource`) | awaiting or not, the event trigger, the callback | constructor, `doGetNextFrame`, `deliverFrame`, `doStopGettingFrames` | queue, event loop | no missed wake-up, frames in order, whole and stable while copied | `FrameQueue` |
| Mosaic slots (`receive_frame`, `run`) | slots, flags, locks, `pack_in`, the picture | `receive_frame`, the loop of `run` | capture threads, codec | whole frames in their own tiles, none forgotten, no stalled camera holds the picture up | `Mosaic`, `LatestFrame` |
| Camera capture (`CameraCapture`) | what it has of FFmpeg, the stream, packet and decoder | `initialise`, `capture`, `finalise` | FFmpeg, main, the slots | ready means usable; all is freed wherever it gave up; no packet refused; it stops when told | `Camera`; `Mosaic`, `Lifecycle` seen from outside |
| Program life cycle (`main.cpp`, `CameraRTSPServer`) | objects, threads, `THREAD_STATE`, `fQuit` | creation, threads, end and teardown | everything | no use of what is deleted; the end of one is the end of all | `Lifecycle` |
| Configuration (`GlobalParam`) | the parameters, the map of what is left to process | setters, `read_from_file` | main, cameras, encoder | a value in the file is in force afterwards; accepted if and only if faultless | `Config` |
| Command line and set-up (`main.cpp`) | arguments, encoder parameters, open cameras | argument loop, set-up of encoder and cameras | configuration | cameras, encoder and configuration agree | `Startup` |
| Parameter file reader (`misc.cpp`) | the text read, brackets, pairs | `read_param`, `remove_comments`, `strtrim`, `strsplit` | configuration | a file is read as the pairs it was written from; reading ends | `ReadParam`, `ParamText` |
| Number conversions (`misc.cpp`) | none | `str2int`, `str2byte`, `str2double` | configuration | | their results are inputs of `Config` |
| Encoder set-up and NAL scan | codec context, SPS, PPS, the packet and pointers into it | `setup_encoder`, `find_next_nal`, `close_encoder`, `finalise` | FFmpeg, the output queue | ready means usable; parameter sets whole; no pointer leaves its packet; nothing leaks | `NalScan`, `EncoderSetup` |
| Frame pacing | the clock of the last picture | `run:368-381` | | no picture held back by a whole interval, no spinning | `Pacing`, `EncoderRun` |
| Mosaic geometry and drawing | the planes of the mosaic | offsets in `run`, `process_frame`, the edges in `main` | cameras, codec | each picture in its own place, framed where pictures meet, nothing written outside | `MosaicLayout`, `EncoderRun` |
| RTSP media subsession | none of its own | two factories | live555 | | not modelled |
| CamTest, vendored libraries | | | | | not modelled |

### What is hard here

* Packets cross threads by swapped ownership, with tests outside the lock:
  `fetch_packet` (`CameraH264Encoder.cpp:470`), the slots' flags (`:316`), the copies
  out of `pack_in` and `fOutPack`.
* The queue throws its oldest packet away while the other thread is fetching.
* The event trigger is raised after the unlock, from another thread than the one that
  waits for it.
* A capture thread may hang forever inside FFmpeg, even while it holds a slot's lock.
* Teardown deletes objects in a fixed order while threads end, hang, are killed or
  were never started, and any step of the set-up may fail: `setup_encoder` and
  `initialise` return at sixteen places, each with other things allocated.
* The configuration is processed by erasing from a map and starting again, and its
  values are copied to several places. The text it comes from is rewritten in place,
  from the last group to the first, with positions that move.
* Arithmetic at boundaries: the search for start codes in steps of two and three
  bytes, rows of pictures with padded lines in planes of different height, a clock
  that stops at the end of its range.

`PROJECT.json` lists these hazards at their lines, with the properties that
catch them.

## 2. How code and model correspond

**Steps.** In `FrameQueue`, `Mosaic` and `Lifecycle` an action is what a thread does
between two points at which another thread can observe it or interfere: taking or
releasing a lock, an unlocked read of a shared flag, the beginning and end of copying
a buffer. A thread's place in the code is a variable: `epc` (encoder), `rpc` (RTSP thread),
`cpc` (capture threads), `mpc` (main). A guard is the code's condition, the comment
above the action names the statements.

**Data.** A buffer is a number; what is in it is the number of the frame or packet,
with the length or the planes where a property depends on them. Packets and
frames are numbered in the order they were made, so that "older", "lost" and "twice" can
be said. Pixels, payloads, texts and log messages are left out.

**External code.** live555's event loop and FFmpeg are modelled by how the code uses
them: the event loop calls the handler of a raised trigger, a source is asked for
one frame at a time, a read may fail, block for ever or yield a frame.

### CircularQueue, FrameQueue, LossyFifo

`CircularQueue` is `TCircularQueue` (`CameraH264Encoder.h:31-91`): front, rear and
size kept separately. `push_back` on a full queue pops the front and does not count
the new element, as in the code.

`FrameQueue` composes it with the two threads. `SendCopy` .. `SendNotify` are
`send_packet` (copy into the static `data_out`, lock, drop the oldest if full, swap
in, unlock, callback); `FetchCheck` (the unlocked `empty()`), `FetchEnter`, `FetchPop` are
`fetch_packet`; `Deliver` is the rest of `deliverFrame`; `Register`, `GetNextFrame`,
`HandleTrigger`, `StopGettingFrames` are what the event loop calls. `rpc = "closed"` is
`handleClosure`, which the code calls when `fetch_packet` had nothing.

`LossyFifo` is the abstract specification: a bounded sequence, of which only the oldest
element is dropped and only when full. `FrameQueue` implements it under the mapping
`queued`, `pushed`, `fetched`.

### Mosaic, LatestFrame

The capture threads copy a frame into `fDataOut` plane by plane (`CaptureLuma`,
`CaptureChroma`), then `ReceiveEnter`, `ReceiveSwap`, `ReceiveLeave` are `receive_frame`. The
encoder thread loops over the slots: `EncLook` reads the flag, `EncTry` is
`TryEnterCriticalSection`, done twice, `EncTake` swaps under the lock, `EncLuma` and `EncChroma`
copy the tile without it, `EncSend`/`EncFail` are the codec. A slot without a
camera is in `Slots \ Cams`.

`LatestFrame` is the abstract specification: one mailbox per slot, in which a new frame
replaces the old one and each is shown at most once.

### Lifecycle

main's set-up (`NewEncoder`, `OpenCamera`, `NewServer`, `StartCapture`, `StartServer`), with
each of its failures; its life as encoder thread (`LoopGoesOn`, `EncodePacket`,
`CallbackReturns`, `NoPacket`, `EncodingEnds`); its teardown (`SignalExit`, `DeleteEncoder`, `Sleep`,
`DeleteServer`, `DeleteCamera`, `Exit`), where `TerminateThread` ends a thread at any point.
Beside it the capture threads and the RTSP thread, seen from outside: running, inside
a call on the encoder, ending, dead, or killed. The frame source is the RTSP thread's own; what
else that thread makes of live555 is not modelled apart from it.

### Config, Startup

`Config` is `GlobalParam`. `ReadLine` builds any file over `FileKeys`, a sequence of the names
it may hold in the order of `std::map`, each with a set of values. A value is what `str2int`
and its like make of the text: whether it converts, and the number. `GeneralApply`/`Error`/
`Skip`/`End` are the first loop of `read_from_file`, `CameraApply`/`Error`/`Skip` and `CamerasEnd` the
second: the iterator, the erasing and starting again, and `curr_it` are modelled
as they are. A camera number below zero, which would write outside the array, is not
among the inputs. Two spellings of one camera's number (`cam_1`, `cam_01`) are two names to
the test for duplicates (`misc.cpp:346`); `FileKeys` has one of them.

`Startup` extends it with main: the argument loop, the encoder and the order
in which its parameters reach it, the cameras and their border options, the server.

### ReadParam

The text of the file is a sequence of lines of characters of `Char`, with `" "` for white space; a
position is an index and 0 is `npos`. The loops of the string utilities are functions by recursion over
positions: `extended` adds a character to `strsplit`'s parts, and `erased` is one turn of the loop
of `remove_comments`, with the length that `str.erase` is given; as many turns as there are
stars are enough (`WithoutBlocksIs` proves it). `ReadLine` and `ReadMore` take lines, without their comments,
until the brackets match (`misc.cpp:209-246`), with what `getline` does at and behind the end
of the stream. `PassOver`, `Unwrap`, `Expand` and `ExpandFails` are the turns of the loop over
the groups, from the last opening bracket to the first (`:249-320`); `Split`, `TakePair` and
`NoMorePairs` make pairs of what is left. `str` serves all of these: a pair's text is
still in it when `getline` fails in `ReadMore`. When a group's bracket is never closed, the code
looks behind the end of `buff` for what follows (`:296-300`); as `replace` is clipped at
the end, `rest` is empty whatever it finds. The result of `ReadParam` is the input of `Config`, where it is
abstracted to names and values.

`ParamText` is the other side, what a file says, in the way `config.txt` is written: a text is cut at
its semicolons into statements, each of which is an assignment (`IsAsg`), the beginning of a group with
its first assignment (`Opening`) or the end of one (`Closing`); `Nests` tells which names stand in front
in the groups around it, and `Written` does this for the lines of a file, wherever the
brackets match. It has nothing of the loop over the groups, but shares with `ReadParam` what a line is
without its comments (`strip`), how a text is cut at semicolons and how names are trimmed. It asks that
a group begins with an assignment: a group that comes first within a group is not something
that `read_param` reads. `MCReadParam` writes its files from groups and pairs, and
its assumption `PrintedAreWritten` has TLC check that each of them is `Written`.

### NalScan, EncoderSetup

`NalScan` is what `setup_encoder` does with a packet (`CameraH264Encoder.cpp:190-216`): one turn of
the loop of `find_next_nal` is one `Advance`, so that each position it reads is a state.
Bytes behind the packet are FFmpeg's padding, zeros. `EncoderSetup` puts the rest of
`setup_encoder` around it: every allocation succeeds or makes it return, pictures are sent until both
parameter sets are there, packets bring them in any order; then the slots' locks,
`fState` and the destructor.

### MosaicLayout, Pacing, EncoderRun

`MosaicLayout` computes what byte goes to which index: the lines of FFmpeg are
`linesize(w)` bytes long, rounded up to `Align`; `Border` and `Mark` are what `process_frame` draws,
`edges` the options that `main` gives a camera, `FrameLines` what `run` draws before its
loop, `CopyTile` the two copies of a picture into luma and chroma. A byte is one
of four colours, the last of which names camera, plane and place. `Pacing` is the clock
arithmetic of a turn. `EncoderRun` is `run` by itself, which composes the two; the threads
are in `Mosaic`.

### Camera

`initialise` step by step (`Open`, `FindVideo`, `OpenDecoder`, `MakeScaler`, `MakeFrame`, `Finish`), each
of which may return; `capture` as a loop of `Read`, `Skip`, `Send`, `Receive`, `NoMorePictures` and
`Unref`, with the reference that the packet holds and the pictures that wait in
the decoder; `Delete` is main's, before, after or in the middle of `capture`.

### Faulty variants

Definitions named `X_Y` after a definition `X` (`FetchPop_NoSwap`, `EncTry_Waits`, ...) are plausible
mistakes in the code that `X` models. They are not part of any specification;
`PROJECT.json`, `mutants`, pairs each with the property that fails when it takes
the place of `X`.

## 3. The runs

| run | asks | instance | states |
|---|---|---|---|
| `frame_queue` | buffers have one owner; a fetch finds what it saw; the frame is stable while it is copied; refinement of `LossyFifo`; a waiting client is served or gives up | 3 slots, 6 packets of 2 lengths, one longer than `fMaxSize` allows | 76426 |
| `mosaic` | one owner per buffer; only whole frames of the right camera in a picture; refinement of `LatestFrame`; a stalled camera holds up no picture; a camera's last frame is shown | 3 slots, cameras in the outer two, 3 frames each | 111122 |
| `lifecycle` | no thread on its own deleted object; no callback into a deleted source; at exit all that main made is deleted, and the frame source unless its thread was killed; the end of one thread ends the program | 3 cameras | 7473 |
| `startup` | everything in the file is in force; a file is accepted if and only if it is faultless; errors name their culprit; the cameras that go on to the threads fit the encoder; reading ends | all calls with up to two arguments, all files of up to 3 of 25 names, mosaics up to 3 x 3 | 832163 |
| `read_param` | what is written down from pairs is read as these pairs; only text with matching brackets is accepted; where reading may hang | nested groups in four layouts with equal and different names, every text of up to five characters, pairs with brackets in them before a line that opens one | 40491 |
| `encoder_setup` | which start codes the search may miss; pointers stay in the packet; parsing ends; parameter sets are whole; ready means usable; what a failure leaves | every failure, two packets, each of any five bytes of four values or of two units behind start codes of all lengths | 699245 |
| `encoder_run` | pictures in their places in both planes; nothing but one byte outside; framed where they meet; marks inside; pictures neither held back nor sent at once | mosaics of one to three columns and rows, line sizes of one and two times `Align`, marks that fit, just fit and do not; any work of up to an interval, a clock that ends after 7 | 51248 |
| `camera` | ready means usable; freed when deleted; references given back; the decoder never full; capture stops when told | every failure, five lists of streams, up to two pictures per packet | 691 |

These pass. The others show that the code does something else than it says,
see section 6: `frame_queue_whole`, `lifecycle_wait`, `startup_slots`, `read_param_comments`.

What only a proof shows, because it follows from what is run or because the proof
is the stronger statement, is not also run: the type invariants of the modules
with proofs, and the invariants that section 4 marks with a star. A mistake in the code that
would break one of them breaks a property of its run as well.

**Bounds.** The bounds that are not parameters of the program are `MaxPkt`, `MaxFrame` and
`MaxPackets`, which stop the counters that number packets and frames, `MaxLines` (lines of a
configuration), `MaxBuff` (the text that the hanging reader appends to), `MaxPicture`
(pictures one packet brings), `MaxWork` and `MaxTime` (of the clock). Three slots
with six packets let the queue fill, wrap its indices and overflow repeatedly in every
phase of a fetch; the capacity in the code is 32, and the proofs hold for any. Three
frames of a camera fill both buffers a camera and its slot can have and
overwrite one that was not shown; two cameras let buffers wander between them, and
the slot without a camera lies between theirs. Three cameras in `lifecycle` suffice for one
that was not opened, one whose thread could not be made and one that runs. In `startup`
three lines are one for each loop of `read_from_file` and one that is refused or unknown, in every
order of the map; a name has at most four values: below, within and above its range,
or not convertible. Two packets in `encoder_setup` bring the sets in either order, together, or
twice; five bytes hold the longest start code and a unit behind zeros of any length up to it.
In `read_param` two levels of groups suffice for positions that move twice; `MaxBuff` is longer
than any of the printed files. In `encoder_run` the clock ends within the run, and
`MaxWork` lets a turn take longer than the interval.

**Deadlock.** TLC checks for deadlock in `frame_queue`, whose event loop never ends. In the
others the program really may stop: the encoder thread returns, the program exits, the
configuration is read, the bound on time or packets is met, an undefined call ends a camera.

**Fairness.**

* `FrameQueue`: a thread inside `send_packet` or `deliverFrame` goes on (the code in there
  blocks only on the lock), and the event loop handles a raised trigger; strong
  fairness of entering the lock, since a waiting thread gets a critical section sooner or
  later however often the other comes back. No fairness of the codec or
  of clients, who need not ask.
* `Mosaic`: the encoder thread is scheduled. Nothing about cameras.
* `Lifecycle`: main is scheduled; the codec yields finitely many packets per picture
  (strong fairness of `NoPacket`); a thread that has left its loop ends. Nothing about
  cameras or the event loop: they may hang for ever.
* `Startup`, `ReadParam`: a sequential program goes on while it can.
* `EncoderSetup`: parsing a packet in memory goes on. Nothing about the codec, which may never
  yield both parameter sets.
* `Camera`: the capture thread is scheduled and FFmpeg's calls return. (`Lifecycle` is where they
  need not.)

## 4. What is proved

The proof modules hold theorems for every value of the constants: every
queue capacity, every set of packet lengths and contents, any number of slots, cameras and
frames, any mosaic, interval and list of parameters. They assume only the named assumptions
on the constants (`CapAssumption`, `FrameQueueAssumption`, `MosaicAssumption`,
`LifecycleAssumption`, `PacketsAssumption`, `MaxPacketsAssumption`, `LayoutAssumption`,
`PacingAssumption`, `CameraAssumption`, `ConfigAssumption`, `NamesAssumption`, `StartupAssumption`,
`ReadParamAssumption`):
sizes are natural numbers and at least one, the interval at least two milliseconds, heights
even, bytes bytes, no name listed twice. `ReadsWhatIsWritten` has a hypothesis of its own: that the
files which count as printed are `Written`.

Each module proves `TypeCorrect` and an inductive invariant (`IInv`; in `ReadParamProofs`,
`ReaderInv`, `BracketsCounted` and `ReadsTold`); theorems with a star are not
also run.

**FrameQueueProofs.** `TypeCorrect`\*, `NeverAliased`, `AlwaysLatest`\*, `AlwaysFinds`, `NeverMissed`\*,
`InOrder`\*, `StableWhileRead` and `Refinement`. None of the properties is inductive alone. The
inductive invariant `IInv` adds to them: who is inside the lock (`Locking`), what packet the
encoder has in hand (`InHand`), that between `FetchCheck` and `FetchPop` a packet stays queued,
because the encoder removes one only from a full queue and puts one back before it
releases the lock, and the queue has at least one slot (`Fetching`), that
everything fetched is older than everything queued (`Ordered`), and when a trigger is due
(`Waking`). The ring's arithmetic is in lemmas about `position`, `push_back` and
`pop_front`. The refinement follows step by step from `IInv`.

**MosaicProofs.** `TypeCorrect`\*, `NeverAliased`, `AlwaysWhole`, `AlwaysFresh`\*, `NeverForgotten`\*,
`OnlyForward`\*, `OwnBuffer`\* and `Refinement`. `IInv` adds whose half-written frame is in which buffer
(`Capturing`), that what the encoder copies from is complete and newer than the tile
(`Copying`), that the tiles it is not copying are whole (`Tiles`), and that a flag seen
without the lock is still up under it (`FlagSeen`): only the encoder lowers flags, which
is why the unlocked read is safe.

**LifecycleProofs.** `TypeCorrect`\*, `ObjectsOutliveThreads`, `CallbackSafe`, `ExitsClean`. `IInv` adds which
threads can exist at which stage (`Stages`), why the callback's target is alive, namely that
`fQuit` is raised, by main, only after main has sent its last packet (`Callback`), that the frame
source outlives the event loop only if its thread was killed (`Owner`), and what
the teardown has behind it (`Cleared`).

**EncoderSetupProofs.** `TypeCorrect`, `NothingElseMissed`, `ReadyIsUsable`, `NothingElseLeaks`, `SetsToldWhole`, for packets
of any length. `IInv` has the loop invariant of `find_next_nal` (`Searched`): of what lies
behind the pointer it has missed only codes with two zeros before them. A step of two
passes a byte that is not zero, a step of three two zeros and a third byte; in neither can
another code begin. `Holding` lists what is allocated at each stage. `SetsToldWhole` is
`ParameterSetsWhole` for any packets: `Collected` adds that within a packet without a run of
four zeros the search has passed over no start code (`Exact`), and that each set kept is whole as to the
units of its type in the packets before and those taken from this one (`TakenOfType`).

**EncoderRunProofs.** `TypeCorrect`\*, `PicturesInPlace`, `NothingElseOutside`, `MarksFit`,
`FramedRight`, `SleepsLessThanInterval`, `AlwaysPaced`. The first two rest on a lemma that a place in
a plane has one line and one column (`Unique`), from which follows that no two pictures share a
byte; the next two on which bytes a border darkens (`DarkByte`), that a mark stays off the
borders (`MarkAway`), and when an edge is dark (`Framed`). `IInv` adds
that nothing is drawn before the frame lines (`NothingYet`), and to the pacing that two
pictures without time between were measured at the same time (`SameTime`), after which
the next nap is one millisecond.

**CameraProofs.** `TypeCorrect`\*, `ReadyIsUsable`, `NothingLeftBehind`, `OwnPacketsSafe`, `DecoderNeverFull`.
`IInv` adds what is held at each stage (`HeldSoFar`), which stream was chosen (`StreamChosen`),
and that the decoder is empty and the packet not the camera's own whenever the next
packet is read (`PacketInHand`).

**StartupProofs.** `TypeCorrect`\*, `AlwaysAgree`\*, `AcceptedExactly`, `AllInForce`, `NamesCulprit`, `CamerasFit`, about `Config`
and `Startup` together, for any list of names and values. `IInv` adds that the map is the
rest of the file (`Leftover`), that what has left it was known and correct (`Accounted`), that
what an iterator has gone past is not for its loop (`PassedBy`), which is what starting again
after each erasure is for, what each result means (`Result`), and the order of main's
set-up (`SetUp`). For `AllInForce`, `Kept` says that each legal value that has left the map is where
it belongs: a setter changes its own parameter's place and no other's (`GeneralFields`,
`EncoderFields`, `CameraFields`), and two names have no place in common.

**ReadParamProofs.** `TypeCorrect`, `AcceptedBalanced`, `GroupsFromBalanced`\*, `NeverOfNoParts`\*,
`CommentsGone`\*, `AlwaysForward`\* and `ReadsWhatIsWritten`, for files of any number of lines of any length over any characters. What
functions by recursion compute is had from two lemmas, `Recursion` (such a function exists) and
`Induct`, which speak of sets and functions rather than operators and so are in the
provers' reach. From them: a turn of `remove_comments` that finds a comment takes a star away
(`ErasedIs`), hence none is left (`WithoutBlocksIs`); brackets add up when texts are joined
(`OpenedJoins`); `strsplit` finds at least one part in a text that is not empty, and all of it if there
is one only (`StrsplitIs`). `ReaderInv` adds to the types that the text in which groups are looked for
never becomes empty: between the brackets of a group is an equal sign (`ExprsIs`), so
something of it stays when its brackets go, and at least one expression is put in its place. `BracketsCounted`
says that `nbracket` is what is open in `buff`, and, if the file ends in a line end, in all
the lines so far; at every other place these match.

`AlwaysForward` is the variant behind `ReaderEnds`: each step takes a line, comes to a later stage of
what was read, leaves fewer brackets with at most one semicolon behind them (`Early`) or stands
further to the front, or leaves fewer parts; at the end of the file, where `getline` fails and the same
text is appended each time, it brings the brackets nearer to matching or finds nothing to append. The
two places where it may not are `Stuck`: a text that begins with a bracket of no group, and brackets
still open at the end of a file that lacks its last line end, if what is appended does not bring them
nearer to matching.

`ReadsWhatIsWritten` is `RoundTrip` for every file that is `Written`: any nesting, any number of groups,
statements and lines. Its inductive invariant `ReadsTold` says that the pairs listed
so far are those that the lines before told, and that what is at hand (`buff`, or the parts still to be
taken) tells the rest. In the loop over the groups the text at hand changes with each turn while what it
tells does not (`ToldNow`, `GroupStep`): the last opening bracket begins a group with no group in it,
the next closing one ends it (`ClosesNext`), and the group's assignments with
its name in front are statements of the group around it (`CutExpanded`, `AsgPrefixed`,
`ExpandTold`). It follows that on such a file `PassOver`, `Unwrap` and `ExpandFails` never happen.

**Only model-checked:** liveness (`ClientServed`, `PictureNotHeldUp`, `LastFrameShown`, `EndsTogether`,
`ReadingEnds`, `ReaderEnds`, `ParsingEnds`, `StopsWhenTold`), which rests on fairness and is beyond
TLAPS's reach here. For `ReaderEnds` the step-wise half is proved (`AlwaysForward`); that there are only
so many such steps is not. Every safety property of the passing runs is the subject of a theorem.

## 5. What is not modelled, and why

* Which digits make which number: `str2int` and its like are `strtol` and `strtod`; `Config` has
  their results.
* The branches of `setup_encoder` and `initialise` for what is there already: main calls each
  once on a new object.
* Fonts, the spin wheel's phases, scaling and the formats of time: data, of which only the
  place is modelled.
* `DataPacket`'s allocation and `fSize` arithmetic beyond `copy`: `FrameQueue` keeps `len` and `size`,
  because one finding is about them.
* A torn write of `OnFrameFunc` (`std::function`, assigned by the RTSP thread while the encoder
  thread calls it): no states to enumerate.
* Locks of the C runtime and of FFmpeg that a killed thread may hold: main takes none of the program's
  own critical sections after `TerminateThread`, and the others are not in this code.
* `CameraMediaSubsession` (hands values to live555) and `CamTest` (a sequential tool that lists cameras).
* `src/include` and `src/libs`: headers and import libraries of FFmpeg and live555. They are by
  far the most of the repository's lines and declare what other projects implement;
  the program's own logic is what is under `src/RTSPMultiCam`.

## 6. Findings

Each has a run that TLC ends with a counterexample.

| run | property | what the code does |
|---|---|---|
| `frame_queue_whole` | `FrameIsWholePacket` | `DataPacket::copy` never shrinks `fSize` (`DataPacket.h:94`): a short packet in a buffer that held a longer one is delivered with the old one's tail |
| `lifecycle_wait` | `EncoderOutlivesCalls` | the encoder is deleted before the second granted to the threads (`main.cpp:308`) |
| `startup_slots` | `SlotForEveryCamera` | the encoder always has 2 x 2 slots (`main.cpp:157`) |
| `read_param_comments` | `CommentsRemoved` | `str.erase` is given an end for a length (`misc.cpp:134`): a comment takes what follows it along |

Other disagreements are plain from a line or two of the code, so that no run is
spent on them; the models do what the code does. Where a property of a passing run has
an exception, the exception is one of these.

Teardown:

* when the RTSP thread does not leave its event loop within the second it is killed there
  (`main.cpp:317`): the frame source and what live555 made stay allocated, as
  `CameraRTSPServer.cpp:82-87` is never reached. `CleanExit` says that this is the only way they do.

Configuration and set-up:

* the message about a refused option names a parameter of an earlier turn, or one that is gone
  (`GlobalParam.cpp:280`, `:294`, `curr_it`);
* a port out of range is kept after "set to" the default was reported
  (`GlobalParam.h:387-390`);
* the encoder's frame rate is not limited to 10 to 30 (`GlobalParam.h:370`, against
  `config.txt:28`);
* parameters reported as ignored make the file fail (`GlobalParam.cpp:312-316`);
* a file that is not there reads as an empty one and is accepted (`misc.cpp:209`, against
  `main.cpp:145`);
* `-l config.txt` is refused and any other word in its place accepted, since `strcmp` is
  taken for true on equality (`main.cpp:132`, against `main.cpp:107`);
* the encoder's parameters are set after the codec was opened (`main.cpp:172`, against
  `config.txt:31`);
* the configured ports are never read; the server has constants (`main.cpp:259`, against
  `config.txt:4`).

Reading the file:

* a bracket at the beginning of the text that is no group is met again for ever
  (`misc.cpp:313`); a last line without line end that leaves a bracket open is
  appended again for ever (`:228`), and if it is this line that opens the bracket, the
  pair that was taken before it (`:327`), as in `=a;` followed by `{`: the two places that
  `Stuck` names. If that text closes brackets the file may even be accepted: `BalancedIfAccepted` leaves
  files without a last line end out;
* brackets around a value stay in it (`misc.cpp:193`); one quotation mark is enough for both
  ends to be cut off (`||`, `misc.cpp:336`), and of an empty value `front()` is taken;
* a group that comes first within a group, or groups without a semicolon between
  them, get a part of the text before them for their name.

Encoder and cameras:

* the last row is looked for with the column (`main.cpp:193`): the lower edges are framed or not
  according to the shape of the mosaic. `FramedWhereTilesMeet` leaves the lower edge out;
* pictures lie in their places only if their width is a multiple of `MEM_ALIGN`
  (`CameraH264Encoder.cpp:344`), while the comment at `:135` asks for a multiple of two: `Aligned`;
* the frame lines are drawn with a line size of 0: one byte is written before the plane, the others in
  the first column (`CameraH264Encoder.cpp:301`): `OneByteOutside`;
* the pacing sleeps for as long as has passed, not for what is left
  (`CameraH264Encoder.cpp:375`): pictures keep no interval, `NeverHeldBack` and `NeverSpins` are what
  is left of it;
* a start code behind a longer run of zeros is missed (`CameraH264Encoder.cpp:502-510`):
  `MissedOnlyBehindZeros`;
* of a packet with several units only the first start code is taken away
  (`CameraH264Encoder.cpp:410-430`);
* when `setup_encoder` fails its packet is not freed (`:164`): `OnlyPacketLeaks`; when `capture` returns for an
  error neither packet nor frame is; packets of other streams lose their reference
  (`CameraCapture.cpp:317`): `OwnPacketsReturned`;
* that the scaler was made is not looked at (`CameraCapture.cpp:168`): `ReadyMeansUsable` leaves it out.

The models of `Mosaic` and `Lifecycle` take the number of slots and cameras as it should be;
`startup_slots` shows where the program departs from it.

## 7. Plan

Done, in this order: the output queue with its proofs, the mosaic with its proofs, the
life cycle with its proofs, configuration and set-up, the encoder's set-up and its search for
start codes, the layout of the mosaic and the pacing, a camera, the reader of the
configuration; proofs about all of them.

Then how a file of parameters is written (`ParamText`) and the proof that it is read as that.

Left: groups that `read_param` handles but `ParamText` does not count as written (without a
name, or without a semicolon behind them), and liveness, for which the proof system has no rule.
