# Verification of the aiios voice engine

TLA+ models of the native voice engine, the TLC runs that check them on small
instances, and the theorems TLAPS proves about them for every instance.
Source paths below leave out the leading `src/`; "session.cpp" without a path
is `runtime/native/session/session.cpp`.

    tlc -workers 2 -config OneReply.cfg SessionOutput       # a model-checking run
    tlapm LaneProofs.tla                                    # the proofs of a module

## 1. The system

A desktop voice plugin runs as two processes. The **carrier** (Go,
`plugin/native/`) speaks the plugin protocol with the host. The **worker**
(C++, `runtime/native/session/worker.cpp`) holds the models and at most one
voice **session** at a time. Between them are two pipes of lines (requests,
events, private storage and settings) and two audio streams.

| component | state it keeps | operations | talks to |
|---|---|---|---|
| **Session engine, output direction** (`session.cpp`) | `jobs` (one per reply: clocks, queued audio, the marks fenced, cancelled, retired, END taken, receipt), `queued_output`, `events`, `closing`, `stopping` | `synthesize`, `interrupt` and its variants, `audio`, `event`, `playback`, `release_generation`, `close`, `wait_closed`; `synthesis_loop`, `model_watch_loop` | synthesizer (call), host (poll), input direction (`input_done`, `speaker_busy`, faults) |
| **Session engine, speaking voice** (`session.cpp` `speech*`, `take_speech`) | `speech`, `next_speech`, `speech_pending` | `expect_speech`, `speech`, `take_speech` | worker's settings answers, synthesizer's `configure` |
| **Session engine, input direction** (`session.cpp`) | sample clocks, packet and block queue, the tail's deadline, the turn, speaker queue, `input_done` | `feed`, `finish_input`, `control_loop`, `recognition_loop`, `endpoint_loop`, `speaker_loop` | output direction through barge-in and `maybe_close_locked` |
| **Pause gate** (`runtime/native_endpoint/pause_gate.h`) | the pending endpoint query, the retired ones | poll, resolve, retire, reap, reset, close | recognition loop, endpoint loop |
| **Synthesizer adapter** (`native_models.cpp`, Pocket) | `cancelled_through_`, the stream and its mark | `configure`, `start`, `next`, `reset`, `cancel` | synthesis thread, cancel calls |
| **Worker** (`worker.cpp`) | `lifecycle_`, request table, opening future, settings ids, drain deadline | `admit`, the pump, `terminal` | the session, the carrier, storage |
| **Attribution of finals** (`attribution.h`) | one entry per final: pending, resolved, absorbed | add, result, end | speaker thread, events |
| **Storage bridge** (`snapshot_bridge.cpp`) | the request under way, its answer, the last 64 ids, the epoch | read, publish, answer, cancel | enrollment, recovery, carrier's storage lane |
| **Carrier, lane to the worker** (`main.go`) | `pending` (at most 64), the outgoing queue, the failure | enqueue, write, read, fail | worker, host |
| **Carrier, settings lane** (`settings.go`) | the newest unserved request | request, serve | host, worker |
| **Carrier, storage, recordings, vocabulary, retention** | documents at the host, digests | read, publish by compare-and-swap | host |
| **Engine core** (`engine_core.go`) with the **model server** (`model_channel.cpp`, `admission.cpp`) | live session processes, held slots, streams of a channel | Admit, Start, Stop; frames | sessions of several identities (in the tree, not yet used by the release's carrier) |
| pipes and framing, C interfaces, packaging, platform audio, inference libraries, Python reference engines | | | |

What is hard in it:

* **Four threads and one mutex.** The synthesis, control, recognition and
  speaker threads and the serving thread share `Impl::mutex` and release it
  around every model call. `tts.cancel` is called after the unlock
  (session.cpp:258), barge-in acts on a list it read before the unlock (278),
  the synthesizer is configured between two critical sections (639).
* **Two sides settle a reply.** The engine retires it and queues END, the host
  reports what it rendered; a fence may fall at any point, and the reply may be
  released only when both are done.
* **Bounds.** One output queue for all replies, an event queue whose overflow
  throws in the middle of an operation, an output reserve.
* **Ends.** The session closes by itself when the last of six conditions comes
  true; five threads can be the one that makes it true.
* **Late answers.** Settings, storage, endpoint verdicts and speaker results
  may come after what asked for them is gone.
* **One loop for everything.** The worker's loop takes one control line a pass
  and looks at its session at fixed places of it; the engine moves between any
  two of them, and a throw drops the rest of the pass.
* **Slots and processes.** A slot is asked for over a channel that can be
  cancelled, killed or given up at any moment, and asked again by the session
  process; Stop falls between the look at `stopping` and the entry of a process
  (engine_core.go:359-364), and the server can end under all of them.
* **Partial knowledge at the end.** When the worker or a pipe ends, lines are
  still between processes; what the carrier then says of them must be true.

`PROJECT.json` lists the components with their status and every hazard at its
line, with the properties that would catch it.

What makes each component correct, in a sentence:

* output direction: what the host is given of a reply is gapless, ends with one
  END, stops for good at a fence; a receipt is true; the session closes exactly
  when everything is settled;
* speaking voice: a reply speaks the voice saved for it, the reported voice is
  the real one, and no answer that fails to come can hold a reply;
* input direction and pause gate: every accepted sample belongs to one turn, a
  turn ends once, a late verdict changes nothing;
* worker: every request is answered once; a session that ends or fails releases
  everything first;
* attribution: every final is attributed once, in spite of late results;
* storage bridge: an answer reaches the request it belongs to or nobody;
* carrier's lane: a request is answered by the worker, or as unsent, or as
  lost, and only once;
* engine core: after Stop no session process is left; slots held are the
  channels admitted.

## 2. The modules

| module | what it is |
|---|---|
| `Custody` | the promise of a session about replies: *new, open, cut, settled, released* and when the session may close. No threads, no queues. |
| `SessionOutput` | the output direction in full; implements `Custody` (`KeepsCustody`) |
| `ReplyVoice` | the saved voice from the host through carrier, worker and session to the synthesizer |
| `SessionInput` | samples: `feed`, the two queues, the cutoff and the tail's deadline, the close |
| `Turns`, `MCTurns` | blocks: turns, the pause gate, the endpoint and the speaker thread |
| `Worker`, `MCWorker` | the worker's loop with lifecycle, admission, pump, drain hold, attribution of finals |
| `Carrier` | the carrier's lane to the worker: requests, storage queries, events, its end |
| `StorageBridge` | the worker's side of storage: one owner, one query at a time, epochs |
| `EngineCore`, `MCEngineCore` | the carrier's engine core, the model server's slots and the session processes |
| `Lane`, `MCLane` | `Carrier` and `StorageBridge` composed with the worker's end of the pipes and the host's storage |
| `SessionOutputProofs`, `ReplyVoiceProofs`, `SessionInputProofs`, `TurnsProofs`, `LaneProofs`, `WorkerProofs`, `EngineCoreProofs` | inductive invariants and theorems |

`SessionInput` and `Turns` are two views of one set of threads, cut where the
code hands a block from the control to the recognition thread: the first knows
samples and not what is in them, the second knows what a block means and lets
blocks come and end at will. `SessionOutput` sees of both only `InputDone`,
`SpeakerDone`, the barge-in and faults. `Worker` sees of the engine what its
loop can see: events, audio made, the flags of a status. `Lane` sees of the
worker that it takes lines, replies to each request once (that is `Worker`'s
`AnsweredOnce`), sends events and may end.

### SessionOutput

A `Job` is spread over one function per field (`generated`, `delivered`,
`rendered`, `queued`, `audio`, `unspoken`) and one set per flag (`fenced`,
`cancelled`, `retired`, `endTaken`, `receipts`, `halted`). `known` are the keys
of `jobs`. Samples are counted, not valued; a segment's text is the number of
segments left. What a `Job` has beyond this (text, timing, the log) is left out.

* Each public operation is one action: it is one critical section in the code.
  `HostInterrupt` stands for `interrupt`, `stop_playback` and
  `cancel_synthesis`, which differ in whether they cancel. The operations that
  emit an event have a second form (`SynthesizeOverflow`,
  `HostInterruptOverflow`) for a full event queue, in which the changes made
  before the throw stay.
* `synthesis_loop` is cut at every release of the mutex: `synth` is the program
  counter, and `start`, `check`, `next`, `admit`, `space`, `reset`, `unwind`
  and `retire` are the places between a check under the lock and the use of
  what it found.
* A cancel call is put in flight by the interrupt (`cancelCalls`) and arrives
  later (`DeliverCancel`), any number of steps after: `cancelThrough` and
  `streamCancelled` are Pocket's own marks.
* `BargeIn` takes one generation from the list `HearSpeech` read.
* `ModelDeadline`, `SynthesisFails`, `OutputDeadline`, `ControlFault`,
  `HearingFault` are the failures; each runs the whole of `Impl::fault`.
* The hearing threads appear as what the output side can observe of them.

### ReplyVoice

`AskSpeech` and `Admit`/`Refuse` are the two halves of
`speech.session.synthesize` in the worker; `lane` and `answers` are the
newest-only lane of the carrier and the replies on the pipe; `Take`,
`Configure`, `Publish` are the three parts of `take_speech` around the two
points where the mutex is free. `heard`, `due` and `waited` are history: what
the reply's own request was answered, and whether it waited as it had to. A
voice stands for voice, temperature and seed, which travel together.

### SessionInput

`received`, `controlled`, `recognized` are the code's three sample clocks;
`input` and `blocks` are its queues, as spans of samples; `tail` counts the
samples of `control_loop`'s local buffer, `inHand` is the block the recognition
thread is hearing. `held` is `backpressured_tail_count`, and `elapsed` the part
of the tail's deadline that has passed: `Tick` moves it only while the deadline
runs. `offered` is history: the packet the host was refused and will offer
again. `feed` is `FeedTaken` or `FeedRefused`; `consume` is `Score`; the last
short block is `InputBreak` and `Score` at `rest`. `settled` stands for the
conditions of `maybe_close_locked` that are not about input.

### Turns

A block is its number, voiced or not; silence is counted in blocks. The
recognition thread goes through `take`, `poll`, `submit`, `verdict`, `settle`
for each block, and `close`, `report` at the end: these are the points of
`recognition_loop` and of `PauseGate::poll` at which another thread matters.
`pending`, `retired` and `checked` are the gate's; `verdict[q]` is the future
of query `q`, with its broken promises (`failed`, `cancelled`). `Late` is the
bounded wait that ran out. `provisional` are the blocks kept back behind a
question, `preroll` what is kept from before the speech. `heard`, `speech`,
`judged` and `observed` are history. The two kinds of recognizer differ in what
they are fed outside a turn and in who owes the speaker of a final.

### Worker

A pass of the loop is the sequence of program counters `read`, `jobs`,
`opening`, `status`, `events`, `replies`, `reconcile`, `last`, `look`,
`control`, `input`. The engine, the writer of audio, the futures and the
storage bridge move between them. `life` holds the lifecycle with what the
code keeps beside it (`failure_`, the retirement, both deadlines, how `session_`
was closed); `Fail`, `FailSession`, `FailEngine`, `AtEof` are the code's
functions of those names on that record. `Throw` is an exception in a pass: the
engine fails, the line in hand is gone (`lost`). `Attributions` is `rows`
(`pending`, `late`, `over`) with `said`, what the host was told; `DrainHold` is
`WorkEnded`, `Rearmed` and `Held`. A `script` says which requests, how much
work and which troubles a behaviour may have; `MCWorker` has ten.

### Carrier, StorageBridge and Lane

`pending`, `written` and `told` are the lane's table of requests: waiting, taken
by the writer, and what the host was told. `Fail` is `fail()`. The writer is
`Dequeue` (under the lock) and `Encode` (without it); the reader has one action
for each kind of line; the goroutine of `snapshot.go` is `Serve` and
`SendAnswer`; `Forward…` is the forwarder; `Announce`, `Vouch` and `Unproven`
are `handoff`.

`op[o]` is what an owner of the bridge does: `step` is where it is in reading a
file and publishing it (`page`, `check`, `stage`, `publish`, `back`,
`backcheck`), `pc` whether it waits for its turn, is about to ask, or has
asked. `Begin` and `Cancel` are the bridge's; `Accept` is its half of an answer
from the pipe. `Lane` adds the host: it may carry out a write long after the
carrier gave it up, and refuses a publication over another version.

### EngineCore

A channel is one `Admit` with all that comes of it. `caller` is where the
carrier is with it: `AdmitBegins` looks at `stopping`, `GivesToServer` takes
`handing` and sends the descriptor, `HandedOver` reads the server's word and
posts the question for a slot, `Answered` and `AskFails` end it; `StartBegins`,
`StartProcess` and `EnterProcess` are the three parts of `Start`, of which only
the first and the last hold the mutex. `left`, `passed`, `at` and `deadline`
are the locals of `Stop`: the copy of `live`, how far the loop is, and the
channel of `time.After`, which yields once (`KillProcess` takes it). The server
has a thread per channel (`thread`) and the set of slots `held`, `admit` and
`release` are admission.cpp's functions. `mail` is the one frame or answer about
a slot that a channel can have under way. A session process asks again when it
opens a session and releases when it ends one; it may die at any point, and its
end of the channel with it (`EndIsOpen`). `ServerIsLost` is what it does when
the other end is cut (`IsCut`).

## 3. The runs

| run | instance | properties | states |
|---|---|---|---|
| `one_reply` | one reply of at most 2 samples, output bound 1, one event, an input direction, a speaker queue of one; every failure | `TypeOK`, `OutputAccounting`, `AudioClock`, `EndOwed`, `ReceiptIsHonest`, `ReleasedIsGone`, `NoMissedClose`, `CancelledIsFenced`, `FenceIsFinal`, `KeepsCustody` | 1.3 million |
| `two_replies` | two replies of one sample after each other, one event, fairness, no failures | `NoStrayCancellation`, `DrainIsComplete`, `DrainEnds`, `CancelEnds`, `StopEnds` | 195 thousand |
| `voice_settings` | 2 voices, 2 replies, 3 requests | `VoiceInForce`, `OwnAnswerToPolite`, `PoliteReplyWaits`, `RepliesRetire` | 275 thousand |
| `hearing` | blocks of 2, packets of 1 or 3, 4 samples of input, 7 at most | `NothingLost`, `HeardToTheEnd`, `TailBudget`, `InputEnds` | 49 thousand |
| `turns` | 6 blocks; ask at 1, verdict at 3, end at 4 blocks of silence; both recognizers | `SpeechHeardOnce`, `VerdictIsOfThisPause`, `GateIsBounded`, `FinalsObserved`, `HearingEnds` | 467 thousand |
| `worker` | ten scripts of at most 5 requests | `AnsweredOnce`, `EndsOnce`, `NoFalseAlarm`, `ClosingEnds` | 815 thousand |
| `lane` | four loads: two owners; a reader beside a request; three requests; events | `StorageToldTruth`, `HostToldTruth`, `LaneSettles` | 256 thousand |
| `engine_core` | 2 channels, one slot, a server of both channels at once, one session each; fairness of the server and of the processes | `SlotsAreKept`, `FirstOpenIsAdmitted`, `StopIsThorough`, `SlotsComeBack`, `OrphansEnd` | 416 thousand |
| `answer_lost` | 3 replies, 3 requests | `OwnAnswerIsSpoken` is violated | |
| `wait_lost` | 2 replies, 2 requests | `ReplyWaits` is violated | |
| `release_race` | the script `Playback` | `ReleasedInOrder` is violated | |
| `stop_hangs` | 2 channels, two slots | `StopEndsInTime` is violated | |

Each module's type invariant is a theorem, for every instance; of them only
`SessionOutput`'s, by which what is queued of a reply never falls below zero, is
checked in a run as well.

What the runs of this table show beyond their parts:

* `hearing`: no sample the session accepted is lost or heard twice, wherever a
  close, a cutoff or a refusal falls; the tail's deadline never counts time in
  which the session itself had no room, and nothing renews it.
* `turns`: however a pause is resolved (verdict, late verdict, silence, the
  speaker going on) each block is heard once and in order, the verdict on an
  abandoned pause never ends a turn, the gate never has two questions open, and
  every final is observed once before the session closes by itself.
* `worker`: each request is answered once; a session that ends has given back
  everything; a drain is not given up while work ends in it, and late speaker
  results do not fail the worker. No true report that is judged is refused
  because the loop learns late of its own writes. One is refused, and the run
  reaches it: the host reports that a reply has ended of itself, and a barge-in
  has cut the reply since the loop last looked. `Session::playback` then says
  "incomplete or fenced audio cannot drain" (session.cpp:850), and the worker
  answers with that error, though the host has played all of it (`Overtaken`).
* `lane`: what an owner of storage is told of its publication is true although
  the host may act long after everyone gave up; the host is told one true thing
  of each request; a delivery the carrier vouches for is complete.
* `engine_core`: there are never more slots held than there are, a slot is held
  only by a channel that is served, and a session process that got its slot
  with the channel is not refused its first session, though the other channel
  asks, is refused and ends between its two questions; when Stop has returned no
  process it knew of runs and the server is gone; a slot whose channel is
  closed comes back, and no process outlives the server, also one that Start
  brings up while all is being stopped.

**Why the bounds are enough.** A second sample against an output bound of one
makes the synthesis thread wait for space with the queue non-empty, so that
fence, cancel and stop find it there, and an event queue of one makes each of
the emitting operations hit the full queue.
Two replies after each other are the fewest in which a cancel call arrives in
the reply after; `MaxJobs` (64 in the code) of one keeps them apart, and with
one sample each the thread never waits for space there, a case only `one_reply`
has. A reply that displaces one still unsettled, two replies that share the
output queue, replies of several segments and longer queues are beyond these
bounds: for them the theorems of section 4 speak, which
state every safety property of these two runs for all values. In
`ReplyVoice` two voices tell apart the voice before and after, and the shortest
way to a lost answer needs three requests. In `hearing` packets of 3 against
blocks of 2 leave a remainder to carry over, two of them fill the bound, and a
tail of two ticks can pass, be held and pass on. In `turns` six blocks are
enough for a pause, a question, the speech that cuts it short, and a second
pause in which the late answer comes; `QueryBound` 1 makes a second open
question an error. In `worker` each script is one kind of trouble with the
fewest requests that bring it about: `PendingCapacity` is the code's
`SpeakerCapacity + 2`, and three finals with one speaker place fill it;
`DrainIdle` of one tick passes unless work re-arms it, and `CaptureClose`, the
longer time of a closing capture, is two. In `lane` two owners
contend for the bridge over two sessions, three requests overflow a table of
two, and a writer's queue of one is full while the writer holds a line.
In `engine_core` two channels contend for the handing over and for one slot: the
second asks while the first holds it, before and after the first's process
asks again, and gets it when the first gives it back. A process whose session
has ended lives on, so Stop finds two processes and passes one while it waits
for the other. A server at its limit of channels, later sessions of one
process and more slots than one are left to the theorems. `MaxOpens`, `MaxBlocks`, `InputLimit`, `MaxFinals`, `MaxRequests`, `MaxEpochs`, the loads
and scripts are bounds of the models; the others are the code's, made small.

`CHECK_DEADLOCK FALSE` stands in all runs but those of `SessionOutput`: a
stopped session, an exited worker and an ended lane have nothing left to do. In
`SessionOutput` that state is `Closed`, and deadlock is checked.

**Fairness.**

* `SessionOutput`: the synthesis thread runs and the model calls return; those
  that do not are given up by `model_watch_loop`, which the failing runs have.
  A cancel call arrives. The worker's loop takes audio and events and passes on
  the receipt it owes for a reply whose END was taken or which was fenced. An
  aborting close follows when the host has lost the session. `SpeakerDone` and
  `InputDone` need strong fairness: they wait for room in the event queue that
  other events may take, but only finitely many input blocks follow the cutoff.
* `ReplyVoice`: only the synthesis thread. That nobody else must act is the
  point of `RepliesRetire`.
* `SessionInput`: the two threads and the clock. The host owes nothing.
* `Turns`: the recognition and the speaker thread. The endpoint thread need not
  ever answer: that the turn goes on without it is `HearingEnds`.
* `Worker`: the loop, and what has a deadline of its own (a storage operation, a
  model call, a write, a future). The engine need not do anything.
* `Lane`: the threads that use the bridge, whose waits are bounded by deadlines,
  the ticker that looks at the requests' deadlines, and the bound of `handoff`.
  Nothing is assumed of the host, the pipes or the worker.
* `EngineCore`: for `SlotsComeBack` and `OrphansEnd` the server's threads and a
  session process that has lost its server, and nothing else (`ServedSpec`): the
  slot comes back although the carrier does nothing more. For `stop_hangs`, with
  `FairSpec`, all that could help Stop: the carrier's calls, the server's
  threads, a session process that has lost its server, Stop with its deadline,
  and the end of a server told to end. What the host asks for, every other
  timeout, crashes, and whether a process ends by itself are choices.

`DrainEnds` depends on the reserve. The code checks only that the reserve is at
most the output bound (72000 of 120000 samples in use). With a reserve above
`OutputBound - MaxChunk + 1` the host waits for more samples and the thread for
room. The instance respects `Reserve + MaxChunk <= OutputBound + 1`, as the
real values do.

`DrainIsComplete` speaks of a session without an error. When the event queue
overflows in `retire_locked`, END is queued and the reply retired before the
fault is recorded, so the property leaves out the threads about to record one.

`InputEnds` is checked for packets that fit beside an uncut remainder. A packet
must fit beside what the recognizer has not heard, and the remainder is heard
only with the rest of its block, so a packet as long as the bound would be
refused for ever while a remainder is left.

### What the four violations show

* `answer_lost` - session.cpp:786. `Session::speech` compares an answer with
  the voice in force. While `take_speech` is inside `configure`, that is the
  voice about to be replaced. An answer naming it is dropped as no change, and
  the reply whose answer it was speaks with the voice just configured:
  `docs/DESKTOP_BETA.md:56` promises a saved voice from the next reply on. It
  takes a cancelled reply, a new one, and a save that goes back to the earlier
  voice.
* `wait_lost` - session.cpp:633. One flag says that settings are on their way.
  A cancelled reply that reaches `take_speech` clears it although it belongs to
  the next reply's request, and the next reply speaks without waiting;
  `docs/NATIVE_WORKER_WIRE.md:816` says that a reply waits.
* `release_race` - worker.cpp:1757. A pass takes the engine's events
  (worker.cpp:1624-1724), then the held reports (1752), and then releases the
  replies that are settled. When the user speaks after the events were taken
  and a held report settles the reply in the same pass, the event of the
  barge-in is still queued, `release_generation` throws "generation events not
  consumed" (session.cpp:808), and the worker fails and retires.

* `stop_hangs` - engine_core.go:391. `Stop` takes one `time.After(within)`
  before its loop over the session processes. The channel delivers once: the
  first process that is late takes the value and is killed; when the next does
  not end by itself the `select` waits on a channel that stays empty, and Stop
  never comes to end the server. The parameter `within` bounds the wait, and
  engine_core_unix_test.go:232 relies on it ("defer core.Stop(2 *
  time.Second)"), behind a server it has killed. It takes two processes that do
  not end on their own.

That a host which asks for a reply only when it has none and cancels none gets
both promises about the voice is `OwnAnswerToPolite` and `PoliteReplyWaits` in
`voice_settings`.

## 4. The proofs

From the assumptions named in the modules (naturals for the bounds, a reserve
and a chunk no larger than the queue, generations that are positive, packets no
larger than the bound) and for every value of the constants:

| theorem | states |
|---|---|
| `SessionOutputProofs!Invariance`, `SteadyInvariance` | `IInv` is invariant, with and without failures |
| `TypeCorrect` | types |
| `AudioClockHolds` | the host's audio is gapless and the clocks agree with the queue |
| `EndOwedHolds` | exactly one END, through every fence |
| `CancelledIsFencedHolds` | a cancelled reply is fenced |
| `ReceiptIsHonestHolds` | a receipt is true |
| `FenceIsFinalHolds` | nothing is given out after a fence |
| `NoMissedCloseHolds` | a session that may close has been stopped |
| `ReleasedIsGoneHolds` | nothing of a released reply is left or comes back |
| `NoStrayCancellationHolds` | a late cancel call never cuts the reply after |
| `OutputAccountingHolds` | `queuedOutput` is the sum of what waits of all replies, and within the bound |
| `DrainIsCompleteHolds` | a session that closed by itself owes nothing |
| `KeepsCustodyHolds` | the refinement of `Custody` |
| `ReplyVoiceProofs!Invariance`, `TypeCorrect`, `VoiceInForceHolds` | the reported voice is the synthesizer's |
| `PoliteInvariance`, `OwnAnswerToPoliteHolds`, `PoliteReplyWaitsHolds` | a polite host gets both promises about the voice |
| `SessionInputProofs!Invariance`, `TypeCorrect` | types, and the order of the clocks |
| `NothingLostHolds` | every accepted sample is in one place, in its order |
| `HeardToTheEndHolds` | a session that closes by itself has heard its input to the end |
| `TailBudgetHolds` | the tail's deadline counts no time without room, and is not renewed |
| `TurnsProofs!Invariance`, `VerdictIsOfThisPauseHolds` | no verdict on another pause ends a turn |
| `GateInvariance`, `GateIsBoundedHolds` | one question at a time, no overload, no tail too long |
| `FinalsInvariance`, `FinalsObservedHolds` | every final observed once |
| `HearingInvariance`, `SpeechHeardOnceHolds`, `TypeCorrect` | no speech heard twice, out of order or not at all; types |
| `LaneProofs!RequestInvariance`, `RequestToldTruthHolds` | one true word about each request |
| `EventInvariance`, `EventsToldTruthHolds` | a delivery vouched for is complete |
| `HostToldTruthHolds` | both |
| `StorageInvariance`, `StorageToldTruthHolds`, `TypeCorrect` | what an owner of storage is told is true; types |
| `WorkerProofs!Invariance`, `TypeCorrect` | types, and the six parts of the loop's invariant |
| `AnsweredOnceHolds` | each request taken is answered once |
| `EndsOnceHolds` | each session ends once, and gives back what it had |
| `DrainNotCutShortHolds` | a drain is given up only after its whole idle time without work |
| `OnlyOvertakenRefusedHolds` | a judged true report is refused only as the natural end of a reply cut since the last look |
| `NoFalseAlarmHolds` | both, that one refusal excepted, and no failure when nothing goes wrong around the worker |
| `EngineCoreProofs!CoreInvariance`, `TypeCorrect` | types, and where a channel's slot, thread and process are |
| `SlotsAreKeptHolds` | no slot too many, none without a channel that is served |
| `FirstOpenIsAdmittedHolds` | a process started on an admitted channel opens its first session |
| `StopIsThoroughHolds` | Stop leaves no process it knew of, and no server |

**SessionOutput.** None of these is inductive alone. `FenceIsFinal` needs that
a fenced reply has only END in its queue (`FencedIsSilent`). `AudioClock` needs that the
generation is not one that was released and came back: `Gone` says that what is
outside `jobs` is settled or untouched, `Fresh` that numbers above the last one
are untouched. `EndOwed` needs to know which reply the thread works on and that
it is not retired (`ThreadOwnsReply`), and that a stop empties every queue
(`StoppedIsEmpty`). `ReceiptIsHonest` needs that a reply which retired without
a cancellation has said every segment (`RetiredIsWhole`). `Clocks` holds the
inequalities between what was generated, queued, delivered and rendered, with
the order of the chunks stated for every pair, so that removing the first keeps
it. `IInv` is the conjunction.

The proof has a lemma per shape of change and per part of the invariant: steps
that leave replies alone, steps of the thread, fencing everything, an
interrupt, a retirement, a chunk queued, a chunk taken, a receipt, a release, a
new reply. The queue facts are lemmas about `Append` and `Tail`
(`AppendToQueue`, `TailOfQueue`). `NextIInv` puts the actions together.
`FenceIsFinalHolds` is an action property from `IInv` and the fact that fences
stay.

The other results each add what they need to `IInv`:

* `NoMissedClose`. `CloseSteps` lists what a step may do to the condition under
  which the session closes; where it may become true, the step looks.
* `ReleasedIsGone` needs that no event names an unknown reply (`EventsKnown`).
* `NoStrayCancellation` is about a call that arrives when other replies have
  passed. A call is for a cancelled reply (`CallsAreForCancelled`), only the
  last reply may be neither cancelled nor over (`OthersAreOver`), and the
  synthesizer's stream is marked only when the thread will see its reply
  abandoned (`MarksAreDue`). TLC checked the conjunction on instances of 1.2 to
  3.3 million states before it was proved.
* `OutputAccounting` says that the shared count is a sum over all replies: it
  has a run of partial sums that ends in it, which a prover without induction
  can reason about. The invariant is `SumsTo`, the same run without an end.
  `SumOfChange`: one summand changes, and the sum by as much. `RunOfSums`: the
  run never falls and ends with the last reply.
* `DrainIsComplete` follows a stop back to its cause: a failure is told before
  the thread is gone (`FailureIsTold`), and what a close by itself requires
  stays true (`Settles`, `Over`).
* `KeepsCustody` goes action by action: `AdmitRefines`, `GiveRefines`,
  `CutRefines`, `ReportRefines`, `ReleaseRefines`, `BreakRefines`, and
  `CloseOrStutter` for the rest. What a reply's stage is depends on marks that
  several actions set; each lemma shows the stages of the others unchanged.

**ReplyVoice.** `VoiceInForce` is proved together with where a voice is while
it is between the session and the synthesizer (`VoiceOnItsWay`): while
`configure` runs the two still agree, and between `configure` and the lock the
synthesizer has the voice in the thread's hand. The two promises to a polite
host rest on `PoliteInv`: at most one reply is ahead of the thread
(`OneAtATime`), the answer on its way is to the request of that reply
(`AnswerIsNext`), and an answer that has come is the voice to be taken
(`DueIsTaken`). Both promises fail without politeness, as `answer_lost` and
`wait_lost` show.

**SessionInput.** `NothingLost` says of a queue that its neighbours touch and
that it reaches from one clock to the next. That no span starts before the one
clock or ends after the other follows only by induction over the queue, so
`QueuesLinked` keeps it for every pair of spans, and both `Append` and `Tail`
preserve it. `InHand` says what the recognition thread has where, `ControlKnows`
what the control thread knows at each of its places, `EndsInOrder` that the end
of the input is announced after the last block, and `ClockIsHeld` that the
clock stands exactly while the offered packet has no room; the action property
`TailBudget` is proved from it.

**Turns.** A verdict may come at any time, so `VerdictIsOfThisPause` rests on
the question: a pending question is of the pause that lasts
(`PendingIsOfThisPause`) wherever the thread may look at its verdict, because
speech retires it before, and a question is asked only after a silent block
(`AskedInSilence`).

`GateIsBounded` needs two more pictures. Of the questions: an unanswered one is
the pending one or a retired one, and the gate asks only when it retired none
that is unanswered (`Tracked`, `AsksAlone`). Of the tail: what is kept back
behind a question is the run of the last silent blocks, shorter than the
silence that ends a turn (`TailShape`, `TailPlaces`, `TailTimes`), so it cannot
outgrow its bound. `FinalsObserved` says of the speaker thread that it owes each
unobserved final once, in its queue or in its hand (`OwedOnce`, `AllOwed`); that
a separated turn queues each of its finals once is shown by counting (`Below`,
`Ranked`). The induction it takes is over the least counterexample (`Least`),
since the induction theorems of the library take an operator.

`SpeechHeardOnce` compares what the recognizer has heard with
what was spoken. `Reach` is the block up to which it is served; behind it lies
the tail. `HearingInv` says that what was heard is rising and ends at `Reach`
or before (`HeardInOrder`), all of it for a continuous recognizer (`HeardAll`),
that what is kept from before the speech was not heard yet (`Before_`), that an
open turn is heard from its beginning (`OpenTurnHeard`), that speech beyond
`Reach` is not lost (`SpeechHeard`), and that the tail is silent where the
thread may drop it (`SilentTail`).

**Lane.** `RequestInv` follows a request through its places. It is queued once
(`QueuedOnce`) and, while the lane lives, still pending; once taken by the
writer it is in `written` and in one place on its way (`SentOnce`), and it is
replied to after the worker took it (`RepliesSettled`). What was not written
may be called not sent, and what was written never reaches `Owed`
(`ToldAgrees`). `EventInv` counts events without a sum: the pipe holds exactly
the numbers between the last forwarded and the last produced, in rising order
(`EventsCounted`), until one is dropped or refused; after the reader saw the
pipe empty and the worker gone, nothing is left between them. The storage half
of `Lane` takes part only in that it leaves these variables alone.

The other half of `Lane` is storage. A query goes from the worker's output to the
storage goroutine, the host, the writer, and as an answer back to the worker's
input. One id is at one of these six places (`Way`, `Apart`) and no answer
taken is on the way any more (`AnswerTaken`); one owner holds the bridge and
waits for one answer, of its own query (`BridgeInv`, `QueryInv`). A candidate is
published by one query, asked once (`PublishInv`): so an owner that was told of
a mismatch has no publication left that could still be carried out, which is
what makes "unchanged" true for ever. `TruthInv` says that an answer on its way
to an owner fits what the host has done.

**Worker.** Forty actions touch the life, most of them by a failure that
may come at any point. They are taken together: `Worse` relates a life to one
that goes on as it is or drains without grace, is transitive, and holds across
every step but the four turns a life takes forwards (`OthersAreWorse`,
`TurningKeepsLife`, `LookingKeepsLife`). On it rest the parts. `OwedInv`: a
line is at one place, in the queue, in the hand, with a future or in a report
held back, and is answered when it leaves the last; only a process that
retires drops one. `HeldInv`: a report is held back only in a living session
and only for a write, so the end of a session finds none. `FinalsInv`: the
engine owes each final once, and its row is pending, named late or over as it
is told (`said`). `GivenBackInv`: the storage's owner lives; what the last
snapshot said of the engine's retirement is still so, which is why a look that
relies on it may end the session. `ReplyInv`: what was delivered and what is
being written fit in what was given and made.

`DrainNotCutShort` needs a measure. While a session drains, what its deadline
has been running and the time without work add up to the grace it was given,
unless there is work the loop has still to look at (`DrainTimed`). `Stirs` says
which: an operation of the storage or a call of the engine that is under way or
has ended since the loop last looked, and a write that has begun. That the loop
notices what ended follows from counters that only grow and of which it
remembers what it saw (`CallsCounted`), between its two looks too: what the
engine does before the first is in the snapshot, what it does after is seen in
the next pass. `QuietSteps` and `GraceFacts` are the arithmetic; each place of
the loop keeps the measure by a lemma of its own (`LookingTimes`,
`StatusesKeepTime`, `OpeningsKeepTime`, `InputKeepsTime`).

`OnlyOvertakenRefused` relates three orders: that of the audio (`AudioOrder`: a reply
ends in the steps made, retired, taken, written, reported, and is fenced only
when it was cut or its end reported), that of the engine's events (`EventOrder`)
and that of the reports (`ReportsFit`). A report that is in the queue, in the
hand or held back fits what has been written since it was made (`Fits`, kept
because what is written only grows: `ReplyGrows`, `FitsOn`), comes after those
before it, and after none that says the end (`Precedes`). A report whose audio
is still being written is held back, the next ones behind it, and judged when
the write is over; then what has been written is what the worker knows, and
only the engine can still refuse it, because of a cut the worker has not seen
(`FittingIsBelieved`). The property is no stronger than that: `refusals` keeps
the reason of every refusal of a judged report, and "overtaken" is one the code
produces. A report that finds the backlog full (worker.cpp:1437), or comes when
its reply or session is over, is answered without being judged.

`NoFailureOfItsOwn` says that with a script whose only trouble is the end of the
input nothing but a stalled drain fails the worker. Three places could.
*An event is refused*: a final when `PendingCapacity` others await their
speaker, an observation for a row that awaits none. The events that wait and the
rows that are open say together what the engine owes: `OpenIn(Awaiting, events,
k)` is what will be open when `k` more events are taken, it is `engine.owed`
when all are, and it has room at every final on the way (`FinalsCounted`). The
room is there because the engine hands over at most `SpeakerCapacity + 1` and
the table is one larger for the one it refuses at once, which is
`CapacityAssumption`. It holds while the session is sound, with or without
trouble. *A reply is released early*: then its `ended` event was taken, of which
there is one (`EventOrder`), and a cut by the worker waits for the next pass
(`NothingThrows`). *The end of the input comes when no session is left*: `Closes`
carries that a session which ends in order has had its end of input, from the
engine (it retires by itself only when done, the event that says so is taken
before the session ends) to the last look (`SessionEndsWell`). `NoTrouble` says
what does not happen around the worker, step by step. `EvenlyOn` then leaves five
steps that change more than a life's times and answers; each has a lemma.

**EngineCore.** The actions touch one channel and the state all share, so the
invariant has a part per channel and one for Stop. `Lifetime` orders the
carrier, the process and its sessions on a channel (a process runs only from
`starting` on, a session only in a process that had its slot). `IsServed` says
when the server has a thread for it, and that the handing over has one owner
(`handing`). `MailOf` says which frame can be under way at each place: a
question only while its asker waits or has gone, an answer only for a question,
so that no answer to one who gave up is read by the next. `HasSlot` follows the
slot: who was told yes holds it until the release was read or the thread
retired, hence the process's second question, which `admit` answers by the
holder it finds, is granted (`FirstOpenIsAdmitted`) and the count is right
(`SlotsAreKept`). `StopInv` follows Stop's loop: what it passed is
dead, it has passed all of its list when it comes to the server, and the server
is gone when it returns. The dead stay dead, so the list is.

**Only model-checked.** Out of the prover's reach because they need fairness:
`DrainEnds`, `CancelEnds`, `StopEnds`, `RepliesRetire`, `InputEnds`,
`HearingEnds`, `ClosingEnds`, `LaneSettles`, `SlotsComeBack`, `OrphansEnd`.

## 5. Abstractions to know of

* Time is nondeterministic: a deadline may pass at any moment its timer runs,
  except where a property is about the time (`SessionInput`'s tail, `Worker`'s
  drain and retirement), which count ticks. A request for settings during the
  wait of another extends that wait in the code (`speech_deadline` is read by
  the waiting `wait_until` again); `MaxAsks` bounds how often.
* Pipes are FIFO and lose nothing until they break.
* A reply's samples above `SegmentLimit` and `ReplyLimit` fail the session as
  in the code; the bounds are small in the runs and arbitrary in the proofs.
* The instance never reuses a number: `synthesize` refuses one that is not
  above the last.
* `Turns`: which block is voiced, what a turn's words are and how many finals
  it has are choices. Where the input side faults for reasons of its own is
  `RecognizerFails` and `OthersFault`.
* `Worker`: a pass takes one tick, and lines and troubles arrive between
  passes, which is where the loop looks for them; the engine moves at the seams
  at which the loop looks at it, since what it does elsewhere is seen no
  sooner. A session has one reply, and a host that ends its reports of it once;
  there is audio to be recorded; the bridge is not refused to a session.
* `Lane`: a document is one page and a candidate one stage, a version names its
  content; sessions share a name, so that only the epoch tells them apart; the
  memory of the last 64 requests is unbounded; an error and a late answer of
  the host are one case.

## 6. Plan

Done: `SessionOutput` with `Custody`, `ReplyVoice`, `SessionInput`, `Turns`,
`Worker`, `Carrier` with `StorageBridge` in `Lane`, `EngineCore`; the proofs
listed above.

To model: the model channel (requests, streams and outboxes between a session
process and the server); the publication of the vocabulary by compare-and-swap
and the retention sweep.

## 7. Not modelled, and why

* Inference (numerical), the audio hosts of the platforms (device I/O), C
  interfaces (handles and error conversion around one call each), packaging and
  start-up validation (no state), the Python engines and tools (not run by the
  plugin).
* The model channel: in the tree, but the release's carrier starts one worker
  and does not use it, nor the engine core. Of the engine core: starting and
  warming the server, descriptors, the measured costs behind an admission
  (`EngineCore` lets the server refuse any session but the first), the advice
  when to ask again.
* The worker's pipes and framing: JSON and framing are taken as correct and
  ordered; a broken pipe is a failure in `Worker` and `Lane`.
* Output-only sessions, re-arming by the recognized position, the validation of
  parameters and the contents of a status (`Worker`); readiness, starting and
  killing the worker, the public tool calls (`Carrier`).
* Document contents of the speaker registry, the recordings and the vocabulary:
  their way to the host is `StorageBridge` and `Lane`.
* Most of the lines of the repository are vendored or overridden inference
  kernels; of the session, the worker and the carrier the modules cover the
  control flow, not parameter checks, logging and JSON.
