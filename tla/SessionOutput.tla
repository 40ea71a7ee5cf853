--------------------------- MODULE SessionOutput ---------------------------
(***************************************************************************)
(* The output direction of the native session engine                       *)
(* (runtime/native/session/session.cpp): spoken replies ("generations")    *)
(* from the moment the host asks for one until their audio, their events   *)
(* and their playback receipt are all accounted for, and the close of the  *)
(* session, which waits for exactly that.                                  *)
(*                                                                         *)
(* Four parties act.  The HOST (the worker's single serving thread) calls  *)
(* the public operations; every one of them is a critical section of       *)
(* Impl::mutex and so one step here.  The SYNTHESIS thread runs            *)
(* synthesis_loop; it is cut at every place where it releases the mutex.   *)
(* The CONTROL thread raises barge-in: it reads the interruptible          *)
(* generations under the mutex, releases it, and interrupts them one by    *)
(* one.  The remaining hearing threads are reduced to what the output side *)
(* can see of them: events, input_done, speaker_busy and faults.           *)
(*                                                                         *)
(* A Job is spread over one variable per field, indexed by generation; the *)
(* boolean fields are the sets of the generations where they are true.     *)
(* Samples are counted, not valued.                                        *)
(***************************************************************************)
EXTENDS Integers, Sequences, FiniteSets

CONSTANTS
    Generations,     \* the generation numbers the host may use
    MaxJobs,         \* unresolved generations the session holds (64)
    EventBound,      \* capacity of the canonical event queue (1024)
    OutputBound,     \* samples the output queue holds (120000)
    Reserve,         \* samples queued before the first is given out (72000)
    MaxChunk,        \* the longest chunk the synthesizer returns
    MaxSegments,     \* segments of a reply
    SegmentLimit,    \* samples of one segment (60 seconds)
    ReplyLimit,      \* samples of one reply (30 minutes)
    Hearing,         \* the session has an input direction
    SpeakerCapacity  \* utterances waiting for speaker identification

ASSUME GenerationsAssumption == Generations \subseteq Nat \ {0}
ASSUME MaxJobsAssumption == MaxJobs \in Nat
ASSUME EventBoundAssumption == EventBound \in Nat
ASSUME OutputBoundAssumption == OutputBound \in Nat
ASSUME ReserveAssumption == Reserve \in Nat /\ Reserve <= OutputBound
ASSUME MaxChunkAssumption == MaxChunk \in Nat /\ MaxChunk <= OutputBound
ASSUME MaxSegmentsAssumption == MaxSegments \in Nat
ASSUME LimitsAssumption == SegmentLimit \in Nat /\ ReplyLimit \in Nat
ASSUME HearingAssumption == Hearing \in BOOLEAN
ASSUME SpeakerAssumption == SpeakerCapacity \in Nat

VARIABLES
    \* the jobs
    known,         \* keys of Impl::jobs
    generated, delivered, rendered, queued,   \* sample clocks of a job
    audio,         \* Job::audio, chunks [start, n, end]
    unspoken,      \* segments the reply still has to synthesize
    fenced, cancelled, retired, endTaken, receipts, halted,
    \* the session
    current, running, lastGeneration, queuedOutput, events,
    stopping, closing, aborted, error,
    \* the synthesis thread
    synth, chunk, samples, natural, why,
    \* the synthesizer's cancellation state and the cancel calls in flight
    cancelThrough, streamCancelled, cancelCalls,
    \* the hearing threads, as far as output depends on them
    input, barge, control, speakerJobs,
    \* the serving thread: FALSE once an operation of it has failed
    serving

clocks    == <<generated, delivered, rendered, queued, audio, unspoken>>
marks     == <<fenced, cancelled, retired, endTaken, receipts, halted>>
jobVars   == <<known, clocks, marks>>
lifeVars  == <<stopping, closing, aborted, error>>
sessVars  == <<current, running, lastGeneration, queuedOutput, events>>
synthVars == <<synth, chunk, samples, natural, why>>
ttsVars   == <<cancelThrough, streamCancelled, cancelCalls>>
hearVars  == <<input, barge, control, speakerJobs>>
vars == <<jobVars, sessVars, lifeVars, synthVars, ttsVars, hearVars, serving>>

None == 0
Chunk(start, n) == [start |-> start, n |-> n, end |-> FALSE]
End(start) == [start |-> start, n |-> 0, end |-> TRUE]
Event(kind, g) == [kind |-> kind, gen |-> g]

Max2(a, b) == IF a >= b THEN a ELSE b
Least(x, S) == x \in S /\ \A y \in S : x <= y

----------------------------------------------------------------------------
(* Init: the state the Impl constructor leaves behind.                     *)
Init ==
    /\ known = {}
    /\ generated = [g \in Generations |-> 0]
    /\ delivered = [g \in Generations |-> 0]
    /\ rendered = [g \in Generations |-> 0]
    /\ queued = [g \in Generations |-> 0]
    /\ audio = [g \in Generations |-> <<>>]
    /\ unspoken = [g \in Generations |-> 0]
    /\ fenced = {} /\ cancelled = {} /\ retired = {}
    /\ endTaken = {} /\ receipts = {} /\ halted = {}
    /\ current = None /\ running = None /\ lastGeneration = 0
    /\ queuedOutput = 0 /\ events = <<>>
    /\ stopping = FALSE /\ closing = FALSE /\ aborted = FALSE
    /\ error = "none"
    /\ synth = "wait" /\ chunk = 0 /\ samples = 0 /\ natural = FALSE
    /\ why = "none"
    /\ cancelThrough = 0 /\ streamCancelled = FALSE
    /\ cancelCalls = {}
    /\ input = IF Hearing THEN "open" ELSE "none"
    /\ control = IF Hearing THEN "listening" ELSE "done"
    /\ barge = {} /\ speakerJobs = 0
    /\ serving = TRUE

----------------------------------------------------------------------------
(* The helpers that run inside a critical section.                         *)

(* emit_locked throws when the queue is full.                              *)
Room(n) == Len(events) + n <= EventBound

(* Mutant: the release test forgets the receipt.                           *)
ResolvedUnheard(g) == g \in retired /\ g \in endTaken
(* maybe_close_locked, evaluated on the state the critical section leaves. *)
Resolved(g) == g \in retired /\ g \in endTaken /\ g \in receipts
(* Mutant: the close does not wait for receipts.                           *)
CloseReadyUnheard ==
    /\ closing
    /\ input \in {"none", "done"}
    /\ speakerJobs = 0
    /\ \A g \in known : g \in retired /\ g \in endTaken
CloseReady ==
    /\ closing
    /\ input \in {"none", "done"}
    /\ speakerJobs = 0
    /\ \A g \in known : Resolved(g)
MaybeClose == stopping' = (stopping \/ CloseReady')

(* What fault, the model watch and an aborting close do to the jobs.       *)
FenceAll ==
    /\ fenced' = fenced \cup known
    /\ audio' = [g \in Generations |-> <<>>]
    /\ queued' = [g \in Generations |-> 0]
    /\ queuedOutput' = 0
    /\ stopping' = TRUE

(* cancel_models asks the synthesizer to stop the current generation.      *)
CancelModels == cancelCalls' = cancelCalls \cup ({current} \ {None})

(* fault: the first error is kept.                                         *)
Fault(reason) ==
    /\ FenceAll
    /\ CancelModels
    /\ error' = IF error = "none" THEN reason ELSE error

FaultFrame ==
    UNCHANGED <<known, generated, delivered, rendered, unspoken, cancelled,
                retired, endTaken, receipts, halted, current, running,
                lastGeneration, events, closing, aborted, cancelThrough,
                streamCancelled, serving>>

(* The chunk retire_locked queues and the event it emits.                  *)
(* Mutant: END always stands at the end of what was generated.             *)
RetiredAudioAtGenerated(g) == Append(audio[g], End(generated[g]))
RetiredAudio(g) ==
    Append(audio[g], End(IF g \in fenced THEN delivered[g] ELSE generated[g]))
RetiredEvent(g) == Event(IF g \in cancelled THEN "cancelled" ELSE "end", g)

(* interrupt: the fence drops what is queued but never the END marker.     *)
(* Mutant: a reply with nothing queued is not worth a fence.               *)
FenceableQueued(g) == g \notin fenced /\ g \notin receipts /\ queued[g] # 0
Fenceable(g) == g \notin fenced /\ g \notin receipts
(* Mutant: the fence clears the queue, END included.                       *)
FenceLosesEnd(g) ==
    /\ fenced' = fenced \cup {g}
    /\ queuedOutput' = queuedOutput - queued[g]
    /\ queued' = [queued EXCEPT ![g] = 0]
    /\ audio' = [audio EXCEPT ![g] = <<>>]
(* Mutant: the session's count keeps what the fence dropped.               *)
FenceKeepsCount(g) ==
    /\ fenced' = fenced \cup {g}
    /\ queued' = [queued EXCEPT ![g] = 0]
    /\ audio' = [audio EXCEPT ![g] =
          IF g \in retired /\ g \notin endTaken THEN <<End(delivered[g])>>
                                                ELSE <<>>]
    /\ UNCHANGED queuedOutput
Fence(g) ==
    /\ fenced' = fenced \cup {g}
    /\ queuedOutput' = queuedOutput - queued[g]
    /\ queued' = [queued EXCEPT ![g] = 0]
    /\ audio' = [audio EXCEPT ![g] =
          IF g \in retired /\ g \notin endTaken THEN <<End(delivered[g])>>
                                                ELSE <<>>]
InterruptLocked(g, cancel) ==
    LET stop == cancel /\ g \notin retired /\ g \notin cancelled IN
    /\ \/ /\ Fenceable(g) /\ Room(1)
          /\ Fence(g)
          /\ events' = Append(events, Event("interruption", g))
       \/ /\ ~Fenceable(g)
          /\ UNCHANGED <<fenced, queuedOutput, queued, audio, events>>
    /\ cancelled' = IF stop THEN cancelled \cup {g} ELSE cancelled
    /\ cancelCalls' = IF stop THEN cancelCalls \cup {g} ELSE cancelCalls
(* The event queue is full: emit_locked throws behind the fence and the    *)
(* cancellation is never reached.                                          *)
InterruptOverflow(g) ==
    /\ Fenceable(g) /\ ~Room(1)
    /\ Fence(g)
    /\ UNCHANGED <<events, cancelled, cancelCalls>>
InterruptFrame ==
    UNCHANGED <<known, generated, delivered, rendered, unspoken, retired,
                endTaken, receipts, halted, current, running, lastGeneration,
                lifeVars, synthVars, cancelThrough, streamCancelled, input,
                speakerJobs>>

----------------------------------------------------------------------------
(* The operations of the host.                                             *)

(* Session::synthesize.  The previous reply must be done or cancelled; if  *)
(* the synthesis thread never picked it up it is retired on the spot.      *)
Displaced == current # None /\ current \notin retired /\ current # running
MaySynthesize(g) ==
    /\ serving /\ ~stopping /\ ~closing
    /\ g > lastGeneration /\ Cardinality(known) < MaxJobs
    /\ current = None \/ current \in retired \/ current \in cancelled
RetireDisplaced ==
    /\ retired' = IF Displaced THEN retired \cup {current} ELSE retired
    /\ audio' = IF Displaced
                  THEN [audio EXCEPT ![current] = RetiredAudio(current)]
                  ELSE audio
Synthesize(g, parts) ==
    LET emitted == IF Displaced THEN <<RetiredEvent(current)>> ELSE <<>> IN
    /\ MaySynthesize(g)
    /\ Room(Len(emitted) + 1)
    /\ RetireDisplaced
    /\ events' = events \o Append(emitted, Event("start", g))
    /\ known' = known \cup {g}
    /\ current' = g
    /\ lastGeneration' = g
    /\ unspoken' = [unspoken EXCEPT ![g] = parts]
    /\ UNCHANGED <<generated, delivered, rendered, queued, fenced, cancelled,
                   endTaken, receipts, halted, running, queuedOutput, lifeVars,
                   synthVars, ttsVars, hearVars, serving>>
SynthesizeOverflow(g) ==
    /\ MaySynthesize(g)
    /\ ~Room(IF Displaced THEN 2 ELSE 1)
    /\ RetireDisplaced
    /\ events' = IF Displaced /\ Room(1)
                   THEN Append(events, RetiredEvent(current)) ELSE events
    /\ serving' = FALSE
    /\ UNCHANGED <<known, generated, delivered, rendered, queued, unspoken,
                   fenced, cancelled, endTaken, receipts, halted, current,
                   running, lastGeneration, queuedOutput, lifeVars, synthVars,
                   ttsVars, hearVars>>

(* Session::interrupt, stop_playback and cancel_synthesis.                 *)
HostInterrupt(g, cancel) ==
    /\ serving /\ g \in known
    /\ InterruptLocked(g, cancel)
    /\ InterruptFrame
    /\ UNCHANGED <<barge, control, serving>>
HostInterruptOverflow(g) ==
    /\ serving /\ g \in known
    /\ InterruptOverflow(g)
    /\ serving' = FALSE
    /\ InterruptFrame
    /\ UNCHANGED <<barge, control>>

(* Session::audio: the first generation, in numeric order, that has audio  *)
(* the host may take.  The reserve holds back a reply's first samples.     *)
Reserved(g) ==
    /\ delivered[g] = 0 /\ g \notin retired /\ g \notin fenced
    /\ queued[g] < Reserve
Takeable == {g \in known : audio[g] # <<>> /\ ~Reserved(g)}
TakeAudio ==
    /\ ~stopping
    /\ \E g \in Generations :
         /\ Least(g, Takeable)
         /\ audio' = [audio EXCEPT ![g] = Tail(@)]
         /\ LET head == Head(audio[g]) IN
            /\ endTaken' = IF head.end THEN endTaken \cup {g} ELSE endTaken
            /\ queued' = [queued EXCEPT ![g] = @ - head.n]
            /\ queuedOutput' = queuedOutput - head.n
            /\ delivered' = [delivered EXCEPT ![g] = @ + head.n]
            /\ UNCHANGED <<known, generated, rendered, unspoken, fenced,
                           cancelled, retired, receipts, halted, current,
                           running, lastGeneration, events, closing, aborted,
                           error, synthVars, ttsVars, hearVars, serving>>
            /\ IF head.end THEN MaybeClose ELSE UNCHANGED stopping

(* Session::event.                                                         *)
TakeEvent ==
    /\ events # <<>>
    /\ events' = Tail(events)
    /\ UNCHANGED <<jobVars, current, running, lastGeneration, queuedOutput,
                   lifeVars, synthVars, ttsVars, hearVars, serving>>

(* Session::playback: the host's clock of what was really played, and the  *)
(* terminal receipt that says a reply was played out or stopped.           *)
(* Mutant: played out need not mean played to the end.                     *)
MayPlayShort(g, position, terminal, stop) ==
    /\ g \in known
    /\ rendered[g] <= position /\ position <= delivered[g]
    /\ stop => terminal
    /\ terminal => IF stop THEN g \in fenced
                           ELSE g \in endTaken /\ g \in retired
    /\ (terminal /\ ~stop) => g \notin fenced
    /\ g \in receipts =>
          terminal /\ (stop <=> g \in halted) /\ position = rendered[g]
MayPlay(g, position, terminal, stop) ==
    /\ g \in known
    /\ rendered[g] <= position /\ position <= delivered[g]
    /\ stop => terminal
    /\ terminal => IF stop THEN g \in fenced
                           ELSE g \in endTaken /\ g \in retired
    /\ (terminal /\ ~stop) => g \notin fenced /\ position = generated[g]
    /\ g \in receipts =>
          terminal /\ (stop <=> g \in halted) /\ position = rendered[g]
(* Mutant: the last receipt does not look whether the session may close.   *)
PlaybackNoClose(g, position, terminal, stop) ==
    /\ serving
    /\ MayPlay(g, position, terminal, stop)
    /\ rendered' = [rendered EXCEPT ![g] = position]
    /\ receipts' = IF terminal THEN receipts \cup {g} ELSE receipts
    /\ halted' = IF terminal /\ stop THEN halted \cup {g} ELSE halted
    /\ UNCHANGED <<known, generated, delivered, queued, audio, unspoken,
                   fenced, cancelled, retired, endTaken, sessVars, lifeVars,
                   synthVars, ttsVars, hearVars, serving>>
Playback(g, position, terminal, stop) ==
    /\ serving
    /\ MayPlay(g, position, terminal, stop)
    /\ rendered' = [rendered EXCEPT ![g] = position]
    /\ receipts' = IF terminal THEN receipts \cup {g} ELSE receipts
    /\ halted' = IF terminal /\ stop THEN halted \cup {g} ELSE halted
    /\ UNCHANGED <<known, generated, delivered, queued, audio, unspoken,
                   fenced, cancelled, retired, endTaken, sessVars, closing,
                   aborted, error, synthVars, ttsVars, hearVars, serving>>
    /\ MaybeClose

(* Session::release_generation.                                            *)
(* Mutant: the events still queued are not looked at.                      *)
ReleaseUnread(g) ==
    /\ serving /\ g \in known
    /\ Resolved(g) /\ audio[g] = <<>> /\ queued[g] = 0
    /\ known' = known \ {g}
    /\ UNCHANGED <<clocks, marks, sessVars, lifeVars, synthVars, ttsVars,
                   hearVars, serving>>
Release(g) ==
    /\ serving /\ g \in known
    /\ Resolved(g) /\ audio[g] = <<>> /\ queued[g] = 0
    /\ \A i \in 1..Len(events) : events[i].gen # g
    /\ known' = known \ {g}
    /\ UNCHANGED <<clocks, marks, sessVars, lifeVars, synthVars, ttsVars,
                   hearVars, serving>>

(* Session::finish_input (and the capture limit, which fixes the cutoff in *)
(* the same way): what is modelled of it here is that a cutoff exists.     *)
FinishInput ==
    /\ serving /\ ~stopping /\ input = "open"
    /\ input' = "cutoff"
    /\ UNCHANGED <<jobVars, sessVars, lifeVars, synthVars, ttsVars, barge,
                   control, speakerJobs, serving>>

(* Session::close(false).                                                  *)
CloseDrain ==
    /\ serving /\ ~stopping
    /\ Hearing => input # "open"
    /\ closing' = TRUE
    /\ UNCHANGED <<jobVars, sessVars, aborted, error, synthVars, ttsVars,
                   hearVars, serving>>
    /\ MaybeClose

(* Session::close(true); also what the worker does after a failed call.    *)
CloseAbort ==
    /\ ~stopping
    /\ closing' = TRUE /\ aborted' = TRUE
    /\ FenceAll
    /\ CancelModels
    /\ UNCHANGED <<known, generated, delivered, rendered, unspoken, cancelled,
                   retired, endTaken, receipts, halted, current, running,
                   lastGeneration, events, error, synthVars, cancelThrough,
                   streamCancelled, hearVars, serving>>

----------------------------------------------------------------------------
(* The synthesis thread.  synth is the place where it is about to take or  *)
(* has just released the mutex:                                            *)
(*   wait     for a current generation that is not retired                 *)
(*   segment  at the head of the segment loop                              *)
(*   start    about to call tts.start                                      *)
(*   check    at the head of the chunk loop                                *)
(*   next     about to call tts.next                                       *)
(*   admit    with a chunk in hand, about to take the mutex                *)
(*   space    waiting for room in the output queue                         *)
(*   reset    after the chunk loop, about to call tts.reset                *)
(*   unwind   with a Cancelled exception in hand                           *)
(*   retire   done with the reply                                          *)
(*   failing  with any other exception in hand (why)                       *)
(*   exited                                                                *)

(* The locals chunk, samples, natural and why, and the cancellation mark   *)
(* of the open stream, have a value only where the code has them in scope. *)

Locals(c, n, fin, reason) ==
    chunk' = c /\ samples' = n /\ natural' = fin /\ why' = reason
GoTo(place) == synth' = place /\ Locals(0, 0, FALSE, "none")
Stay(place) == synth' = place /\ Locals(0, samples, FALSE, "none")
Fail(reason) == synth' = "failing" /\ Locals(0, 0, FALSE, reason)
SynthFrame ==
    UNCHANGED <<jobVars, sessVars, lifeVars, ttsVars, hearVars, serving>>
Abandoned == stopping \/ running \in cancelled

(* Mutant: a reply cancelled before it began is not picked up.             *)
PickJobUncancelled ==
    /\ synth = "wait" /\ ~stopping
    /\ current # None /\ current \notin retired /\ current \notin cancelled
    /\ running' = current
    /\ GoTo("segment")
    /\ UNCHANGED <<jobVars, current, lastGeneration, queuedOutput, events,
                   lifeVars, ttsVars, hearVars, serving>>
PickJob ==
    /\ synth = "wait" /\ ~stopping
    /\ current # None /\ current \notin retired
    /\ running' = current
    /\ GoTo("segment")
    /\ UNCHANGED <<jobVars, current, lastGeneration, queuedOutput, events,
                   lifeVars, ttsVars, hearVars, serving>>
(* Mutant: the wait for a job does not wake for the stop.                  *)
SynthExitOnJob ==
    /\ synth = "wait" /\ stopping
    /\ current # None /\ current \notin retired
    /\ GoTo("exited")
    /\ SynthFrame
SynthExit ==
    /\ synth = "wait" /\ stopping
    /\ GoTo("exited")
    /\ SynthFrame

NextSegment ==
    /\ synth = "segment"
    /\ GoTo(IF Abandoned \/ unspoken[running] = 0 THEN "retire" ELSE "start")
    /\ SynthFrame

(* Pocket::start refuses a generation that was cancelled before it began.  *)
StartSegment ==
    /\ synth = "start"
    /\ GoTo(IF cancelThrough >= running THEN "unwind" ELSE "check")
    /\ streamCancelled' = FALSE
    /\ UNCHANGED <<jobVars, sessVars, lifeVars, cancelThrough, cancelCalls,
                   hearVars, serving>>

CheckChunk ==
    /\ synth = "check"
    /\ Stay(IF Abandoned THEN "reset" ELSE "next")
    /\ SynthFrame

(* tts.next returns a chunk, or nothing at the end of the segment, or      *)
(* reports the cancellation of its stream.  A segment without words is     *)
(* silent: it ends before any sample and never looks at the stream.        *)
NextChunk ==
    /\ synth = "next" /\ ~streamCancelled
    /\ \E n \in 1..MaxChunk :
         /\ samples + n <= SegmentLimit
         /\ synth' = "admit" /\ Locals(n, samples + n, FALSE, "none")
    /\ SynthFrame
EndSegment ==
    /\ synth = "next"
    /\ ~streamCancelled \/ samples = 0
    /\ synth' = "reset" /\ Locals(0, samples, TRUE, "none")
    /\ SynthFrame
NextCancelled ==
    /\ synth = "next" /\ streamCancelled
    /\ GoTo("unwind")
    /\ SynthFrame

(* The chunk is counted, then kept or dropped.  Both the first look and    *)
(* every wake-up of the bounded wait come here.                            *)
(* Mutant: only the session's count grows.                                 *)
KeepUncounted ==
    /\ audio' = [audio EXCEPT ![running] =
                   Append(@, Chunk(generated'[running] - chunk, chunk))]
    /\ queuedOutput' = queuedOutput + chunk
    /\ UNCHANGED queued
Keep ==
    /\ audio' = [audio EXCEPT ![running] =
                   Append(@, Chunk(generated'[running] - chunk, chunk))]
    /\ queued' = [queued EXCEPT ![running] = @ + chunk]
    /\ queuedOutput' = queuedOutput + chunk
(* Mutant: after the wait for room the fence is not looked at again.       *)
SettleUnfenced ==
    \/ /\ Abandoned
       /\ Stay("reset")
       /\ UNCHANGED <<audio, queued, queuedOutput>>
    \/ /\ ~Abandoned
       /\ queuedOutput + chunk <= OutputBound
       /\ Keep
       /\ Stay("check")
Settle ==
    \/ /\ Abandoned
       /\ Stay("reset")
       /\ UNCHANGED <<audio, queued, queuedOutput>>
    \/ /\ ~Abandoned /\ running \in fenced
       /\ Stay("check")
       /\ UNCHANGED <<audio, queued, queuedOutput>>
    \/ /\ ~Abandoned /\ running \notin fenced
       /\ queuedOutput + chunk <= OutputBound
       /\ Keep
       /\ Stay("check")
SettleFrame ==
    UNCHANGED <<known, delivered, rendered, unspoken, marks, current, running,
                lastGeneration, events, lifeVars, ttsVars, hearVars, serving>>
AdmitChunk ==
    /\ synth = "admit"
    /\ generated' = [generated EXCEPT ![running] = @ + chunk]
    /\ \/ /\ generated'[running] > ReplyLimit
          /\ Fail("failed")
          /\ UNCHANGED <<audio, queued, queuedOutput>>
       \/ /\ generated'[running] <= ReplyLimit
          /\ \/ Settle
             \/ /\ ~Abandoned /\ running \notin fenced
                /\ queuedOutput + chunk > OutputBound
                /\ synth' = "space" /\ Locals(chunk, samples, FALSE, "none")
                /\ UNCHANGED <<audio, queued, queuedOutput>>
    /\ SettleFrame
TakeSpace ==
    /\ synth = "space"
    /\ UNCHANGED generated
    /\ Settle
    /\ SettleFrame

ResetSegment ==
    /\ synth = "reset"
    /\ unspoken' = [unspoken EXCEPT ![running] = IF natural THEN @ - 1 ELSE @]
    /\ GoTo("segment")
    /\ UNCHANGED <<known, generated, delivered, rendered, queued, audio, marks,
                   sessVars, lifeVars, ttsVars, hearVars, serving>>

(* A Cancelled exception is expected only for a reply somebody cancelled.  *)
Unwind ==
    /\ synth = "unwind"
    /\ IF Abandoned THEN GoTo("retire") ELSE Fail("stray cancellation")
    /\ SynthFrame

(* The loop's retire_locked; a full event queue throws after END is queued. *)
Retire ==
    /\ synth = "retire"
    /\ retired' = retired \cup {running}
    /\ \/ /\ stopping
          /\ running' = None
          /\ GoTo("wait")
          /\ UNCHANGED <<audio, events>>
       \/ /\ ~stopping /\ Room(1)
          /\ running' = None
          /\ GoTo("wait")
          /\ audio' = [audio EXCEPT ![running] = RetiredAudio(running)]
          /\ events' = Append(events, RetiredEvent(running))
       \/ /\ ~stopping /\ ~Room(1)
          /\ Fail("failed")
          /\ audio' = [audio EXCEPT ![running] = RetiredAudio(running)]
          /\ UNCHANGED <<running, events>>
    /\ UNCHANGED <<known, generated, delivered, rendered, queued, unspoken,
                   fenced, cancelled, endTaken, receipts, halted, current,
                   lastGeneration, queuedOutput, closing, aborted, error,
                   ttsVars, hearVars, serving>>
    /\ IF synth' = "wait" THEN MaybeClose ELSE UNCHANGED stopping

(* launch's catch: whatever left the loop faults the session.              *)
SynthFault ==
    /\ synth = "failing"
    /\ Fault(why)
    /\ GoTo("exited")
    /\ FaultFrame
    /\ UNCHANGED hearVars

----------------------------------------------------------------------------
(* Failures of the synthesis side.                                         *)

(* A model call throws, yields a non-finite or oversized chunk, an empty   *)
(* segment or too long a segment.                                          *)
SynthesisFails ==
    /\ synth \in {"segment", "start", "next", "reset"}
    /\ Fail("failed")
    /\ SynthFrame
(* The bounded wait for room runs out.                                     *)
OutputDeadline ==
    /\ synth = "space" /\ ~Abandoned /\ running \notin fenced
    /\ queuedOutput + chunk > OutputBound
    /\ Fail("failed")
    /\ SynthFrame
(* model_watch_loop: a model call held its lease too long.                 *)
ModelDeadline ==
    /\ ~stopping
    /\ \/ synth \in {"segment", "start", "next", "reset", "unwind"}
       \/ input \in {"open", "cutoff"} \/ speakerJobs > 0
    /\ Fault("failed")
    /\ FaultFrame
    /\ UNCHANGED <<synthVars, hearVars>>

----------------------------------------------------------------------------
(* The stream of the running generation is open (Pocket::client).          *)
Streaming == synth \in {"check", "next", "admit", "space", "reset"}
(* Pocket::cancel, called after the mutex is released: it may arrive after *)
(* the generation retired and another one began.                           *)
(* Mutant: a cancel call stops whatever stream is open.                    *)
DeliverCancelAny(g) ==
    /\ g \in cancelCalls
    /\ cancelCalls' = cancelCalls \ {g}
    /\ cancelThrough' = Max2(cancelThrough, g)
    /\ streamCancelled' = (streamCancelled \/ Streaming)
    /\ UNCHANGED <<jobVars, sessVars, lifeVars, synthVars, hearVars, serving>>
DeliverCancel(g) ==
    /\ g \in cancelCalls
    /\ cancelCalls' = cancelCalls \ {g}
    /\ cancelThrough' = Max2(cancelThrough, g)
    /\ streamCancelled' = (streamCancelled \/ (g = running /\ Streaming))
    /\ UNCHANGED <<jobVars, sessVars, lifeVars, synthVars, hearVars, serving>>

----------------------------------------------------------------------------
(* The hearing threads.                                                    *)
HearingOpen == input \in {"open", "cutoff"}

(* control_loop's consume: speech is heard and the interruptible           *)
(* generations are read; they are interrupted one by one after the mutex   *)
(* has been released, whatever became of them in between.                  *)
HearSpeech ==
    /\ HearingOpen /\ control = "listening" /\ barge = {}
    /\ barge' = {g \in known : \/ g \notin receipts /\ g \notin fenced
                               \/ g \notin retired /\ g \notin cancelled}
    /\ UNCHANGED <<jobVars, sessVars, lifeVars, synthVars, ttsVars, input,
                   control, speakerJobs, serving>>
BargeIn ==
    /\ \E g \in Generations :
         /\ Least(g, barge)
         /\ \/ /\ g \notin known
               /\ barge' = barge \ {g}
               /\ UNCHANGED <<fenced, queuedOutput, queued, audio, events,
                              cancelled, cancelCalls, control>>
            \/ /\ g \in known
               /\ InterruptLocked(g, TRUE)
               /\ barge' = barge \ {g}
               /\ UNCHANGED control
            \/ /\ g \in known
               /\ InterruptOverflow(g)
               /\ barge' = {} /\ control' = "failing"
    /\ InterruptFrame
    /\ UNCHANGED serving
ControlFault ==
    /\ control = "failing"
    /\ Fault("failed")
    /\ control' = "done"
    /\ FaultFrame
    /\ UNCHANGED <<synthVars, input, barge, speakerJobs>>

(* recognition_loop: turn and transcript events; a final may leave an      *)
(* utterance for the speaker thread.                                       *)
Hear(utterances) ==
    /\ HearingOpen /\ ~stopping /\ Room(1)
    /\ speakerJobs + utterances <= SpeakerCapacity
    /\ events' = Append(events, Event("heard", None))
    /\ speakerJobs' = speakerJobs + utterances
    /\ UNCHANGED <<jobVars, current, running, lastGeneration, queuedOutput,
                   lifeVars, synthVars, ttsVars, input, barge, control, serving>>
(* speaker_loop: speaker_busy is speakerJobs # 0.                          *)
SpeakerDone ==
    /\ speakerJobs > 0
    /\ \/ /\ ~stopping /\ Room(1)
          /\ events' = Append(events, Event("heard", None))
          /\ speakerJobs' = speakerJobs - 1
       \/ /\ stopping
          /\ speakerJobs' = 0
          /\ UNCHANGED events
    /\ UNCHANGED <<jobVars, current, running, lastGeneration, queuedOutput,
                   closing, aborted, error, synthVars, ttsVars, input, barge,
                   control, serving>>
    /\ MaybeClose
(* recognition_loop after the last block: input_done, input_finished.      *)
(* Mutant: the end of the input does not look whether the session may close. *)
InputDoneNoClose ==
    /\ input = "cutoff" /\ barge = {} /\ control = "listening" /\ Room(1)
    /\ input' = "done" /\ control' = "done"
    /\ events' = Append(events, Event("heard", None))
    /\ UNCHANGED <<jobVars, current, running, lastGeneration, queuedOutput,
                   lifeVars, synthVars, ttsVars, barge, speakerJobs, serving>>
InputDone ==
    /\ input = "cutoff" /\ barge = {} /\ control = "listening" /\ Room(1)
    /\ input' = "done" /\ control' = "done"
    /\ events' = Append(events, Event("heard", None))
    /\ UNCHANGED <<jobVars, current, running, lastGeneration, queuedOutput,
                   closing, aborted, error, synthVars, ttsVars, barge,
                   speakerJobs, serving>>
    /\ MaybeClose
(* Any of their exceptions, a full event queue included.                   *)
HearingFault ==
    /\ HearingOpen \/ speakerJobs > 0
    /\ Fault("failed")
    /\ FaultFrame
    /\ UNCHANGED <<synthVars, hearVars>>

(* wait_closed: every thread has returned.                                 *)
Closed ==
    /\ stopping /\ synth = "exited"
    /\ barge = {} /\ control # "failing" /\ speakerJobs = 0
    /\ UNCHANGED vars

----------------------------------------------------------------------------
SynthStep ==
    \/ PickJob \/ SynthExit \/ NextSegment \/ StartSegment \/ CheckChunk
    \/ NextChunk \/ EndSegment \/ NextCancelled \/ AdmitChunk \/ TakeSpace
    \/ ResetSegment \/ Unwind \/ Retire \/ SynthFault
HostStep ==
    \/ \E g \in Generations :
         \/ \E parts \in 1..MaxSegments : Synthesize(g, parts)
         \/ SynthesizeOverflow(g)
         \/ \E cancel \in BOOLEAN : HostInterrupt(g, cancel)
         \/ HostInterruptOverflow(g)
         \/ \E position \in 0..delivered[g], terminal, stop \in BOOLEAN :
               Playback(g, position, terminal, stop)
         \/ Release(g)
    \/ TakeAudio \/ TakeEvent \/ FinishInput \/ CloseDrain \/ CloseAbort
    \/ Closed
HearStep ==
    \/ HearSpeech \/ BargeIn \/ ControlFault
    \/ \E utterances \in {0, 1} : Hear(utterances)
    \/ SpeakerDone \/ InputDone
CancelStep == \E g \in Generations : DeliverCancel(g)

(* The steps of a session whose models answer and whose host takes audio   *)
(* in time, and the failures the code handles.                             *)
Steady == SynthStep \/ HostStep \/ HearStep \/ CancelStep
Failure == SynthesisFails \/ OutputDeadline \/ ModelDeadline \/ HearingFault
Next == Steady \/ Failure

Spec == Init /\ [][Next]_vars

(* Fairness.  The threads run; the worker's serving loop keeps taking      *)
(* audio and events and passes on the receipt the host owes for every      *)
(* generation that was fenced or whose END was taken.  Only finitely many  *)
(* blocks follow the input cutoff, so the events they cause cannot keep    *)
(* the queue too full for the last ones for ever: those steps are strong.  *)
TerminalReceipt(g) ==
    \E position \in 0..delivered[g], stop \in BOOLEAN :
        g \notin receipts /\ Playback(g, position, TRUE, stop)
Fairness ==
    /\ WF_vars(SynthStep)
    /\ WF_vars(CancelStep)
    /\ WF_vars(BargeIn) /\ WF_vars(ControlFault)
    /\ SF_vars(SpeakerDone) /\ SF_vars(InputDone)
    /\ WF_vars(TakeAudio) /\ WF_vars(TakeEvent)
    /\ \A g \in Generations : WF_vars(TerminalReceipt(g))
    /\ WF_vars(~serving /\ CloseAbort)
SteadySafe == Init /\ [][Steady]_vars
SteadySpec == Init /\ [][Steady]_vars /\ Fairness

----------------------------------------------------------------------------
(* Properties.                                                             *)

ChunkType == [start : Nat, n : Nat, end : BOOLEAN]
EventType == [kind : {"start", "end", "cancelled", "interruption", "heard"},
              gen : Generations \cup {None}]
Places == {"wait", "segment", "start", "check", "next", "admit", "space",
           "reset", "unwind", "retire", "failing", "exited"}
(* The messages are not told apart, except the one that must never come.   *)
Reasons == {"none", "failed", "stray cancellation"}

(* The types of the fields of Job and Impl and of the threads' locals.     *)
JobTypes ==
    /\ known \subseteq Generations
    /\ generated \in [Generations -> Nat]
    /\ delivered \in [Generations -> Nat]
    /\ rendered \in [Generations -> Nat]
    /\ queued \in [Generations -> Nat]
    /\ audio \in [Generations -> Seq(ChunkType)]
    /\ unspoken \in [Generations -> Nat]
    /\ fenced \subseteq Generations /\ cancelled \subseteq Generations
    /\ retired \subseteq Generations /\ endTaken \subseteq Generations
    /\ receipts \subseteq Generations /\ halted \subseteq Generations
SessionTypes ==
    /\ current \in Generations \cup {None}
    /\ running \in Generations \cup {None}
    /\ lastGeneration \in Nat /\ queuedOutput \in Int
    /\ events \in Seq(EventType)
    /\ synth \in Places /\ chunk \in Nat /\ samples \in Nat
    /\ error \in Reasons /\ why \in Reasons
    /\ cancelThrough \in Nat /\ cancelCalls \subseteq Generations
    /\ input \in {"none", "open", "cutoff", "done"}
    /\ control \in {"listening", "failing", "done"}
    /\ barge \subseteq Generations /\ speakerJobs \in Nat
FlagTypes ==
    /\ stopping \in BOOLEAN /\ closing \in BOOLEAN /\ aborted \in BOOLEAN
    /\ natural \in BOOLEAN /\ streamCancelled \in BOOLEAN
    /\ serving \in BOOLEAN
TypeOK == JobTypes /\ SessionTypes /\ FlagTypes

(* Where the queue of a generation ends, in samples of its clock.          *)
QueueEnd(g) ==
    IF audio[g] = <<>> THEN delivered[g]
    ELSE LET last == audio[g][Len(audio[g])] IN last.start + last.n

(* The chunk the synthesis thread holds that is counted but not queued;    *)
(* one that fails the thread is lost.                                      *)
InHand(g) == IF synth = "space" /\ running = g THEN chunk ELSE 0
Losing(g) == synth = "failing" /\ running = g

(* What the host is given of a generation is gapless: its queue starts at  *)
(* the sample after the last one delivered, each chunk at the end of the   *)
(* one before, queued counts exactly the samples between the two ends, and *)
(* as long as the reply is not fenced nothing generated is missing.        *)
Gapless(g) ==
    \A i \in 1..Len(audio[g]) :
        audio[g][i].start = IF i = 1 THEN delivered[g]
                            ELSE audio[g][i-1].start + audio[g][i-1].n
NothingMissing(g) ==
    g \notin fenced /\ ~Losing(g) => generated[g] = QueueEnd(g) + InHand(g)
AudioClock ==
    \A g \in Generations :
        /\ Gapless(g)
        /\ queued[g] = QueueEnd(g) - delivered[g]
        /\ NothingMissing(g)

(* END is owed exactly once: it stands at the end of the queue from the    *)
(* moment the generation retires until the host takes it, through every    *)
(* fence, and nothing follows it.                                          *)
EndOwed ==
    \A g \in Generations :
        /\ \A i \in 1..Len(audio[g]) : audio[g][i].end <=>
              i = Len(audio[g]) /\ g \in retired
        /\ g \in endTaken => g \in retired /\ audio[g] = <<>>
        /\ g \in retired /\ g \notin endTaken /\ ~stopping => audio[g] # <<>>

(* A fence is final: no sample of the generation is given out after it,    *)
(* whatever the synthesis thread still had in hand.                        *)
FenceIsFinal ==
    [][\A g \in fenced :
          g \in fenced' /\ delivered'[g] = delivered[g]
          /\ queued[g] = 0 /\ queued'[g] = 0]_vars

(* The wait for output space does not look at cancelled: it need not,      *)
(* because a cancelled generation is always fenced.                        *)
CancelledIsFenced == cancelled \subseteq fenced

(* A receipt that says "played out" is the truth: every segment was        *)
(* synthesized, every sample delivered and rendered.  One that says        *)
(* "stopped" belongs to a fenced generation.                               *)
ReceiptIsHonest ==
    /\ halted \subseteq receipts
    /\ \A g \in receipts :
          IF g \in halted THEN g \in fenced
          ELSE /\ g \in endTaken /\ unspoken[g] = 0
               /\ rendered[g] = generated[g] /\ delivered[g] = generated[g]

(* The session never misses the moment to close: no path that satisfies    *)
(* the last condition forgets to call maybe_close_locked.                  *)
NoMissedClose == CloseReady => stopping

(* A session that stops without an abort, without an error and without a   *)
(* thread that is about to report one has settled every generation, its    *)
(* input and its speaker work, and stays settled.                          *)
DrainIsComplete ==
    stopping /\ ~aborted /\ error = "none"
    /\ synth # "failing" /\ control # "failing" =>
        /\ closing /\ input \in {"none", "done"} /\ speakerJobs = 0
        /\ queuedOutput = 0 /\ running = None
        /\ known \subseteq retired \cap endTaken \cap receipts
        /\ \A g \in known : audio[g] = <<>>

(* A released generation is gone: no event names it, no thread works on    *)
(* it, no sample of it is queued.  A barge-in that still has it on its     *)
(* list or a cancel call that is still on its way must not bring it back.  *)
ReleasedIsGone ==
    /\ \A i \in 1..Len(events) : events[i].gen \in known \cup {None}
    /\ running \in known \cup {None} \/ synth \in {"failing", "exited"}
    /\ \A g \in Generations \ known : audio[g] = <<>> /\ queued[g] = 0

(* The count shared by all replies is the sum of what each has queued, and *)
(* within its bound: sum[g] is what the generations up to g have queued.   *)
OutputAccounting ==
    /\ queuedOutput <= OutputBound
    /\ \E sum \in [0..lastGeneration -> 0..queuedOutput] :
          /\ sum[0] = 0 /\ sum[lastGeneration] = queuedOutput
          /\ \A g \in 1..lastGeneration :
                sum[g] = sum[g - 1] + (IF g \in known THEN queued[g] ELSE 0)

(* A cancel call that arrives late never stops the reply that came after.  *)
NoStrayCancellation == error # "stray cancellation" /\ why # "stray cancellation"

(* Under fair scheduling and a host that answers, a drain ends.            *)
DrainEnds == closing ~> stopping
(* A cancelled generation retires (with EndOwed: its END becomes due)      *)
(* unless the session stops first.                                         *)
CancelEnds ==
    \A g \in Generations : g \in cancelled ~> g \in retired \/ stopping
(* Once the session stops, its synthesis thread returns: wait_closed ends. *)
StopEnds == stopping ~> synth = "exited"

----------------------------------------------------------------------------
(* The inductive invariant behind the safety properties above: what holds  *)
(* between a generation's clocks and marks, the queue and the threads.     *)

(* Chunks follow one another; this is Gapless without its recursion.       *)
Ordered(g) ==
    \A i, j \in 1..Len(audio[g]) :
        i < j => audio[g][i].start + audio[g][i].n <= audio[g][j].start
Clocks ==
    \A g \in Generations :
        /\ Ordered(g)
        /\ delivered[g] + queued[g] <= generated[g]
        /\ rendered[g] <= delivered[g]
        /\ \A i \in 1..Len(audio[g]) : audio[g][i].end => audio[g][i].n = 0
(* A fenced generation has nothing but its END to give.                    *)
FencedIsSilent ==
    \A g \in fenced : queued[g] = 0 /\ \A i \in 1..Len(audio[g]) : audio[g][i].end
(* Generations beyond the last one are untouched.                          *)
Untouched(g) ==
    /\ generated[g] = 0 /\ delivered[g] = 0
    /\ g \notin fenced \cup cancelled \cup retired \cup endTaken \cup receipts
Fresh ==
    /\ current <= lastGeneration
    /\ current # None => current \in known \cup retired
    /\ \A g \in Generations :
          g > lastGeneration => g \notin known /\ Untouched(g)
(* Generations outside the map were never asked for, or are settled.       *)
Gone ==
    \A g \in Generations \ known :
        audio[g] = <<>> /\ queued[g] = 0 /\ (Untouched(g) \/ Resolved(g))
(* Where the synthesis thread is with the reply it runs.                   *)
Busy == {"segment", "start", "check", "next", "admit", "space", "reset",
         "unwind", "retire"}
ThreadOwnsReply ==
    /\ synth = "wait" => running = None
    /\ synth \in Busy => running \in known \ retired
    /\ synth \in {"start", "check", "next", "admit", "space", "reset"} =>
          unspoken[running] > 0
    /\ synth = "retire" => Abandoned \/ unspoken[running] = 0
(* A reply that retired by itself said everything.                         *)
RetiredIsWhole ==
    \A g \in retired : g \in endTaken \/ ~stopping =>
        g \in cancelled \/ unspoken[g] = 0
(* After the stop nothing is left to give and nothing left to fence.       *)
StoppedIsEmpty ==
    stopping => /\ \A g \in Generations : audio[g] = <<>>
                /\ known \subseteq fenced \cup receipts
IInv ==
    /\ TypeOK /\ AudioClock /\ Clocks /\ EndOwed /\ CancelledIsFenced
    /\ FencedIsSilent /\ Fresh /\ Gone /\ ThreadOwnsReply /\ RetiredIsWhole
    /\ ReceiptIsHonest /\ StoppedIsEmpty

----------------------------------------------------------------------------
(* The session keeps the promise of module Custody: the threads, queues,   *)
(* events and cancel calls implement it.                                   *)
Stage(g) ==
    CASE g \in receipts /\ g \notin known -> "released"
      [] g \in receipts /\ g \in known    -> "settled"
      [] g \in known \ receipts /\ g \in fenced    -> "cut"
      [] g \in known \ receipts /\ g \notin fenced -> "open"
      [] OTHER                            -> "new"
Promise == INSTANCE Custody WITH
    Replies <- Generations,
    stage <- [g \in Generations |-> Stage(g)],
    given <- delivered, heard <- rendered, closed <- stopping
KeepsCustody == Promise!Spec
=============================================================================
