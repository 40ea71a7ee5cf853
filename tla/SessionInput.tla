---------------------------- MODULE SessionInput ----------------------------
(***************************************************************************)
(* The input direction of the native session engine, by its sample clock   *)
(* (runtime/native/session/session.cpp): from the packet the host feeds to *)
(* the sample the recognizer has heard, the cutoff the host admits, the    *)
(* deadline of the tail that is missing when it does, and the close that   *)
(* waits for the last sample.                                              *)
(*                                                                         *)
(* The HOST (the worker's serving thread) feeds, finishes and closes.  The *)
(* CONTROL thread (control_loop) cuts packets into blocks and scores them; *)
(* the RECOGNITION thread (recognition_loop) hears them.  Both release the *)
(* mutex around their model calls.  What is heard of a block, turns and    *)
(* pauses, is module Turns; what a block interrupts is SessionOutput.      *)
(*                                                                         *)
(* Packets and blocks carry the place of their first sample, which the     *)
(* code does not store.  Time is counted in ticks of the tail's deadline,  *)
(* and only while that deadline runs.                                      *)
(***************************************************************************)
EXTENDS Integers, Sequences

CONSTANTS
    Block,        \* samples of a block (512)
    InputBound,   \* samples accepted and not yet recognized (32768)
    MaxPackets,   \* packets waiting for the control thread (64)
    PacketSizes,  \* the lengths of the packets the host feeds
    InputLimit,   \* the capture limit, in samples
    TailTime      \* ticks the missing tail may take (input_tail_ms)

ASSUME BlockAssumption == Block \in Nat \ {0}
ASSUME BoundsAssumption == InputBound \in Nat /\ MaxPackets \in Nat
ASSUME PacketsAssumption == PacketSizes \subseteq 1..InputBound
ASSUME LimitsAssumption == InputLimit \in Nat /\ TailTime \in Nat \ {0}

VARIABLES
    received, controlled, recognized,   \* the sample clocks
    input, blocks,      \* Impl::input and Impl::blocks
    cutoff,             \* Impl::cutoff, None until cutoff_set
    finished, controlDone, inputDone,
    elapsed,            \* ticks of the tail's deadline that have passed
    held,               \* backpressured_tail_count
    offered,            \* the packet the host was refused since the cutoff
    control, tail,      \* the control thread and its uncut samples
    recognition, inHand,  \* the recognition thread and its block
    settled,            \* replies and speaker work let the session close
    closing, aborted, stopping, error

clocks  == <<received, controlled, recognized>>
queues  == <<input, blocks>>
cutVars == <<cutoff, finished>>
tailVars == <<elapsed, held, offered>>
doneVars == <<controlDone, inputDone>>
threads == <<control, tail, recognition, inHand>>
life    == <<settled, closing, aborted, stopping, error>>
vars == <<clocks, queues, cutVars, tailVars, doneVars, threads, life>>

None == -1
Span(start, n) == [start |-> start, n |-> n]
Nothing == Span(0, 0)

Init ==
    /\ received = 0 /\ controlled = 0 /\ recognized = 0
    /\ input = <<>> /\ blocks = <<>>
    /\ cutoff = None /\ finished = FALSE
    /\ elapsed = 0 /\ held = 0 /\ offered = 0
    /\ controlDone = FALSE /\ inputDone = FALSE
    /\ control = "idle" /\ tail = 0
    /\ recognition = "take" /\ inHand = Nothing
    /\ settled \in BOOLEAN
    /\ closing = FALSE /\ aborted = FALSE /\ stopping = FALSE
    /\ error = "none"

----------------------------------------------------------------------------
(* input_capacity_locked                                                   *)
Capacity(n) == received - recognized + n <= InputBound /\ Len(input) < MaxPackets
(* Mutant: the clock resumes with the next look at it, room or not.        *)
ResumedEarly == 0
(* resume_tail_clock_locked: the refused packet that holds the clock fits. *)
Resumed == IF held # 0 /\ Capacity(held) THEN 0 ELSE held
Expired == elapsed >= TailTime

(* maybe_close_locked: settled stands for its other conditions.            *)
(* Mutant: the close does not wait for the input.                          *)
CloseReadyEarly == closing /\ settled
CloseReady == closing /\ inputDone /\ settled
MaybeClose == stopping' = (stopping \/ CloseReady')

Fault(reason) ==
    /\ error' = IF error = "none" THEN reason ELSE error
    /\ stopping' = TRUE

----------------------------------------------------------------------------
(* The host.                                                               *)
HostFrame ==
    UNCHANGED <<controlled, recognized, blocks, doneVars, threads, settled,
                aborted, error>>

(* Session::feed.  A packet that does not fit is refused and, after the    *)
(* cutoff, holds the tail's clock; the worker offers it again until it is  *)
(* taken.  Reaching the capture limit is a cutoff of its own.  A call that *)
(* throws (a tail that comes after its deadline) changes nothing.          *)
MayFeed(n) ==
    /\ ~finished /\ ~stopping /\ (closing => cutoff # None)
    /\ n <= InputLimit - received
    /\ cutoff # None => n <= cutoff - received
    /\ cutoff # None /\ Resumed = 0 => ~Expired
    /\ offered # 0 => n = offered
FeedTaken(n) ==
    /\ MayFeed(n) /\ Capacity(n)
    /\ input' = Append(input, Span(received, n))
    /\ received' = received + n
    /\ cutoff' = IF cutoff = None /\ received' = InputLimit THEN InputLimit ELSE cutoff
    /\ finished' = (cutoff' # None /\ received' = cutoff')
    /\ held' = 0 /\ offered' = 0
    /\ UNCHANGED <<elapsed, closing, stopping>>
    /\ HostFrame
FeedRefused(n) ==
    /\ MayFeed(n) /\ ~Capacity(n)
    /\ held' = IF cutoff # None /\ Resumed = 0 THEN n ELSE Resumed
    /\ offered' = IF cutoff # None THEN n ELSE 0
    /\ UNCHANGED <<received, input, cutVars, elapsed, closing, stopping>>
    /\ HostFrame

(* Session::finish_input.  Only the first call starts the deadline.        *)
FinishInput(end) ==
    /\ ~stopping /\ end >= received /\ end <= InputLimit
    /\ cutoff \in {None, end}
    /\ cutoff' = end
    /\ finished' = (received = end)
    /\ elapsed' = IF cutoff = None THEN 0 ELSE elapsed
    /\ UNCHANGED <<received, input, held, offered, closing, stopping>>
    /\ HostFrame

CloseDrain ==
    /\ ~stopping /\ cutoff # None
    /\ closing' = TRUE
    /\ UNCHANGED <<received, input, cutVars, tailVars>>
    /\ HostFrame
    /\ MaybeClose
CloseAbort ==
    /\ ~stopping
    /\ closing' = TRUE /\ aborted' = TRUE /\ stopping' = TRUE
    /\ UNCHANGED <<clocks, queues, cutVars, tailVars, doneVars, threads, settled,
                   error>>

(* The rest of the session: its last reply or observation is settled, or   *)
(* one of its threads faults.                                              *)
OthersSettle ==
    /\ ~settled /\ settled' = TRUE
    /\ UNCHANGED <<clocks, queues, cutVars, tailVars, doneVars, threads, closing,
                   aborted, error>>
    /\ MaybeClose
OthersFault ==
    /\ ~stopping /\ Fault("other")
    /\ UNCHANGED <<clocks, queues, cutVars, tailVars, doneVars, threads, settled,
                   closing, aborted>>

(* A tick of the tail's deadline.                                          *)
Tick ==
    /\ cutoff # None /\ ~finished /\ ~stopping /\ held = 0 /\ ~Expired
    /\ elapsed' = elapsed + 1
    /\ UNCHANGED <<clocks, queues, cutVars, held, offered, doneVars, threads, life>>

----------------------------------------------------------------------------
(* The control thread: idle (about to take the mutex at the head of its    *)
(* loop, or waiting there), scoring (it has a whole block), rest (the last *)
(* block, not whole), done, exited.                                        *)
ControlFrame ==
    UNCHANGED <<received, recognized, cutVars, elapsed, offered, inputDone,
                recognition, inHand, settled, closing, aborted>>

(* Mutant: only the feed resumes the clock.                                *)
ControlResumeNever ==
    /\ FALSE
    /\ UNCHANGED vars
(* A wake-up at which only the clock resumes.                              *)
ControlResume ==
    /\ control = "idle" /\ ~stopping /\ held # Resumed
    /\ held' = Resumed
    /\ UNCHANGED <<controlled, queues, controlDone, control, tail, stopping, error>>
    /\ ControlFrame
TailMissing ==
    /\ control = "idle" /\ ~stopping
    /\ cutoff # None /\ ~finished /\ held = 0 /\ Expired
    /\ control' = "exited"
    /\ Fault("tail")
    /\ UNCHANGED <<controlled, queues, held, controlDone, tail>>
    /\ ControlFrame
TakePacket ==
    /\ control = "idle" /\ ~stopping /\ input # <<>>
    /\ held' = Resumed
    /\ cutoff # None /\ ~finished /\ held' = 0 => ~Expired
    /\ input' = Tail(input)
    /\ tail' = tail + Head(input).n
    /\ control' = IF tail' >= Block THEN "scoring" ELSE "idle"
    /\ UNCHANGED <<controlled, blocks, controlDone, stopping, error>>
    /\ ControlFrame
(* What is left in tail behind a block of n.                               *)
(* Mutant: the rest is dropped with the block.                             *)
UncutLost(n) == 0
Uncut(n) == tail - n
(* consume: the score, the barge-in, and the block handed on.              *)
Score ==
    /\ control \in {"scoring", "rest"} /\ ~stopping
    /\ LET n == IF control = "rest" THEN tail ELSE Block IN
       /\ blocks' = Append(blocks, Span(controlled, n))
       /\ controlled' = controlled + n
       /\ tail' = Uncut(n)
    /\ controlDone' = (control = "rest")
    /\ control' = IF control = "rest" THEN "done"
                  ELSE IF tail' >= Block THEN "scoring" ELSE "idle"
    /\ UNCHANGED <<input, held, stopping, error>>
    /\ ControlFrame
ScoreFails ==
    /\ control \in {"scoring", "rest"}
    /\ control' = "exited"
    /\ Fault("vad")
    /\ UNCHANGED <<controlled, queues, held, controlDone, tail>>
    /\ ControlFrame
(* Nothing more will come: the samples short of a block are the last one.  *)
InputBreak ==
    /\ control = "idle" /\ ~stopping /\ finished /\ input = <<>>
    /\ held' = Resumed
    /\ control' = IF tail > 0 THEN "rest" ELSE "done"
    /\ controlDone' = (tail = 0)
    /\ UNCHANGED <<controlled, queues, tail, stopping, error>>
    /\ ControlFrame
(* A stopped session: consume drops what it has.  The last block dropped   *)
(* that way still ends with control_done.                                  *)
ControlExit ==
    /\ stopping /\ control \in {"idle", "scoring", "rest"}
    /\ control' = "exited"
    /\ controlDone' = (control = "rest")
    /\ UNCHANGED <<controlled, queues, held, tail, stopping, error>>
    /\ ControlFrame

----------------------------------------------------------------------------
(* The recognition thread: take (about to take the mutex), hearing (a      *)
(* block in hand), ending (after the last block), exited.                  *)
RecognitionFrame ==
    UNCHANGED <<received, controlled, input, cutVars, tailVars, controlDone,
                control, tail, settled, closing, aborted>>
TakeBlock ==
    /\ recognition = "take" /\ ~stopping /\ blocks # <<>>
    /\ inHand' = Head(blocks)
    /\ blocks' = Tail(blocks)
    /\ recognition' = "hearing"
    /\ UNCHANGED <<recognized, inputDone, stopping, error>>
    /\ RecognitionFrame
HearBlock ==
    /\ recognition = "hearing"
    /\ recognized' = recognized + inHand.n
    /\ inHand' = Nothing
    /\ recognition' = "take"
    /\ UNCHANGED <<blocks, inputDone, stopping, error>>
    /\ RecognitionFrame
(* Mutant: the end does not wait for the control thread.                   *)
NoBlockYet == blocks = <<>> /\ finished
NoMoreBlocks == blocks = <<>> /\ controlDone
LastBlock ==
    /\ recognition = "take" /\ ~stopping /\ NoMoreBlocks
    /\ recognition' = "ending"
    /\ UNCHANGED <<recognized, blocks, inHand, inputDone, stopping, error>>
    /\ RecognitionFrame
InputDone ==
    /\ recognition = "ending"
    /\ inputDone' = TRUE
    /\ recognition' = "exited"
    /\ UNCHANGED <<recognized, blocks, inHand, error>>
    /\ RecognitionFrame
    /\ MaybeClose
(* A model call fails, the gate's query does not retire, or the event      *)
(* queue is full, which at the end comes after input_done is set.          *)
RecognitionFails ==
    /\ recognition \in {"hearing", "ending"}
    /\ Fault("recognition")
    /\ inputDone' \in {FALSE, recognition = "ending"}
    /\ recognition' = "exited"
    /\ UNCHANGED <<recognized, blocks, inHand>>
    /\ RecognitionFrame
RecognitionExit ==
    /\ recognition = "take" /\ stopping
    /\ recognition' = "exited"
    /\ UNCHANGED <<recognized, blocks, inHand, inputDone, stopping, error>>
    /\ RecognitionFrame

----------------------------------------------------------------------------
Feed == \E n \in PacketSizes : FeedTaken(n) \/ FeedRefused(n)
HostStep ==
    \/ Feed \/ (\E end \in 0..InputLimit : FinishInput(end))
    \/ CloseDrain \/ CloseAbort
ControlStep ==
    \/ ControlResume \/ TailMissing \/ TakePacket \/ Score \/ ScoreFails
    \/ InputBreak \/ ControlExit
RecognitionStep ==
    \/ TakeBlock \/ HearBlock \/ LastBlock \/ InputDone \/ RecognitionFails
    \/ RecognitionExit
Next ==
    HostStep \/ ControlStep \/ RecognitionStep \/ Tick \/ OthersSettle \/ OthersFault

(* The two threads run, their model calls return (the model watch of       *)
(* SessionOutput gives up on one that does not), and time passes.  The     *)
(* host owes nothing.                                                      *)
Spec ==
    /\ Init /\ [][Next]_vars
    /\ WF_vars(ControlStep) /\ WF_vars(RecognitionStep) /\ WF_vars(Tick)

----------------------------------------------------------------------------
(* Properties.                                                             *)
Spans == [start : 0..InputLimit, n : 0..InputBound + Block]

(* Every variable keeps its type and every queue its bound; the clocks     *)
(* never pass one another.                                                 *)
TypeOK ==
    /\ received \in 0..InputLimit
    /\ controlled \in 0..received /\ recognized \in 0..controlled
    /\ received - recognized <= InputBound
    /\ input \in Seq(Spans) /\ Len(input) <= MaxPackets
    /\ blocks \in Seq(Spans)
    /\ cutoff \in {None} \cup received..InputLimit
    /\ elapsed \in 0..TailTime
    /\ held \in {0} \cup PacketSizes /\ offered \in {0} \cup PacketSizes
    /\ control \in {"idle", "scoring", "rest", "done", "exited"}
    /\ tail \in 0..InputBound /\ inHand \in Spans
    /\ recognition \in {"take", "hearing", "ending", "exited"}
    /\ finished \in BOOLEAN /\ controlDone \in BOOLEAN /\ inputDone \in BOOLEAN
    /\ settled \in BOOLEAN /\ closing \in BOOLEAN /\ aborted \in BOOLEAN
    /\ stopping \in BOOLEAN /\ error \in {"none", "tail", "vad", "recognition", "other"}

(* The spans of q follow one another from sample a to sample b.            *)
Reaches(q, a, b) ==
    /\ q = <<>> => a = b
    /\ q # <<>> => q[1].start = a /\ q[Len(q)].start + q[Len(q)].n = b
    /\ \A i \in 1..Len(q) - 1 : q[i].start + q[i].n = q[i+1].start
(* Every sample the session accepted is in one place, in its order: in the *)
(* queue, uncut at the control thread, in a block, in the hand of the      *)
(* recognition thread, or heard.                                           *)
NothingLost ==
    /\ control # "exited" => Reaches(input, controlled + tail, received)
    /\ Reaches(blocks, recognized + inHand.n, controlled)
    /\ recognition = "hearing" => inHand.start = recognized
    /\ control = "done" => tail = 0 /\ input = <<>>

(* A session that closes by itself, no abort and no error, has heard every *)
(* sample up to the cutoff the host admitted; so has one that announced    *)
(* the end of its input.                                                   *)
HeardToTheEnd ==
    /\ stopping /\ ~aborted /\ error = "none" => inputDone
    /\ inputDone => recognized = received /\ received = cutoff

(* The deadline of the tail counts only time in which the session could    *)
(* have taken the packet the host has ready, and nothing renews it: not a  *)
(* repeated offer, not another finish, not a pause of the clock.           *)
Blocked == offered # 0 /\ ~Capacity(offered)
TailClock ==
    /\ elapsed' > elapsed => ~Blocked
    /\ cutoff # None => elapsed' >= elapsed
TailBudget == [][TailClock]_vars

(* Once the host has admitted a cutoff the input ends, or the session      *)
(* stops: a host that never sends the tail, or never offers a refused      *)
(* packet again, does not hold it.                                         *)
InputEnds == (cutoff # None) ~> (inputDone \/ stopping)
=============================================================================
