------------------------------- MODULE Turns -------------------------------
(***************************************************************************)
(* Turns and pauses: what the session hears of the blocks it is given      *)
(* (runtime/native/session/session.cpp: recognition_loop, endpoint_loop,   *)
(* speaker_loop; runtime/native_endpoint/pause_gate.h).                    *)
(*                                                                         *)
(* The RECOGNITION thread takes scored blocks one by one.  Speech opens a  *)
(* turn; in a pause the gate asks the ENDPOINT thread whether the speaker  *)
(* holds the floor, and the blocks that follow the question are kept back  *)
(* until the pause is resolved: they belong to this turn or to the next.   *)
(* A turn that ends publishes its final texts, and the SPEAKER thread owes *)
(* each an observation of who spoke.                                       *)
(*                                                                         *)
(* A block is its number; silence is counted in blocks.  Where blocks come *)
(* from is module SessionInput: here any block may be voiced, and the end  *)
(* of the input (control_done, no block left) may come at any time.        *)
(***************************************************************************)
EXTENDS Integers, Sequences, FiniteSets

CONSTANTS
    MaxBlocks,       \* bound on the blocks of the session
    Trigger,         \* blocks of silence at which the gate asks
    Commit,          \* blocks of silence at which it wants the verdict
    Maximum,         \* blocks of silence that end a turn by themselves
    PrerollLimit,    \* blocks kept from before the speech (32)
    QueryBound,      \* questions waiting for the endpoint thread (4)
    SpeakerCapacity, \* finals waiting for the speaker thread (8)
    MaxSegments,     \* bound on the finals of a turn (128)
    Recognizers      \* the kinds of recognizer: [separated, continuous]

ASSUME SilenceAssumption ==
    /\ {Trigger, Commit, Maximum} \subseteq Nat \ {0}
    /\ Trigger < Commit /\ Commit < Maximum
ASSUME BoundsAssumption ==
    /\ MaxBlocks \in Nat /\ PrerollLimit \in Nat \ {0} /\ QueryBound \in Nat \ {0}
    /\ SpeakerCapacity \in Nat /\ MaxSegments \in Nat \ {0}
ASSUME RecognizersAssumption ==
    Recognizers \subseteq [separated : BOOLEAN, continuous : BOOLEAN]

VARIABLES
    kind,           \* the recognizer of this session
    taken, ended,   \* blocks taken; no block will follow
    place, voiced, decision,             \* the recognition thread
    active, from, silence, boundary,     \* the turn; from: its first block
    preroll, provisional,
    pending, retired, checked,              \* the gate; a query is its number
    asked, since, verdict,  \* queries asked; when the pending one was; futures
    queries, scoring, endpoint,          \* the endpoint thread
    speakerJobs, identifying, speakerBusy, speaker,
    heard, speech, judged, observed,     \* history
    closing, aborted, stopping, error, inputDone

blockVars   == <<kind, taken, ended>>
threadVars  == <<place, voiced, decision>>
turnVars    == <<active, from, silence, boundary, preroll, provisional>>
gateVars    == <<pending, retired, checked, asked, since>>
endpointVars == <<queries, scoring, endpoint>>
speakerVars == <<speakerJobs, identifying, speakerBusy, speaker, observed>>
lifeVars    == <<closing, aborted, stopping, error, inputDone>>
vars == <<blockVars, threadVars, turnVars, gateVars, verdict, endpointVars,
          speakerVars, heard, speech, judged, lifeVars>>

None == 0
Queries == 1..MaxBlocks

Init ==
    /\ kind \in Recognizers
    /\ taken = 0 /\ ended = FALSE
    /\ place = "take" /\ voiced = FALSE /\ decision = "none"
    /\ active = FALSE /\ from = 0 /\ silence = 0 /\ boundary = FALSE
    /\ preroll = <<>> /\ provisional = <<>>
    /\ pending = None /\ retired = <<>> /\ checked = FALSE /\ asked = 0 /\ since = 0
    /\ verdict = [q \in Queries |-> "none"]
    /\ queries = <<>> /\ scoring = None /\ endpoint = "wait"
    /\ speakerJobs = <<>> /\ identifying = None /\ speakerBusy = FALSE
    /\ speaker = "wait" /\ observed = <<>>
    /\ heard = <<>> /\ speech = {} /\ judged = 0
    /\ closing = FALSE /\ aborted = FALSE /\ stopping = FALSE
    /\ error = "none" /\ inputDone = FALSE

----------------------------------------------------------------------------
(* Mutant: the close does not wait for the speaker thread.                 *)
CloseReadyUnobserved == closing /\ inputDone
(* maybe_close_locked, its conditions on replies taken as met.             *)
CloseReady == closing /\ inputDone /\ ~speakerBusy
MaybeClose == stopping' = (stopping \/ CloseReady')
Fault(reason) ==
    /\ error' = IF error = "none" THEN reason ELSE error
    /\ stopping' = TRUE

(* The last n of a sequence.                                               *)
Latest(s, n) == SubSeq(s, (IF Len(s) > n THEN Len(s) - n ELSE 0) + 1, Len(s))
Ready(q) == verdict[q] \notin {"queued", "scoring"}
Broken(q) == verdict[q] \in {"failed", "cancelled"}

----------------------------------------------------------------------------
(* The gate.                                                               *)

(* PauseGate::retire                                                       *)
Retire(old) == IF pending = None THEN old ELSE Append(old, pending)
(* Futures that were read are gone.                                        *)
Consume(read) == verdict' = [q \in Queries |-> IF q \in read THEN "none" ELSE verdict[q]]
(* reap(false): the retired queries that are ready, from the oldest.       *)
Unreaped(old) ==
    LET waiting == {i \in 1..Len(old) : ~Ready(old[i])} IN
    IF waiting = {} THEN <<>>
    ELSE SubSeq(old, CHOOSE i \in waiting : \A j \in waiting : i <= j, Len(old))
Reaped(old) == {old[i] : i \in 1..Len(old) - Len(Unreaped(old))}

----------------------------------------------------------------------------
(* The recognition thread: take (about to take a block), poll (the block   *)
(* is pushed or kept, the gate is next), submit (the gate asks), verdict   *)
(* (it waits for the answer), settle (it has decided), close (the gate is  *)
(* closed after the last block), report, exited.                           *)
RecognitionFrame ==
    UNCHANGED <<kind, ended, scoring, endpoint, identifying, speaker, closing,
                aborted>>
NoFinals == UNCHANGED <<speakerJobs, speakerBusy, observed>>

(* The thread is thrown out of its loop.  The session faults, unless the   *)
(* call was cancelled by a stop.                                           *)
Leave(reason) ==
    /\ place' = "exited"
    /\ IF reason = "cancelled" /\ stopping THEN UNCHANGED <<stopping, error>>
       ELSE Fault(reason)
    /\ UNCHANGED <<taken, voiced, decision, turnVars, gateVars, verdict, queries,
                   heard, speech, judged, inputDone>>
    /\ NoFinals /\ RecognitionFrame

KeepBack(b) == Append(provisional, b)

TakeBlock(v) ==
    /\ place = "take" /\ ~stopping /\ ~ended /\ taken < MaxBlocks
    /\ LET b == taken + 1
           before == Latest(Append(preroll, b), PrerollLimit)
           opens == ~active /\ v
           kept == active /\ boundary
       IN
       /\ taken' = b
       /\ preroll' = before
       /\ active' = (active \/ v)
       /\ from' = IF opens THEN before[1] ELSE from
       /\ silence' = IF opens THEN 0 ELSE silence
       /\ boundary' = IF opens THEN FALSE ELSE boundary
       /\ provisional' = IF kept THEN KeepBack(b) ELSE provisional
       /\ heard' = IF kept THEN heard
                   ELSE IF opens /\ ~kind.continuous THEN heard \o before
                   ELSE IF active \/ kind.continuous THEN Append(heard, b)
                   ELSE heard
       (* gate.reset *)
       /\ retired' = IF opens THEN Retire(retired) ELSE retired
       /\ pending' = IF opens THEN None ELSE pending
       /\ checked' = IF opens THEN FALSE ELSE checked
       /\ speech' = IF v THEN speech \cup {b} ELSE speech
    /\ voiced' = v
    /\ place' = IF active' THEN "poll" ELSE "take"
    /\ UNCHANGED <<decision, asked, since, verdict, queries, judged, stopping, error,
                   inputDone>>
    /\ NoFinals /\ RecognitionFrame

(* Mutant: speech does not retire the question of the pause it ends.       *)
CutShortNever == FALSE
CutShort == voiced
(* Mutant: a question is asked while a late one is still unanswered.       *)
MayAskAgain(rest) == silence' >= Trigger /\ ~checked' /\ pending' = None
MayAsk(rest) ==
    silence' >= Trigger /\ ~checked' /\ pending' = None /\ rest = <<>>
(* gate.poll up to the question and the wait.  A broken verdict throws     *)
(* even when its query was retired.                                        *)
Poll ==
    /\ place = "poll" /\ ~stopping
    /\ silence' = IF voiced THEN 0 ELSE silence + 1
    /\ checked' = (checked /\ ~voiced)
    /\ LET old == IF CutShort THEN Retire(retired) ELSE retired
           rest == Unreaped(old)
       IN
       /\ ~\E q \in Reaped(old) : Broken(q)
       /\ pending' = IF CutShort THEN None ELSE pending
       /\ retired' = rest
       /\ Consume(Reaped(old))
       /\ decision' = IF ~voiced /\ silence' >= Maximum THEN "silence" ELSE "none"
       /\ place' = IF voiced \/ silence' >= Maximum THEN "settle"
                   ELSE IF MayAsk(rest) THEN "submit"
                   ELSE IF pending' # None /\ silence' >= Commit THEN "verdict"
                   ELSE "settle"
    /\ UNCHANGED <<taken, voiced, active, from, boundary, preroll, provisional,
                   asked, since, queries, heard, speech, judged, stopping, error,
                   inputDone>>
    /\ NoFinals /\ RecognitionFrame
(* A stopping session polls no more.                                       *)
PollSkipped ==
    /\ place = "poll" /\ stopping
    /\ place' = "take" /\ voiced' = FALSE
    /\ UNCHANGED <<taken, decision, turnVars, gateVars, verdict, queries,
                   heard, speech, judged, stopping, error, inputDone>>
    /\ NoFinals /\ RecognitionFrame

(* query() admits the question.                                            *)
Submit ==
    /\ place = "submit" /\ ~stopping /\ Len(queries) < QueryBound
    /\ LET q == asked + 1 IN
       /\ asked' = q /\ since' = taken
       /\ verdict' = [verdict EXCEPT ![q] = "queued"]
       /\ queries' = Append(queries, q)
       /\ pending' = q
    /\ place' = IF silence >= Commit THEN "verdict" ELSE "settle"
    /\ UNCHANGED <<taken, voiced, decision, turnVars, retired, checked, heard,
                   speech, judged, stopping, error, inputDone>>
    /\ NoFinals /\ RecognitionFrame

(* The verdict is there, or the time for it has passed.                    *)
Resolve ==
    /\ place = "verdict" /\ verdict[pending] \in {"hold", "end"}
    /\ decision' = IF verdict[pending] = "end" THEN "semantic" ELSE "none"
    /\ judged' = IF verdict[pending] = "end" THEN since ELSE judged
    /\ pending' = None /\ checked' = TRUE
    /\ Consume({pending})
    /\ place' = "settle"
    /\ UNCHANGED <<taken, voiced, turnVars, retired, asked, since, queries, heard,
                   speech, stopping, error, inputDone>>
    /\ NoFinals /\ RecognitionFrame
(* Mutant: the wait for the verdict has no bound.                          *)
LateNever == FALSE /\ UNCHANGED vars
Late ==
    /\ place = "verdict" /\ ~Ready(pending)
    /\ retired' = Retire(retired) /\ pending' = None /\ checked' = TRUE
    /\ place' = "settle"
    /\ UNCHANGED <<taken, voiced, decision, turnVars, asked, since, verdict, queries,
                   heard, speech, judged, stopping, error, inputDone>>
    /\ NoFinals /\ RecognitionFrame

(* The finals a completed turn publishes, and what becomes of the          *)
(* observation each of them is owed: given at once, as unavailable, or     *)
(* left to the speaker thread.                                             *)
Observe(n, given) ==
    observed' = observed \o [i \in 1..n |-> IF i \in given THEN 1 ELSE 0]
Finals ==
    LET known == Len(observed) IN
    \/ NoFinals
    \/ /\ ~stopping /\ ~kind.separated
       /\ \/ Observe(1, {1}) /\ UNCHANGED <<speakerJobs, speakerBusy>>
          \/ /\ ~speakerBusy
             /\ Observe(1, {})
             /\ speakerJobs' = Append(speakerJobs, known + 1)
             /\ speakerBusy' = TRUE
    \/ /\ ~stopping /\ kind.separated
       /\ \E n \in 1..MaxSegments : \E evident \in SUBSET (1..n) :
             LET room == SpeakerCapacity - Len(speakerJobs)
                 sent == {i \in evident :
                            Cardinality({j \in evident : j <= i}) <= room}
             IN
             /\ Observe(n, (1..n) \ sent)
             /\ speakerJobs' = speakerJobs \o
                   [k \in 1..Cardinality(sent) |->
                      known + CHOOSE i \in sent :
                                 Cardinality({j \in sent : j <= i}) = k]
             /\ speakerBusy' = (speakerBusy \/ sent # {})
(* complete() with the gate reset it ends with.                            *)
CompleteTurn ==
    /\ active' = FALSE /\ from' = 0 /\ silence' = 0
    /\ retired' = Retire(retired) /\ pending' = None /\ checked' = FALSE
    /\ Finals

(* Mutant: blocks kept back stay so when the speaker goes on.              *)
FlushOnVerdict(kept) == kept /\ ~voiced /\ pending = None
Flush(kept) == kept /\ (voiced \/ pending = None)
(* The gate left the turn open.  Blocks kept back are this turn's when the *)
(* speaker went on, and when the verdict was to hold or came too late.     *)
Continue ==
    /\ place = "settle" /\ decision = "none"
    /\ LET kept == boundary \/ pending # None
           flush == Flush(kept)
       IN
       /\ heard' = IF flush THEN heard \o provisional ELSE heard
       /\ provisional' = IF flush THEN <<>> ELSE provisional
       /\ boundary' = (kept /\ ~flush)
    /\ voiced' = FALSE
    /\ IF Len(provisional') > Commit - Trigger
       THEN place' = "exited" /\ Fault("provisional tail")
       ELSE place' = "take" /\ UNCHANGED <<stopping, error>>
    /\ UNCHANGED <<taken, decision, active, from, silence, preroll, gateVars,
                   verdict, queries, speech, judged, inputDone>>
    /\ NoFinals /\ RecognitionFrame
(* The turn ends: what was kept back is the preroll of the next.           *)
EndTurn ==
    /\ place = "settle" /\ decision # "none"
    /\ IF Len(provisional) > Commit - Trigger THEN Leave("provisional tail")
       ELSE /\ CompleteTurn
            /\ heard' = IF kind.continuous THEN heard \o provisional ELSE heard
            /\ preroll' = provisional /\ provisional' = <<>> /\ boundary' = FALSE
            /\ decision' = "none" /\ judged' = 0
            /\ place' = "take"
            /\ UNCHANGED <<taken, voiced, asked, since, verdict, queries, speech,
                           stopping, error, inputDone>>
            /\ RecognitionFrame

(* After the last block: what was kept back is heard, the turn ends, the   *)
(* gate is closed, and only then is the input done.                        *)
FinishTurn ==
    /\ place = "take" /\ ~stopping /\ ended
    /\ heard' = heard \o provisional
    /\ provisional' = <<>>
    /\ IF active THEN CompleteTurn /\ preroll' = <<>>
       ELSE UNCHANGED <<active, from, silence, preroll, retired, pending, checked>>
            /\ NoFinals
    /\ place' = "close"
    /\ UNCHANGED <<taken, voiced, decision, boundary, asked, since, verdict, queries,
                   speech, judged, stopping, error, inputDone>>
    /\ RecognitionFrame
CloseGate ==
    /\ place = "close"
    /\ \A q \in Reaped(Retire(retired)) : ~Broken(q)
    /\ Unreaped(Retire(retired)) = <<>>
    /\ retired' = <<>> /\ pending' = None
    /\ Consume(Reaped(Retire(retired)))
    /\ place' = "report"
    /\ UNCHANGED <<taken, voiced, decision, turnVars, checked, asked, since, queries,
                    heard, speech, judged, stopping, error, inputDone>>
    /\ NoFinals /\ RecognitionFrame
InputDone ==
    /\ place = "report"
    /\ inputDone' = TRUE
    /\ place' = "exited"
    /\ UNCHANGED <<taken, voiced, decision, turnVars, gateVars, verdict, queries,
                   heard, speech, judged, error>>
    /\ NoFinals /\ RecognitionFrame
    /\ MaybeClose

RecognizerFails ==
    /\ place \in {"poll", "settle", "close"}
    /\ \E reason \in {"other", IF stopping THEN "cancelled" ELSE "other"} :
          Leave(reason)
Refused ==
    /\ place = "submit" /\ (stopping \/ Len(queries) >= QueryBound)
    /\ Leave("endpoint admission")
VerdictBroken ==
    \E q \in Queries :
        /\ Broken(q)
        /\ \/ place = "verdict" /\ q = pending
           \/ /\ place = "poll" /\ ~stopping
              /\ q \in Reaped(IF CutShort THEN Retire(retired) ELSE retired)
           \/ place = "close" /\ q \in Reaped(Retire(retired))
        /\ Leave(IF verdict[q] = "cancelled" THEN "cancelled" ELSE "other")
Unretired ==
    /\ place = "close" /\ Unreaped(Retire(retired)) # <<>>
    /\ Leave("other")
RecognitionExit ==
    /\ place = "take" /\ stopping
    /\ place' = "exited"
    /\ UNCHANGED <<taken, voiced, decision, turnVars, gateVars, verdict, queries,
                   heard, speech, judged, stopping, error, inputDone>>
    /\ NoFinals /\ RecognitionFrame

----------------------------------------------------------------------------
(* The endpoint thread, the speaker thread, and the rest of the session.   *)
Heard == <<heard, speech, judged>>
EndpointFrame ==
    UNCHANGED <<blockVars, threadVars, turnVars, gateVars, speakerVars, Heard,
                closing, aborted, inputDone>>
StartScore ==
    /\ endpoint = "wait" /\ ~stopping /\ queries # <<>>
    /\ scoring' = Head(queries) /\ queries' = Tail(queries)
    /\ verdict' = [verdict EXCEPT ![scoring'] = "scoring"]
    /\ endpoint' = "scoring"
    /\ UNCHANGED <<stopping, error>>
    /\ EndpointFrame
EndScore ==
    /\ endpoint = "scoring"
    /\ \E answer \in {"hold", "end"} :
          verdict' = [verdict EXCEPT ![scoring] = answer]
    /\ scoring' = None /\ endpoint' = "wait"
    /\ UNCHANGED <<queries, stopping, error>>
    /\ EndpointFrame
(* A score that fails breaks its future and the session; one that a stop   *)
(* cancels breaks only the future.                                         *)
ScoreFails ==
    /\ endpoint = "scoring"
    /\ \/ /\ verdict' = [verdict EXCEPT ![scoring] = "failed"]
          /\ Fault("other")
       \/ /\ stopping
          /\ verdict' = [verdict EXCEPT ![scoring] = "cancelled"]
          /\ UNCHANGED <<stopping, error>>
    /\ scoring' = None /\ endpoint' = "exited"
    /\ UNCHANGED queries
    /\ EndpointFrame
EndpointExit ==
    /\ endpoint = "wait" /\ stopping
    /\ verdict' = [q \in Queries |-> IF \E i \in 1..Len(queries) : queries[i] = q
                                       THEN "failed" ELSE verdict[q]]
    /\ queries' = <<>>
    /\ endpoint' = "exited"
    /\ UNCHANGED <<scoring, stopping, error>>
    /\ EndpointFrame

SpeakerFrame ==
    UNCHANGED <<blockVars, threadVars, turnVars, gateVars, verdict, endpointVars,
                Heard, closing, aborted, inputDone>>
Identify ==
    /\ speaker = "wait" /\ ~stopping /\ speakerJobs # <<>>
    /\ identifying' = Head(speakerJobs) /\ speakerJobs' = Tail(speakerJobs)
    /\ speaker' = "identifying"
    /\ UNCHANGED <<speakerBusy, observed, stopping, error>>
    /\ SpeakerFrame
(* Whatever comes of it, a result or one of the failures, is observed.     *)
Identified ==
    /\ speaker = "identifying"
    /\ observed' = IF stopping THEN observed
                   ELSE [observed EXCEPT ![identifying] = @ + 1]
    /\ speakerBusy' = (speakerJobs # <<>>)
    /\ identifying' = None /\ speaker' = "wait"
    /\ UNCHANGED <<speakerJobs, error>>
    /\ SpeakerFrame
    /\ MaybeClose
(* The event queue is full.                                                *)
SpeakerFails ==
    /\ speaker = "identifying" /\ ~stopping
    /\ Fault("other")
    /\ speaker' = "exited"
    /\ UNCHANGED <<speakerJobs, identifying, speakerBusy, observed>>
    /\ SpeakerFrame
SpeakerExit ==
    /\ speaker = "wait" /\ stopping
    /\ speakerJobs' = <<>> /\ speakerBusy' = FALSE
    /\ speaker' = "exited"
    /\ UNCHANGED <<identifying, observed, stopping, error>>
    /\ SpeakerFrame

RestFrame ==
    UNCHANGED <<kind, taken, threadVars, turnVars, gateVars, verdict, endpointVars,
                speakerVars, Heard, inputDone>>
EndOfBlocks ==
    /\ ~ended /\ ended' = TRUE
    /\ UNCHANGED <<closing, aborted, stopping, error>>
    /\ RestFrame
CloseDrain ==
    /\ ~stopping /\ ~closing
    /\ closing' = TRUE
    /\ UNCHANGED <<ended, aborted, error>>
    /\ RestFrame
    /\ MaybeClose
CloseAbort ==
    /\ ~stopping
    /\ closing' = TRUE /\ aborted' = TRUE /\ stopping' = TRUE
    /\ UNCHANGED <<ended, error>>
    /\ RestFrame
OthersFault ==
    /\ ~stopping /\ Fault("other")
    /\ UNCHANGED <<ended, closing, aborted>>
    /\ RestFrame

----------------------------------------------------------------------------
RecognitionStep ==
    \/ (\E v \in BOOLEAN : TakeBlock(v)) \/ Poll \/ PollSkipped \/ Submit
    \/ Resolve \/ Late \/ Continue \/ EndTurn
    \/ FinishTurn \/ CloseGate \/ InputDone
    \/ RecognizerFails \/ Refused \/ VerdictBroken \/ Unretired
    \/ RecognitionExit
EndpointStep == StartScore \/ EndScore \/ ScoreFails \/ EndpointExit
SpeakerStep == Identify \/ Identified \/ SpeakerFails \/ SpeakerExit
RestStep == EndOfBlocks \/ CloseDrain \/ CloseAbort \/ OthersFault
Next == RecognitionStep \/ EndpointStep \/ SpeakerStep \/ RestStep

(* The recognition and the speaker thread run.  The endpoint thread need   *)
(* not: a score that never comes is late, and at the end unretired.        *)
Spec ==
    /\ Init /\ [][Next]_vars
    /\ WF_vars(RecognitionStep) /\ WF_vars(SpeakerStep)

----------------------------------------------------------------------------
(* Properties.                                                             *)
Blocks == 1..MaxBlocks
(* Every variable keeps its type; what is kept back is contiguous and ends *)
(* with the newest block.                                                  *)
TypeOK ==
    /\ kind \in Recognizers /\ taken \in 0..MaxBlocks
    /\ place \in {"take", "poll", "submit", "verdict", "settle", "close", "report",
                  "exited"}
    /\ decision \in {"none", "semantic", "silence"}
    /\ {ended, voiced, active, boundary, checked, speakerBusy, closing, aborted,
        stopping, inputDone} \subseteq BOOLEAN
    /\ from \in 0..MaxBlocks /\ silence \in 0..MaxBlocks
    /\ preroll \in Seq(Blocks) /\ heard \in Seq(Blocks)
    /\ provisional = [i \in 1..Len(provisional) |-> taken - Len(provisional) + i]
    /\ pending \in 0..asked /\ asked \in 0..MaxBlocks /\ since \in 0..MaxBlocks
    /\ retired \in Seq(Queries) /\ queries \in Seq(Queries)
    /\ verdict \in [Queries -> {"none", "queued", "scoring", "hold", "end",
                                "failed", "cancelled"}]
    /\ scoring \in {None} \cup Queries
    /\ endpoint \in {"wait", "scoring", "exited"}
    /\ speaker \in {"wait", "identifying", "exited"}
    /\ observed \in Seq(Nat) /\ speakerJobs \in Seq(1..Len(observed))
    /\ identifying \in 0..Len(observed)
    /\ speech \subseteq Blocks /\ judged \in 0..MaxBlocks

(* However pauses were resolved, by a verdict, by a late one, by silence   *)
(* or by the speaker going on: no block is heard twice or out of order;    *)
(* all speech is heard; of an open turn everything is heard but the blocks *)
(* kept back; a continuous recognizer misses nothing at all.               *)
Increasing(s) == \A i \in 1..Len(s) - 1 : s[i] < s[i+1]
HeardSet == {heard[i] : i \in 1..Len(heard)}
SpeechHeardOnce ==
    /\ Increasing(heard)
    /\ (place = "take" /\ ~stopping) \/ inputDone =>
        /\ speech \subseteq HeardSet
        /\ active => from..taken - Len(provisional) \subseteq HeardSet
        /\ kind.continuous => Len(heard) = taken - Len(provisional)

(* A verdict ends a turn only if it answers a question asked in this very  *)
(* pause: not the verdict on an earlier pause that the speaker cut short.  *)
VerdictIsOfThisPause ==
    decision = "semantic" => \A b \in speech : b < judged

(* At most one question is unanswered, the abandoned one included, so the  *)
(* endpoint thread is never offered more than it admits; and what is kept  *)
(* back never exceeds the time between question and verdict.               *)
Unanswered == {q \in Queries : verdict[q] \in {"queued", "scoring"}}
GateIsBounded ==
    /\ Cardinality(Unanswered) <= 1
    /\ error = "endpoint admission" => aborted
    /\ error # "provisional tail"

(* Every final is observed at most once, and before the session closes by  *)
(* itself exactly once: the speaker thread owes none when it is not busy.  *)
FinalsObserved ==
    /\ \A f \in 1..Len(observed) : observed[f] <= 1
    /\ ~speakerBusy /\ ~stopping => \A f \in 1..Len(observed) : observed[f] = 1
    /\ stopping /\ ~aborted /\ error = "none" =>
          inputDone /\ \A f \in 1..Len(observed) : observed[f] = 1

(* When no block follows, the input ends, and a closing session closes,    *)
(* whether or not the endpoint thread ever answers.                        *)
HearingEnds == ended /\ closing ~> stopping
=============================================================================
