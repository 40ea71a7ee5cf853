----------------------------- MODULE TurnsProofs -----------------------------
(***************************************************************************)
(* For every number of blocks, all thresholds of silence and every bound   *)
(* of the queues, whatever comes late, is cut short, or fails: a turn is   *)
(* never ended by the verdict on another pause; the gate has at most one   *)
(* question unanswered and keeps back no more than the pause allows; every *)
(* final is observed once.                                                 *)
(***************************************************************************)
EXTENDS Turns, SequenceTheorems, FiniteSetTheorems, WellFoundedInduction, TLAPS

(* The blocks taken, and the speech among them.                            *)
SpeechIsTaken == taken \in Nat /\ speech \subseteq 1..taken
(* The gate asks after a silent block.                                     *)
AskedInSilence ==
    /\ place = "poll" /\ ~voiced => taken \notin speech
    /\ place = "submit" => taken \notin speech
(* A question is pending only as long as the pause it was asked in lasts:  *)
(* voice retires it before the thread looks at its verdict.                *)
Looking ==
    \/ place \in {"submit", "verdict", "settle"}
    \/ place = "take" /\ ~stopping
    \/ place = "poll" /\ ~voiced
PendingIsOfThisPause == pending # None /\ Looking => \A b \in speech : b < since
(* The thread waits for a verdict only after a question.                   *)
VerdictAwaited == asked \in Nat /\ (place = "verdict" => pending # None)
(* A verdict is acted on at once, or the thread has left.                  *)
DecisionIsFresh == decision = "semantic" => place \in {"settle", "exited"}
IInv ==
    /\ SpeechIsTaken /\ AskedInSilence /\ PendingIsOfThisPause /\ VerdictAwaited
    /\ DecisionIsFresh /\ VerdictIsOfThisPause

LEMMA InitIInv == Init => IInv
  BY DEF Init, IInv, SpeechIsTaken, AskedInSilence, PendingIsOfThisPause,
     VerdictAwaited, DecisionIsFresh, VerdictIsOfThisPause, None

(* What the invariant speaks of.                                           *)
Watched == <<taken, speech, pending, asked, since, judged, decision>>

(* Steps that leave the pause alone, and at most stop the session.         *)
LEMMA PauseFrame ==
  ASSUME IInv, UNCHANGED <<Watched, place, voiced>>, stopping => stopping'
  PROVE  IInv'
  BY DEF IInv, Watched, SpeechIsTaken, AskedInSilence, PendingIsOfThisPause, Looking,
     VerdictAwaited, DecisionIsFresh, VerdictIsOfThisPause

(* The thread leaves its loop, or the part of it in which it looks at the  *)
(* gate.                                                                   *)
LEMMA LeavesTheGate ==
  ASSUME IInv, UNCHANGED <<taken, speech, asked, judged, decision>>,
         \/ place' \in {"close", "report", "exited"}
         \/ place' = "take" /\ stopping',
         decision = "semantic" => place' = "exited"
  PROVE  IInv'
  BY DEF IInv, SpeechIsTaken, AskedInSilence, PendingIsOfThisPause, Looking,
     VerdictAwaited, DecisionIsFresh, VerdictIsOfThisPause

LEMMA TakeBlockKeeps ==
  ASSUME IInv, NEW v \in BOOLEAN, TakeBlock(v)
  PROVE  IInv'
  <1>1. /\ place = "take" /\ ~stopping /\ taken' = taken + 1 /\ voiced' = v
        /\ speech' = IF v THEN speech \cup {taken'} ELSE speech
        /\ UNCHANGED <<asked, since, decision, judged, stopping>>
        /\ pending' \in {pending, None} /\ place' \in {"poll", "take"}
        /\ v => place' = "poll"
    BY DEF TakeBlock
  <1>2. SpeechIsTaken' /\ (~v => taken' \notin speech')
    BY <1>1 DEF IInv, SpeechIsTaken
  <1>3. AskedInSilence'
    BY <1>1, <1>2 DEF AskedInSilence
  <1>4. PendingIsOfThisPause'
    <2>1. CASE v
      BY <1>1, <2>1 DEF PendingIsOfThisPause, Looking
    <2>2. CASE ~v
      BY <1>1, <2>2 DEF IInv, PendingIsOfThisPause, Looking
    <2> QED
      BY <2>1, <2>2
  <1>5. decision # "semantic" /\ decision' = decision
    BY <1>1 DEF IInv, DecisionIsFresh
  <1>6. VerdictAwaited'
    BY <1>1 DEF IInv, VerdictAwaited
  <1> QED
    BY <1>2, <1>3, <1>4, <1>5, <1>6 DEF IInv, DecisionIsFresh, VerdictIsOfThisPause

LEMMA PollKeeps ==
  ASSUME IInv, Poll
  PROVE  IInv'
  <1>1. /\ place = "poll" /\ UNCHANGED <<taken, voiced, speech, asked, since, stopping>>
        /\ pending' = IF voiced THEN None ELSE pending
        /\ place' \in {"settle", "submit", "verdict"}
        /\ place' # "settle" => ~voiced
        /\ place' = "verdict" => pending' # None
        /\ decision' # "semantic"
    BY DEF Poll, CutShort
  <1> QED
    BY <1>1 DEF IInv, SpeechIsTaken, AskedInSilence, PendingIsOfThisPause, Looking,
       VerdictAwaited, DecisionIsFresh, VerdictIsOfThisPause

LEMMA SubmitKeeps ==
  ASSUME IInv, Submit
  PROVE  IInv'
  <1>1. /\ place = "submit" /\ UNCHANGED <<taken, voiced, decision, speech, stopping>>
        /\ since' = taken /\ place' \in {"verdict", "settle"}
        /\ asked' = asked + 1 /\ pending' = asked + 1
    BY DEF Submit
  <1>2. \A b \in speech : b < taken
    BY <1>1 DEF IInv, SpeechIsTaken, AskedInSilence
  <1> QED
    BY <1>1, <1>2 DEF IInv, SpeechIsTaken, AskedInSilence, PendingIsOfThisPause, None,
       VerdictAwaited, DecisionIsFresh, VerdictIsOfThisPause

LEMMA VerdictKeeps ==
  ASSUME IInv, Resolve \/ Late
  PROVE  IInv'
  <1>1. /\ place = "verdict" /\ place' = "settle" /\ pending' = None
        /\ UNCHANGED <<taken, voiced, speech, asked, since, stopping>>
    BY DEF Resolve, Late
  <1>2. CASE Resolve
    <2>1. pending # None
      BY <1>1 DEF IInv, VerdictAwaited
    <2> QED
      BY <1>1, <1>2, <2>1 DEF Resolve, IInv, SpeechIsTaken, AskedInSilence, PendingIsOfThisPause,
         Looking, VerdictAwaited, DecisionIsFresh, VerdictIsOfThisPause
  <1>3. CASE Late
    BY <1>1, <1>3 DEF Late, IInv, SpeechIsTaken, AskedInSilence, PendingIsOfThisPause,
       Looking, VerdictAwaited, DecisionIsFresh, VerdictIsOfThisPause
  <1> QED
    BY <1>2, <1>3
LEMMA SettleKeeps ==
  ASSUME IInv, Continue \/ EndTurn
  PROVE  IInv'
  <1>1. CASE Continue
    <2>1. /\ place = "settle" /\ decision = "none" /\ place' \in {"take", "exited"}
          /\ UNCHANGED <<Watched>>
      BY <1>1 DEF Continue, gateVars, Watched
    <2> QED
      BY <2>1 DEF Watched, IInv, SpeechIsTaken, AskedInSilence, PendingIsOfThisPause,
         Looking, VerdictAwaited, DecisionIsFresh, VerdictIsOfThisPause
  <1>2. CASE EndTurn
    <2>1. CASE Len(provisional) > Commit - Trigger
      <3>1. Leave("provisional tail")
        BY <1>2, <2>1 DEF EndTurn
      <3> QED
        BY <3>1, LeavesTheGate DEF Leave, gateVars
    <2>2. CASE ~(Len(provisional) > Commit - Trigger)
      <3>1. /\ place' = "take" /\ pending' = None /\ decision' = "none"
            /\ UNCHANGED <<taken, speech, asked>>
        BY <1>2, <2>2 DEF EndTurn, CompleteTurn
      <3> QED
        BY <3>1 DEF IInv, SpeechIsTaken, AskedInSilence, PendingIsOfThisPause,
           VerdictAwaited, DecisionIsFresh, VerdictIsOfThisPause
    <2> QED
      BY <2>1, <2>2
  <1> QED
    BY <1>1, <1>2

LEMMA RecognitionKeeps ==
  ASSUME IInv, RecognitionStep
  PROVE  IInv'
  <1>1. CASE FinishTurn
    <2>1. /\ place = "take" /\ place' = "close"
          /\ UNCHANGED <<taken, speech, asked, judged, decision>>
      BY <1>1 DEF FinishTurn
    <2> QED
      BY <2>1, LeavesTheGate DEF IInv, DecisionIsFresh
  <1>2. CASE PollSkipped \/ CloseGate \/ InputDone \/ RecognitionExit
    <2>1. /\ place \in {"poll", "close", "report", "take"}
          /\ \/ place' \in {"report", "exited"}
             \/ place' = "take" /\ stopping'
          /\ UNCHANGED <<taken, speech, asked, judged, decision>>
      BY <1>2 DEF PollSkipped, CloseGate, InputDone, RecognitionExit, gateVars
    <2> QED
      BY <2>1, LeavesTheGate DEF IInv, DecisionIsFresh
  <1>3. CASE RecognizerFails \/ Refused \/ VerdictBroken \/ Unretired
    <2>1. PICK reason : Leave(reason)
      BY <1>3 DEF RecognizerFails, Refused, VerdictBroken, Unretired
    <2> QED
      BY <2>1, LeavesTheGate DEF Leave, gateVars
  <1> QED
    BY <1>1, <1>2, <1>3, TakeBlockKeeps, PollKeeps, SubmitKeeps, VerdictKeeps, SettleKeeps
       DEF RecognitionStep

(* The other threads do not touch the pause.                               *)
LEMMA OthersKeep ==
  ASSUME IInv, EndpointStep \/ SpeakerStep \/ RestStep
  PROVE  IInv'
  <1>1. UNCHANGED <<Watched, place, voiced>>
    <2>1. CASE EndpointStep
      BY <2>1 DEF EndpointStep, StartScore, EndScore, ScoreFails, EndpointExit,
         EndpointFrame, blockVars, threadVars, gateVars, Heard, Watched
    <2>2. CASE SpeakerStep
      BY <2>2 DEF SpeakerStep, Identify, Identified, SpeakerFails, SpeakerExit,
         SpeakerFrame, blockVars, threadVars, gateVars, Heard, Watched
    <2>3. CASE RestStep
      BY <2>3 DEF RestStep, EndOfBlocks, CloseDrain, CloseAbort, OthersFault,
         RestFrame, threadVars, gateVars, Heard, Watched
    <2> QED
      BY <2>1, <2>2, <2>3
  <1>2. stopping => stopping'
    <2>1. CASE EndpointStep
      BY <2>1 DEF EndpointStep, StartScore, EndScore, ScoreFails, EndpointExit, Fault
    <2>2. CASE SpeakerStep
      BY <2>2 DEF SpeakerStep, Identify, Identified, SpeakerFails, SpeakerExit,
         Fault, MaybeClose
    <2>3. CASE RestStep
      BY <2>3 DEF RestStep, EndOfBlocks, CloseDrain, CloseAbort, OthersFault
    <2> QED
      BY <2>1, <2>2, <2>3
  <1> QED
    BY <1>1, <1>2, PauseFrame

(* The inductive invariant, for every reachable state.                     *)
THEOREM Invariance == Spec => []IInv
  <1>1. IInv /\ [Next]_vars => IInv'
    <2> SUFFICES ASSUME IInv, [Next]_vars PROVE IInv'
      OBVIOUS
    <2>1. CASE UNCHANGED vars
      BY <2>1, PauseFrame DEF vars, blockVars, threadVars, gateVars, lifeVars, Watched
    <2> QED
      BY <2>1, RecognitionKeeps, OthersKeep DEF Next
  <1> QED
    BY <1>1, InitIInv, PTL DEF Spec

(* A verdict ends a turn only in the pause it was asked about; it never    *)
(* judges an earlier pause that the speaker cut short (PauseGate::poll,    *)
(* resolve and reset; recognition_loop).                                   *)
THEOREM VerdictIsOfThisPauseHolds == Spec => []VerdictIsOfThisPause
  <1>1. IInv => VerdictIsOfThisPause
    BY DEF IInv
  <1> QED
    BY <1>1, Invariance, PTL

----------------------------------------------------------------------------
(* What the steps leave alone, variable by variable.                       *)
TurnKept == UNCHANGED <<active, from, silence, boundary, preroll, provisional>>
GateKept == UNCHANGED <<pending, retired, checked, asked, since>>
HeardKept == UNCHANGED <<heard, speech, judged>>
ThreadKept == UNCHANGED <<place, voiced, decision>>
SpeakerKept == UNCHANGED <<speakerJobs, identifying, speakerBusy, speaker, observed>>
EndpointKept == UNCHANGED <<queries, scoring, endpoint>>

LEMMA RecognitionFrames ==
  /\ \A reason : Leave(reason) => TurnKept /\ GateKept /\ HeardKept
  /\ PollSkipped \/ InputDone \/ RecognitionExit => TurnKept /\ GateKept /\ HeardKept
  /\ Submit \/ Resolve \/ Late \/ CloseGate => TurnKept
  /\ Continue => GateKept
  <1> USE DEF turnVars, gateVars, TurnKept, GateKept, HeardKept
  <1>1. \A reason : Leave(reason) => TurnKept /\ GateKept /\ HeardKept
    BY DEF Leave
  <1>2. PollSkipped \/ InputDone \/ RecognitionExit => TurnKept /\ GateKept /\ HeardKept
    BY DEF PollSkipped, InputDone, RecognitionExit
  <1>3. Submit \/ Resolve \/ Late \/ CloseGate => TurnKept
    BY DEF Submit, Resolve, Late, CloseGate
  <1>4. Continue => GateKept
    BY DEF Continue
  <1> QED
    BY <1>1, <1>2, <1>3, <1>4

LEMMA OtherFrames ==
  /\ EndpointFrame => /\ UNCHANGED <<kind, taken, ended, closing, aborted, inputDone>>
                      /\ TurnKept /\ GateKept /\ HeardKept /\ ThreadKept /\ SpeakerKept
  /\ SpeakerFrame => /\ UNCHANGED <<kind, taken, ended, closing, aborted, inputDone, verdict>>
                     /\ TurnKept /\ GateKept /\ HeardKept /\ ThreadKept /\ EndpointKept
  /\ RestFrame => /\ UNCHANGED <<kind, taken, verdict, inputDone>>
                  /\ TurnKept /\ GateKept /\ HeardKept /\ ThreadKept /\ SpeakerKept
                  /\ EndpointKept
  <1> USE DEF blockVars, threadVars, turnVars, gateVars, speakerVars, endpointVars, Heard,
          TurnKept, GateKept, HeardKept, ThreadKept, SpeakerKept, EndpointKept
  <1>1. EndpointFrame => /\ UNCHANGED <<kind, taken, ended, closing, aborted, inputDone>>
                      /\ TurnKept /\ GateKept /\ HeardKept /\ ThreadKept /\ SpeakerKept
    BY DEF EndpointFrame
  <1>2. SpeakerFrame => /\ UNCHANGED <<kind, taken, ended, closing, aborted, inputDone, verdict>>
                     /\ TurnKept /\ GateKept /\ HeardKept /\ ThreadKept /\ EndpointKept
    BY DEF SpeakerFrame
  <1>3. RestFrame => /\ UNCHANGED <<kind, taken, verdict, inputDone>>
                  /\ TurnKept /\ GateKept /\ HeardKept /\ ThreadKept /\ SpeakerKept
                  /\ EndpointKept
    BY DEF RestFrame
  <1> QED
    BY <1>1, <1>2, <1>3

LEMMA StutterFrames ==
  UNCHANGED vars =>
    /\ UNCHANGED <<kind, taken, ended, verdict, closing, aborted, stopping, error, inputDone>>
    /\ TurnKept /\ GateKept /\ HeardKept /\ ThreadKept /\ SpeakerKept /\ EndpointKept
  BY DEF vars, blockVars, threadVars, turnVars, gateVars, endpointVars, speakerVars,
     lifeVars, TurnKept, GateKept, HeardKept, ThreadKept, SpeakerKept, EndpointKept

----------------------------------------------------------------------------
(* What the recognition thread knows at each of its places.                *)
Numbers ==
    /\ kind \in Recognizers /\ taken \in 0..MaxBlocks
    /\ silence \in 0..taken /\ (place = "poll" => silence < taken)
    /\ asked \in 0..taken /\ since \in 0..taken /\ judged \in 0..taken
    /\ place \in {"poll", "submit"} => asked < taken
    /\ speech \subseteq 1..taken
Places ==
    /\ place \in {"take", "poll", "submit", "verdict", "settle", "close", "report",
                  "exited"}
    /\ decision \in {"none", "semantic", "silence"}
    /\ endpoint \in {"wait", "scoring", "exited"}
    /\ speaker \in {"wait", "identifying", "exited"}
    /\ decision # "none" => place \in {"settle", "exited"}
    /\ place \in {"submit", "verdict"} \/ (place = "settle" /\ decision # "none") => ~voiced
    /\ inputDone => place = "exited"
Stops == stopping => aborted \/ error # "none" \/ inputDone
TypeInv == Numbers /\ Places /\ Stops

LEMMA InitTypeInv == Init => TypeInv
  BY RecognizersAssumption, BoundsAssumption DEF Init, TypeInv, Numbers, Places, Stops

(* A thread that leaves its loop, for whatever reason.                     *)
LEMMA LeaveKeepsType ==
  ASSUME TypeInv, NEW reason, reason # "none", Leave(reason), ~inputDone
  PROVE  TypeInv'
  <1>1. Numbers' /\ Places'
    BY RecognitionFrames DEF TypeInv, Numbers, Places, Leave, NoFinals, RecognitionFrame, TurnKept,
       GateKept, HeardKept
  <1>2. Stops'
    BY DEF TypeInv, Stops, Leave, Fault, RecognitionFrame
  <1> QED
    BY <1>1, <1>2 DEF TypeInv

(* Steps that leave the numbers, or the places, alone.                     *)
LEMMA NumbersKept ==
  ASSUME Numbers, UNCHANGED <<kind, taken, silence, asked, since, judged, speech>>,
         place' \in {"poll", "submit"} => place' = place
  PROVE  Numbers'
  BY DEF Numbers
LEMMA PlacesKept ==
  ASSUME Places, UNCHANGED <<place, decision, voiced>>, inputDone' => inputDone,
         endpoint' \in {"wait", "scoring", "exited"},
         speaker' \in {"wait", "identifying", "exited"}
  PROVE  Places'
  BY DEF Places
LEMMA StopsKept ==
  ASSUME Stops, UNCHANGED <<stopping, error>>, aborted => aborted', inputDone => inputDone'
  PROVE  Stops'
  BY DEF Stops

(* A session closes by itself only when its input is done, and all that was*)
(* heard was identified.                                                   *)
LEMMA ClosesWhenDone == MaybeClose /\ stopping' /\ ~stopping => inputDone' /\ ~speakerBusy'
  BY Zenon DEF MaybeClose, CloseReady

LEMMA RecognitionKeepsType ==
  ASSUME TypeInv, RecognitionStep
  PROVE  TypeInv'
  <1> USE RecognitionFrames DEF NoFinals, RecognitionFrame, TurnKept, GateKept, HeardKept
  <1>1. ASSUME NEW v \in BOOLEAN, TakeBlock(v) PROVE TypeInv'
    <2>1. /\ place = "take" /\ taken < MaxBlocks /\ taken' = taken + 1 /\ place' \in {"take", "poll"}
          /\ silence' \in {silence, 0} /\ speech' \subseteq speech \cup {taken'}
          /\ UNCHANGED <<kind, decision, aborted, stopping, inputDone, asked, since, judged,
                         endpoint, speaker, error>>
      BY <1>1 DEF TakeBlock
    <2>2. Numbers'
      BY <2>1, BoundsAssumption DEF TypeInv, Numbers
    <2>3. Places' /\ Stops'
      BY <2>1 DEF TypeInv, Places, Stops
    <2> QED
      BY <2>2, <2>3 DEF TypeInv
  <1>2. ASSUME Poll PROVE TypeInv'
    <2>1. Numbers'
      <3>1. UNCHANGED <<kind, taken, asked, since, judged, speech>> /\ silence' \in {0, silence + 1}
            /\ place = "poll" /\ place' # "poll"
        BY <1>2 DEF Poll
      <3> QED
        BY <3>1 DEF TypeInv, Numbers
    <2>2. Places' /\ Stops'
      BY <1>2 DEF TypeInv, Poll, Places, Stops
    <2> QED
      BY <2>1, <2>2 DEF TypeInv
  <1>3. ASSUME PollSkipped PROVE TypeInv'
    <2>1. Numbers' /\ Stops'
      BY <1>3, NumbersKept, StopsKept DEF TypeInv, PollSkipped
    <2>2. Places'
      BY <1>3 DEF TypeInv, PollSkipped, Places
    <2> QED
      BY <2>1, <2>2 DEF TypeInv
  <1>4. ASSUME Submit \/ Resolve \/ Late PROVE TypeInv'
    <2>1. Numbers'
      <3>1. /\ UNCHANGED <<kind, taken, silence, speech>> /\ place' \notin {"poll", "submit"}
            /\ \/ asked' = asked /\ since' = since
               \/ asked' = asked + 1 /\ since' = taken /\ place = "submit"
            /\ judged' \in {judged, since}
        BY <1>4 DEF Submit, Resolve, Late
      <3> QED
        BY <3>1 DEF TypeInv, Numbers
    <2>2. Places' /\ Stops'
      BY <1>4 DEF TypeInv, Submit, Resolve, Late, Places, Stops
    <2> QED
      BY <2>1, <2>2 DEF TypeInv
  <1>5. ASSUME Continue PROVE TypeInv'
    <2>1. Numbers'
      <3>1. UNCHANGED <<kind, taken, silence, asked, since, judged, speech>>
            /\ place' \in {"take", "exited"}
        BY <1>5 DEF Continue
      <3> QED
        BY <3>1, NumbersKept DEF TypeInv
    <2>2. Places' /\ Stops'
      BY <1>5 DEF TypeInv, Continue, Fault, Places, Stops
    <2> QED
      BY <2>1, <2>2 DEF TypeInv
  <1>6. ASSUME EndTurn PROVE TypeInv'
    <2>1. CASE Len(provisional) > Commit - Trigger
      <3>1. Leave("provisional tail") /\ ~inputDone
        BY <1>6, <2>1 DEF TypeInv, Places, EndTurn
      <3> QED
        BY <3>1, LeaveKeepsType
    <2>2. CASE ~(Len(provisional) > Commit - Trigger)
      <3>1. Numbers'
        <4>1. UNCHANGED <<kind, taken, asked, since, speech>> /\ silence' = 0 /\ judged' = 0
              /\ place' = "take"
          BY <1>6, <2>2 DEF EndTurn, CompleteTurn
        <4> QED
          BY <4>1 DEF TypeInv, Numbers
      <3>2. Places' /\ Stops'
        BY <1>6, <2>2 DEF TypeInv, EndTurn, Places, Stops
      <3> QED
        BY <3>1, <3>2 DEF TypeInv
    <2> QED
      BY <2>1, <2>2
  <1>7. ASSUME FinishTurn PROVE TypeInv'
    <2>1. Numbers'
      <3>1. UNCHANGED <<kind, taken, asked, since, judged, speech>> /\ silence' \in {silence, 0}
            /\ place' = "close"
        BY <1>7 DEF FinishTurn, CompleteTurn
      <3> QED
        BY <3>1 DEF TypeInv, Numbers
    <2>2. Places' /\ Stops'
      BY <1>7 DEF TypeInv, FinishTurn, Places, Stops
    <2> QED
      BY <2>1, <2>2 DEF TypeInv
  <1>8. ASSUME CloseGate \/ RecognitionExit PROVE TypeInv'
    <2>1. Numbers' /\ Stops'
      BY <1>8, NumbersKept, StopsKept DEF TypeInv, CloseGate, RecognitionExit
    <2>2. Places'
      BY <1>8 DEF TypeInv, CloseGate, RecognitionExit, Places
    <2> QED
      BY <2>1, <2>2 DEF TypeInv
  <1>9. ASSUME InputDone PROVE TypeInv'
    <2>1. Numbers'
      BY <1>9, NumbersKept DEF TypeInv, InputDone
    <2>2. Places' /\ Stops'
      BY <1>9, ClosesWhenDone DEF TypeInv, InputDone, Places, Stops
    <2> QED
      BY <2>1, <2>2 DEF TypeInv
  <1>10. ASSUME RecognizerFails \/ Refused \/ VerdictBroken \/ Unretired PROVE TypeInv'
    <2>1. PICK reason \in {"other", "cancelled", "endpoint admission"} : Leave(reason)
      BY <1>10 DEF RecognizerFails, Refused, VerdictBroken, Unretired
    <2>2. ~inputDone
      BY <1>10 DEF RecognizerFails, Refused, VerdictBroken, Unretired, TypeInv, Places
    <2> QED
      BY <2>1, <2>2, LeaveKeepsType
  <1> QED
    BY <1>1, <1>2, <1>3, <1>4, <1>5, <1>6, <1>7, <1>8, <1>9, <1>10 DEF RecognitionStep

LEMMA OthersKeepType ==
  ASSUME TypeInv, EndpointStep \/ SpeakerStep \/ RestStep
  PROVE  TypeInv'
  <1> USE OtherFrames DEF TurnKept, GateKept, HeardKept, ThreadKept, SpeakerKept, EndpointKept
  <1>1. UNCHANGED <<kind, taken, silence, asked, since, judged, speech, place, decision, voiced,
                    inputDone>>
    BY DEF EndpointStep, StartScore, EndScore, ScoreFails, EndpointExit,
       SpeakerStep, Identify, Identified, SpeakerFails, SpeakerExit,
       RestStep, EndOfBlocks, CloseDrain, CloseAbort, OthersFault
  <1>2. endpoint' \in {"wait", "scoring", "exited"} /\ speaker' \in {"wait", "identifying", "exited"}
    BY DEF TypeInv, Places, EndpointStep, StartScore, EndScore, ScoreFails, EndpointExit,
       SpeakerStep, Identify, Identified, SpeakerFails, SpeakerExit,
       RestStep, EndOfBlocks, CloseDrain, CloseAbort, OthersFault
  <1>3. Numbers' /\ Places'
    BY <1>1, <1>2, NumbersKept, PlacesKept DEF TypeInv
  <1>4. /\ stopping' => stopping \/ error' # "none" \/ aborted' \/ inputDone'
        /\ error # "none" => error' # "none"
        /\ aborted => aborted'
    <2> USE ClosesWhenDone DEF Fault
    <2>1. CASE EndpointStep
      BY <2>1 DEF EndpointStep, StartScore, EndScore, ScoreFails, EndpointExit
    <2>2. CASE SpeakerStep
      BY <2>2 DEF SpeakerStep, Identify, Identified, SpeakerFails, SpeakerExit
    <2>3. CASE RestStep
      BY <2>3 DEF RestStep, EndOfBlocks, CloseDrain, CloseAbort, OthersFault
    <2> QED
      BY <2>1, <2>2, <2>3
  <1>5. Stops'
    BY <1>1, <1>4 DEF TypeInv, Stops
  <1> QED
    BY <1>3, <1>5 DEF TypeInv

LEMMA NextKeepsType == TypeInv /\ [Next]_vars => TypeInv'
  <1> SUFFICES ASSUME TypeInv, [Next]_vars PROVE TypeInv'
    OBVIOUS
  <1>1. CASE UNCHANGED vars
    <2>1. Numbers' /\ Stops'
      BY <1>1, StutterFrames, NumbersKept, StopsKept DEF TurnKept, GateKept, HeardKept, ThreadKept,
         TypeInv
    <2>2. Places'
      BY <1>1, StutterFrames DEF ThreadKept, SpeakerKept, EndpointKept, Places, TypeInv
    <2> QED
      BY <2>1, <2>2 DEF TypeInv
  <1> QED
    BY <1>1, RecognitionKeepsType, OthersKeepType DEF Next

----------------------------------------------------------------------------
(* Every set of naturals has a least element.                              *)
LEMMA Least ==
  ASSUME NEW T \in SUBSET Nat, T # {}
  PROVE  \E m \in T : \A n \in T : m <= n
  <1> DEFINE R == {p \in Nat \X Nat : p[1] < p[2]}
  <1>1. IsWellFoundedOn(R, Nat)
    BY NatLessThanWellFounded DEF OpToRel
  <1>2. PICK m \in T : \A n \in T : <<n, m>> \notin R
    <2> HIDE DEF R
    <2> QED
      BY <1>1, WFMin, Zenon
  <1>3. \A n \in T : ~(n < m)
    BY <1>2
  <1> QED
    BY <1>3

(* reap() leaves what is not ready, and what it takes is.                  *)
LEMMA UnreapedFacts ==
  ASSUME NEW S, NEW old \in Seq(S)
  PROVE  /\ Unreaped(old) \in Seq(S)
         /\ \A i \in 1..Len(old) : ~Ready(old[i]) =>
              \E j \in 1..Len(Unreaped(old)) : Unreaped(old)[j] = old[i]
         /\ \A q \in Reaped(old) : Ready(q)
         /\ Reaped(old) \subseteq {old[i] : i \in 1..Len(old)}
  <1> DEFINE waiting == {i \in 1..Len(old) : ~Ready(old[i])}
             first == CHOOSE i \in waiting : \A j \in waiting : i <= j
  <1>0. Len(old) \in Nat /\ waiting \subseteq 1..Len(old) /\ \A i \in 1..Len(old) : old[i] \in S
    BY LenProperties, ElementOfSeq
  <1>1. CASE waiting = {}
    <2>1. Unreaped(old) = <<>>
      BY <1>1 DEF Unreaped
    <2>2. Reaped(old) = {old[i] : i \in 1..Len(old)}
      BY <2>1, <1>0 DEF Reaped
    <2> QED
      BY <1>0, <1>1, <2>1, <2>2
  <1>2. CASE waiting # {}
    <2>1. first \in waiting /\ \A j \in waiting : first <= j
      <3>1. waiting \in SUBSET Nat
        BY <1>0
      <3>2. \E i \in waiting : \A j \in waiting : i <= j
        BY <1>2, <3>1, Least
      <3> QED
        BY <3>2
    <2>2. Unreaped(old) = SubSeq(old, first, Len(old))
      BY <1>2 DEF Unreaped
    <2> HIDE DEF first
    <2>3. first \in 1..Len(old)
      BY <2>1
    <2>4. /\ Unreaped(old) \in Seq(S) /\ Len(Unreaped(old)) = Len(old) - first + 1
          /\ \A j \in 1..Len(old) - first + 1 : Unreaped(old)[j] = old[first + j - 1]
      BY <1>0, <2>2, <2>3, SubSeqProperties
    <2>5. ASSUME NEW i \in 1..Len(old), ~Ready(old[i])
          PROVE \E j \in 1..Len(Unreaped(old)) : Unreaped(old)[j] = old[i]
      <3>1. first <= i
        BY <2>1, <2>5
      <3>2. i - first + 1 \in 1..Len(Unreaped(old)) /\ first + (i - first + 1) - 1 = i
        BY <1>0, <2>3, <2>4, <3>1
      <3> QED
        BY <2>4, <3>2
    <2>6. Reaped(old) = {old[i] : i \in 1..first - 1}
      BY <1>0, <2>3, <2>4 DEF Reaped
    <2>7. \A i \in 1..first - 1 : i \in 1..Len(old) /\ Ready(old[i])
      BY <1>0, <2>1, <2>3
    <2> QED
      BY <2>4, <2>5, <2>6, <2>7
  <1> QED
    BY <1>1, <1>2

(* The questions.  One that is unanswered is pending or was retired, and   *)
(* the thread asks only when no other is unanswered.                       *)
Retireds == {retired[i] : i \in 1..Len(retired)}
QuestionTypes ==
    /\ retired \in Seq(1..asked) /\ pending \in 0..asked /\ scoring \in 0..asked
    /\ verdict \in [Queries -> {"none", "queued", "scoring", "hold", "end",
                                "failed", "cancelled"}]
Asking ==
    /\ queries = <<>> \/ \E q \in 1..asked : queries = <<q>> /\ scoring = None
    /\ endpoint = "scoring" => scoring # None
    /\ \A q \in Queries : /\ verdict[q] = "queued" <=> queries = <<q>>
                          /\ verdict[q] = "scoring" <=> q = scoring
Tracked == Unanswered \subseteq {pending} \cup Retireds
AsksAlone ==
    /\ place = "submit" => pending = None /\ retired = <<>>
    /\ place = "verdict" => pending # None
QuestionsInv == QuestionTypes /\ Asking /\ Tracked /\ AsksAlone

LEMMA InitQuestionsInv == Init => QuestionsInv
  <1> SUFFICES ASSUME Init PROVE QuestionsInv
    OBVIOUS
  <1>1. QuestionTypes
    BY DEF Init, QuestionTypes, None
  <1>2. Asking /\ Tracked /\ AsksAlone
    BY DEF Init, Asking, Tracked, Unanswered, AsksAlone, Queries, None
  <1> QED
    BY <1>1, <1>2 DEF QuestionsInv

(* What retiring the pending question does.                                *)
LEMMA RetireFacts ==
  ASSUME QuestionTypes, TypeInv
  PROVE  /\ Retire(retired) \in Seq(1..asked)
         /\ {Retire(retired)[i] : i \in 1..Len(Retire(retired))} \cup {None} =
              Retireds \cup {pending} \cup {None}
  <1>1. CASE pending = None
    BY <1>1 DEF Retire, QuestionTypes, Retireds
  <1>2. CASE pending # None
    <2>1. pending \in 1..asked /\ retired \in Seq(1..asked) /\ Retire(retired) = Append(retired, pending)
      BY <1>2 DEF QuestionTypes, Retire, None, TypeInv, Numbers
    <2>2. /\ Retire(retired) \in Seq(1..asked) /\ Len(Retire(retired)) = Len(retired) + 1
          /\ \A i \in 1..Len(retired) : Retire(retired)[i] = retired[i]
          /\ Retire(retired)[Len(retired) + 1] = pending /\ Len(retired) \in Nat
      BY <2>1, AppendProperties, LenProperties
    <2>3. {Retire(retired)[i] : i \in 1..Len(Retire(retired))} = Retireds \cup {pending}
      BY <2>2 DEF Retireds
    <2> QED
      BY <2>2, <2>3
  <1> QED
    BY <1>1, <1>2

(* Steps that may retire the pending question, and ask nothing.            *)
LEMMA RetiringKeeps ==
  ASSUME TypeInv, QuestionsInv, UNCHANGED <<asked, verdict, queries, scoring, endpoint>>,
         \/ UNCHANGED <<pending, retired>>
         \/ pending' = None /\ retired' = Retire(retired),
         place' \notin {"submit", "verdict"}
  PROVE  QuestionsInv'
  <1>1. QuestionTypes'
    BY RetireFacts DEF QuestionsInv, QuestionTypes, None, TypeInv, Numbers
  <1>2. Asking' /\ AsksAlone'
    BY DEF QuestionsInv, Asking, AsksAlone
  <1>3. Tracked'
    <2>1. Unanswered' = Unanswered
      BY DEF Unanswered
    <2>2. (Retireds \cup {pending} \cup {None})' = Retireds \cup {pending} \cup {None}
      BY RetireFacts DEF QuestionsInv, Retireds
    <2>3. None \notin Unanswered
      BY DEF Unanswered, Queries, None
    <2> QED
      BY <2>1, <2>2, <2>3 DEF QuestionsInv, Tracked
  <1> QED
    BY <1>1, <1>2, <1>3 DEF QuestionsInv

(* Steps of the other threads that touch no question.                      *)
LEMMA QuestionsFrame ==
  ASSUME QuestionsInv, UNCHANGED <<asked, verdict, queries, scoring, endpoint, pending, retired, place>>
  PROVE  QuestionsInv'
  BY DEF QuestionsInv, QuestionTypes, Asking, Tracked, Unanswered, Retireds, AsksAlone

(* At submit, no question is unanswered.                                   *)
LEMMA NoneUnanswered ==
  ASSUME TypeInv, QuestionsInv, place = "submit"
  PROVE  Unanswered = {} /\ queries = <<>> /\ scoring = None
  <1>1. Retireds = {} /\ pending = None
    BY DEF QuestionsInv, AsksAlone, Retireds
  <1>2. Unanswered = {}
    BY <1>1 DEF QuestionsInv, Tracked, Unanswered, Queries, None
  <1>3. asked \in 0..MaxBlocks
    BY BoundsAssumption DEF TypeInv, Numbers
  <1>4. \A q \in 1..asked : q \in Queries /\ verdict[q] \notin {"queued", "scoring"}
    BY <1>2, <1>3, BoundsAssumption DEF Unanswered, Queries
  <1>5. queries = <<>>
    BY <1>4 DEF QuestionsInv, Asking
  <1>6. scoring = None
    <2>1. scoring \in 0..asked /\ asked \in Nat
      BY <1>3 DEF QuestionsInv, QuestionTypes
    <2> QED
      BY <1>4, <2>1 DEF QuestionsInv, Asking, None
  <1> QED
    BY <1>2, <1>5, <1>6

LEMMA PollKeepsQuestions ==
  ASSUME TypeInv, QuestionsInv, Poll
  PROVE  QuestionsInv'
  <1> DEFINE old == IF CutShort THEN Retire(retired) ELSE retired
             rest == Unreaped(old)
             open == {old[i] : i \in 1..Len(old)}
  <1>1. /\ pending' = IF CutShort THEN None ELSE pending
        /\ retired' = rest /\ Consume(Reaped(old))
        /\ UNCHANGED <<asked, queries, scoring, endpoint>>
        /\ place' = "submit" => pending' = None /\ rest = <<>>
        /\ place' = "verdict" => pending' # None
    BY DEF Poll, RecognitionFrame, MayAsk
  <1>2. /\ old \in Seq(1..asked) /\ open \cup {pending', None} = Retireds \cup {pending, None}
    <2>1. CASE CutShort
      BY <1>1, <2>1, RetireFacts DEF QuestionsInv
    <2>2. CASE ~CutShort
      BY <1>1, <2>2 DEF QuestionsInv, QuestionTypes, Retireds
    <2> QED
      BY <2>1, <2>2
  <1>3. /\ rest \in Seq(1..asked) /\ Reaped(old) \subseteq open
        /\ \A q \in open : ~Ready(q) => q \in {rest[j] : j \in 1..Len(rest)}
        /\ \A q \in Reaped(old) : Ready(q)
    <2> HIDE DEF old
    <2>1. /\ Unreaped(old) \in Seq(1..asked)
          /\ \A i \in 1..Len(old) : ~Ready(old[i]) =>
               \E j \in 1..Len(Unreaped(old)) : Unreaped(old)[j] = old[i]
          /\ \A q \in Reaped(old) : Ready(q)
          /\ Reaped(old) \subseteq {old[i] : i \in 1..Len(old)}
      BY <1>2, UnreapedFacts
    <2> QED
      BY <2>1
  <1> HIDE DEF old
  <1>4. verdict' = [q \in Queries |-> IF q \in Reaped(old) THEN "none" ELSE verdict[q]]
    BY <1>1 DEF Consume
  <1>5. QuestionTypes'
    BY <1>1, <1>3, <1>4 DEF QuestionsInv, QuestionTypes, None, TypeInv, Numbers
  <1>6. \A q \in Queries : verdict'[q] = IF q \in Reaped(old) THEN "none" ELSE verdict[q]
    BY <1>4
  <1>7. Asking'
    BY <1>1, <1>3, <1>6 DEF QuestionsInv, Asking, Ready
  <1>8. Tracked'
    <2>1. SUFFICES ASSUME NEW q \in Unanswered' PROVE q = pending' \/ q \in Retireds'
      BY DEF Tracked
    <2>2. q \in Queries /\ q \in Unanswered /\ ~Ready(q) /\ q # None
      BY <1>6, <2>1 DEF Unanswered, Ready, Queries, None
    <2>3. q \in open \cup {pending'}
      BY <1>2, <2>2 DEF QuestionsInv, Tracked
    <2>4. Retireds' = {rest[j] : j \in 1..Len(rest)}
      BY <1>1 DEF Retireds
    <2> QED
      BY <1>3, <2>2, <2>3, <2>4
  <1>9. AsksAlone'
    BY <1>1 DEF AsksAlone
  <1> QED
    BY <1>5, <1>7, <1>8, <1>9 DEF QuestionsInv

LEMMA SubmitKeepsQuestions ==
  ASSUME TypeInv, QuestionsInv, Submit
  PROVE  QuestionsInv'
  <1> DEFINE q == asked + 1
  <1>1. /\ place = "submit" /\ place' \in {"verdict", "settle"} /\ asked' = q
        /\ verdict' = [verdict EXCEPT ![q] = "queued"]
        /\ queries' = Append(queries, q) /\ pending' = q
        /\ UNCHANGED <<retired, scoring, endpoint>>
    BY DEF Submit, RecognitionFrame
  <1>2. Unanswered = {} /\ queries = <<>> /\ scoring = None /\ retired = <<>>
    BY <1>1, NoneUnanswered DEF QuestionsInv, AsksAlone
  <1>3. q \in Queries /\ q \in Nat \ {0} /\ queries' = <<q>>
    BY <1>1, <1>2, BoundsAssumption DEF TypeInv, Numbers, Queries
  <1>4. QuestionTypes'
    <2>1. retired' \in Seq(1..asked')
      BY <1>1, <1>2
    <2> QED
      BY <1>1, <1>2, <1>3, <2>1 DEF QuestionsInv, QuestionTypes, None
  <1>5. \A p \in Queries : verdict'[p] = IF p = q THEN "queued" ELSE verdict[p]
    BY <1>1, <1>3 DEF QuestionsInv, QuestionTypes
  <1>6. Asking'
    BY <1>1, <1>2, <1>3, <1>5 DEF QuestionsInv, Asking, Unanswered, Queries, None
  <1>7. Tracked' /\ AsksAlone'
    BY <1>1, <1>2, <1>3, <1>5 DEF Tracked, Unanswered, AsksAlone, None
  <1> QED
    BY <1>4, <1>6, <1>7 DEF QuestionsInv

LEMMA VerdictKeepsQuestions ==
  ASSUME TypeInv, QuestionsInv, Resolve \/ Late
  PROVE  QuestionsInv'
  <1>1. CASE Resolve
    <2>1. /\ verdict[pending] \in {"hold", "end"} /\ pending' = None /\ Consume({pending})
          /\ UNCHANGED <<retired, asked, queries, scoring, endpoint>> /\ place' = "settle"
      BY <1>1 DEF Resolve, RecognitionFrame
    <2>2. \A q \in Queries : verdict'[q] = IF q = pending THEN "none" ELSE verdict[q]
      BY <2>1 DEF Consume
    <2>3. QuestionTypes'
      BY <2>1 DEF QuestionsInv, QuestionTypes, Consume, None, TypeInv, Numbers
    <2>4. Asking' /\ AsksAlone'
      BY <2>1, <2>2 DEF QuestionsInv, Asking, AsksAlone
    <2>5. Tracked'
      BY <2>1, <2>2 DEF QuestionsInv, Tracked, Unanswered, Retireds
    <2> QED
      BY <2>3, <2>4, <2>5 DEF QuestionsInv
  <1>2. CASE Late
    BY <1>2, RetiringKeeps DEF Late, RecognitionFrame
  <1> QED
    BY <1>1, <1>2

LEMMA CloseGateKeepsQuestions ==
  ASSUME TypeInv, QuestionsInv, CloseGate
  PROVE  QuestionsInv'
  <1> DEFINE old == Retire(retired)
  <1>1. /\ Unreaped(old) = <<>> /\ retired' = <<>> /\ pending' = None /\ Consume(Reaped(old))
        /\ UNCHANGED <<asked, queries, scoring, endpoint>> /\ place' = "report"
    BY DEF CloseGate, RecognitionFrame
  <1>2. /\ old \in Seq(1..asked)
        /\ {old[i] : i \in 1..Len(old)} \cup {None} = Retireds \cup {pending} \cup {None}
    BY RetireFacts DEF QuestionsInv
  <1>3. \A q \in {old[i] : i \in 1..Len(old)} : Ready(q)
    BY <1>1, <1>2, UnreapedFacts
  <1>4. \A q \in Reaped(old) : Ready(q)
    BY <1>2, UnreapedFacts
  <1> HIDE DEF old
  <1>5. \A q \in Queries : verdict'[q] = IF q \in Reaped(old) THEN "none" ELSE verdict[q]
    BY <1>1 DEF Consume
  <1>6. QuestionTypes'
    BY <1>1 DEF QuestionsInv, QuestionTypes, Consume, None, TypeInv, Numbers
  <1>7. Asking' /\ AsksAlone'
    BY <1>1, <1>4, <1>5 DEF QuestionsInv, Asking, AsksAlone, Ready
  <1>8. Unanswered' = {}
    <2>1. Unanswered = {}
      BY <1>2, <1>3 DEF QuestionsInv, Tracked, Unanswered, Ready, Queries, None
    <2> QED
      BY <1>5, <2>1 DEF Unanswered
  <1> QED
    BY <1>6, <1>7, <1>8 DEF QuestionsInv, Tracked

LEMMA RecognitionKeepsQuestions ==
  ASSUME TypeInv, QuestionsInv, RecognitionStep
  PROVE  QuestionsInv'
  <1> USE RecognitionFrames DEF RecognitionFrame, GateKept
  <1>1. ASSUME NEW v \in BOOLEAN, TakeBlock(v) PROVE QuestionsInv'
    <2>1. /\ UNCHANGED <<asked, verdict, queries, scoring, endpoint>> /\ place' \in {"take", "poll"}
          /\ \/ UNCHANGED <<pending, retired>>
             \/ pending' = None /\ retired' = Retire(retired)
      BY <1>1 DEF TakeBlock
    <2> QED
      BY <2>1, RetiringKeeps
  <1>2. CASE PollSkipped \/ InputDone \/ RecognitionExit \/ Continue
    <2>1. UNCHANGED <<asked, verdict, queries, scoring, endpoint, pending, retired>>
          /\ place' \in {"take", "exited"}
      BY <1>2 DEF PollSkipped, InputDone, RecognitionExit, Continue
    <2> QED
      BY <2>1, RetiringKeeps
  <1>3. ASSUME NEW reason, Leave(reason) PROVE QuestionsInv'
    BY <1>3, RetiringKeeps DEF Leave
  <1>4. CASE EndTurn
    <2>1. CASE Len(provisional) > Commit - Trigger
      BY <1>3, <1>4, <2>1 DEF EndTurn
    <2>2. CASE ~(Len(provisional) > Commit - Trigger)
      BY <1>4, <2>2, RetiringKeeps DEF EndTurn, CompleteTurn
    <2> QED
      BY <2>1, <2>2
  <1>5. CASE FinishTurn
    BY <1>5, RetiringKeeps DEF FinishTurn, CompleteTurn
  <1>6. CASE RecognizerFails \/ Refused \/ VerdictBroken \/ Unretired
    BY <1>3, <1>6 DEF RecognizerFails, Refused, VerdictBroken, Unretired
  <1> QED
    BY <1>1, <1>2, <1>4, <1>5, <1>6, PollKeepsQuestions, SubmitKeepsQuestions,
       VerdictKeepsQuestions, CloseGateKeepsQuestions DEF RecognitionStep

LEMMA EndpointKeepsQuestions ==
  ASSUME TypeInv, QuestionsInv, EndpointStep
  PROVE  QuestionsInv'
  <1>1. UNCHANGED <<asked, pending, retired, place>> /\ asked \in 0..MaxBlocks
    BY OtherFrames, BoundsAssumption DEF EndpointStep, StartScore, EndScore, ScoreFails,
       EndpointExit, GateKept, ThreadKept, TypeInv, Numbers
  <1>2. AsksAlone'
    BY <1>1 DEF QuestionsInv, AsksAlone
  <1>3. CASE StartScore
    <2>1. PICK q \in 1..asked : queries = <<q>> /\ scoring = None
      BY <1>3 DEF StartScore, QuestionsInv, Asking
    <2>2. scoring' = q /\ queries' = <<>> /\ verdict' = [verdict EXCEPT ![q] = "scoring"] /\ q \in Queries
      <3>1. Head(<<q>>) = q /\ Tail(<<q>>) = <<>>
        OBVIOUS
      <3> QED
        BY <1>1, <1>3, <2>1, <3>1, BoundsAssumption DEF StartScore, Queries
    <2>3. QuestionTypes'
      BY <1>1, <2>2 DEF QuestionsInv, QuestionTypes
    <2>4. \A p \in Queries : verdict'[p] = IF p = q THEN "scoring" ELSE verdict[p]
      BY <2>2 DEF QuestionsInv, QuestionTypes
    <2>5. Asking'
      BY <1>1, <2>1, <2>2, <2>4 DEF QuestionsInv, Asking, None, Queries
    <2>6. Unanswered' \subseteq Unanswered
      BY <2>1, <2>4 DEF QuestionsInv, Asking, Unanswered
    <2>7. Tracked'
      BY <1>1, <2>6 DEF QuestionsInv, Tracked, Retireds
    <2> QED
      BY <1>2, <2>3, <2>5, <2>7 DEF QuestionsInv
  <1>4. CASE EndScore \/ ScoreFails
    <2>1. /\ endpoint = "scoring" /\ scoring' = None /\ endpoint' # "scoring" /\ UNCHANGED queries
          /\ \E answer \in {"hold", "end", "failed", "cancelled"} :
               verdict' = [verdict EXCEPT ![scoring] = answer]
      BY <1>4 DEF EndScore, ScoreFails
    <2>2. PICK answer \in {"hold", "end", "failed", "cancelled"} :
             verdict' = [verdict EXCEPT ![scoring] = answer]
      BY <2>1
    <2>3. scoring \in Queries
      <3>1. scoring \in 1..asked
        BY <2>1 DEF QuestionsInv, Asking, QuestionTypes, None
      <3> QED
        BY <1>1, <3>1, BoundsAssumption DEF Queries
    <2>4. QuestionTypes'
      BY <1>1, <2>1, <2>2, <2>3 DEF QuestionsInv, QuestionTypes, None
    <2>5. \A p \in Queries : verdict'[p] = IF p = scoring THEN answer ELSE verdict[p]
      BY <2>2 DEF QuestionsInv, QuestionTypes
    <2>6. Asking'
      BY <1>1, <2>1, <2>3, <2>5 DEF QuestionsInv, Asking, None, Queries
    <2>7. Tracked'
      BY <1>1, <2>5 DEF QuestionsInv, Tracked, Unanswered, Retireds
    <2> QED
      BY <1>2, <2>4, <2>6, <2>7 DEF QuestionsInv
  <1>5. CASE EndpointExit
    <2>1. /\ queries' = <<>> /\ endpoint' = "exited" /\ UNCHANGED scoring
          /\ \A q \in Queries : verdict'[q] \in {verdict[q], "failed"}
          /\ \A q \in Queries : queries = <<q>> => verdict'[q] = "failed"
          /\ verdict' = [q \in Queries |-> verdict'[q]]
          /\ \A q \in Queries : verdict[q] = "scoring" => verdict'[q] = "scoring"
      <3>1. \A q \in Queries : (\E i \in 1..Len(queries) : queries[i] = q) <=> queries = <<q>>
        BY DEF QuestionsInv, Asking
      <3>2. verdict' = [q \in Queries |-> IF queries = <<q>> THEN "failed" ELSE verdict[q]]
        BY <1>5, <3>1 DEF EndpointExit
      <3> QED
        BY <1>5, <3>2 DEF EndpointExit, QuestionsInv, Asking
    <2>2. QuestionTypes'
      BY <1>1, <2>1 DEF QuestionsInv, QuestionTypes
    <2>3. Asking'
      BY <1>1, <2>1 DEF QuestionsInv, Asking
    <2>4. Tracked'
      BY <1>1, <2>1 DEF QuestionsInv, Tracked, Unanswered, Retireds
    <2> QED
      BY <1>2, <2>2, <2>3, <2>4 DEF QuestionsInv
  <1> QED
    BY <1>3, <1>4, <1>5 DEF EndpointStep

LEMMA NextKeepsQuestions == TypeInv /\ QuestionsInv /\ [Next]_vars => QuestionsInv'
  <1> SUFFICES ASSUME TypeInv, QuestionsInv, [Next]_vars PROVE QuestionsInv'
    OBVIOUS
  <1>1. CASE UNCHANGED vars
    BY <1>1, StutterFrames, QuestionsFrame DEF GateKept, ThreadKept, EndpointKept
  <1>2. CASE SpeakerStep \/ RestStep
    <2>1. UNCHANGED <<asked, verdict, queries, scoring, endpoint, pending, retired, place>>
      BY <1>2, OtherFrames DEF SpeakerStep, Identify, Identified, SpeakerFails, SpeakerExit,
         RestStep, EndOfBlocks, CloseDrain, CloseAbort, OthersFault, GateKept, ThreadKept, EndpointKept
    <2> QED
      BY <2>1, QuestionsFrame
  <1> QED
    BY <1>1, <1>2, RecognitionKeepsQuestions, EndpointKeepsQuestions DEF Next

----------------------------------------------------------------------------
(* A run of blocks that ends with block m.                                 *)
Run(m, n) == [i \in 1..n |-> m - n + i]

LEMMA RunFacts ==
  ASSUME NEW m \in Nat, NEW n \in 0..m
  PROVE  /\ Run(m, n) \in Seq(1..m) /\ Len(Run(m, n)) = n
         /\ \A i \in 1..n : Run(m, n)[i] = m - n + i
         /\ Run(m, n) = <<>> <=> n = 0
         /\ Append(Run(m, n), m + 1) = Run(m + 1, n + 1)
  <1>1. Run(m, n) \in [1..n -> 1..m] /\ n \in Nat
    BY DEF Run
  <1>2. /\ Run(m, n) \in Seq(1..m) /\ Len(Run(m, n)) = n
        /\ \A i \in 1..n : Run(m, n)[i] = m - n + i
    <2>1. Run(m, n) \in Seq(1..m)
      BY <1>1, SeqDef
    <2>2. DOMAIN Run(m, n) = 1..n /\ DOMAIN Run(m, n) = 1..Len(Run(m, n)) /\ Len(Run(m, n)) \in Nat
      BY <1>1, <2>1, LenProperties
    <2> QED
      BY <1>1, <2>1, <2>2 DEF Run
  <1>3. Run(m, n) = <<>> <=> n = 0
    BY <1>2, EmptySeq
  <1>4. Append(Run(m, n), m + 1) = Run(m + 1, n + 1)
    <2>1. Run(m, n) \in Seq(1..m + 1)
      BY <1>2, SeqMonotonic, 1..m \subseteq 1..m + 1
    <2> DEFINE s == Append(Run(m, n), m + 1)
               t == Run(m + 1, n + 1)
    <2>2. /\ s \in Seq(1..m + 1) /\ Len(s) = n + 1
          /\ \A i \in 1..n : s[i] = m - n + i
          /\ s[n + 1] = m + 1
      BY <1>2, <2>1, AppendProperties
    <2>3. t \in Seq(1..m + 1) /\ Len(t) = n + 1 /\ \A i \in 1..n + 1 : t[i] = m - n + i
      <3>1. t \in [1..n + 1 -> 1..m + 1] /\ n + 1 \in Nat /\ \A i \in 1..n + 1 : t[i] = m - n + i
        BY DEF Run
      <3>2. t \in Seq(1..m + 1)
        BY <3>1, SeqDef
      <3>3. Len(t) \in Nat /\ DOMAIN t = 1..Len(t) /\ DOMAIN t = 1..n + 1
        BY <3>1, <3>2, LenProperties
      <3> QED
        BY <3>1, <3>2, <3>3
    <2> HIDE DEF s, t
    <2>4. \A i \in 1..Len(s) : s[i] = t[i]
      BY <2>2, <2>3
    <2>5. s = t
      BY <2>2, <2>3, <2>4, SeqEqual
    <2> QED
      BY <2>5 DEF s, t
  <1> QED
    BY <1>2, <1>3, <1>4

(* The blocks kept back are the newest, and fewer than lie between the     *)
(* question and the time of its verdict.  The numbers of the thread's      *)
(* places: while blocks are kept back a question is pending, and the       *)
(* silence was long enough to ask it and is too short to resolve it.       *)
Tail_ == Len(provisional)
TailShape == Tail_ \in 0..taken /\ provisional = Run(taken, Tail_) /\ Tail_ <= Commit - Trigger
TailPlaces ==
    /\ place \in {"close", "report"} \/ inputDone => Tail_ = 0
    /\ place \in {"take", "poll"} /\ ~active => ~boundary
    /\ place \in {"poll", "submit", "verdict", "settle"} => active
    /\ place \in {"take", "poll", "submit", "verdict", "settle"} /\ ~boundary => Tail_ = 0
TailTimes ==
    /\ (place = "take" /\ ~stopping) \/ place = "poll" => (boundary <=> pending # None)
    /\ place = "take" /\ ~stopping /\ boundary => silence < Commit /\ Tail_ + Trigger <= silence
    /\ place = "poll" /\ boundary => silence < Commit /\ Tail_ + Trigger <= silence + 1
    /\ place = "submit" => ~boundary /\ silence >= Trigger /\ decision = "none"
    /\ place = "verdict" => decision = "none"
    /\ place = "settle" /\ pending # None =>
          ~voiced /\ (decision = "none" => silence < Commit /\ Tail_ + Trigger <= silence)
TailInv == TailShape /\ TailPlaces /\ TailTimes

LEMMA InitTailInv == Init => TailInv
  <1> SUFFICES ASSUME Init PROVE TailInv
    OBVIOUS
  <1>1. Run(0, 0) = <<>> /\ Len(<<>>) = 0
    BY RunFacts
  <1>2. TailShape
    BY <1>1, SilenceAssumption DEF Init, TailShape, Tail_
  <1> QED
    BY <1>1, <1>2 DEF Init, TailInv, TailPlaces, TailTimes, Tail_, None

(* Steps that leave the pause alone, or go where nothing is kept back.     *)
LEMMA TailFrame ==
  ASSUME TailInv, UNCHANGED <<taken, place, voiced, decision, active, silence, boundary,
                              provisional, pending, inputDone>>,
         stopping => stopping'
  PROVE  TailInv'
  <1>1. TailShape'
    BY DEF TailInv, TailShape, Tail_, Run
  <1> QED
    BY <1>1 DEF TailInv, TailPlaces, TailTimes, Tail_

LEMMA LeavesTheTail ==
  ASSUME TypeInv, TailInv, UNCHANGED <<taken, provisional>>,
         \/ place' = "exited" /\ (inputDone' => inputDone \/ place = "report")
         \/ place' = "report" /\ place = "close" /\ UNCHANGED inputDone
         \/ place' = "take" /\ place = "poll" /\ stopping' /\ UNCHANGED <<active, boundary, inputDone>>
  PROVE  TailInv'
  <1>1. TailShape'
    BY DEF TailInv, TailShape, Tail_, Run
  <1>2. Tail_' = Tail_
    BY DEF Tail_
  <1>3. TailPlaces' /\ TailTimes'
    BY <1>2 DEF TailInv, TailPlaces, TailTimes, TypeInv, Places
  <1> QED
    BY <1>1, <1>3 DEF TailInv

LEMMA TailNumbers ==
  ASSUME TypeInv, TailInv
  PROVE  /\ taken \in Nat /\ Tail_ \in 0..taken /\ provisional = Run(taken, Tail_)
         /\ Tail_ <= Commit - Trigger /\ silence \in Nat
         /\ Trigger \in Nat /\ Commit \in Nat /\ Trigger < Commit
  <1>1. taken \in Nat /\ silence \in Nat
    BY DEF TypeInv, Numbers
  <1>2. Trigger \in Nat /\ Commit \in Nat /\ Trigger < Commit
    BY SilenceAssumption
  <1> QED
    BY <1>1, <1>2 DEF TailInv, TailShape

LEMMA TakeBlockKeepsTail ==
  ASSUME TypeInv, TailInv, NEW v \in BOOLEAN, TakeBlock(v)
  PROVE  TailInv'
  <1> DEFINE opens == ~active /\ v
             kept == active /\ boundary
  <1>1. /\ place = "take" /\ ~stopping /\ taken' = taken + 1 /\ voiced' = v
        /\ active' = (active \/ v)
        /\ silence' = (IF opens THEN 0 ELSE silence)
        /\ boundary' = (IF opens THEN FALSE ELSE boundary)
        /\ provisional' = (IF kept THEN Append(provisional, taken') ELSE provisional)
        /\ pending' = (IF opens THEN None ELSE pending)
        /\ place' = (IF active' THEN "poll" ELSE "take")
        /\ UNCHANGED <<stopping, inputDone, decision>>
    BY DEF TakeBlock, KeepBack, RecognitionFrame
  <1>2. taken \in Nat /\ Tail_ \in 0..taken /\ provisional = Run(taken, Tail_)
        /\ Trigger \in Nat /\ Commit \in Nat /\ Trigger < Commit /\ silence \in Nat
    BY TailNumbers
  <1>3. CASE kept
    <2>1. provisional' = Run(taken', Tail_ + 1)
      BY <1>1, <1>2, <1>3, RunFacts
    <2>2. Tail_' = Tail_ + 1
      BY <1>1, <1>2, <2>1, RunFacts DEF Tail_
    <2>3. silence < Commit /\ Tail_ + Trigger <= silence
      BY <1>1, <1>3 DEF TailInv, TailTimes
    <2>4. TailShape'
      <3>1. Tail_' \in 0..taken' /\ Tail_' <= Commit - Trigger
        BY <1>1, <1>2, <2>2, <2>3
      <3> QED
        BY <2>1, <2>2, <3>1 DEF TailShape
    <2>5. TailPlaces'
      BY <1>1, <1>3 DEF TailInv, TailPlaces, TypeInv, Places
    <2>6. /\ place' = "poll" /\ boundary' /\ UNCHANGED <<silence, boundary>>
          /\ pending' = pending /\ pending # None /\ Tail_' + Trigger <= silence' + 1
      <3>1. active /\ boundary /\ ~opens
        BY <1>3
      <3>2. UNCHANGED <<silence, boundary, pending>> /\ place' = "poll" /\ boundary'
        BY <1>1, <3>1
      <3>3. pending # None
        BY <1>1, <3>1 DEF TailInv, TailTimes
      <3>4. Tail_' + Trigger <= silence' + 1
        BY <1>2, <2>2, <2>3, <3>2
      <3> QED
        BY <3>2, <3>3, <3>4
    <2>7. TailTimes'
      BY <2>3, <2>6 DEF TailTimes
    <2> QED
      BY <2>4, <2>5, <2>7 DEF TailInv
  <1>4. CASE ~kept
    <2>1. ~boundary /\ Tail_ = 0
      BY <1>1, <1>4 DEF TailInv, TailPlaces
    <2>2. provisional' = <<>> /\ Run(taken', 0) = <<>> /\ Tail_' = 0
      <3>1. Run(taken, 0) = <<>> /\ Run(taken', 0) = <<>> /\ Len(<<>>) = 0
        <4>1. taken' \in Nat /\ 0 \in 0..taken /\ 0 \in 0..taken' /\ Len(<<>>) = 0
          BY <1>1, <1>2
        <4> QED
          BY <1>2, <4>1, RunFacts
      <3> QED
        BY <1>1, <1>2, <1>4, <2>1, <3>1 DEF Tail_
    <2>3. TailShape'
      <3>1. Tail_' \in 0..taken' /\ Tail_' <= Commit - Trigger
        BY <1>1, <1>2, <2>2
      <3> QED
        BY <2>2, <3>1 DEF TailShape
    <2>4. TailPlaces'
      BY <1>1, <2>1, <2>2 DEF TailInv, TailPlaces
    <2>5. TailTimes'
      BY <1>1, <2>1 DEF TailInv, TailTimes
    <2> QED
      BY <2>3, <2>4, <2>5 DEF TailInv
  <1> QED
    BY <1>3, <1>4

LEMMA PollKeepsTail ==
  ASSUME TypeInv, TailInv, Poll
  PROVE  TailInv'
  <1>1. /\ place = "poll"
        /\ silence' = (IF voiced THEN 0 ELSE silence + 1)
        /\ pending' = (IF voiced THEN None ELSE pending)
        /\ UNCHANGED <<taken, voiced, active, boundary, provisional, inputDone>>
        /\ decision' = (IF ~voiced /\ silence' >= Maximum THEN "silence" ELSE "none")
        /\ \/ place' = "settle" /\ (voiced \/ silence' >= Maximum \/ ~(pending' # None /\ silence' >= Commit))
           \/ place' = "submit" /\ silence' >= Trigger /\ pending' = None /\ ~(voiced \/ silence' >= Maximum)
           \/ place' = "verdict" /\ ~(voiced \/ silence' >= Maximum)
    BY DEF Poll, RecognitionFrame, CutShort, MayAsk
  <1>2. TailShape' /\ Tail_' = Tail_
    BY <1>1 DEF TailInv, TailShape, Tail_, Run
  <1>3. TailPlaces'
    BY <1>1, <1>2 DEF TailInv, TailPlaces, TypeInv, Places
  <1>4. silence \in Nat /\ Commit \in Nat /\ Trigger \in Nat /\ Tail_ \in Nat
    BY TailNumbers
  <1>5. TailTimes'
    BY <1>1, <1>2, <1>4 DEF TailInv, TailTimes
  <1> QED
    BY <1>2, <1>3, <1>5 DEF TailInv

LEMMA AskingKeepsTail ==
  ASSUME TypeInv, TailInv, Submit \/ Resolve \/ Late
  PROVE  TailInv'
  <1> USE RecognitionFrames DEF TurnKept, RecognitionFrame
  <1>1. UNCHANGED <<taken, voiced, active, silence, boundary, provisional, inputDone>>
    BY DEF Submit, Resolve, Late
  <1>2. TailShape' /\ Tail_' = Tail_
    BY <1>1 DEF TailInv, TailShape, Tail_, Run
  <1>3. place \in {"submit", "verdict"} /\ place' \in {"verdict", "settle"}
    BY DEF Submit, Resolve, Late
  <1>4. TailPlaces'
    BY <1>1, <1>2, <1>3 DEF TailInv, TailPlaces, TypeInv, Places
  <1>5. silence \in Nat /\ Commit \in Nat /\ Trigger \in Nat /\ Tail_ \in Nat
    BY TailNumbers
  <1>6. TailTimes'
    <2>1. CASE Submit
      <3>1. place = "submit" /\ UNCHANGED decision /\ place' = IF silence >= Commit THEN "verdict" ELSE "settle"
        BY <2>1 DEF Submit
      <3>2. Tail_ = 0 /\ silence >= Trigger /\ decision = "none" /\ ~voiced
        BY <3>1 DEF TailInv, TailTimes, TailPlaces, TypeInv, Places
      <3> QED
        BY <1>1, <1>2, <1>5, <3>1, <3>2 DEF TailTimes
    <2>2. CASE Resolve \/ Late
      BY <1>1, <2>2 DEF Resolve, Late, TailTimes
    <2> QED
      BY <2>1, <2>2
  <1> QED
    BY <1>2, <1>4, <1>6 DEF TailInv

LEMMA SettleKeepsTail ==
  ASSUME TypeInv, TailInv, Continue \/ EndTurn
  PROVE  TailInv' /\ ~(Tail_ > Commit - Trigger) /\ ~(Tail_' > Commit - Trigger)
  <1>1. /\ taken \in Nat /\ Tail_ \in 0..taken /\ provisional = Run(taken, Tail_)
        /\ Tail_ <= Commit - Trigger /\ Trigger \in Nat /\ Commit \in Nat /\ Trigger < Commit
        /\ place = "settle" /\ active /\ (~boundary => Tail_ = 0) /\ ~inputDone
    <2>1. place = "settle"
      BY DEF Continue, EndTurn
    <2>2. active /\ (~boundary => Tail_ = 0) /\ ~inputDone
      BY <2>1 DEF TailInv, TailPlaces, TypeInv, Places
    <2> QED
      BY <2>1, <2>2, TailNumbers
  <1>2. Run(taken, 0) = <<>> /\ Len(<<>>) = 0
    BY <1>1, RunFacts
  <1>3. CASE Continue
    <2> DEFINE kept == boundary \/ pending # None
               flush == kept /\ (voiced \/ pending = None)
    <2>1. /\ provisional' = (IF flush THEN <<>> ELSE provisional)
          /\ boundary' = (kept /\ ~flush) /\ decision = "none"
          /\ place' = (IF Tail_' > Commit - Trigger THEN "exited" ELSE "take")
          /\ UNCHANGED <<taken, active, silence, pending, inputDone>>
      BY <1>3, RecognitionFrames DEF Continue, Flush, GateKept, RecognitionFrame, Tail_
    <2>2. Tail_' \in {0, Tail_} /\ (flush => Tail_' = 0) /\ TailShape'
      <3>1. CASE flush
        BY <1>1, <1>2, <2>1, <3>1 DEF TailShape, Tail_
      <3>2. CASE ~flush
        BY <1>1, <2>1, <3>2 DEF TailShape, Tail_, Run
      <3> QED
        BY <3>1, <3>2
    <2>3. ~(Tail_' > Commit - Trigger) /\ place' = "take"
      BY <1>1, <2>1, <2>2
    <2>4. ~boundary' => Tail_' = 0 /\ pending' = None
      <3>1. CASE flush
        <4>1. pending = None
          BY <1>1, <3>1 DEF TailInv, TailTimes
        <4> QED
          BY <2>1, <2>2, <3>1, <4>1
      <3>2. CASE ~flush
        BY <1>1, <2>1, <2>2, <3>2 DEF Tail_
      <3> QED
        BY <3>1, <3>2
    <2>5. boundary' => pending' # None /\ silence' < Commit /\ Tail_' + Trigger <= silence'
      <3>1. SUFFICES ASSUME boundary' PROVE pending' # None /\ silence' < Commit /\ Tail_' + Trigger <= silence'
        OBVIOUS
      <3>2. pending # None /\ ~flush
        BY <2>1, <3>1
      <3>3. silence < Commit /\ Tail_ + Trigger <= silence
        BY <1>1, <2>1, <3>2 DEF TailInv, TailTimes
      <3> QED
        BY <2>1, <3>2, <3>3 DEF Tail_
    <2>6. TailPlaces' /\ TailTimes'
      BY <1>1, <2>1, <2>3, <2>4, <2>5 DEF TailPlaces, TailTimes
    <2> QED
      BY <1>1, <2>2, <2>3, <2>6 DEF TailInv
  <1>4. CASE EndTurn
    <2>1. ~(Len(provisional) > Commit - Trigger)
      BY <1>1 DEF Tail_
    <2>2. /\ provisional' = <<>> /\ boundary' = FALSE /\ active' = FALSE /\ pending' = None
          /\ place' = "take" /\ UNCHANGED <<taken, inputDone>>
      BY <1>4, <2>1 DEF EndTurn, CompleteTurn
    <2>3. Tail_' = 0 /\ TailShape'
      BY <1>1, <1>2, <2>2 DEF TailShape, Tail_
    <2>4. TailPlaces' /\ TailTimes'
      BY <1>1, <2>2, <2>3 DEF TailPlaces, TailTimes
    <2> QED
      BY <1>1, <2>3, <2>4 DEF TailInv
  <1> QED
    BY <1>3, <1>4

LEMMA FinishKeepsTail ==
  ASSUME TypeInv, TailInv, FinishTurn
  PROVE  TailInv'
  <1>1. provisional' = <<>> /\ place' = "close" /\ UNCHANGED <<taken, inputDone>>
    BY DEF FinishTurn
  <1>2. Run(taken, 0) = <<>> /\ Len(<<>>) = 0 /\ taken \in Nat /\ 0 <= Commit - Trigger
    BY RunFacts, SilenceAssumption DEF TypeInv, Numbers
  <1>3. TailShape' /\ Tail_' = 0
    BY <1>1, <1>2 DEF TailShape, Tail_
  <1> QED
    BY <1>1, <1>3 DEF TailInv, TailPlaces, TailTimes

(* Once the session stops it stays so.                                     *)
LEMMA StoppingStays == TypeInv /\ [Next]_vars /\ stopping => stopping'
  <1> SUFFICES ASSUME TypeInv, [Next]_vars, stopping PROVE stopping'
    OBVIOUS
  <1>1. CASE RecognitionStep
    BY <1>1 DEF RecognitionStep, TakeBlock, Poll, PollSkipped, Submit, Resolve, Late, Continue,
       EndTurn, FinishTurn, CloseGate, InputDone, RecognizerFails, Refused, VerdictBroken,
       Unretired, RecognitionExit, Leave, Fault, MaybeClose
  <1>2. CASE EndpointStep \/ SpeakerStep \/ RestStep
    BY <1>2 DEF EndpointStep, StartScore, EndScore, ScoreFails, EndpointExit,
       SpeakerStep, Identify, Identified, SpeakerFails, SpeakerExit, Fault, MaybeClose,
       RestStep, EndOfBlocks, CloseDrain, CloseAbort, OthersFault
  <1>3. CASE UNCHANGED vars
    BY <1>3, StutterFrames
  <1> QED
    BY <1>1, <1>2, <1>3 DEF Next

LEMMA NextKeepsTail == TypeInv /\ TailInv /\ [Next]_vars => TailInv'
  <1> SUFFICES ASSUME TypeInv, TailInv, [Next]_vars PROVE TailInv'
    OBVIOUS
  <1>0. stopping => stopping'
    BY StoppingStays
  <1>1. CASE UNCHANGED vars
    BY <1>0, <1>1, StutterFrames, TailFrame DEF TurnKept, GateKept, ThreadKept
  <1>2. CASE EndpointStep \/ SpeakerStep \/ RestStep
    <2>1. UNCHANGED <<taken, place, voiced, decision, active, silence, boundary,
                      provisional, pending, inputDone>>
      BY <1>2, OtherFrames DEF EndpointStep, StartScore, EndScore, ScoreFails, EndpointExit,
         SpeakerStep, Identify, Identified, SpeakerFails, SpeakerExit,
         RestStep, EndOfBlocks, CloseDrain, CloseAbort, OthersFault, TurnKept, GateKept, ThreadKept
    <2> QED
      BY <1>0, <2>1, TailFrame
  <1>3. CASE PollSkipped \/ InputDone \/ RecognitionExit \/ CloseGate
    BY <1>3, RecognitionFrames, LeavesTheTail DEF PollSkipped, InputDone, RecognitionExit,
       CloseGate, TurnKept, RecognitionFrame
  <1>4. CASE RecognizerFails \/ Refused \/ VerdictBroken \/ Unretired
    <2>1. PICK reason : Leave(reason)
      BY <1>4 DEF RecognizerFails, Refused, VerdictBroken, Unretired
    <2> QED
      BY <2>1, RecognitionFrames, LeavesTheTail DEF Leave, TurnKept, RecognitionFrame
  <1> QED
    BY <1>1, <1>2, <1>3, <1>4, TakeBlockKeepsTail, PollKeepsTail, AskingKeepsTail, SettleKeepsTail,
       FinishKeepsTail DEF Next, RecognitionStep

----------------------------------------------------------------------------
(* The two faults that would mean that the gate asked too much, or that too*)
(* much was kept back.                                                     *)
Refusals == (error = "endpoint admission" => aborted) /\ error # "provisional tail"

LEMMA ErrorMoves ==
  ASSUME [Next]_vars
  PROVE  /\ aborted => aborted'
         /\ \/ UNCHANGED error
            \/ error = "none" /\ error' \in {"other", "cancelled"}
            \/ error = "none" /\ Refused /\ UNCHANGED aborted
            \/ (Continue \/ EndTurn) /\ (Len(provisional) > Commit - Trigger \/ Len(provisional') > Commit - Trigger)
  <1>1. CASE UNCHANGED vars
    BY <1>1, StutterFrames
  <1>2. CASE EndpointStep \/ SpeakerStep \/ RestStep
    BY <1>2, OtherFrames DEF EndpointStep, StartScore, EndScore, ScoreFails, EndpointExit,
       SpeakerStep, Identify, Identified, SpeakerFails, SpeakerExit, Fault,
       RestStep, EndOfBlocks, CloseDrain, CloseAbort, OthersFault
  <1>3. CASE RecognitionStep
    <2>1. UNCHANGED aborted
      BY <1>3 DEF RecognitionStep, TakeBlock, Poll, PollSkipped, Submit, Resolve, Late, Continue,
         EndTurn, FinishTurn, CloseGate, InputDone, RecognizerFails, Refused, VerdictBroken,
         Unretired, RecognitionExit, Leave, RecognitionFrame
    <2>2. CASE (\E v \in BOOLEAN : TakeBlock(v)) \/ Poll \/ PollSkipped \/ Submit \/ Resolve \/ Late
      BY <2>1, <2>2 DEF TakeBlock, Poll, PollSkipped, Submit, Resolve, Late
    <2>3. CASE FinishTurn \/ CloseGate \/ InputDone \/ RecognitionExit
      BY <2>1, <2>3 DEF FinishTurn, CloseGate, InputDone, RecognitionExit
    <2>4. CASE Continue
      BY <2>1, <2>4 DEF Continue
    <2>5. CASE EndTurn
      BY <2>1, <2>5 DEF EndTurn
    <2>6. CASE RecognizerFails \/ VerdictBroken \/ Unretired
      BY <2>1, <2>6 DEF RecognizerFails, VerdictBroken, Unretired, Leave, Fault
    <2>7. CASE Refused
      BY <2>1, <2>7 DEF Refused, Leave, Fault
    <2> QED
      BY <1>3, <2>1, <2>2, <2>3, <2>4, <2>5, <2>6, <2>7 DEF RecognitionStep
  <1> QED
    BY <1>1, <1>2, <1>3 DEF Next

LEMMA NextKeepsRefusals == TypeInv /\ QuestionsInv /\ TailInv /\ Refusals /\ [Next]_vars => Refusals'
  <1> SUFFICES ASSUME TypeInv, QuestionsInv, TailInv, Refusals, [Next]_vars PROVE Refusals'
    OBVIOUS
  <1>1. ~((Continue \/ EndTurn) /\ (Len(provisional) > Commit - Trigger \/ Len(provisional') > Commit - Trigger))
    BY SettleKeepsTail DEF Tail_
  <1>2. Refused => stopping /\ (aborted \/ error # "none")
    <2>1. SUFFICES ASSUME Refused PROVE stopping /\ (aborted \/ error # "none")
      OBVIOUS
    <2>2. place = "submit" /\ ~inputDone
      BY <2>1 DEF Refused, TypeInv, Places
    <2>3. Len(queries) = 0
      BY <2>2, NoneUnanswered
    <2>4. stopping
      <3>1. stopping \/ Len(queries) >= QueryBound
        BY <2>1 DEF Refused
      <3> QED
        BY <2>3, <3>1, BoundsAssumption
    <2> QED
      BY <2>2, <2>4 DEF TypeInv, Stops
  <1> QED
    <2>1. aborted => aborted'
      BY ErrorMoves
    <2>2. CASE UNCHANGED error
      BY <2>1, <2>2 DEF Refusals
    <2>3. CASE error = "none" /\ error' \in {"other", "cancelled"}
      BY <2>3 DEF Refusals
    <2>4. CASE error = "none" /\ Refused /\ UNCHANGED aborted
      <3>1. aborted
        BY <1>2, <2>4
      <3>2. error' # "provisional tail"
        BY <2>4 DEF Refused, Leave, Fault
      <3> QED
        BY <2>4, <3>1, <3>2 DEF Refusals
    <2> QED
      BY <1>1, <2>2, <2>3, <2>4, ErrorMoves

LEMMA OneUnanswered ==
  ASSUME QuestionsInv, TypeInv
  PROVE  Cardinality(Unanswered) <= 1
  <1>1. asked \in 0..MaxBlocks
    BY BoundsAssumption DEF TypeInv, Numbers
  <1>2. ASSUME NEW p \in Unanswered, NEW q \in Unanswered PROVE p = q
    <2>1. p \in Queries /\ q \in Queries
      BY DEF Unanswered
    <2>2. /\ queries = <<p>> \/ p = scoring
          /\ queries = <<q>> \/ q = scoring
      BY <1>2, <2>1 DEF QuestionsInv, Asking, Unanswered
    <2>3. queries # <<>> => scoring = None
      BY DEF QuestionsInv, Asking
    <2>4. p # None /\ q # None
      BY <2>1 DEF Queries, None
    <2> QED
      BY <2>2, <2>3, <2>4
  <1>3. CASE Unanswered = {}
    BY <1>3, FS_EmptySet
  <1>4. CASE Unanswered # {}
    <2>1. PICK p \in Unanswered : TRUE
      BY <1>4
    <2>2. Unanswered = {p}
      BY <1>2, <2>1
    <2>3. Cardinality({p}) = 1
      BY FS_Singleton
    <2> QED
      BY <2>2, <2>3
  <1> QED
    BY <1>3, <1>4

(* The invariant of the gate, for every reachable state.                   *)
GateInv == TypeInv /\ QuestionsInv /\ TailInv /\ Refusals

THEOREM GateInvariance == Spec => []GateInv
  <1>1. Init => GateInv
    <2>1. Init => Refusals
      BY DEF Init, Refusals
    <2> QED
      BY <2>1, InitTypeInv, InitQuestionsInv, InitTailInv DEF GateInv
  <1>2. GateInv /\ [Next]_vars => GateInv'
    BY NextKeepsType, NextKeepsQuestions, NextKeepsTail, NextKeepsRefusals DEF GateInv
  <1> QED
    BY <1>1, <1>2, PTL DEF Spec

(* The gate never has two questions unanswered, an abandoned one included, *)
(* so the endpoint thread is never offered more than it admits (query());  *)
(* and the blocks kept back never outnumber those between question and     *)
(* verdict, so recognition_loop never faults over them.                    *)
THEOREM GateIsBoundedHolds == Spec => []GateIsBounded
  <1>1. GateInv => GateIsBounded
    BY OneUnanswered DEF GateInv, Refusals, GateIsBounded
  <1> QED
    BY <1>1, GateInvariance, PTL

----------------------------------------------------------------------------
(* The ranks of the members of a set of numbers: each is taken once.       *)
Below(S, m) == Cardinality({j \in S : j <= m})
Ranked(S, k) == CHOOSE i \in S : Below(S, i) = k

LEMMA BelowSet ==
  ASSUME NEW n \in Nat, NEW S, S \subseteq 1..n, NEW m \in 0..n
  PROVE  /\ IsFiniteSet(S) /\ Cardinality(S) \in Nat
         /\ IsFiniteSet({j \in S : j <= m})
         /\ Below(S, m) \in Nat /\ Below(S, m) <= Cardinality(S)
  <1>1. IsFiniteSet(1..n)
    BY FS_Interval
  <1>2. IsFiniteSet(S)
    BY <1>1, FS_Subset
  <1> DEFINE T == {j \in S : j <= m}
  <1>3. T \in SUBSET S
    OBVIOUS
  <1> HIDE DEF T
  <1>4. IsFiniteSet(T) /\ Cardinality(T) <= Cardinality(S)
    BY <1>2, <1>3, FS_Subset
  <1>5. Cardinality(T) \in Nat /\ Cardinality(S) \in Nat
    BY <1>2, <1>4, FS_CardinalityType
  <1>6. Cardinality(T) = Below(S, m)
    BY DEF Below, T
  <1> QED
    BY <1>2, <1>4, <1>5, <1>6 DEF T

LEMMA BelowFacts ==
  ASSUME NEW n \in Nat, NEW S, S \subseteq 1..n
  PROVE  /\ Below(S, 0) = 0 /\ Below(S, n) = Cardinality(S)
         /\ \A m \in 1..n : /\ m \in S => Below(S, m) = Below(S, m - 1) + 1
                            /\ m \notin S => Below(S, m) = Below(S, m - 1)
  <1>0. \A x : x \in S => x \in Nat /\ 1 <= x /\ x <= n
    OBVIOUS
  <1>1. Below(S, 0) = 0
    <2>1. \A x : x \in S => ~(x <= 0)
      BY <1>0
    <2>2. {j \in S : j <= 0} = {}
      BY <2>1, Zenon
    <2> QED
      BY <2>2, FS_EmptySet DEF Below
  <1>2. Below(S, n) = Cardinality(S)
    <2>1. \A x : x \in S => x <= n
      BY <1>0
    <2>2. {j \in S : j <= n} = S
      BY <2>1, Zenon
    <2> QED
      BY <2>2 DEF Below
  <1>3. ASSUME NEW m \in 1..n
        PROVE  /\ m \in S => Below(S, m) = Below(S, m - 1) + 1
               /\ m \notin S => Below(S, m) = Below(S, m - 1)
    <2> DEFINE T == {j \in S : j <= m - 1}
               U == {j \in S : j <= m}
    <2>1. m - 1 \in 0..n
      OBVIOUS
    <2>2. IsFiniteSet(T)
      BY <2>1, BelowSet
    <2>3. \A x : x \in S => (x <= m <=> x <= m - 1 \/ x = m)
      BY <1>0
    <2>4. ~(m <= m - 1) /\ m <= m
      OBVIOUS
    <2>5. m \notin T
      BY <2>4, Zenon
    <2>6. m \in S => U = T \cup {m}
      BY <2>3, <2>4, Zenon
    <2>7. m \notin S => U = T
      BY <2>3, Zenon
    <2>8. Below(S, m) = Cardinality(U) /\ Below(S, m - 1) = Cardinality(T)
      BY DEF Below
    <2> HIDE DEF T, U
    <2>9. Cardinality(T \cup {m}) = Cardinality(T) + 1
      BY <2>2, <2>5, FS_AddElement
    <2> QED
      BY <2>6, <2>7, <2>8, <2>9
  <1> QED
    BY <1>1, <1>2, <1>3

LEMMA RankFacts ==
  ASSUME NEW n \in Nat, NEW S, S \subseteq 1..n
  PROVE  /\ \A k \in 1..Cardinality(S) : Ranked(S, k) \in S /\ Below(S, Ranked(S, k)) = k
         /\ \A i \in S : Below(S, i) \in 1..Cardinality(S) /\ Ranked(S, Below(S, i)) = i
  <1>0. \A x : x \in S => x \in 1..n /\ x \in Nat /\ x \in 0..n /\ x - 1 \in 0..n
    OBVIOUS
  <1>a. Cardinality(S) \in Nat /\ \A m \in 0..n : Below(S, m) \in Nat /\ Below(S, m) <= Cardinality(S)
    <2>1. 0 \in 0..n
      OBVIOUS
    <2> QED
      BY <2>1, BelowSet
  <1>1. ASSUME NEW k \in 1..Cardinality(S)
        PROVE  \E i \in S : Below(S, i) = k
    <2> DEFINE T == {m \in 0..n : Below(S, m) >= k}
    <2>0. n \in 0..n /\ Below(S, n) >= k /\ ~(Below(S, 0) >= k) /\ 0..n \in SUBSET Nat
      <3>1. Below(S, n) = Cardinality(S) /\ Below(S, 0) = 0
        BY BelowFacts
      <3>2. Cardinality(S) >= k /\ ~(0 >= k)
        BY <1>a
      <3>3. n \in 0..n /\ 0..n \in SUBSET Nat
        OBVIOUS
      <3> QED
        BY <3>1, <3>2, <3>3
    <2>1. n \in T /\ T \in SUBSET Nat
      BY <2>0, Zenon
    <2>2. 0 \notin T
      BY <2>0, Zenon
    <2>3. \A m \in T : m \in 0..n /\ Below(S, m) >= k
      OBVIOUS
    <2>4. \A m \in 0..n : m \notin T => ~(Below(S, m) >= k)
      OBVIOUS
    <2> HIDE DEF T
    <2>5. PICK m \in T : \A p \in T : m <= p
      BY <2>1, Least
    <2>6. m \in 1..n /\ m - 1 \in 0..n /\ m - 1 \notin T
      BY <2>1, <2>2, <2>3, <2>5
    <2>7. Below(S, m) >= k /\ ~(Below(S, m - 1) >= k) /\ Below(S, m) \in Nat /\ Below(S, m - 1) \in Nat
      BY <1>a, <2>3, <2>4, <2>5, <2>6
    <2>8. m \in S /\ Below(S, m) = Below(S, m - 1) + 1
      BY <2>6, <2>7, BelowFacts
    <2>9. Below(S, m) = k
      BY ONLY <1>a, <2>7, <2>8, k \in 1..Cardinality(S)
    <2> QED
      BY <2>8, <2>9
  <1>2. \A k \in 1..Cardinality(S) : Ranked(S, k) \in S /\ Below(S, Ranked(S, k)) = k
    BY <1>1, Zenon DEF Ranked
  <1>3. ASSUME NEW i \in S PROVE Below(S, i) \in 1..Cardinality(S)
    <2>1. i \in 1..n /\ i - 1 \in 0..n /\ i \in 0..n
      BY <1>0
    <2>2. Below(S, i) = Below(S, i - 1) + 1
      BY <2>1, BelowFacts
    <2>3. Below(S, i) \in Nat /\ Below(S, i - 1) \in Nat /\ Below(S, i) <= Cardinality(S)
      BY <2>1, <1>a
    <2> QED
      BY <2>2, <2>3, <1>a
  <1>4. ASSUME NEW i \in S, NEW p \in S, i < p PROVE Below(S, i) < Below(S, p)
    <2> DEFINE T == {j \in S : j <= i}
               U == {j \in S : j <= p}
    <2>0. i \in Nat /\ p \in Nat /\ i \in 0..n /\ p \in 0..n /\ i <= p /\ ~(p <= i) /\ p <= p
      BY <1>0, <1>4
    <2>1. \A x : x \in S => (x <= i => x <= p)
      BY <1>0, <1>4
    <2>2. T \in SUBSET U
      BY <2>1, Zenon
    <2>3. p \in U /\ p \notin T
      BY <2>0, Zenon
    <2>4. IsFiniteSet(U)
      BY <2>0, BelowSet
    <2>5. Below(S, i) = Cardinality(T) /\ Below(S, p) = Cardinality(U)
      BY DEF Below
    <2> HIDE DEF T, U
    <2>6. Cardinality(T) <= Cardinality(U) /\ (Cardinality(U) = Cardinality(T) => U = T)
      BY <2>2, <2>4, FS_Subset
    <2>7. Cardinality(T) \in Nat /\ Cardinality(U) \in Nat
      BY <1>a, <2>0, <2>5
    <2>8. Cardinality(U) # Cardinality(T)
      BY <2>3, <2>6
    <2> QED
      BY <2>5, <2>6, <2>7, <2>8
  <1>5. ASSUME NEW i \in S PROVE Ranked(S, Below(S, i)) = i
    <2> DEFINE r == Ranked(S, Below(S, i))
    <2>1. r \in S /\ Below(S, r) = Below(S, i)
      BY <1>2, <1>3
    <2> HIDE DEF r
    <2>2. r \in Nat /\ i \in Nat /\ Below(S, i) \in Nat
      BY <1>0, <1>a, <2>1
    <2>3. ~(i < r) /\ ~(r < i)
      BY <1>4, <2>1, <2>2
    <2>4. r = i
      BY <2>2, <2>3
    <2> QED
      BY <2>4 DEF r
  <1> QED
    BY <1>2, <1>3, <1>5

(* What the speaker thread owes: each final that is not yet observed is    *)
(* waiting or being identified, once.                                      *)
FinalTypes ==
    /\ observed \in Seq({0, 1}) /\ speakerJobs \in Seq(1..Len(observed))
    /\ identifying \in 0..Len(observed)
OwedOnce ==
    /\ \A i, j \in 1..Len(speakerJobs) : speakerJobs[i] = speakerJobs[j] => i = j
    /\ \A i \in 1..Len(speakerJobs) : observed[speakerJobs[i]] = 0
    /\ identifying # None =>
         /\ observed[identifying] = 0
         /\ \A i \in 1..Len(speakerJobs) : speakerJobs[i] # identifying
    /\ speaker = "identifying" => identifying # None
AllOwed ==
    /\ \A f \in 1..Len(observed) : observed[f] = 0 =>
         f = identifying \/ \E i \in 1..Len(speakerJobs) : speakerJobs[i] = f
    /\ speakerJobs # <<>> \/ identifying # None => speakerBusy
SpeakerRuns == speaker # "exited" /\ (identifying # None => speaker = "identifying")
StoppedClean ==
    stopping /\ ~aborted /\ error = "none" =>
        inputDone /\ \A f \in 1..Len(observed) : observed[f] = 1
FinalsInv ==
    /\ FinalTypes /\ OwedOnce /\ (~stopping => AllOwed /\ SpeakerRuns) /\ StoppedClean

LEMMA InitFinalsInv == Init => FinalsInv
  <1> SUFFICES ASSUME Init PROVE FinalsInv
    OBVIOUS
  <1>1. observed = <<>> /\ speakerJobs = <<>> /\ Len(<<>>) = 0 /\ identifying = 0
    BY DEF Init, None
  <1>2. FinalTypes
    BY <1>1 DEF FinalTypes
  <1>3. OwedOnce /\ AllOwed /\ SpeakerRuns /\ StoppedClean
    BY <1>1 DEF Init, OwedOnce, AllOwed, SpeakerRuns, StoppedClean, None
  <1> QED
    BY <1>2, <1>3 DEF FinalsInv

(* n finals are published, of which those in sent are left to the speaker  *)
(* thread, each once.                                                      *)
Published(n, sent) ==
    /\ observed' \in Seq({0, 1}) /\ Len(observed') = Len(observed) + n
    /\ \A f \in 1..Len(observed) : observed'[f] = observed[f]
    /\ \A i \in 1..n : observed'[Len(observed) + i] = IF i \in sent THEN 0 ELSE 1
Sent(n, sent) ==
    /\ speakerJobs' \in Seq(1..Len(observed) + n) /\ Len(speakerJobs') >= Len(speakerJobs)
    /\ \A i \in 1..Len(speakerJobs) : speakerJobs'[i] = speakerJobs[i]
    /\ \A i \in Len(speakerJobs) + 1..Len(speakerJobs') :
         speakerJobs'[i] - Len(observed) \in sent
    /\ \A i, j \in Len(speakerJobs) + 1..Len(speakerJobs') :
         speakerJobs'[i] = speakerJobs'[j] => i = j
    /\ \A p \in sent : \E i \in 1..Len(speakerJobs') : speakerJobs'[i] = Len(observed) + p
    /\ speakerJobs' # <<>> => speakerJobs # <<>> \/ sent # {}

LEMMA PublishingKeeps ==
  ASSUME FinalTypes, OwedOnce, AllOwed, NEW n \in Nat, NEW sent, sent \subseteq 1..n,
         Published(n, sent), Sent(n, sent), speakerBusy \/ sent # {} => speakerBusy',
         UNCHANGED <<identifying, speaker>>
  PROVE  FinalTypes' /\ OwedOnce' /\ AllOwed'
  <1> DEFINE known == Len(observed)
             jobs == Len(speakerJobs)
             more == Len(speakerJobs')
  <1>1. known \in Nat /\ jobs \in Nat /\ more \in Nat /\ jobs <= more /\ Len(observed') = known + n
        /\ identifying \in 0..known /\ identifying' = identifying
    BY LenProperties DEF FinalTypes, Published, Sent
  <1>2. \A i \in 1..jobs : speakerJobs[i] \in 1..known /\ speakerJobs'[i] = speakerJobs[i]
    BY ElementOfSeq DEF FinalTypes, Sent
  <1>3. \A i \in 1..more : speakerJobs'[i] \in 1..known + n
    BY ElementOfSeq DEF Sent
  <1>4. \A i \in jobs + 1..more : speakerJobs'[i] - known \in sent
        /\ speakerJobs'[i] \in known + 1..known + n
        /\ speakerJobs'[i] = known + (speakerJobs'[i] - known)
    BY <1>1, <1>3 DEF Sent
  <1>5. \A p \in 1..known : observed'[p] = observed[p]
    BY DEF Published
  <1>6. \A p \in 1..n : observed'[known + p] = IF p \in sent THEN 0 ELSE 1
    BY DEF Published
  <1>7. FinalTypes'
    BY <1>1 DEF FinalTypes, Published, Sent
  <1>o. /\ \A i, j \in 1..jobs : speakerJobs[i] = speakerJobs[j] => i = j
        /\ \A i \in 1..jobs : observed[speakerJobs[i]] = 0
        /\ identifying # None => observed[identifying] = 0
        /\ identifying # None => \A i \in 1..jobs : speakerJobs[i] # identifying
        /\ speaker = "identifying" => identifying # None
    BY DEF OwedOnce
  <1>s. \A i, j \in jobs + 1..more : speakerJobs'[i] = speakerJobs'[j] => i = j
    BY DEF Sent
  <1>p. /\ \A f \in 1..known : observed[f] = 0 =>
              f = identifying \/ \E i \in 1..jobs : speakerJobs[i] = f
        /\ speakerJobs # <<>> \/ identifying # None => speakerBusy
    BY DEF AllOwed
  <1>t. /\ \A p \in sent : \E i \in 1..more : speakerJobs'[i] = known + p
        /\ speakerJobs' # <<>> => speakerJobs # <<>> \/ sent # {}
    BY DEF Sent
  <1> HIDE DEF known, jobs, more
  <1>8. OwedOnce'
    <2>1. ASSUME NEW i \in 1..more, NEW j \in 1..more, speakerJobs'[i] = speakerJobs'[j] PROVE i = j
      <3>1. i \in 1..jobs \/ i \in jobs + 1..more
        BY <1>1
      <3>2. j \in 1..jobs \/ j \in jobs + 1..more
        BY <1>1
      <3> QED
        BY <1>1, <1>2, <1>4, <1>o, <1>s, <2>1, <3>1, <3>2
    <2>2. ASSUME NEW i \in 1..more PROVE observed'[speakerJobs'[i]] = 0
      <3>1. CASE i \in 1..jobs
        BY <1>2, <1>5, <1>o, <3>1
      <3>2. CASE i \in jobs + 1..more
        <4>1. PICK p \in sent : speakerJobs'[i] = known + p
          BY <1>4, <3>2
        <4> QED
          BY <1>6, <4>1
      <3> QED
        BY <1>1, <3>1, <3>2
    <2>3. ASSUME identifying # None
          PROVE  observed'[identifying] = 0 /\ \A i \in 1..more : speakerJobs'[i] # identifying
      <3>1. identifying \in 1..known
        BY <1>1, <2>3 DEF None
      <3>2. observed'[identifying] = 0
        BY <1>5, <1>o, <2>3, <3>1
      <3>3. ASSUME NEW i \in 1..more PROVE speakerJobs'[i] # identifying
        <4>1. i \in 1..jobs \/ i \in jobs + 1..more
          BY <1>1
        <4> QED
          BY <1>1, <1>2, <1>4, <1>o, <2>3, <3>1, <4>1
      <3> QED
        BY <3>2, <3>3
    <2> QED
      BY <1>o, <2>1, <2>2, <2>3 DEF OwedOnce, more
  <1>9. AllOwed'
    <2>1. ASSUME NEW f \in 1..known + n, observed'[f] = 0
          PROVE  f = identifying \/ \E i \in 1..more : speakerJobs'[i] = f
      <3>1. CASE f \in 1..known
        <4>1. f = identifying \/ \E i \in 1..jobs : speakerJobs[i] = f
          BY <1>5, <1>p, <2>1, <3>1
        <4>2. 1..jobs \subseteq 1..more
          BY <1>1
        <4> QED
          BY <1>2, <4>1, <4>2
      <3>2. CASE f \notin 1..known
        <4>1. f - known \in 1..n /\ f = known + (f - known)
          BY <1>1, <3>2
        <4>2. f - known \in sent
          BY <1>6, <2>1, <4>1
        <4> QED
          BY <1>t, <4>1, <4>2
      <3> QED
        BY <3>1, <3>2
    <2>2. speakerJobs' # <<>> \/ identifying # None => speakerBusy'
      BY <1>p, <1>t
    <2> QED
      BY <1>1, <2>1, <2>2 DEF AllOwed, more
  <1> QED
    BY <1>7, <1>8, <1>9

LEMMA ObservePublishes ==
  ASSUME FinalTypes, NEW n \in Nat, NEW given, NEW sent,
         \A i \in 1..n : i \in given <=> i \notin sent, Observe(n, given)
  PROVE  Published(n, sent)
  <1> DEFINE new == [i \in 1..n |-> IF i \in given THEN 1 ELSE 0]
  <1>1. new \in [1..n -> {0, 1}] /\ \A i \in 1..n : new[i] = IF i \in sent THEN 0 ELSE 1
    OBVIOUS
  <1>2. observed' = observed \o new
    BY DEF Observe
  <1> HIDE DEF new
  <1>3. new \in Seq({0, 1}) /\ Len(new) = n
    <2>1. new \in Seq({0, 1})
      BY <1>1, SeqDef
    <2>2. DOMAIN new = 1..n /\ DOMAIN new = 1..Len(new) /\ Len(new) \in Nat
      BY <1>1, <2>1, LenProperties
    <2> QED
      BY <2>1, <2>2
  <1>4. /\ observed' \in Seq({0, 1}) /\ Len(observed') = Len(observed) + Len(new)
        /\ \A i \in 1..Len(observed) + Len(new) :
             observed'[i] = IF i <= Len(observed) THEN observed[i] ELSE new[i - Len(observed)]
    BY <1>2, <1>3, ConcatProperties DEF FinalTypes
  <1>5. Len(observed) \in Nat
    BY LenProperties DEF FinalTypes
  <1>6. ASSUME NEW i \in 1..n PROVE observed'[Len(observed) + i] = IF i \in sent THEN 0 ELSE 1
    <2>1. Len(observed) + i \in 1..Len(observed) + Len(new) /\ ~(Len(observed) + i <= Len(observed))
          /\ (Len(observed) + i) - Len(observed) = i
      BY <1>3, <1>5
    <2> QED
      BY <1>1, <1>4, <2>1
  <1> QED
    BY <1>3, <1>4, <1>5, <1>6 DEF Published

(* The jobs queued for the finals of a separated turn.                     *)
LEMMA SendSeveral ==
  ASSUME FinalTypes, NEW n \in Nat, NEW sent, sent \subseteq 1..n,
         speakerJobs' = speakerJobs \o
            [k \in 1..Cardinality(sent) |-> Len(observed) + Ranked(sent, k)]
  PROVE  Sent(n, sent)
  <1> DEFINE known == Len(observed)
             jobs == Len(speakerJobs)
             m == Cardinality(sent)
             new == [k \in 1..m |-> known + Ranked(sent, k)]
  <1>1. known \in Nat /\ jobs \in Nat /\ speakerJobs \in Seq(1..known)
    BY LenProperties DEF FinalTypes
  <1>2. m \in Nat /\ (m = 0 <=> sent = {})
    <2>1. 0 \in 0..n
      OBVIOUS
    <2>2. IsFiniteSet(sent) /\ Cardinality(sent) \in Nat
      BY <2>1, BelowSet
    <2> QED
      BY <2>2, FS_EmptySet
  <1>3. /\ \A k \in 1..m : Ranked(sent, k) \in sent /\ Below(sent, Ranked(sent, k)) = k
        /\ \A p \in sent : Below(sent, p) \in 1..m /\ Ranked(sent, Below(sent, p)) = p
    BY RankFacts
  <1>4. \A k \in 1..m : Ranked(sent, k) \in 1..n
    BY <1>3
  <1>5. new \in [1..m -> 1..known + n] /\ \A k \in 1..m : new[k] = known + Ranked(sent, k)
    BY <1>1, <1>4
  <1>6. speakerJobs' = speakerJobs \o new
    OBVIOUS
  <1> HIDE DEF new, m
  <1>7. new \in Seq(1..known + n) /\ Len(new) = m
    <2>1. new \in Seq(1..known + n)
      BY <1>2, <1>5, SeqDef
    <2>2. DOMAIN new = 1..m /\ DOMAIN new = 1..Len(new) /\ Len(new) \in Nat
      BY <1>5, <2>1, LenProperties
    <2> QED
      BY <1>2, <2>1, <2>2
  <1>8. speakerJobs \in Seq(1..known + n)
    <2>1. 1..known \subseteq 1..known + n
      BY <1>1
    <2> QED
      BY <1>1, <2>1, SeqMonotonic
  <1>9. /\ speakerJobs' \in Seq(1..known + n) /\ Len(speakerJobs') = jobs + m
        /\ \A i \in 1..jobs + m : speakerJobs'[i] = IF i <= jobs THEN speakerJobs[i] ELSE new[i - jobs]
    <2>1. /\ speakerJobs \o new \in Seq(1..known + n)
          /\ Len(speakerJobs \o new) = Len(speakerJobs) + Len(new)
          /\ \A i \in 1..Len(speakerJobs) + Len(new) : (speakerJobs \o new)[i] =
               IF i <= Len(speakerJobs) THEN speakerJobs[i] ELSE new[i - Len(speakerJobs)]
      BY <1>7, <1>8, ConcatProperties
    <2> QED
      BY <1>6, <1>7, <2>1
  <1> HIDE DEF known, jobs
  <1>10. ASSUME NEW i \in 1..jobs PROVE speakerJobs'[i] = speakerJobs[i]
    <2>1. i \in 1..jobs + m /\ i <= jobs
      BY <1>1, <1>2
    <2> QED
      BY <1>9, <2>1
  <1>11. ASSUME NEW i \in jobs + 1..jobs + m
         PROVE  i - jobs \in 1..m /\ speakerJobs'[i] = known + Ranked(sent, i - jobs)
    <2>1. i - jobs \in 1..m /\ i \in 1..jobs + m /\ ~(i <= jobs)
      BY <1>1, <1>2
    <2> QED
      BY <1>5, <1>9, <2>1
  <1>12. ASSUME NEW i \in jobs + 1..jobs + m PROVE speakerJobs'[i] - known \in sent
    <2>1. i - jobs \in 1..m /\ speakerJobs'[i] = known + Ranked(sent, i - jobs)
      BY <1>11
    <2>2. Ranked(sent, i - jobs) \in sent /\ Ranked(sent, i - jobs) \in Nat
      BY <1>3, <1>4, <2>1
    <2>3. (known + Ranked(sent, i - jobs)) - known = Ranked(sent, i - jobs)
      BY <1>1, <2>2
    <2> QED
      BY <2>1, <2>2, <2>3
  <1>13. ASSUME NEW i \in jobs + 1..jobs + m, NEW j \in jobs + 1..jobs + m,
                speakerJobs'[i] = speakerJobs'[j]
         PROVE  i = j
    <2>1. /\ i - jobs \in 1..m /\ speakerJobs'[i] = known + Ranked(sent, i - jobs)
          /\ j - jobs \in 1..m /\ speakerJobs'[j] = known + Ranked(sent, j - jobs)
      BY <1>11
    <2>2. Ranked(sent, i - jobs) \in Nat /\ Ranked(sent, j - jobs) \in Nat
      BY <1>4, <2>1
    <2>3. Ranked(sent, i - jobs) = Ranked(sent, j - jobs)
      <3>1. known + Ranked(sent, i - jobs) = known + Ranked(sent, j - jobs)
        BY <1>13, <2>1
      <3> QED
        BY <1>1, <2>2, <3>1
    <2>4. i - jobs = j - jobs
      BY <1>3, <2>1, <2>3
    <2> QED
      BY <1>1, <1>2, <2>4
  <1>14. ASSUME NEW p \in sent PROVE \E i \in 1..jobs + m : speakerJobs'[i] = known + p
    <2>1. Below(sent, p) \in 1..m /\ Ranked(sent, Below(sent, p)) = p
      BY <1>3
    <2>2. jobs + Below(sent, p) \in jobs + 1..jobs + m /\ jobs + Below(sent, p) \in 1..jobs + m
          /\ (jobs + Below(sent, p)) - jobs = Below(sent, p)
      BY <1>1, <1>2, <2>1
    <2>3. speakerJobs'[jobs + Below(sent, p)] = known + p
      BY <1>11, <2>1, <2>2
    <2> QED
      BY <2>2, <2>3
  <1>15. speakerJobs' # <<>> => speakerJobs # <<>> \/ sent # {}
    <2>1. SUFFICES ASSUME speakerJobs = <<>>, sent = {} PROVE speakerJobs' = <<>>
      OBVIOUS
    <2>2. jobs = 0 /\ m = 0
      BY <1>2, <2>1 DEF jobs
    <2>3. Len(speakerJobs') = 0 /\ speakerJobs' \in Seq(1..known + n)
      <3>1. jobs + m = 0
        BY <2>2
      <3> QED
        BY <1>9, <3>1, Zenon
    <2> QED
      BY <2>3, EmptySeq
  <1>16. jobs + m >= jobs
    BY <1>1, <1>2
  <1> QED
    BY <1>9, <1>10, <1>12, <1>13, <1>14, <1>15, <1>16 DEF Sent, known, jobs

(* The jobs queued for the final of a turn that is not separated.          *)
LEMMA SendOne ==
  ASSUME FinalTypes, speakerJobs' = Append(speakerJobs, Len(observed) + 1)
  PROVE  Sent(1, {1})
  <1> DEFINE known == Len(observed)
             jobs == Len(speakerJobs)
  <1>1. known \in Nat /\ jobs \in Nat /\ speakerJobs \in Seq(1..known)
    BY LenProperties DEF FinalTypes
  <1>2. speakerJobs \in Seq(1..known + 1) /\ known + 1 \in 1..known + 1
    <2>1. 1..known \subseteq 1..known + 1 /\ known + 1 \in 1..known + 1
      BY <1>1
    <2> QED
      BY <1>1, <2>1, SeqMonotonic
  <1>3. /\ speakerJobs' \in Seq(1..known + 1) /\ Len(speakerJobs') = jobs + 1
        /\ \A i \in 1..jobs : speakerJobs'[i] = speakerJobs[i]
        /\ speakerJobs'[jobs + 1] = known + 1
    BY <1>2, AppendProperties
  <1> HIDE DEF known, jobs
  <1>4. \A i \in jobs + 1..jobs + 1 : i = jobs + 1
    BY <1>1
  <1>5. (known + 1) - known = 1 /\ jobs + 1 >= jobs /\ jobs + 1 \in 1..jobs + 1
    BY <1>1
  <1>6. \A i \in jobs + 1..jobs + 1 : speakerJobs'[i] - known \in {1}
    BY <1>3, <1>4, <1>5
  <1>7. \A i, j \in jobs + 1..jobs + 1 : speakerJobs'[i] = speakerJobs'[j] => i = j
    BY <1>4
  <1>8. \A p \in {1} : \E i \in 1..jobs + 1 : speakerJobs'[i] = known + p
    BY <1>3, <1>5
  <1> QED
    BY <1>3, <1>5, <1>6, <1>7, <1>8 DEF Sent, known, jobs

LEMMA SendNone ==
  ASSUME FinalTypes, NEW n \in Nat, UNCHANGED speakerJobs
  PROVE  Sent(n, {})
  <1>1. Len(observed) \in Nat /\ Len(speakerJobs) \in Nat /\ speakerJobs \in Seq(1..Len(observed))
    BY LenProperties DEF FinalTypes
  <1>2. 1..Len(observed) \subseteq 1..Len(observed) + n
    BY <1>1
  <1>3. speakerJobs \in Seq(1..Len(observed) + n)
    BY <1>1, <1>2, SeqMonotonic
  <1>4. \A i : i \notin Len(speakerJobs) + 1..Len(speakerJobs)
    BY <1>1
  <1> QED
    BY <1>1, <1>3, <1>4 DEF Sent

(* The finals of a turn that completes.                                    *)
LEMMA FinalsKeep ==
  ASSUME FinalsInv, Finals, UNCHANGED <<identifying, speaker, stopping>>
  PROVE  FinalTypes' /\ OwedOnce' /\ (~stopping' => AllOwed' /\ SpeakerRuns')
         /\ (stopping => UNCHANGED observed)
  <1>1. CASE NoFinals
    BY <1>1 DEF NoFinals, FinalsInv, FinalTypes, OwedOnce, AllOwed, SpeakerRuns
  <1>2. CASE ~stopping /\ ~NoFinals
    <2>1. SUFFICES ASSUME NEW n \in Nat, NEW sent, sent \subseteq 1..n,
                          Published(n, sent), Sent(n, sent), speakerBusy \/ sent # {} => speakerBusy'
                   PROVE  FinalTypes' /\ OwedOnce' /\ AllOwed'
      <3>1. ~stopping /\ (SpeakerRuns => SpeakerRuns')
        BY <1>2 DEF SpeakerRuns
      <3>2. \E n \in Nat : \E sent : /\ sent \subseteq 1..n /\ Published(n, sent) /\ Sent(n, sent)
                                     /\ (speakerBusy \/ sent # {} => speakerBusy')
        <4>0. FinalTypes
          BY DEF FinalsInv
        <4>1. CASE ~kind.separated /\ Observe(1, {1}) /\ UNCHANGED <<speakerJobs, speakerBusy>>
          <5>1. Published(1, {}) /\ Sent(1, {})
            BY <4>0, <4>1, ObservePublishes, SendNone
          <5> QED
            BY <4>1, <5>1
        <4>2. CASE /\ ~kind.separated /\ Observe(1, {}) /\ speakerBusy' = TRUE
                   /\ speakerJobs' = Append(speakerJobs, Len(observed) + 1)
          <5>1. Published(1, {1}) /\ Sent(1, {1})
            BY <4>0, <4>2, ObservePublishes, SendOne
          <5>2. {1} \subseteq 1..1
            OBVIOUS
          <5> QED
            BY <4>2, <5>1, <5>2
        <4>3. CASE kind.separated
          <5>1. PICK n \in 1..MaxSegments : \E evident \in SUBSET (1..n) :
                   LET room == SpeakerCapacity - Len(speakerJobs)
                       sent == {i \in evident : Below(evident, i) <= room}
                   IN
                   /\ Observe(n, (1..n) \ sent)
                   /\ speakerJobs' = speakerJobs \o
                         [k \in 1..Cardinality(sent) |-> Len(observed) + Ranked(sent, k)]
                   /\ speakerBusy' = (speakerBusy \/ sent # {})
            BY <1>2, <4>3 DEF Finals, Below, Ranked
          <5>2. PICK evident \in SUBSET (1..n) :
                   LET room == SpeakerCapacity - Len(speakerJobs)
                       sent == {i \in evident : Below(evident, i) <= room}
                   IN
                   /\ Observe(n, (1..n) \ sent)
                   /\ speakerJobs' = speakerJobs \o
                         [k \in 1..Cardinality(sent) |-> Len(observed) + Ranked(sent, k)]
                   /\ speakerBusy' = (speakerBusy \/ sent # {})
            BY <5>1
          <5> DEFINE sent == {i \in evident : Below(evident, i) <= SpeakerCapacity - Len(speakerJobs)}
          <5>3. /\ Observe(n, (1..n) \ sent)
                /\ speakerJobs' = speakerJobs \o
                      [k \in 1..Cardinality(sent) |-> Len(observed) + Ranked(sent, k)]
                /\ speakerBusy' = (speakerBusy \/ sent # {})
            BY <5>2
          <5>4. sent \subseteq 1..n /\ n \in Nat
            <6>1. n \in Nat
              BY BoundsAssumption
            <6>2. sent \in SUBSET evident
              BY Zenon
            <6> QED
              BY <6>1, <6>2
          <5> HIDE DEF sent
          <5>5. Published(n, sent)
            BY <4>0, <5>3, <5>4, ObservePublishes
          <5>6. Sent(n, sent)
            BY <4>0, <5>3, <5>4, SendSeveral
          <5>7. speakerBusy \/ sent # {} => speakerBusy'
            BY <5>3, Zenon
          <5> QED
            BY <5>4, <5>5, <5>6, <5>7
        <4> QED
          BY <1>2, <4>1, <4>2, <4>3 DEF Finals
      <3> QED
        BY <1>2, <2>1, <3>1, <3>2 DEF FinalsInv
    <2> QED
      BY <1>2, <2>1, PublishingKeeps DEF FinalsInv
  <1> QED
    BY <1>1, <1>2 DEF Finals

LEMMA IdentifyKeepsFinals ==
  ASSUME FinalsInv, Identify
  PROVE  FinalTypes' /\ OwedOnce' /\ AllOwed' /\ SpeakerRuns' /\ UNCHANGED observed
  <1> DEFINE jobs == Len(speakerJobs)
  <1>1. /\ speaker = "wait" /\ ~stopping /\ speakerJobs # <<>> /\ speaker' = "identifying"
        /\ identifying' = Head(speakerJobs) /\ speakerJobs' = Tail(speakerJobs)
        /\ UNCHANGED <<speakerBusy, observed>>
    BY DEF Identify
  <1>2. FinalTypes /\ OwedOnce /\ AllOwed /\ SpeakerRuns
    BY <1>1 DEF FinalsInv
  <1>3. identifying = None
    BY <1>1, <1>2 DEF SpeakerRuns
  <1>4. /\ speakerJobs \in Seq(1..Len(observed)) /\ jobs \in Nat \ {0}
        /\ \A i \in 1..jobs : speakerJobs[i] \in 1..Len(observed)
    <2>1. speakerJobs \in Seq(1..Len(observed))
      BY <1>2 DEF FinalTypes
    <2> QED
      BY <1>1, <2>1, EmptySeq, ElementOfSeq
  <1>5. Head(speakerJobs) = speakerJobs[1] /\ Len(observed) \in Nat
    BY <1>1, <1>2, <1>4, HeadTailProperties, LenProperties DEF FinalTypes
  <1>6. /\ speakerJobs' \in Seq(1..Len(observed)) /\ Len(speakerJobs') = jobs - 1
        /\ \A i \in 1..jobs - 1 : speakerJobs'[i] = speakerJobs[i + 1]
    <2>1. /\ Tail(speakerJobs) \in Seq(1..Len(observed)) /\ Len(Tail(speakerJobs)) = Len(speakerJobs) - 1
          /\ \A i \in 1..Len(Tail(speakerJobs)) : Tail(speakerJobs)[i] = speakerJobs[i + 1]
      BY <1>1, <1>4, HeadTailProperties
    <2> QED
      BY <1>1, <2>1
  <1>o. /\ \A i, j \in 1..jobs : speakerJobs[i] = speakerJobs[j] => i = j
        /\ \A i \in 1..jobs : observed[speakerJobs[i]] = 0
    BY <1>2 DEF OwedOnce
  <1>p. /\ \A f \in 1..Len(observed) : observed[f] = 0 =>
             f = identifying \/ \E i \in 1..jobs : speakerJobs[i] = f
        /\ speakerJobs # <<>> \/ identifying # None => speakerBusy
    BY <1>2 DEF AllOwed
  <1> HIDE DEF jobs
  <1>7. \A i \in 1..jobs - 1 : i \in 1..jobs /\ i + 1 \in 1..jobs /\ i + 1 # 1
    BY <1>4
  <1>8. 1 \in 1..jobs /\ identifying' = speakerJobs[1] /\ identifying' \in 1..Len(observed)
    BY <1>1, <1>4, <1>5
  <1>9. identifying' # None /\ identifying' \in 0..Len(observed)
    BY <1>5, <1>8 DEF None
  <1>10. FinalTypes'
    BY <1>1, <1>2, <1>6, <1>9 DEF FinalTypes
  <1>11. OwedOnce'
    <2>1. ASSUME NEW i \in 1..jobs - 1 PROVE observed'[speakerJobs'[i]] = 0
      <3>1. speakerJobs'[i] = speakerJobs[i + 1] /\ i + 1 \in 1..jobs
        BY <1>6, <1>7
      <3>2. observed[speakerJobs[i + 1]] = 0
        BY <1>o, <3>1
      <3> QED
        BY <1>1, <3>1, <3>2
    <2>2. \A i \in 1..jobs - 1 : speakerJobs'[i] # identifying'
      BY <1>6, <1>7, <1>8, <1>o
    <2>3. observed'[identifying'] = 0 /\ Len(speakerJobs') = jobs - 1
      BY <1>1, <1>6, <1>8, <1>o
    <2>4. ASSUME NEW i \in 1..jobs - 1, NEW j \in 1..jobs - 1, speakerJobs'[i] = speakerJobs'[j]
          PROVE  i = j
      <3>1. speakerJobs[i + 1] = speakerJobs[j + 1]
        BY <1>6, <2>4
      <3>2. i + 1 = j + 1
        BY <1>7, <1>o, <3>1
      <3> QED
        BY <3>2
    <2> QED
      BY <1>9, <2>1, <2>2, <2>3, <2>4 DEF OwedOnce
  <1>12. AllOwed'
    <2>1. ASSUME NEW f \in 1..Len(observed), observed[f] = 0
          PROVE  f = identifying' \/ \E i \in 1..jobs - 1 : speakerJobs'[i] = f
      <3>1. f # identifying
        BY <1>3 DEF None
      <3>2. PICK i \in 1..jobs : speakerJobs[i] = f
        BY <1>p, <2>1, <3>1
      <3>3. i = 1 \/ (i - 1 \in 1..jobs - 1 /\ (i - 1) + 1 = i)
        BY <1>4, <3>2
      <3> QED
        BY <1>6, <1>8, <3>2, <3>3
    <2> QED
      BY <1>1, <1>6, <1>p, <2>1 DEF AllOwed
  <1>13. SpeakerRuns'
    BY <1>1 DEF SpeakerRuns
  <1> QED
    BY <1>1, <1>10, <1>11, <1>12, <1>13

LEMMA IdentifiedKeepsFinals ==
  ASSUME FinalsInv, Identified
  PROVE  FinalTypes' /\ OwedOnce' /\ (~stopping => AllOwed' /\ SpeakerRuns')
         /\ (stopping => UNCHANGED observed)
  <1>1. /\ speaker = "identifying" /\ speaker' = "wait" /\ identifying' = None
        /\ observed' = (IF stopping THEN observed ELSE [observed EXCEPT ![identifying] = @ + 1])
        /\ UNCHANGED speakerJobs
    BY DEF Identified
  <1>2. speakerJobs # <<>> => speakerBusy'
    <2>1. speakerBusy' = (speakerJobs # <<>>)
      BY DEF Identified
    <2> QED
      BY <2>1, Zenon
  <1>3. FinalTypes /\ OwedOnce
    BY DEF FinalsInv
  <1>4. Len(observed) \in Nat /\ Len(speakerJobs) \in Nat /\ observed \in [1..Len(observed) -> {0, 1}]
        /\ \A i \in 1..Len(speakerJobs) : speakerJobs[i] \in 1..Len(observed)
    BY <1>3, LenProperties, ElementOfSeq DEF FinalTypes
  <1>5. identifying # None /\ identifying \in 1..Len(observed) /\ observed[identifying] = 0
        /\ \A i \in 1..Len(speakerJobs) : speakerJobs[i] # identifying
    BY <1>1, <1>3, <1>4 DEF FinalTypes, OwedOnce, None
  <1>6. /\ observed' \in [1..Len(observed) -> {0, 1}]
        /\ \A f \in 1..Len(observed) : f # identifying => observed'[f] = observed[f]
        /\ ~stopping => observed'[identifying] = 1
    BY <1>1, <1>4, <1>5
  <1>7. observed' \in Seq({0, 1}) /\ Len(observed') = Len(observed)
    <2>1. observed' \in Seq({0, 1})
      BY <1>4, <1>6, SeqDef
    <2>2. DOMAIN observed' = 1..Len(observed) /\ DOMAIN observed' = 1..Len(observed') /\ Len(observed') \in Nat
      BY <1>6, <2>1, LenProperties
    <2> QED
      BY <1>4, <2>1, <2>2
  <1>8. FinalTypes'
    BY <1>1, <1>3, <1>4, <1>7 DEF FinalTypes, None
  <1>9. OwedOnce'
    <2>1. \A i \in 1..Len(speakerJobs) : observed'[speakerJobs[i]] = 0
      BY <1>3, <1>4, <1>5, <1>6 DEF OwedOnce
    <2> QED
      BY <1>1, <1>3, <2>1 DEF OwedOnce
  <1>10. ASSUME ~stopping PROVE AllOwed' /\ SpeakerRuns'
    <2>1. \A f \in 1..Len(observed) : observed'[f] = 0 => \E i \in 1..Len(speakerJobs) : speakerJobs[i] = f
      BY <1>6, <1>10 DEF FinalsInv, AllOwed
    <2> QED
      BY <1>1, <1>2, <1>7, <2>1 DEF AllOwed, SpeakerRuns
  <1> QED
    BY <1>1, <1>8, <1>9, <1>10

LEMMA SpeakerLeavesKeepsFinals ==
  ASSUME FinalsInv, SpeakerFails \/ SpeakerExit
  PROVE  FinalTypes' /\ OwedOnce' /\ (~stopping => AllOwed' /\ stopping') /\ UNCHANGED observed
  <1>1. CASE SpeakerFails
    BY <1>1 DEF SpeakerFails, Fault, FinalsInv, FinalTypes, OwedOnce, AllOwed
  <1>2. CASE SpeakerExit
    <2>1. stopping /\ speakerJobs' = <<>> /\ UNCHANGED <<observed, identifying>> /\ speaker' = "exited"
      BY <1>2 DEF SpeakerExit
    <2>2. Len(<<>>) = 0 /\ <<>> \in Seq(1..Len(observed)) /\ \A i : i \notin 1..0
      BY EmptySeq
    <2>3. FinalTypes'
      BY <2>1, <2>2 DEF FinalsInv, FinalTypes
    <2>4. OwedOnce'
      BY <2>1, <2>2 DEF FinalsInv, OwedOnce
    <2> QED
      BY <2>1, <2>3, <2>4
  <1> QED
    BY <1>1, <1>2

(* Steps that leave the finals alone.                                      *)
LEMMA FinalsFrame ==
  ASSUME FinalsInv, SpeakerKept
  PROVE  FinalTypes' /\ OwedOnce' /\ (~stopping => AllOwed' /\ SpeakerRuns') /\ UNCHANGED observed
  BY DEF FinalsInv, FinalTypes, OwedOnce, AllOwed, SpeakerRuns, SpeakerKept

(* Every step, as the finals see it.                                       *)
LEMMA FinalsStep ==
  ASSUME FinalsInv, [Next]_vars
  PROVE  /\ FinalTypes' /\ OwedOnce' /\ (stopping => UNCHANGED observed)
         /\ ~stopping => AllOwed' /\ (SpeakerRuns' \/ stopping')
  <1>1. CASE SpeakerKept
    BY <1>1, FinalsFrame
  <1>2. CASE UNCHANGED vars \/ EndpointStep \/ RestStep
    BY <1>2, FinalsFrame, StutterFrames, OtherFrames DEF EndpointStep, StartScore, EndScore,
       ScoreFails, EndpointExit, RestStep, EndOfBlocks, CloseDrain, CloseAbort, OthersFault
  <1>3. CASE SpeakerStep
    BY <1>3, IdentifyKeepsFinals, IdentifiedKeepsFinals, SpeakerLeavesKeepsFinals
       DEF SpeakerStep, SpeakerFails
  <1>4. CASE RecognitionStep /\ ~EndTurn /\ ~FinishTurn
    <2>1. SpeakerKept
      BY <1>4 DEF RecognitionStep, TakeBlock, Poll, PollSkipped, Submit, Resolve, Late, Continue,
         CloseGate, InputDone, RecognizerFails, Refused, VerdictBroken,
         Unretired, RecognitionExit, Leave, RecognitionFrame, NoFinals, SpeakerKept
    <2> QED
      BY <1>1, <2>1
  <1>5. CASE EndTurn \/ FinishTurn
    <2>1. CASE SpeakerKept
      BY <1>1, <2>1
    <2>2. CASE ~SpeakerKept
      <3>1. Finals /\ UNCHANGED <<identifying, speaker, stopping>>
        <4>1. CASE EndTurn
          BY <2>2, <4>1 DEF EndTurn, Leave, CompleteTurn, RecognitionFrame, NoFinals, SpeakerKept
        <4>2. CASE FinishTurn
          BY <2>2, <4>2 DEF FinishTurn, CompleteTurn, RecognitionFrame, NoFinals, SpeakerKept
        <4> QED
          BY <1>5, <4>1, <4>2
      <3> QED
        BY <3>1, FinalsKeep
    <2> QED
      BY <2>1, <2>2
  <1> QED
    BY <1>2, <1>3, <1>4, <1>5 DEF Next

(* What a session that stops has had for a reason.                         *)
LEMMA StopsFor ==
  ASSUME [Next]_vars, ~stopping, stopping'
  PROVE  aborted' \/ error' # "none" \/ (inputDone' /\ ~speakerBusy')
  <1>1. CASE UNCHANGED vars
    BY <1>1, StutterFrames
  <1>2. CASE RecognitionStep
    <2>1. CASE InputDone
      BY <2>1, ClosesWhenDone DEF InputDone
    <2>2. CASE (\E v \in BOOLEAN : TakeBlock(v)) \/ Poll \/ PollSkipped \/ Submit \/ Resolve \/ Late
      BY <2>2 DEF TakeBlock, Poll, PollSkipped, Submit, Resolve, Late
    <2>3. CASE FinishTurn \/ CloseGate \/ RecognitionExit
      BY <2>3 DEF FinishTurn, CloseGate, RecognitionExit
    <2>4. CASE Continue
      BY <2>4 DEF Continue, Fault
    <2>5. CASE EndTurn \/ RecognizerFails \/ Refused \/ VerdictBroken \/ Unretired
      BY <2>5 DEF EndTurn, RecognizerFails, Refused, VerdictBroken, Unretired, Leave, Fault
    <2> QED
      BY <1>2, <2>1, <2>2, <2>3, <2>4, <2>5 DEF RecognitionStep
  <1>3. CASE EndpointStep
    BY <1>3 DEF EndpointStep, StartScore, EndScore, ScoreFails, EndpointExit, Fault
  <1>4. CASE SpeakerStep
    BY <1>4, ClosesWhenDone DEF SpeakerStep, Identify, Identified, SpeakerFails, SpeakerExit, Fault
  <1>5. CASE RestStep
    BY <1>5, ClosesWhenDone DEF RestStep, EndOfBlocks, CloseDrain, CloseAbort, OthersFault, Fault
  <1> QED
    BY <1>1, <1>2, <1>3, <1>4, <1>5 DEF Next

LEMMA InputStaysDone == [Next]_vars /\ inputDone => inputDone'
  <1> SUFFICES ASSUME [Next]_vars, inputDone PROVE inputDone'
    OBVIOUS
  <1>1. CASE UNCHANGED vars
    BY <1>1, StutterFrames
  <1>2. CASE EndpointStep \/ SpeakerStep \/ RestStep
    BY <1>2, OtherFrames DEF EndpointStep, StartScore, EndScore, ScoreFails, EndpointExit,
       SpeakerStep, Identify, Identified, SpeakerFails, SpeakerExit,
       RestStep, EndOfBlocks, CloseDrain, CloseAbort, OthersFault
  <1>3. CASE RecognitionStep
    BY <1>3 DEF RecognitionStep, TakeBlock, Poll, PollSkipped, Submit, Resolve, Late, Continue,
       EndTurn, FinishTurn, CloseGate, InputDone, RecognizerFails, Refused, VerdictBroken,
       Unretired, RecognitionExit, Leave
  <1> QED
    BY <1>1, <1>2, <1>3 DEF Next

LEMMA NextKeepsFinals == FinalsInv /\ TypeInv /\ [Next]_vars => FinalsInv'
  <1> SUFFICES ASSUME FinalsInv, TypeInv, [Next]_vars PROVE FinalsInv'
    OBVIOUS
  <1>1. /\ FinalTypes' /\ OwedOnce' /\ (stopping => UNCHANGED observed)
        /\ ~stopping => AllOwed' /\ (SpeakerRuns' \/ stopping')
    BY FinalsStep
  <1>2. (aborted => aborted') /\ (error # "none" => error' # "none")
    <2>1. SUFFICES ASSUME error # "none" PROVE error' # "none"
      BY ErrorMoves
    <2>2. \/ UNCHANGED error
          \/ (Continue \/ EndTurn) /\ error # "none"
      BY <2>1, ErrorMoves
    <2>3. ASSUME Continue \/ EndTurn PROVE error' # "none"
      BY <2>1, <2>3 DEF Continue, EndTurn, Leave, Fault
    <2> QED
      BY <2>1, <2>2, <2>3
  <1>3. ~stopping' => AllOwed' /\ SpeakerRuns'
    <2>1. SUFFICES ASSUME ~stopping' PROVE AllOwed' /\ SpeakerRuns'
      OBVIOUS
    <2>2. ~stopping
      BY <2>1, StoppingStays
    <2> QED
      BY <1>1, <2>1, <2>2
  <1>4. StoppedClean'
    <2>1. SUFFICES ASSUME stopping', ~aborted', error' = "none"
                   PROVE  inputDone' /\ \A f \in 1..Len(observed') : observed'[f] = 1
      BY DEF StoppedClean
    <2>2. CASE stopping
      BY <1>1, <1>2, <2>1, <2>2, InputStaysDone DEF FinalsInv, StoppedClean
    <2>3. CASE ~stopping
      <3>1. inputDone' /\ ~speakerBusy'
        BY <2>1, <2>3, StopsFor
      <3>2. FinalTypes' /\ AllOwed'
        BY <1>1, <2>3
      <3>3. speakerJobs' = <<>> /\ identifying' = None
        BY <3>1, <3>2 DEF AllOwed
      <3>4. \A f \in 1..Len(observed') : observed'[f] # 0
        BY <3>2, <3>3 DEF AllOwed, None
      <3>5. \A f \in 1..Len(observed') : observed'[f] \in {0, 1}
        BY <3>2, ElementOfSeq DEF FinalTypes
      <3> QED
        BY <3>1, <3>4, <3>5
    <2> QED
      BY <2>2, <2>3
  <1> QED
    BY <1>1, <1>3, <1>4 DEF FinalsInv

(* The invariant of the finals, for every reachable state.                 *)
THEOREM FinalsInvariance == Spec => []FinalsInv
  <1>1. FinalsInv /\ GateInv /\ [Next]_vars => FinalsInv'
    BY NextKeepsFinals DEF GateInv
  <1> QED
    BY <1>1, InitFinalsInv, GateInvariance, PTL DEF Spec

(* No final is observed twice; while the session runs and the speaker      *)
(* thread is not busy, every one has been observed; and a session that     *)
(* closes by itself, without an abort and without a fault, does so only    *)
(* after its input is done and every final is observed (speaker_loop,      *)
(* recognition_loop, maybe_close_locked).                                  *)
THEOREM FinalsObservedHolds == Spec => []FinalsObserved
  <1>1. FinalsInv => FinalsObserved
    <2> SUFFICES ASSUME FinalsInv PROVE FinalsObserved
      OBVIOUS
    <2>1. \A f \in 1..Len(observed) : observed[f] \in {0, 1}
      BY ElementOfSeq DEF FinalsInv, FinalTypes
    <2>2. ~speakerBusy /\ ~stopping => \A f \in 1..Len(observed) : observed[f] = 1
      <3> SUFFICES ASSUME ~speakerBusy, ~stopping PROVE \A f \in 1..Len(observed) : observed[f] = 1
        OBVIOUS
      <3>1. speakerJobs = <<>> /\ identifying = None
        BY DEF FinalsInv, AllOwed
      <3>2. \A f \in 1..Len(observed) : observed[f] # 0
        BY <3>1 DEF FinalsInv, AllOwed, None
      <3> QED
        BY <2>1, <3>2
    <2>3. \A f \in 1..Len(observed) : observed[f] <= 1
      BY <2>1
    <2> QED
      BY <2>2, <2>3 DEF FinalsInv, StoppedClean, FinalsObserved
  <1> QED
    BY <1>1, FinalsInvariance, PTL

----------------------------------------------------------------------------
(***************************************************************************)
(* What the recognizer hears, for every number of blocks and all           *)
(* thresholds of silence: no block twice, none out of order, no speech     *)
(* missed.  The inductive invariant says of every place of the recognition *)
(* thread how far the recognizer has heard (Reach) and that what is kept   *)
(* back is a run of blocks that ends with the newest.                      *)
(***************************************************************************)

----------------------------------------------------------------------------
(* What is kept from before the speech is again a run of blocks.           *)
LEMMA LatestRun ==
  ASSUME NEW m \in Nat, NEW n \in 1..m, NEW k \in Nat \ {0}
  PROVE  \E p \in 1..n : Latest(Run(m, n), k) = Run(m, p)
  <1> DEFINE s == Run(m, n)
             skip == IF n > k THEN n - k ELSE 0
             t == Latest(s, k)
             p == n - skip
  <1>1. s \in Seq(1..m) /\ Len(s) = n /\ \A i \in 1..n : s[i] = m - n + i
    BY RunFacts
  <1>2. skip \in Nat /\ p \in 1..n /\ skip + 1 \in 1..n /\ p \in 0..m /\ n \in 1..n /\ n \in Nat
    OBVIOUS
  <1>3. t = SubSeq(s, skip + 1, n)
    BY <1>1 DEF Latest
  <1> HIDE DEF s, skip, t
  <1>4. /\ t \in Seq(1..m)
        /\ Len(t) = n - (skip + 1) + 1
        /\ \A i \in 1..n - (skip + 1) + 1 : t[i] = s[(skip + 1) + i - 1]
    BY <1>1, <1>2, <1>3, SubSeqProperties
  <1>5. Len(t) = p
    BY <1>2, <1>4
  <1>6. Run(m, p) \in Seq(1..m) /\ Len(Run(m, p)) = p /\ \A i \in 1..p : Run(m, p)[i] = m - p + i
    BY <1>2, RunFacts
  <1>7. ASSUME NEW i \in 1..p PROVE t[i] = Run(m, p)[i]
    <2>1. i \in 1..n - (skip + 1) + 1 /\ (skip + 1) + i - 1 \in 1..n
          /\ m - n + ((skip + 1) + i - 1) = m - p + i
      BY <1>2
    <2>2. t[i] = s[(skip + 1) + i - 1]
      BY <1>4, <2>1
    <2>3. s[(skip + 1) + i - 1] = m - n + ((skip + 1) + i - 1)
      BY <1>1, <2>1
    <2>4. Run(m, p)[i] = m - p + i
      BY <1>6
    <2> QED
      BY <2>1, <2>2, <2>3, <2>4
  <1>8. t = Run(m, p)
    BY <1>4, <1>5, <1>6, <1>7, SeqEqual
  <1> QED
    BY <1>2, <1>8 DEF t, s

(* What was heard, and what is kept from before the speech.                *)
Reach == taken - Tail_
Hears(b) == \E i \in 1..Len(heard) : heard[i] = b
HeardInOrder == heard \in Seq(1..Reach) /\ Increasing(heard)
HeardAll ==
    kind.continuous => Len(heard) = Reach /\ \A i \in 1..Len(heard) : heard[i] = i
Before_ ==
    /\ Len(preroll) \in 0..taken /\ preroll = Run(taken, Len(preroll))
    /\ ~active /\ ~kind.continuous =>
         \A i \in 1..Len(heard) : heard[i] <= taken - Len(preroll)
OpenTurnHeard == from \in 0..taken /\ (active => \A b \in from..Reach : Hears(b))
SpeechHeard == \A b \in speech : Hears(b) \/ b > Reach
(* What is kept back while the thread decides is silent, unless the last   *)
(* block brings speech.                                                    *)
SilentTail ==
    \/ place = "take" /\ ~stopping
    \/ place \in {"poll", "submit", "verdict", "settle"} /\ ~voiced
    => \A b \in speech : b <= Reach
HearingInv ==
    HeardInOrder /\ HeardAll /\ Before_ /\ OpenTurnHeard /\ SpeechHeard /\ SilentTail

(* The recognizer hears n more blocks, the last of them t.                 *)
HearsMore(t, n) ==
    /\ heard' \in Seq(1..t) /\ Len(heard') = Len(heard) + n
    /\ \A i \in 1..Len(heard) : heard'[i] = heard[i]
    /\ \A i \in 1..n : heard'[Len(heard) + i] = t - n + i

LEMMA HearNothing ==
  ASSUME NEW r \in Nat, NEW t \in Nat, r <= t, heard \in Seq(1..r), UNCHANGED heard
  PROVE  HearsMore(t, 0)
  <1>1. 1..r \subseteq 1..t /\ Len(heard) \in Nat /\ \A i : i \notin 1..0
    BY LenProperties
  <1>2. heard \in Seq(1..t)
    BY <1>1, SeqMonotonic
  <1> QED
    BY <1>1, <1>2 DEF HearsMore

LEMMA HearOne ==
  ASSUME NEW r \in Nat, NEW t \in Nat \ {0}, r <= t, heard \in Seq(1..r), heard' = Append(heard, t)
  PROVE  HearsMore(t, 1)
  <1>1. 1..r \subseteq 1..t /\ Len(heard) \in Nat /\ t \in 1..t
    BY LenProperties
  <1>2. heard \in Seq(1..t)
    BY <1>1, SeqMonotonic
  <1>3. /\ heard' \in Seq(1..t) /\ Len(heard') = Len(heard) + 1
        /\ \A i \in 1..Len(heard) : heard'[i] = heard[i]
        /\ heard'[Len(heard) + 1] = t
    BY <1>1, <1>2, AppendProperties
  <1>4. \A i \in 1..1 : i = 1 /\ t - 1 + 1 = t
    OBVIOUS
  <1> QED
    BY <1>3, <1>4 DEF HearsMore

LEMMA HearRun ==
  ASSUME NEW r \in Nat, NEW t \in Nat, r <= t, heard \in Seq(1..r), NEW n \in 0..t,
         heard' = heard \o Run(t, n)
  PROVE  HearsMore(t, n)
  <1>1. 1..r \subseteq 1..t /\ Len(heard) \in Nat
    BY LenProperties
  <1>2. heard \in Seq(1..t)
    BY <1>1, SeqMonotonic
  <1> DEFINE new == Run(t, n)
  <1>3. new \in Seq(1..t) /\ Len(new) = n /\ \A i \in 1..n : new[i] = t - n + i
    BY RunFacts
  <1> HIDE DEF new
  <1>4. heard' = heard \o new
    BY DEF new
  <1>5. /\ heard \o new \in Seq(1..t) /\ Len(heard \o new) = Len(heard) + Len(new)
        /\ \A i \in 1..Len(heard) + Len(new) : (heard \o new)[i] =
             IF i <= Len(heard) THEN heard[i] ELSE new[i - Len(heard)]
    BY <1>2, <1>3, ConcatProperties
  <1>6. ASSUME NEW i \in 1..Len(heard) PROVE heard'[i] = heard[i]
    <2>1. i \in 1..Len(heard) + Len(new) /\ i <= Len(heard)
      BY <1>1, <1>3
    <2> QED
      BY <1>4, <1>5, <2>1
  <1>7. ASSUME NEW i \in 1..n PROVE heard'[Len(heard) + i] = t - n + i
    <2>1. Len(heard) + i \in 1..Len(heard) + Len(new) /\ ~(Len(heard) + i <= Len(heard))
          /\ (Len(heard) + i) - Len(heard) = i
      BY <1>1, <1>3
    <2> QED
      BY <1>3, <1>4, <1>5, <2>1
  <1> QED
    BY <1>3, <1>4, <1>5, <1>6, <1>7 DEF HearsMore

(* Blocks later than all that was heard keep it in order.                  *)
LEMMA MoreFacts ==
  ASSUME NEW r \in Nat, heard \in Seq(1..r), Increasing(heard), NEW t \in Nat, NEW n \in 0..t,
         \A i \in 1..Len(heard) : heard[i] <= t - n, HearsMore(t, n)
  PROVE  /\ heard' \in Seq(1..t) /\ Increasing(heard')
         /\ \A b : Hears(b) => Hears(b)'
         /\ \A b \in t - n + 1..t : Hears(b)'
         /\ Len(heard) = t - n /\ (\A i \in 1..Len(heard) : heard[i] = i) =>
              Len(heard') = t /\ \A i \in 1..Len(heard') : heard'[i] = i
         /\ \A i \in 1..Len(heard') : heard'[i] \in 1..t
  <1> DEFINE old == Len(heard)
  <1>1. old \in Nat /\ \A i \in 1..old : heard[i] \in 1..r
    BY LenProperties, ElementOfSeq
  <1>2. /\ heard' \in Seq(1..t) /\ Len(heard') = old + n
        /\ \A i \in 1..old : heard'[i] = heard[i]
        /\ \A i \in 1..n : heard'[old + i] = t - n + i
    BY DEF HearsMore
  <1>12. Len(heard') = old + n
    BY DEF HearsMore
  <1>3. \A i \in 1..old - 1 : heard[i] < heard[i + 1]
    BY DEF Increasing
  <1>4. \A i \in 1..old : heard[i] <= t - n
    OBVIOUS
  <1> HIDE DEF old
  <1>5. \A i \in 1..Len(heard') : heard'[i] \in 1..t
    BY <1>2, ElementOfSeq
  <1>6. \A i \in old + 1..old + n : heard'[i] = t - n + (i - old)
    <2>1. \A i \in old + 1..old + n : i - old \in 1..n /\ old + (i - old) = i
      BY <1>1
    <2> QED
      BY <1>2, <2>1
  <1>7. ASSUME NEW i \in 1..old + n - 1 PROVE heard'[i] < heard'[i + 1]
    <2>1. CASE i < old
      <3>1. i \in 1..old - 1 /\ i \in 1..old /\ i + 1 \in 1..old
        BY <1>1, <2>1
      <3> QED
        BY <1>2, <1>3, <3>1
    <2>2. CASE i = old
      <3>1. i \in 1..old /\ 1 \in 1..n /\ i + 1 = old + 1 /\ t - n + 1 > t - n
        BY <1>1, <2>2
      <3>2. heard'[i] = heard[i] /\ heard[i] \in Nat
        BY <1>1, <1>2, <3>1
      <3>3. heard[i] <= t - n
        BY <1>4, <3>1
      <3>4. heard'[i + 1] = t - n + 1
        BY <1>2, <3>1
      <3> QED
        BY <3>2, <3>3, <3>4
    <2>3. CASE i > old
      <3>1. i \in old + 1..old + n /\ i + 1 \in old + 1..old + n
        BY <1>1, <2>3
      <3>2. heard'[i] = t - n + (i - old) /\ heard'[i + 1] = t - n + ((i + 1) - old)
        BY <1>6, <3>1
      <3> QED
        BY <1>1, <3>2
    <2> QED
      BY <1>1, <2>1, <2>2, <2>3
  <1>8. Increasing(heard')
    <2>1. Len(heard') - 1 = old + n - 1
      BY <1>1, <1>12
    <2>2. \A i \in 1..Len(heard') - 1 : heard'[i] < heard'[i + 1]
      BY <1>7, <2>1, Zenon
    <2> QED
      BY <2>2 DEF Increasing
  <1>9. ASSUME NEW b, Hears(b) PROVE Hears(b)'
    <2>1. PICK i \in 1..old : heard[i] = b
      BY <1>9 DEF Hears, old
    <2>2. i \in 1..old + n
      BY <1>1
    <2> QED
      BY <1>2, <2>1, <2>2 DEF Hears
  <1>10. ASSUME NEW b \in t - n + 1..t PROVE Hears(b)'
    <2>1. b - (t - n) \in 1..n /\ t - n + (b - (t - n)) = b /\ old + (b - (t - n)) \in 1..old + n
      BY <1>1
    <2> QED
      BY <1>2, <2>1 DEF Hears
  <1>11. ASSUME old = t - n, \A i \in 1..old : heard[i] = i
         PROVE  Len(heard') = t /\ \A i \in 1..Len(heard') : heard'[i] = i
    <2>1. Len(heard') = t
      BY <1>2, <1>11
    <2>2. ASSUME NEW i \in 1..t PROVE heard'[i] = i
      <3>1. i \in 1..old \/ (i \in old + 1..old + n /\ t - n + (i - old) = i)
        BY <1>1, <1>11
      <3> QED
        BY <1>2, <1>6, <1>11, <3>1
    <2> QED
      BY <2>1, <2>2
  <1> QED
    BY <1>2, <1>5, <1>8, <1>9, <1>10, <1>11 DEF old

LEMMA InitHearingInv == Init => HearingInv
  <1> SUFFICES ASSUME Init PROVE HearingInv
    OBVIOUS
  <1>1. /\ taken = 0 /\ heard = <<>> /\ preroll = <<>> /\ provisional = <<>> /\ Len(<<>>) = 0
        /\ from = 0 /\ ~active /\ speech = {}
    BY DEF Init
  <1>2. Run(0, 0) = <<>> /\ Tail_ = 0 /\ Reach = 0
    <2>1. Run(0, 0) = <<>>
      BY RunFacts
    <2>2. Tail_ = 0
      BY <1>1 DEF Tail_
    <2> QED
      BY <1>1, <2>1, <2>2 DEF Reach
  <1>3. HeardInOrder
    BY <1>1, <1>2 DEF HeardInOrder, Increasing
  <1>4. HeardAll /\ Before_
    BY <1>1, <1>2 DEF HeardAll, Before_
  <1>5. OpenTurnHeard /\ SpeechHeard /\ SilentTail
    BY <1>1 DEF OpenTurnHeard, SpeechHeard, SilentTail
  <1> QED
    BY <1>3, <1>4, <1>5 DEF HearingInv

LEMMA ReachFacts ==
  ASSUME TypeInv, TailInv
  PROVE  /\ taken \in Nat /\ Tail_ \in 0..taken /\ Reach \in 0..taken /\ Reach = taken - Tail_
         /\ Reach + Tail_ = taken
         /\ speech \subseteq 1..taken
  <1>1. taken \in Nat /\ Tail_ \in 0..taken
    BY TailNumbers
  <1>2. Reach \in 0..taken /\ Reach = taken - Tail_ /\ Reach + Tail_ = taken
    BY <1>1 DEF Reach
  <1>3. speech \subseteq 1..taken
    BY DEF TypeInv, Numbers
  <1> QED
    BY <1>1, <1>2, <1>3

(* Steps that neither take nor hear nor resolve anything.                  *)
LEMMA HearingFrame ==
  ASSUME HearingInv, TypeInv, TailInv, TurnKept, UNCHANGED <<kind, taken, heard, speech>>,
         \/ UNCHANGED <<place, voiced>> /\ (stopping => stopping')
         \/ place' \in {"close", "report", "exited"}
         \/ place' = "take" /\ stopping'
         \/ place \in {"submit", "verdict"} /\ place' \in {"verdict", "settle"} /\ UNCHANGED voiced
  PROVE  HearingInv'
  <1>1. UNCHANGED <<Reach, Tail_>> /\ (\A b : Hears(b)' <=> Hears(b))
    BY DEF Reach, Tail_, TurnKept, Hears
  <1>2. HeardInOrder' /\ HeardAll' /\ Before_'
    BY <1>1 DEF HearingInv, HeardInOrder, HeardAll, Before_, Increasing, Run, TurnKept
  <1>3. OpenTurnHeard' /\ SpeechHeard'
    BY <1>1 DEF HearingInv, OpenTurnHeard, SpeechHeard, TurnKept
  <1>4. SilentTail'
    BY <1>1 DEF HearingInv, SilentTail, TurnKept
  <1> QED
    BY <1>2, <1>3, <1>4 DEF HearingInv

LEMMA PollKeepsHearing ==
  ASSUME HearingInv, TypeInv, TailInv, Poll
  PROVE  HearingInv'
  <1>1. /\ UNCHANGED <<kind, taken, active, from, boundary, preroll, provisional, heard, speech, voiced>>
        /\ place = "poll" /\ place' \in {"settle", "submit", "verdict"}
    BY DEF Poll, RecognitionFrame
  <1>2. UNCHANGED <<Reach, Tail_>> /\ (\A b : Hears(b)' <=> Hears(b))
    BY <1>1 DEF Reach, Tail_, Hears
  <1>3. HeardInOrder' /\ HeardAll' /\ Before_'
    BY <1>1, <1>2 DEF HearingInv, HeardInOrder, HeardAll, Before_, Increasing, Run
  <1>4. OpenTurnHeard' /\ SpeechHeard'
    BY <1>1, <1>2 DEF HearingInv, OpenTurnHeard, SpeechHeard
  <1>5. SilentTail'
    BY <1>1, <1>2 DEF HearingInv, SilentTail
  <1> QED
    BY <1>3, <1>4, <1>5 DEF HearingInv

(* A step that hears n more blocks and reaches t.                          *)
LEMMA HearingGrows ==
  ASSUME HearingInv, TypeInv, TailInv, UNCHANGED kind,
         NEW t \in Nat, NEW n \in 0..t, HearsMore(t, n), Reach' = t,
         \A i \in 1..Len(heard) : heard[i] <= t - n,
         kind.continuous => Reach = t - n
  PROVE  /\ HeardInOrder' /\ HeardAll'
         /\ \A b : Hears(b) => Hears(b)'
         /\ \A b \in t - n + 1..t : Hears(b)'
         /\ \A i \in 1..Len(heard') : heard'[i] \in 1..t
  <1>0. Reach \in Nat /\ heard \in Seq(1..Reach) /\ Increasing(heard)
    BY ReachFacts DEF HearingInv, HeardInOrder
  <1>1. /\ heard' \in Seq(1..t) /\ Increasing(heard')
        /\ \A b : Hears(b) => Hears(b)'
        /\ \A b \in t - n + 1..t : Hears(b)'
        /\ Len(heard) = t - n /\ (\A i \in 1..Len(heard) : heard[i] = i) =>
             Len(heard') = t /\ \A i \in 1..Len(heard') : heard'[i] = i
        /\ \A i \in 1..Len(heard') : heard'[i] \in 1..t
    BY <1>0, MoreFacts
  <1>2. HeardInOrder'
    BY <1>1 DEF HeardInOrder, Increasing
  <1>3. HeardAll'
    BY <1>1 DEF HearingInv, HeardAll
  <1> QED
    BY <1>1, <1>2, <1>3

(* All that was heard lies within reach.                                   *)
LEMMA HeardWithinReach ==
  ASSUME HearingInv, TypeInv, TailInv
  PROVE  /\ heard \in Seq(1..Reach)
         /\ \A i \in 1..Len(heard) : heard[i] \in 1..Reach
  BY ElementOfSeq DEF HearingInv, HeardInOrder

LEMMA ContinueKeepsHearing ==
  ASSUME HearingInv, TypeInv, TailInv, Continue
  PROVE  HearingInv'
  <1> DEFINE kept == boundary \/ pending # None
             flush == kept /\ (voiced \/ pending = None)
  <1>1. /\ heard' = (IF flush THEN heard \o provisional ELSE heard)
        /\ provisional' = (IF flush THEN <<>> ELSE provisional)
        /\ UNCHANGED <<kind, taken, active, from, preroll, speech>>
        /\ place = "settle" /\ place' \in {"take", "exited"}
    BY DEF Continue, Flush, RecognitionFrame
  <1>2. /\ taken \in Nat /\ Tail_ \in 0..taken /\ Reach \in 0..taken /\ Reach = taken - Tail_
        /\ Reach + Tail_ = taken /\ speech \subseteq 1..taken /\ active
        /\ heard \in Seq(1..Reach) /\ (\A i \in 1..Len(heard) : heard[i] \in 1..Reach)
    BY <1>1, ReachFacts, HeardWithinReach DEF TailInv, TailPlaces
  <1>3. CASE flush
    <2>1. provisional = Run(taken, Tail_) /\ Len(<<>>) = 0
      BY DEF TailInv, TailShape
    <2>2. HearsMore(taken, Tail_)
      <3>1. heard' = heard \o Run(taken, Tail_) /\ Reach \in Nat /\ Reach <= taken
        BY <1>1, <1>2, <1>3, <2>1
      <3> QED
        BY <1>2, <3>1, HearRun
    <2>3. Tail_' = 0 /\ Reach' = taken
      BY <1>1, <1>2, <1>3, <2>1 DEF Tail_, Reach
    <2>4. \A i \in 1..Len(heard) : heard[i] <= taken - Tail_
      BY <1>2
    <2>5. /\ HeardInOrder' /\ HeardAll'
          /\ \A b : Hears(b) => Hears(b)'
          /\ \A b \in taken - Tail_ + 1..taken : Hears(b)'
      BY <1>1, <1>2, <2>2, <2>3, <2>4, HearingGrows
    <2>6. Before_'
      BY <1>1, <1>2 DEF HearingInv, Before_, Run
    <2>7. OpenTurnHeard'
      <3>1. ASSUME NEW b \in from..taken PROVE Hears(b)'
        <4>1. from \in 0..taken
          BY DEF HearingInv, OpenTurnHeard
        <4>2. b \in from..Reach \/ b \in taken - Tail_ + 1..taken
          BY <1>2, <3>1, <4>1
        <4> QED
          BY <1>2, <2>5, <4>2 DEF HearingInv, OpenTurnHeard
      <3> QED
        BY <1>1, <2>3, <3>1 DEF HearingInv, OpenTurnHeard
    <2>8. SpeechHeard' /\ SilentTail'
      <3>1. ASSUME NEW b \in speech PROVE Hears(b)' /\ b <= taken
        <4>1. b \in 1..taken /\ (Hears(b) \/ b > Reach)
          BY <1>2 DEF HearingInv, SpeechHeard
        <4>2. b > Reach => b \in taken - Tail_ + 1..taken
          BY <1>2, <4>1
        <4> QED
          BY <1>2, <2>5, <4>1, <4>2
      <3> QED
        BY <1>1, <2>3, <3>1 DEF SpeechHeard, SilentTail
    <2> QED
      BY <2>5, <2>6, <2>7, <2>8 DEF HearingInv
  <1>4. CASE ~flush
    <2>1. heard' = heard /\ provisional' = provisional
      BY <1>1, <1>4
    <2>2. UNCHANGED <<Reach, Tail_>> /\ (\A b : Hears(b)' <=> Hears(b))
      BY <1>1, <2>1 DEF Reach, Tail_, Hears
    <2>3. HeardInOrder' /\ HeardAll' /\ Before_'
      BY <1>1, <2>1, <2>2 DEF HearingInv, HeardInOrder, HeardAll, Before_, Increasing, Run
    <2>4. OpenTurnHeard' /\ SpeechHeard'
      BY <1>1, <2>2 DEF HearingInv, OpenTurnHeard, SpeechHeard
    <2>5. SilentTail'
      <3>1. \A b \in speech : b <= Reach
        <4>1. CASE voiced
          <5>1. Tail_ = 0
            BY <1>1, <1>4, <4>1 DEF TailInv, TailPlaces
          <5> QED
            BY <1>2, <5>1
        <4>2. CASE ~voiced
          BY <1>1, <4>2 DEF HearingInv, SilentTail
        <4> QED
          BY <4>1, <4>2
      <3> QED
        BY <1>1, <2>2, <3>1 DEF SilentTail
    <2> QED
      BY <2>3, <2>4, <2>5 DEF HearingInv
  <1> QED
    BY <1>3, <1>4

(* A turn that ends leaves what was kept back to the next, unless the      *)
(* recognizer hears everything.                                            *)
LEMMA EndTurnKeepsHearing ==
  ASSUME HearingInv, TypeInv, TailInv, EndTurn
  PROVE  HearingInv'
  <1>1. /\ heard' = (IF kind.continuous THEN heard \o provisional ELSE heard)
        /\ preroll' = provisional /\ provisional' = <<>> /\ place' = "take" /\ place = "settle"
        /\ active' = FALSE /\ from' = 0 /\ decision # "none" /\ UNCHANGED <<kind, taken, speech>>
    <2>1. ~(Len(provisional) > Commit - Trigger)
      BY SettleKeepsTail DEF Tail_
    <2> QED
      BY <2>1 DEF EndTurn, CompleteTurn, RecognitionFrame
  <1>2. /\ taken \in Nat /\ Tail_ \in 0..taken /\ Reach \in 0..taken /\ Reach = taken - Tail_
        /\ Reach + Tail_ = taken /\ speech \subseteq 1..taken
        /\ heard \in Seq(1..Reach) /\ (\A i \in 1..Len(heard) : heard[i] \in 1..Reach)
    BY <1>1, ReachFacts, HeardWithinReach
  <1>3. provisional = Run(taken, Tail_) /\ Len(<<>>) = 0 /\ Len(provisional) = Tail_
    BY DEF TailInv, TailShape, Tail_
  <1>4. Tail_' = 0 /\ Reach' = taken
    BY <1>1, <1>2, <1>3 DEF Tail_, Reach
  <1>5. \A b \in speech : b <= Reach /\ Hears(b)
    <2>1. ~voiced
      BY <1>1 DEF TypeInv, Places
    <2>2. \A b \in speech : b <= Reach
      BY <1>1, <2>1 DEF HearingInv, SilentTail
    <2>3. \A b \in speech : ~(b > Reach)
      BY <1>2, <2>2
    <2> QED
      BY <2>2, <2>3 DEF HearingInv, SpeechHeard
  <1>6. PICK n \in 0..taken : HearsMore(taken, n) /\ (kind.continuous => n = Tail_) /\ n <= Tail_
    <2>1. CASE kind.continuous
      <3>1. heard' = heard \o Run(taken, Tail_) /\ Reach \in Nat /\ Reach <= taken
        BY <1>1, <1>2, <1>3, <2>1
      <3>2. HearsMore(taken, Tail_)
        BY <1>2, <3>1, HearRun
      <3>3. Tail_ <= Tail_
        BY <1>2
      <3> QED
        BY <1>2, <3>2, <3>3
    <2>2. CASE ~kind.continuous
      <3>1. HearsMore(taken, 0) /\ 0 \in 0..taken /\ 0 <= Tail_
        BY <1>1, <1>2, <2>2, HearNothing
      <3> QED
        BY <2>2, <3>1
    <2> QED
      BY <2>1, <2>2
  <1>7. /\ HeardInOrder' /\ HeardAll'
        /\ \A b : Hears(b) => Hears(b)'
    <2>1. \A i \in 1..Len(heard) : heard[i] <= taken - n
      BY <1>2, <1>6
    <2>2. kind.continuous => Reach = taken - n
      BY <1>2, <1>6
    <2> QED
      BY <1>1, <1>2, <1>4, <1>6, <2>1, <2>2, HearingGrows
  <1>8. Before_'
    <2>1. ASSUME ~kind.continuous PROVE \A i \in 1..Len(heard') : heard'[i] <= taken - Tail_
      BY <1>1, <1>2, <2>1
    <2> QED
      BY <1>1, <1>2, <1>3, <2>1 DEF Before_
  <1>9. OpenTurnHeard' /\ SpeechHeard'
    BY <1>1, <1>2, <1>5, <1>7 DEF OpenTurnHeard, SpeechHeard
  <1>10. SilentTail'
    BY <1>1, <1>2, <1>4 DEF SilentTail
  <1> QED
    BY <1>7, <1>8, <1>9, <1>10 DEF HearingInv

LEMMA FinishKeepsHearing ==
  ASSUME HearingInv, TypeInv, TailInv, FinishTurn
  PROVE  HearingInv'
  <1>1. /\ heard' = heard \o provisional /\ provisional' = <<>> /\ place' = "close" /\ place = "take"
        /\ UNCHANGED <<kind, taken, speech>>
        /\ IF active THEN active' = FALSE /\ from' = 0 /\ preroll' = <<>>
           ELSE UNCHANGED <<active, from, preroll>>
    BY DEF FinishTurn, CompleteTurn, RecognitionFrame
  <1>2. /\ taken \in Nat /\ Tail_ \in 0..taken /\ Reach \in 0..taken /\ Reach = taken - Tail_
        /\ Reach + Tail_ = taken /\ speech \subseteq 1..taken
        /\ heard \in Seq(1..Reach) /\ (\A i \in 1..Len(heard) : heard[i] \in 1..Reach)
    BY <1>1, ReachFacts, HeardWithinReach
  <1>3. provisional = Run(taken, Tail_) /\ Len(<<>>) = 0 /\ Run(taken, 0) = <<>>
    BY <1>2, RunFacts DEF TailInv, TailShape, Tail_
  <1>4. Tail_' = 0 /\ Reach' = taken
    BY <1>1, <1>2, <1>3 DEF Tail_, Reach
  <1>5. HearsMore(taken, Tail_)
    <2>1. heard' = heard \o Run(taken, Tail_) /\ Reach \in Nat /\ Reach <= taken
      BY <1>1, <1>2, <1>3
    <2> QED
      BY <1>2, <2>1, HearRun
  <1>6. /\ HeardInOrder' /\ HeardAll'
        /\ \A b : Hears(b) => Hears(b)'
        /\ \A b \in taken - Tail_ + 1..taken : Hears(b)'
        /\ \A i \in 1..Len(heard') : heard'[i] \in 1..taken
    <2>1. \A i \in 1..Len(heard) : heard[i] <= taken - Tail_
      BY <1>2
    <2> QED
      BY <1>1, <1>2, <1>4, <1>5, <2>1, HearingGrows
  <1>7. ~active => Tail_ = 0
    BY <1>1 DEF TailInv, TailPlaces
  <1>8. Before_'
    <2>1. CASE active
      <3>1. \A i \in 1..Len(heard') : heard'[i] <= taken - 0
        BY <1>2, <1>6
      <3> QED
        BY <1>1, <1>2, <1>3, <2>1, <3>1 DEF Before_
    <2>2. CASE ~active
      <3>1. provisional = <<>>
        BY <1>3, <1>7, <2>2
      <3>2. heard' = heard
        BY <1>1, <1>2, <3>1, ConcatEmptySeq
      <3> QED
        BY <1>1, <2>2, <3>2 DEF HearingInv, Before_, Run
    <2> QED
      BY <2>1, <2>2
  <1>9. OpenTurnHeard'
    BY <1>1, <1>2 DEF HearingInv, OpenTurnHeard
  <1>10. SpeechHeard'
    <2>1. ASSUME NEW b \in speech PROVE Hears(b)'
      <3>1. b \in 1..taken /\ (Hears(b) \/ b > Reach)
        BY <1>2 DEF HearingInv, SpeechHeard
      <3>2. b > Reach => b \in taken - Tail_ + 1..taken
        BY <1>2, <3>1
      <3> QED
        BY <1>2, <1>6, <3>1, <3>2
    <2> QED
      BY <1>1, <2>1 DEF SpeechHeard
  <1>11. SilentTail'
    BY <1>1 DEF SilentTail
  <1> QED
    BY <1>6, <1>8, <1>9, <1>10, <1>11 DEF HearingInv

LEMMA TakeBlockKeepsHearing ==
  ASSUME HearingInv, TypeInv, TailInv, NEW v \in BOOLEAN, TakeBlock(v),
         NEW b, b = taken + 1
  PROVE  HearingInv'
  <1> DEFINE before == Latest(Append(preroll, b), PrerollLimit)
             opens == ~active /\ v
             kept == active /\ boundary
  <1>1. /\ taken' = b /\ preroll' = before /\ active' = (active \/ v) /\ voiced' = v
        /\ from' = (IF opens THEN before[1] ELSE from)
        /\ provisional' = (IF kept THEN Append(provisional, b) ELSE provisional)
        /\ heard' = (IF kept THEN heard
                     ELSE IF opens /\ ~kind.continuous THEN heard \o before
                     ELSE IF active \/ kind.continuous THEN Append(heard, b)
                     ELSE heard)
        /\ speech' = (IF v THEN speech \cup {b} ELSE speech)
        /\ place = "take" /\ ~stopping /\ UNCHANGED <<kind, stopping>>
    BY DEF TakeBlock, KeepBack, RecognitionFrame
  <1>2. /\ taken \in Nat /\ Tail_ \in 0..taken /\ Reach \in 0..taken /\ Reach = taken - Tail_
        /\ Reach + Tail_ = taken /\ speech \subseteq 1..taken
        /\ heard \in Seq(1..Reach) /\ (\A i \in 1..Len(heard) : heard[i] \in 1..Reach)
    BY <1>1, ReachFacts, HeardWithinReach
  <1>3. ~kept => Tail_ = 0 /\ Reach = taken
    <2>1. ~kept => ~boundary
      BY <1>1 DEF TailInv, TailPlaces
    <2>2. ~boundary => Tail_ = 0
      BY <1>1 DEF TailInv, TailPlaces
    <2> QED
      BY <1>2, <2>1, <2>2
  <1>4. b \in Nat \ {0} /\ taken <= b /\ Reach \in Nat /\ Reach <= b /\ Reach <= taken
    BY <1>2
  <1>5. Tail_' = (IF kept THEN Tail_ + 1 ELSE Tail_) /\ Reach' = (IF kept THEN Reach ELSE b)
    <2>1. CASE kept
      <3>1. provisional = Run(taken, Tail_)
        BY DEF TailInv, TailShape
      <3>2. provisional \in Seq(1..taken) /\ Len(provisional) = Tail_
        BY <1>2, <3>1, RunFacts
      <3>3. 1..taken \subseteq 1..b /\ b \in 1..b
        BY <1>2
      <3>4. provisional \in Seq(1..b)
        BY <3>2, <3>3, SeqMonotonic
      <3>5. Len(Append(provisional, b)) = Tail_ + 1
        BY <3>2, <3>3, <3>4, AppendProperties
      <3>6. Tail_' = Tail_ + 1
        BY <1>1, <2>1, <3>5 DEF Tail_
      <3> QED
        BY <1>1, <1>2, <2>1, <3>6 DEF Reach
    <2>2. CASE ~kept
      BY <1>1, <1>2, <1>3, <2>2 DEF Tail_, Reach
    <2> QED
      BY <2>1, <2>2
  <1>6. PICK p \in 1..Len(preroll) + 1 : before = Run(b, p)
    <2>1. Len(preroll) \in 0..taken /\ preroll = Run(taken, Len(preroll))
      BY DEF HearingInv, Before_
    <2>2. Append(Run(taken, Len(preroll)), taken + 1) = Run(taken + 1, Len(preroll) + 1)
      BY <1>2, <2>1, RunFacts
    <2>3. Append(preroll, b) = Run(b, Len(preroll) + 1)
      BY <2>1, <2>2
    <2>4. Len(preroll) + 1 \in 1..b /\ PrerollLimit \in Nat \ {0} /\ b \in Nat
      BY <1>2, <2>1, BoundsAssumption
    <2>5. \E p \in 1..Len(preroll) + 1 : Latest(Run(b, Len(preroll) + 1), PrerollLimit) = Run(b, p)
      BY <2>4, LatestRun
    <2> QED
      BY <2>3, <2>5
  <1>7. Len(preroll) \in 0..taken /\ p \in 1..b /\ p \in 0..b /\ p - 1 \in 0..Len(preroll) /\ p \in Nat
        /\ Len(preroll) \in Nat
    BY <1>2, <1>6 DEF HearingInv, Before_
  <1> HIDE DEF before
  <1>8. Len(before) = p /\ (\A i \in 1..p : before[i] = b - p + i)
    BY <1>4, <1>6, <1>7, RunFacts
  <1>9. before[1] = b - p + 1 /\ before[1] \in 1..b
    BY <1>4, <1>7, <1>8
  <1>10. preroll' = Run(taken', Len(preroll')) /\ Len(preroll') \in 0..taken' /\ Len(preroll') = p
    BY <1>1, <1>6, <1>7, <1>8
  <1>11. \A c \in speech' : c \in speech \/ (v /\ c = b)
    BY <1>1
  <1>12. CASE kept
    <2>1. HearsMore(Reach, 0) /\ Reach' = Reach
      BY <1>1, <1>2, <1>4, <1>5, <1>12, HearNothing
    <2>2. \A i \in 1..Len(heard) : heard[i] <= Reach - 0
      BY <1>2
    <2>3. /\ HeardInOrder' /\ HeardAll'
          /\ \A c : Hears(c) => Hears(c)'
      BY <1>1, <1>2, <1>4, <2>1, <2>2, HearingGrows
    <2>4. active' /\ active /\ from' = from
      BY <1>1, <1>12
    <2>5. Before_'
      BY <1>10, <2>4 DEF Before_
    <2>6. OpenTurnHeard'
      <3>1. from \in 0..taken /\ \A c \in from..Reach : Hears(c)
        BY <2>4 DEF HearingInv, OpenTurnHeard
      <3>2. from' \in 0..taken'
        BY <1>1, <1>2, <2>4, <3>1
      <3>3. \A c \in from'..Reach' : Hears(c)'
        BY <2>1, <2>3, <2>4, <3>1
      <3> QED
        BY <3>2, <3>3 DEF OpenTurnHeard
    <2>7. SpeechHeard'
      <3>1. b > Reach
        BY <1>2
      <3> QED
        BY <1>11, <2>1, <2>3, <3>1 DEF HearingInv, SpeechHeard
    <2>8. SilentTail'
      <3>1. \A c \in speech : c <= Reach
        BY <1>1 DEF HearingInv, SilentTail
      <3>2. CASE v
        <4>1. place' # "take"
          BY <1>1, <2>4 DEF TakeBlock
        <4> QED
          BY <1>1, <3>2, <4>1 DEF SilentTail
      <3>3. CASE ~v
        BY <1>1, <2>1, <3>1, <3>3 DEF SilentTail
      <3> QED
        BY <3>2, <3>3
    <2> QED
      BY <2>3, <2>5, <2>6, <2>7, <2>8 DEF HearingInv
  <1>13. CASE ~kept
    <2>1. Reach' = b /\ Reach = taken /\ Tail_ = 0
      BY <1>3, <1>5, <1>13
    <2>2. PICK n \in 0..b : /\ HearsMore(b, n)
                            /\ \A i \in 1..Len(heard) : heard[i] <= b - n
                            /\ kind.continuous => n = 1
                            /\ active \/ v \/ kind.continuous => n >= 1
                            /\ opens /\ ~kind.continuous => n = p
                            /\ ~active /\ ~v /\ ~kind.continuous => UNCHANGED heard
      <3>1. CASE opens /\ ~kind.continuous
        <4>1. heard' = heard \o Run(b, p)
          BY <1>1, <1>6, <1>13, <3>1
        <4>2. HearsMore(b, p)
          BY <1>2, <1>4, <1>7, <4>1, HearRun
        <4>3. \A i \in 1..Len(heard) : heard[i] <= taken - Len(preroll)
          BY <3>1 DEF HearingInv, Before_
        <4>4. taken - Len(preroll) <= b - p /\ p >= 1 /\ p \in 0..b
          BY <1>2, <1>7
        <4>5. \A i \in 1..Len(heard) : heard[i] <= b - p
          BY <1>2, <1>4, <1>7, <4>3, <4>4
        <4> QED
          BY <3>1, <4>2, <4>4, <4>5
      <3>2. CASE ~(opens /\ ~kind.continuous) /\ (active \/ kind.continuous)
        <4>1. heard' = Append(heard, b)
          BY <1>1, <1>13, <3>2
        <4>2. HearsMore(b, 1)
          BY <1>2, <1>4, <4>1, HearOne
        <4>3. \A i \in 1..Len(heard) : heard[i] <= b - 1
          BY <1>2, <2>1
        <4>4. 1 \in 0..b /\ 1 >= 1
          BY <1>4
        <4> QED
          BY <3>2, <4>2, <4>3, <4>4
      <3>3. CASE ~active /\ ~v /\ ~kind.continuous
        <4>1. heard' = heard
          BY <1>1, <1>13, <3>3
        <4>2. HearsMore(b, 0)
          BY <1>2, <1>4, <4>1, HearNothing
        <4>3. 0 \in 0..b /\ \A i \in 1..Len(heard) : heard[i] <= b - 0
          BY <1>2, <1>4
        <4> QED
          BY <3>3, <4>1, <4>2, <4>3
      <3> QED
        BY <3>1, <3>2, <3>3
    <2>3. kind.continuous => Reach = b - n
      BY <1>2, <2>1, <2>2
    <2>4. /\ HeardInOrder' /\ HeardAll'
          /\ \A c : Hears(c) => Hears(c)'
          /\ \A c \in b - n + 1..b : Hears(c)'
      BY <1>1, <1>4, <2>1, <2>2, <2>3, HearingGrows
    <2>5. n >= 1 => Hears(b)'
      <3>1. n >= 1 => b \in b - n + 1..b
        BY <1>4
      <3> QED
        BY <2>4, <3>1
    <2>6. Before_'
      <3>1. CASE ~active' /\ ~kind.continuous
        <4>1. ~active /\ ~v /\ heard' = heard
          BY <1>1, <2>2, <3>1
        <4>2. \A i \in 1..Len(heard) : heard[i] <= taken - Len(preroll)
          BY <1>1, <3>1, <4>1 DEF HearingInv, Before_
        <4>3. taken - Len(preroll) <= b - p
          BY <1>2, <1>7
        <4>4. \A i \in 1..Len(heard') : heard'[i] <= taken' - Len(preroll')
          <5>1. \A i \in 1..Len(heard) : heard[i] <= b - p
            BY <1>2, <1>4, <1>7, <4>2, <4>3
          <5> QED
            BY <1>1, <1>10, <4>1, <5>1
        <4> QED
          BY <1>10, <4>4 DEF Before_
      <3>2. CASE active' \/ kind.continuous
        BY <1>1, <1>10, <3>2 DEF Before_
      <3> QED
        BY <3>1, <3>2
    <2>7. OpenTurnHeard'
      <3>1. CASE opens /\ ~kind.continuous
        BY <1>1, <1>4, <1>9, <2>1, <2>2, <2>4, <3>1 DEF OpenTurnHeard
      <3>2. CASE opens /\ kind.continuous
        <4>1. \A i \in 1..Len(heard') : heard'[i] = i
          BY <1>1, <2>4, <3>2 DEF HeardAll
        <4>2. Len(heard') = b
          BY <1>1, <2>1, <2>4, <3>2 DEF HeardAll
        <4>3. \A c \in 1..b : Hears(c)'
          BY <4>1, <4>2 DEF Hears
        <4>4. from' \in 1..b
          BY <1>1, <1>9, <3>2
        <4>5. \A c \in from'..b : c \in 1..b
          BY <1>4, <4>4
        <4>6. from' \in 0..b
          BY <1>4, <4>4
        <4> QED
          BY <1>1, <2>1, <4>3, <4>5, <4>6 DEF OpenTurnHeard
      <3>3. CASE ~opens
        <4>1. from' = from /\ from \in 0..taken
          BY <1>1, <3>3 DEF HearingInv, OpenTurnHeard
        <4>2. ASSUME active', NEW c \in from..b PROVE Hears(c)'
          <5>1. active /\ n >= 1
            BY <1>1, <2>2, <3>3, <4>2
          <5>2. c = b \/ c \in from..Reach
            BY <1>2, <2>1, <4>1, <4>2
          <5> QED
            BY <2>4, <2>5, <5>1, <5>2 DEF HearingInv, OpenTurnHeard
        <4>3. from \in 0..b
          BY <1>2, <4>1
        <4> QED
          BY <1>1, <2>1, <4>1, <4>2, <4>3 DEF OpenTurnHeard
      <3> QED
        BY <3>1, <3>2, <3>3
    <2>8. \A c \in speech' : Hears(c)' /\ c <= b
      <3>1. ASSUME NEW c \in speech PROVE Hears(c)' /\ c <= b
        <4>1. c \in 1..taken /\ (Hears(c) \/ c > Reach)
          BY <1>2 DEF HearingInv, SpeechHeard
        <4>2. ~(c > Reach) /\ c <= b
          BY <1>2, <2>1, <4>1
        <4> QED
          BY <2>4, <4>1, <4>2
      <3>2. v => Hears(b)' /\ b <= b
        BY <1>4, <2>2, <2>5
      <3> QED
        BY <1>11, <3>1, <3>2
    <2>9. SpeechHeard' /\ SilentTail'
      BY <2>1, <2>8 DEF SpeechHeard, SilentTail
    <2> QED
      BY <2>4, <2>6, <2>7, <2>9 DEF HearingInv
  <1> QED
    BY <1>12, <1>13

LEMMA NextKeepsHearing == HearingInv /\ TypeInv /\ TailInv /\ [Next]_vars => HearingInv'
  <1> SUFFICES ASSUME HearingInv, TypeInv, TailInv, [Next]_vars PROVE HearingInv'
    OBVIOUS
  <1>0. stopping => stopping'
    BY StoppingStays
  <1>1. CASE UNCHANGED vars
    BY <1>0, <1>1, StutterFrames, HearingFrame DEF HeardKept, ThreadKept
  <1>2. CASE EndpointStep \/ SpeakerStep \/ RestStep
    <2>1. UNCHANGED <<kind, taken, place, voiced>> /\ TurnKept /\ UNCHANGED <<heard, speech>>
      BY <1>2, OtherFrames DEF HeardKept, EndpointStep, StartScore, EndScore, ScoreFails, EndpointExit,
         SpeakerStep, Identify, Identified, SpeakerFails, SpeakerExit,
         RestStep, EndOfBlocks, CloseDrain, CloseAbort, OthersFault, ThreadKept
    <2> QED
      BY <1>0, <2>1, HearingFrame
  <1>3. CASE PollSkipped \/ InputDone \/ RecognitionExit
    BY <1>3, RecognitionFrames, HearingFrame DEF HeardKept, PollSkipped, InputDone, RecognitionExit,
       RecognitionFrame
  <1>4. CASE RecognizerFails \/ Refused \/ VerdictBroken \/ Unretired
    <2>1. PICK reason : Leave(reason)
      BY <1>4 DEF RecognizerFails, Refused, VerdictBroken, Unretired
    <2> QED
      BY <2>1, RecognitionFrames, HearingFrame DEF HeardKept, Leave, RecognitionFrame
  <1>5. CASE Submit \/ Resolve \/ Late \/ CloseGate
    <2>1. TurnKept /\ UNCHANGED <<kind, taken, voiced, heard, speech>>
      BY <1>5, RecognitionFrames DEF Submit, Resolve, Late, CloseGate, RecognitionFrame
    <2>2. \/ place' = "report"
          \/ place \in {"submit", "verdict"} /\ place' \in {"verdict", "settle"}
      BY <1>5 DEF Submit, Resolve, Late, CloseGate
    <2> QED
      BY <2>1, <2>2, HearingFrame
  <1>6. CASE \E v \in BOOLEAN : TakeBlock(v)
    BY <1>6, TakeBlockKeepsHearing, Zenon
  <1> QED
    BY <1>1, <1>2, <1>3, <1>4, <1>5, <1>6, PollKeepsHearing, ContinueKeepsHearing,
       EndTurnKeepsHearing, FinishKeepsHearing DEF Next, RecognitionStep

(* The invariant of hearing, for every reachable state of recognition_loop. *)
THEOREM HearingInvariance == Spec => []HearingInv
  <1>1. HearingInv /\ GateInv /\ [Next]_vars => HearingInv'
    BY NextKeepsHearing DEF GateInv
  <1> QED
    BY <1>1, InitHearingInv, GateInvariance, PTL DEF Spec

(* However a pause was resolved, no block is heard twice or out of order;  *)
(* between two blocks, and when the input is done, all speech was heard,   *)
(* of an open turn everything was heard but what is kept back, and a       *)
(* continuous recognizer missed nothing (recognition_loop).                *)
THEOREM SpeechHeardOnceHolds == Spec => []SpeechHeardOnce
  <1>1. HearingInv /\ GateInv => SpeechHeardOnce
    <2> SUFFICES ASSUME HearingInv, TypeInv, TailInv PROVE SpeechHeardOnce
      BY DEF GateInv
    <2>1. Reach = taken - Len(provisional) /\ Reach \in 0..taken /\ taken \in Nat
      BY ReachFacts DEF Tail_
    <2>2. \A b : Hears(b) => b \in HeardSet
      BY DEF Hears, HeardSet
    <2>3. ASSUME (place = "take" /\ ~stopping) \/ inputDone
          PROVE  speech \subseteq HeardSet
      <3>1. \A b \in speech : b \in 1..taken /\ b <= Reach
        <4>1. CASE place = "take" /\ ~stopping
          BY <4>1, ReachFacts DEF HearingInv, SilentTail
        <4>2. CASE inputDone
          <5>1. Reach = taken
            BY <2>1, <4>2, ReachFacts DEF TailInv, TailPlaces
          <5> QED
            BY <2>1, <5>1, ReachFacts
        <4> QED
          BY <2>3, <4>1, <4>2
      <3>2. \A b \in speech : Hears(b)
        BY <2>1, <3>1 DEF HearingInv, SpeechHeard
      <3> QED
        BY <2>2, <3>2
    <2>4. active => from..taken - Len(provisional) \subseteq HeardSet
      BY <2>1, <2>2 DEF HearingInv, OpenTurnHeard
    <2>5. kind.continuous => Len(heard) = taken - Len(provisional)
      BY <2>1 DEF HearingInv, HeardAll
    <2> QED
      BY <2>3, <2>4, <2>5 DEF SpeechHeardOnce, HearingInv, HeardInOrder
  <1> QED
    BY <1>1, HearingInvariance, GateInvariance, PTL

----------------------------------------------------------------------------
(* The flags.                                                              *)
LifeFlags ==
    /\ ended \in BOOLEAN /\ inputDone \in BOOLEAN
    /\ closing \in BOOLEAN /\ aborted \in BOOLEAN
StopFlag == stopping \in BOOLEAN
TurnFlags == voiced \in BOOLEAN /\ active \in BOOLEAN
KeepFlags == boundary \in BOOLEAN /\ checked \in BOOLEAN
SpeakerFlag == speakerBusy \in BOOLEAN
Flags == LifeFlags /\ StopFlag /\ TurnFlags /\ KeepFlags /\ SpeakerFlag

LEMMA AnyFormulaIsBoolean ==
  ASSUME NEW p, NEW q
  PROVE  (p \/ q) \in BOOLEAN /\ (p /\ q) \in BOOLEAN
  BY Zenon

LEMMA MaybeCloseIsBoolean == MaybeClose => StopFlag'
  BY Zenon DEF MaybeClose, StopFlag

LEMMA FinalsAreFlagged == SpeakerFlag /\ Finals => SpeakerFlag'
  <1> SUFFICES ASSUME SpeakerFlag, Finals PROVE SpeakerFlag'
    OBVIOUS
  <1>1. CASE UNCHANGED speakerBusy \/ speakerBusy' = TRUE
    BY <1>1 DEF SpeakerFlag
  <1>2. CASE \E sent : speakerBusy' = (speakerBusy \/ sent # {})
    BY <1>2, Zenon DEF SpeakerFlag
  <1> QED
    BY <1>1, <1>2 DEF Finals, NoFinals

LEMMA RecognitionKeepsFlags ==
  ASSUME Flags, RecognitionStep
  PROVE  Flags'
  <1> USE RecognitionFrames DEF NoFinals, RecognitionFrame, TurnKept, GateKept
  <1>1. ASSUME NEW v \in BOOLEAN, TakeBlock(v) PROVE Flags'
    <2>1. LifeFlags' /\ StopFlag' /\ SpeakerFlag'
      BY <1>1 DEF Flags, TakeBlock, LifeFlags, StopFlag, SpeakerFlag
    <2>2. active' = (active \/ v) /\ voiced' = v
      BY <1>1 DEF TakeBlock
    <2>3. TurnFlags'
      BY <2>2, AnyFormulaIsBoolean, Zenon DEF TurnFlags
    <2>4. boundary' \in {boundary, FALSE} /\ checked' \in {checked, FALSE}
      BY <1>1 DEF TakeBlock
    <2>5. KeepFlags'
      BY <2>4 DEF Flags, KeepFlags
    <2> QED
      BY <2>1, <2>3, <2>5 DEF Flags
  <1>2. ASSUME Poll PROVE Flags'
    <2>1. LifeFlags' /\ StopFlag' /\ SpeakerFlag' /\ TurnFlags'
      BY <1>2 DEF Flags, Poll, LifeFlags, StopFlag, SpeakerFlag, TurnFlags
    <2>2. checked' = (checked /\ ~voiced) /\ UNCHANGED boundary
      BY <1>2 DEF Poll
    <2>3. KeepFlags'
      BY <2>2, AnyFormulaIsBoolean, Zenon DEF KeepFlags, Flags
    <2> QED
      BY <2>1, <2>3 DEF Flags
  <1>3. ASSUME PollSkipped \/ Submit \/ Resolve \/ Late \/ CloseGate \/ RecognitionExit PROVE Flags'
    <2>1. LifeFlags' /\ StopFlag' /\ SpeakerFlag'
      BY <1>3 DEF Flags, PollSkipped, Submit, Resolve, Late, CloseGate, RecognitionExit,
         LifeFlags, StopFlag, SpeakerFlag
    <2>2. TurnFlags'
      BY <1>3 DEF Flags, PollSkipped, Submit, Resolve, Late, CloseGate, RecognitionExit, TurnFlags
    <2>3. UNCHANGED boundary /\ checked' \in {checked, TRUE}
      BY <1>3 DEF PollSkipped, Submit, Resolve, Late, CloseGate, RecognitionExit
    <2>4. KeepFlags'
      BY <2>3 DEF Flags, KeepFlags
    <2> QED
      BY <2>1, <2>2, <2>4 DEF Flags
  <1>4. ASSUME Continue PROVE Flags'
    <2>1. LifeFlags' /\ SpeakerFlag'
      BY <1>4 DEF Flags, Continue, LifeFlags, SpeakerFlag
    <2>2. stopping' \in {stopping, TRUE} /\ voiced' = FALSE /\ UNCHANGED <<active, checked>>
      BY <1>4 DEF Continue, Fault
    <2>3. \E kept, flush : boundary' = (kept /\ ~flush)
      BY <1>4, Zenon DEF Continue
    <2>4. boundary' \in BOOLEAN
      BY <2>3, AnyFormulaIsBoolean, Zenon
    <2>5. StopFlag' /\ TurnFlags' /\ KeepFlags'
      BY <2>2, <2>4 DEF Flags, StopFlag, TurnFlags, KeepFlags
    <2> QED
      BY <2>1, <2>5 DEF Flags
  <1>5. ASSUME NEW reason, Leave(reason) PROVE Flags'
    <2>1. LifeFlags' /\ SpeakerFlag' /\ TurnFlags' /\ KeepFlags'
      BY <1>5 DEF Flags, Leave, LifeFlags, SpeakerFlag, TurnFlags, KeepFlags
    <2>2. StopFlag'
      BY <1>5 DEF Flags, Leave, Fault, StopFlag
    <2> QED
      BY <2>1, <2>2 DEF Flags
  <1>6. ASSUME EndTurn \/ FinishTurn PROVE Flags'
    <2>1. CASE EndTurn /\ Len(provisional) > Commit - Trigger
      BY <1>5, <2>1 DEF EndTurn
    <2>2. CASE FinishTurn \/ (EndTurn /\ ~(Len(provisional) > Commit - Trigger))
      <3>1. LifeFlags' /\ StopFlag'
        BY <2>2 DEF Flags, EndTurn, FinishTurn, LifeFlags, StopFlag
      <3>2. UNCHANGED voiced /\ active' \in {active, FALSE} /\ boundary' \in {boundary, FALSE}
            /\ checked' \in {checked, FALSE} /\ (Finals \/ NoFinals)
        BY <2>2 DEF EndTurn, FinishTurn, CompleteTurn
      <3>3. TurnFlags' /\ KeepFlags'
        BY <3>2 DEF Flags, TurnFlags, KeepFlags
      <3>4. SpeakerFlag'
        BY <3>2, FinalsAreFlagged DEF Flags, SpeakerFlag
      <3> QED
        BY <3>1, <3>3, <3>4 DEF Flags
    <2> QED
      BY <1>6, <2>1, <2>2
  <1>7. ASSUME InputDone PROVE Flags'
    <2>1. LifeFlags' /\ SpeakerFlag' /\ TurnFlags' /\ KeepFlags'
      BY <1>7 DEF Flags, InputDone, LifeFlags, SpeakerFlag, TurnFlags, KeepFlags
    <2>2. StopFlag'
      BY <1>7, MaybeCloseIsBoolean DEF InputDone
    <2> QED
      BY <2>1, <2>2 DEF Flags
  <1>8. ASSUME RecognizerFails \/ Refused \/ VerdictBroken \/ Unretired PROVE Flags'
    BY <1>5, <1>8 DEF RecognizerFails, Refused, VerdictBroken, Unretired
  <1> QED
    BY <1>1, <1>2, <1>3, <1>4, <1>6, <1>7, <1>8 DEF RecognitionStep

LEMMA OthersKeepFlags ==
  ASSUME Flags, EndpointStep \/ SpeakerStep \/ RestStep
  PROVE  Flags'
  <1> USE OtherFrames DEF TurnKept, GateKept, ThreadKept, SpeakerKept
  <1>1. TurnFlags' /\ KeepFlags'
    BY DEF EndpointStep, StartScore, EndScore, ScoreFails, EndpointExit,
       SpeakerStep, Identify, Identified, SpeakerFails, SpeakerExit,
       RestStep, EndOfBlocks, CloseDrain, CloseAbort, OthersFault, Flags, TurnFlags, KeepFlags
  <1>2. LifeFlags'
    <2>1. UNCHANGED inputDone /\ ended' \in {ended, TRUE} /\ closing' \in {closing, TRUE}
          /\ aborted' \in {aborted, TRUE}
      BY DEF EndpointStep, StartScore, EndScore, ScoreFails, EndpointExit,
         SpeakerStep, Identify, Identified, SpeakerFails, SpeakerExit,
         RestStep, EndOfBlocks, CloseDrain, CloseAbort, OthersFault
    <2> QED
      BY <2>1 DEF Flags, LifeFlags
  <1>3. StopFlag'
    <2>1. stopping' = stopping \/ stopping' = TRUE \/ MaybeClose
      BY DEF EndpointStep, StartScore, EndScore, ScoreFails, EndpointExit, Fault,
         SpeakerStep, Identify, Identified, SpeakerFails, SpeakerExit,
         RestStep, EndOfBlocks, CloseDrain, CloseAbort, OthersFault
    <2> QED
      BY <2>1, MaybeCloseIsBoolean DEF Flags, StopFlag
  <1>4. SpeakerFlag'
    <2>1. \/ UNCHANGED speakerBusy \/ speakerBusy' = FALSE
          \/ speakerBusy' = (speakerJobs # <<>>)
      BY DEF EndpointStep, StartScore, EndScore, ScoreFails, EndpointExit,
         SpeakerStep, Identify, Identified, SpeakerFails, SpeakerExit,
         RestStep, EndOfBlocks, CloseDrain, CloseAbort, OthersFault
    <2> QED
      BY <2>1, Zenon DEF Flags, SpeakerFlag
  <1> QED
    BY <1>1, <1>2, <1>3, <1>4 DEF Flags

LEMMA NextKeepsFlags == Flags /\ [Next]_vars => Flags'
  <1>1. Flags /\ UNCHANGED vars => Flags'
    BY StutterFrames DEF TurnKept, GateKept, ThreadKept, SpeakerKept,
       Flags, LifeFlags, StopFlag, TurnFlags, KeepFlags, SpeakerFlag
  <1> QED
    BY <1>1, RecognitionKeepsFlags, OthersKeepFlags DEF Next

(* The variables keep their types, and what is kept back is contiguous and *)
(* ends with the newest block, for every size of the session.              *)
THEOREM TypeCorrect == Spec => []TypeOK
  <1>1. Init => Flags
    BY DEF Init, Flags, LifeFlags, StopFlag, TurnFlags, KeepFlags, SpeakerFlag
  <1>2. Spec => []Flags
    BY <1>1, NextKeepsFlags, PTL DEF Spec
  <1>3. Flags /\ GateInv /\ FinalsInv /\ HearingInv => TypeOK
    <2> SUFFICES ASSUME Flags, TypeInv, QuestionsInv, TailInv, FinalsInv, HearingInv PROVE TypeOK
      BY DEF GateInv
    <2>1. {ended, voiced, active, boundary, checked, speakerBusy, closing, aborted,
           stopping, inputDone} \subseteq BOOLEAN
      BY DEF Flags, LifeFlags, StopFlag, TurnFlags, KeepFlags, SpeakerFlag
    <2>2. MaxBlocks \in Nat /\ taken \in 0..MaxBlocks /\ taken \in Nat /\ 0..taken \subseteq 0..MaxBlocks
          /\ 1..taken \subseteq Blocks
      BY BoundsAssumption DEF TypeInv, Numbers, Blocks
    <2>3. /\ kind \in Recognizers /\ silence \in 0..MaxBlocks /\ asked \in 0..MaxBlocks
          /\ since \in 0..MaxBlocks /\ judged \in 0..MaxBlocks /\ speech \subseteq Blocks
          /\ from \in 0..MaxBlocks
      BY <2>2 DEF TypeInv, Numbers, HearingInv, OpenTurnHeard
    <2>4. /\ place \in {"take", "poll", "submit", "verdict", "settle", "close", "report", "exited"}
          /\ decision \in {"none", "semantic", "silence"}
          /\ endpoint \in {"wait", "scoring", "exited"}
          /\ speaker \in {"wait", "identifying", "exited"}
      BY DEF TypeInv, Places
    <2>5. preroll \in Seq(Blocks)
      <3>1. Len(preroll) \in 0..taken /\ preroll = Run(taken, Len(preroll))
        BY DEF HearingInv, Before_
      <3>2. preroll \in Seq(1..taken)
        BY <2>2, <3>1, RunFacts
      <3> QED
        BY <2>2, <3>2, SeqMonotonic
    <2>6. heard \in Seq(Blocks)
      <3>1. heard \in Seq(1..Reach) /\ 1..Reach \subseteq Blocks
        BY <2>2, ReachFacts DEF HearingInv, HeardInOrder
      <3> QED
        BY <3>1, SeqMonotonic
    <2>7. provisional = [i \in 1..Len(provisional) |-> taken - Len(provisional) + i]
      BY DEF TailInv, TailShape, Tail_, Run
    <2>8. pending \in 0..asked /\ scoring \in {None} \cup Queries
          /\ verdict \in [Queries -> {"none", "queued", "scoring", "hold", "end", "failed", "cancelled"}]
      BY <2>2, <2>3 DEF QuestionsInv, QuestionTypes, Asking, None, Queries
    <2>9. retired \in Seq(Queries) /\ queries \in Seq(Queries)
      <3>1. asked \in 0..MaxBlocks /\ retired \in Seq(1..asked) /\ 1..asked \subseteq Queries
        BY <2>2, <2>3 DEF QuestionsInv, QuestionTypes, Queries
      <3>2. retired \in Seq(Queries)
        BY <3>1, SeqMonotonic
      <3>3. queries = <<>> \/ \E q \in 1..asked : queries = <<q>>
        BY DEF QuestionsInv, Asking
      <3>4. queries \in Seq(Queries)
        <4>1. CASE queries = <<>>
          BY <4>1
        <4>2. CASE queries # <<>>
          <5>1. PICK q \in Queries : queries = <<q>>
            BY <3>1, <3>3, <4>2
          <5>2. <<q>> \in Seq(Queries)
            OBVIOUS
          <5> QED
            BY <5>1, <5>2
        <4> QED
          BY <4>1, <4>2
      <3> QED
        BY <3>2, <3>4
    <2>10. observed \in Seq(Nat) /\ speakerJobs \in Seq(1..Len(observed)) /\ identifying \in 0..Len(observed)
      <3>1. {0, 1} \subseteq Nat
        OBVIOUS
      <3> QED
        BY <3>1, SeqMonotonic DEF FinalsInv, FinalTypes
    <2> QED
      BY <2>1, <2>2, <2>3, <2>4, <2>5, <2>6, <2>7, <2>8, <2>9, <2>10, Zenon DEF TypeOK
  <1> QED
    BY <1>2, <1>3, GateInvariance, FinalsInvariance, HearingInvariance, PTL
=============================================================================
