-------------------------- MODULE ReplyVoiceProofs --------------------------
(***************************************************************************)
(* The voice a session reports is the voice its synthesizer speaks with,   *)
(* for every set of voices and every number of replies and requests; and a *)
(* host that asks for one reply at a time and cancels none gets what it    *)
(* was promised: the reply waits for the settings and speaks with them.    *)
(***************************************************************************)
EXTENDS ReplyVoice, TLAPS

(* VoiceInForce says nothing of the time between the taking of a voice and *)
(* its publication; this is what holds then.                               *)
VoiceOnItsWay ==
    /\ place = "configuring" => speech = ttsVoice /\ taking # NoVoice
    /\ place = "publishing" =>
          ttsVoice = (IF taking # NoVoice THEN taking ELSE speech)
(* Outside of its two resting places the thread has a reply.               *)
ThreadHasReply == place \notin {"idle", "exited"} => reply # 0
IInv == TypeOK /\ VoiceInForce /\ VoiceOnItsWay /\ ThreadHasReply

Answer == [id : 1..MaxAsks, voice : Voices \cup {NoVoice}]

(* The first element and the rest of a sequence keep its type.             *)
LEMMA HeadAndTail ==
    ASSUME NEW S, NEW s \in Seq(S), s # <<>>
    PROVE  Head(s) \in S /\ Tail(s) \in Seq(S)
  OBVIOUS

LEMMA InitIInv == Init => IInv
  <1> SUFFICES ASSUME Init PROVE IInv
    OBVIOUS
  <1>1. answers \in Seq([id : 1..MaxAsks, voice : Voices \cup {NoVoice}])
    BY DEF Init
  <1>2. 0 \in 0..MaxAsks /\ 0 \in 0..MaxReplies
    BY BoundsAssumption
  <1>3. TypeOK
    BY <1>1, <1>2, VoicesAssumption DEF Init, TypeOK, Places
  <1>4. VoiceInForce /\ VoiceOnItsWay /\ ThreadHasReply
    BY DEF Init, VoiceInForce, VoiceOnItsWay, ThreadHasReply
  <1> QED
    BY <1>3, <1>4 DEF IInv

(* What the thread's place, its reply and the two voices do not notice.    *)
LEMMA VoiceFrame ==
    IInv /\ UNCHANGED <<threadVars, speech>> =>
        (VoiceInForce /\ VoiceOnItsWay /\ ThreadHasReply)'
  BY DEF IInv, VoiceInForce, VoiceOnItsWay, ThreadHasReply, threadVars

(* The steps of the host and the worker leave the thread and the           *)
(* synthesizer alone.                                                      *)
LEMMA HostKeeps ==
    IInv /\ HostStep => IInv'
  <1> SUFFICES ASSUME IInv, HostStep PROVE IInv'
    OBVIOUS
  <1>1. ASSUME NEW v \in Voices, Save(v) PROVE TypeOK'
    BY <1>1 DEF Save, IInv, TypeOK, workerVars, speechVars, replyVars, threadVars
  <1>2. ASSUME ServeSettings PROVE TypeOK'
    <2>1. lane \in 1..MaxAsks
      BY <1>2, BoundsAssumption DEF ServeSettings, IInv, TypeOK
    <2>2. answers' \in Seq(Answer)
      BY <1>2, <2>1 DEF ServeSettings, IInv, TypeOK, Answer
    <2> QED
      BY <1>2, <2>2 DEF ServeSettings, IInv, TypeOK, Answer, workerVars,
                        speechVars, replyVars, threadVars
  <1>3. UNCHANGED <<threadVars, speech>>
    BY DEF HostStep, Save, ServeSettings, speechVars
  <1> QED
    BY <1>1, <1>2, <1>3, VoiceFrame DEF HostStep, IInv

LEMMA WorkerKeeps ==
    IInv /\ (AskSpeech \/ WorkerStep) => IInv'
  <1> SUFFICES ASSUME IInv, AskSpeech \/ WorkerStep PROVE IInv'
    OBVIOUS
  <1>1. ASSUME AskSpeech PROVE TypeOK'
    <2>1. settingsId' \in 0..MaxAsks
      BY <1>1, BoundsAssumption DEF AskSpeech, IInv, TypeOK
    <2> QED
      BY <1>1, <2>1 DEF AskSpeech, IInv, TypeOK, replyVars, threadVars
  <1>2. ASSUME Admit PROVE TypeOK'
    <2>1. current' \in 0..MaxReplies
      BY <1>2, BoundsAssumption DEF Admit, Admissible, IInv, TypeOK
    <2>2. {current} \ {0, reply} \subseteq 1..MaxReplies
      BY BoundsAssumption DEF IInv, TypeOK
    <2>3. retired' \subseteq 1..MaxReplies
      BY <1>2, <2>2 DEF Admit, IInv, TypeOK
    <2> QED
      BY <1>2, <2>1, <2>3
      DEF Admit, IInv, TypeOK, hostVars, speechVars, threadVars
  <1>3. ASSUME Refuse PROVE TypeOK'
    BY <1>3 DEF Refuse, IInv, TypeOK, hostVars, speechVars, replyVars, threadVars
  <1>4. ASSUME TakeAnswer PROVE TypeOK'
    <2>1. Head(answers) \in Answer /\ answers' \in Seq(Answer)
      BY <1>4, HeadAndTail DEF TakeAnswer, IInv, TypeOK, Answer
    <2>2. refreshId' \in {0, settingsId'}
      BY <1>4 DEF TakeAnswer, IInv, TypeOK
    <2>3. /\ nextSpeech' \in Voices \cup {NoVoice}
          /\ heard' \in Voices \cup {NoVoice}
          /\ speech' = speech
      BY <1>4, <2>1 DEF TakeAnswer, Accept, IInv, TypeOK, Answer, speechVars
    <2>4. pending' \in BOOLEAN
      BY <1>4 DEF TakeAnswer, IInv, TypeOK, speechVars
    <2> QED
      BY <1>4, <2>1, <2>2, <2>3, <2>4
      DEF TakeAnswer, IInv, TypeOK, Answer, replyVars, threadVars
  <1>5. UNCHANGED <<threadVars, speech>>
    BY DEF WorkerStep, AskSpeech, Admit, Refuse, TakeAnswer, speechVars
  <1> QED
    BY <1>1, <1>2, <1>3, <1>4, <1>5, VoiceFrame DEF WorkerStep, IInv

LEMMA EndingKeeps ==
    IInv /\ (Cancel \/ Stop) => IInv'
  <1> SUFFICES ASSUME IInv, Cancel \/ Stop PROVE IInv'
    OBVIOUS
  <1>1. CASE Cancel
    <2>1. current \in 1..MaxReplies
      BY <1>1, BoundsAssumption DEF Cancel, IInv, TypeOK
    <2> QED
      BY <1>1, <2>1, VoiceFrame
      DEF Cancel, IInv, TypeOK, hostVars, workerVars, speechVars, threadVars
  <1>2. CASE Stop
    BY <1>2, VoiceFrame
    DEF Stop, IInv, TypeOK, hostVars, workerVars, speechVars, threadVars
  <1> QED
    BY <1>1, <1>2

(* The thread: the voice is taken, configured or refused, and published.   *)
LEMMA ThreadKeeps ==
    IInv /\ ThreadStep => IInv'
  <1> SUFFICES ASSUME IInv, ThreadStep PROVE IInv'
    OBVIOUS
  <1> USE VoicesAssumption, BoundsAssumption
      DEF IInv, TypeOK, VoiceInForce, VoiceOnItsWay, ThreadHasReply, Places,
          ThreadFrame, hostVars, workerVars
  <1>1. CASE PickReply
    BY <1>1 DEF PickReply, speechVars
  <1>2. CASE Exit
    BY <1>2 DEF Exit, speechVars
  <1>3. CASE EnterWait
    BY <1>3 DEF EnterWait, speechVars
  <1>4. CASE Take
    <2>1. place' \in {"voiced", "configuring"} /\ place \in {"picked", "waiting"}
      BY <1>4 DEF Take
    <2>2. place' = "configuring" => taking' # NoVoice
      BY <1>4 DEF Take
    <2>3. waited' \in BOOLEAN
      BY <1>4 DEF Take
    <2>4. /\ taking' \in Voices \cup {NoVoice}
          /\ nextSpeech' \in Voices \cup {NoVoice}
          /\ due' \in Voices \cup {NoVoice}
          /\ pending' = FALSE
      BY <1>4 DEF Take
    <2> QED
      BY <1>4, <2>1, <2>2, <2>3, <2>4 DEF Take
  <1>5. CASE Configure
    BY <1>5 DEF Configure, speechVars
  <1>6. CASE ConfigureFails
    BY <1>6 DEF ConfigureFails, speechVars
  <1>7. CASE Publish
    BY <1>7 DEF Publish
  <1>8. CASE Speak
    BY <1>8 DEF Speak, speechVars
  <1>9. CASE Retire
    <2>1. reply \in 1..MaxReplies
      BY <1>9 DEF Retire
    <2> QED
      BY <1>9, <2>1 DEF Retire, speechVars
  <1> QED
    BY <1>1, <1>2, <1>3, <1>4, <1>5, <1>6, <1>7, <1>8, <1>9 DEF ThreadStep

LEMMA Stutter == IInv /\ UNCHANGED vars => IInv'
  BY DEF vars, hostVars, workerVars, speechVars, replyVars, threadVars, IInv,
         TypeOK, VoiceInForce, VoiceOnItsWay, ThreadHasReply

(* The inductive invariant of the voice in force, under every behaviour of *)
(* the host.                                                               *)
THEOREM Invariance == Spec => []IInv
  <1>1. IInv /\ [Next]_vars => IInv'
    BY HostKeeps, WorkerKeeps, EndingKeeps, ThreadKeeps, Stutter DEF Next
  <1> QED
    BY <1>1, InitIInv, PTL DEF Spec

(* Every variable keeps its type; only the newest request can be answered. *)
THEOREM TypeCorrect == Spec => []TypeOK
  <1>1. IInv => TypeOK
    BY DEF IInv
  <1> QED
    BY <1>1, Invariance, PTL

(* The voice the session reports (speech_state) is the synthesizer's.      *)
THEOREM VoiceInForceHolds == Spec => []VoiceInForce
  <1>1. IInv => VoiceInForce
    BY DEF IInv
  <1> QED
    BY <1>1, Invariance, PTL

----------------------------------------------------------------------------
(* What a host that never interrupts and never asks too early may rely on. *)
(* AHEAD of the newest reply is the time from its request until the thread *)
(* takes its settings.                                                     *)
Ahead ==
    asking \/ (current \notin retired \cup {0} /\ place \in {"idle", "picked", "waiting"})
(* What the next taking of settings will make the voice.                   *)
VoiceToCome == IF nextSpeech # NoVoice THEN nextSpeech ELSE speech

(* One reply at a time: the request comes when the last one is over, and   *)
(* the thread works on the newest.                                         *)
OneAtATime ==
    /\ cancelled = {}
    /\ asking => Idle /\ heard = NoVoice
    /\ place \notin {"idle", "exited"} => reply = current /\ current \notin retired
(* The answer, once it came, is what comes next; until it came the session *)
(* is told to wait.                                                        *)
AnswerIsNext ==
    Ahead => /\ heard # NoVoice => VoiceToCome = heard
             /\ pending \/ refreshId = 0
(* After the taking: what is due is on its way, then in force.             *)
DueIsTaken ==
    /\ place = "configuring" => due \in {NoVoice, taking}
    /\ place \in {"publishing", "speaking"} => due \in {NoVoice, ttsVoice}
    /\ place = "voiced" => stopping \/ due \in {NoVoice, ttsVoice}
    /\ place \in {"configuring", "publishing", "speaking"} => waited
    /\ place = "voiced" => stopping \/ waited
PoliteInv == polite => OneAtATime /\ AnswerIsNext /\ DueIsTaken

LEMMA InitPolite == Init => PoliteInv
  <1> SUFFICES ASSUME Init PROVE PoliteInv
    OBVIOUS
  <1>1. OneAtATime
    BY DEF Init, OneAtATime, Idle
  <1>2. AnswerIsNext
    BY DEF Init, AnswerIsNext, Ahead
  <1>3. DueIsTaken
    BY DEF Init, DueIsTaken
  <1> QED
    BY <1>1, <1>2, <1>3 DEF PoliteInv

(* The host saves another voice, or its carrier answers: neither touches   *)
(* what the invariant speaks of.                                           *)
LEMMA PoliteFrame ==
  ASSUME PoliteInv, UNCHANGED <<polite, workerVars, speechVars, replyVars, threadVars>>
  PROVE  PoliteInv'
  <1> USE DEF workerVars, speechVars, replyVars, threadVars
  <1>1. OneAtATime => OneAtATime'
    BY DEF OneAtATime, Idle
  <1>2. AnswerIsNext => AnswerIsNext'
    BY DEF AnswerIsNext, Ahead, VoiceToCome
  <1>3. DueIsTaken => DueIsTaken'
    BY DEF DueIsTaken
  <1> QED
    BY <1>1, <1>2, <1>3 DEF PoliteInv

LEMMA PoliteWorker ==
  ASSUME IInv, PoliteInv, AskSpeech \/ WorkerStep, polite'
  PROVE  (OneAtATime /\ AnswerIsNext /\ DueIsTaken)'
  <1>1. CASE AskSpeech
    <2>1. polite /\ Idle
      BY <1>1 DEF AskSpeech
    <2>2. /\ asking' = TRUE /\ pending' = TRUE /\ heard' = NoVoice
          /\ UNCHANGED <<replyVars, threadVars>>
      BY <1>1 DEF AskSpeech
    <2>3. OneAtATime'
      BY <2>1, <2>2 DEF PoliteInv, OneAtATime, Idle, replyVars, threadVars
    <2>4. AnswerIsNext'
      BY <2>2 DEF AnswerIsNext
    <2>5. DueIsTaken'
      BY <2>1, <2>2 DEF PoliteInv, DueIsTaken, replyVars, threadVars
    <2> QED
      BY <2>3, <2>4, <2>5
  <1>2. CASE Admit
    <2>1. /\ asking /\ asking' = FALSE /\ current' = current + 1
          /\ retired' = retired \cup ({current} \ {0, reply})
          /\ UNCHANGED <<polite, heard, refreshId, speechVars, cancelled, stopping, threadVars>>
      BY <1>2 DEF Admit, hostVars
    <2>2. OneAtATime /\ AnswerIsNext /\ DueIsTaken /\ Idle /\ heard = NoVoice
      BY <2>1 DEF PoliteInv, OneAtATime
    <2>3. place \in {"idle", "exited"}
      BY <2>2 DEF OneAtATime, Idle, IInv, ThreadHasReply
    <2>4. OneAtATime'
      BY <2>1, <2>2, <2>3 DEF OneAtATime, threadVars
    <2>5. AnswerIsNext'
      BY <2>1, <2>2 DEF AnswerIsNext, Ahead, speechVars
    <2>6. DueIsTaken'
      BY <2>1, <2>2 DEF DueIsTaken, threadVars
    <2> QED
      BY <2>4, <2>5, <2>6
  <1>3. CASE Refuse
    BY <1>3 DEF Refuse
  <1>4. CASE TakeAnswer
    <2>1. /\ ~asking /\ UNCHANGED <<polite, asking, speech, replyVars, threadVars>>
      BY <1>4 DEF TakeAnswer, speechVars
    <2>2. OneAtATime /\ AnswerIsNext /\ DueIsTaken
      BY <2>1 DEF PoliteInv
    <2>3. OneAtATime'
      BY <2>1, <2>2 DEF OneAtATime, Idle, replyVars, threadVars
    <2>4. DueIsTaken'
      BY <2>1, <2>2 DEF DueIsTaken, replyVars, threadVars
    <2>5. AnswerIsNext'
      <3>1. CASE UNCHANGED <<refreshId, heard, speechVars>>
        BY <2>1, <2>2, <3>1 DEF AnswerIsNext, Ahead, VoiceToCome, replyVars, threadVars, speechVars
      <3>2. CASE refreshId' = 0 /\ UNCHANGED <<nextSpeech, heard>>
        BY <2>1, <2>2, <3>2 DEF AnswerIsNext, Ahead, VoiceToCome, replyVars, threadVars
      <3>3. ASSUME NEW v, v # NoVoice, Accept(v), heard' = v, refreshId' = 0
            PROVE  AnswerIsNext'
        <4>1. VoiceToCome' = v
          BY <2>1, <3>3 DEF Accept, VoiceToCome
        <4> QED
          BY <3>3, <4>1 DEF AnswerIsNext
      <3> QED
        BY <1>4, <3>1, <3>2, <3>3 DEF TakeAnswer
    <2> QED
      BY <2>3, <2>4, <2>5
  <1> QED
    BY <1>1, <1>2, <1>3, <1>4 DEF WorkerStep

(* The steps of the thread.  Nothing is cancelled, so it gives a reply up  *)
(* only when the session stops.                                            *)
LEMMA PoliteThread ==
  ASSUME IInv, OneAtATime, AnswerIsNext, DueIsTaken, ThreadStep
  PROVE  (OneAtATime /\ AnswerIsNext /\ DueIsTaken)'
  <1>1. cancelled = {} /\ (Abandoned <=> stopping)
    BY DEF OneAtATime, Abandoned
  <1>2. UNCHANGED <<asking, heard, refreshId, current, cancelled>>
    BY DEF ThreadStep, PickReply, Exit, EnterWait, Take, Configure, ConfigureFails,
       Publish, Speak, Retire, ThreadFrame, workerVars
  <1>3. ASSUME place \notin {"idle", "exited"}
        PROVE  reply = current /\ reply # 0 /\ current \notin retired /\ ~asking
    BY <1>3 DEF OneAtATime, Idle, IInv, ThreadHasReply
  <1>4. CASE PickReply
    <2>1. /\ place = "idle" /\ place' = "picked" /\ reply' = current /\ current # 0
          /\ current \notin retired
          /\ UNCHANGED <<speechVars, retired, stopping, waited, due, taking, ttsVoice>>
      BY <1>4 DEF PickReply, ThreadFrame
    <2>2. OneAtATime'
      BY <1>2, <2>1 DEF OneAtATime, Idle
    <2>3. AnswerIsNext'
      BY <1>2, <2>1 DEF AnswerIsNext, Ahead, VoiceToCome, speechVars
    <2> QED
      BY <2>1, <2>2, <2>3 DEF DueIsTaken
  <1>5. CASE Exit
    <2>1. place' = "exited" /\ UNCHANGED <<speechVars, retired>> /\ place = "idle"
      BY <1>5 DEF Exit
    <2>2. OneAtATime'
      BY <1>2, <2>1 DEF OneAtATime, Idle
    <2>3. AnswerIsNext'
      BY <1>2, <2>1 DEF AnswerIsNext, Ahead, VoiceToCome, speechVars
    <2> QED
      BY <2>1, <2>2, <2>3 DEF DueIsTaken
  <1>6. CASE EnterWait
    <2>1. place = "picked" /\ place' = "waiting" /\ UNCHANGED <<reply, speechVars, retired>>
      BY <1>6 DEF EnterWait
    <2>2. OneAtATime'
      BY <1>2, <2>1 DEF OneAtATime, Idle
    <2>3. AnswerIsNext'
      BY <1>2, <2>1 DEF AnswerIsNext, Ahead, VoiceToCome, speechVars
    <2> QED
      BY <2>1, <2>2, <2>3 DEF DueIsTaken
  <1>7. CASE Take
    <2>1. /\ place \in {"picked", "waiting"}
          /\ place' = IF Abandoned \/ nextSpeech = NoVoice THEN "voiced" ELSE "configuring"
          /\ taking' = IF Abandoned THEN NoVoice ELSE nextSpeech
          /\ due' = IF reply = current THEN heard ELSE NoVoice
          /\ waited' = (refreshId = 0 \/ (place = "waiting" /\ pending))
          /\ place = "picked" => ~pending \/ Abandoned
          /\ UNCHANGED <<reply, ttsVoice, speech, retired, stopping>>
      BY <1>7 DEF Take, ThreadFrame
    <2>2. reply = current /\ current # 0 /\ current \notin retired /\ ~asking
      BY <1>3, <2>1
    <2>3. (heard # NoVoice => VoiceToCome = heard) /\ (pending \/ refreshId = 0)
      BY <2>1, <2>2 DEF AnswerIsNext, Ahead
    <2>4. place' \in {"voiced", "configuring"}
      BY <2>1
    <2>5. OneAtATime'
      BY <1>2, <2>1, <2>2, <2>4 DEF OneAtATime, Idle
    <2>6. AnswerIsNext'
      BY <1>2, <2>2, <2>4 DEF AnswerIsNext, Ahead
    <2>7. ~stopping => waited'
      BY <1>1, <2>1, <2>3
    <2>8. ~stopping => due' \in {NoVoice, VoiceToCome}
      BY <2>1, <2>2, <2>3
    <2>9. speech = ttsVoice
      BY <2>1 DEF IInv, VoiceInForce
    <2>10. place' = "configuring" => ~stopping /\ VoiceToCome = taking'
      BY <1>1, <2>1 DEF VoiceToCome
    <2>11. place' = "voiced" /\ ~stopping => VoiceToCome = ttsVoice
      BY <1>1, <2>1, <2>9 DEF VoiceToCome
    <2>12. DueIsTaken'
      BY <2>1, <2>4, <2>7, <2>8, <2>10, <2>11 DEF DueIsTaken
    <2> QED
      BY <2>5, <2>6, <2>12
  <1>8. CASE Configure
    <2>1. /\ place = "configuring" /\ place' = "publishing"
          /\ \/ ttsVoice' = taking /\ due' = due
             \/ due' = NoVoice
          /\ UNCHANGED <<reply, waited, retired>>
      BY <1>8 DEF Configure
    <2>2. OneAtATime' /\ AnswerIsNext'
      BY <1>2, <1>3, <2>1 DEF OneAtATime, Idle, AnswerIsNext, Ahead
    <2> QED
      BY <2>1, <2>2 DEF DueIsTaken
  <1>9. CASE ConfigureFails
    <2>1. place = "configuring" /\ place' = "exited" /\ UNCHANGED retired
      BY <1>9 DEF ConfigureFails
    <2>2. OneAtATime' /\ AnswerIsNext'
      BY <1>2, <1>3, <2>1 DEF OneAtATime, Idle, AnswerIsNext, Ahead
    <2> QED
      BY <2>1, <2>2 DEF DueIsTaken
  <1>10. CASE Publish
    <2>1. /\ place = "publishing" /\ place' = "voiced"
          /\ UNCHANGED <<reply, waited, retired, due, ttsVoice, stopping>>
      BY <1>10 DEF Publish, ThreadFrame
    <2>2. OneAtATime' /\ AnswerIsNext'
      BY <1>2, <1>3, <2>1 DEF OneAtATime, Idle, AnswerIsNext, Ahead
    <2> QED
      BY <2>1, <2>2 DEF DueIsTaken
  <1>11. CASE Speak
    <2>1. /\ place = "voiced" /\ place' = "speaking" /\ ~stopping
          /\ UNCHANGED <<reply, waited, retired, due, ttsVoice>>
      BY <1>11, <1>1 DEF Speak
    <2>2. OneAtATime' /\ AnswerIsNext'
      BY <1>2, <1>3, <2>1 DEF OneAtATime, Idle, AnswerIsNext, Ahead
    <2> QED
      BY <2>1, <2>2 DEF DueIsTaken
  <1>12. CASE Retire
    <2>1. /\ place \in {"speaking", "voiced"} /\ place' = "idle"
          /\ retired' = retired \cup {reply}
      BY <1>12 DEF Retire
    <2>2. reply = current /\ ~asking
      BY <1>3, <2>1
    <2>3. OneAtATime' /\ AnswerIsNext'
      BY <1>2, <2>1, <2>2 DEF OneAtATime, Idle, AnswerIsNext, Ahead
    <2> QED
      BY <2>1, <2>3 DEF DueIsTaken
  <1> QED
    BY <1>4, <1>5, <1>6, <1>7, <1>8, <1>9, <1>10, <1>11, <1>12 DEF ThreadStep

LEMMA NextPolite ==
  ASSUME IInv, PoliteInv, [Next]_vars
  PROVE  PoliteInv'
  <1> SUFFICES ASSUME polite' PROVE (OneAtATime /\ AnswerIsNext /\ DueIsTaken)'
    BY DEF PoliteInv
  <1>1. CASE HostStep
    <2>1. UNCHANGED <<polite, workerVars, speechVars, replyVars, threadVars>>
      BY <1>1 DEF HostStep, Save, ServeSettings
    <2> QED
      BY <2>1, PoliteFrame DEF PoliteInv
  <1>2. CASE AskSpeech \/ WorkerStep
    BY <1>2, PoliteWorker
  <1>3. CASE Cancel
    BY <1>3 DEF Cancel
  <1>4. CASE Stop
    <2>1. /\ stopping' = TRUE /\ UNCHANGED <<polite, asking, heard, refreshId, speechVars, current,
                                             cancelled, retired, threadVars>>
      BY <1>4 DEF Stop, hostVars, workerVars
    <2>2. OneAtATime /\ AnswerIsNext /\ DueIsTaken
      BY <2>1 DEF PoliteInv
    <2>3. OneAtATime'
      BY <2>1, <2>2 DEF OneAtATime, Idle, threadVars
    <2>4. AnswerIsNext'
      BY <2>1, <2>2 DEF AnswerIsNext, Ahead, VoiceToCome, speechVars, threadVars
    <2>5. DueIsTaken'
      BY <2>1, <2>2 DEF DueIsTaken, threadVars
    <2> QED
      BY <2>3, <2>4, <2>5
  <1>5. CASE ThreadStep
    <2>1. polite
      BY <1>5 DEF ThreadStep, PickReply, Exit, EnterWait, Take, Configure,
         ConfigureFails, Publish, Speak, Retire, ThreadFrame, hostVars
    <2> QED
      BY <1>5, <2>1, PoliteThread DEF PoliteInv
  <1>6. CASE UNCHANGED vars
    BY <1>6, PoliteFrame DEF vars, hostVars, PoliteInv
  <1> QED
    BY <1>1, <1>2, <1>3, <1>4, <1>5, <1>6 DEF Next

(* The invariant of a session whose host waits for each reply to be over   *)
(* before it asks for the next, and never interrupts one.                  *)
THEOREM PoliteInvariance == Spec => []PoliteInv
  <1>1. IInv /\ PoliteInv /\ [Next]_vars => PoliteInv'
    BY NextPolite
  <1> QED
    BY <1>1, InitPolite, Invariance, PTL DEF Spec

(* Such a host hears each reply in the voice that was saved when the reply *)
(* was asked for, if the answer with it came in time and the synthesizer   *)
(* has that voice.                                                         *)
THEOREM OwnAnswerToPoliteHolds == Spec => []OwnAnswerToPolite
  <1>1. PoliteInv => OwnAnswerToPolite
    BY DEF PoliteInv, DueIsTaken, OwnAnswerToPolite, OwnAnswerIsSpoken
  <1> QED
    BY <1>1, PoliteInvariance, PTL

(* And no reply of such a host begins before the answer it was to wait for *)
(* came, or the whole wait was over.                                       *)
THEOREM PoliteReplyWaitsHolds == Spec => []PoliteReplyWaits
  <1>1. PoliteInv => PoliteReplyWaits
    BY DEF PoliteInv, DueIsTaken, PoliteReplyWaits, ReplyWaits
  <1> QED
    BY <1>1, PoliteInvariance, PTL
=============================================================================
