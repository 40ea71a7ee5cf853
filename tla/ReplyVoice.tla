----------------------------- MODULE ReplyVoice -----------------------------
(***************************************************************************)
(* How a saved speaking voice reaches the next reply.                      *)
(*                                                                         *)
(* The HOST keeps the saved settings.  With every request for a reply the  *)
(* WORKER (worker.cpp) first asks for them again and tells the session     *)
(* that an answer is on its way; the CARRIER (plugin/native/settings.go)   *)
(* serves only the newest request; the answer goes through the worker to   *)
(* Session::speech, which keeps it for the SYNTHESIS thread.  That thread  *)
(* waits for it, for a bounded time, before the first segment of a reply,  *)
(* and configures the synthesizer with the mutex released (take_speech).   *)
(*                                                                         *)
(* Of a reply only its request, its cancellation and its retirement are    *)
(* modelled here; module SessionOutput has the rest.  A voice stands for   *)
(* voice, temperature and seed, which are compared and taken together.     *)
(***************************************************************************)
EXTENDS Integers, Sequences

CONSTANTS
    Voices,      \* the voices the host may save
    NoVoice,     \* no voice: an empty std::optional, or a refused one
    FirstVoice,  \* the voice the session opens in
    MaxReplies,  \* bound on the replies asked for
    MaxAsks      \* bound on the settings requests

ASSUME VoicesAssumption == FirstVoice \in Voices /\ NoVoice \notin Voices
ASSUME BoundsAssumption == MaxReplies \in Nat /\ MaxAsks \in Nat

VARIABLES
    saved,      \* the host's saved voice
    lane,       \* settingsLane::next: the newest unserved request, 0 if none
    answers,    \* settings replies on their way to the worker
    settingsId, refreshId,             \* the worker's settings_id_, refresh_id_
    asking,     \* the worker is between ask_speech and Session::synthesize
    speech, nextSpeech, pending,       \* Impl::speech, next_speech, speech_pending
    current, cancelled, retired,       \* replies of the session
    stopping,
    place, reply, taking,              \* the synthesis thread
    ttsVoice,   \* the voice the synthesizer is configured with
    heard,      \* the answer to the refresh of the newest reply
    due,        \* heard when the running reply took its settings
    waited,     \* whether the running reply waited as long as it had to
    polite      \* the host has asked only when it had no reply, and cancelled none

hostVars   == <<saved, lane, answers, polite>>
workerVars == <<settingsId, refreshId, asking, heard>>
speechVars == <<speech, nextSpeech, pending>>
replyVars  == <<current, cancelled, retired, stopping>>
threadVars == <<place, reply, taking, ttsVoice, due, waited>>
vars == <<hostVars, workerVars, speechVars, replyVars, threadVars>>

Init ==
    /\ saved = FirstVoice /\ lane = 0 /\ answers = <<>>
    /\ settingsId = 0 /\ refreshId = 0 /\ asking = FALSE
    /\ speech = FirstVoice /\ nextSpeech = NoVoice /\ pending = FALSE
    /\ current = 0 /\ cancelled = {} /\ retired = {} /\ stopping = FALSE
    /\ place = "idle" /\ reply = 0 /\ taking = NoVoice
    /\ ttsVoice = FirstVoice
    /\ heard = NoVoice /\ due = NoVoice /\ waited = TRUE
    /\ polite = TRUE

----------------------------------------------------------------------------
(* The host saves another voice.                                           *)
Save(v) ==
    /\ v # saved
    /\ saved' = v
    /\ UNCHANGED <<lane, answers, polite, workerVars, speechVars, replyVars, threadVars>>

(* The carrier reads the saved settings for the newest request and answers *)
(* it; a request that arrives in between retires the read.  The host may   *)
(* refuse the read, or not answer in time.                                 *)
ServeSettings ==
    /\ lane # 0
    /\ \E v \in {saved, NoVoice} :
          answers' = Append(answers, [id |-> lane, voice |-> v])
    /\ lane' = 0
    /\ UNCHANGED <<saved, polite, workerVars, speechVars, replyVars, threadVars>>

----------------------------------------------------------------------------
(* The worker.                                                             *)

Idle == current = 0 \/ current \in retired

(* ask_speech, the first half of speech.session.synthesize: a newer        *)
(* request replaces the older one at the carrier, and the session is told  *)
(* to wait.  The session decides only then whether it admits the reply.    *)
AskSpeech ==
    /\ ~asking /\ ~stopping /\ settingsId < MaxAsks
    /\ asking' = TRUE
    /\ settingsId' = settingsId + 1
    /\ refreshId' = settingsId'
    /\ lane' = settingsId'
    /\ pending' = TRUE
    /\ heard' = NoVoice
    /\ polite' = (polite /\ Idle)
    /\ UNCHANGED <<saved, answers, speech, nextSpeech, replyVars, threadVars>>

(* Session::synthesize.  A reply that was cancelled before the thread took *)
(* it is retired here.                                                     *)
Admissible == ~stopping /\ current < MaxReplies /\ (Idle \/ current \in cancelled)
Admit ==
    /\ asking /\ Admissible
    /\ asking' = FALSE
    /\ current' = current + 1
    /\ retired' = retired \cup ({current} \ {0, reply})
    /\ UNCHANGED <<hostVars, settingsId, refreshId, heard, speechVars,
                   cancelled, stopping, threadVars>>
Refuse ==
    /\ asking /\ ~Admissible
    /\ asking' = FALSE
    /\ polite' = FALSE
    /\ UNCHANGED <<saved, lane, answers, settingsId, refreshId, heard, speechVars,
                   replyVars, threadVars>>

(* Session::speech keeps what differs from what is next or in force.       *)
(* Mutant: what is next is not replaced.                                   *)
AcceptFirst(v) ==
    nextSpeech' = IF nextSpeech = NoVoice /\ v # speech THEN v ELSE nextSpeech
Accept(v) ==
    nextSpeech' = IF v # (IF nextSpeech # NoVoice THEN nextSpeech ELSE speech)
                    THEN v ELSE nextSpeech

(* Worker::settings and speech_answer.  An answer to an older request is   *)
(* ignored; without settings, or with a voice that is not installed, the   *)
(* session is told that nothing changed.                                   *)
TakeAnswer ==
    /\ answers # <<>> /\ ~asking
    /\ answers' = Tail(answers)
    /\ LET answer == Head(answers) IN
       \/ /\ answer.id # refreshId
          /\ UNCHANGED <<refreshId, heard, speechVars>>
       \/ /\ answer.id = refreshId
          /\ refreshId' = 0
          /\ pending' = FALSE
          /\ UNCHANGED speech
          /\ \/ /\ answer.voice # NoVoice
                /\ Accept(answer.voice)
                /\ heard' = answer.voice
             \/ UNCHANGED <<nextSpeech, heard>>
    /\ UNCHANGED <<saved, lane, polite, settingsId, asking, replyVars, threadVars>>

(* An interrupt of the host, or a barge-in.                                *)
Cancel ==
    /\ current # 0 /\ current \notin retired \cup cancelled
    /\ cancelled' = cancelled \cup {current}
    /\ polite' = FALSE
    /\ UNCHANGED <<saved, lane, answers, workerVars, speechVars, current, retired, stopping,
                   threadVars>>
(* close, or a fault.                                                      *)
Stop ==
    /\ ~stopping
    /\ stopping' = TRUE
    /\ UNCHANGED <<hostVars, workerVars, speechVars, current, cancelled, retired,
                   threadVars>>

----------------------------------------------------------------------------
(* The synthesis thread.                                                   *)
(*   idle         waiting for a reply                                      *)
(*   picked       has a reply, about to take the mutex in take_speech      *)
(*   waiting      for the settings that were asked for                     *)
(*   configuring  about to call or inside tts.configure                    *)
(*   publishing   configured or refused, about to take the mutex           *)
(*   voiced       back from take_speech                                    *)
(*   speaking     between the first segment and the retirement             *)
(*   exited                                                                *)
ThreadFrame ==
    UNCHANGED <<hostVars, workerVars, current, cancelled, stopping>>
Abandoned == stopping \/ reply \in cancelled

PickReply ==
    /\ place = "idle" /\ ~stopping
    /\ current # 0 /\ current \notin retired
    /\ reply' = current
    /\ place' = "picked"
    /\ UNCHANGED <<taking, ttsVoice, due, waited, speechVars, retired>>
    /\ ThreadFrame
Exit ==
    /\ place = "idle" /\ stopping
    /\ place' = "exited"
    /\ UNCHANGED <<reply, taking, ttsVoice, due, waited, speechVars, retired>>
    /\ ThreadFrame

(* take_speech up to the release of the mutex.                             *)
EnterWait ==
    /\ place = "picked" /\ pending /\ ~Abandoned
    /\ place' = "waiting"
    /\ UNCHANGED <<reply, taking, ttsVoice, due, waited, speechVars, retired>>
    /\ ThreadFrame
(* Mutant: the settings are taken without the wait.                        *)
TakeEarly ==
    /\ place = "picked"
    /\ pending' = FALSE
    /\ place' = IF Abandoned \/ nextSpeech = NoVoice THEN "voiced" ELSE "configuring"
    /\ taking' = IF Abandoned THEN NoVoice ELSE nextSpeech
    /\ nextSpeech' = IF Abandoned THEN nextSpeech ELSE NoVoice
    /\ due' = IF reply = current THEN heard ELSE NoVoice
    /\ waited' = (refreshId = 0 \/ (place = "waiting" /\ pending))
    /\ UNCHANGED <<reply, ttsVoice, speech, retired>>
    /\ ThreadFrame
(* Mutant: the wait has no bound.                                          *)
TakeAnswered ==
    /\ place \in {"picked", "waiting"}
    /\ ~pending \/ Abandoned
    /\ pending' = FALSE
    /\ place' = IF Abandoned \/ nextSpeech = NoVoice THEN "voiced" ELSE "configuring"
    /\ taking' = IF Abandoned THEN NoVoice ELSE nextSpeech
    /\ nextSpeech' = IF Abandoned THEN nextSpeech ELSE NoVoice
    /\ due' = IF reply = current THEN heard ELSE NoVoice
    /\ waited' = (refreshId = 0 \/ (place = "waiting" /\ pending))
    /\ UNCHANGED <<reply, ttsVoice, speech, retired>>
    /\ ThreadFrame
(* The wait ends with the answer, the cancellation, the stop or, pending   *)
(* still set, with the deadline.                                           *)
Take ==
    /\ \/ place = "picked" /\ (~pending \/ Abandoned)
       \/ place = "waiting"
    /\ pending' = FALSE
    /\ place' = IF Abandoned \/ nextSpeech = NoVoice THEN "voiced" ELSE "configuring"
    /\ taking' = IF Abandoned THEN NoVoice ELSE nextSpeech
    /\ nextSpeech' = IF Abandoned THEN nextSpeech ELSE NoVoice
    /\ due' = IF reply = current THEN heard ELSE NoVoice
    /\ waited' = (refreshId = 0 \/ (place = "waiting" /\ pending))
    /\ UNCHANGED <<reply, ttsVoice, speech, retired>>
    /\ ThreadFrame

(* tts.configure takes the voice or refuses it (a voice is checked when    *)
(* the answer comes, and again now), or it fails and the session with it.  *)
(* Mutant: the refusal is forgotten.                                       *)
ConfigureForgets ==
    /\ place = "configuring"
    /\ ttsVoice' \in {taking, ttsVoice}
    /\ place' = "publishing"
    /\ UNCHANGED <<reply, taking, due, waited, speechVars, retired>>
    /\ ThreadFrame
Configure ==
    /\ place = "configuring"
    /\ \/ /\ ttsVoice' = taking
          /\ UNCHANGED <<taking, due>>
       \/ /\ taking' = NoVoice
          /\ due' = NoVoice
          /\ UNCHANGED ttsVoice
    /\ place' = "publishing"
    /\ UNCHANGED <<reply, waited, speechVars, retired>>
    /\ ThreadFrame
ConfigureFails ==
    /\ place = "configuring"
    /\ place' = "exited"
    /\ stopping' = TRUE
    /\ UNCHANGED <<reply, taking, ttsVoice, due, waited, speechVars, retired,
                   hostVars, workerVars, current, cancelled>>
Publish ==
    /\ place = "publishing"
    /\ speech' = IF taking # NoVoice THEN taking ELSE speech
    /\ place' = "voiced"
    /\ UNCHANGED <<reply, taking, ttsVoice, due, waited, nextSpeech, pending,
                   retired>>
    /\ ThreadFrame

(* The segment loop, then retire_locked.                                   *)
Speak ==
    /\ place = "voiced" /\ ~Abandoned
    /\ place' = "speaking"
    /\ UNCHANGED <<reply, taking, ttsVoice, due, waited, speechVars, retired>>
    /\ ThreadFrame
Retire ==
    /\ place = "speaking" \/ (place = "voiced" /\ Abandoned)
    /\ retired' = retired \cup {reply}
    /\ place' = "idle" /\ reply' = 0 /\ taking' = NoVoice
    /\ UNCHANGED <<ttsVoice, due, waited, speechVars>>
    /\ ThreadFrame

----------------------------------------------------------------------------
ThreadStep ==
    \/ PickReply \/ Exit \/ EnterWait \/ Take \/ Configure \/ ConfigureFails
    \/ Publish \/ Speak \/ Retire
HostStep == (\E v \in Voices : Save(v)) \/ ServeSettings
WorkerStep == Admit \/ Refuse \/ TakeAnswer
Next == HostStep \/ AskSpeech \/ WorkerStep \/ Cancel \/ Stop \/ ThreadStep

(* The thread runs, and its calls into the synthesizer return (Session     *)
(* faults one that does not); nobody else has to do anything.              *)
Spec == Init /\ [][Next]_vars /\ WF_vars(ThreadStep)

----------------------------------------------------------------------------
(* Properties.                                                             *)
Places == {"idle", "picked", "waiting", "configuring", "publishing", "voiced",
           "speaking", "exited"}
(* Every variable keeps its type: the newest request is the only one whose *)
(* answer the worker still takes.                                          *)
TypeOK ==
    /\ saved \in Voices /\ lane \in {0, settingsId}
    /\ answers \in Seq([id : 1..MaxAsks, voice : Voices \cup {NoVoice}])
    /\ settingsId \in 0..MaxAsks /\ refreshId \in {0, settingsId}
    /\ asking \in BOOLEAN /\ heard \in Voices \cup {NoVoice}
    /\ speech \in Voices /\ nextSpeech \in Voices \cup {NoVoice}
    /\ pending \in BOOLEAN /\ stopping \in BOOLEAN /\ {waited, polite} \subseteq BOOLEAN
    /\ current \in 0..MaxReplies /\ reply \in 0..MaxReplies
    /\ cancelled \subseteq 1..MaxReplies /\ retired \subseteq 1..MaxReplies
    /\ place \in Places /\ taking \in Voices \cup {NoVoice}
    /\ ttsVoice \in Voices /\ due \in Voices \cup {NoVoice}

(* What the session reports as the voice in force is what the synthesizer  *)
(* speaks with, in every reply and between replies, whatever was refused,  *)
(* cancelled or answered while the settings were being taken.              *)
VoiceInForce ==
    place \notin {"configuring", "publishing", "exited"} => speech = ttsVoice

(* A reply whose own refresh was answered with a voice before it took its  *)
(* settings speaks that voice, unless the synthesizer refuses it.          *)
OwnAnswerIsSpoken == (place = "speaking" /\ due # NoVoice) => ttsVoice = due

(* A reply speaks only after its refresh was answered, or after it waited  *)
(* for the answer as long as it may.                                       *)
ReplyWaits == place = "speaking" => waited

(* Both hold as long as the host asks for a reply only when it has none    *)
(* and none is cancelled or refused.                                       *)
OwnAnswerToPolite == polite => OwnAnswerIsSpoken
PoliteReplyWaits == polite => ReplyWaits

(* A reply the thread took is retired, or the thread ends: no answer the   *)
(* host owes can hold it.                                                  *)
RepliesRetire == (place = "picked") ~> (place \in {"idle", "exited"})
=============================================================================
