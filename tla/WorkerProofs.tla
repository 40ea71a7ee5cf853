----------------------------- MODULE WorkerProofs -----------------------------
(***************************************************************************)
(* For every number of requests, finals and held reports, all the worker's *)
(* deadlines and every script of the carrier, whatever fails: each request *)
(* taken is answered once, a session that ended has given back what it had *)
(* and has named the speaker of each of its finals, and the worker takes   *)
(* nothing ordinary for a failure.  The invariant has a part for each      *)
(* thing the loop looks after: its life, the lines, what is held back, the *)
(* finals, what a session has, the audio of its reply.  What the worker    *)
(* takes for a failure needs three more: the time of a drain, the reports  *)
(* on their way, and the speakers the engine owes.                         *)
(***************************************************************************)
EXTENDS Worker, SequenceTheorems, FiniteSetTheorems, TLAPS

(* A sequence, of whatever.                                               *)
ProperSeq(s) == s \in Seq({s[i] : i \in DOMAIN s})

(* Sequences of lines, reports and events, which have no common type.      *)
LEMMA SeqOfItsRange ==
  ASSUME NEW S, NEW s \in Seq(S)
  PROVE  s \in Seq({s[i] : i \in DOMAIN s})
  <1> DEFINE R == {s[i] : i \in DOMAIN s}
  <1>1. Len(s) \in Nat /\ DOMAIN s = 1..Len(s) /\ s = [i \in 1..Len(s) |-> s[i]]
    OBVIOUS
  <1>2. \A i \in 1..Len(s) : s[i] \in R
    BY <1>1
  <1> HIDE DEF R
  <1>3. [i \in 1..Len(s) |-> s[i]] \in [1..Len(s) -> R]
    BY <1>2
  <1>4. [i \in 1..Len(s) |-> s[i]] \in Seq(R)
    BY <1>1, <1>3, SeqDef
  <1> QED
    BY <1>1, <1>4 DEF R

LEMMA AppendFacts ==
  ASSUME NEW s, ProperSeq(s), NEW e
  PROVE  /\ ProperSeq(Append(s, e)) /\ Len(s) \in Nat /\ Len(Append(s, e)) = Len(s) + 1
         /\ DOMAIN s = 1..Len(s) /\ DOMAIN Append(s, e) = 1..Len(s) + 1
         /\ \A i \in 1..Len(s) : Append(s, e)[i] = s[i]
         /\ Append(s, e)[Len(s) + 1] = e
  <1> DEFINE S == {s[i] : i \in DOMAIN s}
             T == S \cup {e}
             a == Append(s, e)
  <1>1. s \in Seq(T)
    <2>1. S \subseteq T
      OBVIOUS
    <2>2. s \in Seq(S)
      BY DEF ProperSeq
    <2> HIDE DEF S, T
    <2> QED
      BY <2>1, <2>2
  <1>2. e \in T
    OBVIOUS
  <1> HIDE DEF T, S
  <1>3. /\ a \in Seq(T) /\ Len(s) \in Nat /\ Len(a) = Len(s) + 1
        /\ DOMAIN s = 1..Len(s) /\ DOMAIN a = 1..Len(s) + 1
        /\ \A i \in 1..Len(s) : a[i] = s[i]
        /\ a[Len(s) + 1] = e
    BY <1>1, <1>2
  <1>4. a \in Seq({a[i] : i \in DOMAIN a})
    BY <1>3, SeqOfItsRange DEF a
  <1> QED
    BY <1>3, <1>4 DEF ProperSeq

LEMMA TailFacts ==
  ASSUME NEW s, ProperSeq(s), s # <<>>
  PROVE  /\ ProperSeq(Tail(s)) /\ Len(s) \in Nat \ {0} /\ Len(Tail(s)) = Len(s) - 1
         /\ DOMAIN s = 1..Len(s) /\ DOMAIN Tail(s) = 1..Len(s) - 1
         /\ \A i \in 1..Len(s) - 1 : Tail(s)[i] = s[i + 1]
         /\ Head(s) = s[1]
  <1> DEFINE S == {s[i] : i \in DOMAIN s}
             t == Tail(s)
  <1>1. s \in Seq(S)
    BY DEF ProperSeq
  <1> HIDE DEF S
  <1>2. /\ t \in Seq(S) /\ Len(s) \in Nat \ {0} /\ Len(t) = Len(s) - 1
        /\ DOMAIN s = 1..Len(s) /\ DOMAIN t = 1..Len(s) - 1
        /\ \A i \in 1..Len(s) - 1 : t[i] = s[i + 1]
        /\ Head(s) = s[1]
    BY <1>1
  <1> HIDE DEF t
  <1>3. t \in Seq({t[i] : i \in DOMAIN t})
    BY <1>2, SeqOfItsRange
  <1> QED
    BY <1>2, <1>3 DEF ProperSeq, t

Longest == DrainIdle + CaptureClose + AbortTime + RetireTime
LifeType ==
    [state : {"closed", "opening", "open", "draining", "failed"}, session : Nat,
     capture : BOOLEAN, abort : BOOLEAN, failure : {"none", "contained", "failed"},
     quit : BOOLEAN, waiting : BOOLEAN, closing : -1..Longest, exit : -1..RetireTime,
     live : BOOLEAN, core : {"none", "running", "draining", "aborting"}]
JobsType == [enroll : Nat, publish : Nat, capture : BOOLEAN, uses : BOOLEAN]

(* The session's life, with its opening o.                                 *)
Shape(l, o) ==
    /\ l \in LifeType
    /\ l.state \in {"opening", "open"} => ~l.abort /\ l.failure = "none"
    /\ l.state = "draining" /\ l.failure # "none" => l.abort
    /\ l.waiting => l.state = "opening" /\ ~HasSession(l) /\ o = "none" /\ ~l.capture
    /\ HasSession(l) => l.state \in {"open", "draining"} /\ ~l.capture /\ o = "none"
    /\ o # "none" => l.state \in {"opening", "draining"} /\ ~l.capture
OpeningKnown == opening \in {"none", "running", "opened", "refused", "broken"}
InPump == {"status", "events", "replies", "reconcile", "last"}
PumpHasSession == pc \in InPump => HasSession(life)
LifeInv == Shape(life, opening) /\ OpeningKnown /\ PumpHasSession

(* The lines.                                                              *)
AtHand == IF pc = "input" THEN {} ELSE {hand.id}
AtJobs == {jobs.enroll, jobs.publish}
AtHeld == {held[i].id : i \in DOMAIN held}
AtQueue == {queue[i].id : i \in DOMAIN queue}
Anonymous == {"none", "values", "refusal"}
LineTypes ==
    /\ asked \in 0..MaxRequests /\ answers \in [Requests -> Nat] /\ lost \subseteq 1..asked
    /\ ProperSeq(queue) /\ ProperSeq(held)
    /\ jobs \in JobsType /\ AtJobs \subseteq 0..asked
    /\ hand.id \in 0..asked /\ (hand.id = 0 <=> hand.op \in Anonymous)
    /\ \A i \in DOMAIN queue : /\ queue[i].id \in 0..asked
                               /\ queue[i].id = 0 <=> queue[i].op \in Anonymous
                               /\ i > 1 => queue[i].id = 0
    /\ AtHeld \subseteq 1..asked
OwedOnce ==
    /\ AtHand \cap (AtJobs \cup AtHeld \cup AtQueue) \subseteq {0}
    /\ AtJobs \cap (AtHeld \cup AtQueue) \subseteq {0}
    /\ AtHeld \cap AtQueue = {}
    /\ jobs.enroll = jobs.publish => jobs.enroll = 0
    /\ \A i, j \in DOMAIN held : held[i].id = held[j].id => i = j
Owed == AtHand \cup AtJobs \cup AtHeld \cup AtQueue
AnswersFit ==
    /\ \A r \in Requests : answers[r] <= 1 /\ (r > asked \/ r \in Owed => answers[r] = 0)
    /\ \A r \in 1..asked : answers[r] = 0 => r \in Owed \cup lost
    /\ lost # {} => life.quit
HandIsEmpty == pc \in {"read", "exited"} => hand.id = 0
OwedInv == LineTypes /\ OwedOnce /\ AnswersFit /\ HandIsEmpty

(* What is held back, and the write it waits for.                          *)
HeldInv ==
    /\ held # <<>> => HasSession(life)
    /\ Len(held) <= ReportBacklog
    /\ task.state # "none" => HasSession(life)
    /\ pc \in {"last", "look", "control", "input"} /\ held # <<>> => task.state # "none"
    /\ pc = "exited" => jobs = NoJobs /\ held = <<>>

(* The finals.                                                             *)
IsEngine(e) ==
    e = [cutoff |-> e.cutoff, done |-> e.done, error |-> e.error, retired |-> e.retired,
         owed |-> e.owed, finals |-> e.finals, busy |-> e.busy, calls |-> e.calls]
FinalTypes ==
    /\ IsEngine(engine) /\ engine.owed \subseteq 1..engine.finals
    /\ rows \in [Finals -> {"none", "pending", "late", "over"}]
    /\ said \in [Finals -> Nat] /\ ProperSeq(events)
    /\ engine.finals \in 0..MaxFinals
EventsFit ==
    /\ \A i \in DOMAIN events : events[i].kind \in {"final", "observed"} =>
         events[i].final \in 1..engine.finals
    /\ \A i \in DOMAIN events : events[i].kind = "final" => rows[events[i].final] = "none"
    /\ \A i, j \in DOMAIN events :
         events[i].kind = "final" /\ events[j].kind = "final"
         /\ events[i].final = events[j].final => i = j
    /\ ~HasSession(life) => events = <<>> /\ engine.finals = 0
    /\ ~Retired(life) => \A f \in Finals : f > engine.finals => rows[f] = "none"
SaidFits ==
    \A f \in Finals :
      /\ rows[f] \in {"none", "pending"} => said[f] = 0
      /\ rows[f] = "over" => said[f] = 1
      /\ rows[f] = "late" => said[f] <= 1 /\ (said[f] = 1 \/ life.state = "failed")
      /\ Retired(life) => rows[f] # "pending"
FinalsInv == FinalTypes /\ EventsFit /\ SaidFits

(* What a session has is given back.                                       *)
Users ==
    /\ storage = [owner |-> storage.owner, done |-> storage.done]
    /\ storage.owner \in {"none", "core", "enroll", "publish", "capture"}
    /\ storage.owner = "core" => HasSession(life) /\ ~engine.retired
    /\ storage.owner = "capture" => jobs.capture
    /\ storage.owner = "enroll" => jobs.enroll # 0 /\ "enroll" \notin ready
    /\ storage.owner = "publish" => jobs.publish # 0 /\ "publish" \notin ready
    /\ storage.owner = "capture" => ready \cap {"kept", "broken"} = {}
RetiredKnown ==
    /\ snap = [cutoff |-> snap.cutoff, retired |-> snap.retired, emitted |-> snap.emitted,
               busy |-> snap.busy, calls |-> snap.calls]
    /\ ~Retired(life) /\ snap.retired => engine.retired
Ends ==
    /\ ends \in Int
    /\ Retired(life) => ends = life.session /\ ~admitted /\ ~jobs.capture /\ ~jobs.uses
    /\ ~Retired(life) => ends = life.session - 1
GivenBackInv == Users /\ RetiredKnown /\ Ends

(* The audio of the reply.                                                 *)
IsReply(r) ==
    r = [state |-> r.state, delivered |-> r.delivered, rendered |-> r.rendered,
         ended |-> r.ended, fenced |-> r.fenced, receipt |-> r.receipt,
         madeSeen |-> r.madeSeen, retiredSeen |-> r.retiredSeen, endSaid |-> r.endSaid,
         eventSeen |-> r.eventSeen, made |-> r.made, given |-> r.given, cut |-> r.cut,
         retired |-> r.retired, endGiven |-> r.endGiven]
IsTask(t) ==
    t = [state |-> t.state, frames |-> t.frames, end |-> t.end, written |-> t.written,
         endWritten |-> t.endWritten]
AudioFits(r, t) ==
    /\ IsReply(r) /\ IsTask(t)
    /\ {r.made, r.given, r.delivered, t.frames, t.written} \subseteq Nat
    /\ t.written <= t.frames /\ r.delivered + t.frames <= r.given
    /\ r.given <= r.made /\ r.made <= script.frames
    /\ t.state = "none" => t = NoTask
    /\ r.state = "none" => t.state = "none"
ReplyInv == script \in Scripts /\ AudioFits(reply, task)
StallType == stall \in {"none", "idle", "early"}
IInv == LifeInv /\ OwedInv /\ HeldInv /\ FinalsInv /\ GivenBackInv /\ ReplyInv /\ StallType
----------------------------------------------------------------------------
(* What failures, retirement, progress and the clock do to a life: it goes *)
(* on as it is, or it drains without grace.                                *)
Worse(l, m) ==
    /\ m \in LifeType /\ m.session = l.session /\ m.capture = l.capture
    /\ l.quit => m.quit
    /\ HasSession(m) <=> HasSession(l)
    /\ Retired(l) => m.state = l.state /\ m.waiting = l.waiting
    /\ \/ Retired(l)
       \/ /\ m.state = l.state /\ m.abort = l.abort /\ m.waiting = l.waiting
          /\ m.failure = l.failure
       \/ m.state = "draining" /\ m.abort /\ ~m.waiting

(* Each way in which a life goes on is one that makes it worse, and worse  *)
(* twice is worse.                                                         *)
LEMMA TimesAreNatural ==
  /\ DrainIdle \in Nat /\ CaptureClose \in Nat /\ AbortTime \in Nat
  /\ RetireTime \in Nat /\ Longest \in Nat
  BY TimeAssumption DEF Longest

LEMMA WorseKeepsShape ==
  ASSUME NEW l, NEW m, NEW o, Shape(l, o), Worse(l, m)
  PROVE  Shape(m, o) /\ (Retired(m) <=> Retired(l))
  BY DEF Worse, Shape, Retired, HasSession

LEMMA WorseThanItself ==
  ASSUME NEW l, l \in LifeType PROVE Worse(l, l)
  BY DEF Worse

LEMMA WorseAndWorse ==
  ASSUME NEW l, NEW m, NEW n, Worse(l, m), Worse(m, n)
  PROVE  Worse(l, n)
  BY DEF Worse, Retired, HasSession

LEMMA QuitIsWorse ==
  ASSUME NEW l, NEW o, Shape(l, o)
  PROVE  Worse(l, Quit(l)) /\ Quit(l).quit
  <1> DEFINE m == [l EXCEPT !.quit = TRUE, !.exit = RetireTime]
  <1>1. RetireTime \in -1..RetireTime
    BY TimesAreNatural
  <1>2. m \in LifeType /\ m.quit
    BY <1>1 DEF Shape, LifeType
  <1>3. Worse(l, m)
    BY <1>2 DEF Worse, Shape, LifeType, HasSession
  <1>4. Worse(l, l)
    BY WorseThanItself DEF Shape
  <1>5. CASE l.quit
    BY <1>4, <1>5 DEF Quit
  <1>6. CASE ~l.quit
    BY <1>2, <1>3, <1>6 DEF Quit
  <1> QED
    BY <1>5, <1>6

LEMMA AbortingIsWorse ==
  ASSUME NEW l, NEW o, Shape(l, o), ~Retired(l), NEW time \in -1..Longest
  PROVE  Worse(l, Aborting(l, time))
  <1> DEFINE m == Aborting(l, time)
  <1>1. m = [l EXCEPT !.state = "draining", !.abort = TRUE, !.waiting = FALSE,
                      !.closing = time, !.core = Closed(l.core)]
    BY DEF Aborting
  <1>2. Closed(l.core) \in {"none", "aborting"} /\ (Closed(l.core) = "none" <=> l.core = "none")
    BY DEF Closed
  <1> HIDE DEF m
  <1>3. m \in LifeType
    BY <1>1, <1>2 DEF Shape, LifeType
  <1> QED
    BY <1>1, <1>2, <1>3 DEF Worse, Shape, LifeType, HasSession, m

LEMMA FailIsWorse ==
  ASSUME NEW l, NEW o, Shape(l, o)
  PROVE  Worse(l, Fail(l)) /\ (Fail(l).failure # "none")
  <1> DEFINE failed == [l EXCEPT !.failure = "failed", !.live = FALSE]
             time == IF l.abort /\ l.state = "draining" THEN l.closing ELSE AbortTime
  <1>1. CASE l.failure # "none"
    BY <1>1, WorseThanItself DEF Fail, Shape
  <1>2. CASE l.failure = "none" /\ Retired(l)
    <2>1. Fail(l) = failed /\ failed \in LifeType
      BY <1>2 DEF Fail, Shape, LifeType
    <2> QED
      BY <1>2, <2>1 DEF Worse, Shape, LifeType, HasSession
  <1>3. CASE l.failure = "none" /\ ~Retired(l)
    <2> DEFINE core == Closed(l.core)
    <2>1. Fail(l) = Aborting(failed, time)
      BY <1>3 DEF Fail
    <2>2. core \in {"none", "aborting"} /\ (core = "none" <=> l.core = "none")
      BY DEF Closed
    <2>3. time \in -1..Longest
      BY TimesAreNatural DEF Shape, LifeType, Longest
    <2>4. failed.core = l.core
      BY DEF Shape, LifeType
    <2> HIDE DEF time
    <2>5. Fail(l) = [failed EXCEPT !.state = "draining", !.abort = TRUE, !.waiting = FALSE,
                                   !.closing = time, !.core = core]
      BY <2>1, <2>4 DEF Aborting
    <2>6. failed \in LifeType /\ failed.session = l.session /\ failed.capture = l.capture
          /\ failed.quit = l.quit /\ failed.failure = "failed"
      BY DEF Shape, LifeType
    <2> HIDE DEF core, failed
    <2>7. /\ Fail(l) \in LifeType /\ Fail(l).session = l.session /\ Fail(l).capture = l.capture
          /\ Fail(l).quit = l.quit /\ Fail(l).failure = "failed" /\ Fail(l).core = core
          /\ Fail(l).state = "draining" /\ Fail(l).abort /\ ~Fail(l).waiting
      BY <2>2, <2>3, <2>5, <2>6 DEF LifeType
    <2> QED
      BY <1>3, <2>2, <2>7 DEF Worse, HasSession
  <1> QED
    BY <1>1, <1>2, <1>3

LEMMA FailSessionIsWorse ==
  ASSUME NEW l, NEW o, Shape(l, o)
  PROVE  Worse(l, FailSession(l))
  <1>1. CASE l.failure # "none"
    BY <1>1, WorseThanItself DEF FailSession, Shape
  <1>2. CASE l.failure = "none"
    <2> DEFINE m == Fail(l)
    <2>1. FailSession(l) = [m EXCEPT !.failure = "contained"]
      BY <1>2 DEF FailSession
    <2>2. Worse(l, m) /\ m.failure # "none"
      BY FailIsWorse
    <2> HIDE DEF m
    <2> QED
      BY <1>2, <2>1, <2>2 DEF Worse, LifeType, HasSession, Retired
  <1> QED
    BY <1>1, <1>2

LEMMA FailEngineIsWorse ==
  ASSUME NEW l, NEW o, Shape(l, o)
  PROVE  Worse(l, FailEngine(l)) /\ FailEngine(l).quit
  <1> DEFINE q == Quit(l)
  <1>1. Worse(l, q) /\ q.quit
    BY QuitIsWorse
  <1>2. Shape(q, o)
    BY <1>1, WorseKeepsShape
  <1>3. CASE q.failure = "contained"
    <2>1. FailEngine(l) = [q EXCEPT !.failure = "failed"]
      BY <1>3 DEF FailEngine
    <2> HIDE DEF q
    <2>2. Worse(q, [q EXCEPT !.failure = "failed"])
      BY <1>2, <1>3 DEF Worse, Shape, LifeType, HasSession, Retired
    <2>3. [q EXCEPT !.failure = "failed"].quit
      BY <1>1, <1>2 DEF Shape, LifeType
    <2> QED
      BY <1>1, <2>1, <2>2, <2>3, WorseAndWorse
  <1>4. CASE q.failure # "contained"
    <2>1. FailEngine(l) = Fail(q)
      BY <1>4 DEF FailEngine
    <2>2. Worse(q, Fail(q))
      BY <1>2, FailIsWorse
    <2>3. Fail(q).quit
      BY <1>1, <2>2 DEF Worse
    <2> QED
      BY <1>1, <2>1, <2>2, <2>3, WorseAndWorse
  <1> QED
    BY <1>3, <1>4

LEMMA AtEofIsWorse ==
  ASSUME NEW l, NEW o, Shape(l, o)
  PROVE  Worse(l, AtEof(l))
  <1> DEFINE p == Quit(l)
             q == [p EXCEPT !.live = FALSE]
  <1>1. Worse(l, p) /\ Shape(p, o)
    BY QuitIsWorse, WorseKeepsShape
  <1>2. Worse(p, q)
    BY <1>1 DEF Worse, Shape, LifeType, HasSession
  <1>3. Shape(q, o)
    BY <1>1, <1>2, WorseKeepsShape
  <1>4. q.exit \in -1..Longest
    BY <1>3, TimesAreNatural DEF Shape, LifeType, Longest
  <1>5. AtEof(l) = IF Retired(q) THEN q ELSE Aborting(q, q.exit)
    BY DEF AtEof
  <1> HIDE DEF p, q
  <1>6. Worse(q, AtEof(l))
    BY <1>3, <1>4, <1>5, AbortingIsWorse, WorseThanItself DEF Shape
  <1> QED
    BY <1>1, <1>2, <1>6, WorseAndWorse

LEMMA AdvanceDrainIsWorse ==
  ASSUME NEW l, NEW o, Shape(l, o)
  PROVE  Worse(l, AdvanceDrain(l))
  <1>1. DrainIdle \in -1..Longest
    BY TimesAreNatural DEF Longest
  <1> QED
    BY <1>1 DEF Worse, Shape, LifeType, AdvanceDrain, HasSession, Draining, Retired

LEMMA RearmedIsWorse ==
  ASSUME NEW l, NEW o, Shape(l, o)
  PROVE  Worse(l, Rearmed(l))
  <1>1. DrainIdle \in -1..Longest
    BY TimesAreNatural DEF Longest
  <1> QED
    BY <1>1 DEF Worse, Shape, LifeType, Rearmed, HasSession, Draining, Retired

LEMMA AfterIsWorse ==
  ASSUME NEW l, NEW o, Shape(l, o)
  PROVE  Worse(l, After(l))
  <1> DEFINE c == IF l.state = "draining" /\ l.closing >= 0 THEN l.closing - 1 ELSE l.closing
             e == IF l.quit /\ l.exit >= 0 THEN l.exit - 1 ELSE l.exit
  <1>1. c \in -1..Longest /\ e \in -1..RetireTime
    BY TimesAreNatural DEF Shape, LifeType
  <1>2. After(l) = [l EXCEPT !.closing = c, !.exit = e]
    BY DEF After
  <1> HIDE DEF c, e
  <1> QED
    BY <1>1, <1>2 DEF Worse, Shape, LifeType, HasSession, Retired

LEMMA ServerLostIsWorse ==
  ASSUME NEW l, Shape(l, opening)
  PROVE  Worse(l, ServerLost(l))
  <1> DEFINE m == IF HasSession(l) \/ opening # "none" THEN FailEngine(l) ELSE l
  <1>1. Worse(l, m)
    BY FailEngineIsWorse, WorseThanItself DEF Shape
  <1>2. Shape(m, opening)
    BY <1>1, WorseKeepsShape
  <1>3. Worse(m, Quit(m))
    BY <1>2, QuitIsWorse
  <1>4. ServerLost(l) = IF "server" \notin faults THEN l ELSE Quit(m)
    BY DEF ServerLost
  <1> HIDE DEF m
  <1>5. Worse(l, Quit(m))
    BY <1>1, <1>3, WorseAndWorse
  <1>6. Worse(l, l)
    BY WorseThanItself DEF Shape
  <1> QED
    BY <1>4, <1>5, <1>6
----------------------------------------------------------------------------
(* The steps that leave the life as it is or make it worse.                *)
LEMMA OnwardIsWorse ==
  ASSUME NEW l, NEW o, Shape(l, o), Onward(l)
  PROVE  Worse(l, life') /\ pc' \in {"look", "status"} /\ (pc' = "status" => HasSession(life'))
  <1>1. PICK late \in BOOLEAN : /\ life' = IF late THEN FailSession(l) ELSE l
                                /\ pc' = IF life'.capture \/ ~HasSession(life') THEN "look" ELSE "status"
    BY DEF Onward
  <1>2. Worse(l, FailSession(l)) /\ Worse(l, l)
    BY FailSessionIsWorse, WorseThanItself DEF Shape
  <1> QED
    BY <1>1, <1>2

LEMMA ThrowIsWorse ==
  ASSUME LifeInv, Throw(life)
  PROVE  Worse(life, life') /\ life'.quit /\ pc' = "read"
  BY FailEngineIsWorse DEF LifeInv, Throw

LEMMA ReadIsWorse ==
  ASSUME LifeInv, Read
  PROVE  Worse(life, life')
  <1> DEFINE o == opening
             ended == IF "eof" \in faults /\ queue = <<>> /\ ~life.quit
                      THEN AtEof(life) ELSE life
             broken == IF "transport" \in faults THEN FailEngine(ended) ELSE ended
  <1>1. Worse(life, life) /\ Shape(life, o)
    BY WorseThanItself DEF LifeInv, Shape
  <1>2. Worse(life, ended)
    BY <1>1, AtEofIsWorse
  <1>3. life' = IF "audio_eof" \in faults /\ ~broken.quit /\ ~Retired(broken)
                THEN Fail(broken) ELSE broken
    BY DEF Read
  <1> HIDE DEF o, ended
  <1>4. Shape(ended, o)
    BY <1>1, <1>2, WorseKeepsShape
  <1>5. Worse(ended, broken)
    <2>1. Worse(ended, ended) /\ Worse(ended, FailEngine(ended))
      BY <1>4, WorseThanItself, FailEngineIsWorse DEF Shape
    <2> QED
      BY <2>1
  <1> HIDE DEF broken
  <1>6. Shape(broken, o)
    BY <1>4, <1>5, WorseKeepsShape
  <1>7. Worse(broken, life')
    <2>1. Worse(broken, broken) /\ Worse(broken, Fail(broken))
      BY <1>6, WorseThanItself, FailIsWorse DEF Shape
    <2> QED
      BY <1>3, <2>1
  <1> QED
    BY <1>2, <1>5, <1>7, WorseAndWorse

LEMMA NotOpenedIsWorse ==
  ASSUME LifeInv, NotOpened
  PROVE  /\ Worse(life, life') /\ opening' \in {opening, "none"}
         /\ \/ Throw(life)
            \/ /\ UNCHANGED <<hand, lost>> /\ pc' \in {"look", "status"}
               /\ (pc' = "status" => HasSession(life'))
  <1>1. Shape(life, opening) /\ opening' \in {opening, "none"}
    BY DEF LifeInv, NotOpened
  <1>2. CASE opening = "broken"
    <2>1. Throw(life)
      BY <1>2 DEF NotOpened
    <2> QED
      BY <1>1, <2>1, ThrowIsWorse
  <1>3. CASE opening = "refused"
    <2>1. Onward(FailSession(life))
      BY <1>3 DEF NotOpened
    <2>2. Worse(life, FailSession(life))
      BY <1>1, FailSessionIsWorse
    <2>3. Shape(FailSession(life), opening)
      BY <1>1, <2>2, WorseKeepsShape
    <2>4. UNCHANGED <<hand, lost>>
      BY <2>1 DEF Onward
    <2> QED
      BY <1>1, <2>1, <2>2, <2>3, <2>4, OnwardIsWorse, WorseAndWorse
  <1>4. CASE opening \notin {"broken", "refused"}
    <2>1. Onward(life)
      BY <1>4 DEF NotOpened
    <2>2. UNCHANGED <<hand, lost>>
      BY <2>1 DEF Onward
    <2> QED
      BY <1>1, <2>1, <2>2, OnwardIsWorse
  <1> QED
    BY <1>2, <1>3, <1>4

LEMMA StatusIsWorse ==
  ASSUME LifeInv, Status
  PROVE  Worse(life, life')
  <1> DEFINE o == opening
             l == IF engine.error THEN FailEngine(life) ELSE life
             wrote == task.state \in {"done", "failed"}
             moved == wrote /\ (task.written > 0 \/ task.endWritten)
             l1 == IF moved THEN AdvanceDrain(l) ELSE l
  <1>1. Worse(life, life) /\ Shape(life, o)
    BY WorseThanItself DEF LifeInv, Shape
  <1>2. Worse(life, l)
    BY <1>1, FailEngineIsWorse
  <1>3. Shape(l, o) /\ Worse(l, l)
    BY <1>1, <1>2, WorseKeepsShape, WorseThanItself DEF Shape
  <1>9. life' = IF task.state = "failed" THEN Fail(l1) ELSE l1
    BY DEF Status
  <1> HIDE DEF o, l, wrote, moved
  <1>4. Worse(l, l1)
    BY <1>3, AdvanceDrainIsWorse
  <1> HIDE DEF l1
  <1>5. Shape(l1, o) /\ Worse(l1, l1)
    BY <1>3, <1>4, WorseKeepsShape, WorseThanItself DEF Shape
  <1>6. Worse(l1, life')
    BY <1>5, <1>9, FailIsWorse
  <1> QED
    BY <1>2, <1>4, <1>6, WorseAndWorse

LEMMA LastStatusIsWorse ==
  ASSUME LifeInv, LastStatus
  PROVE  Worse(life, life')
  <1> DEFINE o == opening
             l == IF engine.error THEN FailEngine(life) ELSE life
  <1>1. Worse(life, life) /\ Shape(life, o)
    BY WorseThanItself DEF LifeInv, Shape
  <1>2. Worse(life, l)
    BY <1>1, FailEngineIsWorse
  <1>3. Shape(l, o) /\ Worse(l, l)
    BY <1>1, <1>2, WorseKeepsShape, WorseThanItself DEF Shape
  <1>4. life' = IF emitted > seen.events THEN AdvanceDrain(l) ELSE l
    BY DEF LastStatus
  <1> HIDE DEF o, l
  <1>5. Worse(l, life')
    BY <1>3, <1>4, AdvanceDrainIsWorse
  <1> QED
    BY <1>2, <1>5, WorseAndWorse

LEMMA JudgeReportIsWorse ==
  ASSUME LifeInv, NEW r, JudgeReport(r)
  PROVE  Worse(life, life')
  <1>1. Worse(life, life) /\ Worse(life, AdvanceDrain(life))
    BY WorseThanItself, AdvanceDrainIsWorse DEF LifeInv, Shape
  <1>2. life' = life \/ life' = AdvanceDrain(life)
    BY DEF JudgeReport
  <1> QED
    BY <1>1, <1>2

LEMMA InputIsWorse ==
  ASSUME LifeInv, Input
  PROVE  Worse(life, life')
  <1>1. Worse(life, life) /\ Shape(life, opening)
    BY WorseThanItself DEF LifeInv, Shape
  <1>2. AfterFrame \in {life, FailEngine(life), FailSession(life)}
    BY DEF AfterFrame
  <1>3. Worse(life, AfterFrame)
    BY <1>1, <1>2, FailEngineIsWorse, FailSessionIsWorse
  <1>4. Shape(AfterFrame, opening)
    BY <1>1, <1>3, WorseKeepsShape
  <1>5. Worse(AfterFrame, ServerLost(AfterFrame))
    BY <1>4, ServerLostIsWorse
  <1>6. Shape(ServerLost(AfterFrame), opening)
    BY <1>4, <1>5, WorseKeepsShape
  <1>7. life' = After(ServerLost(AfterFrame))
    BY DEF Input
  <1>8. Worse(ServerLost(AfterFrame), life')
    BY <1>6, <1>7, AfterIsWorse
  <1> QED
    BY <1>3, <1>5, <1>8, WorseAndWorse

LEMMA AbortIsWorse ==
  ASSUME LifeInv, Abort
  PROVE  Worse(life, life')
  <1> DEFINE time == IF life.abort /\ life.state = "draining" THEN life.closing ELSE AbortTime
             l == Aborting(life, time)
  <1>1. Shape(life, opening) /\ ~Retired(life)
    BY DEF LifeInv, Abort, MayAbort
  <1>2. time \in -1..Longest
    BY <1>1, TimesAreNatural DEF Shape, LifeType, Longest
  <1>3. life' = [l EXCEPT !.live = FALSE]
    BY DEF Abort
  <1> HIDE DEF time
  <1>4. Worse(life, l)
    BY <1>1, <1>2, AbortingIsWorse
  <1> HIDE DEF l
  <1>5. Worse(l, life')
    BY <1>3, <1>4 DEF Worse, LifeType, HasSession
  <1> QED
    BY <1>4, <1>5, WorseAndWorse

(* A life that got worse keeps its shape, and the pump its session.        *)
LEMMA KeepsLive ==
  ASSUME LifeInv, NEW b \in BOOLEAN, life' = [life EXCEPT !.live = b]
  PROVE  Worse(life, life')
  BY DEF LifeInv, Shape, Worse, LifeType, HasSession

(* Looks: the life gets worse, and then the session may end.               *)
LEMMA LooksAreWorse ==
  ASSUME LifeInv, LookAtSession \/ LookAtCapture \/ LookAtNothing
  PROVE  \E l : /\ Worse(life, l)
                /\ \/ life' = l /\ UNCHANGED EndVars
                   \/ /\ Terminal(l) /\ opening = "none" /\ ~l.waiting
                      /\ HasSession(life) => snap.retired /\ task.state = "none"
  <1>0. Shape(life, opening) /\ Worse(life, life)
    BY WorseThanItself DEF LifeInv, Shape
  <1> DEFINE l0 == Rearmed(life)
  <1>1. Worse(life, l0) /\ Shape(l0, opening) /\ Worse(l0, l0)
    BY <1>0, RearmedIsWorse, WorseKeepsShape, WorseThanItself DEF Shape
  <1>2. CASE LookAtSession
    <2> DEFINE stalled == Draining(l0) /\ Overdue(l0) /\ jobs.publish = None /\ ~Held(l0)
               failed == IF stalled THEN Fail(l0) ELSE l0
    <2>1. IF snap.retired /\ task.state = "none" /\ (~Sound(failed) \/ snap.emitted = taken)
          THEN Terminal(failed)
          ELSE life' = failed /\ UNCHANGED EndVars
      BY <1>2 DEF LookAtSession
    <2>2. HasSession(life)
      BY <1>2 DEF LookAtSession
    <2> HIDE DEF l0, stalled
    <2>3. Worse(l0, failed)
      BY <1>1, FailIsWorse
    <2> HIDE DEF failed
    <2>4. Worse(life, failed)
      BY <1>1, <2>3, WorseAndWorse
    <2>5. opening = "none" /\ ~failed.waiting
      BY <1>0, <2>2, <2>4, WorseKeepsShape DEF Shape, Worse
    <2> QED
      BY <2>1, <2>4, <2>5
  <1>3. CASE LookAtCapture
    <2>1. PICK late \in BOOLEAN :
            LET tail == IF late /\ ~life.abort /\ snap.cutoff /\ ~jobs.capture /\ ~inputFinal
                        THEN FailSession(life) ELSE life
                l == Rearmed(tail)
            IN
            IF l.state # "draining"
            THEN life' = l /\ UNCHANGED EndVars
            ELSE IF ~jobs.capture /\ (l.abort \/ inputFinal) THEN Terminal(l)
            ELSE /\ life' = IF Overdue(l) /\ ~Held(l) THEN FailSession(l) ELSE l
                 /\ UNCHANGED EndVars
      BY <1>3 DEF LookAtCapture
    <2> DEFINE tail == IF late /\ ~life.abort /\ snap.cutoff /\ ~jobs.capture /\ ~inputFinal
                       THEN FailSession(life) ELSE life
               l == Rearmed(tail)
    <2>2. life.capture
      BY <1>3 DEF LookAtCapture
    <2>3. opening = "none" /\ ~HasSession(life)
      BY <1>0, <2>2 DEF Shape
    <2>4. Worse(life, tail)
      BY <1>0, FailSessionIsWorse
    <2>5. Shape(tail, opening)
      BY <1>0, <2>4, WorseKeepsShape
    <2> HIDE DEF tail
    <2>6. Worse(tail, l)
      BY <2>5, RearmedIsWorse
    <2>7. Worse(life, l) /\ Shape(l, opening)
      BY <2>4, <2>5, <2>6, WorseAndWorse, WorseKeepsShape
    <2>8. \/ life' = l /\ UNCHANGED EndVars
          \/ l.state = "draining" /\ Terminal(l)
          \/ life' = FailSession(l) /\ UNCHANGED EndVars
      BY <2>1 DEF tail
    <2> HIDE DEF l
    <2>9. l.state = "draining" => ~l.waiting
      BY <2>7 DEF Shape
    <2>10. Worse(life, FailSession(l))
      BY <2>7, FailSessionIsWorse, WorseAndWorse
    <2> QED
      BY <2>3, <2>7, <2>8, <2>9, <2>10
  <1>4. CASE LookAtNothing
    <2>1. \/ Terminal(life) /\ life.state = "draining" /\ opening = "none" /\ ~HasSession(life)
          \/ life' = life /\ UNCHANGED EndVars
          \/ life' = Fail(life) /\ UNCHANGED EndVars
      BY <1>4 DEF LookAtNothing
    <2>2. life.state = "draining" => ~life.waiting
      BY <1>0 DEF Shape
    <2>3. Worse(life, Fail(life))
      BY <1>0, FailIsWorse
    <2> QED
      BY <1>0, <2>1, <2>2, <2>3
  <1> QED
    BY <1>2, <1>3, <1>4

(* The end of a session.                                                   *)
LEMMA TerminalShape ==
  ASSUME NEW l, Shape(l, opening), opening = "none", ~l.waiting, Terminal(l)
  PROVE  Shape(life', opening) /\ life'.session = l.session /\ (l.quit => life'.quit)
  <1>1. CASE Retired(l) \/ ~Finished
    BY <1>1 DEF Terminal
  <1>2. CASE ~(Retired(l) \/ ~Finished)
    <2> DEFINE s == IF l.failure = "none" THEN "closed" ELSE "failed"
    <2>1. life' = [l EXCEPT !.state = s, !.core = "none", !.live = FALSE]
      BY <1>2 DEF Terminal
    <2>2. s \in {"closed", "failed"}
      OBVIOUS
    <2> HIDE DEF s
    <2> QED
      BY <2>1, <2>2 DEF Shape, LifeType, HasSession
  <1> QED
    BY <1>1, <1>2
----------------------------------------------------------------------------
(* What happens around the loop leaves the loop's state alone.             *)
AroundKept ==
    UNCHANGED <<script, pc, hand, lost, answers, life, early, inputFinal, rows, said, held,
                refusals, taken, snap, seen, ends, stall>>
LEMMA AroundKeeps == ASSUME Around PROVE AroundKept
  <1>1. AroundFrame => AroundKept
    BY DEF AroundFrame, AroundKept, loopVars, lookVars, histVars
  <1>2. ASSUME NEW op \in Ops, Send(op) PROVE AroundFrame
    BY <1>2 DEF Send
  <1>3. ASSUME SettingsAnswer \/ SendFrame \/ Strike PROVE AroundFrame
    BY <1>3 DEF SettingsAnswer, SendFrame, Strike
  <1>4. ASSUME OpeningEnds \/ JobEnds PROVE AroundFrame
    BY <1>4 DEF OpeningEnds, JobEnds, JobFrame
  <1>5. ASSUME StorageStart \/ StorageEnd PROVE AroundFrame
    BY <1>5 DEF StorageStart, StorageEnd, StorageFrame
  <1>6. ASSUME Write \/ WriteFails PROVE AroundFrame
    BY <1>6 DEF Write, WriteFails, WriterFrame
  <1>7. ASSUME CoreFinal \/ CoreObserve \/ CoreFinish \/ Generate \/ GenRetire PROVE AroundFrame
    BY <1>7 DEF CoreFinal, CoreObserve, CoreFinish, Generate, GenRetire, CoreFrame
  <1>8. ASSUME CoreFence \/ CoreFault \/ CoreRetire \/ ModelStart \/ ModelEnd PROVE AroundFrame
    BY <1>8 DEF CoreFence, CoreFault, CoreRetire, ModelStart, ModelEnd, CoreFrame
  <1> QED
    BY <1>1, <1>2, <1>3, <1>4, <1>5, <1>6, <1>7, <1>8 DEF Around

(* The looks and the steps of the control line that begin or end something *)
(* in a session's life; every other step leaves it as it is or worse.      *)
Turning ==
    \/ Opened \/ Values \/ Drain \/ \E capture \in BOOLEAN : Open(capture)
Looking == LookAtSession \/ LookAtCapture \/ LookAtNothing
LEMMA OthersAreWorse ==
  ASSUME LifeInv, [Next]_vars
  PROVE  Turning \/ Looking \/ Worse(life, life')
  <1>0. Worse(life, life) /\ Shape(life, opening)
    BY WorseThanItself DEF LifeInv, Shape
  <1>1. CASE Read \/ NotOpened \/ Status \/ LastStatus \/ Input \/ Abort
    BY <1>1, ReadIsWorse, NotOpenedIsWorse, StatusIsWorse, LastStatusIsWorse, InputIsWorse,
       AbortIsWorse
  <1>2. CASE Jobs
    <2>1. life' = Fail(life) \/ life' = life
      BY <1>2 DEF Jobs
    <2> QED
      BY <1>0, <2>1, FailIsWorse
  <1>3. CASE TakeEvent
    <2>1. Throw(life) \/ life' = life
      BY <1>3 DEF TakeEvent
    <2> QED
      BY <1>0, <2>1, ThrowIsWorse
  <1>4. CASE ReleaseThrows
    BY <1>4, ThrowIsWorse DEF ReleaseThrows
  <1>5. CASE Replies
    <2>1. life' = AdvanceDrain(life) \/ life' = life
      BY <1>5 DEF Replies
    <2> QED
      BY <1>0, <2>1, AdvanceDrainIsWorse
  <1>6. CASE Reconcile
    BY <1>6, JudgeReportIsWorse DEF Reconcile
  <1>7. CASE Report
    <2>1. JudgeReport(hand) \/ life' = life
      BY <1>7 DEF Report
    <2> QED
      BY <1>0, <2>1, JudgeReportIsWorse
  <1>8. CASE Refusal
    BY <1>0, <1>8, FailSessionIsWorse DEF Refusal
  <1>9. CASE Manage \/ Record
    <2>1. life' = [life EXCEPT !.live = life.live \/ Retired(life)]
      BY <1>9 DEF Manage, Record
    <2>2. (life.live \/ Retired(life)) \in BOOLEAN
      OBVIOUS
    <2> QED
      BY <2>1, <2>2, KeepsLive
  <1>10. CASE EventsTaken \/ NextAudio \/ Abandon \/ Nothing \/ Finish \/ Synthesize \/ Stop
    <2>1. life' = life
      BY <1>10 DEF EventsTaken, NextAudio, Abandon, Nothing, Finish, Synthesize, Stop
    <2> QED
      BY <1>0, <2>1
  <1>11. CASE Around
    <2>1. life' = life
      BY <1>11, AroundKeeps DEF AroundKept
    <2> QED
      BY <1>0, <2>1
  <1>12. CASE UNCHANGED vars
    <2>1. life' = life
      BY <1>12 DEF vars
    <2> QED
      BY <1>0, <2>1
  <1> QED
    BY <1>1, <1>2, <1>3, <1>4, <1>5, <1>6, <1>7, <1>8, <1>9, <1>10, <1>11, <1>12
       DEF Next, Loop, Control, Turning, Looking

LEMMA TurningKeepsLife ==
  ASSUME LifeInv, Turning
  PROVE  LifeInv'
  <1>0. Shape(life, opening) /\ life \in LifeType
    BY DEF LifeInv, Shape
  <1>1. CASE Opened
    <2> DEFINE open == [life EXCEPT !.core = "running", !.state = "open"]
               over == [life EXCEPT !.core = "aborting"]
               l == IF Sound(life) THEN open ELSE over
    <2>1. opening = "opened" /\ opening' = "none" /\ Onward(l)
      BY <1>1 DEF Opened
    <2>2. Sound(life) => Shape(open, "none")
      BY <1>0, <2>1 DEF Shape, LifeType, HasSession, Sound
    <2>3. ~Sound(life) => Shape(over, "none")
      BY <1>0, <2>1 DEF Shape, LifeType, HasSession, Sound
    <2> HIDE DEF open, over
    <2>4. Shape(l, "none")
      BY <2>2, <2>3
    <2> HIDE DEF l
    <2>5. Shape(life', "none") /\ pc' \in {"look", "status"} /\ (pc' = "status" => HasSession(life'))
      BY <2>1, <2>4, OnwardIsWorse, WorseKeepsShape
    <2> QED
      BY <2>1, <2>5 DEF LifeInv, OpeningKnown, PumpHasSession, InPump
  <1>2. CASE Values
    <2>1. /\ life' = [life EXCEPT !.waiting = FALSE] /\ opening' = "running"
          /\ pc' = "input" /\ life.waiting
      BY <1>2 DEF Values, SettingsDue, ControlFrame
    <2>2. Shape(life', "running")
      BY <1>0, <2>1 DEF Shape, LifeType, HasSession
    <2> QED
      BY <2>1, <2>2 DEF LifeInv, OpeningKnown, PumpHasSession, InPump
  <1>3. CASE Drain
    <2>1. /\ life' = [life EXCEPT !.state = "draining", !.closing = DrainTime(life),
                          !.core = IF life.core = "running" THEN "draining" ELSE life.core]
          /\ opening' = opening /\ pc' = "input" /\ life.state = "open"
      BY <1>3 DEF Drain, MayDrain, Closing, jobVars
    <2>2. DrainTime(life) \in -1..Longest
      BY TimesAreNatural DEF Longest, DrainTime
    <2>3. Shape(life', opening)
      BY <1>0, <2>1, <2>2 DEF Shape, LifeType, HasSession
    <2> QED
      BY <2>1, <2>3 DEF LifeInv, OpeningKnown, PumpHasSession, InPump
  <1>4. ASSUME NEW c \in BOOLEAN, Open(c) PROVE LifeInv'
    <2>1. /\ life' = [life EXCEPT !.state = IF c THEN "open" ELSE "opening",
                            !.session = life.session + 1, !.capture = c, !.abort = FALSE,
                            !.failure = "none", !.waiting = ~c, !.live = TRUE]
          /\ opening' = opening /\ opening = "none" /\ ~HasSession(life) /\ pc' = "input"
      BY <1>4 DEF Open, MayOpen, jobVars
    <2>2. life.session + 1 \in Nat
      BY <1>0 DEF LifeType
    <2>4. ASSUME c = TRUE PROVE Shape(life', opening)
      <3>1. life' = [life EXCEPT !.state = "open", !.session = life.session + 1,
                       !.capture = TRUE, !.abort = FALSE, !.failure = "none",
                       !.waiting = FALSE, !.live = TRUE]
        BY <2>1, <2>4
      <3> QED
        BY <1>0, <2>1, <2>2, <3>1 DEF Shape, LifeType, HasSession
    <2>5. ASSUME c = FALSE PROVE Shape(life', opening)
      <3>1. life' = [life EXCEPT !.state = "opening", !.session = life.session + 1,
                       !.capture = FALSE, !.abort = FALSE, !.failure = "none",
                       !.waiting = TRUE, !.live = TRUE]
        BY <2>1, <2>5
      <3> QED
        BY <1>0, <2>1, <2>2, <3>1 DEF Shape, LifeType, HasSession
    <2>3. Shape(life', opening)
      BY <2>4, <2>5
    <2> QED
      BY <2>1, <2>3 DEF LifeInv, OpeningKnown, PumpHasSession, InPump
  <1> QED
    BY <1>1, <1>2, <1>3, <1>4 DEF Turning

LEMMA LookingKeepsLife ==
  ASSUME LifeInv, Looking
  PROVE  LifeInv'
  <1>1. UNCHANGED opening /\ pc' = "control"
    BY DEF Looking, LookAtSession, LookAtCapture, LookAtNothing, LookFrame
  <1>2. PICK l : /\ Worse(life, l)
                 /\ \/ life' = l /\ UNCHANGED EndVars
                    \/ /\ Terminal(l) /\ opening = "none" /\ ~l.waiting
                       /\ HasSession(life) => snap.retired /\ task.state = "none"
    BY LooksAreWorse DEF Looking
  <1>3. Shape(l, opening)
    BY <1>2, WorseKeepsShape DEF LifeInv
  <1>4. Shape(life', opening)
    BY <1>2, <1>3, TerminalShape
  <1> QED
    BY <1>1, <1>4 DEF LifeInv, OpeningKnown, PumpHasSession, InPump

(* Where the loop gets to, and what it does to the opening, otherwise.     *)
LEMMA OtherPlaces ==
  ASSUME LifeInv, [Next]_vars, ~Turning, ~Looking
  PROVE  /\ pc' \in InPump => pc \in InPump \/ HasSession(life')
         /\ \/ opening' \in {opening, "none"}
            \/ opening = "running" /\ opening' \in {"opened", "refused", "broken"}
  <1> DEFINE Goes == /\ pc' \in InPump => pc \in InPump \/ HasSession(life')
                     /\ \/ opening' \in {opening, "none"}
                        \/ opening = "running" /\ opening' \in {"opened", "refused", "broken"}
  <1>1. CASE NotOpened
    BY <1>1, NotOpenedIsWorse DEF Throw, InPump
  <1>2. CASE Read \/ Jobs
    BY <1>2 DEF Read, Jobs, InPump, jobVars
  <1>3. CASE Status \/ TakeEvent \/ EventsTaken \/ Replies
    BY <1>3 DEF Status, TakeEvent, EventsTaken, Replies, InPump, jobVars, loopVars, Throw
  <1>4. CASE Reconcile \/ ReleaseThrows \/ NextAudio \/ LastStatus
    BY <1>4 DEF Reconcile, ReleaseThrows, NextAudio, LastStatus, InPump, jobVars, loopVars, Throw
  <1>5. CASE Abandon
    BY <1>5 DEF Abandon, LookFrame, InPump
  <1>6. CASE Nothing \/ Refusal \/ Finish \/ Abort
    BY <1>6 DEF Nothing, Refusal, Finish, Abort, Closing, ControlFrame, InPump, jobVars
  <1>7. CASE Manage \/ Record \/ Synthesize \/ Stop \/ Report
    BY <1>7 DEF Manage, Record, Synthesize, Stop, Report, ControlFrame, InPump, jobVars
  <1>8. CASE Input
    BY <1>8 DEF Input, InPump
  <1>9. CASE Around
    <2>1. pc' = pc
      BY <1>9, AroundKeeps DEF AroundKept
    <2>2. OpeningEnds => opening = "running" /\ opening' \in {"opened", "refused", "broken"}
      BY DEF OpeningEnds
    <2>3. ASSUME NEW op \in Ops, Send(op) PROVE opening' = opening
      BY <2>3 DEF Send, jobVars
    <2>4. ASSUME SettingsAnswer \/ SendFrame \/ Strike \/ JobEnds \/ StorageStart \/ StorageEnd
          PROVE  opening' = opening
      BY <2>4 DEF SettingsAnswer, SendFrame, Strike, JobEnds, StorageStart, StorageEnd,
         StorageFrame, jobVars
    <2>5. ASSUME Write \/ WriteFails \/ CoreFinal \/ CoreObserve \/ CoreFinish \/ Generate \/ GenRetire
          PROVE  opening' = opening
      BY <2>5 DEF Write, WriteFails, WriterFrame, CoreFinal, CoreObserve, CoreFinish, Generate,
         GenRetire, CoreFrame, jobVars
    <2>6. ASSUME CoreFence \/ CoreFault \/ CoreRetire \/ ModelStart \/ ModelEnd
          PROVE  opening' = opening
      BY <2>6 DEF CoreFence, CoreFault, CoreRetire, ModelStart, ModelEnd, CoreFrame, jobVars
    <2>7. opening' = opening \/ OpeningEnds
      BY <1>9, <2>3, <2>4, <2>5, <2>6 DEF Around
    <2> QED
      BY <2>1, <2>2, <2>7
  <1>10. CASE UNCHANGED vars
    BY <1>10 DEF vars, loopVars, jobVars
  <1> HIDE DEF Goes
  <1>11. Goes
    BY <1>1, <1>2, <1>3, <1>4, <1>5, <1>6, <1>7, <1>8, <1>9, <1>10
       DEF Next, Loop, Control, Turning, Looking, Goes
  <1> QED
    BY <1>11 DEF Goes

(* Every step keeps the shape of the life.                                 *)
LEMMA NextKeepsLife == LifeInv /\ [Next]_vars => LifeInv'
  <1> SUFFICES ASSUME LifeInv, [Next]_vars PROVE LifeInv'
    OBVIOUS
  <1>1. CASE ~Turning /\ ~Looking
    <2>1. Worse(life, life') /\ Shape(life, opening)
      BY <1>1, OthersAreWorse DEF LifeInv
    <2>2. Shape(life', opening)
      BY <2>1, WorseKeepsShape
    <2>3. \/ opening' \in {opening, "none"}
          \/ opening = "running" /\ opening' \in {"opened", "refused", "broken"}
      BY <1>1, OtherPlaces
    <2>4. Shape(life', opening')
      BY <2>2, <2>3 DEF Shape
    <2>5. pc' \in InPump => HasSession(life')
      BY <1>1, <2>1, OtherPlaces DEF LifeInv, PumpHasSession, Worse
    <2> QED
      BY <2>3, <2>4, <2>5 DEF LifeInv, OpeningKnown, PumpHasSession
  <1> QED
    BY <1>1, TurningKeepsLife, LookingKeepsLife

LEMMA InitLife == Init => LifeInv
  BY TimesAreNatural DEF Init, LifeInv, Shape, LifeType, OpeningKnown, PumpHasSession, InPump, HasSession
----------------------------------------------------------------------------
(* The lines.                                                              *)

(* The process that retires goes on retiring.                              *)
LEMMA QuitStays ==
  ASSUME LifeInv, [Next]_vars
  PROVE  life.quit => life'.quit
  <1>1. CASE Looking
    <2>1. PICK l : /\ Worse(life, l)
                   /\ \/ life' = l /\ UNCHANGED EndVars
                      \/ /\ Terminal(l) /\ opening = "none" /\ ~l.waiting
                         /\ HasSession(life) => snap.retired /\ task.state = "none"
      BY <1>1, LooksAreWorse DEF Looking
    <2>2. Shape(l, opening)
      BY <2>1, WorseKeepsShape DEF LifeInv
    <2>3. l.quit => life'.quit
      BY <2>1, <2>2, TerminalShape
    <2> QED
      BY <2>1, <2>3 DEF Worse
  <1>2. CASE Values \/ Drain \/ \E c \in BOOLEAN : Open(c)
    <2>1. \/ life' = [life EXCEPT !.waiting = FALSE]
          \/ life' = [life EXCEPT !.state = "draining", !.closing = DrainTime(life),
                          !.core = IF life.core = "running" THEN "draining" ELSE life.core]
          \/ \E c \in BOOLEAN :
               life' = [life EXCEPT !.state = IF c THEN "open" ELSE "opening",
                            !.session = life.session + 1, !.capture = c, !.abort = FALSE,
                            !.failure = "none", !.waiting = ~c, !.live = TRUE]
      BY <1>2 DEF Values, Drain, Open
    <2> QED
      BY <2>1 DEF LifeInv, Shape, LifeType
  <1>3. CASE Opened
    <2> DEFINE open == [life EXCEPT !.core = "running", !.state = "open"]
               over == [life EXCEPT !.core = "aborting"]
               l == IF Sound(life) THEN open ELSE over
    <2>1. Onward(l)
      BY <1>3 DEF Opened
    <2>2. l.quit = life.quit
      BY DEF LifeInv, Shape, LifeType
    <2>3. l.failure = life.failure
      BY DEF LifeInv, Shape, LifeType
    <2>4. life' \in {l, FailSession(l)}
      BY <2>1 DEF Onward
    <2>5. Shape(life, opening) /\ opening = "opened"
      BY <1>3 DEF LifeInv, Opened
    <2>6. Shape(l, "none")
      BY <2>5 DEF Shape, LifeType, HasSession, Sound
    <2> HIDE DEF l
    <2>7. Worse(l, l) /\ Worse(l, FailSession(l))
      BY <2>6, FailSessionIsWorse, WorseThanItself DEF Shape
    <2> QED
      BY <2>2, <2>4, <2>7 DEF Worse
  <1> QED
    BY <1>1, <1>2, <1>3, OthersAreWorse DEF Turning, Worse

(* The ids, and the places of a line.                                      *)
LEMMA AskedIsNatural == LineTypes => asked \in 0..MaxRequests /\ asked \in Nat /\ 0 \in 0..asked
  BY CapacityAssumption DEF LineTypes

LEMMA OwedInRange == LineTypes => Owed \subseteq 0..asked
  <1> SUFFICES ASSUME LineTypes PROVE Owed \subseteq 0..asked
    OBVIOUS
  <1>1. AtHand \subseteq 0..asked /\ AtJobs \subseteq 0..asked
    BY DEF LineTypes, AtHand
  <1>2. AtHeld \subseteq 0..asked
    BY DEF LineTypes
  <1>3. AtQueue \subseteq 0..asked
    BY DEF LineTypes, AtQueue
  <1> QED
    BY <1>1, <1>2, <1>3 DEF Owed

(* An answer settles its line; no answer, or an anonymous one, none.       *)
LEMMA Answered ==
  ASSUME LineTypes, AnswersFit, NEW A, A \cap Requests \subseteq Owed, asked' = asked, lost' = lost,
         life.quit => life'.quit, answers' \in [Requests -> Nat],
         \A r \in Requests : answers'[r] = answers[r] + (IF r \in A THEN 1 ELSE 0),
         \A r \in Requests : r \in Owed' <=> r \in Owed /\ r \notin A
  PROVE  AnswersFit'
  <1>1. asked \in 0..MaxRequests /\ answers \in [Requests -> Nat] /\ MaxRequests \in Nat
    BY CapacityAssumption DEF LineTypes
  <1>2. ASSUME NEW r \in Requests
        PROVE  answers'[r] <= 1 /\ (r > asked' \/ r \in Owed' => answers'[r] = 0)
    <2>1. answers[r] \in Nat /\ answers[r] <= 1 /\ (r > asked \/ r \in Owed => answers[r] = 0)
      BY <1>1, <1>2 DEF AnswersFit
    <2>2. r \in A => r \in Owed
      BY <1>2
    <2>3. CASE r \in A
      <3>1. r <= asked
        BY <1>1, <2>2, <2>3, OwedInRange
      <3> QED
        BY <1>1, <1>2, <2>1, <2>2, <2>3, <3>1 DEF Requests
    <2>4. CASE r \notin A
      BY <1>2, <2>1, <2>4
    <2> QED
      BY <2>3, <2>4
  <1>3. ASSUME NEW r \in 1..asked', answers'[r] = 0 PROVE r \in Owed' \cup lost'
    <2>1. r \in Requests /\ r \in 1..asked
      BY <1>1, <1>3 DEF Requests
    <2>2. answers[r] \in Nat
      BY <1>1, <2>1
    <2>3. answers[r] = 0 /\ r \notin A
      BY <1>3, <2>1, <2>2
    <2>4. r \in Owed \cup lost
      BY <2>1, <2>3 DEF AnswersFit
    <2> QED
      BY <2>1, <2>3, <2>4
  <1> QED
    BY <1>2, <1>3 DEF AnswersFit

LEMMA AnswerFacts ==
  ASSUME LineTypes, NEW A, Answer(A)
  PROVE  /\ answers' \in [Requests -> Nat]
         /\ \A r \in Requests : answers'[r] = answers[r] + (IF r \in A THEN 1 ELSE 0)
  <1>1. answers \in [Requests -> Nat]
    BY DEF LineTypes
  <1> QED
    BY <1>1 DEF Answer

LEMMA NoAnswerFacts ==
  ASSUME LineTypes, answers' = answers
  PROVE  /\ answers' \in [Requests -> Nat]
         /\ \A r \in Requests : answers'[r] = answers[r] + (IF r \in {} THEN 1 ELSE 0)
  <1>1. answers \in [Requests -> Nat]
    BY DEF LineTypes
  <1>2. \A r \in Requests : answers[r] \in Nat /\ answers[r] + 0 = answers[r]
    BY <1>1
  <1> QED
    BY <1>1, <1>2

(* Steps that move no line.                                                *)
LinesKept == UNCHANGED <<queue, asked, held, lost>>
LEMMA StillOwed ==
  ASSUME OwedInv, LinesKept, UNCHANGED <<hand, answers>>, life.quit => life'.quit,
         jobs' \in JobsType, jobs'.enroll = jobs.enroll, jobs'.publish = jobs.publish,
         pc' = "input" <=> pc = "input", pc' \in {"read", "exited"} => hand.id = 0
  PROVE  OwedInv'
  <1>1. AtHand' = AtHand /\ AtJobs' = AtJobs /\ AtHeld' = AtHeld /\ AtQueue' = AtQueue
    BY DEF AtHand, AtJobs, AtHeld, AtQueue, LinesKept
  <1>2. LineTypes'
    BY <1>1 DEF OwedInv, LineTypes, LinesKept, ProperSeq
  <1>3. OwedOnce'
    BY <1>1 DEF OwedInv, OwedOnce, LinesKept
  <1>4. AnswersFit'
    BY <1>1 DEF OwedInv, AnswersFit, Owed, LinesKept
  <1> QED
    BY <1>2, <1>3, <1>4 DEF OwedInv, HandIsEmpty

(* A line in hand is done with: answered, or nobody's.                     *)
LEMMA HandAnswered ==
  ASSUME OwedInv, LinesKept, hand' = hand, pc = "control", pc' = "input",
         life.quit => life'.quit, jobs' = jobs,
         \/ Answer({hand.id}) \/ Answer({hand.id} \cap Requests)
         \/ answers' = answers /\ hand.id = 0
  PROVE  OwedInv'
  <1>1. /\ AtHand = {hand.id} /\ AtHand' = {} /\ AtJobs' = AtJobs /\ AtHeld' = AtHeld
        /\ AtQueue' = AtQueue
    BY DEF AtHand, AtJobs, AtHeld, AtQueue, LinesKept
  <1> DEFINE A == {hand.id} \cap Requests
  <1>2. /\ answers' \in [Requests -> Nat]
        /\ \A r \in Requests : answers'[r] = answers[r] + (IF r \in A THEN 1 ELSE 0)
    <2>1. CASE Answer({hand.id})
      BY <2>1, AnswerFacts DEF OwedInv
    <2>2. CASE Answer({hand.id} \cap Requests)
      BY <2>2, AnswerFacts DEF OwedInv
    <2>3. CASE answers' = answers /\ hand.id = 0
      <3>1. 0 \notin Requests
        BY DEF Requests
      <3> QED
        BY <2>3, <3>1, NoAnswerFacts DEF OwedInv
    <2> QED
      BY <2>1, <2>2, <2>3
  <1>3. LineTypes'
    BY <1>1, <1>2 DEF OwedInv, LineTypes, LinesKept, ProperSeq
  <1>4. OwedOnce'
    BY <1>1 DEF OwedInv, OwedOnce, LinesKept
  <1>5. \A r \in Requests : r \in Owed' <=> r \in Owed /\ r \notin A
    <2>1. \A r \in Requests : r = hand.id => r \notin AtJobs \cup AtHeld \cup AtQueue
      BY <1>1 DEF OwedInv, OwedOnce, Requests
    <2> QED
      BY <1>1, <2>1 DEF Owed
  <1>6. A \cap Requests \subseteq Owed
    BY <1>1 DEF Owed
  <1> HIDE DEF A
  <1>7. AnswersFit'
    BY <1>2, <1>5, <1>6, Answered DEF OwedInv, LinesKept
  <1> QED
    BY <1>3, <1>4, <1>7 DEF OwedInv, HandIsEmpty

(* A line is dropped by a throw.                                           *)
LEMMA HandDropped ==
  ASSUME OwedInv, UNCHANGED <<queue, asked, held, answers, jobs>>, pc # "input",
         lost' = lost \cup ({hand.id} \ {None}), hand' = NoLine, pc' = "read", life'.quit
  PROVE  OwedInv'
  <1>1. /\ AtHand = {hand.id} /\ AtHand' = {0} /\ AtJobs' = AtJobs /\ AtHeld' = AtHeld
        /\ AtQueue' = AtQueue
    BY DEF AtHand, AtJobs, AtHeld, AtQueue, NoLine, None
  <1>2. LineTypes'
    <2>1. hand'.id = 0 /\ hand'.op = "none"
      BY DEF NoLine, None
    <2>2. lost' \subseteq 1..asked
      BY DEF OwedInv, LineTypes, None
    <2> QED
      BY <1>1, <2>1, <2>2 DEF OwedInv, LineTypes, ProperSeq, Anonymous
  <1>3. OwedOnce'
    BY <1>1 DEF OwedInv, OwedOnce
  <1>4. AnswersFit'
    <2>1. 0 \notin Requests /\ \A r \in 1..asked : r # 0
      BY DEF Requests
    <2>2. \A r \in Requests : r \in Owed' => r \in Owed
      BY <1>1, <2>1 DEF Owed
    <2>3. \A r \in 1..asked : r \in Owed \cup lost => r \in Owed' \cup lost'
      BY <1>1, <2>1 DEF Owed, None
    <2> QED
      BY <2>1, <2>2, <2>3 DEF OwedInv, AnswersFit
  <1> QED
    BY <1>2, <1>3, <1>4 DEF OwedInv, HandIsEmpty, NoLine, None

LEMMA ReadOwes ==
  ASSUME OwedInv, Read, life.quit => life'.quit
  PROVE  OwedInv'
  <1>0. /\ pc = "read" /\ pc' = "jobs" /\ hand.id = 0 /\ ProperSeq(queue)
        /\ UNCHANGED <<asked, held, lost, jobs, answers>>
    BY DEF Read, OwedInv, HandIsEmpty, jobVars, replyVars, LineTypes
  <1>1. CASE queue = <<>>
    <2>1. hand' = NoLine /\ queue' = queue
      BY <1>1 DEF Read
    <2>2. /\ AtHand = {0} /\ AtHand' = {0} /\ AtJobs' = AtJobs /\ AtHeld' = AtHeld
          /\ AtQueue' = AtQueue
      BY <1>0, <2>1 DEF AtHand, AtJobs, AtHeld, AtQueue, NoLine, None
    <2>3. hand'.id = 0 /\ hand'.op = "none"
      BY <2>1 DEF NoLine, None
    <2>4. LineTypes'
      BY <1>0, <2>1, <2>2, <2>3 DEF OwedInv, LineTypes, ProperSeq, Anonymous
    <2>5. OwedOnce'
      BY <1>0, <2>1, <2>2 DEF OwedInv, OwedOnce
    <2>6. AnswersFit'
      BY <1>0, <2>2 DEF OwedInv, AnswersFit, Owed
    <2> QED
      BY <1>0, <2>4, <2>5, <2>6 DEF OwedInv, HandIsEmpty
  <1>2. CASE queue # <<>>
    <2>1. hand' = queue[1] /\ queue' = Tail(queue) /\ 1 \in DOMAIN queue
          /\ DOMAIN queue' = 1..Len(queue) - 1 /\ DOMAIN queue = 1..Len(queue)
          /\ Len(queue) \in Nat
          /\ ProperSeq(queue') /\ \A i \in DOMAIN queue' : queue'[i] = queue[i + 1]
      BY <1>0, <1>2, TailFacts DEF Read
    <2>2. \A i \in DOMAIN queue' : i + 1 \in DOMAIN queue /\ i + 1 > 1
      BY <2>1
    <2>3. \A i \in DOMAIN queue' : queue'[i].id = 0 /\ queue'[i].op \in Anonymous
      BY <2>1, <2>2 DEF OwedInv, LineTypes
    <2>4. \A i \in DOMAIN queue : i = 1 \/ queue[i].id = 0
      BY <2>1 DEF OwedInv, LineTypes
    <2>5. /\ AtHand = {0} /\ AtHand' = {queue[1].id} /\ AtJobs' = AtJobs /\ AtHeld' = AtHeld
          /\ AtQueue' \subseteq {0} /\ AtQueue \subseteq {queue[1].id, 0} /\ queue[1].id \in AtQueue
      BY <1>0, <2>1, <2>3, <2>4 DEF AtHand, AtJobs, AtHeld, AtQueue
    <2>6. LineTypes'
      <3>1. hand'.id \in 0..asked /\ (hand'.id = 0 <=> hand'.op \in Anonymous)
        BY <2>1 DEF OwedInv, LineTypes
      <3>2. \A i \in DOMAIN queue' :
         /\ queue'[i].id \in 0..asked
         /\ queue'[i].id = 0 <=> queue'[i].op \in Anonymous
         /\ i > 1 => queue'[i].id = 0
        BY <2>3 DEF OwedInv, LineTypes
      <3>3. ProperSeq(held)
        BY DEF OwedInv, LineTypes
      <3>4. ProperSeq(held)'
        BY <1>0, <3>3 DEF ProperSeq
      <3>5. ProperSeq(queue)'
        BY <2>1 DEF ProperSeq
      <3> QED
        BY <1>0, <2>1, <2>5, <3>1, <3>2, <3>4, <3>5 DEF OwedInv, LineTypes
    <2>7. OwedOnce'
      <3>1. 0 \notin AtHeld
        BY DEF OwedInv, LineTypes
      <3>2. AtHand' \cap (AtJobs' \cup AtHeld' \cup AtQueue') \subseteq {0}
        <4> DEFINE q == queue[1].id
        <4>1. (q \in AtJobs => q = 0) /\ q \notin AtHeld
          BY <2>5 DEF OwedInv, OwedOnce
        <4> HIDE DEF q
        <4>2. AtHand' = {q} /\ AtJobs' = AtJobs /\ AtHeld' = AtHeld /\ AtQueue' \subseteq {0}
          BY <2>5 DEF q
        <4> QED
          BY <4>1, <4>2
      <3>3. AtJobs' \cap (AtHeld' \cup AtQueue') \subseteq {0} /\ AtHeld' \cap AtQueue' = {}
        BY <2>5, <3>1 DEF OwedInv, OwedOnce
      <3> QED
        BY <1>0, <2>5, <3>1, <3>2, <3>3 DEF OwedInv, OwedOnce
    <2>8. \A r \in Requests : r \in Owed' <=> r \in Owed
      <3>1. 0 \notin Requests
        BY DEF Requests
      <3> QED
        BY <2>5, <3>1 DEF Owed
    <2>9. AnswersFit'
      <3>1. asked \in 0..MaxRequests /\ MaxRequests \in Nat
        BY CapacityAssumption DEF OwedInv, LineTypes
      <3>2. \A r \in 1..asked : r \in Requests
        BY <3>1 DEF Requests
      <3> QED
        BY <1>0, <2>8, <3>2 DEF OwedInv, AnswersFit
    <2> QED
      BY <1>0, <2>6, <2>7, <2>9 DEF OwedInv, HandIsEmpty
  <1> QED
    BY <1>1, <1>2
(* Futures are answered when they end.                                     *)
LEMMA JobsOwe ==
  ASSUME OwedInv, Jobs, life.quit => life'.quit
  PROVE  OwedInv'
  <1> DEFINE A == {jobs[j] : j \in ready \cap {"enroll", "publish"}}
  <1>1. /\ pc = "jobs" /\ pc' = "opening" /\ Answer(A)
        /\ jobs' = [enroll |-> IF "enroll" \in ready THEN None ELSE jobs.enroll,
                    publish |-> IF "publish" \in ready THEN None ELSE jobs.publish,
                    capture |-> jobs.capture /\ ready \cap {"kept", "broken"} = {},
                    uses |-> jobs.uses /\ "enroll" \notin ready]
        /\ LinesKept /\ hand' = hand
    BY DEF Jobs, replyVars, LinesKept
  <1>2. /\ jobs \in JobsType /\ jobs.enroll \in 0..asked /\ jobs.publish \in 0..asked
        /\ (jobs.enroll = jobs.publish => jobs.enroll = 0)
    BY DEF OwedInv, LineTypes, OwedOnce, AtJobs
  <1>3. \A r : r \in A <=> \/ r = jobs.enroll /\ "enroll" \in ready
                           \/ r = jobs.publish /\ "publish" \in ready
    BY <1>2 DEF JobsType
  <1>4. jobs'.enroll = (IF "enroll" \in ready THEN 0 ELSE jobs.enroll)
        /\ jobs'.publish = (IF "publish" \in ready THEN 0 ELSE jobs.publish)
        /\ jobs' \in JobsType
    BY <1>1, <1>2 DEF JobsType, None
  <1>5. /\ AtHand' = AtHand /\ AtHeld' = AtHeld /\ AtQueue' = AtQueue
    BY <1>1 DEF AtHand, AtHeld, AtQueue, LinesKept
  <1>6. AtJobs' \subseteq AtJobs \cup {0}
    BY <1>4 DEF AtJobs
  <1>7. answers' \in [Requests -> Nat]
        /\ \A r \in Requests : answers'[r] = answers[r] + (IF r \in A THEN 1 ELSE 0)
    BY <1>1, AnswerFacts DEF OwedInv
  <1> HIDE DEF A
  <1>8. LineTypes'
    <2>1. 0 \in 0..asked
      BY AskedIsNatural DEF OwedInv
    <2>2. ProperSeq(queue)' /\ ProperSeq(held)'
      BY <1>1 DEF OwedInv, LineTypes, LinesKept, ProperSeq
    <2> QED
      BY <1>1, <1>4, <1>5, <1>6, <1>7, <2>1, <2>2 DEF OwedInv, LineTypes, LinesKept
  <1>9. OwedOnce'
    <2>1. 0 \notin AtHeld
      BY DEF OwedInv, LineTypes
    <2>2. jobs'.enroll = jobs'.publish => jobs'.enroll = 0
      BY <1>2, <1>4
    <2>3. held' = held
      BY <1>1 DEF LinesKept
    <2>4. AtHand' \cap (AtJobs' \cup AtHeld' \cup AtQueue') \subseteq {0}
      BY <1>5, <1>6 DEF OwedInv, OwedOnce
    <2>5. AtJobs' \cap (AtHeld' \cup AtQueue') \subseteq {0} /\ AtHeld' \cap AtQueue' = {}
      BY <1>5, <1>6, <2>1 DEF OwedInv, OwedOnce
    <2> QED
      BY <2>2, <2>3, <2>4, <2>5 DEF OwedInv, OwedOnce
  <1>10. \A r \in Requests : r \in Owed' <=> r \in Owed /\ r \notin A
    <2>1. ASSUME NEW r \in Requests PROVE r # 0
      BY DEF Requests
    <2>2. ASSUME NEW r \in Requests, r \in AtJobs PROVE r \notin AtHand \cup AtHeld \cup AtQueue
      BY <2>1, <2>2 DEF OwedInv, OwedOnce
    <2>3. ASSUME NEW r \in Requests PROVE r \in AtJobs' <=> r \in AtJobs /\ r \notin A
      BY <1>2, <1>3, <1>4, <2>1 DEF AtJobs
    <2>4. ASSUME NEW r \in Requests, r \in A PROVE r \in AtJobs
      BY <1>3, <2>4 DEF AtJobs
    <2> QED
      BY <1>5, <2>2, <2>3, <2>4 DEF Owed
  <1>11. A \cap Requests \subseteq Owed
    BY <1>3 DEF Owed, AtJobs
  <1>12. AnswersFit'
    BY <1>1, <1>7, <1>10, <1>11, Answered DEF OwedInv, LinesKept
  <1> QED
    BY <1>1, <1>8, <1>9, <1>12 DEF OwedInv, HandIsEmpty

(* A report that was held back is judged.                                  *)
LEMMA ReconcileOwes ==
  ASSUME OwedInv, Reconcile, life.quit => life'.quit
  PROVE  OwedInv'
  <1>1. /\ pc = "reconcile" /\ held # <<>> /\ Answer({Head(held).id}) /\ held' = Tail(held)
        /\ UNCHANGED <<pc, hand, queue, asked, lost, jobs>>
    BY DEF Reconcile, MayReconcile, JudgeReport, loopVars, jobVars
  <1>2. /\ ProperSeq(held') /\ Len(held) \in Nat \ {0} /\ Head(held) = held[1]
        /\ DOMAIN held = 1..Len(held) /\ DOMAIN held' = 1..Len(held) - 1
        /\ \A i \in 1..Len(held) - 1 : held'[i] = held[i + 1]
    BY <1>1, TailFacts DEF OwedInv, LineTypes
  <1> DEFINE q == held[1].id
  <1>3. \A r : r \in AtHeld' => r \in AtHeld /\ r # q
    <2>1. ASSUME NEW i \in 1..Len(held) - 1 PROVE held'[i].id \in AtHeld /\ held'[i].id # q
      <3>1. i + 1 \in DOMAIN held /\ 1 \in DOMAIN held /\ i + 1 # 1 /\ held'[i] = held[i + 1]
        BY <1>2
      <3> QED
        BY <3>1 DEF AtHeld, OwedInv, OwedOnce
    <2> QED
      BY <1>2, <2>1 DEF AtHeld
  <1>4. \A r : r \in AtHeld /\ r # q => r \in AtHeld'
    <2>1. ASSUME NEW i \in 1..Len(held), held[i].id # q PROVE held[i].id \in AtHeld'
      <3>1. i # 1
        BY <2>1
      <3>2. i - 1 \in 1..Len(held) - 1 /\ (i - 1) + 1 = i
        BY <1>2, <3>1
      <3>3. held'[i - 1] = held[i] /\ i - 1 \in DOMAIN held'
        BY <1>2, <3>2
      <3> QED
        BY <3>3 DEF AtHeld
    <2> QED
      BY <1>2, <2>1 DEF AtHeld
  <1>5. q \in AtHeld
    BY <1>2 DEF AtHeld
  <1>6. \A i, j \in DOMAIN held' : held'[i].id = held'[j].id => i = j
    <2>1. ASSUME NEW i \in DOMAIN held', NEW j \in DOMAIN held', held'[i].id = held'[j].id
          PROVE  i = j
      <3>1. i + 1 \in DOMAIN held /\ j + 1 \in DOMAIN held
            /\ held'[i] = held[i + 1] /\ held'[j] = held[j + 1] /\ i \in Int /\ j \in Int
        BY <1>2
      <3>2. i + 1 = j + 1
        BY <2>1, <3>1 DEF OwedInv, OwedOnce
      <3> QED
        BY <3>1, <3>2
    <2> QED
      BY <2>1
  <1>7. Answer({q})
    BY <1>1, <1>2
  <1>8. answers' \in [Requests -> Nat]
        /\ \A r \in Requests : answers'[r] = answers[r] + (IF r \in {q} THEN 1 ELSE 0)
    BY <1>7, AnswerFacts DEF OwedInv
  <1> HIDE DEF q
  <1>9. AtHand' = AtHand /\ AtJobs' = AtJobs /\ AtQueue' = AtQueue
    BY <1>1 DEF AtHand, AtJobs, AtQueue
  <1>10. LineTypes'
    <2>1. AtHeld' \subseteq 1..asked
      BY <1>3 DEF OwedInv, LineTypes
    <2>2. ProperSeq(queue)' /\ ProperSeq(held)'
      BY <1>1, <1>2 DEF OwedInv, LineTypes, ProperSeq
    <2> QED
      BY <1>1, <1>8, <1>9, <2>1, <2>2 DEF OwedInv, LineTypes
  <1>11. OwedOnce'
    BY <1>1, <1>3, <1>6, <1>9 DEF OwedInv, OwedOnce
  <1>12. \A r \in Requests : r \in Owed' <=> r \in Owed /\ r \notin {q}
    <2>1. q # 0 /\ q \notin AtHand \cup AtJobs \cup AtQueue
      BY <1>5 DEF OwedInv, OwedOnce, LineTypes
    <2> QED
      BY <1>3, <1>4, <1>9, <2>1 DEF Owed
  <1>13. {q} \cap Requests \subseteq Owed
    BY <1>5 DEF Owed
  <1>14. AnswersFit'
    BY <1>1, <1>8, <1>12, <1>13, Answered DEF OwedInv
  <1> QED
    BY <1>1, <1>10, <1>11, <1>14 DEF OwedInv, HandIsEmpty

(* A future takes the line over.                                           *)
LEMMA StartedOwes ==
  ASSUME OwedInv, Manage \/ Record, life.quit => life'.quit
  PROVE  OwedInv'
  <1>1. /\ pc = "control" /\ pc' = "input" /\ jobs = NoJobs /\ hand' = hand /\ answers' = answers
        /\ hand.op \in {"manage", "record"} /\ LinesKept
        /\ \/ jobs' = [jobs EXCEPT !.enroll = hand.id, !.uses = HasSession(life)]
           \/ jobs' = [jobs EXCEPT !.publish = hand.id]
    BY DEF Manage, Record, Taken, MayManage, MayRecord, ControlFrame, Held0, LinesKept
  <1>2. hand.id \in 1..asked
    BY <1>1 DEF OwedInv, LineTypes, Anonymous
  <1>3. /\ jobs' \in JobsType /\ AtJobs = {0} /\ AtJobs' = {0, hand.id}
        /\ jobs'.enroll # jobs'.publish
    <2>1. NoJobs \in JobsType /\ NoJobs.enroll = 0 /\ NoJobs.publish = 0
      BY DEF NoJobs, JobsType, None
    <2>2. HasSession(life) \in BOOLEAN
      BY DEF HasSession
    <2>3. hand.id \in Nat /\ hand.id # 0
      BY <1>2
    <2>4. \/ jobs'.enroll = hand.id /\ jobs'.publish = 0
          \/ jobs'.enroll = 0 /\ jobs'.publish = hand.id
      BY <1>1, <2>1 DEF JobsType
    <2>5. jobs' \in JobsType
      BY <1>1, <2>1, <2>2, <2>3 DEF JobsType
    <2> QED
      BY <1>1, <2>1, <2>3, <2>4, <2>5 DEF AtJobs
  <1>4. AtHand = {hand.id} /\ AtHand' = {} /\ AtHeld' = AtHeld /\ AtQueue' = AtQueue
    BY <1>1 DEF AtHand, AtHeld, AtQueue, LinesKept
  <1>5. LineTypes'
    <2>1. AtJobs' \subseteq 0..asked
      BY <1>2, <1>3, AskedIsNatural DEF OwedInv
    <2>2. ProperSeq(queue)' /\ ProperSeq(held)'
      BY <1>1 DEF OwedInv, LineTypes, LinesKept, ProperSeq
    <2> QED
      BY <1>1, <1>3, <1>4, <2>1, <2>2 DEF OwedInv, LineTypes, LinesKept
  <1>6. OwedOnce'
    <2>1. AtHeld \cap {0} = {}
      BY DEF OwedInv, LineTypes
    <2>2. held' = held
      BY <1>1 DEF LinesKept
    <2>3. AtJobs' \cap (AtHeld' \cup AtQueue') \subseteq {0}
      BY <1>3, <1>4, <2>1 DEF OwedInv, OwedOnce
    <2> QED
      BY <1>3, <1>4, <2>2, <2>3 DEF OwedInv, OwedOnce
  <1>7. Owed' = Owed
    BY <1>3, <1>4 DEF Owed
  <1>8. AnswersFit'
    BY <1>1, <1>7 DEF OwedInv, AnswersFit, LinesKept
  <1> QED
    BY <1>1, <1>5, <1>6, <1>8 DEF OwedInv, HandIsEmpty

(* A report is held back.                                                  *)
LEMMA HeldBackOwes ==
  ASSUME OwedInv, pc = "control", pc' = "input", hand.op = "report",
         UNCHANGED <<queue, asked, lost, jobs, hand, answers>>, held' = Append(held, hand),
         life.quit => life'.quit
  PROVE  OwedInv'
  <1>1. hand.id \in 1..asked /\ ProperSeq(held)
    BY DEF OwedInv, LineTypes, Anonymous
  <1>2. /\ ProperSeq(held') /\ Len(held) \in Nat /\ DOMAIN held = 1..Len(held)
        /\ DOMAIN held' = 1..Len(held) + 1 /\ held'[Len(held) + 1] = hand
        /\ \A i \in 1..Len(held) : held'[i] = held[i]
    BY <1>1, AppendFacts
  <1>3. /\ AtHand = {hand.id} /\ AtHand' = {} /\ AtJobs' = AtJobs /\ AtQueue' = AtQueue
    BY DEF AtHand, AtJobs, AtQueue
  <1>4. AtHeld' = AtHeld \cup {hand.id}
    BY <1>2 DEF AtHeld
  <1>5. hand.id \notin AtHeld \cup AtJobs \cup AtQueue
    BY <1>1, <1>3 DEF OwedInv, OwedOnce
  <1>6. LineTypes'
    <2>1. AtHeld' \subseteq 1..asked
      BY <1>1, <1>4 DEF OwedInv, LineTypes
    <2>2. ProperSeq(queue)' /\ ProperSeq(held)'
      BY <1>2 DEF OwedInv, LineTypes, ProperSeq
    <2> QED
      BY <1>3, <2>1, <2>2 DEF OwedInv, LineTypes
  <1>7. \A i, j \in DOMAIN held' : held'[i].id = held'[j].id => i = j
    <2>1. \A i \in 1..Len(held) : held'[i].id \in AtHeld
      BY <1>2 DEF AtHeld
    <2>2. ASSUME NEW i \in 1..Len(held) + 1, NEW j \in 1..Len(held) + 1, held'[i].id = held'[j].id
          PROVE  i = j
      <3>1. CASE i \in 1..Len(held) /\ j \in 1..Len(held)
        BY <1>2, <2>2, <3>1 DEF OwedInv, OwedOnce
      <3>2. CASE i = Len(held) + 1 /\ j \in 1..Len(held)
        BY <1>2, <1>5, <2>1, <2>2, <3>2
      <3>3. CASE i \in 1..Len(held) /\ j = Len(held) + 1
        BY <1>2, <1>5, <2>1, <2>2, <3>3
      <3> QED
        BY <1>2, <3>1, <3>2, <3>3
    <2> QED
      BY <1>2, <2>2
  <1>8. OwedOnce'
    BY <1>3, <1>4, <1>5, <1>7 DEF OwedInv, OwedOnce
  <1>9. Owed' = Owed
    BY <1>3, <1>4 DEF Owed
  <1>10. AnswersFit'
    BY <1>9 DEF OwedInv, AnswersFit
  <1> QED
    BY <1>6, <1>8, <1>10 DEF OwedInv, HandIsEmpty

(* A new line of the carrier.                                              *)
LEMMA SendOwes ==
  ASSUME OwedInv, ReplyInv, NEW op \in Ops, Send(op), life.quit => life'.quit
  PROVE  OwedInv'
  <1>1. /\ pc = "read" /\ queue = <<>> /\ asked < Len(script.ops) /\ asked' = asked + 1
        /\ UNCHANGED <<pc, hand, lost, answers, held, jobs>>
    BY DEF Send, AroundFrame, loopVars, jobVars
  <1>2. PICK e : queue' = Append(<<>>, e) /\ e.id = asked + 1 /\ e.op \in Ops
    <2>1. Line(op).id = asked + 1 /\ Line(op).op = op
      BY DEF Line, NoLine
    <2>2. \A r \in Reports : r.id = asked + 1 /\ r.op = "report"
      <3>1. \A n, t : ReportOf(n, t).id = asked + 1 /\ ReportOf(n, t).op = "report"
        BY DEF ReportOf, Line, NoLine
      <3>2. \A r \in Reports : \E n, t : r = ReportOf(n, t)
        BY DEF Reports
      <3> QED
        BY <3>1, <3>2
    <2>3. "report" \in Ops
      BY DEF Ops
    <2> QED
      BY <1>1, <2>1, <2>2, <2>3 DEF Send
  <1>3. asked \in Nat /\ asked + 1 \in 0..MaxRequests /\ MaxRequests \in Nat
    <2>1. asked \in 0..MaxRequests /\ script \in Scripts /\ MaxRequests \in Nat
      BY CapacityAssumption DEF OwedInv, LineTypes, ReplyInv
    <2>2. Len(script.ops) \in 0..MaxRequests
      BY <2>1, ScriptsAssumption
    <2> QED
      BY <1>1, <2>1, <2>2
  <1>4. queue' = <<e>> /\ DOMAIN queue' = {1} /\ queue'[1] = e /\ DOMAIN queue = {}
    BY <1>1, <1>2
  <1>5. /\ AtHand' = AtHand /\ AtJobs' = AtJobs /\ AtHeld' = AtHeld
        /\ AtQueue = {} /\ AtQueue' = {asked + 1}
    BY <1>1, <1>2, <1>4 DEF AtHand, AtJobs, AtHeld, AtQueue
  <1>6. LineTypes'
    <2>1. ProperSeq(queue)' /\ ProperSeq(held)'
      BY <1>1, <1>4 DEF OwedInv, LineTypes, ProperSeq
    <2>2. e.op \notin Anonymous /\ e.id # 0
      BY <1>2, <1>3 DEF Ops, Anonymous
    <2>3. \A n : (n \in 0..asked => n \in 0..asked') /\ (n \in 1..asked => n \in 1..asked')
      BY <1>1, <1>3
    <2>4. answers' \in [Requests -> Nat] /\ lost' \subseteq 1..asked' /\ jobs' \in JobsType
          /\ AtJobs' \subseteq 0..asked' /\ AtHeld' \subseteq 1..asked'
      BY <1>1, <1>5, <2>3 DEF OwedInv, LineTypes
    <2>5. hand'.id \in 0..asked' /\ (hand'.id = 0 <=> hand'.op \in Anonymous)
      BY <1>1, <2>3 DEF OwedInv, LineTypes
    <2>6. \A i \in DOMAIN queue' :
         /\ queue'[i].id \in 0..asked'
         /\ queue'[i].id = 0 <=> queue'[i].op \in Anonymous
         /\ i > 1 => queue'[i].id = 0
      BY <1>1, <1>2, <1>3, <1>4, <2>2
    <2> QED
      BY <1>1, <1>3, <2>1, <2>4, <2>5, <2>6 DEF LineTypes
  <1>7. asked + 1 \notin AtHand \cup AtJobs \cup AtHeld
    <2>1. Owed \subseteq 0..asked
      BY OwedInRange DEF OwedInv
    <2> QED
      BY <1>3, <2>1 DEF Owed
  <1>8. OwedOnce'
    BY <1>1, <1>5, <1>7 DEF OwedInv, OwedOnce
  <1>9. AnswersFit'
    <2>1. asked + 1 \in Requests /\ answers[asked + 1] = 0
      BY <1>3 DEF OwedInv, AnswersFit, Requests
    <2>2. Owed' = Owed \cup {asked + 1}
      BY <1>5 DEF Owed
    <2>3. \A r \in Requests : r > asked' => r > asked
      BY <1>1, <1>3 DEF Requests
    <2>4. \A r \in 1..asked' : r \in 1..asked \/ r = asked + 1
      BY <1>1, <1>3
    <2> QED
      BY <1>1, <2>1, <2>2, <2>3, <2>4 DEF OwedInv, AnswersFit
  <1> QED
    BY <1>1, <1>6, <1>8, <1>9 DEF OwedInv, HandIsEmpty

LEMMA SettingsOwe ==
  ASSUME OwedInv, SettingsAnswer, life.quit => life'.quit
  PROVE  OwedInv'
  <1>1. /\ pc = "read" /\ UNCHANGED <<pc, hand, lost, answers, held, jobs, asked>>
    BY DEF SettingsAnswer, AroundFrame, loopVars, jobVars
  <1>2. PICK e : queue' = Append(queue, e) /\ e.id = 0 /\ e.op \in Anonymous
    <2>1. PICK s \in asking, op \in {"values", "refusal"} :
            queue' = Append(queue, [NoLine EXCEPT !.op = op, !.session = s])
      BY DEF SettingsAnswer
    <2>2. [NoLine EXCEPT !.op = op, !.session = s].id = 0
          /\ [NoLine EXCEPT !.op = op, !.session = s].op = op
      BY DEF NoLine, None
    <2> QED
      BY <2>1, <2>2 DEF Anonymous
  <1>3. /\ ProperSeq(queue') /\ Len(queue) \in Nat /\ DOMAIN queue = 1..Len(queue)
        /\ DOMAIN queue' = 1..Len(queue) + 1 /\ queue'[Len(queue) + 1] = e
        /\ \A i \in 1..Len(queue) : queue'[i] = queue[i]
    BY <1>2, AppendFacts DEF OwedInv, LineTypes
  <1>4. /\ AtHand' = AtHand /\ AtJobs' = AtJobs /\ AtHeld' = AtHeld
    BY <1>1 DEF AtHand, AtJobs, AtHeld
  <1>5. AtQueue' = AtQueue \cup {0}
    BY <1>2, <1>3 DEF AtQueue
  <1>6. asked \in Nat /\ 0 \notin AtHeld
    BY CapacityAssumption DEF OwedInv, LineTypes
  <1>7. LineTypes'
    <2>1. ProperSeq(queue)' /\ ProperSeq(held)'
      BY <1>1, <1>3 DEF OwedInv, LineTypes, ProperSeq
    <2>2. \A i \in DOMAIN queue' :
         /\ queue'[i].id \in 0..asked
         /\ queue'[i].id = 0 <=> queue'[i].op \in Anonymous
         /\ i > 1 => queue'[i].id = 0
      BY <1>2, <1>3, <1>6 DEF OwedInv, LineTypes
    <2> QED
      BY <1>1, <1>4, <2>1, <2>2 DEF OwedInv, LineTypes
  <1>8. OwedOnce'
    BY <1>1, <1>4, <1>5, <1>6 DEF OwedInv, OwedOnce
  <1>9. AnswersFit'
    <2>1. Owed' = Owed \cup {0} /\ 0 \notin Requests
      BY <1>4, <1>5 DEF Owed, Requests
    <2> QED
      BY <1>1, <2>1 DEF OwedInv, AnswersFit
  <1> QED
    BY <1>1, <1>7, <1>8, <1>9 DEF OwedInv, HandIsEmpty

(* The end of a pass.                                                      *)
LEMMA InputOwes ==
  ASSUME OwedInv, Input, life.quit => life'.quit
  PROVE  OwedInv'
  <1>1. /\ pc = "input" /\ pc' \in {"exited", "abandoned", "read"} /\ hand' = NoLine
        /\ LinesKept /\ answers' = answers
        /\ (jobs' = [jobs EXCEPT !.capture = TRUE] \/ jobs' = jobs)
    BY DEF Input, LinesKept, lineVars, replyVars
  <1>2. /\ jobs' \in JobsType /\ jobs'.enroll = jobs.enroll /\ jobs'.publish = jobs.publish
    BY <1>1 DEF OwedInv, LineTypes, JobsType
  <1>3. hand'.id = 0 /\ hand'.op \in Anonymous
    BY <1>1 DEF NoLine, None, Anonymous
  <1>4. /\ AtHand = {} /\ AtHand' = {0} /\ AtJobs' = AtJobs /\ AtHeld' = AtHeld /\ AtQueue' = AtQueue
    BY <1>1, <1>2, <1>3 DEF AtHand, AtJobs, AtHeld, AtQueue, LinesKept
  <1>5. LineTypes'
    <2>1. ProperSeq(queue)' /\ ProperSeq(held)'
      BY <1>1 DEF OwedInv, LineTypes, LinesKept, ProperSeq
    <2>2. 0 \in 0..asked
      BY CapacityAssumption DEF OwedInv, LineTypes
    <2> QED
      BY <1>1, <1>2, <1>3, <1>4, <2>1, <2>2 DEF OwedInv, LineTypes, LinesKept
  <1>6. OwedOnce'
    BY <1>1, <1>2, <1>4 DEF OwedInv, OwedOnce, LinesKept
  <1>7. AnswersFit'
    <2>1. Owed' = Owed \cup {0} /\ 0 \notin Requests
      BY <1>4 DEF Owed, Requests
    <2> QED
      BY <1>1, <2>1 DEF OwedInv, AnswersFit, LinesKept
  <1> QED
    BY <1>3, <1>5, <1>6, <1>7 DEF OwedInv, HandIsEmpty

(* Steps that move no line, and answer none.                               *)
LEMMA NoLineMoves ==
  ASSUME OwedInv, LinesKept, UNCHANGED <<hand, answers, jobs>>, life.quit => life'.quit,
         pc' = pc \/ (pc # "input" /\ pc' \notin {"input", "read", "exited"})
  PROVE  OwedInv'
  <1>1. jobs' \in JobsType /\ jobs'.enroll = jobs.enroll /\ jobs'.publish = jobs.publish
    BY DEF OwedInv, LineTypes
  <1>2. pc' = "input" <=> pc = "input"
    OBVIOUS
  <1>3. pc' \in {"read", "exited"} => hand.id = 0
    BY DEF OwedInv, HandIsEmpty
  <1> QED
    BY <1>1, <1>2, <1>3, StillOwed

(* What happens around the loop, but for the carrier's lines.              *)
Elsewhere ==
    \/ SendFrame \/ Strike
    \/ OpeningEnds \/ JobEnds \/ StorageStart \/ StorageEnd \/ Write \/ WriteFails
    \/ CoreFinal \/ CoreObserve \/ CoreFinish \/ Generate \/ GenRetire \/ CoreFence
    \/ CoreFault \/ CoreRetire \/ ModelStart \/ ModelEnd
LEMMA ElsewhereKeepsLines ==
  ASSUME Elsewhere
  PROVE  UNCHANGED <<queue, asked, jobs, host>>
  <1>1. ASSUME SendFrame \/ Strike \/ OpeningEnds \/ JobEnds
        PROVE  UNCHANGED <<queue, asked, jobs, host>>
    BY <1>1 DEF SendFrame, Strike, OpeningEnds, JobEnds, JobFrame, lineVars, jobVars
  <1>2. ASSUME StorageStart \/ StorageEnd \/ Write \/ WriteFails
        PROVE  UNCHANGED <<queue, asked, jobs, host>>
    BY <1>2 DEF StorageStart, StorageEnd, StorageFrame, Write, WriteFails, WriterFrame,
       lineVars, jobVars
  <1>3. ASSUME CoreFinal \/ CoreObserve \/ CoreFinish \/ Generate \/ GenRetire
        PROVE  UNCHANGED <<queue, asked, jobs, host>>
    BY <1>3 DEF CoreFinal, CoreObserve, CoreFinish, Generate, GenRetire, CoreFrame,
       lineVars, jobVars
  <1>4. ASSUME CoreFence \/ CoreFault \/ CoreRetire \/ ModelStart \/ ModelEnd
        PROVE  UNCHANGED <<queue, asked, jobs, host>>
    BY <1>4 DEF CoreFence, CoreFault, CoreRetire, ModelStart, ModelEnd, CoreFrame,
       lineVars, jobVars
  <1> QED
    BY <1>1, <1>2, <1>3, <1>4 DEF Elsewhere

LEMMA ThrowOwes ==
  ASSUME LifeInv, OwedInv, Throw(life), UNCHANGED <<queue, asked, held, answers, jobs>>,
         pc # "input"
  PROVE  OwedInv'
  <1>1. life'.quit
    BY ThrowIsWorse
  <1> QED
    BY <1>1, HandDropped DEF Throw

(* Every step leaves each line at one place.                               *)
LEMMA NextKeepsOwed ==
  ASSUME LifeInv, OwedInv, ReplyInv, [Next]_vars
  PROVE  OwedInv'
  <1>0. life.quit => life'.quit
    BY QuitStays
  <1>1. CASE Read \/ Jobs \/ Input
    BY <1>0, <1>1, ReadOwes, JobsOwe, InputOwes
  <1>2. CASE Opened
    BY <1>0, <1>2, NoLineMoves DEF Opened, Onward, LinesKept, lineVars, replyVars
  <1>3. CASE NotOpened
    <2>1. UNCHANGED <<queue, asked, held, answers, jobs>> /\ pc = "opening"
      BY <1>3 DEF NotOpened, lineVars, replyVars
    <2>2. \/ Throw(life)
          \/ UNCHANGED <<hand, lost>> /\ pc' \in {"look", "status"}
      BY <1>3, NotOpenedIsWorse
    <2>3. CASE Throw(life)
      BY <2>1, <2>3, ThrowOwes
    <2>4. CASE UNCHANGED <<hand, lost>> /\ pc' \in {"look", "status"}
      BY <1>0, <2>1, <2>4, NoLineMoves DEF LinesKept
    <2> QED
      BY <2>2, <2>3, <2>4
  <1>4. CASE Status \/ EventsTaken \/ Replies \/ NextAudio \/ LastStatus
    <2>1. LinesKept /\ UNCHANGED <<hand, answers, jobs>>
      BY <1>4 DEF Status, EventsTaken, Replies, NextAudio, LastStatus, LinesKept, lineVars,
         replyVars, jobVars
    <2>2. pc # "input" /\ pc' \notin {"input", "read", "exited"}
      BY <1>4 DEF Status, EventsTaken, Replies, NextAudio, LastStatus
    <2> QED
      BY <1>0, <2>1, <2>2, NoLineMoves
  <1>5. CASE TakeEvent
    <2>1. UNCHANGED <<queue, asked, held, answers, jobs>> /\ pc = "events"
      BY <1>5 DEF TakeEvent, lineVars, jobVars
    <2>2. Throw(life) \/ UNCHANGED <<life, loopVars>>
      BY <1>5 DEF TakeEvent
    <2>3. CASE Throw(life)
      BY <2>1, <2>3, ThrowOwes
    <2>4. CASE UNCHANGED <<life, loopVars>>
      BY <1>0, <2>1, <2>4, NoLineMoves DEF LinesKept, loopVars
    <2> QED
      BY <2>2, <2>3, <2>4
  <1>6. CASE ReleaseThrows
    <2>1. UNCHANGED <<queue, asked, held, answers, jobs>> /\ pc = "reconcile" /\ Throw(life)
      BY <1>6 DEF ReleaseThrows, lineVars, jobVars, replyVars
    <2> QED
      BY <2>1, ThrowOwes
  <1>7. CASE Reconcile
    BY <1>0, <1>7, ReconcileOwes
  <1>8. CASE Abandon \/ LookAtSession \/ LookAtCapture \/ LookAtNothing
    <2>1. LinesKept /\ UNCHANGED <<hand, answers, jobs>>
      BY <1>8 DEF Abandon, LookAtSession, LookAtCapture, LookAtNothing, LookFrame, LinesKept,
         lineVars, replyVars
    <2>2. pc = "look" /\ pc' \in {"abandoned", "control"}
      BY <1>8 DEF Abandon, LookAtSession, LookAtCapture, LookAtNothing
    <2> QED
      BY <1>0, <2>1, <2>2, NoLineMoves
  <1>9. CASE Nothing \/ Finish \/ Abort \/ Synthesize \/ Stop
    <2>1. LinesKept /\ UNCHANGED <<hand, jobs>> /\ pc = "control" /\ pc' = "input"
      BY <1>9 DEF Nothing, Finish, Abort, Synthesize, Stop, Closing, ControlFrame, Taken, Held0,
         LinesKept, jobVars
    <2>2. Answer({hand.id}) \/ Answer({hand.id} \cap Requests)
      BY <1>9 DEF Nothing, Finish, Abort, Synthesize, Stop, Closing
    <2> QED
      BY <1>0, <2>1, <2>2, HandAnswered
  <1>10. CASE Values \/ Refusal
    <2>1. LinesKept /\ UNCHANGED <<hand, jobs, answers>> /\ pc = "control" /\ pc' = "input"
      BY <1>10 DEF Values, Refusal, ControlFrame, Taken, Held0, LinesKept, jobVars
    <2>2. hand.op \in {"values", "refusal"}
      BY <1>10 DEF Values, Refusal, Taken
    <2>3. hand.id = 0
      BY <2>2 DEF OwedInv, LineTypes, Anonymous
    <2> QED
      BY <1>0, <2>1, <2>3, HandAnswered
  <1>11. CASE Drain \/ \E c \in BOOLEAN : Open(c)
    <2>1. LinesKept /\ UNCHANGED <<hand, jobs>> /\ pc = "control" /\ pc' = "input"
      BY <1>11 DEF Drain, Open, Closing, Taken, Held0, LinesKept, jobVars
    <2>2. Answer({hand.id})
      BY <1>11 DEF Drain, Open, Closing
    <2> QED
      BY <1>0, <2>1, <2>2, HandAnswered
  <1>12. CASE Manage \/ Record
    BY <1>0, <1>12, StartedOwes
  <1>13. CASE Report
    <2>1. /\ UNCHANGED <<queue, asked, lost, hand, jobs>> /\ pc = "control" /\ pc' = "input"
          /\ hand.op = "report"
      BY <1>13 DEF Report, ControlFrame, Taken, jobVars
    <2>2. \/ held' = held /\ Answer({hand.id})
          \/ held' = Append(held, hand) /\ UNCHANGED answers
      BY <1>13 DEF Report, JudgeReport
    <2>3. CASE held' = held /\ Answer({hand.id})
      BY <1>0, <2>1, <2>3, HandAnswered DEF LinesKept
    <2>4. CASE held' = Append(held, hand) /\ UNCHANGED answers
      BY <1>0, <2>1, <2>4, HeldBackOwes
    <2> QED
      BY <2>2, <2>3, <2>4
  <1>14. CASE (\E op \in Ops : Send(op)) \/ SettingsAnswer
    BY <1>0, <1>14, SendOwes, SettingsOwe
  <1>15. CASE Elsewhere
    <2>1. AroundKept
      BY <1>15, AroundKeeps DEF Around, Elsewhere
    <2>2. UNCHANGED <<queue, asked, jobs, hand, answers, lost, held, pc>>
      BY <1>15, <2>1, ElsewhereKeepsLines DEF AroundKept
    <2> QED
      BY <1>0, <2>2, NoLineMoves DEF LinesKept
  <1>16. CASE UNCHANGED vars
    <2>1. UNCHANGED <<queue, asked, jobs, hand, answers, lost, held, pc>>
      BY <1>16 DEF vars, loopVars, lineVars, jobVars, replyVars
    <2> QED
      BY <1>0, <2>1, NoLineMoves DEF LinesKept
  <1> QED
    BY <1>1, <1>2, <1>3, <1>4, <1>5, <1>6, <1>7, <1>8, <1>9, <1>10, <1>11, <1>12, <1>13,
       <1>14, <1>15, <1>16 DEF Next, Loop, Control, Around, Elsewhere

(* No line at the start.                                                   *)
LEMMA InitOwed == Init => OwedInv
  <1> SUFFICES ASSUME Init PROVE OwedInv
    OBVIOUS
  <1>1. /\ asked = 0 /\ queue = <<>> /\ held = <<>> /\ lost = {} /\ jobs = NoJobs /\ hand = NoLine
        /\ pc = "read" /\ answers = [r \in Requests |-> 0]
    BY DEF Init
  <1>2. AtHand = {0} /\ AtJobs = {0} /\ AtHeld = {} /\ AtQueue = {}
    BY <1>1 DEF AtHand, AtJobs, AtHeld, AtQueue, NoLine, NoJobs, None
  <1>3. LineTypes
    <2>1. ProperSeq(queue) /\ ProperSeq(held)
      BY <1>1 DEF ProperSeq
    <2>2. jobs \in JobsType
      BY <1>1 DEF JobsType, NoJobs, None
    <2>3. hand.id = 0 /\ hand.op = "none"
      BY <1>1 DEF NoLine, None
    <2> QED
      BY <1>1, <1>2, <2>1, <2>2, <2>3, CapacityAssumption DEF LineTypes, Anonymous
  <1>4. OwedOnce
    BY <1>1, <1>2 DEF OwedOnce, NoJobs, None
  <1>5. AnswersFit
    <2>1. 0 \notin Requests /\ 1..asked = {}
      BY <1>1 DEF Requests
    <2> QED
      BY <1>1, <1>2, <2>1 DEF AnswersFit, Owed
  <1> QED
    BY <1>1, <1>3, <1>4, <1>5 DEF OwedInv, HandIsEmpty, NoLine, None
----------------------------------------------------------------------------
(* The audio of the reply.                                                 *)

(* What the worker and the engine note of a reply beside its audio.        *)
NoteOf(r, s) ==
    /\ IsReply(s) /\ s.made = r.made /\ s.given = r.given /\ s.delivered = r.delivered
    /\ s.state = "none" => r.state = "none"
LEMMA NotesFit ==
  ASSUME ReplyInv, NoteOf(reply, reply'), task' = task, script' = script
  PROVE  ReplyInv'
  BY DEF ReplyInv, AudioFits, NoteOf

LEMMA CutFits ==
  ASSUME ReplyInv
  PROVE  /\ IsReply(CutReply(reply)) /\ CutReply(reply).state = reply.state
         /\ CutReply(reply).given = reply.given /\ CutReply(reply).delivered = reply.delivered
         /\ CutReply(reply).made \in {reply.made, reply.given}
  BY DEF ReplyInv, AudioFits, CutReply, IsReply

(* The steps that move audio keep it within what was made.                 *)
LEMMA StatusFits == ASSUME ReplyInv, Status PROVE ReplyInv'
  <1>1. script' = script
    BY DEF Status
  <1>2. CASE task.state \in {"done", "failed"}
    <2>1. /\ reply' = [reply EXCEPT !.ended = @ \/ task.endWritten,
                                    !.delivered = @ + task.written]
          /\ task' = NoTask
      BY <1>2 DEF Status
    <2>2. /\ IsReply(reply') /\ reply'.made = reply.made /\ reply'.given = reply.given
          /\ reply'.delivered = reply.delivered + task.written
      BY <2>1 DEF ReplyInv, AudioFits, IsReply
    <2>3. IsTask(NoTask) /\ NoTask.frames = 0 /\ NoTask.written = 0 /\ NoTask.state = "none"
      BY DEF NoTask, IsTask
    <2> QED
      BY <1>1, <2>1, <2>2, <2>3 DEF ReplyInv, AudioFits
  <1>3. CASE task.state \notin {"done", "failed"}
    <2>1. reply' = reply /\ task' = task
      BY <1>3 DEF Status
    <2> QED
      BY <1>1, <2>1 DEF ReplyInv, AudioFits
  <1> QED
    BY <1>2, <1>3

LEMMA NextAudioFits == ASSUME ReplyInv, NextAudio PROVE ReplyInv'
  <1> DEFINE r == IF Settled(reply) THEN [reply EXCEPT !.state = "settled"] ELSE reply
             may == task.state = "none" /\ Sound(life) /\ r.state = "live" /\ ~engine.error
  <1>1. script' = script
    BY DEF NextAudio
  <1>2. NoteOf(reply, r)
    BY DEF ReplyInv, AudioFits, IsReply, NoteOf, Settled
  <1>3. \/ /\ may /\ r.made > r.given
           /\ \E n \in 1..(r.made - r.given) :
                /\ task' = [NoTask EXCEPT !.state = "queued", !.frames = n]
                /\ reply' = [r EXCEPT !.given = @ + n]
        \/ /\ may
           /\ task' = [NoTask EXCEPT !.state = "queued", !.end = TRUE]
           /\ reply' = [r EXCEPT !.endGiven = TRUE]
        \/ reply' = r /\ task' = task
    BY DEF NextAudio
  <1>4. AudioFits(r, task)
    BY <1>2 DEF ReplyInv, AudioFits, NoteOf
  <1>5. may => task = NoTask /\ r.state = "live"
    BY <1>4 DEF AudioFits
  <1> HIDE DEF r, may
  <1>6. CASE reply' = r /\ task' = task
    BY <1>1, <1>4, <1>6 DEF ReplyInv, AudioFits
  <1>7. CASE /\ may
             /\ task' = [NoTask EXCEPT !.state = "queued", !.end = TRUE]
             /\ reply' = [r EXCEPT !.endGiven = TRUE]
    <2>1. /\ IsReply(reply') /\ reply'.made = r.made /\ reply'.given = r.given
          /\ reply'.delivered = r.delivered /\ reply'.state = r.state
      BY <1>4, <1>7 DEF AudioFits, IsReply
    <2>2. task.frames = 0
      BY <1>5, <1>7 DEF NoTask
    <2>3. task' = [state |-> "queued", frames |-> 0, end |-> TRUE, written |-> 0,
                   endWritten |-> FALSE]
      BY <1>7 DEF NoTask
    <2>4. IsTask(task') /\ task'.frames = 0 /\ task'.written = 0 /\ task'.state = "queued"
      BY <2>3 DEF IsTask
    <2> QED
      BY <1>1, <1>4, <1>5, <1>7, <2>1, <2>2, <2>4 DEF ReplyInv, AudioFits
  <1>8. ASSUME may, r.made > r.given, NEW n \in 1..(r.made - r.given),
               task' = [NoTask EXCEPT !.state = "queued", !.frames = n],
               reply' = [r EXCEPT !.given = @ + n]
        PROVE  ReplyInv'
    <2>1. /\ IsReply(reply') /\ reply'.made = r.made /\ reply'.given = r.given + n
          /\ reply'.delivered = r.delivered /\ reply'.state = r.state
      BY <1>4, <1>8 DEF AudioFits, IsReply
    <2>2. task.frames = 0
      BY <1>5, <1>8 DEF NoTask
    <2>4. task' = [state |-> "queued", frames |-> n, end |-> FALSE, written |-> 0,
                   endWritten |-> FALSE]
      BY <1>8 DEF NoTask
    <2>5. IsTask(task') /\ task'.frames = n /\ task'.written = 0 /\ task'.state = "queued"
      BY <2>4 DEF IsTask
    <2>3. r.made \in Nat /\ r.given \in Nat /\ r.delivered \in Nat /\ r.delivered <= r.given
          /\ n \in Nat /\ r.given + n <= r.made
      BY <1>4, <1>8, <2>2 DEF AudioFits
    <2>6. reply'.made \in Nat /\ reply'.given \in Nat /\ reply'.delivered \in Nat
          /\ reply'.delivered + n <= reply'.given
          /\ reply'.given <= reply'.made /\ reply'.made <= script.frames
      BY <1>4, <2>1, <2>2, <2>3 DEF AudioFits
    <2>7. AudioFits(reply', task')
      BY <1>5, <1>8, <2>1, <2>3, <2>5, <2>6 DEF AudioFits
    <2> QED
      BY <1>1, <2>7 DEF ReplyInv, AudioFits
  <1> QED
    BY <1>3, <1>6, <1>7, <1>8

LEMMA NewReplyFits ==
  ASSUME ReplyInv, task' = task, script' = script, task.state = "none",
         reply' \in {NoReply, [NoReply EXCEPT !.state = "live"]}
  PROVE  ReplyInv'
  <1>1. task' = NoTask /\ IsTask(NoTask) /\ NoTask.frames = 0 /\ NoTask.written = 0
        /\ NoTask.state = "none"
    BY DEF ReplyInv, AudioFits, NoTask, IsTask
  <1>2. IsReply(reply') /\ reply'.made = 0 /\ reply'.given = 0 /\ reply'.delivered = 0
    BY DEF NoReply, IsReply
  <1>3. script.frames \in Nat
    BY ScriptsAssumption DEF ReplyInv
  <1> QED
    BY <1>1, <1>2, <1>3 DEF ReplyInv, AudioFits

LEMMA WritesFit == ASSUME ReplyInv, Write \/ WriteFails PROVE ReplyInv'
  <1>1. reply' = reply /\ script' = script
    BY DEF Write, WriteFails, WriterFrame, AroundFrame
  <1>2. task.state = "queued"
    BY DEF Write, WriteFails
  <1>3. \/ task' = [task EXCEPT !.state = "done"]
        \/ task' = [task EXCEPT !.endWritten = TRUE]
        \/ task' = [task EXCEPT !.written = @ + 1] /\ task.written < task.frames
        \/ task' = [task EXCEPT !.state = "failed"]
    BY DEF Write, WriteFails, Unwritten
  <1>4. /\ IsTask(task') /\ task'.frames = task.frames
        /\ \/ task'.written = task.written
           \/ task'.written = task.written + 1 /\ task.written < task.frames
        /\ task'.state # "none"
    BY <1>2, <1>3 DEF ReplyInv, AudioFits, IsTask
  <1> QED
    BY <1>1, <1>2, <1>4 DEF ReplyInv, AudioFits

LEMMA GenerateFits == ASSUME ReplyInv, Generate PROVE ReplyInv'
  <1>1. task' = task /\ script' = script /\ reply.made < script.frames
        /\ reply' = [reply EXCEPT !.made = @ + 1]
    BY DEF Generate, CoreFrame, AroundFrame
  <1>2. script.frames \in Nat
    BY ScriptsAssumption DEF ReplyInv
  <1>3. /\ IsReply(reply') /\ reply'.made = reply.made + 1 /\ reply'.given = reply.given
        /\ reply'.delivered = reply.delivered /\ reply'.state = reply.state
    BY <1>1 DEF ReplyInv, AudioFits, IsReply
  <1> QED
    BY <1>1, <1>2, <1>3 DEF ReplyInv, AudioFits

LEMMA CutKeepsFit ==
  ASSUME ReplyInv, task' = task, script' = script, reply.state = "live",
         \/ reply' = CutReply(reply)
         \/ reply' = [CutReply(reply) EXCEPT !.fenced = TRUE]
  PROVE  ReplyInv'
  <1> DEFINE c == CutReply(reply)
  <1>1. /\ IsReply(c) /\ c.state = "live" /\ c.given = reply.given
        /\ c.delivered = reply.delivered /\ c.made \in {reply.made, reply.given}
    BY CutFits
  <1> HIDE DEF c
  <1>2. reply' = c \/ reply' = [c EXCEPT !.fenced = TRUE]
    BY DEF c
  <1>3. /\ IsReply(reply') /\ reply'.state = "live" /\ reply'.given = reply.given
        /\ reply'.delivered = reply.delivered /\ reply'.made \in {reply.made, reply.given}
    BY <1>1, <1>2 DEF IsReply
  <1>4. AudioFits(reply, task) /\ script \in Scripts
    BY DEF ReplyInv
  <1>5. reply'.made \in Nat /\ reply'.given <= reply'.made /\ reply'.made <= script.frames
    <2>1. script.frames \in Nat
      BY <1>4, ScriptsAssumption
    <2> QED
      BY <1>3, <1>4, <2>1 DEF AudioFits
  <1>6. AudioFits(reply', task)
    BY <1>3, <1>4, <1>5 DEF AudioFits
  <1> QED
    BY <1>4, <1>6 DEF ReplyInv, AudioFits

LEMMA NotesOfReply ==
  ASSUME ReplyInv,
         \/ reply' = reply
         \/ \E s, f : reply' = [reply EXCEPT !.eventSeen = s, !.fenced = f]
         \/ \E m, r, f, e : reply' = [reply EXCEPT !.madeSeen = m, !.retiredSeen = r,
                                        !.fenced = f, !.endSaid = e]
         \/ \E n, t : reply' = [reply EXCEPT !.rendered = n, !.receipt = t]
         \/ reply' = [reply EXCEPT !.retired = TRUE]
  PROVE  NoteOf(reply, reply')
  BY DEF ReplyInv, AudioFits, IsReply, NoteOf

(* The steps that leave both as they are, but for a note of the reply.     *)
LEMMA NotedSteps ==
  ASSUME ReplyInv, [Next]_vars,
         ~(Status \/ NextAudio \/ Synthesize \/ Stop \/ Write \/ WriteFails \/ Generate
           \/ CoreFence \/ \E c \in BOOLEAN : Open(c))
  PROVE  /\ task' = task /\ script' = script /\ NoteOf(reply, reply')
  <1> DEFINE Same == UNCHANGED <<task, script, reply>>
             Noted == UNCHANGED <<task, script>> /\ NoteOf(reply, reply')
  <1>0. Same => Noted
    BY NotesOfReply
  <1>1. ASSUME Read \/ Jobs \/ Opened \/ NotOpened \/ EventsTaken \/ ReleaseThrows \/ LastStatus
        PROVE  Same
    BY <1>1 DEF Read, Jobs, Opened, NotOpened, EventsTaken, ReleaseThrows, LastStatus, replyVars
  <1>2. ASSUME Abandon \/ LookAtSession \/ LookAtCapture \/ LookAtNothing \/ Input PROVE Same
    BY <1>2 DEF Abandon, LookAtSession, LookAtCapture, LookAtNothing, LookFrame, Input, replyVars
  <1>3. ASSUME Nothing \/ Values \/ Refusal \/ Finish \/ Drain \/ Abort PROVE Same
    BY <1>3 DEF Nothing, Values, Refusal, Finish, Drain, Abort, Closing, ControlFrame
  <1>4. ASSUME Manage \/ Record PROVE Same
    BY <1>4 DEF Manage, Record, ControlFrame
  <1>5. ASSUME NEW r, JudgeReport(r), task' = task, script' = script PROVE Noted
    <2>1. reply' = reply \/ \E n, t : reply' = [reply EXCEPT !.rendered = n, !.receipt = t]
      BY <1>5 DEF JudgeReport
    <2> QED
      BY <1>5, <2>1, NotesOfReply
  <1>6. ASSUME Reconcile PROVE Noted
    BY <1>5, <1>6 DEF Reconcile
  <1>7. ASSUME Report PROVE Noted
    <2>1. task' = task /\ script' = script
      BY <1>7 DEF Report, ControlFrame
    <2>2. JudgeReport(hand) \/ reply' = reply
      BY <1>7 DEF Report
    <2> QED
      BY <1>0, <1>5, <2>1, <2>2
  <1>8. ASSUME TakeEvent PROVE Noted
    <2>1. task' = task /\ script' = script
      BY <1>8 DEF TakeEvent
    <2>2. \E s, f : reply' = [reply EXCEPT !.eventSeen = s, !.fenced = f]
      BY <1>8 DEF TakeEvent
    <2> QED
      BY <2>1, <2>2, NotesOfReply
  <1>9. ASSUME Replies PROVE Noted
    <2>1. task' = task /\ script' = script
      BY <1>9 DEF Replies
    <2>2. \E m, r, f, e : reply' = [reply EXCEPT !.madeSeen = m, !.retiredSeen = r,
                                        !.fenced = f, !.endSaid = e]
      BY <1>9 DEF Replies
    <2> QED
      BY <2>1, <2>2, NotesOfReply
  <1>10. ASSUME NEW op \in Ops, Send(op) PROVE Same
    BY <1>10 DEF Send, AroundFrame
  <1>11. ASSUME SettingsAnswer \/ SendFrame \/ Strike \/ OpeningEnds \/ JobEnds PROVE Same
    BY <1>11 DEF SettingsAnswer, SendFrame, Strike, OpeningEnds, JobEnds, JobFrame, AroundFrame
  <1>12. ASSUME StorageStart \/ StorageEnd \/ CoreFinal \/ CoreObserve \/ CoreFinish PROVE Same
    BY <1>12 DEF StorageStart, StorageEnd, StorageFrame, CoreFinal, CoreObserve, CoreFinish,
       CoreFrame, AroundFrame
  <1>13. ASSUME CoreFault \/ CoreRetire \/ ModelStart \/ ModelEnd PROVE Same
    BY <1>13 DEF CoreFault, CoreRetire, ModelStart, ModelEnd, CoreFrame, AroundFrame
  <1>14. ASSUME GenRetire PROVE Noted
    <2>1. task' = task /\ script' = script /\ reply' = [reply EXCEPT !.retired = TRUE]
      BY <1>14 DEF GenRetire, CoreFrame, AroundFrame
    <2> QED
      BY <2>1, NotesOfReply
  <1>15. ASSUME UNCHANGED vars PROVE Same
    BY <1>15 DEF vars, replyVars
  <1> HIDE DEF Same, Noted
  <1>16. Noted
    BY <1>0, <1>1, <1>2, <1>3, <1>4, <1>6, <1>7, <1>8, <1>9, <1>10, <1>11, <1>12, <1>13, <1>14,
       <1>15 DEF Next, Loop, Control, Around
  <1> QED
    BY <1>16 DEF Noted

(* Every step keeps the audio of the reply within bounds.                  *)
LEMMA NextKeepsReply ==
  ASSUME LifeInv, HeldInv, ReplyInv, [Next]_vars
  PROVE  ReplyInv'
  <1>1. CASE \E c \in BOOLEAN : Open(c)
    <2>1. ~HasSession(life) /\ reply' = NoReply /\ task' = task /\ script' = script
      BY <1>1 DEF Open, MayOpen
    <2>2. task.state = "none"
      BY <2>1 DEF HeldInv
    <2> QED
      BY <2>1, <2>2, NewReplyFits
  <1>2. CASE Synthesize
    <2>1. /\ reply.state = "none" /\ reply' = [NoReply EXCEPT !.state = "live"]
          /\ task' = task /\ script' = script
      BY <1>2 DEF Synthesize, MayReply, ControlFrame
    <2>2. task.state = "none"
      BY <2>1 DEF ReplyInv, AudioFits
    <2> QED
      BY <2>1, <2>2, NewReplyFits
  <1>3. CASE Stop
    <2>1. task' = task /\ script' = script
      BY <1>3 DEF Stop, ControlFrame
    <2>2. \/ reply.state = "live" /\ reply' = [CutReply(reply) EXCEPT !.fenced = TRUE]
          \/ reply' = reply
      BY <1>3 DEF Stop
    <2>3. CASE reply' = reply
      BY <2>1, <2>3, NotesOfReply, NotesFit
    <2> QED
      BY <2>1, <2>2, <2>3, CutKeepsFit
  <1>4. CASE CoreFence
    <2>1. task' = task /\ script' = script /\ reply.state = "live" /\ reply' = CutReply(reply)
      BY <1>4 DEF CoreFence, CoreFrame, AroundFrame
    <2> QED
      BY <2>1, CutKeepsFit
  <1>5. CASE ~(Status \/ NextAudio \/ Synthesize \/ Stop \/ Write \/ WriteFails \/ Generate
               \/ CoreFence \/ \E c \in BOOLEAN : Open(c))
    BY <1>5, NotedSteps, NotesFit
  <1> QED
    BY <1>1, <1>2, <1>3, <1>4, <1>5, StatusFits, NextAudioFits, WritesFit, GenerateFits

LEMMA InitReply == Init => ReplyInv
  <1> SUFFICES ASSUME Init PROVE ReplyInv
    OBVIOUS
  <1>1. script \in Scripts /\ reply = NoReply /\ task = NoTask
    BY DEF Init
  <1>2. script.frames \in Nat
    BY <1>1, ScriptsAssumption
  <1>3. IsReply(NoReply) /\ NoReply.made = 0 /\ NoReply.given = 0 /\ NoReply.delivered = 0
    BY DEF NoReply, IsReply
  <1>4. IsTask(NoTask) /\ NoTask.frames = 0 /\ NoTask.written = 0 /\ NoTask.state = "none"
    BY DEF NoTask, IsTask
  <1> QED
    BY <1>1, <1>2, <1>3, <1>4 DEF ReplyInv, AudioFits
----------------------------------------------------------------------------
(* What is held back.                                                      *)
Late == {"last", "look", "control", "input"}

LEMMA HeldSteps ==
  ASSUME [Next]_vars, ~(Reconcile \/ Report) PROVE held' = held
  <1>1. ASSUME Read \/ Jobs \/ Opened \/ NotOpened \/ Status \/ TakeEvent \/ EventsTaken PROVE held' = held
    BY <1>1 DEF Read, Jobs, Opened, NotOpened, Status, TakeEvent, EventsTaken, replyVars
  <1>2. ASSUME Replies \/ ReleaseThrows \/ NextAudio \/ LastStatus \/ Input PROVE held' = held
    BY <1>2 DEF Replies, ReleaseThrows, NextAudio, LastStatus, Input, replyVars
  <1>3. ASSUME Abandon \/ LookAtSession \/ LookAtCapture \/ LookAtNothing PROVE held' = held
    BY <1>3 DEF Abandon, LookAtSession, LookAtCapture, LookAtNothing, LookFrame, replyVars
  <1>4. ASSUME Nothing \/ Values \/ Refusal \/ Finish \/ Drain \/ Abort PROVE held' = held
    BY <1>4 DEF Nothing, Values, Refusal, Finish, Drain, Abort, Closing, Held0
  <1>5. ASSUME Manage \/ Record \/ Synthesize \/ Stop \/ \E c \in BOOLEAN : Open(c) PROVE held' = held
    BY <1>5 DEF Manage, Record, Synthesize, Stop, Open, Held0
  <1>6. ASSUME Around PROVE held' = held
    BY <1>6, AroundKeeps DEF AroundKept
  <1>7. ASSUME UNCHANGED vars PROVE held' = held
    BY <1>7 DEF vars, replyVars
  <1> QED
    BY <1>1, <1>2, <1>3, <1>4, <1>5, <1>6, <1>7 DEF Next, Loop, Control

LEMMA JobsAround == ASSUME Around PROVE jobs' = jobs
  <1>1. ASSUME NEW op \in Ops, Send(op) PROVE jobs' = jobs
    BY <1>1 DEF Send, jobVars
  <1>2. ASSUME SettingsAnswer PROVE jobs' = jobs
    BY <1>2 DEF SettingsAnswer, jobVars
  <1> QED
    BY <1>1, <1>2, ElsewhereKeepsLines DEF Around, Elsewhere

(* A pass gets to its end by the last status, or past it.                  *)
LEMMA LatePlaces ==
  ASSUME [Next]_vars, ~(Opened \/ NotOpened \/ NextAudio \/ Input)
  PROVE  /\ pc' \in Late => pc \in Late
         /\ pc' = "exited" => pc = "exited" /\ jobs' = jobs
  <1> DEFINE Goes == /\ pc' \in Late => pc \in Late
                     /\ pc' = "exited" => pc = "exited" /\ jobs' = jobs
  <1>1. ASSUME Read \/ Jobs \/ Status \/ TakeEvent \/ EventsTaken \/ Replies PROVE Goes
    BY <1>1 DEF Read, Jobs, Status, TakeEvent, EventsTaken, Replies, Late, loopVars, Throw
  <1>2. ASSUME Reconcile \/ ReleaseThrows \/ LastStatus PROVE Goes
    BY <1>2 DEF Reconcile, ReleaseThrows, LastStatus, Late, loopVars, Throw
  <1>3. ASSUME Abandon \/ LookAtSession \/ LookAtCapture \/ LookAtNothing PROVE Goes
    BY <1>3 DEF Abandon, LookAtSession, LookAtCapture, LookAtNothing, Late
  <1>4. ASSUME Nothing \/ Values \/ Refusal \/ Finish \/ Drain \/ Abort PROVE Goes
    BY <1>4 DEF Nothing, Values, Refusal, Finish, Drain, Abort, ControlFrame, Taken, Late
  <1>5. ASSUME Manage \/ Record \/ Synthesize \/ Stop \/ Report \/ \E c \in BOOLEAN : Open(c)
        PROVE  Goes
    BY <1>5 DEF Manage, Record, Synthesize, Stop, Report, Open, ControlFrame, Taken, Late
  <1>6. ASSUME Around PROVE Goes
    BY <1>6, AroundKeeps, JobsAround DEF AroundKept
  <1>7. ASSUME UNCHANGED vars PROVE Goes
    BY <1>7 DEF vars, loopVars, jobVars
  <1> HIDE DEF Goes
  <1>8. Goes
    BY <1>1, <1>2, <1>3, <1>4, <1>5, <1>6, <1>7 DEF Next, Loop, Control
  <1> QED
    BY <1>8 DEF Goes

(* A session with a write or a held report stays.                          *)
LEMMA SessionStays ==
  ASSUME LifeInv, HeldInv, [Next]_vars, held # <<>> \/ task.state # "none"
  PROVE  HasSession(life) /\ HasSession(life')
  <1>1. HasSession(life)
    BY DEF HeldInv
  <1>2. CASE Opened
    BY <1>1, <1>2 DEF Opened, LifeInv, Shape
  <1>3. CASE Values \/ Drain \/ \E c \in BOOLEAN : Open(c)
    <2>1. \/ life' = [life EXCEPT !.waiting = FALSE]
          \/ life' = [life EXCEPT !.state = "draining", !.closing = DrainTime(life),
                          !.core = IF life.core = "running" THEN "draining" ELSE life.core]
          \/ ~HasSession(life)
      BY <1>3 DEF Values, Drain, Open, MayOpen
    <2> QED
      BY <1>1, <2>1 DEF LifeInv, Shape, LifeType, HasSession
  <1>4. CASE Looking
    <2>1. PICK l : /\ Worse(life, l)
                   /\ \/ life' = l /\ UNCHANGED EndVars
                      \/ /\ Terminal(l) /\ opening = "none" /\ ~l.waiting
                         /\ HasSession(life) => snap.retired /\ task.state = "none"
      BY <1>4, LooksAreWorse DEF Looking
    <2>2. pc = "look"
      BY <1>4 DEF Looking, LookAtSession, LookAtCapture, LookAtNothing
    <2>3. task.state # "none"
      BY <2>2 DEF HeldInv
    <2> QED
      BY <1>1, <2>1, <2>3 DEF Worse
  <1>5. CASE Worse(life, life')
    BY <1>1, <1>5 DEF Worse
  <1> QED
    BY <1>1, <1>2, <1>3, <1>4, <1>5, OthersAreWorse DEF Turning

LEMMA HeldStays ==
  ASSUME LifeInv, HeldInv, [Next]_vars, held' = held,
         task'.state = "none" <=> task.state = "none",
         pc' \in Late => pc \in Late \/ held = <<>> \/ task.state # "none",
         pc' = "exited" => (pc = "exited" /\ jobs' = jobs) \/ (jobs' = NoJobs /\ held = <<>>)
  PROVE  HeldInv'
  <1>1. (held # <<>> \/ task.state # "none") => HasSession(life')
    BY SessionStays
  <1>2. pc \in Late /\ held # <<>> => task.state # "none"
    BY DEF HeldInv, Late
  <1>3. pc' \in Late /\ held' # <<>> => task'.state # "none"
    BY <1>2
  <1>4. (held' # <<>> => HasSession(life')) /\ (task'.state # "none" => HasSession(life'))
    BY <1>1
  <1>5. Len(held') <= ReportBacklog
    BY DEF HeldInv
  <1>6. pc' = "exited" => jobs' = NoJobs /\ held' = <<>>
    BY DEF HeldInv
  <1> QED
    BY <1>3, <1>4, <1>5, <1>6 DEF HeldInv, Late

LEMMA TaskSteps ==
  ASSUME ReplyInv, [Next]_vars, ~(Status \/ NextAudio)
  PROVE  task'.state = "none" <=> task.state = "none"
  <1>1. CASE Write \/ WriteFails
    <2>1. task.state = "queued"
      BY <1>1 DEF Write, WriteFails
    <2>2. \/ task' = [task EXCEPT !.state = "done"]
          \/ task' = [task EXCEPT !.endWritten = TRUE]
          \/ task' = [task EXCEPT !.written = @ + 1]
          \/ task' = [task EXCEPT !.state = "failed"]
      BY <1>1 DEF Write, WriteFails
    <2> QED
      BY <2>1, <2>2 DEF ReplyInv, AudioFits, IsTask
  <1>2. CASE Synthesize \/ Stop \/ \E c \in BOOLEAN : Open(c)
    BY <1>2 DEF Synthesize, Stop, Open, ControlFrame
  <1>3. CASE Generate \/ CoreFence
    BY <1>3 DEF Generate, CoreFence, CoreFrame
  <1> QED
    BY <1>1, <1>2, <1>3, NotedSteps

LEMMA JudgedFirst ==
  ASSUME LifeInv, OwedInv, HeldInv, ReplyInv, Reconcile, [Next]_vars PROVE HeldInv'
  <1>1. /\ pc' = "reconcile" /\ held # <<>> /\ held' = Tail(held) /\ task' = task
    BY DEF Reconcile, MayReconcile, loopVars
  <1>2. Len(held) \in Nat \ {0} /\ Len(held') = Len(held) - 1
    BY <1>1, TailFacts DEF OwedInv, LineTypes
  <1>3. Len(held') <= ReportBacklog
    <2>1. ReportBacklog \in Nat /\ Len(held) <= ReportBacklog
      BY CapacityAssumption DEF HeldInv
    <2> QED
      BY <1>2, <2>1
  <1>4. HasSession(life')
    BY <1>1, SessionStays
  <1> QED
    BY <1>1, <1>3, <1>4 DEF HeldInv

LEMMA ReportKeepsHeld ==
  ASSUME LifeInv, OwedInv, HeldInv, ReplyInv, Report, [Next]_vars PROVE HeldInv'
  <1>1. pc = "control" /\ pc' = "input" /\ task' = task
    BY DEF Report, ControlFrame, Taken
  <1>2. \/ held' = held
        \/ /\ held' = Append(held, hand) /\ ~BacklogFull
           /\ held # <<>> \/ Unacknowledged(hand)
    BY DEF Report
  <1>3. CASE held' = held
    BY <1>1, <1>3, HeldStays DEF Late
  <1>4. CASE /\ held' = Append(held, hand) /\ ~BacklogFull
             /\ held # <<>> \/ Unacknowledged(hand)
    <2>1. task.state # "none"
      BY <1>1, <1>4 DEF HeldInv, Unacknowledged
    <2>2. Len(held) \in Nat /\ Len(held') = Len(held) + 1
      BY <1>4, AppendFacts DEF OwedInv, LineTypes
    <2>3. Len(held') <= ReportBacklog
      <3>1. ReportBacklog \in Nat /\ ~(Len(held) >= ReportBacklog)
        BY <1>4, CapacityAssumption DEF BacklogFull
      <3> QED
        BY <2>2, <3>1
    <2>4. HasSession(life')
      BY <2>1, SessionStays
    <2> QED
      BY <1>1, <2>1, <2>3, <2>4 DEF HeldInv
  <1> QED
    BY <1>2, <1>3, <1>4

(* Every step keeps a held report to a living session, with a write.       *)
LEMMA NextKeepsHeld ==
  ASSUME LifeInv, OwedInv, HeldInv, ReplyInv, [Next]_vars
  PROVE  HeldInv'
  <1>0. LifeInv'
    BY NextKeepsLife
  <1>1. CASE Reconcile \/ Report
    BY <1>1, JudgedFirst, ReportKeepsHeld
  <1>2. CASE Opened \/ NotOpened
    <2>1. held' = held /\ task' = task /\ ((HasSession(life') <=> HasSession(life)) \/ held = <<>>)
      BY <1>2, NotOpenedIsWorse DEF Opened, NotOpened, replyVars, Worse, LifeInv, Shape, HeldInv
    <2>2. /\ pc' \in {"look", "status", "read"}
          /\ pc' = "look" => life'.capture \/ ~HasSession(life')
      BY <1>2 DEF Opened, NotOpened, Onward, Throw
    <2>3. pc' \in Late => ~HasSession(life')
      BY <1>0, <2>2 DEF Late, LifeInv, Shape
    <2>4. pc' \in Late => held = <<>>
      BY <2>1, <2>3 DEF HeldInv
    <2>5. held' = held /\ task' = task
      BY <1>2 DEF Opened, NotOpened, replyVars
    <2> QED
      BY <2>2, <2>4, <2>5, HeldStays
  <1>3. CASE Status
    <2>1. held' = held /\ pc' = "events" /\ (task' = task \/ task'.state = "none")
      BY <1>3 DEF Status, NoTask
    <2>2. held # <<>> \/ task.state # "none" => HasSession(life')
      BY SessionStays
    <2> QED
      BY <2>1, <2>2 DEF HeldInv
  <1>4. CASE NextAudio
    <2>1. /\ held' = held /\ pc = "reconcile" /\ pc' = "last" /\ life' = life
          /\ held # <<>> => task.state # "none"
      BY <1>4 DEF NextAudio, MayReconcile
    <2>2. task' = task \/ task.state = "none"
      BY <1>4 DEF NextAudio
    <2>3. HasSession(life)
      BY <2>1 DEF LifeInv, PumpHasSession, InPump
    <2> QED
      BY <2>1, <2>2, <2>3 DEF HeldInv
  <1>5. CASE Input
    <2>1. /\ held' = held /\ task' = task /\ pc = "input"
          /\ pc' = "exited" => Settles(ServerLost(AfterFrame))
          /\ life' = After(ServerLost(AfterFrame))
      BY <1>5 DEF Input, replyVars
    <2>2. HasSession(life') <=> HasSession(life)
      BY <1>5, InputIsWorse DEF Worse
    <2>3. HasSession(life') <=> HasSession(ServerLost(AfterFrame))
      <3>1. Shape(life, opening)
        BY DEF LifeInv
      <3>2. AfterFrame \in {life, FailEngine(life), FailSession(life)}
        BY DEF AfterFrame
      <3>3. Shape(AfterFrame, opening)
        BY <3>1, <3>2, FailEngineIsWorse, FailSessionIsWorse, WorseKeepsShape
      <3>4. Shape(ServerLost(AfterFrame), opening)
        BY <3>3, ServerLostIsWorse, WorseKeepsShape
      <3> QED
        BY <2>1, <3>4, AfterIsWorse DEF Worse
    <2>4. pc' = "exited" => jobs' = NoJobs /\ ~HasSession(life)
      BY <2>1, <2>2, <2>3 DEF Settles
    <2>5. pc' = "exited" => jobs' = NoJobs /\ held = <<>>
      BY <2>4 DEF HeldInv
    <2> QED
      BY <2>1, <2>5, HeldStays DEF Late
  <1>6. CASE ~(Reconcile \/ Report \/ Opened \/ NotOpened \/ Status \/ NextAudio \/ Input)
    BY <1>6, HeldSteps, TaskSteps, LatePlaces, HeldStays
  <1> QED
    BY <1>1, <1>2, <1>3, <1>4, <1>5, <1>6

LEMMA InitHeld == Init => HeldInv
  BY CapacityAssumption DEF Init, HeldInv, NoTask
----------------------------------------------------------------------------
(* What a step does to the end of a session.                               *)
Stays(l, m) ==
    /\ HasSession(m) <=> HasSession(l)
    /\ Retired(m) <=> Retired(l)
    /\ Retired(l) => m.state = l.state
    /\ m.session = l.session

LEMMA LifeStays ==
  ASSUME LifeInv, [Next]_vars, ~Opened, ~Looking, ~(\E c \in BOOLEAN : Open(c))
  PROVE  Stays(life, life')
  <1>1. CASE Worse(life, life')
    <2>1. Retired(life') <=> Retired(life)
      BY <1>1, WorseKeepsShape DEF LifeInv
    <2> QED
      BY <1>1, <2>1 DEF Worse, Stays
  <1>2. CASE Values
    <2>1. life' = [life EXCEPT !.waiting = FALSE]
      BY <1>2 DEF Values
    <2> QED
      BY <2>1 DEF LifeInv, Shape, LifeType, Stays, HasSession, Retired
  <1>3. CASE Drain
    <2>1. /\ life' = [life EXCEPT !.state = "draining", !.closing = DrainTime(life),
                          !.core = IF life.core = "running" THEN "draining" ELSE life.core]
          /\ life.state = "open"
      BY <1>3 DEF Drain, MayDrain
    <2> QED
      BY <2>1 DEF LifeInv, Shape, LifeType, Stays, HasSession, Retired
  <1> QED
    BY <1>1, <1>2, <1>3, OthersAreWorse DEF Turning

(* The steps that neither hand over an event nor begin or end a session.   *)
EventSteps ==
    Jobs \/ TakeEvent \/ Stop \/ CoreFence \/ CoreFinal \/ CoreObserve \/ CoreFinish \/ GenRetire
TurningPoints == Opened \/ Looking \/ \E c \in BOOLEAN : Open(c)
EngineKept == engine'.finals = engine.finals /\ engine'.owed = engine.owed /\ IsEngine(engine')
RetiredKept == \/ engine'.retired = engine.retired
               \/ engine'.retired = TRUE /\ storage.owner # "core"

(* What the engine may do: more finals, and retirement for good.           *)
LEMMA EngineSteps ==
  ASSUME IsEngine(engine), [Next]_vars, ~TurningPoints,
         ~(CoreFinal \/ CoreObserve \/ CoreFinish)
  PROVE  EngineKept /\ RetiredKept
  <1> DEFINE Kept == EngineKept /\ RetiredKept
  <1>0. ASSUME engine' = engine PROVE Kept
    BY <1>0 DEF EngineKept, RetiredKept
  <1>1. ASSUME Read \/ Jobs \/ NotOpened \/ Status \/ TakeEvent \/ EventsTaken \/ Replies \/ Reconcile
        PROVE  engine' = engine
    BY <1>1 DEF Read, Jobs, NotOpened, Status, TakeEvent, EventsTaken, Replies, Reconcile,
       engineVars
  <1>2. ASSUME ReleaseThrows \/ NextAudio \/ LastStatus \/ Abandon PROVE engine' = engine
    BY <1>2 DEF ReleaseThrows, NextAudio, LastStatus, Abandon, engineVars, EndVars
  <1>3. ASSUME Nothing \/ Values \/ Refusal \/ Drain \/ Abort \/ Manage \/ Record \/ Synthesize
               \/ Stop \/ Report
        PROVE  engine' = engine
    BY <1>3 DEF Nothing, Values, Refusal, Drain, Abort, Closing, Manage, Record, Synthesize,
       Stop, Report, engineVars
  <1>4. ASSUME Finish \/ Input PROVE Kept
    <2>1. engine' = engine \/ engine' = [engine EXCEPT !.cutoff = TRUE]
      BY <1>4 DEF Finish, Input
    <2> QED
      BY <1>0, <2>1 DEF EngineKept, RetiredKept, IsEngine
  <1>5. ASSUME CoreFault \/ CoreRetire \/ ModelStart \/ ModelEnd PROVE Kept
    <2>1. \/ engine' = [engine EXCEPT !.error = TRUE]
          \/ engine' = [engine EXCEPT !.retired = TRUE] /\ CoreRetire
          \/ engine' = [engine EXCEPT !.busy = TRUE]
          \/ engine' = [engine EXCEPT !.busy = FALSE, !.calls = @ + 1]
      BY <1>5 DEF CoreFault, CoreRetire, ModelStart, ModelEnd
    <2>2. \/ engine' = [engine EXCEPT !.error = TRUE]
          \/ engine' = [engine EXCEPT !.retired = TRUE]
          \/ engine' = [engine EXCEPT !.busy = TRUE]
          \/ engine' = [engine EXCEPT !.busy = FALSE, !.calls = engine.calls + 1]
      BY <2>1
    <2>3. EngineKept
      BY <2>2 DEF EngineKept, IsEngine
    <2>5. CoreRetire => storage.owner # "core"
      BY DEF CoreRetire
    <2>4. RetiredKept
      BY <2>1, <2>5 DEF IsEngine, RetiredKept
    <2> QED
      BY <2>3, <2>4
  <1>6. ASSUME NEW op \in Ops, Send(op) PROVE engine' = engine
    BY <1>6 DEF Send, engineVars
  <1>7. ASSUME SettingsAnswer \/ SendFrame \/ Strike \/ OpeningEnds \/ JobEnds PROVE engine' = engine
    BY <1>7 DEF SettingsAnswer, SendFrame, Strike, OpeningEnds, JobEnds, JobFrame, engineVars
  <1>8. ASSUME StorageStart \/ StorageEnd \/ Write \/ WriteFails PROVE engine' = engine
    BY <1>8 DEF StorageStart, StorageEnd, StorageFrame, Write, WriteFails, WriterFrame, engineVars
  <1>9. ASSUME Generate \/ GenRetire \/ CoreFence PROVE engine' = engine
    BY <1>9 DEF Generate, GenRetire, CoreFence, engineVars
  <1>10. ASSUME UNCHANGED vars PROVE engine' = engine
    BY <1>10 DEF vars, engineVars
  <1> HIDE DEF Kept
  <1>11. Kept
    BY <1>0, <1>1, <1>2, <1>3, <1>4, <1>5, <1>6, <1>7, <1>8, <1>9, <1>10
       DEF Next, Loop, Control, Around, TurningPoints, Looking
  <1> QED
    BY <1>11 DEF Kept

LEMMA QuietSteps ==
  ASSUME [Next]_vars, ~TurningPoints, ~EventSteps
  PROVE  UNCHANGED <<rows, said, events>>
  <1> DEFINE Same == UNCHANGED <<rows, said, events>>
  <1>1. ASSUME Read \/ NotOpened \/ Status \/ EventsTaken \/ Replies \/ Reconcile PROVE Same
    BY <1>1 DEF Read, NotOpened, Status, EventsTaken, Replies, Reconcile, engineVars, finalVars
  <1>2. ASSUME ReleaseThrows \/ NextAudio \/ LastStatus \/ Abandon \/ Input PROVE Same
    BY <1>2 DEF ReleaseThrows, NextAudio, LastStatus, Abandon, Input, engineVars, EndVars, finalVars
  <1>3. ASSUME Nothing \/ Values \/ Refusal \/ Finish \/ Drain \/ Abort PROVE Same
    BY <1>3 DEF Nothing, Values, Refusal, Finish, Drain, Abort, Closing, engineVars, finalVars
  <1>4. ASSUME Manage \/ Record \/ Synthesize \/ Report PROVE Same
    BY <1>4 DEF Manage, Record, Synthesize, Report, engineVars, finalVars
  <1>5. ASSUME NEW op \in Ops, Send(op) PROVE Same
    BY <1>5 DEF Send, AroundFrame, engineVars
  <1>6. ASSUME SettingsAnswer \/ SendFrame \/ Strike \/ OpeningEnds \/ JobEnds PROVE Same
    BY <1>6 DEF SettingsAnswer, SendFrame, Strike, OpeningEnds, JobEnds, JobFrame, AroundFrame,
       engineVars
  <1>7. ASSUME StorageStart \/ StorageEnd \/ Write \/ WriteFails PROVE Same
    BY <1>7 DEF StorageStart, StorageEnd, StorageFrame, Write, WriteFails, WriterFrame, AroundFrame,
       engineVars
  <1>8. ASSUME Generate \/ CoreFault \/ CoreRetire \/ ModelStart \/ ModelEnd PROVE Same
    BY <1>8 DEF Generate, CoreFault, CoreRetire, ModelStart, ModelEnd, CoreFrame, AroundFrame,
       engineVars
  <1>9. ASSUME UNCHANGED vars PROVE Same
    BY <1>9 DEF vars, engineVars, finalVars
  <1> HIDE DEF Same
  <1>10. Same
    BY <1>1, <1>2, <1>3, <1>4, <1>5, <1>6, <1>7, <1>8, <1>9
       DEF Next, Loop, Control, Around, TurningPoints, Looking, EventSteps
  <1> QED
    BY <1>10 DEF Same

LEMMA SessionIsLive == ASSUME LifeInv, HasSession(life) PROVE ~Retired(life)
  BY DEF LifeInv, Shape, Retired

LEMMA FinalsStay ==
  ASSUME FinalsInv, Stays(life, life'), EngineKept, UNCHANGED <<rows, said, events>>
  PROVE  FinalsInv'
  <1>1. FinalTypes'
    BY DEF FinalsInv, FinalTypes, EngineKept, ProperSeq
  <1>2. EventsFit'
    BY DEF FinalsInv, EventsFit, EngineKept, Stays
  <1>3. SaidFits'
    BY DEF FinalsInv, SaidFits, Stays, Retired
  <1> QED
    BY <1>1, <1>2, <1>3 DEF FinalsInv

(* New events of the engine.                                               *)
LEMMA ConcatFacts ==
  ASSUME NEW s, ProperSeq(s), NEW t, ProperSeq(t)
  PROVE  /\ ProperSeq(s \o t) /\ Len(s) \in Nat /\ Len(t) \in Nat
         /\ DOMAIN s = 1..Len(s) /\ DOMAIN t = 1..Len(t)
         /\ DOMAIN (s \o t) = 1..(Len(s) + Len(t))
         /\ \A i \in 1..Len(s) : (s \o t)[i] = s[i]
         /\ \A i \in 1..Len(t) : (s \o t)[Len(s) + i] = t[i]
  <1> DEFINE S == {s[i] : i \in DOMAIN s} \cup {t[i] : i \in DOMAIN t}
             c == s \o t
  <1>1. s \in Seq(S) /\ t \in Seq(S)
    <2>1. s \in Seq({s[i] : i \in DOMAIN s}) /\ t \in Seq({t[i] : i \in DOMAIN t})
      BY DEF ProperSeq
    <2>2. {s[i] : i \in DOMAIN s} \subseteq S /\ {t[i] : i \in DOMAIN t} \subseteq S
      OBVIOUS
    <2> HIDE DEF S
    <2> QED
      BY <2>1, <2>2
  <1> HIDE DEF S
  <1>2. /\ c \in Seq(S) /\ Len(s) \in Nat /\ Len(t) \in Nat /\ Len(c) = Len(s) + Len(t)
        /\ DOMAIN s = 1..Len(s) /\ DOMAIN t = 1..Len(t)
        /\ DOMAIN c = 1..Len(c)
    BY <1>1
  <1>3. \A i \in 1..Len(s) : c[i] = s[i]
    BY <1>1
  <1>4. \A i \in 1..Len(t) : c[Len(s) + i] = t[i]
    BY <1>1
  <1>5. ProperSeq(c)
    <2> HIDE DEF c
    <2>1. c \in Seq({c[i] : i \in DOMAIN c})
      BY <1>2, SeqOfItsRange
    <2> QED
      BY <2>1 DEF ProperSeq
  <1> QED
    BY <1>2, <1>3, <1>4, <1>5 DEF c

LEMMA EventsAdded ==
  ASSUME LifeInv, FinalsInv, HasSession(life), UNCHANGED <<life, rows, said>>,
         NEW new, ProperSeq(new), events' = events \o new,
         IsEngine(engine'), engine'.finals \in 0..MaxFinals, engine'.finals >= engine.finals,
         engine'.owed \subseteq 1..engine'.finals,
         \A i \in DOMAIN new : new[i].kind \in {"final", "observed"} =>
            new[i].final \in 1..engine'.finals,
         \A i \in DOMAIN new : new[i].kind = "final" => i = 1 /\ new[i].final > engine.finals
  PROVE  FinalsInv'
  <1>0. ~Retired(life)
    BY SessionIsLive
  <1>1. /\ ProperSeq(events') /\ Len(events) \in Nat /\ Len(new) \in Nat
        /\ DOMAIN events = 1..Len(events) /\ DOMAIN new = 1..Len(new)
        /\ DOMAIN events' = 1..(Len(events) + Len(new))
        /\ \A i \in 1..Len(events) : events'[i] = events[i]
        /\ \A i \in 1..Len(new) : events'[Len(events) + i] = new[i]
    BY ConcatFacts DEF FinalsInv, FinalTypes
  <1>2. engine.finals \in 0..MaxFinals /\ MaxFinals \in Nat
    BY CapacityAssumption DEF FinalsInv, FinalTypes
  <1>3. \A i \in DOMAIN events' :
          \/ i \in DOMAIN events /\ events'[i] = events[i]
          \/ /\ i = Len(events) + (i - Len(events)) /\ i - Len(events) \in DOMAIN new
             /\ events'[i] = new[i - Len(events)]
    <2>1. ASSUME NEW i \in DOMAIN events', i \notin DOMAIN events
          PROVE  /\ i = Len(events) + (i - Len(events)) /\ i - Len(events) \in DOMAIN new
                 /\ events'[i] = new[i - Len(events)]
      <3>1. i \in 1..(Len(events) + Len(new)) /\ ~(i \in 1..Len(events))
        BY <1>1, <2>1
      <3>2. i - Len(events) \in 1..Len(new) /\ i = Len(events) + (i - Len(events))
        BY <1>1, <3>1
      <3> QED
        BY <1>1, <3>2
    <2> QED
      BY <1>1, <2>1
  <1>4. FinalTypes'
    <2>1. ProperSeq(events)'
      BY <1>1 DEF ProperSeq
    <2> QED
      BY <2>1 DEF FinalsInv, FinalTypes
  <1>5. SaidFits'
    BY DEF FinalsInv, SaidFits
  <1>6. \A i \in DOMAIN events' : events'[i].kind \in {"final", "observed"} =>
           events'[i].final \in 1..engine'.finals
    <2>1. \A f : f \in 1..engine.finals => f \in 1..engine'.finals
      BY <1>2
    <2>2. \A i \in DOMAIN events : events[i].kind \in {"final", "observed"} =>
             events[i].final \in 1..engine.finals
      BY DEF FinalsInv, EventsFit
    <2> QED
      BY <1>3, <2>1, <2>2
  <1>7. \A i \in DOMAIN events' : events'[i].kind = "final" => rows[events'[i].final] = "none"
    <2>1. \A i \in DOMAIN events : events[i].kind = "final" => rows[events[i].final] = "none"
      BY DEF FinalsInv, EventsFit
    <2>2. ASSUME NEW i \in DOMAIN new, new[i].kind = "final" PROVE rows[new[i].final] = "none"
      <3>1. new[i].final \in 1..engine'.finals /\ new[i].final > engine.finals
        BY <2>2
      <3>2. new[i].final \in Finals
        BY <1>2, <3>1 DEF Finals
      <3> QED
        BY <1>0, <3>1, <3>2 DEF FinalsInv, EventsFit
    <2> QED
      BY <1>3, <2>1, <2>2
  <1>8. \A i, j \in DOMAIN events' :
          events'[i].kind = "final" /\ events'[j].kind = "final"
          /\ events'[i].final = events'[j].final => i = j
    <2>1. \A i, j \in DOMAIN events :
            events[i].kind = "final" /\ events[j].kind = "final"
            /\ events[i].final = events[j].final => i = j
      BY DEF FinalsInv, EventsFit
    <2>2. \A i \in DOMAIN events : events[i].kind = "final" => ~(events[i].final > engine.finals)
      <3>1. \A i \in DOMAIN events : events[i].kind = "final" => events[i].final \in 1..engine.finals
        BY DEF FinalsInv, EventsFit
      <3> QED
        BY <1>2, <3>1
    <2>3. ASSUME NEW i \in DOMAIN events', NEW j \in DOMAIN events',
                 events'[i].kind = "final", events'[j].kind = "final",
                 events'[i].final = events'[j].final
          PROVE  i = j
      <3>1. CASE i \in DOMAIN events /\ j \in DOMAIN events
        BY <1>1, <2>1, <2>3, <3>1
      <3>2. CASE i \in DOMAIN events /\ j \notin DOMAIN events
        BY <1>1, <1>3, <2>2, <2>3, <3>2
      <3>3. CASE i \notin DOMAIN events /\ j \in DOMAIN events
        BY <1>1, <1>3, <2>2, <2>3, <3>3
      <3>4. CASE i \notin DOMAIN events /\ j \notin DOMAIN events
        BY <1>1, <1>3, <2>3, <3>4
      <3> QED
        BY <3>1, <3>2, <3>3, <3>4
    <2> QED
      BY <2>3
  <1>9. \A f \in Finals : f > engine'.finals => rows[f] = "none"
    <2>1. \A f \in Finals : f > engine'.finals => f > engine.finals
      BY <1>2 DEF Finals
    <2> QED
      BY <1>0, <2>1 DEF FinalsInv, EventsFit
  <1>10. EventsFit'
    BY <1>6, <1>7, <1>8, <1>9 DEF EventsFit
  <1> QED
    BY <1>4, <1>5, <1>10 DEF FinalsInv
(* A final whose speaker was not named in time.                            *)
LEMMA JobsKeepFinals == ASSUME LifeInv, FinalsInv, Jobs, [Next]_vars PROVE FinalsInv'
  <1>1. PICK L : L \subseteq Pending /\ Expire(L)
    BY DEF Jobs
  <1>2. Stays(life, life')
    <2>1. pc = "jobs"
      BY DEF Jobs
    <2>2. ~Opened /\ ~Looking /\ ~(\E c \in BOOLEAN : Open(c))
      BY <2>1 DEF Opened, Looking, LookAtSession, LookAtCapture, LookAtNothing, Open, Taken
    <2> QED
      BY <2>2, LifeStays
  <1>3. events' = events /\ engine' = engine
    BY DEF Jobs, engineVars
  <1>4. \A f \in Finals : rows'[f] = IF f \in L THEN "late" ELSE rows[f]
    BY <1>1 DEF Expire
  <1>5. \A f \in Finals : said'[f] = said[f] + (IF f \in L THEN 1 ELSE 0)
    BY <1>1 DEF Expire
  <1>6. \A f \in L : f \in Finals /\ rows[f] = "pending" /\ said[f] = 0 /\ ~Retired(life)
    BY <1>1 DEF Pending, FinalsInv, SaidFits
  <1>7. \A f \in Finals : said[f] \in Nat /\ rows[f] \in {"none", "pending", "late", "over"}
    BY DEF FinalsInv, FinalTypes
  <1>8. FinalTypes'
    <2>1. rows' \in [Finals -> {"none", "pending", "late", "over"}]
      BY <1>1, <1>7 DEF Expire
    <2>2. said' \in [Finals -> Nat]
      BY <1>1, <1>7 DEF Expire
    <2>3. ProperSeq(events)'
      BY <1>3 DEF FinalsInv, FinalTypes, ProperSeq
    <2> QED
      BY <1>3, <2>1, <2>2, <2>3 DEF FinalsInv, FinalTypes
  <1>9. SaidFits'
    <2>1. ASSUME NEW f \in L PROVE rows'[f] = "late" /\ said'[f] = 1 /\ f \in Finals
      BY <1>4, <1>5, <1>6, <2>1
    <2>2. ASSUME NEW f \in Finals, f \notin L PROVE rows'[f] = rows[f] /\ said'[f] = said[f]
      BY <1>4, <1>5, <1>7, <2>2
    <2>3. life.state = "failed" => life'.state = "failed"
      BY <1>2 DEF Stays, Retired
    <2>4. ASSUME NEW f \in Finals
          PROVE  /\ rows'[f] \in {"none", "pending"} => said'[f] = 0
                 /\ rows'[f] = "over" => said'[f] = 1
                 /\ rows'[f] = "late" => said'[f] <= 1 /\ (said'[f] = 1 \/ life'.state = "failed")
                 /\ Retired(life') => rows'[f] # "pending"
      <3>1. CASE f \in L
        BY <2>1, <3>1
      <3>2. CASE f \notin L
        BY <1>2, <2>2, <2>3, <2>4, <3>2 DEF FinalsInv, SaidFits, Stays
      <3> QED
        BY <3>1, <3>2
    <2> QED
      BY <2>4 DEF SaidFits
  <1>10. EventsFit'
    <2>1. \A f \in Finals : rows[f] = "none" => rows'[f] = "none"
      BY <1>4, <1>6
    <2>2. MaxFinals \in Nat /\ engine.finals \in 0..MaxFinals
      BY CapacityAssumption DEF FinalsInv, FinalTypes
    <2>3. \A i \in DOMAIN events : events[i].kind = "final" => events[i].final \in Finals
      BY <2>2 DEF FinalsInv, EventsFit, Finals
    <2> QED
      BY <1>2, <1>3, <2>1, <2>3 DEF FinalsInv, EventsFit, Stays
  <1> QED
    BY <1>8, <1>9, <1>10 DEF FinalsInv

(* The worker takes an event.                                              *)
LEMMA TakeEventKeepsFinals == ASSUME LifeInv, FinalsInv, TakeEvent, [Next]_vars PROVE FinalsInv'
  <1> DEFINE e == Head(events)
             refused == Sound(life) /\
               (\/ e.kind = "final" /\ Cardinality(Awaiting) >= PendingCapacity
                \/ e.kind = "observed" /\ ~Resolvable(e.final))
             heeded(kind) == Sound(life) /\ ~refused /\ e.kind = kind
  <1>1. /\ pc = "events" /\ events # <<>> /\ events' = Tail(events) /\ engine' = engine
        /\ rows' = IF heeded("final") THEN [rows EXCEPT ![e.final] = "pending"]
                   ELSE IF heeded("observed") THEN [rows EXCEPT ![e.final] = "over"]
                   ELSE rows
        /\ said' = IF heeded("observed") /\ rows[e.final] = "pending"
                   THEN [said EXCEPT ![e.final] = @ + 1] ELSE said
    BY DEF TakeEvent
  <1>2. Stays(life, life') /\ HasSession(life) /\ ~Retired(life)
    <2>1. ~Opened /\ ~Looking /\ ~(\E c \in BOOLEAN : Open(c))
      BY <1>1 DEF Opened, Looking, LookAtSession, LookAtCapture, LookAtNothing, Open, Taken
    <2>2. HasSession(life)
      BY <1>1 DEF LifeInv, PumpHasSession, InPump
    <2> QED
      BY <2>1, <2>2, LifeStays, SessionIsLive
  <1>3. /\ ProperSeq(events') /\ Len(events) \in Nat \ {0} /\ e = events[1] /\ 1 \in DOMAIN events
        /\ DOMAIN events = 1..Len(events) /\ DOMAIN events' = 1..Len(events) - 1
        /\ \A i \in DOMAIN events' :
             /\ events'[i] = events[i + 1] /\ i + 1 \in DOMAIN events /\ i + 1 # 1 /\ i \in Int
    BY <1>1, TailFacts DEF FinalsInv, FinalTypes
  <1>4. engine.finals \in 0..MaxFinals /\ MaxFinals \in Nat
    BY CapacityAssumption DEF FinalsInv, FinalTypes
  <1>5. heeded("final") => /\ e.kind = "final" /\ e.final \in 1..engine.finals
                           /\ e.final \in Finals /\ rows[e.final] = "none"
    BY <1>3, <1>4 DEF FinalsInv, EventsFit, Finals
  <1>6. heeded("observed") => /\ e.kind = "observed" /\ e.final \in 1..engine.finals
                              /\ e.final \in Finals /\ rows[e.final] \in {"pending", "late"}
    BY <1>3, <1>4 DEF FinalsInv, EventsFit, Finals, Resolvable
  <1> DEFINE final == heeded("final")
             observed == heeded("observed")
             g == e.final
  <1>7. /\ rows' = IF final THEN [rows EXCEPT ![g] = "pending"]
                   ELSE IF observed THEN [rows EXCEPT ![g] = "over"] ELSE rows
        /\ said' = IF observed /\ rows[g] = "pending" THEN [said EXCEPT ![g] = @ + 1] ELSE said
        /\ final => g \in Finals /\ g \in 1..engine.finals /\ rows[g] = "none" /\ e.kind = "final"
        /\ observed => /\ g \in Finals /\ g \in 1..engine.finals /\ rows[g] \in {"pending", "late"}
                       /\ ~final
    BY <1>1, <1>5, <1>6
  <1>8. final \in BOOLEAN /\ observed \in BOOLEAN
    OBVIOUS
  <1> HIDE DEF final, observed, heeded, refused
  <1>9. \A f \in Finals : said[f] \in Nat /\ rows[f] \in {"none", "pending", "late", "over"}
    BY DEF FinalsInv, FinalTypes
  <1>10. /\ rows \in [Finals -> {"none", "pending", "late", "over"}] /\ said \in [Finals -> Nat]
    BY DEF FinalsInv, FinalTypes
  <1>11. \A f \in Finals : f # g => rows'[f] = rows[f] /\ said'[f] = said[f]
    BY <1>7, <1>10
  <1>12. FinalTypes'
    <2>1. rows' \in [Finals -> {"none", "pending", "late", "over"}]
      BY <1>7, <1>10
    <2>2. said' \in [Finals -> Nat]
      BY <1>7, <1>9, <1>10
    <2>3. ProperSeq(events)'
      BY <1>3 DEF ProperSeq
    <2> QED
      BY <1>1, <2>1, <2>2, <2>3 DEF FinalsInv, FinalTypes
  <1>13. SaidFits'
    <2>1. ~Retired(life') /\ life.state # "failed"
      BY <1>2 DEF Stays, Retired
    <2>2. \A f \in Finals : /\ rows[f] \in {"none", "pending"} => said[f] = 0
                            /\ rows[f] \in {"over", "late"} => said[f] = 1
      BY <2>1 DEF FinalsInv, SaidFits
    <2>3. ASSUME NEW f \in Finals
          PROVE  /\ rows'[f] \in {"none", "pending"} => said'[f] = 0
                 /\ rows'[f] \in {"over", "late"} => said'[f] = 1
      <3>1. CASE f # g
        BY <1>11, <2>2, <3>1
      <3>2. CASE f = g /\ final
        BY <1>7, <1>10, <2>2, <3>2
      <3>3. CASE f = g /\ observed
        <4>1. rows'[f] = "over"
          BY <1>7, <1>10, <3>3
        <4>2. said'[f] = IF rows[f] = "pending" THEN said[f] + 1 ELSE said[f]
          BY <1>7, <1>10, <3>3
        <4>3. rows[f] \in {"pending", "late"}
          BY <1>7, <3>3
        <4> QED
          BY <2>2, <4>1, <4>2, <4>3
      <3>4. CASE ~final /\ ~observed
        BY <1>7, <2>2, <3>4
      <3> QED
        BY <1>8, <3>1, <3>2, <3>3, <3>4
    <2> QED
      BY <2>1, <2>3 DEF SaidFits
  <1>14. EventsFit'
    <2>1. \A i \in DOMAIN events' : events'[i].kind \in {"final", "observed"} =>
            events'[i].final \in 1..engine.finals
      BY <1>3 DEF FinalsInv, EventsFit
    <2>2. \A i, j \in DOMAIN events' :
            events'[i].kind = "final" /\ events'[j].kind = "final"
            /\ events'[i].final = events'[j].final => i = j
      <3>1. ASSUME NEW i \in DOMAIN events', NEW j \in DOMAIN events',
                   events'[i].kind = "final", events'[j].kind = "final",
                   events'[i].final = events'[j].final
            PROVE  i = j
        <4>1. i + 1 = j + 1
          BY <1>3, <3>1 DEF FinalsInv, EventsFit
        <4> QED
          BY <1>3, <4>1
      <3> QED
        BY <3>1
    <2>3. ASSUME NEW i \in DOMAIN events', events'[i].kind = "final"
          PROVE  rows'[events'[i].final] = "none"
      <3>1. i + 1 \in DOMAIN events /\ events'[i] = events[i + 1] /\ i + 1 # 1
        BY <1>3
      <3>2. rows[events'[i].final] = "none"
        BY <2>3, <3>1 DEF FinalsInv, EventsFit
      <3>3. events'[i].final \in Finals
        BY <1>4, <2>1, <2>3 DEF Finals
      <3>4. CASE events'[i].final # g
        BY <1>11, <3>2, <3>3, <3>4
      <3>5. CASE events'[i].final = g
        <4>1. ~observed
          BY <1>7, <3>2, <3>5
        <4>2. ~final
          <5>1. ASSUME final PROVE FALSE
            <6>1. e.kind = "final"
              BY <1>7, <5>1
            <6>2. events[1].kind = "final" /\ events[1].final = events[i + 1].final
              BY <1>3, <3>1, <3>5, <6>1
            <6> QED
              BY <1>3, <2>3, <3>1, <6>2 DEF FinalsInv, EventsFit
          <5> QED
            BY <5>1
        <4> QED
          BY <1>7, <3>2, <4>1, <4>2
      <3> QED
        BY <3>4, <3>5
    <2>4. \A f \in Finals : f > engine.finals => rows'[f] = "none"
      <3>1. ASSUME NEW f \in Finals, f > engine.finals PROVE rows'[f] = "none"
        <4>1. rows[f] = "none"
          BY <1>2, <3>1 DEF FinalsInv, EventsFit
        <4>2. f = g => ~final /\ ~observed
          BY <1>4, <1>7, <3>1
        <4> QED
          BY <1>7, <1>11, <4>1, <4>2
      <3> QED
        BY <3>1
    <2> QED
      BY <1>1, <1>2, <2>1, <2>2, <2>3, <2>4 DEF EventsFit, Stays
  <1> QED
    BY <1>12, <1>13, <1>14 DEF FinalsInv

(* The engine's events.                                                    *)
LEMMA NoteEvents ==
  ASSUME LifeInv, FinalsInv, ReplyInv, [Next]_vars, Stop \/ CoreFence \/ GenRetire
  PROVE  FinalsInv'
  <1>1. /\ UNCHANGED <<life, rows, said, engine>>
        /\ (Stop /\ UNCHANGED events) \/ Emit(CutEvent) \/ Emit(<<Event("ended", 0)>>)
    BY DEF Stop, CoreFence, GenRetire, CoreFrame, AroundFrame, finalVars
  <1>2. HasSession(life)
    BY DEF Stop, CoreFence, GenRetire, CoreRuns, Running, MayJudge, InSession
  <1>3. CASE UNCHANGED events
    BY <1>1, <1>3, FinalsStay DEF Stays, EngineKept, FinalsInv, FinalTypes
  <1>4. ASSUME NEW new, new = <<>> \/ (\E e : new = <<e>> /\ e.kind \in {"cut", "ended"}),
               events' = events \o new
        PROVE  FinalsInv'
    <2>1. ProperSeq(new) /\ \A i \in DOMAIN new : new[i].kind \in {"cut", "ended"}
      <3>1. CASE new = <<>>
        BY <3>1 DEF ProperSeq
      <3>2. ASSUME NEW e, new = <<e>>, e.kind \in {"cut", "ended"}
            PROVE  ProperSeq(new) /\ \A i \in DOMAIN new : new[i].kind \in {"cut", "ended"}
        <4>1. ProperSeq(<<e>>)
          BY DEF ProperSeq
        <4>2. \A i \in DOMAIN <<e>> : <<e>>[i] = e
          OBVIOUS
        <4> QED
          BY <3>2, <4>1, <4>2
      <3> QED
        BY <1>4, <3>1, <3>2
    <2>2. /\ IsEngine(engine) /\ engine.finals \in 0..MaxFinals
          /\ engine.owed \subseteq 1..engine.finals
      BY DEF FinalsInv, FinalTypes
    <2>3. engine' = engine /\ engine.finals >= engine.finals
      BY <1>1, <2>2
    <2>4. \A i \in DOMAIN new : new[i].kind \notin {"final", "observed"}
      BY <2>1
    <2> QED
      BY <1>1, <1>2, <1>4, <2>1, <2>2, <2>3, <2>4, EventsAdded
  <1>5. \/ UNCHANGED events
        \/ events' = events \o CutEvent \/ events' = events \o <<Event("ended", 0)>>
    BY <1>1 DEF Emit
  <1>6. CutEvent = <<>> \/ \E e : CutEvent = <<e>> /\ e.kind \in {"cut", "ended"}
    BY DEF CutEvent
  <1>7. \E e : <<Event("ended", 0)>> = <<e>> /\ e.kind \in {"cut", "ended"}
    <2>1. Event("ended", 0).kind \in {"cut", "ended"}
      BY DEF Event
    <2> QED
      BY <2>1
  <1> QED
    BY <1>3, <1>4, <1>5, <1>6, <1>7

LEMMA FinalEvents ==
  ASSUME LifeInv, FinalsInv, ReplyInv, CoreFinal
  PROVE  FinalsInv'
  <1> DEFINE f == engine.finals + 1
  <1>1. /\ UNCHANGED <<life, rows, said>> /\ HasSession(life) /\ engine.finals < script.finals
        /\ \/ /\ engine' = [engine EXCEPT !.finals = f]
              /\ Emit(<<Event("final", f), Event("observed", f)>>)
           \/ /\ engine' = [engine EXCEPT !.finals = f, !.owed = @ \cup {f}]
              /\ Emit(<<Event("final", f)>>)
    BY DEF CoreFinal, CoreRuns, Running, CoreFrame, AroundFrame
  <1>2. engine.finals \in Nat /\ engine.owed \subseteq 1..engine.finals /\ IsEngine(engine)
        /\ MaxFinals \in Nat
    BY CapacityAssumption DEF FinalsInv, FinalTypes
  <1>3. f \in 0..MaxFinals /\ f \in Nat /\ f > engine.finals /\ f \in 1..f
    <2>1. script.finals \in 0..MaxFinals
      BY ScriptsAssumption DEF ReplyInv
    <2> QED
      BY <1>1, <1>2, <2>1
  <1>4. f = engine.finals + 1
    OBVIOUS
  <1> HIDE DEF f
  <1>5. engine' = [engine EXCEPT !.finals = f] \/ engine' = [engine EXCEPT !.finals = f, !.owed = engine.owed \cup {f}]
    BY <1>1
  <1>6. IsEngine(engine') /\ engine'.finals = f /\ engine'.owed \subseteq engine.owed \cup {f}
    BY <1>2, <1>5 DEF IsEngine
  <1>7. engine'.owed \subseteq 1..engine'.finals
    <2>1. 1..engine.finals \subseteq 1..f
      BY <1>2, <1>4
    <2> QED
      BY <1>2, <1>3, <1>6, <2>1
  <1>8. PICK new : /\ events' = events \o new
                   /\ \/ new = <<Event("final", f), Event("observed", f)>>
                      \/ new = <<Event("final", f)>>
    BY <1>1 DEF Emit
  <1>9. /\ ProperSeq(new)
        /\ \A i \in DOMAIN new : new[i].final = f /\ (new[i].kind = "final" => i = 1)
    BY <1>8 DEF Event, ProperSeq
  <1>10. engine'.finals \in 0..MaxFinals /\ engine'.finals >= engine.finals
    BY <1>2, <1>3, <1>6
  <1>11. \A i \in DOMAIN new : new[i].final \in 1..engine'.finals /\ new[i].final > engine.finals
    BY <1>3, <1>6, <1>9
  <1>12. UNCHANGED <<life, rows, said>> /\ HasSession(life)
    BY <1>1
  <1>13. \A i \in DOMAIN new : new[i].kind = "final" => i = 1 /\ new[i].final > engine.finals
    BY <1>9, <1>11
  <1>14. events' = events \o new
    BY <1>8
  <1> HIDE DEF Emit
  <1> QED
    BY <1>6, <1>7, <1>9, <1>10, <1>11, <1>12, <1>13, <1>14, EventsAdded

LEMMA ObserveEvents ==
  ASSUME LifeInv, FinalsInv, CoreObserve \/ CoreFinish
  PROVE  FinalsInv'
  <1>1. UNCHANGED <<life, rows, said>> /\ HasSession(life)
    BY DEF CoreObserve, CoreFinish, CoreRuns, Running, CoreFrame, AroundFrame
  <1>2. /\ engine.finals \in 0..MaxFinals /\ engine.owed \subseteq 1..engine.finals
        /\ IsEngine(engine) /\ engine.finals >= engine.finals
    BY CapacityAssumption DEF FinalsInv, FinalTypes
  <1>3. ASSUME NEW e, events' = events \o <<e>>, e.kind # "final", e.kind = "observed" => e.final \in 1..engine.finals,
               IsEngine(engine'), engine'.finals = engine.finals, engine'.owed \subseteq engine.owed
        PROVE  FinalsInv'
    <2> DEFINE new == <<e>>
    <2>1. ProperSeq(new) /\ \A i \in DOMAIN new : new[i] = e
      BY DEF ProperSeq
    <2>2. events' = events \o new
      BY <1>3
    <2> HIDE DEF new
    <2>3. engine'.owed \subseteq 1..engine'.finals
      BY <1>2, <1>3
    <2> QED
      BY <1>1, <1>2, <1>3, <2>1, <2>2, <2>3, EventsAdded
  <1>4. CASE CoreObserve
    <2>1. PICK f \in engine.owed : /\ engine' = [engine EXCEPT !.owed = engine.owed \ {f}]
                                   /\ events' = events \o <<Event("observed", f)>>
      BY <1>4 DEF CoreObserve, Emit
    <2>2. IsEngine(engine') /\ engine'.finals = engine.finals /\ engine'.owed \subseteq engine.owed
      BY <1>2, <2>1 DEF IsEngine
    <2>3. Event("observed", f).kind = "observed" /\ Event("observed", f).final = f
      BY DEF Event
    <2> QED
      BY <1>2, <1>3, <2>1, <2>2, <2>3
  <1>5. CASE CoreFinish
    <2>1. /\ engine' = [engine EXCEPT !.done = TRUE]
          /\ events' = events \o <<Event("finished", 0)>>
      BY <1>5 DEF CoreFinish, Emit
    <2>2. IsEngine(engine') /\ engine'.finals = engine.finals /\ engine'.owed \subseteq engine.owed
      BY <1>2, <2>1 DEF IsEngine
    <2>3. Event("finished", 0).kind = "finished"
      BY DEF Event
    <2> QED
      BY <1>3, <2>1, <2>2, <2>3
  <1> QED
    BY <1>4, <1>5
(* A session ends: what the looks may do to it.                            *)
Over(l) ==
    /\ life' = [l EXCEPT !.state = IF l.failure = "none" THEN "closed" ELSE "failed",
                         !.core = "none", !.live = FALSE]
    /\ rows' = [f \in Finals |-> IF f \in Pending THEN "late" ELSE rows[f]]
    /\ said' = [f \in Finals |->
                  said[f] + (IF f \in Pending /\ l.failure = "none" THEN 1 ELSE 0)]
    /\ admitted' = FALSE
    /\ engine' = NoEngine /\ events' = <<>>
    /\ ends' = ends + 1
LEMMA LookEnds ==
  ASSUME LifeInv, Looking
  PROVE  \/ Stays(life, life') /\ UNCHANGED EndVars
         \/ \E l : /\ Worse(life, l) /\ ~Retired(life) /\ jobs = NoJobs /\ Over(l)
                   /\ HasSession(life) => snap.retired
                   /\ HasSession(life') = FALSE /\ Retired(life') /\ life'.session = life.session
                   /\ life'.state = IF l.failure = "none" THEN "closed" ELSE "failed"
  <1>1. PICK l : /\ Worse(life, l)
                 /\ \/ life' = l /\ UNCHANGED EndVars
                    \/ /\ Terminal(l) /\ opening = "none" /\ ~l.waiting
                       /\ HasSession(life) => snap.retired /\ task.state = "none"
    BY LooksAreWorse DEF Looking
  <1>2. Shape(l, opening) /\ (Retired(l) <=> Retired(life))
    BY <1>1, WorseKeepsShape DEF LifeInv
  <1>3. CASE life' = l /\ UNCHANGED EndVars
    BY <1>1, <1>2, <1>3 DEF Stays, Worse
  <1>4. CASE Terminal(l) /\ (HasSession(life) => snap.retired)
    <2>1. CASE Retired(l) \/ ~Finished
      BY <1>3, <1>4, <2>1 DEF Terminal
    <2>2. CASE ~(Retired(l) \/ ~Finished)
      <3>1. Over(l) /\ jobs = NoJobs /\ ~Retired(life)
        BY <1>2, <1>4, <2>2 DEF Terminal, Over, Finished
      <3> DEFINE s == IF l.failure = "none" THEN "closed" ELSE "failed"
      <3>2. life' = [l EXCEPT !.state = s, !.core = "none", !.live = FALSE]
        BY <3>1 DEF Over
      <3>3. s \in {"closed", "failed"}
        OBVIOUS
      <3> HIDE DEF s
      <3>4. HasSession(life') = FALSE /\ Retired(life') /\ life'.session = l.session /\ life'.state = s
        BY <1>2, <3>2, <3>3 DEF Shape, LifeType, HasSession, Retired
      <3>5. life'.state = IF l.failure = "none" THEN "closed" ELSE "failed"
        BY <3>4 DEF s
      <3>6. life'.session = life.session
        BY <1>1, <3>4 DEF Worse
      <3> HIDE DEF Over
      <3> QED
        BY <1>1, <1>4, <3>1, <3>4, <3>5, <3>6
    <2> QED
      BY <2>1, <2>2
  <1> QED
    BY <1>1, <1>3, <1>4

LEMMA LookingKeepsFinals == ASSUME LifeInv, FinalsInv, Looking PROVE FinalsInv'
  <1>1. CASE Stays(life, life') /\ UNCHANGED EndVars
    <2>1. UNCHANGED <<rows, said, events, engine>>
      BY <1>1 DEF EndVars
    <2>2. EngineKept
      BY <2>1 DEF EngineKept, FinalsInv, FinalTypes
    <2> QED
      BY <1>1, <2>1, <2>2, FinalsStay
  <1>2. ASSUME NEW l, ~Retired(life), Over(l), HasSession(life') = FALSE, Retired(life'),
               life'.state = IF l.failure = "none" THEN "closed" ELSE "failed"
        PROVE  FinalsInv'
    <2>1. \A f \in Finals : rows'[f] = IF rows[f] = "pending" THEN "late" ELSE rows[f]
      BY <1>2 DEF Over, Pending
    <2>2. \A f \in Finals :
            said'[f] = said[f] + (IF rows[f] = "pending" /\ l.failure = "none" THEN 1 ELSE 0)
      BY <1>2 DEF Over, Pending
    <2>3. \A f \in Finals : said[f] \in Nat /\ rows[f] \in {"none", "pending", "late", "over"}
      BY DEF FinalsInv, FinalTypes
    <2>4. FinalTypes'
      <3>1. rows' \in [Finals -> {"none", "pending", "late", "over"}]
        BY <1>2, <2>3 DEF Over
      <3>2. said' \in [Finals -> Nat]
        BY <1>2, <2>3 DEF Over
      <3>3. ProperSeq(events)'
        BY <1>2 DEF Over, ProperSeq
      <3>4. IsEngine(engine') /\ engine'.finals = 0 /\ engine'.owed = {}
        BY <1>2 DEF Over, NoEngine, IsEngine
      <3> QED
        BY <3>1, <3>2, <3>3, <3>4, CapacityAssumption DEF FinalTypes
    <2>5. EventsFit'
      <3>1. events' = <<>> /\ engine'.finals = 0
        BY <1>2 DEF Over, NoEngine
      <3>2. DOMAIN events' = {}
        BY <3>1
      <3> QED
        BY <1>2, <3>1, <3>2 DEF EventsFit
    <2>6. SaidFits'
      <3>1. life.state # "failed"
        BY <1>2 DEF Retired
      <3>2. \A f \in Finals : /\ rows[f] \in {"none", "pending"} => said[f] = 0
                              /\ rows[f] \in {"over", "late"} => said[f] = 1
        BY <3>1 DEF FinalsInv, SaidFits
      <3>3. ASSUME NEW f \in Finals
            PROVE  /\ rows'[f] \in {"none", "pending"} => said'[f] = 0
                   /\ rows'[f] = "over" => said'[f] = 1
                   /\ rows'[f] = "late" => said'[f] <= 1 /\ (said'[f] = 1 \/ life'.state = "failed")
                   /\ rows'[f] # "pending"
        <4>1. CASE rows[f] = "pending"
          <5>1. rows'[f] = "late" /\ said'[f] = IF l.failure = "none" THEN 1 ELSE 0
            BY <2>1, <2>2, <3>2, <4>1
          <5> QED
            BY <1>2, <5>1
        <4>2. CASE rows[f] # "pending"
          <5>1. rows'[f] = rows[f] /\ said'[f] = said[f]
            BY <2>1, <2>2, <2>3, <4>2
          <5> QED
            BY <2>3, <3>2, <4>2, <5>1
        <4> QED
          BY <4>1, <4>2
      <3> QED
        BY <3>3 DEF SaidFits
    <2> QED
      BY <2>4, <2>5, <2>6 DEF FinalsInv
  <1> QED
    BY <1>1, <1>2, LookEnds

(* A session begins.                                                       *)
LEMMA OpenedLife ==
  ASSUME LifeInv, Opened
  PROVE  /\ HasSession(life') /\ ~HasSession(life) /\ ~Retired(life) /\ ~Retired(life')
         /\ life'.session = life.session
  <1> DEFINE open == [life EXCEPT !.core = "running", !.state = "open"]
             over == [life EXCEPT !.core = "aborting"]
             l == IF Sound(life) THEN open ELSE over
  <1>1. Onward(l)
    BY DEF Opened
  <1>2. Shape(life, opening) /\ opening = "opened"
    BY DEF LifeInv, Opened
  <1>3. Shape(l, "none") /\ HasSession(l) /\ l.session = life.session
    BY <1>2 DEF Shape, LifeType, HasSession, Sound
  <1>4. ~HasSession(life) /\ ~Retired(life)
    BY <1>2 DEF Shape, HasSession, Retired
  <1> HIDE DEF l
  <1>5. Worse(l, life')
    BY <1>1, <1>3, OnwardIsWorse
  <1>6. Shape(life', "none") /\ HasSession(life') /\ life'.session = life.session
    BY <1>3, <1>5, WorseKeepsShape DEF Worse
  <1> QED
    BY <1>4, <1>6 DEF Shape, Retired

LEMMA OpenedKeepsFinals == ASSUME LifeInv, FinalsInv, Opened PROVE FinalsInv'
  <1>1. /\ UNCHANGED <<rows, said, events>>
        /\ engine' = [NoEngine EXCEPT !.cutoff = early] \/ engine' = engine
    BY DEF Opened, finalVars
  <1>2. HasSession(life') /\ ~HasSession(life) /\ ~Retired(life) /\ ~Retired(life')
    BY OpenedLife
  <1>3. events = <<>> /\ engine.finals = 0
    BY <1>2 DEF FinalsInv, EventsFit
  <1>4. IsEngine(engine') /\ engine'.finals = 0 /\ engine'.owed \subseteq {}
    <2>1. CASE engine' = engine
      BY <1>3, <2>1 DEF FinalsInv, FinalTypes
    <2>2. CASE engine' = [NoEngine EXCEPT !.cutoff = early]
      <3>1. engine' = [cutoff |-> early, done |-> FALSE, error |-> FALSE, retired |-> FALSE,
                       owed |-> {}, finals |-> 0, busy |-> FALSE, calls |-> 0]
        BY <2>2 DEF NoEngine
      <3> QED
        BY <3>1 DEF IsEngine
    <2> QED
      BY <1>1, <2>1, <2>2
  <1>5. FinalTypes'
    <2>1. engine'.owed \subseteq 1..engine'.finals
      BY <1>4
    <2>2. ProperSeq(events)'
      BY <1>1 DEF FinalsInv, FinalTypes, ProperSeq
    <2> QED
      BY <1>1, <1>4, <2>1, <2>2, CapacityAssumption DEF FinalsInv, FinalTypes
  <1>6. EventsFit'
    <2>1. DOMAIN events' = {}
      BY <1>1, <1>3
    <2> QED
      BY <1>1, <1>2, <1>3, <1>4, <2>1 DEF FinalsInv, EventsFit
  <1>7. SaidFits'
    BY <1>1, <1>2 DEF FinalsInv, SaidFits, Retired
  <1> QED
    BY <1>5, <1>6, <1>7 DEF FinalsInv

LEMMA OpenLife ==
  ASSUME LifeInv, NEW c \in BOOLEAN, Open(c)
  PROVE  /\ Retired(life) /\ ~HasSession(life) /\ ~HasSession(life') /\ ~Retired(life')
         /\ life'.session = life.session + 1
  <1>1. /\ life' = [life EXCEPT !.state = IF c THEN "open" ELSE "opening",
                          !.session = life.session + 1, !.capture = c, !.abort = FALSE,
                          !.failure = "none", !.waiting = ~c, !.live = TRUE]
        /\ Retired(life) /\ ~HasSession(life)
    BY DEF Open, MayOpen
  <1> DEFINE s == IF c THEN "open" ELSE "opening"
  <1>2. s \in {"open", "opening"}
    OBVIOUS
  <1> HIDE DEF s
  <1>3. life' = [life EXCEPT !.state = s,
                          !.session = life.session + 1, !.capture = c, !.abort = FALSE,
                          !.failure = "none", !.waiting = ~c, !.live = TRUE]
    BY <1>1 DEF s
  <1>4. life'.state = s /\ life'.core = life.core /\ life'.session = life.session + 1
    BY <1>3 DEF LifeInv, Shape, LifeType
  <1> QED
    BY <1>1, <1>2, <1>4 DEF HasSession, Retired

LEMMA OpenKeepsFinals ==
  ASSUME LifeInv, FinalsInv, NEW c \in BOOLEAN, Open(c) PROVE FinalsInv'
  <1>1. /\ rows' = [f \in Finals |-> "none"] /\ said' = [f \in Finals |-> 0]
        /\ engine' = NoEngine /\ events' = <<>>
    BY DEF Open
  <1>2. ~HasSession(life') /\ ~Retired(life')
    BY OpenLife
  <1>3. IsEngine(engine') /\ engine'.finals = 0 /\ engine'.owed = {}
    BY <1>1 DEF NoEngine, IsEngine
  <1>4. FinalTypes'
    <2>1. ProperSeq(events)'
      BY <1>1 DEF ProperSeq
    <2> QED
      BY <1>1, <1>3, <2>1, CapacityAssumption DEF FinalTypes
  <1>5. EventsFit'
    <2>1. DOMAIN events' = {}
      BY <1>1
    <2> QED
      BY <1>1, <1>3, <2>1 DEF EventsFit
  <1>6. SaidFits'
    BY <1>1, <1>2 DEF SaidFits
  <1> QED
    BY <1>4, <1>5, <1>6 DEF FinalsInv

(* Every step keeps the finals told once.                                  *)
LEMMA NextKeepsFinals ==
  ASSUME LifeInv, FinalsInv, ReplyInv, [Next]_vars PROVE FinalsInv'
  <1>1. CASE TurningPoints
    BY <1>1, OpenedKeepsFinals, LookingKeepsFinals, OpenKeepsFinals DEF TurningPoints
  <1>2. CASE EventSteps
    BY <1>2, JobsKeepFinals, TakeEventKeepsFinals, NoteEvents, FinalEvents, ObserveEvents
       DEF EventSteps
  <1>3. CASE ~TurningPoints /\ ~EventSteps
    <2>1. UNCHANGED <<rows, said, events>>
      BY <1>3, QuietSteps
    <2>2. EngineKept
      BY <1>3, EngineSteps DEF FinalsInv, FinalTypes, EventSteps
    <2>3. Stays(life, life')
      BY <1>3, LifeStays DEF TurningPoints
    <2> QED
      BY <2>1, <2>2, <2>3, FinalsStay
  <1> QED
    BY <1>1, <1>2, <1>3

LEMMA InitFinals == Init => FinalsInv
  <1> SUFFICES ASSUME Init PROVE FinalsInv
    OBVIOUS
  <1>1. /\ rows = [f \in Finals |-> "none"] /\ said = [f \in Finals |-> 0]
        /\ engine = NoEngine /\ events = <<>>
    BY DEF Init
  <1>2. IsEngine(engine) /\ engine.finals = 0 /\ engine.owed = {}
    BY <1>1 DEF NoEngine, IsEngine
  <1>3. FinalTypes
    <2>1. ProperSeq(events)
      BY <1>1 DEF ProperSeq
    <2> QED
      BY <1>1, <1>2, <2>1, CapacityAssumption DEF FinalTypes
  <1>4. EventsFit
    <2>1. DOMAIN events = {}
      BY <1>1
    <2> QED
      BY <1>1, <1>2, <2>1 DEF EventsFit
  <1>5. SaidFits
    BY <1>1 DEF SaidFits
  <1> QED
    BY <1>3, <1>4, <1>5 DEF FinalsInv
----------------------------------------------------------------------------
(* What a session has is given back.                                       *)
IsSnap(s) ==
    s = [cutoff |-> s.cutoff, retired |-> s.retired, emitted |-> s.emitted,
         busy |-> s.busy, calls |-> s.calls]
UsersFit ==
    /\ storage.owner = "capture" => jobs'.capture /\ ready' \cap {"kept", "broken"} = {}
    /\ storage.owner = "enroll" => jobs'.enroll # 0 /\ "enroll" \notin ready'
    /\ storage.owner = "publish" => jobs'.publish # 0 /\ "publish" \notin ready'
LEMMA GivenStays ==
  ASSUME GivenBackInv, Stays(life, life'), RetiredKept, UNCHANGED <<storage, ends>>,
         IsSnap(snap'), snap'.retired = snap.retired \/ snap'.retired = engine.retired,
         UsersFit, Retired(life) => ~admitted' /\ ~jobs'.capture /\ ~jobs'.uses
  PROVE  GivenBackInv'
  <1>1. Users'
    BY DEF GivenBackInv, Users, UsersFit, Stays, RetiredKept
  <1>2. RetiredKnown'
    BY DEF GivenBackInv, RetiredKnown, RetiredKept, IsSnap, Stays
  <1>3. Ends'
    BY DEF GivenBackInv, Ends, Stays
  <1> QED
    BY <1>1, <1>2, <1>3 DEF GivenBackInv

LEMMA UsersAsTheyAre ==
  ASSUME GivenBackInv, UNCHANGED <<jobs, ready>> PROVE UsersFit
  BY DEF GivenBackInv, Users, UsersFit

LEMMA SameSnap == ASSUME GivenBackInv, snap' = snap PROVE IsSnap(snap')
  BY DEF GivenBackInv, RetiredKnown, IsSnap

(* The steps that leave all of it as it is.                                *)
GivenSteps ==
    Jobs \/ Manage \/ Record \/ Input \/ JobEnds \/ OpeningEnds \/ StorageStart \/ StorageEnd
    \/ LastStatus \/ Finish
LEMMA OtherSteps ==
  ASSUME [Next]_vars, ~TurningPoints, ~GivenSteps
  PROVE  UNCHANGED <<storage, jobs, ready, admitted, ends, snap>>
  <1> DEFINE Same == UNCHANGED <<storage, jobs, ready, admitted, ends, snap>>
  <1>1. ASSUME Read \/ NotOpened \/ Status \/ TakeEvent \/ EventsTaken \/ Replies \/ Reconcile PROVE Same
    BY <1>1 DEF Read, NotOpened, Status, TakeEvent, EventsTaken, Replies, Reconcile, jobVars,
       lookVars, envVars, histVars
  <1>2. ASSUME ReleaseThrows \/ NextAudio \/ Abandon PROVE Same
    BY <1>2 DEF ReleaseThrows, NextAudio, Abandon, EndVars, LookFrame, jobVars, lookVars, envVars,
       histVars
  <1>3. ASSUME Nothing \/ Values \/ Refusal \/ Drain \/ Abort PROVE Same
    BY <1>3 DEF Nothing, Values, Refusal, Drain, Abort, Closing, ControlFrame, jobVars, lookVars
  <1>4. ASSUME Synthesize \/ Stop \/ Report PROVE Same
    BY <1>4 DEF Synthesize, Stop, Report, ControlFrame, jobVars, lookVars
  <1>5. ASSUME NEW op \in Ops, Send(op) PROVE Same
    BY <1>5 DEF Send, AroundFrame, jobVars, lookVars, envVars, histVars
  <1>6. ASSUME SettingsAnswer \/ SendFrame \/ Strike PROVE Same
    BY <1>6 DEF SettingsAnswer, SendFrame, Strike, AroundFrame, jobVars, lookVars, envVars, histVars
  <1>7. ASSUME Write \/ WriteFails PROVE Same
    BY <1>7 DEF Write, WriteFails, WriterFrame, AroundFrame, jobVars, lookVars, histVars
  <1>8. ASSUME CoreFinal \/ CoreObserve \/ CoreFinish \/ Generate \/ GenRetire PROVE Same
    BY <1>8 DEF CoreFinal, CoreObserve, CoreFinish, Generate, GenRetire, CoreFrame, AroundFrame,
       jobVars, lookVars, histVars
  <1>9. ASSUME CoreFence \/ CoreFault \/ CoreRetire \/ ModelStart \/ ModelEnd PROVE Same
    BY <1>9 DEF CoreFence, CoreFault, CoreRetire, ModelStart, ModelEnd, CoreFrame, AroundFrame,
       jobVars, lookVars, histVars
  <1>10. ASSUME UNCHANGED vars PROVE Same
    BY <1>10 DEF vars, jobVars, lookVars, envVars, histVars
  <1> HIDE DEF Same
  <1>11. Same
    BY <1>1, <1>2, <1>3, <1>4, <1>5, <1>6, <1>7, <1>8, <1>9, <1>10
       DEF Next, Loop, Control, Around, TurningPoints, Looking, GivenSteps
  <1> QED
    BY <1>11 DEF Same

LEMMA EngineRetires ==
  ASSUME FinalsInv, [Next]_vars, ~TurningPoints PROVE RetiredKept
  <1>1. IsEngine(engine)
    BY DEF FinalsInv, FinalTypes
  <1>2. CASE CoreFinal \/ CoreObserve \/ CoreFinish
    <2>1. \/ engine' = [engine EXCEPT !.finals = engine.finals + 1]
          \/ \E o : engine' = [engine EXCEPT !.finals = engine.finals + 1, !.owed = o]
          \/ \E o : engine' = [engine EXCEPT !.owed = o]
          \/ engine' = [engine EXCEPT !.done = TRUE]
      BY <1>2 DEF CoreFinal, CoreObserve, CoreFinish
    <2> QED
      BY <1>1, <2>1 DEF IsEngine, RetiredKept
  <1> QED
    BY <1>1, <1>2, EngineSteps

LEMMA JobsGiveBack ==
  ASSUME LifeInv, OwedInv, GivenBackInv, Jobs, Stays(life, life'), RetiredKept PROVE GivenBackInv'
  <1>1. /\ UNCHANGED <<storage, ends, snap, admitted>> /\ ready' = {}
        /\ jobs' = [enroll |-> IF "enroll" \in ready THEN None ELSE jobs.enroll,
                    publish |-> IF "publish" \in ready THEN None ELSE jobs.publish,
                    capture |-> jobs.capture /\ ready \cap {"kept", "broken"} = {},
                    uses |-> jobs.uses /\ "enroll" \notin ready]
    BY DEF Jobs, lookVars, envVars, histVars
  <1>2. UsersFit
    BY <1>1 DEF GivenBackInv, Users, UsersFit
  <1>3. Retired(life) => ~admitted' /\ ~jobs'.capture /\ ~jobs'.uses
    BY <1>1 DEF GivenBackInv, Ends
  <1> QED
    BY <1>1, <1>2, <1>3, SameSnap, GivenStays

LEMMA JobsBegin ==
  ASSUME LifeInv, OwedInv, GivenBackInv, Manage \/ Record, Stays(life, life'), RetiredKept
  PROVE  GivenBackInv'
  <1>1. /\ UNCHANGED <<storage, ends, snap, admitted, ready>> /\ jobs = NoJobs
        /\ \/ jobs' = [jobs EXCEPT !.enroll = hand.id, !.uses = HasSession(life)]
           \/ jobs' = [jobs EXCEPT !.publish = hand.id]
    BY DEF Manage, Record, MayManage, MayRecord, ControlFrame, lookVars
  <1>2. NoJobs = [enroll |-> 0, publish |-> 0, capture |-> FALSE, uses |-> FALSE]
    BY DEF NoJobs, None
  <1>3. storage.owner \notin {"enroll", "publish", "capture"}
    BY <1>1, <1>2 DEF GivenBackInv, Users
  <1>4. UsersFit
    BY <1>3 DEF UsersFit
  <1>5. Retired(life) => ~HasSession(life)
    BY SessionIsLive
  <1>6. Retired(life) => ~admitted' /\ ~jobs'.capture /\ ~jobs'.uses
    BY <1>1, <1>2, <1>5 DEF GivenBackInv, Ends
  <1> QED
    BY <1>1, <1>4, <1>6, SameSnap, GivenStays

LEMMA InputGivesBack ==
  ASSUME LifeInv, OwedInv, GivenBackInv, Input, Stays(life, life'), RetiredKept PROVE GivenBackInv'
  <1>1. /\ UNCHANGED <<storage, ends, admitted, ready>>
        /\ \/ /\ jobs' = [jobs EXCEPT !.capture = TRUE] /\ snap' = [snap EXCEPT !.cutoff = TRUE]
              /\ ~Retired(life)
           \/ UNCHANGED <<jobs, snap>>
    BY DEF Input, histVars
  <1>2. jobs \in JobsType
    BY DEF OwedInv, LineTypes
  <1>3. IsSnap(snap)
    BY DEF GivenBackInv, RetiredKnown, IsSnap
  <1>4. CASE UNCHANGED <<jobs, snap>>
    <2>1. Retired(life) => ~admitted' /\ ~jobs'.capture /\ ~jobs'.uses
      BY <1>1, <1>4 DEF GivenBackInv, Ends
    <2> QED
      BY <1>1, <1>4, <2>1, SameSnap, UsersAsTheyAre, GivenStays
  <1>5. CASE /\ jobs' = [jobs EXCEPT !.capture = TRUE] /\ snap' = [snap EXCEPT !.cutoff = TRUE]
             /\ ~Retired(life)
    <2>1. jobs'.capture /\ jobs'.enroll = jobs.enroll /\ jobs'.publish = jobs.publish
      BY <1>2, <1>5 DEF JobsType
    <2>2. UsersFit
      BY <1>1, <2>1 DEF GivenBackInv, Users, UsersFit
    <2>3. IsSnap(snap') /\ snap'.retired = snap.retired
      BY <1>3, <1>5 DEF IsSnap
    <2> QED
      BY <1>1, <1>5, <2>2, <2>3, GivenStays
  <1> QED
    BY <1>1, <1>4, <1>5

LEMMA FuturesEnd ==
  ASSUME LifeInv, GivenBackInv, JobEnds \/ OpeningEnds, Stays(life, life'), RetiredKept
  PROVE  GivenBackInv'
  <1>1. UNCHANGED <<storage, ends, snap, jobs>>
    BY DEF JobEnds, OpeningEnds, JobFrame, AroundFrame, lookVars, histVars
  <1>2. CASE OpeningEnds
    <2>1. ready' = ready /\ opening = "running"
      BY <1>2 DEF OpeningEnds
    <2>2. ~Retired(life)
      BY <2>1 DEF LifeInv, Shape, Retired
    <2> QED
      BY <1>1, <2>1, <2>2, SameSnap, UsersAsTheyAre, GivenStays
  <1>3. CASE JobEnds
    <2>1. admitted' = admitted
      BY <1>3 DEF JobEnds
    <2>2. PICK j \in {"enroll", "publish", "capture"}, end \in {"kept", "broken"} :
            storage.owner # j /\ ready' = ready \cup {IF j = "capture" THEN end ELSE j}
      BY <1>3 DEF JobEnds
    <2>3. UsersFit
      BY <1>1, <2>2 DEF GivenBackInv, Users, UsersFit
    <2>4. Retired(life) => ~admitted' /\ ~jobs'.capture /\ ~jobs'.uses
      BY <1>1, <2>1 DEF GivenBackInv, Ends
    <2> QED
      BY <1>1, <2>3, <2>4, SameSnap, GivenStays
  <1> QED
    BY <1>2, <1>3

LEMMA StorageMoves ==
  ASSUME LifeInv, GivenBackInv, StorageStart \/ StorageEnd, Stays(life, life'), engine' = engine
  PROVE  GivenBackInv'
  <1>1. UNCHANGED <<ends, snap, jobs, ready, admitted, life>>
    BY DEF StorageStart, StorageEnd, StorageFrame, AroundFrame, lookVars, histVars, jobVars
  <1>2. RetiredKnown' /\ Ends'
    BY <1>1 DEF GivenBackInv, RetiredKnown, Ends
  <1>3. CASE StorageEnd
    <2>1. storage' = [owner |-> "none", done |-> storage.done + 1]
      BY <1>3 DEF StorageEnd
    <2>2. storage'.owner = "none" /\ storage' = [owner |-> storage'.owner, done |-> storage'.done]
      BY <2>1
    <2>3. Users'
      BY <2>2 DEF Users
    <2> QED
      BY <1>2, <2>3 DEF GivenBackInv
  <1>4. CASE StorageStart
    <2>1. PICK o \in {"core", "enroll", "publish", "capture"} :
            /\ o = "core" => HasSession(life) /\ ~engine.retired
            /\ o = "capture" => jobs.capture /\ ready \cap {"kept", "broken"} = {}
            /\ o = "enroll" => jobs.enroll # None /\ "enroll" \notin ready
            /\ o = "publish" => jobs.publish # None /\ "publish" \notin ready
            /\ storage' = [storage EXCEPT !.owner = o]
      <3>1. PICK o \in {"core", "enroll", "publish", "capture"} :
              /\ CASE o = "core" -> HasSession(life) /\ ~engine.retired
                   [] o = "capture" -> jobs.capture /\ ready \cap {"kept", "broken"} = {}
                   [] OTHER -> jobs[o] # None /\ o \notin ready
              /\ storage' = [storage EXCEPT !.owner = o]
        BY <1>4 DEF StorageStart
      <3>2. CASE o = "core"
        BY <3>1, <3>2
      <3>3. CASE o = "capture"
        BY <3>1, <3>3
      <3>4. CASE o = "enroll"
        BY <3>1, <3>4
      <3>5. CASE o = "publish"
        BY <3>1, <3>5
      <3> QED
        BY <3>2, <3>3, <3>4, <3>5
    <2>2. storage'.owner = o /\ storage' = [owner |-> storage'.owner, done |-> storage'.done]
      BY <2>1 DEF GivenBackInv, Users
    <2>3. Users'
      BY <1>1, <2>1, <2>2 DEF Users, None
    <2> QED
      BY <1>2, <2>3 DEF GivenBackInv
  <1> QED
    BY <1>3, <1>4

LEMMA Snapshots ==
  ASSUME LifeInv, GivenBackInv, LastStatus \/ Finish, Stays(life, life'), RetiredKept
  PROVE  GivenBackInv'
  <1>1. /\ UNCHANGED <<storage, ends, jobs, ready, admitted>>
        /\ \/ snap' = [cutoff |-> engine.cutoff, retired |-> engine.retired,
                emitted |-> emitted, busy |-> engine.busy, calls |-> engine.calls]
           \/ snap' = [cutoff |-> TRUE, retired |-> engine.retired, emitted |-> emitted,
                        busy |-> engine.busy, calls |-> engine.calls]
           \/ snap' = [snap EXCEPT !.cutoff = @ \/ life.capture]
    BY DEF LastStatus, Finish, ControlFrame, jobVars, envVars, histVars
  <1>2. IsSnap(snap)
    BY DEF GivenBackInv, RetiredKnown, IsSnap
  <1>3. IsSnap(snap') /\ (snap'.retired = snap.retired \/ snap'.retired = engine.retired)
    <2>1. CASE snap' = [snap EXCEPT !.cutoff = snap.cutoff \/ life.capture]
      BY <1>2, <2>1 DEF IsSnap
    <2>2. ASSUME NEW c, snap' = [cutoff |-> c, retired |-> engine.retired,
                emitted |-> emitted, busy |-> engine.busy, calls |-> engine.calls]
          PROVE  IsSnap(snap') /\ snap'.retired = engine.retired
      BY <2>2 DEF IsSnap
    <2> QED
      BY <1>1, <2>1, <2>2
  <1>4. Retired(life) => ~admitted' /\ ~jobs'.capture /\ ~jobs'.uses
    BY <1>1 DEF GivenBackInv, Ends
  <1> QED
    BY <1>1, <1>3, <1>4, UsersAsTheyAre, GivenStays
LEMMA LookingGivesBack ==
  ASSUME LifeInv, FinalsInv, GivenBackInv, Looking PROVE GivenBackInv'
  <1>1. UNCHANGED <<storage, jobs, ready, snap>>
    BY DEF Looking, LookAtSession, LookAtCapture, LookAtNothing, LookFrame, envVars
  <1>2. CASE Stays(life, life') /\ UNCHANGED EndVars
    <2>1. UNCHANGED <<admitted, ends, engine>>
      BY <1>2 DEF EndVars
    <2>2. RetiredKept /\ Retired(life) => ~admitted' /\ ~jobs'.capture /\ ~jobs'.uses
      BY <1>1, <2>1 DEF RetiredKept, GivenBackInv, Ends
    <2>3. RetiredKept
      BY <2>1 DEF RetiredKept
    <2>4. Retired(life) => ~admitted' /\ ~jobs'.capture /\ ~jobs'.uses
      BY <2>2, <2>3
    <2> QED
      BY <1>1, <1>2, <2>1, <2>3, <2>4, SameSnap, UsersAsTheyAre, GivenStays
  <1>3. ASSUME NEW l, ~Retired(life), jobs = NoJobs, Over(l), HasSession(life) => snap.retired,
               HasSession(life') = FALSE, Retired(life'), life'.session = life.session
        PROVE  GivenBackInv'
    <2>1. jobs' = [enroll |-> 0, publish |-> 0, capture |-> FALSE, uses |-> FALSE]
          /\ admitted' = FALSE /\ ends' = ends + 1
      BY <1>1, <1>3 DEF NoJobs, None, Over
    <2>2. storage.owner = "none"
      <3>1. storage.owner \notin {"capture", "enroll", "publish"}
        BY <1>1, <2>1 DEF GivenBackInv, Users
      <3>2. storage.owner # "core"
        BY <1>3 DEF GivenBackInv, Users, RetiredKnown
      <3> QED
        BY <3>1, <3>2 DEF GivenBackInv, Users
    <2>3. Users'
      BY <1>1, <2>2 DEF GivenBackInv, Users
    <2>4. RetiredKnown'
      BY <1>1, <1>3 DEF GivenBackInv, RetiredKnown
    <2>5. Ends'
      <3>1. life.session \in Nat /\ ends \in Int /\ ends = life.session - 1
        BY <1>3 DEF GivenBackInv, Ends, LifeInv, Shape, LifeType
      <3>2. ends' \in Int /\ ends' = life'.session
        BY <1>3, <2>1, <3>1
      <3> QED
        BY <1>3, <2>1, <3>2 DEF Ends
    <2> QED
      BY <2>3, <2>4, <2>5 DEF GivenBackInv
  <1> QED
    BY <1>2, <1>3, LookEnds

LEMMA OpenedGivesBack ==
  ASSUME LifeInv, GivenBackInv, Opened PROVE GivenBackInv'
  <1>1. /\ UNCHANGED <<storage, jobs, ready, admitted, ends>>
        /\ \/ /\ engine' = [NoEngine EXCEPT !.cutoff = early]
              /\ snap' = [NoSnap EXCEPT !.cutoff = early]
           \/ UNCHANGED <<engine, snap>>
    BY DEF Opened, envVars, histVars
  <1>2. /\ HasSession(life') /\ ~HasSession(life) /\ ~Retired(life) /\ ~Retired(life')
        /\ life'.session = life.session
    BY OpenedLife
  <1>3. Users'
    BY <1>1, <1>2 DEF GivenBackInv, Users
  <1>4. RetiredKnown'
    <2>1. CASE UNCHANGED <<engine, snap>>
      BY <1>2, <2>1 DEF GivenBackInv, RetiredKnown
    <2>2. CASE snap' = [NoSnap EXCEPT !.cutoff = early]
      <3>1. snap' = [cutoff |-> early, retired |-> FALSE, emitted |-> 0, busy |-> FALSE,
                     calls |-> 0]
        BY <2>2 DEF NoSnap
      <3> QED
        BY <3>1 DEF RetiredKnown
    <2> QED
      BY <1>1, <2>1, <2>2
  <1>5. Ends'
    BY <1>1, <1>2 DEF GivenBackInv, Ends
  <1> QED
    BY <1>3, <1>4, <1>5 DEF GivenBackInv

LEMMA OpenGivesBack ==
  ASSUME LifeInv, GivenBackInv, NEW c \in BOOLEAN, Open(c) PROVE GivenBackInv'
  <1>1. UNCHANGED <<storage, jobs, ready, admitted, ends>> /\ snap' = NoSnap /\ engine' = NoEngine
    BY DEF Open, jobVars
  <1>2. /\ Retired(life) /\ ~HasSession(life) /\ ~HasSession(life') /\ ~Retired(life')
        /\ life'.session = life.session + 1
    BY OpenLife
  <1>3. Users'
    BY <1>1, <1>2 DEF GivenBackInv, Users
  <1>4. RetiredKnown'
    BY <1>1 DEF RetiredKnown, NoSnap
  <1>5. Ends'
    <2>1. life.session \in Nat
      BY DEF LifeInv, Shape, LifeType
    <2> QED
      BY <1>1, <1>2, <2>1 DEF GivenBackInv, Ends
  <1> QED
    BY <1>3, <1>4, <1>5 DEF GivenBackInv

(* Every step keeps what a session has until it is given back.             *)
LEMMA NextKeepsGiven ==
  ASSUME LifeInv, OwedInv, FinalsInv, GivenBackInv, [Next]_vars PROVE GivenBackInv'
  <1>1. CASE TurningPoints
    BY <1>1, OpenedGivesBack, LookingGivesBack, OpenGivesBack DEF TurningPoints
  <1>2. CASE ~TurningPoints
    <2>1. Stays(life, life')
      BY <1>2, LifeStays DEF TurningPoints
    <2>2. RetiredKept
      BY <1>2, EngineRetires
    <2>3. CASE Jobs \/ Manage \/ Record \/ Input
      BY <2>1, <2>2, <2>3, JobsGiveBack, JobsBegin, InputGivesBack
    <2>4. CASE JobEnds \/ OpeningEnds \/ LastStatus \/ Finish
      BY <2>1, <2>2, <2>4, FuturesEnd, Snapshots
    <2>5. CASE StorageStart \/ StorageEnd
      <3>1. engine' = engine
        BY <2>5 DEF StorageStart, StorageEnd, StorageFrame, engineVars
      <3> QED
        BY <2>1, <2>5, <3>1, StorageMoves
    <2>6. CASE ~GivenSteps
      <3>1. UNCHANGED <<storage, jobs, ready, admitted, ends, snap>>
        BY <1>2, <2>6, OtherSteps
      <3>2. Retired(life) => ~admitted' /\ ~jobs'.capture /\ ~jobs'.uses
        BY <3>1 DEF GivenBackInv, Ends
      <3> QED
        BY <2>1, <2>2, <3>1, <3>2, SameSnap, UsersAsTheyAre, GivenStays
    <2> QED
      BY <2>3, <2>4, <2>5, <2>6 DEF GivenSteps
  <1> QED
    BY <1>1, <1>2

LEMMA InitGiven == Init => GivenBackInv
  <1> SUFFICES ASSUME Init PROVE GivenBackInv
    OBVIOUS
  <1>1. /\ storage = [owner |-> "none", done |-> 0] /\ ends = 0 /\ ~admitted /\ jobs = NoJobs
        /\ snap = NoSnap /\ life.session = 0 /\ life.state = "closed"
    BY DEF Init
  <1>2. Users
    BY <1>1 DEF Users
  <1>3. RetiredKnown
    BY <1>1 DEF RetiredKnown, NoSnap
  <1>4. Ends
    BY <1>1 DEF Ends, Retired, NoJobs
  <1> QED
    BY <1>2, <1>3, <1>4 DEF GivenBackInv

----------------------------------------------------------------------------
(* A drain is given up once for a reason the worker names.                 *)
LEMMA NextKeepsStall == ASSUME StallType, [Next]_vars PROVE StallType'
  <1> DEFINE Typed == stall' \in {stall, "idle", "early"}
  <1>1. ASSUME Read \/ Jobs \/ Opened \/ NotOpened \/ Status \/ TakeEvent \/ EventsTaken \/ Replies
        PROVE  Typed
    BY <1>1 DEF Read, Jobs, Opened, NotOpened, Status, TakeEvent, EventsTaken, Replies, histVars
  <1>2. ASSUME Reconcile \/ ReleaseThrows \/ NextAudio \/ LastStatus \/ Input PROVE Typed
    BY <1>2 DEF Reconcile, ReleaseThrows, NextAudio, LastStatus, Input, histVars
  <1>3. ASSUME Abandon \/ LookAtSession \/ LookAtCapture \/ LookAtNothing PROVE Typed
    BY <1>3 DEF Abandon, LookAtSession, LookAtCapture, LookAtNothing, Patience
  <1>4. ASSUME Nothing \/ Values \/ Refusal \/ Finish \/ Drain \/ Abort PROVE Typed
    BY <1>4 DEF Nothing, Values, Refusal, Finish, Drain, Abort, ControlFrame
  <1>5. ASSUME Manage \/ Record \/ Synthesize \/ Stop \/ Report \/ \E c \in BOOLEAN : Open(c)
        PROVE  Typed
    BY <1>5 DEF Manage, Record, Synthesize, Stop, Report, Open, ControlFrame
  <1>6. ASSUME Around PROVE Typed
    BY <1>6, AroundKeeps DEF AroundKept
  <1>7. ASSUME UNCHANGED vars PROVE Typed
    BY <1>7 DEF vars, histVars
  <1> HIDE DEF Typed
  <1>8. Typed
    BY <1>1, <1>2, <1>3, <1>4, <1>5, <1>6, <1>7 DEF Next, Loop, Control
  <1> QED
    BY <1>8 DEF Typed, StallType

----------------------------------------------------------------------------
(* The invariant is one: it holds at the start, and every step of the loop *)
(* and of what runs around it keeps it.                                    *)
THEOREM Invariance == Spec => []IInv
  <1>1. Init => IInv
    BY InitLife, InitOwed, InitHeld, InitFinals, InitGiven, InitReply DEF IInv, StallType, Init
  <1>2. IInv /\ [Next]_vars => IInv'
    BY NextKeepsLife, NextKeepsOwed, NextKeepsHeld, NextKeepsFinals, NextKeepsGiven,
       NextKeepsReply, NextKeepsStall DEF IInv
  <1> QED
    BY <1>1, <1>2, PTL DEF Spec

(* Every variable of the worker keeps its type.                            *)
THEOREM TypeCorrect == Spec => []TypeOK
  <1>1. IInv => TypeOK
    <2> SUFFICES ASSUME IInv PROVE TypeOK
      OBVIOUS
    <2>1. asked \in Nat /\ asked <= MaxRequests /\ MaxRequests \in Nat
      BY CapacityAssumption DEF IInv, OwedInv, LineTypes
    <2>2. hand.id \in 0..MaxRequests
      BY <2>1 DEF IInv, OwedInv, LineTypes
    <2>3. lost \subseteq Requests
      BY <2>1 DEF IInv, OwedInv, LineTypes, Requests
    <2>4. jobs.enroll \in 0..MaxRequests /\ jobs.publish \in 0..MaxRequests
      BY <2>1 DEF IInv, OwedInv, LineTypes, AtJobs
    <2>5. answers \in [Requests -> Nat] /\ Len(held) <= ReportBacklog
      BY DEF IInv, OwedInv, LineTypes, HeldInv
    <2>6. /\ life.state \in {"closed", "opening", "open", "draining", "failed"}
          /\ life.failure \in {"none", "contained", "failed"}
          /\ life.core \in {"none", "running", "draining", "aborting"}
          /\ life.closing \in -1..(DrainIdle + CaptureClose + AbortTime + RetireTime)
          /\ opening \in {"none", "running", "opened", "refused", "broken"}
      BY DEF IInv, LifeInv, Shape, LifeType, Longest, OpeningKnown
    <2>7. /\ rows \in [Finals -> {"none", "pending", "late", "over"}]
          /\ said \in [Finals -> Nat]
      BY DEF IInv, FinalsInv, FinalTypes
    <2>8. reply.given <= script.frames /\ reply.delivered <= reply.given
      <3>1. script.frames \in Nat
        BY ScriptsAssumption DEF IInv, ReplyInv
      <3> QED
        BY <3>1 DEF IInv, ReplyInv, AudioFits
    <2> QED
      BY <2>2, <2>3, <2>4, <2>5, <2>6, <2>7, <2>8 DEF TypeOK, IInv, StallType
  <1> QED
    BY <1>1, Invariance, PTL

(* A request the worker has taken is answered once: the line is at one     *)
(* place at a time, in the carrier's hand, the loop's, a future's or among *)
(* the reports held back, and is answered when it leaves the last.         *)
THEOREM AnsweredOnceHolds == Spec => []AnsweredOnce
  <1>1. IInv => AnsweredOnce
    <2> SUFFICES ASSUME IInv PROVE AnsweredOnce
      OBVIOUS
    <2>1. asked \in Nat /\ asked <= MaxRequests /\ MaxRequests \in Nat
      BY CapacityAssumption DEF IInv, OwedInv, LineTypes
    <2>2. DOMAIN held = 1..Len(held) /\ DOMAIN queue = 1..Len(queue)
      BY DEF IInv, OwedInv, LineTypes, ProperSeq
    <2>3. Owed \cap Requests \subseteq Owing \cup InQueue
      BY <2>2 DEF Owed, AtHand, AtJobs, AtHeld, AtQueue, Owing, InQueue
    <2>4. \A r \in 1..asked : answers[r] = 0 => r \in Owing \/ r \in InQueue \/ r \in lost
      <3>1. \A r \in 1..asked : r \in Requests
        BY <2>1 DEF Requests
      <3> QED
        BY <2>3, <3>1 DEF IInv, OwedInv, AnswersFit
    <2>5. pc = "exited" => Owing = {}
      <3> SUFFICES ASSUME pc = "exited" PROVE Owing = {}
        OBVIOUS
      <3>1. jobs.enroll = 0 /\ jobs.publish = 0 /\ held = <<>> /\ hand.id = 0
        BY DEF IInv, HeldInv, OwedInv, HandIsEmpty, NoJobs, None
      <3>2. {held[i].id : i \in 1..Len(held)} = {}
        BY <3>1
      <3> QED
        BY <3>1, <3>2 DEF Owing, Requests
    <2>6. Retired(life) => held = <<>>
      BY SessionIsLive DEF IInv, HeldInv
    <2> QED
      BY <2>4, <2>5, <2>6 DEF IInv, OwedInv, AnswersFit, AnsweredOnce
  <1> QED
    BY <1>1, Invariance, PTL

(* What a session has taken is given back when it ends, and each final of  *)
(* it has been told its speaker once, whoever named it.                    *)
THEOREM EndsOnceHolds == Spec => []EndsOnce
  <1>1. IInv => EndsOnce
    <2> SUFFICES ASSUME IInv PROVE EndsOnce
      OBVIOUS
    <2>1. life.session - 1 <= ends /\ ends <= life.session
      <3>1. life.session \in Nat /\ (ends = life.session \/ ends = life.session - 1)
        BY DEF IInv, LifeInv, Shape, LifeType, GivenBackInv, Ends
      <3> QED
        BY <3>1
    <2>2. \A f \in Finals : said[f] \in Nat /\ rows[f] \in {"none", "pending", "late", "over"}
      BY DEF IInv, FinalsInv, FinalTypes
    <2>3. \A f \in Finals : said[f] = 0 \/ (said[f] = 1 /\ rows[f] \in {"late", "over"})
      BY <2>2 DEF IInv, FinalsInv, SaidFits
    <2>4. ASSUME Retired(life)
          PROVE  /\ ~HasSession(life) /\ opening = "none" /\ ~admitted
                 /\ ~jobs.capture /\ ~jobs.uses /\ task.state = "none"
                 /\ Pending = {}
                 /\ storage.owner \in {"none", "enroll", "publish"}
                 /\ storage.owner # "none" => jobs # NoJobs
                 /\ life.state = "closed" => \A f \in Finals : rows[f] # "none" => said[f] = 1
      <3>1. ~HasSession(life)
        BY <2>4, SessionIsLive DEF IInv
      <3>2. opening = "none"
        BY <2>4 DEF IInv, LifeInv, Shape, Retired
      <3>3. ~admitted /\ ~jobs.capture /\ ~jobs.uses
        BY <2>4 DEF IInv, GivenBackInv, Ends
      <3>4. task.state = "none"
        BY <3>1 DEF IInv, HeldInv
      <3>5. Pending = {}
        BY <2>4 DEF IInv, FinalsInv, SaidFits, Pending
      <3>6. storage.owner \in {"none", "enroll", "publish"}
        BY <3>1, <3>3 DEF IInv, GivenBackInv, Users
      <3>7. storage.owner # "none" => jobs # NoJobs
        BY <3>6 DEF IInv, GivenBackInv, Users, NoJobs, None
      <3>8. life.state = "closed" => \A f \in Finals : rows[f] # "none" => said[f] = 1
        BY <2>2, <2>4 DEF IInv, FinalsInv, SaidFits
      <3> QED
        BY <3>1, <3>2, <3>3, <3>4, <3>5, <3>6, <3>7, <3>8
    <2> QED
      BY <2>1, <2>3, <2>4 DEF EndsOnce
  <1> QED
    BY <1>1, Invariance, PTL

----------------------------------------------------------------------------
----------------------------------------------------------------------------
(* The time of a drain is what it has been without work, but for work that *)
(* is under way or that the loop has still to look at.                     *)
Stirs ==
    \/ storage.owner # "none" \/ storage.done # seen.storage \/ HasWritten
    \/ IF pc = "look" THEN snap.busy \/ snap.calls # seen.calls
       ELSE engine.busy \/ engine.calls # seen.calls
LookTypes ==
    /\ {quiet, storage.done, seen.storage, engine.calls, snap.calls, seen.calls} \subseteq Nat
    /\ {engine.busy, snap.busy} \subseteq BOOLEAN
    /\ seen = [storage |-> seen.storage, calls |-> seen.calls, events |-> seen.events]
CallsCounted ==
    /\ seen.storage <= storage.done
    /\ HasSession(life) => snap.calls <= engine.calls
    /\ HasSession(life) /\ (Draining(life) \/ pc = "control") => seen.calls <= snap.calls
    /\ HasSession(life) /\ pc = "look" /\ snap.busy =>
         engine.busy \/ engine.calls # snap.calls
    /\ ~HasSession(life) => ~engine.busy
    /\ ~HasSession(life) /\ ~Retired(life) =>
         engine.calls = 0 /\ snap.calls = 0 /\ ~snap.busy
DrainTimed ==
    Draining(life) /\ (HasSession(life) \/ life.capture) =>
      life.closing + quiet >= Grace(life) \/ Stirs
TimedInv == LookTypes /\ CallsCounted /\ DrainTimed /\ stall # "early"

----------------------------------------------------------------------------
(* The time of a drain.                                                    *)

(* A life that failed does not drain with grace.                           *)
LEMMA FailedDrainsNot ==
  ASSUME NEW l, NEW o, Shape(l, o)
  PROVE  /\ ~Draining(Fail(l)) /\ ~Draining(FailSession(l)) /\ ~Draining(FailEngine(l))
         /\ ~Draining(AtEof(l))
         /\ Fail(l).failure # "none" /\ FailSession(l).failure # "none"
         /\ FailEngine(l).failure # "none"
  <1> DEFINE f == Fail(l)
             q == Quit(l)
  <1>0. ASSUME NEW k, Shape(k, o), k.failure # "none" PROVE ~Draining(k)
    BY <1>0 DEF Shape, Draining
  <1>1. f.failure # "none" /\ Shape(f, o)
    BY FailIsWorse, WorseKeepsShape
  <1>2. ~Draining(f)
    BY <1>0, <1>1
  <1>3. FailSession(l).failure # "none"
    <2>1. FailSession(l) = IF l.failure # "none" THEN l ELSE [f EXCEPT !.failure = "contained"]
      BY DEF FailSession
    <2> HIDE DEF f
    <2> QED
      BY <1>1, <2>1 DEF Shape, LifeType
  <1>4. FailEngine(l).failure # "none"
    <2>1. Shape(q, o)
      BY QuitIsWorse, WorseKeepsShape
    <2>2. FailEngine(l) = IF q.failure = "contained" THEN [q EXCEPT !.failure = "failed"] ELSE Fail(q)
      BY DEF FailEngine
    <2> HIDE DEF q
    <2>3. Fail(q).failure # "none"
      BY <2>1, FailIsWorse
    <2> QED
      BY <2>1, <2>2, <2>3 DEF Shape, LifeType
  <1>5. Shape(FailSession(l), o) /\ Shape(FailEngine(l), o)
    BY FailSessionIsWorse, FailEngineIsWorse, WorseKeepsShape
  <1>6. ~Draining(AtEof(l))
    <2> DEFINE r == [q EXCEPT !.live = FALSE]
    <2>1. q \in LifeType
      BY QuitIsWorse DEF Worse
    <2>2. AtEof(l) = IF Retired(r) THEN r ELSE Aborting(r, r.exit)
      BY DEF AtEof
    <2> HIDE DEF q
    <2>3. r \in LifeType
      BY <2>1 DEF LifeType
    <2> HIDE DEF r
    <2>4. Aborting(r, r.exit).abort
      BY <2>3 DEF Aborting, LifeType
    <2> QED
      BY <2>2, <2>4 DEF Draining, Retired
  <1> QED
    BY <1>0, <1>1, <1>2, <1>3, <1>4, <1>5, <1>6

LEMMA AdvancedDrain ==
  ASSUME NEW l, l \in LifeType
  PROVE  /\ AdvanceDrain(l).closing \in {l.closing, DrainIdle}
         /\ Draining(l) /\ HasSession(l) => AdvanceDrain(l).closing = DrainIdle
         /\ Draining(AdvanceDrain(l)) => Draining(l)
         /\ AdvanceDrain(l).failure = l.failure
  BY DEF AdvanceDrain, LifeType, Draining

(* A life that drains with grace did so before, in the same session.       *)
LEMMA DrainedBefore ==
  ASSUME NEW l, NEW m, Worse(l, m), Draining(m)
  PROVE  Draining(l) /\ m.capture = l.capture /\ (HasSession(m) <=> HasSession(l))
  BY DEF Worse, Draining, Retired

(* Its deadline is put off by progress alone, but at the end of a pass.    *)
Paced == Draining(life') => life'.closing \in {life.closing, DrainIdle}
LEMMA NextIsPaced ==
  ASSUME LifeInv, [Next]_vars, ~Turning, ~Looking, ~Input
  PROVE  Paced
  <1>0. Shape(life, opening) /\ life \in LifeType
    BY DEF LifeInv, Shape
  <1>1. ASSUME life' = life \/ life' = AdvanceDrain(life) PROVE Paced
    BY <1>0, <1>1, AdvancedDrain DEF Paced
  <1>2. ASSUME \/ life' = Fail(life) \/ life' = FailSession(life) \/ life' = FailEngine(life)
               \/ ~Draining(life')
        PROVE  Paced
    BY <1>0, <1>2, FailedDrainsNot DEF Paced
  <1>3. CASE Read
    <2> DEFINE ended == IF "eof" \in faults /\ queue = <<>> /\ ~life.quit
                        THEN AtEof(life) ELSE life
               broken == IF "transport" \in faults THEN FailEngine(ended) ELSE ended
    <2>1. life' = IF "audio_eof" \in faults /\ ~broken.quit /\ ~Retired(broken)
                  THEN Fail(broken) ELSE broken
      BY <1>3 DEF Read
    <2>2. ended = life \/ ~Draining(ended)
      BY <1>0, FailedDrainsNot
    <2>3. Shape(ended, opening)
      BY <1>0, AtEofIsWorse, WorseKeepsShape
    <2> HIDE DEF ended
    <2>4. Shape(broken, opening)
      BY <2>3, FailEngineIsWorse, WorseKeepsShape
    <2>5. broken = ended \/ ~Draining(broken)
      BY <2>3, FailedDrainsNot
    <2> HIDE DEF broken
    <2>6. life' = broken \/ ~Draining(life')
      BY <2>1, <2>4, FailedDrainsNot
    <2> QED
      BY <1>1, <1>2, <2>2, <2>5, <2>6
  <1>4. CASE NotOpened
    <2>1. ASSUME NEW l, Shape(l, opening), Onward(l)
          PROVE  life' = l \/ ~Draining(life')
      BY <2>1, FailedDrainsNot DEF Onward
    <2>2. Throw(life) \/ Onward(FailSession(life)) \/ Onward(life)
      BY <1>4 DEF NotOpened
    <2>3. Shape(FailSession(life), opening)
      BY <1>0, FailSessionIsWorse, WorseKeepsShape
    <2> QED
      BY <1>0, <1>1, <1>2, <2>1, <2>2, <2>3 DEF Throw
  <1>5. CASE Status
    <2> DEFINE l == IF engine.error THEN FailEngine(life) ELSE life
               wrote == task.state \in {"done", "failed"}
               moved == wrote /\ (task.written > 0 \/ task.endWritten)
               l1 == IF moved THEN AdvanceDrain(l) ELSE l
    <2>1. life' = IF task.state = "failed" THEN Fail(l1) ELSE l1
      BY <1>5 DEF Status
    <2>2. Shape(l, opening) /\ (l = life \/ ~Draining(l))
      BY <1>0, FailedDrainsNot, FailEngineIsWorse, WorseKeepsShape
    <2> HIDE DEF l, wrote, moved
    <2>3. Shape(l1, opening) /\ (Draining(l1) => Draining(l) /\ l1.closing \in {l.closing, DrainIdle})
      BY <2>2, AdvancedDrain, AdvanceDrainIsWorse, WorseKeepsShape DEF Shape
    <2> HIDE DEF l1
    <2>4. life' = l1 \/ ~Draining(life')
      BY <2>1, <2>3, FailedDrainsNot
    <2> QED
      BY <2>2, <2>3, <2>4 DEF Paced
  <1>6. CASE LastStatus
    <2> DEFINE l == IF engine.error THEN FailEngine(life) ELSE life
    <2>1. life' = IF emitted > seen.events THEN AdvanceDrain(l) ELSE l
      BY <1>6 DEF LastStatus
    <2>2. Shape(l, opening) /\ (l = life \/ ~Draining(l))
      BY <1>0, FailedDrainsNot, FailEngineIsWorse, WorseKeepsShape
    <2> HIDE DEF l
    <2> QED
      BY <2>1, <2>2, AdvancedDrain DEF Paced, Shape
  <1>7. CASE Abort
    <2>1. \E time : life' = [Aborting(life, time) EXCEPT !.live = FALSE]
      BY <1>7 DEF Abort
    <2>2. life'.abort
      BY <1>0, <2>1 DEF Aborting, LifeType
    <2> QED
      BY <1>2, <2>2 DEF Draining
  <1>8. CASE Manage \/ Record
    <2>1. life'.closing = life.closing
      BY <1>0, <1>8 DEF Manage, Record, LifeType
    <2> QED
      BY <2>1 DEF Paced
  <1>9. CASE Jobs \/ Replies \/ Reconcile \/ Refusal
    <2>1. life' \in {life, Fail(life), FailSession(life), AdvanceDrain(life)}
      BY <1>9 DEF Jobs, Replies, Reconcile, JudgeReport, Refusal
    <2> QED
      BY <1>1, <1>2, <2>1
  <1>10. CASE TakeEvent \/ ReleaseThrows \/ Report
    <2>1. life' = life \/ life' = FailEngine(life) \/ life' = AdvanceDrain(life)
      BY <1>10 DEF TakeEvent, ReleaseThrows, Throw, Report, JudgeReport
    <2> QED
      BY <1>1, <1>2, <2>1
  <1>11. CASE EventsTaken \/ NextAudio \/ Abandon \/ Nothing \/ Finish \/ Synthesize \/ Stop
    BY <1>1, <1>11 DEF EventsTaken, NextAudio, Abandon, Nothing, Finish, Synthesize, Stop
  <1>12. CASE Around
    BY <1>1, <1>12, AroundKeeps DEF AroundKept
  <1>13. CASE UNCHANGED vars
    BY <1>1, <1>13 DEF vars
  <1> QED
    BY <1>3, <1>4, <1>5, <1>6, <1>7, <1>8, <1>9, <1>10, <1>11, <1>12, <1>13
       DEF Next, Loop, Control, Turning, Looking
----------------------------------------------------------------------------
(* The steps that are work, or look at it.                                 *)
WorkSteps ==
    Opened \/ (\E c \in BOOLEAN : Open(c)) \/ LastStatus \/ Finish \/ Looking \/ Input \/ Drain
    \/ StorageStart \/ StorageEnd \/ Write \/ ModelStart \/ ModelEnd
WorkKept ==
    /\ UNCHANGED <<quiet, storage, stall>>
    /\ seen' = [storage |-> seen.storage, calls |-> seen.calls, events |-> seen'.events]
    /\ snap'.busy = snap.busy /\ snap'.calls = snap.calls
    /\ engine'.busy = engine.busy /\ engine'.calls = engine.calls

LEMMA OthersKeepWork ==
  ASSUME IsEngine(engine), LookTypes, [Next]_vars, ~WorkSteps PROVE WorkKept
  <1> DEFINE Same == UNCHANGED <<quiet, storage, stall, seen, snap>>
             Like == UNCHANGED <<quiet, storage, stall, snap>>
  <1>1. ASSUME Read \/ Jobs \/ NotOpened \/ Status \/ TakeEvent \/ EventsTaken \/ Replies \/ Reconcile
        PROVE  Same /\ engine' = engine
    BY <1>1 DEF Read, Jobs, NotOpened, Status, TakeEvent, EventsTaken, Replies, Reconcile,
       engineVars, lookVars, envVars, histVars
  <1>2. ASSUME ReleaseThrows \/ NextAudio \/ Abandon PROVE Same /\ engine' = engine
    BY <1>2 DEF ReleaseThrows, NextAudio, Abandon, EndVars, LookFrame, engineVars, lookVars,
       envVars, histVars
  <1>3. ASSUME Nothing \/ Values \/ Refusal \/ Manage \/ Record \/ Synthesize \/ Stop \/ Report
        PROVE  Same /\ engine' = engine
    BY <1>3 DEF Nothing, Values, Refusal, Manage, Record, Synthesize, Stop, Report, ControlFrame,
       engineVars, lookVars
  <1>4. ASSUME Abort
        PROVE  Like /\ engine' = engine /\ seen' = [seen EXCEPT !.events = snap.emitted]
    BY <1>4 DEF Abort, Closing, ControlFrame, engineVars
  <1>5. ASSUME NEW op \in Ops, Send(op) PROVE Same /\ engine' = engine
    BY <1>5 DEF Send, AroundFrame, engineVars, lookVars, envVars, histVars
  <1>6. ASSUME SettingsAnswer \/ SendFrame \/ Strike \/ OpeningEnds \/ JobEnds
        PROVE  Same /\ engine' = engine
    BY <1>6 DEF SettingsAnswer, SendFrame, Strike, OpeningEnds, JobEnds, JobFrame, AroundFrame,
       engineVars, lookVars, envVars, histVars
  <1>7. ASSUME WriteFails PROVE Same /\ engine' = engine
    BY <1>7 DEF WriteFails, WriterFrame, AroundFrame, engineVars, lookVars, histVars
  <1>8. ASSUME CoreFinal \/ CoreObserve \/ CoreFinish
        PROVE  /\ Same
               /\ \/ engine' = [engine EXCEPT !.finals = engine.finals + 1]
                  \/ \E o : engine' = [engine EXCEPT !.finals = engine.finals + 1, !.owed = o]
                  \/ \E o : engine' = [engine EXCEPT !.owed = o]
                  \/ engine' = [engine EXCEPT !.done = TRUE]
    BY <1>8 DEF CoreFinal, CoreObserve, CoreFinish, CoreFrame, AroundFrame, lookVars, histVars
  <1>9. ASSUME Generate \/ GenRetire \/ CoreFence PROVE Same /\ engine' = engine
    BY <1>9 DEF Generate, GenRetire, CoreFence, CoreFrame, AroundFrame, engineVars, lookVars,
       histVars
  <1>10. ASSUME CoreFault \/ CoreRetire
         PROVE  Same /\ (engine' = [engine EXCEPT !.error = TRUE]
                         \/ engine' = [engine EXCEPT !.retired = TRUE])
    BY <1>10 DEF CoreFault, CoreRetire, CoreFrame, AroundFrame, lookVars, histVars
  <1>11. ASSUME UNCHANGED vars PROVE Same /\ engine' = engine
    BY <1>11 DEF vars, engineVars, lookVars, envVars, histVars
  <1>12. ASSUME Same /\ engine' = engine PROVE WorkKept
    BY <1>12 DEF WorkKept, LookTypes
  <1>13. ASSUME Abort PROVE WorkKept
    BY <1>4, <1>13 DEF WorkKept, LookTypes
  <1>14. ASSUME CoreFinal \/ CoreObserve \/ CoreFinish \/ CoreFault \/ CoreRetire PROVE WorkKept
    <2>1. Same
      BY <1>8, <1>10, <1>14
    <2>2. engine'.busy = engine.busy /\ engine'.calls = engine.calls
      BY <1>8, <1>10, <1>14 DEF IsEngine
    <2> QED
      BY <2>1, <2>2 DEF WorkKept, LookTypes
  <1> HIDE DEF Same, Like
  <1> QED
    BY <1>1, <1>2, <1>3, <1>5, <1>6, <1>7, <1>9, <1>11, <1>12, <1>13, <1>14
       DEF Next, Loop, Control, Around, WorkSteps, Looking

LEMMA WrittenStays ==
  ASSUME ReplyInv, [Next]_vars, ~Status, ~Write PROVE HasWritten' <=> HasWritten
  <1>1. CASE task' = task
    BY <1>1 DEF HasWritten
  <1>2. CASE WriteFails
    <2>1. task' = [task EXCEPT !.state = "failed"]
      BY <1>2 DEF WriteFails
    <2>2. task'.written = task.written /\ task'.endWritten = task.endWritten
      BY <2>1 DEF ReplyInv, AudioFits, IsTask
    <2> QED
      BY <2>2 DEF HasWritten
  <1>3. CASE NextAudio
    <2>1. \/ task' = task
          \/ /\ task.state = "none"
             /\ \/ \E n : task' = [NoTask EXCEPT !.state = "queued", !.frames = n]
                \/ task' = [NoTask EXCEPT !.state = "queued", !.end = TRUE]
      BY <1>3 DEF NextAudio
    <2>2. task.state = "none" => ~HasWritten
      BY DEF ReplyInv, AudioFits, HasWritten, NoTask
    <2>3. ASSUME \/ \E n : task' = [NoTask EXCEPT !.state = "queued", !.frames = n]
                 \/ task' = [NoTask EXCEPT !.state = "queued", !.end = TRUE]
          PROVE  ~HasWritten'
      <3>1. task'.written = 0 /\ task'.endWritten = FALSE
        BY <2>3 DEF NoTask
      <3> QED
        BY <3>1 DEF HasWritten
    <2> QED
      BY <1>1, <2>1, <2>2, <2>3
  <1>4. CASE Synthesize \/ Stop \/ Generate \/ CoreFence \/ \E c \in BOOLEAN : Open(c)
    <2>1. task' = task
      BY <1>4 DEF Synthesize, Stop, Generate, CoreFence, Open, ControlFrame, CoreFrame
    <2> QED
      BY <1>1, <2>1
  <1> QED
    BY <1>1, <1>2, <1>3, <1>4, NotedSteps

(* The look is reached from the last status or the opening.                *)
LEMMA LookPlaces ==
  ASSUME [Next]_vars, ~WorkSteps
  PROVE  /\ pc' = "look" => pc = "look" \/ NotOpened
         /\ pc = "look" => pc' = "look" \/ Abandon
         /\ pc' = "control" => pc = "control"
  <1> DEFINE Goes == /\ pc' = "look" => pc = "look" \/ NotOpened
                     /\ pc = "look" => pc' = "look" \/ Abandon
                     /\ pc' = "control" => pc = "control"
  <1>1. ASSUME Read \/ Jobs \/ Status \/ TakeEvent \/ EventsTaken \/ Replies PROVE Goes
    BY <1>1 DEF Read, Jobs, Status, TakeEvent, EventsTaken, Replies, loopVars, Throw
  <1>2. ASSUME Reconcile \/ ReleaseThrows \/ NextAudio \/ Abandon PROVE Goes
    BY <1>2 DEF Reconcile, ReleaseThrows, NextAudio, Abandon, loopVars, Throw
  <1>3. ASSUME NotOpened PROVE Goes
    BY <1>3 DEF NotOpened, Throw, Onward
  <1>4. ASSUME Nothing \/ Values \/ Refusal \/ Abort \/ Manage \/ Record PROVE Goes
    BY <1>4 DEF Nothing, Values, Refusal, Abort, Manage, Record, ControlFrame, Taken
  <1>5. ASSUME Synthesize \/ Stop \/ Report PROVE Goes
    BY <1>5 DEF Synthesize, Stop, Report, ControlFrame, Taken
  <1>6. ASSUME Around PROVE Goes
    BY <1>6, AroundKeeps DEF AroundKept
  <1>7. ASSUME UNCHANGED vars PROVE Goes
    BY <1>7 DEF vars, loopVars
  <1> HIDE DEF Goes
  <1>8. Goes
    BY <1>1, <1>2, <1>3, <1>4, <1>5, <1>6, <1>7 DEF Next, Loop, Control, WorkSteps, Looking
  <1> QED
    BY <1>8 DEF Goes

LEMMA GraceFacts ==
  ASSUME NEW l
  PROVE  Grace(l) \in Nat /\ Grace(l) <= DrainIdle /\ (l.capture => Grace(l) <= CaptureClose)
  BY TimesAreNatural DEF Grace

(* What is no work leaves the time of a drain as it was, or puts it off.   *)
TimeGoesOn ==
    Draining(life') =>
      /\ Draining(life) /\ life'.capture = life.capture
      /\ \/ life'.closing = DrainIdle
         \/ life'.closing = life.closing /\ (HasWritten => HasWritten')
LEMMA TimeStays ==
  ASSUME LifeInv, TimedInv, WorkKept, Stays(life, life'), life' \in LifeType, TimeGoesOn,
         pc' = "look" => pc = "look" \/ ~HasSession(life),
         pc = "look" => pc' = "look" \/ ~Draining(life'),
         pc' = "control" => pc = "control"
  PROVE  TimedInv'
  <1>1. LookTypes'
    BY DEF TimedInv, LookTypes, WorkKept
  <1>2. CallsCounted'
    <2>1. seen'.storage <= storage'.done
      BY DEF TimedInv, CallsCounted, WorkKept
    <2>2. HasSession(life') => snap'.calls <= engine'.calls
      BY DEF TimedInv, CallsCounted, WorkKept, Stays
    <2>3. HasSession(life') /\ (Draining(life') \/ pc' = "control") => seen'.calls <= snap'.calls
      BY DEF TimedInv, CallsCounted, WorkKept, Stays, TimeGoesOn
    <2>4. HasSession(life') /\ pc' = "look" /\ snap'.busy => engine'.busy \/ engine'.calls # snap'.calls
      BY DEF TimedInv, CallsCounted, WorkKept, Stays
    <2>5. ~HasSession(life') => ~engine'.busy
      BY DEF TimedInv, CallsCounted, WorkKept, Stays
    <2>6. ~HasSession(life') /\ ~Retired(life') =>
            engine'.calls = 0 /\ snap'.calls = 0 /\ ~snap'.busy
      BY DEF TimedInv, CallsCounted, WorkKept, Stays
    <2> QED
      BY <2>1, <2>2, <2>3, <2>4, <2>5, <2>6 DEF CallsCounted
  <1>3. DrainTimed'
    <2> SUFFICES ASSUME Draining(life'), HasSession(life') \/ life'.capture
                 PROVE  life'.closing + quiet' >= Grace(life') \/ Stirs'
      BY DEF DrainTimed
    <2>1. /\ Draining(life) /\ life'.capture = life.capture /\ (HasSession(life) \/ life.capture)
          /\ ~Retired(life)
      BY DEF TimeGoesOn, Stays, Draining, Retired
    <2>2. Grace(life') = Grace(life) /\ quiet' = quiet /\ quiet \in Nat
      BY <2>1 DEF Grace, WorkKept, TimedInv, LookTypes
    <2>3. CASE life'.closing = DrainIdle
      BY <2>2, <2>3, GraceFacts, TimesAreNatural
    <2>4. CASE life'.closing = life.closing /\ (HasWritten => HasWritten')
      <3>1. life.closing + quiet >= Grace(life) \/ Stirs
        BY <2>1 DEF TimedInv, DrainTimed
      <3>2. ASSUME Stirs PROVE Stirs'
        <4>1. \/ storage.owner # "none" \/ storage.done # seen.storage \/ HasWritten
              \/ IF pc = "look" THEN snap.busy \/ snap.calls # seen.calls
                 ELSE engine.busy \/ engine.calls # seen.calls
          BY <3>2 DEF Stirs
        <4>2. CASE storage.owner # "none" \/ storage.done # seen.storage \/ HasWritten
          BY <2>4, <4>2 DEF WorkKept, Stirs
        <4>3. CASE IF pc = "look" THEN snap.busy \/ snap.calls # seen.calls
                   ELSE engine.busy \/ engine.calls # seen.calls
          <5>1. /\ pc = "look" => pc' = "look"
                /\ pc' = "look" => pc = "look" \/ ~HasSession(life)
            OBVIOUS
          <5>2. ~HasSession(life) => /\ engine.calls = 0 /\ snap.calls = 0
                                     /\ ~snap.busy /\ ~engine.busy
            BY <2>1 DEF TimedInv, CallsCounted
          <5>3. IF pc' = "look" THEN snap.busy \/ snap.calls # seen.calls
                ELSE engine.busy \/ engine.calls # seen.calls
            BY <4>3, <5>1, <5>2
          <5>4. IF pc' = "look" THEN snap'.busy \/ snap'.calls # seen'.calls
                ELSE engine'.busy \/ engine'.calls # seen'.calls
            BY <5>3 DEF WorkKept
          <5> QED
            BY <5>4 DEF Stirs
        <4> QED
          BY <4>1, <4>2, <4>3
      <3> QED
        BY <2>2, <2>4, <3>1, <3>2
    <2> QED
      BY <2>3, <2>4 DEF TimeGoesOn
  <1>4. stall' # "early"
    BY DEF TimedInv, WorkKept
  <1> QED
    BY <1>1, <1>2, <1>3, <1>4 DEF TimedInv
(* A step that is no work keeps the time.                                  *)
LEMMA OthersKeepTime ==
  ASSUME IInv, TimedInv, [Next]_vars, ~WorkSteps PROVE TimedInv'
  <1>0. LifeInv /\ LifeInv' /\ Shape(life, opening) /\ Shape(life', opening') /\ ReplyInv
    BY NextKeepsLife DEF IInv, LifeInv
  <1>1. WorkKept
    BY OthersKeepWork DEF IInv, FinalsInv, FinalTypes, TimedInv
  <1>2. Stays(life, life')
    BY <1>0, LifeStays DEF WorkSteps
  <1>3. life' \in LifeType
    BY <1>0 DEF Shape
  <1>4. Draining(life') => Draining(life) /\ life'.capture = life.capture
    <2>1. CASE Worse(life, life')
      BY <2>1, DrainedBefore
    <2>2. CASE Values
      <3>1. life' = [life EXCEPT !.waiting = FALSE]
        BY <2>2 DEF Values
      <3> QED
        BY <1>0, <3>1 DEF Shape, LifeType, Draining
    <2> QED
      BY <1>0, <2>1, <2>2, OthersAreWorse DEF Turning, WorkSteps
  <1>5. Draining(life') => life'.closing \in {life.closing, DrainIdle}
    <2>1. CASE Values
      <3>1. life' = [life EXCEPT !.waiting = FALSE]
        BY <2>1 DEF Values
      <3> QED
        BY <1>0, <3>1 DEF Shape, LifeType
    <2> QED
      BY <1>0, <2>1, NextIsPaced DEF Paced, Turning, WorkSteps
  <1>6. TimeGoesOn
    <2>1. CASE ~Status
      BY <1>0, <1>4, <1>5, <2>1, WrittenStays DEF TimeGoesOn, WorkSteps
    <2>2. CASE Status
      <3> DEFINE l == IF engine.error THEN FailEngine(life) ELSE life
                 wrote == task.state \in {"done", "failed"}
                 moved == wrote /\ (task.written > 0 \/ task.endWritten)
                 l1 == IF moved THEN AdvanceDrain(l) ELSE l
      <3>1. /\ life' = IF task.state = "failed" THEN Fail(l1) ELSE l1
            /\ task' = IF wrote THEN NoTask ELSE task
            /\ HasSession(life)
        BY <1>0, <2>2 DEF Status, LifeInv, PumpHasSession, InPump
      <3> SUFFICES ASSUME Draining(life')
                   PROVE  life'.closing = DrainIdle
                          \/ (life'.closing = life.closing /\ (HasWritten => HasWritten'))
        BY <1>4 DEF TimeGoesOn
      <3>2. Shape(l, opening) /\ (l = life \/ ~Draining(l))
        BY <1>0, FailedDrainsNot, FailEngineIsWorse, WorseKeepsShape
      <3>3. CASE ~wrote
        BY <1>5, <3>1, <3>3 DEF HasWritten
      <3>4. CASE wrote /\ ~HasWritten
        BY <1>5, <3>4
      <3>5. CASE wrote /\ HasWritten
        <4>1. moved
          BY <3>5 DEF HasWritten
        <4> HIDE DEF l, moved, wrote
        <4>2. l1 = AdvanceDrain(l) /\ l \in LifeType /\ (Draining(l) => HasSession(l))
          BY <3>1, <3>2, <4>1 DEF Shape
        <4>3. Shape(l1, opening)
          BY <3>2, <4>2, AdvanceDrainIsWorse, WorseKeepsShape
        <4> HIDE DEF l1
        <4>4. life' = l1
          BY <3>1, <4>3, FailedDrainsNot
        <4> QED
          BY <4>2, <4>4, AdvancedDrain
      <3> QED
        BY <3>3, <3>4, <3>5
    <2> QED
      BY <2>1, <2>2
  <1>7. pc' = "look" => pc = "look" \/ ~HasSession(life)
    <2>1. ASSUME NotOpened, pc' = "look" PROVE ~HasSession(life)
      <3>1. pc' = IF life'.capture \/ ~HasSession(life') THEN "look" ELSE "status"
        BY <2>1 DEF NotOpened, Onward, Throw
      <3>2. ~HasSession(life')
        BY <1>0, <2>1, <3>1 DEF Shape
      <3> QED
        BY <1>2, <3>2 DEF Stays
    <2> QED
      BY <2>1, LookPlaces
  <1>8. pc = "look" => pc' = "look" \/ ~Draining(life')
    <2>1. ASSUME Abandon PROVE ~Draining(life')
      <3>1. life' = life /\ Abandons(Rearmed(life))
        BY <2>1 DEF Abandon
      <3>2. Rearmed(life).abort /\ Rearmed(life).abort = life.abort
        BY <1>0, <3>1 DEF Abandons, Rearmed, Shape, LifeType
      <3> QED
        BY <3>1, <3>2 DEF Draining
    <2> QED
      BY <2>1, LookPlaces
  <1>9. pc' = "control" => pc = "control"
    BY LookPlaces
  <1> QED
    BY <1>0, <1>1, <1>2, <1>3, <1>6, <1>7, <1>8, <1>9, TimeStays

(* Work that begins or ends is seen.                                       *)
LEMMA WorkKeepsTime ==
  ASSUME IInv, TimedInv, StorageStart \/ StorageEnd \/ Write \/ ModelStart \/ ModelEnd
  PROVE  TimedInv'
  <1>0. /\ UNCHANGED <<pc, life, snap, seen, stall>>
        /\ IsEngine(engine) /\ Shape(life, opening)
        /\ LookTypes /\ CallsCounted /\ DrainTimed
    <2>1. Around
      BY DEF Around
    <2>2. AroundKept
      BY <2>1, AroundKeeps
    <2> QED
      BY <2>2 DEF AroundKept, IInv, LifeInv, FinalsInv, FinalTypes, TimedInv
  <1>1. CASE StorageStart
    <2>1. /\ \E o \in {"core", "enroll", "publish", "capture"} :
               storage' = [storage EXCEPT !.owner = o]
          /\ UNCHANGED <<quiet, engine, task>>
      BY <1>1 DEF StorageStart, StorageFrame, engineVars
    <2>2. storage'.owner # "none" /\ storage'.done = storage.done
      BY <2>1 DEF IInv, GivenBackInv, Users
    <2>3. LookTypes' /\ CallsCounted'
      BY <1>0, <2>1, <2>2 DEF LookTypes, CallsCounted
    <2>4. DrainTimed'
      BY <2>2 DEF DrainTimed, Stirs
    <2> QED
      BY <1>0, <2>3, <2>4 DEF TimedInv
  <1>2. CASE StorageEnd
    <2>1. /\ storage' = [owner |-> "none", done |-> storage.done + 1] /\ quiet' = 0
          /\ UNCHANGED <<engine, task>>
      BY <1>2 DEF StorageEnd, StorageFrame, engineVars
    <2>2. storage'.done = storage.done + 1 /\ storage.done \in Nat /\ seen.storage \in Nat
          /\ seen.storage <= storage.done
      BY <1>0, <2>1 DEF LookTypes, CallsCounted
    <2>3. LookTypes' /\ CallsCounted'
      BY <1>0, <2>1, <2>2 DEF LookTypes, CallsCounted
    <2>4. storage'.done # seen'.storage
      BY <1>0, <2>2
    <2>5. DrainTimed'
      BY <2>4 DEF DrainTimed, Stirs
    <2> QED
      BY <1>0, <2>3, <2>5 DEF TimedInv
  <1>3. CASE Write
    <2>1. /\ quiet' = IF Unwritten THEN 0 ELSE quiet
          /\ UNCHANGED <<storage, engine>>
          /\ task' = IF ~Unwritten THEN [task EXCEPT !.state = "done"]
                     ELSE IF task.end THEN [task EXCEPT !.endWritten = TRUE]
                     ELSE [task EXCEPT !.written = @ + 1]
      BY <1>3 DEF Write, WriterFrame, engineVars
    <2>2. LookTypes' /\ CallsCounted'
      BY <1>0, <2>1 DEF LookTypes, CallsCounted
    <2>3. IsTask(task) /\ task.written \in Nat
      BY DEF IInv, ReplyInv, AudioFits
    <2>4. CASE Unwritten
      <3>1. HasWritten'
        <4>1. CASE task.end
          <5>1. task' = [task EXCEPT !.endWritten = TRUE]
            BY <2>1, <2>4, <4>1
          <5>2. task'.endWritten = TRUE
            BY <2>3, <5>1 DEF IsTask
          <5> QED
            BY <5>2 DEF HasWritten
        <4>2. CASE ~task.end
          <5>1. task' = [task EXCEPT !.written = task.written + 1]
            BY <2>1, <2>4, <4>2
          <5>2. task'.written = task.written + 1
            BY <2>3, <5>1 DEF IsTask
          <5> QED
            BY <2>3, <5>2 DEF HasWritten
        <4> QED
          BY <4>1, <4>2
      <3>2. DrainTimed'
        BY <3>1 DEF DrainTimed, Stirs
      <3> QED
        BY <1>0, <2>2, <3>2 DEF TimedInv
    <2>5. CASE ~Unwritten
      <3>1. task'.written = task.written /\ task'.endWritten = task.endWritten
        BY <2>1, <2>3, <2>5 DEF IsTask
      <3>2. HasWritten' <=> HasWritten
        BY <3>1 DEF HasWritten
      <3>3. Stirs' <=> Stirs
        BY <1>0, <2>1, <3>2 DEF Stirs
      <3>4. DrainTimed'
        BY <1>0, <2>1, <2>5, <3>3 DEF DrainTimed, Grace
      <3> QED
        BY <1>0, <2>2, <3>4 DEF TimedInv
    <2> QED
      BY <2>4, <2>5
  <1>4. CASE ModelStart
    <2>1. /\ engine' = [engine EXCEPT !.busy = TRUE] /\ pc # "look" /\ HasSession(life)
          /\ UNCHANGED <<quiet, storage, task>>
      BY <1>4 DEF ModelStart, CoreFrame, CoreRuns, Running, Seams
    <2>2. engine'.busy = TRUE /\ engine'.calls = engine.calls
      BY <1>0, <2>1 DEF IsEngine
    <2>3. LookTypes' /\ CallsCounted'
      BY <1>0, <2>1, <2>2 DEF LookTypes, CallsCounted
    <2>4. DrainTimed'
      BY <1>0, <2>1, <2>2 DEF DrainTimed, Stirs
    <2> QED
      BY <1>0, <2>3, <2>4 DEF TimedInv
  <1>5. CASE ModelEnd
    <2>1. /\ engine' = [engine EXCEPT !.busy = FALSE, !.calls = engine.calls + 1] /\ engine.busy
          /\ quiet' = IF pc = "look" THEN quiet ELSE 0
          /\ UNCHANGED <<storage, task>>
      BY <1>5 DEF ModelEnd, CoreFrame
    <2>2. engine'.busy = FALSE /\ engine'.calls = engine.calls + 1
      BY <1>0, <2>1 DEF IsEngine
    <2>3. HasSession(life) /\ {engine.calls, snap.calls, seen.calls, quiet} \subseteq Nat
          /\ snap.calls <= engine.calls
      BY <1>0, <2>1 DEF CallsCounted, LookTypes
    <2>4. LookTypes'
      BY <1>0, <2>1, <2>2, <2>3 DEF LookTypes
    <2>5. CallsCounted'
      BY <1>0, <2>1, <2>2, <2>3 DEF CallsCounted
    <2>6. DrainTimed'
      <3> SUFFICES ASSUME Draining(life)
                   PROVE  life.closing + quiet' >= Grace(life) \/ Stirs'
        BY <1>0 DEF DrainTimed
      <3>1. seen.calls <= snap.calls
        BY <1>0, <2>3 DEF CallsCounted
      <3>2. CASE pc # "look"
        <4>1. engine'.calls # seen'.calls
          BY <1>0, <2>2, <2>3, <3>1
        <4> QED
          BY <1>0, <3>2, <4>1 DEF Stirs
      <3>3. CASE pc = "look"
        <4>1. quiet' = quiet /\ (Stirs' <=> Stirs)
          BY <1>0, <2>1, <3>3 DEF Stirs, HasWritten
        <4> QED
          BY <1>0, <2>3, <4>1 DEF DrainTimed
      <3> QED
        BY <3>2, <3>3
    <2> QED
      BY <1>0, <2>4, <2>5, <2>6 DEF TimedInv
  <1> QED
    BY <1>1, <1>2, <1>3, <1>4, <1>5
(* The steps of the loop that look at work, and that start or end time.    *)
LEMMA OpeningsKeepTime ==
  ASSUME IInv, TimedInv, Opened \/ \E c \in BOOLEAN : Open(c) PROVE TimedInv'
  <1>0. LifeInv /\ Shape(life, opening) /\ LookTypes /\ CallsCounted /\ stall # "early"
    BY DEF IInv, LifeInv, TimedInv
  <1>1. CASE Opened
    <2> DEFINE open == [life EXCEPT !.core = "running", !.state = "open"]
               over == [life EXCEPT !.core = "aborting"]
               l == IF Sound(life) THEN open ELSE over
    <2>1. /\ UNCHANGED <<quiet, storage, stall, seen>> /\ Onward(l) /\ opening = "opened"
          /\ \/ /\ engine' = [NoEngine EXCEPT !.cutoff = early]
                /\ snap' = [NoSnap EXCEPT !.cutoff = early]
             \/ UNCHANGED <<engine, snap>>
      BY <1>1 DEF Opened, envVars, histVars
    <2>2. HasSession(life') /\ ~HasSession(life) /\ ~Retired(life) /\ ~Retired(life')
      BY <1>0, <1>1, OpenedLife
    <2>3. Shape(l, "none") /\ ~Draining(l)
      BY <1>0, <2>1 DEF Shape, LifeType, HasSession, Sound, Draining
    <2>4. ~Draining(life')
      <3> HIDE DEF l
      <3>1. life' \in {l, FailSession(l)}
        BY <2>1 DEF Onward
      <3> QED
        BY <2>3, <3>1, FailedDrainsNot
    <2>5. pc' # "control"
      BY <2>1 DEF Onward
    <2>6. /\ engine'.busy = FALSE /\ engine'.calls = 0 /\ snap'.busy = FALSE /\ snap'.calls = 0
      BY <1>0, <2>1, <2>2 DEF CallsCounted, LookTypes, NoEngine, NoSnap
    <2>7. LookTypes'
      <3>1. UNCHANGED <<quiet, storage, seen>>
        BY <2>1
      <3>2. {quiet', storage'.done, seen'.storage, engine'.calls, snap'.calls, seen'.calls} \subseteq Nat
        BY <1>0, <2>6, <3>1 DEF LookTypes
      <3>3. {engine'.busy, snap'.busy} \subseteq BOOLEAN
        BY <2>6
      <3>4. seen' = [storage |-> seen'.storage, calls |-> seen'.calls, events |-> seen'.events]
        BY <1>0, <3>1 DEF LookTypes
      <3> QED
        BY <3>2, <3>3, <3>4 DEF LookTypes
    <2>8. CallsCounted'
      BY <1>0, <2>1, <2>2, <2>4, <2>5, <2>6 DEF CallsCounted
    <2> QED
      BY <1>0, <2>1, <2>4, <2>7, <2>8 DEF TimedInv, DrainTimed
  <1>2. ASSUME NEW c \in BOOLEAN, Open(c) PROVE TimedInv'
    <2>1. /\ UNCHANGED <<quiet, storage, stall, seen>> /\ engine' = NoEngine /\ snap' = NoSnap
          /\ life' = [life EXCEPT !.state = IF c THEN "open" ELSE "opening",
                          !.session = life.session + 1, !.capture = c, !.abort = FALSE,
                          !.failure = "none", !.waiting = ~c, !.live = TRUE]
      BY <1>2 DEF Open
    <2>2. ~HasSession(life')
      BY <1>0, <1>2, OpenLife
    <2>3. life'.state = IF c THEN "open" ELSE "opening"
      BY <1>0, <2>1 DEF Shape, LifeType
    <2>4. ~Draining(life')
      BY <2>3 DEF Draining
    <2>5. engine'.busy = FALSE /\ engine'.calls = 0 /\ snap'.busy = FALSE /\ snap'.calls = 0
      BY <2>1 DEF NoEngine, NoSnap
    <2>6. LookTypes'
      <3>1. UNCHANGED <<quiet, storage, seen>>
        BY <2>1
      <3>2. {quiet', storage'.done, seen'.storage, engine'.calls, snap'.calls, seen'.calls} \subseteq Nat
        BY <1>0, <2>5, <3>1 DEF LookTypes
      <3>3. {engine'.busy, snap'.busy} \subseteq BOOLEAN
        BY <2>5
      <3>4. seen' = [storage |-> seen'.storage, calls |-> seen'.calls, events |-> seen'.events]
        BY <1>0, <3>1 DEF LookTypes
      <3> QED
        BY <3>2, <3>3, <3>4 DEF LookTypes
    <2>7. CallsCounted'
      BY <1>0, <2>1, <2>2, <2>5 DEF CallsCounted
    <2> QED
      BY <1>0, <2>1, <2>4, <2>6, <2>7 DEF TimedInv, DrainTimed
  <1> QED
    BY <1>1, <1>2

LEMMA StatusesKeepTime ==
  ASSUME IInv, TimedInv, LastStatus \/ Finish, [Next]_vars PROVE TimedInv'
  <1>0. /\ LifeInv /\ Shape(life, opening) /\ LookTypes /\ CallsCounted /\ DrainTimed
        /\ stall # "early" /\ IsEngine(engine) /\ GivenBackInv
    BY DEF IInv, LifeInv, FinalsInv, FinalTypes, TimedInv
  <1>1. CASE LastStatus
    <2>1. /\ UNCHANGED <<quiet, storage, stall, engine, task>> /\ pc = "last" /\ pc' = "look"
          /\ snap' = [cutoff |-> engine.cutoff, retired |-> engine.retired,
                      emitted |-> emitted, busy |-> engine.busy, calls |-> engine.calls]
          /\ seen' = [seen EXCEPT !.events = emitted]
      BY <1>1 DEF LastStatus, replyVars, engineVars, envVars, histVars
    <2>2. HasSession(life)
      BY <1>0, <2>1 DEF LifeInv, PumpHasSession, InPump
    <2>3. Worse(life, life')
      BY <1>0, <1>1, LastStatusIsWorse
    <2>4. HasSession(life')
      BY <2>2, <2>3 DEF Worse
    <2>5. Draining(life') => /\ Draining(life) /\ life'.capture = life.capture
                             /\ life'.closing \in {life.closing, DrainIdle}
      <3>1. ~Turning /\ ~Looking /\ ~Input
        BY <2>1 DEF Turning, Looking, Opened, Values, Drain, Open, Taken, LookAtSession,
           LookAtCapture, LookAtNothing, Input
      <3> QED
        BY <1>0, <2>3, <3>1, DrainedBefore, NextIsPaced DEF Paced
    <2>6. snap'.busy = engine.busy /\ snap'.calls = engine.calls
      BY <2>1
    <2>7. seen'.storage = seen.storage /\ seen'.calls = seen.calls
          /\ seen' = [storage |-> seen'.storage, calls |-> seen'.calls, events |-> seen'.events]
      BY <1>0, <2>1 DEF LookTypes
    <2>8. LookTypes'
      BY <1>0, <2>1, <2>6, <2>7 DEF LookTypes
    <2>9. CallsCounted'
      <3>1. Draining(life') => seen.calls <= engine.calls
        BY <1>0, <2>2, <2>5 DEF CallsCounted, LookTypes
      <3>2. /\ seen'.storage <= storage'.done /\ snap'.calls <= engine'.calls
            /\ snap'.busy => engine'.busy
        BY <1>0, <2>1, <2>6, <2>7 DEF CallsCounted, LookTypes
      <3> QED
        BY <2>1, <2>4, <2>6, <2>7, <3>1, <3>2 DEF CallsCounted
    <2>10. DrainTimed'
      <3> SUFFICES ASSUME Draining(life')
                   PROVE  life'.closing + quiet' >= Grace(life') \/ Stirs'
        BY DEF DrainTimed
      <3>1. Grace(life') = Grace(life)
        BY <2>5 DEF Grace
      <3>2. Stirs' <=> Stirs
        BY <2>1, <2>6, <2>7 DEF Stirs, HasWritten
      <3>3. CASE life'.closing = DrainIdle
        BY <1>0, <2>1, <3>3, GraceFacts, TimesAreNatural DEF LookTypes
      <3>4. CASE life'.closing = life.closing
        BY <1>0, <2>1, <2>2, <2>5, <3>1, <3>2, <3>4 DEF DrainTimed
      <3> QED
        BY <2>5, <3>3, <3>4
    <2> QED
      BY <1>0, <2>1, <2>8, <2>9, <2>10 DEF TimedInv
  <1>2. CASE Finish
    <2>1. /\ UNCHANGED <<quiet, storage, stall, seen, life, task>> /\ pc = "control" /\ pc' = "input"
          /\ \/ /\ HasSession(life)
                /\ engine' = [engine EXCEPT !.cutoff = TRUE]
                /\ snap' = [cutoff |-> TRUE, retired |-> engine.retired, emitted |-> emitted,
                            busy |-> engine.busy, calls |-> engine.calls]
             \/ /\ ~HasSession(life)
                /\ snap' = [snap EXCEPT !.cutoff = snap.cutoff \/ life.capture]
                /\ UNCHANGED engine
      BY <1>2 DEF Finish, Taken, ControlFrame
    <2>2. engine'.busy = engine.busy /\ engine'.calls = engine.calls
      BY <1>0, <2>1 DEF IsEngine
    <2>3. /\ HasSession(life) => snap'.busy = engine.busy /\ snap'.calls = engine.calls
          /\ ~HasSession(life) => snap'.busy = snap.busy /\ snap'.calls = snap.calls
      BY <1>0, <2>1 DEF GivenBackInv, RetiredKnown
    <2>4. LookTypes'
      BY <1>0, <2>1, <2>2, <2>3 DEF LookTypes
    <2>5. CallsCounted'
      <3>1. HasSession(life) => seen.calls <= engine.calls
        BY <1>0, <2>1 DEF CallsCounted, LookTypes
      <3>2. engine.calls <= engine.calls
        BY <1>0 DEF LookTypes
      <3> QED
        BY <1>0, <2>1, <2>2, <2>3, <3>1, <3>2 DEF CallsCounted
    <2>6. DrainTimed'
      <3>1. Stirs' <=> Stirs
        BY <2>1, <2>2 DEF Stirs, HasWritten
      <3> QED
        BY <1>0, <2>1, <3>1 DEF DrainTimed, Grace
    <2> QED
      BY <1>0, <2>1, <2>4, <2>5, <2>6 DEF TimedInv
  <1> QED
    BY <1>1, <1>2

LEMMA DrainStartsTime ==
  ASSUME IInv, TimedInv, Drain PROVE TimedInv'
  <1>0. LifeInv /\ Shape(life, opening) /\ LookTypes /\ CallsCounted /\ stall # "early"
    BY DEF IInv, LifeInv, TimedInv
  <1>1. /\ UNCHANGED <<storage, stall, snap, engine, task>> /\ quiet' = 0
        /\ pc = "control" /\ pc' = "input" /\ seen' = [seen EXCEPT !.events = snap.emitted]
        /\ life.state = "open"
        /\ life' = [life EXCEPT !.state = "draining", !.closing = DrainTime(life),
                        !.core = IF life.core = "running" THEN "draining" ELSE life.core]
    BY DEF Drain, MayDrain, Taken, Closing, engineVars
  <1>2. life'.capture = life.capture /\ life'.closing = DrainTime(life) /\ ~Retired(life')
        /\ ~Retired(life) /\ (HasSession(life') <=> HasSession(life))
    BY <1>0, <1>1 DEF Shape, LifeType, HasSession, Retired
  <1>3. seen'.storage = seen.storage /\ seen'.calls = seen.calls
        /\ seen' = [storage |-> seen'.storage, calls |-> seen'.calls, events |-> seen'.events]
    BY <1>0, <1>1 DEF LookTypes
  <1>4. LookTypes'
    BY <1>0, <1>1, <1>3 DEF LookTypes
  <1>5. CallsCounted'
    BY <1>0, <1>1, <1>2, <1>3 DEF CallsCounted
  <1>6. DrainTimed'
    <2>1. DrainTime(life) >= Grace(life) /\ Grace(life') = Grace(life) /\ DrainTime(life) \in Nat
      BY <1>0, <1>2, GraceFacts, TimesAreNatural DEF DrainTime, Grace, Shape, LifeType
    <2> QED
      BY <1>1, <1>2, <2>1, GraceFacts DEF DrainTimed
  <1> QED
    BY <1>0, <1>1, <1>4, <1>5, <1>6 DEF TimedInv
(* The look.                                                               *)
LEMMA RearmedFacts ==
  ASSUME NEW l, l \in LifeType
  PROVE  /\ Draining(Rearmed(l)) <=> Draining(l)
         /\ Rearmed(l).state = l.state /\ Rearmed(l).abort = l.abort
         /\ Rearmed(l).capture = l.capture /\ Rearmed(l).closing \in Int
         /\ IF Draining(l) /\ WorkEnded THEN Rearmed(l).closing >= DrainIdle
            ELSE Rearmed(l) = l
  BY TimesAreNatural DEF Rearmed, LifeType, Draining

LEMMA TerminalDrains ==
  ASSUME NEW l, l \in LifeType, Terminal(l), Draining(life') PROVE life' = l
  <1>1. CASE Retired(l) \/ ~Finished
    BY <1>1 DEF Terminal
  <1>2. CASE ~(Retired(l) \/ ~Finished)
    <2> DEFINE s == IF l.failure = "none" THEN "closed" ELSE "failed"
    <2>1. life' = [l EXCEPT !.state = s, !.core = "none", !.live = FALSE]
      BY <1>2 DEF Terminal
    <2>2. s \in {"closed", "failed"}
      OBVIOUS
    <2> HIDE DEF s
    <2> QED
      BY <2>1, <2>2 DEF LifeType, Draining
  <1> QED
    BY <1>1, <1>2

LEMMA FailedSessionTime ==
  ASSUME NEW l, NEW o, Shape(l, o), ~Retired(l), ~l.abort
  PROVE  FailSession(l).closing = AbortTime
  <1> DEFINE failed == [l EXCEPT !.failure = "failed", !.live = FALSE]
             f == Fail(l)
  <1>1. l.failure = "none"
    BY DEF Shape, Retired, LifeType
  <1>2. f = Aborting(failed, AbortTime)
    BY <1>1 DEF Fail
  <1>3. failed \in LifeType
    BY DEF Shape, LifeType
  <1> HIDE DEF failed
  <1>4. f.closing = AbortTime
    BY <1>2, <1>3 DEF Aborting, LifeType
  <1>5. f \in LifeType
    BY FailIsWorse DEF Worse
  <1>6. FailSession(l) = [f EXCEPT !.failure = "contained"]
    BY <1>1 DEF FailSession
  <1> HIDE DEF f
  <1> QED
    BY <1>4, <1>5, <1>6 DEF LifeType

(* Who is overdue without an excuse has been idle.                         *)
LEMMA OnlyTheIdleStall ==
  ASSUME IInv, TimedInv, pc = "look", HasSession(life) \/ life.capture, Draining(life),
         Overdue(Rearmed(life)), ~Held(Rearmed(life))
  PROVE  Patience = "idle"
  <1>0. life \in LifeType /\ LookTypes /\ DrainTimed /\ AudioFits(reply, task)
    BY DEF IInv, LifeInv, Shape, TimedInv, ReplyInv
  <1>1. ~WorkEnded /\ Rearmed(life) = life
    BY <1>0, RearmedFacts, TimesAreNatural DEF Overdue
  <1>2. storage.owner = "none" /\ ~snap.busy /\ task.state = "none"
    BY <1>1 DEF Held
  <1>3. ~HasWritten
    BY <1>0, <1>2 DEF AudioFits, HasWritten, NoTask
  <1>4. ~Stirs
    BY <1>1, <1>2, <1>3 DEF Stirs, WorkEnded
  <1>5. life.closing + quiet >= Grace(life)
    BY <1>0, <1>4 DEF DrainTimed
  <1>6. life.closing < 0 /\ life.closing \in Int /\ quiet \in Nat
    BY <1>0, <1>1 DEF Overdue, LifeType, LookTypes
  <1>7. quiet > Grace(life)
    BY <1>5, <1>6, GraceFacts
  <1> QED
    BY <1>7 DEF Patience

LEMMA LookingCounts ==
  ASSUME IInv, TimedInv, Looking PROVE LookTypes' /\ CallsCounted'
  <1>0. LifeInv /\ LookTypes /\ CallsCounted
    BY DEF IInv, TimedInv
  <1>1. /\ UNCHANGED <<quiet, storage, snap>> /\ pc = "look" /\ pc' = "control"
        /\ seen' = seen \/ seen' = [seen EXCEPT !.storage = storage.done, !.calls = snap.calls]
        /\ HasSession(life) => seen' = [seen EXCEPT !.storage = storage.done, !.calls = snap.calls]
    BY DEF Looking, LookAtSession, LookAtCapture, LookAtNothing, LookFrame, Looked, envVars
  <1>2. /\ seen' = [storage |-> seen'.storage, calls |-> seen'.calls, events |-> seen'.events]
        /\ seen'.storage \in {seen.storage, storage.done} /\ seen'.calls \in {seen.calls, snap.calls}
        /\ HasSession(life) => seen'.calls = snap.calls
    BY <1>0, <1>1 DEF LookTypes
  <1>3. \/ Stays(life, life') /\ engine' = engine
        \/ engine' = NoEngine /\ ~HasSession(life') /\ Retired(life')
    <2>1. CASE Stays(life, life') /\ UNCHANGED EndVars
      BY <2>1 DEF EndVars
    <2>2. ASSUME NEW l, Over(l), HasSession(life') = FALSE, Retired(life')
          PROVE  engine' = NoEngine /\ ~HasSession(life') /\ Retired(life')
      BY <2>2 DEF Over
    <2> QED
      BY <1>0, <2>1, <2>2, LookEnds
  <1>4. seen'.storage <= storage'.done
    BY <1>0, <1>1, <1>2 DEF CallsCounted, LookTypes
  <1>5. CASE Stays(life, life') /\ engine' = engine
    <2>1. LookTypes'
      BY <1>0, <1>1, <1>2, <1>5 DEF LookTypes
    <2>2. snap.calls <= snap.calls
      BY <1>0 DEF LookTypes
    <2>3. CallsCounted'
      BY <1>0, <1>1, <1>2, <1>4, <1>5, <2>2 DEF CallsCounted, Stays
    <2> QED
      BY <2>1, <2>3
  <1>6. CASE engine' = NoEngine /\ ~HasSession(life') /\ Retired(life')
    <2>1. engine'.busy = FALSE /\ engine'.calls = 0
      BY <1>6 DEF NoEngine
    <2>2. {quiet', storage'.done, seen'.storage, engine'.calls, snap'.calls, seen'.calls} \subseteq Nat
      BY <1>0, <1>1, <1>2, <2>1 DEF LookTypes
    <2>3. {engine'.busy, snap'.busy} \subseteq BOOLEAN
      BY <1>0, <1>1, <2>1 DEF LookTypes
    <2>4. LookTypes'
      BY <1>2, <2>2, <2>3 DEF LookTypes
    <2>5. CallsCounted'
      BY <1>4, <1>6, <2>1 DEF CallsCounted
    <2> QED
      BY <2>4, <2>5
  <1> QED
    BY <1>3, <1>5, <1>6

LEMMA LookingTimes ==
  ASSUME IInv, TimedInv, Looking, Draining(life') => life' = Rearmed(life),
         Looked \/ ~(HasSession(life) \/ life.capture)
  PROVE  DrainTimed'
  <1>0. life \in LifeType /\ LifeInv /\ LookTypes /\ CallsCounted /\ DrainTimed
    BY DEF IInv, LifeInv, Shape, TimedInv
  <1> SUFFICES ASSUME Draining(life'), HasSession(life') \/ life'.capture
               PROVE  life'.closing + quiet' >= Grace(life') \/ Stirs'
    BY DEF DrainTimed
  <1>1. UNCHANGED <<quiet, storage, snap, task>> /\ pc = "look" /\ pc' = "control"
    BY DEF Looking, LookAtSession, LookAtCapture, LookAtNothing, LookFrame, envVars, replyVars
  <1>2. engine' = engine /\ Stays(life, life') /\ ~Retired(life)
    <2>1. ~Retired(life')
      BY DEF Draining, Retired
    <2> QED
      BY <1>0, <2>1, LookEnds DEF EndVars, Stays
  <1>3. /\ life' = Rearmed(life) /\ Draining(life) /\ life'.capture = life.capture
        /\ life'.closing \in Int
    BY <1>0, RearmedFacts
  <1>4. Looked /\ (HasSession(life) \/ life.capture)
    BY <1>2, <1>3 DEF Stays
  <1>5. seen'.storage = storage.done /\ seen'.calls = snap.calls
    BY <1>0, <1>4 DEF Looked, LookTypes
  <1>6. CASE WorkEnded
    BY <1>0, <1>1, <1>3, <1>6, RearmedFacts, GraceFacts, TimesAreNatural DEF LookTypes
  <1>7. CASE ~WorkEnded
    <2>1. life' = life
      BY <1>0, <1>3, <1>7, RearmedFacts
    <2>2. life.closing + quiet >= Grace(life) \/ Stirs
      BY <1>0, <1>3, <1>4 DEF DrainTimed
    <2>3. ASSUME Stirs PROVE Stirs'
      <3>1. storage.owner # "none" \/ HasWritten \/ snap.busy
        BY <1>1, <1>7, <2>3 DEF Stirs, WorkEnded
      <3>2. snap.busy => engine.busy \/ engine.calls # snap.calls
        BY <1>0, <1>1, <1>2 DEF CallsCounted
      <3>3. HasWritten' <=> HasWritten
        BY <1>1 DEF HasWritten
      <3> QED
        BY <1>1, <1>2, <1>5, <3>1, <3>2, <3>3 DEF Stirs
    <2> QED
      BY <1>1, <2>1, <2>2, <2>3
  <1> QED
    BY <1>6, <1>7

LEMMA LookingKeepsTime ==
  ASSUME IInv, TimedInv, Looking PROVE TimedInv'
  <1>0. life \in LifeType /\ Shape(life, opening) /\ stall # "early"
    BY DEF IInv, LifeInv, Shape, TimedInv
  <1> DEFINE l0 == Rearmed(life)
  <1>1. Shape(l0, opening)
    BY <1>0, RearmedIsWorse, WorseKeepsShape
  <1>2. CASE LookAtSession
    <2> DEFINE stalled == Draining(l0) /\ Overdue(l0) /\ jobs.publish = None /\ ~Held(l0)
               failed == IF stalled THEN Fail(l0) ELSE l0
    <2>1. /\ Terminal(failed) \/ life' = failed
          /\ stall' = IF stalled THEN Patience ELSE stall
          /\ pc = "look" /\ HasSession(life) /\ Looked
      BY <1>2 DEF LookAtSession
    <2>2. stalled => Patience = "idle"
      BY <1>0, <2>1, RearmedFacts, OnlyTheIdleStall
    <2>3. failed \in LifeType /\ (failed = l0 \/ ~Draining(failed))
      BY <1>1, FailedDrainsNot, FailIsWorse DEF Worse, Shape
    <2> HIDE DEF l0, stalled, failed
    <2>4. stall' # "early"
      BY <1>0, <2>1, <2>2
    <2>5. Draining(life') => life' = l0
      BY <2>1, <2>3, TerminalDrains
    <2>6. DrainTimed'
      BY <2>1, <2>5, LookingTimes DEF l0
    <2> QED
      BY <2>4, <2>6, LookingCounts DEF TimedInv
  <1>3. CASE LookAtCapture
    <2>1. PICK late \in BOOLEAN :
            LET tail == IF late /\ ~life.abort /\ snap.cutoff /\ ~jobs.capture /\ ~inputFinal
                        THEN FailSession(life) ELSE life
                l == Rearmed(tail)
                over == l.state = "draining" /\ ~jobs.capture /\ (l.abort \/ inputFinal)
                stalled == l.state = "draining" /\ ~over /\ Overdue(l) /\ ~Held(l)
            IN
            /\ IF over THEN Terminal(l)
               ELSE life' = (IF stalled THEN FailSession(l) ELSE l) /\ UNCHANGED EndVars
            /\ stall' = IF stalled THEN Patience ELSE stall
      BY <1>3 DEF LookAtCapture
    <2> DEFINE tail == IF late /\ ~life.abort /\ snap.cutoff /\ ~jobs.capture /\ ~inputFinal
                       THEN FailSession(life) ELSE life
               l == Rearmed(tail)
               over == l.state = "draining" /\ ~jobs.capture /\ (l.abort \/ inputFinal)
               stalled == l.state = "draining" /\ ~over /\ Overdue(l) /\ ~Held(l)
    <2>2. /\ Terminal(l) \/ life' = l \/ life' = FailSession(l)
          /\ stall' = IF stalled THEN Patience ELSE stall
      BY <2>1
    <2>3. pc = "look" /\ life.capture /\ Looked /\ ~Abandons(l0)
      BY <1>3 DEF LookAtCapture
    <2>4. tail = life \/ (tail = FailSession(life) /\ ~life.abort)
      OBVIOUS
    <2>5. Shape(tail, opening) /\ (Retired(tail) <=> Retired(life))
      <3>1. Worse(life, life) /\ Worse(life, FailSession(life))
        BY <1>0, WorseThanItself, FailSessionIsWorse
      <3> QED
        BY <1>0, <2>4, <3>1, WorseKeepsShape
    <2> HIDE DEF tail
    <2>6. Shape(l, opening) /\ l \in LifeType /\ tail \in LifeType
      BY <2>5, RearmedIsWorse, WorseKeepsShape DEF Shape
    <2>7. tail = life => l = l0
      OBVIOUS
    <2>8. Draining(life') => life' = l0
      <3>1. ~Draining(FailSession(l)) /\ ~Draining(FailSession(life))
        BY <1>0, <2>6, FailedDrainsNot
      <3>2. Draining(l) <=> Draining(tail)
        BY <2>6, RearmedFacts
      <3>3. Draining(life') => life' = l
        BY <2>2, <2>6, <3>1, TerminalDrains
      <3> HIDE DEF l
      <3> QED
        BY <2>4, <2>7, <3>1, <3>2, <3>3
    <2>9. stalled => Patience = "idle"
      <3> SUFFICES ASSUME stalled PROVE Patience = "idle"
        OBVIOUS
      <3>1. l.state = "draining" /\ ~over /\ Overdue(l) /\ ~Held(l)
        OBVIOUS
      <3>2. tail.state = "draining" /\ tail.abort = l.abort
        BY <2>6, <3>1, RearmedFacts
      <3>3. tail = life
        <4> SUFFICES ASSUME tail = FailSession(life), ~life.abort PROVE FALSE
          BY <2>4
        <4>1. ~Retired(life)
          BY <2>5, <3>2 DEF Retired
        <4>2. tail.closing = AbortTime
          BY <1>0, <4>1, FailedSessionTime
        <4>3. ~Draining(tail)
          BY <1>0, FailedDrainsNot
        <4>4. l = tail
          BY <2>6, <4>3, RearmedFacts
        <4> QED
          BY <3>1, <4>2, <4>4, TimesAreNatural DEF Overdue
      <3>4. l = l0 /\ life.state = "draining"
        BY <2>7, <3>2, <3>3
      <3>5. ~life.abort
        <4> SUFFICES ASSUME life.abort PROVE FALSE
          OBVIOUS
        <4>1. l.abort /\ jobs.capture
          BY <3>1, <3>2, <3>3
        <4>2. l.capture
          BY <1>0, <2>3, <3>4, RearmedFacts
        <4>3. Abandons(l)
          BY <3>1, <4>1, <4>2 DEF Abandons
        <4> QED
          BY <2>3, <3>4, <4>3
      <3>6. Draining(life) /\ Overdue(Rearmed(life)) /\ ~Held(Rearmed(life))
        BY <3>1, <3>4, <3>5 DEF Draining
      <3> QED
        BY <2>3, <3>6, OnlyTheIdleStall
    <2> HIDE DEF stalled, l, l0
    <2>10. stall' # "early"
      BY <1>0, <2>2, <2>9
    <2>11. DrainTimed'
      BY <2>3, <2>8, LookingTimes DEF l0
    <2> QED
      BY <2>10, <2>11, LookingCounts DEF TimedInv
  <1>4. CASE LookAtNothing
    <2>1. /\ \/ Terminal(life) \/ life' = life \/ life' = Fail(life)
          /\ stall' = stall /\ ~life.capture /\ ~HasSession(life)
      BY <1>4 DEF LookAtNothing
    <2>2. Draining(life') => life' = life
      BY <1>0, <2>1, FailedDrainsNot, TerminalDrains
    <2>3. DrainTimed'
      BY <2>1, <2>2 DEF DrainTimed
    <2> QED
      BY <1>0, <2>1, <2>3, LookingCounts DEF TimedInv
  <1> QED
    BY <1>2, <1>3, <1>4 DEF Looking
(* The end of a pass, which takes a tick.                                  *)
LEMMA InputKeepsTime ==
  ASSUME IInv, TimedInv, Input PROVE TimedInv'
  <1>0. /\ LifeInv /\ Shape(life, opening) /\ life \in LifeType /\ LookTypes /\ CallsCounted
        /\ DrainTimed /\ stall # "early" /\ IsEngine(engine) /\ GivenBackInv
    BY DEF IInv, LifeInv, Shape, FinalsInv, FinalTypes, TimedInv
  <1> DEFINE a == AfterFrame
             l == ServerLost(a)
  <1>1. /\ UNCHANGED <<storage, stall, seen, task>> /\ pc = "input"
        /\ pc' # "look" /\ pc' # "control"
        /\ snap' = snap \/ snap' = [snap EXCEPT !.cutoff = TRUE]
        /\ engine' = engine \/ engine' = [engine EXCEPT !.cutoff = TRUE]
        /\ life' = After(l)
        /\ quiet' = IF InFlight \/ ~Draining(l) THEN 0
                    ELSE IF quiet > DrainIdle THEN quiet ELSE quiet + 1
    BY DEF Input, replyVars, histVars
  <1>2. engine'.busy = engine.busy /\ engine'.calls = engine.calls
        /\ snap'.busy = snap.busy /\ snap'.calls = snap.calls
    BY <1>0, <1>1 DEF IsEngine, GivenBackInv, RetiredKnown
  <1>3. quiet' \in Nat /\ quiet \in Nat
    BY <1>0, <1>1 DEF LookTypes
  <1>4. LookTypes'
    BY <1>0, <1>1, <1>2, <1>3 DEF LookTypes
  <1>5. Worse(life, life') /\ (Retired(life') <=> Retired(life))
    BY <1>0, InputIsWorse, WorseKeepsShape
  <1>6. CallsCounted'
    <2>1. HasSession(life') <=> HasSession(life)
      BY <1>5 DEF Worse
    <2>2. Draining(life') => Draining(life)
      BY <1>5, DrainedBefore
    <2> QED
      BY <1>0, <1>1, <1>2, <1>5, <2>1, <2>2 DEF CallsCounted
  <1>7. a = life \/ ~Draining(a)
    BY <1>0, FailedDrainsNot DEF AfterFrame
  <1>8. Shape(a, opening)
    <2>1. a \in {life, FailEngine(life), FailSession(life)}
      BY DEF AfterFrame
    <2>2. Worse(life, life) /\ Worse(life, FailEngine(life)) /\ Worse(life, FailSession(life))
      BY <1>0, WorseThanItself, FailEngineIsWorse, FailSessionIsWorse
    <2> HIDE DEF a
    <2> QED
      BY <1>0, <2>1, <2>2, WorseKeepsShape
  <1> HIDE DEF a
  <1>9. Draining(l) => Draining(a) /\ l.closing = a.closing
    <2>1. ASSUME NEW m, m \in LifeType
          PROVE  (Draining(Quit(m)) <=> Draining(m)) /\ Quit(m).closing = m.closing
      BY <2>1 DEF Quit, LifeType, Draining
    <2>2. a \in LifeType /\ FailEngine(a) \in LifeType /\ ~Draining(FailEngine(a))
      BY <1>8, FailEngineIsWorse, FailedDrainsNot DEF Shape, Worse
    <2> DEFINE m == IF HasSession(a) \/ opening # "none" THEN FailEngine(a) ELSE a
    <2>3. m \in LifeType /\ (m = a \/ ~Draining(m))
      BY <2>2
    <2>4. l = IF "server" \notin faults THEN a ELSE Quit(m)
      BY DEF ServerLost
    <2> HIDE DEF m, l
    <2> QED
      BY <2>1, <2>3, <2>4
  <1>10. l \in LifeType
    BY <1>8, ServerLostIsWorse DEF Worse
  <1> HIDE DEF l
  <1>11. DrainTimed'
    <2> SUFFICES ASSUME Draining(life'), HasSession(life') \/ life'.capture
                 PROVE  life'.closing + quiet' >= Grace(life') \/ Stirs'
      BY DEF DrainTimed
    <2>1. /\ Draining(life) /\ life'.capture = life.capture /\ (HasSession(life) \/ life.capture)
          /\ Grace(life') = Grace(life)
      BY <1>5, DrainedBefore DEF Grace
    <2>2. Draining(l) /\ life'.closing = IF l.closing >= 0 THEN l.closing - 1 ELSE l.closing
      BY <1>1, <1>10 DEF After, LifeType, Draining
    <2>3. l.closing = life.closing /\ life.closing \in Int /\ life.closing >= -1
      BY <1>0, <1>7, <1>9, <2>2 DEF LifeType
    <2>4. HasWritten' <=> HasWritten
      BY <1>1 DEF HasWritten
    <2>5. CASE InFlight
      BY <1>1, <1>2, <2>4, <2>5 DEF InFlight, Stirs
    <2>6. CASE ~InFlight
      <3>1. quiet' = IF quiet > DrainIdle THEN quiet ELSE quiet + 1
        BY <1>1, <2>2, <2>6
      <3>2. CASE Stirs
        BY <1>1, <1>2, <2>4, <3>2 DEF Stirs
      <3>3. CASE life.closing + quiet >= Grace(life)
        <4>1. CASE quiet > DrainIdle
          <5>1. life'.closing >= -1 /\ life'.closing \in Int
            BY <2>2, <2>3
          <5> QED
            BY <1>3, <2>1, <3>1, <4>1, <5>1, GraceFacts, TimesAreNatural
        <4>2. CASE ~(quiet > DrainIdle)
          <5>1. quiet' = quiet + 1 /\ life'.closing >= life.closing - 1 /\ life'.closing \in Int
            BY <2>2, <2>3, <3>1, <4>2
          <5> QED
            BY <1>3, <2>1, <2>3, <3>3, <5>1, GraceFacts
        <4> QED
          BY <4>1, <4>2
      <3> QED
        BY <1>0, <2>1, <3>2, <3>3 DEF DrainTimed
    <2> QED
      BY <2>5, <2>6
  <1> QED
    BY <1>0, <1>1, <1>4, <1>6, <1>11 DEF TimedInv

LEMMA NextKeepsTime == ASSUME IInv, TimedInv, [Next]_vars PROVE TimedInv'
  BY OthersKeepTime, WorkKeepsTime, OpeningsKeepTime, StatusesKeepTime, DrainStartsTime,
     LookingKeepsTime, InputKeepsTime DEF WorkSteps

LEMMA InitTime == Init => TimedInv
  <1> SUFFICES ASSUME Init PROVE TimedInv
    OBVIOUS
  <1>1. /\ engine = NoEngine /\ snap = NoSnap /\ storage = [owner |-> "none", done |-> 0]
        /\ seen = [storage |-> 0, calls |-> 0, events |-> 0] /\ quiet = 0 /\ stall = "none"
        /\ life.state = "closed" /\ life.core = "none"
    BY DEF Init
  <1>2. /\ engine.busy = FALSE /\ engine.calls = 0 /\ snap.busy = FALSE /\ snap.calls = 0
        /\ storage.done = 0 /\ seen.storage = 0 /\ seen.calls = 0
    BY <1>1 DEF NoEngine, NoSnap
  <1>3. LookTypes
    <2>1. {quiet, storage.done, seen.storage, engine.calls, snap.calls, seen.calls} \subseteq Nat
      BY <1>1, <1>2
    <2>2. {engine.busy, snap.busy} \subseteq BOOLEAN
      BY <1>2
    <2>3. seen = [storage |-> seen.storage, calls |-> seen.calls, events |-> seen.events]
      BY <1>1
    <2> QED
      BY <2>1, <2>2, <2>3 DEF LookTypes
  <1>4. ~HasSession(life) /\ ~Draining(life) /\ Retired(life)
    BY <1>1 DEF HasSession, Draining, Retired
  <1>5. CallsCounted
    BY <1>2, <1>4 DEF CallsCounted
  <1> QED
    BY <1>1, <1>3, <1>4, <1>5 DEF TimedInv, DrainTimed

(* A drain is given up as stalled only after its whole time without a      *)
(* storage operation, a model call or an audio write: the deadline and the *)
(* time without work make up the drain's time together, or some work has   *)
(* still to be looked at.                                                  *)
THEOREM DrainNotCutShortHolds == Spec => []DrainNotCutShort
  <1>1. Init => TimedInv
    BY InitTime
  <1>2. IInv /\ TimedInv /\ [Next]_vars => TimedInv'
    BY NextKeepsTime
  <1>3. TimedInv => DrainNotCutShort
    BY DEF TimedInv, DrainNotCutShort
  <1> QED
    BY <1>1, <1>2, <1>3, Invariance, PTL DEF Spec

----------------------------------------------------------------------------
(* The audio and the events of the reply.                                  *)
EventsOf(k) == {i \in DOMAIN events : events[i].kind = k}
AudioOrder ==
    /\ reply.fenced => reply.cut \/ reply.receipt
    /\ reply.ended => reply.endGiven
    /\ reply.endGiven => reply.retired
    /\ task.endWritten => task.end
    /\ task.end => reply.endGiven
EventOrder ==
    /\ EventsOf("cut") # {} => reply.cut /\ reply.state # "none"
    /\ EventsOf("ended") # {} => reply.retired /\ reply.state # "none"
    /\ reply.eventSeen => reply.retired /\ EventsOf("ended") = {}
    /\ \A i, j \in EventsOf("ended") : i = j
ReplyOrder == AudioOrder /\ EventOrder

(* The reports: those that are coming, in the queue or in the hand, and    *)
(* those that are held.                                                    *)
Coming ==
    {r \in {queue[i] : i \in DOMAIN queue} \cup (IF pc = "input" THEN {} ELSE {hand}) :
        r.op = "report"}
Fits(r) ==
    /\ r.n \in Nat /\ r.terminal \in BOOLEAN
    /\ reply.rendered <= r.n /\ r.n <= Written /\ r.n <= host.said
    /\ r.terminal => host.terminal /\ (Fenced \/ reply.ended \/ task.endWritten)
(* r comes before s.                                                       *)
Precedes(r, s) == r.n <= s.n /\ ~r.terminal
NothingReported == Coming = {} /\ held = <<>>
QueueWaits == pc # "read" => \A i \in DOMAIN queue : queue[i].op \in Anonymous
Said == {reply.rendered, host.said} \subseteq Nat /\ host.terminal \in BOOLEAN
ReportsFit ==
    /\ \A r \in Coming : Fits(r)
    /\ \A i \in DOMAIN held : Fits(held[i])
    /\ \A i, j \in DOMAIN held : i < j => Precedes(held[i], held[j])
    /\ \A i \in DOMAIN held : \A r \in Coming : Precedes(held[i], r)
    /\ Said /\ reply.rendered <= host.said /\ host.said <= Written
    /\ reply.receipt => host.terminal /\ NothingReported
    /\ reply.state = "none" => NothingReported /\ host = NoHost /\ reply.rendered = 0
ReportsInv ==
    /\ ReplyOrder /\ QueueWaits /\ OnlyOvertakenRefused
    /\ ~Retired(life) => ReportsFit

----------------------------------------------------------------------------
(* The order in which a reply is cut, given out, written and told of.      *)
JudgeSteps == Reconcile \/ Report
FenceSteps == Stop \/ CoreFence
WriteSteps == Write \/ WriteFails
NewReplies == Synthesize \/ \E c \in BOOLEAN : Open(c)
EngineNotes == Generate \/ GenRetire
ReplySteps ==
    \/ Status \/ TakeEvent \/ Replies \/ JudgeSteps \/ NextAudio \/ FenceSteps \/ WriteSteps
    \/ NewReplies \/ EngineNotes

LEMMA ReplyAsItIs ==
  ASSUME [Next]_vars, ~ReplySteps
  PROVE  reply' = reply /\ task' = task
  <1> DEFINE Same == UNCHANGED <<task, reply>>
  <1>1. ASSUME Read \/ Jobs \/ Opened \/ NotOpened \/ EventsTaken \/ ReleaseThrows \/ LastStatus
        PROVE  Same
    BY <1>1 DEF Read, Jobs, Opened, NotOpened, EventsTaken, ReleaseThrows, LastStatus, replyVars
  <1>2. ASSUME Abandon \/ LookAtSession \/ LookAtCapture \/ LookAtNothing \/ Input PROVE Same
    BY <1>2 DEF Abandon, LookAtSession, LookAtCapture, LookAtNothing, LookFrame, Input, replyVars
  <1>3. ASSUME Nothing \/ Values \/ Refusal \/ Finish \/ Drain \/ Abort PROVE Same
    BY <1>3 DEF Nothing, Values, Refusal, Finish, Drain, Abort, Closing, ControlFrame
  <1>4. ASSUME Manage \/ Record PROVE Same
    BY <1>4 DEF Manage, Record, ControlFrame
  <1>5. ASSUME NEW op \in Ops, Send(op) PROVE Same
    BY <1>5 DEF Send
  <1>6. ASSUME SettingsAnswer \/ SendFrame \/ Strike \/ OpeningEnds \/ JobEnds PROVE Same
    BY <1>6 DEF SettingsAnswer, SendFrame, Strike, OpeningEnds, JobEnds, JobFrame
  <1>7. ASSUME StorageStart \/ StorageEnd \/ CoreFinal \/ CoreObserve \/ CoreFinish PROVE Same
    BY <1>7 DEF StorageStart, StorageEnd, StorageFrame, CoreFinal, CoreObserve, CoreFinish,
       CoreFrame
  <1>8. ASSUME CoreFault \/ CoreRetire \/ ModelStart \/ ModelEnd PROVE Same
    BY <1>8 DEF CoreFault, CoreRetire, ModelStart, ModelEnd, CoreFrame
  <1>9. ASSUME UNCHANGED vars PROVE Same
    BY <1>9 DEF vars, replyVars
  <1> HIDE DEF Same
  <1>10. Same
    BY <1>1, <1>2, <1>3, <1>4, <1>5, <1>6, <1>7, <1>8, <1>9
       DEF Next, Loop, Control, Around, ReplySteps, JudgeSteps, FenceSteps, WriteSteps,
           NewReplies, EngineNotes
  <1> QED
    BY <1>10 DEF Same

(* What a report that is judged does to the reply.                         *)
LEMMA Judged ==
  ASSUME ReplyInv, NEW r, JudgeReport(r)
  PROVE  \/ /\ Believable(r) /\ EngineAgrees(r) /\ refusals' = refusals
            /\ reply' = [reply EXCEPT !.rendered = r.n, !.receipt = r.terminal]
            /\ reply.receipt => r.terminal
         \/ reply' = reply
  BY DEF JudgeReport, Believable

LEMMA JudgeSteps_ ==
  ASSUME ReplyInv, JudgeSteps
  PROVE  /\ task' = task /\ events' = events
         /\ \/ reply' = reply
            \/ \E r : /\ reply' = [reply EXCEPT !.rendered = r.n, !.receipt = r.terminal]
                      /\ reply.receipt => r.terminal
  <1>1. CASE Reconcile
    <2>1. task' = task /\ events' = events /\ JudgeReport(Head(held))
      BY <1>1 DEF Reconcile, engineVars
    <2> QED
      BY <2>1, Judged
  <1>2. CASE Report
    <2>1. task' = task /\ events' = events /\ (JudgeReport(hand) \/ reply' = reply)
      BY <1>2 DEF Report, ControlFrame, engineVars
    <2> QED
      BY <2>1, Judged
  <1> QED
    BY <1>1, <1>2 DEF JudgeSteps

(* What a fence does to it.                                                *)
LEMMA Cuts ==
  ASSUME ReplyInv
  PROVE  /\ IsReply(CutReply(reply))
         /\ \/ CutReply(reply) = reply /\ (reply.cut \/ reply.receipt) /\ CutEvent = <<>>
            \/ /\ CutReply(reply) = [reply EXCEPT !.cut = TRUE, !.made = reply.given]
               /\ CutEvent = <<Event("cut", 0)>>
  BY DEF ReplyInv, AudioFits, CutReply, CutEvent, Cuttable, IsReply, Event

LEMMA FenceSteps_ ==
  ASSUME ReplyInv, FenceSteps
  PROVE  /\ task' = task
         /\ \/ reply' = reply /\ events' = events
            \/ /\ reply.state = "live" /\ events' = events \o CutEvent
               /\ \/ reply' = CutReply(reply)
                  \/ reply' = [CutReply(reply) EXCEPT !.fenced = TRUE]
  BY DEF FenceSteps, Stop, CoreFence, CoreFrame, ControlFrame, Emit

LEMMA WriteSteps_ ==
  ASSUME ReplyInv, WriteSteps
  PROVE  /\ reply' = reply /\ events' = events /\ IsTask(task') /\ task.state = "queued"
         /\ \/ task' = [task EXCEPT !.state = "done"]
            \/ task' = [task EXCEPT !.endWritten = TRUE] /\ task.end
            \/ task' = [task EXCEPT !.written = task.written + 1] /\ task.written < task.frames
            \/ task' = [task EXCEPT !.state = "failed"]
  <1>1. reply' = reply /\ events' = events /\ task.state = "queued"
    BY DEF WriteSteps, Write, WriteFails, WriterFrame, engineVars
  <1>2. \/ task' = [task EXCEPT !.state = "done"]
        \/ task' = [task EXCEPT !.endWritten = TRUE] /\ task.end
        \/ task' = [task EXCEPT !.written = task.written + 1] /\ task.written < task.frames
        \/ task' = [task EXCEPT !.state = "failed"]
    BY DEF WriteSteps, Write, WriteFails, Unwritten
  <1>3. IsTask(task')
    BY <1>2 DEF ReplyInv, AudioFits, IsTask
  <1> QED
    BY <1>1, <1>2, <1>3

(* A reply begins, or is forgotten, when nothing is being written.         *)
LEMMA NewReplies_ ==
  ASSUME HeldInv, ReplyInv, NewReplies
  PROVE  /\ task = NoTask /\ task' = task /\ host' = IF Synthesize THEN host ELSE NoHost
         /\ \/ reply.state = "none" /\ events' = events /\ Synthesize
               /\ reply' = [NoReply EXCEPT !.state = "live"]
            \/ ~HasSession(life) /\ events' = <<>> /\ reply' = NoReply /\ ~Synthesize
  <1>1. CASE Synthesize
    <2>1. /\ reply.state = "none" /\ events' = events /\ task' = task /\ host' = host
          /\ reply' = [NoReply EXCEPT !.state = "live"]
      BY <1>1 DEF Synthesize, MayReply, ControlFrame, engineVars
    <2>2. task = NoTask
      BY <2>1 DEF ReplyInv, AudioFits
    <2> QED
      BY <1>1, <2>1, <2>2
  <1>2. ASSUME NEW c \in BOOLEAN, Open(c)
        PROVE  /\ ~HasSession(life) /\ events' = <<>> /\ reply' = NoReply /\ task' = task
               /\ host' = NoHost /\ ~Synthesize /\ task = NoTask
    <2>1. /\ ~HasSession(life) /\ events' = <<>> /\ reply' = NoReply /\ task' = task
          /\ host' = NoHost /\ ~Synthesize
      BY <1>2 DEF Open, MayOpen, Taken, Synthesize
    <2>2. task = NoTask
      BY <2>1 DEF HeldInv, ReplyInv, AudioFits
    <2> QED
      BY <2>1, <2>2
  <1> QED
    BY <1>1, <1>2 DEF NewReplies

(* Nothing of the reply's audio comes before what it follows from.         *)
LEMMA NextAudioOrders ==
  ASSUME ReplyInv, AudioOrder, NextAudio
  PROVE  AudioOrder'
  <1> DEFINE r == IF Settled(reply) THEN [reply EXCEPT !.state = "settled"] ELSE reply
             may == task.state = "none" /\ Sound(life) /\ r.state = "live" /\ ~engine.error
  <1>1. \/ \E n : /\ task' = [NoTask EXCEPT !.state = "queued", !.frames = n]
                  /\ reply' = [r EXCEPT !.given = r.given + n]
        \/ /\ task' = [NoTask EXCEPT !.state = "queued", !.end = TRUE] /\ r.retired
           /\ reply' = [r EXCEPT !.endGiven = TRUE]
        \/ reply' = r /\ task' = task
    BY DEF NextAudio
  <1>2. /\ IsReply(r) /\ r.fenced = reply.fenced /\ r.cut = reply.cut /\ r.receipt = reply.receipt
        /\ r.ended = reply.ended /\ r.endGiven = reply.endGiven /\ r.retired = reply.retired
    BY DEF ReplyInv, AudioFits, IsReply
  <1> HIDE DEF r
  <1>3. ASSUME NEW n, task' = [NoTask EXCEPT !.state = "queued", !.frames = n],
               reply' = [r EXCEPT !.given = r.given + n]
        PROVE  AudioOrder'
    <2>1. task'.endWritten = FALSE /\ task'.end = FALSE
      BY <1>3 DEF NoTask
    <2>2. /\ reply'.fenced = r.fenced /\ reply'.cut = r.cut /\ reply'.receipt = r.receipt
          /\ reply'.ended = r.ended /\ reply'.endGiven = r.endGiven /\ reply'.retired = r.retired
      BY <1>2, <1>3 DEF IsReply
    <2> QED
      BY <1>2, <2>1, <2>2 DEF AudioOrder
  <1>4. ASSUME task' = [NoTask EXCEPT !.state = "queued", !.end = TRUE], r.retired,
               reply' = [r EXCEPT !.endGiven = TRUE]
        PROVE  AudioOrder'
    <2>1. task'.endWritten = FALSE
      BY <1>4 DEF NoTask
    <2>2. /\ reply'.fenced = r.fenced /\ reply'.cut = r.cut /\ reply'.receipt = r.receipt
          /\ reply'.ended = r.ended /\ reply'.endGiven = TRUE /\ reply'.retired = r.retired
      BY <1>2, <1>4 DEF IsReply
    <2> QED
      BY <1>2, <1>4, <2>1, <2>2 DEF AudioOrder
  <1>5. ASSUME reply' = r, task' = task PROVE AudioOrder'
    BY <1>2, <1>5 DEF AudioOrder
  <1> QED
    BY <1>1, <1>3, <1>4, <1>5

LEMMA FencesOrder ==
  ASSUME ReplyInv, AudioOrder, FenceSteps
  PROVE  AudioOrder'
  <1> DEFINE c == CutReply(reply)
  <1>1. /\ IsReply(c) /\ IsReply(reply)
        /\ \/ c = reply /\ (reply.cut \/ reply.receipt)
           \/ c = [reply EXCEPT !.cut = TRUE, !.made = reply.given]
    BY Cuts DEF ReplyInv, AudioFits
  <1> HIDE DEF c
  <1>2. /\ c.cut \/ c.receipt
        /\ c.ended = reply.ended /\ c.endGiven = reply.endGiven /\ c.retired = reply.retired
    BY <1>1 DEF IsReply
  <1>3. /\ task' = task
        /\ \/ reply' = reply \/ reply' = c
           \/ reply' = [c EXCEPT !.fenced = TRUE]
    BY FenceSteps_ DEF c
  <1>4. CASE reply' = reply
    BY <1>3, <1>4 DEF AudioOrder
  <1>5. CASE reply' = c \/ reply' = [c EXCEPT !.fenced = TRUE]
    <2>1. /\ reply'.cut = c.cut /\ reply'.receipt = c.receipt /\ reply'.ended = c.ended
          /\ reply'.endGiven = c.endGiven /\ reply'.retired = c.retired
      BY <1>1, <1>5 DEF IsReply
    <2> QED
      BY <1>2, <1>3, <2>1 DEF AudioOrder
  <1> QED
    BY <1>3, <1>4, <1>5

LEMMA AudioOrdered ==
  ASSUME HeldInv, FinalsInv, ReplyInv, AudioOrder, EventOrder, [Next]_vars
  PROVE  AudioOrder'
  <1>0. IsReply(reply) /\ IsTask(task) /\ ProperSeq(events)
    BY DEF ReplyInv, AudioFits, FinalsInv, FinalTypes
  <1>1. CASE ~ReplySteps
    BY <1>1, ReplyAsItIs DEF AudioOrder
  <1>2. CASE Status
    <2>1. \/ reply' = reply /\ task' = task
          \/ /\ reply' = [reply EXCEPT !.ended = reply.ended \/ task.endWritten,
                                       !.delivered = reply.delivered + task.written]
             /\ task' = NoTask
      BY <1>2 DEF Status
    <2>2. ASSUME reply' = [reply EXCEPT !.ended = reply.ended \/ task.endWritten,
                                        !.delivered = reply.delivered + task.written],
                 task' = NoTask
          PROVE  AudioOrder'
      <3>1. /\ reply'.fenced = reply.fenced /\ reply'.cut = reply.cut
            /\ reply'.receipt = reply.receipt /\ reply'.endGiven = reply.endGiven
            /\ reply'.retired = reply.retired /\ reply'.ended = (reply.ended \/ task.endWritten)
        BY <1>0, <2>2 DEF IsReply
      <3>2. task'.end = FALSE /\ task'.endWritten = FALSE
        BY <2>2 DEF NoTask
      <3> QED
        BY <3>1, <3>2 DEF AudioOrder
    <2> QED
      BY <2>1, <2>2 DEF AudioOrder
  <1>3. CASE TakeEvent
    <2>1. /\ task' = task /\ events # <<>>
          /\ \E s, f : /\ reply' = [reply EXCEPT !.eventSeen = s, !.fenced = reply.fenced \/ f]
                       /\ f => Head(events).kind = "cut"
      BY <1>3 DEF TakeEvent
    <2>2. PICK s, f : /\ reply' = [reply EXCEPT !.eventSeen = s, !.fenced = reply.fenced \/ f]
                      /\ f => Head(events).kind = "cut"
      BY <2>1
    <2>3. f => reply.cut
      <3>1. Head(events) = events[1] /\ 1 \in DOMAIN events
        BY <1>0, <2>1, TailFacts
      <3> QED
        BY <2>2, <3>1 DEF EventOrder, EventsOf
    <2>4. /\ reply'.cut = reply.cut /\ reply'.receipt = reply.receipt
          /\ reply'.ended = reply.ended /\ reply'.endGiven = reply.endGiven
          /\ reply'.retired = reply.retired /\ reply'.fenced = (reply.fenced \/ f)
      BY <1>0, <2>2 DEF IsReply
    <2> QED
      BY <2>1, <2>3, <2>4 DEF AudioOrder
  <1>4. CASE Replies
    <2>1. /\ task' = task
          /\ \E m, r, e : reply' = [reply EXCEPT !.madeSeen = m, !.retiredSeen = r,
                                      !.fenced = reply.fenced \/ reply.cut, !.endSaid = e]
      BY <1>4 DEF Replies
    <2>2. /\ reply'.cut = reply.cut /\ reply'.receipt = reply.receipt
          /\ reply'.ended = reply.ended /\ reply'.endGiven = reply.endGiven
          /\ reply'.retired = reply.retired /\ reply'.fenced = (reply.fenced \/ reply.cut)
      BY <1>0, <2>1 DEF IsReply
    <2> QED
      BY <2>1, <2>2 DEF AudioOrder
  <1>5. CASE JudgeSteps
    <2>1. /\ task' = task
          /\ \/ reply' = reply
             \/ \E r : /\ reply' = [reply EXCEPT !.rendered = r.n, !.receipt = r.terminal]
                       /\ reply.receipt => r.terminal
      BY <1>5, JudgeSteps_
    <2>2. ASSUME NEW r, reply' = [reply EXCEPT !.rendered = r.n, !.receipt = r.terminal],
                 reply.receipt => r.terminal
          PROVE  AudioOrder'
      <3>1. /\ reply'.cut = reply.cut /\ reply'.receipt = r.terminal
            /\ reply'.ended = reply.ended /\ reply'.endGiven = reply.endGiven
            /\ reply'.retired = reply.retired /\ reply'.fenced = reply.fenced
        BY <1>0, <2>2 DEF IsReply
      <3> QED
        BY <2>1, <2>2, <3>1 DEF AudioOrder
    <2> QED
      BY <2>1, <2>2 DEF AudioOrder
  <1>6. CASE WriteSteps
    <2>1. /\ reply' = reply /\ IsTask(task')
          /\ \/ task' = [task EXCEPT !.state = "done"]
             \/ task' = [task EXCEPT !.endWritten = TRUE] /\ task.end
             \/ task' = [task EXCEPT !.written = task.written + 1]
             \/ task' = [task EXCEPT !.state = "failed"]
      BY <1>6, WriteSteps_
    <2>2. task'.end = task.end /\ (task'.endWritten => task.endWritten \/ task.end)
      BY <1>0, <2>1 DEF IsTask
    <2> QED
      BY <2>1, <2>2 DEF AudioOrder
  <1>7. CASE NewReplies
    <2>1. task' = NoTask /\ reply' \in {NoReply, [NoReply EXCEPT !.state = "live"]}
      BY <1>7, NewReplies_
    <2>2. /\ reply'.fenced = FALSE /\ reply'.ended = FALSE /\ reply'.endGiven = FALSE
          /\ task'.end = FALSE /\ task'.endWritten = FALSE
      BY <2>1 DEF NoReply, NoTask
    <2> QED
      BY <2>2 DEF AudioOrder
  <1>8. CASE EngineNotes
    <2>1. task' = task /\ (reply' = [reply EXCEPT !.made = reply.made + 1]
                           \/ reply' = [reply EXCEPT !.retired = TRUE])
      BY <1>8 DEF EngineNotes, Generate, GenRetire, CoreFrame
    <2>2. /\ reply'.cut = reply.cut /\ reply'.receipt = reply.receipt
          /\ reply'.ended = reply.ended /\ reply'.endGiven = reply.endGiven
          /\ (reply.retired => reply'.retired) /\ reply'.fenced = reply.fenced
      BY <1>0, <2>1 DEF IsReply
    <2> QED
      BY <2>1, <2>2 DEF AudioOrder
  <1> QED
    BY <1>1, <1>2, <1>3, <1>4, <1>5, <1>6, <1>7, <1>8, NextAudioOrders, FencesOrder DEF ReplySteps

(* The events of the reply.                                                *)
LEMMA EventsMore ==
  ASSUME ProperSeq(events), NEW new, ProperSeq(new), events' = events \o new, NEW CONSTANT k,
         \A i \in DOMAIN new : new[i].kind # k
  PROVE  EventsOf(k)' = EventsOf(k)
  <1>1. /\ Len(events) \in Nat /\ Len(new) \in Nat
        /\ DOMAIN events = 1..Len(events) /\ DOMAIN new = 1..Len(new)
        /\ DOMAIN events' = 1..(Len(events) + Len(new))
        /\ \A i \in 1..Len(events) : events'[i] = events[i]
        /\ \A i \in 1..Len(new) : events'[Len(events) + i] = new[i]
    BY ConcatFacts
  <1>2. ASSUME NEW i \in DOMAIN events', i \notin DOMAIN events PROVE events'[i].kind # k
    <2>1. i - Len(events) \in 1..Len(new) /\ i = Len(events) + (i - Len(events))
      BY <1>1, <1>2
    <2> QED
      BY <1>1, <2>1
  <1>3. DOMAIN events \subseteq DOMAIN events'
    BY <1>1
  <1>4. \A i \in DOMAIN events : events'[i] = events[i]
    BY <1>1
  <1> QED
    BY <1>2, <1>3, <1>4 DEF EventsOf

LEMMA EventAdded ==
  ASSUME ProperSeq(events), NEW e, events' = events \o <<e>>
  PROVE  /\ \A i \in EventsOf(e.kind)' : i \in EventsOf(e.kind) \/ i = Len(events) + 1
         /\ \A k : k # e.kind => EventsOf(k)' = EventsOf(k)
  <1> DEFINE new == <<e>>
  <1>1. ProperSeq(new) /\ DOMAIN new = {1} /\ \A i \in DOMAIN new : new[i] = e
    <2>1. DOMAIN <<e>> = {1} /\ <<e>>[1] = e
      OBVIOUS
    <2>2. ProperSeq(<<e>>)
      BY DEF ProperSeq
    <2> QED
      BY <2>1, <2>2
  <1>2. events' = events \o new /\ Len(new) = 1
    OBVIOUS
  <1> HIDE DEF new
  <1>3. /\ Len(events) \in Nat
        /\ DOMAIN events = 1..Len(events) /\ DOMAIN events' = 1..(Len(events) + 1)
        /\ \A i \in 1..Len(events) : events'[i] = events[i]
        /\ events'[Len(events) + 1] = e
    <2>1. /\ Len(events) \in Nat /\ Len(new) \in Nat
          /\ DOMAIN events = 1..Len(events) /\ DOMAIN new = 1..Len(new)
          /\ DOMAIN events' = 1..(Len(events) + Len(new))
          /\ \A i \in 1..Len(events) : events'[i] = events[i]
          /\ \A i \in 1..Len(new) : events'[Len(events) + i] = new[i]
      BY <1>1, <1>2, ConcatFacts
    <2> QED
      BY <1>1, <1>2, <2>1
  <1>4. \A i \in DOMAIN events' : i \in DOMAIN events \/ i = Len(events) + 1
    BY <1>3
  <1>5. DOMAIN events \subseteq DOMAIN events'
    BY <1>3
  <1>6. \A i \in DOMAIN events : events'[i] = events[i]
    BY <1>3
  <1> QED
    BY <1>3, <1>4, <1>5, <1>6 DEF EventsOf

LEMMA EventGone ==
  ASSUME ProperSeq(events), events # <<>>, events' = Tail(events), NEW CONSTANT k
  PROVE  /\ \A i \in EventsOf(k)' : i \in Int /\ i + 1 \in EventsOf(k) /\ i + 1 # 1
         /\ Head(events).kind = k => 1 \in EventsOf(k)
  <1>1. /\ Len(events) \in Nat \ {0} /\ DOMAIN events = 1..Len(events)
        /\ DOMAIN events' = 1..Len(events) - 1 /\ Head(events) = events[1]
        /\ \A i \in 1..Len(events) - 1 : events'[i] = events[i + 1]
    BY TailFacts
  <1>2. \A i \in DOMAIN events' : i \in Int /\ i + 1 \in DOMAIN events /\ i + 1 # 1
    BY <1>1
  <1>3. \A i \in DOMAIN events' : events'[i] = events[i + 1]
    BY <1>1
  <1>4. 1 \in DOMAIN events
    BY <1>1
  <1> QED
    BY <1>1, <1>2, <1>3, <1>4 DEF EventsOf

(* What stays so, of what is known of a reply whose event waits.           *)
Told(r, s) ==
    /\ r.cut => s.cut
    /\ r.retired => s.retired
    /\ r.state # "none" => s.state # "none"
    /\ s.eventSeen => r.eventSeen
LEMMA OrderKept ==
  ASSUME EventOrder, Told(reply, reply'),
         \A k \in {"cut", "ended"} : EventsOf(k)' = EventsOf(k)
  PROVE  EventOrder'
  <1>1. EventsOf("cut")' = EventsOf("cut") /\ EventsOf("ended")' = EventsOf("ended")
    OBVIOUS
  <1> QED
    BY <1>1 DEF EventOrder, Told

LEMMA NoneWait ==
  ASSUME events' = <<>>, reply'.eventSeen => reply'.retired
  PROVE  EventOrder'
  <1>1. \A k : EventsOf(k)' = {}
    BY DEF EventsOf
  <1> QED
    BY <1>1 DEF EventOrder

(* The steps that leave the reply alone.                                   *)
LEMMA OtherEvents ==
  ASSUME LifeInv, FinalsInv, EventOrder, [Next]_vars, ~ReplySteps
  PROVE  EventOrder'
  <1>0. reply' = reply /\ Told(reply, reply') /\ ProperSeq(events)
    BY ReplyAsItIs DEF Told, FinalsInv, FinalTypes
  <1>1. CASE events' = events
    BY <1>0, <1>1, OrderKept DEF EventsOf
  <1>2. CASE Looking
    <2>1. (Stays(life, life') /\ UNCHANGED EndVars) \/ \E l : Over(l)
      BY <1>2, LookEnds
    <2>2. events' = events \/ events' = <<>>
      BY <2>1 DEF EndVars, Over
    <2> QED
      BY <1>0, <1>1, <2>2, NoneWait DEF EventOrder
  <1>3. ASSUME NEW new, events' = events \o new, ProperSeq(new),
               \A i \in DOMAIN new : new[i].kind \notin {"cut", "ended"}
        PROVE  EventOrder'
    <2>1. \A k \in {"cut", "ended"} : EventsOf(k)' = EventsOf(k)
      BY <1>0, <1>3, EventsMore
    <2> QED
      BY <1>0, <2>1, OrderKept
  <1>4. ASSUME NEW e, events' = events \o <<e>>, e.kind \notin {"cut", "ended"} PROVE EventOrder'
    <2>1. ProperSeq(<<e>>) /\ \A i \in DOMAIN <<e>> : <<e>>[i] = e
      BY DEF ProperSeq
    <2> QED
      BY <1>3, <1>4, <2>1
  <1>5. CASE CoreFinal
    <2> DEFINE a == Event("final", engine.finals + 1)
               b == Event("observed", engine.finals + 1)
    <2>1. events' = events \o <<a, b>> \/ events' = events \o <<a>>
      BY <1>5 DEF CoreFinal, Emit
    <2>2. a.kind = "final" /\ b.kind = "observed"
      BY DEF Event
    <2> HIDE DEF a, b
    <2>3. ProperSeq(<<a, b>>) /\ \A i \in DOMAIN <<a, b>> : <<a, b>>[i] \in {a, b}
      BY DEF ProperSeq
    <2>4. \A i \in DOMAIN <<a, b>> : <<a, b>>[i].kind \notin {"cut", "ended"}
      BY <2>2, <2>3
    <2> QED
      BY <1>3, <1>4, <2>1, <2>2, <2>3, <2>4
  <1>6. CASE CoreObserve
    <2>1. PICK f : events' = events \o <<Event("observed", f)>>
      BY <1>6 DEF CoreObserve, Emit
    <2>2. Event("observed", f).kind = "observed"
      BY DEF Event
    <2> QED
      BY <1>4, <2>1, <2>2
  <1>7. CASE CoreFinish
    <2>1. events' = events \o <<Event("finished", 0)>>
      BY <1>7 DEF CoreFinish, Emit
    <2>2. Event("finished", 0).kind = "finished"
      BY DEF Event
    <2> QED
      BY <1>4, <2>1, <2>2
  <1>8. Jobs \/ Opened => events' = events
    BY DEF Jobs, Opened, engineVars
  <1>9. ~(\E c \in BOOLEAN : Open(c)) /\ ~TakeEvent /\ ~Stop /\ ~CoreFence /\ ~GenRetire
    BY DEF ReplySteps, NewReplies, FenceSteps, EngineNotes
  <1> QED
    BY <1>1, <1>2, <1>5, <1>6, <1>7, <1>8, <1>9, QuietSteps DEF TurningPoints, EventSteps

LEMMA EventsOrdered ==
  ASSUME LifeInv, HeldInv, FinalsInv, ReplyInv, AudioOrder, EventOrder, [Next]_vars
  PROVE  EventOrder'
  <1>0. IsReply(reply) /\ ProperSeq(events)
    BY DEF ReplyInv, AudioFits, FinalsInv, FinalTypes
  <1>1. ASSUME Told(reply, reply'), events' = events PROVE EventOrder'
    BY <1>1, OrderKept DEF EventsOf
  <1>2. CASE Status \/ Replies
    <2>1. events' = events
      BY <1>2 DEF Status, Replies, engineVars
    <2>2. Status => \/ reply' = reply
                    \/ reply' = [reply EXCEPT !.ended = reply.ended \/ task.endWritten,
                                              !.delivered = reply.delivered + task.written]
      BY DEF Status
    <2>4. Replies =>
            reply' = [reply EXCEPT !.madeSeen = reply.made, !.retiredSeen = reply.retired,
                                   !.fenced = reply.fenced \/ reply.cut,
                                   !.endSaid = reply.endSaid
                                     \/ (reply.ended /\ reply.retired /\ Sound(life))]
      BY DEF Replies
    <2>3. Told(reply, reply')
      BY <1>0, <1>2, <2>2, <2>4 DEF Told, IsReply
    <2> QED
      BY <1>1, <2>1, <2>3
  <1>3. CASE TakeEvent
    <2> DEFINE e == Head(events)
    <2>1. PICK s, f : /\ reply' = [reply EXCEPT !.eventSeen = reply.eventSeen \/ s, !.fenced = f]
                      /\ s => e.kind = "ended"
      BY <1>3 DEF TakeEvent
    <2>2. events # <<>> /\ events' = Tail(events)
      BY <1>3 DEF TakeEvent
    <2>3. /\ \A i \in EventsOf("cut")' : i + 1 \in EventsOf("cut")
          /\ \A i \in EventsOf("ended")' : i \in Int /\ i + 1 \in EventsOf("ended") /\ i + 1 # 1
          /\ e.kind = "ended" => 1 \in EventsOf("ended")
      BY <1>0, <2>2, EventGone
    <2> HIDE DEF e
    <2>4. /\ reply'.cut = reply.cut /\ reply'.retired = reply.retired /\ reply'.state = reply.state
          /\ reply'.eventSeen = (reply.eventSeen \/ s)
      BY <1>0, <2>1 DEF IsReply
    <2>5. EventsOf("cut")' # {} => reply'.cut /\ reply'.state # "none"
      BY <2>3, <2>4 DEF EventOrder
    <2>6. EventsOf("ended")' # {} => reply'.retired /\ reply'.state # "none"
      BY <2>3, <2>4 DEF EventOrder
    <2>7. reply'.eventSeen => reply'.retired /\ EventsOf("ended")' = {}
      <3>1. CASE reply.eventSeen
        BY <2>3, <2>4, <3>1 DEF EventOrder
      <3>2. CASE s
        <4>1. 1 \in EventsOf("ended") /\ reply.retired
          BY <2>1, <2>3, <3>2 DEF EventOrder
        <4>2. EventsOf("ended")' = {}
          BY <2>3, <4>1 DEF EventOrder
        <4> QED
          BY <2>4, <4>1, <4>2
      <3> QED
        BY <2>4, <3>1, <3>2
    <2>8. \A i, j \in EventsOf("ended")' : i = j
      <3>1. ASSUME NEW i \in EventsOf("ended")', NEW j \in EventsOf("ended")' PROVE i = j
        <4>1. i + 1 = j + 1 /\ i \in Int /\ j \in Int
          BY <2>3, <3>1 DEF EventOrder
        <4> QED
          BY <4>1
      <3> QED
        BY <3>1
    <2> QED
      BY <2>5, <2>6, <2>7, <2>8 DEF EventOrder
  <1>4. CASE JudgeSteps
    <2>1. /\ events' = events
          /\ reply' = reply \/ \E n, t : reply' = [reply EXCEPT !.rendered = n, !.receipt = t]
      BY <1>4, JudgeSteps_
    <2>2. Told(reply, reply')
      BY <1>0, <2>1 DEF Told, IsReply
    <2> QED
      BY <1>1, <2>1, <2>2
  <1>5. CASE NextAudio
    <2> DEFINE r == IF Settled(reply) THEN [reply EXCEPT !.state = "settled"] ELSE reply
    <2>1. events' = events
      BY <1>5 DEF NextAudio, engineVars
    <2>2. \/ \E n : reply' = [r EXCEPT !.given = r.given + n]
          \/ reply' = [r EXCEPT !.endGiven = TRUE]
          \/ reply' = r
      BY <1>5 DEF NextAudio
    <2>3. IsReply(r) /\ Told(reply, r)
      BY <1>0 DEF Told, IsReply
    <2> HIDE DEF r
    <2>4. Told(reply, reply')
      BY <2>2, <2>3 DEF Told, IsReply
    <2> QED
      BY <1>1, <2>1, <2>4
  <1>6. CASE FenceSteps
    <2> DEFINE c == CutReply(reply)
    <2>1. /\ IsReply(c)
          /\ \/ c = reply /\ CutEvent = <<>>
             \/ /\ c = [reply EXCEPT !.cut = TRUE, !.made = reply.given]
                /\ CutEvent = <<Event("cut", 0)>>
      BY Cuts
    <2>2. \/ reply' = reply /\ events' = events
          \/ /\ reply.state = "live" /\ events' = events \o CutEvent
             /\ (reply' = c \/ reply' = [c EXCEPT !.fenced = TRUE])
      BY <1>6, FenceSteps_
    <2> HIDE DEF c
    <2>3. CASE reply' = reply /\ events' = events
      BY <1>1, <2>3 DEF Told
    <2>4. ASSUME reply.state = "live", events' = events \o CutEvent,
                 reply' = c \/ reply' = [c EXCEPT !.fenced = TRUE]
          PROVE  EventOrder'
      <3>1. Told(reply, c) /\ c.state = "live"
        BY <1>0, <2>1, <2>4 DEF Told, IsReply
      <3>2. Told(reply, reply') /\ reply'.state = "live" /\ reply'.cut = c.cut
        BY <2>1, <2>4, <3>1 DEF Told, IsReply
      <3>3. CASE CutEvent = <<>>
        <4>1. events' = events
          BY <1>0, <2>4, <3>3 DEF ProperSeq
        <4> QED
          BY <1>1, <3>2, <4>1
      <3>4. CASE CutEvent = <<Event("cut", 0)>> /\ c = [reply EXCEPT !.cut = TRUE, !.made = reply.given]
        <4>1. Event("cut", 0).kind = "cut"
          BY DEF Event
        <4>2. EventsOf("ended")' = EventsOf("ended")
          BY <1>0, <2>4, <3>4, <4>1, EventAdded
        <4>3. reply'.cut
          BY <1>0, <3>2, <3>4 DEF IsReply
        <4> QED
          BY <3>2, <4>2, <4>3 DEF EventOrder, Told
      <3>5. CASE c = reply /\ CutEvent = <<>>
        BY <3>3, <3>5
      <3> QED
        BY <2>1, <3>3, <3>4
    <2> QED
      BY <2>2, <2>3, <2>4
  <1>7. CASE WriteSteps
    <2>1. reply' = reply /\ events' = events
      BY <1>7, WriteSteps_
    <2> QED
      BY <1>1, <2>1 DEF Told
  <1>8. CASE NewReplies
    <2>1. \/ reply.state = "none" /\ events' = events /\ reply' = [NoReply EXCEPT !.state = "live"]
          \/ events' = <<>> /\ reply' = NoReply
      BY <1>8, NewReplies_
    <2>2. reply'.eventSeen = FALSE
      BY <2>1 DEF NoReply
    <2>3. CASE events' = <<>>
      BY <2>2, <2>3, NoneWait
    <2>4. CASE reply.state = "none" /\ events' = events
      <3>1. EventsOf("cut")' = {} /\ EventsOf("ended")' = {}
        BY <2>4 DEF EventOrder, EventsOf
      <3> QED
        BY <2>2, <3>1 DEF EventOrder
    <2> QED
      BY <2>1, <2>3, <2>4
  <1>9. CASE Generate
    <2>1. reply' = [reply EXCEPT !.made = reply.made + 1] /\ events' = events
      BY <1>9 DEF Generate, engineVars
    <2>2. Told(reply, reply')
      BY <1>0, <2>1 DEF Told, IsReply
    <2> QED
      BY <1>1, <2>1, <2>2
  <1>10. CASE GenRetire
    <2>1. /\ reply' = [reply EXCEPT !.retired = TRUE] /\ ~reply.retired /\ reply.state = "live"
          /\ events' = events \o <<Event("ended", 0)>>
      BY <1>10 DEF GenRetire, Emit
    <2>2. Event("ended", 0).kind = "ended"
      BY DEF Event
    <2>3. /\ EventsOf("cut")' = EventsOf("cut")
          /\ \A i \in EventsOf("ended")' : i \in EventsOf("ended") \/ i = Len(events) + 1
      BY <1>0, <2>1, <2>2, EventAdded
    <2>4. EventsOf("ended") = {} /\ ~reply.eventSeen
      BY <2>1 DEF EventOrder
    <2>5. /\ reply'.cut = reply.cut /\ reply'.retired /\ reply'.state = "live"
          /\ reply'.eventSeen = reply.eventSeen
      BY <1>0, <2>1 DEF IsReply
    <2> QED
      BY <2>1, <2>3, <2>4, <2>5 DEF EventOrder
  <1> QED
    BY <1>2, <1>3, <1>4, <1>5, <1>6, <1>7, <1>8, <1>9, <1>10, OtherEvents
       DEF ReplySteps, EngineNotes

----------------------------------------------------------------------------
(* Reports on their way to the worker.                                     *)
SendReport == \E op \in Ops : Send(op) /\ op = "report"

(* Where lines move.                                                       *)
LineMoves == Read \/ (\E op \in Ops : Send(op)) \/ SettingsAnswer
LEMMA QueueSteps ==
  ASSUME [Next]_vars, ~LineMoves
  PROVE  /\ queue' = queue
         /\ hand' = hand \/ hand' = NoLine
         /\ pc' # "input" => pc # "input" \/ hand' = NoLine
         /\ pc' = "read" \/ pc # "read"
  <1> DEFINE Goes == /\ queue' = queue
                     /\ hand' = hand \/ hand' = NoLine
                     /\ pc' # "input" => pc # "input" \/ hand' = NoLine
                     /\ pc' = "read" \/ pc # "read"
  <1>1. ASSUME Jobs \/ Opened \/ NotOpened \/ Status PROVE Goes
    BY <1>1, NotOpenedIsWorse DEF Jobs, Opened, Onward, NotOpened, Status, lineVars, Throw
  <1>2. ASSUME TakeEvent \/ EventsTaken \/ Replies \/ Reconcile PROVE Goes
    BY <1>2 DEF TakeEvent, EventsTaken, Replies, Reconcile, loopVars, lineVars, Throw
  <1>3. ASSUME ReleaseThrows \/ NextAudio \/ LastStatus PROVE Goes
    BY <1>3 DEF ReleaseThrows, NextAudio, LastStatus, lineVars, Throw
  <1>4. ASSUME Abandon \/ LookAtSession \/ LookAtCapture \/ LookAtNothing PROVE Goes
    BY <1>4 DEF Abandon, LookAtSession, LookAtCapture, LookAtNothing, LookFrame, lineVars
  <1>5. ASSUME Nothing \/ Values \/ Refusal \/ Finish \/ Drain \/ Abort PROVE Goes
    BY <1>5 DEF Nothing, Values, Refusal, Finish, Drain, Abort, ControlFrame, Taken
  <1>6. ASSUME Manage \/ Record \/ Synthesize \/ Stop \/ Report \/ \E c \in BOOLEAN : Open(c)
        PROVE  Goes
    BY <1>6 DEF Manage, Record, Synthesize, Stop, Report, Open, ControlFrame, Taken
  <1>7. ASSUME Input PROVE Goes
    BY <1>7 DEF Input, lineVars
  <1>8. ASSUME Elsewhere PROVE Goes
    <2>1. AroundKept
      BY <1>8, AroundKeeps DEF Around, Elsewhere
    <2> QED
      BY <1>8, <2>1, ElsewhereKeepsLines DEF AroundKept
  <1>9. ASSUME UNCHANGED vars PROVE Goes
    BY <1>9 DEF vars, loopVars, lineVars
  <1> HIDE DEF Goes
  <1>10. Goes
    BY <1>1, <1>2, <1>3, <1>4, <1>5, <1>6, <1>7, <1>8, <1>9
       DEF Next, Loop, Control, Around, Elsewhere, LineMoves
  <1> QED
    BY <1>10 DEF Goes

(* The hand takes the head of the queue.                                   *)
LEMMA ReadTakes ==
  ASSUME OwedInv, Read
  PROVE  /\ \A i \in DOMAIN queue' : queue'[i].op \in Anonymous /\ i + 1 \in DOMAIN queue
                                     /\ queue'[i] = queue[i + 1]
         /\ hand' = NoLine \/ \E i \in DOMAIN queue : hand' = queue[i]
         /\ pc = "read" /\ pc' = "jobs"
  <1>1. /\ pc = "read" /\ pc' = "jobs"
        /\ \/ queue = <<>> /\ queue' = queue /\ hand' = NoLine
           \/ queue # <<>> /\ queue' = Tail(queue) /\ hand' = Head(queue)
    BY DEF Read
  <1>2. CASE queue = <<>> /\ queue' = queue /\ hand' = NoLine
    BY <1>1, <1>2
  <1>3. CASE queue # <<>> /\ queue' = Tail(queue) /\ hand' = Head(queue)
    <2>1. /\ Len(queue) \in Nat \ {0} /\ DOMAIN queue = 1..Len(queue)
          /\ DOMAIN queue' = 1..Len(queue) - 1
          /\ \A i \in 1..Len(queue) - 1 : queue'[i] = queue[i + 1]
          /\ hand' = queue[1]
      BY <1>3, TailFacts DEF OwedInv, LineTypes
    <2>2. \A i \in DOMAIN queue' : i + 1 \in DOMAIN queue /\ i + 1 > 1 /\ queue'[i] = queue[i + 1]
      BY <2>1
    <2>3. \A i \in DOMAIN queue : i > 1 => queue[i].op \in Anonymous
      BY DEF OwedInv, LineTypes
    <2>4. 1 \in DOMAIN queue
      BY <2>1
    <2> QED
      BY <1>1, <2>1, <2>2, <2>3, <2>4
  <1> QED
    BY <1>1, <1>2, <1>3

(* A line is added at the end.                                             *)
LEMMA LineAdded ==
  ASSUME OwedInv, NEW l, queue' = Append(queue, l), hand' = hand, pc' = pc
  PROVE  Coming' \subseteq Coming \cup (IF l.op = "report" THEN {l} ELSE {})
  <1>1. /\ Len(queue) \in Nat /\ DOMAIN queue = 1..Len(queue)
        /\ DOMAIN queue' = 1..(Len(queue) + 1)
        /\ \A i \in 1..Len(queue) : queue'[i] = queue[i]
        /\ queue'[Len(queue) + 1] = l
    BY AppendFacts DEF OwedInv, LineTypes
  <1>2. \A i \in DOMAIN queue' : i \in DOMAIN queue \/ i = Len(queue) + 1
    BY <1>1
  <1>3. \A i \in DOMAIN queue : queue'[i] = queue[i]
    BY <1>1
  <1>4. {queue'[i] : i \in DOMAIN queue'} \subseteq {queue[i] : i \in DOMAIN queue} \cup {l}
    BY <1>1, <1>2, <1>3
  <1> QED
    BY <1>4 DEF Coming

(* Only the host's reports are new.                                        *)
LEMMA ComingSteps ==
  ASSUME OwedInv, [Next]_vars
  PROVE  Coming' \subseteq Coming \/ SendReport
  <1>1. CASE Read
    <2>1. {queue'[i] : i \in DOMAIN queue'} \subseteq {queue[i] : i \in DOMAIN queue}
      BY <1>1, ReadTakes
    <2>2. hand' = NoLine \/ hand' \in {queue[i] : i \in DOMAIN queue}
      BY <1>1, ReadTakes
    <2>3. NoLine.op = "none"
      BY DEF NoLine
    <2> QED
      BY <2>1, <2>2, <2>3 DEF Coming
  <1>2. ASSUME NEW op \in Ops, Send(op), op # "report" PROVE Coming' \subseteq Coming
    <2>1. queue' = Append(queue, Line(op)) /\ hand' = hand /\ pc' = pc
      BY <1>2 DEF Send, AroundFrame, loopVars
    <2>2. Line(op).op = op
      BY DEF Line, NoLine
    <2> QED
      BY <1>2, <2>1, <2>2, LineAdded
  <1>3. CASE SettingsAnswer
    <2>1. /\ \E s, op : /\ queue' = Append(queue, [NoLine EXCEPT !.op = op, !.session = s])
                        /\ op \in {"values", "refusal"}
          /\ hand' = hand /\ pc' = pc
      BY <1>3 DEF SettingsAnswer, AroundFrame, loopVars
    <2>2. PICK s, op : /\ queue' = Append(queue, [NoLine EXCEPT !.op = op, !.session = s])
                       /\ op \in {"values", "refusal"}
      BY <2>1
    <2>3. [NoLine EXCEPT !.op = op, !.session = s].op = op
      BY DEF NoLine
    <2> DEFINE l == [NoLine EXCEPT !.op = op, !.session = s]
    <2>4. l.op # "report" /\ queue' = Append(queue, l)
      BY <2>2, <2>3
    <2> HIDE DEF l
    <2> QED
      BY <2>1, <2>4, LineAdded
  <1>4. CASE ~LineMoves
    <2>1. /\ queue' = queue
          /\ hand' = hand \/ hand' = NoLine
          /\ pc' # "input" => pc # "input" \/ hand' = NoLine
      BY <1>4, QueueSteps
    <2>2. NoLine.op = "none"
      BY DEF NoLine
    <2> QED
      BY <2>1, <2>2 DEF Coming
  <1> QED
    BY <1>1, <1>2, <1>3, <1>4 DEF LineMoves, SendReport

(* While the loop makes its pass the queue has no request.                 *)
LEMMA QueueWaitsStill ==
  ASSUME OwedInv, QueueWaits, [Next]_vars
  PROVE  QueueWaits'
  <1>1. CASE Read
    BY <1>1, ReadTakes DEF QueueWaits
  <1>2. CASE (\E op \in Ops : Send(op)) \/ SettingsAnswer
    <2>1. pc' = "read"
      BY <1>2 DEF Send, SettingsAnswer, AroundFrame, loopVars
    <2> QED
      BY <2>1 DEF QueueWaits
  <1>3. CASE ~LineMoves
    BY <1>3, QueueSteps DEF QueueWaits
  <1> QED
    BY <1>1, <1>2, <1>3 DEF LineMoves

(* A request in the hand is alone, and is gone when it has been looked at. *)
LEMMA AlmostNoneComing ==
  ASSUME OwedInv, QueueWaits, pc # "read"
  PROVE  Coming \subseteq {hand} /\ (pc = "input" => Coming = {})
  <1>1. \A i \in DOMAIN queue : queue[i].op # "report"
    BY DEF QueueWaits, Anonymous
  <1> QED
    BY <1>1 DEF Coming

LEMMA HandLookedAt ==
  ASSUME OwedInv, QueueWaits, [Next]_vars, pc = "control", pc' = "input"
  PROVE  Coming' = {}
  <1>2. QueueWaits'
    BY QueueWaitsStill
  <1>3. \A i \in DOMAIN queue' : queue'[i].op # "report"
    BY <1>2 DEF QueueWaits, Anonymous
  <1> QED
    BY <1>3 DEF Coming

(* An abort lasts as long as its session.                                  *)
LEMMA AbortStays ==
  ASSUME LifeInv, [Next]_vars, ~(\E c \in BOOLEAN : Open(c)), ~Retired(life')
  PROVE  ~Retired(life) /\ (life.abort => life'.abort)
  <1>1. CASE Opened
    <2> DEFINE open == [life EXCEPT !.core = "running", !.state = "open"]
               over == [life EXCEPT !.core = "aborting"]
               l == IF Sound(life) THEN open ELSE over
    <2>1. Shape(life, opening) /\ opening = "opened" /\ Onward(l)
      BY <1>1 DEF LifeInv, Opened
    <2>2. Shape(l, "none") /\ (life.abort => l.abort)
      BY <2>1 DEF Shape, LifeType, HasSession, Sound
    <2> HIDE DEF l
    <2>3. Worse(l, life') /\ ~Retired(life)
      BY <1>1, <2>1, <2>2, OnwardIsWorse, OpenedLife
    <2>4. Retired(l) => Retired(life')
      BY <2>3 DEF Worse, Retired
    <2> QED
      BY <2>2, <2>3, <2>4 DEF Worse
  <1>2. CASE Values
    <2>1. life' = [life EXCEPT !.waiting = FALSE]
      BY <1>2 DEF Values
    <2> QED
      BY <2>1 DEF LifeInv, Shape, LifeType, Retired
  <1>3. CASE Drain
    <2>1. /\ life' = [life EXCEPT !.state = "draining", !.closing = DrainTime(life),
                          !.core = IF life.core = "running" THEN "draining" ELSE life.core]
          /\ life.state = "open"
      BY <1>3 DEF Drain, MayDrain
    <2> QED
      BY <2>1 DEF LifeInv, Shape, LifeType, Retired
  <1>4. ASSUME NEW l, Worse(life, l), l = life' PROVE ~Retired(life) /\ (life.abort => life'.abort)
    BY <1>4 DEF Worse, Retired
  <1>5. CASE Looking
    <2>1. PICK l : /\ Worse(life, l)
                   /\ \/ life' = l
                      \/ Terminal(l)
      BY <1>5, LooksAreWorse DEF Looking
    <2>2. Terminal(l) => life' = l \/ Retired(life')
      <3>1. Terminal(l) => life' = l \/ life' = [l EXCEPT !.state = IF l.failure = "none" THEN "closed" ELSE "failed",
                              !.core = "none", !.live = FALSE]
        BY DEF Terminal
      <3>2. l \in LifeType
        BY <2>1 DEF Worse
      <3> QED
        BY <3>1, <3>2 DEF LifeType, Retired
    <2> QED
      BY <1>4, <2>1, <2>2
  <1> QED
    BY <1>1, <1>2, <1>3, <1>4, <1>5, OthersAreWorse DEF Turning

(* What has been written only grows, and a reply that may end may end.     *)
MayEnd == Fenced \/ reply.ended \/ task.endWritten
Grows ==
    /\ Written' \in Nat /\ Written <= Written'
    /\ MayEnd => MayEnd'
    /\ reply'.rendered = reply.rendered /\ reply'.receipt = reply.receipt
    /\ reply'.state = "none" => reply.state = "none"

LEMMA WrittenIsNatural == ASSUME ReplyInv PROVE Written \in Nat /\ IsReply(reply) /\ IsTask(task)
  BY DEF ReplyInv, AudioFits, Written

LEMMA ReplyGrows ==
  ASSUME LifeInv, ReplyInv, ReplyInv', [Next]_vars, ~Retired(life'),
         ~NewReplies, ~JudgeSteps
  PROVE  Grows
  <1>0. /\ Written \in Nat /\ IsReply(reply) /\ IsTask(task)
        /\ Written' \in Nat /\ IsReply(reply') /\ IsTask(task')
    BY WrittenIsNatural DEF ReplyInv, AudioFits, Written
  <1>1. life.abort => life'.abort
    BY AbortStays DEF NewReplies
  <1>2. ASSUME Written' = Written \/ Written' = Written + 1,
               reply.fenced => reply'.fenced, reply.ended => reply'.ended \/ task'.endWritten,
               task.endWritten => task'.endWritten \/ reply'.ended,
               reply'.rendered = reply.rendered, reply'.receipt = reply.receipt,
               reply'.state = "none" => reply.state = "none"
        PROVE  Grows
    BY <1>0, <1>1, <1>2 DEF Grows, MayEnd, Fenced
  <1>3. CASE ~ReplySteps
    BY <1>0, <1>2, <1>3, ReplyAsItIs DEF Written
  <1>4. CASE Status
    <2>1. \/ reply' = reply /\ task' = task
          \/ /\ reply' = [reply EXCEPT !.ended = reply.ended \/ task.endWritten,
                                       !.delivered = reply.delivered + task.written]
             /\ task' = NoTask
      BY <1>4 DEF Status
    <2>2. ASSUME reply' = [reply EXCEPT !.ended = reply.ended \/ task.endWritten,
                                        !.delivered = reply.delivered + task.written],
                 task' = NoTask
          PROVE  Grows
      <3>1. /\ reply'.fenced = reply.fenced /\ reply'.receipt = reply.receipt
            /\ reply'.rendered = reply.rendered /\ reply'.state = reply.state
            /\ reply'.ended = (reply.ended \/ task.endWritten)
            /\ reply'.delivered = reply.delivered + task.written
        BY <1>0, <2>2 DEF IsReply
      <3>2. task'.written = 0
        BY <2>2 DEF NoTask
      <3>3. Written' = Written
        BY <1>0, <3>1, <3>2 DEF Written
      <3> QED
        BY <1>2, <3>1, <3>3
    <2> QED
      BY <1>0, <1>2, <2>1, <2>2 DEF Written
  <1>5. CASE TakeEvent \/ Replies
    <2>1. task' = task
      BY <1>5 DEF TakeEvent, Replies
    <2>2. TakeEvent => \E s, f : reply' = [reply EXCEPT !.eventSeen = s, !.fenced = reply.fenced \/ f]
      BY DEF TakeEvent
    <2>3. Replies =>
            reply' = [reply EXCEPT !.madeSeen = reply.made, !.retiredSeen = reply.retired,
                                   !.fenced = reply.fenced \/ reply.cut,
                                   !.endSaid = reply.endSaid
                                     \/ (reply.ended /\ reply.retired /\ Sound(life))]
      BY DEF Replies
    <2>4. /\ reply.fenced => reply'.fenced
          /\ reply'.receipt = reply.receipt /\ reply'.delivered = reply.delivered
          /\ reply'.rendered = reply.rendered /\ reply'.state = reply.state
          /\ reply'.ended = reply.ended
      BY <1>0, <1>5, <2>2, <2>3 DEF IsReply
    <2> QED
      BY <1>0, <1>2, <2>1, <2>4 DEF Written
  <1>6. CASE NextAudio
    <2> DEFINE r == IF Settled(reply) THEN [reply EXCEPT !.state = "settled"] ELSE reply
    <2>1. \/ task' = task
          \/ task.state = "none" /\ \E n : task' = [NoTask EXCEPT !.state = "queued", !.frames = n]
          \/ task.state = "none" /\ task' = [NoTask EXCEPT !.state = "queued", !.end = TRUE]
      BY <1>6 DEF NextAudio
    <2>2. \/ \E n : reply' = [r EXCEPT !.given = r.given + n]
          \/ reply' = [r EXCEPT !.endGiven = TRUE]
          \/ reply' = r
      BY <1>6 DEF NextAudio
    <2>3. /\ IsReply(r) /\ r.fenced = reply.fenced /\ r.receipt = reply.receipt
          /\ r.delivered = reply.delivered /\ r.rendered = reply.rendered /\ r.ended = reply.ended
          /\ r.state = "none" => reply.state = "none"
      BY <1>0 DEF IsReply
    <2> HIDE DEF r
    <2>4. /\ reply'.fenced = reply.fenced /\ reply'.receipt = reply.receipt
          /\ reply'.delivered = reply.delivered /\ reply'.rendered = reply.rendered
          /\ reply'.ended = reply.ended /\ (reply'.state = "none" => reply.state = "none")
      BY <2>2, <2>3 DEF IsReply
    <2>5. task'.written = task.written /\ (task.endWritten => task'.endWritten)
      <3>1. task.state = "none" => task.written = 0 /\ task.endWritten = FALSE
        BY DEF ReplyInv, AudioFits, NoTask
      <3>2. ASSUME \/ \E n : task' = [NoTask EXCEPT !.state = "queued", !.frames = n]
                   \/ task' = [NoTask EXCEPT !.state = "queued", !.end = TRUE]
            PROVE  task'.written = 0
        BY <3>2 DEF NoTask
      <3> QED
        BY <2>1, <3>1, <3>2
    <2> QED
      BY <1>0, <1>2, <2>4, <2>5 DEF Written
  <1>7. CASE FenceSteps
    <2> DEFINE c == CutReply(reply)
    <2>1. /\ IsReply(c)
          /\ \/ c = reply
             \/ c = [reply EXCEPT !.cut = TRUE, !.made = reply.given]
      BY Cuts
    <2>2. /\ task' = task
          /\ reply' = reply \/ reply' = c \/ reply' = [c EXCEPT !.fenced = TRUE]
      BY <1>7, FenceSteps_
    <2> HIDE DEF c
    <2>3. /\ c.fenced = reply.fenced /\ c.receipt = reply.receipt /\ c.state = reply.state
          /\ c.delivered = reply.delivered /\ c.rendered = reply.rendered /\ c.ended = reply.ended
      BY <1>0, <2>1 DEF IsReply
    <2>4. /\ reply.fenced => reply'.fenced
          /\ reply'.receipt = reply.receipt /\ reply'.state = reply.state
          /\ reply'.delivered = reply.delivered /\ reply'.rendered = reply.rendered
          /\ reply'.ended = reply.ended
      BY <2>1, <2>2, <2>3 DEF IsReply
    <2> QED
      BY <1>0, <1>2, <2>2, <2>4 DEF Written
  <1>8. CASE WriteSteps
    <2>1. /\ reply' = reply
          /\ \/ task' = [task EXCEPT !.state = "done"]
             \/ task' = [task EXCEPT !.endWritten = TRUE]
             \/ task' = [task EXCEPT !.written = task.written + 1]
             \/ task' = [task EXCEPT !.state = "failed"]
      BY <1>8, WriteSteps_
    <2>2. /\ task'.written = task.written \/ task'.written = task.written + 1
          /\ task.endWritten => task'.endWritten
      BY <1>0, <2>1 DEF IsTask
    <2>3. task.written \in Nat /\ reply.delivered \in Nat
      BY DEF ReplyInv, AudioFits
    <2>4. Written' = Written \/ Written' = Written + 1
      BY <2>1, <2>2, <2>3 DEF Written
    <2> QED
      BY <1>2, <2>1, <2>2, <2>4
  <1>9. CASE EngineNotes
    <2>1. task' = task /\ (reply' = [reply EXCEPT !.made = reply.made + 1]
                           \/ reply' = [reply EXCEPT !.retired = TRUE])
      BY <1>9 DEF EngineNotes, Generate, GenRetire, CoreFrame
    <2>2. /\ reply'.fenced = reply.fenced /\ reply'.receipt = reply.receipt
          /\ reply'.delivered = reply.delivered /\ reply'.rendered = reply.rendered
          /\ reply'.ended = reply.ended /\ reply'.state = reply.state
      BY <1>0, <2>1 DEF IsReply
    <2> QED
      BY <1>0, <1>2, <2>1, <2>2 DEF Written
  <1> QED
    BY <1>3, <1>4, <1>5, <1>6, <1>7, <1>8, <1>9 DEF ReplySteps

(* A report that fits goes on fitting.                                     *)
LEMMA FitsOn ==
  ASSUME ReplyInv, Grows, host' = host, NEW r, Fits(r), Said
  PROVE  Fits(r)'
  <1>1. Written \in Nat /\ Written' \in Nat /\ Written <= Written'
    BY WrittenIsNatural DEF Grows
  <1>2. r.n <= Written'
    BY <1>1 DEF Fits
  <1> QED
    BY <1>2 DEF Fits, Grows, MayEnd, Said

LEMMA ReportsStay ==
  ASSUME ReplyInv, ReportsFit, Grows, host' = host, held' = held, Coming' \subseteq Coming
  PROVE  ReportsFit'
  <1>1. \A r \in Coming' : Fits(r)'
    BY FitsOn DEF ReportsFit
  <1>2. (\A i \in DOMAIN held : Fits(held[i]))'
    <2>1. ASSUME NEW i \in DOMAIN held' PROVE Fits(held[i])'
      <3>1. PICK r : r = held[i]
        OBVIOUS
      <3>2. Fits(r) /\ Said /\ r = held'[i]
        BY <2>1, <3>1 DEF ReportsFit
      <3>3. Fits(r)'
        BY <3>2, FitsOn
      <3> QED
        BY <3>2, <3>3 DEF Fits
    <2> QED
      BY <2>1
  <1>3. /\ \A i, j \in DOMAIN held' : i < j => Precedes(held'[i], held'[j])
        /\ \A i \in DOMAIN held' : \A r \in Coming' : Precedes(held'[i], r)
    BY DEF ReportsFit, Precedes
  <1>4. Said' /\ reply'.rendered <= host'.said /\ host'.said <= Written'
    <2>1. /\ {reply.rendered, host.said} \subseteq Nat /\ host.terminal \in BOOLEAN
          /\ reply.rendered <= host.said /\ host.said <= Written
      BY DEF ReportsFit, Said
    <2>2. Written \in Nat /\ Written' \in Nat /\ Written <= Written'
      BY WrittenIsNatural DEF Grows
    <2>3. reply'.rendered = reply.rendered
      BY DEF Grows
    <2> QED
      BY <2>1, <2>2, <2>3 DEF Said
  <1>5. NothingReported => NothingReported'
    BY DEF NothingReported
  <1>6. /\ reply'.receipt => host'.terminal /\ NothingReported'
        /\ reply'.state = "none" => NothingReported' /\ host' = NoHost /\ reply'.rendered = 0
    BY <1>5 DEF ReportsFit, Grows
  <1> QED
    BY <1>1, <1>2, <1>3, <1>4, <1>6 DEF ReportsFit

(* The host reports what has been written.                                 *)
LEMMA ReportSent ==
  ASSUME LifeInv, OwedInv, ReplyInv, ReportsFit, [Next]_vars, ~Retired(life'), SendReport
  PROVE  ReportsFit'
  <1>1. PICK n \in host.said..Written, t \in BOOLEAN :
          LET r == ReportOf(n, t) IN
          /\ Honest(r) /\ queue = <<>> /\ queue' = Append(queue, r)
          /\ host' = [said |-> r.n, terminal |-> r.terminal]
          /\ reply.state = "live" /\ ~host.terminal
    BY DEF SendReport, Send, Reports
  <1> DEFINE r == ReportOf(n, t)
  <1>2. /\ Honest(r) /\ queue = <<>> /\ queue' = Append(queue, r)
        /\ host' = [said |-> r.n, terminal |-> r.terminal]
        /\ reply.state = "live" /\ ~host.terminal
    BY <1>1
  <1>3. r.n = n /\ r.terminal = t /\ r.op = "report"
    BY DEF ReportOf, Line, NoLine
  <1> HIDE DEF r
  <1>4. /\ reply' = reply /\ task' = task /\ life' = life /\ held' = held /\ hand' = hand
        /\ pc' = pc /\ pc = "read"
    BY DEF SendReport, Send, AroundFrame, loopVars
  <1>5. Coming' \subseteq {r}
    <2>1. Coming' \subseteq Coming \cup {r}
      BY <1>2, <1>3, <1>4, LineAdded
    <2>2. Coming \subseteq {hand} /\ hand.op \in Anonymous
      <3>1. hand.id = 0
        BY <1>4 DEF OwedInv, HandIsEmpty
      <3>2. DOMAIN queue = {}
        BY <1>2
      <3> QED
        BY <3>1, <3>2 DEF OwedInv, LineTypes, Coming
    <2>3. Coming = {}
      BY <2>2 DEF Coming, Anonymous
    <2> QED
      BY <2>1, <2>3
  <1>6. Written \in Nat /\ Written' = Written /\ (MayEnd' <=> MayEnd)
    BY <1>4, WrittenIsNatural DEF Written, MayEnd, Fenced
  <1>7. /\ reply.rendered \in Nat /\ host.said \in Nat /\ reply.rendered <= host.said
        /\ n \in Nat /\ host.said <= n /\ n <= Written
    BY <1>6 DEF ReportsFit, Said
  <1>8. t => MayEnd
    <2>1. t => Stopping \/ reply.ended \/ task.endWritten
      BY <1>2, <1>3 DEF Honest
    <2>2. Stopping <=> Fenced
      <3>1. DOMAIN queue = {} /\ Len(queue) = 0
        BY <1>2
      <3> QED
        BY <3>1 DEF Stopping
    <2> QED
      BY <2>1, <2>2 DEF MayEnd
  <1>9. host'.said = n /\ host'.terminal = t
    BY <1>2, <1>3
  <1>10. \A s \in Coming' : Fits(s)'
    BY <1>3, <1>4, <1>5, <1>6, <1>7, <1>8, <1>9 DEF Fits, MayEnd
  <1>11. ASSUME NEW i \in DOMAIN held
         PROVE  Fits(held[i])' /\ held[i].n \in Nat /\ held[i].n <= n /\ ~held[i].terminal
    <2>1. Fits(held[i])
      BY DEF ReportsFit
    <2>2. held[i].n \in Nat /\ held[i].n <= n /\ ~held[i].terminal /\ held[i].n <= Written
          /\ held[i].terminal \in BOOLEAN /\ reply.rendered <= held[i].n
      BY <1>2, <1>7, <2>1 DEF Fits
    <2> QED
      BY <1>4, <1>6, <1>9, <2>2 DEF Fits
  <1>12. (\A i \in DOMAIN held : Fits(held[i]))'
    BY <1>4, <1>11
  <1>13. (\A i \in DOMAIN held : \A s \in Coming : Precedes(held[i], s))'
    BY <1>3, <1>4, <1>5, <1>11 DEF Precedes
  <1>14. (\A i, j \in DOMAIN held : i < j => Precedes(held[i], held[j]))'
    BY <1>4 DEF ReportsFit, Precedes
  <1>15. ~reply'.receipt /\ reply'.state = "live"
    BY <1>2, <1>4 DEF ReportsFit
  <1>16. Said' /\ reply'.rendered <= host'.said /\ host'.said <= Written'
    BY <1>4, <1>6, <1>7, <1>9 DEF Said
  <1> QED
    BY <1>10, <1>12, <1>13, <1>14, <1>15, <1>16 DEF ReportsFit

(* A reply begins with nothing reported.                                   *)
LEMMA ReportsBegin ==
  ASSUME OwedInv, QueueWaits, HeldInv, ReplyInv, NewReplies, Retired(life) \/ ReportsFit,
         Synthesize => ReportsFit, [Next]_vars
  PROVE  ReportsFit'
  <1>1. /\ task' = NoTask /\ host' = IF Synthesize THEN host ELSE NoHost
        /\ \/ reply.state = "none" /\ Synthesize /\ reply' = [NoReply EXCEPT !.state = "live"]
           \/ ~HasSession(life) /\ reply' = NoReply /\ ~Synthesize
    BY NewReplies_
  <1>2. pc = "control" /\ pc' = "input" /\ held' = held
    BY DEF NewReplies, Synthesize, Open, Taken, ControlFrame, Held0
  <1>3. Coming' = {}
    BY <1>2, HandLookedAt
  <1>4. held = <<>> /\ host' = NoHost
    BY <1>1 DEF HeldInv, ReportsFit, NothingReported
  <1>5. NothingReported'
    BY <1>2, <1>3, <1>4 DEF NothingReported
  <1>6. reply'.rendered = 0 /\ reply'.receipt = FALSE /\ Written' = 0
    BY <1>1 DEF NoReply, NoTask, Written
  <1>7. host'.said = 0 /\ host'.terminal = FALSE
    BY <1>4 DEF NoHost
  <1>8. DOMAIN held' = {}
    BY <1>2, <1>4
  <1>9. Said'
    <2>1. {reply'.rendered, host'.said} \subseteq Nat
      BY <1>6, <1>7
    <2>2. host'.terminal \in BOOLEAN
      BY <1>7
    <2> QED
      BY <2>1, <2>2 DEF Said
  <1>10. reply'.rendered <= host'.said /\ host'.said <= Written'
    BY <1>6, <1>7
  <1>11. (\A i \in DOMAIN held : Fits(held[i]))'
    BY <1>8
  <1>12. (\A i \in DOMAIN held : \A s \in Coming : Precedes(held[i], s))'
    BY <1>8
  <1>13. (\A i, j \in DOMAIN held : i < j => Precedes(held[i], held[j]))'
    BY <1>8
  <1>14. (\A s \in Coming : Fits(s))'
    BY <1>3
  <1> QED
    BY <1>4, <1>5, <1>6, <1>9, <1>10, <1>11, <1>12, <1>13, <1>14 DEF ReportsFit

(* A report that fits, and that is not of audio whose write is under way,  *)
(* is believed by the worker; if the engine then refuses it, it has cut    *)
(* the reply after the worker's last look, and the report is of an end.    *)
LEMMA FittingIsBelieved ==
  ASSUME ReplyInv, AudioOrder, NEW r, Fits(r), ~reply.receipt, JudgeReport(r),
         OnlyOvertakenRefused, task.state = "none" \/ ~Unacknowledged(r)
  PROVE  OnlyOvertakenRefused'
  <1>1. Written \in Nat /\ task.written <= task.frames /\ reply.delivered \in Nat
        /\ task.written \in Nat /\ task.frames \in Nat
    BY WrittenIsNatural DEF ReplyInv, AudioFits
  <1>2. task.state = "none" => task.written = 0 /\ task.endWritten = FALSE
    BY DEF ReplyInv, AudioFits, NoTask
  <1>3. /\ r.n \in Nat /\ reply.rendered <= r.n /\ r.n <= reply.delivered + task.written
        /\ r.terminal => Fenced \/ reply.ended \/ task.endWritten
    BY DEF Fits, Written
  <1>4. task.endWritten => task.end
    BY DEF AudioOrder
  <1>5. CASE task.state = "none"
    <2>1. r.n <= reply.delivered /\ (r.terminal => Fenced \/ reply.ended)
      BY <1>1, <1>2, <1>3, <1>5
    <2>2. Believable(r)
      BY <1>3, <2>1 DEF Believable
    <2>3. ~EngineAgrees(r) => Overtaken(r)
      BY <2>1, <2>2 DEF EngineAgrees, AudioOrder, Fenced, Overtaken
    <2> QED
      BY <2>2, <2>3 DEF JudgeReport, OnlyOvertakenRefused
  <1>6. CASE ~Unacknowledged(r) /\ task.state # "none"
    <2>1. r.n <= reply.delivered + task.frames
      BY <1>1, <1>3
    <2>2. ~(r.n > reply.delivered) /\ (r.terminal => Fenced \/ reply.ended)
      BY <1>3, <1>4, <1>6, <2>1 DEF Unacknowledged
    <2>3. r.n <= reply.delivered
      BY <1>1, <1>3, <2>2
    <2>4. Believable(r)
      BY <1>3, <2>2, <2>3 DEF Believable
    <2>5. ~EngineAgrees(r) => Overtaken(r)
      BY <2>2, <2>4 DEF EngineAgrees, AudioOrder, Fenced, Overtaken
    <2> QED
      BY <2>4, <2>5 DEF JudgeReport, OnlyOvertakenRefused
  <1> QED
    BY <1>5, <1>6

(* What the worker takes note of when it believes it.                      *)
LEMMA JudgedFits ==
  ASSUME LifeInv, ReplyInv, ReportsFit, [Next]_vars, ~Retired(life'),
         NEW r, Fits(r), JudgeReport(r), host' = host, task' = task,
         ~(\E c \in BOOLEAN : Open(c))
  PROVE  /\ reply' = reply \/ (reply'.rendered = r.n /\ reply'.receipt = r.terminal)
         /\ reply'.state = reply.state
         /\ Said' /\ reply'.rendered <= host'.said /\ host'.said <= Written'
         /\ reply'.receipt /\ ~reply.receipt => host'.terminal /\ r.terminal
         /\ \A s : Fits(s) /\ r.n <= s.n => Fits(s)'
  <1>0. IsReply(reply) /\ Written \in Nat
    BY WrittenIsNatural
  <1>1. life.abort => life'.abort
    BY AbortStays
  <1>2. \/ reply' = reply
        \/ reply' = [reply EXCEPT !.rendered = r.n, !.receipt = r.terminal]
    BY DEF JudgeReport
  <1>3. /\ reply'.fenced = reply.fenced /\ reply'.ended = reply.ended
        /\ reply'.delivered = reply.delivered /\ reply'.state = reply.state
        /\ \/ reply' = reply
           \/ reply'.rendered = r.n /\ reply'.receipt = r.terminal
    BY <1>0, <1>2 DEF IsReply
  <1>4. Written' = Written /\ (MayEnd => MayEnd')
    BY <1>1, <1>3 DEF Written, MayEnd, Fenced
  <1>5. /\ r.n \in Nat /\ reply.rendered <= r.n /\ r.n <= host.said /\ r.n <= Written
        /\ r.terminal => host.terminal
        /\ reply.rendered \in Nat /\ host.said \in Nat /\ host.terminal \in BOOLEAN
        /\ reply.rendered <= host.said /\ host.said <= Written
    BY DEF Fits, ReportsFit, Said
  <1>6. Said' /\ reply'.rendered <= host'.said /\ host'.said <= Written'
    BY <1>3, <1>4, <1>5 DEF Said
  <1>7. reply'.receipt /\ ~reply.receipt => host'.terminal /\ r.terminal
    BY <1>3, <1>5
  <1>8. ASSUME NEW s, Fits(s), r.n <= s.n PROVE Fits(s)'
    <2>1. reply'.rendered <= s.n
      BY <1>3, <1>8 DEF Fits
    <2> QED
      BY <1>4, <1>8, <2>1 DEF Fits, MayEnd
  <1> QED
    BY <1>3, <1>6, <1>7, <1>8

(* The report that has waited longest is judged once the write is over.    *)
LEMMA ReconcileFits ==
  ASSUME LifeInv, OwedInv, ReplyInv, AudioOrder, ReportsFit, OnlyOvertakenRefused,
         [Next]_vars, ~Retired(life'), Reconcile
  PROVE  ReportsFit' /\ OnlyOvertakenRefused'
  <1>1. /\ held # <<>> /\ task.state = "none" /\ JudgeReport(Head(held)) /\ held' = Tail(held)
        /\ task' = task /\ host' = host /\ queue' = queue /\ hand' = hand
        /\ pc' = pc /\ pc = "reconcile"
    BY DEF Reconcile, MayReconcile, loopVars
  <1>2. /\ Len(held) \in Nat \ {0} /\ DOMAIN held = 1..Len(held)
        /\ DOMAIN held' = 1..Len(held) - 1 /\ \A i \in 1..Len(held) - 1 : held'[i] = held[i + 1]
        /\ Head(held) = held[1] /\ 1 \in DOMAIN held
        /\ ProperSeq(held') /\ Len(held') = Len(held) - 1
    BY <1>1, TailFacts DEF OwedInv, LineTypes
  <1>3. PICK r : r = held[1]
    OBVIOUS
  <1>4. /\ Fits(r) /\ JudgeReport(r) /\ ~reply.receipt /\ reply.state # "none"
        /\ \A s \in Coming : Precedes(r, s)
        /\ \A i \in DOMAIN held : 1 < i => Precedes(r, held[i])
    BY <1>1, <1>2, <1>3 DEF ReportsFit, NothingReported
  <1>5. OnlyOvertakenRefused'
    BY <1>1, <1>4, FittingIsBelieved
  <1>6. ~(\E c \in BOOLEAN : Open(c))
    BY <1>1 DEF Open, Taken
  <1>7. /\ \/ reply' = reply
           \/ reply'.rendered = r.n /\ reply'.receipt = r.terminal
        /\ reply'.state = reply.state
        /\ Said' /\ reply'.rendered <= host'.said /\ host'.said <= Written'
        /\ reply'.receipt /\ ~reply.receipt => host'.terminal /\ r.terminal
        /\ \A s : Fits(s) /\ r.n <= s.n => Fits(s)'
    BY <1>1, <1>4, <1>6, JudgedFits
  <1>8. Coming' = Coming
    BY <1>1 DEF Coming
  <1>9. (\A s \in Coming : Fits(s))'
    BY <1>4, <1>7, <1>8 DEF ReportsFit, Precedes
  <1>10. (\A i \in DOMAIN held : Fits(held[i]))'
    <2>1. ASSUME NEW i \in DOMAIN held' PROVE Fits(held[i])'
      <3>1. i + 1 \in DOMAIN held /\ 1 < i + 1 /\ held'[i] = held[i + 1]
        BY <1>2, <2>1
      <3>2. PICK s : s = held[i + 1]
        OBVIOUS
      <3>3. Fits(s) /\ r.n <= s.n
        BY <1>4, <3>1, <3>2 DEF ReportsFit, Precedes
      <3>4. Fits(s)'
        BY <1>7, <3>3
      <3>5. held'[i] = s
        BY <3>1, <3>2
      <3> QED
        BY <3>4, <3>5 DEF Fits
    <2> QED
      BY <2>1
  <1>11. (\A i, j \in DOMAIN held : i < j => Precedes(held[i], held[j]))'
    <2>1. ASSUME NEW i \in DOMAIN held', NEW j \in DOMAIN held', i < j
          PROVE  Precedes(held'[i], held'[j])
      <3>1. /\ i + 1 \in DOMAIN held /\ j + 1 \in DOMAIN held /\ i + 1 < j + 1
            /\ held'[i] = held[i + 1] /\ held'[j] = held[j + 1]
        BY <1>2, <2>1
      <3>2. Precedes(held[i + 1], held[j + 1])
        BY <3>1 DEF ReportsFit
      <3> QED
        BY <3>1, <3>2
    <2> QED
      BY <2>1 DEF Precedes
  <1>12. (\A i \in DOMAIN held : \A s \in Coming : Precedes(held[i], s))'
    <2>1. ASSUME NEW i \in DOMAIN held', NEW s \in Coming' PROVE Precedes(held'[i], s)
      <3>1. i + 1 \in DOMAIN held /\ held'[i] = held[i + 1] /\ s \in Coming
        BY <1>2, <1>8, <2>1
      <3>2. Precedes(held[i + 1], s)
        BY <3>1 DEF ReportsFit
      <3> QED
        BY <3>1, <3>2
    <2> QED
      BY <2>1 DEF Precedes
  <1>13. reply'.receipt => host'.terminal /\ NothingReported'
    <2> SUFFICES ASSUME reply'.receipt PROVE host'.terminal /\ NothingReported'
      OBVIOUS
    <2>1. host'.terminal /\ r.terminal
      BY <1>4, <1>7
    <2>2. Coming' = {}
      BY <1>4, <1>8, <2>1 DEF Precedes
    <2>3. ~(Len(held) > 1)
      <3>1. ASSUME Len(held) > 1 PROVE FALSE
        <4>1. 2 \in DOMAIN held /\ 1 < 2
          BY <1>2, <3>1
        <4> QED
          BY <1>4, <2>1, <4>1 DEF Precedes
      <3> QED
        BY <3>1
    <2>4. Len(held') = 0
      BY <1>2, <2>3
    <2>5. held' = <<>>
      BY <1>2, <2>4 DEF ProperSeq
    <2> QED
      BY <2>1, <2>2, <2>5 DEF NothingReported
  <1>14. reply'.state # "none"
    BY <1>4, <1>7
  <1>15. Said' /\ reply'.rendered <= host'.said /\ host'.said <= Written'
    BY <1>7
  <1> QED
    BY <1>5, <1>9, <1>10, <1>11, <1>12, <1>13, <1>14, <1>15 DEF ReportsFit

(* A report is judged when it comes, unless there are others before it or  *)
(* the write of its audio is under way.                                    *)
LEMMA ReportFits ==
  ASSUME LifeInv, OwedInv, ReplyInv, AudioOrder, QueueWaits, ReportsFit,
         OnlyOvertakenRefused, [Next]_vars, ~Retired(life'), Report
  PROVE  ReportsFit' /\ OnlyOvertakenRefused'
  <1>1. /\ pc = "control" /\ pc' = "input" /\ hand.op = "report" /\ reply.state # "none"
        /\ task' = task /\ host' = host /\ hand' = hand
        /\ IF held = <<>> /\ ~Unacknowledged(hand)
           THEN JudgeReport(hand) /\ held' = held
           ELSE /\ held' = held \/ held' = Append(held, hand)
                /\ reply' = reply /\ life' = life /\ refusals' = refusals
    BY DEF Report, Taken, MayJudge, ControlFrame
  <1>2. hand \in Coming
    BY <1>1 DEF Coming
  <1>3. /\ Fits(hand) /\ ~reply.receipt
        /\ \A i \in DOMAIN held : Precedes(held[i], hand)
    BY <1>2 DEF ReportsFit, NothingReported
  <1>4. Coming' = {}
    BY <1>1, HandLookedAt
  <1>5. (\A s \in Coming : Fits(s))'
        /\ (\A i \in DOMAIN held : \A s \in Coming : Precedes(held[i], s))'
    BY <1>4
  <1>6. ASSUME held = <<>>, ~Unacknowledged(hand) PROVE ReportsFit' /\ OnlyOvertakenRefused'
    <2>1. PICK r : r = hand
      OBVIOUS
    <2>2. Fits(r) /\ JudgeReport(r) /\ ~Unacknowledged(r) /\ held' = held
      BY <1>1, <1>3, <1>6, <2>1
    <2>3. OnlyOvertakenRefused'
      BY <1>3, <2>2, FittingIsBelieved
    <2>4. ~(\E c \in BOOLEAN : Open(c))
      BY <1>1 DEF Open, Taken
    <2>5. /\ reply'.state = reply.state
          /\ Said' /\ reply'.rendered <= host'.said /\ host'.said <= Written'
          /\ reply'.receipt /\ ~reply.receipt => host'.terminal /\ r.terminal
      BY <1>1, <2>2, <2>4, JudgedFits
    <2>6. NothingReported' /\ DOMAIN held' = {}
      BY <1>4, <1>6, <2>2 DEF NothingReported
    <2>7. (\A i \in DOMAIN held : Fits(held[i]))'
      BY <2>6
    <2>8. (\A i, j \in DOMAIN held : i < j => Precedes(held[i], held[j]))'
      BY <2>6
    <2>9. /\ Said' /\ reply'.rendered <= host'.said /\ host'.said <= Written'
          /\ reply'.receipt => host'.terminal
          /\ reply'.state # "none"
      BY <1>1, <1>3, <2>5
    <2> QED
      BY <1>5, <2>3, <2>6, <2>7, <2>8, <2>9 DEF ReportsFit
  <1>7. ASSUME held # <<>> \/ Unacknowledged(hand) PROVE ReportsFit' /\ OnlyOvertakenRefused'
    <2>1. /\ held' = held \/ held' = Append(held, hand)
          /\ reply' = reply /\ life' = life /\ refusals' = refusals
      BY <1>1, <1>7
    <2>2. ASSUME NEW s, Fits(s) PROVE Fits(s)'
      BY <1>1, <2>1, <2>2 DEF Fits, Written, Fenced
    <2>3. Said' /\ reply'.rendered <= host'.said /\ host'.said <= Written'
      BY <1>1, <2>1 DEF ReportsFit, Said, Written
    <2>4. ~reply'.receipt /\ reply'.state # "none" /\ OnlyOvertakenRefused'
      BY <1>1, <1>3, <2>1 DEF OnlyOvertakenRefused
    <2>5. ASSUME (\A i \in DOMAIN held : Fits(held[i]))',
                 (\A i, j \in DOMAIN held : i < j => Precedes(held[i], held[j]))'
          PROVE  ReportsFit' /\ OnlyOvertakenRefused'
      BY <1>5, <2>3, <2>4, <2>5 DEF ReportsFit
    <2>6. CASE held' = held
      <3>1. (\A i \in DOMAIN held : Fits(held[i]))'
        <4>1. ASSUME NEW i \in DOMAIN held' PROVE Fits(held[i])'
          <5>1. PICK s : s = held[i]
            OBVIOUS
          <5>2. Fits(s) /\ held'[i] = s
            BY <2>6, <4>1, <5>1 DEF ReportsFit
          <5>3. Fits(s)'
            BY <2>2, <5>2
          <5> QED
            BY <5>2, <5>3 DEF Fits
        <4> QED
          BY <4>1
      <3>2. (\A i, j \in DOMAIN held : i < j => Precedes(held[i], held[j]))'
        BY <2>6 DEF ReportsFit, Precedes
      <3> QED
        BY <2>5, <3>1, <3>2
    <2>7. CASE held' = Append(held, hand)
      <3>1. /\ Len(held) \in Nat /\ DOMAIN held = 1..Len(held)
            /\ DOMAIN held' = 1..Len(held) + 1
            /\ \A i \in 1..Len(held) : held'[i] = held[i]
            /\ held'[Len(held) + 1] = hand
        BY <2>7, AppendFacts DEF OwedInv, LineTypes
      <3>2. (\A i \in DOMAIN held : Fits(held[i]))'
        <4>1. ASSUME NEW i \in DOMAIN held' PROVE Fits(held[i])'
          <5>1. \/ i \in DOMAIN held /\ held'[i] = held[i]
                \/ held'[i] = hand
            BY <3>1, <4>1
          <5>2. PICK s : s = held'[i]
            OBVIOUS
          <5>3. Fits(s)
            BY <1>3, <5>1, <5>2 DEF ReportsFit
          <5>4. Fits(s)'
            BY <2>2, <5>3
          <5> QED
            BY <5>2, <5>4 DEF Fits
        <4> QED
          BY <4>1
      <3>3. (\A i, j \in DOMAIN held : i < j => Precedes(held[i], held[j]))'
        <4>1. ASSUME NEW i \in DOMAIN held', NEW j \in DOMAIN held', i < j
              PROVE  Precedes(held'[i], held'[j])
          <5>1. i \in DOMAIN held /\ held'[i] = held[i]
            BY <3>1, <4>1
          <5>2. \/ j \in DOMAIN held /\ held'[j] = held[j]
                \/ held'[j] = hand
            BY <3>1, <4>1
          <5> QED
            BY <1>3, <4>1, <5>1, <5>2 DEF ReportsFit
        <4> QED
          BY <4>1 DEF Precedes
      <3> QED
        BY <2>5, <3>2, <3>3
    <2> QED
      BY <2>1, <2>6, <2>7
  <1> QED
    BY <1>6, <1>7

(* Nothing else judges, and only an opening and the host itself change     *)
(* what the host has said.                                                 *)
LEMMA BeliefSteps ==
  ASSUME [Next]_vars, ~JudgeSteps PROVE refusals' = refusals
  <1> DEFINE Same == refusals' = refusals
  <1>1. ASSUME Read \/ Jobs \/ Opened \/ NotOpened \/ Status \/ TakeEvent \/ EventsTaken PROVE Same
    BY <1>1 DEF Read, Jobs, Opened, NotOpened, Status, TakeEvent, EventsTaken, replyVars
  <1>2. ASSUME Replies \/ ReleaseThrows \/ NextAudio \/ LastStatus \/ Input PROVE Same
    BY <1>2 DEF Replies, ReleaseThrows, NextAudio, LastStatus, Input, replyVars
  <1>3. ASSUME Abandon \/ LookAtSession \/ LookAtCapture \/ LookAtNothing PROVE Same
    BY <1>3 DEF Abandon, LookAtSession, LookAtCapture, LookAtNothing, LookFrame, replyVars
  <1>4. ASSUME Nothing \/ Values \/ Refusal \/ Finish \/ Drain \/ Abort PROVE Same
    BY <1>4 DEF Nothing, Values, Refusal, Finish, Drain, Abort, Closing, Held0
  <1>5. ASSUME Manage \/ Record \/ Synthesize \/ Stop \/ \E c \in BOOLEAN : Open(c) PROVE Same
    BY <1>5 DEF Manage, Record, Synthesize, Stop, Open, Held0
  <1>6. ASSUME Around PROVE Same
    BY <1>6, AroundKeeps DEF AroundKept
  <1>7. ASSUME UNCHANGED vars PROVE Same
    BY <1>7 DEF vars, replyVars
  <1> QED
    BY <1>1, <1>2, <1>3, <1>4, <1>5, <1>6, <1>7 DEF Next, Loop, Control, JudgeSteps

LEMMA HostSteps ==
  ASSUME [Next]_vars, ~SendReport, ~(\E c \in BOOLEAN : Open(c))
  PROVE  host' = host
  <1> DEFINE Same == host' = host
  <1>1. ASSUME Read \/ Jobs \/ Opened \/ NotOpened \/ Status \/ TakeEvent \/ EventsTaken PROVE Same
    BY <1>1 DEF Read, Jobs, Opened, NotOpened, Status, TakeEvent, EventsTaken, replyVars
  <1>2. ASSUME Replies \/ Reconcile \/ ReleaseThrows \/ NextAudio \/ LastStatus \/ Input PROVE Same
    BY <1>2 DEF Replies, Reconcile, ReleaseThrows, NextAudio, LastStatus, Input, replyVars
  <1>3. ASSUME Abandon \/ LookAtSession \/ LookAtCapture \/ LookAtNothing PROVE Same
    BY <1>3 DEF Abandon, LookAtSession, LookAtCapture, LookAtNothing, LookFrame, replyVars
  <1>4. ASSUME Nothing \/ Values \/ Refusal \/ Finish \/ Drain \/ Abort PROVE Same
    BY <1>4 DEF Nothing, Values, Refusal, Finish, Drain, Abort, Closing, ControlFrame
  <1>5. ASSUME Manage \/ Record \/ Synthesize \/ Stop \/ Report PROVE Same
    BY <1>5 DEF Manage, Record, Synthesize, Stop, Report, ControlFrame
  <1>6. ASSUME NEW op \in Ops, Send(op) PROVE Same
    BY <1>6 DEF Send, SendReport
  <1>7. ASSUME SettingsAnswer \/ SendFrame \/ Strike \/ OpeningEnds \/ JobEnds PROVE Same
    BY <1>7 DEF SettingsAnswer, SendFrame, Strike, OpeningEnds, JobEnds, JobFrame
  <1>8. ASSUME StorageStart \/ StorageEnd \/ Write \/ WriteFails PROVE Same
    BY <1>8 DEF StorageStart, StorageEnd, Write, WriteFails, StorageFrame, WriterFrame
  <1>9. ASSUME CoreFinal \/ CoreObserve \/ CoreFinish \/ Generate \/ GenRetire \/ CoreFence PROVE Same
    BY <1>9 DEF CoreFinal, CoreObserve, CoreFinish, Generate, GenRetire, CoreFence, CoreFrame
  <1>10. ASSUME CoreFault \/ CoreRetire \/ ModelStart \/ ModelEnd PROVE Same
    BY <1>10 DEF CoreFault, CoreRetire, ModelStart, ModelEnd, CoreFrame
  <1>11. ASSUME UNCHANGED vars PROVE Same
    BY <1>11 DEF vars, replyVars
  <1> QED
    BY <1>1, <1>2, <1>3, <1>4, <1>5, <1>6, <1>7, <1>8, <1>9, <1>10, <1>11
    DEF Next, Loop, Around, Control

LEMMA JudgingIsLive ==
  ASSUME LifeInv, [Next]_vars, JudgeSteps PROVE ~Retired(life) /\ ~Retired(life')
  <1>1. HasSession(life)
    BY DEF JudgeSteps, Reconcile, Report, MayJudge, InSession, LifeInv, PumpHasSession, InPump
  <1>2. Worse(life, life')
    <2>1. \/ JudgeReport(Head(held)) \/ JudgeReport(hand)
          \/ life' = life
      BY DEF JudgeSteps, Reconcile, Report
    <2> QED
      BY <2>1, JudgeReportIsWorse, WorseThanItself DEF LifeInv, Shape
  <1>3. HasSession(life') /\ LifeInv'
    BY <1>1, <1>2, NextKeepsLife DEF Worse
  <1> QED
    BY <1>1, <1>3 DEF LifeInv, Shape, Retired

LEMMA NextKeepsReports == ASSUME IInv, ReportsInv, [Next]_vars PROVE ReportsInv'
  <1>1. /\ LifeInv /\ OwedInv /\ HeldInv /\ FinalsInv /\ ReplyInv
        /\ AudioOrder /\ EventOrder /\ QueueWaits /\ OnlyOvertakenRefused
        /\ ~Retired(life) => ReportsFit
    BY DEF IInv, ReportsInv, ReplyOrder
  <1>2. ReplyOrder' /\ QueueWaits'
    BY <1>1, AudioOrdered, EventsOrdered, QueueWaitsStill DEF ReplyOrder
  <1>3. LifeInv' /\ ReplyInv'
    BY <1>1, NextKeepsLife, NextKeepsReply
  <1>4. CASE JudgeSteps
    <2>1. ReportsFit /\ ~Retired(life')
      BY <1>1, <1>4, JudgingIsLive
    <2>2. ReportsFit' /\ OnlyOvertakenRefused'
      BY <1>1, <1>4, <2>1, ReconcileFits, ReportFits DEF JudgeSteps
    <2> QED
      BY <1>2, <2>2 DEF ReportsInv
  <1>5. CASE ~JudgeSteps
    <2>1. OnlyOvertakenRefused'
      BY <1>1, <1>5, BeliefSteps DEF OnlyOvertakenRefused
    <2>2. ASSUME ~Retired(life') PROVE ReportsFit'
      <3>1. CASE NewReplies
        <4>1. Synthesize => ~Retired(life)
          BY DEF Synthesize, MayReply, InSession, Retired
        <4> QED
          BY <1>1, <3>1, <4>1, ReportsBegin
      <3>2. CASE ~NewReplies
        <4>1. ~(\E c \in BOOLEAN : Open(c))
          BY <3>2 DEF NewReplies
        <4>2. ReportsFit
          BY <1>1, <2>2, <4>1, AbortStays
        <4>3. CASE SendReport
          BY <1>1, <2>2, <4>2, <4>3, ReportSent
        <4>4. CASE ~SendReport
          <5>1. Grows
            BY <1>1, <1>3, <1>5, <2>2, <3>2, ReplyGrows
          <5>2. host' = host /\ held' = held /\ Coming' \subseteq Coming
            BY <1>1, <1>5, <4>1, <4>4, HostSteps, HeldSteps, ComingSteps DEF JudgeSteps
          <5> QED
            BY <1>1, <4>2, <5>1, <5>2, ReportsStay
        <4> QED
          BY <4>3, <4>4
      <3> QED
        BY <3>1, <3>2
    <2> QED
      BY <1>2, <2>1, <2>2 DEF ReportsInv
  <1> QED
    BY <1>4, <1>5

LEMMA InitReports == Init => ReportsInv
  <1> SUFFICES ASSUME Init PROVE ReportsInv
    OBVIOUS
  <1>1. /\ reply = NoReply /\ task = NoTask /\ events = <<>> /\ queue = <<>>
        /\ refusals = {} /\ life.state = "closed"
    BY DEF Init
  <1>2. DOMAIN events = {} /\ DOMAIN queue = {}
    BY <1>1
  <1>3. AudioOrder
    BY <1>1 DEF AudioOrder, NoReply, NoTask
  <1>4. EventOrder
    BY <1>1, <1>2 DEF EventOrder, EventsOf, NoReply
  <1> QED
    BY <1>1, <1>2, <1>3, <1>4 DEF ReportsInv, ReplyOrder, QueueWaits, Retired,
       OnlyOvertakenRefused

(* A report that is judged, of what has really reached the host, is        *)
(* refused only if it says that the reply has ended of itself and the      *)
(* engine has cut the reply since the worker last looked: what the host    *)
(* has said is at most what has been written, the reports come and are     *)
(* held in the order in which they were made, and the worker judges one    *)
(* only when it knows of the writes that the report speaks of.             *)
THEOREM OnlyOvertakenRefusedHolds == Spec => []OnlyOvertakenRefused
  <1>1. Init => ReportsInv
    BY InitReports
  <1>2. IInv /\ ReportsInv /\ [Next]_vars => ReportsInv'
    BY NextKeepsReports
  <1>3. ReportsInv => OnlyOvertakenRefused
    BY DEF ReportsInv, OnlyOvertakenRefused
  <1> QED
    BY <1>1, <1>2, <1>3, Invariance, PTL DEF Spec

----------------------------------------------------------------------------
(* Of the events in s, with a awaited: the finals that have been told and  *)
(* whose speaker has not, when the first k have been taken.  They are the  *)
(* speakers the engine owes when all have been.                            *)
OpenIn(a, s, k) ==
    {f \in Finals :
       /\ f \in a \/ \E i \in DOMAIN s : i <= k /\ s[i].kind = "final" /\ s[i].final = f
       /\ ~\E i \in DOMAIN s : i <= k /\ s[i].kind = "observed" /\ s[i].final = f}
Counted(a, s, owed) ==
    /\ OpenIn(a, s, Len(s)) = owed
    /\ \A i \in DOMAIN s :
         /\ s[i].kind = "final" => Cardinality(OpenIn(a, s, i - 1)) <= SpeakerCapacity + 1
         /\ s[i].kind = "observed" => s[i].final \in OpenIn(a, s, i - 1)
FinalsCounted ==
    HasSession(life) /\ Sound(life) =>
      Counted(Awaiting, events, engine.owed) /\ Cardinality(engine.owed) <= SpeakerCapacity + 1

(* Nothing goes wrong around the worker.                                   *)
Calm == script.faults \subseteq {"end"}
NoTrouble ==
    /\ faults \subseteq {"end"} /\ frame \in {"none", "end"}
    /\ opening \in {"none", "running", "opened"} /\ "broken" \notin ready
    /\ task.state # "failed" /\ ~engine.error
    /\ hand.op # "refusal" /\ \A i \in DOMAIN queue : queue[i].op # "refusal"
    /\ pc \in {"replies", "reconcile"} => EventsOf("cut") = {}
(* A session that closes in order has had its end of input.                *)
Closes ==
    /\ taken \in Nat
    /\ ~Retired(life) => emitted = taken + Len(events)
    /\ HasSession(life) /\ Sound(life) /\ engine.done =>
         inputFinal \/ EventsOf("finished") # {}
    /\ HasSession(life) /\ Sound(life) /\ engine.retired => engine.done
    /\ HasSession(life) /\ Sound(life) => life.core # "aborting"
    /\ HasSession(life) /\ pc = "look" => snap.emitted = emitted /\ snap.retired = engine.retired
    /\ life.state = "open" \/ (life.state = "draining" /\ ~life.abort) =>
         HasSession(life) \/ life.capture
    /\ frame = "end" /\ Retired(life) /\ Sound(life) => inputFinal
CalmInv == Calm => NoTrouble /\ Closes /\ (stall = "none" => life.failure = "none")

(* The finals that are told.                                               *)
LEMMA SoundStays ==
  ASSUME LifeInv, [Next]_vars, ~Opened, HasSession(life'), Sound(life')
  PROVE  HasSession(life) /\ Sound(life)
  <1>1. ~(\E c \in BOOLEAN : Open(c))
    BY OpenLife
  <1>2. ASSUME Worse(life, life') PROVE HasSession(life) /\ Sound(life)
    <2>1. HasSession(life) /\ ~Retired(life)
      BY <1>2, SessionIsLive DEF Worse
    <2> QED
      BY <1>2, <2>1 DEF Worse, Sound
  <1>3. CASE Looking
    <2>1. PICK l : Worse(life, l) /\ (life' = l \/ Terminal(l))
      BY <1>3, LooksAreWorse DEF Looking
    <2>2. Terminal(l) => life' = l \/ Over(l)
      BY DEF Terminal, Over
    <2>3. Over(l) => ~HasSession(life')
      <3>1. SUFFICES ASSUME Over(l) PROVE ~HasSession(life')
        OBVIOUS
      <3>2. PICK s : life' = [l EXCEPT !.state = s, !.core = "none", !.live = FALSE]
        BY <3>1 DEF Over
      <3>3. l \in LifeType
        BY <2>1 DEF Worse
      <3> QED
        BY <3>2, <3>3 DEF LifeType, HasSession
    <2> QED
      BY <1>2, <2>1, <2>2, <2>3
  <1>4. CASE Values
    <2>1. life' = [life EXCEPT !.waiting = FALSE]
      BY <1>4 DEF Values
    <2> QED
      BY <2>1 DEF LifeInv, Shape, LifeType, Sound, HasSession
  <1>5. CASE Drain
    <2>1. life' = [life EXCEPT !.state = "draining", !.closing = DrainTime(life),
                          !.core = IF life.core = "running" THEN "draining" ELSE life.core]
      BY <1>5 DEF Drain
    <2> QED
      BY <2>1 DEF LifeInv, Shape, LifeType, Sound, HasSession
  <1> QED
    BY <1>1, <1>2, <1>3, <1>4, <1>5, OthersAreWorse DEF Turning

(* What is open after the first k events depends on these alone, and the   *)
(* next one opens or closes the one it names.                              *)
LEMMA OpenPrefix ==
  ASSUME NEW a, NEW s, NEW t, NEW n \in Nat, DOMAIN s = 1..n, 1..n \subseteq DOMAIN t,
         DOMAIN t \subseteq Nat \ {0}, \A i \in 1..n : t[i] = s[i], NEW k \in 0..n
  PROVE  OpenIn(a, t, k) = OpenIn(a, s, k)
  <1>1. \A i \in DOMAIN t : i <= k => i \in DOMAIN s /\ t[i] = s[i]
    OBVIOUS
  <1>2. \A i \in DOMAIN s : i \in DOMAIN t /\ t[i] = s[i]
    OBVIOUS
  <1> QED
    BY <1>1, <1>2 DEF OpenIn

LEMMA OpenNext ==
  ASSUME NEW a, NEW s, NEW n \in Nat, DOMAIN s = 1..n, NEW k \in 0..n - 1
  PROVE  /\ s[k + 1].kind = "observed" =>
              OpenIn(a, s, k + 1) = OpenIn(a, s, k) \ {s[k + 1].final}
         /\ s[k + 1].kind \notin {"final", "observed"} => OpenIn(a, s, k + 1) = OpenIn(a, s, k)
         /\ /\ s[k + 1].kind = "final" /\ s[k + 1].final \in Finals
            /\ \A i \in DOMAIN s : s[i].kind = "observed" => s[i].final # s[k + 1].final
            => OpenIn(a, s, k + 1) = OpenIn(a, s, k) \cup {s[k + 1].final}
  <1>1. k + 1 \in DOMAIN s /\ k \in Int
    OBVIOUS
  <1>2. \A i \in DOMAIN s : i <= k + 1 <=> i <= k \/ i = k + 1
    OBVIOUS
  <1> QED
    BY <1>1, <1>2 DEF OpenIn

LEMMA OpenTail ==
  ASSUME NEW a, NEW b, NEW s, NEW t, NEW n \in Nat, DOMAIN s = 1..(n + 1), DOMAIN t = 1..n,
         \A i \in 1..n : t[i] = s[i + 1], NEW k \in 0..n,
         \/ s[1].kind = "final" /\ b = a \cup {s[1].final}
         \/ /\ s[1].kind = "observed" /\ b = a \ {s[1].final}
            /\ \A i \in DOMAIN s : s[i].kind = "final" => s[i].final # s[1].final
         \/ s[1].kind \notin {"final", "observed"} /\ b = a
  PROVE  OpenIn(b, t, k) = OpenIn(a, s, k + 1)
  <1>1. \A i \in DOMAIN t : i <= k => i + 1 \in DOMAIN s /\ i + 1 <= k + 1 /\ t[i] = s[i + 1]
    OBVIOUS
  <1>2. \A i \in DOMAIN s : i <= k + 1 =>
          i = 1 \/ (i - 1 \in DOMAIN t /\ i - 1 <= k /\ s[i] = t[i - 1])
    <2>1. ASSUME NEW i \in DOMAIN s, i <= k + 1, i # 1
          PROVE  i - 1 \in DOMAIN t /\ i - 1 <= k /\ s[i] = t[i - 1]
      <3>1. i - 1 \in 1..n /\ i - 1 <= k /\ (i - 1) + 1 = i
        BY <2>1
      <3> QED
        BY <3>1
    <2> QED
      BY <2>1
  <1>3. 1 \in DOMAIN s /\ 1 <= k + 1
    OBVIOUS
  <1> DEFINE Early(f, c) == \E i \in DOMAIN s : i <= k + 1 /\ s[i].kind = c /\ s[i].final = f
             Late_(f, c) == \E i \in DOMAIN t : i <= k /\ t[i].kind = c /\ t[i].final = f
             First(f, c) == s[1].kind = c /\ s[1].final = f
  <1>4. ASSUME NEW f, NEW c PROVE Early(f, c) <=> First(f, c) \/ Late_(f, c)
    <2>1. ASSUME Early(f, c) PROVE First(f, c) \/ Late_(f, c)
      <3>1. PICK i \in DOMAIN s : i <= k + 1 /\ s[i].kind = c /\ s[i].final = f
        BY <2>1
      <3>2. CASE i = 1
        BY <3>1, <3>2
      <3>3. CASE i # 1
        <4>1. i - 1 \in DOMAIN t /\ i - 1 <= k /\ s[i] = t[i - 1]
          BY <1>2, <3>1, <3>3
        <4>2. t[i - 1].kind = c /\ t[i - 1].final = f
          BY <3>1, <4>1
        <4> QED
          BY <4>1, <4>2
      <3> QED
        BY <3>2, <3>3
    <2>2. First(f, c) => Early(f, c)
      BY <1>3
    <2>3. ASSUME Late_(f, c) PROVE Early(f, c)
      <3>1. PICK i \in DOMAIN t : i <= k /\ t[i].kind = c /\ t[i].final = f
        BY <2>3
      <3>2. i + 1 \in DOMAIN s /\ i + 1 <= k + 1 /\ s[i + 1].kind = c /\ s[i + 1].final = f
        BY <1>1, <3>1
      <3> QED
        BY <3>2
    <2> QED
      BY <2>1, <2>2, <2>3
  <1>5. /\ OpenIn(a, s, k + 1) = {f \in Finals : (f \in a \/ Early(f, "final")) /\ ~Early(f, "observed")}
        /\ OpenIn(b, t, k) = {f \in Finals : (f \in b \/ Late_(f, "final")) /\ ~Late_(f, "observed")}
    BY DEF OpenIn
  <1>6. s[1].kind = "observed" => \A f : Late_(f, "final") => f # s[1].final
    <2>1. ASSUME s[1].kind = "observed", NEW f, Late_(f, "final") PROVE f # s[1].final
      <3>1. PICK i \in DOMAIN t : i <= k /\ t[i].kind = "final" /\ t[i].final = f
        BY <2>1
      <3>2. i + 1 \in DOMAIN s /\ s[i + 1].kind = "final" /\ s[i + 1].final = f
        BY <1>1, <3>1
      <3> QED
        BY <2>1, <3>2
    <2> QED
      BY <2>1
  <1>7. ASSUME NEW f
        PROVE  (f \in a \/ Early(f, "final")) /\ ~Early(f, "observed")
               <=> (f \in b \/ Late_(f, "final")) /\ ~Late_(f, "observed")
    <2>1. /\ Early(f, "final") <=> First(f, "final") \/ Late_(f, "final")
          /\ Early(f, "observed") <=> First(f, "observed") \/ Late_(f, "observed")
      BY <1>4
    <2> HIDE DEF Early, Late_
    <2> QED
      BY <1>6, <2>1
  <1> HIDE DEF Early, Late_
  <1> QED
    BY <1>5, <1>7

LEMMA CountedMore ==
  ASSUME NEW a, NEW s, ProperSeq(s), NEW e, NEW o, NEW p, Counted(a, s, o),
         \/ e.kind = "observed" /\ e.final \in o /\ p = o \ {e.final}
         \/ e.kind \notin {"final", "observed"} /\ p = o
         \/ /\ e.kind = "final" /\ e.final \in Finals /\ p = o \cup {e.final}
            /\ \A i \in DOMAIN s : s[i].kind = "observed" => s[i].final # e.final
            /\ Cardinality(o) <= SpeakerCapacity + 1
  PROVE  Counted(a, Append(s, e), p)
  <1> DEFINE n == Len(s)
             t == Append(s, e)
  <1>1. /\ n \in Nat /\ Len(t) = n + 1 /\ DOMAIN s = 1..n /\ DOMAIN t = 1..(n + 1)
        /\ t[n + 1] = e /\ \A i \in 1..n : t[i] = s[i]
    BY AppendFacts
  <1> HIDE DEF n, t
  <1>2. \A k \in 0..n : OpenIn(a, t, k) = OpenIn(a, s, k)
    <2>1. 1..n \subseteq DOMAIN t /\ DOMAIN t \subseteq Nat \ {0}
      BY <1>1
    <2> QED
      BY <1>1, <2>1, OpenPrefix
  <1>3. OpenIn(a, s, n) = o
    BY DEF Counted, n
  <1>4. OpenIn(a, t, n) = o
    BY <1>1, <1>2, <1>3
  <1>5. OpenIn(a, t, n + 1) = p
    <2>1. n + 1 \in Nat /\ n \in 0..(n + 1) - 1
      BY <1>1
    <2>2. /\ e.kind = "observed" => OpenIn(a, t, n + 1) = OpenIn(a, t, n) \ {e.final}
          /\ e.kind \notin {"final", "observed"} => OpenIn(a, t, n + 1) = OpenIn(a, t, n)
          /\ /\ e.kind = "final" /\ e.final \in Finals
             /\ \A i \in DOMAIN t : t[i].kind = "observed" => t[i].final # e.final
             => OpenIn(a, t, n + 1) = OpenIn(a, t, n) \cup {e.final}
      <3>1. ASSUME NEW m \in Nat, m = n + 1
            PROVE  DOMAIN t = 1..m /\ n \in 0..m - 1 /\ t[n + 1] = e
        BY <1>1, <3>1
      <3>2. PICK m \in Nat : m = n + 1
        BY <2>1
      <3>3. DOMAIN t = 1..m /\ n \in 0..m - 1 /\ t[n + 1] = e
        BY <3>1, <3>2
      <3>4. /\ t[n + 1].kind = "observed" =>
                  OpenIn(a, t, n + 1) = OpenIn(a, t, n) \ {t[n + 1].final}
            /\ t[n + 1].kind \notin {"final", "observed"} =>
                  OpenIn(a, t, n + 1) = OpenIn(a, t, n)
            /\ /\ t[n + 1].kind = "final" /\ t[n + 1].final \in Finals
               /\ \A i \in DOMAIN t : t[i].kind = "observed" => t[i].final # t[n + 1].final
               => OpenIn(a, t, n + 1) = OpenIn(a, t, n) \cup {t[n + 1].final}
        BY <3>3, OpenNext
      <3> QED
        BY <3>3, <3>4
    <2>3. ASSUME e.kind = "final", \A i \in DOMAIN s : s[i].kind = "observed" => s[i].final # e.final
          PROVE  \A i \in DOMAIN t : t[i].kind = "observed" => t[i].final # e.final
      <3>1. \A i \in DOMAIN t : (i \in DOMAIN s /\ t[i] = s[i]) \/ t[i] = e
        BY <1>1
      <3> QED
        BY <2>3, <3>1
    <2> QED
      BY <1>4, <2>2, <2>3
  <1>6. ASSUME NEW i \in DOMAIN t
        PROVE  /\ t[i].kind = "final" => Cardinality(OpenIn(a, t, i - 1)) <= SpeakerCapacity + 1
               /\ t[i].kind = "observed" => t[i].final \in OpenIn(a, t, i - 1)
    <2>1. CASE i \in 1..n
      <3>1. i \in DOMAIN s /\ t[i] = s[i] /\ i - 1 \in 0..n
        BY <1>1, <2>1
      <3> QED
        BY <1>2, <3>1 DEF Counted
    <2>2. CASE i = n + 1
      <3>1. t[i] = e /\ i - 1 = n
        BY <1>1, <2>2
      <3> QED
        BY <1>4, <3>1
    <2> QED
      BY <1>1, <2>1, <2>2
  <1> QED
    BY <1>1, <1>5, <1>6 DEF Counted, t

LEMMA CountedTail ==
  ASSUME NEW a, NEW b, NEW s, ProperSeq(s), s # <<>>, NEW o, Counted(a, s, o),
         \/ s[1].kind = "final" /\ b = a \cup {s[1].final}
         \/ /\ s[1].kind = "observed" /\ b = a \ {s[1].final}
            /\ \A i \in DOMAIN s : s[i].kind = "final" => s[i].final # s[1].final
         \/ s[1].kind \notin {"final", "observed"} /\ b = a
  PROVE  Counted(b, Tail(s), o)
  <1> DEFINE n == Len(s) - 1
             t == Tail(s)
  <1>1. /\ n \in Nat /\ Len(s) = n + 1 /\ Len(t) = n /\ DOMAIN s = 1..(n + 1) /\ DOMAIN t = 1..n
        /\ \A i \in 1..n : t[i] = s[i + 1]
    BY TailFacts
  <1> HIDE DEF n, t
  <1>2. \A k \in 0..n : OpenIn(b, t, k) = OpenIn(a, s, k + 1)
    <2> SUFFICES ASSUME NEW k \in 0..n PROVE OpenIn(b, t, k) = OpenIn(a, s, k + 1)
      OBVIOUS
    <2>1. CASE s[1].kind = "final" /\ b = a \cup {s[1].final}
      BY <1>1, <2>1, OpenTail
    <2>2. CASE /\ s[1].kind = "observed" /\ b = a \ {s[1].final}
               /\ \A i \in DOMAIN s : s[i].kind = "final" => s[i].final # s[1].final
      BY <1>1, <2>2, OpenTail
    <2>3. CASE s[1].kind \notin {"final", "observed"} /\ b = a
      BY <1>1, <2>3, OpenTail
    <2> QED
      BY <2>1, <2>2, <2>3
  <1>3. OpenIn(b, t, Len(t)) = o
    <2>1. n \in 0..n
      BY <1>1
    <2>2. OpenIn(a, s, n + 1) = o
      BY <1>1 DEF Counted
    <2> QED
      BY <1>1, <1>2, <2>1, <2>2
  <1>4. ASSUME NEW i \in DOMAIN t
        PROVE  /\ t[i].kind = "final" => Cardinality(OpenIn(b, t, i - 1)) <= SpeakerCapacity + 1
               /\ t[i].kind = "observed" => t[i].final \in OpenIn(b, t, i - 1)
    <2>1. i + 1 \in DOMAIN s /\ t[i] = s[i + 1] /\ i - 1 \in 0..n /\ (i - 1) + 1 = (i + 1) - 1
      BY <1>1
    <2>2. OpenIn(b, t, i - 1) = OpenIn(a, s, (i + 1) - 1)
      BY <1>2, <2>1
    <2> QED
      BY <2>1, <2>2 DEF Counted
  <1> QED
    BY <1>3, <1>4 DEF Counted, t

LEMMA ConcatIsAppend ==
  ASSUME NEW s, ProperSeq(s), NEW e, NEW f
  PROVE  s \o <<>> = s /\ s \o <<e>> = Append(s, e) /\ s \o <<e, f>> = Append(Append(s, e), f)
  <1> DEFINE S == {s[i] : i \in DOMAIN s} \cup {e, f}
  <1>1. s \in Seq(S)
    <2>1. s \in Seq({s[i] : i \in DOMAIN s}) /\ {s[i] : i \in DOMAIN s} \subseteq S
      BY DEF ProperSeq
    <2> HIDE DEF S
    <2> QED
      BY <2>1
  <1>2. e \in S /\ f \in S
    OBVIOUS
  <1> HIDE DEF S
  <1>3. s \o <<>> = s
    BY <1>1
  <1>4. s \o <<e>> = Append(s, e)
    BY <1>1, <1>2
  <1>5. s \o <<e, f>> = Append(Append(s, e), f)
    BY <1>1, <1>2
  <1> QED
    BY <1>3, <1>4, <1>5

LEMMA FinalsAreFinite ==
  ASSUME NEW o, o \subseteq Finals
  PROVE  IsFiniteSet(o) /\ Cardinality(o) \in Nat
         /\ \A f \in Finals : Cardinality(o \cup {f}) <= Cardinality(o) + 1
         /\ \A p \in SUBSET o : Cardinality(p) \in Nat /\ Cardinality(p) <= Cardinality(o)
  <1>1. IsFiniteSet(Finals)
    BY CapacityAssumption, FS_Interval DEF Finals
  <1>2. IsFiniteSet(o)
    BY <1>1, FS_Subset
  <1>3. Cardinality(o) \in Nat
    BY <1>2, FS_CardinalityType
  <1>4. ASSUME NEW f \in Finals PROVE Cardinality(o \cup {f}) <= Cardinality(o) + 1
    <2>1. Cardinality(o \cup {f}) = IF f \in o THEN Cardinality(o) ELSE Cardinality(o) + 1
      BY <1>2, FS_AddElement
    <2> QED
      BY <1>3, <2>1
  <1>5. ASSUME NEW p \in SUBSET o PROVE Cardinality(p) \in Nat /\ Cardinality(p) <= Cardinality(o)
    BY <1>2, FS_Subset, FS_CardinalityType
  <1> QED
    BY <1>2, <1>3, <1>4, <1>5

(* While the speakers owed are counted, no event is refused.               *)
Refused ==
    LET e == Head(events) IN
    /\ Sound(life)
    /\ \/ e.kind = "final" /\ Cardinality(Awaiting) >= PendingCapacity
       \/ e.kind = "observed" /\ ~Resolvable(e.final)
LEMMA OpenAtFirst == ASSUME FinalsInv PROVE OpenIn(Awaiting, events, 0) = Awaiting
  <1>1. Awaiting \subseteq Finals /\ \A i \in DOMAIN events : ~(i <= 0)
    BY DEF Awaiting, FinalsInv, FinalTypes, ProperSeq
  <1> QED
    BY <1>1 DEF OpenIn

LEMMA NoneRefused ==
  ASSUME LifeInv, FinalsInv, FinalsCounted, pc = "events", events # <<>> PROVE ~Refused
  <1> SUFFICES ASSUME Sound(life) PROVE ~Refused
    BY DEF Refused
  <1>1. HasSession(life)
    BY DEF LifeInv, PumpHasSession, InPump
  <1>2. Counted(Awaiting, events, engine.owed)
    BY <1>1 DEF FinalsCounted
  <1>3. 1 \in DOMAIN events /\ Head(events) = events[1]
    <2>1. Len(events) \in Nat \ {0} /\ DOMAIN events = 1..Len(events) /\ Head(events) = events[1]
      BY TailFacts DEF FinalsInv, FinalTypes
    <2> QED
      BY <2>1
  <1>4. OpenIn(Awaiting, events, 1 - 1) = Awaiting
    BY OpenAtFirst
  <1>5. /\ events[1].kind = "final" => Cardinality(Awaiting) <= SpeakerCapacity + 1
        /\ events[1].kind = "observed" => events[1].final \in Awaiting
    BY <1>2, <1>3, <1>4 DEF Counted
  <1>6. Cardinality(Awaiting) \in Nat
    <2>1. Awaiting \subseteq Finals
      BY DEF Awaiting
    <2> QED
      BY <2>1, FinalsAreFinite
  <1>7. events[1].kind = "final" => ~(Cardinality(Awaiting) >= PendingCapacity)
    <2>1. SpeakerCapacity \in Nat /\ PendingCapacity = SpeakerCapacity + 2
      BY CapacityAssumption
    <2> QED
      BY <1>5, <1>6, <2>1
  <1>8. events[1].kind = "observed" => Resolvable(events[1].final)
    BY <1>5 DEF Awaiting, Resolvable
  <1> QED
    BY <1>3, <1>7, <1>8 DEF Refused

(* The worker takes an event.                                              *)
LEMMA TakenInOrder ==
  ASSUME LifeInv, FinalsInv, FinalsCounted, TakeEvent
  PROVE  LET e == events[1] IN
         /\ UNCHANGED <<life, pc, hand, lost, engine>> /\ events' = Tail(events) /\ events # <<>>
         /\ taken' = taken + 1 /\ emitted' = emitted
         /\ ProperSeq(events) /\ 1 \in DOMAIN events
         /\ rows' = IF Sound(life) /\ e.kind = "final" THEN [rows EXCEPT ![e.final] = "pending"]
                    ELSE IF Sound(life) /\ e.kind = "observed" THEN [rows EXCEPT ![e.final] = "over"]
                    ELSE rows
         /\ inputFinal' = (inputFinal \/ (Sound(life) /\ e.kind = "finished"))
         /\ Sound(life) /\ e.kind = "final" => e.final \in Finals /\ rows[e.final] = "none"
         /\ Sound(life) /\ e.kind = "observed" => e.final \in Finals /\ e.final \in Awaiting
  <1>1. pc = "events" /\ events # <<>>
    BY DEF TakeEvent
  <1>2. ~Refused
    BY <1>1, NoneRefused
  <1>3. /\ Head(events) = events[1] /\ 1 \in DOMAIN events /\ ProperSeq(events)
    <2>1. Len(events) \in Nat \ {0} /\ DOMAIN events = 1..Len(events) /\ Head(events) = events[1]
      BY <1>1, TailFacts DEF FinalsInv, FinalTypes
    <2> QED
      BY <2>1 DEF FinalsInv, FinalTypes
  <1> DEFINE e == Head(events)
  <1>4. /\ UNCHANGED <<life, loopVars, engine>> /\ events' = Tail(events)
        /\ taken' = taken + 1 /\ emitted' = emitted
        /\ rows' = IF Sound(life) /\ ~Refused /\ e.kind = "final"
                   THEN [rows EXCEPT ![e.final] = "pending"]
                   ELSE IF Sound(life) /\ ~Refused /\ e.kind = "observed"
                   THEN [rows EXCEPT ![e.final] = "over"] ELSE rows
        /\ inputFinal' = (inputFinal \/ (Sound(life) /\ ~Refused /\ e.kind = "finished"))
    BY <1>2 DEF TakeEvent, Refused
  <1>5. engine.finals \in 0..MaxFinals /\ MaxFinals \in Nat
    BY CapacityAssumption DEF FinalsInv, FinalTypes
  <1>6. e.kind \in {"final", "observed"} => e.final \in Finals
    BY <1>3, <1>5 DEF FinalsInv, EventsFit, Finals
  <1>7. e.kind = "final" => rows[e.final] = "none"
    BY <1>3 DEF FinalsInv, EventsFit
  <1>8. Sound(life) /\ e.kind = "observed" => e.final \in Awaiting
    BY <1>2, <1>6 DEF Refused, Resolvable, Awaiting
  <1> QED
    BY <1>1, <1>2, <1>3, <1>4, <1>6, <1>7, <1>8 DEF loopVars

LEMMA TakingIsCounted ==
  ASSUME LifeInv, FinalsInv, FinalsCounted, HasSession(life), Sound(life), TakeEvent
  PROVE  Counted(Awaiting', events', engine'.owed) /\ engine' = engine
  <1> DEFINE e == events[1]
  <1>1. /\ engine' = engine /\ events' = Tail(events) /\ events # <<>>
        /\ ProperSeq(events) /\ 1 \in DOMAIN events
        /\ rows' = IF e.kind = "final" THEN [rows EXCEPT ![e.final] = "pending"]
                   ELSE IF e.kind = "observed" THEN [rows EXCEPT ![e.final] = "over"]
                   ELSE rows
        /\ e.kind = "final" => e.final \in Finals /\ rows[e.final] = "none"
        /\ e.kind = "observed" => e.final \in Finals /\ e.final \in Awaiting
    BY TakenInOrder
  <1>2. rows \in [Finals -> {"none", "pending", "late", "over"}]
    BY DEF FinalsInv, FinalTypes
  <1>3. Counted(Awaiting, events, engine.owed)
    BY DEF FinalsCounted
  <1> HIDE DEF e
  <1>4. CASE e.kind = "final"
    <2>1. Awaiting' = Awaiting \cup {e.final}
      BY <1>1, <1>2, <1>4 DEF Awaiting
    <2> QED
      BY <1>1, <1>3, <1>4, <2>1, CountedTail DEF e
  <1>5. CASE e.kind = "observed"
    <2>1. Awaiting' = Awaiting \ {e.final}
      BY <1>1, <1>2, <1>5 DEF Awaiting
    <2>2. \A i \in DOMAIN events : events[i].kind = "final" => events[i].final # e.final
      BY <1>1, <1>5 DEF FinalsInv, EventsFit, Awaiting
    <2> QED
      BY <1>1, <1>3, <1>5, <2>1, <2>2, CountedTail DEF e
  <1>6. CASE e.kind \notin {"final", "observed"}
    <2>1. Awaiting' = Awaiting
      BY <1>1, <1>6 DEF Awaiting
    <2> QED
      BY <1>1, <1>3, <1>6, <2>1, CountedTail DEF e
  <1> QED
    BY <1>4, <1>5, <1>6

(* The engine hands over events.                                           *)
LEMMA FinalIsCounted ==
  ASSUME LifeInv, FinalsInv, FinalsCounted, HasSession(life), Sound(life), ReplyInv, CoreFinal
  PROVE  /\ Counted(Awaiting', events', engine'.owed)
         /\ Cardinality(engine'.owed) <= SpeakerCapacity + 1
  <1> DEFINE f == engine.finals + 1
             e == Event("final", f)
             d == Event("observed", f)
             o == engine.owed
  <1>1. /\ rows' = rows /\ engine.finals < script.finals
        /\ \/ /\ Cardinality(o) > SpeakerCapacity
              /\ engine' = [engine EXCEPT !.finals = f] /\ events' = events \o <<e, d>>
           \/ /\ ~(Cardinality(o) > SpeakerCapacity)
              /\ engine' = [engine EXCEPT !.finals = f, !.owed = o \cup {f}]
              /\ events' = events \o <<e>>
    BY DEF CoreFinal, CoreFrame, AroundFrame, Emit
  <1>2. /\ IsEngine(engine) /\ o \subseteq 1..engine.finals /\ ProperSeq(events)
        /\ engine.finals \in 0..MaxFinals /\ MaxFinals \in Nat /\ SpeakerCapacity \in Nat
    BY CapacityAssumption DEF FinalsInv, FinalTypes
  <1>3. f \in Finals /\ f \notin o /\ f \notin 1..engine.finals
    <2>1. script.finals \in 0..MaxFinals
      BY ScriptsAssumption DEF ReplyInv
    <2> QED
      BY <1>1, <1>2, <2>1 DEF Finals
  <1>4. /\ e.kind = "final" /\ e.final = f /\ d.kind = "observed" /\ d.final = f
    BY DEF Event
  <1> HIDE DEF f, e, d
  <1>5. o \subseteq Finals
    BY <1>2 DEF Finals
  <1> HIDE DEF o
  <1>6. /\ Counted(Awaiting, events, o) /\ Cardinality(o) <= SpeakerCapacity + 1
        /\ Cardinality(o) \in Nat /\ Cardinality(o \cup {f}) <= Cardinality(o) + 1
        /\ Cardinality(o \cup {f}) \in Nat
    <2>1. Counted(Awaiting, events, o) /\ Cardinality(o) <= SpeakerCapacity + 1
      BY DEF FinalsCounted, o
    <2>2. o \cup {f} \subseteq Finals
      BY <1>3, <1>5
    <2> QED
      BY <1>3, <1>5, <2>1, <2>2, FinalsAreFinite
  <1>7. \A i \in DOMAIN events : events[i].kind = "observed" => events[i].final # f
    BY <1>3 DEF FinalsInv, EventsFit
  <1>8. Counted(Awaiting, Append(events, e), o \cup {f})
    BY <1>2, <1>3, <1>4, <1>6, <1>7, CountedMore
  <1>9. Awaiting' = Awaiting
    BY <1>1 DEF Awaiting
  <1>10. CASE /\ Cardinality(o) > SpeakerCapacity
              /\ engine' = [engine EXCEPT !.finals = f] /\ events' = events \o <<e, d>>
    <2>1. engine'.owed = o
      BY <1>2, <1>10 DEF IsEngine, o
    <2>2. events' = Append(Append(events, e), d)
      BY <1>2, <1>10, ConcatIsAppend
    <2>3. ProperSeq(Append(events, e))
      BY <1>2, AppendFacts
    <2>4. o = (o \cup {f}) \ {f}
      BY <1>3
    <2>5. Counted(Awaiting, Append(Append(events, e), d), o)
      BY <1>4, <1>8, <2>3, <2>4, CountedMore
    <2> QED
      BY <1>6, <1>9, <2>1, <2>2, <2>5
  <1>11. CASE /\ ~(Cardinality(o) > SpeakerCapacity)
              /\ engine' = [engine EXCEPT !.finals = f, !.owed = o \cup {f}]
              /\ events' = events \o <<e>>
    <2>1. engine'.owed = o \cup {f}
      BY <1>2, <1>11 DEF IsEngine
    <2>2. events' = Append(events, e)
      BY <1>2, <1>11, ConcatIsAppend
    <2>3. Cardinality(o \cup {f}) <= SpeakerCapacity + 1
      BY <1>2, <1>6, <1>11
    <2> QED
      BY <1>8, <1>9, <2>1, <2>2, <2>3
  <1> QED
    BY <1>1, <1>10, <1>11

LEMMA NotesAreCounted ==
  ASSUME LifeInv, FinalsInv, FinalsCounted, HasSession(life), Sound(life), [Next]_vars,
         Stop \/ CoreFence \/ GenRetire \/ CoreFinish \/ CoreObserve
  PROVE  /\ Counted(Awaiting', events', engine'.owed)
         /\ Cardinality(engine'.owed) <= SpeakerCapacity + 1
  <1>1. rows' = rows /\ Awaiting' = Awaiting
    <2>1. rows' = rows
      BY DEF Stop, CoreFence, GenRetire, CoreFinish, CoreObserve, CoreFrame, AroundFrame, finalVars
    <2> QED
      BY <2>1 DEF Awaiting
  <1>2. /\ IsEngine(engine) /\ engine.owed \subseteq Finals /\ ProperSeq(events)
        /\ Counted(Awaiting, events, engine.owed)
        /\ Cardinality(engine.owed) <= SpeakerCapacity + 1 /\ SpeakerCapacity \in Nat
    BY CapacityAssumption DEF FinalsInv, FinalTypes, FinalsCounted, Finals
  <1>3. ASSUME NEW e, e.kind \notin {"final", "observed"}, engine'.owed = engine.owed,
               events' = events \/ events' = events \o <<>> \/ events' = events \o <<e>>
        PROVE  /\ Counted(Awaiting', events', engine'.owed)
               /\ Cardinality(engine'.owed) <= SpeakerCapacity + 1
    <2>1. events' = events \/ events' = Append(events, e)
      BY <1>2, <1>3, ConcatIsAppend
    <2>2. Counted(Awaiting, Append(events, e), engine.owed)
      BY <1>2, <1>3, CountedMore
    <2> QED
      BY <1>1, <1>2, <1>3, <2>1, <2>2
  <1>4. CASE Stop \/ CoreFence
    <2>1. /\ engine' = engine
          /\ \/ events' = events \/ events' = events \o <<>>
             \/ events' = events \o <<[kind |-> "cut", final |-> 0]>>
      BY <1>4 DEF Stop, CoreFence, CutEvent, Emit
    <2>2. PICK e : e = [kind |-> "cut", final |-> 0]
      OBVIOUS
    <2>3. e.kind \notin {"final", "observed"}
      BY <2>2
    <2> QED
      BY <1>3, <2>1, <2>2, <2>3
  <1>5. CASE GenRetire \/ CoreFinish
    <2>1. PICK k \in {"ended", "finished"} : events' = events \o <<Event(k, 0)>>
      BY <1>5 DEF GenRetire, CoreFinish, Emit
    <2>2. engine' = engine \/ engine' = [engine EXCEPT !.done = TRUE]
      BY <1>5 DEF GenRetire, CoreFinish
    <2>3. engine'.owed = engine.owed
      BY <1>2, <2>2 DEF IsEngine
    <2>4. PICK e : e = Event(k, 0)
      OBVIOUS
    <2>5. e.kind \notin {"final", "observed"}
      BY <2>4 DEF Event
    <2> QED
      BY <1>3, <2>1, <2>3, <2>4, <2>5
  <1>6. CASE CoreObserve
    <2>1. PICK f \in engine.owed : /\ engine' = [engine EXCEPT !.owed = engine.owed \ {f}]
                                   /\ events' = events \o <<Event("observed", f)>>
      BY <1>6 DEF CoreObserve, Emit
    <2>2. PICK e : e = Event("observed", f)
      OBVIOUS
    <2>3. e.kind = "observed" /\ e.final = f /\ events' = events \o <<e>>
      BY <2>1, <2>2 DEF Event
    <2>4. engine'.owed = engine.owed \ {f}
      BY <1>2, <2>1 DEF IsEngine
    <2>5. Counted(Awaiting, Append(events, e), engine.owed \ {f})
      BY <1>2, <2>1, <2>3, CountedMore
    <2>6. events' = Append(events, e)
      BY <1>2, <2>3, ConcatIsAppend
    <2>7. /\ Cardinality(engine.owed \ {f}) \in Nat /\ Cardinality(engine.owed) \in Nat
          /\ Cardinality(engine.owed \ {f}) <= Cardinality(engine.owed)
      <3>1. engine.owed \ {f} \in SUBSET engine.owed
        OBVIOUS
      <3> QED
        BY <1>2, <3>1, FinalsAreFinite
    <2>8. Cardinality(engine'.owed) <= SpeakerCapacity + 1
      BY <1>2, <2>4, <2>7
    <2> QED
      BY <1>1, <2>4, <2>5, <2>6, <2>8
  <1> QED
    BY <1>4, <1>5, <1>6

LEMMA NextKeepsCount ==
  ASSUME LifeInv, FinalsInv, ReplyInv, FinalsCounted, [Next]_vars PROVE FinalsCounted'
  <1> DEFINE Goal == /\ Counted(Awaiting', events', engine'.owed)
                     /\ Cardinality(engine'.owed) <= SpeakerCapacity + 1
  <1>0. SUFFICES ASSUME HasSession(life'), Sound(life') PROVE Goal
    BY DEF FinalsCounted
  <1>1. CASE Opened
    <2>1. ~HasSession(life) /\ ~Retired(life) /\ rows' = rows /\ events' = events
          /\ (engine' = [NoEngine EXCEPT !.cutoff = early] \/ engine' = engine)
      BY <1>1, OpenedLife DEF Opened, finalVars
    <2>2. events = <<>> /\ engine.finals = 0 /\ \A f \in Finals : f > 0 => rows[f] = "none"
      BY <2>1 DEF FinalsInv, EventsFit
    <2>3. Awaiting' = {}
      <3>1. \A f \in Finals : f > 0
        BY CapacityAssumption DEF Finals
      <3> QED
        BY <2>1, <2>2, <3>1 DEF Awaiting
    <2>4. engine'.owed = {}
      <3>1. engine.owed = {}
        BY <2>2 DEF FinalsInv, FinalTypes
      <3> QED
        BY <2>1, <3>1 DEF NoEngine
    <2>5. DOMAIN events' = {}
      BY <2>1, <2>2
    <2>6. OpenIn(Awaiting', events', Len(events')) = {}
      BY <2>3, <2>5 DEF OpenIn
    <2>7. Cardinality({}) = 0 /\ SpeakerCapacity \in Nat
      BY CapacityAssumption, FS_EmptySet
    <2>8. Cardinality({}) <= SpeakerCapacity + 1
      BY <2>7
    <2>9. Counted(Awaiting', events', engine'.owed)
      BY <2>4, <2>5, <2>6 DEF Counted
    <2> QED
      BY <2>4, <2>8, <2>9
  <1>2. CASE ~Opened
    <2>1. HasSession(life) /\ Sound(life)
      BY <1>0, <1>2, SoundStays
    <2>2. Counted(Awaiting, events, engine.owed) /\ Cardinality(engine.owed) <= SpeakerCapacity + 1
      BY <2>1 DEF FinalsCounted
    <2>3. ~(\E c \in BOOLEAN : Open(c))
      BY <1>0, OpenLife
    <2>4. ASSUME Awaiting' = Awaiting, events' = events, engine'.owed = engine.owed PROVE Goal
      BY <2>2, <2>4
    <2>5. CASE Looking
      <3>1. UNCHANGED EndVars
        BY <1>0, <2>5, LookEnds
      <3> QED
        BY <2>4, <3>1 DEF EndVars, Awaiting
    <2>6. CASE Jobs
      <3>1. PICK L : L \subseteq Pending /\ Expire(L)
        BY <2>6 DEF Jobs
      <3>2. events' = events /\ engine' = engine
        BY <2>6 DEF Jobs, engineVars
      <3>3. Awaiting' = Awaiting
        BY <3>1 DEF Expire, Pending, Awaiting
      <3> QED
        BY <2>4, <3>2, <3>3
    <2>7. CASE TakeEvent
      <3>1. Counted(Awaiting', events', engine'.owed) /\ engine' = engine
        BY <2>1, <2>7, TakingIsCounted
      <3> QED
        BY <2>2, <3>1
    <2>8. CASE CoreFinal
      BY <2>1, <2>8, FinalIsCounted
    <2>9. CASE Stop \/ CoreFence \/ GenRetire \/ CoreFinish \/ CoreObserve
      BY <2>1, <2>9, NotesAreCounted
    <2>10. CASE ~Looking /\ ~EventSteps
      <3>1. ~TurningPoints
        BY <1>2, <2>3, <2>10 DEF TurningPoints
      <3>2. UNCHANGED <<rows, events>>
        BY <2>10, <3>1, QuietSteps
      <3>3. engine'.owed = engine.owed
        BY <2>10, <3>1, EngineSteps DEF EngineKept, EventSteps, FinalsInv, FinalTypes
      <3> QED
        BY <2>4, <3>2, <3>3 DEF Awaiting
    <2> HIDE DEF Goal
    <2> QED
      BY <2>5, <2>6, <2>7, <2>8, <2>9, <2>10 DEF EventSteps
  <1> QED
    BY <1>1, <1>2

(* What the steps do to the troubles there may be around the worker.       *)
LEMMA ScriptStays == ASSUME [Next]_vars PROVE script' = script
  <1>1. ASSUME Read \/ Jobs \/ Opened \/ NotOpened \/ Status \/ TakeEvent \/ EventsTaken \/ Replies
        PROVE  script' = script
    BY <1>1 DEF Read, Jobs, Opened, NotOpened, Status, TakeEvent, EventsTaken, Replies
  <1>2. ASSUME Reconcile \/ ReleaseThrows \/ NextAudio \/ LastStatus \/ Input PROVE script' = script
    BY <1>2 DEF Reconcile, ReleaseThrows, NextAudio, LastStatus, Input
  <1>3. ASSUME Abandon \/ LookAtSession \/ LookAtCapture \/ LookAtNothing PROVE script' = script
    BY <1>3 DEF Abandon, LookAtSession, LookAtCapture, LookAtNothing, LookFrame
  <1>4. ASSUME Nothing \/ Values \/ Refusal \/ Finish \/ Drain \/ Abort PROVE script' = script
    BY <1>4 DEF Nothing, Values, Refusal, Finish, Drain, Abort, ControlFrame
  <1>5. ASSUME Manage \/ Record \/ Synthesize \/ Stop \/ Report \/ \E c \in BOOLEAN : Open(c)
        PROVE  script' = script
    BY <1>5 DEF Manage, Record, Synthesize, Stop, Report, Open, ControlFrame
  <1>6. ASSUME Around PROVE script' = script
    BY <1>6, AroundKeeps DEF AroundKept
  <1>7. ASSUME UNCHANGED vars PROVE script' = script
    BY <1>7 DEF vars
  <1> QED
    BY <1>1, <1>2, <1>3, <1>4, <1>5, <1>6, <1>7 DEF Next, Loop, Control

LEMMA FaultSteps ==
  ASSUME [Next]_vars, ~SendFrame, ~Strike, ~WriteFails
  PROVE  faults' = faults /\ frame' \in {frame, "none"}
  <1> DEFINE Same == faults' = faults /\ frame' \in {frame, "none"}
  <1>1. ASSUME Read \/ Jobs \/ Opened \/ NotOpened \/ Status \/ TakeEvent \/ EventsTaken \/ Replies
        PROVE  Same
    BY <1>1 DEF Read, Jobs, Opened, NotOpened, Status, TakeEvent, EventsTaken, Replies, envVars
  <1>2. ASSUME Reconcile \/ ReleaseThrows \/ NextAudio \/ LastStatus \/ Input PROVE Same
    BY <1>2 DEF Reconcile, ReleaseThrows, NextAudio, LastStatus, Input, envVars
  <1>3. ASSUME Abandon \/ LookAtSession \/ LookAtCapture \/ LookAtNothing PROVE Same
    BY <1>3 DEF Abandon, LookAtSession, LookAtCapture, LookAtNothing, LookFrame, envVars
  <1>4. ASSUME Nothing \/ Values \/ Refusal \/ Finish \/ Drain \/ Abort PROVE Same
    BY <1>4 DEF Nothing, Values, Refusal, Finish, Drain, Abort, ControlFrame
  <1>5. ASSUME Manage \/ Record \/ Synthesize \/ Stop \/ Report \/ \E c \in BOOLEAN : Open(c)
        PROVE  Same
    BY <1>5 DEF Manage, Record, Synthesize, Stop, Report, Open, ControlFrame
  <1>6. ASSUME NEW op \in Ops, Send(op) PROVE Same
    BY <1>6 DEF Send, envVars
  <1>7. ASSUME SettingsAnswer \/ OpeningEnds \/ JobEnds \/ StorageStart \/ StorageEnd \/ Write
        PROVE  Same
    BY <1>7 DEF SettingsAnswer, OpeningEnds, JobEnds, JobFrame, StorageStart, StorageEnd,
       StorageFrame, Write, WriterFrame, envVars
  <1>8. ASSUME CoreFinal \/ CoreObserve \/ CoreFinish \/ Generate \/ GenRetire \/ CoreFence PROVE Same
    BY <1>8 DEF CoreFinal, CoreObserve, CoreFinish, Generate, GenRetire, CoreFence, CoreFrame
  <1>9. ASSUME CoreFault \/ CoreRetire \/ ModelStart \/ ModelEnd PROVE Same
    BY <1>9 DEF CoreFault, CoreRetire, ModelStart, ModelEnd, CoreFrame
  <1>10. ASSUME UNCHANGED vars PROVE Same
    BY <1>10 DEF vars, envVars
  <1> HIDE DEF Same
  <1>11. Same
    BY <1>1, <1>2, <1>3, <1>4, <1>5, <1>6, <1>7, <1>8, <1>9, <1>10
       DEF Next, Loop, Control, Around
  <1> QED
    BY <1>11 DEF Same

LEMMA FutureSteps ==
  ASSUME [Next]_vars, ~OpeningEnds, ~JobEnds
  PROVE  opening' \in {opening, "none", "running"} /\ ready' \in {ready, {}}
  <1> DEFINE Same == opening' \in {opening, "none", "running"} /\ ready' \in {ready, {}}
  <1>1. ASSUME Read \/ Jobs \/ Opened \/ NotOpened \/ Status \/ TakeEvent \/ EventsTaken \/ Replies
        PROVE  Same
    BY <1>1 DEF Read, Jobs, Opened, NotOpened, Status, TakeEvent, EventsTaken, Replies, jobVars
  <1>2. ASSUME Reconcile \/ ReleaseThrows \/ NextAudio \/ LastStatus \/ Input PROVE Same
    BY <1>2 DEF Reconcile, ReleaseThrows, NextAudio, LastStatus, Input, jobVars
  <1>3. ASSUME Abandon \/ LookAtSession \/ LookAtCapture \/ LookAtNothing PROVE Same
    BY <1>3 DEF Abandon, LookAtSession, LookAtCapture, LookAtNothing, LookFrame
  <1>4. ASSUME Nothing \/ Values \/ Refusal \/ Finish \/ Drain \/ Abort PROVE Same
    BY <1>4 DEF Nothing, Values, Refusal, Finish, Drain, Abort, Closing, jobVars
  <1>5. ASSUME Manage \/ Record \/ Synthesize \/ Stop \/ Report \/ \E c \in BOOLEAN : Open(c)
        PROVE  Same
    BY <1>5 DEF Manage, Record, Synthesize, Stop, Report, Open, jobVars
  <1>6. ASSUME NEW op \in Ops, Send(op) PROVE Same
    BY <1>6 DEF Send, jobVars
  <1>7. ASSUME SettingsAnswer \/ SendFrame \/ Strike \/ StorageStart \/ StorageEnd \/ Write \/ WriteFails
        PROVE  Same
    BY <1>7 DEF SettingsAnswer, SendFrame, Strike, StorageStart, StorageEnd,
       StorageFrame, Write, WriteFails, WriterFrame, jobVars
  <1>8. ASSUME CoreFinal \/ CoreObserve \/ CoreFinish \/ Generate \/ GenRetire \/ CoreFence PROVE Same
    BY <1>8 DEF CoreFinal, CoreObserve, CoreFinish, Generate, GenRetire, CoreFence, CoreFrame, jobVars
  <1>9. ASSUME CoreFault \/ CoreRetire \/ ModelStart \/ ModelEnd PROVE Same
    BY <1>9 DEF CoreFault, CoreRetire, ModelStart, ModelEnd, CoreFrame, jobVars
  <1>10. ASSUME UNCHANGED vars PROVE Same
    BY <1>10 DEF vars, jobVars
  <1> HIDE DEF Same
  <1>11. Same
    BY <1>1, <1>2, <1>3, <1>4, <1>5, <1>6, <1>7, <1>8, <1>9, <1>10
       DEF Next, Loop, Control, Around
  <1> QED
    BY <1>11 DEF Same

(* What of the engine only one step changes.                               *)
LEMMA EngineTurns ==
  ASSUME IsEngine(engine), [Next]_vars, ~TurningPoints
  PROVE  /\ engine'.error = engine.error \/ CoreFault
         /\ engine'.done = engine.done \/ CoreFinish
         /\ engine'.retired = engine.retired \/ CoreRetire
  <1> DEFINE Kept == /\ engine'.error = engine.error \/ CoreFault
                     /\ engine'.done = engine.done \/ CoreFinish
                     /\ engine'.retired = engine.retired \/ CoreRetire
  <1>0. ASSUME engine' = engine PROVE Kept
    BY <1>0
  <1>1. ASSUME Read \/ Jobs \/ NotOpened \/ Status \/ TakeEvent \/ EventsTaken \/ Replies \/ Reconcile
        PROVE  engine' = engine
    BY <1>1 DEF Read, Jobs, NotOpened, Status, TakeEvent, EventsTaken, Replies, Reconcile,
       engineVars
  <1>2. ASSUME ReleaseThrows \/ NextAudio \/ LastStatus \/ Abandon PROVE engine' = engine
    BY <1>2 DEF ReleaseThrows, NextAudio, LastStatus, Abandon, engineVars, EndVars
  <1>3. ASSUME Nothing \/ Values \/ Refusal \/ Drain \/ Abort \/ Manage \/ Record \/ Synthesize
               \/ Stop \/ Report
        PROVE  engine' = engine
    BY <1>3 DEF Nothing, Values, Refusal, Drain, Abort, Closing, Manage, Record, Synthesize,
       Stop, Report, engineVars
  <1>4. ASSUME Finish \/ Input PROVE Kept
    <2>1. engine' = engine \/ engine' = [engine EXCEPT !.cutoff = TRUE]
      BY <1>4 DEF Finish, Input
    <2> QED
      BY <1>0, <2>1 DEF IsEngine
  <1>5. ASSUME CoreFault PROVE Kept
    <2>1. engine' = [engine EXCEPT !.error = TRUE]
      BY <1>5 DEF CoreFault
    <2> QED
      BY <1>5, <2>1 DEF IsEngine
  <1>6. ASSUME CoreRetire PROVE Kept
    <2>1. engine' = [engine EXCEPT !.retired = TRUE]
      BY <1>6 DEF CoreRetire
    <2> QED
      BY <1>6, <2>1 DEF IsEngine
  <1>7. ASSUME CoreFinish PROVE Kept
    <2>1. engine' = [engine EXCEPT !.done = TRUE]
      BY <1>7 DEF CoreFinish
    <2> QED
      BY <1>7, <2>1 DEF IsEngine
  <1>8. ASSUME ModelStart \/ ModelEnd \/ CoreFinal \/ CoreObserve PROVE Kept
    <2>1. \/ engine' = [engine EXCEPT !.busy = TRUE]
          \/ engine' = [engine EXCEPT !.busy = FALSE, !.calls = engine.calls + 1]
          \/ engine' = [engine EXCEPT !.finals = engine.finals + 1]
          \/ engine' = [engine EXCEPT !.finals = engine.finals + 1,
                                      !.owed = engine.owed \cup {engine.finals + 1}]
          \/ \E f : engine' = [engine EXCEPT !.owed = engine.owed \ {f}]
      BY <1>8 DEF ModelStart, ModelEnd, CoreFinal, CoreObserve
    <2> QED
      BY <2>1 DEF IsEngine
  <1>9. ASSUME NEW op \in Ops, Send(op) PROVE engine' = engine
    BY <1>9 DEF Send, engineVars
  <1>10. ASSUME SettingsAnswer \/ SendFrame \/ Strike \/ OpeningEnds \/ JobEnds PROVE engine' = engine
    BY <1>10 DEF SettingsAnswer, SendFrame, Strike, OpeningEnds, JobEnds, JobFrame, engineVars
  <1>11. ASSUME StorageStart \/ StorageEnd \/ Write \/ WriteFails PROVE engine' = engine
    BY <1>11 DEF StorageStart, StorageEnd, StorageFrame, Write, WriteFails, WriterFrame, engineVars
  <1>12. ASSUME Generate \/ GenRetire \/ CoreFence PROVE engine' = engine
    BY <1>12 DEF Generate, GenRetire, CoreFence, engineVars
  <1>13. ASSUME UNCHANGED vars PROVE engine' = engine
    BY <1>13 DEF vars, engineVars
  <1> HIDE DEF Kept
  <1>14. Kept
    BY <1>0, <1>1, <1>2, <1>3, <1>4, <1>5, <1>6, <1>7, <1>8, <1>9, <1>10, <1>11, <1>12, <1>13
       DEF Next, Loop, Control, Around, TurningPoints, Looking
  <1> QED
    BY <1>14 DEF Kept

LEMMA EngineBegins ==
  ASSUME LifeInv, FinalsInv, TurningPoints
  PROVE  \/ engine' = engine
         \/ ~engine'.error /\ ~engine'.done /\ ~engine'.retired
  <1>1. CASE Opened
    <2>1. engine' = engine \/ engine' = [NoEngine EXCEPT !.cutoff = early]
      BY <1>1 DEF Opened
    <2> QED
      BY <2>1 DEF NoEngine
  <1>2. CASE Looking
    <2>1. (Stays(life, life') /\ UNCHANGED EndVars) \/ \E l : Over(l)
      BY <1>2, LookEnds
    <2>2. engine' = engine \/ engine' = NoEngine
      BY <2>1 DEF EndVars, Over
    <2> QED
      BY <2>2 DEF NoEngine
  <1>3. CASE \E c \in BOOLEAN : Open(c)
    BY <1>3 DEF Open, NoEngine
  <1> QED
    BY <1>1, <1>2, <1>3 DEF TurningPoints

(* No refusal comes.                                                       *)
NoRefusal == hand.op # "refusal" /\ \A i \in DOMAIN queue : queue[i].op # "refusal"
LEMMA NoneRefuses ==
  ASSUME OwedInv, NoRefusal, Calm, [Next]_vars PROVE NoRefusal'
  <1>1. CASE Read
    <2>1. /\ \A i \in DOMAIN queue' : i + 1 \in DOMAIN queue /\ queue'[i] = queue[i + 1]
          /\ hand' = NoLine \/ \E i \in DOMAIN queue : hand' = queue[i]
      BY <1>1, ReadTakes
    <2>2. hand'.op # "refusal"
      BY <2>1 DEF NoRefusal, NoLine
    <2>3. \A i \in DOMAIN queue' : queue'[i].op # "refusal"
      BY <2>1 DEF NoRefusal
    <2> QED
      BY <2>2, <2>3 DEF NoRefusal
  <1>2. ASSUME NEW l, queue' = Append(queue, l), l.op # "refusal", hand' = hand PROVE NoRefusal'
    <2>1. /\ Len(queue) \in Nat /\ DOMAIN queue = 1..Len(queue)
          /\ DOMAIN queue' = 1..(Len(queue) + 1)
          /\ \A i \in 1..Len(queue) : queue'[i] = queue[i]
          /\ queue'[Len(queue) + 1] = l
      BY <1>2, AppendFacts DEF OwedInv, LineTypes
    <2>2. \A i \in DOMAIN queue' : i \in DOMAIN queue \/ i = Len(queue) + 1
      BY <2>1
    <2>3. \A i \in DOMAIN queue : queue'[i] = queue[i]
      BY <2>1
    <2> QED
      BY <1>2, <2>1, <2>2, <2>3 DEF NoRefusal
  <1>3. ASSUME NEW op \in Ops, Send(op) PROVE NoRefusal'
    <2>1. hand' = hand
      BY <1>3 DEF Send, AroundFrame, loopVars
    <2>2. op # "refusal"
      BY DEF Ops
    <2>3. CASE queue' = Append(queue, Line(op))
      <3>1. Line(op).op = op
        BY DEF Line, NoLine
      <3> QED
        BY <1>2, <2>1, <2>2, <2>3, <3>1
    <2>4. CASE \E r \in Reports : queue' = Append(queue, r)
      <3>1. PICK r \in Reports : queue' = Append(queue, r)
        BY <2>4
      <3>2. r.op = "report"
        <4>1. PICK n, t : r = ReportOf(n, t)
          BY <3>1 DEF Reports
        <4>2. ReportOf(n, t).op = "report"
          BY DEF ReportOf, Line, NoLine
        <4> QED
          BY <4>1, <4>2
      <3> QED
        BY <1>2, <2>1, <3>1, <3>2
    <2> QED
      BY <1>3, <2>3, <2>4 DEF Send
  <1>4. CASE SettingsAnswer
    <2>1. PICK s \in asking : \E op \in {"values"} \cup ({"refusal"} \cap script.faults) :
            queue' = Append(queue, [NoLine EXCEPT !.op = op, !.session = s])
      BY <1>4 DEF SettingsAnswer
    <2>2. "refusal" \notin script.faults
      BY DEF Calm
    <2>3. queue' = Append(queue, [NoLine EXCEPT !.op = "values", !.session = s])
      BY <2>1, <2>2
    <2>4. [NoLine EXCEPT !.op = "values", !.session = s].op = "values"
      BY DEF NoLine
    <2>5. hand' = hand
      BY <1>4 DEF SettingsAnswer, AroundFrame, loopVars
    <2> DEFINE l == [NoLine EXCEPT !.op = "values", !.session = s]
    <2>6. l.op = "values" /\ queue' = Append(queue, l)
      BY <2>3, <2>4
    <2> HIDE DEF l
    <2> QED
      BY <1>2, <2>5, <2>6
  <1>5. CASE ~LineMoves
    <2>1. queue' = queue /\ (hand' = hand \/ hand' = NoLine)
      BY <1>5, QueueSteps
    <2> QED
      BY <2>1 DEF NoRefusal, NoLine
  <1> QED
    BY <1>1, <1>3, <1>4, <1>5 DEF LineMoves

(* The events of a pass are taken before its replies are looked at.        *)
LEMMA RepliesNext ==
  ASSUME [Next]_vars, pc' \in {"replies", "reconcile"}
  PROVE  EventsTaken \/ Replies \/ Reconcile \/ (Around /\ pc' = pc) \/ UNCHANGED vars
  <1> DEFINE Else == pc' \notin {"replies", "reconcile"}
  <1>1. ASSUME Read \/ Jobs \/ Opened \/ NotOpened \/ Status PROVE Else
    BY <1>1, NotOpenedIsWorse DEF Read, Jobs, Opened, Onward, NotOpened, Status, Throw
  <1>2. ASSUME TakeEvent \/ ReleaseThrows \/ NextAudio \/ LastStatus \/ Input PROVE Else
    BY <1>2 DEF TakeEvent, ReleaseThrows, NextAudio, LastStatus, Input, Throw, loopVars
  <1>3. ASSUME Abandon \/ LookAtSession \/ LookAtCapture \/ LookAtNothing PROVE Else
    BY <1>3 DEF Abandon, LookAtSession, LookAtCapture, LookAtNothing
  <1>4. ASSUME Nothing \/ Values \/ Refusal \/ Finish \/ Drain \/ Abort PROVE Else
    BY <1>4 DEF Nothing, Values, Refusal, Finish, Drain, Abort, ControlFrame
  <1>5. ASSUME Manage \/ Record \/ Synthesize \/ Stop \/ Report \/ \E c \in BOOLEAN : Open(c)
        PROVE  Else
    BY <1>5 DEF Manage, Record, Synthesize, Stop, Report, Open, ControlFrame
  <1>6. ASSUME Around PROVE Around /\ pc' = pc
    BY <1>6, AroundKeeps DEF AroundKept
  <1> HIDE DEF Else
  <1>7. Else \/ EventsTaken \/ Replies \/ Reconcile \/ (Around /\ pc' = pc) \/ UNCHANGED vars
    BY <1>1, <1>2, <1>3, <1>4, <1>5, <1>6 DEF Next, Loop, Control
  <1> QED
    BY <1>7 DEF Else

NoneCut == pc \in {"replies", "reconcile"} => EventsOf("cut") = {}
LEMMA NoneCuts ==
  ASSUME LifeInv, FinalsInv, NoneCut, Calm, [Next]_vars PROVE NoneCut'
  <1> SUFFICES ASSUME pc' \in {"replies", "reconcile"} PROVE EventsOf("cut")' = {}
    BY DEF NoneCut
  <1>0. ProperSeq(events)
    BY DEF FinalsInv, FinalTypes
  <1>1. CASE EventsTaken
    <2>1. events = <<>> /\ events' = events
      BY <1>1 DEF EventsTaken, engineVars
    <2> QED
      BY <2>1 DEF EventsOf
  <1>2. CASE Replies \/ Reconcile \/ UNCHANGED vars
    <2>1. events' = events /\ pc \in {"replies", "reconcile"}
      BY <1>2 DEF Replies, Reconcile, engineVars, vars, loopVars
    <2> QED
      BY <2>1 DEF EventsOf, NoneCut
  <1>3. CASE Around /\ pc' = pc
    <2>0. EventsOf("cut") = {}
      BY <1>3 DEF NoneCut
    <2>1. CASE events' = events
      BY <2>0, <2>1 DEF EventsOf
    <2>2. ~CoreFence
      BY DEF CoreFence, Calm
    <2>3. ASSUME NEW e, events' = events \o <<e>>, e.kind # "cut" PROVE EventsOf("cut")' = {}
      BY <1>0, <2>0, <2>3, EventAdded
    <2>4. CASE CoreFinal
      <3> DEFINE a == Event("final", engine.finals + 1)
                 b == Event("observed", engine.finals + 1)
      <3>1. events' = events \o <<a, b>> \/ events' = events \o <<a>>
        BY <2>4 DEF CoreFinal, Emit
      <3>2. a.kind = "final" /\ b.kind = "observed"
        BY DEF Event
      <3> HIDE DEF a, b
      <3>3. ProperSeq(<<a, b>>) /\ \A i \in DOMAIN <<a, b>> : <<a, b>>[i] \in {a, b}
        BY DEF ProperSeq
      <3>4. \A i \in DOMAIN <<a, b>> : <<a, b>>[i].kind # "cut"
        BY <3>2, <3>3
      <3>5. CASE events' = events \o <<a, b>>
        BY <1>0, <2>0, <3>3, <3>4, <3>5, EventsMore
      <3> QED
        BY <2>3, <3>1, <3>2, <3>5
    <2>5. CASE CoreObserve
      <3>1. PICK f : events' = events \o <<Event("observed", f)>>
        BY <2>5 DEF CoreObserve, Emit
      <3>2. Event("observed", f).kind = "observed"
        BY DEF Event
      <3> QED
        BY <2>3, <3>1, <3>2
    <2>6. CASE CoreFinish \/ GenRetire
      <3>1. PICK k \in {"finished", "ended"} : events' = events \o <<Event(k, 0)>>
        BY <2>6 DEF CoreFinish, GenRetire, Emit
      <3>2. Event(k, 0).kind = k
        BY DEF Event
      <3> QED
        BY <2>3, <3>1, <3>2
    <2>7. ~TurningPoints /\ ~Jobs /\ ~TakeEvent /\ ~Stop
      <3>1. pc = pc' /\ pc \in {"replies", "reconcile"}
        BY <1>3
      <3> QED
        BY <3>1 DEF TurningPoints, Looking, Opened, LookAtSession, LookAtCapture, LookAtNothing,
           Open, Taken, Jobs, TakeEvent, Stop
    <2> QED
      BY <2>1, <2>2, <2>4, <2>5, <2>6, <2>7, QuietSteps DEF EventSteps
  <1> QED
    BY <1>1, <1>2, <1>3, RepliesNext

LEMMA TaskSound ==
  ASSUME ReplyInv, task.state # "failed", Calm, [Next]_vars PROVE task'.state # "failed"
  <1>0. IsTask(task)
    BY DEF ReplyInv, AudioFits
  <1>1. CASE Status \/ NextAudio
    <2>1. \/ task' \in {task, NoTask}
          \/ \E n : task' = [NoTask EXCEPT !.state = "queued", !.frames = n]
          \/ task' = [NoTask EXCEPT !.state = "queued", !.end = TRUE]
      BY <1>1 DEF Status, NextAudio
    <2>2. NoTask.state = "none" /\ [NoTask EXCEPT !.state = "queued", !.end = TRUE].state = "queued"
      BY DEF NoTask
    <2>3. \A n : [NoTask EXCEPT !.state = "queued", !.frames = n].state = "queued"
      BY DEF NoTask
    <2>4. CASE task' \in {task, NoTask}
      BY <2>2, <2>4
    <2>5. CASE \E n : task' = [NoTask EXCEPT !.state = "queued", !.frames = n]
      BY <2>3, <2>5
    <2>6. CASE task' = [NoTask EXCEPT !.state = "queued", !.end = TRUE]
      BY <2>2, <2>6
    <2> QED
      BY <2>1, <2>4, <2>5, <2>6
  <1>2. CASE Write
    <2>1. \/ task' = [task EXCEPT !.state = "done"]
          \/ task' = [task EXCEPT !.endWritten = TRUE]
          \/ task' = [task EXCEPT !.written = task.written + 1]
      BY <1>2 DEF Write
    <2> QED
      BY <1>0, <2>1 DEF IsTask
  <1>3. ~WriteFails
    BY DEF WriteFails, Calm
  <1>4. ASSUME TakeEvent \/ Replies \/ Reconcile \/ Report \/ Stop \/ CoreFence PROVE task' = task
    BY <1>4 DEF TakeEvent, Replies, Reconcile, Report, Stop, CoreFence, ControlFrame, CoreFrame
  <1>5. ASSUME Synthesize \/ Generate \/ GenRetire \/ \E c \in BOOLEAN : Open(c) PROVE task' = task
    BY <1>5 DEF Synthesize, Generate, GenRetire, Open, ControlFrame, CoreFrame
  <1> QED
    BY <1>1, <1>2, <1>3, <1>4, <1>5, ReplyAsItIs
       DEF ReplySteps, JudgeSteps, FenceSteps, WriteSteps, NewReplies, EngineNotes

(* Nothing goes wrong around the worker unless the script says so.         *)
LEMMA NextKeepsNoTrouble ==
  ASSUME LifeInv, OwedInv, FinalsInv, ReplyInv, Calm, NoTrouble, [Next]_vars
  PROVE  Calm' /\ NoTrouble'
  <1>1. Calm'
    BY ScriptStays DEF Calm
  <1>2. faults' \subseteq {"end"} /\ frame' \in {"none", "end"}
    <2>1. CASE SendFrame
      <3>1. PICK f \in ({"end", "bad"} \cap script.faults) \ faults :
              frame' = f /\ faults' = faults \cup {f}
        BY <2>1 DEF SendFrame
      <3> QED
        BY <3>1 DEF Calm, NoTrouble
    <2>2. ~Strike /\ ~WriteFails
      BY DEF Strike, WriteFails, Calm
    <2>3. CASE ~SendFrame
      BY <2>2, <2>3, FaultSteps DEF NoTrouble
    <2> QED
      BY <2>1, <2>3
  <1>3. opening' \in {"none", "running", "opened"} /\ "broken" \notin ready'
    <2>1. CASE OpeningEnds
      BY <2>1 DEF OpeningEnds, Calm, NoTrouble
    <2>2. CASE JobEnds
      <3>1. PICK j \in {"enroll", "publish", "capture"}, end \in {"kept", "broken"} :
              /\ end = "broken" => "broken" \in script.faults
              /\ ready' = ready \cup {IF j = "capture" THEN end ELSE j}
              /\ opening' = opening
        BY <2>2 DEF JobEnds
      <3>2. end = "kept"
        BY <3>1 DEF Calm
      <3> QED
        BY <3>1, <3>2 DEF NoTrouble
    <2> QED
      BY <2>1, <2>2, FutureSteps DEF NoTrouble
  <1>4. task'.state # "failed"
    BY TaskSound DEF NoTrouble
  <1>5. ~engine'.error
    <2>1. ~CoreFault
      BY DEF CoreFault, Calm
    <2>2. ~engine.error /\ IsEngine(engine)
      BY DEF NoTrouble, FinalsInv, FinalTypes
    <2>3. CASE TurningPoints
      BY <2>2, <2>3, EngineBegins
    <2> QED
      BY <2>1, <2>2, <2>3, EngineTurns
  <1>6. NoRefusal'
    BY NoneRefuses DEF NoTrouble, NoRefusal
  <1>7. NoneCut'
    BY NoneCuts DEF NoTrouble, NoneCut
  <1> QED
    BY <1>1, <1>2, <1>3, <1>4, <1>5, <1>6, <1>7 DEF NoTrouble, NoRefusal, NoneCut

(* What a life has gone on as, when only its times and its answers change. *)
Even(l, m) ==
    /\ m.state = l.state /\ m.failure = l.failure /\ m.abort = l.abort
    /\ m.core = l.core /\ m.capture = l.capture
LEMMA EvenSteps ==
  ASSUME NEW l, l \in LifeType
  PROVE  /\ Even(l, l) /\ Even(l, AdvanceDrain(l)) /\ Even(l, After(l)) /\ Even(l, Rearmed(l))
         /\ Even(l, [l EXCEPT !.waiting = FALSE])
         /\ \A b : Even(l, [l EXCEPT !.live = b])
  BY DEF Even, AdvanceDrain, After, Rearmed, LifeType

(* Nothing ordinary throws.                                                *)
LEMMA NothingThrows == ASSUME EventOrder, NoTrouble PROVE ~ReleaseThrows
  <1> SUFFICES ASSUME ReleaseThrows PROVE FALSE
    OBVIOUS
  <1>1. pc = "reconcile" /\ Unreleasable
    BY DEF ReleaseThrows
  <1>2. EventsOf("cut") = {}
    BY <1>1 DEF NoTrouble
  <1>3. EventsOf("ended") = {}
    BY <1>1 DEF EventOrder, Unreleasable, Settled
  <1>4. PICK i \in 1..Len(events) : events[i].kind \in ReplyEvents
    BY <1>1 DEF Unreleasable
  <1> QED
    BY <1>2, <1>3, <1>4 DEF EventsOf, ReplyEvents

(* Without trouble, what begins, closes, aborts or ends a session is all   *)
(* that happens to its life.                                               *)
Shifts == Opened \/ Drain \/ Abort \/ Looking \/ \E c \in BOOLEAN : Open(c)
LEMMA EvenlyOn ==
  ASSUME LifeInv, FinalsInv, FinalsCounted, EventOrder, Calm, NoTrouble, Closes, [Next]_vars, ~Shifts
  PROVE  Even(life, life')
  <1>0. life \in LifeType
    BY DEF LifeInv, Shape
  <1>17. /\ Even(life, life) /\ Even(life, AdvanceDrain(life))
        /\ Even(life, [life EXCEPT !.waiting = FALSE])
    BY <1>0, EvenSteps
  <1>1. ASSUME life' \in {life, AdvanceDrain(life), [life EXCEPT !.waiting = FALSE]}
        PROVE  Even(life, life')
    <2>1. CASE life' = life
      BY <1>17, <2>1
    <2>2. CASE life' = AdvanceDrain(life)
      BY <1>17, <2>2
    <2>3. CASE life' = [life EXCEPT !.waiting = FALSE]
      BY <1>17, <2>3
    <2> QED
      BY <1>1, <2>1, <2>2, <2>3
  <1>2. CASE Read
    <2>1. "eof" \notin faults /\ "transport" \notin faults /\ "audio_eof" \notin faults
      BY DEF NoTrouble
    <2>2. life' = life
      BY <1>2, <2>1 DEF Read
    <2> QED
      BY <1>1, <2>2
  <1>3. CASE Jobs
    <2>1. life' = life
      BY <1>3 DEF Jobs, NoTrouble
    <2> QED
      BY <1>1, <2>1
  <1>4. CASE NotOpened
    <2>1. opening \notin {"broken", "refused"}
      BY DEF NoTrouble
    <2>2. Onward(life)
      BY <1>4, <2>1 DEF NotOpened
    <2>3. "deadline" \notin script.faults
      BY DEF Calm
    <2>4. life' = life
      BY <2>2, <2>3 DEF Onward
    <2> QED
      BY <1>1, <2>4
  <1>5. CASE Status \/ LastStatus
    <2>1. life' \in {life, AdvanceDrain(life)}
      BY <1>5 DEF Status, LastStatus, NoTrouble
    <2> QED
      BY <1>1, <2>1
  <1>6. CASE TakeEvent
    <2>1. life' = life
      BY <1>6, TakenInOrder
    <2> QED
      BY <1>1, <2>1
  <1>7. CASE Replies
    <2>1. life' \in {life, AdvanceDrain(life)}
      BY <1>7 DEF Replies
    <2> QED
      BY <1>1, <2>1
  <1>8. CASE Reconcile \/ Report
    <2>1. life' \in {life, AdvanceDrain(life)}
      BY <1>8 DEF Reconcile, Report, JudgeReport
    <2> QED
      BY <1>1, <2>1
  <1>9. CASE ReleaseThrows
    BY <1>9, NothingThrows
  <1>10. CASE EventsTaken \/ NextAudio \/ Abandon \/ Nothing \/ Finish \/ Synthesize \/ Stop
    <2>1. life' = life
      BY <1>10 DEF EventsTaken, NextAudio, Abandon, Nothing, Finish, Synthesize, Stop
    <2> QED
      BY <1>1, <2>1
  <1>11. CASE Values
    BY <1>1, <1>11 DEF Values
  <1>12. CASE Refusal
    BY <1>12 DEF Refusal, Taken, NoTrouble
  <1>13. CASE Manage \/ Record
    <2>1. life' = [life EXCEPT !.live = life.live \/ Retired(life)]
      BY <1>13 DEF Manage, Record
    <2> DEFINE b == life.live \/ Retired(life)
    <2>2. life' = [life EXCEPT !.live = b]
      BY <2>1
    <2> HIDE DEF b
    <2>3. Even(life, [life EXCEPT !.live = b])
      BY <1>0, EvenSteps
    <2> QED
      BY <2>2, <2>3
  <1>14. CASE Input
    <2>1. life' = After(ServerLost(AfterFrame))
      BY <1>14 DEF Input
    <2>2. ~(frame = "bad") /\ ~engine.error /\ (frame = "none" \/ frame = "end")
      BY DEF NoTrouble
    <2>3. frame = "end" /\ Retired(life) /\ ~FrameDropped => inputFinal
      BY DEF Closes, FrameDropped, Sound
    <2>4. AfterFrame = life
      BY <2>2, <2>3 DEF AfterFrame
    <2>5. ServerLost(AfterFrame) = life
      BY <2>4 DEF ServerLost, NoTrouble
    <2> QED
      BY <1>0, <2>1, <2>5, EvenSteps
  <1>15. CASE Around
    <2>1. life' = life
      BY <1>15, AroundKeeps DEF AroundKept
    <2> QED
      BY <1>1, <2>1
  <1>16. CASE UNCHANGED vars
    <2>1. life' = life
      BY <1>16 DEF vars
    <2> QED
      BY <1>1, <2>1
  <1> QED
    BY <1>2, <1>3, <1>4, <1>5, <1>6, <1>7, <1>8, <1>9, <1>10, <1>11, <1>12, <1>13, <1>14, <1>15, <1>16
       DEF Next, Loop, Control, Shifts, Looking

(* The others.                                                             *)
LEMMA CalmOpened ==
  ASSUME LifeInv, Calm, Opened
  PROVE  /\ life'.failure = life.failure /\ life'.abort = life.abort /\ life'.capture = life.capture
         /\ Sound(life) => /\ life'.core = "running" /\ life'.state = "open" /\ early' = FALSE
                           /\ engine' = [NoEngine EXCEPT !.cutoff = early]
         /\ ~Sound(life) => life'.core = "aborting" /\ life'.state = life.state
  <1>0. life \in LifeType
    BY DEF LifeInv, Shape
  <1>1. "deadline" \notin script.faults
    BY DEF Calm
  <1>2. \A l : Onward(l) => life' = l
    BY <1>1 DEF Onward
  <1>3. CASE Sound(life)
    <2>1. /\ life' = [life EXCEPT !.core = "running", !.state = "open"] /\ early' = FALSE
          /\ engine' = [NoEngine EXCEPT !.cutoff = early]
      BY <1>2, <1>3 DEF Opened
    <2> QED
      BY <1>0, <1>3, <2>1 DEF LifeType
  <1>4. CASE ~Sound(life)
    <2>1. life' = [life EXCEPT !.core = "aborting"]
      BY <1>2, <1>4 DEF Opened
    <2> QED
      BY <1>0, <1>4, <2>1 DEF LifeType
  <1> QED
    BY <1>3, <1>4

LEMMA ClosingSteps ==
  ASSUME LifeInv, Drain \/ Abort
  PROVE  /\ life'.failure = life.failure /\ (life.abort => life'.abort)
         /\ life'.capture = life.capture /\ (HasSession(life') <=> HasSession(life))
         /\ Drain => /\ life.state = "open" /\ life'.state = "draining"
                     /\ life'.abort = life.abort
                     /\ life'.core = IF life.core = "running" THEN "draining" ELSE life.core
         /\ Abort => life'.state = "draining" /\ life'.abort
  <1>0. life \in LifeType
    BY DEF LifeInv, Shape
  <1>1. CASE Drain
    <2>1. /\ life' = [life EXCEPT !.state = "draining", !.closing = DrainTime(life),
                          !.core = IF life.core = "running" THEN "draining" ELSE life.core]
          /\ life.state = "open"
      BY <1>1 DEF Drain, MayDrain
    <2>2. pc = "control" /\ hand.op = "drain"
      BY <1>1 DEF Drain, Taken
    <2>3. ~Abort
      BY <2>2 DEF Abort, Taken
    <2> QED
      BY <1>0, <2>1, <2>3 DEF LifeType, HasSession
  <1>2. CASE Abort
    <2>1. PICK t : life' = [Aborting(life, t) EXCEPT !.live = FALSE]
      BY <1>2 DEF Abort
    <2>2. life' = [life EXCEPT !.state = "draining", !.abort = TRUE, !.waiting = FALSE,
                !.closing = t, !.core = Closed(life.core), !.live = FALSE]
      BY <1>0, <2>1 DEF Aborting, LifeType
    <2>3. ~Drain
      BY <1>2 DEF Abort, Drain, Taken
    <2> QED
      BY <1>0, <2>2, <2>3 DEF LifeType, HasSession, Closed
  <1> QED
    BY <1>1, <1>2

(* A look leaves a life as it is, or finds it stalled, or ends it: one     *)
(* that is sound ends with its input.                                      *)
EndsWell ==
    /\ life'.failure = life.failure /\ life'.abort = life.abort /\ Retired(life')
    /\ Sound(life) => inputFinal
    /\ stall' = stall
LookedOn == Even(life, life') /\ stall' = stall /\ UNCHANGED EndVars
FoundStalled == stall' # "none" /\ life'.failure # "none"

LEMMA TerminalFacts ==
  ASSUME NEW l, l \in LifeType, Terminal(l)
  PROVE  /\ life'.failure = l.failure /\ life'.abort = l.abort
         /\ (life' = l /\ UNCHANGED EndVars) \/ (~Retired(l) /\ Retired(life'))
  <1>1. CASE Retired(l) \/ ~Finished
    BY <1>1 DEF Terminal
  <1>2. CASE ~(Retired(l) \/ ~Finished)
    <2> DEFINE s == IF l.failure = "none" THEN "closed" ELSE "failed"
    <2>1. life' = [l EXCEPT !.state = s, !.core = "none", !.live = FALSE]
      BY <1>2 DEF Terminal
    <2>2. s \in {"closed", "failed"}
      OBVIOUS
    <2> HIDE DEF s
    <2> QED
      BY <1>2, <2>1, <2>2 DEF LifeType, Retired
  <1> QED
    BY <1>1, <1>2

LEMMA SessionEndsWell ==
  ASSUME LifeInv, FinalsInv, Closes, pc = "look", HasSession(life), Sound(life),
         snap.retired, snap.emitted = taken
  PROVE  inputFinal
  <1>1. emitted = taken /\ engine.retired
    BY DEF Closes
  <1>2. Len(events) \in Nat /\ DOMAIN events = 1..Len(events)
    BY DEF FinalsInv, FinalTypes, ProperSeq
  <1>3. taken \in Nat /\ emitted = taken + Len(events)
    BY SessionIsLive DEF Closes
  <1>4. DOMAIN events = {}
    BY <1>1, <1>2, <1>3
  <1> QED
    BY <1>1, <1>4 DEF Closes, EventsOf

LEMMA CalmLooks ==
  ASSUME LifeInv, FinalsInv, Calm, Closes, Looking
  PROVE  LookedOn \/ FoundStalled \/ EndsWell
  <1>0. Shape(life, opening) /\ life \in LifeType
    BY DEF LifeInv, Shape
  <1> DEFINE l == Rearmed(life)
  <1>1. Even(life, l) /\ Even(life, life) /\ Worse(life, l) /\ Shape(l, opening) /\ l \in LifeType
    BY <1>0, EvenSteps, RearmedIsWorse, WorseKeepsShape DEF Shape
  <1>2. Patience # "none" /\ "deadline" \notin script.faults
    BY DEF Patience, Calm
  <1>3. Fail(l) \in LifeType /\ FailSession(l) \in LifeType
        /\ Fail(l).failure # "none" /\ FailSession(l).failure # "none"
    BY <1>1, FailIsWorse, FailSessionIsWorse, FailedDrainsNot DEF Worse
  <1> HIDE DEF l
  <1>4. CASE LookAtSession
    <2> DEFINE stalled == Draining(l) /\ Overdue(l) /\ jobs.publish = None /\ ~Held(l)
               failed == IF stalled THEN Fail(l) ELSE l
    <2>1. /\ IF snap.retired /\ task.state = "none" /\ (~Sound(failed) \/ snap.emitted = taken)
             THEN Terminal(failed)
             ELSE life' = failed /\ UNCHANGED EndVars
          /\ stall' = IF stalled THEN Patience ELSE stall
      BY <1>4 DEF LookAtSession, l
    <2>2. HasSession(life) /\ pc = "look"
      BY <1>4 DEF LookAtSession
    <2> HIDE DEF stalled
    <2>3. CASE stalled
      <3>1. failed = Fail(l)
        BY <2>3
      <3>2. life' = Fail(l) \/ Terminal(Fail(l))
        BY <2>1, <3>1
      <3>3. life'.failure # "none"
        BY <1>3, <3>2, TerminalFacts
      <3> QED
        BY <1>2, <2>1, <2>3, <3>3 DEF FoundStalled
    <2>4. CASE ~stalled
      <3>1. /\ IF snap.retired /\ task.state = "none" /\ (~Sound(l) \/ snap.emitted = taken)
               THEN Terminal(l)
               ELSE life' = l /\ UNCHANGED EndVars
            /\ stall' = stall
        BY <2>1, <2>4
      <3>2. Sound(l) <=> Sound(life)
        BY <1>1 DEF Even, Sound
      <3>3. CASE life' = l /\ UNCHANGED EndVars
        BY <1>1, <3>1, <3>3 DEF LookedOn
      <3>4. CASE Terminal(l) /\ snap.retired /\ (~Sound(l) \/ snap.emitted = taken)
        <4>1. Sound(life) => inputFinal
          BY <2>2, <3>2, <3>4, SessionEndsWell
        <4>2. /\ life'.failure = l.failure /\ life'.abort = l.abort
              /\ (life' = l /\ UNCHANGED EndVars) \/ Retired(life')
          BY <1>1, <3>4, TerminalFacts
        <4>3. life'.failure = life.failure /\ life'.abort = life.abort
          BY <1>1, <4>2 DEF Even
        <4> QED
          BY <3>1, <3>3, <4>1, <4>2, <4>3 DEF EndsWell
      <3> QED
        BY <3>1, <3>3, <3>4
    <2> QED
      BY <2>3, <2>4
  <1>5. CASE LookAtCapture
    <2> DEFINE over == l.state = "draining" /\ ~jobs.capture /\ (l.abort \/ inputFinal)
               stalled == l.state = "draining" /\ ~over /\ Overdue(l) /\ ~Held(l)
    <2>1. /\ IF over THEN Terminal(l)
             ELSE life' = (IF stalled THEN FailSession(l) ELSE l) /\ UNCHANGED EndVars
          /\ stall' = IF stalled THEN Patience ELSE stall
      BY <1>2, <1>5 DEF LookAtCapture, l
    <2>2. stalled => ~over
      OBVIOUS
    <2>3. over => l.abort \/ inputFinal
      OBVIOUS
    <2> HIDE DEF over, stalled
    <2>4. CASE stalled
      BY <1>2, <1>3, <2>1, <2>2, <2>4 DEF FoundStalled
    <2>5. CASE ~stalled /\ ~over
      BY <1>1, <2>1, <2>5 DEF LookedOn
    <2>6. CASE ~stalled /\ over
      <3>1. Terminal(l) /\ stall' = stall
        BY <2>1, <2>6
      <3>2. /\ life'.failure = l.failure /\ life'.abort = l.abort
            /\ (life' = l /\ UNCHANGED EndVars) \/ Retired(life')
        BY <1>1, <3>1, TerminalFacts
      <3>3. Sound(life) => inputFinal
        BY <1>1, <2>3, <2>6 DEF Sound, Even
      <3> QED
        BY <1>1, <3>1, <3>2, <3>3 DEF Even, LookedOn, EndsWell
    <2> QED
      BY <2>4, <2>5, <2>6
  <1>6. CASE LookAtNothing
    <2>1. /\ \/ life.state = "draining" /\ Terminal(life)
             \/ life' = life /\ UNCHANGED EndVars
          /\ stall' = stall /\ ~life.capture /\ ~HasSession(life)
      BY <1>2, <1>6 DEF LookAtNothing
    <2>2. CASE life' = life /\ UNCHANGED EndVars
      BY <1>1, <2>1, <2>2 DEF LookedOn
    <2>3. CASE life.state = "draining" /\ Terminal(life)
      <3>1. ~Sound(life)
        BY <2>1, <2>3 DEF Closes, Sound
      <3>2. /\ life'.failure = life.failure /\ life'.abort = life.abort
            /\ (life' = life /\ UNCHANGED EndVars) \/ Retired(life')
        BY <1>0, <2>3, TerminalFacts
      <3> QED
        BY <2>1, <2>2, <3>1, <3>2 DEF EndsWell
    <2> QED
      BY <2>1, <2>2, <2>3
  <1> QED
    BY <1>4, <1>5, <1>6 DEF Looking

LEMMA FinalStays ==
  ASSUME [Next]_vars, ~(\E c \in BOOLEAN : Open(c)), inputFinal PROVE inputFinal'
  <1>1. ASSUME Read \/ Opened \/ NotOpened \/ Status \/ EventsTaken \/ Replies PROVE inputFinal'
    BY <1>1 DEF Read, Opened, NotOpened, Status, EventsTaken, Replies, finalVars
  <1>2. ASSUME Jobs \/ TakeEvent PROVE inputFinal'
    BY <1>2 DEF Jobs, TakeEvent
  <1>3. ASSUME Reconcile \/ ReleaseThrows \/ NextAudio \/ LastStatus \/ Input PROVE inputFinal'
    BY <1>3 DEF Reconcile, ReleaseThrows, NextAudio, LastStatus, Input, finalVars
  <1>4. ASSUME Abandon \/ LookAtSession \/ LookAtCapture \/ LookAtNothing PROVE inputFinal'
    BY <1>4 DEF Abandon, LookAtSession, LookAtCapture, LookAtNothing, LookFrame
  <1>5. ASSUME Nothing \/ Values \/ Refusal \/ Finish \/ Drain \/ Abort PROVE inputFinal'
    BY <1>5 DEF Nothing, Values, Refusal, Finish, Drain, Abort, Closing, finalVars
  <1>6. ASSUME Manage \/ Record \/ Synthesize \/ Stop \/ Report PROVE inputFinal'
    BY <1>6 DEF Manage, Record, Synthesize, Stop, Report, finalVars
  <1>7. ASSUME Around PROVE inputFinal'
    BY <1>7, AroundKeeps DEF AroundKept
  <1>8. ASSUME UNCHANGED vars PROVE inputFinal'
    BY <1>8 DEF vars, finalVars
  <1> QED
    BY <1>1, <1>2, <1>3, <1>4, <1>5, <1>6, <1>7, <1>8 DEF Next, Loop, Control

(* Events are added at the end, and counted.                               *)
Emits == Stop \/ CoreFinal \/ CoreObserve \/ CoreFinish \/ GenRetire \/ CoreFence
SameEvents == events' = events /\ emitted' = emitted
LEMMA EmittedSteps ==
  ASSUME [Next]_vars, ~(\E c \in BOOLEAN : Open(c)), ~TakeEvent, ~Looking
  PROVE  taken' = taken /\ (SameEvents \/ Emits)
  <1> DEFINE Same == taken' = taken /\ SameEvents
  <1>1. ASSUME Read \/ Jobs \/ Opened \/ NotOpened \/ Status \/ EventsTaken \/ Replies PROVE Same
    BY <1>1 DEF Read, Jobs, Opened, NotOpened, Status, EventsTaken, Replies, engineVars, lookVars,
       SameEvents
  <1>2. ASSUME Reconcile \/ ReleaseThrows \/ NextAudio \/ LastStatus \/ Abandon \/ Input PROVE Same
    BY <1>2 DEF Reconcile, ReleaseThrows, NextAudio, LastStatus, Abandon, Input, LookFrame, EndVars,
       engineVars, lookVars, SameEvents
  <1>3. ASSUME Nothing \/ Values \/ Refusal \/ Finish \/ Drain \/ Abort PROVE Same
    BY <1>3 DEF Nothing, Values, Refusal, Finish, Drain, Abort, Closing, engineVars, lookVars,
       SameEvents
  <1>4. ASSUME Manage \/ Record \/ Synthesize \/ Report PROVE Same
    BY <1>4 DEF Manage, Record, Synthesize, Report, engineVars, lookVars, SameEvents
  <1>5. ASSUME Stop PROVE taken' = taken
    BY <1>5 DEF Stop, lookVars
  <1>6. ASSUME Around PROVE taken' = taken
    BY <1>6, AroundKeeps DEF AroundKept
  <1>7. ASSUME NEW op \in Ops, Send(op) PROVE SameEvents
    BY <1>7 DEF Send, engineVars, SameEvents
  <1>8. ASSUME SettingsAnswer \/ SendFrame \/ Strike \/ OpeningEnds \/ JobEnds PROVE SameEvents
    BY <1>8 DEF SettingsAnswer, SendFrame, Strike, OpeningEnds, JobEnds, JobFrame, engineVars,
       SameEvents
  <1>9. ASSUME StorageStart \/ StorageEnd \/ Write \/ WriteFails PROVE SameEvents
    BY <1>9 DEF StorageStart, StorageEnd, StorageFrame, Write, WriteFails, WriterFrame, engineVars,
       SameEvents
  <1>10. ASSUME Generate \/ CoreFault \/ CoreRetire \/ ModelStart \/ ModelEnd PROVE SameEvents
    BY <1>10 DEF Generate, CoreFault, CoreRetire, ModelStart, ModelEnd, engineVars, SameEvents
  <1>11. Around => SameEvents \/ Emits
    BY <1>7, <1>8, <1>9, <1>10 DEF Around, Emits
  <1>12. ASSUME UNCHANGED vars PROVE Same
    BY <1>12 DEF vars, engineVars, lookVars, SameEvents
  <1>13. Stop => Emits
    BY DEF Emits
  <1> QED
    BY <1>1, <1>2, <1>3, <1>4, <1>5, <1>6, <1>11, <1>12, <1>13
       DEF Next, Loop, Control, Looking

LEMMA EmittedEvents ==
  ASSUME Emits
  PROVE  SameEvents \/ \E new : ProperSeq(new) /\ Emit(new)
  <1>1. ASSUME NEW e PROVE ProperSeq(<<e>>)
    BY DEF ProperSeq
  <1>2. ASSUME NEW e, NEW f PROVE ProperSeq(<<e, f>>)
    BY DEF ProperSeq
  <1>3. ProperSeq(<< >>)
    BY DEF ProperSeq
  <1>4. CASE CoreFinal
    <2>1. \/ Emit(<<Event("final", engine.finals + 1), Event("observed", engine.finals + 1)>>)
          \/ Emit(<<Event("final", engine.finals + 1)>>)
      BY <1>4 DEF CoreFinal
    <2> QED
      BY <1>1, <1>2, <2>1
  <1>5. CASE CoreObserve
    <2>1. PICK f : Emit(<<Event("observed", f)>>)
      BY <1>5 DEF CoreObserve
    <2> QED
      BY <1>1, <2>1
  <1>6. CASE CoreFinish \/ GenRetire
    <2>1. Emit(<<Event("finished", 0)>>) \/ Emit(<<Event("ended", 0)>>)
      BY <1>6 DEF CoreFinish, GenRetire
    <2> QED
      BY <1>1, <2>1
  <1>7. CASE Stop \/ CoreFence
    <2>1. SameEvents \/ Emit(CutEvent)
      BY <1>7 DEF Stop, CoreFence, SameEvents
    <2>2. ProperSeq(CutEvent)
      BY <1>1, <1>3 DEF CutEvent
    <2> QED
      BY <2>1, <2>2
  <1> QED
    BY <1>4, <1>5, <1>6, <1>7 DEF Emits

LEMMA SameLength == ASSUME NEW a \in Nat, NEW b \in Nat, 1..a = 1..b PROVE a = b
  <1>1. (a = 0 \/ a \in 1..a) /\ (b = 0 \/ b \in 1..b)
    OBVIOUS
  <1>2. (a = 0 \/ a <= b) /\ (b = 0 \/ b <= a)
    BY <1>1
  <1> QED
    BY <1>2

(* The events that are told and not taken are the ones that wait.          *)
LEMMA TalliedOn ==
  ASSUME LifeInv, FinalsInv, FinalsCounted, Closes, [Next]_vars
  PROVE  taken' \in Nat /\ (~Retired(life') => emitted' = taken' + Len(events'))
  <1>0. /\ taken \in Nat /\ ProperSeq(events) /\ Len(events) \in Nat
        /\ ~Retired(life) => emitted = taken + Len(events)
    BY DEF Closes, FinalsInv, FinalTypes, ProperSeq
  <1>1. CASE \E c \in BOOLEAN : Open(c)
    <2>1. taken' = 0 /\ emitted' = 0 /\ events' = <<>>
      BY <1>1 DEF Open
    <2> QED
      BY <2>1
  <1>2. CASE Looking
    <2>1. taken' = taken /\ emitted' = emitted
      BY <1>2 DEF Looking, LookAtSession, LookAtCapture, LookAtNothing, LookFrame
    <2>2. Retired(life') \/ (~Retired(life) /\ events' = events)
      <3>1. CASE Stays(life, life') /\ UNCHANGED EndVars
        BY <3>1 DEF Stays, EndVars
      <3> QED
        BY <1>2, <3>1, LookEnds
    <2> QED
      BY <1>0, <2>1, <2>2
  <1>3. CASE ~(\E c \in BOOLEAN : Open(c)) /\ ~Looking
    <2>1. Retired(life') \/ ~Retired(life)
      <3>1. CASE Opened
        BY <3>1, OpenedLife
      <3>2. CASE ~Opened
        BY <1>3, <3>2, LifeStays DEF Stays
      <3> QED
        BY <3>1, <3>2
    <2>2. CASE TakeEvent
      <3>1. /\ events' = Tail(events) /\ events # <<>> /\ taken' = taken + 1 /\ emitted' = emitted
        BY <2>2, TakenInOrder
      <3>2. Len(events') = Len(events) - 1 /\ Len(events) \in Nat \ {0}
        <4>1. events \in Seq({events[i] : i \in DOMAIN events})
          BY <1>0 DEF ProperSeq
        <4> QED
          BY <3>1, <4>1
      <3> QED
        BY <1>0, <2>1, <3>1, <3>2
    <2>3. CASE ~TakeEvent
      <3>1. taken' = taken /\ (SameEvents \/ Emits)
        BY <1>3, <2>3, EmittedSteps
      <3>2. CASE SameEvents
        BY <1>0, <2>1, <3>1, <3>2 DEF SameEvents
      <3>3. ASSUME NEW new, ProperSeq(new), Emit(new)
            PROVE  taken' \in Nat /\ (~Retired(life') => emitted' = taken' + Len(events'))
        <4>1. events' = events \o new /\ emitted' = emitted + Len(new)
          BY <3>3 DEF Emit
        <4>2. /\ ProperSeq(events \o new) /\ Len(new) \in Nat
              /\ DOMAIN (events \o new) = 1..(Len(events) + Len(new))
          BY <1>0, <3>3, ConcatFacts
        <4>3. Len(events') = Len(events) + Len(new)
          <5>1. Len(events') \in Nat /\ DOMAIN events' = 1..Len(events')
            BY <4>1, <4>2 DEF ProperSeq
          <5>2. 1..Len(events') = 1..(Len(events) + Len(new))
            BY <4>1, <4>2, <5>1
          <5>3. PICK a \in Nat : a = Len(events')
            BY <5>1
          <5>4. PICK b \in Nat : b = Len(events) + Len(new)
            BY <1>0, <4>2
          <5>5. a = b
            BY <5>2, <5>3, <5>4, SameLength
          <5> QED
            BY <5>3, <5>4, <5>5
        <4> QED
          BY <1>0, <2>1, <3>1, <4>1, <4>2, <4>3
      <3> QED
        BY <3>1, <3>2, <3>3, EmittedEvents
    <2> QED
      BY <2>2, <2>3
  <1> QED
    BY <1>1, <1>2, <1>3

LEMMA StallStays == ASSUME [Next]_vars, ~Looking PROVE stall' = stall
  <1>1. ASSUME Read \/ Jobs \/ Opened \/ NotOpened \/ Status \/ TakeEvent \/ EventsTaken \/ Replies
        PROVE  stall' = stall
    BY <1>1 DEF Read, Jobs, Opened, NotOpened, Status, TakeEvent, EventsTaken, Replies, histVars
  <1>2. ASSUME Reconcile \/ ReleaseThrows \/ NextAudio \/ LastStatus \/ Abandon \/ Input
        PROVE  stall' = stall
    BY <1>2 DEF Reconcile, ReleaseThrows, NextAudio, LastStatus, Abandon, Input, histVars
  <1>3. ASSUME Nothing \/ Values \/ Refusal \/ Finish \/ Drain \/ Abort PROVE stall' = stall
    BY <1>3 DEF Nothing, Values, Refusal, Finish, Drain, Abort, ControlFrame
  <1>4. ASSUME Manage \/ Record \/ Synthesize \/ Stop \/ Report \/ \E c \in BOOLEAN : Open(c)
        PROVE  stall' = stall
    BY <1>4 DEF Manage, Record, Synthesize, Stop, Report, Open, ControlFrame
  <1>5. ASSUME Around PROVE stall' = stall
    BY <1>5, AroundKeeps DEF AroundKept
  <1>6. ASSUME UNCHANGED vars PROVE stall' = stall
    BY <1>6 DEF vars, histVars
  <1> QED
    BY <1>1, <1>2, <1>3, <1>4, <1>5, <1>6 DEF Next, Loop, Control, Looking

(* What the loop looks at is what it has last asked for.                   *)
LEMMA LookIsNew ==
  ASSUME LifeInv, FinalsInv, Closes, [Next]_vars, HasSession(life'), pc' = "look"
  PROVE  snap'.emitted = emitted' /\ snap'.retired = engine'.retired
  <1> DEFINE Same == pc = "look" /\ UNCHANGED <<life, snap, emitted>> /\ engine'.retired = engine.retired
             Else == pc' # "look"
  <1>0. LifeInv' /\ IsEngine(engine)
    BY NextKeepsLife DEF FinalsInv, FinalTypes
  <1>1. CASE LastStatus
    BY <1>1 DEF LastStatus, engineVars
  <1>2. CASE Opened \/ NotOpened
    <2>1. ~HasSession(life') \/ life'.capture
      BY <1>2 DEF Opened, NotOpened, Onward, Throw
    <2> QED
      BY <1>0, <2>1 DEF LifeInv, Shape
  <1>3. ASSUME Read \/ Jobs \/ Status \/ TakeEvent \/ EventsTaken \/ Replies PROVE Else
    BY <1>3 DEF Read, Jobs, Status, TakeEvent, EventsTaken, Replies, loopVars, Throw
  <1>4. ASSUME Reconcile \/ ReleaseThrows \/ NextAudio \/ Abandon \/ Looking \/ Input PROVE Else
    BY <1>4 DEF Reconcile, ReleaseThrows, NextAudio, Abandon, Looking, LookAtSession, LookAtCapture,
       LookAtNothing, Input, loopVars, Throw
  <1>5. ASSUME Nothing \/ Values \/ Refusal \/ Finish \/ Drain \/ Abort PROVE Else
    BY <1>5 DEF Nothing, Values, Refusal, Finish, Drain, Abort, ControlFrame
  <1>6. ASSUME Manage \/ Record \/ Synthesize \/ Stop \/ Report \/ \E c \in BOOLEAN : Open(c)
        PROVE  Else
    BY <1>6 DEF Manage, Record, Synthesize, Stop, Report, Open, ControlFrame
  <1>7. ASSUME Around PROVE Same
    <2>1. AroundKept
      BY <1>7, AroundKeeps
    <2>2. pc = "look"
      BY <2>1 DEF AroundKept
    <2>3. ~Emits /\ ~CoreRetire /\ ~(\E c \in BOOLEAN : Open(c)) /\ ~TakeEvent /\ ~Looking /\ ~Opened
      <3>1. ~CoreRetire /\ ~CoreFinal /\ ~CoreObserve /\ ~CoreFinish /\ ~GenRetire /\ ~CoreFence
        BY <2>2 DEF CoreRetire, CoreFinal, CoreObserve, CoreFinish, GenRetire, CoreFence, CoreRuns,
           Running, Seams
      <3>2. ~Stop /\ ~(\E c \in BOOLEAN : Open(c)) /\ ~TakeEvent /\ ~Opened
        BY <2>2 DEF Stop, Open, TakeEvent, Opened, Taken
      <3>3. ~Looking
        BY <2>1, <2>2 DEF AroundKept, Looking, LookAtSession, LookAtCapture, LookAtNothing
      <3> QED
        BY <3>1, <3>2, <3>3 DEF Emits
    <2>4. SameEvents
      BY <2>3, EmittedSteps
    <2>5. engine'.retired = engine.retired
      BY <1>0, <2>3, EngineTurns DEF TurningPoints
    <2> QED
      BY <2>1, <2>2, <2>4, <2>5 DEF AroundKept, SameEvents
  <1>8. ASSUME UNCHANGED vars PROVE Same
    BY <1>8 DEF vars, loopVars, engineVars, lookVars
  <1>9. Same => snap'.emitted = emitted' /\ snap'.retired = engine'.retired
    BY DEF Closes
  <1> HIDE DEF Same, Else
  <1>10. Same \/ Else \/ LastStatus \/ Opened \/ NotOpened
    BY <1>3, <1>4, <1>5, <1>6, <1>7, <1>8 DEF Next, Loop, Control, Looking
  <1> QED
    BY <1>1, <1>2, <1>9, <1>10 DEF Else

(* An engine that has done its work has said so.                           *)
LEMMA EngineSoundly ==
  ASSUME LifeInv, FinalsInv, Calm, [Next]_vars, HasSession(life'), Sound(life')
  PROVE  \/ ~engine'.done /\ ~engine'.retired /\ life'.core = "running"
         \/ /\ HasSession(life) /\ Sound(life) /\ ~Opened /\ ~(\E c \in BOOLEAN : Open(c))
            /\ (engine' = engine /\ events' = events) \/ ~TurningPoints
  <1>1. CASE Opened
    <2>1. Sound(life)
      BY <1>1, CalmOpened DEF Sound
    <2>2. engine' = [NoEngine EXCEPT !.cutoff = early] /\ life'.core = "running"
      BY <1>1, <2>1, CalmOpened
    <2> QED
      BY <2>2 DEF NoEngine
  <1>2. CASE ~Opened
    <2>1. HasSession(life) /\ Sound(life)
      BY <1>2, SoundStays
    <2>2. ~(\E c \in BOOLEAN : Open(c))
      BY OpenLife
    <2>3. Looking => engine' = engine /\ events' = events
      BY LookEnds DEF EndVars
    <2> QED
      BY <1>2, <2>1, <2>2, <2>3 DEF TurningPoints
  <1> QED
    BY <1>1, <1>2

LEMMA DoneIsSaid ==
  ASSUME LifeInv, FinalsInv, FinalsCounted, Calm, Closes, [Next]_vars,
         HasSession(life'), Sound(life'), engine'.done
  PROVE  inputFinal' \/ EventsOf("finished")' # {}
  <1>0. ProperSeq(events) /\ IsEngine(engine)
    BY DEF FinalsInv, FinalTypes
  <1>1. /\ HasSession(life) /\ Sound(life) /\ ~Opened /\ ~(\E c \in BOOLEAN : Open(c))
        /\ (engine' = engine /\ events' = events) \/ ~TurningPoints
    BY EngineSoundly
  <1>2. inputFinal => inputFinal'
    BY <1>1, FinalStays
  <1>3. ASSUME engine.done, events' = events PROVE inputFinal' \/ EventsOf("finished")' # {}
    BY <1>1, <1>2, <1>3 DEF Closes, EventsOf
  <1>4. CASE CoreFinish
    <2> DEFINE e == Event("finished", 0)
    <2>1. events' = events \o <<e>> /\ e.kind = "finished"
      BY <1>4 DEF CoreFinish, Emit, Event
    <2>2. ProperSeq(<<e>>) /\ Len(<<e>>) = 1 /\ <<e>>[1] = e
      BY DEF ProperSeq
    <2> HIDE DEF e
    <2>3. /\ Len(events) + 1 \in DOMAIN events' /\ events'[Len(events) + 1] = e
      BY <1>0, <2>1, <2>2, ConcatFacts
    <2> QED
      BY <2>1, <2>3 DEF EventsOf
  <1>5. CASE ~TurningPoints /\ ~CoreFinish
    <2>1. engine.done
      BY <1>0, <1>5, EngineTurns
    <2>2. SUFFICES ASSUME ~inputFinal' PROVE EventsOf("finished")' # {}
      OBVIOUS
    <2>3. PICK i \in DOMAIN events : events[i].kind = "finished"
      BY <1>1, <1>2, <2>1, <2>2 DEF Closes, EventsOf
    <2>4. CASE TakeEvent
      <3>1. /\ events' = Tail(events) /\ events # <<>>
            /\ inputFinal' = (inputFinal \/ (Sound(life) /\ events[1].kind = "finished"))
        BY <2>4, TakenInOrder
      <3>2. /\ Len(events) \in Nat \ {0} /\ DOMAIN events = 1..Len(events)
            /\ DOMAIN events' = 1..Len(events) - 1
            /\ \A j \in 1..Len(events) - 1 : events'[j] = events[j + 1]
        BY <1>0, <3>1, TailFacts
      <3>3. i # 1
        BY <1>1, <2>2, <2>3, <3>1
      <3>4. i - 1 \in DOMAIN events' /\ (i - 1) + 1 = i
        BY <2>3, <3>2, <3>3
      <3>5. events'[i - 1].kind = "finished"
        BY <2>3, <3>2, <3>4
      <3> QED
        BY <3>4, <3>5 DEF EventsOf
    <2>5. CASE ~TakeEvent
      <3>1. SameEvents \/ Emits
        BY <1>5, <2>5, EmittedSteps DEF TurningPoints
      <3>2. CASE SameEvents
        BY <1>3, <2>1, <2>2, <3>2 DEF SameEvents
      <3>3. ASSUME NEW new, ProperSeq(new), Emit(new) PROVE EventsOf("finished")' # {}
        <4>1. events' = events \o new
          BY <3>3 DEF Emit
        <4>2. /\ DOMAIN (events \o new) = 1..(Len(events) + Len(new))
              /\ DOMAIN events = 1..Len(events) /\ Len(events) \in Nat /\ Len(new) \in Nat
              /\ \A j \in 1..Len(events) : (events \o new)[j] = events[j]
          BY <1>0, <3>3, ConcatFacts
        <4>3. i \in DOMAIN events' /\ events'[i] = events[i]
          BY <2>3, <4>1, <4>2
        <4> QED
          BY <2>3, <4>3 DEF EventsOf
      <3> QED
        BY <3>1, <3>2, <3>3, EmittedEvents
    <2> QED
      BY <2>4, <2>5
  <1>6. CASE engine' = engine /\ events' = events
    BY <1>3, <1>6
  <1> QED
    BY <1>1, <1>4, <1>5, <1>6

(* An engine retires by itself when it is done.                            *)
LEMMA RetiresDone ==
  ASSUME LifeInv, FinalsInv, Calm, NoTrouble, Closes, [Next]_vars, HasSession(life'), Sound(life'),
         engine'.retired
  PROVE  engine'.done
  <1>0. IsEngine(engine)
    BY DEF FinalsInv, FinalTypes
  <1>1. /\ HasSession(life) /\ Sound(life)
        /\ (engine' = engine /\ events' = events) \/ ~TurningPoints
    BY EngineSoundly
  <1>2. CASE engine' = engine
    BY <1>1, <1>2 DEF Closes
  <1>3. CASE CoreRetire
    <2>1. engine.done
      BY <1>1, <1>3 DEF CoreRetire, Closes, NoTrouble
    <2>2. engine' = [engine EXCEPT !.retired = TRUE]
      BY <1>3 DEF CoreRetire
    <2> QED
      BY <1>0, <2>1, <2>2 DEF IsEngine
  <1>4. CASE ~TurningPoints /\ ~CoreRetire
    <2>1. engine.retired
      BY <1>0, <1>4, EngineTurns
    <2>2. engine.done
      BY <1>1, <2>1 DEF Closes
    <2>3. CoreFinish => ~engine.done
      BY DEF CoreFinish
    <2> QED
      BY <1>0, <1>4, <2>2, <2>3, EngineTurns
  <1> QED
    BY <1>1, <1>2, <1>3, <1>4

(* A session that is not closed by an abort or a failure is not aborted.   *)
LEMMA SoundlyRun ==
  ASSUME LifeInv, FinalsInv, FinalsCounted, EventOrder, Calm, NoTrouble, Closes, [Next]_vars,
         HasSession(life'), Sound(life')
  PROVE  life'.core # "aborting"
  <1>0. LifeInv'
    BY NextKeepsLife
  <1>1. CASE Opened
    BY <1>1, CalmOpened DEF Sound
  <1>2. CASE ~Opened
    <2>1. HasSession(life) /\ Sound(life) /\ life.core # "aborting"
      BY <1>2, SoundStays DEF Closes
    <2>2. CASE ~Shifts
      BY <2>1, <2>2, EvenlyOn DEF Even
    <2>3. CASE Drain \/ Abort
      BY <2>1, <2>3, ClosingSteps DEF Sound
    <2>4. CASE Looking
      <3>1. ~Retired(life')
        BY <1>0 DEF LifeInv, Shape, Retired
      <3> QED
        BY <2>1, <2>4, <3>1, CalmLooks DEF LookedOn, FoundStalled, EndsWell, Even, Sound
    <2>5. ~(\E c \in BOOLEAN : Open(c))
      BY OpenLife
    <2> QED
      BY <1>2, <2>2, <2>3, <2>4, <2>5 DEF Shifts
  <1> QED
    BY <1>1, <1>2

(* A session that is open, or drains with grace, has something to end it.  *)
Graceful == life.state = "open" \/ (life.state = "draining" /\ ~life.abort)
LEMMA GracefulHas ==
  ASSUME LifeInv, FinalsInv, FinalsCounted, EventOrder, Calm, NoTrouble, Closes, [Next]_vars, Graceful'
  PROVE  HasSession(life') \/ life'.capture
  <1>0. LifeInv' /\ life \in LifeType
    BY NextKeepsLife DEF LifeInv, Shape
  <1>1. ASSUME Even(life, life') PROVE HasSession(life') \/ life'.capture
    BY <1>1 DEF Even, Closes, HasSession, Graceful
  <1>2. CASE ~Shifts
    BY <1>1, <1>2, EvenlyOn
  <1>3. CASE Opened
    BY <1>3, OpenedLife
  <1>4. CASE Drain
    BY <1>4, ClosingSteps DEF Closes
  <1>5. CASE Abort
    BY <1>5, ClosingSteps DEF Graceful
  <1>6. CASE Looking
    <2>1. FoundStalled => ~Graceful'
      BY <1>0 DEF FoundStalled, LifeInv, Shape, Graceful
    <2>2. EndsWell => ~Graceful'
      BY DEF EndsWell, Retired, Graceful
    <2> QED
      BY <1>1, <1>6, <2>1, <2>2, CalmLooks DEF LookedOn
  <1>7. ASSUME NEW c \in BOOLEAN, Open(c) PROVE HasSession(life') \/ life'.capture
    <2>1. life' = [life EXCEPT !.state = IF c THEN "open" ELSE "opening",
                          !.session = life.session + 1, !.capture = c, !.abort = FALSE,
                          !.failure = "none", !.waiting = ~c, !.live = TRUE]
      BY <1>7 DEF Open
    <2> DEFINE s == IF c THEN "open" ELSE "opening"
    <2>2. s \in {"open", "opening"} /\ (s = "open" => c)
      OBVIOUS
    <2> HIDE DEF s
    <2>3. life' = [life EXCEPT !.state = s, !.session = life.session + 1, !.capture = c,
                     !.abort = FALSE, !.failure = "none", !.waiting = ~c, !.live = TRUE]
      BY <2>1 DEF s
    <2>4. life'.state = s /\ life'.capture = c
      BY <1>0, <2>3 DEF LifeType
    <2> QED
      BY <2>2, <2>4 DEF Graceful
  <1> QED
    BY <1>2, <1>3, <1>4, <1>5, <1>6, <1>7 DEF Shifts

(* The end of input that comes after the end of a session was due.         *)
LEMMA LateEndIsDue ==
  ASSUME LifeInv, FinalsInv, FinalsCounted, EventOrder, Calm, NoTrouble, Closes, [Next]_vars,
         frame' = "end", Retired(life'), Sound(life')
  PROVE  inputFinal'
  <1>1. ~(\E c \in BOOLEAN : Open(c)) /\ ~Opened
    BY OpenLife, OpenedLife
  <1>2. ~Drain /\ ~Abort
    BY ClosingSteps DEF Retired
  <1>3. inputFinal => inputFinal'
    BY <1>1, FinalStays
  <1>4. ASSUME Even(life, life') PROVE inputFinal'
    <2>1. Retired(life) /\ Sound(life)
      BY <1>4 DEF Even, Retired, Sound
    <2>2. ~SendFrame /\ ~Strike /\ ~WriteFails
      BY <2>1 DEF SendFrame, Strike, WriteFails, Calm
    <2>3. frame = "end"
      BY <2>2, FaultSteps
    <2> QED
      BY <1>3, <2>1, <2>3 DEF Closes
  <1>5. CASE ~Shifts
    BY <1>4, <1>5, EvenlyOn
  <1>6. CASE Looking
    <2>1. ~FoundStalled
      BY DEF FoundStalled, Sound
    <2>2. EndsWell => inputFinal
      BY DEF EndsWell, Sound
    <2> QED
      BY <1>3, <1>4, <1>6, <2>1, <2>2, CalmLooks DEF LookedOn
  <1> QED
    BY <1>1, <1>2, <1>5, <1>6 DEF Shifts

(* The worker fails only when a drain has stalled.                         *)
LEMMA FailsStalled ==
  ASSUME LifeInv, FinalsInv, FinalsCounted, EventOrder, Calm, NoTrouble, Closes, [Next]_vars,
         stall = "none" => life.failure = "none", stall' = "none"
  PROVE  life'.failure = "none"
  <1>1. CASE Looking
    BY <1>1, CalmLooks DEF LookedOn, FoundStalled, EndsWell, Even
  <1>2. CASE ~Looking
    <2>1. stall = "none" /\ life.failure = "none"
      BY <1>2, StallStays
    <2>2. CASE \E c \in BOOLEAN : Open(c)
      <3>1. PICK c \in BOOLEAN : Open(c)
        BY <2>2
      <3>2. life' = [life EXCEPT !.state = IF c THEN "open" ELSE "opening",
                          !.session = life.session + 1, !.capture = c, !.abort = FALSE,
                          !.failure = "none", !.waiting = ~c, !.live = TRUE]
        BY <3>1 DEF Open
      <3> QED
        BY <3>2 DEF LifeInv, Shape, LifeType
    <2>3. CASE Opened
      BY <2>1, <2>3, CalmOpened
    <2>4. CASE Drain \/ Abort
      BY <2>1, <2>4, ClosingSteps
    <2>5. CASE ~Shifts
      BY <2>1, <2>5, EvenlyOn DEF Even
    <2> QED
      BY <1>2, <2>2, <2>3, <2>4, <2>5 DEF Shifts
  <1> QED
    BY <1>1, <1>2

LEMMA NextKeepsCalm ==
  ASSUME IInv, ReportsInv, FinalsCounted, CalmInv, [Next]_vars
  PROVE  FinalsCounted' /\ CalmInv'
  <1>1. LifeInv /\ OwedInv /\ FinalsInv /\ ReplyInv /\ EventOrder
    BY DEF IInv, ReportsInv, ReplyOrder
  <1>2. FinalsCounted'
    BY <1>1, NextKeepsCount
  <1>3. SUFFICES ASSUME Calm' PROVE NoTrouble' /\ Closes' /\ (stall' = "none" => life'.failure = "none")
    BY <1>2 DEF CalmInv
  <1>4. Calm
    BY <1>3, ScriptStays DEF Calm
  <1>5. NoTrouble /\ Closes /\ (stall = "none" => life.failure = "none")
    BY <1>4 DEF CalmInv
  <1>6. NoTrouble'
    BY <1>1, <1>4, <1>5, NextKeepsNoTrouble
  <1>7. stall' = "none" => life'.failure = "none"
    BY <1>1, <1>4, <1>5, FailsStalled
  <1>8. taken' \in Nat /\ (~Retired(life') => emitted' = taken' + Len(events'))
    BY <1>1, <1>5, TalliedOn
  <1>9. HasSession(life') /\ Sound(life') /\ engine'.done => inputFinal' \/ EventsOf("finished")' # {}
    BY <1>1, <1>4, <1>5, DoneIsSaid
  <1>10. HasSession(life') /\ Sound(life') /\ engine'.retired => engine'.done
    BY <1>1, <1>4, <1>5, RetiresDone
  <1>11. HasSession(life') /\ Sound(life') => life'.core # "aborting"
    BY <1>1, <1>4, <1>5, SoundlyRun
  <1>12. HasSession(life') /\ pc' = "look" => snap'.emitted = emitted' /\ snap'.retired = engine'.retired
    BY <1>1, <1>5, LookIsNew
  <1>13. Graceful' => HasSession(life') \/ life'.capture
    BY <1>1, <1>4, <1>5, GracefulHas
  <1>14. frame' = "end" /\ Retired(life') /\ Sound(life') => inputFinal'
    BY <1>1, <1>4, <1>5, LateEndIsDue
  <1>15. Closes'
    BY <1>8, <1>9, <1>10, <1>11, <1>12, <1>13, <1>14 DEF Closes, Graceful
  <1> QED
    BY <1>6, <1>7, <1>15

LEMMA InitCalm == Init => FinalsCounted /\ CalmInv
  <1> SUFFICES ASSUME Init PROVE FinalsCounted /\ CalmInv
    OBVIOUS
  <1>1. /\ faults = {} /\ frame = "none" /\ opening = "none" /\ ready = {} /\ task = NoTask
        /\ engine = NoEngine /\ hand = NoLine /\ queue = <<>> /\ pc = "read" /\ events = <<>>
        /\ taken = 0 /\ emitted = 0
        /\ life.state = "closed" /\ life.core = "none" /\ life.failure = "none"
    BY DEF Init
  <1>2. FinalsCounted
    BY <1>1 DEF FinalsCounted, HasSession
  <1>3. NoTrouble
    BY <1>1 DEF NoTrouble, NoTask, NoEngine, NoLine
  <1>4. Closes
    BY <1>1 DEF Closes, HasSession, Retired
  <1> QED
    BY <1>1, <1>2, <1>3, <1>4 DEF CalmInv

(* The worker takes nothing ordinary for a failure: it gives a drain up    *)
(* only after its whole time without work, refuses no true report that it  *)
(* judges but the end of a reply the engine has just cut, and, when        *)
(* nothing goes wrong around it, fails only when a drain has stalled.  For *)
(* the last: the speakers the engine owes are counted, so no final finds   *)
(* the worker's table full and no observation comes for a row that does    *)
(* not wait; a reply is released when its events have been taken; and a    *)
(* session that ends in order has had its end of input.                    *)
THEOREM NoFalseAlarmHolds == Spec => []NoFalseAlarm
  <1>1. Init => TimedInv /\ ReportsInv /\ FinalsCounted /\ CalmInv
    BY InitTime, InitReports, InitCalm
  <1>2. /\ IInv /\ TimedInv /\ ReportsInv /\ FinalsCounted /\ CalmInv /\ [Next]_vars
        => TimedInv' /\ ReportsInv' /\ FinalsCounted' /\ CalmInv'
    BY NextKeepsTime, NextKeepsReports, NextKeepsCalm
  <1>3. TimedInv /\ ReportsInv /\ CalmInv => NoFalseAlarm
    BY DEF TimedInv, ReportsInv, CalmInv, Calm, NoFalseAlarm, DrainNotCutShort,
       OnlyOvertakenRefused, NoFailureOfItsOwn
  <1> QED
    BY <1>1, <1>2, <1>3, Invariance, PTL DEF Spec

=============================================================================
