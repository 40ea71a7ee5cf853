------------------------------- MODULE Worker -------------------------------
(***************************************************************************)
(* The worker process (runtime/native/session/worker.cpp, attribution.h,   *)
(* drain_hold.h): one loop that takes the carrier's control lines, looks   *)
(* after the session and its engine, and ends both.                        *)
(*                                                                         *)
(* Around the loop run, on their own: the session engine (modules          *)
(* SessionOutput, Turns and SessionInput say how; here it is what the loop *)
(* can see of it), the thread that writes audio, and the futures of an     *)
(* opening, an enrollment operation, a capture and a publication.  The     *)
(* loop is cut into the steps between which they may run.                  *)
(*                                                                         *)
(* A pass of the loop takes a tick.  The two deadlines that something      *)
(* depends on, of a closing session and of the process, count the ticks    *)
(* that are left; the others may pass at any look.  Audio is counted in    *)
(* frames of the pipe.                                                     *)
(* Every session here has an input; a session has at most one reply, the   *)
(* host ends its reports of it once, and there is audio to be recorded.    *)
(***************************************************************************)
EXTENDS Integers, Sequences, FiniteSets

CONSTANTS
    Scripts,         \* what may happen around the worker in one behaviour: what
                     \* each request may be, how many finals, frames of a reply
                     \* and pieces of work there are, and the troubles
    MaxRequests, MaxFinals,  \* bounds over all scripts
    SpeakerCapacity, \* finals that wait for the engine's speaker thread (8)
    PendingCapacity, \* finals that may await their speaker (10)
    ReportBacklog,   \* playback reports that may be held (64)
    DrainIdle, CaptureClose, AbortTime, RetireTime  \* ticks

ASSUME ScriptsAssumption ==
    \A s \in Scripts :
        /\ Len(s.ops) \in 0..MaxRequests /\ s.finals \in 0..MaxFinals
        /\ {s.frames, s.works} \subseteq Nat
ASSUME CapacityAssumption ==
    /\ {MaxRequests, MaxFinals, SpeakerCapacity, ReportBacklog} \subseteq Nat
    /\ PendingCapacity = SpeakerCapacity + 2
ASSUME TimeAssumption == {DrainIdle, CaptureClose, AbortTime, RetireTime} \subseteq Nat

VARIABLES
    script,
    pc, hand, lost,         \* the loop; the line it has taken; lines it dropped
    queue, asked, asking, answers,   \* lines not taken; requests sent; sessions
                            \* whose settings are owed; replies sent
    life, early,            \* the session and the process; early_finish_
    opening, admitted, jobs, ready,  \* futures
    rows, said, inputFinal, \* attribution: final -> its state, what was said
    reply, task, held, host, refusals,  \* the session's reply
    engine, events, emitted,  \* the engine
    taken, snap, seen,      \* what the loop has seen of it
    storage, quiet,         \* the storage bridge; ticks without work in a drain
    faults, frame,          \* what has struck; a frame of input
    ends, stall             \* history

loopVars   == <<pc, hand, lost>>
lineVars   == <<queue, asked, asking, answers>>
jobVars    == <<opening, admitted, jobs, ready>>
finalVars  == <<rows, said, inputFinal>>
replyVars  == <<reply, task, held, host, refusals>>
engineVars == <<engine, events, emitted>>
lookVars   == <<taken, snap, seen>>
envVars    == <<storage, quiet, faults, frame>>
histVars   == <<ends, stall>>
vars == <<script, loopVars, lineVars, life, early, jobVars, finalVars, replyVars,
          engineVars, lookVars, envVars, histVars>>

Requests == 1..MaxRequests
Finals == 1..MaxFinals
None == 0
NoLine == [id |-> None, op |-> "none", session |-> 0, n |-> 0, terminal |-> FALSE]
NoReply ==
    [state |-> "none", delivered |-> 0, rendered |-> 0, ended |-> FALSE,
     fenced |-> FALSE, receipt |-> FALSE, madeSeen |-> 0, retiredSeen |-> FALSE,
     endSaid |-> FALSE, eventSeen |-> FALSE,                   \* the worker's
     made |-> 0, given |-> 0, cut |-> FALSE, retired |-> FALSE, endGiven |-> FALSE]
NoTask == [state |-> "none", frames |-> 0, end |-> FALSE, written |-> 0,
           endWritten |-> FALSE]
ReplyEvents == {"ended", "cut"}
NoHost == [said |-> 0, terminal |-> FALSE]
NoEngine == [cutoff |-> FALSE, done |-> FALSE, error |-> FALSE, retired |-> FALSE,
             owed |-> {}, finals |-> 0, busy |-> FALSE, calls |-> 0]
NoSnap == [cutoff |-> FALSE, retired |-> FALSE, emitted |-> 0, busy |-> FALSE,
           calls |-> 0]
NoJobs == [enroll |-> None, publish |-> None, capture |-> FALSE, uses |-> FALSE]

Init ==
    /\ script \in Scripts
    /\ pc = "read" /\ hand = NoLine /\ lost = {}
    /\ queue = <<>> /\ asked = 0 /\ asking = {}
    /\ answers = [r \in Requests |-> 0]
    /\ life = [state |-> "closed", session |-> 0, capture |-> FALSE, abort |-> FALSE,
               failure |-> "none", quit |-> FALSE, waiting |-> FALSE,
               closing |-> 0, exit |-> 0, live |-> FALSE, core |-> "none"]
    /\ early = FALSE
    /\ opening = "none" /\ admitted = FALSE /\ jobs = NoJobs /\ ready = {}
    /\ rows = [f \in Finals |-> "none"] /\ said = [f \in Finals |-> 0]
    /\ inputFinal = FALSE
    /\ reply = NoReply /\ task = NoTask /\ held = <<>> /\ host = NoHost
    /\ refusals = {}
    /\ engine = NoEngine /\ events = <<>> /\ emitted = 0 /\ taken = 0
    /\ snap = NoSnap /\ seen = [storage |-> 0, calls |-> 0, events |-> 0]
    /\ storage = [owner |-> "none", done |-> 0] /\ quiet = 0
    /\ faults = {} /\ frame = "none" /\ ends = 0 /\ stall = "none"

----------------------------------------------------------------------------
(* What the code does to the life of the session and of the process.       *)
(* state is lifecycle_; failure is failure_ with failure_contained_; core  *)
(* says whether there is a session_ and how it was closed; live is the     *)
(* storage bridge's; closing and exit are the deadlines' ticks left.       *)
Retired(l) == l.state \in {"closed", "failed"}
Draining(l) == l.state = "draining" /\ ~l.abort
HasSession(l) == l.core # "none"
Closed(c) == IF c = "none" THEN c ELSE "aborting"

(* begin_retiring                                                          *)
Quit(l) == IF l.quit THEN l ELSE [l EXCEPT !.quit = TRUE, !.exit = RetireTime]
(* The session drains without grace.                                       *)
Aborting(l, time) ==
    [l EXCEPT !.state = "draining", !.abort = TRUE, !.waiting = FALSE,
              !.closing = time, !.core = Closed(l.core)]
Fail(l) ==
    LET failed == [l EXCEPT !.failure = "failed", !.live = FALSE] IN
    IF l.failure # "none" THEN l
    ELSE IF Retired(l) THEN failed
    ELSE Aborting(failed, IF l.abort /\ l.state = "draining" THEN l.closing
                          ELSE AbortTime)
FailSession(l) ==
    IF l.failure # "none" THEN l ELSE [Fail(l) EXCEPT !.failure = "contained"]
FailEngine(l) ==
    LET q == Quit(l) IN
    IF q.failure = "contained" THEN [q EXCEPT !.failure = "failed"] ELSE Fail(q)
(* The carrier closed its end.                                             *)
AtEof(l) ==
    LET q == [Quit(l) EXCEPT !.live = FALSE] IN
    IF Retired(q) THEN q ELSE Aborting(q, q.exit)
AdvanceDrain(l) ==
    IF Draining(l) /\ HasSession(l) THEN [l EXCEPT !.closing = DrainIdle] ELSE l
Sound(l) == ~l.abort /\ l.failure = "none"

(* Whether an enrollment capture or an engine may be spoken to.            *)
InSession == life.state \in {"open", "draining"} /\ (HasSession(life) \/ life.capture)

(* Lines answered now.                                                     *)
Answer(ids) == answers' = [r \in Requests |-> answers[r] + (IF r \in ids THEN 1 ELSE 0)]

(* A step of the loop throws: the engine has failed, and the line in hand  *)
(* is dropped with the rest of the pass.                                   *)
Throw(l) ==
    /\ life' = FailEngine(l)
    /\ lost' = lost \cup ({hand.id} \ {None})
    /\ hand' = NoLine /\ pc' = "read"

----------------------------------------------------------------------------
(* The loop, from the top of a pass.                                       *)
Read ==
    /\ pc = "read"
    /\ LET ended == IF "eof" \in faults /\ queue = <<>> /\ ~life.quit
                    THEN AtEof(life) ELSE life
           broken == IF "transport" \in faults THEN FailEngine(ended) ELSE ended
       IN life' = IF "audio_eof" \in faults /\ ~broken.quit /\ ~Retired(broken)
                  THEN Fail(broken) ELSE broken
    /\ hand' = IF queue = <<>> THEN NoLine ELSE Head(queue)
    /\ queue' = IF queue = <<>> THEN queue ELSE Tail(queue)
    /\ pc' = "jobs"
    /\ UNCHANGED <<script, lost, asked, asking, answers, early, jobVars, finalVars,
                   replyVars, engineVars, lookVars, envVars, histVars>>

(* pump: the futures that have ended, and the finals whose speaker has     *)
(* not been named in time (Attributions::expire).                          *)
Pending == {f \in Finals : rows[f] = "pending"}
Expire(late) ==
    /\ rows' = [f \in Finals |-> IF f \in late THEN "late" ELSE rows[f]]
    /\ said' = [f \in Finals |-> said[f] + (IF f \in late THEN 1 ELSE 0)]
Jobs ==
    /\ pc = "jobs"
    /\ Answer({jobs[j] : j \in ready \cap {"enroll", "publish"}})
    /\ \E k \in 0..MaxFinals :
         LET late == {f \in Pending : f <= k} IN
         /\ k \in Pending \cup {0}
         /\ Expire(IF Sound(life) THEN late ELSE {})
    /\ inputFinal' = (inputFinal \/ (ready \cap {"kept"} # {} /\ ~life.abort))
    /\ life' = IF "broken" \in ready /\ ~life.abort THEN Fail(life) ELSE life
    /\ jobs' = [enroll |-> IF "enroll" \in ready THEN None ELSE jobs.enroll,
                publish |-> IF "publish" \in ready THEN None ELSE jobs.publish,
                capture |-> jobs.capture /\ ready \cap {"kept", "broken"} = {},
                uses |-> jobs.uses /\ "enroll" \notin ready]
    /\ ready' = {}
    /\ pc' = "opening"
    /\ UNCHANGED <<script, hand, lost, queue, asked, asking, early, opening, admitted,
                   replyVars, engineVars, lookVars, envVars, histVars>>

(* pump: the opening.  An open that throws anything but a refusal leaves   *)
(* the pass.                                                               *)
Onward(l) ==
    \E late \in IF l.waiting /\ "deadline" \in script.faults THEN BOOLEAN ELSE {FALSE} :
        /\ life' = IF late THEN FailSession(l) ELSE l
        /\ pc' = IF life'.capture \/ ~HasSession(life') THEN "look" ELSE "status"
        /\ UNCHANGED <<hand, lost>>
Opened ==
    /\ pc = "opening" /\ opening = "opened"
    /\ opening' = "none"
    /\ IF Sound(life)
       THEN /\ Onward([life EXCEPT !.core = "running", !.state = "open"])
            /\ engine' = [NoEngine EXCEPT !.cutoff = early]
            /\ snap' = [NoSnap EXCEPT !.cutoff = early]
            /\ early' = FALSE
       ELSE /\ Onward([life EXCEPT !.core = "aborting"])
            /\ UNCHANGED <<engine, snap, early>>
    /\ UNCHANGED <<script, lineVars, admitted, jobs, ready, finalVars, replyVars,
                   events, emitted, taken, seen, envVars, histVars>>
NotOpened ==
    /\ pc = "opening" /\ opening # "opened"
    /\ opening' = IF opening = "running" THEN opening ELSE "none"
    /\ CASE opening = "broken" -> Throw(life)
         [] opening = "refused" -> Onward(FailSession(life))
         [] OTHER -> Onward(life)
    /\ UNCHANGED <<script, lineVars, early, admitted, jobs, ready, finalVars,
                   replyVars, engineVars, lookVars, envVars, histVars>>

(* pump: the first status, and what the audio thread has written.          *)
Status ==
    /\ pc = "status"
    /\ LET l == IF engine.error THEN FailEngine(life) ELSE life
           wrote == task.state \in {"done", "failed"}
           moved == wrote /\ (task.written > 0 \/ task.endWritten)
           l1 == IF moved THEN AdvanceDrain(l) ELSE l
       IN
       /\ life' = IF task.state = "failed" THEN Fail(l1) ELSE l1
       /\ reply' = IF ~wrote THEN reply
                   ELSE [reply EXCEPT !.ended = @ \/ task.endWritten,
                                      !.delivered = @ + task.written]
       /\ task' = IF wrote THEN NoTask ELSE task
    /\ pc' = "events"
    /\ UNCHANGED <<script, hand, lost, lineVars, early, jobVars, finalVars, held, host,
                   refusals, engineVars, lookVars, envVars, histVars>>

----------------------------------------------------------------------------
(* pump: the engine's events.  A final text opens a row of attribution,    *)
(* pending; its row is late when the worker has answered for the speaker   *)
(* itself, and over when the engine's own observation has come.            *)

(* Rows whose observation the engine still owes (Row::awaiting).           *)
Awaiting == {f \in Finals : rows[f] \in {"pending", "late"}}
(* Mutant: a row the worker has closed itself takes no observation.        *)
ResolveOnce(f) == rows[f] = "pending"
(* Attributions::resolve accepts the engine's observation.                 *)
Resolvable(f) == rows[f] \in {"pending", "late"}

TakeEvent ==
    /\ pc = "events" /\ events # <<>>
    /\ LET e == Head(events)
           refused == Sound(life) /\
               \/ e.kind = "final" /\ Cardinality(Awaiting) >= PendingCapacity
               \/ e.kind = "observed" /\ ~Resolvable(e.final)
           heeded(kind) == Sound(life) /\ ~refused /\ e.kind = kind
       IN
       /\ rows' = IF heeded("final") THEN [rows EXCEPT ![e.final] = "pending"]
                  ELSE IF heeded("observed") THEN [rows EXCEPT ![e.final] = "over"]
                  ELSE rows
       /\ said' = IF heeded("observed") /\ rows[e.final] = "pending"
                  THEN [said EXCEPT ![e.final] = @ + 1] ELSE said
       /\ inputFinal' = (inputFinal \/ heeded("finished"))
       /\ reply' = [reply EXCEPT !.eventSeen = @ \/ heeded("ended"),
                                 !.fenced = @ \/ heeded("cut")]
       /\ IF refused THEN Throw(life) ELSE UNCHANGED <<life, loopVars>>
    /\ events' = Tail(events) /\ taken' = taken + 1
    /\ UNCHANGED <<script, lineVars, early, jobVars, task, held, host, refusals,
                   engine, emitted, snap, seen, envVars, histVars>>
EventsTaken ==
    /\ pc = "events" /\ events = <<>>
    /\ pc' = "replies"
    /\ UNCHANGED <<script, hand, lost, lineVars, life, early, jobVars, finalVars,
                   replyVars, engineVars, lookVars, envVars, histVars>>

(* pump: the replies.                                                      *)
Fenced == reply.fenced \/ life.abort
Replies ==
    /\ pc = "replies"
    /\ life' = IF reply.made > reply.madeSeen \/ (reply.retired /\ ~reply.retiredSeen)
               THEN AdvanceDrain(life) ELSE life
    /\ reply' = [reply EXCEPT !.madeSeen = reply.made, !.retiredSeen = reply.retired,
                              !.fenced = @ \/ reply.cut,
                              !.endSaid = @ \/ (reply.ended /\ reply.retired /\ Sound(life))]
    /\ pc' = "reconcile"
    /\ UNCHANGED <<script, hand, lost, lineVars, early, jobVars, finalVars, task, held,
                   host, refusals, engineVars, lookVars, envVars, histVars>>

(* A playback report that can be judged now: what the worker asks of it,   *)
(* and what Session::playback asks of its end.                             *)
Believable(r) ==
    /\ reply.rendered <= r.n /\ r.n <= reply.delivered
    /\ reply.receipt => r.terminal /\ r.n = reply.rendered
    /\ r.terminal => Fenced \/ reply.ended
EngineAgrees(r) ==
    r.terminal => IF Fenced THEN reply.cut \/ life.abort
                  ELSE ~reply.cut /\ reply.retired /\ reply.endGiven
(* The worker takes it for the natural end, and the engine has cut the     *)
(* reply since the worker last looked: the session then refuses what is    *)
(* true, and the worker answers with that error (worker.cpp:1447).         *)
Overtaken(r) == Believable(r) /\ r.terminal /\ ~Fenced /\ reply.cut
(* A report that is refused changes nothing; refusals keeps why.           *)
JudgeReport(r) ==
    /\ Answer({r.id})
    /\ IF Believable(r) /\ EngineAgrees(r)
       THEN /\ reply' = [reply EXCEPT !.rendered = r.n, !.receipt = r.terminal]
            /\ life' = IF ~reply.receipt /\ (r.n # reply.rendered \/ r.terminal)
                       THEN AdvanceDrain(life) ELSE life
            /\ UNCHANGED refusals
       ELSE /\ refusals' = refusals \cup {IF Overtaken(r) THEN "overtaken" ELSE "impossible"}
            /\ UNCHANGED <<reply, life>>

(* Mutant: what was held is forgotten when the session is aborted.         *)
MayReconcileSound == held # <<>> /\ task.state = "none" /\ ~life.abort
MayReconcile == held # <<>> /\ task.state = "none"
Reconcile ==
    /\ pc = "reconcile" /\ MayReconcile
    /\ JudgeReport(Head(held))
    /\ held' = Tail(held)
    /\ UNCHANGED <<script, loopVars, queue, asked, asking, early, jobVars, finalVars,
                   task, host, engineVars, lookVars, envVars, histVars>>

(* pump: a settled reply is released, and the next audio is taken.         *)
Settled(r) ==
    /\ r.state = "live" /\ r.ended /\ r.receipt /\ r.retiredSeen /\ r.endSaid
    /\ r.eventSeen
(* Session::release_generation refuses while an event of the reply waits.  *)
Unreleasable == Settled(reply) /\ \E i \in 1..Len(events) : events[i].kind \in ReplyEvents
ReleaseThrows ==
    /\ pc = "reconcile" /\ ~MayReconcile /\ Unreleasable
    /\ Throw(life)
    /\ UNCHANGED <<script, lineVars, early, jobVars, finalVars, replyVars, engineVars,
                   lookVars, envVars, histVars>>
NextAudio ==
    /\ pc = "reconcile" /\ ~MayReconcile /\ ~Unreleasable
    /\ LET r == IF Settled(reply) THEN [reply EXCEPT !.state = "settled"] ELSE reply
           may == task.state = "none" /\ Sound(life) /\ r.state = "live" /\ ~engine.error
       IN
       IF may /\ r.made > r.given
       THEN \E n \in 1..(r.made - r.given) :
              /\ task' = [NoTask EXCEPT !.state = "queued", !.frames = n]
              /\ reply' = [r EXCEPT !.given = @ + n]
       ELSE IF may /\ r.retired /\ ~r.endGiven
       THEN /\ task' = [NoTask EXCEPT !.state = "queued", !.end = TRUE]
            /\ reply' = [r EXCEPT !.endGiven = TRUE]
       ELSE reply' = r /\ UNCHANGED task
    /\ pc' = "last"
    /\ UNCHANGED <<script, hand, lost, lineVars, life, early, jobVars, finalVars, held,
                   host, refusals, engineVars, lookVars, envVars, histVars>>

(* pump: the last status of the pass.                                      *)
LastStatus ==
    /\ pc = "last"
    /\ snap' = [cutoff |-> engine.cutoff, retired |-> engine.retired,
                emitted |-> emitted, busy |-> engine.busy, calls |-> engine.calls]
    /\ LET l == IF engine.error THEN FailEngine(life) ELSE life IN
       life' = IF emitted > seen.events THEN AdvanceDrain(l) ELSE l
    /\ seen' = [seen EXCEPT !.events = emitted]
    /\ pc' = "look"
    /\ UNCHANGED <<script, hand, lost, lineVars, early, jobVars, finalVars, replyVars,
                   engineVars, taken, envVars, histVars>>

----------------------------------------------------------------------------
(* terminal, and the looks at the deadline that lead to it.                *)

(* Mutant: the session ends while a future is under way.                   *)
FinishedEarly == TRUE
Finished == jobs = NoJobs
EndVars == <<rows, said, admitted, engine, events, ends>>
Terminal(l) ==
    IF Retired(l) \/ ~Finished
    THEN life' = l /\ UNCHANGED EndVars
    ELSE /\ life' = [l EXCEPT !.state = IF l.failure = "none" THEN "closed" ELSE "failed",
                              !.core = "none", !.live = FALSE]
         /\ rows' = [f \in Finals |-> IF f \in Pending THEN "late" ELSE rows[f]]
         /\ said' = [f \in Finals |->
                       said[f] + (IF f \in Pending /\ l.failure = "none" THEN 1 ELSE 0)]
         /\ admitted' = FALSE
         /\ engine' = NoEngine /\ events' = <<>>
         /\ ends' = ends + 1

(* Mutant: work that ended gives the drain no time.                        *)
WorkEndedUnseen == FALSE
(* DrainHold::look                                                         *)
WorkEnded == storage.done # seen.storage \/ snap.calls # seen.calls
Rearmed(l) ==
    IF Draining(l) /\ WorkEnded /\ l.closing < DrainIdle
    THEN [l EXCEPT !.closing = DrainIdle] ELSE l
Held(l) ==
    Draining(l) /\ (storage.owner # "none" \/ snap.busy \/ task.state # "none")
Overdue(l) == l.closing < 0
(* How long a drain that is given up has waited without work: no less than *)
(* its time, which for a capture is that of its close, if that is shorter. *)
Grace(l) == IF l.capture /\ CaptureClose < DrainIdle THEN CaptureClose ELSE DrainIdle
Patience == IF quiet > Grace(life) THEN "idle" ELSE "early"
(* Mutant: an aborted session that does not end is waited for.             *)
AbandonsNever(l) == FALSE
(* end_unretired, of an abort that has taken too long.                     *)
Abandons(l) ==
    /\ l.state = "draining" /\ l.abort /\ Overdue(l)
    /\ IF l.capture THEN jobs.capture
       ELSE IF ~HasSession(l) THEN opening # "none"
       ELSE jobs.publish = None /\ (~snap.retired \/ task.state # "none")

LookFrame ==
    UNCHANGED <<script, hand, lost, lineVars, early, opening, jobs, ready, inputFinal,
                replyVars, emitted, taken, snap, envVars>>
Abandon ==
    /\ pc = "look" /\ Abandons(Rearmed(life))
    /\ pc' = "abandoned"
    /\ UNCHANGED <<life, EndVars, seen, stall>>
    /\ LookFrame
Looked == seen' = [seen EXCEPT !.storage = storage.done, !.calls = snap.calls]
(* A drain that has made no progress fails; a session whose engine has     *)
(* retired ends once its events are taken, or they no longer matter.       *)
LookAtSession ==
    /\ pc = "look" /\ HasSession(life) /\ ~Abandons(Rearmed(life))
    /\ LET l == Rearmed(life)
           stalled == Draining(l) /\ Overdue(l) /\ jobs.publish = None /\ ~Held(l)
           failed == IF stalled THEN Fail(l) ELSE l
       IN
       /\ IF snap.retired /\ task.state = "none" /\ (~Sound(failed) \/ snap.emitted = taken)
          THEN Terminal(failed)
          ELSE life' = failed /\ UNCHANGED EndVars
       /\ stall' = IF stalled THEN Patience ELSE stall
    /\ Looked /\ pc' = "control"
    /\ LookFrame
LookAtCapture ==
    /\ pc = "look" /\ life.capture /\ ~Abandons(Rearmed(life))
    /\ \E late \in IF "deadline" \in script.faults THEN BOOLEAN ELSE {FALSE} :
         LET tail == IF late /\ ~life.abort /\ snap.cutoff /\ ~jobs.capture /\ ~inputFinal
                     THEN FailSession(life) ELSE life
             l == Rearmed(tail)
             over == l.state = "draining" /\ ~jobs.capture /\ (l.abort \/ inputFinal)
             stalled == l.state = "draining" /\ ~over /\ Overdue(l) /\ ~Held(l)
         IN
         /\ IF over THEN Terminal(l)
            ELSE life' = (IF stalled THEN FailSession(l) ELSE l) /\ UNCHANGED EndVars
         /\ stall' = IF stalled THEN Patience ELSE stall
    /\ Looked /\ pc' = "control"
    /\ LookFrame
LookAtNothing ==
    /\ pc = "look" /\ ~life.capture /\ ~HasSession(life) /\ ~Abandons(life)
    /\ \E late \in IF "deadline" \in script.faults THEN BOOLEAN ELSE {FALSE} :
         IF life.state = "draining" /\ opening = "none" THEN Terminal(life)
         ELSE /\ life' = IF life.state = "opening" /\ opening # "none" /\ late
                         THEN Fail(life) ELSE life
              /\ UNCHANGED EndVars
    /\ pc' = "control"
    /\ UNCHANGED <<seen, stall>>
    /\ LookFrame

----------------------------------------------------------------------------
(* The control line.                                                       *)
ControlFrame == pc' = "input" /\ UNCHANGED <<script, hand, lost, queue, asked, quiet,
                                              faults, frame, ends, stall, task, host>>
Held0 == <<held, refusals>>
Taken(op) == pc = "control" /\ ~life.quit /\ hand.op = op
OfSession == hand.session = life.session

MayOpen ==
    Retired(life) /\ ~HasSession(life) /\ opening = "none" /\ jobs = NoJobs
MayFinish ==
    /\ OfSession
    /\ \/ life.state = "opening"
       \/ InSession /\ (life.capture \/ engine.cutoff
                        \/ ~(engine.error \/ life.core = "aborting"))
MayDrain ==
    /\ OfSession /\ life.state = "open" /\ snap.cutoff
MayAbort == OfSession /\ ~Retired(life)
MayManage ==
    /\ jobs = NoJobs /\ life.state \in {"open", "closed", "failed"}
    /\ life.capture => Retired(life)
MayRecord == jobs = NoJobs /\ life.state \in {"open", "closed", "failed"}
MayReply ==
    /\ OfSession /\ life.state = "open" /\ HasSession(life)
    /\ ~engine.error /\ reply.state = "none"
MayJudge == OfSession /\ InSession /\ ~life.capture /\ reply.state # "none"
Admissible ==
    CASE hand.op \in {"open", "capture"} -> MayOpen
      [] hand.op = "finish"     -> MayFinish
      [] hand.op = "drain"      -> MayDrain
      [] hand.op = "abort"      -> MayAbort
      [] hand.op = "manage"     -> MayManage
      [] hand.op = "record"     -> MayRecord
      [] hand.op = "synthesize" -> MayReply
      [] hand.op \in {"stop", "report"} -> MayJudge
      [] OTHER -> FALSE

(* Nothing but an answer: no line, an answer to settings nobody waits for, *)
(* a status, a request refused; while retiring, everything.                *)
SettingsDue == hand.session = life.session /\ life.waiting
Nothing ==
    /\ pc = "control"
    /\ \/ life.quit \/ hand.op = "none"
       \/ hand.op \in {"values", "refusal"} /\ ~SettingsDue
       \/ hand.id # None /\ ~Admissible
    /\ Answer({hand.id} \cap Requests)
    /\ UNCHANGED <<life, early, asking, jobVars, finalVars, reply, Held0, engineVars,
                   lookVars, storage>>
    /\ ControlFrame

(* settings                                                                *)
Values ==
    /\ Taken("values") /\ SettingsDue
    /\ life' = [life EXCEPT !.waiting = FALSE]
    /\ opening' = "running"
    /\ UNCHANGED <<early, asking, answers, admitted, jobs, ready, finalVars, reply,
                   Held0, engineVars, lookVars, storage>>
    /\ ControlFrame
Refusal ==
    /\ Taken("refusal") /\ SettingsDue
    /\ life' = FailSession(life)
    /\ UNCHANGED <<early, asking, answers, jobVars, finalVars, reply, Held0, engineVars,
                   lookVars, storage>>
    /\ ControlFrame

(* admit, one action for each operation that is admitted.                  *)
Open(capture) ==
    /\ Taken(IF capture THEN "capture" ELSE "open") /\ MayOpen
    /\ life' = [life EXCEPT !.state = IF capture THEN "open" ELSE "opening",
                            !.session = @ + 1, !.capture = capture, !.abort = FALSE,
                            !.failure = "none", !.waiting = ~capture, !.live = TRUE]
    /\ asking' = IF capture THEN asking ELSE asking \cup {life.session + 1}
    /\ rows' = [f \in Finals |-> "none"] /\ said' = [f \in Finals |-> 0]
    /\ inputFinal' = FALSE /\ early' = FALSE
    /\ reply' = NoReply /\ engine' = NoEngine
    /\ events' = <<>> /\ emitted' = 0 /\ taken' = 0 /\ snap' = NoSnap
    /\ Answer({hand.id})
    /\ UNCHANGED <<jobVars, Held0, seen, storage>>
    /\ pc' = "input" /\ host' = NoHost
    /\ UNCHANGED <<script, hand, lost, queue, asked, quiet, faults, frame, ends, stall,
                   task>>
Finish ==
    /\ Taken("finish") /\ MayFinish
    /\ early' = (early \/ life.state = "opening")
    /\ IF HasSession(life)
       THEN /\ engine' = [engine EXCEPT !.cutoff = TRUE]
            /\ snap' = [cutoff |-> TRUE, retired |-> engine.retired, emitted |-> emitted,
                        busy |-> engine.busy, calls |-> engine.calls]
       ELSE /\ snap' = [snap EXCEPT !.cutoff = @ \/ life.capture]
            /\ UNCHANGED engine
    /\ Answer({hand.id})
    /\ UNCHANGED <<life, asking, jobVars, finalVars, reply, Held0, events, emitted, taken,
                   seen, storage>>
    /\ ControlFrame
Closing ==
    /\ seen' = [seen EXCEPT !.events = snap.emitted]
    /\ Answer({hand.id})
    /\ UNCHANGED <<early, asking, jobVars, finalVars, reply, Held0, engineVars, taken,
                   snap, storage>>
DrainTime(l) == IF l.capture THEN CaptureClose ELSE DrainIdle
Drain ==
    /\ Taken("drain") /\ MayDrain
    /\ life' = [life EXCEPT !.state = "draining", !.closing = DrainTime(life),
                            !.core = IF @ = "running" THEN "draining" ELSE @]
    /\ quiet' = 0
    /\ Closing
    /\ pc' = "input"
    /\ UNCHANGED <<script, hand, lost, queue, asked, faults, frame, ends, stall, task, host>>
Abort ==
    /\ Taken("abort") /\ MayAbort
    /\ life' = [Aborting(life, IF life.abort /\ life.state = "draining" THEN life.closing
                               ELSE AbortTime) EXCEPT !.live = FALSE]
    /\ Closing
    /\ ControlFrame

(* enroll and waveform_control: answered when their future ends; uses says *)
(* that the operation holds the pointer to the session.                    *)
Manage ==
    /\ Taken("manage") /\ MayManage
    /\ jobs' = [jobs EXCEPT !.enroll = hand.id, !.uses = HasSession(life)]
    /\ life' = [life EXCEPT !.live = @ \/ Retired(life)]
    /\ UNCHANGED <<early, asking, answers, opening, admitted, ready, finalVars, reply,
                   Held0, engineVars, lookVars, storage>>
    /\ ControlFrame
Record ==
    /\ Taken("record") /\ MayRecord
    /\ jobs' = [jobs EXCEPT !.publish = hand.id]
    /\ life' = [life EXCEPT !.live = @ \/ Retired(life)]
    /\ UNCHANGED <<early, asking, answers, opening, admitted, ready, finalVars, reply,
                   Held0, engineVars, lookVars, storage>>
    /\ ControlFrame

Synthesize ==
    /\ Taken("synthesize") /\ MayReply
    /\ reply' = [NoReply EXCEPT !.state = "live"]
    /\ Answer({hand.id})
    /\ UNCHANGED <<life, early, asking, jobVars, finalVars, Held0, engineVars, lookVars,
                   storage>>
    /\ ControlFrame
(* Session::interrupt: what is not yet taken is gone.                      *)
Cuttable == ~reply.cut /\ ~reply.receipt
CutReply(r) == IF Cuttable THEN [r EXCEPT !.cut = TRUE, !.made = r.given] ELSE r
Emit(new) == events' = events \o new /\ emitted' = emitted + Len(new)
CutEvent == IF Cuttable THEN <<[kind |-> "cut", final |-> 0]>> ELSE <<>>
Stop ==
    /\ Taken("stop") /\ MayJudge
    /\ IF reply.state = "live"
       THEN reply' = [CutReply(reply) EXCEPT !.fenced = TRUE] /\ Emit(CutEvent)
       ELSE UNCHANGED <<reply, events, emitted>>
    /\ Answer({hand.id})
    /\ UNCHANGED <<life, early, asking, jobVars, finalVars, Held0, engine, lookVars,
                   storage>>
    /\ ControlFrame

(* Mutant: a report is judged whatever is being written.                   *)
AcknowledgedAlways(r) == FALSE
(* The report counts audio whose write is under way.                       *)
Unacknowledged(r) ==
    LET n == reply.delivered + task.frames IN
    /\ task.state # "none" /\ reply.rendered <= r.n /\ r.n <= n
    /\ r.n > reply.delivered \/ (r.terminal /\ ~Fenced /\ ~reply.ended)
    /\ r.terminal => Fenced \/ reply.ended \/ task.end
BacklogFull == Len(held) >= ReportBacklog
Report ==
    /\ Taken("report") /\ MayJudge
    /\ IF held = <<>> /\ ~Unacknowledged(hand)
       THEN JudgeReport(hand) /\ UNCHANGED held
       ELSE /\ IF BacklogFull
               THEN Answer({hand.id}) /\ UNCHANGED held
               ELSE held' = Append(held, hand) /\ UNCHANGED answers
            /\ UNCHANGED <<reply, life, refusals>>
    /\ UNCHANGED <<early, asking, jobVars, finalVars, engineVars, lookVars, storage>>
    /\ ControlFrame

----------------------------------------------------------------------------
(* input, and the end of the pass, which takes a tick.                     *)
HasWritten == task.written > 0 \/ task.endWritten
InFlight == storage.owner # "none" \/ engine.busy \/ HasWritten
After(l) ==
    [l EXCEPT !.closing = IF l.state = "draining" /\ @ >= 0 THEN @ - 1 ELSE @,
              !.exit = IF l.quit /\ @ >= 0 THEN @ - 1 ELSE @]
FrameWaits == life.state = "opening"
FrameDropped == life.abort \/ life.failure # "none"
AfterFrame ==
    IF life.quit \/ FrameDropped \/ FrameWaits \/ frame = "none" THEN life
    ELSE IF frame = "bad" \/ (Retired(life) /\ ~inputFinal)
             \/ (HasSession(life) /\ engine.error /\ ~engine.cutoff)
    THEN IF HasSession(life) /\ engine.error THEN FailEngine(life) ELSE FailSession(life)
    ELSE life
Ended == ~life.quit /\ ~FrameDropped /\ frame = "end" /\ AfterFrame = life
ServerLost(l) ==
    IF "server" \notin faults THEN l
    ELSE Quit(IF HasSession(l) \/ opening # "none" THEN FailEngine(l) ELSE l)
Settles(l) ==
    ~HasSession(l) /\ opening = "none" /\ jobs' = NoJobs /\ task.state = "none"
Input ==
    /\ pc = "input"
    /\ frame' = IF ~life.quit /\ (FrameDropped \/ ~FrameWaits) THEN "none" ELSE frame
    /\ engine' = IF Ended /\ HasSession(life) THEN [engine EXCEPT !.cutoff = TRUE] ELSE engine
    /\ IF Ended /\ life.capture /\ ~Retired(life)
       THEN /\ jobs' = [jobs EXCEPT !.capture = TRUE]
            /\ snap' = [snap EXCEPT !.cutoff = TRUE]
       ELSE UNCHANGED <<jobs, snap>>
    /\ LET l == ServerLost(AfterFrame) IN
       /\ life' = After(l)
       /\ quiet' = IF InFlight \/ ~Draining(l) THEN 0
                   ELSE IF quiet > DrainIdle THEN quiet ELSE quiet + 1
       /\ pc' = IF l.quit /\ Settles(l) THEN "exited"
                ELSE IF l.quit /\ l.exit < 0 THEN "abandoned" ELSE "read"
    /\ hand' = NoLine
    /\ UNCHANGED <<script, lost, lineVars, early, opening, admitted, ready, finalVars,
                   replyVars, events, emitted, taken, seen, storage, faults, histVars>>

----------------------------------------------------------------------------
(* Around the loop.  The carrier, whose lines the loop looks for at the    *)
(* top of a pass and nowhere else.                                         *)
Alive == pc \notin {"exited", "abandoned"}
AroundFrame == UNCHANGED <<script, loopVars, answers, life, early, inputFinal, rows, said,
                           held, refusals, lookVars, histVars>>
Opens == {"open", "capture"}
Opening == hand.op \in Opens \/ \E i \in 1..Len(queue) : queue[i].op \in Opens
Line(op) == [NoLine EXCEPT !.id = asked + 1, !.op = op,
                           !.session = life.session + (IF Opening THEN 1 ELSE 0)]
(* Honest reports of the reply: what has reached the host, its end when    *)
(* the reply was stopped or its last frame has come.                       *)
Written == reply.delivered + task.written
Stopping == Fenced \/ \E i \in 1..Len(queue) : queue[i].op = "stop"
ReportOf(n, t) == [Line("report") EXCEPT !.n = n, !.terminal = t]
Reports ==
    {ReportOf(n, t) : n \in {n \in host.said..Written : reply.state = "live"}, t \in BOOLEAN}
Honest(r) ==
    r.terminal => Stopping \/ (r.n = Written /\ (reply.ended \/ task.endWritten))
Send(op) ==
    /\ pc = "read" /\ "eof" \notin faults /\ queue = <<>> /\ asked < Len(script.ops)
    /\ op \in script.ops[asked + 1]
    /\ \/ op # "report" /\ queue' = Append(queue, Line(op)) /\ UNCHANGED host
       \/ /\ op = "report" /\ ~host.terminal /\ ~Opening
          /\ \E r \in {r \in Reports : Honest(r)} :
               /\ queue' = Append(queue, r)
               /\ host' = [said |-> r.n, terminal |-> r.terminal]
    /\ asked' = asked + 1
    /\ UNCHANGED <<asking, jobVars, reply, task, engineVars, envVars>>
    /\ AroundFrame
SettingsAnswer ==
    /\ pc = "read" /\ "eof" \notin faults
    /\ \E s \in asking : \E op \in {"values"} \cup ({"refusal"} \cap script.faults) :
         /\ queue' = Append(queue, [NoLine EXCEPT !.op = op, !.session = s])
         /\ asking' = asking \ {s}
    /\ UNCHANGED <<asked, jobVars, reply, task, host, engineVars, envVars>>
    /\ AroundFrame
SendFrame ==
    /\ pc = "read" /\ frame = "none" /\ ~Retired(life)
    /\ \E f \in ({"end", "bad"} \cap script.faults) \ faults :
         frame' = f /\ faults' = faults \cup {f}
    /\ UNCHANGED <<lineVars, jobVars, reply, task, host, engineVars, storage, quiet>>
    /\ AroundFrame
Strike ==
    /\ pc = "read"
    /\ \E f \in ({"transport", "audio_eof", "eof", "server"} \cap script.faults) \ faults :
         faults' = faults \cup {f}
    /\ UNCHANGED <<lineVars, jobVars, reply, task, host, engineVars, storage, quiet, frame>>
    /\ AroundFrame

(* The futures.                                                            *)
JobFrame ==
    /\ UNCHANGED <<lineVars, reply, task, host, engineVars, storage, quiet, faults, frame>>
    /\ AroundFrame
OpeningEnds ==
    /\ Alive /\ opening = "running"
    /\ \E end \in {"opened", "refused", "broken"} :
         /\ end # "opened" => "opening" \in script.faults
         /\ opening' = end
         /\ \E a \in (IF end = "refused" THEN BOOLEAN ELSE {TRUE}) : admitted' = a
    /\ UNCHANGED <<jobs, ready>>
    /\ JobFrame
JobEnds ==
    /\ Alive
    /\ \E j \in {"enroll", "publish", "capture"}, end \in {"kept", "broken"} :
         /\ storage.owner # j
         /\ end = "broken" => "broken" \in script.faults
         /\ IF j = "capture" THEN jobs.capture /\ ready \cap {"kept", "broken"} = {}
            ELSE jobs[j] # None /\ j \notin ready
         /\ ready' = ready \cup {IF j = "capture" THEN end ELSE j}
    /\ UNCHANGED <<opening, admitted, jobs>>
    /\ JobFrame

(* The bridge: who has the storage.                                        *)
StorageFrame ==
    /\ UNCHANGED <<lineVars, jobVars, reply, task, host, engineVars, faults, frame>>
    /\ AroundFrame
StorageStart ==
    /\ Alive /\ life.live /\ storage.owner = "none" /\ storage.done < script.works
    /\ \E o \in {"core", "enroll", "publish", "capture"} :
         /\ CASE o = "core" -> HasSession(life) /\ ~engine.retired
              [] o = "capture" -> jobs.capture /\ ready \cap {"kept", "broken"} = {}
              [] OTHER -> jobs[o] # None /\ o \notin ready
         /\ storage' = [storage EXCEPT !.owner = o]
    /\ UNCHANGED quiet
    /\ StorageFrame
StorageEnd ==
    /\ Alive /\ storage.owner # "none"
    /\ storage' = [owner |-> "none", done |-> storage.done + 1]
    /\ quiet' = 0
    /\ StorageFrame

(* The thread that writes audio.                                           *)
WriterFrame ==
    /\ UNCHANGED <<lineVars, jobVars, reply, host, engineVars, storage, frame>>
    /\ AroundFrame
Unwritten == IF task.end THEN ~task.endWritten ELSE task.written < task.frames /\ ~Fenced
Write ==
    /\ Alive /\ task.state = "queued"
    /\ task' = IF ~Unwritten THEN [task EXCEPT !.state = "done"]
               ELSE IF task.end THEN [task EXCEPT !.endWritten = TRUE]
               ELSE [task EXCEPT !.written = @ + 1]
    /\ quiet' = IF Unwritten THEN 0 ELSE quiet
    /\ UNCHANGED faults
    /\ WriterFrame
WriteFails ==
    /\ Alive /\ task.state = "queued" /\ Unwritten /\ "write" \in script.faults
    /\ task' = [task EXCEPT !.state = "failed"]
    /\ faults' = faults \cup {"transport"}
    /\ UNCHANGED quiet
    /\ WriterFrame

----------------------------------------------------------------------------
(* The engine.  What it does matters to the loop at these places, between  *)
(* two looks at it; what it does at another is seen no sooner.             *)
Seams == {"read", "events", "replies", "reconcile", "last", "control"}
Running == pc \in Seams /\ HasSession(life) /\ ~engine.retired
CoreRuns == Running /\ life.core # "aborting" /\ ~engine.error
CoreFrame ==
    /\ UNCHANGED <<lineVars, jobVars, task, host, storage, faults, frame>>
    /\ AroundFrame
Event(k, f) == [kind |-> k, final |-> f]
(* A final is handed to the speaker thread, or observed as unavailable     *)
(* when too many wait for it.                                              *)
CoreFinal ==
    /\ CoreRuns /\ ~engine.done /\ engine.finals < script.finals
    /\ LET f == engine.finals + 1 IN
       IF Cardinality(engine.owed) > SpeakerCapacity
       THEN /\ engine' = [engine EXCEPT !.finals = f]
            /\ Emit(<<Event("final", f), Event("observed", f)>>)
       ELSE /\ engine' = [engine EXCEPT !.finals = f, !.owed = @ \cup {f}]
            /\ Emit(<<Event("final", f)>>)
    /\ UNCHANGED <<reply, quiet>>
    /\ CoreFrame
CoreObserve ==
    /\ CoreRuns
    /\ \E f \in engine.owed :
         /\ \A g \in engine.owed : f <= g
         /\ engine' = [engine EXCEPT !.owed = @ \ {f}]
         /\ Emit(<<Event("observed", f)>>)
    /\ UNCHANGED <<reply, quiet>>
    /\ CoreFrame
CoreFinish ==
    /\ CoreRuns /\ engine.cutoff /\ ~engine.done
    /\ engine' = [engine EXCEPT !.done = TRUE]
    /\ Emit(<<Event("finished", 0)>>)
    /\ UNCHANGED <<reply, quiet>>
    /\ CoreFrame
Generate ==
    /\ CoreRuns /\ reply.state = "live" /\ ~reply.retired /\ ~reply.cut
    /\ reply.made < script.frames
    /\ reply' = [reply EXCEPT !.made = @ + 1]
    /\ UNCHANGED <<engineVars, quiet>>
    /\ CoreFrame
GenRetire ==
    /\ CoreRuns /\ reply.state = "live" /\ ~reply.retired
    /\ reply' = [reply EXCEPT !.retired = TRUE]
    /\ Emit(<<Event("ended", 0)>>)
    /\ UNCHANGED <<engine, quiet>>
    /\ CoreFrame
(* The user speaks over the reply.                                         *)
CoreFence ==
    /\ CoreRuns /\ "speech" \in script.faults /\ reply.state = "live" /\ Cuttable
    /\ reply' = CutReply(reply)
    /\ Emit(CutEvent)
    /\ UNCHANGED <<engine, quiet>>
    /\ CoreFrame
CoreFault ==
    /\ Running /\ "core" \in script.faults /\ ~engine.error
    /\ engine' = [engine EXCEPT !.error = TRUE]
    /\ UNCHANGED <<reply, events, emitted, quiet>>
    /\ CoreFrame
ReplyOver ==
    reply.state # "live" \/ (reply.retired /\ reply.endGiven /\ reply.receipt)
CoreRetire ==
    /\ Running /\ ~engine.busy /\ storage.owner # "core"
    /\ \/ life.core = "aborting" \/ engine.error
       \/ life.core = "draining" /\ engine.done /\ engine.owed = {} /\ ReplyOver
    /\ engine' = [engine EXCEPT !.retired = TRUE]
    /\ UNCHANGED <<reply, events, emitted, quiet>>
    /\ CoreFrame
ModelStart ==
    /\ CoreRuns /\ ~engine.busy /\ engine.calls < script.works
    /\ engine' = [engine EXCEPT !.busy = TRUE]
    /\ UNCHANGED <<reply, events, emitted, quiet>>
    /\ CoreFrame
(* A call between the last status and the look it is for comes too late.   *)
ModelEnd ==
    /\ Alive /\ engine.busy
    /\ engine' = [engine EXCEPT !.busy = FALSE, !.calls = @ + 1]
    /\ quiet' = IF pc = "look" THEN quiet ELSE 0
    /\ UNCHANGED <<reply, events, emitted>>
    /\ CoreFrame

----------------------------------------------------------------------------
Ops == {"open", "capture", "finish", "drain", "abort", "status", "manage", "record",
        "synthesize", "stop", "report"}
Control ==
    \/ Nothing \/ Values \/ Refusal
    \/ (\E capture \in BOOLEAN : Open(capture)) \/ Finish \/ Drain \/ Abort
    \/ Manage \/ Record \/ Synthesize \/ Stop \/ Report
Loop ==
    \/ Read \/ Jobs \/ Opened \/ NotOpened \/ Status \/ TakeEvent \/ EventsTaken
    \/ Replies \/ Reconcile \/ ReleaseThrows \/ NextAudio \/ LastStatus
    \/ Abandon \/ LookAtSession \/ LookAtCapture \/ LookAtNothing
    \/ Control \/ Input
Around ==
    \/ (\E op \in Ops : Send(op)) \/ SettingsAnswer \/ SendFrame \/ Strike
    \/ OpeningEnds \/ JobEnds \/ StorageStart \/ StorageEnd \/ Write \/ WriteFails
    \/ CoreFinal \/ CoreObserve \/ CoreFinish \/ Generate \/ GenRetire \/ CoreFence
    \/ CoreFault \/ CoreRetire \/ ModelStart \/ ModelEnd
Next == Loop \/ Around

(* The loop runs, and time passes with it.  Storage, model calls and       *)
(* writes end: each has a deadline of its own.  An engine need not do      *)
(* anything.                                                               *)
Spec ==
    /\ Init /\ [][Next]_vars
    /\ WF_vars(Loop)
    /\ WF_vars(StorageEnd) /\ WF_vars(ModelEnd) /\ WF_vars(Write) /\ WF_vars(JobEnds)

----------------------------------------------------------------------------
(* Properties.                                                             *)
(* Every variable keeps its type.                                          *)
TypeOK ==
    /\ hand.id \in 0..MaxRequests /\ lost \subseteq Requests
    /\ answers \in [Requests -> Nat]
    /\ life.state \in {"closed", "opening", "open", "draining", "failed"}
    /\ life.failure \in {"none", "contained", "failed"}
    /\ life.core \in {"none", "running", "draining", "aborting"}
    /\ life.closing \in -1..(DrainIdle + CaptureClose + AbortTime + RetireTime)
    /\ opening \in {"none", "running", "opened", "refused", "broken"}
    /\ jobs.enroll \in 0..MaxRequests /\ jobs.publish \in 0..MaxRequests
    /\ rows \in [Finals -> {"none", "pending", "late", "over"}]
    /\ said \in [Finals -> Nat]
    /\ Len(held) <= ReportBacklog
    /\ reply.given <= script.frames /\ reply.delivered <= reply.given
    /\ stall \in {"none", "idle", "early"}

(* A request the worker has taken is answered once: at once, or when the   *)
(* work it started, or the write it waits for, has ended.  Only a worker   *)
(* that is retiring drops a line; nothing is owed when it has retired, and *)
(* no report when its session has.                                         *)
Owing == ({hand.id} \cup {jobs.enroll, jobs.publish} \cup
          {held[i].id : i \in 1..Len(held)}) \cap Requests
InQueue == {queue[i].id : i \in 1..Len(queue)}
AnsweredOnce ==
    /\ \A r \in Requests : answers[r] <= 1
    /\ \A r \in 1..asked :
         answers[r] = 0 => r \in Owing \/ r \in InQueue \/ r \in lost
    /\ lost # {} => life.quit
    /\ pc = "exited" => Owing = {}
    /\ Retired(life) => held = <<>>

(* What a session has taken is given back when it ends: no engine, no      *)
(* admission, no capture, no write, no operation that holds it, and nobody *)
(* at the storage but an operation of its own; each final of it has then   *)
(* been told its speaker once, whether the engine, a timeout or the end    *)
(* named it.                                                               *)
EndsOnce ==
    /\ life.session - 1 <= ends /\ ends <= life.session
    /\ \A f \in Finals : said[f] = 0 \/ (said[f] = 1 /\ rows[f] \in {"late", "over"})
    /\ Retired(life) =>
         /\ ~HasSession(life) /\ opening = "none" /\ ~admitted
         /\ ~jobs.capture /\ ~jobs.uses /\ task.state = "none"
         /\ Pending = {}
         /\ storage.owner \in {"none", "enroll", "publish"}
         /\ storage.owner # "none" => jobs # NoJobs
         /\ life.state = "closed" => \A f \in Finals : rows[f] # "none" => said[f] = 1

(* A drain is given up as stalled only after the whole time without a      *)
(* storage operation, a model call or an audio write, whatever ended in    *)
(* between and however late the loop looks at it.  A write that is dropped *)
(* before its first frame is no work.                                      *)
DrainNotCutShort == stall # "early"

(* A report that is judged, of what has really reached the host, is        *)
(* refused in one case only: it says that the reply has ended of itself,   *)
(* and the engine has cut the reply since the worker last looked at it     *)
(* (session.cpp:849-850).  None is refused for a position or an end the    *)
(* worker has yet to learn of, however late it sees its own writes and in  *)
(* whatever order reports and engine events come (worker.cpp:264-271).     *)
(* Not judged is what finds the backlog full (worker.cpp:1437) or comes    *)
(* when the worker has no such reply any more.                             *)
OnlyOvertakenRefused == refusals \subseteq {"overtaken"}

(* When nothing goes wrong around it the worker does not fail by itself,   *)
(* with late speaker results, full queues and lost speakers included.      *)
NoFailureOfItsOwn == script.faults \subseteq {"end"} /\ stall = "none" => life.failure = "none"

(* The worker takes nothing ordinary for a failure: no drain at work for a *)
(* stalled one, no true report for a false one but the overtaken end, and  *)
(* no state of its own for a fault.                                        *)
NoFalseAlarm == DrainNotCutShort /\ OnlyOvertakenRefused /\ NoFailureOfItsOwn

(* A reply is given up when all its events have been consumed: the check   *)
(* of Session::release_generation never fails.                             *)
ReleasedInOrder == pc = "reconcile" /\ ~MayReconcile => ~Unreleasable

(* A session that is closing ends, or the worker does, whatever the engine *)
(* does or does not do.                                                    *)
ClosingEnds == life.state = "draining" ~> Retired(life) \/ ~Alive
=============================================================================
