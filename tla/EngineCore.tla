----------------------------- MODULE EngineCore -----------------------------
(* One model server for many session processes                             *)
(* (src/plugin/native/engine_core.go): the carrier hands the server one    *)
(* channel per session process, asks a slot over it, starts the process on *)
(* it, and stops them all; the server                                      *)
(* (src/runtime/native/session/model_server_control.cpp) has a thread per  *)
(* channel and counts the slots (admission.cpp).                           *)
(*                                                                         *)
(* A channel is one Admit with what comes of it, its session process       *)
(* included.  Of the frames on it only those about the slot are kept, at   *)
(* most one of them under way.  Sessions are costed by the server itself,  *)
(* which here may refuse any but the first.                                *)
EXTENDS Naturals, FiniteSets

CONSTANTS
    Channels,
    NoChannel,
    Ceiling,        \* slots (max_sessions)
    ChannelLimit,   \* model_server_channel_limit
    MaxOpens        \* bound of the model: sessions of one process

ASSUME CoreAssumption ==
    /\ IsFiniteSet(Channels) /\ NoChannel \notin Channels
    /\ Ceiling \in Nat \ {0} /\ ChannelLimit \in Nat \ {0} /\ MaxOpens \in Nat \ {0}

VARIABLES
    caller,     \* where the carrier is with a channel
    handing,    \* the channel that holds modelServer.handing
    word,       \* on the control: "c" handed, "y" served, "n" refused
    mail,       \* on a channel: the frame or answer about its slot
    live,       \* engineCore.live
    stop, left, passed, at, deadline,   \* Stop and its locals
    server, thread, held,               \* the model server
    proc, session, opens                \* the session processes

carrierVars == <<caller, handing, live>>
stopVars == <<stop, left, passed, at, deadline>>
serverVars == <<server, thread, held>>
processVars == <<proc, session, opens>>
vars == <<carrierVars, word, mail, stopVars, serverVars, processVars>>

TypeOK ==
    /\ caller \in [Channels -> {"none", "admitting", "handing", "failing", "asking",
                                "admitted", "starting", "started", "entered", "over"}]
    /\ handing \in Channels \cup {NoChannel}
    /\ word \in {"none", "c", "y", "n"}
    /\ mail \in [Channels -> {"none", "admit", "release", "yes", "no", "released"}]
    /\ live \subseteq Channels
    /\ stop \in {"no", "marked", "waiting", "ending", "returned"}
    /\ left \subseteq Channels /\ passed \subseteq left
    /\ at \in left \cup {NoChannel}
    /\ deadline \in {"unset", "set", "rung", "taken"}
    /\ server \in {"up", "ending", "gone"}
    /\ thread \in [Channels -> {"none", "serving", "retiring", "done"}]
    /\ held \subseteq Channels
    /\ proc \in [Channels -> {"none", "running", "dead"}]
    /\ session \in [Channels -> {"none", "asking", "open", "releasing"}]
    /\ opens \in [Channels -> 0..MaxOpens]

Init ==
    /\ caller = [c \in Channels |-> "none"] /\ handing = NoChannel
    /\ word = "none" /\ mail = [c \in Channels |-> "none"] /\ live = {}
    /\ stop = "no" /\ left = {} /\ passed = {} /\ at = NoChannel /\ deadline = "unset"
    /\ server = "up" /\ thread = [c \in Channels |-> "none"] /\ held = {}
    /\ proc = [c \in Channels |-> "none"]
    /\ session = [c \in Channels |-> "none"] /\ opens = [c \in Channels |-> 0]

stopping == stop # "no"
Moves(c, to) == caller' = [caller EXCEPT ![c] = to]
Posts(c, frame) == mail' = [mail EXCEPT ![c] = frame]

(* The session's end of a channel is open while the carrier or the process *)
(* has it, and is cut when the server's thread has closed its own.         *)
EndIsOpen(c) ==
    \/ caller[c] \in {"admitting", "handing", "failing", "asking", "admitted", "starting"}
    \/ proc[c] = "running"
IsCut(c) == server = "gone" \/ thread[c] = "done"
Asks == {"admit", "release"}

-----------------------------------------------------------------------------
(* Admit: it looks at stopping, hands over a channel and asks for a slot.  *)
AdmitBegins(c) ==
    /\ caller[c] = "none"
    /\ Moves(c, IF stopping \/ server = "gone" THEN "over" ELSE "admitting")
    /\ UNCHANGED <<handing, live, word, mail, stopVars, serverVars, processVars>>
GivesToServer(c) ==
    /\ caller[c] = "admitting" /\ handing = NoChannel /\ server = "up"
    /\ Moves(c, "handing") /\ handing' = c /\ word' = "c"
    /\ UNCHANGED <<live, mail, stopVars, serverVars, processVars>>
HandedOver(c) ==
    /\ handing = c /\ word \in {"y", "n"} /\ handing' = NoChannel /\ word' = "none"
    /\ caller[c] = "handing"
    /\ IF word = "y" THEN Moves(c, "asking") /\ Posts(c, "admit")
       ELSE Moves(c, "over") /\ UNCHANGED mail
    /\ UNCHANGED <<live, stopVars, serverVars, processVars>>
ControlLost(c) ==
    /\ caller[c] \in {"admitting", "handing"} /\ server # "up"
    /\ Moves(c, "over")
    /\ IF handing = c THEN handing' = NoChannel /\ word' = "none"
       ELSE UNCHANGED <<handing, word>>
    /\ UNCHANGED <<live, mail, stopVars, serverVars, processVars>>
(* A server that does not take a channel in time is ended (modelServer.end)*)
(* by the call that waited, which returns when it is gone.                 *)
HandingTimesOut(c) ==
    /\ caller[c] \in {"admitting", "handing"} /\ server = "up"
    /\ Moves(c, "failing") /\ server' = "ending"
    /\ IF handing = c THEN handing' = NoChannel /\ word' = "none"
       ELSE UNCHANGED <<handing, word>>
    /\ UNCHANGED <<live, mail, stopVars, thread, held, processVars>>
Fails(c) ==
    /\ caller[c] = "failing" /\ server = "gone" /\ Moves(c, "over")
    /\ UNCHANGED <<handing, live, word, mail, stopVars, serverVars, processVars>>
Answered(c) ==
    /\ caller[c] = "asking" /\ mail[c] \in {"yes", "no"} /\ Posts(c, "none")
    /\ Moves(c, IF mail[c] = "yes" THEN "admitted" ELSE "over")
    /\ UNCHANGED <<handing, live, word, stopVars, serverVars, processVars>>
AskFails(c) ==   \* too late, or the channel is cut; what was sent stays in the pipe
    /\ caller[c] = "asking" /\ Moves(c, "over")
    /\ UNCHANGED <<handing, live, word, mail, stopVars, serverVars, processVars>>

-----------------------------------------------------------------------------
(* Cancel and Start.  Start looks at stopping, starts the process without  *)
(* the mutex and enters it in live afterwards.                             *)
CancelChannel(c) ==
    /\ caller[c] = "admitted" /\ Moves(c, "over")
    /\ UNCHANGED <<handing, live, word, mail, stopVars, serverVars, processVars>>
StartBegins(c) ==
    /\ caller[c] = "admitted" /\ Moves(c, IF stopping THEN "over" ELSE "starting")
    /\ UNCHANGED <<handing, live, word, mail, stopVars, serverVars, processVars>>
StartProcess(c) ==
    /\ caller[c] = "starting"
    /\ \/ /\ Moves(c, "started") /\ proc' = [proc EXCEPT ![c] = "running"]
       \/ /\ Moves(c, "over") /\ UNCHANGED proc
    /\ UNCHANGED <<handing, live, word, mail, stopVars, serverVars, session, opens>>
EnterProcess(c) ==
    /\ caller[c] = "started" /\ Moves(c, "entered") /\ live' = live \cup {c}
    /\ UNCHANGED <<handing, word, mail, stopVars, serverVars, processVars>>
ForgetProcess(c) ==
    /\ caller[c] = "entered" /\ proc[c] = "dead" /\ Moves(c, "over") /\ live' = live \ {c}
    /\ UNCHANGED <<handing, word, mail, stopVars, serverVars, processVars>>

-----------------------------------------------------------------------------
(* Stop: it marks the core, takes a list of the live processes, waits for  *)
(* each in turn, killing at the deadline, and ends the server.  The        *)
(* deadline is a channel that time.After fills once.                       *)
StopBegins ==
    /\ stop = "no" /\ stop' = "marked"
    /\ UNCHANGED <<carrierVars, word, mail, left, passed, at, deadline, serverVars, processVars>>
StopLists ==
    /\ stop = "marked" /\ stop' = "waiting" /\ left' = live /\ deadline' = "set"
    /\ UNCHANGED <<carrierVars, word, mail, passed, at, serverVars, processVars>>
DeadlinePasses ==
    /\ deadline = "set" /\ deadline' = "rung"
    /\ UNCHANGED <<carrierVars, word, mail, stop, left, passed, at, serverVars, processVars>>
WaitsFor(p) ==
    /\ stop = "waiting" /\ at = NoChannel /\ p \in left \ passed /\ at' = p
    /\ UNCHANGED <<carrierVars, word, mail, stop, left, passed, deadline, serverVars, processVars>>
ProcessDone(p) ==
    /\ at = p /\ proc[p] = "dead" /\ at' = NoChannel /\ passed' = passed \cup {p}
    /\ UNCHANGED <<carrierVars, word, mail, stop, left, deadline, serverVars, processVars>>
KillProcess(p) ==
    /\ at = p /\ deadline = "rung" /\ deadline' = "taken"
    /\ proc' = [proc EXCEPT ![p] = "dead"]
    /\ UNCHANGED <<carrierVars, word, mail, stop, left, passed, at, serverVars, session, opens>>
(* Mutant: the deadline ends the whole wait.                               *)
EndServerAtDeadline ==
    /\ stop = "waiting" /\ ((at = NoChannel /\ passed = left) \/ deadline = "taken")
    /\ stop' = "ending" /\ server' = IF server = "up" THEN "ending" ELSE server
    /\ UNCHANGED <<carrierVars, word, mail, left, passed, at, deadline, thread, held, processVars>>
EndServer ==
    /\ stop = "waiting" /\ at = NoChannel /\ passed = left /\ stop' = "ending"
    /\ server' = IF server = "up" THEN "ending" ELSE server
    /\ UNCHANGED <<carrierVars, word, mail, left, passed, at, deadline, thread, held, processVars>>
StopReturns ==
    /\ stop = "ending" /\ server = "gone" /\ stop' = "returned"
    /\ UNCHANGED <<carrierVars, word, mail, left, passed, at, deadline, serverVars, processVars>>

-----------------------------------------------------------------------------
(* The model server's loop takes a channel, or refuses it at its limit;    *)
(* a channel's thread answers until its end.                               *)
TakeChannel(c) ==
    /\ server = "up" /\ handing = c /\ word = "c"
    /\ IF Cardinality({d \in Channels : thread[d] \in {"serving", "retiring"}}) < ChannelLimit
       THEN word' = "y" /\ thread' = [thread EXCEPT ![c] = "serving"]
       ELSE word' = "n" /\ UNCHANGED thread
    /\ UNCHANGED <<carrierVars, mail, stopVars, server, held, processVars>>
(* admit: whoever holds a slot is told yes again; below the ceiling the    *)
(* first is, and another if the measured costs allow it.                   *)
Grants(c) == held' = held \cup {c} /\ Posts(c, "yes")
(* Mutant: a free slot is promised and not taken.                          *)
admitForgets(c) ==
    \/ c \in held /\ Grants(c)
    \/ c \notin held /\ Cardinality(held) + 1 <= Ceiling /\ Posts(c, "yes") /\ UNCHANGED held
    \/ c \notin held /\ held # {} /\ Posts(c, "no") /\ UNCHANGED held
(* Mutant: the holder of a slot is not looked up.                          *)
admitCountsAgain(c) ==
    \/ Cardinality(held) + 1 <= Ceiling /\ Grants(c)
    \/ (held # {} \/ Cardinality(held) + 1 > Ceiling) /\ Posts(c, "no") /\ UNCHANGED held
admit(c) ==
    \/ c \in held /\ Grants(c)
    \/ c \notin held /\ Cardinality(held) + 1 <= Ceiling /\ Grants(c)
    \/ /\ c \notin held /\ (held # {} \/ Cardinality(held) + 1 > Ceiling)
       /\ Posts(c, "no") /\ UNCHANGED held
(* Mutant: the end of a channel is no release.                             *)
releaseByAnswerOnly(c) ==
    held' = IF mail[c] = "release" THEN held \ {c} ELSE held
release(c) == held' = held \ {c}
AnswerAdmit(c) ==
    /\ server # "gone" /\ thread[c] = "serving" /\ mail[c] = "admit" /\ admit(c)
    /\ UNCHANGED <<carrierVars, word, stopVars, server, thread, processVars>>
AnswerRelease(c) ==
    /\ server # "gone" /\ thread[c] = "serving" /\ mail[c] = "release"
    /\ release(c) /\ Posts(c, "released")
    /\ UNCHANGED <<carrierVars, word, stopVars, server, thread, processVars>>
(* What is in the pipe is read before its end is seen, unless the server   *)
(* ends, which wakes the reader.                                           *)
ChannelEnds(c) ==
    /\ server # "gone" /\ thread[c] = "serving"
    /\ server = "ending" \/ (~EndIsOpen(c) /\ mail[c] \notin Asks)
    /\ release(c) /\ thread' = [thread EXCEPT ![c] = "retiring"]
    /\ UNCHANGED <<carrierVars, word, mail, stopVars, server, processVars>>
StreamsRetire(c) ==
    /\ server # "gone" /\ thread[c] = "retiring" /\ thread' = [thread EXCEPT ![c] = "done"]
    /\ UNCHANGED <<carrierVars, word, mail, stopVars, server, held, processVars>>
Gone == server' = "gone" /\ held' = {} /\ UNCHANGED <<carrierVars, word, mail, stopVars, thread, processVars>>
StreamHangs(c) == server # "gone" /\ thread[c] = "retiring" /\ Gone
ServerEnds == server = "ending" /\ (\A c \in Channels : thread[c] \in {"none", "done"}) /\ Gone
ServerFails == server # "gone" /\ Gone   \* it crashes, or modelServer.end kills it

-----------------------------------------------------------------------------
(* A session process asks again as each of its sessions opens, and gives   *)
(* the slot back at the session's end.  It ends with its server, and       *)
(* whenever its host lets it.                                              *)
OpenSession(c) ==
    /\ proc[c] = "running" /\ session[c] = "none" /\ opens[c] < MaxOpens /\ ~IsCut(c)
    /\ session' = [session EXCEPT ![c] = "asking"]
    /\ opens' = [opens EXCEPT ![c] = @ + 1] /\ Posts(c, "admit")
    /\ UNCHANGED <<carrierVars, word, stopVars, serverVars, proc>>
SessionAnswered(c) ==
    /\ proc[c] = "running" /\ session[c] = "asking" /\ mail[c] \in {"yes", "no"}
    /\ session' = [session EXCEPT ![c] = IF mail[c] = "yes" THEN "open" ELSE "none"]
    /\ Posts(c, "none")
    /\ UNCHANGED <<carrierVars, word, stopVars, serverVars, proc, opens>>
EndSession(c) ==
    /\ proc[c] = "running" /\ session[c] = "open" /\ ~IsCut(c)
    /\ session' = [session EXCEPT ![c] = "releasing"] /\ Posts(c, "release")
    /\ UNCHANGED <<carrierVars, word, stopVars, serverVars, proc, opens>>
SessionReleased(c) ==
    /\ proc[c] = "running" /\ session[c] = "releasing" /\ mail[c] = "released"
    /\ session' = [session EXCEPT ![c] = "none"] /\ Posts(c, "none")
    /\ UNCHANGED <<carrierVars, word, stopVars, serverVars, proc, opens>>
(* Mutant: only an open session sees the loss.                             *)
ServerIsLostInSession(c) ==
    /\ proc[c] = "running" /\ IsCut(c) /\ session[c] # "none"
    /\ proc' = [proc EXCEPT ![c] = "dead"]
    /\ UNCHANGED <<carrierVars, word, mail, stopVars, serverVars, session, opens>>
ServerIsLost(c) ==
    /\ proc[c] = "running" /\ IsCut(c)
    /\ proc' = [proc EXCEPT ![c] = "dead"]
    /\ UNCHANGED <<carrierVars, word, mail, stopVars, serverVars, session, opens>>
ProcessEnds(c) ==
    /\ proc[c] = "running" /\ proc' = [proc EXCEPT ![c] = "dead"]
    /\ UNCHANGED <<carrierVars, word, mail, stopVars, serverVars, session, opens>>

-----------------------------------------------------------------------------
CarrierStep(c) ==
    \/ GivesToServer(c) \/ HandedOver(c) \/ ControlLost(c) \/ Fails(c) \/ Answered(c)
    \/ StartProcess(c) \/ EnterProcess(c) \/ ForgetProcess(c)
CarrierChoice(c) ==
    AdmitBegins(c) \/ HandingTimesOut(c) \/ AskFails(c) \/ CancelChannel(c) \/ StartBegins(c)
StopStep ==
    \/ StopLists \/ DeadlinePasses \/ EndServer \/ StopReturns
    \/ \E p \in Channels : WaitsFor(p) \/ ProcessDone(p) \/ KillProcess(p)
ServerStep(c) ==
    TakeChannel(c) \/ AnswerAdmit(c) \/ AnswerRelease(c) \/ ChannelEnds(c) \/ StreamsRetire(c)
ProcessStep(c) == SessionAnswered(c) \/ SessionReleased(c) \/ ServerIsLost(c)
ProcessChoice(c) == OpenSession(c) \/ EndSession(c) \/ ProcessEnds(c)
Next ==
    \/ \E c \in Channels :
          \/ CarrierStep(c) \/ CarrierChoice(c) \/ ServerStep(c) \/ StreamHangs(c)
          \/ ProcessStep(c) \/ ProcessChoice(c)
    \/ StopBegins \/ StopStep \/ ServerEnds \/ ServerFails

Spec == Init /\ [][Next]_vars
(* The goroutines, threads and processes run; what a host or the clock     *)
(* does, and what breaks, may never happen.                                *)
Fairness ==
    /\ \A c \in Channels :
          WF_vars(CarrierStep(c)) /\ WF_vars(ServerStep(c)) /\ WF_vars(ProcessStep(c))
    /\ WF_vars(StopStep) /\ WF_vars(ServerEnds)
FairSpec == Spec /\ Fairness
(* The same with nothing promised of the carrier and of Stop: only the     *)
(* channels' threads and the session processes run.                        *)
ServedSpec ==
    Spec /\ \A c \in Channels : WF_vars(ServerStep(c)) /\ WF_vars(ProcessStep(c))

-----------------------------------------------------------------------------
(* Who was told yes has the slot, until it gives it back or lets go of the *)
(* channel: a caller between Admit and its process, a process until its    *)
(* first session ends, and every later session that opened.  Only channels *)
(* being served have slots, and never more than the ceiling                *)
(* (engine_core.go Admit, Start; admission.cpp).                           *)
WasAdmitted(c) ==
    \/ caller[c] \in {"admitted", "starting"}
    \/ /\ proc[c] = "running"
       /\ session[c] = "open" \/ opens[c] = 0 \/ (session[c] = "asking" /\ opens[c] = 1)
SlotsAreKept ==
    /\ Cardinality(held) <= Ceiling
    /\ held \subseteq {c \in Channels : thread[c] = "serving"}
    /\ server = "up" => \A c \in Channels : WasAdmitted(c) => c \in held

(* The first session of a process is never told that the engine is busy:   *)
(* its ask is answered yes, by the slot its channel was accepted with,     *)
(* whatever other channels did in between (docs/NATIVE_WORKER_WIRE.md:432).*)
FirstOpenIsAdmitted ==
    \A c \in Channels : session[c] = "asking" /\ opens[c] = 1 => mail[c] # "no"

(* Stop does not return before the server is gone and every process it     *)
(* found is dead.  A process still running then was started by a Start     *)
(* that had looked at stopping before, and has no server any more.         *)
StopIsThorough ==
    /\ stop \in {"ending", "returned"} => \A p \in left : proc[p] = "dead"
    /\ stop = "returned" =>
          server = "gone" /\ \A p \in Channels : proc[p] = "running" => p \notin left /\ IsCut(p)

(* The slot of a channel whose session end is closed comes back, be it     *)
(* cancelled, given up by a caller that waited too long for its answer, or *)
(* left by a process that ended or was killed.                             *)
SlotsComeBack == \A c \in Channels : (c \in held /\ ~EndIsOpen(c)) ~> (c \notin held)

(* No session process outlives the model server, one started while the     *)
(* server ended included (engine_core_unix_test.go:284).                   *)
OrphansEnd == \A c \in Channels : (server = "gone" /\ proc[c] = "running") ~> (proc[c] = "dead")

(* Stop returns, within its time and the server's.                         *)
StopEndsInTime == stop = "marked" ~> stop = "returned"

=============================================================================
