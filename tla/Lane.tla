-------------------------------- MODULE Lane --------------------------------
(* The private lane between the carrier and the worker, with the host's    *)
(* storage behind it: the carrier (Carrier), the worker's storage bridge   *)
(* (StorageBridge), the rest of the worker as far as the lane sees it --   *)
(* it takes lines, replies to each request once (Worker, AnsweredOnce),    *)
(* sends events, and may end at any time -- and the host, which carries    *)
(* out what it was asked whenever it likes, be it after the carrier gave   *)
(* up on it, or never.                                                     *)
EXTENDS Carrier, StorageBridge

CONSTANT Loads  \* bounds of the model: who wants what of the lane
ASSUME LaneAssumption ==
    \A l \in Loads : l.owners \subseteq Owners /\ l.requests \in 0 .. MaxRequests
                        /\ l.events \in Nat /\ l.faults \subseteq {"ends", "breaks"}

VARIABLES
    load,      \* the load of this behaviour
    taken,     \* requests the worker owes a reply
    seen,      \* requests that reached the worker
    produced,  \* events the worker sent
    over,      \* the worker has ended
    file,      \* the version of the private file at the host
    staged,    \* owners whose candidate is staged there
    applied,   \* owners whose candidate became the file
    calls      \* writes the host was asked for and has not carried out

worker == <<taken, seen, produced, over>>
host == <<file, staged, applied, calls>>
vars == <<carrierVars, bridgeVars, load, worker, host>>

Init ==
    /\ CarrierInit /\ BridgeInit
    /\ load \in Loads
    /\ taken = {} /\ seen = {} /\ produced = 0 /\ over = FALSE
    /\ file \in {Absent, Other} /\ staged = {} /\ applied = {} /\ calls = {}

-----------------------------------------------------------------------------
Writes == {"stage", "publish"}

(* The worker beside its bridge.  It takes the carrier's lines in order,   *)
(* and hands an answer to the bridge.                                      *)
InWorker == ~over /\ UNCHANGED <<load, host>>
Taken ==
    /\ InWorker /\ toWorker # <<>> /\ toWorker' = Tail(toWorker)
    /\ UNCHANGED <<writes, writer, fromWorker, lane, storage, delivery, produced>>
TakeRequest ==
    /\ Taken /\ Head(toWorker).type = "request"
    /\ taken' = taken \cup {Head(toWorker).id} /\ seen' = seen \cup {Head(toWorker).id}
    /\ UNCHANGED <<bridgeVars, over>>
TakeAnswer ==
    /\ Taken /\ Head(toWorker).type = "answer"
    /\ Accept(Head(toWorker).id, Head(toWorker).answer)
    /\ UNCHANGED <<taken, seen, over>>

(* What it says goes to the carrier in one order.                          *)
Send(line) ==
    /\ InWorker /\ fromWorker' = Append(fromWorker, line)
    /\ UNCHANGED <<writes, writer, toWorker, lane, storage, delivery, over>>
ReplyTo(r) ==
    /\ Send([type |-> "reply", id |-> r]) /\ r \in taken
    /\ taken' = taken \ {r}
    /\ UNCHANGED <<bridgeVars, seen, produced>>
SendEvent ==
    /\ produced < load.events /\ seen # {}
    /\ Send([type |-> "event", id |-> produced + 1]) /\ produced' = produced + 1
    /\ UNCHANGED <<bridgeVars, taken, seen>>
SendQuery(o) ==
    /\ Send([type |-> "query", query |-> Query(o)]) /\ Ask(o)
    /\ UNCHANGED <<taken, seen, produced>>

(* Its sessions and the threads that use the bridge.                       *)
Bridge(Step) ==
    /\ InWorker /\ Step
    /\ UNCHANGED <<carrierVars, worker>>
BeginSession == Bridge(Begin)
CancelSession == Bridge(Cancel)
StartOwner(o) == o \in load.owners /\ Bridge(Start(o))
OwnerStep(o) == Bridge(OwnerSteps(o))

(* It ends on its own, on the end of its input, or killed; its threads end *)
(* with it.                                                                *)
WorkerEnds ==
    /\ ~over /\ (stop \/ "ends" \in load.faults) /\ over' = TRUE
    /\ UNCHANGED <<carrierVars, bridgeVars, load, taken, seen, produced, host>>

-----------------------------------------------------------------------------
(* The carrier.                                                            *)
InCarrier == UNCHANGED <<bridgeVars, load, worker, host>>
HostAsks == Len(told) < load.requests /\ Enqueue /\ InCarrier
Deadline == Expire /\ InCarrier
Writer == (Dequeue \/ Encode) /\ InCarrier
PipeBreaks == (stop \/ over) /\ EncodeFails /\ InCarrier
Reader == (ReadQuery \/ ReadEvent \/ ReadReply) /\ InCarrier
OutputEnds == over /\ fromWorker = <<>> /\ ReadEnds(FALSE) /\ InCarrier
OutputBreaks == "breaks" \in load.faults /\ ReadEnds(TRUE) /\ InCarrier
Server == (ServeAnswer \/ ServeNoAnswer) /\ InCarrier
Forwarder == (Forward \/ ForwardEnds) /\ InCarrier
HostLaneRefuses == ForwardFails /\ InCarrier
Ending == (Announce \/ Vouch) /\ InCarrier
EndingLate == Unproven /\ InCarrier

(* A query is put to the host.                                             *)
CallHost ==
    /\ Serve /\ calls' = calls \cup {q \in {Head(snapshots)} : q.step \in Writes}
    /\ UNCHANGED <<bridgeVars, load, worker, file, staged, applied>>

-----------------------------------------------------------------------------
(* The host.  It answers while the carrier waits, and may carry out a      *)
(* write long after.                                                       *)
Answer(q, a) ==
    /\ server' = IF server.query = {q} THEN [server EXCEPT !.answer = {a}] ELSE server
    /\ calls' = calls \ {q}
    /\ UNCHANGED <<lane, pipes, snapshots, delivery, bridgeVars, load, worker>>
ReadFile(q) ==
    /\ q.step \notin Writes /\ server.answer = {}
    /\ Answer(q, [kind |-> "value", version |-> file])
    /\ UNCHANGED <<file, staged, applied>>
Stage(q) ==
    /\ q.step = "stage"
    /\ Answer(q, [kind |-> "value"]) /\ staged' = staged \cup {q.owner}
    /\ UNCHANGED <<file, applied>>
Publish(q) ==
    /\ q.step = "publish" /\ file = q.base /\ q.owner \in staged
    /\ Answer(q, [kind |-> "value"])
    /\ file' = q.owner /\ applied' = applied \cup {q.owner}
    /\ UNCHANGED staged
Mismatch(q) ==
    /\ q.step = "publish" /\ file # q.base
    /\ Answer(q, [kind |-> "mismatch"])
    /\ UNCHANGED <<file, staged, applied>>

Next ==
    \/ TakeRequest \/ TakeAnswer \/ SendEvent
    \/ \E r \in taken : ReplyTo(r)
    \/ BeginSession \/ CancelSession \/ WorkerEnds
    \/ \E o \in Owners : StartOwner(o) \/ SendQuery(o) \/ OwnerStep(o)
    \/ HostAsks \/ Deadline \/ Writer \/ PipeBreaks \/ Reader \/ OutputEnds \/ OutputBreaks
    \/ CallHost \/ Server \/ Forwarder \/ HostLaneRefuses \/ Ending \/ EndingLate
    \/ \E q \in server.query : ReadFile(q)
    \/ \E q \in calls : Stage(q) \/ Publish(q) \/ Mismatch(q)

(* The threads that use the bridge run, deadlines are looked at, and the   *)
(* carrier's last words are spoken in their time.  Nothing is assumed of   *)
(* the host, of the pipes, nor that the worker takes, replies or ends.     *)
Fairness ==
    /\ WF_vars(\E o \in Owners : SendQuery(o) \/ OwnerStep(o))
    /\ WF_vars(Deadline) /\ WF_vars(EndingLate)
Spec == Init /\ [][Next]_vars /\ Fairness

-----------------------------------------------------------------------------
Steps == {"page", "check", "stage", "publish", "back", "backcheck"}
QueryType == [id : Nat \ {0}, owner : Owners, step : Steps, base : Versions]

(* Every variable keeps its type, and a query is known to one holder only: *)
(* a request the worker owes was seen, the bridge waits only while an owner*)
(* holds it, and the channels hold what they have room for.                *)
TypeOK ==
    /\ pending \subseteq DOMAIN told /\ written \subseteq DOMAIN told /\ taken \subseteq seen
    /\ Len(writes) <= WriteCapacity /\ Cardinality(pending) <= PendingCapacity
    /\ Len(events) <= EventCapacity /\ Len(snapshots) <= 1 /\ Len(writer) <= 1
    /\ server.query \subseteq QueryType /\ calls \subseteq QueryType
    /\ \A o \in Owners : op[o].epoch <= epoch /\ op[o].step \in Steps
                            /\ {op[o].base, op[o].got} \subseteq Versions
    /\ asked # 0 => busy /\ live /\ asked = next
    /\ (\E o \in Owners : op[o].pc = "asked") => busy
    /\ verdict \in {"none", "delivered", "unproven"} /\ forwarder \in {"on", "ended", "failed"}

(* Storage tells the truth.  What an owner was told to be published was    *)
(* put in place by the host, and of what it was told to be unchanged its   *)
(* candidate never was and never will be: no request to publish it is on   *)
(* its way.  The bridge has one owner, which came in the present session,  *)
(* and is never given a second answer to what it asked, which would end    *)
(* the worker.  (snapshot_bridge.cpp, exchange, accept, acquire, publish)  *)
OnTheirWay ==
    calls \cup server.query
    \cup {snapshots[i] : i \in DOMAIN snapshots}
    \cup {fromWorker[i].query : i \in {j \in DOMAIN fromWorker : fromWorker[j].type = "query"}}
StorageToldTruth ==
    /\ \A i \in DOMAIN toWorker : toWorker[i].type = "answer" => ~Repeated(toWorker[i].id)
    /\ \A o \in Owners :
      /\ op[o].told = "published" => o \in applied
      /\ op[o].told = "unchanged" =>
           /\ o \notin applied
           /\ \A q \in OnTheirWay : ~(q.owner = o /\ q.step = "publish")
      /\ op[o].pc \in {"asking", "asked"} =>
           /\ busy /\ op[o].epoch = epoch
           /\ \A p \in Owners \ {o} : op[p].pc \notin {"asking", "asked"}

(* The host is told one thing of each of its requests: the worker's reply, *)
(* which the worker gave, or that it was not sent, and then it never       *)
(* reaches the worker.  (main.go, fail, startLane, read, enqueue)          *)
RequestToldTruth ==
    \A r \in DOMAIN told :
      /\ Len(told[r]) <= 1
      /\ told[r] \in {<<"not sent">>, <<"refused">>} =>
           /\ r \notin seen
           /\ \A pipe \in {toWorker, writer} : \A i \in DOMAIN pipe :
                ~(pipe[i].type = "request" /\ pipe[i].id = r)
      /\ told[r] = <<"answered">> => r \in seen \ taken

(* And of its events: when the carrier ends without saying that their      *)
(* delivery is unproven, the host took every event the worker had sent.    *)
(* (main.go, read, forward, handoff)                                       *)
EventsToldTruth == verdict = "delivered" => delivered = produced

(* What the carrier tells the host at any time, and at its end, is true.   *)
(* (main.go, fail, startLane, read, enqueue, forward, handoff)             *)
HostToldTruth == RequestToldTruth /\ EventsToldTruth

(* Whatever the host does, the lane comes to rest: no request waits, no    *)
(* owner works or waits for the bridge, and a lane that ended has had its  *)
(* last word.  (main.go, startLane, handoff; snapshot_bridge.cpp)          *)
InUse(o) == op[o].pc \notin {"idle", "done"}
AtRest ==
    /\ pending = {} /\ (stop => verdict # "none")
    /\ over \/ (~busy /\ \A o \in Owners : ~InUse(o))
LaneSettles == []<>AtRest
=============================================================================
