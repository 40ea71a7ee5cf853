---------------------------- MODULE StorageBridge ----------------------------
(* The worker's bridge to the host's storage                               *)
(* (src/runtime/native/session/snapshot_bridge.cpp): one owner at a time   *)
(* reads a private file or publishes a new version of it, one query after  *)
(* the other, for the session the bridge was begun for.                    *)
(*                                                                         *)
(* An owner reads a file and, unless it is a reader, publishes its own     *)
(* candidate over the version it read, as every change of the enrollment   *)
(* does (worker.cpp, enroll).  A file of any size is read in one page and  *)
(* read back at once; a candidate is staged in one piece.  Sessions bear   *)
(* the same name, so that only the bridge's own epoch tells them apart.    *)
(* A deadline may pass at any wait.  The memory of the last 64 requests is *)
(* unbounded: the carrier never holds more than two.                       *)
EXTENDS Naturals, FiniteSets

CONSTANTS
    Owners,
    Readers,   \* owners that only read
    Absent,    \* the version of a file that does not exist
    Other,     \* a version another writer of the host's storage leaves
    MaxEpochs  \* bound of the model: sessions begun

ASSUME BridgeAssumption ==
    /\ Readers \subseteq Owners /\ IsFiniteSet(Owners) /\ MaxEpochs \in Nat
    /\ Absent # Other /\ {Absent, Other} \cap Owners = {}

VARIABLES live, busy, epoch, next, asked, reply, op

bridgeVars == <<live, busy, epoch, next, asked, reply, op>>
\* asked is the source's pending_, 0 when no request is waited for
\* op[o]: where the owner is, what it read, and what its caller was told

Versions == Owners \cup {Absent, Other}
NoReply == [kind |-> "none"]
Unstarted ==
    [pc |-> "idle", step |-> "page", epoch |-> 0, base |-> Absent, got |-> Absent,
     sent |-> FALSE, told |-> "nothing"]

BridgeInit ==
    /\ live = FALSE /\ busy = FALSE /\ epoch = 0
    /\ next = 0 /\ asked = 0 /\ reply = NoReply
    /\ op = [o \in Owners |-> Unstarted]

-----------------------------------------------------------------------------
(* A session begins, which the bridge refuses while an owner works; the    *)
(* owners waiting for their turn belong to the session before.             *)
Begin ==
    /\ ~busy /\ asked = 0 /\ epoch < MaxEpochs
    /\ epoch' = epoch + 1 /\ live' = TRUE /\ reply' = NoReply
    /\ UNCHANGED <<busy, next, asked, op>>
Cancel ==
    /\ live /\ live' = FALSE /\ asked' = 0
    /\ UNCHANGED <<busy, epoch, next, reply, op>>

(* The carrier's answer to a request: that of an earlier one is ignored,   *)
(* and a second one to the present one is an error of the carrier.         *)
AwaitedAny(id) == live /\ asked # 0
Awaited(id) == live /\ id = asked
Repeated(id) == Awaited(id) /\ reply # NoReply
Accept(id, a) ==
    /\ ~Repeated(id)
    /\ reply' = IF Awaited(id) THEN a ELSE reply
    /\ UNCHANGED <<live, busy, epoch, next, asked, op>>

-----------------------------------------------------------------------------
(* An owner waits for its turn, and leaves the wait when the session it    *)
(* came in is cancelled or replaced, or when its deadline passes.          *)
Wait(o) ==
    /\ op[o].pc = "idle"
    /\ op' = [op EXCEPT ![o].pc = "waiting", ![o].epoch = epoch]
    /\ UNCHANGED <<live, busy, epoch, next, asked, reply>>
Start(o) == op[o].step = "page" /\ live /\ Wait(o)
Return(o) == op[o].step = "stage" /\ Wait(o)
AnySession(o) == TRUE
SameSession(o) == op[o].epoch = epoch
MayHold(o) == live /\ SameSession(o) /\ ~busy
Acquire(o) ==
    /\ op[o].pc = "waiting" /\ MayHold(o) /\ busy' = TRUE
    /\ op' = [op EXCEPT ![o].pc = "asking"]
    /\ UNCHANGED <<live, epoch, next, asked, reply>>
Leave(o) ==
    /\ op[o].pc = "waiting"
    /\ op' = [op EXCEPT ![o].pc = "done",
                        ![o].told = IF op[o].step = "page" THEN "failed" ELSE "unchanged"]
    /\ UNCHANGED <<live, busy, epoch, next, asked, reply>>

(* One exchange: the request leaves with the bridge unlocked.              *)
Query(o) == [id |-> next + 1, owner |-> o, step |-> op[o].step, base |-> op[o].base]
Ask(o) ==
    /\ op[o].pc = "asking" /\ live
    /\ next' = next + 1 /\ asked' = next + 1 /\ reply' = NoReply
    /\ op' = [op EXCEPT ![o].pc = "asked"]
    /\ UNCHANGED <<live, busy, epoch>>

(* The owner is done with the bridge, and its caller is told of it.  A     *)
(* failure once the publication was requested leaves it unresolved.        *)
Release == busy' = FALSE /\ asked' = 0
Failure(w) ==
    IF w.sent THEN "unresolved"
    ELSE IF w.step = "page" \/ w.step = "check" THEN "failed" ELSE "unchanged"
ThrowsHolding(o) ==
    /\ UNCHANGED busy /\ asked' = 0
    /\ op' = [op EXCEPT ![o].pc = "done", ![o].told = Failure(op[o])]
    /\ UNCHANGED <<live, epoch, next>>
Throws(o) ==
    /\ Release
    /\ op' = [op EXCEPT ![o].pc = "done", ![o].told = Failure(op[o])]
    /\ UNCHANGED <<live, epoch, next>>

(* Cancelled, or out of time, before or after it asked.                    *)
GiveUp(o) ==
    /\ op[o].pc = "asking" \/ (op[o].pc = "asked" /\ (~live \/ reply = NoReply))
    /\ Throws(o) /\ UNCHANGED reply

(* The answers an owner goes on from, and to which step: a page must be    *)
(* read back unchanged, a candidate is staged before it is published, and  *)
(* a publication is read back.                                             *)
Fits(w) ==
    /\ reply.kind = "value"
    /\ CASE w.step = "page" -> TRUE
         [] w.step = "check" -> reply.version = w.got
         [] w.step = "back" -> reply.version # Absent
         [] w.step = "backcheck" -> reply.version = w.got
         [] OTHER -> TRUE
Then(step) ==
    CASE step = "page" -> "check"
      [] step = "stage" -> "publish"
      [] step = "publish" -> "back"
      [] OTHER -> "backcheck"
Answered(o) == op[o].pc = "asked" /\ live /\ reply # NoReply
Noted(w) == IF w.step \in {"page", "back"} THEN reply.version ELSE w.got
RequestedOnceAnswered(w) == w.sent \/ w.step = "publish"
Requested(w) == w.sent \/ w.step = "stage"
HasRead(w) == w.step = "check" \/ (w.step = "page" /\ reply.version = Absent)
GoOn(o) ==
    LET w == op[o] IN
    /\ Answered(o) /\ Fits(w) /\ ~HasRead(w) /\ w.step # "backcheck"
    /\ op' = [op EXCEPT ![o].pc = "asking", ![o].step = Then(w.step), ![o].got = Noted(w),
                        ![o].sent = Requested(w)]
    /\ asked' = 0 /\ reply' = NoReply
    /\ UNCHANGED <<live, busy, epoch, next>>

(* The file is read: the bridge is released, and the owner that wants to   *)
(* change it comes back for it.                                            *)
Read(o) ==
    LET w == op[o] IN
    /\ Answered(o) /\ Fits(w) /\ HasRead(w) /\ Release
    /\ op' = [op EXCEPT ![o].pc = IF o \in Readers THEN "done" ELSE "idle",
                        ![o].step = "stage", ![o].base = Noted(w), ![o].told = "read"]
    /\ reply' = NoReply
    /\ UNCHANGED <<live, epoch, next>>

(* The publication was read back; another candidate there, and it is       *)
(* unresolved.                                                             *)
ReadBack(o) ==
    LET w == op[o] IN
    /\ Answered(o) /\ Fits(w) /\ w.step = "backcheck" /\ Release
    /\ op' = [op EXCEPT ![o].pc = "done",
                        ![o].told = IF w.got = o THEN "published" ELSE "unresolved"]
    /\ reply' = NoReply
    /\ UNCHANGED <<live, epoch, next>>

(* The host says that the file is not what the owner read: not published.  *)
Conflict(o) ==
    /\ Answered(o) /\ op[o].step = "publish" /\ reply.kind = "mismatch" /\ Release
    /\ op' = [op EXCEPT ![o].pc = "done", ![o].told = "unchanged"]
    /\ reply' = NoReply
    /\ UNCHANGED <<live, epoch, next>>

(* Any other answer ends the operation.                                    *)
Unfit(o) ==
    /\ Answered(o) /\ ~Fits(op[o])
    /\ ~(op[o].step = "publish" /\ reply.kind = "mismatch")
    /\ Throws(o) /\ reply' = NoReply

OwnerSteps(o) ==
    Return(o) \/ Acquire(o) \/ Leave(o) \/ GiveUp(o) \/ GoOn(o) \/ Read(o) \/ ReadBack(o)
        \/ Conflict(o) \/ Unfit(o)
=============================================================================
