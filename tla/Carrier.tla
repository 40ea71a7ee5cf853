------------------------------- MODULE Carrier -------------------------------
(* The carrier's private lane to its worker (src/plugin/native/main.go,    *)
(* snapshot.go): the requests it passes on and the answers it gives the    *)
(* host, the one writer, the ticker that watches the deadlines, the reader *)
(* of the worker's output, the goroutine that serves the worker's storage  *)
(* queries, the one that forwards events to the host, and what the carrier *)
(* says of those events at its end.                                        *)
(*                                                                         *)
(* A deadline may pass whenever something is waited for: no property here  *)
(* rests on one limit being longer than another.  A line that does not     *)
(* parse, a second readiness and the settings lane (ReplyVoice) are left   *)
(* out, and so is an end that the host's own lane begins: nobody is then   *)
(* left to be answered.                                                    *)
EXTENDS Naturals, Sequences, FiniteSets

CONSTANTS
    PendingCapacity,  \* requests waiting for the worker, 64
    WriteCapacity,    \* lines waiting for the writer, 64
    EventCapacity,    \* events waiting for the host, 64
    MaxRequests       \* bound of the model

ASSUME CarrierAssumption ==
    /\ {PendingCapacity, WriteCapacity, EventCapacity} \subseteq Nat \ {0}
    /\ MaxRequests \in Nat

VARIABLES
    stop,                  \* fail() closed the lane
    pending,               \* requests the worker has yet to answer
    written,               \* requests the writer took
    told,                  \* what the host was told of each of its requests
    writes,                \* the channel to the writer
    writer,                \* the line the writer is encoding
    toWorker, fromWorker,  \* the two pipes
    snapshots,             \* the channel to the storage goroutine, one place
    server,                \* the query it serves, and the host's answer
    events,                \* the channel to the forwarder
    delivered,             \* events the host's lane took
    dropped, unread,       \* an event found no room; the output broke off
    readDone, settle,      \* two channels that are closed once
    forwarder,             \* "on", "ended" or "failed"
    verdict                \* what the end of the carrier says of the events

lane == <<stop, pending, written, told>>
pipes == <<writes, writer, toWorker, fromWorker>>
storage == <<snapshots, server>>
delivery == <<events, delivered, dropped, unread, readDone, settle, forwarder, verdict>>
carrierVars == <<lane, pipes, storage, delivery>>

Free == [query |-> {}, answer |-> {}]

CarrierInit ==
    /\ stop = FALSE /\ pending = {} /\ written = {} /\ told = <<>>
    /\ writes = <<>> /\ writer = <<>> /\ toWorker = <<>> /\ fromWorker = <<>>
    /\ snapshots = <<>> /\ server = Free
    /\ events = <<>> /\ delivered = 0 /\ dropped = FALSE /\ unread = FALSE
    /\ readDone = FALSE /\ settle = FALSE /\ forwarder = "on" /\ verdict = "none"

-----------------------------------------------------------------------------
(* The end of the lane, once: a request the writer has not taken was not   *)
(* sent, and the host is told so; one it has taken may have been seen by   *)
(* the worker, and nothing is said of it.                                  *)
OwedWritten == pending
Owed == pending \ written
Fail ==
    IF stop THEN UNCHANGED lane ELSE
      /\ stop' = TRUE /\ pending' = {}
      /\ told' = [r \in DOMAIN told |->
                    IF r \in Owed THEN Append(told[r], "not sent") ELSE told[r]]
      /\ UNCHANGED written

(* The host's next request: refused when the lane ended, when too many     *)
(* wait for the worker and when the queue to the writer is full, otherwise *)
(* queued with its deadline running.                                       *)
Full == Cardinality(pending) >= PendingCapacity \/ Len(writes) >= WriteCapacity
Enqueue ==
    LET r == Len(told) + 1 IN
    /\ r <= MaxRequests
    /\ IF stop \/ Full
         THEN told' = Append(told, <<"refused">>) /\ UNCHANGED <<pending, writes>>
         ELSE /\ told' = Append(told, <<>>)
              /\ pending' = pending \cup {r}
              /\ writes' = Append(writes, [type |-> "request", id |-> r])
    /\ UNCHANGED <<stop, written, writer, toWorker, fromWorker, storage, delivery>>

(* A deadline passes; the worker may have seen the request: the lane ends. *)
Expire ==
    /\ pending # {} /\ Fail
    /\ UNCHANGED <<pipes, storage, delivery>>

(* The writer takes a line.  Both channels of its select may be ready, so  *)
(* it looks again under the lock whether the lane has ended, and only then *)
(* marks the request as written.                                           *)
MayWriteUnlooked == TRUE
MayWrite == ~stop
Dequeue ==
    /\ writer = <<>> /\ writes # <<>> /\ MayWrite
    /\ writer' = <<Head(writes)>> /\ writes' = Tail(writes)
    /\ written' = written \cup
         {r \in pending : Head(writes).type = "request" /\ Head(writes).id = r}
    /\ UNCHANGED <<stop, pending, told, toWorker, fromWorker, storage, delivery>>

(* It encodes the line with the lock released; the pipe may be closed.     *)
Encode ==
    /\ writer # <<>> /\ writer' = <<>>
    /\ toWorker' = Append(toWorker, Head(writer))
    /\ UNCHANGED <<lane, writes, fromWorker, storage, delivery>>
EncodeFails ==
    /\ writer # <<>> /\ writer' = <<>>
    /\ Fail
    /\ UNCHANGED <<writes, toWorker, fromWorker, storage, delivery>>

-----------------------------------------------------------------------------
(* The reader, one line of the worker's output at a time, to its end even  *)
(* when the lane has ended.                                                *)
Line == Head(fromWorker)
Received ==
    /\ ~readDone /\ fromWorker # <<>> /\ fromWorker' = Tail(fromWorker)
    /\ UNCHANGED <<writes, writer, toWorker>>
ReadQuery ==
    /\ Received /\ Line.type = "query"
    /\ IF snapshots = <<>>
         THEN snapshots' = <<Line.query>> /\ UNCHANGED lane
         ELSE Fail /\ UNCHANGED snapshots
    /\ UNCHANGED <<server, delivery>>
ReadEvent ==
    /\ Received /\ Line.type = "event"
    /\ IF Len(events) < EventCapacity
         THEN events' = Append(events, Line.id) /\ UNCHANGED <<lane, dropped>>
         ELSE dropped' = TRUE /\ Fail /\ UNCHANGED events
    /\ UNCHANGED <<delivered, unread, readDone, settle, forwarder, verdict, storage>>
ReadReply ==
    /\ Received /\ Line.type = "reply"
    /\ IF Line.id \in pending
         THEN /\ pending' = pending \ {Line.id}
              /\ told' = [told EXCEPT ![Line.id] = Append(@, "answered")]
              /\ UNCHANGED <<stop, written>>
         ELSE Fail
    /\ UNCHANGED <<storage, delivery>>

(* The output ends, or what is left of it cannot be read.                  *)
ReadEnds(broken) ==
    /\ ~readDone /\ readDone' = TRUE
    /\ unread' = broken
    /\ Fail
    /\ UNCHANGED <<events, delivered, dropped, settle, forwarder, verdict, pipes, storage>>

-----------------------------------------------------------------------------
(* The storage goroutine serves one query at a time.  The host's answer is *)
(* passed on; without one in time, or with one that does not fit, the      *)
(* reply is an error; a lane that has ended gets none.                     *)
Serve ==
    /\ ~stop /\ server = Free /\ snapshots # <<>>
    /\ server' = [query |-> {Head(snapshots)}, answer |-> {}]
    /\ snapshots' = Tail(snapshots)
    /\ UNCHANGED <<lane, pipes, delivery>>
SendAnswer(q, a) ==
    /\ server' = Free
    /\ IF stop THEN UNCHANGED <<lane, writes>>
       ELSE IF Len(writes) < WriteCapacity
         THEN writes' = Append(writes, [type |-> "answer", id |-> q.id, answer |-> a])
              /\ UNCHANGED lane
         ELSE Fail /\ UNCHANGED writes
    /\ UNCHANGED <<snapshots, writer, toWorker, fromWorker, delivery>>
ServeAnswer == \E q \in server.query, a \in server.answer : SendAnswer(q, a)
ServeNoAnswer == \E q \in server.query : SendAnswer(q, [kind |-> "error"])

-----------------------------------------------------------------------------
(* The forwarder hands the events to the host's lane in their order.  It   *)
(* ends when the reader's end was announced and no event is left, or when  *)
(* the host's lane refuses one, or when there is no session to name.       *)
Forward ==
    /\ forwarder = "on" /\ events # <<>>
    /\ events' = Tail(events) /\ delivered' = delivered + 1
    /\ UNCHANGED <<dropped, unread, readDone, settle, forwarder, verdict, lane, pipes, storage>>
ForwardFails ==
    /\ forwarder = "on" /\ events # <<>>
    /\ events' = Tail(events) /\ forwarder' = "failed"
    /\ IF settle THEN UNCHANGED lane ELSE Fail
    /\ UNCHANGED <<delivered, dropped, unread, readDone, settle, verdict, pipes, storage>>
ForwardEnds ==
    /\ forwarder = "on" /\ settle /\ events = <<>>
    /\ forwarder' = "ended"
    /\ UNCHANGED <<events, delivered, dropped, unread, readDone, settle, verdict,
                   lane, pipes, storage>>

(* The end of the carrier after a fault: it waits for the reader's end,    *)
(* announces it, waits for the forwarder, has the host's lane confirm what *)
(* it took, and vouches for the events when all of that came in time and   *)
(* none was dropped or left unread.                                        *)
ReaderNotAwaited == stop
ReaderSeenOut == readDone
Announce ==
    /\ stop /\ ~settle /\ ReaderSeenOut /\ settle' = TRUE
    /\ UNCHANGED <<events, delivered, dropped, unread, readDone, forwarder, verdict,
                   lane, pipes, storage>>
Say(what) ==
    /\ verdict = "none" /\ verdict' = what
    /\ settle' = TRUE
    /\ UNCHANGED <<events, delivered, dropped, unread, readDone, forwarder,
                   lane, pipes, storage>>
Vouch ==
    /\ settle /\ forwarder = "ended" /\ ~dropped /\ ~unread
    /\ Say("delivered")
Unproven == stop /\ Say("unproven")

=============================================================================
