----------------------------- MODULE LaneProofs -----------------------------
(***************************************************************************)
(* What the carrier tells the host is true, for any number of requests,    *)
(* events and owners of storage, all bounds of the queues, and whatever    *)
(* fails: a request is answered, refused or called not sent once, and only *)
(* one that never reaches the worker is called not sent; a delivery the    *)
(* carrier vouches for is complete.                                        *)
(***************************************************************************)
EXTENDS Lane, SequenceTheorems, FiniteSetTheorems, TLAPS

ProperSeq(s) == s \in Seq({s[i] : i \in DOMAIN s})
RequestsIn(s) == {i \in DOMAIN s : s[i].type = "request"}
Owing == <<>>
Replied == <<"answered">>
Unsent == <<"not sent">>
Refused == <<"refused">>
Said == {Owing, Replied, Unsent, Refused}

(* What the host was told of a request agrees with what became of it:      *)
(* only a request in pending is still owed a word, and nothing the writer  *)
(* took was called not sent.                                               *)
ToldAgrees ==
    /\ told \in Seq(Said)
    /\ pending \subseteq DOMAIN told /\ \A r \in pending : told[r] = Owing
    /\ stop => pending = {}
    /\ written \subseteq DOMAIN told
    /\ \A r \in written : told[r] \notin {Unsent, Refused}
    /\ taken \subseteq seen /\ seen \subseteq written
    /\ \A r \in DOMAIN told : told[r] = Replied => r \in seen \ taken

(* A request is in one place on its way to the worker.                     *)
QueuedOnce ==
    /\ ProperSeq(writes)
    /\ \A i \in RequestsIn(writes) :
         /\ writes[i].id \in DOMAIN told \ written
         /\ ~stop => writes[i].id \in pending
    /\ \A i, j \in RequestsIn(writes) : writes[i].id = writes[j].id => i = j
SentOnce ==
    /\ ProperSeq(writer) /\ Len(writer) <= 1 /\ ProperSeq(toWorker)
    /\ \A i \in RequestsIn(writer) : writer[i].id \in written \ seen
    /\ \A i \in RequestsIn(toWorker) : toWorker[i].id \in written \ seen
    /\ \A i, j \in RequestsIn(toWorker) : toWorker[i].id = toWorker[j].id => i = j
    /\ \A i \in RequestsIn(writer), j \in RequestsIn(toWorker) :
         writer[i].id # toWorker[j].id
(* A reply in the pipe is to a request the worker has settled.             *)
RepliesSettled ==
    /\ ProperSeq(fromWorker)
    /\ \A i \in DOMAIN fromWorker :
         fromWorker[i].type = "reply" => fromWorker[i].id \in seen \ taken
RequestInv == ToldAgrees /\ QueuedOnce /\ SentOnce /\ RepliesSettled

(* Every event the worker sent was delivered, or waits for the forwarder,  *)
(* or is still in the pipe, each once and in its order.                    *)
Events == {i \in DOMAIN fromWorker : fromWorker[i].type = "event"}
Forwarded == delivered + Len(events)
EventsCounted ==
    /\ Forwarded <= produced
    /\ \A i \in Events : fromWorker[i].id \in Forwarded + 1 .. produced
    /\ \A i, j \in Events : i < j => fromWorker[i].id < fromWorker[j].id
    /\ \A n \in Forwarded + 1 .. produced : \E i \in Events : fromWorker[i].id = n
EventInv ==
    /\ delivered \in Nat /\ produced \in Nat /\ ProperSeq(events) /\ ProperSeq(fromWorker)
    /\ Len(events) \in Nat
    /\ ~dropped /\ forwarder # "failed" => EventsCounted
    /\ readDone /\ ~unread => fromWorker = <<>> /\ over
    /\ settle /\ verdict # "unproven" => readDone
    /\ forwarder = "ended" /\ verdict # "unproven" => readDone /\ events = <<>>
    /\ verdict = "delivered" => over /\ forwarder = "ended" /\ delivered = produced

-----------------------------------------------------------------------------
(* Sequences.                                                              *)
LEMMA SeqOfItsRange ==
  ASSUME NEW S, NEW s \in Seq(S)
  PROVE  s \in Seq({s[i] : i \in DOMAIN s})
  <1> DEFINE R == {s[i] : i \in DOMAIN s}
  <1>1. Len(s) \in Nat /\ DOMAIN s = 1..Len(s) /\ s = [i \in 1..Len(s) |-> s[i]]
    OBVIOUS
  <1>2. \A i \in 1..Len(s) : s[i] \in R
    BY <1>1
  <1> HIDE DEF R
  <1>3. [i \in 1..Len(s) |-> s[i]] \in [1..Len(s) -> R]
    BY <1>2
  <1>4. [i \in 1..Len(s) |-> s[i]] \in Seq(R)
    BY <1>1, <1>3, SeqDef
  <1> QED
    BY <1>1, <1>4 DEF R

LEMMA AppendFacts ==
  ASSUME NEW s, ProperSeq(s), NEW e
  PROVE  /\ ProperSeq(Append(s, e)) /\ Len(s) \in Nat /\ Len(Append(s, e)) = Len(s) + 1
         /\ DOMAIN s = 1..Len(s) /\ DOMAIN Append(s, e) = 1..Len(s) + 1
         /\ \A i \in 1..Len(s) : Append(s, e)[i] = s[i]
         /\ Append(s, e)[Len(s) + 1] = e
  <1> DEFINE S == {s[i] : i \in DOMAIN s}
             T == S \cup {e}
             a == Append(s, e)
  <1>1. s \in Seq(T)
    <2>1. S \subseteq T
      OBVIOUS
    <2>2. s \in Seq(S)
      BY DEF ProperSeq
    <2> HIDE DEF S, T
    <2> QED
      BY <2>1, <2>2
  <1>2. e \in T
    OBVIOUS
  <1> HIDE DEF T, S
  <1>3. /\ a \in Seq(T) /\ Len(s) \in Nat /\ Len(a) = Len(s) + 1
        /\ DOMAIN s = 1..Len(s) /\ DOMAIN a = 1..Len(s) + 1
        /\ \A i \in 1..Len(s) : a[i] = s[i]
        /\ a[Len(s) + 1] = e
    BY <1>1, <1>2
  <1>4. a \in Seq({a[i] : i \in DOMAIN a})
    BY <1>3, SeqOfItsRange DEF a
  <1> QED
    BY <1>3, <1>4 DEF ProperSeq

LEMMA TailFacts ==
  ASSUME NEW s, ProperSeq(s), s # <<>>
  PROVE  /\ ProperSeq(Tail(s)) /\ Len(s) \in Nat \ {0} /\ Len(Tail(s)) = Len(s) - 1
         /\ DOMAIN s = 1..Len(s) /\ DOMAIN Tail(s) = 1..Len(s) - 1
         /\ \A i \in 1..Len(s) - 1 : Tail(s)[i] = s[i + 1]
         /\ Head(s) = s[1]
  <1> DEFINE S == {s[i] : i \in DOMAIN s}
             t == Tail(s)
  <1>1. s \in Seq(S)
    BY DEF ProperSeq
  <1> HIDE DEF S
  <1>2. /\ t \in Seq(S) /\ Len(s) \in Nat \ {0} /\ Len(t) = Len(s) - 1
        /\ DOMAIN s = 1..Len(s) /\ DOMAIN t = 1..Len(s) - 1
        /\ \A i \in 1..Len(s) - 1 : t[i] = s[i + 1]
        /\ Head(s) = s[1]
    BY <1>1
  <1> HIDE DEF t
  <1>3. t \in Seq({t[i] : i \in DOMAIN t})
    BY <1>2, SeqOfItsRange
  <1> QED
    BY <1>2, <1>3 DEF ProperSeq, t

-----------------------------------------------------------------------------
(* Requests.                                                               *)
LEMMA InitRequestInv == Init => RequestInv
  <1> SUFFICES ASSUME Init PROVE RequestInv
    OBVIOUS
  <1>1. ProperSeq(<<>>)
    BY DEF ProperSeq
  <1> QED
    BY <1>1 DEF Init, CarrierInit, RequestInv, ToldAgrees, QueuedOnce, SentOnce,
       RepliesSettled, RequestsIn

(* The words said to the host.                                             *)
LEMMA Words ==
  /\ Owing \in Said /\ Refused \in Said /\ Unsent \in Said /\ Replied \in Said
  /\ Owing # Refused /\ Owing # Unsent /\ Owing # Replied
  /\ Refused # Unsent /\ Refused # Replied /\ Unsent # Replied
  /\ Append(Owing, "answered") = Replied /\ Append(Owing, "not sent") = Unsent
  <1>1. /\ Owing \in Said /\ Refused \in Said /\ Unsent \in Said /\ Replied \in Said
    BY DEF Said
  <1>2. /\ Owing # Refused /\ Owing # Unsent /\ Owing # Replied
        /\ Refused # Unsent /\ Refused # Replied /\ Unsent # Replied
    BY DEF Owing, Refused, Unsent, Replied
  <1>3. Append(Owing, "answered") = Replied /\ Append(Owing, "not sent") = Unsent
    BY DEF Owing, Unsent, Replied
  <1> QED
    BY <1>1, <1>2, <1>3

LEMMA ToldFacts ==
  ASSUME RequestInv
  PROVE  /\ told \in Seq(Said) /\ Len(told) \in Nat /\ DOMAIN told = 1..Len(told)
         /\ \A r \in DOMAIN told : told[r] \in Said
         /\ \A r \in pending : told[r] = Owing
  <1>1. told \in Seq(Said) /\ \A r \in pending : told[r] = Owing
    BY DEF RequestInv, ToldAgrees
  <1>2. Len(told) \in Nat /\ DOMAIN told = 1..Len(told) /\ \A r \in DOMAIN told : told[r] \in Said
    BY <1>1
  <1> QED
    BY <1>1, <1>2

(* The lane fails.                                                         *)
LEMMA FailKeeps ==
  ASSUME RequestInv, Fail, UNCHANGED <<taken, seen>>
  PROVE  /\ ToldAgrees' /\ written' = written /\ stop' = TRUE
         /\ DOMAIN told' = DOMAIN told
  <1>1. CASE stop
    BY <1>1 DEF Fail, lane, RequestInv, ToldAgrees
  <1>2. CASE ~stop
    <2>1. /\ stop' = TRUE /\ pending' = {} /\ written' = written
          /\ told' = [r \in DOMAIN told |->
                IF r \in pending \ written THEN Append(told[r], "not sent") ELSE told[r]]
      BY <1>2 DEF Fail, Owed
    <2>2. \A r \in DOMAIN told :
            told'[r] = IF r \in pending \ written THEN Unsent ELSE told[r]
      BY <2>1, ToldFacts, Words
    <2>3. told' \in Seq(Said)
      <3>1. /\ DOMAIN told = 1..Len(told) /\ Len(told) \in Nat
            /\ \A r \in DOMAIN told : told[r] \in Said
        BY ToldFacts
      <3>2. told' = [r \in 1..Len(told) |-> told'[r]]
        BY <2>1, <3>1
      <3>3. \A r \in 1..Len(told) : told'[r] \in Said
        BY <2>2, <3>1, Words
      <3>4. [r \in 1..Len(told) |-> told'[r]] \in [1..Len(told) -> Said]
        BY <3>3
      <3> QED
        BY <3>1, <3>2, <3>4, SeqDef
    <2> QED
      BY <2>1, <2>2, <2>3, Words DEF RequestInv, ToldAgrees
  <1> QED
    BY <1>1, <1>2

(* What leaves the queues and the pipes alone, or takes from them.         *)
LEMMA QueueStays ==
  ASSUME QueuedOnce, writes' = writes, written' = written,
         DOMAIN told \subseteq DOMAIN told', stop => stop',
         stop' \/ \A r \in pending : r \in pending' \/ r \in written
  PROVE  QueuedOnce'
  BY DEF QueuedOnce, RequestsIn
LEMMA SentStays ==
  ASSUME SentOnce, writer' \in {writer, <<>>}, toWorker' = toWorker,
         written' = written, seen' = seen
  PROVE  SentOnce'
  <1>1. ProperSeq(<<>>)
    BY DEF ProperSeq
  <1> QED
    BY <1>1 DEF SentOnce, RequestsIn
LEMMA RepliesStay ==
  ASSUME RepliesSettled, UNCHANGED <<taken, seen>>,
         \/ fromWorker' = fromWorker
         \/ fromWorker # <<>> /\ fromWorker' = Tail(fromWorker)
         \/ \E line : line.type # "reply" /\ fromWorker' = Append(fromWorker, line)
  PROVE  RepliesSettled'
  <1>1. CASE fromWorker' = fromWorker
    BY <1>1 DEF RepliesSettled
  <1>2. CASE fromWorker # <<>> /\ fromWorker' = Tail(fromWorker)
    BY <1>2, TailFacts DEF RepliesSettled
  <1>3. CASE \E line : line.type # "reply" /\ fromWorker' = Append(fromWorker, line)
    <2>1. PICK line : line.type # "reply" /\ fromWorker' = Append(fromWorker, line)
      BY <1>3
    <2> QED
      BY <2>1, AppendFacts DEF RepliesSettled
  <1> QED
    BY <1>1, <1>2, <1>3

(* Steps that neither touch a request nor fail.                            *)
LEMMA RequestFrame ==
  ASSUME RequestInv, UNCHANGED <<lane, writes, writer, toWorker, taken, seen>>,
         \/ fromWorker' = fromWorker
         \/ fromWorker # <<>> /\ fromWorker' = Tail(fromWorker)
         \/ \E line : line.type # "reply" /\ fromWorker' = Append(fromWorker, line)
  PROVE  RequestInv'
  BY QueueStays, SentStays, RepliesStay DEF RequestInv, ToldAgrees, lane

(* Steps by which the lane fails.                                          *)
LEMMA FailFrame ==
  ASSUME RequestInv, Fail, UNCHANGED <<writes, toWorker, taken, seen>>,
         writer' \in {writer, <<>>},
         \/ fromWorker' = fromWorker
         \/ fromWorker # <<>> /\ fromWorker' = Tail(fromWorker)
  PROVE  RequestInv'
  <1>1. /\ ToldAgrees' /\ written' = written /\ stop' = TRUE /\ DOMAIN told' = DOMAIN told
    BY FailKeeps
  <1>2. QueuedOnce'
    BY <1>1, QueueStays DEF RequestInv
  <1>3. SentOnce'
    BY <1>1, SentStays DEF RequestInv
  <1>4. RepliesSettled'
    BY RepliesStay DEF RequestInv
  <1> QED
    BY <1>1, <1>2, <1>3, <1>4 DEF RequestInv

(* The carrier.                                                            *)
LEMMA EnqueueKeeps ==
  ASSUME RequestInv, Enqueue, UNCHANGED worker
  PROVE  RequestInv'
  <1> DEFINE r == Len(told) + 1
  <1>1. UNCHANGED <<stop, written, writer, toWorker, fromWorker, taken, seen>>
    BY DEF Enqueue, worker
  <1>2. /\ told \in Seq(Said) /\ Len(told) \in Nat /\ DOMAIN told = 1..Len(told)
        /\ r \notin pending /\ r \notin written /\ r \notin DOMAIN told
    BY ToldFacts DEF RequestInv, ToldAgrees
  <1>3. CASE stop \/ Full
    <2>1. told' = Append(told, Refused) /\ UNCHANGED <<pending, writes>>
      BY <1>3 DEF Enqueue, Refused, Owing
    <2>2. told' \in Seq(Said) /\ DOMAIN told' = DOMAIN told \cup {r}
      <3>1. told' \in Seq(Said) /\ Len(told') = Len(told) + 1
        BY <1>2, <2>1, Words, AppendProperties
      <3>2. DOMAIN told' = 1..r
        BY <3>1, LenProperties
      <3> QED
        BY <1>2, <3>1, <3>2
    <2>3. told'[r] = Refused /\ \A p \in DOMAIN told : told'[p] = told[p]
      BY <1>2, <2>1
    <2>4. ToldAgrees'
      BY <1>1, <1>2, <2>1, <2>2, <2>3, Words DEF RequestInv, ToldAgrees
    <2>5. QueuedOnce'
      BY <1>1, <2>1, <2>2, QueueStays DEF RequestInv
    <2> QED
      BY <1>1, <2>4, <2>5, SentStays, RepliesStay DEF RequestInv
  <1>4. CASE ~(stop \/ Full)
    <2> DEFINE line == [type |-> "request", id |-> r]
    <2>1. /\ told' = Append(told, Owing) /\ pending' = pending \cup {r}
          /\ writes' = Append(writes, line)
      BY <1>4 DEF Enqueue, Refused, Owing
    <2>2. told' \in Seq(Said) /\ DOMAIN told' = DOMAIN told \cup {r}
      <3>1. told' \in Seq(Said) /\ Len(told') = Len(told) + 1
        BY <1>2, <2>1, Words, AppendProperties
      <3>2. DOMAIN told' = 1..r
        BY <3>1, LenProperties
      <3> QED
        BY <1>2, <3>1, <3>2
    <2>3. told'[r] = Owing /\ \A p \in DOMAIN told : told'[p] = told[p]
      BY <1>2, <2>1
    <2>4. ToldAgrees'
      BY <1>1, <1>2, <1>4, <2>1, <2>2, <2>3, Words DEF RequestInv, ToldAgrees
    <2>5. QueuedOnce'
      <3>1. /\ ProperSeq(writes') /\ DOMAIN writes = 1..Len(writes) /\ Len(writes) \in Nat
            /\ DOMAIN writes' = 1..Len(writes) + 1
            /\ \A i \in 1..Len(writes) : writes'[i] = writes[i]
            /\ writes'[Len(writes) + 1] = line
        BY <2>1, AppendFacts DEF RequestInv, QueuedOnce
      <3>2. \A i \in RequestsIn(writes) : writes[i].id \in DOMAIN told
        BY DEF RequestInv, QueuedOnce
      <3> QED
        BY <1>1, <1>2, <2>1, <2>2, <3>1, <3>2 DEF RequestInv, QueuedOnce, RequestsIn
    <2> QED
      BY <1>1, <2>4, <2>5, SentStays, RepliesStay DEF RequestInv
  <1> QED
    BY <1>3, <1>4

(* The writer takes a line: a request is marked as written.                *)
LEMMA DequeueKeeps ==
  ASSUME RequestInv, Dequeue, UNCHANGED worker
  PROVE  RequestInv'
  <1> DEFINE line == Head(writes)
  <1>1. /\ ~stop /\ writer = <<>> /\ writes # <<>>
        /\ writer' = <<line>> /\ writes' = Tail(writes)
        /\ written' = written \cup {r \in pending : line.type = "request" /\ line.id = r}
        /\ UNCHANGED <<stop, pending, told, toWorker, fromWorker, taken, seen>>
    BY DEF Dequeue, MayWrite, worker
  <1>2. /\ ProperSeq(Tail(writes)) /\ Len(writes) \in Nat \ {0}
        /\ DOMAIN writes = 1..Len(writes) /\ DOMAIN Tail(writes) = 1..Len(writes) - 1
        /\ \A i \in 1..Len(writes) - 1 : Tail(writes)[i] = writes[i + 1]
        /\ line = writes[1]
    BY <1>1, TailFacts DEF RequestInv, QueuedOnce
  <1>3. /\ line.type = "request" =>
             /\ line.id \in pending \ written
             /\ written' = written \cup {line.id}
        /\ line.type # "request" => written' = written
    <2>1. line.type = "request" => line.id \in pending \ written
      BY <1>1, <1>2 DEF RequestInv, QueuedOnce, RequestsIn
    <2> QED
      BY <1>1, <2>1
  <1>4. ToldAgrees'
    <2>1. written' \subseteq DOMAIN told /\ written \subseteq written'
      BY <1>1 DEF RequestInv, ToldAgrees
    <2>2. \A r \in written' : told[r] \notin {Unsent, Refused}
      BY <1>1, Words DEF RequestInv, ToldAgrees
    <2> QED
      BY <1>1, <2>1, <2>2 DEF RequestInv, ToldAgrees
  <1>5. QueuedOnce'
    <2>1. \A i \in RequestsIn(Tail(writes)) :
            i + 1 \in RequestsIn(writes) /\ Tail(writes)[i] = writes[i + 1] /\ i + 1 # 1
      BY <1>2 DEF RequestsIn
    <2>2. \A i \in RequestsIn(Tail(writes)) : Tail(writes)[i].id \notin written'
      BY <1>2, <1>3, <2>1 DEF RequestInv, QueuedOnce, RequestsIn
    <2>3. \A i, j \in RequestsIn(Tail(writes)) :
            Tail(writes)[i].id = Tail(writes)[j].id => i = j
      <3> SUFFICES ASSUME NEW i \in RequestsIn(Tail(writes)), NEW j \in RequestsIn(Tail(writes)),
                          Tail(writes)[i].id = Tail(writes)[j].id
                   PROVE  i = j
        OBVIOUS
      <3>1. i + 1 = j + 1
        BY <2>1 DEF RequestInv, QueuedOnce
      <3>2. i \in Int /\ j \in Int
        BY <1>2 DEF RequestsIn
      <3> QED
        BY <3>1, <3>2
    <2> QED
      BY <1>1, <1>2, <2>1, <2>2, <2>3 DEF RequestInv, QueuedOnce
  <1>6. SentOnce'
    <2>1. ProperSeq(<<line>>) /\ DOMAIN <<line>> = {1} /\ <<line>>[1] = line /\ Len(<<line>>) = 1
      BY DEF ProperSeq
    <2>2. RequestsIn(<<line>>) \subseteq {1} /\ (1 \in RequestsIn(<<line>>) => line.type = "request")
      BY <2>1 DEF RequestsIn
    <2>3. line.type = "request" =>
            /\ line.id \in written' \ seen
            /\ \A j \in RequestsIn(toWorker) : line.id # toWorker[j].id
      BY <1>1, <1>3 DEF RequestInv, SentOnce, ToldAgrees
    <2>4. written \subseteq written'
      BY <1>1
    <2> QED
      BY <1>1, <2>1, <2>2, <2>3, <2>4 DEF RequestInv, SentOnce
  <1> QED
    BY <1>1, <1>4, <1>5, <1>6, RepliesStay DEF RequestInv

(* It writes the line into the pipe.                                       *)
LEMMA EncodeKeeps ==
  ASSUME RequestInv, Encode, UNCHANGED worker
  PROVE  RequestInv'
  <1> DEFINE line == Head(writer)
  <1>1. /\ writer # <<>> /\ writer' = <<>> /\ toWorker' = Append(toWorker, line)
        /\ UNCHANGED <<lane, writes, fromWorker, taken, seen>>
    BY DEF Encode, worker
  <1>2. /\ DOMAIN writer = 1..Len(writer) /\ Len(writer) \in Nat \ {0} /\ line = writer[1]
    BY <1>1, TailFacts DEF RequestInv, SentOnce
  <1>3. /\ ProperSeq(toWorker') /\ Len(toWorker) \in Nat
        /\ DOMAIN toWorker = 1..Len(toWorker) /\ DOMAIN toWorker' = 1..Len(toWorker) + 1
        /\ \A i \in 1..Len(toWorker) : toWorker'[i] = toWorker[i]
        /\ toWorker'[Len(toWorker) + 1] = line
    BY <1>1, AppendFacts DEF RequestInv, SentOnce
  <1>4. line.type = "request" =>
          /\ line.id \in written \ seen
          /\ \A j \in RequestsIn(toWorker) : line.id # toWorker[j].id
    BY <1>2 DEF RequestInv, SentOnce, RequestsIn
  <1>5. SentOnce'
    <2>1. /\ ProperSeq(<<>>) /\ Len(<<>>) = 0 /\ RequestsIn(<<>>) = {}
      BY DEF ProperSeq, RequestsIn
    <2>2. \A i \in RequestsIn(toWorker') :
            \/ i \in RequestsIn(toWorker) /\ toWorker'[i] = toWorker[i]
            \/ i = Len(toWorker) + 1 /\ toWorker'[i] = line /\ line.type = "request"
      BY <1>3 DEF RequestsIn
    <2>3. \A i \in RequestsIn(toWorker') : toWorker'[i].id \in written \ seen
      BY <1>4, <2>2 DEF RequestInv, SentOnce
    <2>4. \A i, j \in RequestsIn(toWorker') : toWorker'[i].id = toWorker'[j].id => i = j
      BY <1>4, <2>2 DEF RequestInv, SentOnce
    <2>5. ProperSeq(writer') /\ Len(writer') <= 1 /\ RequestsIn(writer') = {}
      BY <1>1, <2>1
    <2>6. written' = written /\ seen' = seen
      BY <1>1 DEF lane
    <2> QED
      BY <1>3, <2>3, <2>4, <2>5, <2>6 DEF SentOnce
  <1>6. ToldAgrees' /\ QueuedOnce'
    BY <1>1, QueueStays DEF RequestInv, ToldAgrees, lane
  <1> QED
    BY <1>1, <1>5, <1>6, RepliesStay DEF RequestInv

(* The reader takes a reply.                                               *)
LEMMA ReadReplyKeeps ==
  ASSUME RequestInv, ReadReply, UNCHANGED worker
  PROVE  RequestInv'
  <1>1. /\ fromWorker # <<>> /\ fromWorker' = Tail(fromWorker) /\ Line.type = "reply"
        /\ UNCHANGED <<writes, writer, toWorker, taken, seen>>
    BY DEF ReadReply, Received, worker
  <1>2. Line.id \in seen \ taken
    BY <1>1, TailFacts DEF Line, RequestInv, RepliesSettled
  <1>3. CASE Line.id \in pending
    <2>1. /\ pending' = pending \ {Line.id} /\ UNCHANGED <<stop, written>>
          /\ told' = [told EXCEPT ![Line.id] = Append(@, "answered")]
      BY <1>3 DEF ReadReply
    <2>2. Line.id \in DOMAIN told /\ Append(told[Line.id], "answered") = Replied
      BY <1>3, ToldFacts, Words DEF RequestInv, ToldAgrees
    <2>3. told' = [told EXCEPT ![Line.id] = Replied]
      BY <2>1, <2>2
    <2>4. told' \in Seq(Said) /\ DOMAIN told' = DOMAIN told
      BY <2>2, <2>3, ToldFacts, Words, ExceptSeq
    <2>5. told'[Line.id] = Replied /\ \A r \in DOMAIN told \ {Line.id} : told'[r] = told[r]
      BY <2>2, <2>3
    <2>6. ToldAgrees'
      BY <1>1, <1>2, <2>1, <2>4, <2>5, Words DEF RequestInv, ToldAgrees
    <2>7. QueuedOnce'
      BY <1>1, <1>2, <2>1, <2>4, QueueStays DEF RequestInv, ToldAgrees
    <2> QED
      BY <1>1, <2>1, <2>6, <2>7, SentStays, RepliesStay DEF RequestInv
  <1>4. CASE Line.id \notin pending
    BY <1>1, <1>4, FailFrame DEF ReadReply
  <1> QED
    BY <1>3, <1>4

(* The storage goroutine sends an answer, which is no request.             *)
LEMMA SendAnswerKeeps ==
  ASSUME RequestInv, NEW q, NEW a, SendAnswer(q, a), UNCHANGED worker
  PROVE  RequestInv'
  <1> DEFINE line == [type |-> "answer", id |-> q.id, answer |-> a]
  <1>1. UNCHANGED <<writer, toWorker, fromWorker, taken, seen>>
    BY DEF SendAnswer, worker
  <1>2. CASE UNCHANGED <<lane, writes>>
    BY <1>1, <1>2, RequestFrame
  <1>3. CASE writes' = Append(writes, line) /\ UNCHANGED lane
    <2>1. /\ ProperSeq(writes') /\ Len(writes) \in Nat
          /\ DOMAIN writes = 1..Len(writes) /\ DOMAIN writes' = 1..Len(writes) + 1
          /\ \A i \in 1..Len(writes) : writes'[i] = writes[i]
          /\ writes'[Len(writes) + 1] = line
      BY <1>3, AppendFacts DEF RequestInv, QueuedOnce
    <2>2. line.type # "request"
      OBVIOUS
    <2>3. \A i \in RequestsIn(writes') : i \in RequestsIn(writes) /\ writes'[i] = writes[i]
      BY <2>1, <2>2 DEF RequestsIn
    <2>4. UNCHANGED <<told, written, stop, pending>>
      BY <1>3 DEF lane
    <2>5. \A i \in RequestsIn(writes') :
            writes'[i].id \in DOMAIN told \ written /\ (~stop => writes'[i].id \in pending)
      BY <2>3 DEF RequestInv, QueuedOnce
    <2>6. \A i, j \in RequestsIn(writes') : writes'[i].id = writes'[j].id => i = j
      BY <2>3 DEF RequestInv, QueuedOnce
    <2>7. QueuedOnce'
      BY <2>1, <2>4, <2>5, <2>6 DEF QueuedOnce
    <2> QED
      BY <1>1, <1>3, <2>7, SentStays, RepliesStay DEF RequestInv, ToldAgrees, lane
  <1>4. CASE Fail /\ UNCHANGED writes
    BY <1>1, <1>4, FailFrame
  <1> QED
    BY <1>2, <1>3, <1>4 DEF SendAnswer

(* The worker takes a request, takes an answer, or replies.                *)
LEMMA SentSet ==
  ASSUME RequestInv, UNCHANGED <<lane, writer>>, NEW t, toWorker' = t, ProperSeq(t),
         \A i \in RequestsIn(writer) : writer[i].id \in written \ seen',
         \A i \in RequestsIn(t) : t[i].id \in written \ seen',
         \A i, j \in RequestsIn(t) : t[i].id = t[j].id => i = j,
         \A i \in RequestsIn(writer), j \in RequestsIn(t) : writer[i].id # t[j].id
  PROVE  SentOnce'
  <1>1. UNCHANGED <<written, writer>>
    BY DEF lane
  <1>2. ProperSeq(writer) /\ Len(writer) <= 1
    BY DEF RequestInv, SentOnce
  <1> QED
    BY <1>1, <1>2 DEF SentOnce

LEMMA TakeRequestKeeps ==
  ASSUME RequestInv, TakeRequest
  PROVE  RequestInv'
  <1> DEFINE id == Head(toWorker).id
  <1>1. /\ toWorker # <<>> /\ toWorker' = Tail(toWorker) /\ Head(toWorker).type = "request"
        /\ taken' = taken \cup {id} /\ seen' = seen \cup {id}
        /\ UNCHANGED <<lane, writes, writer, fromWorker>>
    BY DEF TakeRequest, Taken
  <1>2. /\ ProperSeq(Tail(toWorker)) /\ Len(toWorker) \in Nat \ {0}
        /\ DOMAIN toWorker = 1..Len(toWorker) /\ DOMAIN Tail(toWorker) = 1..Len(toWorker) - 1
        /\ \A i \in 1..Len(toWorker) - 1 : Tail(toWorker)[i] = toWorker[i + 1]
        /\ Head(toWorker) = toWorker[1]
    BY <1>1, TailFacts DEF RequestInv, SentOnce
  <1>3. 1 \in RequestsIn(toWorker) /\ toWorker[1].id = id
    BY <1>1, <1>2 DEF RequestsIn
  <1>4. id \in written \ seen
    BY <1>3 DEF RequestInv, SentOnce
  <1>5. ToldAgrees'
    BY <1>1, <1>4 DEF RequestInv, ToldAgrees, lane
  <1>6. QueuedOnce'
    BY <1>1, QueueStays DEF RequestInv, lane
  <1>7. SentOnce'
    <2>1. \A i \in RequestsIn(Tail(toWorker)) :
            /\ i \in Int /\ i + 1 \in RequestsIn(toWorker) /\ i + 1 # 1
            /\ Tail(toWorker)[i] = toWorker[i + 1]
      BY <1>2 DEF RequestsIn
    <2>2. \A i \in RequestsIn(Tail(toWorker)) : Tail(toWorker)[i].id \in written \ (seen \cup {id})
      BY <1>3, <2>1 DEF RequestInv, SentOnce
    <2>3. \A i, j \in RequestsIn(Tail(toWorker)) :
            Tail(toWorker)[i].id = Tail(toWorker)[j].id => i + 1 = j + 1
      <3>1. \A k, l \in RequestsIn(toWorker) : toWorker[k].id = toWorker[l].id => k = l
        BY DEF RequestInv, SentOnce
      <3> QED
        BY <2>1, <3>1
    <2>4. \A i, j \in RequestsIn(Tail(toWorker)) : i + 1 = j + 1 => i = j
      BY <2>1
    <2>5. \A i \in RequestsIn(writer) : writer[i].id \in written \ (seen \cup {id})
      BY <1>3 DEF RequestInv, SentOnce
    <2>6. \A i \in RequestsIn(writer), j \in RequestsIn(Tail(toWorker)) :
            writer[i].id # Tail(toWorker)[j].id
      <3>1. \A i \in RequestsIn(writer), j \in RequestsIn(toWorker) :
              writer[i].id # toWorker[j].id
        BY DEF RequestInv, SentOnce
      <3> QED
        BY <2>1, <3>1
    <2>7. \A i, j \in RequestsIn(Tail(toWorker)) :
            Tail(toWorker)[i].id = Tail(toWorker)[j].id => i = j
      BY <2>3, <2>4
    <2> DEFINE t == Tail(toWorker)
    <2>8. UNCHANGED <<lane, writer>> /\ toWorker' = t /\ ProperSeq(t)
      BY <1>1, <1>2
    <2> HIDE DEF t
    <2> QED
      BY <1>1, <2>8, <2>2, <2>5, <2>6, <2>7, SentSet
  <1>8. RepliesSettled'
    BY <1>1, <1>4 DEF RequestInv, RepliesSettled
  <1> QED
    BY <1>5, <1>6, <1>7, <1>8 DEF RequestInv

LEMMA TakeAnswerKeeps ==
  ASSUME RequestInv, TakeAnswer
  PROVE  RequestInv'
  <1>1. /\ toWorker # <<>> /\ toWorker' = Tail(toWorker)
        /\ UNCHANGED <<lane, writes, writer, fromWorker, taken, seen>>
    BY DEF TakeAnswer, Taken
  <1>2. /\ ProperSeq(Tail(toWorker)) /\ Len(toWorker) \in Nat \ {0}
        /\ DOMAIN toWorker = 1..Len(toWorker) /\ DOMAIN Tail(toWorker) = 1..Len(toWorker) - 1
        /\ \A i \in 1..Len(toWorker) - 1 : Tail(toWorker)[i] = toWorker[i + 1]
    BY <1>1, TailFacts DEF RequestInv, SentOnce
  <1>3. SentOnce'
    <2>1. \A i \in RequestsIn(Tail(toWorker)) :
            /\ i \in Int /\ i + 1 \in RequestsIn(toWorker)
            /\ Tail(toWorker)[i] = toWorker[i + 1]
      BY <1>2 DEF RequestsIn
    <2>2. \A i, j \in RequestsIn(Tail(toWorker)) :
            Tail(toWorker)[i].id = Tail(toWorker)[j].id => i + 1 = j + 1
      <3>1. \A k, l \in RequestsIn(toWorker) : toWorker[k].id = toWorker[l].id => k = l
        BY DEF RequestInv, SentOnce
      <3> QED
        BY <2>1, <3>1
    <2>3. \A i, j \in RequestsIn(Tail(toWorker)) : i + 1 = j + 1 => i = j
      BY <2>1
    <2>4. \A i \in RequestsIn(Tail(toWorker)) : Tail(toWorker)[i].id \in written \ seen
      BY <2>1 DEF RequestInv, SentOnce
    <2>5. \A i \in RequestsIn(writer), j \in RequestsIn(Tail(toWorker)) :
            writer[i].id # Tail(toWorker)[j].id
      <3>1. \A i \in RequestsIn(writer), j \in RequestsIn(toWorker) :
              writer[i].id # toWorker[j].id
        BY DEF RequestInv, SentOnce
      <3> QED
        BY <2>1, <3>1
    <2>6. \A i \in RequestsIn(writer) : writer[i].id \in written \ seen
      BY DEF RequestInv, SentOnce
    <2>7. \A i, j \in RequestsIn(Tail(toWorker)) :
            Tail(toWorker)[i].id = Tail(toWorker)[j].id => i = j
      BY <2>2, <2>3
    <2> DEFINE t == Tail(toWorker)
    <2>8. UNCHANGED <<lane, writer>> /\ toWorker' = t /\ ProperSeq(t)
      BY <1>1, <1>2
    <2> HIDE DEF t
    <2> QED
      BY <1>1, <2>8, <2>4, <2>5, <2>6, <2>7, SentSet
  <1> QED
    BY <1>1, <1>3, QueueStays, RepliesStay DEF RequestInv, ToldAgrees, lane

LEMMA ReplyToKeeps ==
  ASSUME RequestInv, NEW r \in taken, ReplyTo(r)
  PROVE  RequestInv'
  <1> DEFINE line == [type |-> "reply", id |-> r]
  <1>1. /\ fromWorker' = Append(fromWorker, line) /\ taken' = taken \ {r}
        /\ UNCHANGED <<lane, writes, writer, toWorker, seen>>
    BY DEF ReplyTo, Send
  <1>2. RepliesSettled'
    <2>1. r \in seen' \ taken' /\ line.id = r
      BY <1>1 DEF RequestInv, ToldAgrees
    <2>2. /\ ProperSeq(fromWorker') /\ Len(fromWorker) \in Nat
          /\ DOMAIN fromWorker = 1..Len(fromWorker)
          /\ DOMAIN fromWorker' = 1..Len(fromWorker) + 1
          /\ \A i \in 1..Len(fromWorker) : fromWorker'[i] = fromWorker[i]
          /\ fromWorker'[Len(fromWorker) + 1] = line
      BY <1>1, AppendFacts DEF RequestInv, RepliesSettled
    <2> HIDE DEF line
    <2> QED
      BY <1>1, <2>1, <2>2 DEF RequestInv, RepliesSettled
  <1>3. ToldAgrees'
    BY <1>1 DEF RequestInv, ToldAgrees, lane
  <1> QED
    BY <1>1, <1>2, <1>3, QueueStays, SentStays DEF RequestInv, lane

(* Every step of the worker, of the carrier and of the host.               *)
LEMMA WorkerStepKeeps ==
  ASSUME RequestInv,
         \/ TakeRequest \/ TakeAnswer \/ SendEvent \/ \E r \in taken : ReplyTo(r)
         \/ BeginSession \/ CancelSession \/ WorkerEnds
         \/ \E o \in Owners : StartOwner(o) \/ SendQuery(o) \/ OwnerStep(o)
  PROVE  RequestInv'
  <1>1. CASE SendEvent
    <2> DEFINE line == [type |-> "event", id |-> produced + 1]
    <2>1. /\ line.type # "reply" /\ fromWorker' = Append(fromWorker, line)
          /\ UNCHANGED <<lane, writes, writer, toWorker, taken, seen>>
      BY <1>1 DEF SendEvent, Send
    <2> QED
      BY <2>1, RequestFrame
  <1>2. CASE \E o \in Owners : SendQuery(o)
    <2>1. PICK o \in Owners : SendQuery(o)
      BY <1>2
    <2> DEFINE line == [type |-> "query", query |-> Query(o)]
    <2>2. /\ line.type # "reply" /\ fromWorker' = Append(fromWorker, line)
          /\ UNCHANGED <<lane, writes, writer, toWorker, taken, seen>>
      BY <2>1 DEF SendQuery, Send
    <2> QED
      BY <2>2, RequestFrame
  <1>3. CASE \/ BeginSession \/ CancelSession \/ WorkerEnds
             \/ \E o \in Owners : StartOwner(o) \/ OwnerStep(o)
    <2>1. UNCHANGED <<carrierVars, taken, seen>>
      BY <1>3 DEF BeginSession, CancelSession, WorkerEnds, StartOwner, OwnerStep, Bridge,
         worker
    <2> QED
      BY <2>1, RequestFrame DEF carrierVars, pipes
  <1> QED
    BY <1>1, <1>2, <1>3, TakeRequestKeeps, TakeAnswerKeeps, ReplyToKeeps

LEMMA CarrierStepKeeps ==
  ASSUME RequestInv,
         \/ HostAsks \/ Deadline \/ Writer \/ PipeBreaks \/ Reader \/ OutputEnds
         \/ OutputBreaks \/ CallHost \/ Server \/ Forwarder \/ HostLaneRefuses
         \/ Ending \/ EndingLate
  PROVE  RequestInv'
  <1>1. UNCHANGED worker
    BY DEF HostAsks, Deadline, Writer, PipeBreaks, Reader, OutputEnds, OutputBreaks,
       CallHost, Server, Forwarder, HostLaneRefuses, Ending, EndingLate, InCarrier
  <1>2. CASE HostAsks \/ Writer
    BY <1>1, <1>2, EnqueueKeeps, DequeueKeeps, EncodeKeeps DEF HostAsks, Writer
  <1>3. CASE Reader
    <2>1. CASE ReadQuery \/ ReadEvent
      <3>1. /\ fromWorker # <<>> /\ fromWorker' = Tail(fromWorker)
            /\ UNCHANGED <<writes, writer, toWorker, taken, seen>>
            /\ Fail \/ UNCHANGED lane
        BY <1>1, <2>1 DEF ReadQuery, ReadEvent, Received, worker
      <3> QED
        BY <3>1, FailFrame, RequestFrame
    <2> QED
      BY <1>1, <1>3, <2>1, ReadReplyKeeps DEF Reader
  <1>4. CASE Server
    <2>1. \E q, a : SendAnswer(q, a)
      BY <1>4 DEF Server, ServeAnswer, ServeNoAnswer
    <2> QED
      BY <1>1, <2>1, SendAnswerKeeps
  <1>5. CASE Deadline \/ OutputEnds \/ OutputBreaks
    <2>1. Fail /\ UNCHANGED pipes
      BY <1>5 DEF Deadline, Expire, OutputEnds, OutputBreaks, ReadEnds
    <2> QED
      BY <1>1, <2>1, FailFrame DEF pipes, worker
  <1>6. CASE PipeBreaks
    <2>1. Fail /\ writer' = <<>> /\ UNCHANGED <<writes, toWorker, fromWorker>>
      BY <1>6 DEF PipeBreaks, EncodeFails
    <2> QED
      BY <1>1, <2>1, FailFrame DEF worker
  <1>7. CASE CallHost \/ Forwarder \/ HostLaneRefuses \/ Ending \/ EndingLate
    <2>1. /\ UNCHANGED pipes
          /\ Fail \/ UNCHANGED lane
      BY <1>7 DEF CallHost, Serve, Forwarder, Forward, ForwardEnds, HostLaneRefuses,
         ForwardFails, Ending, Announce, Vouch, EndingLate, Unproven, Say
    <2> QED
      BY <1>1, <2>1, FailFrame, RequestFrame DEF pipes, worker
  <1> QED
    BY <1>2, <1>3, <1>4, <1>5, <1>6, <1>7

LEMMA NextKeepsRequests == RequestInv /\ [Next]_vars => RequestInv'
  <1> SUFFICES ASSUME RequestInv, [Next]_vars PROVE RequestInv'
    OBVIOUS
  <1>1. CASE \/ (\E q \in server.query : ReadFile(q))
             \/ \E q \in calls : Stage(q) \/ Publish(q) \/ Mismatch(q)
    <2>1. UNCHANGED <<lane, pipes, worker>>
      BY <1>1 DEF ReadFile, Stage, Publish, Mismatch, Answer
    <2> QED
      BY <2>1, RequestFrame DEF pipes, worker
  <1>2. CASE UNCHANGED vars
    BY <1>2, RequestFrame DEF vars, carrierVars, pipes, worker
  <1> QED
    BY <1>1, <1>2, WorkerStepKeeps, CarrierStepKeeps DEF Next

(* Every step of the carrier, the writer and the worker keeps what the     *)
(* host was told of a request in agreement with where the request is.      *)
THEOREM RequestInvariance == Spec => []RequestInv
  BY InitRequestInv, NextKeepsRequests, PTL DEF Spec

(* A request is told one thing: the worker's reply, which the worker gave, *)
(* or that it was refused or not sent, and then it is nowhere on its way   *)
(* to the worker and never was (main.go, fail, startLane, read, enqueue).  *)
THEOREM RequestToldTruthHolds == Spec => []RequestToldTruth
  <1>1. RequestInv => RequestToldTruth
    <2> SUFFICES ASSUME RequestInv, NEW r \in DOMAIN told
                 PROVE  /\ Len(told[r]) <= 1
                        /\ told[r] \in {Unsent, Refused} =>
                             /\ r \notin seen
                             /\ \A pipe \in {toWorker, writer} : \A i \in DOMAIN pipe :
                                  ~(pipe[i].type = "request" /\ pipe[i].id = r)
                        /\ told[r] = Replied => r \in seen \ taken
      BY DEF RequestToldTruth, Unsent, Refused, Replied
    <2>1. Len(told[r]) <= 1
      <3>1. told[r] \in Said
        BY ToldFacts
      <3>2. Len(Owing) <= 1 /\ Len(Replied) <= 1 /\ Len(Unsent) <= 1 /\ Len(Refused) <= 1
        BY DEF Owing, Replied, Unsent, Refused
      <3> QED
        BY <3>1, <3>2 DEF Said
    <2>2. told[r] = Replied => r \in seen \ taken
      BY DEF RequestInv, ToldAgrees
    <2>3. ASSUME told[r] \in {Unsent, Refused}
          PROVE  /\ r \notin seen
                 /\ \A pipe \in {toWorker, writer} : \A i \in DOMAIN pipe :
                      ~(pipe[i].type = "request" /\ pipe[i].id = r)
      <3>1. r \notin written
        BY <2>3 DEF RequestInv, ToldAgrees
      <3> QED
        BY <3>1 DEF RequestInv, ToldAgrees, SentOnce, RequestsIn
    <2> QED
      BY <2>1, <2>2, <2>3
  <1> QED
    BY <1>1, RequestInvariance, PTL

-----------------------------------------------------------------------------
(* Events.                                                                 *)
LEMMA InitEventInv == Init => EventInv
  <1> SUFFICES ASSUME Init PROVE EventInv
    OBVIOUS
  <1>1. ProperSeq(<<>>) /\ Len(<<>>) = 0 /\ DOMAIN <<>> = {}
    BY DEF ProperSeq
  <1> QED
    BY <1>1 DEF Init, CarrierInit, EventInv, EventsCounted, Forwarded, Events

(* The count holds on when the pipe, the forwarder or the worker moves.    *)
LEMMA CountFrame ==
  ASSUME EventsCounted, UNCHANGED <<fromWorker, produced>>, Forwarded' = Forwarded
  PROVE  EventsCounted'
  BY DEF EventsCounted, Events
LEMMA CountAppended ==
  ASSUME EventInv, EventsCounted, Forwarded' = Forwarded,
         NEW line, fromWorker' = Append(fromWorker, line),
         \/ line.type # "event" /\ produced' = produced
         \/ line.type = "event" /\ produced' = produced + 1 /\ line.id = produced + 1
  PROVE  EventsCounted'
  <1>1. /\ Len(fromWorker) \in Nat /\ DOMAIN fromWorker = 1..Len(fromWorker)
        /\ DOMAIN fromWorker' = 1..Len(fromWorker) + 1
        /\ \A i \in 1..Len(fromWorker) : fromWorker'[i] = fromWorker[i]
        /\ fromWorker'[Len(fromWorker) + 1] = line
    BY AppendFacts DEF EventInv
  <1> DEFINE last == Len(fromWorker) + 1
  <1>2. /\ Forwarded \in Nat /\ produced \in Nat /\ Forwarded <= produced
    BY DEF EventInv, Forwarded, EventsCounted
  <1>3. \A i \in Events : i \in Int /\ i < last /\ i \in Events' /\ fromWorker'[i] = fromWorker[i]
    BY <1>1 DEF Events
  <1>4. CASE line.type # "event" /\ produced' = produced
    <2>1. Events' = Events
      BY <1>1, <1>4 DEF Events
    <2>2. \A i \in Events : fromWorker'[i].id = fromWorker[i].id
      BY <1>3
    <2>3. \A i \in Events' : fromWorker'[i].id \in Forwarded' + 1 .. produced'
      BY <1>4, <2>1, <2>2 DEF EventsCounted
    <2>4. \A i, j \in Events' : i < j => fromWorker'[i].id < fromWorker'[j].id
      BY <2>1, <2>2 DEF EventsCounted
    <2>5. \A n \in Forwarded' + 1 .. produced' : \E i \in Events' : fromWorker'[i].id = n
      <3> SUFFICES ASSUME NEW n \in Forwarded + 1 .. produced
                   PROVE  \E i \in Events' : fromWorker'[i].id = n
        BY <1>4
      <3>1. PICK i \in Events : fromWorker[i].id = n
        BY DEF EventsCounted
      <3> QED
        BY <2>1, <2>2, <3>1
    <2> QED
      BY <1>2, <1>4, <2>3, <2>4, <2>5 DEF EventsCounted
  <1>5. CASE line.type = "event" /\ produced' = produced + 1 /\ line.id = produced + 1
    <2>1. Events' = Events \cup {last} /\ last \notin Events
      BY <1>1, <1>5 DEF Events
    <2>2. \A i \in Events : fromWorker'[i].id \in Forwarded + 1 .. produced
      BY <1>3 DEF EventsCounted
    <2>3. fromWorker'[last].id = produced + 1
      BY <1>1, <1>5
    <2>4. \A i \in Events' : fromWorker'[i].id \in Forwarded + 1 .. produced + 1
      <3>1. \A n \in Forwarded + 1 .. produced : n \in Forwarded + 1 .. produced + 1
        BY <1>2
      <3>2. produced + 1 \in Forwarded + 1 .. produced + 1
        BY <1>2
      <3> QED
        BY <2>1, <2>2, <2>3, <3>1, <3>2
    <2>5. \A i, j \in Events' : i < j => fromWorker'[i].id < fromWorker'[j].id
      <3>1. \A i, j \in Events : i < j => fromWorker'[i].id < fromWorker'[j].id
        BY <1>3 DEF EventsCounted
      <3>2. \A i \in Events : fromWorker'[i].id < fromWorker'[last].id
        <4>1. \A n \in Forwarded + 1 .. produced : n < produced + 1
          BY <1>2
        <4> QED
          BY <2>2, <2>3, <4>1
      <3>3. \A j \in Events : ~(last < j)
        BY <1>1, <1>3
      <3>4. ~(last < last)
        BY <1>1
      <3> QED
        BY <2>1, <3>1, <3>2, <3>3, <3>4
    <2>6. \A n \in Forwarded + 1 .. produced + 1 : \E i \in Events' : fromWorker'[i].id = n
      <3> SUFFICES ASSUME NEW n \in Forwarded + 1 .. produced + 1
                   PROVE  \E i \in Events' : fromWorker'[i].id = n
        OBVIOUS
      <3>1. CASE n = produced + 1
        BY <2>1, <2>3, <3>1
      <3>2. CASE n # produced + 1
        <4>1. n \in Forwarded + 1 .. produced
          BY <1>2, <3>2
        <4> QED
          BY <1>3, <4>1 DEF EventsCounted
      <3> QED
        BY <3>1, <3>2
    <2>7. Forwarded <= produced + 1
      BY <1>2
    <2> QED
      BY <1>5, <2>4, <2>5, <2>6, <2>7 DEF EventsCounted
  <1> QED
    BY <1>4, <1>5

(* The reader takes a line; an event it keeps counts as forwarded.         *)
LEMMA CountTail ==
  ASSUME EventInv, EventsCounted, fromWorker # <<>>, fromWorker' = Tail(fromWorker),
         produced' = produced,
         \/ Line.type # "event" /\ Forwarded' = Forwarded
         \/ Line.type = "event" /\ Forwarded' = Forwarded + 1
  PROVE  EventsCounted'
  <1>1. /\ Len(fromWorker) \in Nat \ {0} /\ DOMAIN fromWorker = 1..Len(fromWorker)
        /\ DOMAIN fromWorker' = 1..Len(fromWorker) - 1
        /\ \A i \in 1..Len(fromWorker) - 1 : fromWorker'[i] = fromWorker[i + 1]
        /\ Line = fromWorker[1]
    BY TailFacts DEF EventInv, Line
  <1>2. /\ Forwarded \in Nat /\ produced \in Nat /\ Forwarded <= produced
    BY DEF EventInv, Forwarded, EventsCounted
  <1>3. \A i \in Events' : /\ i \in Int /\ i + 1 \in Events /\ i + 1 # 1
                           /\ fromWorker'[i] = fromWorker[i + 1]
    BY <1>1 DEF Events
  <1>4. \A j \in Events : j # 1 => j - 1 \in Events' /\ fromWorker'[j - 1] = fromWorker[j]
    <2> SUFFICES ASSUME NEW j \in Events, j # 1
                 PROVE  j - 1 \in Events' /\ fromWorker'[j - 1] = fromWorker[j]
      OBVIOUS
    <2>1. j \in 1..Len(fromWorker) /\ fromWorker[j].type = "event"
      BY <1>1 DEF Events
    <2>2. j - 1 \in 1..Len(fromWorker) - 1 /\ (j - 1) + 1 = j
      BY <1>1, <2>1
    <2>3. fromWorker'[j - 1] = fromWorker[j]
      BY <1>1, <2>2
    <2> QED
      BY <1>1, <2>1, <2>2, <2>3 DEF Events
  <1>5. \A i, j \in Events' : i < j => fromWorker'[i].id < fromWorker'[j].id
    <2>1. \A i, j \in Events' : i < j => i + 1 < j + 1
      BY <1>3
    <2> QED
      BY <1>3, <2>1 DEF EventsCounted
  <1>6. CASE Line.type # "event" /\ Forwarded' = Forwarded
    <2>1. 1 \notin Events
      BY <1>1, <1>6 DEF Events
    <2>2. \A i \in Events' : fromWorker'[i].id \in Forwarded + 1 .. produced
      BY <1>3 DEF EventsCounted
    <2>3. \A n \in Forwarded + 1 .. produced : \E i \in Events' : fromWorker'[i].id = n
      <3> SUFFICES ASSUME NEW n \in Forwarded + 1 .. produced
                   PROVE  \E i \in Events' : fromWorker'[i].id = n
        OBVIOUS
      <3>1. PICK i \in Events : fromWorker[i].id = n
        BY DEF EventsCounted
      <3> QED
        BY <1>4, <2>1, <3>1
    <2> QED
      BY <1>2, <1>5, <1>6, <2>2, <2>3 DEF EventsCounted
  <1>7. CASE Line.type = "event" /\ Forwarded' = Forwarded + 1
    <2>1. 1 \in Events
      BY <1>1, <1>7 DEF Events
    <2> DEFINE first == fromWorker[1].id
    <2>2. first \in Forwarded + 1 .. produced
      BY <2>1 DEF EventsCounted
    <2>3. \A i \in Events : i # 1 => first < fromWorker[i].id
      <3>1. \A i \in Events : i # 1 => 1 < i
        BY <1>1 DEF Events
      <3> QED
        BY <2>1, <3>1 DEF EventsCounted
    <2>4. first = Forwarded + 1
      <3>1. Forwarded + 1 \in Forwarded + 1 .. produced
        BY <1>2, <2>2
      <3>2. PICK i \in Events : fromWorker[i].id = Forwarded + 1
        BY <3>1 DEF EventsCounted
      <3> QED
        BY <1>2, <2>2, <2>3, <3>2
    <2>5. \A i \in Events' : fromWorker'[i].id \in Forwarded + 2 .. produced
      <3>1. \A i \in Events : i # 1 => fromWorker[i].id \in Forwarded + 2 .. produced
        <4>1. \A i \in Events : fromWorker[i].id \in Forwarded + 1 .. produced
          BY DEF EventsCounted
        <4> QED
          BY <1>2, <2>3, <2>4, <4>1
      <3> SUFFICES ASSUME NEW i \in Events'
                   PROVE  fromWorker'[i].id \in Forwarded + 2 .. produced
        OBVIOUS
      <3>2. i + 1 \in Events /\ i + 1 # 1 /\ fromWorker'[i] = fromWorker[i + 1]
        BY <1>3
      <3> QED
        BY <3>1, <3>2
    <2>6. \A n \in Forwarded + 2 .. produced : \E i \in Events' : fromWorker'[i].id = n
      <3> SUFFICES ASSUME NEW n \in Forwarded + 2 .. produced
                   PROVE  \E i \in Events' : fromWorker'[i].id = n
        OBVIOUS
      <3>1. n \in Forwarded + 1 .. produced /\ n # first
        BY <1>2, <2>4
      <3>2. PICK i \in Events : fromWorker[i].id = n
        BY <3>1 DEF EventsCounted
      <3> QED
        BY <1>4, <3>1, <3>2
    <2>7. Forwarded + 1 <= produced /\ (Forwarded + 1) + 1 = Forwarded + 2
      BY <1>2, <2>2
    <2> QED
      BY <1>5, <1>7, <2>5, <2>6, <2>7 DEF EventsCounted
  <1> QED
    BY <1>6, <1>7

(* Steps that have nothing to do with events.                              *)
LEMMA EventFrame ==
  ASSUME EventInv, UNCHANGED <<fromWorker, delivery, produced>>, over => over'
  PROVE  EventInv'
  BY DEF EventInv, EventsCounted, Forwarded, Events, delivery

(* The worker sends a line.                                                *)
LEMMA SendKeepsEvents ==
  ASSUME EventInv, NEW line, Send(line),
         \/ line.type # "event" /\ produced' = produced
         \/ line.type = "event" /\ produced' = produced + 1 /\ line.id = produced + 1
  PROVE  EventInv'
  <1>1. /\ ~over /\ fromWorker' = Append(fromWorker, line) /\ UNCHANGED <<delivery, over>>
    BY DEF Send, InWorker
  <1>2. ProperSeq(fromWorker') /\ Forwarded' = Forwarded /\ produced' \in Nat
    BY <1>1, AppendFacts DEF EventInv, Forwarded, delivery
  <1>3. ~dropped /\ forwarder # "failed" => EventsCounted'
    BY <1>1, <1>2, CountAppended DEF EventInv
  <1> QED
    BY <1>1, <1>2, <1>3 DEF EventInv, delivery

(* The reader takes a line.                                                *)
LEMMA ReadKeepsEvents ==
  ASSUME EventInv, ReadQuery \/ ReadEvent \/ ReadReply, UNCHANGED worker
  PROVE  EventInv'
  <1>1. /\ ~readDone /\ fromWorker # <<>> /\ fromWorker' = Tail(fromWorker)
        /\ UNCHANGED <<delivered, unread, readDone, settle, forwarder, verdict,
                       produced, over>>
    BY DEF ReadQuery, ReadEvent, ReadReply, Received, delivery, worker
  <1>2. ProperSeq(fromWorker')
    BY <1>1, TailFacts DEF EventInv
  <1>3. CASE Line.type # "event" /\ UNCHANGED <<events, dropped>>
    <2>1. Forwarded' = Forwarded
      BY <1>1, <1>3 DEF Forwarded
    <2>2. ~dropped /\ forwarder # "failed" => EventsCounted'
      BY <1>1, <1>3, <2>1, CountTail DEF EventInv
    <2> QED
      BY <1>1, <1>2, <1>3, <2>2 DEF EventInv
  <1>4. CASE Line.type = "event" /\ events' = Append(events, Line.id) /\ dropped' = dropped
    <2>1. ProperSeq(events') /\ Len(events') = Len(events) + 1
      BY <1>4, AppendFacts DEF EventInv
    <2>2. Forwarded' = Forwarded + 1 /\ Len(events') \in Nat
      BY <1>1, <2>1 DEF Forwarded, EventInv
    <2>3. ~dropped /\ forwarder # "failed" => EventsCounted'
      BY <1>1, <1>4, <2>2, CountTail DEF EventInv
    <2> QED
      BY <1>1, <1>2, <1>4, <2>1, <2>2, <2>3 DEF EventInv
  <1>5. CASE Line.type = "event" /\ dropped' = TRUE /\ events' = events
    BY <1>1, <1>2, <1>5 DEF EventInv
  <1> QED
    BY <1>3, <1>4, <1>5 DEF ReadQuery, ReadEvent, ReadReply, delivery

(* The pipe ends, having been read out, or breaks off.                     *)
LEMMA EndKeepsEvents ==
  ASSUME EventInv, OutputEnds \/ OutputBreaks
  PROVE  EventInv'
  <1>1. /\ readDone' = TRUE
        /\ UNCHANGED <<events, delivered, dropped, settle, forwarder, verdict, fromWorker,
                       produced, over>>
        /\ unread' \/ (fromWorker = <<>> /\ over)
    BY DEF OutputEnds, OutputBreaks, ReadEnds, InCarrier, pipes, worker
  <1>2. Forwarded' = Forwarded
    BY <1>1 DEF Forwarded
  <1> QED
    BY <1>1, <1>2, CountFrame DEF EventInv

(* The forwarder.                                                          *)
LEMMA ForwardKeepsEvents ==
  ASSUME EventInv, Forwarder \/ HostLaneRefuses
  PROVE  EventInv'
  <1>1. /\ forwarder = "on"
        /\ UNCHANGED <<dropped, unread, readDone, settle, verdict, fromWorker, produced, over>>
    BY DEF Forwarder, HostLaneRefuses, Forward, ForwardFails, ForwardEnds, InCarrier, pipes,
       worker
  <1>2. CASE Forward
    <2>1. /\ events # <<>> /\ events' = Tail(events) /\ delivered' = delivered + 1
          /\ forwarder' = forwarder
      BY <1>2 DEF Forward
    <2>2. ProperSeq(events') /\ Len(events') = Len(events) - 1 /\ Len(events) \in Nat \ {0}
      BY <2>1, TailFacts DEF EventInv
    <2>3. Forwarded' = Forwarded /\ delivered' \in Nat /\ Len(events') \in Nat
      BY <2>1, <2>2 DEF Forwarded, EventInv
    <2> QED
      BY <1>1, <2>1, <2>2, <2>3, CountFrame DEF EventInv
  <1>3. CASE ForwardFails
    <2>1. /\ events # <<>> /\ events' = Tail(events) /\ forwarder' = "failed"
          /\ delivered' = delivered
      BY <1>3 DEF ForwardFails
    <2>2. ProperSeq(events') /\ Len(events') \in Nat
      BY <2>1, TailFacts DEF EventInv
    <2> QED
      BY <1>1, <2>1, <2>2 DEF EventInv
  <1>4. CASE ForwardEnds
    <2>1. /\ settle /\ events = <<>> /\ forwarder' = "ended"
          /\ UNCHANGED <<events, delivered>>
      BY <1>4 DEF ForwardEnds
    <2>2. Forwarded' = Forwarded
      BY <2>1 DEF Forwarded
    <2> QED
      BY <1>1, <2>1, <2>2, CountFrame DEF EventInv
  <1> QED
    BY <1>2, <1>3, <1>4 DEF Forwarder, HostLaneRefuses

(* The carrier's last words.                                               *)
LEMMA EndingKeepsEvents ==
  ASSUME EventInv, Ending \/ EndingLate
  PROVE  EventInv'
  <1>1. UNCHANGED <<events, delivered, dropped, unread, readDone, forwarder, fromWorker,
                    produced, over>>
    BY DEF Ending, EndingLate, Announce, Vouch, Unproven, Say, InCarrier, pipes, worker
  <1>2. Forwarded' = Forwarded
    BY <1>1 DEF Forwarded
  <1>3. CASE Announce
    <2>1. readDone /\ settle' = TRUE /\ verdict' = verdict
      BY <1>3 DEF Announce, ReaderSeenOut
    <2> QED
      BY <1>1, <1>2, <2>1, CountFrame DEF EventInv
  <1>4. CASE Unproven
    <2>1. verdict' = "unproven"
      BY <1>4 DEF Unproven, Say
    <2> QED
      BY <1>1, <1>2, <2>1, CountFrame DEF EventInv
  <1>5. CASE Vouch
    <2>1. /\ settle /\ forwarder = "ended" /\ ~dropped /\ ~unread
          /\ verdict = "none" /\ verdict' = "delivered" /\ settle' = TRUE
      BY <1>5 DEF Vouch, Say
    <2>2. /\ readDone /\ events = <<>> /\ fromWorker = <<>> /\ over /\ EventsCounted
      BY <2>1 DEF EventInv
    <2>3. Forwarded = produced
      <3>1. Events = {}
        BY <2>2 DEF Events
      <3>2. Forwarded \in Nat /\ produced \in Nat /\ Forwarded <= produced
        BY <2>2 DEF EventInv, EventsCounted, Forwarded
      <3>3. \A n \in Forwarded + 1 .. produced : FALSE
        BY <2>2, <3>1 DEF EventsCounted
      <3>4. CASE Forwarded < produced
        <4>1. produced \in Forwarded + 1 .. produced
          BY <3>2, <3>4
        <4> QED
          BY <3>3, <4>1
      <3> QED
        BY <3>2, <3>4
    <2>4. Len(events) = 0 /\ delivered = produced
      BY <2>2, <2>3 DEF Forwarded, EventInv
    <2> QED
      BY <1>1, <1>2, <2>1, <2>2, <2>4, CountFrame DEF EventInv
  <1> QED
    BY <1>3, <1>4, <1>5 DEF Ending, EndingLate

LEMMA NextKeepsEvents == EventInv /\ [Next]_vars => EventInv'
  <1> SUFFICES ASSUME EventInv, [Next]_vars PROVE EventInv'
    OBVIOUS
  <1>1. CASE SendEvent
    <2> DEFINE line == [type |-> "event", id |-> produced + 1]
    <2>1. Send(line) /\ produced' = produced + 1 /\ line.type = "event" /\ line.id = produced + 1
      BY <1>1 DEF SendEvent
    <2> QED
      BY <2>1, SendKeepsEvents
  <1>2. ASSUME NEW r \in taken, ReplyTo(r) PROVE EventInv'
    <2> DEFINE line == [type |-> "reply", id |-> r]
    <2>1. Send(line) /\ produced' = produced /\ line.type # "event"
      BY <1>2 DEF ReplyTo
    <2> QED
      BY <2>1, SendKeepsEvents
  <1>3. ASSUME NEW o \in Owners, SendQuery(o) PROVE EventInv'
    <2> DEFINE line == [type |-> "query", query |-> Query(o)]
    <2>1. Send(line) /\ produced' = produced /\ line.type # "event"
      BY <1>3 DEF SendQuery
    <2> QED
      BY <2>1, SendKeepsEvents
  <1>4. CASE Reader
    BY <1>4, ReadKeepsEvents DEF Reader, InCarrier
  <1>5. CASE \/ TakeRequest \/ TakeAnswer \/ BeginSession \/ CancelSession \/ WorkerEnds
             \/ \E o \in Owners : StartOwner(o) \/ OwnerStep(o)
    <2>1. UNCHANGED <<fromWorker, delivery, produced>> /\ (over => over')
      BY <1>5 DEF TakeRequest, TakeAnswer, Taken, BeginSession, CancelSession, WorkerEnds,
         StartOwner, OwnerStep, Bridge, carrierVars, pipes, worker
    <2> QED
      BY <2>1, EventFrame
  <1>6. CASE \/ HostAsks \/ Deadline \/ Writer \/ PipeBreaks \/ CallHost \/ Server
    <2>1. UNCHANGED <<fromWorker, delivery>>
      BY <1>6 DEF HostAsks, Enqueue, Deadline, Expire, Writer, Dequeue, Encode, PipeBreaks,
         EncodeFails, CallHost, Serve, Server, ServeAnswer, ServeNoAnswer, SendAnswer, pipes
    <2>2. UNCHANGED <<produced, over>>
      BY <1>6 DEF HostAsks, Deadline, Writer, PipeBreaks, CallHost, Server, InCarrier, worker
    <2> QED
      BY <2>1, <2>2, EventFrame
  <1>7. CASE \/ (\E q \in server.query : ReadFile(q))
             \/ \E q \in calls : Stage(q) \/ Publish(q) \/ Mismatch(q)
    <2>1. UNCHANGED <<pipes, delivery, worker>>
      BY <1>7 DEF ReadFile, Stage, Publish, Mismatch, Answer
    <2> QED
      BY <2>1, EventFrame DEF pipes, worker
  <1>8. CASE UNCHANGED vars
    BY <1>8, EventFrame DEF vars, carrierVars, pipes, worker
  <1> QED
    BY <1>1, <1>2, <1>3, <1>4, <1>5, <1>6, <1>7, <1>8, EndKeepsEvents, ForwardKeepsEvents,
       EndingKeepsEvents DEF Next

(* Every step keeps the count of events: those forwarded, queued, on the   *)
(* pipe, lost or never to come are all the worker has produced.            *)
THEOREM EventInvariance == Spec => []EventInv
  BY InitEventInv, NextKeepsEvents, PTL DEF Spec

(* When the carrier ends without saying that the delivery of events is     *)
(* unproven, the host took every event the worker had sent (main.go, read, *)
(* forward, handoff).                                                      *)
THEOREM EventsToldTruthHolds == Spec => []EventsToldTruth
  <1>1. EventInv => EventsToldTruth
    BY DEF EventInv, EventsToldTruth
  <1> QED
    BY <1>1, EventInvariance, PTL

(* What the carrier tells the host at any time, and at its end, is true.   *)
THEOREM HostToldTruthHolds == Spec => []HostToldTruth
  BY RequestToldTruthHolds, EventsToldTruthHolds, PTL DEF HostToldTruth

----------------------------------------------------------------------------
(***************************************************************************)
(* Storage tells the truth to whoever uses it, for any number of owners,   *)
(* sessions and requests, all bounds of the queues, and whatever the host  *)
(* does with what it was asked and whenever it does it.                    *)
(*                                                                         *)
(* What one owner is told rests on the way its queries and their answers   *)
(* went: through the worker's output, the storage goroutine, the host, the *)
(* writer's channel and the worker's input.  One id is at one place of it; *)
(* one owner at a time waits for one answer; and a candidate is published  *)
(* by one query, so that an owner whose query was answered with a mismatch *)
(* has no other one on its way.                                            *)
(***************************************************************************)

Answers(s) == {s[i] : i \in {j \in DOMAIN s : s[j].type = "answer"}}
Queries(s) == {s[i].query : i \in {j \in DOMAIN s : s[j].type = "query"}}
Queued == {snapshots[i] : i \in DOMAIN snapshots}
Ids(S) == {x.id : x \in S}
AnswersOnce(s) ==
    \A i, j \in DOMAIN s :
       s[i].type = "answer" /\ s[j].type = "answer" /\ s[i].id = s[j].id => i = j
QueriesOnce(s) ==
    \A i, j \in DOMAIN s :
       s[i].type = "query" /\ s[j].type = "query" /\ s[i].query.id = s[j].query.id => i = j

(* The six places of the way, and one id at one place.                     *)
Way == <<Ids(Answers(toWorker)), Ids(Answers(writer)), Ids(Answers(writes)),
         Ids(server.query), Ids(Queued), Ids(Queries(fromWorker))>>
Apart(way) == \A j, k \in 1..6 : \A x \in way[j] \cap way[k] : j = k
Within(way, n) == \A k \in 1..6 : way[k] \subseteq 1..n
ServerInv ==
    /\ server = [query |-> server.query, answer |-> server.answer]
    /\ \A p, q \in server.query : p = q
    /\ server.query = {} => server.answer = {}
    /\ ProperSeq(snapshots) /\ Len(snapshots) <= 1
WayInv ==
    /\ next \in Nat /\ Within(Way, next) /\ Apart(Way)
    /\ AnswersOnce(toWorker) /\ AnswersOnce(writes) /\ QueriesOnce(fromWorker)
Waiting == Queued \cup Queries(fromWorker)
Back == Answers(toWorker) \cup Answers(writer) \cup Answers(writes)

(* An answer that was taken is on no way any more.                         *)
AnswerTaken == asked # 0 /\ reply # NoReply => asked \notin Ids(Back \cup server.query \cup Waiting)

(* The bridge: one owner holds it, for the present session.                *)
Holds(o) == op[o].pc \in {"asking", "asked"}
Record ==
    [pc : {"idle", "waiting", "asking", "asked", "done"}, step : Steps, epoch : Nat,
     base : Versions, got : Versions, sent : BOOLEAN,
     told : {"nothing", "failed", "read", "unchanged", "unresolved", "published"}]
BridgeInv ==
    /\ op \in [Owners -> Record] /\ epoch \in Nat
    /\ asked \in {0, next} /\ (asked # 0 => live /\ busy)
    /\ \A o \in Owners : op[o].epoch <= epoch
    /\ \A o \in Owners : Holds(o) => busy /\ op[o].epoch = epoch
    /\ \A o, p \in Owners : Holds(o) /\ Holds(p) => o = p
    /\ \A o \in Owners : op[o].pc = "asked" /\ live => asked # 0

(* Where an owner is in its operation: from the publication on its         *)
(* candidate may be in place.                                              *)
ProgressInv ==
    \A o \in Owners :
      /\ op[o].sent <=> op[o].step \in {"publish", "back", "backcheck"}
      /\ op[o].pc \in {"idle", "waiting"} => op[o].step \in {"page", "stage"}
      /\ op[o].told = "unchanged" => op[o].pc = "done"

(* The queries; the one that is waited for is its owner's.                 *)
QueryInv ==
    /\ calls \cup server.query \cup Waiting \subseteq QueryType
    /\ \A q \in calls : q.step \in Writes /\ q.id <= next /\ q.id \notin Ids(Waiting)
    /\ \A o \in Owners : op[o].pc = "asked" /\ live =>
         \A q \in calls \cup server.query \cup Waiting :
            q.id = asked => q.owner = o /\ q.step = op[o].step

(* The candidates: one is published by one query, which is asked once.     *)
Publishes(q, o) == q.step = "publish" /\ q.owner = o
NoneLeft(o) == o \notin applied /\ \A q \in calls \cup Waiting : ~Publishes(q, o)
NotPublishing(o) == NoneLeft(o) /\ \A q \in server.query : ~Publishes(q, o)
Fresh(o) ==
    \/ ~op[o].sent
    \/ op[o].told = "unchanged"
    \/ op[o].pc = "asking" /\ op[o].step = "publish"
PublishInv ==
    /\ \A o \in Owners : Fresh(o) => NotPublishing(o)
    /\ \A o \in Owners : \A p, q \in calls \cup server.query \cup Waiting :
         Publishes(p, o) /\ Publishes(q, o) => p = q
    /\ \A o \in Owners, q \in calls \cup Waiting : Publishes(q, o) => o \notin applied

(* What is read of the file is in place, and the answers are true.         *)
InPlace(v) == v \in Versions /\ (v \in Owners => v \in applied)
FitsFor(o, a) ==
    /\ a.kind = "value" /\ op[o].step \notin Writes => InPlace(a.version)
    /\ a.kind = "mismatch" => NotPublishing(o)
FileInv ==
    /\ InPlace(file)
    /\ \A o \in Owners : InPlace(op[o].got) /\ (op[o].told = "published" => o \in applied)
HostAnswers ==
    \A q \in server.query, a \in server.answer :
      /\ a.kind # "none"
      /\ a.kind = "value" /\ q.step \notin Writes => InPlace(a.version)
      /\ a.kind = "mismatch" => q.step = "publish" /\ NoneLeft(q.owner)
AnswersFit ==
    /\ \A e \in Back : e.answer.kind # "none"
    /\ \A o \in Owners : op[o].pc = "asked" /\ live =>
         /\ \A e \in Back : e.id = asked => FitsFor(o, e.answer)
         /\ reply # NoReply => FitsFor(o, reply)
TruthInv == FileInv /\ HostAnswers /\ AnswersFit
OwnerInv == AnswerTaken /\ BridgeInv /\ ProgressInv /\ QueryInv /\ PublishInv /\ TruthInv
StorageInv == ServerInv /\ WayInv /\ OwnerInv

-----------------------------------------------------------------------------
(* Letters in a channel.                                                   *)
LEMMA AnswerAppended ==
  ASSUME NEW s, ProperSeq(s), NEW e, e.type = "answer"
  PROVE  /\ Answers(Append(s, e)) = Answers(s) \cup {e}
         /\ Queries(Append(s, e)) = Queries(s)
         /\ AnswersOnce(s) /\ e.id \notin Ids(Answers(s)) => AnswersOnce(Append(s, e))
  <1> DEFINE a == Append(s, e)
  <1>1. /\ Len(s) \in Nat /\ DOMAIN s = 1..Len(s) /\ DOMAIN a = 1..Len(s) + 1
        /\ \A i \in 1..Len(s) : a[i] = s[i]
        /\ a[Len(s) + 1] = e
    BY AppendFacts
  <1> HIDE DEF a
  <1>2. Answers(a) = Answers(s) \cup {e}
    BY <1>1 DEF Answers
  <1>3. Queries(a) = Queries(s)
    BY <1>1 DEF Queries
  <1>4. ASSUME AnswersOnce(s), e.id \notin Ids(Answers(s))
        PROVE  AnswersOnce(a)
    <2>1. \A i \in DOMAIN s : s[i].type = "answer" => s[i].id # e.id
      BY <1>4 DEF Ids, Answers
    <2> QED
      BY <1>1, <1>4, <2>1 DEF AnswersOnce
  <1> QED
    BY <1>2, <1>3, <1>4 DEF a

LEMMA QueryAppended ==
  ASSUME NEW s, ProperSeq(s), NEW e, e.type = "query"
  PROVE  /\ Queries(Append(s, e)) = Queries(s) \cup {e.query}
         /\ QueriesOnce(s) /\ e.query.id \notin Ids(Queries(s)) => QueriesOnce(Append(s, e))
  <1> DEFINE a == Append(s, e)
  <1>1. /\ Len(s) \in Nat /\ DOMAIN s = 1..Len(s) /\ DOMAIN a = 1..Len(s) + 1
        /\ \A i \in 1..Len(s) : a[i] = s[i]
        /\ a[Len(s) + 1] = e
    BY AppendFacts
  <1> HIDE DEF a
  <1>2. Queries(a) = Queries(s) \cup {e.query}
    BY <1>1 DEF Queries
  <1>3. ASSUME QueriesOnce(s), e.query.id \notin Ids(Queries(s))
        PROVE  QueriesOnce(a)
    <2>1. \A i \in DOMAIN s : s[i].type = "query" => s[i].query.id # e.query.id
      BY <1>3 DEF Ids, Queries
    <2> QED
      BY <1>1, <1>3, <2>1 DEF QueriesOnce
  <1> QED
    BY <1>2, <1>3 DEF a

LEMMA OtherAppended ==
  ASSUME NEW s, ProperSeq(s), NEW e, e.type \notin {"answer", "query"}
  PROVE  /\ Answers(Append(s, e)) = Answers(s) /\ Queries(Append(s, e)) = Queries(s)
         /\ AnswersOnce(s) => AnswersOnce(Append(s, e))
         /\ QueriesOnce(s) => QueriesOnce(Append(s, e))
  <1> DEFINE a == Append(s, e)
  <1>1. /\ Len(s) \in Nat /\ DOMAIN s = 1..Len(s) /\ DOMAIN a = 1..Len(s) + 1
        /\ \A i \in 1..Len(s) : a[i] = s[i]
        /\ a[Len(s) + 1] = e
    BY AppendFacts
  <1> HIDE DEF a
  <1>2. Answers(a) = Answers(s)
    BY <1>1 DEF Answers
  <1>3. Queries(a) = Queries(s)
    BY <1>1 DEF Queries
  <1>4. AnswersOnce(s) => AnswersOnce(a)
    BY <1>1 DEF AnswersOnce
  <1>5. QueriesOnce(s) => QueriesOnce(a)
    BY <1>1 DEF QueriesOnce
  <1> QED
    BY <1>2, <1>3, <1>4, <1>5 DEF a

LEMMA AnswerTail ==
  ASSUME NEW s, ProperSeq(s), s # <<>>
  PROVE  /\ Answers(Tail(s)) \subseteq Answers(s)
         /\ Head(s).type = "answer" => Head(s) \in Answers(s)
         /\ AnswersOnce(s) => AnswersOnce(Tail(s))
         /\ AnswersOnce(s) /\ Head(s).type = "answer" => Head(s).id \notin Ids(Answers(Tail(s)))
  <1> DEFINE t == Tail(s)
  <1>1. /\ Len(s) \in Nat \ {0} /\ DOMAIN s = 1..Len(s) /\ DOMAIN t = 1..Len(s) - 1
        /\ \A i \in 1..Len(s) - 1 : t[i] = s[i + 1]
        /\ Head(s) = s[1]
    BY TailFacts
  <1> HIDE DEF t
  <1>2. Answers(t) \subseteq Answers(s)
    BY <1>1 DEF Answers
  <1>3. Head(s).type = "answer" => Head(s) \in Answers(s)
    BY <1>1 DEF Answers
  <1>4. AnswersOnce(s) => AnswersOnce(t)
    BY <1>1 DEF AnswersOnce
  <1>5. ASSUME AnswersOnce(s), Head(s).type = "answer"
        PROVE  Head(s).id \notin Ids(Answers(t))
    <2>1. \A i \in DOMAIN t : t[i].type = "answer" => t[i].id # s[1].id
      BY <1>1, <1>5 DEF AnswersOnce
    <2> QED
      BY <1>1, <2>1 DEF Ids, Answers
  <1> QED
    BY <1>2, <1>3, <1>4, <1>5 DEF t

LEMMA QueryTail ==
  ASSUME NEW s, ProperSeq(s), s # <<>>
  PROVE  /\ Queries(Tail(s)) \subseteq Queries(s)
         /\ Head(s).type = "query" => Head(s).query \in Queries(s)
         /\ QueriesOnce(s) => QueriesOnce(Tail(s))
         /\ QueriesOnce(s) /\ Head(s).type = "query"
              => Head(s).query.id \notin Ids(Queries(Tail(s)))
  <1> DEFINE t == Tail(s)
  <1>1. /\ Len(s) \in Nat \ {0} /\ DOMAIN s = 1..Len(s) /\ DOMAIN t = 1..Len(s) - 1
        /\ \A i \in 1..Len(s) - 1 : t[i] = s[i + 1]
        /\ Head(s) = s[1]
    BY TailFacts
  <1> HIDE DEF t
  <1>2. Queries(t) \subseteq Queries(s)
    BY <1>1 DEF Queries
  <1>3. Head(s).type = "query" => Head(s).query \in Queries(s)
    BY <1>1 DEF Queries
  <1>4. QueriesOnce(s) => QueriesOnce(t)
    BY <1>1 DEF QueriesOnce
  <1>5. ASSUME QueriesOnce(s), Head(s).type = "query"
        PROVE  Head(s).query.id \notin Ids(Queries(t))
    <2>1. \A i \in DOMAIN t : t[i].type = "query" => t[i].query.id # s[1].query.id
      BY <1>1, <1>5 DEF QueriesOnce
    <2> QED
      BY <1>1, <2>1 DEF Ids, Queries
  <1> QED
    BY <1>2, <1>3, <1>4, <1>5 DEF t

(* A channel of one place.                                                 *)
LEMMA OneLetter ==
  ASSUME NEW e
  PROVE  /\ ProperSeq(<<e>>) /\ Len(<<e>>) = 1 /\ Head(<<e>>) = e /\ Tail(<<e>>) = <<>>
         /\ DOMAIN <<e>> = {1} /\ <<e>>[1] = e
  BY DEF ProperSeq
LEMMA NoLetter ==
  ProperSeq(<<>>) /\ Answers(<<>>) = {} /\ Queries(<<>>) = {} /\ AnswersOnce(<<>>) /\ QueriesOnce(<<>>)
  BY DEF ProperSeq, Answers, Queries, AnswersOnce, QueriesOnce
LEMMA AtMostOne ==
  ASSUME NEW s, ProperSeq(s), Len(s) <= 1, s # <<>>
  PROVE  s = <<Head(s)>> /\ Tail(s) = <<>> /\ DOMAIN s = {1} /\ s[1] = Head(s)
  <1>1. s \in Seq({s[i] : i \in DOMAIN s})
    BY DEF ProperSeq
  <1>2. Len(s) \in Nat /\ Len(s) # 0 /\ DOMAIN s = 1..Len(s) /\ s = [i \in 1..Len(s) |-> s[i]]
    BY <1>1
  <1>3. Len(s) = 1
    BY <1>2
  <1>4. s = <<s[1]>>
    BY <1>1, <1>3
  <1>5. DOMAIN s = {1} /\ Head(s) = s[1]
    BY <1>1, <1>2, <1>3
  <1>6. Tail(<<s[1]>>) = <<>>
    OBVIOUS
  <1> QED
    BY <1>4, <1>5, <1>6

-----------------------------------------------------------------------------
(* One id moves from one place to another, or leaves the way.              *)
LEMMA Shrinks ==
  ASSUME NEW v, NEW w, Apart(w), NEW n \in Nat, Within(w, n),
         \A k \in 1..6 : v[k] \subseteq w[k]
  PROVE  Apart(v) /\ Within(v, n)
  BY DEF Apart, Within
LEMMA Moves ==
  ASSUME NEW v, NEW w, Apart(w), NEW n \in Nat, Within(w, n), NEW a \in 1..6, NEW b \in 1..6,
         NEW x, x \in w[a], x \notin v[a], a # b,
         \A k \in 1..6 : k # b => v[k] \subseteq w[k],
         v[b] \subseteq w[b] \cup {x}
  PROVE  Apart(v) /\ Within(v, n)
  <1>1. \A k \in 1..6 : x \in v[k] => k = b
    BY DEF Apart
  <1>2. \A k \in 1..6 : \A y : y \in v[k] => y \in w[k] \/ y = x
    OBVIOUS
  <1>3. Apart(v)
    BY <1>1, <1>2 DEF Apart
  <1>4. Within(v, n)
    BY <1>2 DEF Within
  <1> QED
    BY <1>3, <1>4
LEMMA Joins ==
  ASSUME NEW v, NEW w, Apart(w), NEW n \in Nat, Within(w, n),
         \A k \in 1..5 : v[k] \subseteq w[k],
         v[6] \subseteq w[6] \cup {n + 1}
  PROVE  Apart(v) /\ Within(v, n + 1)
  <1>1. \A k \in 1..6 : n + 1 \in v[k] => k = 6
    BY DEF Within
  <1>2. \A k \in 1..6 : \A y : y \in v[k] => y \in w[k] \/ y = n + 1
    OBVIOUS
  <1>3. Apart(v)
    BY <1>1, <1>2 DEF Apart
  <1>4. Within(v, n + 1)
    BY <1>2 DEF Within
  <1> QED
    BY <1>3, <1>4

LEMMA IdsGrow ==
  /\ \A S, T : S \subseteq T => Ids(S) \subseteq Ids(T)
  /\ \A S, e : Ids(S \cup {e}) = Ids(S) \cup {e.id}
  /\ \A S, T : Ids(S \cup T) = Ids(S) \cup Ids(T)
  /\ \A S, e : e \in S => e.id \in Ids(S)
  /\ Ids({}) = {}
  BY DEF Ids

(* The pipes are sequences.                                                *)
LEMMA Channels ==
  ASSUME RequestInv
  PROVE  /\ ProperSeq(writes) /\ ProperSeq(toWorker) /\ ProperSeq(fromWorker)
         /\ ProperSeq(writer) /\ Len(writer) <= 1
  BY DEF RequestInv, QueuedOnce, SentOnce, RepliesSettled

(* The places of the way.                                                  *)
LEMMA Places ==
  /\ Way[1] = Ids(Answers(toWorker)) /\ Way[2] = Ids(Answers(writer))
  /\ Way[3] = Ids(Answers(writes)) /\ Way[4] = Ids(server.query)
  /\ Way[5] = Ids(Queued) /\ Way[6] = Ids(Queries(fromWorker))
  /\ Way'[1] = Ids(Answers(toWorker')) /\ Way'[2] = Ids(Answers(writer'))
  /\ Way'[3] = Ids(Answers(writes')) /\ Way'[4] = Ids(server'.query)
  /\ Way'[5] = Ids(Queued') /\ Way'[6] = Ids(Queries(fromWorker'))
  BY DEF Way, Answers, Ids, Queries

LEMMA OnTheWay ==
  /\ \A x : x \in Ids(Waiting) <=> x \in Way[5] \/ x \in Way[6]
  /\ \A x : x \in Ids(Waiting') <=> x \in Way'[5] \/ x \in Way'[6]
  /\ \A x : x \in Ids(Back) <=> x \in Way[1] \/ x \in Way[2] \/ x \in Way[3]
  /\ \A x : x \in Ids(Back') <=> x \in Way'[1] \/ x \in Way'[2] \/ x \in Way'[3]
  /\ \A x : x \in Ids(Back \cup server.query \cup Waiting) <=> \E k \in 1..6 : x \in Way[k]
  /\ \A x : x \in Ids(Back' \cup server'.query \cup Waiting') <=> \E k \in 1..6 : x \in Way'[k]
  <1>1. \A S, x : x \in Ids(S) <=> \E e \in S : x = e.id
    BY DEF Ids
  <1>2. \A x : x \in Ids(Waiting) <=> x \in Ids(Queued) \/ x \in Ids(Queries(fromWorker))
    BY <1>1 DEF Waiting
  <1>3. \A x : x \in Ids(Waiting') <=> x \in Ids(Queued') \/ x \in Ids(Queries(fromWorker'))
    BY <1>1 DEF Waiting
  <1>4. \A x : x \in Ids(Back) <=> \/ x \in Ids(Answers(toWorker))
                                  \/ x \in Ids(Answers(writer)) \/ x \in Ids(Answers(writes))
    BY <1>1 DEF Back
  <1>5. \A x : x \in Ids(Back') <=> \/ x \in Ids(Answers(toWorker'))
                                   \/ x \in Ids(Answers(writer')) \/ x \in Ids(Answers(writes'))
    BY <1>1 DEF Back
  <1>6. \A x : x \in Ids(Back \cup server.query \cup Waiting)
                 <=> x \in Ids(Back) \/ x \in Ids(server.query) \/ x \in Ids(Waiting)
    BY <1>1
  <1>7. \A x : x \in Ids(Back' \cup server'.query \cup Waiting')
                 <=> x \in Ids(Back') \/ x \in Ids(server'.query) \/ x \in Ids(Waiting')
    BY <1>1
  <1>8. \A w, x : (\E k \in 1..6 : x \in w[k]) <=>
                    \/ x \in w[1] \/ x \in w[2] \/ x \in w[3]
                    \/ x \in w[4] \/ x \in w[5] \/ x \in w[6]
    OBVIOUS
  <1>9. \A x : x \in Ids(Waiting) <=> x \in Way[5] \/ x \in Way[6]
    BY <1>2, Places, Zenon
  <1>10. \A x : x \in Ids(Waiting') <=> x \in Way'[5] \/ x \in Way'[6]
    BY <1>3, Places, Zenon
  <1>11. \A x : x \in Ids(Back) <=> x \in Way[1] \/ x \in Way[2] \/ x \in Way[3]
    BY <1>4, Places, Zenon
  <1>12. \A x : x \in Ids(Back') <=> x \in Way'[1] \/ x \in Way'[2] \/ x \in Way'[3]
    BY <1>5, Places, Zenon
  <1>13. \A x : x \in Ids(server.query) <=> x \in Way[4]
    BY Places, Zenon
  <1>14. \A x : x \in Ids(server'.query) <=> x \in Way'[4]
    BY Places, Zenon
  <1>15. \A x : x \in Ids(Back \cup server.query \cup Waiting) <=> \E k \in 1..6 : x \in Way[k]
    BY <1>6, <1>8, <1>9, <1>11, <1>13, Zenon
  <1>16. \A x : x \in Ids(Back' \cup server'.query \cup Waiting') <=> \E k \in 1..6 : x \in Way'[k]
    BY <1>7, <1>8, <1>10, <1>12, <1>14, Zenon
  <1> QED
    BY <1>9, <1>10, <1>11, <1>12, <1>15, <1>16, Zenon

LEMMA WayShrinks ==
  ASSUME WayInv, next' = next,
         Answers(toWorker') \subseteq Answers(toWorker),
         Answers(writer') \subseteq Answers(writer),
         Answers(writes') \subseteq Answers(writes),
         server'.query \subseteq server.query,
         Queued' \subseteq Queued, Queries(fromWorker') \subseteq Queries(fromWorker),
         AnswersOnce(toWorker'), AnswersOnce(writes'), QueriesOnce(fromWorker')
  PROVE  WayInv'
  <1>1. \A k \in 1..6 : Way'[k] \subseteq Way[k]
    BY Places, IdsGrow
  <1>2. Apart(Way') /\ Within(Way', next)
    BY <1>1, Shrinks DEF WayInv
  <1> QED
    BY <1>2 DEF WayInv, Apart, Within, Way, Answers, Ids, Queries, Queued, AnswersOnce, QueriesOnce

-----------------------------------------------------------------------------
(* Steps that neither the bridge nor the host takes part in: a letter goes *)
(* on by one place, or is lost.                                            *)
GoesOn ==
    /\ ServerInv' /\ WayInv' /\ Back' \subseteq Back /\ Waiting' \subseteq Waiting
    /\ UNCHANGED <<bridgeVars, server, host>>

LEMMA Still ==
  ASSUME ServerInv, WayInv, UNCHANGED <<pipes, storage, bridgeVars, host>>
  PROVE  GoesOn
  <1>1. UNCHANGED <<writes, writer, toWorker, fromWorker, snapshots, server>>
    BY DEF pipes, storage
  <1>2. UNCHANGED <<live, busy, epoch, next, asked, reply, op>>
    BY DEF bridgeVars
  <1>3. ServerInv'
    BY <1>1 DEF ServerInv
  <1>4. Back' = Back /\ Waiting' = Waiting /\ Way' = Way
    BY <1>1 DEF Back, Waiting, Way, Queued
  <1>5. WayInv'
    BY <1>1, <1>2, <1>4 DEF WayInv
  <1> QED
    BY <1>1, <1>3, <1>4, <1>5 DEF GoesOn

LEMMA OtherLetter ==
  ASSUME NEW s, ProperSeq(s), NEW e, e.type # "answer"
  PROVE  /\ Answers(Append(s, e)) = Answers(s)
         /\ AnswersOnce(s) => AnswersOnce(Append(s, e))
  <1> DEFINE a == Append(s, e)
  <1>1. /\ Len(s) \in Nat /\ DOMAIN s = 1..Len(s) /\ DOMAIN a = 1..Len(s) + 1
        /\ \A i \in 1..Len(s) : a[i] = s[i]
        /\ a[Len(s) + 1] = e
    BY AppendFacts
  <1> HIDE DEF a
  <1>2. Answers(a) = Answers(s)
    BY <1>1 DEF Answers
  <1>3. AnswersOnce(s) => AnswersOnce(a)
    BY <1>1 DEF AnswersOnce
  <1> QED
    BY <1>2, <1>3 DEF a

LEMMA TakeRequestMail ==
  ASSUME StorageInv, RequestInv, TakeRequest
  PROVE  GoesOn
  <1>1. /\ toWorker # <<>> /\ toWorker' = Tail(toWorker)
        /\ UNCHANGED <<writes, writer, fromWorker, snapshots, server, bridgeVars, host>>
    BY DEF TakeRequest, Taken, InWorker, storage
  <1>2. ServerInv /\ WayInv
    BY DEF StorageInv
  <1>3. Answers(toWorker') \subseteq Answers(toWorker) /\ AnswersOnce(toWorker')
    BY <1>1, <1>2, Channels, AnswerTail DEF WayInv
  <1>4. next' = next
    BY <1>1 DEF bridgeVars
  <1>5. Queued' = Queued
    BY <1>1 DEF Queued
  <1>6. WayInv'
    BY <1>1, <1>2, <1>3, <1>4, <1>5, WayShrinks DEF WayInv
  <1>7. ServerInv'
    BY <1>1, <1>2 DEF ServerInv
  <1> QED
    BY <1>1, <1>3, <1>5, <1>6, <1>7 DEF GoesOn, Back, Waiting

LEMMA EnqueueMail ==
  ASSUME StorageInv, RequestInv, Enqueue, InCarrier
  PROVE  GoesOn
  <1> DEFINE e == [type |-> "request", id |-> Len(told) + 1]
  <1>1. /\ writes' = writes \/ writes' = Append(writes, e)
        /\ UNCHANGED <<writer, toWorker, fromWorker, snapshots, server, bridgeVars, host>>
    BY DEF Enqueue, storage, InCarrier
  <1>2. ServerInv /\ WayInv
    BY DEF StorageInv
  <1>3. e.type \notin {"answer", "query"}
    OBVIOUS
  <1> HIDE DEF e
  <1>4. Answers(writes') = Answers(writes) /\ AnswersOnce(writes')
    BY <1>1, <1>2, <1>3, Channels, OtherAppended DEF WayInv
  <1>5. next' = next
    BY <1>1 DEF bridgeVars
  <1>6. Queued' = Queued
    BY <1>1 DEF Queued
  <1>7. WayInv'
    BY <1>1, <1>2, <1>4, <1>5, <1>6, WayShrinks DEF WayInv
  <1>8. ServerInv'
    BY <1>1, <1>2 DEF ServerInv
  <1> QED
    BY <1>1, <1>4, <1>6, <1>7, <1>8 DEF GoesOn, Back, Waiting

LEMMA DequeueMail ==
  ASSUME StorageInv, RequestInv, Dequeue, InCarrier
  PROVE  GoesOn
  <1> DEFINE e == Head(writes)
  <1>1. /\ writer = <<>> /\ writes # <<>> /\ writer' = <<e>> /\ writes' = Tail(writes)
        /\ UNCHANGED <<toWorker, fromWorker, snapshots, server, bridgeVars, host>>
    BY DEF Dequeue, storage, InCarrier
  <1>2. ServerInv /\ WayInv
    BY DEF StorageInv
  <1>3. ProperSeq(writes)
    BY Channels
  <1>4. /\ Answers(writes') \subseteq Answers(writes) /\ AnswersOnce(writes')
        /\ e.type = "answer" => e \in Answers(writes) /\ e.id \notin Ids(Answers(writes'))
    BY <1>1, <1>2, <1>3, AnswerTail DEF WayInv
  <1> HIDE DEF e
  <1>5. Answers(writer) = {} /\ Answers(writer') = IF e.type = "answer" THEN {e} ELSE {}
    BY <1>1, OneLetter, NoLetter DEF Answers
  <1>6. next' = next
    BY <1>1 DEF bridgeVars
  <1>7. Queued' = Queued
    BY <1>1 DEF Queued
  <1>8. WayInv'
    <2>1. CASE e.type # "answer"
      BY <1>1, <1>2, <1>4, <1>5, <1>6, <1>7, <2>1, WayShrinks DEF WayInv
    <2>2. CASE e.type = "answer"
      <3>1. e.id \in Way[3] /\ e.id \notin Way'[3]
        BY <1>4, <2>2, IdsGrow, Places
      <3>2. Way'[2] \subseteq Way[2] \cup {e.id}
        BY <1>5, <2>2, Places DEF Ids
      <3>3. \A k \in 1..6 : k # 2 => Way'[k] \subseteq Way[k]
        BY <1>1, <1>4, <1>7, IdsGrow, Places
      <3>4. Apart(Way') /\ Within(Way', next)
        BY <1>2, <3>1, <3>2, <3>3, Moves DEF WayInv
      <3> QED
        BY <1>1, <1>2, <1>4, <1>6, <3>4
           DEF WayInv, Apart, Within, Way, Answers, Ids, Queries, Queued, AnswersOnce, QueriesOnce
    <2> QED
      BY <2>1, <2>2
  <1>9. ServerInv'
    BY <1>1, <1>2 DEF ServerInv
  <1>10. Back' \subseteq Back
    BY <1>1, <1>4, <1>5 DEF Back
  <1> QED
    BY <1>1, <1>7, <1>8, <1>9, <1>10 DEF GoesOn, Waiting

LEMMA EncodeMail ==
  ASSUME StorageInv, RequestInv, Encode, InCarrier
  PROVE  GoesOn
  <1> DEFINE e == Head(writer)
  <1>1. /\ writer # <<>> /\ writer' = <<>> /\ toWorker' = Append(toWorker, e)
        /\ UNCHANGED <<writes, fromWorker, snapshots, server, bridgeVars, host>>
    BY DEF Encode, storage, InCarrier
  <1>2. ServerInv /\ WayInv
    BY DEF StorageInv
  <1>3. DOMAIN writer = {1} /\ writer[1] = e
    BY <1>1, Channels, AtMostOne
  <1>4. writer[1] = e => (Answers(writer) = IF e.type = "answer" THEN {e} ELSE {})
    BY <1>3 DEF Answers
  <1> HIDE DEF e
  <1>5. Answers(writer') = {}
    BY <1>1, NoLetter
  <1>6. ProperSeq(toWorker) /\ AnswersOnce(toWorker)
    BY <1>2, Channels DEF WayInv
  <1>7. next' = next
    BY <1>1 DEF bridgeVars
  <1>8. Queued' = Queued
    BY <1>1 DEF Queued
  <1>9. ServerInv'
    BY <1>1, <1>2 DEF ServerInv
  <1>11. CASE e.type # "answer"
    <2>1. Answers(toWorker') \subseteq Answers(toWorker) /\ AnswersOnce(toWorker')
      BY <1>1, <1>6, <1>11, OtherLetter
    <2>2. WayInv'
      BY <1>1, <1>2, <1>5, <1>7, <1>8, <2>1, WayShrinks DEF WayInv
    <2> QED
      BY <1>1, <1>5, <1>8, <1>9, <2>1, <2>2 DEF GoesOn, Back, Waiting
  <1>12. CASE e.type = "answer"
    <2>1. e \in Answers(writer)
      BY <1>3, <1>4, <1>12
    <2>2. e.id \in Way[2] /\ e.id \notin Way'[2]
      BY <1>5, <2>1, IdsGrow, Places
    <2>3. e.id \notin Ids(Answers(toWorker))
      <3>1. \A x \in Way[1] \cap Way[2] : 1 = 2
        BY <1>2 DEF WayInv, Apart
      <3> QED
        BY <2>2, <3>1, Places
    <2>4. Answers(toWorker') = Answers(toWorker) \cup {e} /\ AnswersOnce(toWorker')
      BY <1>1, <1>6, <1>12, <2>3, AnswerAppended
    <2>5. Way'[1] \subseteq Way[1] \cup {e.id}
      BY <2>4, IdsGrow, Places
    <2>6. \A k \in 1..6 : k # 1 => Way'[k] \subseteq Way[k]
      BY <1>1, <1>5, <1>8, IdsGrow, Places
    <2>7. Apart(Way') /\ Within(Way', next)
      BY <1>2, <2>2, <2>5, <2>6, Moves DEF WayInv
    <2>8. WayInv'
      BY <1>1, <1>2, <1>7, <2>4, <2>7
         DEF WayInv, Apart, Within, Way, Answers, Ids, Queries, Queued, AnswersOnce, QueriesOnce
    <2> QED
      BY <1>1, <1>5, <1>8, <1>9, <2>1, <2>4, <2>8 DEF GoesOn, Back, Waiting
  <1> QED
    BY <1>11, <1>12

LEMMA EncodeFailsMail ==
  ASSUME StorageInv, RequestInv, EncodeFails, InCarrier
  PROVE  GoesOn
  <1>1. /\ writer' = <<>>
        /\ UNCHANGED <<writes, toWorker, fromWorker, snapshots, server, bridgeVars, host>>
    BY DEF EncodeFails, storage, InCarrier
  <1>2. ServerInv /\ WayInv
    BY DEF StorageInv
  <1>3. Answers(writer') = {}
    BY <1>1, NoLetter
  <1>4. next' = next
    BY <1>1 DEF bridgeVars
  <1>5. Queued' = Queued
    BY <1>1 DEF Queued
  <1>6. WayInv'
    BY <1>1, <1>2, <1>3, <1>4, <1>5, WayShrinks DEF WayInv
  <1>7. ServerInv'
    BY <1>1, <1>2 DEF ServerInv
  <1> QED
    BY <1>1, <1>3, <1>5, <1>6, <1>7 DEF GoesOn, Back, Waiting

LEMMA ReadQueryMail ==
  ASSUME StorageInv, RequestInv, ReadQuery, InCarrier
  PROVE  GoesOn
  <1> DEFINE q == Head(fromWorker).query
  <1>1. /\ fromWorker # <<>> /\ fromWorker' = Tail(fromWorker) /\ Head(fromWorker).type = "query"
        /\ UNCHANGED <<writes, writer, toWorker, server, bridgeVars, host>>
        /\ \/ snapshots = <<>> /\ snapshots' = <<q>>
           \/ snapshots' = snapshots
    BY DEF ReadQuery, Received, Line, InCarrier
  <1>2. ServerInv /\ WayInv
    BY DEF StorageInv
  <1>3. /\ Queries(fromWorker') \subseteq Queries(fromWorker) /\ q \in Queries(fromWorker)
        /\ QueriesOnce(fromWorker') /\ q.id \notin Ids(Queries(fromWorker'))
    BY <1>1, <1>2, Channels, QueryTail DEF WayInv
  <1> HIDE DEF q
  <1>4. next' = next
    BY <1>1 DEF bridgeVars
  <1>5. CASE snapshots' = snapshots
    <2>1. Queued' = Queued
      BY <1>5 DEF Queued
    <2>2. WayInv'
      BY <1>1, <1>2, <1>3, <1>4, <2>1, WayShrinks DEF WayInv
    <2>3. ServerInv'
      BY <1>1, <1>2, <1>5 DEF ServerInv
    <2> QED
      BY <1>1, <1>3, <2>1, <2>2, <2>3 DEF GoesOn, Back, Waiting
  <1>6. CASE snapshots = <<>> /\ snapshots' = <<q>>
    <2>1. Queued = {} /\ Queued' = {q}
      BY <1>6, OneLetter DEF Queued
    <2>2. q.id \in Way[6] /\ q.id \notin Way'[6]
      BY <1>3, IdsGrow, Places
    <2>3. Way'[5] \subseteq Way[5] \cup {q.id}
      BY <2>1, Places DEF Ids
    <2>4. \A k \in 1..6 : k # 5 => Way'[k] \subseteq Way[k]
      BY <1>1, <1>3, IdsGrow, Places
    <2>5. Apart(Way') /\ Within(Way', next)
      BY <1>2, <2>2, <2>3, <2>4, Moves DEF WayInv
    <2>6. WayInv'
      BY <1>1, <1>2, <1>3, <1>4, <2>5
         DEF WayInv, Apart, Within, Way, Answers, Ids, Queries, Queued, AnswersOnce, QueriesOnce
    <2>7. ServerInv'
      BY <1>1, <1>2, <1>6, OneLetter DEF ServerInv
    <2> QED
      BY <1>1, <1>3, <2>1, <2>6, <2>7 DEF GoesOn, Back, Waiting
  <1> QED
    BY <1>1, <1>5, <1>6

LEMMA ReadOtherMail ==
  ASSUME StorageInv, RequestInv, ReadEvent \/ ReadReply, InCarrier
  PROVE  GoesOn
  <1>1. /\ fromWorker # <<>> /\ fromWorker' = Tail(fromWorker)
        /\ UNCHANGED <<writes, writer, toWorker, snapshots, server, bridgeVars, host>>
    BY DEF ReadEvent, ReadReply, Received, storage, InCarrier
  <1>2. ServerInv /\ WayInv
    BY DEF StorageInv
  <1>3. Queries(fromWorker') \subseteq Queries(fromWorker) /\ QueriesOnce(fromWorker')
    BY <1>1, <1>2, Channels, QueryTail DEF WayInv
  <1>4. next' = next
    BY <1>1 DEF bridgeVars
  <1>5. Queued' = Queued
    BY <1>1 DEF Queued
  <1>6. WayInv'
    BY <1>1, <1>2, <1>3, <1>4, <1>5, WayShrinks DEF WayInv
  <1>7. ServerInv'
    BY <1>1, <1>2 DEF ServerInv
  <1> QED
    BY <1>1, <1>3, <1>5, <1>6, <1>7 DEF GoesOn, Back, Waiting

LEMMA SaysMail ==
  ASSUME StorageInv, RequestInv, (\E r \in taken : ReplyTo(r)) \/ SendEvent
  PROVE  GoesOn
  <1>1. /\ \E line : line.type \notin {"answer", "query"} /\ fromWorker' = Append(fromWorker, line)
        /\ UNCHANGED <<writes, writer, toWorker, snapshots, server, bridgeVars, host>>
    <2>1. CASE \E r \in taken : ReplyTo(r)
      <3>1. PICK r \in taken : ReplyTo(r)
        BY <2>1
      <3>2. [type |-> "reply", id |-> r].type \notin {"answer", "query"}
        OBVIOUS
      <3> QED
        BY <3>1, <3>2 DEF ReplyTo, Send, InWorker, storage
    <2>2. CASE SendEvent
      <3>1. [type |-> "event", id |-> produced + 1].type \notin {"answer", "query"}
        OBVIOUS
      <3> QED
        BY <2>2, <3>1 DEF SendEvent, Send, InWorker, storage
    <2> QED
      BY <2>1, <2>2
  <1>2. ServerInv /\ WayInv
    BY DEF StorageInv
  <1>3. Queries(fromWorker') = Queries(fromWorker) /\ QueriesOnce(fromWorker')
    BY <1>1, <1>2, Channels, OtherAppended DEF WayInv
  <1>4. next' = next
    BY <1>1 DEF bridgeVars
  <1>5. Queued' = Queued
    BY <1>1 DEF Queued
  <1>6. WayInv'
    BY <1>1, <1>2, <1>3, <1>4, <1>5, WayShrinks DEF WayInv
  <1>7. ServerInv'
    BY <1>1, <1>2 DEF ServerInv
  <1> QED
    BY <1>1, <1>3, <1>5, <1>6, <1>7 DEF GoesOn, Back, Waiting

(* Such a step keeps what is said of the owners.                           *)
LEMMA GoesOnKeeps ==
  ASSUME StorageInv, GoesOn
  PROVE  StorageInv'
  <1>1. /\ UNCHANGED <<live, busy, epoch, next, asked, reply, op>>
        /\ UNCHANGED <<file, staged, applied, calls>> /\ server' = server
        /\ Back' \subseteq Back /\ Waiting' \subseteq Waiting
    BY DEF GoesOn, bridgeVars, host
  <1>2. /\ AnswerTaken /\ BridgeInv /\ ProgressInv /\ QueryInv /\ PublishInv
        /\ FileInv /\ HostAnswers /\ AnswersFit
    BY DEF StorageInv, OwnerInv, TruthInv
  <1>3. AnswerTaken'
    BY <1>1, <1>2 DEF AnswerTaken, Ids
  <1>4. BridgeInv'
    BY <1>1, <1>2 DEF BridgeInv, Holds
  <1>5. ProgressInv'
    BY <1>1, <1>2 DEF ProgressInv
  <1>6. Ids(Waiting') \subseteq Ids(Waiting)
    BY <1>1, IdsGrow
  <1>7. QueryInv'
    <2>1. (calls \cup server.query \cup Waiting)' \subseteq calls \cup server.query \cup Waiting
      BY <1>1
    <2>2. Ids(Waiting)' \subseteq Ids(Waiting)
      BY <1>6 DEF Ids
    <2> QED
      BY <1>1, <1>2, <2>1, <2>2 DEF QueryInv
  <1>8. \A o : NoneLeft(o) => NoneLeft(o)'
    BY <1>1 DEF NoneLeft, Publishes
  <1>9. \A o : NotPublishing(o) => NotPublishing(o)'
    BY <1>1, <1>8 DEF NotPublishing, Publishes
  <1>10. PublishInv'
    BY <1>1, <1>2, <1>9 DEF PublishInv, Publishes, Fresh
  <1>11. FileInv'
    BY <1>1, <1>2 DEF FileInv, InPlace
  <1>12. HostAnswers'
    BY <1>1, <1>2, <1>8 DEF HostAnswers, InPlace
  <1>13. AnswersFit'
    BY <1>1, <1>2, <1>9 DEF AnswersFit, InPlace, FitsFor
  <1> QED
    BY <1>3, <1>4, <1>5, <1>7, <1>10, <1>11, <1>12, <1>13
       DEF GoesOn, StorageInv, OwnerInv, TruthInv

-----------------------------------------------------------------------------
(* The worker takes an answer, which is on no way any more.                *)
LEMMA AnswerKeepsStorage ==
  ASSUME StorageInv, RequestInv, TakeAnswer
  PROVE  StorageInv'
  <1> DEFINE e == Head(toWorker)
  <1>1. /\ toWorker # <<>> /\ toWorker' = Tail(toWorker) /\ e.type = "answer"
        /\ UNCHANGED <<writes, writer, fromWorker, snapshots, server, host>>
        /\ Accept(e.id, e.answer)
    BY DEF TakeAnswer, Taken, InWorker, storage
  <1>2. /\ ServerInv /\ WayInv /\ AnswerTaken /\ BridgeInv /\ ProgressInv /\ QueryInv /\ PublishInv
        /\ FileInv /\ HostAnswers /\ AnswersFit
    BY DEF StorageInv, OwnerInv, TruthInv
  <1>3. /\ Answers(toWorker') \subseteq Answers(toWorker) /\ AnswersOnce(toWorker')
        /\ e \in Answers(toWorker) /\ e.id \notin Ids(Answers(toWorker'))
    BY <1>1, <1>2, Channels, AnswerTail DEF WayInv
  <1>4. /\ UNCHANGED <<live, busy, epoch, next, asked, op>>
        /\ UNCHANGED <<file, staged, applied, calls>>
        /\ \/ reply' = reply
           \/ live /\ e.id = asked /\ reply' = e.answer
    BY <1>1 DEF Accept, Awaited, host
  <1> HIDE DEF e
  <1>5. Queued' = Queued
    BY <1>1 DEF Queued
  <1>6. WayInv'
    BY <1>1, <1>2, <1>3, <1>4, <1>5, WayShrinks DEF WayInv
  <1>7. ServerInv'
    BY <1>1, <1>2 DEF ServerInv
  <1>8. Back' \subseteq Back /\ Waiting' = Waiting /\ e \in Back
    BY <1>1, <1>3, <1>5 DEF Back, Waiting
  <1>9. e.id \notin Ids(Back' \cup server'.query \cup Waiting')
    <2>1. e.id \in Way[1] /\ e.id \notin Way'[1]
      BY <1>3, IdsGrow, Places
    <2>2. \A k \in 1..6 : k # 1 => Way'[k] \subseteq Way[k]
      BY <1>1, <1>5, Places
    <2>3. \A k \in 1..6 : e.id \notin Way'[k]
      BY <1>2, <2>1, <2>2 DEF WayInv, Apart
    <2> QED
      BY <2>3, OnTheWay
  <1>10. AnswerTaken'
    <2>1. CASE reply' = reply
      BY <1>1, <1>2, <1>4, <1>8, <2>1 DEF AnswerTaken, Ids
    <2>2. CASE live /\ e.id = asked /\ reply' = e.answer
      <3>1. asked \notin Ids(Back' \cup server'.query \cup Waiting')
        BY <1>9, <2>2
      <3>2. asked \notin Ids(Back \cup server.query \cup Waiting)'
        BY <3>1 DEF Ids
      <3> QED
        BY <1>4, <3>2 DEF AnswerTaken
    <2> QED
      BY <1>4, <2>1, <2>2
  <1>11. BridgeInv'
    BY <1>2, <1>4 DEF BridgeInv, Holds
  <1>12. ProgressInv'
    BY <1>2, <1>4 DEF ProgressInv
  <1>13. Ids(Waiting)' = Ids(Waiting)
    BY <1>8 DEF Ids
  <1>14. QueryInv'
    BY <1>1, <1>2, <1>4, <1>8, <1>13 DEF QueryInv
  <1>15. \A o : NoneLeft(o) => NoneLeft(o)'
    BY <1>4, <1>8 DEF NoneLeft, Publishes
  <1>16. \A o : NotPublishing(o) => NotPublishing(o)'
    BY <1>1, <1>15 DEF NotPublishing, Publishes
  <1>17. PublishInv'
    BY <1>1, <1>2, <1>4, <1>8, <1>16 DEF PublishInv, Publishes, Fresh
  <1>18. FileInv'
    BY <1>2, <1>4 DEF FileInv, InPlace
  <1>19. HostAnswers'
    BY <1>1, <1>2, <1>4, <1>15 DEF HostAnswers, InPlace
  <1>20. AnswersFit'
    <2>1. ASSUME NEW o \in Owners, op[o].pc = "asked", live
          PROVE  /\ \A x \in Back : x.id = asked => FitsFor(o, x.answer)
                 /\ reply' # NoReply => FitsFor(o, reply')
      BY <1>2, <1>4, <1>8, <2>1 DEF AnswersFit
    <2>2. \A o, a : FitsFor(o, a) => FitsFor(o, a)'
      BY <1>4, <1>16 DEF FitsFor, InPlace
    <2>3. \A x \in Back : x.answer.kind # "none"
      BY <1>2 DEF AnswersFit
    <2>4. \A o : FitsFor(o, reply') => FitsFor(o, reply)'
      BY <1>4, <1>16 DEF FitsFor, InPlace
    <2> QED
      BY <1>4, <1>8, <2>1, <2>2, <2>3, <2>4 DEF AnswersFit
  <1> QED
    BY <1>6, <1>7, <1>10, <1>11, <1>12, <1>14, <1>17, <1>18, <1>19, <1>20
       DEF StorageInv, OwnerInv, TruthInv

(* The worker sends a query: the owner that holds the bridge asks for a    *)
(* step of its own, with an id nothing bears yet.                          *)
LEMMA AskKeepsStorage ==
  ASSUME StorageInv, RequestInv, NEW o \in Owners, SendQuery(o)
  PROVE  StorageInv'
  <1> DEFINE q == Query(o)
             e == [type |-> "query", query |-> q]
  <1>1. /\ fromWorker' = Append(fromWorker, e)
        /\ UNCHANGED <<writes, writer, toWorker, snapshots, server, host>>
        /\ Ask(o)
    BY DEF SendQuery, Send, InWorker, storage
  <1>2. /\ ServerInv /\ WayInv /\ BridgeInv /\ ProgressInv /\ QueryInv /\ PublishInv
        /\ FileInv /\ HostAnswers /\ AnswersFit
    BY DEF StorageInv, OwnerInv, TruthInv
  <1>3. /\ op[o].pc = "asking" /\ live
        /\ next' = next + 1 /\ asked' = next + 1 /\ reply' = NoReply
        /\ op' = [op EXCEPT ![o].pc = "asked"]
        /\ UNCHANGED <<live, busy, epoch, file, staged, applied, calls>>
    BY <1>1 DEF Ask, host
  <1>4. /\ op \in [Owners -> Record] /\ op[o] \in Record /\ next \in Nat
    BY <1>2 DEF BridgeInv, WayInv
  <1>5. q.id = next + 1 /\ q.owner = o /\ q.step = op[o].step /\ q \in QueryType
    <2>1. op[o].step \in Steps /\ op[o].base \in Versions
      BY <1>4 DEF Record
    <2> QED
      BY <1>4, <2>1 DEF Query, QueryType
  <1>6. e.type = "query" /\ e.query = q
    OBVIOUS
  <1> HIDE DEF e, q
  <1>7. Queued' = Queued
    BY <1>1 DEF Queued
  <1>8. \A k \in 1..6 : \A x \in Way[k] : x \in 1..next
    BY <1>2 DEF WayInv, Within
  <1>9. q.id \notin Ids(Queries(fromWorker))
    BY <1>4, <1>5, <1>8, Places
  <1>10. Queries(fromWorker') = Queries(fromWorker) \cup {q} /\ QueriesOnce(fromWorker')
    BY <1>1, <1>2, <1>6, <1>9, Channels, QueryAppended DEF WayInv
  <1>11. ServerInv'
    BY <1>1, <1>2 DEF ServerInv
  <1>12. Back' = Back /\ Waiting' = Waiting \cup {q}
    BY <1>1, <1>7, <1>10 DEF Back, Waiting
  <1>13. WayInv'
    <2>1. \A k \in 1..5 : Way'[k] \subseteq Way[k]
      BY <1>1, <1>7, Places
    <2>2. Way'[6] \subseteq Way[6] \cup {next + 1}
      BY <1>5, <1>10, IdsGrow, Places
    <2>3. Apart(Way') /\ Within(Way', next + 1)
      BY <1>2, <1>4, <2>1, <2>2, Joins DEF WayInv
    <2>4. Apart(Way') /\ Within(Way', next') /\ next' \in Nat
      BY <1>3, <1>4, <2>3
    <2>5. AnswersOnce(toWorker') /\ AnswersOnce(writes') /\ QueriesOnce(fromWorker')
      BY <1>1, <1>2, <1>10 DEF WayInv
    <2> QED
      BY <2>4, <2>5
         DEF WayInv, Apart, Within, Way, Answers, Ids, Queries, Queued, AnswersOnce, QueriesOnce
  <1>14. AnswerTaken'
    BY <1>3 DEF AnswerTaken
  <1>15. /\ \A p \in Owners : p # o => op'[p] = op[p]
         /\ op'[o] = [op[o] EXCEPT !.pc = "asked"] /\ op' \in [Owners -> Record]
    BY <1>3, <1>4 DEF Record
  <1>16. /\ op'[o].pc = "asked" /\ op'[o].step = op[o].step /\ op'[o].epoch = op[o].epoch
         /\ op'[o].base = op[o].base /\ op'[o].got = op[o].got /\ op'[o].sent = op[o].sent
         /\ op'[o].told = op[o].told
    BY <1>4, <1>15 DEF Record
  <1>17. busy /\ \A p \in Owners : Holds(p) => p = o
    BY <1>2, <1>3 DEF BridgeInv, Holds
  <1>18. BridgeInv'
    <2>1. \A p \in Owners : Holds(p)' <=> Holds(p)
      BY <1>3, <1>15, <1>16 DEF Holds
    <2>2. \A p \in Owners : op'[p].epoch = op[p].epoch
      BY <1>15, <1>16
    <2> QED
      BY <1>2, <1>3, <1>4, <1>15, <1>17, <2>1, <2>2 DEF BridgeInv
  <1>19. ProgressInv'
    BY <1>2, <1>3, <1>15, <1>16 DEF ProgressInv
  <1>20. op[o].told # "unchanged"
    BY <1>2, <1>3 DEF ProgressInv
  <1>21. \A p \in Owners : op'[p].pc = "asked" => p = o
    BY <1>15, <1>17 DEF Holds
  <1>22. \A p \in calls \cup server.query \cup Waiting : p.id <= next /\ p.id \in Nat
    <2>1. \A p \in server.query \cup Waiting : p.id \in 1..next
      BY <1>8, OnTheWay, IdsGrow, Places
    <2>2. \A p \in calls : p.id <= next /\ p.id \in Nat
      BY <1>2 DEF QueryInv, QueryType
    <2> QED
      BY <1>4, <2>1, <2>2
  <1>23. QueryInv'
    <2>1. (calls \cup server.query \cup Waiting)' \subseteq QueryType
      BY <1>1, <1>2, <1>3, <1>5, <1>12 DEF QueryInv
    <2>2. \A p \in calls' : p.step \in Writes /\ p.id <= next' /\ p.id \notin Ids(Waiting')
      <3>1. Ids(Waiting') = Ids(Waiting) \cup {next + 1}
        BY <1>5, <1>12, IdsGrow
      <3> QED
        BY <1>2, <1>3, <1>4, <1>22, <3>1 DEF QueryInv
    <2>3. Ids(Waiting') = Ids(Waiting)'
      BY DEF Ids
    <2>4. \A p \in Owners : op'[p].pc = "asked" =>
            \A r \in (calls \cup server.query \cup Waiting)' :
               r.id = asked' => r.owner = p /\ r.step = op'[p].step
      BY <1>1, <1>3, <1>4, <1>5, <1>12, <1>16, <1>21, <1>22
    <2> QED
      BY <2>1, <2>2, <2>3, <2>4 DEF QueryInv
  <1>24. \A p \in Owners : Fresh(p)' => Fresh(p) /\ ~Publishes(q, p)
    <2>1. ASSUME NEW p \in Owners, p # o, Fresh(p)'
          PROVE  Fresh(p) /\ ~Publishes(q, p)
      BY <1>5, <1>15, <2>1 DEF Fresh, Publishes
    <2>2. ASSUME Fresh(o)'
          PROVE  Fresh(o) /\ ~Publishes(q, o)
      <3>1. ~op[o].sent
        BY <1>16, <1>20, <2>2 DEF Fresh
      <3>2. op[o].step # "publish"
        BY <1>2, <3>1 DEF ProgressInv
      <3> QED
        BY <1>5, <3>1, <3>2 DEF Fresh, Publishes
    <2> QED
      BY <2>1, <2>2
  <1>25. \A p : ~Publishes(q, p) /\ NoneLeft(p) => NoneLeft(p)'
    BY <1>3, <1>12 DEF NoneLeft, Publishes
  <1>26. \A p : ~Publishes(q, p) /\ NotPublishing(p) => NotPublishing(p)'
    BY <1>1, <1>25 DEF NotPublishing, Publishes
  <1>27. q.step = "publish" => NotPublishing(o)
    BY <1>2, <1>3, <1>5 DEF PublishInv, Fresh
  <1>28. PublishInv'
    <2>1. \A p \in Owners : Fresh(p)' => NotPublishing(p)'
      BY <1>2, <1>24, <1>26 DEF PublishInv
    <2>2. \A x \in calls \cup server.query \cup Waiting : ~(Publishes(q, o) /\ Publishes(x, o))
      BY <1>27 DEF NotPublishing, NoneLeft, Publishes
    <2>3. \A p \in Owners : \A x, y \in (calls \cup server.query \cup Waiting)' :
            Publishes(x, p) /\ Publishes(y, p) => x = y
      <3>1. (calls \cup server.query \cup Waiting)' = (calls \cup server.query \cup Waiting) \cup {q}
        BY <1>1, <1>3, <1>12
      <3>2. \A p : Publishes(q, p) => p = o
        BY <1>5 DEF Publishes
      <3> QED
        BY <1>2, <2>2, <3>1, <3>2 DEF PublishInv
    <2>4. \A p \in Owners, x \in (calls \cup Waiting)' : Publishes(x, p) => p \notin applied'
      <3>1. (calls \cup Waiting)' = (calls \cup Waiting) \cup {q}
        BY <1>3, <1>12
      <3>2. \A p : Publishes(q, p) => p \notin applied
        BY <1>5, <1>27 DEF Publishes, NotPublishing, NoneLeft
      <3> QED
        BY <1>2, <1>3, <3>1, <3>2 DEF PublishInv
    <2> QED
      BY <2>1, <2>3, <2>4 DEF PublishInv, Publishes
  <1>29. FileInv'
    <2>1. \A p \in Owners : op'[p].got = op[p].got /\ op'[p].told = op[p].told
      BY <1>15, <1>16
    <2> QED
      BY <1>2, <1>3, <2>1 DEF FileInv, InPlace
  <1>30. HostAnswers'
    <2>1. \A p \in server.query, a \in server.answer :
            a.kind = "mismatch" => NoneLeft(p.owner)'
      <3> SUFFICES ASSUME NEW p \in server.query, NEW a \in server.answer, a.kind = "mismatch"
                   PROVE  NoneLeft(p.owner)'
        OBVIOUS
      <3>1. p.step = "publish" /\ NoneLeft(p.owner)
        BY <1>2 DEF HostAnswers
      <3>2. ~Publishes(q, p.owner)
        <4>1. CASE p.owner = o
          BY <1>5, <1>27, <3>1, <4>1 DEF NotPublishing, Publishes
        <4>2. CASE p.owner # o
          BY <1>5, <4>2 DEF Publishes
        <4> QED
          BY <4>1, <4>2
      <3> QED
        BY <1>25, <3>1, <3>2
    <2> QED
      BY <1>1, <1>2, <1>3, <2>1 DEF HostAnswers, InPlace
  <1>31. AnswersFit'
    <2>1. \A x \in Back : x.id \in 1..next
      BY <1>8, OnTheWay, IdsGrow
    <2>2. \A x \in Back : x.id # asked'
      BY <1>3, <1>4, <2>1
    <2> QED
      BY <1>2, <1>3, <1>12, <2>2 DEF AnswersFit
  <1> QED
    BY <1>11, <1>13, <1>14, <1>18, <1>19, <1>23, <1>28, <1>29, <1>30, <1>31
       DEF StorageInv, OwnerInv, TruthInv

-----------------------------------------------------------------------------
(* Nothing of the bridge changes in what follows.                          *)
LEMMA BridgeStays ==
  ASSUME BridgeInv, ProgressInv, UNCHANGED bridgeVars
  PROVE  BridgeInv' /\ ProgressInv' /\ UNCHANGED <<live, busy, epoch, next, asked, reply, op>>
  BY DEF BridgeInv, ProgressInv, bridgeVars, Holds

(* The storage goroutine puts a query to the host.                         *)
LEMMA CallHostKeepsStorage ==
  ASSUME StorageInv, RequestInv, CallHost
  PROVE  StorageInv'
  <1> DEFINE q == Head(snapshots)
  <1>1. /\ server = Free /\ snapshots # <<>>
        /\ server' = [query |-> {q}, answer |-> {}] /\ snapshots' = Tail(snapshots)
        /\ UNCHANGED <<writes, writer, toWorker, fromWorker, bridgeVars, file, staged, applied>>
        /\ calls' = calls \cup {p \in {q} : p.step \in Writes}
    BY DEF CallHost, Serve, pipes
  <1>2. /\ ServerInv /\ WayInv /\ AnswerTaken /\ BridgeInv /\ ProgressInv /\ QueryInv /\ PublishInv
        /\ FileInv /\ HostAnswers /\ AnswersFit
    BY DEF StorageInv, OwnerInv, TruthInv
  <1>3. BridgeInv' /\ ProgressInv' /\ UNCHANGED <<live, busy, epoch, next, asked, reply, op>>
    BY <1>1, <1>2, BridgeStays
  <1>4. snapshots' = <<>> /\ DOMAIN snapshots = {1} /\ snapshots[1] = q
    BY <1>1, <1>2, AtMostOne DEF ServerInv
  <1> HIDE DEF q
  <1>5. Queued = {q} /\ Queued' = {} /\ server.query = {} /\ server'.query = {q} /\ server'.answer = {}
    BY <1>1, <1>4 DEF Queued, Free
  <1>6. ServerInv'
    <2>1. server' = [query |-> server'.query, answer |-> server'.answer]
      BY <1>1
    <2>2. \A x, y \in server'.query : x = y
      BY <1>5
    <2>3. ProperSeq(snapshots') /\ Len(snapshots') <= 1
      BY <1>4, NoLetter
    <2> QED
      BY <1>5, <2>1, <2>2, <2>3 DEF ServerInv, ProperSeq
  <1>7. q \in Waiting /\ Waiting' \subseteq Waiting /\ Back' = Back
        /\ calls \subseteq calls' /\ calls' \subseteq calls \cup {q}
        /\ (calls' # calls => q.step \in Writes)
    BY <1>1, <1>5 DEF Waiting, Back
  <1>8. /\ Apart(Way') /\ Within(Way', next) /\ q.id \notin Ids(Waiting')
    <2>1. q.id \in Way[5] /\ q.id \notin Way'[5]
      BY <1>5, Places DEF Ids
    <2>2. Way'[4] \subseteq Way[4] \cup {q.id}
      BY <1>5, Places DEF Ids
    <2>3. \A k \in 1..6 : k # 4 => Way'[k] \subseteq Way[k]
      BY <1>1, <1>5, IdsGrow, Places
    <2>4. Apart(Way') /\ Within(Way', next)
      BY <1>2, <2>1, <2>2, <2>3, Moves DEF WayInv
    <2>5. q.id \notin Way'[6]
      BY <1>2, <2>1, <2>3 DEF WayInv, Apart
    <2> QED
      BY <2>1, <2>4, <2>5, OnTheWay
  <1>9. WayInv'
    <2>1. Apart(Way') /\ Within(Way', next') /\ next' \in Nat
      BY <1>2, <1>3, <1>8 DEF WayInv
    <2>2. AnswersOnce(toWorker') /\ AnswersOnce(writes') /\ QueriesOnce(fromWorker')
      BY <1>1, <1>2 DEF WayInv
    <2> QED
      BY <2>1, <2>2 DEF WayInv, Apart, Within, Way, Answers, Ids, Queries, Queued, AnswersOnce, QueriesOnce
  <1>10. AnswerTaken'
    <2>1. (Back \cup server.query \cup Waiting)' \subseteq Back \cup server.query \cup Waiting
      BY <1>5, <1>7
    <2> QED
      BY <1>2, <1>3, <2>1 DEF AnswerTaken, Ids
  <1>11. (calls \cup server.query \cup Waiting)' \subseteq calls \cup server.query \cup Waiting
    BY <1>5, <1>7
  <1>12. QueryInv'
    <2>1. q \in QueryType /\ q.id <= next
      <3>1. q.id \in 1..next
        BY <1>2, <1>7, OnTheWay, IdsGrow DEF WayInv, Within
      <3> QED
        BY <1>2, <1>7, <3>1 DEF QueryInv, WayInv
    <2>2. Ids(Waiting') \subseteq Ids(Waiting) /\ Ids(Waiting') = Ids(Waiting)'
      BY <1>7 DEF Ids
    <2>3. \A p \in calls' : p.step \in Writes /\ p.id <= next /\ p.id \notin Ids(Waiting')
      BY <1>2, <1>7, <1>8, <2>1, <2>2 DEF QueryInv
    <2> QED
      BY <1>2, <1>3, <1>11, <2>2, <2>3 DEF QueryInv
  <1>13. \A o : NoneLeft(o) => NoneLeft(o)'
    BY <1>1, <1>7 DEF NoneLeft, Publishes
  <1>14. \A o : NotPublishing(o) => NotPublishing(o)'
    BY <1>5, <1>7, <1>13 DEF NotPublishing, NoneLeft, Publishes
  <1>15. PublishInv'
    <2>1. (calls \cup Waiting)' \subseteq calls \cup Waiting
      BY <1>7
    <2> QED
      BY <1>1, <1>2, <1>3, <1>11, <1>14, <2>1 DEF PublishInv, Publishes, Fresh
  <1>16. FileInv'
    BY <1>1, <1>2, <1>3 DEF FileInv, InPlace
  <1>17. HostAnswers'
    BY <1>5 DEF HostAnswers
  <1>18. AnswersFit'
    BY <1>1, <1>2, <1>3, <1>7, <1>14 DEF AnswersFit, InPlace, FitsFor
  <1> QED
    BY <1>3, <1>6, <1>9, <1>10, <1>12, <1>15, <1>16, <1>17, <1>18
       DEF StorageInv, OwnerInv, TruthInv

(* It sends the answer on, which is the host's or an error.                *)
LEMMA SendAnswerStorage ==
  ASSUME StorageInv, RequestInv, NEW q \in server.query, NEW a, SendAnswer(q, a), InCarrier,
         a \in server.answer \/ a = [kind |-> "error"]
  PROVE  StorageInv'
  <1> DEFINE e == [type |-> "answer", id |-> q.id, answer |-> a]
  <1>1. /\ server' = Free /\ (writes' = writes \/ writes' = Append(writes, e))
        /\ UNCHANGED <<snapshots, writer, toWorker, fromWorker, bridgeVars>>
        /\ UNCHANGED <<file, staged, applied, calls>>
    BY DEF SendAnswer, InCarrier, host
  <1>2. /\ ServerInv /\ WayInv /\ AnswerTaken /\ BridgeInv /\ ProgressInv /\ QueryInv /\ PublishInv
        /\ FileInv /\ HostAnswers /\ AnswersFit
    BY DEF StorageInv, OwnerInv, TruthInv
  <1>3. BridgeInv' /\ ProgressInv' /\ UNCHANGED <<live, busy, epoch, next, asked, reply, op>>
    BY <1>1, <1>2, BridgeStays
  <1>4. e.type = "answer" /\ e.id = q.id /\ e.answer = a
    OBVIOUS
  <1> HIDE DEF e
  <1>5. server'.query = {} /\ server'.answer = {}
    BY <1>1 DEF Free
  <1>6. Queued' = Queued /\ Waiting' = Waiting
    BY <1>1 DEF Queued, Waiting
  <1>7. ServerInv'
    BY <1>1, <1>2, <1>5 DEF ServerInv, Free
  <1>8. /\ q.id \in Way[4] /\ q.id \notin Way'[4]
    BY <1>5, Places DEF Ids
  <1>9. e.id \notin Ids(Answers(writes))
    <2>1. q.id \notin Way[3]
      BY <1>2, <1>8 DEF WayInv, Apart
    <2> QED
      BY <1>4, <2>1, Places
  <1>10. /\ Answers(writes) \subseteq Answers(writes')
         /\ Answers(writes') \subseteq Answers(writes) \cup {e} /\ AnswersOnce(writes')
    <2>1. ProperSeq(writes) /\ AnswersOnce(writes)
      BY <1>2, Channels DEF WayInv
    <2>2. CASE writes' = writes
      BY <2>1, <2>2
    <2>3. CASE writes' = Append(writes, e)
      <3>1. Answers(writes') = Answers(writes) \cup {e} /\ AnswersOnce(writes')
        BY <1>4, <1>9, <2>1, <2>3, AnswerAppended
      <3> QED
        BY <3>1
    <2> QED
      BY <1>1, <2>2, <2>3
  <1>11. Apart(Way') /\ Within(Way', next)
    <2>1. Way'[3] \subseteq Way[3] \cup {q.id}
      <3>1. Ids(Answers(writes')) \subseteq Ids(Answers(writes) \cup {e})
        BY <1>10, IdsGrow
      <3> QED
        BY <1>4, <3>1, IdsGrow, Places
    <2>2. \A k \in 1..6 : k # 3 => Way'[k] \subseteq Way[k]
      BY <1>1, <1>5, <1>6, IdsGrow, Places
    <2>3. Apart(Way) /\ Within(Way, next) /\ next \in Nat
      BY <1>2 DEF WayInv
    <2>4. 4 \in 1..6 /\ 3 \in 1..6 /\ 4 # 3
      OBVIOUS
    <2> QED
      BY <1>8, <2>1, <2>2, <2>3, <2>4, Moves
  <1>12. WayInv'
    <2>1. Apart(Way') /\ Within(Way', next') /\ next' \in Nat
      BY <1>2, <1>3, <1>11 DEF WayInv
    <2>2. AnswersOnce(toWorker') /\ AnswersOnce(writes') /\ QueriesOnce(fromWorker')
      BY <1>1, <1>2, <1>10 DEF WayInv
    <2> QED
      BY <2>1, <2>2 DEF WayInv, Apart, Within, Way, Answers, Ids, Queries, Queued, AnswersOnce, QueriesOnce
  <1>13. Back' \subseteq Back \cup {e}
    BY <1>1, <1>10 DEF Back
  <1>14. AnswerTaken'
    <2>1. Ids((Back \cup server.query \cup Waiting)') \subseteq Ids(Back \cup server.query \cup Waiting)
      <3>1. \A x \in (Back \cup server.query \cup Waiting)' :
              x \in Back \cup server.query \cup Waiting \/ x = e
        BY <1>5, <1>6, <1>13
      <3>2. e.id \in Ids(Back \cup server.query \cup Waiting)
        BY <1>4 DEF Ids
      <3> QED
        BY <3>1, <3>2 DEF Ids
    <2> QED
      BY <1>2, <1>3, <2>1 DEF AnswerTaken, Ids
  <1>15. (calls \cup server.query \cup Waiting)' \subseteq calls \cup server.query \cup Waiting
    BY <1>1, <1>5, <1>6
  <1>16. Ids(Waiting)' = Ids(Waiting)
    BY <1>6 DEF Ids
  <1>17. QueryInv'
    BY <1>1, <1>2, <1>3, <1>15, <1>16 DEF QueryInv
  <1>18. \A o : NoneLeft(o) => NoneLeft(o)' /\ NotPublishing(o)'
    BY <1>1, <1>5, <1>6 DEF NoneLeft, NotPublishing, Publishes
  <1>19. \A o : NotPublishing(o) => NotPublishing(o)'
    BY <1>18 DEF NotPublishing
  <1>20. PublishInv'
    <2>1. (calls \cup Waiting)' = calls \cup Waiting
      BY <1>1, <1>6
    <2> QED
      BY <1>1, <1>2, <1>3, <1>15, <1>19, <2>1 DEF PublishInv, Publishes, Fresh
  <1>21. FileInv'
    BY <1>1, <1>2, <1>3 DEF FileInv, InPlace
  <1>22. HostAnswers'
    BY <1>5 DEF HostAnswers
  <1>23. AnswersFit'
    <2>1. a.kind # "none"
      BY <1>2 DEF HostAnswers
    <2>2. \A o, b : FitsFor(o, b) => FitsFor(o, b)'
      BY <1>1, <1>3, <1>19 DEF FitsFor, InPlace
    <2>3. ASSUME NEW o \in Owners, op[o].pc = "asked", live, e.id = asked
          PROVE  FitsFor(o, a)'
      <3>1. q.owner = o /\ q.step = op[o].step
        BY <1>2, <1>4, <2>3 DEF QueryInv
      <3>2. a.kind = "value" /\ op'[o].step \notin Writes => InPlace(a.version)'
        BY <1>1, <1>2, <1>3, <3>1 DEF HostAnswers, InPlace
      <3>3. a.kind = "mismatch" => NotPublishing(o)'
        BY <1>2, <1>18, <3>1 DEF HostAnswers
      <3> QED
        BY <3>2, <3>3 DEF FitsFor
    <2>4. \A x \in Back' : x.answer.kind # "none"
      BY <1>2, <1>4, <1>13, <2>1 DEF AnswersFit
    <2>5. ASSUME NEW o \in Owners, op[o].pc = "asked", live
          PROVE  \A x \in Back' : x.id = asked => FitsFor(o, x.answer)'
      BY <1>2, <1>4, <1>13, <2>2, <2>3, <2>5 DEF AnswersFit
    <2>6. ASSUME NEW o \in Owners, op[o].pc = "asked", live, reply # NoReply
          PROVE  FitsFor(o, reply)'
      <3>1. FitsFor(o, reply)
        BY <1>2, <2>6 DEF AnswersFit
      <3> QED
        BY <1>1, <1>3, <1>19, <3>1 DEF FitsFor, InPlace
    <2> QED
      BY <1>3, <2>4, <2>5, <2>6 DEF AnswersFit
  <1> QED
    BY <1>3, <1>7, <1>12, <1>14, <1>17, <1>20, <1>21, <1>22, <1>23
       DEF StorageInv, OwnerInv, TruthInv

-----------------------------------------------------------------------------
(* The host answers the query that is waited for, or carries out a write.  *)
LEMMA AnswerFacts ==
  ASSUME StorageInv, NEW q, NEW a, Answer(q, a)
  PROVE  /\ ServerInv' /\ WayInv' /\ AnswerTaken' /\ BridgeInv' /\ ProgressInv' /\ QueryInv'
         /\ UNCHANGED <<live, busy, epoch, next, asked, reply, op>>
         /\ Back' = Back /\ Waiting' = Waiting /\ server'.query = server.query
         /\ calls' = calls \ {q}
         /\ \/ server' = server
            \/ server.query = {q} /\ server'.answer = {a}
  <1>1. /\ server' = IF server.query = {q} THEN [server EXCEPT !.answer = {a}] ELSE server
        /\ calls' = calls \ {q}
        /\ UNCHANGED <<writes, writer, toWorker, fromWorker, snapshots, bridgeVars>>
    BY DEF Answer, pipes
  <1>2. /\ ServerInv /\ WayInv /\ AnswerTaken /\ BridgeInv /\ ProgressInv /\ QueryInv
    BY DEF StorageInv, OwnerInv
  <1>3. BridgeInv' /\ ProgressInv' /\ UNCHANGED <<live, busy, epoch, next, asked, reply, op>>
    BY <1>1, <1>2, BridgeStays
  <1>4. /\ server = [query |-> server.query, answer |-> server.answer]
        /\ \A x, y \in server.query : x = y
        /\ server.query = {} => server.answer = {}
        /\ ProperSeq(snapshots) /\ Len(snapshots) <= 1
    BY <1>2 DEF ServerInv
  <1>5. /\ server'.query = server.query
        /\ server' = [query |-> server'.query, answer |-> server'.answer]
        /\ server' = server \/ (server.query = {q} /\ server'.answer = {a})
    <2>1. CASE server.query = {q}
      <3>1. server' = [server EXCEPT !.answer = {a}]
        BY <1>1, <2>1
      <3>2. server' = [query |-> server.query, answer |-> {a}]
        BY <1>4, <3>1
      <3> QED
        BY <2>1, <3>2
    <2>2. CASE server.query # {q}
      <3>1. server' = server
        BY <1>1, <2>2
      <3> QED
        BY <1>4, <3>1
    <2> QED
      BY <2>1, <2>2
  <1>6. ServerInv'
    <2>1. server'.query = {} => server'.answer = {}
      BY <1>4, <1>5
    <2>2. \A x, y \in server'.query : x = y
      BY <1>4, <1>5
    <2>3. ProperSeq(snapshots)' /\ Len(snapshots') <= 1
      BY <1>1, <1>4 DEF ProperSeq
    <2> QED
      BY <1>5, <2>1, <2>2, <2>3 DEF ServerInv
  <1>7. Queued' = Queued
    BY <1>1 DEF Queued
  <1>8. Back' = Back /\ Waiting' = Waiting
    BY <1>1, <1>7 DEF Back, Waiting
  <1>9. WayInv'
    BY <1>1, <1>2, <1>3, <1>5, <1>7, WayShrinks DEF WayInv
  <1>10. AnswerTaken'
    <2>1. (Back \cup server.query \cup Waiting)' = Back \cup server.query \cup Waiting
      BY <1>5, <1>8
    <2> QED
      BY <1>2, <1>3, <2>1 DEF AnswerTaken
  <1>11. QueryInv'
    <2>1. (calls \cup server.query \cup Waiting)' \subseteq calls \cup server.query \cup Waiting
      BY <1>1, <1>5, <1>8
    <2>2. Ids(Waiting)' = Ids(Waiting)
      BY <1>8 DEF Ids
    <2> QED
      BY <1>1, <1>2, <1>3, <2>1, <2>2 DEF QueryInv
  <1> QED
    BY <1>1, <1>3, <1>5, <1>6, <1>8, <1>9, <1>10, <1>11

(* What it carries out is not on its way any more, and nothing else that   *)
(* publishes for its owner is.                                             *)
LEMMA OnlyPublication ==
  ASSUME QueryInv, PublishInv, NEW q \in calls, q.step = "publish"
  PROVE  /\ q.owner \in Owners /\ q.owner \notin applied
         /\ \A x \in (calls \ {q}) \cup Waiting : ~Publishes(x, q.owner)
         /\ ~Fresh(q.owner)
         /\ ~NoneLeft(q.owner)
  <1>1. q.owner \in Owners /\ Publishes(q, q.owner)
    BY DEF QueryInv, QueryType, Publishes
  <1>2. ~NoneLeft(q.owner) /\ ~NotPublishing(q.owner)
    BY <1>1 DEF NoneLeft, NotPublishing
  <1>3. ~Fresh(q.owner)
    BY <1>1, <1>2 DEF PublishInv
  <1>4. q.owner \notin applied
    BY <1>1 DEF PublishInv
  <1>5. \A x \in calls \cup server.query \cup Waiting : Publishes(x, q.owner) => x = q
    BY <1>1 DEF PublishInv
  <1>6. q \notin Waiting
    BY IdsGrow DEF QueryInv
  <1> QED
    BY <1>1, <1>2, <1>3, <1>4, <1>5, <1>6

(* The steps that put nothing in place.                                    *)
LEMMA HostFrame ==
  ASSUME StorageInv, NEW q, NEW a, Answer(q, a), UNCHANGED <<file, applied>>,
         a.kind # "none",
         q \in server.query /\ a.kind = "value" /\ q.step \notin Writes => InPlace(a.version),
         q \in server.query /\ a.kind = "mismatch" => q \in calls /\ q.step = "publish"
  PROVE  StorageInv'
  <1>1. /\ ServerInv' /\ WayInv' /\ AnswerTaken' /\ BridgeInv' /\ ProgressInv' /\ QueryInv'
        /\ UNCHANGED <<live, busy, epoch, next, asked, reply, op>>
        /\ Back' = Back /\ Waiting' = Waiting /\ server'.query = server.query
        /\ calls' = calls \ {q}
        /\ \/ server' = server
           \/ server.query = {q} /\ server'.answer = {a}
    BY AnswerFacts
  <1>2. QueryInv /\ PublishInv /\ FileInv /\ HostAnswers /\ AnswersFit
    BY DEF StorageInv, OwnerInv, TruthInv
  <1>3. \A o : NoneLeft(o) => NoneLeft(o)'
    BY <1>1 DEF NoneLeft, Publishes
  <1>4. \A o : NotPublishing(o) => NotPublishing(o)'
    BY <1>1, <1>3 DEF NotPublishing, Publishes
  <1>5. PublishInv'
    <2>1. /\ (calls \cup server.query \cup Waiting)' \subseteq calls \cup server.query \cup Waiting
          /\ (calls \cup Waiting)' \subseteq calls \cup Waiting
      BY <1>1
    <2> QED
      BY <1>1, <1>2, <1>4, <2>1 DEF PublishInv, Publishes, Fresh
  <1>6. FileInv'
    BY <1>1, <1>2 DEF FileInv, InPlace
  <1>7. HostAnswers'
    <2>1. CASE server' = server
      BY <1>2, <1>3, <2>1 DEF HostAnswers, InPlace
    <2>2. CASE server.query = {q} /\ server'.answer = {a}
      <3>1. q \in server.query /\ server'.query = {q}
        BY <1>1, <2>2
      <3>2. a.kind = "mismatch" => q.step = "publish" /\ NoneLeft(q.owner)'
        BY <1>1, <1>2, <3>1, OnlyPublication DEF NoneLeft, Publishes
      <3>3. a.kind = "value" /\ q.step \notin Writes => InPlace(a.version)'
        BY <3>1 DEF InPlace
      <3> QED
        BY <2>2, <3>1, <3>2, <3>3 DEF HostAnswers
    <2> QED
      BY <1>1, <2>1, <2>2
  <1>8. AnswersFit'
    BY <1>1, <1>2, <1>4 DEF AnswersFit, InPlace, FitsFor
  <1> QED
    BY <1>1, <1>5, <1>6, <1>7, <1>8 DEF StorageInv, OwnerInv, TruthInv

LEMMA ReadFileKeepsStorage ==
  ASSUME StorageInv, NEW q \in server.query, ReadFile(q)
  PROVE  StorageInv'
  <1> DEFINE a == [kind |-> "value", version |-> file]
  <1>1. Answer(q, a) /\ UNCHANGED <<file, applied>>
    BY DEF ReadFile
  <1>2. a.kind = "value" /\ a.version = file
    OBVIOUS
  <1> HIDE DEF a
  <1>3. InPlace(file)
    BY DEF StorageInv, OwnerInv, TruthInv, FileInv
  <1>4. a.kind # "none" /\ a.kind # "mismatch" /\ InPlace(a.version)
    BY <1>2, <1>3
  <1> QED
    BY <1>1, <1>4, HostFrame

LEMMA StageKeepsStorage ==
  ASSUME StorageInv, NEW q \in calls, Stage(q)
  PROVE  StorageInv'
  <1> DEFINE a == [kind |-> "value"]
  <1>1. Answer(q, a) /\ UNCHANGED <<file, applied>> /\ q.step \in Writes
    BY DEF Stage, Writes
  <1>2. a.kind # "none" /\ a.kind # "mismatch"
    OBVIOUS
  <1> HIDE DEF a
  <1> QED
    BY <1>1, <1>2, HostFrame

LEMMA MismatchKeepsStorage ==
  ASSUME StorageInv, NEW q \in calls, Mismatch(q)
  PROVE  StorageInv'
  <1> DEFINE a == [kind |-> "mismatch"]
  <1>1. Answer(q, a) /\ UNCHANGED <<file, applied>> /\ q.step = "publish"
    BY DEF Mismatch
  <1>2. a.kind # "none" /\ a.kind # "value"
    OBVIOUS
  <1> HIDE DEF a
  <1> QED
    BY <1>1, <1>2, HostFrame

LEMMA PublishKeepsStorage ==
  ASSUME StorageInv, NEW q \in calls, Publish(q)
  PROVE  StorageInv'
  <1> DEFINE a == [kind |-> "value"]
  <1>1. Answer(q, a) /\ file' = q.owner /\ applied' = applied \cup {q.owner} /\ q.step = "publish"
    BY DEF Publish
  <1>2. a.kind = "value"
    OBVIOUS
  <1> HIDE DEF a
  <1>3. /\ ServerInv' /\ WayInv' /\ AnswerTaken' /\ BridgeInv' /\ ProgressInv' /\ QueryInv'
        /\ UNCHANGED <<live, busy, epoch, next, asked, reply, op>>
        /\ Back' = Back /\ Waiting' = Waiting /\ server'.query = server.query
        /\ calls' = calls \ {q}
        /\ \/ server' = server
           \/ server.query = {q} /\ server'.answer = {a}
    BY <1>1, AnswerFacts
  <1>4. QueryInv /\ PublishInv /\ FileInv /\ HostAnswers /\ AnswersFit
    BY DEF StorageInv, OwnerInv, TruthInv
  <1>5. /\ q.owner \in Owners /\ q.owner \notin applied
        /\ \A x \in (calls \ {q}) \cup Waiting : ~Publishes(x, q.owner)
        /\ ~Fresh(q.owner)
        /\ ~NoneLeft(q.owner)
    BY <1>1, <1>4, OnlyPublication
  <1>6. \A o : NoneLeft(o) => NoneLeft(o)'
    <2>1. \A o : NoneLeft(o) => o # q.owner
      BY <1>5
    <2> QED
      BY <1>1, <1>3, <2>1 DEF NoneLeft, Publishes
  <1>7. \A o : NotPublishing(o) => NotPublishing(o)'
    BY <1>3, <1>6 DEF NotPublishing, Publishes
  <1>8. \A v : InPlace(v) => InPlace(v)'
    BY <1>1 DEF InPlace
  <1>9. PublishInv'
    <2>1. (calls \cup server.query \cup Waiting)' \subseteq calls \cup server.query \cup Waiting
      BY <1>3
    <2>2. \A o \in Owners, x \in (calls \cup Waiting)' : Publishes(x, o) => o \notin applied'
      <3>1. \A x \in (calls \cup Waiting)' : x \in calls \cup Waiting /\ ~Publishes(x, q.owner)
        BY <1>3, <1>5
      <3> QED
        BY <1>1, <1>4, <3>1 DEF PublishInv
    <2>3. \A o \in Owners : Fresh(o)' => NotPublishing(o)'
      BY <1>3, <1>4, <1>7 DEF PublishInv, Fresh
    <2> QED
      BY <1>4, <2>1, <2>2, <2>3 DEF PublishInv, Publishes
  <1>10. FileInv'
    <2>1. InPlace(file)'
      BY <1>1, <1>5 DEF InPlace, Versions
    <2>2. \A o \in Owners : InPlace(op[o].got)' /\ (op'[o].told = "published" => o \in applied')
      <3>1. \A o \in Owners : InPlace(op'[o].got)
        BY <1>3, <1>4 DEF FileInv
      <3> QED
        BY <1>1, <1>3, <1>4, <3>1 DEF FileInv, InPlace
    <2> QED
      BY <2>1, <2>2 DEF FileInv
  <1>11. HostAnswers'
    <2>1. CASE server' = server
      BY <1>4, <1>6, <1>8, <2>1 DEF HostAnswers, InPlace
    <2>2. CASE server.query = {q} /\ server'.answer = {a}
      <3>1. server'.query = {q} /\ q.step \in Writes
        BY <1>1, <1>3, <2>2 DEF Writes
      <3> QED
        BY <1>2, <2>2, <3>1 DEF HostAnswers
    <2> QED
      BY <1>3, <2>1, <2>2
  <1>12. AnswersFit'
    BY <1>1, <1>3, <1>4, <1>7 DEF AnswersFit, InPlace, FitsFor
  <1> QED
    BY <1>3, <1>9, <1>10, <1>11, <1>12 DEF StorageInv, OwnerInv, TruthInv

-----------------------------------------------------------------------------
(* The bridge.  Neither the letters nor the host change in its steps.      *)
LEMMA MailStays ==
  ASSUME ServerInv, WayInv, UNCHANGED <<carrierVars, host>>, next' = next
  PROVE  /\ ServerInv' /\ WayInv'
         /\ Back' = Back /\ Waiting' = Waiting /\ server' = server
         /\ UNCHANGED <<file, applied, calls>>
         /\ \A o : NoneLeft(o)' <=> NoneLeft(o)
         /\ \A o : NotPublishing(o)' <=> NotPublishing(o)
         /\ \A v : InPlace(v)' <=> InPlace(v)
  <1>1. UNCHANGED <<writes, writer, toWorker, fromWorker, snapshots, server, file, applied, calls>>
    BY DEF carrierVars, pipes, storage, host
  <1>2. ServerInv'
    BY <1>1 DEF ServerInv
  <1>3. Back' = Back /\ Waiting' = Waiting /\ Way' = Way
    BY <1>1 DEF Back, Waiting, Way, Queued
  <1>4. WayInv'
    BY <1>1, <1>3 DEF WayInv
  <1>5. \A o : NoneLeft(o)' <=> NoneLeft(o)
    BY <1>1, <1>3 DEF NoneLeft
  <1>6. \A o : NotPublishing(o)' <=> NotPublishing(o)
    BY <1>1, <1>5 DEF NotPublishing
  <1>7. \A v : InPlace(v)' <=> InPlace(v)
    BY <1>1 DEF InPlace
  <1> QED
    BY <1>1, <1>2, <1>3, <1>4, <1>5, <1>6, <1>7

(* What an owner may be after a step of its own, and what it does to the   *)
(* bridge: it takes or leaves its place in the queue, or it holds the      *)
(* bridge and goes on or releases it.                                      *)
Sound(o, w) ==
    /\ w \in Record /\ w.pc # "asked" /\ w.epoch <= epoch
    /\ w.sent <=> w.step \in {"publish", "back", "backcheck"}
    /\ w.pc \in {"idle", "waiting"} => w.step \in {"page", "stage"}
    /\ w.told = "unchanged" => w.pc = "done"
    /\ InPlace(w.got)
    /\ w.told = "published" => o \in applied
    /\ ~w.sent \/ w.told = "unchanged" \/ (w.pc = "asking" /\ w.step = "publish")
         => NotPublishing(o)
Queues(o, w) == UNCHANGED <<busy, asked, reply>> /\ ~Holds(o) /\ w.pc # "asking"
Enters(o, w) == UNCHANGED <<asked, reply>> /\ ~busy /\ busy' = TRUE /\ w.pc = "asking" /\ w.epoch = epoch
Works(o, w) ==
    /\ Holds(o) /\ asked' = 0 /\ reply' \in {reply, NoReply}
    /\ \/ busy' = FALSE /\ w.pc # "asking"
       \/ busy' = busy /\ w.pc = "asking" /\ w.epoch = epoch

LEMMA OwnerFrame ==
  ASSUME StorageInv, NEW o \in Owners, NEW w, Sound(o, w),
         op' = [op EXCEPT ![o] = w], UNCHANGED <<carrierVars, host, live, epoch, next>>,
         Queues(o, w) \/ Enters(o, w) \/ Works(o, w)
  PROVE  StorageInv'
  <1>1. /\ ServerInv /\ WayInv /\ AnswerTaken /\ BridgeInv /\ ProgressInv /\ QueryInv /\ PublishInv
        /\ FileInv /\ HostAnswers /\ AnswersFit
    BY DEF StorageInv, OwnerInv, TruthInv
  <1>2. /\ ServerInv' /\ WayInv'
        /\ Back' = Back /\ Waiting' = Waiting /\ server' = server
        /\ UNCHANGED <<file, applied, calls>>
        /\ \A p : NoneLeft(p)' <=> NoneLeft(p)
        /\ \A p : NotPublishing(p)' <=> NotPublishing(p)
        /\ \A v : InPlace(v)' <=> InPlace(v)
    BY <1>1, MailStays
  <1>3. /\ op \in [Owners -> Record] /\ op' \in [Owners -> Record]
        /\ op'[o] = w /\ \A p \in Owners : p # o => op'[p] = op[p]
    BY <1>1 DEF BridgeInv, Sound
  <1>4. AnswerTaken'
    <2>1. asked' # 0 /\ reply' # NoReply => asked' = asked /\ reply' = reply
      BY DEF Queues, Enters, Works
    <2>2. (Back \cup server.query \cup Waiting)' = Back \cup server.query \cup Waiting
      BY <1>2
    <2> QED
      BY <1>1, <2>1, <2>2 DEF AnswerTaken
  <1>5. \A p \in Owners : p # o => (Holds(p)' <=> Holds(p))
    BY <1>3 DEF Holds
  <1>6. Holds(o)' <=> w.pc = "asking"
    BY <1>3 DEF Holds, Sound
  <1>7. \A p \in Owners : Holds(p) => busy /\ op[p].epoch = epoch
    BY <1>1 DEF BridgeInv
  <1>8. Holds(o) => \A p \in Owners : Holds(p) => p = o
    BY <1>1 DEF BridgeInv
  <1>9. \A p \in Owners : op'[p].pc = "asked" =>
          p # o /\ op[p].pc = "asked" /\ asked' = asked /\ reply' = reply
    <2>1. \A p \in Owners : op'[p].pc = "asked" => p # o /\ op[p].pc = "asked" /\ Holds(p)
      BY <1>3 DEF Sound, Holds
    <2> QED
      BY <1>8, <2>1 DEF Queues, Enters, Works
  <1>10. BridgeInv'
    <2>1. asked' \in {0, next} /\ (asked' # 0 => live /\ busy')
      BY <1>1 DEF BridgeInv, Queues, Enters, Works
    <2>2. \A p \in Owners : op'[p].epoch <= epoch
      BY <1>1, <1>3 DEF BridgeInv, Sound
    <2>3. \A p \in Owners : Holds(p)' => busy' /\ op'[p].epoch = epoch
      <3>1. Holds(o)' => busy' /\ op'[o].epoch = epoch
        BY <1>3, <1>6, <1>7 DEF Queues, Enters, Works
      <3>2. ASSUME NEW p \in Owners, p # o, Holds(p)'
            PROVE  busy' /\ op'[p].epoch = epoch
        BY <1>3, <1>5, <1>7, <1>8, <3>2 DEF Queues, Enters, Works
      <3> QED
        BY <3>1, <3>2
    <2>4. \A p, r \in Owners : Holds(p)' /\ Holds(r)' => p = r
      <3>1. \A p, r \in Owners : Holds(p) /\ Holds(r) => p = r
        BY <1>1 DEF BridgeInv
      <3>2. Holds(o)' => \A p \in Owners : Holds(p) => p = o
        BY <1>6, <1>7, <1>8 DEF Queues, Enters, Works
      <3> QED
        BY <1>5, <3>1, <3>2
    <2>5. \A p \in Owners : op'[p].pc = "asked" /\ live => asked' # 0
      BY <1>1, <1>9 DEF BridgeInv
    <2>6. epoch \in Nat
      BY <1>1 DEF BridgeInv
    <2> QED
      BY <1>3, <2>1, <2>2, <2>3, <2>4, <2>5, <2>6 DEF BridgeInv
  <1>11. ProgressInv'
    BY <1>1, <1>3 DEF ProgressInv, Sound
  <1>12. QueryInv'
    <2>1. (calls \cup server.query \cup Waiting)' = calls \cup server.query \cup Waiting
      BY <1>2
    <2>2. Ids(Waiting)' = Ids(Waiting)
      BY <1>2 DEF Ids
    <2>3. \A p \in Owners : op'[p].pc = "asked" /\ live =>
            \A q \in calls \cup server.query \cup Waiting :
               q.id = asked' => q.owner = p /\ q.step = op'[p].step
      BY <1>1, <1>3, <1>9 DEF QueryInv
    <2> QED
      BY <1>1, <1>2, <2>1, <2>2, <2>3 DEF QueryInv
  <1>13. PublishInv'
    <2>1. \A p \in Owners : Fresh(p)' => NotPublishing(p)'
      <3>1. \A p \in Owners : p # o => (Fresh(p)' <=> Fresh(p))
        BY <1>3 DEF Fresh
      <3>2. Fresh(o)' => NotPublishing(o)
        BY <1>3 DEF Fresh, Sound
      <3> QED
        BY <1>1, <1>2, <3>1, <3>2 DEF PublishInv
    <2> QED
      BY <1>1, <1>2, <2>1 DEF PublishInv, Publishes
  <1>14. FileInv'
    <2>1. \A p \in Owners : InPlace(op'[p].got) /\ (op'[p].told = "published" => p \in applied)
      BY <1>1, <1>3 DEF FileInv, Sound
    <2>2. \A p \in Owners : InPlace(op[p].got)'
      BY <1>2, <2>1 DEF InPlace
    <2> QED
      BY <1>1, <1>2, <2>1, <2>2 DEF FileInv, InPlace
  <1>15. HostAnswers'
    BY <1>1, <1>2 DEF HostAnswers, InPlace
  <1>16. AnswersFit'
    <2>1. \A p \in Owners : op'[p].pc = "asked" /\ live =>
            /\ \A e \in Back : e.id = asked' => FitsFor(p, e.answer)
            /\ reply' # NoReply => FitsFor(p, reply')
      BY <1>1, <1>9 DEF AnswersFit
    <2>2. ASSUME NEW p \in Owners, op'[p].pc = "asked", NEW a, FitsFor(p, a)
          PROVE  FitsFor(p, a)'
      BY <1>2, <1>3, <1>9, <2>2 DEF FitsFor, InPlace
    <2>3. ASSUME NEW p \in Owners, op'[p].pc = "asked", FitsFor(p, reply')
          PROVE  FitsFor(p, reply)'
      BY <1>2, <1>3, <1>9, <2>3 DEF FitsFor, InPlace
    <2> QED
      BY <1>1, <1>2, <2>1, <2>2, <2>3 DEF AnswersFit
  <1> QED
    BY <1>2, <1>4, <1>10, <1>11, <1>12, <1>13, <1>14, <1>15, <1>16
       DEF StorageInv, OwnerInv, TruthInv

(* Sessions begin and are cancelled.                                       *)
LEMMA SessionKeepsStorage ==
  ASSUME StorageInv, BeginSession \/ CancelSession
  PROVE  StorageInv'
  <1>1. /\ ServerInv /\ WayInv /\ AnswerTaken /\ BridgeInv /\ ProgressInv /\ QueryInv /\ PublishInv
        /\ FileInv /\ HostAnswers /\ AnswersFit
    BY DEF StorageInv, OwnerInv, TruthInv
  <1>2. /\ UNCHANGED <<carrierVars, host, busy, next, op>>
        /\ \/ /\ ~busy /\ asked = 0 /\ epoch' = epoch + 1 /\ live' = TRUE
              /\ reply' = NoReply /\ asked' = asked
           \/ live' = FALSE /\ asked' = 0 /\ UNCHANGED <<epoch, reply>>
    BY DEF BeginSession, CancelSession, Bridge, InWorker, Begin, Cancel
  <1>3. /\ ServerInv' /\ WayInv'
        /\ Back' = Back /\ Waiting' = Waiting /\ server' = server
        /\ UNCHANGED <<file, applied, calls>>
        /\ \A p : NoneLeft(p)' <=> NoneLeft(p)
        /\ \A p : NotPublishing(p)' <=> NotPublishing(p)
        /\ \A v : InPlace(v)' <=> InPlace(v)
    BY <1>1, <1>2, MailStays
  <1>4. AnswerTaken'
    BY <1>2 DEF AnswerTaken
  <1>5. \A p \in Owners : op[p].pc = "asked" => ~live'
    BY <1>1, <1>2 DEF BridgeInv, Holds
  <1>6. BridgeInv'
    <2>1. epoch' \in Nat /\ epoch <= epoch' /\ (busy => epoch' = epoch)
      BY <1>1, <1>2 DEF BridgeInv
    <2>2. asked' = 0 /\ \A p \in Owners : op[p].epoch \in Nat
      BY <1>1, <1>2 DEF BridgeInv, Record
    <2>3. \A p \in Owners : op[p].epoch <= epoch'
      BY <1>1, <2>1, <2>2 DEF BridgeInv
    <2>4. \A p \in Owners : Holds(p)' <=> Holds(p)
      BY <1>2 DEF Holds
    <2> QED
      BY <1>1, <1>2, <1>5, <2>1, <2>2, <2>3, <2>4 DEF BridgeInv
  <1>7. ProgressInv'
    BY <1>1, <1>2 DEF ProgressInv
  <1>8. QueryInv'
    <2>1. Ids(Waiting)' = Ids(Waiting)
      BY <1>3 DEF Ids
    <2> QED
      BY <1>1, <1>2, <1>3, <1>5, <2>1 DEF QueryInv
  <1>9. PublishInv'
    BY <1>1, <1>2, <1>3 DEF PublishInv, Publishes, Fresh
  <1>10. FileInv'
    BY <1>1, <1>2, <1>3 DEF FileInv, InPlace
  <1>11. HostAnswers'
    BY <1>1, <1>3 DEF HostAnswers, InPlace
  <1>12. AnswersFit'
    BY <1>1, <1>2, <1>3, <1>5 DEF AnswersFit
  <1> QED
    BY <1>3, <1>4, <1>6, <1>7, <1>8, <1>9, <1>10, <1>11, <1>12
       DEF StorageInv, OwnerInv, TruthInv

(* What is known of an owner and of the answer it was given.               *)
LEMMA OwnerFacts ==
  ASSUME StorageInv, NEW o \in Owners
  PROVE  /\ op \in [Owners -> Record] /\ op[o] \in Record /\ epoch \in Nat
         /\ op[o].epoch <= epoch /\ op[o].epoch \in Nat
         /\ Holds(o) => busy /\ op[o].epoch = epoch
         /\ op[o].sent <=> op[o].step \in {"publish", "back", "backcheck"}
         /\ op[o].pc \in {"idle", "waiting"} => op[o].step \in {"page", "stage"}
         /\ op[o].told = "unchanged" => op[o].pc = "done"
         /\ ~op[o].sent => NotPublishing(o)
         /\ InPlace(op[o].got) /\ op[o].got \in Versions
         /\ op[o].told = "published" => o \in applied
         /\ op[o].pc = "asked" /\ live /\ reply # NoReply => FitsFor(o, reply)
  <1>1. BridgeInv /\ ProgressInv /\ PublishInv /\ FileInv /\ AnswersFit
    BY DEF StorageInv, OwnerInv, TruthInv
  <1>2. op \in [Owners -> Record] /\ op[o] \in Record /\ epoch \in Nat
    BY <1>1 DEF BridgeInv
  <1>3. op[o].epoch <= epoch /\ op[o].epoch \in Nat /\ op[o].got \in Versions
    BY <1>1, <1>2 DEF BridgeInv, Record
  <1>4. Holds(o) => busy /\ op[o].epoch = epoch
    BY <1>1 DEF BridgeInv
  <1>5. /\ op[o].sent <=> op[o].step \in {"publish", "back", "backcheck"}
        /\ op[o].pc \in {"idle", "waiting"} => op[o].step \in {"page", "stage"}
        /\ op[o].told = "unchanged" => op[o].pc = "done"
    BY <1>1 DEF ProgressInv
  <1>6. ~op[o].sent => NotPublishing(o)
    BY <1>1 DEF PublishInv, Fresh
  <1>7. InPlace(op[o].got) /\ (op[o].told = "published" => o \in applied)
    BY <1>1 DEF FileInv
  <1>8. op[o].pc = "asked" /\ live /\ reply # NoReply => FitsFor(o, reply)
    BY <1>1 DEF AnswersFit
  <1> QED
    BY <1>2, <1>3, <1>4, <1>5, <1>6, <1>7, <1>8

LEMMA WaitKeeps ==
  ASSUME StorageInv, NEW o \in Owners, Wait(o), UNCHANGED <<carrierVars, host>>
  PROVE  StorageInv'
  <1> DEFINE w == [op[o] EXCEPT !.pc = "waiting", !.epoch = epoch]
  <1>1. /\ op[o].pc = "idle" /\ op' = [op EXCEPT ![o] = w]
        /\ UNCHANGED <<live, busy, epoch, next, asked, reply>>
    BY DEF Wait
  <1>2. /\ w.pc = "waiting" /\ w.epoch = epoch /\ w.step = op[o].step /\ w.sent = op[o].sent
        /\ w.told = op[o].told /\ w.got = op[o].got /\ w \in Record
    BY OwnerFacts DEF Record
  <1> HIDE DEF w
  <1>3. Sound(o, w)
    BY <1>1, <1>2, OwnerFacts DEF Sound
  <1>4. Queues(o, w)
    BY <1>1, <1>2 DEF Queues, Holds
  <1> QED
    BY <1>1, <1>3, <1>4, OwnerFrame

LEMMA AcquireKeeps ==
  ASSUME StorageInv, NEW o \in Owners, Acquire(o), UNCHANGED <<carrierVars, host>>
  PROVE  StorageInv'
  <1> DEFINE w == [op[o] EXCEPT !.pc = "asking"]
  <1>1. /\ op[o].pc = "waiting" /\ op' = [op EXCEPT ![o] = w]
        /\ op[o].epoch = epoch /\ ~busy /\ busy' = TRUE
        /\ UNCHANGED <<live, epoch, next, asked, reply>>
    BY DEF Acquire, MayHold, SameSession
  <1>2. /\ w.pc = "asking" /\ w.epoch = op[o].epoch /\ w.step = op[o].step /\ w.sent = op[o].sent
        /\ w.told = op[o].told /\ w.got = op[o].got /\ w \in Record
    BY OwnerFacts DEF Record
  <1> HIDE DEF w
  <1>3. Sound(o, w)
    BY <1>1, <1>2, OwnerFacts DEF Sound
  <1>4. Enters(o, w)
    BY <1>1, <1>2 DEF Enters
  <1> QED
    BY <1>1, <1>3, <1>4, OwnerFrame

LEMMA LeaveKeeps ==
  ASSUME StorageInv, NEW o \in Owners, Leave(o), UNCHANGED <<carrierVars, host>>
  PROVE  StorageInv'
  <1> DEFINE said == IF op[o].step = "page" THEN "failed" ELSE "unchanged"
             w == [op[o] EXCEPT !.pc = "done", !.told = said]
  <1>1. /\ op[o].pc = "waiting" /\ op' = [op EXCEPT ![o] = w]
        /\ UNCHANGED <<live, busy, epoch, next, asked, reply>>
    BY DEF Leave
  <1>2. said \in {"failed", "unchanged"}
    OBVIOUS
  <1> HIDE DEF said
  <1>3. /\ w.pc = "done" /\ w.epoch = op[o].epoch /\ w.step = op[o].step /\ w.sent = op[o].sent
        /\ w.told = said /\ w.got = op[o].got /\ w \in Record
    BY <1>2, OwnerFacts DEF Record
  <1> HIDE DEF w
  <1>4. ~w.sent
    BY <1>1, <1>3, OwnerFacts
  <1>5. NotPublishing(o)
    BY <1>3, <1>4, OwnerFacts
  <1>6. Sound(o, w)
    BY <1>2, <1>3, <1>5, OwnerFacts DEF Sound
  <1>7. Queues(o, w)
    BY <1>1, <1>3 DEF Queues, Holds
  <1> QED
    BY <1>1, <1>6, <1>7, OwnerFrame

(* An owner is done with the bridge: it is not told that its candidate is  *)
(* unchanged once a query to publish it was sent, but for a mismatch.      *)
LEMMA DoneKeeps ==
  ASSUME StorageInv, NEW o \in Owners, NEW said, UNCHANGED <<carrierVars, host, live, epoch, next>>,
         Holds(o), busy' = FALSE, asked' = 0, reply' \in {reply, NoReply},
         op' = [op EXCEPT ![o] = [op[o] EXCEPT !.pc = "done", !.told = said]],
         said \in {"failed", "unchanged", "unresolved", "published"},
         said = "unchanged" => NotPublishing(o),
         said = "published" => o \in applied
  PROVE  StorageInv'
  <1> DEFINE w == [op[o] EXCEPT !.pc = "done", !.told = said]
  <1>1. op' = [op EXCEPT ![o] = w]
    OBVIOUS
  <1>2. /\ w.pc = "done" /\ w.epoch = op[o].epoch /\ w.step = op[o].step /\ w.sent = op[o].sent
        /\ w.told = said /\ w.got = op[o].got /\ w \in Record
    BY OwnerFacts DEF Record
  <1> HIDE DEF w
  <1>3. Sound(o, w)
    BY <1>2, OwnerFacts DEF Sound
  <1>4. Works(o, w)
    BY <1>2 DEF Works
  <1> QED
    BY <1>1, <1>3, <1>4, OwnerFrame

LEMMA ThrowsKeeps ==
  ASSUME StorageInv, NEW o \in Owners, Throws(o), Holds(o), reply' \in {reply, NoReply},
         UNCHANGED <<carrierVars, host>>
  PROVE  StorageInv'
  <1> DEFINE said == Failure(op[o])
  <1>1. /\ busy' = FALSE /\ asked' = 0 /\ UNCHANGED <<live, epoch, next>>
        /\ op' = [op EXCEPT ![o] = [op[o] EXCEPT !.pc = "done", !.told = said]]
    BY DEF Throws, Release
  <1>2. said \in {"failed", "unchanged", "unresolved"} /\ (said = "unchanged" => ~op[o].sent)
    BY DEF Failure
  <1> HIDE DEF said
  <1>3. said = "unchanged" => NotPublishing(o)
    BY <1>2, OwnerFacts
  <1> QED
    BY <1>1, <1>2, <1>3, DoneKeeps

LEMMA GoOnKeeps ==
  ASSUME StorageInv, NEW o \in Owners, GoOn(o), UNCHANGED <<carrierVars, host>>
  PROVE  StorageInv'
  <1> DEFINE v == op[o]
             w == [v EXCEPT !.pc = "asking", !.step = Then(v.step), !.got = Noted(v),
                            !.sent = Requested(v)]
  <1>1. /\ Answered(o) /\ Fits(v) /\ ~HasRead(v) /\ v.step # "backcheck"
        /\ op' = [op EXCEPT ![o] = w]
        /\ asked' = 0 /\ reply' = NoReply /\ UNCHANGED <<live, busy, epoch, next>>
    BY DEF GoOn
  <1>2. op[o].pc = "asked" /\ live /\ reply # NoReply /\ reply.kind = "value" /\ FitsFor(o, reply)
    BY <1>1, OwnerFacts DEF Answered, Fits
  <1>3. Noted(v) \in Versions /\ InPlace(Noted(v))
    <2>1. CASE v.step \in {"page", "back"}
      <3>1. InPlace(reply.version)
        BY <1>2, <2>1 DEF FitsFor, Writes
      <3> QED
        BY <2>1, <3>1 DEF Noted, InPlace
    <2>2. CASE v.step \notin {"page", "back"}
      BY <2>2, OwnerFacts DEF Noted
    <2> QED
      BY <2>1, <2>2
  <1>4. /\ v.step \in {"page", "stage", "publish", "back"}
        /\ Then(v.step) \in Steps
        /\ Then(v.step) \in {"publish", "back", "backcheck"} <=> v.sent \/ v.step = "stage"
        /\ Then(v.step) = "publish" => v.step = "stage"
    <2>1. v.step \in Steps /\ v.step \notin {"check", "backcheck"}
      BY <1>1, OwnerFacts DEF Record, HasRead
    <2> QED
      BY <2>1, OwnerFacts DEF Then, Steps
  <1>5. Requested(v) \in BOOLEAN
    BY OwnerFacts DEF Requested, Record
  <1>6. /\ w.pc = "asking" /\ w.step = Then(v.step) /\ w.got = Noted(v)
        /\ w.sent = Requested(v) /\ w.told = v.told /\ w.epoch = v.epoch /\ w \in Record
    BY <1>3, <1>4, <1>5, OwnerFacts DEF Record
  <1>7. w.sent <=> v.sent \/ v.step = "stage"
    BY <1>6 DEF Requested
  <1> HIDE DEF w
  <1>8. w.told # "unchanged"
    BY <1>2, <1>6, OwnerFacts
  <1>9. ~w.sent \/ w.step = "publish" => NotPublishing(o)
    BY <1>4, <1>6, <1>7, OwnerFacts
  <1>10. Sound(o, w)
    <2>1. w.sent <=> w.step \in {"publish", "back", "backcheck"}
      BY <1>4, <1>6, <1>7
    <2>2. InPlace(w.got) /\ w.epoch <= epoch /\ (w.told = "published" => o \in applied)
      BY <1>3, <1>6, OwnerFacts
    <2> QED
      BY <1>6, <1>8, <1>9, <2>1, <2>2 DEF Sound
  <1>11. Works(o, w)
    BY <1>1, <1>2, <1>6, OwnerFacts DEF Works, Holds
  <1> QED
    BY <1>1, <1>10, <1>11, OwnerFrame

LEMMA ReadKeeps ==
  ASSUME StorageInv, NEW o \in Owners, Read(o), UNCHANGED <<carrierVars, host>>
  PROVE  StorageInv'
  <1> DEFINE v == op[o]
             at == IF o \in Readers THEN "done" ELSE "idle"
             w == [v EXCEPT !.pc = at, !.step = "stage", !.base = Noted(v), !.told = "read"]
  <1>1. /\ Answered(o) /\ Fits(v) /\ HasRead(v) /\ busy' = FALSE /\ asked' = 0
        /\ op' = [op EXCEPT ![o] = w] /\ reply' = NoReply /\ UNCHANGED <<live, epoch, next>>
    BY DEF Read, Release
  <1>2. op[o].pc = "asked" /\ live /\ reply # NoReply /\ reply.kind = "value" /\ FitsFor(o, reply)
    BY <1>1, OwnerFacts DEF Answered, Fits
  <1>3. v.step \in {"page", "check"}
    BY <1>1 DEF HasRead
  <1>4. Noted(v) \in Versions
    <2>1. CASE v.step = "page"
      <3>1. InPlace(reply.version)
        BY <1>2, <2>1 DEF FitsFor, Writes
      <3> QED
        BY <2>1, <3>1 DEF Noted, InPlace
    <2>2. CASE v.step = "check"
      BY <2>2, OwnerFacts DEF Noted
    <2> QED
      BY <1>3, <2>1, <2>2
  <1>5. at \in {"done", "idle"}
    OBVIOUS
  <1> HIDE DEF at
  <1>6. "stage" \in Steps
    BY DEF Steps
  <1>7. /\ w.pc = at /\ w.step = "stage" /\ w.got = v.got
        /\ w.sent = v.sent /\ w.told = "read" /\ w.epoch = v.epoch /\ w \in Record
    BY <1>4, <1>5, <1>6, OwnerFacts DEF Record
  <1> HIDE DEF w
  <1>8. ~v.sent
    BY <1>3, OwnerFacts
  <1>9. Sound(o, w)
    BY <1>5, <1>7, <1>8, OwnerFacts DEF Sound
  <1>10. Works(o, w)
    BY <1>1, <1>2, <1>5, <1>7 DEF Works, Holds
  <1> QED
    BY <1>1, <1>9, <1>10, OwnerFrame

LEMMA ReadBackKeeps ==
  ASSUME StorageInv, NEW o \in Owners, ReadBack(o), UNCHANGED <<carrierVars, host>>
  PROVE  StorageInv'
  <1> DEFINE said == IF op[o].got = o THEN "published" ELSE "unresolved"
  <1>1. /\ op[o].pc = "asked" /\ busy' = FALSE /\ asked' = 0 /\ reply' = NoReply
        /\ UNCHANGED <<live, epoch, next>>
        /\ op' = [op EXCEPT ![o] = [op[o] EXCEPT !.pc = "done", !.told = said]]
    BY DEF ReadBack, Release, Answered
  <1>2. said \in {"published", "unresolved"} /\ (said = "published" => op[o].got = o)
    OBVIOUS
  <1> HIDE DEF said
  <1>3. said = "published" => o \in applied
    BY <1>2, OwnerFacts DEF InPlace
  <1>4. Holds(o)
    BY <1>1 DEF Holds
  <1> QED
    BY <1>1, <1>2, <1>3, <1>4, DoneKeeps

LEMMA ConflictKeeps ==
  ASSUME StorageInv, NEW o \in Owners, Conflict(o), UNCHANGED <<carrierVars, host>>
  PROVE  StorageInv'
  <1> DEFINE said == "unchanged"
  <1>1. /\ op[o].pc = "asked" /\ live /\ reply # NoReply /\ reply.kind = "mismatch"
        /\ busy' = FALSE /\ asked' = 0 /\ reply' = NoReply
        /\ UNCHANGED <<live, epoch, next>>
        /\ op' = [op EXCEPT ![o] = [op[o] EXCEPT !.pc = "done", !.told = said]]
    BY DEF Conflict, Release, Answered
  <1>2. NotPublishing(o)
    BY <1>1, OwnerFacts DEF FitsFor
  <1>3. Holds(o)
    BY <1>1 DEF Holds
  <1>4. said \in {"failed", "unchanged", "unresolved", "published"} /\ said # "published"
    OBVIOUS
  <1> HIDE DEF said
  <1> QED
    BY <1>1, <1>2, <1>3, <1>4, DoneKeeps

LEMMA OwnerKeepsStorage ==
  ASSUME StorageInv, NEW o \in Owners, StartOwner(o) \/ OwnerStep(o)
  PROVE  StorageInv'
  <1>1. /\ UNCHANGED <<carrierVars, host>>
        /\ \/ Wait(o) \/ Acquire(o) \/ Leave(o) \/ GiveUp(o) \/ GoOn(o) \/ Read(o)
           \/ ReadBack(o) \/ Conflict(o) \/ Unfit(o)
    BY DEF StartOwner, OwnerStep, Bridge, InWorker, Start, OwnerSteps, Return
  <1>2. CASE GiveUp(o)
    <2>1. Throws(o) /\ reply' = reply /\ Holds(o)
      BY <1>2 DEF GiveUp, Holds
    <2> QED
      BY <1>1, <2>1, ThrowsKeeps
  <1>3. CASE Unfit(o)
    <2>1. Throws(o) /\ reply' = NoReply /\ Holds(o)
      BY <1>3 DEF Unfit, Answered, Holds
    <2> QED
      BY <1>1, <2>1, ThrowsKeeps
  <1>4. CASE Wait(o)
    BY <1>1, <1>4, WaitKeeps
  <1>5. CASE Acquire(o)
    BY <1>1, <1>5, AcquireKeeps
  <1>6. CASE Leave(o)
    BY <1>1, <1>6, LeaveKeeps
  <1>7. CASE GoOn(o)
    BY <1>1, <1>7, GoOnKeeps
  <1>8. CASE Read(o)
    BY <1>1, <1>8, ReadKeeps
  <1>9. CASE ReadBack(o)
    BY <1>1, <1>9, ReadBackKeeps
  <1>10. CASE Conflict(o)
    BY <1>1, <1>10, ConflictKeeps
  <1> QED
    BY <1>1, <1>2, <1>3, <1>4, <1>5, <1>6, <1>7, <1>8, <1>9, <1>10

-----------------------------------------------------------------------------
LEMMA InitStorageInv == Init => StorageInv
  <1> SUFFICES ASSUME Init PROVE StorageInv
    OBVIOUS
  <1>1. /\ toWorker = <<>> /\ writer = <<>> /\ writes = <<>> /\ fromWorker = <<>>
        /\ snapshots = <<>> /\ server = Free
        /\ live = FALSE /\ busy = FALSE /\ epoch = 0 /\ next = 0 /\ asked = 0 /\ reply = NoReply
        /\ op = [o \in Owners |-> Unstarted]
        /\ file \in {Absent, Other} /\ applied = {} /\ calls = {}
    BY DEF Init, CarrierInit, BridgeInit
  <1>2. /\ Back = {} /\ Queries(fromWorker) = {} /\ Queued = {} /\ Waiting = {}
        /\ server.query = {} /\ server.answer = {}
    BY <1>1, NoLetter DEF Back, Waiting, Queued, Free
  <1>3. ServerInv
    BY <1>1, <1>2, NoLetter DEF ServerInv, Free
  <1>4. \A k \in 1..6 : Way[k] = {}
    BY <1>1, <1>2, NoLetter, Places DEF Ids
  <1>5. WayInv
    BY <1>1, <1>4, NoLetter DEF WayInv, Apart, Within
  <1>6. AnswerTaken
    BY <1>1 DEF AnswerTaken
  <1>7. /\ Unstarted \in Record /\ Unstarted.pc = "idle" /\ Unstarted.step = "page"
        /\ Unstarted.epoch = 0 /\ Unstarted.sent = FALSE /\ Unstarted.told = "nothing"
        /\ Unstarted.got = Absent
    BY DEF Unstarted, Record, Steps, Versions
  <1>8. op \in [Owners -> Record] /\ \A o \in Owners : op[o] = Unstarted
    BY <1>1, <1>7
  <1>9. BridgeInv
    BY <1>1, <1>7, <1>8 DEF BridgeInv, Holds
  <1>10. ProgressInv
    BY <1>7, <1>8 DEF ProgressInv
  <1>11. QueryInv
    BY <1>1, <1>2, <1>7, <1>8 DEF QueryInv
  <1>12. PublishInv
    BY <1>1, <1>2 DEF PublishInv, NotPublishing, NoneLeft
  <1>13. FileInv
    <2>1. \A v \in {Absent, Other} : InPlace(v)
      BY BridgeAssumption DEF InPlace, Versions
    <2> QED
      BY <1>1, <1>7, <1>8, <2>1 DEF FileInv
  <1>14. HostAnswers
    BY <1>2 DEF HostAnswers
  <1>15. AnswersFit
    BY <1>2, <1>7, <1>8 DEF AnswersFit
  <1> QED
    BY <1>3, <1>5, <1>6, <1>9, <1>10, <1>11, <1>12, <1>13, <1>14, <1>15
       DEF StorageInv, OwnerInv, TruthInv

LEMMA StillKeeps ==
  ASSUME StorageInv, UNCHANGED <<pipes, storage, bridgeVars, host>>
  PROVE  StorageInv'
  BY Still, GoesOnKeeps DEF StorageInv

LEMMA NextKeepsStorage ==
  ASSUME StorageInv, RequestInv, [Next]_vars
  PROVE  StorageInv'
  <1>1. CASE TakeRequest
    BY <1>1, TakeRequestMail, GoesOnKeeps
  <1>2. CASE TakeAnswer
    BY <1>2, AnswerKeepsStorage
  <1>3. CASE (\E r \in taken : ReplyTo(r)) \/ SendEvent
    BY <1>3, SaysMail, GoesOnKeeps
  <1>4. CASE BeginSession \/ CancelSession
    BY <1>4, SessionKeepsStorage
  <1>5. CASE WorkerEnds
    <2>1. UNCHANGED <<pipes, storage, bridgeVars, host>>
      BY <1>5 DEF WorkerEnds, carrierVars
    <2> QED
      BY <2>1, StillKeeps
  <1>6. CASE \E o \in Owners : StartOwner(o) \/ SendQuery(o) \/ OwnerStep(o)
    BY <1>6, AskKeepsStorage, OwnerKeepsStorage
  <1>7. CASE HostAsks
    BY <1>7, EnqueueMail, GoesOnKeeps DEF HostAsks
  <1>8. CASE Deadline
    <2>1. UNCHANGED <<pipes, storage, bridgeVars, host>>
      BY <1>8 DEF Deadline, Expire, InCarrier
    <2> QED
      BY <2>1, StillKeeps
  <1>9. CASE Writer
    BY <1>9, DequeueMail, EncodeMail, GoesOnKeeps DEF Writer
  <1>10. CASE PipeBreaks
    BY <1>10, EncodeFailsMail, GoesOnKeeps DEF PipeBreaks
  <1>11. CASE Reader
    BY <1>11, ReadQueryMail, ReadOtherMail, GoesOnKeeps DEF Reader
  <1>12. CASE OutputEnds \/ OutputBreaks
    <2>1. UNCHANGED <<pipes, storage, bridgeVars, host>>
      BY <1>12 DEF OutputEnds, OutputBreaks, ReadEnds, InCarrier
    <2> QED
      BY <2>1, StillKeeps
  <1>13. CASE CallHost
    BY <1>13, CallHostKeepsStorage
  <1>14. CASE Server
    <2>1. PICK q \in server.query : \E a \in server.answer \cup {[kind |-> "error"]} :
            SendAnswer(q, a)
      BY <1>14 DEF Server, ServeAnswer, ServeNoAnswer
    <2>2. PICK a \in server.answer \cup {[kind |-> "error"]} : SendAnswer(q, a)
      BY <2>1
    <2>3. InCarrier
      BY <1>14 DEF Server
    <2> QED
      BY <2>2, <2>3, SendAnswerStorage
  <1>15. CASE Forwarder \/ HostLaneRefuses \/ Ending \/ EndingLate
    <2>1. UNCHANGED <<pipes, storage, bridgeVars, host>>
      BY <1>15 DEF Forwarder, Forward, ForwardEnds, HostLaneRefuses, ForwardFails, Ending,
         Announce, Vouch, EndingLate, Unproven, Say, InCarrier
    <2> QED
      BY <2>1, StillKeeps
  <1>16. CASE \E q \in server.query : ReadFile(q)
    BY <1>16, ReadFileKeepsStorage
  <1>17. CASE \E q \in calls : Stage(q) \/ Publish(q) \/ Mismatch(q)
    BY <1>17, StageKeepsStorage, PublishKeepsStorage, MismatchKeepsStorage
  <1>18. CASE UNCHANGED vars
    <2>1. UNCHANGED <<pipes, storage, bridgeVars, host>>
      BY <1>18 DEF vars, carrierVars
    <2> QED
      BY <2>1, StillKeeps
  <1> QED
    BY <1>1, <1>2, <1>3, <1>4, <1>5, <1>6, <1>7, <1>8, <1>9, <1>10, <1>11, <1>12, <1>13,
       <1>14, <1>15, <1>16, <1>17, <1>18 DEF Next

(* Of every query and its answer: the whole of what storage tells the      *)
(* truth by, for all owners, sessions and bounds.  (snapshot_bridge.cpp;   *)
(* main.go; snapshot.go)                                                   *)
THEOREM StorageInvariance == Spec => []StorageInv
  <1>1. RequestInv /\ StorageInv /\ [Next]_vars => StorageInv'
    BY NextKeepsStorage
  <1> QED
    BY <1>1, InitStorageInv, RequestInvariance, PTL DEF Spec

LEMMA StorageInvTells == StorageInv => StorageToldTruth
  <1> SUFFICES ASSUME StorageInv PROVE StorageToldTruth
    OBVIOUS
  <1>1. AnswerTaken /\ BridgeInv /\ PublishInv /\ FileInv
    BY DEF StorageInv, OwnerInv, TruthInv
  <1>2. \A i \in DOMAIN toWorker : toWorker[i].type = "answer" => ~Repeated(toWorker[i].id)
    <2> SUFFICES ASSUME NEW i \in DOMAIN toWorker, toWorker[i].type = "answer",
                        Repeated(toWorker[i].id)
                 PROVE  FALSE
      OBVIOUS
    <2>1. toWorker[i] \in Back
      BY DEF Back, Answers
    <2>2. asked \in Ids(Back \cup server.query \cup Waiting)
      BY <2>1 DEF Ids, Repeated, Awaited
    <2>3. asked = 0
      BY <1>1, <2>2 DEF AnswerTaken, Repeated
    <2>4. toWorker[i].id \in 1..next /\ next \in Nat
      <3>1. toWorker[i].id \in Way[1]
        BY Places DEF Ids, Answers
      <3> QED
        BY <3>1 DEF StorageInv, WayInv, Within
    <2> QED
      BY <2>3, <2>4 DEF Repeated, Awaited
  <1>3. ASSUME NEW o \in Owners
        PROVE  /\ op[o].told = "published" => o \in applied
               /\ op[o].told = "unchanged" =>
                    /\ o \notin applied
                    /\ \A q \in OnTheirWay : ~(q.owner = o /\ q.step = "publish")
               /\ op[o].pc \in {"asking", "asked"} =>
                    /\ busy /\ op[o].epoch = epoch
                    /\ \A p \in Owners \ {o} : op[p].pc \notin {"asking", "asked"}
    <2>1. op[o].told = "published" => o \in applied
      BY <1>1 DEF FileInv
    <2>2. op[o].told = "unchanged" => NotPublishing(o)
      BY <1>1 DEF PublishInv, Fresh
    <2>3. OnTheirWay = calls \cup server.query \cup Waiting
      BY DEF OnTheirWay, Waiting, Queued, Queries
    <2>4. op[o].told = "unchanged" =>
            o \notin applied /\ \A q \in OnTheirWay : ~(q.owner = o /\ q.step = "publish")
      BY <2>2, <2>3 DEF NotPublishing, NoneLeft, Publishes
    <2>5. op[o].pc \in {"asking", "asked"} =>
            /\ busy /\ op[o].epoch = epoch
            /\ \A p \in Owners \ {o} : op[p].pc \notin {"asking", "asked"}
      BY <1>1 DEF BridgeInv, Holds
    <2> QED
      BY <2>1, <2>4, <2>5
  <1> QED
    BY <1>2, <1>3 DEF StorageToldTruth

(* Storage tells the truth: what an owner was told to be published was put *)
(* in place, what it was told to be unchanged was not and will not be, and *)
(* no answer reaches the bridge twice.  (snapshot_bridge.cpp, exchange,    *)
(* accept, acquire, publish)                                               *)
THEOREM StorageToldTruthHolds == Spec => []StorageToldTruth
  BY StorageInvariance, StorageInvTells, PTL

-----------------------------------------------------------------------------
(* The channels hold what they have room for.                              *)
RoomInv ==
    /\ IsFiniteSet(pending) /\ Cardinality(pending) <= PendingCapacity
    /\ Len(writes) <= WriteCapacity /\ Len(events) <= EventCapacity
    /\ verdict \in {"none", "delivered", "unproven"}
    /\ forwarder \in {"on", "ended", "failed"}

Bounded(s, t, n) ==
    \/ t = s
    \/ s # <<>> /\ t = Tail(s)
    \/ Len(s) < n /\ \E e : t = Append(s, e)
Room ==
    /\ \/ pending' \subseteq pending
       \/ Cardinality(pending) < PendingCapacity /\ \E r : pending' = pending \cup {r}
    /\ Bounded(writes, writes', WriteCapacity)
    /\ Bounded(events, events', EventCapacity)
    /\ verdict' \in {verdict, "delivered", "unproven"}
    /\ forwarder' \in {forwarder, "ended", "failed"}

LEMMA BoundedFacts ==
  ASSUME NEW s, ProperSeq(s), NEW t, NEW n \in Nat, Len(s) <= n, Bounded(s, t, n)
  PROVE  Len(t) <= n
  <1>1. CASE t = s
    BY <1>1
  <1>2. CASE s # <<>> /\ t = Tail(s)
    BY <1>2, TailFacts
  <1>3. CASE Len(s) < n /\ \E e : t = Append(s, e)
    BY <1>3, AppendFacts
  <1> QED
    BY <1>1, <1>2, <1>3 DEF Bounded

LEMMA Capacities ==
  PendingCapacity \in Nat \ {0} /\ WriteCapacity \in Nat \ {0} /\ EventCapacity \in Nat \ {0}
  BY CarrierAssumption

LEMMA RoomKeeps ==
  ASSUME RequestInv, EventInv, RoomInv, Room
  PROVE  RoomInv'
  <1>1. IsFiniteSet(pending') /\ Cardinality(pending') <= PendingCapacity
    <2>1. IsFiniteSet(pending) /\ Cardinality(pending) \in Nat /\ Cardinality(pending) <= PendingCapacity
      BY FS_CardinalityType DEF RoomInv
    <2>2. CASE pending' \subseteq pending
      <3>1. IsFiniteSet(pending') /\ Cardinality(pending') <= Cardinality(pending)
        BY <2>1, <2>2, FS_Subset
      <3>2. Cardinality(pending') \in Nat
        BY <3>1, FS_CardinalityType
      <3> QED
        BY <2>1, <3>1, <3>2, Capacities
    <2>3. CASE Cardinality(pending) < PendingCapacity /\ \E r : pending' = pending \cup {r}
      <3>1. PICK r : pending' = pending \cup {r}
        BY <2>3
      <3>2. /\ IsFiniteSet(pending \cup {r})
            /\ Cardinality(pending \cup {r}) =
                 IF r \in pending THEN Cardinality(pending) ELSE Cardinality(pending) + 1
        BY <2>1, FS_AddElement
      <3> QED
        BY <2>1, <2>3, <3>1, <3>2, Capacities
    <2> QED
      BY <2>2, <2>3 DEF Room
  <1>2. Len(writes') <= WriteCapacity
    BY Channels, Capacities, BoundedFacts DEF Room, RoomInv
  <1>3. Len(events') <= EventCapacity
    <2>1. ProperSeq(events)
      BY DEF EventInv
    <2> QED
      BY <2>1, Capacities, BoundedFacts DEF Room, RoomInv
  <1>4. verdict' \in {"none", "delivered", "unproven"} /\ forwarder' \in {"on", "ended", "failed"}
    BY DEF Room, RoomInv
  <1> QED
    BY <1>1, <1>2, <1>3, <1>4 DEF RoomInv

LEMMA FailRoom ==
  ASSUME Fail
  PROVE  pending' \subseteq pending
  BY DEF Fail, lane

LEMMA SameRoom ==
  ASSUME pending' \subseteq pending, UNCHANGED <<writes, events, verdict, forwarder>>
  PROVE  Room
  BY DEF Room, Bounded

LEMMA EnqueueRoom ==
  ASSUME RequestInv, RoomInv, Enqueue
  PROVE  Room
  <1> DEFINE r == Len(told) + 1
             e == [type |-> "request", id |-> r]
  <1>1. /\ \/ UNCHANGED <<pending, writes>>
           \/ ~Full /\ pending' = pending \cup {r} /\ writes' = Append(writes, e)
        /\ UNCHANGED <<events, verdict, forwarder>>
    BY DEF Enqueue, delivery
  <1> HIDE DEF r, e
  <1>2. ~Full => Cardinality(pending) < PendingCapacity /\ Len(writes) < WriteCapacity
    <2>1. Cardinality(pending) \in Nat
      BY FS_CardinalityType DEF RoomInv
    <2>2. Len(writes) \in Nat
      BY Channels, AppendFacts
    <2> QED
      BY <2>1, <2>2, Capacities DEF Full
  <1>3. pending' \subseteq pending
          \/ (Cardinality(pending) < PendingCapacity /\ \E x : pending' = pending \cup {x})
    BY <1>1, <1>2
  <1>4. Bounded(writes, writes', WriteCapacity)
    BY <1>1, <1>2 DEF Bounded
  <1> QED
    BY <1>1, <1>3, <1>4 DEF Room, Bounded

LEMMA NextRoom ==
  ASSUME RequestInv, EventInv, RoomInv, [Next]_vars
  PROVE  Room
  <1>1. CASE \/ TakeRequest \/ TakeAnswer \/ SendEvent
             \/ \E r \in taken : ReplyTo(r)
             \/ BeginSession \/ CancelSession \/ WorkerEnds
             \/ \E o \in Owners : StartOwner(o) \/ SendQuery(o) \/ OwnerStep(o)
    <2>1. UNCHANGED <<pending, writes, events, verdict, forwarder>>
      <3>1. CASE TakeRequest \/ TakeAnswer
        BY <3>1 DEF TakeRequest, TakeAnswer, Taken, lane, delivery
      <3>2. CASE SendEvent \/ \E r \in taken : ReplyTo(r)
        BY <3>2 DEF SendEvent, ReplyTo, Send, lane, delivery
      <3>3. CASE BeginSession \/ CancelSession
        BY <3>3 DEF BeginSession, CancelSession, Bridge, carrierVars, lane, pipes, delivery
      <3>4. CASE WorkerEnds
        BY <3>4 DEF WorkerEnds, carrierVars, lane, pipes, delivery
      <3>5. CASE \E o \in Owners : StartOwner(o) \/ SendQuery(o) \/ OwnerStep(o)
        <4>1. PICK o \in Owners : StartOwner(o) \/ SendQuery(o) \/ OwnerStep(o)
          BY <3>5
        <4>2. CASE SendQuery(o)
          BY <4>2 DEF SendQuery, Send, lane, delivery
        <4>3. CASE StartOwner(o) \/ OwnerStep(o)
          BY <4>3 DEF StartOwner, OwnerStep, Bridge, carrierVars, lane, pipes, delivery
        <4> QED
          BY <4>1, <4>2, <4>3
      <3> QED
        BY <1>1, <3>1, <3>2, <3>3, <3>4, <3>5
    <2> QED
      BY <2>1, SameRoom
  <1>2. CASE HostAsks
    BY <1>2, EnqueueRoom DEF HostAsks
  <1>3. CASE Deadline \/ PipeBreaks \/ OutputEnds \/ OutputBreaks
    <2>1. Fail /\ UNCHANGED <<writes, events, verdict, forwarder>>
      <3>1. CASE Deadline
        BY <3>1 DEF Deadline, Expire, pipes, delivery
      <3>2. CASE PipeBreaks
        BY <3>2 DEF PipeBreaks, EncodeFails, delivery
      <3>3. CASE OutputEnds \/ OutputBreaks
        BY <3>3 DEF OutputEnds, OutputBreaks, ReadEnds, pipes
      <3> QED
        BY <1>3, <3>1, <3>2, <3>3
    <2> QED
      BY <2>1, FailRoom, SameRoom
  <1>4. CASE Writer
    <2>1. /\ UNCHANGED <<pending, events, verdict, forwarder>>
          /\ writes' = writes \/ (writes # <<>> /\ writes' = Tail(writes))
      BY <1>4 DEF Writer, Dequeue, Encode, lane, delivery
    <2> QED
      BY <2>1 DEF Room, Bounded
  <1>5. CASE Reader
    <2>1. CASE ReadQuery
      <3>1. UNCHANGED <<writes, events, verdict, forwarder>> /\ (Fail \/ pending' = pending)
        BY <2>1 DEF ReadQuery, Received, delivery, lane
      <3> QED
        BY <3>1, FailRoom, SameRoom
    <2>2. CASE ReadReply
      <3>1. /\ UNCHANGED <<writes, events, verdict, forwarder>>
            /\ Fail \/ pending' \subseteq pending
        BY <2>2 DEF ReadReply, Received, delivery
      <3> QED
        BY <3>1, FailRoom, SameRoom
    <2>3. CASE ReadEvent
      <3>1. /\ UNCHANGED <<writes, verdict, forwarder>>
            /\ \/ /\ Len(events) < EventCapacity /\ pending' = pending
                  /\ events' = Append(events, Line.id)
               \/ Fail /\ events' = events
        BY <2>3 DEF ReadEvent, Received, lane
      <3> QED
        BY <3>1, FailRoom DEF Room, Bounded
    <2> QED
      BY <1>5, <2>1, <2>2, <2>3 DEF Reader
  <1>6. CASE CallHost
    <2>1. UNCHANGED <<pending, writes, events, verdict, forwarder>>
      BY <1>6 DEF CallHost, Serve, lane, pipes, delivery
    <2> QED
      BY <2>1, SameRoom
  <1>7. CASE Server
    <2>1. PICK q, a : SendAnswer(q, a)
      BY <1>7 DEF Server, ServeAnswer, ServeNoAnswer
    <2> DEFINE e == [type |-> "answer", id |-> q.id, answer |-> a]
    <2>2. /\ UNCHANGED <<events, verdict, forwarder>>
          /\ \/ pending' = pending /\ writes' = writes
             \/ /\ Len(writes) < WriteCapacity /\ pending' = pending
                /\ writes' = Append(writes, e)
             \/ Fail /\ writes' = writes
      BY <2>1 DEF SendAnswer, lane, delivery
    <2> HIDE DEF e
    <2>3. pending' \subseteq pending
      BY <2>2, FailRoom
    <2> QED
      BY <2>2, <2>3 DEF Room, Bounded
  <1>8. CASE Forwarder \/ HostLaneRefuses
    <2>1. /\ UNCHANGED <<writes, verdict>> /\ (Fail \/ pending' = pending)
          /\ events' = events \/ (events # <<>> /\ events' = Tail(events))
          /\ forwarder' \in {forwarder, "ended", "failed"}
      BY <1>8 DEF Forwarder, Forward, ForwardEnds, HostLaneRefuses, ForwardFails, lane, pipes
    <2> QED
      BY <2>1, FailRoom DEF Room, Bounded
  <1>9. CASE Ending \/ EndingLate
    <2>1. /\ UNCHANGED <<pending, writes, events, forwarder>>
          /\ verdict' \in {verdict, "delivered", "unproven"}
      BY <1>9 DEF Ending, EndingLate, Announce, Vouch, Unproven, Say, lane, pipes
    <2> QED
      BY <2>1 DEF Room, Bounded
  <1>10. CASE \/ \E q \in server.query : ReadFile(q)
              \/ \E q \in calls : Stage(q) \/ Publish(q) \/ Mismatch(q)
    <2>1. PICK q, a : Answer(q, a)
      BY <1>10 DEF ReadFile, Stage, Publish, Mismatch
    <2>2. UNCHANGED <<pending, writes, events, verdict, forwarder>>
      BY <2>1 DEF Answer, lane, pipes, delivery
    <2> QED
      BY <2>2, SameRoom
  <1>11. CASE UNCHANGED vars
    <2>1. UNCHANGED <<pending, writes, events, verdict, forwarder>>
      BY <1>11 DEF vars, carrierVars, lane, pipes, delivery
    <2> QED
      BY <2>1, SameRoom
  <1> QED
    BY <1>1, <1>2, <1>3, <1>4, <1>5, <1>6, <1>7, <1>8, <1>9, <1>10, <1>11 DEF Next

LEMMA InitRoomInv == Init => RoomInv
  <1> SUFFICES ASSUME Init PROVE RoomInv
    OBVIOUS
  <1>1. /\ pending = {} /\ writes = <<>> /\ events = <<>> /\ verdict = "none" /\ forwarder = "on"
    BY DEF Init, CarrierInit
  <1>2. IsFiniteSet({}) /\ Cardinality({}) = 0
    BY FS_EmptySet
  <1> QED
    BY <1>1, <1>2, Capacities DEF RoomInv

LEMMA AllInvTypes == RequestInv /\ StorageInv /\ RoomInv => TypeOK
  <1> SUFFICES ASSUME RequestInv, StorageInv, RoomInv PROVE TypeOK
    OBVIOUS
  <1>1. BridgeInv /\ QueryInv /\ ServerInv
    BY DEF StorageInv, OwnerInv
  <1>2. pending \subseteq DOMAIN told /\ written \subseteq DOMAIN told /\ taken \subseteq seen
    BY DEF RequestInv, ToldAgrees
  <1>3. Len(snapshots) <= 1 /\ Len(writer) <= 1
    BY <1>1, Channels DEF ServerInv
  <1>4. server.query \subseteq QueryType /\ calls \subseteq QueryType
    BY <1>1 DEF QueryInv
  <1>5. \A o \in Owners : op[o].epoch <= epoch /\ op[o].step \in Steps
                            /\ {op[o].base, op[o].got} \subseteq Versions
    <2>1. \A o \in Owners : op[o] \in Record
      BY <1>1 DEF BridgeInv
    <2> QED
      BY <1>1, <2>1 DEF BridgeInv, Record
  <1>6. (asked # 0 => busy /\ live /\ asked = next) /\ ((\E o \in Owners : op[o].pc = "asked") => busy)
    BY <1>1 DEF BridgeInv, Holds
  <1> QED
    BY <1>2, <1>3, <1>4, <1>5, <1>6 DEF TypeOK, RoomInv

(* Types, and room: a request the worker owes was seen, the bridge waits   *)
(* only while an owner holds it, and no channel ever holds more than it    *)
(* has room for.  (main.go, enqueue, read, startLane)                      *)
THEOREM TypeCorrect == Spec => []TypeOK
  <1>1. RequestInv /\ EventInv /\ RoomInv /\ [Next]_vars => RoomInv'
    BY NextRoom, RoomKeeps
  <1>2. Spec => []RoomInv
    BY <1>1, InitRoomInv, RequestInvariance, EventInvariance, PTL DEF Spec
  <1> QED
    BY <1>2, RequestInvariance, StorageInvariance, AllInvTypes, PTL
=============================================================================
