------------------------- MODULE SessionInputProofs -------------------------
(***************************************************************************)
(* What the input direction of a session promises, for every block length, *)
(* every set of packet lengths and every bound: no accepted sample is lost *)
(* or heard out of order, a session that closes by itself has heard its    *)
(* input to the end, and the clock of the tail stands still while the      *)
(* session itself has no room.                                             *)
(***************************************************************************)
EXTENDS SessionInput, TLAPS

(* The spans of q cover the samples from a to b.  Reaches alone says that  *)
(* neighbours touch; that no span starts before a or ends after b would    *)
(* take an induction over q, so it is kept for every pair.                 *)
Linked(q, a, b) ==
    /\ Reaches(q, a, b) /\ a <= b
    /\ \A i \in 1..Len(q) : a <= q[i].start /\ q[i].start + q[i].n <= b
    /\ \A i, j \in 1..Len(q) : i < j => q[i].start + q[i].n <= q[j].start

(* Both queues are linked, from the sample heard to the sample accepted.   *)
QueuesLinked ==
    /\ control # "exited" => Linked(input, controlled + tail, received)
    /\ Linked(blocks, recognized + inHand.n, controlled)
(* The block the recognition thread has in hand.                           *)
InHand ==
    /\ recognition = "hearing" => inHand.start = recognized
    /\ recognition \in {"take", "ending"} => inHand = Nothing
(* What the control thread knows where it stands.                          *)
ControlKnows ==
    /\ control = "scoring" => tail >= Block
    /\ control = "rest" => finished /\ input = <<>>
    /\ control = "done" => controlDone /\ finished /\ tail = 0 /\ input = <<>>
    /\ control = "exited" => stopping
    /\ controlDone /\ ~stopping => control = "done"
(* A finished input is complete; its end is announced once all is heard.   *)
EndsInOrder ==
    /\ finished => received = cutoff
    /\ recognition = "ending" => blocks = <<>> /\ control = "done"
    /\ inputDone => /\ recognition = "exited" /\ finished
                    /\ recognized = received /\ received = cutoff
    /\ stopping /\ ~aborted /\ error = "none" => inputDone
(* The clock of the tail is held by the refused packet, and runs when that *)
(* packet would fit.                                                       *)
ClockIsHeld ==
    /\ cutoff = None => held = 0 /\ offered = 0
    /\ held # 0 => held = offered
    /\ offered # 0 /\ held = 0 => Capacity(offered)

IInv ==
    TypeOK /\ QueuesLinked /\ InHand /\ ControlKnows /\ EndsInOrder /\ ClockIsHeld
-----------------------------------------------------------------------------
(* Numbers.  To hear more leaves less.                                     *)
LEMMA LaterIsLess ==
  ASSUME NEW r \in Int, NEW a \in Int, NEW b \in Int, NEW k \in Int,
         a <= b, r - a <= k
  PROVE  r - b <= k
  OBVIOUS

(* Spans.                                                                  *)

LEMMA SpanFields ==
  ASSUME NEW e \in Spans
  PROVE  e.start \in Nat /\ e.n \in Nat
  BY DEF Spans

(* A span that begins where a queue ends prolongs it.                      *)
LEMMA AppendLinked ==
  ASSUME NEW q \in Seq(Spans), NEW a \in Nat, NEW b \in Nat, Linked(q, a, b),
         NEW e \in Spans, e.start = b
  PROVE  Append(q, e) \in Seq(Spans) /\ Linked(Append(q, e), a, b + e.n)
  <1> DEFINE r == Append(q, e)
  <1>1. /\ r \in Seq(Spans) /\ r # <<>> /\ Len(q) \in Nat /\ Len(r) = Len(q) + 1
        /\ r[Len(q) + 1] = e
        /\ \A i \in 1..Len(q) : r[i] = q[i]
    OBVIOUS
  <1>2. \A i \in 1..Len(q) : q[i].start \in Nat /\ q[i].n \in Nat
    BY SpanFields
  <1>3. e.start \in Nat /\ e.n \in Nat
    BY SpanFields
  <1>4. Len(q) = 0 <=> q = <<>>
    OBVIOUS
  <1> HIDE DEF r
  <1>5. Reaches(r, a, b + e.n)
    <2>1. r[1].start = a
      BY <1>1, <1>4 DEF Linked, Reaches
    <2>2. r[Len(r)].start + r[Len(r)].n = b + e.n
      BY <1>1
    <2>3. ASSUME NEW i \in 1..Len(r) - 1 PROVE r[i].start + r[i].n = r[i+1].start
      <3>1. i \in 1..Len(q)
        BY <1>1
      <3>2. CASE i = Len(q)
        BY <1>1, <1>4, <3>1, <3>2 DEF Linked, Reaches
      <3>3. CASE i # Len(q)
        BY <1>1, <3>1, <3>3 DEF Linked, Reaches
      <3> QED
        BY <3>2, <3>3
    <2> QED
      BY <1>1, <2>1, <2>2, <2>3 DEF Reaches
  <1>6. \A i \in 1..Len(r) : a <= r[i].start /\ r[i].start + r[i].n <= b + e.n
    BY <1>1, <1>2, <1>3 DEF Linked
  <1>7. ASSUME NEW i \in 1..Len(r), NEW j \in 1..Len(r), i < j
        PROVE  r[i].start + r[i].n <= r[j].start
    <2>1. i \in 1..Len(q) /\ r[i] = q[i]
      BY <1>1, <1>7
    <2>2. CASE j = Len(q) + 1
      BY <1>1, <2>1, <2>2 DEF Linked
    <2>3. CASE j # Len(q) + 1
      <3>1. j \in 1..Len(q) /\ r[j] = q[j]
        BY <1>1, <2>3
      <3> QED
        BY <1>7, <2>1, <3>1 DEF Linked
    <2> QED
      BY <2>2, <2>3
  <1>8. a <= b + e.n
    BY <1>3 DEF Linked
  <1> QED
    BY <1>1, <1>5, <1>6, <1>7, <1>8 DEF Linked, r

(* The first span of a queue begins where the queue does, and the rest     *)
(* begins where it ends.                                                   *)
LEMMA TailLinked ==
  ASSUME NEW q \in Seq(Spans), NEW a \in Nat, NEW b \in Nat, Linked(q, a, b),
         q # <<>>
  PROVE  /\ Head(q) \in Spans /\ Head(q).start = a
         /\ Tail(q) \in Seq(Spans) /\ Linked(Tail(q), a + Head(q).n, b)
  <1> DEFINE r == Tail(q)
             m == Head(q).n
  <1>1. /\ r \in Seq(Spans) /\ Len(q) \in Nat \ {0} /\ Len(r) = Len(q) - 1
        /\ Head(q) = q[1] /\ q[1] \in Spans
        /\ \A i \in 1..Len(r) : r[i] = q[i + 1] /\ i + 1 \in 2..Len(q)
    OBVIOUS
  <1>2. \A i \in 1..Len(q) : q[i].start \in Nat /\ q[i].n \in Nat
    BY SpanFields
  <1>3. q[1].start = a /\ m = q[1].n /\ m \in Nat
    BY <1>1, <1>2 DEF Linked, Reaches
  <1> HIDE DEF r, m
  <1>4. Len(r) = 0 <=> r = <<>>
    BY <1>1
  <1>5. Reaches(r, a + m, b)
    <2>1. CASE r = <<>>
      <3>1. Len(q) = 1 /\ Len(r) = 0 /\ q # <<>>
        BY <1>1, <1>4, <2>1
      <3>2. q[1].start + q[1].n = b
        BY <3>1 DEF Linked, Reaches
      <3>3. a + m = b
        BY <1>3, <3>2
      <3> QED
        BY <2>1, <3>1, <3>3 DEF Reaches
    <2>2. CASE r # <<>>
      <3>1. r[1] = q[2] /\ r[Len(r)] = q[Len(q)] /\ Len(q) > 1
        BY <1>1, <1>4, <2>2
      <3>2. r[1].start = a + m
        <4>1. 1 \in 1..Len(q) - 1 /\ 1 + 1 = 2
          BY <1>1, <3>1
        <4>2. q[1].start + q[1].n = q[1 + 1].start
          BY <4>1 DEF Linked, Reaches
        <4> QED
          BY <1>3, <3>1, <4>1, <4>2
      <3>3. ASSUME NEW i \in 1..Len(r) - 1
            PROVE  r[i].start + r[i].n = r[i+1].start
        <4>1. r[i] = q[i + 1] /\ r[i + 1] = q[(i + 1) + 1] /\ i + 1 \in 1..Len(q) - 1
          BY <1>1
        <4> QED
          BY <4>1 DEF Linked, Reaches
      <3> QED
        BY <2>2, <3>1, <3>2, <3>3 DEF Linked, Reaches
    <2> QED
      BY <2>1, <2>2
  <1>6. ASSUME NEW i \in 1..Len(r)
        PROVE  a + m <= r[i].start /\ r[i].start + r[i].n <= b
    <2>1. r[i] = q[i + 1] /\ i + 1 \in 1..Len(q) /\ 1 \in 1..Len(q) /\ 1 < i + 1
      BY <1>1
    <2>2. q[1].start + q[1].n <= q[i + 1].start /\ q[i + 1].start + q[i + 1].n <= b
      BY <2>1 DEF Linked
    <2> QED
      BY <1>3, <2>1, <2>2
  <1>7. ASSUME NEW i \in 1..Len(r), NEW j \in 1..Len(r), i < j
        PROVE  r[i].start + r[i].n <= r[j].start
    <2>1. /\ r[i] = q[i + 1] /\ r[j] = q[j + 1] /\ i + 1 < j + 1
          /\ i + 1 \in 1..Len(q) /\ j + 1 \in 1..Len(q)
      BY <1>1, <1>7
    <2> QED
      BY <2>1 DEF Linked
  <1>8. a + m <= b
    BY <1>1, <1>3 DEF Linked
  <1> QED
    BY <1>1, <1>3, <1>5, <1>6, <1>7, <1>8 DEF Linked, r, m
(* No span: the ends of the queue are one.                                 *)
LEMMA EmptyLinked ==
  ASSUME NEW a \in Nat, NEW b \in Nat
  PROVE  Linked(<<>>, a, b) <=> a = b
  BY DEF Linked, Reaches

-----------------------------------------------------------------------------
(* The invariant.                                                          *)

LEMMA InitIInv == Init => IInv
  <1> SUFFICES ASSUME Init PROVE IInv
    OBVIOUS
  <1>1. <<>> \in Seq(Spans) /\ Nothing \in Spans
    BY BlockAssumption, BoundsAssumption, LimitsAssumption DEF Nothing, Span, Spans
  <1>2. TypeOK
    <2>1. /\ 0 \in 0..InputLimit /\ 0 \in 0..0 /\ 0 - 0 <= InputBound
          /\ Len(<<>>) <= MaxPackets /\ 0 \in 0..TailTime /\ 0 \in 0..InputBound
      BY BoundsAssumption, LimitsAssumption
    <2> QED
      BY <1>1, <2>1 DEF Init, TypeOK
  <1>3. QueuesLinked
    BY EmptyLinked DEF Init, QueuesLinked, Nothing, Span
  <1>4. InHand /\ ControlKnows /\ EndsInOrder /\ ClockIsHeld
    BY DEF Init, InHand, ControlKnows, EndsInOrder, ClockIsHeld
  <1> QED
    BY <1>2, <1>3, <1>4 DEF IInv

USE BlockAssumption, BoundsAssumption, PacketsAssumption, LimitsAssumption

(* Steps that move no sample.                                              *)
LEMMA QueuesFrame ==
  ASSUME QueuesLinked, UNCHANGED <<clocks, queues, tail, inHand>>,
         control = "exited" => control' = "exited"
  PROVE  QueuesLinked'
  BY DEF QueuesLinked, clocks, queues

(* What the types and the queues say of the numbers.                       *)
LEMMA Naturals ==
  ASSUME IInv
  PROVE  /\ received \in Nat /\ controlled \in Nat /\ recognized \in Nat
         /\ tail \in Nat /\ elapsed \in Nat /\ offered \in Nat
  BY DEF IInv, TypeOK

LEMMA Numbers ==
  ASSUME IInv
  PROVE  /\ received \in Nat /\ controlled \in Nat /\ recognized \in Nat
         /\ tail \in Nat /\ elapsed \in Nat
         /\ inHand \in Spans /\ inHand.start \in Nat /\ inHand.n \in Nat
         /\ input \in Seq(Spans) /\ blocks \in Seq(Spans)
         /\ recognized + inHand.n <= controlled
         /\ control # "exited" => controlled + tail <= received
         /\ cutoff # None => cutoff \in received..InputLimit
  <1>1. inHand \in Spans
    BY DEF IInv, TypeOK
  <1> QED
    BY <1>1, SpanFields DEF IInv, TypeOK, QueuesLinked, Linked

LEMMA FeedKeeps ==
  ASSUME IInv, NEW n \in PacketSizes, FeedTaken(n) \/ FeedRefused(n)
  PROVE  IInv'
  <1> USE DEF HostFrame, MayFeed, clocks, queues, doneVars, threads, cutVars
  <1>1. n \in Nat \ {0} /\ n <= InputBound
    OBVIOUS
  <1>2. CASE FeedTaken(n)
    <2>1. Span(received, n) \in Spans
      BY <1>1, <1>2, Numbers DEF FeedTaken, Span, Spans
    <2>2. /\ received' = received + n /\ received' <= InputLimit
          /\ received' - recognized <= InputBound
      <3>1. /\ received' = received + n /\ n <= InputLimit - received
            /\ received - recognized + n <= InputBound
        BY <1>2 DEF FeedTaken, Capacity
      <3> QED
        BY <1>1, <3>1, Naturals
    <2>3. /\ input' \in Seq(Spans) /\ Len(input') <= MaxPackets
      BY <1>2, <2>1, Numbers DEF FeedTaken, Capacity
    <2>4. cutoff' \in {None} \cup received'..InputLimit
      BY <1>1, <1>2, <2>2, Numbers DEF FeedTaken
    <2>5. TypeOK'
      BY <1>1, <1>2, <2>2, <2>3, <2>4 DEF FeedTaken, IInv, TypeOK
    <2>6. control # "exited" => Linked(input', controlled' + tail', received')
      <3> DEFINE e == Span(received, n)
      <3>1. e.start = received /\ e.n = n
        BY DEF Span
      <3>2. input' = Append(input, e) /\ controlled' = controlled /\ tail' = tail
        BY <1>2 DEF FeedTaken
      <3> HIDE DEF e
      <3> SUFFICES ASSUME control # "exited"
                   PROVE  Linked(Append(input, e), controlled + tail, received + n)
        BY <2>2, <3>2
      <3>3. Linked(input, controlled + tail, received)
        BY DEF IInv, QueuesLinked
      <3> QED
        BY <2>1, <3>1, <3>3, AppendLinked, Numbers DEF e
    <2>7. QueuesLinked'
      BY <1>2, <2>6 DEF FeedTaken, IInv, QueuesLinked
    <2>8. InHand' /\ ControlKnows'
      BY <1>2 DEF FeedTaken, IInv, InHand, ControlKnows
    <2>9. EndsInOrder' /\ ClockIsHeld'
      BY <1>2 DEF FeedTaken, IInv, EndsInOrder, ClockIsHeld
    <2> QED
      BY <2>5, <2>7, <2>8, <2>9 DEF IInv
  <1>3. CASE FeedRefused(n)
    <2>1. Resumed \in {0, held}
      BY DEF Resumed
    <2>2. TypeOK'
      BY <1>3, <2>1 DEF FeedRefused, IInv, TypeOK
    <2>3. QueuesLinked'
      BY <1>3, QueuesFrame DEF FeedRefused, IInv
    <2>4. InHand' /\ ControlKnows' /\ EndsInOrder'
      BY <1>3 DEF FeedRefused, IInv, InHand, ControlKnows, EndsInOrder
    <2>5. ClockIsHeld'
      BY <1>1, <1>3 DEF FeedRefused, IInv, ClockIsHeld, Resumed, Capacity
    <2> QED
      BY <2>2, <2>3, <2>4, <2>5 DEF IInv
  <1> QED
    BY <1>2, <1>3

LEMMA CloseKeeps ==
  ASSUME IInv, (\E end \in 0..InputLimit : FinishInput(end)) \/ CloseDrain \/ CloseAbort
               \/ OthersSettle \/ OthersFault \/ Tick
  PROVE  IInv'
  <1> USE DEF HostFrame, clocks, queues, cutVars, tailVars, doneVars, threads, life,
       MaybeClose, CloseReady, Fault
  <1>1. ASSUME NEW end \in 0..InputLimit, FinishInput(end) PROVE IInv'
    <2>1. TypeOK'
      BY <1>1 DEF FinishInput, IInv, TypeOK
    <2>2. QueuesLinked'
      BY <1>1, QueuesFrame DEF FinishInput, IInv
    <2>3. InHand'
      BY <1>1 DEF FinishInput, IInv, InHand
    <2>a. finished => finished'
      <3>1. finished => received = cutoff /\ received # None
        BY Numbers DEF IInv, EndsInOrder, None
      <3>2. cutoff \in {None, end} /\ finished' = (received = end)
        BY <1>1 DEF FinishInput
      <3> QED
        BY <3>1, <3>2
    <2>b. ControlKnows'
      BY <1>1, <2>a DEF FinishInput, IInv, ControlKnows
    <2>c. EndsInOrder'
      BY <1>1, <2>a, Numbers DEF FinishInput, IInv, EndsInOrder, None
    <2>4. ClockIsHeld'
      BY <1>1 DEF FinishInput, IInv, ClockIsHeld, Capacity
    <2> QED
      BY <2>1, <2>2, <2>3, <2>b, <2>c, <2>4 DEF IInv
  <1>2. CASE CloseDrain \/ CloseAbort \/ OthersSettle \/ OthersFault
    <2> USE <1>2 DEF CloseDrain, CloseAbort, OthersSettle, OthersFault
    <2>a. stopping => stopping'
      OBVIOUS
    <2>1. TypeOK'
      <3>1. /\ settled' \in BOOLEAN /\ closing' \in BOOLEAN /\ aborted' \in BOOLEAN
            /\ stopping' \in BOOLEAN /\ error' \in {error, "other"}
            /\ UNCHANGED <<clocks, queues, cutVars, tailVars, doneVars, threads>>
        BY DEF IInv, TypeOK
      <3> QED
        BY <3>1 DEF IInv, TypeOK
    <2>2. QueuesLinked'
      BY QueuesFrame DEF IInv
    <2>3. InHand' /\ ControlKnows' /\ ClockIsHeld'
      BY <2>a DEF IInv, InHand, ControlKnows, ClockIsHeld, Capacity
    <2>4. EndsInOrder'
      BY DEF IInv, TypeOK, EndsInOrder
    <2> QED
      BY <2>1, <2>2, <2>3, <2>4 DEF IInv
  <1>3. CASE Tick
    <2>1. TypeOK'
      BY <1>3 DEF Tick, Expired, IInv, TypeOK
    <2>2. QueuesLinked'
      BY <1>3, QueuesFrame DEF Tick, IInv
    <2>3. InHand' /\ ControlKnows' /\ EndsInOrder' /\ ClockIsHeld'
      BY <1>3 DEF Tick, IInv, InHand, ControlKnows, EndsInOrder, ClockIsHeld, Capacity
    <2> QED
      BY <2>1, <2>2, <2>3 DEF IInv
  <1> QED
    BY <1>1, <1>2, <1>3
LEMMA ControlKeeps ==
  ASSUME IInv, ControlStep
  PROVE  IInv'
  <1>f. ControlFrame
    BY DEF ControlStep, ControlResume, TailMissing, TakePacket, Score, ScoreFails,
           InputBreak, ControlExit
  <1> USE <1>f DEF ControlFrame, clocks, queues, cutVars, Fault
  <1>1. Resumed \in {0, held} /\ (held # 0 /\ Resumed = 0 => Capacity(held))
    BY DEF Resumed
  <1>2. CASE ControlResume
    <2>1. TypeOK'
      BY <1>1, <1>2 DEF ControlResume, IInv, TypeOK
    <2>2. QueuesLinked'
      BY <1>2, QueuesFrame DEF ControlResume, IInv
    <2>3. InHand' /\ ControlKnows' /\ EndsInOrder'
      BY <1>2 DEF ControlResume, IInv, InHand, ControlKnows, EndsInOrder
    <2>4. ClockIsHeld'
      BY <1>1, <1>2 DEF ControlResume, IInv, ClockIsHeld, Capacity
    <2> QED
      BY <2>1, <2>2, <2>3, <2>4 DEF IInv
  <1>3. CASE TailMissing \/ ScoreFails \/ ControlExit
    <2> USE <1>3 DEF TailMissing, ScoreFails, ControlExit
    <2>1. /\ control' = "exited" /\ stopping' /\ error' \in {error, "tail", "vad"}
          /\ error # "none" => error' # "none"
          /\ error' # "none" \/ stopping
          /\ UNCHANGED <<controlled, queues, held, tail>>
      OBVIOUS
    <2>a. stopping' \in BOOLEAN /\ controlDone' \in BOOLEAN
      <3>1. stopping \in BOOLEAN /\ controlDone \in BOOLEAN
        BY DEF IInv, TypeOK
      <3> QED
        BY <3>1
    <2>2. TypeOK'
      BY <2>1, <2>a DEF IInv, TypeOK
    <2>3. QueuesLinked'
      BY <2>1, QueuesFrame DEF IInv
    <2>4. InHand' /\ ControlKnows' /\ ClockIsHeld'
      BY <2>1 DEF IInv, InHand, ControlKnows, ClockIsHeld, Capacity
    <2>5. EndsInOrder'
      BY <2>1 DEF IInv, EndsInOrder, TypeOK
    <2> QED
      BY <2>2, <2>3, <2>4, <2>5 DEF IInv
  <1>4. CASE TakePacket
    <2> DEFINE e == Head(input)
    <2>1. input # <<>> /\ control = "idle" /\ ~stopping
      BY <1>4 DEF TakePacket
    <2>2. Linked(input, controlled + tail, received)
      BY <2>1 DEF IInv, QueuesLinked
    <2>3. /\ e \in Spans /\ e.n \in Nat /\ Tail(input) \in Seq(Spans)
          /\ Linked(Tail(input), controlled + tail + e.n, received)
      BY <2>1, <2>2, TailLinked, SpanFields, Numbers
    <2>4. /\ input' = Tail(input) /\ tail' = tail + e.n /\ held' = Resumed
          /\ control' \in {"scoring", "idle"} /\ (control' = "scoring" => tail' >= Block)
          /\ UNCHANGED <<controlled, blocks, controlDone, stopping, error>>
      BY <1>4 DEF TakePacket
    <2>5. Len(input') <= Len(input) /\ Len(input) \in Nat
      BY <2>1, <2>4, Numbers
    <2> HIDE DEF e
    <2>6. controlled + tail + e.n = controlled + tail' /\ tail' \in Nat
      <3>1. controlled \in Nat /\ tail \in Nat
        BY Numbers
      <3> QED
        BY <2>3, <2>4, <3>1
    <2>7. Linked(input', controlled' + tail', received')
      BY <2>3, <2>4, <2>6
    <2>8. tail' \in 0..InputBound
      <3>1. controlled + tail' <= received /\ recognized <= controlled
            /\ received - recognized <= InputBound
        BY <2>3, <2>6 DEF Linked, IInv, TypeOK
      <3> QED
        BY <2>6, <3>1, Numbers
    <2>9. TypeOK'
      BY <1>1, <2>3, <2>4, <2>5, <2>8 DEF IInv, TypeOK
    <2>10. QueuesLinked'
      BY <2>4, <2>7 DEF IInv, QueuesLinked
    <2>11. InHand' /\ ControlKnows'
      BY <2>1, <2>4 DEF IInv, InHand, ControlKnows
    <2>12. EndsInOrder'
      BY <2>1, <2>4 DEF IInv, EndsInOrder
    <2>13. ClockIsHeld'
      BY <1>1, <2>4, <2>5 DEF IInv, ClockIsHeld, Capacity
    <2> QED
      BY <2>9, <2>10, <2>11, <2>12, <2>13 DEF IInv
  <1>5. CASE Score
    <2> DEFINE n == IF control = "rest" THEN tail ELSE Block
               e == Span(controlled, n)
    <2>1. /\ control \in {"scoring", "rest"} /\ ~stopping
          /\ blocks' = Append(blocks, e) /\ controlled' = controlled + n
          /\ tail' = tail - n
          /\ controlDone' = (control = "rest")
          /\ control = "rest" => control' = "done"
          /\ control # "rest" => control' \in {"scoring", "idle"}
          /\ control' = "scoring" => tail' >= Block
          /\ UNCHANGED <<input, held, stopping, error>>
      BY <1>5 DEF Score, Uncut
    <2>2. n \in Nat /\ n <= tail /\ tail \in Nat /\ tail' \in Nat
      <3>1. tail \in Nat /\ (control # "rest" => tail >= Block)
        BY <2>1, Numbers DEF IInv, ControlKnows
      <3>2. n \in Nat /\ n <= tail
        BY <3>1
      <3> HIDE DEF n
      <3> QED
        BY <2>1, <3>1, <3>2
    <2>3. controlled \in Nat /\ controlled + n <= received
      BY <2>1, <2>2, Numbers
    <2>4. e.start = controlled /\ e.n = n
      BY DEF Span
    <2>5. e \in Spans
      BY <2>2, <2>3, Numbers DEF Span, Spans, IInv, TypeOK
    <2> HIDE DEF e
    <2>6. /\ blocks' \in Seq(Spans)
          /\ Linked(blocks', recognized + inHand.n, controlled')
      <3>1. /\ Linked(blocks, recognized + inHand.n, controlled) /\ blocks \in Seq(Spans)
            /\ recognized + inHand.n \in Nat /\ controlled \in Nat
        BY Numbers DEF IInv, QueuesLinked
      <3>2. /\ Append(blocks, e) \in Seq(Spans)
            /\ Linked(Append(blocks, e), recognized + inHand.n, controlled + e.n)
        BY <2>4, <2>5, <3>1, AppendLinked
      <3> QED
        BY <2>1, <2>4, <3>2
    <2>7. controlled' + tail' = controlled + tail
      BY <2>1, <2>2, <2>3
    <2> HIDE DEF n
    <2>8. TypeOK'
      <3>1. tail' \in 0..InputBound /\ controlled' \in 0..received /\ recognized \in 0..controlled'
        BY <2>1, <2>2, <2>3, Numbers DEF IInv, TypeOK
      <3> QED
        BY <2>1, <2>6, <3>1 DEF IInv, TypeOK
    <2>9. QueuesLinked'
      BY <2>1, <2>6, <2>7 DEF IInv, QueuesLinked
    <2>10. InHand'
      BY DEF Score, IInv, InHand
    <2>11. ControlKnows'
      <3>1. CASE control = "rest"
        <4>1. tail' = 0
          BY <2>1, <2>2, <3>1 DEF n
        <4>2. control' = "done" /\ controlDone' = TRUE /\ finished /\ input = <<>>
          BY <2>1, <3>1 DEF IInv, ControlKnows
        <4> QED
          BY <2>1, <4>1, <4>2 DEF ControlKnows
      <3>2. CASE control # "rest"
        <4>1. controlDone' = FALSE /\ control' \in {"scoring", "idle"}
          BY <2>1, <3>2
        <4> QED
          BY <2>1, <4>1 DEF ControlKnows
      <3> QED
        BY <3>1, <3>2
    <2>12. EndsInOrder'
      BY <2>1 DEF IInv, EndsInOrder
    <2>13. ClockIsHeld'
      BY <2>1 DEF IInv, ClockIsHeld, Capacity
    <2> QED
      BY <2>8, <2>9, <2>10, <2>11, <2>12, <2>13 DEF IInv
  <1>6. CASE InputBreak
    <2>1. TypeOK'
      BY <1>1, <1>6 DEF InputBreak, IInv, TypeOK
    <2>2. QueuesLinked'
      BY <1>6, QueuesFrame DEF InputBreak, IInv
    <2>3. InHand' /\ EndsInOrder'
      BY <1>6 DEF InputBreak, IInv, InHand, EndsInOrder
    <2>4. ControlKnows'
      <3>1. /\ finished /\ input = <<>> /\ ~stopping /\ control = "idle"
            /\ UNCHANGED <<finished, input, stopping, tail>>
            /\ control' = IF tail > 0 THEN "rest" ELSE "done"
            /\ controlDone' <=> tail = 0
        BY <1>6 DEF InputBreak
      <3>2. CASE tail > 0
        <4>1. control' = "rest" /\ ~controlDone'
          BY <3>1, <3>2, Naturals
        <4> QED
          BY <3>1, <4>1 DEF ControlKnows
      <3>3. CASE tail = 0
        <4>1. control' = "done" /\ controlDone'
          BY <3>1, <3>3
        <4> QED
          BY <3>1, <3>3, <4>1 DEF ControlKnows
      <3> QED
        BY <3>2, <3>3, Naturals
    <2>5. ClockIsHeld'
      BY <1>1, <1>6 DEF InputBreak, IInv, ClockIsHeld, Capacity
    <2> QED
      BY <2>1, <2>2, <2>3, <2>4, <2>5 DEF IInv
  <1> QED
    BY <1>2, <1>3, <1>4, <1>5, <1>6 DEF ControlStep
LEMMA RecognitionKeeps ==
  ASSUME IInv, RecognitionStep
  PROVE  IInv'
  <1>f. RecognitionFrame
    BY DEF RecognitionStep, TakeBlock, HearBlock, LastBlock, InputDone,
           RecognitionFails, RecognitionExit
  <1> USE <1>f DEF RecognitionFrame, clocks, queues, cutVars, tailVars, Fault
  <1>1. CASE TakeBlock
    <2> DEFINE e == Head(blocks)
    <2>1. blocks # <<>> /\ recognition = "take" /\ ~stopping /\ inHand = Nothing
      BY <1>1 DEF TakeBlock, IInv, InHand
    <2>2. Linked(blocks, recognized, controlled)
      BY <2>1, Numbers DEF IInv, QueuesLinked, Nothing, Span
    <2>3. /\ e \in Spans /\ e.start = recognized /\ Tail(blocks) \in Seq(Spans)
          /\ Linked(Tail(blocks), recognized + e.n, controlled)
      BY <2>1, <2>2, TailLinked, Numbers
    <2> HIDE DEF e
    <2>4. /\ inHand' = e /\ blocks' = Tail(blocks) /\ recognition' = "hearing"
          /\ UNCHANGED <<recognized, inputDone, stopping, error>>
      BY <1>1 DEF TakeBlock, e
    <2>5. TypeOK'
      BY <2>3, <2>4 DEF IInv, TypeOK
    <2>6. QueuesLinked'
      BY <2>3, <2>4 DEF IInv, QueuesLinked
    <2>7. InHand' /\ ControlKnows'
      BY <2>3, <2>4 DEF IInv, InHand, ControlKnows
    <2>8. EndsInOrder' /\ ClockIsHeld'
      BY <2>1, <2>4 DEF IInv, EndsInOrder, ClockIsHeld, Capacity
    <2> QED
      BY <2>5, <2>6, <2>7, <2>8 DEF IInv
  <1>2. CASE HearBlock
    <2>1. /\ recognition = "hearing" /\ recognition' = "take"
          /\ recognized' = recognized + inHand.n /\ inHand' = Nothing
          /\ UNCHANGED <<blocks, inputDone, stopping, error>>
      BY <1>2 DEF HearBlock
    <2>2. /\ recognized' \in Nat /\ recognized <= recognized' /\ recognized' <= controlled
          /\ recognized' + Nothing.n = recognized + inHand.n
      BY <2>1, Numbers DEF Nothing, Span
    <2>3. Nothing \in Spans
      BY DEF Nothing, Span, Spans
    <2>4. received' - recognized' <= InputBound /\ recognized' \in 0..controlled
      <3>1. received - recognized <= InputBound
        BY DEF IInv, TypeOK
      <3>2. received \in Nat /\ recognized \in Nat /\ controlled \in Nat
        BY Naturals
      <3>3. /\ received \in Int /\ recognized \in Int /\ recognized' \in Int
            /\ InputBound \in Int /\ recognized <= recognized'
        BY <2>2, <3>2
      <3>4. received - recognized' <= InputBound
        BY ONLY <3>1, <3>3, LaterIsLess
      <3>5. recognized' \in 0..controlled
        BY ONLY <2>2, <3>2
      <3>6. received' = received
        OBVIOUS
      <3> QED
        BY ONLY <3>4, <3>5, <3>6
    <2>5. TypeOK'
      BY <2>1, <2>3, <2>4 DEF IInv, TypeOK
    <2>6. QueuesLinked'
      BY <2>1, <2>2 DEF IInv, QueuesLinked
    <2>7. InHand' /\ ControlKnows' /\ EndsInOrder'
      BY <2>1 DEF IInv, InHand, ControlKnows, EndsInOrder
    <2>8. ASSUME NEW n \in Nat, Capacity(n) PROVE Capacity(n)'
      BY <2>2, <2>8, Numbers DEF Capacity
    <2>9. offered \in Nat
      BY Naturals
    <2>10. ClockIsHeld'
      BY <2>8, <2>9 DEF IInv, ClockIsHeld
    <2> QED
      BY <2>5, <2>6, <2>7, <2>10 DEF IInv
  <1>3. CASE LastBlock
    <2>1. /\ recognition = "take" /\ recognition' = "ending" /\ ~stopping
          /\ blocks = <<>> /\ controlDone
          /\ UNCHANGED <<recognized, blocks, inHand, inputDone, stopping, error>>
      BY <1>3 DEF LastBlock, NoMoreBlocks
    <2>2. TypeOK'
      BY <2>1 DEF IInv, TypeOK
    <2>3. QueuesLinked'
      BY <2>1, QueuesFrame DEF IInv
    <2>4. InHand' /\ ControlKnows' /\ EndsInOrder'
      BY <2>1 DEF IInv, InHand, ControlKnows, EndsInOrder
    <2>5. ClockIsHeld'
      BY <2>1 DEF IInv, ClockIsHeld, Capacity
    <2> QED
      BY <2>2, <2>3, <2>4, <2>5 DEF IInv
  (* At the end everything accepted has been heard.                        *)
  <1>a. ASSUME recognition = "ending"
        PROVE  finished /\ recognized = received /\ received = cutoff
    <2>1. /\ blocks = <<>> /\ inHand.n = 0 /\ input = <<>> /\ tail = 0 /\ control = "done"
          /\ finished /\ received = cutoff
      BY <1>a DEF IInv, InHand, EndsInOrder, ControlKnows, Nothing, Span
    <2>2. Linked(<<>>, recognized, controlled) /\ Linked(<<>>, controlled, received)
      BY <2>1, Numbers DEF IInv, QueuesLinked
    <2> QED
      BY <2>1, <2>2, EmptyLinked, Numbers
  <1>4. CASE InputDone
    <2>1. /\ recognition = "ending" /\ inputDone' = TRUE /\ recognition' = "exited"
          /\ UNCHANGED <<recognized, blocks, inHand, error>>
      BY <1>4 DEF InputDone
    <2>2. stopping' \in BOOLEAN /\ (stopping => stopping')
      BY <1>4 DEF InputDone, MaybeClose
    <2>3. TypeOK'
      BY <2>1, <2>2 DEF IInv, TypeOK
    <2>4. QueuesLinked'
      BY <2>1, QueuesFrame DEF IInv
    <2>5. InHand' /\ ControlKnows'
      BY <2>1, <2>2 DEF IInv, InHand, ControlKnows
    <2>6. EndsInOrder'
      BY <1>a, <2>1 DEF IInv, EndsInOrder
    <2>7. ClockIsHeld'
      BY <2>1 DEF IInv, ClockIsHeld, Capacity
    <2> QED
      BY <2>3, <2>4, <2>5, <2>6, <2>7 DEF IInv
  <1>5. CASE RecognitionFails
    <2>1. /\ recognition \in {"hearing", "ending"} /\ recognition' = "exited"
          /\ inputDone' \in BOOLEAN /\ (inputDone' => recognition = "ending")
          /\ stopping' = TRUE /\ error' \in {error, "recognition"} /\ error' # "none"
          /\ UNCHANGED <<recognized, blocks, inHand>>
      BY <1>5 DEF RecognitionFails
    <2>2. TypeOK'
      BY <2>1 DEF IInv, TypeOK
    <2>3. QueuesLinked'
      BY <2>1, QueuesFrame DEF IInv
    <2>4. InHand' /\ ControlKnows'
      BY <2>1 DEF IInv, InHand, ControlKnows
    <2>5. EndsInOrder'
      BY <1>a, <2>1 DEF IInv, EndsInOrder
    <2>6. ClockIsHeld'
      BY <2>1 DEF IInv, ClockIsHeld, Capacity
    <2> QED
      BY <2>2, <2>3, <2>4, <2>5, <2>6 DEF IInv
  <1>6. CASE RecognitionExit
    <2>1. /\ recognition = "take" /\ recognition' = "exited"
          /\ UNCHANGED <<recognized, blocks, inHand, inputDone, stopping, error>>
      BY <1>6 DEF RecognitionExit
    <2>2. TypeOK'
      BY <2>1 DEF IInv, TypeOK
    <2>3. QueuesLinked'
      BY <2>1, QueuesFrame DEF IInv
    <2>4. InHand' /\ ControlKnows' /\ EndsInOrder' /\ ClockIsHeld'
      BY <2>1 DEF IInv, InHand, ControlKnows, EndsInOrder, ClockIsHeld, Capacity
    <2> QED
      BY <2>2, <2>3, <2>4 DEF IInv
  <1> QED
    BY <1>1, <1>2, <1>3, <1>4, <1>5, <1>6 DEF RecognitionStep

LEMMA NextIInv ==
  ASSUME IInv, [Next]_vars
  PROVE  IInv'
  <1>1. CASE UNCHANGED vars
    BY <1>1 DEF vars, clocks, queues, cutVars, tailVars, doneVars, threads, life,
       IInv, TypeOK, QueuesLinked, InHand, ControlKnows, EndsInOrder, ClockIsHeld, Capacity
  <1>2. CASE HostStep
    BY <1>2, FeedKeeps, CloseKeeps DEF HostStep, Feed
  <1> QED
    BY <1>1, <1>2, ControlKeeps, RecognitionKeeps, CloseKeeps DEF Next

-----------------------------------------------------------------------------
(* The theorems.                                                           *)

(* The inductive invariant, for every reachable state of the input.        *)
THEOREM Invariance == Spec => []IInv
  <1>1. IInv /\ [Next]_vars => IInv'
    BY NextIInv
  <1> QED
    BY <1>1, InitIInv, PTL DEF Spec

(* Every variable keeps its type, the clocks do not pass one another, and  *)
(* no more is accepted than the bounds allow (Session::feed, the loops).   *)
THEOREM TypeCorrect == Spec => []TypeOK
  <1>1. IInv => TypeOK
    BY DEF IInv
  <1> QED
    BY <1>1, Invariance, PTL

(* Every sample accepted by Session::feed is in one place, in its order,   *)
(* until it is heard.                                                      *)
THEOREM NothingLostHolds == Spec => []NothingLost
  <1>1. IInv => NothingLost
    BY DEF IInv, NothingLost, QueuesLinked, Linked, InHand, ControlKnows
  <1> QED
    BY <1>1, Invariance, PTL

(* A session that closes by itself, or announces the end of its input, has *)
(* heard every sample up to the cutoff (maybe_close_locked, input_done).   *)
THEOREM HeardToTheEndHolds == Spec => []HeardToTheEnd
  <1>1. IInv => HeardToTheEnd
    BY DEF IInv, HeardToTheEnd, EndsInOrder
  <1> QED
    BY <1>1, Invariance, PTL

(* The deadline of the missing tail counts only time in which the session  *)
(* had room, and is never renewed (resume_tail_clock_locked, feed).        *)
THEOREM TailBudgetHolds == Spec => TailBudget
  <1>1. ASSUME IInv, [Next]_vars
        PROVE  TailClock
    <2>1. elapsed \in Nat
      BY <1>1, Numbers
    <2>2. CASE Tick
      BY <2>1, <2>2, <1>1 DEF Tick, IInv, ClockIsHeld, Blocked, TailClock
    <2>3. ASSUME NEW end \in 0..InputLimit, FinishInput(end)
          PROVE  elapsed' = elapsed \/ (elapsed' = 0 /\ cutoff = None)
      BY <2>3 DEF FinishInput
    <2>4. ASSUME Next, ~Tick, ~(\E end \in 0..InputLimit : FinishInput(end))
          PROVE  elapsed' = elapsed
      BY <2>4 DEF Next, HostStep, Feed, FeedTaken, FeedRefused, CloseDrain, CloseAbort,
         ControlStep, ControlResume, TailMissing, TakePacket, Score, ScoreFails,
         InputBreak, ControlExit, ControlFrame, RecognitionStep, TakeBlock, HearBlock,
         LastBlock, InputDone, RecognitionFails, RecognitionExit, RecognitionFrame,
         OthersSettle, OthersFault, tailVars
    <2>5. UNCHANGED vars => elapsed' = elapsed
      BY DEF vars, tailVars
    <2> QED
      BY <1>1, <2>1, <2>2, <2>3, <2>4, <2>5 DEF TailClock
  <1>2. IInv /\ [Next]_vars => [TailClock]_vars
    BY <1>1
  <1> QED
    BY <1>2, Invariance, PTL DEF Spec, TailBudget
=============================================================================
