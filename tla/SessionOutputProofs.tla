------------------------ MODULE SessionOutputProofs ------------------------
(***************************************************************************)
(* Proofs about module SessionOutput, for every value of its constants.    *)
(*                                                                         *)
(* First IInv, with and without failures, and what follows from it: types, *)
(* the audio clock, END, receipts and fences.  Then, each with what it     *)
(* needs beside IInv: the close of a session, releases, cancel calls that  *)
(* come late, the count of the waiting samples, a complete drain, and the  *)
(* refinement of module Custody.                                           *)
(***************************************************************************)
EXTENDS SessionOutput, WellFoundedInduction, TLAPS

LEMMA TailOfSeq ==
  ASSUME NEW S, NEW s \in Seq(S), s # <<>>
  PROVE  /\ Len(s) \in Nat \ {0}
         /\ Head(s) = s[1] /\ s[1] \in S
         /\ Tail(s) \in Seq(S) /\ Len(Tail(s)) = Len(s) - 1
         /\ \A i \in 1..(Len(s) - 1) : Tail(s)[i] = s[i + 1]
  OBVIOUS

LEMMA AppendToSeq ==
  ASSUME NEW S, NEW s \in Seq(S), NEW e \in S
  PROVE  /\ Append(s, e) \in Seq(S) /\ Append(s, e) # <<>>
         /\ Len(s) \in Nat /\ Len(Append(s, e)) = Len(s) + 1
         /\ Append(s, e)[Len(s) + 1] = e
         /\ \A i \in 1..Len(s) : Append(s, e)[i] = s[i]
  OBVIOUS

----------------------------------------------------------------------------
(* Queues of chunks, as values: what the invariant says of Job::audio of a *)
(* reply of which d samples were delivered.                                *)
Runs(q, d) ==
    \A i \in 1..Len(q) :
        q[i].start = IF i = 1 THEN d ELSE q[i-1].start + q[i-1].n
EndOf(q, d) == IF q = <<>> THEN d ELSE q[Len(q)].start + q[Len(q)].n
Sorted(q) ==
    \A i, j \in 1..Len(q) : i < j => q[i].start + q[i].n <= q[j].start

LEMMA ChunkFields ==
  ASSUME NEW q \in Seq(ChunkType)
  PROVE  /\ Len(q) \in Nat
         /\ q # <<>> => Len(q) \in 1..Len(q) /\ 1 \in 1..Len(q)
         /\ \A i \in 1..Len(q) : q[i].start \in Nat /\ q[i].n \in Nat
  <1>1. \A i \in 1..Len(q) : q[i] \in ChunkType
    OBVIOUS
  <1>2. \A i \in 1..Len(q) : q[i].start \in Nat /\ q[i].n \in Nat
    BY <1>1 DEF ChunkType
  <1> QED
    BY <1>2

LEMMA EndOfType ==
  ASSUME NEW q \in Seq(ChunkType), NEW d \in Nat
  PROVE  EndOf(q, d) \in Nat
  BY ChunkFields DEF EndOf

(* Every chunk of a sorted queue ends where the queue ends or before.      *)
LEMMA EndsLast ==
  ASSUME NEW q \in Seq(ChunkType), NEW d \in Nat, Sorted(q),
         NEW i \in 1..Len(q)
  PROVE  q[i].start + q[i].n <= EndOf(q, d)
  <1>1. Len(q) \in Nat /\ q # <<>> /\ Len(q) \in 1..Len(q)
    BY ChunkFields
  <1>2. EndOf(q, d) = q[Len(q)].start + q[Len(q)].n
    BY <1>1 DEF EndOf
  <1>3. q[i].start \in Nat /\ q[i].n \in Nat
    BY ChunkFields
  <1>4. q[Len(q)].start \in Nat /\ q[Len(q)].n \in Nat
    BY <1>1, ChunkFields
  <1>5. CASE i = Len(q)
    BY <1>2, <1>3, <1>5
  <1>6. CASE i < Len(q)
    <2>1. q[i].start + q[i].n <= q[Len(q)].start
      BY <1>1, <1>6 DEF Sorted
    <2> QED
      BY <1>2, <1>3, <1>4, <2>1
  <1> QED
    BY <1>1, <1>5, <1>6

(* A chunk put where the queue ends keeps it gapless and sorted.           *)
LEMMA AppendToQueue ==
  ASSUME NEW q \in Seq(ChunkType), NEW d \in Nat, Runs(q, d), Sorted(q),
         NEW e \in ChunkType, e.start = EndOf(q, d)
  PROVE  /\ Runs(Append(q, e), d)
         /\ Sorted(Append(q, e))
         /\ EndOf(Append(q, e), d) = e.start + e.n
  <1> DEFINE r == Append(q, e)
  <1>1. /\ Len(q) \in Nat /\ Len(r) = Len(q) + 1 /\ r # <<>>
        /\ r[Len(q) + 1] = e
    BY AppendToSeq
  <1>2. \A i \in 1..Len(q) : r[i] = q[i]
    BY AppendToSeq
  <1> HIDE DEF r
  <1>3. EndOf(r, d) = e.start + e.n
    BY <1>1 DEF EndOf
  <1>4. Runs(r, d)
    <2> SUFFICES ASSUME NEW i \in 1..Len(r)
                 PROVE  r[i].start = IF i = 1 THEN d
                                     ELSE r[i-1].start + r[i-1].n
      BY DEF Runs
    <2>1. CASE i \in 1..Len(q)
      <3>1. r[i] = q[i] /\ (i # 1 => r[i-1] = q[i-1])
        BY <1>1, <1>2, <2>1
      <3> QED
        BY <2>1, <3>1 DEF Runs
    <2>2. CASE i = Len(q) + 1
      <3>1. r[i].start = EndOf(q, d)
        BY <1>1, <2>2
      <3>2. CASE q = <<>>
        BY <1>1, <2>2, <3>1, <3>2 DEF EndOf
      <3>3. CASE q # <<>>
        <4>1. Len(q) \in 1..Len(q)
          BY <3>3
        <4>2. r[i-1] = q[Len(q)] /\ i # 1
          BY <1>1, <1>2, <2>2, <4>1
        <4> QED
          BY <3>1, <3>3, <4>2 DEF EndOf
      <3> QED
        BY <3>2, <3>3
    <2> QED
      BY <1>1, <2>1, <2>2
  <1>5. Sorted(r)
    <2> SUFFICES ASSUME NEW i \in 1..Len(r), NEW j \in 1..Len(r), i < j
                 PROVE  r[i].start + r[i].n <= r[j].start
      BY DEF Sorted
    <2>1. i \in 1..Len(q) /\ r[i] = q[i]
      BY <1>1, <1>2
    <2>2. CASE j = Len(q) + 1
      <3>1. r[j].start = EndOf(q, d)
        BY <1>1, <2>2
      <3> QED
        BY <2>1, <3>1, EndsLast
    <2>3. CASE j \in 1..Len(q)
      BY <1>2, <2>1, <2>3 DEF Sorted
    <2> QED
      BY <1>1, <2>2, <2>3
  <1> QED
    BY <1>3, <1>4, <1>5 DEF r

(* Taking the first chunk moves the start of the queue to its end.         *)
LEMMA TailOfQueue ==
  ASSUME NEW q \in Seq(ChunkType), NEW d \in Nat, Runs(q, d), Sorted(q),
         q # <<>>
  PROVE  /\ Runs(Tail(q), d + Head(q).n)
         /\ Sorted(Tail(q))
         /\ EndOf(Tail(q), d + Head(q).n) = EndOf(q, d)
  <1> DEFINE r == Tail(q)
             m == Head(q).n
  <1>1. /\ Len(q) \in Nat /\ Len(q) >= 1 /\ Len(r) = Len(q) - 1
        /\ r \in Seq(ChunkType)
    BY TailOfSeq
  <1>2. \A i \in 1..Len(r) : i + 1 \in 1..Len(q) /\ r[i] = q[i + 1]
    BY <1>1, TailOfSeq
  <1>3. m = q[1].n /\ q[1].start = d /\ m \in Nat
    BY <1>1, TailOfSeq, ChunkFields DEF Runs
  <1> HIDE DEF r, m
  <1>4. (r = <<>> => Len(q) = 1) /\ (Len(q) = 1 => r = <<>>)
    BY <1>1
  <1>5. Runs(r, d + m)
    <2> SUFFICES ASSUME NEW i \in 1..Len(r)
                 PROVE  r[i].start = IF i = 1 THEN d + m
                                     ELSE r[i-1].start + r[i-1].n
      BY DEF Runs
    <2>1. r[i] = q[i + 1] /\ i + 1 \in 1..Len(q) /\ i + 1 # 1
      BY <1>1, <1>2
    <2>2. q[i + 1].start = q[i].start + q[i].n
      BY <2>1 DEF Runs
    <2>3. CASE i = 1
      BY <1>3, <2>1, <2>2, <2>3
    <2>4. CASE i # 1
      <3>1. i - 1 \in 1..Len(r) /\ (i - 1) + 1 = i
        BY <1>1, <2>4
      <3>2. r[i - 1] = q[i]
        BY <1>2, <3>1
      <3> QED
        BY <2>1, <2>2, <2>4, <3>2
    <2> QED
      BY <2>3, <2>4
  <1>6. Sorted(r)
    <2> SUFFICES ASSUME NEW i \in 1..Len(r), NEW j \in 1..Len(r), i < j
                 PROVE  r[i].start + r[i].n <= r[j].start
      BY DEF Sorted
    <2>1. r[i] = q[i + 1] /\ r[j] = q[j + 1] /\ i + 1 < j + 1
      BY <1>1, <1>2
    <2>2. i + 1 \in 1..Len(q) /\ j + 1 \in 1..Len(q)
      BY <1>2
    <2> QED
      BY <2>1, <2>2 DEF Sorted
  <1>7. EndOf(r, d + m) = EndOf(q, d)
    <2>1. CASE Len(q) = 1
      BY <1>1, <1>3, <1>4, <2>1 DEF EndOf
    <2>2. CASE Len(q) # 1
      <3>1. Len(r) \in 1..Len(r) /\ Len(r) + 1 = Len(q)
        BY <1>1, <2>2
      <3>2. r[Len(r)] = q[Len(q)]
        BY <1>2, <3>1
      <3> QED
        BY <1>4, <2>2, <3>2 DEF EndOf
    <2> QED
      BY <2>1, <2>2
  <1> QED
    BY <1>5, <1>6, <1>7 DEF r, m

(* Only the last chunk of a queue may be its END, and END has no samples.  *)
Closing(q, over) ==
    \A i \in 1..Len(q) : q[i].end <=> (i = Len(q) /\ over)
EndsAreEmpty(q) == \A i \in 1..Len(q) : q[i].end => q[i].n = 0

LEMMA AppendChunk ==
  ASSUME NEW q \in Seq(ChunkType), NEW e \in ChunkType, Closing(q, FALSE),
         EndsAreEmpty(q), e.end => e.n = 0
  PROVE  Closing(Append(q, e), e.end) /\ EndsAreEmpty(Append(q, e))
  <1> DEFINE r == Append(q, e)
  <1>1. /\ Len(q) \in Nat /\ Len(r) = Len(q) + 1 /\ r[Len(q) + 1] = e
        /\ \A i \in 1..Len(q) : r[i] = q[i]
    BY AppendToSeq
  <1> HIDE DEF r
  <1> SUFFICES ASSUME NEW i \in 1..Len(r)
               PROVE  /\ r[i].end <=> (i = Len(r) /\ e.end)
                      /\ r[i].end => r[i].n = 0
    BY DEF Closing, EndsAreEmpty, r
  <1>2. CASE i \in 1..Len(q)
    <2>1. r[i] = q[i] /\ i # Len(r)
      BY <1>1, <1>2
    <2>2. ~q[i].end
      BY <1>2 DEF Closing
    <2> QED
      BY <2>1, <2>2
  <1>3. CASE i = Len(q) + 1
    <2>1. r[i] = e /\ i = Len(r)
      BY <1>1, <1>3
    <2> QED
      BY <2>1
  <1> QED
    BY <1>1, <1>2, <1>3

LEMMA TailChunks ==
  ASSUME NEW q \in Seq(ChunkType), NEW over \in BOOLEAN, q # <<>>,
         Closing(q, over), EndsAreEmpty(q)
  PROVE  /\ Closing(Tail(q), over) /\ EndsAreEmpty(Tail(q))
         /\ Head(q).end => over /\ Tail(q) = <<>> /\ Head(q).n = 0
         /\ ~Head(q).end /\ over => Tail(q) # <<>>
  <1> DEFINE r == Tail(q)
  <1>1. /\ Len(q) \in Nat /\ Len(q) >= 1 /\ Len(r) = Len(q) - 1
        /\ r \in Seq(ChunkType) /\ Head(q) = q[1] /\ 1 \in 1..Len(q)
    BY TailOfSeq
  <1>2. \A i \in 1..Len(r) : i + 1 \in 1..Len(q) /\ r[i] = q[i + 1]
    BY <1>1, TailOfSeq
  <1> HIDE DEF r
  <1>3. (r = <<>> => Len(q) = 1) /\ (Len(q) = 1 => r = <<>>)
    BY <1>1
  <1>4. q[1].end <=> (Len(q) = 1 /\ over)
    BY <1>1 DEF Closing
  <1>5. q[1].end => q[1].n = 0
    BY <1>1 DEF EndsAreEmpty
  <1>6. Closing(r, over)
    <2> SUFFICES ASSUME NEW i \in 1..Len(r)
                 PROVE  r[i].end <=> (i = Len(r) /\ over)
      BY DEF Closing
    <2>1. r[i] = q[i + 1] /\ i + 1 \in 1..Len(q)
      BY <1>2
    <2>2. q[i + 1].end <=> (i + 1 = Len(q) /\ over)
      BY <2>1 DEF Closing
    <2>3. i + 1 = Len(q) <=> i = Len(r)
      BY <1>1
    <2> QED
      BY <2>1, <2>2, <2>3
  <1>7. EndsAreEmpty(r)
    BY <1>2 DEF EndsAreEmpty
  <1>8. q[1].end => over /\ r = <<>> /\ q[1].n = 0
    BY <1>3, <1>4, <1>5
  <1>9. ~q[1].end /\ over => r # <<>>
    BY <1>3, <1>4
  <1> QED
    BY <1>1, <1>6, <1>7, <1>8, <1>9 DEF r

(* What the invariant says of the queue of a generation, in these terms.   *)
LEMMA QueueFacts ==
  ASSUME IInv, NEW g \in Generations
  PROVE  /\ audio[g] \in Seq(ChunkType) /\ delivered[g] \in Nat
         /\ Runs(audio[g], delivered[g]) /\ Sorted(audio[g])
         /\ QueueEnd(g) = EndOf(audio[g], delivered[g]) /\ QueueEnd(g) \in Nat
         /\ Closing(audio[g], g \in retired) /\ EndsAreEmpty(audio[g])
  <1>1. audio[g] \in Seq(ChunkType) /\ delivered[g] \in Nat
    BY DEF IInv, TypeOK, JobTypes
  <1>2. Runs(audio[g], delivered[g])
    BY DEF IInv, AudioClock, Gapless, Runs
  <1>3. Sorted(audio[g]) /\ EndsAreEmpty(audio[g])
    BY DEF IInv, Clocks, Ordered, Sorted, EndsAreEmpty
  <1>4. QueueEnd(g) = EndOf(audio[g], delivered[g])
    BY DEF QueueEnd, EndOf
  <1>5. Closing(audio[g], g \in retired)
    BY DEF IInv, EndOwed, Closing
  <1> QED
    BY <1>1, <1>2, <1>3, <1>4, <1>5, EndOfType

(* And what must be shown of every generation after a step.                *)
QueueOK(g) ==
    /\ Runs(audio[g], delivered[g]) /\ Sorted(audio[g])
    /\ queued[g] = EndOf(audio[g], delivered[g]) - delivered[g]
    /\ g \notin fenced /\ ~Losing(g) =>
          generated[g] = EndOf(audio[g], delivered[g]) + InHand(g)
    /\ delivered[g] + queued[g] <= generated[g] /\ rendered[g] <= delivered[g]
    /\ EndsAreEmpty(audio[g])
EndOK(g) ==
    /\ Closing(audio[g], g \in retired)
    /\ g \in endTaken => g \in retired /\ audio[g] = <<>>
    /\ g \in retired /\ g \notin endTaken /\ ~stopping => audio[g] # <<>>

LEMMA QueueOKIsEnough ==
  ASSUME \A g \in Generations : QueueOK(g)'
  PROVE  AudioClock' /\ Clocks'
  <1>1. AudioClock'
    BY DEF QueueOK, AudioClock, Gapless, Runs, QueueEnd, EndOf, NothingMissing
  <1>2. Clocks'
    BY DEF QueueOK, Clocks, Ordered, Sorted, EndsAreEmpty
  <1> QED
    BY <1>1, <1>2

LEMMA QueueOKHolds ==
  ASSUME IInv, NEW g \in Generations
  PROVE  QueueOK(g) /\ EndOK(g)
  <1>1. QueueOK(g)
    BY QueueFacts DEF IInv, AudioClock, NothingMissing, Clocks, QueueOK
  <1>2. EndOK(g)
    BY QueueFacts DEF IInv, EndOwed, EndOK
  <1> QED
    BY <1>1, <1>2

LEMMA EndOKIsEnough ==
  ASSUME \A g \in Generations : EndOK(g)'
  PROVE  EndOwed'
  BY DEF EndOK, EndOwed, Closing

----------------------------------------------------------------------------
(* The initial state.                                                      *)

LEMMA InitTypes == Init => TypeOK
  <1> SUFFICES ASSUME Init PROVE TypeOK
    OBVIOUS
  <1> USE DEF Init, None
  <1>1. JobTypes
    BY DEF JobTypes
  <1>2. SessionTypes
    <2>1. events \in Seq(EventType)
      OBVIOUS
    <2>2. synth \in Places /\ error \in Reasons /\ why \in Reasons
      BY DEF Places, Reasons
    <2>3. /\ input \in {"none", "open", "cutoff", "done"}
          /\ control \in {"listening", "failing", "done"}
      BY HearingAssumption
    <2>4. /\ current \in Generations \cup {None}
          /\ running \in Generations \cup {None}
          /\ lastGeneration \in Nat /\ queuedOutput \in Int
          /\ chunk \in Nat /\ samples \in Nat /\ cancelThrough \in Nat
          /\ cancelCalls \subseteq Generations /\ barge \subseteq Generations
          /\ speakerJobs \in Nat
      OBVIOUS
    <2> QED
      BY <2>1, <2>2, <2>3, <2>4 DEF SessionTypes
  <1>3. FlagTypes
    BY DEF FlagTypes
  <1> QED
    BY <1>1, <1>2, <1>3 DEF TypeOK

LEMMA InitIInv == Init => IInv
  <1> SUFFICES ASSUME Init PROVE IInv
    OBVIOUS
  <1>1. TypeOK
    BY InitTypes
  <1> USE GenerationsAssumption DEF Init, None
  <1>2. AudioClock
    BY DEF AudioClock, Gapless, NothingMissing, QueueEnd, InHand, Losing
  <1>3. Clocks /\ EndOwed /\ CancelledIsFenced /\ FencedIsSilent
    BY DEF Clocks, EndOwed, CancelledIsFenced, FencedIsSilent, Ordered
  <1>4. Fresh /\ Gone
    BY DEF Fresh, Gone, Untouched
  <1>5. ThreadOwnsReply /\ RetiredIsWhole /\ ReceiptIsHonest /\ StoppedIsEmpty
    BY DEF ThreadOwnsReply, RetiredIsWhole, ReceiptIsHonest, StoppedIsEmpty, Busy
  <1> QED
    BY <1>1, <1>2, <1>3, <1>4, <1>5 DEF IInv

----------------------------------------------------------------------------
(* Steps that leave every job alone.                                       *)

JobsSame == UNCHANGED <<jobVars, current, lastGeneration>>
ThreadSame == UNCHANGED <<running, synth, chunk>>

(* What CloseReady says of the jobs: nothing is left to give or to fence.  *)
LEMMA ReadyIsEmpty ==
  ASSUME JobTypes, EndOwed, Gone, CloseReady
  PROVE  /\ \A g \in Generations : audio[g] = <<>>
         /\ known \subseteq fenced \cup receipts
  BY DEF JobTypes, EndOwed, Gone, CloseReady, Resolved

LEMMA QuietStep ==
  ASSUME IInv, TypeOK', JobsSame, ThreadSame, UNCHANGED stopping \/ MaybeClose
  PROVE  IInv'
  <1> USE DEF IInv, JobsSame, ThreadSame, jobVars, clocks, marks
  <1>1. AudioClock' /\ Clocks'
    BY DEF AudioClock, Gapless, NothingMissing, QueueEnd, InHand, Losing,
           Clocks, Ordered
  <1>2. CancelledIsFenced' /\ FencedIsSilent' /\ ReceiptIsHonest'
    BY DEF CancelledIsFenced, FencedIsSilent, ReceiptIsHonest
  <1>3. Fresh' /\ Gone'
    BY DEF Fresh, Gone, Untouched, Resolved
  <1>4. stopping => stopping'
    BY DEF MaybeClose
  <1>5. EndOwed' /\ ThreadOwnsReply' /\ RetiredIsWhole'
    BY <1>4 DEF EndOwed, ThreadOwnsReply, RetiredIsWhole, Abandoned
  <1>6. StoppedIsEmpty'
    <2>1. CASE stopping' = stopping
      BY <2>1 DEF StoppedIsEmpty
    <2>2. CASE CloseReady'
      BY <2>2, <1>3, <1>5 DEF StoppedIsEmpty, TypeOK, JobTypes, EndOwed, Gone,
           CloseReady, Resolved
    <2> QED
      BY <2>1, <2>2 DEF MaybeClose, TypeOK, FlagTypes
  <1> QED
    BY <1>1, <1>2, <1>3, <1>5, <1>6

(* The synthesis thread moves on without touching a job.  A chunk in hand  *)
(* is given up only by failing.                                            *)
LEMMA ThreadStep ==
  ASSUME IInv, TypeOK', JobsSame, UNCHANGED stopping, ThreadOwnsReply',
         synth # "failing", synth' # "space",
         synth = "space" => synth' = "failing" /\ UNCHANGED running
  PROVE  IInv'
  <1> USE DEF IInv, JobsSame, jobVars, clocks, marks
  <1>1. AudioClock'
    <2> SUFFICES ASSUME NEW g \in Generations
                 PROVE  (/\ Gapless(g)
                         /\ queued[g] = QueueEnd(g) - delivered[g]
                         /\ NothingMissing(g))'
      BY DEF AudioClock
    <2>1. QueueEnd(g)' = QueueEnd(g)
      BY DEF QueueEnd
    <2>2. ASSUME ~Losing(g)' PROVE InHand(g)' = 0 /\ InHand(g) = 0
      BY <2>2 DEF InHand, Losing
    <2>3. ~Losing(g)
      BY DEF Losing
    <2> QED
      BY <2>1, <2>2, <2>3 DEF AudioClock, Gapless, NothingMissing
  <1>2. Clocks' /\ EndOwed' /\ CancelledIsFenced' /\ FencedIsSilent'
    BY DEF Clocks, Ordered, EndOwed, CancelledIsFenced, FencedIsSilent
  <1>3. Fresh' /\ Gone' /\ RetiredIsWhole' /\ ReceiptIsHonest' /\ StoppedIsEmpty'
    BY DEF Fresh, Gone, Untouched, Resolved, RetiredIsWhole, ReceiptIsHonest,
           StoppedIsEmpty
  <1> QED
    BY <1>1, <1>2, <1>3

----------------------------------------------------------------------------
(* Steps that fence.                                                       *)

(* Everything is fenced and the session stops: a fault, the model watch or *)
(* an abort.                                                               *)
LEMMA FenceAllStep ==
  ASSUME IInv, TypeOK', FenceAll,
         UNCHANGED <<known, generated, delivered, rendered, unspoken,
                     cancelled, retired, endTaken, receipts, halted, current,
                     running, lastGeneration>>,
         UNCHANGED <<synth, chunk>> \/ synth' = "exited"
  PROVE  IInv'
  <1> USE DEF IInv, FenceAll
  <1>1. Fresh' /\ Gone'
    BY DEF Fresh, Gone, Untouched, Resolved
  <1>2. AudioClock'
    <2> SUFFICES ASSUME NEW g \in Generations
                 PROVE  (/\ Gapless(g)
                         /\ queued[g] = QueueEnd(g) - delivered[g]
                         /\ NothingMissing(g))'
      BY DEF AudioClock
    <2>1. audio'[g] = <<>> /\ queued'[g] = 0 /\ delivered[g] \in Nat
      BY DEF TypeOK, JobTypes
    <2>2. QueueEnd(g)' = delivered[g]
      BY <2>1 DEF QueueEnd
    <2>3. ASSUME g \notin fenced' PROVE generated[g] = delivered[g]
      BY <2>3 DEF Gone, Untouched, Resolved, ReceiptIsHonest
    <2>4. ASSUME g \notin fenced' PROVE InHand(g)' = 0
      BY <2>4 DEF InHand, ThreadOwnsReply, Busy
    <2> QED
      BY <2>1, <2>2, <2>3, <2>4 DEF Gapless, NothingMissing
  <1>3. Clocks'
    BY DEF Clocks, Ordered, TypeOK, JobTypes
  <1>4. EndOwed' /\ CancelledIsFenced' /\ FencedIsSilent'
    BY DEF EndOwed, CancelledIsFenced, FencedIsSilent, TypeOK, JobTypes
  <1>5. ThreadOwnsReply'
    BY DEF ThreadOwnsReply, Abandoned, Busy
  <1>6. RetiredIsWhole' /\ ReceiptIsHonest' /\ StoppedIsEmpty'
    BY DEF RetiredIsWhole, ReceiptIsHonest, StoppedIsEmpty
  <1> QED
    BY <1>1, <1>2, <1>3, <1>4, <1>5, <1>6

(* One generation is fenced, cancelled or both: a host's or a barge-in's   *)
(* interrupt, whether or not its event finds room.                         *)
LEMMA InterruptStep ==
  ASSUME IInv, TypeOK', NEW g \in known, NEW cancel \in BOOLEAN,
         InterruptLocked(g, cancel) \/ InterruptOverflow(g),
         UNCHANGED <<known, generated, delivered, rendered, unspoken, retired,
                     endTaken, receipts, halted, current, running,
                     lastGeneration, stopping, synth, chunk>>
  PROVE  IInv'
  <1> USE DEF IInv
  <1>1. /\ g \in Generations /\ delivered[g] \in Nat /\ queued[g] \in Nat
        /\ generated[g] \in Nat /\ audio[g] \in Seq(ChunkType)
    BY DEF TypeOK, JobTypes
  <1>2. cancelled' \subseteq cancelled \cup {g} /\ fenced \subseteq fenced'
    BY DEF InterruptLocked, InterruptOverflow, Fence
  <1>3. fenced' \subseteq fenced \cup {g}
    BY DEF InterruptLocked, InterruptOverflow, Fence
  <1>4. cancelled \subseteq cancelled'
    BY DEF InterruptLocked, InterruptOverflow
  <1>5. CancelledIsFenced'
    <2>1. CASE g \in fenced'
      BY <1>2, <2>1 DEF CancelledIsFenced
    <2>2. CASE g \notin fenced'
      <3>1. InterruptLocked(g, cancel) /\ ~Fenceable(g) /\ g \notin fenced
        BY <2>2 DEF InterruptLocked, InterruptOverflow, Fence, Fenceable
      <3>2. g \in retired
        BY <3>1, <1>1 DEF Fenceable, ReceiptIsHonest, EndOwed
      <3>3. cancelled' = cancelled
        BY <3>1, <3>2 DEF InterruptLocked
      <3> QED
        BY <1>2, <3>3 DEF CancelledIsFenced
    <2> QED
      BY <2>1, <2>2
  <1>6. CASE UNCHANGED <<fenced, queued, audio>>
    <2>1. AudioClock' /\ Clocks' /\ FencedIsSilent'
      BY <1>6 DEF AudioClock, Gapless, NothingMissing, QueueEnd, InHand, Losing,
           Clocks, Ordered, FencedIsSilent
    <2>2. EndOwed' /\ ReceiptIsHonest' /\ StoppedIsEmpty'
      BY <1>6 DEF EndOwed, ReceiptIsHonest, StoppedIsEmpty
    <2>3. Fresh' /\ Gone' /\ RetiredIsWhole' /\ ThreadOwnsReply'
      BY <1>6, <1>2, <1>4 DEF Fresh, Gone, Untouched, Resolved, RetiredIsWhole,
           ThreadOwnsReply, Abandoned, Busy, TypeOK, JobTypes
    <2> QED
      BY <1>5, <2>1, <2>2, <2>3
  <1>7. CASE Fenceable(g) /\ Fence(g)
    <2> DEFINE end == IF g \in retired /\ g \notin endTaken
                        THEN <<End(delivered[g])>> ELSE <<>>
    <2>1. /\ fenced' = fenced \cup {g}
          /\ queued' = [queued EXCEPT ![g] = 0]
          /\ audio' = [audio EXCEPT ![g] = end]
      BY <1>7 DEF Fence
    <2>2. /\ audio'[g] = end /\ queued'[g] = 0
          /\ \A h \in Generations \ {g} :
                audio'[h] = audio[h] /\ queued'[h] = queued[h]
      BY <1>1, <2>1 DEF TypeOK, JobTypes
    <2>3. ~stopping
      BY <1>7 DEF StoppedIsEmpty, Fenceable
    <2>4. /\ Len(end) \in {0, 1}
          /\ \A i \in 1..Len(end) :
                /\ i = 1 /\ Len(end) = 1 /\ end # <<>> /\ g \in retired
                /\ end[i].start = delivered[g] /\ end[i].n = 0 /\ end[i].end
      BY DEF End
    <2>5. AudioClock'
      <3> SUFFICES ASSUME NEW h \in Generations
                   PROVE  (/\ Gapless(h)
                           /\ queued[h] = QueueEnd(h) - delivered[h]
                           /\ NothingMissing(h))'
        BY DEF AudioClock
      <3>1. CASE h = g
        BY <3>1, <1>1, <2>1, <2>2, <2>4 DEF Gapless, QueueEnd, NothingMissing
      <3>2. CASE h # g
        BY <3>2, <2>1, <2>2 DEF AudioClock, Gapless, QueueEnd, NothingMissing,
             InHand, Losing
      <3> QED
        BY <3>1, <3>2
    <2>6. Clocks'
      <3> SUFFICES ASSUME NEW h \in Generations
                   PROVE  (/\ Ordered(h)
                           /\ delivered[h] + queued[h] <= generated[h]
                           /\ rendered[h] <= delivered[h]
                           /\ \A i \in 1..Len(audio[h]) :
                                 audio[h][i].end => audio[h][i].n = 0)'
        BY DEF Clocks
      <3>1. CASE h = g
        BY <3>1, <1>1, <2>2, <2>4 DEF Clocks, Ordered
      <3>2. CASE h # g
        BY <3>2, <2>2 DEF Clocks, Ordered
      <3> QED
        BY <3>1, <3>2
    <2>7. EndOwed'
      <3> SUFFICES ASSUME NEW h \in Generations
                   PROVE  (/\ \A i \in 1..Len(audio[h]) : audio[h][i].end <=>
                                i = Len(audio[h]) /\ h \in retired
                           /\ h \in endTaken => h \in retired /\ audio[h] = <<>>
                           /\ h \in retired /\ h \notin endTaken /\ ~stopping =>
                                audio[h] # <<>>)'
        BY DEF EndOwed
      <3>1. CASE h = g
        <4>1. audio'[h] = end
          BY <3>1, <2>2
        <4>2. h \in endTaken => h \in retired
          BY DEF EndOwed
        <4>3. h \in retired /\ h \notin endTaken => end # <<>>
          BY <3>1
        <4>4. h \in endTaken => end = <<>>
          BY <3>1
        <4> QED
          BY <3>1, <4>1, <4>2, <4>3, <4>4, <2>4
      <3>2. CASE h # g
        BY <3>2, <2>2 DEF EndOwed
      <3> QED
        BY <3>1, <3>2
    <2>8. FencedIsSilent'
      BY <1>1, <2>1, <2>2, <2>4 DEF FencedIsSilent, TypeOK, JobTypes
    <2>9. Fresh' /\ Gone' /\ ReceiptIsHonest' /\ StoppedIsEmpty'
      BY <1>1, <1>2, <2>1, <2>2, <2>3, <1>7 DEF Fresh, Gone, Untouched, Resolved,
           ReceiptIsHonest, StoppedIsEmpty, TypeOK, JobTypes
    <2>10. RetiredIsWhole' /\ ThreadOwnsReply'
      BY <1>2, <1>4 DEF RetiredIsWhole, ThreadOwnsReply, Abandoned
    <2> QED
      BY <1>5, <2>5, <2>6, <2>7, <2>8, <2>9, <2>10
  <1> QED
    BY <1>6, <1>7 DEF InterruptLocked, InterruptOverflow

----------------------------------------------------------------------------
(* Steps that retire a generation or admit one.                            *)

(* The queue retire_locked leaves: the old one, then END where it ended.   *)
LEMMA RetiredQueue ==
  ASSUME IInv, NEW g \in known \ retired, InHand(g) = 0, ~Losing(g)
  PROVE  /\ RetiredAudio(g) = Append(audio[g], End(QueueEnd(g)))
         /\ End(QueueEnd(g)) \in ChunkType
         /\ g \in fenced => audio[g] = <<>>
  <1>1. g \in Generations
    BY DEF IInv, TypeOK, JobTypes
  <1>2. audio[g] \in Seq(ChunkType) /\ QueueEnd(g) \in Nat
    BY <1>1, QueueFacts
  <1>3. \A i \in 1..Len(audio[g]) : ~audio[g][i].end
    BY <1>1 DEF IInv, EndOwed
  <1>4. ASSUME g \in fenced PROVE audio[g] = <<>>
    <2>1. ~(1 \in 1..Len(audio[g]))
      BY <1>3, <1>4 DEF IInv, FencedIsSilent
    <2> QED
      BY <1>2, <2>1
  <1>5. (IF g \in fenced THEN delivered[g] ELSE generated[g]) = QueueEnd(g)
    <2>1. CASE g \in fenced
      BY <2>1, <1>4 DEF QueueEnd
    <2>2. CASE g \notin fenced
      <3>1. generated[g] = QueueEnd(g) + 0
        BY <2>2, <1>1 DEF IInv, AudioClock, NothingMissing
      <3> QED
        BY <2>2, <3>1, <1>2
    <2> QED
      BY <2>1, <2>2
  <1>6. RetiredAudio(g) = Append(audio[g], End(QueueEnd(g)))
    BY <1>5 DEF RetiredAudio
  <1>7. End(QueueEnd(g)) \in ChunkType
    BY <1>2 DEF End, ChunkType
  <1> QED
    BY <1>4, <1>6, <1>7

LEMMA RetireStep ==
  ASSUME IInv, TypeOK', Fresh', ThreadOwnsReply',
         NEW S \in SUBSET (known \ retired), NEW N \in SUBSET Generations,
         \A h \in S : /\ InHand(h) = 0 /\ ~Losing(h)
                      /\ h \in cancelled \/ unspoken[h] = 0,
         \A n \in N : n > lastGeneration,
         ~stopping, UNCHANGED stopping \/ MaybeClose,
         known' = known \cup N, retired' = retired \cup S,
         \A h \in Generations :
            /\ audio'[h] = IF h \in S THEN RetiredAudio(h) ELSE audio[h]
            /\ h \notin N => unspoken'[h] = unspoken[h]
            /\ ~Losing(h)' => ~Losing(h) /\ InHand(h)' = InHand(h),
         UNCHANGED <<generated, delivered, rendered, queued, fenced, cancelled,
                     endTaken, receipts, halted>>
  PROVE  IInv'
  <1> USE DEF IInv
  <1>1. /\ S \subseteq known /\ S \cap retired = {} /\ known \subseteq Generations
        /\ S \cap endTaken = {} /\ S \subseteq Generations
    BY DEF TypeOK, JobTypes, EndOwed
  <1>2. N \cap (known \cup retired \cup endTaken \cup receipts) = {}
    BY DEF Fresh, Untouched
  <1>3. ASSUME NEW h \in Generations, h \in S
        PROVE  QueueOK(h)' /\ EndOK(h)' /\ (h \in fenced => Len(audio'[h]) = 1)
    <2> DEFINE q == audio[h]
               d == delivered[h]
               e == End(QueueEnd(h))
    <2>1. h \in known \ retired /\ InHand(h) = 0 /\ ~Losing(h)
      BY <1>1, <1>3
    <2>2. audio'[h] = Append(q, e) /\ e \in ChunkType /\ (h \in fenced => q = <<>>)
      BY <1>3, <2>1, RetiredQueue
    <2>3. e.start = EndOf(q, d) /\ e.n = 0 /\ e.end = TRUE
      BY QueueFacts DEF End
    <2>4. QueueOK(h) /\ Closing(q, FALSE) /\ q \in Seq(ChunkType) /\ d \in Nat
      BY <2>1, QueueOKHolds, QueueFacts DEF Closing
    <2> HIDE DEF e
    <2>5. /\ Runs(audio'[h], d) /\ Sorted(audio'[h])
          /\ EndOf(audio'[h], d) = e.start + e.n
      BY <2>2, <2>3, <2>4, AppendToQueue DEF QueueOK
    <2>6. EndOf(audio'[h], d) = EndOf(q, d)
      BY <2>3, <2>4, <2>5, EndOfType
    <2>7. Closing(audio'[h], TRUE) /\ EndsAreEmpty(audio'[h])
      BY <2>2, <2>3, <2>4, AppendChunk DEF QueueOK
    <2>8. QueueOK(h)'
      BY <2>4, <2>5, <2>6, <2>7 DEF QueueOK
    <2>9. audio'[h] # <<>> /\ (h \in fenced => Len(audio'[h]) = 1)
      BY <2>2, <2>4, AppendToSeq
    <2>10. h \in retired' /\ h \notin endTaken'
      BY <1>1, <1>3
    <2>11. EndOK(h)'
      BY <2>7, <2>9, <2>10 DEF EndOK, Closing
    <2> QED
      BY <2>8, <2>9, <2>11
  <1>4. ASSUME NEW h \in Generations, h \notin S
        PROVE  QueueOK(h)' /\ EndOK(h)' /\ audio'[h] = audio[h]
    <2>1. QueueOK(h) /\ EndOK(h)
      BY QueueOKHolds
    <2>2. audio'[h] = audio[h] /\ (h \in retired' <=> h \in retired)
      BY <1>4
    <2>3. stopping => stopping'
      OBVIOUS
    <2>4. QueueOK(h)'
      BY <2>1, <2>2 DEF QueueOK
    <2>5. EndOK(h)'
      BY <2>1, <2>2 DEF EndOK, Closing
    <2> QED
      BY <2>2, <2>4, <2>5
  <1>5. AudioClock' /\ Clocks'
    <2>1. \A h \in Generations : QueueOK(h)'
      BY <1>3, <1>4
    <2> QED
      BY <2>1, QueueOKIsEnough
  <1>6. EndOwed'
    <2>1. \A h \in Generations : EndOK(h)'
      BY <1>3, <1>4
    <2> QED
      BY <2>1, EndOKIsEnough
  <1>7. FencedIsSilent'
    <2> SUFFICES ASSUME NEW h \in fenced
                 PROVE  \A i \in 1..Len(audio'[h]) : audio'[h][i].end
      BY DEF FencedIsSilent
    <2>1. h \in Generations
      BY DEF TypeOK, JobTypes
    <2>2. CASE h \in S
      <3>1. EndOK(h)' /\ Len(audio'[h]) = 1 /\ h \in retired'
        BY <2>1, <2>2, <1>3
      <3> QED
        BY <3>1 DEF EndOK, Closing
    <2>3. CASE h \notin S
      BY <2>1, <2>3, <1>4 DEF FencedIsSilent
    <2> QED
      BY <2>2, <2>3
  <1>8. CancelledIsFenced' /\ ReceiptIsHonest'
    BY <1>1, <1>2 DEF CancelledIsFenced, ReceiptIsHonest, TypeOK, JobTypes
  <1>9. Gone'
    BY <1>1, <1>2, <1>4 DEF Gone, Untouched, Resolved
  <1>10. RetiredIsWhole'
    BY <1>1, <1>2 DEF RetiredIsWhole, TypeOK, JobTypes
  <1>11. StoppedIsEmpty'
    <2>1. CASE stopping' = stopping
      BY <2>1 DEF StoppedIsEmpty
    <2>2. CASE CloseReady'
      BY <2>2, <1>6, <1>9 DEF StoppedIsEmpty, TypeOK, JobTypes, EndOwed, Gone,
         CloseReady, Resolved
    <2> QED
      BY <2>1, <2>2 DEF MaybeClose, TypeOK, FlagTypes
  <1> QED
    BY <1>5, <1>6, <1>7, <1>8, <1>9, <1>10, <1>11
----------------------------------------------------------------------------
(* Types.                                                                  *)

LEMMA ThreadTypes ==
  ASSUME TypeOK,
         \/ PickJob \/ SynthExit \/ NextSegment \/ StartSegment \/ CheckChunk
         \/ NextChunk \/ EndSegment \/ NextCancelled \/ Unwind
         \/ SynthesisFails \/ OutputDeadline
  PROVE  TypeOK'
  <1> USE DEF TypeOK, GoTo, Stay, Fail, Locals, SynthFrame
  <1>1. UNCHANGED jobVars
    BY DEF PickJob, SynthExit, NextSegment, StartSegment, CheckChunk,
       NextChunk, EndSegment, NextCancelled, Unwind, SynthesisFails,
       OutputDeadline
  <1>2. JobTypes'
    BY <1>1 DEF JobTypes, jobVars, clocks, marks
  <1>3. synth' \in Places
    BY DEF Places, PickJob, SynthExit, NextSegment, StartSegment, CheckChunk,
       NextChunk, EndSegment, NextCancelled, Unwind, SynthesisFails,
       OutputDeadline
  <1>a. chunk' \in Nat /\ samples' \in Nat
    <2>1. CASE NextChunk
      <3>1. PICK n \in 1..MaxChunk : chunk' = n /\ samples' = samples + n
        BY <2>1 DEF NextChunk
      <3> QED
        BY <3>1, MaxChunkAssumption DEF SessionTypes
    <2>2. CASE ~NextChunk
      <3>1. chunk' = 0 /\ samples' \in {0, samples}
        BY <2>2 DEF PickJob, SynthExit, NextSegment, StartSegment, CheckChunk,
           EndSegment, NextCancelled, Unwind, SynthesisFails, OutputDeadline
      <3> QED
        BY <3>1 DEF SessionTypes
    <2> QED
      BY <2>1, <2>2
  <1>b. why' \in Reasons
    BY DEF Reasons, PickJob, SynthExit, NextSegment, StartSegment, CheckChunk,
       NextChunk, EndSegment, NextCancelled, Unwind, SynthesisFails,
       OutputDeadline
  <1>4. /\ running' \in {running, current}
        /\ UNCHANGED <<current, lastGeneration, queuedOutput, events, error,
                       cancelThrough, cancelCalls, hearVars>>
    BY DEF sessVars, lifeVars, ttsVars,
       PickJob, SynthExit, NextSegment, StartSegment, CheckChunk,
       NextChunk, EndSegment, NextCancelled, Unwind, SynthesisFails,
       OutputDeadline
  <1>5. SessionTypes'
    BY <1>3, <1>4, <1>a, <1>b DEF SessionTypes, hearVars
  <1>6. /\ natural' \in BOOLEAN /\ streamCancelled' \in {FALSE, streamCancelled}
        /\ UNCHANGED <<stopping, closing, aborted, serving>>
    BY DEF lifeVars, ttsVars,
       PickJob, SynthExit, NextSegment, StartSegment, CheckChunk,
       NextChunk, EndSegment, NextCancelled, Unwind, SynthesisFails,
       OutputDeadline
  <1>7. FlagTypes'
    BY <1>6 DEF FlagTypes
  <1> QED
    BY <1>2, <1>5, <1>7

LEMMA EventIn ==
  ASSUME NEW g \in Generations \cup {None}
  PROVE  /\ Event("start", g) \in EventType /\ Event("end", g) \in EventType
         /\ Event("cancelled", g) \in EventType
         /\ Event("interruption", g) \in EventType
         /\ Event("heard", g) \in EventType
  BY DEF Event, EventType

(* The host's and the hearing threads' steps that leave every job alone.   *)
LEMMA QuietTypes ==
  ASSUME TypeOK,
         \/ TakeEvent \/ FinishInput \/ HearSpeech \/ CloseDrain
         \/ \E utterances \in {0, 1} : Hear(utterances)
         \/ SpeakerDone \/ InputDone \/ \E g \in Generations : DeliverCancel(g)
  PROVE  TypeOK'
  <1> USE DEF TypeOK
  <1>1. /\ UNCHANGED <<jobVars, synthVars, current, running, lastGeneration,
                       queuedOutput, error>>
        /\ UNCHANGED <<aborted, serving>>
    BY DEF sessVars, lifeVars, TakeEvent, FinishInput, HearSpeech, CloseDrain,
       Hear, SpeakerDone, InputDone, DeliverCancel
  <1>2. JobTypes'
    BY <1>1 DEF JobTypes, jobVars, clocks, marks
  <1>3. events' \in Seq(EventType)
    <2>1. \/ events' = events
          \/ events # <<>> /\ events' = Tail(events)
          \/ events' = Append(events, Event("heard", None))
      BY DEF sessVars, TakeEvent, FinishInput, HearSpeech, CloseDrain,
         Hear, SpeakerDone, InputDone, DeliverCancel
    <2>2. Event("heard", None) \in EventType
      BY EventIn
    <2>3. events \in Seq(EventType)
      BY DEF SessionTypes
    <2> QED
      BY <2>1, <2>2, <2>3
  <1>4. /\ input' \in {input, "cutoff", "done"}
        /\ control' \in {control, "done"}
        /\ barge' \in {barge} \cup SUBSET known
    BY DEF hearVars, TakeEvent, FinishInput, HearSpeech, CloseDrain,
       Hear, SpeakerDone, InputDone, DeliverCancel
  <1>5. speakerJobs' \in Nat
    BY DEF SessionTypes, hearVars, TakeEvent, FinishInput, HearSpeech,
       CloseDrain, Hear, SpeakerDone, InputDone, DeliverCancel
  <1>6. cancelThrough' \in Nat /\ cancelCalls' \subseteq cancelCalls
    BY GenerationsAssumption DEF SessionTypes, Max2, ttsVars, TakeEvent,
       FinishInput, HearSpeech, CloseDrain, Hear, SpeakerDone, InputDone,
       DeliverCancel
  <1>7. SessionTypes'
    BY <1>1, <1>3, <1>4, <1>5, <1>6 DEF SessionTypes, JobTypes, synthVars
  <1>8. stopping' \in BOOLEAN
    BY DEF MaybeClose, FlagTypes, lifeVars, TakeEvent, FinishInput, HearSpeech,
       CloseDrain, Hear, SpeakerDone, InputDone, DeliverCancel
  <1>9. closing' \in BOOLEAN /\ streamCancelled' \in BOOLEAN
    BY DEF FlagTypes, lifeVars, ttsVars, TakeEvent, FinishInput, HearSpeech,
       CloseDrain, Hear, SpeakerDone, InputDone, DeliverCancel
  <1>10. FlagTypes'
    BY <1>1, <1>8, <1>9 DEF FlagTypes, synthVars
  <1> QED
    BY <1>2, <1>7, <1>10

(* Faults, the model watch and an abort.                                   *)
LEMMA FenceAllTypes ==
  ASSUME TypeOK,
         \/ SynthFault \/ ControlFault \/ HearingFault \/ ModelDeadline
         \/ CloseAbort
  PROVE  TypeOK'
  <1> USE DEF TypeOK, Fault, FaultFrame
  <1>1. /\ FenceAll /\ CancelModels
        /\ UNCHANGED <<known, generated, delivered, rendered, unspoken,
                       cancelled, retired, endTaken, receipts, halted, current,
                       running, lastGeneration, events, cancelThrough, input,
                       barge, speakerJobs>>
    BY DEF SynthFault, ControlFault, HearingFault, ModelDeadline, CloseAbort,
       hearVars
  <1>2. JobTypes'
    BY <1>1 DEF JobTypes, FenceAll
  <1>3. error' \in {error, "failed", why}
    BY DEF SynthFault, ControlFault, HearingFault, ModelDeadline, CloseAbort
  <1>4. control' \in {control, "done"}
    BY DEF SynthFault, ControlFault, HearingFault, ModelDeadline, CloseAbort,
       hearVars
  <1>5. /\ synth' \in {synth, "exited"} /\ chunk' \in {chunk, 0}
        /\ samples' \in {samples, 0} /\ why' \in {why, "none"}
    BY DEF SynthFault, ControlFault, HearingFault, ModelDeadline, CloseAbort,
       GoTo, Locals, synthVars
  <1>a. queuedOutput' = 0 /\ cancelCalls' \subseteq Generations
    BY <1>1 DEF FenceAll, CancelModels, SessionTypes
  <1>b. why' \in Reasons /\ error' \in Reasons /\ synth' \in Places
    BY <1>3, <1>5 DEF SessionTypes, Places, Reasons
  <1>c. SessionTypes'
    BY <1>1, <1>4, <1>5, <1>a, <1>b DEF SessionTypes
  <1>6. FlagTypes'
    BY DEF FlagTypes, FenceAll, lifeVars, synthVars, ttsVars, GoTo, Locals,
       SynthFault, ControlFault, HearingFault, ModelDeadline, CloseAbort
  <1> QED
    BY <1>2, <1>6, <1>c

(* One generation is fenced or cancelled.                                  *)
LEMMA InterruptTypes ==
  ASSUME TypeOK, NEW g \in known, NEW cancel \in BOOLEAN,
         InterruptLocked(g, cancel) \/ InterruptOverflow(g), InterruptFrame,
         barge' \subseteq barge, control' \in {control, "failing"},
         serving' \in {serving, FALSE}
  PROVE  TypeOK'
  <1> USE DEF TypeOK, InterruptFrame
  <1>1. g \in Generations /\ delivered[g] \in Nat
    BY DEF JobTypes
  <1>2. fenced' \subseteq Generations /\ cancelled' \subseteq Generations
    BY <1>1 DEF JobTypes, InterruptLocked, InterruptOverflow, Fence
  <1>3. queued' \in [Generations -> Nat]
    BY <1>1 DEF JobTypes, InterruptLocked, InterruptOverflow, Fence
  <1>4. audio' \in [Generations -> Seq(ChunkType)]
    <2>1. End(delivered[g]) \in ChunkType
      BY <1>1 DEF End, ChunkType
    <2>2. <<End(delivered[g])>> \in Seq(ChunkType) /\ <<>> \in Seq(ChunkType)
      BY <2>1
    <2>3. audio' = audio \/ \E q \in Seq(ChunkType) : audio' = [audio EXCEPT ![g] = q]
      BY <2>2 DEF InterruptLocked, InterruptOverflow, Fence
    <2> QED
      BY <1>1, <2>3 DEF JobTypes
  <1>5. JobTypes'
    BY <1>2, <1>3, <1>4 DEF JobTypes
  <1>6. events' \in Seq(EventType)
    BY <1>1, EventIn DEF SessionTypes, InterruptLocked, InterruptOverflow
  <1>7. queuedOutput' \in Int
    BY <1>1 DEF SessionTypes, JobTypes, InterruptLocked, InterruptOverflow, Fence
  <1>8. cancelCalls' \subseteq Generations
    BY <1>1 DEF SessionTypes, InterruptLocked, InterruptOverflow
  <1>9. SessionTypes'
    BY <1>6, <1>7, <1>8 DEF SessionTypes, synthVars, lifeVars
  <1>10. FlagTypes'
    BY DEF FlagTypes, synthVars, lifeVars
  <1> QED
    BY <1>5, <1>9, <1>10


----------------------------------------------------------------------------
(* The actions, grouped by the step they take.                             *)

LEMMA ThreadActions ==
  ASSUME IInv,
         \/ PickJob \/ SynthExit \/ NextSegment \/ StartSegment \/ CheckChunk
         \/ NextChunk \/ EndSegment \/ NextCancelled \/ Unwind
         \/ SynthesisFails \/ OutputDeadline
  PROVE  IInv'
  <1>1. TypeOK'
    BY ThreadTypes DEF IInv
  <1> USE DEF GoTo, Stay, Fail, SynthFrame, sessVars, lifeVars
  <1>2. JobsSame /\ UNCHANGED stopping
    BY DEF JobsSame, PickJob, SynthExit, NextSegment, StartSegment, CheckChunk,
       NextChunk, EndSegment, NextCancelled, Unwind, SynthesisFails,
       OutputDeadline
  <1>3. synth # "failing" /\ synth' # "space"
    BY DEF PickJob, SynthExit, NextSegment, StartSegment, CheckChunk,
       NextChunk, EndSegment, NextCancelled, Unwind, SynthesisFails,
       OutputDeadline
  <1>4. synth = "space" => synth' = "failing" /\ UNCHANGED running
    BY DEF PickJob, SynthExit, NextSegment, StartSegment, CheckChunk,
       NextChunk, EndSegment, NextCancelled, Unwind, SynthesisFails,
       OutputDeadline
  <1>5. ThreadOwnsReply'
    <2>1. CASE PickJob
      <3>1. current \in known \ retired
        BY <2>1 DEF PickJob, IInv, Fresh
      <3>2. synth' = "segment" /\ running' = current
        BY <2>1 DEF PickJob
      <3>3. UNCHANGED <<known, retired>>
        BY <1>2 DEF JobsSame, jobVars, marks
      <3> QED
        BY <3>1, <3>2, <3>3 DEF ThreadOwnsReply, Busy
    <2>2. CASE ~PickJob
      <3>1. UNCHANGED running /\ UNCHANGED <<known, retired, cancelled, unspoken>>
        BY <2>2, <1>2 DEF JobsSame, jobVars, clocks, marks, SynthExit,
           NextSegment, StartSegment, CheckChunk, NextChunk, EndSegment,
           NextCancelled, Unwind, SynthesisFails, OutputDeadline
      <3>2. CASE NextSegment
        <4>1. running \in known \ retired /\ unspoken[running] \in Nat
          BY <3>2 DEF NextSegment, IInv, ThreadOwnsReply, Busy, TypeOK, JobTypes
        <4>2. \/ synth' = "retire" /\ (Abandoned \/ unspoken[running] = 0)
              \/ synth' = "start" /\ unspoken[running] # 0
          BY <3>2 DEF NextSegment
        <4> QED
          BY <3>1, <4>1, <4>2, <1>2 DEF ThreadOwnsReply, Busy, Abandoned
      <3>3. CASE Unwind
        <4>1. running \in known \ retired
          BY <3>3 DEF Unwind, IInv, ThreadOwnsReply, Busy
        <4>2. (synth' = "retire" /\ Abandoned) \/ synth' = "failing"
          BY <3>3 DEF Unwind
        <4> QED
          BY <3>1, <4>1, <4>2, <1>2 DEF ThreadOwnsReply, Busy, Abandoned
      <3>4. CASE StartSegment \/ CheckChunk \/ NextChunk \/ EndSegment
                 \/ NextCancelled
        BY <3>1, <3>4 DEF StartSegment, CheckChunk, NextChunk, EndSegment,
           NextCancelled, IInv, ThreadOwnsReply, Busy
      <3>5. CASE SynthExit \/ SynthesisFails \/ OutputDeadline
        BY <3>1, <3>5 DEF SynthExit, SynthesisFails, OutputDeadline,
           ThreadOwnsReply, Busy
      <3> QED
        BY <2>2, <3>2, <3>3, <3>4, <3>5
    <2> QED
      BY <2>1, <2>2
  <1> QED
    BY <1>1, <1>2, <1>3, <1>4, <1>5, ThreadStep

LEMMA QuietActions ==
  ASSUME IInv,
         \/ TakeEvent \/ FinishInput \/ HearSpeech \/ CloseDrain
         \/ \E utterances \in {0, 1} : Hear(utterances)
         \/ SpeakerDone \/ InputDone \/ \E g \in Generations : DeliverCancel(g)
  PROVE  IInv'
  <1>1. TypeOK'
    BY QuietTypes DEF IInv
  <1>2. JobsSame /\ ThreadSame
    BY DEF JobsSame, ThreadSame, sessVars, synthVars, TakeEvent, FinishInput,
       HearSpeech, CloseDrain, Hear, SpeakerDone, InputDone, DeliverCancel
  <1>3. UNCHANGED stopping \/ MaybeClose
    BY DEF lifeVars, TakeEvent, FinishInput, HearSpeech, CloseDrain, Hear,
       SpeakerDone, InputDone, DeliverCancel
  <1> QED
    BY <1>1, <1>2, <1>3, QuietStep

LEMMA Stutter ==
  ASSUME IInv, UNCHANGED vars
  PROVE  IInv'
  <1> USE DEF vars
  <1>1. JobTypes'
    BY DEF IInv, TypeOK, JobTypes, jobVars, clocks, marks
  <1>2. SessionTypes'
    BY DEF IInv, TypeOK, SessionTypes, sessVars, lifeVars, synthVars, ttsVars,
       hearVars
  <1>3. FlagTypes'
    BY DEF IInv, TypeOK, FlagTypes, lifeVars, synthVars, ttsVars
  <1>4. JobsSame /\ ThreadSame /\ UNCHANGED stopping
    BY DEF JobsSame, ThreadSame, sessVars, synthVars, lifeVars
  <1> QED
    BY <1>1, <1>2, <1>3, <1>4, QuietStep DEF TypeOK

LEMMA FenceAllActions ==
  ASSUME IInv,
         \/ SynthFault \/ ControlFault \/ HearingFault \/ ModelDeadline
         \/ CloseAbort
  PROVE  IInv'
  <1>1. TypeOK'
    BY FenceAllTypes DEF IInv
  <1>2. FenceAll
    BY DEF Fault, SynthFault, ControlFault, HearingFault, ModelDeadline,
       CloseAbort
  <1>3. UNCHANGED <<known, generated, delivered, rendered, unspoken,
                    cancelled, retired, endTaken, receipts, halted, current,
                    running, lastGeneration>>
    BY DEF FaultFrame, SynthFault, ControlFault, HearingFault, ModelDeadline,
       CloseAbort
  <1>4. UNCHANGED <<synth, chunk>> \/ synth' = "exited"
    BY DEF synthVars, GoTo, SynthFault, ControlFault, HearingFault,
       ModelDeadline, CloseAbort
  <1> QED
    BY <1>1, <1>2, <1>3, <1>4, FenceAllStep

LEMMA InterruptActions ==
  ASSUME IInv,
         \/ \E g \in Generations, cancel \in BOOLEAN : HostInterrupt(g, cancel)
         \/ \E g \in Generations : HostInterruptOverflow(g)
         \/ BargeIn
  PROVE  IInv'
  <1>1. CASE \E g \in Generations :
               /\ Least(g, barge) /\ g \notin known /\ InterruptFrame
               /\ barge' = barge \ {g}
               /\ UNCHANGED <<fenced, queuedOutput, queued, audio, events,
                              cancelled, cancelCalls, control, serving>>
    <2>1. UNCHANGED <<jobVars, sessVars, lifeVars, synthVars, ttsVars, input,
                      control, speakerJobs, serving>> /\ barge' \subseteq barge
      BY <1>1 DEF InterruptFrame, jobVars, clocks, marks, sessVars, ttsVars
    <2>2. JobTypes'
      BY <2>1 DEF IInv, TypeOK, JobTypes, jobVars, clocks, marks
    <2>3. SessionTypes'
      BY <2>1 DEF IInv, TypeOK, SessionTypes, sessVars, lifeVars, synthVars, ttsVars
    <2>4. FlagTypes'
      BY <2>1 DEF IInv, TypeOK, FlagTypes, lifeVars, synthVars, ttsVars
    <2>5. JobsSame /\ ThreadSame /\ UNCHANGED stopping
      BY <2>1 DEF JobsSame, ThreadSame, sessVars, lifeVars, synthVars
    <2> QED
      BY <2>2, <2>3, <2>4, <2>5, QuietStep DEF TypeOK
  <1>2. CASE \E g \in known, cancel \in BOOLEAN :
               /\ InterruptLocked(g, cancel) \/ InterruptOverflow(g)
               /\ InterruptFrame
               /\ barge' \subseteq barge /\ control' \in {control, "failing"}
               /\ serving' \in {serving, FALSE}
    <2>1. PICK g \in known, cancel \in BOOLEAN :
               /\ InterruptLocked(g, cancel) \/ InterruptOverflow(g)
               /\ InterruptFrame
               /\ barge' \subseteq barge /\ control' \in {control, "failing"}
               /\ serving' \in {serving, FALSE}
      BY <1>2
    <2>2. TypeOK'
      BY <2>1, InterruptTypes DEF IInv
    <2>3. UNCHANGED <<known, generated, delivered, rendered, unspoken, retired,
                      endTaken, receipts, halted, current, running,
                      lastGeneration, stopping, synth, chunk>>
      BY <2>1 DEF InterruptFrame, lifeVars, synthVars
    <2> QED
      BY <2>1, <2>2, <2>3, InterruptStep
  <1>3. ASSUME NEW g \in Generations, NEW cancel \in BOOLEAN,
               HostInterrupt(g, cancel) \/ HostInterruptOverflow(g)
        PROVE  /\ g \in known
               /\ InterruptLocked(g, cancel) \/ InterruptOverflow(g)
               /\ InterruptFrame
               /\ barge' \subseteq barge /\ control' \in {control, "failing"}
               /\ serving' \in {serving, FALSE}
    BY <1>3 DEF HostInterrupt, HostInterruptOverflow
  <1>4. ASSUME NEW g \in Generations, HostInterruptOverflow(g)
        PROVE  IInv'
    BY <1>2, <1>3, <1>4
  <1>5. ASSUME NEW g \in Generations, NEW cancel \in BOOLEAN,
               HostInterrupt(g, cancel)
        PROVE  IInv'
    BY <1>2, <1>3, <1>5
  <1>6. ASSUME BargeIn PROVE IInv'
    <2>1. PICK g \in Generations :
            /\ Least(g, barge)
            /\ \/ /\ g \notin known
                  /\ barge' = barge \ {g}
                  /\ UNCHANGED <<fenced, queuedOutput, queued, audio, events,
                                 cancelled, cancelCalls, control>>
               \/ /\ g \in known
                  /\ InterruptLocked(g, TRUE)
                  /\ barge' = barge \ {g}
                  /\ UNCHANGED control
               \/ /\ g \in known
                  /\ InterruptOverflow(g)
                  /\ barge' = {} /\ control' = "failing"
      BY <1>6 DEF BargeIn
    <2>2. InterruptFrame /\ UNCHANGED serving
      BY <1>6 DEF BargeIn
    <2>3. CASE g \notin known
      BY <2>1, <2>2, <2>3, <1>1
    <2>4. CASE g \in known
      <3>1. /\ InterruptLocked(g, TRUE) \/ InterruptOverflow(g)
            /\ barge' \subseteq barge /\ control' \in {control, "failing"}
        BY <2>1, <2>4
      <3> QED
        BY <2>2, <2>4, <3>1, <1>2
    <2> QED
      BY <2>3, <2>4
  <1> QED
    BY <1>4, <1>5, <1>6

----------------------------------------------------------------------------
(* Actions with a step of their own.                                       *)

LEMMA ReleaseActions ==
  ASSUME IInv, NEW g \in Generations, Release(g)
  PROVE  IInv'
  <1>1. /\ g \in known /\ known' = known \ {g} /\ Resolved(g)
        /\ audio[g] = <<>> /\ queued[g] = 0
    BY DEF Release
  <1>2. UNCHANGED <<clocks, marks, sessVars, lifeVars, synthVars, ttsVars,
                    hearVars, serving>>
    BY DEF Release
  <1>3. g # running \/ synth \notin Busy
    BY <1>1 DEF IInv, ThreadOwnsReply, Resolved
  <1>4. JobTypes'
    BY <1>1, <1>2 DEF IInv, TypeOK, JobTypes, clocks, marks
  <1>5. SessionTypes'
    BY <1>2 DEF IInv, TypeOK, SessionTypes, sessVars, lifeVars, synthVars,
       ttsVars, hearVars
  <1>6. FlagTypes'
    BY <1>2 DEF IInv, TypeOK, FlagTypes, lifeVars, synthVars, ttsVars
  <1>7. AudioClock' /\ Clocks' /\ FencedIsSilent'
    BY <1>2 DEF IInv, AudioClock, Gapless, NothingMissing, QueueEnd, InHand,
       Losing, Clocks, Ordered, FencedIsSilent, clocks, marks, sessVars, synthVars
  <1>8. EndOwed' /\ CancelledIsFenced' /\ RetiredIsWhole' /\ ReceiptIsHonest'
    BY <1>2 DEF IInv, EndOwed, CancelledIsFenced, RetiredIsWhole,
       ReceiptIsHonest, clocks, marks, lifeVars
  <1>9. StoppedIsEmpty'
    BY <1>1, <1>2 DEF IInv, StoppedIsEmpty, clocks, marks, lifeVars
  <1>10. Fresh'
    BY <1>1, <1>2 DEF IInv, Fresh, Untouched, Resolved, clocks, marks, sessVars
  <1>11. Gone'
    BY <1>1, <1>2 DEF IInv, Gone, Untouched, Resolved, clocks, marks
  <1>12. ThreadOwnsReply'
    BY <1>1, <1>2, <1>3 DEF IInv, ThreadOwnsReply, Abandoned, clocks, marks,
       sessVars, synthVars, lifeVars
  <1> QED
    BY <1>4, <1>5, <1>6, <1>7, <1>8, <1>9, <1>10, <1>11, <1>12 DEF IInv, TypeOK

LEMMA ResetActions ==
  ASSUME IInv, ResetSegment
  PROVE  IInv'
  <1>1. running \in known \ retired /\ unspoken[running] > 0 /\ synth = "reset"
    BY DEF ResetSegment, IInv, ThreadOwnsReply, Busy
  <1>2. running \in Generations /\ unspoken \in [Generations -> Nat]
    BY <1>1 DEF IInv, TypeOK, JobTypes
  <1>3. /\ \A g \in Generations \ {running} : unspoken'[g] = unspoken[g]
        /\ unspoken' \in [Generations -> Nat]
    BY <1>1, <1>2 DEF ResetSegment
  <1>4. UNCHANGED <<known, generated, delivered, rendered, queued, audio, marks,
                    sessVars, lifeVars, ttsVars, hearVars, serving>>
    BY DEF ResetSegment
  <1>5. /\ synth' = "segment" /\ chunk' = 0 /\ samples' = 0 /\ natural' = FALSE
        /\ why' = "none"
    BY DEF ResetSegment, GoTo, Locals
  <1>6. JobTypes'
    BY <1>3, <1>4 DEF IInv, TypeOK, JobTypes, marks
  <1>7. SessionTypes'
    BY <1>4, <1>5 DEF IInv, TypeOK, SessionTypes, sessVars, lifeVars, ttsVars,
       hearVars, Places, Reasons
  <1>8. FlagTypes'
    BY <1>4, <1>5 DEF IInv, TypeOK, FlagTypes, lifeVars, ttsVars
  <1>9. running \notin receipts \ halted
    BY <1>1, <1>2 DEF IInv, ReceiptIsHonest, EndOwed
  <1>10. AudioClock' /\ Clocks' /\ FencedIsSilent'
    BY <1>1, <1>4, <1>5 DEF IInv, AudioClock, Gapless, NothingMissing, QueueEnd,
       InHand, Losing, Clocks, Ordered, FencedIsSilent, marks, sessVars
  <1>11. EndOwed' /\ CancelledIsFenced' /\ StoppedIsEmpty'
    BY <1>4 DEF IInv, EndOwed, CancelledIsFenced, StoppedIsEmpty, marks, lifeVars
  <1>12. Fresh' /\ Gone'
    BY <1>4 DEF IInv, Fresh, Gone, Untouched, Resolved, marks, sessVars
  <1>13. RetiredIsWhole'
    BY <1>1, <1>3, <1>4 DEF IInv, TypeOK, JobTypes, RetiredIsWhole, marks, lifeVars
  <1>14. ThreadOwnsReply'
    BY <1>1, <1>4, <1>5 DEF ThreadOwnsReply, Busy, marks, sessVars
  <1>15. ReceiptIsHonest'
    <2>1. receipts \subseteq Generations
      BY DEF IInv, TypeOK, JobTypes
    <2>2. \A g \in receipts \ halted : g # running
      BY <1>9
    <2> QED
      BY <1>3, <1>4, <2>1, <2>2 DEF IInv, ReceiptIsHonest, marks
  <1> QED
    BY <1>6, <1>7, <1>8, <1>10, <1>11, <1>12, <1>13, <1>14, <1>15 DEF IInv, TypeOK

(* What a step that works on one generation leaves of the others.          *)
OthersKeep(g) ==
    /\ \A h \in Generations \ {g} :
          /\ audio'[h] = audio[h] /\ delivered'[h] = delivered[h]
          /\ queued'[h] = queued[h] /\ generated'[h] = generated[h]
          /\ rendered'[h] = rendered[h]
    /\ \A h \in Generations \ {g} :
          (h \in endTaken' <=> h \in endTaken) /\ (h \in receipts' <=> h \in receipts)
    /\ UNCHANGED <<known, unspoken, fenced, cancelled, retired, current,
                   lastGeneration, running>>
    /\ stopping => stopping'
    /\ \A h \in Generations \ {g} : Losing(h)' = Losing(h) /\ InHand(h)' = InHand(h)

LEMMA OneQueueStep ==
  ASSUME IInv, NEW g \in known, OthersKeep(g), QueueOK(g)', EndOK(g)'
  PROVE  AudioClock' /\ Clocks' /\ EndOwed' /\ Fresh' /\ Gone'
  <1>1. ASSUME NEW h \in Generations PROVE QueueOK(h)' /\ EndOK(h)'
    <2>1. CASE h = g
      BY <2>1
    <2>2. CASE h # g
      <3>1. QueueOK(h) /\ EndOK(h)
        BY QueueOKHolds
      <3>2. QueueOK(h)'
        BY <2>2, <3>1 DEF QueueOK, OthersKeep
      <3>3. EndOK(h)'
        BY <2>2, <3>1 DEF EndOK, OthersKeep
      <3> QED
        BY <3>2, <3>3
    <2> QED
      BY <2>1, <2>2
  <1>2. AudioClock' /\ Clocks' /\ EndOwed'
    BY <1>1, QueueOKIsEnough, EndOKIsEnough
  <1>3. Fresh'
    BY DEF OthersKeep, IInv, Fresh, Untouched
  <1>4. Gone'
    BY DEF OthersKeep, IInv, Gone, Untouched, Resolved
  <1> QED
    BY <1>2, <1>3, <1>4

LEMMA PlaybackActions ==
  ASSUME IInv, NEW g \in Generations, NEW position \in 0..delivered[g],
         NEW terminal \in BOOLEAN, NEW stop \in BOOLEAN,
         Playback(g, position, terminal, stop)
  PROVE  IInv'
  <1>1. g \in known /\ MayPlay(g, position, terminal, stop)
    BY DEF Playback, MayPlay
  <1>2. /\ rendered' = [rendered EXCEPT ![g] = position]
        /\ receipts' = IF terminal THEN receipts \cup {g} ELSE receipts
        /\ halted' = IF terminal /\ stop THEN halted \cup {g} ELSE halted
        /\ MaybeClose
        /\ UNCHANGED <<known, generated, delivered, queued, audio, unspoken,
                       fenced, cancelled, retired, endTaken, sessVars, closing,
                       aborted, error, synthVars, ttsVars, hearVars, serving>>
    BY DEF Playback
  <1>3. /\ delivered[g] \in Nat /\ position \in Nat /\ position <= delivered[g]
        /\ rendered \in [Generations -> Nat]
    BY DEF IInv, TypeOK, JobTypes
  <1>4. JobTypes'
    BY <1>2, <1>3 DEF IInv, TypeOK, JobTypes
  <1>5. SessionTypes'
    BY <1>2 DEF IInv, TypeOK, SessionTypes, sessVars, synthVars, ttsVars, hearVars
  <1>6. FlagTypes'
    BY <1>2 DEF IInv, TypeOK, FlagTypes, synthVars, ttsVars, MaybeClose
  <1>7. /\ stopping => stopping'
        /\ UNCHANGED <<current, running, lastGeneration, synth, chunk>>
    BY <1>2 DEF MaybeClose, sessVars, synthVars
  <1>8. OthersKeep(g)
    BY <1>2, <1>3, <1>7 DEF OthersKeep, Losing, InHand
  <1>9. QueueOK(g)'
    <2>1. QueueOK(g)
      BY QueueOKHolds
    <2>2. rendered'[g] = position
      BY <1>2, <1>3
    <2> QED
      BY <1>2, <1>3, <1>7, <2>1, <2>2 DEF QueueOK, Losing, InHand
  <1>10. EndOK(g)'
    <2>1. EndOK(g)
      BY QueueOKHolds
    <2> QED
      BY <1>2, <1>7, <2>1 DEF EndOK
  <1>11. AudioClock' /\ Clocks' /\ EndOwed' /\ Fresh' /\ Gone'
    BY <1>1, <1>8, <1>9, <1>10, OneQueueStep
  <1>12. CancelledIsFenced' /\ FencedIsSilent'
    BY <1>2 DEF IInv, CancelledIsFenced, FencedIsSilent
  <1>13. RetiredIsWhole' /\ ThreadOwnsReply'
    BY <1>2, <1>7 DEF IInv, RetiredIsWhole, ThreadOwnsReply, Abandoned
  <1>14. ReceiptIsHonest'
    <2>1. CASE ~terminal
      <3>1. g \notin receipts
        BY <1>1, <2>1 DEF MayPlay
      <3> QED
        BY <1>2, <1>3, <2>1, <3>1 DEF IInv, ReceiptIsHonest
    <2>2. CASE terminal /\ stop
      <3>1. g \in fenced
        BY <1>1, <2>2 DEF MayPlay
      <3>2. receipts' = receipts \cup {g} /\ halted' = halted \cup {g}
        BY <1>2, <2>2
      <3> QED
        BY <1>2, <1>3, <3>1, <3>2 DEF IInv, ReceiptIsHonest
    <2>3. CASE terminal /\ ~stop
      <3>1. /\ g \in endTaken /\ g \in retired /\ g \notin fenced
            /\ position = generated[g] /\ g \notin halted
        BY <1>1, <2>3 DEF MayPlay, IInv, ReceiptIsHonest
      <3>2. unspoken[g] = 0
        BY <3>1 DEF IInv, RetiredIsWhole, CancelledIsFenced
      <3>3. delivered[g] = generated[g]
        <4>1. delivered[g] + queued[g] <= generated[g]
          BY DEF IInv, Clocks
        <4>2. queued[g] \in Nat /\ generated[g] \in Nat
          BY DEF IInv, TypeOK, JobTypes
        <4> QED
          BY <1>3, <3>1, <4>1, <4>2
      <3>4. receipts' = receipts \cup {g} /\ halted' = halted
        BY <1>2, <2>3
      <3>5. rendered'[g] = generated[g] /\ \A h \in Generations \ {g} : rendered'[h] = rendered[h]
        BY <1>2, <1>3, <3>1
      <3>6. receipts \subseteq Generations
        BY DEF IInv, TypeOK, JobTypes
      <3> QED
        BY <1>2, <3>1, <3>2, <3>3, <3>4, <3>5, <3>6 DEF IInv, ReceiptIsHonest
    <2> QED
      BY <2>1, <2>2, <2>3
  <1>15. StoppedIsEmpty'
    <2>1. CASE stopping
      BY <1>2, <2>1 DEF IInv, StoppedIsEmpty
    <2>2. CASE CloseReady'
      BY <1>4, <1>11, <2>2 DEF StoppedIsEmpty, JobTypes, EndOwed, Gone,
         CloseReady, Resolved
    <2>3. CASE ~stopping /\ ~CloseReady'
      BY <1>2, <2>3 DEF MaybeClose, StoppedIsEmpty
    <2> QED
      BY <2>1, <2>2, <2>3
  <1> QED
    BY <1>4, <1>5, <1>6, <1>11, <1>12, <1>13, <1>14, <1>15 DEF IInv, TypeOK

LEMMA TakeAudioActions ==
  ASSUME IInv, TakeAudio
  PROVE  IInv'
  <1>1. PICK g \in Generations :
          /\ Least(g, Takeable)
          /\ audio' = [audio EXCEPT ![g] = Tail(@)]
          /\ endTaken' = IF Head(audio[g]).end THEN endTaken \cup {g} ELSE endTaken
          /\ queued' = [queued EXCEPT ![g] = @ - Head(audio[g]).n]
          /\ queuedOutput' = queuedOutput - Head(audio[g]).n
          /\ delivered' = [delivered EXCEPT ![g] = @ + Head(audio[g]).n]
          /\ UNCHANGED <<known, generated, rendered, unspoken, fenced,
                         cancelled, retired, receipts, halted, current,
                         running, lastGeneration, events, closing, aborted,
                         error, synthVars, ttsVars, hearVars, serving>>
          /\ IF Head(audio[g]).end THEN MaybeClose ELSE UNCHANGED stopping
    BY DEF TakeAudio
  <1> DEFINE q == audio[g]
             d == delivered[g]
             m == Head(audio[g]).n
  <1>2. g \in known /\ q # <<>> /\ ~stopping
    BY <1>1 DEF Least, Takeable, TakeAudio
  <1>3. /\ QueueOK(g) /\ EndOK(g)
        /\ q \in Seq(ChunkType) /\ d \in Nat
    BY QueueOKHolds, QueueFacts
  <1>4. /\ Head(q) = q[1] /\ 1 \in 1..Len(q) /\ m \in Nat
        /\ q[1].start = d /\ Tail(q) \in Seq(ChunkType)
    <2>1. Head(q) = q[1] /\ 1 \in 1..Len(q) /\ Tail(q) \in Seq(ChunkType)
      BY <1>2, <1>3, TailOfSeq, ChunkFields
    <2>2. q[1].start = d
      BY <1>3, <2>1 DEF QueueOK, Runs
    <2>3. q[1].n \in Nat
      BY <1>3, <2>1, ChunkFields
    <2> QED
      BY <2>1, <2>2, <2>3
  <1>5. /\ Runs(Tail(q), d + m) /\ Sorted(Tail(q))
        /\ EndOf(Tail(q), d + m) = EndOf(q, d)
    BY <1>2, <1>3, TailOfQueue DEF QueueOK
  <1>6. d + m <= EndOf(q, d)
    BY <1>3, <1>4, EndsLast DEF QueueOK
  <1>7. /\ Closing(Tail(q), g \in retired) /\ EndsAreEmpty(Tail(q))
        /\ Head(q).end => g \in retired /\ Tail(q) = <<>> /\ m = 0
        /\ ~Head(q).end /\ g \in retired => Tail(q) # <<>>
    <2>1. (g \in retired) \in BOOLEAN /\ Closing(q, g \in retired) /\ EndsAreEmpty(q)
      BY <1>3 DEF QueueOK, EndOK
    <2> HIDE DEF q
    <2> QED
      BY <1>2, <1>3, <2>1, TailChunks DEF m, q
  <1>8. /\ audio \in [Generations -> Seq(ChunkType)]
        /\ delivered \in [Generations -> Nat] /\ queued \in [Generations -> Nat]
        /\ generated[g] \in Nat /\ rendered[g] \in Nat
        /\ known \subseteq Generations /\ endTaken \subseteq Generations
    BY DEF IInv, TypeOK, JobTypes
  <1>9. /\ audio'[g] = Tail(q) /\ delivered'[g] = d + m
        /\ queued'[g] = queued[g] - m
        /\ \A h \in Generations \ {g} :
              /\ audio'[h] = audio[h] /\ delivered'[h] = delivered[h]
              /\ queued'[h] = queued[h]
    BY <1>1, <1>8
  <1>10. g \notin endTaken
    BY <1>2, <1>3 DEF EndOK
  <1>11. queued[g] = EndOf(q, d) - d /\ EndOf(q, d) \in Nat /\ queued[g] \in Nat
    BY <1>3, <1>8, EndOfType DEF QueueOK
  <1> HIDE DEF q, d, m
  <1>12. JobTypes'
    <2>1. queued'[g] \in Nat
      BY <1>3, <1>4, <1>6, <1>9, <1>11
    <2>2. queued' \in [Generations -> Nat] /\ delivered' \in [Generations -> Nat]
      BY <1>1, <1>3, <1>4, <1>8, <1>9, <2>1
    <2>3. audio' \in [Generations -> Seq(ChunkType)]
      BY <1>1, <1>4, <1>8 DEF q
    <2>4. endTaken' \subseteq Generations
      BY <1>1, <1>8
    <2> QED
      BY <1>1, <2>2, <2>3, <2>4 DEF IInv, TypeOK, JobTypes
  <1>13. SessionTypes'
    <2>1. queuedOutput' \in Int
      BY <1>1, <1>4 DEF IInv, TypeOK, SessionTypes, m
    <2> QED
      BY <1>1, <2>1 DEF IInv, TypeOK, SessionTypes, synthVars, ttsVars, hearVars
  <1>14. stopping' \in BOOLEAN /\ (stopping' => CloseReady')
    <2>1. CASE Head(audio[g]).end
      BY <1>1, <1>2, <2>1 DEF MaybeClose
    <2>2. CASE ~Head(audio[g]).end
      <3>1. stopping' = stopping
        BY <1>1, <2>2
      <3> QED
        BY <1>2, <3>1 DEF IInv, TypeOK, FlagTypes
    <2> QED
      BY <2>1, <2>2
  <1>15. FlagTypes'
    BY <1>1, <1>14 DEF IInv, TypeOK, FlagTypes, synthVars, ttsVars
  <1>16. QueueOK(g)'
    <2>1. UNCHANGED <<generated, rendered, fenced, running, synth, chunk>>
      BY <1>1 DEF synthVars
    <2>2. Losing(g)' = Losing(g) /\ InHand(g)' = InHand(g)
      BY <2>1 DEF Losing, InHand
    <2>3. /\ Runs(audio'[g], delivered'[g]) /\ Sorted(audio'[g])
          /\ EndsAreEmpty(audio'[g])
          /\ EndOf(audio'[g], delivered'[g]) = EndOf(q, d)
      BY <1>5, <1>7, <1>9
    <2>4. queued'[g] = EndOf(q, d) - delivered'[g]
      BY <1>3, <1>4, <1>9, <1>11
    <2>5. delivered'[g] + queued'[g] <= generated[g]
      BY <1>3, <1>4, <1>8, <1>9, <1>11 DEF QueueOK, d
    <2>6. rendered[g] <= delivered'[g]
      BY <1>3, <1>4, <1>8, <1>9 DEF QueueOK, d
    <2>7. g \notin fenced /\ ~Losing(g) => generated[g] = EndOf(q, d) + InHand(g)
      BY <1>3 DEF QueueOK, q, d
    <2> QED
      BY <2>1, <2>2, <2>3, <2>4, <2>5, <2>6, <2>7 DEF QueueOK
  <1>17. EndOK(g)'
    BY <1>1, <1>7, <1>9, <1>10 DEF EndOK, q
  <1>18. OthersKeep(g)
    BY <1>1, <1>2, <1>9 DEF OthersKeep, Losing, InHand, synthVars
  <1>19. AudioClock' /\ Clocks' /\ EndOwed' /\ Fresh' /\ Gone'
    BY <1>2, <1>16, <1>17, <1>18, OneQueueStep
  <1>20. FencedIsSilent'
    <2> SUFFICES ASSUME NEW h \in fenced
                 PROVE  /\ queued'[h] = 0
                        /\ \A i \in 1..Len(audio'[h]) : audio'[h][i].end
      BY <1>1 DEF FencedIsSilent
    <2>1. h \in Generations /\ queued[h] = 0 /\ \A i \in 1..Len(audio[h]) : audio[h][i].end
      BY DEF IInv, FencedIsSilent, TypeOK, JobTypes
    <2>2. CASE h # g
      BY <1>9, <2>1, <2>2
    <2>3. CASE h = g
      <3>1. Head(q).end
        BY <1>4, <2>1, <2>3 DEF q
      <3>2. Tail(q) = <<>> /\ m = 0
        BY <1>7, <3>1
      <3>3. audio'[h] = <<>>
        BY <1>9, <2>3, <3>2
      <3>4. queued'[h] = 0
        BY <1>9, <2>1, <2>3, <3>2
      <3> QED
        BY <3>3, <3>4
    <2> QED
      BY <2>2, <2>3
  <1>21. CancelledIsFenced' /\ ThreadOwnsReply'
    BY <1>1, <1>2 DEF IInv, CancelledIsFenced, ThreadOwnsReply, Abandoned, synthVars
  <1>22. RetiredIsWhole'
    BY <1>1, <1>2 DEF IInv, RetiredIsWhole
  <1>23. ReceiptIsHonest'
    <2>1. receipts \subseteq Generations /\ endTaken \subseteq endTaken'
      BY <1>1 DEF IInv, TypeOK, JobTypes
    <2>2. g \notin receipts \ halted
      BY <1>10 DEF IInv, ReceiptIsHonest
    <2> QED
      BY <1>1, <1>9, <2>1, <2>2 DEF IInv, ReceiptIsHonest
  <1>24. StoppedIsEmpty'
    <2>1. CASE CloseReady'
      BY <1>12, <1>19, <2>1 DEF StoppedIsEmpty, JobTypes, EndOwed, Gone,
         CloseReady, Resolved
    <2>2. CASE ~CloseReady'
      BY <1>14, <2>2 DEF StoppedIsEmpty
    <2> QED
      BY <2>1, <2>2
  <1> QED
    BY <1>12, <1>13, <1>15, <1>19, <1>20, <1>21, <1>22, <1>23, <1>24 DEF IInv, TypeOK

(* A chunk is counted, kept, dropped or set aside.                         *)
LEMMA ChunkActions ==
  ASSUME IInv, AdmitChunk \/ TakeSpace
  PROVE  IInv'
  <1> SUFFICES ASSUME NEW g, g = running PROVE IInv'
    OBVIOUS
  <1> DEFINE q == audio[g]
             d == delivered[g]
             n == generated'[g]
             c == Chunk(n - chunk, chunk)
             keep == synth' = "check" /\ ~stopping /\ g \notin fenced /\ Keep
             same == UNCHANGED <<audio, queued, queuedOutput>>
  <1>1. /\ synth \in {"admit", "space"} /\ synth \in Busy
        /\ UNCHANGED <<known, delivered, rendered, unspoken, marks, current, running,
                       lastGeneration, events, lifeVars, ttsVars, hearVars, serving>>
    BY DEF AdmitChunk, TakeSpace, SettleFrame, Busy
  <1>2. g \in known \ retired /\ g \in Generations /\ unspoken[g] > 0
    BY <1>1 DEF IInv, ThreadOwnsReply, TypeOK, JobTypes
  <1>3. /\ QueueOK(g) /\ EndOK(g) /\ q \in Seq(ChunkType) /\ d \in Nat
    BY <1>2, QueueOKHolds, QueueFacts
  <1>4. /\ generated \in [Generations -> Nat] /\ chunk \in Nat
        /\ queued \in [Generations -> Nat]
        /\ audio \in [Generations -> Seq(ChunkType)]
        /\ queuedOutput \in Int /\ generated[g] \in Nat /\ queued[g] \in Nat
    BY <1>2 DEF IInv, TypeOK, JobTypes, SessionTypes
  <1>5. /\ n = IF synth = "admit" THEN generated[g] + chunk ELSE generated[g]
        /\ \A h \in Generations \ {g} : generated'[h] = generated[h]
        /\ generated' \in [Generations -> Nat]
    <2>1. CASE AdmitChunk
      <3>1. generated' = [generated EXCEPT ![g] = generated[g] + chunk]
        BY <2>1 DEF AdmitChunk
      <3> QED
        BY <1>2, <1>4, <2>1, <3>1 DEF AdmitChunk
    <2>2. CASE TakeSpace
      BY <1>2, <1>4, <2>2 DEF TakeSpace
    <2> QED
      BY <2>1, <2>2
  <1>6. Abandoned => g \in fenced
    <2>1. g \notin receipts \/ g \in fenced
      BY <1>2, <1>3 DEF IInv, ReceiptIsHonest, EndOK
    <2>2. stopping => g \in fenced
      BY <1>2, <2>1 DEF IInv, StoppedIsEmpty
    <2>3. g \in cancelled => g \in fenced
      BY DEF IInv, CancelledIsFenced
    <2> QED
      BY <2>2, <2>3 DEF Abandoned
  <1>7. \/ keep
        \/ /\ same
           /\ \/ synth' = "failing"
              \/ synth' \in {"reset", "check"} /\ g \in fenced
              \/ synth' = "space" /\ chunk' = chunk /\ synth = "admit"
    BY <1>6 DEF AdmitChunk, TakeSpace, Settle, Fail, Stay, Locals, Abandoned
  <1>8. /\ chunk' \in {0, chunk} /\ samples' \in {0, samples}
        /\ why' \in {"none", "failed"} /\ synth' \in {"failing", "reset", "check", "space"}
    BY DEF AdmitChunk, TakeSpace, Settle, Fail, Stay, Locals
  <1>9. natural' = FALSE
    BY DEF AdmitChunk, TakeSpace, Settle, Fail, Stay, Locals
  <1>10. g \notin fenced => n = EndOf(q, d) + chunk
    <2>1. ~Losing(g) /\ InHand(g) = IF synth = "space" THEN chunk ELSE 0
      BY <1>1 DEF Losing, InHand
    <2>2. EndOf(q, d) \in Nat
      BY <1>3, EndOfType
    <2> QED
      BY <1>1, <1>3, <1>4, <1>5, <2>1, <2>2 DEF QueueOK
  <1>11. ASSUME keep
         PROVE  /\ c \in ChunkType /\ c.start = EndOf(q, d) /\ c.n = chunk
                /\ c.end = FALSE
                /\ audio' = [audio EXCEPT ![g] = Append(q, c)]
                /\ queued' = [queued EXCEPT ![g] = queued[g] + chunk]
                /\ queuedOutput' = queuedOutput + chunk
    <2>1. EndOf(q, d) \in Nat
      BY <1>3, EndOfType
    <2>2. n - chunk = EndOf(q, d)
      BY <1>4, <1>10, <1>11, <2>1
    <2>3. c \in ChunkType /\ c.start = EndOf(q, d) /\ c.n = chunk /\ c.end = FALSE
      BY <1>4, <2>1, <2>2 DEF Chunk, ChunkType
    <2> QED
      BY <1>11, <2>3 DEF Keep
  <1> HIDE DEF c, n
  <1>13. JobTypes'
    <2>1. audio' \in [Generations -> Seq(ChunkType)] /\ queued' \in [Generations -> Nat]
      <3>1. CASE keep
        <4>1. Append(q, c) \in Seq(ChunkType) /\ queued[g] + chunk \in Nat
          BY <1>3, <1>4, <1>11, <3>1, AppendToSeq
        <4>2. audio' = [audio EXCEPT ![g] = Append(q, c)]
          BY <1>11, <3>1
        <4>3. audio' \in [Generations -> Seq(ChunkType)]
          BY <1>4, <4>1, <4>2
        <4>4. queued' \in [Generations -> Nat]
          BY <1>4, <1>11, <3>1, <4>1
        <4> QED
          BY <4>3, <4>4
      <3>2. CASE same
        BY <1>4, <3>2
      <3> QED
        BY <1>7, <3>1, <3>2
    <2> QED
      BY <1>1, <1>5, <2>1 DEF IInv, TypeOK, JobTypes, marks
  <1>14. SessionTypes'
    <2>1. queuedOutput' \in Int
      <3>1. CASE keep
        BY <1>4, <1>11, <3>1
      <3>2. CASE same
        BY <1>4, <3>2
      <3> QED
        BY <1>7, <3>1, <3>2
    <2>2. why' \in Reasons /\ synth' \in Places
      BY <1>8 DEF Reasons, Places
    <2>3. chunk' \in Nat /\ samples' \in Nat
      BY <1>8 DEF IInv, TypeOK, SessionTypes
    <2> QED
      BY <1>1, <2>1, <2>2, <2>3 DEF IInv, TypeOK, SessionTypes, lifeVars, ttsVars,
         hearVars
  <1>15. FlagTypes'
    BY <1>1, <1>9 DEF IInv, TypeOK, FlagTypes, lifeVars, ttsVars
  <1>16. /\ \A h \in Generations \ {g} : audio'[h] = audio[h] /\ queued'[h] = queued[h]
    BY <1>2, <1>4, <1>7, <1>11
  <1>17. OthersKeep(g)
    BY <1>1, <1>5, <1>16 DEF OthersKeep, marks, lifeVars, Losing, InHand
  <1>18. QueueOK(g)' /\ EndOK(g)'
    <2>1. CASE keep
      <3>1. /\ audio'[g] = Append(q, c) /\ queued'[g] = queued[g] + chunk
            /\ delivered'[g] = d /\ rendered'[g] = rendered[g] /\ g \notin fenced
        BY <1>1, <1>2, <1>4, <1>11, <2>1
      <3>2. /\ Runs(audio'[g], d) /\ Sorted(audio'[g])
            /\ EndOf(audio'[g], d) = c.start + c.n
        BY <1>3, <1>11, <2>1, <3>1, AppendToQueue DEF QueueOK
      <3>3. Closing(q, FALSE)
        BY <1>2, <1>3 DEF EndOK, Closing
      <3>4. Closing(audio'[g], FALSE) /\ EndsAreEmpty(audio'[g])
        BY <1>3, <1>11, <2>1, <3>1, <3>3, AppendChunk DEF QueueOK
      <3>5. synth' = "check"
        BY <2>1
      <3>6. InHand(g)' = 0
        BY <3>5 DEF InHand
      <3>7. EndOf(q, d) \in Nat /\ queued[g] = EndOf(q, d) - d
        BY <1>3, EndOfType DEF QueueOK
      <3>8. EndOf(audio'[g], d) = EndOf(q, d) + chunk /\ n = EndOf(q, d) + chunk
        BY <1>10, <1>11, <2>1, <3>1, <3>2
      <3>9. QueueOK(g)'
        <4>1. generated'[g] = EndOf(audio'[g], d) + InHand(g)'
          BY <1>4, <3>6, <3>7, <3>8 DEF n
        <4>2. queued'[g] = EndOf(audio'[g], d) - d
          BY <1>3, <1>4, <3>1, <3>7, <3>8
        <4>3. d + queued'[g] <= generated'[g]
          BY <1>3, <1>4, <3>1, <3>7, <3>8 DEF n
        <4> QED
          BY <1>3, <3>1, <3>2, <3>4, <4>1, <4>2, <4>3 DEF QueueOK
      <3>10. EndOK(g)'
        BY <1>1, <1>2, <1>3, <3>1, <3>4 DEF EndOK, marks, Closing
      <3> QED
        BY <3>9, <3>10
    <2>2. CASE same /\ ~keep
      <3>1. EndOK(g)'
        BY <1>1, <1>3, <2>2 DEF EndOK, marks, lifeVars
      <3>2. g \notin fenced => synth' = "failing" \/ (synth' = "space" /\ chunk' = chunk)
        BY <1>7, <2>2
      <3>3. g \notin fenced /\ ~Losing(g)' => InHand(g)' = chunk
        BY <1>1, <3>2 DEF Losing, InHand
      <3>4. generated[g] <= n /\ rendered[g] <= d /\ d + queued[g] <= generated[g]
        BY <1>3, <1>4, <1>5 DEF QueueOK
      <3>5. d + queued[g] <= n
        BY <1>3, <1>4, <1>5, <3>4
      <3>6. QueueOK(g)'
        BY <1>1, <1>3, <1>10, <2>2, <3>3, <3>4, <3>5 DEF QueueOK, marks, n
      <3> QED
        BY <3>1, <3>6
    <2> QED
      BY <1>7, <2>1, <2>2
  <1>19. AudioClock' /\ Clocks' /\ EndOwed' /\ Fresh' /\ Gone'
    BY <1>2, <1>17, <1>18, OneQueueStep
  <1>20. FencedIsSilent'
    BY <1>1, <1>7, <1>16 DEF IInv, FencedIsSilent, marks, TypeOK, JobTypes
  <1>21. CancelledIsFenced' /\ RetiredIsWhole'
    BY <1>1 DEF IInv, CancelledIsFenced, RetiredIsWhole, marks, lifeVars
  <1>22. ReceiptIsHonest'
    <2>1. g \notin receipts \ halted
      BY <1>2, <1>3 DEF IInv, ReceiptIsHonest, EndOK
    <2> QED
      BY <1>1, <1>5, <2>1 DEF IInv, ReceiptIsHonest, marks, TypeOK, JobTypes
  <1>23. StoppedIsEmpty'
    BY <1>1, <1>7 DEF IInv, StoppedIsEmpty, marks, lifeVars
  <1>24. ThreadOwnsReply'
    BY <1>1, <1>2, <1>8 DEF ThreadOwnsReply, marks, Busy
  <1> QED
    BY <1>13, <1>14, <1>15, <1>19, <1>20, <1>21, <1>22, <1>23, <1>24 DEF IInv, TypeOK

LEMMA RetiredTypes ==
  ASSUME TypeOK, NEW g \in Generations
  PROVE  /\ RetiredAudio(g) \in Seq(ChunkType) /\ RetiredEvent(g) \in EventType
         /\ [audio EXCEPT ![g] = RetiredAudio(g)] \in [Generations -> Seq(ChunkType)]
  <1>1. /\ audio[g] \in Seq(ChunkType) /\ delivered[g] \in Nat
        /\ generated[g] \in Nat /\ audio \in [Generations -> Seq(ChunkType)]
    BY DEF TypeOK, JobTypes
  <1>2. End(delivered[g]) \in ChunkType /\ End(generated[g]) \in ChunkType
    BY <1>1 DEF End, ChunkType
  <1>3. RetiredAudio(g) \in Seq(ChunkType)
    BY <1>1, <1>2, AppendToSeq DEF RetiredAudio
  <1>4. RetiredEvent(g) \in EventType
    BY EventIn DEF RetiredEvent
  <1> QED
    BY <1>1, <1>3, <1>4

LEMMA RetireActions ==
  ASSUME IInv, Retire
  PROVE  IInv'
  <1> SUFFICES ASSUME NEW g, g = running PROVE IInv'
    OBVIOUS
  <1>1. /\ synth = "retire" /\ retired' = retired \cup {g}
        /\ UNCHANGED <<known, generated, delivered, rendered, queued, unspoken,
                       fenced, cancelled, endTaken, receipts, halted, current,
                       lastGeneration, queuedOutput, closing, aborted, error,
                       ttsVars, hearVars, serving>>
    BY DEF Retire
  <1>2. g \in known \ retired /\ g \in Generations
    BY <1>1 DEF IInv, ThreadOwnsReply, Busy, TypeOK, JobTypes
  <1>a. (synth' = "wait" /\ running' = None) \/ (synth' = "failing" /\ running' = g)
    BY DEF Retire, GoTo, Fail
  <1>b. chunk' = 0 /\ samples' = 0
    BY DEF Retire, GoTo, Fail, Locals
  <1>c. why' \in {"none", "failed"}
    BY DEF Retire, GoTo, Fail, Locals
  <1>3. /\ (synth' = "wait" /\ running' = None) \/ (synth' = "failing" /\ running' = g)
        /\ chunk' = 0 /\ samples' = 0 /\ why' \in {"none", "failed"}
    BY <1>a, <1>b, <1>c
  <1>4. natural' = FALSE
    BY DEF Retire, GoTo, Fail, Locals
  <1>5. UNCHANGED stopping \/ MaybeClose
    BY DEF Retire
  <1>6. /\ stopping => UNCHANGED audio
        /\ ~stopping => audio' = [audio EXCEPT ![g] = RetiredAudio(g)]
    BY DEF Retire
  <1>7. events' \in {events, Append(events, RetiredEvent(g))}
    BY DEF Retire
  <1>8. JobTypes'
    <2>1. audio' \in [Generations -> Seq(ChunkType)]
      BY <1>2, <1>6, RetiredTypes DEF IInv, TypeOK, JobTypes
    <2> QED
      BY <1>1, <1>2, <2>1 DEF IInv, TypeOK, JobTypes
  <1>9. SessionTypes'
    <2>1. events' \in Seq(EventType)
      BY <1>2, <1>7, RetiredTypes, AppendToSeq DEF IInv, TypeOK, SessionTypes
    <2>2. running' \in Generations \cup {None} /\ synth' \in Places /\ why' \in Reasons
      BY <1>2, <1>3 DEF Places, Reasons
    <2> QED
      BY <1>1, <1>3, <2>1, <2>2 DEF IInv, TypeOK, SessionTypes, ttsVars, hearVars
  <1>10. stopping' \in BOOLEAN /\ (stopping => stopping')
    BY <1>5 DEF MaybeClose, IInv, TypeOK, FlagTypes
  <1>11. FlagTypes'
    BY <1>1, <1>4, <1>10 DEF IInv, TypeOK, FlagTypes, ttsVars
  <1>12. Fresh'
    BY <1>1, <1>2 DEF IInv, Fresh, Untouched
  <1>13. ThreadOwnsReply'
    BY <1>3 DEF ThreadOwnsReply, Busy
  <1>14. /\ InHand(g) = 0 /\ ~Losing(g)
         /\ \A h \in Generations :
               ~Losing(h)' => ~Losing(h) /\ InHand(h)' = InHand(h)
    BY <1>1, <1>3 DEF InHand, Losing
  <1>15. CASE stopping
    <2>1. ASSUME NEW h \in Generations PROVE QueueOK(h)' /\ EndOK(h)'
      <3>1. /\ QueueOK(h) /\ EndOK(h) /\ audio[h] = <<>> /\ audio'[h] = audio[h]
            /\ stopping'
        BY <1>6, <1>10, <1>15, QueueOKHolds DEF IInv, StoppedIsEmpty
      <3>2. QueueOK(h)'
        BY <1>1, <1>14, <3>1 DEF QueueOK
      <3>3. EndOK(h)'
        BY <1>1, <3>1 DEF EndOK, Closing
      <3> QED
        BY <3>2, <3>3
    <2>2. AudioClock' /\ Clocks' /\ EndOwed'
      BY <2>1, QueueOKIsEnough, EndOKIsEnough
    <2>3. CancelledIsFenced' /\ FencedIsSilent' /\ ReceiptIsHonest'
      BY <1>1, <1>6, <1>15 DEF IInv, CancelledIsFenced, FencedIsSilent, ReceiptIsHonest
    <2>4. Gone'
      BY <1>1, <1>2, <1>6, <1>15 DEF IInv, Gone, Untouched, Resolved
    <2>5. RetiredIsWhole'
      <3>1. g \notin endTaken
        BY <1>2 DEF IInv, EndOwed
      <3> QED
        BY <1>1, <1>10, <1>15, <3>1 DEF IInv, RetiredIsWhole
    <2>6. StoppedIsEmpty'
      BY <1>1, <1>6, <1>15 DEF IInv, StoppedIsEmpty
    <2> QED
      BY <1>8, <1>9, <1>11, <1>12, <1>13, <2>2, <2>3, <2>4, <2>5, <2>6 DEF IInv, TypeOK
  <1>16. CASE ~stopping
    <2> DEFINE S == {g}
               N == {}
    <2>1. S \in SUBSET (known \ retired) /\ N \in SUBSET Generations
      BY <1>2
    <2>2. \A h \in S : /\ InHand(h) = 0 /\ ~Losing(h)
                       /\ h \in cancelled \/ unspoken[h] = 0
      BY <1>1, <1>14, <1>16 DEF IInv, ThreadOwnsReply, Abandoned
    <2>3. \A n \in N : n > lastGeneration
      OBVIOUS
    <2>4. known' = known \cup N /\ retired' = retired \cup S
      BY <1>1
    <2>5. \A h \in Generations :
            /\ audio'[h] = IF h \in S THEN RetiredAudio(h) ELSE audio[h]
            /\ h \notin N => unspoken'[h] = unspoken[h]
            /\ ~Losing(h)' => ~Losing(h) /\ InHand(h)' = InHand(h)
      <3>1. \A h \in Generations : audio'[h] = IF h \in S THEN RetiredAudio(h) ELSE audio[h]
        BY <1>2, <1>6, <1>16 DEF IInv, TypeOK, JobTypes
      <3> QED
        BY <1>1, <1>14, <3>1
    <2>6. UNCHANGED <<generated, delivered, rendered, queued, fenced, cancelled,
                      endTaken, receipts, halted>>
      BY <1>1
    <2>7. TypeOK'
      BY <1>8, <1>9, <1>11 DEF TypeOK
    <2> HIDE DEF S, N
    <2> QED
      BY <1>5, <1>12, <1>13, <1>16, <2>1, <2>2, <2>3, <2>4, <2>5, <2>6, <2>7, RetireStep
  <1> QED
    BY <1>15, <1>16

(* Both ends of a call of synthesize: a displaced reply is retired; the    *)
(* new one is admitted unless the event queue is full.                     *)
LEMMA SynthesizeActions ==
  ASSUME IInv, NEW g \in Generations,
         (\E parts \in 1..MaxSegments : Synthesize(g, parts)) \/ SynthesizeOverflow(g)
  PROVE  IInv'
  <1> DEFINE S == IF Displaced THEN {current} ELSE {}
             admitted == \E parts \in 1..MaxSegments : Synthesize(g, parts)
             N == IF g \in known' THEN {g} ELSE {}
  <1>1. /\ MaySynthesize(g) /\ RetireDisplaced
        /\ UNCHANGED <<generated, delivered, rendered, queued, fenced, cancelled,
                       endTaken, receipts, halted, running, queuedOutput, lifeVars,
                       synthVars, ttsVars, hearVars>>
    BY DEF Synthesize, SynthesizeOverflow
  <1>2. /\ ~stopping /\ g > lastGeneration
        /\ current = None \/ current \in retired \/ current \in cancelled
    BY <1>1 DEF MaySynthesize
  <1>3. g \notin known /\ \A h \in known \cup retired : h <= lastGeneration
    <2>1. known \cup retired \subseteq Generations /\ lastGeneration \in Nat
      BY DEF IInv, TypeOK, JobTypes, SessionTypes
    <2>2. \A h \in Generations : h > lastGeneration => h \notin known /\ h \notin retired
      BY DEF IInv, Fresh, Untouched
    <2>3. \A h \in Generations : h \in Nat
      BY GenerationsAssumption
    <2> QED
      BY <1>2, <2>1, <2>2, <2>3
  <1>4. S \in SUBSET (known \ retired)
    BY DEF Displaced, IInv, Fresh
  <1>5. known \subseteq Generations /\ S \subseteq Generations
    BY <1>4 DEF IInv, TypeOK, JobTypes
  <1>6. \A h \in S : /\ InHand(h) = 0 /\ ~Losing(h)
                     /\ h \in cancelled \/ unspoken[h] = 0
    BY <1>2 DEF Displaced, InHand, Losing
  <1>7. \A h \in Generations : audio'[h] = IF h \in S THEN RetiredAudio(h) ELSE audio[h]
    BY <1>1, <1>5 DEF RetireDisplaced, IInv, TypeOK, JobTypes
  <1>8. retired' = retired \cup S
    BY <1>1 DEF RetireDisplaced
  <1>9. \/ /\ known' = known \cup {g} /\ current' = g /\ lastGeneration' = g
           /\ \E parts \in Nat : unspoken' = [unspoken EXCEPT ![g] = parts]
        \/ UNCHANGED <<known, current, lastGeneration, unspoken>>
    BY MaxSegmentsAssumption DEF Synthesize, SynthesizeOverflow
  <1>10. known' = known \cup N /\ N \in SUBSET {g}
    BY <1>3, <1>9
  <1>11. unspoken' \in [Generations -> Nat] /\ \A h \in Generations \ N : unspoken'[h] = unspoken[h]
    BY <1>9 DEF IInv, TypeOK, JobTypes
  <1>12. JobTypes'
    <2>1. audio' \in [Generations -> Seq(ChunkType)]
      <3>1. CASE Displaced
        <4>1. current \in Generations
          BY <1>5, <3>1
        <4>2. audio' = [audio EXCEPT ![current] = RetiredAudio(current)]
          BY <1>1, <3>1 DEF RetireDisplaced
        <4> QED
          BY <4>1, <4>2, RetiredTypes DEF IInv
      <3>2. CASE ~Displaced
        BY <1>1, <3>2 DEF RetireDisplaced, IInv, TypeOK, JobTypes
      <3> QED
        BY <3>1, <3>2
    <2> QED
      BY <1>1, <1>5, <1>8, <1>10, <1>11, <2>1 DEF IInv, TypeOK, JobTypes
  <1>13. events' \in Seq(EventType)
    <2>1. events \in Seq(EventType) /\ Event("start", g) \in EventType
      BY EventIn DEF IInv, TypeOK, SessionTypes
    <2>2. Displaced => RetiredEvent(current) \in EventType
      BY <1>5, RetiredTypes DEF IInv
    <2>3. CASE SynthesizeOverflow(g)
      BY <2>1, <2>2, <2>3, AppendToSeq DEF SynthesizeOverflow
    <2>4. CASE admitted
      <3>1. events' = events \o Append(IF Displaced THEN <<RetiredEvent(current)>> ELSE <<>>,
                                       Event("start", g))
        BY <2>4 DEF Synthesize
      <3>2. Append(IF Displaced THEN <<RetiredEvent(current)>> ELSE <<>>, Event("start", g))
              \in Seq(EventType)
        BY <2>1, <2>2
      <3> QED
        BY <2>1, <3>1, <3>2
    <2> QED
      BY <2>3, <2>4
  <1>14. SessionTypes'
    BY <1>1, <1>9, <1>13, GenerationsAssumption DEF IInv, TypeOK, SessionTypes, lifeVars, synthVars, ttsVars,
       hearVars
  <1>15. serving' \in {serving, FALSE}
    BY DEF Synthesize, SynthesizeOverflow
  <1>16. FlagTypes'
    BY <1>1, <1>15 DEF IInv, TypeOK, FlagTypes, lifeVars, synthVars, ttsVars
  <1>17. TypeOK'
    BY <1>12, <1>14, <1>16 DEF TypeOK
  <1>18. Fresh'
    <2>1. lastGeneration \in Nat /\ g \in Nat /\ \A h \in Generations : h \in Nat
      BY GenerationsAssumption DEF IInv, TypeOK, SessionTypes
    <2>2. lastGeneration' \in Nat /\ lastGeneration' >= lastGeneration
          /\ (g \in known' => lastGeneration' = g)
      BY <1>2, <1>3, <1>9, <2>1
    <2>3. current' <= lastGeneration' /\ (current' # None => current' \in known' \cup retired')
      BY <1>8, <1>9, <2>1 DEF IInv, Fresh
    <2>4. ASSUME NEW h \in Generations, h > lastGeneration'
          PROVE  h \notin known' /\ Untouched(h)'
      <3>1. h > lastGeneration
        BY <2>1, <2>2, <2>4
      <3>2. h \notin known /\ Untouched(h)
        BY <3>1 DEF IInv, Fresh
      <3>3. h \notin known'
        BY <1>10, <2>1, <2>2, <2>4, <3>2
      <3>4. h \notin retired'
        BY <1>3, <1>4, <1>8, <2>1, <3>1
      <3> QED
        BY <1>1, <3>2, <3>3, <3>4 DEF Untouched
    <2> QED
      BY <2>3, <2>4 DEF Fresh
  <1>19. ThreadOwnsReply'
    <2>1. synth \in Busy => running \in known \ retired /\ running \notin S /\ running # g
      BY <1>3 DEF IInv, ThreadOwnsReply, Displaced
    <2>2. UNCHANGED <<synth, running, stopping, cancelled>>
      BY <1>1 DEF synthVars, lifeVars
    <2>3. synth \in Busy => unspoken'[running] = unspoken[running] /\ running \in known' \ retired'
      BY <1>5, <1>8, <1>10, <1>11, <2>1
    <2> QED
      BY <2>2, <2>3 DEF IInv, ThreadOwnsReply, Abandoned, Busy
  <1>20. \A h \in Generations :
            /\ audio'[h] = IF h \in S THEN RetiredAudio(h) ELSE audio[h]
            /\ h \notin N => unspoken'[h] = unspoken[h]
            /\ ~Losing(h)' => ~Losing(h) /\ InHand(h)' = InHand(h)
    BY <1>1, <1>7, <1>11 DEF Losing, InHand, synthVars
  <1>21. N \in SUBSET Generations /\ \A n \in N : n > lastGeneration
    BY <1>2
  <1>22. UNCHANGED stopping
    BY <1>1 DEF lifeVars
  <1>23. UNCHANGED <<generated, delivered, rendered, queued, fenced, cancelled,
                     endTaken, receipts, halted>>
    BY <1>1
  <1> HIDE DEF S, N
  <1> QED
    BY <1>2, <1>4, <1>6, <1>8, <1>10, <1>17, <1>18, <1>19, <1>20, <1>21, <1>22, <1>23, RetireStep

----------------------------------------------------------------------------
(* The theorems.                                                           *)

(* Every step of the session, with every failure the code handles, keeps   *)
(* the inductive invariant.                                                *)
LEMMA NextIInv == IInv /\ [Next]_vars => IInv'
  <1> SUFFICES ASSUME IInv, [Next]_vars PROVE IInv'
    OBVIOUS
  <1>1. CASE SynthStep
    BY <1>1, ThreadActions, ChunkActions, ResetActions, RetireActions,
       FenceAllActions DEF SynthStep
  <1>2. CASE HostStep
    <2>1. ASSUME NEW g \in Generations, NEW parts \in 1..MaxSegments,
                 Synthesize(g, parts)
          PROVE  IInv'
      BY <2>1, SynthesizeActions
    <2>2. ASSUME NEW g \in Generations, SynthesizeOverflow(g) PROVE IInv'
      BY <2>2, SynthesizeActions
    <2>3. ASSUME NEW g \in Generations, NEW cancel \in BOOLEAN, HostInterrupt(g, cancel)
          PROVE  IInv'
      BY <2>3, InterruptActions
    <2>4. ASSUME NEW g \in Generations, HostInterruptOverflow(g) PROVE IInv'
      BY <2>4, InterruptActions
    <2>5. ASSUME NEW g \in Generations, NEW position \in 0..delivered[g],
                 NEW terminal \in BOOLEAN, NEW stop \in BOOLEAN,
                 Playback(g, position, terminal, stop)
          PROVE  IInv'
      BY <2>5, PlaybackActions
    <2>6. ASSUME NEW g \in Generations, Release(g) PROVE IInv'
      BY <2>6, ReleaseActions
    <2>7. CASE TakeAudio
      BY <2>7, TakeAudioActions
    <2>8. CASE TakeEvent \/ FinishInput \/ CloseDrain
      BY <2>8, QuietActions
    <2>9. CASE CloseAbort
      BY <2>9, FenceAllActions
    <2>10. CASE Closed
      <3>1. UNCHANGED vars
        BY <2>10 DEF Closed
      <3> QED
        BY <3>1, Stutter
    <2> QED
      BY <1>2, <2>1, <2>2, <2>3, <2>4, <2>5, <2>6, <2>7, <2>8, <2>9, <2>10 DEF HostStep
  <1>3. CASE HearStep
    BY <1>3, QuietActions, InterruptActions, FenceAllActions DEF HearStep
  <1>4. CASE CancelStep
    BY <1>4, QuietActions DEF CancelStep
  <1>5. CASE Failure
    BY <1>5, ThreadActions, FenceAllActions DEF Failure
  <1>6. CASE UNCHANGED vars
    BY <1>6, Stutter
  <1> QED
    BY <1>1, <1>2, <1>3, <1>4, <1>5, <1>6 DEF Next, Steady

(* The inductive invariant holds of every reachable state.                 *)
THEOREM Invariance == Spec => []IInv
  <1>1. Init => IInv
    BY InitIInv
  <1>2. IInv /\ [Next]_vars => IInv'
    BY NextIInv
  <1> QED
    BY <1>1, <1>2, PTL DEF Spec

(* The fields of Job and Impl and the threads' locals keep their types; in *)
(* particular no count of samples ever goes below zero.                    *)
THEOREM TypeCorrect == Spec => []TypeOK
  <1>1. IInv => TypeOK
    BY DEF IInv
  <1> QED
    BY <1>1, Invariance, PTL

(* What the host is given of a reply is gapless and, until it is fenced,   *)
(* complete, whatever the threads, the fences and the failures do.         *)
THEOREM AudioClockHolds == Spec => []AudioClock
  <1>1. IInv => AudioClock
    BY DEF IInv
  <1> QED
    BY <1>1, Invariance, PTL

(* END is owed exactly once from the retirement of a reply until the host  *)
(* takes it.                                                               *)
THEOREM EndOwedHolds == Spec => []EndOwed
  <1>1. IInv => EndOwed
    BY DEF IInv
  <1> QED
    BY <1>1, Invariance, PTL

(* Nothing is cancelled without being fenced: the bounded wait for output  *)
(* space may look at the fence alone.                                      *)
THEOREM CancelledIsFencedHolds == Spec => []CancelledIsFenced
  <1>1. IInv => CancelledIsFenced
    BY DEF IInv
  <1> QED
    BY <1>1, Invariance, PTL

(* A terminal receipt that is accepted is the truth about the reply.       *)
THEOREM ReceiptIsHonestHolds == Spec => []ReceiptIsHonest
  <1>1. IInv => ReceiptIsHonest
    BY DEF IInv
  <1> QED
    BY <1>1, Invariance, PTL

(* The same invariant holds of a session without failures.                 *)
THEOREM SteadyInvariance == SteadySafe => []IInv
  <1>1. Init => IInv
    BY InitIInv
  <1>2. IInv /\ [Steady]_vars => IInv'
    BY NextIInv DEF Next
  <1> QED
    BY <1>1, <1>2, PTL DEF SteadySafe

(* Fences are never taken back, and only TakeAudio delivers.               *)
LEMMA FencesStay ==
  ASSUME [Next]_vars
  PROVE  /\ fenced \subseteq fenced'
         /\ delivered' = delivered \/ TakeAudio
  <1> USE DEF vars, jobVars, clocks, marks, FenceAll, Fence, InterruptLocked,
       InterruptOverflow
  <1>1. ASSUME SynthStep PROVE fenced \subseteq fenced' /\ delivered' = delivered
    BY <1>1 DEF SynthStep, SynthFrame, SettleFrame, Fault, FaultFrame, PickJob,
       SynthExit, NextSegment, StartSegment, CheckChunk, NextChunk, EndSegment,
       NextCancelled, AdmitChunk, TakeSpace, ResetSegment, Unwind, Retire, SynthFault
  <1>2. ASSUME HostStep PROVE fenced \subseteq fenced' /\ (delivered' = delivered \/ TakeAudio)
    BY <1>2 DEF HostStep, Synthesize, SynthesizeOverflow, HostInterrupt,
       HostInterruptOverflow, InterruptFrame, Playback, Release, TakeEvent,
       FinishInput, CloseDrain, CloseAbort, Closed, TakeAudio
  <1>3. ASSUME HearStep PROVE fenced \subseteq fenced' /\ delivered' = delivered
    BY <1>3 DEF HearStep, HearSpeech, BargeIn, InterruptFrame, ControlFault,
       Fault, FaultFrame, Hear, SpeakerDone, InputDone
  <1>4. ASSUME CancelStep \/ Failure PROVE fenced \subseteq fenced' /\ delivered' = delivered
    BY <1>4 DEF CancelStep, DeliverCancel, Failure, SynthesisFails, SynthFrame,
       OutputDeadline, ModelDeadline, HearingFault, Fault, FaultFrame
  <1> QED
    BY <1>1, <1>2, <1>3, <1>4 DEF Next, Steady

(* A fence is final: not one more sample of the reply is given out, and    *)
(* nothing the synthesis thread still holds comes back into its queue.     *)
THEOREM FenceIsFinalHolds == Spec => FenceIsFinal
  <1>1. ASSUME IInv, IInv', [Next]_vars, NEW g \in fenced
        PROVE  /\ g \in fenced' /\ delivered'[g] = delivered[g]
               /\ queued[g] = 0 /\ queued'[g] = 0
    <2>1. g \in fenced' /\ queued[g] = 0 /\ queued'[g] = 0
      BY <1>1, FencesStay DEF IInv, FencedIsSilent
    <2>2. CASE delivered' = delivered
      BY <2>1, <2>2
    <2>3. CASE TakeAudio
      <3>1. PICK h \in Generations :
              /\ Least(h, Takeable)
              /\ delivered' = [delivered EXCEPT ![h] = @ + Head(audio[h]).n]
        BY <2>3 DEF TakeAudio
      <3>2. delivered \in [Generations -> Nat] /\ g \in Generations
        BY <1>1 DEF IInv, TypeOK, JobTypes
      <3>3. CASE g # h
        BY <2>1, <3>1, <3>2, <3>3
      <3>4. CASE g = h
        <4>1. audio[h] # <<>> /\ audio[h] \in Seq(ChunkType)
          BY <1>1, <3>1 DEF Least, Takeable, IInv, TypeOK, JobTypes
        <4>2. Head(audio[h]) = audio[h][1] /\ 1 \in 1..Len(audio[h])
          BY <4>1, TailOfSeq
        <4>3. audio[h][1].n = 0
          BY <1>1, <3>4, <4>2 DEF IInv, FencedIsSilent, Clocks
        <4> QED
          BY <2>1, <3>1, <3>2, <3>4, <4>2, <4>3
      <3> QED
        BY <3>3, <3>4
    <2> QED
      BY <1>1, <2>2, <2>3, FencesStay
  <1>2. IInv /\ IInv' /\ [Next]_vars =>
          [\A g \in fenced :
             g \in fenced' /\ delivered'[g] = delivered[g]
             /\ queued[g] = 0 /\ queued'[g] = 0]_vars
    BY <1>1
  <1> QED
    BY <1>2, Invariance, PTL DEF Spec, FenceIsFinal

----------------------------------------------------------------------------
(* The close of the session.                                               *)

(* Everything the session waits for before it closes.                      *)
CloseSame ==
    UNCHANGED <<closing, input, speakerJobs, known, retired, endTaken, receipts,
                stopping>>

(* What a step may do to these: nothing, break the session off, look again *)
(* whether it may close, or take the condition itself further away.        *)
LEMMA CloseSteps ==
  ASSUME IInv, [Next]_vars
  PROVE  \/ CloseSame
         \/ stopping'
         \/ MaybeClose
         \/ UNCHANGED closing /\ ~closing
         \/ input' \in {"open", "cutoff"}
         \/ \E g \in known' : g \notin endTaken'
         \/ \E g \in known : Resolved(g) /\ known' = known \ {g}
              /\ UNCHANGED <<closing, input, speakerJobs, retired, endTaken,
                             receipts, stopping>>
  <1> USE DEF jobVars, clocks, marks, sessVars, lifeVars, hearVars
  <1>1. ASSUME \/ PickJob \/ SynthExit \/ NextSegment \/ StartSegment \/ CheckChunk
               \/ NextChunk \/ EndSegment \/ NextCancelled
        PROVE  CloseSame
    BY <1>1 DEF CloseSame, PickJob, SynthExit, NextSegment, StartSegment,
       CheckChunk, NextChunk, EndSegment, NextCancelled, SynthFrame
  <1>2. ASSUME \/ AdmitChunk \/ TakeSpace \/ ResetSegment \/ Unwind
               \/ SynthesisFails \/ OutputDeadline
        PROVE  CloseSame
    BY <1>2 DEF CloseSame, AdmitChunk, TakeSpace, SettleFrame, ResetSegment,
       Unwind, SynthesisFails, OutputDeadline, SynthFrame
  <1>3. ASSUME Retire PROVE MaybeClose \/ \E g \in known' : g \notin endTaken'
    <2>1. running \in known \ retired
      BY <1>3 DEF Retire, IInv, ThreadOwnsReply, Busy
    <2>2. running \notin endTaken /\ UNCHANGED <<known, endTaken>>
      BY <1>3, <2>1 DEF Retire, IInv, TypeOK, JobTypes, EndOwed
    <2> QED
      BY <2>1, <2>2
  <1>4. ASSUME \/ SynthFault \/ ControlFault \/ HearingFault \/ ModelDeadline
               \/ CloseAbort
        PROVE  stopping'
    BY <1>4 DEF SynthFault, ControlFault, HearingFault, ModelDeadline,
       CloseAbort, Fault, FenceAll
  <1>5. ASSUME NEW g \in Generations,
               \/ \E parts \in 1..MaxSegments : Synthesize(g, parts)
               \/ SynthesizeOverflow(g)
        PROVE  UNCHANGED closing /\ ~closing
    BY <1>5 DEF Synthesize, SynthesizeOverflow, MaySynthesize
  <1>6. ASSUME NEW g \in Generations,
               \/ \E cancel \in BOOLEAN : HostInterrupt(g, cancel)
               \/ HostInterruptOverflow(g)
        PROVE  CloseSame
    BY <1>6 DEF CloseSame, HostInterrupt, HostInterruptOverflow, InterruptFrame
  <1>7. ASSUME NEW g \in Generations, NEW position \in 0..delivered[g],
               NEW terminal \in BOOLEAN, NEW stop \in BOOLEAN,
               Playback(g, position, terminal, stop)
        PROVE  MaybeClose
    BY <1>7 DEF Playback
  <1>8. ASSUME NEW g \in Generations, Release(g)
        PROVE  /\ g \in known /\ Resolved(g) /\ known' = known \ {g}
               /\ UNCHANGED <<closing, input, speakerJobs, retired, endTaken,
                              receipts, stopping>>
    BY <1>8 DEF Release
  <1>9. ASSUME TakeAudio PROVE CloseSame \/ MaybeClose
    BY <1>9 DEF CloseSame, TakeAudio
  <1>10. ASSUME TakeEvent \/ HearSpeech \/ BargeIn PROVE CloseSame
    BY <1>10 DEF CloseSame, TakeEvent, HearSpeech, BargeIn, InterruptFrame
  <1>11. ASSUME FinishInput \/ \E utterances \in {0, 1} : Hear(utterances)
         PROVE  input' \in {"open", "cutoff"}
    BY <1>11 DEF FinishInput, Hear, HearingOpen
  <1>12. ASSUME CloseDrain \/ SpeakerDone \/ InputDone PROVE MaybeClose
    BY <1>12 DEF CloseDrain, SpeakerDone, InputDone
  <1>13. ASSUME CancelStep PROVE CloseSame
    BY <1>13 DEF CloseSame, CancelStep, DeliverCancel
  <1>14. ASSUME Closed \/ UNCHANGED vars PROVE CloseSame
    BY <1>14 DEF CloseSame, Closed, vars
  <1>15. ASSUME SynthStep \/ CancelStep \/ Failure
         PROVE  CloseSame \/ stopping' \/ MaybeClose \/ \E g \in known' : g \notin endTaken'
    BY <1>15, <1>1, <1>2, <1>3, <1>4, <1>13 DEF SynthStep, Failure
  <1>16. ASSUME HostStep
         PROVE  \/ CloseSame
                \/ stopping'
                \/ MaybeClose
                \/ UNCHANGED closing /\ ~closing
                \/ input' \in {"open", "cutoff"}
                \/ \E g \in known : Resolved(g) /\ known' = known \ {g}
                     /\ UNCHANGED <<closing, input, speakerJobs, retired, endTaken,
                                    receipts, stopping>>
    BY <1>16, <1>4, <1>5, <1>6, <1>7, <1>8, <1>9, <1>10, <1>11, <1>12, <1>14
       DEF HostStep
  <1>17. ASSUME HearStep
         PROVE  CloseSame \/ stopping' \/ MaybeClose \/ input' \in {"open", "cutoff"}
    BY <1>17, <1>4, <1>10, <1>11, <1>12 DEF HearStep
  <1> QED
    BY <1>14, <1>15, <1>16, <1>17 DEF Next, Steady

LEMMA NoMissedCloseStep ==
  ASSUME IInv, NoMissedClose, [Next]_vars
  PROVE  NoMissedClose'
  <1> SUFFICES ASSUME CloseReady' PROVE stopping'
    BY DEF NoMissedClose
  <1>1. CASE CloseSame
    BY <1>1 DEF CloseSame, NoMissedClose, CloseReady, Resolved
  <1>2. CASE MaybeClose
    BY <1>2 DEF MaybeClose
  <1>3. CASE \E g \in known : Resolved(g) /\ known' = known \ {g}
               /\ UNCHANGED <<closing, input, speakerJobs, retired, endTaken,
                              receipts, stopping>>
    BY <1>3 DEF NoMissedClose, CloseReady, Resolved
  <1>4. ~(UNCHANGED closing /\ ~closing) /\ input' \notin {"open", "cutoff"}
    BY DEF CloseReady
  <1>5. \A g \in known' : g \in endTaken'
    BY DEF CloseReady, Resolved
  <1> QED
    BY <1>1, <1>2, <1>3, <1>4, <1>5, CloseSteps

(* The session never misses the moment to close: whichever thread makes    *)
(* the last condition true calls maybe_close_locked in the same critical   *)
(* section.                                                                *)
THEOREM NoMissedCloseHolds == Spec => []NoMissedClose
  <1>1. Init => NoMissedClose
    BY DEF Init, NoMissedClose, CloseReady
  <1>2. IInv /\ NoMissedClose /\ [Next]_vars => NoMissedClose'
    BY NoMissedCloseStep
  <1> QED
    BY <1>1, <1>2, Invariance, PTL DEF Spec

----------------------------------------------------------------------------
(* Released replies.                                                       *)

(* The events in the queue are about replies the session still holds.      *)
EventsKnown == \A i \in 1..Len(events) : events[i].gen \in known \cup {None}

(* What a step does to the event queue and to the map of jobs.             *)
EventsSame == UNCHANGED <<events, known>>
Emits(e) ==
    /\ events' = Append(events, e)
    /\ known \subseteq known' /\ e.gen \in known' \cup {None}

LEMMA EventGen ==
  ASSUME NEW k, NEW g
  PROVE  Event(k, g).gen = g
  BY DEF Event

LEMMA EmitSteps ==
  ASSUME IInv, [Next]_vars
  PROVE  \/ EventsSame
         \/ \E k \in {"start", "end", "cancelled", "interruption", "heard"},
               g \in Generations \cup {None} : Emits(Event(k, g))
         \/ events # <<>> /\ events' = Tail(events) /\ UNCHANGED known
         \/ \E g \in known : known' = known \ {g} /\ UNCHANGED events
              /\ \A i \in 1..Len(events) : events[i].gen # g
         \/ \E g \in Generations, k \in {"end", "cancelled"} :
              /\ known' = known \cup {g} /\ current \in known
              /\ events' = events \o Append(<<Event(k, current)>>, Event("start", g))
  <1> DEFINE Kinds == {"start", "end", "cancelled", "interruption", "heard"}
             Emit == \E k \in Kinds, g \in Generations \cup {None} : Emits(Event(k, g))
  <1>a. known \subseteq Generations
    BY DEF IInv, TypeOK, JobTypes
  <1>b. ASSUME NEW g \in known, events' = Append(events, RetiredEvent(g)), UNCHANGED known
        PROVE  Emit
    <2>1. RetiredEvent(g) = Event(IF g \in cancelled THEN "cancelled" ELSE "end", g)
      BY DEF RetiredEvent
    <2>2. \E k \in Kinds : RetiredEvent(g) = Event(k, g)
      BY <2>1
    <2>3. g \in Generations \cup {None} /\ g \in known'
      BY <1>a, <1>b
    <2> QED
      BY <1>b, <2>2, <2>3, EventGen DEF Emits
  <1>c. ASSUME NEW k \in Kinds, NEW g \in known \cup {None},
               events' = Append(events, Event(k, g)), UNCHANGED known
        PROVE  Emit
    <2>1. g \in Generations \cup {None} /\ Event(k, g).gen = g
      BY <1>a, EventGen
    <2> QED
      BY <1>c, <2>1 DEF Emits
  <1>d. "heard" \in Kinds /\ "interruption" \in Kinds /\ None \in known \cup {None}
    OBVIOUS
  <1> HIDE DEF Emit, Kinds
  <1> USE DEF jobVars, clocks, marks, sessVars
  <1>1. ASSUME \/ PickJob \/ SynthExit \/ NextSegment \/ StartSegment \/ CheckChunk
               \/ NextChunk \/ EndSegment \/ NextCancelled
        PROVE  EventsSame
    BY <1>1 DEF EventsSame, PickJob, SynthExit, NextSegment, StartSegment,
       CheckChunk, NextChunk, EndSegment, NextCancelled, SynthFrame
  <1>2. ASSUME \/ AdmitChunk \/ TakeSpace \/ ResetSegment \/ Unwind
               \/ SynthesisFails \/ OutputDeadline
        PROVE  EventsSame
    BY <1>2 DEF EventsSame, AdmitChunk, TakeSpace, SettleFrame, ResetSegment,
       Unwind, SynthesisFails, OutputDeadline, SynthFrame
  <1>3. ASSUME Retire PROVE EventsSame \/ Emit
    <2>1. running \in known
      BY <1>3 DEF Retire, IInv, ThreadOwnsReply, Busy
    <2>2. UNCHANGED known /\ (UNCHANGED events \/ events' = Append(events, RetiredEvent(running)))
      BY <1>3 DEF Retire
    <2> QED
      BY <2>1, <2>2, <1>b DEF EventsSame
  <1>4. ASSUME \/ SynthFault \/ ControlFault \/ HearingFault \/ ModelDeadline
               \/ CloseAbort
        PROVE  EventsSame
    BY <1>4 DEF EventsSame, SynthFault, ControlFault, HearingFault, ModelDeadline,
       CloseAbort, FaultFrame
  <1>5. ASSUME NEW g \in Generations, SynthesizeOverflow(g)
        PROVE  EventsSame \/ Emit
    <2>1. CASE Displaced
      <3>1. current \in known
        BY <2>1 DEF Displaced, IInv, Fresh
      <3>2. UNCHANGED known /\ (UNCHANGED events \/ events' = Append(events, RetiredEvent(current)))
        BY <1>5, <2>1 DEF SynthesizeOverflow
      <3> QED
        BY <3>1, <3>2, <1>b DEF EventsSame
    <2>2. CASE ~Displaced
      BY <1>5, <2>2 DEF SynthesizeOverflow, EventsSame
    <2> QED
      BY <2>1, <2>2
  <1>6. ASSUME NEW g \in Generations, NEW parts \in 1..MaxSegments, Synthesize(g, parts)
        PROVE  \/ Emit
               \/ \E k \in {"end", "cancelled"} :
                    /\ known' = known \cup {g} /\ current \in known
                    /\ events' = events \o Append(<<Event(k, current)>>, Event("start", g))
    <2>1. known' = known \cup {g}
      BY <1>6 DEF Synthesize
    <2>2. events \in Seq(EventType)
      BY DEF IInv, TypeOK, SessionTypes
    <2>3. CASE Displaced
      <3>1. current \in known
        BY <2>3 DEF Displaced, IInv, Fresh
      <3>2. events' = events \o Append(<<RetiredEvent(current)>>, Event("start", g))
        BY <1>6, <2>3 DEF Synthesize
      <3>3. PICK k \in {"end", "cancelled"} : RetiredEvent(current) = Event(k, current)
        BY DEF RetiredEvent
      <3> QED
        BY <2>1, <3>1, <3>2, <3>3
    <2>4. CASE ~Displaced
      <3>1. events' = events \o Append(<<>>, Event("start", g))
        BY <1>6, <2>4 DEF Synthesize
      <3>2. Event("start", g) \in EventType
        BY EventIn
      <3>3. events' = Append(events, Event("start", g))
        BY <2>2, <3>1, <3>2
      <3>4. "start" \in Kinds /\ Event("start", g).gen = g
        BY EventGen DEF Kinds
      <3> QED
        BY <2>1, <3>3, <3>4 DEF Emit, Emits
    <2> QED
      BY <2>3, <2>4
  <1>7. ASSUME NEW g \in known, InterruptFrame,
               \/ \E cancel \in BOOLEAN : InterruptLocked(g, cancel)
               \/ InterruptOverflow(g)
        PROVE  EventsSame \/ Emit
    <2>1. UNCHANGED events \/ events' = Append(events, Event("interruption", g))
      BY <1>7 DEF InterruptLocked, InterruptOverflow
    <2>2. UNCHANGED known
      BY <1>7 DEF InterruptFrame
    <2> QED
      BY <1>c, <1>d, <2>1, <2>2 DEF EventsSame
  <1>8. ASSUME NEW g \in Generations,
               \/ \E cancel \in BOOLEAN : HostInterrupt(g, cancel)
               \/ HostInterruptOverflow(g)
        PROVE  EventsSame \/ Emit
    BY <1>8, <1>7 DEF HostInterrupt, HostInterruptOverflow
  <1>9. ASSUME BargeIn PROVE EventsSame \/ Emit
    <2>1. CASE UNCHANGED events
      BY <1>9, <2>1 DEF BargeIn, InterruptFrame, EventsSame
    <2>2. CASE ~UNCHANGED events
      <3>1. \E g \in known : InterruptLocked(g, TRUE) \/ InterruptOverflow(g)
        BY <1>9, <2>2 DEF BargeIn
      <3> QED
        BY <1>9, <3>1, <1>7 DEF BargeIn
    <2> QED
      BY <2>1, <2>2
  <1>10. ASSUME NEW g \in Generations, NEW position \in 0..delivered[g],
                NEW terminal \in BOOLEAN, NEW stop \in BOOLEAN,
                Playback(g, position, terminal, stop)
         PROVE  EventsSame
    BY <1>10 DEF EventsSame, Playback
  <1>11. ASSUME NEW g \in Generations, Release(g)
         PROVE  /\ g \in known /\ known' = known \ {g} /\ UNCHANGED events
                /\ \A i \in 1..Len(events) : events[i].gen # g
    BY <1>11 DEF Release
  <1>12. ASSUME TakeAudio \/ FinishInput \/ CloseDrain \/ HearSpeech \/ CancelStep
         PROVE  EventsSame
    BY <1>12 DEF EventsSame, TakeAudio, FinishInput, CloseDrain, HearSpeech,
       CancelStep, DeliverCancel
  <1>13. ASSUME \/ \E utterances \in {0, 1} : Hear(utterances)
                \/ SpeakerDone \/ InputDone
         PROVE  EventsSame \/ Emit
    <2>1. UNCHANGED known /\ (UNCHANGED events \/ events' = Append(events, Event("heard", None)))
      BY <1>13 DEF Hear, SpeakerDone, InputDone
    <2> QED
      BY <1>c, <1>d, <2>1 DEF EventsSame
  <1>14. ASSUME TakeEvent PROVE events # <<>> /\ events' = Tail(events) /\ UNCHANGED known
    BY <1>14 DEF TakeEvent
  <1>15. ASSUME Closed \/ UNCHANGED vars PROVE EventsSame
    BY <1>15 DEF EventsSame, Closed, vars
  <1>16. ASSUME SynthStep \/ CancelStep \/ Failure PROVE EventsSame \/ Emit
    BY <1>16, <1>1, <1>2, <1>3, <1>4, <1>12 DEF SynthStep, Failure
  <1>17. ASSUME HearStep PROVE EventsSame \/ Emit
    BY <1>17, <1>4, <1>9, <1>12, <1>13 DEF HearStep
  <1>18. ASSUME HostStep
         PROVE  \/ EventsSame
                \/ Emit
                \/ events # <<>> /\ events' = Tail(events) /\ UNCHANGED known
                \/ \E g \in known : known' = known \ {g} /\ UNCHANGED events
                     /\ \A i \in 1..Len(events) : events[i].gen # g
                \/ \E g \in Generations, k \in {"end", "cancelled"} :
                     /\ known' = known \cup {g} /\ current \in known
                     /\ events' = events \o Append(<<Event(k, current)>>, Event("start", g))
    BY <1>18, <1>4, <1>5, <1>6, <1>8, <1>10, <1>11, <1>12, <1>14, <1>15 DEF HostStep
  <1>19. \/ EventsSame
         \/ Emit
         \/ events # <<>> /\ events' = Tail(events) /\ UNCHANGED known
         \/ \E g \in known : known' = known \ {g} /\ UNCHANGED events
              /\ \A i \in 1..Len(events) : events[i].gen # g
         \/ \E g \in Generations, k \in {"end", "cancelled"} :
              /\ known' = known \cup {g} /\ current \in known
              /\ events' = events \o Append(<<Event(k, current)>>, Event("start", g))
    BY <1>15, <1>16, <1>17, <1>18 DEF Next, Steady
  <1> QED
    BY <1>19 DEF Emit, Kinds

LEMMA EventsKnownStep ==
  ASSUME IInv, EventsKnown, [Next]_vars
  PROVE  EventsKnown'
  <1>1. events \in Seq(EventType) /\ known \subseteq Generations
    BY DEF IInv, TypeOK, SessionTypes, JobTypes
  <1>2. CASE EventsSame
    BY <1>2 DEF EventsSame, EventsKnown
  <1>3. ASSUME NEW k \in {"start", "end", "cancelled", "interruption", "heard"},
               NEW g \in Generations \cup {None}, Emits(Event(k, g))
        PROVE  EventsKnown'
    <2>1. Event(k, g) \in EventType
      BY EventIn
    <2>2. events' = Append(events, Event(k, g)) /\ known \subseteq known'
          /\ Event(k, g).gen \in known' \cup {None}
      BY <1>3 DEF Emits
    <2>3. /\ Len(events) \in Nat /\ Len(events') = Len(events) + 1
          /\ events'[Len(events) + 1] = Event(k, g)
          /\ \A i \in 1..Len(events) : events'[i] = events[i]
      BY <1>1, <2>1, <2>2, AppendToSeq
    <2>4. ASSUME NEW i \in 1..Len(events') PROVE events'[i].gen \in known' \cup {None}
      <3>1. CASE i \in 1..Len(events)
        BY <2>2, <2>3, <3>1 DEF EventsKnown
      <3>2. CASE i = Len(events) + 1
        BY <2>2, <2>3, <3>2
      <3> QED
        BY <2>3, <3>1, <3>2
    <2> QED
      BY <2>4 DEF EventsKnown
  <1>4. CASE events # <<>> /\ events' = Tail(events) /\ UNCHANGED known
    <2>1. /\ Len(events) \in Nat \ {0} /\ Len(events') = Len(events) - 1
          /\ \A i \in 1..(Len(events) - 1) : events'[i] = events[i + 1]
      BY <1>1, <1>4, TailOfSeq
    <2>2. \A i \in 1..Len(events') : events'[i] = events[i + 1] /\ i + 1 \in 1..Len(events)
      BY <2>1
    <2> QED
      BY <1>4, <2>2 DEF EventsKnown
  <1>5. CASE \E g \in known : known' = known \ {g} /\ UNCHANGED events
               /\ \A i \in 1..Len(events) : events[i].gen # g
    BY <1>5 DEF EventsKnown
  <1>6. ASSUME NEW g \in Generations, NEW k \in {"end", "cancelled"},
               known' = known \cup {g}, current \in known,
               events' = events \o Append(<<Event(k, current)>>, Event("start", g))
        PROVE  EventsKnown'
    <2>1. Event(k, current) \in EventType /\ Event("start", g) \in EventType
      BY <1>1, <1>6, EventIn
    <2>2. Event(k, current).gen = current /\ Event("start", g).gen = g
      BY EventGen
    <2> DEFINE e == Event(k, current)
               f == Event("start", g)
    <2>3. e.gen \in known' /\ f.gen \in known' /\ e \in EventType /\ f \in EventType
      BY <1>6, <2>1, <2>2
    <2>4. events' = events \o Append(<<e>>, f)
      BY <1>6
    <2> HIDE DEF e, f
    <2> DEFINE r == Append(<<e>>, f)
    <2>7. <<e>> \in Seq(EventType) /\ Len(<<e>>) = 1 /\ <<e>>[1] = e
      BY <2>3
    <2>8. r \in Seq(EventType) /\ Len(r) = 2 /\ r[1] = e /\ r[2] = f
      BY <2>3, <2>7, AppendToSeq
    <2>9. events' = events \o r
      BY <2>4
    <2> HIDE DEF r
    <2>10. 1 \in 1..Len(r) /\ 2 \in 1..Len(r)
      BY <2>8
    <2>11. /\ Len(events) \in Nat /\ Len(events \o r) = Len(events) + Len(r)
           /\ \A i \in 1..Len(events) : (events \o r)[i] = events[i]
           /\ \A i \in 1..Len(r) : (events \o r)[Len(events) + i] = r[i]
      <3>1. events \in Seq(EventType) /\ r \in Seq(EventType)
        BY <1>1, <2>8
      <3> QED
        BY <3>1, SMT
    <2>12. /\ (events \o r)[Len(events) + 1] = e
           /\ (events \o r)[Len(events) + 2] = f
      BY <2>8, <2>10, <2>11
    <2>5. /\ Len(events) \in Nat /\ Len(events') = Len(events) + 2
          /\ events'[Len(events) + 1] = e /\ events'[Len(events) + 2] = f
          /\ \A i \in 1..Len(events) : events'[i] = events[i]
      BY <2>8, <2>9, <2>11, <2>12
    <2>6. ASSUME NEW i \in 1..Len(events') PROVE events'[i].gen \in known' \cup {None}
      <3>1. CASE i \in 1..Len(events)
        BY <1>6, <2>5, <3>1 DEF EventsKnown
      <3>2. CASE i = Len(events) + 1 \/ i = Len(events) + 2
        BY <2>3, <2>5, <3>2
      <3> QED
        BY <2>5, <3>1, <3>2
    <2> QED
      BY <2>6 DEF EventsKnown
  <1> QED
    BY <1>2, <1>3, <1>4, <1>5, <1>6, EmitSteps

LEMMA ReleasedFollows == IInv /\ EventsKnown => ReleasedIsGone
  <1> SUFFICES ASSUME IInv, EventsKnown PROVE ReleasedIsGone
    OBVIOUS
  <1>1. running \in known \cup {None} \/ synth \in {"failing", "exited"}
    BY DEF IInv, TypeOK, SessionTypes, ThreadOwnsReply, Busy, Places
  <1>2. \A g \in Generations \ known : audio[g] = <<>> /\ queued[g] = 0
    BY DEF IInv, Gone
  <1> QED
    BY <1>1, <1>2 DEF ReleasedIsGone, EventsKnown

(* A reply the host has released is gone for good: no event names it, no   *)
(* thread works on it, nothing of it is queued, whatever barge-ins and     *)
(* cancel calls were on their way when it was released.                    *)
THEOREM ReleasedIsGoneHolds == Spec => []ReleasedIsGone
  <1>1. Init => EventsKnown
    BY DEF Init, EventsKnown
  <1>2. IInv /\ EventsKnown /\ [Next]_vars => EventsKnown'
    BY EventsKnownStep
  <1> QED
    BY <1>1, <1>2, Invariance, ReleasedFollows, PTL DEF Spec

----------------------------------------------------------------------------
(* Cancel calls on their way.                                              *)

(* A cancel call is made for a cancelled reply; so the number up to which  *)
(* the synthesizer refuses to start is that of a cancelled reply, or the   *)
(* session has stopped.                                                    *)
CallsAreForCancelled ==
    /\ stopping \/ cancelCalls \subseteq cancelled
    /\ cancelThrough = 0 \/ stopping \/ cancelThrough \in cancelled
(* Only the last reply may be unfinished and not cancelled.                *)
OthersAreOver ==
    /\ current = lastGeneration
    /\ \A g \in known : g = current \/ g \in retired \/ g \in cancelled
(* A stream is marked cancelled, and its exception raised, only where the  *)
(* thread will see that its reply was abandoned.                           *)
MarksAreDue ==
    /\ streamCancelled /\ Streaming => Abandoned
    /\ synth = "unwind" => Abandoned
StrayInv ==
    /\ CallsAreForCancelled /\ OthersAreOver /\ MarksAreDue
    /\ NoStrayCancellation

(* What is cancelled, retired or stopped stays so.                         *)
LEMMA MarksStay ==
  ASSUME [Next]_vars
  PROVE  /\ cancelled \subseteq cancelled' /\ retired \subseteq retired'
         /\ stopping => stopping'
  <1> DEFINE Grow == cancelled \subseteq cancelled' /\ retired \subseteq retired' /\ (stopping => stopping')
  <1> USE DEF vars, jobVars, clocks, marks, lifeVars, FenceAll, InterruptLocked,
       InterruptOverflow, MaybeClose
  <1>1. ASSUME SynthStep
        PROVE  Grow
    <2>1. CASE ~Retire
      <3>1. ASSUME \/ PickJob \/ SynthExit \/ NextSegment \/ StartSegment \/ CheckChunk
                   \/ NextChunk \/ EndSegment \/ NextCancelled
            PROVE  UNCHANGED <<cancelled, retired, stopping>>
        BY <3>1 DEF SynthFrame, PickJob, SynthExit, NextSegment, StartSegment,
           CheckChunk, NextChunk, EndSegment, NextCancelled
      <3>2. ASSUME AdmitChunk \/ TakeSpace \/ ResetSegment \/ Unwind
            PROVE  UNCHANGED <<cancelled, retired, stopping>>
        BY <3>2 DEF SynthFrame, SettleFrame, AdmitChunk, TakeSpace, ResetSegment, Unwind
      <3>3. ASSUME SynthFault PROVE UNCHANGED <<cancelled, retired>> /\ stopping'
        BY <3>3 DEF SynthFault, Fault, FaultFrame
      <3> QED
        BY <1>1, <2>1, <3>1, <3>2, <3>3 DEF SynthStep
    <2>2. CASE Retire
      BY <2>2 DEF Retire
    <2> QED
      BY <2>1, <2>2
  <1>2. ASSUME HostStep
        PROVE  Grow
    <2>1. ASSUME NEW g \in Generations,
                 \/ \E parts \in 1..MaxSegments : Synthesize(g, parts)
                 \/ SynthesizeOverflow(g)
                 \/ \E cancel \in BOOLEAN : HostInterrupt(g, cancel)
                 \/ HostInterruptOverflow(g)
                 \/ Release(g)
          PROVE  Grow
      BY <2>1 DEF Synthesize, SynthesizeOverflow, RetireDisplaced, HostInterrupt,
         HostInterruptOverflow, InterruptFrame, Release
    <2>2. ASSUME NEW g \in Generations, NEW position \in 0..delivered[g],
                 NEW terminal \in BOOLEAN, NEW stop \in BOOLEAN,
                 Playback(g, position, terminal, stop)
          PROVE  Grow
      BY <2>2 DEF Playback
    <2>3. ASSUME TakeAudio \/ TakeEvent \/ FinishInput \/ CloseDrain \/ CloseAbort \/ Closed
          PROVE  Grow
      BY <2>3 DEF TakeAudio, TakeEvent, FinishInput, CloseDrain, CloseAbort, Closed
    <2> QED
      BY <1>2, <2>1, <2>2, <2>3 DEF HostStep
  <1>3. ASSUME HearStep
        PROVE  Grow
    <2>1. ASSUME BargeIn PROVE Grow
      <3>1. UNCHANGED <<retired, stopping>>
        BY <2>1 DEF BargeIn, InterruptFrame
      <3>2. cancelled \subseteq cancelled'
        BY <2>1 DEF BargeIn
      <3> QED
        BY <3>1, <3>2
    <2>2. ASSUME \/ HearSpeech \/ SpeakerDone \/ InputDone \/ ControlFault
                 \/ \E utterances \in {0, 1} : Hear(utterances)
          PROVE  Grow
      <3>1. UNCHANGED <<cancelled, retired>>
        BY <2>2 DEF HearSpeech, ControlFault, FaultFrame, Hear, SpeakerDone, InputDone
      <3>2. UNCHANGED stopping \/ stopping' = TRUE \/ MaybeClose
        BY <2>2 DEF HearSpeech, ControlFault, Fault, Hear, SpeakerDone, InputDone
      <3>3. CASE MaybeClose
        BY <3>1, <3>3
      <3>4. CASE UNCHANGED stopping \/ stopping' = TRUE
        BY <3>1, <3>4
      <3> QED
        BY <3>2, <3>3, <3>4
    <2> QED
      BY <1>3, <2>1, <2>2 DEF HearStep
  <1>4. ASSUME CancelStep \/ Failure
        PROVE  Grow
    BY <1>4 DEF CancelStep, DeliverCancel, Failure, SynthesisFails, SynthFrame,
       OutputDeadline, ModelDeadline, HearingFault, Fault, FaultFrame
  <1> QED
    BY <1>1, <1>2, <1>3, <1>4 DEF Next, Steady

(* What a step does to the cancel calls.                                   *)
CallsSame == UNCHANGED <<cancelCalls, cancelThrough>>
LEMMA CallSteps ==
  ASSUME IInv, [Next]_vars
  PROVE  \/ CallsSame
         \/ stopping'
         \/ UNCHANGED cancelThrough
            /\ \E g \in cancelled' : cancelCalls' \subseteq cancelCalls \cup {g}
         \/ \E g \in cancelCalls : cancelCalls' \subseteq cancelCalls
                                   /\ cancelThrough' \in {cancelThrough, g}
  <1> DEFINE Calls == UNCHANGED cancelThrough
                 /\ \E g \in cancelled' : cancelCalls' \subseteq cancelCalls \cup {g}
  <1> USE DEF vars, sessVars, ttsVars
  <1>1. ASSUME SynthStep PROVE CallsSame \/ stopping'
    <2>1. CASE SynthFault
      BY <2>1 DEF SynthFault, Fault, FenceAll
    <2>2. CASE ~SynthFault
      BY <1>1, <2>2 DEF CallsSame, SynthStep, SynthFrame, SettleFrame, PickJob,
         SynthExit, NextSegment, StartSegment, CheckChunk, NextChunk, EndSegment,
         NextCancelled, AdmitChunk, TakeSpace, ResetSegment, Unwind, Retire
    <2> QED
      BY <2>1, <2>2
  <1>2. ASSUME NEW g \in Generations, NEW cancel \in BOOLEAN,
               InterruptLocked(g, cancel) \/ InterruptOverflow(g), InterruptFrame
        PROVE  CallsSame \/ Calls
    <2>1. UNCHANGED cancelThrough
      BY <1>2 DEF InterruptFrame
    <2>2. UNCHANGED cancelCalls \/ (g \in cancelled' /\ cancelCalls' = cancelCalls \cup {g})
      BY <1>2 DEF InterruptLocked, InterruptOverflow
    <2> QED
      BY <2>1, <2>2 DEF CallsSame
  <1>3. ASSUME HostStep PROVE CallsSame \/ Calls \/ stopping'
    <2>1. ASSUME NEW g \in Generations,
                 \/ \E parts \in 1..MaxSegments : Synthesize(g, parts)
                 \/ SynthesizeOverflow(g)
                 \/ Release(g)
          PROVE  CallsSame
      BY <2>1 DEF CallsSame, Synthesize, SynthesizeOverflow, Release
    <2>2. ASSUME NEW g \in Generations, NEW cancel \in BOOLEAN,
                 HostInterrupt(g, cancel) \/ HostInterruptOverflow(g)
          PROVE  CallsSame \/ Calls
      BY <2>2, <1>2 DEF HostInterrupt, HostInterruptOverflow
    <2>3. ASSUME NEW g \in Generations, NEW position \in 0..delivered[g],
                 NEW terminal \in BOOLEAN, NEW stop \in BOOLEAN,
                 Playback(g, position, terminal, stop)
          PROVE  CallsSame
      BY <2>3 DEF CallsSame, Playback
    <2>4. ASSUME TakeAudio \/ TakeEvent \/ FinishInput \/ CloseDrain \/ Closed
          PROVE  CallsSame
      BY <2>4 DEF CallsSame, TakeAudio, TakeEvent, FinishInput, CloseDrain, Closed
    <2>5. ASSUME CloseAbort PROVE stopping'
      BY <2>5 DEF CloseAbort, FenceAll
    <2>6. ASSUME NEW g \in Generations, HostInterruptOverflow(g)
          PROVE  CallsSame \/ Calls
      BY <2>2, <2>6
    <2> HIDE DEF Calls
    <2> QED
      BY <1>3, <2>1, <2>2, <2>3, <2>4, <2>5, <2>6 DEF HostStep
  <1>4. ASSUME HearStep PROVE CallsSame \/ Calls \/ stopping'
    <2>1. ASSUME BargeIn PROVE CallsSame \/ Calls
      <3>1. CASE UNCHANGED cancelCalls
        BY <2>1, <3>1 DEF BargeIn, InterruptFrame, CallsSame
      <3>2. CASE ~UNCHANGED cancelCalls
        <4>1. \E g \in Generations : InterruptLocked(g, TRUE) \/ InterruptOverflow(g)
          BY <2>1, <3>2 DEF BargeIn
        <4> QED
          BY <2>1, <4>1, <1>2 DEF BargeIn
      <3> QED
        BY <3>1, <3>2
    <2>2. ASSUME \/ HearSpeech \/ SpeakerDone \/ InputDone
                 \/ \E utterances \in {0, 1} : Hear(utterances)
          PROVE  CallsSame
      BY <2>2 DEF CallsSame, HearSpeech, Hear, SpeakerDone, InputDone
    <2>3. ASSUME ControlFault PROVE stopping'
      BY <2>3 DEF ControlFault, Fault, FenceAll
    <2> HIDE DEF Calls
    <2> QED
      BY <1>4, <2>1, <2>2, <2>3 DEF HearStep
  <1>5. ASSUME CancelStep
        PROVE  \E g \in cancelCalls : cancelCalls' \subseteq cancelCalls
                                      /\ cancelThrough' \in {cancelThrough, g}
    BY <1>5 DEF CancelStep, DeliverCancel, Max2
  <1>6. ASSUME Failure PROVE CallsSame \/ stopping'
    BY <1>6 DEF CallsSame, Failure, SynthesisFails, SynthFrame, OutputDeadline,
       ModelDeadline, HearingFault, Fault, FenceAll
  <1>7. ASSUME UNCHANGED vars PROVE CallsSame
    BY <1>7 DEF CallsSame
  <1> QED
    BY <1>1, <1>3, <1>4, <1>5, <1>6, <1>7 DEF Next, Steady

LEMMA CallsStep ==
  ASSUME IInv, CallsAreForCancelled, [Next]_vars
  PROVE  CallsAreForCancelled'
  <1> USE MarksStay
  <1>1. CASE CallsSame
    BY <1>1 DEF CallsSame, CallsAreForCancelled
  <1>2. CASE stopping'
    BY <1>2 DEF CallsAreForCancelled
  <1>3. CASE UNCHANGED cancelThrough
             /\ \E g \in cancelled' : cancelCalls' \subseteq cancelCalls \cup {g}
    BY <1>3 DEF CallsAreForCancelled
  <1>4. CASE \E g \in cancelCalls : cancelCalls' \subseteq cancelCalls
                                    /\ cancelThrough' \in {cancelThrough, g}
    BY <1>4 DEF CallsAreForCancelled
  <1> QED
    BY <1>1, <1>2, <1>3, <1>4, CallSteps

(* A new reply is admitted by synthesize and by nothing else.              *)
LEMMA AdmissionSteps ==
  ASSUME [Next]_vars
  PROVE  \/ known' \subseteq known /\ UNCHANGED <<current, lastGeneration>>
         \/ \E g \in Generations, parts \in 1..MaxSegments : Synthesize(g, parts)
  <1> DEFINE NoneNew == known' \subseteq known /\ UNCHANGED <<current, lastGeneration>>
  <1> USE DEF vars, jobVars, clocks, marks, sessVars
  <1>1. ASSUME SynthStep PROVE NoneNew
    BY <1>1 DEF SynthStep, SynthFrame, SettleFrame, Fault, FaultFrame, PickJob,
       SynthExit, NextSegment, StartSegment, CheckChunk, NextChunk, EndSegment,
       NextCancelled, AdmitChunk, TakeSpace, ResetSegment, Unwind, Retire, SynthFault
  <1>2. ASSUME HostStep
        PROVE  NoneNew \/ \E g \in Generations, parts \in 1..MaxSegments : Synthesize(g, parts)
    <2>1. ASSUME NEW g \in Generations,
                 \/ SynthesizeOverflow(g)
                 \/ \E cancel \in BOOLEAN : HostInterrupt(g, cancel)
                 \/ HostInterruptOverflow(g)
                 \/ Release(g)
          PROVE  NoneNew
      BY <2>1 DEF SynthesizeOverflow, HostInterrupt, HostInterruptOverflow,
         InterruptFrame, Release
    <2>2. ASSUME NEW g \in Generations, NEW position \in 0..delivered[g],
                 NEW terminal \in BOOLEAN, NEW stop \in BOOLEAN,
                 Playback(g, position, terminal, stop)
          PROVE  NoneNew
      BY <2>2 DEF Playback
    <2>3. ASSUME TakeAudio \/ TakeEvent \/ FinishInput \/ CloseDrain \/ CloseAbort \/ Closed
          PROVE  NoneNew
      BY <2>3 DEF TakeAudio, TakeEvent, FinishInput, CloseDrain, CloseAbort, Closed
    <2> HIDE DEF NoneNew
    <2> QED
      BY <1>2, <2>1, <2>2, <2>3 DEF HostStep
  <1>3. ASSUME HearStep PROVE NoneNew
    BY <1>3 DEF HearStep, HearSpeech, BargeIn, InterruptFrame, ControlFault,
       Fault, FaultFrame, Hear, SpeakerDone, InputDone
  <1>4. ASSUME CancelStep \/ Failure PROVE NoneNew
    BY <1>4 DEF CancelStep, DeliverCancel, Failure, SynthesisFails, SynthFrame,
       OutputDeadline, ModelDeadline, HearingFault, Fault, FaultFrame
  <1> QED
    BY <1>1, <1>2, <1>3, <1>4 DEF Next, Steady

LEMMA OthersStep ==
  ASSUME IInv, OthersAreOver, [Next]_vars
  PROVE  OthersAreOver'
  <1>1. CASE known' \subseteq known /\ UNCHANGED <<current, lastGeneration>>
    BY <1>1, MarksStay DEF OthersAreOver
  <1>2. ASSUME NEW g \in Generations, NEW parts \in 1..MaxSegments, Synthesize(g, parts)
        PROVE  OthersAreOver'
    <2>1. /\ known' = known \cup {g} /\ current' = g /\ lastGeneration' = g
          /\ current = None \/ current \in retired \/ current \in cancelled
      BY <1>2 DEF Synthesize, MaySynthesize
    <2>2. None \notin known
      BY GenerationsAssumption DEF None, IInv, TypeOK, JobTypes
    <2> QED
      BY <2>1, <2>2, MarksStay DEF OthersAreOver
  <1> QED
    BY <1>1, <1>2, AdmissionSteps

(* Where the synthesis thread goes, and what becomes of the stream's mark. *)
OffStream == synth' \notin {"check", "next", "admit", "space", "reset", "unwind"}
OnStream ==
    /\ Streaming /\ synth' # "unwind"
    /\ UNCHANGED <<running, streamCancelled>>
ThreadRests == UNCHANGED <<synth, running, streamCancelled>>

LEMMA StreamSteps ==
  ASSUME [Next]_vars
  PROVE  ThreadRests \/ OffStream \/ OnStream \/ StartSegment \/ NextCancelled \/ CancelStep
  <1> USE DEF vars, sessVars, synthVars, ttsVars
  <1>1. ASSUME PickJob \/ SynthExit \/ NextSegment \/ ResetSegment \/ Unwind \/ Retire
        PROVE  OffStream
    BY <1>1 DEF OffStream, PickJob, SynthExit, NextSegment, ResetSegment, Unwind,
       Retire, GoTo, Fail
  <1>2. ASSUME SynthFault \/ SynthesisFails \/ OutputDeadline PROVE OffStream
    BY <1>2 DEF OffStream, SynthFault, SynthesisFails, OutputDeadline, GoTo, Fail
  <1>3. ASSUME CheckChunk \/ NextChunk \/ EndSegment PROVE OnStream
    BY <1>3 DEF OnStream, Streaming, CheckChunk, NextChunk, EndSegment, SynthFrame, Stay
  <1>4. ASSUME AdmitChunk \/ TakeSpace PROVE OnStream
    BY <1>4 DEF OnStream, Streaming, AdmitChunk, TakeSpace, Settle, SettleFrame, Stay, Fail
  <1>5. ASSUME HostStep PROVE ThreadRests
    <2>1. ASSUME NEW g \in Generations,
                 \/ \E parts \in 1..MaxSegments : Synthesize(g, parts)
                 \/ SynthesizeOverflow(g)
                 \/ \E cancel \in BOOLEAN : HostInterrupt(g, cancel)
                 \/ HostInterruptOverflow(g)
                 \/ Release(g)
          PROVE  ThreadRests
      BY <2>1 DEF ThreadRests, Synthesize, SynthesizeOverflow, HostInterrupt,
         HostInterruptOverflow, InterruptFrame, Release
    <2>2. ASSUME NEW g \in Generations, NEW position \in 0..delivered[g],
                 NEW terminal \in BOOLEAN, NEW stop \in BOOLEAN,
                 Playback(g, position, terminal, stop)
          PROVE  ThreadRests
      BY <2>2 DEF ThreadRests, Playback
    <2>3. ASSUME TakeAudio \/ TakeEvent \/ FinishInput \/ CloseDrain \/ CloseAbort \/ Closed
          PROVE  ThreadRests
      BY <2>3 DEF ThreadRests, TakeAudio, TakeEvent, FinishInput, CloseDrain,
         CloseAbort, Closed
    <2> QED
      BY <1>5, <2>1, <2>2, <2>3 DEF HostStep
  <1>6. ASSUME HearStep PROVE ThreadRests
    BY <1>6 DEF ThreadRests, HearStep, HearSpeech, BargeIn, InterruptFrame,
       ControlFault, FaultFrame, Hear, SpeakerDone, InputDone
  <1>7. ASSUME ModelDeadline \/ HearingFault \/ UNCHANGED vars PROVE ThreadRests
    BY <1>7 DEF ThreadRests, ModelDeadline, HearingFault, FaultFrame
  <1> QED
    BY <1>1, <1>2, <1>3, <1>4, <1>5, <1>6, <1>7 DEF Next, Steady, SynthStep, Failure

LEMMA MarksStep ==
  ASSUME IInv, CallsAreForCancelled, OthersAreOver, MarksAreDue, [Next]_vars
  PROVE  MarksAreDue'
  <1> DEFINE places == {"check", "next", "admit", "space", "reset", "unwind"}
  <1>1. CASE OffStream
    BY <1>1 DEF OffStream, MarksAreDue, Streaming
  <1>2. CASE ThreadRests
    <2>1. Streaming' <=> Streaming
      BY <1>2 DEF ThreadRests, Streaming
    <2>2. Abandoned => Abandoned'
      BY <1>2, MarksStay DEF ThreadRests, Abandoned
    <2> QED
      BY <1>2, <2>1, <2>2 DEF ThreadRests, MarksAreDue
  <1>3. CASE OnStream
    <2>1. Abandoned => Abandoned'
      BY <1>3, MarksStay DEF OnStream, Abandoned
    <2> QED
      BY <1>3, <2>1 DEF OnStream, MarksAreDue
  <1>4. CASE StartSegment
    <2>1. running \in known \ retired /\ running \in Generations
      BY <1>4 DEF StartSegment, IInv, TypeOK, JobTypes, ThreadOwnsReply, Busy
    <2>2. ~streamCancelled'
      BY <1>4 DEF StartSegment
    <2>3. UNCHANGED <<running, stopping, cancelled>>
      BY <1>4 DEF StartSegment, sessVars, lifeVars, jobVars, marks
    <2>4. ASSUME synth' = "unwind" PROVE Abandoned
      <3>1. cancelThrough >= running
        BY <1>4, <2>4 DEF StartSegment, GoTo
      <3>2. running \in Nat \ {0} /\ cancelThrough \in Nat
        BY <2>1, GenerationsAssumption DEF IInv, TypeOK, SessionTypes
      <3>3. stopping \/ cancelThrough \in cancelled
        BY <3>1, <3>2 DEF CallsAreForCancelled
      <3>4. CASE cancelThrough \in cancelled /\ running = current
        <4>1. cancelThrough \in Generations
          BY <3>4 DEF IInv, TypeOK, JobTypes
        <4>2. cancelThrough <= lastGeneration
          BY <3>2, <3>4, <4>1 DEF IInv, Fresh, Untouched, TypeOK, SessionTypes
        <4>3. cancelThrough = running
          BY <3>1, <3>2, <3>4, <4>2 DEF OthersAreOver
        <4> QED
          BY <3>4, <4>3 DEF Abandoned
      <3>5. CASE running # current
        BY <2>1, <3>5 DEF OthersAreOver, Abandoned
      <3> QED
        BY <3>3, <3>4, <3>5 DEF Abandoned
    <2> QED
      BY <2>2, <2>3, <2>4 DEF MarksAreDue, Abandoned
  <1>5. CASE NextCancelled
    <2>1. Abandoned
      BY <1>5 DEF NextCancelled, MarksAreDue, Streaming
    <2>2. UNCHANGED <<running, stopping, cancelled>>
      BY <1>5 DEF NextCancelled, SynthFrame, sessVars, lifeVars, jobVars, marks
    <2> QED
      BY <2>1, <2>2 DEF MarksAreDue, Abandoned
  <1>6. CASE CancelStep
    <2>1. PICK g \in Generations :
            /\ g \in cancelCalls
            /\ streamCancelled' = (streamCancelled \/ (g = running /\ Streaming))
            /\ UNCHANGED <<jobVars, sessVars, lifeVars, synthVars>>
      BY <1>6 DEF CancelStep, DeliverCancel
    <2>2. UNCHANGED <<synth, running, stopping, cancelled>>
      BY <2>1 DEF sessVars, synthVars, lifeVars, jobVars, marks
    <2>3. g = running => Abandoned
      BY <2>1 DEF CallsAreForCancelled, Abandoned
    <2>4. streamCancelled' /\ Streaming => Abandoned
      BY <2>1, <2>3 DEF MarksAreDue
    <2> QED
      BY <2>2, <2>4 DEF MarksAreDue, Abandoned, Streaming
  <1> QED
    BY <1>1, <1>2, <1>3, <1>4, <1>5, <1>6, StreamSteps

(* Reasons come from failures; the odd one only from an exception that     *)
(* nobody had asked for.                                                   *)
LEMMA ReasonSteps ==
  ASSUME [Next]_vars
  PROVE  /\ why' \in {why, "none", "failed"} \/ (Unwind /\ ~Abandoned)
         /\ error' \in {error, why, "failed"}
  <1> DEFINE Reason == /\ why' \in {why, "none", "failed"} \/ (Unwind /\ ~Abandoned)
                       /\ error' \in {error, why, "failed"}
  <1> USE DEF vars, lifeVars, synthVars, GoTo, Stay, Fail, Locals
  <1>1. ASSUME \/ PickJob \/ SynthExit \/ NextSegment \/ StartSegment \/ CheckChunk
               \/ NextChunk \/ EndSegment \/ NextCancelled
        PROVE  Reason
    BY <1>1 DEF PickJob, SynthExit, NextSegment, StartSegment, CheckChunk,
       NextChunk, EndSegment, NextCancelled, SynthFrame
  <1>2. ASSUME AdmitChunk \/ TakeSpace \/ ResetSegment \/ Retire PROVE Reason
    BY <1>2 DEF AdmitChunk, TakeSpace, Settle, SettleFrame, ResetSegment, Retire
  <1>3. ASSUME Unwind \/ SynthesisFails \/ OutputDeadline PROVE Reason
    BY <1>3 DEF Unwind, SynthesisFails, OutputDeadline, SynthFrame
  <1>4. ASSUME SynthFault \/ ControlFault \/ HearingFault \/ ModelDeadline PROVE Reason
    BY <1>4 DEF SynthFault, ControlFault, HearingFault, ModelDeadline, Fault
  <1>5. ASSUME HostStep PROVE Reason
    <2>1. ASSUME NEW g \in Generations,
                 \/ \E parts \in 1..MaxSegments : Synthesize(g, parts)
                 \/ SynthesizeOverflow(g)
                 \/ \E cancel \in BOOLEAN : HostInterrupt(g, cancel)
                 \/ HostInterruptOverflow(g)
                 \/ Release(g)
          PROVE  Reason
      BY <2>1 DEF Synthesize, SynthesizeOverflow, HostInterrupt,
         HostInterruptOverflow, InterruptFrame, Release
    <2>2. ASSUME NEW g \in Generations, NEW position \in 0..delivered[g],
                 NEW terminal \in BOOLEAN, NEW stop \in BOOLEAN,
                 Playback(g, position, terminal, stop)
          PROVE  Reason
      BY <2>2 DEF Playback
    <2>3. ASSUME TakeAudio \/ TakeEvent \/ FinishInput \/ CloseDrain \/ CloseAbort \/ Closed
          PROVE  Reason
      BY <2>3 DEF TakeAudio, TakeEvent, FinishInput, CloseDrain, CloseAbort, Closed
    <2> HIDE DEF Reason
    <2> QED
      BY <1>5, <2>1, <2>2, <2>3 DEF HostStep
  <1>6. ASSUME \/ HearSpeech \/ BargeIn \/ SpeakerDone \/ InputDone \/ CancelStep
               \/ \E utterances \in {0, 1} : Hear(utterances)
        PROVE  Reason
    BY <1>6 DEF HearSpeech, BargeIn, InterruptFrame, Hear, SpeakerDone, InputDone,
       CancelStep, DeliverCancel
  <1>7. ASSUME UNCHANGED vars PROVE Reason
    BY <1>7
  <1> HIDE DEF Reason
  <1>8. Reason
    BY <1>1, <1>2, <1>3, <1>4, <1>5, <1>6, <1>7 DEF Next, Steady, SynthStep, HearStep, Failure
  <1> QED
    BY <1>8 DEF Reason

LEMMA StrayStep ==
  ASSUME IInv, StrayInv, [Next]_vars
  PROVE  StrayInv'
  <1>1. CallsAreForCancelled' /\ OthersAreOver' /\ MarksAreDue'
    BY CallsStep, OthersStep, MarksStep DEF StrayInv
  <1>2. ~(Unwind /\ ~Abandoned)
    BY DEF StrayInv, MarksAreDue, Unwind
  <1>3. why' \in {why, "none", "failed"} /\ error' \in {error, why, "failed"}
    BY <1>2, ReasonSteps
  <1>4. NoStrayCancellation'
    BY <1>3 DEF StrayInv, NoStrayCancellation
  <1> QED
    BY <1>1, <1>4 DEF StrayInv

LEMMA StrayInit == Init => StrayInv
  BY DEF Init, StrayInv, CallsAreForCancelled, OthersAreOver, MarksAreDue,
     NoStrayCancellation, Streaming, None

(* A cancel call that arrives late, after its reply was retired and        *)
(* another one began, never stops that other one: no reply ends with a     *)
(* cancellation nobody asked for.                                          *)
THEOREM NoStrayCancellationHolds == Spec => []NoStrayCancellation
  <1>1. IInv /\ StrayInv /\ [Next]_vars => StrayInv'
    BY StrayStep
  <1>2. StrayInv => NoStrayCancellation
    BY DEF StrayInv
  <1> QED
    BY <1>1, <1>2, StrayInit, Invariance, PTL DEF Spec

----------------------------------------------------------------------------
(* The samples queued of all replies, counted by the session.              *)

(* t is the sum of q over the generations: f sums up those up to k, and    *)
(* from some number on there is nothing more to add.  (A recursive sum is  *)
(* of no use to a proof.)                                                  *)
SumsTo(q, t) ==
    \E f \in [Nat -> Int] :
        /\ f[0] = 0
        /\ \A k \in Nat : f[k + 1] = f[k] + (IF k + 1 \in Generations THEN q[k + 1] ELSE 0)
        /\ \E n \in Nat : \A m \in Nat : m >= n => f[m] = t
OutputIsCounted == SumsTo(queued, queuedOutput)
WithinBound == queuedOutput <= OutputBound

LEMMA SmallestExists ==
  ASSUME NEW T \in SUBSET Nat, T # {}
  PROVE  \E m \in T : \A n \in T : m <= n
  <1> DEFINE R == {p \in Nat \X Nat : p[1] < p[2]}
  <1>1. IsWellFoundedOn(R, Nat)
    BY NatLessThanWellFounded DEF OpToRel
  <1>2. PICK m \in T : \A n \in T : <<n, m>> \notin R
    <2> HIDE DEF R
    <2> QED
      BY <1>1, WFMin, Zenon
  <1>3. \A n \in T : ~(n < m)
    BY <1>2
  <1> QED
    BY <1>3

(* Nothing queued sums up to nothing.                                      *)
LEMMA SumOfNothing ==
  ASSUME NEW q, \A g \in Generations : q[g] = 0, NEW t, SumsTo(q, t)
  PROVE  t = 0
  <1>1. PICK f \in [Nat -> Int] :
          /\ f[0] = 0
          /\ \A k \in Nat : f[k + 1] = f[k] + (IF k + 1 \in Generations THEN q[k + 1] ELSE 0)
          /\ \E n \in Nat : \A m \in Nat : m >= n => f[m] = t
    BY DEF SumsTo
  <1>2. \A k \in Nat : f[k + 1] = f[k]
    BY <1>1
  <1> DEFINE T == {k \in Nat : f[k] # 0}
  <1>3. T = {}
    <2> SUFFICES ASSUME T # {} PROVE FALSE
      OBVIOUS
    <2>1. T \in SUBSET Nat
      OBVIOUS
    <2>2. PICK m \in T : \A n \in T : m <= n
      <3> HIDE DEF T
      <3> QED
        BY <2>1, SmallestExists
    <2>3. m \in Nat /\ f[m] # 0 /\ m # 0
      BY <1>1, <2>2
    <2>4. m - 1 \in Nat /\ (m - 1) + 1 = m /\ m - 1 \notin T
      BY <2>2, <2>3
    <2>5. f[m - 1] = 0
      BY <2>4
    <2>6. f[(m - 1) + 1] = f[m - 1]
      BY <1>2, <2>4
    <2> QED
      BY <2>3, <2>4, <2>5, <2>6
  <1>4. PICK n \in Nat : \A m \in Nat : m >= n => f[m] = t
    BY <1>1
  <1>5. f[n] = t /\ f[n] = 0
    BY <1>3, <1>4
  <1> QED
    BY <1>5

(* What one generation's queue gains or loses, the sum does.               *)
LEMMA SumOfChange ==
  ASSUME NEW q \in [Generations -> Int], NEW t \in Int, SumsTo(q, t),
         NEW g \in Generations, NEW v \in Int
  PROVE  SumsTo([q EXCEPT ![g] = v], t - q[g] + v)
  <1>1. PICK f \in [Nat -> Int] :
          /\ f[0] = 0
          /\ \A k \in Nat : f[k + 1] = f[k] + (IF k + 1 \in Generations THEN q[k + 1] ELSE 0)
          /\ \E n \in Nat : \A m \in Nat : m >= n => f[m] = t
    BY DEF SumsTo
  <1> DEFINE d == v - q[g]
             h == [k \in Nat |-> f[k] + (IF k >= g THEN d ELSE 0)]
             r == [q EXCEPT ![g] = v]
  <1>2. g \in Nat /\ g # 0 /\ d \in Int /\ q[g] + d = v
    BY GenerationsAssumption
  <1>3. /\ r[g] = v
        /\ \A k \in Generations : k # g => r[k] = q[k]
    OBVIOUS
  <1>4. \A k \in Nat : h[k] = f[k] + (IF k >= g THEN d ELSE 0)
    OBVIOUS
  <1>5. h \in [Nat -> Int]
    BY <1>2
  <1>6. q[g] \in Int /\ t - q[g] + v = t + d
    BY <1>2
  <1> HIDE DEF d, h, r
  <1>7. h[0] = 0
    BY <1>1, <1>2, <1>4
  <1>8. ASSUME NEW k \in Nat
        PROVE  h[k + 1] = h[k] + (IF k + 1 \in Generations THEN r[k + 1] ELSE 0)
    <2>1. /\ f[k] \in Int /\ f[k + 1] \in Int /\ k + 1 \in Nat
          /\ f[k + 1] = f[k] + (IF k + 1 \in Generations THEN q[k + 1] ELSE 0)
          /\ h[k] = f[k] + (IF k >= g THEN d ELSE 0)
          /\ h[k + 1] = f[k + 1] + (IF k + 1 >= g THEN d ELSE 0)
      BY <1>1, <1>4
    <2>2. CASE k + 1 = g
      BY <1>2, <1>3, <2>1, <2>2
    <2>3. CASE k + 1 # g
      <3>1. k + 1 >= g <=> k >= g
        BY <1>2, <2>3
      <3>2. k + 1 \in Generations => r[k + 1] = q[k + 1] /\ q[k + 1] \in Int
        BY <1>3, <2>3
      <3> QED
        BY <1>2, <2>1, <3>1, <3>2
    <2> QED
      BY <2>2, <2>3
  <1>9. \E n \in Nat : \A m \in Nat : m >= n => h[m] = t + d
    <2>1. PICK n \in Nat : \A m \in Nat : m >= n => f[m] = t
      BY <1>1
    <2>2. n + g \in Nat /\ \A m \in Nat : m >= n + g => m >= n /\ m >= g
      BY <1>2
    <2>3. \A m \in Nat : m >= n + g => h[m] = t + d
      BY <1>4, <2>1, <2>2
    <2> QED
      BY <2>2, <2>3
  <1> QED
    BY <1>5, <1>6, <1>7, <1>8, <1>9 DEF SumsTo, r

LEMMA NothingSumsUp ==
  ASSUME NEW q, \A g \in Generations : q[g] = 0
  PROVE  SumsTo(q, 0)
  <1> DEFINE f == [k \in Nat |-> 0]
  <1>1. f \in [Nat -> Int] /\ \A k \in Nat : f[k] = 0
    OBVIOUS
  <1> HIDE DEF f
  <1>2. \A k \in Nat : f[k + 1] = f[k] + (IF k + 1 \in Generations THEN q[k + 1] ELSE 0)
    BY <1>1
  <1>3. f[0] = 0 /\ \A m \in Nat : m >= 0 => f[m] = 0
    BY <1>1
  <1> QED
    BY <1>1, <1>2, <1>3 DEF SumsTo

(* Steps either leave the queues alone, empty them all, or change one.     *)
QueuesSame == UNCHANGED <<queued, queuedOutput>>
Changes(g, v) ==
    /\ queued' = [queued EXCEPT ![g] = v]
    /\ queuedOutput' = queuedOutput - queued[g] + v
LEMMA QueueSteps ==
  ASSUME IInv, [Next]_vars
  PROVE  \/ QueuesSame
         \/ FenceAll
         \/ \E g \in Generations, v \in Int :
              Changes(g, v) /\ (v <= queued[g] \/ queuedOutput' <= OutputBound)
  <1> DEFINE OneChanges == \E g \in Generations, v \in Int :
              Changes(g, v) /\ (v <= queued[g] \/ queuedOutput' <= OutputBound)
  <1>a. queued \in [Generations -> Nat] /\ queuedOutput \in Int
    BY DEF IInv, TypeOK, JobTypes, SessionTypes
  <1> USE DEF vars, jobVars, clocks, marks, sessVars
  <1>1. ASSUME \/ PickJob \/ SynthExit \/ NextSegment \/ StartSegment \/ CheckChunk
               \/ NextChunk \/ EndSegment \/ NextCancelled
        PROVE  QueuesSame
    BY <1>1 DEF QueuesSame, PickJob, SynthExit, NextSegment, StartSegment,
       CheckChunk, NextChunk, EndSegment, NextCancelled, SynthFrame
  <1>2. ASSUME ResetSegment \/ Unwind \/ Retire \/ SynthesisFails \/ OutputDeadline
        PROVE  QueuesSame
    BY <1>2 DEF QueuesSame, ResetSegment, Unwind, Retire, SynthesisFails,
       OutputDeadline, SynthFrame
  <1>3. ASSUME AdmitChunk \/ TakeSpace PROVE QueuesSame \/ OneChanges
    <2>1. running \in Generations /\ chunk \in Nat
      BY <1>3 DEF AdmitChunk, TakeSpace, IInv, ThreadOwnsReply, Busy, TypeOK,
         JobTypes, SessionTypes
    <2>2. \/ QueuesSame
          \/ Keep /\ queuedOutput + chunk <= OutputBound
      BY <1>3 DEF AdmitChunk, TakeSpace, Settle, QueuesSame
    <2>3. ASSUME Keep, queuedOutput + chunk <= OutputBound PROVE OneChanges
      <3> DEFINE v == queued[running] + chunk
      <3>1. v \in Int /\ queuedOutput - queued[running] + v = queuedOutput + chunk
        BY <1>a, <2>1
      <3>2. queued' = [queued EXCEPT ![running] = v] /\ queuedOutput' = queuedOutput + chunk
        BY <2>3 DEF Keep
      <3> HIDE DEF v
      <3>3. Changes(running, v) /\ queuedOutput' <= OutputBound
        BY <2>3, <3>1, <3>2 DEF Changes
      <3> QED
        BY <2>1, <3>1, <3>3
    <2> QED
      BY <2>2, <2>3
  <1>4. ASSUME SynthFault \/ ControlFault \/ HearingFault \/ ModelDeadline \/ CloseAbort
        PROVE  FenceAll
    BY <1>4 DEF SynthFault, ControlFault, HearingFault, ModelDeadline, CloseAbort, Fault
  <1>5. ASSUME NEW g \in Generations, NEW cancel \in BOOLEAN,
               InterruptLocked(g, cancel) \/ InterruptOverflow(g)
        PROVE  QueuesSame \/ OneChanges
    <2>1. ASSUME Fence(g) PROVE OneChanges
      <3>1. queued' = [queued EXCEPT ![g] = 0] /\ queuedOutput' = queuedOutput - queued[g]
        BY <2>1 DEF Fence
      <3>2. queued[g] \in Nat /\ queuedOutput - queued[g] + 0 = queuedOutput - queued[g]
        BY <1>a
      <3>3. Changes(g, 0) /\ 0 <= queued[g]
        BY <3>1, <3>2 DEF Changes
      <3> QED
        BY <3>3
    <2> QED
      BY <1>5, <2>1 DEF InterruptLocked, InterruptOverflow, QueuesSame
  <1>6. ASSUME TakeAudio PROVE OneChanges
    <2>1. PICK g \in Generations :
            /\ Least(g, Takeable)
            /\ queued' = [queued EXCEPT ![g] = @ - Head(audio[g]).n]
            /\ queuedOutput' = queuedOutput - Head(audio[g]).n
      BY <1>6 DEF TakeAudio
    <2>2. audio[g] # <<>> /\ audio[g] \in Seq(ChunkType)
      BY <2>1 DEF Least, Takeable, IInv, TypeOK, JobTypes
    <2>3. Head(audio[g]).n \in Nat
      <3>1. Head(audio[g]) = audio[g][1] /\ 1 \in 1..Len(audio[g])
        BY <2>2, TailOfSeq
      <3> QED
        BY <2>2, <3>1, ChunkFields
    <2> DEFINE n == Head(audio[g]).n
               v == queued[g] - n
    <2>4. v \in Int /\ v <= queued[g] /\ queuedOutput - queued[g] + v = queuedOutput - n
      BY <1>a, <2>3
    <2>5. queued' = [queued EXCEPT ![g] = v] /\ queuedOutput' = queuedOutput - n
      BY <2>1
    <2> HIDE DEF n, v
    <2>6. Changes(g, v) /\ v \in Int
      BY <2>4, <2>5 DEF Changes
    <2> QED
      BY <2>4, <2>6
  <1> HIDE DEF OneChanges
  <1>7. ASSUME HostStep PROVE QueuesSame \/ FenceAll \/ OneChanges
    <2>1. ASSUME NEW g \in Generations,
                 \/ \E parts \in 1..MaxSegments : Synthesize(g, parts)
                 \/ SynthesizeOverflow(g)
                 \/ Release(g)
          PROVE  QueuesSame
      BY <2>1 DEF QueuesSame, Synthesize, SynthesizeOverflow, Release
    <2>2. ASSUME NEW g \in Generations, NEW cancel \in BOOLEAN,
                 HostInterrupt(g, cancel) \/ HostInterruptOverflow(g)
          PROVE  QueuesSame \/ OneChanges
      BY <2>2, <1>5 DEF HostInterrupt, HostInterruptOverflow
    <2>3. ASSUME NEW g \in Generations, HostInterruptOverflow(g)
          PROVE  QueuesSame \/ OneChanges
      BY <2>2, <2>3
    <2>4. ASSUME NEW g \in Generations, NEW position \in 0..delivered[g],
                 NEW terminal \in BOOLEAN, NEW stop \in BOOLEAN,
                 Playback(g, position, terminal, stop)
          PROVE  QueuesSame
      BY <2>4 DEF QueuesSame, Playback
    <2>5. ASSUME TakeEvent \/ FinishInput \/ CloseDrain \/ Closed PROVE QueuesSame
      BY <2>5 DEF QueuesSame, TakeEvent, FinishInput, CloseDrain, Closed
    <2> QED
      BY <1>7, <1>4, <1>6, <2>1, <2>2, <2>3, <2>4, <2>5 DEF HostStep
  <1>8. ASSUME HearStep PROVE QueuesSame \/ FenceAll \/ OneChanges
    <2>1. ASSUME BargeIn PROVE QueuesSame \/ OneChanges
      <3>1. CASE UNCHANGED <<queued, queuedOutput>>
        BY <3>1 DEF QueuesSame
      <3>2. CASE ~UNCHANGED <<queued, queuedOutput>>
        <4>1. \E g \in Generations : InterruptLocked(g, TRUE) \/ InterruptOverflow(g)
          BY <2>1, <3>2 DEF BargeIn
        <4> QED
          BY <4>1, <1>5
      <3> QED
        BY <3>1, <3>2
    <2>2. ASSUME \/ HearSpeech \/ SpeakerDone \/ InputDone
                 \/ \E utterances \in {0, 1} : Hear(utterances)
          PROVE  QueuesSame
      BY <2>2 DEF QueuesSame, HearSpeech, Hear, SpeakerDone, InputDone
    <2> QED
      BY <1>8, <1>4, <2>1, <2>2 DEF HearStep
  <1>9. ASSUME CancelStep \/ UNCHANGED vars PROVE QueuesSame
    BY <1>9 DEF QueuesSame, CancelStep, DeliverCancel
  <1>10. QueuesSame \/ FenceAll \/ OneChanges
    BY <1>1, <1>2, <1>3, <1>4, <1>7, <1>8, <1>9 DEF Next, Steady, SynthStep, Failure
  <1> QED
    BY <1>10 DEF OneChanges

LEMMA CountStep ==
  ASSUME IInv, OutputIsCounted, WithinBound, [Next]_vars
  PROVE  OutputIsCounted' /\ WithinBound'
  <1>1. queued \in [Generations -> Nat] /\ queuedOutput \in Int
    BY DEF IInv, TypeOK, JobTypes, SessionTypes
  <1>2. CASE QueuesSame
    BY <1>2 DEF QueuesSame, OutputIsCounted, WithinBound, SumsTo
  <1>3. CASE FenceAll
    <2>1. queuedOutput' = 0 /\ \A g \in Generations : queued'[g] = 0
      BY <1>3 DEF FenceAll
    <2>2. SumsTo(queued', 0)
      BY <2>1, NothingSumsUp
    <2>3. OutputIsCounted'
      BY <2>1, <2>2 DEF OutputIsCounted, SumsTo
    <2> QED
      BY <2>1, <2>3, OutputBoundAssumption DEF WithinBound
  <1>4. ASSUME NEW g \in Generations, NEW v \in Int, Changes(g, v),
               v <= queued[g] \/ queuedOutput' <= OutputBound
        PROVE  OutputIsCounted' /\ WithinBound'
    <2>1. queued \in [Generations -> Int]
      BY <1>1
    <2>2. SumsTo([queued EXCEPT ![g] = v], queuedOutput - queued[g] + v)
      BY <1>1, <2>1, SumOfChange DEF OutputIsCounted
    <2>3. SumsTo(queued', queuedOutput')
      BY <1>4, <2>2 DEF Changes
    <2>4. OutputIsCounted'
      BY <2>3 DEF OutputIsCounted, SumsTo
    <2>5. WithinBound'
      BY <1>1, <1>4, OutputBoundAssumption DEF Changes, WithinBound
    <2> QED
      BY <2>4, <2>5
  <1> QED
    BY <1>2, <1>3, <1>4, QueueSteps

(* queued_output is the sum of what the replies have queued, through every *)
(* fence, failure and race, and never exceeds the bound of the queue.      *)
THEOREM OutputIsCountedHolds == Spec => [](OutputIsCounted /\ WithinBound)
  <1>1. Init => OutputIsCounted /\ WithinBound
    <2> SUFFICES ASSUME Init PROVE OutputIsCounted /\ WithinBound
      OBVIOUS
    <2>1. queuedOutput = 0 /\ \A g \in Generations : queued[g] = 0
      BY DEF Init
    <2> QED
      BY <2>1, NothingSumsUp, OutputBoundAssumption DEF OutputIsCounted, WithinBound
  <1>2. IInv /\ (OutputIsCounted /\ WithinBound) /\ [Next]_vars
          => (OutputIsCounted /\ WithinBound)'
    BY CountStep
  <1> QED
    BY <1>1, <1>2, Invariance, PTL DEF Spec

(* The run of partial sums, cut off at the last generation: it never       *)
(* falls, so it stays below the total, and nothing comes after.            *)
LEMMA RunOfSums ==
  ASSUME NEW last \in Nat, NEW q \in [Generations -> Nat], NEW t \in Int, SumsTo(q, t),
         \A g \in Generations : g > last => q[g] = 0
  PROVE  \E sum \in [0..last -> 0..t] :
            /\ sum[0] = 0 /\ sum[last] = t
            /\ \A g \in 1..last :
                  sum[g] = sum[g - 1] + (IF g \in Generations THEN q[g] ELSE 0)
  <1>1. PICK f \in [Nat -> Int] :
          /\ f[0] = 0
          /\ \A k \in Nat : f[k + 1] = f[k] + (IF k + 1 \in Generations THEN q[k + 1] ELSE 0)
          /\ \E n \in Nat : \A m \in Nat : m >= n => f[m] = t
    BY DEF SumsTo
  <1>2. ASSUME NEW k \in Nat
        PROVE  f[k] <= f[k + 1] /\ (k >= last => f[k + 1] = f[k])
    <2>1. k + 1 \in Generations => q[k + 1] \in Nat /\ (k >= last => q[k + 1] = 0)
      OBVIOUS
    <2>2. f[k] \in Int /\ f[k + 1] = f[k] + (IF k + 1 \in Generations THEN q[k + 1] ELSE 0)
      BY <1>1
    <2> QED
      BY <2>1, <2>2
  <1>3. ASSUME NEW a \in Nat, NEW b \in Nat, a <= b
        PROVE  f[a] <= f[b] /\ (a >= last => f[b] = f[a])
    <2> DEFINE T == {k \in Nat : k >= a /\ ~(f[a] <= f[k] /\ (a >= last => f[k] = f[a]))}
    <2>1. T = {}
      <3> SUFFICES ASSUME T # {} PROVE FALSE
        OBVIOUS
      <3>1. T \in SUBSET Nat
        OBVIOUS
      <3>2. PICK m \in T : \A n \in T : m <= n
        <4> HIDE DEF T
        <4> QED
          BY <3>1, SmallestExists
      <3>3. m \in Nat /\ m >= a /\ ~(f[a] <= f[m] /\ (a >= last => f[m] = f[a]))
        BY <3>2
      <3>4. f[a] \in Int /\ m # a
        BY <1>1, <3>3
      <3>5. m - 1 \in Nat /\ m - 1 >= a /\ (m - 1) + 1 = m /\ m - 1 \notin T
        BY <3>2, <3>3, <3>4
      <3>6. f[a] <= f[m - 1] /\ (a >= last => f[m - 1] = f[a])
        BY <3>5
      <3>7. f[m - 1] <= f[m] /\ (m - 1 >= last => f[m] = f[m - 1])
        <4>1. f[m - 1] <= f[(m - 1) + 1] /\ (m - 1 >= last => f[(m - 1) + 1] = f[m - 1])
          BY <1>2, <3>5
        <4> QED
          BY <3>5, <4>1
      <3>8. f[m - 1] \in Int /\ f[m] \in Int
        BY <1>1, <3>3, <3>5
      <3>9. a >= last => m - 1 >= last
        BY <3>3, <3>5
      <3> QED
        BY <3>3, <3>4, <3>6, <3>7, <3>8, <3>9
    <2>2. b \notin T
      BY <2>1
    <2> QED
      BY <1>3, <2>2
  <1>4. f[last] = t
    <2>1. PICK n \in Nat : \A m \in Nat : m >= n => f[m] = t
      BY <1>1
    <2>2. n + last \in Nat /\ n + last >= n /\ last <= n + last
      OBVIOUS
    <2>3. f[n + last] = t
      BY <2>1, <2>2
    <2>4. f[n + last] = f[last]
      <3>1. last >= last
        OBVIOUS
      <3> QED
        BY <1>3, <2>2, <3>1
    <2> QED
      BY <2>3, <2>4
  <1> DEFINE sum == [k \in 0..last |-> f[k]]
  <1>5. \A k \in 0..last : f[k] \in 0..t
    <2> TAKE k \in 0..last
    <2>1. k \in Nat /\ 0 \in Nat /\ 0 <= k /\ k <= last
      OBVIOUS
    <2>2. f[0] <= f[k] /\ f[k] <= f[last] /\ f[k] \in Int
      BY <1>1, <1>3, <2>1
    <2> QED
      BY <1>1, <1>4, <2>2
  <1>6. sum \in [0..last -> 0..t] /\ \A k \in 0..last : sum[k] = f[k]
    BY <1>5
  <1> HIDE DEF sum
  <1>7. \A g \in 1..last : sum[g] = sum[g - 1] + (IF g \in Generations THEN q[g] ELSE 0)
    <2> TAKE g \in 1..last
    <2>1. g - 1 \in Nat /\ g - 1 \in 0..last /\ g \in 0..last /\ (g - 1) + 1 = g
      OBVIOUS
    <2>2. f[(g - 1) + 1] = f[g - 1]
             + (IF (g - 1) + 1 \in Generations THEN q[(g - 1) + 1] ELSE 0)
      BY <1>1, <2>1
    <2> QED
      BY <1>6, <2>1, <2>2
  <1>8. sum[0] = 0 /\ sum[last] = t
    <2>1. 0 \in 0..last /\ last \in 0..last
      OBVIOUS
    <2> QED
      BY <1>1, <1>4, <1>6, <2>1
  <1> QED
    BY <1>6, <1>7, <1>8

(* The count shared by all replies is the sum of what each has queued, and *)
(* within its bound: no path that queues, gives out, fences or empties     *)
(* forgets the count.                                                      *)
THEOREM OutputAccountingHolds == Spec => []OutputAccounting
  <1>1. IInv /\ OutputIsCounted /\ WithinBound => OutputAccounting
    <2> SUFFICES ASSUME IInv, OutputIsCounted, WithinBound PROVE OutputAccounting
      OBVIOUS
    <2>1. /\ queued \in [Generations -> Nat] /\ queuedOutput \in Int
          /\ lastGeneration \in Nat /\ known \subseteq Generations
      BY GenerationsAssumption DEF IInv, TypeOK, JobTypes, SessionTypes
    <2>2. \A g \in Generations \ known : queued[g] = 0
      BY DEF IInv, Gone
    <2>3. \A g \in Generations : g > lastGeneration => queued[g] = 0
      BY <2>2 DEF IInv, Fresh
    <2>4. PICK sum \in [0..lastGeneration -> 0..queuedOutput] :
            /\ sum[0] = 0 /\ sum[lastGeneration] = queuedOutput
            /\ \A g \in 1..lastGeneration :
                  sum[g] = sum[g - 1] + (IF g \in Generations THEN queued[g] ELSE 0)
      BY <2>1, <2>3, RunOfSums DEF OutputIsCounted
    <2>5. \A g \in 1..lastGeneration :
            (IF g \in Generations THEN queued[g] ELSE 0) = (IF g \in known THEN queued[g] ELSE 0)
      BY <2>1, <2>2
    <2>6. \A g \in 1..lastGeneration :
            sum[g] = sum[g - 1] + (IF g \in known THEN queued[g] ELSE 0)
      BY <2>4, <2>5
    <2> QED
      BY <2>4, <2>6 DEF OutputAccounting, WithinBound
  <1> QED
    BY <1>1, OutputIsCountedHolds, Invariance, PTL

----------------------------------------------------------------------------
(* A session that stopped without an abort or an error.                    *)

(* The synthesis thread never fails without a reason, and never returns    *)
(* before the stop, nor with a reply in hand unless the error was told.    *)
FailureIsTold ==
    /\ synth = "failing" => why # "none"
    /\ synth = "exited" => stopping /\ (running = None \/ error # "none")

(* What a step does to the thread's failure.                               *)
ThreadKept == UNCHANGED <<synth, running, why>>
LEMMA FailureSteps ==
  ASSUME [Next]_vars
  PROVE  /\ error # "none" => error' # "none"
         /\ \/ ThreadKept
            \/ synth' \notin {"failing", "exited"} /\ synth # "failing"
            \/ synth' = "failing" /\ why' # "none" /\ synth # "failing"
            \/ SynthExit
            \/ SynthFault
  <1> USE DEF vars, lifeVars, sessVars, synthVars
  <1> DEFINE Works == /\ UNCHANGED error
                      /\ \/ synth' \notin {"failing", "exited"} /\ synth # "failing"
                         \/ synth' = "failing" /\ why' # "none" /\ synth # "failing"
             Rests == ThreadKept /\ (error # "none" => error' # "none")
  <1>1. ASSUME \/ PickJob \/ NextSegment \/ StartSegment \/ CheckChunk
               \/ NextChunk \/ EndSegment \/ NextCancelled
        PROVE  Works
    BY <1>1 DEF PickJob, NextSegment, StartSegment, CheckChunk, NextChunk,
       EndSegment, NextCancelled, SynthFrame, GoTo, Stay, Locals
  <1>2. ASSUME \/ AdmitChunk \/ TakeSpace \/ ResetSegment \/ Unwind \/ Retire
               \/ SynthesisFails \/ OutputDeadline
        PROVE  Works
    BY <1>2 DEF AdmitChunk, TakeSpace, Settle, SettleFrame, ResetSegment, Unwind,
       Retire, SynthesisFails, OutputDeadline, SynthFrame, GoTo, Stay, Fail, Locals
  <1>3. ASSUME SynthExit \/ SynthFault PROVE error # "none" => error' # "none"
    BY <1>3 DEF SynthExit, SynthFault, SynthFrame, Fault
  <1>4. ASSUME HostStep PROVE Rests
    <2>1. ASSUME NEW g \in Generations,
                 \/ \E parts \in 1..MaxSegments : Synthesize(g, parts)
                 \/ SynthesizeOverflow(g)
                 \/ \E cancel \in BOOLEAN : HostInterrupt(g, cancel)
                 \/ HostInterruptOverflow(g)
                 \/ Release(g)
          PROVE  Rests
      BY <2>1 DEF ThreadKept, Synthesize, SynthesizeOverflow, HostInterrupt,
         HostInterruptOverflow, InterruptFrame, Release
    <2>2. ASSUME NEW g \in Generations, NEW position \in 0..delivered[g],
                 NEW terminal \in BOOLEAN, NEW stop \in BOOLEAN,
                 Playback(g, position, terminal, stop)
          PROVE  Rests
      BY <2>2 DEF ThreadKept, Playback
    <2>3. ASSUME TakeAudio \/ TakeEvent \/ FinishInput \/ CloseDrain \/ CloseAbort \/ Closed
          PROVE  Rests
      BY <2>3 DEF ThreadKept, TakeAudio, TakeEvent, FinishInput, CloseDrain,
         CloseAbort, Closed
    <2> HIDE DEF Rests
    <2> QED
      BY <1>4, <2>1, <2>2, <2>3 DEF HostStep
  <1>5. ASSUME \/ HearSpeech \/ BargeIn \/ SpeakerDone \/ InputDone \/ CancelStep
               \/ \E utterances \in {0, 1} : Hear(utterances)
        PROVE  Rests
    BY <1>5 DEF ThreadKept, HearSpeech, BargeIn, InterruptFrame, Hear, SpeakerDone,
       InputDone, CancelStep, DeliverCancel
  <1>6. ASSUME ControlFault \/ HearingFault \/ ModelDeadline PROVE Rests
    BY <1>6 DEF ThreadKept, ControlFault, HearingFault, ModelDeadline, Fault, FaultFrame
  <1>7. ASSUME UNCHANGED vars PROVE Rests
    BY <1>7 DEF ThreadKept
  <1> HIDE DEF Works, Rests
  <1>8. Works \/ Rests \/ SynthExit \/ SynthFault
    BY <1>1, <1>2, <1>4, <1>5, <1>6, <1>7 DEF Next, Steady, SynthStep, HearStep, Failure
  <1> QED
    BY <1>3, <1>8 DEF Works, Rests

LEMMA ToldStep ==
  ASSUME IInv, FailureIsTold, [Next]_vars
  PROVE  FailureIsTold'
  <1>1. CASE ThreadKept
    BY <1>1, MarksStay, FailureSteps DEF ThreadKept, FailureIsTold
  <1>2. CASE synth' \notin {"failing", "exited"}
    BY <1>2 DEF FailureIsTold
  <1>3. CASE synth' = "failing" /\ why' # "none"
    BY <1>3 DEF FailureIsTold
  <1>4. CASE SynthExit
    <2>1. stopping /\ running = None /\ synth' = "exited" /\ UNCHANGED <<stopping, running>>
      BY <1>4 DEF SynthExit, SynthFrame, GoTo, IInv, ThreadOwnsReply, lifeVars, sessVars
    <2> QED
      BY <2>1 DEF FailureIsTold
  <1>5. CASE SynthFault
    <2>1. synth' = "exited" /\ stopping' = TRUE /\ why # "none"
          /\ error' = (IF error = "none" THEN why ELSE error)
      BY <1>5 DEF SynthFault, Fault, FenceAll, GoTo, FailureIsTold
    <2> QED
      BY <2>1 DEF FailureIsTold
  <1> QED
    BY <1>1, <1>2, <1>3, <1>4, <1>5, FailureSteps

(* The premises of DrainIsComplete: nothing went wrong.                    *)
Clean ==
    /\ ~aborted /\ error = "none" /\ synth # "failing" /\ control # "failing"

(* What stops a session: the look at its conditions, or something wrong.   *)
LEMMA StopSteps ==
  ASSUME FailureIsTold, [Next]_vars
  PROVE  UNCHANGED stopping \/ MaybeClose \/ error' # "none" \/ aborted' = TRUE
  <1> DEFINE Stops == UNCHANGED stopping \/ MaybeClose \/ error' # "none" \/ aborted' = TRUE
  <1> USE DEF vars, lifeVars
  <1>1. ASSUME \/ PickJob \/ SynthExit \/ NextSegment \/ StartSegment \/ CheckChunk
               \/ NextChunk \/ EndSegment \/ NextCancelled
        PROVE  Stops
    BY <1>1 DEF PickJob, SynthExit, NextSegment, StartSegment, CheckChunk,
       NextChunk, EndSegment, NextCancelled, SynthFrame
  <1>2. ASSUME \/ AdmitChunk \/ TakeSpace \/ ResetSegment \/ Unwind \/ Retire
               \/ SynthesisFails \/ OutputDeadline
        PROVE  Stops
    <2>1. UNCHANGED stopping \/ MaybeClose
      BY <1>2 DEF AdmitChunk, TakeSpace, SettleFrame, ResetSegment, Unwind, Retire,
         SynthesisFails, OutputDeadline, SynthFrame
    <2> QED
      BY <2>1
  <1>3. ASSUME SynthFault PROVE Stops
    BY <1>3 DEF SynthFault, Fault, FailureIsTold
  <1>4. ASSUME ControlFault \/ HearingFault \/ ModelDeadline PROVE Stops
    BY <1>4 DEF ControlFault, HearingFault, ModelDeadline, Fault
  <1>5. ASSUME HostStep PROVE Stops
    <2>1. ASSUME NEW g \in Generations,
                 \/ \E parts \in 1..MaxSegments : Synthesize(g, parts)
                 \/ SynthesizeOverflow(g)
                 \/ \E cancel \in BOOLEAN : HostInterrupt(g, cancel)
                 \/ HostInterruptOverflow(g)
                 \/ Release(g)
          PROVE  Stops
      BY <2>1 DEF Synthesize, SynthesizeOverflow, HostInterrupt,
         HostInterruptOverflow, InterruptFrame, Release
    <2>2. ASSUME NEW g \in Generations, NEW position \in 0..delivered[g],
                 NEW terminal \in BOOLEAN, NEW stop \in BOOLEAN,
                 Playback(g, position, terminal, stop)
          PROVE  Stops
      <3>1. MaybeClose
        BY <2>2 DEF Playback
      <3> QED
        BY <3>1
    <2>3. ASSUME TakeAudio \/ TakeEvent \/ FinishInput \/ CloseDrain \/ Closed PROVE Stops
      <3>1. UNCHANGED stopping \/ MaybeClose
        BY <2>3 DEF TakeAudio, TakeEvent, FinishInput, CloseDrain, Closed
      <3> QED
        BY <3>1
    <2>4. ASSUME CloseAbort PROVE Stops
      BY <2>4 DEF CloseAbort
    <2> HIDE DEF Stops
    <2> QED
      BY <1>5, <2>1, <2>2, <2>3, <2>4 DEF HostStep
  <1>6. ASSUME \/ HearSpeech \/ BargeIn \/ SpeakerDone \/ InputDone \/ CancelStep
               \/ \E utterances \in {0, 1} : Hear(utterances)
        PROVE  Stops
    <2>1. UNCHANGED stopping \/ MaybeClose
      BY <1>6 DEF HearSpeech, BargeIn, InterruptFrame, Hear, SpeakerDone, InputDone,
         CancelStep, DeliverCancel
    <2> QED
      BY <2>1
  <1>7. ASSUME UNCHANGED vars PROVE Stops
    BY <1>7
  <1> HIDE DEF Stops
  <1>8. Stops
    BY <1>1, <1>2, <1>3, <1>4, <1>5, <1>6, <1>7 DEF Next, Steady, SynthStep, HearStep, Failure
  <1> QED
    BY <1>8 DEF Stops

(* What a step may still do once the session has stopped: release what was *)
(* settled, record receipts, finish the speaker work, report a failure.    *)
Settles ==
    /\ closing => closing'
    /\ input \in {"none", "done"} => input' = input
    /\ speakerJobs' \in {speakerJobs, 0}
    /\ running' \in {running, None}
    /\ known' \subseteq known
    /\ retired \subseteq retired' /\ endTaken \subseteq endTaken'
    /\ receipts \subseteq receipts'
    /\ aborted => aborted'
    /\ control = "failing" => control' = "failing" \/ error' # "none"
SettlesQuietly ==
    UNCHANGED <<closing, input, speakerJobs, running, known, retired, endTaken,
                receipts, aborted, control>>
LEMMA QuietSettles == SettlesQuietly => Settles
  BY DEF SettlesQuietly, Settles

LEMMA SettlesSteps ==
  ASSUME [Next]_vars, stopping
  PROVE  Settles
  <1> USE DEF vars, jobVars, clocks, marks, sessVars, lifeVars, hearVars
  <1>1. ASSUME \/ SynthExit \/ NextSegment \/ StartSegment \/ CheckChunk
               \/ NextChunk \/ EndSegment \/ NextCancelled
        PROVE  SettlesQuietly
    BY <1>1 DEF SettlesQuietly, SynthExit, NextSegment, StartSegment, CheckChunk,
       NextChunk, EndSegment, NextCancelled, SynthFrame
  <1>2. ASSUME \/ AdmitChunk \/ TakeSpace \/ ResetSegment \/ Unwind
               \/ SynthesisFails \/ OutputDeadline
        PROVE  SettlesQuietly
    BY <1>2 DEF SettlesQuietly, AdmitChunk, TakeSpace, SettleFrame, ResetSegment, Unwind,
       SynthesisFails, OutputDeadline, SynthFrame
  <1>3. ASSUME Retire PROVE Settles
    BY <1>3 DEF Settles, Retire
  <1>4. ~PickJob /\ ~TakeAudio /\ ~FinishInput /\ ~CloseDrain /\ ~CloseAbort /\ ~ModelDeadline
    BY DEF PickJob, TakeAudio, FinishInput, CloseDrain, CloseAbort, ModelDeadline
  <1>5. \A g \in Generations : ~SynthesizeOverflow(g) /\
            \A parts \in 1..MaxSegments : ~Synthesize(g, parts)
    BY DEF Synthesize, SynthesizeOverflow, MaySynthesize
  <1>6. \A utterances \in {0, 1} : ~Hear(utterances)
    BY DEF Hear
  <1>7. ASSUME SynthFault \/ HearingFault PROVE Settles
    BY <1>7 DEF Settles, SynthFault, HearingFault, FaultFrame
  <1>8. ASSUME ControlFault PROVE Settles
    <2>1. error' # "none"
      BY <1>8 DEF ControlFault, Fault
    <2> QED
      BY <1>8, <2>1 DEF Settles, ControlFault, FaultFrame
  <1>9. ASSUME NEW g \in Generations,
               \/ \E cancel \in BOOLEAN : HostInterrupt(g, cancel)
               \/ HostInterruptOverflow(g)
        PROVE  SettlesQuietly
    BY <1>9 DEF SettlesQuietly, HostInterrupt, HostInterruptOverflow, InterruptFrame
  <1>10. ASSUME NEW g \in Generations, NEW position \in 0..delivered[g],
                NEW terminal \in BOOLEAN, NEW stop \in BOOLEAN,
                Playback(g, position, terminal, stop)
         PROVE  Settles
    BY <1>10 DEF Settles, Playback
  <1>11. ASSUME NEW g \in Generations, Release(g) PROVE Settles
    BY <1>11 DEF Settles, Release
  <1>12. ASSUME TakeEvent \/ Closed \/ HearSpeech \/ CancelStep \/ UNCHANGED vars
         PROVE  SettlesQuietly
    BY <1>12 DEF SettlesQuietly, TakeEvent, Closed, HearSpeech, CancelStep, DeliverCancel
  <1>13. ASSUME BargeIn PROVE Settles
    BY <1>13 DEF Settles, BargeIn, InterruptFrame
  <1>14. ASSUME SpeakerDone PROVE Settles
    BY <1>14 DEF Settles, SpeakerDone
  <1>15. ASSUME InputDone PROVE Settles
    BY <1>15 DEF Settles, InputDone
  <1>16. ASSUME HostStep PROVE Settles
    BY <1>16, <1>4, <1>5, <1>9, <1>10, <1>11, <1>12, QuietSettles DEF HostStep
  <1>17. ASSUME HearStep PROVE Settles
    BY <1>17, <1>6, <1>8, <1>12, <1>13, <1>14, <1>15, QuietSettles DEF HearStep
  <1> QED
    BY <1>1, <1>2, <1>3, <1>4, <1>7, <1>12, <1>16, <1>17, QuietSettles
       DEF Next, Steady, SynthStep, Failure

(* All that has to be shown: what follows from the stop itself is empty.   *)
Over ==
    /\ closing /\ input \in {"none", "done"} /\ speakerJobs = 0 /\ running = None
    /\ known \subseteq retired \cap endTaken \cap receipts
LEMMA OverIsComplete ==
  ASSUME IInv, OutputIsCounted, stopping, Clean => Over
  PROVE  DrainIsComplete
  <1>1. \A g \in Generations : audio[g] = <<>>
    BY DEF IInv, StoppedIsEmpty
  <1>2. \A g \in Generations : queued[g] = 0
    BY <1>1 DEF IInv, TypeOK, JobTypes, AudioClock, QueueEnd
  <1>3. queuedOutput = 0
    BY <1>2, SumOfNothing DEF OutputIsCounted
  <1>4. known \subseteq Generations
    BY DEF IInv, TypeOK, JobTypes
  <1> QED
    BY <1>1, <1>3, <1>4 DEF DrainIsComplete, Clean, Over

LEMMA DrainStep ==
  ASSUME IInv, IInv', FailureIsTold, FailureIsTold', OutputIsCounted',
         stopping /\ Clean => Over, [Next]_vars, stopping', Clean'
  PROVE  Over'
  <1>1. error = "none" /\ error' = "none" /\ ~aborted' /\ synth' # "failing"
        /\ control' # "failing"
    BY FailureSteps DEF Clean
  <1>2. CASE stopping
    <2>1. Settles
      BY <1>2, SettlesSteps
    <2>2. synth # "failing"
      <3>1. CASE SynthFault
        BY <1>1, <3>1 DEF SynthFault, Fault, FailureIsTold
      <3>2. CASE SynthExit
        BY <3>2 DEF SynthExit
      <3> QED
        BY <1>1, <3>1, <3>2, FailureSteps DEF ThreadKept
    <2>3. Clean
      BY <1>1, <2>1, <2>2 DEF Clean, Settles
    <2> QED
      BY <1>2, <2>1, <2>3 DEF Over, Settles
  <1>3. CASE ~stopping
    <2>1. MaybeClose
      BY <1>1, <1>3, StopSteps
    <2>2. CloseReady'
      BY <1>3, <2>1 DEF MaybeClose
    <2>3. known' \subseteq (retired \cap endTaken \cap receipts)'
      BY <2>2 DEF CloseReady, Resolved
    <2>4. running' = None
      <3>1. synth' \notin Busy
        BY <2>3 DEF IInv, ThreadOwnsReply
      <3>2. synth' \in {"wait", "exited"}
        BY <1>1, <3>1 DEF IInv, TypeOK, SessionTypes, Places, Busy
      <3> QED
        BY <1>1, <3>2 DEF IInv, ThreadOwnsReply, FailureIsTold
    <2> QED
      BY <2>2, <2>3, <2>4 DEF Over, CloseReady
  <1> QED
    BY <1>2, <1>3

(* A session that stops without an abort and without an error has settled  *)
(* everything: every reply retired, its END taken and its receipt in, no   *)
(* sample queued, no thread at work; and it stays so.                      *)
THEOREM DrainIsCompleteHolds == Spec => []DrainIsComplete
  <1> DEFINE Counted == OutputIsCounted /\ WithinBound
             Told == FailureIsTold
             Ended == stopping /\ Clean => Over
  <1>1. Init => Told /\ Ended
    BY DEF Init, FailureIsTold
  <1>2. IInv /\ Told /\ [Next]_vars => Told'
    BY ToldStep
  <1>3. IInv /\ IInv' /\ Told /\ Told' /\ Counted' /\ Ended /\ [Next]_vars => Ended'
    <2> SUFFICES ASSUME IInv, IInv', FailureIsTold, FailureIsTold', OutputIsCounted',
                        stopping /\ Clean => Over, [Next]_vars, stopping', Clean'
                 PROVE  Over'
      OBVIOUS
    <2> QED
      BY DrainStep
  <1>4. IInv /\ Counted /\ Ended => DrainIsComplete
    <2> SUFFICES ASSUME IInv, OutputIsCounted, Ended PROVE DrainIsComplete
      OBVIOUS
    <2>1. CASE stopping
      BY <2>1, OverIsComplete
    <2>2. CASE ~stopping
      BY <2>2 DEF DrainIsComplete
    <2> QED
      BY <2>1, <2>2
  <1>5. Spec => []Counted
    BY OutputIsCountedHolds
  <1> HIDE DEF Counted, Told, Ended
  <1> QED
    BY <1>1, <1>2, <1>3, <1>4, <1>5, Invariance, PTL DEF Spec

----------------------------------------------------------------------------
(* The session implements Custody.                                         *)

Staged == [g \in Generations |-> Stage(g)]

LEMMA OneStageMoves ==
  ASSUME NEW g \in Generations, NEW s, Stage(g)' = s,
         \A h \in Generations \ {g} : Stage(h)' = Stage(h)
  PROVE  Staged' = [Staged EXCEPT ![g] = s]
  BY DEF Staged

LEMMA NoStageMoves ==
  ASSUME \A h \in Generations : Stage(h)' = Stage(h)
  PROVE  UNCHANGED Staged
  BY DEF Staged

LEMMA StageSame ==
  ASSUME UNCHANGED <<known, fenced, receipts>>
  PROVE  \A h \in Generations : Stage(h)' = Stage(h)
  BY DEF Stage

LEMMA MayCloseOnce ==
  ASSUME MaybeClose, stopping \in BOOLEAN
  PROVE  stopping' = stopping \/ (CloseReady' /\ stopping' = TRUE)
  <1>1. CASE stopping = TRUE
    BY <1>1 DEF MaybeClose
  <1>2. CASE stopping = FALSE
    <2>1. CASE CloseReady'
      BY <1>2, <2>1 DEF MaybeClose
    <2>2. CASE ~CloseReady'
      BY <1>2, <2>2 DEF MaybeClose
    <2> QED
      BY <2>1, <2>2
  <1> QED
    BY <1>1, <1>2

(* Nothing the host can see of custody changes, but the session may close. *)
LEMMA CloseOrStutter ==
  ASSUME UNCHANGED <<known, fenced, receipts, delivered, rendered>>,
         UNCHANGED stopping \/ MaybeClose, stopping \in BOOLEAN
  PROVE  [Promise!Next]_Promise!vars
  <1>1. UNCHANGED Staged
    BY StageSame, NoStageMoves
  <1>2. CASE UNCHANGED stopping
    BY <1>1, <1>2 DEF Promise!vars, Staged
  <1>3. CASE MaybeClose
    <2>1. CASE stopping' = stopping
      BY <1>1, <2>1 DEF Promise!vars, Staged
    <2>2. CASE CloseReady' /\ stopping' = TRUE
      <3>1. \A g \in known : g \in receipts
        BY <2>2 DEF CloseReady, Resolved
      <3>2. \A g \in Generations : Stage(g) \in {"new", "settled", "released"}
        BY <3>1 DEF Stage
      <3>3. Promise!AllSettled
        BY <3>2 DEF Promise!AllSettled
      <3>4. Promise!Close
        BY <1>1, <2>2, <3>3 DEF Promise!Close, Staged
      <3> QED
        BY <3>4 DEF Promise!Next
    <2>3. stopping' = stopping \/ (CloseReady' /\ stopping' = TRUE)
      BY <1>3, MayCloseOnce
    <2> QED
      BY <2>1, <2>2, <2>3
  <1> QED
    BY <1>2, <1>3

(* The reply is admitted.                                                  *)
LEMMA AdmitRefines ==
  ASSUME IInv, NEW g \in Generations, NEW parts \in 1..MaxSegments, Synthesize(g, parts)
  PROVE  Promise!Admit(g)
  <1>1. /\ ~stopping /\ g > lastGeneration /\ known' = known \cup {g}
        /\ UNCHANGED <<fenced, receipts, delivered, rendered, stopping>>
    BY DEF Synthesize, MaySynthesize, lifeVars
  <1>2. g \notin known /\ g \notin fenced /\ g \notin receipts
    BY <1>1 DEF IInv, Fresh, Untouched
  <1>3. Stage(g)' = "open" /\ \A h \in Generations \ {g} : Stage(h)' = Stage(h)
    BY <1>1, <1>2 DEF Stage
  <1>4. Staged' = [Staged EXCEPT ![g] = "open"]
    BY <1>3, OneStageMoves
  <1>5. ASSUME NEW h \in Generations, Stage(h) # "new" PROVE h < g
    <2>1. h \in known \cup receipts
      BY <1>5 DEF Stage
    <2>2. ~(h > lastGeneration)
      BY <2>1 DEF IInv, Fresh, Untouched
    <2>3. h \in Nat /\ g \in Nat /\ lastGeneration \in Nat
      BY GenerationsAssumption DEF IInv, TypeOK, SessionTypes
    <2> QED
      BY <1>1, <2>2, <2>3
  <1>6. \A h \in Generations : Staged[h] = Stage(h)
    BY DEF Staged
  <1> QED
    BY <1>1, <1>4, <1>5, <1>6 DEF Promise!Admit, Staged

(* Samples are given out, or the END, which may be the last thing the      *)
(* close was waiting for.                                                  *)
LEMMA GiveRefines ==
  ASSUME IInv, TakeAudio
  PROVE  [Promise!Next]_Promise!vars
  <1>1. PICK g \in Generations :
          /\ Least(g, Takeable)
          /\ delivered' = [delivered EXCEPT ![g] = @ + Head(audio[g]).n]
          /\ IF Head(audio[g]).end THEN MaybeClose ELSE UNCHANGED stopping
          /\ UNCHANGED <<known, fenced, receipts, rendered>>
    BY DEF TakeAudio
  <1>2. ~stopping /\ stopping \in BOOLEAN
    BY DEF TakeAudio, IInv, TypeOK, FlagTypes
  <1>3. /\ audio[g] # <<>> /\ audio[g] \in Seq(ChunkType) /\ g \in known
        /\ delivered \in [Generations -> Nat]
    BY <1>1 DEF Least, Takeable, IInv, TypeOK, JobTypes
  <1>4. Head(audio[g]) = audio[g][1] /\ 1 \in 1..Len(audio[g])
    BY <1>3, TailOfSeq
  <1> DEFINE n == Head(audio[g]).n
  <1>5. n \in Nat
    BY <1>3, <1>4, ChunkFields
  <1>6. Head(audio[g]).end => n = 0
    BY <1>4 DEF IInv, Clocks
  <1>7. g \in fenced => n = 0
    BY <1>4, <1>6 DEF IInv, FencedIsSilent
  <1>8. delivered' = [delivered EXCEPT ![g] = delivered[g] + n]
    BY <1>1
  <1> HIDE DEF n
  <1>9. CASE n = 0
    <2>1. delivered' = delivered
      BY <1>3, <1>8, <1>9
    <2>2. UNCHANGED stopping \/ MaybeClose
      BY <1>1
    <2> QED
      BY <1>1, <1>2, <2>1, <2>2, CloseOrStutter
  <1>10. CASE n # 0
    <2>1. UNCHANGED stopping /\ g \notin fenced
      BY <1>1, <1>6, <1>7, <1>10
    <2>2. g \notin receipts
      BY <1>3, <2>1 DEF IInv, ReceiptIsHonest, EndOwed
    <2>3. Stage(g) = "open"
      BY <1>3, <2>1, <2>2 DEF Stage
    <2>4. UNCHANGED Staged
      BY <1>1, StageSame, NoStageMoves
    <2>5. delivered'[g] = delivered[g] + n
      BY <1>3, <1>8
    <2>6. delivered'[g] > delivered[g]
      BY <1>3, <1>5, <1>10, <2>5
    <2>7. delivered' = [delivered EXCEPT ![g] = delivered'[g]]
      BY <1>8, <2>5
    <2>8. Staged[g] = "open"
      BY <2>3 DEF Staged
    <2>9. Promise!Give(g)
      BY <1>1, <1>2, <2>1, <2>4, <2>6, <2>7, <2>8 DEF Promise!Give, Staged
    <2> QED
      BY <2>9 DEF Promise!Next
  <1> QED
    BY <1>9, <1>10

(* A reply is cut by the first fence; a second interrupt changes nothing.  *)
LEMMA CutRefines ==
  ASSUME IInv, NEW g \in known, NEW cancel \in BOOLEAN,
         InterruptLocked(g, cancel) \/ InterruptOverflow(g), InterruptFrame
  PROVE  [Promise!Next]_Promise!vars
  <1>1. UNCHANGED <<known, receipts, delivered, rendered, stopping>>
    BY DEF InterruptFrame, lifeVars
  <1>2. g \in Generations /\ stopping \in BOOLEAN
    BY DEF IInv, TypeOK, JobTypes, FlagTypes
  <1>3. \/ UNCHANGED fenced
        \/ g \notin fenced /\ g \notin receipts /\ fenced' = fenced \cup {g}
    BY DEF InterruptLocked, InterruptOverflow, Fenceable, Fence
  <1>4. CASE UNCHANGED fenced
    BY <1>1, <1>2, <1>4, CloseOrStutter
  <1>5. CASE g \notin fenced /\ g \notin receipts /\ fenced' = fenced \cup {g}
    <2>1. Stage(g) = "open" /\ Stage(g)' = "cut"
          /\ \A h \in Generations \ {g} : Stage(h)' = Stage(h)
      BY <1>1, <1>5 DEF Stage
    <2>2. Staged' = [Staged EXCEPT ![g] = "cut"] /\ Staged[g] = "open"
      BY <1>2, <2>1, OneStageMoves DEF Staged
    <2>3. Promise!Cut(g)
      BY <1>1, <2>2 DEF Promise!Cut, Staged
    <2> QED
      BY <1>2, <2>3 DEF Promise!Next
  <1> QED
    BY <1>3, <1>4, <1>5

(* A receipt of progress or of the end.                                    *)
LEMMA ReportRefines ==
  ASSUME IInv, NEW g \in Generations, NEW position \in 0..delivered[g],
         NEW terminal \in BOOLEAN, NEW stop \in BOOLEAN,
         Playback(g, position, terminal, stop)
  PROVE  [Promise!Next]_Promise!vars
  <1>1. /\ g \in known /\ MayPlay(g, position, terminal, stop)
        /\ rendered' = [rendered EXCEPT ![g] = position]
        /\ receipts' = IF terminal THEN receipts \cup {g} ELSE receipts
        /\ UNCHANGED <<known, fenced, delivered>>
        /\ MaybeClose
    BY DEF Playback, MayPlay
  <1>2. /\ rendered \in [Generations -> Nat] /\ delivered[g] \in Nat
        /\ generated[g] \in Nat /\ queued[g] \in Nat /\ stopping \in BOOLEAN
    BY DEF IInv, TypeOK, JobTypes, FlagTypes
  <1>3. CASE g \in receipts
    <2>1. position = rendered[g]
      BY <1>1, <1>3 DEF MayPlay
    <2>2. UNCHANGED <<known, fenced, receipts, delivered, rendered>>
      BY <1>1, <1>2, <1>3, <2>1
    <2> QED
      BY <1>1, <1>2, <2>2, CloseOrStutter
  <1>4. CASE g \notin receipts
    <2>1. Stage(g) = (IF g \in fenced THEN "cut" ELSE "open")
      BY <1>1, <1>4 DEF Stage
    <2>2. /\ position \in Nat /\ rendered[g] <= position /\ position <= delivered[g]
      BY <1>1, <1>2 DEF MayPlay
    <2>3. rendered'[g] = position /\ rendered' = [rendered EXCEPT ![g] = rendered'[g]]
      BY <1>1, <1>2
    <2>4. Promise!MayClose
      <3>1. CASE stopping' = stopping
        BY <3>1 DEF Promise!MayClose
      <3>2. CASE CloseReady' /\ stopping' = TRUE
        <4>1. \A h \in known' : h \in receipts'
          BY <3>2 DEF CloseReady, Resolved
        <4>2. \A h \in Generations : Stage(h)' \in {"new", "settled", "released"}
          BY <4>1 DEF Stage
        <4> QED
          BY <3>2, <4>2 DEF Promise!MayClose, Promise!AllSettled
      <3> QED
        BY <1>1, <1>2, <3>1, <3>2, MayCloseOnce
    <2>5. CASE ~terminal
      <3>1. UNCHANGED Staged
        BY <1>1, <2>5, StageSame, NoStageMoves
      <3>2. Promise!Report(g)
        BY <1>1, <2>1, <2>2, <2>3, <2>4, <3>1 DEF Promise!Report, Staged
      <3> QED
        BY <3>2 DEF Promise!Next
    <2>6. CASE terminal
      <3>1. Stage(g)' = "settled" /\ \A h \in Generations \ {g} : Stage(h)' = Stage(h)
        BY <1>1, <2>6 DEF Stage
      <3>2. Staged' = [Staged EXCEPT ![g] = "settled"]
        BY <3>1, OneStageMoves
      <3>3. g \in fenced \/ position = delivered[g]
        <4>1. g \notin fenced => position = generated[g]
          BY <1>1, <2>6 DEF MayPlay
        <4>2. delivered[g] + queued[g] <= generated[g]
          BY DEF IInv, Clocks
        <4> QED
          BY <1>2, <2>2, <4>1, <4>2
      <3>4. Staged[g] = Stage(g)
        BY DEF Staged
      <3>5. Staged[g] \in {"open", "cut"} /\ (Staged[g] = "cut" \/ rendered'[g] = delivered[g])
        BY <2>1, <2>3, <3>3, <3>4
      <3>6. rendered[g] <= rendered'[g] /\ rendered'[g] <= delivered[g]
        BY <2>2, <2>3
      <3>7. Promise!Report(g)
        BY <1>1, <2>3, <2>4, <3>2, <3>5, <3>6 DEF Promise!Report, Staged
      <3> QED
        BY <3>7 DEF Promise!Next
    <2> QED
      BY <2>5, <2>6
  <1> QED
    BY <1>3, <1>4

LEMMA ReleaseRefines ==
  ASSUME IInv, NEW g \in Generations, Release(g)
  PROVE  Promise!Release(g)
  <1>1. /\ g \in known /\ g \in receipts /\ known' = known \ {g}
        /\ UNCHANGED <<fenced, receipts, delivered, rendered, stopping>>
    BY DEF Release, Resolved, clocks, marks, lifeVars
  <1>2. /\ Stage(g) = "settled" /\ Stage(g)' = "released"
        /\ \A h \in Generations \ {g} : Stage(h)' = Stage(h)
    BY <1>1 DEF Stage
  <1>3. Staged' = [Staged EXCEPT ![g] = "released"] /\ Staged[g] = "settled"
    BY <1>2, OneStageMoves DEF Staged
  <1> QED
    BY <1>1, <1>3 DEF Promise!Release, Staged

(* A fault, the model watch and an abort cut whatever is open.             *)
LEMMA BreakRefines ==
  ASSUME IInv, FenceAll, UNCHANGED <<known, receipts, delivered, rendered>>
  PROVE  Promise!Break
  <1>1. fenced' = fenced \cup known /\ stopping' = TRUE
    BY DEF FenceAll
  <1>2. \A g \in Generations :
           Stage(g)' = IF Stage(g) = "open" THEN "cut" ELSE Stage(g)
    BY <1>1 DEF Stage
  <1> QED
    BY <1>1, <1>2 DEF Promise!Break

(* Everything else is hidden from the host, or may only close the session. *)
CustodySame ==
    /\ UNCHANGED <<known, fenced, receipts, delivered, rendered>>
    /\ UNCHANGED stopping \/ MaybeClose

LEMMA HiddenActions ==
  ASSUME \/ PickJob \/ SynthExit \/ NextSegment \/ StartSegment \/ CheckChunk
         \/ NextChunk \/ EndSegment \/ NextCancelled \/ AdmitChunk \/ TakeSpace
         \/ ResetSegment \/ Unwind \/ Retire \/ SynthesisFails \/ OutputDeadline
         \/ TakeEvent \/ FinishInput \/ CloseDrain \/ Closed \/ HearSpeech
         \/ SpeakerDone \/ InputDone \/ CancelStep \/ UNCHANGED vars
         \/ \E utterances \in {0, 1} : Hear(utterances)
         \/ \E g \in Generations : SynthesizeOverflow(g)
  PROVE  CustodySame
  <1> USE DEF vars, jobVars, clocks, marks, lifeVars
  <1>1. ASSUME \/ PickJob \/ SynthExit \/ NextSegment \/ StartSegment \/ CheckChunk
               \/ NextChunk \/ EndSegment \/ NextCancelled
        PROVE  CustodySame
    BY <1>1 DEF CustodySame, PickJob, SynthExit, NextSegment, StartSegment,
       CheckChunk, NextChunk, EndSegment, NextCancelled, SynthFrame
  <1>2. ASSUME \/ AdmitChunk \/ TakeSpace \/ ResetSegment \/ Unwind \/ Retire
               \/ SynthesisFails \/ OutputDeadline
        PROVE  CustodySame
    BY <1>2 DEF CustodySame, AdmitChunk, TakeSpace, SettleFrame, ResetSegment,
       Unwind, Retire, SynthesisFails, OutputDeadline, SynthFrame
  <1>3. ASSUME \/ TakeEvent \/ FinishInput \/ CloseDrain \/ Closed
               \/ \E g \in Generations : SynthesizeOverflow(g)
        PROVE  CustodySame
    BY <1>3 DEF CustodySame, TakeEvent, FinishInput, CloseDrain, Closed, SynthesizeOverflow
  <1>4. ASSUME \/ HearSpeech \/ SpeakerDone \/ InputDone \/ CancelStep \/ UNCHANGED vars
               \/ \E utterances \in {0, 1} : Hear(utterances)
        PROVE  CustodySame
    BY <1>4 DEF CustodySame, HearSpeech, SpeakerDone, InputDone, CancelStep,
       DeliverCancel, Hear
  <1> QED
    BY <1>1, <1>2, <1>3, <1>4

LEMMA NextRefines ==
  ASSUME IInv, [Next]_vars
  PROVE  [Promise!Next]_Promise!vars
  <1> DEFINE Refined == [Promise!Next]_Promise!vars
  <1>a. stopping \in BOOLEAN
    BY DEF IInv, TypeOK, FlagTypes
  <1>b. ASSUME CustodySame PROVE Refined
    BY <1>a, <1>b, CloseOrStutter DEF CustodySame
  <1>1. ASSUME NEW g \in Generations, NEW parts \in 1..MaxSegments, Synthesize(g, parts)
        PROVE  Refined
    BY <1>1, AdmitRefines DEF Promise!Next
  <1>2. ASSUME NEW g \in Generations, NEW cancel \in BOOLEAN,
               HostInterrupt(g, cancel) \/ HostInterruptOverflow(g)
        PROVE  Refined
    BY <1>2, CutRefines DEF HostInterrupt, HostInterruptOverflow
  <1>3. ASSUME NEW g \in Generations, HostInterruptOverflow(g) PROVE Refined
    BY <1>2, <1>3
  <1>4. ASSUME NEW g \in Generations, NEW position \in 0..delivered[g],
               NEW terminal \in BOOLEAN, NEW stop \in BOOLEAN,
               Playback(g, position, terminal, stop)
        PROVE  Refined
    BY <1>4, ReportRefines
  <1>5. ASSUME NEW g \in Generations, Release(g) PROVE Refined
    BY <1>5, ReleaseRefines DEF Promise!Next
  <1>6. ASSUME TakeAudio PROVE Refined
    BY <1>6, GiveRefines
  <1>7. ASSUME SynthFault \/ ControlFault \/ HearingFault \/ ModelDeadline \/ CloseAbort
        PROVE  Refined
    <2>1. FenceAll
      BY <1>7 DEF Fault, SynthFault, ControlFault, HearingFault, ModelDeadline, CloseAbort
    <2>2. UNCHANGED <<known, receipts, delivered, rendered>>
      BY <1>7 DEF FaultFrame, SynthFault, ControlFault, HearingFault, ModelDeadline,
         CloseAbort
    <2> QED
      BY <2>1, <2>2, BreakRefines DEF Promise!Next
  <1>8. ASSUME BargeIn PROVE Refined
    <2>1. PICK g \in Generations :
            \/ /\ g \notin known
               /\ UNCHANGED fenced
            \/ /\ g \in known
               /\ InterruptLocked(g, TRUE) \/ InterruptOverflow(g)
      BY <1>8 DEF BargeIn
    <2>2. InterruptFrame
      BY <1>8 DEF BargeIn
    <2>3. CASE g \in known
      BY <2>1, <2>2, <2>3, CutRefines
    <2>4. CASE g \notin known
      <3>1. CustodySame
        BY <2>1, <2>2, <2>4 DEF InterruptFrame, CustodySame, lifeVars
      <3> QED
        BY <3>1, <1>b
    <2> QED
      BY <2>3, <2>4
  <1> HIDE DEF Refined
  <1>9. ASSUME SynthStep \/ CancelStep \/ Failure \/ UNCHANGED vars PROVE Refined
    BY <1>9, <1>b, <1>7, HiddenActions DEF SynthStep, Failure
  <1>10. ASSUME HostStep PROVE Refined
    <2>1. ASSUME NEW g \in Generations, SynthesizeOverflow(g) PROVE Refined
      BY <2>1, <1>b, HiddenActions
    <2>2. ASSUME TakeEvent \/ FinishInput \/ CloseDrain \/ Closed PROVE Refined
      BY <2>2, <1>b, HiddenActions
    <2> QED
      BY <1>10, <1>1, <1>2, <1>3, <1>4, <1>5, <1>6, <1>7, <2>1, <2>2 DEF HostStep
  <1>11. ASSUME HearStep PROVE Refined
    <2>1. ASSUME \/ HearSpeech \/ SpeakerDone \/ InputDone
                 \/ \E utterances \in {0, 1} : Hear(utterances)
          PROVE  Refined
      BY <2>1, <1>b, HiddenActions
    <2> QED
      BY <1>11, <1>7, <1>8, <2>1 DEF HearStep
  <1> QED
    BY <1>9, <1>10, <1>11 DEF Next, Steady, Refined

LEMMA InitRefines == Init => Promise!Init
  <1> SUFFICES ASSUME Init PROVE Promise!Init
    OBVIOUS
  <1>1. known = {} /\ receipts = {} /\ stopping = FALSE
        /\ delivered = [g \in Generations |-> 0] /\ rendered = [g \in Generations |-> 0]
    BY DEF Init
  <1>2. \A g \in Generations : Stage(g) = "new"
    BY <1>1 DEF Stage
  <1> QED
    BY <1>1, <1>2 DEF Promise!Init

(* The engine, with its threads, queues, events and cancel calls, keeps    *)
(* the promise of module Custody: every step of it is one step of custody  *)
(* or none.                                                                *)
THEOREM KeepsCustodyHolds == Spec => KeepsCustody
  <1>1. IInv /\ [Next]_vars => [Promise!Next]_Promise!vars
    BY NextRefines
  <1> QED
    BY <1>1, InitRefines, Invariance, PTL DEF Spec, KeepsCustody, Promise!Spec
=============================================================================
