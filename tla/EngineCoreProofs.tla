--------------------------- MODULE EngineCoreProofs ---------------------------
(***************************************************************************)
(* For any number of channels, every ceiling and every limit: a slot is    *)
(* kept for whoever was told yes, the first session of a process is never  *)
(* refused, and Stop leaves nothing of what it found.                      *)
(***************************************************************************)
EXTENDS EngineCore, FiniteSetTheorems, TLAPS

(* Before its process is started a channel has none; before it is handed   *)
(* over it has no thread; a process asks nothing before it is started.     *)
Before == {"none", "admitting", "handing", "failing", "asking", "admitted", "starting"}
Lifetime(c) ==
    /\ caller[c] \in Before => proc[c] = "none"
    /\ caller[c] \in {"started", "entered"} \/ c \in live \cup left => proc[c] # "none"
    /\ proc[c] = "none" => session[c] = "none" /\ opens[c] = 0
    /\ session[c] # "none" => opens[c] # 0
    /\ handing = c => caller[c] = "handing"
    /\ caller[c] \in {"none", "admitting"} => thread[c] = "none"
(* The thread of a channel whose session end is open serves it while the   *)
(* server is up.                                                           *)
IsServed(c) ==
    /\ handing = c /\ word = "y" => thread[c] # "none"
    /\ caller[c] \in {"asking", "admitted", "starting"} \/ proc[c] # "none" => thread[c] # "none"
    /\ server = "up" /\ EndIsOpen(c) => thread[c] \in {"none", "serving"}
(* What may be under way on a channel.                                     *)
MailOf(c) ==
    /\ caller[c] = "asking" => mail[c] \in {"admit", "yes", "no"}
    /\ caller[c] \in {"admitted", "starting"} => mail[c] = "none"
    /\ proc[c] # "none" =>
          mail[c] \in IF session[c] = "asking" THEN {"admit", "yes", "no"}
                      ELSE IF session[c] = "releasing" THEN {"release", "released"} ELSE {"none"}
(* Whoever was told yes, or will be, has the slot while its thread serves. *)
Promised(c) ==
    \/ WasAdmitted(c) \/ (session[c] = "asking" /\ opens[c] = 1)
    \/ /\ mail[c] = "yes"
       /\ caller[c] = "asking" \/ session[c] = "asking"
HasSlot(c) ==
    /\ thread[c] = "serving" /\ server # "gone" /\ Promised(c) => c \in held
    /\ c \in held => thread[c] = "serving"
ChannelInv(c) ==
    Lifetime(c) /\ IsServed(c) /\ MailOf(c) /\ HasSlot(c)
    /\ (session[c] = "asking" /\ opens[c] = 1 => mail[c] # "no")
StopInv ==
    /\ stop \in {"no", "marked"} => left = {} /\ passed = {} /\ at = NoChannel
    /\ \A p \in passed : proc[p] = "dead"
    /\ stop \in {"ending", "returned"} => passed = left /\ server # "up"
    /\ stop = "returned" => server = "gone"
IInv ==
    /\ TypeOK /\ (\A c \in Channels : ChannelInv(c)) /\ StopInv
    /\ IsFiniteSet(held) /\ Cardinality(held) <= Ceiling
LEMMA InitHolds == Init => IInv
  <1> SUFFICES ASSUME Init PROVE IInv
    OBVIOUS
  <1>1. TypeOK
    BY CoreAssumption DEF Init, TypeOK
  <1>2. \A c \in Channels : ChannelInv(c)
    BY CoreAssumption DEF Init, ChannelInv, Lifetime, Before, IsServed, MailOf, HasSlot, Promised, WasAdmitted, EndIsOpen
  <1>3. StopInv
    BY DEF Init, StopInv
  <1>4. IsFiniteSet(held) /\ Cardinality(held) <= Ceiling
    BY CoreAssumption, FS_EmptySet DEF Init
  <1> QED
    BY <1>1, <1>2, <1>3, <1>4 DEF IInv

LEMMA AdmitBeginsKeeps == ASSUME NEW c \in Channels, IInv, AdmitBegins(c) PROVE IInv'
  <1> USE DEF AdmitBegins, Moves, Posts, Asks, stopping, IsCut, carrierVars, stopVars, serverVars, processVars
  <1>1. TypeOK'
    BY DEF IInv, TypeOK
  <1>2. ASSUME NEW d \in Channels PROVE ChannelInv(d)'
    <2>1. Lifetime(d)'
      BY DEF IInv, ChannelInv, Lifetime, Before, TypeOK
    <2>2. IsServed(d)'
      BY DEF IInv, ChannelInv, Lifetime, Before, IsServed, EndIsOpen, TypeOK
    <2>3. MailOf(d)'
      BY DEF IInv, ChannelInv, Lifetime, Before, MailOf, TypeOK
    <2>4. HasSlot(d)' /\ (session[d] = "asking" /\ opens[d] = 1 => mail[d] # "no")'
      BY DEF IInv, ChannelInv, Lifetime, Before, IsServed, EndIsOpen, MailOf, HasSlot, Promised, WasAdmitted, TypeOK
    <2> QED
      BY <2>1, <2>2, <2>3, <2>4 DEF ChannelInv
  <1>3. StopInv'
    BY DEF IInv, StopInv, ChannelInv, Lifetime, Before, TypeOK
  <1>4. (IsFiniteSet(held) /\ Cardinality(held) <= Ceiling)'
    BY DEF IInv
  <1> QED
    BY <1>1, <1>2, <1>3, <1>4 DEF IInv

LEMMA GivesToServerKeeps == ASSUME NEW c \in Channels, IInv, GivesToServer(c) PROVE IInv'
  <1> USE DEF GivesToServer, Moves, Posts, Asks, stopping, IsCut, carrierVars, stopVars, serverVars, processVars
  <1>1. TypeOK'
    BY DEF IInv, TypeOK
  <1>2. ASSUME NEW d \in Channels PROVE ChannelInv(d)'
    <2>1. Lifetime(d)'
      BY DEF IInv, ChannelInv, Lifetime, Before, TypeOK
    <2>2. IsServed(d)'
      BY DEF IInv, ChannelInv, Lifetime, Before, IsServed, EndIsOpen, TypeOK
    <2>3. MailOf(d)'
      BY DEF IInv, ChannelInv, Lifetime, Before, MailOf, TypeOK
    <2>4. HasSlot(d)' /\ (session[d] = "asking" /\ opens[d] = 1 => mail[d] # "no")'
      BY DEF IInv, ChannelInv, Lifetime, Before, IsServed, EndIsOpen, MailOf, HasSlot, Promised, WasAdmitted, TypeOK
    <2> QED
      BY <2>1, <2>2, <2>3, <2>4 DEF ChannelInv
  <1>3. StopInv'
    BY DEF IInv, StopInv, ChannelInv, Lifetime, Before, TypeOK
  <1>4. (IsFiniteSet(held) /\ Cardinality(held) <= Ceiling)'
    BY DEF IInv
  <1> QED
    BY <1>1, <1>2, <1>3, <1>4 DEF IInv

LEMMA HandedOverKeeps == ASSUME NEW c \in Channels, IInv, HandedOver(c) PROVE IInv'
  <1> USE CoreAssumption DEF HandedOver, Moves, Posts, Asks, stopping, IsCut, carrierVars, stopVars, serverVars, processVars
  <1>1. TypeOK'
    BY DEF IInv, TypeOK
  <1>2. ASSUME NEW d \in Channels PROVE ChannelInv(d)'
    <2>1. Lifetime(d)'
      BY DEF IInv, ChannelInv, Lifetime, Before, TypeOK
    <2>2. IsServed(d)'
      BY DEF IInv, ChannelInv, Lifetime, Before, IsServed, EndIsOpen, TypeOK
    <2>3. MailOf(d)'
      BY DEF IInv, ChannelInv, Lifetime, Before, MailOf, TypeOK
    <2>4. HasSlot(d)' /\ (session[d] = "asking" /\ opens[d] = 1 => mail[d] # "no")'
      BY DEF IInv, ChannelInv, Lifetime, Before, IsServed, EndIsOpen, MailOf, HasSlot, Promised, WasAdmitted, TypeOK
    <2> QED
      BY <2>1, <2>2, <2>3, <2>4 DEF ChannelInv
  <1>3. StopInv'
    BY DEF IInv, StopInv, ChannelInv, Lifetime, Before, TypeOK
  <1>4. (IsFiniteSet(held) /\ Cardinality(held) <= Ceiling)'
    BY DEF IInv
  <1> QED
    BY <1>1, <1>2, <1>3, <1>4 DEF IInv

LEMMA ControlLostKeeps == ASSUME NEW c \in Channels, IInv, ControlLost(c) PROVE IInv'
  <1> USE CoreAssumption DEF ControlLost, Moves, Posts, Asks, stopping, IsCut, carrierVars, stopVars, serverVars, processVars
  <1>1. TypeOK'
    BY DEF IInv, TypeOK
  <1>2. ASSUME NEW d \in Channels PROVE ChannelInv(d)'
    <2>1. Lifetime(d)'
      BY DEF IInv, ChannelInv, Lifetime, Before, TypeOK
    <2>2. IsServed(d)'
      BY DEF IInv, ChannelInv, Lifetime, Before, IsServed, EndIsOpen, TypeOK
    <2>3. MailOf(d)'
      BY DEF IInv, ChannelInv, Lifetime, Before, MailOf, TypeOK
    <2>4. HasSlot(d)' /\ (session[d] = "asking" /\ opens[d] = 1 => mail[d] # "no")'
      BY DEF IInv, ChannelInv, Lifetime, Before, IsServed, EndIsOpen, MailOf, HasSlot, Promised, WasAdmitted, TypeOK
    <2> QED
      BY <2>1, <2>2, <2>3, <2>4 DEF ChannelInv
  <1>3. StopInv'
    BY DEF IInv, StopInv, ChannelInv, Lifetime, Before, TypeOK
  <1>4. (IsFiniteSet(held) /\ Cardinality(held) <= Ceiling)'
    BY DEF IInv
  <1> QED
    BY <1>1, <1>2, <1>3, <1>4 DEF IInv

LEMMA HandingTimesOutKeeps == ASSUME NEW c \in Channels, IInv, HandingTimesOut(c) PROVE IInv'
  <1> USE CoreAssumption DEF HandingTimesOut, Moves, Posts, Asks, stopping, IsCut, carrierVars, stopVars, serverVars, processVars
  <1>1. TypeOK'
    BY DEF IInv, TypeOK
  <1>2. ASSUME NEW d \in Channels PROVE ChannelInv(d)'
    <2>1. Lifetime(d)'
      BY DEF IInv, ChannelInv, Lifetime, Before, TypeOK
    <2>2. IsServed(d)'
      BY DEF IInv, ChannelInv, Lifetime, Before, IsServed, EndIsOpen, TypeOK
    <2>3. MailOf(d)'
      BY DEF IInv, ChannelInv, Lifetime, Before, MailOf, TypeOK
    <2>4. HasSlot(d)' /\ (session[d] = "asking" /\ opens[d] = 1 => mail[d] # "no")'
      BY DEF IInv, ChannelInv, Lifetime, Before, IsServed, EndIsOpen, MailOf, HasSlot, Promised, WasAdmitted, TypeOK
    <2> QED
      BY <2>1, <2>2, <2>3, <2>4 DEF ChannelInv
  <1>3. StopInv'
    BY DEF IInv, StopInv, ChannelInv, Lifetime, Before, TypeOK
  <1>4. (IsFiniteSet(held) /\ Cardinality(held) <= Ceiling)'
    BY DEF IInv
  <1> QED
    BY <1>1, <1>2, <1>3, <1>4 DEF IInv

LEMMA FailsKeeps == ASSUME NEW c \in Channels, IInv, Fails(c) PROVE IInv'
  <1> USE DEF Fails, Moves, Posts, Asks, stopping, IsCut, carrierVars, stopVars, serverVars, processVars
  <1>1. TypeOK'
    BY DEF IInv, TypeOK
  <1>2. ASSUME NEW d \in Channels PROVE ChannelInv(d)'
    <2>1. Lifetime(d)'
      BY DEF IInv, ChannelInv, Lifetime, Before, TypeOK
    <2>2. IsServed(d)'
      BY DEF IInv, ChannelInv, Lifetime, Before, IsServed, EndIsOpen, TypeOK
    <2>3. MailOf(d)'
      BY DEF IInv, ChannelInv, Lifetime, Before, MailOf, TypeOK
    <2>4. HasSlot(d)' /\ (session[d] = "asking" /\ opens[d] = 1 => mail[d] # "no")'
      BY DEF IInv, ChannelInv, Lifetime, Before, IsServed, EndIsOpen, MailOf, HasSlot, Promised, WasAdmitted, TypeOK
    <2> QED
      BY <2>1, <2>2, <2>3, <2>4 DEF ChannelInv
  <1>3. StopInv'
    BY DEF IInv, StopInv, ChannelInv, Lifetime, Before, TypeOK
  <1>4. (IsFiniteSet(held) /\ Cardinality(held) <= Ceiling)'
    BY DEF IInv
  <1> QED
    BY <1>1, <1>2, <1>3, <1>4 DEF IInv

LEMMA AnsweredKeeps == ASSUME NEW c \in Channels, IInv, Answered(c) PROVE IInv'
  <1> USE DEF Answered, Moves, Posts, Asks, stopping, IsCut, carrierVars, stopVars, serverVars, processVars
  <1>1. TypeOK'
    BY DEF IInv, TypeOK
  <1>2. ASSUME NEW d \in Channels PROVE ChannelInv(d)'
    <2>1. Lifetime(d)'
      BY DEF IInv, ChannelInv, Lifetime, Before, TypeOK
    <2>2. IsServed(d)'
      BY DEF IInv, ChannelInv, Lifetime, Before, IsServed, EndIsOpen, TypeOK
    <2>3. MailOf(d)'
      BY DEF IInv, ChannelInv, Lifetime, Before, MailOf, TypeOK
    <2>4. HasSlot(d)' /\ (session[d] = "asking" /\ opens[d] = 1 => mail[d] # "no")'
      BY DEF IInv, ChannelInv, Lifetime, Before, IsServed, EndIsOpen, MailOf, HasSlot, Promised, WasAdmitted, TypeOK
    <2> QED
      BY <2>1, <2>2, <2>3, <2>4 DEF ChannelInv
  <1>3. StopInv'
    BY DEF IInv, StopInv, ChannelInv, Lifetime, Before, TypeOK
  <1>4. (IsFiniteSet(held) /\ Cardinality(held) <= Ceiling)'
    BY DEF IInv
  <1> QED
    BY <1>1, <1>2, <1>3, <1>4 DEF IInv

LEMMA AskFailsKeeps == ASSUME NEW c \in Channels, IInv, AskFails(c) PROVE IInv'
  <1> USE DEF AskFails, Moves, Posts, Asks, stopping, IsCut, carrierVars, stopVars, serverVars, processVars
  <1>1. TypeOK'
    BY DEF IInv, TypeOK
  <1>2. ASSUME NEW d \in Channels PROVE ChannelInv(d)'
    <2>1. Lifetime(d)'
      BY DEF IInv, ChannelInv, Lifetime, Before, TypeOK
    <2>2. IsServed(d)'
      BY DEF IInv, ChannelInv, Lifetime, Before, IsServed, EndIsOpen, TypeOK
    <2>3. MailOf(d)'
      BY DEF IInv, ChannelInv, Lifetime, Before, MailOf, TypeOK
    <2>4. HasSlot(d)' /\ (session[d] = "asking" /\ opens[d] = 1 => mail[d] # "no")'
      BY DEF IInv, ChannelInv, Lifetime, Before, IsServed, EndIsOpen, MailOf, HasSlot, Promised, WasAdmitted, TypeOK
    <2> QED
      BY <2>1, <2>2, <2>3, <2>4 DEF ChannelInv
  <1>3. StopInv'
    BY DEF IInv, StopInv, ChannelInv, Lifetime, Before, TypeOK
  <1>4. (IsFiniteSet(held) /\ Cardinality(held) <= Ceiling)'
    BY DEF IInv
  <1> QED
    BY <1>1, <1>2, <1>3, <1>4 DEF IInv

LEMMA CancelChannelKeeps == ASSUME NEW c \in Channels, IInv, CancelChannel(c) PROVE IInv'
  <1> USE DEF CancelChannel, Moves, Posts, Asks, stopping, IsCut, carrierVars, stopVars, serverVars, processVars
  <1>1. TypeOK'
    BY DEF IInv, TypeOK
  <1>2. ASSUME NEW d \in Channels PROVE ChannelInv(d)'
    <2>1. Lifetime(d)'
      BY DEF IInv, ChannelInv, Lifetime, Before, TypeOK
    <2>2. IsServed(d)'
      BY DEF IInv, ChannelInv, Lifetime, Before, IsServed, EndIsOpen, TypeOK
    <2>3. MailOf(d)'
      BY DEF IInv, ChannelInv, Lifetime, Before, MailOf, TypeOK
    <2>4. HasSlot(d)' /\ (session[d] = "asking" /\ opens[d] = 1 => mail[d] # "no")'
      BY DEF IInv, ChannelInv, Lifetime, Before, IsServed, EndIsOpen, MailOf, HasSlot, Promised, WasAdmitted, TypeOK
    <2> QED
      BY <2>1, <2>2, <2>3, <2>4 DEF ChannelInv
  <1>3. StopInv'
    BY DEF IInv, StopInv, ChannelInv, Lifetime, Before, TypeOK
  <1>4. (IsFiniteSet(held) /\ Cardinality(held) <= Ceiling)'
    BY DEF IInv
  <1> QED
    BY <1>1, <1>2, <1>3, <1>4 DEF IInv

LEMMA StartBeginsKeeps == ASSUME NEW c \in Channels, IInv, StartBegins(c) PROVE IInv'
  <1> USE DEF StartBegins, Moves, Posts, Asks, stopping, IsCut, carrierVars, stopVars, serverVars, processVars
  <1>1. TypeOK'
    BY DEF IInv, TypeOK
  <1>2. ASSUME NEW d \in Channels PROVE ChannelInv(d)'
    <2>1. Lifetime(d)'
      BY DEF IInv, ChannelInv, Lifetime, Before, TypeOK
    <2>2. IsServed(d)'
      BY DEF IInv, ChannelInv, Lifetime, Before, IsServed, EndIsOpen, TypeOK
    <2>3. MailOf(d)'
      BY DEF IInv, ChannelInv, Lifetime, Before, MailOf, TypeOK
    <2>4. HasSlot(d)' /\ (session[d] = "asking" /\ opens[d] = 1 => mail[d] # "no")'
      BY DEF IInv, ChannelInv, Lifetime, Before, IsServed, EndIsOpen, MailOf, HasSlot, Promised, WasAdmitted, TypeOK
    <2> QED
      BY <2>1, <2>2, <2>3, <2>4 DEF ChannelInv
  <1>3. StopInv'
    BY DEF IInv, StopInv, ChannelInv, Lifetime, Before, TypeOK
  <1>4. (IsFiniteSet(held) /\ Cardinality(held) <= Ceiling)'
    BY DEF IInv
  <1> QED
    BY <1>1, <1>2, <1>3, <1>4 DEF IInv

LEMMA StartProcessKeeps == ASSUME NEW c \in Channels, IInv, StartProcess(c) PROVE IInv'
  <1> USE DEF StartProcess, Moves, Posts, Asks, stopping, IsCut, carrierVars, stopVars, serverVars, processVars
  <1>1. TypeOK'
    BY DEF IInv, TypeOK
  <1>2. ASSUME NEW d \in Channels PROVE ChannelInv(d)'
    <2>1. Lifetime(d)'
      BY DEF IInv, ChannelInv, Lifetime, Before, TypeOK
    <2>2. IsServed(d)'
      BY DEF IInv, ChannelInv, Lifetime, Before, IsServed, EndIsOpen, TypeOK
    <2>3. MailOf(d)'
      BY DEF IInv, ChannelInv, Lifetime, Before, MailOf, TypeOK
    <2>4. HasSlot(d)' /\ (session[d] = "asking" /\ opens[d] = 1 => mail[d] # "no")'
      BY DEF IInv, ChannelInv, Lifetime, Before, IsServed, EndIsOpen, MailOf, HasSlot, Promised, WasAdmitted, TypeOK
    <2> QED
      BY <2>1, <2>2, <2>3, <2>4 DEF ChannelInv
  <1>3. StopInv'
    BY DEF IInv, StopInv, ChannelInv, Lifetime, Before, TypeOK
  <1>4. (IsFiniteSet(held) /\ Cardinality(held) <= Ceiling)'
    BY DEF IInv
  <1> QED
    BY <1>1, <1>2, <1>3, <1>4 DEF IInv

LEMMA EnterProcessKeeps == ASSUME NEW c \in Channels, IInv, EnterProcess(c) PROVE IInv'
  <1> USE DEF EnterProcess, Moves, Posts, Asks, stopping, IsCut, carrierVars, stopVars, serverVars, processVars
  <1>1. TypeOK'
    BY DEF IInv, TypeOK
  <1>2. ASSUME NEW d \in Channels PROVE ChannelInv(d)'
    <2>1. Lifetime(d)'
      BY DEF IInv, ChannelInv, Lifetime, Before, TypeOK
    <2>2. IsServed(d)'
      BY DEF IInv, ChannelInv, Lifetime, Before, IsServed, EndIsOpen, TypeOK
    <2>3. MailOf(d)'
      BY DEF IInv, ChannelInv, Lifetime, Before, MailOf, TypeOK
    <2>4. HasSlot(d)' /\ (session[d] = "asking" /\ opens[d] = 1 => mail[d] # "no")'
      BY DEF IInv, ChannelInv, Lifetime, Before, IsServed, EndIsOpen, MailOf, HasSlot, Promised, WasAdmitted, TypeOK
    <2> QED
      BY <2>1, <2>2, <2>3, <2>4 DEF ChannelInv
  <1>3. StopInv'
    BY DEF IInv, StopInv, ChannelInv, Lifetime, Before, TypeOK
  <1>4. (IsFiniteSet(held) /\ Cardinality(held) <= Ceiling)'
    BY DEF IInv
  <1> QED
    BY <1>1, <1>2, <1>3, <1>4 DEF IInv

LEMMA ForgetProcessKeeps == ASSUME NEW c \in Channels, IInv, ForgetProcess(c) PROVE IInv'
  <1> USE DEF ForgetProcess, Moves, Posts, Asks, stopping, IsCut, carrierVars, stopVars, serverVars, processVars
  <1>1. TypeOK'
    BY DEF IInv, TypeOK
  <1>2. ASSUME NEW d \in Channels PROVE ChannelInv(d)'
    <2>1. Lifetime(d)'
      BY DEF IInv, ChannelInv, Lifetime, Before, TypeOK
    <2>2. IsServed(d)'
      BY DEF IInv, ChannelInv, Lifetime, Before, IsServed, EndIsOpen, TypeOK
    <2>3. MailOf(d)'
      BY DEF IInv, ChannelInv, Lifetime, Before, MailOf, TypeOK
    <2>4. HasSlot(d)' /\ (session[d] = "asking" /\ opens[d] = 1 => mail[d] # "no")'
      BY DEF IInv, ChannelInv, Lifetime, Before, IsServed, EndIsOpen, MailOf, HasSlot, Promised, WasAdmitted, TypeOK
    <2> QED
      BY <2>1, <2>2, <2>3, <2>4 DEF ChannelInv
  <1>3. StopInv'
    BY DEF IInv, StopInv, ChannelInv, Lifetime, Before, TypeOK
  <1>4. (IsFiniteSet(held) /\ Cardinality(held) <= Ceiling)'
    BY DEF IInv
  <1> QED
    BY <1>1, <1>2, <1>3, <1>4 DEF IInv

LEMMA TakeChannelKeeps == ASSUME NEW c \in Channels, IInv, TakeChannel(c) PROVE IInv'
  <1> USE DEF TakeChannel, Moves, Posts, Asks, stopping, IsCut, carrierVars, stopVars, serverVars, processVars
  <1>1. TypeOK'
    BY DEF IInv, TypeOK
  <1>2. ASSUME NEW d \in Channels PROVE ChannelInv(d)'
    <2>1. Lifetime(d)'
      BY DEF IInv, ChannelInv, Lifetime, Before, TypeOK
    <2>2. IsServed(d)'
      BY DEF IInv, ChannelInv, Lifetime, Before, IsServed, EndIsOpen, TypeOK
    <2>3. MailOf(d)'
      BY DEF IInv, ChannelInv, Lifetime, Before, MailOf, TypeOK
    <2>4. HasSlot(d)' /\ (session[d] = "asking" /\ opens[d] = 1 => mail[d] # "no")'
      BY DEF IInv, ChannelInv, Lifetime, Before, IsServed, EndIsOpen, MailOf, HasSlot, Promised, WasAdmitted, TypeOK
    <2> QED
      BY <2>1, <2>2, <2>3, <2>4 DEF ChannelInv
  <1>3. StopInv'
    BY DEF IInv, StopInv, ChannelInv, Lifetime, Before, TypeOK
  <1>4. (IsFiniteSet(held) /\ Cardinality(held) <= Ceiling)'
    BY DEF IInv
  <1> QED
    BY <1>1, <1>2, <1>3, <1>4 DEF IInv

LEMMA AnswerAdmitKeeps == ASSUME NEW c \in Channels, IInv, AnswerAdmit(c) PROVE IInv'
  <1> USE DEF AnswerAdmit, admit, Grants, Moves, Posts, Asks, stopping, IsCut, carrierVars, stopVars, serverVars, processVars
  <1>1. TypeOK'
    BY DEF IInv, TypeOK
  <1>2. ASSUME NEW d \in Channels PROVE ChannelInv(d)'
    <2>1. Lifetime(d)'
      BY DEF IInv, ChannelInv, Lifetime, Before, TypeOK
    <2>2. IsServed(d)'
      BY DEF IInv, ChannelInv, Lifetime, Before, IsServed, EndIsOpen, TypeOK
    <2>3. MailOf(d)'
      BY DEF IInv, ChannelInv, Lifetime, Before, MailOf, TypeOK
    <2>4. HasSlot(d)' /\ (session[d] = "asking" /\ opens[d] = 1 => mail[d] # "no")'
      BY DEF IInv, ChannelInv, Lifetime, Before, IsServed, EndIsOpen, MailOf, HasSlot, Promised, WasAdmitted, TypeOK
    <2> QED
      BY <2>1, <2>2, <2>3, <2>4 DEF ChannelInv
  <1>3. StopInv'
    BY DEF IInv, StopInv, ChannelInv, Lifetime, Before, TypeOK
  <1>4. (IsFiniteSet(held) /\ Cardinality(held) <= Ceiling)'
    BY CoreAssumption, FS_AddElement, FS_CardinalityType DEF IInv, TypeOK
  <1> QED
    BY <1>1, <1>2, <1>3, <1>4 DEF IInv

LEMMA AnswerReleaseKeeps == ASSUME NEW c \in Channels, IInv, AnswerRelease(c) PROVE IInv'
  <1> USE DEF AnswerRelease, release, Moves, Posts, Asks, stopping, IsCut, carrierVars, stopVars, serverVars, processVars
  <1>1. TypeOK'
    BY DEF IInv, TypeOK
  <1>2. ASSUME NEW d \in Channels PROVE ChannelInv(d)'
    <2>1. Lifetime(d)'
      BY DEF IInv, ChannelInv, Lifetime, Before, TypeOK
    <2>2. IsServed(d)'
      BY DEF IInv, ChannelInv, Lifetime, Before, IsServed, EndIsOpen, TypeOK
    <2>3. MailOf(d)'
      BY DEF IInv, ChannelInv, Lifetime, Before, MailOf, TypeOK
    <2>4. HasSlot(d)' /\ (session[d] = "asking" /\ opens[d] = 1 => mail[d] # "no")'
      BY DEF IInv, ChannelInv, Lifetime, Before, IsServed, EndIsOpen, MailOf, HasSlot, Promised, WasAdmitted, TypeOK
    <2> QED
      BY <2>1, <2>2, <2>3, <2>4 DEF ChannelInv
  <1>3. StopInv'
    BY DEF IInv, StopInv, ChannelInv, Lifetime, Before, TypeOK
  <1>4. (IsFiniteSet(held) /\ Cardinality(held) <= Ceiling)'
    <2>1. held' \in SUBSET held /\ IsFiniteSet(held) /\ Cardinality(held) <= Ceiling
      BY DEF IInv
    <2>2. /\ IsFiniteSet(held') /\ Cardinality(held') <= Cardinality(held)
          /\ Cardinality(held') \in Nat /\ Cardinality(held) \in Nat
      BY <2>1, FS_Subset, FS_CardinalityType
    <2> QED
      BY CoreAssumption, <2>1, <2>2
  <1> QED
    BY <1>1, <1>2, <1>3, <1>4 DEF IInv

LEMMA ChannelEndsKeeps == ASSUME NEW c \in Channels, IInv, ChannelEnds(c) PROVE IInv'
  <1> USE DEF ChannelEnds, release, Moves, Posts, Asks, stopping, IsCut, carrierVars, stopVars, serverVars, processVars
  <1>1. TypeOK'
    BY DEF IInv, TypeOK
  <1>2. ASSUME NEW d \in Channels PROVE ChannelInv(d)'
    <2>1. Lifetime(d)'
      BY DEF IInv, ChannelInv, Lifetime, Before, TypeOK
    <2>2. IsServed(d)'
      BY DEF IInv, ChannelInv, Lifetime, Before, IsServed, EndIsOpen, TypeOK
    <2>3. MailOf(d)'
      BY DEF IInv, ChannelInv, Lifetime, Before, MailOf, TypeOK
    <2>4. HasSlot(d)' /\ (session[d] = "asking" /\ opens[d] = 1 => mail[d] # "no")'
      BY DEF IInv, ChannelInv, Lifetime, Before, IsServed, EndIsOpen, MailOf, HasSlot, Promised, WasAdmitted, TypeOK
    <2> QED
      BY <2>1, <2>2, <2>3, <2>4 DEF ChannelInv
  <1>3. StopInv'
    BY DEF IInv, StopInv, ChannelInv, Lifetime, Before, TypeOK
  <1>4. (IsFiniteSet(held) /\ Cardinality(held) <= Ceiling)'
    <2>1. held' \in SUBSET held /\ IsFiniteSet(held) /\ Cardinality(held) <= Ceiling
      BY DEF IInv
    <2>2. /\ IsFiniteSet(held') /\ Cardinality(held') <= Cardinality(held)
          /\ Cardinality(held') \in Nat /\ Cardinality(held) \in Nat
      BY <2>1, FS_Subset, FS_CardinalityType
    <2> QED
      BY CoreAssumption, <2>1, <2>2
  <1> QED
    BY <1>1, <1>2, <1>3, <1>4 DEF IInv

LEMMA StreamsRetireKeeps == ASSUME NEW c \in Channels, IInv, StreamsRetire(c) PROVE IInv'
  <1> USE DEF StreamsRetire, Moves, Posts, Asks, stopping, IsCut, carrierVars, stopVars, serverVars, processVars
  <1>1. TypeOK'
    BY DEF IInv, TypeOK
  <1>2. ASSUME NEW d \in Channels PROVE ChannelInv(d)'
    <2>1. Lifetime(d)'
      BY DEF IInv, ChannelInv, Lifetime, Before, TypeOK
    <2>2. IsServed(d)'
      BY DEF IInv, ChannelInv, Lifetime, Before, IsServed, EndIsOpen, TypeOK
    <2>3. MailOf(d)'
      BY DEF IInv, ChannelInv, Lifetime, Before, MailOf, TypeOK
    <2>4. HasSlot(d)' /\ (session[d] = "asking" /\ opens[d] = 1 => mail[d] # "no")'
      BY DEF IInv, ChannelInv, Lifetime, Before, IsServed, EndIsOpen, MailOf, HasSlot, Promised, WasAdmitted, TypeOK
    <2> QED
      BY <2>1, <2>2, <2>3, <2>4 DEF ChannelInv
  <1>3. StopInv'
    BY DEF IInv, StopInv, ChannelInv, Lifetime, Before, TypeOK
  <1>4. (IsFiniteSet(held) /\ Cardinality(held) <= Ceiling)'
    BY DEF IInv
  <1> QED
    BY <1>1, <1>2, <1>3, <1>4 DEF IInv

LEMMA OpenSessionKeeps == ASSUME NEW c \in Channels, IInv, OpenSession(c) PROVE IInv'
  <1> USE CoreAssumption DEF OpenSession, Moves, Posts, Asks, stopping, IsCut, carrierVars, stopVars, serverVars, processVars
  <1>1. TypeOK'
    BY DEF IInv, TypeOK
  <1>2. ASSUME NEW d \in Channels PROVE ChannelInv(d)'
    <2>1. Lifetime(d)'
      BY DEF IInv, ChannelInv, Lifetime, Before, TypeOK
    <2>2. IsServed(d)'
      BY DEF IInv, ChannelInv, Lifetime, Before, IsServed, EndIsOpen, TypeOK
    <2>3. MailOf(d)'
      BY DEF IInv, ChannelInv, Lifetime, Before, MailOf, TypeOK
    <2>4. HasSlot(d)' /\ (session[d] = "asking" /\ opens[d] = 1 => mail[d] # "no")'
      BY DEF IInv, ChannelInv, Lifetime, Before, IsServed, EndIsOpen, MailOf, HasSlot, Promised, WasAdmitted, TypeOK
    <2> QED
      BY <2>1, <2>2, <2>3, <2>4 DEF ChannelInv
  <1>3. StopInv'
    BY DEF IInv, StopInv, ChannelInv, Lifetime, Before, TypeOK
  <1>4. (IsFiniteSet(held) /\ Cardinality(held) <= Ceiling)'
    BY DEF IInv
  <1> QED
    BY <1>1, <1>2, <1>3, <1>4 DEF IInv

LEMMA SessionAnsweredKeeps == ASSUME NEW c \in Channels, IInv, SessionAnswered(c) PROVE IInv'
  <1> USE DEF SessionAnswered, Moves, Posts, Asks, stopping, IsCut, carrierVars, stopVars, serverVars, processVars
  <1>1. TypeOK'
    BY DEF IInv, TypeOK
  <1>2. ASSUME NEW d \in Channels PROVE ChannelInv(d)'
    <2>1. Lifetime(d)'
      BY DEF IInv, ChannelInv, Lifetime, Before, TypeOK
    <2>2. IsServed(d)'
      BY DEF IInv, ChannelInv, Lifetime, Before, IsServed, EndIsOpen, TypeOK
    <2>3. MailOf(d)'
      BY DEF IInv, ChannelInv, Lifetime, Before, MailOf, TypeOK
    <2>4. HasSlot(d)' /\ (session[d] = "asking" /\ opens[d] = 1 => mail[d] # "no")'
      BY DEF IInv, ChannelInv, Lifetime, Before, IsServed, EndIsOpen, MailOf, HasSlot, Promised, WasAdmitted, TypeOK
    <2> QED
      BY <2>1, <2>2, <2>3, <2>4 DEF ChannelInv
  <1>3. StopInv'
    BY DEF IInv, StopInv, ChannelInv, Lifetime, Before, TypeOK
  <1>4. (IsFiniteSet(held) /\ Cardinality(held) <= Ceiling)'
    BY DEF IInv
  <1> QED
    BY <1>1, <1>2, <1>3, <1>4 DEF IInv

LEMMA EndSessionKeeps == ASSUME NEW c \in Channels, IInv, EndSession(c) PROVE IInv'
  <1> USE DEF EndSession, Moves, Posts, Asks, stopping, IsCut, carrierVars, stopVars, serverVars, processVars
  <1>1. TypeOK'
    BY DEF IInv, TypeOK
  <1>2. ASSUME NEW d \in Channels PROVE ChannelInv(d)'
    <2>1. Lifetime(d)'
      BY DEF IInv, ChannelInv, Lifetime, Before, TypeOK
    <2>2. IsServed(d)'
      BY DEF IInv, ChannelInv, Lifetime, Before, IsServed, EndIsOpen, TypeOK
    <2>3. MailOf(d)'
      BY DEF IInv, ChannelInv, Lifetime, Before, MailOf, TypeOK
    <2>4. HasSlot(d)' /\ (session[d] = "asking" /\ opens[d] = 1 => mail[d] # "no")'
      BY DEF IInv, ChannelInv, Lifetime, Before, IsServed, EndIsOpen, MailOf, HasSlot, Promised, WasAdmitted, TypeOK
    <2> QED
      BY <2>1, <2>2, <2>3, <2>4 DEF ChannelInv
  <1>3. StopInv'
    BY DEF IInv, StopInv, ChannelInv, Lifetime, Before, TypeOK
  <1>4. (IsFiniteSet(held) /\ Cardinality(held) <= Ceiling)'
    BY DEF IInv
  <1> QED
    BY <1>1, <1>2, <1>3, <1>4 DEF IInv

LEMMA SessionReleasedKeeps == ASSUME NEW c \in Channels, IInv, SessionReleased(c) PROVE IInv'
  <1> USE DEF SessionReleased, Moves, Posts, Asks, stopping, IsCut, carrierVars, stopVars, serverVars, processVars
  <1>1. TypeOK'
    BY DEF IInv, TypeOK
  <1>2. ASSUME NEW d \in Channels PROVE ChannelInv(d)'
    <2>1. Lifetime(d)'
      BY DEF IInv, ChannelInv, Lifetime, Before, TypeOK
    <2>2. IsServed(d)'
      BY DEF IInv, ChannelInv, Lifetime, Before, IsServed, EndIsOpen, TypeOK
    <2>3. MailOf(d)'
      BY DEF IInv, ChannelInv, Lifetime, Before, MailOf, TypeOK
    <2>4. HasSlot(d)' /\ (session[d] = "asking" /\ opens[d] = 1 => mail[d] # "no")'
      BY DEF IInv, ChannelInv, Lifetime, Before, IsServed, EndIsOpen, MailOf, HasSlot, Promised, WasAdmitted, TypeOK
    <2> QED
      BY <2>1, <2>2, <2>3, <2>4 DEF ChannelInv
  <1>3. StopInv'
    BY DEF IInv, StopInv, ChannelInv, Lifetime, Before, TypeOK
  <1>4. (IsFiniteSet(held) /\ Cardinality(held) <= Ceiling)'
    BY DEF IInv
  <1> QED
    BY <1>1, <1>2, <1>3, <1>4 DEF IInv

LEMMA ServerIsLostKeeps == ASSUME NEW c \in Channels, IInv, ServerIsLost(c) PROVE IInv'
  <1> USE DEF ServerIsLost, Moves, Posts, Asks, stopping, IsCut, carrierVars, stopVars, serverVars, processVars
  <1>1. TypeOK'
    BY DEF IInv, TypeOK
  <1>2. ASSUME NEW d \in Channels PROVE ChannelInv(d)'
    <2>1. Lifetime(d)'
      BY DEF IInv, ChannelInv, Lifetime, Before, TypeOK
    <2>2. IsServed(d)'
      BY DEF IInv, ChannelInv, Lifetime, Before, IsServed, EndIsOpen, TypeOK
    <2>3. MailOf(d)'
      BY DEF IInv, ChannelInv, Lifetime, Before, MailOf, TypeOK
    <2>4. HasSlot(d)' /\ (session[d] = "asking" /\ opens[d] = 1 => mail[d] # "no")'
      BY DEF IInv, ChannelInv, Lifetime, Before, IsServed, EndIsOpen, MailOf, HasSlot, Promised, WasAdmitted, TypeOK
    <2> QED
      BY <2>1, <2>2, <2>3, <2>4 DEF ChannelInv
  <1>3. StopInv'
    BY DEF IInv, StopInv, ChannelInv, Lifetime, Before, TypeOK
  <1>4. (IsFiniteSet(held) /\ Cardinality(held) <= Ceiling)'
    BY DEF IInv
  <1> QED
    BY <1>1, <1>2, <1>3, <1>4 DEF IInv

LEMMA ProcessEndsKeeps == ASSUME NEW c \in Channels, IInv, ProcessEnds(c) PROVE IInv'
  <1> USE DEF ProcessEnds, Moves, Posts, Asks, stopping, IsCut, carrierVars, stopVars, serverVars, processVars
  <1>1. TypeOK'
    BY DEF IInv, TypeOK
  <1>2. ASSUME NEW d \in Channels PROVE ChannelInv(d)'
    <2>1. Lifetime(d)'
      BY DEF IInv, ChannelInv, Lifetime, Before, TypeOK
    <2>2. IsServed(d)'
      BY DEF IInv, ChannelInv, Lifetime, Before, IsServed, EndIsOpen, TypeOK
    <2>3. MailOf(d)'
      BY DEF IInv, ChannelInv, Lifetime, Before, MailOf, TypeOK
    <2>4. HasSlot(d)' /\ (session[d] = "asking" /\ opens[d] = 1 => mail[d] # "no")'
      BY DEF IInv, ChannelInv, Lifetime, Before, IsServed, EndIsOpen, MailOf, HasSlot, Promised, WasAdmitted, TypeOK
    <2> QED
      BY <2>1, <2>2, <2>3, <2>4 DEF ChannelInv
  <1>3. StopInv'
    BY DEF IInv, StopInv, ChannelInv, Lifetime, Before, TypeOK
  <1>4. (IsFiniteSet(held) /\ Cardinality(held) <= Ceiling)'
    BY DEF IInv
  <1> QED
    BY <1>1, <1>2, <1>3, <1>4 DEF IInv

LEMMA WaitsForKeeps == ASSUME NEW c \in Channels, IInv, WaitsFor(c) PROVE IInv'
  <1> USE DEF WaitsFor, Moves, Posts, Asks, stopping, IsCut, carrierVars, stopVars, serverVars, processVars
  <1>1. TypeOK'
    BY DEF IInv, TypeOK
  <1>2. ASSUME NEW d \in Channels PROVE ChannelInv(d)'
    <2>1. Lifetime(d)'
      BY DEF IInv, ChannelInv, Lifetime, Before, TypeOK
    <2>2. IsServed(d)'
      BY DEF IInv, ChannelInv, Lifetime, Before, IsServed, EndIsOpen, TypeOK
    <2>3. MailOf(d)'
      BY DEF IInv, ChannelInv, Lifetime, Before, MailOf, TypeOK
    <2>4. HasSlot(d)' /\ (session[d] = "asking" /\ opens[d] = 1 => mail[d] # "no")'
      BY DEF IInv, ChannelInv, Lifetime, Before, IsServed, EndIsOpen, MailOf, HasSlot, Promised, WasAdmitted, TypeOK
    <2> QED
      BY <2>1, <2>2, <2>3, <2>4 DEF ChannelInv
  <1>3. StopInv'
    BY DEF IInv, StopInv, ChannelInv, Lifetime, Before, TypeOK
  <1>4. (IsFiniteSet(held) /\ Cardinality(held) <= Ceiling)'
    BY DEF IInv
  <1> QED
    BY <1>1, <1>2, <1>3, <1>4 DEF IInv

LEMMA ProcessDoneKeeps == ASSUME NEW c \in Channels, IInv, ProcessDone(c) PROVE IInv'
  <1> USE CoreAssumption DEF ProcessDone, Moves, Posts, Asks, stopping, IsCut, carrierVars, stopVars, serverVars, processVars
  <1>1. TypeOK'
    BY DEF IInv, TypeOK
  <1>2. ASSUME NEW d \in Channels PROVE ChannelInv(d)'
    <2>1. Lifetime(d)'
      BY DEF IInv, ChannelInv, Lifetime, Before, TypeOK
    <2>2. IsServed(d)'
      BY DEF IInv, ChannelInv, Lifetime, Before, IsServed, EndIsOpen, TypeOK
    <2>3. MailOf(d)'
      BY DEF IInv, ChannelInv, Lifetime, Before, MailOf, TypeOK
    <2>4. HasSlot(d)' /\ (session[d] = "asking" /\ opens[d] = 1 => mail[d] # "no")'
      BY DEF IInv, ChannelInv, Lifetime, Before, IsServed, EndIsOpen, MailOf, HasSlot, Promised, WasAdmitted, TypeOK
    <2> QED
      BY <2>1, <2>2, <2>3, <2>4 DEF ChannelInv
  <1>3. StopInv'
    BY DEF IInv, StopInv, ChannelInv, Lifetime, Before, TypeOK
  <1>4. (IsFiniteSet(held) /\ Cardinality(held) <= Ceiling)'
    BY DEF IInv
  <1> QED
    BY <1>1, <1>2, <1>3, <1>4 DEF IInv

LEMMA KillProcessKeeps == ASSUME NEW c \in Channels, IInv, KillProcess(c) PROVE IInv'
  <1> USE CoreAssumption DEF KillProcess, Moves, Posts, Asks, stopping, IsCut, carrierVars, stopVars, serverVars, processVars
  <1>1. TypeOK'
    BY DEF IInv, TypeOK
  <1>2. ASSUME NEW d \in Channels PROVE ChannelInv(d)'
    <2>1. Lifetime(d)'
      BY DEF IInv, ChannelInv, Lifetime, Before, TypeOK
    <2>2. IsServed(d)'
      BY DEF IInv, ChannelInv, Lifetime, Before, IsServed, EndIsOpen, TypeOK
    <2>3. MailOf(d)'
      BY DEF IInv, ChannelInv, Lifetime, Before, MailOf, TypeOK
    <2>4. HasSlot(d)' /\ (session[d] = "asking" /\ opens[d] = 1 => mail[d] # "no")'
      BY DEF IInv, ChannelInv, Lifetime, Before, IsServed, EndIsOpen, MailOf, HasSlot, Promised, WasAdmitted, TypeOK
    <2> QED
      BY <2>1, <2>2, <2>3, <2>4 DEF ChannelInv
  <1>3. StopInv'
    BY DEF IInv, StopInv, ChannelInv, Lifetime, Before, TypeOK
  <1>4. (IsFiniteSet(held) /\ Cardinality(held) <= Ceiling)'
    BY DEF IInv
  <1> QED
    BY <1>1, <1>2, <1>3, <1>4 DEF IInv

LEMMA StreamHangsKeeps == ASSUME NEW c \in Channels, IInv, StreamHangs(c) PROVE IInv'
  <1> USE DEF StreamHangs, Gone, Moves, Posts, Asks, stopping, IsCut, carrierVars, stopVars, serverVars, processVars
  <1>1. TypeOK'
    BY DEF IInv, TypeOK
  <1>2. ASSUME NEW d \in Channels PROVE ChannelInv(d)'
    <2>1. Lifetime(d)'
      BY DEF IInv, ChannelInv, Lifetime, Before, TypeOK
    <2>2. IsServed(d)'
      BY DEF IInv, ChannelInv, Lifetime, Before, IsServed, EndIsOpen, TypeOK
    <2>3. MailOf(d)'
      BY DEF IInv, ChannelInv, Lifetime, Before, MailOf, TypeOK
    <2>4. HasSlot(d)' /\ (session[d] = "asking" /\ opens[d] = 1 => mail[d] # "no")'
      BY DEF IInv, ChannelInv, Lifetime, Before, IsServed, EndIsOpen, MailOf, HasSlot, Promised, WasAdmitted, TypeOK
    <2> QED
      BY <2>1, <2>2, <2>3, <2>4 DEF ChannelInv
  <1>3. StopInv'
    BY DEF IInv, StopInv, ChannelInv, Lifetime, Before, TypeOK
  <1>4. (IsFiniteSet(held) /\ Cardinality(held) <= Ceiling)'
    BY CoreAssumption, FS_EmptySet
  <1> QED
    BY <1>1, <1>2, <1>3, <1>4 DEF IInv

LEMMA StopBeginsKeeps == ASSUME IInv, StopBegins PROVE IInv'
  <1> USE DEF StopBegins, Moves, Posts, Asks, stopping, IsCut, carrierVars, stopVars, serverVars, processVars
  <1>1. TypeOK'
    BY DEF IInv, TypeOK
  <1>2. ASSUME NEW d \in Channels PROVE ChannelInv(d)'
    <2>1. Lifetime(d)'
      BY DEF IInv, ChannelInv, Lifetime, Before, TypeOK
    <2>2. IsServed(d)'
      BY DEF IInv, ChannelInv, Lifetime, Before, IsServed, EndIsOpen, TypeOK
    <2>3. MailOf(d)'
      BY DEF IInv, ChannelInv, Lifetime, Before, MailOf, TypeOK
    <2>4. HasSlot(d)' /\ (session[d] = "asking" /\ opens[d] = 1 => mail[d] # "no")'
      BY DEF IInv, ChannelInv, Lifetime, Before, IsServed, EndIsOpen, MailOf, HasSlot, Promised, WasAdmitted, TypeOK
    <2> QED
      BY <2>1, <2>2, <2>3, <2>4 DEF ChannelInv
  <1>3. StopInv'
    BY DEF IInv, StopInv, ChannelInv, Lifetime, Before, TypeOK
  <1>4. (IsFiniteSet(held) /\ Cardinality(held) <= Ceiling)'
    BY DEF IInv
  <1> QED
    BY <1>1, <1>2, <1>3, <1>4 DEF IInv

LEMMA StopListsKeeps == ASSUME IInv, StopLists PROVE IInv'
  <1> USE DEF StopLists, Moves, Posts, Asks, stopping, IsCut, carrierVars, stopVars, serverVars, processVars
  <1>1. TypeOK'
    BY DEF IInv, TypeOK, StopInv
  <1>2. ASSUME NEW d \in Channels PROVE ChannelInv(d)'
    <2>1. Lifetime(d)'
      BY DEF IInv, ChannelInv, Lifetime, Before, TypeOK
    <2>2. IsServed(d)'
      BY DEF IInv, ChannelInv, Lifetime, Before, IsServed, EndIsOpen, TypeOK
    <2>3. MailOf(d)'
      BY DEF IInv, ChannelInv, Lifetime, Before, MailOf, TypeOK
    <2>4. HasSlot(d)' /\ (session[d] = "asking" /\ opens[d] = 1 => mail[d] # "no")'
      BY DEF IInv, ChannelInv, Lifetime, Before, IsServed, EndIsOpen, MailOf, HasSlot, Promised, WasAdmitted, TypeOK
    <2> QED
      BY <2>1, <2>2, <2>3, <2>4 DEF ChannelInv
  <1>3. StopInv'
    BY DEF IInv, StopInv, ChannelInv, Lifetime, Before, TypeOK
  <1>4. (IsFiniteSet(held) /\ Cardinality(held) <= Ceiling)'
    BY DEF IInv
  <1> QED
    BY <1>1, <1>2, <1>3, <1>4 DEF IInv

LEMMA DeadlinePassesKeeps == ASSUME IInv, DeadlinePasses PROVE IInv'
  <1> USE DEF DeadlinePasses, Moves, Posts, Asks, stopping, IsCut, carrierVars, stopVars, serverVars, processVars
  <1>1. TypeOK'
    BY DEF IInv, TypeOK
  <1>2. ASSUME NEW d \in Channels PROVE ChannelInv(d)'
    <2>1. Lifetime(d)'
      BY DEF IInv, ChannelInv, Lifetime, Before, TypeOK
    <2>2. IsServed(d)'
      BY DEF IInv, ChannelInv, Lifetime, Before, IsServed, EndIsOpen, TypeOK
    <2>3. MailOf(d)'
      BY DEF IInv, ChannelInv, Lifetime, Before, MailOf, TypeOK
    <2>4. HasSlot(d)' /\ (session[d] = "asking" /\ opens[d] = 1 => mail[d] # "no")'
      BY DEF IInv, ChannelInv, Lifetime, Before, IsServed, EndIsOpen, MailOf, HasSlot, Promised, WasAdmitted, TypeOK
    <2> QED
      BY <2>1, <2>2, <2>3, <2>4 DEF ChannelInv
  <1>3. StopInv'
    BY DEF IInv, StopInv, ChannelInv, Lifetime, Before, TypeOK
  <1>4. (IsFiniteSet(held) /\ Cardinality(held) <= Ceiling)'
    BY DEF IInv
  <1> QED
    BY <1>1, <1>2, <1>3, <1>4 DEF IInv

LEMMA EndServerKeeps == ASSUME IInv, EndServer PROVE IInv'
  <1> USE DEF EndServer, Moves, Posts, Asks, stopping, IsCut, carrierVars, stopVars, serverVars, processVars
  <1>1. TypeOK'
    BY DEF IInv, TypeOK
  <1>2. ASSUME NEW d \in Channels PROVE ChannelInv(d)'
    <2>1. Lifetime(d)'
      BY DEF IInv, ChannelInv, Lifetime, Before, TypeOK
    <2>2. IsServed(d)'
      BY DEF IInv, ChannelInv, Lifetime, Before, IsServed, EndIsOpen, TypeOK
    <2>3. MailOf(d)'
      BY DEF IInv, ChannelInv, Lifetime, Before, MailOf, TypeOK
    <2>4. HasSlot(d)' /\ (session[d] = "asking" /\ opens[d] = 1 => mail[d] # "no")'
      BY DEF IInv, ChannelInv, Lifetime, Before, IsServed, EndIsOpen, MailOf, HasSlot, Promised, WasAdmitted, TypeOK
    <2> QED
      BY <2>1, <2>2, <2>3, <2>4 DEF ChannelInv
  <1>3. StopInv'
    BY DEF IInv, StopInv, ChannelInv, Lifetime, Before, TypeOK
  <1>4. (IsFiniteSet(held) /\ Cardinality(held) <= Ceiling)'
    BY DEF IInv
  <1> QED
    BY <1>1, <1>2, <1>3, <1>4 DEF IInv

LEMMA StopReturnsKeeps == ASSUME IInv, StopReturns PROVE IInv'
  <1> USE DEF StopReturns, Moves, Posts, Asks, stopping, IsCut, carrierVars, stopVars, serverVars, processVars
  <1>1. TypeOK'
    BY DEF IInv, TypeOK
  <1>2. ASSUME NEW d \in Channels PROVE ChannelInv(d)'
    <2>1. Lifetime(d)'
      BY DEF IInv, ChannelInv, Lifetime, Before, TypeOK
    <2>2. IsServed(d)'
      BY DEF IInv, ChannelInv, Lifetime, Before, IsServed, EndIsOpen, TypeOK
    <2>3. MailOf(d)'
      BY DEF IInv, ChannelInv, Lifetime, Before, MailOf, TypeOK
    <2>4. HasSlot(d)' /\ (session[d] = "asking" /\ opens[d] = 1 => mail[d] # "no")'
      BY DEF IInv, ChannelInv, Lifetime, Before, IsServed, EndIsOpen, MailOf, HasSlot, Promised, WasAdmitted, TypeOK
    <2> QED
      BY <2>1, <2>2, <2>3, <2>4 DEF ChannelInv
  <1>3. StopInv'
    BY DEF IInv, StopInv, ChannelInv, Lifetime, Before, TypeOK
  <1>4. (IsFiniteSet(held) /\ Cardinality(held) <= Ceiling)'
    BY DEF IInv
  <1> QED
    BY <1>1, <1>2, <1>3, <1>4 DEF IInv

LEMMA ServerEndsKeeps == ASSUME IInv, ServerEnds PROVE IInv'
  <1> USE DEF ServerEnds, Gone, Moves, Posts, Asks, stopping, IsCut, carrierVars, stopVars, serverVars, processVars
  <1>1. TypeOK'
    BY DEF IInv, TypeOK
  <1>2. ASSUME NEW d \in Channels PROVE ChannelInv(d)'
    <2>1. Lifetime(d)'
      BY DEF IInv, ChannelInv, Lifetime, Before, TypeOK
    <2>2. IsServed(d)'
      BY DEF IInv, ChannelInv, Lifetime, Before, IsServed, EndIsOpen, TypeOK
    <2>3. MailOf(d)'
      BY DEF IInv, ChannelInv, Lifetime, Before, MailOf, TypeOK
    <2>4. HasSlot(d)' /\ (session[d] = "asking" /\ opens[d] = 1 => mail[d] # "no")'
      BY DEF IInv, ChannelInv, Lifetime, Before, IsServed, EndIsOpen, MailOf, HasSlot, Promised, WasAdmitted, TypeOK
    <2> QED
      BY <2>1, <2>2, <2>3, <2>4 DEF ChannelInv
  <1>3. StopInv'
    BY DEF IInv, StopInv, ChannelInv, Lifetime, Before, TypeOK
  <1>4. (IsFiniteSet(held) /\ Cardinality(held) <= Ceiling)'
    BY CoreAssumption, FS_EmptySet
  <1> QED
    BY <1>1, <1>2, <1>3, <1>4 DEF IInv

LEMMA ServerFailsKeeps == ASSUME IInv, ServerFails PROVE IInv'
  <1> USE DEF ServerFails, Gone, Moves, Posts, Asks, stopping, IsCut, carrierVars, stopVars, serverVars, processVars
  <1>1. TypeOK'
    BY DEF IInv, TypeOK
  <1>2. ASSUME NEW d \in Channels PROVE ChannelInv(d)'
    <2>1. Lifetime(d)'
      BY DEF IInv, ChannelInv, Lifetime, Before, TypeOK
    <2>2. IsServed(d)'
      BY DEF IInv, ChannelInv, Lifetime, Before, IsServed, EndIsOpen, TypeOK
    <2>3. MailOf(d)'
      BY DEF IInv, ChannelInv, Lifetime, Before, MailOf, TypeOK
    <2>4. HasSlot(d)' /\ (session[d] = "asking" /\ opens[d] = 1 => mail[d] # "no")'
      BY DEF IInv, ChannelInv, Lifetime, Before, IsServed, EndIsOpen, MailOf, HasSlot, Promised, WasAdmitted, TypeOK
    <2> QED
      BY <2>1, <2>2, <2>3, <2>4 DEF ChannelInv
  <1>3. StopInv'
    BY DEF IInv, StopInv, ChannelInv, Lifetime, Before, TypeOK
  <1>4. (IsFiniteSet(held) /\ Cardinality(held) <= Ceiling)'
    BY CoreAssumption, FS_EmptySet
  <1> QED
    BY <1>1, <1>2, <1>3, <1>4 DEF IInv

LEMMA StepKeeps == IInv /\ [Next]_vars => IInv'
  <1> SUFFICES ASSUME IInv, [Next]_vars PROVE IInv'
    OBVIOUS
  <1>1. ASSUME NEW c \in Channels, AdmitBegins(c) PROVE IInv'
    BY <1>1, AdmitBeginsKeeps
  <1>2. ASSUME NEW c \in Channels, GivesToServer(c) PROVE IInv'
    BY <1>2, GivesToServerKeeps
  <1>3. ASSUME NEW c \in Channels, HandedOver(c) PROVE IInv'
    BY <1>3, HandedOverKeeps
  <1>4. ASSUME NEW c \in Channels, ControlLost(c) PROVE IInv'
    BY <1>4, ControlLostKeeps
  <1>5. ASSUME NEW c \in Channels, HandingTimesOut(c) PROVE IInv'
    BY <1>5, HandingTimesOutKeeps
  <1>6. ASSUME NEW c \in Channels, Fails(c) PROVE IInv'
    BY <1>6, FailsKeeps
  <1>7. ASSUME NEW c \in Channels, Answered(c) PROVE IInv'
    BY <1>7, AnsweredKeeps
  <1>8. ASSUME NEW c \in Channels, AskFails(c) PROVE IInv'
    BY <1>8, AskFailsKeeps
  <1>9. ASSUME NEW c \in Channels, CancelChannel(c) PROVE IInv'
    BY <1>9, CancelChannelKeeps
  <1>10. ASSUME NEW c \in Channels, StartBegins(c) PROVE IInv'
    BY <1>10, StartBeginsKeeps
  <1>11. ASSUME NEW c \in Channels, StartProcess(c) PROVE IInv'
    BY <1>11, StartProcessKeeps
  <1>12. ASSUME NEW c \in Channels, EnterProcess(c) PROVE IInv'
    BY <1>12, EnterProcessKeeps
  <1>13. ASSUME NEW c \in Channels, ForgetProcess(c) PROVE IInv'
    BY <1>13, ForgetProcessKeeps
  <1>14. ASSUME NEW c \in Channels, TakeChannel(c) PROVE IInv'
    BY <1>14, TakeChannelKeeps
  <1>15. ASSUME NEW c \in Channels, AnswerAdmit(c) PROVE IInv'
    BY <1>15, AnswerAdmitKeeps
  <1>16. ASSUME NEW c \in Channels, AnswerRelease(c) PROVE IInv'
    BY <1>16, AnswerReleaseKeeps
  <1>17. ASSUME NEW c \in Channels, ChannelEnds(c) PROVE IInv'
    BY <1>17, ChannelEndsKeeps
  <1>18. ASSUME NEW c \in Channels, StreamsRetire(c) PROVE IInv'
    BY <1>18, StreamsRetireKeeps
  <1>19. ASSUME NEW c \in Channels, OpenSession(c) PROVE IInv'
    BY <1>19, OpenSessionKeeps
  <1>20. ASSUME NEW c \in Channels, SessionAnswered(c) PROVE IInv'
    BY <1>20, SessionAnsweredKeeps
  <1>21. ASSUME NEW c \in Channels, EndSession(c) PROVE IInv'
    BY <1>21, EndSessionKeeps
  <1>22. ASSUME NEW c \in Channels, SessionReleased(c) PROVE IInv'
    BY <1>22, SessionReleasedKeeps
  <1>23. ASSUME NEW c \in Channels, ServerIsLost(c) PROVE IInv'
    BY <1>23, ServerIsLostKeeps
  <1>24. ASSUME NEW c \in Channels, ProcessEnds(c) PROVE IInv'
    BY <1>24, ProcessEndsKeeps
  <1>25. ASSUME NEW c \in Channels, WaitsFor(c) PROVE IInv'
    BY <1>25, WaitsForKeeps
  <1>26. ASSUME NEW c \in Channels, ProcessDone(c) PROVE IInv'
    BY <1>26, ProcessDoneKeeps
  <1>27. ASSUME NEW c \in Channels, KillProcess(c) PROVE IInv'
    BY <1>27, KillProcessKeeps
  <1>28. ASSUME NEW c \in Channels, StreamHangs(c) PROVE IInv'
    BY <1>28, StreamHangsKeeps
  <1>29. CASE StopBegins
    BY <1>29, StopBeginsKeeps
  <1>30. CASE StopLists
    BY <1>30, StopListsKeeps
  <1>31. CASE DeadlinePasses
    BY <1>31, DeadlinePassesKeeps
  <1>32. CASE EndServer
    BY <1>32, EndServerKeeps
  <1>33. CASE StopReturns
    BY <1>33, StopReturnsKeeps
  <1>34. CASE ServerEnds
    BY <1>34, ServerEndsKeeps
  <1>35. CASE ServerFails
    BY <1>35, ServerFailsKeeps
  <1>36. CASE UNCHANGED vars
    <2> USE <1>36 DEF vars, carrierVars, stopVars, serverVars, processVars
    <2>1. TypeOK' /\ StopInv' /\ (IsFiniteSet(held) /\ Cardinality(held) <= Ceiling)'
      BY DEF IInv, TypeOK, StopInv
    <2>2. ASSUME NEW d \in Channels PROVE ChannelInv(d)'
      BY DEF IInv, ChannelInv, Lifetime, IsServed, MailOf, HasSlot, Promised, WasAdmitted, EndIsOpen
    <2> QED
      BY <2>1, <2>2 DEF IInv
  <1> QED
    BY <1>1, <1>2, <1>3, <1>4, <1>5, <1>6, <1>7, <1>8, <1>9, <1>10, <1>11, <1>12, <1>13, <1>14, <1>15, <1>16, <1>17, <1>18, <1>19, <1>20, <1>21, <1>22, <1>23, <1>24, <1>25, <1>26, <1>27, <1>28, <1>29, <1>30, <1>31, <1>32, <1>33, <1>34, <1>35, <1>36
       DEF Next, CarrierStep, CarrierChoice, StopStep, ServerStep, ProcessStep, ProcessChoice

(* The invariant holds in every reachable state.                           *)
THEOREM CoreInvariance == Spec => []IInv
  BY InitHolds, StepKeeps, PTL DEF Spec

(* Every variable of the engine core keeps its type; Stop waits for no     *)
(* process but those it listed.                                            *)
THEOREM TypeCorrect == Spec => []TypeOK
  <1>1. IInv => TypeOK
    BY DEF IInv
  <1> QED
    BY <1>1, CoreInvariance, PTL

(* A slot is kept for whoever was told yes, whatever other channels, a     *)
(* late answer or a channel that ends do (admission.cpp).                  *)
THEOREM SlotsAreKeptHolds == Spec => []SlotsAreKept
  <1>1. IInv => SlotsAreKept
    <2> SUFFICES ASSUME IInv PROVE SlotsAreKept
      OBVIOUS
    <2>1. held \subseteq {c \in Channels : thread[c] = "serving"}
      BY DEF IInv, TypeOK, ChannelInv, HasSlot
    <2>2. ASSUME server = "up", NEW c \in Channels, WasAdmitted(c) PROVE c \in held
      <3>1. proc[c] # "none" \/ caller[c] \in {"admitted", "starting"}
        BY <2>2 DEF WasAdmitted
      <3>2. EndIsOpen(c)
        BY <2>2 DEF WasAdmitted, EndIsOpen
      <3>3. thread[c] = "serving"
        BY <2>2, <3>1, <3>2 DEF IInv, ChannelInv, IsServed
      <3> QED
        BY <2>2, <3>3 DEF IInv, ChannelInv, HasSlot, Promised
    <2> QED
      BY <2>1, <2>2 DEF IInv, SlotsAreKept
  <1> QED
    BY <1>1, CoreInvariance, PTL

(* The first session of a process is never told that the engine is busy    *)
(* (NATIVE_WORKER_WIRE.md:432).                                            *)
THEOREM FirstOpenIsAdmittedHolds == Spec => []FirstOpenIsAdmitted
  <1>1. IInv => FirstOpenIsAdmitted
    BY DEF IInv, ChannelInv, FirstOpenIsAdmitted
  <1> QED
    BY <1>1, CoreInvariance, PTL

(* Stop returns only over dead processes and a server that is gone; who    *)
(* slipped in is not of its list and is orphaned (engine_core.go:359).     *)
THEOREM StopIsThoroughHolds == Spec => []StopIsThorough
  <1>1. IInv => StopIsThorough
    BY DEF IInv, StopInv, StopIsThorough, IsCut
  <1> QED
    BY <1>1, CoreInvariance, PTL
=============================================================================
