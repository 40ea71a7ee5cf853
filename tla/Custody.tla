------------------------------ MODULE Custody ------------------------------
(***************************************************************************)
(* What a session promises its host about spoken replies, without threads, *)
(* queues or events (session.h: synthesize, audio, interrupt, playback,    *)
(* release_generation, close).                                             *)
(*                                                                         *)
(* A reply is NEW until it is admitted, in the order of its number.  While *)
(* it is OPEN samples are given out and the host reports how far it has    *)
(* played them.  It is settled in one of two ways: it is played out to its *)
(* last sample, or it is CUT, after which not one more sample is given     *)
(* out.  A settled reply never changes again and is finally released.      *)
(* The session closes when everything admitted is settled, or by breaking, *)
(* which cuts whatever is not.                                             *)
(***************************************************************************)
EXTENDS Naturals

CONSTANT Replies

VARIABLES stage, given, heard, closed
vars == <<stage, given, heard, closed>>

Stages == {"new", "open", "cut", "settled", "released"}

Init ==
    /\ stage = [r \in Replies |-> "new"]
    /\ given = [r \in Replies |-> 0]
    /\ heard = [r \in Replies |-> 0]
    /\ closed = FALSE

AllSettled == \A r \in Replies : stage[r] \in {"new", "settled", "released"}
(* A step that settles the last thing may also close the session.          *)
MayClose == closed' = closed \/ (closed' = TRUE /\ AllSettled')

Admit(r) ==
    /\ ~closed
    /\ \A other \in Replies : stage[other] # "new" => other < r
    /\ stage' = [stage EXCEPT ![r] = "open"]
    /\ UNCHANGED <<given, heard, closed>>
Give(r) ==
    /\ ~closed /\ stage[r] = "open"
    /\ given'[r] > given[r]
    /\ given' = [given EXCEPT ![r] = given'[r]]
    /\ UNCHANGED <<stage, heard, closed>>
Cut(r) ==
    /\ stage[r] = "open"
    /\ stage' = [stage EXCEPT ![r] = "cut"]
    /\ UNCHANGED <<given, heard, closed>>
Report(r) ==
    /\ stage[r] \in {"open", "cut"}
    /\ heard[r] <= heard'[r] /\ heard'[r] <= given[r]
    /\ heard' = [heard EXCEPT ![r] = heard'[r]]
    /\ \/ UNCHANGED stage
       \/ /\ stage[r] = "cut" \/ heard'[r] = given[r]
          /\ stage' = [stage EXCEPT ![r] = "settled"]
    /\ UNCHANGED given
    /\ MayClose
Release(r) ==
    /\ stage[r] = "settled"
    /\ stage' = [stage EXCEPT ![r] = "released"]
    /\ UNCHANGED <<given, heard, closed>>
Close ==
    /\ closed' = TRUE /\ AllSettled
    /\ UNCHANGED <<stage, given, heard>>
Break ==
    /\ closed' = TRUE
    /\ stage' = [r \in Replies |-> IF stage[r] = "open" THEN "cut" ELSE stage[r]]
    /\ UNCHANGED <<given, heard>>

Next ==
    \/ \E r \in Replies : Admit(r) \/ Give(r) \/ Cut(r) \/ Report(r) \/ Release(r)
    \/ Close \/ Break

Spec == Init /\ [][Next]_vars
=============================================================================
