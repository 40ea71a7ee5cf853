------------------------------ MODULE MCTurns ------------------------------
(***************************************************************************)
(* The instance of Turns that TLC checks: the recognizer of one speaker    *)
(* and the separating one, which also hears the silence between turns.     *)
(***************************************************************************)
EXTENDS Turns

TwoKinds == {[separated |-> FALSE, continuous |-> FALSE],
             [separated |-> TRUE, continuous |-> TRUE]}
=============================================================================
