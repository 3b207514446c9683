------------------------------ MODULE MCBudget ------------------------------
(***************************************************************************)
(* Budget instantiated for TLC: two requests that do not both fit under a  *)
(* limit of 3.                                                             *)
(***************************************************************************)
EXTENDS Budget, TLC

CONSTANTS d1, d2

(* one request, for what concerns a single row *)
OneDecision == {d1}
OneAmount   == (d1 :> 2)

TwoDecisions == {d1, d2}
TwoAmounts   == (d1 :> 2) @@ (d2 :> 2)

ProcessSymmetry == Permutations(Calls) \cup Permutations(Reconcilers)
=============================================================================
