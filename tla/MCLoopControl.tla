--------------------------- MODULE MCLoopControl ---------------------------
(***************************************************************************)
(* Instances of LoopControl: two operators and a loop; the clock may       *)
(* stand still over several requests.                                      *)
(***************************************************************************)
EXTENDS LoopControl, TLC

CONSTANTS op1, op2, loop1

\* The operators change their minds, the loop reports one state.
MCAsked == ({op1, op2} \X {"run", "hold"}) \cup {<<loop1, "hold">>}

MCTimes == 1 .. 2
MCIds == 1 .. 3

Symmetry == Permutations(Operator)
=============================================================================
