------------------------------ MODULE MCAiTurn ------------------------------
(* AiTurn for TLC: the edits a model is made of are interchangeable.       *)
EXTENDS AiTurn, TLC

Symmetry == Permutations(EditCall)
=============================================================================
