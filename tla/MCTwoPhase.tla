----------------------------- MODULE MCTwoPhase -----------------------------
EXTENDS TwoPhase

(* The backends are alike.                                                 *)
Symmetry == Permutations(Backends)
=============================================================================
