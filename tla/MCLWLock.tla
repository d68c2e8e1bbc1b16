------------------------------ MODULE MCLWLock ------------------------------
EXTENDS LWLock, TLC

CONSTANTS p1, p2, p3, v1, v2

(* Processes are interchangeable, since no entry point depends on their    *)
(* order; values of the variable are only compared for equality.           *)
Symmetry == Permutations(Procs) \union Permutations(Values)
=============================================================================
