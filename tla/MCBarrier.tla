------------------------------ MODULE MCBarrier ------------------------------
EXTENDS Barrier, TLC

(* Those who call the same operations are interchangeable.                 *)
Symmetry == Permutations(Droppers) \union Permutations(Procs \ Droppers)
=============================================================================
