----------------------------- MODULE MCBackend ------------------------------
(***************************************************************************)
(* Backend and its refinement mapping, for TLC.  Rows are interchangeable; *)
(* savepoint names are as well.                                            *)
(***************************************************************************)
EXTENDS BackendAbs, TLC

Interchangeable == Permutations(Names) \cup Permutations(Rows)
=============================================================================
