------------------------- MODULE MCLibraryLifecycle -------------------------
(* The main thread and its workers.                                          *)
EXTENDS LibraryLifecycle, TLC

CONSTANTS main, worker, worker2, s1, s2, s3

MCStates == {s1, s2, s3}
Symmetry == Permutations(MCStates)
=============================================================================
