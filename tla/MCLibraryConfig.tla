--------------------------- MODULE MCLibraryConfig ---------------------------
(* Two threads, the two allocators of an initialised library and a third   *)
(* that replaces one of them, and an identifier with two names.             *)
EXTENDS LibraryConfig, TLC

CONSTANTS t1, t2, mallocA, lockingA, lockingB

MCThreads == {t1, t2}
Symmetry == Permutations(MCThreads)
MCAllocatorType == (mallocA :> "malloc") @@ (lockingA :> "locking") @@ (lockingB :> "locking")
=============================================================================
