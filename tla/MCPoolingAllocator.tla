------------------------- MODULE MCPoolingAllocator -------------------------
(* A pool of three-unit Memory_Blocks, two to a chunk, and two threads.    *)
EXTENDS PoolingAllocator, TLC

CONSTANTS t1, t2

MCThreads == {t1, t2}
Symmetry == Permutations(MCThreads)
=============================================================================
