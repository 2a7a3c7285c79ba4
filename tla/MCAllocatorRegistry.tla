------------------------ MODULE MCAllocatorRegistry -------------------------
EXTENDS AllocatorRegistry, TLC

\* Threads, names and addresses are interchangeable.
Symmetry == Permutations(Threads) \cup Permutations(Names) \cup Permutations(Allocs)
=============================================================================
