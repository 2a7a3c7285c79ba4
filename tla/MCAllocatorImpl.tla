-------------------------- MODULE MCAllocatorImpl ---------------------------
EXTENDS AllocatorImpl, TLC

\* Addresses are interchangeable.
Symmetry == Permutations(Blocks)
=============================================================================
