--------------------------- MODULE MCThreadLocal ----------------------------
EXTENDS LldkThreadLocal, TLC

\* Threads, objects and addresses are interchangeable in safety runs.
Symmetry == Permutations(Threads) \cup Permutations(Objects) \cup Permutations(Blocks)

\* The behaviours in which nobody calls get.
SpecWithoutGet ==
    Init /\ [][Next /\ ~\E t \in Threads, o \in Objects : Get(t, o)]_vars
=============================================================================
