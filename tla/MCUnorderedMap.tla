--------------------------- MODULE MCUnorderedMap ---------------------------
EXTENDS LldkUnorderedMap, TLC

CONSTANTS k1, k2, k3

\* k1 and k2 share a slot; the hash of k3 exceeds CACHE_SIZE.
MCHash == (k1 :> 0) @@ (k2 :> 2) @@ (k3 :> 3)

\* Nodes are interchangeable.
Symmetry == Permutations(Nodes)
=============================================================================
