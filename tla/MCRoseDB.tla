------------------------------ MODULE MCRoseDB ------------------------------
\* RoseDB for TLC, and its refinement of KVStore.
EXTENDS RoseDBRefinement, TLC

CONSTANTS k1, k2

\* Both keys fall into one hash bucket.
MCHash == [k \in Keys |-> 0]
MCHashVals == {0}
\* An ordinary lifetime, and one that overflows the clock.
MCTTLs == {1, MaxInt}
Symmetry == Permutations(Keys) \cup Permutations(Batches)
=============================================================================
