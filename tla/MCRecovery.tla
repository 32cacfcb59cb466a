----------------------------- MODULE MCRecovery -----------------------------
\* Recovery for TLC.
EXTENDS Recovery, TLC

CONSTANTS k1, k2
MCHash == [k \in Keys |-> 0]
Symmetry == Permutations(Keys)
=============================================================================
