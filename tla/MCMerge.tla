------------------------------ MODULE MCMerge ------------------------------
\* Merge for TLC.
EXTENDS Merge, TLC

Symmetry == Permutations(Keys) \cup Permutations(Mergers)
============================================================================
