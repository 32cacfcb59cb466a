----------------------------- MODULE MCHashRing -----------------------------
(***************************************************************************)
(* Three servers, two virtual nodes each, four positions.  The ring does   *)
(* not tell the virtual nodes of a server apart, so that the functions in  *)
(* which they are in order stand for all.                                  *)
(***************************************************************************)
EXTENDS HashRing, TLC
MCVHashes == [Nodes -> {s \in [1 .. Replicas -> Positions] : s[1] <= s[2]}]
\* No two virtual nodes at one position.
MCApart ==
    {v \in MCVHashes : \A x, y \in Nodes \X (1 .. Replicas) : x # y => v[x[1]][x[2]] # v[y[1]][y[2]]}
Symmetry == Permutations(Nodes)
=============================================================================
