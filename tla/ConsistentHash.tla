--------------------------- MODULE ConsistentHash ---------------------------
(***************************************************************************)
(* sharding/consistent_hash.go: the ring of virtual nodes, as values.      *)
(*                                                                         *)
(* A ring has the two fields of ConsistentHashRing: keys, the sorted       *)
(* []int, which may hold a position several times, as the number of times  *)
(* each position occurs in it; and hashMap, from positions to nodes.  The  *)
(* hash function is a parameter of the code (HashFunc): vh[n] is the       *)
(* sequence of the hashes of "0n", "1n", ..., and a key stands for its     *)
(* hash.  Nothing is assumed of vh: two virtual nodes may hash alike.      *)
(***************************************************************************)
EXTENDS Integers, FiniteSets

CONSTANTS
    Nodes,       \* names of servers
    Replicas,    \* virtual nodes per server
    HashSize,    \* the hash function returns 0 .. HashSize - 1
    None         \* "" of GetNode, and a position without an entry in hashMap

ASSUME RingAssumption ==
    /\ Replicas \in Nat \ {0}
    /\ HashSize \in Nat \ {0}
    /\ None \notin Nodes

Positions == 0 .. HashSize - 1

\* The virtual nodes that hash to p, among those of node n
Virtual(vh, n, p) == {i \in 1 .. Replicas : vh[n][i] = p}

Rings == [keys : [Positions -> Nat], hashMap : [Positions -> Nodes \cup {None}]]

New == [keys |-> [p \in Positions |-> 0], hashMap |-> [p \in Positions |-> None]]

\* The positions that occur in keys
Taken(r) == {p \in Positions : r.keys[p] > 0}

IsEmpty(r) == Taken(r) = {}

\* Every virtual node is appended to keys and takes over the entry of its
\* position in hashMap, whoever had it.
AddNode(r, vh, n) ==
    [keys    |-> [p \in Positions |-> r.keys[p] + Cardinality(Virtual(vh, n, p))],
     hashMap |-> [p \in Positions |-> IF Virtual(vh, n, p) # {} THEN n ELSE r.hashMap[p]]]

\* Mutant: the entry in hashMap is not deleted
RemoveNodeKeepsEntry(r, vh, n) ==
    [r EXCEPT !.keys = [p \in Positions |->
        LET left == r.keys[p] - Cardinality(Virtual(vh, n, p)) IN IF left < 0 THEN 0 ELSE left]]

\* Mutant: the key at the index found is removed without comparing
\* it with the hash
RemoveNodeUnchecked(r, vh, n) ==
    LET at(i) == {p \in Positions : r.keys[p] > 0 /\ p >= vh[n][i]}
        gone  == {p \in Positions : \E i \in 1 .. Replicas : p \in at(i) /\ \A q \in at(i) : p <= q}
    IN  [keys    |-> [p \in Positions |-> IF p \in gone THEN r.keys[p] - 1 ELSE r.keys[p]],
         hashMap |-> [p \in Positions |-> IF Virtual(vh, n, p) # {} THEN None ELSE r.hashMap[p]]]

\* Mutant: occurrences are counted down without looking
RemoveNodeBelowZero(r, vh, n) ==
    [keys    |-> [p \in Positions |-> r.keys[p] - Cardinality(Virtual(vh, n, p))],
     hashMap |-> [p \in Positions |-> IF Virtual(vh, n, p) # {} THEN None ELSE r.hashMap[p]]]

\* For every virtual node one occurrence of its position leaves keys, if there
\* is one, and the position's entry in hashMap is deleted, whoever has it.
RemoveNode(r, vh, n) ==
    [keys    |-> [p \in Positions |->
                    LET left == r.keys[p] - Cardinality(Virtual(vh, n, p))
                    IN  IF left < 0 THEN 0 ELSE left],
     hashMap |-> [p \in Positions |-> IF Virtual(vh, n, p) # {} THEN None ELSE r.hashMap[p]]]

Least(S) == CHOOSE p \in S : \A q \in S : p <= q

\* Mutant: past the last position it stays at the last one
GetNodeNoWrap(r, h) ==
    LET after == {p \in Taken(r) : p >= h}
    IN  IF IsEmpty(r) THEN None
        ELSE IF after # {} THEN r.hashMap[Least(after)]
        ELSE r.hashMap[CHOOSE p \in Taken(r) : \A q \in Taken(r) : p >= q]

\* The entry of the first position at or after the hash h, of the first of all
\* when there is none (sort.SearchInts and the wrap to index 0).
GetNode(r, h) ==
    LET after == {p \in Taken(r) : p >= h}
    IN  IF IsEmpty(r) THEN None
        ELSE r.hashMap[Least(IF after # {} THEN after ELSE Taken(r))]
=============================================================================
