--------------------------- MODULE HashRingProofs ---------------------------
(***************************************************************************)
(* Theorems about HashRing, for every set of servers, number of virtual    *)
(* nodes, size of the ring and hash function.                              *)
(*                                                                         *)
(* The invariant that is inductive says of hashMap, beside its type, that  *)
(* an entry names a server which was added last and not removed, and one   *)
(* that has a virtual node at that position.                               *)
(***************************************************************************)
EXTENDS HashRing, FiniteSetTheorems, WellFoundedInduction, TLAPS

(* The operations of the ring, for every ring and every hash function       *)

\* Every set of natural numbers that is not empty has a smallest member.
LEMMA LeastNatural ==
    ASSUME NEW S \in SUBSET Nat, S # {}
    PROVE  \E p \in S : \A q \in S : p <= q
<1> DEFINE R == OpToRel(<, Nat)
<1>1. PICK p \in S : \A q \in S : ~ (<<q, p>> \in R)
  BY NatLessThanWellFounded, WFMin, Zenon
<1>2. \A q \in S : q < p => <<q, p>> \in R
  BY Zenon DEF OpToRel
<1> HIDE DEF R
<1>3. \A q \in S : ~(q < p)
  BY <1>1, <1>2
<1>4. \A q \in S : p <= q
  BY <1>3
<1> QED
  BY <1>4

\* The minimum the binary search of GetNode looks for exists.
LEMMA LeastExists ==
    ASSUME NEW S \in SUBSET Positions, S # {}
    PROVE  Least(S) \in S /\ \A q \in S : Least(S) <= q
<1>1. S \in SUBSET Nat
  BY RingAssumption DEF Positions
<1>2. \E p \in S : \A q \in S : p <= q
  BY <1>1, LeastNatural
<1> QED
  BY <1>2 DEF Least

\* A minimum is unique.
LEMMA LeastUnique ==
    ASSUME NEW S \in SUBSET Positions, NEW p \in S, \A q \in S : p <= q
    PROVE  Least(S) = p
<1>1. Least(S) \in S /\ \A q \in S : Least(S) <= q
  BY LeastExists
<1>2. S \subseteq Int
  BY RingAssumption DEF Positions
<1>3. Least(S) <= p /\ p <= Least(S)
  BY <1>1
<1>4. \A x, y \in Int : x <= y /\ y <= x => x = y
  OBVIOUS
<1>5. Least(S) \in Int /\ p \in Int
  BY <1>1, <1>2, Zenon
<1> QED
  BY <1>3, <1>4, <1>5, Zenon

\* A server has finitely many virtual nodes at a position.
LEMMA VirtualCount ==
    ASSUME NEW vh, NEW n, NEW p
    PROVE  /\ Cardinality(Virtual(vh, n, p)) \in Nat
           /\ Virtual(vh, n, p) = {} <=> Cardinality(Virtual(vh, n, p)) = 0
<1>1. IsFiniteSet(1 .. Replicas)
  BY RingAssumption, FS_Interval
<1>2. IsFiniteSet(Virtual(vh, n, p))
  BY <1>1, FS_Subset DEF Virtual
<1> QED
  BY <1>2, FS_CardinalityType, FS_EmptySet

\* The position GetNode stops at: the first at or after h, or the first of all.
Stop(r, h) ==
    LET after == {p \in Taken(r) : p >= h}
    IN  Least(IF after # {} THEN after ELSE Taken(r))

\* GetNode returns the entry of a position that occurs in keys.
LEMMA StopTaken ==
    ASSUME NEW r, NEW h \in Positions, ~IsEmpty(r)
    PROVE  Stop(r, h) \in Taken(r) /\ GetNode(r, h) = r.hashMap[Stop(r, h)]
<1> DEFINE after == {p \in Taken(r) : p >= h}
<1>1. Taken(r) \in SUBSET Positions /\ Taken(r) # {}
  BY DEF Taken, IsEmpty
<1>2. after \in SUBSET Positions
  BY <1>1
<1>3. Least(IF after # {} THEN after ELSE Taken(r)) \in Taken(r)
  <2>1. CASE after # {}
    BY <2>1, <1>2, LeastExists
  <2>2. CASE after = {}
    BY <2>2, <1>1, LeastExists
  <2> QED
    BY <2>1, <2>2
<1> QED
  BY <1>3 DEF Stop, GetNode

\* The search stops at the same position of two rings when that of the larger
\* one is in the smaller.
LEMMA SameStop ==
    ASSUME NEW r, NEW s, NEW h \in Positions,
           Taken(r) \subseteq Taken(s), ~IsEmpty(s), Stop(s, h) \in Taken(r)
    PROVE  Stop(r, h) = Stop(s, h)
<1> DEFINE ar == {p \in Taken(r) : p >= h}
           as == {p \in Taken(s) : p >= h}
<1>1. /\ Taken(r) \in SUBSET Positions /\ Taken(s) \in SUBSET Positions
      /\ ar \in SUBSET Positions /\ as \in SUBSET Positions /\ ar \subseteq as
  BY DEF Taken
<1>2. CASE as # {}
  <2>1. Stop(s, h) = Least(as)
    BY <1>2 DEF Stop
  <2>2. Stop(s, h) \in as /\ \A q \in as : Stop(s, h) <= q
    BY <2>1, <1>1, <1>2, LeastExists
  <2>3. Stop(s, h) \in ar /\ \A q \in ar : Stop(s, h) <= q
    BY <2>2, <1>1
  <2>4. Least(ar) = Stop(s, h)
    BY <2>3, <1>1, LeastUnique
  <2> QED
    BY <2>3, <2>4 DEF Stop
<1>3. CASE as = {}
  <2>1. ar = {}
    BY <1>3, <1>1
  <2>2. Stop(s, h) = Least(Taken(s)) /\ Stop(r, h) = Least(Taken(r))
    BY <1>3, <2>1 DEF Stop
  <2>3. \A q \in Taken(s) : Stop(s, h) <= q
    BY <2>2, <1>1, LeastExists DEF IsEmpty
  <2>4. Least(Taken(r)) = Stop(s, h)
    BY <2>3, <1>1, LeastUnique
  <2> QED
    BY <2>2, <2>4
<1> QED
  BY <1>2, <1>3

\* What AddNode makes of a ring: the positions of the new server lead to it, and
\* the others to whom they led before.
LEMMA AddNodeEntries ==
    ASSUME NEW r \in Rings, NEW vh, NEW n \in Nodes
    PROVE  /\ AddNode(r, vh, n) \in Rings
           /\ Taken(r) \subseteq Taken(AddNode(r, vh, n))
           /\ \A p \in Positions :
                 IF Virtual(vh, n, p) # {}
                 THEN AddNode(r, vh, n).hashMap[p] = n /\ p \in Taken(AddNode(r, vh, n))
                 ELSE /\ AddNode(r, vh, n).hashMap[p] = r.hashMap[p]
                      /\ p \in Taken(AddNode(r, vh, n)) <=> p \in Taken(r)
<1> DEFINE a == AddNode(r, vh, n)
<1>1. r.keys \in [Positions -> Nat] /\ r.hashMap \in [Positions -> Nodes \cup {None}]
  BY DEF Rings
<1>2. \A p : /\ Cardinality(Virtual(vh, n, p)) \in Nat
             /\ Virtual(vh, n, p) = {} <=> Cardinality(Virtual(vh, n, p)) = 0
  BY VirtualCount
<1>3. a \in Rings
  BY <1>1, <1>2 DEF AddNode, Rings
<1>4. \A p \in Positions :
         /\ a.keys[p] = r.keys[p] + Cardinality(Virtual(vh, n, p))
         /\ a.hashMap[p] = IF Virtual(vh, n, p) # {} THEN n ELSE r.hashMap[p]
  BY DEF AddNode
<1>5. \A p \in Positions : r.keys[p] \in Nat
  BY <1>1
<1> HIDE DEF a
<1>6. \A p \in Positions : p \in Taken(a) <=> r.keys[p] > 0 \/ Virtual(vh, n, p) # {}
  BY <1>2, <1>4, <1>5 DEF Taken
<1>7. \A p \in Positions : p \in Taken(r) <=> r.keys[p] > 0
  BY DEF Taken
<1>8. Taken(r) \subseteq Positions /\ Taken(a) \subseteq Positions
  BY DEF Taken
<1> QED
  BY <1>3, <1>4, <1>6, <1>7, <1>8 DEF a

\* A key is routed to a server, or nowhere.
LEMMA GetNodeTyped ==
    ASSUME NEW r \in Rings, NEW h \in Positions
    PROVE  GetNode(r, h) \in Nodes \cup {None}
<1>1. CASE IsEmpty(r)
  BY <1>1 DEF GetNode
<1>2. CASE ~IsEmpty(r)
  <2>1. Stop(r, h) \in Positions /\ GetNode(r, h) = r.hashMap[Stop(r, h)]
    BY <1>2, StopTaken DEF Taken
  <2> QED
    BY <2>1 DEF Rings
<1> QED
  BY <1>1, <1>2

\* Adding a server takes keys for it only, whatever positions collide.
LEMMA AddNodeMoves ==
    ASSUME NEW r \in Rings, NEW vh, NEW n \in Nodes, NEW h \in Positions
    PROVE  GetNode(AddNode(r, vh, n), h) \in {n, GetNode(r, h)}
<1> DEFINE a == AddNode(r, vh, n)
           p == Stop(a, h)
<1>1. /\ Taken(r) \subseteq Taken(a)
      /\ \A q \in Positions :
            IF Virtual(vh, n, q) # {} THEN a.hashMap[q] = n
            ELSE a.hashMap[q] = r.hashMap[q] /\ (q \in Taken(a) <=> q \in Taken(r))
  BY AddNodeEntries
<1> HIDE DEF a
<1>2. CASE IsEmpty(a)
  <2>1. IsEmpty(r)
    BY <1>1, <1>2 DEF IsEmpty
  <2> QED
    BY <1>2, <2>1 DEF GetNode, a
<1>3. CASE ~IsEmpty(a)
  <2>1. p \in Taken(a) /\ p \in Positions /\ GetNode(a, h) = a.hashMap[p]
    BY <1>3, StopTaken DEF Taken
  <2>2. CASE Virtual(vh, n, p) # {}
    BY <1>1, <2>1, <2>2 DEF a
  <2>3. CASE Virtual(vh, n, p) = {}
    <3>1. a.hashMap[p] = r.hashMap[p] /\ p \in Taken(r)
      BY <1>1, <2>1, <2>3
    <3>2. ~IsEmpty(r) /\ Stop(r, h) = p
      BY <1>1, <1>3, <3>1, SameStop DEF IsEmpty
    <3>3. GetNode(r, h) = r.hashMap[p]
      BY <3>2, StopTaken
    <3> QED
      BY <2>1, <3>1, <3>3 DEF a
  <2> QED
    BY <2>2, <2>3
<1> QED
  BY <1>2, <1>3
-----------------------------------------------------------------------------
(* The inductive invariant                                                 *)

\* An entry of hashMap names a member with a virtual node there.
EntriesOfMembers ==
    \A p \in Positions :
        ring.hashMap[p] # None => /\ ring.hashMap[p] \in member
                                  /\ Virtual(vhash, ring.hashMap[p], p) # {}

IInv == TypeOK /\ EntriesOfMembers


-----------------------------------------------------------------------------
\* Fields of the ring that RemoveNode returns
LEMMA RemoveNodeFields ==
    ASSUME TypeOK, NEW n \in Nodes, NEW p \in Positions
    PROVE  LET r == RemoveNode(ring, vhash, n)
           IN  /\ r \in Rings
               /\ Virtual(vhash, n, p) # {} => r.hashMap[p] = None
               /\ Virtual(vhash, n, p) = {} => r.hashMap[p] = ring.hashMap[p] /\ r.keys[p] = ring.keys[p]
               /\ r.keys[p] > 0 => ring.keys[p] > 0
<1>1. ring.keys \in [Positions -> Nat] /\ ring.hashMap \in [Positions -> Nodes \cup {None}]
  BY DEF TypeOK, Rings
<1>2. \A q : Cardinality(Virtual(vhash, n, q)) \in Nat
  BY VirtualCount
<1>3. Virtual(vhash, n, p) = {} <=> Cardinality(Virtual(vhash, n, p)) = 0
  BY VirtualCount
<1> DEFINE left(q) == ring.keys[q] - Cardinality(Virtual(vhash, n, q))
<1>4. RemoveNode(ring, vhash, n) \in Rings
  <2>1. \A q \in Positions : (IF left(q) < 0 THEN 0 ELSE left(q)) \in Nat
    BY <1>1, <1>2
  <2> QED
    BY <1>1, <2>1 DEF RemoveNode, Rings
<1>5. RemoveNode(ring, vhash, n).keys[p] = IF left(p) < 0 THEN 0 ELSE left(p)
  BY DEF RemoveNode
<1>6. RemoveNode(ring, vhash, n).hashMap[p] = IF Virtual(vhash, n, p) # {} THEN None ELSE ring.hashMap[p]
  BY DEF RemoveNode
<1>7. ring.keys[p] \in Nat
  BY <1>1
<1> QED
  BY <1>2, <1>3, <1>4, <1>5, <1>6, <1>7

-----------------------------------------------------------------------------
LEMMA InitInv == Init => IInv
<1> SUFFICES ASSUME Init PROVE IInv
  OBVIOUS
<1>1. ring \in Rings
  BY DEF Init, New, Rings
<1>2. TypeOK
  BY <1>1, HashRingAssumption DEF Init, TypeOK
<1>3. EntriesOfMembers
  BY DEF Init, New, EntriesOfMembers
<1> QED
  BY <1>2, <1>3 DEF IInv

LEMMA AddInv ==
    ASSUME IInv, NEW n \in Nodes, Add(n)
    PROVE  IInv'
<1> USE DEF IInv
<1>1. TypeOK'
  <2>1. ring' \in Rings
    BY AddNodeEntries DEF Add, TypeOK
  <2> QED
    BY <2>1, HashRingAssumption DEF Add, TypeOK
<1>2. EntriesOfMembers'
  <2> SUFFICES ASSUME NEW p \in Positions, ring'.hashMap[p] # None
               PROVE  ring'.hashMap[p] \in member' /\ Virtual(vhash', ring'.hashMap[p], p) # {}
    BY DEF EntriesOfMembers
  <2>1. member' = member \cup {n} /\ vhash' = vhash /\ ring' = AddNode(ring, vhash, n)
    BY DEF Add
  <2>2. CASE Virtual(vhash, n, p) # {}
    BY <2>1, <2>2, AddNodeEntries DEF TypeOK
  <2>3. CASE Virtual(vhash, n, p) = {}
    BY <2>1, <2>3, AddNodeEntries DEF TypeOK, EntriesOfMembers
  <2> QED
    BY <2>2, <2>3
<1> QED
  BY <1>1, <1>2

LEMMA RemoveInv ==
    ASSUME IInv, NEW n \in Nodes, Remove(n)
    PROVE  IInv'
<1> USE DEF IInv
<1>1. TypeOK'
  <2>1. Positions # {}
    BY RingAssumption DEF Positions
  <2>2. ring' \in Rings
    BY <2>1, RemoveNodeFields DEF Remove
  <2> QED
    BY <2>2, HashRingAssumption DEF Remove, TypeOK
<1>2. EntriesOfMembers'
  <2> SUFFICES ASSUME NEW p \in Positions, ring'.hashMap[p] # None
               PROVE  ring'.hashMap[p] \in member' /\ Virtual(vhash', ring'.hashMap[p], p) # {}
    BY DEF EntriesOfMembers
  <2>1. member' = member \ {n} /\ vhash' = vhash /\ ring' = RemoveNode(ring, vhash, n)
    BY DEF Remove
  <2>2. Virtual(vhash, n, p) = {} /\ ring'.hashMap[p] = ring.hashMap[p]
    BY <2>1, RemoveNodeFields
  <2> QED
    BY <2>1, <2>2 DEF EntriesOfMembers
<1> QED
  BY <1>1, <1>2

LEMMA Invariance == Spec => []IInv
<1>1. IInv /\ [Next]_vars => IInv'
  <2> SUFFICES ASSUME IInv, [Next]_vars PROVE IInv'
    OBVIOUS
  <2>1. CASE Next
    BY <2>1, AddInv, RemoveInv DEF Next
  <2>2. CASE UNCHANGED vars
    BY <2>2 DEF vars, IInv, TypeOK, EntriesOfMembers
  <2> QED
    BY <2>1, <2>2
<1> QED
  BY InitInv, <1>1, PTL DEF Spec

\* No sequence of AddNode and RemoveNode makes a count of keys negative or puts
\* anything but a server into hashMap.
THEOREM TypeCorrect == Spec => []TypeOK
<1>1. IInv => TypeOK
  BY DEF IInv
<1> QED
  BY Invariance, <1>1, PTL

-----------------------------------------------------------------------------
\* GetNode never names a removed server: consistent_hash.go promises it of
\* RemoveNode, and it holds whatever hashes collide.
THEOREM RoutesAreMembers == Spec => []RoutesToMembers
<1>1. IInv => RoutesToMembers
  <2> SUFFICES ASSUME IInv, NEW h \in Positions PROVE Owner(h) \in member \cup {None}
    BY DEF RoutesToMembers
  <2>1. CASE IsEmpty(ring)
    BY <2>1 DEF Owner, GetNode
  <2>2. CASE ~IsEmpty(ring)
    <3>1. Stop(ring, h) \in Positions /\ Owner(h) = ring.hashMap[Stop(ring, h)]
      BY <2>2, StopTaken DEF Owner, Taken
    <3> QED
      BY <3>1 DEF IInv, EntriesOfMembers
  <2> QED
    BY <2>1, <2>2
<1> QED
  BY Invariance, <1>1, PTL

\* AddNode moves keys to the new server only.
LEMMA AddMoves ==
    ASSUME IInv, NEW n \in Nodes, Add(n), NEW h \in Positions, Owner(h)' # Owner(h)
    PROVE  Owner(h)' = n
  BY AddNodeMoves DEF Add, Owner, IInv, TypeOK

\* Without collisions RemoveNode moves only keys of the removed server.
LEMMA RemoveMoves ==
    ASSUME IInv, NEW n \in Nodes, Remove(n), NoCollision,
           NEW h \in Positions, Owner(h)' # Owner(h)
    PROVE  Owner(h) \in {n, None}
<1> DEFINE r == RemoveNode(ring, vhash, n)
           p == Stop(ring, h)
<1>1. ring' = r /\ Owner(h)' = GetNode(r, h) /\ Owner(h) = GetNode(ring, h)
  BY DEF Remove, Owner
<1>2. TypeOK
  BY DEF IInv
<1>3. Taken(r) \subseteq Taken(ring)
  BY <1>2, RemoveNodeFields DEF Taken
<1> SUFFICES ASSUME Owner(h) # n, Owner(h) # None PROVE FALSE
  OBVIOUS
<1>4. ~IsEmpty(ring)
  BY <1>1 DEF GetNode
<1>5. p \in Taken(ring) /\ p \in Positions /\ Owner(h) = ring.hashMap[p]
  BY <1>1, <1>4, StopTaken DEF Taken
<1>6. Owner(h) \in Nodes /\ Virtual(vhash, Owner(h), p) # {}
  BY <1>2, <1>5 DEF IInv, EntriesOfMembers, TypeOK
<1>7. Virtual(vhash, n, p) = {}
  BY <1>5, <1>6 DEF NoCollision
<1>8. r.hashMap[p] = ring.hashMap[p] /\ r.keys[p] = ring.keys[p]
  BY <1>2, <1>5, <1>7, RemoveNodeFields
<1>9. p \in Taken(r)
  BY <1>5, <1>8 DEF Taken
<1>10. ~IsEmpty(r) /\ Stop(r, h) = p
  BY <1>3, <1>4, <1>9, SameStop DEF IsEmpty
<1>11. GetNode(r, h) = r.hashMap[p]
  BY <1>10, StopTaken
<1> QED
  BY <1>1, <1>5, <1>8, <1>11

\* Consistent hashing, for every hash function: AddNode takes keys for the new
\* server only, whatever collides, and RemoveNode moves no key of another
\* server unless positions collide.
THEOREM OnlyItsKeysMove == Spec => MovesOnlyItsKeys
<1> DEFINE A == \A h \in Positions, n \in Nodes :
                   Owner(h)' # Owner(h) =>
                       /\ Add(n) => Owner(h)' = n
                       /\ Remove(n) /\ NoCollision => Owner(h) \in {n, None}
<1>1. IInv /\ [Next]_vars => [A]_vars
  BY AddMoves, RemoveMoves
<1>2. MovesOnlyItsKeys <=> [][A]_vars
  BY DEF MovesOnlyItsKeys
<1> QED
  BY Invariance, <1>1, <1>2, PTL DEF Spec

-----------------------------------------------------------------------------
(* The binary search against the distance around the ring                  *)

\* Without collisions every occurrence of a position in keys is accounted for
\* by a call of AddNode that has not been undone, and a member has the entries
\* of all its positions.
Accounted ==
    NoCollision =>
        /\ \A p \in Positions, n \in Nodes :
              Virtual(vhash, n, p) # {} =>
                  /\ ring.keys[p] = copies[n] * Cardinality(Virtual(vhash, n, p))
                  /\ n \in member => ring.hashMap[p] = n
        /\ \A p \in Positions : (\A n \in Nodes : Virtual(vhash, n, p) = {}) => ring.keys[p] = 0

Counted == \A n \in member : copies[n] >= 1

LEMMA Multiples ==
    ASSUME NEW a \in Nat, NEW c \in Nat
    PROVE  /\ a * c \in Nat /\ 0 * c = 0 /\ (a + 1) * c = a * c + c
           /\ a >= 1 => (a - 1) * c = a * c - c /\ a * c >= c
  OBVIOUS

LEMMA InitAccounted == Init => Accounted /\ Counted
<1> SUFFICES ASSUME Init PROVE Accounted /\ Counted
  OBVIOUS
<1>1. \A p \in Positions, n \in Nodes : 0 * Cardinality(Virtual(vhash, n, p)) = 0
  BY VirtualCount, Multiples
<1>2. \A p \in Positions : ring.keys[p] = 0
  BY DEF Init, New
<1>3. member = {} /\ \A n \in Nodes : copies[n] = 0
  BY DEF Init
<1> QED
  BY <1>1, <1>2, <1>3 DEF Accounted, Counted

LEMMA AddAccounted ==
    ASSUME IInv, Accounted, Counted, NEW n \in Nodes, Add(n)
    PROVE  Accounted' /\ Counted'
<1>1. /\ TypeOK /\ vhash' = vhash /\ member' = member \cup {n}
      /\ copies[n] \in Nat /\ copies'[n] = copies[n] + 1
      /\ \A m \in Nodes : m # n => copies'[m] = copies[m]
  BY DEF IInv, Add, TypeOK
<1>2. Counted'
  BY <1>1 DEF Counted, TypeOK
<1>3. \A p \in Positions :
         /\ ring'.keys[p] = ring.keys[p] + Cardinality(Virtual(vhash, n, p))
         /\ ring'.hashMap[p] = IF Virtual(vhash, n, p) # {} THEN n ELSE ring.hashMap[p]
         /\ ring.keys[p] \in Nat
  BY <1>1 DEF Add, AddNode, TypeOK, Rings
<1>4. ASSUME NoCollision, NEW p \in Positions, NEW m \in Nodes, Virtual(vhash, m, p) # {}
      PROVE  /\ ring'.keys[p] = copies'[m] * Cardinality(Virtual(vhash, m, p))
             /\ m \in member' => ring'.hashMap[p] = m
  <2> DEFINE c == Cardinality(Virtual(vhash, m, p))
  <2>1. c \in Nat
    BY VirtualCount
  <2>2. ring.keys[p] = copies[m] * c /\ (m \in member => ring.hashMap[p] = m)
    BY <1>4 DEF Accounted
  <2>3. CASE m = n
    <3>1. (copies[n] + 1) * c = copies[n] * c + c
      BY <1>1, <2>1, Multiples
    <3> HIDE DEF c
    <3> QED
      BY <1>1, <1>3, <1>4, <2>2, <2>3, <3>1 DEF c
  <2>4. CASE m # n
    <3>1. Virtual(vhash, n, p) = {}
      BY <1>4, <2>4 DEF NoCollision
    <3>2. Cardinality(Virtual(vhash, n, p)) = 0
      BY <3>1, VirtualCount
    <3> HIDE DEF c
    <3>3. ring'.keys[p] = ring.keys[p]
      BY <1>3, <3>2
    <3> QED
      BY <1>1, <1>3, <2>2, <2>4, <3>1, <3>3 DEF c
  <2> QED
    BY <2>3, <2>4
<1>5. ASSUME NoCollision, NEW p \in Positions, \A m \in Nodes : Virtual(vhash, m, p) = {}
      PROVE  ring'.keys[p] = 0
  <2>1. ring.keys[p] = 0 /\ Cardinality(Virtual(vhash, n, p)) = 0
    BY <1>5, VirtualCount DEF Accounted
  <2> QED
    BY <1>3, <2>1
<1>6. NoCollision' <=> NoCollision
  BY <1>1 DEF NoCollision
<1> QED
  BY <1>1, <1>2, <1>4, <1>5, <1>6 DEF Accounted

LEMMA RemoveAccounted ==
    ASSUME IInv, Accounted, Counted, NEW n \in Nodes, Remove(n)
    PROVE  Accounted' /\ Counted'
<1>1. /\ TypeOK /\ vhash' = vhash /\ member' = member \ {n} /\ member \subseteq Nodes
      /\ copies[n] \in Nat /\ copies'[n] = IF copies[n] = 0 THEN 0 ELSE copies[n] - 1
      /\ \A m \in Nodes : m # n => copies'[m] = copies[m]
  BY DEF IInv, Remove, TypeOK
<1>2. Counted'
  BY <1>1 DEF Counted
<1> DEFINE left(p) == ring.keys[p] - Cardinality(Virtual(vhash, n, p))
<1>3. \A p \in Positions :
         /\ ring'.keys[p] = IF left(p) < 0 THEN 0 ELSE left(p)
         /\ ring'.hashMap[p] = IF Virtual(vhash, n, p) # {} THEN None ELSE ring.hashMap[p]
         /\ ring.keys[p] \in Nat
  BY <1>1 DEF Remove, RemoveNode, TypeOK, Rings
<1>4. ASSUME NoCollision, NEW p \in Positions, NEW m \in Nodes, Virtual(vhash, m, p) # {}
      PROVE  /\ ring'.keys[p] = copies'[m] * Cardinality(Virtual(vhash, m, p))
             /\ m \in member' => ring'.hashMap[p] = m
  <2> DEFINE c == Cardinality(Virtual(vhash, m, p))
  <2>1. c \in Nat /\ c > 0
    BY <1>4, VirtualCount
  <2>2. ring.keys[p] = copies[m] * c /\ (m \in member => ring.hashMap[p] = m)
    BY <1>4 DEF Accounted
  <2>3. CASE m = n
    <3>1. /\ 0 * c = 0
          /\ copies[n] >= 1 => (copies[n] - 1) * c = copies[n] * c - c /\ copies[n] * c >= c
      BY <1>1, <2>1, Multiples
    <3>2. ring'.keys[p] = IF ring.keys[p] - c < 0 THEN 0 ELSE ring.keys[p] - c
      BY <1>3, <2>3
    <3> HIDE DEF c
    <3>3. ring'.keys[p] = copies'[m] * c
      <4>1. CASE copies[n] = 0
        BY <1>1, <2>1, <2>2, <2>3, <3>1, <3>2, <4>1
      <4>2. CASE copies[n] >= 1
        <5>1. copies'[m] = copies[n] - 1
          BY <1>1, <2>3, <4>2
        <5> QED
          BY <1>3, <2>1, <2>2, <2>3, <3>1, <3>2, <4>2, <5>1
      <4> QED
        BY <1>1, <4>1, <4>2
    <3> QED
      BY <1>1, <2>3, <3>3 DEF c
  <2>4. CASE m # n
    <3>1. Virtual(vhash, n, p) = {}
      BY <1>4, <2>4 DEF NoCollision
    <3>2. Cardinality(Virtual(vhash, n, p)) = 0
      BY <3>1, VirtualCount
    <3> HIDE DEF c
    <3>3. ring'.keys[p] = ring.keys[p]
      BY <1>3, <3>2
    <3> QED
      BY <1>1, <1>3, <2>2, <2>4, <3>1, <3>3 DEF c
  <2> QED
    BY <2>3, <2>4
<1>5. ASSUME NoCollision, NEW p \in Positions, \A m \in Nodes : Virtual(vhash, m, p) = {}
      PROVE  ring'.keys[p] = 0
  <2>1. ring.keys[p] = 0 /\ Cardinality(Virtual(vhash, n, p)) = 0
    BY <1>5, VirtualCount DEF Accounted
  <2> QED
    BY <1>3, <2>1
<1>6. NoCollision' <=> NoCollision
  BY <1>1 DEF NoCollision
<1> QED
  BY <1>1, <1>2, <1>4, <1>5, <1>6 DEF Accounted

LEMMA Accounting == Spec => [](Accounted /\ Counted)
<1>1. IInv /\ (Accounted /\ Counted) /\ [Next]_vars => (Accounted /\ Counted)'
  <2> SUFFICES ASSUME IInv, Accounted, Counted, [Next]_vars PROVE (Accounted /\ Counted)'
    OBVIOUS
  <2>1. CASE Next
    BY <2>1, AddAccounted, RemoveAccounted DEF Next
  <2>2. CASE UNCHANGED vars
    BY <2>2 DEF vars, Accounted, Counted, NoCollision
  <2> QED
    BY <2>1, <2>2
<1> QED
  BY Invariance, InitAccounted, <1>1, PTL DEF Spec

\* How far position p is clockwise from h
Around(p, h) == (p - h + HashSize) % HashSize

LEMMA AroundIs ==
    ASSUME NEW p \in Positions, NEW h \in Positions
    PROVE  /\ Around(p, h) \in Positions
           /\ Around(p, h) = IF p >= h THEN p - h ELSE p - h + HashSize
<1>1. HashSize \in Nat /\ HashSize > 0
  BY RingAssumption
<1>2. p \in Nat /\ p < HashSize /\ h \in Nat /\ h < HashSize
  BY <1>1 DEF Positions
<1>3. \A a \in Nat : /\ a < HashSize => a % HashSize = a
                     /\ a >= HashSize /\ a < HashSize + HashSize => a % HashSize = a - HashSize
  BY <1>1
<1>4. p - h + HashSize \in Nat /\ p - h + HashSize < HashSize + HashSize
  BY <1>1, <1>2
<1> QED
  BY <1>1, <1>2, <1>3, <1>4 DEF Around, Positions

\* The position GetNode stops at is the nearest one clockwise.
LEMMA StopNearest ==
    ASSUME NEW r, NEW h \in Positions, NEW q \in Taken(r)
    PROVE  Around(Stop(r, h), h) <= Around(q, h)
<1> DEFINE after == {p \in Taken(r) : p >= h}
           s == Stop(r, h)
<1>1. Taken(r) \in SUBSET Positions /\ after \in SUBSET Positions /\ Positions \subseteq Nat
  BY RingAssumption DEF Taken, Positions
<1>2. CASE after # {}
  <2>1. s \in after /\ \A p \in after : s <= p
    BY <1>1, <1>2, LeastExists DEF Stop
  <2>2. Around(s, h) = s - h
    BY <1>1, <2>1, AroundIs
  <2>3. CASE q >= h
    <3>1. Around(q, h) = q - h /\ s <= q
      BY <1>1, <2>1, <2>3, AroundIs
    <3>2. s \in Nat /\ q \in Nat /\ h \in Nat
      BY <1>1, <2>1
    <3> HIDE DEF s
    <3> QED
      BY <2>2, <3>1, <3>2 DEF s
  <2>4. CASE ~(q >= h)
    <3>1. Around(q, h) = q - h + HashSize
      BY <1>1, <2>4, AroundIs
    <3>2. s < HashSize /\ s \in Nat /\ q \in Nat /\ h \in Nat /\ HashSize \in Nat
      BY <1>1, <2>1, RingAssumption DEF Positions
    <3> QED
      BY <2>2, <3>1, <3>2
  <2> QED
    BY <2>3, <2>4
<1>3. CASE after = {}
  <2>1. s \in Taken(r) /\ \A p \in Taken(r) : s <= p
    BY <1>1, <1>3, LeastExists DEF Stop
  <2>2. ~(s >= h) /\ ~(q >= h)
    BY <1>3, <2>1
  <2>3. Around(s, h) = s - h + HashSize /\ Around(q, h) = q - h + HashSize /\ s <= q
    BY <1>1, <2>1, <2>2, AroundIs
  <2>4. s \in Nat /\ q \in Nat /\ h \in Nat /\ HashSize \in Nat
    BY <1>1, <2>1, RingAssumption
  <2> HIDE DEF s
  <2> QED
    BY <2>3, <2>4 DEF s
<1> QED
  BY <1>2, <1>3

\* The distance of a server is that of one of its virtual nodes, and no other
\* is nearer.
LEMMA DistanceIs ==
    ASSUME TypeOK, NEW n \in Nodes, NEW h \in Positions
    PROVE  /\ \E i \in 1 .. Replicas : Distance(n, h) = Around(vhash[n][i], h)
           /\ \A i \in 1 .. Replicas : Distance(n, h) <= Around(vhash[n][i], h)
           /\ \A i \in 1 .. Replicas : vhash[n][i] \in Positions
<1> DEFINE S == {Around(vhash[n][i], h) : i \in 1 .. Replicas}
<1>1. \A i \in 1 .. Replicas : vhash[n][i] \in Positions
  BY HashRingAssumption DEF TypeOK
<1>2. S \in SUBSET Positions
  BY <1>1, AroundIs
<1>3. S # {}
  BY RingAssumption
<1>4. Distance(n, h) = Least(S)
  BY DEF Distance, Around
<1>5. Least(S) \in S /\ \A d \in S : Least(S) <= d
  BY <1>2, <1>3, LeastExists
<1> QED
  BY <1>1, <1>4, <1>5

LEMMA ClockwiseHolds == IInv /\ Accounted /\ Counted => FirstClockwise
<1> SUFFICES ASSUME IInv, Accounted, Counted, NoCollision, Balanced, NEW h \in Positions
             PROVE  IF member = {} THEN Owner(h) = None
                    ELSE /\ Owner(h) \in member
                         /\ \A n \in member : Distance(Owner(h), h) <= Distance(n, h)
  BY DEF FirstClockwise
<1>1. TypeOK /\ member \subseteq Nodes /\ \A n \in Nodes : copies[n] \in Nat
  BY DEF IInv, TypeOK
<1>2. ASSUME NEW p \in Taken(ring)
      PROVE  \E m \in member : Virtual(vhash, m, p) # {} /\ ring.hashMap[p] = m
  <2>1. p \in Positions /\ ring.keys[p] > 0
    BY DEF Taken
  <2>2. PICK m \in Nodes : Virtual(vhash, m, p) # {}
    BY <2>1 DEF Accounted
  <2>3. ring.keys[p] = copies[m] * Cardinality(Virtual(vhash, m, p))
    BY <2>1, <2>2 DEF Accounted
  <2>4. copies[m] # 0
    <3> SUFFICES ASSUME copies[m] = 0 PROVE FALSE
      OBVIOUS
    <3>1. 0 * Cardinality(Virtual(vhash, m, p)) = 0
      BY VirtualCount, Multiples
    <3> QED
      BY <2>1, <2>3, <3>1
  <2>5. m \in member
    BY <2>4 DEF Balanced
  <2> QED
    BY <2>1, <2>2, <2>5 DEF Accounted
<1>3. ASSUME NEW n \in member, NEW i \in 1 .. Replicas
      PROVE  vhash[n][i] \in Taken(ring)
  <2> DEFINE p == vhash[n][i]
             c == Cardinality(Virtual(vhash, n, p))
  <2>1. p \in Positions
    BY <1>1, DistanceIs
  <2>2. Virtual(vhash, n, p) # {}
    BY DEF Virtual
  <2>3. c \in Nat /\ c > 0
    BY <2>2, VirtualCount
  <2>4. copies[n] \in Nat /\ copies[n] >= 1
    BY <1>1 DEF Counted
  <2>5. ring.keys[p] = copies[n] * c
    BY <1>1, <2>1, <2>2 DEF Accounted
  <2>6. copies[n] * c >= c /\ copies[n] * c \in Nat
    BY <2>3, <2>4, Multiples
  <2> HIDE DEF c
  <2>7. ring.keys[p] > 0
    BY <2>3, <2>5, <2>6
  <2> QED
    BY <2>1, <2>7 DEF Taken
<1>4. CASE member = {}
  <2>1. Taken(ring) = {}
    BY <1>2, <1>4
  <2> QED
    BY <1>4, <2>1 DEF Owner, GetNode, IsEmpty
<1>5. CASE member # {}
  <2> DEFINE s == Stop(ring, h)
             o == Owner(h)
  <2>1. ~IsEmpty(ring)
    BY <1>3, <1>5, RingAssumption DEF IsEmpty
  <2>2. s \in Taken(ring) /\ o = ring.hashMap[s]
    BY <2>1, StopTaken DEF Owner
  <2>3. o \in member /\ Virtual(vhash, o, s) # {}
    BY <1>2, <2>2
  <2>4. PICK i \in 1 .. Replicas : vhash[o][i] = s
    BY <2>3 DEF Virtual
  <2> HIDE DEF s, o
  <2>5. o \in Nodes /\ Distance(o, h) <= Around(s, h)
    BY <1>1, <2>3, <2>4, DistanceIs
  <2>6. ASSUME NEW n \in member
        PROVE  Distance(o, h) <= Distance(n, h)
    <3>1. n \in Nodes
      BY <1>1
    <3>2. PICK j \in 1 .. Replicas : Distance(n, h) = Around(vhash[n][j], h)
      BY <1>1, <3>1, DistanceIs
    <3>3. vhash[n][j] \in Taken(ring)
      BY <1>3
    <3>4. Around(s, h) <= Around(vhash[n][j], h)
      BY <3>3, StopNearest DEF s
    <3>5. PICK k \in 1 .. Replicas : Distance(o, h) = Around(vhash[o][k], h)
      BY <1>1, <2>5, DistanceIs
    <3>6. \A p \in Taken(ring) : Around(p, h) \in Int
      <4>1. Taken(ring) \subseteq Positions /\ Positions \subseteq Int
        BY DEF Taken, Positions
      <4> QED
        BY <4>1, AroundIs
    <3>7. vhash[o][k] \in Taken(ring) /\ s \in Taken(ring)
      BY <1>3, <2>2, <2>3 DEF s, o
    <3> QED
      BY <2>5, <3>2, <3>3, <3>4, <3>5, <3>6, <3>7
  <2> QED
    BY <1>5, <2>3, <2>6 DEF o
<1> QED
  BY <1>4, <1>5

\* GetNode names the server whose virtual node is the first clockwise from the
\* key, for every ring without collisions whose removals are balanced: the
\* binary search and its wrap agree with the distance around the ring, and the
\* positions left in keys are those of the members.
THEOREM SearchIsClockwise == Spec => []FirstClockwise
  BY Invariance, Accounting, ClockwiseHolds, PTL
=============================================================================
