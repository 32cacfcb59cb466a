---------------------------- MODULE ProxyProofs ----------------------------
(***************************************************************************)
(* Theorems about Proxy, for every number of servers, keys and values,     *)
(* every hash function, everything a transfer can do to a value, and for   *)
(* every bound.                                                            *)
(***************************************************************************)
EXTENDS Proxy, FiniteSetTheorems, WellFoundedInduction, SequenceTheorems, TLAPS

(* The operations of the ring the proxy uses (HashRingProofs has the rest)  *)

\* Every set of natural numbers that is not empty has a smallest member.
LEMMA LeastNatural ==
    ASSUME NEW S \in SUBSET Nat, S # {}
    PROVE  \E p \in S : \A q \in S : p <= q
<1> DEFINE R == OpToRel(<, Nat)
<1>1. PICK p \in S : \A q \in S : ~ (<<q, p>> \in R)
  BY NatLessThanWellFounded, WFMin, Zenon
<1>2. \A q \in S : q < p => <<q, p>> \in R
  BY Zenon DEF OpToRel
<1> HIDE DEF R
<1>3. \A q \in S : ~(q < p)
  BY <1>1, <1>2
<1>4. \A q \in S : p <= q
  BY <1>3
<1> QED
  BY <1>4

\* The minimum the binary search of GetNode looks for exists.
LEMMA LeastExists ==
    ASSUME NEW S \in SUBSET Positions, S # {}
    PROVE  Least(S) \in S /\ \A q \in S : Least(S) <= q
<1>1. S \in SUBSET Nat
  BY RingAssumption DEF Positions
<1>2. \E p \in S : \A q \in S : p <= q
  BY <1>1, LeastNatural
<1> QED
  BY <1>2 DEF Least

\* A minimum is unique.
LEMMA LeastUnique ==
    ASSUME NEW S \in SUBSET Positions, NEW p \in S, \A q \in S : p <= q
    PROVE  Least(S) = p
<1>1. Least(S) \in S /\ \A q \in S : Least(S) <= q
  BY LeastExists
<1>2. S \subseteq Int
  BY RingAssumption DEF Positions
<1>3. Least(S) <= p /\ p <= Least(S)
  BY <1>1
<1>4. \A x, y \in Int : x <= y /\ y <= x => x = y
  OBVIOUS
<1>5. Least(S) \in Int /\ p \in Int
  BY <1>1, <1>2, Zenon
<1> QED
  BY <1>3, <1>4, <1>5, Zenon

\* A server has finitely many virtual nodes at a position.
LEMMA VirtualCount ==
    ASSUME NEW vh, NEW n, NEW p
    PROVE  /\ Cardinality(Virtual(vh, n, p)) \in Nat
           /\ Virtual(vh, n, p) = {} <=> Cardinality(Virtual(vh, n, p)) = 0
<1>1. IsFiniteSet(1 .. Replicas)
  BY RingAssumption, FS_Interval
<1>2. IsFiniteSet(Virtual(vh, n, p))
  BY <1>1, FS_Subset DEF Virtual
<1> QED
  BY <1>2, FS_CardinalityType, FS_EmptySet

\* The position GetNode stops at: the first at or after h, or the first of all.
Stop(r, h) ==
    LET after == {p \in Taken(r) : p >= h}
    IN  Least(IF after # {} THEN after ELSE Taken(r))

\* GetNode returns the entry of a position that occurs in keys.
LEMMA StopTaken ==
    ASSUME NEW r, NEW h \in Positions, ~IsEmpty(r)
    PROVE  Stop(r, h) \in Taken(r) /\ GetNode(r, h) = r.hashMap[Stop(r, h)]
<1> DEFINE after == {p \in Taken(r) : p >= h}
<1>1. Taken(r) \in SUBSET Positions /\ Taken(r) # {}
  BY DEF Taken, IsEmpty
<1>2. after \in SUBSET Positions
  BY <1>1
<1>3. Least(IF after # {} THEN after ELSE Taken(r)) \in Taken(r)
  <2>1. CASE after # {}
    BY <2>1, <1>2, LeastExists
  <2>2. CASE after = {}
    BY <2>2, <1>1, LeastExists
  <2> QED
    BY <2>1, <2>2
<1> QED
  BY <1>3 DEF Stop, GetNode

\* The search stops at the same position of two rings when that of the larger
\* one is in the smaller.
LEMMA SameStop ==
    ASSUME NEW r, NEW s, NEW h \in Positions,
           Taken(r) \subseteq Taken(s), ~IsEmpty(s), Stop(s, h) \in Taken(r)
    PROVE  Stop(r, h) = Stop(s, h)
<1> DEFINE ar == {p \in Taken(r) : p >= h}
           as == {p \in Taken(s) : p >= h}
<1>1. /\ Taken(r) \in SUBSET Positions /\ Taken(s) \in SUBSET Positions
      /\ ar \in SUBSET Positions /\ as \in SUBSET Positions /\ ar \subseteq as
  BY DEF Taken
<1>2. CASE as # {}
  <2>1. Stop(s, h) = Least(as)
    BY <1>2 DEF Stop
  <2>2. Stop(s, h) \in as /\ \A q \in as : Stop(s, h) <= q
    BY <2>1, <1>1, <1>2, LeastExists
  <2>3. Stop(s, h) \in ar /\ \A q \in ar : Stop(s, h) <= q
    BY <2>2, <1>1
  <2>4. Least(ar) = Stop(s, h)
    BY <2>3, <1>1, LeastUnique
  <2> QED
    BY <2>3, <2>4 DEF Stop
<1>3. CASE as = {}
  <2>1. ar = {}
    BY <1>3, <1>1
  <2>2. Stop(s, h) = Least(Taken(s)) /\ Stop(r, h) = Least(Taken(r))
    BY <1>3, <2>1 DEF Stop
  <2>3. \A q \in Taken(s) : Stop(s, h) <= q
    BY <2>2, <1>1, LeastExists DEF IsEmpty
  <2>4. Least(Taken(r)) = Stop(s, h)
    BY <2>3, <1>1, LeastUnique
  <2> QED
    BY <2>2, <2>4
<1> QED
  BY <1>2, <1>3

\* What AddNode makes of a ring: the positions of the new server lead to it, and
\* the others to whom they led before.
LEMMA AddNodeEntries ==
    ASSUME NEW r \in Rings, NEW vh, NEW n \in Nodes
    PROVE  /\ AddNode(r, vh, n) \in Rings
           /\ Taken(r) \subseteq Taken(AddNode(r, vh, n))
           /\ \A p \in Positions :
                 IF Virtual(vh, n, p) # {}
                 THEN AddNode(r, vh, n).hashMap[p] = n /\ p \in Taken(AddNode(r, vh, n))
                 ELSE /\ AddNode(r, vh, n).hashMap[p] = r.hashMap[p]
                      /\ p \in Taken(AddNode(r, vh, n)) <=> p \in Taken(r)
<1> DEFINE a == AddNode(r, vh, n)
<1>1. r.keys \in [Positions -> Nat] /\ r.hashMap \in [Positions -> Nodes \cup {None}]
  BY DEF Rings
<1>2. \A p : /\ Cardinality(Virtual(vh, n, p)) \in Nat
             /\ Virtual(vh, n, p) = {} <=> Cardinality(Virtual(vh, n, p)) = 0
  BY VirtualCount
<1>3. a \in Rings
  BY <1>1, <1>2 DEF AddNode, Rings
<1>4. \A p \in Positions :
         /\ a.keys[p] = r.keys[p] + Cardinality(Virtual(vh, n, p))
         /\ a.hashMap[p] = IF Virtual(vh, n, p) # {} THEN n ELSE r.hashMap[p]
  BY DEF AddNode
<1>5. \A p \in Positions : r.keys[p] \in Nat
  BY <1>1
<1> HIDE DEF a
<1>6. \A p \in Positions : p \in Taken(a) <=> r.keys[p] > 0 \/ Virtual(vh, n, p) # {}
  BY <1>2, <1>4, <1>5 DEF Taken
<1>7. \A p \in Positions : p \in Taken(r) <=> r.keys[p] > 0
  BY DEF Taken
<1>8. Taken(r) \subseteq Positions /\ Taken(a) \subseteq Positions
  BY DEF Taken
<1> QED
  BY <1>3, <1>4, <1>6, <1>7, <1>8 DEF a

\* A key is routed to a server, or nowhere.
LEMMA GetNodeTyped ==
    ASSUME NEW r \in Rings, NEW h \in Positions
    PROVE  GetNode(r, h) \in Nodes \cup {None}
<1>1. CASE IsEmpty(r)
  BY <1>1 DEF GetNode
<1>2. CASE ~IsEmpty(r)
  <2>1. Stop(r, h) \in Positions /\ GetNode(r, h) = r.hashMap[Stop(r, h)]
    BY <1>2, StopTaken DEF Taken
  <2> QED
    BY <2>1 DEF Rings
<1> QED
  BY <1>1, <1>2

\* Adding a server takes keys for it only, whatever positions collide.
LEMMA AddNodeMoves ==
    ASSUME NEW r \in Rings, NEW vh, NEW n \in Nodes, NEW h \in Positions
    PROVE  GetNode(AddNode(r, vh, n), h) \in {n, GetNode(r, h)}
<1> DEFINE a == AddNode(r, vh, n)
           p == Stop(a, h)
<1>1. /\ Taken(r) \subseteq Taken(a)
      /\ \A q \in Positions :
            IF Virtual(vh, n, q) # {} THEN a.hashMap[q] = n
            ELSE a.hashMap[q] = r.hashMap[q] /\ (q \in Taken(a) <=> q \in Taken(r))
  BY AddNodeEntries
<1> HIDE DEF a
<1>2. CASE IsEmpty(a)
  <2>1. IsEmpty(r)
    BY <1>1, <1>2 DEF IsEmpty
  <2> QED
    BY <1>2, <2>1 DEF GetNode, a
<1>3. CASE ~IsEmpty(a)
  <2>1. p \in Taken(a) /\ p \in Positions /\ GetNode(a, h) = a.hashMap[p]
    BY <1>3, StopTaken DEF Taken
  <2>2. CASE Virtual(vh, n, p) # {}
    BY <1>1, <2>1, <2>2 DEF a
  <2>3. CASE Virtual(vh, n, p) = {}
    <3>1. a.hashMap[p] = r.hashMap[p] /\ p \in Taken(r)
      BY <1>1, <2>1, <2>3
    <3>2. ~IsEmpty(r) /\ Stop(r, h) = p
      BY <1>1, <1>3, <3>1, SameStop DEF IsEmpty
    <3>3. GetNode(r, h) = r.hashMap[p]
      BY <3>2, StopTaken
    <3> QED
      BY <2>1, <3>1, <3>3 DEF a
  <2> QED
    BY <2>2, <2>3
<1> QED
  BY <1>2, <1>3
-----------------------------------------------------------------------------
(* The inductive invariant                                                 *)

Moving == {"fetch", "key", "get", "put", "delete"}
Pcs == {"idle", "add", "done"} \cup Moving

MigStates ==
    [pc : Pcs, new : Nodes \cup {None}, olds : Seq(Nodes), keys : SUBSET Keys, key : Keys \cup {None}, val : Copies]

\* What a handler of /add-node and its goroutine hold at each of their steps
Phase(r) ==
    /\ r.pc \in {"add"} \cup Moving => r.new \in Nodes
    /\ r.pc \in {"key", "get", "put", "delete"} => r.olds # <<>>
    /\ r.pc \in {"get", "put", "delete"} => r.key \in Keys
    /\ r.pc \in {"put", "delete"} => r.val # None

MigTyped == mig \in [Migrations -> MigStates] /\ \A i \in Migrations : Phase(mig[i])

Started == {i \in Migrations : mig[i].pc \notin {"idle", "add"}}

DataTyped ==
    /\ ring \in Rings
    /\ nodes \in Seq(Nodes)
    /\ db \in [Nodes -> [Keys -> Copies]]
    /\ pending \subseteq [key : Keys, val : Copies, target : Nodes]
    /\ last \in [Keys -> Copies] /\ dirty \subseteq Keys /\ redel \subseteq dirty

\* The types, and that every server after the first ones was added by a request
TInv == DataTyped /\ MigTyped /\ Len(nodes) = Len(Initial) + Cardinality(Started)

-----------------------------------------------------------------------------
\* What the constants are, as single facts
LEMMA Constants ==
    /\ VHash \in [Nodes -> [1 .. Replicas -> Positions]] /\ KHash \in [Keys -> Positions]
    /\ None \notin Values /\ None \notin Nodes
    /\ Transfer \in [Values -> Copies] /\ Parts \in [Values -> SUBSET Values]
    /\ Initial \in Seq(Nodes) /\ Len(Initial) \in Nat
    /\ Joining \subseteq Nodes /\ MaxAdds \in Nat
  BY ProxyAssumption, RingAssumption, LenProperties DEF Copies

LEMMA NewTyped == New \in Rings
  BY DEF New, Rings

\* The loop of NewProxy over -nodes, unfolded: ring after ring, as far as there
\* are servers
Unfolds(n, f) ==
    f = [m \in 0 .. n |-> IF m = 0 THEN New ELSE AddNode(f[m - 1], VHash, Initial[m])]

LEMMA RingsExist == \A n \in 0 .. Len(Initial) : \E f \in [0 .. n -> Rings] : Unfolds(n, f)
  <1> DEFINE S == {n \in 0 .. Len(Initial) : ~\E f \in [0 .. n -> Rings] : Unfolds(n, f)}
  <1> SUFFICES ASSUME S # {} PROVE FALSE
    OBVIOUS
  <1>1. S \in SUBSET Nat
    BY Constants
  <1>2. PICK n \in S : \A q \in S : n <= q
    BY <1>1, LeastNatural, Zenon
  <1>3. n \in Nat /\ n <= Len(Initial) /\ ~\E f \in [0 .. n -> Rings] : Unfolds(n, f)
    BY Constants
  <1>4. CASE n = 0
    <2> DEFINE f == [m \in 0 .. 0 |-> New]
    <2>1. f \in [0 .. 0 -> Rings]
      BY NewTyped
    <2>2. f = [m \in 0 .. 0 |-> IF m = 0 THEN New ELSE AddNode(f[m - 1], VHash, Initial[m])]
      OBVIOUS
    <2>3. Unfolds(0, f)
      BY <2>2, Zenon DEF Unfolds
    <2> QED BY <1>3, <1>4, <2>1, <2>3, Zenon
  <1>5. CASE n # 0
    <2>1. n - 1 \in 0 .. Len(Initial) /\ n - 1 \notin S
      <3>1. n - 1 \in 0 .. Len(Initial) /\ ~(n <= n - 1)
        BY <1>3, <1>5, Constants
      <3> HIDE DEF S
      <3> QED BY <1>2, <3>1
    <2>2. PICK f \in [0 .. n - 1 -> Rings] : Unfolds(n - 1, f)
      BY <2>1
    <2> DEFINE a == AddNode(f[n - 1], VHash, Initial[n])
               g == [m \in 0 .. n |-> IF m = n THEN a ELSE f[m]]
    <2>3. n - 1 \in 0 .. n - 1 /\ n \in 1 .. Len(Initial)
      BY <1>3, <1>5
    <2>4. a \in Rings
      <3>1. f[n - 1] \in Rings /\ Initial[n] \in Nodes
        BY <2>3, Constants, ElementOfSeq
      <3> QED BY <3>1, AddNodeEntries
    <2>5. f = [m \in 0 .. n - 1 |-> IF m = 0 THEN New ELSE AddNode(f[m - 1], VHash, Initial[m])]
      BY <2>2, Zenon DEF Unfolds
    <2> HIDE DEF a
    <2>6. g \in [0 .. n -> Rings]
      BY <1>3, <2>4
    <2>7. \A m \in 0 .. n : g[m] = IF m = 0 THEN New ELSE AddNode(g[m - 1], VHash, Initial[m])
      <3> SUFFICES ASSUME NEW m \in 0 .. n
                   PROVE  g[m] = IF m = 0 THEN New ELSE AddNode(g[m - 1], VHash, Initial[m])
        OBVIOUS
      <3>1. CASE m = n
        <4>1. g[m] = a /\ g[m - 1] = f[n - 1] /\ m # 0
          BY <1>3, <1>5, <3>1
        <4> QED BY <3>1, <4>1 DEF a
      <3>2. CASE m # n
        <4>1. m \in 0 .. n - 1 /\ g[m] = f[m]
          BY <1>3, <3>2
        <4>2. m # 0 => g[m - 1] = f[m - 1]
          BY <1>3, <3>2
        <4> QED BY <2>5, <4>1, <4>2
      <3> QED BY <3>1, <3>2
    <2> HIDE DEF g
    <2>8. g = [m \in 0 .. n |-> IF m = 0 THEN New ELSE AddNode(g[m - 1], VHash, Initial[m])]
      BY <2>6, <2>7
    <2>9. Unfolds(n, g)
      BY <2>8, Zenon DEF Unfolds
    <2> QED BY <1>3, <2>6, <2>9, Zenon
  <1> QED BY <1>4, <1>5

\* Rings whose entries are servers of the list s
RingsOf(s) == {r \in Rings : \A p \in Positions : r.hashMap[p] = None \/ \E j \in 1 .. Len(s) : s[j] = r.hashMap[p]}

LEMMA AddNodeOf ==
    ASSUME NEW s \in Seq(Nodes), NEW r \in RingsOf(s), NEW j \in 1 .. Len(s)
    PROVE  AddNode(r, VHash, s[j]) \in RingsOf(s)
  <1> DEFINE n == s[j]
             a == AddNode(r, VHash, n)
  <1>1. r \in Rings /\ n \in Nodes
    BY ElementOfSeq DEF RingsOf
  <1>2. a \in Rings /\ \A p \in Positions : a.hashMap[p] \in {n, r.hashMap[p]}
    BY <1>1, AddNodeEntries
  <1> HIDE DEF a
  <1>3. \A p \in Positions : a.hashMap[p] = None \/ \E q \in 1 .. Len(s) : s[q] = a.hashMap[p]
    BY <1>2 DEF RingsOf
  <1>4. a \in RingsOf(s)
    BY <1>2, <1>3 DEF RingsOf
  <1> QED BY <1>4 DEF a

\* NewProxy starts with a ring of the servers it was given.
LEMMA InitialRingTyped == InitialRing \in RingsOf(Initial)
  <1> DEFINE L == Len(Initial)
             rings == CHOOSE f : f = [m \in 0 .. L |-> IF m = 0 THEN New ELSE AddNode(f[m - 1], VHash, Initial[m])]
  <1>1. InitialRing = rings[L]
    BY DEF InitialRing
  <1>2. L \in Nat
    BY Constants
  <1>3. \E f : f = [m \in 0 .. L |-> IF m = 0 THEN New ELSE AddNode(f[m - 1], VHash, Initial[m])]
    <2>1. L \in 0 .. L
      BY <1>2
    <2> QED BY <2>1, RingsExist, Zenon DEF Unfolds
  <1>4. rings = [m \in 0 .. L |-> IF m = 0 THEN New ELSE AddNode(rings[m - 1], VHash, Initial[m])]
    BY <1>3, Zenon
  <1> HIDE DEF rings
  <1>5. \A m \in 0 .. L : rings[m] = IF m = 0 THEN New ELSE AddNode(rings[m - 1], VHash, Initial[m])
    BY <1>4
  <1> DEFINE S == {m \in 0 .. L : rings[m] \notin RingsOf(Initial)}
  <1>6. S = {}
    <2> SUFFICES ASSUME S # {} PROVE FALSE
      OBVIOUS
    <2>1. S \in SUBSET Nat
      BY <1>2
    <2>2. PICK m \in S : \A q \in S : m <= q
      BY <2>1, LeastNatural, Zenon
    <2>3. m \in 0 .. L /\ rings[m] \notin RingsOf(Initial)
      OBVIOUS
    <2>4. m # 0
      BY <1>2, <1>5, <2>3, NewTyped DEF RingsOf, New
    <2>5. m - 1 \in 0 .. L /\ m - 1 \notin S
      BY <1>2, <2>2, <2>3, <2>4
    <2>6. rings[m - 1] \in RingsOf(Initial) /\ m \in 1 .. Len(Initial)
      BY <2>3, <2>4, <2>5, <1>2
    <2>7. rings[m] = AddNode(rings[m - 1], VHash, Initial[m])
      BY <1>5, <2>3, <2>4
    <2> QED BY <2>3, <2>6, <2>7, AddNodeOf, Constants
  <1>7. L \in 0 .. L
    BY <1>2
  <1> QED BY <1>1, <1>6, <1>7

\* A key that is routed is routed to a server.
LEMMA OwnerTyped == ASSUME DataTyped, NEW k \in Keys PROVE Owner(k) \in Nodes \cup {None}
  <1>1. KHash[k] \in Positions
    BY Constants
  <1> QED BY <1>1, GetNodeTyped DEF Owner, DataTyped

LEMMA InitTypes == Init => TInv
  <1> SUFFICES ASSUME Init PROVE TInv
    OBVIOUS
  <1>1. DataTyped
    BY InitialRingTyped, Constants DEF Init, DataTyped, Copies, RingsOf
  <1>2. \A i \in Migrations : mig[i].pc = "idle"
    BY DEF Init
  <1>3. MigTyped
    <2>1. <<>> \in Seq(Nodes)
      OBVIOUS
    <2>2. [pc |-> "idle", new |-> None, olds |-> <<>>, keys |-> {}, key |-> None, val |-> None] \in MigStates
      BY <2>1 DEF MigStates, Pcs, Copies
    <2>3. mig \in [Migrations -> MigStates]
      BY <2>2 DEF Init
    <2> QED BY <1>2, <2>3 DEF MigTyped, Phase, Moving
  <1>4. Started = {}
    BY <1>2 DEF Started
  <1> QED BY <1>1, <1>3, <1>4, FS_EmptySet, Constants DEF Init, TInv

-----------------------------------------------------------------------------
(* What a step of migrateData does                                         *)

\* Request i alone has changed, and what it holds fits its step.
OnlyOne(i) ==
    /\ mig' \in [Migrations -> MigStates] /\ Phase(mig'[i])
    /\ \A j \in Migrations : j # i => mig'[j] = mig[j]

\* It works for the same new server, on the same servers still to come or on
\* those after the first.
Advances(i) ==
    /\ OnlyOne(i)
    /\ mig'[i].pc \in Moving \ {"delete"} /\ mig'[i].new = mig[i].new
    /\ \/ mig'[i].olds = mig[i].olds
       \/ mig[i].olds # <<>> /\ mig'[i].olds = Tail(mig[i].olds)

LEMMA NextKeyStep ==
    ASSUME MigTyped, NEW i \in Migrations, mig[i].pc \in {"get", "put", "delete"}, NextKey(i)
    PROVE  Advances(i)
  <1> DEFINE x == [mig[i] EXCEPT !.pc = "key", !.key = None, !.val = None]
  <1>1. mig[i] \in MigStates /\ Phase(mig[i])
    BY DEF MigTyped
  <1>2. x \in MigStates /\ x.pc = "key" /\ x.new = mig[i].new /\ x.olds = mig[i].olds
    BY <1>1 DEF MigStates, Pcs, Moving, Copies
  <1>3. mig'[i] = x /\ \A j \in Migrations : j # i => mig'[j] = mig[j]
    BY DEF NextKey, MigTyped
  <1> HIDE DEF x
  <1>4. mig' \in [Migrations -> MigStates]
    BY <1>2, <1>3 DEF NextKey, MigTyped
  <1>5. Phase(x)
    BY <1>1, <1>2 DEF Phase, Moving
  <1> QED BY <1>2, <1>3, <1>4, <1>5 DEF Advances, OnlyOne, Moving

LEMMA NextServerStep ==
    ASSUME MigTyped, NEW i \in Migrations, mig[i].pc \in {"fetch", "key"}, mig[i].olds # <<>>, NextServer(i)
    PROVE  Advances(i)
  <1> DEFINE x == [mig[i] EXCEPT !.pc = "fetch", !.olds = Tail(@), !.keys = {}]
  <1>1. mig[i] \in MigStates /\ Phase(mig[i])
    BY DEF MigTyped
  <1>2. Tail(mig[i].olds) \in Seq(Nodes)
    BY <1>1, HeadTailProperties DEF MigStates
  <1>3. x \in MigStates /\ x.pc = "fetch" /\ x.new = mig[i].new /\ x.olds = Tail(mig[i].olds)
    BY <1>1, <1>2 DEF MigStates, Pcs, Moving
  <1>4. mig'[i] = x /\ \A j \in Migrations : j # i => mig'[j] = mig[j]
    BY DEF NextServer, MigTyped
  <1> HIDE DEF x
  <1>5. mig' \in [Migrations -> MigStates]
    BY <1>3, <1>4 DEF NextServer, MigTyped
  <1>6. Phase(x)
    BY <1>1, <1>3 DEF Phase, Moving
  <1> QED BY <1>3, <1>4, <1>5, <1>6 DEF Advances, OnlyOne, Moving

LEMMA FetchKeysStep ==
    ASSUME MigTyped, NEW i \in Migrations, FetchKeys(i)
    PROVE  Advances(i) /\ UNCHANGED <<db, dirty>>
  <1>1. UNCHANGED <<db, dirty>>
    BY DEF FetchKeys
  <1>2. CASE NextServer(i)
    BY <1>1, <1>2, NextServerStep DEF FetchKeys
  <1>3. ASSUME NEW K \in SUBSET Keys, mig' = [mig EXCEPT ![i].pc = "key", ![i].keys = K]
        PROVE  Advances(i)
    <2> DEFINE x == [mig[i] EXCEPT !.pc = "key", !.keys = K]
    <2>1. mig[i] \in MigStates /\ Phase(mig[i]) /\ mig[i].pc = "fetch" /\ mig[i].olds # <<>>
      BY DEF MigTyped, FetchKeys
    <2>3. x \in MigStates /\ x.pc = "key" /\ x.new = mig[i].new /\ x.olds = mig[i].olds
      BY <2>1 DEF MigStates, Pcs, Moving
    <2>4. mig'[i] = x /\ \A j \in Migrations : j # i => mig'[j] = mig[j]
      BY <1>3 DEF MigTyped
    <2> HIDE DEF x
    <2>5. mig' \in [Migrations -> MigStates]
      BY <1>3, <2>3, <2>4 DEF MigTyped
    <2>6. Phase(x)
      BY <2>1, <2>3 DEF Phase, Moving
    <2> QED BY <1>1, <2>3, <2>4, <2>5, <2>6 DEF Advances, OnlyOne, Moving
  <1>4. KeyList(i) \in SUBSET Keys
    BY DEF KeyList
  <1> QED BY <1>1, <1>2, <1>3, <1>4 DEF FetchKeys

LEMMA CheckKeyStep ==
    ASSUME MigTyped, NEW i \in Migrations, CheckKey(i)
    PROVE  Advances(i) /\ UNCHANGED <<db, dirty>>
  <1>0. UNCHANGED <<db, dirty>>
    BY DEF CheckKey
  <1>1. mig[i] \in MigStates /\ Phase(mig[i]) /\ mig[i].pc = "key" /\ mig[i].olds # <<>>
    BY DEF MigTyped, CheckKey, Phase
  <1>2. CASE mig[i].keys = {}
    BY <1>0, <1>1, <1>2, NextServerStep DEF CheckKey
  <1>3. CASE mig[i].keys # {}
    <2>1. PICK k \in mig[i].keys :
             \/ mig' = [mig EXCEPT ![i].keys = @ \ {k}, ![i].pc = "get", ![i].key = k]
             \/ mig' = [mig EXCEPT ![i].keys = @ \ {k}]
      BY <1>3 DEF CheckKey
    <2>2. k \in Keys /\ mig[i].keys \ {k} \in SUBSET Keys
      BY <1>1 DEF MigStates
    <2>3. CASE mig' = [mig EXCEPT ![i].keys = @ \ {k}, ![i].pc = "get", ![i].key = k]
      <3> DEFINE x == [mig[i] EXCEPT !.keys = @ \ {k}, !.pc = "get", !.key = k]
      <3>1. x \in MigStates /\ x.pc = "get" /\ x.new = mig[i].new /\ x.olds = mig[i].olds /\ x.key = k
        BY <1>1, <2>2 DEF MigStates, Pcs, Moving
      <3>2. mig'[i] = x /\ \A j \in Migrations : j # i => mig'[j] = mig[j]
        BY <2>3 DEF MigTyped
      <3> HIDE DEF x
      <3>3. mig' \in [Migrations -> MigStates]
        BY <2>3, <3>1, <3>2 DEF MigTyped
      <3>4. Phase(x)
        BY <1>1, <2>2, <3>1 DEF Phase, Moving
      <3> QED BY <1>0, <3>1, <3>2, <3>3, <3>4 DEF Advances, OnlyOne, Moving
    <2>4. CASE mig' = [mig EXCEPT ![i].keys = @ \ {k}]
      <3> DEFINE x == [mig[i] EXCEPT !.keys = @ \ {k}]
      <3>1. x \in MigStates /\ x.pc = "key" /\ x.new = mig[i].new /\ x.olds = mig[i].olds
        BY <1>1, <2>2 DEF MigStates
      <3>2. mig'[i] = x /\ \A j \in Migrations : j # i => mig'[j] = mig[j]
        BY <2>4 DEF MigTyped
      <3> HIDE DEF x
      <3>3. mig' \in [Migrations -> MigStates]
        BY <2>4, <3>1, <3>2 DEF MigTyped
      <3>4. Phase(x)
        BY <1>1, <3>1 DEF Phase, Moving
      <3> QED BY <1>0, <3>1, <3>2, <3>3, <3>4 DEF Advances, OnlyOne, Moving
    <2> QED BY <2>1, <2>3, <2>4
  <1> QED BY <1>2, <1>3

LEMMA OldTyped ==
    ASSUME MigTyped, NEW i \in Migrations, mig[i].pc \in {"key", "get", "put", "delete"}
    PROVE  Old(i) \in Nodes /\ mig[i].olds \in Seq(Nodes) /\ Len(mig[i].olds) >= 1
           /\ Old(i) = mig[i].olds[1] /\ Len(mig[i].olds) \in Nat
  <1>1. mig[i].olds \in Seq(Nodes) /\ mig[i].olds # <<>>
    BY DEF MigTyped, MigStates, Phase
  <1>2. Len(mig[i].olds) \in Nat /\ Len(mig[i].olds) # 0
    BY <1>1, LenProperties, EmptySeq
  <1> QED BY <1>1, <1>2, HeadTailProperties DEF Old

LEMMA GetValueStep ==
    ASSUME DataTyped, MigTyped, NEW i \in Migrations, GetValue(i)
    PROVE  Advances(i) /\ UNCHANGED <<db, dirty>>
  <1>0. UNCHANGED <<db, dirty>>
    BY DEF GetValue
  <1>1. mig[i] \in MigStates /\ Phase(mig[i]) /\ mig[i].pc = "get" /\ mig[i].key \in Keys
    BY DEF MigTyped, GetValue, Phase
  <1>2. CASE NextKey(i)
    BY <1>0, <1>1, <1>2, NextKeyStep
  <1>3. ASSUME NEW v \in Values, mig' = [mig EXCEPT ![i].pc = "put", ![i].val = v]
        PROVE  Advances(i)
    <2> DEFINE x == [mig[i] EXCEPT !.pc = "put", !.val = v]
    <2>1. x \in MigStates /\ x.pc = "put" /\ x.new = mig[i].new /\ x.olds = mig[i].olds /\ x.key = mig[i].key /\ x.val = v
      BY <1>1 DEF MigStates, Pcs, Moving, Copies
    <2>2. mig'[i] = x /\ \A j \in Migrations : j # i => mig'[j] = mig[j]
      BY <1>3 DEF MigTyped
    <2> HIDE DEF x
    <2>3. mig' \in [Migrations -> MigStates]
      BY <1>3, <2>1, <2>2 DEF MigTyped
    <2>4. Phase(x)
      BY <1>1, <2>1, Constants DEF Phase, Moving
    <2> QED BY <2>1, <2>2, <2>3, <2>4 DEF Advances, OnlyOne, Moving
  <1> DEFINE v == db[Old(i)][mig[i].key]
  <1>4. v \in Copies
    BY <1>1, OldTyped DEF DataTyped
  <1>5. v # None => v \in Values /\ Parts[v] \in SUBSET Values
    BY <1>4, Constants DEF Copies
  <1>6. \/ NextKey(i)
        \/ v # None /\ mig' = [mig EXCEPT ![i].pc = "put", ![i].val = v]
        \/ v # None /\ \E part \in Parts[v] : mig' = [mig EXCEPT ![i].pc = "put", ![i].val = part]
    BY DEF GetValue
  <1> HIDE DEF v
  <1> QED BY <1>0, <1>2, <1>3, <1>5, <1>6

\* The value is taken over, and the goroutine is about to delete it ...
PutDone(i) ==
    /\ OnlyOne(i)
    /\ mig[i].pc = "put" /\ ~Refuses(i) /\ db' = Stored(i) /\ dirty' = dirty
    /\ mig'[i].pc = "delete" /\ mig'[i].new = mig[i].new /\ mig'[i].olds = mig[i].olds /\ mig'[i].key = mig[i].key

\* ... or not, perhaps although it has been.
PutFailed(i) ==
    /\ Advances(i)
    /\ mig[i].pc = "put" /\ (db' = db \/ (~Refuses(i) /\ db' = Stored(i)))
    /\ dirty' \in {dirty, dirty \cup {mig[i].key}}

LEMMA PutValueStep ==
    ASSUME MigTyped, NEW i \in Migrations, PutValue(i)
    PROVE  PutDone(i) \/ PutFailed(i)
  <1>1. mig[i] \in MigStates /\ Phase(mig[i]) /\ mig[i].pc = "put"
    BY DEF MigTyped, PutValue
  <1>2. CASE NextKey(i)
    <2>1. Advances(i)
      BY <1>1, <1>2, NextKeyStep
    <2>2. mig'[i].pc # "delete"
      BY <2>1 DEF Advances
    <2>3. mig' = [mig EXCEPT ![i].pc = "delete"] => mig'[i].pc = "delete"
      BY <1>1 DEF MigTyped, MigStates
    <2> QED BY <1>1, <2>1, <2>2, <2>3 DEF PutValue, PutFailed
  <1>3. CASE /\ ~Refuses(i) /\ db' = Stored(i) /\ dirty' = dirty
             /\ mig' = [mig EXCEPT ![i].pc = "delete"]
    <2> DEFINE x == [mig[i] EXCEPT !.pc = "delete"]
    <2>1. /\ x \in MigStates /\ x.pc = "delete" /\ x.new = mig[i].new /\ x.olds = mig[i].olds /\ x.key = mig[i].key
          /\ x.val = mig[i].val
      BY <1>1 DEF MigStates, Pcs, Moving
    <2>2. mig'[i] = x /\ \A j \in Migrations : j # i => mig'[j] = mig[j]
      BY <1>3 DEF MigTyped
    <2> HIDE DEF x
    <2>3. mig' \in [Migrations -> MigStates]
      BY <1>3, <2>1, <2>2 DEF MigTyped
    <2>4. Phase(x)
      BY <1>1, <2>1 DEF Phase, Moving
    <2> QED BY <1>1, <1>3, <2>1, <2>2, <2>3, <2>4 DEF PutDone, OnlyOne
  <1> QED BY <1>2, <1>3 DEF PutValue

\* The old server loses the key, or nothing happens.
Deleted(i) ==
    Advances(i) /\ mig[i].pc = "delete" /\ dirty' = dirty /\ (db' = db \/ db' = Without(i))

LEMMA DeleteKeyStep ==
    ASSUME MigTyped, NEW i \in Migrations, DeleteKey(i)
    PROVE  Deleted(i)
  BY NextKeyStep DEF DeleteKey, Deleted

Ends(i) == OnlyOne(i) /\ mig'[i].pc = "done" /\ mig[i].pc = "fetch" /\ UNCHANGED <<db, dirty>>

LEMMA CompletedStep ==
    ASSUME MigTyped, NEW i \in Migrations, Completed(i)
    PROVE  Ends(i)
  <1> DEFINE x == [mig[i] EXCEPT !.pc = "done", !.new = None]
  <1>1. mig[i] \in MigStates /\ mig[i].pc = "fetch"
    BY DEF MigTyped, Completed
  <1>2. x \in MigStates /\ x.pc = "done"
    BY <1>1 DEF MigStates, Pcs
  <1>3. mig'[i] = x /\ \A j \in Migrations : j # i => mig'[j] = mig[j]
    BY DEF MigTyped, Completed
  <1> HIDE DEF x
  <1>4. mig' \in [Migrations -> MigStates]
    BY <1>2, <1>3 DEF MigTyped, Completed
  <1>5. Phase(x)
    BY <1>2 DEF Phase, Moving
  <1> QED BY <1>1, <1>2, <1>3, <1>4, <1>5 DEF Ends, OnlyOne, Completed

\* Every step of migrateData is one of these.
LEMMA MigrateStep ==
    ASSUME TInv, NEW i \in Migrations, Migrate(i)
    PROVE  /\ UNCHANGED <<ring, nodes, pending, last, redel, overlap, readded>>
           /\ mig[i].pc \in Moving
           /\ \/ Advances(i) /\ UNCHANGED <<db, dirty>>
              \/ PutDone(i) \/ PutFailed(i) \/ Deleted(i) \/ Ends(i)
  <1>1. DataTyped /\ MigTyped
    BY DEF TInv
  <1>2. UNCHANGED <<ring, nodes, pending, last, redel, overlap, readded>>
    BY DEF Migrate, FetchKeys, CheckKey, GetValue, PutValue, DeleteKey, Completed, Elsewhere, proxy
  <1>3. mig[i].pc \in Moving
    BY DEF Migrate, FetchKeys, CheckKey, GetValue, PutValue, DeleteKey, Completed, Moving
  <1> QED BY <1>1, <1>2, <1>3, FetchKeysStep, CheckKeyStep, GetValueStep, PutValueStep, DeleteKeyStep,
             CompletedStep DEF Migrate

-----------------------------------------------------------------------------
(* Types                                                                   *)

LEMMA StillTyped ==
    ASSUME MigTyped, NEW i \in Migrations, OnlyOne(i)
    PROVE  MigTyped'
  <1>1. \A j \in Migrations : Phase(mig'[j])
    <2> TAKE j \in Migrations
    <2>1. CASE j = i
      BY <2>1 DEF OnlyOne
    <2>2. CASE j # i
      <3>1. mig'[j] = mig[j] /\ Phase(mig[j])
        BY <2>2 DEF OnlyOne, MigTyped
      <3> QED BY <3>1
    <2> QED BY <2>1, <2>2
  <1> QED BY <1>1 DEF OnlyOne, MigTyped

\* db after one entry of it has changed
LEMMA EntryChanged ==
    ASSUME DataTyped, NEW n \in Nodes, NEW k \in Keys, NEW v \in Copies, db' = [db EXCEPT ![n][k] = v]
    PROVE  /\ db' \in [Nodes -> [Keys -> Copies]]
           /\ \A m \in Nodes, j \in Keys : db'[m][j] = IF m = n /\ j = k THEN v ELSE db[m][j]
  BY DEF DataTyped

LEMMA StoredIs ==
    ASSUME DataTyped, MigTyped, NEW i \in Migrations, mig[i].pc = "put", ~Refuses(i), db' = Stored(i)
    PROVE  /\ db' \in [Nodes -> [Keys -> Copies]]
           /\ mig[i].new \in Nodes /\ mig[i].key \in Keys /\ mig[i].val \in Values
           /\ Transfer[mig[i].val] \in Values
           /\ \A m \in Nodes, j \in Keys :
                 db'[m][j] = IF m = mig[i].new /\ j = mig[i].key THEN Transfer[mig[i].val] ELSE db[m][j]
  <1>1. mig[i].new \in Nodes /\ mig[i].key \in Keys /\ mig[i].val \in Values
    BY DEF MigTyped, MigStates, Phase, Moving, Copies
  <1>2. Transfer[mig[i].val] \in Values
    BY <1>1, Constants DEF Refuses, Copies
  <1>3. Transfer[mig[i].val] \in Copies
    BY <1>2 DEF Copies
  <1>4. db' = [db EXCEPT ![mig[i].new][mig[i].key] = Transfer[mig[i].val]]
    BY DEF Stored
  <1>5. /\ db' \in [Nodes -> [Keys -> Copies]]
        /\ \A m \in Nodes, j \in Keys :
              db'[m][j] = IF m = mig[i].new /\ j = mig[i].key THEN Transfer[mig[i].val] ELSE db[m][j]
    BY ONLY DataTyped, <1>1, <1>3, <1>4, EntryChanged, Zenon
  <1> QED BY <1>1, <1>2, <1>5

LEMMA WithoutIs ==
    ASSUME DataTyped, MigTyped, NEW i \in Migrations, mig[i].pc = "delete", db' = Without(i)
    PROVE  /\ db' \in [Nodes -> [Keys -> Copies]]
           /\ Old(i) \in Nodes /\ mig[i].key \in Keys
           /\ \A m \in Nodes, j \in Keys : db'[m][j] = IF m = Old(i) /\ j = mig[i].key THEN None ELSE db[m][j]
  <1>1. Old(i) \in Nodes /\ mig[i].key \in Keys
    BY OldTyped DEF MigTyped, Phase
  <1>2. None \in Copies
    BY DEF Copies
  <1>3. db' = [db EXCEPT ![Old(i)][mig[i].key] = None]
    BY DEF Without
  <1>4. /\ db' \in [Nodes -> [Keys -> Copies]]
        /\ \A m \in Nodes, j \in Keys : db'[m][j] = IF m = Old(i) /\ j = mig[i].key THEN None ELSE db[m][j]
    BY ONLY DataTyped, <1>1, <1>2, <1>3, EntryChanged, Zenon
  <1> QED BY <1>1, <1>4

LEMMA MigrateTypes ==
    ASSUME TInv, NEW i \in Migrations, Migrate(i)
    PROVE  TInv'
  <1>1. DataTyped /\ MigTyped
    BY DEF TInv
  <1>2. /\ UNCHANGED <<ring, nodes, pending, last, redel>> /\ mig[i].pc \in Moving /\ OnlyOne(i)
        /\ mig'[i].pc \in Moving \cup {"done"}
    BY MigrateStep DEF Advances, PutDone, PutFailed, Deleted, Ends, Moving
  <1>3. MigTyped'
    BY <1>1, <1>2, StillTyped
  <1>4. db' \in [Nodes -> [Keys -> Copies]]
    BY <1>1, MigrateStep, StoredIs, WithoutIs DEF PutDone, PutFailed, Deleted, Ends, DataTyped
  <1>5. dirty' \subseteq Keys /\ dirty \subseteq dirty'
    <2>1. mig[i].pc = "put" => mig[i].key \in Keys
      BY <1>1 DEF MigTyped, Phase
    <2> QED BY <1>1, <2>1, MigrateStep DEF PutDone, PutFailed, Deleted, Ends, DataTyped
  <1>6. Started' = Started
    BY <1>2 DEF Started, OnlyOne, Moving
  <1> QED BY <1>1, <1>2, <1>3, <1>4, <1>5, <1>6 DEF TInv, DataTyped

LEMMA RouteTypes ==
    ASSUME TInv, NEW k \in Keys, NEW v \in Copies, Route(k, v)
    PROVE  TInv'
  <1>1. Owner(k) \in Nodes
    BY OwnerTyped DEF Route, TInv
  <1>2. [key |-> k, val |-> v, target |-> Owner(k)] \in [key : Keys, val : Copies, target : Nodes]
    BY <1>1
  <1> QED BY <1>2 DEF Route, TInv, DataTyped, MigTyped, Started, proxy, history

\* A write that is carried out, and what becomes of the histories
LEMMA ForwardStep ==
    ASSUME TInv, NEW r \in pending, Forward(r)
    PROVE  /\ r.target \in Nodes /\ r.key \in Keys /\ r.val \in Copies
           /\ UNCHANGED <<ring, nodes, mig, overlap, readded>> /\ pending' \subseteq pending
           /\ \/ UNCHANGED <<db, last, dirty, redel>>
              \/ /\ db' \in [Nodes -> [Keys -> Copies]]
                 /\ \A m \in Nodes, j \in Keys : db'[m][j] = IF m = r.target /\ j = r.key THEN r.val ELSE db[m][j]
                 /\ last' = [last EXCEPT ![r.key] = r.val]
                 /\ dirty' = (IF Quiet /\ r.target = Owner(r.key) THEN dirty ELSE dirty \cup {r.key})
                 /\ redel' = (IF (Quiet /\ r.target = Owner(r.key)) \/ r.val # None THEN redel ELSE redel \cup {r.key})
  <1>1. r.target \in Nodes /\ r.key \in Keys /\ r.val \in Copies
    BY DEF TInv, DataTyped
  <1>2. ASSUME db' = [db EXCEPT ![r.target][r.key] = r.val]
        PROVE  /\ db' \in [Nodes -> [Keys -> Copies]]
               /\ \A m \in Nodes, j \in Keys : db'[m][j] = IF m = r.target /\ j = r.key THEN r.val ELSE db[m][j]
    <2>1. DataTyped
      BY DEF TInv
    <2> QED BY ONLY <1>1, <1>2, <2>1, EntryChanged, Zenon
  <1> QED BY <1>1, <1>2 DEF Forward, proxy, history

LEMMA ForwardTypes ==
    ASSUME TInv, NEW r \in pending, Forward(r)
    PROVE  TInv'
  <1>1. DataTyped'
    BY ForwardStep DEF TInv, DataTyped
  <1> QED BY <1>1, ForwardStep DEF TInv, MigTyped, Started

LEMMA ListNodesStep ==
    ASSUME TInv, NEW i \in Migrations, NEW n \in Joining, ListNodes(i, n)
    PROVE  /\ OnlyOne(i) /\ mig[i].pc = "idle"
           /\ mig'[i].pc = "add" /\ mig'[i].new = n /\ mig'[i].olds = nodes
  <1> DEFINE x == [mig[i] EXCEPT !.pc = "add", !.new = n, !.olds = nodes]
  <1>1. mig[i] \in MigStates /\ mig[i].pc = "idle" /\ nodes \in Seq(Nodes) /\ n \in Nodes
    BY Constants DEF TInv, DataTyped, MigTyped, ListNodes
  <1>2. x \in MigStates /\ x.pc = "add" /\ x.new = n /\ x.olds = nodes
    BY <1>1 DEF MigStates, Pcs
  <1>3. mig'[i] = x /\ \A j \in Migrations : j # i => mig'[j] = mig[j]
    BY DEF TInv, MigTyped, ListNodes
  <1> HIDE DEF x
  <1>4. mig' \in [Migrations -> MigStates]
    BY <1>2, <1>3 DEF TInv, MigTyped, ListNodes
  <1>5. Phase(x)
    BY <1>1, <1>2 DEF Phase, Moving
  <1> QED BY <1>1, <1>2, <1>3, <1>4, <1>5 DEF OnlyOne

LEMMA ListNodesTypes ==
    ASSUME TInv, NEW i \in Migrations, NEW n \in Joining, ListNodes(i, n)
    PROVE  TInv'
  <1>1. MigTyped'
    BY ListNodesStep, StillTyped DEF TInv
  <1>2. Started' = Started
    BY ListNodesStep DEF Started, OnlyOne
  <1> QED BY <1>1, <1>2 DEF TInv, DataTyped, ListNodes, proxy, history

LEMMA AddServerStep ==
    ASSUME TInv, NEW i \in Migrations, AddServer(i)
    PROVE  /\ OnlyOne(i) /\ mig[i].pc = "add" /\ mig[i].new \in Nodes
           /\ mig'[i].pc = "fetch" /\ mig'[i].new = mig[i].new /\ mig'[i].olds = mig[i].olds
           /\ ring' = AddNode(ring, VHash, mig[i].new) /\ ring' \in Rings
           /\ nodes' \in Seq(Nodes) /\ Len(nodes) \in Nat /\ Len(nodes') = Len(nodes) + 1
           /\ nodes'[Len(nodes) + 1] = mig[i].new
           /\ \A p \in 1 .. Len(nodes) : nodes'[p] = nodes[p]
  <1> DEFINE x == [mig[i] EXCEPT !.pc = "fetch"]
  <1>1. /\ mig[i] \in MigStates /\ mig[i].pc = "add" /\ mig[i].new \in Nodes /\ Phase(mig[i])
        /\ nodes \in Seq(Nodes) /\ ring \in Rings
    BY DEF TInv, DataTyped, MigTyped, AddServer, Phase
  <1>2. x \in MigStates /\ x.pc = "fetch" /\ x.new = mig[i].new /\ x.olds = mig[i].olds
    BY <1>1 DEF MigStates, Pcs, Moving
  <1>3. mig'[i] = x /\ \A j \in Migrations : j # i => mig'[j] = mig[j]
    BY DEF TInv, MigTyped, AddServer
  <1> HIDE DEF x
  <1>4. mig' \in [Migrations -> MigStates]
    BY <1>2, <1>3 DEF TInv, MigTyped, AddServer
  <1>5. Phase(x)
    BY <1>1, <1>2 DEF Phase, Moving
  <1>6. ring' = AddNode(ring, VHash, mig[i].new) /\ ring' \in Rings
    BY <1>1, AddNodeEntries DEF AddServer
  <1>7. nodes' = Append(nodes, mig[i].new)
    BY DEF AddServer
  <1>8. /\ nodes' \in Seq(Nodes) /\ Len(nodes) \in Nat /\ Len(nodes') = Len(nodes) + 1
        /\ nodes'[Len(nodes) + 1] = mig[i].new
        /\ \A p \in 1 .. Len(nodes) : nodes'[p] = nodes[p]
    BY <1>1, <1>7, AppendProperties, LenProperties
  <1> QED BY <1>1, <1>2, <1>3, <1>4, <1>5, <1>6, <1>8 DEF OnlyOne

LEMMA StartedCount == IsFiniteSet(Started) /\ Cardinality(Started) \in Nat /\ Cardinality(Started) <= MaxAdds
  <1>1. IsFiniteSet(Migrations) /\ Cardinality(Migrations) = MaxAdds
    BY Constants, FS_Interval DEF Migrations
  <1>2. Started \subseteq Migrations
    BY DEF Started
  <1> QED BY <1>1, <1>2, FS_Subset, FS_CardinalityType

LEMMA AddServerTypes ==
    ASSUME TInv, NEW i \in Migrations, AddServer(i)
    PROVE  TInv'
  <1>1. MigTyped'
    BY AddServerStep, StillTyped DEF TInv
  <1>2. Started' = Started \cup {i} /\ i \notin Started
    BY AddServerStep DEF Started, OnlyOne
  <1>3. Cardinality(Started') = Cardinality(Started) + 1
    BY <1>2, StartedCount, FS_AddElement
  <1>4. DataTyped'
    BY AddServerStep DEF TInv, DataTyped, AddServer, history
  <1>5. Len(nodes') = Len(Initial) + Cardinality(Started')
    BY <1>3, AddServerStep, StartedCount, Constants DEF TInv
  <1> QED BY <1>1, <1>4, <1>5 DEF TInv

LEMMA NextTypes == TInv /\ [Next]_vars => TInv'
  <1> SUFFICES ASSUME TInv, [Next]_vars PROVE TInv'
    OBVIOUS
  <1>1. CASE UNCHANGED vars
    BY <1>1 DEF vars, TInv, DataTyped, MigTyped, Started
  <1>2. ASSUME NEW k \in Keys, NEW v \in Values \cup {None}, Route(k, v)
        PROVE  TInv'
    BY <1>2, RouteTypes DEF Copies
  <1> QED BY <1>1, <1>2, ForwardTypes, ListNodesTypes, AddServerTypes, MigrateTypes DEF Next

LEMMA Typing == Spec => []TInv
  BY InitTypes, NextTypes, PTL DEF Spec

\* A goroutine only ever asks for keys it was given, of a server that is left on
\* its list, and never puts an empty value; the list of servers grows by one for
\* each request.
THEOREM TypeCorrect == Spec => []TypeOK
  <1>1. TInv => TypeOK
    <2> SUFFICES ASSUME TInv PROVE TypeOK
      OBVIOUS
    <2>1. Len(nodes) <= Len(Initial) + MaxAdds
      BY StartedCount, Constants DEF TInv
    <2>2. ASSUME NEW i \in Migrations
          PROVE  /\ mig[i].pc \in Pcs /\ mig[i].keys \subseteq Keys /\ mig[i].val \in Copies
                 /\ Phase(mig[i])
      BY DEF TInv, MigTyped, MigStates
    <2> QED BY <2>1, <2>2 DEF TInv, DataTyped, Phase, Pcs, Moving, TypeOK
  <1> QED BY Typing, <1>1, PTL

-----------------------------------------------------------------------------
(* No key is lost                                                          *)

Listed(n) == \E p \in 1 .. Len(nodes) : nodes[p] = n

\* Server m was added before server n, and n once.
Before(m, n) == \A p, q \in 1 .. Len(nodes) : nodes[p] = m /\ nodes[q] = n => p < q
Once(n) == \A p, q \in 1 .. Len(nodes) : nodes[p] = n /\ nodes[q] = n => p = q

\* A request moves keys from servers that are there to one that came later ...
Lined(r) ==
    /\ r.pc \in {"add"} \cup Moving => \A a \in 1 .. Len(r.olds) : Listed(r.olds[a])
    /\ r.pc \in Moving =>
          /\ Listed(r.new)
          /\ readded \/ (Once(r.new) /\ \A a \in 1 .. Len(r.olds) : Before(r.olds[a], r.new))
Lineup == \A i \in Migrations : Lined(mig[i])

\* ... so that a copy of a key about to be deleted is at the new server or at
\* one that came after it, where another request has moved it on.
HeldFrom(n, k) ==
    \E p \in 1 .. Len(nodes) : db[nodes[p]][k] # None /\ \A q \in 1 .. Len(nodes) : nodes[q] = n => q <= p
CopyAhead ==
    readded \/ \A i \in Migrations :
                  mig[i].pc = "delete" /\ mig[i].key \notin redel => HeldFrom(mig[i].new, mig[i].key)

LInv == Lineup /\ CopyAhead /\ NoKeyLost

LEMMA InitLost == Init => LInv
  <1> SUFFICES ASSUME Init PROVE LInv
    OBVIOUS
  <1>1. \A i \in Migrations : mig[i].pc = "idle"
    BY DEF Init
  <1>2. Lineup /\ CopyAhead
    BY <1>1 DEF Lineup, Lined, CopyAhead, Moving
  <1>3. NoKeyLost
    BY DEF Init, NoKeyLost
  <1> QED BY <1>2, <1>3 DEF LInv

\* Steps that leave the list of servers and one request alone leave its place.
LEMMA StillLined ==
    ASSUME NEW i \in Migrations, Lined(mig[i]), mig'[i] = mig[i], UNCHANGED <<nodes, readded>>
    PROVE  Lined(mig[i])'
  BY DEF Lined, Listed, Once, Before

LEMMA MigrateLined ==
    ASSUME TInv, Lineup, NEW i \in Migrations, Migrate(i)
    PROVE  Lineup'
  <1>1. /\ UNCHANGED <<nodes, readded>> /\ OnlyOne(i) /\ mig[i].pc \in Moving
        /\ \/ mig'[i].pc = "done"
           \/ /\ mig'[i].pc \in Moving /\ mig'[i].new = mig[i].new
              /\ \/ mig'[i].olds = mig[i].olds
                 \/ mig[i].olds # <<>> /\ mig'[i].olds = Tail(mig[i].olds)
    BY MigrateStep DEF Advances, PutDone, PutFailed, Deleted, Ends, Moving
  <1>2. \A a \in 1 .. Len(mig'[i].olds) : mig'[i].pc = "done" \/ \E b \in 1 .. Len(mig[i].olds) : mig'[i].olds[a] = mig[i].olds[b]
    <2>1. CASE mig'[i].pc = "done" \/ mig'[i].olds = mig[i].olds
      BY <2>1
    <2>2. CASE mig[i].olds # <<>> /\ mig'[i].olds = Tail(mig[i].olds)
      <3>1. mig[i].olds \in Seq(Nodes)
        BY DEF TInv, MigTyped, MigStates
      <3>2. /\ Len(mig[i].olds) \in Nat /\ Len(mig'[i].olds) = Len(mig[i].olds) - 1
            /\ \A a \in 1 .. Len(mig'[i].olds) : mig'[i].olds[a] = mig[i].olds[a + 1]
        BY <2>2, <3>1, HeadTailProperties, LenProperties
      <3>3. \A a \in 1 .. Len(mig'[i].olds) : a + 1 \in 1 .. Len(mig[i].olds)
        BY <3>2
      <3> QED BY <3>2, <3>3
    <2> QED BY <1>1, <2>1, <2>2
  <1>3. ASSUME NEW j \in Migrations
        PROVE  Lined(mig[j])'
    <2>1. CASE j = i
      <3>1. Lined(mig[i])
        BY DEF Lineup
      <3>2. CASE mig'[i].pc = "done"
        BY <2>1, <3>2 DEF Lined, Moving
      <3>3. CASE mig'[i].pc # "done"
        <4>1. /\ \A a \in 1 .. Len(mig[i].olds) : Listed(mig[i].olds[a])
              /\ Listed(mig[i].new)
              /\ readded \/ (Once(mig[i].new) /\ \A a \in 1 .. Len(mig[i].olds) : Before(mig[i].olds[a], mig[i].new))
          BY <1>1, <3>1 DEF Lined
        <4>2. mig'[i].new = mig[i].new
          BY <1>1, <3>3
        <4>3. \A a \in 1 .. Len(mig'[i].olds) : \E b \in 1 .. Len(mig[i].olds) : mig'[i].olds[a] = mig[i].olds[b]
          BY <1>2, <3>3
        <4>4. /\ \A a \in 1 .. Len(mig'[i].olds) : Listed(mig'[i].olds[a])
              /\ Listed(mig'[i].new)
              /\ readded \/ (Once(mig'[i].new) /\ \A a \in 1 .. Len(mig'[i].olds) : Before(mig'[i].olds[a], mig'[i].new))
          BY <4>1, <4>2, <4>3
        <4> QED BY <1>1, <2>1, <4>4 DEF Lined, Listed, Once, Before
      <3> QED BY <3>2, <3>3
    <2>2. CASE j # i
      BY <1>1, <2>2, StillLined DEF OnlyOne, Lineup
    <2> QED BY <2>1, <2>2
  <1> QED BY <1>3 DEF Lineup

\* The old server is not where a copy ahead of the deletion is.
LEMMA AheadIsElsewhere ==
    ASSUME TInv, Lineup, ~readded, NEW i \in Migrations, mig[i].pc = "delete",
           NEW p \in 1 .. Len(nodes), \A q \in 1 .. Len(nodes) : nodes[q] = mig[i].new => q <= p
    PROVE  nodes[p] # Old(i)
  <1>1. Lined(mig[i]) /\ mig[i].pc \in Moving
    BY DEF Lineup, Moving
  <1>2. PICK q \in 1 .. Len(nodes) : nodes[q] = mig[i].new
    BY <1>1 DEF Lined, Listed
  <1>3. Old(i) = mig[i].olds[1] /\ 1 \in 1 .. Len(mig[i].olds)
    BY OldTyped DEF TInv
  <1>4. Before(Old(i), mig[i].new)
    BY <1>1, <1>3 DEF Lined
  <1>5. nodes[p] = Old(i) => p < q /\ q <= p
    BY <1>2, <1>4 DEF Before
  <1>6. Len(nodes) \in Nat
    BY LenProperties DEF TInv, DataTyped
  <1> QED BY <1>5, <1>6

\* DeleteKey leaves a copy ahead of every deletion that is still to come.
LEMMA DeleteHeld ==
    ASSUME TInv, Lineup, CopyAhead, ~readded, NEW i \in Migrations, mig[i].pc = "delete",
           db' = Without(i), UNCHANGED nodes, mig[i].key \notin redel,
           NEW n, HeldFrom(n, mig[i].key)
    PROVE  \E p \in 1 .. Len(nodes) :
              db'[nodes[p]][mig[i].key] # None /\ \A q \in 1 .. Len(nodes) : nodes[q] = n => q <= p
  <1> DEFINE k == mig[i].key
  <1>1. k \in Keys /\ \A m \in Nodes, j \in Keys : db'[m][j] = IF m = Old(i) /\ j = k THEN None ELSE db[m][j]
    BY WithoutIs DEF TInv
  <1>2. Len(nodes) \in Nat /\ \A p \in 1 .. Len(nodes) : nodes[p] \in Nodes
    BY LenProperties, ElementOfSeq DEF TInv, DataTyped
  <1>3. PICK p \in 1 .. Len(nodes) : db[nodes[p]][k] # None /\ \A q \in 1 .. Len(nodes) : nodes[q] = n => q <= p
    BY DEF HeldFrom
  <1>4. PICK r \in 1 .. Len(nodes) : db[nodes[r]][k] # None /\ \A q \in 1 .. Len(nodes) : nodes[q] = mig[i].new => q <= r
    BY DEF CopyAhead, HeldFrom
  <1>5. nodes[r] # Old(i)
    BY <1>4, AheadIsElsewhere
  <1> HIDE DEF k
  <1>6. CASE nodes[p] # Old(i)
    <2>1. db'[nodes[p]][k] # None
      BY <1>1, <1>2, <1>3, <1>6
    <2> QED BY <1>3, <2>1 DEF k
  <1>7. CASE nodes[p] = Old(i)
    <2>1. Listed(mig[i].new) /\ Before(Old(i), mig[i].new)
      <3>1. Lined(mig[i]) /\ mig[i].pc \in Moving
        BY DEF Lineup, Moving
      <3>2. Old(i) = mig[i].olds[1] /\ 1 \in 1 .. Len(mig[i].olds)
        BY OldTyped DEF TInv
      <3> QED BY <3>1, <3>2 DEF Lined
    <2>2. PICK q \in 1 .. Len(nodes) : nodes[q] = mig[i].new
      BY <2>1 DEF Listed
    <2>3. p < q /\ q <= r
      BY <1>4, <1>7, <2>1, <2>2 DEF Before
    <2>4. \A s \in 1 .. Len(nodes) : nodes[s] = n => s <= r
      BY <1>2, <1>3, <2>3
    <2>5. db'[nodes[r]][k] # None
      BY <1>1, <1>2, <1>4, <1>5
    <2> QED BY <2>4, <2>5 DEF k
  <1> QED BY <1>6, <1>7

\* What a step of migrateData takes away is one copy, and another is left.
LEMMA MigrateLost ==
    ASSUME TInv, LInv, NEW i \in Migrations, Migrate(i)
    PROVE  LInv'
  <1>1. DataTyped /\ MigTyped /\ Lineup /\ CopyAhead /\ NoKeyLost
    BY DEF TInv, LInv
  <1>2. Lineup'
    BY <1>1, MigrateLined
  <1>3. UNCHANGED <<nodes, last, redel, readded>> /\ OnlyOne(i)
    BY MigrateStep DEF Advances, PutDone, PutFailed, Deleted, Ends
  <1>4. Len(nodes) \in Nat /\ \A p \in 1 .. Len(nodes) : nodes[p] \in Nodes
    BY <1>1, LenProperties, ElementOfSeq DEF DataTyped
  <1>5. \A j \in Migrations : mig[j].pc = "delete" => mig[j].key \in Keys
    BY <1>1 DEF MigTyped, Phase
  <1>6. CASE readded
    BY <1>2, <1>3, <1>6 DEF LInv, CopyAhead, NoKeyLost
  <1>7. CASE ~readded /\ ~(mig[i].pc = "delete" /\ db' = Without(i))
    <2>1. ASSUME NEW n \in Nodes, NEW k \in Keys, db[n][k] # None
          PROVE  db'[n][k] # None
      <3>1. CASE db' = db
        BY <2>1, <3>1
      <3>2. CASE mig[i].pc = "put" /\ ~Refuses(i) /\ db' = Stored(i)
        BY <1>1, <2>1, <3>2, StoredIs, Constants
      <3> QED BY <1>7, <3>1, <3>2, MigrateStep DEF PutDone, PutFailed, Deleted, Ends
    <2>2. NoKeyLost'
      BY <1>1, <1>3, <1>7, <2>1 DEF NoKeyLost
    <2>3. ASSUME NEW j \in Migrations, mig'[j].pc = "delete", mig'[j].key \notin redel
          PROVE  HeldFrom(mig[j].new, mig[j].key)'
      <3>1. CASE j # i
        <4>1. mig'[j] = mig[j]
          BY <1>3, <3>1 DEF OnlyOne
        <4>2. mig[j].key \in Keys /\ HeldFrom(mig[j].new, mig[j].key)
          BY <1>1, <1>5, <1>7, <2>3, <4>1 DEF CopyAhead
        <4> QED BY <1>3, <1>4, <2>1, <4>1, <4>2 DEF HeldFrom
      <3>2. CASE j = i
        <4>1. PutDone(i)
          BY <2>3, <3>2, MigrateStep DEF Advances, PutFailed, Deleted, Ends
        <4>2. /\ mig[i].pc = "put" /\ ~Refuses(i) /\ db' = Stored(i)
              /\ mig'[i].new = mig[i].new /\ mig'[i].key = mig[i].key
          BY <4>1 DEF PutDone
        <4>3. mig[i].new \in Nodes /\ mig[i].key \in Keys /\ db'[mig[i].new][mig[i].key] # None
          BY <1>1, <4>2, StoredIs, Constants
        <4>4. Listed(mig[i].new) /\ Once(mig[i].new)
          BY <1>1, <1>7, <4>2 DEF Lineup, Lined, Moving
        <4>5. PICK p \in 1 .. Len(nodes) : nodes[p] = mig[i].new
          BY <4>4 DEF Listed
        <4>6. \A q \in 1 .. Len(nodes) : nodes[q] = mig[i].new => q <= p
          BY <1>4, <4>4, <4>5 DEF Once
        <4> QED BY <1>3, <3>2, <4>2, <4>3, <4>5, <4>6 DEF HeldFrom
      <3> QED BY <3>1, <3>2
    <2>4. CopyAhead'
      BY <1>3, <2>3 DEF CopyAhead
    <2> QED BY <1>2, <2>2, <2>4 DEF LInv
  <1>8. CASE ~readded /\ mig[i].pc = "delete" /\ db' = Without(i)
    <2> DEFINE k == mig[i].key
    <2>1. k \in Keys /\ \A m \in Nodes, j \in Keys : db'[m][j] = IF m = Old(i) /\ j = k THEN None ELSE db[m][j]
      BY <1>1, <1>8, WithoutIs
    <2>2. mig'[i].pc # "delete"
      BY <1>8, MigrateStep DEF Advances, PutDone, PutFailed, Deleted, Ends
    <2>3. k \notin redel => \E n \in Nodes : db'[n][k] # None
      <3> SUFFICES ASSUME k \notin redel PROVE \E n \in Nodes : db'[n][k] # None
        OBVIOUS
      <3>1. PICK p \in 1 .. Len(nodes) :
               db[nodes[p]][k] # None /\ \A q \in 1 .. Len(nodes) : nodes[q] = mig[i].new => q <= p
        BY <1>1, <1>8 DEF CopyAhead, HeldFrom
      <3>2. nodes[p] # Old(i) /\ nodes[p] \in Nodes
        BY <1>1, <1>4, <1>8, <3>1, AheadIsElsewhere
      <3> QED BY <2>1, <3>1, <3>2
    <2>4. NoKeyLost'
      <3> HIDE DEF k
      <3> SUFFICES ASSUME NEW j \in Keys \ redel, last[j] # None PROVE \E n \in Nodes : db'[n][j] # None
        BY <1>3 DEF NoKeyLost
      <3>1. CASE j = k
        BY <2>3, <3>1
      <3>2. CASE j # k
        <4>1. PICK n \in Nodes : db[n][j] # None
          BY <1>1, <1>8 DEF NoKeyLost
        <4> QED BY <2>1, <3>2, <4>1
      <3> QED BY <3>1, <3>2
    <2>5. ASSUME NEW j \in Migrations, mig'[j].pc = "delete", mig'[j].key \notin redel
          PROVE  HeldFrom(mig[j].new, mig[j].key)'
      <3>1. j # i /\ mig'[j] = mig[j]
        BY <1>3, <2>2, <2>5 DEF OnlyOne
      <3>2. mig[j].key \in Keys /\ HeldFrom(mig[j].new, mig[j].key)
        BY <1>1, <1>5, <1>8, <2>5, <3>1 DEF CopyAhead
      <3>3. PICK n : n = mig[j].new
        OBVIOUS
      <3>4. PICK kk : kk = mig[j].key
        OBVIOUS
      <3>5. HeldFrom(n, kk)'
        <4>1. CASE kk = k
          <5>1. HeldFrom(n, mig[i].key) /\ mig[i].key \notin redel
            BY <2>5, <3>1, <3>2, <3>3, <3>4, <4>1
          <5>2. HeldFrom(n, k)
            BY <5>1
          <5>3. \E p \in 1 .. Len(nodes) : db'[nodes[p]][k] # None /\ \A q \in 1 .. Len(nodes) : nodes[q] = n => q <= p
            BY <1>1, <1>3, <1>8, <5>1, DeleteHeld
          <5> QED BY <1>3, <4>1, <5>3 DEF HeldFrom
        <4>2. CASE kk # k
          <5>1. \A p \in 1 .. Len(nodes) : db'[nodes[p]][kk] = db[nodes[p]][kk]
            BY <1>4, <2>1, <3>2, <3>4, <4>2
          <5> QED BY <1>3, <3>2, <3>3, <3>4, <5>1 DEF HeldFrom
        <4> QED BY <4>1, <4>2
      <3> QED BY <3>1, <3>3, <3>4, <3>5 DEF HeldFrom
    <2>6. CopyAhead'
      BY <1>3, <2>5 DEF CopyAhead
    <2> QED BY <1>2, <2>4, <2>6 DEF LInv
  <1> QED BY <1>6, <1>7, <1>8

LEMMA ForwardLost ==
    ASSUME TInv, LInv, NEW r \in pending, Forward(r)
    PROVE  LInv'
  <1>1. DataTyped /\ MigTyped /\ Lineup /\ CopyAhead /\ NoKeyLost
    BY DEF TInv, LInv
  <1>2. /\ r.target \in Nodes /\ r.key \in Keys /\ r.val \in Copies
        /\ UNCHANGED <<nodes, mig, readded>>
    BY ForwardStep
  <1>3. Lineup'
    BY <1>1, <1>2, StillLined DEF Lineup
  <1>4. CASE UNCHANGED <<db, last, dirty, redel>>
    BY <1>1, <1>2, <1>3, <1>4 DEF LInv, CopyAhead, HeldFrom, NoKeyLost
  <1>5. CASE /\ \A m \in Nodes, j \in Keys : db'[m][j] = IF m = r.target /\ j = r.key THEN r.val ELSE db[m][j]
             /\ last' = [last EXCEPT ![r.key] = r.val]
             /\ redel' = (IF (Quiet /\ r.target = Owner(r.key)) \/ r.val # None THEN redel ELSE redel \cup {r.key})
    <2>1. \A k \in Keys : last'[k] = IF k = r.key THEN r.val ELSE last[k]
      BY <1>1, <1>2, <1>5 DEF DataTyped
    <2>2. redel \subseteq redel'
      BY <1>5
    <2>3. NoKeyLost'
      <3> SUFFICES ASSUME ~readded, NEW k \in Keys \ redel', last'[k] # None PROVE \E n \in Nodes : db'[n][k] # None
        BY <1>2 DEF NoKeyLost
      <3>1. CASE k = r.key
        BY <1>2, <1>5, <2>1, <3>1
      <3>2. CASE k # r.key
        <4>1. PICK n \in Nodes : db[n][k] # None
          BY <1>1, <2>1, <2>2, <3>2 DEF NoKeyLost
        <4> QED BY <1>5, <3>2, <4>1
      <3> QED BY <3>1, <3>2
    <2>4. ASSUME ~readded, NEW i \in Migrations, mig[i].pc = "delete", mig[i].key \notin redel'
          PROVE  HeldFrom(mig[i].new, mig[i].key)'
      <3>1. mig[i].key \in Keys
        BY <1>1, <2>4 DEF MigTyped, Phase
      <3>2. mig[i].key = r.key => r.val # None
        <4>1. ~Quiet
          BY <2>4 DEF Quiet, Busy
        <4> QED BY <1>5, <2>4, <4>1
      <3>3. PICK p \in 1 .. Len(nodes) :
               db[nodes[p]][mig[i].key] # None /\ \A q \in 1 .. Len(nodes) : nodes[q] = mig[i].new => q <= p
        BY <1>1, <2>2, <2>4 DEF CopyAhead, HeldFrom
      <3>4. nodes[p] \in Nodes
        BY <1>1, ElementOfSeq DEF DataTyped
      <3>5. db'[nodes[p]][mig[i].key] # None
        BY <1>5, <3>1, <3>2, <3>3, <3>4
      <3> QED BY <1>2, <3>3, <3>5 DEF HeldFrom
    <2>5. CopyAhead'
      BY <1>2, <2>4 DEF CopyAhead
    <2> QED BY <1>3, <2>3, <2>5 DEF LInv
  <1> QED BY <1>4, <1>5, ForwardStep

LEMMA ListNodesLost ==
    ASSUME TInv, LInv, NEW i \in Migrations, NEW n \in Joining, ListNodes(i, n)
    PROVE  LInv'
  <1>1. Lineup /\ CopyAhead /\ NoKeyLost
    BY DEF LInv
  <1>2. UNCHANGED <<nodes, db, last, redel, readded>>
    BY DEF ListNodes, proxy, history
  <1>3. OnlyOne(i) /\ mig'[i].pc = "add" /\ mig'[i].olds = nodes
    BY ListNodesStep
  <1>4. ASSUME NEW j \in Migrations
        PROVE  Lined(mig[j])'
    <2>1. CASE j = i
      BY <1>2, <1>3, <2>1 DEF Lined, Listed, Moving
    <2>2. CASE j # i
      BY <1>1, <1>2, <1>3, <2>2, StillLined DEF OnlyOne, Lineup
    <2> QED BY <2>1, <2>2
  <1>5. CopyAhead'
    BY <1>1, <1>2, <1>3 DEF CopyAhead, HeldFrom, OnlyOne
  <1> QED BY <1>1, <1>2, <1>4, <1>5 DEF LInv, Lineup, NoKeyLost

\* A server that is added for the first time comes after all others.
LEMMA AddServerLost ==
    ASSUME TInv, LInv, NEW i \in Migrations, AddServer(i)
    PROVE  LInv'
  <1>1. Lineup /\ CopyAhead /\ NoKeyLost
    BY DEF LInv
  <1>2. UNCHANGED <<db, last, redel>> /\ readded' = (readded \/ \E j \in 1 .. Len(nodes) : nodes[j] = mig[i].new)
    BY DEF AddServer, history
  <1> DEFINE L == Len(nodes)
             s == mig[i].new
  <1>3. /\ OnlyOne(i) /\ mig[i].pc = "add"
        /\ mig'[i].pc = "fetch" /\ mig'[i].new = s /\ mig'[i].olds = mig[i].olds
        /\ L \in Nat /\ Len(nodes') = L + 1 /\ nodes'[L + 1] = s
        /\ \A p \in 1 .. L : nodes'[p] = nodes[p]
    BY AddServerStep
  <1>4. L + 1 \in 1 .. L + 1 /\ \A p \in 1 .. L + 1 : p \in 1 .. L \/ p = L + 1
    BY <1>3
  <1>5. \A p \in 1 .. L : p \in 1 .. L + 1 /\ p < L + 1
    BY <1>3
  <1>6. ASSUME NEW m, Listed(m)
        PROVE  \E p \in 1 .. Len(nodes') : nodes'[p] = m
    <2>1. PICK p \in 1 .. L : nodes[p] = m
      BY <1>6 DEF Listed
    <2> QED BY <1>3, <1>5, <2>1
  <1>7. ASSUME ~readded', NEW m, Listed(m), NEW p \in 1 .. L + 1, nodes'[p] = m
        PROVE  p \in 1 .. L /\ nodes[p] = m
    <2>1. m # s
      BY <1>2, <1>7 DEF Listed
    <2> QED BY <1>3, <1>4, <1>7, <2>1
  <1> HIDE DEF L
  <1>8. ASSUME NEW j \in Migrations
        PROVE  Lined(mig[j])'
    <2>1. Lined(mig[j])
      BY <1>1 DEF Lineup
    <2>2. CASE j # i
      <3>1. mig'[j] = mig[j]
        BY <1>3, <2>2 DEF OnlyOne
      <3>2. CASE mig[j].pc \notin {"add"} \cup Moving
        BY <3>1, <3>2 DEF Lined, Moving
      <3>3. CASE mig[j].pc \in {"add"} \cup Moving
        <4>1. \A a \in 1 .. Len(mig[j].olds) : Listed(mig[j].olds[a])
          BY <2>1, <3>3 DEF Lined
        <4>2. \A a \in 1 .. Len(mig[j].olds) : \E p \in 1 .. Len(nodes') : nodes'[p] = mig[j].olds[a]
          BY <1>6, <3>1, <4>1
        <4>3. mig[j].pc \in Moving => \E p \in 1 .. Len(nodes') : nodes'[p] = mig[j].new
          BY <1>6, <2>1, <3>1 DEF Lined
        <4>4. ASSUME ~readded', mig[j].pc \in Moving
              PROVE  /\ Once(mig[j].new)'
                     /\ \A a \in 1 .. Len(mig[j].olds), p, q \in 1 .. Len(nodes') :
                           nodes'[p] = mig[j].olds[a] /\ nodes'[q] = mig[j].new => p < q
          <5>1. /\ ~readded /\ Listed(mig[j].new) /\ Once(mig[j].new)
                /\ \A a \in 1 .. Len(mig[j].olds) : Before(mig[j].olds[a], mig[j].new)
            BY <1>2, <2>1, <4>4 DEF Lined
          <5>2. \A p \in 1 .. L + 1 : nodes'[p] = mig[j].new => p \in 1 .. L /\ nodes[p] = mig[j].new
            BY <1>7, <4>4, <5>1
          <5>3. Once(mig[j].new)'
            BY <1>3, <3>1, <5>1, <5>2 DEF Once, L
          <5>4. ASSUME NEW a \in 1 .. Len(mig[j].olds)
                PROVE  \A p, q \in 1 .. Len(nodes') : nodes'[p] = mig[j].olds[a] /\ nodes'[q] = mig[j].new => p < q
            <6>1. Listed(mig[j].olds[a]) /\ Before(mig[j].olds[a], mig[j].new)
              BY <4>1, <5>1
            <6>2. \A p \in 1 .. L + 1 : nodes'[p] = mig[j].olds[a] => p \in 1 .. L /\ nodes[p] = mig[j].olds[a]
              BY <1>7, <4>4, <6>1
            <6> QED BY <1>3, <5>2, <6>1, <6>2 DEF Before, L
          <5> QED BY <3>1, <5>3, <5>4
        <4> QED BY <3>1, <4>2, <4>3, <4>4 DEF Lined, Listed, Once, Before
      <3> QED BY <3>2, <3>3
    <2>3. CASE j = i
      <3>1. \A a \in 1 .. Len(mig[i].olds) : Listed(mig[i].olds[a])
        BY <1>3, <2>1, <2>3 DEF Lined
      <3>2. \A a \in 1 .. Len(mig[i].olds) : \E p \in 1 .. Len(nodes') : nodes'[p] = mig[i].olds[a]
        BY <1>3, <1>6, <3>1
      <3>3. \E p \in 1 .. Len(nodes') : nodes'[p] = mig[i].new
        BY <1>3, <1>4 DEF L
      <3>4. ASSUME ~readded'
            PROVE  /\ Once(mig[i].new)'
                     /\ \A a \in 1 .. Len(mig[i].olds), p, q \in 1 .. Len(nodes') :
                           nodes'[p] = mig[i].olds[a] /\ nodes'[q] = mig[i].new => p < q
        <4>1. \A q \in 1 .. L + 1 : nodes'[q] = s => q = L + 1
          BY <1>2, <1>3, <1>4, <3>4 DEF L
        <4>2. Once(mig[i].new)'
          BY <1>3, <4>1 DEF Once, L
        <4>3. ASSUME NEW a \in 1 .. Len(mig[i].olds)
              PROVE  \A p, q \in 1 .. Len(nodes') : nodes'[p] = mig[i].olds[a] /\ nodes'[q] = s => p < q
          <5>1. \A p \in 1 .. L + 1 : nodes'[p] = mig[i].olds[a] => p \in 1 .. L
            BY <1>7, <3>1, <3>4
          <5> QED BY <1>3, <1>5, <4>1, <5>1 DEF L
        <4> QED BY <1>3, <4>2, <4>3
      <3> QED BY <1>3, <2>3, <3>2, <3>3, <3>4 DEF Lined, Listed, Once, Before
    <2> QED BY <2>2, <2>3
  <1>9. ASSUME ~readded', NEW j \in Migrations, mig'[j].pc = "delete", mig'[j].key \notin redel
        PROVE  HeldFrom(mig[j].new, mig[j].key)'
    <2>1. j # i /\ mig'[j] = mig[j]
      BY <1>3, <1>9 DEF OnlyOne
    <2>2. Listed(mig[j].new)
      BY <1>1, <1>9, <2>1 DEF Lineup, Lined, Moving
    <2>3. PICK p \in 1 .. L : db[nodes[p]][mig[j].key] # None /\ \A q \in 1 .. L : nodes[q] = mig[j].new => q <= p
      BY <1>1, <1>2, <1>9, <2>1 DEF CopyAhead, HeldFrom, L
    <2>4. \A q \in 1 .. L + 1 : nodes'[q] = mig[j].new => q \in 1 .. L /\ nodes[q] = mig[j].new
      BY <1>7, <1>9, <2>2
    <2>5. p \in 1 .. L + 1 /\ nodes'[p] = nodes[p]
      BY <1>3, <1>5 DEF L
    <2> QED BY <1>2, <1>3, <2>1, <2>3, <2>4, <2>5 DEF HeldFrom, L
  <1>10. CopyAhead'
    BY <1>2, <1>9 DEF CopyAhead
  <1>11. NoKeyLost'
    BY <1>1, <1>2 DEF NoKeyLost
  <1> QED BY <1>8, <1>10, <1>11 DEF LInv, Lineup

LEMMA NextLost == TInv /\ LInv /\ [Next]_vars => LInv'
  <1> SUFFICES ASSUME TInv, LInv, [Next]_vars PROVE LInv'
    OBVIOUS
  <1>1. CASE UNCHANGED <<nodes, db, mig, last, redel, readded>>
    BY <1>1, StillLined DEF LInv, Lineup, CopyAhead, HeldFrom, NoKeyLost
  <1>2. ASSUME NEW k \in Keys, NEW v \in Values \cup {None}, Route(k, v)
        PROVE  UNCHANGED <<nodes, db, mig, last, redel, readded>>
    BY <1>2 DEF Route, proxy, history
  <1>3. CASE UNCHANGED vars
    BY <1>1, <1>3 DEF vars
  <1> QED BY <1>1, <1>2, <1>3, ForwardLost, ListNodesLost, AddServerLost, MigrateLost DEF Next

\* Migration never loses a key: every copy it deletes has another one ahead of
\* it, at the server the key was moved to or at one added later, whichever calls
\* fail and however many migrations and writes of clients run side by side.
THEOREM KeysSurviveMigration == Spec => []NoKeyLost
  <1>1. LInv => NoKeyLost
    BY DEF LInv
  <1> QED BY Typing, InitLost, NextLost, <1>1, PTL DEF Spec

-----------------------------------------------------------------------------
(* One copy                                                                *)

Among(n, s) == \E p \in 1 .. Len(s) : s[p] = n

\* What SingleCopy excludes has not happened yet.
Orderly == faults = 0 /\ ~overlap /\ ~readded

Gone(k) == last[k] = None /\ \A n \in Nodes : db[n][k] = None

\* The only copy of k is at server o.
OnlyAt(k, o) ==
    /\ last[k] # None /\ o \in Nodes
    /\ db[o][k] \in {last[k], Transfer[last[k]]} \ {None}
    /\ \A n \in Nodes : n # o => db[n][k] = None

Home(k) == Gone(k) \/ OnlyAt(k, Owner(k))

\* The key is where the request r has yet to fetch it.
Waits(r, k) ==
    /\ r.pc \in Moving /\ Owner(k) = r.new
    /\ \E o \in Nodes :
          /\ Among(o, r.olds) /\ OnlyAt(k, o)
          /\ o = Head(r.olds) /\ r.pc # "fetch" => k \in r.keys \/ (r.pc \in {"get", "put"} /\ r.key = k)

\* The key is at the new server, and still at the old one.
Copied(r, k) ==
    /\ last[k] # None
    /\ db[r.new][k] \in {last[k], Transfer[last[k]]} \ {None}
    /\ \A n \in Nodes : n \notin {r.new, Head(r.olds)} => db[n][k] = None

Placed(r, k) == Home(k) \/ Waits(r, k) \/ (r.pc = "delete" /\ r.key = k)

\* The server asked is the one that has the value, and the new one is its owner.
InHand(r) ==
    /\ r.pc \in {"get", "put", "delete"} => Owner(r.key) = r.new
    /\ r.pc = "put" /\ r.key \notin dirty => OnlyAt(r.key, Head(r.olds)) /\ r.val = db[Head(r.olds)][r.key]
    /\ r.pc = "delete" /\ r.key \notin dirty => Copied(r, r.key)

Alone == \A i, j \in Migrations : Busy(i) /\ Busy(j) => i = j

Ready == \A i \in Migrations : InHand(mig[i]) /\ (mig[i].pc = "add" => mig[i].olds = nodes)

AllPlaced == \A k \in Keys \ dirty : Home(k) \/ \E i \in Migrations : Placed(mig[i], k)

\* The ring names only servers of the list.
RingListed == ring \in RingsOf(nodes)

SInv == RingListed /\ faults \in Nat /\ (Orderly => Alone /\ Ready /\ AllPlaced)

\* A value that has been transferred once arrives unchanged when it is sent on.
Settles == \A v \in Values : Transfer[v] \in Values => Transfer[Transfer[v]] = Transfer[v]

LEMMA InitSingle == Init => SInv
  <1> SUFFICES ASSUME Init PROVE SInv
    OBVIOUS
  <1>1. RingListed
    BY InitialRingTyped DEF Init, RingListed
  <1>2. \A i \in Migrations : mig[i].pc = "idle"
    BY DEF Init
  <1>3. Alone /\ Ready
    BY <1>2 DEF Alone, Busy, Ready, InHand
  <1>4. AllPlaced
    BY DEF Init, AllPlaced, Home, Gone
  <1> QED BY <1>1, <1>3, <1>4 DEF Init, SInv

\* A step that leaves a key alone at every server leaves it in its place.
LEMMA KeyKept ==
    ASSUME NEW k \in Keys, ring' = ring, last'[k] = last[k], \A n \in Nodes : db'[n][k] = db[n][k]
    PROVE  /\ Owner(k)' = Owner(k)
           /\ Home(k) => Home(k)'
           /\ \A o \in Nodes : OnlyAt(k, o) => OnlyAt(k, o)'
  <1>1. Owner(k)' = Owner(k)
    BY DEF Owner
  <1>2. Gone(k) => Gone(k)'
    BY DEF Gone
  <1>3. \A o \in Nodes : OnlyAt(k, o) => OnlyAt(k, o)'
    BY DEF OnlyAt
  <1>4. OnlyAt(k, Owner(k)) => OnlyAt(k, Owner(k))'
    BY <1>1 DEF OnlyAt
  <1> QED BY <1>1, <1>2, <1>3, <1>4 DEF Home

\* A single migration is all there is to look at.
LEMMA Focus ==
    ASSUME SInv, Orderly, NEW i \in Migrations, Busy(i)
    PROVE  /\ InHand(mig[i])
           /\ \A k \in Keys \ dirty : Placed(mig[i], k)
           /\ \A j \in Migrations : j # i => ~Busy(j)
  <1>1. Alone /\ Ready /\ AllPlaced
    BY DEF SInv
  <1>2. ASSUME NEW j \in Migrations, j # i PROVE ~Busy(j)
    BY <1>1, <1>2 DEF Alone
  <1>3. ASSUME NEW k \in Keys \ dirty PROVE Placed(mig[i], k)
    <2>1. CASE Home(k)
      BY <2>1 DEF Placed
    <2>2. CASE ~Home(k)
      <3>1. PICK j \in Migrations : Placed(mig[j], k)
        BY <1>1, <2>2 DEF AllPlaced
      <3>2. mig[j].pc \in Moving
        BY <2>2, <3>1 DEF Placed, Waits, Moving
      <3>3. j = i
        BY <1>2, <3>2 DEF Busy, Moving
      <3> QED BY <3>1, <3>3
    <2> QED BY <2>1, <2>2
  <1> QED BY <1>1, <1>2, <1>3 DEF Ready

\* What a step of the only migration has to leave behind
LEMMA Unfocus ==
    ASSUME NEW i \in Migrations, OnlyOne(i), mig'[i].pc \notin {"add"},
           \A j \in Migrations : j # i => ~Busy(j),
           InHand(mig[i])', \A k \in Keys \ dirty' : Placed(mig[i], k)'
    PROVE  (Alone /\ Ready /\ AllPlaced)'
  <1>1. \A j \in Migrations : j # i => mig'[j] = mig[j] /\ ~Busy(j)'
    BY DEF OnlyOne, Busy
  <1>2. Alone'
    BY <1>1 DEF Alone
  <1>3. ASSUME NEW j \in Migrations, j # i PROVE mig'[j].pc \in {"idle", "done"} /\ InHand(mig[j])'
    <2>1. mig'[j].pc \in {"idle", "done"}
      BY <1>1, <1>3 DEF Busy
    <2> QED BY <2>1 DEF InHand
  <1>4. Ready'
    BY <1>3 DEF Ready
  <1>5. AllPlaced'
    BY DEF AllPlaced
  <1> QED BY <1>2, <1>4, <1>5

\* A key waits on as long as the request has it left to do at the server it is
\* busy with.
Left(r, k) == r.pc = "fetch" \/ k \in r.keys \/ (r.pc \in {"get", "put"} /\ r.key = k)

LEMMA StaysPlaced ==
    ASSUME NEW i \in Migrations, NEW k \in Keys,
           ring' = ring, last' = last, \A n \in Nodes : db'[n][k] = db[n][k],
           mig'[i].new = mig[i].new, mig'[i].olds = mig[i].olds, mig'[i].pc \in Moving,
           Placed(mig[i], k), ~(mig[i].pc = "delete" /\ mig[i].key = k),
           OnlyAt(k, Old(i)) /\ Owner(k) = mig[i].new /\ Left(mig[i], k) => Left(mig'[i], k)
    PROVE  Placed(mig[i], k)'
  <1>1. /\ Owner(k)' = Owner(k) /\ (Home(k) => Home(k)')
        /\ \A o \in Nodes : OnlyAt(k, o) => OnlyAt(k, o)'
    BY KeyKept
  <1>2. CASE Home(k)
    BY <1>1, <1>2 DEF Placed
  <1>3. CASE Waits(mig[i], k)
    <2>1. Owner(k) = mig[i].new
      BY <1>3 DEF Waits
    <2>2. PICK o \in Nodes :
             /\ Among(o, mig[i].olds) /\ OnlyAt(k, o)
             /\ o = Head(mig[i].olds) /\ mig[i].pc # "fetch" => k \in mig[i].keys \/ (mig[i].pc \in {"get", "put"} /\ mig[i].key = k)
      BY <1>3 DEF Waits
    <2>3. OnlyAt(k, o)' /\ Among(o, mig'[i].olds)
      BY <1>1, <2>2
    <2>4. o = Head(mig'[i].olds) => Left(mig'[i], k)
      BY <2>1, <2>2 DEF Left, Old
    <2>5. Waits(mig[i], k)'
      BY <1>1, <2>1, <2>3, <2>4 DEF Waits, Left
    <2> QED BY <2>5 DEF Placed
  <1> QED BY <1>2, <1>3 DEF Placed

LEMMA FetchKeysSingle ==
    ASSUME TInv, SInv, Orderly, Orderly', NEW i \in Migrations, FetchKeys(i)
    PROVE  (Alone /\ Ready /\ AllPlaced)'
  <1> DEFINE K == KeyList(i)
  <1>1. /\ mig[i].pc = "fetch" /\ UNCHANGED <<ring, db, last, dirty>>
        /\ mig' = [mig EXCEPT ![i].pc = "key", ![i].keys = K]
    <2>1. ~Fault
      BY DEF Fault, Orderly, SInv
    <2> QED BY <2>1 DEF FetchKeys, Elsewhere, proxy
  <1> HIDE DEF K
  <1>2. Busy(i) /\ mig[i] \in MigStates
    BY <1>1 DEF Busy, TInv, MigTyped
  <1>3. /\ mig'[i].pc = "key" /\ mig'[i].keys = K /\ mig'[i].new = mig[i].new /\ mig'[i].olds = mig[i].olds
        /\ OnlyOne(i)
    <2>1. mig'[i] = [mig[i] EXCEPT !.pc = "key", !.keys = K]
      BY <1>1 DEF TInv, MigTyped
    <2>2. OnlyOne(i)
      BY FetchKeysStep DEF TInv, Advances
    <2> QED BY <1>2, <2>1, <2>2 DEF MigStates
  <1>4. InHand(mig[i])'
    BY <1>3 DEF InHand
  <1>5. ASSUME NEW k \in Keys \ dirty' PROVE Placed(mig[i], k)'
    <2>1. Placed(mig[i], k) /\ k \in Keys
      BY <1>1, <1>2, Focus
    <2>2. OnlyAt(k, Old(i)) => Left(mig'[i], k)
      BY <1>3 DEF OnlyAt, Left, K, KeyList
    <2> QED BY <1>1, <1>3, <2>1, <2>2, StaysPlaced DEF Moving
  <1> QED BY <1>2, <1>3, <1>4, <1>5, Focus, Unfocus

\* The server asked is through: what is left on the list still has its keys.
LEMMA NextServerSingle ==
    ASSUME TInv, SInv, Orderly, NEW i \in Migrations, mig[i].pc = "key", mig[i].keys = {}, NextServer(i),
           UNCHANGED <<ring, db, last, dirty>>
    PROVE  (Alone /\ Ready /\ AllPlaced)'
  <1>1. Busy(i) /\ mig[i] \in MigStates /\ mig[i].olds # <<>>
    BY DEF Busy, TInv, MigTyped, Phase
  <1>2. mig'[i].pc = "fetch" /\ mig'[i].new = mig[i].new /\ mig'[i].olds = Tail(mig[i].olds) /\ OnlyOne(i)
    <2>1. mig'[i] = [mig[i] EXCEPT !.pc = "fetch", !.olds = Tail(@), !.keys = {}]
      BY DEF NextServer, TInv, MigTyped
    <2>2. OnlyOne(i)
      BY <1>1, NextServerStep DEF TInv, Advances
    <2> QED BY <1>1, <2>1, <2>2 DEF MigStates
  <1>3. InHand(mig[i])'
    BY <1>2 DEF InHand
  <1>4. ASSUME NEW k \in Keys \ dirty' PROVE Placed(mig[i], k)'
    <2>1. Placed(mig[i], k) /\ k \in Keys
      BY <1>1, Focus
    <2>2. /\ Owner(k)' = Owner(k) /\ (Home(k) => Home(k)')
          /\ \A o \in Nodes : OnlyAt(k, o) => OnlyAt(k, o)'
      BY KeyKept
    <2>3. CASE Home(k)
      BY <2>2, <2>3 DEF Placed
    <2>4. CASE Waits(mig[i], k)
      <3>1. PICK o \in Nodes : Among(o, mig[i].olds) /\ OnlyAt(k, o) /\ o # Head(mig[i].olds)
        BY <2>4 DEF Waits
      <3>2. PICK p \in 1 .. Len(mig[i].olds) : mig[i].olds[p] = o
        BY <3>1 DEF Among
      <3>3. /\ Len(mig[i].olds) \in Nat /\ Head(mig[i].olds) = mig[i].olds[1]
            /\ Len(Tail(mig[i].olds)) = Len(mig[i].olds) - 1
            /\ \A q \in 1 .. Len(Tail(mig[i].olds)) : Tail(mig[i].olds)[q] = mig[i].olds[q + 1]
        BY <1>1, HeadTailProperties, LenProperties DEF MigStates
      <3>4. p # 1
        BY <3>1, <3>2, <3>3
      <3>5. p - 1 \in 1 .. Len(Tail(mig[i].olds)) /\ p - 1 + 1 = p
        BY <3>2, <3>3, <3>4
      <3>6. Tail(mig[i].olds)[p - 1] = o
        BY <3>2, <3>3, <3>5
      <3>7. Among(o, Tail(mig[i].olds))
        BY <3>5, <3>6 DEF Among
      <3>8. Owner(k) = mig[i].new
        BY <2>4 DEF Waits
      <3>9. Waits(mig[i], k)'
        BY <1>2, <2>2, <3>1, <3>7, <3>8 DEF Waits, Moving
      <3> QED BY <3>9 DEF Placed
    <2> QED BY <2>1, <2>3, <2>4 DEF Placed
  <1> QED BY <1>1, <1>2, <1>3, <1>4, Focus, Unfocus

LEMMA CheckKeySingle ==
    ASSUME TInv, SInv, Orderly, NEW i \in Migrations, CheckKey(i)
    PROVE  (Alone /\ Ready /\ AllPlaced)'
  <1>1. mig[i].pc = "key" /\ UNCHANGED <<ring, db, last, dirty>>
    BY DEF CheckKey, Elsewhere, proxy
  <1>2. Busy(i) /\ mig[i] \in MigStates
    BY <1>1 DEF Busy, TInv, MigTyped
  <1>3. OnlyOne(i)
    BY CheckKeyStep DEF TInv, Advances
  <1>4. CASE mig[i].keys = {}
    BY <1>1, <1>4, NextServerSingle DEF CheckKey
  <1>5. CASE mig[i].keys # {}
    <2>1. PICK j \in mig[i].keys :
             IF Owner(j) = mig[i].new
             THEN mig' = [mig EXCEPT ![i].keys = @ \ {j}, ![i].pc = "get", ![i].key = j]
             ELSE mig' = [mig EXCEPT ![i].keys = @ \ {j}]
      BY <1>5 DEF CheckKey
    <2>2. CASE Owner(j) = mig[i].new
      <3>1. mig'[i] = [mig[i] EXCEPT !.keys = @ \ {j}, !.pc = "get", !.key = j]
        BY <2>1, <2>2 DEF TInv, MigTyped
      <3>2. /\ mig'[i].pc = "get" /\ mig'[i].keys = mig[i].keys \ {j} /\ mig'[i].key = j
            /\ mig'[i].new = mig[i].new /\ mig'[i].olds = mig[i].olds
        BY <1>2, <3>1 DEF MigStates
      <3>3. InHand(mig[i])'
        BY <1>1, <2>2, <3>2 DEF InHand, Owner
      <3>4. ASSUME NEW k \in Keys \ dirty' PROVE Placed(mig[i], k)'
        <4>1. Placed(mig[i], k) /\ k \in Keys
          BY <1>1, <1>2, Focus
        <4>2. Left(mig[i], k) => Left(mig'[i], k)
          BY <1>1, <3>2 DEF Left
        <4> QED BY <1>1, <3>2, <4>1, <4>2, StaysPlaced DEF Moving
      <3> QED BY <1>2, <1>3, <3>2, <3>3, <3>4, Focus, Unfocus
    <2>3. CASE Owner(j) # mig[i].new
      <3>1. mig'[i] = [mig[i] EXCEPT !.keys = @ \ {j}]
        BY <2>1, <2>3 DEF TInv, MigTyped
      <3>2. /\ mig'[i].pc = "key" /\ mig'[i].keys = mig[i].keys \ {j}
            /\ mig'[i].new = mig[i].new /\ mig'[i].olds = mig[i].olds
        BY <1>1, <1>2, <3>1 DEF MigStates
      <3>3. InHand(mig[i])'
        BY <3>2 DEF InHand
      <3>4. ASSUME NEW k \in Keys \ dirty' PROVE Placed(mig[i], k)'
        <4>1. Placed(mig[i], k) /\ k \in Keys
          BY <1>1, <1>2, Focus
        <4>2. Owner(k) = mig[i].new /\ Left(mig[i], k) => Left(mig'[i], k)
          BY <1>1, <2>3, <3>2 DEF Left
        <4> QED BY <1>1, <3>2, <4>1, <4>2, StaysPlaced DEF Moving
      <3> QED BY <1>2, <1>3, <3>2, <3>3, <3>4, Focus, Unfocus
    <2> QED BY <2>2, <2>3
  <1> QED BY <1>4, <1>5

\* On to the next key, when this one is not waiting at the server asked.
LEMMA NextKeySingle ==
    ASSUME TInv, SInv, Orderly, NEW i \in Migrations, mig[i].pc \in {"get", "put"}, NextKey(i),
           UNCHANGED <<ring, db, last>>, dirty \subseteq dirty',
           mig[i].key \in dirty' \/ ~OnlyAt(mig[i].key, Old(i))
    PROVE  (Alone /\ Ready /\ AllPlaced)'
  <1>1. Busy(i) /\ mig[i] \in MigStates
    BY DEF Busy, TInv, MigTyped
  <1>2. mig'[i] = [mig[i] EXCEPT !.pc = "key", !.key = None, !.val = None]
    BY DEF NextKey, TInv, MigTyped
  <1>3. mig'[i].pc = "key" /\ mig'[i].keys = mig[i].keys /\ mig'[i].new = mig[i].new /\ mig'[i].olds = mig[i].olds
    BY <1>1, <1>2 DEF MigStates
  <1>4. OnlyOne(i)
    BY NextKeyStep DEF TInv, Advances
  <1>5. InHand(mig[i])'
    BY <1>3 DEF InHand
  <1>6. ASSUME NEW k \in Keys \ dirty' PROVE Placed(mig[i], k)'
    <2>1. Placed(mig[i], k) /\ k \in Keys
      BY <1>1, Focus
    <2>2. OnlyAt(k, Old(i)) /\ Left(mig[i], k) => Left(mig'[i], k)
      BY <1>3 DEF Left
    <2> QED BY <1>3, <2>1, <2>2, StaysPlaced DEF Moving
  <1> QED BY <1>1, <1>3, <1>4, <1>5, <1>6, Focus, Unfocus

\* The new server is not the one asked.
LEMMA NewIsElsewhere ==
    ASSUME TInv, Lineup, ~readded, NEW i \in Migrations, mig[i].pc \in {"get", "put", "delete"}
    PROVE  Old(i) # mig[i].new /\ Old(i) \in Nodes /\ mig[i].new \in Nodes /\ mig[i].key \in Keys
  <1>1. Lined(mig[i]) /\ mig[i].pc \in Moving
    BY DEF Lineup, Moving
  <1>2. PICK q \in 1 .. Len(nodes) : nodes[q] = mig[i].new
    BY <1>1 DEF Lined, Listed
  <1>3. Old(i) = mig[i].olds[1] /\ 1 \in 1 .. Len(mig[i].olds) /\ Old(i) \in Nodes
    BY OldTyped DEF TInv
  <1>4. Before(Old(i), mig[i].new)
    BY <1>1, <1>3 DEF Lined
  <1>5. Old(i) # mig[i].new
    BY <1>2, <1>4 DEF Before
  <1> QED BY <1>1, <1>3, <1>5 DEF TInv, MigTyped, Phase, Moving

LEMMA GetValueSingle ==
    ASSUME TInv, LInv, SInv, Orderly, Orderly', NEW i \in Migrations, GetValue(i)
    PROVE  (Alone /\ Ready /\ AllPlaced)'
  <1> DEFINE j == mig[i].key
             v == db[Old(i)][j]
  <1>1. mig[i].pc = "get" /\ UNCHANGED <<ring, db, last, dirty>>
    BY DEF GetValue, Elsewhere, proxy
  <1>2. Busy(i) /\ mig[i] \in MigStates
    BY <1>1 DEF Busy, TInv, MigTyped
  <1>3. OnlyOne(i)
    BY GetValueStep DEF TInv, Advances
  <1>4. Old(i) # mig[i].new /\ Old(i) \in Nodes /\ mig[i].new \in Nodes /\ j \in Keys
    BY <1>1, NewIsElsewhere DEF LInv, Orderly
  <1>5. \/ v # None /\ mig' = [mig EXCEPT ![i].pc = "put", ![i].val = v]
        \/ v = None /\ NextKey(i)
    BY DEF GetValue, Fault, Orderly, SInv
  <1>6. CASE v = None
    <2>1. ~OnlyAt(mig[i].key, Old(i))
      BY <1>6 DEF OnlyAt
    <2> QED BY <1>1, <1>5, <1>6, <2>1, NextKeySingle
  <1>7. CASE v # None
    <2>1. mig'[i] = [mig[i] EXCEPT !.pc = "put", !.val = v]
      BY <1>5, <1>7 DEF TInv, MigTyped
    <2> HIDE DEF v
    <2>2. /\ mig'[i].pc = "put" /\ mig'[i].keys = mig[i].keys /\ mig'[i].key = j /\ mig'[i].val = v
          /\ mig'[i].new = mig[i].new /\ mig'[i].olds = mig[i].olds
      BY <1>2, <2>1 DEF MigStates
    <2>3. Owner(j) = mig[i].new
      BY <1>1, <1>2, Focus DEF InHand
    <2>4. j \notin dirty => OnlyAt(j, Old(i))
      <3> SUFFICES ASSUME j \notin dirty PROVE OnlyAt(j, Old(i))
        OBVIOUS
      <3>1. Placed(mig[i], j)
        BY <1>2, <1>4, Focus
      <3>2. ~Home(j)
        BY <1>4, <1>7, <2>3 DEF Home, Gone, OnlyAt, v
      <3>3. Waits(mig[i], j)
        BY <1>1, <3>1, <3>2 DEF Placed
      <3>4. PICK o \in Nodes : OnlyAt(j, o)
        BY <3>3 DEF Waits
      <3>5. o = Old(i)
        BY <1>4, <1>7, <3>4 DEF OnlyAt, v
      <3> QED BY <3>4, <3>5
    <2>5. InHand(mig[i])'
      <3>1. (mig[i].pc \in {"get", "put", "delete"} => Owner(mig[i].key) = mig[i].new)'
        BY <1>1, <2>2, <2>3 DEF Owner
      <3>2. j \notin dirty => OnlyAt(j, Old(i))' /\ v = db'[Old(i)][j]
        BY <1>1, <1>4, <2>2, <2>4 DEF OnlyAt, v, Old
      <3>3. (mig[i].pc = "put" /\ mig[i].key \notin dirty => OnlyAt(mig[i].key, Head(mig[i].olds)) /\ mig[i].val = db[Head(mig[i].olds)][mig[i].key])'
        BY <1>1, <2>2, <3>2 DEF OnlyAt, Old
      <3>4. mig'[i].pc # "delete"
        BY <2>2
      <3> QED BY <3>1, <3>3, <3>4 DEF InHand
    <2>6. ASSUME NEW k \in Keys \ dirty' PROVE Placed(mig[i], k)'
      <3>1. Placed(mig[i], k) /\ k \in Keys
        BY <1>1, <1>2, Focus
      <3>2. Left(mig[i], k) => Left(mig'[i], k)
        BY <1>1, <2>2 DEF Left
      <3> QED BY <1>1, <2>2, <3>1, <3>2, StaysPlaced DEF Moving
    <2> QED BY <1>2, <1>3, <2>2, <2>5, <2>6, Focus, Unfocus
  <1> QED BY <1>6, <1>7

LEMMA PutValueSingle ==
    ASSUME Settles, TInv, LInv, SInv, Orderly, Orderly', NEW i \in Migrations, PutValue(i)
    PROVE  (Alone /\ Ready /\ AllPlaced)'
  <1>1. mig[i].pc = "put" /\ UNCHANGED <<ring, last>>
    BY DEF PutValue, Elsewhere, proxy
  <1>2. Busy(i) /\ mig[i] \in MigStates /\ DataTyped /\ MigTyped
    BY <1>1 DEF Busy, TInv, MigTyped
  <1>3. Old(i) # mig[i].new /\ Old(i) \in Nodes /\ mig[i].new \in Nodes /\ mig[i].key \in Keys
    BY <1>1, NewIsElsewhere DEF LInv, Orderly
  <1>4. \/ ~Refuses(i) /\ db' = Stored(i) /\ mig' = [mig EXCEPT ![i].pc = "delete"] /\ dirty' = dirty
        \/ NextKey(i) /\ dirty' = dirty \cup {mig[i].key} /\ db' = db
    BY DEF PutValue, Fault, Orderly, SInv
  <1>5. CASE NextKey(i) /\ dirty' = dirty \cup {mig[i].key} /\ db' = db
    BY <1>1, <1>5, NextKeySingle
  <1>6. CASE ~Refuses(i) /\ db' = Stored(i) /\ mig' = [mig EXCEPT ![i].pc = "delete"] /\ dirty' = dirty
    <2>1. mig'[i] = [mig[i] EXCEPT !.pc = "delete"]
      BY <1>2, <1>6 DEF MigTyped
    <2>2. /\ mig'[i].pc = "delete" /\ mig'[i].keys = mig[i].keys /\ mig'[i].key = mig[i].key
          /\ mig'[i].new = mig[i].new /\ mig'[i].olds = mig[i].olds
      BY <1>2, <2>1 DEF MigStates
    <2>3. OnlyOne(i)
      <3>1. mig'[i].pc \notin Moving \ {"delete"}
        BY <2>2
      <3> QED BY <1>2, <3>1, PutValueStep DEF PutDone, PutFailed, Advances
    <2>4. /\ mig[i].val \in Values /\ Transfer[mig[i].val] \in Values
          /\ \A m \in Nodes, j \in Keys :
                db'[m][j] = IF m = mig[i].new /\ j = mig[i].key THEN Transfer[mig[i].val] ELSE db[m][j]
      BY <1>1, <1>2, <1>6, StoredIs
    <2>5. InHand(mig[i])
      BY <1>2, Focus
    <2>6. InHand(mig[i])'
      <3>1. (mig[i].pc \in {"get", "put", "delete"} => Owner(mig[i].key) = mig[i].new)'
        BY <1>1, <2>2, <2>5 DEF InHand, Owner
      <3>2. ASSUME mig[i].key \notin dirty PROVE Copied(mig[i], mig[i].key)'
        <4>1. PICK j \in Keys : j = mig[i].key
          BY <1>3
        <4>2. OnlyAt(j, Old(i)) /\ mig[i].val = db[Old(i)][j]
          BY <1>1, <2>5, <3>2, <4>1 DEF InHand, Old
        <4>3. last[j] \in Values /\ mig[i].val \in {last[j], Transfer[last[j]]}
          BY <1>2, <4>2 DEF OnlyAt, DataTyped, Copies
        <4>4. Transfer[mig[i].val] = Transfer[last[j]]
          BY <2>4, <4>3 DEF Settles
        <4>5. db'[mig[i].new][j] = Transfer[last[j]] /\ Transfer[last[j]] # None
          BY <1>3, <2>4, <4>1, <4>4, Constants
        <4>6. \A n \in Nodes : n \notin {mig[i].new, Old(i)} => db'[n][j] = None
          BY <2>4, <4>1, <4>2 DEF OnlyAt
        <4> QED BY <1>1, <2>2, <4>1, <4>2, <4>5, <4>6 DEF Copied, OnlyAt, Old
      <3>3. mig'[i].pc # "put"
        BY <2>2
      <3> QED BY <1>6, <2>2, <3>1, <3>2, <3>3 DEF InHand
    <2>7. ASSUME NEW k \in Keys \ dirty' PROVE Placed(mig[i], k)'
      <3>1. CASE k = mig[i].key
        BY <2>2, <3>1 DEF Placed
      <3>2. CASE k # mig[i].key
        <4>1. Placed(mig[i], k) /\ k \in Keys
          BY <1>2, <1>6, Focus
        <4>2. Left(mig[i], k) => Left(mig'[i], k)
          BY <1>1, <2>2, <3>2 DEF Left
        <4>3. \A n \in Nodes : db'[n][k] = db[n][k]
          BY <2>4, <3>2, <4>1
        <4>4. mig'[i].pc \in Moving
          BY <2>2 DEF Moving
        <4> QED BY <1>1, <2>2, <4>1, <4>2, <4>3, <4>4, StaysPlaced
      <3> QED BY <3>1, <3>2
    <2> QED BY <1>2, <2>2, <2>3, <2>6, <2>7, Focus, Unfocus
  <1> QED BY <1>4, <1>5, <1>6

LEMMA DeleteKeySingle ==
    ASSUME TInv, LInv, SInv, Orderly, Orderly', NEW i \in Migrations, DeleteKey(i)
    PROVE  (Alone /\ Ready /\ AllPlaced)'
  <1>1. mig[i].pc = "delete" /\ UNCHANGED <<ring, last, dirty>> /\ NextKey(i) /\ db' = Without(i)
    BY DEF DeleteKey, Elsewhere, proxy, Fault, Orderly, SInv
  <1>2. Busy(i) /\ mig[i] \in MigStates /\ DataTyped /\ MigTyped
    BY <1>1 DEF Busy, TInv, MigTyped
  <1>3. Old(i) # mig[i].new /\ Old(i) \in Nodes /\ mig[i].new \in Nodes /\ mig[i].key \in Keys
    BY <1>1, NewIsElsewhere DEF LInv, Orderly
  <1>4. mig'[i] = [mig[i] EXCEPT !.pc = "key", !.key = None, !.val = None]
    BY <1>1, <1>2 DEF NextKey, MigTyped
  <1>5. mig'[i].pc = "key" /\ mig'[i].keys = mig[i].keys /\ mig'[i].new = mig[i].new /\ mig'[i].olds = mig[i].olds
    BY <1>2, <1>4 DEF MigStates
  <1>6. OnlyOne(i)
    BY <1>1, <1>2, NextKeyStep DEF Advances
  <1>7. InHand(mig[i])'
    BY <1>5 DEF InHand
  <1>8. \A m \in Nodes, j \in Keys : db'[m][j] = IF m = Old(i) /\ j = mig[i].key THEN None ELSE db[m][j]
    BY <1>1, <1>2, WithoutIs
  <1>9. ASSUME NEW k \in Keys \ dirty' PROVE Placed(mig[i], k)'
    <2>1. CASE k = mig[i].key
      <3>1. Owner(k) = mig[i].new /\ Copied(mig[i], k)
        BY <1>1, <1>2, <2>1, Focus DEF InHand
      <3>2. Owner(k)' = mig[i].new
        BY <1>1, <3>1 DEF Owner
      <3>3. OnlyAt(k, Owner(k))'
        BY <1>1, <1>3, <1>8, <2>1, <3>1, <3>2 DEF OnlyAt, Copied, Old
      <3> QED BY <3>3 DEF Placed, Home
    <2>2. CASE k # mig[i].key
      <3>1. Placed(mig[i], k) /\ k \in Keys
        BY <1>1, <1>2, Focus
      <3>2. Left(mig[i], k) => Left(mig'[i], k)
        BY <1>1, <1>5, <2>2 DEF Left
      <3>3. \A n \in Nodes : db'[n][k] = db[n][k]
        BY <1>8, <2>2, <3>1
      <3>4. mig'[i].pc \in Moving
        BY <1>5 DEF Moving
      <3> QED BY <1>1, <1>5, <2>2, <3>1, <3>2, <3>3, <3>4, StaysPlaced
    <2> QED BY <2>1, <2>2
  <1> QED BY <1>2, <1>5, <1>6, <1>7, <1>9, Focus, Unfocus

LEMMA CompletedSingle ==
    ASSUME TInv, SInv, Orderly, NEW i \in Migrations, Completed(i)
    PROVE  (Alone /\ Ready /\ AllPlaced)'
  <1>1. mig[i].pc = "fetch" /\ mig[i].olds = <<>> /\ UNCHANGED <<ring, db, last, dirty>>
    BY DEF Completed, Elsewhere, proxy
  <1>2. Busy(i)
    BY <1>1 DEF Busy
  <1>3. OnlyOne(i) /\ mig'[i].pc = "done"
    BY CompletedStep DEF TInv, Ends
  <1>4. InHand(mig[i])'
    BY <1>3 DEF InHand
  <1>5. ASSUME NEW k \in Keys \ dirty' PROVE Placed(mig[i], k)'
    <2>1. Placed(mig[i], k) /\ k \in Keys
      BY <1>1, <1>2, Focus
    <2>2. ~Waits(mig[i], k)
      BY <1>1 DEF Waits, Among
    <2>3. Home(k)
      BY <1>1, <2>1, <2>2 DEF Placed
    <2>4. Home(k)'
      BY <1>1, <2>1, <2>3, KeyKept
    <2> QED BY <2>4 DEF Placed
  <1> QED BY <1>2, <1>3, <1>4, <1>5, Focus, Unfocus

\* While no migration runs, every key is at home.
LEMMA QuietHome ==
    ASSUME SInv, Orderly, NEW k \in Keys \ dirty,
           \A i \in Migrations : mig[i].pc \notin Moving
    PROVE  Home(k)
  <1>1. AllPlaced
    BY DEF SInv
  <1> QED BY <1>1 DEF AllPlaced, Placed, Waits, Moving

LEMMA ListNodesSingle ==
    ASSUME TInv, SInv, Orderly, Orderly', NEW i \in Migrations, NEW n \in Joining, ListNodes(i, n)
    PROVE  (Alone /\ Ready /\ AllPlaced)'
  <1>1. UNCHANGED <<ring, nodes, db, last, dirty>> /\ Quiet
    BY DEF ListNodes, proxy, history, Orderly
  <1>2. OnlyOne(i) /\ mig'[i].pc = "add" /\ mig'[i].olds = nodes
    BY ListNodesStep
  <1>3. \A j \in Migrations : mig[j].pc \in {"idle", "done"}
    BY <1>1 DEF Quiet, Busy
  <1>4. \A j \in Migrations : j # i => mig'[j].pc \in {"idle", "done"}
    BY <1>2, <1>3 DEF OnlyOne
  <1>5. Alone'
    BY <1>4 DEF Alone, Busy
  <1>6. \A j \in Migrations : mig'[j].pc \in {"idle", "done", "add"}
    BY <1>2, <1>4
  <1>7. \A j \in Migrations : InHand(mig[j])'
    BY <1>6 DEF InHand
  <1>8. Ready'
    BY <1>1, <1>2, <1>4, <1>7 DEF Ready
  <1>9. ASSUME NEW k \in Keys \ dirty' PROVE Home(k)'
    <2>1. k \in Keys /\ Home(k)
      BY <1>1, <1>3, QuietHome DEF Moving
    <2> QED BY <1>1, <2>1, KeyKept
  <1> QED BY <1>5, <1>8, <1>9 DEF AllPlaced

\* The ring changes hands of keys to the new server only, and what it takes over
\* is at a server on its list.
LEMMA AddServerSingle ==
    ASSUME TInv, SInv, Orderly, NEW i \in Migrations, AddServer(i)
    PROVE  (Alone /\ Ready /\ AllPlaced)'
  <1>1. UNCHANGED <<db, last, dirty>>
    BY DEF AddServer, history
  <1>2. /\ OnlyOne(i) /\ mig[i].pc = "add" /\ mig[i].new \in Nodes
        /\ mig'[i].pc = "fetch" /\ mig'[i].new = mig[i].new /\ mig'[i].olds = mig[i].olds
        /\ ring' = AddNode(ring, VHash, mig[i].new)
    BY AddServerStep
  <1>3. Busy(i) /\ mig[i].olds = nodes /\ ring \in RingsOf(nodes) /\ ring \in Rings
    BY <1>2 DEF Busy, SInv, Ready, RingListed, RingsOf
  <1>4. InHand(mig[i])'
    BY <1>2 DEF InHand
  <1>5. ASSUME NEW k \in Keys \ dirty' PROVE Placed(mig[i], k)'
    <2>1. k \in Keys /\ k \notin dirty
      BY <1>1
    <2>2. Home(k)
      <3>1. \A j \in Migrations : mig[j].pc \notin Moving
        BY <1>2, <1>3, Focus DEF Busy, Moving
      <3> QED BY <2>1, <3>1, QuietHome
    <2>3. KHash[k] \in Positions
      BY <2>1, Constants
    <2>4. Owner(k)' \in {mig[i].new, Owner(k)}
      BY <1>2, <1>3, <2>3, AddNodeMoves DEF Owner
    <2>5. CASE Gone(k)
      <3>1. Gone(k)'
        BY <1>1, <2>5 DEF Gone
      <3> QED BY <3>1 DEF Placed, Home
    <2>6. CASE OnlyAt(k, Owner(k))
      <3>1. PICK o : o = Owner(k)
        OBVIOUS
      <3>2. o \in Nodes /\ OnlyAt(k, o)'
        BY <1>1, <2>6, <3>1 DEF OnlyAt
      <3>3. CASE Owner(k)' = Owner(k)
        <4>1. OnlyAt(k, Owner(k))'
          BY <3>1, <3>2, <3>3 DEF OnlyAt
        <4> QED BY <4>1 DEF Placed, Home
      <3>4. CASE Owner(k)' = mig[i].new
        <4>1. Among(o, nodes)
          <5>1. GetNode(ring, KHash[k]) = o /\ o # None
            BY <3>1, <3>2, Constants DEF Owner
          <5>2. ~IsEmpty(ring)
            BY <5>1 DEF GetNode
          <5>3. Stop(ring, KHash[k]) \in Positions /\ o = ring.hashMap[Stop(ring, KHash[k])]
            BY <2>3, <5>1, <5>2, StopTaken DEF Taken
          <5> QED BY <1>3, <5>1, <5>3 DEF RingsOf, Among
        <4>2. Waits(mig[i], k)'
          BY <1>2, <1>3, <3>2, <3>4, <4>1 DEF Waits, Moving
        <4> QED BY <4>2 DEF Placed
      <3> QED BY <2>4, <3>3, <3>4
    <2> QED BY <2>2, <2>5, <2>6 DEF Home
  <1> QED BY <1>2, <1>3, <1>4, <1>5, Focus, Unfocus

\* A write that misses its server, or comes while a migration runs, makes its key
\* one nothing is promised of.
LEMMA ForwardSingle ==
    ASSUME TInv, SInv, Orderly, NEW r \in pending, Forward(r)
    PROVE  (Alone /\ Ready /\ AllPlaced)'
  <1>1. Alone /\ Ready /\ AllPlaced
    BY DEF SInv
  <1>2. r.target \in Nodes /\ r.key \in Keys /\ r.val \in Copies /\ UNCHANGED <<ring, nodes, mig>>
    BY ForwardStep
  <1>3. Alone'
    BY <1>1, <1>2 DEF Alone, Busy
  <1> DEFINE clean == Quiet /\ r.target = Owner(r.key)
  <1>4. /\ dirty \subseteq dirty'
        /\ \A k \in Keys \ dirty', n \in Nodes :
              k # r.key => db'[n][k] = db[n][k] /\ last'[k] = last[k]
        /\ \/ UNCHANGED <<db, last>>
           \/ r.key \in dirty'
           \/ /\ clean /\ last'[r.key] = r.val
              /\ \A n \in Nodes : db'[n][r.key] = IF n = r.target THEN r.val ELSE db[n][r.key]
    <2>1. CASE UNCHANGED <<db, last, dirty, redel>>
      BY <2>1
    <2>2. CASE /\ \A m \in Nodes, j \in Keys : db'[m][j] = IF m = r.target /\ j = r.key THEN r.val ELSE db[m][j]
               /\ last' = [last EXCEPT ![r.key] = r.val]
               /\ dirty' = (IF clean THEN dirty ELSE dirty \cup {r.key})
      <3>1. \A k \in Keys : last'[k] = IF k = r.key THEN r.val ELSE last[k]
        BY <1>2, <2>2 DEF TInv, DataTyped
      <3> HIDE DEF clean
      <3>2. dirty \subseteq dirty' /\ (r.key \in dirty' \/ clean)
        BY <2>2
      <3>3. \A n \in Nodes : db'[n][r.key] = IF n = r.target THEN r.val ELSE db[n][r.key]
        BY <1>2, <2>2
      <3>4. \A k \in Keys \ dirty', n \in Nodes : k # r.key => db'[n][k] = db[n][k] /\ last'[k] = last[k]
        BY <2>2, <3>1
      <3>5. last'[r.key] = r.val
        BY <1>2, <3>1
      <3> QED BY <3>2, <3>3, <3>4, <3>5
    <2> QED BY <2>1, <2>2, ForwardStep
  <1> HIDE DEF clean
  <1>5. ASSUME \A k \in Keys \ dirty', n \in Nodes : db'[n][k] = db[n][k] /\ last'[k] = last[k]
        PROVE  (Ready /\ AllPlaced)'
    <2>1. ASSUME NEW k \in Keys \ dirty'
          PROVE  /\ k \in Keys \ dirty /\ last'[k] = last[k] /\ \A n \in Nodes : db'[n][k] = db[n][k]
                 /\ Owner(k)' = Owner(k) /\ (Home(k) => Home(k)')
                 /\ \A o \in Nodes : OnlyAt(k, o) => OnlyAt(k, o)'
      <3>1. k \in Keys /\ k \notin dirty
        BY <1>4
      <3>2. last'[k] = last[k] /\ \A n \in Nodes : db'[n][k] = db[n][k]
        BY <1>2, <1>5
      <3> QED BY <1>2, <3>1, <3>2, KeyKept
    <2>2. ASSUME NEW j \in Migrations PROVE InHand(mig[j])'
      <3>1. InHand(mig[j]) /\ mig'[j] = mig[j]
        BY <1>1, <1>2 DEF Ready
      <3>2. (mig[j].pc \in {"get", "put", "delete"} => Owner(mig[j].key) = mig[j].new)'
        BY <1>2, <3>1 DEF InHand, Owner
      <3>3. CASE mig[j].pc \in {"put", "delete"} /\ mig[j].key \notin dirty'
        <4>1. PICK k \in Keys \ dirty' : k = mig[j].key
          BY <3>3 DEF TInv, MigTyped, Phase
        <4>2. mig[j].new \in Nodes /\ Head(mig[j].olds) \in Nodes
          BY <3>3, OldTyped DEF TInv, MigTyped, Phase, Moving, Old
        <4>3. k \notin dirty /\ last'[k] = last[k] /\ \A n \in Nodes : db'[n][k] = db[n][k]
          BY <2>1
        <4>4. mig[j].pc = "put" => (OnlyAt(k, Head(mig[j].olds)) /\ mig[j].val = db[Head(mig[j].olds)][k])'
          BY <3>1, <4>1, <4>2, <4>3 DEF InHand, OnlyAt
        <4>5. mig[j].pc = "delete" => Copied(mig[j], k)'
          BY <3>1, <4>1, <4>2, <4>3 DEF InHand, Copied
        <4>6. mig'[j].key = k
          BY <3>1, <4>1
        <4>7. (mig[j].pc = "put" /\ mig[j].key \notin dirty => OnlyAt(mig[j].key, Head(mig[j].olds)) /\ mig[j].val = db[Head(mig[j].olds)][mig[j].key])'
          BY <3>1, <4>4, <4>6 DEF OnlyAt
        <4>8. (mig[j].pc = "delete" /\ mig[j].key \notin dirty => Copied(mig[j], mig[j].key))'
          BY <3>1, <4>5, <4>6 DEF Copied
        <4> QED BY <3>2, <4>7, <4>8 DEF InHand
      <3>4. CASE ~(mig[j].pc \in {"put", "delete"} /\ mig[j].key \notin dirty')
        BY <3>1, <3>2, <3>4 DEF InHand
      <3> QED BY <3>3, <3>4
    <2>3. Ready'
      BY <1>1, <1>2, <2>2 DEF Ready
    <2>4. ASSUME NEW k \in Keys \ dirty' PROVE (Home(k) \/ \E j \in Migrations : Placed(mig[j], k))'
      <3>1. CASE Home(k)
        BY <2>1, <3>1
      <3>2. CASE ~Home(k)
        <4>1. k \in Keys \ dirty
          BY <2>1
        <4>2. PICK j \in Migrations : Placed(mig[j], k)
          BY <1>1, <3>2, <4>1 DEF AllPlaced
        <4>3. CASE mig[j].pc = "delete" /\ mig[j].key = k
          BY <1>2, <4>3 DEF Placed
        <4>4. CASE Waits(mig[j], k)
          <5>1. Waits(mig[j], k)'
            BY <1>2, <2>1, <4>4 DEF Waits
          <5> QED BY <5>1 DEF Placed
        <4> QED BY <3>2, <4>2, <4>3, <4>4 DEF Placed
      <3> QED BY <3>1, <3>2
    <2> QED BY <2>3, <2>4 DEF AllPlaced
  <1>6. CASE UNCHANGED <<db, last>> \/ r.key \in dirty'
    BY <1>3, <1>4, <1>5, <1>6
  <1>7. CASE /\ clean /\ last'[r.key] = r.val
             /\ \A n \in Nodes : db'[n][r.key] = IF n = r.target THEN r.val ELSE db[n][r.key]
    <2>1. Quiet /\ r.target = Owner(r.key)
      BY <1>7 DEF clean
    <2>2. \A j \in Migrations : mig[j].pc \in {"idle", "done"} /\ mig'[j] = mig[j]
      BY <1>2, <2>1 DEF Quiet, Busy
    <2>3. Ready'
      BY <2>2 DEF Ready, InHand
    <2>4. ASSUME NEW k \in Keys \ dirty' PROVE Home(k)'
      <3>1. k \in Keys /\ k \notin dirty
        BY <1>4
      <3>2. Home(k)
        BY <2>2, <3>1, QuietHome DEF Moving
      <3>3. CASE k # r.key
        <4>1. last'[k] = last[k] /\ \A n \in Nodes : db'[n][k] = db[n][k]
          BY <1>2, <1>4, <3>3
        <4> QED BY <1>2, <3>1, <3>2, <4>1, KeyKept
      <3>4. CASE k = r.key
        <4>1. Owner(k) = r.target /\ Owner(k)' = r.target
          BY <1>2, <2>1, <3>4 DEF Owner
        <4>2. \A n \in Nodes : n # r.target => db[n][k] = None
          BY <3>2, <4>1 DEF Home, Gone, OnlyAt
        <4>3. /\ last'[k] = r.val /\ db'[r.target][k] = r.val
              /\ \A n \in Nodes : n # r.target => db'[n][k] = None
          BY <1>2, <1>7, <3>4, <4>2
        <4>4. CASE r.val = None
          <5>1. Gone(k)'
            BY <4>3, <4>4 DEF Gone
          <5> QED BY <5>1 DEF Home
        <4>5. CASE r.val # None
          <5>1. OnlyAt(k, Owner(k))'
            BY <1>2, <4>1, <4>3, <4>5 DEF OnlyAt
          <5> QED BY <5>1 DEF Home
        <4> QED BY <4>4, <4>5
      <3> QED BY <3>3, <3>4
    <2> QED BY <1>3, <2>3, <2>4 DEF AllPlaced
  <1> QED BY <1>4, <1>6, <1>7

LEMMA NextSingle == Settles /\ TInv /\ LInv /\ SInv /\ [Next]_vars => SInv'
  <1> SUFFICES ASSUME Settles, TInv, LInv, SInv, [Next]_vars PROVE SInv'
    OBVIOUS
  <1>1. RingListed /\ faults \in Nat
    BY DEF SInv
  <1>2. ASSUME NEW i \in Migrations, Migrate(i), Orderly' PROVE Orderly /\ (Alone /\ Ready /\ AllPlaced)'
    <2>1. UNCHANGED <<overlap, readded>> /\ faults' \in {faults, faults + 1}
      BY <1>2 DEF Migrate, FetchKeys, CheckKey, GetValue, PutValue, DeleteKey, Completed, Elsewhere, Fault
    <2>2. Orderly
      BY <1>1, <1>2, <2>1 DEF Orderly
    <2> QED BY <1>2, <2>2, FetchKeysSingle, CheckKeySingle, GetValueSingle, PutValueSingle, DeleteKeySingle,
               CompletedSingle DEF Migrate
  <1>3. ASSUME NEW i \in Migrations, Migrate(i) PROVE SInv'
    <2>1. UNCHANGED <<ring, nodes>> /\ faults' \in {faults, faults + 1}
      BY <1>3 DEF Migrate, FetchKeys, CheckKey, GetValue, PutValue, DeleteKey, Completed, Elsewhere, Fault, proxy
    <2>2. RingListed' /\ faults' \in Nat
      BY <1>1, <2>1 DEF RingListed
    <2> QED BY <1>2, <1>3, <2>2 DEF SInv
  <1>4. ASSUME NEW i \in Migrations, AddServer(i) PROVE SInv'
    <2>1. faults' = faults /\ overlap' = overlap /\ (~readded' => ~readded)
      BY <1>4 DEF AddServer
    <2>2. Orderly' => (Alone /\ Ready /\ AllPlaced)'
      BY <1>4, <2>1, AddServerSingle DEF Orderly
    <2>3. RingListed'
      <3>1. /\ ring' = AddNode(ring, VHash, mig[i].new) /\ mig[i].new \in Nodes
            /\ nodes' \in Seq(Nodes) /\ Len(nodes) \in Nat /\ Len(nodes') = Len(nodes) + 1
            /\ nodes'[Len(nodes) + 1] = mig[i].new
            /\ \A p \in 1 .. Len(nodes) : nodes'[p] = nodes[p]
        BY <1>4, AddServerStep
      <3>2. ring \in Rings /\ \A p \in Positions : ring.hashMap[p] = None \/ \E j \in 1 .. Len(nodes) : nodes[j] = ring.hashMap[p]
        BY <1>1 DEF RingListed, RingsOf
      <3>3. Len(nodes) + 1 \in 1 .. Len(nodes') /\ \A j \in 1 .. Len(nodes) : j \in 1 .. Len(nodes')
        BY <3>1
      <3>4. \A p \in Positions : ring.hashMap[p] = None \/ \E j \in 1 .. Len(nodes') : nodes'[j] = ring.hashMap[p]
        BY <3>1, <3>2, <3>3
      <3>5. ring \in RingsOf(nodes')
        BY <3>2, <3>4 DEF RingsOf
      <3>6. AddNode(ring, VHash, nodes'[Len(nodes) + 1]) \in RingsOf(nodes')
        BY <3>1, <3>3, <3>5, AddNodeOf
      <3> QED BY <3>1, <3>6 DEF RingListed
    <2> QED BY <1>1, <2>1, <2>2, <2>3 DEF SInv
  <1>5. ASSUME NEW i \in Migrations, NEW n \in Joining, ListNodes(i, n) PROVE SInv'
    <2>1. UNCHANGED <<ring, nodes, faults, readded>> /\ (~overlap' => ~overlap)
      BY <1>5 DEF ListNodes, proxy
    <2>2. Orderly' => (Alone /\ Ready /\ AllPlaced)'
      BY <1>5, <2>1, ListNodesSingle DEF Orderly
    <2> QED BY <1>1, <2>1, <2>2 DEF SInv, RingListed
  <1>6. ASSUME NEW r \in pending, Forward(r) PROVE SInv'
    <2>1. UNCHANGED <<ring, nodes, faults, overlap, readded>>
      BY <1>6 DEF Forward, proxy
    <2>2. Orderly' => (Alone /\ Ready /\ AllPlaced)'
      BY <1>6, <2>1, ForwardSingle DEF Orderly
    <2> QED BY <1>1, <2>1, <2>2 DEF SInv, RingListed
  <1>7. CASE UNCHANGED <<ring, nodes, db, mig, faults, last, dirty, overlap, readded>>
    BY <1>7 DEF SInv, RingListed, Orderly, Alone, Busy, Ready, InHand, OnlyAt, Copied, AllPlaced, Placed, Waits, Home, Gone,
       Owner
  <1>8. ASSUME NEW k \in Keys, NEW v \in Values \cup {None}, Route(k, v)
        PROVE  UNCHANGED <<ring, nodes, db, mig, faults, last, dirty, overlap, readded>>
    BY <1>8 DEF Route, proxy, history
  <1>9. CASE UNCHANGED vars
    BY <1>7, <1>9 DEF vars
  <1> QED BY <1>3, <1>4, <1>5, <1>6, <1>7, <1>8, <1>9 DEF Next

\* A migration that no call fails in and no other runs beside leaves every key
\* nobody wrote meanwhile, and no server refused, at the server the ring names
\* and nowhere else, with the value of its last write as one transfer leaves it:
\* whichever keys two servers share positions for, and however often a key has
\* moved.  A value that a second transfer would change once more (a %25 that
\* arrives as %) is excluded by Settles.
THEOREM OneCopyAfterMigration ==
    ASSUME Settles
    PROVE  Spec => []SingleCopy
  <1>1. TInv /\ SInv => SingleCopy
    <2> SUFFICES ASSUME TInv, SInv, Quiet, faults = 0, ~overlap, ~readded,
                        NEW k \in Keys \ dirty, NEW n \in Nodes
                 PROVE  IF n = Owner(k) /\ last[k] # None
                        THEN db[n][k] \in {last[k], Transfer[last[k]]} \ {None}
                        ELSE db[n][k] = None
      BY DEF SingleCopy
    <2>1. Home(k)
      <3>1. \A i \in Migrations : mig[i].pc \notin Moving
        BY DEF Quiet, Busy, Moving
      <3> QED BY <3>1, QuietHome DEF Orderly
    <2> QED BY <2>1 DEF Home, Gone, OnlyAt
  <1>2. TInv /\ LInv /\ SInv /\ [Next]_vars => SInv'
    BY NextSingle
  <1> QED BY Typing, InitLost, NextLost, InitSingle, <1>1, <1>2, PTL DEF Spec

=============================================================================
