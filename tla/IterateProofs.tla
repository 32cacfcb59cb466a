--------------------------- MODULE IterateProofs ---------------------------
(***************************************************************************)
(* Proofs about Iterate: the iterator, the ordered scans and the sweep,    *)
(* next to a writer and a merge, for any number of keys, writes and merges.*)
(***************************************************************************)
EXTENDS Iterate, FiniteSetTheorems, SequenceTheorems, WellFoundedInduction, TLAPS

\* a is visited before b.
Before(reverse, a, b) == IF reverse THEN a > b ELSE a < b

Records == [key: Keys, val: Nat, exp: Nat]

\* The index leads to a written record of its key.
StoreInv ==
    /\ log \in Seq(Records)
    /\ index \in [Keys -> 0 .. Len(log)]
    /\ \A k \in Keys : index[k] # 0 => log[index[k]].key = k /\ log[index[k]].val # 0
    /\ \A p \in 1 .. Len(log) : log[p].val # 0 => <<log[p].key, log[p].val>> \in wrote
    /\ clock \in 0 .. MaxClock /\ writes \in Nat

\* db.mu is held by the scan or by the sweep.
MuInv ==
    /\ mu \in {"free", "read", "write"}
    /\ mu = "read" <=> scan.pc \in {"run", "stopped"}
    /\ mu = "write" <=> sweep.pc \in {"collect", "check"}
    /\ cursor \in Keys \cup {0}

\* An iterator of the index, and the keys it has not passed yet.
IterOK(i) ==
    /\ i = [tree |-> i.tree, reverse |-> i.reverse, current |-> i.current, valid |-> i.valid]
    /\ i.tree \in [Keys -> Nat] /\ i.reverse \in BOOLEAN /\ i.valid \in BOOLEAN
    /\ i.valid => i.current \in Items(i.tree)

Ahead(i) ==
    {k \in Items(i.tree) : i.valid /\ (k = i.current \/ Before(i.reverse, i.current, k))}

ItInv ==
    /\ it.pc \in {"none", "skip", "idle", "closed"}
    /\ it.pc # "none" =>
          /\ it = [pc |-> it.pc, iter |-> it.iter, match |-> it.match, cont |-> it.cont,
                   item |-> it.item, snap |-> it.snap, seen |-> it.seen, range |-> it.range,
                   stale |-> it.stale, failed |-> it.failed]
          /\ IterOK(it.iter)
          /\ it.seen \in Seq(Keys \X Nat)
          /\ it.item # NoItem => it.item \in wrote

\* The keys an iterator still has to return: the current one has been returned
\* when a call is over.
Left == IF it.pc = "idle" THEN Ahead(it.iter) \ {it.iter.current} ELSE Ahead(it.iter)

Wanted == DOMAIN it.snap \cap it.match \cap it.range

\* Until a merge moves the records the positions of the clone lead to the
\* records of the snapshot.
SnapInv ==
    it.pc # "none" /\ ~it.stale =>
        /\ DOMAIN it.snap = Items(it.iter.tree)
        /\ \A k \in Items(it.iter.tree) :
              /\ it.iter.tree[k] <= Len(log) /\ log[it.iter.tree[k]] = it.snap[k]
              /\ it.snap[k].key = k /\ it.snap[k].val # 0

\* What an iterator has returned, and that it has passed nothing over.
SeenInv ==
    it.pc # "none" /\ ~it.stale =>
        /\ \A i, j \in 1 .. Len(it.seen) : i < j => Before(it.iter.reverse, it.seen[i][1], it.seen[j][1])
        /\ \A i \in 1 .. Len(it.seen) :
              it.seen[i][1] \in Wanted /\ it.seen[i][2] = it.snap[it.seen[i][1]].val
        /\ it.pc \in {"skip", "idle"} =>
              /\ Left \subseteq it.range
              /\ \A i \in 1 .. Len(it.seen) : \A a \in Left : Before(it.iter.reverse, it.seen[i][1], a)
              /\ \A k \in Wanted :
                    \/ k \in Left \/ it.failed = TRUE \/ Expired(it.snap[k], clock)
                    \/ \E i \in 1 .. Len(it.seen) : it.seen[i][1] = k

\* The same for a scan, which reads the index itself.
ScanWanted == scan.asked \cap scan.match \cap Items(index)
ScanSure == ScanWanted \ {scan.end}

ScanInv ==
    /\ scan.pc \in {"none", "run", "stopped", "over"}
    /\ scan.pc \in {"run", "stopped"} =>
          scan = [pc |-> scan.pc, reverse |-> scan.reverse, todo |-> scan.todo, asked |-> scan.asked,
                  end |-> scan.end, match |-> scan.match, filter |-> scan.filter, out |-> scan.out, start |-> scan.start]
    /\ scan.pc = "run" =>
          /\ scan.reverse \in BOOLEAN /\ scan.start \in Nat /\ scan.start <= clock
          /\ scan.todo \subseteq scan.asked \cap Items(index)
          /\ scan.out \in Seq(Keys \X Nat)
          /\ \A i, j \in 1 .. Len(scan.out) : i < j => Before(scan.reverse, scan.out[i][1], scan.out[j][1])
          /\ \A i \in 1 .. Len(scan.out) :
                /\ scan.out[i][1] \in ScanWanted
                /\ scan.out[i][2] = log[index[scan.out[i][1]]].val
                /\ scan.filter => ~Expired(log[index[scan.out[i][1]]], scan.start)
                /\ \A a \in scan.todo : Before(scan.reverse, scan.out[i][1], a)
          /\ \A k \in ScanSure :
                \/ k \in scan.todo \/ (scan.filter /\ Expired(log[index[k]], clock))
                \/ \E i \in 1 .. Len(scan.out) : scan.out[i][1] = k

\* The sweep has dealt with every key between its start and where it is.
SweepInv ==
    /\ sweep.pc \in {"idle", "lock", "collect", "check"}
    /\ sweep.pc # "idle" => sweep.now \in Nat /\ sweep.now <= clock
    /\ sweep.pc \in {"collect", "check"} => sweep.from \in Keys \cup {0}
    /\ sweep.pc = "collect" =>
          \A k \in Items(index) : sweep.from <= k /\ k < cursor => ~Expired(log[index[k]], sweep.now)
    /\ sweep.pc = "check" =>
          /\ sweep = [pc |-> "check", now |-> sweep.now, from |-> sweep.from, batch |-> sweep.batch]
          /\ sweep.batch \subseteq Items(index) /\ sweep.batch # {}
          /\ \A a, b \in sweep.batch : \A k \in Items(index) : a <= k /\ k <= b => k \in sweep.batch
          /\ \A k \in Items(index) : sweep.from <= k /\ (\A b \in sweep.batch : k < b)
                                        => ~Expired(log[index[k]], sweep.now)

IInv == StoreInv /\ MuInv /\ ItInv /\ SnapInv /\ SeenInv /\ ScanInv /\ SweepInv
-----------------------------------------------------------------------------
(* Numbers in order                                                        *)

LEMMA KeysAre == Keys \subseteq Nat \ {0} /\ Cardinality(Keys) \in Nat /\ IsFiniteSet(Keys)
  BY IterateAssumption, FS_CardinalityType

LEMMA LeastExists ==
    ASSUME NEW S \in SUBSET Nat, S # {}
    PROVE  \E p \in S : \A q \in S : p <= q
  <1> DEFINE R == OpToRel(<, Nat)
  <1>1. PICK p \in S : \A q \in S : ~ (<<q, p>> \in R)
    BY NatLessThanWellFounded, WFMin, Zenon
  <1>2. \A q \in S : q < p => <<q, p>> \in R
    BY Zenon DEF OpToRel
  <1> HIDE DEF R
  <1>3. \A q \in S : ~(q < p)
    BY <1>1, <1>2
  <1>4. \A q \in S : p <= q
    BY <1>3
  <1> QED BY <1>4

LEMMA GreatestExists ==
    ASSUME NEW n \in Nat, NEW S \in SUBSET (1 .. n), S # {}
    PROVE  \E p \in S : \A q \in S : p >= q
  <1> DEFINE D == {n - q : q \in S}
  <1>1. D \in SUBSET Nat /\ D # {}
    OBVIOUS
  <1> HIDE DEF D
  <1>2. PICK d \in D : \A x \in D : d <= x
    BY <1>1, LeastExists, Zenon
  <1>3. PICK p \in S : d = n - p
    BY DEF D
  <1>4. ASSUME NEW q \in S PROVE p >= q
    <2>1. n - q \in D
      BY DEF D
    <2>2. n - p <= n - q
      BY <1>2, <1>3, <2>1
    <2> QED BY <2>2
  <1> QED BY <1>4

LEMMA MinLemma ==
    ASSUME NEW S \in SUBSET Keys, S # {}
    PROVE  Min(S) \in S /\ \A k \in S : Min(S) <= k
  <1>1. \E p \in S : \A q \in S : p <= q
    BY KeysAre, LeastExists
  <1> QED BY <1>1 DEF Min

LEMMA FirstLemma ==
    ASSUME NEW S \in SUBSET Keys, S # {}, NEW reverse \in BOOLEAN
    PROVE  /\ First(S, reverse) \in S
           /\ \A k \in S : k = First(S, reverse) \/ Before(reverse, First(S, reverse), k)
  <1>0. S \subseteq Nat
    BY KeysAre
  <1>1. CASE reverse = FALSE
    <2>1. First(S, reverse) = Min(S)
      BY <1>1 DEF First
    <2>2. \A a, b : Before(reverse, a, b) <=> a < b
      BY <1>1 DEF Before
    <2>3. ASSUME NEW k \in S PROVE k = Min(S) \/ Min(S) < k
      <3>1. k \in Nat /\ Min(S) \in Nat /\ Min(S) <= k
        BY <1>0, MinLemma
      <3> QED BY <3>1
    <2> QED BY <2>1, <2>2, <2>3, MinLemma
  <1>2. CASE reverse = TRUE
    <2>1. \E p \in S : \A q \in S : p >= q
      BY KeysAre, IterateAssumption, GreatestExists
    <2>2. Max(S) \in S /\ \A q \in S : Max(S) >= q
      BY <2>1 DEF Max
    <2>3. First(S, reverse) = Max(S)
      BY <1>2 DEF First
    <2>4. \A a, b : Before(reverse, a, b) <=> a > b
      BY <1>2 DEF Before
    <2>5. ASSUME NEW k \in S PROVE k = Max(S) \/ Max(S) > k
      <3>1. k \in Nat /\ Max(S) \in Nat /\ Max(S) >= k
        BY <1>0, <2>2
      <3> QED BY <3>1
    <2> QED BY <2>2, <2>3, <2>4, <2>5
  <1> QED BY <1>1, <1>2

\* A set of positions can be listed in order.
Listing(f, m, S) ==
    /\ f \in [1 .. m -> S]
    /\ \A x \in S : \E i \in 1 .. m : f[i] = x
    /\ \A i, j \in 1 .. m : i < j => f[i] < f[j]

LEMMA ListingExists ==
    ASSUME NEW n \in Nat
    PROVE  \A S \in SUBSET (1 .. n) : \E m \in Nat : \E f : Listing(f, m, S)
  <1> DEFINE P(x) == \A S \in SUBSET (1 .. x) : \E m \in Nat : \E f : Listing(f, m, S)
             Bad == {x \in Nat : ~P(x)}
  <1> SUFFICES ASSUME Bad # {} PROVE FALSE
    OBVIOUS
  <1>1. PICK x \in Bad : \A y \in Bad : x <= y
    <2>1. Bad \in SUBSET Nat
      OBVIOUS
    <2> HIDE DEF Bad
    <2> QED BY <2>1, LeastExists, Zenon
  <1>2. x \in Nat /\ ~P(x)
    OBVIOUS
  <1>3. PICK S \in SUBSET (1 .. x) : ~\E m \in Nat : \E f : Listing(f, m, S)
    BY <1>2
  <1>4. CASE x = 0
    <2>1. S = {}
      BY <1>4
    <2>2. Listing([i \in 1 .. 0 |-> 0], 0, S)
      BY <2>1 DEF Listing
    <2> QED BY <1>3, <2>2
  <1>5. CASE x # 0
    <2>1. x - 1 \in Nat /\ P(x - 1)
      <3>1. x - 1 \in Nat /\ ~(x <= x - 1)
        BY <1>2, <1>5
      <3>2. x - 1 \notin Bad
        <4> HIDE DEF Bad
        <4> QED BY <1>1, <3>1
      <3> HIDE DEF P
      <3> QED BY <3>1, <3>2
    <2> DEFINE T == S \ {x}
    <2>2. T \in SUBSET (1 .. (x - 1))
      BY <1>2
    <2>3. PICK m \in Nat : \E f : Listing(f, m, T)
      <3> HIDE DEF T
      <3> QED BY <2>1, <2>2
    <2>4. PICK f : Listing(f, m, T)
      BY <2>3
    <2>5. CASE x \notin S
      <3>1. T = S
        BY <2>5
      <3> QED BY <1>3, <2>4, <3>1
    <2>6. CASE x \in S
      <3> DEFINE g == [i \in 1 .. (m + 1) |-> IF i = m + 1 THEN x ELSE f[i]]
      <3>0. f \in [1 .. m -> T] /\ (\A y \in T : \E i \in 1 .. m : f[i] = y)
            /\ (\A i, j \in 1 .. m : i < j => f[i] < f[j])
        BY <2>4 DEF Listing
      <3>1. ASSUME NEW i \in 1 .. m
            PROVE  g[i] = f[i] /\ f[i] \in S /\ f[i] \in Nat /\ f[i] < x
        <4>1. i \in 1 .. (m + 1) /\ i # m + 1
          OBVIOUS
        <4>2. f[i] \in T
          BY <3>0
        <4>3. f[i] \in 1 .. (x - 1) /\ f[i] \in S
          BY <2>2, <4>2
        <4> QED BY <1>2, <4>1, <4>3
      <3>2. g[m + 1] = x
        OBVIOUS
      <3>3. \A i \in 1 .. (m + 1) : i = m + 1 \/ i \in 1 .. m
        OBVIOUS
      <3>4. g \in [1 .. (m + 1) -> S]
        BY <2>6, <3>1, <3>2, <3>3
      <3> HIDE DEF g
      <3>5. \A y \in S : \E i \in 1 .. (m + 1) : g[i] = y
        <4> SUFFICES ASSUME NEW y \in S PROVE \E i \in 1 .. (m + 1) : g[i] = y
          OBVIOUS
        <4>1. CASE y = x
          BY <3>2, <4>1
        <4>2. CASE y # x
          <5>1. PICK i \in 1 .. m : f[i] = y
            BY <3>0, <4>2
          <5>2. i \in 1 .. (m + 1) /\ g[i] = y
            BY <3>1, <5>1
          <5> QED BY <5>2
        <4> QED BY <4>1, <4>2
      <3>6. ASSUME NEW i \in 1 .. (m + 1), NEW j \in 1 .. (m + 1), i < j PROVE g[i] < g[j]
        <4>1. i \in 1 .. m
          BY <3>6
        <4>2. CASE j = m + 1
          BY <3>1, <3>2, <4>1, <4>2
        <4>3. CASE j # m + 1
          <5>1. j \in 1 .. m
            BY <3>3, <4>3
          <5> QED BY <3>0, <3>1, <3>6, <4>1, <5>1
        <4> QED BY <4>2, <4>3
      <3>7. Listing(g, m + 1, S)
        BY <3>4, <3>5, <3>6 DEF Listing
      <3> QED BY <1>3, <3>7
    <2> QED BY <2>5, <2>6
  <1> QED BY <1>4, <1>5

\* A merge, and the initial state, list positions or keys in order.
LEMMA InOrderLemma ==
    ASSUME NEW n \in Nat, NEW S \in SUBSET (1 .. n)
    PROVE  Cardinality(S) \in Nat /\ Listing(InOrder(S), Cardinality(S), S)
  <1>1. PICK m \in Nat : \E f : Listing(f, m, S)
    BY ListingExists
  <1>2. PICK f : Listing(f, m, S)
    BY <1>1
  <1>3. f \in Bijection(1 .. m, S)
    <2>1. \A i \in 1 .. m : f[i] \in Nat
      <3>1. \A i \in 1 .. m : f[i] \in S
        BY <1>2 DEF Listing
      <3>2. \A x \in S : x \in Nat
        OBVIOUS
      <3> QED BY <3>1, <3>2
    <2>2. ASSUME NEW i \in 1 .. m, NEW j \in 1 .. m, f[i] = f[j] PROVE i = j
      <3>1. ~(i < j) /\ ~(j < i)
        BY <1>2, <2>1, <2>2 DEF Listing
      <3> QED BY <3>1
    <2> QED BY <1>2, <2>2 DEF Listing, Bijection, Injection, Surjection, IsInjective
  <1>4. Cardinality(S) = m
    BY <1>3, FS_CountingElements DEF ExistsBijection
  <1>5. \E g : Listing(g, Cardinality(S), S)
    BY <1>2, <1>4
  <1>6. InOrder(S) = CHOOSE g \in [1 .. Cardinality(S) -> S] : Listing(g, Cardinality(S), S)
    BY DEF InOrder, Listing
  <1>7. Listing(InOrder(S), Cardinality(S), S)
    <2>1. \E g \in [1 .. Cardinality(S) -> S] : Listing(g, Cardinality(S), S)
      BY <1>5 DEF Listing
    <2> QED BY <1>6, <2>1, Zenon
  <1> QED BY <1>4, <1>7
-----------------------------------------------------------------------------
(* The iterator of the index                                               *)

LEMMA BeforeLemma ==
    ASSUME NEW reverse \in BOOLEAN
    PROVE  \A a, b, c \in Nat :
              /\ ~Before(reverse, a, a)
              /\ Before(reverse, a, b) /\ Before(reverse, b, c) => Before(reverse, a, c)
              /\ Before(reverse, a, b) \/ a = b \/ Before(reverse, b, a)
              /\ ~(Before(reverse, a, b) /\ Before(reverse, b, a))
  <1>1. CASE reverse = TRUE
    <2>1. \A a, b : Before(reverse, a, b) <=> a > b
      BY <1>1 DEF Before
    <2> QED BY <2>1
  <1>2. CASE reverse = FALSE
    <2>1. \A a, b : Before(reverse, a, b) <=> a < b
      BY <1>2 DEF Before
    <2> QED BY <2>1
  <1> QED BY <1>1, <1>2

LEMMA ItemsAreKeys ==
    ASSUME NEW t, NEW V, t \in [Keys -> V]
    PROVE  Items(t) \in SUBSET Keys /\ Items(t) \subseteq Nat
  BY KeysAre DEF Items

\* Moving to the first of the keys S that lie ahead in the direction.
LEMMA AtLemma ==
    ASSUME NEW i, IterOK(i), NEW S \in SUBSET Items(i.tree),
           \A a \in S : \A b \in Items(i.tree) : Before(i.reverse, a, b) => b \in S
    PROVE  /\ IterOK(At(i, S)) /\ Ahead(At(i, S)) = S /\ (At(i, S).valid <=> S # {})
           /\ At(i, S).tree = i.tree /\ At(i, S).reverse = i.reverse
  <1> DEFINE j == At(i, S)
  <1>0. /\ i = [tree |-> i.tree, reverse |-> i.reverse, current |-> i.current, valid |-> i.valid]
        /\ i.reverse \in BOOLEAN /\ i.tree \in [Keys -> Nat]
        /\ Items(i.tree) \in SUBSET Keys /\ Items(i.tree) \subseteq Nat
    BY ItemsAreKeys DEF IterOK
  <1>1. CASE S = {}
    <2>1. j = [tree |-> i.tree, reverse |-> i.reverse, current |-> i.current, valid |-> FALSE]
      BY <1>0, <1>1 DEF At
    <2> HIDE DEF j
    <2>2. /\ j = [tree |-> j.tree, reverse |-> j.reverse, current |-> j.current, valid |-> j.valid]
          /\ j.tree = i.tree /\ j.reverse = i.reverse /\ j.valid = FALSE
      BY <2>1
    <2>3. IterOK(j)
      BY <1>0, <2>2 DEF IterOK
    <2>4. Ahead(j) = {}
      BY <2>2 DEF Ahead
    <2>5. j.valid <=> S # {}
      BY <1>1, <2>2
    <2> QED BY <1>1, <2>2, <2>3, <2>4, <2>5 DEF j
  <1>2. CASE S # {}
    <2> DEFINE c == First(S, i.reverse)
    <2>1. j = [tree |-> i.tree, reverse |-> i.reverse, current |-> c, valid |-> TRUE]
      BY <1>0, <1>2 DEF At
    <2>2. c \in S /\ \A k \in S : k = c \/ Before(i.reverse, c, k)
      BY <1>0, <1>2, FirstLemma
    <2> HIDE DEF c
    <2>3. IterOK(j)
      BY <1>0, <2>1, <2>2 DEF IterOK
    <2>4. Ahead(j) = S
      BY <2>1, <2>2 DEF Ahead
    <2> QED BY <1>2, <2>1, <2>3, <2>4
  <1> QED BY <1>1, <1>2

LEMMA IterNewLemma ==
    ASSUME NEW t \in [Keys -> Nat], NEW reverse \in BOOLEAN
    PROVE  LET j == IterNew(t, reverse)
           IN  IterOK(j) /\ j.tree = t /\ j.reverse = reverse /\ Ahead(j) = Items(t)
  <1> DEFINE i == [tree |-> t, reverse |-> reverse, current |-> 0, valid |-> FALSE]
  <1>1. IterOK(i) /\ i.tree = t /\ i.reverse = reverse
    BY DEF IterOK
  <1> HIDE DEF i
  <1>2. /\ IterOK(At(i, Items(t))) /\ Ahead(At(i, Items(t))) = Items(t)
        /\ At(i, Items(t)).tree = i.tree /\ At(i, Items(t)).reverse = i.reverse
    BY <1>1, AtLemma
  <1> QED BY <1>1, <1>2 DEF IterNew, i

LEMMA IterRewindLemma ==
    ASSUME NEW i, IterOK(i)
    PROVE  LET j == IterRewind(i)
           IN  IterOK(j) /\ j.tree = i.tree /\ j.reverse = i.reverse /\ Ahead(j) = Items(i.tree)
  <1>1. CASE Items(i.tree) = {}
    BY <1>1 DEF IterRewind, Ahead
  <1>2. CASE Items(i.tree) # {}
    <2>1. /\ IterOK(At(i, Items(i.tree))) /\ Ahead(At(i, Items(i.tree))) = Items(i.tree)
          /\ At(i, Items(i.tree)).tree = i.tree /\ At(i, Items(i.tree)).reverse = i.reverse
      BY AtLemma
    <2> QED BY <1>2, <2>1 DEF IterRewind
  <1> QED BY <1>1, <1>2

LEMMA IterSeekLemma ==
    ASSUME NEW i, IterOK(i), NEW s \in Keys
    PROVE  LET j == IterSeek(i, s)
           IN  /\ IterOK(j) /\ j.tree = i.tree /\ j.reverse = i.reverse
               /\ ~i.valid => j = i
               /\ i.valid => Ahead(j) = {k \in Items(i.tree) : IF i.reverse THEN k <= s ELSE k >= s}
  <1> DEFINE S == {k \in Items(i.tree) : IF i.reverse THEN k <= s ELSE k >= s}
  <1>1. CASE ~i.valid
    BY <1>1 DEF IterSeek
  <1>2. CASE i.valid
    <2>1. IterSeek(i, s) = At(i, S)
      BY <1>2 DEF IterSeek, DescendLessOrEqual, AscendGreaterOrEqual
    <2>2. i.reverse \in BOOLEAN /\ Items(i.tree) \subseteq Nat /\ s \in Nat
      BY ItemsAreKeys, KeysAre DEF IterOK
    <2>3. \A a \in S : \A b \in Items(i.tree) : Before(i.reverse, a, b) => b \in S
      BY <2>2 DEF Before
    <2>4. S \in SUBSET Items(i.tree)
      OBVIOUS
    <2> HIDE DEF S
    <2>5. /\ IterOK(At(i, S)) /\ Ahead(At(i, S)) = S
          /\ At(i, S).tree = i.tree /\ At(i, S).reverse = i.reverse
      BY <2>3, <2>4, AtLemma
    <2> QED BY <1>2, <2>1, <2>5 DEF S
  <1> QED BY <1>1, <1>2

LEMMA IterNextLemma ==
    ASSUME NEW i, IterOK(i)
    PROVE  LET j == IterNext(i)
           IN  /\ IterOK(j) /\ j.tree = i.tree /\ j.reverse = i.reverse
               /\ Ahead(j) = Ahead(i) \ {i.current}
  <1> DEFINE S == (IF i.reverse THEN DescendLessOrEqual(i.tree, i.current)
                   ELSE AscendGreaterOrEqual(i.tree, i.current)) \ {i.current}
             j == At(i, S)
  <1>1. CASE ~i.valid
    BY <1>1 DEF IterNext, Ahead
  <1>2. CASE i.valid
    <2>1. IterNext(i) = IF j.valid THEN j ELSE [j EXCEPT !.current = 0]
      BY <1>2 DEF IterNext
    <2>2. /\ i.reverse \in BOOLEAN /\ Items(i.tree) \subseteq Nat
          /\ i.current \in Nat /\ i.current \in Items(i.tree)
      BY <1>2, ItemsAreKeys DEF IterOK
    <2>3. S = {k \in Items(i.tree) : Before(i.reverse, i.current, k)}
      <3>1. CASE i.reverse = TRUE
        BY <2>2, <3>1 DEF DescendLessOrEqual, Before
      <3>2. CASE i.reverse = FALSE
        BY <2>2, <3>2 DEF AscendGreaterOrEqual, Before
      <3> QED BY <2>2, <3>1, <3>2
    <2> HIDE DEF S
    <2>4. \A a \in S : \A b \in Items(i.tree) : Before(i.reverse, a, b) => b \in S
      BY <2>2, <2>3, BeforeLemma
    <2>5. S \in SUBSET Items(i.tree)
      BY <2>3
    <2>6. /\ IterOK(j) /\ Ahead(j) = S /\ j.tree = i.tree /\ j.reverse = i.reverse
          /\ (j.valid <=> S # {})
      BY <2>4, <2>5, AtLemma
    <2>7. S = Ahead(i) \ {i.current}
      BY <1>2, <2>2, <2>3, BeforeLemma DEF Ahead
    <2> HIDE DEF j
    <2>8. CASE j.valid
      BY <2>1, <2>6, <2>7, <2>8
    <2>9. CASE ~j.valid
      <3> DEFINE n == [j EXCEPT !.current = 0]
      <3>1. n = [tree |-> j.tree, reverse |-> j.reverse, current |-> 0, valid |-> FALSE]
        <4>1. j = [tree |-> j.tree, reverse |-> j.reverse, current |-> j.current, valid |-> j.valid]
              /\ j.valid \in BOOLEAN
          BY <2>6 DEF IterOK
        <4>2. j.valid = FALSE
          BY <2>9, <4>1
        <4>3. n = [tree |-> j.tree, reverse |-> j.reverse, current |-> 0, valid |-> j.valid]
          BY <4>1
        <4> HIDE DEF n
        <4> QED BY <4>2, <4>3
      <3> HIDE DEF n
      <3>2. IterOK(n) /\ Ahead(n) = {} /\ n.tree = i.tree /\ n.reverse = i.reverse
        BY <2>6, <3>1 DEF IterOK, Ahead
      <3> QED BY <2>1, <2>6, <2>7, <2>9, <3>2 DEF n
    <2> QED BY <2>8, <2>9
  <1> QED BY <1>1, <1>2
-----------------------------------------------------------------------------
(* What a step leaves alone                                                *)

\* The log has only grown, and time has passed.
Grows ==
    /\ Len(log) <= Len(log') /\ \A p \in 1 .. Len(log) : log'[p] = log[p]
    /\ clock <= clock' /\ clock' \in Nat /\ wrote \subseteq wrote'

LEMMA RecordOfKey ==
    ASSUME StoreInv, NEW k \in Items(index)
    PROVE  /\ k \in Keys /\ index[k] \in 1 .. Len(log) /\ log[index[k]] \in Records
           /\ log[index[k]].key = k /\ log[index[k]].val # 0 /\ log[index[k]].exp \in Nat
  <1>1. Len(log) \in Nat /\ k \in Keys /\ index[k] # 0 /\ index[k] \in 0 .. Len(log)
    BY LenProperties DEF StoreInv, Items
  <1>2. index[k] \in 1 .. Len(log)
    BY <1>1
  <1>3. log[index[k]] \in Records
    BY <1>2, ElementOfSeq DEF StoreInv
  <1> QED BY <1>1, <1>2, <1>3 DEF StoreInv, Records

LEMMA ExpiredStays ==
    ASSUME NEW r, r.exp \in Nat, NEW t \in Nat, NEW u \in Nat, t <= u, Expired(r, t)
    PROVE  Expired(r, u)
  BY DEF Expired

LEMMA ItFrame ==
    ASSUME StoreInv, ItInv, SnapInv, SeenInv, Grows, it' = it
    PROVE  ItInv' /\ SnapInv' /\ SeenInv'
  <1>0. Len(log) \in Nat /\ clock \in Nat /\ clock' \in Nat /\ clock <= clock' /\ Len(log) <= Len(log')
    BY LenProperties, IterateAssumption DEF StoreInv, Grows
  <1>1. ItInv'
    BY DEF ItInv, Grows, IterOK
  <1>2. ASSUME it.pc # "none", ~it.stale, NEW k \in Items(it.iter.tree)
        PROVE  /\ it.iter.tree[k] \in 1 .. Len(log) /\ log'[it.iter.tree[k]] = log[it.iter.tree[k]]
               /\ it.snap[k].exp \in Nat
    <2>1. it.iter.tree[k] \in 1 .. Len(log)
      <3>1. it.iter.tree[k] \in Nat /\ it.iter.tree[k] # 0 /\ it.iter.tree[k] <= Len(log)
        BY <1>2 DEF ItInv, IterOK, SnapInv, Items
      <3> QED BY <1>0, <3>1
    <2>2. log[it.iter.tree[k]] \in Records
      BY <2>1, ElementOfSeq DEF StoreInv
    <2> QED BY <1>2, <2>1, <2>2 DEF Grows, SnapInv, Records
  <1>3. SnapInv'
    <2> SUFFICES ASSUME it.pc # "none", ~it.stale, NEW k \in Items(it.iter.tree)
                 PROVE  /\ it.iter.tree[k] <= Len(log') /\ log'[it.iter.tree[k]] = it.snap[k]
                        /\ it.snap[k].key = k /\ it.snap[k].val # 0
      BY DEF SnapInv
    <2>1. it.iter.tree[k] \in 1 .. Len(log) /\ log'[it.iter.tree[k]] = log[it.iter.tree[k]]
      BY <1>2
    <2>2. it.iter.tree[k] <= Len(log')
      BY <1>0, <2>1
    <2> QED BY <2>1, <2>2 DEF SnapInv
  <1>4. SeenInv'
    <2> SUFFICES ASSUME it.pc # "none", ~it.stale
                 PROVE  \A k \in Wanted : Expired(it.snap[k], clock) => Expired(it.snap[k], clock')
      BY DEF SeenInv, Wanted, Left
    <2>1. \A k \in Wanted : k \in Items(it.iter.tree)
      BY DEF SnapInv, Wanted
    <2> QED BY <1>0, <1>2, <2>1, ExpiredStays
  <1> QED BY <1>1, <1>3, <1>4

LEMMA ScanFrame ==
    ASSUME StoreInv, ScanInv, scan' = scan, clock' \in Nat, clock <= clock',
           scan.pc = "run" => log' = log /\ index' = index
    PROVE  ScanInv'
  <1>1. CASE scan.pc # "run"
    BY <1>1 DEF ScanInv
  <1>2. CASE scan.pc = "run"
    <2>1. log' = log /\ index' = index /\ clock \in Nat
      BY <1>2, IterateAssumption DEF StoreInv
    <2>2. ScanWanted' = ScanWanted /\ ScanSure' = ScanSure
      BY <2>1 DEF ScanWanted, ScanSure
    <2>3. \A k \in ScanSure : Expired(log[index[k]], clock) => Expired(log[index[k]], clock')
      <3>1. \A k \in ScanSure : k \in Items(index)
        BY DEF ScanWanted, ScanSure
      <3> QED BY <2>1, <3>1, RecordOfKey, ExpiredStays
    <2>4. scan.start \in Nat /\ scan.start <= clock'
      BY <1>2, <2>1 DEF ScanInv
    <2> QED BY <1>2, <2>1, <2>2, <2>3, <2>4 DEF ScanInv
  <1> QED BY <1>1, <1>2

LEMMA SweepFrame ==
    ASSUME StoreInv, SweepInv, sweep' = sweep, cursor' = cursor, clock' \in Nat, clock <= clock',
           sweep.pc \in {"collect", "check"} => log' = log /\ index' = index
    PROVE  SweepInv'
  <1>1. clock \in Nat
    BY IterateAssumption DEF StoreInv
  <1>2. sweep.pc # "idle" => sweep.now \in Nat /\ sweep.now <= clock'
    BY <1>1 DEF SweepInv
  <1> QED BY <1>2 DEF SweepInv

\* The parts of the invariant that speak of the store and of db.mu.
LEMMA StoreFrame ==
    ASSUME StoreInv, UNCHANGED <<log, index, wrote, writes>>, clock' \in 0 .. MaxClock
    PROVE  StoreInv'
  BY DEF StoreInv

LEMMA SameLog ==
    ASSUME StoreInv, UNCHANGED <<log, wrote>>, clock' = clock \/ (clock' = clock + 1)
    PROVE  Grows /\ clock' \in Nat /\ clock <= clock'
  BY LenProperties, IterateAssumption DEF StoreInv, Grows
-----------------------------------------------------------------------------
(* Writes, merges and time                                                 *)

LEMMA WriteStep ==
    ASSUME IInv, NEW k \in Keys, Put(k) \/ Delete(k)
    PROVE  IInv'
  <1>0. /\ StoreInv /\ MuInv /\ ItInv /\ SnapInv /\ SeenInv /\ ScanInv /\ SweepInv
        /\ Len(log) \in Nat /\ clock \in Nat /\ writes \in Nat /\ log \in Seq(Records)
    BY LenProperties, IterateAssumption DEF IInv, StoreInv
  <1>1. PICK v \in Nat, e \in Nat, pos \in {0, Len(log) + 1} :
            /\ Append1(k, v, e, pos) /\ (v = 0 => pos = 0)
            /\ wrote \subseteq wrote' /\ (v # 0 => <<k, v>> \in wrote')
    <2>1. CASE Put(k)
      <3>1. Cardinality(Keys) + writes + 1 \in Nat /\ Cardinality(Keys) + writes + 1 # 0
            /\ 0 \in Nat /\ clock + 1 \in Nat
        BY <1>0, KeysAre
      <3> QED BY <2>1, <3>1 DEF Put
    <2>2. CASE Delete(k)
      BY <2>2 DEF Delete
    <2> QED BY <2>1, <2>2
  <1>2. /\ mu = "free" /\ writes' = writes + 1
        /\ log' = Append(log, [key |-> k, val |-> v, exp |-> e])
        /\ index' = [index EXCEPT ![k] = pos]
        /\ clock' = clock /\ mu' = mu /\ it' = it /\ scan' = scan /\ sweep' = sweep /\ cursor' = cursor
    BY <1>1 DEF Append1
  <1> DEFINE r == [key |-> k, val |-> v, exp |-> e]
  <1>3. r \in Records /\ r.key = k /\ r.val = v
    BY DEF Records
  <1> HIDE DEF r
  <1>4. /\ log' \in Seq(Records) /\ Len(log') = Len(log) + 1 /\ log'[Len(log) + 1] = r
        /\ \A p \in 1 .. Len(log) : log'[p] = log[p]
    BY <1>0, <1>2, <1>3, AppendProperties DEF r
  <1>5. Grows
    BY <1>0, <1>1, <1>2, <1>4 DEF Grows
  <1>6. StoreInv'
    <2>1. index \in [Keys -> 0 .. Len(log)]
      BY <1>0 DEF StoreInv
    <2>2. index' \in [Keys -> 0 .. Len(log')]
      BY <1>0, <1>2, <1>4, <2>1
    <2>3. ASSUME NEW x \in Keys, index'[x] # 0
          PROVE  log'[index'[x]].key = x /\ log'[index'[x]].val # 0
      <3>1. CASE x = k
        <4>1. index'[x] = Len(log) + 1 /\ v # 0
          BY <1>1, <1>2, <2>1, <2>3, <3>1
        <4> QED BY <1>3, <1>4, <3>1, <4>1
      <3>2. CASE x # k
        <4>1. index'[x] = index[x] /\ index[x] \in 1 .. Len(log)
          BY <1>0, <1>2, <2>1, <2>3, <3>2
        <4> QED BY <1>0, <1>4, <2>3, <4>1 DEF StoreInv
      <3> QED BY <3>1, <3>2
    <2>4. ASSUME NEW p \in 1 .. Len(log'), log'[p].val # 0
          PROVE  <<log'[p].key, log'[p].val>> \in wrote'
      <3>1. CASE p = Len(log) + 1
        BY <1>1, <1>3, <1>4, <2>4, <3>1
      <3>2. CASE p # Len(log) + 1
        <4>1. p \in 1 .. Len(log)
          BY <1>0, <1>4, <3>2
        <4> QED BY <1>0, <1>1, <1>4, <2>4, <4>1 DEF StoreInv
      <3> QED BY <3>1, <3>2
    <2>5. clock' \in 0 .. MaxClock /\ writes' \in Nat
      BY <1>0, <1>2 DEF StoreInv
    <2> QED BY <1>4, <2>2, <2>3, <2>4, <2>5 DEF StoreInv
  <1>7. ItInv' /\ SnapInv' /\ SeenInv'
    BY <1>0, <1>2, <1>5, ItFrame
  <1>8. MuInv'
    BY <1>0, <1>2 DEF MuInv
  <1>9. ScanInv' /\ SweepInv'
    <2>1. scan.pc # "run" /\ sweep.pc \notin {"collect", "check"}
      BY <1>0, <1>2 DEF MuInv
    <2>2. clock' \in Nat /\ clock <= clock'
      BY <1>0, <1>2
    <2> QED BY <1>0, <1>2, <2>1, <2>2, ScanFrame, SweepFrame
  <1> QED BY <1>6, <1>7, <1>8, <1>9 DEF IInv

LEMMA TickStep ==
    ASSUME IInv, Tick
    PROVE  IInv'
  <1>0. /\ StoreInv /\ MuInv /\ ItInv /\ SnapInv /\ SeenInv /\ ScanInv /\ SweepInv
        /\ clock \in 0 .. MaxClock /\ MaxClock \in Nat
    BY IterateAssumption DEF IInv, StoreInv
  <1>1. /\ log' = log /\ index' = index /\ wrote' = wrote /\ writes' = writes /\ mu' = mu
        /\ it' = it /\ scan' = scan /\ sweep' = sweep /\ cursor' = cursor
        /\ clock' = clock + 1 /\ clock < MaxClock
    BY DEF Tick, store
  <1>2. Grows /\ clock' \in Nat /\ clock <= clock'
    BY <1>0, <1>1, SameLog
  <1>3. clock' \in 0 .. MaxClock
    BY <1>0, <1>1
  <1>4. StoreInv' /\ ItInv' /\ SnapInv' /\ SeenInv' /\ ScanInv' /\ SweepInv'
    BY <1>0, <1>1, <1>2, <1>3, StoreFrame, ItFrame, ScanFrame, SweepFrame
  <1>5. MuInv'
    BY <1>0, <1>1 DEF MuInv
  <1> QED BY <1>4, <1>5 DEF IInv

\* A merge keeps the live records, in order, and leads the index to them.
LEMMA MergeStep ==
    ASSUME IInv, Merge
    PROVE  IInv'
  <1> DEFINE kept == {p \in 1 .. Len(log) : index[log[p].key] = p /\ Live(log[p], clock)}
             at == InOrder(kept)
             n == Cardinality(kept)
  <1>0. /\ StoreInv /\ MuInv /\ ItInv /\ SnapInv /\ SeenInv /\ ScanInv /\ SweepInv
        /\ Len(log) \in Nat /\ clock \in Nat /\ log \in Seq(Records)
    BY LenProperties, IterateAssumption DEF IInv, StoreInv
  <1>1. kept \in SUBSET (1 .. Len(log))
    OBVIOUS
  <1>2. /\ mu = "free" /\ mu' = mu /\ clock' = clock /\ scan' = scan /\ sweep' = sweep
        /\ cursor' = cursor /\ wrote' = wrote /\ writes' = writes
        /\ log' = [i \in 1 .. Len(at) |-> log[at[i]]]
        /\ index' = [k \in Keys |-> IF index[k] \in kept THEN CHOOSE i \in 1 .. Len(at) : at[i] = index[k]
                                                         ELSE 0]
        /\ it' = IF it.pc = "none" THEN it ELSE [it EXCEPT !.stale = TRUE]
    BY DEF Merge
  <1>3. n \in Nat /\ Listing(at, n, kept)
    <2> HIDE DEF kept
    <2> QED BY <1>0, <1>1, InOrderLemma
  <1> HIDE DEF kept, at, n
  <1>4. /\ at \in [1 .. n -> kept] /\ Len(at) = n
        /\ \A x \in kept : \E i \in 1 .. n : at[i] = x
    BY <1>3 DEF Listing
  <1>5. \A i \in 1 .. n : at[i] \in kept /\ at[i] \in 1 .. Len(log) /\ log[at[i]] \in Records
    <2> SUFFICES ASSUME NEW i \in 1 .. n
                 PROVE  at[i] \in kept /\ at[i] \in 1 .. Len(log) /\ log[at[i]] \in Records
      OBVIOUS
    <2>1. at[i] \in kept /\ at[i] \in 1 .. Len(log)
      BY <1>1, <1>4
    <2> QED BY <1>0, <2>1, ElementOfSeq
  <1>6. /\ log' \in Seq(Records) /\ Len(log') = n
        /\ \A i \in 1 .. n : log'[i] = log[at[i]]
    BY <1>2, <1>3, <1>4, <1>5
  <1>7. StoreInv'
    <2>1. ASSUME NEW k \in Keys
          PROVE  \/ index'[k] = 0
                 \/ index'[k] \in 1 .. n /\ at[index'[k]] = index[k] /\ index[k] \in 1 .. Len(log)
      <3>1. CASE index[k] \in kept
        <4>1. index'[k] = CHOOSE i \in 1 .. n : at[i] = index[k]
          BY <1>2, <1>4, <3>1
        <4>2. \E i \in 1 .. n : at[i] = index[k]
          BY <1>4, <3>1
        <4>3. index'[k] \in 1 .. n /\ at[index'[k]] = index[k]
          BY <4>1, <4>2
        <4> QED BY <1>1, <3>1, <4>3
      <3>2. CASE index[k] \notin kept
        BY <1>2, <3>2
      <3> QED BY <3>1, <3>2
    <2>2. index' = [k \in Keys |-> index'[k]]
      BY <1>2
    <2>3. \A k \in Keys : index'[k] \in 0 .. n
      BY <1>3, <2>1
    <2>4. index' \in [Keys -> 0 .. Len(log')]
      BY <1>6, <2>2, <2>3
    <2>5. ASSUME NEW k \in Keys, index'[k] # 0
          PROVE  log'[index'[k]].key = k /\ log'[index'[k]].val # 0
      <3>1. log'[index'[k]] = log[index[k]] /\ index[k] # 0
        BY <1>0, <1>6, <2>1, <2>5
      <3> QED BY <1>0, <3>1 DEF StoreInv
    <2>6. ASSUME NEW p \in 1 .. Len(log'), log'[p].val # 0
          PROVE  <<log'[p].key, log'[p].val>> \in wrote'
      <3>1. log'[p] = log[at[p]] /\ at[p] \in 1 .. Len(log)
        BY <1>5, <1>6
      <3> QED BY <1>0, <1>2, <2>6, <3>1 DEF StoreInv
    <2> QED BY <1>0, <1>2, <1>6, <2>4, <2>5, <2>6 DEF StoreInv
  <1>8. ItInv' /\ SnapInv' /\ SeenInv'
    <2>1. CASE it.pc = "none"
      BY <1>0, <1>2, <2>1 DEF ItInv, SnapInv, SeenInv
    <2>2. CASE it.pc # "none"
      <3>1. it = [pc |-> it.pc, iter |-> it.iter, match |-> it.match, cont |-> it.cont,
                  item |-> it.item, snap |-> it.snap, seen |-> it.seen, range |-> it.range,
                  stale |-> it.stale, failed |-> it.failed]
        BY <1>0, <2>2 DEF ItInv
      <3>2. it' = [pc |-> it.pc, iter |-> it.iter, match |-> it.match, cont |-> it.cont,
                   item |-> it.item, snap |-> it.snap, seen |-> it.seen, range |-> it.range,
                   stale |-> TRUE, failed |-> it.failed]
        BY <1>2, <2>2, <3>1
      <3>3. /\ it'.pc = it.pc /\ it'.iter = it.iter /\ it'.item = it.item /\ it'.seen = it.seen
            /\ it'.stale = TRUE
            /\ it' = [pc |-> it'.pc, iter |-> it'.iter, match |-> it'.match, cont |-> it'.cont,
                      item |-> it'.item, snap |-> it'.snap, seen |-> it'.seen, range |-> it'.range,
                      stale |-> it'.stale, failed |-> it'.failed]
        BY <3>2
      <3>4. ItInv'
        BY <1>0, <1>2, <2>2, <3>3 DEF ItInv, IterOK
      <3> QED BY <3>3, <3>4 DEF SnapInv, SeenInv
    <2> QED BY <2>1, <2>2
  <1>9. MuInv'
    BY <1>0, <1>2 DEF MuInv
  <1>10. ScanInv' /\ SweepInv'
    <2>1. scan.pc # "run" /\ sweep.pc \notin {"collect", "check"}
      BY <1>0, <1>2 DEF MuInv
    <2>2. clock' \in Nat /\ clock <= clock'
      BY <1>0, <1>2
    <2> QED BY <1>0, <1>2, <2>1, <2>2, ScanFrame, SweepFrame
  <1> QED BY <1>7, <1>8, <1>9, <1>10 DEF IInv
-----------------------------------------------------------------------------
(* The iterator                                                            *)

ItRecord(r) ==
    r = [pc |-> r.pc, iter |-> r.iter, match |-> r.match, cont |-> r.cont,
         item |-> r.item, snap |-> r.snap, seen |-> r.seen, range |-> r.range,
         stale |-> r.stale, failed |-> r.failed]

LEMMA OnlyIt ==
    ASSUME IInv, UNCHANGED <<log, index, wrote, writes, clock, mu, scan, sweep, cursor>>,
           ItInv', SnapInv', SeenInv'
    PROVE  IInv'
  BY DEF IInv, StoreInv, MuInv, ScanInv, ScanWanted, ScanSure, SweepInv

LEMMA NewIteratorStep ==
    ASSUME IInv, NEW reverse \in BOOLEAN, NEW match, NEW cont, NewIterator(reverse, match, cont)
    PROVE  IInv'
  <1>0. StoreInv /\ index \in [Keys -> 0 .. Len(log)] /\ Len(log) \in Nat
    BY LenProperties DEF IInv, StoreInv
  <1>1. index \in [Keys -> Nat]
    BY <1>0
  <1> DEFINE i == IterNew(index, reverse)
             snap == [k \in Items(index) |-> log[index[k]]]
  <1>2. IterOK(i) /\ i.tree = index /\ i.reverse = reverse /\ Ahead(i) = Items(index)
    BY <1>1, IterNewLemma
  <1>3. it' = [pc |-> "skip", iter |-> i, match |-> match, cont |-> cont,
               item |-> NoItem, snap |-> snap, seen |-> <<>>,
               range |-> Keys, stale |-> FALSE, failed |-> FALSE]
    BY DEF NewIterator
  <1>4. UNCHANGED <<log, index, wrote, writes, clock, mu, scan, sweep, cursor>>
    BY DEF NewIterator, store
  <1> HIDE DEF i
  <1>5. DOMAIN snap = Items(index) /\ \A k \in Items(index) : snap[k] = log[index[k]]
    OBVIOUS
  <1> HIDE DEF snap
  <1>6. /\ ItRecord(it') /\ it'.pc = "skip" /\ it'.iter = i /\ it'.item = NoItem /\ it'.snap = snap
        /\ it'.seen = <<>> /\ it'.range = Keys
    BY <1>3 DEF ItRecord
  <1>7. ItInv'
    BY <1>2, <1>6 DEF ItInv, ItRecord, IterOK
  <1>8. SnapInv'
    <2>1. \A k \in Items(index) : /\ index[k] <= Len(log) /\ log[index[k]].key = k
                                  /\ log[index[k]].val # 0
      BY <1>0, RecordOfKey
    <2> QED BY <1>2, <1>4, <1>5, <1>6, <2>1 DEF SnapInv
  <1>9. SeenInv'
    <2>1. Left' = Items(index)
      BY <1>2, <1>4, <1>6 DEF Left, Ahead
    <2>2. Wanted' \subseteq Items(index)
      BY <1>5, <1>6 DEF Wanted
    <2>3. Len(it'.seen) = 0
      BY <1>6
    <2>4. Left' \subseteq it'.range
      BY <1>0, <1>6, <2>1, ItemsAreKeys
    <2> QED BY <2>1, <2>2, <2>3, <2>4 DEF SeenInv
  <1> QED BY <1>4, <1>7, <1>8, <1>9, OnlyIt

\* A call that moves the iterator: on from where it is, or afresh to the keys
\* of a range.
LEMMA PositionStep ==
    ASSUME IInv, NEW i, NEW seen, NEW range, Position(i, seen, range),
           IterOK(i), i.tree = it.iter.tree, i.reverse = it.iter.reverse,
           \/ seen = it.seen /\ range = it.range /\ Ahead(i) = Left
           \/ seen = <<>> /\ Ahead(i) = Items(i.tree) \cap range
    PROVE  IInv'
  <1>0. /\ ItInv /\ SnapInv /\ SeenInv /\ it.pc = "idle"
        /\ UNCHANGED <<log, index, wrote, writes, clock, mu, scan, sweep, cursor>>
    BY DEF IInv, Position, store
  <1>1. ItRecord(it)
    BY <1>0 DEF ItInv, ItRecord
  <1>2. it' = [pc |-> "skip", iter |-> i, match |-> it.match, cont |-> it.cont,
               item |-> NoItem, snap |-> it.snap, seen |-> seen, range |-> range,
               stale |-> it.stale, failed |-> it.failed]
    BY <1>1 DEF Position, ItRecord
  <1>3. /\ ItRecord(it') /\ it'.pc = "skip" /\ it'.iter = i /\ it'.item = NoItem
        /\ it'.snap = it.snap /\ it'.seen = seen /\ it'.range = range /\ it'.match = it.match
        /\ it'.stale = it.stale /\ it'.failed = it.failed
    BY <1>2 DEF ItRecord
  <1>4. seen \in Seq(Keys \X Nat)
    <2>1. it.seen \in Seq(Keys \X Nat)
      BY <1>0 DEF ItInv
    <2>2. <<>> \in Seq(Keys \X Nat)
      BY EmptySeq
    <2> QED BY <2>1, <2>2
  <1>5. ItInv'
    <2>1. IterOK(it'.iter)
      BY <1>3
    <2> QED BY <1>3, <1>4, <2>1 DEF ItInv, ItRecord, IterOK
  <1>6. SnapInv'
    BY <1>0, <1>3 DEF SnapInv
  <1>7. SeenInv'
    <2> SUFFICES ASSUME ~it.stale PROVE SeenInv'
      BY <1>3 DEF SeenInv
    <2>1. Left' = Ahead(i)
      BY <1>3 DEF Left, Ahead
    <2>2. Wanted' = DOMAIN it.snap \cap it.match \cap range /\ DOMAIN it.snap = Items(i.tree)
      BY <1>0, <1>3 DEF Wanted, SnapInv
    <2>3. CASE seen = it.seen /\ range = it.range /\ Ahead(i) = Left
      <3>1. Wanted' = Wanted
        BY <2>2, <2>3 DEF Wanted
      <3> QED BY <1>0, <1>3, <2>1, <2>3, <3>1 DEF SeenInv
    <2>4. CASE seen = <<>> /\ Ahead(i) = Items(i.tree) \cap range
      <3>1. /\ Len(it'.seen) = 0 /\ \A k \in Wanted' : k \in Left'
            /\ Left' \subseteq it'.range
        BY <1>3, <2>1, <2>2, <2>4
      <3> QED BY <3>1 DEF SeenInv
    <2> QED BY <2>3, <2>4
  <1> QED BY <1>0, <1>5, <1>6, <1>7, OnlyIt

LEMMA CallStep ==
    ASSUME IInv, NextItem \/ Rewind \/ \E k \in Keys : Seek(k)
    PROVE  IInv'
  <1>1. it.pc = "idle"
    BY DEF NextItem, Rewind, Seek, Position
  <1>2. IterOK(it.iter)
    BY <1>1 DEF IInv, ItInv
  <1>3. CASE NextItem
    <2>1. /\ IterOK(IterNext(it.iter)) /\ IterNext(it.iter).tree = it.iter.tree
          /\ IterNext(it.iter).reverse = it.iter.reverse
          /\ Ahead(IterNext(it.iter)) = Left
      BY <1>1, <1>2, IterNextLemma DEF Left
    <2> QED BY <1>3, <2>1, PositionStep DEF NextItem
  <1>4. CASE Rewind
    <2>1. /\ IterOK(IterRewind(it.iter)) /\ IterRewind(it.iter).tree = it.iter.tree
          /\ IterRewind(it.iter).reverse = it.iter.reverse
          /\ Ahead(IterRewind(it.iter)) = Items(it.iter.tree)
      BY <1>2, IterRewindLemma
    <2>2. Items(it.iter.tree) \cap Keys = Items(it.iter.tree)
      BY <1>2, ItemsAreKeys DEF IterOK
    <2> QED BY <1>4, <2>1, <2>2, PositionStep DEF Rewind
  <1>5. ASSUME NEW k \in Keys, Seek(k) PROVE IInv'
    <2> DEFINE j == IterSeek(it.iter, k)
               range == {x \in Keys : IF it.iter.reverse THEN x <= k ELSE x >= k}
    <2>1. /\ IterOK(j) /\ j.tree = it.iter.tree /\ j.reverse = it.iter.reverse
          /\ ~it.iter.valid => j = it.iter
          /\ it.iter.valid => Ahead(j) = {x \in Items(it.iter.tree) : IF it.iter.reverse THEN x <= k ELSE x >= k}
      BY <1>2, IterSeekLemma
    <2>2. CASE it.iter.valid
      <3>1. Position(j, <<>>, range)
        BY <1>5, <2>2 DEF Seek
      <3>2. Ahead(j) = Items(j.tree) \cap range
        <4>1. Items(it.iter.tree) \subseteq Keys
          BY <1>2, ItemsAreKeys DEF IterOK
        <4> QED BY <2>1, <2>2, <4>1
      <3> HIDE DEF j, range
      <3> QED BY <2>1, <3>1, <3>2, PositionStep
    <2>3. CASE ~it.iter.valid
      <3>1. Position(j, it.seen, it.range)
        BY <1>5, <2>3 DEF Seek
      <3>2. Ahead(j) = Left
        BY <1>1, <2>1, <2>3 DEF Ahead, Left
      <3> HIDE DEF j
      <3> QED BY <2>1, <3>1, <3>2, PositionStep
    <2> QED BY <2>2, <2>3
  <1> QED BY <1>3, <1>4, <1>5

LEMMA CloseStep ==
    ASSUME IInv, Close
    PROVE  IInv'
  <1>0. /\ ItInv /\ SnapInv /\ SeenInv /\ it.pc = "idle"
        /\ UNCHANGED <<log, index, wrote, writes, clock, mu, scan, sweep, cursor>>
    BY DEF IInv, Close, store
  <1>1. ItRecord(it)
    BY <1>0 DEF ItInv, ItRecord
  <1>2. it' = [pc |-> "closed", iter |-> it.iter, match |-> it.match, cont |-> it.cont,
               item |-> it.item, snap |-> it.snap, seen |-> it.seen, range |-> it.range,
               stale |-> it.stale, failed |-> it.failed]
    BY <1>1 DEF Close, ItRecord
  <1>3. /\ ItRecord(it') /\ it'.pc = "closed" /\ it'.iter = it.iter /\ it'.item = it.item
        /\ it'.snap = it.snap /\ it'.seen = it.seen /\ it'.range = it.range /\ it'.match = it.match
        /\ it'.stale = it.stale
    BY <1>2 DEF ItRecord
  <1>4. ItInv'
    BY <1>0, <1>3 DEF ItInv, ItRecord, IterOK
  <1>5. SnapInv' /\ SeenInv'
    BY <1>0, <1>3 DEF SnapInv, SeenInv, Wanted
  <1> QED BY <1>0, <1>4, <1>5, OnlyIt

\* One round of skipToNext that returns nothing: it passes over the current
\* key, gives up, or is at the end.
LEMMA PassStep ==
    ASSUME IInv, it.pc = "skip", NEW i, NEW pc, NEW failed, SkipRound(i, pc, NoItem, failed),
           failed = it.failed \/ failed = TRUE,
           \/ i = it.iter /\ ~it.iter.valid /\ pc = "idle" /\ failed = it.failed
           \/ i = it.iter /\ pc = "closed"
           \/ /\ i = IterNext(it.iter) /\ it.iter.valid /\ pc = "skip"
              /\ ~it.stale => \/ it.iter.current \notin it.match \/ failed = TRUE
                              \/ Expired(it.snap[it.iter.current], clock)
    PROVE  IInv'
  <1>0. /\ ItInv /\ SnapInv /\ SeenInv
        /\ UNCHANGED <<log, index, wrote, writes, clock, mu, scan, sweep, cursor>>
    BY DEF IInv, SkipRound, store
  <1>1. ItRecord(it) /\ IterOK(it.iter) /\ it.seen \in Seq(Keys \X Nat)
    BY <1>0 DEF ItInv, ItRecord
  <1>2. it' = [pc |-> pc, iter |-> i, match |-> it.match, cont |-> it.cont,
               item |-> NoItem, snap |-> it.snap, seen |-> it.seen, range |-> it.range,
               stale |-> it.stale, failed |-> failed]
    BY <1>1 DEF SkipRound, ItRecord
  <1>3. /\ ItRecord(it') /\ it'.pc = pc /\ it'.iter = i /\ it'.item = NoItem
        /\ it'.snap = it.snap /\ it'.seen = it.seen /\ it'.range = it.range /\ it'.match = it.match
        /\ it'.stale = it.stale /\ it'.failed = failed
    BY <1>2 DEF ItRecord
  <1>4. IterOK(i) /\ i.tree = it.iter.tree /\ i.reverse = it.iter.reverse
    BY <1>1, IterNextLemma
  <1>5. ItInv'
    <2>1. pc \in {"skip", "idle", "closed"} /\ IterOK(it'.iter)
      BY <1>3, <1>4
    <2> QED BY <1>1, <1>3, <2>1 DEF ItInv, ItRecord, IterOK
  <1>6. SnapInv'
    BY <1>0, <1>3, <1>4 DEF SnapInv
  <1>7. SeenInv'
    <2> SUFFICES ASSUME ~it.stale PROVE SeenInv'
      BY <1>3 DEF SeenInv
    <2>1. Wanted' = Wanted
      BY <1>3 DEF Wanted
    <2>2. Left = Ahead(it.iter)
      BY DEF Left
    <2>3. CASE i = it.iter /\ pc = "closed"
      BY <1>0, <1>3, <2>1, <2>3 DEF SeenInv
    <2>4. CASE i = it.iter /\ ~it.iter.valid /\ pc = "idle" /\ failed = it.failed
      <3>1. Left' = {} /\ Left = {}
        BY <1>3, <2>2, <2>4 DEF Left, Ahead
      <3> QED BY <1>0, <1>3, <2>1, <2>4, <3>1 DEF SeenInv
    <2>5. CASE /\ i = IterNext(it.iter) /\ it.iter.valid /\ pc = "skip"
               /\ \/ it.iter.current \notin it.match \/ failed = TRUE
                  \/ Expired(it.snap[it.iter.current], clock)
      <3>1. Left' = Left \ {it.iter.current}
        <4>1. Ahead(i) = Ahead(it.iter) \ {it.iter.current}
          BY <1>1, <2>5, IterNextLemma
        <4>2. Left' = Ahead(i)
          BY <1>3, <2>5 DEF Left, Ahead
        <4> QED BY <2>2, <4>1, <4>2
      <3>2. it.iter.current \in Wanted => failed = TRUE \/ Expired(it.snap[it.iter.current], clock)
        BY <2>5 DEF Wanted
      <3> QED BY <1>0, <1>3, <1>4, <2>1, <2>5, <3>1, <3>2 DEF SeenInv
    <2> QED BY <2>3, <2>4, <2>5
  <1> QED BY <1>0, <1>5, <1>6, <1>7, OnlyIt

\* The position of the current key and the record that is there now.
LEMMA PosLemma ==
    ASSUME IInv, it.pc = "skip", it.iter.valid = TRUE, Reads(Pos)
    PROVE  /\ Pos \in 1 .. Len(log) /\ log[Pos] \in Records
           /\ it.iter.current \in Items(it.iter.tree)
           /\ ~it.stale => /\ log[Pos] = it.snap[it.iter.current]
                           /\ log[Pos].key = it.iter.current /\ log[Pos].val # 0
                           /\ it.iter.current \in DOMAIN it.snap
  <1>0. StoreInv /\ ItInv /\ SnapInv /\ Len(log) \in Nat
    BY LenProperties DEF IInv, StoreInv
  <1>1. it.iter.current \in Items(it.iter.tree) /\ it.iter.tree \in [Keys -> Nat]
    BY <1>0 DEF ItInv, IterOK
  <1>2. Pos \in Nat /\ Pos # 0 /\ Pos <= Len(log)
    BY <1>1 DEF Pos, Items, Reads
  <1>3. Pos \in 1 .. Len(log)
    BY <1>0, <1>2
  <1>4. log[Pos] \in Records
    BY <1>0, <1>3, ElementOfSeq DEF StoreInv
  <1>5. ~it.stale => /\ log[Pos] = it.snap[it.iter.current]
                     /\ log[Pos].key = it.iter.current /\ log[Pos].val # 0
                     /\ it.iter.current \in DOMAIN it.snap
    BY <1>0, <1>1 DEF SnapInv, Pos
  <1> QED BY <1>1, <1>3, <1>4, <1>5

\* One round that returns the record at the current position.
LEMMA ReturnStep ==
    ASSUME IInv, it.pc = "skip", it.iter.valid = TRUE, it.iter.current \in it.match,
           Reads(Pos), Live(log[Pos], clock),
           SkipRound(it.iter, "idle", <<log[Pos].key, log[Pos].val>>, it.failed)
    PROVE  IInv'
  <1> DEFINE item == <<log[Pos].key, log[Pos].val>>
  <1>0. /\ StoreInv /\ ItInv /\ SnapInv /\ SeenInv
        /\ UNCHANGED <<log, index, wrote, writes, clock, mu, scan, sweep, cursor>>
    BY DEF IInv, SkipRound, store
  <1>1. ItRecord(it) /\ IterOK(it.iter) /\ it.seen \in Seq(Keys \X Nat)
    BY <1>0 DEF ItInv, ItRecord
  <1>2. /\ Pos \in 1 .. Len(log) /\ log[Pos] \in Records
        /\ it.iter.current \in Items(it.iter.tree)
        /\ ~it.stale => /\ log[Pos] = it.snap[it.iter.current]
                        /\ log[Pos].key = it.iter.current /\ log[Pos].val # 0
                        /\ it.iter.current \in DOMAIN it.snap
    BY PosLemma
  <1>3. item \in Keys \X Nat /\ item \in wrote /\ item # NoItem /\ item[1] = log[Pos].key /\ item[2] = log[Pos].val
    <2>1. log[Pos].key \in Keys /\ log[Pos].val \in Nat
      BY <1>2 DEF Records
    <2>2. log[Pos].key # 0
      BY <2>1, KeysAre
    <2>3. item \in wrote
      BY <1>0, <1>2 DEF StoreInv, Live
    <2> QED BY <2>1, <2>2, <2>3 DEF NoItem
  <1> DEFINE seen == Append(it.seen, item)
  <1>4. it' = [pc |-> "idle", iter |-> it.iter, match |-> it.match, cont |-> it.cont,
               item |-> item, snap |-> it.snap, seen |-> seen, range |-> it.range,
               stale |-> it.stale, failed |-> it.failed]
    <2>1. it' = [it EXCEPT !.pc = "idle", !.iter = it.iter, !.item = item, !.failed = it.failed,
                           !.seen = IF item = NoItem THEN @ ELSE Append(@, item)]
      BY DEF SkipRound
    <2> HIDE DEF item
    <2> QED BY <1>1, <1>3, <2>1 DEF ItRecord
  <1> HIDE DEF item
  <1>5. /\ seen \in Seq(Keys \X Nat) /\ Len(seen) = Len(it.seen) + 1 /\ Len(it.seen) \in Nat
        /\ \A i \in 1 .. Len(it.seen) : seen[i] = it.seen[i]
        /\ seen[Len(it.seen) + 1] = item
    BY <1>1, <1>3, AppendProperties, LenProperties
  <1> HIDE DEF seen
  <1>6. /\ ItRecord(it') /\ it'.pc = "idle" /\ it'.iter = it.iter /\ it'.item = item
        /\ it'.snap = it.snap /\ it'.seen = seen /\ it'.range = it.range /\ it'.match = it.match
        /\ it'.stale = it.stale /\ it'.failed = it.failed
    BY <1>4 DEF ItRecord
  <1>7. ItInv'
    BY <1>0, <1>1, <1>3, <1>5, <1>6 DEF ItInv, ItRecord, IterOK
  <1>8. SnapInv'
    BY <1>0, <1>6 DEF SnapInv
  <1>9. SeenInv'
    <2> SUFFICES ASSUME ~it.stale PROVE SeenInv'
      BY <1>6 DEF SeenInv
    <2> DEFINE c == it.iter.current
               m == Len(it.seen)
    <2>1. Wanted' = Wanted /\ it.iter.reverse \in BOOLEAN
      BY <1>1, <1>6 DEF Wanted, IterOK
    <2>2. Left = Ahead(it.iter) /\ Left' = Left \ {c} /\ c \in Left
      BY <1>2, <1>6 DEF Left, Ahead
    <2>3. item[1] = c /\ item[2] = it.snap[c].val /\ c \in DOMAIN it.snap
      BY <1>2, <1>3
    <2>4. Left \subseteq Nat /\ \A a \in Left : a = c \/ Before(it.iter.reverse, c, a)
      BY <1>1, <2>2, ItemsAreKeys DEF Ahead, IterOK
    <2>5. \A i \in 1 .. (m + 1) : i \in 1 .. m \/ i = m + 1
      BY <1>5
    <2>6. c \in Wanted
      BY <1>0, <2>2, <2>3 DEF Wanted, SeenInv
    <2> HIDE DEF c, m
    <2>7. \A i \in 1 .. m : seen[i] = it.seen[i] /\ Before(it.iter.reverse, it.seen[i][1], c)
      BY <1>0, <1>5, <2>2 DEF SeenInv, m
    <2>8. seen[m + 1][1] = c /\ seen[m + 1][2] = it.snap[c].val /\ Len(seen) = m + 1 /\ m \in Nat
      BY <1>5, <2>3 DEF m
    <2>9. ASSUME NEW i \in 1 .. (m + 1), NEW j \in 1 .. (m + 1), i < j
          PROVE  Before(it.iter.reverse, seen[i][1], seen[j][1])
      <3>1. i \in 1 .. m
        BY <2>8, <2>9
      <3>2. CASE j = m + 1
        BY <2>7, <2>8, <3>1, <3>2
      <3>3. CASE j \in 1 .. m
        BY <1>0, <2>7, <2>9, <3>1, <3>3 DEF SeenInv, m
      <3> QED BY <2>5, <3>2, <3>3
    <2>10. ASSUME NEW i \in 1 .. (m + 1)
           PROVE  /\ seen[i][1] \in Wanted /\ seen[i][2] = it.snap[seen[i][1]].val
                  /\ \A a \in Left' : Before(it.iter.reverse, seen[i][1], a)
      <3>1. CASE i \in 1 .. m
        BY <1>0, <2>2, <2>7, <3>1 DEF SeenInv, m
      <3>2. CASE i = m + 1
        BY <2>2, <2>4, <2>6, <2>8, <3>2
      <3> QED BY <2>5, <3>1, <3>2
    <2>11. ASSUME NEW k \in Wanted
           PROVE  \/ k \in Left' \/ it.failed = TRUE \/ Expired(it.snap[k], clock)
                  \/ \E i \in 1 .. (m + 1) : seen[i][1] = k
      <3>1. CASE k = c
        BY <2>8, <3>1
      <3>2. CASE \E i \in 1 .. m : it.seen[i][1] = k
        <4>1. PICK i \in 1 .. m : it.seen[i][1] = k
          BY <3>2
        <4>2. i \in 1 .. (m + 1) /\ seen[i][1] = k
          BY <2>7, <2>8, <4>1
        <4> QED BY <4>2
      <3>3. \/ k \in Left \/ it.failed = TRUE \/ Expired(it.snap[k], clock)
            \/ \E i \in 1 .. m : it.seen[i][1] = k
        BY <1>0 DEF SeenInv, m
      <3> QED BY <2>2, <3>1, <3>2, <3>3
    <2>12. Left' \subseteq it.range
      BY <1>0, <2>2 DEF SeenInv
    <2>13. /\ Len(it'.seen) = m + 1 /\ it'.seen = seen /\ it'.iter.reverse = it.iter.reverse
           /\ it'.snap = it.snap /\ it'.failed = it.failed /\ it'.range = it.range /\ clock' = clock
      BY <1>0, <1>6, <2>8
    <2>14. \A i, j \in 1 .. Len(it'.seen) : i < j => Before(it'.iter.reverse, it'.seen[i][1], it'.seen[j][1])
      BY <2>9, <2>13, Zenon
    <2>15. \A i \in 1 .. Len(it'.seen) :
              it'.seen[i][1] \in Wanted' /\ it'.seen[i][2] = it'.snap[it'.seen[i][1]].val
      BY <2>1, <2>10, <2>13, Zenon
    <2>16. \A i \in 1 .. Len(it'.seen) : \A a \in Left' : Before(it'.iter.reverse, it'.seen[i][1], a)
      BY <2>10, <2>13, Zenon
    <2>17. \A k \in Wanted' :
              \/ k \in Left' \/ it'.failed = TRUE \/ Expired(it'.snap[k], clock')
              \/ \E i \in 1 .. Len(it'.seen) : it'.seen[i][1] = k
      BY <2>1, <2>11, <2>13, Zenon
    <2>18. Left' \subseteq it'.range
      BY <2>12, <2>13
    <2> QED BY <2>14, <2>15, <2>16, <2>17, <2>18 DEF SeenInv
  <1> QED BY <1>0, <1>7, <1>8, <1>9, OnlyIt

\* skipToNext, one round.
LEMMA SkipStep ==
    ASSUME IInv, SkipToNext
    PROVE  IInv'
  <1>0. it.pc = "skip" /\ ItInv /\ StoreInv
    BY DEF SkipToNext, IInv
  <1>1. it.iter.valid \in BOOLEAN
    BY <1>0 DEF ItInv, IterOK
  <1>2. CASE ~it.iter.valid
    <2>1. SkipRound(it.iter, "idle", NoItem, it.failed)
      BY <1>2 DEF SkipToNext
    <2> QED BY <1>0, <1>2, <2>1, PassStep
  <1>3. CASE it.iter.valid /\ it.iter.current \notin it.match
    <2>1. SkipRound(IterNext(it.iter), "skip", NoItem, it.failed)
      BY <1>3 DEF SkipToNext
    <2> QED BY <1>0, <1>3, <2>1, PassStep
  <1>4. CASE it.iter.valid = TRUE /\ it.iter.current \in it.match
    <2>1. CASE SkipRound(IterNext(it.iter), "skip", NoItem, TRUE)
      BY <1>0, <1>4, <2>1, PassStep
    <2>2. CASE SkipRound(it.iter, "closed", NoItem, TRUE)
      BY <1>0, <1>4, <2>2, PassStep
    <2>3. CASE /\ Reads(Pos) /\ Live(log[Pos], clock)
               /\ SkipRound(it.iter, "idle", <<log[Pos].key, log[Pos].val>>, it.failed)
      BY <1>0, <1>4, <2>3, ReturnStep
    <2>4. CASE /\ Reads(Pos) /\ ~Live(log[Pos], clock)
               /\ SkipRound(IterNext(it.iter), "skip", NoItem, it.failed)
      <3>1. ~it.stale => Expired(it.snap[it.iter.current], clock)
        BY <1>0, <1>4, <2>4, PosLemma DEF Live
      <3> QED BY <1>0, <1>4, <2>4, <3>1, PassStep
    <2> QED BY <1>4, <2>1, <2>2, <2>3, <2>4 DEF SkipToNext
  <1> QED BY <1>1, <1>2, <1>3, <1>4
-----------------------------------------------------------------------------
(* The scans                                                               *)

ScanRecord(r) ==
    r = [pc |-> r.pc, reverse |-> r.reverse, todo |-> r.todo, asked |-> r.asked,
         end |-> r.end, match |-> r.match, filter |-> r.filter, out |-> r.out, start |-> r.start]

LEMMA OnlyScan ==
    ASSUME IInv, UNCHANGED <<log, index, wrote, writes, clock, it, sweep, cursor>>, ScanInv', MuInv'
    PROVE  IInv'
  BY DEF IInv, StoreInv, ItInv, SnapInv, SeenInv, Left, Wanted, SweepInv

\* A scan starts with the keys asked for that are in the index, except perhaps
\* the end of a range.
LEMMA ScanStart ==
    ASSUME IInv, NEW reverse \in BOOLEAN, NEW asked, NEW end, NEW todo,
           todo \subseteq asked \cap Items(index), (asked \ {end}) \cap Items(index) \subseteq todo,
           NEW match, NEW filter, Scan(reverse, todo, asked, end, match, filter)
    PROVE  IInv'
  <1>0. /\ StoreInv /\ MuInv /\ ScanInv /\ clock \in Nat
        /\ UNCHANGED <<log, index, wrote, writes, clock, it, sweep, cursor>>
        /\ mu = "free" /\ mu' = "read"
    BY IterateAssumption DEF IInv, StoreInv, Scan, store
  <1>1. scan' = [pc |-> "run", reverse |-> reverse, todo |-> todo, asked |-> asked, end |-> end,
                 match |-> match, filter |-> filter, out |-> <<>>, start |-> clock]
    BY DEF Scan
  <1>2. /\ ScanRecord(scan') /\ scan'.pc = "run" /\ scan'.reverse = reverse /\ scan'.todo = todo
        /\ scan'.asked = asked /\ scan'.end = end /\ scan'.match = match /\ scan'.out = <<>> /\ scan'.start = clock
    BY <1>1 DEF ScanRecord
  <1>3. Len(scan'.out) = 0 /\ scan'.out \in Seq(Keys \X Nat)
    BY <1>2
  <1>4. ScanSure' \subseteq todo
    BY <1>0, <1>2 DEF ScanWanted, ScanSure
  <1>5. scan'.todo \subseteq scan'.asked \cap Items(index')
    BY <1>0, <1>2
  <1>6. scan'.start \in Nat /\ scan'.start <= clock'
    BY <1>0, <1>2
  <1>7. ScanInv'
    BY <1>2, <1>3, <1>4, <1>5, <1>6 DEF ScanInv, ScanRecord
  <1>8. MuInv'
    BY <1>0, <1>2 DEF MuInv
  <1> QED BY <1>0, <1>7, <1>8, OnlyScan

LEMMA ScansStep ==
    ASSUME IInv, Scans
    PROVE  IInv'
  <1>0. Items(index) \subseteq Keys /\ Items(index) \subseteq Nat /\ Keys \subseteq Nat
    BY ItemsAreKeys, KeysAre DEF IInv, StoreInv
  <1>1. /\ Items(index) \subseteq Keys \cap Items(index) /\ (Keys \ {0}) \cap Items(index) \subseteq Items(index)
        /\ TRUE \in BOOLEAN /\ FALSE \in BOOLEAN
    BY <1>0
  <1>2. ASSUME NEW s \in Keys, NEW e \in Keys
        PROVE  /\ AscendGreaterOrEqual(index, s) \subseteq {k \in Keys : k >= s} \cap Items(index)
               /\ ({k \in Keys : k >= s} \ {0}) \cap Items(index) \subseteq AscendGreaterOrEqual(index, s)
               /\ DescendLessOrEqual(index, s) \subseteq {k \in Keys : k <= s} \cap Items(index)
               /\ ({k \in Keys : k <= s} \ {0}) \cap Items(index) \subseteq DescendLessOrEqual(index, s)
               /\ AscendRange(index, s, e) \subseteq (s .. e) \cap Items(index)
               /\ ((s .. e) \ {e}) \cap Items(index) \subseteq AscendRange(index, s, e)
               /\ DescendRange(index, s, e) \subseteq (e .. s) \cap Items(index)
               /\ ((e .. s) \ {e}) \cap Items(index) \subseteq DescendRange(index, s, e)
    <2>0. s \in Nat /\ e \in Nat
      BY <1>0
    <2>1. AscendGreaterOrEqual(index, s) = {k \in Keys : k >= s} \cap Items(index)
      BY <1>0, <2>0 DEF AscendGreaterOrEqual
    <2>2. DescendLessOrEqual(index, s) = {k \in Keys : k <= s} \cap Items(index)
      BY <1>0, <2>0 DEF DescendLessOrEqual
    <2>3. AscendRange(index, s, e) = ((s .. e) \ {e}) \cap Items(index)
      BY <1>0, <2>0 DEF AscendRange
    <2>4. DescendRange(index, s, e) = ((e .. s) \ {e}) \cap Items(index)
      BY <1>0, <2>0 DEF DescendRange
    <2> QED BY <2>1, <2>2, <2>3, <2>4
  <1>3. CASE Ascend \/ Descend
    BY <1>1, <1>3, ScanStart DEF Ascend, Descend
  <1>4. CASE \E s \in Keys : AscendFrom(s) \/ DescendFrom(s)
    BY <1>1, <1>2, <1>4, ScanStart DEF AscendFrom, DescendFrom
  <1>5. CASE \E s, e \in Keys : AscendBetween(s, e) \/ DescendBetween(s, e)
    BY <1>1, <1>2, <1>5, ScanStart DEF AscendBetween, DescendBetween
  <1>6. CASE \E m \in Matches, f \in BOOLEAN : AscendKeys(m, f) \/ DescendKeys(m, f)
    BY <1>1, <1>6, ScanStart DEF AscendKeys, DescendKeys
  <1>7. CASE \E s, e \in Keys, m \in Matches, f \in BOOLEAN :
                AscendKeysRange(s, e, m, f) \/ DescendKeysRange(s, e, m, f)
    BY <1>1, <1>2, <1>7, ScanStart DEF AscendKeysRange, DescendKeysRange
  <1> QED BY <1>3, <1>4, <1>5, <1>6, <1>7 DEF Scans

\* The scan deals with its next key and goes on: the key is passed over, for a
\* good reason, or handed out.
LEMMA ScanGoesOn ==
    ASSUME IInv, scan.pc = "run", NEW k, k \in scan.todo,
           \A a \in scan.todo : a = k \/ Before(scan.reverse, k, a),
           NEW out, scan' = [scan EXCEPT !.todo = @ \ {k}, !.out = out, !.pc = "run"],
           UNCHANGED <<log, index, clock>>,
           \/ /\ out = scan.out
              /\ k \notin scan.match \/ (scan.filter /\ Expired(log[index[k]], clock))
           \/ /\ out = Append(scan.out, <<k, log[index[k]].val>>)
              /\ k \in scan.match /\ (~scan.filter \/ ~Expired(log[index[k]], clock))
    PROVE  ScanInv' /\ scan'.pc = "run"
  <1>0. /\ StoreInv /\ ScanInv /\ clock \in Nat /\ ScanRecord(scan) /\ Len(scan.out) \in Nat
        /\ scan.reverse \in BOOLEAN /\ scan.start \in Nat /\ scan.start <= clock
        /\ scan.todo \subseteq scan.asked \cap Items(index) /\ scan.out \in Seq(Keys \X Nat)
    BY IterateAssumption, LenProperties DEF IInv, StoreInv, ScanInv, ScanRecord
  <1>1. scan' = [pc |-> "run", reverse |-> scan.reverse, todo |-> scan.todo \ {k}, asked |-> scan.asked,
                 end |-> scan.end, match |-> scan.match, filter |-> scan.filter, out |-> out, start |-> scan.start]
    BY <1>0 DEF ScanRecord
  <1>2. /\ ScanRecord(scan') /\ scan'.pc = "run" /\ scan'.reverse = scan.reverse
        /\ scan'.todo = scan.todo \ {k} /\ scan'.asked = scan.asked /\ scan'.end = scan.end /\ scan'.match = scan.match
        /\ scan'.out = out /\ scan'.start = scan.start /\ scan'.filter = scan.filter
    BY <1>1 DEF ScanRecord
  <1>3. ScanWanted' = ScanWanted /\ ScanSure' = ScanSure
    BY <1>2 DEF ScanWanted, ScanSure
  <1> DEFINE m == Len(scan.out)
  <1>4. /\ \A i, j \in 1 .. m : i < j => Before(scan.reverse, scan.out[i][1], scan.out[j][1])
        /\ \A i \in 1 .. m :
              /\ scan.out[i][1] \in ScanWanted
              /\ scan.out[i][2] = log[index[scan.out[i][1]]].val
              /\ scan.filter => ~Expired(log[index[scan.out[i][1]]], scan.start)
              /\ \A a \in scan.todo : Before(scan.reverse, scan.out[i][1], a)
        /\ \A x \in ScanSure :
              \/ x \in scan.todo \/ (scan.filter /\ Expired(log[index[x]], clock))
              \/ \E i \in 1 .. m : scan.out[i][1] = x
    BY <1>0 DEF ScanInv
  <1>5. CASE /\ out = scan.out
             /\ k \notin scan.match \/ (scan.filter /\ Expired(log[index[k]], clock))
    <2>1. \A x \in ScanSure : x \in scan'.todo \/ (scan.filter /\ Expired(log[index[x]], clock))
                                  \/ \E i \in 1 .. m : scan.out[i][1] = x
      BY <1>2, <1>4, <1>5 DEF ScanWanted, ScanSure
    <2>2. \A i \in 1 .. m : \A a \in scan'.todo : Before(scan.reverse, scan.out[i][1], a)
      BY <1>2, <1>4
    <2>3. scan'.todo \subseteq scan.asked \cap Items(index)
      BY <1>0, <1>2
    <2> QED BY <1>0, <1>2, <1>3, <1>4, <1>5, <2>1, <2>2, <2>3 DEF ScanInv, ScanRecord
  <1>6. CASE /\ out = Append(scan.out, <<k, log[index[k]].val>>)
             /\ k \in scan.match /\ (~scan.filter \/ ~Expired(log[index[k]], clock))
    <2> DEFINE item == <<k, log[index[k]].val>>
    <2>1. k \in Items(index) /\ k \in ScanWanted
      BY <1>0, <1>6 DEF ScanWanted
    <2>2. k \in Keys /\ log[index[k]].val \in Nat /\ log[index[k]].exp \in Nat
      BY <1>0, <2>1, RecordOfKey DEF Records
    <2>3. item \in Keys \X Nat /\ item[1] = k /\ item[2] = log[index[k]].val
      BY <2>2
    <2> HIDE DEF item
    <2>4. /\ out \in Seq(Keys \X Nat) /\ Len(out) = m + 1 /\ out[m + 1] = item
          /\ \A i \in 1 .. m : out[i] = scan.out[i]
      BY <1>0, <1>6, <2>3, AppendProperties DEF item
    <2>5. scan.filter => ~Expired(log[index[k]], scan.start)
      BY <1>0, <1>6, <2>2, ExpiredStays
    <2>6. m \in Nat /\ \A i \in 1 .. (m + 1) : i \in 1 .. m \/ i = m + 1
      BY <1>0
    <2> HIDE DEF m
    <2>7. ASSUME NEW i \in 1 .. (m + 1), NEW j \in 1 .. (m + 1), i < j
          PROVE  Before(scan.reverse, out[i][1], out[j][1])
      <3>1. i \in 1 .. m
        BY <2>6, <2>7
      <3>2. CASE j = m + 1
        BY <1>4, <2>3, <2>4, <3>1, <3>2
      <3>3. CASE j \in 1 .. m
        BY <1>4, <2>4, <2>7, <3>1, <3>3
      <3> QED BY <2>6, <3>2, <3>3
    <2>8. ASSUME NEW i \in 1 .. (m + 1)
          PROVE  /\ out[i][1] \in ScanWanted
                 /\ out[i][2] = log[index[out[i][1]]].val
                 /\ scan.filter => ~Expired(log[index[out[i][1]]], scan.start)
                 /\ \A a \in scan.todo \ {k} : Before(scan.reverse, out[i][1], a)
      <3>1. CASE i \in 1 .. m
        <4>1. out[i] = scan.out[i]
          BY <2>4, <3>1
        <4> QED BY <1>4, <3>1, <4>1
      <3>2. CASE i = m + 1
        <4>1. out[i][1] = k /\ out[i][2] = log[index[k]].val
          BY <2>3, <2>4, <3>2
        <4> QED BY <2>1, <2>5, <4>1
      <3> QED BY <2>6, <3>1, <3>2
    <2>9. ASSUME NEW x \in ScanSure
          PROVE  \/ x \in scan.todo \ {k} \/ (scan.filter /\ Expired(log[index[x]], clock))
                 \/ \E i \in 1 .. (m + 1) : out[i][1] = x
      <3>1. CASE x = k
        <4>1. m + 1 \in 1 .. (m + 1) /\ out[m + 1][1] = x
          BY <2>3, <2>4, <2>6, <3>1
        <4> QED BY <4>1
      <3>2. CASE \E i \in 1 .. m : scan.out[i][1] = x
        <4>1. PICK i \in 1 .. m : scan.out[i][1] = x
          BY <3>2
        <4>2. i \in 1 .. (m + 1) /\ out[i][1] = x
          BY <2>4, <2>6, <4>1
        <4> QED BY <4>2
      <3> QED BY <1>4, <3>1, <3>2
    <2>10. Len(scan'.out) = m + 1 /\ scan'.out = out /\ scan'.reverse = scan.reverse
           /\ scan'.todo = scan.todo \ {k} /\ scan'.filter = scan.filter /\ scan'.start = scan.start
           /\ log' = log /\ index' = index /\ clock' = clock
      BY <1>2, <2>4
    <2>11. \A i, j \in 1 .. Len(scan'.out) : i < j => Before(scan'.reverse, scan'.out[i][1], scan'.out[j][1])
      BY <2>7, <2>10, Zenon
    <2>12. \A i \in 1 .. Len(scan'.out) :
                /\ scan'.out[i][1] \in ScanWanted'
                /\ scan'.out[i][2] = log'[index'[scan'.out[i][1]]].val
                /\ scan'.filter => ~Expired(log'[index'[scan'.out[i][1]]], scan'.start)
                /\ \A a \in scan'.todo : Before(scan'.reverse, scan'.out[i][1], a)
      <3> SUFFICES ASSUME NEW i \in 1 .. (m + 1)
                   PROVE  /\ out[i][1] \in ScanWanted
                          /\ out[i][2] = log[index[out[i][1]]].val
                          /\ scan.filter => ~Expired(log[index[out[i][1]]], scan.start)
                          /\ \A a \in scan.todo \ {k} : Before(scan.reverse, out[i][1], a)
        BY <1>3, <2>10
      <3> QED BY <2>8
    <2>13. \A x \in ScanSure' :
                \/ x \in scan'.todo \/ (scan'.filter /\ Expired(log'[index'[x]], clock'))
                \/ \E i \in 1 .. Len(scan'.out) : scan'.out[i][1] = x
      <3> SUFFICES ASSUME NEW x \in ScanSure
                   PROVE  \/ x \in scan.todo \ {k} \/ (scan.filter /\ Expired(log[index[x]], clock))
                          \/ \E i \in 1 .. (m + 1) : out[i][1] = x
        BY <1>3, <2>10
      <3> QED BY <2>9
    <2>14. scan'.todo \subseteq scan'.asked \cap Items(index')
      BY <1>0, <1>2
    <2>15. /\ scan'.reverse \in BOOLEAN /\ scan'.start \in Nat /\ scan'.start <= clock'
           /\ scan'.out \in Seq(Keys \X Nat)
      BY <1>0, <1>2, <2>4
    <2> QED BY <1>2, <2>11, <2>12, <2>13, <2>14, <2>15 DEF ScanInv, ScanRecord
  <1> QED BY <1>5, <1>6

LEMMA ScanStops ==
    ASSUME IInv, scan.pc = "run", NEW todo, NEW out,
           scan' = [scan EXCEPT !.todo = todo, !.out = out, !.pc = "stopped"]
    PROVE  ScanInv' /\ scan'.pc = "stopped"
  <1>0. ScanRecord(scan)
    BY DEF IInv, ScanInv, ScanRecord
  <1>1. scan' = [pc |-> "stopped", reverse |-> scan.reverse, todo |-> todo, asked |-> scan.asked,
                 end |-> scan.end, match |-> scan.match, filter |-> scan.filter, out |-> out, start |-> scan.start]
    BY <1>0 DEF ScanRecord
  <1>2. ScanRecord(scan') /\ scan'.pc = "stopped"
    BY <1>1 DEF ScanRecord
  <1> QED BY <1>2 DEF ScanInv, ScanRecord

LEMMA ScanKeyStep ==
    ASSUME IInv, ScanKey
    PROVE  IInv'
  <1> DEFINE k == First(scan.todo, scan.reverse)
             r == log[index[k]]
             pass(out, pc) == scan' = [scan EXCEPT !.todo = @ \ {k}, !.out = out, !.pc = pc]
  <1>0. /\ StoreInv /\ MuInv /\ scan.pc = "run" /\ scan.todo # {}
        /\ scan.reverse \in BOOLEAN /\ scan.todo \subseteq Items(index) /\ Items(index) \subseteq Keys
        /\ UNCHANGED <<log, index, wrote, writes, clock, mu, it, sweep, cursor>>
    BY ItemsAreKeys DEF IInv, StoreInv, ScanInv, ScanKey, store
  <1>1. k \in scan.todo /\ \A a \in scan.todo : a = k \/ Before(scan.reverse, k, a)
    BY <1>0, FirstLemma
  <1>2. r.val # 0
    BY <1>0, <1>1, RecordOfKey
  <1>3. \/ k \notin scan.match /\ pass(scan.out, "run")
        \/ k \in scan.match /\ pass(scan.out, "stopped")
        \/ scan.filter /\ Expired(r, clock) /\ pass(scan.out, "run")
        \/ /\ k \in scan.match /\ (~scan.filter \/ ~Expired(r, clock))
           /\ \E pc \in {"run", "stopped"} : pass(Append(scan.out, <<k, r.val>>), pc)
    BY <1>2 DEF ScanKey, Live
  <1> HIDE DEF k
  <1>4. ScanInv' /\ scan'.pc \in {"run", "stopped"}
    <2>1. CASE k \notin scan.match /\ pass(scan.out, "run")
      BY <1>0, <1>1, <2>1, ScanGoesOn
    <2>2. CASE pass(scan.out, "stopped")
      BY <1>0, <2>2, ScanStops
    <2>3. CASE scan.filter /\ Expired(r, clock) /\ pass(scan.out, "run")
      BY <1>0, <1>1, <2>3, ScanGoesOn
    <2>4. CASE /\ k \in scan.match /\ (~scan.filter \/ ~Expired(r, clock))
               /\ pass(Append(scan.out, <<k, r.val>>), "run")
      BY <1>0, <1>1, <2>4, ScanGoesOn
    <2>5. CASE pass(Append(scan.out, <<k, r.val>>), "stopped")
      BY <1>0, <2>5, ScanStops
    <2> QED BY <1>3, <2>1, <2>2, <2>3, <2>4, <2>5
  <1>5. MuInv'
    BY <1>0, <1>4 DEF MuInv
  <1> QED BY <1>0, <1>4, <1>5, OnlyScan

LEMMA ScanReturnsStep ==
    ASSUME IInv, ScanReturns
    PROVE  IInv'
  <1>0. /\ MuInv /\ scan.pc \in {"run", "stopped"} /\ mu' = "free" /\ scan' = [pc |-> "over"]
        /\ UNCHANGED <<log, index, wrote, writes, clock, it, sweep, cursor>>
    BY DEF IInv, ScanReturns, store
  <1>1. scan'.pc = "over"
    BY <1>0
  <1>2. ScanInv'
    BY <1>1 DEF ScanInv
  <1>3. MuInv'
    BY <1>0, <1>1 DEF MuInv
  <1> QED BY <1>0, <1>2, <1>3, OnlyScan
-----------------------------------------------------------------------------
(* The sweep                                                               *)

LEMMA OnlySweep ==
    ASSUME IInv, UNCHANGED <<log, index, wrote, writes, clock, it, scan>>, SweepInv', MuInv'
    PROVE  IInv'
  <1>1. StoreInv'
    BY DEF IInv, StoreInv
  <1>2. ItInv' /\ SnapInv' /\ SeenInv'
    BY DEF IInv, ItInv, SnapInv, SeenInv, Left, Wanted
  <1>3. ScanInv'
    BY DEF IInv, ScanInv, ScanWanted, ScanSure
  <1> QED BY <1>1, <1>2, <1>3 DEF IInv

\* The least of the keys from the cursor on is in the first batch.
LEMMA BatchLemma ==
    ASSUME NEW S \in SUBSET Keys, S # {}
    PROVE  LET batch == {k \in S : Cardinality({j \in S : j < k}) < BatchSize}
           IN  /\ batch \subseteq S /\ Min(S) \in batch
               /\ \A a, b \in batch : \A k \in S : a <= k /\ k <= b => k \in batch
  <1> DEFINE below(k) == {j \in S : j < k}
             batch == {k \in S : Cardinality(below(k)) < BatchSize}
  <1>0. S \subseteq Nat /\ IsFiniteSet(S) /\ BatchSize \in Nat /\ 0 < BatchSize
    <2>1. S \subseteq Keys /\ IsFiniteSet(Keys) /\ S \subseteq Nat
      BY KeysAre
    <2>2. IsFiniteSet(S)
      BY <2>1, FS_Subset
    <2>3. BatchSize \in Nat /\ 0 < BatchSize
      BY IterateAssumption
    <2> QED BY <2>1, <2>2, <2>3
  <1>1. Min(S) \in S /\ \A k \in S : Min(S) <= k
    BY MinLemma
  <1>2. below(Min(S)) = {}
    <2>1. ASSUME NEW j \in S PROVE ~(j < Min(S))
      <3>1. j \in Nat /\ Min(S) \in Nat /\ Min(S) <= j
        BY <1>0, <1>1
      <3> QED BY <3>1
    <2> QED BY <2>1
  <1>3. Min(S) \in batch
    <2>1. Cardinality(below(Min(S))) = 0
      BY <1>2, FS_EmptySet
    <2> QED BY <1>0, <1>1, <2>1
  <1>4. ASSUME NEW a \in batch, NEW b \in batch, NEW k \in S, a <= k, k <= b
        PROVE  k \in batch
    <2>0. k \in Nat /\ b \in Nat /\ k <= b
      BY <1>0, <1>4
    <2>1. below(k) \subseteq below(b) /\ below(b) \subseteq S
      <3> SUFFICES ASSUME NEW j \in S, j < k PROVE j < b
        OBVIOUS
      <3>1. j \in Nat
        BY <1>0
      <3> QED BY <2>0, <3>1
    <2> HIDE DEF below
    <2>2. IsFiniteSet(below(b)) /\ IsFiniteSet(below(k))
      BY <1>0, <2>1, FS_Subset
    <2>3. /\ Cardinality(below(k)) \in Nat /\ Cardinality(below(b)) \in Nat
          /\ Cardinality(below(k)) <= Cardinality(below(b))
      BY <2>1, <2>2, FS_Subset, FS_CardinalityType
    <2>4. Cardinality(below(k)) < BatchSize
      BY <1>0, <2>3
    <2> QED BY <2>4
  <1> QED BY <1>3, <1>4

LEMMA CursorAndItems ==
    ASSUME StoreInv, MuInv
    PROVE  /\ cursor \in Nat /\ cursor \in Keys \cup {0}
           /\ Items(index) \subseteq Nat /\ Items(index) \subseteq Keys
  <1>1. cursor \in Keys \cup {0} /\ index \in [Keys -> 0 .. Len(log)]
    BY DEF StoreInv, MuInv
  <1>2. cursor \in Nat
    BY <1>1, KeysAre
  <1> QED BY <1>1, <1>2, ItemsAreKeys

LEMMA SweepCallStep ==
    ASSUME IInv, SweepCall
    PROVE  IInv'
  <1>0. /\ MuInv /\ clock \in Nat /\ sweep.pc = "idle" /\ sweep' = [pc |-> "lock", now |-> clock]
        /\ UNCHANGED <<log, index, wrote, writes, clock, mu, it, scan, cursor>>
    BY IterateAssumption DEF IInv, StoreInv, SweepCall, store
  <1>1. sweep'.pc = "lock" /\ sweep'.now = clock
    BY <1>0
  <1>2. SweepInv'
    BY <1>0, <1>1 DEF SweepInv
  <1>3. MuInv'
    BY <1>0, <1>1 DEF MuInv
  <1> QED BY <1>0, <1>2, <1>3, OnlySweep

LEMMA SweepLockStep ==
    ASSUME IInv, SweepLock
    PROVE  IInv'
  <1>0. /\ StoreInv /\ MuInv /\ SweepInv /\ clock \in Nat /\ sweep.pc = "lock" /\ mu = "free" /\ mu' = "write"
        /\ sweep' = [pc |-> "collect", now |-> sweep.now, from |-> cursor]
        /\ UNCHANGED <<log, index, wrote, writes, clock, it, scan, cursor>>
    BY IterateAssumption DEF IInv, StoreInv, SweepLock, store
  <1>1. sweep'.pc = "collect" /\ sweep'.now = sweep.now /\ sweep'.from = cursor
    BY <1>0
  <1>2. cursor \in Nat /\ cursor \in Keys \cup {0} /\ Items(index) \subseteq Nat
    BY <1>0, CursorAndItems
  <1>3. \A k \in Items(index) : ~(cursor <= k /\ k < cursor)
    BY <1>2
  <1>4. sweep.now \in Nat /\ sweep.now <= clock
    BY <1>0 DEF SweepInv
  <1>5. SweepInv'
    BY <1>0, <1>1, <1>2, <1>3, <1>4 DEF SweepInv
  <1>6. MuInv'
    BY <1>0, <1>1 DEF MuInv
  <1> QED BY <1>0, <1>5, <1>6, OnlySweep

LEMMA SweepCollectStep ==
    ASSUME IInv, SweepCollect
    PROVE  IInv'
  <1> DEFINE S == AscendGreaterOrEqual(index, cursor)
             batch == {k \in S : Cardinality({j \in S : j < k}) < BatchSize}
  <1>0. /\ StoreInv /\ MuInv /\ SweepInv /\ sweep.pc = "collect" /\ mu = "write"
        /\ UNCHANGED <<log, index, wrote, writes, clock, it, scan>>
    BY DEF IInv, MuInv, SweepCollect, store
  <1>1. cursor \in Nat /\ Items(index) \subseteq Nat /\ Items(index) \subseteq Keys
    BY <1>0, CursorAndItems
  <1>2. S = {k \in Items(index) : cursor <= k}
    BY DEF AscendGreaterOrEqual
  <1>3. CASE S = {}
    <2>1. mu' = "free" /\ cursor' = 0 /\ sweep' = [pc |-> "idle"]
      BY <1>3 DEF SweepCollect
    <2>2. sweep'.pc = "idle"
      BY <2>1
    <2>3. SweepInv'
      BY <2>2 DEF SweepInv
    <2>4. MuInv'
      BY <1>0, <2>1, <2>2 DEF MuInv
    <2> QED BY <1>0, <2>3, <2>4, OnlySweep
  <1>4. CASE S # {}
    <2>1. /\ mu' = mu /\ cursor' = cursor
          /\ sweep' = [pc |-> "check", now |-> sweep.now, from |-> sweep.from, batch |-> batch]
      BY <1>4 DEF SweepCollect
    <2>2. S \in SUBSET Keys
      BY <1>1, <1>2
    <2> HIDE DEF S
    <2>3. /\ batch \subseteq S /\ Min(S) \in batch
          /\ \A a, b \in batch : \A k \in S : a <= k /\ k <= b => k \in batch
      BY <1>4, <2>2, BatchLemma
    <2> HIDE DEF batch
    <2>4. /\ sweep'.pc = "check" /\ sweep'.now = sweep.now /\ sweep'.from = sweep.from
          /\ sweep'.batch = batch
          /\ sweep' = [pc |-> "check", now |-> sweep'.now, from |-> sweep'.from, batch |-> sweep'.batch]
      BY <2>1
    <2>5. batch \subseteq Items(index) /\ batch # {}
      BY <1>2, <2>3
    <2>6. ASSUME NEW a \in batch, NEW b \in batch, NEW k \in Items(index), a <= k, k <= b
          PROVE  k \in batch
      <3>1. a \in Nat /\ k \in Nat /\ cursor <= a
        BY <1>1, <1>2, <2>3
      <3>2. k \in S
        BY <1>1, <1>2, <2>6, <3>1
      <3> QED BY <2>3, <2>6, <3>2
    <2>7. ASSUME NEW k \in Items(index), sweep.from <= k, \A b \in batch : k < b
          PROVE  ~Expired(log[index[k]], sweep.now)
      <3>1. k < Min(S) /\ Min(S) \in Nat /\ k \in Nat
        BY <1>1, <1>2, <2>3, <2>7
      <3>2. k \notin S
        <4>1. k \in S => Min(S) <= k
          BY <1>4, <2>2, MinLemma
        <4> QED BY <3>1, <4>1
      <3>3. k < cursor
        BY <1>1, <1>2, <3>1, <3>2
      <3> QED BY <1>0, <2>7, <3>3 DEF SweepInv
    <2>8. SweepInv'
      BY <1>0, <2>4, <2>5, <2>6, <2>7 DEF SweepInv
    <2>9. MuInv'
      BY <1>0, <2>1, <2>4 DEF MuInv
    <2> QED BY <1>0, <2>8, <2>9, OnlySweep
  <1> QED BY <1>3, <1>4

\* A sweep at a key: what is taken from the index has expired.
LEMMA SweepCheckStep ==
    ASSUME IInv, SweepCheck
    PROVE  /\ IInv'
           /\ \A x \in Keys : index[x] # 0 /\ index'[x] = 0 => Expired(log[index[x]], sweep.now)
  <1> DEFINE k == Min(sweep.batch)
             rest == sweep.batch \ {k}
  <1>0. /\ StoreInv /\ MuInv /\ ItInv /\ SnapInv /\ SeenInv /\ ScanInv /\ SweepInv
        /\ sweep.pc = "check" /\ mu = "write" /\ clock \in Nat
        /\ UNCHANGED <<log, wrote, writes, merges, clock, actor, it, scan, sweeps>>
    BY IterateAssumption DEF IInv, StoreInv, MuInv, SweepCheck, SweepRecord
  <1>1. /\ index \in [Keys -> 0 .. Len(log)] /\ Len(log) \in Nat
        /\ Items(index) \subseteq Nat /\ Items(index) \subseteq Keys
    BY <1>0, LenProperties, ItemsAreKeys DEF StoreInv
  <1>2. /\ sweep = [pc |-> "check", now |-> sweep.now, from |-> sweep.from, batch |-> sweep.batch]
        /\ sweep.batch \subseteq Items(index) /\ sweep.batch # {}
        /\ \A a, b \in sweep.batch : \A x \in Items(index) : a <= x /\ x <= b => x \in sweep.batch
        /\ \A x \in Items(index) : sweep.from <= x /\ (\A b \in sweep.batch : x < b)
                                      => ~Expired(log[index[x]], sweep.now)
        /\ sweep.now \in Nat /\ sweep.now <= clock /\ sweep.from \in Keys \cup {0}
    BY <1>0 DEF SweepInv
  <1>3. k \in sweep.batch /\ \A b \in sweep.batch : k <= b
    BY <1>1, <1>2, MinLemma
  <1>4. \/ mu' = "free" /\ sweep' = [pc |-> "idle"] /\ UNCHANGED <<index, cursor>>
        \/ /\ index' = IF Expired(log[index[k]], sweep.now) THEN [index EXCEPT ![k] = 0] ELSE index
           /\ cursor' = k
           /\ sweep' = IF rest = {} THEN [pc |-> "collect", now |-> sweep.now, from |-> sweep.from]
                                    ELSE [sweep EXCEPT !.batch = rest]
           /\ mu' = mu
    BY DEF SweepCheck, SweepRecord
  <1> HIDE DEF k
  <1>5. CASE mu' = "free" /\ sweep' = [pc |-> "idle"] /\ UNCHANGED <<index, cursor>>
    <2>1. sweep'.pc = "idle"
      BY <1>5
    <2>2. SweepInv' /\ MuInv'
      BY <1>0, <1>5, <2>1 DEF SweepInv, MuInv
    <2>3. IInv'
      BY <1>0, <1>5, <2>2, OnlySweep
    <2> QED BY <1>5, <2>3
  <1>6. CASE /\ index' = IF Expired(log[index[k]], sweep.now) THEN [index EXCEPT ![k] = 0] ELSE index
             /\ cursor' = k
             /\ sweep' = IF rest = {} THEN [pc |-> "collect", now |-> sweep.now, from |-> sweep.from]
                                      ELSE [sweep EXCEPT !.batch = rest]
             /\ mu' = mu
    <2>1. k \in Keys /\ k \in Nat /\ k \in Items(index)
      BY <1>1, <1>2, <1>3
    <2>2. /\ index' \in [Keys -> 0 .. Len(log)]
          /\ \A x \in Keys : index'[x] = index[x] \/ (x = k /\ index'[x] = 0)
          /\ index'[k] = 0 <=> Expired(log[index[k]], sweep.now)
      <3>1. index[k] # 0
        BY <2>1 DEF Items
      <3>2. CASE Expired(log[index[k]], sweep.now)
        <4>1. index' = [index EXCEPT ![k] = 0]
          BY <1>6, <3>2
        <4> HIDE DEF rest
        <4> QED BY <1>1, <2>1, <3>2, <4>1
      <3>3. CASE ~Expired(log[index[k]], sweep.now)
        <4>1. index' = index
          BY <1>6, <3>3
        <4> QED BY <1>1, <3>1, <3>3, <4>1
      <3> QED BY <3>2, <3>3
    <2>3. /\ Items(index') \subseteq Items(index) /\ \A x \in Items(index') : index'[x] = index[x]
          /\ \A x \in Items(index) : x # k => x \in Items(index')
          /\ k \in Items(index') => ~Expired(log[index[k]], sweep.now)
      BY <1>1, <2>1, <2>2 DEF Items
    <2>4. \A x \in Keys : index[x] # 0 /\ index'[x] = 0 => Expired(log[index[x]], sweep.now)
      BY <2>2
    <2>5. StoreInv'
      BY <1>0, <2>2 DEF StoreInv
    <2>6. ItInv' /\ SnapInv' /\ SeenInv'
      BY <1>0, SameLog, ItFrame
    <2>7. ScanInv'
      <3>1. scan.pc # "run" /\ clock' \in Nat /\ clock <= clock'
        BY <1>0 DEF MuInv
      <3> QED BY <1>0, <3>1, ScanFrame
    <2>8. SweepInv' /\ sweep'.pc \in {"collect", "check"}
      <3>1. CASE rest = {}
        <4>1. sweep' = [pc |-> "collect", now |-> sweep.now, from |-> sweep.from]
          BY <1>6, <3>1
        <4>2. sweep'.pc = "collect" /\ sweep'.now = sweep.now /\ sweep'.from = sweep.from
          BY <4>1
        <4>3. ASSUME NEW x \in Items(index'), sweep.from <= x, x < k
              PROVE  ~Expired(log[index'[x]], sweep.now)
          <5>1. \A b \in sweep.batch : b = k
            BY <3>1
          <5>2. x \in Items(index) /\ index'[x] = index[x] /\ \A b \in sweep.batch : x < b
            BY <2>3, <4>3, <5>1
          <5> QED BY <1>2, <4>3, <5>2
        <4> QED BY <1>0, <1>2, <1>6, <4>2, <4>3 DEF SweepInv
      <3>2. CASE rest # {}
        <4>1. sweep' = [sweep EXCEPT !.batch = rest]
          BY <1>6, <3>2
        <4>2. rest \subseteq sweep.batch /\ k \notin rest /\ \A b \in sweep.batch : b = k \/ b \in rest
          OBVIOUS
        <4> HIDE DEF rest
        <4>3. sweep' = [pc |-> "check", now |-> sweep.now, from |-> sweep.from, batch |-> rest]
          BY <1>2, <4>1
        <4>4. /\ sweep'.pc = "check" /\ sweep'.now = sweep.now /\ sweep'.from = sweep.from
              /\ sweep'.batch = rest
              /\ sweep' = [pc |-> "check", now |-> sweep'.now, from |-> sweep'.from, batch |-> sweep'.batch]
          BY <4>3
        <4>5. \A b \in rest : b \in Nat /\ k < b /\ b \in Items(index')
          <5> SUFFICES ASSUME NEW b \in rest PROVE b \in Nat /\ k < b /\ b \in Items(index')
            OBVIOUS
          <5>1. b \in sweep.batch /\ b # k /\ b \in Items(index) /\ b \in Nat /\ k <= b
            BY <1>1, <1>2, <1>3, <4>2
          <5>2. k < b
            BY <2>1, <5>1
          <5> QED BY <2>3, <5>1, <5>2
        <4>6. ASSUME NEW a \in rest, NEW b \in rest, NEW x \in Items(index'), a <= x, x <= b
              PROVE  x \in rest
          <5>1. x \in Items(index) /\ x \in Nat
            BY <1>1, <2>3
          <5>2. x \in sweep.batch
            BY <1>2, <4>2, <4>6, <5>1
          <5>3. x # k
            BY <2>1, <4>5, <4>6, <5>1
          <5> QED BY <4>2, <5>2, <5>3
        <4>7. ASSUME NEW x \in Items(index'), sweep.from <= x, \A b \in rest : x < b
              PROVE  ~Expired(log[index'[x]], sweep.now)
          <5>1. x \in Items(index) /\ x \in Nat /\ index'[x] = index[x]
            BY <1>1, <2>3
          <5>2. CASE x = k
            BY <2>3, <5>1, <5>2
          <5>3. CASE x < k
            <6>1. \A b \in sweep.batch : x < b
              BY <4>2, <4>7, <5>3
            <6> QED BY <1>2, <4>7, <5>1, <6>1
          <5>4. CASE k < x
            <6>1. PICK b \in rest : TRUE
              BY <3>2
            <6>2. k <= x /\ x <= b /\ b \in Nat /\ x < b
              BY <2>1, <4>5, <4>7, <5>1, <5>4, <6>1
            <6>3. x \in sweep.batch
              BY <1>2, <1>3, <4>2, <5>1, <6>1, <6>2
            <6>4. x \in rest
              BY <2>1, <4>2, <5>1, <5>4, <6>3
            <6> QED BY <4>7, <5>1, <6>4
          <5> QED BY <2>1, <5>1, <5>2, <5>3, <5>4
        <4>8. rest \subseteq Items(index')
          BY <4>5
        <4> QED BY <1>0, <1>2, <3>2, <4>4, <4>6, <4>7, <4>8 DEF SweepInv
      <3> QED BY <3>1, <3>2
    <2>9. MuInv'
      BY <1>0, <1>6, <2>1, <2>8 DEF MuInv
    <2> QED BY <2>4, <2>5, <2>6, <2>7, <2>8, <2>9 DEF IInv
  <1> QED BY <1>4, <1>5, <1>6
-----------------------------------------------------------------------------
(* The invariant                                                           *)

LEMMA InitIInv == Init => IInv
  <1> SUFFICES ASSUME Init PROVE IInv
    OBVIOUS
  <1>1. PICK S \in SUBSET Keys : \E exp \in [S -> Expiries] :
            LET keys == InOrder(S)
            IN  /\ log = [i \in 1 .. Len(keys) |-> [key |-> keys[i], val |-> i, exp |-> exp[keys[i]]]]
                /\ index = [k \in Keys |-> IF k \in S THEN CHOOSE i \in 1 .. Len(keys) : keys[i] = k ELSE 0]
    BY DEF Init
  <1> DEFINE keys == InOrder(S)
             n == Cardinality(S)
  <1>2. PICK exp \in [S -> Expiries] :
            /\ log = [i \in 1 .. Len(keys) |-> [key |-> keys[i], val |-> i, exp |-> exp[keys[i]]]]
            /\ index = [k \in Keys |-> IF k \in S THEN CHOOSE i \in 1 .. Len(keys) : keys[i] = k ELSE 0]
    BY <1>1
  <1>3. n \in Nat /\ Listing(keys, n, S)
    BY IterateAssumption, KeysAre, InOrderLemma
  <1> HIDE DEF keys, n
  <1>4. keys \in [1 .. n -> S] /\ Len(keys) = n /\ \A x \in S : \E i \in 1 .. n : keys[i] = x
    BY <1>3 DEF Listing
  <1>5. ASSUME NEW i \in 1 .. n
        PROVE  log[i] \in Records /\ log[i].key = keys[i] /\ log[i].val = i /\ i \in Nat /\ i # 0
    <2>1. keys[i] \in S /\ keys[i] \in Keys /\ exp[keys[i]] \in Expiries /\ i \in Nat /\ i # 0
      BY <1>3, <1>4
    <2>2. exp[keys[i]] \in Nat
      BY <2>1, IterateAssumption
    <2>3. log[i] = [key |-> keys[i], val |-> i, exp |-> exp[keys[i]]]
      BY <1>2, <1>4
    <2> QED BY <2>1, <2>2, <2>3 DEF Records
  <1>6. log \in Seq(Records) /\ Len(log) = n
    BY <1>2, <1>3, <1>4, <1>5
  <1>7. ASSUME NEW k \in Keys
        PROVE  index[k] = 0 \/ (index[k] \in 1 .. n /\ keys[index[k]] = k)
    <2>1. CASE k \in S
      <3>1. index[k] = CHOOSE i \in 1 .. n : keys[i] = k
        BY <1>2, <1>4, <2>1
      <3>2. \E i \in 1 .. n : keys[i] = k
        BY <1>4, <2>1
      <3> QED BY <3>1, <3>2
    <2>2. CASE k \notin S
      BY <1>2, <2>2
    <2> QED BY <2>1, <2>2
  <1>8. StoreInv
    <2>1. index = [k \in Keys |-> index[k]]
      BY <1>2
    <2>2. \A k \in Keys : index[k] \in 0 .. n
      BY <1>3, <1>7
    <2>3. index \in [Keys -> 0 .. Len(log)]
      BY <1>6, <2>1, <2>2
    <2>4. \A k \in Keys : index[k] # 0 => log[index[k]].key = k /\ log[index[k]].val # 0
      BY <1>5, <1>7
    <2>5. \A p \in 1 .. Len(log) : <<log[p].key, log[p].val>> \in wrote
      BY DEF Init
    <2>6. clock \in 0 .. MaxClock /\ writes \in Nat
      BY IterateAssumption DEF Init
    <2> QED BY <1>6, <2>3, <2>4, <2>5, <2>6 DEF StoreInv
  <1>9. mu = "free" /\ cursor = 0 /\ it.pc = "none" /\ scan.pc = "none" /\ sweep.pc = "idle"
    BY DEF Init
  <1> QED BY <1>8, <1>9 DEF IInv, MuInv, ItInv, SnapInv, SeenInv, ScanInv, SweepInv

LEMMA StutterIInv == IInv /\ UNCHANGED vars => IInv'
  <1> SUFFICES ASSUME IInv, UNCHANGED vars PROVE IInv'
    OBVIOUS
  <1>1. UNCHANGED <<log, index, wrote, writes, clock, mu, scan, sweep, cursor, it>>
    BY DEF vars, store
  <1>2. ItInv' /\ SnapInv' /\ SeenInv'
    BY <1>1 DEF IInv, ItInv, SnapInv, SeenInv, Left, Wanted
  <1> QED BY <1>1, <1>2, OnlyIt

LEMMA NextIInv == IInv /\ [Next]_vars => IInv'
  <1> SUFFICES ASSUME IInv, [Next]_vars PROVE IInv'
    OBVIOUS
  <1>1. CASE \E k \in Keys : Put(k) \/ Delete(k)
    BY <1>1, WriteStep
  <1>2. CASE Merge \/ Tick
    BY <1>2, MergeStep, TickStep
  <1>3. CASE \E r, c \in BOOLEAN, m \in Matches : NewIterator(r, m, c)
    BY <1>3, NewIteratorStep
  <1>4. CASE NextItem \/ Rewind \/ (\E k \in Keys : Seek(k)) \/ Close \/ SkipToNext
    BY <1>4, CallStep, CloseStep, SkipStep
  <1>5. CASE Scans \/ ScanKey \/ ScanReturns
    BY <1>5, ScansStep, ScanKeyStep, ScanReturnsStep
  <1>6. CASE SweepCall \/ SweepLock \/ SweepCollect \/ SweepCheck
    BY <1>6, SweepCallStep, SweepLockStep, SweepCollectStep, SweepCheckStep
  <1>7. CASE UNCHANGED vars
    BY <1>7, StutterIInv
  <1> QED BY <1>1, <1>2, <1>3, <1>4, <1>5, <1>6, <1>7 DEF Next

\* The store, db.mu, the iterator, the scan and the sweep stay in step.
THEOREM IterateInductive == Spec => []IInv
  BY InitIInv, NextIInv, PTL DEF Spec

\* The index leads to a written record of its key, and db.mu is held exactly
\* while a scan or the goroutine of DeleteExpiredKeys is at work.
THEOREM TypeCorrect == Spec => []TypeOK
  <1>1. IInv => TypeOK
    BY DEF IInv, StoreInv, MuInv, ItInv, TypeOK
  <1> QED BY IterateInductive, <1>1, PTL

\* Item returns a key with a value written under that key, also when a merge has
\* moved the records away from the positions of the iterator's clone.
THEOREM ItemsAreWritten == Spec => []ItemWritten
  <1>1. IInv => ItemWritten
    BY DEF IInv, ItInv, ItemWritten
  <1> QED BY IterateInductive, <1>1, PTL

\* An iterator that no merge has overtaken returns its snapshot, in order, once,
\* and completely when no read fails, whatever is written meanwhile.
THEOREM IteratorIsFaithful == Spec => []IteratorFaithful
  <1>1. ASSUME IInv PROVE IteratorFaithful
    <2> SUFFICES ASSUME it.pc # "none", ~it.stale
                 PROVE  LET keys == [i \in 1 .. Len(it.seen) |-> it.seen[i][1]]
                        IN  /\ Strictly(it.iter.reverse, keys)
                            /\ \A i \in 1 .. Len(keys) : keys[i] \in Wanted /\ it.seen[i][2] = it.snap[keys[i]].val
                            /\ it.pc = "idle" /\ ~it.iter.valid /\ ~it.failed =>
                                  \A k \in Wanted : Expired(it.snap[k], clock) \/ \E i \in 1 .. Len(keys) : keys[i] = k
      BY DEF IteratorFaithful, Wanted
    <2> DEFINE n == Len(it.seen)
               keys == [i \in 1 .. n |-> it.seen[i][1]]
    <2>1. SeenInv /\ n \in Nat
      BY <1>1, LenProperties DEF IInv, ItInv
    <2>2. Len(keys) = n /\ \A i \in 1 .. n : keys[i] = it.seen[i][1]
      BY <2>1
    <2> HIDE DEF keys
    <2>3. Strictly(it.iter.reverse, keys)
      BY <2>1, <2>2 DEF SeenInv, Strictly, Before
    <2>4. \A i \in 1 .. n : keys[i] \in Wanted /\ it.seen[i][2] = it.snap[keys[i]].val
      BY <2>1, <2>2 DEF SeenInv
    <2>5. ASSUME it.pc = "idle", ~it.iter.valid, ~it.failed, NEW k \in Wanted
          PROVE  Expired(it.snap[k], clock) \/ \E i \in 1 .. n : keys[i] = k
      <3>1. k \notin Left
        BY <2>5 DEF Left, Ahead
      <3> QED BY <2>1, <2>2, <2>5, <3>1 DEF SeenInv
    <2> QED BY <2>2, <2>3, <2>4, <2>5 DEF keys
  <1> QED BY IterateInductive, <1>1, PTL

\* A scan that runs to its end has handed out, in order and once each, exactly
\* the keys asked for that match and are alive, the end of a range apart: Ascend,
\* Descend, their ranges and the scans of keys alike.
THEOREM ScansAreComplete == Spec => []ScanComplete
  <1>1. ASSUME IInv PROVE ScanComplete
    <2> SUFFICES ASSUME scan.pc = "run", scan.todo = {}
                 PROVE  LET keys == [i \in 1 .. Len(scan.out) |-> scan.out[i][1]]
                        IN  /\ Strictly(scan.reverse, keys)
                            /\ \A i \in 1 .. Len(keys) :
                                  /\ keys[i] \in ScanWanted /\ scan.out[i][2] = log[index[keys[i]]].val
                                  /\ scan.filter => ~Expired(log[index[keys[i]]], scan.start)
                            /\ \A k \in ScanSure : Settled(k)
      BY DEF ScanComplete, ScanWanted, ScanSure
    <2> DEFINE n == Len(scan.out)
               keys == [i \in 1 .. n |-> scan.out[i][1]]
    <2>1. ScanInv /\ n \in Nat
      BY <1>1, LenProperties DEF IInv, ScanInv
    <2>2. Len(keys) = n /\ \A i \in 1 .. n : keys[i] = scan.out[i][1]
      BY <2>1
    <2> HIDE DEF keys
    <2>3. Strictly(scan.reverse, keys)
      BY <2>1, <2>2 DEF ScanInv, Strictly, Before
    <2>4. \A i \in 1 .. n :
             /\ keys[i] \in ScanWanted /\ scan.out[i][2] = log[index[keys[i]]].val
             /\ scan.filter => ~Expired(log[index[keys[i]]], scan.start)
      BY <2>1, <2>2 DEF ScanInv
    <2>5. \A k \in ScanSure : Settled(k)
      BY <2>1 DEF ScanInv, Settled
    <2> QED BY <2>2, <2>3, <2>4, <2>5 DEF keys
  <1> QED BY IterateInductive, <1>1, PTL
-----------------------------------------------------------------------------
(* What a sweep takes and leaves                                           *)

\* While the sweep has db.mu nobody else touches the index or the sweep.
LEMMA SweepAlone ==
    ASSUME IInv, [Next]_vars, sweep.pc \in {"collect", "check"}
    PROVE  SweepCollect \/ SweepCheck \/ UNCHANGED <<index, sweep>>
  <1>0. mu = "write"
    BY DEF IInv, MuInv
  <1>1. ASSUME NEW k \in Keys, Put(k) \/ Delete(k) PROVE FALSE
    BY <1>0, <1>1 DEF Put, Delete, Append1
  <1>2. CASE Merge \/ SweepCall \/ SweepLock
    BY <1>0, <1>2 DEF Merge, SweepCall, SweepLock
  <1>3. CASE Tick \/ ScanKey \/ ScanReturns \/ UNCHANGED vars
    BY <1>3 DEF Tick, ScanKey, ScanReturns, store, vars
  <1>4. CASE \E r, c \in BOOLEAN, m \in Matches : NewIterator(r, m, c)
    BY <1>4 DEF NewIterator, store
  <1>5. CASE NextItem \/ Rewind \/ (\E k \in Keys : Seek(k)) \/ Close
    BY <1>5 DEF NextItem, Rewind, Seek, Position, Close, store
  <1>6. CASE SkipToNext
    <2>1. \A i, pc, item, failed : SkipRound(i, pc, item, failed) => UNCHANGED <<index, sweep>>
      BY DEF SkipRound, store
    <2> QED BY <1>6, <2>1 DEF SkipToNext
  <1>7. CASE Scans
    <2>1. \A r, todo, asked, e, m, f : ~Scan(r, todo, asked, e, m, f)
      BY <1>0 DEF Scan
    <2> QED BY <1>7, <2>1 DEF Scans, Ascend, Descend, AscendFrom, DescendFrom, AscendBetween,
                 DescendBetween, AscendKeys, DescendKeys, AscendKeysRange, DescendKeysRange
  <1> QED BY <1>1, <1>2, <1>3, <1>4, <1>5, <1>6, <1>7 DEF Next

\* DeleteExpiredKeys takes nothing from the index but what has expired, also when
\* a key was rewritten while its goroutine waited for db.mu.
THEOREM SweepIsSafe == Spec => SweepSafe
  <1> DEFINE Safe == \A k \in Keys : sweep.pc = "check" /\ index[k] # 0 /\ index'[k] = 0
                                       => Expired(log[index[k]], clock)
  <1>1. IInv /\ [Next]_vars => [Safe]_vars
    <2> SUFFICES ASSUME IInv, [Next]_vars, NEW k \in Keys, sweep.pc = "check", index[k] # 0, index'[k] = 0
                 PROVE  Expired(log[index[k]], clock)
      OBVIOUS
    <2>1. SweepCheck
      BY SweepAlone DEF SweepCollect, store
    <2>2. Expired(log[index[k]], sweep.now)
      BY <2>1, SweepCheckStep
    <2>3. StoreInv /\ k \in Items(index) /\ clock \in Nat /\ sweep.now \in Nat /\ sweep.now <= clock
      BY IterateAssumption DEF IInv, StoreInv, SweepInv, Items
    <2> QED BY <2>2, <2>3, RecordOfKey, ExpiredStays
  <1> QED BY IterateInductive, <1>1, PTL DEF Spec, SweepSafe

\* A sweep that comes to its end has left no key, from the cursor it started at,
\* that had expired when it was called, however its batches fell.
THEOREM SweepIsThorough == Spec => SweepThorough
  <1> DEFINE Thorough == sweep.pc = "collect" /\ sweep'.pc = "idle" =>
                           \A k \in Items(index) : k >= sweep.from => ~Expired(log[index[k]], sweep.now)
  <1>1. IInv /\ [Next]_vars => [Thorough]_vars
    <2> SUFFICES ASSUME IInv, [Next]_vars, sweep.pc = "collect", sweep'.pc = "idle",
                        NEW k \in Items(index), k >= sweep.from
                 PROVE  ~Expired(log[index[k]], sweep.now)
      OBVIOUS
    <2>1. SweepCollect
      BY SweepAlone DEF SweepCheck, SweepRecord
    <2>2. AscendGreaterOrEqual(index, cursor) = {}
      BY <2>1 DEF SweepCollect
    <2>3. StoreInv /\ MuInv /\ SweepInv
      BY DEF IInv
    <2>4. cursor \in Nat /\ k \in Nat /\ sweep.from \in Nat
      BY <2>3, CursorAndItems, KeysAre DEF SweepInv
    <2>5. k < cursor
      BY <2>2, <2>4 DEF AscendGreaterOrEqual
    <2> QED BY <2>3, <2>4, <2>5 DEF SweepInv
  <1> QED BY IterateInductive, <1>1, PTL DEF Spec, SweepThorough
=============================================================================
