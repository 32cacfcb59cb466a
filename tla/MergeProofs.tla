---------------------------- MODULE MergeProofs ----------------------------
(***************************************************************************)
(* Theorems about Merge, for every number of goroutines, keys, values and  *)
(* records per segment, and for every bound: the types, that a merge owns  *)
(* its directory, and that merging, reopening and crashing lose nothing.   *)
(***************************************************************************)
EXTENDS Merge, FiniteSetTheorems, SequenceTheorems, WellFoundedInduction, TLAPS

(* What the data are                                                       *)

PosSet == (Nat \ {0}) \X (1..SegCap)
Segments == {r \in Seq(LogRecords) : Len(r) <= SegCap}

\* A directory of segments: a function from ids to records.
Files == UNION {[D -> Segments] : D \in SUBSET (Nat \ {0})}

Hints == [key : Keys, pos : PosSet]
Entries == [value : Values \cup {NoValue}, expire : Int]

Dirs == [exists : BOOLEAN, id : Nat, segs : Files, hasHint : BOOLEAN, hint : Seq(Hints),
         fin : Nat \cup {-1}]

MergeStates == [pc : Pcs, reopen : BOOLEAN, prev : Nat, todo : SUBSET PosSet, start : Nat,
                dir : Nat, wal : Nat, out : Seq(Segments)]

Loads == [stage : Stages, who : Mergers \cup {"open", "none"}, i : Nat, n : Nat]

\* doMerge has set mergeRunning and not yet reset it.
Busy == {"opendir", "reader", "scan", "fin"}

Typed ==
    /\ segs \in Files /\ hint \in Seq(Hints) /\ fin \in Nat
    /\ mdir \in Dirs
    /\ index \in [Keys -> PosSet \cup {NoPos}]
    /\ mode \in {"open", "closed", "down", "opening", "failed"}
    /\ closing \in BOOLEAN /\ mergeRunning \in BOOLEAN /\ walOpen \in Nat
    /\ merger \in [Mergers -> MergeStates]
    /\ loader \in Loads
    /\ now \in Nat /\ crashes \in Nat
    /\ store \in [Keys -> Entries]

LockTyped == fileLock \in BOOLEAN

\* There is a record at position p of f.
Has(f, p) == p \in PosSet /\ p[1] \in DOMAIN f /\ p[2] <= Len(f[p[1]])

\* a is the largest segment id.
IsLast(f, a) == a \in DOMAIN f /\ \A s \in DOMAIN f : s <= a

\* The active segment is beyond everything a merge has to do with: MERGEFIN, the
\* segments a merge reads, those a load replaces.
Beyond ==
    /\ IsLast(segs, Active)
    /\ fin < Active /\ mdir.fin < Active
    /\ loader.n < Active
    /\ loader.stage \in {"remove", "move"} => loader.i \in 1..loader.n
    /\ \A m \in Mergers :
          merger[m].pc \in Busy =>
             /\ merger[m].prev \in 1..(Active - 1)
             /\ merger[m].pc # "opendir" => merger[m].out # <<>>

TypeInv == Typed /\ Beyond

AllIdle == \A m \in Mergers : merger[m].pc = "idle"

\* What a merge reads is there as long as the WAL it reads from is open: a load
\* works on closed files, or with no Merge under way, and Reopen opens new ones.
Reading ==
    /\ mode \in {"down", "opening", "failed"} => AllIdle
    /\ loader.stage # "idle" => /\ walOpen = 0 \/ mode = "opening"
                                /\ loader.who = "open" => mode = "opening"
    /\ \A m \in Mergers :
          merger[m].pc = "scan" /\ merger[m].wal = walOpen /\ walOpen # 0 =>
              \A p \in merger[m].todo : Has(segs, p)

TypeIInv == TypeInv /\ Reading
-----------------------------------------------------------------------------
(* Who is doing what                                                       *)

Calm == \A m \in Mergers : merger[m].pc \notin Busy

\* mergeRunning admits one merge; a load is that of an Open, with no Merge under
\* way, or that of a Merge that has let mergeRunning go.
Roles ==
    /\ mergeRunning <=> ~Calm
    /\ \A m, n \in Mergers : merger[m].pc \in Busy /\ merger[n].pc \in Busy => m = n
    /\ loader.stage = "idle" => mode # "opening"
    /\ loader.stage # "idle" =>
          /\ Calm
          /\ loader.who # "open" => loader.who \in Mergers /\ merger[loader.who].pc = "loading"

\* At most one goroutine calls Merge, or none asks for the files to be reopened.
OneReopener == Reopens \subseteq {FALSE} \/ \A m, n \in Mergers : m = n

\* Only Merge(true) waits for db.mu or loads.
Reopening ==
    \A m \in Mergers :
        merger[m].pc \in {"lock", "loading"} \/ merger[m].reopen =>
            TRUE \in Reopens /\ \A n \in Mergers : m = n

OwnInv == TypeIInv /\ Roles /\ Reopening /\ MergeDirOwned
-----------------------------------------------------------------------------
(* What the files say of the keys                                          *)

\* Nothing is to be read of an entry e at time t.
Dead(e, t) == e = Absent \/ IsExpired(e.expire, t)

\* The record r is what e was last set to.
Tells(r, e) ==
    IF r.type = "Normal" THEN r.value = e.value /\ r.expire = e.expire ELSE e = Absent

\* The record at position p of f is a Normal one of k and tells e.
Shows(f, p, k, e) ==
    /\ Has(f, p)
    /\ At(f, p).type = "Normal" /\ At(f, p).key = k
    /\ At(f, p).value = e.value /\ At(f, p).expire = e.expire

\* The records of k in the segments above c, which loadIndexFromWAL replays.
Later(f, k, c) == {p \in Positions(f, {s \in DOMAIN f : s > c}) : At(f, p).key = k}

\* The last record of a key above c tells what the key was set to.
LogOK(f, c, st) ==
    \A k \in Keys : \A p \in Later(f, k, c) :
        (\A q \in Later(f, k, c) : ~Before(p, q)) => Tells(At(f, p), st[k])

\* The position of the last hint of k.
HintIn(h, k) ==
    LET hs == {i \in DOMAIN h : h[i].key = k}
    IN  IF hs = {} THEN NoPos ELSE h[CHOOSE i \in hs : \A j \in hs : j <= i].pos

\* Position p is the right one for k in the segments g.
PosOK(g, p, k, st, t) == (p = NoPos /\ Dead(st[k], t)) \/ Shows(g, p, k, st[k])

\* The hints h into the segments g do for a key without records above c in f.
HintOK(f, g, h, c, st, t) ==
    \A k \in Keys : Later(f, k, c) = {} => PosOK(g, HintIn(h, k), k, st, t)

\* What an Open would read is right.
DiskOK == LogOK(segs, fin, store) /\ HintOK(segs, segs, hint, fin, store, now)

IndexOK == walOpen # 0 => \A k \in Keys : PosOK(segs, index[k], k, store, now)
-----------------------------------------------------------------------------
(* What a merge has rewritten so far                                       *)

\* The last position of the merged segments o.
EndOf(o) == <<Len(o), Len(o[Len(o)])>>

\* For a key without records above prev: its last hint is right, or there is
\* none and the record still has to be read.
ScanPos(o, h, ix, todo, k, st, t) ==
    \/ HintIn(h, k) = NoPos /\ (Dead(st[k], t) \/ ix[k] \in todo)
    \/ Shows(o, HintIn(h, k), k, st[k])

ScanOK(f, o, h, c, ix, todo, st, t) ==
    \A k \in Keys : Later(f, k, c) = {} => ScanPos(o, h, ix, todo, k, st, t)

\* The state of the goroutine m in doMerge.
Merging(m) ==
    /\ mode = "open" /\ walOpen # 0 /\ loader.stage = "idle"
    /\ fin < merger[m].prev
    /\ merger[m].pc # "opendir" =>
          /\ mdir.exists /\ mdir.hasHint /\ mdir.segs = merger[m].out
          /\ merger[m].out # <<>> /\ Len(merger[m].out) <= merger[m].prev
          /\ mdir.fin = IF merger[m].pc = "fin" THEN 0 ELSE -1
    /\ merger[m].pc = "reader" => mdir.hint = <<>> /\ merger[m].out = <<<<>>>>
    /\ merger[m].pc = "scan" =>
          /\ merger[m].wal = walOpen /\ merger[m].start <= now
          /\ \A p \in merger[m].todo : Before(EndOf(merger[m].out), p) /\ p[1] <= merger[m].prev
          /\ ScanOK(segs, merger[m].out, mdir.hint, merger[m].prev, index, merger[m].todo, store, now)
    /\ merger[m].pc = "fin" =>
          HintOK(segs, merger[m].out, mdir.hint, merger[m].prev, store, now)

\* A merge directory with a MERGEFIN that is not being loaded yet.
Finished ==
    mdir.exists /\ mdir.fin > 0 /\ loader.stage \in {"idle", "begin"} =>
        /\ fin < mdir.fin /\ mdir.hasHint
        /\ \A s \in DOMAIN mdir.segs : s <= mdir.fin
        /\ HintOK(segs, mdir.segs, mdir.hint, mdir.fin, store, now)
-----------------------------------------------------------------------------
(* A load under way                                                        *)

\* The hint of k is right in the segments already moved or in those to come.
MovePos(f, g, h, i, k, st, t) ==
    \/ HintIn(h, k) = NoPos /\ Dead(st[k], t)
    \/ HintIn(h, k)[1] < i /\ Shows(f, HintIn(h, k), k, st[k])
    \/ HintIn(h, k)[1] >= i /\ Shows(g, HintIn(h, k), k, st[k])

MoveOK(f, g, h, i, c, st, t) ==
    \A k \in Keys : Later(f, k, c) = {} => MovePos(f, g, h, i, k, st, t)

Loading ==
    /\ loader.stage \in {"remove", "move"} => loader.n > 0
    /\ loader.stage \in {"remove", "move", "fin"} /\ loader.n > 0 =>
          /\ mdir.fin = loader.n /\ mdir.hasHint
          /\ loader.stage = "fin" => loader.i = loader.n + 1
          /\ \A s \in DOMAIN mdir.segs : s <= loader.n
          /\ LogOK(segs, loader.n, store)
          /\ MoveOK(segs, mdir.segs, mdir.hint, loader.i, loader.n, store, now)
    /\ loader.stage = "hint" /\ loader.n > 0 =>
          /\ fin = loader.n /\ mdir.hasHint
          /\ LogOK(segs, fin, store)
          /\ HintOK(segs, segs, mdir.hint, fin, store, now)
    /\ loader.stage = "fin" /\ loader.n = 0 => mdir.fin = -1

Whole == loader.stage \in {"idle", "begin", "rmdir", "reopen"} \/ loader.n = 0 => DiskOK

\* Every hint is one of a key with a record in the segments f.
HintKeys(f, h) == \A i \in DOMAIN h : Later(f, h[i].key, 0) # {}

\* What a merge that did not finish can leave behind, where a crash may hit one:
\* one load, at most, finds an unfinished directory, and then nothing was
\* merged before.
Torn ==
    /\ mdir.exists /\ mdir.fin <= 0 /\ Calm /\ loader.stage \in {"idle", "begin"} =>
          "merging" \in CrashIn
    /\ loader.stage \in {"fin", "hint"} /\ loader.n = 0 => "merging" \in CrashIn
    /\ "merging" \in CrashIn =>
          /\ crashes = 0 => fin = 0 /\ mode = "open"
          /\ mode # "closed"
          /\ mode \in {"down", "opening", "failed"} /\ loader.stage \in {"idle", "begin", "remove", "move", "fin"} =>
                fin = 0
          /\ loader.stage = "hint" /\ loader.n = 0 => fin = 0
          /\ loader.stage \in {"idle", "begin"} \/ loader.n = 0 => HintKeys(segs, mdir.hint)

\* A database that is not open has no Merge under way and no open files.
Shut == mode # "open" => AllIdle /\ walOpen = 0

Nowhere ==
    /\ ~mdir.exists => mdir = NoDir
    /\ loader.stage = "reopen" => ~mdir.exists

\* Where nothing can be lost.  Out of it are the cases in which the code does
\* lose data: a crash in loadMergeFiles, a Close that catches a Merge, two
\* goroutines that reopen, an expiry that overflows, and an unfinished merge
\* whose hint file replaces that of a finished one.
Careful ==
    /\ "loading" \notin CrashIn
    /\ "merging" \notin CloseIn
    /\ OneReopener
    /\ \A ttl \in TTLs, n \in 2..MaxNow : ttl = 0 \/ ExpireAt(n, ttl) >= 0
    /\ "merging" \in CrashIn => MaxCrashes <= 1 /\ CloseIn = {} /\ Reopens \subseteq {FALSE}

Times == now \in 2..MaxNow /\ \A k \in Keys : store[k].expire >= 0

Mergings == \A m \in Mergers : merger[m].pc \in Busy => Merging(m)

Sound ==
    /\ Times /\ Mergings /\ Shut /\ Nowhere
    /\ Whole /\ IndexOK /\ Finished /\ Loading /\ Torn

LossInv == OwnInv /\ Sound
-----------------------------------------------------------------------------
(* Segments and positions                                                  *)

LEMMA LeastNatural ==
    ASSUME NEW S \in SUBSET Nat, S # {}
    PROVE  \E p \in S : \A q \in S : p <= q
<1> DEFINE R == OpToRel(<, Nat)
<1>1. PICK p \in S : \A q \in S : ~ (<<q, p>> \in R)
  BY NatLessThanWellFounded, WFMin, Zenon
<1>2. \A q \in S : q < p => <<q, p>> \in R
  BY Zenon DEF OpToRel
<1> HIDE DEF R
<1>3. \A q \in S : ~(q < p)
  BY <1>1, <1>2
<1> QED
  BY <1>3

\* A bounded set of natural numbers that is not empty has a largest member.
LEMMA GreatestNatural ==
    ASSUME NEW S \in SUBSET Nat, NEW b \in Nat, S # {}, \A p \in S : p <= b
    PROVE  \E p \in S : \A q \in S : q <= p
<1> DEFINE T == {n \in Nat : \E p \in S : n = b - p}
<1>1. T \in SUBSET Nat /\ T # {}
  <2>1. PICK p \in S : TRUE
    OBVIOUS
  <2>2. p \in Nat /\ p <= b
    OBVIOUS
  <2>3. b - p \in T
    BY <2>2
  <2> QED BY <2>3
<1>2. PICK n \in T : \A l \in T : n <= l
  BY <1>1, LeastNatural, Zenon
<1>3. PICK p \in S : n = b - p
  BY <1>2
<1>4. ASSUME NEW q \in S PROVE q <= p
  <2>1. q \in Nat /\ q <= b /\ p \in Nat
    OBVIOUS
  <2>2. b - q \in T
    BY <2>1
  <2>3. n <= b - q
    BY <1>2, <2>2
  <2> QED BY <2>1, <2>3, <1>3
<1> QED BY <1>4

LEMMA PosPair ==
    ASSUME NEW p \in PosSet
    PROVE  p = <<p[1], p[2]>> /\ p[1] \in Nat /\ p[1] >= 1 /\ p[2] \in Nat /\ p[2] >= 1 /\ p[2] <= SegCap
BY MergeAssumption DEF PosSet

LEMMA FilesDef ==
    ASSUME NEW f
    PROVE  f \in Files <=> DOMAIN f \subseteq Nat \ {0} /\ f \in [DOMAIN f -> Segments]
<1>1. ASSUME f \in Files PROVE DOMAIN f \subseteq Nat \ {0} /\ f \in [DOMAIN f -> Segments]
  BY <1>1 DEF Files
<1>2. ASSUME DOMAIN f \subseteq Nat \ {0}, f \in [DOMAIN f -> Segments] PROVE f \in Files
  BY <1>2, Zenon DEF Files
<1> QED BY <1>1, <1>2

LEMMA SegmentIs ==
    ASSUME NEW f \in Files, NEW s \in DOMAIN f
    PROVE  s \in Nat /\ s >= 1 /\ f[s] \in Seq(LogRecords) /\ Len(f[s]) \in Nat /\ Len(f[s]) <= SegCap
<1>1. s \in Nat \ {0} /\ f[s] \in Segments
  BY FilesDef
<1> QED BY <1>1 DEF Segments

LEMMA FilesAreFiles ==
    ASSUME NEW f \in Files
    PROVE  IsFile(f)
BY SegmentIs DEF IsFile

LEMMA LastUnique ==
    ASSUME NEW f \in Files, NEW a, IsLast(f, a)
    PROVE  /\ (CHOOSE s \in DOMAIN f : \A t \in DOMAIN f : t <= s) = a
           /\ a \in Nat /\ a >= 1
<1>1. a \in DOMAIN f /\ \A t \in DOMAIN f : t <= a
  BY DEF IsLast
<1>2. DOMAIN f \subseteq Nat \ {0}
  BY FilesDef
<1> DEFINE c == CHOOSE s \in DOMAIN f : \A t \in DOMAIN f : t <= s
<1>3. c \in DOMAIN f /\ \A t \in DOMAIN f : t <= c
  BY <1>1, Zenon
<1> HIDE DEF c
<1>4. c = a
  BY <1>1, <1>2, <1>3
<1> QED BY <1>1, <1>2, <1>4 DEF c

LEMMA LastPosIs ==
    ASSUME NEW f \in Files, NEW a, IsLast(f, a)
    PROVE  LastPos(f) = <<a, Len(f[a])>>
BY LastUnique, Zenon DEF LastPos

\* The active segment of an arbitrary directory is the one with the largest id.
LEMMA ActiveIs ==
    ASSUME segs \in Files, NEW a, IsLast(segs, a)
    PROVE  Active = a
BY LastUnique, Zenon DEF Active

LEMMA LaterIs ==
    ASSUME NEW f \in Files, NEW k, NEW c \in Nat, NEW p
    PROVE  p \in Later(f, k, c) <=> Has(f, p) /\ p[1] > c /\ At(f, p).key = k
<1>1. ASSUME p \in Later(f, k, c) PROVE Has(f, p) /\ p[1] > c /\ At(f, p).key = k
  <2>1. p \in {s \in DOMAIN f : s > c} \X (1..SegCap) /\ p[2] <= Len(f[p[1]]) /\ At(f, p).key = k
    BY <1>1 DEF Later, Positions
  <2>2. p[1] \in DOMAIN f /\ p[1] > c
    BY <2>1
  <2>3. p \in PosSet
    BY <2>1, FilesDef DEF PosSet
  <2> QED BY <2>1, <2>2, <2>3 DEF Has
<1>2. ASSUME Has(f, p), p[1] > c, At(f, p).key = k PROVE p \in Later(f, k, c)
  <2>1. p \in PosSet /\ p[1] \in DOMAIN f /\ p[2] <= Len(f[p[1]])
    BY <1>2 DEF Has
  <2>2. p = <<p[1], p[2]>> /\ p[2] \in 1..SegCap
    BY <2>1, MergeAssumption DEF PosSet
  <2>3. p \in {s \in DOMAIN f : s > c} \X (1..SegCap)
    BY <2>1, <2>2, <1>2
  <2> QED BY <2>1, <2>3, <1>2 DEF Later, Positions
<1> QED BY <1>1, <1>2

\* g is f with the record r appended at position p, behind every other one.
Adds(f, g, p, r) ==
    /\ Has(g, p) /\ At(g, p) = r
    /\ \A q \in PosSet : Has(g, q) <=> Has(f, q) \/ q = p
    /\ \A q \in PosSet : Has(f, q) => At(g, q) = At(f, q) /\ Before(q, p)

LEMMA AddsInSegment ==
    ASSUME NEW f \in Files, NEW a, IsLast(f, a), Len(f[a]) < SegCap, NEW r \in LogRecords,
           NEW g, g = [f EXCEPT ![a] = Append(@, r)]
    PROVE  /\ g \in Files /\ IsLast(g, a) /\ Len(g[a]) = Len(f[a]) + 1
           /\ Adds(f, g, <<a, Len(f[a]) + 1>>, r)
<1>1. f \in [DOMAIN f -> Segments] /\ DOMAIN f \subseteq Nat \ {0}
  BY FilesDef
<1>2. a \in DOMAIN f /\ a \in Nat /\ a >= 1 /\ \A s \in DOMAIN f : s <= a
  BY LastUnique DEF IsLast
<1>3. f[a] \in Seq(LogRecords) /\ Len(f[a]) \in Nat
  BY <1>2, SegmentIs
<1> DEFINE x == Append(f[a], r)
           n == Len(f[a])
<1>4. x \in Seq(LogRecords) /\ Len(x) = n + 1 /\ x[n + 1] = r
      /\ \A j \in 1..n : x[j] = f[a][j]
  BY <1>3
<1>5. n \in Nat /\ n < SegCap
  BY <1>3
<1>6. DOMAIN g = DOMAIN f /\ g[a] = x /\ \A s \in DOMAIN f : s # a => g[s] = f[s]
  BY <1>1, <1>2
<1> HIDE DEF x, n
<1>7. x \in Segments
  BY <1>4, <1>5, MergeAssumption DEF Segments
<1>8. g \in [DOMAIN g -> Segments]
  BY <1>1, <1>2, <1>7 DEF x
<1>9. g \in Files /\ IsLast(g, a)
  BY <1>1, <1>2, <1>6, <1>8, FilesDef DEF IsLast
<1> DEFINE p == <<a, n + 1>>
<1>10. p \in PosSet /\ p[1] = a /\ p[2] = n + 1
  BY <1>2, <1>5, MergeAssumption DEF PosSet
<1>11. Has(g, p) /\ At(g, p) = r
  BY <1>10, <1>2, <1>4, <1>6 DEF Has, At
<1>12. ASSUME NEW q \in PosSet PROVE Has(g, q) <=> Has(f, q) \/ q = p
  <2>1. q = <<q[1], q[2]>> /\ q[1] \in Nat /\ q[2] \in Nat
    BY PosPair
  <2>2. CASE q[1] # a
    BY <2>1, <2>2, <1>10, <1>6 DEF Has
  <2>3. CASE q[1] = a
    <3>1. Has(g, q) <=> q[2] <= n + 1
      BY <2>3, <1>2, <1>4, <1>6 DEF Has
    <3>2. Has(f, q) <=> q[2] <= n
      BY <2>3, <1>2 DEF Has, n
    <3>3. q = p <=> q[2] = n + 1
      BY <2>1, <2>3
    <3> QED BY <3>1, <3>2, <3>3, <2>1, <1>5
  <2> QED BY <2>2, <2>3
<1>13. ASSUME NEW q \in PosSet, Has(f, q) PROVE At(g, q) = At(f, q) /\ Before(q, p)
  <2>1. q = <<q[1], q[2]>> /\ q[1] \in Nat /\ q[2] \in Nat /\ q[2] >= 1
    BY PosPair
  <2>2. q[1] \in DOMAIN f /\ q[2] <= Len(f[q[1]])
    BY <1>13 DEF Has
  <2>3. CASE q[1] # a
    <3>1. q[1] < a
      BY <2>1, <2>2, <2>3, <1>2
    <3> QED BY <3>1, <2>2, <2>3, <1>6, <1>10 DEF At, Before
  <2>4. CASE q[1] = a
    <3>1. q[2] \in 1..n
      BY <2>1, <2>2, <2>4, <1>5 DEF n
    <3>2. q[2] < n + 1
      BY <3>1, <1>5
    <3> QED BY <3>1, <3>2, <2>4, <1>4, <1>6, <1>10 DEF At, Before
  <2> QED BY <2>3, <2>4
<1>14. Adds(f, g, p, r)
  BY <1>11, <1>12, <1>13 DEF Adds
<1> QED BY <1>9, <1>14, <1>4, <1>6 DEF n

LEMMA AddsSegment ==
    ASSUME NEW f \in Files, NEW a, IsLast(f, a), NEW r \in LogRecords,
           NEW g, g = [s \in DOMAIN f \cup {a + 1} |-> IF s = a + 1 THEN <<r>> ELSE f[s]]
    PROVE  /\ g \in Files /\ IsLast(g, a + 1) /\ Len(g[a + 1]) = 1
           /\ Adds(f, g, <<a + 1, 1>>, r)
<1>1. f \in [DOMAIN f -> Segments] /\ DOMAIN f \subseteq Nat \ {0}
  BY FilesDef
<1>2. a \in DOMAIN f /\ a \in Nat /\ a >= 1 /\ \A s \in DOMAIN f : s <= a
  BY LastUnique DEF IsLast
<1>3. a + 1 \notin DOMAIN f /\ a + 1 \in Nat \ {0}
  BY <1>2
<1>4. DOMAIN g = DOMAIN f \cup {a + 1} /\ g[a + 1] = <<r>> /\ \A s \in DOMAIN f : g[s] = f[s]
  BY <1>3
<1>5. <<r>> \in Segments /\ Len(<<r>>) = 1 /\ <<r>>[1] = r
  BY MergeAssumption DEF Segments
<1>6. g \in [DOMAIN g -> Segments]
  BY <1>1, <1>4, <1>5
<1>7. g \in Files
  BY <1>1, <1>3, <1>4, <1>6, FilesDef
<1>8. IsLast(g, a + 1)
  BY <1>2, <1>1, <1>4 DEF IsLast
<1> DEFINE p == <<a + 1, 1>>
<1>10. p \in PosSet /\ p[1] = a + 1 /\ p[2] = 1
  BY <1>3, MergeAssumption DEF PosSet
<1>11. Has(g, p) /\ At(g, p) = r
  BY <1>10, <1>4, <1>5 DEF Has, At
<1>12. ASSUME NEW q \in PosSet PROVE Has(g, q) <=> Has(f, q) \/ q = p
  <2>1. q = <<q[1], q[2]>> /\ q[1] \in Nat /\ q[2] \in Nat /\ q[2] >= 1
    BY PosPair
  <2>2. CASE q[1] # a + 1
    <3>1. q # p
      BY <2>2, <1>10
    <3>2. q[1] \in DOMAIN g <=> q[1] \in DOMAIN f
      BY <2>2, <1>4
    <3>3. q[1] \in DOMAIN f => g[q[1]] = f[q[1]]
      BY <1>4
    <3> QED BY <3>1, <3>2, <3>3 DEF Has
  <2>3. CASE q[1] = a + 1
    <3>1. Has(g, q) <=> q[2] <= 1
      BY <2>3, <1>4, <1>5 DEF Has
    <3>2. ~Has(f, q)
      BY <2>3, <1>3 DEF Has
    <3>3. q = p <=> q[2] = 1
      BY <2>1, <2>3
    <3> QED BY <3>1, <3>2, <3>3, <2>1
  <2> QED BY <2>2, <2>3
<1>13. ASSUME NEW q \in PosSet, Has(f, q) PROVE At(g, q) = At(f, q) /\ Before(q, p)
  <2>1. q[1] \in DOMAIN f /\ q[1] \in Nat
    BY <1>13, PosPair DEF Has
  <2>2. q[1] < a + 1
    BY <2>1, <1>2
  <2> QED BY <2>1, <2>2, <1>4, <1>10 DEF At, Before
<1>14. Adds(f, g, p, r)
  BY <1>11, <1>12, <1>13 DEF Adds
<1> QED BY <1>7, <1>8, <1>14, <1>4, <1>5
-----------------------------------------------------------------------------
(* Types                                                                   *)

LEMMA SequencesAreFiles ==
    ASSUME NEW o \in Seq(Segments)
    PROVE  o \in Files
<1>1. DOMAIN o = 1..Len(o) /\ Len(o) \in Nat
  OBVIOUS
<1>2. DOMAIN o \subseteq Nat \ {0}
  BY <1>1
<1>3. o \in [DOMAIN o -> Segments]
  BY <1>1
<1> QED BY <1>2, <1>3, FilesDef

LEMMA Empties ==
    /\ <<>> \in Segments /\ <<>> \in Seq(Segments) /\ <<<<>>>> \in Seq(Segments)
    /\ NoDir \in Dirs /\ NoMerge \in MergeStates /\ NoLoad \in Loads /\ Absent \in Entries
<1>1. <<>> \in Segments
  BY MergeAssumption DEF Segments
<1>2. <<>> \in Seq(Segments) /\ <<<<>>>> \in Seq(Segments)
  BY <1>1
<1>3. <<>> \in Files
  BY <1>2, SequencesAreFiles
<1>4. NoDir \in Dirs
  BY <1>3 DEF NoDir, Dirs
<1>5. NoMerge \in MergeStates
  BY <1>2 DEF NoMerge, MergeStates, Pcs
<1>6. NoLoad \in Loads /\ Absent \in Entries
  BY DEF NoLoad, Loads, Stages, Absent, Entries
<1> QED BY <1>1, <1>2, <1>4, <1>5, <1>6

LEMMA ImageCount ==
    ASSUME NEW S, IsFiniteSet(S), NEW f
    PROVE  /\ IsFiniteSet({f[x] : x \in S})
           /\ Cardinality({f[x] : x \in S}) <= Cardinality(S)
<1> DEFINE T == {f[x] : x \in S}
           g == [x \in S |-> f[x]]
<1>1. g \in Surjection(S, T)
  BY DEF Surjection
<1> HIDE DEF T, g
<1>2. IsFiniteSet(T) /\ Cardinality(T) <= Cardinality(S)
  BY <1>1, FS_Surjection
<1> QED BY <1>2 DEF T

\* There always is a generation nobody refers to.
LEMMA UnusedIs ==
    Unused \in Nat \ {0} /\ \A m \in Mergers : merger[m].wal # Unused
<1> DEFINE D == [m \in Mergers |-> merger[m].dir]
           W == [m \in Mergers |-> merger[m].wal]
           A == {D[m] : m \in Mergers}
           B == {W[m] : m \in Mergers}
           c == Cardinality(Mergers)
           used == {walOpen, mdir.id} \cup A \cup B
           top == 2 * c + 3
<1>1. A = {merger[m].dir : m \in Mergers} /\ B = {merger[m].wal : m \in Mergers}
  OBVIOUS
<1>2. IsFiniteSet(Mergers) /\ c \in Nat
  BY MergeAssumption, FS_CardinalityType
<1>3. /\ IsFiniteSet(A) /\ Cardinality(A) <= c
      /\ IsFiniteSet(B) /\ Cardinality(B) <= c
  BY <1>2, ImageCount
<1>4. Unused = CHOOSE n \in 1..top : n \notin used /\ \A i \in 1..(n - 1) : i \in used
  BY <1>1 DEF Unused
<1> HIDE DEF A, B, c
<1>5. IsFiniteSet(A \cup B) /\ Cardinality(A \cup B) <= 2 * c
  <2>1. /\ IsFiniteSet(A \cup B)
        /\ Cardinality(A \cup B) = Cardinality(A) + Cardinality(B) - Cardinality(A \cap B)
    BY <1>3, FS_Union
  <2>2. IsFiniteSet(A \cap B)
    <3>1. A \cap B \in SUBSET A
      OBVIOUS
    <3> QED BY <1>3, <3>1, FS_Subset
  <2>3. Cardinality(A \cap B) \in Nat /\ Cardinality(A) \in Nat /\ Cardinality(B) \in Nat
    BY <2>2, <1>3, FS_CardinalityType
  <2> QED BY <2>1, <2>3, <1>2, <1>3
<1> DEFINE AB == A \cup B
           U1 == AB \cup {walOpen}
           U2 == U1 \cup {mdir.id}
<1>6. IsFiniteSet(AB) /\ Cardinality(AB) \in Nat /\ Cardinality(AB) <= 2 * c
  BY <1>5, FS_CardinalityType
<1> HIDE DEF AB
<1>7. IsFiniteSet(U1) /\ Cardinality(U1) \in Nat /\ Cardinality(U1) <= 2 * c + 1
  <2>1. IsFiniteSet(U1) /\ Cardinality(U1) = IF walOpen \in AB THEN Cardinality(AB) ELSE Cardinality(AB) + 1
    BY <1>6, FS_AddElement, Zenon
  <2> HIDE DEF U1
  <2>2. Cardinality(U1) \in Nat
    BY <2>1, FS_CardinalityType
  <2> QED BY <2>1, <2>2, <1>2, <1>6
<1> HIDE DEF U1
<1>8. IsFiniteSet(U2) /\ Cardinality(U2) \in Nat /\ Cardinality(U2) <= 2 * c + 2
  <2>1. IsFiniteSet(U2) /\ Cardinality(U2) = IF mdir.id \in U1 THEN Cardinality(U1) ELSE Cardinality(U1) + 1
    BY <1>7, FS_AddElement, Zenon
  <2> HIDE DEF U2
  <2>2. Cardinality(U2) \in Nat
    BY <2>1, FS_CardinalityType
  <2> QED BY <2>1, <2>2, <1>2, <1>7
<1>9. used = U2
  BY DEF U1, AB
<1> HIDE DEF used, U2
<1>10. \E n \in 1..top : n \notin used
  <2> SUFFICES ASSUME 1..top \subseteq used PROVE FALSE
    OBVIOUS
  <2>1. 1..top \in SUBSET used
    OBVIOUS
  <2>2. Cardinality(1..top) <= Cardinality(used)
    BY <2>1, <1>8, <1>9, FS_Subset, Zenon
  <2>3. Cardinality(1..top) = top
    BY <1>2, FS_Interval
  <2> QED BY <2>2, <2>3, <1>2, <1>8, <1>9
<1> DEFINE F == {n \in 1..top : n \notin used}
<1>11. F \in SUBSET Nat /\ F # {}
  BY <1>10
<1>12. PICK n \in F : \A l \in F : n <= l
  BY <1>11, LeastNatural, Zenon
<1>13. ASSUME NEW i \in 1..(n - 1) PROVE i \in used
  <2>1. i \in 1..top /\ ~(n <= i)
    BY <1>2, <1>12
  <2> QED BY <2>1, <1>12
<1>14. n \in 1..top /\ n \notin used /\ \A i \in 1..(n - 1) : i \in used
  BY <1>12, <1>13
<1> HIDE DEF F, top
<1>15. Unused \in 1..top /\ Unused \notin used
  BY <1>4, <1>14, Zenon
<1>16. Unused \in Nat \ {0}
  BY <1>15, <1>2 DEF top
<1>17. \A m \in Mergers : merger[m].wal \in used
  BY <1>1 DEF used
<1> QED BY <1>15, <1>16, <1>17

\* The first of a set of positions.
LEMMA FirstPos ==
    ASSUME NEW T \in SUBSET PosSet, T # {},
           NEW x, x = CHOOSE p \in T : \A q \in T : ~Before(q, p)
    PROVE  x \in T /\ \A q \in T : q = x \/ Before(x, q)
<1> DEFINE S == {s \in Nat : \E p \in T : p[1] = s}
<1>1. \A p \in T : p = <<p[1], p[2]>> /\ p[1] \in Nat /\ p[2] \in Nat
  BY PosPair
<1>2. S \in SUBSET Nat /\ S # {}
  BY <1>1
<1>3. PICK s \in S : \A t \in S : s <= t
  BY <1>2, LeastNatural, Zenon
<1> DEFINE J == {j \in Nat : \E p \in T : p[1] = s /\ p[2] = j}
<1>4. J \in SUBSET Nat /\ J # {}
  BY <1>1, <1>3
<1>5. PICK j \in J : \A i \in J : j <= i
  BY <1>4, LeastNatural, Zenon
<1>6. PICK p \in T : p[1] = s /\ p[2] = j
  BY <1>5
<1>7. ASSUME NEW q \in T PROVE q = p \/ Before(p, q)
  <2>1. q[1] \in S /\ s <= q[1]
    BY <1>1, <1>3
  <2>2. q[1] = s => q[2] \in J /\ j <= q[2]
    BY <1>1, <1>5
  <2> QED BY <2>1, <2>2, <1>1, <1>6 DEF Before
<1>8. \A q, r \in T : ~(Before(q, r) /\ Before(r, q)) /\ ~Before(q, q)
  BY <1>1 DEF Before
<1>9. \A q \in T : ~Before(q, p)
  BY <1>7, <1>8
<1>10. x \in T /\ \A q \in T : ~Before(q, x)
  BY <1>9, Zenon
<1>11. x = p
  BY <1>7, <1>10
<1> QED BY <1>7, <1>11

\* The last of a set of positions of bounded segments.
LEMMA LastOfPos ==
    ASSUME NEW T \in SUBSET PosSet, T # {}, NEW b \in Nat, \A p \in T : p[1] <= b,
           NEW x, x = CHOOSE p \in T : \A q \in T : ~Before(p, q)
    PROVE  x \in T /\ \A q \in T : ~Before(x, q)
<1> DEFINE S == {s \in Nat : \E p \in T : p[1] = s}
<1>1. \A p \in T : p = <<p[1], p[2]>> /\ p[1] \in Nat /\ p[2] \in Nat /\ p[2] <= SegCap
  BY PosPair
<1>2. S \in SUBSET Nat /\ S # {} /\ \A s \in S : s <= b
  BY <1>1
<1>3. PICK s \in S : \A t \in S : t <= s
  BY <1>2, GreatestNatural, Zenon
<1> DEFINE J == {j \in Nat : \E p \in T : p[1] = s /\ p[2] = j}
<1>4. J \in SUBSET Nat /\ J # {} /\ (\A j \in J : j <= SegCap) /\ SegCap \in Nat
  BY <1>1, <1>3, MergeAssumption
<1>5. PICK j \in J : \A i \in J : i <= j
  BY <1>4, GreatestNatural, Zenon
<1>6. PICK p \in T : p[1] = s /\ p[2] = j
  BY <1>5
<1>7. ASSUME NEW q \in T PROVE ~Before(p, q)
  <2>1. q[1] \in S /\ q[1] <= s
    BY <1>1, <1>3
  <2>2. q[1] = s => q[2] \in J /\ q[2] <= j
    BY <1>1, <1>5
  <2> QED BY <2>1, <2>2, <1>1, <1>6 DEF Before
<1> QED BY <1>6, <1>7, Zenon

\* What the index is rebuilt with.
LEMMA HintPosTyped ==
    ASSUME NEW h \in Seq(Hints), NEW k
    PROVE  HintIn(h, k) \in PosSet \cup {NoPos}
<1> DEFINE hs == {i \in DOMAIN h : h[i].key = k}
           c == CHOOSE i \in hs : \A j \in hs : j <= i
<1>1. CASE hs = {}
  BY <1>1 DEF HintIn
<1>2. CASE hs # {}
  <2>1. hs \in SUBSET Nat /\ Len(h) \in Nat /\ \A i \in hs : i <= Len(h)
    OBVIOUS
  <2>2. \E i \in hs : \A j \in hs : j <= i
    BY <1>2, <2>1, GreatestNatural, Zenon
  <2>3. c \in hs
    BY <2>2, Zenon
  <2>4. HintIn(h, k) = h[c].pos
    BY <1>2 DEF HintIn
  <2>5. h[c] \in Hints
    BY <2>3
  <2> QED BY <2>4, <2>5 DEF Hints
<1> QED BY <1>1, <1>2

\* What an append to the log does.
LEMMA AppendedIs ==
    ASSUME segs \in Files, IsLast(segs, Active), NEW r \in LogRecords
    PROVE  \E p \in PosSet :
              /\ Appended(r) \in Files /\ IsLast(Appended(r), p[1]) /\ p[1] >= Active
              /\ LastPos(Appended(r)) = p
              /\ Adds(segs, Appended(r), p, r)
<1>1. Active \in Nat /\ Active >= 1 /\ Active \in DOMAIN segs
  BY LastUnique, Zenon DEF Active, IsLast
<1>2. Len(segs[Active]) \in Nat
  BY <1>1, SegmentIs
<1>3. CASE Len(segs[Active]) < SegCap
  <2> DEFINE g == [segs EXCEPT ![Active] = Append(@, r)]
             p == <<Active, Len(segs[Active]) + 1>>
  <2>1. Appended(r) = g
    BY <1>3 DEF Appended
  <2>2. /\ g \in Files /\ IsLast(g, Active) /\ Len(g[Active]) = Len(segs[Active]) + 1
        /\ Adds(segs, g, p, r)
    BY <1>3, AddsInSegment
  <2> HIDE DEF g
  <2>3. LastPos(g) = p
    BY <2>2, LastPosIs
  <2>4. p \in PosSet /\ p[1] = Active
    BY <1>1, <1>2, <1>3, MergeAssumption DEF PosSet
  <2> QED BY <2>1, <2>2, <2>3, <2>4, <1>1
<1>4. CASE ~(Len(segs[Active]) < SegCap)
  <2> DEFINE g == [s \in DOMAIN segs \cup {Active + 1} |-> IF s = Active + 1 THEN <<r>> ELSE segs[s]]
             p == <<Active + 1, 1>>
  <2>1. Appended(r) = g
    BY <1>4 DEF Appended
  <2>2. /\ g \in Files /\ IsLast(g, Active + 1) /\ Len(g[Active + 1]) = 1
        /\ Adds(segs, g, p, r)
    BY AddsSegment
  <2> HIDE DEF g
  <2>3. LastPos(g) = p
    BY <2>2, LastPosIs
  <2>4. p \in PosSet /\ p[1] = Active + 1
    BY <1>1, MergeAssumption DEF PosSet
  <2> QED BY <2>1, <2>2, <2>3, <2>4, <1>1
<1> QED BY <1>3, <1>4

\* The log rotated: an empty active segment.
Rotated == [s \in DOMAIN segs \cup {Active + 1} |-> IF s = Active + 1 THEN <<>> ELSE segs[s]]

LEMMA RotatedIs ==
    ASSUME segs \in Files, IsLast(segs, Active)
    PROVE  /\ Rotated \in Files /\ IsLast(Rotated, Active + 1)
           /\ \A q \in PosSet : (Has(Rotated, q) <=> Has(segs, q)) /\ (Has(segs, q) => At(Rotated, q) = At(segs, q))
<1>1. Active \in Nat /\ Active >= 1 /\ Active \in DOMAIN segs /\ \A s \in DOMAIN segs : s <= Active
  BY LastUnique, Zenon DEF Active, IsLast
<1>2. segs \in [DOMAIN segs -> Segments] /\ DOMAIN segs \subseteq Nat \ {0}
  BY FilesDef
<1>3. Active + 1 \notin DOMAIN segs /\ Active + 1 \in Nat \ {0}
  BY <1>1
<1>4. /\ DOMAIN Rotated = DOMAIN segs \cup {Active + 1} /\ Rotated[Active + 1] = <<>>
      /\ \A s \in DOMAIN segs : Rotated[s] = segs[s]
  BY <1>3 DEF Rotated
<1>5. Rotated \in [DOMAIN Rotated -> Segments]
  BY <1>2, <1>3, Empties DEF Rotated
<1>6. Rotated \in Files
  BY <1>2, <1>3, <1>4, <1>5, FilesDef
<1>7. IsLast(Rotated, Active + 1)
  BY <1>1, <1>2, <1>4 DEF IsLast
<1>8. ASSUME NEW q \in PosSet
      PROVE  (Has(Rotated, q) <=> Has(segs, q)) /\ (Has(segs, q) => At(Rotated, q) = At(segs, q))
  <2>1. q[2] \in Nat /\ q[2] >= 1
    BY PosPair
  <2>2. CASE q[1] = Active + 1
    BY <2>1, <2>2, <1>3, <1>4 DEF Has
  <2>3. CASE q[1] # Active + 1
    BY <2>3, <1>4 DEF Has, At
  <2> QED BY <2>2, <2>3
<1> QED BY <1>6, <1>7, <1>8

LEMMA ActiveNat ==
    ASSUME TypeInv
    PROVE  Active \in Nat /\ Active >= 1 /\ Active \in DOMAIN segs /\ \A s \in DOMAIN segs : s <= Active
BY LastUnique, Zenon DEF TypeInv, Typed, Beyond, Active, IsLast

LEMMA TypeInit == Init => TypeInv
<1> SUFFICES ASSUME Init PROVE TypeInv
  OBVIOUS
<1>1. segs = [x \in {1} |-> <<>>]
  BY DEF Init
<1>2. segs \in Files /\ IsLast(segs, 1)
  <2>1. DOMAIN segs = {1} /\ segs \in [{1} -> Segments]
    BY <1>1, Empties
  <2> QED BY <2>1, FilesDef DEF IsLast
<1>3. Active = 1
  BY <1>2, ActiveIs
<1>4. \A m \in Mergers : merger[m] = NoMerge
  BY DEF Init
<1>5. Typed
  <2>1. index \in [Keys -> PosSet \cup {NoPos}] /\ hint \in Seq(Hints)
    BY DEF Init
  <2>2. merger \in [Mergers -> MergeStates] /\ store \in [Keys -> Entries]
    BY Empties DEF Init
  <2> QED BY <1>2, <2>1, <2>2, Empties DEF Init, Typed
<1>6. Beyond
  <2>1. \A m \in Mergers : merger[m].pc \notin Busy
    BY <1>4 DEF NoMerge, Busy
  <2>2. mdir.fin = -1 /\ fin = 0 /\ loader.n = 0 /\ loader.stage = "idle"
    BY DEF Init, NoDir, NoLoad
  <2> QED BY <1>2, <1>3, <2>1, <2>2 DEF Beyond
<1> QED BY <1>5, <1>6 DEF TypeInv

\* The parts of Beyond that are not about the segments.
BeyondOf(a, f, d, ld, mg) ==
    /\ f < a /\ d.fin < a /\ ld.n < a
    /\ ld.stage \in {"remove", "move"} => ld.i \in 1..ld.n
    /\ \A m \in Mergers :
          mg[m].pc \in Busy => /\ mg[m].prev \in 1..(a - 1)
                               /\ mg[m].pc # "opendir" => mg[m].out # <<>>

LEMMA BeyondSame ==
    ASSUME Beyond, segs' = segs, BeyondOf(Active, fin', mdir', loader', merger')
    PROVE  Beyond'
<1>1. Active' = Active
  BY DEF Active
<1>2. IsLast(segs, Active)'
  BY <1>1 DEF Beyond, IsLast
<1> QED BY <1>1, <1>2 DEF Beyond, BeyondOf

LEMMA TypeWrite ==
    ASSUME TypeInv, NEW k \in Keys, NEW r \in LogRecords, NEW e \in Entries, Write(k, r, e)
    PROVE  TypeInv'
<1> DEFINE x == [r EXCEPT !.batchId = 1]
<1>1. x \in LogRecords
  BY DEF LogRecords
<1> HIDE DEF x
<1>2. segs' = Appended(x)
  BY DEF Write, x
<1>3. segs \in Files /\ IsLast(segs, Active)
  BY DEF TypeInv, Typed, Beyond
<1>4. PICK p \in PosSet : /\ Appended(x) \in Files /\ IsLast(Appended(x), p[1]) /\ p[1] >= Active
                          /\ LastPos(Appended(x)) = p
  BY <1>1, <1>3, AppendedIs
<1>5. segs' \in Files /\ LastPos(segs') = p /\ IsLast(segs', p[1])
  BY <1>2, <1>4
<1>6. Active' = p[1]
  BY <1>5, LastUnique, Zenon DEF Active
<1>7. index' \in [Keys -> PosSet \cup {NoPos}] /\ store' \in [Keys -> Entries]
  <2>1. index' = [index EXCEPT ![k] = IF r.type = "Deleted" \/ IsExpired(r.expire, now) THEN NoPos ELSE p]
    BY <1>5, Zenon DEF Write
  <2> QED BY <2>1 DEF TypeInv, Typed, Write
<1>8. Typed'
  BY <1>5, <1>7, Zenon DEF TypeInv, Typed, Write
<1>9. Active \in Nat /\ p[1] \in Nat
  BY ActiveNat, PosPair
<1>10. BeyondOf(Active, fin, mdir, loader, merger)
  BY DEF TypeInv, Beyond, BeyondOf
<1>11. \A m \in Mergers : merger[m].prev \in Nat
  BY DEF TypeInv, Typed, MergeStates
<1>12. fin \in Nat /\ mdir.fin \in Int /\ loader.n \in Nat
  BY DEF TypeInv, Typed, Dirs, Loads
<1>13. BeyondOf(p[1], fin, mdir, loader, merger)
  BY <1>4, <1>9, <1>10, <1>11, <1>12 DEF BeyondOf
<1>14. UNCHANGED <<fin, mdir, loader, merger>>
  BY DEF Write
<1>15. Beyond'
  BY <1>5, <1>6, <1>13, <1>14 DEF Beyond, BeyondOf
<1> QED BY <1>8, <1>15 DEF TypeInv

LEMMA WriteTyped ==
    ASSUME Typed, NEW k \in Keys
    PROVE  /\ DeletedRecord(k) \in LogRecords /\ Absent \in Entries
           /\ \A v \in Values, ttl \in TTLs :
                 LET e == IF ttl = 0 THEN 0 ELSE ExpireAt(now, ttl)
                 IN  NormalRecord(k, v, e) \in LogRecords /\ [value |-> v, expire |-> e] \in Entries
<1>1. \A n \in Int : Wrap(n) \in Int
  BY MaxIntAssumption DEF Wrap
<1>2. \A ttl \in TTLs : ExpireAt(now, ttl) \in Int
  BY <1>1, MergeAssumption DEF ExpireAt, Typed
<1>3. DeletedRecord(k) \in LogRecords
  BY DEF DeletedRecord, LogRecords
<1>4. ASSUME NEW v \in Values, NEW e \in Int
      PROVE  NormalRecord(k, v, e) \in LogRecords /\ [value |-> v, expire |-> e] \in Entries
  BY DEF NormalRecord, LogRecords, Entries
<1> QED BY <1>2, <1>3, <1>4, Empties

LEMMA MergerSet ==
    ASSUME NEW g \in [Mergers -> MergeStates], NEW m \in Mergers, NEW x \in MergeStates,
           NEW h, h = [g EXCEPT ![m] = x]
    PROVE  h \in [Mergers -> MergeStates] /\ h[m] = x /\ \A n \in Mergers : n # m => h[n] = g[n]
OBVIOUS

\* A step that leaves the segments and what a load does alone, and gives one
\* goroutine the state x.
LEMMA TypeMerger ==
    ASSUME TypeInv, NEW m \in Mergers, NEW x \in MergeStates,
           merger' = [merger EXCEPT ![m] = x],
           x.pc \in Busy => x.prev \in 1..(Active - 1) /\ (x.pc # "opendir" => x.out # <<>>),
           UNCHANGED <<segs, hint, fin, index, now, crashes, store>>,
           mdir' \in Dirs, mdir'.fin < Active,
           loader' \in Loads, loader'.n < Active, loader'.stage \notin {"remove", "move"} \/ loader' = loader,
           mode' = mode, closing' = closing, mergeRunning' \in BOOLEAN, walOpen' \in Nat
    PROVE  TypeInv'
<1>1. merger \in [Mergers -> MergeStates]
  BY DEF TypeInv, Typed
<1>2. /\ merger' \in [Mergers -> MergeStates] /\ merger'[m] = x
      /\ \A n \in Mergers : n # m => merger'[n] = merger[n]
  BY <1>1, MergerSet
<1>3. Typed'
  BY <1>2 DEF TypeInv, Typed
<1>4. BeyondOf(Active, fin, mdir, loader, merger)
  BY DEF TypeInv, Beyond, BeyondOf
<1>5. \A n \in Mergers : merger'[n].pc \in Busy =>
          /\ merger'[n].prev \in 1..(Active - 1)
          /\ merger'[n].pc # "opendir" => merger'[n].out # <<>>
  <2> SUFFICES ASSUME NEW n \in Mergers, merger'[n].pc \in Busy
               PROVE  /\ merger'[n].prev \in 1..(Active - 1)
                      /\ merger'[n].pc # "opendir" => merger'[n].out # <<>>
    OBVIOUS
  <2>1. CASE n = m
    BY <2>1, <1>2
  <2>2. CASE n # m
    <3>1. merger'[n] = merger[n]
      BY <2>2, <1>2
    <3> QED BY <3>1, <1>4 DEF BeyondOf
  <2> QED BY <2>1, <2>2
<1>6. loader'.stage \in {"remove", "move"} => loader'.i \in 1..loader'.n
  BY <1>4 DEF BeyondOf
<1>7. BeyondOf(Active, fin', mdir', loader', merger')
  BY <1>4, <1>5, <1>6 DEF BeyondOf
<1>8. Beyond'
  BY <1>7, BeyondSame DEF TypeInv
<1> QED BY <1>3, <1>8 DEF TypeInv

LEMMA TypeMergeStart ==
    ASSUME TypeInv, NEW m \in Mergers, NEW reopen \in Reopens, MergeStart(m, reopen)
    PROVE  TypeInv'
<1> DEFINE x == [NoMerge EXCEPT !.pc = "opendir", !.reopen = reopen, !.prev = Active]
<1>1. segs' = Rotated /\ merger' = [merger EXCEPT ![m] = x]
  BY DEF MergeStart, Rotated
<1>2. segs \in Files /\ IsLast(segs, Active) /\ merger \in [Mergers -> MergeStates]
  BY DEF TypeInv, Typed, Beyond
<1>3. segs' \in Files /\ IsLast(segs', Active + 1)
  BY <1>1, <1>2, RotatedIs
<1>4. Active' = Active + 1
  BY <1>3, LastUnique, Zenon DEF Active
<1>5. Active \in Nat /\ Active >= 1
  BY ActiveNat
<1>6. x \in MergeStates /\ x.pc = "opendir" /\ x.prev = Active
  BY <1>5, Empties, MergeAssumption DEF NoMerge, MergeStates, Pcs
<1> HIDE DEF x
<1>7. /\ merger' \in [Mergers -> MergeStates] /\ merger'[m] = x
      /\ \A n \in Mergers : n # m => merger'[n] = merger[n]
  BY <1>1, <1>2, <1>6, MergerSet
<1>8. Typed'
  BY <1>3, <1>7 DEF TypeInv, Typed, MergeStart
<1>9. BeyondOf(Active, fin, mdir, loader, merger)
  BY DEF TypeInv, Beyond, BeyondOf
<1>10. fin \in Nat /\ mdir.fin \in Int /\ loader.n \in Nat /\ \A n \in Mergers : merger[n].prev \in Nat
  BY DEF TypeInv, Typed, Dirs, Loads, MergeStates
<1>11. \A n \in Mergers : merger'[n].pc \in Busy =>
          /\ merger'[n].prev \in 1..(Active + 1 - 1)
          /\ merger'[n].pc # "opendir" => merger'[n].out # <<>>
  <2> SUFFICES ASSUME NEW n \in Mergers, merger'[n].pc \in Busy
               PROVE  /\ merger'[n].prev \in 1..(Active + 1 - 1)
                      /\ merger'[n].pc # "opendir" => merger'[n].out # <<>>
    OBVIOUS
  <2>1. CASE n = m
    BY <2>1, <1>5, <1>6, <1>7
  <2>2. CASE n # m
    <3>1. merger'[n] = merger[n]
      BY <2>2, <1>7
    <3>2. merger[n].prev \in 1..(Active - 1) /\ (merger[n].pc # "opendir" => merger[n].out # <<>>)
      BY <3>1, <1>9 DEF BeyondOf
    <3> QED BY <3>1, <3>2, <1>5, <1>10
  <2> QED BY <2>1, <2>2
<1>12. fin' = fin /\ mdir' = mdir /\ loader' = loader
  BY DEF MergeStart
<1>13. BeyondOf(Active + 1, fin', mdir', loader', merger')
  BY <1>5, <1>9, <1>10, <1>11, <1>12 DEF BeyondOf
<1>14. Beyond'
  BY <1>3, <1>4, <1>13 DEF Beyond, BeyondOf
<1> QED BY <1>8, <1>14 DEF TypeInv

LEMMA TypeMergeNothing ==
    ASSUME TypeInv, NEW m \in Mergers, MergeNothing(m)
    PROVE  TypeInv'
<1> DEFINE x == [NoMerge EXCEPT !.pc = "lock"]
<1>1. x \in MergeStates /\ x.pc \notin Busy
  BY Empties DEF NoMerge, MergeStates, Pcs, Busy
<1>2. merger' = [merger EXCEPT ![m] = x]
  BY DEF MergeNothing
<1> HIDE DEF x
<1>3. UNCHANGED <<segs, hint, fin, mdir, index, now, crashes, store, loader, mode, closing, mergeRunning, walOpen>>
  BY DEF MergeNothing, disk
<1>4. /\ mdir \in Dirs /\ mdir.fin < Active /\ loader \in Loads /\ loader.n < Active
      /\ mergeRunning \in BOOLEAN /\ walOpen \in Nat
  BY DEF TypeInv, Typed, Beyond
<1> QED BY <1>1, <1>2, <1>3, <1>4, TypeMerger

LEMMA MergerIs ==
    ASSUME TypeInv, NEW m \in Mergers
    PROVE  /\ merger[m] \in MergeStates
           /\ merger[m].pc \in Busy => /\ merger[m].prev \in 1..(Active - 1)
                                       /\ merger[m].pc # "opendir" => merger[m].out # <<>>
BY DEF TypeInv, Typed, Beyond

LEMMA TypeOpenMergeDB ==
    ASSUME TypeInv, NEW m \in Mergers, OpenMergeDB(m)
    PROVE  TypeInv'
<1> DEFINE x == [merger[m] EXCEPT !.pc = "reader", !.dir = Unused, !.out = <<<<>>>>]
<1>1. merger' = [merger EXCEPT ![m] = x]
  BY DEF OpenMergeDB, TypeInv, Typed
<1>2. merger[m] \in MergeStates /\ merger[m].prev \in 1..(Active - 1)
  BY MergerIs DEF OpenMergeDB, Busy
<1>3. x \in MergeStates /\ x.prev = merger[m].prev /\ x.out # <<>>
  BY <1>2, UnusedIs, Empties DEF MergeStates, Pcs
<1> HIDE DEF x
<1>4. mdir' \in Dirs /\ mdir'.fin = -1
  <2>1. <<<<>>>> \in Files
    BY Empties, SequencesAreFiles
  <2> QED BY <2>1, UnusedIs, Empties DEF OpenMergeDB, NoDir, Dirs
<1>5. Active \in Nat
  BY ActiveNat
<1>6. UNCHANGED <<segs, hint, fin, index, now, crashes, store, loader, mode, closing, mergeRunning, walOpen>>
  BY DEF OpenMergeDB, disk, clocks
<1>7. /\ loader \in Loads /\ loader.n < Active
      /\ mergeRunning \in BOOLEAN /\ walOpen \in Nat
  BY DEF TypeInv, Typed, Beyond
<1>8. mdir'.fin < Active
  BY <1>4, <1>5
<1> QED BY <1>1, <1>2, <1>3, <1>4, <1>6, <1>7, <1>8, TypeMerger

LEMMA PositionsTyped ==
    ASSUME NEW f \in Files, NEW ids \in SUBSET DOMAIN f
    PROVE  Positions(f, ids) \subseteq PosSet
BY FilesDef DEF Positions, PosSet

LEMMA TypeNewReader ==
    ASSUME TypeInv, NEW m \in Mergers, NewReader(m)
    PROVE  TypeInv'
<1> DEFINE T == Positions(segs, {s \in DOMAIN segs : s <= merger[m].prev})
           x == [merger[m] EXCEPT !.pc = "scan", !.start = now, !.wal = walOpen, !.todo = T]
<1>1. merger' = [merger EXCEPT ![m] = x]
  BY DEF NewReader, TypeInv, Typed
<1>2. merger[m] \in MergeStates /\ merger[m].prev \in 1..(Active - 1) /\ merger[m].out # <<>>
  BY MergerIs DEF NewReader, Busy
<1>3. T \in SUBSET PosSet
  BY PositionsTyped DEF TypeInv, Typed
<1>4. x \in MergeStates /\ x.prev = merger[m].prev /\ x.out = merger[m].out
  BY <1>2, <1>3 DEF MergeStates, Pcs, TypeInv, Typed
<1> HIDE DEF x
<1>6. UNCHANGED <<segs, hint, fin, mdir, index, now, crashes, store, loader, mode, closing, mergeRunning, walOpen>>
  BY DEF NewReader, disk, clocks
<1>7. /\ mdir \in Dirs /\ mdir.fin < Active /\ loader \in Loads /\ loader.n < Active
      /\ mergeRunning \in BOOLEAN /\ walOpen \in Nat
  BY DEF TypeInv, Typed, Beyond
<1> QED BY <1>1, <1>2, <1>4, <1>6, <1>7, TypeMerger

\* The merged segments after a record is rewritten into them.
Rewritten(o, r) ==
    IF Len(o[Len(o)]) = SegCap THEN Append(o, <<r>>)
    ELSE [o EXCEPT ![Len(o)] = Append(@, r)]

LEMMA RewrittenIs ==
    ASSUME NEW o \in Seq(Segments), o # <<>>, NEW r \in LogRecords
    PROVE  LET g == Rewritten(o, r)
           IN  /\ g \in Seq(Segments) /\ g # <<>>
               /\ EndOf(g) \in PosSet /\ Adds(o, g, EndOf(g), r)
               /\ EndOf(g) = IF Len(o[Len(o)]) = SegCap THEN <<Len(o) + 1, 1>>
                             ELSE <<Len(o), Len(o[Len(o)]) + 1>>
<1> DEFINE n == Len(o)
           g == Rewritten(o, r)
<1>1. n \in Nat /\ n >= 1 /\ DOMAIN o = 1..n /\ o \in [1..n -> Segments]
  OBVIOUS
<1>2. o \in Files /\ IsLast(o, n)
  BY <1>1, SequencesAreFiles DEF IsLast
<1>3. o[n] \in Segments /\ Len(o[n]) \in Nat /\ Len(o[n]) <= SegCap
  BY <1>1 DEF Segments
<1>4. CASE Len(o[n]) = SegCap
  <2>1. g = Append(o, <<r>>)
    BY <1>4 DEF Rewritten
  <2>2. <<r>> \in Segments
    BY MergeAssumption DEF Segments
  <2>3. /\ g \in Seq(Segments) /\ g # <<>> /\ Len(g) = n + 1 /\ DOMAIN g = 1..(n + 1)
        /\ g[n + 1] = <<r>> /\ \A s \in 1..n : g[s] = o[s]
    BY <2>1, <2>2
  <2> HIDE DEF g
  <2>4. g = [s \in DOMAIN o \cup {n + 1} |-> IF s = n + 1 THEN <<r>> ELSE o[s]]
    <3>1. DOMAIN g = DOMAIN o \cup {n + 1}
      BY <2>3, <1>1
    <3>2. \A s \in DOMAIN o \cup {n + 1} : g[s] = IF s = n + 1 THEN <<r>> ELSE o[s]
      BY <2>3, <1>1
    <3>3. g = [s \in DOMAIN g |-> g[s]]
      BY <2>3
    <3> QED BY <3>1, <3>2, <3>3
  <2>5. Len(g[n + 1]) = 1 /\ Adds(o, g, <<n + 1, 1>>, r)
    BY <2>4, <1>2, AddsSegment
  <2>6. EndOf(g) = <<n + 1, 1>>
    BY <2>3, <2>5 DEF EndOf
  <2>7. EndOf(g) \in PosSet
    BY <2>6, <1>1, MergeAssumption DEF PosSet
  <2> QED BY <2>3, <2>5, <2>6, <2>7, <1>4 DEF g
<1>5. CASE Len(o[n]) # SegCap
  <2>1. g = [o EXCEPT ![n] = Append(@, r)]
    BY <1>5 DEF Rewritten
  <2>2. Len(o[n]) < SegCap
    BY <1>3, <1>5, MergeAssumption
  <2>3. g \in Files /\ Len(g[n]) = Len(o[n]) + 1 /\ Adds(o, g, <<n, Len(o[n]) + 1>>, r)
    BY <2>1, <2>2, <1>2, AddsInSegment
  <2>4. DOMAIN g = 1..n
    BY <2>1, <1>1
  <2> HIDE DEF g
  <2>5. g \in [1..n -> Segments]
    BY <2>3, <2>4, FilesDef
  <2>6. g \in Seq(Segments) /\ Len(g) = n /\ g # <<>>
    BY <2>5, <1>1
  <2>7. EndOf(g) = <<n, Len(o[n]) + 1>>
    BY <2>3, <2>6 DEF EndOf
  <2>8. EndOf(g) \in PosSet
    BY <2>7, <2>2, <1>1, <1>3, MergeAssumption DEF PosSet
  <2> QED BY <2>3, <2>6, <2>7, <2>8, <1>5 DEF g
<1> QED BY <1>4, <1>5

\* The three things a step of the loop of doMerge does.
LEMMA MergeRecordCases ==
    ASSUME TypeInv, NEW m \in Mergers, MergeRecord(m)
    PROVE  LET p == NextPos(m)
               r == At(segs, p)
               o == Rewritten(merger[m].out, [r EXCEPT !.batchId = MergeFinishedBatchID])
               here == mdir.exists /\ mdir.id = merger[m].dir
           IN  /\ merger[m].pc = "scan" /\ merger[m].todo # {} /\ loader.stage = "idle"
               /\ UNCHANGED <<segs, hint, fin, index, mode, walOpen, loader, closing, now, crashes, store>>
               /\ \/ /\ merger' = [merger EXCEPT ![m] = NoMerge] /\ mergeRunning' = FALSE /\ mdir' = mdir
                     /\ walOpen # merger[m].wal \/ walOpen = 0 \/ ~mdir.exists
                  \/ /\ walOpen = merger[m].wal /\ walOpen # 0 /\ mergeRunning' = mergeRunning
                     /\ Valid(r, p, merger[m].start)
                     /\ merger' = [merger EXCEPT ![m] = [merger[m] EXCEPT !.todo = merger[m].todo \ {p}, !.out = o]]
                     /\ mdir' = IF here THEN [mdir EXCEPT !.segs = o,
                                               !.hint = Append(mdir.hint, HintRecord(r.key, EndOf(o)))]
                                ELSE mdir
                  \/ /\ walOpen = merger[m].wal /\ walOpen # 0 /\ mergeRunning' = mergeRunning
                     /\ ~Valid(r, p, merger[m].start)
                     /\ merger' = [merger EXCEPT ![m] = [merger[m] EXCEPT !.todo = merger[m].todo \ {p}]]
                     /\ mdir' = mdir
<1> DEFINE mg == merger[m]
           p == NextPos(m)
           r == At(segs, p)
           x == [r EXCEPT !.batchId = MergeFinishedBatchID]
           o == Rewritten(mg.out, x)
           full == Len(mg.out[Len(mg.out)]) = SegCap
           gone == walOpen # mg.wal \/ walOpen = 0 \/ (Valid(r, p, mg.start) /\ full /\ ~mdir.exists)
<1>0. merger \in [Mergers -> MergeStates] /\ mdir \in Dirs
  BY DEF TypeInv, Typed
<1>1. /\ merger[m].pc = "scan" /\ merger[m].todo # {} /\ loader.stage = "idle"
      /\ UNCHANGED <<segs, hint, fin, index, mode, walOpen, loader, closing, now, crashes, store>>
  BY DEF MergeRecord, disk, clocks
<1>2. CASE gone
  BY <1>1, <1>2 DEF MergeRecord, Abandon
<1>3. CASE ~gone /\ Valid(r, p, mg.start)
  <2>1. o = IF full THEN Append(mg.out, <<x>>) ELSE [mg.out EXCEPT ![Len(mg.out)] = Append(@, x)]
    BY DEF Rewritten
  <2>2. /\ mergeRunning' = mergeRunning
        /\ merger' = [merger EXCEPT ![m].todo = @ \ {p}, ![m].out = o]
        /\ mdir' = IF mdir.exists /\ mdir.id = mg.dir
                   THEN [mdir EXCEPT !.segs = o, !.hint = Append(@, HintRecord(r.key, <<Len(o), Len(o[Len(o)])>>))]
                   ELSE mdir
    BY <1>3, <2>1, Zenon DEF MergeRecord
  <2> HIDE DEF o
  <2>3. EndOf(o) = <<Len(o), Len(o[Len(o)])>>
    BY DEF EndOf
  <2>4. merger' = [merger EXCEPT ![m] = [merger[m] EXCEPT !.todo = merger[m].todo \ {p}, !.out = o]]
    BY <2>2, <1>0
  <2>5. mdir' = IF mdir.exists /\ mdir.id = merger[m].dir
                THEN [mdir EXCEPT !.segs = o, !.hint = Append(mdir.hint, HintRecord(r.key, EndOf(o)))]
                ELSE mdir
    BY <2>2, <2>3, <1>0
  <2> HIDE DEF p, r
  <2>6. walOpen = merger[m].wal /\ walOpen # 0
    BY <1>3
  <2> QED BY <1>1, <1>3, <2>2, <2>4, <2>5, <2>6, Zenon DEF o, p, r
<1>4. CASE ~gone /\ ~Valid(r, p, mg.start)
  <2>1. mergeRunning' = mergeRunning /\ mdir' = mdir /\ merger' = [merger EXCEPT ![m].todo = @ \ {p}]
    BY <1>4, Zenon DEF MergeRecord, Skip
  <2>2. merger' = [merger EXCEPT ![m] = [merger[m] EXCEPT !.todo = merger[m].todo \ {p}]]
    BY <2>1, <1>0
  <2> QED BY <1>1, <1>4, <2>1, <2>2, Zenon
<1> QED BY <1>2, <1>3, <1>4

LEMMA AtTyped ==
    ASSUME NEW f \in Files, NEW p, Has(f, p)
    PROVE  At(f, p) \in LogRecords
<1>1. p[1] \in DOMAIN f /\ p[2] \in 1..Len(f[p[1]])
  BY SegmentIs, PosPair DEF Has
<1> QED BY <1>1, SegmentIs DEF At

LEMMA NextPosIs ==
    ASSUME TypeInv, NEW m \in Mergers, merger[m].todo # {}
    PROVE  /\ NextPos(m) \in merger[m].todo /\ NextPos(m) \in PosSet
           /\ \A q \in merger[m].todo : q = NextPos(m) \/ Before(NextPos(m), q)
<1>1. merger[m].todo \in SUBSET PosSet
  BY MergerIs DEF MergeStates
<1>2. NextPos(m) \in merger[m].todo /\ \A q \in merger[m].todo : q = NextPos(m) \/ Before(NextPos(m), q)
  BY <1>1, FirstPos, Zenon DEF NextPos
<1> QED BY <1>1, <1>2

LEMMA TypeMergeRecord ==
    ASSUME TypeIInv, NEW m \in Mergers, MergeRecord(m)
    PROVE  TypeInv'
<1> USE DEF TypeIInv
<1> DEFINE p == NextPos(m)
           r == At(segs, p)
           x == [r EXCEPT !.batchId = MergeFinishedBatchID]
           o == Rewritten(merger[m].out, x)
           here == mdir.exists /\ mdir.id = merger[m].dir
<1>1. /\ merger[m].pc = "scan" /\ merger[m].todo # {}
      /\ UNCHANGED <<segs, hint, fin, index, mode, walOpen, loader, closing, now, crashes, store>>
  BY MergeRecordCases
<1>2. /\ merger[m] \in MergeStates /\ merger[m].prev \in 1..(Active - 1) /\ merger[m].out # <<>>
  BY <1>1, MergerIs DEF Busy
<1>3. /\ mdir \in Dirs /\ mdir.fin < Active /\ loader \in Loads /\ loader.n < Active
      /\ mergeRunning \in BOOLEAN /\ walOpen \in Nat /\ segs \in Files
  BY DEF TypeInv, Typed, Beyond
<1>4. p \in merger[m].todo /\ p \in PosSet
  BY <1>1, NextPosIs
<1>5. CASE merger' = [merger EXCEPT ![m] = NoMerge] /\ mergeRunning' = FALSE /\ mdir' = mdir
  <2>1. NoMerge \in MergeStates /\ NoMerge.pc \notin Busy
    BY Empties DEF NoMerge, Busy
  <2> QED BY <1>1, <1>3, <1>5, <2>1, TypeMerger
<1>6. CASE /\ walOpen = merger[m].wal /\ walOpen # 0 /\ mergeRunning' = mergeRunning
           /\ merger' = [merger EXCEPT ![m] = [merger[m] EXCEPT !.todo = merger[m].todo \ {p}, !.out = o]]
           /\ mdir' = IF here THEN [mdir EXCEPT !.segs = o, !.hint = Append(mdir.hint, HintRecord(r.key, EndOf(o)))]
                      ELSE mdir
  <2>1. Has(segs, p)
    BY <1>1, <1>4, <1>6 DEF Reading
  <2>2. r \in LogRecords
    BY <2>1, <1>3, AtTyped
  <2>3. x \in LogRecords /\ r.key \in Keys
    BY <2>2 DEF LogRecords, MergeFinishedBatchID
  <2>4. merger[m].out \in Seq(Segments)
    BY <1>2 DEF MergeStates
  <2> HIDE DEF r, x, p
  <2>5. o \in Seq(Segments) /\ o # <<>> /\ EndOf(o) \in PosSet
    BY <2>3, <2>4, <1>2, RewrittenIs
  <2> HIDE DEF o
  <2>6. o \in Files
    BY <2>5, SequencesAreFiles
  <2>7. HintRecord(r.key, EndOf(o)) \in Hints
    BY <2>3, <2>5 DEF HintRecord, Hints
  <2>8. Append(mdir.hint, HintRecord(r.key, EndOf(o))) \in Seq(Hints)
    BY <2>7, <1>3 DEF Dirs
  <2>9. mdir' \in Dirs /\ mdir'.fin = mdir.fin
    BY <1>3, <1>6, <2>6, <2>8 DEF Dirs
  <2> DEFINE y == [merger[m] EXCEPT !.todo = merger[m].todo \ {p}, !.out = o]
  <2>10. y \in MergeStates /\ y.prev = merger[m].prev /\ y.out = o
    BY <1>2, <2>5 DEF MergeStates
  <2> HIDE DEF y
  <2>11. merger' = [merger EXCEPT ![m] = y]
    BY <1>6 DEF y
  <2>12. mdir'.fin < Active
    BY <2>9, <1>3
  <2> QED BY <1>1, <1>2, <1>3, <1>6, <2>5, <2>9, <2>10, <2>11, <2>12, TypeMerger
<1>7. CASE /\ mergeRunning' = mergeRunning
           /\ merger' = [merger EXCEPT ![m] = [merger[m] EXCEPT !.todo = merger[m].todo \ {p}]]
           /\ mdir' = mdir
  <2> DEFINE y == [merger[m] EXCEPT !.todo = merger[m].todo \ {p}]
  <2> HIDE DEF p
  <2>10. y \in MergeStates /\ y.prev = merger[m].prev /\ y.out = merger[m].out
    BY <1>2 DEF MergeStates
  <2> HIDE DEF y
  <2>11. merger' = [merger EXCEPT ![m] = y]
    BY <1>7 DEF y
  <2> QED BY <1>1, <1>2, <1>3, <1>7, <2>10, <2>11, TypeMerger
<1> QED BY <1>5, <1>6, <1>7, MergeRecordCases, Zenon

LEMMA TypeCreateMergeFin ==
    ASSUME TypeInv, NEW m \in Mergers, CreateMergeFin(m)
    PROVE  TypeInv'
<1> DEFINE x == [merger[m] EXCEPT !.pc = "fin"]
<1>1. merger' = [merger EXCEPT ![m] = x]
  BY DEF CreateMergeFin, TypeInv, Typed
<1>2. merger[m] \in MergeStates /\ merger[m].prev \in 1..(Active - 1) /\ merger[m].out # <<>>
  BY MergerIs DEF CreateMergeFin, Busy
<1>3. x \in MergeStates /\ x.prev = merger[m].prev /\ x.out = merger[m].out
  BY <1>2 DEF MergeStates, Pcs
<1> HIDE DEF x
<1>4. /\ mdir \in Dirs /\ mdir.fin < Active /\ loader \in Loads /\ loader.n < Active
      /\ mergeRunning \in BOOLEAN /\ walOpen \in Nat
  BY DEF TypeInv, Typed, Beyond
<1>5. mdir' \in Dirs /\ mdir'.fin = 0
  <2>1. CASE mdir.exists
    BY <2>1, <1>4 DEF CreateMergeFin, Dirs
  <2>2. CASE ~mdir.exists
    <3>1. mdir' = [NoDir EXCEPT !.exists = TRUE, !.id = Unused, !.fin = 0]
      BY <2>2 DEF CreateMergeFin
    <3> QED BY <3>1, Empties, UnusedIs DEF Dirs
  <2> QED BY <2>1, <2>2
<1>6. mdir'.fin < Active
  BY <1>5, ActiveNat
<1>7. UNCHANGED <<segs, hint, fin, index, now, crashes, store, loader, mode, closing, mergeRunning, walOpen>>
  BY DEF CreateMergeFin, disk, clocks
<1> QED BY <1>1, <1>2, <1>3, <1>4, <1>5, <1>6, <1>7, TypeMerger

LEMMA TypeWriteMergeFin ==
    ASSUME TypeInv, NEW m \in Mergers, WriteMergeFin(m)
    PROVE  TypeInv'
<1> DEFINE x == IF merger[m].reopen THEN [NoMerge EXCEPT !.pc = "lock"] ELSE NoMerge
<1>1. merger' = [merger EXCEPT ![m] = x]
  BY DEF WriteMergeFin
<1>2. merger[m] \in MergeStates /\ merger[m].prev \in 1..(Active - 1)
  BY MergerIs DEF WriteMergeFin, Busy
<1>3. x \in MergeStates /\ x.pc \notin Busy
  BY Empties DEF NoMerge, MergeStates, Pcs, Busy
<1> HIDE DEF x
<1>4. /\ mdir \in Dirs /\ mdir.fin < Active /\ loader \in Loads /\ loader.n < Active
      /\ walOpen \in Nat
  BY DEF TypeInv, Typed, Beyond
<1>5. mdir' \in Dirs /\ mdir'.fin < Active
  <2>1. merger[m].prev \in Nat /\ merger[m].prev < Active
    BY <1>2, ActiveNat
  <2>2. mdir' = [mdir EXCEPT !.fin = merger[m].prev] \/ mdir' = mdir
    BY DEF WriteMergeFin
  <2> QED BY <2>1, <2>2, <1>4 DEF Dirs
<1>6. mergeRunning' = FALSE
  BY DEF WriteMergeFin
<1>7. UNCHANGED <<segs, hint, fin, index, now, crashes, store, loader, mode, closing, walOpen>>
  BY DEF WriteMergeFin, disk, clocks
<1> QED BY <1>1, <1>3, <1>4, <1>5, <1>6, <1>7, TypeMerger

LEMMA LoadTyped ==
    ASSUME NEW w \in Mergers \cup {"open"}
    PROVE  /\ Load(w) \in Loads
           /\ Load(w).stage = "begin" /\ Load(w).who = w /\ Load(w).n = 0
<1>1. NoLoad \in Loads /\ NoLoad.n = 0
  BY Empties DEF NoLoad
<1> QED BY <1>1 DEF Load, Loads, Stages

LEMMA TypeMergeLock ==
    ASSUME TypeInv, NEW m \in Mergers, MergeLock(m)
    PROVE  TypeInv'
<1> DEFINE x == [merger[m] EXCEPT !.pc = "loading"]
<1>1. merger' = [merger EXCEPT ![m] = x]
  BY DEF MergeLock, TypeInv, Typed
<1>2. x \in MergeStates /\ x.pc \notin Busy
  BY MergerIs DEF MergeStates, Pcs, Busy
<1> HIDE DEF x
<1>3. loader' = Load(m) /\ walOpen' = 0
  BY DEF MergeLock, closeFiles
<1>4. loader' \in Loads /\ loader'.n < Active /\ loader'.stage = "begin"
  BY <1>3, LoadTyped, ActiveNat
<1>5. UNCHANGED <<segs, hint, fin, mdir, index, now, crashes, store, mode, closing, mergeRunning>>
  BY DEF MergeLock, disk, clocks
<1>6. mdir \in Dirs /\ mdir.fin < Active /\ mergeRunning \in BOOLEAN
  BY DEF TypeInv, Typed, Beyond
<1> QED BY <1>1, <1>2, <1>3, <1>4, <1>5, <1>6, TypeMerger

\* A step of a load that leaves the segments alone.
LEMMA TypeLoad ==
    ASSUME TypeInv, UNCHANGED <<segs, closing, mergeRunning, now, crashes, store>>,
           merger' \in [Mergers -> MergeStates],
           \A m \in Mergers : merger'[m] = merger[m] \/ merger'[m].pc \notin Busy,
           hint' \in Seq(Hints), fin' \in Nat, fin' < Active,
           mdir' \in Dirs, mdir'.fin < Active, index' \in [Keys -> PosSet \cup {NoPos}],
           mode' \in {"open", "closed", "down", "opening", "failed"}, walOpen' \in Nat,
           loader' \in Loads, loader'.n < Active,
           loader'.stage \in {"remove", "move"} => loader'.i \in 1..loader'.n
    PROVE  TypeInv'
<1>1. Typed'
  BY DEF TypeInv, Typed
<1>2. BeyondOf(Active, fin, mdir, loader, merger)
  BY DEF TypeInv, Beyond, BeyondOf
<1>3. BeyondOf(Active, fin', mdir', loader', merger')
  BY <1>2, Zenon DEF BeyondOf
<1>4. Beyond'
  BY <1>3, BeyondSame DEF TypeInv
<1> QED BY <1>1, <1>4 DEF TypeInv

LEMMA LoadFacts ==
    ASSUME TypeInv
    PROVE  /\ merger \in [Mergers -> MergeStates] /\ segs \in Files /\ hint \in Seq(Hints)
           /\ fin \in Nat /\ fin < Active /\ mdir \in Dirs /\ mdir.fin < Active
           /\ index \in [Keys -> PosSet \cup {NoPos}]
           /\ mode \in {"open", "closed", "down", "opening", "failed"} /\ walOpen \in Nat
           /\ loader \in Loads /\ loader.n < Active
           /\ loader.stage \in {"remove", "move"} => loader.i \in 1..loader.n
BY DEF TypeInv, Typed, Beyond

\* The goroutine that asked for a load ends its Merge.
LEMMA Returned ==
    ASSUME TypeInv, NEW h, h = IF loader.who = "open" THEN merger ELSE [merger EXCEPT ![loader.who] = NoMerge]
    PROVE  /\ h \in [Mergers -> MergeStates]
           /\ \A m \in Mergers : h[m] = merger[m] \/ h[m] = NoMerge
           /\ \A m \in Mergers : h[m].pc = merger[m].pc \/ h[m].pc = "idle"
           /\ \A m \in Mergers : h[m] = merger[m] \/ h[m].pc \notin Busy
<1>1. merger \in [Mergers -> MergeStates] /\ NoMerge \in MergeStates
  BY Empties DEF TypeInv, Typed
<1>2. h \in [Mergers -> MergeStates] /\ \A m \in Mergers : h[m] = merger[m] \/ h[m] = NoMerge
  BY <1>1
<1>3. NoMerge.pc = "idle" /\ NoMerge.pc \notin Busy
  BY DEF NoMerge, Busy
<1> QED BY <1>2, <1>3

LEMMA TypeLoadBegin ==
    ASSUME TypeInv, LoadBegin
    PROVE  TypeInv'
<1> USE LoadFacts
<1>1. UNCHANGED <<segs, hint, fin, index, closing, mergeRunning, walOpen, now, crashes, store>>
  BY DEF LoadBegin, disk, clocks
<1>2. CASE ~mdir.exists
  <2>1. loader' = [loader EXCEPT !.stage = "reopen"] /\ UNCHANGED <<mdir, mode, merger>>
    BY <1>2 DEF LoadBegin, Goto
  <2>2. loader' \in Loads /\ loader'.n = loader.n /\ loader'.stage = "reopen"
    BY <2>1 DEF Loads, Stages
  <2> QED BY <1>1, <2>1, <2>2, TypeLoad
<1>3. CASE mdir.exists /\ mdir.fin = 0
  <2>1. /\ mdir' = NoDir /\ loader' = NoLoad /\ mode' \in {"failed", mode}
        /\ merger' = IF loader.who = "open" THEN merger ELSE [merger EXCEPT ![loader.who] = NoMerge]
    BY <1>3 DEF LoadBegin, LoadFails
  <2>2. /\ mdir' \in Dirs /\ mdir'.fin < Active /\ loader' \in Loads /\ loader'.n < Active
        /\ loader'.stage = "idle"
    BY <2>1, Empties, ActiveNat DEF NoDir, NoLoad
  <2>3. mode' \in {"open", "closed", "down", "opening", "failed"}
    BY <2>1
  <2> QED BY <1>1, <2>1, <2>2, <2>3, TypeLoad, Returned
<1>4. CASE mdir.exists /\ mdir.fin # 0
  <2>1. /\ loader' = [loader EXCEPT !.n = IF mdir.fin < 0 THEN 0 ELSE mdir.fin, !.i = 1,
                                    !.stage = IF mdir.fin < 0 THEN "fin" ELSE "remove"]
        /\ UNCHANGED <<mdir, mode, merger>>
    BY <1>4 DEF LoadBegin
  <2>2. mdir.fin \in Nat \cup {-1}
    BY DEF Dirs
  <2> DEFINE n == IF mdir.fin < 0 THEN 0 ELSE mdir.fin
             s == IF mdir.fin < 0 THEN "fin" ELSE "remove"
  <2>3. n \in Nat /\ n < Active /\ s \in Stages /\ (s \in {"remove", "move"} => 1 \in 1..n)
    BY <2>2, <1>4, ActiveNat DEF Stages
  <2> HIDE DEF n, s
  <2>4. loader' = [loader EXCEPT !.n = n, !.i = 1, !.stage = s]
    BY <2>1 DEF n, s
  <2>5. loader' \in Loads /\ loader'.n = n /\ loader'.i = 1 /\ loader'.stage = s
    BY <2>3, <2>4 DEF Loads
  <2>6. loader'.n < Active /\ (loader'.stage \in {"remove", "move"} => loader'.i \in 1..loader'.n)
    BY <2>3, <2>5
  <2> QED BY <1>1, <2>1, <2>5, <2>6, TypeLoad
<1> QED BY <1>2, <1>3, <1>4

LEMMA TypeLoadMergeFin ==
    ASSUME TypeInv, LoadMergeFin
    PROVE  TypeInv'
<1> USE LoadFacts
<1>1. UNCHANGED <<segs, hint, index, mode, merger, closing, mergeRunning, walOpen, now, crashes, store>>
  BY DEF LoadMergeFin, clocks
<1>2. fin' \in Nat /\ fin' < Active
  BY DEF LoadMergeFin, Dirs
<1>3. mdir' \in Dirs /\ mdir'.fin = -1
  BY DEF LoadMergeFin, Dirs
<1>4. loader' \in Loads /\ loader'.n = loader.n /\ loader'.stage = "hint"
  BY DEF LoadMergeFin, Goto, Loads, Stages
<1>5. mdir'.fin < Active
  BY <1>3, ActiveNat
<1> QED BY <1>1, <1>2, <1>3, <1>4, <1>5, TypeLoad

LEMMA TypeLoadHint ==
    ASSUME TypeInv, LoadHint
    PROVE  TypeInv'
<1> USE LoadFacts
<1>1. UNCHANGED <<segs, fin, index, mode, merger, closing, mergeRunning, walOpen, now, crashes, store>>
  BY DEF LoadHint, clocks
<1>2. hint' \in Seq(Hints)
  BY DEF LoadHint, Dirs
<1>3. mdir' \in Dirs /\ mdir'.fin = mdir.fin
  <2>1. <<>> \in Seq(Hints) /\ mdir' = [mdir EXCEPT !.hasHint = FALSE, !.hint = <<>>]
    BY DEF LoadHint
  <2> QED BY <2>1 DEF Dirs
<1>4. loader' \in Loads /\ loader'.n = loader.n /\ loader'.stage = "rmdir"
  BY DEF LoadHint, Goto, Loads, Stages
<1> QED BY <1>1, <1>2, <1>3, <1>4, TypeLoad

LEMMA TypeLoadRemoveDir ==
    ASSUME TypeInv, LoadRemoveDir
    PROVE  TypeInv'
<1> USE LoadFacts
<1>1. UNCHANGED <<segs, hint, fin, index, mode, merger, closing, mergeRunning, walOpen, now, crashes, store>>
  BY DEF LoadRemoveDir, disk, clocks
<1>3. mdir' \in Dirs /\ mdir'.fin < Active
  BY Empties, ActiveNat DEF LoadRemoveDir, NoDir
<1>4. loader' \in Loads /\ loader'.n = loader.n /\ loader'.stage = "reopen"
  BY DEF LoadRemoveDir, Goto, Loads, Stages
<1> QED BY <1>1, <1>3, <1>4, TypeLoad

\* The index an Open or a Merge(true) rebuilds
LEMMA WALPosIs ==
    ASSUME TypeInv, NEW k \in Keys, NEW pos
    PROVE  /\ Later(segs, k, fin) = {} => WALPos(k, pos) = pos
           /\ Later(segs, k, fin) # {} =>
                 \E p \in Later(segs, k, fin) :
                    /\ \A q \in Later(segs, k, fin) : ~Before(p, q)
                    /\ WALPos(k, pos) = IF /\ At(segs, p).type = "Normal"
                                           /\ \/ At(segs, p).batchId = MergeFinishedBatchID
                                              \/ ~IsExpired(At(segs, p).expire, now)
                                        THEN p ELSE NoPos
<1> DEFINE ps == Later(segs, k, fin)
           x == CHOOSE p \in ps : \A q \in ps : ~Before(p, q)
<1>1. WALPos(k, pos) = IF ps = {} THEN pos
                       ELSE IF /\ At(segs, x).type = "Normal"
                               /\ \/ At(segs, x).batchId = MergeFinishedBatchID
                                  \/ ~IsExpired(At(segs, x).expire, now)
                            THEN x ELSE NoPos
  BY DEF WALPos, Later
<1>2. segs \in Files /\ fin \in Nat /\ Active \in Nat /\ \A s \in DOMAIN segs : s <= Active
  BY LoadFacts, ActiveNat
<1>3. ps \in SUBSET PosSet /\ \A p \in ps : p[1] <= Active
  BY <1>2, LaterIs DEF Has
<1> HIDE DEF ps
<1>4. ps # {} => x \in ps /\ \A q \in ps : ~Before(x, q)
  BY <1>2, <1>3, LastOfPos, Zenon
<1> HIDE DEF x
<1> QED BY <1>1, <1>4 DEF ps

LEMMA HintPosIs == \A k : HintPos(k) = HintIn(hint, k)
BY DEF HintPos, HintIn

LEMMA LoadIndexTyped ==
    ASSUME TypeInv
    PROVE  loadIndex \in [Keys -> PosSet \cup {NoPos}]
<1> SUFFICES ASSUME NEW k \in Keys PROVE WALPos(k, HintPos(k)) \in PosSet \cup {NoPos}
  BY DEF loadIndex
<1>1. HintPos(k) \in PosSet \cup {NoPos}
  BY HintPosIs, HintPosTyped, LoadFacts
<1>2. CASE Later(segs, k, fin) = {}
  BY <1>1, <1>2, WALPosIs
<1>3. CASE Later(segs, k, fin) # {}
  <2>1. PICK p \in Later(segs, k, fin) : WALPos(k, HintPos(k)) \in {p, NoPos}
    BY <1>3, WALPosIs
  <2>2. p \in PosSet
    BY LoadFacts, LaterIs DEF Has
  <2> QED BY <2>1, <2>2
<1> QED BY <1>2, <1>3

LEMMA TypeReopen ==
    ASSUME TypeInv, Reopen
    PROVE  TypeInv'
<1> USE LoadFacts
<1>1. UNCHANGED <<segs, hint, fin, mdir, closing, mergeRunning, now, crashes, store>>
  BY DEF Reopen, disk, clocks
<1>2. /\ index' = loadIndex /\ walOpen' = Unused /\ mode' \in {"open", mode} /\ loader' = NoLoad
      /\ merger' = IF loader.who = "open" THEN merger ELSE [merger EXCEPT ![loader.who] = NoMerge]
  BY DEF Reopen
<1>3. loader' \in Loads /\ loader'.n < Active /\ loader'.stage = "idle"
  BY <1>2, Empties, ActiveNat DEF NoLoad
<1>4. index' \in [Keys -> PosSet \cup {NoPos}] /\ walOpen' \in Nat
  BY <1>2, LoadIndexTyped, UnusedIs
<1>5. mode' \in {"open", "closed", "down", "opening", "failed"}
  BY <1>2
<1> QED BY <1>1, <1>2, <1>3, <1>4, <1>5, TypeLoad, Returned

\* Segments without the one with id i, and with i as another directory has it.
Without(f, i) == [s \in DOMAIN f \ {i} |-> f[s]]
With(f, i, x) == [s \in DOMAIN f \cup {i} |-> IF s = i THEN x ELSE f[s]]

LEMMA WithoutIs ==
    ASSUME NEW f \in Files, NEW i
    PROVE  /\ Without(f, i) \in Files
           /\ \A s : s \in DOMAIN Without(f, i) <=> s \in DOMAIN f /\ s # i
           /\ \A s \in DOMAIN f : s # i => Without(f, i)[s] = f[s]
<1>1. f \in [DOMAIN f -> Segments] /\ DOMAIN f \subseteq Nat \ {0}
  BY FilesDef
<1>2. /\ DOMAIN Without(f, i) = DOMAIN f \ {i}
      /\ \A s \in DOMAIN f : s # i => Without(f, i)[s] = f[s]
      /\ Without(f, i) \in [DOMAIN f \ {i} -> Segments]
  BY <1>1 DEF Without
<1>3. Without(f, i) \in Files
  BY <1>1, <1>2, FilesDef
<1> QED BY <1>2, <1>3

LEMMA WithIs ==
    ASSUME NEW f \in Files, NEW i \in Nat \ {0}, NEW x \in Segments
    PROVE  /\ With(f, i, x) \in Files
           /\ \A s : s \in DOMAIN With(f, i, x) <=> s \in DOMAIN f \/ s = i
           /\ With(f, i, x)[i] = x
           /\ \A s \in DOMAIN f : s # i => With(f, i, x)[s] = f[s]
<1>1. f \in [DOMAIN f -> Segments] /\ DOMAIN f \subseteq Nat \ {0}
  BY FilesDef
<1>2. /\ DOMAIN With(f, i, x) = DOMAIN f \cup {i}
      /\ With(f, i, x)[i] = x
      /\ \A s \in DOMAIN f : s # i => With(f, i, x)[s] = f[s]
      /\ With(f, i, x) \in [DOMAIN f \cup {i} -> Segments]
  BY <1>1 DEF With
<1>3. With(f, i, x) \in Files
  BY <1>1, <1>2, FilesDef
<1> QED BY <1>2, <1>3

\* A step of a load that changes segments below the active one.
LEMMA TypeLoadSegs ==
    ASSUME TypeInv, UNCHANGED <<hint, fin, index, mode, merger, walOpen, closing, mergeRunning, now, crashes, store>>,
           segs' \in Files, IsLast(segs', Active),
           mdir' \in Dirs, mdir'.fin < Active,
           loader' \in Loads, loader'.n < Active,
           loader'.stage \in {"remove", "move"} => loader'.i \in 1..loader'.n
    PROVE  TypeInv' /\ Active' = Active
<1>1. Typed'
  BY DEF TypeInv, Typed
<1>2. Active' = Active
  BY LastUnique, Zenon DEF Active
<1>3. BeyondOf(Active, fin, mdir, loader, merger)
  BY DEF TypeInv, Beyond, BeyondOf
<1>4. BeyondOf(Active, fin', mdir', loader', merger')
  BY <1>3, Zenon DEF BeyondOf
<1>5. Beyond'
  BY <1>2, <1>4 DEF Beyond, BeyondOf
<1> QED BY <1>1, <1>2, <1>5 DEF TypeInv

LEMMA TypeLoadRemove ==
    ASSUME TypeInv, LoadRemove
    PROVE  TypeInv'
<1> USE LoadFacts
<1>1. segs' = Without(segs, loader.i) /\ loader' = [loader EXCEPT !.stage = "move"] /\ mdir' = mdir
  BY DEF LoadRemove, Without, Goto
<1>2. loader.i \in 1..loader.n /\ loader.n \in Nat
  BY DEF LoadRemove, Loads
<1>3. /\ Active \in Nat /\ Active \in DOMAIN segs /\ \A s \in DOMAIN segs : s <= Active
      /\ Active # loader.i
  BY <1>2, ActiveNat
<1>4. segs' \in Files /\ IsLast(segs', Active)
  BY <1>1, <1>3, WithoutIs DEF IsLast
<1>5. loader' \in Loads /\ loader'.n = loader.n /\ loader'.i = loader.i
  BY <1>1 DEF Loads, Stages
<1>6. UNCHANGED <<hint, fin, index, mode, merger, walOpen, closing, mergeRunning, now, crashes, store>>
  BY DEF LoadRemove, clocks
<1> QED BY <1>1, <1>2, <1>4, <1>5, <1>6, TypeLoadSegs

\* LoadMove moves segment i, or passes over it.
Moves == loader.i \in DOMAIN mdir.segs /\ mdir.segs[loader.i] # <<>>

LEMMA LoadMoveIs ==
    ASSUME TypeInv, LoadMove
    PROVE  /\ loader.stage = "move"
           /\ segs' = IF Moves THEN With(segs, loader.i, mdir.segs[loader.i]) ELSE segs
           /\ mdir' = IF Moves THEN [mdir EXCEPT !.segs = Without(mdir.segs, loader.i)] ELSE mdir
           /\ loader' = [loader EXCEPT !.i = loader.i + 1,
                                       !.stage = IF loader.i < loader.n THEN "remove" ELSE "fin"]
           /\ UNCHANGED <<hint, fin, index, mode, merger, walOpen, closing, mergeRunning, now, crashes, store>>
<1>1. mdir \in Dirs
  BY LoadFacts
<1>2. CASE loader.i \in DOMAIN mdir.segs
  BY <1>1, <1>2 DEF LoadMove, Moves, With, Without, clocks, Dirs
<1>3. CASE loader.i \notin DOMAIN mdir.segs
  BY <1>1, <1>3 DEF LoadMove, Moves, With, Without, clocks, Dirs
<1> QED BY <1>2, <1>3

LEMMA TypeLoadMove ==
    ASSUME TypeInv, LoadMove
    PROVE  TypeInv'
<1> USE LoadFacts
<1>1. loader.i \in 1..loader.n /\ loader.n \in Nat
  BY LoadMoveIs DEF Loads
<1>2. /\ Active \in Nat /\ Active \in DOMAIN segs /\ \A s \in DOMAIN segs : s <= Active
      /\ loader.i < Active /\ loader.i \in Nat \ {0}
  BY <1>1, ActiveNat
<1>3. mdir.segs \in Files
  BY DEF Dirs
<1>4. /\ segs' \in Files /\ IsLast(segs', Active) /\ mdir' \in Dirs /\ mdir'.fin = mdir.fin
  <2>1. CASE Moves
    <3>1. mdir.segs[loader.i] \in Segments
      BY <2>1, <1>3, FilesDef DEF Moves
    <3>2. segs' \in Files /\ IsLast(segs', Active)
      BY <2>1, <3>1, <1>2, LoadMoveIs, WithIs DEF IsLast
    <3>3. Without(mdir.segs, loader.i) \in Files
      BY <1>3, WithoutIs
    <3>4. mdir' \in Dirs /\ mdir'.fin = mdir.fin
      BY <2>1, <3>3, LoadMoveIs DEF Dirs
    <3> QED BY <3>2, <3>4
  <2>2. CASE ~Moves
    BY <2>2, <1>2, LoadMoveIs DEF IsLast
  <2> QED BY <2>1, <2>2
<1>5. /\ loader' \in Loads /\ loader'.n = loader.n
      /\ loader'.stage \in {"remove", "move"} => loader'.i \in 1..loader'.n
  <2>1. loader' = [loader EXCEPT !.i = loader.i + 1, !.stage = IF loader.i < loader.n THEN "remove" ELSE "fin"]
    BY LoadMoveIs
  <2> DEFINE s == IF loader.i < loader.n THEN "remove" ELSE "fin"
             j == loader.i + 1
  <2>a. s \in Stages /\ j \in Nat
    BY <1>1 DEF Stages
  <2>b. loader' = [loader EXCEPT !.i = j, !.stage = s]
    BY <2>1
  <2> HIDE DEF s, j
  <2>c. loader'.n = loader.n /\ loader'.i = j /\ loader'.stage = s /\ loader' \in Loads
    BY <2>a, <2>b DEF Loads
  <2>2. /\ loader'.n = loader.n /\ loader'.i = loader.i + 1
        /\ loader'.stage = IF loader.i < loader.n THEN "remove" ELSE "fin"
        /\ loader' \in Loads
    BY <2>c DEF s, j
  <2> QED BY <2>2, <1>1
<1>6. mdir'.fin < Active /\ loader'.n < Active
  BY <1>4, <1>5
<1>7. UNCHANGED <<hint, fin, index, mode, merger, walOpen, closing, mergeRunning, now, crashes, store>>
  BY LoadMoveIs
<1> QED BY <1>4, <1>5, <1>6, <1>7, TypeLoadSegs

LEMMA TypeOpenStart ==
    ASSUME TypeInv, OpenStart
    PROVE  TypeInv'
<1> USE LoadFacts
<1>1. UNCHANGED <<segs, hint, fin, mdir, index, walOpen, merger, closing, mergeRunning, now, crashes, store>>
  BY DEF OpenStart, disk, clocks
<1>2. mode' = "opening" /\ loader' = Load("open")
  BY DEF OpenStart
<1>3. loader' \in Loads /\ loader'.n < Active /\ loader'.stage = "begin"
  BY <1>2, LoadTyped, ActiveNat
<1> QED BY <1>1, <1>2, <1>3, TypeLoad

\* The steps that change only the clock, the mode of the database or nothing.
LEMMA TypeOther ==
    ASSUME TypeInv, Tick \/ CloseWait \/ Close \/ UNCHANGED vars
    PROVE  TypeInv'
<1>1. UNCHANGED <<segs, hint, fin, mdir, index, merger, mergeRunning, loader, crashes, store>>
  BY DEF Tick, CloseWait, Close, vars, disk
<1>2. /\ now' \in Nat /\ closing' \in BOOLEAN /\ walOpen' \in Nat
      /\ mode' \in {"open", "closed", "down", "opening", "failed"}
  <2>1. CASE Tick
    BY <2>1 DEF Tick, TypeInv, Typed
  <2>2. CASE CloseWait
    BY <2>2, Zenon DEF CloseWait, TypeInv, Typed
  <2>3. CASE Close
    BY <2>3 DEF Close, TypeInv, Typed, closeFiles
  <2>4. CASE UNCHANGED vars
    BY <2>4, Zenon DEF vars, TypeInv, Typed
  <2> QED BY <2>1, <2>2, <2>3, <2>4
<1>3. Typed'
  BY <1>1, <1>2 DEF TypeInv, Typed
<1>4. BeyondOf(Active, fin', mdir', loader', merger')
  BY <1>1, Zenon DEF TypeInv, Beyond, BeyondOf
<1>5. Beyond'
  BY <1>1, <1>4, BeyondSame DEF TypeInv
<1> QED BY <1>3, <1>5 DEF TypeInv

\* What a process leaves that ends, by a crash or because Open failed.
LEMMA Ended ==
    ASSUME Crash \/ Exit
    PROVE  /\ mode' = "down" /\ closing' = FALSE /\ walOpen' = 0 /\ mergeRunning' = FALSE
           /\ index' = [k \in Keys |-> NoPos] /\ merger' = [m \in Mergers |-> NoMerge] /\ loader' = NoLoad
           /\ UNCHANGED <<segs, hint, fin, mdir, now, store>>
           /\ crashes' = crashes + 1 \/ crashes' = crashes
BY DEF Crash, Exit, ProcessEnds, disk

LEMMA TypeCrash ==
    ASSUME TypeInv, Crash \/ Exit
    PROVE  TypeInv'
<1> USE LoadFacts
<1>1. /\ UNCHANGED <<segs, hint, fin, mdir, now, store>>
      /\ crashes' = crashes + 1 \/ crashes' = crashes
      /\ mode' = "down" /\ closing' = FALSE /\ walOpen' = 0 /\ mergeRunning' = FALSE
      /\ index' = [k \in Keys |-> NoPos] /\ merger' = [m \in Mergers |-> NoMerge] /\ loader' = NoLoad
  BY Ended
<1>2. Typed'
  <2>1. merger' \in [Mergers -> MergeStates] /\ loader' \in Loads
    BY <1>1, Empties
  <2>2. index' \in [Keys -> PosSet \cup {NoPos}]
    BY <1>1
  <2>3. crashes' \in Nat /\ walOpen' \in Nat /\ mode' \in {"open", "closed", "down", "opening", "failed"}
    BY <1>1 DEF TypeInv, Typed
  <2>4. closing' \in BOOLEAN /\ mergeRunning' \in BOOLEAN
    BY <1>1, Zenon
  <2> QED BY <1>1, <2>1, <2>2, <2>3, <2>4, Zenon DEF TypeInv, Typed
<1>3. BeyondOf(Active, fin, mdir, loader, merger)
  BY DEF TypeInv, Beyond, BeyondOf
<1>4. \A m \in Mergers : merger'[m].pc \notin Busy
  BY <1>1 DEF NoMerge, Busy
<1>5. loader'.n = 0 /\ loader'.stage = "idle"
  BY <1>1 DEF NoLoad
<1>6. BeyondOf(Active, fin', mdir', loader', merger')
  BY <1>1, <1>3, <1>4, <1>5, ActiveNat DEF BeyondOf
<1>7. Beyond'
  BY <1>1, <1>6, BeyondSame DEF TypeInv
<1> QED BY <1>2, <1>7 DEF TypeInv

LEMMA TypeStep ==
    ASSUME TypeIInv, [Next]_vars
    PROVE  TypeInv'
<1>0. TypeInv /\ Typed
  BY DEF TypeIInv, TypeInv
<1>1. ASSUME NEW k \in Keys, NEW v \in Values, NEW ttl \in TTLs, PutTTL(k, v, ttl) PROVE TypeInv'
  BY <1>0, <1>1, WriteTyped, TypeWrite DEF PutTTL
<1>2. ASSUME NEW k \in Keys, Delete(k) PROVE TypeInv'
  BY <1>0, <1>2, WriteTyped, TypeWrite DEF Delete
<1>3. ASSUME NEW m \in Mergers, DoMerge(m) PROVE TypeInv'
  BY <1>0, <1>3, TypeMergeStart, TypeMergeNothing, TypeOpenMergeDB, TypeNewReader, TypeMergeRecord,
     TypeCreateMergeFin, TypeWriteMergeFin, TypeMergeLock DEF DoMerge, MergeRun
<1>4. ASSUME LoadStep PROVE TypeInv'
  BY <1>0, <1>4, TypeLoadBegin, TypeLoadRemove, TypeLoadMove, TypeLoadMergeFin, TypeLoadHint,
     TypeLoadRemoveDir, TypeReopen DEF LoadStep
<1> QED BY <1>0, <1>1, <1>2, <1>3, <1>4, TypeOpenStart, TypeOther, TypeCrash DEF Next
-----------------------------------------------------------------------------
(* What a merge reads                                                      *)

LEMMA ReadingMerger ==
    ASSUME TypeInv, Reading, NEW m \in Mergers, NEW x \in MergeStates,
           merger' = [merger EXCEPT ![m] = x],
           UNCHANGED <<mode, loader, walOpen>>,
           mode \in {"down", "opening", "failed"} => x.pc = "idle",
           \A p : Has(segs, p) => Has(segs', p),
           x.pc = "scan" /\ x.wal = walOpen /\ walOpen # 0 => \A p \in x.todo : Has(segs', p)
    PROVE  Reading'
<1>1. merger \in [Mergers -> MergeStates]
  BY DEF TypeInv, Typed
<1>2. merger'[m] = x /\ \A n \in Mergers : n # m => merger'[n] = merger[n]
  BY <1>1, MergerSet
<1>3. mode \in {"down", "opening", "failed"} => AllIdle'
  BY <1>2 DEF Reading, AllIdle
<1>4. ASSUME NEW n \in Mergers, merger'[n].pc = "scan", merger'[n].wal = walOpen', walOpen' # 0
      PROVE  \A p \in merger'[n].todo : Has(segs', p)
  <2>1. CASE n = m
    BY <2>1, <1>2, <1>4
  <2>2. CASE n # m
    BY <2>2, <1>2, <1>4 DEF Reading
  <2> QED BY <2>1, <2>2
<1> QED BY <1>3, <1>4 DEF Reading

LEMMA AddsKeeps ==
    ASSUME NEW f, NEW g, NEW p, NEW r, Adds(f, g, p, r)
    PROVE  \A q : Has(f, q) => Has(g, q)
BY DEF Adds, Has

LEMMA WriteAdds ==
    ASSUME TypeInv, NEW k, NEW r \in LogRecords, NEW e, Write(k, r, e)
    PROVE  \E p \in PosSet :
              /\ segs' \in Files /\ p[1] >= Active
              /\ Adds(segs, segs', p, [r EXCEPT !.batchId = 1])
              /\ index' = [index EXCEPT ![k] = IF r.type = "Deleted" \/ IsExpired(r.expire, now)
                                               THEN NoPos ELSE p]
<1> DEFINE x == [r EXCEPT !.batchId = 1]
<1>1. x \in LogRecords
  BY DEF LogRecords
<1> HIDE DEF x
<1>2. segs' = Appended(x)
  BY DEF Write, x
<1>3. segs \in Files /\ IsLast(segs, Active)
  BY DEF TypeInv, Typed, Beyond
<1>4. PICK p \in PosSet : /\ Appended(x) \in Files /\ p[1] >= Active
                          /\ LastPos(Appended(x)) = p /\ Adds(segs, Appended(x), p, x)
  BY <1>1, <1>3, AppendedIs
<1>5. segs' \in Files /\ LastPos(segs') = p /\ Adds(segs, segs', p, x)
  BY <1>2, <1>4
<1>6. index' = [index EXCEPT ![k] = IF r.type = "Deleted" \/ IsExpired(r.expire, now) THEN NoPos ELSE p]
  BY <1>5, Zenon DEF Write
<1> QED BY <1>4, <1>5, <1>6 DEF x

LEMMA ReadingWrite ==
    ASSUME TypeInv, Reading, NEW k \in Keys, NEW r \in LogRecords, NEW e \in Entries, Write(k, r, e)
    PROVE  Reading'
<1>0. PICK p \in PosSet : Adds(segs, segs', p, [r EXCEPT !.batchId = 1])
  BY WriteAdds
<1>1. \A q : Has(segs, q) => Has(segs', q)
  <2>1. \A f, g, x : Adds(f, g, p, x) => \A q : Has(f, q) => Has(g, q)
    BY AddsKeeps
  <2> QED BY <1>0, <2>1
<1>2. UNCHANGED <<mode, loader, walOpen, merger>>
  BY DEF Write
<1>3. AllIdle' = AllIdle
  BY <1>2 DEF AllIdle
<1> QED BY <1>1, <1>2, <1>3 DEF Reading

LEMMA BusyMode ==
    ASSUME Reading, NEW m \in Mergers, merger[m].pc # "idle"
    PROVE  mode \notin {"down", "opening", "failed"}
BY DEF Reading, AllIdle

LEMMA ReadingMerge ==
    ASSUME TypeInv, Reading, NEW m \in Mergers, DoMerge(m)
    PROVE  Reading'
<1> USE DEF Busy
<1>0. merger[m] \in MergeStates /\ merger \in [Mergers -> MergeStates] /\ segs \in Files
  BY MergerIs DEF TypeInv, Typed
<1>1. ASSUME NEW reopen \in Reopens, MergeStart(m, reopen) PROVE Reading'
  <2> DEFINE x == [NoMerge EXCEPT !.pc = "opendir", !.reopen = reopen, !.prev = Active]
  <2>1. /\ segs' = Rotated /\ merger' = [merger EXCEPT ![m] = x] /\ UNCHANGED <<mode, loader, walOpen>>
        /\ mode = "open"
    BY <1>1 DEF MergeStart, Rotated, Unlocked
  <2>2. x \in MergeStates /\ x.pc = "opendir"
    BY ActiveNat, Empties, MergeAssumption DEF NoMerge, MergeStates, Pcs
  <2>3. \A p : Has(segs, p) => Has(segs', p)
    BY <2>1, RotatedIs DEF TypeInv, Typed, Beyond, Has
  <2> HIDE DEF x
  <2> QED BY <2>1, <2>2, <2>3, ReadingMerger
<1>2. ASSUME MergeNothing(m) PROVE Reading'
  <2> DEFINE x == [NoMerge EXCEPT !.pc = "lock"]
  <2>1. /\ segs' = segs /\ merger' = [merger EXCEPT ![m] = x] /\ UNCHANGED <<mode, loader, walOpen>>
        /\ mode = "open"
    BY <1>2 DEF MergeNothing, disk, Unlocked
  <2>2. x \in MergeStates /\ x.pc = "lock"
    BY Empties DEF NoMerge, MergeStates, Pcs
  <2> HIDE DEF x
  <2> QED BY <2>1, <2>2, ReadingMerger
<1>3. ASSUME OpenMergeDB(m) PROVE Reading'
  <2> DEFINE x == [merger[m] EXCEPT !.pc = "reader", !.dir = Unused, !.out = <<<<>>>>]
  <2>1. /\ merger' = [merger EXCEPT ![m] = x] /\ UNCHANGED <<segs, mode, loader, walOpen>>
        /\ merger[m].pc = "opendir"
    BY <1>0, <1>3 DEF OpenMergeDB, disk
  <2>2. x \in MergeStates /\ x.pc = "reader"
    BY <1>0, UnusedIs, Empties DEF MergeStates, Pcs
  <2> HIDE DEF x
  <2> QED BY <2>1, <2>2, ReadingMerger, BusyMode
<1>4. ASSUME NewReader(m) PROVE Reading'
  <2> DEFINE ids == {s \in DOMAIN segs : s <= merger[m].prev}
             T == Positions(segs, ids)
             x == [merger[m] EXCEPT !.pc = "scan", !.start = now, !.wal = walOpen, !.todo = T]
  <2>1. /\ merger' = [merger EXCEPT ![m] = x] /\ UNCHANGED <<segs, mode, loader, walOpen>>
        /\ merger[m].pc = "reader"
    BY <1>0, <1>4 DEF NewReader, disk
  <2>2. T \in SUBSET PosSet /\ \A p \in T : p[1] \in DOMAIN segs /\ p[2] <= Len(segs[p[1]])
    BY <1>0, PositionsTyped DEF Positions
  <2>3. \A p \in T : Has(segs, p)
    BY <2>2 DEF Has
  <2> HIDE DEF T
  <2>4. x \in MergeStates /\ x.todo = T
    BY <1>0, <2>2 DEF MergeStates, Pcs, TypeInv, Typed
  <2> HIDE DEF x
  <2> QED BY <2>1, <2>3, <2>4, ReadingMerger, BusyMode
<1>5. ASSUME MergeRecord(m) PROVE Reading'
  <2>0. TypeIInv
    BY DEF TypeIInv
  <2>1. /\ UNCHANGED <<segs, mode, loader, walOpen>> /\ merger[m].pc = "scan"
        /\ merger' \in [Mergers -> MergeStates]
    BY <1>5, <2>0, MergeRecordCases, TypeMergeRecord DEF TypeInv, Typed
  <2>2. mode \notin {"down", "opening", "failed"}
    BY <2>1, BusyMode
  <2>3. PICK x : /\ merger' = [merger EXCEPT ![m] = x]
                 /\ x = NoMerge \/ (x.todo \subseteq merger[m].todo /\ x.wal = merger[m].wal)
    <3> DEFINE p == NextPos(m)
               r == At(segs, p)
               o == Rewritten(merger[m].out, [r EXCEPT !.batchId = MergeFinishedBatchID])
               y == [merger[m] EXCEPT !.todo = merger[m].todo \ {p}, !.out = o]
               z == [merger[m] EXCEPT !.todo = merger[m].todo \ {p}]
    <3>1. \/ merger' = [merger EXCEPT ![m] = NoMerge]
          \/ merger' = [merger EXCEPT ![m] = y]
          \/ merger' = [merger EXCEPT ![m] = z]
      BY <1>5, MergeRecordCases
    <3> HIDE DEF p, o
    <3>2. y.todo \subseteq merger[m].todo /\ y.wal = merger[m].wal
      BY <1>0 DEF MergeStates
    <3>3. z.todo \subseteq merger[m].todo /\ z.wal = merger[m].wal
      BY <1>0 DEF MergeStates
    <3> HIDE DEF y, z
    <3> QED BY <3>1, <3>2, <3>3
  <2>4. x \in MergeStates
    BY <2>1, <2>3, <1>0
  <2>5. x.pc = "scan" /\ x.wal = walOpen /\ walOpen # 0 => \A p \in x.todo : Has(segs', p)
    <3>1. NoMerge.pc # "scan"
      BY DEF NoMerge
    <3> QED BY <3>1, <2>1, <2>3 DEF Reading
  <2> QED BY <2>1, <2>2, <2>3, <2>4, <2>5, ReadingMerger
<1>6. ASSUME CreateMergeFin(m) PROVE Reading'
  <2> DEFINE x == [merger[m] EXCEPT !.pc = "fin"]
  <2>1. /\ merger' = [merger EXCEPT ![m] = x] /\ UNCHANGED <<segs, mode, loader, walOpen>>
        /\ merger[m].pc = "scan"
    BY <1>0, <1>6 DEF CreateMergeFin, disk
  <2>2. x \in MergeStates /\ x.pc = "fin"
    BY <1>0 DEF MergeStates, Pcs
  <2> HIDE DEF x
  <2> QED BY <2>1, <2>2, ReadingMerger, BusyMode
<1>7. ASSUME WriteMergeFin(m) PROVE Reading'
  <2> DEFINE x == IF merger[m].reopen THEN [NoMerge EXCEPT !.pc = "lock"] ELSE NoMerge
  <2>1. /\ merger' = [merger EXCEPT ![m] = x] /\ UNCHANGED <<segs, mode, loader, walOpen>>
        /\ merger[m].pc = "fin"
    BY <1>0, <1>7 DEF WriteMergeFin, disk
  <2>2. x \in MergeStates /\ x.pc # "scan"
    BY Empties DEF NoMerge, MergeStates, Pcs
  <2> HIDE DEF x
  <2> QED BY <2>1, <2>2, ReadingMerger, BusyMode
<1>8. ASSUME MergeLock(m) PROVE Reading'
  <2>1. loader' = Load(m) /\ walOpen' = 0 /\ mode' = mode /\ mode \in {"open", "closed"}
    BY <1>8 DEF MergeLock, closeFiles
  <2>2. loader'.who = m /\ m # "open"
    BY <2>1, LoadTyped, MergeAssumption
  <2> QED BY <2>1, <2>2 DEF Reading
<1> QED BY <1>1, <1>2, <1>3, <1>4, <1>5, <1>6, <1>7, <1>8 DEF DoMerge, MergeRun

LEMMA ReadingLoad ==
    ASSUME TypeInv, Reading, LoadStep
    PROVE  Reading'
<1>0. loader \in Loads /\ merger \in [Mergers -> MergeStates]
  BY DEF TypeInv, Typed
<1>1. ASSUME loader.stage # "idle", UNCHANGED <<mode, merger, walOpen>>, loader'.who = loader.who
      PROVE  Reading'
  <2>1. AllIdle' = AllIdle
    BY <1>1 DEF AllIdle
  <2>2. walOpen = 0 \/ AllIdle
    BY <1>1 DEF Reading
  <2>3. (walOpen = 0 \/ mode = "opening") /\ (loader.who = "open" => mode = "opening")
    BY <1>1 DEF Reading
  <2>4. \A m \in Mergers : ~(merger[m].pc = "scan" /\ walOpen # 0)
    BY <2>2 DEF AllIdle
  <2>5. mode \in {"down", "opening", "failed"} => AllIdle
    BY DEF Reading
  <2> QED BY <1>1, <2>1, <2>3, <2>4, <2>5 DEF Reading
<1>2. CASE LoadRemove \/ LoadMove \/ LoadMergeFin \/ LoadHint \/ LoadRemoveDir
  <2>1. loader.stage # "idle" /\ UNCHANGED <<mode, merger, walOpen>>
    BY <1>2 DEF LoadRemove, LoadMove, LoadMergeFin, LoadHint, LoadRemoveDir
  <2>2. loader'.who = loader.who
    BY <1>0, <1>2 DEF LoadRemove, LoadMove, LoadMergeFin, LoadHint, LoadRemoveDir, Goto, Loads
  <2> QED BY <1>1, <2>1, <2>2
<1>3. CASE LoadBegin /\ ~(mdir.exists /\ mdir.fin = 0)
  <2>1. loader.stage # "idle" /\ UNCHANGED <<mode, merger, walOpen>>
    BY <1>3 DEF LoadBegin
  <2>2. loader'.who = loader.who
    BY <1>0, <1>3 DEF LoadBegin, Goto, Loads
  <2> QED BY <1>1, <2>1, <2>2
<1>4. CASE LoadBegin /\ mdir.exists /\ mdir.fin = 0
  <2>1. /\ loader.stage = "begin" /\ loader' = NoLoad /\ walOpen' = walOpen
        /\ mode' = IF loader.who = "open" THEN "failed" ELSE mode
        /\ merger' = IF loader.who = "open" THEN merger ELSE [merger EXCEPT ![loader.who] = NoMerge]
    BY <1>4 DEF LoadBegin, LoadFails
  <2>2. \A m \in Mergers : merger'[m].pc = merger[m].pc \/ merger'[m].pc = "idle"
    BY <2>1, Returned
  <2>3. /\ walOpen = 0 \/ AllIdle
        /\ mode' \in {"down", "opening", "failed"} => AllIdle
    BY <2>1 DEF Reading
  <2>4. AllIdle => AllIdle'
    BY <2>2 DEF AllIdle
  <2>5. \A m \in Mergers : ~(merger'[m].pc = "scan" /\ walOpen' # 0)
    BY <2>1, <2>2, <2>3 DEF AllIdle
  <2>6. loader'.stage = "idle"
    BY <2>1 DEF NoLoad
  <2> QED BY <2>3, <2>4, <2>5, <2>6 DEF Reading
<1>5. CASE Reopen
  <2>1. /\ loader.stage = "reopen" /\ loader' = NoLoad /\ walOpen' = Unused
        /\ mode' = IF loader.who = "open" THEN "open" ELSE mode
        /\ merger' = IF loader.who = "open" THEN merger ELSE [merger EXCEPT ![loader.who] = NoMerge]
    BY <1>5 DEF Reopen
  <2>2. /\ \A m \in Mergers : merger'[m].pc = merger[m].pc \/ merger'[m].pc = "idle"
        /\ \A m \in Mergers : merger'[m] = merger[m] \/ merger'[m] = NoMerge
    BY <2>1, Returned
  <2>3. mode' \in {"down", "opening", "failed"} => AllIdle
    BY <2>1 DEF Reading
  <2>4. AllIdle => AllIdle'
    BY <2>2 DEF AllIdle
  <2>5. \A m \in Mergers : ~(merger'[m].pc = "scan" /\ merger'[m].wal = walOpen')
    <3>1. NoMerge.pc # "scan"
      BY DEF NoMerge
    <3> QED BY <3>1, <2>1, <2>2, UnusedIs
  <2>6. loader'.stage = "idle"
    BY <2>1 DEF NoLoad
  <2> QED BY <2>3, <2>4, <2>5, <2>6 DEF Reading
<1> QED BY <1>2, <1>3, <1>4, <1>5 DEF LoadStep

LEMMA ReadingOther ==
    ASSUME TypeInv, Reading, Tick \/ OpenStart \/ CloseWait \/ Close \/ Crash \/ Exit \/ UNCHANGED vars
    PROVE  Reading'
<1>1. CASE Tick \/ CloseWait \/ UNCHANGED vars
  <2>1. UNCHANGED <<segs, mode, walOpen, merger, loader>>
    BY <1>1 DEF Tick, CloseWait, vars, disk
  <2>2. AllIdle' = AllIdle
    BY <2>1 DEF AllIdle
  <2> QED BY <2>1, <2>2 DEF Reading
<1>2. CASE OpenStart
  <2>1. /\ AllIdle /\ merger' = merger /\ mode' = "opening"
    BY <1>2 DEF OpenStart, AllIdle
  <2>2. AllIdle'
    BY <2>1 DEF AllIdle
  <2> QED BY <2>1, <2>2 DEF Reading, AllIdle
<1>3. CASE Close
  <2>1. mode' = "closed" /\ walOpen' = 0 /\ loader' = loader /\ loader.stage = "idle"
    BY <1>3 DEF Close, closeFiles, Unlocked
  <2> QED BY <2>1 DEF Reading
<1>4. CASE Crash \/ Exit
  <2>1. mode' = "down" /\ walOpen' = 0 /\ loader' = NoLoad /\ merger' = [m \in Mergers |-> NoMerge]
    BY <1>4, Ended
  <2>2. AllIdle' /\ loader'.stage = "idle"
    BY <2>1 DEF AllIdle, NoMerge, NoLoad
  <2> QED BY <2>1, <2>2 DEF Reading
<1> QED BY <1>1, <1>2, <1>3, <1>4

LEMMA ReadingInit == Init => Reading
<1> SUFFICES ASSUME Init PROVE Reading
  OBVIOUS
<1>1. mode = "open" /\ loader.stage = "idle" /\ \A m \in Mergers : merger[m].pc = "idle"
  BY DEF Init, NoLoad, NoMerge
<1> QED BY <1>1 DEF Reading

LEMMA ReadingStep ==
    ASSUME TypeIInv, [Next]_vars
    PROVE  Reading'
<1>0. TypeInv /\ Typed /\ Reading
  BY DEF TypeIInv, TypeInv
<1>1. ASSUME NEW k \in Keys, NEW v \in Values, NEW ttl \in TTLs, PutTTL(k, v, ttl) PROVE Reading'
  BY <1>0, <1>1, WriteTyped, ReadingWrite DEF PutTTL
<1>2. ASSUME NEW k \in Keys, Delete(k) PROVE Reading'
  BY <1>0, <1>2, WriteTyped, ReadingWrite DEF Delete
<1> QED BY <1>0, <1>1, <1>2, ReadingMerge, ReadingLoad, ReadingOther DEF Next

LEMMA TypeImplied == TypeInv /\ LockTyped => TypeOK
<1> SUFFICES ASSUME TypeInv, LockTyped PROVE TypeOK
  OBVIOUS
<1>1. IsFile(segs) /\ IsFile(mdir.segs)
  BY FilesAreFiles DEF TypeInv, Typed, Dirs
<1>2. DOMAIN segs # {} /\ Active > fin
  BY ActiveNat DEF TypeInv, Typed, Beyond
<1>3. \A k \in Keys : index[k] = NoPos \/ index[k] \in (Nat \ {0}) \X (1..SegCap)
  BY DEF TypeInv, Typed, PosSet
<1>4. /\ \A m \in Mergers : merger[m].pc \in Pcs
      /\ loader.stage \in Stages
  BY DEF TypeInv, Typed, MergeStates, Loads
<1> QED BY <1>1, <1>2, <1>3, <1>4 DEF TypeOK, TypeInv, Typed, LockTyped

\* Only Open takes the file lock; Close and the end of the process release it.
LEMMA LockStep ==
    ASSUME LockTyped, [Next]_vars
    PROVE  LockTyped'
<1>1. ASSUME NEW m \in Mergers, DoMerge(m) PROVE fileLock' = fileLock
  BY <1>1 DEF DoMerge, MergeRun, MergeStart, MergeNothing, OpenMergeDB, NewReader, MergeRecord,
     CreateMergeFin, WriteMergeFin, MergeLock, clocks
<1>2. ASSUME LoadStep PROVE fileLock' = fileLock
  BY <1>2 DEF LoadStep, LoadBegin, LoadRemove, LoadMove, LoadMergeFin, LoadHint, LoadRemoveDir,
     Reopen, clocks
<1>3. ASSUME Tick \/ CloseWait \/ UNCHANGED vars PROVE fileLock' = fileLock
  BY <1>3 DEF Tick, CloseWait, vars
<1>4. ASSUME NEW k, NEW v, NEW ttl, PutTTL(k, v, ttl) \/ Delete(k) PROVE fileLock' = fileLock
  BY <1>4 DEF PutTTL, Delete, Write
<1>5. ASSUME OpenStart \/ Close \/ Crash \/ Exit PROVE fileLock' \in BOOLEAN
  BY <1>5 DEF OpenStart, Close, Crash, Exit, ProcessEnds
<1> QED BY <1>1, <1>2, <1>3, <1>4, <1>5 DEF Next, LockTyped

\* In every reachable state the segments, the index and the goroutines are of
\* their types and the active segment is beyond MERGEFIN: whatever Merge, Close,
\* Open and crashes do to each other, loadIndexFromWAL never skips the segment
\* the WAL appends to.
THEOREM TypeCorrect == Spec => []TypeOK
<1>1. Init => TypeIInv
  BY TypeInit, ReadingInit DEF TypeIInv
<1>2. TypeIInv /\ [Next]_vars => TypeIInv'
  BY TypeStep, ReadingStep DEF TypeIInv
<1>3. Init => LockTyped
  BY DEF Init, LockTyped
<1>4. LockTyped /\ [Next]_vars => LockTyped'
  BY LockStep
<1>5. TypeIInv /\ LockTyped => TypeOK
  BY TypeImplied DEF TypeIInv
<1> QED BY <1>1, <1>2, <1>3, <1>4, <1>5, PTL DEF Spec
-----------------------------------------------------------------------------
(* One merge at a time                                                     *)

LEMMA OwnFacts ==
    ASSUME OwnInv
    PROVE  /\ TypeIInv /\ TypeInv /\ Reading /\ Roles /\ Reopening /\ MergeDirOwned
           /\ merger \in [Mergers -> MergeStates] /\ loader \in Loads /\ mdir \in Dirs
BY DEF OwnInv, TypeIInv, TypeInv, Typed

\* A step of the goroutine whose merge is running.
LEMMA OwnBusy ==
    ASSUME OwnInv, NEW m \in Mergers, merger[m].pc \in Busy, NEW x,
           merger' = [merger EXCEPT ![m] = x], UNCHANGED <<loader, mode>>,
           mergeRunning' <=> x.pc \in Busy,
           x.pc \in {"lock", "loading"} \/ x.reopen => merger[m].reopen,
           x.pc \in {"reader", "scan", "fin"} => mdir'.exists /\ mdir'.id = x.dir
    PROVE  Roles' /\ Reopening' /\ MergeDirOwned'
<1> USE OwnFacts
<1>1. merger'[m] = x /\ \A n \in Mergers : n # m => merger'[n] = merger[n]
  OBVIOUS
<1>2. loader.stage = "idle"
  BY DEF Roles, Calm
<1>3. \A n \in Mergers : n # m => merger[n].pc \notin Busy
  BY DEF Roles
<1>4. Calm' <=> x.pc \notin Busy
  BY <1>1, <1>3 DEF Calm
<1>5. \A k, n \in Mergers : merger'[k].pc \in Busy /\ merger'[n].pc \in Busy => k = n
  BY <1>1, <1>3
<1>6. Roles'
  BY <1>2, <1>4, <1>5 DEF Roles
<1>7. Reopening'
  <2> SUFFICES ASSUME NEW n \in Mergers, merger'[n].pc \in {"lock", "loading"} \/ merger'[n].reopen
               PROVE  TRUE \in Reopens /\ \A k \in Mergers : n = k
    BY DEF Reopening
  <2>1. CASE n = m
    BY <2>1, <1>1 DEF Reopening
  <2>2. CASE n # m
    BY <2>2, <1>1 DEF Reopening
  <2> QED BY <2>1, <2>2
<1>8. MergeDirOwned'
  <2> SUFFICES ASSUME NEW n \in Mergers, merger'[n].pc \in {"reader", "scan", "fin"}
               PROVE  mdir'.exists /\ mdir'.id = merger'[n].dir
    BY DEF MergeDirOwned
  <2>1. n = m
    BY <1>1, <1>3 DEF Busy
  <2> QED BY <2>1, <1>1
<1> QED BY <1>6, <1>7, <1>8

LEMMA OwnMerge ==
    ASSUME OwnInv, OneReopener, NEW m \in Mergers, DoMerge(m)
    PROVE  Roles' /\ Reopening' /\ MergeDirOwned'
<1> USE OwnFacts
<1>0. merger[m] \in MergeStates
  BY MergerIs
<1>1. ASSUME NEW reopen \in Reopens, MergeStart(m, reopen) PROVE Roles' /\ Reopening' /\ MergeDirOwned'
  <2> DEFINE x == [NoMerge EXCEPT !.pc = "opendir", !.reopen = reopen, !.prev = Active]
  <2>1. /\ merger' = [merger EXCEPT ![m] = x] /\ UNCHANGED <<loader, mode, mdir>> /\ mergeRunning' = TRUE
        /\ loader.stage = "idle" /\ mode = "open" /\ ~mergeRunning
    BY <1>1 DEF MergeStart, Unlocked
  <2>2. x.pc = "opendir" /\ x.reopen = reopen
    BY DEF NoMerge
  <2> HIDE DEF x
  <2>3. merger'[m] = x /\ \A n \in Mergers : n # m => merger'[n] = merger[n]
    BY <2>1
  <2>4. Calm
    BY <2>1 DEF Roles
  <2>5. ~Calm' /\ \A k, n \in Mergers : merger'[k].pc \in Busy /\ merger'[n].pc \in Busy => k = n
    BY <2>2, <2>3, <2>4 DEF Calm, Busy
  <2>6. Roles'
    BY <2>1, <2>5 DEF Roles
  <2>7. reopen => TRUE \in Reopens /\ \A k, n \in Mergers : k = n
    <3>1. reopen \in BOOLEAN
      BY MergeAssumption
    <3> QED BY <3>1 DEF OneReopener
  <2>8. Reopening'
    <3> SUFFICES ASSUME NEW n \in Mergers, merger'[n].pc \in {"lock", "loading"} \/ merger'[n].reopen
                 PROVE  TRUE \in Reopens /\ \A k \in Mergers : n = k
      BY DEF Reopening
    <3>1. CASE n = m
      BY <3>1, <2>2, <2>3, <2>7
    <3>2. CASE n # m
      BY <3>2, <2>3 DEF Reopening
    <3> QED BY <3>1, <3>2
  <2>9. MergeDirOwned'
    BY <2>2, <2>3, <2>4 DEF MergeDirOwned, Calm, Busy
  <2> QED BY <2>6, <2>8, <2>9
<1>2. ASSUME MergeNothing(m) PROVE Roles' /\ Reopening' /\ MergeDirOwned'
  <2> DEFINE x == [NoMerge EXCEPT !.pc = "lock"]
  <2>1. /\ merger' = [merger EXCEPT ![m] = x] /\ UNCHANGED <<loader, mode, mdir, mergeRunning>>
        /\ loader.stage = "idle" /\ mode = "open" /\ merger[m].pc = "idle" /\ TRUE \in Reopens
    BY <1>2 DEF MergeNothing, Unlocked
  <2>2. x.pc = "lock"
    BY DEF NoMerge
  <2> HIDE DEF x
  <2>3. merger'[m] = x /\ \A n \in Mergers : n # m => merger'[n] = merger[n]
    BY <2>1
  <2>4. \A n \in Mergers : merger'[n].pc \in Busy <=> merger[n].pc \in Busy
    BY <2>1, <2>2, <2>3 DEF Busy
  <2>5. (Calm' <=> Calm) /\ \A k, n \in Mergers : merger'[k].pc \in Busy /\ merger'[n].pc \in Busy => k = n
    BY <2>4 DEF Calm, Roles
  <2>6. Roles'
    BY <2>1, <2>5 DEF Roles
  <2>7. \A k, n \in Mergers : k = n
    BY <2>1 DEF OneReopener
  <2>8. Reopening'
    BY <2>1, <2>7 DEF Reopening
  <2>9. MergeDirOwned'
    BY <2>1, <2>2, <2>3 DEF MergeDirOwned
  <2> QED BY <2>6, <2>8, <2>9
<1>3. ASSUME OpenMergeDB(m) PROVE Roles' /\ Reopening' /\ MergeDirOwned'
  <2> DEFINE x == [merger[m] EXCEPT !.pc = "reader", !.dir = Unused, !.out = <<<<>>>>]
  <2>1. /\ merger' = [merger EXCEPT ![m] = x] /\ UNCHANGED <<loader, mode>> /\ mergeRunning' = mergeRunning
        /\ merger[m].pc = "opendir"
    BY <1>3 DEF OpenMergeDB
  <2>2. mdir'.exists /\ mdir'.id = Unused
    BY <1>3 DEF OpenMergeDB, NoDir
  <2>3. x.pc = "reader" /\ x.reopen = merger[m].reopen /\ x.dir = Unused
    BY <1>0 DEF MergeStates
  <2> HIDE DEF x
  <2>4. merger[m].pc \in Busy /\ x.pc \in Busy /\ mergeRunning
    BY <2>1, <2>3 DEF Busy, Roles, Calm
  <2>5. mergeRunning' <=> x.pc \in Busy
    BY <2>1, <2>4 DEF TypeInv, Typed
  <2> QED BY <2>1, <2>2, <2>3, <2>4, <2>5, OwnBusy
<1>4. ASSUME NewReader(m) PROVE Roles' /\ Reopening' /\ MergeDirOwned'
  <2> DEFINE T == Positions(segs, {s \in DOMAIN segs : s <= merger[m].prev})
             x == [merger[m] EXCEPT !.pc = "scan", !.start = now, !.wal = walOpen, !.todo = T]
  <2>1. /\ merger' = [merger EXCEPT ![m] = x] /\ UNCHANGED <<loader, mode, mdir>> /\ mergeRunning' = mergeRunning
        /\ merger[m].pc = "reader"
    BY <1>4 DEF NewReader
  <2> HIDE DEF T
  <2>3. x.pc = "scan" /\ x.reopen = merger[m].reopen /\ x.dir = merger[m].dir
    BY <1>0 DEF MergeStates
  <2> HIDE DEF x
  <2>4. merger[m].pc \in Busy /\ x.pc \in Busy /\ mergeRunning
    BY <2>1, <2>3 DEF Busy, Roles, Calm
  <2>5. mergeRunning' <=> x.pc \in Busy
    BY <2>1, <2>4 DEF TypeInv, Typed
  <2>6. mdir'.exists /\ mdir'.id = x.dir
    BY <2>1, <2>3 DEF MergeDirOwned
  <2> QED BY <2>1, <2>3, <2>4, <2>5, <2>6, OwnBusy
<1>5. ASSUME MergeRecord(m) PROVE Roles' /\ Reopening' /\ MergeDirOwned'
  <2> DEFINE p == NextPos(m)
             r == At(segs, p)
             o == Rewritten(merger[m].out, [r EXCEPT !.batchId = MergeFinishedBatchID])
             y == [merger[m] EXCEPT !.todo = merger[m].todo \ {p}, !.out = o]
             z == [merger[m] EXCEPT !.todo = merger[m].todo \ {p}]
  <2>1. merger[m].pc = "scan" /\ UNCHANGED <<loader, mode>>
    BY <1>5, MergeRecordCases
  <2>2. /\ \/ merger' = [merger EXCEPT ![m] = NoMerge] /\ mergeRunning' = FALSE
           \/ mergeRunning' = mergeRunning /\ merger' = [merger EXCEPT ![m] = y]
           \/ mergeRunning' = mergeRunning /\ merger' = [merger EXCEPT ![m] = z]
        /\ \/ mdir' = mdir
           \/ mdir' = [mdir EXCEPT !.segs = o, !.hint = Append(mdir.hint, HintRecord(r.key, EndOf(o)))]
    BY <1>5, MergeRecordCases
  <2> HIDE DEF p, o, r
  <2>3. mdir'.exists = mdir.exists /\ mdir'.id = mdir.id
    BY <2>2 DEF Dirs
  <2>4. /\ y.pc = "scan" /\ y.reopen = merger[m].reopen /\ y.dir = merger[m].dir
        /\ z.pc = "scan" /\ z.reopen = merger[m].reopen /\ z.dir = merger[m].dir
    BY <1>0, <2>1 DEF MergeStates
  <2> HIDE DEF y, z
  <2>5. NoMerge.pc = "idle" /\ NoMerge.reopen = FALSE /\ "idle" \notin Busy /\ "scan" \in Busy
    BY DEF NoMerge, Busy
  <2>6. mergeRunning = TRUE
    BY <2>1, <2>5 DEF Roles, Calm, TypeInv, Typed
  <2>7. mdir'.exists /\ mdir'.id = merger[m].dir
    BY <2>1, <2>3 DEF MergeDirOwned
  <2>8. CASE merger' = [merger EXCEPT ![m] = NoMerge] /\ mergeRunning' = FALSE
    <3>1. mergeRunning' <=> NoMerge.pc \in Busy
      BY <2>5, <2>8
    <3>2. merger[m].pc \in Busy /\ ~(NoMerge.pc \in {"lock", "loading"} \/ NoMerge.reopen)
          /\ NoMerge.pc \notin {"reader", "scan", "fin"}
      BY <2>1, <2>5
    <3> QED BY <2>1, <2>8, <3>1, <3>2, OwnBusy
  <2>9. CASE mergeRunning' = mergeRunning /\ merger' = [merger EXCEPT ![m] = y]
    BY <2>1, <2>4, <2>5, <2>6, <2>7, <2>9, OwnBusy
  <2>10. CASE mergeRunning' = mergeRunning /\ merger' = [merger EXCEPT ![m] = z]
    BY <2>1, <2>4, <2>5, <2>6, <2>7, <2>10, OwnBusy
  <2> QED BY <2>2, <2>8, <2>9, <2>10
<1>6. ASSUME CreateMergeFin(m) PROVE Roles' /\ Reopening' /\ MergeDirOwned'
  <2> DEFINE x == [merger[m] EXCEPT !.pc = "fin"]
  <2>1. /\ merger' = [merger EXCEPT ![m] = x] /\ UNCHANGED <<loader, mode>> /\ mergeRunning' = mergeRunning
        /\ merger[m].pc = "scan"
    BY <1>6 DEF CreateMergeFin
  <2>3. x.pc = "fin" /\ x.reopen = merger[m].reopen /\ x.dir = merger[m].dir
    BY <1>0 DEF MergeStates
  <2> HIDE DEF x
  <2>4. merger[m].pc \in Busy /\ x.pc \in Busy /\ mergeRunning
    BY <2>1, <2>3 DEF Busy, Roles, Calm
  <2>5. mergeRunning' <=> x.pc \in Busy
    BY <2>1, <2>4 DEF TypeInv, Typed
  <2>6. mdir.exists /\ mdir.id = x.dir
    BY <2>1, <2>3 DEF MergeDirOwned
  <2>7. mdir'.exists /\ mdir'.id = x.dir
    BY <2>6, <1>6 DEF CreateMergeFin, Dirs
  <2> QED BY <2>1, <2>3, <2>4, <2>5, <2>7, OwnBusy
<1>7. ASSUME WriteMergeFin(m) PROVE Roles' /\ Reopening' /\ MergeDirOwned'
  <2> DEFINE x == IF merger[m].reopen THEN [NoMerge EXCEPT !.pc = "lock"] ELSE NoMerge
  <2>1. /\ merger' = [merger EXCEPT ![m] = x] /\ UNCHANGED <<loader, mode>> /\ mergeRunning' = FALSE
        /\ merger[m].pc = "fin"
    BY <1>7 DEF WriteMergeFin
  <2>2. /\ x.pc \in {"lock", "idle"} /\ (x.pc = "lock" => merger[m].reopen) /\ x.reopen = FALSE
    BY DEF NoMerge
  <2> HIDE DEF x
  <2>3. merger[m].pc \in Busy /\ x.pc \notin Busy /\ x.pc \notin {"reader", "scan", "fin", "loading"}
    BY <2>1, <2>2 DEF Busy
  <2>4. mergeRunning' <=> x.pc \in Busy
    BY <2>1, <2>3
  <2>5. x.pc \in {"lock", "loading"} \/ x.reopen => merger[m].reopen
    BY <2>2, <2>3
  <2> QED BY <2>1, <2>3, <2>4, <2>5, OwnBusy
<1>8. ASSUME MergeLock(m) PROVE Roles' /\ Reopening' /\ MergeDirOwned'
  <2>1. /\ loader' = Load(m) /\ UNCHANGED <<mode, mergeRunning, mdir>> /\ mode \in {"open", "closed"}
        /\ merger[m].pc = "lock" /\ merger' = [merger EXCEPT ![m].pc = "loading"]
    BY <1>8 DEF MergeLock
  <2>2. merger'[m].pc = "loading"
    BY <2>1, <1>0 DEF MergeStates
  <2>3. TRUE \in Reopens /\ \A k, n \in Mergers : k = n
    BY <2>1 DEF Reopening
  <2>4. Calm /\ Calm'
    BY <2>1, <2>2, <2>3 DEF Calm, Busy
  <2>5. loader'.who = m /\ loader'.stage = "begin"
    BY <2>1, LoadTyped
  <2>6. Roles'
    BY <2>1, <2>2, <2>3, <2>4, <2>5 DEF Roles
  <2>7. Reopening'
    BY <2>3 DEF Reopening
  <2>8. MergeDirOwned'
    BY <2>4 DEF MergeDirOwned, Calm, Busy
  <2> QED BY <2>6, <2>7, <2>8
<1> QED BY <1>1, <1>2, <1>3, <1>4, <1>5, <1>6, <1>7, <1>8 DEF DoMerge, MergeRun

LEMMA OwnLoad ==
    ASSUME OwnInv, LoadStep
    PROVE  Roles' /\ Reopening' /\ MergeDirOwned'
<1> USE OwnFacts
<1>0. loader.stage # "idle" /\ mergeRunning' = mergeRunning
  BY DEF LoadStep, LoadBegin, LoadRemove, LoadMove, LoadMergeFin, LoadHint, LoadRemoveDir, Reopen
<1>1. Calm /\ ~mergeRunning
  BY <1>0 DEF Roles
<1>2. ASSUME Calm' PROVE MergeDirOwned'
  BY <1>2 DEF MergeDirOwned, Calm, Busy
<1>3. ASSUME UNCHANGED <<mode, merger>>, loader'.who = loader.who, loader'.stage # "idle"
      PROVE  Roles' /\ Reopening' /\ MergeDirOwned'
  <2>1. Calm'
    BY <1>1, <1>3 DEF Calm
  <2>2. \A k, n \in Mergers : merger'[k].pc \in Busy /\ merger'[n].pc \in Busy => k = n
    BY <1>3 DEF Roles
  <2>3. Roles'
    BY <1>0, <1>1, <1>3, <2>1, <2>2 DEF Roles
  <2>4. Reopening'
    BY <1>3 DEF Reopening
  <2> QED BY <1>2, <2>1, <2>3, <2>4
<1>4. ASSUME loader' = NoLoad, mode' # "opening",
             merger' = IF loader.who = "open" THEN merger ELSE [merger EXCEPT ![loader.who] = NoMerge]
      PROVE  Roles' /\ Reopening' /\ MergeDirOwned'
  <2>1. \A n \in Mergers : merger'[n] = merger[n] \/ merger'[n] = NoMerge
    BY <1>4, Returned
  <2>2. NoMerge.pc = "idle" /\ NoMerge.reopen = FALSE
    BY DEF NoMerge
  <2>3. \A n \in Mergers : merger'[n].pc \notin Busy
    BY <1>1, <2>1, <2>2 DEF Calm, Busy
  <2>4. Calm'
    BY <2>3 DEF Calm
  <2>5. loader'.stage = "idle"
    BY <1>4 DEF NoLoad
  <2>6. Roles'
    BY <1>0, <1>1, <1>4, <2>3, <2>4, <2>5 DEF Roles
  <2>7. Reopening'
    BY <2>1, <2>2 DEF Reopening
  <2> QED BY <1>2, <2>4, <2>6, <2>7
<1>5. loader.who # "open" => mode # "opening"
  BY <1>0, BusyMode DEF Roles
<1>6. CASE LoadRemove \/ LoadMove \/ LoadMergeFin \/ LoadHint \/ LoadRemoveDir
  <2>1. UNCHANGED <<mode, merger>>
    BY <1>6 DEF LoadRemove, LoadMove, LoadMergeFin, LoadHint, LoadRemoveDir
  <2>2. loader'.who = loader.who /\ loader'.stage # "idle"
    BY <1>6 DEF LoadRemove, LoadMove, LoadMergeFin, LoadHint, LoadRemoveDir, Goto, Loads
  <2> QED BY <1>3, <2>1, <2>2
<1>7. CASE LoadBegin /\ ~(mdir.exists /\ mdir.fin = 0)
  <2>1. UNCHANGED <<mode, merger>>
    BY <1>7 DEF LoadBegin
  <2>2. loader'.who = loader.who /\ loader'.stage # "idle"
    BY <1>7 DEF LoadBegin, Goto, Loads
  <2> QED BY <1>3, <2>1, <2>2
<1>8. CASE LoadBegin /\ mdir.exists /\ mdir.fin = 0
  BY <1>4, <1>5, <1>8 DEF LoadBegin, LoadFails
<1>9. CASE Reopen
  BY <1>4, <1>5, <1>9 DEF Reopen
<1> QED BY <1>6, <1>7, <1>8, <1>9 DEF LoadStep

LEMMA OwnOther ==
    ASSUME OwnInv, \/ Tick \/ OpenStart \/ CloseWait \/ Close \/ Crash \/ Exit \/ UNCHANGED vars
                   \/ \E k \in Keys, r \in LogRecords, e \in Entries : Write(k, r, e)
    PROVE  Roles' /\ Reopening' /\ MergeDirOwned'
<1> USE OwnFacts
<1>1. CASE UNCHANGED <<merger, mergeRunning, loader, mdir>> /\ mode' \in {mode, "closed"}
  <2>1. Calm' <=> Calm
    BY <1>1 DEF Calm
  <2>2. Roles'
    BY <1>1, <2>1 DEF Roles
  <2>3. Reopening' /\ MergeDirOwned'
    BY <1>1 DEF Reopening, MergeDirOwned
  <2> QED BY <2>2, <2>3
<1>2. CASE OpenStart
  <2>1. UNCHANGED <<merger, mergeRunning, mdir>> /\ loader' = Load("open") /\ mode' = "opening" /\ AllIdle
    BY <1>2 DEF OpenStart, AllIdle
  <2>2. Calm /\ Calm'
    BY <2>1 DEF Calm, AllIdle, Busy
  <2>3. loader'.stage = "begin" /\ loader'.who = "open"
    BY <2>1, LoadTyped
  <2>4. Roles'
    BY <2>1, <2>2, <2>3 DEF Roles
  <2>5. Reopening' /\ MergeDirOwned'
    BY <2>1 DEF Reopening, MergeDirOwned
  <2> QED BY <2>4, <2>5
<1>3. CASE Crash \/ Exit
  <2>1. mergeRunning' = FALSE /\ loader' = NoLoad /\ mode' = "down" /\ merger' = [n \in Mergers |-> NoMerge]
    BY <1>3, Ended
  <2>2. \A n \in Mergers : merger'[n].pc = "idle" /\ merger'[n].reopen = FALSE
    BY <2>1 DEF NoMerge
  <2>3. Calm' /\ loader'.stage = "idle"
    BY <2>1, <2>2 DEF Calm, Busy, NoLoad
  <2>4. Roles'
    BY <2>1, <2>2, <2>3 DEF Roles, Busy
  <2>5. Reopening' /\ MergeDirOwned'
    BY <2>2 DEF Reopening, MergeDirOwned
  <2> QED BY <2>4, <2>5
<1> QED BY <1>1, <1>2, <1>3 DEF Tick, CloseWait, Close, vars, Write

LEMMA OwnInit == Init => OwnInv
<1> SUFFICES ASSUME Init PROVE OwnInv
  OBVIOUS
<1>1. /\ mode = "open" /\ mergeRunning = FALSE /\ loader.stage = "idle"
      /\ \A m \in Mergers : merger[m].pc = "idle" /\ merger[m].reopen = FALSE
  BY DEF Init, NoLoad, NoMerge
<1>2. Calm
  BY <1>1 DEF Calm, Busy
<1>3. Roles
  BY <1>1, <1>2 DEF Roles, Busy
<1>4. Reopening /\ MergeDirOwned
  BY <1>1 DEF Reopening, MergeDirOwned
<1> QED BY <1>3, <1>4, TypeInit, ReadingInit DEF OwnInv, TypeIInv

LEMMA OwnStep ==
    ASSUME OneReopener, OwnInv, [Next]_vars
    PROVE  OwnInv'
<1>0. TypeIInv /\ Typed
  BY DEF OwnInv, TypeIInv, TypeInv
<1>1. TypeIInv'
  BY <1>0, TypeStep, ReadingStep DEF TypeIInv
<1>2. ASSUME NEW k \in Keys, NEW v \in Values, NEW ttl \in TTLs, PutTTL(k, v, ttl)
      PROVE  \E l \in Keys, r \in LogRecords, e \in Entries : Write(l, r, e)
  BY <1>0, <1>2, WriteTyped DEF PutTTL
<1>3. ASSUME NEW k \in Keys, Delete(k)
      PROVE  \E l \in Keys, r \in LogRecords, e \in Entries : Write(l, r, e)
  BY <1>0, <1>3, WriteTyped DEF Delete
<1>4. Roles' /\ Reopening' /\ MergeDirOwned'
  BY <1>2, <1>3, OwnMerge, OwnLoad, OwnOther DEF Next
<1> QED BY <1>1, <1>4 DEF OwnInv

\* As long as no two goroutines reopen the files (one calls Merge, or none passes
\* true), the merge that is running owns the merge directory: mergeRunning, which
\* doMerge resets before Merge(true) takes db.mu, is enough, wherever Close and
\* crashes come in.
THEOREM MergeOwnsItsDirectory ==
    ASSUME OneReopener
    PROVE  Spec => []MergeDirOwned
<1>1. Init => OwnInv
  BY OwnInit
<1>2. OwnInv /\ [Next]_vars => OwnInv'
  BY OwnStep
<1>3. OwnInv => MergeDirOwned
  BY DEF OwnInv
<1> QED BY <1>1, <1>2, <1>3, PTL DEF Spec
-----------------------------------------------------------------------------
(* Nothing is lost: what the files say of the keys                         *)

\* Every record of f is where it was in g.
Keeps(f, g) == \A q : Has(f, q) => Has(g, q) /\ At(g, q) = At(f, q)

\* f and g have the same records above segment c.
SameAbove(f, g, c) ==
    \A q \in PosSet : q[1] > c => (Has(f, q) <=> Has(g, q)) /\ (Has(f, q) => At(g, q) = At(f, q))

LEMMA AddsKeepsAll ==
    ASSUME NEW f, NEW g, NEW p, NEW r, Adds(f, g, p, r)
    PROVE  Keeps(f, g)
BY DEF Adds, Keeps, Has

LEMMA ShowsKept ==
    ASSUME NEW f, NEW g, Keeps(f, g), NEW p, NEW k, NEW e, Shows(f, p, k, e)
    PROVE  Shows(g, p, k, e)
BY DEF Keeps, Shows

LEMMA DeadLater ==
    ASSUME NEW e \in Entries, NEW t \in Nat, NEW u \in Nat, t <= u, Dead(e, t)
    PROVE  Dead(e, u)
BY DEF Dead, IsExpired, Entries

LEMMA LaterAdds ==
    ASSUME NEW f \in Files, NEW g \in Files, NEW p \in PosSet, NEW r, Adds(f, g, p, r), NEW c \in Nat, NEW k
    PROVE  /\ r.key = k /\ p[1] > c => Later(g, k, c) = Later(f, k, c) \cup {p}
           /\ r.key # k => Later(g, k, c) = Later(f, k, c)
           /\ Later(f, k, c) \subseteq Later(g, k, c)
<1>1. ASSUME NEW q \in PosSet
      PROVE  q \in Later(g, k, c) <=> q \in Later(f, k, c) \/ (q = p /\ r.key = k /\ p[1] > c)
  <2>1. q \in Later(g, k, c) <=> Has(g, q) /\ q[1] > c /\ At(g, q).key = k
    BY LaterIs
  <2>2. q \in Later(f, k, c) <=> Has(f, q) /\ q[1] > c /\ At(f, q).key = k
    BY LaterIs
  <2>3. (Has(g, q) <=> Has(f, q) \/ q = p) /\ (Has(f, q) => At(g, q) = At(f, q))
    BY DEF Adds
  <2>4. Has(g, p) /\ At(g, p) = r
    BY DEF Adds
  <2> QED BY <2>1, <2>2, <2>3, <2>4
<1>2. Later(g, k, c) \subseteq PosSet /\ Later(f, k, c) \subseteq PosSet
  BY LaterIs DEF Has
<1> QED BY <1>1, <1>2

LEMMA LaterSame ==
    ASSUME NEW f \in Files, NEW g \in Files, NEW c \in Nat, SameAbove(f, g, c), NEW k
    PROVE  Later(g, k, c) = Later(f, k, c) /\ \A p \in Later(f, k, c) : At(g, p) = At(f, p)
<1>1. ASSUME NEW q \in PosSet
      PROVE  /\ q \in Later(g, k, c) <=> q \in Later(f, k, c)
             /\ q \in Later(f, k, c) => At(g, q) = At(f, q)
  <2>1. q \in Later(g, k, c) <=> Has(g, q) /\ q[1] > c /\ At(g, q).key = k
    BY LaterIs
  <2>2. q \in Later(f, k, c) <=> Has(f, q) /\ q[1] > c /\ At(f, q).key = k
    BY LaterIs
  <2> QED BY <2>1, <2>2 DEF SameAbove
<1>2. Later(g, k, c) \subseteq PosSet /\ Later(f, k, c) \subseteq PosSet
  BY LaterIs DEF Has
<1> QED BY <1>1, <1>2

LEMMA LogSame ==
    ASSUME NEW f \in Files, NEW g \in Files, NEW c \in Nat, SameAbove(f, g, c), NEW st, LogOK(f, c, st)
    PROVE  LogOK(g, c, st)
<1> SUFFICES ASSUME NEW k \in Keys, NEW p \in Later(g, k, c), \A q \in Later(g, k, c) : ~Before(p, q)
             PROVE  Tells(At(g, p), st[k])
  BY DEF LogOK
<1>1. Later(g, k, c) = Later(f, k, c) /\ At(g, p) = At(f, p)
  BY LaterSame
<1> QED BY <1>1 DEF LogOK

\* A later cut leaves less to replay.
LEMMA LogCut ==
    ASSUME NEW f \in Files, NEW c \in Nat, NEW d \in Nat, c <= d, NEW st, LogOK(f, c, st)
    PROVE  LogOK(f, d, st)
<1> SUFFICES ASSUME NEW k \in Keys, NEW p \in Later(f, k, d), \A q \in Later(f, k, d) : ~Before(p, q)
             PROVE  Tells(At(f, p), st[k])
  BY DEF LogOK
<1>1. Has(f, p) /\ p[1] > d /\ At(f, p).key = k /\ p[1] \in Nat
  BY LaterIs, PosPair DEF Has
<1>2. p \in Later(f, k, c)
  BY <1>1, LaterIs
<1>3. ASSUME NEW q \in Later(f, k, c) PROVE ~Before(p, q)
  <2>1. Has(f, q) /\ At(f, q).key = k /\ q[1] \in Nat
    BY LaterIs, PosPair DEF Has
  <2>2. CASE q[1] > d
    BY <2>1, <2>2, LaterIs
  <2>3. CASE ~(q[1] > d)
    BY <2>1, <2>3, <1>1 DEF Before
  <2> QED BY <2>2, <2>3
<1> QED BY <1>2, <1>3 DEF LogOK

\* A write at the end of the log.
LEMMA LogWrite ==
    ASSUME NEW f \in Files, NEW g \in Files, NEW p \in PosSet, NEW r, Adds(f, g, p, r),
           NEW c \in Nat, p[1] > c, NEW st \in [Keys -> Entries], NEW k \in Keys, r.key = k,
           NEW e, Tells(r, e), LogOK(f, c, st)
    PROVE  LogOK(g, c, [st EXCEPT ![k] = e])
<1> DEFINE su == [st EXCEPT ![k] = e]
<1> SUFFICES ASSUME NEW l \in Keys, NEW q \in Later(g, l, c), \A x \in Later(g, l, c) : ~Before(q, x)
             PROVE  Tells(At(g, q), su[l])
  BY DEF LogOK
<1>1. CASE l = k
  <2>1. Later(g, l, c) = Later(f, l, c) \cup {p}
    BY <1>1, LaterAdds
  <2>2. q = p
    <3>1. ASSUME q \in Later(f, l, c) PROVE FALSE
      <4>1. Has(f, q) /\ q \in PosSet
        BY <3>1, LaterIs DEF Has
      <4>2. Before(q, p)
        BY <4>1 DEF Adds
      <4> QED BY <4>2, <2>1
    <3> QED BY <2>1, <3>1
  <2>3. At(g, q) = r /\ su[l] = e
    BY <1>1, <2>2 DEF Adds
  <2> QED BY <2>3
<1>2. CASE l # k
  <2>1. Later(g, l, c) = Later(f, l, c) /\ su[l] = st[l]
    BY <1>2, LaterAdds
  <2>2. Has(f, q) /\ q \in PosSet
    BY <2>1, LaterIs DEF Has
  <2>3. At(g, q) = At(f, q)
    BY <2>2 DEF Adds
  <2> QED BY <2>1, <2>3 DEF LogOK
<1> QED BY <1>1, <1>2

LEMMA HintWrite ==
    ASSUME NEW f \in Files, NEW g \in Files, NEW p \in PosSet, NEW r, Adds(f, g, p, r),
           NEW c \in Nat, p[1] > c, NEW st \in [Keys -> Entries], NEW k \in Keys, r.key = k,
           NEW e, NEW u, NEW w, Keeps(u, w), NEW h, NEW t, HintOK(f, u, h, c, st, t)
    PROVE  HintOK(g, w, h, c, [st EXCEPT ![k] = e], t)
<1> DEFINE su == [st EXCEPT ![k] = e]
<1> SUFFICES ASSUME NEW l \in Keys, Later(g, l, c) = {}
             PROVE  PosOK(w, HintIn(h, l), l, su, t)
  BY DEF HintOK
<1>1. l # k
  BY LaterAdds
<1>2. Later(f, l, c) = {} /\ su[l] = st[l]
  BY <1>1, LaterAdds
<1>3. PosOK(u, HintIn(h, l), l, st, t)
  BY <1>2 DEF HintOK
<1> HIDE DEF su
<1> QED BY <1>2, <1>3, ShowsKept DEF PosOK

LEMMA ScanWrite ==
    ASSUME NEW f \in Files, NEW g \in Files, NEW p \in PosSet, NEW r, Adds(f, g, p, r),
           NEW c \in Nat, p[1] > c, NEW st \in [Keys -> Entries], NEW k \in Keys, r.key = k,
           NEW e, NEW o, NEW h, NEW t, NEW todo, NEW ix \in [Keys -> PosSet \cup {NoPos}], NEW y,
           ScanOK(f, o, h, c, ix, todo, st, t)
    PROVE  ScanOK(g, o, h, c, [ix EXCEPT ![k] = y], todo, [st EXCEPT ![k] = e], t)
<1> DEFINE su == [st EXCEPT ![k] = e]
           iy == [ix EXCEPT ![k] = y]
<1> SUFFICES ASSUME NEW l \in Keys, Later(g, l, c) = {}
             PROVE  ScanPos(o, h, iy, todo, l, su, t)
  BY DEF ScanOK
<1>1. l # k
  BY LaterAdds
<1>2. Later(f, l, c) = {} /\ su[l] = st[l] /\ iy[l] = ix[l]
  BY <1>1, LaterAdds
<1>3. ScanPos(o, h, ix, todo, l, st, t)
  BY <1>2 DEF ScanOK
<1> HIDE DEF su, iy
<1> QED BY <1>2, <1>3 DEF ScanPos

\* The clock goes on.
LEMMA HintTick ==
    ASSUME NEW f, NEW g, NEW h, NEW c, NEW st \in [Keys -> Entries], NEW t \in Nat, NEW u \in Nat, t <= u,
           HintOK(f, g, h, c, st, t)
    PROVE  HintOK(f, g, h, c, st, u)
<1> SUFFICES ASSUME NEW k \in Keys, Later(f, k, c) = {} PROVE PosOK(g, HintIn(h, k), k, st, u)
  BY DEF HintOK
<1>1. PosOK(g, HintIn(h, k), k, st, t) /\ st[k] \in Entries
  BY DEF HintOK
<1> QED BY <1>1, DeadLater DEF PosOK

LEMMA ScanTick ==
    ASSUME NEW f, NEW o, NEW h, NEW c, NEW ix, NEW todo, NEW st \in [Keys -> Entries],
           NEW t \in Nat, NEW u \in Nat, t <= u, ScanOK(f, o, h, c, ix, todo, st, t)
    PROVE  ScanOK(f, o, h, c, ix, todo, st, u)
<1> SUFFICES ASSUME NEW k \in Keys, Later(f, k, c) = {} PROVE ScanPos(o, h, ix, todo, k, st, u)
  BY DEF ScanOK
<1>1. ScanPos(o, h, ix, todo, k, st, t) /\ st[k] \in Entries
  BY DEF ScanOK
<1> QED BY <1>1, DeadLater DEF ScanPos

LEMMA MoveTick ==
    ASSUME NEW f, NEW g, NEW h, NEW i, NEW c, NEW st \in [Keys -> Entries], NEW t \in Nat, NEW u \in Nat, t <= u,
           MoveOK(f, g, h, i, c, st, t)
    PROVE  MoveOK(f, g, h, i, c, st, u)
<1> SUFFICES ASSUME NEW k \in Keys, Later(f, k, c) = {} PROVE MovePos(f, g, h, i, k, st, u)
  BY DEF MoveOK
<1>1. MovePos(f, g, h, i, k, st, t) /\ st[k] \in Entries
  BY DEF MoveOK
<1> QED BY <1>1, DeadLater DEF MovePos

\* The hints after one more.
LEMMA HintAppend ==
    ASSUME NEW h \in Seq(Hints), NEW k \in Keys, NEW p \in PosSet, NEW l
    PROVE  HintIn(Append(h, HintRecord(k, p)), l) = IF l = k THEN p ELSE HintIn(h, l)
<1> DEFINE x == HintRecord(k, p)
           g == Append(h, x)
           n == Len(h)
           hs == {i \in DOMAIN h : h[i].key = l}
           gs == {i \in DOMAIN g : g[i].key = l}
<1>1. x.key = k /\ x.pos = p /\ x \in Hints
  BY DEF HintRecord, Hints
<1> HIDE DEF x
<1>2. /\ n \in Nat /\ DOMAIN h = 1..n /\ DOMAIN g = 1..(n + 1)
      /\ g[n + 1] = x /\ \A i \in 1..n : g[i] = h[i]
  BY <1>1
<1> HIDE DEF g, n
<1>3. CASE l = k
  <2>1. n + 1 \in gs /\ \A j \in gs : j <= n + 1
    BY <1>1, <1>2, <1>3
  <2>2. \A j \in gs : j \in Nat
    BY <1>2
  <2> DEFINE c == CHOOSE i \in gs : \A j \in gs : j <= i
  <2>3. c \in gs /\ \A j \in gs : j <= c
    BY <2>1, Zenon
  <2> HIDE DEF c, gs
  <2>4. c = n + 1
    BY <2>1, <2>2, <2>3, <1>2
  <2>5. HintIn(g, l) = g[c].pos
    BY <2>1 DEF HintIn, gs, c
  <2> QED BY <2>4, <2>5, <1>1, <1>2, <1>3 DEF g, x
<1>4. CASE l # k
  <2>1. gs = hs
    <3>1. \A i \in 1..(n + 1) : i = n + 1 \/ i \in 1..n
      BY <1>2
    <3>2. \A i \in 1..n : i \in 1..(n + 1)
      BY <1>2
    <3> QED BY <1>1, <1>2, <1>4, <3>1, <3>2
  <2>2. CASE hs = {}
    BY <2>1, <2>2, <1>4 DEF HintIn, g, x
  <2>3. CASE hs # {}
    <3> DEFINE c == CHOOSE i \in hs : \A j \in hs : j <= i
    <3>1. hs \in SUBSET Nat /\ \A i \in hs : i <= n
      BY <1>2
    <3>2. \E i \in hs : \A j \in hs : j <= i
      BY <1>2, <2>3, <3>1, GreatestNatural, Zenon
    <3>3. c \in hs
      BY <3>2, Zenon
    <3>4. HintIn(h, l) = h[c].pos
      BY <2>3 DEF HintIn
    <3>5. HintIn(g, l) = g[c].pos
      BY <2>1, <2>3 DEF HintIn
    <3>6. g[c] = h[c]
      BY <3>3, <1>2
    <3> QED BY <3>4, <3>5, <3>6, <1>4 DEF g, x
  <2> QED BY <2>2, <2>3
<1> QED BY <1>3, <1>4

LEMMA HintNone ==
    ASSUME NEW h \in Seq(Hints), NEW k
    PROVE  /\ (\A i \in DOMAIN h : h[i].key # k) => HintIn(h, k) = NoPos
           /\ h = <<>> => HintIn(h, k) = NoPos
BY DEF HintIn

LEMMA NoPosNot == NoPos \notin PosSet
BY DEF NoPos, PosSet
-----------------------------------------------------------------------------
(* Nothing is lost: the steps                                              *)

LEMMA LossFacts ==
    ASSUME LossInv
    PROVE  /\ OwnInv /\ TypeIInv /\ TypeInv /\ Reading /\ Roles /\ Reopening /\ MergeDirOwned
           /\ Times /\ Mergings /\ Shut /\ Nowhere /\ Whole /\ IndexOK /\ Finished /\ Loading /\ Torn
           /\ segs \in Files /\ hint \in Seq(Hints) /\ fin \in Nat /\ mdir \in Dirs
           /\ index \in [Keys -> PosSet \cup {NoPos}]
           /\ merger \in [Mergers -> MergeStates] /\ loader \in Loads /\ now \in Nat /\ crashes \in Nat
           /\ store \in [Keys -> Entries] /\ walOpen \in Nat
BY DEF LossInv, Sound, OwnInv, TypeIInv, TypeInv, Typed

LEMMA BelowActive ==
    ASSUME LossInv
    PROVE  /\ Active \in Nat /\ Active >= 1 /\ fin < Active /\ mdir.fin < Active /\ loader.n < Active
           /\ mdir.fin \in Nat \cup {-1} /\ mdir.segs \in Files /\ mdir.hint \in Seq(Hints)
           /\ loader.n \in Nat /\ loader.i \in Nat
           /\ \A m \in Mergers : /\ merger[m] \in MergeStates
                                 /\ merger[m].pc \in Busy => merger[m].prev \in Nat /\ merger[m].prev < Active
<1>1. /\ fin < Active /\ mdir.fin < Active /\ loader.n < Active /\ Active \in Nat /\ Active >= 1
  BY LossFacts, ActiveNat DEF TypeInv, Beyond
<1>2. /\ mdir.fin \in Nat \cup {-1} /\ mdir.segs \in Files /\ mdir.hint \in Seq(Hints)
      /\ loader.n \in Nat /\ loader.i \in Nat
  BY LossFacts DEF Dirs, Loads
<1>3. ASSUME NEW m \in Mergers
      PROVE  /\ merger[m] \in MergeStates
             /\ merger[m].pc \in Busy => merger[m].prev \in Nat /\ merger[m].prev < Active
  <2>1. /\ merger[m] \in MergeStates
        /\ merger[m].pc \in Busy => merger[m].prev \in 1..(Active - 1)
    BY LossFacts, MergerIs
  <2> QED BY <2>1, <1>1
<1> QED BY <1>1, <1>2, <1>3

LEMMA KeepsSelf == \A f : Keeps(f, f)
BY DEF Keeps

LEMMA HintKeysGrow ==
    ASSUME NEW f, NEW g, NEW h, HintKeys(f, h), \A k : Later(f, k, 0) \subseteq Later(g, k, 0)
    PROVE  HintKeys(g, h)
BY DEF HintKeys

LEMMA SoundWrite ==
    ASSUME LossInv, NEW k \in Keys, NEW r \in LogRecords, NEW e \in Entries, r.key = k, Tells(r, e),
           e.expire >= 0, Write(k, r, e)
    PROVE  Sound'
<1> USE LossFacts
<1> DEFINE x == [r EXCEPT !.batchId = 1]
<1>1. /\ mode = "open" /\ loader.stage = "idle" /\ walOpen # 0 /\ store' = [store EXCEPT ![k] = e]
      /\ UNCHANGED <<hint, fin, mdir, mode, walOpen, mergeRunning, merger, loader, closing, now, crashes>>
  BY DEF Write, Unlocked
<1>2. PICK p \in PosSet :
          /\ segs' \in Files /\ p[1] >= Active /\ Adds(segs, segs', p, x)
          /\ index' = [index EXCEPT ![k] = IF r.type = "Deleted" \/ IsExpired(r.expire, now) THEN NoPos ELSE p]
  BY WriteAdds
<1>3. /\ x.key = k /\ Tells(x, e) /\ x.type = r.type /\ x.expire = r.expire /\ x.value = r.value
      /\ r.type \in {"Normal", "Deleted"}
  BY DEF LogRecords, Tells
<1> HIDE DEF x
<1>4. p[1] \in Nat
  BY PosPair
<1>5. Keeps(segs, segs') /\ Keeps(mdir.segs, mdir.segs)
  BY <1>2, AddsKeepsAll, KeepsSelf
<1>6. \A c \in Nat : c < Active => p[1] > c
  BY <1>2, <1>4, BelowActive
<1>7. ASSUME NEW c \in Nat, c < Active, NEW u, NEW w, NEW h, Keeps(u, w), HintOK(segs, u, h, c, store, now)
      PROVE  HintOK(segs', w, h, c, store', now)
  BY <1>1, <1>2, <1>3, <1>6, <1>7, HintWrite
<1>8. Times'
  <2>1. \A l \in Keys : store'[l].expire >= 0
    BY <1>1 DEF Times
  <2> QED BY <1>1, <2>1 DEF Times
<1>9. Whole'
  <2>1. DiskOK
    BY <1>1 DEF Whole
  <2>2. LogOK(segs', fin, store')
    BY <1>1, <1>2, <1>3, <1>6, <2>1, BelowActive, LogWrite DEF DiskOK
  <2>3. HintOK(segs', segs', hint, fin, store', now)
    BY <1>5, <1>7, <2>1, BelowActive DEF DiskOK
  <2> QED BY <1>1, <2>2, <2>3 DEF Whole, DiskOK
<1>10. IndexOK'
  <2> SUFFICES ASSUME NEW l \in Keys PROVE PosOK(segs', index'[l], l, store', now)
    BY <1>1 DEF IndexOK
  <2>1. CASE l # k
    <3>1. index'[l] = index[l] /\ store'[l] = store[l]
      BY <2>1, <1>1, <1>2
    <3>2. PosOK(segs, index[l], l, store, now)
      BY <1>1 DEF IndexOK
    <3> QED BY <3>1, <3>2, <1>5, ShowsKept DEF PosOK
  <2>2. CASE l = k
    <3>1. store'[l] = e /\ index'[l] = IF r.type = "Deleted" \/ IsExpired(r.expire, now) THEN NoPos ELSE p
      BY <2>2, <1>1, <1>2
    <3>2. CASE r.type = "Deleted"
      <4>1. e = Absent
        BY <3>2, <1>3 DEF Tells
      <4> QED BY <3>1, <3>2, <4>1 DEF PosOK, Dead
    <3>3. CASE r.type # "Deleted" /\ IsExpired(r.expire, now)
      <4>1. e.expire = r.expire
        BY <3>3, <1>3 DEF Tells
      <4> QED BY <3>1, <3>3, <4>1 DEF PosOK, Dead
    <3>4. CASE r.type # "Deleted" /\ ~IsExpired(r.expire, now)
      <4>1. x.type = "Normal" /\ x.value = e.value /\ x.expire = e.expire
        BY <3>4, <1>3 DEF Tells
      <4>2. Has(segs', p) /\ At(segs', p) = x
        BY <1>2 DEF Adds
      <4>3. Shows(segs', p, k, e)
        BY <4>1, <4>2, <1>3 DEF Shows
      <4> QED BY <3>1, <3>4, <4>3, <2>2 DEF PosOK
    <3> QED BY <3>2, <3>3, <3>4
  <2> QED BY <2>1, <2>2
<1>11. Finished'
  <2> SUFFICES ASSUME mdir.exists, mdir.fin > 0
               PROVE  /\ fin < mdir.fin /\ mdir.hasHint
                      /\ \A s \in DOMAIN mdir.segs : s <= mdir.fin
                      /\ HintOK(segs', mdir.segs, mdir.hint, mdir.fin, store', now)
    BY <1>1 DEF Finished
  <2>1. /\ fin < mdir.fin /\ mdir.hasHint
        /\ \A s \in DOMAIN mdir.segs : s <= mdir.fin
        /\ HintOK(segs, mdir.segs, mdir.hint, mdir.fin, store, now)
    BY <1>1 DEF Finished
  <2>2. mdir.fin \in Nat /\ mdir.fin < Active
    BY BelowActive
  <2>3. HintOK(segs', mdir.segs, mdir.hint, mdir.fin, store', now)
    BY <1>5, <1>7, <2>1, <2>2
  <2> QED BY <2>1, <2>3
<1>12. Loading'
  BY <1>1 DEF Loading
<1>13. Torn'
  <2>1. Calm' <=> Calm
    BY <1>1 DEF Calm
  <2>2. \A l : Later(segs, l, 0) \subseteq Later(segs', l, 0)
    BY <1>2, LaterAdds
  <2>3. HintKeys(segs, mdir.hint) => HintKeys(segs', mdir.hint)
    BY <2>2, HintKeysGrow
  <2> QED BY <1>1, <2>1, <2>3 DEF Torn
<1>14. Shut' /\ Nowhere'
  BY <1>1 DEF Shut, Nowhere
<1>15. Mergings'
  <2> SUFFICES ASSUME NEW m \in Mergers, merger[m].pc \in Busy PROVE Merging(m)'
    BY <1>1 DEF Mergings
  <2>1. Merging(m)
    BY DEF Mergings
  <2>2. merger[m].prev \in Nat /\ merger[m].prev < Active
    BY BelowActive
  <2>3. ASSUME merger[m].pc = "scan"
        PROVE  ScanOK(segs', merger[m].out, mdir.hint, merger[m].prev, index', merger[m].todo, store', now)
    <3>1. ScanOK(segs, merger[m].out, mdir.hint, merger[m].prev, index, merger[m].todo, store, now)
      BY <2>1, <2>3 DEF Merging
    <3>2. p[1] > merger[m].prev
      BY <2>2, <1>6
    <3> DEFINE y == IF r.type = "Deleted" \/ IsExpired(r.expire, now) THEN NoPos ELSE p
    <3> HIDE DEF y
    <3>3. index' = [index EXCEPT ![k] = y]
      BY <1>2 DEF y
    <3> DEFINE o == merger[m].out
               h == mdir.hint
               c == merger[m].prev
               td == merger[m].todo
    <3> HIDE DEF o, h, c, td
    <3>4. /\ ScanOK(segs, o, h, c, index, td, store, now)
          /\ c \in Nat /\ p[1] > c
      BY <3>1, <3>2, <2>2 DEF o, h, c, td
    <3>5. ScanOK(segs', o, h, c, [index EXCEPT ![k] = y], td, [store EXCEPT ![k] = e], now)
      BY <3>4, <1>2, <1>3, ScanWrite
    <3> QED BY <3>3, <3>5, <1>1 DEF o, h, c, td
  <2>4. ASSUME merger[m].pc = "fin"
        PROVE  HintOK(segs', merger[m].out, mdir.hint, merger[m].prev, store', now)
    BY <2>1, <2>2, <2>4, <1>7, KeepsSelf DEF Merging
  <2> QED BY <2>1, <2>3, <2>4, <1>1 DEF Merging
<1> QED BY <1>8, <1>9, <1>10, <1>11, <1>12, <1>13, <1>14, <1>15 DEF Sound

LEMMA SoundTick ==
    ASSUME LossInv, Tick
    PROVE  Sound'
<1> USE LossFacts
<1>1. /\ UNCHANGED <<segs, hint, fin, mdir, index, mode, walOpen, merger, loader, crashes, store>>
      /\ now' \in Nat /\ now <= now' /\ now' <= MaxNow
  BY MergeAssumption DEF Tick, disk
<1>2. \A f, g, h, c : HintOK(f, g, h, c, store, now) => HintOK(f, g, h, c, store, now')
  BY <1>1, HintTick
<1>3. Times'
  BY <1>1, MergeAssumption DEF Times
<1>4. Whole'
  BY <1>1, <1>2 DEF Whole, DiskOK
<1>5. IndexOK'
  BY <1>1, DeadLater DEF IndexOK, PosOK
<1>6. Finished'
  BY <1>1, <1>2 DEF Finished
<1>7. Loading'
  <2>1. \A f, g, h, i, c : MoveOK(f, g, h, i, c, store, now) => MoveOK(f, g, h, i, c, store, now')
    BY <1>1, MoveTick
  <2> QED BY <1>1, <1>2, <2>1 DEF Loading
<1>8. Torn'
  <2>1. Calm' <=> Calm
    BY <1>1 DEF Calm
  <2> QED BY <1>1, <2>1 DEF Torn
<1>9. Shut' /\ Nowhere'
  BY <1>1 DEF Shut, Nowhere, AllIdle
<1>10. Mergings'
  <2> SUFFICES ASSUME NEW m \in Mergers, merger[m].pc \in Busy PROVE Merging(m)'
    BY <1>1 DEF Mergings
  <2>1. Merging(m)
    BY DEF Mergings
  <2>2. ScanOK(segs, merger[m].out, mdir.hint, merger[m].prev, index, merger[m].todo, store, now)
        => ScanOK(segs, merger[m].out, mdir.hint, merger[m].prev, index, merger[m].todo, store, now')
    BY <1>1, ScanTick
  <2>3. merger[m].start \in Nat
    BY BelowActive DEF MergeStates
  <2> QED BY <2>1, <2>2, <2>3, <1>1, <1>2 DEF Merging
<1> QED BY <1>3, <1>4, <1>5, <1>6, <1>7, <1>8, <1>9, <1>10 DEF Sound

\* A step of one goroutine in an open database.
LEMMA SoundMerger ==
    ASSUME LossInv, NEW m \in Mergers, NEW x \in MergeStates, merger' = [merger EXCEPT ![m] = x],
           mode = "open", loader.stage = "idle",
           UNCHANGED <<segs, hint, fin, index, mode, walOpen, loader, now, crashes, store>>,
           \A n \in Mergers : n # m => merger[n].pc \notin Busy,
           x.pc \in Busy => Merging(m)',
           Nowhere', Finished', Torn'
    PROVE  Sound'
<1> USE LossFacts
<1>1. merger'[m] = x /\ \A n \in Mergers : n # m => merger'[n] = merger[n]
  BY MergerSet
<1>2. Times' /\ Shut' /\ Loading' /\ IndexOK'
  BY DEF Times, Shut, Loading, IndexOK
<1>3. Whole'
  BY DEF Whole, DiskOK
<1>4. Mergings'
  BY <1>1 DEF Mergings
<1> QED BY <1>2, <1>3, <1>4 DEF Sound

\* The goroutine in doMerge is the only one.
LEMMA OneBusy ==
    ASSUME LossInv, NEW m \in Mergers, merger[m].pc \in Busy
    PROVE  /\ Merging(m) /\ ~Calm /\ \A n \in Mergers : n # m => merger[n].pc \notin Busy
           /\ mode = "open" /\ loader.stage = "idle" /\ walOpen # 0
           /\ merger[m] \in MergeStates /\ merger[m].prev \in Nat /\ merger[m].prev >= 1
           /\ merger[m].prev < Active /\ fin < merger[m].prev
<1> USE LossFacts
<1>1. Merging(m)
  BY DEF Mergings
<1>2. /\ ~Calm /\ \A n \in Mergers : n # m => merger[n].pc \notin Busy
  BY DEF Roles, Calm
<1>3. mode = "open" /\ loader.stage = "idle" /\ walOpen # 0 /\ fin < merger[m].prev
  BY <1>1 DEF Merging
<1>4. merger[m] \in MergeStates /\ merger[m].prev \in Nat /\ merger[m].prev < Active
  BY BelowActive
<1> QED BY <1>1, <1>2, <1>3, <1>4

\* Torn, where the merge directory is not yet one to load.
LEMMA TornBusy ==
    ASSUME LossInv, loader.stage = "idle", mode = "open", UNCHANGED <<segs, fin, mode, loader, crashes>>,
           ~Calm' \/ (mdir'.exists => mdir'.fin > 0), mdir'.fin \in Int,
           "merging" \in CrashIn => HintKeys(segs, mdir'.hint)
    PROVE  Torn'
BY LossFacts DEF Torn

LEMMA HintKeysEmpty == \A f : HintKeys(f, <<>>)
BY DEF HintKeys

LEMMA HintSame ==
    ASSUME NEW f \in Files, NEW g \in Files, NEW c \in Nat, SameAbove(f, g, c), NEW u, NEW w, Keeps(u, w),
           NEW h, NEW st, NEW t, HintOK(f, u, h, c, st, t)
    PROVE  HintOK(g, w, h, c, st, t)
<1> SUFFICES ASSUME NEW k \in Keys, Later(g, k, c) = {} PROVE PosOK(w, HintIn(h, k), k, st, t)
  BY DEF HintOK
<1>1. PosOK(u, HintIn(h, k), k, st, t)
  BY LaterSame DEF HintOK
<1> QED BY <1>1, ShowsKept DEF PosOK

LEMMA SoundMergeStart ==
    ASSUME LossInv, NEW m \in Mergers, NEW reopen \in Reopens, MergeStart(m, reopen)
    PROVE  Sound'
<1> USE LossFacts
<1> DEFINE x == [NoMerge EXCEPT !.pc = "opendir", !.reopen = reopen, !.prev = Active]
<1>1. /\ mode = "open" /\ loader.stage = "idle" /\ walOpen # 0 /\ ~mergeRunning
      /\ segs' = Rotated /\ merger' = [merger EXCEPT ![m] = x]
      /\ UNCHANGED <<hint, fin, mdir, index, mode, walOpen, loader, now, crashes, store>>
  BY DEF MergeStart, Unlocked, Rotated
<1>2. x.pc = "opendir" /\ x.prev = Active
  BY DEF NoMerge
<1> HIDE DEF x
<1>3. Rotated \in Files /\ Keeps(segs, Rotated) /\ \A c : SameAbove(segs, Rotated, c)
  <2>1. segs \in Files /\ IsLast(segs, Active)
    BY DEF TypeInv, Beyond
  <2> QED BY <2>1, RotatedIs DEF Keeps, SameAbove, Has
<1>4. merger'[m] = x /\ \A n \in Mergers : n # m => merger'[n] = merger[n]
  BY <1>1
<1>5. Calm
  BY <1>1 DEF Roles
<1>6. ~Calm'
  BY <1>2, <1>4 DEF Calm, Busy
<1>7. Times' /\ Shut' /\ Loading' /\ Nowhere'
  BY <1>1 DEF Times, Shut, Loading, Nowhere
<1>8. Whole'
  <2>1. DiskOK
    BY <1>1 DEF Whole
  <2>2. LogOK(Rotated, fin, store)
    BY <1>3, <2>1, LogSame DEF DiskOK
  <2>3. HintOK(Rotated, Rotated, hint, fin, store, now)
    BY <1>3, <2>1, HintSame DEF DiskOK
  <2> QED BY <1>1, <2>2, <2>3 DEF Whole, DiskOK
<1>9. IndexOK'
  <2> SUFFICES ASSUME NEW l \in Keys PROVE PosOK(Rotated, index[l], l, store, now)
    BY <1>1 DEF IndexOK
  <2>1. PosOK(segs, index[l], l, store, now)
    BY <1>1 DEF IndexOK
  <2> QED BY <2>1, <1>3, ShowsKept DEF PosOK
<1>10. Finished'
  <2> SUFFICES ASSUME mdir.exists, mdir.fin > 0
               PROVE  /\ fin < mdir.fin /\ mdir.hasHint
                      /\ \A s \in DOMAIN mdir.segs : s <= mdir.fin
                      /\ HintOK(Rotated, mdir.segs, mdir.hint, mdir.fin, store, now)
    BY <1>1 DEF Finished
  <2>1. /\ fin < mdir.fin /\ mdir.hasHint
        /\ \A s \in DOMAIN mdir.segs : s <= mdir.fin
        /\ HintOK(segs, mdir.segs, mdir.hint, mdir.fin, store, now)
    BY <1>1 DEF Finished
  <2>2. mdir.fin \in Nat
    BY BelowActive
  <2> QED BY <2>1, <2>2, <1>3, KeepsSelf, HintSame
<1>11. Torn'
  <2>1. \A l : Later(segs, l, 0) \subseteq Later(Rotated, l, 0)
    BY <1>3, LaterSame
  <2>2. HintKeys(segs, mdir.hint) => HintKeys(Rotated, mdir.hint)
    BY <2>1, HintKeysGrow
  <2> QED BY <1>1, <1>6, <2>2 DEF Torn
<1>12. Mergings'
  <2>1. \A n \in Mergers : merger'[n].pc \in Busy => n = m
    BY <1>4, <1>5 DEF Calm
  <2>2. Merging(m)'
    BY <1>1, <1>2, <1>4, BelowActive DEF Merging
  <2> QED BY <2>1, <2>2 DEF Mergings
<1> QED BY <1>7, <1>8, <1>9, <1>10, <1>11, <1>12 DEF Sound

LEMMA SoundMergeNothing ==
    ASSUME LossInv, NEW m \in Mergers, MergeNothing(m)
    PROVE  Sound'
<1> USE LossFacts
<1> DEFINE x == [NoMerge EXCEPT !.pc = "lock"]
<1>1. /\ mode = "open" /\ loader.stage = "idle" /\ walOpen # 0 /\ merger[m].pc = "idle"
      /\ merger' = [merger EXCEPT ![m] = x]
      /\ UNCHANGED <<segs, hint, fin, mdir, index, mode, walOpen, loader, now, crashes, store>>
  BY DEF MergeNothing, Unlocked, disk
<1>2. x.pc = "lock"
  BY DEF NoMerge
<1> HIDE DEF x
<1>4. merger'[m] = x /\ \A n \in Mergers : n # m => merger'[n] = merger[n]
  BY <1>1
<1>5. Calm' <=> Calm
  BY <1>1, <1>2, <1>4 DEF Calm, Busy
<1>6. Times' /\ Shut' /\ Nowhere' /\ Whole' /\ IndexOK' /\ Finished' /\ Loading'
  BY <1>1 DEF Times, Shut, Nowhere, Whole, DiskOK, IndexOK, Finished, Loading
<1>7. Torn'
  BY <1>1, <1>5 DEF Torn
<1>8. Mergings'
  <2> SUFFICES ASSUME NEW n \in Mergers, merger'[n].pc \in Busy PROVE Merging(n)'
    BY DEF Mergings
  <2>1. n # m /\ merger'[n] = merger[n]
    BY <1>2, <1>4 DEF Busy
  <2>2. Merging(n)
    BY <2>1 DEF Mergings
  <2> QED BY <1>1, <2>1, <2>2 DEF Merging
<1> QED BY <1>6, <1>7, <1>8 DEF Sound

LEMMA SoundOpenMergeDB ==
    ASSUME LossInv, NEW m \in Mergers, OpenMergeDB(m)
    PROVE  Sound'
<1> USE LossFacts
<1>0. merger[m].pc \in Busy
  BY DEF OpenMergeDB, Busy
<1> USE <1>0, OneBusy
<1> DEFINE u == Unused
           d == [NoDir EXCEPT !.exists = TRUE, !.id = u, !.segs = <<<<>>>>, !.hasHint = TRUE]
           x == [merger[m] EXCEPT !.pc = "reader", !.dir = u, !.out = <<<<>>>>]
<1>1. /\ mdir' = d /\ merger' = [merger EXCEPT ![m] = x]
      /\ UNCHANGED <<segs, hint, fin, index, mode, walOpen, loader, now, crashes, store>>
  BY DEF OpenMergeDB, disk, clocks
<1>2. u \in Nat
  BY UnusedIs
<1> HIDE DEF u
<1>3. /\ d.exists /\ d.segs = <<<<>>>> /\ d.hasHint /\ d.hint = <<>> /\ d.fin = -1
  BY DEF NoDir
<1>4. /\ x \in MergeStates /\ x.pc = "reader" /\ x.out = <<<<>>>> /\ x.prev = merger[m].prev
  BY <1>2, Empties DEF MergeStates, Pcs
<1> HIDE DEF d, x
<1>5. merger'[m] = x
  BY <1>1
<1>6. Merging(m)'
  <2>1. <<<<>>>> # <<>> /\ Len(<<<<>>>>) = 1
    OBVIOUS
  <2> QED BY <1>1, <1>3, <1>4, <1>5, <2>1 DEF Merging
<1>7. ~Calm'
  BY <1>4, <1>5 DEF Calm, Busy
<1>8. Nowhere' /\ Finished'
  BY <1>1, <1>3 DEF Nowhere, Finished
<1>9. Torn'
  <2>1. HintKeys(segs, mdir'.hint) /\ mdir'.fin \in Int
    BY <1>1, <1>3, HintKeysEmpty
  <2> QED BY <1>1, <1>7, <2>1, TornBusy
<1> QED BY <1>1, <1>4, <1>6, <1>8, <1>9, SoundMerger

\* The positions a reader up to segment c goes through.
LEMMA ReaderIs ==
    ASSUME NEW f \in Files, NEW c \in Nat, NEW p
    PROVE  p \in Positions(f, {s \in DOMAIN f : s <= c}) <=> Has(f, p) /\ p[1] <= c
<1>1. ASSUME NEW s \in DOMAIN f PROVE s \in Nat \ {0}
  BY SegmentIs
<1> QED BY <1>1 DEF Positions, Has, PosSet

LEMMA SoundNewReader ==
    ASSUME LossInv, NEW m \in Mergers, NewReader(m)
    PROVE  Sound'
<1> USE LossFacts
<1>0. merger[m].pc \in Busy /\ merger[m].pc = "reader"
  BY DEF NewReader, Busy
<1> USE <1>0, OneBusy
<1> DEFINE T == Positions(segs, {s \in DOMAIN segs : s <= merger[m].prev})
           x == [merger[m] EXCEPT !.pc = "scan", !.start = now, !.wal = walOpen, !.todo = T]
<1>1. /\ mdir' = mdir /\ merger' = [merger EXCEPT ![m] = x]
      /\ UNCHANGED <<segs, hint, fin, index, mode, walOpen, loader, now, crashes, store>>
  BY DEF NewReader, disk, clocks
<1>2. T \in SUBSET PosSet
  BY PositionsTyped
<1>3. \A p : p \in T <=> Has(segs, p) /\ p[1] <= merger[m].prev
  BY ReaderIs
<1> HIDE DEF T
<1>4. /\ x \in MergeStates /\ x.pc = "scan" /\ x.out = merger[m].out /\ x.prev = merger[m].prev
      /\ x.start = now /\ x.wal = walOpen /\ x.todo = T
  BY <1>2 DEF MergeStates, Pcs
<1> HIDE DEF x
<1>5. merger'[m] = x
  BY <1>1
<1>6. /\ mdir.exists /\ mdir.hasHint /\ mdir.segs = <<<<>>>> /\ mdir.fin = -1 /\ mdir.hint = <<>>
      /\ merger[m].out = <<<<>>>> /\ merger[m].out # <<>> /\ Len(merger[m].out) <= merger[m].prev
  BY DEF Merging
<1>7. ASSUME NEW p \in T PROVE Before(EndOf(<<<<>>>>), p) /\ p[1] <= merger[m].prev
  <2>1. p \in PosSet /\ p[1] <= merger[m].prev
    BY <1>2, <1>3, <1>7
  <2>2. EndOf(<<<<>>>>) = <<1, 0>>
    BY DEF EndOf
  <2> QED BY <2>1, <2>2, PosPair DEF Before
<1>8. ScanOK(segs, <<<<>>>>, <<>>, merger[m].prev, index, T, store, now)
  <2> SUFFICES ASSUME NEW k \in Keys, Later(segs, k, merger[m].prev) = {}
               PROVE  ScanPos(<<<<>>>>, <<>>, index, T, k, store, now)
    BY DEF ScanOK
  <2>0. <<>> \in Seq(Hints)
    OBVIOUS
  <2>1. HintIn(<<>>, k) = NoPos
    BY <2>0, HintNone
  <2>2. PosOK(segs, index[k], k, store, now)
    BY DEF IndexOK
  <2>3. CASE Shows(segs, index[k], k, store[k])
    <3>1. Has(segs, index[k]) /\ At(segs, index[k]).key = k
      BY <2>3 DEF Shows
    <3>2. index[k][1] \in Nat
      BY <3>1, PosPair DEF Has
    <3>3. ~(index[k][1] > merger[m].prev)
      <4>1. merger[m].prev \in Nat
        OBVIOUS
      <4>2. index[k][1] > merger[m].prev => index[k] \in Later(segs, k, merger[m].prev)
        BY <3>1, <4>1, LaterIs
      <4> QED BY <4>2
    <3>4. index[k] \in T
      BY <1>3, <3>1, <3>2, <3>3
    <3> QED BY <2>1, <3>4 DEF ScanPos
  <2>4. CASE index[k] = NoPos /\ Dead(store[k], now)
    BY <2>1, <2>4 DEF ScanPos
  <2> QED BY <2>2, <2>3, <2>4 DEF PosOK
<1>9. Merging(m)'
  <2>1. /\ ScanOK(segs, x.out, mdir.hint, x.prev, index, x.todo, store, now)
        /\ \A p \in x.todo : Before(EndOf(x.out), p) /\ p[1] <= x.prev
    BY <1>4, <1>6, <1>7, <1>8
  <2>2. mdir.segs = x.out /\ x.out # <<>> /\ Len(x.out) <= x.prev
    BY <1>4, <1>6
  <2>3. /\ mode' = "open" /\ walOpen' # 0 /\ loader'.stage = "idle" /\ fin' < merger'[m].prev
        /\ merger'[m].pc = "scan" /\ merger'[m].wal = walOpen' /\ merger'[m].start <= now'
    BY <1>1, <1>4, <1>5
  <2>4. /\ mdir'.exists /\ mdir'.hasHint /\ mdir'.segs = merger'[m].out /\ mdir'.fin = -1
        /\ merger'[m].out # <<>> /\ Len(merger'[m].out) <= merger'[m].prev
    BY <1>1, <1>5, <1>6, <2>2
  <2>5. /\ ScanOK(segs', merger'[m].out, mdir'.hint, merger'[m].prev, index', merger'[m].todo, store', now')
        /\ \A p \in merger'[m].todo : Before(EndOf(merger'[m].out), p) /\ p[1] <= merger'[m].prev
    BY <1>1, <1>5, <2>1
  <2> QED BY <2>3, <2>4, <2>5 DEF Merging
<1>10. ~Calm'
  BY <1>4, <1>5 DEF Calm, Busy
<1>11. Nowhere' /\ Finished'
  BY <1>1, <1>6 DEF Nowhere, Finished
<1>12. Torn'
  <2>1. HintKeys(segs, mdir'.hint) /\ mdir'.fin \in Int
    BY <1>1, <1>6, HintKeysEmpty
  <2> QED BY <1>1, <1>10, <2>1, TornBusy
<1> QED BY <1>1, <1>4, <1>9, <1>11, <1>12, SoundMerger

LEMMA SoundCreateMergeFin ==
    ASSUME LossInv, NEW m \in Mergers, CreateMergeFin(m)
    PROVE  Sound'
<1> USE LossFacts
<1>0. merger[m].pc \in Busy /\ merger[m].pc = "scan" /\ merger[m].todo = {}
  BY DEF CreateMergeFin, Busy
<1> USE <1>0, OneBusy
<1> DEFINE d == [mdir EXCEPT !.fin = 0]
           x == [merger[m] EXCEPT !.pc = "fin"]
<1>1. /\ mdir.exists /\ mdir.hasHint /\ mdir.segs = merger[m].out /\ mdir.fin = -1
      /\ merger[m].out # <<>> /\ Len(merger[m].out) <= merger[m].prev
      /\ ScanOK(segs, merger[m].out, mdir.hint, merger[m].prev, index, {}, store, now)
  BY DEF Merging
<1>2. /\ mdir' = d /\ merger' = [merger EXCEPT ![m] = x]
      /\ UNCHANGED <<segs, hint, fin, index, mode, walOpen, loader, now, crashes, store>>
  BY <1>1 DEF CreateMergeFin, disk, clocks
<1>3. /\ d.exists = mdir.exists /\ d.segs = mdir.segs /\ d.hasHint = mdir.hasHint
      /\ d.hint = mdir.hint /\ d.fin = 0
  BY DEF Dirs
<1>4. /\ x \in MergeStates /\ x.pc = "fin" /\ x.out = merger[m].out /\ x.prev = merger[m].prev
  BY DEF MergeStates, Pcs
<1> HIDE DEF d, x
<1>5. merger'[m] = x
  BY <1>2
<1>6. HintOK(segs, merger[m].out, mdir.hint, merger[m].prev, store, now)
  BY <1>1 DEF ScanOK, ScanPos, HintOK, PosOK
<1>7. Merging(m)'
  BY <1>1, <1>2, <1>3, <1>4, <1>5, <1>6 DEF Merging
<1>8. ~Calm'
  BY <1>4, <1>5 DEF Calm, Busy
<1>9. Nowhere' /\ Finished'
  BY <1>1, <1>2, <1>3 DEF Nowhere, Finished
<1>10. Torn'
  <2>1. "merging" \in CrashIn => HintKeys(segs, mdir'.hint)
    BY <1>2, <1>3 DEF Torn
  <2>2. mdir'.fin \in Int
    BY <1>2, <1>3
  <2> QED BY <1>2, <1>8, <2>1, <2>2, TornBusy
<1> QED BY <1>2, <1>4, <1>7, <1>9, <1>10, SoundMerger

LEMMA SoundWriteMergeFin ==
    ASSUME LossInv, NEW m \in Mergers, WriteMergeFin(m)
    PROVE  Sound'
<1> USE LossFacts
<1>0. merger[m].pc \in Busy /\ merger[m].pc = "fin"
  BY DEF WriteMergeFin, Busy
<1> USE <1>0, OneBusy
<1> DEFINE n == merger[m].prev
           d == [mdir EXCEPT !.fin = n]
           x == IF merger[m].reopen THEN [NoMerge EXCEPT !.pc = "lock"] ELSE NoMerge
<1>1. /\ mdir.exists /\ mdir.hasHint /\ mdir.segs = merger[m].out /\ mdir.fin = 0
      /\ merger[m].out # <<>> /\ Len(merger[m].out) <= n
      /\ HintOK(segs, merger[m].out, mdir.hint, n, store, now)
  BY DEF Merging
<1>2. /\ mdir' = d /\ merger' = [merger EXCEPT ![m] = x]
      /\ UNCHANGED <<segs, hint, fin, index, mode, walOpen, loader, now, crashes, store>>
  BY <1>1 DEF WriteMergeFin, disk, clocks
<1>3. n \in Nat /\ n >= 1 /\ fin < n
  OBVIOUS
<1>4. x \in MergeStates /\ x.pc \notin Busy
  BY Empties DEF MergeStates, Pcs, NoMerge, Busy
<1> HIDE DEF n, x
<1>5. /\ d.exists = mdir.exists /\ d.segs = mdir.segs /\ d.hasHint = mdir.hasHint
      /\ d.hint = mdir.hint /\ d.fin = n
  BY DEF Dirs
<1> HIDE DEF d
<1>6. \A s \in DOMAIN mdir.segs : s <= n
  <2>1. merger[m].out \in Seq(Segments)
    BY DEF MergeStates
  <2>2. DOMAIN mdir.segs = 1..Len(merger[m].out) /\ Len(merger[m].out) \in Nat
    BY <1>1, <2>1
  <2> QED BY <1>1, <1>3, <2>2
<1>7. Finished'
  BY <1>1, <1>2, <1>3, <1>5, <1>6 DEF Finished
<1>8. Nowhere'
  BY <1>1, <1>2, <1>5 DEF Nowhere
<1>9. Torn'
  <2>1. "merging" \in CrashIn => HintKeys(segs, mdir'.hint)
    BY <1>2, <1>5 DEF Torn
  <2>2. mdir'.fin \in Int /\ mdir'.fin > 0
    BY <1>2, <1>3, <1>5
  <2> QED BY <1>2, <2>1, <2>2, TornBusy
<1> QED BY <1>2, <1>4, <1>7, <1>8, <1>9, SoundMerger

\* The record a merge rewrites goes no further than the record it reads.
LEMMA RewrittenOrder ==
    ASSUME NEW o \in Seq(Segments), o # <<>>, NEW r \in LogRecords, NEW p \in PosSet, Before(EndOf(o), p),
           NEW c \in Nat, p[1] <= c, Len(o) <= c
    PROVE  /\ Len(Rewritten(o, r)) <= c
           /\ \A q \in PosSet : Before(p, q) => Before(EndOf(Rewritten(o, r)), q)
<1> DEFINE n == Len(o)
           l == Len(o[n])
           g == Rewritten(o, r)
           w == EndOf(g)
<1>1. /\ w = IF l = SegCap THEN <<n + 1, 1>> ELSE <<n, l + 1>>
      /\ w[1] = Len(g)
  BY RewrittenIs DEF EndOf
<1>2. /\ n \in Nat /\ n >= 1 /\ o[n] \in Segments
  BY EmptySeq, LenProperties, ElementOfSeq
<1>3. l \in Nat /\ l <= SegCap
  BY <1>2 DEF Segments
<1>4. n < p[1] \/ (n = p[1] /\ l < p[2])
  BY DEF Before, EndOf
<1>5. p[1] \in Nat /\ p[2] \in Nat /\ p[2] >= 1 /\ p[2] <= SegCap
  BY PosPair
<1> HIDE DEF w, g, n, l
<1>6. /\ w[1] \in Nat /\ w[2] \in Nat /\ w[1] <= c
      /\ w[1] < p[1] \/ (w[1] = p[1] /\ w[2] <= p[2])
  <2>1. CASE l = SegCap
    <3>1. w = <<n + 1, 1>>
      BY <1>1, <2>1
    <3> QED BY <3>1, <2>1, <1>2, <1>3, <1>4, <1>5
  <2>2. CASE l # SegCap
    <3>1. w = <<n, l + 1>>
      BY <1>1, <2>2
    <3>2. n <= c
      BY DEF n
    <3> QED BY <3>1, <3>2, <1>2, <1>3, <1>4, <1>5
  <2> QED BY <2>1, <2>2
<1>7. ASSUME NEW q \in PosSet, Before(p, q) PROVE Before(w, q)
  <2>1. q[1] \in Nat /\ q[2] \in Nat
    BY PosPair
  <2> QED BY <2>1, <1>5, <1>6, <1>7 DEF Before
<1> QED BY <1>1, <1>6, <1>7 DEF w, g

\* The record at p is rewritten.
LEMMA ScanRewritten ==
    ASSUME NEW f \in Files, NEW o \in Seq(Segments), o # <<>>, NEW h \in Seq(Hints), NEW c,
           NEW ix \in [Keys -> PosSet \cup {NoPos}], NEW todo \in SUBSET PosSet, NEW p \in PosSet, Has(f, p),
           NEW st, NEW t, ScanOK(f, o, h, c, ix, todo, st, t),
           \A k \in Keys : PosOK(f, ix[k], k, st, t),
           ix[At(f, p).key] = p
    PROVE  LET r == At(f, p)
               g == Rewritten(o, [r EXCEPT !.batchId = MergeFinishedBatchID])
           IN  ScanOK(f, g, Append(h, HintRecord(r.key, EndOf(g))), c, ix, todo \ {p}, st, t)
<1> DEFINE r == At(f, p)
           s == [r EXCEPT !.batchId = MergeFinishedBatchID]
           g == Rewritten(o, s)
           w == EndOf(g)
           j == Append(h, HintRecord(r.key, w))
<1>1. r \in LogRecords
  BY AtTyped
<1>2. /\ s \in LogRecords /\ s.type = r.type /\ s.key = r.key /\ s.value = r.value /\ s.expire = r.expire
      /\ r.key \in Keys
  BY <1>1 DEF LogRecords, MergeFinishedBatchID
<1> HIDE DEF s
<1>3. w \in PosSet /\ Adds(o, g, w, s)
  BY <1>2, RewrittenIs
<1> HIDE DEF r, g, w
<1>4. \A l : HintIn(j, l) = IF l = r.key THEN w ELSE HintIn(h, l)
  BY <1>2, <1>3, HintAppend
<1> HIDE DEF j
<1>5. SUFFICES ASSUME NEW l \in Keys, Later(f, l, c) = {}
               PROVE  ScanPos(g, j, ix, todo \ {p}, l, st, t)
  BY DEF ScanOK, r, s, g, w, j
<1>6. CASE l = r.key
  <2>1. PosOK(f, p, l, st, t)
    BY <1>6 DEF r
  <2>2. Shows(f, p, l, st[l])
    BY <2>1, NoPosNot DEF PosOK
  <2>3. r.type = "Normal" /\ r.value = st[l].value /\ r.expire = st[l].expire
    BY <2>2 DEF Shows, r
  <2>4. Has(g, w) /\ At(g, w) = s
    BY <1>3 DEF Adds
  <2>5. Shows(g, w, l, st[l])
    BY <2>3, <2>4, <1>2, <1>6 DEF Shows
  <2> QED BY <2>5, <1>4, <1>6 DEF ScanPos
<1>7. CASE l # r.key
  <2>1. HintIn(j, l) = HintIn(h, l)
    BY <1>4, <1>7
  <2>2. ScanPos(o, h, ix, todo, l, st, t)
    BY <1>5 DEF ScanOK
  <2>3. CASE Shows(o, HintIn(h, l), l, st[l])
    <3>1. Keeps(o, g)
      BY <1>3, AddsKeepsAll
    <3> QED BY <2>1, <2>3, <3>1, ShowsKept DEF ScanPos
  <2>4. CASE HintIn(h, l) = NoPos /\ Dead(st[l], t)
    BY <2>1, <2>4 DEF ScanPos
  <2>5. CASE HintIn(h, l) = NoPos /\ ix[l] \in todo
    <3>1. ix[l] # NoPos
      BY <2>5, NoPosNot
    <3>2. Shows(f, ix[l], l, st[l])
      BY <3>1 DEF PosOK
    <3>3. ix[l] # p
      BY <3>2, <1>7 DEF Shows, r
    <3> QED BY <2>1, <2>5, <3>3 DEF ScanPos
  <2> QED BY <2>2, <2>3, <2>4, <2>5 DEF ScanPos
<1> QED BY <1>6, <1>7

\* The record at p is dropped: it is not Normal, or expired, or not the one the
\* index points to.
LEMMA ScanDropped ==
    ASSUME NEW f \in Files, NEW o, NEW h, NEW c,
           NEW ix \in [Keys -> PosSet \cup {NoPos}], NEW todo \in SUBSET PosSet, NEW p \in PosSet, Has(f, p),
           NEW st \in [Keys -> Entries], NEW t \in Nat, ScanOK(f, o, h, c, ix, todo, st, t),
           \A k \in Keys : PosOK(f, ix[k], k, st, t) /\ st[k].expire >= 0,
           NEW start \in Nat, start <= t,
           ~(/\ At(f, p).type = "Normal"
             /\ At(f, p).expire = 0 \/ At(f, p).expire > start
             /\ ix[At(f, p).key] = p)
    PROVE  ScanOK(f, o, h, c, ix, todo \ {p}, st, t)
<1> SUFFICES ASSUME NEW l \in Keys, Later(f, l, c) = {}
             PROVE  ScanPos(o, h, ix, todo \ {p}, l, st, t)
  BY DEF ScanOK
<1>1. ScanPos(o, h, ix, todo, l, st, t)
  BY DEF ScanOK
<1>2. CASE ix[l] # p
  BY <1>1, <1>2 DEF ScanPos
<1>3. CASE ix[l] = p
  <2>1. Shows(f, p, l, st[l])
    BY <1>3, NoPosNot DEF PosOK
  <2>2. At(f, p).type = "Normal" /\ At(f, p).key = l /\ At(f, p).expire = st[l].expire
    BY <2>1 DEF Shows
  <2>3. st[l].expire # 0 /\ ~(st[l].expire > start)
    BY <2>2, <1>3
  <2>4. st[l].expire \in Int /\ st[l].expire >= 0
    BY DEF Entries
  <2>5. Dead(st[l], t)
    BY <2>3, <2>4 DEF Dead, IsExpired
  <2> QED BY <1>1, <2>5 DEF ScanPos
<1> QED BY <1>2, <1>3

LEMMA HintKeysAppend ==
    ASSUME NEW f, NEW h \in Seq(Hints), NEW k \in Keys, NEW p \in PosSet, HintKeys(f, h), Later(f, k, 0) # {}
    PROVE  HintKeys(f, Append(h, HintRecord(k, p)))
<1> DEFINE x == HintRecord(k, p)
<1>1. x \in Hints /\ x.key = k
  BY DEF HintRecord, Hints
<1> HIDE DEF x
<1>2. /\ DOMAIN Append(h, x) = 1..(Len(h) + 1) /\ Append(h, x)[Len(h) + 1] = x
      /\ \A i \in 1..Len(h) : Append(h, x)[i] = h[i]
      /\ DOMAIN h = 1..Len(h) /\ Len(h) \in Nat
  BY <1>1
<1>3. ASSUME NEW i \in DOMAIN Append(h, x) PROVE Later(f, Append(h, x)[i].key, 0) # {}
  <2>1. i = Len(h) + 1 \/ i \in 1..Len(h)
    BY <1>2
  <2> QED BY <2>1, <1>1, <1>2 DEF HintKeys
<1> QED BY <1>3 DEF HintKeys, x

\* What the scan keeps true, for the step of m to the state x and the directory d.
LEMMA SoundScan ==
    ASSUME LossInv, NEW m \in Mergers, merger[m].pc = "scan", NEW x \in MergeStates, NEW d \in Dirs,
           merger' = [merger EXCEPT ![m] = x], mdir' = d,
           UNCHANGED <<segs, hint, fin, index, mode, walOpen, loader, now, crashes, store>>,
           x.pc = "scan", x.prev = merger[m].prev, x.wal = merger[m].wal, x.start = merger[m].start,
           d.exists, d.hasHint, d.fin = -1, d.segs = x.out,
           x.out # <<>>, Len(x.out) <= x.prev,
           \A q \in x.todo : Before(EndOf(x.out), q) /\ q[1] <= x.prev,
           ScanOK(segs, x.out, d.hint, x.prev, index, x.todo, store, now),
           "merging" \in CrashIn => HintKeys(segs, d.hint)
    PROVE  Sound'
<1> USE LossFacts
<1>0. merger[m].pc \in Busy /\ x.pc \in Busy
  BY DEF Busy
<1> USE <1>0, OneBusy
<1>1. merger'[m] = x
  OBVIOUS
<1>2. merger[m].wal = walOpen /\ merger[m].start <= now
  BY DEF Merging
<1>3. Merging(m)'
  <2>1. /\ mode' = "open" /\ walOpen' # 0 /\ loader'.stage = "idle" /\ fin' < merger'[m].prev
        /\ merger'[m].pc = "scan" /\ merger'[m].wal = walOpen' /\ merger'[m].start <= now'
    BY <1>1, <1>2
  <2>2. /\ mdir'.exists /\ mdir'.hasHint /\ mdir'.segs = merger'[m].out /\ mdir'.fin = -1
        /\ merger'[m].out # <<>> /\ Len(merger'[m].out) <= merger'[m].prev
    BY <1>1
  <2>3. /\ ScanOK(segs', merger'[m].out, mdir'.hint, merger'[m].prev, index', merger'[m].todo, store', now')
        /\ \A p \in merger'[m].todo : Before(EndOf(merger'[m].out), p) /\ p[1] <= merger'[m].prev
    BY <1>1
  <2> QED BY <2>1, <2>2, <2>3 DEF Merging
<1>4. ~Calm'
  BY <1>0, <1>1 DEF Calm
<1>5. Nowhere' /\ Finished'
  BY DEF Nowhere, Finished
<1>6. Torn'
  BY <1>4, TornBusy
<1> QED BY <1>3, <1>5, <1>6, SoundMerger

LEMMA SoundMergeRecord ==
    ASSUME LossInv, NEW m \in Mergers, MergeRecord(m)
    PROVE  Sound'
<1> USE LossFacts
<1> DEFINE p == NextPos(m)
           r == At(segs, p)
           mg == merger[m]
           o == Rewritten(mg.out, [r EXCEPT !.batchId = MergeFinishedBatchID])
           y == [mg EXCEPT !.todo = mg.todo \ {p}, !.out = o]
           z == [mg EXCEPT !.todo = mg.todo \ {p}]
           j == Append(mdir.hint, HintRecord(r.key, EndOf(o)))
           d == [mdir EXCEPT !.segs = o, !.hint = j]
<1>0. mg.pc = "scan" /\ mg.pc \in Busy /\ mg.todo # {}
  BY DEF MergeRecord, Busy
<1>1. /\ mdir.exists /\ mdir.hasHint /\ mdir.segs = mg.out /\ mdir.fin = -1
      /\ mg.out # <<>> /\ Len(mg.out) <= mg.prev
      /\ mg.wal = walOpen /\ walOpen # 0 /\ mg.start <= now
      /\ \A q \in mg.todo : Before(EndOf(mg.out), q) /\ q[1] <= mg.prev
      /\ ScanOK(segs, mg.out, mdir.hint, mg.prev, index, mg.todo, store, now)
  BY <1>0, OneBusy DEF Merging
<1>2. mdir.id = mg.dir
  BY <1>0 DEF MergeDirOwned
<1>3. /\ UNCHANGED <<segs, hint, fin, index, mode, walOpen, loader, now, crashes, store>>
      /\ \/ Valid(r, p, mg.start) /\ merger' = [merger EXCEPT ![m] = y] /\ mdir' = d
         \/ ~Valid(r, p, mg.start) /\ merger' = [merger EXCEPT ![m] = z] /\ mdir' = mdir
  BY <1>1, <1>2, MergeRecordCases
<1>4. /\ mg \in MergeStates /\ mg.out \in Seq(Segments) /\ mg.todo \in SUBSET PosSet
      /\ mg.prev \in Nat /\ mg.start \in Nat /\ mdir \in Dirs /\ mdir.hint \in Seq(Hints)
  BY <1>0, OneBusy DEF MergeStates, Dirs
<1>5. /\ p \in mg.todo /\ p \in PosSet /\ \A q \in mg.todo : q = p \/ Before(p, q)
  BY <1>0, NextPosIs
<1>6. Has(segs, p)
  BY <1>0, <1>1, <1>5 DEF Reading
<1> HIDE DEF p
<1>7. r \in LogRecords /\ r.key \in Keys /\ [r EXCEPT !.batchId = MergeFinishedBatchID] \in LogRecords
  BY <1>6, AtTyped DEF LogRecords, MergeFinishedBatchID
<1>8. \A k \in Keys : PosOK(segs, index[k], k, store, now) /\ store[k].expire >= 0
  BY <1>1 DEF IndexOK, Times
<1>9. CASE Valid(r, p, mg.start) /\ merger' = [merger EXCEPT ![m] = y] /\ mdir' = d
  <2>1. /\ o \in Seq(Segments) /\ o # <<>> /\ EndOf(o) \in PosSet
    BY <1>1, <1>4, <1>7, RewrittenIs
  <2>2. /\ Len(o) <= mg.prev /\ \A q \in PosSet : Before(p, q) => Before(EndOf(o), q)
    BY <1>1, <1>4, <1>5, <1>7, RewrittenOrder
  <2>3. ScanOK(segs, o, j, mg.prev, index, mg.todo \ {p}, store, now)
    <3>1. index[r.key] = p
      BY <1>9 DEF Valid
    <3> DEFINE u == mg.out
               h == mdir.hint
               c == mg.prev
               T == mg.todo
    <3>2. /\ u \in Seq(Segments) /\ u # <<>> /\ h \in Seq(Hints) /\ T \in SUBSET PosSet
          /\ ScanOK(segs, u, h, c, index, T, store, now)
          /\ \A k \in Keys : PosOK(segs, index[k], k, store, now)
          /\ index[At(segs, p).key] = p
      BY <3>1, <1>1, <1>4, <1>8
    <3> HIDE DEF u, h, c, T
    <3>3. LET s == At(segs, p)
              g == Rewritten(u, [s EXCEPT !.batchId = MergeFinishedBatchID])
          IN  ScanOK(segs, g, Append(h, HintRecord(s.key, EndOf(g))), c, index, T \ {p}, store, now)
      BY <3>2, <1>5, <1>6, ScanRewritten
    <3> QED BY <3>3 DEF u, h, c, T
  <2>4. "merging" \in CrashIn => HintKeys(segs, j)
    <3>1. p \in Later(segs, r.key, 0)
      <4>1. p[1] > 0
        BY <1>5, PosPair
      <4> QED BY <4>1, <1>6, LaterIs
    <3>2. "merging" \in CrashIn => HintKeys(segs, mdir.hint)
      BY <1>0, OneBusy DEF Torn
    <3> QED BY <3>1, <3>2, <1>4, <1>7, <2>1, HintKeysAppend
  <2>5. j \in Seq(Hints) /\ o \in Files
    BY <1>4, <1>7, <2>1, SequencesAreFiles DEF HintRecord, Hints
  <2> HIDE DEF r, o, j
  <2>6. /\ y \in MergeStates /\ y.pc = "scan" /\ y.prev = mg.prev /\ y.wal = mg.wal /\ y.start = mg.start
        /\ y.out = o /\ y.todo = mg.todo \ {p}
    BY <1>0, <1>4, <2>1 DEF MergeStates
  <2>7. /\ d \in Dirs /\ d.exists /\ d.hasHint /\ d.fin = -1 /\ d.segs = o /\ d.hint = j
    BY <1>1, <1>4, <2>5 DEF Dirs
  <2> HIDE DEF y, d
  <2>8. \A q \in y.todo : Before(EndOf(o), q) /\ q[1] <= mg.prev
    BY <1>1, <1>4, <1>5, <2>2, <2>6
  <2> QED BY <1>0, <1>3, <1>9, <2>1, <2>2, <2>3, <2>4, <2>6, <2>7, <2>8, SoundScan
<1>10. CASE ~Valid(r, p, mg.start) /\ merger' = [merger EXCEPT ![m] = z] /\ mdir' = mdir
  <2>1. ScanOK(segs, mg.out, mdir.hint, mg.prev, index, mg.todo \ {p}, store, now)
    <3>1. ~(/\ At(segs, p).type = "Normal"
            /\ At(segs, p).expire = 0 \/ At(segs, p).expire > mg.start
            /\ index[At(segs, p).key] = p)
      BY <1>10 DEF Valid
    <3> QED BY <3>1, <1>1, <1>4, <1>5, <1>6, <1>8, ScanDropped
  <2>2. "merging" \in CrashIn => HintKeys(segs, mdir.hint)
    BY <1>0, OneBusy DEF Torn
  <2>3. /\ z \in MergeStates /\ z.pc = "scan" /\ z.prev = mg.prev /\ z.wal = mg.wal /\ z.start = mg.start
        /\ z.out = mg.out /\ z.todo = mg.todo \ {p}
    BY <1>0, <1>4 DEF MergeStates
  <2> HIDE DEF z
  <2> QED BY <1>0, <1>1, <1>3, <1>4, <1>10, <2>1, <2>2, <2>3, SoundScan
<1> QED BY <1>3, <1>9, <1>10

LEMMA SoundMergeLock ==
    ASSUME LossInv, Careful, NEW m \in Mergers, MergeLock(m)
    PROVE  Sound'
<1> USE LossFacts
<1>1. /\ merger[m].pc = "lock" /\ loader.stage = "idle" /\ loader' = Load(m) /\ walOpen' = 0
      /\ merger' = [merger EXCEPT ![m].pc = "loading"]
      /\ UNCHANGED <<segs, hint, fin, mdir, index, mode, now, crashes, store>>
  BY DEF MergeLock, disk, clocks, closeFiles
<1>2. mode = "open"
  BY <1>1 DEF Shut, AllIdle
<1>3. TRUE \in Reopens /\ \A k, n \in Mergers : k = n
  BY <1>1 DEF Reopening
<1>4. "merging" \notin CrashIn
  BY <1>3 DEF Careful
<1>5. merger'[m].pc = "loading"
  BY <1>1 DEF MergeStates
<1>6. Calm /\ Calm'
  BY <1>1, <1>3, <1>5 DEF Calm, Busy
<1>7. loader'.stage = "begin"
  BY <1>1, LoadTyped
<1>8. Times' /\ Shut' /\ Nowhere' /\ IndexOK'
  BY <1>1, <1>2, <1>7 DEF Times, Shut, Nowhere, IndexOK
<1>9. Whole' /\ Finished' /\ Loading'
  BY <1>1, <1>7 DEF Whole, DiskOK, Finished, Loading
<1>10. Torn'
  BY <1>1, <1>4, <1>6, <1>7 DEF Torn
<1>11. Mergings'
  BY <1>6 DEF Mergings, Calm
<1> QED BY <1>8, <1>9, <1>10, <1>11 DEF Sound
-----------------------------------------------------------------------------
(* Nothing is lost: the steps of a load                                    *)

\* While a load is under way nothing else is: no merge, no open files.
LEMMA LoadAlone ==
    ASSUME LossInv, loader.stage # "idle"
    PROVE  /\ Calm /\ walOpen = 0
           /\ loader.who = "open" => mode = "opening" /\ AllIdle
           /\ loader.who # "open" => mode = "open" /\ loader.who \in Mergers /\ TRUE \in Reopens
<1> USE LossFacts
<1>1. Calm /\ walOpen = 0
  BY DEF Roles, Reading, Shut
<1>2. loader.who = "open" => mode = "opening" /\ AllIdle
  BY DEF Reading
<1>3. ASSUME loader.who # "open" PROVE mode = "open" /\ loader.who \in Mergers /\ TRUE \in Reopens
  <2>1. loader.who \in Mergers /\ merger[loader.who].pc = "loading"
    BY <1>3 DEF Roles
  <2>2. TRUE \in Reopens
    BY <2>1 DEF Reopening
  <2>3. mode = "open"
    BY <2>1 DEF Shut, AllIdle
  <2> QED BY <2>1, <2>2, <2>3
<1> QED BY <1>1, <1>2, <1>3

LEMMA SoundLoading ==
    ASSUME LossInv, loader.stage # "idle", UNCHANGED <<mode, merger, walOpen, now, store, crashes>>,
           Nowhere', Whole', Finished', Loading', Torn'
    PROVE  Sound'
<1> USE LossFacts, LoadAlone
<1>1. Times' /\ Shut' /\ IndexOK'
  BY DEF Times, Shut, IndexOK, AllIdle
<1>2. Mergings'
  BY DEF Mergings, Calm
<1> QED BY <1>1, <1>2 DEF Sound

\* The goroutine that loaded returns.
LEMMA LoadReturns ==
    ASSUME LossInv, loader.stage # "idle", loader' = NoLoad,
           merger' = IF loader.who = "open" THEN merger ELSE [merger EXCEPT ![loader.who] = NoMerge]
    PROVE  /\ Calm' /\ Mergings' /\ loader'.stage = "idle" /\ loader'.n = 0
           /\ loader.who = "open" => AllIdle'
<1> USE LossFacts, LoadAlone
<1>1. \A n \in Mergers : merger'[n].pc = merger[n].pc \/ merger'[n].pc = "idle"
  BY Returned
<1>2. Calm'
  BY <1>1 DEF Calm, Busy
<1>3. Mergings'
  BY <1>2 DEF Mergings, Calm
<1>4. loader.who = "open" => AllIdle'
  BY DEF AllIdle
<1> QED BY <1>2, <1>3, <1>4 DEF NoLoad

LEMMA NoDirIs == ~NoDir.exists /\ NoDir.fin = -1 /\ NoDir.hint = <<>>
BY DEF NoDir

LEMMA SoundLoadFails ==
    ASSUME LossInv, Careful, LoadBegin, mdir.exists, mdir.fin = 0
    PROVE  Sound'
<1> USE LossFacts
<1>1. /\ loader.stage = "begin" /\ mdir' = NoDir /\ loader' = NoLoad
      /\ mode' = IF loader.who = "open" THEN "failed" ELSE mode
      /\ merger' = IF loader.who = "open" THEN merger ELSE [merger EXCEPT ![loader.who] = NoMerge]
      /\ UNCHANGED <<segs, hint, fin, index, walOpen, now, crashes, store>>
  BY DEF LoadBegin, LoadFails, disk, clocks
<1>2. /\ Calm /\ walOpen = 0
      /\ loader.who = "open" => mode = "opening" /\ AllIdle
      /\ loader.who # "open" => mode = "open" /\ TRUE \in Reopens
  BY <1>1, LoadAlone
<1>3. /\ Calm' /\ Mergings' /\ loader'.stage = "idle" /\ loader'.n = 0
      /\ loader.who = "open" => AllIdle'
  BY <1>1, LoadReturns
<1>4. Times' /\ Shut' /\ IndexOK'
  BY <1>1, <1>2, <1>3 DEF Times, Shut, IndexOK
<1>5. Nowhere' /\ Finished' /\ Loading'
  BY <1>1, <1>3, NoDirIs DEF Nowhere, Finished, Loading
<1>6. Whole'
  BY <1>1 DEF Whole, DiskOK
<1>7. Torn'
  <2>1. HintKeys(segs', mdir'.hint)
    BY <1>1, NoDirIs, HintKeysEmpty
  <2> QED BY <1>1, <1>2, <1>3, <2>1, NoDirIs DEF Torn
<1> QED BY <1>3, <1>4, <1>5, <1>6, <1>7 DEF Sound

LEMMA SoundLoadBegin ==
    ASSUME LossInv, Careful, LoadBegin
    PROVE  Sound'
<1> USE LossFacts
<1>1. /\ loader.stage = "begin" /\ UNCHANGED <<segs, hint, fin, index, walOpen, now, crashes, store>>
  BY DEF LoadBegin, disk, clocks
<1>2. Calm /\ Whole /\ DiskOK
  BY <1>1, LoadAlone DEF Whole
<1>3. CASE ~mdir.exists
  <2>1. loader' = [loader EXCEPT !.stage = "reopen"] /\ UNCHANGED <<mdir, mode, merger>>
    BY <1>3 DEF LoadBegin, Goto
  <2>2. loader'.stage = "reopen"
    BY <2>1 DEF Loads
  <2>3. Nowhere' /\ Finished' /\ Loading'
    BY <2>1, <2>2, <1>3 DEF Nowhere, Finished, Loading
  <2>4. Whole'
    BY <1>1, <1>2 DEF Whole, DiskOK
  <2>5. Torn'
    BY <1>1, <1>3, <2>1, <2>2 DEF Torn
  <2> QED BY <1>1, <2>1, <2>3, <2>4, <2>5, SoundLoading
<1>4. CASE mdir.exists /\ mdir.fin = 0
  BY <1>4, SoundLoadFails
<1>5. CASE mdir.exists /\ mdir.fin < 0
  <2>1. loader' = [loader EXCEPT !.n = 0, !.i = 1, !.stage = "fin"] /\ UNCHANGED <<mdir, mode, merger>>
    BY <1>5 DEF LoadBegin
  <2>2. loader'.stage = "fin" /\ loader'.n = 0
    BY <2>1 DEF Loads
  <2>3. mdir.fin = -1
    BY <1>5, BelowActive
  <2>4. Nowhere' /\ Finished' /\ Loading'
    BY <2>1, <2>2, <2>3, <1>5 DEF Nowhere, Finished, Loading
  <2>5. Whole'
    BY <1>1, <1>2 DEF Whole, DiskOK
  <2>6. Torn'
    BY <1>1, <1>2, <2>1, <2>2, <2>3, <1>5 DEF Torn
  <2> QED BY <1>1, <2>1, <2>4, <2>5, <2>6, SoundLoading
<1>6. CASE mdir.exists /\ mdir.fin > 0
  <2> DEFINE n == mdir.fin
  <2>2. n \in Nat /\ n > 0
    BY <1>6, BelowActive
  <2>1. loader' = [loader EXCEPT !.n = n, !.i = 1, !.stage = "remove"] /\ UNCHANGED <<mdir, mode, merger>>
    <3>1. ~(mdir.fin < 0) /\ mdir.fin # 0
      BY <2>2
    <3> QED BY <1>6, <3>1 DEF LoadBegin
  <2>3. /\ fin < n /\ mdir.hasHint /\ \A s \in DOMAIN mdir.segs : s <= n
        /\ HintOK(segs, mdir.segs, mdir.hint, n, store, now)
    BY <1>1, <1>6 DEF Finished
  <2>4. loader'.stage = "remove" /\ loader'.n = n /\ loader'.i = 1
    <3> HIDE DEF n
    <3> QED BY <2>1 DEF Loads
  <2>5. LogOK(segs, n, store)
    BY <1>2, <2>2, <2>3, LogCut DEF DiskOK
  <2>6. MoveOK(segs, mdir.segs, mdir.hint, 1, n, store, now)
    <3> SUFFICES ASSUME NEW k \in Keys, Later(segs, k, n) = {}
                 PROVE  MovePos(segs, mdir.segs, mdir.hint, 1, k, store, now)
      BY DEF MoveOK
    <3>1. PosOK(mdir.segs, HintIn(mdir.hint, k), k, store, now)
      BY <2>3 DEF HintOK
    <3>2. Shows(mdir.segs, HintIn(mdir.hint, k), k, store[k]) => HintIn(mdir.hint, k)[1] >= 1
      BY PosPair DEF Shows, Has
    <3> QED BY <3>1, <3>2 DEF PosOK, MovePos
  <2>7. Loading'
    BY <1>1, <2>1, <2>2, <2>3, <2>4, <2>5, <2>6 DEF Loading
  <2>8. Nowhere' /\ Finished' /\ Whole'
    BY <2>1, <2>2, <2>4, <1>6 DEF Nowhere, Finished, Whole
  <2>9. Torn'
    BY <1>1, <2>1, <2>2, <2>4, <1>6 DEF Torn
  <2> QED BY <1>1, <2>1, <2>7, <2>8, <2>9, SoundLoading
<1> QED BY <1>3, <1>4, <1>5, <1>6, BelowActive

\* The loop over the segments up to n keeps those above.
LEMMA WithoutBelow ==
    ASSUME NEW f \in Files, NEW i \in Nat, NEW c \in Nat, i <= c
    PROVE  /\ Without(f, i) \in Files /\ SameAbove(f, Without(f, i), c)
           /\ \A p : Has(f, p) /\ p[1] # i => Has(Without(f, i), p) /\ At(Without(f, i), p) = At(f, p)
<1>1. /\ Without(f, i) \in Files
      /\ \A s : s \in DOMAIN Without(f, i) <=> s \in DOMAIN f /\ s # i
      /\ \A s \in DOMAIN f : s # i => Without(f, i)[s] = f[s]
  BY WithoutIs
<1>2. ASSUME NEW p, p[1] # i
      PROVE  (Has(f, p) <=> Has(Without(f, i), p)) /\ (Has(f, p) => At(Without(f, i), p) = At(f, p))
  BY <1>1, <1>2 DEF Has, At
<1>3. ASSUME NEW p \in PosSet, p[1] > c PROVE p[1] # i
  BY <1>3, PosPair
<1> QED BY <1>1, <1>2, <1>3 DEF SameAbove

LEMMA WithBelow ==
    ASSUME NEW f \in Files, NEW i \in Nat \ {0}, NEW x \in Segments, NEW c \in Nat, i <= c
    PROVE  /\ With(f, i, x) \in Files /\ SameAbove(f, With(f, i, x), c)
           /\ \A p : Has(f, p) /\ p[1] # i => Has(With(f, i, x), p) /\ At(With(f, i, x), p) = At(f, p)
<1> DEFINE g == With(f, i, x)
<1>1. /\ g \in Files
      /\ \A s : s \in DOMAIN g <=> s \in DOMAIN f \/ s = i
      /\ \A s \in DOMAIN f : s # i => g[s] = f[s]
  BY WithIs
<1> HIDE DEF g
<1>2. ASSUME NEW p, p[1] # i
      PROVE  (Has(f, p) <=> Has(g, p)) /\ (Has(f, p) => At(g, p) = At(f, p))
  BY <1>1, <1>2 DEF Has, At
<1>3. ASSUME NEW p \in PosSet, p[1] > c PROVE p[1] # i
  BY <1>3, PosPair
<1> QED BY <1>1, <1>2, <1>3 DEF SameAbove, g

LEMMA SoundLoadRemove ==
    ASSUME LossInv, LoadRemove
    PROVE  Sound'
<1> USE LossFacts
<1> DEFINE n == loader.n
           i == loader.i
           h == mdir.hint
<1>1. /\ loader.stage = "remove" /\ segs' = Without(segs, i)
      /\ loader' = [loader EXCEPT !.stage = "move"]
      /\ UNCHANGED <<hint, fin, mdir, index, mode, walOpen, merger, now, crashes, store>>
  BY DEF LoadRemove, Goto, Without, clocks
<1>2. loader'.stage = "move" /\ loader'.n = n /\ loader'.i = i
  BY <1>1 DEF Loads
<1>3. n \in Nat /\ n > 0 /\ i \in Nat /\ i >= 1 /\ i <= n
  BY <1>1, BelowActive DEF TypeInv, Beyond
<1>4. /\ mdir.fin = n /\ mdir.hasHint /\ \A s \in DOMAIN mdir.segs : s <= n
      /\ LogOK(segs, n, store) /\ MoveOK(segs, mdir.segs, h, i, n, store, now)
  BY <1>1, <1>3 DEF Loading
<1>5. /\ segs' \in Files /\ SameAbove(segs, segs', n)
      /\ \A p : Has(segs, p) /\ p[1] # i => Has(segs', p) /\ At(segs', p) = At(segs, p)
  BY <1>1, <1>3, WithoutBelow
<1>6. LogOK(segs', n, store)
  BY <1>3, <1>4, <1>5, LogSame
<1>7. MoveOK(segs', mdir.segs, h, i, n, store, now)
  <2> SUFFICES ASSUME NEW k \in Keys, Later(segs', k, n) = {} PROVE MovePos(segs', mdir.segs, h, i, k, store, now)
    BY DEF MoveOK
  <2>1. MovePos(segs, mdir.segs, h, i, k, store, now)
    BY <1>3, <1>4, <1>5, LaterSame DEF MoveOK
  <2>2. ASSUME HintIn(h, k)[1] < i, Shows(segs, HintIn(h, k), k, store[k])
        PROVE  Shows(segs', HintIn(h, k), k, store[k])
    <3>1. HintIn(h, k)[1] # i
      BY <2>2, <1>3, PosPair DEF Shows, Has
    <3> QED BY <2>2, <3>1, <1>5 DEF Shows
  <2> QED BY <2>1, <2>2 DEF MovePos
<1>8. Loading'
  BY <1>1, <1>2, <1>3, <1>4, <1>6, <1>7 DEF Loading
<1>9. Nowhere' /\ Finished' /\ Whole'
  BY <1>1, <1>2, <1>3 DEF Nowhere, Finished, Whole
<1>10. Torn'
  BY <1>1, <1>2, <1>3 DEF Torn
<1> QED BY <1>1, <1>8, <1>9, <1>10, SoundLoading

LEMMA SoundLoadMove ==
    ASSUME LossInv, LoadMove
    PROVE  Sound'
<1> USE LossFacts
<1> DEFINE n == loader.n
           i == loader.i
           h == mdir.hint
           g == mdir.segs
           s1 == IF i < n THEN "remove" ELSE "fin"
<1>1. /\ loader.stage = "move"
      /\ segs' = IF Moves THEN With(segs, i, g[i]) ELSE segs
      /\ mdir' = IF Moves THEN [mdir EXCEPT !.segs = Without(g, i)] ELSE mdir
      /\ loader' = [loader EXCEPT !.i = i + 1, !.stage = s1]
      /\ UNCHANGED <<hint, fin, index, mode, walOpen, merger, now, crashes, store>>
  BY LoadMoveIs
<1>2. n \in Nat /\ n > 0 /\ i \in Nat \ {0} /\ i <= n /\ g \in Files
  BY <1>1, BelowActive DEF TypeInv, Beyond
<1>3. /\ mdir.fin = n /\ mdir.hasHint /\ \A s \in DOMAIN g : s <= n
      /\ LogOK(segs, n, store) /\ MoveOK(segs, g, h, i, n, store, now)
  BY <1>1, <1>2 DEF Loading
<1>4. /\ s1 \in {"remove", "fin"} /\ (s1 = "fin" => i + 1 = n + 1)
  BY <1>2
<1> HIDE DEF s1
<1>5. loader'.stage = s1 /\ loader'.n = n /\ loader'.i = i + 1
  BY <1>1 DEF Loads
<1>6. /\ mdir'.fin = mdir.fin /\ mdir'.hasHint = mdir.hasHint /\ mdir'.hint = h /\ mdir'.exists = mdir.exists
      /\ mdir'.segs = IF Moves THEN Without(g, i) ELSE g
  BY <1>1 DEF Dirs
<1>7. i \in DOMAIN g => g[i] \in Segments
  BY <1>2, FilesDef
<1>8. Moves <=> i \in DOMAIN g /\ g[i] # <<>>
  BY DEF Moves
<1> HIDE DEF n, i, h, g
<1>9. /\ segs' \in Files /\ SameAbove(segs, segs', n)
      /\ \A p : Has(segs, p) /\ p[1] # i => Has(segs', p) /\ At(segs', p) = At(segs, p)
  <2>1. CASE Moves
    BY <2>1, <1>1, <1>2, <1>7, <1>8, WithBelow
  <2>2. CASE ~Moves
    BY <2>2, <1>1 DEF SameAbove
  <2> QED BY <2>1, <2>2
<1>10. /\ \A p : Has(g, p) /\ p[1] # i => Has(mdir'.segs, p) /\ At(mdir'.segs, p) = At(g, p)
       /\ \A s \in DOMAIN mdir'.segs : s \in DOMAIN g
  <2>1. CASE Moves
    BY <2>1, <1>2, <1>6, WithoutBelow, WithoutIs
  <2>2. CASE ~Moves
    BY <2>2, <1>6
  <2> QED BY <2>1, <2>2
<1>11. \A p : Has(g, p) /\ p[1] = i => Has(segs', p) /\ At(segs', p) = At(g, p)
  <2> SUFFICES ASSUME NEW p, Has(g, p), p[1] = i PROVE Has(segs', p) /\ At(segs', p) = At(g, p)
    OBVIOUS
  <2>1. i \in DOMAIN g /\ p \in PosSet /\ p[2] <= Len(g[i]) /\ p[2] \in Nat /\ p[2] >= 1
    BY PosPair DEF Has
  <2>2. g[i] # <<>>
    <3>1. Len(<<>>) = 0
      OBVIOUS
    <3> QED BY <2>1, <3>1
  <2>3. Moves /\ g[i] \in Segments
    BY <2>1, <2>2, <1>7, <1>8
  <2>4. segs' = With(segs, i, g[i])
    BY <2>3, <1>1
  <2>5. i \in DOMAIN segs' /\ segs'[i] = g[i]
    BY <2>3, <2>4, <1>2, WithIs
  <2> QED BY <2>1, <2>5 DEF Has, At
<1>12. LogOK(segs', n, store)
  BY <1>2, <1>3, <1>9, LogSame
<1>13. MoveOK(segs', mdir'.segs, h, i + 1, n, store, now)
  <2> SUFFICES ASSUME NEW k \in Keys, Later(segs', k, n) = {}
               PROVE  MovePos(segs', mdir'.segs, h, i + 1, k, store, now)
    BY DEF MoveOK
  <2> DEFINE q == HintIn(h, k)
  <2>1. MovePos(segs, g, h, i, k, store, now)
    BY <1>2, <1>3, <1>9, LaterSame DEF MoveOK
  <2> HIDE DEF q
  <2>2. \/ q = NoPos /\ Dead(store[k], now)
        \/ q[1] < i /\ Shows(segs, q, k, store[k])
        \/ q[1] >= i /\ Shows(g, q, k, store[k])
    BY <2>1 DEF MovePos, q
  <2>3. SUFFICES \/ q = NoPos /\ Dead(store[k], now)
                 \/ q[1] < i + 1 /\ Shows(segs', q, k, store[k])
                 \/ q[1] >= i + 1 /\ Shows(mdir'.segs, q, k, store[k])
    BY DEF MovePos, q
  <2>4. CASE q[1] < i /\ Shows(segs, q, k, store[k])
    <3>1. q[1] # i /\ q[1] < i + 1
      BY <2>4, <1>2, PosPair DEF Shows, Has
    <3> QED BY <2>4, <3>1, <1>9 DEF Shows
  <2>5. CASE q[1] >= i /\ Shows(g, q, k, store[k])
    <3>1. q[1] \in Nat
      BY <2>5, PosPair DEF Shows, Has
    <3>2. CASE q[1] = i
      <4>1. Shows(segs', q, k, store[k])
        BY <2>5, <3>2, <1>11 DEF Shows
      <4> QED BY <3>2, <4>1, <1>2
    <3>3. CASE q[1] # i
      <4>1. Shows(mdir'.segs, q, k, store[k])
        BY <2>5, <3>3, <1>10 DEF Shows
      <4> QED BY <2>5, <3>1, <3>3, <4>1, <1>2
    <3> QED BY <3>2, <3>3
  <2> QED BY <2>2, <2>4, <2>5
<1>14. Loading'
  <2>1. \A s \in DOMAIN mdir'.segs : s <= n
    BY <1>3, <1>10
  <2> QED BY <1>1, <1>2, <1>3, <1>4, <1>5, <1>6, <1>12, <1>13, <2>1 DEF Loading
<1>15. Nowhere' /\ Finished' /\ Whole'
  <2>1. mdir'.exists
    BY <1>1, <1>2, <1>3, <1>6 DEF Nowhere, NoDir
  <2> QED BY <1>1, <1>2, <1>4, <1>5, <2>1 DEF Nowhere, Finished, Whole
<1>16. Torn'
  BY <1>1, <1>2, <1>4, <1>5, <1>6 DEF Torn
<1> QED BY <1>1, <1>14, <1>15, <1>16, SoundLoading

LEMMA SoundLoadMergeFin ==
    ASSUME LossInv, Careful, LoadMergeFin
    PROVE  Sound'
<1> USE LossFacts
<1> DEFINE n == loader.n
           h == mdir.hint
<1>1. /\ loader.stage = "fin" /\ fin' = (IF mdir.fin > 0 THEN mdir.fin ELSE fin)
      /\ mdir' = [mdir EXCEPT !.fin = -1] /\ loader' = [loader EXCEPT !.stage = "hint"]
      /\ UNCHANGED <<segs, hint, index, mode, walOpen, merger, now, crashes, store>>
  BY DEF LoadMergeFin, Goto, clocks
<1>2. loader'.stage = "hint" /\ loader'.n = n /\ n \in Nat
  BY <1>1, BelowActive DEF Loads
<1>3. /\ mdir'.fin = -1 /\ mdir'.hasHint = mdir.hasHint /\ mdir'.hint = h /\ mdir'.exists = mdir.exists
  BY <1>1 DEF Dirs
<1>4. Finished'
  BY <1>2 DEF Finished
<1>5. mdir.exists \/ mdir = NoDir
  BY DEF Nowhere
<1>6. Nowhere'
  <2>1. ASSUME ~mdir.exists PROVE mdir' = mdir
    <3>1. mdir = NoDir /\ mdir.fin = -1
      BY <2>1, <1>5 DEF NoDir
    <3> QED BY <1>1, <3>1 DEF NoDir
  <2> QED BY <1>2, <1>3, <1>5, <2>1 DEF Nowhere
<1>7. CASE n > 0
  <2>1. /\ mdir.fin = n /\ mdir.hasHint /\ loader.i = n + 1 /\ \A s \in DOMAIN mdir.segs : s <= n
        /\ LogOK(segs, n, store) /\ MoveOK(segs, mdir.segs, h, n + 1, n, store, now)
    BY <1>1, <1>7 DEF Loading
  <2>2. fin' = n
    BY <1>1, <1>7, <2>1
  <2>3. HintOK(segs, segs, h, n, store, now)
    <3> SUFFICES ASSUME NEW k \in Keys, Later(segs, k, n) = {} PROVE PosOK(segs, HintIn(h, k), k, store, now)
      BY DEF HintOK
    <3>1. MovePos(segs, mdir.segs, h, n + 1, k, store, now)
      BY <2>1 DEF MoveOK
    <3>2. ~(HintIn(h, k)[1] >= n + 1 /\ Shows(mdir.segs, HintIn(h, k), k, store[k]))
      BY <1>2, <2>1, PosPair DEF Shows, Has
    <3> QED BY <3>1, <3>2 DEF MovePos, PosOK
  <2>4. Loading'
    BY <1>1, <1>2, <1>3, <1>7, <2>1, <2>2, <2>3 DEF Loading
  <2>5. Whole'
    BY <1>2, <1>7 DEF Whole
  <2>6. Torn'
    <3>1. crashes = 0 /\ "merging" \in CrashIn => fin' = 0
      <4>1. TRUE \in Reopens \/ mode = "opening"
        BY <1>1, LoadAlone
      <4> QED BY <4>1 DEF Torn, Careful
    <3> QED BY <1>1, <1>2, <1>3, <1>7, <3>1 DEF Torn
  <2> QED BY <1>1, <1>4, <1>6, <2>4, <2>5, <2>6, SoundLoading
<1>8. CASE n = 0
  <2>1. mdir.fin = -1
    BY <1>1, <1>8 DEF Loading
  <2>2. fin' = fin
    BY <1>1, <2>1
  <2>3. Loading'
    BY <1>2, <1>8 DEF Loading
  <2>4. Whole'
    BY <1>1, <1>2, <1>8, <2>2 DEF Whole, DiskOK
  <2>5. "merging" \in CrashIn => fin = 0
    <3>1. TRUE \in Reopens \/ mode = "opening"
      BY <1>1, LoadAlone
    <3> QED BY <1>1, <3>1 DEF Torn, Careful
  <2>6. Torn'
    BY <1>1, <1>2, <1>3, <1>8, <2>2, <2>5 DEF Torn
  <2> QED BY <1>1, <1>4, <1>6, <2>3, <2>4, <2>6, SoundLoading
<1> QED BY <1>2, <1>7, <1>8

\* An unfinished merge leaves hints only of keys that still have a record in the
\* log, which is replayed as a whole.
LEMMA HintsReplayed ==
    ASSUME NEW f \in Files, NEW h \in Seq(Hints), NEW j, NEW st, NEW t, HintKeys(f, h), HintOK(f, f, j, 0, st, t)
    PROVE  HintOK(f, f, h, 0, st, t)
<1> SUFFICES ASSUME NEW k \in Keys, Later(f, k, 0) = {} PROVE PosOK(f, HintIn(h, k), k, st, t)
  BY DEF HintOK
<1>1. HintIn(h, k) = NoPos
  <2>1. \A i \in DOMAIN h : h[i].key # k
    BY DEF HintKeys
  <2> QED BY <2>1, HintNone
<1>2. ~Shows(f, HintIn(j, k), k, st[k])
  <2>1. SUFFICES ASSUME Shows(f, HintIn(j, k), k, st[k]) PROVE FALSE
    OBVIOUS
  <2>2. Has(f, HintIn(j, k)) /\ At(f, HintIn(j, k)).key = k /\ HintIn(j, k)[1] > 0
    BY <2>1, PosPair DEF Shows, Has
  <2>3. 0 \in Nat
    OBVIOUS
  <2>4. HintIn(j, k) \in Later(f, k, 0)
    BY <2>2, <2>3, LaterIs
  <2> QED BY <2>4
<1>3. PosOK(f, HintIn(j, k), k, st, t)
  BY DEF HintOK
<1> QED BY <1>1, <1>2, <1>3 DEF PosOK

LEMMA SoundLoadHint ==
    ASSUME LossInv, LoadHint
    PROVE  Sound'
<1> USE LossFacts
<1> DEFINE n == loader.n
           h == mdir.hint
<1>1. /\ loader.stage = "hint" /\ hint' = (IF mdir.hasHint THEN h ELSE hint)
      /\ mdir' = [mdir EXCEPT !.hasHint = FALSE, !.hint = <<>>] /\ loader' = [loader EXCEPT !.stage = "rmdir"]
      /\ UNCHANGED <<segs, fin, index, mode, walOpen, merger, now, crashes, store>>
  BY DEF LoadHint, Goto, clocks
<1>2. loader'.stage = "rmdir" /\ loader'.n = n /\ n \in Nat /\ h \in Seq(Hints)
  BY <1>1, BelowActive DEF Loads
<1>3. mdir'.hint = <<>> /\ mdir'.exists = mdir.exists
  BY <1>1 DEF Dirs
<1>4. Finished' /\ Loading'
  BY <1>2 DEF Finished, Loading
<1>5. Nowhere'
  <2>1. ASSUME ~mdir.exists PROVE mdir' = mdir
    <3>1. mdir = NoDir
      BY <2>1 DEF Nowhere
    <3>2. mdir.hasHint = FALSE /\ mdir.hint = <<>>
      BY <3>1 DEF NoDir
    <3>3. [mdir EXCEPT !.hasHint = FALSE, !.hint = <<>>] = mdir
      BY <3>2 DEF Dirs
    <3> QED BY <1>1, <3>3
  <2> QED BY <1>2, <1>3, <2>1 DEF Nowhere
<1>6. Torn'
  <2>1. HintKeys(segs', mdir'.hint)
    BY <1>3, HintKeysEmpty
  <2> QED BY <1>1, <1>2, <2>1 DEF Torn
<1>7. Whole'
  <2>1. CASE n > 0
    <3>1. /\ fin = n /\ mdir.hasHint /\ LogOK(segs, fin, store) /\ HintOK(segs, segs, h, fin, store, now)
      BY <1>1, <2>1 DEF Loading
    <3> QED BY <1>1, <3>1 DEF Whole, DiskOK
  <2>2. CASE n = 0
    <3>1. DiskOK
      BY <2>2 DEF Whole
    <3>2. fin = 0 /\ HintKeys(segs, h)
      BY <1>1, <2>2 DEF Torn
    <3>3. HintOK(segs, segs, h, fin, store, now)
      BY <1>2, <3>1, <3>2, HintsReplayed DEF DiskOK
    <3> QED BY <1>1, <3>1, <3>3 DEF Whole, DiskOK
  <2> QED BY <1>2, <2>1, <2>2
<1> QED BY <1>1, <1>4, <1>5, <1>6, <1>7, SoundLoading

LEMMA SoundLoadRemoveDir ==
    ASSUME LossInv, LoadRemoveDir
    PROVE  Sound'
<1> USE LossFacts
<1>1. /\ loader.stage = "rmdir" /\ mdir' = NoDir /\ loader' = [loader EXCEPT !.stage = "reopen"]
      /\ UNCHANGED <<segs, hint, fin, index, mode, walOpen, merger, now, crashes, store>>
  BY DEF LoadRemoveDir, Goto, clocks, disk
<1>2. loader'.stage = "reopen"
  BY <1>1 DEF Loads
<1>3. Nowhere' /\ Finished' /\ Loading'
  BY <1>1, <1>2, NoDirIs DEF Nowhere, Finished, Loading
<1>4. Whole'
  BY <1>1 DEF Whole, DiskOK
<1>5. Torn'
  <2>1. HintKeys(segs', mdir'.hint)
    BY <1>1, NoDirIs, HintKeysEmpty
  <2> QED BY <1>1, <1>2, <2>1, NoDirIs DEF Torn
<1> QED BY <1>1, <1>3, <1>4, <1>5, SoundLoading

\* What Open reads from sound files is a right index.
LEMMA LoadIndexOK ==
    ASSUME TypeInv, DiskOK, store \in [Keys -> Entries], NEW k \in Keys
    PROVE  PosOK(segs, loadIndex[k], k, store, now)
<1> DEFINE L == Later(segs, k, fin)
<1>0. segs \in Files /\ fin \in Nat
  BY DEF TypeInv, Typed
<1>1. loadIndex[k] = WALPos(k, HintIn(hint, k))
  BY HintPosIs DEF loadIndex
<1>2. CASE L = {}
  <2>1. WALPos(k, HintIn(hint, k)) = HintIn(hint, k)
    BY <1>2, WALPosIs
  <2>2. PosOK(segs, HintIn(hint, k), k, store, now)
    BY <1>2 DEF DiskOK, HintOK
  <2> QED BY <1>1, <2>1, <2>2
<1>3. CASE L # {}
  <2>1. PICK p \in L :
            /\ \A q \in L : ~Before(p, q)
            /\ WALPos(k, HintIn(hint, k)) = IF /\ At(segs, p).type = "Normal"
                                               /\ \/ At(segs, p).batchId = MergeFinishedBatchID
                                                  \/ ~IsExpired(At(segs, p).expire, now)
                                            THEN p ELSE NoPos
    BY <1>3, WALPosIs
  <2>2. Tells(At(segs, p), store[k])
    BY <2>1 DEF DiskOK, LogOK
  <2>3. Has(segs, p) /\ At(segs, p).key = k
    BY <1>0, LaterIs
  <2>4. CASE At(segs, p).type # "Normal"
    <3>1. store[k] = Absent /\ loadIndex[k] = NoPos
      BY <2>1, <2>2, <2>4, <1>1 DEF Tells
    <3> QED BY <3>1 DEF PosOK, Dead
  <2>5. CASE At(segs, p).type = "Normal" /\ loadIndex[k] = p
    BY <2>2, <2>3, <2>5 DEF PosOK, Shows, Tells
  <2>6. CASE At(segs, p).type = "Normal" /\ loadIndex[k] # p
    <3>1. loadIndex[k] = NoPos /\ IsExpired(At(segs, p).expire, now)
      BY <2>1, <2>6, <1>1
    <3>2. At(segs, p).expire = store[k].expire
      BY <2>2, <2>6 DEF Tells
    <3> QED BY <3>1, <3>2 DEF PosOK, Dead
  <2> QED BY <2>4, <2>5, <2>6
<1> QED BY <1>2, <1>3

LEMMA SoundReopen ==
    ASSUME LossInv, Careful, Reopen
    PROVE  Sound'
<1> USE LossFacts
<1>1. /\ loader.stage = "reopen" /\ index' = loadIndex /\ loader' = NoLoad
      /\ mode' = IF loader.who = "open" THEN "open" ELSE mode
      /\ merger' = IF loader.who = "open" THEN merger ELSE [merger EXCEPT ![loader.who] = NoMerge]
      /\ UNCHANGED <<segs, hint, fin, mdir, now, crashes, store>>
  BY DEF Reopen, disk, clocks
<1>2. mode' = "open"
  BY <1>1, LoadAlone
<1>3. /\ Calm' /\ Mergings' /\ loader'.stage = "idle" /\ loader'.n = 0
  BY <1>1, LoadReturns
<1>4. ~mdir.exists /\ mdir = NoDir /\ DiskOK
  BY <1>1 DEF Nowhere, Whole
<1>5. IndexOK'
  BY <1>1, <1>4, LoadIndexOK DEF IndexOK
<1>6. Times' /\ Shut'
  BY <1>1, <1>2 DEF Times, Shut
<1>7. Nowhere' /\ Finished' /\ Loading'
  BY <1>1, <1>3, <1>4 DEF Nowhere, Finished, Loading
<1>8. Whole'
  BY <1>1, <1>4 DEF Whole, DiskOK
<1>9. Torn'
  <2>1. HintKeys(segs', mdir'.hint)
    BY <1>1, <1>4, NoDirIs, HintKeysEmpty
  <2> QED BY <1>1, <1>2, <1>3, <1>4, <2>1 DEF Torn
<1> QED BY <1>3, <1>5, <1>6, <1>7, <1>8, <1>9 DEF Sound
-----------------------------------------------------------------------------
(* Nothing is lost: opening, closing, crashing                             *)

LEMMA SoundOpenStart ==
    ASSUME LossInv, OpenStart
    PROVE  Sound'
<1> USE LossFacts
<1>1. /\ mode \in {"closed", "down", "failed"} /\ mode' = "opening" /\ loader.stage = "idle" /\ AllIdle
      /\ loader' = Load("open")
      /\ UNCHANGED <<segs, hint, fin, mdir, index, walOpen, merger, now, crashes, store>>
  BY DEF OpenStart, AllIdle, disk, clocks
<1>2. loader'.stage = "begin"
  BY <1>1, LoadTyped
<1>3. walOpen = 0 /\ AllIdle'
  BY <1>1 DEF Shut, AllIdle
<1>4. Calm /\ Calm'
  BY <1>1, <1>3 DEF Calm, AllIdle, Busy
<1>5. Times' /\ Shut' /\ Nowhere' /\ IndexOK' /\ Mergings'
  BY <1>1, <1>2, <1>3, <1>4 DEF Times, Shut, Nowhere, IndexOK, Mergings, Calm
<1>6. Whole' /\ Finished' /\ Loading'
  BY <1>1, <1>2 DEF Whole, DiskOK, Finished, Loading
<1>7. Torn'
  BY <1>1, <1>2, <1>4 DEF Torn
<1> QED BY <1>5, <1>6, <1>7 DEF Sound

LEMMA SoundClose ==
    ASSUME LossInv, Careful, Close
    PROVE  Sound'
<1> USE LossFacts
<1>1. /\ mode = "open" /\ loader.stage = "idle" /\ mode' = "closed" /\ walOpen' = 0 /\ Closable
      /\ UNCHANGED <<segs, hint, fin, mdir, index, merger, loader, now, crashes, store>>
  BY DEF Close, Unlocked, closeFiles, disk
<1>2. AllIdle /\ AllIdle' /\ CloseIn # {}
  BY <1>1 DEF Closable, AllIdle, Careful
<1>3. "merging" \notin CrashIn
  BY <1>2 DEF Careful
<1>4. Calm /\ Calm'
  BY <1>2 DEF Calm, AllIdle, Busy
<1>5. Times' /\ Shut' /\ Nowhere' /\ IndexOK' /\ Mergings'
  BY <1>1, <1>2, <1>4 DEF Times, Shut, Nowhere, IndexOK, Mergings, Calm
<1>6. Whole' /\ Finished' /\ Loading'
  BY <1>1 DEF Whole, DiskOK, Finished, Loading
<1>7. Torn'
  BY <1>1, <1>3, <1>4 DEF Torn
<1> QED BY <1>5, <1>6, <1>7 DEF Sound

LEMMA SoundCrash ==
    ASSUME LossInv, Careful, Crash
    PROVE  Sound'
<1> USE LossFacts
<1>1. /\ Phase \in CrashIn /\ crashes < MaxCrashes /\ crashes' = crashes + 1 /\ mode' = "down"
      /\ walOpen' = 0 /\ merger' = [m \in Mergers |-> NoMerge] /\ loader' = NoLoad
      /\ UNCHANGED <<segs, hint, fin, mdir, now, store>>
  BY Ended DEF Crash
<1>2. loader.stage = "idle"
  BY <1>1 DEF Phase, Careful
<1>3. AllIdle' /\ Calm' /\ loader'.stage = "idle" /\ loader'.n = 0
  BY <1>1 DEF AllIdle, Calm, Busy, NoMerge, NoLoad
<1>4. ~Calm => "merging" \in CrashIn
  BY <1>1, <1>2 DEF Calm, Busy, Phase
<1>5. "merging" \in CrashIn => crashes = 0
  BY <1>1, MergeAssumption DEF Careful
<1>6. Times' /\ Shut' /\ Nowhere' /\ IndexOK' /\ Mergings'
  BY <1>1, <1>3 DEF Times, Shut, Nowhere, IndexOK, Mergings, Calm
<1>7. Whole' /\ Finished' /\ Loading'
  BY <1>1, <1>2, <1>3 DEF Whole, DiskOK, Finished, Loading
<1>8. Torn'
  BY <1>1, <1>2, <1>3, <1>4, <1>5 DEF Torn
<1> QED BY <1>6, <1>7, <1>8 DEF Sound

LEMMA SoundExit ==
    ASSUME LossInv, Careful, Exit
    PROVE  Sound'
<1> USE LossFacts
<1>1. /\ mode = "failed" /\ mode' = "down" /\ crashes' = crashes
      /\ walOpen' = 0 /\ merger' = [m \in Mergers |-> NoMerge] /\ loader' = NoLoad
      /\ UNCHANGED <<segs, hint, fin, mdir, now, store>>
  BY Ended DEF Exit
<1>2. loader.stage = "idle"
  BY <1>1, LoadAlone
<1>3. AllIdle' /\ Calm' /\ loader'.stage = "idle" /\ loader'.n = 0
  BY <1>1 DEF AllIdle, Calm, Busy, NoMerge, NoLoad
<1>4. Calm
  BY <1>1 DEF Shut, Calm, Busy, AllIdle
<1>5. Times' /\ Shut' /\ Nowhere' /\ IndexOK' /\ Mergings'
  BY <1>1, <1>3 DEF Times, Shut, Nowhere, IndexOK, Mergings, Calm
<1>6. Whole' /\ Finished' /\ Loading'
  BY <1>1, <1>2, <1>3 DEF Whole, DiskOK, Finished, Loading
<1>7. Torn'
  BY <1>1, <1>2, <1>3, <1>4 DEF Torn
<1> QED BY <1>5, <1>6, <1>7 DEF Sound

LEMMA SoundSame ==
    ASSUME LossInv, UNCHANGED <<segs, hint, fin, mdir, index, mode, walOpen, merger, loader, now, crashes, store>>
    PROVE  Sound'
<1> USE LossFacts
<1>1. Calm' <=> Calm
  BY DEF Calm
<1>2. Times' /\ Shut' /\ Nowhere' /\ IndexOK'
  BY DEF Times, Shut, Nowhere, IndexOK, AllIdle
<1>3. Whole' /\ Finished' /\ Loading'
  BY DEF Whole, DiskOK, Finished, Loading
<1>4. Torn'
  BY <1>1 DEF Torn
<1>5. Mergings'
  BY DEF Mergings, Merging
<1> QED BY <1>2, <1>3, <1>4, <1>5 DEF Sound

LEMMA SoundWrites ==
    ASSUME LossInv, Careful, NEW k \in Keys
    PROVE  /\ Delete(k) => Sound'
           /\ \A v \in Values, ttl \in TTLs : PutTTL(k, v, ttl) => Sound'
<1> USE LossFacts
<1>0. Typed
  BY DEF TypeInv
<1>1. ASSUME Delete(k) PROVE Sound'
  <2> DEFINE r == DeletedRecord(k)
  <2>1. r \in LogRecords /\ Absent \in Entries
    BY <1>0, WriteTyped
  <2>2. r.key = k /\ Tells(r, Absent) /\ Absent.expire >= 0
    BY DEF DeletedRecord, Tells, Absent
  <2>3. Write(k, r, Absent)
    BY <1>1 DEF Delete
  <2> HIDE DEF r
  <2> QED BY <2>1, <2>2, <2>3, SoundWrite
<1>2. ASSUME NEW v \in Values, NEW ttl \in TTLs, PutTTL(k, v, ttl) PROVE Sound'
  <2> DEFINE x == IF ttl = 0 THEN 0 ELSE ExpireAt(now, ttl)
             r == NormalRecord(k, v, x)
             e == [value |-> v, expire |-> x]
  <2>1. r \in LogRecords /\ e \in Entries
    BY <1>0, WriteTyped
  <2>2. x >= 0
    BY DEF Careful, Times
  <2>3. Write(k, r, e)
    BY <1>2 DEF PutTTL
  <2> HIDE DEF x
  <2>4. r.key = k /\ Tells(r, e) /\ e.expire >= 0
    BY <2>2 DEF NormalRecord, Tells
  <2> HIDE DEF r, e
  <2> QED BY <2>1, <2>3, <2>4, SoundWrite
<1> QED BY <1>1, <1>2

LEMMA SoundInit == Init => Sound
<1> SUFFICES ASSUME Init PROVE Sound
  OBVIOUS
<1>1. /\ segs = [s \in {1} |-> <<>>] /\ hint = <<>> /\ fin = 0 /\ mdir = NoDir
      /\ index = [k \in Keys |-> NoPos] /\ mode = "open" /\ loader.stage = "idle" /\ loader.n = 0
      /\ \A m \in Mergers : merger[m].pc = "idle"
      /\ now = 2 /\ store = [k \in Keys |-> Absent]
  BY DEF Init, NoLoad, NoMerge
<1>2. Calm
  BY <1>1 DEF Calm, Busy
<1>3. \A k \in Keys : store[k] = Absent /\ Dead(store[k], now) /\ index[k] = NoPos
  BY <1>1 DEF Dead
<1>4. \A k : Later(segs, k, 0) = {}
  <2>1. ASSUME NEW k, NEW p \in Later(segs, k, 0) PROVE FALSE
    <3>1. segs[1] = <<>> /\ DOMAIN segs = {1} /\ Len(<<>>) = 0
      BY <1>1
    <3>2. p \in Positions(segs, {s \in DOMAIN segs : s > 0})
      BY DEF Later
    <3>3. p[1] = 1 /\ p[2] \in 1..SegCap /\ p[2] <= Len(segs[p[1]])
      BY <3>1, <3>2 DEF Positions
    <3> QED BY <3>1, <3>3, MergeAssumption
  <2> QED BY <2>1
<1>5. Times
  BY <1>1, <1>3, MergeAssumption DEF Times, Absent
<1>6. Mergings /\ Shut
  BY <1>1, <1>2 DEF Mergings, Calm, Shut
<1>7. Nowhere /\ Finished /\ Loading
  BY <1>1, NoDirIs DEF Nowhere, Finished, Loading
<1>8. Whole
  <2>0. <<>> \in Seq(Hints)
    OBVIOUS
  <2>1. \A k : HintIn(hint, k) = NoPos
    BY <2>0, <1>1, HintNone
  <2>2. LogOK(segs, fin, store)
    BY <1>1, <1>4 DEF LogOK
  <2>3. HintOK(segs, segs, hint, fin, store, now)
    BY <2>1, <1>3 DEF HintOK, PosOK
  <2> QED BY <2>2, <2>3 DEF Whole, DiskOK
<1>9. IndexOK
  BY <1>3 DEF IndexOK, PosOK
<1>10. Torn
  <2>1. HintKeys(segs, mdir.hint)
    BY <1>1, NoDirIs, HintKeysEmpty
  <2> QED BY <1>1, <2>1, NoDirIs DEF Torn
<1> QED BY <1>5, <1>6, <1>7, <1>8, <1>9, <1>10 DEF Sound

LEMMA SoundStep ==
    ASSUME Careful, LossInv, [Next]_vars
    PROVE  Sound'
<1>1. ASSUME NEW m \in Mergers, DoMerge(m) PROVE Sound'
  BY <1>1, SoundMergeStart, SoundMergeNothing, SoundOpenMergeDB, SoundNewReader, SoundMergeRecord,
     SoundCreateMergeFin, SoundWriteMergeFin, SoundMergeLock DEF DoMerge, MergeRun
<1>2. ASSUME LoadStep PROVE Sound'
  BY <1>2, SoundLoadBegin, SoundLoadRemove, SoundLoadMove, SoundLoadMergeFin, SoundLoadHint,
     SoundLoadRemoveDir, SoundReopen DEF LoadStep
<1>3. ASSUME CloseWait \/ UNCHANGED vars PROVE Sound'
  BY <1>3, SoundSame DEF CloseWait, vars, disk
<1> QED BY <1>1, <1>2, <1>3, SoundWrites, SoundTick, SoundOpenStart, SoundClose, SoundCrash,
       SoundExit DEF Next

\* A right index reads what was last written.
LEMMA LossImplied == LossInv => NothingLost
<1> SUFFICES ASSUME LossInv, walOpen # 0, NEW k \in Keys
             PROVE  Reads(k) = IF IsExpired(store[k].expire, now) THEN Absent ELSE store[k]
  BY DEF NothingLost
<1> USE LossFacts
<1> DEFINE p == index[k]
           e == store[k]
<1>1. PosOK(segs, p, k, store, now) /\ e \in Entries
  BY DEF IndexOK
<1>2. CASE p = NoPos
  <2>1. Dead(e, now)
    BY <1>1, <1>2, NoPosNot DEF PosOK, Shows, Has
  <2>2. Reads(k) = Absent
    BY <1>2 DEF Reads
  <2> QED BY <2>1, <2>2 DEF Dead
<1>3. CASE p # NoPos
  <2>1. Shows(segs, p, k, e)
    BY <1>1, <1>3 DEF PosOK
  <2>2. /\ Has(segs, p) /\ At(segs, p).key = k
        /\ At(segs, p).value = e.value /\ At(segs, p).expire = e.expire
    BY <2>1 DEF Shows
  <2>3. p[1] \in DOMAIN segs /\ p[2] \in DOMAIN segs[p[1]]
    <3>1. p[1] \in DOMAIN segs /\ p[2] \in Nat /\ p[2] >= 1 /\ p[2] <= Len(segs[p[1]])
      BY <2>2, PosPair DEF Has
    <3>2. segs[p[1]] \in Seq(LogRecords) /\ Len(segs[p[1]]) \in Nat
      BY <3>1, SegmentIs
    <3>3. DOMAIN segs[p[1]] = 1..Len(segs[p[1]])
      BY <3>2
    <3> QED BY <3>1, <3>2, <3>3
  <2>4. e = [value |-> e.value, expire |-> e.expire]
    BY <1>1 DEF Entries
  <2> QED BY <1>3, <2>2, <2>3, <2>4 DEF Reads
<1> QED BY <1>2, <1>3

\* Whatever merges, writes, reopenings, clean closes and crashes come in which
\* order, a read returns what was last written, in each case in which the code
\* does not lose data (Careful): a merge drops only dead records, loadMergeFiles
\* leaves files whose hints and log together give every key its last write, and
\* Open makes of them the index it replaces.
THEOREM MergeLosesNothing ==
    ASSUME Careful
    PROVE  Spec => []NothingLost
<1>1. Init => LossInv
  BY OwnInit, SoundInit DEF LossInv
<1>2. LossInv /\ [Next]_vars => LossInv'
  <2>1. OneReopener
    BY DEF Careful
  <2>2. LossInv => OwnInv
    BY DEF LossInv
  <2> QED BY <2>1, <2>2, OwnStep, SoundStep DEF LossInv
<1>3. LossInv => NothingLost
  BY LossImplied
<1> QED BY <1>1, <1>2, <1>3, PTL DEF Spec
=============================================================================
