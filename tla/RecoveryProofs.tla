--------------------------- MODULE RecoveryProofs ---------------------------
(***************************************************************************)
(* Proofs about Recovery: what Open makes of any log that commits, failed  *)
(* flushes and crashes can leave, for every instance of the constants.     *)
(***************************************************************************)
EXTENDS Recovery, RoseDBProofs, WellFoundedInduction

IsEnd(p) == dataFiles[p].type = "BatchFinished"

\* e is the end of the batch of p in log, whole and with one record for a key;
\* the records at tn are those of torn batches.
Closing(log, tn, p, e) ==
    /\ e \in (p + 1)..Len(log)
    /\ log[e].type = "BatchFinished" /\ log[e].key = log[p].batchId
    /\ \A q \in p..(e - 1) :
          /\ log[q].type # "BatchFinished" /\ q \notin tn
          /\ q # p => log[q].key # log[p].key

\* The shape of a log at time t: a record belongs to a batch that its end
\* record closes, or a crash has cut its batch in two and no later end record
\* carries that batch's id.
Shape(log, tn, t) ==
    /\ \A p \in 1..Len(log) : log[p].type # "BatchFinished" =>
          /\ log[p].batchId \in 1..t
          /\ p \notin tn => \E e \in 1..Len(log) : Closing(log, tn, p, e)
    /\ \A p \in tn :
          /\ p \in 1..Len(log) /\ log[p].type # "BatchFinished" /\ log[p].batchId < t
          /\ \A q \in (p + 1)..Len(log) :
                log[q].type = "BatchFinished" => log[q].key # log[p].batchId

Closes(p, e) == Closing(dataFiles, torn, p, e)
LogInv == Shape(dataFiles, torn, now)

\* No record of a torn batch has a lifetime.
TornInv == \A p \in torn : dataFiles[p].expire = 0

\* What was promised is flushed.
PromiseInv ==
    /\ promised \in Seq(LogRecords \cup EndRecords)
    /\ Len(promised) <= synced
    /\ \A p \in 1..Len(promised) : dataFiles[p] = promised[p]

Histories == running \in BOOLEAN /\ failed \subseteq 1..Len(dataFiles)
-----------------------------------------------------------------------------
LEMMA LeastNatural ==
    ASSUME NEW S \in SUBSET Nat, S # {}
    PROVE  \E p \in S : \A q \in S : p <= q
  <1> DEFINE R == OpToRel(<, Nat)
  <1>1. PICK p \in S : \A q \in S : ~ (<<q, p>> \in R)
    BY NatLessThanWellFounded, WFMin, Zenon
  <1>2. \A q \in S : q < p => <<q, p>> \in R
    BY Zenon DEF OpToRel
  <1> HIDE DEF R
  <1>3. \A q \in S : ~(q < p)
    BY <1>1, <1>2
  <1>4. \A q \in S : p <= q
    BY <1>3
  <1> QED BY <1>4

\* A set of positions of a log of length n has a last one.
LEMMA LastExists ==
    ASSUME NEW n \in Nat, NEW S \in SUBSET (1..n), S # {}
    PROVE  \E p \in S : \A q \in S : q <= p
  <1> DEFINE D == {n - q : q \in S}
  <1>1. D \in SUBSET Nat /\ D # {}
    OBVIOUS
  <1> HIDE DEF D
  <1>2. PICK d \in D : \A x \in D : d <= x
    BY <1>1, LeastNatural, Zenon
  <1>3. PICK p \in S : d = n - p
    BY DEF D
  <1>4. ASSUME NEW q \in S PROVE q <= p
    <2>1. n - q \in D
      BY DEF D
    <2>2. n - p <= n - q
      BY <1>2, <1>3, <2>1
    <2> QED BY <2>2
  <1> QED BY <1>4

LEMMA LogTyped ==
    ASSUME TypeOK, NEW p \in 1..Len(dataFiles)
    PROVE  /\ IsEnd(p) => dataFiles[p] \in EndRecords
           /\ ~IsEnd(p) => dataFiles[p] \in LogRecords
  <1>1. dataFiles[p] \in LogRecords \cup EndRecords
    BY ElementOfSeq DEF TypeOK
  <1> QED BY <1>1 DEF IsEnd, LogRecords, EndRecords
-----------------------------------------------------------------------------
(* The replay of the log                                                   *)

Start == [idx |-> [k \in Keys |-> 0], recs |-> {}]
Replayed(f, n) == f = [m \in 0..n |-> IF m = 0 THEN Start ELSE ReplayRecord(f[m - 1], m)]

\* The recursive definition of the replay has a solution.
LEMMA ReplayExists ==
    ASSUME NEW L \in Nat
    PROVE  \E f : Replayed(f, L)
  <1> DEFINE S == {n \in Nat : ~\E f : Replayed(f, n)}
  <1> SUFFICES ASSUME S # {} PROVE FALSE
    OBVIOUS
  <1>1. S \in SUBSET Nat
    OBVIOUS
  <1>2. PICK n \in S : \A q \in S : n <= q
    BY <1>1, LeastNatural, Zenon
  <1>3. n \in Nat /\ ~\E f : Replayed(f, n)
    OBVIOUS
  <1>4. CASE n = 0
    <2> DEFINE f == [m \in 0..0 |-> Start]
    <2>1. f = [m \in 0..0 |-> IF m = 0 THEN Start ELSE ReplayRecord(f[m - 1], m)]
      OBVIOUS
    <2>2. Replayed(f, 0)
      BY <2>1, Zenon DEF Replayed
    <2> QED BY <1>3, <1>4, <2>2, Zenon
  <1>5. CASE n # 0
    <2>1. n - 1 \in Nat /\ n - 1 \notin S
      <3>1. n - 1 \in Nat /\ ~(n <= n - 1)
        BY <1>3, <1>5
      <3> HIDE DEF S
      <3> QED BY <1>2, <3>1
    <2>2. PICK f : Replayed(f, n - 1)
      BY <2>1
    <2>3. f = [m \in 0..(n - 1) |-> IF m = 0 THEN Start ELSE ReplayRecord(f[m - 1], m)]
      BY <2>2, Zenon DEF Replayed
    <2> DEFINE a == ReplayRecord(f[n - 1], n)
               g == [m \in 0..n |-> IF m = n THEN a ELSE f[m]]
    <2> HIDE DEF a
    <2>4. \A m \in 0..n : g[m] = IF m = 0 THEN Start ELSE ReplayRecord(g[m - 1], m)
      <3> SUFFICES ASSUME NEW m \in 0..n
                   PROVE  g[m] = IF m = 0 THEN Start ELSE ReplayRecord(g[m - 1], m)
        OBVIOUS
      <3>1. CASE m = n
        <4>1. g[m] = a /\ g[m - 1] = f[n - 1] /\ m # 0
          BY <1>3, <1>5, <3>1
        <4> QED BY <3>1, <4>1 DEF a
      <3>2. CASE m # n
        <4>1. m \in 0..(n - 1) /\ g[m] = f[m]
          BY <1>3, <3>2
        <4>2. m # 0 => g[m - 1] = f[m - 1]
          BY <1>3, <3>2
        <4> QED BY <2>3, <4>1, <4>2
      <3> QED BY <3>1, <3>2
    <2>5. g = [m \in 0..n |-> g[m]]
      OBVIOUS
    <2> HIDE DEF g
    <2>6. g = [m \in 0..n |-> IF m = 0 THEN Start ELSE ReplayRecord(g[m - 1], m)]
      BY <2>4, <2>5
    <2>7. Replayed(g, n)
      BY <2>6, Zenon DEF Replayed
    <2> QED BY <1>3, <2>7, Zenon
  <1> QED BY <1>4, <1>5

\* The steps of the replay, from the empty index to what Open leaves.
LEMMA ReplaySteps ==
    ASSUME TypeOK
    PROVE  \E f : /\ f[0] = Start
                  /\ \A n \in 1..Len(dataFiles) : f[n] = ReplayRecord(f[n - 1], n)
                  /\ loadIndexFromWAL = f[Len(dataFiles)].idx
  <1> DEFINE L == Len(dataFiles)
             f == CHOOSE g : g = [m \in 0..L |-> IF m = 0 THEN Start ELSE ReplayRecord(g[m - 1], m)]
  <1>1. L \in Nat
    BY LenProperties DEF TypeOK
  <1>2. loadIndexFromWAL = f[L].idx
    BY DEF loadIndexFromWAL, Start
  <1>3. \E g : g = [m \in 0..L |-> IF m = 0 THEN Start ELSE ReplayRecord(g[m - 1], m)]
    BY <1>1, ReplayExists, Zenon DEF Replayed
  <1>4. f = [m \in 0..L |-> IF m = 0 THEN Start ELSE ReplayRecord(f[m - 1], m)]
    BY <1>3, Zenon
  <1> HIDE DEF f
  <1>5. f[0] = Start /\ \A n \in 1..L : f[n] = ReplayRecord(f[n - 1], n)
    BY <1>1, <1>4
  <1> QED BY <1>2, <1>5

\* What the replay has built after n records, whatever the log holds.
Sound(acc, n) ==
    /\ acc \in [idx: [Keys -> 0..n], recs: SUBSET (1..n)]
    /\ \A q \in acc.recs : ~IsEnd(q)
    /\ \A k \in Keys : acc.idx[k] # 0 => /\ dataFiles[acc.idx[k]].type = "Normal"
                                         /\ dataFiles[acc.idx[k]].key = k

\* x is where the last record of k among ps is, or old if there is none.
Newest(ps, k, old, x) ==
    \/ (\A q \in ps : dataFiles[q].key # k) /\ x = old
    \/ \E last \in ps :
          /\ dataFiles[last].key = k
          /\ \A q \in ps : dataFiles[q].key = k => q <= last
          /\ x = IF dataFiles[last].type = "Normal" THEN last ELSE 0

\* Of the waiting records of a key the last one wins.
LEMMA IndexAllLemma ==
    ASSUME TypeOK, NEW ps \in SUBSET (1..Len(dataFiles)), NEW idx, NEW k \in Keys
    PROVE  Newest(ps, k, idx[k], IndexAll(idx, ps)[k])
  <1> DEFINE qs == {q \in ps : dataFiles[q].key = k}
             last == CHOOSE q \in qs : \A p \in qs : p <= q
  <1>1. IndexAll(idx, ps)[k] = IF qs = {} THEN idx[k]
                               ELSE IF dataFiles[last].type = "Normal" THEN last ELSE 0
    BY DEF IndexAll
  <1>2. CASE qs = {}
    BY <1>1, <1>2 DEF Newest
  <1>3. CASE qs # {}
    <2>1. qs \in SUBSET (1..Len(dataFiles)) /\ Len(dataFiles) \in Nat
      BY LenProperties DEF TypeOK
    <2>2. \E q \in qs : \A p \in qs : p <= q
      <3> HIDE DEF qs
      <3> QED BY <1>3, <2>1, LastExists, Zenon
    <2>3. last \in qs /\ \A p \in qs : p <= last
      <3> HIDE DEF qs
      <3> QED BY <2>2
    <2> HIDE DEF last
    <2> QED BY <1>1, <1>3, <2>3 DEF Newest
  <1> QED BY <1>2, <1>3

LEMMA ReplaySound ==
    ASSUME TypeOK, NEW n \in 1..Len(dataFiles), NEW acc, Sound(acc, n - 1)
    PROVE  Sound(ReplayRecord(acc, n), n)
  <1> DEFINE r == dataFiles[n]
             done == {q \in acc.recs : dataFiles[q].batchId = r.key}
             new == ReplayRecord(acc, n)
  <1>0. n \in Nat /\ n - 1 \in Nat
    BY LenProperties DEF TypeOK
  <1>1. /\ acc.idx \in [Keys -> 0..(n - 1)] /\ acc.recs \in SUBSET (1..(n - 1))
        /\ acc \in [idx: [Keys -> 0..(n - 1)], recs: SUBSET (1..(n - 1))]
    BY DEF Sound
  <1>2. /\ IsEnd(n) => r \in EndRecords
        /\ ~IsEnd(n) => r \in LogRecords /\ r.key \in Keys /\ r.type \in {"Normal", "Deleted"}
    BY LogTyped DEF LogRecords
  <1>3. CASE IsEnd(n)
    <2>1. new = [idx |-> IndexAll(acc.idx, done), recs |-> acc.recs \ done]
      BY <1>3 DEF ReplayRecord, IsEnd
    <2>2. done \in SUBSET (1..(n - 1)) /\ \A q \in done : ~IsEnd(q)
      BY <1>1 DEF Sound
    <2>3. ASSUME NEW k \in Keys
          PROVE  /\ new.idx[k] \in 0..n
                 /\ new.idx[k] # 0 => /\ dataFiles[new.idx[k]].type = "Normal"
                                      /\ dataFiles[new.idx[k]].key = k
      <3>1. new.idx[k] = IndexAll(acc.idx, done)[k]
        BY <2>1
      <3> HIDE DEF new, done
      <3>2. \/ new.idx[k] = acc.idx[k]
            \/ \E last \in done :
                 /\ dataFiles[last].key = k
                 /\ new.idx[k] = IF dataFiles[last].type = "Normal" THEN last ELSE 0
        <4>1. done \in SUBSET (1..Len(dataFiles)) /\ k \in Keys
          BY <1>0, <2>2
        <4>2. Newest(done, k, acc.idx[k], IndexAll(acc.idx, done)[k])
          BY <4>1, IndexAllLemma, Zenon
        <4> QED BY <3>1, <4>2 DEF Newest
      <3>3. CASE new.idx[k] = acc.idx[k]
        BY <1>0, <1>1, <3>3 DEF Sound
      <3>4. CASE \E last \in done :
                 /\ dataFiles[last].key = k
                 /\ new.idx[k] = IF dataFiles[last].type = "Normal" THEN last ELSE 0
        BY <1>0, <2>2, <3>4
      <3> QED BY <3>2, <3>3, <3>4
    <2>4. new.idx = [k \in Keys |-> new.idx[k]]
      BY <2>1 DEF IndexAll
    <2>5. new.recs \in SUBSET (1..n) /\ \A q \in new.recs : ~IsEnd(q)
      BY <1>0, <1>1, <2>1 DEF Sound
    <2>6. new.idx \in [Keys -> 0..n]
      <3> HIDE DEF new
      <3> QED BY <2>3, <2>4
    <2>7. new \in [idx: [Keys -> 0..n], recs: SUBSET (1..n)]
      BY <2>1, <2>5, <2>6
    <2> HIDE DEF new
    <2>8. Sound(new, n)
      BY <2>3, <2>5, <2>7 DEF Sound
    <2> QED BY <2>8 DEF new
  <1>4. CASE ~IsEnd(n)
    <2>1. \/ r.type = "Normal" /\ new = [acc EXCEPT !.idx[r.key] = n]
          \/ new = [acc EXCEPT !.idx[r.key] = 0]
          \/ new = [acc EXCEPT !.recs = @ \cup {n}]
      BY <1>4 DEF ReplayRecord, IsEnd
    <2> HIDE DEF new
    <2>2. /\ new = [idx |-> new.idx, recs |-> new.recs]
          /\ \/ r.type = "Normal" /\ new.idx = [acc.idx EXCEPT ![r.key] = n] /\ new.recs = acc.recs
             \/ new.idx = [acc.idx EXCEPT ![r.key] = 0] /\ new.recs = acc.recs
             \/ new.idx = acc.idx /\ new.recs = acc.recs \cup {n}
      BY <1>1, <2>1
    <2>3. new.recs \in SUBSET (1..n) /\ \A q \in new.recs : ~IsEnd(q)
      BY <1>0, <1>1, <1>4, <2>2 DEF Sound
    <2>4. \A k \in Keys : new.idx[k] \in {acc.idx[k], 0} \/ (r.type = "Normal" /\ k = r.key /\ new.idx[k] = n)
      BY <1>1, <1>2, <1>4, <2>2
    <2>5. new.idx \in [Keys -> 0..n]
      BY <1>0, <1>1, <2>2
    <2>6. \A k \in Keys : new.idx[k] # 0 => /\ dataFiles[new.idx[k]].type = "Normal"
                                            /\ dataFiles[new.idx[k]].key = k
      BY <2>4 DEF Sound
    <2>7. new \in [idx: [Keys -> 0..n], recs: SUBSET (1..n)]
      BY <2>2, <2>3, <2>5
    <2>8. Sound(new, n)
      BY <2>3, <2>6, <2>7 DEF Sound
    <2> QED BY <2>8 DEF new
  <1> QED BY <1>3, <1>4

\* After any crash Open builds an index that leads to Normal records of the
\* right key.
LEMMA LoadSound ==
    ASSUME TypeOK
    PROVE  /\ loadIndexFromWAL \in [Keys -> Nat]
           /\ \A k \in Keys : loadIndexFromWAL[k] # 0 =>
                 /\ loadIndexFromWAL[k] \in 1..Len(dataFiles)
                 /\ dataFiles[loadIndexFromWAL[k]].type = "Normal"
                 /\ dataFiles[loadIndexFromWAL[k]].key = k
  <1> DEFINE L == Len(dataFiles)
  <1>0. L \in Nat
    BY LenProperties DEF TypeOK
  <1>1. PICK f : /\ f[0] = Start
                 /\ \A n \in 1..L : f[n] = ReplayRecord(f[n - 1], n)
                 /\ loadIndexFromWAL = f[L].idx
    BY ReplaySteps
  <1> DEFINE S == {n \in 0..L : ~Sound(f[n], n)}
  <1>2. S = {}
    <2> SUFFICES ASSUME S # {} PROVE FALSE
      OBVIOUS
    <2>1. S \in SUBSET Nat
      BY <1>0
    <2>2. PICK n \in S : \A q \in S : n <= q
      BY <2>1, LeastNatural, Zenon
    <2>3. n \in 0..L /\ ~Sound(f[n], n)
      OBVIOUS
    <2>4. n # 0
      <3>1. Sound(Start, 0)
        BY DEF Sound, Start
      <3> QED BY <1>1, <2>3, <3>1
    <2>5. n - 1 \in 0..L /\ n \in 1..L /\ n - 1 \notin S
      <3>1. n - 1 \in 0..L /\ n \in 1..L /\ ~(n <= n - 1)
        BY <1>0, <2>3, <2>4
      <3> HIDE DEF S
      <3> QED BY <2>2, <3>1
    <2>6. Sound(f[n - 1], n - 1)
      BY <2>5
    <2>7. f[n] = ReplayRecord(f[n - 1], n)
      BY <1>1, <2>5
    <2> QED BY <2>3, <2>5, <2>6, <2>7, ReplaySound
  <1>3. Sound(f[L], L)
    BY <1>0, <1>2
  <1> QED BY <1>0, <1>1, <1>3 DEF Sound
-----------------------------------------------------------------------------
(* What the replay shows of a log that commits and crashes have left       *)

Expired(p) == IsExpired(dataFiles[p].expire, now)

\* Records among the first n that wait for the end of their batch.
Waiting(n) ==
    {p \in 1..n : /\ ~IsEnd(p) /\ ~Expired(p)
                  /\ \A q \in p..n : IsEnd(q) => dataFiles[q].key # dataFiles[p].batchId}

\* Records of k among the first n, of whole batches, that the replay has dealt with.
Settled(n, k) ==
    {p \in 1..n : /\ ~IsEnd(p) /\ dataFiles[p].key = k /\ p \notin torn
                  /\ Expired(p) \/ \E q \in p..n : IsEnd(q)}

\* x leads to the last record of ps unless that record is dead.
Shows(x, ps) ==
    /\ ps = {} => x = 0
    /\ \A p \in ps : (\A q \in ps : q <= p) => x = IF Dead(dataFiles[p]) THEN 0 ELSE p

Exact(acc, n) ==
    /\ Sound(acc, n)
    /\ acc.recs = Waiting(n)
    /\ \A k \in Keys : Shows(acc.idx[k], Settled(n, k))

\* The first end record after a record of a whole batch is the end of that
\* batch; an end record of another batch with the same id never claims it.
LEMMA BatchEnds ==
    ASSUME TypeOK, LogInv, NEW n \in 1..Len(dataFiles), IsEnd(n),
           NEW p \in 1..(n - 1), ~IsEnd(p), p \notin torn,
           \A q \in p..(n - 1) : IsEnd(q) => dataFiles[q].key # dataFiles[p].batchId
    PROVE  Closes(p, n)
  <1>0. Len(dataFiles) \in Nat
    BY LenProperties DEF TypeOK
  <1>1. PICK e \in 1..Len(dataFiles) : Closes(p, e)
    BY <1>0 DEF LogInv, Shape, Closes, IsEnd, Closing
  <1>2. e \in (p + 1)..Len(dataFiles) /\ IsEnd(e) /\ dataFiles[e].key = dataFiles[p].batchId
        /\ \A q \in p..(e - 1) : ~IsEnd(q)
    BY <1>1 DEF Closes, Closing, IsEnd
  <1>3. ~(e < n)
    BY <1>0, <1>2
  <1>4. ~(n < e)
    BY <1>0, <1>2
  <1>5. e = n
    BY <1>0, <1>2, <1>3, <1>4
  <1> QED BY <1>1, <1>5

LEMMA ExactEnd ==
    ASSUME TypeOK, LogInv, NEW n \in 1..Len(dataFiles), IsEnd(n), NEW acc, Exact(acc, n - 1)
    PROVE  Exact(ReplayRecord(acc, n), n)
  <1> DEFINE done == {q \in acc.recs : dataFiles[q].batchId = dataFiles[n].key}
             new == ReplayRecord(acc, n)
  <1>0. n \in Nat /\ n - 1 \in Nat /\ Len(dataFiles) \in Nat
    BY LenProperties DEF TypeOK
  <1>1. Sound(new, n)
    BY ReplaySound DEF Exact
  <1>2. new.idx = IndexAll(acc.idx, done) /\ new.recs = acc.recs \ done
    BY DEF ReplayRecord, IsEnd
  <1> HIDE DEF new
  <1>3. new.recs = Waiting(n)
    BY <1>0, <1>2 DEF Exact, Waiting
  <1>4. ASSUME NEW p \in done PROVE ~Expired(p) /\ ~IsEnd(p) /\ p \notin torn /\ Closes(p, n)
    <2>1. /\ p \in 1..(n - 1) /\ ~IsEnd(p) /\ ~Expired(p)
          /\ dataFiles[p].batchId = dataFiles[n].key
          /\ \A q \in p..(n - 1) : IsEnd(q) => dataFiles[q].key # dataFiles[p].batchId
      BY DEF Exact, Waiting
    <2>2. p \notin torn
      BY <1>0, <2>1 DEF LogInv, Shape, Closes, IsEnd, Closing
    <2> QED BY <2>1, <2>2, BatchEnds
  <1>5. done \in SUBSET (1..Len(dataFiles))
    BY <1>0 DEF Exact, Waiting
  <1>6. ASSUME NEW k \in Keys PROVE Shows(new.idx[k], Settled(n, k))
    <2>1. Newest(done, k, acc.idx[k], new.idx[k])
      <3> HIDE DEF done
      <3>1. Newest(done, k, acc.idx[k], IndexAll(acc.idx, done)[k])
        BY <1>5, IndexAllLemma, Zenon
      <3> QED BY <1>2, <3>1
    <2>2. ASSUME NEW p \in Settled(n, k), p \notin Settled(n - 1, k)
          PROVE  p \in done
      <3>1. /\ p \in 1..(n - 1) /\ ~IsEnd(p) /\ p \notin torn /\ ~Expired(p)
            /\ \A q \in p..(n - 1) : ~IsEnd(q)
        BY <1>0, <2>2 DEF Settled
      <3>2. Closes(p, n)
        BY <3>1, BatchEnds
      <3>3. p \in Waiting(n - 1)
        BY <1>0, <3>1 DEF Waiting
      <3> QED BY <3>2, <3>3 DEF Exact, Closes, Closing, IsEnd
    <2>3. Settled(n - 1, k) \subseteq Settled(n, k)
      BY <1>0 DEF Settled
    <2>4. ASSUME NEW p \in done, dataFiles[p].key = k PROVE p \in Settled(n, k)
      <3>1. p \in 1..n /\ n \in p..n
        BY <1>0, <2>4 DEF Exact, Waiting
      <3> QED BY <1>4, <2>4, <3>1 DEF Settled
    <2>5. CASE (\A q \in done : dataFiles[q].key # k) /\ new.idx[k] = acc.idx[k]
      <3>1. Settled(n, k) = Settled(n - 1, k)
        <4>1. \A p \in Settled(n, k) : dataFiles[p].key = k
          BY DEF Settled
        <4> QED BY <2>2, <2>3, <2>5, <4>1
      <3> QED BY <2>5, <3>1 DEF Exact
    <2>6. ASSUME NEW last \in done, dataFiles[last].key = k,
                 new.idx[k] = IF dataFiles[last].type = "Normal" THEN last ELSE 0
          PROVE  Shows(new.idx[k], Settled(n, k))
      <3>1. last \in Settled(n, k) /\ last \in 1..n
        BY <2>4, <2>6 DEF Settled
      <3>2. \A q \in Settled(n, k) : q <= last
        <4>1. \A q \in last..(n - 1) : q # last => dataFiles[q].key # k
          BY <1>4, <2>6 DEF Closes, Closing, IsEnd
        <4>2. \A q \in Settled(n, k) : q \in 1..n /\ ~IsEnd(q) /\ dataFiles[q].key = k
          BY DEF Settled
        <4> QED BY <1>0, <3>1, <4>1, <4>2
      <3>3. Dead(dataFiles[last]) <=> dataFiles[last].type # "Normal"
        <4>1. ~Expired(last) /\ ~IsEnd(last) /\ last \in 1..Len(dataFiles)
          BY <1>0, <1>4, <3>1
        <4>2. dataFiles[last].type \in {"Normal", "Deleted"}
          BY <4>1, LogTyped DEF LogRecords
        <4> QED BY <4>1, <4>2 DEF Dead, Expired
      <3>4. \A p \in Settled(n, k) : (\A q \in Settled(n, k) : q <= p) => p = last
        <4> SUFFICES ASSUME NEW p \in Settled(n, k), \A q \in Settled(n, k) : q <= p
                     PROVE  p = last
          OBVIOUS
        <4>1. p \in 1..n
          BY DEF Settled
        <4>2. last <= p /\ p <= last
          BY <3>1, <3>2
        <4> QED BY <1>0, <3>1, <4>1, <4>2
      <3> QED BY <2>6, <3>1, <3>3, <3>4 DEF Shows
    <2> QED BY <2>1, <2>5, <2>6 DEF Newest
  <1>7. Exact(new, n)
    BY <1>1, <1>3, <1>6 DEF Exact
  <1> QED BY <1>7 DEF new

LEMMA ExactRecord ==
    ASSUME TypeOK, LogInv, TornInv, NEW n \in 1..Len(dataFiles), ~IsEnd(n),
           NEW acc, Exact(acc, n - 1)
    PROVE  Exact(ReplayRecord(acc, n), n)
  <1> DEFINE r == dataFiles[n]
             new == ReplayRecord(acc, n)
  <1>0. n \in Nat /\ n - 1 \in Nat /\ Len(dataFiles) \in Nat
    BY LenProperties DEF TypeOK
  <1>1. Sound(new, n)
    BY ReplaySound DEF Exact
  <1>2. r.batchId # MergeFinishedBatchID
    <2>1. r.batchId \in 1..now /\ now \in Nat
      BY DEF LogInv, TypeOK, Shape, Closes, IsEnd, Closing
    <2> QED BY <2>1 DEF MergeFinishedBatchID
  <1>3. new = IF Expired(n) THEN [acc EXCEPT !.idx[r.key] = 0]
                            ELSE [acc EXCEPT !.recs = @ \cup {n}]
    BY <1>2 DEF ReplayRecord, IsEnd, Expired
  <1>4. /\ acc.idx \in [Keys -> 0..(n - 1)]
        /\ acc \in [idx: [Keys -> 0..(n - 1)], recs: SUBSET (1..(n - 1))]
    BY DEF Exact, Sound
  <1> HIDE DEF new
  <1>5. IF Expired(n) THEN new.idx = [acc.idx EXCEPT ![r.key] = 0] /\ new.recs = acc.recs
                      ELSE new.idx = acc.idx /\ new.recs = acc.recs \cup {n}
    BY <1>3, <1>4
  <1>6. new.recs = Waiting(n)
    <2>1. Waiting(n) = Waiting(n - 1) \cup {p \in {n} : ~Expired(p)}
      BY <1>0 DEF Waiting
    <2> QED BY <1>5, <2>1 DEF Exact
  <1>7. \A k \in Keys : Settled(n, k) =
            Settled(n - 1, k) \cup {p \in {n} : Expired(p) /\ r.key = k /\ n \notin torn}
    BY <1>0 DEF Settled
  <1>8. Expired(n) => n \notin torn
    BY DEF Expired, IsExpired, TornInv
  <1>9. ASSUME NEW k \in Keys PROVE Shows(new.idx[k], Settled(n, k))
    <2>1. CASE Expired(n) /\ r.key = k
      <3>1. Settled(n, k) = Settled(n - 1, k) \cup {n} /\ new.idx[k] = 0
        BY <1>4, <1>5, <1>7, <1>8, <2>1
      <3>2. \A p \in Settled(n, k) : (\A q \in Settled(n, k) : q <= p) => p = n
        <4>1. Settled(n - 1, k) \subseteq 1..(n - 1)
          BY DEF Settled
        <4> QED BY <1>0, <3>1, <4>1
      <3>3. Dead(dataFiles[n])
        BY <2>1 DEF Dead, Expired
      <3> QED BY <3>1, <3>2, <3>3 DEF Shows
    <2>2. CASE ~(Expired(n) /\ r.key = k)
      <3>1. Settled(n, k) = Settled(n - 1, k)
        BY <1>7, <2>2
      <3>2. new.idx[k] = acc.idx[k]
        BY <1>4, <1>5, <2>2
      <3> QED BY <3>1, <3>2 DEF Exact
    <2> QED BY <2>1, <2>2
  <1>10. Exact(new, n)
    BY <1>1, <1>6, <1>9 DEF Exact
  <1> QED BY <1>10 DEF new

\* The index Open builds from a log whose torn batches hold no lifetimes: the
\* last record of every key among the whole batches, unless it is dead.
LEMMA LoadExact ==
    ASSUME TypeOK, LogInv, TornInv, NEW k \in Keys
    PROVE  Shows(loadIndexFromWAL[k],
                 {p \in 1..Len(dataFiles) : ~IsEnd(p) /\ dataFiles[p].key = k /\ p \notin torn})
  <1> DEFINE L == Len(dataFiles)
  <1>0. L \in Nat
    BY LenProperties DEF TypeOK
  <1>1. PICK f : /\ f[0] = Start
                 /\ \A n \in 1..L : f[n] = ReplayRecord(f[n - 1], n)
                 /\ loadIndexFromWAL = f[L].idx
    BY ReplaySteps
  <1> DEFINE S == {n \in 0..L : ~Exact(f[n], n)}
  <1>2. S = {}
    <2> SUFFICES ASSUME S # {} PROVE FALSE
      OBVIOUS
    <2>1. S \in SUBSET Nat
      BY <1>0
    <2>2. PICK n \in S : \A q \in S : n <= q
      BY <2>1, LeastNatural, Zenon
    <2>3. n \in 0..L /\ ~Exact(f[n], n)
      OBVIOUS
    <2>4. n # 0
      <3>1. Sound(Start, 0)
        BY DEF Sound, Start
      <3>2. Waiting(0) = {} /\ \A x \in Keys : Settled(0, x) = {}
        BY DEF Waiting, Settled
      <3>3. Exact(Start, 0)
        BY <3>1, <3>2 DEF Exact, Start, Shows
      <3> QED BY <1>1, <2>3, <3>3
    <2>5. n - 1 \in 0..L /\ n \in 1..L /\ n - 1 \notin S
      <3>1. n - 1 \in 0..L /\ n \in 1..L /\ ~(n <= n - 1)
        BY <1>0, <2>3, <2>4
      <3> HIDE DEF S
      <3> QED BY <2>2, <3>1
    <2>6. Exact(f[n - 1], n - 1)
      BY <2>5
    <2>7. f[n] = ReplayRecord(f[n - 1], n)
      BY <1>1, <2>5
    <2> QED BY <2>3, <2>5, <2>6, <2>7, ExactEnd, ExactRecord
  <1>3. Shows(loadIndexFromWAL[k], Settled(L, k))
    BY <1>0, <1>1, <1>2 DEF Exact
  <1>4. Settled(L, k) = {p \in 1..L : ~IsEnd(p) /\ dataFiles[p].key = k /\ p \notin torn}
    <2>1. ASSUME NEW p \in 1..L, ~IsEnd(p), p \notin torn PROVE \E q \in p..L : IsEnd(q)
      <3>1. PICK e \in 1..L : Closes(p, e)
        BY <2>1 DEF LogInv, Shape, Closes, IsEnd, Closing
      <3> QED BY <1>0, <3>1 DEF Closes, Closing, IsEnd
    <2> QED BY <2>1 DEF Settled
  <1> QED BY <1>3, <1>4
-----------------------------------------------------------------------------
(* The log through commits and crashes                                     *)

RecInv == IInv /\ Histories /\ LogInv /\ PromiseInv

\* A whole commit keeps the shape of the log.
LEMMA CommitShape ==
    ASSUME IInv, LogInv, NEW b \in Batches
    PROVE  Shape(dataFiles \o CommitRecords(batch[b]), torn, now)
  <1> DEFINE pw == batch[b].pendingWrites
             base == Len(dataFiles)
             new == dataFiles \o CommitRecords(batch[b])
             end == base + Len(pw) + 1
  <1>0. /\ pw \in Seq(LogRecords) /\ Len(pw) \in Nat /\ base \in Nat /\ now \in Nat /\ now # 0
        /\ BatchOK(batch[b])
    BY LenProperties DEF IInv, TypeOK, BatchStates
  <1>1. /\ Len(new) = end
        /\ \A i \in 1..base : new[i] = dataFiles[i]
        /\ \A i \in 1..Len(pw) : new[base + i] = [pw[i] EXCEPT !.batchId = now]
        /\ new[end] = EndRecord(now)
    BY CommitRecordsLemma
  <1> HIDE DEF new
  <1>2. new[end].type = "BatchFinished" /\ new[end].key = now
    BY <1>1 DEF EndRecord
  <1>3. ASSUME NEW p \in (base + 1)..(base + Len(pw))
        PROVE  /\ new[p].type # "BatchFinished" /\ new[p].batchId = now
               /\ new[p].key = pw[p - base].key
    <2>1. p - base \in 1..Len(pw) /\ p = base + (p - base)
      BY <1>0
    <2>2. pw[p - base] \in LogRecords /\ new[p] = [pw[p - base] EXCEPT !.batchId = now]
      BY <1>0, <1>1, <2>1, ElementOfSeq
    <2> QED BY <2>2 DEF LogRecords
  <1>4. \A p, q \in (base + 1)..(base + Len(pw)) : new[p].key = new[q].key => p = q
    <2> SUFFICES ASSUME NEW p \in (base + 1)..(base + Len(pw)),
                        NEW q \in (base + 1)..(base + Len(pw)), new[p].key = new[q].key
                 PROVE  p = q
      OBVIOUS
    <2>1. p - base \in 1..Len(pw) /\ q - base \in 1..Len(pw)
      BY <1>0
    <2>2. pw[p - base].key = pw[q - base].key
      BY <1>3
    <2>3. p - base = q - base
      BY <1>0, <2>1, <2>2 DEF BatchOK, PendingInv
    <2> QED BY <1>0, <2>3
  <1>5. \A p \in torn : p \in 1..base
    BY DEF LogInv, Shape
  <1>6. ASSUME NEW p \in 1..Len(new), new[p].type # "BatchFinished"
        PROVE  /\ new[p].batchId \in 1..now
               /\ p \notin torn => \E e \in 1..Len(new) : Closing(new, torn, p, e)
    <2>1. CASE p \in 1..base
      <3>1. dataFiles[p].type # "BatchFinished" /\ new[p] = dataFiles[p]
        BY <1>1, <1>6, <2>1
      <3>2. new[p].batchId \in 1..now
        BY <2>1, <3>1 DEF LogInv, Shape
      <3>3. ASSUME p \notin torn PROVE \E e \in 1..Len(new) : Closing(new, torn, p, e)
        <4>1. PICK e \in 1..base : Closing(dataFiles, torn, p, e)
          BY <2>1, <3>1, <3>3 DEF LogInv, Shape
        <4>2. e \in (p + 1)..base /\ \A q \in p..e : q \in 1..base /\ new[q] = dataFiles[q]
          BY <1>0, <1>1, <2>1, <4>1 DEF Closing
        <4>3. e \in 1..Len(new) /\ e \in (p + 1)..Len(new) /\ e \in p..e /\ p \in p..e
              /\ \A q \in p..(e - 1) : q \in p..e
          BY <1>0, <1>1, <2>1, <4>2
        <4>4. Closing(new, torn, p, e)
          BY <4>1, <4>2, <4>3 DEF Closing
        <4> QED BY <4>3, <4>4
      <3> QED BY <3>2, <3>3
    <2>2. CASE p \notin 1..base
      <3>1. p \in (base + 1)..(base + Len(pw)) /\ p \in (base + 1)..(end - 1)
        <4>1. p # end
          BY <1>2, <1>6
        <4>2. p \in 1..(base + Len(pw) + 1)
          BY <1>1
        <4> QED BY <1>0, <2>2, <4>1, <4>2
      <3>2. end \in (p + 1)..Len(new) /\ end \in 1..Len(new)
        BY <1>0, <1>1, <3>1
      <3>3. \A q \in p..(end - 1) : q \in (base + 1)..(base + Len(pw)) /\ q \notin torn
        BY <1>0, <1>5, <3>1
      <3>4. new[p].batchId = now
        BY <1>3, <3>1
      <3>5. Closing(new, torn, p, end)
        BY <1>2, <1>3, <1>4, <3>1, <3>2, <3>3, <3>4 DEF Closing
      <3> QED BY <1>0, <3>2, <3>4, <3>5
    <2> QED BY <2>1, <2>2
  <1>7. ASSUME NEW p \in torn
        PROVE  /\ p \in 1..Len(new) /\ new[p].type # "BatchFinished" /\ new[p].batchId < now
               /\ \A q \in (p + 1)..Len(new) :
                     new[q].type = "BatchFinished" => new[q].key # new[p].batchId
    <2>1. /\ p \in 1..base /\ p \in 1..Len(new) /\ new[p] = dataFiles[p]
          /\ dataFiles[p].type # "BatchFinished" /\ dataFiles[p].batchId < now
          /\ \A q \in (p + 1)..base :
                dataFiles[q].type = "BatchFinished" => dataFiles[q].key # dataFiles[p].batchId
      BY <1>0, <1>1, <1>5 DEF LogInv, Shape
    <2>2. ASSUME NEW q \in (p + 1)..Len(new), new[q].type = "BatchFinished"
          PROVE  new[q].key # new[p].batchId
      <3>1. CASE q \in 1..base
        BY <1>0, <1>1, <2>1, <2>2, <3>1
      <3>2. CASE q \notin 1..base
        <4>1. q = end
          <5>1. q \notin (base + 1)..(base + Len(pw))
            BY <1>3, <2>2
          <5>2. q \in 1..(base + Len(pw) + 1)
            BY <1>0, <1>1, <2>1, <2>2
          <5> QED BY <1>0, <3>2, <5>1, <5>2
        <4>2. dataFiles[p].batchId \in 1..now
          BY <2>1 DEF LogInv, Shape
        <4> QED BY <1>0, <1>2, <2>1, <4>1, <4>2
      <3> QED BY <3>1, <3>2
    <2> QED BY <2>1, <2>2
  <1>8. Shape(new, torn, now)
    BY <1>6, <1>7 DEF Shape
  <1> QED BY <1>8 DEF new

\* A crash that cuts the log at c leaves a log of that shape: the batch cut in
\* two is torn, and its id is in the past.
LEMMA CutShape ==
    ASSUME NEW R, NEW log \in Seq(R), NEW tn, NEW t \in Nat, Shape(log, tn, t),
           NEW c \in 0..Len(log)
    PROVE  /\ Shape(SubSeq(log, 1, c), (tn \cap 1..c) \cup Unfinished(log, c), t + 1)
           /\ SubSeq(log, 1, c) \in Seq(R) /\ Len(SubSeq(log, 1, c)) = c
           /\ \A i \in 1..c : SubSeq(log, 1, c)[i] = log[i]
  <1> DEFINE new == SubSeq(log, 1, c)
             un == (tn \cap 1..c) \cup Unfinished(log, c)
  <1>0. Len(log) \in Nat /\ c \in Nat /\ c <= Len(log)
    BY LenProperties
  <1>1. new \in Seq(R) /\ Len(new) = c /\ \A i \in 1..c : new[i] = log[i]
    BY <1>0
  <1> HIDE DEF new
  <1>2. ASSUME NEW p \in 1..c, log[p].type # "BatchFinished"
        PROVE  /\ log[p].batchId \in 1..(t + 1) /\ log[p].batchId < t + 1
               /\ p \notin un => \E e \in 1..c : Closing(new, un, p, e)
    <2>1. p \in 1..Len(log) /\ log[p].batchId \in 1..t
      BY <1>0, <1>2 DEF Shape
    <2>2. ASSUME p \notin un PROVE \E e \in 1..c : Closing(new, un, p, e)
      <3>1. PICK e \in 1..Len(log) : Closing(log, tn, p, e)
        BY <1>2, <2>1, <2>2 DEF Shape
      <3>2. PICK q \in p..c : log[q].type = "BatchFinished"
        BY <2>2 DEF Unfinished
      <3>3. /\ e \in (p + 1)..Len(log) /\ log[e].type = "BatchFinished"
            /\ log[e].key = log[p].batchId
            /\ \A x \in p..(e - 1) : /\ log[x].type # "BatchFinished" /\ x \notin tn
                                     /\ x # p => log[x].key # log[p].key
        BY <3>1 DEF Closing
      <3>4. e <= c
        <4>1. ~(q \in p..(e - 1))
          BY <3>2, <3>3
        <4> QED BY <1>0, <3>2, <3>3, <4>1
      <3>5. e \in 1..c /\ e \in (p + 1)..c /\ \A x \in p..(e - 1) : x \in 1..c /\ e \in x..c
        BY <1>0, <3>3, <3>4
      <3>6. \A x \in p..(e - 1) : x \notin un
        BY <3>3, <3>5 DEF Unfinished
      <3>7. Closing(new, un, p, e)
        BY <1>1, <1>2, <3>3, <3>5, <3>6 DEF Closing
      <3> QED BY <3>5, <3>7
    <2>3. log[p].batchId \in 1..(t + 1) /\ log[p].batchId < t + 1
      BY <2>1
    <2> QED BY <2>2, <2>3
  <1>3. ASSUME NEW p \in un
        PROVE  /\ p \in 1..c /\ log[p].type # "BatchFinished"
               /\ \A q \in (p + 1)..c : log[q].type = "BatchFinished" => log[q].key # log[p].batchId
    <2>1. CASE p \in tn
      <3>1. p \in 1..c
        BY <2>1 DEF Unfinished
      <3> QED BY <1>0, <2>1, <3>1 DEF Shape
    <2>2. CASE p \in Unfinished(log, c)
      <3>1. p \in 1..c /\ \A q \in p..c : log[q].type # "BatchFinished"
        BY <2>2 DEF Unfinished
      <3> QED BY <1>0, <3>1
    <2> QED BY <2>1, <2>2
  <1> HIDE DEF un
  <1>4. \A p \in un : log[p].batchId < t + 1
    BY <1>2, <1>3
  <1>5. Shape(new, un, t + 1)
    <2>1. \A p \in 1..Len(new) : new[p].type # "BatchFinished" =>
            /\ new[p].batchId \in 1..(t + 1)
            /\ p \notin un => \E e \in 1..Len(new) : Closing(new, un, p, e)
      BY <1>1, <1>2
    <2>2. \A p \in un :
            /\ p \in 1..Len(new) /\ new[p].type # "BatchFinished" /\ new[p].batchId < t + 1
            /\ \A q \in (p + 1)..Len(new) :
                  new[q].type = "BatchFinished" => new[q].key # new[p].batchId
      <3> SUFFICES ASSUME NEW p \in un
                   PROVE  /\ p \in 1..c /\ new[p].type # "BatchFinished" /\ new[p].batchId < t + 1
                          /\ \A q \in (p + 1)..c :
                                new[q].type = "BatchFinished" => new[q].key # new[p].batchId
        BY <1>1
      <3>1. p \in 1..c /\ new[p] = log[p] /\ \A q \in (p + 1)..c : new[q] = log[q]
        BY <1>0, <1>1, <1>3
      <3> QED BY <1>3, <1>4, <3>1
    <2> QED BY <2>1, <2>2 DEF Shape
  <1> QED BY <1>1, <1>5 DEF new, un
-----------------------------------------------------------------------------
(* Steps                                                                   *)

LEMMA OpenAnswer == [op |-> "Open", key |-> EmptyKey, ans |-> OK] \in Responses
  BY AnswerLemma DEF Responses, Ops, AllKeys

\* What a crash leaves on disk: a log of the right shape that starts with
\* everything that was flushed.
LEMMA CrashLog ==
    ASSUME RecInv, Crash
    PROVE  /\ dataFiles' \in Seq(LogRecords \cup EndRecords)
           /\ LogInv'
           /\ synced <= Len(dataFiles')
           /\ \A p \in 1..synced : dataFiles'[p] = dataFiles[p]
           /\ TornInv /\ TornExpiring = FALSE => TornInv'
  <1> DEFINE R == LogRecords \cup EndRecords
  <1>0. /\ Len(dataFiles) \in Nat /\ now \in Nat /\ synced \in Nat /\ synced <= Len(dataFiles)
        /\ dataFiles \in Seq(R) /\ IInv /\ LogInv
    BY LenProperties DEF RecInv, IInv, TypeOK
  <1>a. PICK log \in InFlight : \E c \in Cuts(log) :
            /\ dataFiles' = SubSeq(log, 1, c)
            /\ torn' = (torn \cap 1..c) \cup Unfinished(log, c)
    BY DEF Crash
  <1>1. PICK cut \in Cuts(log) :
            /\ dataFiles' = SubSeq(log, 1, cut)
            /\ torn' = (torn \cap 1..cut) \cup Unfinished(log, cut)
    BY <1>a
  <1>2. /\ log \in Seq(R) /\ Shape(log, torn, now)
        /\ Len(log) \in Nat /\ Len(log) >= Len(dataFiles)
        /\ \A i \in 1..Len(dataFiles) : log[i] = dataFiles[i]
    <2>1. CASE log = dataFiles
      BY <1>0, <2>1 DEF LogInv
    <2>2. ASSUME NEW b \in Batches, log = dataFiles \o CommitRecords(batch[b])
          PROVE  /\ log \in Seq(R) /\ Shape(log, torn, now)
                 /\ Len(log) \in Nat /\ Len(log) >= Len(dataFiles)
                 /\ \A i \in 1..Len(dataFiles) : log[i] = dataFiles[i]
      <3>1. Shape(log, torn, now)
        BY <1>0, <2>2, CommitShape
      <3>2. /\ log \in Seq(R)
            /\ Len(log) = Len(dataFiles) + Len(batch[b].pendingWrites) + 1
            /\ \A i \in 1..Len(dataFiles) : log[i] = dataFiles[i]
        BY <1>0, <2>2, CommitRecordsLemma
      <3>3. Len(batch[b].pendingWrites) \in Nat
        BY <1>0, LenProperties DEF IInv, TypeOK, BatchStates
      <3> QED BY <1>0, <3>1, <3>2, <3>3
    <2> QED BY <2>1, <2>2 DEF InFlight
  <1>3. cut \in 0..Len(log) /\ synced <= cut
    BY <1>0, <1>2 DEF Cuts
  <1> HIDE DEF R
  <1>4. /\ Shape(dataFiles', torn', now + 1)
        /\ dataFiles' \in Seq(R) /\ Len(dataFiles') = cut
        /\ \A i \in 1..cut : dataFiles'[i] = log[i]
    BY <1>0, <1>1, <1>2, <1>3, CutShape
  <1>5. LogInv'
    BY <1>4 DEF LogInv, Crash
  <1>6. \A p \in 1..synced : dataFiles'[p] = dataFiles[p]
    <2> SUFFICES ASSUME NEW p \in 1..synced PROVE dataFiles'[p] = dataFiles[p]
      OBVIOUS
    <2>1. p \in 1..cut /\ p \in 1..Len(dataFiles)
      BY <1>0, <1>3
    <2> QED BY <1>2, <1>4, <2>1
  <1>7. ASSUME TornInv, TornExpiring = FALSE, NEW p \in torn' PROVE dataFiles'[p].expire = 0
    <2>1. CASE p \in torn /\ p \in 1..cut
      <3>1. p \in 1..Len(dataFiles)
        BY <1>0, <2>1 DEF LogInv, Shape
      <3> QED BY <1>2, <1>4, <1>7, <2>1, <3>1 DEF TornInv
    <2>2. CASE p \in Unfinished(log, cut)
      <3>1. p \in 1..cut /\ log[p].expire = 0
        BY <1>7, <2>2 DEF Cuts, Unfinished
      <3> QED BY <1>4, <3>1
    <2> QED BY <1>1, <1>7, <2>1, <2>2
  <1> QED BY <1>3, <1>4, <1>5, <1>6, <1>7 DEF R, TornInv

LEMMA CrashStep ==
    ASSUME RecInv, Crash
    PROVE  RecInv'
  <1>0. Len(dataFiles') \in Nat /\ now \in Nat /\ synced \in Nat
    BY CrashLog, LenProperties DEF RecInv, IInv, TypeOK
  <1>1. \A b \in Batches : batch'[b] = NoBatch
    BY DEF Crash
  <1>2. \A b \in Batches : BatchOK(batch'[b])
    BY <1>1, NoBatchLemma
  <1>3. Readers' = {} /\ Writers' = {}
    BY <1>1, NoBatchLemma DEF Readers, Writers
  <1>4. LockInv'
    BY <1>3, FS_EmptySet DEF Crash, LockInv
  <1>5. TypeOK'
    <2>1. batch' \in [Batches -> BatchStates]
      BY NoBatchLemma DEF Crash, BatchOK
    <2>2. resp' \in Responses
      BY OpenAnswer DEF Crash, Reply
    <2>3. index' \in [Keys -> Nat] /\ now' \in Nat \ {0} /\ rcount' \in Nat
      BY <1>0 DEF Crash
    <2>4. closed' \in BOOLEAN /\ wlocked' \in BOOLEAN
      BY DEF Crash
    <2>5. synced' \in 0..Len(dataFiles')
      <3>1. synced <= Len(dataFiles') /\ synced' = synced
        BY CrashLog DEF Crash
      <3> QED BY <1>0, <3>1
    <2> QED BY <2>1, <2>2, <2>3, <2>4, <2>5, CrashLog DEF TypeOK
  <1>6. IndexSound'
    BY DEF Crash, IndexSound
  <1>7. Histories'
    BY DEF Crash, Histories
  <1>8. PromiseInv'
    <2>1. promised' = promised /\ synced' = synced /\ Len(promised) \in Nat
      BY LenProperties DEF Crash, RecInv, PromiseInv
    <2>2. \A p \in 1..Len(promised) : p \in 1..synced
      BY <1>0, <2>1 DEF RecInv, PromiseInv
    <2> QED BY <2>1, <2>2, CrashLog DEF RecInv, PromiseInv
  <1> QED BY <1>2, <1>4, <1>5, <1>6, <1>7, <1>8, CrashLog DEF RecInv, IInv, BatchOK, PendingInv

LEMMA OpenStep ==
    ASSUME RecInv, Open
    PROVE  RecInv'
  <1>1. TypeOK
    BY DEF RecInv, IInv
  <1>2. /\ index' = loadIndexFromWAL /\ dataFiles' = dataFiles /\ batch' = batch
        /\ synced' = synced /\ wlocked' = wlocked /\ rcount' = rcount /\ now' = now
        /\ torn' = torn /\ promised' = promised
    BY DEF Open, mu
  <1>3. TypeOK'
    <2>1. resp' \in Responses
      BY OpenAnswer DEF Open, Reply
    <2>2. closed' \in BOOLEAN
      BY DEF Open
    <2> QED BY <1>1, <1>2, <2>1, <2>2, LoadSound DEF TypeOK
  <1>4. IndexSound'
    BY <1>1, <1>2, LoadSound DEF IndexSound
  <1>5. LockInv' /\ \A b \in Batches : BatchOK(batch[b])'
    BY <1>2 DEF RecInv, IInv, LockInv, Readers, Writers, BatchOK, PendingInv
  <1>6. Histories'
    BY DEF Open, Histories
  <1>7. LogInv' /\ PromiseInv'
    BY <1>2 DEF RecInv, LogInv, PromiseInv
  <1> QED BY <1>3, <1>4, <1>5, <1>6, <1>7 DEF RecInv, IInv

LEMMA CommitOpStep ==
    ASSUME RecInv, NEW b \in Batches, NEW o \in Outcomes, CommitOp(b, o)
    PROVE  RecInv'
  <1> DEFINE new == dataFiles \o CommitRecords(batch[b])
  <1>0. IInv /\ LogInv /\ Histories /\ PromiseInv
    BY DEF RecInv
  <1>1. IInv'
    BY <1>0, CommitStep DEF CommitOp
  <1>2. /\ dataFiles' = dataFiles \/ dataFiles' = new
        /\ now' = now /\ torn' = torn /\ running' = running
        /\ synced' = synced \/ synced' = Len(dataFiles')
        /\ promised' = promised \/ (promised' = dataFiles' /\ synced' = Len(dataFiles'))
        /\ failed' = failed \/ failed' = failed \cup (Len(dataFiles) + 1)..Len(dataFiles')
    BY DEF CommitOp, Commit, CommitOutcome
  <1>3. /\ Len(dataFiles) \in Nat /\ Len(dataFiles') \in Nat
        /\ Len(dataFiles') >= Len(dataFiles)
        /\ \A i \in 1..Len(dataFiles) : dataFiles'[i] = dataFiles[i]
    <2>1. Len(batch[b].pendingWrites) \in Nat /\ Len(dataFiles) \in Nat
      BY <1>0, LenProperties DEF IInv, TypeOK, BatchStates
    <2>2. /\ Len(new) = Len(dataFiles) + Len(batch[b].pendingWrites) + 1
          /\ \A i \in 1..Len(dataFiles) : new[i] = dataFiles[i]
      BY <1>0, CommitRecordsLemma
    <2> HIDE DEF new
    <2> QED BY <1>2, <2>1, <2>2
  <1>4. LogInv'
    <2>1. CASE dataFiles' = dataFiles
      BY <1>0, <1>2, <2>1 DEF LogInv
    <2>2. CASE dataFiles' = new
      BY <1>0, <1>2, <2>2, CommitShape DEF LogInv
    <2> QED BY <1>2, <2>1, <2>2
  <1> HIDE DEF new
  <1>5. Histories'
    <2>1. running' \in BOOLEAN
      BY <1>0, <1>2, Zenon DEF Histories
    <2>2. failed \subseteq 1..Len(dataFiles)
      BY <1>0 DEF Histories
    <2>3. failed' \subseteq 1..Len(dataFiles')
      <3> SUFFICES ASSUME NEW x \in failed' PROVE x \in 1..Len(dataFiles')
        OBVIOUS
      <3>1. x \in 1..Len(dataFiles) \/ x \in (Len(dataFiles) + 1)..Len(dataFiles')
        BY <1>2, <2>2
      <3> QED BY <1>3, <3>1
    <2> QED BY <2>1, <2>3 DEF Histories
  <1>6. PromiseInv'
    <2>1. CASE promised' = promised
      <3>1. Len(promised) \in Nat /\ Len(promised) <= synced /\ synced \in 0..Len(dataFiles)
        BY <1>0, LenProperties DEF PromiseInv, IInv, TypeOK
      <3>2. Len(promised) <= synced' /\ \A p \in 1..Len(promised) : p \in 1..Len(dataFiles)
        BY <1>2, <1>3, <3>1
      <3> QED BY <1>0, <1>3, <2>1, <3>2 DEF PromiseInv
    <2>2. CASE promised' = dataFiles' /\ synced' = Len(dataFiles')
      BY <1>1, <1>3, <2>2 DEF PromiseInv, IInv, TypeOK
    <2> QED BY <1>2, <2>1, <2>2
  <1> QED BY <1>1, <1>4, <1>5, <1>6 DEF RecInv

\* The steps that write nothing to the log.
LEMMA QuietLogStep ==
    ASSUME RecInv, \/ \E b \in Batches : WriteOp(b)
                   \/ SyncOp \/ CloseOp \/ TickOp \/ UNCHANGED rvars
    PROVE  RecInv' /\ dataFiles' = dataFiles /\ torn' = torn /\ failed' = failed
  <1>0. IInv /\ LogInv /\ Histories /\ PromiseInv
    BY DEF RecInv
  <1>1. [Next]_vars
    BY DEF WriteOp, SyncOp, CloseOp, TickOp, rvars, Next, BatchStep, BatchOp
  <1>2. IInv'
    BY <1>0, <1>1, NextIInv
  <1>3. /\ dataFiles' = dataFiles /\ torn' = torn /\ failed' = failed /\ running' = running
        /\ now' = now \/ now' = now + 1
        /\ \/ synced' = synced /\ promised' = promised
           \/ synced' = Len(dataFiles) /\ promised' = dataFiles
    <2>1. CASE \E b \in Batches : WriteOp(b)
      BY <2>1 DEF WriteOp, history, NewBatch, Begin, Put, PutWithTTL, Delete, Get, Rollback, db
    <2>2. CASE SyncOp
      BY <2>2 DEF SyncOp, Sync
    <2>3. CASE CloseOp \/ TickOp
      BY <2>3 DEF CloseOp, TickOp, Close, Tick, history, db
    <2>4. CASE UNCHANGED rvars
      BY <2>4 DEF rvars, vars
    <2> QED BY <2>1, <2>2, <2>3, <2>4
  <1>4. Len(dataFiles) \in Nat /\ now \in Nat
    BY <1>0, LenProperties DEF IInv, TypeOK
  <1>5. Shape(dataFiles, torn, now + 1)
    <2>1. \A x \in 1..now : x \in 1..(now + 1)
      BY <1>4
    <2>2. ASSUME NEW p \in torn PROVE dataFiles[p].batchId < now + 1
      <3>1. p \in 1..Len(dataFiles) /\ dataFiles[p].type # "BatchFinished"
        BY <1>0 DEF LogInv, Shape
      <3>2. dataFiles[p].batchId \in 1..now
        BY <1>0, <3>1 DEF LogInv, Shape
      <3> QED BY <1>4, <3>2
    <2> QED BY <1>0, <2>1, <2>2 DEF LogInv, Shape
  <1>6. LogInv'
    BY <1>0, <1>3, <1>5 DEF LogInv
  <1>7. Histories'
    BY <1>0, <1>3 DEF Histories
  <1>8. PromiseInv'
    BY <1>0, <1>3, <1>4 DEF PromiseInv, IInv, TypeOK
  <1> QED BY <1>2, <1>3, <1>6, <1>7, <1>8 DEF RecInv

LEMMA InitRecInv == RInit => RecInv
  <1> SUFFICES ASSUME RInit PROVE RecInv
    OBVIOUS
  <1>1. IInv
    BY InitIInv DEF RInit
  <1>2. dataFiles = <<>> /\ synced = 0 /\ torn = {} /\ failed = {} /\ promised = <<>> /\ running = TRUE
    BY DEF RInit, Init
  <1>3. PromiseInv
    BY <1>2 DEF PromiseInv
  <1>4. LogInv
    BY <1>2 DEF LogInv, Shape
  <1>5. Histories
    BY <1>2 DEF Histories
  <1> QED BY <1>1, <1>3, <1>4, <1>5 DEF RecInv

LEMMA NextRecInv == RecInv /\ [RNext]_rvars => RecInv'
  BY CrashStep, OpenStep, CommitOpStep, QuietLogStep DEF RNext

THEOREM RecoveryInductive == RSpec => []RecInv
  BY InitRecInv, NextRecInv, PTL DEF RSpec

\* Through any number of crashes and restarts every variable keeps its type;
\* in particular the index Open rebuilds is typed, whatever the crash left.
THEOREM RecoveryTypeCorrect == RSpec => []RTypeOK
  <1>1. RecInv => RTypeOK
    <2> SUFFICES ASSUME RecInv PROVE RTypeOK
      OBVIOUS
    <2>1. torn \subseteq 1..Len(dataFiles)
      BY DEF RecInv, LogInv, Shape
    <2> QED BY <2>1 DEF RecInv, IInv, Histories, PromiseInv, RTypeOK
  <1> QED BY <1>1, RecoveryInductive, PTL

\* What Sync, or a commit with Sync, has promised heads the log for ever: no
\* crash, failed flush, torn batch or later write disturbs it (db.go Sync,
\* batch.go Commit).
THEOREM FlushedSurvives == RSpec => []PromisesKept
  <1>1. RecInv => PromisesKept
    <2> SUFFICES ASSUME RecInv PROVE PromisesKept
      OBVIOUS
    <2>1. /\ Len(promised) \in Nat /\ Len(promised) <= synced /\ synced \in 0..Len(dataFiles)
          /\ Len(dataFiles) \in Nat
          /\ \A p \in 1..Len(promised) : dataFiles[p] = promised[p]
      BY LenProperties DEF RecInv, PromiseInv, IInv, TypeOK
    <2> QED BY <2>1 DEF PromisesKept
  <1> QED BY <1>1, RecoveryInductive, PTL
-----------------------------------------------------------------------------
(* The index and the log                                                   *)

\* The records of k written by whole and successful batches.
Written(k) ==
    {p \in 1..Len(dataFiles) : /\ dataFiles[p].type # "BatchFinished" /\ dataFiles[p].key = k
                               /\ p \notin torn /\ p \notin failed}

Matches(k) == IF Alive(LastWrite(k)) THEN index[k] = LastWrite(k) ELSE ~Alive(index[k])

\* The record at p, if there is one, is not dead at time t.
AliveAt(p, t) ==
    p # 0 /\ ~(dataFiles[p].type = "Deleted" \/ IsExpired(dataFiles[p].expire, t))

Latest(ps) == IF ps = {} THEN 0 ELSE CHOOSE p \in ps : \A q \in ps : q <= p

LEMMA LatestLemma ==
    ASSUME NEW n \in Nat, NEW ps \in SUBSET (1..n)
    PROVE  /\ ps = {} => Latest(ps) = 0
           /\ ps # {} => Latest(ps) \in ps /\ \A q \in ps : q <= Latest(ps)
           /\ \A p \in ps : (\A q \in ps : q <= p) => p = Latest(ps)
           /\ Latest(ps) # 0 => Latest(ps) \in 1..n
  <1>1. ASSUME ps # {} PROVE Latest(ps) \in ps /\ \A q \in ps : q <= Latest(ps)
    <2>1. \E p \in ps : \A q \in ps : q <= p
      BY <1>1, LastExists, Zenon
    <2> QED BY <1>1, <2>1 DEF Latest
  <1>2. ASSUME NEW p \in ps, \A q \in ps : q <= p PROVE p = Latest(ps)
    <2>1. Latest(ps) \in ps /\ p <= Latest(ps) /\ Latest(ps) <= p
      BY <1>1, <1>2
    <2>2. p \in 1..n /\ Latest(ps) \in 1..n
      BY <2>1
    <2> QED BY <2>1, <2>2
  <1> QED BY <1>1, <1>2 DEF Latest

\* LastWrite names the latest of those records, now and in the next state.
LEMMA LastWriteLemma ==
    ASSUME NEW k
    PROVE  /\ TypeOK => LastWrite(k) = Latest(Written(k))
           /\ TypeOK' => LastWrite(k)' = Latest(Written(k)')
  <1>1. ASSUME TypeOK PROVE LastWrite(k) = Latest(Written(k))
    <2>1. DOMAIN dataFiles = 1..Len(dataFiles)
      BY <1>1, LenProperties DEF TypeOK
    <2> QED BY <2>1 DEF LastWrite, Written, Latest
  <1>2. ASSUME TypeOK' PROVE LastWrite(k)' = Latest(Written(k)')
    <2>1. DOMAIN dataFiles' = 1..Len(dataFiles')
      BY <1>2, LenProperties DEF TypeOK
    <2> QED BY <2>1 DEF LastWrite, Written, Latest
  <1> QED BY <1>1, <1>2

\* Recovery: the replay shows the last write of every key.
LEMMA OpenMatches ==
    ASSUME RecInv, TornInv, Open, NEW k \in Keys
    PROVE  Matches(k)'
  <1>1. TypeOK /\ LogInv
    BY DEF RecInv, IInv
  <1>2. TypeOK'
    BY OpenStep DEF RecInv, IInv
  <1>3. /\ dataFiles' = dataFiles /\ torn' = torn /\ failed' = {} /\ now' = now
        /\ index'[k] = loadIndexFromWAL[k]
    BY DEF Open
  <1>4. Shows(index'[k], Written(k)')
    <2>1. Written(k)' = {p \in 1..Len(dataFiles) : ~IsEnd(p) /\ dataFiles[p].key = k /\ p \notin torn}
      BY <1>3 DEF Written, IsEnd
    <2> QED BY <1>1, <1>3, <2>1, LoadExact
  <1>5. /\ Written(k)' = {} => LastWrite(k)' = 0
        /\ Written(k)' # {} => /\ LastWrite(k)' \in Written(k)'
                               /\ \A q \in Written(k)' : q <= LastWrite(k)'
    <2>1. Len(dataFiles) \in Nat /\ Written(k)' \in SUBSET (1..Len(dataFiles))
      BY <1>1, <1>3, LenProperties DEF Written, TypeOK
    <2>2. LastWrite(k)' = Latest(Written(k)')
      BY <1>2, LastWriteLemma
    <2> QED BY <2>1, <2>2, LatestLemma
  <1>6. CASE Written(k)' = {}
    BY <1>4, <1>5, <1>6 DEF Shows, Matches, Alive
  <1>7. CASE Written(k)' # {}
    <2>1. index'[k] = IF Dead(dataFiles[LastWrite(k)']) THEN 0 ELSE LastWrite(k)'
      BY <1>4, <1>5, <1>7 DEF Shows
    <2>2. LastWrite(k)' \in 1..Len(dataFiles)
      BY <1>3, <1>5, <1>7 DEF Written
    <2>3. Dead(dataFiles[LastWrite(k)])' <=> Dead(dataFiles[LastWrite(k)'])
      BY <1>3 DEF Dead
    <2> QED BY <2>1, <2>2, <2>3 DEF Matches, Alive
  <1> QED BY <1>6, <1>7

\* A step that leaves the log alone and takes from the index only what has expired.
LEMMA QuietMatches ==
    ASSUME TypeOK, NEW k \in Keys, Matches(k),
           dataFiles' = dataFiles, torn' = torn, failed' = failed, now' \in {now, now + 1},
           index'[k] = index[k] \/ (index'[k] = 0 /\ ~Alive(index[k])),
           index[k] # 0 => index[k] \in 1..Len(dataFiles)
    PROVE  Matches(k)'
  <1>1. LastWrite(k)' = LastWrite(k)
    BY DEF LastWrite
  <1>2. ASSUME NEW p \in Nat, p # 0 => p \in 1..Len(dataFiles), ~Alive(p)
        PROVE  ~AliveAt(p, now')
    <2>1. CASE p = 0
      BY <2>1 DEF AliveAt
    <2>2. CASE p # 0
      <3>1. dataFiles[p].expire \in Int
        <4>1. dataFiles[p] \in LogRecords \cup EndRecords
          BY <1>2, <2>2, ElementOfSeq DEF TypeOK
        <4> QED BY <4>1 DEF LogRecords, EndRecords
      <3> QED BY <1>2, <2>2, <3>1 DEF Alive, AliveAt, Dead, IsExpired, TypeOK
    <2> QED BY <2>1, <2>2
  <1>3. Alive(LastWrite(k))' <=> AliveAt(LastWrite(k), now')
    BY <1>1 DEF Alive, AliveAt, Dead
  <1>4. Alive(index[k])' <=> AliveAt(index'[k], now')
    BY DEF Alive, AliveAt, Dead
  <1>5. /\ LastWrite(k) \in Nat /\ index[k] \in Nat
        /\ LastWrite(k) # 0 => LastWrite(k) \in 1..Len(dataFiles)
    <2>1. LastWrite(k) # 0 => LastWrite(k) \in 1..Len(dataFiles)
      <3>1. Len(dataFiles) \in Nat /\ Written(k) \in SUBSET (1..Len(dataFiles))
        BY LenProperties DEF Written, TypeOK
      <3> QED BY <3>1, LastWriteLemma, LatestLemma
    <2> QED BY <2>1 DEF TypeOK
  <1>6. /\ AliveAt(LastWrite(k), now') => Alive(LastWrite(k))
        /\ AliveAt(index[k], now') => Alive(index[k])
    BY <1>2, <1>5
  <1>7. ~AliveAt(0, now')
    BY DEF AliveAt
  <1>8. IF AliveAt(LastWrite(k), now') THEN index'[k] = LastWrite(k) ELSE ~AliveAt(index'[k], now')
    BY <1>6, <1>7 DEF Matches
  <1> QED BY <1>1, <1>3, <1>4, <1>8 DEF Matches

\* A commit that wrote to the log: a failed one changes nothing the index
\* should show, a successful one moves the index to its own records.
LEMMA CommitMatches ==
    ASSUME RecInv, NEW b \in Batches, NEW o \in {"ok", "ErrSync"}, CommitOp(b, o),
           NEW k \in Keys, Matches(k)
    PROVE  Matches(k)'
  <1> DEFINE bt == batch[b]
             pw == bt.pendingWrites
             base == Len(dataFiles)
             new == dataFiles \o CommitRecords(bt)
             i == lookupPendingWrites(bt, k)
  <1>0. /\ IInv /\ TypeOK /\ BatchOK(bt)
        /\ pw \in Seq(LogRecords) /\ Len(pw) \in Nat /\ base \in Nat
        /\ index[k] # 0 => index[k] \in 1..base
        /\ index[k] \in Nat
    BY LenProperties DEF RecInv, IInv, TypeOK, BatchStates, IndexSound
  <1>1. TypeOK'
    BY <1>0, CommitOpStep DEF RecInv, IInv, Outcomes
  <1>2. /\ Len(new) = base + Len(pw) + 1
        /\ \A j \in 1..base : new[j] = dataFiles[j]
        /\ \A j \in 1..Len(pw) : new[base + j] = [pw[j] EXCEPT !.batchId = now]
        /\ new[base + Len(pw) + 1] = EndRecord(now)
    BY <1>0, CommitRecordsLemma
  <1>3. /\ dataFiles' = new /\ now' = now /\ torn' = torn
        /\ o = "ok" => failed' = failed /\ index'[k] = CommitIndex(bt, base)[k]
        /\ o = "ErrSync" => failed' = failed \cup (base + 1)..Len(new) /\ index' = index
    BY DEF CommitOp, Commit, CommitOutcome
  <1> HIDE DEF new
  <1>4. torn \subseteq 1..base /\ failed \subseteq 1..base
    BY DEF RecInv, LogInv, Shape, Histories
  <1>5. /\ LastWrite(k) = Latest(Written(k)) /\ LastWrite(k)' = Latest(Written(k)')
        /\ Written(k) \in SUBSET (1..base)
        /\ Written(k)' \in SUBSET (1..Len(new))
        /\ LastWrite(k) # 0 => LastWrite(k) \in 1..base
    <2>1. LastWrite(k) = Latest(Written(k)) /\ LastWrite(k)' = Latest(Written(k)')
      BY <1>0, <1>1, LastWriteLemma
    <2>2. Written(k) \in SUBSET (1..base) /\ Written(k)' \in SUBSET (1..Len(new))
      BY <1>3 DEF Written
    <2> QED BY <1>0, <2>1, <2>2, LatestLemma
  <1>6. \A p \in 1..base : p \in Written(k)' <=> p \in Written(k)
    BY <1>0, <1>2, <1>3 DEF Written
  <1>7. \A p \in Nat : (p # 0 => p \in 1..base) =>
            (Alive(p) <=> p # 0 /\ ~(\/ new[p].type = "Deleted" \/ IsExpired(new[p].expire, now)))
    BY <1>2 DEF Alive, Dead
  <1>8. ASSUME Written(k)' = Written(k), index'[k] = index[k] PROVE Matches(k)'
    <2>1. LastWrite(k)' = LastWrite(k) /\ LastWrite(k) \in Nat
      BY <1>5, <1>8
    <2>2. Alive(LastWrite(k))' <=> Alive(LastWrite(k))
      BY <1>3, <1>5, <1>7, <2>1 DEF Alive, Dead
    <2>3. Alive(index[k])' <=> Alive(index[k])
      BY <1>0, <1>3, <1>7, <1>8 DEF Alive, Dead
    <2> QED BY <1>8, <2>1, <2>2, <2>3 DEF Matches
  <1>9. CASE o = "ErrSync"
    <2>1. \A p \in Written(k)' : p \in 1..Len(new) /\ p \notin (base + 1)..Len(new)
      BY <1>3, <1>5, <1>9 DEF Written
    <2>2. \A p \in Written(k)' : p \in 1..base
      BY <1>0, <1>2, <2>1
    <2>3. Written(k)' = Written(k)
      BY <1>5, <1>6, <2>2
    <2> QED BY <1>3, <1>8, <1>9, <2>3
  <1>10. CASE o = "ok"
    <2>1. /\ i \in Nat
          /\ i # 0 => i \in 1..Len(pw) /\ pw[i].key = k
          /\ i = 0 => \A j \in 1..Len(pw) : pw[j].key # k
      BY <1>0, LookupLemma
    <2>2. index'[k] = IF i = 0 THEN index[k] ELSE IF Dead(pw[i]) THEN 0 ELSE base + i
      BY <1>3, <1>10 DEF CommitIndex
    <2> HIDE DEF i
    <2>3. ASSUME NEW p \in Written(k)', p \notin 1..base
          PROVE  p - base \in 1..Len(pw) /\ pw[p - base].key = k
      <3>1. p \in (base + 1)..(base + Len(pw) + 1)
        BY <1>0, <1>2, <1>5, <2>3
      <3>2. p # base + Len(pw) + 1
        BY <1>2, <1>3 DEF Written, EndRecord
      <3>3. p - base \in 1..Len(pw) /\ p = base + (p - base)
        BY <1>0, <3>1, <3>2
      <3>4. new[p] = [pw[p - base] EXCEPT !.batchId = now] /\ pw[p - base] \in LogRecords
        BY <1>0, <1>2, <3>3, ElementOfSeq
      <3>5. new[p].key = k
        BY <1>3 DEF Written
      <3> QED BY <3>3, <3>4, <3>5 DEF LogRecords
    <2>4. CASE i = 0
      <3>1. Written(k)' = Written(k)
        BY <1>5, <1>6, <2>1, <2>3, <2>4
      <3> QED BY <1>8, <2>2, <2>4, <3>1
    <2>5. CASE i # 0
      <3>0. i \in 1..Len(pw) /\ pw[i].key = k /\ base + i \in 1..Len(new) /\ base + i \notin 1..base
            /\ pw[i] \in LogRecords
        BY <1>0, <1>2, <2>1, <2>5, ElementOfSeq
      <3>1. new[base + i] = [pw[i] EXCEPT !.batchId = now]
        BY <1>2, <3>0
      <3>2. /\ new[base + i].type = pw[i].type /\ new[base + i].expire = pw[i].expire
            /\ new[base + i].key = k /\ new[base + i].type # "BatchFinished"
        BY <3>0, <3>1 DEF LogRecords
      <3>3. base + i \in Written(k)'
        BY <1>3, <1>4, <1>10, <3>0, <3>2 DEF Written
      <3>4. ASSUME NEW p \in Written(k)' PROVE p <= base + i
        <4>1. CASE p \in 1..base
          BY <1>0, <2>1, <4>1
        <4>2. CASE p \notin 1..base
          <5>1. p - base \in 1..Len(pw) /\ pw[p - base].key = pw[i].key
            BY <2>3, <3>0, <4>2
          <5>2. p - base = i
            BY <1>0, <3>0, <5>1 DEF BatchOK, PendingInv
          <5> QED BY <1>0, <1>2, <1>5, <5>2
        <4> QED BY <4>1, <4>2
      <3>5. LastWrite(k)' = base + i
        <4>1. Len(new) \in Nat
          BY <1>0, <1>2
        <4> QED BY <1>5, <3>3, <3>4, <4>1, LatestLemma
      <3>6. Alive(LastWrite(k))' <=> ~Dead(pw[i])
        BY <1>0, <1>3, <2>1, <2>5, <3>2, <3>5 DEF Alive, Dead
      <3>7. Dead(pw[i]) => ~Alive(index[k])'
        BY <2>2, <2>5 DEF Alive
      <3> QED BY <2>2, <2>5, <3>5, <3>6, <3>7 DEF Matches
    <2> QED BY <2>4, <2>5
  <1> QED BY <1>9, <1>10

ExactInv == RecInv /\ TornInv /\ IndexMatchesLog

LEMMA NextExact ==
    ASSUME TornExpiring = FALSE, ExactInv, [RNext]_rvars
    PROVE  ExactInv'
  <1>0. /\ RecInv /\ TornInv /\ IInv /\ TypeOK
        /\ running => \A k \in Keys : Matches(k)
        /\ \A k \in Keys : index[k] # 0 => index[k] \in 1..Len(dataFiles)
    BY DEF ExactInv, IndexMatchesLog, Matches, RecInv, IInv, IndexSound
  <1>1. RecInv'
    BY <1>0, NextRecInv
  <1>2. TornInv'
    <2>1. CASE Crash
      BY <1>0, <2>1, CrashLog
    <2>2. ASSUME NEW b \in Batches, NEW o \in Outcomes, CommitOp(b, o) PROVE TornInv'
      <3>1. torn' = torn /\ torn \subseteq 1..Len(dataFiles)
        BY <1>0, <2>2 DEF CommitOp, RecInv, LogInv, Shape
      <3>2. \A p \in 1..Len(dataFiles) : dataFiles'[p] = dataFiles[p]
        BY <1>0, <2>2, CommitRecordsLemma DEF CommitOp, Commit, CommitOutcome
      <3> QED BY <1>0, <3>1, <3>2 DEF TornInv
    <2>3. CASE Open
      BY <1>0, <2>3 DEF Open, TornInv
    <2>4. CASE (\E b \in Batches : WriteOp(b)) \/ SyncOp \/ CloseOp \/ TickOp \/ UNCHANGED rvars
      BY <1>0, <2>4, QuietLogStep DEF TornInv
    <2> QED BY <2>1, <2>2, <2>3, <2>4 DEF RNext
  <1>3. ASSUME NEW k \in Keys, running' = TRUE PROVE Matches(k)'
    <2>1. CASE Crash
      BY <1>3, <2>1 DEF Crash
    <2>2. ASSUME NEW b \in Batches, NEW o \in Outcomes, CommitOp(b, o) PROVE Matches(k)'
      <3>0. Matches(k)
        BY <1>0, <2>2 DEF CommitOp
      <3>1. CASE o \in {"ok", "ErrSync"}
        BY <1>0, <2>2, <3>0, <3>1, CommitMatches
      <3>2. CASE o \in {"refused", "ErrWrite"}
        <4>1. /\ dataFiles' = dataFiles /\ torn' = torn /\ failed' = failed /\ now' = now
              /\ index' = index
          BY <2>2, <3>2 DEF CommitOp, Commit, CommitOutcome
        <4> QED BY <1>0, <3>0, <4>1, QuietMatches
      <3> QED BY <3>1, <3>2 DEF Outcomes
    <2>3. CASE Open
      BY <1>0, <2>3, OpenMatches
    <2>4. CASE (\E b \in Batches : WriteOp(b)) \/ SyncOp \/ CloseOp \/ TickOp \/ UNCHANGED rvars
      <3>1. dataFiles' = dataFiles /\ torn' = torn /\ failed' = failed
        BY <1>0, <2>4, QuietLogStep
      <3>2. running' = running /\ now' \in {now, now + 1}
        BY <2>4 DEF WriteOp, SyncOp, CloseOp, TickOp, history, rvars, vars, NewBatch, Begin, Put,
                    PutWithTTL, Delete, Get, Rollback, Sync, Close, Tick
      <3>3. index'[k] = index[k] \/ (index'[k] = 0 /\ ~Alive(index[k]))
        <4>1. ASSUME NEW b \in Batches, NEW x \in Keys, Get(b, x)
              PROVE  index'[k] = index[k] \/ (index'[k] = 0 /\ ~Alive(index[k]))
          <5> DEFINE f == Fetch(batch[b], x)
          <5>1. index' = IF f.from = "wal" /\ f.rec.type # "Deleted" /\ Dead(f.rec)
                         THEN indexDelete(x) ELSE index
            BY <4>1 DEF Get
          <5>2. f.from = "wal" => f.rec = dataFiles[index[x]]
            BY DEF Fetch
          <5> HIDE DEF f
          <5> QED BY <1>0, <5>1, <5>2 DEF Alive, indexDelete, TypeOK
        <4>2. CASE UNCHANGED index
          BY <4>2
        <4>3. UNCHANGED index \/ \E b \in Batches, x \in Keys : Get(b, x)
          BY <2>4 DEF WriteOp, SyncOp, CloseOp, TickOp, rvars, vars, NewBatch, Begin, Put,
                      PutWithTTL, Delete, Rollback, Sync, Close, Tick, db
        <4> QED BY <4>1, <4>2, <4>3
      <3>4. Matches(k)
        BY <1>0, <1>3, <3>2
      <3> QED BY <1>0, <3>1, <3>2, <3>3, <3>4, QuietMatches
    <2> QED BY <2>1, <2>2, <2>3, <2>4 DEF RNext
  <1>4. IndexMatchesLog'
    BY <1>3 DEF IndexMatchesLog, Matches
  <1> QED BY <1>1, <1>2, <1>4 DEF ExactInv

\* While no crash cuts a batch that holds a record with a lifetime, the index
\* shows the last whole and successful write of every key and nothing else, at
\* any moment and after any number of crashes: loadIndexFromWAL (db.go) drops
\* torn batches and what has expired, and indexes every batch at its own end
\* record.
THEOREM RecoveredIndexIsExact ==
    ASSUME TornExpiring = FALSE
    PROVE  RSpec => []IndexMatchesLog
  <1>1. RInit => ExactInv
    <2> SUFFICES ASSUME RInit PROVE ExactInv
      OBVIOUS
    <2>1. RecInv
      BY InitRecInv
    <2>2. dataFiles = <<>> /\ torn = {} /\ index = [k \in Keys |-> 0]
      BY DEF RInit, Init
    <2>3. TornInv
      BY <2>2 DEF TornInv
    <2>4. ASSUME NEW k \in Keys PROVE Matches(k)
      <3>1. Written(k) = {} /\ index[k] = 0
        BY <2>2 DEF Written
      <3>2. LastWrite(k) = 0
        BY <2>1, <3>1, LastWriteLemma DEF Latest, RecInv, IInv
      <3> QED BY <3>1, <3>2 DEF Matches, Alive
    <2> QED BY <2>1, <2>3, <2>4 DEF ExactInv, IndexMatchesLog, Matches
  <1>2. ExactInv /\ [RNext]_rvars => ExactInv'
    BY NextExact
  <1>3. ExactInv => IndexMatchesLog
    BY DEF ExactInv
  <1> QED BY <1>1, <1>2, <1>3, PTL DEF RSpec
=============================================================================
