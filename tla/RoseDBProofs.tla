---------------------------- MODULE RoseDBProofs ----------------------------
(***************************************************************************)
(* Proofs about RoseDB for every set of keys, values, batches, durations,  *)
(* every hash function and every bound.                                    *)
(***************************************************************************)
EXTENDS RoseDBRefinement, SequenceTheorems, FiniteSetTheorems, TLAPS

\* The pending records of a batch, whatever keys share a hash bucket: every
\* record is in the bucket of its key and no key has two records.
PendingInv(bt) ==
    /\ \A h \in HashVals : bt.pendingWritesMap[h] \subseteq 1..Len(bt.pendingWrites)
    /\ \A i \in 1..Len(bt.pendingWrites) :
          i \in bt.pendingWritesMap[Hash[bt.pendingWrites[i].key]]
    /\ \A i, j \in 1..Len(bt.pendingWrites) :
          bt.pendingWrites[i].key = bt.pendingWrites[j].key => i = j

BatchOK(bt) == bt \in BatchStates /\ PendingInv(bt)

Readers == {b \in Batches : batch[b].active /\ batch[b].ro}
Writers == {b \in Batches : batch[b].active /\ ~batch[b].ro}

\* The ownerless mutex counts exactly the batches that hold it.
LockInv ==
    /\ rcount = Cardinality(Readers)
    /\ wlocked <=> Writers # {}
    /\ \A b, c \in Writers : b = c
    /\ wlocked => rcount = 0

IInv ==
    /\ TypeOK
    /\ \A b \in Batches : BatchOK(batch[b])
    /\ LockInv
    /\ IndexSound
-----------------------------------------------------------------------------
(* Records and lookups                                                     *)

LEMMA WrapType == \A n \in Int : Wrap(n) \in Int
  BY MaxIntAssumption DEF Wrap

LEMMA RecordLemma ==
    /\ \A k \in Keys, v \in Values, e \in Int :
          NormalRecord(k, v, e) \in LogRecords /\ NormalRecord(k, v, e).key = k
    /\ \A k \in Keys : DeletedRecord(k) \in LogRecords /\ DeletedRecord(k).key = k
    /\ \A id \in Nat : EndRecord(id) \in EndRecords
  <1>1. \A k \in Keys, v \in Values, e \in Int :
          NormalRecord(k, v, e) \in LogRecords /\ NormalRecord(k, v, e).key = k
    BY DEF NormalRecord, LogRecords
  <1>2. \A k \in Keys : DeletedRecord(k) \in LogRecords /\ DeletedRecord(k).key = k
    BY DEF DeletedRecord, LogRecords
  <1>3. \A id \in Nat : EndRecord(id) \in EndRecords
    BY DEF EndRecord, EndRecords
  <1> QED BY <1>1, <1>2, <1>3

\* A lookup finds the one pending record of the key, if there is one.
LEMMA LookupLemma ==
    ASSUME NEW bt, BatchOK(bt), NEW k \in Keys
    PROVE  LET i == lookupPendingWrites(bt, k)
           IN  /\ i \in Nat
               /\ i # 0 => i \in 1..Len(bt.pendingWrites) /\ bt.pendingWrites[i].key = k
               /\ i = 0 => \A j \in 1..Len(bt.pendingWrites) : bt.pendingWrites[j].key # k
  <1> DEFINE hits == {i \in bt.pendingWritesMap[Hash[k]] : bt.pendingWrites[i].key = k}
  <1>0. Hash[k] \in HashVals
    BY HashAssumption
  <1>1. hits \subseteq 1..Len(bt.pendingWrites)
    BY <1>0 DEF BatchOK, PendingInv
  <1>2. \A i, j \in hits : i = j
    BY <1>1 DEF BatchOK, PendingInv
  <1>3. hits = {} => \A j \in 1..Len(bt.pendingWrites) : bt.pendingWrites[j].key # k
    BY DEF BatchOK, PendingInv
  <1>4. ASSUME hits # {}
        PROVE  (CHOOSE i \in hits : \A j \in hits : i <= j) \in hits
    <2>1. PICK i \in hits : TRUE
      BY <1>4
    <2>2. \A j \in hits : i <= j
      BY <2>1, <1>1, <1>2
    <2> QED BY <2>1, <2>2
  <1>5. Len(bt.pendingWrites) \in Nat
    BY LenProperties DEF BatchOK, BatchStates
  <1>6. lookupPendingWrites(bt, k) =
          IF hits = {} THEN 0 ELSE CHOOSE i \in hits : \A j \in hits : i <= j
    BY DEF lookupPendingWrites
  <1>7. CASE hits = {}
    BY <1>3, <1>6, <1>7
  <1>8. CASE hits # {}
    <2>1. lookupPendingWrites(bt, k) \in hits
      BY <1>4, <1>6, <1>8
    <2> HIDE DEF hits
    <2>2. lookupPendingWrites(bt, k) \in 1..Len(bt.pendingWrites)
      BY <2>1, <1>1
    <2>3. bt.pendingWrites[lookupPendingWrites(bt, k)].key = k
      BY <2>1 DEF hits
    <2> QED BY <2>2, <2>3, <1>5
  <1> QED BY <1>7, <1>8

\* A lookup of the key of the i-th pending record returns i.
LEMMA LookupHit ==
    ASSUME NEW bt, BatchOK(bt), NEW i \in 1..Len(bt.pendingWrites)
    PROVE  lookupPendingWrites(bt, bt.pendingWrites[i].key) = i
  <1> DEFINE k == bt.pendingWrites[i].key
  <1>1. k \in Keys
    <2>1. bt.pendingWrites[i] \in LogRecords
      BY ElementOfSeq DEF BatchOK, BatchStates
    <2> QED BY <2>1 DEF LogRecords
  <1>2. lookupPendingWrites(bt, k) # 0
    BY <1>1, LookupLemma
  <1> QED BY <1>1, <1>2, LookupLemma DEF BatchOK, PendingInv

\* Writing a record into a batch keeps the batch well formed and its options.
LEMMA SetPendingLemma ==
    ASSUME NEW bt, BatchOK(bt), NEW r \in LogRecords
    PROVE  /\ BatchOK(SetPending(bt, r))
           /\ SetPending(bt, r).active = bt.active
           /\ SetPending(bt, r).ro = bt.ro
           /\ SetPending(bt, r).next = bt.next
  <1> DEFINE i == lookupPendingWrites(bt, r.key)
             pw == bt.pendingWrites
  <1>0. /\ r.key \in Keys /\ Hash[r.key] \in HashVals
        /\ pw \in Seq(LogRecords) /\ Len(pw) \in Nat
        /\ bt.pendingWritesMap \in [HashVals -> SUBSET Nat]
    BY HashAssumption, LenProperties DEF LogRecords, BatchOK, BatchStates
  <1>1. CASE i = 0
    <2> DEFINE nb == appendPendingWrites(bt, r)
    <2>1. SetPending(bt, r) = nb
      BY <1>1 DEF SetPending
    <2>2. /\ nb.pendingWrites = Append(pw, r)
          /\ nb.pendingWritesMap = [bt.pendingWritesMap EXCEPT ![Hash[r.key]] = @ \cup {Len(pw) + 1}]
          /\ nb.active = bt.active /\ nb.ro = bt.ro /\ nb.next = bt.next
      BY DEF appendPendingWrites, BatchOK, BatchStates
    <2>3. /\ Append(pw, r) \in Seq(LogRecords)
          /\ Len(Append(pw, r)) = Len(pw) + 1
          /\ \A j \in 1..Len(pw) : Append(pw, r)[j] = pw[j]
          /\ Append(pw, r)[Len(pw) + 1] = r
      BY <1>0, AppendProperties
    <2>4. [bt.pendingWritesMap EXCEPT ![Hash[r.key]] = @ \cup {Len(pw) + 1}]
             \in [HashVals -> SUBSET Nat]
      BY <1>0
    <2>5. nb \in BatchStates
      BY <2>3, <2>4 DEF appendPendingWrites, BatchOK, BatchStates
    <2>6. \A j \in 1..Len(pw) : pw[j].key # r.key
      BY <1>0, <1>1, LookupLemma
    <2>7. \A h \in HashVals : nb.pendingWritesMap[h] \subseteq 1..(Len(pw) + 1)
      BY <1>0, <2>2 DEF BatchOK, PendingInv
    <2>8. ASSUME NEW j \in 1..(Len(pw) + 1)
          PROVE  j \in nb.pendingWritesMap[Hash[Append(pw, r)[j].key]]
      <3>1. CASE j = Len(pw) + 1
        BY <3>1, <1>0, <2>2, <2>3
      <3>2. CASE j \in 1..Len(pw)
        <4>1. pw[j] \in LogRecords
          BY <1>0, <3>2, ElementOfSeq
        <4>2. Hash[pw[j].key] \in HashVals
          BY <4>1, HashAssumption DEF LogRecords
        <4>3. j \in bt.pendingWritesMap[Hash[pw[j].key]]
          BY <3>2 DEF BatchOK, PendingInv
        <4> QED BY <4>2, <4>3, <3>2, <1>0, <2>2, <2>3
      <3> QED BY <3>1, <3>2, <1>0
    <2>9. \A a, c \in 1..(Len(pw) + 1) : Append(pw, r)[a].key = Append(pw, r)[c].key => a = c
      BY <1>0, <2>3, <2>6 DEF BatchOK, PendingInv
    <2>10. PendingInv(nb)
      BY <2>2, <2>3, <2>7, <2>8, <2>9 DEF PendingInv
    <2> QED BY <2>1, <2>2, <2>5, <2>10 DEF BatchOK
  <1>2. CASE i # 0
    <2> DEFINE nb == [bt EXCEPT !.pendingWrites[i] = r]
    <2>1. SetPending(bt, r) = nb
      BY <1>2 DEF SetPending
    <2>2. i \in 1..Len(pw) /\ pw[i].key = r.key
      BY <1>0, <1>2, LookupLemma
    <2>3. /\ nb.pendingWrites = [pw EXCEPT ![i] = r]
          /\ nb.pendingWritesMap = bt.pendingWritesMap
          /\ nb.active = bt.active /\ nb.ro = bt.ro /\ nb.next = bt.next
      BY DEF BatchOK, BatchStates
    <2>4. /\ [pw EXCEPT ![i] = r] \in Seq(LogRecords)
          /\ Len([pw EXCEPT ![i] = r]) = Len(pw)
          /\ \A j \in 1..Len(pw) : [pw EXCEPT ![i] = r][j] = IF j = i THEN r ELSE pw[j]
      BY <1>0, <2>2, ExceptSeq
    <2>5. nb \in BatchStates
      BY <2>4 DEF BatchOK, BatchStates
    <2>6. \A j \in 1..Len(pw) : [pw EXCEPT ![i] = r][j].key = pw[j].key
      BY <2>2, <2>4
    <2>7. PendingInv(nb)
      BY <2>3, <2>4, <2>6 DEF BatchOK, PendingInv
    <2> QED BY <2>1, <2>3, <2>5, <2>7 DEF BatchOK
  <1> QED BY <1>1, <1>2

LEMMA AfterOpLemma ==
    ASSUME NEW bt, BatchOK(bt), NEW f \in BOOLEAN
    PROVE  /\ BatchOK(AfterOp(bt, f))
           /\ AfterOp(bt, f).active = bt.active
           /\ AfterOp(bt, f).ro = bt.ro
           /\ AfterOp(bt, f).pendingWrites = bt.pendingWrites
           /\ AfterOp(bt, f).pendingWritesMap = bt.pendingWritesMap
  <1>1. /\ AfterOp(bt, f) \in BatchStates
        /\ AfterOp(bt, f).active = bt.active
        /\ AfterOp(bt, f).ro = bt.ro
        /\ AfterOp(bt, f).pendingWrites = bt.pendingWrites
        /\ AfterOp(bt, f).pendingWritesMap = bt.pendingWritesMap
    BY DEF AfterOp, BatchOK, BatchStates
  <1> QED BY <1>1 DEF BatchOK, PendingInv

LEMMA NoBatchLemma ==
    BatchOK(NoBatch) /\ ~NoBatch.active
  <1>1. NoBatch \in BatchStates
    BY EmptySeq DEF NoBatch, BatchStates
  <1>2. PendingInv(NoBatch)
    BY EmptySeq DEF NoBatch, PendingInv
  <1> QED BY <1>1, <1>2 DEF BatchOK, NoBatch
-----------------------------------------------------------------------------
(* Steps of the batches                                                    *)

\* What Fetch returns is a record of the key asked for; from the log it is a
\* Normal record.
LEMMA FetchLemma ==
    ASSUME IInv, NEW b \in Batches, NEW k \in Keys
    PROVE  LET f == Fetch(batch[b], k)
           IN  /\ f.from \in {"pending", "wal", "none"}
               /\ f.rec \in LogRecords
               /\ f.rec.key = k
               /\ f.from = "wal" => f.rec.type = "Normal"
  <1> DEFINE bt == batch[b]
             i == lookupPendingWrites(bt, k)
  <1>0. BatchOK(bt)
    BY DEF IInv
  <1>1. /\ i \in Nat
        /\ i # 0 => i \in 1..Len(bt.pendingWrites) /\ bt.pendingWrites[i].key = k
    BY <1>0, LookupLemma
  <1>2. i # 0 => bt.pendingWrites[i] \in LogRecords
    BY <1>0, <1>1, ElementOfSeq DEF BatchOK, BatchStates
  <1>3. index[k] # 0 => /\ dataFiles[index[k]] \in LogRecords
                        /\ dataFiles[index[k]].type = "Normal"
                        /\ dataFiles[index[k]].key = k
    BY ElementOfSeq DEF IInv, TypeOK, IndexSound, LogRecords, EndRecords
  <1> HIDE DEF i
  <1>4. CASE i # 0
    BY <1>4, <1>1, <1>2 DEF Fetch, i
  <1>5. CASE i = 0 /\ index[k] # 0
    BY <1>5, <1>3 DEF Fetch, i
  <1>6. CASE i = 0 /\ index[k] = 0
    BY <1>6, RecordLemma DEF Fetch, i
  <1> QED BY <1>4, <1>5, <1>6

\* A step that changes one batch without beginning or ending it, and at most
\* removes keys from the index.
LEMMA QuietStep ==
    ASSUME IInv, NEW b \in Batches, NEW nb, BatchOK(nb),
           nb.active = batch[b].active, nb.ro = batch[b].ro,
           batch' = [batch EXCEPT ![b] = nb],
           UNCHANGED <<dataFiles, synced, closed, mu, now>>,
           index' \in [Keys -> Nat],
           \A k \in Keys : index'[k] = index[k] \/ index'[k] = 0,
           resp' \in Responses
    PROVE  IInv'
  <1>1. \A c \in Batches : /\ BatchOK(batch'[c])
                           /\ batch'[c].active = batch[c].active
                           /\ batch'[c].ro = batch[c].ro
    BY DEF IInv, TypeOK
  <1>2. TypeOK'
    BY DEF IInv, TypeOK, BatchOK, mu
  <1>3. Readers' = Readers /\ Writers' = Writers
    BY <1>1 DEF Readers, Writers
  <1>4. LockInv'
    BY <1>3 DEF IInv, LockInv, mu
  <1>5. IndexSound'
    BY DEF IInv, IndexSound
  <1>6. \A c \in Batches : BatchOK(batch[c])'
    BY <1>1 DEF BatchOK, PendingInv
  <1> QED BY <1>2, <1>4, <1>5, <1>6 DEF IInv

LEMMA AnswerLemma ==
    /\ OK \in Answers /\ Panic \in Answers /\ NoTTL \in Answers
    /\ \A e \in Errors : Err(e) \in Answers
    /\ \A v \in Values \cup {NoValue} : Value(v) \in Answers
    /\ \A x \in BOOLEAN : Exists(x) \in Answers
    /\ \A d \in Int : TTLIs(d) \in Answers
  BY DEF OK, Panic, NoTTL, Err, Value, Exists, TTLIs, Answers

\* Put, PutWithTTL and Delete.
LEMMA WriteStep ==
    ASSUME IInv, NEW b \in Batches, NEW k \in Keys,
           \/ \E v \in Values : Put(b, k, v)
           \/ \E v \in Values, ttl \in TTLs : PutWithTTL(b, k, v, ttl)
           \/ Delete(b, k)
    PROVE  IInv'
  <1>1. PICK r \in LogRecords :
          /\ batch' = [batch EXCEPT ![b] = AfterOp(SetPending(@, r), FALSE)]
          /\ UNCHANGED <<db, mu, now>>
          /\ resp' \in Responses
    <2>0. k \in AllKeys /\ OK \in Answers
      BY AnswerLemma DEF AllKeys
    <2>1. CASE \E v \in Values : Put(b, k, v)
      <3>1. PICK v \in Values : Put(b, k, v)
        BY <2>1
      <3>2. resp' \in Responses
        BY <2>0, <3>1 DEF Reply, Responses, Ops, Put
      <3>3. NormalRecord(k, v, 0) \in LogRecords
        BY RecordLemma
      <3> QED BY <3>1, <3>2, <3>3 DEF Put
    <2>2. CASE \E v \in Values, ttl \in TTLs : PutWithTTL(b, k, v, ttl)
      <3>1. PICK v \in Values, ttl \in TTLs : PutWithTTL(b, k, v, ttl)
        BY <2>2
      <3>2. ExpireAt(now, ttl) \in Int
        BY TTLsAssumption, WrapType DEF IInv, TypeOK, ExpireAt
      <3>3. NormalRecord(k, v, ExpireAt(now, ttl)) \in LogRecords
        BY <3>2, RecordLemma
      <3>4. resp' \in Responses
        BY <2>0, <3>1 DEF Reply, Responses, Ops, PutWithTTL
      <3> QED BY <3>1, <3>3, <3>4 DEF PutWithTTL
    <2>3. CASE Delete(b, k)
      <3>1. resp' \in Responses
        BY <2>0, <2>3 DEF Reply, Responses, Ops, Delete
      <3>2. DeletedRecord(k) \in LogRecords
        BY RecordLemma
      <3> QED BY <2>3, <3>1, <3>2 DEF Delete
    <2> QED BY <2>1, <2>2, <2>3
  <1> DEFINE nb == AfterOp(SetPending(batch[b], r), FALSE)
  <1>2. BatchOK(nb) /\ nb.active = batch[b].active /\ nb.ro = batch[b].ro
    BY SetPendingLemma, AfterOpLemma DEF IInv
  <1>3. batch' = [batch EXCEPT ![b] = nb]
    BY <1>1 DEF IInv, TypeOK
  <1> HIDE DEF nb
  <1>4. index' \in [Keys -> Nat] /\ \A j \in Keys : index'[j] = index[j]
    BY <1>1 DEF IInv, TypeOK, db
  <1> QED BY <1>1, <1>2, <1>3, <1>4, QuietStep DEF db

\* Expire and Persist: a record of the key copied into the batch.
LEMMA ChangeStep ==
    ASSUME IInv, NEW b \in Batches, NEW k \in Keys,
           (\E ttl \in TTLs : Expire(b, k, ttl)) \/ Persist(b, k)
    PROVE  IInv'
  <1> DEFINE f == Fetch(batch[b], k)
  <1>0. f.rec \in LogRecords
    BY FetchLemma
  <1>1. PICK r \in LogRecords, w \in BOOLEAN, failed \in BOOLEAN :
          /\ batch' = [batch EXCEPT ![b] = AfterOp(IF w THEN SetPending(@, r) ELSE @, failed)]
          /\ UNCHANGED <<dataFiles, synced, closed, mu, now>>
          /\ index' \in {index, indexDelete(k)}
          /\ resp' \in Responses
    <2>0. k \in AllKeys /\ OK \in Answers /\ Err("ErrKeyNotFound") \in Answers
      BY AnswerLemma DEF AllKeys, Errors
    <2>1. CASE \E ttl \in TTLs : Expire(b, k, ttl)
      <3>1. PICK ttl \in TTLs : Expire(b, k, ttl)
        BY <2>1
      <3>2. ExpireAt(now, ttl) \in Int
        BY TTLsAssumption, WrapType DEF IInv, TypeOK, ExpireAt
      <3>3. [f.rec EXCEPT !.expire = ExpireAt(now, ttl)] \in LogRecords
        BY <1>0, <3>2 DEF LogRecords
      <3>4. resp' \in Responses
        BY <2>0, <3>1 DEF Reply, Responses, Ops, Expire
      <3> DEFINE ok == f.from # "none" /\ ~Dead(f.rec)
      <3>5. ok \in BOOLEAN /\ (~ok) \in BOOLEAN
        OBVIOUS
      <3> QED BY <3>1, <3>3, <3>4, <3>5 DEF Expire
    <2>2. CASE Persist(b, k)
      <3>1. [f.rec EXCEPT !.expire = 0] \in LogRecords
        BY <1>0 DEF LogRecords
      <3>2. resp' \in Responses
        BY <2>0, <2>2 DEF Reply, Responses, Ops, Persist
      <3> DEFINE ok == f.from # "none" /\ ~Dead(f.rec)
                 rewrite == ok /\ (f.from = "pending" \/ f.rec.expire # 0)
      <3>3. rewrite \in BOOLEAN /\ (~ok) \in BOOLEAN
        OBVIOUS
      <3> QED BY <2>2, <3>1, <3>2, <3>3 DEF Persist
    <2> QED BY <2>1, <2>2
  <1> DEFINE nb == AfterOp(IF w THEN SetPending(batch[b], r) ELSE batch[b], failed)
  <1>2. BatchOK(nb) /\ nb.active = batch[b].active /\ nb.ro = batch[b].ro
    BY SetPendingLemma, AfterOpLemma DEF IInv
  <1>3. batch' = [batch EXCEPT ![b] = nb]
    BY <1>1 DEF IInv, TypeOK
  <1>4. index' \in [Keys -> Nat] /\ \A j \in Keys : index'[j] = index[j] \/ index'[j] = 0
    BY <1>1 DEF IInv, TypeOK, indexDelete
  <1> HIDE DEF nb
  <1> QED BY <1>1, <1>2, <1>3, <1>4, QuietStep

\* Get, Exist and TTL.
LEMMA ReadStep ==
    ASSUME IInv, NEW b \in Batches, NEW k \in Keys,
           Get(b, k) \/ Exist(b, k) \/ TTL(b, k)
    PROVE  IInv'
  <1> DEFINE f == Fetch(batch[b], k)
  <1>0. f.rec \in LogRecords
    BY FetchLemma
  <1>1. /\ batch' = [batch EXCEPT ![b] = AfterOp(@, FALSE)]
        /\ UNCHANGED <<dataFiles, synced, closed, mu, now>>
        /\ index' \in {index, indexDelete(k)}
    BY DEF Get, Exist, TTL
  <1>2. resp' \in Responses
    <2>0. k \in AllKeys /\ Err("ErrKeyNotFound") \in Answers
      BY AnswerLemma DEF AllKeys, Errors
    <2>1. CASE Get(b, k)
      <3>1. f.rec.value \in Values \cup {NoValue}
        BY <1>0 DEF LogRecords
      <3>2. Value(f.rec.value) \in Answers /\ Panic \in Answers
        BY <3>1, AnswerLemma
      <3> QED BY <2>0, <2>1, <3>2 DEF Reply, Responses, Ops, Get
    <2>2. CASE Exist(b, k)
      <3>1. Exists(f.from # "none" /\ ~Dead(f.rec)) \in Answers
        BY AnswerLemma
      <3> QED BY <2>0, <2>2, <3>1 DEF Reply, Responses, Ops, Exist
    <2>3. CASE TTL(b, k)
      <3>0. f.rec.expire \in Int /\ now \in Int
        BY <1>0 DEF LogRecords, IInv, TypeOK
      <3>1. Wrap(f.rec.expire - now) \in Int
        <4> HIDE DEF f
        <4> QED BY <3>0, WrapType
      <3>2. TTLIs(Wrap(f.rec.expire - now)) \in Answers /\ NoTTL \in Answers
        BY <3>1, AnswerLemma
      <3> QED BY <2>0, <2>3, <3>2 DEF Reply, Responses, Ops, TTL
    <2> QED BY <2>1, <2>2, <2>3
  <1> DEFINE nb == AfterOp(batch[b], FALSE)
  <1>3. BatchOK(nb) /\ nb.active = batch[b].active /\ nb.ro = batch[b].ro
    BY AfterOpLemma DEF IInv
  <1>4. batch' = [batch EXCEPT ![b] = nb]
    BY <1>1 DEF IInv, TypeOK
  <1>5. index' \in [Keys -> Nat] /\ \A j \in Keys : index'[j] = index[j] \/ index'[j] = 0
    BY <1>1 DEF IInv, TypeOK, indexDelete
  <1> HIDE DEF nb
  <1> QED BY <1>1, <1>2, <1>3, <1>4, <1>5, QuietStep

LEMMA RefusedStep ==
    ASSUME IInv, NEW b \in Batches, NEW k \in AllKeys, NEW write \in BOOLEAN,
           Refused(b, k, write)
    PROVE  IInv'
  <1> DEFINE nb == AfterOp(batch[b], TRUE)
  <1>1. BatchOK(nb) /\ nb.active = batch[b].active /\ nb.ro = batch[b].ro
    BY AfterOpLemma DEF IInv
  <1>2. batch' = [batch EXCEPT ![b] = nb]
    BY DEF IInv, TypeOK, Refused
  <1>3. Refusal(b, k, write) \in Errors
    BY DEF Refused, Refusal, Errors
  <1>4. resp' \in Responses
    BY <1>3, AnswerLemma DEF Refused, Reply, Responses, Ops
  <1>5. index' \in [Keys -> Nat] /\ \A j \in Keys : index'[j] = index[j]
    BY DEF IInv, TypeOK, db, Refused
  <1> HIDE DEF nb
  <1> QED BY <1>1, <1>2, <1>4, <1>5, QuietStep DEF Refused, db

LEMMA ReadersFinite ==
    /\ IsFiniteSet(Readers) /\ Cardinality(Readers) \in Nat
    /\ Cardinality(Readers) = 0 <=> Readers = {}
  BY BatchesAssumption, FS_Subset, FS_CardinalityType, FS_EmptySet DEF Readers

LEMMA FreshLemma ==
    ASSUME NEW ro \in BOOLEAN, NEW s \in BOOLEAN, NEW n \in {"any", "op"}
    PROVE  BatchOK(Fresh(ro, s, n)) /\ Fresh(ro, s, n).active /\ Fresh(ro, s, n).ro = ro
  <1> DEFINE nb == Fresh(ro, s, n)
  <1>1. nb \in BatchStates
    BY NoBatchLemma DEF BatchOK, BatchStates, NoBatch, Fresh
  <1>2. /\ nb.pendingWrites = NoBatch.pendingWrites
        /\ nb.pendingWritesMap = NoBatch.pendingWritesMap
        /\ nb.active = TRUE /\ nb.ro = ro
    BY DEF NoBatch, Fresh
  <1> HIDE DEF nb
  <1>3. BatchOK(nb) /\ nb.active /\ nb.ro = ro
    BY <1>1, <1>2, NoBatchLemma DEF BatchOK, PendingInv
  <1> QED BY <1>3 DEF nb

\* NewBatch and the pooled batch of a one-shot call: lock, then a fresh batch.
LEMMA BeginStep ==
    ASSUME IInv, NEW b \in Batches, NEW ro \in BOOLEAN,
           (\E sync \in SyncOpts : NewBatch(b, ro, sync)) \/ OneShot(b, ro)
    PROVE  IInv'
  <1>1. PICK nb : /\ BatchOK(nb) /\ nb.active /\ nb.ro = ro
                  /\ batch' = [batch EXCEPT ![b] = nb]
    <2>2. CASE \E sync \in SyncOpts : NewBatch(b, ro, sync)
      <3>1. PICK sync \in SyncOpts : NewBatch(b, ro, sync)
        BY <2>2
      <3>2. sync \in BOOLEAN
        BY SyncAssumption
      <3>3. batch' = [batch EXCEPT ![b] = Fresh(ro, sync, "any")]
        BY <3>1 DEF NewBatch, Begin
      <3> QED BY <3>2, <3>3, FreshLemma
    <2>3. CASE OneShot(b, ro)
      <3>1. batch' = [batch EXCEPT ![b] = Fresh(ro, FALSE, "op")]
        BY <2>3 DEF OneShot, Begin
      <3> QED BY <3>1, FreshLemma
    <2> QED BY <2>2, <2>3
  <1>2. /\ ~batch[b].active /\ ~wlocked
        /\ IF ro THEN rcount' = rcount + 1 /\ UNCHANGED wlocked
                 ELSE rcount = 0 /\ wlocked' = TRUE /\ UNCHANGED rcount
        /\ UNCHANGED <<db, now, resp>>
    BY DEF NewBatch, OneShot, Begin, Lock
  <1>3. \A c \in Batches : batch'[c] = IF c = b THEN nb ELSE batch[c]
    BY <1>1 DEF IInv, TypeOK
  <1>4. TypeOK'
    <2>1. wlocked' \in BOOLEAN /\ rcount' \in Nat
      <3>1. rcount \in Nat /\ wlocked \in BOOLEAN
        BY DEF IInv, TypeOK
      <3>2. CASE ro
        BY <1>2, <3>1, <3>2
      <3>3. CASE ~ro
        BY <1>2, <3>1, <3>3
      <3> QED BY <3>2, <3>3
    <2>2. batch' \in [Batches -> BatchStates]
      BY <1>1 DEF IInv, TypeOK, BatchOK
    <2> QED BY <1>2, <2>1, <2>2 DEF IInv, TypeOK, db
  <1>5. LockInv'
    <2>1. CASE ro
      <3>1. Readers' = Readers \cup {b} /\ Writers' = Writers
        BY <1>1, <1>2, <1>3, <2>1 DEF Readers, Writers
      <3>2. b \notin Readers
        BY <1>2 DEF Readers
      <3>3. Cardinality(Readers') = Cardinality(Readers) + 1
        BY <3>1, <3>2, ReadersFinite, FS_AddElement
      <3> QED BY <1>2, <2>1, <3>1, <3>3 DEF IInv, LockInv
    <2>2. CASE ~ro
      <3>1. Readers' = Readers /\ Writers' = Writers \cup {b}
        BY <1>1, <1>2, <1>3, <2>2 DEF Readers, Writers
      <3>2. Writers = {}
        BY <1>2 DEF IInv, LockInv
      <3> QED BY <1>2, <2>2, <3>1, <3>2 DEF IInv, LockInv
    <2> QED BY <2>1, <2>2
  <1>6. IndexSound'
    BY <1>2 DEF IInv, IndexSound, db
  <1>7. \A c \in Batches : BatchOK(batch[c])'
    BY <1>1, <1>3 DEF IInv, BatchOK, PendingInv
  <1> QED BY <1>4, <1>5, <1>6, <1>7 DEF IInv

\* The end of a batch gives back exactly the lock it took.
LEMMA EndLemma ==
    ASSUME IInv, NEW b \in Batches, batch[b].active, Unlock(batch[b]),
           batch' = [batch EXCEPT ![b] = NoBatch]
    PROVE  /\ LockInv'
           /\ batch' \in [Batches -> BatchStates]
           /\ \A c \in Batches : BatchOK(batch[c])'
           /\ wlocked' \in BOOLEAN /\ rcount' \in Nat
  <1>1. \A c \in Batches : batch'[c] = IF c = b THEN NoBatch ELSE batch[c]
    BY DEF IInv, TypeOK
  <1>2. /\ batch' \in [Batches -> BatchStates]
        /\ \A c \in Batches : BatchOK(batch[c])'
    BY <1>1, NoBatchLemma DEF IInv, TypeOK, BatchOK, PendingInv
  <1>3. Readers' = Readers \ {b} /\ Writers' = Writers \ {b}
    BY <1>1, NoBatchLemma DEF Readers, Writers
  <1>4. CASE batch[b].ro
    <2>1. b \in Readers /\ b \notin Writers
      BY <1>4 DEF Readers, Writers
    <2>2. Readers # {} /\ rcount # 0 /\ ~wlocked /\ Writers = {}
      BY <2>1, ReadersFinite DEF IInv, LockInv
    <2>3. Cardinality(Readers') = Cardinality(Readers) - 1
      BY <1>3, <2>1, ReadersFinite, FS_RemoveElement
    <2>4. rcount' = rcount - 1 /\ wlocked' = wlocked
      BY <1>4 DEF Unlock
    <2>5. LockInv'
      BY <1>3, <2>2, <2>3, <2>4 DEF IInv, LockInv
    <2> QED BY <1>2, <2>2, <2>4, <2>5 DEF IInv, TypeOK
  <1>5. CASE ~batch[b].ro
    <2>1. b \in Writers /\ b \notin Readers
      BY <1>5 DEF Readers, Writers
    <2>2. Writers' = {} /\ Readers' = Readers
      BY <1>3, <2>1 DEF IInv, LockInv
    <2>3. wlocked' = FALSE /\ rcount' = rcount
      BY <1>5 DEF Unlock
    <2>4. LockInv'
      BY <2>2, <2>3 DEF IInv, LockInv
    <2> QED BY <1>2, <2>3, <2>4 DEF IInv, TypeOK
  <1> QED BY <1>4, <1>5

\* What Commit appends, and where its records end up.
LEMMA CommitRecordsLemma ==
    ASSUME IInv, NEW b \in Batches
    PROVE  LET bt == batch[b]
               new == dataFiles \o CommitRecords(bt)
           IN  /\ new \in Seq(LogRecords \cup EndRecords)
               /\ Len(new) = Len(dataFiles) + Len(bt.pendingWrites) + 1
               /\ \A i \in 1..Len(dataFiles) : new[i] = dataFiles[i]
               /\ \A i \in 1..Len(bt.pendingWrites) :
                     new[Len(dataFiles) + i] = [bt.pendingWrites[i] EXCEPT !.batchId = now]
               /\ new[Len(new)] = EndRecord(now)
  <1> DEFINE pw == batch[b].pendingWrites
             rs == [i \in DOMAIN pw |-> [pw[i] EXCEPT !.batchId = now]]
             All == LogRecords \cup EndRecords
             cr == Append(rs, EndRecord(now))
  <1>1. pw \in Seq(LogRecords) /\ now \in Nat /\ dataFiles \in Seq(All)
    BY DEF IInv, TypeOK, BatchStates
  <1>2. Len(pw) \in Nat /\ DOMAIN pw = 1..Len(pw) /\ Len(dataFiles) \in Nat
    BY <1>1, LenProperties
  <1>3. \A i \in 1..Len(pw) : [pw[i] EXCEPT !.batchId = now] \in LogRecords
    <2> SUFFICES ASSUME NEW i \in 1..Len(pw) PROVE [pw[i] EXCEPT !.batchId = now] \in LogRecords
      OBVIOUS
    <2>1. pw[i] \in LogRecords
      BY <1>1, ElementOfSeq
    <2> QED BY <1>1, <2>1 DEF LogRecords
  <1>4. rs \in Seq(All) /\ Len(rs) = Len(pw)
    BY <1>2, <1>3
  <1>5. EndRecord(now) \in All
    BY <1>1, RecordLemma
  <1>6. /\ cr \in Seq(All) /\ Len(cr) = Len(pw) + 1
        /\ \A i \in 1..Len(pw) : cr[i] = [pw[i] EXCEPT !.batchId = now]
        /\ cr[Len(pw) + 1] = EndRecord(now)
    <2> HIDE DEF All
    <2>1. /\ Append(rs, EndRecord(now)) \in Seq(All)
          /\ Len(Append(rs, EndRecord(now))) = Len(rs) + 1
          /\ \A i \in 1..Len(rs) : Append(rs, EndRecord(now))[i] = rs[i]
          /\ Append(rs, EndRecord(now))[Len(rs) + 1] = EndRecord(now)
      <3> HIDE DEF rs
      <3> QED BY <1>4, <1>5, AppendProperties
    <2> QED BY <2>1, <1>2, <1>4
  <1>7. CommitRecords(batch[b]) = cr
    BY DEF CommitRecords
  <1> HIDE DEF cr, All, pw
  <1>8. /\ dataFiles \o cr \in Seq(All)
        /\ Len(dataFiles \o cr) = Len(dataFiles) + Len(cr)
        /\ \A i \in 1..Len(dataFiles) : (dataFiles \o cr)[i] = dataFiles[i]
        /\ \A i \in 1..Len(cr) : (dataFiles \o cr)[Len(dataFiles) + i] = cr[i]
    <2>1. dataFiles \in Seq(All) /\ cr \in Seq(All)
      BY <1>1, <1>6
    <2> HIDE DEF rs
    <2> QED BY <2>1
  <1>9. /\ \A i \in 1..Len(dataFiles) : (dataFiles \o cr)[i] = dataFiles[i]
        /\ \A i \in 1..Len(pw) :
              (dataFiles \o cr)[Len(dataFiles) + i] = [pw[i] EXCEPT !.batchId = now]
    BY <1>2, <1>6, <1>8
  <1>10. /\ Len(dataFiles \o cr) = Len(dataFiles) + Len(pw) + 1
         /\ (dataFiles \o cr)[Len(dataFiles) + Len(pw) + 1] = EndRecord(now)
    BY <1>2, <1>6, <1>8
  <1> QED BY <1>7, <1>8, <1>9, <1>10 DEF All, pw

LEMMA CommitStep ==
    ASSUME IInv, NEW b \in Batches, NEW o \in Outcomes, Commit(b, o)
    PROVE  IInv'
  <1> DEFINE bt == batch[b]
             pw == bt.pendingWrites
             base == Len(dataFiles)
             new == dataFiles \o CommitRecords(bt)
  <1>0. /\ pw \in Seq(LogRecords) /\ Len(pw) \in Nat /\ BatchOK(bt)
        /\ dataFiles \in Seq(LogRecords \cup EndRecords) /\ base \in Nat
        /\ index \in [Keys -> Nat]
    BY LenProperties DEF IInv, TypeOK, BatchStates
  <1>1. /\ LockInv'
        /\ batch' \in [Batches -> BatchStates]
        /\ \A c \in Batches : BatchOK(batch[c])'
        /\ wlocked' \in BOOLEAN /\ rcount' \in Nat
    BY EndLemma DEF Commit
  <1>2. resp' \in Responses
    <2>1. EmptyKey \in AllKeys /\ "Commit" \in Ops
      BY DEF AllKeys, Ops
    <2>2. CASE o = "ok"
      BY <2>1, <2>2, AnswerLemma DEF Commit, CommitOutcome, Reply, Responses
    <2>3. CASE o = "refused"
      <3>1. CommitRefusal(bt) \in Errors \cup {"nothing"}
        BY <2>3 DEF Commit, CommitOutcome, CommitRefusal, Errors
      <3> QED BY <2>1, <2>3, <3>1, AnswerLemma DEF Commit, CommitOutcome, Reply, Responses
    <2>4. CASE o \in {"ErrWrite", "ErrSync"}
      <3>1. Err(o) \in Answers
        BY <2>4, AnswerLemma DEF Errors
      <3> QED BY <2>1, <2>4, <3>1 DEF Commit, CommitOutcome, Reply, Responses
    <2> QED BY <2>2, <2>3, <2>4 DEF Outcomes
  <1>3. /\ new \in Seq(LogRecords \cup EndRecords)
        /\ Len(new) = base + Len(pw) + 1
        /\ \A i \in 1..base : new[i] = dataFiles[i]
        /\ \A i \in 1..Len(pw) : new[base + i] = [pw[i] EXCEPT !.batchId = now]
    BY CommitRecordsLemma
  <1>4. /\ dataFiles' = dataFiles \/ dataFiles' = new
        /\ synced' = synced \/ synced' = Len(dataFiles')
        /\ closed' = closed /\ now' = now
        /\ index' = index \/ (index' = CommitIndex(bt, base) /\ dataFiles' = new)
    BY DEF Commit, CommitOutcome
  <1> HIDE DEF new
  <1>5. /\ dataFiles' \in Seq(LogRecords \cup EndRecords)
        /\ Len(dataFiles') \in Nat /\ Len(dataFiles') >= base
        /\ \A i \in 1..base : dataFiles'[i] = dataFiles[i]
    BY <1>0, <1>3, <1>4
  <1>6. synced' \in 0..Len(dataFiles')
    BY <1>0, <1>4, <1>5 DEF IInv, TypeOK
  <1>7. ASSUME NEW k \in Keys, index' = CommitIndex(bt, base), dataFiles' = new
        PROVE  /\ index'[k] \in Nat
               /\ index'[k] # 0 => /\ index'[k] \in 1..Len(dataFiles')
                                   /\ dataFiles'[index'[k]].type = "Normal"
                                   /\ dataFiles'[index'[k]].key = k
    <2> DEFINE i == lookupPendingWrites(bt, k)
    <2>1. /\ i \in Nat
          /\ i # 0 => i \in 1..Len(pw) /\ pw[i].key = k
      BY <1>0, LookupLemma
    <2>2. index'[k] = IF i = 0 THEN index[k] ELSE IF Dead(pw[i]) THEN 0 ELSE base + i
      BY <1>7 DEF CommitIndex
    <2> HIDE DEF i
    <2>3. CASE i = 0
      BY <1>0, <1>5, <2>2, <2>3 DEF IInv, IndexSound
    <2>4. CASE i # 0 /\ Dead(pw[i])
      BY <2>2, <2>4
    <2>5. CASE i # 0 /\ ~Dead(pw[i])
      <3>1. pw[i] \in LogRecords /\ pw[i].type # "Deleted"
        BY <1>0, <2>1, <2>5, ElementOfSeq DEF Dead
      <3>2. index'[k] = base + i /\ dataFiles'[base + i] = [pw[i] EXCEPT !.batchId = now]
        BY <1>3, <1>7, <2>1, <2>2, <2>5
      <3>3. [pw[i] EXCEPT !.batchId = now].type = "Normal"
            /\ [pw[i] EXCEPT !.batchId = now].key = k
        BY <2>1, <2>5, <3>1 DEF LogRecords
      <3> QED BY <1>0, <1>3, <1>7, <2>1, <2>5, <3>2, <3>3
    <2> QED BY <2>3, <2>4, <2>5
  <1>8. index' \in [Keys -> Nat]
    <2>1. CASE index' = index
      BY <1>0, <2>1
    <2>2. CASE index' = CommitIndex(bt, base) /\ dataFiles' = new
      BY <2>2, <1>7 DEF CommitIndex
    <2> QED BY <1>4, <2>1, <2>2
  <1>9. IndexSound'
    <2>1. CASE index' = index
      BY <1>0, <1>5, <2>1 DEF IInv, IndexSound
    <2>2. CASE index' = CommitIndex(bt, base) /\ dataFiles' = new
      BY <2>2, <1>7 DEF IndexSound
    <2> QED BY <1>4, <2>1, <2>2
  <1>10. TypeOK'
    BY <1>1, <1>2, <1>4, <1>5, <1>6, <1>8 DEF IInv, TypeOK
  <1> QED BY <1>1, <1>9, <1>10 DEF IInv

LEMMA RollbackStep ==
    ASSUME IInv, NEW b \in Batches, Rollback(b)
    PROVE  IInv'
  <1>1. /\ LockInv'
        /\ batch' \in [Batches -> BatchStates]
        /\ \A c \in Batches : BatchOK(batch[c])'
        /\ wlocked' \in BOOLEAN /\ rcount' \in Nat
    BY EndLemma DEF Rollback
  <1>2. RollbackAnswer(batch[b]) \in Answers
    BY AnswerLemma DEF RollbackAnswer, Errors
  <1>3. resp' \in Responses
    BY <1>2 DEF Rollback, Reply, Responses, Ops, AllKeys
  <1>4. TypeOK'
    BY <1>1, <1>3 DEF Rollback, IInv, TypeOK, db
  <1>5. IndexSound'
    BY DEF Rollback, IInv, IndexSound, db
  <1> QED BY <1>1, <1>4, <1>5 DEF IInv

\* Sync, Close and Tick touch neither the batches nor what the index names.
LEMMA OtherStep ==
    ASSUME IInv, Sync \/ Close \/ Tick
    PROVE  IInv'
  <1>1. dataFiles' = dataFiles /\ index' = index /\ batch' = batch
        /\ wlocked' = wlocked /\ rcount' = rcount
    BY DEF Sync, Close, Tick, db, mu
  <1>2. Len(dataFiles) \in Nat
    BY LenProperties DEF IInv, TypeOK
  <1>3. synced' \in 0..Len(dataFiles)
    BY <1>2 DEF Sync, Close, Tick, db, IInv, TypeOK
  <1>4. closed' \in BOOLEAN /\ now' \in Nat \ {0}
    <2>1. now' = now \/ now' = now + 1
      BY DEF Sync, Close, Tick
    <2>2. closed' = closed \/ closed' = TRUE
      BY DEF Sync, Close, Tick, db
    <2>3. closed' \in BOOLEAN
      BY <2>2 DEF IInv, TypeOK
    <2> QED BY <2>1, <2>3 DEF IInv, TypeOK
  <1>5. resp' \in Responses
    <2>1. OK \in Answers /\ Err("ErrFileClosed") \in Answers /\ EmptyKey \in AllKeys
      BY AnswerLemma DEF Errors, AllKeys
    <2>2. CASE Sync \/ Close
      BY <2>1, <2>2 DEF Sync, Close, Reply, Responses, Ops
    <2>3. CASE Tick
      BY <2>3 DEF Tick, IInv, TypeOK
    <2> QED BY <2>2, <2>3
  <1>6. TypeOK'
    BY <1>1, <1>3, <1>4, <1>5 DEF IInv, TypeOK
  <1>7. LockInv' /\ IndexSound'
    BY <1>1 DEF IInv, LockInv, IndexSound, Readers, Writers
  <1>8. \A c \in Batches : BatchOK(batch[c])'
    BY <1>1 DEF IInv, BatchOK, PendingInv
  <1> QED BY <1>6, <1>7, <1>8 DEF IInv
-----------------------------------------------------------------------------
LEMMA InitIInv == Init => IInv
  <1> SUFFICES ASSUME Init PROVE IInv
    OBVIOUS
  <1>1. \A b \in Batches : batch[b] = NoBatch
    BY DEF Init
  <1>2. \A b \in Batches : BatchOK(batch[b])
    BY <1>1, NoBatchLemma
  <1>3. Readers = {} /\ Writers = {}
    BY <1>1, NoBatchLemma DEF Readers, Writers
  <1>4. LockInv
    BY <1>3, FS_EmptySet DEF Init, LockInv
  <1>5. resp \in Responses
    BY AnswerLemma DEF Init, Responses, Ops, AllKeys
  <1>6. TypeOK
    <2>1. dataFiles \in Seq(LogRecords \cup EndRecords) /\ synced \in 0..Len(dataFiles)
      BY EmptySeq DEF Init
    <2>2. batch \in [Batches -> BatchStates]
      BY NoBatchLemma DEF Init, BatchOK
    <2>3. index \in [Keys -> Nat] /\ now \in Nat \ {0} /\ rcount \in Nat
      BY DEF Init
    <2>4. closed \in BOOLEAN /\ wlocked \in BOOLEAN
      BY DEF Init
    <2> QED BY <1>5, <2>1, <2>2, <2>3, <2>4 DEF TypeOK
  <1>7. IndexSound
    BY DEF Init, IndexSound
  <1> QED BY <1>2, <1>4, <1>6, <1>7 DEF IInv

LEMMA NextIInv == IInv /\ [Next]_vars => IInv'
  <1> SUFFICES ASSUME IInv, [Next]_vars PROVE IInv'
    OBVIOUS
  <1>1. ASSUME NEW b \in Batches, BatchStep(b) PROVE IInv'
    <2>1. CASE \E ro \in BOOLEAN, sync \in SyncOpts : NewBatch(b, ro, sync)
      BY <2>1, BeginStep
    <2>2. CASE \E ro \in BOOLEAN : OneShot(b, ro)
      BY <2>2, BeginStep
    <2>3. CASE BatchOp(b)
      <3>1. CASE \E k \in AllKeys, write \in BOOLEAN : Refused(b, k, write)
        BY <3>1, RefusedStep
      <3>2. CASE \E k \in Keys :
                    \/ \E v \in Values : Put(b, k, v)
                    \/ \E v \in Values, ttl \in TTLs : PutWithTTL(b, k, v, ttl)
                    \/ Delete(b, k)
        BY <3>2, WriteStep
      <3>3. CASE \E k \in Keys : (\E ttl \in TTLs : Expire(b, k, ttl)) \/ Persist(b, k)
        BY <3>3, ChangeStep
      <3>4. CASE \E k \in Keys : Get(b, k) \/ Exist(b, k) \/ TTL(b, k)
        BY <3>4, ReadStep
      <3>5. \/ \E k \in AllKeys, write \in BOOLEAN : Refused(b, k, write)
            \/ \E k \in Keys :
                  \/ \E v \in Values : Put(b, k, v)
                  \/ \E v \in Values, ttl \in TTLs : PutWithTTL(b, k, v, ttl)
                  \/ Delete(b, k)
            \/ \E k \in Keys : (\E ttl \in TTLs : Expire(b, k, ttl)) \/ Persist(b, k)
            \/ \E k \in Keys : Get(b, k) \/ Exist(b, k) \/ TTL(b, k)
        BY <2>3 DEF BatchOp
      <3> QED BY <3>1, <3>2, <3>3, <3>4, <3>5
    <2>4. CASE \E o \in Outcomes : Commit(b, o)
      BY <2>4, CommitStep
    <2>5. CASE Rollback(b)
      BY <2>5, RollbackStep
    <2> QED BY <1>1, <2>1, <2>2, <2>3, <2>4, <2>5 DEF BatchStep
  <1>2. CASE Sync \/ Close \/ Tick
    BY <1>2, OtherStep
  <1>3. CASE UNCHANGED vars
    <2>1. dataFiles' = dataFiles /\ index' = index /\ batch' = batch /\ closed' = closed
          /\ synced' = synced /\ now' = now /\ wlocked' = wlocked /\ rcount' = rcount
          /\ resp' = resp
      BY <1>3 DEF vars
    <2> QED BY <2>1 DEF IInv, TypeOK, LockInv, IndexSound, Readers, Writers, BatchOK, PendingInv
  <1> QED BY <1>1, <1>2, <1>3 DEF Next

THEOREM Inductive == Spec => []IInv
  BY InitIInv, NextIInv, PTL DEF Spec

\* Every variable keeps its type, for every instance.
THEOREM TypeCorrect == Spec => []TypeOK
  <1>1. IInv => TypeOK
    BY DEF IInv
  <1> QED BY <1>1, Inductive, PTL

\* The index never leads a read of batch.go to a record of another key, a
\* deletion or the end of a batch.
THEOREM IndexIsSound == Spec => []IndexSound
  <1>1. IInv => IndexSound
    BY DEF IInv
  <1> QED BY <1>1, Inductive, PTL

\* db.mu, locked and unlocked by the batches, lets a writer be alone.
THEOREM WriterIsAlone == Spec => []WriterAlone
  <1>1. IInv => WriterAlone
    <2> SUFFICES ASSUME IInv, NEW b \in Batches, NEW c \in Batches, b # c,
                        batch[b].active, batch[c].active, ~batch[b].ro
                 PROVE  FALSE
      BY DEF WriterAlone
    <2>1. b \in Writers /\ rcount = 0 /\ Readers = {}
      BY ReadersFinite DEF IInv, LockInv, Writers
    <2>2. c \in Writers \/ c \in Readers
      BY DEF Readers, Writers
    <2> QED BY <2>1, <2>2 DEF IInv, LockInv
  <1> QED BY <1>1, Inductive, PTL

\* The hash buckets of a batch lead from every pending key to its one record.
THEOREM PendingIsConsistent == Spec => []PendingConsistent
  <1>1. IInv => PendingConsistent
    <2> SUFFICES ASSUME IInv, NEW b \in Batches, NEW i \in DOMAIN batch[b].pendingWrites
                 PROVE  lookupPendingWrites(batch[b], batch[b].pendingWrites[i].key) = i
      BY DEF PendingConsistent
    <2>1. BatchOK(batch[b])
      BY DEF IInv
    <2>2. i \in 1..Len(batch[b].pendingWrites)
      BY <2>1, LenProperties DEF BatchOK, BatchStates
    <2> QED BY <2>1, <2>2, LookupHit
  <1> QED BY <1>1, Inductive, PTL
-----------------------------------------------------------------------------
(* The panic of Get                                                        *)

LEMMA NotPanic ==
    /\ OK # Panic /\ NoTTL # Panic
    /\ \A x : Value(x) # Panic /\ Exists(x) # Panic /\ TTLIs(x) # Panic /\ Err(x) # Panic
  BY DEF OK, NoTTL, Panic, Value, Exists, TTLIs, Err

LEMMA AnswersWell == IInv /\ NeverPanics /\ [Next]_vars => NeverPanics'
  <1> SUFFICES ASSUME IInv, NeverPanics, [Next]_vars PROVE NeverPanics'
    OBVIOUS
  <1>1. ASSUME NEW b \in Batches, NEW k \in Keys, Get(b, k) PROVE NeverPanics'
    <2>1. LET f == Fetch(batch[b], k) IN ~(f.from = "wal" /\ f.rec.type = "Deleted")
      BY FetchLemma
    <2> QED BY <1>1, <2>1, NotPanic DEF Get, Reply, NeverPanics
  <1>2. ASSUME NEW b \in Batches, NEW k \in Keys, Exist(b, k) \/ TTL(b, k) PROVE NeverPanics'
    <2>1. CASE Exist(b, k)
      <3>1. \E x : resp' = [op |-> "Exist", key |-> k, ans |-> Exists(x)]
        BY <2>1, Zenon DEF Exist, Reply
      <3> QED BY <3>1, NotPanic DEF NeverPanics
    <2>2. CASE TTL(b, k)
      BY <2>2, NotPanic DEF TTL, Reply, NeverPanics
    <2> QED BY <1>2, <2>1, <2>2
  <1>3. ASSUME NEW b \in Batches, NEW k \in AllKeys, NEW w \in BOOLEAN, Refused(b, k, w)
        PROVE  NeverPanics'
    BY <1>3, NotPanic DEF Refused, Reply, NeverPanics
  <1>4. ASSUME NEW b \in Batches, NEW k \in Keys, NEW v, NEW ttl,
               \/ Put(b, k, v) \/ PutWithTTL(b, k, v, ttl) \/ Delete(b, k)
               \/ Expire(b, k, ttl) \/ Persist(b, k)
        PROVE  NeverPanics'
    <2>1. CASE Put(b, k, v) \/ PutWithTTL(b, k, v, ttl) \/ Delete(b, k)
      <3>1. resp'.ans = OK
        <4>1. CASE Put(b, k, v)
          BY <4>1 DEF Put, Reply
        <4>2. CASE PutWithTTL(b, k, v, ttl)
          BY <4>2 DEF PutWithTTL, Reply
        <4>3. CASE Delete(b, k)
          BY <4>3 DEF Delete, Reply
        <4> QED BY <2>1, <4>1, <4>2, <4>3
      <3> QED BY <3>1, NotPanic DEF NeverPanics
    <2>2. CASE Expire(b, k, ttl) \/ Persist(b, k)
      <3>1. resp'.ans \in {OK, Err("ErrKeyNotFound")}
        <4>1. CASE Expire(b, k, ttl)
          BY <4>1 DEF Expire, Reply
        <4>2. CASE Persist(b, k)
          BY <4>2 DEF Persist, Reply
        <4> QED BY <2>2, <4>1, <4>2
      <3> QED BY <3>1, NotPanic DEF NeverPanics
    <2> QED BY <1>4, <2>1, <2>2
  <1>5. ASSUME NEW b \in Batches, NEW o \in Outcomes, Commit(b, o) PROVE NeverPanics'
    <2>1. CommitOutcome(b, o)
      BY <1>5 DEF Commit
    <2>2. CASE o = "ok" \/ o = "refused"
      BY <2>1, <2>2, NotPanic DEF CommitOutcome, Reply, NeverPanics
    <2>3. CASE o # "ok" /\ o # "refused"
      BY <2>1, <2>3, NotPanic DEF CommitOutcome, Reply, NeverPanics
    <2> QED BY <2>2, <2>3
  <1>6. ASSUME NEW b \in Batches, Rollback(b) PROVE NeverPanics'
    BY <1>6, NotPanic DEF Rollback, RollbackAnswer, Reply, NeverPanics
  <1>7. CASE Sync \/ Close
    BY <1>7, NotPanic DEF Sync, Close, Reply, NeverPanics
  <1>8. ASSUME NEW b \in Batches, NEW ro, NEW sync, NEW next, Begin(b, ro, sync, next)
        PROVE  NeverPanics'
    BY <1>8 DEF Begin, NeverPanics
  <1>9. CASE Tick \/ UNCHANGED vars
    BY <1>9 DEF Tick, vars, NeverPanics
  <1> QED
    BY <1>1, <1>2, <1>3, <1>4, <1>5, <1>6, <1>7, <1>8, <1>9
    DEF Next, BatchStep, BatchOp, NewBatch, OneShot

\* panic("Deleted data cannot exist in the index") of Get is unreachable,
\* whatever batches, commits, failures and expirations came before.
THEOREM GetNeverPanics == Spec => []NeverPanics
  <1>1. Init => NeverPanics
    BY NotPanic DEF Init, NeverPanics
  <1> QED BY <1>1, AnswersWell, Inductive, PTL DEF Spec
-----------------------------------------------------------------------------
(* The refinement of KVStore                                               *)

\* What the abstract view needs beyond IInv: a batch that is over or read-only
\* has nothing pending, the flags Commit and Rollback check are never set on a
\* batch that is still active, and a pending deletion has no expiry.
Tidy(bt) ==
    /\ ~bt.committed /\ ~bt.rollbacked
    /\ ~bt.active \/ bt.ro => bt.pendingWrites = <<>>
    /\ \A i \in 1..Len(bt.pendingWrites) :
          bt.pendingWrites[i].type = "Deleted" => bt.pendingWrites[i].expire = 0

RInv == IInv /\ \A b \in Batches : Tidy(batch[b])

\* The abstract view of a batch: a pending record shows as what it is, a key
\* without one as untouched.
LEMMA OverlayLemma ==
    ASSUME NEW bt, BatchOK(bt), NEW k \in Keys
    PROVE  /\ \A i \in 1..Len(bt.pendingWrites) :
                 bt.pendingWrites[i].key = k => Overlay(bt, k) = Pending(bt.pendingWrites[i])
           /\ (\A i \in 1..Len(bt.pendingWrites) : bt.pendingWrites[i].key # k)
                 => Overlay(bt, k) = [kind |-> "untouched"]
  <1>1. ASSUME NEW i \in 1..Len(bt.pendingWrites), bt.pendingWrites[i].key = k
        PROVE  Overlay(bt, k) = Pending(bt.pendingWrites[i])
    <2>1. lookupPendingWrites(bt, k) = i
      BY <1>1, LookupHit
    <2>2. i # 0
      BY LenProperties DEF BatchOK, BatchStates
    <2> QED BY <2>1, <2>2 DEF Overlay
  <1>2. ASSUME \A i \in 1..Len(bt.pendingWrites) : bt.pendingWrites[i].key # k
        PROVE  Overlay(bt, k) = [kind |-> "untouched"]
    <2>1. lookupPendingWrites(bt, k) = 0
      BY <1>2, LookupLemma
    <2> QED BY <2>1 DEF Overlay
  <1> QED BY <1>1, <1>2

\* What SetPending leaves in the batch.
LEMMA SetPendingWrites ==
    ASSUME NEW bt, BatchOK(bt), NEW r \in LogRecords
    PROVE  LET pw == bt.pendingWrites
               nw == SetPending(bt, r).pendingWrites
           IN  /\ \E i \in 1..Len(nw) : nw[i] = r
               /\ \A i \in 1..Len(nw) : nw[i] = r \/ (i \in 1..Len(pw) /\ nw[i] = pw[i])
               /\ \A i \in 1..Len(pw) : i \in 1..Len(nw) /\ (pw[i].key # r.key => nw[i] = pw[i])
               /\ SetPending(bt, r).committed = bt.committed
               /\ SetPending(bt, r).rollbacked = bt.rollbacked
  <1> DEFINE i == lookupPendingWrites(bt, r.key)
             pw == bt.pendingWrites
  <1>0. r.key \in Keys /\ pw \in Seq(LogRecords) /\ Len(pw) \in Nat
    BY LenProperties DEF LogRecords, BatchOK, BatchStates
  <1>1. CASE i = 0
    <2> DEFINE nb == appendPendingWrites(bt, r)
    <2>1. SetPending(bt, r) = nb
      BY <1>1 DEF SetPending
    <2>2. /\ nb.pendingWrites = Append(pw, r)
          /\ nb.committed = bt.committed /\ nb.rollbacked = bt.rollbacked
      BY DEF appendPendingWrites, BatchOK, BatchStates
    <2>3. /\ Len(Append(pw, r)) = Len(pw) + 1
          /\ \A j \in 1..Len(pw) : Append(pw, r)[j] = pw[j]
          /\ Append(pw, r)[Len(pw) + 1] = r
      BY <1>0, AppendProperties
    <2> HIDE DEF nb
    <2> QED BY <1>0, <2>1, <2>2, <2>3
  <1>2. CASE i # 0
    <2> DEFINE nb == [bt EXCEPT !.pendingWrites[i] = r]
    <2>1. SetPending(bt, r) = nb
      BY <1>2 DEF SetPending
    <2>2. i \in 1..Len(pw) /\ pw[i].key = r.key
      BY <1>0, <1>2, LookupLemma
    <2>3. /\ nb.pendingWrites = [pw EXCEPT ![i] = r]
          /\ nb.committed = bt.committed /\ nb.rollbacked = bt.rollbacked
      BY DEF BatchOK, BatchStates
    <2>4. /\ Len([pw EXCEPT ![i] = r]) = Len(pw)
          /\ \A j \in 1..Len(pw) : [pw EXCEPT ![i] = r][j] = IF j = i THEN r ELSE pw[j]
      BY <1>0, <2>2, ExceptSeq
    <2> HIDE DEF nb, i
    <2> QED BY <1>0, <2>1, <2>2, <2>3, <2>4
  <1> QED BY <1>1, <1>2

\* SetPending changes the view of the record's key and of no other.
LEMMA SetPendingView ==
    ASSUME NEW bt, BatchOK(bt), NEW r \in LogRecords, NEW k \in Keys
    PROVE  Overlay(SetPending(bt, r), k) = IF k = r.key THEN Pending(r) ELSE Overlay(bt, k)
  <1> DEFINE nb == SetPending(bt, r)
  <1>0. BatchOK(nb)
    BY SetPendingLemma
  <1>1. LET pw == bt.pendingWrites
            nw == nb.pendingWrites
        IN  /\ \E i \in 1..Len(nw) : nw[i] = r
            /\ \A i \in 1..Len(nw) : nw[i] = r \/ (i \in 1..Len(pw) /\ nw[i] = pw[i])
            /\ \A i \in 1..Len(pw) : i \in 1..Len(nw) /\ (pw[i].key # r.key => nw[i] = pw[i])
    BY SetPendingWrites
  <1> HIDE DEF nb
  <1>2. CASE k = r.key
    <2>1. PICK i \in 1..Len(nb.pendingWrites) : nb.pendingWrites[i] = r
      BY <1>1
    <2>2. Overlay(nb, k) = Pending(nb.pendingWrites[i])
      BY <1>0, <1>2, <2>1, OverlayLemma
    <2> QED BY <1>2, <2>1, <2>2 DEF nb
  <1>3. CASE k # r.key /\ \E i \in 1..Len(bt.pendingWrites) : bt.pendingWrites[i].key = k
    <2>1. PICK i \in 1..Len(bt.pendingWrites) : bt.pendingWrites[i].key = k
      BY <1>3
    <2>2. i \in 1..Len(nb.pendingWrites) /\ nb.pendingWrites[i] = bt.pendingWrites[i]
      BY <1>1, <1>3, <2>1
    <2>3. Overlay(bt, k) = Pending(bt.pendingWrites[i])
      BY <2>1, OverlayLemma
    <2>4. Overlay(nb, k) = Pending(nb.pendingWrites[i])
      BY <1>0, <2>1, <2>2, OverlayLemma
    <2> QED BY <1>3, <2>2, <2>3, <2>4 DEF nb
  <1>4. CASE k # r.key /\ \A i \in 1..Len(bt.pendingWrites) : bt.pendingWrites[i].key # k
    <2>1. \A i \in 1..Len(nb.pendingWrites) : nb.pendingWrites[i].key # k
      BY <1>1, <1>4
    <2>2. Overlay(bt, k) = [kind |-> "untouched"]
      BY <1>4, OverlayLemma
    <2>3. Overlay(nb, k) = [kind |-> "untouched"]
      BY <1>0, <2>1, OverlayLemma
    <2> QED BY <1>4, <2>2, <2>3 DEF nb
  <1> QED BY <1>2, <1>3, <1>4 DEF nb

LEMMA AfterOpView ==
    ASSUME NEW bt, BatchOK(bt), NEW f \in BOOLEAN, NEW k \in Keys
    PROVE  Overlay(AfterOp(bt, f), k) = Overlay(bt, k)
  <1>1. /\ AfterOp(bt, f).pendingWrites = bt.pendingWrites
        /\ AfterOp(bt, f).pendingWritesMap = bt.pendingWritesMap
    BY AfterOpLemma
  <1>2. lookupPendingWrites(AfterOp(bt, f), k) = lookupPendingWrites(bt, k)
    BY <1>1 DEF lookupPendingWrites
  <1> QED BY <1>1, <1>2 DEF Overlay
-----------------------------------------------------------------------------
\* What Fetch finds is what the abstract store shows.
LEMMA SeenLemma ==
    ASSUME RInv, NEW b \in Batches, NEW k \in Keys
    PROVE  LET f == Fetch(batch[b], k)
           IN  /\ KV!Seen(b, k) = IF f.from = "none" \/ Dead(f.rec) THEN KV!Absent
                                  ELSE EntryOf(f.rec)
               /\ f.from = "pending" => /\ f.rec.type = "Deleted" => f.rec.expire = 0
                                        /\ overlayBar[b][k] = Pending(f.rec)
               /\ f.from # "pending" => overlayBar[b][k] = KV!Untouched
               /\ f.from = "wal" => f.rec = dataFiles[index[k]] /\ index[k] # 0
  <1> DEFINE bt == batch[b]
             i == lookupPendingWrites(bt, k)
             f == Fetch(bt, k)
  <1>0. BatchOK(bt) /\ Tidy(bt)
    BY DEF RInv, IInv
  <1>1. /\ i \in Nat
        /\ i # 0 => i \in 1..Len(bt.pendingWrites) /\ bt.pendingWrites[i].key = k
    BY <1>0, LookupLemma
  <1>2. /\ f.rec \in LogRecords
        /\ f.from = "wal" => f.rec.type = "Normal"
    BY FetchLemma DEF RInv
  <1>3. overlayBar[b][k] = Overlay(bt, k) /\ storeBar[k] = Stored(k)
    BY DEF overlayBar, storeBar
  <1> HIDE DEF i
  <1>4. CASE i # 0
    <2>1. f = [from |-> "pending", rec |-> bt.pendingWrites[i]]
      BY <1>4 DEF Fetch, i
    <2>2. Overlay(bt, k) = Pending(f.rec)
      BY <1>4, <2>1 DEF Overlay, i
    <2>3. f.rec.type = "Deleted" => f.rec.expire = 0
      BY <1>0, <1>1, <1>4, <2>1 DEF Tidy
    <2> HIDE DEF f
    <2>4. f.from = "pending"
      BY <2>1
    <2>5. KV!Seen(b, k) = IF Dead(f.rec) THEN KV!Absent ELSE EntryOf(f.rec)
      <3>1. CASE f.rec.type = "Deleted"
        <4>1. overlayBar[b][k] = [kind |-> "erased"]
          BY <1>3, <2>2, <3>1 DEF Pending
        <4> QED BY <4>1, <3>1 DEF KV!Seen, KV!Untouched, KV!Erased, KV!Absent, Dead
      <3>2. CASE f.rec.type # "Deleted"
        <4>1. overlayBar[b][k] = EntryOf(f.rec)
          BY <1>3, <2>2, <3>2 DEF Pending
        <4>2. EntryOf(f.rec).kind = "entry" /\ EntryOf(f.rec).expire = f.rec.expire
          BY DEF EntryOf
        <4> QED BY <4>1, <4>2, <3>2 DEF KV!Seen, KV!Untouched, KV!Erased, KV!Absent, KV!Live, KV!IsExpired, IsExpired, Dead
      <3> QED BY <3>1, <3>2
    <2> QED BY <1>3, <2>2, <2>3, <2>4, <2>5 DEF f
  <1>5. CASE i = 0
    <2>1. overlayBar[b][k] = KV!Untouched
      BY <1>3, <1>5 DEF Overlay, i, KV!Untouched
    <2>2. KV!Seen(b, k) = Stored(k)
      BY <1>3, <2>1 DEF KV!Seen, KV!Untouched, KV!Erased
    <2>3. f = IF index[k] # 0 THEN [from |-> "wal", rec |-> dataFiles[index[k]]]
              ELSE [from |-> "none", rec |-> DeletedRecord(k)]
      BY <1>5 DEF Fetch, i
    <2> HIDE DEF f
    <2>4. KV!Seen(b, k) = IF f.from = "none" \/ Dead(f.rec) THEN KV!Absent ELSE EntryOf(f.rec)
      BY <1>2, <2>2, <2>3 DEF Stored, Dead, KV!Absent
    <2>5. f.from # "pending" /\ (f.from = "wal" => f.rec = dataFiles[index[k]] /\ index[k] # 0)
      BY <2>3
    <2> QED BY <2>1, <2>4, <2>5 DEF f
  <1> QED BY <1>4, <1>5
-----------------------------------------------------------------------------
\* A step of b that keeps its lock and mode.
LEMMA ViewStep ==
    ASSUME IInv, NEW b \in Batches, NEW nb,
           nb.active = batch[b].active, nb.ro = batch[b].ro,
           batch' = [batch EXCEPT ![b] = nb]
    PROVE  /\ modeBar' = modeBar
           /\ overlayBar' = [overlayBar EXCEPT ![b] = [k \in Keys |-> Overlay(nb, k)]]
  <1>1. \A c \in Batches : batch'[c] = IF c = b THEN nb ELSE batch[c]
    BY DEF IInv, TypeOK
  <1>2. modeBar' = modeBar
    BY <1>1 DEF modeBar, ModeOf
  <1>3. overlayBar' = [c \in Batches |-> [k \in Keys |-> Overlay(batch'[c], k)]]
    BY DEF overlayBar, Overlay, lookupPendingWrites
  <1> DEFINE view == [k \in Keys |-> Overlay(nb, k)]
  <1>4. \A c \in Batches : overlayBar'[c] = IF c = b THEN view ELSE overlayBar[c]
    BY <1>1, <1>3 DEF overlayBar
  <1>5. overlayBar' = [c \in Batches |-> overlayBar'[c]]
    BY <1>3
  <1>6. overlayBar = [c \in Batches |-> overlayBar[c]]
    BY DEF overlayBar
  <1> HIDE DEF view
  <1>7. overlayBar' = [overlayBar EXCEPT ![b] = view]
    BY <1>4, <1>5, <1>6
  <1> QED BY <1>2, <1>7 DEF view

LEMMA KeepView ==
    ASSUME IInv, NEW b \in Batches, NEW f \in BOOLEAN,
           batch' = [batch EXCEPT ![b] = AfterOp(@, f)]
    PROVE  modeBar' = modeBar /\ overlayBar' = overlayBar
  <1> DEFINE nb == AfterOp(batch[b], f)
  <1>1. BatchOK(batch[b]) /\ batch' = [batch EXCEPT ![b] = nb]
    BY DEF IInv, TypeOK
  <1>2. nb.active = batch[b].active /\ nb.ro = batch[b].ro
    BY <1>1, AfterOpLemma
  <1>3. \A k \in Keys : Overlay(nb, k) = Overlay(batch[b], k)
    BY <1>1, AfterOpView
  <1> HIDE DEF nb
  <1>4. /\ modeBar' = modeBar
        /\ overlayBar' = [overlayBar EXCEPT ![b] = [k \in Keys |-> Overlay(nb, k)]]
    BY <1>1, <1>2, ViewStep
  <1> QED BY <1>3, <1>4 DEF overlayBar

LEMMA WriteView ==
    ASSUME IInv, NEW b \in Batches, NEW r \in LogRecords, NEW f \in BOOLEAN,
           batch' = [batch EXCEPT ![b] = AfterOp(SetPending(@, r), f)]
    PROVE  modeBar' = modeBar /\ overlayBar' = [overlayBar EXCEPT ![b][r.key] = Pending(r)]
  <1> DEFINE sp == SetPending(batch[b], r)
             nb == AfterOp(sp, f)
  <1>0. r.key \in Keys
    BY DEF LogRecords
  <1>1. BatchOK(batch[b]) /\ batch' = [batch EXCEPT ![b] = nb]
    BY DEF IInv, TypeOK
  <1>2. BatchOK(sp) /\ sp.active = batch[b].active /\ sp.ro = batch[b].ro
    BY <1>1, SetPendingLemma
  <1>3. \A k \in Keys : Overlay(sp, k) = IF k = r.key THEN Pending(r) ELSE Overlay(batch[b], k)
    BY <1>1, SetPendingView
  <1> HIDE DEF sp
  <1>4. nb.active = batch[b].active /\ nb.ro = batch[b].ro
    BY <1>2, AfterOpLemma
  <1>5. \A k \in Keys : Overlay(nb, k) = IF k = r.key THEN Pending(r) ELSE Overlay(batch[b], k)
    BY <1>2, <1>3, AfterOpView
  <1> HIDE DEF nb
  <1>6. /\ modeBar' = modeBar
        /\ overlayBar' = [overlayBar EXCEPT ![b] = [k \in Keys |-> Overlay(nb, k)]]
    BY <1>1, <1>4, ViewStep
  <1>7. [k \in Keys |-> Overlay(nb, k)] = [overlayBar[b] EXCEPT ![r.key] = Pending(r)]
    BY <1>0, <1>5 DEF overlayBar
  <1> QED BY <1>6, <1>7

\* A key whose record has expired may leave the index unseen.
LEMMA StoreView ==
    ASSUME IInv, NEW k \in Keys, UNCHANGED <<dataFiles, now>>,
           \/ index' = index
           \/ index' = indexDelete(k) /\ IsExpired(dataFiles[index[k]].expire, now)
    PROVE  storeBar' = storeBar
  <1> SUFFICES ASSUME NEW j \in Keys PROVE Stored(j)' = Stored(j)
    BY DEF storeBar
  <1>1. index'[j] = index[j] \/ (index'[j] = 0 /\ IsExpired(dataFiles[index[j]].expire, now))
    BY DEF indexDelete, IInv, TypeOK
  <1> QED BY <1>1 DEF Stored, EntryOf, IsExpired

LEMMA RefusalView ==
    ASSUME IInv, NEW b \in Batches, batch[b].active, NEW k \in AllKeys, NEW write \in BOOLEAN
    PROVE  modeBar[b] # "idle" /\ KV!Refusal(b, k, write) = Refusal(b, k, write)
  <1>1. modeBar[b] = IF batch[b].ro THEN "ro" ELSE "rw"
    BY DEF modeBar, ModeOf
  <1>2. closed \in BOOLEAN /\ batch[b].ro \in BOOLEAN
    BY DEF IInv, TypeOK, BatchStates
  <1>3. modeBar[b] # "idle"
    BY <1>1
  <1>4. KV!Refusal(b, k, write) = Refusal(b, k, write)
    BY <1>1, <1>2 DEF KV!Refusal, Refusal
  <1> QED BY <1>3, <1>4
-----------------------------------------------------------------------------
LEMMA RefinesRefused ==
    ASSUME RInv, NEW b \in Batches, NEW k \in AllKeys, NEW write \in BOOLEAN,
           Refused(b, k, write)
    PROVE  KV!Refuse(b, k, write)
  <1>0. IInv /\ batch[b].active
    BY DEF RInv, Refused, Calling
  <1>1. modeBar' = modeBar /\ overlayBar' = overlayBar
    BY <1>0, KeepView DEF Refused
  <1>2. storeBar' = storeBar /\ closed' = closed /\ now' = now
    BY DEF Refused, db, storeBar, Stored, EntryOf
  <1>3. modeBar[b] # "idle" /\ KV!Refusal(b, k, write) = Refusal(b, k, write)
    BY <1>0, RefusalView
  <1> QED BY <1>1, <1>2, <1>3 DEF Refused, Reply, Err, KV!Refuse, KV!Answer, KV!Error

LEMMA AcceptedView ==
    ASSUME IInv, NEW b \in Batches, NEW k \in Keys, NEW write \in BOOLEAN, Accepted(b, k, write)
    PROVE  modeBar[b] # "idle" /\ KV!Refusal(b, k, write) = "none"
  BY RefusalView DEF Accepted, Calling, AllKeys

\* Put, PutWithTTL and Delete.
LEMMA RefinesWrite ==
    ASSUME RInv, NEW b \in Batches, NEW k \in Keys, NEW op, NEW r \in LogRecords, r.key = k,
           Accepted(b, k, TRUE), Reply(op, k, OK), UNCHANGED <<db, mu, now>>,
           batch' = [batch EXCEPT ![b] = AfterOp(SetPending(@, r), FALSE)]
    PROVE  KV!Write(b, op, k, Pending(r))
  <1>0. IInv
    BY DEF RInv
  <1>1. modeBar' = modeBar /\ overlayBar' = [overlayBar EXCEPT ![b][k] = Pending(r)]
    BY <1>0, WriteView
  <1>2. storeBar' = storeBar /\ closed' = closed /\ now' = now
    BY DEF db, storeBar, Stored, EntryOf
  <1>3. modeBar[b] # "idle" /\ KV!Refusal(b, k, TRUE) = "none"
    BY <1>0, AcceptedView
  <1> QED BY <1>1, <1>2, <1>3 DEF Reply, OK, KV!Write, KV!Answer

LEMMA RefinesPuts ==
    ASSUME RInv, NEW b \in Batches, NEW k \in Keys
    PROVE  /\ \A v \in Values : Put(b, k, v) => KV!Write(b, "Put", k, KV!Entry(v, 0))
           /\ \A v \in Values, ttl \in TTLs : PutWithTTL(b, k, v, ttl) =>
                 KV!Write(b, "PutWithTTL", k, KV!Entry(v, KV!ExpireAt(now, ttl)))
           /\ Delete(b, k) => KV!Write(b, "Delete", k, KV!Erased)
  <1>1. ASSUME NEW v \in Values, Put(b, k, v) PROVE KV!Write(b, "Put", k, KV!Entry(v, 0))
    <2> DEFINE r == NormalRecord(k, v, 0)
    <2>1. r \in LogRecords /\ r.key = k
      BY RecordLemma
    <2>2. Pending(r) = KV!Entry(v, 0)
      BY DEF NormalRecord, Pending, EntryOf, KV!Entry
    <2>3. /\ Accepted(b, k, TRUE) /\ Reply("Put", k, OK) /\ UNCHANGED <<db, mu, now>>
          /\ batch' = [batch EXCEPT ![b] = AfterOp(SetPending(@, r), FALSE)]
      BY <1>1 DEF Put
    <2> HIDE DEF r
    <2> QED BY <2>1, <2>2, <2>3, RefinesWrite
  <1>2. ASSUME NEW v \in Values, NEW ttl \in TTLs, PutWithTTL(b, k, v, ttl)
        PROVE  KV!Write(b, "PutWithTTL", k, KV!Entry(v, KV!ExpireAt(now, ttl)))
    <2> DEFINE r == NormalRecord(k, v, ExpireAt(now, ttl))
    <2>0. ExpireAt(now, ttl) \in Int
      BY TTLsAssumption, WrapType DEF RInv, IInv, TypeOK, ExpireAt
    <2>1. r \in LogRecords /\ r.key = k
      BY <2>0, RecordLemma
    <2>2. Pending(r) = KV!Entry(v, KV!ExpireAt(now, ttl))
      BY DEF NormalRecord, Pending, EntryOf, KV!Entry, ExpireAt, KV!ExpireAt, Wrap, KV!Wrap
    <2>3. /\ Accepted(b, k, TRUE) /\ Reply("PutWithTTL", k, OK) /\ UNCHANGED <<db, mu, now>>
          /\ batch' = [batch EXCEPT ![b] = AfterOp(SetPending(@, r), FALSE)]
      BY <1>2 DEF PutWithTTL
    <2> HIDE DEF r
    <2> QED BY <2>1, <2>2, <2>3, RefinesWrite
  <1>3. ASSUME Delete(b, k) PROVE KV!Write(b, "Delete", k, KV!Erased)
    <2> DEFINE r == DeletedRecord(k)
    <2>1. r \in LogRecords /\ r.key = k
      BY RecordLemma
    <2>2. Pending(r) = KV!Erased
      BY DEF DeletedRecord, Pending, KV!Erased
    <2>3. /\ Accepted(b, k, TRUE) /\ Reply("Delete", k, OK) /\ UNCHANGED <<db, mu, now>>
          /\ batch' = [batch EXCEPT ![b] = AfterOp(SetPending(@, r), FALSE)]
      BY <1>3 DEF Delete
    <2> HIDE DEF r
    <2> QED BY <2>1, <2>2, <2>3, RefinesWrite
  <1> QED BY <1>1, <1>2, <1>3

\* What the three reads and the two changes do to the index: a record met in
\* the log that is dead is an expired one, and only that leaves the index.
LEMMA CleanView ==
    ASSUME RInv, NEW b \in Batches, NEW k \in Keys, UNCHANGED <<dataFiles, now>>,
           LET f == Fetch(batch[b], k)
           IN  \/ index' = index
               \/ f.from = "wal" /\ Dead(f.rec) /\ index' = indexDelete(k)
    PROVE  storeBar' = storeBar
  <1> DEFINE f == Fetch(batch[b], k)
  <1>0. IInv
    BY DEF RInv
  <1>1. f.from = "wal" => f.rec.type = "Normal"
    BY <1>0, FetchLemma
  <1>2. f.from = "wal" => f.rec = dataFiles[index[k]]
    BY SeenLemma
  <1> HIDE DEF f
  <1>3. \/ index' = index
        \/ f.from = "wal" /\ Dead(f.rec) /\ index' = indexDelete(k)
    BY DEF f
  <1>4. \/ index' = index
        \/ index' = indexDelete(k) /\ IsExpired(dataFiles[index[k]].expire, now)
    BY <1>1, <1>2, <1>3 DEF Dead
  <1> QED BY <1>0, <1>4, StoreView

\* Get, Exist and TTL.
LEMMA RefinesRead ==
    ASSUME RInv, NEW b \in Batches, NEW k \in Keys
    PROVE  /\ Get(b, k) => KV!Read(b, "Get", k, KV!GetAnswer(b, k))
           /\ Exist(b, k) => KV!Read(b, "Exist", k, <<"exists", KV!Seen(b, k) # KV!Absent>>)
           /\ TTL(b, k) => KV!Read(b, "TTL", k, KV!TTLAnswer(b, k))
  <1> DEFINE f == Fetch(batch[b], k)
  <1>0. IInv
    BY DEF RInv
  <1>1. ASSUME Get(b, k) \/ Exist(b, k) \/ TTL(b, k)
        PROVE  /\ modeBar[b] # "idle" /\ KV!Refusal(b, k, FALSE) = "none"
               /\ UNCHANGED <<storeBar, closed, now, modeBar, overlayBar>>
    <2>1. Accepted(b, k, FALSE)
      BY <1>1 DEF Get, Exist, TTL
    <2>2. batch' = [batch EXCEPT ![b] = AfterOp(@, FALSE)] /\ UNCHANGED <<dataFiles, closed, now>>
      BY <1>1 DEF Get, Exist, TTL
    <2>3. modeBar' = modeBar /\ overlayBar' = overlayBar
      BY <1>0, <2>2, KeepView
    <2>4. index' = index \/ (f.from = "wal" /\ Dead(f.rec) /\ index' = indexDelete(k))
      BY <1>1 DEF Get, Exist, TTL
    <2>5. storeBar' = storeBar
      BY <2>2, <2>4, CleanView
    <2>6. modeBar[b] # "idle" /\ KV!Refusal(b, k, FALSE) = "none"
      BY <1>0, <2>1, AcceptedView
    <2> QED BY <2>2, <2>3, <2>5, <2>6
  <1>2. /\ KV!Seen(b, k) = IF f.from = "none" \/ Dead(f.rec) THEN KV!Absent ELSE EntryOf(f.rec)
        /\ f.from = "pending" => /\ f.rec.type = "Deleted" => f.rec.expire = 0
                                 /\ overlayBar[b][k] = Pending(f.rec)
        /\ f.from # "pending" => overlayBar[b][k] = KV!Untouched
    BY SeenLemma
  <1>3. /\ f.from \in {"pending", "wal", "none"}
        /\ f.rec \in LogRecords
        /\ f.from = "wal" => f.rec.type = "Normal"
    BY <1>0, FetchLemma
  <1>4. EntryOf(f.rec) # KV!Absent
    BY DEF EntryOf, KV!Absent
  <1>5. ASSUME Get(b, k) PROVE KV!Read(b, "Get", k, KV!GetAnswer(b, k))
    <2>1. Reply("Get", k, IF f.from = "wal" /\ f.rec.type = "Deleted" THEN Panic
                          ELSE IF f.from = "none" \/ Dead(f.rec) THEN Err("ErrKeyNotFound")
                          ELSE Value(f.rec.value))
      BY <1>5 DEF Get
    <2> HIDE DEF f
    <2>2. EntryOf(f.rec).value = f.rec.value
      BY DEF EntryOf
    <2>3. Reply("Get", k, KV!GetAnswer(b, k))
      BY <1>2, <1>3, <1>4, <2>1, <2>2 DEF KV!GetAnswer, KV!Error, Err, Value
    <2> QED BY <1>1, <1>5, <2>3 DEF KV!Read, KV!Answer, Reply
  <1>6. ASSUME Exist(b, k)
        PROVE  KV!Read(b, "Exist", k, <<"exists", KV!Seen(b, k) # KV!Absent>>)
    <2>1. Reply("Exist", k, Exists(f.from # "none" /\ ~Dead(f.rec)))
      BY <1>6 DEF Exist
    <2> HIDE DEF f
    <2>2. (f.from # "none" /\ ~Dead(f.rec)) = (KV!Seen(b, k) # KV!Absent)
      BY <1>2, <1>4
    <2>3. Reply("Exist", k, <<"exists", KV!Seen(b, k) # KV!Absent>>)
      BY <2>1, <2>2 DEF Exists
    <2> QED BY <1>1, <1>6, <2>3 DEF KV!Read, KV!Answer, Reply
  <1>7. ASSUME TTL(b, k) PROVE KV!Read(b, "TTL", k, KV!TTLAnswer(b, k))
    <2>1. Reply("TTL", k, IF f.from = "pending" /\ f.rec.expire = 0 THEN NoTTL
                          ELSE IF f.from = "none" \/ Dead(f.rec) THEN Err("ErrKeyNotFound")
                          ELSE IF f.from = "wal" /\ f.rec.expire <= 0 THEN NoTTL
                          ELSE TTLIs(Wrap(f.rec.expire - now)))
      BY <1>7 DEF TTL
    <2> HIDE DEF f
    <2>2. EntryOf(f.rec).expire = f.rec.expire /\ EntryOf(f.rec) # KV!Erased
          /\ EntryOf(f.rec) # KV!Untouched /\ KV!Untouched # KV!Erased
      BY DEF EntryOf, KV!Erased, KV!Untouched
    <2>3. f.rec.expire \in Int /\ f.rec.type \in {"Normal", "Deleted"}
      BY <1>3 DEF LogRecords
    <2>4. KV!TTLAnswer(b, k) = IF f.from = "pending" /\ f.rec.expire = 0 THEN NoTTL
                          ELSE IF f.from = "none" \/ Dead(f.rec) THEN Err("ErrKeyNotFound")
                          ELSE IF f.from = "wal" /\ f.rec.expire <= 0 THEN NoTTL
                          ELSE TTLIs(Wrap(f.rec.expire - now))
      <3>1. KV!Wrap(f.rec.expire - now) = Wrap(f.rec.expire - now)
        BY DEF KV!Wrap, Wrap
      <3>2. CASE f.from = "pending" /\ f.rec.type = "Deleted"
        BY <1>2, <3>2 DEF KV!TTLAnswer, NoTTL, Pending, KV!Erased
      <3>3. CASE f.from = "pending" /\ f.rec.type # "Deleted"
        <4>1. overlayBar[b][k] = EntryOf(f.rec)
          BY <1>2, <3>3 DEF Pending
        <4> HIDE DEF RInv
        <4>2. ~IsExpired(0, now)
          BY DEF IsExpired
        <4>3. CASE Dead(f.rec)
          BY <1>2, <2>2, <3>3, <4>1, <4>2, <4>3 DEF KV!TTLAnswer, Err, KV!Error, Dead
        <4>4. CASE ~Dead(f.rec)
          BY <1>2, <1>4, <2>2, <3>1, <3>3, <4>1, <4>4 DEF KV!TTLAnswer, TTLIs, NoTTL
        <4> QED BY <4>3, <4>4
      <3>4. CASE f.from = "wal"
        BY <1>2, <1>4, <2>2, <2>3, <3>1, <3>4 DEF KV!TTLAnswer, TTLIs, NoTTL, Err, KV!Error
      <3>5. CASE f.from = "none"
        BY <1>2, <2>2, <3>5 DEF KV!TTLAnswer, Err, KV!Error
      <3> QED BY <1>3, <3>2, <3>3, <3>4, <3>5
    <2> QED BY <1>1, <1>7, <2>1, <2>4 DEF KV!Read, KV!Answer, Reply
  <1> QED BY <1>5, <1>6, <1>7

\* Expire and Persist.
LEMMA RefinesChange ==
    ASSUME RInv, NEW b \in Batches, NEW k \in Keys
    PROVE  /\ \A ttl \in TTLs : Expire(b, k, ttl) => KV!Change(b, "Expire", k, KV!ExpireAt(now, ttl))
           /\ Persist(b, k) => KV!Change(b, "Persist", k, 0) \/ KV!PersistNothing(b, k)
  <1> DEFINE f == Fetch(batch[b], k)
             ok == f.from # "none" /\ ~Dead(f.rec)
  <1>0. IInv
    BY DEF RInv
  <1>1. /\ KV!Seen(b, k) = IF f.from = "none" \/ Dead(f.rec) THEN KV!Absent ELSE EntryOf(f.rec)
        /\ f.from # "pending" => overlayBar[b][k] = KV!Untouched
    BY SeenLemma
  <1>2. /\ f.from \in {"pending", "wal", "none"}
        /\ f.rec \in LogRecords /\ f.rec.key = k
    BY <1>0, FetchLemma
  <1>3. EntryOf(f.rec) # KV!Absent
    BY DEF EntryOf, KV!Absent
  \* A change that is not made, and one that is.
  <1>4. ASSUME Accepted(b, k, TRUE), UNCHANGED <<dataFiles, closed, now>>,
               index' = IF f.from = "wal" /\ Dead(f.rec) THEN indexDelete(k) ELSE index
        PROVE  /\ modeBar[b] # "idle" /\ KV!Refusal(b, k, TRUE) = "none"
               /\ UNCHANGED <<storeBar, closed, now>>
    <2>1. storeBar' = storeBar
      BY <1>4, CleanView
    <2>2. modeBar[b] # "idle" /\ KV!Refusal(b, k, TRUE) = "none"
      BY <1>0, <1>4, AcceptedView
    <2> QED BY <1>4, <2>1, <2>2
  <1>5. ASSUME NEW e \in Int, NEW w \in BOOLEAN, NEW failed \in BOOLEAN, w => ok,
               batch' = [batch EXCEPT ![b] =
                           AfterOp(IF w THEN SetPending(@, [f.rec EXCEPT !.expire = e]) ELSE @, failed)]
        PROVE  /\ modeBar' = modeBar
               /\ overlayBar' = IF w THEN [overlayBar EXCEPT ![b][k] = KV!Entry(f.rec.value, e)]
                                ELSE overlayBar
    <2>1. CASE w
      <3> DEFINE r == [f.rec EXCEPT !.expire = e]
      <3> HIDE DEF f
      <3>1. r \in LogRecords /\ r.key = k /\ r.type = f.rec.type /\ r.value = f.rec.value
            /\ r.expire = e
        BY <1>2 DEF LogRecords
      <3>2. f.rec.type # "Deleted"
        BY <1>5, <2>1 DEF Dead
      <3>3. Pending(r) = KV!Entry(f.rec.value, e)
        BY <3>1, <3>2 DEF Pending, EntryOf, KV!Entry
      <3>4. batch' = [batch EXCEPT ![b] = AfterOp(SetPending(@, r), failed)]
        BY <1>5, <2>1
      <3> HIDE DEF r
      <3>5. modeBar' = modeBar /\ overlayBar' = [overlayBar EXCEPT ![b][r.key] = Pending(r)]
        BY <1>0, <3>1, <3>4, WriteView
      <3> QED BY <2>1, <3>1, <3>3, <3>5
    <2>2. CASE ~w
      <3>1. batch' = [batch EXCEPT ![b] = AfterOp(@, failed)]
        BY <1>5, <2>2
      <3> QED BY <1>0, <2>2, <3>1, KeepView
    <2> QED BY <2>1, <2>2
  <1>6. ASSUME NEW ttl \in TTLs, Expire(b, k, ttl)
        PROVE  KV!Change(b, "Expire", k, KV!ExpireAt(now, ttl))
    <2>0. ExpireAt(now, ttl) \in Int /\ KV!ExpireAt(now, ttl) = ExpireAt(now, ttl)
      BY <1>0, TTLsAssumption, WrapType DEF IInv, TypeOK, ExpireAt, KV!ExpireAt, KV!Wrap, Wrap
    <2>1. /\ modeBar[b] # "idle" /\ KV!Refusal(b, k, TRUE) = "none"
          /\ UNCHANGED <<storeBar, closed, now>>
      BY <1>4, <1>6 DEF Expire
    <2>2. /\ modeBar' = modeBar
          /\ overlayBar' = IF ok THEN [overlayBar EXCEPT ![b][k] = KV!Entry(f.rec.value, ExpireAt(now, ttl))]
                           ELSE overlayBar
      <3>1. batch' = [batch EXCEPT ![b] =
               AfterOp(IF ok THEN SetPending(@, [f.rec EXCEPT !.expire = ExpireAt(now, ttl)]) ELSE @, ~ok)]
        BY <1>6 DEF Expire
      <3>2. ok \in BOOLEAN /\ (~ok) \in BOOLEAN
        OBVIOUS
      <3> HIDE DEF ok, f
      <3> QED BY <1>5, <2>0, <3>1, <3>2
    <2>3. Reply("Expire", k, IF ok THEN OK ELSE Err("ErrKeyNotFound"))
      BY <1>6 DEF Expire
    <2> HIDE DEF f
    <2>4. EntryOf(f.rec).value = f.rec.value
      BY DEF EntryOf
    <2> QED BY <1>1, <1>3, <2>0, <2>1, <2>2, <2>3, <2>4
            DEF KV!Change, KV!Answer, KV!Error, Reply, OK, Err
  <1>7. ASSUME Persist(b, k) PROVE KV!Change(b, "Persist", k, 0) \/ KV!PersistNothing(b, k)
    <2> DEFINE rewrite == ok /\ (f.from = "pending" \/ f.rec.expire # 0)
    <2>1. /\ modeBar[b] # "idle" /\ KV!Refusal(b, k, TRUE) = "none"
          /\ UNCHANGED <<storeBar, closed, now>>
      BY <1>4, <1>7 DEF Persist
    <2>2. /\ modeBar' = modeBar
          /\ overlayBar' = IF rewrite THEN [overlayBar EXCEPT ![b][k] = KV!Entry(f.rec.value, 0)]
                           ELSE overlayBar
      <3>1. batch' = [batch EXCEPT ![b] =
               AfterOp(IF rewrite THEN SetPending(@, [f.rec EXCEPT !.expire = 0]) ELSE @, ~ok)]
        BY <1>7 DEF Persist
      <3>2. rewrite \in BOOLEAN /\ (~ok) \in BOOLEAN /\ (rewrite => ok)
        OBVIOUS
      <3>3. 0 \in Int
        OBVIOUS
      <3> HIDE DEF ok, rewrite, f
      <3> QED BY ONLY <1>5, <3>1, <3>2, <3>3, Zenon
    <2>3. Reply("Persist", k, IF ok THEN OK ELSE Err("ErrKeyNotFound"))
      BY <1>7 DEF Persist
    <2>4. EntryOf(f.rec).value = f.rec.value /\ EntryOf(f.rec).expire = f.rec.expire
      BY DEF EntryOf
    <2>5. f.from # "pending" => KV!Seen(b, k) = storeBar[k]
      BY <1>1 DEF KV!Seen, KV!Untouched, KV!Erased
    <2> HIDE DEF f
    <2>6. CASE rewrite \/ ~ok
      BY <1>1, <1>3, <2>1, <2>2, <2>3, <2>4, <2>6
         DEF KV!Change, KV!Answer, KV!Error, Reply, OK, Err
    <2>7. CASE ok /\ ~rewrite
      BY <1>1, <1>3, <2>1, <2>2, <2>3, <2>4, <2>5, <2>7
         DEF KV!PersistNothing, KV!Answer, Reply, OK
    <2> QED BY <2>6, <2>7
  <1> QED BY <1>6, <1>7

\* NewBatch and the one-shot calls: db.mu keeps out what Begin excludes.
LEMMA RefinesBegin ==
    ASSUME RInv, NEW b \in Batches, NEW ro \in BOOLEAN, NEW s \in BOOLEAN,
           NEW n \in {"any", "op"}, Begin(b, ro, s, n)
    PROVE  KV!Begin(b, IF ro THEN "ro" ELSE "rw")
  <1> DEFINE m == IF ro THEN "ro" ELSE "rw"
             nb == Fresh(ro, s, n)
  <1>0. IInv /\ ~batch[b].active /\ batch[b].pendingWrites = <<>> /\ BatchOK(batch[b])
    BY DEF RInv, IInv, Tidy, Begin
  <1>1. BatchOK(nb) /\ nb.active /\ nb.ro = ro
    BY FreshLemma
  <1>2. nb.pendingWrites = <<>>
    BY DEF Fresh, NoBatch
  <1>3. batch' = [batch EXCEPT ![b] = nb] /\ UNCHANGED <<db, now, resp>>
        /\ ~wlocked /\ (~ro => rcount = 0)
    BY DEF Begin, Lock
  <1> HIDE DEF nb
  <1>4. \A c \in Batches : batch'[c] = IF c = b THEN nb ELSE batch[c]
    BY <1>0, <1>3 DEF IInv, TypeOK
  <1>5. modeBar' = [modeBar EXCEPT ![b] = m]
    BY <1>1, <1>4 DEF modeBar, ModeOf
  <1>6. \A k \in Keys : Overlay(nb, k) = Overlay(batch[b], k)
    <2> SUFFICES ASSUME NEW k \in Keys PROVE Overlay(nb, k) = Overlay(batch[b], k)
      OBVIOUS
    <2>1. Overlay(nb, k) = [kind |-> "untouched"]
      BY <1>1, <1>2, EmptySeq, OverlayLemma
    <2>2. Overlay(batch[b], k) = [kind |-> "untouched"]
      BY <1>0, EmptySeq, OverlayLemma
    <2> QED BY <2>1, <2>2
  <1>7. overlayBar' = overlayBar
    <2>1. overlayBar' = [c \in Batches |-> [k \in Keys |-> Overlay(batch'[c], k)]]
      BY DEF overlayBar, Overlay, lookupPendingWrites
    <2>2. \A c \in Batches : [k \in Keys |-> Overlay(batch'[c], k)]
                               = [k \in Keys |-> Overlay(batch[c], k)]
      BY <1>4, <1>6
    <2> QED BY <2>1, <2>2 DEF overlayBar
  <1>8. storeBar' = storeBar /\ UNCHANGED <<closed, now, resp>>
    BY <1>3 DEF db, storeBar, Stored, EntryOf
  <1>9. ASSUME NEW c \in Batches PROVE modeBar[c] # "rw" /\ (m = "rw" => modeBar[c] = "idle")
    <2>1. Writers = {} /\ (~ro => Readers = {})
      BY <1>0, <1>3, ReadersFinite DEF IInv, LockInv
    <2>2. c \notin Writers /\ (~ro => c \notin Readers)
      BY <2>1
    <2> QED BY <2>2 DEF modeBar, ModeOf, Writers, Readers
  <1>10. modeBar[b] = "idle"
    BY <1>0 DEF modeBar, ModeOf
  <1> QED BY <1>5, <1>7, <1>8, <1>9, <1>10 DEF KV!Begin

\* The end of a batch.
LEMMA EndView ==
    ASSUME RInv, NEW b \in Batches, batch' = [batch EXCEPT ![b] = NoBatch]
    PROVE  /\ modeBar' = [modeBar EXCEPT ![b] = "idle"]
           /\ overlayBar' = [overlayBar EXCEPT ![b] = KV!Clean]
  <1>1. \A c \in Batches : batch'[c] = IF c = b THEN NoBatch ELSE batch[c]
    BY DEF RInv, IInv, TypeOK
  <1>2. modeBar' = [modeBar EXCEPT ![b] = "idle"]
    BY <1>1, NoBatchLemma DEF modeBar, ModeOf
  <1>3. [k \in Keys |-> Overlay(NoBatch, k)] = KV!Clean
    <2>1. NoBatch.pendingWrites = <<>>
      BY DEF NoBatch
    <2>2. \A k \in Keys : Overlay(NoBatch, k) = [kind |-> "untouched"]
      BY <2>1, NoBatchLemma, EmptySeq, OverlayLemma
    <2> QED BY <2>2 DEF KV!Clean, KV!Untouched
  <1>4. overlayBar' = [c \in Batches |-> [k \in Keys |-> Overlay(batch'[c], k)]]
    BY DEF overlayBar, Overlay, lookupPendingWrites
  <1>5. \A c \in Batches : overlayBar'[c] = IF c = b THEN KV!Clean ELSE overlayBar[c]
    BY <1>1, <1>3, <1>4 DEF overlayBar
  <1>6. overlayBar' = [c \in Batches |-> overlayBar'[c]]
    BY <1>4
  <1>7. overlayBar = [c \in Batches |-> overlayBar[c]]
    BY DEF overlayBar
  <1>8. overlayBar' = [overlayBar EXCEPT ![b] = KV!Clean]
    BY <1>5, <1>6, <1>7
  <1> QED BY <1>2, <1>8

LEMMA RefinesRollback ==
    ASSUME RInv, NEW b \in Batches, Rollback(b)
    PROVE  KV!Rollback(b)
  <1>1. modeBar[b] # "idle"
    BY DEF Rollback, modeBar, ModeOf
  <1>2. /\ modeBar' = [modeBar EXCEPT ![b] = "idle"]
        /\ overlayBar' = [overlayBar EXCEPT ![b] = KV!Clean]
    BY EndView DEF Rollback
  <1>3. storeBar' = storeBar /\ UNCHANGED <<closed, now>>
    BY DEF Rollback, db, storeBar, Stored, EntryOf
  <1>4. RollbackAnswer(batch[b]) = IF closed THEN Err("ErrDBClosed") ELSE OK
    BY DEF RInv, Tidy, RollbackAnswer
  <1> QED BY <1>1, <1>2, <1>3, <1>4 DEF Rollback, KV!Rollback, KV!Answer, KV!Error, Reply, Err, OK

\* Commit: everything the batch wrote and is alive, or nothing.
LEMMA RefinesCommit ==
    ASSUME RInv, NEW b \in Batches, NEW o \in Outcomes, Commit(b, o)
    PROVE  \E applied \in BOOLEAN,
              a \in {<<"ok">>, KV!Error("ErrDBClosed"), KV!Error("ErrWrite"), KV!Error("ErrSync")} :
              KV!Commit(b, applied, a)
  <1> DEFINE bt == batch[b]
             pw == bt.pendingWrites
             base == Len(dataFiles)
             new == dataFiles \o CommitRecords(bt)
  <1>0. IInv /\ BatchOK(bt) /\ Tidy(bt) /\ pw \in Seq(LogRecords) /\ base \in Nat
    BY LenProperties DEF RInv, IInv, TypeOK, BatchOK, BatchStates
  <1>1. modeBar[b] # "idle"
    BY DEF Commit, modeBar, ModeOf
  <1>2. /\ modeBar' = [modeBar EXCEPT ![b] = "idle"]
        /\ overlayBar' = [overlayBar EXCEPT ![b] = KV!Clean]
        /\ UNCHANGED <<closed, now>>
    BY EndView DEF Commit
  <1>3. /\ Len(new) = base + Len(pw) + 1
        /\ \A i \in 1..base : new[i] = dataFiles[i]
        /\ \A i \in 1..Len(pw) : new[base + i] = [pw[i] EXCEPT !.batchId = now]
    BY <1>0, CommitRecordsLemma
  <1>4. /\ (o = "refused") <=> (CommitRefusal(bt) # "none")
        /\ dataFiles' = IF o \in {"ok", "ErrSync"} THEN new ELSE dataFiles
        /\ index' = IF o = "ok" THEN CommitIndex(bt, base) ELSE index
        /\ Reply("Commit", EmptyKey,
             CASE o = "ok" -> OK
               [] o = "refused" ->
                    IF CommitRefusal(bt) = "nothing" THEN OK ELSE Err(CommitRefusal(bt))
               [] OTHER -> Err(o))
    BY DEF Commit, CommitOutcome
  <1> HIDE DEF new, bt
  \* A record that stays where it is shows as it did.
  <1>5. ASSUME NEW k \in Keys, index'[k] = index[k]
        PROVE  Stored(k)' = Stored(k)
    <2>1. index[k] # 0 => dataFiles'[index[k]] = dataFiles[index[k]]
      BY <1>0, <1>3, <1>4 DEF IInv, IndexSound
    <2> QED BY <1>2, <1>5, <2>1 DEF Stored, EntryOf
  <1>6. CASE o # "ok"
    <2>1. storeBar' = storeBar
      BY <1>4, <1>5, <1>6 DEF storeBar
    <2>2. CASE o = "refused" /\ CommitRefusal(bt) = "nothing"
      <3>1. pw = <<>>
        BY <1>0, <2>2 DEF CommitRefusal, Tidy
      <3>2. \A k \in Keys : Overlay(bt, k) = [kind |-> "untouched"]
        BY <1>0, <3>1, EmptySeq, OverlayLemma
      <3>3. overlayBar[b] = KV!Clean
        BY <3>2 DEF overlayBar, KV!Clean, KV!Untouched, bt
      <3>4. Reply("Commit", EmptyKey, OK)
        BY <1>4, <2>2
      <3>5. KV!Commit(b, FALSE, <<"ok">>)
        BY <1>1, <1>2, <2>1, <3>3, <3>4 DEF KV!Commit, KV!Answer, Reply, OK
      <3> QED BY <3>5
    <2>3. CASE o = "refused" /\ CommitRefusal(bt) # "nothing"
      <3>1. CommitRefusal(bt) = "ErrDBClosed"
        BY <1>0, <1>4, <2>3 DEF CommitRefusal, Tidy
      <3>2. Reply("Commit", EmptyKey, KV!Error("ErrDBClosed"))
        BY <1>4, <2>3, <3>1 DEF Err, KV!Error
      <3>3. KV!Commit(b, FALSE, KV!Error("ErrDBClosed"))
        BY <1>1, <1>2, <2>1, <3>2 DEF KV!Commit, KV!Answer, Reply, KV!Error
      <3> QED BY <3>3
    <2>4. CASE o \in {"ErrWrite", "ErrSync"}
      <3>1. Reply("Commit", EmptyKey, KV!Error(o))
        BY <1>4, <2>4 DEF Err, KV!Error
      <3>2. KV!Commit(b, FALSE, KV!Error(o))
        BY <1>1, <1>2, <2>1, <2>4, <3>1 DEF KV!Commit, KV!Answer, Reply, KV!Error
      <3> QED BY <2>4, <3>2
    <2> QED BY <1>6, <2>2, <2>3, <2>4 DEF Outcomes
  <1>7. CASE o = "ok"
    <2>1. ~closed
      BY <1>4, <1>7 DEF CommitRefusal
    <2>2. ASSUME NEW k \in Keys PROVE Stored(k)' = KV!Seen(b, k)
      <3> DEFINE i == lookupPendingWrites(bt, k)
      <3>1. /\ i \in Nat
            /\ i # 0 => i \in 1..Len(pw) /\ pw[i].key = k
        BY <1>0, LookupLemma
      <3>2. index'[k] = IF i = 0 THEN index[k] ELSE IF Dead(pw[i]) THEN 0 ELSE base + i
        BY <1>4, <1>7 DEF CommitIndex
      <3>3. Fetch(bt, k) = IF i # 0 THEN [from |-> "pending", rec |-> pw[i]]
                           ELSE IF index[k] # 0 THEN [from |-> "wal", rec |-> dataFiles[index[k]]]
                           ELSE [from |-> "none", rec |-> DeletedRecord(k)]
        BY DEF Fetch
      <3>4. LET f == Fetch(bt, k)
            IN  /\ KV!Seen(b, k) = IF f.from = "none" \/ Dead(f.rec) THEN KV!Absent
                                   ELSE EntryOf(f.rec)
                /\ f.from # "pending" => overlayBar[b][k] = KV!Untouched
        BY SeenLemma DEF bt
      <3> HIDE DEF i
      <3>5. CASE i = 0
        <4>1. overlayBar[b][k] = KV!Untouched
          BY <3>3, <3>4, <3>5
        <4>2. KV!Seen(b, k) = Stored(k)
          BY <4>1 DEF KV!Seen, KV!Untouched, KV!Erased, storeBar
        <4> QED BY <1>5, <3>2, <3>5, <4>2
      <3>6. CASE i # 0 /\ Dead(pw[i])
        <4>1. KV!Seen(b, k) = KV!Absent
          BY <3>3, <3>4, <3>6
        <4> QED BY <3>2, <3>6, <4>1 DEF Stored, KV!Absent
      <3>7. CASE i # 0 /\ ~Dead(pw[i])
        <4>1. KV!Seen(b, k) = EntryOf(pw[i])
          BY <3>3, <3>4, <3>7
        <4>2. pw[i] \in LogRecords
          BY <1>0, <3>1, <3>7, ElementOfSeq
        <4>3. index'[k] = base + i /\ base + i # 0
              /\ dataFiles'[base + i] = [pw[i] EXCEPT !.batchId = now]
          BY <1>0, <1>3, <1>4, <1>7, <3>1, <3>2, <3>7
        <4>4. dataFiles'[index'[k]].expire = pw[i].expire /\ dataFiles'[index'[k]].value = pw[i].value
          BY <4>2, <4>3 DEF LogRecords
        <4>5. ~IsExpired(pw[i].expire, now)
          BY <3>7 DEF Dead
        <4>6. ~IsExpired(dataFiles'[index'[k]].expire, now')
          BY <1>2, <4>4, <4>5
        <4>7. Stored(k)' = EntryOf(dataFiles[index[k]])'
          BY <4>3, <4>6 DEF Stored, IsExpired
        <4> QED BY <4>1, <4>4, <4>7 DEF EntryOf
      <3> QED BY <3>5, <3>6, <3>7
    <2>3. storeBar' = [k \in Keys |-> KV!Seen(b, k)]
      BY <2>2 DEF storeBar
    <2>4. Reply("Commit", EmptyKey, OK)
      BY <1>4, <1>7
    <2>5. KV!Commit(b, TRUE, <<"ok">>)
      BY <1>1, <1>2, <2>1, <2>3, <2>4 DEF KV!Commit, KV!Answer, Reply, OK
    <2> QED BY <2>5
  <1> QED BY <1>6, <1>7

\* Sync and Close wait for every batch; time passing hides what expires.
LEMMA RefinesOther ==
    ASSUME RInv
    PROVE  (Sync => KV!Sync) /\ (Close => KV!Close) /\ (Tick => KV!Tick)
  <1>0. IInv
    BY DEF RInv
  <1>1. ASSUME UNCHANGED batch PROVE modeBar' = modeBar /\ overlayBar' = overlayBar
    BY <1>1 DEF modeBar, overlayBar, Overlay, ModeOf, lookupPendingWrites, Pending, EntryOf
  <1>2. ASSUME UNCHANGED <<dataFiles, index, now>> PROVE storeBar' = storeBar
    BY <1>2 DEF storeBar, Stored, EntryOf
  <1>3. ASSUME ~wlocked, rcount = 0 PROVE KV!Exclusive
    <2>1. Writers = {} /\ Readers = {}
      BY <1>0, <1>3, ReadersFinite DEF IInv, LockInv
    <2>2. \A c \in Batches : c \notin Writers /\ c \notin Readers
      BY <2>1
    <2> QED BY <2>2 DEF KV!Exclusive, modeBar, ModeOf, Writers, Readers
  <1>4. Sync => KV!Sync
    BY <1>1, <1>2, <1>3 DEF Sync, KV!Sync, KV!Answer, KV!Error, Reply, Err, OK
  <1>5. Close => KV!Close
    BY <1>1, <1>2, <1>3 DEF Close, KV!Close, KV!Answer, KV!Error, Reply, Err, OK
  <1>6. ASSUME Tick PROVE KV!Tick
    <2>1. UNCHANGED <<dataFiles, index, closed, batch, resp>> /\ now' = now + 1
      BY <1>6 DEF Tick, db
    <2>2. ASSUME NEW k \in Keys
          PROVE  Stored(k)' = IF /\ storeBar[k] # KV!Absent
                                 /\ KV!IsExpired(storeBar[k].expire, now')
                              THEN KV!Absent ELSE storeBar[k]
      <3> DEFINE e == dataFiles[index[k]].expire
      <3>1. storeBar[k] = Stored(k)
        BY DEF storeBar
      <3>2. EntryOf(dataFiles[index[k]]).expire = e /\ EntryOf(dataFiles[index[k]]) # KV!Absent
        BY DEF EntryOf, KV!Absent
      <3>3. index[k] # 0 => e \in Int
        BY <1>0, ElementOfSeq DEF IInv, TypeOK, IndexSound, LogRecords, EndRecords
      <3>4. now \in Nat
        BY <1>0 DEF IInv, TypeOK
      <3>5. Stored(k)' = IF index[k] = 0 \/ IsExpired(e, now') THEN [kind |-> "absent"]
                         ELSE EntryOf(dataFiles[index[k]])
        BY <2>1 DEF Stored, EntryOf, IsExpired
      <3> HIDE DEF e
      <3>6. CASE index[k] = 0
        BY <3>1, <3>5, <3>6 DEF Stored, KV!Absent
      <3>7. CASE index[k] # 0 /\ IsExpired(e, now)
        <4>1. IsExpired(e, now')
          BY <2>1, <3>3, <3>4, <3>7 DEF IsExpired
        <4> QED BY <3>1, <3>5, <3>7, <4>1 DEF Stored, KV!Absent, e
      <3>8. CASE index[k] # 0 /\ ~IsExpired(e, now)
        <4>1. storeBar[k] = EntryOf(dataFiles[index[k]])
          BY <3>1, <3>8 DEF Stored, e
        <4>2. KV!IsExpired(storeBar[k].expire, now') <=> IsExpired(e, now')
          BY <3>2, <4>1 DEF KV!IsExpired, IsExpired
        <4> QED BY <3>2, <3>5, <3>8, <4>1, <4>2 DEF KV!Absent
      <3> QED BY <3>6, <3>7, <3>8
    <2>3. storeBar' = [k \in Keys |-> IF /\ storeBar[k] # KV!Absent
                                         /\ KV!IsExpired(storeBar[k].expire, now')
                                      THEN KV!Absent ELSE storeBar[k]]
      BY <2>2 DEF storeBar
    <2> QED BY <1>1, <2>1, <2>3 DEF KV!Tick
  <1> QED BY <1>4, <1>5, <1>6
-----------------------------------------------------------------------------
LEMMA TidyWrite ==
    ASSUME NEW bt, BatchOK(bt), Tidy(bt), bt.active, ~bt.ro, NEW r \in LogRecords,
           r.type = "Deleted" => r.expire = 0
    PROVE  Tidy(SetPending(bt, r))
  <1> DEFINE nb == SetPending(bt, r)
  <1>1. nb.active = bt.active /\ nb.ro = bt.ro
    BY SetPendingLemma
  <1>2. /\ \A i \in 1..Len(nb.pendingWrites) :
              \/ nb.pendingWrites[i] = r
              \/ i \in 1..Len(bt.pendingWrites) /\ nb.pendingWrites[i] = bt.pendingWrites[i]
        /\ nb.committed = bt.committed /\ nb.rollbacked = bt.rollbacked
    BY SetPendingWrites
  <1> HIDE DEF nb
  <1>3. Tidy(nb)
    BY <1>1, <1>2 DEF Tidy
  <1> QED BY <1>3 DEF nb

LEMMA TidyAfterOp ==
    ASSUME NEW bt, BatchOK(bt), Tidy(bt), NEW f \in BOOLEAN
    PROVE  Tidy(AfterOp(bt, f))
  <1>1. /\ AfterOp(bt, f).active = bt.active
        /\ AfterOp(bt, f).ro = bt.ro
        /\ AfterOp(bt, f).pendingWrites = bt.pendingWrites
    BY AfterOpLemma
  <1>2. AfterOp(bt, f).committed = bt.committed /\ AfterOp(bt, f).rollbacked = bt.rollbacked
    BY DEF AfterOp, BatchOK, BatchStates
  <1> QED BY <1>1, <1>2 DEF Tidy

LEMMA TidyFresh ==
    ASSUME NEW ro \in BOOLEAN, NEW s \in BOOLEAN, NEW n \in {"any", "op"}
    PROVE  Tidy(NoBatch) /\ Tidy(Fresh(ro, s, n))
  <1>1. Tidy(NoBatch)
    BY EmptySeq DEF Tidy, NoBatch
  <1>2. /\ Fresh(ro, s, n).pendingWrites = <<>>
        /\ ~Fresh(ro, s, n).committed /\ ~Fresh(ro, s, n).rollbacked
    BY DEF Fresh, NoBatch
  <1>3. Tidy(Fresh(ro, s, n))
    BY <1>2, EmptySeq DEF Tidy
  <1> QED BY <1>1, <1>3

\* A batch that is written to is active and not read-only.
LEMMA TidyBatch ==
    ASSUME RInv, NEW b \in Batches, NEW nb, Tidy(nb), batch' = [batch EXCEPT ![b] = nb]
    PROVE  \A c \in Batches : Tidy(batch'[c])
  BY DEF RInv, IInv, TypeOK

LEMMA TidyChange ==
    ASSUME RInv, NEW b \in Batches, NEW r \in LogRecords, NEW w \in BOOLEAN, NEW f \in BOOLEAN,
           r.type = "Deleted" => r.expire = 0, w => batch[b].active /\ ~batch[b].ro,
           batch' = [batch EXCEPT ![b] = AfterOp(IF w THEN SetPending(@, r) ELSE @, f)]
    PROVE  \A c \in Batches : Tidy(batch'[c])
  <1> DEFINE bt == batch[b]
             sp == IF w THEN SetPending(bt, r) ELSE bt
             nb == AfterOp(sp, f)
  <1>1. BatchOK(bt) /\ Tidy(bt)
    BY DEF RInv, IInv
  <1>2. BatchOK(sp) /\ Tidy(sp)
    <2>1. CASE w
      BY <1>1, <2>1, SetPendingLemma, TidyWrite
    <2>2. CASE ~w
      BY <1>1, <2>2
    <2> QED BY <2>1, <2>2
  <1>3. batch' = [batch EXCEPT ![b] = nb]
    BY DEF RInv, IInv, TypeOK
  <1> HIDE DEF sp
  <1>4. Tidy(nb)
    BY <1>2, TidyAfterOp
  <1> HIDE DEF nb
  <1> QED BY <1>3, <1>4, TidyBatch

LEMMA NextTidy == RInv /\ [Next]_vars => RInv'
  <1> SUFFICES ASSUME RInv, [Next]_vars PROVE RInv'
    OBVIOUS
  <1>0. IInv'
    BY NextIInv DEF RInv
  <1> SUFFICES \A c \in Batches : Tidy(batch'[c])
    BY <1>0 DEF RInv, Tidy
  <1>1. ASSUME NEW b \in Batches, NEW k \in Keys, Accepted(b, k, TRUE)
        PROVE  batch[b].active /\ ~batch[b].ro
    BY <1>1, KeysAssumption DEF Accepted, Calling, Refusal
  <1>2. ASSUME NEW b \in Batches, NEW f \in BOOLEAN,
               batch' = [batch EXCEPT ![b] = AfterOp(@, f)]
        PROVE  \A c \in Batches : Tidy(batch'[c])
    <2> DEFINE nb == AfterOp(batch[b], f)
    <2>1. Tidy(nb)
      BY TidyAfterOp DEF RInv, IInv
    <2>2. batch' = [batch EXCEPT ![b] = nb]
      BY <1>2 DEF RInv, IInv, TypeOK
    <2> HIDE DEF nb
    <2> QED BY <2>1, <2>2, TidyBatch
  <1>3. ASSUME NEW b \in Batches, NEW k \in AllKeys, NEW write \in BOOLEAN, Refused(b, k, write)
        PROVE  \A c \in Batches : Tidy(batch'[c])
    BY <1>2, <1>3 DEF Refused
  <1>4. ASSUME NEW b \in Batches, NEW k \in Keys, Get(b, k) \/ Exist(b, k) \/ TTL(b, k)
        PROVE  \A c \in Batches : Tidy(batch'[c])
    BY <1>2, <1>4 DEF Get, Exist, TTL
  <1>5. ASSUME NEW b \in Batches, NEW k \in Keys,
               \/ \E v \in Values : Put(b, k, v)
               \/ \E v \in Values, ttl \in TTLs : PutWithTTL(b, k, v, ttl)
               \/ Delete(b, k)
        PROVE  \A c \in Batches : Tidy(batch'[c])
    <2>1. Accepted(b, k, TRUE)
      BY <1>5 DEF Put, PutWithTTL, Delete
    <2>2. PICK r \in LogRecords :
             /\ r.type = "Deleted" => r.expire = 0
             /\ batch' = [batch EXCEPT ![b] = AfterOp(SetPending(@, r), FALSE)]
      <3>1. ASSUME NEW v \in Values, NEW e \in Int
            PROVE  NormalRecord(k, v, e) \in LogRecords /\ NormalRecord(k, v, e).type = "Normal"
        BY RecordLemma DEF NormalRecord
      <3>2. DeletedRecord(k) \in LogRecords /\ DeletedRecord(k).expire = 0
        BY RecordLemma DEF DeletedRecord
      <3>3. \A ttl \in TTLs : ExpireAt(now, ttl) \in Int
        BY TTLsAssumption, WrapType DEF RInv, IInv, TypeOK, ExpireAt
      <3>4. CASE \E v \in Values : Put(b, k, v)
        <4>1. PICK v \in Values : Put(b, k, v)
          BY <3>4
        <4>2. NormalRecord(k, v, 0) \in LogRecords /\ NormalRecord(k, v, 0).type = "Normal"
          BY <3>1
        <4> QED BY <4>1, <4>2 DEF Put
      <3>5. CASE \E v \in Values, ttl \in TTLs : PutWithTTL(b, k, v, ttl)
        BY <3>1, <3>3, <3>5 DEF PutWithTTL
      <3>6. CASE Delete(b, k)
        BY <3>2, <3>6 DEF Delete
      <3> QED BY <1>5, <3>4, <3>5, <3>6
    <2>3. batch' = [batch EXCEPT ![b] = AfterOp(IF TRUE THEN SetPending(@, r) ELSE @, FALSE)]
      BY <2>2
    <2> QED BY <1>1, <2>1, <2>2, <2>3, TidyChange
  <1>6. ASSUME NEW b \in Batches, NEW k \in Keys,
               (\E ttl \in TTLs : Expire(b, k, ttl)) \/ Persist(b, k)
        PROVE  \A c \in Batches : Tidy(batch'[c])
    <2> DEFINE f == Fetch(batch[b], k)
               ok == f.from # "none" /\ ~Dead(f.rec)
    <2>0. f.rec \in LogRecords
      BY FetchLemma DEF RInv
    <2>1. Accepted(b, k, TRUE)
      BY <1>6 DEF Expire, Persist
    <2>2. PICK e \in Int, w \in BOOLEAN, failed \in BOOLEAN :
            /\ w => ok
            /\ batch' = [batch EXCEPT ![b] =
                           AfterOp(IF w THEN SetPending(@, [f.rec EXCEPT !.expire = e]) ELSE @, failed)]
      <3>0. ok \in BOOLEAN /\ (~ok) \in BOOLEAN
        OBVIOUS
      <3>1. CASE \E ttl \in TTLs : Expire(b, k, ttl)
        <4>1. PICK ttl \in TTLs : Expire(b, k, ttl)
          BY <3>1
        <4>2. ExpireAt(now, ttl) \in Int
          BY TTLsAssumption, WrapType DEF RInv, IInv, TypeOK, ExpireAt
        <4>3. batch' = [batch EXCEPT ![b] =
               AfterOp(IF ok THEN SetPending(@, [f.rec EXCEPT !.expire = ExpireAt(now, ttl)]) ELSE @, ~ok)]
          BY <4>1 DEF Expire
        <4> HIDE DEF ok, f
        <4> QED BY <3>0, <4>2, <4>3
      <3>2. CASE Persist(b, k)
        <4> DEFINE rewrite == ok /\ (f.from = "pending" \/ f.rec.expire # 0)
        <4>1. batch' = [batch EXCEPT ![b] =
               AfterOp(IF rewrite THEN SetPending(@, [f.rec EXCEPT !.expire = 0]) ELSE @, ~ok)]
          BY <3>2 DEF Persist
        <4>2. rewrite \in BOOLEAN /\ (rewrite => ok) /\ 0 \in Int
          OBVIOUS
        <4> HIDE DEF rewrite, ok, f
        <4> QED BY <3>0, <4>1, <4>2
      <3> QED BY <1>6, <3>1, <3>2
    <2> DEFINE r == [f.rec EXCEPT !.expire = e]
    <2>3. CASE w
      <3>1. r \in LogRecords /\ r.type # "Deleted"
        <4>1. f.rec.type # "Deleted"
          BY <2>2, <2>3 DEF Dead
        <4> HIDE DEF f
        <4> QED BY <2>0, <4>1 DEF LogRecords
      <3>2. batch' = [batch EXCEPT ![b] = AfterOp(IF w THEN SetPending(@, r) ELSE @, failed)]
        BY <2>2
      <3> HIDE DEF r
      <3> QED BY <1>1, <2>1, <3>1, <3>2, TidyChange
    <2>4. CASE ~w
      BY <1>2, <2>2, <2>4
    <2> QED BY <2>3, <2>4
  <1>7. ASSUME NEW b \in Batches, NEW ro \in BOOLEAN, NEW s \in BOOLEAN, NEW n \in {"any", "op"},
               Begin(b, ro, s, n)
        PROVE  \A c \in Batches : Tidy(batch'[c])
    <2>1. Tidy(Fresh(ro, s, n)) /\ batch' = [batch EXCEPT ![b] = Fresh(ro, s, n)]
      BY <1>7, TidyFresh DEF Begin
    <2> QED BY <2>1, TidyBatch
  <1>8. ASSUME NEW b \in Batches, Rollback(b) \/ \E o \in Outcomes : Commit(b, o)
        PROVE  \A c \in Batches : Tidy(batch'[c])
    <2>1. Tidy(NoBatch) /\ batch' = [batch EXCEPT ![b] = NoBatch]
      BY <1>8, TidyFresh DEF Rollback, Commit
    <2> QED BY <2>1, TidyBatch
  <1>9. CASE Sync \/ Close \/ Tick \/ UNCHANGED vars
    BY <1>9 DEF Sync, Close, Tick, vars, RInv
  <1> QED
    BY <1>3, <1>4, <1>5, <1>6, <1>7, <1>8, <1>9, SyncAssumption
    DEF Next, BatchStep, BatchOp, NewBatch, OneShot

\* Every step of the database is one of the abstract store, or changes nothing
\* a caller can see.
LEMMA NextRefines == RInv /\ [Next]_vars => [KV!Next]_(KV!vars)
  <1> SUFFICES ASSUME RInv, [Next]_vars PROVE [KV!Next]_(KV!vars)
    OBVIOUS
  <1>1. ASSUME NEW b \in Batches, BatchOp(b) PROVE KV!Next
    <2>1. CASE \E k \in AllKeys, write \in BOOLEAN : Refused(b, k, write)
      BY <2>1, RefinesRefused DEF KV!Next, KV!BatchOp, AllKeys
    <2>2. CASE \E k \in Keys : \/ \E v \in Values : Put(b, k, v)
                               \/ \E v \in Values, ttl \in TTLs : PutWithTTL(b, k, v, ttl)
                               \/ Delete(b, k)
      BY <2>2, RefinesPuts DEF KV!Next, KV!BatchOp
    <2>3. CASE \E k \in Keys : (\E ttl \in TTLs : Expire(b, k, ttl)) \/ Persist(b, k)
      BY <2>3, RefinesChange DEF KV!Next, KV!BatchOp
    <2>4. CASE \E k \in Keys : Get(b, k) \/ Exist(b, k) \/ TTL(b, k)
      BY <2>4, RefinesRead DEF KV!Next, KV!BatchOp
    <2> QED BY <1>1, <2>1, <2>2, <2>3, <2>4 DEF BatchOp
  <1>2. ASSUME NEW b \in Batches, BatchStep(b) PROVE KV!Next
    <2>1. CASE \/ \E ro \in BOOLEAN, sync \in SyncOpts : NewBatch(b, ro, sync)
               \/ \E ro \in BOOLEAN : OneShot(b, ro)
      <3>1. PICK ro \in BOOLEAN, s \in BOOLEAN, n \in {"any", "op"} : Begin(b, ro, s, n)
        BY <2>1, SyncAssumption DEF NewBatch, OneShot
      <3>2. KV!Begin(b, IF ro THEN "ro" ELSE "rw")
        BY <3>1, RefinesBegin
      <3> QED BY <3>2 DEF KV!Next
    <2>2. CASE \E o \in Outcomes : Commit(b, o)
      BY <2>2, RefinesCommit DEF KV!Next
    <2>3. CASE Rollback(b)
      BY <2>3, RefinesRollback DEF KV!Next
    <2> QED BY <1>1, <1>2, <2>1, <2>2, <2>3 DEF BatchStep
  <1>3. CASE Sync \/ Close \/ Tick
    BY <1>3, RefinesOther DEF KV!Next
  <1>4. CASE UNCHANGED vars
    <2>1. UNCHANGED <<dataFiles, index, closed, now, batch, resp>>
      BY <1>4 DEF vars
    <2>2. storeBar' = storeBar /\ modeBar' = modeBar /\ overlayBar' = overlayBar
      BY <2>1 DEF storeBar, Stored, modeBar, ModeOf, overlayBar, Overlay, lookupPendingWrites,
                  Pending, EntryOf
    <2> QED BY <2>1, <2>2 DEF KV!vars
  <1> QED BY <1>2, <1>3, <1>4 DEF Next

LEMMA InitRefines == Init => RInv /\ KV!Init
  <1> SUFFICES ASSUME Init PROVE RInv /\ KV!Init
    OBVIOUS
  <1>1. \A b \in Batches : batch[b] = NoBatch
    BY DEF Init
  <1>2. RInv
    BY <1>1, InitIInv, TidyFresh DEF RInv
  <1>3. storeBar = [k \in Keys |-> KV!Absent]
    BY DEF Init, storeBar, Stored, KV!Absent
  <1>4. modeBar = [b \in Batches |-> "idle"]
    BY <1>1, NoBatchLemma DEF modeBar, ModeOf
  <1>5. \A k \in Keys : Overlay(NoBatch, k) = [kind |-> "untouched"]
    <2>1. NoBatch.pendingWrites = <<>>
      BY DEF NoBatch
    <2> QED BY <2>1, NoBatchLemma, EmptySeq, OverlayLemma
  <1>6. overlayBar = [b \in Batches |-> KV!Clean]
    BY <1>1, <1>5 DEF overlayBar, KV!Clean, KV!Untouched
  <1> QED BY <1>2, <1>3, <1>4, <1>6 DEF Init, KV!Init, OK

\* For every instance the database implements the abstract key-value store.
THEOREM RefinementHolds == Spec => RefinesKVStore
  <1>1. Spec => []RInv
    BY InitRefines, NextTidy, PTL DEF Spec
  <1> QED BY <1>1, InitRefines, NextRefines, PTL DEF Spec, RefinesKVStore, KV!Spec
=============================================================================
