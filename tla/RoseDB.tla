------------------------------- MODULE RoseDB -------------------------------
(***************************************************************************)
(* A running RoseDB instance: the log (dataFiles), the in-memory index and *)
(* the batches every operation goes through (db.go, batch.go).             *)
(*                                                                         *)
(* The log is the sequence of records written, a position is a place in    *)
(* that sequence (segments appear in module Merge).  A batch holds db.mu   *)
(* from its creation to Commit or Rollback, so each of its methods is one  *)
(* step; only the clock moves under it.  sync.RWMutex has no owner, and    *)
(* neither has its model: a flag for the writer and a count of readers.    *)
(***************************************************************************)
EXTENDS LogRecord, Sequences, FiniteSets

CONSTANTS
    Batches,   \* batch objects in the hands of concurrent callers
    EmptyKey,  \* the zero-length key, refused by every operation
    TTLs,      \* durations callers pass to PutWithTTL and Expire
    HashVals,  \* values of utils.MemHash
    Hash,      \* utils.MemHash: collisions are possible
    SyncOpts,  \* values of BatchOptions.Sync in use
    DBSync,    \* options.Sync of the database: the WAL flushes each write
    MaxNow,    \* bound on the clock
    MaxLog     \* bound on the length of the log

ASSUME BatchesAssumption == IsFiniteSet(Batches)
ASSUME KeysAssumption == EmptyKey \notin Keys
ASSUME TTLsAssumption == TTLs \subseteq Int
ASSUME HashAssumption == Hash \in [Keys -> HashVals]
ASSUME SyncAssumption == DBSync \in BOOLEAN /\ SyncOpts \subseteq BOOLEAN

VARIABLES
    dataFiles,  \* the records in the log, oldest first
    synced,     \* how many of them are known to be on stable storage
    index,      \* position of the live record of each key, 0 if none
    closed,     \* db.closed
    now,        \* the clock
    wlocked,    \* db.mu is held exclusively
    rcount,     \* number of shared holders of db.mu
    batch,      \* the state of every batch object
    resp        \* the answer of the last call

db == <<dataFiles, synced, index, closed>>
mu == <<wlocked, rcount>>
vars == <<dataFiles, synced, index, closed, now, wlocked, rcount, batch, resp>>
-----------------------------------------------------------------------------
\* A batch.  next is what its owner may call: "any" for a batch of NewBatch;
\* the one-shot methods of DB perform one operation ("op"), then Commit, or
\* Rollback if the operation failed.
NoBatch ==
    [active |-> FALSE, ro |-> FALSE, sync |-> FALSE, next |-> "any",
     pendingWrites |-> <<>>, pendingWritesMap |-> [h \in HashVals |-> {}],
     committed |-> FALSE, rollbacked |-> FALSE]

BatchStates ==
    [active: BOOLEAN, ro: BOOLEAN, sync: BOOLEAN,
     next: {"any", "op", "commit", "rollback"},
     pendingWrites: Seq(LogRecords), pendingWritesMap: [HashVals -> SUBSET Nat],
     committed: BOOLEAN, rollbacked: BOOLEAN]

AllKeys == Keys \cup {EmptyKey}

\* Answers of the API.
OK == <<"ok">>
Panic == <<"panic">>
Value(v) == <<"value", v>>
Exists(x) == <<"exists", x>>
TTLIs(d) == <<"ttl", d>>
NoTTL == <<"ttl", -1>>
Err(e) == <<"error", e>>

Errors == {"ErrKeyIsEmpty", "ErrDBClosed", "ErrReadOnlyBatch", "ErrKeyNotFound",
           "ErrBatchCommitted", "ErrBatchRollbacked", "ErrWrite", "ErrSync", "ErrFileClosed"}
Answers == {OK, Panic} \cup ({"value"} \X (Values \cup {NoValue}))
           \cup ({"exists"} \X BOOLEAN) \cup ({"ttl"} \X Int) \cup ({"error"} \X Errors)

Ops == {"Open", "read", "write", "Put", "PutWithTTL", "Delete", "Get", "Exist", "Expire",
        "TTL", "Persist", "Commit", "Rollback", "Sync", "Close"}
Responses == [op: Ops, key: AllKeys, ans: Answers]

Reply(op, k, a) == resp' = [op |-> op, key |-> k, ans |-> a]
-----------------------------------------------------------------------------
\* lookupPendingWrites: the first entry of the key's hash bucket that is a
\* record of this very key; 0 if there is none.
lookupPendingWrites(bt, k) ==
    LET hits == {i \in bt.pendingWritesMap[Hash[k]] : bt.pendingWrites[i].key = k}
    IN  IF hits = {} THEN 0 ELSE CHOOSE i \in hits : \A j \in hits : i <= j

\* appendPendingWrites
appendPendingWrites(bt, r) ==
    [bt EXCEPT !.pendingWrites = Append(@, r),
               !.pendingWritesMap[Hash[r.key]] = @ \cup {Len(bt.pendingWrites) + 1}]

\* Mutant: the record is appended although the batch has one of that key.
SetPendingTwice(bt, r) == appendPendingWrites(bt, r)

\* Overwrite the pending record of r.key, or append r.
SetPending(bt, r) ==
    LET i == lookupPendingWrites(bt, r.key)
    IN  IF i = 0 THEN appendPendingWrites(bt, r)
                 ELSE [bt EXCEPT !.pendingWrites[i] = r]

\* What an operation on k finds: the batch's own pending record, else the
\* record the index points to.
Fetch(bt, k) ==
    LET i == lookupPendingWrites(bt, k)
    IN  IF i # 0 THEN [from |-> "pending", rec |-> bt.pendingWrites[i]]
        ELSE IF index[k] # 0 THEN [from |-> "wal", rec |-> dataFiles[index[k]]]
        ELSE [from |-> "none", rec |-> DeletedRecord(k)]

Dead(r) == r.type = "Deleted" \/ IsExpired(r.expire, now)

indexDelete(k) == [index EXCEPT ![k] = 0]

\* The checks every operation of a batch starts with.
Refusal(b, k, write) ==
    IF k = EmptyKey THEN "ErrKeyIsEmpty"
    ELSE IF closed THEN "ErrDBClosed"
    ELSE IF write /\ batch[b].ro THEN "ErrReadOnlyBatch"
    ELSE "none"

\* The one-shot methods of DB commit after a success and after any read;
\* they roll back after a write that returned an error.
AfterOp(bt, failed) ==
    IF bt.next = "op"
    THEN [bt EXCEPT !.next = IF failed /\ ~bt.ro THEN "rollback" ELSE "commit"]
    ELSE bt

\* A one-shot batch is read-only exactly when its operation is a read.
Calling(b, write) ==
    /\ batch[b].active
    /\ \/ batch[b].next = "any"
       \/ batch[b].next = "op" /\ batch[b].ro = ~write

Accepted(b, k, write) == Calling(b, write) /\ Refusal(b, k, write) = "none"

\* An operation refused before it looked at anything: the five writes start
\* with the same checks, and so do the three reads.
Refused(b, k, write) ==
    /\ Calling(b, write)
    /\ Refusal(b, k, write) # "none"
    /\ batch' = [batch EXCEPT ![b] = AfterOp(@, TRUE)]
    /\ Reply(IF write THEN "write" ELSE "read", k, Err(Refusal(b, k, write)))
    /\ UNCHANGED <<db, mu, now>>

\* Room in the bounded log for one more pending record and the end record.
Room(bt, k) ==
    \/ lookupPendingWrites(bt, k) # 0
    \/ Len(dataFiles) + Len(bt.pendingWrites) + 2 <= MaxLog
-----------------------------------------------------------------------------
\* Mutant: a writer does not wait for the readers.
LockNoReaders(ro) ==
    IF ro THEN ~wlocked /\ rcount' = rcount + 1 /\ UNCHANGED wlocked
          ELSE ~wlocked /\ wlocked' = TRUE /\ UNCHANGED rcount

\* Batch.lock
Lock(ro) ==
    IF ro THEN ~wlocked /\ rcount' = rcount + 1 /\ UNCHANGED wlocked
          ELSE ~wlocked /\ rcount = 0 /\ wlocked' = TRUE /\ UNCHANGED rcount

Fresh(ro, sync, next) ==
    [NoBatch EXCEPT !.active = TRUE, !.ro = ro, !.sync = sync, !.next = next]

\* A write needs room for a record and the end record in the bounded log.
Begin(b, ro, sync, next) ==
    /\ ~batch[b].active
    /\ ro \/ Len(dataFiles) + 2 <= MaxLog
    /\ Lock(ro)
    /\ batch' = [batch EXCEPT ![b] = Fresh(ro, sync, next)]
    /\ UNCHANGED <<db, now, resp>>

\* NewBatch(options)
NewBatch(b, ro, sync) == Begin(b, ro, sync, "any")

\* (*DB).Put, Get, Delete...: a pooled batch, init(rdonly, false, db), which
\* performs one operation.
OneShot(b, ro) == Begin(b, ro, FALSE, "op")

Put(b, k, v) ==
    /\ Accepted(b, k, TRUE) /\ Room(batch[b], k)
    /\ batch' = [batch EXCEPT ![b] = AfterOp(SetPending(@, NormalRecord(k, v, 0)), FALSE)]
    /\ Reply("Put", k, OK)
    /\ UNCHANGED <<db, mu, now>>

PutWithTTL(b, k, v, ttl) ==
    /\ Accepted(b, k, TRUE) /\ Room(batch[b], k)
    /\ batch' = [batch EXCEPT ![b] =
                   AfterOp(SetPending(@, NormalRecord(k, v, ExpireAt(now, ttl))), FALSE)]
    /\ Reply("PutWithTTL", k, OK)
    /\ UNCHANGED <<db, mu, now>>

Delete(b, k) ==
    /\ Accepted(b, k, TRUE) /\ Room(batch[b], k)
    /\ batch' = [batch EXCEPT ![b] = AfterOp(SetPending(@, DeletedRecord(k)), FALSE)]
    /\ Reply("Delete", k, OK)
    /\ UNCHANGED <<db, mu, now>>

\* A read that meets an expired record in the log removes it from the index,
\* even though a reader holds db.mu only shared.
Get(b, k) ==
    LET f == Fetch(batch[b], k)
    IN  /\ Accepted(b, k, FALSE)
        /\ Reply("Get", k,
             IF f.from = "wal" /\ f.rec.type = "Deleted" THEN Panic
             ELSE IF f.from = "none" \/ Dead(f.rec) THEN Err("ErrKeyNotFound")
             ELSE Value(f.rec.value))
        /\ index' = IF f.from = "wal" /\ f.rec.type # "Deleted" /\ Dead(f.rec)
                    THEN indexDelete(k) ELSE index
        /\ batch' = [batch EXCEPT ![b] = AfterOp(@, FALSE)]
        /\ UNCHANGED <<dataFiles, synced, closed, mu, now>>

Exist(b, k) ==
    LET f == Fetch(batch[b], k)
    IN  /\ Accepted(b, k, FALSE)
        /\ Reply("Exist", k, Exists(f.from # "none" /\ ~Dead(f.rec)))
        /\ index' = IF f.from = "wal" /\ Dead(f.rec) THEN indexDelete(k) ELSE index
        /\ batch' = [batch EXCEPT ![b] = AfterOp(@, FALSE)]
        /\ UNCHANGED <<dataFiles, synced, closed, mu, now>>

\* Expire copies the record of the log into the batch with its new expiry.
Expire(b, k, ttl) ==
    LET f  == Fetch(batch[b], k)
        ok == f.from # "none" /\ ~Dead(f.rec)
    IN  /\ Accepted(b, k, TRUE) /\ Room(batch[b], k)
        /\ Reply("Expire", k, IF ok THEN OK ELSE Err("ErrKeyNotFound"))
        /\ index' = IF f.from = "wal" /\ Dead(f.rec) THEN indexDelete(k) ELSE index
        /\ batch' = [batch EXCEPT ![b] =
                       AfterOp(IF ok THEN SetPending(@, [f.rec EXCEPT !.expire = ExpireAt(now, ttl)])
                                     ELSE @, ~ok)]
        /\ UNCHANGED <<dataFiles, synced, closed, mu, now>>

\* A pending record without expiry answers -1 before its type is looked at,
\* so a key deleted in this batch does too.
TTL(b, k) ==
    LET f == Fetch(batch[b], k)
    IN  /\ Accepted(b, k, FALSE)
        /\ Reply("TTL", k,
             IF f.from = "pending" /\ f.rec.expire = 0 THEN NoTTL
             ELSE IF f.from = "none" \/ Dead(f.rec) THEN Err("ErrKeyNotFound")
             ELSE IF f.from = "wal" /\ f.rec.expire <= 0 THEN NoTTL
             ELSE TTLIs(Wrap(f.rec.expire - now)))
        /\ index' = IF f.from = "wal" /\ f.rec.type # "Deleted" /\ Dead(f.rec)
                    THEN indexDelete(k) ELSE index
        /\ batch' = [batch EXCEPT ![b] = AfterOp(@, FALSE)]
        /\ UNCHANGED <<dataFiles, synced, closed, mu, now>>

Persist(b, k) ==
    LET f  == Fetch(batch[b], k)
        ok == f.from # "none" /\ ~Dead(f.rec)
        rewrite == ok /\ (f.from = "pending" \/ f.rec.expire # 0)
    IN  /\ Accepted(b, k, TRUE) /\ Room(batch[b], k)
        /\ Reply("Persist", k, IF ok THEN OK ELSE Err("ErrKeyNotFound"))
        /\ index' = IF f.from = "wal" /\ Dead(f.rec) THEN indexDelete(k) ELSE index
        /\ batch' = [batch EXCEPT ![b] =
                       AfterOp(IF rewrite THEN SetPending(@, [f.rec EXCEPT !.expire = 0])
                                          ELSE @, ~ok)]
        /\ UNCHANGED <<dataFiles, synced, closed, mu, now>>
-----------------------------------------------------------------------------
\* Mutant: RUnlock whatever the batch holds.
UnlockShared(bt) == rcount' = rcount - 1 /\ UNCHANGED wlocked

\* Batch.unlock, deferred by Commit and Rollback before they check anything.
Unlock(bt) ==
    IF bt.ro THEN rcount' = rcount - 1 /\ UNCHANGED wlocked
             ELSE wlocked' = FALSE /\ UNCHANGED rcount

\* The records of a commit as they are written: every pending record under
\* the batch id, then the end record.  The id is a snowflake id of node 1 at
\* the current time: batches of one millisecond may share it.
CommitRecords(bt) ==
    Append([i \in DOMAIN bt.pendingWrites |-> [bt.pendingWrites[i] EXCEPT !.batchId = now]],
           EndRecord(now))

\* Mutant: the position of the preceding record.
CommitIndexOffByOne(bt, base) ==
    [k \in Keys |->
        LET i == lookupPendingWrites(bt, k)
        IN  IF i = 0 THEN index[k] ELSE IF Dead(bt.pendingWrites[i]) THEN 0 ELSE base + i - 1]

\* Mutant: a deletion is indexed like a write.
CommitIndexDeleted(bt, base) ==
    [k \in Keys |->
        LET i == lookupPendingWrites(bt, k)
        IN  IF i = 0 THEN index[k]
            ELSE IF IsExpired(bt.pendingWrites[i].expire, now) THEN 0 ELSE base + i]

\* The index after a commit whose first record went to position base + 1.
CommitIndex(bt, base) ==
    [k \in Keys |->
        LET i == lookupPendingWrites(bt, k)
        IN  IF i = 0 THEN index[k]
            ELSE IF Dead(bt.pendingWrites[i]) THEN 0
            ELSE base + i]

\* The error Commit returns before it writes anything, or "none".
CommitRefusal(bt) ==
    IF closed THEN "ErrDBClosed"
    ELSE IF bt.ro \/ bt.pendingWrites = <<>> THEN "nothing"
    ELSE IF bt.committed THEN "ErrBatchCommitted"
    ELSE IF bt.rollbacked THEN "ErrBatchRollbacked"
    ELSE "none"

\* Mutant: the index is written before the flush that may fail.
CommitOutcomeIndexFirst(b, outcome) ==
    LET bt == batch[b]
        flush == DBSync \/ bt.sync
    IN  /\ (outcome = "refused") <=> (CommitRefusal(bt) # "none")
        /\ outcome = "ErrSync" => flush
        /\ dataFiles' = IF outcome \in {"ok", "ErrSync"} THEN dataFiles \o CommitRecords(bt)
                                                         ELSE dataFiles
        /\ synced' = IF outcome = "ok" /\ flush THEN Len(dataFiles') ELSE synced
        /\ index' = IF outcome \in {"ok", "ErrSync"} THEN CommitIndex(bt, Len(dataFiles)) ELSE index
        /\ Reply("Commit", EmptyKey,
             CASE outcome = "ok" -> OK
               [] outcome = "refused" ->
                    IF CommitRefusal(bt) = "nothing" THEN OK ELSE Err(CommitRefusal(bt))
               [] OTHER -> Err(outcome))

\* Commit with its outcome: "refused", "ok", "ErrWrite" (WriteAll failed and
\* wrote nothing) or "ErrSync" (the records are in the log, the flush failed,
\* the index is left alone).
CommitOutcome(b, outcome) ==
    LET bt == batch[b]
        flush == DBSync \/ bt.sync
    IN  /\ (outcome = "refused") <=> (CommitRefusal(bt) # "none")
        /\ outcome = "ErrSync" => flush
        /\ dataFiles' = IF outcome \in {"ok", "ErrSync"} THEN dataFiles \o CommitRecords(bt)
                                                         ELSE dataFiles
        /\ synced' = IF outcome = "ok" /\ flush THEN Len(dataFiles') ELSE synced
        /\ index' = IF outcome = "ok" THEN CommitIndex(bt, Len(dataFiles)) ELSE index
        /\ Reply("Commit", EmptyKey,
             CASE outcome = "ok" -> OK
               [] outcome = "refused" ->
                    IF CommitRefusal(bt) = "nothing" THEN OK ELSE Err(CommitRefusal(bt))
               [] OTHER -> Err(outcome))

Outcomes == {"refused", "ok", "ErrWrite", "ErrSync"}

\* Commit of a batch its owner then drops: reset and returned to the pool, or
\* garbage.
Commit(b, outcome) ==
    /\ batch[b].active /\ batch[b].next \in {"any", "commit"}
    /\ CommitOutcome(b, outcome)
    /\ Unlock(batch[b])
    /\ batch' = [batch EXCEPT ![b] = NoBatch]
    /\ UNCHANGED <<closed, now>>

RollbackAnswer(bt) ==
    IF closed THEN Err("ErrDBClosed")
    ELSE IF bt.committed THEN Err("ErrBatchCommitted")
    ELSE IF bt.rollbacked THEN Err("ErrBatchRollbacked")
    ELSE OK

Rollback(b) ==
    /\ batch[b].active /\ batch[b].next \in {"any", "rollback"}
    /\ Reply("Rollback", EmptyKey, RollbackAnswer(batch[b]))
    /\ Unlock(batch[b])
    /\ batch' = [batch EXCEPT ![b] = NoBatch]
    /\ UNCHANGED <<db, now>>

\* Mutant: Sync returns without flushing.
SyncNoFlush ==
    /\ ~wlocked /\ rcount = 0
    /\ Reply("Sync", EmptyKey, IF closed THEN Err("ErrFileClosed") ELSE OK)
    /\ UNCHANGED <<db, mu, now, batch>>

\* (*DB).Sync
Sync ==
    /\ ~wlocked /\ rcount = 0
    /\ synced' = IF closed THEN synced ELSE Len(dataFiles)
    /\ Reply("Sync", EmptyKey, IF closed THEN Err("ErrFileClosed") ELSE OK)
    /\ UNCHANGED <<dataFiles, index, closed, mu, now, batch>>

\* (*DB).Close: a second Close fails on the closed files.
Close ==
    /\ ~wlocked /\ rcount = 0
    /\ closed' = TRUE
    /\ Reply("Close", EmptyKey, IF closed THEN Err("ErrFileClosed") ELSE OK)
    /\ UNCHANGED <<dataFiles, synced, index, mu, now, batch>>

Tick ==
    /\ now < MaxNow
    /\ now' = now + 1
    /\ UNCHANGED <<db, mu, batch, resp>>
-----------------------------------------------------------------------------
\* The clock starts away from 0, the expiry that means "never": no real
\* duration is as long as the time since the epoch.
Init ==
    /\ dataFiles = <<>> /\ synced = 0
    /\ index = [k \in Keys |-> 0]
    /\ closed = FALSE
    /\ now = 2
    /\ wlocked = FALSE /\ rcount = 0
    /\ batch = [b \in Batches |-> NoBatch]
    /\ resp = [op |-> "Open", key |-> EmptyKey, ans |-> OK]

BatchOp(b) ==
    \/ \E k \in AllKeys, write \in BOOLEAN : Refused(b, k, write)
    \/ \E k \in Keys, v \in Values : Put(b, k, v)
    \/ \E k \in Keys, v \in Values, ttl \in TTLs : PutWithTTL(b, k, v, ttl)
    \/ \E k \in Keys : Delete(b, k)
    \/ \E k \in Keys : Get(b, k)
    \/ \E k \in Keys : Exist(b, k)
    \/ \E k \in Keys, ttl \in TTLs : Expire(b, k, ttl)
    \/ \E k \in Keys : TTL(b, k)
    \/ \E k \in Keys : Persist(b, k)

BatchStep(b) ==
    \/ \E ro \in BOOLEAN, sync \in SyncOpts : NewBatch(b, ro, sync)
    \/ \E ro \in BOOLEAN : OneShot(b, ro)
    \/ BatchOp(b)
    \/ \E o \in Outcomes : Commit(b, o)
    \/ Rollback(b)

Next ==
    \/ \E b \in Batches : BatchStep(b)
    \/ Sync
    \/ Close
    \/ Tick

Spec == Init /\ [][Next]_vars
-----------------------------------------------------------------------------
TypeOK ==
    /\ dataFiles \in Seq(LogRecords \cup EndRecords)
    /\ synced \in 0..Len(dataFiles)
    /\ index \in [Keys -> Nat]
    /\ closed \in BOOLEAN
    /\ now \in Nat \ {0}
    /\ wlocked \in BOOLEAN
    /\ rcount \in Nat
    /\ batch \in [Batches -> BatchStates]
    /\ resp \in Responses

\* What the index points to is a Normal record of that very key: a read by
\* position (dataFiles.Read in batch.go) never lands on another key's record,
\* on a deletion or on an end-of-batch record.
IndexSound ==
    \A k \in Keys : index[k] # 0 =>
        /\ index[k] \in 1..Len(dataFiles)
        /\ dataFiles[index[k]].type = "Normal"
        /\ dataFiles[index[k]].key = k

\* panic("Deleted data cannot exist in the index"), batch.go, is unreachable.
NeverPanics == resp.ans # Panic

\* A write batch has the database to itself: db.mu, which has no owner and is
\* released by whoever calls unlock, keeps every other batch out.
WriterAlone ==
    \A b, c \in Batches :
        b # c /\ batch[b].active /\ batch[c].active => batch[b].ro /\ batch[c].ro

\* Every pending record is found under the hash of its key, whatever keys
\* collide with it, and no key has two: Commit would otherwise index the
\* records of one key in an order the caller did not ask for.
PendingConsistent ==
    \A b \in Batches :
        LET bt == batch[b]
        IN  \A i \in DOMAIN bt.pendingWrites :
                lookupPendingWrites(bt, bt.pendingWrites[i].key) = i
=============================================================================
