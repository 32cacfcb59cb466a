------------------------------ MODULE Recovery ------------------------------
(***************************************************************************)
(* Crashes, and the recovery of Open (db.go): loadIndexFromWAL rebuilds    *)
(* the index from the log.  A crash keeps a prefix of the log that holds   *)
(* at least what was flushed, and may cut the batch being committed in two.*)
(* The log survives at the granularity of records (the WAL checks a CRC    *)
(* per chunk); there has been no merge, so there is no hint file.          *)
(***************************************************************************)
EXTENDS RoseDB

CONSTANT TornExpiring  \* whether a batch cut in two may hold a record with a lifetime

ASSUME TornExpiringAssumption == TornExpiring \in BOOLEAN

VARIABLES
    running,   \* the process is up, with the database open or closed
    torn,      \* history: log positions of batches a crash cut in two
    failed,    \* history: positions written by this process in commits that
               \* returned an error
    promised   \* history: the log when a flush last succeeded

history == <<torn, failed, promised>>
rvars == <<vars, running, torn, failed, promised>>
-----------------------------------------------------------------------------
\* Mutant: records are indexed as they are met, finished batch or not.
ReplayUnfinished(acc, p) ==
    LET r == dataFiles[p]
    IN  IF r.type = "BatchFinished" THEN acc
        ELSE [acc EXCEPT !.idx[r.key] =
                IF r.type = "Normal" /\ ~IsExpired(r.expire, now) THEN p ELSE 0]

\* The end of a batch: its records ps go into the index in the order of the log.
IndexAll(idx, ps) ==
    [k \in Keys |->
        LET qs   == {q \in ps : dataFiles[q].key = k}
            last == CHOOSE q \in qs : \A p \in qs : p <= q
        IN  IF qs = {} THEN idx[k] ELSE IF dataFiles[last].type = "Normal" THEN last ELSE 0]

\* One record of the replay.  acc.idx is the index built so far, acc.recs the
\* indexRecords (their positions) still waiting for the end of their batch.
ReplayRecord(acc, p) ==
    LET r    == dataFiles[p]
        done == {q \in acc.recs : dataFiles[q].batchId = r.key}
    IN  CASE r.type = "BatchFinished" ->
               [idx |-> IndexAll(acc.idx, done), recs |-> acc.recs \ done]
          [] r.type = "Normal" /\ r.batchId = MergeFinishedBatchID ->
               [acc EXCEPT !.idx[r.key] = p]
          [] OTHER ->
               IF IsExpired(r.expire, now)
               THEN [acc EXCEPT !.idx[r.key] = 0]
               ELSE [acc EXCEPT !.recs = @ \cup {p}]

loadIndexFromWAL ==
    LET replay[n \in 0..Len(dataFiles)] ==
            IF n = 0 THEN [idx |-> [k \in Keys |-> 0], recs |-> {}]
                     ELSE ReplayRecord(replay[n - 1], n)
    IN  replay[Len(dataFiles)].idx

\* Open after a crash, or of a database that was closed.
Open ==
    /\ ~running \/ (closed /\ ~wlocked /\ rcount = 0)
    /\ running' = TRUE
    /\ closed' = FALSE
    /\ index' = loadIndexFromWAL
    /\ failed' = {}
    /\ Reply("Open", EmptyKey, OK)
    /\ UNCHANGED <<dataFiles, synced, mu, now, batch, torn, promised>>

\* What the disk may hold when the process dies: the log and, if a batch is
\* being committed, some of its records.
InFlight ==
    {dataFiles} \cup {dataFiles \o CommitRecords(batch[b]) :
                        b \in {c \in Batches : /\ batch[c].active /\ ~closed
                                               /\ batch[c].pendingWrites # <<>>}}

\* The records of a log cut at c that no end record follows.
Unfinished(log, c) == {p \in 1..c : \A q \in p..c : log[q].type # "BatchFinished"}

\* Where the log may be cut: what was flushed stays.
Cuts(log) ==
    {c \in synced..Len(log) :
        TornExpiring \/ \A p \in Unfinished(log, c) : log[p].expire = 0}

\* The clock moves on: no batch after the restart shares its id with one
\* before it.
Crash ==
    /\ running /\ now < MaxNow
    /\ now' = now + 1
    /\ \E log \in InFlight : \E cut \in Cuts(log) :
          /\ dataFiles' = SubSeq(log, 1, cut)
          /\ torn' = (torn \cap 1..cut) \cup Unfinished(log, cut)
    /\ running' = FALSE
    /\ closed' = FALSE
    /\ index' = [k \in Keys |-> 0]
    /\ wlocked' = FALSE /\ rcount' = 0
    /\ batch' = [b \in Batches |-> NoBatch]
    /\ failed' = {}
    /\ Reply("Open", EmptyKey, OK)
    /\ UNCHANGED <<synced, promised>>
-----------------------------------------------------------------------------
\* The operations that change the log or the index, as in RoseDB.
WriteOp(b) ==
    /\ running
    /\ \/ \E sync \in SyncOpts : NewBatch(b, FALSE, sync)
       \/ \E k \in Keys, v \in Values : Put(b, k, v)
       \/ \E k \in Keys, v \in Values, ttl \in TTLs : PutWithTTL(b, k, v, ttl)
       \/ \E k \in Keys : Delete(b, k)
       \/ \E k \in Keys : Get(b, k)
       \/ Rollback(b)
    /\ UNCHANGED <<running, history>>

\* A commit that flushed and returned nil promises durability.
CommitOp(b, o) ==
    /\ running
    /\ Commit(b, o)
    /\ failed' = IF o = "ErrSync" THEN failed \cup (Len(dataFiles) + 1)..Len(dataFiles')
                                  ELSE failed
    /\ promised' = IF o = "ok" /\ (DBSync \/ batch[b].sync) THEN dataFiles' ELSE promised
    /\ UNCHANGED <<running, torn>>

SyncOp ==
    /\ running
    /\ Sync
    /\ promised' = IF closed THEN promised ELSE dataFiles
    /\ UNCHANGED <<running, torn, failed>>

CloseOp == running /\ Close /\ UNCHANGED <<running, history>>

TickOp == Tick /\ UNCHANGED <<running, history>>

RInit ==
    /\ Init
    /\ running = TRUE
    /\ torn = {} /\ failed = {} /\ promised = <<>>

RNext ==
    \/ \E b \in Batches : WriteOp(b) \/ \E o \in Outcomes : CommitOp(b, o)
    \/ SyncOp
    \/ CloseOp
    \/ TickOp
    \/ Crash
    \/ Open

RSpec == RInit /\ [][RNext]_rvars
-----------------------------------------------------------------------------
RTypeOK ==
    /\ TypeOK
    /\ running \in BOOLEAN
    /\ torn \subseteq 1..Len(dataFiles)
    /\ failed \subseteq 1..Len(dataFiles)
    /\ promised \in Seq(LogRecords \cup EndRecords)

\* The last record of k that was written by a whole and successful batch.
LastWrite(k) ==
    LET ps == {p \in DOMAIN dataFiles : /\ dataFiles[p].type # "BatchFinished"
                                        /\ dataFiles[p].key = k
                                        /\ p \notin torn /\ p \notin failed}
    IN  IF ps = {} THEN 0 ELSE CHOOSE p \in ps : \A q \in ps : q <= p

Alive(p) == p # 0 /\ ~Dead(dataFiles[p])

\* At any moment, and in particular right after recovery, the index shows the
\* last whole and successful write of every key unless that is a deletion or
\* has expired, and nothing else: a torn batch leaves no trace.
IndexMatchesLog ==
    running => \A k \in Keys :
        IF Alive(LastWrite(k)) THEN index[k] = LastWrite(k) ELSE ~Alive(index[k])

\* What a flush promised (Sync of the database or of the batch) heads the log
\* after any number of crashes, failed flushes and restarts.
PromisesKept ==
    /\ Len(promised) <= Len(dataFiles)
    /\ \A p \in 1..Len(promised) : dataFiles[p] = promised[p]
=============================================================================
