------------------------------- MODULE Merge -------------------------------
(***************************************************************************)
(* Merge, its crash safety and its concurrency (merge.go, and the parts of *)
(* Open, Close and loadIndexFromWAL in db.go it depends on).               *)
(*                                                                         *)
(* The data directory holds segments, a hint file and a MERGEFIN file; a   *)
(* merge writes a second directory, which loadMergeFiles later moves file  *)
(* by file over the first, either for Merge(true) under db.mu or for the   *)
(* next Open.  A write here is a whole one-record batch (RoseDB and        *)
(* Recovery treat batches): its end record is left out.  Files of the      *)
(* merge directory are renamed and removed while goroutines still hold     *)
(* them open: a directory has a generation, and so has the open WAL.       *)
(***************************************************************************)
EXTENDS LogRecord, Sequences, FiniteSets

CONSTANTS
    Mergers,       \* goroutines that call Merge (the user, the cron job)
    TTLs,          \* durations of PutWithTTL; 0 stands for Put
    SegCap,        \* records that fit into a segment
    CrashIn,       \* where a crash may happen: "idle", "merging", "loading"
    Reopens,       \* values of reopenAfterDone in use
    CloseIn,       \* when Close may be called: "idle", "merging" (a Merge has not returned)
    MaxMerges, MaxWrites, MaxNow, MaxCrashes  \* bounds

ASSUME MergeAssumption ==
    /\ IsFiniteSet(Mergers) /\ "open" \notin Mergers
    /\ TTLs \subseteq Nat
    /\ SegCap \in Nat \ {0}
    /\ CrashIn \subseteq {"idle", "merging", "loading"}
    /\ Reopens \subseteq BOOLEAN
    /\ CloseIn \subseteq {"idle", "merging"}
    /\ MaxMerges \in Nat /\ MaxWrites \in Nat /\ MaxCrashes \in Nat
    /\ MaxNow \in Nat /\ MaxNow >= 2   \* the clock starts at 2

VARIABLES
    segs,      \* data directory: segment id -> its records
    hint,      \* data directory: hint records, last write of a key wins
    fin,       \* data directory: segment id in MERGEFIN, 0 if there is none
    mdir,      \* merge directory
    index,     \* position of each key, NoPos if none
    mode,      \* "open", "closed", "down" (no process), "opening", "failed" (by Open)
    fileLock,  \* the process holds the lock on the data directory
    closing,   \* a call of Close has seen mergeRunning at 0
    walOpen,   \* generation of the open dataFiles, 0 if they are closed
    mergeRunning,
    merger,    \* the state of every call of Merge
    loader,    \* loadMergeFiles and the reopening that follows
    now, writes, merges, crashes,
    store      \* history: what each key should read as

vars == <<segs, hint, fin, mdir, index, mode, fileLock, closing, walOpen, mergeRunning, merger,
          loader, now, writes, merges, crashes, store>>
clocks == <<fileLock, closing, now, writes, merges, crashes>>
disk == <<segs, hint, fin>>

NoPos == <<0, 0>>
NoDir == [exists |-> FALSE, id |-> 0, segs |-> <<>>, hasHint |-> FALSE, hint |-> <<>>, fin |-> -1]
NoMerge == [pc |-> "idle", reopen |-> FALSE, prev |-> 0, todo |-> {}, start |-> 0,
            dir |-> 0, wal |-> 0, out |-> <<>>]
NoLoad == [stage |-> "idle", who |-> "none", i |-> 0, n |-> 0]
Absent == [value |-> NoValue, expire |-> 0]
-----------------------------------------------------------------------------
Active == CHOOSE s \in DOMAIN segs : \A t \in DOMAIN segs : t <= s

\* A generation nobody refers to.
Unused ==
    LET used == {walOpen, mdir.id} \cup {merger[m].dir : m \in Mergers}
                                  \cup {merger[m].wal : m \in Mergers}
    IN  CHOOSE n \in 1..(2 * Cardinality(Mergers) + 3) :
            n \notin used /\ \A i \in 1..(n - 1) : i \in used

\* db.mu is free: nobody is in the middle of a reopening.
Unlocked == mode = "open" /\ loader.stage = "idle"

\* The WAL appends to the active segment, or to a new one if that is full.
Appended(r) ==
    IF Len(segs[Active]) < SegCap
    THEN [segs EXCEPT ![Active] = Append(@, r)]
    ELSE [s \in DOMAIN segs \cup {Active + 1} |-> IF s = Active + 1 THEN <<r>> ELSE segs[s]]

\* The position of the last record of the last segment of f.
LastPos(f) ==
    LET s == CHOOSE s \in DOMAIN f : \A t \in DOMAIN f : t <= s IN <<s, Len(f[s])>>

Positions(f, ids) == {p \in ids \X (1..SegCap) : p[2] <= Len(f[p[1]])}
Before(p, q) == p[1] < q[1] \/ (p[1] = q[1] /\ p[2] < q[2])
At(f, p) == f[p[1]][p[2]]

\* Put, PutWithTTL and Delete of the database, each a committed batch.
Write(k, r, e) ==
    /\ Unlocked /\ walOpen # 0 /\ writes < MaxWrites
    /\ segs' = Appended([r EXCEPT !.batchId = 1])
    /\ index' = [index EXCEPT ![k] = IF r.type = "Deleted" \/ IsExpired(r.expire, now)
                                     THEN NoPos ELSE LastPos(segs')]
    /\ store' = [store EXCEPT ![k] = e]
    /\ writes' = writes + 1
    /\ UNCHANGED <<hint, fin, mdir, mode, walOpen, mergeRunning, merger, loader,
                   fileLock, closing, now, merges, crashes>>

PutTTL(k, v, ttl) ==
    LET e == IF ttl = 0 THEN 0 ELSE ExpireAt(now, ttl)
    IN  Write(k, NormalRecord(k, v, e), [value |-> v, expire |-> e])

Delete(k) == Write(k, DeletedRecord(k), Absent)

Tick ==
    /\ now < MaxNow
    /\ now' = now + 1
    /\ UNCHANGED <<disk, mdir, index, mode, fileLock, closing, walOpen, mergeRunning, merger,
                   loader, writes, merges, crashes, store>>
-----------------------------------------------------------------------------
\* What the hint file keeps of a rewritten record.
HintRecord(k, pos) == [key |-> k, pos |-> pos]

(* doMerge                                                                 *)

\* Mutant: the log is not rotated.
MergeStartNoRotate(m, reopen) ==
    /\ Unlocked /\ walOpen # 0 /\ merger[m].pc = "idle" /\ merges < MaxMerges
    /\ ~(DOMAIN segs = {Active} /\ segs[Active] = <<>>)
    /\ ~mergeRunning
    /\ mergeRunning' = TRUE
    /\ segs' = segs
    /\ merger' = [merger EXCEPT ![m] = [NoMerge EXCEPT !.pc = "opendir", !.reopen = reopen,
                                                       !.prev = Active]]
    /\ merges' = merges + 1
    /\ UNCHANGED <<hint, fin, mdir, index, mode, walOpen, loader, fileLock, closing, now,
                   writes, crashes, store>>

\* Mutant: a running merge is not noticed.
MergeStartUnchecked(m, reopen) ==
    /\ Unlocked /\ walOpen # 0 /\ merger[m].pc = "idle" /\ merges < MaxMerges
    /\ ~(DOMAIN segs = {Active} /\ segs[Active] = <<>>)
    /\ mergeRunning' = TRUE
    /\ segs' = [s \in DOMAIN segs \cup {Active + 1} |-> IF s = Active + 1 THEN <<>> ELSE segs[s]]
    /\ merger' = [merger EXCEPT ![m] = [NoMerge EXCEPT !.pc = "opendir", !.reopen = reopen,
                                                       !.prev = Active]]
    /\ merges' = merges + 1
    /\ UNCHANGED <<hint, fin, mdir, index, mode, walOpen, loader, fileLock, closing, now,
                   writes, crashes, store>>

\* Under db.mu: give up if there is nothing to merge or a merge is running,
\* else rotate the log.
MergeStart(m, reopen) ==
    /\ Unlocked /\ walOpen # 0 /\ merger[m].pc = "idle" /\ merges < MaxMerges
    /\ ~(DOMAIN segs = {Active} /\ segs[Active] = <<>>)
    /\ ~mergeRunning
    /\ mergeRunning' = TRUE
    /\ segs' = [s \in DOMAIN segs \cup {Active + 1} |-> IF s = Active + 1 THEN <<>> ELSE segs[s]]
    /\ merger' = [merger EXCEPT ![m] = [NoMerge EXCEPT !.pc = "opendir", !.reopen = reopen,
                                                       !.prev = Active]]
    /\ merges' = merges + 1
    /\ UNCHANGED <<hint, fin, mdir, index, mode, walOpen, loader, fileLock, closing, now,
                   writes, crashes, store>>

\* There is nothing to merge: Merge(true) goes on to reopen the files.
MergeNothing(m) ==
    /\ Unlocked /\ walOpen # 0 /\ merger[m].pc = "idle" /\ merges < MaxMerges
    /\ TRUE \in Reopens
    /\ DOMAIN segs = {Active} /\ segs[Active] = <<>>
    /\ merger' = [merger EXCEPT ![m] = [NoMerge EXCEPT !.pc = "lock"]]
    /\ merges' = merges + 1
    /\ UNCHANGED <<disk, mdir, index, mode, walOpen, mergeRunning, loader, fileLock, closing,
                   now, writes, crashes, store>>

\* openMergeDB: remove what an earlier merge left, open an empty database and
\* a hint file in its place.
OpenMergeDB(m) ==
    /\ merger[m].pc = "opendir"
    /\ mdir' = [NoDir EXCEPT !.exists = TRUE, !.id = Unused, !.segs = <<<<>>>>, !.hasHint = TRUE]
    /\ merger' = [merger EXCEPT ![m].pc = "reader", ![m].dir = Unused, ![m].out = <<<<>>>>]
    /\ UNCHANGED <<disk, index, mode, walOpen, mergeRunning, loader, clocks, store>>

\* A reader over the segments up to prev, of the WAL that is open now; the
\* time against which expiry is judged is read here.
NewReader(m) ==
    /\ merger[m].pc = "reader"
    /\ LET ids == {s \in DOMAIN segs : s <= merger[m].prev}
       IN  merger' = [merger EXCEPT ![m].pc = "scan", ![m].start = now, ![m].wal = walOpen,
                                    ![m].todo = Positions(segs, ids)]
    /\ UNCHANGED <<disk, mdir, index, mode, walOpen, mergeRunning, loader, clocks, store>>

\* doMerge is left with an error; the merge directory stays as it is.
Abandon(m) ==
    /\ merger' = [merger EXCEPT ![m] = NoMerge]
    /\ mergeRunning' = FALSE

\* Mutant: every Normal record that has not expired is rewritten.
ValidNoIndex(r, p, start) == r.type = "Normal" /\ (r.expire = 0 \/ r.expire > start)

\* The record is valid data: Normal, not expired by the code's own test, and
\* the one the index points to.
Valid(r, p, start) ==
    /\ r.type = "Normal"
    /\ r.expire = 0 \/ r.expire > start
    /\ index[r.key] = p

\* The reader goes through the records in the order of the log.
NextPos(m) == CHOOSE p \in merger[m].todo : \A q \in merger[m].todo : ~Before(q, p)

\* Mutant: the reader stays at a record that is not valid data.
SkipStays(m) == UNCHANGED merger

\* The loop goes on with the next record.
Skip(m) == merger' = [merger EXCEPT ![m].todo = @ \ {NextPos(m)}]

\* Rewrite one record.  The merge WAL rotates by creating a file, which fails
\* if the directory is gone; otherwise writes to removed files succeed and
\* are lost.
MergeRecord(m) ==
    LET mg == merger[m]
        p == NextPos(m)
        r == At(segs, p)
        full == Len(mg.out[Len(mg.out)]) = SegCap
        here == mdir.exists /\ mdir.id = mg.dir
        out == IF full THEN Append(mg.out, <<[r EXCEPT !.batchId = MergeFinishedBatchID]>>)
               ELSE [mg.out EXCEPT ![Len(mg.out)] =
                       Append(@, [r EXCEPT !.batchId = MergeFinishedBatchID])]
        pos == <<Len(out), Len(out[Len(out)])>>
    IN  /\ mg.pc = "scan" /\ mg.todo # {} /\ loader.stage = "idle"
        /\ IF walOpen # mg.wal \/ walOpen = 0 \/ (Valid(r, p, mg.start) /\ full /\ ~mdir.exists)
           THEN Abandon(m) /\ UNCHANGED mdir
           ELSE /\ UNCHANGED mergeRunning
                /\ IF Valid(r, p, mg.start)
                   THEN /\ merger' = [merger EXCEPT ![m].todo = @ \ {p}, ![m].out = out]
                        /\ mdir' = IF here THEN [mdir EXCEPT !.segs = out,
                                                  !.hint = Append(@, HintRecord(r.key, pos))]
                                   ELSE mdir
                   ELSE Skip(m) /\ UNCHANGED mdir
        /\ UNCHANGED <<disk, index, mode, walOpen, loader, clocks, store>>

\* openMergeFinishedFile creates the directory if it is gone.
CreateMergeFin(m) ==
    /\ merger[m].pc = "scan" /\ merger[m].todo = {}
    /\ merger' = [merger EXCEPT ![m].pc = "fin"]
    /\ mdir' = IF mdir.exists THEN [mdir EXCEPT !.fin = 0]
               ELSE [NoDir EXCEPT !.exists = TRUE, !.id = Unused, !.fin = 0]
    /\ UNCHANGED <<disk, index, mode, walOpen, mergeRunning, loader, clocks, store>>

\* The end of doMerge: MERGEFIN is written, then mergeRunning is reset, before
\* Merge(true) asks for db.mu.
WriteMergeFin(m) ==
    /\ merger[m].pc = "fin"
    /\ mdir' = IF mdir.exists /\ mdir.fin = 0 THEN [mdir EXCEPT !.fin = merger[m].prev] ELSE mdir
    /\ mergeRunning' = FALSE
    /\ merger' = [merger EXCEPT ![m] = IF merger[m].reopen THEN [NoMerge EXCEPT !.pc = "lock"]
                                                           ELSE NoMerge]
    /\ UNCHANGED <<disk, index, mode, walOpen, loader, clocks, store>>
-----------------------------------------------------------------------------
(* loadMergeFiles, for Merge(true) or for Open                             *)

Load(who) == [NoLoad EXCEPT !.stage = "begin", !.who = who]

closeFiles == walOpen' = 0

\* Merge takes db.mu and closes the files; it does not look at db.closed.
MergeLock(m) ==
    /\ merger[m].pc = "lock" /\ mode \in {"open", "closed"} /\ loader.stage = "idle"
    /\ merger' = [merger EXCEPT ![m].pc = "loading"]
    /\ closeFiles
    /\ loader' = Load(m)
    /\ UNCHANGED <<disk, mdir, index, mode, mergeRunning, clocks, store>>

\* Open takes the file lock first.  If the process holds it already, as after an
\* Open that failed, the answer is ErrDatabaseIsUsing and nothing changes.
OpenStart ==
    /\ mode \in {"closed", "down", "failed"} /\ loader.stage = "idle"
    /\ \A m \in Mergers : merger[m].pc = "idle"
    /\ ~fileLock
    /\ fileLock' = TRUE
    /\ mode' = "opening"
    /\ loader' = Load("open")
    /\ UNCHANGED <<disk, mdir, index, walOpen, mergeRunning, merger, closing, now, writes, merges,
                   crashes, store>>

Goto(stage) == loader' = [loader EXCEPT !.stage = stage]

\* Mutant: the merge directory outlives the failure.
LoadFailsKeeps ==
    /\ loader' = NoLoad
    /\ mode' = IF loader.who = "open" THEN "failed" ELSE mode
    /\ merger' = IF loader.who = "open" THEN merger ELSE [merger EXCEPT ![loader.who] = NoMerge]
    /\ UNCHANGED mdir

\* What the end of a failed loadMergeFiles leaves: no merge directory, and
\* for Open no database but the file lock, which Open does not release.
LoadFails ==
    /\ mdir' = NoDir
    /\ loader' = NoLoad
    /\ mode' = IF loader.who = "open" THEN "failed" ELSE mode
    /\ merger' = IF loader.who = "open" THEN merger ELSE [merger EXCEPT ![loader.who] = NoMerge]

\* Mutant: a merge without MERGEFIN is taken for a finished one.
LoadBeginUnfinished ==
    /\ loader.stage = "begin"
    /\ IF ~mdir.exists THEN Goto("reopen") /\ UNCHANGED <<mdir, mode, merger>>
       ELSE IF mdir.fin = 0 THEN LoadFails
       ELSE /\ loader' = [loader EXCEPT !.n = IF mdir.fin < 0 THEN Len(mdir.segs) ELSE mdir.fin,
                                        !.i = 1, !.stage = "remove"]
            /\ UNCHANGED <<mdir, mode, merger>>
    /\ UNCHANGED <<disk, index, walOpen, mergeRunning, clocks, store>>

\* No directory: done.  An empty MERGEFIN: an error.  No MERGEFIN: nothing to
\* move, but MERGEFIN and HINT are still copied.
LoadBegin ==
    /\ loader.stage = "begin"
    /\ IF ~mdir.exists THEN Goto("reopen") /\ UNCHANGED <<mdir, mode, merger>>
       ELSE IF mdir.fin = 0 THEN LoadFails
       ELSE /\ loader' = [loader EXCEPT !.n = IF mdir.fin < 0 THEN 0 ELSE mdir.fin, !.i = 1,
                                        !.stage = IF mdir.fin < 0 THEN "fin" ELSE "remove"]
            /\ UNCHANGED <<mdir, mode, merger>>
    /\ UNCHANGED <<disk, index, walOpen, mergeRunning, clocks, store>>

\* os.Remove of segment i of the data directory.
LoadRemove ==
    /\ loader.stage = "remove"
    /\ segs' = [s \in DOMAIN segs \ {loader.i} |-> segs[s]]
    /\ Goto("move")
    /\ UNCHANGED <<hint, fin, mdir, index, mode, walOpen, mergeRunning, merger, clocks, store>>

\* copyFile of segment i, skipped if the merge has no such file or it is empty.
LoadMove ==
    LET i == loader.i
        there == i \in DOMAIN mdir.segs
        moves == there /\ (IF there THEN mdir.segs[i] # <<>> ELSE FALSE)
    IN  /\ loader.stage = "move"
        /\ segs' = IF moves THEN [s \in DOMAIN segs \cup {i} |-> IF s = i THEN mdir.segs[i] ELSE segs[s]]
                   ELSE segs
        /\ mdir' = IF moves THEN [mdir EXCEPT !.segs = [s \in DOMAIN @ \ {i} |-> @[s]]] ELSE mdir
        /\ loader' = [loader EXCEPT !.i = i + 1, !.stage = IF i < loader.n THEN "remove" ELSE "fin"]
        /\ UNCHANGED <<hint, fin, index, mode, walOpen, mergeRunning, merger, clocks, store>>

LoadMergeFin ==
    /\ loader.stage = "fin"
    /\ fin' = IF mdir.fin > 0 THEN mdir.fin ELSE fin
    /\ mdir' = [mdir EXCEPT !.fin = -1]
    /\ Goto("hint")
    /\ UNCHANGED <<segs, hint, index, mode, walOpen, mergeRunning, merger, clocks, store>>

LoadHint ==
    /\ loader.stage = "hint"
    /\ hint' = IF mdir.hasHint THEN mdir.hint ELSE hint
    /\ mdir' = [mdir EXCEPT !.hasHint = FALSE, !.hint = <<>>]
    /\ Goto("rmdir")
    /\ UNCHANGED <<segs, fin, index, mode, walOpen, mergeRunning, merger, clocks, store>>

LoadRemoveDir ==
    /\ loader.stage = "rmdir"
    /\ mdir' = NoDir
    /\ Goto("reopen")
    /\ UNCHANGED <<disk, index, mode, walOpen, mergeRunning, merger, clocks, store>>

\* loadIndexFromHintFile: the last hint of k, without a look at its expiry.
HintPos(k) ==
    LET hs == {i \in DOMAIN hint : hint[i].key = k}
    IN  IF hs = {} THEN NoPos ELSE hint[CHOOSE i \in hs : \A j \in hs : j <= i].pos

\* loadIndexFromWAL over the segments above fin, where the last record of k
\* decides: a merged one without a look at its expiry.  A key without records
\* there keeps the position pos.
WALPos(k, pos) ==
    LET ps == {p \in Positions(segs, {s \in DOMAIN segs : s > fin}) : At(segs, p).key = k}
        last == CHOOSE p \in ps : \A q \in ps : ~Before(p, q)
        r == At(segs, last)
    IN  IF ps = {} THEN pos
        ELSE IF /\ r.type = "Normal"
                /\ r.batchId = MergeFinishedBatchID \/ ~IsExpired(r.expire, now)
             THEN last ELSE NoPos

loadIndex == [k \in Keys |-> WALPos(k, HintPos(k))]

Reopen ==
    /\ loader.stage = "reopen"
    /\ index' = loadIndex
    /\ walOpen' = Unused
    /\ mode' = IF loader.who = "open" THEN "open" ELSE mode
    /\ merger' = IF loader.who = "open" THEN merger ELSE [merger EXCEPT ![loader.who] = NoMerge]
    /\ loader' = NoLoad
    /\ UNCHANGED <<disk, mdir, mergeRunning, clocks, store>>
-----------------------------------------------------------------------------
Closable == (IF \A m \in Mergers : merger[m].pc = "idle" THEN "idle" ELSE "merging") \in CloseIn

\* Close first waits until mergeRunning is 0, then takes db.mu; a merge may
\* start in between.
CloseWait ==
    /\ mode = "open" /\ ~closing /\ ~mergeRunning
    /\ Closable
    /\ closing' = TRUE
    /\ UNCHANGED <<disk, mdir, index, mode, fileLock, walOpen, mergeRunning, merger, loader, now,
                   writes, merges, crashes, store>>

Close ==
    /\ Unlocked /\ closing
    /\ Closable
    /\ closing' = FALSE
    /\ mode' = "closed"
    /\ closeFiles
    /\ fileLock' = FALSE
    /\ UNCHANGED <<disk, mdir, index, mergeRunning, merger, loader, now, writes, merges,
                   crashes, store>>

Phase ==
    IF loader.stage # "idle" THEN "loading"
    ELSE IF \E m \in Mergers : merger[m].pc # "idle" THEN "merging" ELSE "idle"

\* The process ends, and the operating system releases its lock; what it wrote
\* stays with the operating system.
ProcessEnds ==
    /\ mode' = "down" /\ fileLock' = FALSE
    /\ closing' = FALSE
    /\ index' = [k \in Keys |-> NoPos]
    /\ walOpen' = 0
    /\ mergeRunning' = FALSE
    /\ merger' = [m \in Mergers |-> NoMerge]
    /\ loader' = NoLoad
    /\ UNCHANGED <<disk, mdir, now, writes, merges, store>>

\* The server gives up when Open fails.
Exit == mode = "failed" /\ ProcessEnds /\ UNCHANGED crashes

Crash ==
    /\ mode \notin {"down", "failed"} /\ Phase \in CrashIn /\ crashes < MaxCrashes
    /\ ProcessEnds
    /\ crashes' = crashes + 1

Init ==
    /\ segs = [s \in {1} |-> <<>>] /\ hint = <<>> /\ fin = 0
    /\ mdir = NoDir
    /\ index = [k \in Keys |-> NoPos]
    /\ mode = "open" /\ fileLock = TRUE /\ closing = FALSE /\ walOpen = 1
    /\ mergeRunning = FALSE
    /\ merger = [m \in Mergers |-> NoMerge]
    /\ loader = NoLoad
    /\ now = 2 /\ writes = 0 /\ merges = 0 /\ crashes = 0
    /\ store = [k \in Keys |-> Absent]

MergeRun(m) ==
    \/ OpenMergeDB(m)
    \/ NewReader(m)
    \/ MergeRecord(m)
    \/ CreateMergeFin(m)
    \/ WriteMergeFin(m)
    \/ MergeLock(m)

DoMerge(m) ==
    \/ \E reopen \in Reopens : MergeStart(m, reopen)
    \/ MergeNothing(m)
    \/ MergeRun(m)

LoadStep ==
    LoadBegin \/ LoadRemove \/ LoadMove \/ LoadMergeFin \/ LoadHint \/ LoadRemoveDir \/ Reopen

Next ==
    \/ \E k \in Keys, v \in Values, ttl \in TTLs : PutTTL(k, v, ttl)
    \/ \E k \in Keys : Delete(k)
    \/ Tick
    \/ \E m \in Mergers : DoMerge(m)
    \/ LoadStep
    \/ OpenStart
    \/ CloseWait
    \/ Close
    \/ Crash
    \/ Exit

Spec == Init /\ [][Next]_vars

\* The goroutines of Merge and of Open keep running, a server that could not
\* open its database exits, and a server that is down is started again.
Fairness ==
    /\ \A m \in Mergers : WF_vars(MergeRun(m))
    /\ WF_vars(LoadStep)
    /\ WF_vars(Exit)
    /\ WF_vars(mode = "down" /\ OpenStart)

FairSpec == Spec /\ Fairness
-----------------------------------------------------------------------------
IsFile(f) == \A s \in DOMAIN f : s \in Nat \ {0} /\ f[s] \in Seq(LogRecords) /\ Len(f[s]) <= SegCap
Pcs == {"idle", "opendir", "reader", "scan", "fin", "lock", "loading"}
Stages == {"idle", "begin", "remove", "move", "fin", "hint", "rmdir", "reopen"}

TypeOK ==
    /\ IsFile(segs) /\ IsFile(mdir.segs)
    /\ fin \in Nat
    /\ DOMAIN segs # {} /\ Active > fin
    /\ \A k \in Keys : index[k] = NoPos \/ index[k] \in (Nat \ {0}) \X (1..SegCap)
    /\ mode \in {"open", "closed", "down", "opening", "failed"}
    /\ fileLock \in BOOLEAN /\ closing \in BOOLEAN /\ mergeRunning \in BOOLEAN
    /\ \A m \in Mergers : merger[m].pc \in Pcs
    /\ loader.stage \in Stages
    /\ walOpen \in Nat

\* What a read of k returns: the record at its position, which must be one of
\* this key.
Reads(k) ==
    LET p == index[k]
        found == p[1] \in DOMAIN segs /\ (IF p[1] \in DOMAIN segs THEN p[2] \in DOMAIN segs[p[1]]
                                                                 ELSE FALSE)
    IN  IF p = NoPos THEN Absent
        ELSE IF ~found THEN [value |-> "read error", expire |-> 0]
        ELSE IF At(segs, p).key # k THEN [value |-> "another key", expire |-> 0]
        ELSE IF IsExpired(At(segs, p).expire, now) THEN Absent
        ELSE [value |-> At(segs, p).value, expire |-> At(segs, p).expire]

\* Whatever merges, reopenings and crashes came in between, a read of an open
\* database returns what was last written: merging drops only what is dead.
NothingLost ==
    Unlocked /\ walOpen # 0 =>
        \A k \in Keys : Reads(k) = IF IsExpired(store[k].expire, now) THEN Absent ELSE store[k]

\* A merge that rewrites records owns the merge directory: nobody removes it
\* or starts another one there (mergeRunning).
MergeDirOwned ==
    \A m \in Mergers :
        merger[m].pc \in {"reader", "scan", "fin"} => mdir.exists /\ mdir.id = merger[m].dir

\* Every call of Merge returns.
MergeReturns == \A m \in Mergers : (merger[m].pc # "idle") ~> (merger[m].pc = "idle")

\* A server that went down comes back: if Open fails, because the crash left an
\* empty MERGEFIN, loadMergeFiles has removed what made it fail, and the server
\* exits and thereby lets go of the file lock that Open keeps.
OpensAgain == (mode \in {"down", "failed"}) ~> (mode = "open")

\* What loadMergeFiles says of a merge that did not complete, "it will return nil":
\* such a merge never makes Open fail.
UnfinishedIgnored == mode # "failed"

\* What Open says of the data directory, that processes "can not use the same
\* database directory at the same time": its files are open only in a process
\* that holds the file lock.
FilesUnderLock == walOpen # 0 => fileLock
============================================================================
