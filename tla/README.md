# RoseDB in TLA+

TLA+ specifications of the storage engine of this repository and of the cluster
around it, the TLC
configurations that check them on small instances, and proofs for TLAPS. The
specifications are translated from the Go code; `PROJECT.json` maps every
definition to the lines it stands for.

## The system

The repository is a key-value store (the packages at its root) and a small
cluster around it (`server/`, `sharding/`, `cmd/`).

| Component | State | Operations | What makes it correct |
|---|---|---|---|
| Log records (`record.go`) | none | build, encode, decode, `IsExpired` | one meaning of expiry everywhere |
| Batches and one-shot calls (`batch.go`, `db.go`) | pending writes and their hash buckets, `db.mu`, index, log | `NewBatch`, `Put`, `PutWithTTL`, `Get`, `Delete`, `Exist`, `Expire`, `TTL`, `Persist`, `Commit`, `Rollback`, `Sync`, `Close` | batches are atomic, isolated, read their own writes; an index position leads to the right record |
| Open and recovery (`db.go`) | index rebuilt from the log | `Open`, `loadIndexFromWAL`, `Close` | exactly the whole batches are visible, what was flushed survives |
| Merge (`merge.go`) | merge directory, HINT, MERGEFIN, `mergeRunning` | `Merge`, `doMerge`, `loadMergeFiles`, `loadIndexFromHintFile` | no live entry is lost, no dead one returns, whatever crashes or runs beside it |
| Watch (`watch.go`) | event ring, channel, goroutine | `putEvent`, `getEvent`, `sendEvent`, `Close` | order of commits, only the oldest events overwritten, nothing stuck |
| Index (`index/`) | a B-tree with its own lock | `Put`, `Get`, `Delete`, scans, iterator over a clone | a finite map with ordered traversal |
| Iterator (`iterator.go`) | a clone of the index, positions held without `db.mu` | `NewIterator`, `Next`, `Rewind`, `Seek`, `Close` | its snapshot, in order, each live key once; never a value of another key |
| Scans (`db.go`) | `db.mu` shared for the whole scan | `Ascend...`, `Descend...` | exactly the live keys of the range |
| DeleteExpiredKeys (`db.go`) | `expiredCursorKey` | one sweep, in batches of 100 | removes all expired keys and no other, and ends |
| Server (`server/server.go`, `cmd/server`) | role, DB | `/put`, `/delete`, `/sync`, `/health`, start and shutdown | writes only on a master |
| Replication (`server/replication.go`) | one goroutine per write and slave | `SyncPut`, `SyncDelete`, three attempts each | a slave ends up with the master's value, or the reason it does not is known |
| Failover (`server/failover.go`) | `consecutiveFailures`, role | heartbeat every 2 s, promotion | exactly after three failures in a row, and in the end if the master stays away |
| Hash ring (`sharding/`) | sorted `keys`, `hashMap` | `AddNode`, `RemoveNode`, `GetNode` | every key has the first virtual node clockwise, and keeps it when others come and go |
| Proxy (`cmd/proxy`) | ring, list of nodes, migrations under way | route, forward, `/add-node`, `migrateData` | no key is lost while it moves, and it is found again |
| CLI, admin page, examples, options, helpers | none | input and output | not modelled |

Interactions. Every operation of `DB` goes through a `Batch`, which holds
`db.mu` (a `sync.RWMutex`) from its creation to `Commit` or `Rollback`. `Commit`
appends to the log, flushes it if asked to, moves the index and puts events into
the watcher's ring; a goroutine moves them to the channel the caller reads.
`Merge` holds `db.mu` only at its start and while it reopens the files; in
between it reads old segments and the index beside writers. `Open` finishes
what a merge left and rebuilds the index from the hint file and the log.
`server` calls the one-shot operations, answers, and leaves the writes to
goroutines that send them to the slaves; slaves ask the master's `/health` and
promote themselves. `proxy` routes requests by the ring; `/add-node` changes the
ring first and moves the keys afterwards, by calls to the servers' handlers.

What is hard to test here: crashes at every step of a commit or of the
installation of a merge; two merges, or a merge and `Close`, in an order nobody
intended; reads that change the index under a shared lock; hash collisions
between pending keys; lifetimes that overflow; the event ring at its limits; an
iterator whose positions a merge has moved; replication requests that overtake
each other or arrive after they were given up; a promotion beside a late request
of the old master; a migration beside writes, failing calls and another one.
`PROJECT.json` lists these hazards at their lines.

## Modules

| Module | Models |
|---|---|
| `LogRecord` | `record.go`: record types, `IsExpired`, expiry arithmetic in a scaled-down int64 |
| `RoseDB` | a running instance: log, index, clock, `db.mu`, batches, every method of `Batch`, `Sync`, `Close` |
| `KVStore` | the abstract store: a map with expiry, and batches as overlays on it |
| `RoseDBRefinement` | the refinement mapping from `RoseDB` to `KVStore` |
| `RoseDBProofs` | the theorems about `RoseDB`, the refinement included |
| `Recovery`, `RecoveryProofs` | `RoseDB` with crashes, and `Open`; its theorems |
| `Watcher`, `WatcherProofs` | event ring, `sendEvent`, channel, `Close`; its theorems |
| `Merge`, `MergeProofs` | segments, merge directory, `doMerge`, `loadMergeFiles`, reopening, `Open`, `Close`, crashes; its theorems |
| `MemoryBTree` | `index/btree.go`: ordered scans and the index iterator, as operators |
| `Iterate`, `IterateProofs` | `iterator.go`, the ten scans and `DeleteExpiredKeys` of `db.go`, next to writes, a merge and the clock; its theorems |
| `ConsistentHash` | `sharding/consistent_hash.go`, as operators on a ring |
| `HashRing`, `HashRingProofs` | any sequence of `AddNode` and `RemoveNode`; its theorems |
| `Cluster`, `ClusterProofs` | `server/` and `cmd/server`: a master, its slaves, replication, failover, restarts; its theorems |
| `Proxy`, `ProxyProofs` | `cmd/proxy`, over `ConsistentHash`: routing, forwarding, `/add-node`, `migrateData`; its theorems |
| `MC*` | the instances TLC checks: hash function, lifetimes, symmetry |

### RoseDB

`dataFiles` is the log as a sequence of records; a position is a place in it.
`index` maps a key to a position or 0. A record of type `BatchFinished` ends a
batch. A batch has the fields of the Go struct that matter: `pendingWrites`,
`pendingWritesMap` (hash to indices), its options, `committed`, `rollbacked`,
and `next`, which says what its owner calls next: anything, or, for the one-shot
methods of `DB`, one operation and then `Commit` or `Rollback`. Each method is
one step because the batch holds `db.mu` throughout; the clock is the only thing
that moves between its steps, and readers interleave with readers. A write may
fail (`WriteAll` returns an error and has written nothing, as the WAL library
promises) and so may a flush (the records are in the log, the index is left
alone). `resp` is the answer of the last call; the refinement compares it with
that of the abstract store. `TTL` of a key deleted in the same batch answers -1,
as the code does and its test expects. Errors of `dataFiles.Read` (`batch.go:204`,
`281`, `325`, `377`, `430`) are left out: the call returns the error and nothing
changes. `Sync` has no failing outcome here; a failing flush is one of `Commit`.

The batch id is a snowflake id of node 1 created for each commit, so two commits
of one millisecond may share an id: the model uses the clock itself.

### Recovery

A crash keeps a prefix of the log that holds at least what was flushed, and may
cut the batch being committed; `Open` applies `ReplayRecord` to one record after
the other of what is left (the recursive function `replay`).
The cut is between records: the WAL checks a CRC for each chunk and drops a
broken tail. A restart takes at least a millisecond, so ids of batches before
and after it differ. The history variables `torn`, `failed` and `promised`
remember which positions belong to unfinished or failed batches and what a flush
has promised.

### Merge

Segments appear here: `segs` maps an id to at most `SegCap` records. A write is
a whole one-record batch, since batches are the subject of `RoseDB` and
`Recovery`. A merge is a sequence of steps: `MergeStart` (under `db.mu`:
rotate), `OpenMergeDB`, `NewReader`, one `MergeRecord` per record (it reads the
index, appends to the merge directory and to the hint file; the positions still to
be read are a set, taken in log order by `NextPos`), `CreateMergeFin`,
`WriteMergeFin`, and for `Merge(true)` `MergeLock` and the loading steps.
`loadMergeFiles` is a step for each removal and each move; the same steps serve
`Open`. A directory and an open WAL carry a generation, so that a goroutine that
writes to removed files or reads through a closed WAL is told apart from one
that does not. `store` is the history of what each key should read as.

`fileLock` is the lock `Open` takes on the data directory (`db.go:90-98`). `Close`
and the end of the process release it; an `Open` that fails in `loadMergeFiles`
does not (`db.go:101-103`): the database is then `failed`, another `Open` of the
process gets `ErrDatabaseIsUsing`, which changes nothing, and only the end of the
process (`Exit`, the `log.Fatalf` of `cmd/server/main.go:43`) makes way for the
next. `OpensAgain` is about this: what made `Open` fail, the empty MERGEFIN of a
merge that a crash cut off, was removed by the failing call, so that a server which
exits and is started again opens its database. That `Open` should not have
failed in the first place is what `MergeUnfinished.cfg` shows.

Simplifications: `OpenMergeDB` (removing the old directory, opening a database and
a hint file in its place) is one step, and so is the rebuilding of the index;
`MergeRecord` is atomic and does not run while files are being
moved; `Open` starts when no `Merge` of the process is running; a MERGEFIN that
is moved while it is still empty is not modelled; a crash is one of the process,
so that what was written stays; a file lock is not given up by the garbage
collector. The database `openMergeDB` opens has a lock file of its own in the
merge directory, and copies all options but two (`merge.go:181-186`): with
`AutoMergeCronExpr` it has a cron job of its own, which may call `Merge(true)` on
it, and with `WatchQueueSize` a watcher nobody reads. Neither is modelled.

### Watcher

An event is its number. `putEvent` and `getEvent` are atomic under the watcher's
mutex; the goroutine is at the outer select (`loop`), before `getEvent` (`get`),
at the inner select (`send`), returned or panicked. A send on a closed channel
is ready at once and panics, as in Go; when several cases of a select are ready
any may be taken.

### Iterate

The log is a sequence of records and the index a map to places in it; keys are
numbers in the order of `bytes.Compare`. Init has any set of keys, each with or
without a lifetime. Writes are one step (they are the subject of `RoseDB`), and
`Merge(true)` leaves the live records at new places and rebuilds the index.

* Iterator: `NewIterator` clones the index; `NextItem`, `Rewind` and `Seek` move
  the index iterator and are followed by `SkipToNext`, one step per round: the
  iterator takes no `db.mu` at all, neither to clone the index nor to read a record
  (`iterator.go:32`, `128`), so writes, expiry and a merge come in between.
  A failed read is skipped (`ContinueOnError`) or closes the iterator. After a
  merge the positions of the clone lead elsewhere: nothing is there, or another
  record, which is returned with its own key. `ItemWritten` says that a key and
  a value that are returned together were written together, even then;
  `IteratorFaithful` describes the iterator until a merge moves the records.
* Scans: `db.mu` is held shared from beginning to end; `ScanKey` is the callback
  at one key. An error of `Read` stops the scan, and the caller is not told.
  `asked` is what the caller asks for, for a range both its ends and what is
  between, as the comments have it; `end` is the end the code leaves out. The
  callback is assumed not to call methods of the DB that take a lock.
* Sweep: `SweepCall` reads the time, `SweepLock` waits for `db.mu`,
  `SweepCollect` collects at most `BatchSize` positions, `SweepCheck` looks at
  one. The timeout only lets the caller go, so it changes nothing here.

One of the three is chosen in Init: an iterator shares no state with the other
two, and those exclude each other through `db.mu`.

`ScanComplete` leaves the end of a range open: the comments (`db.go:419`, `540`,
`index/index.go:26`, `38`) write `[startKey, endKey]`, code and tests leave it out,
and `ScanRange.cfg` shows the disagreement. `IteratorSeek.cfg` shows another: `Seek` does
nothing on an iterator that has reached its end, where its comment says that it
positions it; the history `range` follows the code. What no comment speaks of:
after a merge an item need not match the prefix of the iterator, since the prefix
is compared with the key of the index.

A write and the rebuilding of the index by `Merge(true)` are one step each. In the
code `NewIterator` may clone the index between two entries of a `Commit`, or while
`Merge(true)` fills the new index (`merge.go:58-60`).

### HashRing

A ring is `keys`, how many virtual nodes there are at each position (the sorted
slice, in which positions repeat), and `hashMap`. `AddNode` adds its virtual
nodes and overwrites the entries of positions that were taken; `RemoveNode`
takes one element off each of its positions and deletes the entry, even where
another node's virtual node is left. `GetNode` then finds a position without an
entry and answers "", which its comment keeps for an empty ring (`RingOrphans.cfg`). The hashes of the virtual nodes are chosen in Init, all
assignments up to symmetry, and nodes may be added twice or removed when absent.
`RoutesToMembers` and what `MovesOnlyItsKeys` says of additions hold all the same;
`FirstClockwise` and removals need that no two servers' virtual nodes share a
position (`NoCollision`), and `FirstClockwise` that a server is removed as often
as it was added (`Balanced`).

### Cluster

A handler is one step: the role is read, the DB written, the goroutines started.
Each accepted write has a goroutine per slave with the number of its attempt. An
attempt that was sent is in `net` until the slave handles it or the connection
fails; the goroutine may give it up before (the client's 3 seconds) and send the
next, so that a slave may apply a write twice, late, or after a newer one. A
killed master takes its goroutines with it, not what it has sent. A promoted
slave accepts writes, has no replicator, and becomes a slave again when it is
started again. `may` is the history that `QuietValue` is about: the values a
slave can have of a key once nothing is under way. It is a single value after a
write that ran alone, and grows only when writes of the same key overlap or one
is given up: that is the strongest promise the code keeps, since nothing orders
the goroutines.

What follows from the code and is no error of the model: writes of one key in
quick succession may leave a slave with the older one for good; a write given up
after three attempts is never sent again; two slaves that lose the master both
become masters, and the old master stays one; a promoted slave still applies what
`/sync` brings. No document of the repository promises otherwise in so many
words, so there is no run about it; `QuietValue` and `PromotedAfterThree` say
exactly how far it goes.

Slaves do not act on one another, so one is enough for the instance. It has two
attempts for a write where `replication.go:58` has three: two suffice for an attempt
that is given up and still arrives; the theorems hold for any number.

### Proxy

`Route` reads the ring, `Forward` is the call to the server, at any time after
it. `/add-node` is `ListNodes` and `AddServer`, each under the proxy's lock, and
the goroutine: `FetchKeys` per old server, `CheckKey` per key, then `GetValue`,
`PutValue` and `DeleteKey`, one HTTP call each. Any of the calls may fail, with
or without effect at the server (`Fault`); `/keys` may also answer 200 with a part
of the keys, since a record that can not be read ends `AscendKeys` without an error
(`db.go:476`). The servers of the ring are masters: a slave there (as in the example
of `README-VI.md:150`) refuses `/put` and `/delete`, which is among the failing
calls and nothing of its own. Values go through `Transfer`: the
migration trims them and does not escape them, and `/put` refuses an empty one.
`Parts` is what an interrupted `ReadAll`, whose error is ignored, may have read.
The keys of a server are visited in any order, although `/keys` lists them in
ascending order.

The histories `dirty`, `redel`, `overlap` and `readded` name the cases in which
the code promises less, each of which is a behaviour of the code: a write during
a migration may be overwritten by the value the migration read before; a key
deleted meanwhile may come back, or be lost when it is put again; with two
overlapping requests a key may end at a server the ring does not name; adding a
server that is already there migrates its keys onto itself and then deletes
them. Reads of a key that has not moved yet miss, while `README-VI.md:280` says
that clients are served normally throughout (`ProxyServes.cfg`); `ReachableAgain` says
that this ends.

## What the runs check

Runs that pass:

| Run | Properties | Bounds, and why they are enough |
|---|---|---|
| `rosedb` | `TypeOK`, `IndexSound`, `NeverPanics`, `PendingConsistent`, `WriterAlone`, `RefinesKVStore` | two callers, the smallest number at which readers share the lock or a writer waits; two keys in one hash bucket; an ordinary lifetime and one that overflows; a flushing `NewBatch` beside one-shot calls that do not flush; the log holds a whole two-record batch |
| `recovery` | `RTypeOK`, `IndexMatchesLog`, `PromisesKept` | a log with room for a whole batch, a torn one and one after the restart; a cut at any record; lifetimes, but not in a batch that is cut in two (`TornExpiring`) |
| `watcher` | `TypeOK`, `RingHoldsLatest`, `OrderedDelivery`, `EveryEventOvertaken` | enough events to overflow and wrap the ring more than once, a channel that fills |
| `merge` | `TypeOK`, `NothingLost`, `MergeReturns` | two merges, with and without reopening, three writes, two records in a segment, so that the merge directory rotates too; a lifetime that ends before or after a merge; `Close` and `Open` between merges (for the files a crash of an idle process is the same, so `CrashIn = {}`) |
| `merge_crash` | `NothingLost`, `MergeDirOwned`, `OpensAgain` | two goroutines in `Merge(false)`, a crash at any of their steps |
| `iterate` | `TypeOK`, `ItemWritten`, `IteratorFaithful`, `ScanComplete`, `SweepSafe`, `SweepThorough`, `SweepEndsAtExpired` | three keys, so that a range has an inside and both ends; batches of two, so that a sweep needs two; one write, one merge, one read error, one tick and two sweeps, so that the second starts at the cursor the first left |
| `hash_ring` | `TypeOK`, `RoutesToMembers`, `FirstClockwise`, `MovesOnlyItsKeys` | all hashes of two virtual nodes each, collisions and wrap-around included, and nodes added up to twice |
| `cluster` | `TypeOK`, `QuietValue`, `OnlyReplicated`, `PromotedAfterThree`, `SyncEnds`, `MasterReplaced` | two writes of one key with two attempts each, so that they overtake each other and arrive late; three failures promote, one of them while the master is up; a write of the promoted slave; two kills and any number of restarts |
| `proxy` | `TypeOK`, `NoKeyLost`, `SingleCopy`, `ReachableAgain` | one key that moves twice and one that moves once, two additions of two servers, also of the same, two writes, one failing call; a plain value, one that is trimmed and one that is refused |

`RefinesKVStore` is the main statement about the engine: whatever the log, the
hash buckets and the index do, a caller sees a map with expiry and atomic,
isolated batches; readers that clean expired keys out of the index under a
shared lock change nothing that can be observed. `NothingLost` is the main
statement about merging, `QuietValue` about replication and `NoKeyLost` about
migration.

Runs that find a disagreement between the code and what it says of itself
(`findings` in `PROJECT.json` quotes the lines):

| Run | Shows |
|---|---|
| `sweep_hangs` | the cursor of `DeleteExpiredKeys` stays at the last key it looked at, which `>=` finds again: unless the greatest key has expired the goroutine never ends and keeps `db.mu`, whatever the timeout |
| `watcher_close` | `Close` closes the channel under `sendEvent`, which may panic |
| `merge_load_crash` | a crash while merged files are moved: the next `Open` removes those already moved |

The passing runs exclude these cases, and those of the lists that follow,
through their constants (`CrashIn`, `CloseIn`, `Reopens`, `Mergers`,
`TornExpiring`) or the premise of the property (`SweepEndsAtExpired`), or have
properties that leave open what is at issue (`ScanComplete`, `OpensAgain`,
`ReachableAgain`).

Statements of the repository's comments and documents that the code does not keep
either, each with the formula it becomes and a configuration in which TLC refutes it
(they are kept beside the runs, and are not among them):

| Configuration | Statement | What the code does |
|---|---|---|
| `ScanRange.cfg` of `MCIterate`, `RangeClosed` | `db.go:419`: "each key/value pair in the db within the range [startKey, endKey]", likewise `db.go:540`, `index/index.go:26`, `index/index.go:38` | the B-tree leaves out the end of a range (`index/btree.go:103`, `116`), as the tests expect |
| `IteratorSeek.cfg` of `MCIterate`, `SeekPositions` | `iterator.go:52`: "Seek positions the iterator at a specific key in the database." | `Seek` returns at once on an iterator that has reached its end (`index/btree.go:204`), although the key is in its snapshot |
| `MergeUnfinished.cfg` of `MCMerge`, `UnfinishedIgnored` | `merge.go:230`: "If there is no merge files, or the merge operation is not completed, it will return nil." | a crash between the creation of MERGEFIN and its first byte makes `ReadAt` fail (`merge.go:315`), and with it `Open`, which keeps the file lock |
| `MergeClose.cfg` of `MCMerge`, `FilesUnderLock` | `db.go:72`: "Multiple processes can not use the same database directory at the same time"; `db.go:192`: "wait for any running merge operation to complete" | `mergeRunning` is reset before `Merge(true)` asks for `db.mu` (`merge.go:40`): `Close` comes in between and releases the file lock, and the merge then moves and opens the files of the closed database |
| `ProxyServes.cfg` of `MCProxy`, `ServedThroughout` | `README-VI.md:280`: throughout the migration the system goes on serving clients normally | `/add-node` changes the ring before the keys have moved (`cmd/proxy/main.go:118`): until its turn comes a key is looked up at a server that does not have it |
| `RingOrphans.cfg` of `MCHashRing`, `AlwaysRoutes` | `consistent_hash.go:85`: `GetNode` returns the target, or "" if the ring is empty | a server added twice and removed once leaves its positions in `keys` without an entry in `hashMap` (`consistent_hash.go:73`), and `GetNode` answers "" on a ring that is not empty; colliding virtual nodes of two servers do the same |

Met while modelling, and shown by the same modules under other constants:

* `TornExpiring = TRUE` with lifetimes in `Recovery`: an expired record of a batch
  that a crash cut short removes an older, committed entry, since
  `loadIndexFromWAL` acts on expiry before it has seen the end of the batch
  (`db.go:728`); `IndexMatchesLog` fails.
* `CrashIn = {"idle", "merging"}` and `CloseIn = {"idle"}` with two merges in
  `Merge`: the hint file of an unfinished merge replaces that of a finished one
  (`merge.go:295`); `NothingLost` fails.
* Two `Mergers` with `Reopens = {TRUE}` in `Merge`: one installs and removes the
  directory the other is writing (`merge.go:40`); `NothingLost` fails.
* `Capacity = 2` in `Watcher` (or 1): `isFull` keeps a slot free, so the ring is
  empty after every push and `EveryEventOvertaken` fails, while `options.go:33`
  says that any size above 0 enables the watch.
* `TTLs = {4}` with `MaxInt = 4` in `Merge`: an expiry that overflowed to a
  negative number never expires for `IsExpired`, but `doMerge` keeps only
  `Expire == 0` or later than now and drops the record, so `NothingLost` fails.
* In `Recovery`, records of a `Commit` whose flush failed (`failed`) are indexed
  by the next `Open`, although the caller was told of an error.
* In `Proxy`, dropping `readded` from `NoKeyLost`: a server added a second time
  loses the keys it has.

Not shown by a model, but visible in the code: a second `Commit` or `Rollback` of
a batch unlocks `db.mu` before it finds out that the batch is finished
(`batch.go:461`), so `RoseDB` has callers that stop at the first; the merge database is written with
`Sync` off and its files replace flushed ones without a flush (`merge.go:183`);
a loss of power, as opposed to a crash of the process, is not part of `Merge`.

`MaxNow`, `MaxLog`, `MaxEvents` and the other constants named `Max...` are bounds
of the instances, except `MaxInt` (the width of an integer) and `MaxRetries` and
`MaxFailures` of `Cluster`, which the code fixes at 3 and 3. `Room` keeps a batch from growing past the end of the
bounded log. Runs check for deadlock except where the system may stop: in
`watcher` (closed and drained), in `iterate`, `cluster` and `proxy`, where the
actors may be done, and in `merge_crash`, where `Close` is left out
(`CloseIn = {}`: a restart in good order would install the first merge, and an
unfinished second one would then replace its hint file) and the counters run out.

Every property of a passing run has a mutant in `PROJECT.json`: a plausible mistake in one
definition (marked "Mutant" in the modules) under which TLC must find the
property violated. Mutants are not part of the specifications.

## Fairness

* `Watcher`: the goroutine `sendEvent` is scheduled (weak fairness of its
  steps; the Go scheduler guarantees it, and it polls in a loop), and the caller
  keeps reading the channel, without which `WatchQueueSize` events at most can be
  held. Nothing is assumed of writers or of `Close`.
* `Merge`: the goroutines in `Merge` and `Open` keep running, a server whose `Open`
  failed exits (`log.Fatalf` in `cmd/server/main.go:43`; the examples panic), and
  one that is down is started again. Weak fairness is enough here because nobody but
  the loader holds `db.mu` for more than a step: batches left open by a caller, and
  a sweep that hangs, are not part of this module. `MergeReturns` therefore says that
  a merge's own loop and the reopening advance, not that a contended lock is obtained.
  No fairness is assumed of writers.
* `Iterate`: the goroutine of a sweep goes on once it has `db.mu`. Nothing is
  assumed of iterators, scans or writers, nor that the lock is obtained.
* `Cluster`: a goroutine of `broadcast` sends its next attempt and its client's
  timeout fires; the ticker of a slave ticks, and a call to a dead master fails
  (the client's 2 seconds). Not that an attempt arrives, that the network loses
  nothing, or that anybody restarts a server.
* `Proxy`: a handler of `/add-node` that has begun and its goroutine go on, as
  every call of `migrateData` ends within 10 seconds. Forwarding a client's
  request has no timeout in the code, and none is assumed.

## Proofs

Every theorem is proved for every value of the constants, from the assumptions
named in the modules that declare them, and for every bound. Most of the
properties are not inductive alone; what follows names the invariant that is, and
why each part is there. Every action has a lemma of its own.

### The engine (`RoseDBProofs`)

Assumptions: finitely many batches, the empty key is no key, lifetimes are
integers, the hash is a function of the key.

* `TypeCorrect`: `Spec => []TypeOK`
* `IndexIsSound`: `Spec => []IndexSound`
* `WriterIsAlone`: `Spec => []WriterAlone`
* `PendingIsConsistent`: `Spec => []PendingConsistent`
* `GetNeverPanics`: `Spec => []NeverPanics`
* `RefinementHolds`: `Spec => RefinesKVStore`

The inductive invariant `IInv` adds that the hash buckets of a batch hold exactly
the indices of its pending records, each under the hash of its key and no key
twice (needed for `PendingConsistent` and for the positions `CommitIndex`
computes), and that `db.mu` agrees with the batches: `wlocked` exactly when a
writer is active, `rcount` the number of active readers (needed for
`WriterAlone`, as the lock has no owner). `IndexSound` after a commit rests on the
fact that the log only grows and that record `i` of the batch lands at
`Len(dataFiles) + i`.

The refinement is shown step by step. The mapping is given pointwise (`Stored` of
a key, `Overlay` of a batch and a key), so that each action of `RoseDB` needs only
the keys and batches it touches. It needs, beyond `IInv`, that a batch that is
over or read-only has nothing pending and that a pending deletion has no expiry
(`Tidy`). A read that removes an expired entry from the index maps to a
stuttering of the abstract store: the entry was absent there already. A tick maps
to the abstract tick, which drops the entries that expire.

### Recovery (`RecoveryProofs`)

* `RecoveryTypeCorrect`: `RSpec => []RTypeOK`
* `FlushedSurvives`: `RSpec => []PromisesKept`
* `RecoveredIndexIsExact`: `RSpec => []IndexMatchesLog`, if `TornExpiring = FALSE`

The invariant `RecInv` describes the shape of a log that commits and crashes can
leave (`Shape`): a record of a whole batch is followed by the rest of the batch
and its end record, with no other record of its key in between; a record of a torn
batch has an id that no later end record carries, since a restart takes a
millisecond. `PromisesKept` follows as what is promised is within what is flushed,
and a crash cuts behind it. For the exactness the invariant adds that no record of
a torn batch has a lifetime, which is what `TornExpiring = FALSE` says and what
the code needs: with such a record the theorem is false, as described above under
"Met while modelling".

What the replay of a log computes is an induction over the log. It is done by
contradiction instead, at the least number of records for which the claim fails:
after `n` records the waiting ones are the live ones whose batch has not ended
(`Waiting`), and the index of a key leads to the last one dealt with, unless that
is dead (`Settled`, `Shows`). The argument takes the least element from the
library's well-foundedness of the natural numbers, and so avoids the induction
theorems the provers cannot instantiate.

### Watch (`WatcherProofs`)

For every capacity of the ring and of the channel:

* `TypeCorrect`: `Spec => []TypeOK`
* `RingIsLatest`: `Spec => []RingHoldsLatest`
* `DeliveryIsOrdered`: `Spec => []OrderedDelivery`

with an invariant that adds that the ring is never full between two steps (so
that `Back = Front` always means empty) and that everything received is older
than everything in the ring. The modulo arithmetic of `Succ` is reduced to case
distinctions first.

### Iterators, scans and sweeps (`IterateProofs`)

For every number of keys, writes, merges, read errors and sweeps and every size of
a batch:

* `TypeCorrect`: `Spec => []TypeOK`
* `ItemsAreWritten`: `Spec => []ItemWritten`
* `IteratorIsFaithful`: `Spec => []IteratorFaithful`
* `ScansAreComplete`: `Spec => []ScanComplete`
* `SweepIsSafe`: `Spec => SweepSafe`
* `SweepIsThorough`: `Spec => SweepThorough`

The invariant `IInv` has one part for each actor. For the iterator it says that,
until a merge, the positions of the clone still lead to the records of the
snapshot (`SnapInv`: the log only grows), and that every key of the snapshot that
matches is ahead of the iterator, was returned, has expired or could not be read
(`SeenInv`); after a merge nothing remains but that every record in the log was
written under its key (`StoreInv`), which is all `ItemWritten` needs. The scan has
the same invariant about the index itself, which `db.mu` keeps as it is. For the
sweep: between the cursor it started at and the keys still in its batch nothing
has expired, and the batch has no gaps (`SweepInv`). A batch has no gaps and begins
at the least key from the cursor on because it is cut by the number of smaller
keys (`BatchLemma`). `SweepSafe` and `SweepThorough` are read off the steps of the
sweep, since nobody else touches the index while it holds `db.mu` (`SweepAlone`).

The theorems do not say that a sweep ends: it need not (`sweep_hangs`).

### The hash ring (`HashRingProofs`)

For every set of servers, number of virtual nodes, size of the ring and hash
function:

* `TypeCorrect`: `Spec => []TypeOK`
* `RoutesAreMembers`: `Spec => []RoutesToMembers`
* `SearchIsClockwise`: `Spec => []FirstClockwise`
* `OnlyItsKeysMove`: `Spec => MovesOnlyItsKeys`

The inductive invariant adds that an entry of `hashMap` names a member that has a
virtual node at that position: the first half is what `RoutesToMembers` reads off
at the position where the search stops, the second turns `NoCollision` into "the
removed server has nothing there". The search itself is a lemma (`SameStop`): of
two rings one of which has all positions of the other, the search stops at the
same position if the one found in the larger ring is in the smaller.
`FirstClockwise` needs an account of the slice `keys`: without collisions a
position occurs in it as often as its server was added and not removed, times the
number of that server's virtual nodes there (`Accounted`); with `Balanced` this
leaves exactly the positions of the members.

### The cluster (`ClusterProofs`)

For every number of slaves, keys, writes, attempts and failures that promote:

* `TypeCorrect`: `Spec => []TypeOK`
* `PromotedAfterFailures`: `Spec => []PromotedAfterThree`
* `SlaveOnlyReplicates`: `Spec => []OnlyReplicated`
* `QuietSlaveExplained`: `Spec => []QuietValue`

`TypeOK` needs that a goroutine that has not ended works for an accepted write, at
an attempt it may still make, and that a slave that has not taken over has counted
fewer failures than promote. `PromotedAfterThree` needs that the count of a slave
is the number of failures at the end of its last heartbeats. `OnlyReplicated`
needs that only a promoted slave is ever a master, so that nothing but `/sync`
writes to the others. `QuietValue` needs that a write that can still reach a slave,
because its goroutine runs or an attempt of it is out, is among the values expected
there (`Announced`), and that the value a slave has is expected too, also while
attempts that nobody waits for are out, except where a goroutine still has to bring
about its write (`Explained`).

### The proxy (`ProxyProofs`)

For every number of servers, keys, requests and failing calls, every hash function
and every effect of the transfer on a value:

* `TypeCorrect`: `Spec => []TypeOK`
* `KeysSurviveMigration`: `Spec => []NoKeyLost`
* `OneCopyAfterMigration`: `Spec => []SingleCopy`, if `Settles`

Why no copy is lost is not a matter of one migration: the copy it has put at its
new server may be moved on, by another migration, before it deletes the old one.
The invariant orders the servers by the time they were added (`Lineup`: a migration
moves keys only from servers added before its own to its own) and says that a key
about to be deleted has a copy at the new server or at one added later
(`CopyAhead`). Moves go up that order, so the deletion of a copy never takes the
last one. A server that is added twice breaks the order, and the property excludes
it.

`SingleCopy` speaks of the end of a migration, so its invariant `SInv` follows every
key through it, as long as there was no failed call, no overlap and no server added
twice (`Orderly`). A key is at the server the ring names and nowhere else (`Home`);
or the ring names the new server already and the only copy is at a server the
goroutine has still to visit, or is visiting with the key still among those to look
at (`Waits`); or it is the key just put and not yet deleted, which two servers have
(`Copied`). `InHand` ties the value and the key the goroutine holds between its
calls to the servers. When the ring changes, keys pass to the new server only
(`AddNodeMoves`, as for the hash ring), and who had them is on its list, since the
ring names only servers of `nodes` (`RingListed`); when the list is empty nothing
can be waiting any more. The old and the new server differ because of `Lineup`.
`Settles` is that a transferred value is not changed by a second transfer. Trimming
is like that, and so is the instance; a value that the missing escaping changes with
every transfer (`%2525`, `%25`, `%`) is not, and a key that moves twice then has
neither of the two values `SingleCopy` allows.

### Merge (`MergeProofs`)

For every number of goroutines, keys, merges, writes and restarts and every size of
a segment:

* `TypeCorrect`: `Spec => []TypeOK`
* `MergeOwnsItsDirectory`: `Spec => []MergeDirOwned`, if `OneReopener`
* `MergeLosesNothing`: `Spec => []NothingLost`, if `Careful`

The hypotheses are about the constants that say what may happen, and exclude what
"What the runs check" describes as losing data. `OneReopener`: one goroutine calls
`Merge`, or any number do and none passes `true`; without it a second merge has its
directory installed and removed under it. `Careful` adds: no crash inside
`loadMergeFiles`, no `Close` that catches a `Merge`, no expiry that overflows, and,
where a crash may hit a merge, a single crash, no clean `Close` and no reopening, so
that the hint file of an unfinished merge never replaces that of a finished one. The
instances of `merge` and `merge_crash` satisfy it.

Types need `Beyond` (the active segment is larger than every segment id a merge or a
load has noted down) and `Reading` (what a merge has left to read exists as long as
its WAL is open). Ownership needs `Roles`, that `mergeRunning` says whether a merge
is in `doMerge` and that a load excludes one, and `Reopening`. A database whose
`Open` failed is, for the invariants, one without a process: nothing is running and
what is on disk is what the next `Open` will find.

`NothingLost` is about the index, and the index is only as good as what it was built
from. `LossInv` therefore has one statement for every place where the truth about a
key can be at the time:

* `IndexOK`, in memory: the position of a key leads to its last write, or there is
  none and the last write is dead;
* `DiskOK` (`Whole`), on disk: the last record of a key beyond MERGEFIN is its last
  write, and a key without such a record has the right hint, or none and is dead;
  this is what makes the index of the next `Open`;
* `Merging`, while a merge scans: a key without a record beyond the merged segments
  has the right hint in the merge directory, or the record its index entry leads to
  is still to be read; and what has been rewritten ends before what has not been
  read, so that a merged file is never larger than those it replaces;
* `Finished`, between the end of a merge and its installation, `fin < mdir.fin`
  included: a finished merge is never older than the installed one;
* `Loading`, while files are moved: the right record is among the segments moved if
  its segment id is below the loader's, and among those to come otherwise;
* `Torn`, what a merge leaves behind that a crash has cut off: its hints are
  installed without its segments, which does no harm only while no merge was
  installed before, since the whole log is then replayed over them.

Writes, expiry, the steps of a merge and of a load each take one of these to
another. The clock can only make entries dead, which is why no negative expiry may
occur: `doMerge` and `IsExpired` disagree about those.

### Only model-checked

* All liveness (`EveryEventOvertaken`, `MergeReturns`, `OpensAgain`,
  `SweepEndsAtExpired`, `SyncEnds`, `MasterReplaced`, `ReachableAgain`), which needs
  fairness and `ENABLED`.

## Not modelled

The byte layout of records, the WAL library (external: appends, reads by
position, flushes; `options.Sync` is taken to flush each write), the inside of the
B-tree library, statistics and option checks, the wording of HTTP requests and
answers. The command line client, the admin page, the examples and the benchmarks
only read input, print output or call the interfaces that are modelled.

Keys that need escaping in a URL: `migrateData` does not escape them
(`main.go:227`), and the keys of `Proxy` are plain. A `Commit` moves the index
entry by entry, and `NewIterator` clones the index without `db.mu`, so an iterator
can see half of a batch, or part of the keys while `Merge(true)` rebuilds the index;
in the modules these are one step. Processes that stop
for a while and go on are, in `Cluster`, the heartbeats that fail although the
master is up.

## Plan

1. Done: `LogRecord`, `RoseDB`, `KVStore` and the refinement; `Recovery`;
   `Watcher`; `Merge`; `Iterate`; `HashRing`; `Cluster`; `Proxy`; every safety
   property of every passing run as a theorem, as stated above.
2. Next: a `Commit` that moves the index entry by entry, for iterators created
   in between; the loss of power, and the cron job of the merge database, in `Merge`;
   keys that need escaping in `Proxy`.
