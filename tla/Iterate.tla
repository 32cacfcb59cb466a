------------------------------ MODULE Iterate ------------------------------
(***************************************************************************)
(* The three ways to walk through the whole DB, next to a writer, a merge  *)
(* and the passing of time: an Iterator (iterator.go), the ordered scans   *)
(* (db.go, Ascend and its kin) and DeleteExpiredKeys.                      *)
(*                                                                         *)
(* One of the three is chosen at the start: an Iterator works on a clone   *)
(* of the index and is not disturbed by the others, and a scan and a sweep *)
(* exclude each other by db.mu.  Writes are the one-shot operations, one   *)
(* step each under db.mu; a Merge(true) leaves the live records, at new    *)
(* positions, and rebuilds the index.  What is inside those steps is the   *)
(* subject of RoseDB and Merge.                                            *)
(***************************************************************************)
EXTENDS MemoryBTree, Sequences

CONSTANTS
    Keys,        \* 1 .. n
    Actors,      \* which of "iterator", "scan", "sweep" are looked at
    Matches,     \* the keys a prefix or a pattern lets pass: a set of sets
    Expiries,    \* expiry times of the records there are at the start, 0 for none
    BatchSize,   \* positions DeleteExpiredKeys collects at a time
    MaxClock, MaxWrites, MaxMerges, MaxErrors, MaxSweeps   \* bounds

ASSUME IterateAssumption ==
    /\ IsFiniteSet(Keys) /\ Keys = 1 .. Cardinality(Keys) /\ Matches \subseteq SUBSET Keys
    /\ Actors \subseteq {"iterator", "scan", "sweep"} /\ Expiries \subseteq Nat
    /\ BatchSize \in Nat \ {0}
    /\ {MaxClock, MaxWrites, MaxMerges, MaxErrors, MaxSweeps} \subseteq Nat

VARIABLES
    log, index,   \* the data files as a sequence of records; the index
    clock,
    mu,           \* db.mu: "free", "read" by a scan or "write" by a sweep
    actor,
    it, scan, sweep,
    cursor,       \* db.expiredCursorKey, 0 for nil
    wrote,        \* history: key and value of every record written
    writes, merges, errors, sweeps   \* counters for the bounds

store == <<log, index, wrote, writes, merges>>
vars == <<store, clock, mu, actor, it, scan, sweep, cursor, errors, sweeps>>

NoItem == <<0, 0>>

\* LogRecord.IsExpired; a value of 0 stands for a record of type Deleted
Expired(r, now) == r.exp > 0 /\ r.exp <= now
Live(r, now) == r.val # 0 /\ ~Expired(r, now)
Strictly(reverse, s) == \A i, j \in 1 .. Len(s) : i < j => IF reverse THEN s[i] > s[j] ELSE s[i] < s[j]

\* The elements of S, a set of numbers, smallest first.
InOrder(S) ==
    CHOOSE f \in [1 .. Cardinality(S) -> S] :
        /\ \A x \in S : \E i \in 1 .. Cardinality(S) : f[i] = x
        /\ \A i, j \in 1 .. Cardinality(S) : i < j => f[i] < f[j]

Init ==
    /\ \E S \in SUBSET Keys : \E exp \in [S -> Expiries] :
          LET keys == InOrder(S)
          IN  /\ log = [i \in 1 .. Len(keys) |-> [key |-> keys[i], val |-> i, exp |-> exp[keys[i]]]]
              /\ index = [k \in Keys |-> IF k \in S THEN CHOOSE i \in 1 .. Len(keys) : keys[i] = k ELSE 0]
    /\ wrote = {<<log[i].key, log[i].val>> : i \in 1 .. Len(log)}
    /\ clock = 0 /\ mu = "free" /\ cursor = 0
    /\ actor \in Actors
    /\ it = [pc |-> "none"]
    /\ scan = [pc |-> "none"]
    /\ sweep = [pc |-> "idle"]
    /\ writes = 0 /\ merges = 0 /\ errors = 0 /\ sweeps = 0

-----------------------------------------------------------------------------
\* The rest of the program
Append1(k, v, e, pos) ==
    /\ mu = "free" /\ writes < MaxWrites
    /\ writes' = writes + 1
    /\ log' = Append(log, [key |-> k, val |-> v, exp |-> e])
    /\ index' = [index EXCEPT ![k] = pos]
    /\ UNCHANGED <<clock, mu, actor, it, scan, sweep, cursor, merges, errors, sweeps>>

Put(k) ==
    LET v == Cardinality(Keys) + writes + 1
    IN  /\ \E e \in {0, clock + 1} : Append1(k, v, e, Len(log) + 1)
        /\ wrote' = wrote \cup {<<k, v>>}

Delete(k) == index[k] # 0 /\ Append1(k, 0, 0, 0) /\ UNCHANGED wrote

\* Mutant: the index is not rebuilt.
MergeKeepsIndex ==
    /\ mu = "free" /\ merges < MaxMerges
    /\ merges' = merges + 1
    /\ log' = SelectSeq(log, LAMBDA r : \E k \in Keys : index[k] # 0 /\ log[index[k]] = r /\ Live(r, clock))
    /\ it' = IF it.pc = "none" THEN it ELSE [it EXCEPT !.stale = TRUE]
    /\ UNCHANGED <<index, clock, mu, actor, scan, sweep, cursor, wrote, writes, errors, sweeps>>

Merge ==
    /\ mu = "free" /\ merges < MaxMerges
    /\ merges' = merges + 1
    /\ LET kept == {p \in 1 .. Len(log) : index[log[p].key] = p /\ Live(log[p], clock)}
           at   == InOrder(kept)
       IN  /\ log' = [i \in 1 .. Len(at) |-> log[at[i]]]
           /\ index' = [k \in Keys |-> IF index[k] \in kept THEN CHOOSE i \in 1 .. Len(at) : at[i] = index[k]
                                                            ELSE 0]
    /\ it' = IF it.pc = "none" THEN it ELSE [it EXCEPT !.stale = TRUE]
    /\ UNCHANGED <<clock, mu, actor, scan, sweep, cursor, wrote, writes, errors, sweeps>>

Tick == clock < MaxClock /\ clock' = clock + 1 /\ UNCHANGED <<store, mu, actor, it, scan, sweep, cursor, errors, sweeps>>

\* dataFiles.Read(p): there is no record at p any more, or the file can not be read
ReadFails(p) == IF p > Len(log) THEN UNCHANGED errors ELSE errors < MaxErrors /\ errors' = errors + 1
Reads(p) == p <= Len(log) /\ UNCHANGED errors

-----------------------------------------------------------------------------
\* Iterator.  NewIterator clones the index without db.mu; the record of the
\* iterator keeps, as a history, the snapshot (snap), what was returned since
\* the last repositioning (seen), from which keys (range), and whether a merge
\* has moved the records (stale) or a read failed (failed).
NewIterator(reverse, match, cont) ==
    /\ actor = "iterator" /\ it.pc = "none"
    /\ it' = [pc |-> "skip", iter |-> IterNew(index, reverse), match |-> match, cont |-> cont,
              item |-> NoItem, snap |-> [k \in Items(index) |-> log[index[k]]], seen |-> <<>>,
              range |-> Keys, stale |-> FALSE, failed |-> FALSE]
    /\ UNCHANGED <<store, clock, mu, actor, scan, sweep, cursor, errors, sweeps>>

\* A call positions the index iterator and then runs skipToNext.
Position(i, seen, range) ==
    /\ it.pc = "idle"
    /\ it' = [it EXCEPT !.pc = "skip", !.iter = i, !.item = NoItem, !.seen = seen, !.range = range]
    /\ UNCHANGED <<store, clock, mu, actor, scan, sweep, cursor, errors, sweeps>>

NextItem == Position(IterNext(it.iter), it.seen, it.range)
Rewind == Position(IterRewind(it.iter), <<>>, Keys)
Seek(k) ==
    /\ it.pc = "idle"
    /\ IF it.iter.valid
       THEN Position(IterSeek(it.iter, k), <<>>, {j \in Keys : IF it.iter.reverse THEN j <= k ELSE j >= k})
       ELSE Position(IterSeek(it.iter, k), it.seen, it.range)

Close ==
    /\ it.pc = "idle"
    /\ it' = [it EXCEPT !.pc = "closed"]
    /\ UNCHANGED <<store, clock, mu, actor, scan, sweep, cursor, errors, sweeps>>

\* skipToNext, one round of its loop: at an entry that does not match, whose
\* record is gone, deleted or expired, or that is returned
SkipRound(iter, pc, item, failed) ==
    /\ it' = [it EXCEPT !.pc = pc, !.iter = iter, !.item = item, !.failed = failed,
                        !.seen = IF item = NoItem THEN @ ELSE Append(@, item)]
    /\ UNCHANGED <<store, clock, mu, actor, scan, sweep, cursor, sweeps>>

Pos == it.iter.tree[it.iter.current]

\* Mutant: the key of the index entry with the value of the record.
SkipToNextIndexKey ==
    /\ it.pc = "skip"
    /\ IF ~it.iter.valid THEN SkipRound(it.iter, "idle", NoItem, it.failed) /\ UNCHANGED errors
       ELSE IF it.iter.current \notin it.match
       THEN SkipRound(IterNext(it.iter), "skip", NoItem, it.failed) /\ UNCHANGED errors
       ELSE \/ /\ ReadFails(Pos)
               /\ IF it.cont THEN SkipRound(IterNext(it.iter), "skip", NoItem, TRUE)
                             ELSE SkipRound(it.iter, "closed", NoItem, TRUE)
            \/ /\ Reads(Pos)
               /\ IF Live(log[Pos], clock) THEN SkipRound(it.iter, "idle", <<it.iter.current, log[Pos].val>>, it.failed)
                  ELSE SkipRound(IterNext(it.iter), "skip", NoItem, it.failed)

SkipToNext ==
    /\ it.pc = "skip"
    /\ IF ~it.iter.valid THEN SkipRound(it.iter, "idle", NoItem, it.failed) /\ UNCHANGED errors
       ELSE IF it.iter.current \notin it.match
       THEN SkipRound(IterNext(it.iter), "skip", NoItem, it.failed) /\ UNCHANGED errors
       ELSE \/ /\ ReadFails(Pos)
               /\ IF it.cont THEN SkipRound(IterNext(it.iter), "skip", NoItem, TRUE)
                             ELSE SkipRound(it.iter, "closed", NoItem, TRUE)
            \/ /\ Reads(Pos)
               /\ IF Live(log[Pos], clock) THEN SkipRound(it.iter, "idle", <<log[Pos].key, log[Pos].val>>, it.failed)
                  ELSE SkipRound(IterNext(it.iter), "skip", NoItem, it.failed)

-----------------------------------------------------------------------------
\* Scans.  A scan holds db.mu and the lock of the index from its first key to
\* its return: the keys to visit are those at the start.  asked is a history:
\* the keys the caller means by the comments on the scans, which write a range as
\* [startKey, endKey], whether they are there or not; end is the endKey, 0 if
\* there is none.
Scan(reverse, todo, asked, end, match, filter) ==
    /\ actor = "scan" /\ scan.pc = "none" /\ mu = "free"
    /\ mu' = "read"
    /\ scan' = [pc |-> "run", reverse |-> reverse, todo |-> todo, asked |-> asked, end |-> end,
                match |-> match, filter |-> filter, out |-> <<>>, start |-> clock]
    /\ UNCHANGED <<store, clock, actor, it, sweep, cursor, errors, sweeps>>

Ascend == Scan(FALSE, Items(index), Keys, 0, Keys, TRUE)
Descend == Scan(TRUE, Items(index), Keys, 0, Keys, TRUE)
AscendFrom(s) == Scan(FALSE, AscendGreaterOrEqual(index, s), {k \in Keys : k >= s}, 0, Keys, TRUE)
DescendFrom(s) == Scan(TRUE, DescendLessOrEqual(index, s), {k \in Keys : k <= s}, 0, Keys, TRUE)
AscendBetween(s, e) == Scan(FALSE, AscendRange(index, s, e), s .. e, e, Keys, TRUE)
DescendBetween(s, e) == Scan(TRUE, DescendRange(index, s, e), e .. s, e, Keys, TRUE)
AscendKeys(match, filter) == Scan(FALSE, Items(index), Keys, 0, match, filter)
DescendKeys(match, filter) == Scan(TRUE, Items(index), Keys, 0, match, filter)
AscendKeysRange(s, e, match, filter) == Scan(FALSE, AscendRange(index, s, e), s .. e, e, match, filter)
DescendKeysRange(s, e, match, filter) == Scan(TRUE, DescendRange(index, s, e), e .. s, e, match, filter)

\* The callback of the scan at the next key: skipped, stopped by an error of
\* Read, which the caller does not get to know, or handed to handleFn, which may
\* end the scan
ScanKey ==
    /\ scan.pc = "run" /\ scan.todo # {}
    /\ LET k == First(scan.todo, scan.reverse)
           r == log[index[k]]
           pass(out, pc) == scan' = [scan EXCEPT !.todo = @ \ {k}, !.out = out, !.pc = pc]
       IN  IF k \notin scan.match THEN pass(scan.out, "run") /\ UNCHANGED errors
           ELSE \/ scan.filter /\ ReadFails(index[k]) /\ pass(scan.out, "stopped")
                \/ scan.filter /\ Reads(index[k]) /\ ~Live(r, clock) /\ pass(scan.out, "run")
                \/ /\ ~scan.filter \/ Live(r, clock)
                   /\ \E pc \in {"run", "stopped"} : pass(Append(scan.out, <<k, r.val>>), pc)
                   /\ UNCHANGED errors
    /\ UNCHANGED <<store, clock, mu, actor, it, sweep, cursor, sweeps>>

ScanReturns ==
    /\ scan.pc = "stopped" \/ (scan.pc = "run" /\ scan.todo = {})
    /\ mu' = "free"
    /\ scan' = [pc |-> "over"]
    /\ UNCHANGED <<store, clock, actor, it, sweep, cursor, errors, sweeps>>

-----------------------------------------------------------------------------
\* DeleteExpiredKeys: now is read before the goroutine waits for db.mu.  The
\* caller returns when its timeout passes; the goroutine goes on.
SweepCall ==
    /\ actor = "sweep" /\ sweep.pc = "idle" /\ sweeps < MaxSweeps
    /\ sweeps' = sweeps + 1
    /\ sweep' = [pc |-> "lock", now |-> clock]
    /\ UNCHANGED <<store, clock, mu, actor, it, scan, cursor, errors>>

SweepLock ==
    /\ sweep.pc = "lock" /\ mu = "free"
    /\ mu' = "write"
    /\ sweep' = [pc |-> "collect", now |-> sweep.now, from |-> cursor]
    /\ UNCHANGED <<store, clock, actor, it, scan, cursor, errors, sweeps>>

\* Mutant: a short batch is taken for the end of the index.
SweepCollectShort ==
    /\ sweep.pc = "collect"
    /\ LET S == AscendGreaterOrEqual(index, cursor)
       IN  IF Cardinality(S) < BatchSize
           THEN mu' = "free" /\ cursor' = 0 /\ sweep' = [pc |-> "idle"]
           ELSE /\ sweep' = [pc |-> "check", now |-> sweep.now, from |-> sweep.from,
                             batch |-> {k \in S : Cardinality({j \in S : j < k}) < BatchSize}]
                /\ UNCHANGED <<mu, cursor>>
    /\ UNCHANGED <<store, clock, actor, it, scan, errors, sweeps>>

\* The next keys from expiredCursorKey on, itself included; none ends the sweep.
SweepCollect ==
    /\ sweep.pc = "collect"
    /\ LET S == AscendGreaterOrEqual(index, cursor)
       IN  IF S = {}
           THEN mu' = "free" /\ cursor' = 0 /\ sweep' = [pc |-> "idle"]
           ELSE /\ sweep' = [pc |-> "check", now |-> sweep.now, from |-> sweep.from,
                             batch |-> {k \in S : Cardinality({j \in S : j < k}) < BatchSize}]
                /\ UNCHANGED <<mu, cursor>>
    /\ UNCHANGED <<store, clock, actor, it, scan, errors, sweeps>>

\* The record of the next position: deleted from the index when it has expired;
\* an error ends the sweep and leaves the cursor.
SweepRecord(expired(_), moved(_)) ==
    /\ sweep.pc = "check"
    /\ LET k    == Min(sweep.batch)
           rest == sweep.batch \ {k}
       IN  \/ /\ ReadFails(index[k])
              /\ mu' = "free" /\ sweep' = [pc |-> "idle"]
              /\ UNCHANGED <<index, cursor>>
           \/ /\ Reads(index[k])
              /\ index' = IF expired(log[index[k]]) THEN [index EXCEPT ![k] = 0] ELSE index
              /\ cursor' = moved(k)
              /\ sweep' = IF rest = {} THEN [pc |-> "collect", now |-> sweep.now, from |-> sweep.from]
                                       ELSE [sweep EXCEPT !.batch = rest]
              /\ UNCHANGED mu
    /\ UNCHANGED <<log, wrote, writes, merges, clock, actor, it, scan, sweeps>>

\* Mutant: what has expired is kept and the rest deleted.
SweepCheckInverted == SweepRecord(LAMBDA r : ~Expired(r, sweep.now), LAMBDA k : k)

\* Mutant: the cursor stays.
SweepCheckNoCursor == SweepRecord(LAMBDA r : Expired(r, sweep.now), LAMBDA k : cursor)

SweepCheck == SweepRecord(LAMBDA r : Expired(r, sweep.now), LAMBDA k : k)

-----------------------------------------------------------------------------
Scans ==
    \/ Ascend \/ Descend
    \/ \E s \in Keys : AscendFrom(s) \/ DescendFrom(s)
    \/ \E s, e \in Keys : AscendBetween(s, e) \/ DescendBetween(s, e)
    \/ \E m \in Matches, f \in BOOLEAN : AscendKeys(m, f) \/ DescendKeys(m, f)
    \/ \E s, e \in Keys, m \in Matches, f \in BOOLEAN :
          AscendKeysRange(s, e, m, f) \/ DescendKeysRange(s, e, m, f)

Next ==
    \/ \E k \in Keys : Put(k) \/ Delete(k)
    \/ Merge \/ Tick
    \/ \E r, c \in BOOLEAN, m \in Matches : NewIterator(r, m, c)
    \/ NextItem \/ Rewind \/ (\E k \in Keys : Seek(k)) \/ Close \/ SkipToNext
    \/ Scans \/ ScanKey \/ ScanReturns
    \/ SweepCall \/ SweepLock \/ SweepCollect \/ SweepCheck

\* The goroutine of a sweep that has the lock goes on.
Spec == Init /\ [][Next]_vars /\ WF_vars(SweepCollect \/ SweepCheck)

-----------------------------------------------------------------------------
TypeOK ==
    /\ index \in [Keys -> 0 .. Len(log)]
    /\ \A k \in Keys : index[k] # 0 => log[index[k]].key = k /\ log[index[k]].val # 0
    /\ clock \in 0 .. MaxClock
    /\ mu \in {"free", "read", "write"}
    /\ mu = "read" <=> scan.pc \in {"run", "stopped"}
    /\ mu = "write" <=> sweep.pc \in {"collect", "check"}
    /\ cursor \in Keys \cup {0}
    /\ it.pc \in {"none", "skip", "idle", "closed"}

\* Item returns a key with a value that was written under that key, even when a
\* merge has put other records where the iterator's positions point.
ItemWritten == it.pc = "idle" /\ it.item # NoItem => it.item \in wrote

\* Until a merge moves the records, an iterator returns the snapshot it was made
\* from, in order, each key once, only what matches, whatever is written in the
\* meantime; when it ends without an error it has returned every key that has
\* not expired.
IteratorFaithful ==
    it.pc # "none" /\ ~it.stale =>
        LET keys == [i \in 1 .. Len(it.seen) |-> it.seen[i][1]]
            want == DOMAIN it.snap \cap it.match \cap it.range
        IN  /\ Strictly(it.iter.reverse, keys)
            /\ \A i \in 1 .. Len(keys) : keys[i] \in want /\ it.seen[i][2] = it.snap[keys[i]].val
            /\ it.pc = "idle" /\ ~it.iter.valid /\ ~it.failed =>
                  \A k \in want : Expired(it.snap[k], clock) \/ \E i \in 1 .. Len(keys) : keys[i] = k

\* Whether the scan has handed out k or had reason not to: it has expired.
Settled(k) ==
    \/ scan.filter /\ Expired(log[index[k]], clock)
    \/ \E i \in 1 .. Len(scan.out) : scan.out[i][1] = k

\* A scan that runs to its end has handed out, in order and once each, only keys
\* asked for that match, with the value they have and not expired when it began,
\* and has missed none that is alive.  The end of a range is left open: see
\* RangeClosed.
ScanComplete ==
    scan.pc = "run" /\ scan.todo = {} =>
        LET keys == [i \in 1 .. Len(scan.out) |-> scan.out[i][1]]
            want == scan.asked \cap scan.match \cap Items(index)
        IN  /\ Strictly(scan.reverse, keys)
            /\ \A i \in 1 .. Len(keys) :
                  /\ keys[i] \in want /\ scan.out[i][2] = log[index[keys[i]]].val
                  /\ scan.filter => ~Expired(log[index[keys[i]]], scan.start)
            /\ \A k \in want \ {scan.end} : Settled(k)

\* What the comment on AscendRange says, "each key/value pair in the db within the
\* range [startKey, endKey]": a scan over a range does not miss its end.
RangeClosed ==
    scan.pc = "run" /\ scan.todo = {} =>
        \A k \in scan.asked \cap scan.match \cap Items(index) : Settled(k)

\* What the comment on Iterator.Seek says, "positions the iterator at a specific
\* key": if there is a key from the one sought on, the iterator stands at one.
SeekPositions ==
    [][\A k \in Keys :
          Seek(k) /\ (\E j \in Items(it.iter.tree) : IF it.iter.reverse THEN j <= k ELSE j >= k)
              => it'.iter.valid]_vars

\* A sweep takes nothing from the index but keys that have expired, also when a
\* key was rewritten while the sweep waited for the lock.
SweepSafe ==
    [][\A k \in Keys : sweep.pc = "check" /\ index[k] # 0 /\ index'[k] = 0 => Expired(log[index[k]], clock)]_vars

\* A sweep that completes leaves no key that had expired by the time it was
\* called, from the cursor it started with on: all, unless an earlier one failed.
SweepThorough ==
    [][sweep.pc = "collect" /\ sweep'.pc = "idle" =>
          \A k \in Items(index) : k >= sweep.from => ~Expired(log[index[k]], sweep.now)]_vars

\* When the greatest key has expired the sweep comes to its end.
SweepEndsAtExpired ==
    (sweep.pc = "collect" /\ Items(index) # {} /\ Expired(log[index[Max(Items(index))]], sweep.now))
        ~> sweep.pc = "idle"

\* The goroutine of DeleteExpiredKeys runs until completion, as its comment says.
SweepEnds == sweep.pc = "collect" ~> sweep.pc = "idle"
=============================================================================
