----------------------------- MODULE LogRecord -----------------------------
(***************************************************************************)
(* The record RoseDB appends to its write-ahead log (record.go), and the   *)
(* arithmetic of its expiry time.  A key, a value and a batch id are       *)
(* opaque; the byte layout of encodeLogRecord / decodeLogRecord is left    *)
(* out, every field survives it.                                           *)
(***************************************************************************)
EXTENDS Integers

CONSTANTS
    Keys,      \* the keys callers may use (never empty byte slices)
    Values,    \* the values callers may store
    NoValue,   \* the nil value of a deletion or an end-of-batch record
    MaxInt     \* largest value of the 64-bit expiry time, scaled down

ASSUME MaxIntAssumption == MaxInt \in Nat \ {0}
ASSUME NoValueAssumption == NoValue \notin Values

\* Two's complement arithmetic on the scaled-down int64: -MaxInt-1 .. MaxInt.
Wrap(n) == ((n + MaxInt + 1) % (2 * MaxInt + 2)) - (MaxInt + 1)

\* time.Now().Add(ttl).UnixNano()
ExpireAt(now, ttl) == Wrap(now + ttl)

\* mergeFinishedBatchID: the batch id of records rewritten by a merge.
MergeFinishedBatchID == 0

\* LogRecordNormal and LogRecordDeleted records of the log.
LogRecords ==
    [type: {"Normal", "Deleted"}, batchId: Nat, key: Keys,
     value: Values \cup {NoValue}, expire: Int]

\* LogRecordBatchFinished: the end-of-batch record carries the batch id as its key.
EndRecords ==
    [type: {"BatchFinished"}, batchId: {0}, key: Nat,
     value: {NoValue}, expire: {0}]

NormalRecord(k, v, e) ==
    [type |-> "Normal", batchId |-> 0, key |-> k, value |-> v, expire |-> e]

DeletedRecord(k) ==
    [type |-> "Deleted", batchId |-> 0, key |-> k, value |-> NoValue, expire |-> 0]

EndRecord(id) ==
    [type |-> "BatchFinished", batchId |-> 0, key |-> id, value |-> NoValue, expire |-> 0]

\* (*LogRecord).IsExpired: an expiry of 0, or one that wrapped around to a
\* negative number, never expires.
IsExpired(expire, now) == expire > 0 /\ expire <= now
============================================================================
