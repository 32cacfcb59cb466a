-------------------------- MODULE RoseDBRefinement --------------------------
(***************************************************************************)
(* RoseDB implements KVStore: the entry of a key is the record its index   *)
(* position leads to unless that has expired, and the writes of a batch    *)
(* are what a lookup in its hash buckets finds.                            *)
(***************************************************************************)
EXTENDS RoseDB

EntryOf(r) == [kind |-> "entry", value |-> r.value, expire |-> r.expire]

\* What a caller sees of the stored entry of k, and of the batch bt's own
\* write of k.
Stored(k) ==
    IF index[k] = 0 \/ IsExpired(dataFiles[index[k]].expire, now)
    THEN [kind |-> "absent"] ELSE EntryOf(dataFiles[index[k]])

Pending(r) == IF r.type = "Deleted" THEN [kind |-> "erased"] ELSE EntryOf(r)

Overlay(bt, k) ==
    LET i == lookupPendingWrites(bt, k)
    IN  IF i = 0 THEN [kind |-> "untouched"] ELSE Pending(bt.pendingWrites[i])

ModeOf(bt) == IF ~bt.active THEN "idle" ELSE IF bt.ro THEN "ro" ELSE "rw"

storeBar == [k \in Keys |-> Stored(k)]
modeBar == [b \in Batches |-> ModeOf(batch[b])]
overlayBar == [b \in Batches |-> [k \in Keys |-> Overlay(batch[b], k)]]

KV == INSTANCE KVStore
        WITH store <- storeBar, mode <- modeBar, overlay <- overlayBar

\* Every behaviour of the database is one of the abstract store: reads see the
\* batch's own writes over the latest committed state, expired entries are
\* never seen, Commit applies everything or nothing, and readers that clean
\* the index under a shared lock change nothing a caller can observe.
RefinesKVStore == KV!Spec
=============================================================================
