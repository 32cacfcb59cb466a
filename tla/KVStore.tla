------------------------------ MODULE KVStore ------------------------------
(***************************************************************************)
(* What RoseDB promises its callers: a map from keys to values with an     *)
(* optional expiry, and batches that run one writer at a time, read their  *)
(* own writes, and take effect all at once on Commit or not at all.  There *)
(* is no log, no index and no hash bucket here; an entry leaves the store  *)
(* at the moment it expires.                                               *)
(***************************************************************************)
EXTENDS LogRecord, Sequences

CONSTANTS Batches, EmptyKey, TTLs

VARIABLES
    store,     \* the live entry of each key, or Absent
    closed,
    now,
    mode,      \* "idle", "ro" or "rw" for every batch
    overlay,   \* the batch's own writes: Untouched, Erased or an entry
    resp

vars == <<store, closed, now, mode, overlay, resp>>

Absent == [kind |-> "absent"]
Untouched == [kind |-> "untouched"]
Erased == [kind |-> "erased"]
Entry(v, e) == [kind |-> "entry", value |-> v, expire |-> e]

Clean == [k \in Keys |-> Untouched]

\* The entry b sees for k, Absent if there is none or it has expired.
Live(e) == IF IsExpired(e.expire, now) THEN Absent ELSE e
Seen(b, k) ==
    CASE overlay[b][k] = Untouched -> store[k]
      [] overlay[b][k] = Erased -> Absent
      [] OTHER -> Live(overlay[b][k])

Error(e) == <<"error", e>>
Answer(op, k, a) == resp' = [op |-> op, key |-> k, ans |-> a]

Refusal(b, k, write) ==
    CASE k = EmptyKey -> "ErrKeyIsEmpty"
      [] k # EmptyKey /\ closed -> "ErrDBClosed"
      [] k # EmptyKey /\ ~closed /\ write /\ mode[b] = "ro" -> "ErrReadOnlyBatch"
      [] OTHER -> "none"
-----------------------------------------------------------------------------
Begin(b, m) ==
    /\ mode[b] = "idle"
    /\ \A c \in Batches : mode[c] # "rw" /\ (m = "rw" => mode[c] = "idle")
    /\ mode' = [mode EXCEPT ![b] = m]
    /\ UNCHANGED <<store, closed, now, overlay, resp>>

Refuse(b, k, write) ==
    /\ mode[b] # "idle"
    /\ Refusal(b, k, write) # "none"
    /\ Answer(IF write THEN "write" ELSE "read", k, Error(Refusal(b, k, write)))
    /\ UNCHANGED <<store, closed, now, mode, overlay>>

\* A write: b's own view of k becomes e.
Write(b, op, k, e) ==
    /\ mode[b] # "idle" /\ Refusal(b, k, TRUE) = "none"
    /\ overlay' = [overlay EXCEPT ![b][k] = e]
    /\ Answer(op, k, <<"ok">>)
    /\ UNCHANGED <<store, closed, now, mode>>

\* A change of the expiry of an entry that must exist.
Change(b, op, k, expire) ==
    /\ mode[b] # "idle" /\ Refusal(b, k, TRUE) = "none"
    /\ IF Seen(b, k) = Absent
       THEN Answer(op, k, Error("ErrKeyNotFound")) /\ UNCHANGED overlay
       ELSE /\ Answer(op, k, <<"ok">>)
            /\ overlay' = [overlay EXCEPT ![b][k] = Entry(Seen(b, k).value, expire)]
    /\ UNCHANGED <<store, closed, now, mode>>

\* Persist of a stored entry that has no expiry writes nothing.
PersistNothing(b, k) ==
    /\ mode[b] # "idle" /\ Refusal(b, k, TRUE) = "none"
    /\ overlay[b][k] = Untouched /\ store[k] # Absent /\ store[k].expire = 0
    /\ Answer("Persist", k, <<"ok">>)
    /\ UNCHANGED <<store, closed, now, mode, overlay>>

Read(b, op, k, a) ==
    /\ mode[b] # "idle" /\ Refusal(b, k, FALSE) = "none"
    /\ Answer(op, k, a)
    /\ UNCHANGED <<store, closed, now, mode, overlay>>

GetAnswer(b, k) ==
    IF Seen(b, k) = Absent THEN Error("ErrKeyNotFound") ELSE <<"value", Seen(b, k).value>>

\* The remaining lifetime.  A key erased by this very batch answers -1; an
\* expiry that wrapped to a negative number answers -1 once it is committed.
TTLAnswer(b, k) ==
    IF overlay[b][k] = Erased THEN <<"ttl", -1>>
    ELSE IF Seen(b, k) = Absent THEN Error("ErrKeyNotFound")
    ELSE IF \/ Seen(b, k).expire = 0
            \/ overlay[b][k] = Untouched /\ Seen(b, k).expire < 0
         THEN <<"ttl", -1>>
    ELSE <<"ttl", Wrap(Seen(b, k).expire - now)>>

\* Commit is all or nothing: with applied, everything b wrote and is still
\* alive is in the store; otherwise the store does not change.
Commit(b, applied, a) ==
    /\ mode[b] # "idle"
    /\ applied => ~closed /\ a = <<"ok">>
    /\ a = <<"ok">> /\ ~applied => overlay[b] = Clean
    /\ a \in {<<"ok">>, Error("ErrDBClosed"), Error("ErrWrite"), Error("ErrSync")}
    /\ store' = IF applied THEN [k \in Keys |-> Seen(b, k)] ELSE store
    /\ mode' = [mode EXCEPT ![b] = "idle"]
    /\ overlay' = [overlay EXCEPT ![b] = Clean]
    /\ Answer("Commit", EmptyKey, a)
    /\ UNCHANGED <<closed, now>>

Rollback(b) ==
    /\ mode[b] # "idle"
    /\ mode' = [mode EXCEPT ![b] = "idle"]
    /\ overlay' = [overlay EXCEPT ![b] = Clean]
    /\ Answer("Rollback", EmptyKey, IF closed THEN Error("ErrDBClosed") ELSE <<"ok">>)
    /\ UNCHANGED <<store, closed, now>>

Exclusive == \A b \in Batches : mode[b] = "idle"

Sync ==
    /\ Exclusive
    /\ Answer("Sync", EmptyKey, IF closed THEN Error("ErrFileClosed") ELSE <<"ok">>)
    /\ UNCHANGED <<store, closed, now, mode, overlay>>

Close ==
    /\ Exclusive
    /\ closed' = TRUE
    /\ Answer("Close", EmptyKey, IF closed THEN Error("ErrFileClosed") ELSE <<"ok">>)
    /\ UNCHANGED <<store, now, mode, overlay>>

\* Time passes, and what expires is gone.
Tick ==
    /\ now' = now + 1
    /\ store' = [k \in Keys |-> IF store[k] # Absent /\ IsExpired(store[k].expire, now')
                                THEN Absent ELSE store[k]]
    /\ UNCHANGED <<closed, mode, overlay, resp>>
-----------------------------------------------------------------------------
Init ==
    /\ store = [k \in Keys |-> Absent]
    /\ closed = FALSE
    /\ now = 2
    /\ mode = [b \in Batches |-> "idle"]
    /\ overlay = [b \in Batches |-> Clean]
    /\ resp = [op |-> "Open", key |-> EmptyKey, ans |-> <<"ok">>]

BatchOp(b) ==
    \/ \E k \in Keys \cup {EmptyKey}, write \in BOOLEAN : Refuse(b, k, write)
    \/ \E k \in Keys :
          \/ \E v \in Values : Write(b, "Put", k, Entry(v, 0))
          \/ \E v \in Values, ttl \in TTLs : Write(b, "PutWithTTL", k, Entry(v, ExpireAt(now, ttl)))
          \/ Write(b, "Delete", k, Erased)
          \/ \E ttl \in TTLs : Change(b, "Expire", k, ExpireAt(now, ttl))
          \/ Change(b, "Persist", k, 0)
          \/ PersistNothing(b, k)
          \/ Read(b, "Get", k, GetAnswer(b, k))
          \/ Read(b, "Exist", k, <<"exists", Seen(b, k) # Absent>>)
          \/ Read(b, "TTL", k, TTLAnswer(b, k))

Next ==
    \/ \E b \in Batches :
          \/ \E m \in {"ro", "rw"} : Begin(b, m)
          \/ BatchOp(b)
          \/ \E applied \in BOOLEAN, a \in {<<"ok">>, Error("ErrDBClosed"), Error("ErrWrite"), Error("ErrSync")} :
                Commit(b, applied, a)
          \/ Rollback(b)
    \/ Sync
    \/ Close
    \/ Tick

Spec == Init /\ [][Next]_vars
=============================================================================
