------------------------------- MODULE Proxy -------------------------------
(***************************************************************************)
(* cmd/proxy: requests are routed by the ring, and adding a server changes *)
(* the ring at once and moves the keys that now belong to it afterwards,   *)
(* in a goroutine of its own, one HTTP call after the other.               *)
(*                                                                         *)
(* The servers are those of Cluster without slaves: a map from keys to     *)
(* values each.  A client's write is routed in one step and reaches the    *)
(* server it was routed to in a later one.  Reads change nothing: what a   *)
(* client reads of a key is what the server the ring names has of it.      *)
(***************************************************************************)
EXTENDS ConsistentHash, Sequences

CONSTANTS
    VHash,       \* hashes of the virtual nodes
    Keys, KHash, \* keys and their hashes
    Values,
    Transfer,    \* what a value is after migrateData has sent it on
    Parts,       \* what can have been read of a value when reading it fails
    Initial,     \* -nodes, a sequence
    Joining,     \* servers /add-node is called with
    MaxAdds,     \* bound: requests to /add-node
    MaxWrites,   \* bound: writes of clients
    MaxPending,  \* bound: writes routed and not yet forwarded
    MaxFaults    \* bound: calls of migrateData that fail

ASSUME ProxyAssumption ==
    /\ VHash \in [Nodes -> [1 .. Replicas -> Positions]]
    /\ KHash \in [Keys -> Positions]
    /\ None \notin Values /\ Transfer \in [Values -> Values \cup {None}]
    /\ Parts \in [Values -> SUBSET Values]
    /\ Initial \in Seq(Nodes) /\ Initial # <<>> /\ Joining \subseteq Nodes
    /\ {MaxAdds, MaxWrites, MaxPending, MaxFaults} \subseteq Nat

Migrations == 1 .. MaxAdds

VARIABLES
    ring, nodes,    \* the Proxy
    db,             \* per server: its contents
    pending,        \* writes routed and not yet forwarded: [key, val, target]
    mig,            \* per request to /add-node: handler, then goroutine
    writes, faults, \* counters for the bounds
    last,           \* history: per key, the last client write carried out
    dirty,          \* history: keys written during a migration or at another server than
                    \* the ring names, and keys whose value a server refused to take over
    redel,          \* history: keys deleted during a migration or at another server
    overlap,        \* history: two requests to /add-node have run at the same time
    readded         \* history: a server has been added that was there

vars == <<ring, nodes, db, pending, mig, writes, faults, last, dirty, redel, overlap, readded>>
proxy == <<ring, nodes>>
history == <<last, dirty, redel>>

Owner(k) == GetNode(ring, KHash[k])
Busy(i) == mig[i].pc \notin {"idle", "done"}
Quiet == \A i \in Migrations : ~Busy(i)

\* NewProxy and the loop over -nodes: the servers s[1] .. s[n] have been added
InitialRing ==
    LET rings[n \in 0 .. Len(Initial)] ==
            IF n = 0 THEN New ELSE AddNode(rings[n - 1], VHash, Initial[n])
    IN  rings[Len(Initial)]

Init ==
    /\ ring = InitialRing
    /\ nodes = Initial
    /\ db = [n \in Nodes |-> [k \in Keys |-> None]]
    /\ pending = {}
    /\ mig = [i \in Migrations |-> [pc |-> "idle", new |-> None, olds |-> <<>>, keys |-> {}, key |-> None, val |-> None]]
    /\ writes = 0 /\ faults = 0
    /\ last = [k \in Keys |-> None]
    /\ dirty = {} /\ redel = {}
    /\ overlap = FALSE /\ readded = FALSE

-----------------------------------------------------------------------------
\* The handler of /put and /delete: the target is read under the lock ...
Route(k, v) ==
    /\ writes < MaxWrites /\ Cardinality(pending) < MaxPending
    /\ Owner(k) # None
    /\ writes' = writes + 1
    /\ pending' = pending \cup {[key |-> k, val |-> v, target |-> Owner(k)]}
    /\ UNCHANGED <<proxy, db, mig, faults, history, overlap, readded>>

\* ... and used after it: forwardRequest.  The server carries the write out,
\* whatever the ring says by now, or the call fails and the client is told.
Forward(r) ==
    /\ pending' = pending \ {r}
    /\ \/ /\ db' = [db EXCEPT ![r.target][r.key] = r.val]
          /\ last' = [last EXCEPT ![r.key] = r.val]
          /\ LET clean == Quiet /\ r.target = Owner(r.key)
             IN  /\ dirty' = IF clean THEN dirty ELSE dirty \cup {r.key}
                 /\ redel' = IF clean \/ r.val # None THEN redel ELSE redel \cup {r.key}
       \/ UNCHANGED <<db, history>>
    /\ UNCHANGED <<proxy, mig, writes, faults, overlap, readded>>

-----------------------------------------------------------------------------
\* /add-node: the list of servers is copied under the lock ...
ListNodes(i, n) ==
    /\ mig[i].pc = "idle" /\ \A j \in 1 .. i - 1 : mig[j].pc # "idle"
    /\ mig' = [mig EXCEPT ![i].pc = "add", ![i].new = n, ![i].olds = nodes]
    /\ overlap' = (overlap \/ ~Quiet)
    /\ UNCHANGED <<proxy, db, pending, writes, faults, history, readded>>

\* ... the server is added under another, and the goroutine started.
AddServer(i) ==
    /\ mig[i].pc = "add"
    /\ ring' = AddNode(ring, VHash, mig[i].new)
    /\ nodes' = Append(nodes, mig[i].new)
    /\ readded' = (readded \/ \E j \in 1 .. Len(nodes) : nodes[j] = mig[i].new)
    /\ mig' = [mig EXCEPT ![i].pc = "fetch"]
    /\ UNCHANGED <<db, pending, writes, faults, history, overlap>>

-----------------------------------------------------------------------------
\* What no step of migrateData touches
Elsewhere == UNCHANGED <<proxy, pending, writes, last, redel, overlap, readded>>
Old(i) == Head(mig[i].olds)

\* A call of migrateData fails
Fault == faults < MaxFaults /\ faults' = faults + 1

\* On to the next key, to the next server, to the end
NextKey(i) == mig' = [mig EXCEPT ![i].pc = "key", ![i].key = None, ![i].val = None]
NextServer(i) == mig' = [mig EXCEPT ![i].pc = "fetch", ![i].olds = Tail(@), ![i].keys = {}]

KeyList(i) == {k \in Keys : db[Old(i)][k] # None}

\* GET /keys of the next server.  The call may fail; or a record that can not be
\* read ends AscendKeys there, and the answer is 200 with the keys before it.
FetchKeys(i) ==
    /\ mig[i].pc = "fetch" /\ mig[i].olds # <<>>
    /\ \/ mig' = [mig EXCEPT ![i].pc = "key", ![i].keys = KeyList(i)] /\ UNCHANGED faults
       \/ Fault /\ NextServer(i)
       \/ Fault /\ \E some \in (SUBSET KeyList(i)) \ {KeyList(i)} :
                       mig' = [mig EXCEPT ![i].pc = "key", ![i].keys = some]
    /\ Elsewhere /\ UNCHANGED <<db, dirty>>

Completed(i) ==
    /\ mig[i].pc = "fetch" /\ mig[i].olds = <<>>
    /\ mig' = [mig EXCEPT ![i].pc = "done", ![i].new = None]
    /\ Elsewhere /\ UNCHANGED <<db, faults, dirty>>

\* Mutant: a key of another server is looked at again and again.
CheckKeyStuck(i) ==
    /\ mig[i].pc = "key"
    /\ IF mig[i].keys = {} THEN NextServer(i)
       ELSE \E k \in mig[i].keys :
               IF Owner(k) = mig[i].new
               THEN mig' = [mig EXCEPT ![i].keys = @ \ {k}, ![i].pc = "get", ![i].key = k]
               ELSE UNCHANGED mig
    /\ Elsewhere /\ UNCHANGED <<db, faults, dirty>>

\* The next key: does it belong to the new server?
CheckKey(i) ==
    /\ mig[i].pc = "key"
    /\ IF mig[i].keys = {} THEN NextServer(i)
       ELSE \E k \in mig[i].keys :
               IF Owner(k) = mig[i].new
               THEN mig' = [mig EXCEPT ![i].keys = @ \ {k}, ![i].pc = "get", ![i].key = k]
               ELSE mig' = [mig EXCEPT ![i].keys = @ \ {k}]
    /\ Elsewhere /\ UNCHANGED <<db, faults, dirty>>

\* Mutant: the status of the answer is not looked at.
GetValueUnchecked(i) ==
    /\ mig[i].pc = "get"
    /\ mig' = [mig EXCEPT ![i].pc = "put", ![i].val = db[Old(i)][mig[i].key]]
    /\ Elsewhere /\ UNCHANGED <<db, faults, dirty>>

\* GET /get: not there any more, or failed: on to the next key.  An error while
\* the body is read is ignored, and what has been read is taken for the value.
GetValue(i) ==
    /\ mig[i].pc = "get"
    /\ LET v == db[Old(i)][mig[i].key]
       IN  \/ v # None /\ mig' = [mig EXCEPT ![i].pc = "put", ![i].val = v] /\ UNCHANGED faults
           \/ v = None /\ NextKey(i) /\ UNCHANGED faults
           \/ Fault /\ NextKey(i)
           \/ v # None /\ Fault /\ \E part \in Parts[v] : mig' = [mig EXCEPT ![i].pc = "put", ![i].val = part]
    /\ Elsewhere /\ UNCHANGED <<db, dirty>>

Stored(i) == [db EXCEPT ![mig[i].new][mig[i].key] = Transfer[mig[i].val]]
Refuses(i) == Transfer[mig[i].val] = None
Without(i) == [db EXCEPT ![Old(i)][mig[i].key] = None]

\* Mutant: the key is deleted from the old server although the put failed.
PutValueUnchecked(i) ==
    /\ mig[i].pc = "put"
    /\ mig' = [mig EXCEPT ![i].pc = "delete"]
    /\ \/ ~Refuses(i) /\ db' = Stored(i) /\ UNCHANGED <<faults, dirty>>
       \/ Refuses(i) /\ dirty' = dirty \cup {mig[i].key} /\ UNCHANGED <<db, faults>>
       \/ Fault /\ UNCHANGED <<db, dirty>>
    /\ Elsewhere

\* POST /put of the value as the new server decodes it; it refuses an empty one.
\* When the call fails the key stays where it is, a copy perhaps at both.
PutValue(i) ==
    /\ mig[i].pc = "put"
    /\ \/ /\ ~Refuses(i)
          /\ db' = Stored(i)
          /\ mig' = [mig EXCEPT ![i].pc = "delete"]
          /\ UNCHANGED <<faults, dirty>>
       \/ Refuses(i) /\ NextKey(i) /\ dirty' = dirty \cup {mig[i].key} /\ UNCHANGED <<db, faults>>
       \/ Fault /\ NextKey(i) /\ (UNCHANGED db \/ (~Refuses(i) /\ db' = Stored(i))) /\ UNCHANGED dirty
    /\ Elsewhere

\* Mutant: the key stays at the old server too.
DeleteNowhere(i) ==
    /\ mig[i].pc = "delete"
    /\ NextKey(i)
    /\ Elsewhere /\ UNCHANGED <<db, faults, dirty>>

\* POST /delete at the old server, whatever it holds by now; a failure is ignored.
DeleteKey(i) ==
    /\ mig[i].pc = "delete"
    /\ NextKey(i)
    /\ \/ db' = Without(i) /\ UNCHANGED faults
       \/ Fault /\ UNCHANGED db
    /\ Elsewhere /\ UNCHANGED dirty

Migrate(i) == FetchKeys(i) \/ CheckKey(i) \/ GetValue(i) \/ PutValue(i) \/ DeleteKey(i) \/ Completed(i)

Next ==
    \/ \E k \in Keys, v \in Values \cup {None} : Route(k, v)
    \/ \E r \in pending : Forward(r)
    \/ \E i \in Migrations, n \in Joining : ListNodes(i, n)
    \/ \E i \in Migrations : AddServer(i) \/ Migrate(i)

Spec == Init /\ [][Next]_vars

\* A handler that has begun and the goroutine it starts go on; every call of
\* migrateData ends within its client's 10 seconds.
FairSpec == Spec /\ \A i \in Migrations : WF_vars(AddServer(i) \/ Migrate(i))

-----------------------------------------------------------------------------
Copies == Values \cup {None}

TypeOK ==
    /\ ring \in Rings
    /\ nodes \in Seq(Nodes) /\ Len(nodes) <= Len(Initial) + MaxAdds
    /\ db \in [Nodes -> [Keys -> Copies]]
    /\ pending \subseteq [key : Keys, val : Copies, target : Nodes]
    /\ \A i \in Migrations :
          /\ mig[i].pc \in {"idle", "add", "fetch", "key", "get", "put", "delete", "done"}
          /\ mig[i].keys \subseteq Keys /\ mig[i].val \in Copies
          /\ mig[i].pc \in {"get", "put", "delete"} => mig[i].key \in Keys /\ mig[i].olds # <<>>
          /\ mig[i].pc \in {"put", "delete"} => mig[i].val # None
    /\ last \in [Keys -> Copies] /\ dirty \subseteq Keys /\ redel \subseteq dirty

\* A key a client has put and not deleted is at some server, whichever calls of
\* the migrations fail and however they overlap with each other and with writes,
\* as long as no server is added a second time (its migration deletes what it
\* has just put) and no client deleted the key while it was on the move.
NoKeyLost ==
    readded \/ \A k \in Keys \ redel : last[k] # None => \E n \in Nodes : db[n][k] # None

\* After migrations one at a time, without a failed call, a key that was not
\* written meanwhile, nor refused, is at the server the ring names and at no
\* other, with the value its last write gave it or what the transfer makes of it.
SingleCopy ==
    Quiet /\ faults = 0 /\ ~overlap /\ ~readded =>
        \A k \in Keys \ dirty, n \in Nodes :
            IF n = Owner(k) /\ last[k] # None
            THEN db[n][k] \in {last[k], Transfer[last[k]]} \ {None}
            ELSE db[n][k] = None

\* What README-VI.md says of a migration, that throughout it the system goes on
\* serving clients normally: a key that was put is at the server the ring names.
ServedThroughout == \A k \in Keys : last[k] # None => db[Owner(k)][k] # None

\* A key that its migration has made unreachable (the ring names a server that
\* does not have it) is reachable again in the end, whatever other keys do.
ReachableAgain ==
    \A k \in Keys :
        (last[k] # None /\ db[Owner(k)][k] = None)
            ~> \/ last[k] = None \/ db[Owner(k)][k] # None
               \/ k \in dirty \/ faults > 0 \/ overlap \/ readded
=============================================================================
