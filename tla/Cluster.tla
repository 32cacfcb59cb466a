------------------------------ MODULE Cluster ------------------------------
(***************************************************************************)
(* server/ and cmd/server: a master with a Replicator and the slaves it is *)
(* started with (-slaves), each of which watches the master (-master).     *)
(*                                                                         *)
(* The DB of a server is a map from keys to values: what it promises is    *)
(* the subject of RoseDB and Recovery, and a killed process keeps what it  *)
(* wrote.  A handler is one step: it reads the role before it writes, and  *)
(* a role only ever goes from SLAVE to MASTER while the process lives.     *)
(* Every accepted write starts one goroutine per slave; the goroutines of  *)
(* successive writes run side by side.  An attempt that is out stays in    *)
(* net until the slave handles it, which can be after the goroutine has    *)
(* given the attempt up and even after the master's process has died.      *)
(***************************************************************************)
EXTENDS Integers, Sequences

CONSTANTS
    Master, Slaves,
    Keys, Values,
    None,          \* a key without a value; as a value written, a deletion
    MaxRetries,    \* maxRetries of broadcast
    MaxFailures,   \* consecutive failures that promote a slave
    MaxWrites,     \* bound: writes the master accepts
    MaxOwn,        \* bound: writes promoted slaves accept
    MaxCrashes,    \* bound: processes killed
    MaxMisses      \* bound: heartbeats that fail although the master is up

ASSUME ClusterAssumption ==
    /\ Master \notin Slaves /\ None \notin Values
    /\ MaxRetries \in Nat \ {0} /\ MaxFailures \in Nat \ {0}
    /\ {MaxWrites, MaxOwn, MaxCrashes, MaxMisses} \subseteq Nat

Servers == {Master} \cup Slaves
Writes == 1 .. MaxWrites

VARIABLES
    up, role, db,   \* per server: process running, Server.role, contents
    failures,       \* per slave: consecutiveFailures
    write,          \* the writes the master accepted: [key, val]
    task,           \* per write and slave: the goroutine of broadcast, [pc, try]
    net,            \* attempts sent and not yet handled: [w, s, try]
    own, crashes, misses,   \* counters for the bounds
    beats,          \* history: outcomes of the last heartbeats, newest last
    promoted,       \* history: slaves that have been MASTER
    may             \* history: per slave and key, the values replication can leave

cluster == <<up, role, db>>
bounds == <<own, crashes, misses>>
vars == <<cluster, failures, write, task, net, bounds, beats, promoted, may>>

-----------------------------------------------------------------------------
\* Goroutines and attempts still to come for key k of slave s
Running(w, s) == task[w][s].pc \in {"ready", "waiting"}
UnderWay(s, k) ==
    \/ \E w \in 1 .. Len(write) : Running(w, s) /\ write[w].key = k
    \/ \E m \in net : m.s = s /\ write[m.w].key = k

\* A write of v starts for the slaves S: its value is the one to expect, next to
\* those of the writes it overtakes or is overtaken by
Expect(S, k, v) ==
    may' = [s \in Slaves |->
              IF s \in S THEN [may[s] EXCEPT ![k] = IF UnderWay(s, k) THEN @ \cup {v} ELSE {v}]
                         ELSE may[s]]

\* The goroutines T end without success: what the slave has now may stay
GiveUp(T) ==
    may' = [s \in Slaves |-> [k \in Keys |->
              IF \E w \in 1 .. Len(write) : <<w, s>> \in T /\ write[w].key = k
              THEN may[s][k] \cup {db[s][k]} ELSE may[s][k]]]

Init ==
    /\ up = [n \in Servers |-> TRUE]
    /\ role = [n \in Servers |-> IF n = Master THEN "MASTER" ELSE "SLAVE"]
    /\ db = [n \in Servers |-> [k \in Keys |-> None]]
    /\ failures = [s \in Slaves |-> 0]
    /\ write = <<>>
    /\ task = [w \in Writes |-> [s \in Slaves |-> [pc |-> "idle", try |-> 0]]]
    /\ net = {}
    /\ own = 0 /\ crashes = 0 /\ misses = 0
    /\ beats = [s \in Slaves |-> <<>>]
    /\ promoted = {}
    /\ may = [s \in Slaves |-> [k \in Keys |-> {None}]]

-----------------------------------------------------------------------------
\* broadcast: one goroutine per slave, at its first attempt
Broadcast(k, v) ==
    /\ write' = Append(write, [key |-> k, val |-> v])
    /\ task' = [task EXCEPT ![Len(write) + 1] = [s \in Slaves |-> [pc |-> "ready", try |-> 1]]]

\* Mutant: the role is not looked at.
AcceptAnyRole(n, k, v) ==
    /\ up[n]
    /\ db' = [db EXCEPT ![n][k] = v]
    /\ IF n = Master
       THEN Len(write) < MaxWrites /\ Broadcast(k, v) /\ Expect(Slaves, k, v) /\ UNCHANGED own
       ELSE own < MaxOwn /\ own' = own + 1 /\ Expect({n}, k, v) /\ UNCHANGED <<write, task>>
    /\ UNCHANGED <<up, role, failures, net, crashes, misses, beats, promoted>>

\* A server in the role MASTER writes its DB and, if it has a Replicator,
\* broadcasts; a slave is started without one.
Accept(n, k, v) ==
    /\ up[n]
    /\ role[n] = "MASTER"
    /\ db' = [db EXCEPT ![n][k] = v]
    /\ IF n = Master
       THEN Len(write) < MaxWrites /\ Broadcast(k, v) /\ Expect(Slaves, k, v) /\ UNCHANGED own
       ELSE own < MaxOwn /\ own' = own + 1 /\ Expect({n}, k, v) /\ UNCHANGED <<write, task>>
    /\ UNCHANGED <<up, role, failures, net, crashes, misses, beats, promoted>>

HandlePut(n) == \E k \in Keys, v \in Values : Accept(n, k, v)
HandleDelete(n) == \E k \in Keys : Accept(n, k, None)

\* client.Do of the attempt number try
Send(w, s) ==
    /\ task[w][s].pc = "ready"
    /\ task' = [task EXCEPT ![w][s].pc = "waiting"]
    /\ net' = net \cup {[w |-> w, s |-> s, try |-> task[w][s].try]}
    /\ UNCHANGED <<cluster, failures, write, bounds, beats, promoted, may>>

\* Mutant: the attempts are not counted.
AttemptAgain(w, s) ==
    task' = [task EXCEPT ![w][s].pc = "ready"] /\ UNCHANGED may

\* Mutant: one attempt too many.
AttemptOneMore(w, s) ==
    IF task[w][s].try <= MaxRetries
    THEN task' = [task EXCEPT ![w][s] = [pc |-> "ready", try |-> @.try + 1]] /\ UNCHANGED may
    ELSE task' = [task EXCEPT ![w][s].pc = "gaveup"] /\ GiveUp({<<w, s>>})

\* An attempt has failed: the next one, or none
AttemptFailed(w, s) ==
    IF task[w][s].try < MaxRetries
    THEN task' = [task EXCEPT ![w][s] = [pc |-> "ready", try |-> @.try + 1]] /\ UNCHANGED may
    ELSE task' = [task EXCEPT ![w][s].pc = "gaveup"] /\ GiveUp({<<w, s>>})

\* The goroutine that sent the attempt m is still waiting for its answer.
Awaited(m) == task[m.w][m.s] = [pc |-> "waiting", try |-> m.try]

\* Mutant: a deletion is answered and not carried out.
HandleSyncPutOnly(m) ==
    /\ up[m.s]
    /\ net' = net \ {m}
    /\ db' = IF write[m.w].val # None THEN [db EXCEPT ![m.s][write[m.w].key] = write[m.w].val] ELSE db
    /\ \/ Awaited(m) /\ task' = [task EXCEPT ![m.w][m.s].pc = "done"]
       \/ UNCHANGED task
    /\ UNCHANGED <<up, role, failures, write, bounds, beats, promoted, may>>

\* handleSync: applied whatever the role of the server, however late.  The
\* answer, if somebody still waits for it, arrives or is lost.
HandleSync(m) ==
    /\ up[m.s]
    /\ net' = net \ {m}
    /\ db' = [db EXCEPT ![m.s][write[m.w].key] = write[m.w].val]
    /\ \/ Awaited(m) /\ task' = [task EXCEPT ![m.w][m.s].pc = "done"]
       \/ UNCHANGED task
    /\ UNCHANGED <<up, role, failures, write, bounds, beats, promoted, may>>

\* The attempt has no effect: connection refused or broken, or an answer other
\* than 200 (wrong sync key, unreadable body, error of the DB).
Refused(m) ==
    /\ net' = net \ {m}
    /\ IF Awaited(m) THEN AttemptFailed(m.w, m.s) ELSE UNCHANGED <<task, may>>
    /\ UNCHANGED <<cluster, failures, write, bounds, beats, promoted>>

\* No answer within the client's 3 seconds; the attempt may still be out.
Timeout(w, s) ==
    /\ task[w][s].pc = "waiting"
    /\ AttemptFailed(w, s)
    /\ UNCHANGED <<cluster, failures, write, net, bounds, beats, promoted>>

-----------------------------------------------------------------------------
Beat(s, ok) == beats' = [beats EXCEPT ![s] = LET b == Append(@, ok)
                                             IN  IF Len(b) > MaxFailures THEN Tail(b) ELSE b]

\* Mutant: a heartbeat that succeeds leaves the count alone.
HeartbeatOKNoReset(s) ==
    /\ up[s] /\ role[s] = "SLAVE" /\ up[Master]
    /\ Beat(s, TRUE)
    /\ UNCHANGED <<cluster, failures, write, task, net, bounds, promoted, may>>

\* A tick of the worker: the master answers /health with status OK.
HeartbeatOK(s) ==
    /\ up[s] /\ role[s] = "SLAVE" /\ up[Master]
    /\ failures' = [failures EXCEPT ![s] = 0]
    /\ Beat(s, TRUE)
    /\ UNCHANGED <<cluster, write, task, net, bounds, promoted, may>>

\* Mutant: the client has no timeout and waits for a master that is gone.
HeartbeatFailsNoTimeout(s) ==
    /\ up[s] /\ role[s] = "SLAVE"
    /\ up[Master] /\ misses < MaxMisses
    /\ misses' = misses + 1
    /\ failures' = [failures EXCEPT ![s] = @ + 1]
    /\ IF failures[s] + 1 >= MaxFailures
       THEN role' = [role EXCEPT ![s] = "MASTER"] /\ promoted' = promoted \cup {s}
       ELSE UNCHANGED <<role, promoted>>
    /\ Beat(s, FALSE)
    /\ UNCHANGED <<up, db, write, task, net, own, crashes, may>>

\* A tick without an answer, with one that can not be decoded or whose status is
\* another: at the third in a row the slave makes itself MASTER.
HeartbeatFails(s) ==
    /\ up[s] /\ role[s] = "SLAVE"
    /\ ~up[Master] \/ misses < MaxMisses
    /\ misses' = IF up[Master] THEN misses + 1 ELSE misses
    /\ failures' = [failures EXCEPT ![s] = @ + 1]
    /\ IF failures[s] + 1 >= MaxFailures
       THEN role' = [role EXCEPT ![s] = "MASTER"] /\ promoted' = promoted \cup {s}
       ELSE UNCHANGED <<role, promoted>>
    /\ Beat(s, FALSE)
    /\ UNCHANGED <<up, db, write, task, net, own, crashes, may>>

-----------------------------------------------------------------------------
\* The process is killed.  The master's goroutines go with it; connections to a
\* slave break, and the attempts on them are lost.
Crash(n) ==
    /\ up[n] /\ crashes < MaxCrashes
    /\ crashes' = crashes + 1
    /\ up' = [up EXCEPT ![n] = FALSE]
    /\ IF n = Master
       THEN LET T == {t \in (1 .. Len(write)) \X Slaves : Running(t[1], t[2])}
            IN  /\ GiveUp(T)
                /\ task' = [w \in Writes |-> [s \in Slaves |->
                              IF <<w, s>> \in T THEN [task[w][s] EXCEPT !.pc = "killed"] ELSE task[w][s]]]
                /\ UNCHANGED net
       ELSE /\ net' = {m \in net : m.s # n}
            /\ UNCHANGED <<task, may>>
    /\ UNCHANGED <<role, db, failures, write, own, misses, beats, promoted>>

\* Started again with the same flags: NewServer makes it MASTER and a worker,
\* which only a slave has, SLAVE, whatever it was before.
Restart(n) ==
    /\ ~up[n]
    /\ up' = [up EXCEPT ![n] = TRUE]
    /\ role' = [role EXCEPT ![n] = IF n = Master THEN "MASTER" ELSE "SLAVE"]
    /\ IF n = Master THEN UNCHANGED <<failures, beats>>
       ELSE failures' = [failures EXCEPT ![n] = 0] /\ beats' = [beats EXCEPT ![n] = <<>>]
    /\ UNCHANGED <<db, write, task, net, bounds, promoted, may>>

Next ==
    \/ \E n \in Servers : HandlePut(n) \/ HandleDelete(n) \/ Crash(n) \/ Restart(n)
    \/ \E w \in Writes, s \in Slaves : Send(w, s) \/ Timeout(w, s)
    \/ \E m \in net : HandleSync(m) \/ Refused(m)
    \/ \E s \in Slaves : HeartbeatOK(s) \/ HeartbeatFails(s)

Spec == Init /\ [][Next]_vars

\* A goroutine goes on and its client's timeout fires; the ticker ticks, and an
\* attempt to reach a dead master fails.
FairSpec ==
    /\ Spec
    /\ \A w \in Writes, s \in Slaves : WF_vars(Send(w, s)) /\ WF_vars(Timeout(w, s))
    /\ \A s \in Slaves : WF_vars(HeartbeatFails(s) /\ ~up[Master])

-----------------------------------------------------------------------------
Pcs == {"idle", "ready", "waiting", "done", "gaveup", "killed"}

TypeOK ==
    /\ up \in [Servers -> BOOLEAN]
    /\ role \in [Servers -> {"MASTER", "SLAVE"}]
    /\ db \in [Servers -> [Keys -> Values \cup {None}]]
    /\ failures \in [Slaves -> 0 .. MaxFailures]
    /\ write \in Seq([key : Keys, val : Values \cup {None}]) /\ Len(write) <= MaxWrites
    /\ task \in [Writes -> [Slaves -> [pc : Pcs, try : 0 .. MaxRetries]]]
    /\ net \subseteq [w : 1 .. Len(write), s : Slaves, try : 1 .. MaxRetries]
    /\ promoted \subseteq Slaves
    /\ may \in [Slaves -> [Keys -> SUBSET (Values \cup {None})]]

\* Once no goroutine and no attempt for a key is left, a slave has a value that
\* the last undisturbed write, those that ran at the same time as another, or
\* the state a given-up one left explain.  So a write that ran alone and was not
\* given up is what every slave has, retries, late duplicates and crashes of
\* either side in between notwithstanding.
QuietValue ==
    \A s \in Slaves, k \in Keys : UnderWay(s, k) \/ db[s][k] \in may[s][k]

\* A slave that has never been MASTER holds only what the master accepted: it
\* refuses writes, also after any number of restarts.
OnlyReplicated ==
    \A s \in Slaves \ promoted, k \in Keys :
        db[s][k] \in {None} \cup {write[w].val : w \in {i \in 1 .. Len(write) : write[i].key = k}}

\* A running slave is MASTER exactly when its last three heartbeats failed: one
\* success starts the count again, and a restart undoes the promotion.
PromotedAfterThree ==
    \A s \in Slaves : up[s] =>
        (role[s] = "MASTER" <=> Len(beats[s]) = MaxFailures /\ \A i \in 1 .. MaxFailures : ~beats[s][i])

\* Every goroutine of broadcast ends, whatever becomes of the slave.
SyncEnds == \A w \in Writes, s \in Slaves : task[w][s].pc = "ready" ~> ~Running(w, s)

\* While the master stays down, a slave that stays up takes over.
MasterReplaced ==
    \A s \in Slaves : ~up[Master] ~> (up[Master] \/ ~up[s] \/ role[s] = "MASTER")
=============================================================================
