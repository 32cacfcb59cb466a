--------------------------- MODULE ClusterProofs ---------------------------
(***************************************************************************)
(* Theorems about Cluster, for every number of slaves, keys, values,       *)
(* attempts and failures that promote, and for every bound.                *)
(***************************************************************************)
EXTENDS Cluster, SequenceTheorems, TLAPS

\* A goroutine of broadcast that has not ended works for a write the master
\* accepted, at an attempt it may still make.
Tasks ==
    \A w \in Writes, s \in Slaves :
        Running(w, s) => w \in 1 .. Len(write) /\ task[w][s].try \in 1 .. MaxRetries

\* A slave that has not taken over has counted fewer failures than promote.
Counting == \A s \in Slaves : role[s] = "SLAVE" => failures[s] < MaxFailures

TInv == TypeOK /\ Tasks /\ Counting

Contents == Values \cup {None}

TaskStates == [pc : Pcs, try : 0 .. MaxRetries]

\* What the bounds and the other constants are, as single facts
LEMMA Constants ==
    /\ Master \notin Slaves /\ None \notin Values
    /\ MaxRetries \in Nat /\ MaxRetries >= 1
    /\ MaxFailures \in Nat /\ MaxFailures >= 1
    /\ MaxWrites \in Nat
  BY ClusterAssumption

\* The sequence of accepted writes when one more is accepted
LEMMA WriteAppended ==
    ASSUME TypeOK, NEW k \in Keys, NEW v \in Contents
    PROVE  LET e == [key |-> k, val |-> v]
               l == Append(write, e)
           IN  /\ l \in Seq([key : Keys, val : Contents])
               /\ Len(write) \in Nat /\ Len(l) = Len(write) + 1
               /\ \A w \in 1 .. Len(write) : l[w] = write[w]
               /\ l[Len(write) + 1] = e
  <1> DEFINE e == [key |-> k, val |-> v]
  <1>1. e \in [key : Keys, val : Contents]
    OBVIOUS
  <1>2. write \in Seq([key : Keys, val : Contents])
    BY DEF TypeOK, Contents
  <1> QED BY <1>1, <1>2, AppendProperties, LenProperties

\* Every accepted write is one of a key, with a value or a deletion.
LEMMA WriteTyped ==
    ASSUME TypeOK, NEW w \in 1 .. Len(write)
    PROVE  write[w].key \in Keys /\ write[w].val \in Contents /\ w \in Writes
  <1>1. write \in Seq([key : Keys, val : Contents])
    BY DEF TypeOK, Contents
  <1>2. write[w] \in [key : Keys, val : Contents]
    BY <1>1, ElementOfSeq
  <1>3. Len(write) \in Nat /\ Len(write) <= MaxWrites
    BY <1>1, LenProperties DEF TypeOK
  <1> QED BY <1>2, <1>3, Constants DEF Writes

LEMMA ExpectTyped ==
    ASSUME TypeOK, NEW S \in SUBSET Slaves, NEW k \in Keys, NEW v \in Contents, Expect(S, k, v)
    PROVE  may' \in [Slaves -> [Keys -> SUBSET Contents]]
  BY DEF Expect, TypeOK, Contents

LEMMA GiveUpTyped ==
    ASSUME TypeOK, NEW T, GiveUp(T)
    PROVE  may' \in [Slaves -> [Keys -> SUBSET Contents]]
  <1>1. \A s \in Slaves, k \in Keys : db[s][k] \in Contents /\ may[s][k] \in SUBSET Contents
    BY DEF TypeOK, Contents, Servers
  <1> QED BY <1>1 DEF GiveUp

\* A step that changes one goroutine leaves the others alone.
LEMMA TaskUpdated ==
    ASSUME TypeOK, NEW w \in Writes, NEW s \in Slaves, NEW x \in TaskStates,
           task' = [task EXCEPT ![w] = [task[w] EXCEPT ![s] = x]]
    PROVE  /\ task' \in [Writes -> [Slaves -> TaskStates]]
           /\ task'[w][s] = x
           /\ \A u \in Writes, t \in Slaves : <<u, t>> # <<w, s>> => task'[u][t] = task[u][t]
  <1>1. task \in [Writes -> [Slaves -> TaskStates]]
    BY DEF TypeOK, TaskStates
  <1> HIDE DEF TaskStates
  <1>2. task[w] \in [Slaves -> TaskStates]
    BY <1>1
  <1> DEFINE f == [task[w] EXCEPT ![s] = x]
  <1>3. f \in [Slaves -> TaskStates] /\ f[s] = x /\ \A t \in Slaves : t # s => f[t] = task[w][t]
    BY <1>2
  <1>4. task' = [task EXCEPT ![w] = f]
    OBVIOUS
  <1> HIDE DEF f
  <1> QED BY <1>1, <1>3, <1>4

LEMMA TaskPc ==
    ASSUME TypeOK, NEW w \in Writes, NEW s \in Slaves, NEW p \in Pcs,
           task' = [task EXCEPT ![w][s].pc = p]
    PROVE  /\ task' \in [Writes -> [Slaves -> TaskStates]]
           /\ task'[w][s].pc = p /\ task'[w][s].try = task[w][s].try
           /\ \A u \in Writes, t \in Slaves : <<u, t>> # <<w, s>> => task'[u][t] = task[u][t]
  <1> DEFINE x == [task[w][s] EXCEPT !.pc = p]
  <1>1. task[w][s] \in TaskStates
    BY DEF TypeOK, TaskStates
  <1>2. x \in TaskStates /\ x.pc = p /\ x.try = task[w][s].try
    BY <1>1 DEF TaskStates
  <1>3. task' = [task EXCEPT ![w] = [task[w] EXCEPT ![s] = x]]
    OBVIOUS
  <1> HIDE DEF x
  <1>4. /\ task' \in [Writes -> [Slaves -> TaskStates]] /\ task'[w][s] = x
        /\ \A u \in Writes, t \in Slaves : <<u, t>> # <<w, s>> => task'[u][t] = task[u][t]
    <2>1. x \in TaskStates
      BY <1>2
    <2> QED BY ONLY TypeOK, w \in Writes, s \in Slaves, <1>3, <2>1, TaskUpdated, Zenon
  <1> QED BY <1>2, <1>4

-----------------------------------------------------------------------------
(* Types                                                                   *)

LEMMA InitTypes == Init => TInv
  <1> SUFFICES ASSUME Init PROVE TInv
    OBVIOUS
  <1>1. write = <<>> /\ Len(write) = 0 /\ write \in Seq([key : Keys, val : Values \cup {None}])
    BY DEF Init
  <1>2. TypeOK
    BY <1>1, Constants DEF Init, TypeOK, Servers, Pcs
  <1>3. Tasks
    BY DEF Init, Tasks, Running
  <1>4. Counting
    BY Constants DEF Init, Counting
  <1> QED BY <1>2, <1>3, <1>4 DEF TInv

LEMMA AcceptTypes ==
    ASSUME TInv, NEW n \in Servers, NEW k \in Keys, NEW v \in Contents, Accept(n, k, v)
    PROVE  TInv'
  <1> USE DEF TInv
  <1>1. db' \in [Servers -> [Keys -> Contents]]
    BY DEF Accept, TypeOK, Contents
  <1>2. may' \in [Slaves -> [Keys -> SUBSET Contents]]
    <2>1. CASE n = Master
      BY <2>1, ExpectTyped DEF Accept
    <2>2. CASE n # Master
      <3>1. {n} \in SUBSET Slaves
        BY <2>2 DEF Servers
      <3> QED BY <2>2, <3>1, ExpectTyped DEF Accept
    <2> QED BY <2>1, <2>2
  <1>3. CASE n = Master
    <2>1. /\ Len(write) < MaxWrites
          /\ write' = Append(write, [key |-> k, val |-> v])
          /\ task' = [task EXCEPT ![Len(write) + 1] = [s \in Slaves |-> [pc |-> "ready", try |-> 1]]]
      BY <1>3 DEF Accept, Broadcast
    <2>2. write' \in Seq([key : Keys, val : Contents]) /\ Len(write') = Len(write) + 1 /\ Len(write) \in Nat
      BY <2>1, WriteAppended
    <2>3. task' \in [Writes -> [Slaves -> TaskStates]]
      <3> DEFINE f == [s \in Slaves |-> [pc |-> "ready", try |-> 1]]
      <3>1. task \in [Writes -> [Slaves -> TaskStates]]
        BY DEF TypeOK, TaskStates
      <3>2. [pc |-> "ready", try |-> 1] \in TaskStates
        BY Constants DEF TaskStates, Pcs
      <3>3. f \in [Slaves -> TaskStates]
        BY <3>2
      <3> HIDE DEF f
      <3> QED BY <2>1, <3>1, <3>3 DEF f
    <2>4. net' \subseteq [w : 1 .. Len(write'), s : Slaves, try : 1 .. MaxRetries]
      BY <2>2 DEF Accept, TypeOK
    <2>5. TypeOK'
      BY <1>1, <1>2, <2>1, <2>2, <2>3, <2>4, Constants DEF Accept, TypeOK, Contents, TaskStates
    <2>6. \A w \in Writes, s \in Slaves :
            \/ w = Len(write) + 1 /\ task'[w][s] = [pc |-> "ready", try |-> 1]
            \/ w # Len(write) + 1 /\ task'[w][s] = task[w][s]
      BY <2>1 DEF TypeOK
    <2>7. Tasks'
      BY <2>2, <2>6, Constants DEF Tasks, Running
    <2> QED BY <2>5, <2>7 DEF Counting, Accept
  <1>4. CASE n # Master
    <2>1. TypeOK'
      BY <1>1, <1>2, <1>4 DEF Accept, TypeOK, Contents
    <2>2. Tasks' /\ Counting'
      BY <1>4 DEF Accept, Tasks, Running, Counting
    <2> QED BY <2>1, <2>2
  <1> QED BY <1>3, <1>4

LEMMA SendTypes ==
    ASSUME TInv, NEW w \in Writes, NEW s \in Slaves, Send(w, s)
    PROVE  TInv'
  <1> USE DEF TInv
  <1>1. Running(w, s)
    BY DEF Send, Running
  <1>2. w \in 1 .. Len(write) /\ task[w][s].try \in 1 .. MaxRetries
    BY <1>1 DEF Tasks
  <1>3. /\ task' \in [Writes -> [Slaves -> TaskStates]]
        /\ task'[w][s].try = task[w][s].try
        /\ \A u \in Writes, t \in Slaves : <<u, t>> # <<w, s>> => task'[u][t] = task[u][t]
    BY TaskPc DEF Send, Pcs
  <1>4. net' \subseteq [w : 1 .. Len(write), s : Slaves, try : 1 .. MaxRetries]
    BY <1>2 DEF Send, TypeOK
  <1>5. TypeOK'
    BY <1>3, <1>4 DEF Send, TypeOK, TaskStates, cluster, bounds
  <1>6. Tasks'
    BY <1>2, <1>3 DEF Send, Tasks, Running
  <1> QED BY <1>5, <1>6 DEF Send, Counting, cluster

\* What AttemptFailed does to the goroutine, with its type
LEMMA AttemptFailedTypes ==
    ASSUME TInv, NEW w \in Writes, NEW s \in Slaves, task[w][s].pc = "waiting", AttemptFailed(w, s),
           write' = write
    PROVE  /\ task' \in [Writes -> [Slaves -> TaskStates]]
           /\ may' \in [Slaves -> [Keys -> SUBSET Contents]]
           /\ Tasks'
  <1> USE DEF TInv
  <1>1. w \in 1 .. Len(write) /\ task[w][s].try \in 1 .. MaxRetries
    BY DEF Tasks, Running
  <1>2. CASE task[w][s].try < MaxRetries
    <2>1. task' = [task EXCEPT ![w][s] = [pc |-> "ready", try |-> @.try + 1]] /\ may' = may
      BY <1>2 DEF AttemptFailed
    <2> DEFINE x == [pc |-> "ready", try |-> task[w][s].try + 1]
    <2>2. x \in TaskStates /\ x.try \in 1 .. MaxRetries
      BY <1>1, <1>2, Constants DEF TaskStates, Pcs
    <2>3. task' = [task EXCEPT ![w] = [task[w] EXCEPT ![s] = x]]
      BY <2>1
    <2> HIDE DEF x
    <2>4. /\ task' \in [Writes -> [Slaves -> TaskStates]] /\ task'[w][s] = x
          /\ \A u \in Writes, t \in Slaves : <<u, t>> # <<w, s>> => task'[u][t] = task[u][t]
      BY <2>2, <2>3, TaskUpdated, Zenon
    <2>5. Tasks'
      BY <1>1, <2>2, <2>4 DEF Tasks, Running, x
    <2> QED BY <2>1, <2>4, <2>5 DEF TypeOK, Contents
  <1>3. CASE ~(task[w][s].try < MaxRetries)
    <2>1. task' = [task EXCEPT ![w][s].pc = "gaveup"] /\ GiveUp({<<w, s>>})
      BY <1>3 DEF AttemptFailed
    <2>2. may' \in [Slaves -> [Keys -> SUBSET Contents]]
      BY <2>1, GiveUpTyped
    <2>3. /\ task' \in [Writes -> [Slaves -> TaskStates]]
          /\ task'[w][s].pc = "gaveup"
          /\ \A u \in Writes, t \in Slaves : <<u, t>> # <<w, s>> => task'[u][t] = task[u][t]
      BY <2>1, TaskPc DEF Pcs
    <2>4. Tasks'
      BY <2>3 DEF Tasks, Running
    <2> QED BY <2>2, <2>3, <2>4
  <1> QED BY <1>2, <1>3

LEMMA HandleSyncTypes ==
    ASSUME TInv, NEW m \in net, HandleSync(m)
    PROVE  TInv'
  <1> USE DEF TInv
  <1>1. m.w \in 1 .. Len(write) /\ m.s \in Slaves
    BY DEF TypeOK
  <1>2. m.w \in Writes /\ write[m.w].key \in Keys /\ write[m.w].val \in Contents
    BY <1>1, WriteTyped
  <1>3. db' \in [Servers -> [Keys -> Contents]]
    BY <1>1, <1>2 DEF HandleSync, TypeOK, Contents, Servers
  <1>4. task' \in [Writes -> [Slaves -> TaskStates]] /\ Tasks'
    <2>1. CASE task' = task
      BY <2>1 DEF HandleSync, TypeOK, TaskStates, Tasks, Running
    <2>2. CASE task' = [task EXCEPT ![m.w][m.s].pc = "done"]
      <3>1. /\ task' \in [Writes -> [Slaves -> TaskStates]]
            /\ task'[m.w][m.s].pc = "done"
            /\ \A u \in Writes, t \in Slaves : <<u, t>> # <<m.w, m.s>> => task'[u][t] = task[u][t]
        BY <2>2, <1>1, <1>2, TaskPc DEF Pcs
      <3> QED BY <3>1 DEF HandleSync, Tasks, Running
    <2> QED BY <2>1, <2>2 DEF HandleSync
  <1>5. TypeOK'
    BY <1>3, <1>4 DEF HandleSync, TypeOK, Contents, TaskStates, bounds
  <1> QED BY <1>4, <1>5 DEF HandleSync, Counting

LEMMA RefusedTypes ==
    ASSUME TInv, NEW m \in net, Refused(m)
    PROVE  TInv'
  <1> USE DEF TInv
  <1>1. m.w \in 1 .. Len(write) /\ m.s \in Slaves
    BY DEF TypeOK
  <1>2. m.w \in Writes
    BY <1>1, WriteTyped
  <1>3. /\ task' \in [Writes -> [Slaves -> TaskStates]]
        /\ may' \in [Slaves -> [Keys -> SUBSET Contents]]
        /\ Tasks'
    <2>1. CASE Awaited(m)
      <3>1. task[m.w][m.s].pc = "waiting" /\ AttemptFailed(m.w, m.s) /\ write' = write
        BY <2>1 DEF Awaited, Refused
      <3> QED BY <3>1, <1>1, <1>2, AttemptFailedTypes
    <2>2. CASE ~Awaited(m)
      BY <2>2 DEF Refused, TypeOK, Contents, TaskStates, Tasks, Running
    <2> QED BY <2>1, <2>2
  <1>4. TypeOK'
    BY <1>3 DEF Refused, TypeOK, Contents, TaskStates, cluster, bounds
  <1> QED BY <1>3, <1>4 DEF Refused, Counting, cluster

LEMMA TimeoutTypes ==
    ASSUME TInv, NEW w \in Writes, NEW s \in Slaves, Timeout(w, s)
    PROVE  TInv'
  <1> USE DEF TInv
  <1>1. task[w][s].pc = "waiting" /\ AttemptFailed(w, s) /\ write' = write
    BY DEF Timeout
  <1>2. /\ task' \in [Writes -> [Slaves -> TaskStates]]
        /\ may' \in [Slaves -> [Keys -> SUBSET Contents]]
        /\ Tasks'
    BY <1>1, AttemptFailedTypes
  <1>3. TypeOK'
    BY <1>2 DEF Timeout, TypeOK, Contents, TaskStates, cluster, bounds
  <1> QED BY <1>2, <1>3 DEF Timeout, Counting, cluster

LEMMA HeartbeatTypes ==
    ASSUME TInv, NEW s \in Slaves, HeartbeatOK(s) \/ HeartbeatFails(s)
    PROVE  TInv'
  <1> USE DEF TInv
  <1>1. CASE HeartbeatOK(s)
    BY <1>1, Constants DEF HeartbeatOK, TypeOK, Tasks, Running, Counting, cluster, bounds
  <1>2. CASE HeartbeatFails(s)
    <2>1. failures[s] \in Nat /\ failures[s] < MaxFailures
      BY <1>2 DEF HeartbeatFails, Counting, TypeOK
    <2>2. failures' \in [Slaves -> 0 .. MaxFailures]
      BY <1>2, <2>1, Constants DEF HeartbeatFails, TypeOK
    <2>3. role' \in [Servers -> {"MASTER", "SLAVE"}] /\ promoted' \subseteq Slaves
      BY <1>2 DEF HeartbeatFails, TypeOK
    <2>4. TypeOK'
      BY <1>2, <2>2, <2>3 DEF HeartbeatFails, TypeOK
    <2>5. Counting'
      BY <1>2, <2>1, Constants DEF HeartbeatFails, Counting, TypeOK, Servers
    <2> QED BY <1>2, <2>4, <2>5 DEF HeartbeatFails, Tasks, Running
  <1> QED BY <1>1, <1>2

LEMMA CrashTypes ==
    ASSUME TInv, NEW n \in Servers, Crash(n)
    PROVE  TInv'
  <1> USE DEF TInv
  <1>1. up' \in [Servers -> BOOLEAN]
    BY DEF Crash, TypeOK
  <1>2. CASE n = Master
    <2> DEFINE T == {t \in (1 .. Len(write)) \X Slaves : Running(t[1], t[2])}
    <2>1. /\ GiveUp(T) /\ net' = net
          /\ task' = [w \in Writes |-> [s \in Slaves |->
                        IF <<w, s>> \in T THEN [task[w][s] EXCEPT !.pc = "killed"] ELSE task[w][s]]]
      BY <1>2 DEF Crash
    <2>2. may' \in [Slaves -> [Keys -> SUBSET Contents]]
      BY <2>1, GiveUpTyped
    <2>3. task' \in [Writes -> [Slaves -> TaskStates]]
      <3>1. \A w \in Writes, s \in Slaves :
              task[w][s] \in TaskStates /\ [task[w][s] EXCEPT !.pc = "killed"] \in TaskStates
        <4> SUFFICES ASSUME NEW w \in Writes, NEW s \in Slaves
                     PROVE  task[w][s] \in TaskStates /\ [task[w][s] EXCEPT !.pc = "killed"] \in TaskStates
          OBVIOUS
        <4>1. task[w][s] \in TaskStates
          BY DEF TypeOK, TaskStates
        <4> QED BY <4>1 DEF TaskStates, Pcs
      <3> HIDE DEF T
      <3> QED BY <2>1, <3>1
    <2>4. TypeOK'
      BY <1>1, <2>1, <2>2, <2>3 DEF Crash, TypeOK, Contents, TaskStates
    <2>5. Tasks'
      <3>1. ASSUME NEW w \in Writes, NEW s \in Slaves, Running(w, s)'
            PROVE  Running(w, s) /\ task'[w][s] = task[w][s]
        <4>1. task[w][s] \in TaskStates
          BY DEF TypeOK, TaskStates
        <4>2. [task[w][s] EXCEPT !.pc = "killed"].pc = "killed"
          BY <4>1 DEF TaskStates
        <4>3. task'[w][s] = IF <<w, s>> \in T THEN [task[w][s] EXCEPT !.pc = "killed"] ELSE task[w][s]
          BY <2>1
        <4> QED BY <3>1, <4>2, <4>3 DEF Running
      <3> QED BY <3>1 DEF Crash, Tasks
    <2> QED BY <2>4, <2>5 DEF Crash, Counting
  <1>3. CASE n # Master
    BY <1>1, <1>3 DEF Crash, TypeOK, Tasks, Running, Counting
  <1> QED BY <1>2, <1>3

LEMMA RestartTypes ==
    ASSUME TInv, NEW n \in Servers, Restart(n)
    PROVE  TInv'
  <1> USE DEF TInv
  <1>1. /\ up' \in [Servers -> BOOLEAN] /\ role' \in [Servers -> {"MASTER", "SLAVE"}]
        /\ failures' \in [Slaves -> 0 .. MaxFailures]
    BY Constants DEF Restart, TypeOK, Servers
  <1>2. TypeOK'
    BY <1>1 DEF Restart, TypeOK, bounds
  <1>3. Counting'
    BY Constants DEF Restart, Counting, TypeOK, Servers
  <1> QED BY <1>2, <1>3 DEF Restart, Tasks, Running

LEMMA NextTypes == TInv /\ [Next]_vars => TInv'
  <1> SUFFICES ASSUME TInv, [Next]_vars PROVE TInv'
    OBVIOUS
  <1>1. ASSUME NEW n \in Servers, HandlePut(n) \/ HandleDelete(n)
        PROVE  TInv'
    BY <1>1, AcceptTypes DEF HandlePut, HandleDelete, Contents
  <1>2. CASE UNCHANGED vars
    BY <1>2 DEF vars, cluster, bounds, TInv, TypeOK, Tasks, Running, Counting
  <1> QED BY <1>1, <1>2, SendTypes, TimeoutTypes, HandleSyncTypes, RefusedTypes, HeartbeatTypes,
             CrashTypes, RestartTypes DEF Next

LEMMA Typing == Spec => []TInv
  BY InitTypes, NextTypes, PTL DEF Spec

\* Attempts stay within maxRetries and counted failures within the three that
\* promote, whatever is late, refused, killed or started again.
THEOREM TypeCorrect == Spec => []TypeOK
  <1>1. TInv => TypeOK
    BY DEF TInv
  <1> QED BY Typing, <1>1, PTL

-----------------------------------------------------------------------------
(* Promotion                                                               *)

\* The counter f of a worker in role r against the outcomes b of its heartbeats:
\* as many of the last ones failed as it says, and the one before succeeded.
Counts(b, f, r, ok, failed) ==
    /\ f \in Nat /\ f <= Len(b) /\ Len(b) <= MaxFailures
    /\ \A i \in 1 .. Len(b) : i > Len(b) - f => b[i] = failed
    /\ f < Len(b) => b[Len(b) - f] = ok
    /\ r = "MASTER" <=> f = MaxFailures

Tick(b, f, r) == Counts(b, f, r, TRUE, FALSE)

Ticks == beats \in [Slaves -> Seq(BOOLEAN)] /\ \A s \in Slaves : Tick(beats[s], failures[s], role[s])

Latest(b, ok) == LET a == Append(b, ok) IN IF Len(a) > MaxFailures THEN Tail(a) ELSE a

\* The window of the last outcomes moves by one.
LEMMA WindowMoves ==
    ASSUME NEW B, NEW b \in Seq(B), Len(b) <= MaxFailures, NEW ok \in B
    PROVE  /\ Latest(b, ok) \in Seq(B)
           /\ Len(b) \in Nat
           /\ Len(Latest(b, ok)) = IF Len(b) < MaxFailures THEN Len(b) + 1 ELSE Len(b)
           /\ Latest(b, ok)[Len(Latest(b, ok))] = ok
           /\ \A i \in 1 .. Len(Latest(b, ok)) - 1 :
                 Latest(b, ok)[i] = IF Len(b) < MaxFailures THEN b[i] ELSE b[i + 1]
  <1> DEFINE a == Append(b, ok)
  <1>1. /\ a \in Seq(B) /\ Len(a) = Len(b) + 1 /\ Len(b) \in Nat /\ a[Len(b) + 1] = ok
        /\ \A i \in 1 .. Len(b) : a[i] = b[i]
    BY AppendProperties, LenProperties
  <1> HIDE DEF a
  <1>2. CASE Len(b) < MaxFailures
    <2>1. Latest(b, ok) = a
      BY <1>1, <1>2, Constants DEF Latest, a
    <2> QED BY <1>1, <1>2, <2>1
  <1>3. CASE ~(Len(b) < MaxFailures)
    <2>1. Latest(b, ok) = Tail(a)
      BY <1>1, <1>3, Constants DEF Latest, a
    <2>2. /\ a # <<>> /\ Tail(a) \in Seq(B) /\ Len(Tail(a)) = Len(a) - 1
          /\ \A i \in 1 .. Len(Tail(a)) : Tail(a)[i] = a[i + 1]
      <3>1. a # <<>>
        BY <1>1, EmptySeq
      <3> QED BY <1>1, <3>1, HeadTailProperties
    <2> DEFINE c == Tail(a)
    <2>3. Len(c) = Len(b) /\ Len(b) >= 1 /\ c[Len(b)] = a[Len(b) + 1]
      BY <1>1, <1>3, <2>2, Constants
    <2>4. \A i \in 1 .. Len(b) - 1 : c[i] = a[i + 1] /\ a[i + 1] = b[i + 1]
      BY <1>1, <2>2, <2>3
    <2> HIDE DEF c
    <2> QED BY <1>1, <1>3, <2>1, <2>2, <2>3, <2>4 DEF c
  <1> QED BY <1>2, <1>3

LEMMA TickStarts == Tick(<<>>, 0, "SLAVE")
  BY Constants DEF Tick, Counts

LEMMA TickSucceeds ==
    ASSUME NEW B, NEW ok \in B, NEW failed, NEW b \in Seq(B), NEW f, NEW r, Counts(b, f, r, ok, failed)
    PROVE  Latest(b, ok) \in Seq(B) /\ Counts(Latest(b, ok), 0, "SLAVE", ok, failed)
  <1> DEFINE c == Latest(b, ok)
  <1>1. /\ c \in Seq(B) /\ Len(b) \in Nat /\ Len(c) = (IF Len(b) < MaxFailures THEN Len(b) + 1 ELSE Len(b))
        /\ c[Len(c)] = ok
    BY WindowMoves DEF Counts
  <1> HIDE DEF c
  <1>2. Len(c) \in Nat /\ Len(c) <= MaxFailures
    BY <1>1, Constants DEF Counts
  <1> QED BY <1>1, <1>2, Constants DEF Counts, c

LEMMA TickFails ==
    ASSUME NEW B, NEW ok, NEW failed \in B, NEW b \in Seq(B), NEW f, NEW q, NEW r,
           Counts(b, f, q, ok, failed), f < MaxFailures, r = "MASTER" <=> f + 1 >= MaxFailures
    PROVE  Latest(b, failed) \in Seq(B) /\ Counts(Latest(b, failed), f + 1, r, ok, failed)
  <1> DEFINE c == Latest(b, failed)
             n == Len(c)
             d == IF Len(b) < MaxFailures THEN 0 ELSE 1
  <1>1. /\ c \in Seq(B) /\ Len(b) \in Nat /\ n = (IF Len(b) < MaxFailures THEN Len(b) + 1 ELSE Len(b))
        /\ c[n] = failed
        /\ \A i \in 1 .. n - 1 : c[i] = IF Len(b) < MaxFailures THEN b[i] ELSE b[i + 1]
    BY WindowMoves DEF Counts
  <1>2. n \in Nat /\ n = Len(b) + 1 - d /\ \A i \in 1 .. n - 1 : c[i] = b[i + d]
    BY <1>1
  <1>3. d \in Nat /\ f \in Nat /\ f + 1 <= n /\ n <= MaxFailures
    BY <1>1, Constants DEF Counts
  <1> HIDE DEF c, n, d
  <1>4. ASSUME NEW i \in 1 .. n, i > n - (f + 1)
        PROVE  c[i] = failed
    <2>1. CASE i = n
      BY <1>1, <2>1
    <2>2. CASE i # n
      <3>1. i \in 1 .. n - 1 /\ i + d \in 1 .. Len(b) /\ i + d > Len(b) - f
        BY <1>1, <1>2, <1>3, <1>4, <2>2
      <3>2. b[i + d] = failed
        BY <3>1 DEF Counts
      <3> QED BY <1>2, <3>1, <3>2
    <2> QED BY <2>1, <2>2
  <1>5. ASSUME f + 1 < n
        PROVE  c[n - (f + 1)] = ok
    <2>1. n - (f + 1) \in 1 .. n - 1 /\ (n - (f + 1)) + d = Len(b) - f /\ f < Len(b)
      <3>1. n \in Nat /\ d \in Nat /\ f \in Nat /\ Len(b) \in Nat /\ n = Len(b) + 1 - d
        BY <1>1, <1>2, <1>3
      <3>2. n - (f + 1) >= 1 /\ n - (f + 1) <= n - 1 /\ f < Len(b)
        BY <1>5, <3>1
      <3>3. (n - (f + 1)) + d = Len(b) - f
        BY <3>1
      <3> QED BY <3>1, <3>2, <3>3
    <2>2. c[n - (f + 1)] = b[(n - (f + 1)) + d]
      BY <1>2, <2>1
    <2>3. b[Len(b) - f] = ok
      BY <2>1 DEF Counts
    <2> QED BY <2>1, <2>2, <2>3
  <1>6. r = "MASTER" <=> f + 1 = MaxFailures
    BY <1>3, Constants
  <1> QED BY <1>1, <1>3, <1>4, <1>5, <1>6 DEF Counts, n, c

LEMMA InitTicks == Init => Ticks
  <1> SUFFICES ASSUME Init PROVE Ticks
    OBVIOUS
  <1>1. beats \in [Slaves -> Seq(BOOLEAN)]
    BY DEF Init
  <1>2. \A s \in Slaves : beats[s] = <<>> /\ failures[s] = 0 /\ role[s] = "SLAVE"
    BY Constants DEF Init, Servers
  <1> QED BY <1>1, <1>2, TickStarts DEF Ticks

LEMMA NextTicks == TInv /\ Ticks /\ [Next]_vars => Ticks'
  <1> SUFFICES ASSUME TInv, Ticks, [Next]_vars PROVE Ticks'
    OBVIOUS
  <1>0. TypeOK /\ beats \in [Slaves -> Seq(BOOLEAN)] /\ \A s \in Slaves : Tick(beats[s], failures[s], role[s])
    BY DEF TInv, Ticks
  <1> DEFINE Others(s) == \A t \in Slaves : t # s => /\ beats'[t] = beats[t] /\ failures'[t] = failures[t]
                                                     /\ role'[t] = role[t]
  <1>1. ASSUME NEW s \in Slaves, HeartbeatOK(s)
        PROVE  Ticks'
    <2>1. beats' = [beats EXCEPT ![s] = Latest(beats[s], TRUE)]
      BY <1>1 DEF HeartbeatOK, Beat, Latest
    <2>2. Latest(beats[s], TRUE) \in Seq(BOOLEAN)
      BY <1>0, WindowMoves DEF Tick, Counts
    <2>3. beats' \in [Slaves -> Seq(BOOLEAN)] /\ beats'[s] = Latest(beats[s], TRUE)
      BY <1>0, <2>1, <2>2
    <2>4. failures'[s] = 0 /\ role'[s] = "SLAVE" /\ Others(s)
      BY <1>0, <1>1, <2>1 DEF HeartbeatOK, TypeOK, cluster, Servers
    <2>5. Tick(Latest(beats[s], TRUE), 0, "SLAVE")
      <3>1. beats[s] \in Seq(BOOLEAN) /\ Counts(beats[s], failures[s], role[s], TRUE, FALSE)
        BY <1>0 DEF Tick
      <3> QED BY <3>1, TickSucceeds, Zenon DEF Tick
    <2>6. \A t \in Slaves : Tick(beats'[t], failures'[t], role'[t])
      BY <1>0, <2>3, <2>4, <2>5, Zenon
    <2> QED BY <2>3, <2>6, Zenon DEF Ticks
  <1>2. ASSUME NEW s \in Slaves, HeartbeatFails(s)
        PROVE  Ticks'
    <2>1. beats' = [beats EXCEPT ![s] = Latest(beats[s], FALSE)]
      BY <1>2 DEF HeartbeatFails, Beat, Latest
    <2>2. Latest(beats[s], FALSE) \in Seq(BOOLEAN)
      BY <1>0, WindowMoves DEF Tick, Counts
    <2>3. beats' \in [Slaves -> Seq(BOOLEAN)] /\ beats'[s] = Latest(beats[s], FALSE)
      BY <1>0, <2>1, <2>2
    <2>4. /\ role[s] = "SLAVE" /\ failures[s] < MaxFailures /\ failures'[s] = failures[s] + 1
          /\ role'[s] = "MASTER" <=> failures[s] + 1 >= MaxFailures
          /\ Others(s)
      BY <1>0, <1>2, <2>1 DEF HeartbeatFails, TypeOK, TInv, Counting, Servers
    <2>5. Tick(Latest(beats[s], FALSE), failures[s] + 1, role'[s])
      <3>1. beats[s] \in Seq(BOOLEAN) /\ Counts(beats[s], failures[s], role[s], TRUE, FALSE)
        BY <1>0 DEF Tick
      <3> QED BY <2>4, <3>1, TickFails, Zenon DEF Tick
    <2>6. \A t \in Slaves : Tick(beats'[t], failures'[t], role'[t])
      BY <1>0, <2>3, <2>4, <2>5, Zenon
    <2> QED BY <2>3, <2>6, Zenon DEF Ticks
  <1>3. ASSUME NEW n \in Servers, Restart(n)
        PROVE  Ticks'
    <2>1. CASE n = Master
      <3>1. beats' = beats /\ failures' = failures /\ \A s \in Slaves : role'[s] = role[s]
        BY <2>1, <1>0, <1>3, Constants DEF Restart, TypeOK, Servers
      <3> QED BY <1>0, <3>1 DEF Ticks
    <2>2. CASE n # Master
      <3>1. /\ n \in Slaves /\ failures'[n] = 0 /\ role'[n] = "SLAVE"
            /\ beats' \in [Slaves -> Seq(BOOLEAN)] /\ beats'[n] = <<>>
            /\ Others(n)
        <4>1. n \in Slaves /\ failures'[n] = 0 /\ role'[n] = "SLAVE"
          BY <2>2, <1>0, <1>3 DEF Restart, TypeOK, Servers
        <4>2. beats' = [beats EXCEPT ![n] = <<>>] /\ <<>> \in Seq(BOOLEAN)
          BY <2>2, <1>3 DEF Restart
        <4>3. beats' \in [Slaves -> Seq(BOOLEAN)] /\ beats'[n] = <<>> /\ \A t \in Slaves : t # n => beats'[t] = beats[t]
          BY <1>0, <4>1, <4>2
        <4>4. \A t \in Slaves : t # n => failures'[t] = failures[t] /\ role'[t] = role[t]
          BY <2>2, <1>0, <1>3 DEF Restart, TypeOK, Servers
        <4> QED BY <4>1, <4>3, <4>4
      <3>2. \A t \in Slaves : Tick(beats'[t], failures'[t], role'[t])
        BY <1>0, <3>1, TickStarts, Zenon
      <3> QED BY <3>1, <3>2, Zenon DEF Ticks
    <2> QED BY <2>1, <2>2
  <1>4. CASE UNCHANGED <<role, failures, beats>>
    BY <1>0, <1>4 DEF Ticks
  <1>5. ASSUME NEW n \in Servers, HandlePut(n) \/ HandleDelete(n) \/ Crash(n)
        PROVE  UNCHANGED <<role, failures, beats>>
    BY <1>5 DEF HandlePut, HandleDelete, Accept, Crash
  <1>6. ASSUME NEW w \in Writes, NEW s \in Slaves, Send(w, s) \/ Timeout(w, s)
        PROVE  UNCHANGED <<role, failures, beats>>
    BY <1>6 DEF Send, Timeout, cluster
  <1>7. ASSUME NEW m \in net, HandleSync(m) \/ Refused(m)
        PROVE  UNCHANGED <<role, failures, beats>>
    BY <1>7 DEF HandleSync, Refused, cluster
  <1>8. CASE UNCHANGED vars
    BY <1>4, <1>8 DEF vars, cluster
  <1> QED BY <1>1, <1>2, <1>3, <1>4, <1>5, <1>6, <1>7, <1>8 DEF Next

LEMMA TicksImplies == Ticks /\ TInv => PromotedAfterThree
  <1> SUFFICES ASSUME Ticks, TInv, NEW s \in Slaves
               PROVE  role[s] = "MASTER" <=> Len(beats[s]) = MaxFailures /\ \A i \in 1 .. MaxFailures : ~beats[s][i]
    BY DEF PromotedAfterThree
  <1>0. Tick(beats[s], failures[s], role[s])
    BY DEF Ticks
  <1>1. failures[s] \in Nat
    BY DEF TInv, TypeOK
  <1>2. Len(beats[s]) \in Nat
    BY LenProperties DEF Ticks
  <1>3. ASSUME role[s] = "MASTER"
        PROVE  Len(beats[s]) = MaxFailures /\ \A i \in 1 .. MaxFailures : ~beats[s][i]
    BY <1>0, <1>1, <1>2, <1>3, Constants DEF Tick, Counts
  <1>4. ASSUME Len(beats[s]) = MaxFailures, \A i \in 1 .. MaxFailures : ~beats[s][i]
        PROVE  role[s] = "MASTER"
    <2>1. failures[s] < MaxFailures => MaxFailures - failures[s] \in 1 .. MaxFailures
      BY <1>1, Constants
    <2> QED BY <1>0, <1>1, <1>4, <2>1, Constants DEF Tick, Counts
  <1> QED BY <1>3, <1>4

\* The worker takes over exactly at MaxFailures failures in a row: the count it
\* keeps and the outcomes of its heartbeats never part, through successes,
\* promotions and restarts, and however many heartbeats have come before.
THEOREM PromotedAfterFailures == Spec => []PromotedAfterThree
  BY Typing, InitTicks, NextTicks, TicksImplies, PTL DEF Spec

-----------------------------------------------------------------------------
(* What a slave holds                                                      *)

Promotions == \A s \in Slaves : role[s] = "MASTER" => s \in promoted

\* The value of key k at server s is the master's: one it accepted, or none yet.
FromMaster(s, k) == db[s][k] = None \/ \E w \in 1 .. Len(write) : write[w].key = k /\ write[w].val = db[s][k]

Replicated == Promotions /\ \A s \in Slaves \ promoted, k \in Keys : FromMaster(s, k)

LEMMA InitReplicated == Init => Replicated
  BY Constants DEF Init, Replicated, Promotions, FromMaster, Servers

LEMMA NextReplicated == TInv /\ Replicated /\ [Next]_vars => Replicated'
  <1> SUFFICES ASSUME TInv, Replicated, [Next]_vars PROVE Replicated'
    OBVIOUS
  <1>0. TypeOK
    BY DEF TInv
  <1>1. ASSUME NEW n \in Servers, NEW k \in Keys, NEW v \in Contents, Accept(n, k, v)
        PROVE  Replicated'
    <2>1. Promotions' /\ promoted' = promoted
      BY <1>1 DEF Accept, Replicated, Promotions
    <2>2. CASE n = Master
      <3>1. \A s \in Slaves : db'[s] = db[s]
        BY <1>0, <1>1, <2>2, Constants DEF Accept, TypeOK, Servers
      <3>2. write' = Append(write, [key |-> k, val |-> v])
        BY <1>1, <2>2 DEF Accept, Broadcast
      <3>3. Len(write) \in Nat /\ Len(write') = Len(write) + 1 /\ \A w \in 1 .. Len(write) : write'[w] = write[w]
        BY <1>0, <3>2, WriteAppended
      <3>4. \A w \in 1 .. Len(write) : w \in 1 .. Len(write')
        BY <3>3
      <3> QED BY <2>1, <3>1, <3>3, <3>4 DEF Replicated, FromMaster
    <2>3. CASE n # Master
      <3>1. n \in promoted
        BY <1>1, <2>3 DEF Accept, Replicated, Promotions, Servers
      <3>2. write' = write /\ \A s \in Slaves \ promoted : db'[s] = db[s]
        BY <1>0, <1>1, <2>3, <3>1 DEF Accept, TypeOK, Servers
      <3> QED BY <2>1, <3>2 DEF Replicated, FromMaster
    <2> QED BY <2>2, <2>3
  <1>2. ASSUME NEW m \in net, HandleSync(m)
        PROVE  Replicated'
    <2>1. m.w \in 1 .. Len(write) /\ m.s \in Slaves
      BY <1>0 DEF TypeOK
    <2>2. Promotions' /\ promoted' = promoted /\ write' = write
      BY <1>2 DEF HandleSync, Replicated, Promotions
    <2>3. db' = [db EXCEPT ![m.s][write[m.w].key] = write[m.w].val]
      BY <1>2 DEF HandleSync
    <2>4. \A s \in Slaves, k \in Keys :
            \/ db'[s][k] = db[s][k]
            \/ k = write[m.w].key /\ db'[s][k] = write[m.w].val
      BY <1>0, <2>1, <2>3 DEF TypeOK, Servers
    <2> QED BY <2>1, <2>2, <2>4 DEF Replicated, FromMaster
  <1>3. ASSUME NEW s \in Slaves, HeartbeatFails(s)
        PROVE  Replicated'
    <2>1. promoted \subseteq promoted' /\ UNCHANGED <<db, write>>
      BY <1>3 DEF HeartbeatFails
    <2>2. Promotions'
      BY <1>0, <1>3 DEF HeartbeatFails, Replicated, Promotions, TypeOK, Servers
    <2> QED BY <2>1, <2>2 DEF Replicated, FromMaster
  <1>4. ASSUME NEW n \in Servers, Restart(n)
        PROVE  Replicated'
    BY <1>0, <1>4, Constants DEF Restart, Replicated, Promotions, FromMaster, TypeOK, Servers
  <1>5. CASE UNCHANGED <<role, db, write, promoted>>
    BY <1>5 DEF Replicated, Promotions, FromMaster
  <1>6. ASSUME NEW w \in Writes, NEW s \in Slaves, Send(w, s) \/ Timeout(w, s)
        PROVE  UNCHANGED <<role, db, write, promoted>>
    BY <1>6 DEF Send, Timeout, cluster
  <1>7. ASSUME NEW m \in net, Refused(m)
        PROVE  UNCHANGED <<role, db, write, promoted>>
    BY <1>7 DEF Refused, cluster
  <1>8. ASSUME NEW s \in Slaves, HeartbeatOK(s)
        PROVE  UNCHANGED <<role, db, write, promoted>>
    BY <1>8 DEF HeartbeatOK, cluster
  <1>9. ASSUME NEW n \in Servers, Crash(n)
        PROVE  UNCHANGED <<role, db, write, promoted>>
    BY <1>9 DEF Crash
  <1>10. ASSUME NEW n \in Servers, HandlePut(n) \/ HandleDelete(n)
         PROVE  Replicated'
    BY <1>1, <1>10 DEF HandlePut, HandleDelete, Contents
  <1>11. CASE UNCHANGED vars
    BY <1>5, <1>11 DEF vars, cluster
  <1> QED BY <1>2, <1>3, <1>4, <1>5, <1>6, <1>7, <1>8, <1>9, <1>10, <1>11 DEF Next

\* A slave that has never been MASTER holds nothing its master did not accept,
\* whatever attempts are late or repeated and whichever processes are killed.
THEOREM SlaveOnlyReplicates == Spec => []OnlyReplicated
  <1>1. Replicated => OnlyReplicated
    BY DEF Replicated, FromMaster, OnlyReplicated
  <1> QED BY Typing, InitReplicated, NextReplicated, <1>1, PTL DEF Spec

-----------------------------------------------------------------------------
(* What a slave can be left with                                           *)

Sent(w, s) == \E m \in net : m.w = w /\ m.s = s
RunningFor(s, k) == \E w \in 1 .. Len(write) : Running(w, s) /\ write[w].key = k

\* A write that can still reach a slave is among the values expected there ...
Announced ==
    \A w \in 1 .. Len(write), s \in Slaves :
        Running(w, s) \/ Sent(w, s) => write[w].val \in may[s][write[w].key]

\* ... and what a slave has is expected, also while attempts that nobody waits
\* for are out, except where a goroutine still has to bring about its write.
Explained == \A s \in Slaves, k \in Keys : RunningFor(s, k) \/ db[s][k] \in may[s][k]

LEMMA ExpectAdds ==
    ASSUME TypeOK, NEW S \in SUBSET Slaves, NEW k \in Keys, NEW v, Expect(S, k, v)
    PROVE  /\ \A s \in Slaves, j \in Keys : s \notin S \/ j # k => may'[s][j] = may[s][j]
           /\ \A s \in S : v \in may'[s][k] /\ (UnderWay(s, k) => may[s][k] \subseteq may'[s][k])
  <1>1. may \in [Slaves -> [Keys -> SUBSET Contents]]
    BY DEF TypeOK, Contents
  <1>2. ASSUME NEW s \in S
        PROVE  /\ may'[s][k] = IF UnderWay(s, k) THEN may[s][k] \cup {v} ELSE {v}
               /\ \A j \in Keys : j # k => may'[s][j] = may[s][j]
    <2>1. may'[s] = [may[s] EXCEPT ![k] = IF UnderWay(s, k) THEN @ \cup {v} ELSE {v}]
      BY DEF Expect
    <2>2. may[s] \in [Keys -> SUBSET Contents]
      BY <1>1
    <2> QED BY <2>1, <2>2
  <1>3. ASSUME NEW s \in Slaves, s \notin S
        PROVE  may'[s] = may[s]
    BY <1>3 DEF Expect
  <1> QED BY <1>2, <1>3

LEMMA GiveUpAdds ==
    ASSUME NEW T, GiveUp(T)
    PROVE  /\ \A s \in Slaves, k \in Keys : may[s][k] \subseteq may'[s][k]
           /\ \A s \in Slaves, k \in Keys, w \in 1 .. Len(write) :
                 <<w, s>> \in T /\ write[w].key = k => db[s][k] \in may'[s][k]
  <1> SUFFICES ASSUME NEW s \in Slaves, NEW k \in Keys
               PROVE  /\ may[s][k] \subseteq may'[s][k]
                      /\ \A w \in 1 .. Len(write) : <<w, s>> \in T /\ write[w].key = k => db[s][k] \in may'[s][k]
    OBVIOUS
  <1>1. may'[s][k] = IF \E w \in 1 .. Len(write) : <<w, s>> \in T /\ write[w].key = k
                     THEN may[s][k] \cup {db[s][k]} ELSE may[s][k]
    BY DEF GiveUp
  <1> QED BY <1>1

\* Steps that start no goroutine, send nothing and keep what is expected
LEMMA StillAnnounced ==
    ASSUME TypeOK, Announced, UNCHANGED write,
           \A w \in Writes, s \in Slaves : Running(w, s)' => Running(w, s),
           net' \subseteq net,
           \A s \in Slaves, k \in Keys : may[s][k] \subseteq may'[s][k]
    PROVE  Announced'
  <1> SUFFICES ASSUME NEW w \in 1 .. Len(write), NEW s \in Slaves, (Running(w, s) \/ Sent(w, s))'
               PROVE  write[w].val \in may'[s][write[w].key]
    BY DEF Announced
  <1>1. write[w].key \in Keys /\ w \in Writes
    BY WriteTyped
  <1>2. Running(w, s) \/ Sent(w, s)
    BY <1>1 DEF Sent
  <1>3. write[w].val \in may[s][write[w].key]
    BY <1>2 DEF Announced
  <1> QED BY <1>1, <1>3

LEMMA AcceptQuiet ==
    ASSUME TInv, Announced, Explained,
           NEW n \in Servers, NEW k \in Keys, NEW v \in Contents, Accept(n, k, v)
    PROVE  Announced' /\ Explained'
  <1>0. TypeOK /\ net' = net
    BY DEF TInv, Accept
  <1>1. CASE n = Master
    <2>1. /\ \A s \in Slaves, j \in Keys : j # k => may'[s][j] = may[s][j]
          /\ \A s \in Slaves : v \in may'[s][k] /\ (UnderWay(s, k) => may[s][k] \subseteq may'[s][k])
      <3>1. Expect(Slaves, k, v)
        BY <1>1 DEF Accept
      <3>2. /\ \A s \in Slaves, j \in Keys : s \notin Slaves \/ j # k => may'[s][j] = may[s][j]
            /\ \A s \in Slaves : v \in may'[s][k] /\ (UnderWay(s, k) => may[s][k] \subseteq may'[s][k])
        BY <1>0, <3>1, ExpectAdds
      <3> QED BY <3>2
    <2>2. /\ Len(write) < MaxWrites
          /\ write' = Append(write, [key |-> k, val |-> v])
          /\ task' = [task EXCEPT ![Len(write) + 1] = [s \in Slaves |-> [pc |-> "ready", try |-> 1]]]
      BY <1>1 DEF Accept, Broadcast
    <2>3. /\ Len(write) \in Nat /\ Len(write') = Len(write) + 1
          /\ \A w \in 1 .. Len(write) : write'[w] = write[w]
          /\ write'[Len(write) + 1] = [key |-> k, val |-> v]
      BY <1>0, <2>2, WriteAppended
    <2>4. 1 .. Len(write') = 1 .. Len(write) \cup {Len(write) + 1} /\ Len(write) + 1 \notin 1 .. Len(write)
      BY <2>3
    <2>5. Len(write) + 1 \in Writes /\ \A w \in 1 .. Len(write) : w \in Writes
      BY <2>2, <2>3, Constants DEF Writes
    <2>5a. PICK p : p = Len(write) + 1
      OBVIOUS
    <2>6. /\ \A w \in 1 .. Len(write), s \in Slaves : Running(w, s)' <=> Running(w, s)
          /\ \A s \in Slaves : Running(p, s)'
      <3>1. task \in [Writes -> [Slaves -> TaskStates]]
        BY <1>0 DEF TypeOK, TaskStates
      <3>2. /\ \A w \in 1 .. Len(write) : task'[w] = task[w]
            /\ \A s \in Slaves : task'[Len(write) + 1][s].pc = "ready"
        BY <2>2, <2>4, <2>5, <3>1
      <3>3. ASSUME NEW w \in 1 .. Len(write), NEW s \in Slaves
            PROVE  Running(w, s)' <=> Running(w, s)
        BY <3>2 DEF Running
      <3>4. \A s \in Slaves : Running(p, s)'
        BY <3>2, <2>5a DEF Running
      <3> QED BY <3>3, <3>4
    <2>7. ASSUME NEW w \in 1 .. Len(write), NEW s \in Slaves, Running(w, s) \/ Sent(w, s)
          PROVE  write[w].val \in may'[s][write[w].key]
      <3>1. write[w].val \in may[s][write[w].key] /\ write[w].key \in Keys
        BY <1>0, <2>7, WriteTyped DEF Announced
      <3>2. CASE write[w].key = k
        <4>1. UnderWay(s, k)
          BY <2>7, <3>2 DEF UnderWay, Sent
        <4> QED BY <2>1, <3>1, <3>2, <4>1
      <3>3. CASE write[w].key # k
        BY <2>1, <3>1, <3>3
      <3> QED BY <3>2, <3>3
    <2>8. Announced'
      <3> SUFFICES ASSUME NEW w \in 1 .. Len(write'), NEW s \in Slaves, (Running(w, s) \/ Sent(w, s))'
                   PROVE  write'[w].val \in may'[s][write'[w].key]
        BY DEF Announced
      <3>1. CASE w \in 1 .. Len(write)
        <4>1. Running(w, s) \/ Sent(w, s)
          BY <1>0, <2>6, <3>1 DEF Sent
        <4> QED BY <2>3, <2>7, <3>1, <4>1
      <3>2. CASE w = Len(write) + 1
        BY <2>1, <2>3, <3>2
      <3> QED BY <2>4, <3>1, <3>2
    <2>9. ASSUME NEW s \in Slaves, NEW j \in Keys
          PROVE  (RunningFor(s, j) \/ db[s][j] \in may[s][j])'
      <3>1. CASE j = k
        <4>1. p \in 1 .. Len(write') /\ write'[p].key = k
          BY <2>3, <2>4, <2>5a
        <4> QED BY <2>6, <3>1, <4>1 DEF RunningFor
      <3>2. CASE j # k
        <4>1. db'[s][j] = db[s][j] /\ may'[s][j] = may[s][j]
          BY <1>0, <1>1, <2>1, <3>2, Constants DEF Accept, TypeOK, Servers
        <4>2. CASE RunningFor(s, j)
          BY <2>3, <2>4, <2>6, <4>2 DEF RunningFor
        <4>3. CASE db[s][j] \in may[s][j]
          BY <4>1, <4>3
        <4> QED BY <4>2, <4>3 DEF Explained
      <3> QED BY <3>1, <3>2
    <2> QED BY <2>8, <2>9 DEF Explained
  <1>2. CASE n # Master
    <2>1. n \in Slaves /\ UNCHANGED <<write, task>>
      BY <1>2 DEF Accept, Servers
    <2>2. /\ \A s \in Slaves, j \in Keys : s # n \/ j # k => may'[s][j] = may[s][j]
          /\ v \in may'[n][k] /\ (UnderWay(n, k) => may[n][k] \subseteq may'[n][k])
      <3>1. Expect({n}, k, v)
        BY <1>2 DEF Accept
      <3>2. {n} \in SUBSET Slaves
        BY <2>1
      <3>3. /\ \A s \in Slaves, j \in Keys : s \notin {n} \/ j # k => may'[s][j] = may[s][j]
            /\ \A s \in {n} : v \in may'[s][k] /\ (UnderWay(s, k) => may[s][k] \subseteq may'[s][k])
        BY <1>0, <3>1, <3>2, ExpectAdds
      <3> QED BY <3>3
    <2>3. \A w \in 1 .. Len(write), s \in Slaves : (Running(w, s)' <=> Running(w, s)) /\ (Sent(w, s)' <=> Sent(w, s))
      BY <1>0, <2>1 DEF Running, Sent
    <2>4. ASSUME NEW w \in 1 .. Len(write), NEW s \in Slaves, Running(w, s) \/ Sent(w, s)
          PROVE  write[w].val \in may'[s][write[w].key]
      <3>1. write[w].val \in may[s][write[w].key] /\ write[w].key \in Keys
        BY <1>0, <2>4, WriteTyped DEF Announced
      <3>2. CASE s = n /\ write[w].key = k
        <4>1. UnderWay(n, k)
          BY <2>4, <3>2 DEF UnderWay, Sent
        <4> QED BY <2>2, <3>1, <3>2, <4>1
      <3>3. CASE ~(s = n /\ write[w].key = k)
        BY <2>2, <3>1, <3>3
      <3> QED BY <3>2, <3>3
    <2>5. Announced'
      BY <2>1, <2>3, <2>4 DEF Announced
    <2>6. ASSUME NEW s \in Slaves, NEW j \in Keys
          PROVE  (RunningFor(s, j) \/ db[s][j] \in may[s][j])'
      <3>1. CASE s = n /\ j = k
        <4>1. db'[s][j] = v
          BY <1>0, <3>1 DEF Accept, TypeOK
        <4> QED BY <2>2, <3>1, <4>1
      <3>2. CASE ~(s = n /\ j = k)
        <4>1. db'[s][j] = db[s][j] /\ may'[s][j] = may[s][j]
          BY <1>0, <2>2, <3>2 DEF Accept, TypeOK, Servers
        <4>2. RunningFor(s, j)' <=> RunningFor(s, j)
          BY <2>1, <2>3 DEF RunningFor
        <4> QED BY <4>1, <4>2 DEF Explained
      <3> QED BY <3>1, <3>2
    <2> QED BY <2>5, <2>6 DEF Explained
  <1> QED BY <1>1, <1>2

LEMMA SendQuiet ==
    ASSUME TInv, Announced, Explained, NEW w \in Writes, NEW s \in Slaves, Send(w, s)
    PROVE  Announced' /\ Explained'
  <1>0. TypeOK /\ UNCHANGED <<write, db, may>>
    BY DEF TInv, Send, cluster
  <1>1. \A u \in Writes, t \in Slaves : Running(u, t)' <=> Running(u, t)
    <2>1. /\ task'[w][s].pc = "waiting"
          /\ \A u \in Writes, t \in Slaves : <<u, t>> # <<w, s>> => task'[u][t] = task[u][t]
      BY <1>0, TaskPc DEF Send, Pcs
    <2> QED BY <2>1 DEF Send, Running
  <1>2. \A u \in 1 .. Len(write) : u \in Writes
    BY <1>0, WriteTyped
  <1>3. \A u \in 1 .. Len(write), t \in Slaves : Sent(u, t)' => Sent(u, t) \/ (u = w /\ t = s)
    BY DEF Send, Sent
  <1>4. Running(w, s)
    BY DEF Send, Running
  <1>5. Announced'
    BY <1>0, <1>1, <1>2, <1>3, <1>4 DEF Announced
  <1>6. Explained'
    BY <1>0, <1>1, <1>2 DEF Explained, RunningFor
  <1> QED BY <1>5, <1>6

\* The goroutine tries again, or what the slave has now is expected.
LEMMA AttemptFailedQuiet ==
    ASSUME TInv, Announced, Explained, NEW w \in Writes, NEW s \in Slaves,
           task[w][s].pc = "waiting", AttemptFailed(w, s), UNCHANGED <<write, db>>, net' \subseteq net
    PROVE  Announced' /\ Explained'
  <1>0. TypeOK
    BY DEF TInv
  <1>1. w \in 1 .. Len(write) /\ task[w][s].try \in 1 .. MaxRetries
    BY DEF TInv, Tasks, Running
  <1>2. CASE task[w][s].try < MaxRetries
    <2> DEFINE x == [pc |-> "ready", try |-> task[w][s].try + 1]
    <2>1. task' = [task EXCEPT ![w][s] = [pc |-> "ready", try |-> @.try + 1]] /\ may' = may
      BY <1>2 DEF AttemptFailed
    <2>2. x \in TaskStates /\ x.pc = "ready"
      BY <1>1, <1>2, Constants DEF TaskStates, Pcs
    <2>3. task' = [task EXCEPT ![w] = [task[w] EXCEPT ![s] = x]]
      BY <2>1
    <2> HIDE DEF x
    <2>4. /\ task'[w][s] = x
          /\ \A u \in Writes, t \in Slaves : <<u, t>> # <<w, s>> => task'[u][t] = task[u][t]
      <3>1. x \in TaskStates
        BY <2>2
      <3> QED BY ONLY <1>0, w \in Writes, s \in Slaves, <2>3, <3>1, TaskUpdated, Zenon
    <2>5. \A u \in Writes, t \in Slaves : Running(u, t)' <=> Running(u, t)
      BY <2>2, <2>4 DEF Running
    <2>6. \A u \in 1 .. Len(write) : u \in Writes
      BY <1>0, WriteTyped
    <2>7. Announced'
      BY <1>0, <2>1, <2>5, StillAnnounced
    <2>8. Explained'
      BY <2>1, <2>5, <2>6 DEF Explained, RunningFor
    <2> QED BY <2>7, <2>8
  <1>3. CASE ~(task[w][s].try < MaxRetries)
    <2>1. task' = [task EXCEPT ![w][s].pc = "gaveup"] /\ GiveUp({<<w, s>>})
      BY <1>3 DEF AttemptFailed
    <2>2. \A u \in Writes, t \in Slaves :
             IF u = w /\ t = s THEN task'[u][t].pc = "gaveup" ELSE task'[u][t] = task[u][t]
      <3>1. /\ task'[w][s].pc = "gaveup"
            /\ \A u \in Writes, t \in Slaves : <<u, t>> # <<w, s>> => task'[u][t] = task[u][t]
        BY <1>0, <2>1, TaskPc DEF Pcs
      <3> QED BY <3>1
    <2>3. \A u \in Writes, t \in Slaves : (Running(u, t)' <=> Running(u, t)) \/ (u = w /\ t = s /\ ~Running(u, t)')
      BY <2>2 DEF Running
    <2>4. /\ \A t \in Slaves, k \in Keys : may[t][k] \subseteq may'[t][k]
          /\ \A k \in Keys : write[w].key = k => db[s][k] \in may'[s][k]
      BY <1>1, <2>1, GiveUpAdds
    <2>5. \A u \in 1 .. Len(write) : u \in Writes
      BY <1>0, WriteTyped
    <2>6. \A u \in Writes, t \in Slaves : Running(u, t)' => Running(u, t)
      BY <2>3
    <2>7. Announced'
      BY <1>0, <2>4, <2>6, StillAnnounced
    <2>8. ASSUME NEW t \in Slaves, NEW k \in Keys, ~(RunningFor(t, k)')
          PROVE  db[t][k] \in may'[t][k]
      <3>1. CASE RunningFor(t, k)
        <4>1. PICK u \in 1 .. Len(write) : Running(u, t) /\ write[u].key = k
          BY <3>1 DEF RunningFor
        <4>2. ~(Running(u, t)')
          BY <2>8, <4>1 DEF RunningFor
        <4>3. u = w /\ t = s
          BY <2>3, <2>5, <4>1, <4>2
        <4> QED BY <2>4, <4>1, <4>3
      <3>2. CASE db[t][k] \in may[t][k]
        BY <2>4, <3>2
      <3> QED BY <3>1, <3>2 DEF Explained
    <2>9. Explained'
      BY <2>8 DEF Explained
    <2> QED BY <2>7, <2>9
  <1> QED BY <1>2, <1>3

\* A write that arrives is expected, and it is the one its goroutine was for.
LEMMA HandleSyncQuiet ==
    ASSUME TInv, Announced, Explained, NEW m \in net, HandleSync(m)
    PROVE  Announced' /\ Explained'
  <1>0. TypeOK /\ UNCHANGED <<write, may>> /\ net' \subseteq net
    BY DEF TInv, HandleSync
  <1>1. m.w \in 1 .. Len(write) /\ m.s \in Slaves
    BY <1>0 DEF TypeOK
  <1> DEFINE k == write[m.w].key
  <1>2. m.w \in Writes /\ k \in Keys /\ \A u \in 1 .. Len(write) : u \in Writes
    BY <1>0, <1>1, WriteTyped
  <1>3. \A u \in Writes, t \in Slaves :
          (Running(u, t)' <=> Running(u, t)) \/ (u = m.w /\ t = m.s /\ ~Running(u, t)')
    <2>1. CASE task' = task
      BY <2>1 DEF Running
    <2>2. CASE task' = [task EXCEPT ![m.w][m.s].pc = "done"]
      <3>1. \A u \in Writes, t \in Slaves :
               IF u = m.w /\ t = m.s THEN task'[u][t].pc = "done" ELSE task'[u][t] = task[u][t]
        <4>1. /\ task'[m.w][m.s].pc = "done"
              /\ \A u \in Writes, t \in Slaves : <<u, t>> # <<m.w, m.s>> => task'[u][t] = task[u][t]
          BY <1>0, <1>1, <1>2, <2>2, TaskPc DEF Pcs
        <4> QED BY <4>1
      <3> QED BY <3>1 DEF Running
    <2> QED BY <2>1, <2>2 DEF HandleSync
  <1>4. write[m.w].val \in may[m.s][k]
    <2>1. Sent(m.w, m.s)
      BY DEF Sent
    <2> QED BY <1>1, <2>1 DEF Announced
  <1>5. \A t \in Slaves, j \in Keys :
           db'[t][j] = IF t = m.s /\ j = k THEN write[m.w].val ELSE db[t][j]
    BY <1>0, <1>1, <1>2 DEF HandleSync, TypeOK, Servers
  <1> HIDE DEF k
  <1>6. Announced'
    BY <1>0, <1>3, StillAnnounced
  <1>7. ASSUME NEW t \in Slaves, NEW j \in Keys, ~(RunningFor(t, j)')
        PROVE  db'[t][j] \in may[t][j]
    <2>1. CASE t = m.s /\ j = k
      BY <1>4, <1>5, <2>1
    <2>2. CASE ~(t = m.s /\ j = k)
      <3>1. ~RunningFor(t, j)
        <4> SUFFICES ASSUME NEW u \in 1 .. Len(write), Running(u, t), write[u].key = j PROVE FALSE
          BY DEF RunningFor
        <4>1. Running(u, t)'
          BY <1>2, <1>3, <2>2 DEF k
        <4> QED BY <1>0, <1>7, <4>1 DEF RunningFor
      <3> QED BY <1>5, <2>2, <3>1 DEF Explained
    <2> QED BY <2>1, <2>2
  <1>8. Explained'
    BY <1>0, <1>7 DEF Explained
  <1> QED BY <1>6, <1>8

LEMMA CrashQuiet ==
    ASSUME TInv, Announced, Explained, NEW n \in Servers, Crash(n)
    PROVE  Announced' /\ Explained'
  <1>0. TypeOK /\ UNCHANGED <<write, db>> /\ net' \subseteq net
    BY DEF TInv, Crash
  <1>1. CASE n = Master
    <2> DEFINE T == {t \in (1 .. Len(write)) \X Slaves : Running(t[1], t[2])}
    <2>1. /\ GiveUp(T)
          /\ task' = [w \in Writes |-> [s \in Slaves |->
                        IF <<w, s>> \in T THEN [task[w][s] EXCEPT !.pc = "killed"] ELSE task[w][s]]]
      BY <1>1 DEF Crash
    <2>2. \A w \in 1 .. Len(write), s \in Slaves : <<w, s>> \in T <=> Running(w, s)
      OBVIOUS
    <2> HIDE DEF T
    <2>3. /\ \A s \in Slaves, k \in Keys : may[s][k] \subseteq may'[s][k]
          /\ \A s \in Slaves, k \in Keys, w \in 1 .. Len(write) :
                <<w, s>> \in T /\ write[w].key = k => db[s][k] \in may'[s][k]
      BY <2>1, GiveUpAdds
    <2>4. \A w \in Writes, s \in Slaves : Running(w, s)' => Running(w, s)
      <3> SUFFICES ASSUME NEW w \in Writes, NEW s \in Slaves, Running(w, s)' PROVE Running(w, s)
        OBVIOUS
      <3>1. task[w][s] \in TaskStates
        BY <1>0 DEF TypeOK, TaskStates
      <3>2. [task[w][s] EXCEPT !.pc = "killed"].pc = "killed"
        BY <3>1 DEF TaskStates
      <3>3. task'[w][s] = IF <<w, s>> \in T THEN [task[w][s] EXCEPT !.pc = "killed"] ELSE task[w][s]
        BY <2>1
      <3> QED BY <3>2, <3>3 DEF Running
    <2>5. Announced'
      BY <1>0, <2>3, <2>4, StillAnnounced
    <2>6. \A s \in Slaves, k \in Keys : db[s][k] \in may'[s][k]
      BY <2>2, <2>3 DEF Explained, RunningFor
    <2> QED BY <1>0, <2>5, <2>6 DEF Explained
  <1>2. CASE n # Master
    <2>1. UNCHANGED <<task, may>>
      BY <1>2 DEF Crash
    <2>2. Announced'
      BY <1>0, <2>1, StillAnnounced DEF Running
    <2> QED BY <1>0, <2>1, <2>2 DEF Explained, RunningFor, Running
  <1> QED BY <1>1, <1>2

LEMMA InitQuiet == Init => Announced /\ Explained
  <1> SUFFICES ASSUME Init PROVE Announced /\ Explained
    OBVIOUS
  <1>1. Len(write) = 0
    BY DEF Init
  <1> QED BY <1>1 DEF Init, Announced, Explained, Servers

LEMMA NextQuiet == TInv /\ Announced /\ Explained /\ [Next]_vars => Announced' /\ Explained'
  <1> SUFFICES ASSUME TInv, Announced, Explained, [Next]_vars PROVE Announced' /\ Explained'
    OBVIOUS
  <1>0. TypeOK
    BY DEF TInv
  <1>1. ASSUME NEW n \in Servers, HandlePut(n) \/ HandleDelete(n)
        PROVE  Announced' /\ Explained'
    BY <1>1, AcceptQuiet DEF HandlePut, HandleDelete, Contents
  <1>2. ASSUME NEW m \in net, Refused(m)
        PROVE  Announced' /\ Explained'
    <2>1. m.w \in 1 .. Len(write) /\ m.s \in Slaves /\ UNCHANGED <<write, db>> /\ net' \subseteq net
      BY <1>0, <1>2 DEF Refused, TypeOK, cluster
    <2>2. m.w \in Writes
      BY <1>0, <2>1, WriteTyped
    <2>3. CASE Awaited(m)
      <3>1. task[m.w][m.s].pc = "waiting" /\ AttemptFailed(m.w, m.s)
        BY <1>2, <2>3 DEF Awaited, Refused
      <3> QED BY <2>1, <2>2, <3>1, AttemptFailedQuiet
    <2>4. CASE ~Awaited(m)
      <3>1. UNCHANGED <<task, may>>
        BY <1>2, <2>4 DEF Refused
      <3>2. Announced'
        BY <1>0, <2>1, <3>1, StillAnnounced DEF Running
      <3> QED BY <2>1, <3>1, <3>2 DEF Explained, RunningFor, Running
    <2> QED BY <2>3, <2>4
  <1>3. ASSUME NEW w \in Writes, NEW s \in Slaves, Timeout(w, s)
        PROVE  Announced' /\ Explained'
    <2>1. task[w][s].pc = "waiting" /\ AttemptFailed(w, s) /\ UNCHANGED <<write, db>> /\ net' \subseteq net
      BY <1>3 DEF Timeout, cluster
    <2> QED BY <2>1, AttemptFailedQuiet
  <1>4. CASE UNCHANGED <<db, write, task, net, may>>
    BY <1>4 DEF Announced, Explained, Sent, RunningFor, Running
  <1>5. ASSUME NEW s \in Slaves, HeartbeatOK(s) \/ HeartbeatFails(s)
        PROVE  UNCHANGED <<db, write, task, net, may>>
    BY <1>5 DEF HeartbeatOK, HeartbeatFails, cluster
  <1>6. ASSUME NEW n \in Servers, Restart(n)
        PROVE  UNCHANGED <<db, write, task, net, may>>
    BY <1>6 DEF Restart
  <1>7. CASE UNCHANGED vars
    BY <1>4, <1>7 DEF vars, cluster
  <1> QED BY <1>1, <1>2, <1>3, <1>4, <1>5, <1>6, <1>7, SendQuiet, HandleSyncQuiet, CrashQuiet DEF Next

\* A write that ran alone and was not given up is what every slave has once its
\* goroutine is done: retries and late duplicates of it and crashes of either
\* side change nothing, and only values of writes that overlapped or were given
\* up can be there instead.
THEOREM QuietSlaveExplained == Spec => []QuietValue
  <1>1. Explained => QuietValue
    BY DEF Explained, RunningFor, QuietValue, UnderWay
  <1>2. Init => Announced /\ Explained
    BY InitQuiet
  <1>3. TInv /\ (Announced /\ Explained) /\ [Next]_vars => (Announced /\ Explained)'
    BY NextQuiet
  <1> QED BY Typing, <1>1, <1>2, <1>3, PTL DEF Spec
=============================================================================
