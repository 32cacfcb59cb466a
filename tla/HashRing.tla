------------------------------ MODULE HashRing ------------------------------
(***************************************************************************)
(* A ring in use: servers are added and removed in any order, added again  *)
(* while they are there, removed while they are not.  The hash function is *)
(* chosen once, at the start, and may collide.                             *)
(***************************************************************************)
EXTENDS ConsistentHash

CONSTANTS
    VHashes,     \* the hash functions, as the hashes of the virtual nodes
    MaxCopies    \* bound: how many more times a server is added than removed

ASSUME HashRingAssumption ==
    /\ VHashes \subseteq [Nodes -> [1 .. Replicas -> Positions]]
    /\ MaxCopies \in Nat \ {0}

VARIABLES
    ring,     \* the ConsistentHashRing
    vhash,    \* hashes of the virtual nodes, never changed
    member,   \* history: servers whose last operation was AddNode
    copies    \* history: AddNode calls not yet undone by a RemoveNode

vars == <<ring, vhash, member, copies>>

Init ==
    /\ ring = New
    /\ vhash \in VHashes
    /\ member = {}
    /\ copies = [n \in Nodes |-> 0]

Add(n) ==
    /\ copies[n] < MaxCopies
    /\ ring' = AddNode(ring, vhash, n)
    /\ member' = member \cup {n}
    /\ copies' = [copies EXCEPT ![n] = @ + 1]
    /\ UNCHANGED vhash

Remove(n) ==
    /\ ring' = RemoveNode(ring, vhash, n)
    /\ member' = member \ {n}
    /\ copies' = [copies EXCEPT ![n] = IF @ = 0 THEN 0 ELSE @ - 1]
    /\ UNCHANGED vhash

Next == \E n \in Nodes : Add(n) \/ Remove(n)

Spec == Init /\ [][Next]_vars

-----------------------------------------------------------------------------
Owner(h) == GetNode(ring, h)

\* No virtual node of one server shares its position with another server's.
NoCollision ==
    \A m, n \in Nodes : m # n => \A p \in Positions : Virtual(vhash, m, p) = {} \/ Virtual(vhash, n, p) = {}

\* Every removed server has been removed as often as it was added.
Balanced == \A n \in Nodes \ member : copies[n] = 0

\* How far clockwise from the hash h server n has its first virtual node
Distance(n, h) == Least({(vhash[n][i] - h + HashSize) % HashSize : i \in 1 .. Replicas})

TypeOK ==
    /\ ring \in Rings
    /\ vhash \in VHashes
    /\ member \subseteq Nodes
    /\ copies \in [Nodes -> 0 .. MaxCopies]

\* RemoveNode promises that no request is routed to a removed server any more.
\* It holds of every key and hash function, even when virtual nodes collide or
\* a server was added twice and removed once: its positions stay in keys then,
\* but lead to "" and not to it.
RoutesToMembers == \A h \in Positions : Owner(h) \in member \cup {None}

\* What the comment on GetNode says, that its answer is "" if the ring is empty:
\* while there are positions in keys, every key has a server.
AlwaysRoutes == IsEmpty(ring) \/ \A h \in Positions : Owner(h) # None

\* The binary search with its wrap finds the server whose virtual node is the
\* first clockwise from the key, and "" only when the ring has no server, unless
\* virtual nodes of two servers collide or a server was added more often than
\* it was removed.
FirstClockwise ==
    NoCollision /\ Balanced =>
        \A h \in Positions :
            IF member = {} THEN Owner(h) = None
            ELSE /\ Owner(h) \in member
                 /\ \A n \in member : Distance(Owner(h), h) <= Distance(n, h)

\* Consistent hashing: adding a server moves keys to that server only, whatever
\* collides; removing one moves only its own keys, and keys that led to "", when
\* no positions collide.
MovesOnlyItsKeys ==
    [][\A h \in Positions, n \in Nodes :
          Owner(h)' # Owner(h) =>
              /\ Add(n) => Owner(h)' = n
              /\ Remove(n) /\ NoCollision => Owner(h) \in {n, None}]_vars
=============================================================================
