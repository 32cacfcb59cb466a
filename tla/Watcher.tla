------------------------------ MODULE Watcher ------------------------------
(***************************************************************************)
(* The watch feature (watch.go, and the parts of Open, Close and Commit    *)
(* that drive it): Commit puts events into a ring buffer that overwrites   *)
(* its oldest entry, the goroutine sendEvent moves them to the channel the *)
(* caller of DB.Watch reads, and Close stops the goroutine.                *)
(*                                                                         *)
(* An event is the number of the commit record that caused it: 1, 2, ...   *)
(* putEvent and getEvent hold watcher.mu and are one step each.            *)
(***************************************************************************)
EXTENDS Integers, Sequences

CONSTANTS
    Capacity,   \* options.WatchQueueSize
    ChanCap,    \* capacity of db.watchCh, 100 in Open
    MaxEvents   \* bound on the number of events

ASSUME CapacityAssumption == Capacity \in Nat \ {0}
ASSUME ChanCapAssumption == ChanCap \in Nat \ {0}
ASSUME MaxEventsAssumption == MaxEvents \in Nat

VARIABLES
    Events,    \* the slots of the ring, 0 for nil
    Front,     \* read point
    Back,      \* write point
    watchCh,   \* events in the channel
    chClosed,  \* close(db.watchCh) has happened
    done,      \* close(w.done) has happened
    pc,        \* sendEvent: "loop", "get", "send", "returned", "panicked"
    event,     \* the event sendEvent holds
    put,       \* history: number of events put so far
    received   \* history: the last event the caller received

queue == <<Events, Front, Back>>
vars == <<Events, Front, Back, watchCh, chClosed, done, pc, event, put, received>>
-----------------------------------------------------------------------------
\* Mutant: the write point is not wrapped around.
SuccNoWrap(i) == i + 1

Succ(i) == (i + 1) % Capacity
\* Mutant: the ring never makes room.
isFullNever(f, b) == FALSE

isFull(f, b) == Succ(b) = f
isEmpty == Back = Front

push(e) ==
    /\ Events' = [Events EXCEPT ![Back] = e]
    /\ Back' = Succ(Back)

pop ==
    /\ event' = Events[Front]
    /\ Front' = Succ(Front)

\* Mutant: the event is stored after the write point has moved.
putEventLate ==
    /\ ~done /\ put < MaxEvents
    /\ put' = put + 1
    /\ Events' = [Events EXCEPT ![Succ(Back)] = put + 1]
    /\ Back' = Succ(Back)
    /\ Front' = IF isFull(Front, Succ(Back)) THEN Succ(Front) ELSE Front
    /\ UNCHANGED <<watchCh, chClosed, done, pc, event, received>>

\* putEvent, called by Commit under db.mu: not once Close is under way.
\* push, then the oldest event makes room if the ring is full.
putEvent ==
    /\ ~done /\ put < MaxEvents
    /\ put' = put + 1
    /\ push(put + 1)
    /\ Front' = IF isFull(Front, Succ(Back)) THEN Succ(Front) ELSE Front
    /\ UNCHANGED <<watchCh, chClosed, done, pc, event, received>>

\* The outer select of sendEvent finds done still open.
SenderPolls ==
    /\ pc = "loop" /\ ~done
    /\ pc' = "get"
    /\ UNCHANGED <<queue, watchCh, chClosed, done, event, put, received>>

\* Mutant: pop without frontTakeAStep.
getEventPeek ==
    /\ pc = "get"
    /\ IF isEmpty THEN pc' = "loop" /\ UNCHANGED event
       ELSE event' = Events[Front] /\ pc' = "send"
    /\ UNCHANGED <<queue, watchCh, chClosed, done, put, received>>

\* getEvent takes the oldest event; an empty ring makes sendEvent sleep and
\* come back.  Close may have come in between.
getEvent ==
    /\ pc = "get"
    /\ IF isEmpty THEN pc' = "loop" /\ UNCHANGED <<Front, event>>
       ELSE pop /\ pc' = "send"
    /\ UNCHANGED <<Events, Back, watchCh, chClosed, done, put, received>>

\* Either select returns once done is closed.
SenderReturns ==
    /\ pc \in {"loop", "send"} /\ done
    /\ pc' = "returned"
    /\ UNCHANGED <<queue, watchCh, chClosed, done, event, put, received>>

\* The inner select sends when the channel has room; a send on a closed
\* channel is always ready, and panics.
SenderSends ==
    /\ pc = "send"
    /\ \/ /\ ~chClosed /\ Len(watchCh) < ChanCap
          /\ watchCh' = Append(watchCh, event)
          /\ pc' = "loop"
       \/ /\ chClosed
          /\ pc' = "panicked"
          /\ UNCHANGED watchCh
    /\ UNCHANGED <<queue, chClosed, done, event, put, received>>

\* Close of the database, under db.mu: watcher.Close(), then close(watchCh).
CloseWatcher ==
    /\ ~done
    /\ done' = TRUE
    /\ UNCHANGED <<queue, watchCh, chClosed, pc, event, put, received>>

CloseChannel ==
    /\ done /\ ~chClosed
    /\ chClosed' = TRUE
    /\ UNCHANGED <<queue, watchCh, done, pc, event, put, received>>

\* The caller reads the channel DB.Watch returned.
Receive ==
    /\ watchCh # <<>>
    /\ received' = Head(watchCh)
    /\ watchCh' = Tail(watchCh)
    /\ UNCHANGED <<queue, chClosed, done, pc, event, put>>
-----------------------------------------------------------------------------
\* NewWatcher and Open
Init ==
    /\ Events = [i \in 0..(Capacity - 1) |-> 0]
    /\ Front = 0 /\ Back = 0
    /\ watchCh = <<>> /\ chClosed = FALSE /\ done = FALSE
    /\ pc = "loop" /\ event = 0
    /\ put = 0 /\ received = 0

Next ==
    \/ putEvent
    \/ SenderPolls
    \/ getEvent
    \/ SenderReturns
    \/ SenderSends
    \/ CloseWatcher
    \/ CloseChannel
    \/ Receive

Spec == Init /\ [][Next]_vars

\* The goroutine is scheduled, and the caller keeps reading the channel.
Fairness ==
    /\ WF_vars(SenderPolls \/ getEvent \/ SenderReturns \/ SenderSends)
    /\ WF_vars(Receive)

FairSpec == Spec /\ Fairness
-----------------------------------------------------------------------------
TypeOK ==
    /\ Events \in [0..(Capacity - 1) -> Nat]
    /\ Front \in 0..(Capacity - 1)
    /\ Back \in 0..(Capacity - 1)
    /\ watchCh \in Seq(Nat)
    /\ chClosed \in BOOLEAN
    /\ done \in BOOLEAN
    /\ pc \in {"loop", "get", "send", "returned", "panicked"}
    /\ event \in Nat
    /\ put \in Nat
    /\ received \in Nat

\* Number of events in the ring, and the slot of the j-th oldest of them.
Size == IF Back >= Front THEN Back - Front ELSE Back - Front + Capacity
Slot(j) == IF Front + j < Capacity THEN Front + j ELSE Front + j - Capacity

\* The ring holds exactly the latest events, oldest first, however often it
\* has wrapped around and overflowed: overflow removes the oldest event and
\* never one that came after an event still there.
RingHoldsLatest ==
    /\ Size <= put
    /\ \A j \in 0..(Size - 1) : Events[Slot(j)] = put - Size + 1 + j

\* Events reach the caller in the order of the commits, none twice, across the
\* ring, the event in the goroutine's hand and the channel.
OrderedDelivery ==
    /\ \A i, j \in DOMAIN watchCh : i < j => watchCh[i] < watchCh[j]
    /\ \A i \in DOMAIN watchCh : received < watchCh[i]
    /\ \A i \in DOMAIN watchCh : pc = "send" => watchCh[i] < event
    /\ pc = "send" => received < event /\ event <= put - Size
    /\ \A i \in DOMAIN watchCh : watchCh[i] <= put - Size

\* Every event, or one that came later, reaches the caller unless the
\* database is closed: nothing stays stuck in the ring.
EveryEventOvertaken ==
    \A n \in 1..MaxEvents : (put >= n) ~> (received >= n \/ done)

\* watch.go: sendEvent "will return when the watcher is closed".
SenderNeverPanics == pc # "panicked"
=============================================================================
