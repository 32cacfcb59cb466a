--------------------------- MODULE WatcherProofs ---------------------------
(***************************************************************************)
(* Proofs about Watcher for every capacity of the ring and the channel.    *)
(***************************************************************************)
EXTENDS Watcher, SequenceTheorems, TLAPS

\* The remainder of eventQueue is a wrap-around: this takes the arithmetic of
\* % out of every later proof.
LEMMA SuccLemma ==
    ASSUME NEW i \in 0..(Capacity - 1)
    PROVE  Succ(i) = IF i + 1 = Capacity THEN 0 ELSE i + 1
  <1>1. Capacity \in Nat /\ Capacity > 0
    BY CapacityAssumption
  <1>2. CASE i + 1 = Capacity
    BY <1>1, <1>2 DEF Succ
  <1>3. CASE i + 1 < Capacity
    BY <1>1, <1>3 DEF Succ
  <1> QED BY <1>1, <1>2, <1>3

\* Between two operations the ring is never full: an event is written into a
\* slot that holds no unread event.
NeverFull == Capacity = 1 \/ Size <= Capacity - 2

IInv ==
    /\ TypeOK
    /\ NeverFull
    /\ RingHoldsLatest
    /\ OrderedDelivery
    /\ received <= put - Size

LEMMA SizeLemma ==
    ASSUME TypeOK
    PROVE  Capacity \in Nat \ {0} /\ Size \in 0..(Capacity - 1)
  BY CapacityAssumption DEF TypeOK, Size

LEMMA InitIInv == Init => IInv
  <1> SUFFICES ASSUME Init PROVE IInv
    OBVIOUS
  <1>1. TypeOK
    <2>1. Events \in [0..(Capacity - 1) -> Nat] /\ Front \in 0..(Capacity - 1)
          /\ Back \in 0..(Capacity - 1)
      BY CapacityAssumption DEF Init
    <2>2. chClosed \in BOOLEAN /\ done \in BOOLEAN
      BY DEF Init
    <2>3. watchCh \in Seq(Nat)
      BY EmptySeq DEF Init
    <2>4. /\ pc \in {"loop", "send", "returned", "panicked"}
          /\ event \in Nat /\ put \in Nat /\ received \in Nat
      BY DEF Init
    <2> QED BY <2>1, <2>2, <2>3, <2>4 DEF TypeOK
  <1>2. Size = 0
    BY DEF Init, Size
  <1>3. NeverFull
    BY <1>2, CapacityAssumption DEF NeverFull
  <1>4. RingHoldsLatest
    BY <1>2 DEF Init, RingHoldsLatest
  <1>5. OrderedDelivery
    BY <1>2 DEF Init, OrderedDelivery
  <1> QED BY <1>1, <1>2, <1>3, <1>4, <1>5 DEF Init, IInv

\* A push, with the drop of the oldest event if the ring became full.
LEMMA PutStep ==
    ASSUME IInv, putEvent
    PROVE  IInv'
  <1>0. Capacity \in Nat \ {0} /\ Size \in 0..(Capacity - 1) /\ put \in Nat
        /\ Front \in 0..(Capacity - 1) /\ Back \in 0..(Capacity - 1)
    BY SizeLemma DEF IInv, TypeOK
  <1>1. /\ Back' = IF Back + 1 = Capacity THEN 0 ELSE Back + 1
        /\ Back' \in 0..(Capacity - 1)
    BY <1>0, SuccLemma DEF putEvent, push
  <1>2. /\ Front' = IF Succ(Back') = Front THEN Succ(Front) ELSE Front
        /\ Succ(Back') = IF Back' + 1 = Capacity THEN 0 ELSE Back' + 1
        /\ Succ(Front) = IF Front + 1 = Capacity THEN 0 ELSE Front + 1
    BY <1>0, <1>1, SuccLemma DEF putEvent, push, isFull
  <1>3. TypeOK'
    BY <1>0, <1>1, <1>2 DEF IInv, TypeOK, putEvent, push
  <1>4. \/ Capacity = 1 /\ Size = 0 /\ Size' = 0
        \/ /\ Capacity > 1 /\ Size <= Capacity - 2
           /\ \/ Front' = Front /\ Size' = Size + 1 /\ Size' <= Capacity - 2
              \/ Front' = Succ(Front) /\ Size' = Size /\ Size + 1 = Capacity - 1
    BY <1>0, <1>1, <1>2 DEF IInv, NeverFull, Size
  <1>5. NeverFull'
    BY <1>0, <1>4 DEF NeverFull
  <1>6. /\ put' = put + 1
        /\ \A i \in 0..(Capacity - 1) : Events'[i] = IF i = Back THEN put + 1 ELSE Events[i]
    BY <1>0 DEF putEvent, push, IInv, TypeOK
  <1>7. Size' <= put' /\ put - Size <= put' - Size' /\ Size' \in Nat
    BY <1>0, <1>4, <1>6 DEF IInv, RingHoldsLatest
  <1>8. \A j \in 0..(Size' - 1) : Events'[Slot(j)'] = put' - Size' + 1 + j
    <2> SUFFICES ASSUME NEW j \in 0..(Size' - 1)
                 PROVE  Events'[Slot(j)'] = put' - Size' + 1 + j
      OBVIOUS
    <2>1. Capacity > 1 /\ Size <= Capacity - 2 /\ j \in Nat
      BY <1>0, <1>4
    <2>2. CASE Front' = Front /\ Size' = Size + 1
      <3>1. Slot(j)' = Slot(j) /\ Slot(j) \in 0..(Capacity - 1)
        BY <1>0, <2>1, <2>2 DEF Slot
      <3>2. CASE j = Size
        <4>1. Slot(j) = Back
          BY <1>0, <2>1, <3>2 DEF Slot, Size
        <4> QED BY <1>0, <1>6, <2>2, <3>1, <3>2, <4>1
      <3>3. CASE j < Size
        <4>1. Slot(j) # Back
          BY <1>0, <2>1, <3>3 DEF Slot, Size
        <4>2. Events[Slot(j)] = put - Size + 1 + j
          BY <1>0, <2>1, <3>3 DEF IInv, RingHoldsLatest
        <4> QED BY <1>0, <1>6, <2>1, <2>2, <3>1, <3>3, <4>1, <4>2
      <3> QED BY <1>0, <2>1, <2>2, <3>2, <3>3
    <2>3. CASE Front' = Succ(Front) /\ Size' = Size
      <3>1. Slot(j)' = Slot(j + 1) /\ Slot(j + 1) \in 0..(Capacity - 1)
        BY <1>0, <1>2, <2>1, <2>3 DEF Slot
      <3>2. CASE j + 1 = Size
        <4>1. Slot(j + 1) = Back
          BY <1>0, <2>1, <3>2 DEF Slot, Size
        <4> QED BY <1>0, <1>6, <2>1, <2>3, <3>1, <3>2, <4>1
      <3>3. CASE j + 1 < Size
        <4>1. Slot(j + 1) # Back
          BY <1>0, <2>1, <3>3 DEF Slot, Size
        <4>2. Events[Slot(j + 1)] = put - Size + 1 + (j + 1)
          BY <1>0, <2>1, <3>3 DEF IInv, RingHoldsLatest
        <4> QED BY <1>0, <1>6, <2>1, <2>3, <3>1, <3>3, <4>1, <4>2
      <3> QED BY <1>0, <2>1, <2>3, <3>2, <3>3
    <2> QED BY <1>4, <2>1, <2>2, <2>3
  <1>9. RingHoldsLatest'
    BY <1>7, <1>8 DEF RingHoldsLatest
  <1>10. /\ watchCh' = watchCh /\ pc' = pc /\ event' = event /\ received' = received
    BY DEF putEvent, push
  <1>11. put' - Size' \in Int /\ put - Size \in Int
    BY <1>0, <1>6, <1>7
  <1>12. \A n \in Nat : n <= put - Size => n <= put' - Size'
    BY <1>7, <1>11
  <1>13. OrderedDelivery'
    <2>1. \A i \in DOMAIN watchCh : watchCh[i] \in Nat
      BY ElementOfSeq, LenProperties DEF IInv, TypeOK
    <2> QED BY <1>10, <1>12, <2>1 DEF IInv, TypeOK, OrderedDelivery
  <1>14. (received <= put - Size)'
    BY <1>10, <1>12 DEF IInv, TypeOK
  <1> QED BY <1>3, <1>5, <1>9, <1>13, <1>14 DEF IInv

\* A pop takes the oldest event.
LEMMA GetStep ==
    ASSUME IInv, getEvent, ~isEmpty
    PROVE  IInv'
  <1>0. Capacity \in Nat \ {0} /\ Size \in 0..(Capacity - 1) /\ put \in Nat
        /\ Front \in 0..(Capacity - 1) /\ Back \in 0..(Capacity - 1)
    BY SizeLemma DEF IInv, TypeOK
  <1>1. /\ Front' = IF Front + 1 = Capacity THEN 0 ELSE Front + 1
        /\ Front' \in 0..(Capacity - 1) /\ Back' = Back /\ Events' = Events /\ put' = put
        /\ watchCh' = watchCh /\ received' = received /\ pc' = "send"
    BY <1>0, SuccLemma DEF getEvent, pop
  <1>2. Size > 0 /\ Size' = Size - 1
    BY <1>0, <1>1 DEF getEvent, pop, isEmpty, Size
  <1>3. event' = put - Size + 1
    <2>1. Slot(0) = Front
      BY <1>0 DEF Slot
    <2>2. Events[Slot(0)] = put - Size + 1 + 0
      BY <1>0, <1>2 DEF IInv, RingHoldsLatest
    <2> QED BY <1>0, <2>1, <2>2 DEF getEvent, pop
  <1>4. Size <= put
    BY DEF IInv, RingHoldsLatest
  <1>5. TypeOK'
    BY <1>0, <1>1, <1>2, <1>3, <1>4 DEF IInv, TypeOK, getEvent, pop
  <1>6. NeverFull'
    BY <1>0, <1>2 DEF IInv, NeverFull
  <1>7. RingHoldsLatest'
    <2>1. ASSUME NEW j \in 0..(Size' - 1)
          PROVE  Events'[Slot(j)'] = put' - Size' + 1 + j
      <3>1. Slot(j)' = Slot(j + 1)
        BY <1>0, <1>1, <1>2 DEF Slot
      <3>2. Events[Slot(j + 1)] = put - Size + 1 + (j + 1)
        BY <1>0, <1>2 DEF IInv, RingHoldsLatest
      <3> QED BY <1>0, <1>1, <1>2, <3>1, <3>2
    <2> QED BY <1>0, <1>1, <1>2, <1>4, <2>1 DEF RingHoldsLatest
  <1>8. put - Size \in Int /\ put' - Size' = put - Size + 1
    BY <1>0, <1>1, <1>2
  <1>9. OrderedDelivery'
    <2>1. \A i \in DOMAIN watchCh : watchCh[i] \in Nat /\ watchCh[i] <= put - Size
      BY ElementOfSeq, LenProperties DEF IInv, TypeOK, OrderedDelivery
    <2>2. received \in Nat /\ received <= put - Size
      BY DEF IInv, TypeOK
    <2>3. received' < event' /\ event' <= put' - Size'
      BY <1>1, <1>3, <1>8, <2>2
    <2>4. \A i \in DOMAIN watchCh' : watchCh'[i] < event' /\ watchCh'[i] <= put' - Size'
      BY <1>1, <1>3, <1>8, <2>1
    <2>5. /\ \A i, j \in DOMAIN watchCh' : i < j => watchCh'[i] < watchCh'[j]
          /\ \A i \in DOMAIN watchCh' : received' < watchCh'[i]
      BY <1>1 DEF IInv, OrderedDelivery
    <2> QED BY <2>3, <2>4, <2>5 DEF OrderedDelivery
  <1>10. (received <= put - Size)'
    BY <1>1, <1>8 DEF IInv, TypeOK
  <1> QED BY <1>5, <1>6, <1>7, <1>9, <1>10 DEF IInv

LEMMA SendStep ==
    ASSUME IInv, SenderSends
    PROVE  IInv'
  <1>1. /\ UNCHANGED <<Events, Front, Back, chClosed, done, event, put, received>>
        /\ pc = "send"
    BY DEF SenderSends, queue
  <1>2. Size' = Size
    BY <1>1 DEF Size
  <1>3. NeverFull' /\ RingHoldsLatest' /\ (received <= put - Size)'
    BY <1>1, <1>2 DEF IInv, NeverFull, RingHoldsLatest, Slot
  <1>4. CASE watchCh' = Append(watchCh, event) /\ pc' = "loop"
    <2>1. watchCh \in Seq(Nat) /\ event \in Nat /\ Len(watchCh) \in Nat
      BY LenProperties DEF IInv, TypeOK
    <2>2. /\ watchCh' \in Seq(Nat) /\ Len(watchCh') = Len(watchCh) + 1
          /\ \A i \in 1..Len(watchCh) : watchCh'[i] = watchCh[i]
          /\ watchCh'[Len(watchCh) + 1] = event
      BY <1>4, <2>1, AppendProperties
    <2>3. DOMAIN watchCh = 1..Len(watchCh) /\ DOMAIN watchCh' = 1..(Len(watchCh) + 1)
      BY <2>1, <2>2, LenProperties
    <2>4. /\ \A i, j \in 1..Len(watchCh) : i < j => watchCh[i] < watchCh[j]
          /\ \A i \in 1..Len(watchCh) : /\ received < watchCh[i] /\ watchCh[i] < event
                                        /\ watchCh[i] <= put - Size
          /\ received < event /\ event <= put - Size
      BY <1>1, <2>3 DEF IInv, OrderedDelivery
    <2>5. OrderedDelivery'
      <3>1. ASSUME NEW i \in 1..(Len(watchCh) + 1), NEW j \in 1..(Len(watchCh) + 1), i < j
            PROVE  watchCh'[i] < watchCh'[j]
        <4>1. i \in 1..Len(watchCh)
          BY <2>1, <3>1
        <4>2. CASE j = Len(watchCh) + 1
          BY <2>2, <2>4, <4>1, <4>2
        <4>3. CASE j \in 1..Len(watchCh)
          BY <2>2, <2>4, <3>1, <4>1, <4>3
        <4> QED BY <2>1, <4>2, <4>3
      <3>2. \A i \in 1..(Len(watchCh) + 1) : received < watchCh'[i] /\ watchCh'[i] <= put - Size
        BY <2>1, <2>2, <2>4
      <3> QED BY <1>1, <1>2, <1>4, <2>3, <3>1, <3>2 DEF OrderedDelivery
    <2>6. TypeOK'
      BY <1>1, <1>4, <2>2 DEF IInv, TypeOK
    <2> QED BY <1>3, <2>5, <2>6 DEF IInv
  <1>5. CASE watchCh' = watchCh /\ pc' = "panicked"
    <2>1. TypeOK'
      BY <1>1, <1>5 DEF IInv, TypeOK
    <2>2. OrderedDelivery'
      BY <1>1, <1>2, <1>5 DEF IInv, OrderedDelivery
    <2> QED BY <1>3, <2>1, <2>2 DEF IInv
  <1> QED BY <1>4, <1>5 DEF SenderSends

LEMMA ReceiveStep ==
    ASSUME IInv, Receive
    PROVE  IInv'
  <1>1. /\ UNCHANGED <<Events, Front, Back, chClosed, done, pc, event, put>>
        /\ watchCh # <<>> /\ received' = Head(watchCh) /\ watchCh' = Tail(watchCh)
    BY DEF Receive, queue
  <1>2. Size' = Size
    BY <1>1 DEF Size
  <1>3. watchCh \in Seq(Nat) /\ Len(watchCh) \in Nat /\ Len(watchCh) > 0
    BY <1>1, LenProperties, EmptySeq DEF IInv, TypeOK
  <1>4. /\ watchCh' \in Seq(Nat) /\ Len(watchCh') = Len(watchCh) - 1
        /\ \A i \in 1..(Len(watchCh) - 1) : watchCh'[i] = watchCh[i + 1]
        /\ received' = watchCh[1] /\ received' \in Nat
    BY <1>1, <1>3
  <1>5. DOMAIN watchCh = 1..Len(watchCh) /\ DOMAIN watchCh' = 1..(Len(watchCh) - 1)
    BY <1>3, <1>4, LenProperties
  <1>6. /\ \A i, j \in 1..Len(watchCh) : i < j => watchCh[i] < watchCh[j]
        /\ \A i \in 1..Len(watchCh) : /\ pc = "send" => watchCh[i] < event
                                      /\ watchCh[i] <= put - Size
        /\ pc = "send" => event <= put - Size
    BY <1>5 DEF IInv, OrderedDelivery
  <1>7. OrderedDelivery'
    <2>1. ASSUME NEW i \in 1..(Len(watchCh) - 1), NEW j \in 1..(Len(watchCh) - 1), i < j
          PROVE  watchCh'[i] < watchCh'[j]
      <3>1. i + 1 \in 1..Len(watchCh) /\ j + 1 \in 1..Len(watchCh) /\ i + 1 < j + 1
        BY <1>3, <2>1
      <3>2. watchCh[i + 1] < watchCh[j + 1]
        BY <1>6, <3>1
      <3> QED BY <1>4, <3>2
    <2>2. ASSUME NEW i \in 1..(Len(watchCh) - 1)
          PROVE  /\ received' < watchCh'[i]
                 /\ pc = "send" => watchCh'[i] < event
                 /\ watchCh'[i] <= put - Size
      <3>1. i + 1 \in 1..Len(watchCh) /\ 1 \in 1..Len(watchCh) /\ 1 < i + 1
        BY <1>3
      <3>2. /\ watchCh[1] < watchCh[i + 1]
            /\ pc = "send" => watchCh[i + 1] < event
            /\ watchCh[i + 1] <= put - Size
        BY <1>6, <3>1
      <3> QED BY <1>4, <3>2
    <2>3. pc = "send" => received' < event
      BY <1>3, <1>4, <1>6
    <2> QED BY <1>1, <1>2, <1>5, <1>6, <2>1, <2>2, <2>3 DEF OrderedDelivery
  <1>8. (received <= put - Size)'
    BY <1>1, <1>2, <1>3, <1>4, <1>6
  <1>9. TypeOK' /\ NeverFull' /\ RingHoldsLatest'
    BY <1>1, <1>2, <1>4 DEF IInv, TypeOK, NeverFull, RingHoldsLatest, Slot
  <1> QED BY <1>7, <1>8, <1>9 DEF IInv

\* The remaining steps move neither the ring nor the channel.
LEMMA OtherStep ==
    ASSUME IInv, \/ SenderPolls \/ SenderReturns \/ (getEvent /\ isEmpty)
                 \/ CloseWatcher \/ CloseChannel \/ UNCHANGED vars
    PROVE  IInv'
  <1>1. /\ UNCHANGED <<Events, Front, Back, watchCh, event, put, received>>
        /\ pc' = pc \/ pc' \in {"loop", "get", "returned"}
    BY DEF SenderPolls, getEvent, pop, SenderReturns, CloseWatcher, CloseChannel, vars, queue
  <1>2. (chClosed' = chClosed \/ chClosed' = TRUE) /\ (done' = done \/ done' = TRUE)
    BY DEF SenderPolls, getEvent, pop, SenderReturns, CloseWatcher, CloseChannel, vars
  <1>3. Size' = Size
    BY <1>1 DEF Size
  <1>4. TypeOK'
    <2>1. chClosed' \in BOOLEAN /\ done' \in BOOLEAN
      BY <1>2 DEF IInv, TypeOK
    <2> QED BY <1>1, <2>1 DEF IInv, TypeOK
  <1>5. NeverFull' /\ RingHoldsLatest' /\ (received <= put - Size)'
    BY <1>1, <1>3 DEF IInv, NeverFull, RingHoldsLatest, Slot
  <1>6. OrderedDelivery'
    BY <1>1, <1>3 DEF IInv, OrderedDelivery
  <1> QED BY <1>4, <1>5, <1>6 DEF IInv
-----------------------------------------------------------------------------
THEOREM Inductive == Spec => []IInv
  <1>1. IInv /\ [Next]_vars => IInv'
    BY PutStep, GetStep, SendStep, ReceiveStep, OtherStep DEF Next
  <1> QED BY <1>1, InitIInv, PTL DEF Spec

\* For every capacity: Front and Back stay indices of eventQueue's slots, and
\* sendEvent is in one of the states of its loop.
THEOREM TypeCorrect == Spec => []TypeOK
  <1>1. IInv => TypeOK
    BY DEF IInv
  <1> QED BY <1>1, Inductive, PTL

\* For every capacity: eventQueue holds the latest events, oldest first.
THEOREM RingIsLatest == Spec => []RingHoldsLatest
  <1>1. IInv => RingHoldsLatest
    BY DEF IInv
  <1> QED BY <1>1, Inductive, PTL

\* For every capacity of ring and channel: sendEvent delivers the events in
\* the order putEvent took them, none twice.
THEOREM DeliveryIsOrdered == Spec => []OrderedDelivery
  <1>1. IInv => OrderedDelivery
    BY DEF IInv
  <1> QED BY <1>1, Inductive, PTL
=============================================================================
