--------------------------- MODULE SpscRingProofs ---------------------------
(***************************************************************************)
(* The ring buffer is free of data races and implements the bounded FIFO   *)
(* queue, for every size, number of producers and set of messages.         *)
(***************************************************************************)
EXTENDS SpscRing, SequenceTheorems, TLAPS

(* What each index knows of the other: the producer's view of tail lags     *)
(* behind tail and leaves the slot it is writing free; the consumer's view  *)
(* of head lags behind head and leaves it the slot it is reading.  Whoever  *)
(* pushes owns the mutex.                                                   *)
Owner == \A p \in Producers : pushing[p] # "idle" => mutex = p
Views ==
  /\ Dist(tail, head) <= Dist(tailSeen, head)
  /\ Dist(tail, headSeen) <= Dist(tail, head)
Room == \A p \in Producers : pushing[p] \in {"write", "publish"} => ~Full(tailSeen)
Written == \A p \in Producers : pushing[p] = "publish" => buffer[head] = item[p]
Items == \A p \in Producers : pushing[p] # "idle" => item[p] \in Msgs
Available == popping \in {"read", "release"} => headSeen # tail
Taken == popping = "release" => out = buffer[tail]

Inv == TypeOK /\ Owner /\ Views /\ Room /\ Written /\ Items /\ Available /\ Taken

(* Succ stays within the ring. *)
LEMMA SuccType == \A i \in Indices : Succ(i) \in Indices
  BY SpscRingAssumption DEF Succ, Indices

(* The invariant holds of an empty ring. *)
LEMMA InitInv == Init => Inv
  BY SpscRingAssumption, SMT
     DEF Init, Inv, TypeOK, Owner, Views, Room, Written, Items, Available, Taken, Dist, Indices

(* Every step of a push preserves the invariant. *)
LEMMA PushInv ==
  ASSUME Inv, NEW p \in Producers, Producer(p)
  PROVE Inv'
<1> USE SpscRingAssumption DEF Inv, Indices
<1>1. CASE \E m \in Msgs : BeginPush(p, m)
  BY <1>1 DEF BeginPush, MutexFree, TypeOK, Owner, Views, Room, Written, Items,
              Available, Taken, Full, Dist
<1>2. CASE CheckFull(p)
  <2>1. PICK t \in Indices :
          /\ Dist(tail, head) <= Dist(t, head)
          /\ tailSeen' = t
          /\ \/ /\ Full(t)
                /\ pushing' = [pushing EXCEPT ![p] = "idle"]
                /\ mutex' = Nobody
             \/ /\ ~Full(t)
                /\ pushing' = [pushing EXCEPT ![p] = "write"]
                /\ UNCHANGED mutex
    BY <1>2 DEF CheckFull
  <2>2. /\ pushing[p] = "check"
        /\ UNCHANGED <<head, tail, buffer, headSeen, item, popping, out, popped>>
    BY <1>2 DEF CheckFull
  <2>3. TypeOK'
    BY <2>1, <2>2 DEF TypeOK
  <2>4. Owner' /\ Room' /\ Written' /\ Items'
    BY <2>1, <2>2 DEF TypeOK, Owner, Room, Written, Items, Full, Succ
  <2>5. Views' /\ Available' /\ Taken'
    BY <2>1, <2>2 DEF Views, Available, Taken, Dist
  <2> QED BY <2>3, <2>4, <2>5
<1>3. CASE WriteSlot(p)
  <2>1. mutex = p /\ item[p] \in Msgs /\ ~Full(tailSeen)
    BY <1>3 DEF WriteSlot, Owner, Items, Room
  <2>2. TypeOK'
    BY <1>3, <2>1 DEF WriteSlot, TypeOK
  <2>3. Owner' /\ Views' /\ Room' /\ Items' /\ Available'
    BY <1>3 DEF WriteSlot, TypeOK, Owner, Views, Room, Items, Available, Full, Succ, Dist
  <2>4. Written'
    BY <1>3, <2>1 DEF WriteSlot, TypeOK, Owner, Written
  <2>5. Taken'
    <3> SUFFICES ASSUME popping = "release" PROVE head # tail
      BY <1>3 DEF WriteSlot, Taken, TypeOK
    <3> QED BY DEF Available, Views, TypeOK, Dist
  <2> QED BY <2>2, <2>3, <2>4, <2>5
<1>4. CASE Publish(p)
  <2>1. mutex = p /\ ~Full(tailSeen)
    BY <1>4 DEF Publish, Owner, Room
  <2>2. TypeOK'
    BY <1>4, SuccType DEF Publish, TypeOK
  <2>3. Owner' /\ Room' /\ Written' /\ Items'
    BY <1>4, <2>1 DEF Publish, TypeOK, Owner, Room, Written, Items
  <2>4. Views'
    BY <1>4, <2>1 DEF Publish, TypeOK, Views, Full, Succ, Dist
  <2>5. Available' /\ Taken'
    BY <1>4 DEF Publish, Available, Taken
  <2> QED BY <2>2, <2>3, <2>4, <2>5
<1> QED BY <1>1, <1>2, <1>3, <1>4 DEF Producer

(* Every step of a pop preserves the invariant. *)
LEMMA PopInv == ASSUME Inv, Consumer PROVE Inv'
<1> USE SpscRingAssumption DEF Inv, Indices
<1>1. CASE CheckEmpty
  BY <1>1 DEF CheckEmpty, Empty, TypeOK, Owner, Views, Room, Written, Items, Available,
              Taken, Full, Dist
<1>2. CASE ReadSlot
  BY <1>2 DEF ReadSlot, TypeOK, Owner, Views, Room, Written, Items, Available, Taken,
              Full, Dist
<1>3. CASE Release
  <2>1. headSeen # tail
    BY <1>3 DEF Release, Available
  <2>2. TypeOK'
    BY <1>3, SuccType DEF Release, TypeOK
  <2>3. Owner' /\ Room' /\ Written' /\ Items' /\ Available' /\ Taken'
    BY <1>3 DEF Release, Owner, Room, Written, Items, Available, Taken, Full
  <2>4. Views'
    BY <1>3, <2>1 DEF Release, TypeOK, Views, Succ, Dist
  <2> QED BY <2>2, <2>3, <2>4
<1> QED BY <1>1, <1>2, <1>3 DEF Consumer

(* The invariant holds throughout. *)
THEOREM Invariance == Spec => []Inv
<1>1. Init => Inv
  BY InitInv
<1>2. Inv /\ [Next]_ringVars => Inv'
  <2> SUFFICES ASSUME Inv, [Next]_ringVars PROVE Inv'
    OBVIOUS
  <2>1. CASE Next
    BY <2>1, PushInv, PopInv DEF Next
  <2>2. CASE UNCHANGED ringVars
    BY <2>2 DEF ringVars, Inv, TypeOK, Owner, Views, Room, Written, Items, Available,
                Taken, Full
  <2> QED BY <2>1, <2>2
<1> QED BY <1>1, <1>2, PTL DEF Spec

(* The variables keep their types. *)
THEOREM TypeCorrect == Spec => []TypeOK
<1>1. Inv => TypeOK
  BY DEF Inv
<1> QED BY <1>1, Invariance, PTL

(* No slot is ever accessed by two threads at once. *)
THEOREM NoDataRace == Spec => []RaceFree
<1>1. Inv => RaceFree
  <2> SUFFICES ASSUME Inv, NEW p \in Producers, pushing[p] = "write"
               PROVE /\ popping = "read" => head # tail
                     /\ \A q \in Producers \ {p} : pushing[q] # "write"
    BY DEF RaceFree
  <2>1. popping = "read" => head # tail
    BY SpscRingAssumption DEF Inv, TypeOK, Views, Available, Dist, Indices
  <2>2. \A q \in Producers \ {p} : pushing[q] # "write"
    BY DEF Inv, Owner
  <2> QED BY <2>1, <2>2
<1> QED BY <1>1, Invariance, PTL

-----------------------------------------------------------------------------
(* Refinement *)

(* The slots of the queued messages are slots of the ring, the first is     *)
(* tail, and none is head.                                                  *)
LEMMA QueueSlots ==
  ASSUME TypeOK, NEW i \in 1..Dist(tail, head)
  PROVE Slot(i) \in Indices /\ Slot(i) # head /\ (i = 1 => Slot(i) = tail)
  BY SpscRingAssumption DEF TypeOK, Dist, Slot, Indices

(* The queue holds messages of the ring's slots. *)
LEMMA QueueSeq ==
  ASSUME TypeOK
  PROVE queue \in Seq(Msgs \cup {NoMsg}) /\ Len(queue) = Dist(tail, head)
<1>1. Dist(tail, head) \in Nat
  BY SpscRingAssumption DEF TypeOK, Dist, Indices
<1>2. \A i \in 1..Dist(tail, head) : buffer[Slot(i)] \in Msgs \cup {NoMsg}
  BY QueueSlots DEF TypeOK
<1> QED BY <1>1, <1>2 DEF queue

(* Publishing the written slot appends its message. *)
LEMMA PublishPushes ==
  ASSUME Inv, NEW p \in Producers, Publish(p)
  PROVE Fifo!Push
<1> USE SpscRingAssumption DEF Inv
<1>1. ~Full(tailSeen) /\ buffer[head] = item[p] /\ item[p] \in Msgs
  BY DEF Publish, Room, Written, Items
<1>2. head \in Indices /\ tail \in Indices /\ tailSeen \in Indices
      /\ Dist(tail, head) <= Dist(tailSeen, head)
  BY DEF TypeOK, Views
<1>3. Dist(tail, head) < N - 1
  BY <1>1, <1>2 DEF Full, Succ, Dist, Indices
<1>4. Dist(tail, Succ(head)) = Dist(tail, head) + 1
  BY <1>1, <1>2, <1>3 DEF Succ, Dist, Indices
<1>5. Slot(Dist(tail, head) + 1) = head
  BY <1>2, <1>3 DEF Slot, Dist, Indices
<1>6. /\ head' = Succ(head)
      /\ UNCHANGED <<tail, buffer, popped>>
  BY DEF Publish
<1>7. queue' = [i \in 1..(Dist(tail, head) + 1) |-> buffer[Slot(i)]]
  BY <1>4, <1>6 DEF queue, Slot
<1>8. queue' = Append(queue, item[p])
  <2> DEFINE S == Msgs \cup {NoMsg}
             n == Dist(tail, head)
             appended == Append(queue, item[p])
  <2>1. n \in Nat /\ Len(queue) = n /\ queue \in Seq(S)
    BY <1>2, QueueSeq DEF Dist, Indices
  <2>2. /\ appended \in Seq(S)
        /\ Len(appended) = n + 1
        /\ \A i \in 1..n : appended[i] = queue[i]
        /\ appended[n + 1] = item[p]
    BY <1>1, <2>1, AppendProperties
  <2>3. \A i \in 1..(n + 1) : buffer[Slot(i)] = appended[i] /\ buffer[Slot(i)] \in S
    BY <1>1, <1>5, <2>1, <2>2, QueueSlots DEF queue, TypeOK
  <2>4. queue' \in Seq(S) /\ Len(queue') = n + 1
    BY <1>7, <2>1, <2>3
  <2>5. \A i \in 1..Len(queue') : queue'[i] = appended[i]
    BY <1>7, <2>3, <2>4
  <2> HIDE DEF appended, n, S
  <2> QED BY <2>2, <2>4, <2>5, SeqEqual DEF appended
<1>9. Len(queue) < N - 1
  BY <1>3, QueueSeq
<1> QED BY <1>1, <1>6, <1>8, <1>9 DEF Fifo!Push

(* Storing tail removes the message that was read. *)
LEMMA ReleasePops ==
  ASSUME Inv, Release
  PROVE Fifo!Pop
<1> USE SpscRingAssumption DEF Inv
<1>1. headSeen # tail /\ out = buffer[tail]
  BY DEF Release, Available, Taken
<1>2. head \in Indices /\ tail \in Indices /\ headSeen \in Indices
      /\ Dist(tail, headSeen) <= Dist(tail, head)
  BY DEF TypeOK, Views
<1>3. Dist(tail, head) \in Nat \ {0}
  BY <1>1, <1>2 DEF Dist, Indices
<1>4. Dist(Succ(tail), head) = Dist(tail, head) - 1
  BY <1>2, <1>3 DEF Succ, Dist, Indices
<1>5. /\ tail' = Succ(tail)
      /\ popped' = out
      /\ UNCHANGED <<head, buffer>>
  BY DEF Release
<1>6. ASSUME NEW i \in 1..(Dist(tail, head) - 1)
      PROVE Slot(i)' = Slot(i + 1)
  BY <1>2, <1>3, <1>5 DEF Slot, Succ, Dist, Indices
<1>7. queue' = [i \in 1..(Dist(tail, head) - 1) |-> buffer[Slot(i + 1)]]
  BY <1>4, <1>5, <1>6 DEF queue
<1>8. \A i \in 1..(Dist(tail, head) - 1) : i + 1 \in 1..Dist(tail, head)
  BY <1>3
<1>9. queue # <<>> /\ Head(queue) = buffer[tail]
  BY <1>3, QueueSeq, QueueSlots DEF queue
<1>10. queue' = Tail(queue)
  <2> DEFINE S == Msgs \cup {NoMsg}
             n == Dist(tail, head)
  <2>1. /\ Tail(queue) \in Seq(S)
        /\ Len(Tail(queue)) = n - 1
        /\ \A i \in 1..(n - 1) : Tail(queue)[i] = queue[i + 1]
    BY <1>9, QueueSeq, HeadTailProperties
  <2>2. \A i \in 1..(n - 1) : buffer[Slot(i + 1)] = queue[i + 1] /\ queue[i + 1] \in S
    BY <1>8, QueueSlots DEF queue, TypeOK
  <2>3. queue' \in Seq(S) /\ Len(queue') = n - 1
    BY <1>3, <1>7, <2>2
  <2>4. \A i \in 1..Len(queue') : queue'[i] = Tail(queue)[i]
    BY <1>7, <2>1, <2>2, <2>3
  <2> HIDE DEF n, S
  <2> QED BY <2>1, <2>3, <2>4, SeqEqual
<1> QED BY <1>1, <1>5, <1>9, <1>10 DEF Fifo!Pop

(* The ring implements the bounded FIFO queue: the store of head_ is its    *)
(* Push, the store of tail_ its Pop, and no other step is seen.             *)
THEOREM Implements == Spec => FifoSpec
<1>1. Init => Fifo!Init
  BY DEF Init, Fifo!Init, queue, Dist
<1>2. Inv /\ [Next]_ringVars => [Fifo!Next]_Fifo!fifoVars
  <2> SUFFICES ASSUME Inv, [Next]_ringVars PROVE [Fifo!Next]_Fifo!fifoVars
    OBVIOUS
  <2> USE DEF Fifo!fifoVars
  <2>1. ASSUME NEW p \in Producers, WriteSlot(p) PROVE UNCHANGED <<queue, popped>>
    <3>1. UNCHANGED <<head, tail, popped>> /\ buffer' = [buffer EXCEPT ![head] = item[p]]
      BY <2>1 DEF WriteSlot
    <3>2. \A i \in 1..Dist(tail, head) : buffer'[Slot(i)] = buffer[Slot(i)]
      BY <3>1, QueueSlots DEF Inv, TypeOK
    <3> QED BY <3>1, <3>2 DEF queue, Slot
  <2>2. ASSUME UNCHANGED <<head, tail, buffer, popped>> PROVE UNCHANGED <<queue, popped>>
    BY <2>2 DEF queue, Slot
  <2>3. ASSUME NEW p \in Producers, Producer(p) PROVE [Fifo!Next]_Fifo!fifoVars
    <3>1. CASE Publish(p)
      BY <3>1, PublishPushes DEF Fifo!Next
    <3>2. CASE \E m \in Msgs : BeginPush(p, m)
      BY <3>2, <2>2 DEF BeginPush
    <3>3. CASE CheckFull(p)
      BY <3>3, <2>2 DEF CheckFull
    <3> QED BY <2>1, <2>3, <3>1, <3>2, <3>3 DEF Producer
  <2>4. ASSUME Consumer PROVE [Fifo!Next]_Fifo!fifoVars
    <3>1. CASE Release
      BY <3>1, ReleasePops DEF Fifo!Next
    <3>2. CASE CheckEmpty
      BY <3>2, <2>2 DEF CheckEmpty
    <3>3. CASE ReadSlot
      BY <3>3, <2>2 DEF ReadSlot
    <3> QED BY <2>4, <3>1, <3>2, <3>3 DEF Consumer
  <2>5. CASE UNCHANGED ringVars
    BY <2>5, <2>2 DEF ringVars
  <2> QED BY <2>3, <2>4, <2>5 DEF Next
<1> QED BY <1>1, <1>2, Invariance, PTL DEF Spec, FifoSpec, Fifo!Spec

=============================================================================
