------------------------------ MODULE SpscRing ------------------------------
(***************************************************************************)
(* transport::SpscRingBuffer (src/transport/spsc_ring_buffer.hpp): an array*)
(* of N slots, the producer's index head_ and the consumer's index tail_,  *)
(* each on its own.  One slot stays empty, so a full ring can be told from *)
(* an empty one.                                                           *)
(*                                                                         *)
(* A ring has one producer thread, or several that hold a mutex while they *)
(* push (db/pg_reporter.cpp, push_mu_): Producers is a singleton or not,   *)
(* and taking a lock nobody contends changes nothing.                      *)
(*                                                                         *)
(* Each index is written by one side and read by the other with acquire and*)
(* release.  Such a load may return a value its writer has since replaced, *)
(* though never an older one than it returned before: tailSeen and headSeen*)
(* hold what the producer and the consumer saw last.  The slots are plain  *)
(* memory, so an access is a step of its own and two at once are a race.   *)
(***************************************************************************)
EXTENDS Naturals, Sequences

CONSTANTS
  N,         (* the size of buffer_, a power of two, at least 2 *)
  Producers, (* threads that push                               *)
  Msgs,      (* messages                                        *)
  NoMsg,     (* the value of a slot nobody wrote                *)
  Nobody     (* no owner of the mutex                           *)

ASSUME SpscRingAssumption ==
  /\ N \in Nat /\ N >= 2
  /\ NoMsg \notin Msgs
  /\ Nobody \notin Producers

VARIABLES
  head,     (* head_                                            *)
  tail,     (* tail_                                            *)
  buffer,   (* buffer_                                          *)
  tailSeen, (* what the last push read of tail_                 *)
  headSeen, (* what the last pop read of head_                  *)
  mutex,    (* push_mu_: its owner                              *)
  pushing,  (* each producer's progress in push                 *)
  item,     (* the argument of each producer's push             *)
  popping,  (* the consumer's progress in pop                   *)
  out,      (* pop's out                                        *)
  popped    (* the message of the last pop that returned true   *)

ringVars == <<head, tail, buffer, tailSeen, headSeen, mutex, pushing, item,
              popping, out, popped>>

Indices == 0..(N - 1)

(* (i + 1) & kMask *)
SuccUnmasked(i) == i + 1
Succ(i) == IF i = N - 1 THEN 0 ELSE i + 1

(* The number of slots from index i up to, and without, index j. *)
Dist(i, j) == IF j >= i THEN j - i ELSE j - i + N

Init ==
  /\ head = 0 /\ tail = 0 /\ tailSeen = 0 /\ headSeen = 0
  /\ buffer = [i \in Indices |-> NoMsg]
  /\ mutex = Nobody
  /\ pushing = [p \in Producers |-> "idle"]
  /\ item = [p \in Producers |-> NoMsg]
  /\ popping = "idle"
  /\ out = NoMsg /\ popped = NoMsg

-----------------------------------------------------------------------------
(* push *)

Unguarded == TRUE
MutexFree == mutex = Nobody

(* A producer takes the mutex and calls push(m). *)
BeginPush(p, m) ==
  /\ pushing[p] = "idle" /\ MutexFree
  /\ mutex' = p
  /\ pushing' = [pushing EXCEPT ![p] = "check"]
  /\ item' = [item EXCEPT ![p] = m]
  /\ UNCHANGED <<head, tail, buffer, tailSeen, headSeen, popping, out, popped>>

(* The ring looks full when the slot after head is the tail the load saw. *)
NeverFull(t) == FALSE
Full(t) == Succ(head) = t

(* The acquire load of tail_; a full ring makes push return false. *)
CheckFull(p) ==
  /\ pushing[p] = "check"
  /\ \E t \in Indices :
       /\ Dist(tail, head) <= Dist(t, head) /\ Dist(t, head) <= Dist(tailSeen, head)
       /\ tailSeen' = t
       /\ \/ /\ Full(t)
             /\ pushing' = [pushing EXCEPT ![p] = "idle"]
             /\ mutex' = Nobody
          \/ /\ ~Full(t)
             /\ pushing' = [pushing EXCEPT ![p] = "write"]
             /\ UNCHANGED mutex
  /\ UNCHANGED <<head, tail, buffer, headSeen, item, popping, out, popped>>

(* buffer_[head] = item *)
WriteSlot(p) ==
  /\ pushing[p] = "write"
  /\ buffer' = [buffer EXCEPT ![head] = item[p]]
  /\ pushing' = [pushing EXCEPT ![p] = "publish"]
  /\ UNCHANGED <<head, tail, tailSeen, headSeen, mutex, item, popping, out, popped>>

(* The release store of head_; push returns true. *)
Publish(p) ==
  /\ pushing[p] = "publish"
  /\ head' = Succ(head)
  /\ pushing' = [pushing EXCEPT ![p] = "idle"]
  /\ mutex' = Nobody
  /\ UNCHANGED <<tail, buffer, tailSeen, headSeen, item, popping, out, popped>>

-----------------------------------------------------------------------------
(* pop *)

(* The ring looks empty when tail is the head the load saw. *)
OneLeft(h) == h = tail \/ h = Succ(tail)
Empty(h) == h = tail

(* The acquire load of head_; an empty ring makes pop return false. *)
CheckEmpty ==
  /\ popping = "idle"
  /\ \E h \in Indices :
       /\ Dist(tail, headSeen) <= Dist(tail, h) /\ Dist(tail, h) <= Dist(tail, head)
       /\ headSeen' = h
       /\ popping' = IF Empty(h) THEN "idle" ELSE "read"
  /\ UNCHANGED <<head, tail, buffer, tailSeen, mutex, pushing, item, out, popped>>

(* out = std::move(buffer_[tail]) *)
ReadSlot ==
  /\ popping = "read"
  /\ out' = buffer[tail]
  /\ popping' = "release"
  /\ UNCHANGED <<head, tail, buffer, tailSeen, headSeen, mutex, pushing, item, popped>>

(* The release store of tail_; pop returns true. *)
Release ==
  /\ popping = "release"
  /\ tail' = Succ(tail)
  /\ popping' = "idle"
  /\ popped' = out
  /\ UNCHANGED <<head, buffer, tailSeen, headSeen, mutex, pushing, item, out>>

-----------------------------------------------------------------------------

Producer(p) == (\E m \in Msgs : BeginPush(p, m)) \/ CheckFull(p) \/ WriteSlot(p) \/ Publish(p)
Consumer == CheckEmpty \/ ReadSlot \/ Release

Next == (\E p \in Producers : Producer(p)) \/ Consumer

(* The consumer thread polls for ever, and a store becomes visible to it in *)
(* finite time.                                                             *)
SeesHead == CheckEmpty /\ headSeen' = head
Fairness == WF_ringVars(ReadSlot) /\ WF_ringVars(Release) /\ SF_ringVars(SeesHead)

Spec == Init /\ [][Next]_ringVars
FairSpec == Spec /\ Fairness

-----------------------------------------------------------------------------
(* Properties *)

(* The type of every variable. *)
TypeOK ==
  /\ head \in Indices /\ tail \in Indices
  /\ tailSeen \in Indices /\ headSeen \in Indices
  /\ buffer \in [Indices -> Msgs \cup {NoMsg}]
  /\ mutex \in Producers \cup {Nobody}
  /\ pushing \in [Producers -> {"idle", "check", "write", "publish"}]
  /\ item \in [Producers -> Msgs \cup {NoMsg}]
  /\ popping \in {"idle", "read", "release"}
  /\ out \in Msgs \cup {NoMsg}
  /\ popped \in Msgs \cup {NoMsg}

(* No data race: a producer about to write a slot is the only one, and the  *)
(* consumer is not about to read the same slot, though neither side ever    *)
(* waits for the other and each may go by an old value of the other's index.*)
RaceFree ==
  \A p \in Producers : pushing[p] = "write" =>
    /\ popping = "read" => head # tail
    /\ \A q \in Producers \ {p} : pushing[q] # "write"

(* The ring is a bounded FIFO queue of N - 1 messages: none is lost,        *)
(* duplicated, reordered or torn, and a popped one leaves the queue when    *)
(* tail_ is stored.                                                         *)
Slot(i) == IF tail + i - 1 < N THEN tail + i - 1 ELSE tail + i - 1 - N
queue == [i \in 1..Dist(tail, head) |-> buffer[Slot(i)]]

Fifo == INSTANCE BoundedFifo WITH Capacity <- N - 1
FifoSpec == Fifo!Spec

(* Nothing stays in the ring for ever: weak fairness of the queue's Pop,    *)
(* with FifoSpec the queue's FairSpec.                                      *)
KeepsPopping ==
  []<>(queue = <<>>) \/ []<><<Fifo!Pop>>_<<queue, popped>>

=============================================================================
