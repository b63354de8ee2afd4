---------------------------- MODULE BoundedFifo -----------------------------
(***************************************************************************)
(* What transport::SpscRingBuffer promises: a first-in first-out queue of  *)
(* at most Capacity messages.  A push that finds no room returns false and *)
(* changes nothing.                                                        *)
(***************************************************************************)
EXTENDS Naturals, Sequences

CONSTANTS
  Capacity, (* messages the queue can hold          *)
  Msgs,     (* messages                             *)
  NoMsg     (* what a consumer holds before its first pop *)

VARIABLES
  queue,    (* the messages pushed and not yet popped, oldest first *)
  popped    (* the message of the last pop                          *)

fifoVars == <<queue, popped>>

Init == queue = <<>> /\ popped = NoMsg

Push ==
  /\ Len(queue) < Capacity
  /\ \E m \in Msgs : queue' = Append(queue, m)
  /\ UNCHANGED popped

Pop ==
  /\ queue # <<>>
  /\ popped' = Head(queue)
  /\ queue' = Tail(queue)

Next == Push \/ Pop

Spec == Init /\ [][Next]_fifoVars

(* The consumer keeps polling. *)
FairSpec == Spec /\ WF_fifoVars(Pop)

=============================================================================
