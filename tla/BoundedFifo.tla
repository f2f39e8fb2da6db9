---------------------------- MODULE BoundedFifo ----------------------------
(***************************************************************************)
(* A first-in first-out queue with a maximum number of elements: what      *)
(* include/collection/ring_buffer.h promises ("Ring buffer storing         *)
(* elements in FIFO order", "maximum elements").                           *)
(***************************************************************************)
EXTENDS Naturals, Sequences

CONSTANT Elem

VARIABLES
  queue,   \* the elements, the first to leave in front
  bound,   \* how many it may hold
  out      \* the element the last pop returned

Init == queue = <<>> /\ bound = 0 /\ out \notin Elem

Create ==
  /\ queue = <<>> /\ queue' = <<>>
  /\ bound' \in Nat
  /\ UNCHANGED out

Push ==
  /\ Len(queue) < bound
  /\ \E e \in Elem : queue' = Append(queue, e)
  /\ UNCHANGED <<bound, out>>

Pop ==
  /\ queue # <<>>
  /\ out' = Head(queue)
  /\ queue' = Tail(queue)
  /\ UNCHANGED bound

Clear ==
  /\ queue' = <<>>
  /\ bound' \in {bound, 0}
  /\ UNCHANGED out

Next == Create \/ Push \/ Pop \/ Clear

Spec == Init /\ [][Next]_<<queue, bound, out>>
=============================================================================
