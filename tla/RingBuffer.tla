----------------------------- MODULE RingBuffer -----------------------------
(***************************************************************************)
(* lib/collection/ring_buffer.c.  An array of "capacity" slots, the index  *)
(* "head" of the first element and the number "length" of elements;        *)
(* indices wrap around modulo the capacity.  A buffer of capacity 0 can be *)
(* created: it is never full, so a push computes an index modulo 0, which  *)
(* is undefined and ends the program ("fault").                            *)
(*                                                                         *)
(* Each element is pushed once, so that an element can be told from its    *)
(* neighbours and its destructor runs can be counted.                      *)
(***************************************************************************)
EXTENDS Integers, Sequences

CONSTANTS
  Elem,         \* the elements clients push
  None,         \* what a slot, or a pop's result, holds before it is written
  Capacities    \* the capacities buffers are created with

ConstantsOK == None \notin Elem /\ Capacities \subseteq Nat

VARIABLES
  open,       \* the client has a buffer it did not destroy
  capacity,   \* rb->capacity
  data,       \* data[i]: what slot i of rb->data holds
  head,       \* rb->head
  length,     \* rb->length
  out,        \* the element the last cu_RingBuffer_pop copied out
  fresh,      \* the elements not pushed yet
  destroyed,  \* destroyed[e]: how many times the destructor ran on e
  fault       \* an index was computed modulo 0

vars == <<open, capacity, data, head, length, out, fresh, destroyed, fault>>

Slots == 0 .. capacity - 1

\* Mutant of Slot: the index does not wrap.
Slot_NoWrap(i) == IF head + i < capacity THEN head + i ELSE capacity - 1

\* The slot of the i-th element, from 0.
Slot(i) == (head + i) % capacity

\* The elements, in order.
Contents == [i \in 1 .. length |-> data[Slot(i - 1)]]

Stored == {data[Slot(i)] : i \in 0 .. length - 1}

\* The destructor runs on every element stored.
DestroyStored ==
  destroyed' = [e \in Elem |-> IF e \in Stored THEN destroyed[e] + 1 ELSE destroyed[e]]

Init ==
  /\ open = FALSE /\ capacity = 0 /\ data = <<>> /\ head = 0 /\ length = 0
  /\ out = None /\ fresh = Elem /\ destroyed = [e \in Elem |-> 0] /\ fault = FALSE

\* cu_RingBuffer_create; if the allocator refuses, there is no buffer.
Create(c) ==
  /\ ~open
  /\ open' = TRUE /\ capacity' = c
  /\ data' = [i \in 0 .. c - 1 |-> None]
  /\ head' = 0 /\ length' = 0
  /\ UNCHANGED <<out, fresh, destroyed, fault>>

IsFull == length = capacity /\ capacity > 0

\* cu_RingBuffer_push, buffer not full.
Push(e) ==
  /\ open /\ ~IsFull
  /\ IF capacity = 0
     THEN fault' = TRUE /\ UNCHANGED <<data, length, fresh>>
     ELSE /\ data' = [data EXCEPT ![Slot(length)] = e]
          /\ fresh' = fresh \ {e}
          /\ length' = length + 1
          /\ UNCHANGED fault
  /\ UNCHANGED <<open, capacity, head, out, destroyed>>

\* CU_RINGBUFFER_ERROR_FULL and CU_RINGBUFFER_ERROR_EMPTY.
PushFails == open /\ IsFull /\ UNCHANGED vars
PopFails  == open /\ length = 0 /\ UNCHANGED vars

\* Mutant of Pop: the head stays.
Pop_KeepsHead ==
  /\ open /\ length # 0
  /\ out' = data[head]
  /\ destroyed' = [destroyed EXCEPT ![data[head]] = @ + 1]
  /\ length' = length - 1
  /\ UNCHANGED <<open, capacity, data, head, fresh, fault>>

\* cu_RingBuffer_pop: the first element is copied out, then destroyed in place.
Pop ==
  /\ open /\ length # 0
  /\ out' = data[head]
  /\ destroyed' = [destroyed EXCEPT ![data[head]] = @ + 1]
  /\ head' = (head + 1) % capacity
  /\ length' = length - 1
  /\ UNCHANGED <<open, capacity, data, fresh, fault>>

\* Mutant of Clear: the length is not reset.
Clear_KeepsLength ==
  /\ open
  /\ DestroyStored
  /\ head' = 0
  /\ UNCHANGED <<open, capacity, data, length, out, fresh, fault>>

\* cu_RingBuffer_clear.
Clear ==
  /\ open
  /\ DestroyStored
  /\ head' = 0 /\ length' = 0
  /\ UNCHANGED <<open, capacity, data, out, fresh, fault>>

\* cu_RingBuffer_destroy.
Destroy ==
  /\ open
  /\ DestroyStored
  /\ open' = FALSE /\ capacity' = 0 /\ data' = <<>> /\ head' = 0 /\ length' = 0
  /\ UNCHANGED <<out, fresh, fault>>

Next ==
  /\ ~fault
  /\ \/ \E c \in Capacities : Create(c)
     \/ \E e \in fresh : Push(e)
     \/ PushFails
     \/ Pop
     \/ PopFails
     \/ Clear
     \/ Destroy

Spec == Init /\ [][Next]_vars

-----------------------------------------------------------------------------
(* Properties                                                              *)

\* Indices stay within the slots and the count within the capacity; there are
\* no slots without a buffer.
TypeOK ==
  /\ open \in BOOLEAN /\ fault \in BOOLEAN
  /\ capacity \in Nat /\ length \in 0 .. capacity
  /\ ~open => capacity = 0
  /\ head \in Nat /\ (head < capacity \/ head = 0)
  /\ data \in [Slots -> Elem \cup {None}]
  /\ out \in Elem \cup {None}
  /\ fresh \subseteq Elem
  /\ destroyed \in [Elem -> Nat]

\* The elements stored are elements that were pushed, each in one slot: a push
\* that wraps around never lands on an element still waiting.
StoredOnce ==
  /\ \A i \in 0 .. length - 1 : data[Slot(i)] \in Elem \ fresh
  /\ \A i, j \in 0 .. length - 1 : i # j => data[Slot(i)] # data[Slot(j)]

\* Each element that left the buffer, by pop, clear or destroy, was destroyed
\* exactly once, and no element is destroyed while it is stored.
DestroyedOnce ==
  \A e \in Elem : destroyed[e] = IF e \in fresh \cup Stored THEN 0 ELSE 1

\* The buffer is a bounded first-in first-out queue.
Fifo == INSTANCE BoundedFifo WITH queue <- Contents, bound <- capacity

ImplementsFifo == Fifo!Spec
=============================================================================
