------------------------------- MODULE Vector -------------------------------
(***************************************************************************)
(* lib/collection/vector.c: an array of "capacity" cells, the first        *)
(* "length" of which hold elements.  It grows by a factor of 2 when a push *)
(* finds it full and halves when a pop leaves it at most a quarter full.   *)
(*                                                                         *)
(* Each element is pushed once, so that its destructor runs can be         *)
(* counted.  cu_Vector_copy, which shares the elements between two         *)
(* vectors, is not modelled.                                               *)
(***************************************************************************)
EXTENDS Integers, Sequences

CONSTANTS
  Elem,          \* the elements clients push
  None,          \* what fresh memory holds, and "out" before a pop
  InitialCaps,   \* the capacities clients ask for
  MaxCapacity,   \* bound: the largest array considered
  OOM,           \* whether the allocator may refuse
  MaxFront       \* clients call cu_Vector_pop_front on at most so many elements

ASSUME NoneAssumption == None \notin Elem
ASSUME CapacityAssumption == InitialCaps \subseteq Nat /\ MaxCapacity \in Nat
ASSUME FlagsAssumption == OOM \in BOOLEAN /\ MaxFront \in Nat

VARIABLES
  open,       \* the client has a vector it did not destroy
  capacity,   \* vector->capacity
  data,       \* data[i]: what cell i of vector->data holds
  length,     \* vector->length
  out,        \* the element the last pop copied out
  fresh,      \* the elements not pushed yet
  destroyed   \* destroyed[e]: how many times the destructor ran on e

vars == <<open, capacity, data, length, out, fresh, destroyed>>

Stored == {data[i] : i \in 0 .. length - 1}

DestroyCells(I) ==
  destroyed' = [e \in Elem |-> destroyed[e] + (IF \E i \in I : data[i] = e THEN 1 ELSE 0)]

\* The cells in an array of c of them.
Moved(c) == [i \in 0 .. c - 1 |-> IF i < capacity THEN data[i] ELSE None]

Init ==
  /\ open = FALSE /\ capacity = 0 /\ data = <<>> /\ length = 0
  /\ out = None /\ fresh = Elem /\ destroyed = [e \in Elem |-> 0]

\* cu_Vector_create; if the allocator refuses, there is no vector.
Create(c) ==
  /\ ~open
  /\ open' = TRUE /\ capacity' = c /\ length' = 0
  /\ data' = [i \in 0 .. c - 1 |-> None]
  /\ UNCHANGED <<out, fresh, destroyed>>

-----------------------------------------------------------------------------
(* Growing                                                                 *)

\* The capacity a push makes.
Grown == IF length < capacity THEN capacity
         ELSE IF capacity = 0 THEN 1 ELSE capacity * 2

\* cu_Vector_push_back.
PushBack(e) ==
  /\ open /\ Grown <= MaxCapacity
  /\ capacity' = Grown
  /\ data' = [Moved(Grown) EXCEPT ![length] = e]
  /\ length' = length + 1
  /\ fresh' = fresh \ {e}
  /\ UNCHANGED <<open, out, destroyed>>

\* cu_Vector_push_front: the elements move up by one cell.
PushFront(e) ==
  /\ open /\ Grown <= MaxCapacity
  /\ capacity' = Grown
  /\ data' = [i \in 0 .. Grown - 1 |->
                IF i = 0 THEN e ELSE IF i <= length THEN data[i - 1] ELSE Moved(Grown)[i]]
  /\ length' = length + 1
  /\ fresh' = fresh \ {e}
  /\ UNCHANGED <<open, out, destroyed>>

\* A push that finds no memory.
PushFails == OOM /\ open /\ length = capacity /\ UNCHANGED vars

\* cu_Vector_resize to one element more, and the client stores e in it through
\* cu_Vector_at: until then the new element is whatever the cell held.
Extend(e) ==
  /\ open /\ length < MaxCapacity
  /\ capacity' = IF length < capacity THEN capacity ELSE length + 1
  /\ data' = [Moved(capacity') EXCEPT ![length] = e]
  /\ length' = length + 1
  /\ fresh' = fresh \ {e}
  /\ UNCHANGED <<open, out, destroyed>>

\* cu_Vector_reserve.
Reserve(c) ==
  /\ open /\ c > capacity /\ c <= MaxCapacity
  /\ capacity' = c /\ data' = Moved(c)
  /\ UNCHANGED <<open, length, out, fresh, destroyed>>

-----------------------------------------------------------------------------
(* Shrinking                                                               *)

\* Mutant of Shrunk: an array that is half full is halved.
Shrunk_Eager(n) ==
  IF n = 0 THEN 0
  ELSE IF capacity > 1 /\ n <= capacity \div 2 THEN capacity \div 2
  ELSE capacity

\* The capacity cu_Vector_maybe_shrink asks for when n elements are left.
Shrunk(n) ==
  IF n = 0 THEN 0
  ELSE IF capacity > 1 /\ n <= capacity \div 4 THEN capacity \div 2
  ELSE capacity

\* cu_Vector_maybe_shrink, after which d are the cells.  A refusal of the
\* allocator is ignored; freeing an empty array cannot fail.
MaybeShrink(n, d) ==
  \E c \in {Shrunk(n)} \cup (IF OOM /\ n > 0 THEN {capacity} ELSE {}) :
    /\ capacity' = c
    /\ data' = [i \in 0 .. c - 1 |-> d[i]]

\* cu_Vector_pop_back.
PopBack ==
  /\ open /\ length > 0
  /\ out' = data[length - 1]
  /\ DestroyCells({length - 1})
  /\ length' = length - 1
  /\ MaybeShrink(length - 1, data)
  /\ UNCHANGED <<open, fresh>>

\* cu_Vector_pop_front: the first length - 1 elements, the one that leaves
\* included, are moved up by one cell.
PopFront ==
  /\ open /\ length \in 1 .. MaxFront
  /\ out' = data[0]
  /\ DestroyCells({0})
  /\ length' = length - 1
  /\ MaybeShrink(length - 1,
       [i \in 0 .. capacity - 1 |-> IF i \in 1 .. length - 1 THEN data[i - 1] ELSE data[i]])
  /\ UNCHANGED <<open, fresh>>

\* CU_VECTOR_ERROR_OOB.
PopFails == open /\ length = 0 /\ UNCHANGED vars

\* cu_Vector_resize to fewer elements: the array keeps its size.
Truncate(n) ==
  /\ open /\ n < length
  /\ DestroyCells(n .. length - 1)
  /\ length' = n
  /\ UNCHANGED <<open, capacity, data, out, fresh>>

\* cu_Vector_shrink_to_fit.
ShrinkToFit ==
  /\ open /\ length < capacity
  /\ capacity' = length /\ data' = Moved(length)
  /\ UNCHANGED <<open, length, out, fresh, destroyed>>

\* Mutant of Clear: the elements are not destroyed.
Clear_Forgets ==
  /\ open
  /\ length' = 0
  /\ MaybeShrink(0, data)
  /\ UNCHANGED <<open, out, fresh, destroyed>>

\* cu_Vector_clear.
Clear ==
  /\ open
  /\ DestroyCells(0 .. length - 1)
  /\ length' = 0
  /\ MaybeShrink(0, data)
  /\ UNCHANGED <<open, out, fresh>>

\* cu_Vector_destroy.
Destroy ==
  /\ open
  /\ DestroyCells(0 .. length - 1)
  /\ open' = FALSE /\ capacity' = 0 /\ data' = <<>> /\ length' = 0
  /\ UNCHANGED <<out, fresh>>

Next ==
  \/ \E c \in InitialCaps : Create(c)
  \/ \E e \in fresh : PushBack(e) \/ PushFront(e) \/ Extend(e)
  \/ PushFails
  \/ \E c \in 1 .. MaxCapacity : Reserve(c)
  \/ PopBack \/ PopFront \/ PopFails
  \/ \E n \in 0 .. MaxCapacity : Truncate(n)
  \/ ShrinkToFit \/ Clear \/ Destroy

Spec == Init /\ [][Next]_vars

-----------------------------------------------------------------------------
(* Properties                                                              *)

\* The elements fit in the array, and each cell of an element holds one.
TypeOK ==
  /\ open \in BOOLEAN
  /\ capacity \in Nat /\ length \in 0 .. capacity
  /\ ~open => capacity = 0
  /\ data \in [0 .. capacity - 1 -> Elem \cup {None}]
  /\ out \in Elem \cup {None}
  /\ fresh \subseteq Elem /\ destroyed \in [Elem -> Nat]

\* Every element is destroyed exactly once, when it leaves the vector: none is
\* destroyed while stored, twice, or never, whatever reallocations happen.
DestroyedOnce ==
  /\ TypeOK
  /\ \A e \in Elem : destroyed[e] = IF e \in fresh \cup Stored THEN 0 ELSE 1

\* An array that a pop makes smaller stays at most half full, so that the pushes
\* that follow do not make it larger at once.
ShrinksWithSlack ==
  [][length' < length /\ length' > 0 /\ capacity' < capacity
       => 2 * length' <= capacity']_vars

\* The vector is a sequence, across every growth and every shrink.
Contents == [i \in 1 .. length |-> data[i - 1]]

Sequence == INSTANCE ElementSequence WITH elems <- Contents

ImplementsSequence == Sequence!Spec

\* vector.h:79 says of cu_Vector_pop_front: "Remove the first element and copy it
\* into @p out_elem."  The element copied out is not in the vector any more.
PoppedIsGone == out \notin Stored
=============================================================================
