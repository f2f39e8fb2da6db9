-------------------------- MODULE ElementSequence --------------------------
(***************************************************************************)
(* A sequence that grows and shrinks at both ends: what                    *)
(* include/collection/vector.h promises ("Append a new element to the end  *)
(* of the vector", "Remove the first element and copy it", ...), and the   *)
(* lists of list.h and dlist.h, which also insert in between.              *)
(***************************************************************************)
EXTENDS Naturals, Sequences

CONSTANT Elem

VARIABLES
  elems,   \* the elements, in order
  out      \* the element removed last

Init == elems = <<>> /\ out \notin Elem

Append_ == /\ \E e \in Elem : elems' = Append(elems, e)
           /\ UNCHANGED out

Prepend == /\ \E e \in Elem : elems' = <<e>> \o elems
           /\ UNCHANGED out

RemoveLast == /\ elems # <<>>
              /\ out' = elems[Len(elems)]
              /\ elems' = SubSeq(elems, 1, Len(elems) - 1)

RemoveFirst == /\ elems # <<>>
               /\ out' = Head(elems)
               /\ elems' = Tail(elems)

Truncate == /\ \E n \in 0 .. Len(elems) : elems' = SubSeq(elems, 1, n)
            /\ UNCHANGED out

Next == Append_ \/ Prepend \/ RemoveLast \/ RemoveFirst \/ Truncate

Spec == Init /\ [][Next]_<<elems, out>>

Insert == /\ \E e \in Elem, i \in 0 .. Len(elems) :
                elems' = SubSeq(elems, 1, i) \o <<e>> \o SubSeq(elems, i + 1, Len(elems))
          /\ UNCHANGED out

\* A sequence that also takes elements in between: the lists.
InsertingSpec == Init /\ [][Next \/ Insert]_<<elems, out>>
=============================================================================
