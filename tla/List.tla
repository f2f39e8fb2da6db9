-------------------------------- MODULE List --------------------------------
(***************************************************************************)
(* lib/collection/list.c: a singly linked list with a head and a length.   *)
(* A node holds a copy of an element and is a block of its own from the    *)
(* allocator.  To insert before a node the list is searched for the node   *)
(* in front of it; the search may be for a node of another list.           *)
(*                                                                         *)
(* As in DList each element is inserted once and names its node, and a     *)
(* destroyed list is empty and can be used again.                          *)
(***************************************************************************)
EXTENDS Integers, Sequences, FiniteSets

CONSTANTS
  Elem,      \* the elements clients insert
  None,      \* the null pointer, and "out" before a pop
  Stranger   \* a node of another list

ConstantsOK == None \notin Elem /\ Stranger \notin Elem \cup {None} /\ IsFiniteSet(Elem)

VARIABLES
  head,        \* list->head
  length,      \* list->length
  next,        \* next[n]: the node after node n
  out,         \* the element the last pop copied out
  fresh,       \* the elements not inserted yet
  destroyed    \* destroyed[e]: how many times the destructor ran on e

vars == <<head, length, next, out, fresh, destroyed>>

\* The nodes held from the allocator.
Nodes == DOMAIN next

\* cu_List_create.
Init ==
  /\ head = None /\ length = 0 /\ next = <<>>
  /\ out = None /\ fresh = Elem /\ destroyed = [e \in Elem |-> 0]

\* Where cu_List_iter takes a cursor: it starts as the null pointer, and stays on
\* the last node.
After == [n \in Nodes \cup {None} |-> IF n = None THEN head ELSE next[n]]

\* The nodes a cursor that makes n steps comes to.
Visited(n) ==
  LET cursor[k \in 0 .. n] == IF k = 0 THEN None ELSE After[cursor[k - 1]]
  IN  [k \in 1 .. n |-> cursor[k]]

\* Every node, from the head along next: length plays no part.
Chain == {Visited(Cardinality(Nodes))[k] : k \in 1 .. Cardinality(Nodes)}

\* cu_List_insert_after; without a node to come after, the new one is the first.
InsertAfter(pos, e) ==
  /\ head' = IF pos = None THEN e ELSE head
  /\ next' = [n \in Nodes \cup {e} |->
                IF n = e THEN After[pos] ELSE IF n = pos THEN e ELSE next[n]]
  /\ length' = length + 1
  /\ fresh' = fresh \ {e}
  /\ UNCHANGED <<out, destroyed>>

\* cu_List_push_front.
PushFront(e) == InsertAfter(None, e)

\* The nodes of the list that lead to pos: the search finds the one there is.
InFrontOf(pos) == {n \in Chain : next[n] = pos}

\* cu_List_insert_before.
InsertBefore(pos, e) ==
  \/ pos \in {None, head} /\ InsertAfter(None, e)
  \/ pos \notin {None, head} /\ \E n \in InFrontOf(pos) : InsertAfter(n, e)

\* CU_LIST_ERROR_INVALID: the search comes to the end.
InsertBeforeFails(pos) ==
  pos \notin {None, head} /\ InFrontOf(pos) = {} /\ UNCHANGED vars

\* CU_LIST_ERROR_OOM.
InsertFails == fresh # {} /\ UNCHANGED vars

\* The destructor runs on the elements of nodes N and their blocks are freed.
Release(N) == destroyed' = [e \in Elem |-> destroyed[e] + (IF e \in N THEN 1 ELSE 0)]

\* Mutant of PopFront: the length is not reduced.
PopFront_KeepsLength ==
  /\ length > 0
  /\ out' = head
  /\ head' = next[head]
  /\ next' = [n \in Nodes \ {head} |-> next[n]]
  /\ Release({head})
  /\ UNCHANGED <<length, fresh>>

\* cu_List_pop_front.
PopFront ==
  /\ length > 0
  /\ out' = head
  /\ head' = next[head]
  /\ next' = [n \in Nodes \ {head} |-> next[n]]
  /\ length' = length - 1
  /\ Release({head})
  /\ UNCHANGED fresh

\* CU_LIST_ERROR_EMPTY.
PopFails == length = 0 /\ UNCHANGED vars

\* cu_List_destroy.
Destroy ==
  /\ head' = None /\ length' = 0
  /\ next' = [n \in Nodes \ Chain |-> next[n]]
  /\ Release(Chain)
  /\ UNCHANGED <<out, fresh>>

Next ==
  \/ \E e \in fresh :
       \/ PushFront(e)
       \/ \E pos \in Nodes \cup {None} : InsertAfter(pos, e)
       \/ \E pos \in Nodes \cup {None, Stranger} : InsertBefore(pos, e)
  \/ InsertBeforeFails(Stranger) \/ InsertFails
  \/ PopFront \/ PopFails
  \/ Destroy

Spec == Init /\ [][Next]_vars

-----------------------------------------------------------------------------
(* Properties                                                              *)

\* An iteration comes to every node that is held, length of them, and to an end:
\* an insertion in the middle loses none and closes no circle.
Linked ==
  /\ length = Cardinality(Nodes)
  /\ Nodes = Chain
  /\ After[IF length = 0 THEN None ELSE Visited(length)[length]] = None

\* Each element is destroyed exactly once, when its node is freed.
ReleasedOnce ==
  \A e \in Elem : destroyed[e] = IF e \in fresh \cup Nodes THEN 0 ELSE 1

\* The node a client names to insert before it does come after the new element, and
\* a node of another list is refused without a change.
InsertsBefore ==
  [][\A e \in fresh, pos \in Nodes \cup {Stranger} :
       InsertBefore(pos, e) => pos \in Nodes /\ After'[e] = pos]_vars

\* What an iteration comes to is a sequence.
Sequence == INSTANCE ElementSequence WITH elems <- Visited(length)

ImplementsSequence == Sequence!InsertingSpec
=============================================================================
