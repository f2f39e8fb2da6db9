------------------------------- MODULE DList -------------------------------
(***************************************************************************)
(* lib/collection/dlist.c: a doubly linked list with a head, a tail and a  *)
(* length.  A node holds a copy of an element and is a block of its own    *)
(* from the allocator, which may refuse it before anything was changed.    *)
(*                                                                         *)
(* Each element is inserted once, so that a node is named by its element   *)
(* and its destructor runs can be counted.  cu_DList_destroy leaves a list *)
(* without elements that can be used again.                                *)
(***************************************************************************)
EXTENDS Integers, Sequences, FiniteSets

CONSTANTS
  Elem,   \* the elements clients insert
  None    \* the null pointer, and "out" before a pop

ConstantsOK == None \notin Elem /\ IsFiniteSet(Elem)

VARIABLES
  head, tail,   \* list->head, list->tail
  length,       \* list->length
  next, prev,   \* next[n], prev[n]: the neighbours node n points to
  out,          \* the element the last pop copied out
  fresh,        \* the elements not inserted yet
  destroyed     \* destroyed[e]: how many times the destructor ran on e

vars == <<head, tail, length, next, prev, out, fresh, destroyed>>

\* The nodes held from the allocator.
Nodes == DOMAIN next

\* cu_DList_create.
Init ==
  /\ head = None /\ tail = None /\ length = 0
  /\ next = <<>> /\ prev = <<>>
  /\ out = None /\ fresh = Elem /\ destroyed = [e \in Elem |-> 0]

-----------------------------------------------------------------------------
(* Iterating                                                               *)

\* Where cu_DList_iter takes a cursor: it starts as the null pointer, and stays
\* on the last node.
After == [n \in Nodes \cup {None} |-> IF n = None THEN head ELSE next[n]]

\* The nodes a cursor that makes n steps comes to.
Visited(n) ==
  LET cursor[k \in 0 .. n] == IF k = 0 THEN None ELSE After[cursor[k - 1]]
  IN  [k \in 1 .. n |-> cursor[k]]

-----------------------------------------------------------------------------
(* Inserting                                                               *)

\* A new node for e is linked between two neighbours, or comes in first or last.
Between(e, before, after) ==
  /\ head' = IF before = None THEN e ELSE head
  /\ tail' = IF after = None THEN e ELSE tail
  /\ next' = [n \in Nodes \cup {e} |->
                IF n = e THEN after ELSE IF n = before THEN e ELSE next[n]]
  /\ prev' = [n \in Nodes \cup {e} |->
                IF n = e THEN before ELSE IF n = after THEN e ELSE prev[n]]
  /\ length' = length + 1
  /\ fresh' = fresh \ {e}
  /\ UNCHANGED <<out, destroyed>>

\* cu_DList_push_front.
PushFront(e) == Between(e, None, head)

\* cu_DList_push_back.
PushBack(e) == Between(e, tail, None)

\* Mutant of InsertAfter: the new node comes in front of the one named.
InsertAfter_Before(pos, e) == pos # None /\ Between(e, prev[pos], pos)

\* cu_DList_insert_after; without a node to come after, the new one is the first.
InsertAfter(pos, e) == Between(e, pos, After[pos])

\* cu_DList_insert_before.
InsertBefore(pos, e) ==
  \/ pos = None /\ InsertAfter(None, e)
  \/ pos # None /\ Between(e, prev[pos], pos)

\* CU_DLIST_ERROR_OOM: the node is allocated before anything else.
InsertFails == fresh # {} /\ UNCHANGED vars

-----------------------------------------------------------------------------
(* Removing                                                                *)

\* The destructor runs on the elements of nodes N and their blocks are freed.
Release(N) == destroyed' = [e \in Elem |-> destroyed[e] + (IF e \in N THEN 1 ELSE 0)]

\* What is left of the pointers p when node n is freed and the neighbour m that
\* pointed back to it points nowhere.
Without(p, n, m) == [x \in Nodes \ {n} |-> IF x = m THEN None ELSE p[x]]

\* Mutant of PopFront: the new head still points back to the old one.
PopFront_KeepsPrev ==
  /\ length > 0
  /\ out' = head
  /\ head' = next[head]
  /\ tail' = IF next[head] = None THEN None ELSE tail
  /\ prev' = Without(prev, head, None)
  /\ next' = Without(next, head, None)
  /\ length' = length - 1
  /\ Release({head})
  /\ UNCHANGED fresh

\* cu_DList_pop_front.
PopFront ==
  /\ length > 0
  /\ out' = head
  /\ head' = next[head]
  /\ tail' = IF next[head] = None THEN None ELSE tail
  /\ prev' = Without(prev, head, next[head])
  /\ next' = Without(next, head, None)
  /\ length' = length - 1
  /\ Release({head})
  /\ UNCHANGED fresh

\* cu_DList_pop_back.
PopBack ==
  /\ length > 0
  /\ out' = tail
  /\ tail' = prev[tail]
  /\ head' = IF prev[tail] = None THEN None ELSE head
  /\ next' = Without(next, tail, prev[tail])
  /\ prev' = Without(prev, tail, None)
  /\ length' = length - 1
  /\ Release({tail})
  /\ UNCHANGED fresh

\* CU_DLIST_ERROR_EMPTY.
PopFails == length = 0 /\ UNCHANGED vars

\* Every node, from the head along next: length plays no part.
Chain == {Visited(Cardinality(Nodes))[k] : k \in 1 .. Cardinality(Nodes)}

\* cu_DList_destroy.
Destroy ==
  /\ head' = None /\ tail' = None /\ length' = 0
  /\ next' = [n \in Nodes \ Chain |-> next[n]]
  /\ prev' = [n \in Nodes \ Chain |-> prev[n]]
  /\ Release(Chain)
  /\ UNCHANGED <<out, fresh>>

Next ==
  \/ \E e \in fresh : PushFront(e) \/ PushBack(e)
  \/ \E e \in fresh, pos \in Nodes \cup {None} : InsertAfter(pos, e) \/ InsertBefore(pos, e)
  \/ InsertFails
  \/ PopFront \/ PopBack \/ PopFails
  \/ Destroy

Spec == Init /\ [][Next]_vars

-----------------------------------------------------------------------------
(* Properties                                                              *)

\* The list read forward from the head, along next, is the list read backward from
\* the tail, along prev; both come to an end after length nodes, and they are all
\* the nodes held: none is lost, whichever end operations work at.
Mirrored ==
  /\ length = Cardinality(Nodes) /\ DOMAIN prev = Nodes
  /\ LET chain == Visited(length)
     IN  /\ Nodes = {chain[k] : k \in 1 .. length}
         /\ \A k \in 1 .. length :
              /\ prev[chain[k]] = IF k = 1 THEN None ELSE chain[k - 1]
              /\ k = length => next[chain[k]] = None
         /\ tail = IF length = 0 THEN None ELSE chain[length]
         /\ length = 0 => head = None

\* Each element is destroyed exactly once, when its node is freed: never while a
\* node holds it, never twice, never forgotten.
ReleasedOnce ==
  \A e \in Elem : destroyed[e] = IF e \in fresh \cup Nodes THEN 0 ELSE 1

\* The new node e is where an iteration that stands at n goes next, and what came
\* there comes after e.
ComesAfter(n, e) ==
  After' = [m \in Nodes \cup {None, e} |->
              IF m = n THEN e ELSE IF m = e THEN After[n] ELSE After[m]]

\* An iteration that stands at a node comes to an element inserted after that node
\* next, one that comes to a node has come to an element inserted before it first,
\* and the others keep their order: an iteration in progress misses none.
InsertsInOrder ==
  [][\A e \in fresh, pos \in Nodes \cup {None} :
       /\ InsertAfter(pos, e) => ComesAfter(pos, e)
       /\ InsertBefore(pos, e) =>
            \E n \in Nodes \cup {None} :
              (IF pos = None THEN n = None ELSE After[n] = pos) /\ ComesAfter(n, e)]_vars

\* What an iteration comes to is a sequence that grows anywhere and shrinks at both
\* ends, through every relinking.
Sequence == INSTANCE ElementSequence WITH elems <- Visited(length)

ImplementsSequence == Sequence!InsertingSpec
=============================================================================
