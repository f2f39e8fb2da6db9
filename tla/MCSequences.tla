---------------------------- MODULE MCSequences ----------------------------
(***************************************************************************)
(* For TLC, the collections that are sequences: Vector, DList, List and    *)
(* RingBuffer, of five elements.  A behaviour uses one of them, the others *)
(* stay as they are at first.                                              *)
(*                                                                         *)
(* The arrays of the vector have up to four cells and are made with none,  *)
(* with three or four: pushes grow them, pops down to one element halve    *)
(* them, and elements move each time.  Lists of five nodes have insertions *)
(* and removals at both ends, and between two nodes on either side.  Five  *)
(* elements go through ring buffers of up to three slots, so that indices  *)
(* wrap around and a buffer can be made again; a program that pushes to a  *)
(* buffer without slots ends there.                                        *)
(***************************************************************************)
EXTENDS Vector

CONSTANTS
  Stranger,     \* a node of no list in use
  Capacities    \* the capacities ring buffers are created with

VARIABLES
  active,                                                           \* what is used
  dHead, dTail, dLength, dNext, dPrev, dOut, dFresh, dDestroyed,    \* DList
  lHead, lLength, lNext, lOut, lFresh, lDestroyed,                  \* List
  rOpen, rCapacity, rData, rHead, rLength,                          \* RingBuffer
  rOut, rFresh, rDestroyed, rFault

dVars == <<dHead, dTail, dLength, dNext, dPrev, dOut, dFresh, dDestroyed>>
lVars == <<lHead, lLength, lNext, lOut, lFresh, lDestroyed>>
rVars == <<rOpen, rCapacity, rData, rHead, rLength, rOut, rFresh, rDestroyed, rFault>>

DL == INSTANCE DList WITH
  head <- dHead, tail <- dTail, length <- dLength, next <- dNext, prev <- dPrev,
  out <- dOut, fresh <- dFresh, destroyed <- dDestroyed

SL == INSTANCE List WITH
  head <- lHead, length <- lLength, next <- lNext,
  out <- lOut, fresh <- lFresh, destroyed <- lDestroyed

RB == INSTANCE RingBuffer WITH
  open <- rOpen, capacity <- rCapacity, data <- rData, head <- rHead, length <- rLength,
  out <- rOut, fresh <- rFresh, destroyed <- rDestroyed, fault <- rFault

ASSUME InstancesOK == DL!ConstantsOK /\ SL!ConstantsOK /\ RB!ConstantsOK

MCInit ==
  /\ active \in {"vector", "dlist", "list", "ring"}
  /\ Init /\ DL!Init /\ SL!Init /\ RB!Init

MCNext ==
  /\ UNCHANGED active
  /\ \/ active = "vector" /\ Next /\ UNCHANGED <<dVars, lVars, rVars>>
     \/ active = "dlist" /\ DL!Next /\ UNCHANGED <<vars, lVars, rVars>>
     \/ active = "list" /\ SL!Next /\ UNCHANGED <<vars, dVars, rVars>>
     \/ active = "ring" /\ RB!Next /\ UNCHANGED <<vars, dVars, lVars>>

MCSpec == MCInit /\ [][MCNext]_<<active, vars, dVars, lVars, rVars>>

-----------------------------------------------------------------------------
\* Each element is destroyed exactly once, in the vector and the lists.
EachDestroyedOnce == DestroyedOnce /\ DL!ReleasedOnce /\ SL!ReleasedOnce

\* No relinking of dlist.c or list.c loses a node or closes a circle, and the two
\* directions of dlist.c agree.
ListsLinked == DL!Mirrored /\ SL!Linked

\* An element goes in where the client says, seen from an iteration in progress.
InsertsInOrder == DL!InsertsInOrder /\ SL!InsertsBefore

\* The vector and the lists are sequences.
AreSequences ==
  /\ ImplementsSequence
  /\ DL!ImplementsSequence
  /\ SL!ImplementsSequence

\* In ring_buffer.c a push that wraps around never lands on an element waiting.
QueueStoredOnce == RB!StoredOnce

\* Each element that left a ring buffer, by pop, clear or destroy, was destroyed
\* exactly once, and none that waits was.
QueueDestroyedOnce == RB!DestroyedOnce

\* A ring buffer is a bounded first-in first-out queue.
IsQueue == RB!ImplementsFifo
=============================================================================
