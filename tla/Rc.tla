--------------------------------- MODULE Rc ---------------------------------
(***************************************************************************)
(* include/object/rc.h: a value shared by handles.  The value lies in a    *)
(* container with a count of its handles and an optional destructor; the   *)
(* handle that is destroyed last runs the destructor and frees the         *)
(* container.  A destroyed handle is empty.                                *)
(***************************************************************************)
EXTENDS Integers, FiniteSets

CONSTANTS
  Handle,     \* the variables of the client's program that hold handles
  Container,  \* the containers the allocator can give
  None        \* the null pointer

ConstantsOK == None \notin Container /\ IsFiniteSet(Handle)

VARIABLES
  inner,       \* inner[h]: rc->inner of handle h
  ref_count,   \* ref_count[c]: the count of container c, for those held
  dropped,     \* dropped[c]: how many destructors ran on c since it was created
  fault        \* the program ended: the null pointer was dereferenced

vars == <<inner, ref_count, dropped, fault>>

Held == DOMAIN ref_count

Init ==
  /\ inner = [h \in Handle |-> None]
  /\ ref_count = <<>> /\ dropped = [c \in Container |-> 0]
  /\ fault = FALSE

\* NAME_Rc_create; without memory there is no handle.
Create(h, c) ==
  /\ ~fault /\ inner[h] = None /\ c \notin Held
  /\ inner' = [inner EXCEPT ![h] = c]
  /\ ref_count' = [x \in Held \cup {c} |-> IF x = c THEN 1 ELSE ref_count[x]]
  /\ dropped' = [dropped EXCEPT ![c] = 0]
  /\ UNCHANGED fault

\* Mutant of Clone: the count stays.
Clone_NotCounted(h, g) ==
  /\ ~fault /\ inner[g] = None
  /\ inner' = [inner EXCEPT ![g] = inner[h]]
  /\ UNCHANGED <<ref_count, dropped, fault>>

\* NAME_Rc_clone of h into g; the clone of an empty handle is none.
Clone(h, g) ==
  /\ ~fault /\ inner[g] = None
  /\ inner' = [inner EXCEPT ![g] = inner[h]]
  /\ ref_count' = [c \in Held |-> ref_count[c] + (IF c = inner[h] THEN 1 ELSE 0)]
  /\ UNCHANGED <<dropped, fault>>

\* Whether the handle of c that is destroyed is the last.
LastHandle(c) == ref_count[c] = 1

\* NAME_Rc_destroy.
Destroy(h) ==
  LET c == inner[h] IN
  /\ ~fault /\ c # None
  /\ ref_count' = [x \in IF LastHandle(c) THEN Held \ {c} ELSE Held |->
                     IF x = c THEN ref_count[x] - 1 ELSE ref_count[x]]
  /\ dropped' = [dropped EXCEPT ![c] = @ + (IF LastHandle(c) THEN 1 ELSE 0)]
  /\ inner' = [inner EXCEPT ![h] = None]
  /\ UNCHANGED fault

\* NAME_Rc_destroy of a handle that is empty, unlike clone and get, does not look.
DestroyEmpty(h) == ~fault /\ inner[h] = None /\ fault' = TRUE /\ UNCHANGED <<inner, ref_count, dropped>>

Next ==
  \/ \E h \in Handle, c \in Container : Create(h, c)
  \/ \E h, g \in Handle : h # g /\ Clone(h, g)
  \/ \E h \in Handle : Destroy(h) \/ DestroyEmpty(h)

Spec == Init /\ [][Next]_vars

-----------------------------------------------------------------------------
(* Properties                                                              *)

\* Every handle that is not empty holds a container the allocator was not given
\* back and whose destructor did not run, the count is the number of these handles,
\* no container outlives its last one, and each that is gone was destroyed once.
Counted ==
  /\ \A h \in Handle : inner[h] \in Held \cup {None}
  /\ \A c \in Held :
       /\ ref_count[c] = Cardinality({h \in Handle : inner[h] = c})
       /\ ref_count[c] > 0 /\ dropped[c] = 0
  /\ \A c \in Container : dropped[c] <= 1
=============================================================================
