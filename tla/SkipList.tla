------------------------------ MODULE SkipList ------------------------------
(***************************************************************************)
(* lib/collection/skip_list.c: a sorted map as a linked list with express  *)
(* lanes.  A node has a tower of forward pointers, of a height drawn at    *)
(* random; the pointers of level i link the nodes whose towers are higher  *)
(* than i.  A search goes along each level from the top one in use down.   *)
(*                                                                         *)
(* A node is named by its key and the head by Head.  The allocator may     *)
(* refuse a node, its key or its value, after the list's level was raised. *)
(***************************************************************************)
EXTENDS Integers, FiniteSets

CONSTANTS
  Key,       \* the keys, compared as integers
  Value,
  None,      \* the null pointer
  MaxLevel   \* list->max_level

Head == 0

ConstantsOK ==
  /\ Key \subseteq Nat \ {Head} /\ IsFiniteSet(Key)
  /\ None \notin Value /\ None \notin Key
  /\ MaxLevel \in Nat \ {0}

VARIABLES
  open,      \* the client has a list it did not destroy
  level,     \* list->level
  forward,   \* forward[n][i]: the node after n on level i
  value      \* value[k]: the value of node k

vars == <<open, level, forward, value>>

Nodes == DOMAIN value

Tower(n) == Cardinality(DOMAIN forward[n])

-----------------------------------------------------------------------------
(* Searching                                                               *)

\* Whether a search for k goes on to node n.
Before(n, k) == n # None /\ n < k

\* Where a search for k that is at node n of level i is one step later.
Onward(i, k) ==
  [n \in {m \in DOMAIN forward : i \in DOMAIN forward[m]} |->
     IF Before(forward[n][i], k) THEN forward[n][i] ELSE n]

\* The node where a search for k that comes to n leaves level i.
Walk(n, i, k) ==
  LET at[step \in 0 .. Cardinality(Key)] ==
        IF step = 0 THEN n ELSE Onward(i, k)[at[step - 1]]
  IN  at[Cardinality(Key)]

\* update[i] of a search for k: from where level i is left, in the levels in use;
\* above them it is the head.
Update(k) ==
  LET update[i \in 0 .. MaxLevel] ==
        IF i >= level THEN Head ELSE Walk(update[i + 1], i, k)
  IN  update

Found(k) == forward[Update(k)[0]][0] = k

\* What cu_SkipList_find returns.
Find(k) == IF open /\ Found(k) THEN value[k] ELSE None

-----------------------------------------------------------------------------
(* Operations                                                              *)

Init == open = FALSE /\ level = 0 /\ forward = <<>> /\ value = <<>>

\* cu_SkipList_create; if the allocator refuses, there is no list.
Create ==
  /\ ~open
  /\ open' = TRUE /\ level' = 1
  /\ forward' = [n \in {Head} |-> [i \in 0 .. MaxLevel - 1 |-> None]]
  /\ UNCHANGED value

\* The list's level once a node of level lvl is to come in.
Raised(lvl) == IF lvl > level THEN lvl ELSE level

\* Mutant of Linked: the node does not take over what its predecessors led to.
Linked_Forgets(k, lvl) ==
  LET update == Update(k) IN
  [n \in DOMAIN forward \cup {k} |->
     IF n = k THEN [i \in 0 .. lvl - 1 |-> None]
     ELSE [i \in DOMAIN forward[n] |->
             IF i < lvl /\ update[i] = n THEN k ELSE forward[n][i]]]

\* Node k with a tower of lvl levels comes in behind update.
Linked(k, lvl) ==
  LET update == Update(k) IN
  [n \in DOMAIN forward \cup {k} |->
     IF n = k THEN [i \in 0 .. lvl - 1 |-> forward[update[i]][i]]
     ELSE [i \in DOMAIN forward[n] |->
             IF i < lvl /\ update[i] = n THEN k ELSE forward[n][i]]]

\* cu_SkipList_insert of a new key, with a tower of random height.
Insert(k, v, lvl) ==
  /\ open /\ ~Found(k)
  /\ level' = Raised(lvl)
  /\ forward' = Linked(k, lvl)
  /\ value' = [n \in Nodes \cup {k} |-> IF n = k THEN v ELSE value[n]]
  /\ UNCHANGED open

\* There is no memory for the node, its key or its value: the level stays raised.
InsertFails(k, lvl) ==
  /\ open /\ ~Found(k)
  /\ level' = Raised(lvl)
  /\ UNCHANGED <<open, forward, value>>

\* cu_SkipList_insert of a key that is there: the old value is destroyed and
\* overwritten.
Overwrite(k, v) ==
  /\ open /\ Found(k)
  /\ value' = [value EXCEPT ![k] = v]
  /\ UNCHANGED <<open, level, forward>>

\* Mutant of UnlinkedLevels: the node is taken out of the bottom level only.
UnlinkedLevels_Bottom(k) == {0}

\* The levels node k is taken out of: from the bottom up to the first that does
\* not lead to it.
UnlinkedLevels(k) ==
  LET update == Update(k)
  IN  {i \in 0 .. level - 1 : \A j \in 0 .. i : forward[update[j]][j] = k}

Unlinked(k) ==
  LET update == Update(k) IN
  [n \in DOMAIN forward \ {k} |->
     [i \in DOMAIN forward[n] |->
        IF i \in UnlinkedLevels(k) /\ update[i] = n THEN forward[k][i] ELSE forward[n][i]]]

\* The highest level in use that is not empty, or else the bottom one.
Lowered(fwd) ==
  LET full == {1} \cup {i \in 1 .. level : fwd[Head][i - 1] # None}
  IN  CHOOSE i \in full : \A j \in full : j <= i

\* cu_SkipList_remove.
Remove(k) ==
  /\ open /\ Found(k)
  /\ forward' = Unlinked(k)
  /\ level' = Lowered(forward')
  /\ value' = [n \in Nodes \ {k} |-> value[n]]
  /\ UNCHANGED open

\* CU_SKIPLIST_ERROR_INVALID.
RemoveFails(k) == open /\ ~Found(k) /\ UNCHANGED vars

\* cu_SkipList_destroy.
Destroy == open /\ open' = FALSE /\ level' = 0 /\ forward' = <<>> /\ value' = <<>>

Next ==
  \/ Create
  \/ \E k \in Key, lvl \in 1 .. MaxLevel :
       InsertFails(k, lvl) \/ \E v \in Value : Insert(k, v, lvl)
  \/ \E k \in Key, v \in Value : Overwrite(k, v)
  \/ \E k \in Key : Remove(k) \/ RemoveFails(k)
  \/ Destroy

Spec == Init /\ [][Next]_vars

-----------------------------------------------------------------------------
(* Properties                                                              *)

\* There is at least one level, each node has a tower and a value.
TypeOK ==
  /\ open \in BOOLEAN
  /\ level \in IF open THEN 1 .. MaxLevel ELSE {0}
  /\ Nodes \subseteq Key /\ \A k \in Nodes : value[k] \in Value
  /\ DOMAIN forward = IF open THEN Nodes \cup {Head} ELSE {}
  /\ \A n \in DOMAIN forward :
       /\ Tower(n) \in 1 .. MaxLevel /\ DOMAIN forward[n] = 0 .. Tower(n) - 1
       /\ \A i \in DOMAIN forward[n] : forward[n][i] \in Key \cup {None}

\* On every level a node leads to the next higher key among the nodes whose towers
\* reach that level, so no lane skips a node, goes back, or leads to a node that
\* was freed; and no tower is higher than the levels searches start from, however
\* inserts failed and removals lowered them.
TowersLinked ==
  /\ TypeOK
  /\ \A n \in Nodes : Tower(n) <= level
  /\ \A n \in DOMAIN forward : \A i \in DOMAIN forward[n] :
       LET after == {k \in Nodes : k > n /\ Tower(k) > i}
       IN  IF after = {} THEN forward[n][i] = None
           ELSE forward[n][i] \in after /\ \A k \in after : forward[n][i] <= k

\* What find returns is a map: searches that start from any level reach what was
\* inserted last, and a failed insert changes nothing a client can see.
Map == INSTANCE KeyValueMap WITH map <- [k \in Key |-> Find(k)]

ImplementsMap == Map!RemovingSpec
=============================================================================
