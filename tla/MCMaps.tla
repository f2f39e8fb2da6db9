------------------------------- MODULE MCMaps -------------------------------
(***************************************************************************)
(* For TLC, the two maps: the hash table (HashMap) as in MCHashMap, and    *)
(* the skip list on four keys with towers of up to three levels: towers of *)
(* every height before, between and after towers of every other.  A        *)
(* behaviour uses one of them, the other stays as it is at first.          *)
(***************************************************************************)
EXTENDS MCHashMap

CONSTANTS
  ListKey,    \* the keys of the skip list
  MaxLevel    \* its max_level

VARIABLES
  active,                                \* the map that is used
  listOpen, level, forward, listValue    \* SkipList

listVars == <<listOpen, level, forward, listValue>>

List == INSTANCE SkipList WITH
  Key <- ListKey, open <- listOpen, value <- listValue

ASSUME InstancesOK == List!ConstantsOK

MCInit == active \in {"hash", "list"} /\ Init /\ List!Init

MCNext ==
  /\ UNCHANGED active
  /\ \/ active = "hash" /\ Next /\ UNCHANGED listVars
     \/ active = "list" /\ List!Next /\ UNCHANGED vars

MCSpec == MCInit /\ [][MCNext]_<<active, vars, listVars>>

-----------------------------------------------------------------------------
\* The lanes of skip_list.c are sorted and complete, and no tower is higher than
\* the levels searches start from.
TowersLinked == List!TowersLinked

\* What cu_SkipList_find returns is a map.
ListImplementsMap == List!ImplementsMap
=============================================================================
