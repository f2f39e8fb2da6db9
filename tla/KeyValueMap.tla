---------------------------- MODULE KeyValueMap ----------------------------
(***************************************************************************)
(* A finite map: what include/collection/hashmap.h promises of insert      *)
(* ("Insert a new key-value pair") and get ("Retrieve the value stored for *)
(* key"), and include/collection/skip_list.h, a "Simple skip list map", of *)
(* insert, find and remove.  An insert that fails leaves the map as it     *)
(* was.                                                                    *)
(***************************************************************************)
CONSTANTS Key, Value, None

VARIABLE map   \* map[k]: the value stored for k, None if there is none

Empty == [k \in Key |-> None]

Init == map = Empty

Put == \E k \in Key, v \in Value : map' = [map EXCEPT ![k] = v]

Remove == \E k \in Key : map[k] # None /\ map' = [map EXCEPT ![k] = None]

Discard == map' = Empty

Next == Put \/ Discard

Spec == Init /\ [][Next]_map

\* A map whose pairs can be removed.
RemovingSpec == Init /\ [][Next \/ Remove]_map
=============================================================================
