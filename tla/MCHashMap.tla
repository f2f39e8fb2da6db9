----------------------------- MODULE MCHashMap -----------------------------
(***************************************************************************)
(* HashMap for TLC, with tables of one, four and eight buckets.  In a      *)
(* table of four the keys share the last bucket and their probes go around *)
(* to the first; in a table of eight k1 parts from k2 and k3, which        *)
(* collide in every table.                                                 *)
(***************************************************************************)
EXTENDS HashMap, TLC

CONSTANTS k1, k2, k3

MCHash == k1 :> 3 @@ k2 :> 7 @@ k3 :> 7
=============================================================================
