------------------------ MODULE MCStringsAndHandles ------------------------
(***************************************************************************)
(* For TLC, what clients share by slices and handles: two strings of up to *)
(* three bytes, appended to each other and to themselves, and four handles *)
(* (Rc) on up to three containers.  A behaviour uses one of them, the      *)
(* other stays as it is at first.                                          *)
(***************************************************************************)
EXTENDS String

CONSTANTS Handle, Container, None, a, b

VARIABLES
  active,                                  \* what is used
  inner, ref_count, dropped, nullHandle    \* Rc

rcVars == <<inner, ref_count, dropped, nullHandle>>

Rc == INSTANCE Rc WITH fault <- nullHandle

ASSUME InstancesOK == Rc!ConstantsOK

MCLiterals == {<<>>, <<a, b>>}

MCInit == active \in {"string", "rc"} /\ Init /\ Rc!Init

MCNext ==
  /\ UNCHANGED active
  /\ \/ active = "string" /\ Next /\ UNCHANGED rcVars
     \/ active = "rc" /\ Rc!Next /\ UNCHANGED vars

MCSpec == MCInit /\ [][MCNext]_<<active, vars, rcVars>>

-----------------------------------------------------------------------------
\* A shared value lives as long as its handles.
Counted == Rc!Counted
=============================================================================
