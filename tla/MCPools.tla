------------------------------ MODULE MCPools ------------------------------
(***************************************************************************)
(* For TLC, the allocators that cut up blocks of a backing allocator: the  *)
(* general-purpose one (GPAllocator) and the one of slabs.  A behaviour    *)
(* uses one of them, the other stays as it is at first.                    *)
(*                                                                         *)
(* A bucket has four bytes: two slots of two bytes, or one slot of four;   *)
(* requests of five bytes are large.  Slabs have two slots of four bytes   *)
(* and headers of three: a block takes one or two slots, or three of a     *)
(* larger slab.  A slab begins at an even address or at an odd one.        *)
(***************************************************************************)
EXTENDS GPAllocator

CONSTANTS
  HeaderSize, DataOffset, SlabSize, DefaultCount, Bases, MaxSlabs,   \* SlabAllocator's
  SlabSizes, SlabAligns                                              \* its layouts

VARIABLES
  active,                    \* the allocator that is used
  slabs, header, slabLive    \* SlabAllocator

slabVars == <<slabs, header, slabLive>>

Slab == INSTANCE SlabAllocator WITH
  Sizes <- SlabSizes, Aligns <- SlabAligns, live <- slabLive

ASSUME InstancesOK == Slab!ConstantsOK

MCInit == active \in {"gpa", "slab"} /\ Init /\ Slab!Init

MCNext ==
  /\ UNCHANGED active
  /\ \/ active = "gpa" /\ Next /\ UNCHANGED slabVars
     \/ active = "slab" /\ Slab!Next /\ UNCHANGED vars

MCSpec == MCInit /\ [][MCNext]_<<active, vars, slabVars>>

-----------------------------------------------------------------------------
\* Blocks of slab.c lie in the runs of slots their headers name.
BlocksInRuns == Slab!BlocksInRuns

\* The bitmap, the count of free slots and the blocks of slab.c agree.
RunsAccounted == Slab!RunsAccounted

\* Both are allocators.
AreAllocators == ImplementsContract /\ Slab!ImplementsContract
=============================================================================
