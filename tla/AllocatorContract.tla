------------------------- MODULE AllocatorContract -------------------------
(***************************************************************************)
(* What every cu_Allocator promises its clients, whatever is behind the    *)
(* vtable of include/memory/allocator.h.  A client holds a set of live     *)
(* blocks.  A call either fails and changes nothing, or moves from one set *)
(* of pairwise disjoint blocks to another one: Alloc adds a block, Grow    *)
(* and Shrink replace a block, Free (or destroying the allocator) removes  *)
(* blocks.                                                                 *)
(*                                                                         *)
(* A block is the half-open interval pos .. pos+len-1 of a region (a       *)
(* chunk, a buffer, a page, a slab).  The allocators of lib/memory are     *)
(* shown to implement this module.                                         *)
(***************************************************************************)
EXTENDS Naturals

VARIABLE live   \* the blocks the client may use

Block == [region : Nat, pos : Nat, len : Nat]

\* Two blocks share no byte.
Disjoint(b, c) ==
  \/ b.region # c.region
  \/ b.pos + b.len <= c.pos
  \/ c.pos + c.len <= b.pos

SamePlace(b, c) == b.region = c.region /\ b.pos = c.pos

ClearOf(c, blocks) == \A b \in blocks : Disjoint(b, c)

Init == live = {}

\* Alloc, and Grow of a NULL block: a block nobody else holds.
Obtain ==
  \E c \in live' \ live :
    /\ c \in Block
    /\ ClearOf(c, live)
    /\ live' = live \cup {c}

\* Grow and Shrink: the block stays where it is and is resized over bytes
\* nobody else holds, or its contents are copied to a block that is clear of
\* every block live during the copy, its own old bytes included.
Resize ==
  \E b \in live :
    \E c \in live' :
      /\ c \in Block
      /\ live' = (live \ {b}) \cup {c}
      /\ ClearOf(c, IF SamePlace(b, c) THEN live \ {b} ELSE live)

\* Free, Shrink to nothing, reset and destroy.
Release == live' \subseteq live

Next == Obtain \/ Resize \/ Release

Spec == Init /\ [][Next]_live

\* Grow and Shrink of an allocator that may move a block over part of its own old
\* bytes: what is held by others is still out of reach.
Slide ==
  \E b \in live :
    \E c \in live' :
      /\ c \in Block
      /\ live' = (live \ {b}) \cup {c}
      /\ ClearOf(c, live \ {b})

SlidingSpec == Init /\ [][Next \/ Slide]_live
=============================================================================
