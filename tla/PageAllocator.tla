--------------------------- MODULE PageAllocator ---------------------------
(***************************************************************************)
(* lib/memory/page.c: every block is a mapping of its own, of whole pages. *)
(* The block returned is as long as its pages, but clients of the          *)
(* interface (strings, vectors) hand back the length they asked for.       *)
(*                                                                         *)
(* mmap and munmap are external: mmap gives any free pages, or none;       *)
(* munmap frees the pages that a length, rounded up, covers.               *)
(***************************************************************************)
EXTENDS Integers

CONSTANTS
  PageSize,   \* allocator->pageSize
  MaxPages,   \* bound: the pages the system has
  Sizes       \* the layout sizes clients ask for

ConstantsOK == PageSize \in Nat \ {0} /\ MaxPages \in Nat /\ Sizes \subseteq Nat

VARIABLES
  mapped,   \* the pages that are mapped
  live      \* the blocks clients hold, with the length they know

vars == <<mapped, live>>

Block == [page : Nat, len : Nat]

\* CU_ALIGN_UP to pages, counted in pages.
PagesOf(size) == (size + PageSize - 1) \div PageSize

Covered(page, size) == page .. page + PagesOf(size) - 1

\* Where the system has room for the pages of a size.
Room(size) == {p \in 0 .. MaxPages - PagesOf(size) : Covered(p, size) \cap mapped = {}}

Init == mapped = {} /\ live = {}

\* What a client knows of a block: what it asked for, or the slice it got.
Lengths(size) == {size, PageSize * PagesOf(size)}

\* cu_PageAllocator_Alloc, also reached by grow without a block.
Alloc(size) ==
  /\ size # 0
  /\ \E p \in Room(size), n \in Lengths(size) :
       /\ mapped' = mapped \cup Covered(p, size)
       /\ live' = live \cup {[page |-> p, len |-> n]}

\* INVALID_INPUT for a size of 0, and OUT_OF_MEMORY at any time.
Fails == UNCHANGED vars

\* Mutant of Unmapped: the last page stays when the length handed back ends in it.
Unmapped_WholePages(b) == b.page .. b.page + (b.len \div PageSize) - 1

Unmapped(b) == Covered(b.page, b.len)

\* cu_PageAllocator_Grow and cu_PageAllocator_Shrink: always a new mapping.
Resize(b, size) ==
  /\ size # 0
  /\ \E p \in Room(size), n \in Lengths(size) :
       /\ mapped' = (mapped \cup Covered(p, size)) \ Unmapped(b)
       /\ live' = (live \cup {[page |-> p, len |-> n]}) \ {b}

\* cu_PageAllocator_Free.
Free(b) ==
  /\ mapped' = mapped \ Unmapped(b)
  /\ live' = live \ {b}

Next ==
  \/ \E size \in Sizes : Alloc(size)
  \/ Fails
  \/ \E b \in live, size \in Sizes : Resize(b, size)
  \/ \E b \in live : Free(b)

Spec == Init /\ [][Next]_vars

-----------------------------------------------------------------------------
(* Properties                                                              *)

\* What is mapped is what blocks cover, whichever length clients hand back: no page
\* is forgotten, or taken from under a block.
MappedIsHeld == mapped = UNION {Covered(b.page, b.len) : b \in live}

\* The system's pages are an allocator.
Blocks == {[region |-> 0, pos |-> b.page * PageSize, len |-> b.len] : b \in live}

Contract == INSTANCE AllocatorContract WITH live <- Blocks

ImplementsContract == Contract!Spec
=============================================================================
