----------------------------- MODULE CAllocator -----------------------------
(***************************************************************************)
(* lib/memory/allocator.c, the allocator over malloc, realloc and free.    *)
(* What malloc gives (a raw block) is large enough to align the client's   *)
(* block in it and to keep the raw address in the word in front.  To       *)
(* resize, the raw block is reallocated and the block aligned anew in it.  *)
(*                                                                         *)
(* The C library is external: malloc gives any aligned place that is free, *)
(* or none; realloc leaves the raw block where it is, or moves it and      *)
(* frees the old place, or refuses and changes nothing.  Clients fill      *)
(* their blocks, and free and resize live blocks only.                     *)
(***************************************************************************)
EXTENDS Integers, FiniteSets

CONSTANTS
  WordSize,   \* sizeof(void *)
  RawAlign,   \* the alignment of what malloc gives
  MemSize,    \* bound: the memory the C library has
  Sizes,      \* the layout sizes clients ask for
  Aligns      \* the layout alignments clients ask for

ConstantsOK ==
  /\ WordSize \in Nat \ {0} /\ RawAlign \in Nat \ {0} /\ MemSize \in Nat
  /\ Sizes \subseteq Nat /\ Aligns \subseteq Nat

VARIABLES
  raws,    \* raws[r]: the length of the raw block at address r
  stored,  \* stored[p]: the pointer in the word in front of p
  live,    \* the blocks clients hold
  kept     \* whether what was resized holds, as far as it goes, what it held

vars == <<raws, stored, live, kept>>

Block == [pos : Nat, len : Nat]

AlignUp(x, a) == (x + a - 1) - ((x + a - 1) % a)

Alignment(align) == IF align < WordSize THEN WordSize ELSE align

\* Mutant of Total: no room is left to align the block.
Total_NoPadding(size, align) == size + WordSize

Total(size, align) == size + Alignment(align) - 1 + WordSize

\* aligned_addr.
Aligned(r, align) == AlignUp(r + WordSize, Alignment(align))

Apart(p, m, q, n) == p + m <= q \/ q + n <= p

\* Where the C library has n free bytes, outside of the raw blocks R.
Room(R, n) ==
  {r \in {RawAlign * k : k \in 1 .. MemSize \div RawAlign} :
     r + n <= MemSize /\ \A q \in R : Apart(r, n, q, raws[q])}

\* What is left of the pointers p once lo .. hi-1 was written.
Overwritten(p, lo, hi) == [x \in {y \in DOMAIN p : Apart(y - WordSize, WordSize, lo, hi - lo)} |-> p[x]]

\* A pointer to r is stored in front of pos, and the client fills the n bytes there.
Store(p, pos, n, r) ==
  LET o == Overwritten(p, pos - WordSize, pos + n)
  IN  [x \in DOMAIN o \cup {pos} |-> IF x = pos THEN r ELSE o[x]]

Without(f, x) == [y \in DOMAIN f \ {x} |-> f[y]]

With(f, x, v) == [y \in DOMAIN f \cup {x} |-> IF y = x THEN v ELSE f[y]]

Init == raws = <<>> /\ stored = <<>> /\ live = {} /\ kept = TRUE

\* cu_CAllocator_Alloc, also reached by grow without a block.
Alloc(size, align) ==
  /\ size # 0
  /\ \E r \in Room(DOMAIN raws, Total(size, align)) :
       LET pos == Aligned(r, align)
       IN  /\ raws' = With(raws, r, Total(size, align))
           /\ stored' = Store(stored, pos, size, r)
           /\ live' = live \cup {[pos |-> pos, len |-> size]}
  /\ UNCHANGED kept

\* INVALID_INPUT for a size of 0, and OUT_OF_MEMORY at any time, of a resize too.
Fails == UNCHANGED vars

\* Where realloc may leave the raw block r that is to have n bytes.
Reallocated(r, n) == Room(DOMAIN raws \ {r}, n) \cap ({r} \cup Room(DOMAIN raws, n))

\* Whether the first n bytes of b are sure to come to pos: the raw block at r, of
\* total bytes, was not moved, they are still inside, and the pointer stored for the
\* new place was not written over them.
ComesAlong(b, n, r, total, pos) ==
  \/ n = 0 \/ pos = b.pos
  \/ /\ r = stored[b.pos] /\ b.pos + n <= r + total
     /\ Apart(pos - WordSize, WordSize, b.pos, n) /\ Apart(pos, n, b.pos, n)

\* Mutant of Resized: the pointer stored is the one of the old raw block.
Resized_OldRaw(b, size, align, r) ==
  LET pos == Aligned(r, align)
      old == stored[b.pos]
  IN  /\ raws' = With(Without(raws, old), r, Total(size, align))
      /\ stored' = Store(Without(stored, b.pos), pos, size, old)
      /\ live' = (live \ {b}) \cup {[pos |-> pos, len |-> size]}

\* The block b in its raw block, which is at r now.
Resized(b, size, align, r) ==
  LET pos == Aligned(r, align)
      old == stored[b.pos]
  IN  /\ raws' = With(Without(raws, old), r, Total(size, align))
      /\ stored' = Store(Without(stored, b.pos), pos, size, r)
      /\ live' = (live \ {b}) \cup {[pos |-> pos, len |-> size]}

\* cu_CAllocator_Grow and cu_CAllocator_Shrink, when realloc does it.  What is copied
\* from memory that was freed, or between places that overlap, may be anything.
ResizeByRealloc(b, size, align) ==
  \E r \in Reallocated(stored[b.pos], Total(size, align)) :
    /\ Resized(b, size, align, r)
    /\ LET n == IF b.len < size THEN b.len ELSE size
       IN  IF ComesAlong(b, n, r, Total(size, align), Aligned(r, align))
           THEN UNCHANGED kept
           ELSE kept' \in {kept, FALSE}

\* The same when realloc refuses and a new block is to be had after all: the old one
\* is copied and freed.
ResizeByAlloc(b, size, align) ==
  /\ size # 0
  /\ \E r \in Room(DOMAIN raws, Total(size, align)) : Resized(b, size, align, r)
  /\ UNCHANGED kept

\* cu_CAllocator_Free.
Free(b) ==
  /\ raws' = Without(raws, stored[b.pos])
  /\ stored' = Without(stored, b.pos)
  /\ live' = live \ {b}
  /\ UNCHANGED kept

Next ==
  \/ \E size \in Sizes, align \in Aligns : Alloc(size, align)
  \/ Fails
  \/ \E b \in live, size \in Sizes, align \in Aligns :
       ResizeByRealloc(b, size, align) \/ ResizeByAlloc(b, size, align)
  \/ \E b \in live : Free(b)

Spec == Init /\ [][Next]_vars

-----------------------------------------------------------------------------
(* Properties                                                              *)

\* The word in front of a block leads to a raw block that holds both, its own one:
\* realloc and free get an address malloc gave, once, wherever resizes have moved
\* block and raw block, and no raw block is forgotten.
RawBlocksOwned ==
  /\ \A b \in live :
       /\ b.pos \in DOMAIN stored /\ stored[b.pos] \in DOMAIN raws
       /\ stored[b.pos] + WordSize <= b.pos
       /\ b.pos + b.len <= stored[b.pos] + raws[stored[b.pos]]
  /\ \A b, c \in live : stored[b.pos] = stored[c.pos] => b = c
  /\ DOMAIN raws = {stored[b.pos] : b \in live}

\* A grown block holds what it held: a string reads "hello, world" after it grew
\* (tests/test_string.c), a stream the bytes that were written (tests/test_stream.c).
GrowKeepsContents ==
  [][\A b \in live, c \in live' :
       live' = (live \ {b}) \cup {c} /\ b.len < c.len /\ kept => kept']_vars

\* Blocks over malloc are an allocator, one that moves blocks within their raw block.
Blocks == {[region |-> 0, pos |-> b.pos, len |-> b.len] : b \in live}

Contract == INSTANCE AllocatorContract WITH live <- Blocks

ImplementsContract == Contract!SlidingSpec
=============================================================================
