--------------------------- MODULE FixedAllocator ---------------------------
(***************************************************************************)
(* lib/memory/fixedallocator.c.  A bump allocator over one caller-provided *)
(* buffer.  As in the arena, a header in front of every block holds the    *)
(* value "used" had before it, and only the block on top can be popped.    *)
(* Unlike the arena, nothing is given back when a block that is not on top *)
(* is resized: grow and shrink copy it to a new block, and the buffer can  *)
(* be reset as a whole.                                                    *)
(*                                                                         *)
(* "header" is the part of the buffer that still reads as the header of a  *)
(* block some client holds; clients fill their blocks as they get them,    *)
(* free and resize live blocks only, and shrink to at most their length.   *)
(***************************************************************************)
EXTENDS Integers

CONSTANTS
  HeaderSize,    \* sizeof(struct cu_FixedAllocator_Header)
  HeaderAlign,   \* _Alignof(struct cu_FixedAllocator_Header)
  Length,        \* alloc->buffer.length
  Sizes,         \* the layout sizes clients ask for
  Aligns         \* the layout alignments clients ask for

ASSUME HeaderAssumption == HeaderSize \in Nat \ {0} /\ HeaderAlign \in Nat \ {0}
ASSUME LengthAssumption == Length \in Nat
ASSUME LayoutAssumption == Sizes \subseteq Nat /\ Aligns \subseteq Nat

VARIABLES
  used,     \* alloc->used
  header,   \* header[s]: prev_offset in the header at s - HeaderSize
  live      \* the blocks clients hold

vars == <<used, header, live>>

Block == [pos : Nat, len : Nat]

AlignUp(x, a) == (x + a - 1) - ((x + a - 1) % a)

\* The header must be aligned too, so a block is at least as aligned as it.
ReqAlign(align) == IF align > HeaderAlign THEN align ELSE HeaderAlign

\* Mutant of Start: no room is made for the header.
Start_NoHeader(u, align) == AlignUp(u, ReqAlign(align))

Start(u, align) == AlignUp(u + HeaderSize, ReqAlign(align))

Fits(size, align) == Start(used, align) + size <= Length

End(b) == b.pos + b.len

NewBlock(size, align) == [pos |-> Start(used, align), len |-> size]

\* The headers that survive a write to the bytes lo .. hi-1.
Overwrite(hd, lo, hi) ==
  [s \in {t \in DOMAIN hd : t <= lo \/ hi <= t - HeaderSize} |-> hd[s]]

\* The header of a new block is written, then the client fills the block.
NewHeader(size, align) ==
  LET start == Start(used, align)
      kept  == Overwrite(header, start - HeaderSize, start + size)
  IN [s \in DOMAIN kept \cup {start} |-> IF s = start THEN used ELSE kept[s]]

Forget(hd, b) == [s \in DOMAIN hd \ {b.pos} |-> hd[s]]

Init == used = 0 /\ header = <<>> /\ live = {}

\* cu_fixed_alloc, also reached by cu_fixed_grow with a NULL block.
Alloc(size, align) ==
  /\ size # 0 /\ Fits(size, align)
  /\ used' = Start(used, align) + size
  /\ header' = NewHeader(size, align)
  /\ live' = live \cup {NewBlock(size, align)}

\* INVALID_INPUT or OUT_OF_MEMORY.
AllocFails(size, align) ==
  /\ size = 0 \/ ~Fits(size, align)
  /\ UNCHANGED vars

\* Mutant of RoomInPlace: the new size is compared with the whole buffer.
RoomInPlace_Whole(b, size) == End(b) = used /\ size <= Length

RoomInPlace(b, size) == End(b) = used /\ size <= b.len + (Length - used)

\* cu_fixed_grow on the top block.
GrowInPlace(b, size) ==
  /\ RoomInPlace(b, size)
  /\ used' = (used - b.len) + size
  /\ header' = Overwrite(header, b.pos, b.pos + size)
  /\ live' = (live \ {b}) \cup {[b EXCEPT !.len = size]}

\* After the copy, cu_fixed_grow pops the old block if "used", which the new
\* block has moved to top, is still the old block's end.
AfterMove(b, top) == IF End(b) = top THEN header[b.pos] ELSE top

\* cu_fixed_grow elsewhere: allocate, copy, and perhaps pop the old block.
GrowByMove(b, size, align) ==
  /\ ~RoomInPlace(b, size)
  /\ size # 0 /\ Fits(size, align)
  /\ used' = AfterMove(b, Start(used, align) + size)
  /\ header' = Forget(NewHeader(size, align), b)
  /\ live' = (live \cup {NewBlock(size, align)}) \ {b}

\* cu_fixed_shrink on the top block.
ShrinkInPlace(b, size) ==
  /\ size <= b.len /\ End(b) = used
  /\ used' = (used - b.len) + size
  /\ live' = (live \ {b}) \cup {[b EXCEPT !.len = size]}
  /\ UNCHANGED header

\* cu_fixed_shrink elsewhere: allocate a smaller block and copy; the old block
\* is abandoned.
ShrinkByMove(b, size, align) ==
  /\ size <= b.len /\ End(b) # used
  /\ size # 0 /\ Fits(size, align)
  /\ used' = Start(used, align) + size
  /\ header' = Forget(NewHeader(size, align), b)
  /\ live' = (live \cup {NewBlock(size, align)}) \ {b}

\* Mutant of Free: any block is popped.
Free_Anywhere(b) ==
  /\ used' = header[b.pos]
  /\ header' = Forget(header, b)
  /\ live' = live \ {b}

\* cu_fixed_free.
Free(b) ==
  /\ used' = IF End(b) = used THEN header[b.pos] ELSE used
  /\ header' = Forget(header, b)
  /\ live' = live \ {b}

\* cu_FixedAllocator_reset: every block dies.
Reset == used' = 0 /\ header' = <<>> /\ live' = {}

Next ==
  \/ \E size \in Sizes, align \in Aligns : Alloc(size, align) \/ AllocFails(size, align)
  \/ \E b \in live, size \in Sizes : GrowInPlace(b, size) \/ ShrinkInPlace(b, size)
  \/ \E b \in live, size \in Sizes, align \in Aligns :
       GrowByMove(b, size, align) \/ ShrinkByMove(b, size, align)
  \/ \E b \in live : Free(b)
  \/ Reset

Spec == Init /\ [][Next]_vars

-----------------------------------------------------------------------------
\* "used" is an offset, headers hold offsets, clients hold blocks.
TypeOK ==
  /\ used \in Nat
  /\ \A s \in DOMAIN header : header[s] \in Nat
  /\ live \subseteq Block

\* No block reaches past the mark where the next one goes, nor the mark past the
\* buffer: in particular a grow that moves a block to the top and then pops the
\* old one must not put the mark back under the new block.
WithinBuffer ==
  /\ TypeOK
  /\ used <= Length
  /\ \A b \in live : HeaderSize <= b.pos /\ End(b) <= used

\* Headers of live blocks survive what clients write, and popping a block
\* uncovers no other live block.
HeadersIntact ==
  \A b \in live :
    /\ b.pos \in DOMAIN header
    /\ header[b.pos] + HeaderSize <= b.pos
    /\ \A d \in live \ {b} : End(d) <= header[b.pos] \/ b.pos < d.pos

\* The buffer is an allocator.
Blocks == {[region |-> 0, pos |-> b.pos, len |-> b.len] : b \in live}

Contract == INSTANCE AllocatorContract WITH live <- Blocks

ImplementsContract == Contract!Spec
=============================================================================
