--------------------------- MODULE ArenaAllocator ---------------------------
(***************************************************************************)
(* lib/memory/arenaallocator.c.  An arena is a list of chunks, the newest  *)
(* first; each chunk is a bump allocator that remembers, in a header       *)
(* written just before every block, the value "used" had before the block. *)
(* Freeing the block on top of a chunk pops it; freeing any other block    *)
(* does nothing.                                                           *)
(*                                                                         *)
(* The header lives in the chunk's own bytes, between the clients' blocks. *)
(* A client writes all the bytes of a block as soon as it gets them, so a  *)
(* header that shares a byte with a block is lost: "header" is the part of *)
(* the chunks' memory that still reads as a header.  The header of a block *)
(* that is gone is never read again and is forgotten.                      *)
(*                                                                         *)
(* Clients make legal calls: they free and resize live blocks only, and    *)
(* shrink to at most the length they have.                                 *)
(***************************************************************************)
EXTENDS Integers, Sequences

CONSTANTS
  HeaderSize,   \* sizeof(struct cu_ArenaAllocator_Header)
  DataOffset,   \* offsetof(struct cu_ArenaAllocator_Chunk, data)
  ChunkSize,    \* arena->chunkSize
  Sizes,        \* the layout sizes clients ask for
  Aligns,       \* the layout alignments clients ask for
  MaxChunks     \* bound: chunks the backing allocator can give

ASSUME HeaderSizeAssumption == HeaderSize \in Nat \ {0}
ASSUME DataOffsetAssumption == DataOffset \in Nat
ASSUME ChunkSizeAssumption  == ChunkSize \in Nat \ {0}
ASSUME SizesAssumption      == Sizes \subseteq Nat
ASSUME AlignsAssumption     == Aligns \subseteq Nat
ASSUME MaxChunksAssumption  == MaxChunks \in Nat

VARIABLES
  chunks,   \* the chunk list, oldest first: arena->current is the last one
  header,   \* header[<<t, s>>]: prev_offset in the header at s - HeaderSize of chunk t
  live      \* the blocks clients hold

vars == <<chunks, header, live>>

Chunk == [size : Nat, used : Nat]
Block == [chunk : Nat, pos : Nat, len : Nat, align : Nat]

-----------------------------------------------------------------------------
(* Layout arithmetic                                                       *)

\* CU_ALIGN_UP: the low bits of x + a - 1 are masked off.
AlignUp(x, a) == (x + a - 1) - ((x + a - 1) % a)

\* cu_arena_alloc replaces an alignment of 0 by 1.
EffAlign(a) == IF a = 0 THEN 1 ELSE a

\* Mutant of Start: only half the header is made room for.
Start_HalfHeader(c, align) == AlignUp(c.used + (HeaderSize \div 2), EffAlign(align))

\* What is aligned is the offset into the chunk's data.
Start(c, align) == AlignUp(c.used + HeaderSize, EffAlign(align))

Fits(c, size, align) == Start(c, align) + size <= c.size

\* Mutant of Needed: the header is left out.
Needed_NoHeader(size, align) == EffAlign(align) - 1 + size

\* A chunk made for a request is at least as big as its worst-case padding.
Needed(size, align) == EffAlign(align) - 1 + size + HeaderSize

NewChunk(size, align) ==
  [size |-> IF Needed(size, align) > ChunkSize THEN Needed(size, align) ELSE ChunkSize,
   used |-> 0]

End(b) == b.pos + b.len

Place(b) == <<b.chunk, b.pos>>

OnTop(cs, b) == End(b) = cs[b.chunk].used

-----------------------------------------------------------------------------
(* The bytes of the chunks                                                 *)

\* The headers that survive a write to the bytes lo .. hi-1 of chunk t.
Overwrite(hd, t, lo, hi) ==
  [q \in {r \in DOMAIN hd : r[1] # t \/ r[2] <= lo \/ hi <= r[2] - HeaderSize} |-> hd[q]]

\* A header is written in front of place q.
PutHeader(hd, q, prev) ==
  [r \in DOMAIN hd \cup {q} |-> IF r = q THEN prev ELSE hd[r]]

Forget(hd, b) == [q \in DOMAIN hd \ {Place(b)} |-> hd[q]]

-----------------------------------------------------------------------------
(* Steps the operations are made of                                        *)

\* The chunk list and the chunk a request is served from: the newest chunk
\* with room, or else a fresh chunk if the backing allocator has one.
Fitting(size, align) == {t \in DOMAIN chunks : Fits(chunks[t], size, align)}

Placements(size, align) ==
  IF Fitting(size, align) # {}
  THEN {<<chunks, t>> : t \in {u \in Fitting(size, align) :
                                 \A v \in Fitting(size, align) : v <= u}}
  ELSE IF Len(chunks) < MaxChunks
       THEN {<<Append(chunks, NewChunk(size, align)), Len(chunks) + 1>>}
       ELSE {}

NewBlock(cs, t, size, align) ==
  [chunk |-> t, pos |-> Start(cs[t], align), len |-> size, align |-> EffAlign(align)]

\* "used" is bumped over a new block of chunk t ...
Bump(cs, t, size, align) == [cs EXCEPT ![t].used = Start(cs[t], align) + size]

\* Mutant of BumpHeader: the header restores 0.
BumpHeader_PrevZero(cs, hd, t, size, align) ==
  LET start == Start(cs[t], align) IN
  PutHeader(Overwrite(hd, t, start - HeaderSize, start + size), <<t, start>>, 0)

\* ... whose header is written, and whose bytes the client fills.
BumpHeader(cs, hd, t, size, align) ==
  LET start == Start(cs[t], align) IN
  PutHeader(Overwrite(hd, t, start - HeaderSize, start + size), <<t, start>>,
            cs[t].used)

\* cu_arena_free on a chunk list: pop the block if it is on top.
Freed(cs, hd, b) ==
  IF OnTop(cs, b) THEN [cs EXCEPT ![b.chunk].used = hd[Place(b)]] ELSE cs

-----------------------------------------------------------------------------
(* The allocator's operations                                              *)

Init == chunks = <<>> /\ header = <<>> /\ live = {}

\* cu_arena_alloc, also reached by cu_arena_grow with a NULL block.
Alloc(size, align) ==
  /\ size # 0
  /\ \E p \in Placements(size, align) :
       /\ chunks' = Bump(p[1], p[2], size, align)
       /\ header' = BumpHeader(p[1], header, p[2], size, align)
       /\ live' = live \cup {NewBlock(p[1], p[2], size, align)}

\* CU_IO_ERROR_KIND_INVALID_INPUT for a size of 0; CU_IO_ERROR_KIND_OUT_OF_MEMORY
\* when no chunk has room and the backing allocator refuses a new one.
AllocFails(size, align) ==
  /\ size = 0 \/ Fitting(size, align) = {}
  /\ UNCHANGED vars

\* Mutant of RoomInPlace: a block that is not on top is grown where it is.
RoomInPlace_Anywhere(b, size) ==
  size <= b.len + (chunks[b.chunk].size - chunks[b.chunk].used)

\* The block can be resized to size where it is.
RoomInPlace(b, size) ==
  /\ OnTop(chunks, b)
  /\ size <= b.len + (chunks[b.chunk].size - chunks[b.chunk].used)

\* cu_arena_grow, in place; the new layout's alignment is not looked at.
GrowInPlace(b, size) ==
  /\ RoomInPlace(b, size)
  /\ chunks' = [chunks EXCEPT ![b.chunk].used = b.pos + size]
  /\ header' = Overwrite(header, b.chunk, b.pos, b.pos + size)
  /\ live' = (live \ {b}) \cup {[b EXCEPT !.len = size]}

\* cu_arena_grow, elsewhere: allocate, copy, then free the old block.
GrowByMove(b, size, align) ==
  /\ ~RoomInPlace(b, size)
  /\ size # 0
  /\ \E p \in Placements(size, align) :
       LET cs == Bump(p[1], p[2], size, align)
           hd == BumpHeader(p[1], header, p[2], size, align)
       IN /\ chunks' = Freed(cs, hd, b)
          /\ header' = Forget(hd, b)
          /\ live' = (live \cup {NewBlock(p[1], p[2], size, align)}) \ {b}

\* cu_arena_shrink to something: the tail is given back if the block is on top.
ShrinkTo(b, size) ==
  /\ 0 < size /\ size <= b.len
  /\ chunks' = IF OnTop(chunks, b)
               THEN [chunks EXCEPT ![b.chunk].used = b.pos + size]
               ELSE chunks
  /\ live' = (live \ {b}) \cup {[b EXCEPT !.len = size]}
  /\ UNCHANGED header

\* cu_arena_shrink to 0: "used" drops to the block's start first, so the free
\* that follows finds the block on top only if it was empty already.
ShrinkToNothing(b) ==
  /\ chunks' = Freed(IF OnTop(chunks, b)
                     THEN [chunks EXCEPT ![b.chunk].used = b.pos]
                     ELSE chunks, header, b)
  /\ header' = Forget(header, b)
  /\ live' = live \ {b}

\* cu_arena_free.
Free(b) ==
  /\ chunks' = Freed(chunks, header, b)
  /\ header' = Forget(header, b)
  /\ live' = live \ {b}

\* cu_ArenaAllocator_destroy: every chunk goes back to the backing allocator
\* and every block dies; the arena can be used again.
Destroy == chunks' = <<>> /\ header' = <<>> /\ live' = {}

Next ==
  \/ \E size \in Sizes, align \in Aligns :
       \/ Alloc(size, align)
       \/ AllocFails(size, align)
  \/ \E b \in live, size \in Sizes : GrowInPlace(b, size)
  \/ \E b \in live, size \in Sizes, align \in Aligns : GrowByMove(b, size, align)
  \/ \E b \in live, size \in Sizes : ShrinkTo(b, size)
  \/ \E b \in live : ShrinkToNothing(b) \/ Free(b)
  \/ Destroy

Spec == Init /\ [][Next]_vars

-----------------------------------------------------------------------------
(* Properties                                                              *)

\* Every chunk and every block is well formed, and blocks are in chunks that
\* exist.
TypeOK ==
  /\ chunks \in Seq(Chunk)
  /\ \A q \in DOMAIN header : header[q] \in Nat
  /\ live \subseteq Block
  /\ \A b \in live : b.chunk \in DOMAIN chunks

\* A chunk never hands out bytes past its end, a fresh oversized chunk always
\* has room for the request it was made for, and no block reaches above the
\* "used" mark, where the next block will be put.
WithinChunk ==
  /\ \A t \in DOMAIN chunks : chunks[t].used <= chunks[t].size
  /\ \A b \in live : HeaderSize <= b.pos /\ End(b) <= chunks[b.chunk].used

\* The header of every live block still reads as it was written, whatever the
\* clients wrote to their own blocks and whatever was freed in between, and it
\* would put "used" back below that header.
HeadersIntact ==
  \A b \in live :
    /\ Place(b) \in DOMAIN header
    /\ header[Place(b)] + HeaderSize <= b.pos

\* Two live blocks of a chunk share no byte, headers included.
BlocksApart ==
  \A b, d \in live :
    (b # d /\ b.chunk = d.chunk) =>
      End(b) <= d.pos - HeaderSize \/ End(d) <= b.pos - HeaderSize

\* Popping a block uncovers no live block: every other block of its chunk
\* either ends at or below the mark its header restores, or was put above it
\* and would be restored above it.
PopIsSafe ==
  \A b, d \in live :
    (b # d /\ b.chunk = d.chunk) =>
      \/ End(d) <= header[Place(b)]
      \/ End(b) <= header[Place(d)]

\* A block's address is a multiple of the alignment it was asked with.  A chunk
\* is obtained with the largest alignment of a fundamental type and the
\* alignments clients ask for divide it, so that the address is aligned just
\* if its distance from the chunk's own first byte is.  The code does not see to
\* it: it aligns the offset into the data, which lie behind the chunk's header.
AddressAligned ==
  \A b \in live : (DataOffset + b.pos) % b.align = 0

\* The inductive invariant.
IInv == TypeOK /\ WithinChunk /\ HeadersIntact /\ PopIsSafe

\* The arena is an allocator: the blocks clients hold follow the contract.
Blocks == {[region |-> b.chunk, pos |-> b.pos, len |-> b.len] : b \in live}

Contract == INSTANCE AllocatorContract WITH live <- Blocks

ImplementsContract == Contract!Spec
=============================================================================
