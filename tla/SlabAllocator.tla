---------------------------- MODULE SlabAllocator ----------------------------
(***************************************************************************)
(* lib/memory/slab.c.  A slab is an array of slots of slabSize bytes, with *)
(* a bitmap of the slots in use and a count of those that are not.  A      *)
(* block takes a run of consecutive slots of one slab; the header in front *)
(* of the block says which.  A shrink gives the end of the run back.       *)
(*                                                                         *)
(* "header" is the part of the slabs that still reads as the header of a   *)
(* block some client holds; clients fill their blocks as they get them,    *)
(* free and resize live blocks only, grow to at least and shrink to at     *)
(* most the length they have.                                              *)
(***************************************************************************)
EXTENDS Integers, Sequences, FiniteSets

CONSTANTS
  HeaderSize,    \* sizeof(struct cu_SlabAllocator_Header)
  DataOffset,    \* offsetof(struct cu_SlabAllocator_Slab, data)
  SlabSize,      \* alloc->slabSize
  DefaultCount,  \* CU_SLAB_DEFAULT_SIZE / slabSize, or 1 if that is 0
  Sizes,         \* the layout sizes clients ask for
  Aligns,        \* the layout alignments clients ask for
  Bases,         \* bound: the addresses slabs can have, as far as alignment goes
  MaxSlabs       \* bound: slabs the backing allocator can give

ConstantsOK ==
  /\ HeaderSize \in Nat \ {0} /\ DataOffset \in Nat
  /\ SlabSize \in Nat \ {0} /\ DefaultCount \in Nat \ {0}
  /\ Sizes \subseteq Nat /\ Aligns \subseteq Nat
  /\ Bases \subseteq Nat
  /\ MaxSlabs \in Nat

VARIABLES
  slabs,    \* the slabs, oldest first: the code's list starts at the last one
  header,   \* header[<<t, s>>]: the header at s - HeaderSize of slab t
  live      \* the blocks clients hold

vars == <<slabs, header, live>>

Header == [index : Nat, count : Nat]
Block == [slab : Nat, pos : Nat, len : Nat]

-----------------------------------------------------------------------------
(* Layout arithmetic                                                       *)

AlignUp(x, a) == (x + a - 1) - ((x + a - 1) % a)

DivCeil(x, y) == (x + y - 1) \div y

EffAlign(a) == IF a = 0 THEN 1 ELSE a

\* Mutant of Need: the padding is left out.
Need_NoPadding(size, align) == DivCeil(size + HeaderSize, SlabSize)

\* The slots a request takes, with its worst-case padding.
Need(size, align) == DivCeil(EffAlign(align) - 1 + size + HeaderSize, SlabSize)

\* Where the block starts in a slab at address "base", in the run that starts at
\* slot "index".  The address is aligned, not the offset: the slab itself is only
\* as aligned as the backing allocator makes it.
Start(base, index, align) ==
  LET data == base + DataOffset IN
  AlignUp(data + index * SlabSize + HeaderSize, EffAlign(align)) - data

Run(h) == h.index .. h.index + h.count - 1

Place(b) == <<b.slab, b.pos>>

End(b) == b.pos + b.len

\* The bytes from the block's start to the end of its run.
Room(h, b) == (h.index + h.count) * SlabSize - b.pos

\* The headers that survive a write to the bytes lo .. hi-1 of slab t.
Overwrite(hd, t, lo, hi) ==
  [q \in {r \in DOMAIN hd : r[1] # t \/ r[2] <= lo \/ hi <= r[2] - HeaderSize} |-> hd[q]]

Forget(hd, b) == [q \in DOMAIN hd \ {Place(b)} |-> hd[q]]

-----------------------------------------------------------------------------
(* Steps the operations are made of                                        *)

\* The slots of slab s where a run of n free slots starts.
Runs(s, n) == {i \in 0 .. s.slabCount - n : s.used \cap (i .. i + n - 1) = {}}

\* cu_find_run finds the first one.
FindRun(s, n) == CHOOSE i \in Runs(s, n) : \A j \in Runs(s, n) : i <= j

\* The slabs with room for a run of n slots.
Roomy(n) == {t \in DOMAIN slabs : slabs[t].freeCount >= n /\ Runs(slabs[t], n) # {}}

NewSlab(n, base) ==
  LET count == IF n > DefaultCount THEN n ELSE DefaultCount
  IN  [base |-> base, slabCount |-> count, used |-> {}, freeCount |-> count]

\* The slabs and the one a run of n slots is taken from: the newest with room, or
\* else a fresh one, if the backing allocator has it.
Placements(n) ==
  IF Roomy(n) # {}
  THEN {<<slabs, t>> : t \in {u \in Roomy(n) : \A v \in Roomy(n) : v <= u}}
  ELSE IF Len(slabs) < MaxSlabs
       THEN {<<Append(slabs, NewSlab(n, base)), Len(slabs) + 1>> : base \in Bases}
       ELSE {}

\* cu_slab_alloc that succeeds: what the allocator and the new block become.
Allocs(size, align) ==
  IF size = 0 \/ EffAlign(align) > SlabSize THEN {}
  ELSE LET n == Need(size, align) IN
       {LET t     == p[2]
            index == FindRun(p[1][t], n)
            start == Start(p[1][t].base, index, align)
            kept  == Overwrite(header, t, start - HeaderSize, start + size)
        IN  [slabs  |-> [p[1] EXCEPT ![t].used = @ \cup (index .. index + n - 1),
                                     ![t].freeCount = @ - n],
             header |-> [q \in DOMAIN kept \cup {<<t, start>>} |->
                           IF q = <<t, start>> THEN [index |-> index, count |-> n]
                           ELSE kept[q]],
             block  |-> [slab |-> t, pos |-> start, len |-> size]] : p \in Placements(n)}

\* Mutant of Freed: the count is left behind.
Freed_KeepsCount(ss, t, slots) == [ss EXCEPT ![t].used = @ \ slots]

\* Slots of slab t are given back.
Freed(ss, t, slots) ==
  [ss EXCEPT ![t].used = @ \ slots, ![t].freeCount = @ + Cardinality(slots)]

-----------------------------------------------------------------------------
(* The allocator's operations                                              *)

Init == slabs = <<>> /\ header = <<>> /\ live = {}

\* cu_slab_alloc, also reached by cu_slab_grow with a NULL block.
Alloc(size, align) ==
  \E a \in Allocs(size, align) :
    slabs' = a.slabs /\ header' = a.header /\ live' = live \cup {a.block}

\* CU_IO_ERROR_KIND_INVALID_INPUT, or the backing allocator refuses a new slab or
\* its bitmap, in which case the slab is given back.
AllocFails(size, align) ==
  /\ size = 0 \/ EffAlign(align) > SlabSize \/ Roomy(Need(size, align)) = {}
  /\ UNCHANGED vars

\* The run of b has room for size bytes behind the block's start.
HasRoom(b, size) == size <= Room(header[Place(b)], b)

\* cu_slab_grow where it is; the new layout's alignment is not looked at.
GrowInPlace(b, size) ==
  /\ size >= b.len /\ HasRoom(b, size)
  /\ header' = Overwrite(header, b.slab, b.pos, b.pos + size)
  /\ live' = (live \ {b}) \cup {[b EXCEPT !.len = size]}
  /\ UNCHANGED slabs

\* cu_slab_grow elsewhere: allocate, copy, then free the old run.
GrowByMove(b, size, align) ==
  /\ size >= b.len /\ ~HasRoom(b, size)
  /\ \E a \in Allocs(size, align) :
       /\ slabs' = Freed(a.slabs, b.slab, Run(header[Place(b)]))
       /\ header' = Forget(a.header, b)
       /\ live' = (live \cup {a.block}) \ {b}

\* The slots of run h that block b needs when it is size bytes long.
Kept(h, b, size) == DivCeil((b.pos - h.index * SlabSize) + size, SlabSize)

\* cu_slab_shrink: the slots behind the block's new end are given back.
Shrink(b, size) ==
  LET h == header[Place(b)]
      k == Kept(h, b, size)
  IN  /\ size <= b.len
      /\ slabs' = Freed(slabs, b.slab, h.index + k .. h.index + h.count - 1)
      /\ header' = [header EXCEPT ![Place(b)].count = IF k < @ THEN k ELSE @]
      /\ live' = (live \ {b}) \cup {[b EXCEPT !.len = size]}

\* cu_slab_free.
Free(b) ==
  /\ slabs' = Freed(slabs, b.slab, Run(header[Place(b)]))
  /\ header' = Forget(header, b)
  /\ live' = live \ {b}

\* cu_SlabAllocator_destroy.
Destroy == slabs' = <<>> /\ header' = <<>> /\ live' = {}

Next ==
  \/ \E size \in Sizes, align \in Aligns : Alloc(size, align) \/ AllocFails(size, align)
  \/ \E b \in live, size \in Sizes : GrowInPlace(b, size) \/ Shrink(b, size)
  \/ \E b \in live, size \in Sizes, align \in Aligns : GrowByMove(b, size, align)
  \/ \E b \in live : Free(b)
  \/ Destroy

Spec == Init /\ [][Next]_vars

-----------------------------------------------------------------------------
(* Properties                                                              *)

\* Slabs, headers and blocks are well formed, and used slots are slots.
TypeOK ==
  /\ \A t \in DOMAIN slabs :
       /\ slabs[t].base \in Bases
       /\ slabs[t].slabCount \in Nat /\ slabs[t].freeCount \in Nat
       /\ slabs[t].used \subseteq 0 .. slabs[t].slabCount - 1
  /\ \A q \in DOMAIN header : header[q] \in Header
  /\ live \subseteq Block
  /\ \A b \in live : b.slab \in DOMAIN slabs

\* A block, its header included, lies in the run its header names, and the header
\* survives whatever clients write: a run that was moved, cut short or given out
\* again never leaves a block outside of its slots.
BlocksInRuns ==
  /\ TypeOK
  /\ \A b \in live :
    /\ Place(b) \in DOMAIN header
    /\ LET h == header[Place(b)] IN
       /\ h.count > 0
       /\ h.index * SlabSize <= b.pos - HeaderSize
       /\ End(b) <= (h.index + h.count) * SlabSize

\* The bitmap, the count and the blocks agree: each used slot is in the run of one
\* block, no run holds a slot that is free, and what is not used is counted free.
RunsAccounted ==
  \A t \in DOMAIN slabs :
    LET s == slabs[t]
        B == {b \in live : b.slab = t}
    IN  /\ s.used = UNION {Run(header[Place(b)]) : b \in B}
        /\ \A b, d \in B : b # d => Run(header[Place(b)]) \cap Run(header[Place(d)]) = {}
        /\ s.freeCount = s.slabCount - Cardinality(s.used)

\* The slabs are an allocator.
Blocks == {[region |-> b.slab, pos |-> b.pos, len |-> b.len] : b \in live}

Contract == INSTANCE AllocatorContract WITH live <- Blocks

ImplementsContract == Contract!Spec
=============================================================================
