--------------------------- MODULE WasmAllocator ---------------------------
(***************************************************************************)
(* lib/memory/wasmallocator.c.  Slots of a power of two bytes: those below *)
(* a page are cut from pages, one class of size after the other, larger    *)
(* ones are runs of pages, which the memory is grown by.  A freed slot is  *)
(* put at the head of the list of its class; the link is in the last word  *)
(* of the slot, behind the block.  A header in front of a block says how   *)
(* large its slot is and how far it is from the start of it.               *)
(*                                                                         *)
(* Headers and links are in band: what clients write to their blocks       *)
(* destroys those it meets.  Clients fill their blocks as they get them,   *)
(* and free and resize live blocks only.                                   *)
(***************************************************************************)
EXTENDS Integers, FiniteSets

CONSTANTS
  PageSize,      \* CU_WASM_PAGE_SIZE, and CU_WASM_BIGPAGE_SIZE, which is the same
  WordSize,      \* sizeof(size_t)
  HeaderSize,    \* sizeof(struct cu_WasmAllocator_Header)
  MinClass,      \* CU_WASM_MIN_CLASS
  BigClassCount, \* CU_WASM_BIG_SIZE_CLASS_COUNT
  InitialPages,  \* the pages of static data; a page at address 0 is taken for none
  MaxPages,      \* bound: the pages the memory may be grown to
  MaxBlocks,     \* bound: the blocks clients hold at a time
  Sizes,         \* the layout sizes clients ask for
  Aligns         \* the layout alignments clients ask for

VARIABLES
  heap,   \* pages: the size of the memory; nextAddrs, frees, bigFrees: the arrays
          \* of these names; node: the links, header: the headers, by what they are
          \* in front of
  live,   \* the blocks clients hold
  fault   \* the program was trapped

vars == <<heap, live, fault>>

Block == [pos : Nat, len : Nat]

AlignUp(x, a) == (x + a - 1) - ((x + a - 1) % a)

Pow2[n \in Nat] == IF n = 0 THEN 1 ELSE 2 * Pow2[n - 1]

\* cu_log2_usize and cu_next_pow2.
Log2(x) == CHOOSE k \in 0 .. x : Pow2[k] <= x /\ x < Pow2[k + 1]
NextPow2(x) == Pow2[CHOOSE k \in 0 .. x : Pow2[k] >= x /\ (k = 0 \/ Pow2[k - 1] < x)]

ClassCount == Log2(PageSize) - MinClass

\* The class of the slots of a size; those from ClassCount on are of whole pages.
Class(slot) == Log2(slot) - MinClass
IsSmall(slot) == Class(slot) < ClassCount

UserOffset(align) == AlignUp(HeaderSize, IF align = 0 THEN 1 ELSE align)

Needed(size, align) == UserOffset(align) + size + WordSize

SlotSize(size, align) == NextPow2(Needed(size, align))

\* big_pages_needed and the rounding in alloc_big_pages.
Pages(needed) == NextPow2((needed + PageSize + WordSize - 1) \div PageSize)

\* A header is two words.  The array of the page classes has one for every layout.
ConstantsOK ==
  /\ WordSize \in Nat \ {0} /\ HeaderSize \in Nat
  /\ MinClass \in Nat /\ Pow2[MinClass] <= HeaderSize + WordSize
  /\ InitialPages \in Nat \ {0} /\ MaxPages \in Nat /\ MaxBlocks \in Nat
  /\ PageSize \in Nat /\ \E k \in 0 .. PageSize : k > MinClass /\ PageSize = Pow2[k]
  /\ Sizes \subseteq Nat /\ Aligns \subseteq Nat
  /\ BigClassCount \in Nat
  /\ \A size \in Sizes, align \in Aligns :
       Pages(Needed(size, align)) < Pow2[BigClassCount]

\* The last word of a slot.
Link(addr, slot) == addr + slot - WordSize

\* What is left of h once the bytes lo .. hi-1 were written.
Overwritten(h, lo, hi) ==
  LET nodes   == {x \in DOMAIN h.node : x + WordSize <= lo \/ hi <= x}
      headers == {p \in DOMAIN h.header : p <= lo \/ hi <= p - HeaderSize}
  IN  [h EXCEPT !.node = [x \in nodes |-> @[x]], !.header = [p \in headers |-> @[p]]]

Unlinked(h, x) == [h EXCEPT !.node = [y \in DOMAIN @ \ {x} |-> @[y]]]

Linked(h, x, next) ==
  LET o == Overwritten(h, x, x + WordSize)
  IN  [o EXCEPT !.node = [y \in DOMAIN @ \cup {x} |-> IF y = x THEN next ELSE @[y]]]

\* alloc_big_pages: the address, 0 if the memory cannot grow, and the heap after it.
TakePages(h, n) ==
  LET c == Log2(n)
      top == h.bigFrees[c]
      link == Link(top, n * PageSize)
  IN  IF top # 0
      THEN [addr |-> top, heap |-> Unlinked([h EXCEPT !.bigFrees[c] = h.node[link]], link)]
      ELSE IF h.pages + n <= MaxPages
      THEN [addr |-> h.pages * PageSize, heap |-> [h EXCEPT !.pages = @ + n]]
      ELSE [addr |-> 0, heap |-> h]

\* The slot cu_wasm_alloc takes below a page: off the list, else behind the one
\* that was cut last, else the first of a page.
TakeSmall(h, slot) ==
  LET c == Class(slot)
      top == h.frees[c]
      link == Link(top, slot)
      page == TakePages(h, 1)
  IN  IF top # 0
      THEN [addr |-> top, heap |-> Unlinked([h EXCEPT !.frees[c] = h.node[link]], link)]
      ELSE IF h.nextAddrs[c] % PageSize # 0
      THEN [addr |-> h.nextAddrs[c], heap |-> [h EXCEPT !.nextAddrs[c] = @ + slot]]
      ELSE IF page.addr # 0
      THEN [addr |-> page.addr, heap |-> [page.heap EXCEPT !.nextAddrs[c] = page.addr + slot]]
      ELSE page

Take(h, size, align) ==
  IF IsSmall(SlotSize(size, align))
  THEN TakeSmall(h, SlotSize(size, align))
  ELSE TakePages(h, Pages(Needed(size, align)))

\* cu_wasm_alloc: the new block and the heap once its header was written and the
\* client has filled it.
Allocated(h, size, align) ==
  LET taken  == Take(h, size, align)
      offset == UserOffset(align)
      pos    == taken.addr + offset
      kept   == Overwritten(taken.heap, pos - HeaderSize, pos + size)
  IN  [ok    |-> size # 0 /\ taken.addr # 0,
       block |-> [pos |-> pos, len |-> size],
       heap  |-> [kept EXCEPT !.header =
                    [p \in DOMAIN @ \cup {pos} |->
                       IF p = pos
                       THEN [offset |-> offset - HeaderSize, slot |-> SlotSize(size, align)]
                       ELSE @[p]]]]

\* The slot of a block, as the header in front of it has it.
SlotOf(h, b) ==
  [addr |-> b.pos - (h.header[b.pos].offset + HeaderSize), size |-> h.header[b.pos].slot]

\* cu_wasm_free: the heap after it.
Freed(h, b) ==
  LET slot == SlotOf(h, b)
      link == Link(slot.addr, slot.size)
      c    == IF IsSmall(slot.size) THEN Class(slot.size) ELSE Log2(slot.size \div PageSize)
      gone == [h EXCEPT !.header = [p \in DOMAIN @ \ {b.pos} |-> @[p]]]
  IN  IF IsSmall(slot.size)
      THEN [Linked(gone, link, h.frees[c]) EXCEPT !.frees[c] = slot.addr]
      ELSE [Linked(gone, link, h.bigFrees[c]) EXCEPT !.bigFrees[c] = slot.addr]

Init ==
  /\ heap = [pages     |-> InitialPages,
             nextAddrs |-> [c \in 0 .. ClassCount - 1 |-> 0],
             frees     |-> [c \in 0 .. ClassCount - 1 |-> 0],
             bigFrees  |-> [c \in 0 .. BigClassCount - 1 |-> 0],
             node      |-> <<>>, header |-> <<>>]
  /\ live = {} /\ fault = FALSE

\* cu_wasm_alloc, also reached by cu_wasm_grow without a block.
Alloc(size, align) ==
  LET new == Allocated(heap, size, align)
  IN  /\ new.ok /\ Cardinality(live) < MaxBlocks
      /\ heap' = new.heap
      /\ live' = live \cup {new.block}
      /\ UNCHANGED fault

\* INVALID_INPUT or OUT_OF_MEMORY.
AllocFails(size, align) == ~Allocated(heap, size, align).ok /\ UNCHANGED vars

\* Mutant of FitsSlot: the block may reach to the end of its slot.
FitsSlot_WholeSlot(b, size, align) ==
  /\ b.pos % align = 0
  /\ heap.header[b.pos].offset + HeaderSize + size <= heap.header[b.pos].slot

\* Whether cu_wasm_grow and cu_wasm_shrink leave the block where it is.
FitsSlot(b, size, align) ==
  /\ b.pos % align = 0
  /\ heap.header[b.pos].offset + HeaderSize + size + WordSize <= heap.header[b.pos].slot

\* cu_wasm_grow and cu_wasm_shrink within the slot, even to nothing.
ResizeInPlace(b, size, align) ==
  /\ align # 0 /\ FitsSlot(b, size, align)
  /\ heap' = Overwritten(heap, b.pos, b.pos + size)
  /\ live' = (live \ {b}) \cup {[b EXCEPT !.len = size]}
  /\ UNCHANGED fault

\* cu_wasm_grow and cu_wasm_shrink to another slot.
ResizeByMove(b, size, align) ==
  LET new == Allocated(heap, size, align)
  IN  /\ align # 0 /\ ~FitsSlot(b, size, align)
      /\ new.ok
      /\ heap' = Freed(new.heap, b)
      /\ live' = (live \cup {new.block}) \ {b}
      /\ UNCHANGED fault

\* An alignment of 0, which alloc takes for 1, is divided by.
ResizeTraps(b, align) ==
  /\ b \in live /\ align = 0
  /\ fault' = TRUE
  /\ UNCHANGED <<heap, live>>

\* cu_wasm_free.
Free(b) ==
  /\ heap' = Freed(heap, b)
  /\ live' = live \ {b}
  /\ UNCHANGED fault

Next ==
  /\ ~fault
  /\ \/ \E size \in Sizes, align \in Aligns : Alloc(size, align) \/ AllocFails(size, align)
     \/ \E b \in live, size \in Sizes, align \in Aligns :
          ResizeInPlace(b, size, align) \/ ResizeByMove(b, size, align)
     \/ \E b \in live, align \in Aligns : ResizeTraps(b, align)
     \/ \E b \in live : Free(b)

Spec == Init /\ [][Next]_vars

-----------------------------------------------------------------------------
(* Properties                                                              *)

\* The slot after addr in a list of slots of a size; a link that was overwritten
\* leads nowhere.
After(slot) ==
  [addr \in Nat |->
     IF addr = 0 THEN 0
     ELSE IF Link(addr, slot) \in DOMAIN heap.node THEN heap.node[Link(addr, slot)]
     ELSE addr]

\* The slots of the list that begins with top, 0 behind the last one.
List(top, slot) ==
  LET list[n \in Nat] == IF n = 0 THEN top ELSE After(slot)[list[n - 1]]
  IN  {list[n] : n \in 0 .. Cardinality(DOMAIN heap.node)}

\* The parts of the memory somebody owns: the slots of blocks, the slots of the
\* lists, and what no slot was cut from yet of the last page of each class.
Parts ==
  {[owner |-> <<"block", b.pos>>, lo |-> SlotOf(heap, b).addr,
    hi |-> SlotOf(heap, b).addr + SlotOf(heap, b).size] : b \in live}
  \cup (UNION {
    {[owner |-> <<"free", c>>, lo |-> addr, hi |-> addr + Pow2[c + MinClass]] :
       addr \in List(heap.frees[c], Pow2[c + MinClass]) \ {0}} : c \in DOMAIN heap.frees})
  \cup (UNION {
    {[owner |-> <<"pages", c>>, lo |-> addr, hi |-> addr + Pow2[c] * PageSize] :
       addr \in List(heap.bigFrees[c], Pow2[c] * PageSize) \ {0}} : c \in DOMAIN heap.bigFrees})
  \cup {[owner |-> <<"rest", c>>, lo |-> heap.nextAddrs[c],
         hi |-> AlignUp(heap.nextAddrs[c], PageSize)] :
          c \in {d \in DOMAIN heap.nextAddrs : heap.nextAddrs[d] % PageSize # 0}}

\* Nothing is owned twice, through slots of whole pages that were reused for small
\* ones, moves, and links and headers written between the blocks: blocks keep their
\* headers, leave the last word of their slot alone, and lists end.
SlotsApart ==
  /\ \A b \in live : b.pos \in DOMAIN heap.header
  /\ \A b \in live :
       b.pos + b.len <= Link(SlotOf(heap, b).addr, SlotOf(heap, b).size)
  /\ \A p \in Parts : InitialPages * PageSize <= p.lo /\ p.hi <= heap.pages * PageSize
  /\ \A p, q \in Parts : p = q \/ p.hi <= q.lo \/ q.hi <= p.lo
  /\ \A c \in DOMAIN heap.frees : 0 \in List(heap.frees[c], Pow2[c + MinClass])
  /\ \A c \in DOMAIN heap.bigFrees : 0 \in List(heap.bigFrees[c], Pow2[c] * PageSize)

\* The memory is an allocator.
Blocks == {[region |-> 0, pos |-> b.pos, len |-> b.len] : b \in live}

Contract == INSTANCE AllocatorContract WITH live <- Blocks

ImplementsContract == Contract!Spec
=============================================================================
