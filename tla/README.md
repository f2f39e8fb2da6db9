# libcute in TLA+

A verification development kept beside libcute, a C11 library of allocators,
collections, streams and strings. It holds TLA+ modules translated from the C
source, TLC configurations that check them on small instances, and theorems
about them that the TLA+ proof system (TLAPS) checks for every instance.

The library is single-threaded: no locks, atomics or callbacks into other
threads, nothing persisted. What makes it hard is of another kind: long
sequences of legal calls over state kept twice (a bitmap and a count, a header
in band and a mark out of band), failures in the middle of an operation (the
allocator refuses, a write fails), index arithmetic at wrap-around and
alignment boundaries, and raw memory that another part of the program may
overwrite. The hazards are listed, each at its line, in `PROJECT.json`.

## 1. Inventory

| component | state it keeps | operations | what makes it correct |
|---|---|---|---|
| Allocator interface (`include/memory/allocator.h`) | a vtable | alloc, grow, shrink, free | blocks handed out are disjoint; a failed call changes nothing |
| `ArenaAllocator` | chunk list; `used` per chunk; an in-band header before each block with the previous mark | alloc, grow, shrink, free, destroy | blocks and headers never overlap; popping the top block uncovers no live one; addresses aligned (refuted) |
| `FixedAllocator` | one buffer, one `used`, the same kind of header | the same, and reset | the same, although moved blocks are abandoned |
| `GPAllocator` | per size class a doubly linked list of buckets, each with a bitmap and a count; a doubly linked list of large objects | alloc, grow, shrink, free, destroy | lists stay lists; bitmap, count and blocks agree; empty buckets go back |
| `SlabAllocator` | list of slabs, each with a bitmap and a free count; a header before each block | the same | runs of slots disjoint; bitmap, count, headers agree |
| `CAllocator`, `WasmAllocator`, `PageAllocator` | none (malloc), free lists per class, none (mmap) | the same | the interface's contract |
| `Bitmap`, `Bitset` | bits | get, set, clear | used through GPAllocator and SlabAllocator |
| `RingBuffer` | slots, `head`, `length`, `capacity` | create, push, pop, clear, destroy | a bounded queue; each element destroyed once |
| `Vector` | cells, `length`, `capacity` | push and pop at both ends, resize, reserve, clear, copy, destroy | a sequence; each element destroyed once; growth and shrinking do not alternate |
| `HashMap` | buckets, `length`, `capacity` | create, insert (with rehash), get, iterate, destroy | a map; probes end; every pair reachable |
| `SkipList` | head, `level`, towers of forward pointers | create, insert, find, remove, iterate, destroy | a map; every lane sorted and complete |
| `List`, `DList` | linked nodes | insert, remove, iterate | a sequence |
| `FStream` (buffered) | direction, ring buffer, file descriptor | open, read, write, flush, seek, tell, close | buffering is invisible |
| `MemStream`, `Stream` | a vector and an offset; a vtable | the same | the same contract |
| `File`, `Dir`, `fd` | descriptors | POSIX calls | pass-through |
| `String`, `StrBuilder`, `fmt` | a growable byte buffer | append, slice, format | bytes; growth as in Vector |
| `Rc`, `Optional`, `Result`, destructors | type-generic macros, a count | clone, drop, ... | released once |
| hashing, runtime support | none | pure functions | |

They interact by calls only. Collections and the GPA, slab and arena
allocators take memory from a *backing* allocator behind the vtable and must
cope with its refusals; `FStream` keeps its bytes in a `RingBuffer` and moves
them to a `File`; destructors are callbacks that a collection runs on elements
it drops.

## 2. Modules and the code

Abstract specifications, what clients are promised:

* **AllocatorContract**: a set of pairwise disjoint live blocks; a call obtains
  one, resizes one in place over bytes nobody holds, moves one, or releases
  some. It sees blocks as a set, so it alone cannot notice that the identical
  block was handed out twice; SlotsAreBlocks, RunsAccounted, SlotsApart and
  SystemMemoryOwned do, and for the arena the theorem ArenaSafety. Its
  `SlidingSpec` also lets a block move over part of its own old bytes, as the
  allocator over malloc does.
* **BoundedFifo**, **ElementSequence** (its `InsertingSpec` also takes elements
  in between), **KeyValueMap**, **ByteStream** (with **FileBytes**, the external
  file; its `CallsSpec` moves the bytes of a call at once), **Text**: a bounded
  queue, a sequence, a map, a stream without a buffer, strings.

Detailed modules, one action per operation and outcome:

* **ArenaAllocator** - `lib/memory/arenaallocator.c`. `chunks` is the chunk
  list, oldest first; `header` the in-band headers that still read as such
  (a client overwrites all the bytes of its block, so a header under a block is
  lost); `live` the clients' blocks. `Alloc`, `GrowInPlace`, `GrowByMove`,
  `ShrinkTo`, `ShrinkToNothing`, `Free`, `Destroy` are the callbacks.
* **FixedAllocator** - `lib/memory/fixedallocator.c`, the same state for one
  buffer. `AfterMove` is the branch of `cu_fixed_grow` that pops the old block
  after the copy. It turns out not to be reachable with a different mark: a
  block that cannot grow in place because it is not on top is not on top after
  the move either, and one on top without room finds none elsewhere.
* **GPAllocator** - `lib/memory/gpallocator.c` with
  `lib/collection/bitmap.c`. `gpa.node` are buckets and records by address,
  `gpa.heads`, `gpa.tails`, `gpa.largeAllocs` the lists, `gpa.held` the blocks
  held from the backing allocator. The backing allocator is external: it gives
  the first free region (which region it is makes no difference to the code)
  or refuses; when it refuses the second of two blocks, a bitmap or the record
  of a large object, the first is given back (`SecondRefused`); like `cu_Allocator_CAllocator` it keeps a block shrunk to zero.
* **SlabAllocator** - `lib/memory/slab.c`. `slabs` with bitmap (`used`) and
  `freeCount`, `header` as in the arena, naming a run of slots. Slots are cut
  by address: `base` says where the backing allocator put the slab, which is
  asked for with the alignment of `max_align_t` only, so that the padding in
  front of a block may differ from slab to slab.
* **WasmAllocator** - `lib/memory/wasmallocator.c`. `heap` holds the three
  arrays of the code, the size of the memory, the headers by what they are in
  front of, and the links (`node`), each in the last word of a free slot. A
  header or link that a block, a header or another link is written over is
  gone from `heap`, and a list that needs it is broken. The code takes
  address 0 for "no page"; the first pages hold static data, so no slot is
  there.
* **CAllocator** - `lib/memory/allocator.c`, the allocator over malloc. `raws`
  are the raw blocks, `stored` the pointers kept in front of blocks. malloc and
  realloc are external: any aligned free place, or none; realloc may leave the
  raw block, move it and free the old place, or refuse. `kept` says whether the
  bytes of resized blocks came along.
* **PageAllocator** - `lib/memory/page.c` over mmap and munmap.
* **RingBuffer** - `lib/collection/ring_buffer.c`. Each element is pushed once,
  so that destructor runs can be counted. A push into a buffer of capacity 0
  computes an index modulo 0; the model ends there (`fault`).
* **Vector** - `lib/collection/vector.c`. Growth, shrinking, both ends.
* **List**, **DList** - `lib/collection/list.c`, `lib/collection/dlist.c`.
  Nodes are named by their elements, `next` and `prev` are their pointers;
  `After` is where `cu_List_iter` and `cu_DList_iter` take a cursor.
* **HashMap** - `lib/collection/hashmap.c`. Buckets, rehash, inserts that run
  out of memory after they marked a bucket, probes that never end (`hung`).
* **SkipList** - `lib/collection/skip_list.c`. `forward[n][i]` are the towers;
  the random height is any height; `Update` is the search both insert and
  remove start with, and find without its record.
* **FStream** - `lib/io/fstream.c` with the part of `lib/io/file.c` it uses. A
  read or write call moves a byte at a time; its iterations are the actions,
  so that a fault can come between any two. `WriteOffset` is where the system
  puts the bytes of a flush: at the descriptor's offset or, for a file opened
  to append, at the end; ByteStream has the same choice (`PutPos`). The buffer
  may have size 0: a read is then refused (`FillRefused`), the first write
  takes an index modulo 0 (`PushFaults`). A seek that `lseek` refuses, for a
  target before the file or a file that cannot be moved in, has flushed and
  dropped the buffer by then (`SeekResults`).
* **MemStream** - `lib/io/memstream.c` with the vector calls it makes. A call
  is one action. A write of no bytes to a stream without memory unwraps an
  empty optional; the model ends there (`fault`).
* **String** - `lib/string/string.c`. `data` are the cells of the block. An
  append of a slice of the string to itself while the block moves reads freed
  memory: the bytes or garbage (`lost`). An append of no bytes to a string that
  has no block stores through the null pointer (`fault`).
* **Rc** - `include/object/rc.h`. Handles, containers, counts. The destruction
  of an empty handle dereferences the null pointer (`fault`).

`MCArenaAllocator` and `MCHashMap` give single modules to TLC. The others join modules that are alternatives to one another: `MCAllocators`
(FixedAllocator, WasmAllocator, CAllocator, PageAllocator), `MCPools`
(GPAllocator, SlabAllocator), `MCMaps` (HashMap, SkipList), `MCStreams`
(FStream, MemStream), `MCSequences` (Vector, DList, List, RingBuffer),
`MCStringsAndHandles` (String, Rc). Such a run explores each of its modules
from its initial states, one per behaviour (`active`): they share no state in
the code, so steps of both in one behaviour would only multiply the states.

`*Proofs` hold the theorems: `ArenaAllocatorProofs` about the module of that
name, `RingBufferProofs` about the ring buffer of `MCSequences` and
`SequencesProofs` about the other collections there, `AllocatorsProofs`,
`StringsAndHandlesProofs`, `StreamsProofs`, `MapsProofs` and `PoolsProofs` about
the modules joined in `MCAllocators`, `MCStringsAndHandles`, `MCStreams`,
`MCMaps` and `MCPools`. What those MC modules give their instances
are CONSTANTS of their own (`WasmPageSize`, `RawAlign`, `ListKey`, `MaxLevel`,
`Capacities`, `OOM`, `Stranger`, `SlabSize`, ...), so the theorems are not about
the values of the `.cfg` files.

Numbers are unbounded naturals where the code has `size_t`: sizes near
`SIZE_MAX`, where sums wrap, are outside of the models (a listed hazard).
Clients make legal calls: they free, resize and shrink blocks they hold.

## 3. What the runs check

| run | bounds | what it shows |
|---|---|---|
| `arena` | header 4, data at 6, chunks of 12, sizes 0, 1, 9 (9 does not fit a chunk beside its header), alignments 0 and 2 (odd sizes, so that padding occurs), two chunks | blocks, headers and the pop of a top block never damage one another; the arena implements AllocatorContract |
| `allocators` | *fixed*: header 2, buffer of 17, sizes 0, 1, 3, 4, alignments 0, 4: up to four small blocks, and a buffer that is filled to the end. *WASM*: pages of 16 words, slots of 4 and 8 and of pages, three pages beside the static one, three blocks; one size takes two pages for its last word, one page is freed whole and cut up again. *malloc*: 14 words, aligned to two, blocks of up to 3 words. *mmap*: four pages of two words | blocks, headers, links and raw blocks never damage one another, with abandoned blocks, resets, moves and refusals; what malloc and mmap gave has one owner and goes back; all implement AllocatorContract. Deadlock is not checked: a resize to alignment 0 divides by it and ends the program (`wasmallocator.c:140`) |
| `pools` | *gpa*: buckets of 4 bytes, classes 1, 2, 4 and large objects of 8, four regions: up to four buckets in one list (head, middle, end), two lists at once, or large objects that are moved; the backing allocator may refuse any request. *slab*: slots of 4, header 3, data at 2 (so that padding occurs), slabs of two slots or as many as a request needs, two slabs, at even and odd addresses | list surgery, bitmap and count, nothing hoarded; bitmap, count, headers and blocks agree when runs are cut short, moved and reused; both implement AllocatorContract |
| `streams` | *file*: buffer of two bytes or none, file of up to four, opened to truncate or append or neither, calls of one to three bytes, seeks by up to four bytes forwards and back, memory, reads, writes and seeks failing at any point. *memory*: streams made with no cell or two, calls of up to three bytes, refused growth | until an operation reports an error, buffering is invisible; both streams implement ByteStream; calls end. Deadlock is not checked: in memory the write of no bytes, to a file one with a buffer of size 0, ends the program |
| `maps` | *hash table*: three keys of which two collide, tables of up to 8 buckets, any allocation refused. The least capacity is 4 instead of 16, so that a rehash happens with three keys. *skip list*: four keys, towers of up to three levels, failed inserts | pairs reachable, lengths count, probes end unless an insert failed; every lane sorted and complete; both implement KeyValueMap |
| `sequences` | five elements; arrays of up to 4 cells, reallocations refused, pop_front of one element only; lists of up to five nodes, insertions after and before any node, one before a node of another list; ring buffers of 0 to 3 slots | vector and lists implement ElementSequence; no relinking loses a node; iterations in progress meet what is inserted; ring buffers implement BoundedFifo, through wrap-around and re-creation; each element destroyed once. Deadlock is not checked: a push to a ring buffer without slots ends the program |
| `strings_and_handles` | two strings of up to three bytes, literals of no and two bytes, every slice of either; four handles, three containers | terminators and capacities stay right; strings implement Text; handles and counts agree. Deadlock is not checked: an empty handle destroyed, or nothing appended to a string without a block, ends the program |
| `arena_alignment` | one unit is 4 bytes: chunk data at 24 bytes, as on a 64-bit target, a block of 4 bytes aligned to 16 | **violated**: the arena rounds up the offset into the chunk's data, so the block lies at 40 (`tests/test_slab_allocator.c:133-134` for the interface) |
| `fstream_tell` | buffer of two bytes, file of up to three, without faults | **violated**: `cu_Stream_tell` of a buffered stream is the descriptor's offset, not the bytes written (`tests/test_stream.c:132-138` for the interface) |
| `hashmap_ghost` | as `maps` | **violated**: an insert without memory leaves a bucket `used` that holds nothing (`hashmap.h:17`) |
| `vector_pop_front` | three elements, pop_front of any number of elements | **violated**: `cu_Vector_pop_front` of two or more elements leaves in the vector the one it hands out (`vector.h:79`) |
| `c_allocator_grow` | as `allocators` | **violated**: when realloc moves a raw block, `cu_CAllocator_Grow` copies its bytes once more from the place that was freed (`tests/test_string.c:27-30`) |

`sequences` limits pop_front of the vector to one element because the code
corrupts the vector otherwise, which is what `vector_pop_front` shows; with the
limit the other operations are checked against the sequence. Bytes of blocks are
not part of AllocatorContract, so that `allocators` is not disturbed by what
`c_allocator_grow` shows.

The bounds are small but every action of every module fires, and each property
is broken by a plausible fault in the code it is about: the modules keep, next
to a definition, a *mutant* of it (`Freed_KeepsCount`, `Start_HalfHeader`, ...)
and `PROJECT.json` says which property each one violates. What grows with the
bounds is repetition: a third chunk is to the second what the second is to the
first, a fourth bucket is a second middle one.

The properties relate two records of the same fact or a state to an earlier
one: `PopIsSafe` (a header's mark and every other block of the chunk),
`RunsAccounted` and `SlotsAreBlocks` (bitmap, count, blocks), `SlotsApart`
(blocks, the lists that run through free memory, what was not cut up yet),
`SystemMemoryOwned` (raw blocks or pages, and the blocks in them),
`NothingHoarded` (what is held and what the lists reach), `ReadsAhead` (buffer,
file, offset), `PairsReachable` (a bucket and the probe for its key),
`TowersLinked` (the lanes and the set of nodes), `ListsLinked` (both directions
and the set of nodes), `EachDestroyedOnce` (destructor runs and what is
stored), `Counted` (handles and counts), and the refinements. Type invariants
are not run on their own: each is a conjunct of an invariant that needs it, or
of the inductive invariant of a proof (arena, ring buffer, buffered stream,
string).

### Fairness and liveness

Nothing in the library runs by itself: every call is a client's, and no client
is obliged to make another one. A call that was made does run on, alone, as the
library is single-threaded. FStream is the module whose calls take several
steps, so `CallStep`, the iterations of `cu_FStream_read` and
`cu_FStream_write`, is weakly fair (WF) in `FairSpec` and in `streams`, and
`CallsEnd` says that every call comes to an end: a write that finds the buffer
full and a read that finds it empty get on, at the end of the file too, where
`cu_FStream_fill_buffer` puts a whole buffer of bytes nobody read into the ring
buffer; one that entered only what was read would never end. With a buffer of
size 0 the call ends too, or the program does (`fault`). A fill that fails ends
its call as well, but `FillFails` is not among the fair steps: a failure is
nothing to rely on. The other thing
that must end, a probe of the hash table, is stated as the invariant
`ProbesEnd` (there is an unused bucket), which holds as long as no insert
failed; with failed inserts the model reaches the probe that never ends.

## 4. What is proved

All theorems hold for every value of the constants, under the assumptions the
modules name (sizes are naturals, header and chunk sizes positive, the null
value is no element). TLC evaluates the same assumptions in the runs. Where a
theorem has a hypothesis beyond them, it is named below, with the flaw of the
code that makes it necessary. Each invariant of a run holds because an
inductive one implies it; that is what is proved of `Init` and of every action,
and the refinements take it as known.

**ArenaAllocatorProofs.** `ArenaInvariant`: `Spec => []IInv`, where
`IInv == TypeOK /\ WithinChunk /\ HeadersIntact /\ PopIsSafe`. `WithinChunk`
alone is not inductive: a free sets `used` to whatever the header of the top
block says, so one must know that the header survived (`HeadersIntact`) and
that no other block reaches above the mark it restores (`PopIsSafe`). A grow
or a move composes several steps on chunks, headers and blocks, so the
invariant is stated for such a triple (`Good`), with one lemma for a bump, a
free, a resize and the choice of a chunk. `BlocksApart` follows from `IInv`
(`ArenaSafety` states the five together), and with it `ArenaImplementsContract`:
every step is a step of AllocatorContract or a stutter, the move of a block
because `GrowByMove` obtains and releases in one call.

**AllocatorsProofs.** *Fixed buffer*: `IInv == WithinBuffer /\ HeadersIntact`,
the arena's argument for one buffer, where marks may lie below abandoned blocks:
`HeadersIntact` says of every other block that it ends at or below the mark the
header restores, or starts above the block. `FixedWithinBuffer`,
`FixedHeadersIntact`, `FixedImplementsContract`. *mmap*: `PageInv` says that the
mapped pages are those of blocks and that no two blocks share one, although a
client may hand back the length it asked for or the one it got. *malloc*: `CInv`
says that raw blocks are apart and that the word in front of each block, which
the block's own padding leaves room for, leads to a raw block that holds both
and is no other block's; it is stated for any raw blocks, words and blocks
(`CGood`), as a move writes the new word before it gives the old raw block back.
`SystemMemoryIsOwned`. *WASM*: `WInv` says that there are a stack of slots
`f[k]`, of height `n[k]`, for each size of slots, which the heads of the lists
and the links in the memory spell out, and that three kinds of parts have no
byte in common: the slots of blocks, which hold header, block and link word, the
slots of the stacks, and what no slot was cut from yet of a page (`WGood`). It is
stated for any heap and set of blocks, as a move allocates and then frees. The
steps are lemmas on their own: to write where nobody has a part (`WrittenGood`),
to take a slot off a list, out of a page or out of new pages (`TakeGood`), to put
one on a list (`PushGood`). That a slot fits what remains of its page, and that
the slot the header of a large block names fits the pages that were taken for
it, rests on sizes being powers of two (`CutNext`, `LayoutFacts`).
`WasmSlotsApart` shows `SlotsApart` from it: the list the links lead along is the
stack (`ListIs`).
`AllocatorsImplementContract`: all three are allocators.

**RingBufferProofs.** `RingBufferInvariant`: `IInv == RB!TypeOK /\
RB!StoredOnce /\ RB!DestroyedOnce` is inductive; the wrap-around arithmetic (`Wrap`,
`IndexInjective`, `IndexShift`) carries it. `RingBufferImplementsFifo`: the
contents, read from `head` for `length` slots, are a queue. FStream relies on
that theorem: its `buffer` is a sequence.

**SequencesProofs.** *Vector*: `VectorInv` says that the cells below `length`
hold each element once and none that is still fresh; a shift of cells is a
permutation of indices. `VectorDestroyedOnce` and `VectorImplementsSequence`
assume `MaxFront <= 1`, as the code does not have them otherwise
(`vector_pop_front`); `VectorShrinksWithSlack` holds for any `MaxFront`.
*Lists*: the invariant is `\E s : DListIs(s)`, that some sequence without
repetitions is what `next` gives from the head and `prev` from the tail. Local
equations (`next` and `prev` inverse to one another) are inductive too, but do
not exclude a circle off the list. From `s` follow `ListsStayLinked` and, as
each relinking makes a known change to `s`, `InsertionsInOrder` and the
refinement `AllAreSequences`.

**StringsAndHandlesProofs.** `StringsTerminated`: the terminator is inductive
with what the cells hold and with `lost` naming no string without a block.
`StringsImplementText`: what is read is what was appended, also from a slice of
the string itself. `HandlesCounted` adds to `Counted` that counts are kept for
containers that are held and that those were not destroyed yet.

**StreamsProofs.** `StreamInv` says of a stream that reads that the buffer is
`k` bytes of the file, up to the descriptor's offset, and behind them, at the
end of the file only, bytes nobody read. `StreamReadsAhead` follows;
`SeeksCountBuffer` and `StreamImplementsByteStream` assume that no write is cut
short (`"short" \notin Faults`), since then bytes are lost silently
(`lib/io/file.c:207`). They hold for any size of the buffer, 0 included, with
files opened to append or not, and allow failed allocations, reads, writes and
seeks at any point. `MemoryHasNoGaps`, `MemoryImplementsByteStream`: the stream in memory.

**MapsProofs.** *Hash table*: `HInv` says that a bucket with a key is the first
stop of a probe for it, that the length counts the used buckets and is below
the capacity, unless an insert failed and left a used bucket without a pair.
The probe is a recursive function, as is the rehash: the proof takes the
smallest counterexample (`NatMin`), and carries "the buckets entered so far
hold exactly the pairs seen so far" from one bucket to the next (`Carries`).
`HashMapPairsReachable`, `HashMapLengthCounts`, `HashMapProbesEnd`,
`HashMapImplementsMap`. *Skip list*: `LInv` says that every pointer leads to
the first of the nodes that are behind its own on that level. The search goes
down from the top; that it ends where it should is shown by the number of keys
still between. `SkipListTowersLinked`, `SkipListImplementsMap`.

**PoolsProofs.** *Slabs*: `SlabInv` says that each block lies, with its header,
in the slots of the run the header names, that the runs of a slab are disjoint
and make up its bitmap, and that the count is right. It is stated for any
slabs, headers and blocks (`SlabGood`), as a move allocates and then frees.
`SlabBlocksInRuns`, `SlabRunsAccounted`. *General purpose*: `GpaInv` says three
things. Each list is linked (`Linked`): the local equations between `next` and
`prev` hold, and some ranking grows along `next`. The ranking is what keeps a
circle off the list out, and with it a walk meets one new node a step until it
has them all (`WalkIs`); appending, putting in front and removing a node each
make a new ranking (`AppendLinks`, `PrependLinks`, `RemoveLinks`). Live blocks
correspond one to one to the used slots of buckets and to the records of large
objects. And an empty bucket is alone in its class; between the two halves of an
operation one bucket `x` is exempt (`GpaGood`), the one just made or just
emptied. A refused second block leaves the account of what is held as it was
(`RefusalGivesBack`). `GpaListsLinked`, `GpaSlotsAreBlocks`, `GpaNothingHoarded`; for both,
`PoolsAreAllocators`: every step is a step of AllocatorContract.

The theorems of the library that do induction take an operator as a parameter,
which the provers cannot instantiate. Where something holds along a recursive
function, the proofs use its equation and the least number for which the claim
would fail. `HashMap`, `GPAllocator` and `WasmAllocator` define the powers of
two by a recursive function for that reason: the provers know nothing of `2 ^ n`.

Only model-checked:

* `CallsEnd`: liveness is out of the prover's reach.
* What the runs that expect a violation show.

## 5. What is not modelled

* Sizes that wrap around `size_t`; the canary of the GPA, which no code reads;
  addresses inside a GPA bucket, and in the arena and the fixed allocator, which
  align offsets: of addresses only `arena_alignment` speaks; alignments of more than a page in the WASM
  allocator, and layouts of more pages than its array of page classes has
  entries for (`ConstantsOK`), which the code does not check.
* The null allocator, which refuses every call; the string builder and
  formatting (`fmt.c`), a translation of arguments to bytes; hashing, a pure
  function; Optional and Result; Dir and the descriptor layer (`dir.c`,
  `fdfile.c`), which hand calls to the system and keep nothing; the examples.
* The second page of a WASM allocation whose last word begins a page is lost
  when it is freed (hazard at `wasmallocator.c:205`): the model does the same,
  and no property forbids it.
* `cu_Vector_copy`, slices and sorting; iteration over HashMap and SkipList,
  which changes nothing in them; iteration over a list node that was removed;
  illegal calls (a second free, a foreign pointer).
* A slab whose bitmap is refused is given back (`slab.c:66`): SlabAllocator
  keeps no account of what it holds, so this is the same step there as a refused
  slab.
* Windows: files are those of POSIX. The Windows build ignores the append
  option, and pages are released whole there. A stream opened neither to read
  nor to write, which writes to a file opened read-only, is left out.
* Short writes: FStream has them as the fault "short", which no run enables;
  with it the stream loses bytes silently (hazard at `lib/io/file.c:207`).
* `cu_Stream_tell` changes nothing but takes part in `fstream_tell`.

## 6. Plan

Done, in the order of importance: allocators that keep state in band (arena,
fixed), the ring buffer, the general-purpose allocator, the buffered stream,
the hash map, the vector, the slab allocator, the skip list; then the
allocators over WebAssembly memory, malloc and mmap, the stream in memory, the
lists, strings and counted handles, and the liveness of calls; proofs of what
section 4 names.

To extend the model: the string builder over String; the addresses of slots in
a GPA bucket; iteration while a map is changed.
