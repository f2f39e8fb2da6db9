---------------------------- MODULE GPAllocator ----------------------------
(***************************************************************************)
(* lib/memory/gpallocator.c.  Requests are rounded up to a power of two,   *)
(* the object size.  A small object is a slot of a bucket; the buckets of  *)
(* an object size form a doubly linked list.  A large one is a block of    *)
(* the backing allocator, recorded in a doubly linked list of its own.     *)
(* An allocation looks at the first bucket of its list only; a bucket that *)
(* becomes empty is given back unless it is alone in its list.             *)
(*                                                                         *)
(* A region is a block of the backing allocator and stands for its address *)
(* too; 0 is the null pointer.  Buckets and records are the nodes of the   *)
(* lists.  Every node costs two blocks: a bucket and its bitmap, a record  *)
(* and its object.                                                         *)
(*                                                                         *)
(* Clients free and resize live blocks only, grow to at least and shrink   *)
(* to at most the length they have.  The backing allocator is one, like    *)
(* cu_Allocator_CAllocator, whose shrink to nothing keeps the block.       *)
(***************************************************************************)
EXTENDS Integers, FiniteSets

CONSTANTS
  BucketSize,   \* gpa->bucketSize
  NumClasses,   \* CU_GPA_NUM_SMALL_BUCKETS
  Sizes,        \* the layout sizes clients ask for
  Aligns,       \* the layout alignments clients ask for
  MaxRegions    \* bound: buckets, records and large objects there can be

ASSUME BucketAssumption == BucketSize \in Nat \ {0} /\ NumClasses \in Nat
ASSUME LayoutAssumption == Sizes \subseteq Nat /\ Aligns \subseteq Nat
ASSUME RegionsAssumption == MaxRegions \in Nat

Null == 0
Region == 1 .. MaxRegions

VARIABLES
  gpa,   \* the allocator: its lists, and the buckets and records on them
  live   \* the blocks clients hold

vars == <<gpa, live>>

-----------------------------------------------------------------------------
(* Size classes                                                            *)

\* The powers of two.
Pow2[n \in Nat] == IF n = 0 THEN 1 ELSE 2 * Pow2[n - 1]

\* cu_next_pow2.
NextPow2(x) == CHOOSE p \in {Pow2[n] : n \in 0 .. x} : x <= p /\ (p = 1 \/ p \div 2 < x)

ObjectSize(size, align) == NextPow2(IF size > align THEN size ELSE align)

\* cu_gpa_index_from_size finds a class for obj, and it fits in a bucket.
IsSmall(obj) == obj <= BucketSize /\ \E n \in 0 .. NumClasses - 1 : obj = Pow2[n]

SlotCount(obj) == IF BucketSize \div obj = 0 THEN 1 ELSE BucketSize \div obj

Classes == {obj \in {ObjectSize(s, a) : s \in Sizes \ {0}, a \in Aligns} : IsSmall(obj)}

-----------------------------------------------------------------------------
(* Doubly linked lists of records with fields prev and next                *)

\* The nodes a walk from "first" along next visits.
Walk(nodes, first) ==
  LET visited[n \in 0 .. MaxRegions] ==
        IF n = 0 THEN {first} \ {Null}
        ELSE visited[n - 1] \cup ({nodes[r].next : r \in visited[n - 1]} \ {Null})
  IN  visited[MaxRegions]

\* Mutant of Unlink: the next node still points back.
Unlink_KeepsPrev(nodes, r) ==
  [q \in DOMAIN nodes \ {r} |->
     [nodes[q] EXCEPT !.next = IF q = nodes[r].prev THEN nodes[r].next ELSE @]]

\* Node r leaves its list; the list's ends are set apart.
Unlink(nodes, r) ==
  [q \in DOMAIN nodes \ {r} |->
     [nodes[q] EXCEPT !.next = IF q = nodes[r].prev THEN nodes[r].next ELSE @,
                      !.prev = IF q = nodes[r].next THEN nodes[r].prev ELSE @]]

\* Node r, whose prev and next are set, joins a list.
Link(nodes, r, node) ==
  [q \in DOMAIN nodes \cup {r} |->
     IF q = r THEN node
     ELSE [nodes[q] EXCEPT !.next = IF q = node.prev THEN r ELSE @,
                           !.prev = IF q = node.next THEN r ELSE @]]

-----------------------------------------------------------------------------
(* The backing allocator: external                                         *)

Free(g) == Region \ (DOMAIN g.node \cup {g.node[r].slice : r \in DOMAIN g.node})

HasRoom(g, n) == Cardinality(Free(g)) >= n

\* Addresses are interchangeable: a fresh one is the first that is free.
First(R) == CHOOSE r \in R : \A q \in R : r <= q

Fresh(g) == First(Free(g))

-----------------------------------------------------------------------------
(* Allocation, from allocator g                                            *)

\* struct cu_GPAllocator_BucketHeader ...
Bucket(prev, obj) ==
  [prev |-> prev, next |-> Null, obj |-> obj, used |-> {}, count |-> 0, slice |-> Null]

\* ... and struct cu_GPAllocator_LargeAlloc.
Record(next, slice) ==
  [prev |-> Null, next |-> next, obj |-> 0, used |-> {}, count |-> 0, slice |-> slice]

NeedsBucket(g, obj) ==
  g.heads[obj] # Null => g.node[g.heads[obj]].count = SlotCount(obj)

\* A new bucket is put at the end of the list.
WithBucket(g, obj) ==
  LET r == Fresh(g)
      tail == g.tails[obj]
  IN [g EXCEPT !.node = Link(g.node, r, Bucket(tail, obj)),
               !.heads[obj] = IF tail = Null THEN r ELSE @,
               !.tails[obj] = r,
               !.held = @ + 2]

\* Mutant of FreeSlot: the slot after the used ones.
FreeSlot_Count(k) == k.count

\* The first slot whose bit is clear.
FreeSlot(k) == First((0 .. SlotCount(k.obj) - 1) \ k.used)

\* The first free slot of bucket r is taken.
Taken(g, r, size) ==
  LET k == g.node[r]
      s == FreeSlot(k)
  IN [gpa |-> [g EXCEPT !.node[r].used = @ \cup {s}, !.node[r].count = @ + 1],
      block |-> [region |-> r, pos |-> s * k.obj, len |-> size]]

\* cu_gpa_alloc_small.
SmallAllocs(g, size, obj) ==
  IF ~NeedsBucket(g, obj) THEN {Taken(g, g.heads[obj], size)}
  ELSE IF HasRoom(g, 1) THEN {Taken(WithBucket(g, obj), Fresh(g), size)}
  ELSE {}

\* cu_gpa_alloc_large.
LargeAllocs(g, size) ==
  IF HasRoom(g, 2)
  THEN LET slice == Fresh(g)
           r     == First(Free(g) \ {slice})
       IN {[gpa |-> [g EXCEPT !.node = Link(g.node, r, Record(g.largeAllocs, slice)),
                              !.largeAllocs = r,
                              !.held = @ + 2],
            block |-> [region |-> slice, pos |-> 0, len |-> size]]}
  ELSE {}

\* cu_gpa_alloc.
Allocs(g, size, align) ==
  IF size = 0 THEN {}
  ELSE IF IsSmall(ObjectSize(size, align))
  THEN SmallAllocs(g, size, ObjectSize(size, align))
  ELSE LargeAllocs(g, size)

\* The backing allocator gives a block, and takes one back.
Obtained(g) == [g EXCEPT !.held = @ + 1]
GivenBack(g) == [g EXCEPT !.held = @ - 1]

\* Mutant of SecondRefused: the first block is kept.
SecondRefused_Leaks(g) == Obtained(g)

\* A bucket without its bitmap, or a large object without its record: the first
\* of the two blocks is given back when the second is refused.
SecondRefused(g) == GivenBack(Obtained(g))

\* A request the backing allocator is not asked for cannot be refused.
MayFail(size, align) ==
  LET obj == ObjectSize(size, align) IN
  size # 0 /\ IsSmall(obj) => NeedsBucket(gpa, obj)

-----------------------------------------------------------------------------
(* Release, from allocator g                                               *)

\* cu_gpa_find_bucket and cu_gpa_find_large walk the lists.
FoundBuckets(g) == UNION {Walk(g.node, g.heads[obj]) : obj \in Classes}

FoundLarge(g) == Walk(g.node, g.largeAllocs)

\* The bucket, or else the record, of block b is found.
InBucket(b) == b.region \in FoundBuckets(gpa)

RecordsOf(b) ==
  IF InBucket(b) THEN {} ELSE {r \in FoundLarge(gpa) : gpa.node[r].slice = b.region}

\* Bucket r leaves its list and goes back to the backing allocator.
WithoutBucket(g, r) ==
  LET k == g.node[r]
  IN [g EXCEPT !.node = Unlink(g.node, r),
               !.heads[k.obj] = IF k.prev = Null THEN k.next ELSE @,
               !.tails[k.obj] = IF k.next = Null THEN k.prev ELSE @,
               !.held = @ - 2]

\* Mutant of Alone: a bucket at the head is taken to be alone.
Alone_Head(g, r) == g.heads[g.node[r].obj] = r

Alone(g, r) == g.heads[g.node[r].obj] = r /\ g.node[r].next = Null

\* Mutant of FreedSmall: the count of used slots is not decremented.
FreedSmall_KeepsCount(g, b) ==
  [g EXCEPT !.node[b.region].used = @ \ {b.pos \div g.node[b.region].obj}]

\* cu_gpa_free_small.
FreedSmall(g, b) ==
  LET r == b.region
      h == [g EXCEPT !.node[r].used  = @ \ {b.pos \div g.node[r].obj},
                     !.node[r].count = IF @ > 0 THEN @ - 1 ELSE @]
  IN IF h.node[r].count = 0 /\ ~Alone(h, r) THEN WithoutBucket(h, r) ELSE h

\* cu_gpa_free_large of record r.
FreedLarge(g, r) ==
  [g EXCEPT !.node = Unlink(g.node, r),
            !.largeAllocs = IF g.node[r].prev = Null THEN g.node[r].next ELSE @,
            !.held = @ - 2]

-----------------------------------------------------------------------------
(* The allocator's operations                                              *)

\* cu_Allocator_GPAllocator.
Empty ==
  [heads |-> [obj \in Classes |-> Null], tails |-> [obj \in Classes |-> Null],
   largeAllocs |-> Null, node |-> <<>>, held |-> 0]

Init == gpa = Empty /\ live = {}

\* cu_gpa_alloc, also reached by cu_gpa_grow with a NULL block.
Alloc(size, align) ==
  \E a \in Allocs(gpa, size, align) : gpa' = a.gpa /\ live' = live \cup {a.block}

\* INVALID_INPUT for a size of 0, or the backing allocator refuses the first or
\* the second block.  Also a cu_gpa_grow that finds no memory.
AllocFails(size, align) ==
  /\ MayFail(size, align)
  /\ \/ gpa' = gpa
     \/ size # 0 /\ gpa' = SecondRefused(gpa)
  /\ UNCHANGED live

\* cu_gpa_grow and cu_gpa_shrink of an object that stays in its slot.
ResizeInSlot(b, size) ==
  /\ InBucket(b)
  /\ size <= gpa.node[b.region].obj
  /\ live' = (live \ {b}) \cup {[b EXCEPT !.len = size]}
  /\ UNCHANGED gpa

\* cu_gpa_grow of an object that outgrows its slot: allocate, copy, free.
GrowByMove(b, size, align) ==
  /\ InBucket(b)
  /\ size > gpa.node[b.region].obj
  /\ \E a \in Allocs(gpa, size, align) :
       /\ gpa' = FreedSmall(a.gpa, b)
       /\ live' = (live \cup {a.block}) \ {b}

\* cu_gpa_grow and cu_gpa_shrink of a large object: the backing allocator
\* resizes it where it is, ...
ResizeLarge(b, size) ==
  /\ RecordsOf(b) # {}
  /\ live' = (live \ {b}) \cup {[b EXCEPT !.len = size]}
  /\ UNCHANGED gpa

\* ... or moves it, and its record names the new block.
MoveLarge(b, size) ==
  /\ HasRoom(gpa, 1)
  /\ \E r \in RecordsOf(b) : gpa' = [gpa EXCEPT !.node[r].slice = Fresh(gpa)]
  /\ live' = (live \ {b}) \cup {[region |-> Fresh(gpa), pos |-> 0, len |-> size]}

\* cu_gpa_free.
FreeSmall(b) ==
  /\ InBucket(b)
  /\ gpa' = FreedSmall(gpa, b)
  /\ live' = live \ {b}

FreeLarge(b) ==
  /\ \E r \in RecordsOf(b) : gpa' = FreedLarge(gpa, r)
  /\ live' = live \ {b}

\* cu_GPAllocator_destroy: what the lists hold is given back.
Destroy ==
  /\ gpa' = [Empty EXCEPT
       !.held = gpa.held - 2 * Cardinality(FoundBuckets(gpa) \cup FoundLarge(gpa))]
  /\ live' = {}

Next ==
  \/ \E size \in Sizes, align \in Aligns : Alloc(size, align) \/ AllocFails(size, align)
  \/ \E b \in live :
       \/ \E size \in Sizes :
            ResizeInSlot(b, size) \/ ResizeLarge(b, size) \/ MoveLarge(b, size)
       \/ \E size \in Sizes, align \in Aligns : GrowByMove(b, size, align)
       \/ FreeSmall(b)
       \/ FreeLarge(b)
  \/ Destroy

Spec == Init /\ [][Next]_vars

-----------------------------------------------------------------------------
(* Properties                                                              *)

Buckets == {r \in DOMAIN gpa.node : gpa.node[r].slice = Null}
Records == DOMAIN gpa.node \ Buckets

Node == [prev : Region \cup {Null}, next : Region \cup {Null}, obj : Nat,
         used : SUBSET (0 .. BucketSize - 1), count : Nat, slice : Region \cup {Null}]

\* The fields are what they should be, and a bucket has slots of its class.
TypeOK ==
  /\ gpa.heads \in [Classes -> DOMAIN gpa.node \cup {Null}]
  /\ gpa.tails \in [Classes -> DOMAIN gpa.node \cup {Null}]
  /\ gpa.largeAllocs \in Records \cup {Null}
  /\ DOMAIN gpa.node \subseteq Region /\ \A r \in DOMAIN gpa.node : gpa.node[r] \in Node
  /\ gpa.held \in Nat
  /\ \A r \in Buckets : gpa.node[r].obj \in Classes
                        /\ gpa.node[r].used \subseteq 0 .. SlotCount(gpa.node[r].obj) - 1
  /\ \A b \in live : b.region \in Region /\ b.pos \in Nat /\ b.len \in Nat

\* The nodes N are one doubly linked list, from first to last.
IsList(N, first, last) ==
  /\ Walk(gpa.node, first) = N
  /\ N = {} => first = Null /\ last = Null
  /\ \A r \in N :
       LET k == gpa.node[r] IN
       /\ (k.prev = Null) <=> (r = first)
       /\ (k.next = Null) <=> (r = last)
       /\ k.prev # Null => k.prev \in N /\ gpa.node[k.prev].next = r
       /\ k.next # Null => k.next \in N /\ gpa.node[k.next].prev = r

\* Whatever order buckets are emptied and large objects freed in, the buckets of
\* each class and the records are doubly linked lists that lose none of them.
ListsLinked ==
  /\ TypeOK
  /\ \A obj \in Classes :
       IsList({r \in Buckets : gpa.node[r].obj = obj}, gpa.heads[obj], gpa.tails[obj])
  /\ \E last \in Records \cup {Null} : IsList(Records, gpa.largeAllocs, last)

\* Every block a client holds is found when it is freed or resized, in a slot that
\* is marked used, or under a record; no slot stays marked without a block, and
\* the count of used slots is right.
SlotsAreBlocks ==
  /\ \A b \in live : InBucket(b) \/ RecordsOf(b) # {}
  /\ \A r \in Buckets :
       LET k == gpa.node[r] IN
       /\ k.count = Cardinality(k.used)
       /\ {s * k.obj : s \in k.used} = {b.pos : b \in {d \in live : d.region = r}}
       /\ \A b \in live : b.region = r => b.len <= k.obj
  /\ \A r \in Records : \E b \in live : b.region = gpa.node[r].slice

\* Memory is not hoarded: an empty bucket is the only one of its class, and the
\* blocks held from the backing allocator are those of the buckets and records
\* on the lists, so that destroying the allocator gives everything back.
NothingHoarded ==
  /\ \A r, q \in Buckets :
       gpa.node[r].count = 0 /\ gpa.node[q].obj = gpa.node[r].obj => q = r
  /\ gpa.held = 2 * Cardinality(FoundBuckets(gpa) \cup FoundLarge(gpa))

\* The blocks clients hold follow the contract of every allocator.
Contract == INSTANCE AllocatorContract WITH live <- live

ImplementsContract == Contract!Spec
=============================================================================
