---------------------------- MODULE PoolsProofs ----------------------------
(***************************************************************************)
(* Proofs about SlabAllocator and GPAllocator, for slots, slabs, buckets,  *)
(* size classes and requests of every size, and whether or not the backing *)
(* allocator refuses.                                                      *)
(*                                                                         *)
(* Slabs come first.  Their invariant, SlabInv, says that the runs of the  *)
(* blocks of a slab are disjoint and that its bitmap is their union.  That *)
(* of the general-purpose allocator, GpaInv, says that each list links its *)
(* nodes in some order of ranks, which is why a walk along it ends, and    *)
(* that live blocks, used slots and records correspond.  Both are kept by  *)
(* every half of an operation, too: a resize that moves a block allocates, *)
(* then frees.                                                             *)
(***************************************************************************)
EXTENDS MCPools, SequenceTheorems, FiniteSetTheorems, NaturalsInduction,
        WellFoundedInduction, TLAPS

-----------------------------------------------------------------------------
\* There are n numbers below n.
LEMMA CountBelow ==
  ASSUME NEW n \in Nat
  PROVE  Cardinality(0 .. n - 1) = n
<1>1. 0 \in Int /\ n - 1 \in Int
  OBVIOUS
<1>2. Cardinality(0 .. n - 1) = IF 0 > n - 1 THEN 0 ELSE n - 1 - 0 + 1
  BY <1>1, FS_Interval, Zenon
<1> QED
  BY <1>2

\* The least number of a set.
LEMMA LeastOf ==
  ASSUME NEW T, T \subseteq Nat, T # {}
  PROVE  \E x \in T : \A y \in T : x <= y
<1> DEFINE R == {p \in Nat \X Nat : p[1] < p[2]}
<1>1. IsWellFoundedOn(R, Nat)
  <2>1. R = OpToRel(<, Nat)
    BY Zenon DEF OpToRel
  <2> QED
    BY <2>1, NatLessThanWellFounded, Zenon
<1>2. \A x, y \in Nat : y < x => <<y, x>> \in R
  OBVIOUS
<1> HIDE DEF R
<1>3. PICK x \in T : \A y \in T : ~ (<<y, x>> \in R)
  BY <1>1, WFMin
<1>4. ASSUME NEW y \in T
      PROVE  x <= y
  <2>1. x \in Nat /\ y \in Nat
    OBVIOUS
  <2>2. ~(y < x)
    BY <1>2, <1>3, <2>1
  <2> QED
    BY <2>1, <2>2
<1> QED
  BY <1>3, <1>4

-----------------------------------------------------------------------------
(* Slots and bytes                                                         *)

LEMMA SlabConstants ==
  /\ HeaderSize \in Nat /\ HeaderSize > 0 /\ DataOffset \in Nat
  /\ SlabSize \in Nat /\ SlabSize > 0 /\ DefaultCount \in Nat /\ DefaultCount > 0
  /\ SlabSizes \subseteq Nat /\ SlabAligns \subseteq Nat /\ MaxSlabs \in Nat
  /\ Bases \subseteq Nat
BY InstancesOK DEF Slab!ConstantsOK

\* The byte where slot i begins.
At(i) == i * SlabSize

LEMMA AtType == ASSUME NEW i \in Nat PROVE At(i) \in Nat
BY SlabConstants DEF At

LEMMA AtZero == At(0) = 0
BY SlabConstants DEF At

LEMMA AtSum ==
  ASSUME NEW i \in Nat, NEW n \in Nat
  PROVE  At(i + n) = At(i) + At(n)
BY SlabConstants DEF At

LEMMA AtMonotone ==
  ASSUME NEW i \in Nat, NEW j \in Nat, i <= j
  PROVE  At(i) <= At(j)
<1>1. PICK n \in Nat : j = i + n
  <2>1. j - i \in Nat /\ j = i + (j - i)
    OBVIOUS
  <2> QED
    BY <2>1
<1>2. At(j) = At(i) + At(n) /\ At(n) \in Nat /\ At(i) \in Nat
  BY <1>1, AtSum, AtType
<1> QED
  BY <1>2

LEMMA AtStrict ==
  ASSUME NEW i \in Nat, NEW j \in Nat, At(i) < At(j)
  PROVE  i < j
<1>1. ~(j <= i)
  BY AtMonotone, AtType
<1> QED
  BY <1>1

\* How many slots so many bytes take.
LEMMA DivCeilBounds ==
  ASSUME NEW x \in Nat
  PROVE  /\ Slab!DivCeil(x, SlabSize) \in Nat
         /\ x <= At(Slab!DivCeil(x, SlabSize))
         /\ \A c \in Nat : x <= At(c) => Slab!DivCeil(x, SlabSize) <= c
<1> DEFINE q == Slab!DivCeil(x, SlabSize)
<1>1. q = (x + SlabSize - 1) \div SlabSize
  BY DEF Slab!DivCeil
<1>2. x + SlabSize - 1 \in Nat
  BY SlabConstants
<1>3. /\ q \in Nat
      /\ q * SlabSize <= x + SlabSize - 1
      /\ x + SlabSize - 1 < q * SlabSize + SlabSize
  BY <1>1, <1>2, SlabConstants
<1> HIDE DEF q
<1>4. At(q) <= x + SlabSize - 1 /\ x + SlabSize - 1 < At(q) + SlabSize
  BY <1>3 DEF At
<1>5. At(q) \in Nat /\ At(1) = SlabSize
  BY <1>3, AtType, SlabConstants DEF At
<1>6. x <= At(q)
  BY <1>4, <1>5, SlabConstants
<1>7. ASSUME NEW c \in Nat, x <= At(c)
      PROVE  q <= c
  <2>1. At(c + 1) = At(c) + SlabSize /\ At(c) \in Nat
    BY <1>5, AtSum, AtType
  <2>2. At(q) < At(c + 1)
    BY <1>4, <1>5, <1>7, <2>1, SlabConstants
  <2>3. q < c + 1
    BY <1>3, <2>2, AtStrict
  <2> QED
    BY <1>3, <2>3
<1> QED
  BY <1>3, <1>6, <1>7 DEF q

\* CU_ALIGN_UP of the data's offset and a position leaves the position where it is
\* or moves it by less than the alignment.
LEMMA StartBounds ==
  ASSUME NEW base \in Nat, NEW i \in Nat, NEW align \in Nat
  PROVE  LET a == Slab!EffAlign(align)
             p == Slab!Start(base, i, align)
         IN  /\ a \in Nat /\ a > 0 /\ p \in Nat
             /\ At(i) + HeaderSize <= p /\ p <= At(i) + HeaderSize + a - 1
<1> DEFINE a == Slab!EffAlign(align)
           d == base + DataOffset
           x == d + At(i) + HeaderSize
           y == x + a - 1
<1>1. a \in Nat /\ a > 0 /\ a \in Nat \ {0}
  BY DEF Slab!EffAlign
<1>2. At(i) \in Nat /\ d \in Nat /\ x \in Nat
  BY AtType, SlabConstants
<1>3. Slab!Start(base, i, align) = y - (y % a) - d
  BY DEF Slab!Start, Slab!AlignUp, At
<1> HIDE DEF a
<1>4. y \in Nat /\ y = x + a - 1 /\ x = d + At(i) + HeaderSize
  BY <1>1, <1>2
<1> HIDE DEF d, x, y
<1>5. y % a \in 0 .. a - 1
  BY <1>1, <1>4
<1> DEFINE z == y % a
<1>6. z \in 0 .. a - 1 /\ Slab!Start(base, i, align) = y - z - d
  BY <1>3, <1>5
<1> HIDE DEF z
<1>7. LET p == Slab!Start(base, i, align)
      IN  p \in Nat /\ At(i) + HeaderSize <= p /\ p <= At(i) + HeaderSize + a - 1
  BY <1>1, <1>2, <1>4, <1>6, SlabConstants
<1> QED
  BY <1>1, <1>7 DEF a

-----------------------------------------------------------------------------
(* Slabs                                                                   *)

SlabRecord == [base : Bases, slabCount : Nat, used : SUBSET Nat, freeCount : Nat]

\* A slab whose count is that of its bitmap.
Counts(s) ==
  s.used \subseteq 0 .. s.slabCount - 1 /\ s.freeCount = s.slabCount - Cardinality(s.used)

\* The slots of block b, by headers hd.
SlotsOf(hd, b) == Slab!Run(hd[Slab!Place(b)])

\* Block b lies in the slots of a header.
InSlots(h, b) ==
  /\ h \in Slab!Header /\ h.count > 0
  /\ At(h.index) + HeaderSize <= b.pos
  /\ b.pos + b.len <= At(h.index + h.count)

\* The inductive invariant, of slabs ss with headers hd and blocks bs.
SlabGood(ss, hd, bs) ==
  /\ ss \in Seq(SlabRecord) /\ \A t \in DOMAIN ss : Counts(ss[t])
  /\ \A q \in DOMAIN hd : hd[q] \in Slab!Header
  /\ bs \subseteq Slab!Block
  /\ \A b \in bs : /\ b.slab \in DOMAIN ss /\ Slab!Place(b) \in DOMAIN hd
                   /\ InSlots(hd[Slab!Place(b)], b)
                   /\ SlotsOf(hd, b) \subseteq ss[b.slab].used
  /\ \A b, d \in bs : b # d /\ b.slab = d.slab => SlotsOf(hd, b) \cap SlotsOf(hd, d) = {}
  /\ \A t \in DOMAIN ss : \A i \in ss[t].used : \E b \in bs : b.slab = t /\ i \in SlotsOf(hd, b)

SlabInv == SlabGood(slabs, header, slabLive)

\* What is known of the run of a block.
LEMMA RunFacts ==
  ASSUME NEW h, NEW b \in Slab!Block, InSlots(h, b)
  PROVE  /\ h.index \in Nat /\ h.count \in Nat /\ h.count > 0
         /\ b.slab \in Nat /\ b.pos \in Nat /\ b.len \in Nat
         /\ At(h.index) \in Nat /\ At(h.index + h.count) \in Nat
         /\ At(h.index) + HeaderSize <= b.pos /\ b.pos + b.len <= At(h.index + h.count)
         /\ Slab!Run(h) = h.index .. h.index + h.count - 1
         /\ h.index \in Slab!Run(h)
<1>1. h.index \in Nat /\ h.count \in Nat /\ h.count > 0
  BY DEF InSlots, Slab!Header
<1>2. b.slab \in Nat /\ b.pos \in Nat /\ b.len \in Nat
  BY DEF Slab!Block
<1>3. At(h.index) \in Nat /\ At(h.index + h.count) \in Nat
  BY <1>1, AtType
<1> QED
  BY <1>1, <1>2, <1>3 DEF InSlots, Slab!Run

\* Runs of slots that are apart are apart in bytes, too.
LEMMA RunsApart ==
  ASSUME NEW i \in Nat, NEW m \in Nat, NEW j \in Nat, NEW n \in Nat, m > 0, n > 0,
         (i .. i + m - 1) \cap (j .. j + n - 1) = {}
  PROVE  At(i + m) <= At(j) \/ At(j + n) <= At(i)
<1>1. i + m <= j \/ j + n <= i
  <2>1. SUFFICES ASSUME j < i + m, i < j + n
                 PROVE  FALSE
    OBVIOUS
  <2>2. CASE i <= j
    <3>1. j \in i .. i + m - 1 /\ j \in j .. j + n - 1
      BY <2>1, <2>2
    <3> QED
      BY <3>1
  <2>3. CASE j <= i
    <3>1. i \in i .. i + m - 1 /\ i \in j .. j + n - 1
      BY <2>1, <2>3
    <3> QED
      BY <3>1
  <2> QED
    BY <2>2, <2>3
<1> QED
  BY <1>1, AtMonotone

\* Two blocks of a slab are apart, with their headers.
LEMMA BlocksApart ==
  ASSUME NEW ss, NEW hd, NEW bs, SlabGood(ss, hd, bs),
         NEW b \in bs, NEW d \in bs, b # d, b.slab = d.slab
  PROVE  b.pos + b.len <= d.pos - HeaderSize \/ d.pos + d.len <= b.pos - HeaderSize
<1> DEFINE g == hd[Slab!Place(b)]
           h == hd[Slab!Place(d)]
<1>1. InSlots(g, b) /\ InSlots(h, d) /\ b \in Slab!Block /\ d \in Slab!Block
      /\ Slab!Run(g) \cap Slab!Run(h) = {}
  BY DEF SlabGood, SlotsOf
<1> HIDE DEF g, h
<1>2. /\ g.index \in Nat /\ g.count \in Nat /\ g.count > 0 /\ b.pos \in Nat /\ b.len \in Nat
      /\ At(g.index) \in Nat /\ At(g.index + g.count) \in Nat
      /\ At(g.index) + HeaderSize <= b.pos /\ b.pos + b.len <= At(g.index + g.count)
      /\ Slab!Run(g) = g.index .. g.index + g.count - 1
  BY <1>1, RunFacts
<1>3. /\ h.index \in Nat /\ h.count \in Nat /\ h.count > 0 /\ d.pos \in Nat /\ d.len \in Nat
      /\ At(h.index) \in Nat /\ At(h.index + h.count) \in Nat
      /\ At(h.index) + HeaderSize <= d.pos /\ d.pos + d.len <= At(h.index + h.count)
      /\ Slab!Run(h) = h.index .. h.index + h.count - 1
  BY <1>1, RunFacts
<1>4. At(g.index + g.count) <= At(h.index) \/ At(h.index + h.count) <= At(g.index)
  BY <1>1, <1>2, <1>3, RunsApart
<1> DEFINE x1 == At(g.index)
           x2 == At(g.index + g.count)
           y1 == At(h.index)
           y2 == At(h.index + h.count)
<1>5. /\ x1 \in Nat /\ x2 \in Nat /\ b.pos \in Nat /\ b.len \in Nat
      /\ y1 \in Nat /\ y2 \in Nat /\ d.pos \in Nat /\ d.len \in Nat
  BY <1>2, <1>3
<1>6. /\ x1 + HeaderSize <= b.pos /\ b.pos + b.len <= x2
      /\ y1 + HeaderSize <= d.pos /\ d.pos + d.len <= y2
      /\ x2 <= y1 \/ y2 <= x1
  BY <1>2, <1>3, <1>4
<1> HIDE DEF x1, x2, y1, y2
<1> QED
  BY <1>5, <1>6, SlabConstants

\* No two blocks have one place.
LEMMA PlacesDiffer ==
  ASSUME NEW ss, NEW hd, NEW bs, SlabGood(ss, hd, bs),
         NEW b \in bs, NEW d \in bs, b # d
  PROVE  Slab!Place(b) # Slab!Place(d)
<1>1. b \in Slab!Block /\ d \in Slab!Block
  BY DEF SlabGood
<1>2. CASE b.slab = d.slab
  BY <1>1, <1>2, BlocksApart, SlabConstants DEF Slab!Block, Slab!Place
<1> QED
  BY <1>2 DEF Slab!Place

\* Finite sets of slots.
LEMMA SlotsFinite ==
  ASSUME NEW n \in Nat, NEW T, T \subseteq 0 .. n - 1
  PROVE  IsFiniteSet(T) /\ Cardinality(T) \in Nat /\ Cardinality(T) <= n
<1>1. IsFiniteSet(0 .. n - 1) /\ Cardinality(0 .. n - 1) = n
  BY FS_Interval
<1> QED
  BY <1>1, FS_Subset, FS_CardinalityType

LEMMA RunSize ==
  ASSUME NEW i \in Nat, NEW n \in Nat
  PROVE  IsFiniteSet(i .. i + n - 1) /\ Cardinality(i .. i + n - 1) = n
BY FS_Interval

\* Slots that are taken from a slab or given back change the count as the bitmap.
LEMMA CountsTake ==
  ASSUME NEW s \in SlabRecord, Counts(s), NEW i \in Nat, NEW n \in Nat,
         i + n <= s.slabCount, s.used \cap (i .. i + n - 1) = {}
  PROVE  LET s2 == [s EXCEPT !.used = @ \cup (i .. i + n - 1), !.freeCount = @ - n]
         IN  s2 \in SlabRecord /\ Counts(s2)
<1> DEFINE R == i .. i + n - 1
           U == s.used \cup R
<1>1. /\ s.slabCount \in Nat /\ s.used \subseteq 0 .. s.slabCount - 1
      /\ s.freeCount = s.slabCount - Cardinality(s.used)
  BY DEF SlabRecord, Counts
<1>2. IsFiniteSet(R) /\ Cardinality(R) = n
  BY RunSize
<1>3. R \subseteq 0 .. s.slabCount - 1 /\ U \subseteq 0 .. s.slabCount - 1 /\ U \subseteq Nat
  BY <1>1
<1>4. IsFiniteSet(s.used) /\ Cardinality(s.used) \in Nat
  BY <1>1, SlotsFinite
<1>5. Cardinality(U) \in Nat /\ Cardinality(U) <= s.slabCount
  BY <1>1, <1>3, SlotsFinite
<1>6. s.used \cap R = {}
  OBVIOUS
<1> HIDE DEF R
<1>7. Cardinality(U) = Cardinality(s.used) + n - Cardinality({})
  BY <1>2, <1>4, <1>6, FS_Union
<1>8. Cardinality({}) = 0
  BY FS_EmptySet
<1> DEFINE s2 == [s EXCEPT !.used = @ \cup R, !.freeCount = @ - n]
<1>9. s2.used = U /\ s2.slabCount = s.slabCount /\ s2.freeCount = s.freeCount - n
  BY DEF SlabRecord
<1> HIDE DEF s2
<1>10. s2.freeCount = s2.slabCount - Cardinality(s2.used) /\ s.freeCount - n \in Nat
  <2> HIDE DEF U
  <2> QED
    BY <1>1, <1>4, <1>5, <1>7, <1>8, <1>9
<1>11. s2 \in SlabRecord
  BY <1>3, <1>10 DEF SlabRecord, s2
<1>12. Counts(s2)
  BY <1>3, <1>9, <1>10 DEF Counts
<1> QED
  BY <1>11, <1>12 DEF s2, R

LEMMA CountsGive ==
  ASSUME NEW s \in SlabRecord, Counts(s), NEW R, R \subseteq s.used
  PROVE  LET s2 == [s EXCEPT !.used = @ \ R, !.freeCount = @ + Cardinality(R)]
         IN  s2 \in SlabRecord /\ Counts(s2)
<1> DEFINE U == s.used \ R
           s2 == [s EXCEPT !.used = @ \ R, !.freeCount = @ + Cardinality(R)]
<1>1. /\ s.slabCount \in Nat /\ s.used \subseteq 0 .. s.slabCount - 1
      /\ s.freeCount = s.slabCount - Cardinality(s.used)
  BY DEF SlabRecord, Counts
<1>2. /\ IsFiniteSet(s.used) /\ Cardinality(s.used) \in Nat /\ Cardinality(s.used) <= s.slabCount
      /\ IsFiniteSet(R) /\ Cardinality(R) \in Nat
  <2>1. R \subseteq 0 .. s.slabCount - 1
    BY <1>1
  <2> QED
    BY <1>1, <2>1, SlotsFinite
<1>3. U \subseteq 0 .. s.slabCount - 1 /\ U \subseteq Nat
  BY <1>1
<1>4. Cardinality(U) = Cardinality(s.used) - Cardinality(s.used \cap R)
  BY <1>2, FS_Difference
<1>5. s.used \cap R = R
  OBVIOUS
<1>6. s2.used = U /\ s2.slabCount = s.slabCount /\ s2.freeCount = s.freeCount + Cardinality(R)
  BY DEF SlabRecord
<1> HIDE DEF s2
<1>7. s2.freeCount = s2.slabCount - Cardinality(s2.used) /\ s.freeCount + Cardinality(R) \in Nat
  <2> HIDE DEF U
  <2> QED
    BY <1>1, <1>2, <1>4, <1>5, <1>6
<1>8. s2 \in SlabRecord
  BY <1>3, <1>7 DEF SlabRecord, s2
<1>9. Counts(s2)
  BY <1>3, <1>6, <1>7 DEF Counts
<1> QED
  BY <1>8, <1>9 DEF s2

-----------------------------------------------------------------------------
(* Slots of a slab that are given out                                      *)

\* Slab t of ss after slots were taken from it or given back.
LEMMA WithSlab ==
  ASSUME NEW ss \in Seq(SlabRecord), \A u \in DOMAIN ss : Counts(ss[u]),
         NEW t \in DOMAIN ss, NEW s \in SlabRecord, Counts(s)
  PROVE  LET ss2 == [ss EXCEPT ![t] = s]
         IN  /\ ss2 \in Seq(SlabRecord) /\ \A u \in DOMAIN ss2 : Counts(ss2[u])
             /\ DOMAIN ss2 = DOMAIN ss /\ ss2[t] = s
             /\ \A u \in DOMAIN ss : u # t => ss2[u] = ss[u]
<1> DEFINE ss2 == [ss EXCEPT ![t] = s]
<1>1. t \in 1 .. Len(ss)
  BY LenProperties
<1>2. ss2 \in Seq(SlabRecord)
  BY <1>1, ExceptSeq
<1>3. DOMAIN ss2 = DOMAIN ss /\ ss2[t] = s /\ \A u \in DOMAIN ss : u # t => ss2[u] = ss[u]
  OBVIOUS
<1> HIDE DEF ss2
<1>4. \A u \in DOMAIN ss2 : Counts(ss2[u])
  BY <1>3
<1> QED
  BY <1>2, <1>3, <1>4 DEF ss2

\* A fresh slab holds no block.
LEMMA SlabAdded ==
  ASSUME SlabInv, NEW n \in Nat, NEW base \in Bases
  PROVE  LET ss == Append(slabs, Slab!NewSlab(n, base))
         IN  /\ SlabGood(ss, header, slabLive)
             /\ Len(slabs) + 1 \in DOMAIN ss
             /\ ss[Len(slabs) + 1].used = {} /\ n <= ss[Len(slabs) + 1].slabCount
<1> DEFINE new == Slab!NewSlab(n, base)
           ss == Append(slabs, new)
           last == Len(slabs) + 1
<1>1. new \in SlabRecord /\ Counts(new) /\ new.used = {} /\ n <= new.slabCount
  <2> DEFINE c == IF n > DefaultCount THEN n ELSE DefaultCount
  <2>1. /\ c \in Nat /\ n <= c
        /\ new = [base |-> base, slabCount |-> c, used |-> {}, freeCount |-> c]
    <3>1. c \in Nat /\ n <= c
      BY SlabConstants
    <3> QED
      BY <3>1, Zenon DEF Slab!NewSlab
  <2> HIDE DEF c
  <2>2. Cardinality({}) = 0
    BY FS_EmptySet
  <2> QED
    BY <2>1, <2>2 DEF SlabRecord, Counts
<1> HIDE DEF new
<1>2. slabs \in Seq(SlabRecord)
  BY DEF SlabInv, SlabGood
<1>3. /\ ss \in Seq(SlabRecord) /\ last \in DOMAIN ss /\ ss[last] = new
      /\ \A t \in DOMAIN slabs : t \in DOMAIN ss /\ ss[t] = slabs[t]
      /\ \A t \in DOMAIN ss : t \in DOMAIN slabs \/ t = last
  BY <1>1, <1>2, AppendProperties, LenProperties
<1> HIDE DEF ss, last
<1>4. \A t \in DOMAIN ss : Counts(ss[t])
  BY <1>1, <1>3 DEF SlabInv, SlabGood
<1>5. \A t \in DOMAIN ss : \A i \in ss[t].used : \E b \in slabLive : b.slab = t /\ i \in SlotsOf(header, b)
  BY <1>1, <1>3 DEF SlabInv, SlabGood
<1>6. \A b \in slabLive : b.slab \in DOMAIN ss /\ SlotsOf(header, b) \subseteq ss[b.slab].used
  BY <1>3 DEF SlabInv, SlabGood
<1>7. SlabGood(ss, header, slabLive)
  BY <1>3, <1>4, <1>5, <1>6 DEF SlabInv, SlabGood
<1>8. SlabGood(ss, header, slabLive) /\ last \in DOMAIN ss
      /\ ss[last].used = {} /\ n <= ss[last].slabCount
  BY <1>1, <1>3, <1>7
<1> QED
  BY Zenon, <1>8 DEF ss, last, new

\* Where a run of n slots is taken from there is one, and the first is found.
LEMMA Placement ==
  ASSUME SlabInv, NEW n \in Nat, n > 0, NEW p \in Slab!Placements(n)
  PROVE  LET i == Slab!FindRun(p[1][p[2]], n)
         IN  /\ SlabGood(p[1], header, slabLive) /\ p[2] \in DOMAIN p[1]
             /\ i \in Nat /\ i + n <= p[1][p[2]].slabCount
             /\ p[1][p[2]].used \cap (i .. i + n - 1) = {}
<1> DEFINE s == p[1][p[2]]
<1>1. SlabGood(p[1], header, slabLive) /\ p[2] \in DOMAIN p[1] /\ Slab!Runs(s, n) # {}
  <2>1. CASE Slab!Roomy(n) # {}
    <3>1. p \in {<<slabs, t>> : t \in {u \in Slab!Roomy(n) : \A v \in Slab!Roomy(n) : v <= u}}
      BY <2>1 DEF Slab!Placements
    <3>2. PICK t \in Slab!Roomy(n) : p = <<slabs, t>>
      BY <3>1
    <3>3. p[1] = slabs /\ p[2] = t
      BY <3>2
    <3> QED
      BY <3>3 DEF Slab!Roomy, SlabInv
  <2>2. CASE Slab!Roomy(n) = {}
    <3>1. PICK base \in Bases : p = <<Append(slabs, Slab!NewSlab(n, base)), Len(slabs) + 1>>
      BY <2>2 DEF Slab!Placements
    <3>2. p[1] = Append(slabs, Slab!NewSlab(n, base)) /\ p[2] = Len(slabs) + 1
      BY <3>1
    <3>3. SlabGood(p[1], header, slabLive) /\ p[2] \in DOMAIN p[1]
          /\ s.used = {} /\ n <= s.slabCount
      BY <3>2, SlabAdded
    <3>4. s \in SlabRecord
      BY <3>3, ElementOfSeq, LenProperties DEF SlabGood
    <3>5. 0 \in Slab!Runs(s, n)
      BY <3>3, <3>4 DEF Slab!Runs, SlabRecord
    <3> QED
      BY <3>3, <3>5
  <2> QED
    BY <2>1, <2>2
<1>2. s \in SlabRecord
  BY <1>1, ElementOfSeq, LenProperties DEF SlabGood
<1> HIDE DEF s
<1> DEFINE R == Slab!Runs(s, n)
<1>3. R \subseteq Nat /\ \A i \in R : i + n <= s.slabCount /\ s.used \cap (i .. i + n - 1) = {}
  BY <1>2 DEF Slab!Runs, SlabRecord
<1>4. R # {}
  BY <1>1
<1> HIDE DEF R
<1>5. \E i \in R : \A j \in R : i <= j
  BY <1>3, <1>4, LeastOf
<1>6. Slab!FindRun(s, n) \in R
  BY <1>5 DEF Slab!FindRun, R
<1> QED
  BY <1>1, <1>3, <1>6 DEF s

\* Slabs ss and headers hd once block n took the slots of header h.
Filled(ss, n, h) ==
  [ss EXCEPT ![n.slab] = [ss[n.slab] EXCEPT !.used = @ \cup Slab!Run(h), !.freeCount = @ - h.count]]

Headed(hd, n, h) ==
  LET kept == Slab!Overwrite(hd, n.slab, n.pos - HeaderSize, n.pos + n.len)
  IN  [q \in DOMAIN kept \cup {Slab!Place(n)} |-> IF q = Slab!Place(n) THEN h ELSE kept[q]]

\* Block n joins blocks bs, with all their headers in place.
Joins(ss2, hd2, hd, bs, n) ==
  /\ SlabGood(ss2, hd2, bs \cup {n}) /\ n \notin bs
  /\ \A b \in bs : Slab!Place(b) # Slab!Place(n) /\ hd2[Slab!Place(b)] = hd[Slab!Place(b)]

\* Block n is put into slots that were free.  Its header and its bytes damage no
\* other header.
LEMMA TakeSlots ==
  ASSUME NEW ss, NEW hd, NEW bs, SlabGood(ss, hd, bs), NEW n \in Slab!Block,
         NEW h, InSlots(h, n), n.slab \in DOMAIN ss,
         h.index + h.count <= ss[n.slab].slabCount,
         ss[n.slab].used \cap Slab!Run(h) = {}
  PROVE  Joins(Filled(ss, n, h), Headed(hd, n, h), hd, bs, n)
<1> DEFINE ss2 == Filled(ss, n, h)
           hd2 == Headed(hd, n, h)
<1> DEFINE t == n.slab
           s == [ss[t] EXCEPT !.used = @ \cup Slab!Run(h), !.freeCount = @ - h.count]
           kept == Slab!Overwrite(hd, t, n.pos - HeaderSize, n.pos + n.len)
<1>1. /\ h.index \in Nat /\ h.count \in Nat /\ Slab!Run(h) = h.index .. h.index + h.count - 1
      /\ n.pos \in Nat /\ n.len \in Nat
  BY RunFacts
<1>2. ss[t] \in SlabRecord /\ Counts(ss[t])
  BY ElementOfSeq, LenProperties DEF SlabGood
<1>3. s \in SlabRecord /\ Counts(s)
  BY <1>1, <1>2, CountsTake
<1>4. s.used = ss[t].used \cup Slab!Run(h)
  BY <1>2 DEF SlabRecord
<1>5. /\ ss2 \in Seq(SlabRecord) /\ \A u \in DOMAIN ss2 : Counts(ss2[u])
      /\ DOMAIN ss2 = DOMAIN ss /\ ss2[t].used = ss[t].used \cup Slab!Run(h)
      /\ \A u \in DOMAIN ss : u # t => ss2[u] = ss[u]
  <2>1. ss \in Seq(SlabRecord) /\ \A u \in DOMAIN ss : Counts(ss[u])
    BY DEF SlabGood
  <2>2. ss2 = [ss EXCEPT ![t] = s]
    BY DEF Filled
  <2> HIDE DEF s, t
  <2>3. t \in DOMAIN ss
    BY DEF t
  <2> QED
    BY <1>3, <1>4, <2>1, <2>2, <2>3, WithSlab
<1>6. ASSUME NEW b \in bs
      PROVE  /\ b.slab # t \/ b.pos + b.len <= n.pos - HeaderSize
                           \/ n.pos + n.len <= b.pos - HeaderSize
             /\ b \in Slab!Block
             /\ b.slab = t => SlotsOf(hd, b) \cap Slab!Run(h) = {}
  <2> DEFINE g == hd[Slab!Place(b)]
  <2>1. InSlots(g, b) /\ b \in Slab!Block /\ Slab!Run(g) \subseteq ss[b.slab].used
    BY DEF SlabGood, SlotsOf
  <2>2. b.slab = t => Slab!Run(g) \cap Slab!Run(h) = {}
    BY <2>1
  <2> HIDE DEF g
  <2>3. CASE b.slab = t
    <3>1. /\ g.index \in Nat /\ g.count \in Nat /\ g.count > 0 /\ b.pos \in Nat /\ b.len \in Nat
          /\ At(g.index) \in Nat /\ At(g.index + g.count) \in Nat
          /\ At(g.index) + HeaderSize <= b.pos /\ b.pos + b.len <= At(g.index + g.count)
          /\ Slab!Run(g) = g.index .. g.index + g.count - 1
      BY <2>1, RunFacts
    <3>2. /\ h.count > 0 /\ At(h.index) \in Nat /\ At(h.index + h.count) \in Nat
          /\ At(h.index) + HeaderSize <= n.pos /\ n.pos + n.len <= At(h.index + h.count)
      BY RunFacts
    <3>3. At(g.index + g.count) <= At(h.index) \/ At(h.index + h.count) <= At(g.index)
      BY <1>1, <2>2, <2>3, <3>1, <3>2, RunsApart
    <3> DEFINE x1 == At(g.index)
               x2 == At(g.index + g.count)
               y1 == At(h.index)
               y2 == At(h.index + h.count)
    <3>4. /\ x1 \in Nat /\ x2 \in Nat /\ y1 \in Nat /\ y2 \in Nat
          /\ x1 + HeaderSize <= b.pos /\ b.pos + b.len <= x2
          /\ y1 + HeaderSize <= n.pos /\ n.pos + n.len <= y2
          /\ x2 <= y1 \/ y2 <= x1
      BY <3>1, <3>2, <3>3
    <3>5. b.pos \in Nat /\ b.len \in Nat /\ n.pos \in Nat /\ n.len \in Nat
      BY <1>1, <3>1
    <3> HIDE DEF x1, x2, y1, y2
    <3>6. b.pos + b.len <= n.pos - HeaderSize \/ n.pos + n.len <= b.pos - HeaderSize
      BY <3>4, <3>5, SlabConstants
    <3> QED
      BY <2>1, <2>2, <3>6 DEF g, SlotsOf
  <2> QED
    BY <2>1, <2>3 DEF t
<1>7. ASSUME NEW b \in bs
      PROVE  Slab!Place(b) \in DOMAIN kept /\ Slab!Place(b) # Slab!Place(n)
  <2>1. Slab!Place(b) \in DOMAIN hd /\ Slab!Place(b)[1] = b.slab /\ Slab!Place(b)[2] = b.pos
    BY DEF SlabGood, Slab!Place
  <2>2. b.pos \in Nat /\ b.len \in Nat
    BY <1>6 DEF Slab!Block
  <2>3. b.slab # t \/ b.pos <= n.pos - HeaderSize \/ n.pos + n.len <= b.pos - HeaderSize
    BY <1>1, <1>6, <2>2, SlabConstants
  <2>4. Slab!Place(b) \in DOMAIN kept
    BY <2>1, <2>3 DEF Slab!Overwrite
  <2>5. Slab!Place(b) # Slab!Place(n)
    BY <1>1, <2>2, <2>3, SlabConstants DEF Slab!Place
  <2> QED
    BY <2>4, <2>5
<1>8. /\ Slab!Place(n) \in DOMAIN hd2 /\ hd2[Slab!Place(n)] = h
      /\ \A q \in DOMAIN hd2 : q = Slab!Place(n) \/ (q \in DOMAIN hd /\ hd2[q] = hd[q])
      /\ \A b \in bs : Slab!Place(b) \in DOMAIN hd2 /\ hd2[Slab!Place(b)] = hd[Slab!Place(b)]
  <2>1. \A q \in DOMAIN kept : q \in DOMAIN hd /\ kept[q] = hd[q]
    BY DEF Slab!Overwrite
  <2>2. hd2 = [q \in DOMAIN kept \cup {Slab!Place(n)} |-> IF q = Slab!Place(n) THEN h ELSE kept[q]]
    BY DEF Headed
  <2> HIDE DEF kept
  <2> QED
    BY <1>7, <2>1, <2>2
<1> HIDE DEF t, s, kept, ss2, hd2
<1>9. SlotsOf(hd2, n) = Slab!Run(h) /\ \A b \in bs : SlotsOf(hd2, b) = SlotsOf(hd, b)
  BY <1>8 DEF SlotsOf
<1>10. \A q \in DOMAIN hd2 : hd2[q] \in Slab!Header
  BY <1>8 DEF SlabGood, InSlots
<1>11. ASSUME NEW b \in bs \cup {n}
       PROVE  /\ b.slab \in DOMAIN ss2 /\ Slab!Place(b) \in DOMAIN hd2
              /\ InSlots(hd2[Slab!Place(b)], b)
              /\ SlotsOf(hd2, b) \subseteq ss2[b.slab].used
  <2>1. CASE b = n
    BY <1>5, <1>8, <1>9, <2>1 DEF t
  <2>2. CASE b \in bs
    <3>1. /\ b.slab \in DOMAIN ss /\ InSlots(hd[Slab!Place(b)], b)
          /\ SlotsOf(hd, b) \subseteq ss[b.slab].used
      BY <2>2 DEF SlabGood
    <3>2. ss[b.slab].used \subseteq ss2[b.slab].used
      BY <1>5, <3>1
    <3> QED
      BY <1>5, <1>8, <1>9, <2>2, <3>1, <3>2
  <2> QED
    BY <2>1, <2>2
<1>12. ASSUME NEW b \in bs \cup {n}, NEW d \in bs \cup {n}, b # d, b.slab = d.slab
       PROVE  SlotsOf(hd2, b) \cap SlotsOf(hd2, d) = {}
  <2>1. CASE b \in bs /\ d \in bs
    BY <1>9, <1>12, <2>1 DEF SlabGood
  <2>2. CASE b = n /\ d \in bs
    BY <1>6, <1>9, <1>12, <2>2 DEF t
  <2>3. CASE b \in bs /\ d = n
    BY <1>6, <1>9, <1>12, <2>3 DEF t
  <2> QED
    BY <1>12, <2>1, <2>2, <2>3
<1>13. ASSUME NEW u \in DOMAIN ss2, NEW i \in ss2[u].used
       PROVE  \E b \in bs \cup {n} : b.slab = u /\ i \in SlotsOf(hd2, b)
  <2>1. CASE u = t /\ i \in Slab!Run(h)
    BY <1>9, <2>1 DEF t
  <2>2. CASE ~(u = t /\ i \in Slab!Run(h))
    <3>1. u \in DOMAIN ss /\ i \in ss[u].used
      BY <1>5, <1>13, <2>2
    <3>2. PICK b \in bs : b.slab = u /\ i \in SlotsOf(hd, b)
      BY <3>1 DEF SlabGood
    <3> QED
      BY <1>9, <3>2
  <2> QED
    BY <2>1, <2>2
<1>14. SlabGood(ss2, hd2, bs \cup {n})
  <2>1. bs \cup {n} \subseteq Slab!Block
    BY DEF SlabGood
  <2> QED
    BY <1>5, <1>10, <1>11, <1>12, <1>13, <2>1 DEF SlabGood
<1> QED
  BY <1>7, <1>8, <1>14 DEF Joins, ss2, hd2

\* What an allocation becomes that takes n slots of slab p[2] of p[1].
Result(p, n, size, align) ==
  LET t     == p[2]
      index == Slab!FindRun(p[1][t], n)
      start == Slab!Start(p[1][t].base, index, align)
      kept  == Slab!Overwrite(header, t, start - HeaderSize, start + size)
  IN  [slabs  |-> [p[1] EXCEPT ![t].used = @ \cup (index .. index + n - 1),
                               ![t].freeCount = @ - n],
       header |-> [q \in DOMAIN kept \cup {<<t, start>>} |->
                     IF q = <<t, start>> THEN [index |-> index, count |-> n]
                     ELSE kept[q]],
       block  |-> [slab |-> t, pos |-> start, len |-> size]]

LEMMA AllocIs ==
  ASSUME NEW size, NEW align, NEW a \in Slab!Allocs(size, align)
  PROVE  /\ size # 0
         /\ \E p \in Slab!Placements(Slab!Need(size, align)) :
              a = Result(p, Slab!Need(size, align), size, align)
<1>1. ~(size = 0 \/ Slab!EffAlign(align) > SlabSize)
  BY DEF Slab!Allocs
<1>2. Slab!Allocs(size, align)
        = {Result(p, Slab!Need(size, align), size, align) :
             p \in Slab!Placements(Slab!Need(size, align))}
  BY <1>1, Zenon DEF Slab!Allocs, Result
<1> QED
  BY <1>1, <1>2

\* A new block lies in the slots that were found for it.
LEMMA AllocGood ==
  ASSUME SlabInv, NEW size \in Nat, NEW align \in Nat, NEW a \in Slab!Allocs(size, align)
  PROVE  /\ Joins(a.slabs, a.header, header, slabLive, a.block)
         /\ a.block \in Slab!Block /\ a.block.len = size
<1> DEFINE n == Slab!Need(size, align)
           e == Slab!EffAlign(align)
<1>1. PICK p \in Slab!Placements(n) : a = Result(p, n, size, align)
  BY AllocIs
<1> DEFINE ss    == p[1]
           t     == p[2]
           index == Slab!FindRun(ss[t], n)
           start == Slab!Start(ss[t].base, index, align)
           b     == a.block
           h     == [index |-> index, count |-> n]
           kept  == Slab!Overwrite(header, t, start - HeaderSize, start + size)
<1>2. /\ a.slabs = [ss EXCEPT ![t].used = @ \cup (index .. index + n - 1),
                              ![t].freeCount = @ - n]
      /\ a.header = [q \in DOMAIN kept \cup {<<t, start>>} |->
                       IF q = <<t, start>> THEN h ELSE kept[q]]
      /\ b = [slab |-> t, pos |-> start, len |-> size]
  BY <1>1 DEF Result
<1>3. size # 0
  BY AllocIs
<1>4. e \in Nat /\ e > 0
  BY DEF Slab!EffAlign
<1>5. n \in Nat /\ e - 1 + size + HeaderSize <= At(n)
  <2>1. e - 1 + size + HeaderSize \in Nat
    BY <1>4, SlabConstants
  <2>2. n = Slab!DivCeil(e - 1 + size + HeaderSize, SlabSize)
    BY DEF Slab!Need
  <2> HIDE DEF n, e
  <2> QED
    BY <2>1, <2>2, DivCeilBounds
<1>6. n > 0
  <2> HIDE DEF n, e
  <2>1. n # 0
    BY <1>3, <1>4, <1>5, AtZero, SlabConstants
  <2> QED
    BY <1>5, <2>1
<1>7. /\ SlabGood(ss, header, slabLive) /\ t \in DOMAIN ss
      /\ index \in Nat /\ index + n <= ss[t].slabCount
      /\ ss[t].used \cap (index .. index + n - 1) = {}
  BY <1>5, <1>6, Placement
<1>8. /\ start \in Nat /\ At(index) + HeaderSize <= start
      /\ start <= At(index) + HeaderSize + e - 1
  <2>1. ss[t].base \in Nat
    <3>1. ss[t] \in SlabRecord
      BY <1>7, ElementOfSeq, LenProperties DEF SlabGood
    <3> QED
      BY <3>1, SlabConstants DEF SlabRecord
  <2> HIDE DEF index, ss, t
  <2> QED
    BY <1>7, <2>1, StartBounds
<1>9. t \in Nat
  BY <1>7, LenProperties DEF SlabGood
<1>10. h.index = index /\ h.count = n /\ h \in Slab!Header
       /\ Slab!Run(h) = index .. index + n - 1
  BY <1>5, <1>7 DEF Slab!Header, Slab!Run
<1>11. b.slab = t /\ b.pos = start /\ b.len = size /\ b \in Slab!Block
       /\ Slab!Place(b) = <<t, start>>
  BY <1>2, <1>8, <1>9 DEF Slab!Block, Slab!Place
<1> HIDE DEF n, e, ss, t, index, start, b, h
<1>12. start + size <= At(index + n)
  <2>1. At(index + n) = At(index) + At(n) /\ At(index) \in Nat /\ At(n) \in Nat
    BY <1>5, <1>7, AtSum, AtType
  <2> QED
    BY <1>4, <1>5, <1>8, <2>1, SlabConstants
<1>13. InSlots(h, b)
  BY <1>6, <1>8, <1>10, <1>11, <1>12 DEF InSlots
<1>14. a.slabs = Filled(ss, b, h)
  <2> HIDE DEF kept
  <2>1. a.slabs = [ss EXCEPT ![t] = [ss[t] EXCEPT !.used = @ \cup (index .. index + n - 1),
                                                  !.freeCount = @ - n]]
    BY <1>2
  <2> QED
    BY <1>10, <1>11, <2>1 DEF Filled
<1>15. a.header = Headed(header, b, h)
  BY <1>2, <1>11 DEF Headed
<1>16. /\ b.slab \in DOMAIN ss /\ h.index + h.count <= ss[b.slab].slabCount
       /\ ss[b.slab].used \cap Slab!Run(h) = {}
  BY <1>7, <1>10, <1>11
<1> HIDE DEF kept
<1>17. Joins(Filled(ss, b, h), Headed(header, b, h), header, slabLive, b)
  BY <1>7, <1>11, <1>13, <1>16, TakeSlots
<1> QED
  BY <1>11, <1>14, <1>15, <1>17 DEF b

-----------------------------------------------------------------------------
(* Blocks that stay where they are, and blocks that go                     *)

LEMMA SlabCardinality == \A S : Slab!Cardinality(S) = Cardinality(S)
BY Zenon DEF Slab!Cardinality, Cardinality

\* In slab t the slots in use are those of set U.
NowUsed(ss2, ss, t, U) ==
  /\ ss2 \in Seq(SlabRecord) /\ \A u \in DOMAIN ss2 : Counts(ss2[u])
  /\ DOMAIN ss2 = DOMAIN ss /\ ss2[t].used = U
  /\ \A u \in DOMAIN ss : u # t => ss2[u] = ss[u]

\* Slots given back are free, and counted.
LEMMA FreedIs ==
  ASSUME NEW ss \in Seq(SlabRecord), \A u \in DOMAIN ss : Counts(ss[u]),
         NEW t \in DOMAIN ss, NEW R, R \subseteq ss[t].used
  PROVE  NowUsed(Slab!Freed(ss, t, R), ss, t, ss[t].used \ R)
<1> DEFINE s == [ss[t] EXCEPT !.used = @ \ R, !.freeCount = @ + Cardinality(R)]
           ss2 == [ss EXCEPT ![t] = s]
<1>1. ss[t] \in SlabRecord /\ Counts(ss[t])
  BY ElementOfSeq, LenProperties
<1>2. s \in SlabRecord /\ Counts(s)
  BY <1>1, CountsGive
<1>3. s.used = ss[t].used \ R
  BY <1>1 DEF SlabRecord
<1>4. Slab!Freed(ss, t, R) = [ss EXCEPT ![t].used = @ \ R, ![t].freeCount = @ + Cardinality(R)]
  BY SlabCardinality, Zenon DEF Slab!Freed
<1>5. Slab!Freed(ss, t, R) = ss2
  BY <1>4
<1> HIDE DEF s
<1>6. /\ ss2 \in Seq(SlabRecord) /\ \A u \in DOMAIN ss2 : Counts(ss2[u])
      /\ DOMAIN ss2 = DOMAIN ss /\ ss2[t] = s
      /\ \A u \in DOMAIN ss : u # t => ss2[u] = ss[u]
  BY <1>2, WithSlab
<1> HIDE DEF ss2
<1> QED
  BY <1>3, <1>5, <1>6 DEF NowUsed

\* A block that goes leaves its slots.
LEMMA FreeGood ==
  ASSUME NEW ss, NEW hd, NEW bs, SlabGood(ss, hd, bs), NEW b \in bs
  PROVE  SlabGood(Slab!Freed(ss, b.slab, SlotsOf(hd, b)), Slab!Forget(hd, b), bs \ {b})
<1> DEFINE t == b.slab
           R == SlotsOf(hd, b)
           ss2 == Slab!Freed(ss, t, R)
           hd2 == Slab!Forget(hd, b)
<1>1. NowUsed(ss2, ss, t, ss[t].used \ R)
  BY FreedIs DEF SlabGood
<1>2. /\ \A q \in DOMAIN hd2 : q \in DOMAIN hd /\ hd2[q] = hd[q]
      /\ \A d \in bs \ {b} : Slab!Place(d) \in DOMAIN hd2 /\ hd2[Slab!Place(d)] = hd[Slab!Place(d)]
  <2>1. \A d \in bs \ {b} : Slab!Place(d) \in DOMAIN hd /\ Slab!Place(d) # Slab!Place(b)
    BY PlacesDiffer DEF SlabGood
  <2> QED
    BY <2>1 DEF Slab!Forget
<1> HIDE DEF ss2, hd2
<1>3. \A d \in bs \ {b} : SlotsOf(hd2, d) = SlotsOf(hd, d)
  BY <1>2 DEF SlotsOf
<1>4. \A q \in DOMAIN hd2 : hd2[q] \in Slab!Header
  BY <1>2 DEF SlabGood
<1>5. ASSUME NEW d \in bs \ {b}
      PROVE  /\ d.slab \in DOMAIN ss2 /\ Slab!Place(d) \in DOMAIN hd2
             /\ InSlots(hd2[Slab!Place(d)], d)
             /\ SlotsOf(hd2, d) \subseteq ss2[d.slab].used
  <2>1. /\ d.slab \in DOMAIN ss /\ InSlots(hd[Slab!Place(d)], d)
        /\ SlotsOf(hd, d) \subseteq ss[d.slab].used
        /\ d.slab = t => SlotsOf(hd, d) \cap R = {}
    BY DEF SlabGood
  <2> HIDE DEF R
  <2>2. CASE d.slab = t
    BY <1>1, <1>2, <1>3, <2>1, <2>2 DEF NowUsed
  <2>3. CASE d.slab # t
    BY <1>1, <1>2, <1>3, <2>1, <2>3 DEF NowUsed
  <2> QED
    BY <2>2, <2>3
<1>6. \A c, d \in bs \ {b} : c # d /\ c.slab = d.slab => SlotsOf(hd2, c) \cap SlotsOf(hd2, d) = {}
  BY <1>3 DEF SlabGood
<1>7. ASSUME NEW u \in DOMAIN ss2, NEW i \in ss2[u].used
      PROVE  \E d \in bs \ {b} : d.slab = u /\ i \in SlotsOf(hd2, d)
  <2>1. u \in DOMAIN ss /\ i \in ss[u].used /\ ~(u = t /\ i \in R)
    BY <1>1, <1>7 DEF NowUsed
  <2>2. PICK d \in bs : d.slab = u /\ i \in SlotsOf(hd, d)
    BY <2>1 DEF SlabGood
  <2>3. d # b
    BY <2>1, <2>2
  <2> QED
    BY <1>3, <2>2, <2>3
<1>8. SlabGood(ss2, hd2, bs \ {b})
  <2>1. bs \ {b} \subseteq Slab!Block
    BY DEF SlabGood
  <2>2. ss2 \in Seq(SlabRecord) /\ \A u \in DOMAIN ss2 : Counts(ss2[u])
    BY <1>1 DEF NowUsed
  <2> QED
    BY <1>4, <1>5, <1>6, <1>7, <2>1, <2>2 DEF SlabGood
<1> QED
  BY <1>8 DEF ss2, hd2

\* Of headers hd, that of block b becomes h; those of the other blocks stay.
NowHeaded(hd2, hd, bs, b, h) ==
  /\ \A q \in DOMAIN hd2 : hd2[q] = h \/ (q \in DOMAIN hd /\ hd2[q] = hd[q])
  /\ Slab!Place(b) \in DOMAIN hd2 /\ hd2[Slab!Place(b)] = h
  /\ \A d \in bs \ {b} :
       Slab!Place(d) \in DOMAIN hd2 /\ hd2[Slab!Place(d)] = hd[Slab!Place(d)]

\* Block b becomes n, in the first slots of its run, and the others are given back.
LEMMA ResizeGood ==
  ASSUME NEW ss, NEW hd, NEW bs, SlabGood(ss, hd, bs), NEW b \in bs,
         NEW n \in Slab!Block, n.slab = b.slab, n.pos = b.pos,
         NEW h, InSlots(h, n), Slab!Run(h) \subseteq SlotsOf(hd, b),
         NEW ss2, NowUsed(ss2, ss, b.slab, ss[b.slab].used \ (SlotsOf(hd, b) \ Slab!Run(h))),
         NEW hd2, NowHeaded(hd2, hd, bs, b, h)
  PROVE  SlabGood(ss2, hd2, (bs \ {b}) \cup {n})
<1> DEFINE t == b.slab
           R == SlotsOf(hd, b)
           bs2 == (bs \ {b}) \cup {n}
<1>0. /\ \A q \in DOMAIN hd2 : hd2[q] = h \/ (q \in DOMAIN hd /\ hd2[q] = hd[q])
      /\ Slab!Place(b) \in DOMAIN hd2 /\ hd2[Slab!Place(b)] = h
      /\ \A d \in bs \ {b} :
           Slab!Place(d) \in DOMAIN hd2 /\ hd2[Slab!Place(d)] = hd[Slab!Place(d)]
  BY DEF NowHeaded
<1>1. /\ \A d \in bs \ {b} : SlotsOf(hd2, d) = SlotsOf(hd, d)
      /\ SlotsOf(hd2, n) = Slab!Run(h) /\ Slab!Place(n) = Slab!Place(b)
  BY <1>0 DEF SlotsOf, Slab!Place
<1>2. R \subseteq ss[t].used /\ t \in DOMAIN ss
      /\ \A d \in bs \ {b} : d.slab = t => SlotsOf(hd, d) \cap R = {}
  BY DEF SlabGood
<1> HIDE DEF R, t
<1>3. /\ ss2 \in Seq(SlabRecord) /\ \A u \in DOMAIN ss2 : Counts(ss2[u])
      /\ DOMAIN ss2 = DOMAIN ss /\ ss2[t].used = ss[t].used \ (R \ Slab!Run(h))
      /\ \A u \in DOMAIN ss : u # t => ss2[u] = ss[u]
  BY DEF NowUsed, R, t
<1>4. \A q \in DOMAIN hd2 : hd2[q] \in Slab!Header
  BY <1>0 DEF SlabGood, InSlots
<1>5. ASSUME NEW d \in bs2
      PROVE  /\ d.slab \in DOMAIN ss2 /\ Slab!Place(d) \in DOMAIN hd2
             /\ InSlots(hd2[Slab!Place(d)], d)
             /\ SlotsOf(hd2, d) \subseteq ss2[d.slab].used
  <2>1. CASE d = n
    BY <1>0, <1>1, <1>2, <1>3, <2>1 DEF R, t
  <2>2. CASE d \in bs \ {b}
    <3>1. /\ d.slab \in DOMAIN ss /\ InSlots(hd[Slab!Place(d)], d)
          /\ SlotsOf(hd, d) \subseteq ss[d.slab].used
          /\ d.slab = t => SlotsOf(hd, d) \cap R = {}
      BY <1>2, <2>2 DEF SlabGood
    <3>2. SlotsOf(hd, d) \subseteq ss2[d.slab].used
      BY <1>3, <3>1
    <3> QED
      BY <1>0, <1>1, <1>3, <2>2, <3>1, <3>2
  <2> QED
    BY <2>1, <2>2
<1>6. ASSUME NEW c \in bs2, NEW d \in bs2, c # d, c.slab = d.slab
      PROVE  SlotsOf(hd2, c) \cap SlotsOf(hd2, d) = {}
  <2>1. CASE c \in bs \ {b} /\ d \in bs \ {b}
    BY <1>1, <1>6, <2>1 DEF SlabGood
  <2>2. CASE c = n /\ d \in bs \ {b}
    BY <1>1, <1>2, <1>6, <2>2 DEF R, t
  <2>3. CASE c \in bs \ {b} /\ d = n
    BY <1>1, <1>2, <1>6, <2>3 DEF R, t
  <2> QED
    BY <1>6, <2>1, <2>2, <2>3
<1>7. ASSUME NEW u \in DOMAIN ss2, NEW i \in ss2[u].used
      PROVE  \E d \in bs2 : d.slab = u /\ i \in SlotsOf(hd2, d)
  <2>1. u \in DOMAIN ss /\ i \in ss[u].used /\ (u = t => i \notin R \/ i \in Slab!Run(h))
    BY <1>3, <1>7
  <2>2. CASE u = t /\ i \in Slab!Run(h)
    BY <1>1, <2>2 DEF t
  <2>3. CASE ~(u = t /\ i \in Slab!Run(h))
    <3>1. PICK d \in bs : d.slab = u /\ i \in SlotsOf(hd, d)
      BY <2>1 DEF SlabGood
    <3>2. d # b
      BY <2>1, <2>3, <3>1 DEF R, t
    <3> QED
      BY <1>1, <3>1, <3>2
  <2> QED
    BY <2>2, <2>3
<1>8. bs2 \subseteq Slab!Block
  BY DEF SlabGood
<1> HIDE DEF bs2
<1>9. SlabGood(ss2, hd2, bs2)
  BY <1>3, <1>4, <1>5, <1>6, <1>7, <1>8 DEF SlabGood
<1> QED
  BY <1>9 DEF bs2

-----------------------------------------------------------------------------
(* The operations of the slab allocator                                    *)

LEMMA Parts ==
  ASSUME NEW i \in Nat, NEW k \in Nat, NEW n \in Nat, k <= n
  PROVE  /\ i .. i + k - 1 \subseteq i .. i + n - 1
         /\ i + k .. i + n - 1 = (i .. i + n - 1) \ (i .. i + k - 1)
OBVIOUS

LEMMA NoBlocks == SlabGood(<<>>, <<>>, {})
<1>1. <<>> \in Seq(SlabRecord) /\ DOMAIN <<>> = {}
  OBVIOUS
<1> QED
  BY <1>1 DEF SlabGood

\* A block that grows where it is writes over bytes of its own slots.
LEMMA GrowInPlaceGood ==
  ASSUME SlabInv, NEW b \in slabLive, NEW size \in Nat, Slab!GrowInPlace(b, size)
  PROVE  SlabInv' /\ slabLive' = (slabLive \ {b}) \cup {[b EXCEPT !.len = size]}
<1> DEFINE n == [b EXCEPT !.len = size]
           h == header[Slab!Place(b)]
<1>1. /\ slabs' = slabs /\ header' = Slab!Overwrite(header, b.slab, b.pos, b.pos + size)
      /\ slabLive' = (slabLive \ {b}) \cup {n}
      /\ size <= Slab!Room(h, b)
  BY DEF Slab!GrowInPlace, Slab!HasRoom
<1>2. b \in Slab!Block /\ InSlots(h, b) /\ b.slab \in DOMAIN slabs /\ Slab!Place(b) \in DOMAIN header
      /\ Slab!Run(h) = SlotsOf(header, b) /\ Slab!Run(h) \subseteq slabs[b.slab].used
  BY DEF SlabInv, SlabGood, SlotsOf
<1>3. n \in Slab!Block /\ n.slab = b.slab /\ n.pos = b.pos /\ n.len = size
  BY <1>2 DEF Slab!Block
<1> HIDE DEF n, h
<1>4. /\ b.pos \in Nat /\ b.len \in Nat /\ At(h.index + h.count) \in Nat
      /\ At(h.index) \in Nat /\ At(h.index) + HeaderSize <= b.pos
  BY <1>2, RunFacts
<1>5. b.pos + size <= At(h.index + h.count)
  BY <1>1, <1>4, SlabConstants DEF Slab!Room, At
<1>6. InSlots(h, n)
  BY <1>2, <1>3, <1>5 DEF InSlots
<1>7. ASSUME NEW d \in slabLive
      PROVE  Slab!Place(d) \in DOMAIN header' /\ header'[Slab!Place(d)] = header[Slab!Place(d)]
  <2>1. Slab!Place(d) \in DOMAIN header /\ Slab!Place(d)[1] = d.slab /\ Slab!Place(d)[2] = d.pos
        /\ d \in Slab!Block
    BY DEF SlabInv, SlabGood, Slab!Place
  <2>2. d.slab # b.slab \/ d.pos <= b.pos \/ b.pos + size <= d.pos - HeaderSize
    <3>1. SUFFICES ASSUME d.slab = b.slab, d # b
                   PROVE  d.pos <= b.pos \/ b.pos + size <= d.pos - HeaderSize
      BY <1>4
    <3> DEFINE g == header[Slab!Place(d)]
    <3>2. InSlots(g, d) /\ Slab!Run(g) \cap Slab!Run(h) = {}
      BY <1>2, <3>1 DEF SlabInv, SlabGood, SlotsOf
    <3> HIDE DEF g
    <3>3. /\ g.index \in Nat /\ g.count \in Nat /\ g.count > 0 /\ d.pos \in Nat /\ d.len \in Nat
          /\ At(g.index) \in Nat /\ At(g.index + g.count) \in Nat
          /\ At(g.index) + HeaderSize <= d.pos /\ d.pos + d.len <= At(g.index + g.count)
          /\ Slab!Run(g) = g.index .. g.index + g.count - 1
      BY <2>1, <3>2, RunFacts
    <3>4. /\ h.index \in Nat /\ h.count \in Nat /\ h.count > 0
          /\ Slab!Run(h) = h.index .. h.index + h.count - 1
      BY <1>2, RunFacts
    <3>5. At(g.index + g.count) <= At(h.index) \/ At(h.index + h.count) <= At(g.index)
      BY <3>2, <3>3, <3>4, RunsApart
    <3> DEFINE x1 == At(g.index)
               x2 == At(g.index + g.count)
               y1 == At(h.index)
               y2 == At(h.index + h.count)
    <3>6. /\ x1 \in Nat /\ x2 \in Nat /\ y1 \in Nat /\ y2 \in Nat
          /\ x1 + HeaderSize <= d.pos /\ d.pos + d.len <= x2
          /\ y1 + HeaderSize <= b.pos /\ b.pos + size <= y2
          /\ x2 <= y1 \/ y2 <= x1
      BY <1>4, <1>5, <3>3, <3>5
    <3>7. d.pos \in Nat /\ d.len \in Nat
      BY <3>3
    <3>8. b.pos \in Nat
      BY <1>4
    <3> HIDE DEF x1, x2, y1, y2
    <3> QED
      BY <3>6, <3>7, <3>8, SlabConstants
  <2> QED
    BY <1>1, <2>1, <2>2 DEF Slab!Overwrite
<1>8. \A q \in DOMAIN header' : q \in DOMAIN header /\ header'[q] = header[q]
  BY <1>1 DEF Slab!Overwrite
<1>9. NowUsed(slabs', slabs, b.slab,
              slabs[b.slab].used \ (SlotsOf(header, b) \ Slab!Run(h)))
  <2>1. slabs \in Seq(SlabRecord) /\ \A u \in DOMAIN slabs : Counts(slabs[u])
    BY DEF SlabInv, SlabGood
  <2> QED
    BY <1>1, <1>2, <2>1 DEF NowUsed
<1>10. SlabGood(slabs', header', (slabLive \ {b}) \cup {n})
  <2>1. /\ SlabGood(slabs, header, slabLive)
        /\ Slab!Run(h) \subseteq SlotsOf(header, b)
        /\ NowHeaded(header', header, slabLive, b, h)
    BY <1>2, <1>7, <1>8 DEF SlabInv, h, NowHeaded
  <2> QED
    BY <1>3, <1>6, <1>9, <2>1, ResizeGood
<1> QED
  BY <1>1, <1>10 DEF SlabInv, n

\* A block that shrinks keeps the slots it still reaches into.
LEMMA ShrinkGood ==
  ASSUME SlabInv, NEW b \in slabLive, NEW size \in Nat, Slab!Shrink(b, size)
  PROVE  SlabInv' /\ slabLive' = (slabLive \ {b}) \cup {[b EXCEPT !.len = size]}
<1> DEFINE n == [b EXCEPT !.len = size]
           g == header[Slab!Place(b)]
           k == Slab!Kept(g, b, size)
           h == [g EXCEPT !.count = k]
           x == b.pos - At(g.index) + size
<1>1. /\ slabs' = Slab!Freed(slabs, b.slab, g.index + k .. g.index + g.count - 1)
      /\ header' = [header EXCEPT ![Slab!Place(b)].count = IF k < @ THEN k ELSE @]
      /\ slabLive' = (slabLive \ {b}) \cup {n}
      /\ size <= b.len
  BY DEF Slab!Shrink
<1>2. b \in Slab!Block /\ InSlots(g, b) /\ b.slab \in DOMAIN slabs /\ Slab!Place(b) \in DOMAIN header
      /\ SlotsOf(header, b) = Slab!Run(g) /\ Slab!Run(g) \subseteq slabs[b.slab].used
      /\ g \in Slab!Header
  BY DEF SlabInv, SlabGood, SlotsOf, InSlots
<1>3. n \in Slab!Block /\ n.slab = b.slab /\ n.pos = b.pos /\ n.len = size
  BY <1>2 DEF Slab!Block
<1>4. k = Slab!DivCeil(x, SlabSize)
  BY DEF Slab!Kept, At
<1>5. /\ g.index \in Nat /\ g.count \in Nat /\ g.count > 0 /\ b.pos \in Nat /\ b.len \in Nat
      /\ At(g.index) \in Nat /\ At(g.index + g.count) = At(g.index) + At(g.count) /\ At(g.count) \in Nat
      /\ At(g.index) + HeaderSize <= b.pos /\ b.pos + b.len <= At(g.index + g.count)
      /\ Slab!Run(g) = g.index .. g.index + g.count - 1
  BY <1>2, RunFacts, AtSum, AtType
<1>6. h = [index |-> g.index, count |-> k]
  BY <1>2 DEF Slab!Header
<1> HIDE DEF n, g, k, h
<1>7. x \in Nat /\ x > 0 /\ x <= At(g.count)
  <2> DEFINE y == At(g.index)
             z == At(g.count)
  <2>1. y \in Nat /\ z \in Nat /\ y + HeaderSize <= b.pos /\ b.pos + b.len <= y + z
        /\ b.pos \in Nat /\ b.len \in Nat /\ size <= b.len
    BY <1>1, <1>5
  <2> HIDE DEF y, z
  <2>2. b.pos - y + size \in Nat /\ b.pos - y + size > 0 /\ b.pos - y + size <= z
    BY <2>1, SlabConstants
  <2> QED
    BY <2>2 DEF y, z
<1>8. k \in Nat /\ x <= At(k) /\ k <= g.count /\ At(k) \in Nat
  <2> HIDE DEF x
  <2> QED
    BY <1>4, <1>5, <1>7, DivCeilBounds, AtType
<1>9. k > 0
  <2>1. k # 0
    BY <1>7, <1>8, AtZero
  <2> QED
    BY <1>8, <2>1
<1>10. h \in Slab!Header /\ h.index = g.index /\ h.count = k
       /\ Slab!Run(h) = g.index .. g.index + k - 1
  BY <1>5, <1>6, <1>8 DEF Slab!Header, Slab!Run
<1>11. InSlots(h, n)
  <2>1. At(g.index + k) = At(g.index) + At(k)
    BY <1>5, <1>8, AtSum
  <2>2. b.pos + size <= At(g.index + k)
    BY <1>5, <1>8, <2>1, SMTT(30)
  <2> QED
    BY <1>3, <1>5, <1>9, <1>10, <2>2 DEF InSlots
<1>12. /\ Slab!Run(h) \subseteq Slab!Run(g)
       /\ g.index + k .. g.index + g.count - 1 = Slab!Run(g) \ Slab!Run(h)
  <2>1. g.index \in Nat /\ g.count \in Nat /\ k \in Nat /\ k <= g.count
    BY <1>5, <1>8
  <2>2. /\ g.index .. g.index + k - 1 \subseteq g.index .. g.index + g.count - 1
        /\ g.index + k .. g.index + g.count - 1
             = (g.index .. g.index + g.count - 1) \ (g.index .. g.index + k - 1)
    BY <2>1, Parts
  <2>3. Slab!Run(g) = g.index .. g.index + g.count - 1 /\ Slab!Run(h) = g.index .. g.index + k - 1
    BY <1>5, <1>10
  <2> QED
    BY <2>2, <2>3
<1>13. header' = [header EXCEPT ![Slab!Place(b)] = h]
  <2>1. g = [index |-> g.index, count |-> g.count]
    BY <1>2 DEF Slab!Header
  <2>2. header' = [header EXCEPT ![Slab!Place(b)] =
                     [g EXCEPT !.count = IF k < g.count THEN k ELSE g.count]]
    BY <1>1 DEF g
  <2>3. (IF k < g.count THEN k ELSE g.count) = k
    BY <1>5, <1>8
  <2> QED
    BY <2>2, <2>3 DEF h
<1>14. /\ Slab!Place(b) \in DOMAIN header' /\ header'[Slab!Place(b)] = h
       /\ \A q \in DOMAIN header' : header'[q] = h \/ (q \in DOMAIN header /\ header'[q] = header[q])
       /\ \A d \in slabLive \ {b} :
            Slab!Place(d) \in DOMAIN header' /\ header'[Slab!Place(d)] = header[Slab!Place(d)]
  <2>1. \A d \in slabLive \ {b} : Slab!Place(d) \in DOMAIN header /\ Slab!Place(d) # Slab!Place(b)
    <3>1. SlabGood(slabs, header, slabLive)
      BY DEF SlabInv
    <3>2. \A d \in slabLive : Slab!Place(d) \in DOMAIN header
      BY <3>1 DEF SlabGood
    <3> QED
      BY <3>1, <3>2, PlacesDiffer
  <2> QED
    BY <1>2, <1>13, <2>1
<1>15. NowUsed(slabs', slabs, b.slab, slabs[b.slab].used \ (SlotsOf(header, b) \ Slab!Run(h)))
  <2>1. slabs \in Seq(SlabRecord) /\ \A u \in DOMAIN slabs : Counts(slabs[u])
    BY DEF SlabInv, SlabGood
  <2>2. SlotsOf(header, b) \ Slab!Run(h) \subseteq slabs[b.slab].used
    BY <1>2
  <2> QED
    BY <1>1, <1>2, <1>12, <2>1, <2>2, FreedIs
<1>16. SlabGood(slabs', header', (slabLive \ {b}) \cup {n})
  <2>1. SlabGood(slabs, header, slabLive) /\ Slab!Run(h) \subseteq SlotsOf(header, b)
        /\ NowHeaded(header', header, slabLive, b, h)
    BY <1>2, <1>12, <1>14 DEF SlabInv, NowHeaded
  <2> QED
    BY <1>3, <1>11, <1>15, <2>1, ResizeGood
<1> QED
  BY <1>1, <1>16 DEF SlabInv, n

\* A block that is moved: the new one joins, then the old one goes.
LEMMA MoveGood ==
  ASSUME SlabInv, NEW b \in slabLive, NEW size \in Nat, NEW align \in Nat,
         NEW a \in Slab!Allocs(size, align)
  PROVE  SlabGood(Slab!Freed(a.slabs, b.slab, Slab!Run(header[Slab!Place(b)])),
                  Slab!Forget(a.header, b), (slabLive \cup {a.block}) \ {b})
<1>1. Joins(a.slabs, a.header, header, slabLive, a.block)
  BY AllocGood
<1>2. SlabGood(a.slabs, a.header, slabLive \cup {a.block})
      /\ SlotsOf(a.header, b) = Slab!Run(header[Slab!Place(b)])
  BY <1>1 DEF Joins, SlotsOf
<1> QED
  BY <1>2, FreeGood

\* What the invariant says of the next state, or of an unchanged one.
LEMMA SlabInvInit == Slab!Init => SlabInv
BY NoBlocks DEF Slab!Init, SlabInv

LEMMA SlabInvNext == SlabInv /\ [Slab!Next]_slabVars => SlabInv'
<1> SUFFICES ASSUME SlabInv, [Slab!Next]_slabVars
             PROVE  SlabInv'
  OBVIOUS
<1>1. SlabSizes \subseteq Nat /\ SlabAligns \subseteq Nat
  BY SlabConstants
<1>2. ASSUME NEW size \in SlabSizes, NEW align \in SlabAligns, Slab!Alloc(size, align)
      PROVE  SlabInv'
  <2>1. PICK a \in Slab!Allocs(size, align) :
          slabs' = a.slabs /\ header' = a.header /\ slabLive' = slabLive \cup {a.block}
    BY <1>2 DEF Slab!Alloc
  <2>2. Joins(a.slabs, a.header, header, slabLive, a.block)
    BY <1>1, AllocGood
  <2> QED
    BY <2>1, <2>2 DEF Joins, SlabInv
<1>3. CASE UNCHANGED slabVars
  BY <1>3 DEF slabVars, SlabInv
<1>4. ASSUME NEW b \in slabLive, NEW size \in SlabSizes, Slab!GrowInPlace(b, size)
      PROVE  SlabInv'
  BY <1>1, <1>4, GrowInPlaceGood
<1>5. ASSUME NEW b \in slabLive, NEW size \in SlabSizes, Slab!Shrink(b, size)
      PROVE  SlabInv'
  BY <1>1, <1>5, ShrinkGood
<1>6. ASSUME NEW b \in slabLive, NEW size \in SlabSizes, NEW align \in SlabAligns,
             Slab!GrowByMove(b, size, align)
      PROVE  SlabInv'
  <2>1. PICK a \in Slab!Allocs(size, align) :
          /\ slabs' = Slab!Freed(a.slabs, b.slab, Slab!Run(header[Slab!Place(b)]))
          /\ header' = Slab!Forget(a.header, b)
          /\ slabLive' = (slabLive \cup {a.block}) \ {b}
    BY <1>6 DEF Slab!GrowByMove
  <2>2. SlabGood(Slab!Freed(a.slabs, b.slab, Slab!Run(header[Slab!Place(b)])),
                 Slab!Forget(a.header, b), (slabLive \cup {a.block}) \ {b})
    BY <1>1, MoveGood
  <2> QED
    BY <2>1, <2>2 DEF SlabInv
<1>7. ASSUME NEW b \in slabLive, Slab!Free(b)
      PROVE  SlabInv'
  <2>1. SlabGood(Slab!Freed(slabs, b.slab, SlotsOf(header, b)), Slab!Forget(header, b),
                 slabLive \ {b})
    BY FreeGood DEF SlabInv
  <2> QED
    BY <1>7, <2>1 DEF Slab!Free, SlotsOf, SlabInv
<1>8. CASE Slab!Destroy
  BY <1>8, NoBlocks DEF Slab!Destroy, SlabInv
<1>9. ASSUME NEW size \in SlabSizes, NEW align \in SlabAligns, Slab!AllocFails(size, align)
      PROVE  SlabInv'
  <2>1. UNCHANGED slabVars
    BY <1>9 DEF Slab!AllocFails, Slab!vars, slabVars
  <2> QED
    BY <1>3, <2>1
<1> QED
  BY <1>2, <1>3, <1>4, <1>5, <1>6, <1>7, <1>8, <1>9 DEF Slab!Next

\* In a run of both allocators each step is one of the slabs or leaves them alone.
LEMMA SlabStep == [MCNext]_<<active, vars, slabVars>> => [Slab!Next]_slabVars
BY DEF MCNext, slabVars

LEMMA SlabInvAlways == MCSpec => []SlabInv
<1>1. MCInit => SlabInv
  BY SlabInvInit DEF MCInit
<1> QED
  BY <1>1, SlabStep, SlabInvNext, PTL DEF MCSpec

LEMMA SlabTyped == SlabInv => Slab!TypeOK
<1> SUFFICES ASSUME SlabInv PROVE Slab!TypeOK
  OBVIOUS
<1>1. ASSUME NEW t \in DOMAIN slabs
      PROVE  /\ slabs[t].base \in Bases
             /\ slabs[t].slabCount \in Nat /\ slabs[t].freeCount \in Nat
             /\ slabs[t].used \subseteq 0 .. slabs[t].slabCount - 1
  <2>1. slabs[t] \in SlabRecord /\ Counts(slabs[t])
    BY ElementOfSeq, LenProperties DEF SlabInv, SlabGood
  <2> QED
    BY <2>1 DEF SlabRecord, Counts
<1>2. /\ \A q \in DOMAIN header : header[q] \in Slab!Header
      /\ slabLive \subseteq Slab!Block /\ \A b \in slabLive : b.slab \in DOMAIN slabs
  BY DEF SlabInv, SlabGood
<1> QED
  BY <1>1, <1>2 DEF Slab!TypeOK

\* A block and its header lie in the slots of the run its header names, however
\* it was moved, cut short or its slots were used before (cu_slab_grow,
\* cu_slab_shrink, cu_slab_free).
THEOREM SlabBlocksInRuns == MCSpec => []BlocksInRuns
<1>1. SlabInv => BlocksInRuns
  <2> SUFFICES ASSUME SlabInv PROVE BlocksInRuns
    OBVIOUS
  <2>1. ASSUME NEW b \in slabLive
        PROVE  /\ Slab!Place(b) \in DOMAIN header
               /\ LET h == header[Slab!Place(b)] IN
                  /\ h.count > 0
                  /\ h.index * SlabSize <= b.pos - HeaderSize
                  /\ Slab!End(b) <= (h.index + h.count) * SlabSize
    <3> DEFINE h == header[Slab!Place(b)]
    <3>1. Slab!Place(b) \in DOMAIN header /\ InSlots(h, b) /\ b \in Slab!Block
      BY DEF SlabInv, SlabGood
    <3> HIDE DEF h
    <3>2. /\ At(h.index) \in Nat /\ b.pos \in Nat /\ h.count > 0
          /\ At(h.index) + HeaderSize <= b.pos /\ b.pos + b.len <= At(h.index + h.count)
      BY <3>1, RunFacts
    <3>3. At(h.index) <= b.pos - HeaderSize
      BY <3>2, SlabConstants
    <3> QED
      BY <3>1, <3>2, <3>3 DEF h, At, Slab!End
  <2> QED
    BY <2>1, SlabTyped DEF BlocksInRuns, Slab!BlocksInRuns
<1> QED
  BY <1>1, SlabInvAlways, PTL

\* Each slot the bitmap of a slab has as used is in the run of one block, and the
\* count of free slots is the number of the others.
THEOREM SlabRunsAccounted == MCSpec => []RunsAccounted
<1>1. SlabInv => RunsAccounted
  <2> SUFFICES ASSUME SlabInv, NEW t \in DOMAIN slabs
               PROVE  LET s == slabs[t]
                          B == {b \in slabLive : b.slab = t}
                      IN  /\ s.used = UNION {Slab!Run(header[Slab!Place(b)]) : b \in B}
                          /\ \A b, d \in B : b # d =>
                               Slab!Run(header[Slab!Place(b)]) \cap Slab!Run(header[Slab!Place(d)]) = {}
                          /\ s.freeCount = s.slabCount - Slab!Cardinality(s.used)
    BY DEF RunsAccounted, Slab!RunsAccounted
  <2> DEFINE B == {b \in slabLive : b.slab = t}
  <2>1. slabs[t].freeCount = slabs[t].slabCount - Slab!Cardinality(slabs[t].used)
    BY SlabCardinality DEF SlabInv, SlabGood, Counts
  <2>2. /\ \A b \in B : SlotsOf(header, b) \subseteq slabs[t].used
        /\ \A i \in slabs[t].used : \E b \in B : i \in SlotsOf(header, b)
        /\ \A b, d \in B : b # d => SlotsOf(header, b) \cap SlotsOf(header, d) = {}
    BY DEF SlabInv, SlabGood
  <2> HIDE DEF B
  <2>3. slabs[t].used = UNION {SlotsOf(header, b) : b \in B}
    BY <2>2
  <2> QED
    BY <2>1, <2>2, <2>3 DEF SlotsOf, B
<1> QED
  BY <1>1, SlabInvAlways, PTL

-----------------------------------------------------------------------------
(* The slabs implement the allocator contract                              *)

\* What the contract sees of a block.
Seen(b) == [region |-> b.slab, pos |-> b.pos, len |-> b.len]

LEMMA SlabBlocksSeen ==
  Slab!Blocks = {Seen(b) : b \in slabLive} /\ Slab!Blocks' = {Seen(b) : b \in slabLive'}
BY DEF Slab!Blocks, Seen

LEMMA SeenType == ASSUME NEW b \in Slab!Block PROVE Seen(b) \in Slab!Contract!Block
BY DEF Slab!Block, Seen, Slab!Contract!Block

LEMMA SeenApart ==
  ASSUME NEW ss, NEW hd, NEW bs, SlabGood(ss, hd, bs),
         NEW b \in bs, NEW d \in bs, b # d
  PROVE  Seen(b) # Seen(d) /\ Slab!Contract!Disjoint(Seen(b), Seen(d))
<1>1. b \in Slab!Block /\ d \in Slab!Block
  BY DEF SlabGood
<1>2. CASE b.slab = d.slab
  <2>1. b.pos + b.len <= d.pos - HeaderSize \/ d.pos + d.len <= b.pos - HeaderSize
    BY <1>2, BlocksApart
  <2>2. b.pos \in Nat /\ b.len \in Nat /\ d.pos \in Nat /\ d.len \in Nat
    BY <1>1 DEF Slab!Block
  <2>3. b.pos # d.pos /\ (b.pos + b.len <= d.pos \/ d.pos + d.len <= b.pos)
    BY <2>1, <2>2, SlabConstants
  <2> QED
    BY <2>3 DEF Seen, Slab!Contract!Disjoint
<1>3. CASE b.slab # d.slab
  BY <1>3 DEF Seen, Slab!Contract!Disjoint
<1> QED
  BY <1>2, <1>3

\* A block that takes the place of another one, or comes in addition.
LEMMA NewSeen ==
  ASSUME NEW ss, NEW hd, NEW bs, NEW n, SlabGood(ss, hd, bs \cup {n}), n \notin bs
  PROVE  LET B == {Seen(b) : b \in bs}
         IN  /\ Seen(n) \in Slab!Contract!Block /\ Seen(n) \notin B
             /\ Slab!Contract!ClearOf(Seen(n), B)
<1> DEFINE B == {Seen(b) : b \in bs}
<1>1. ASSUME NEW x \in B
      PROVE  x # Seen(n) /\ Slab!Contract!Disjoint(x, Seen(n))
  <2>1. PICK b \in bs : x = Seen(b)
    OBVIOUS
  <2> QED
    BY <2>1, SeenApart
<1>2. n \in Slab!Block
  BY DEF SlabGood
<1> QED
  BY <1>1, <1>2, SeenType DEF Slab!Contract!ClearOf

\* A resized block that stays where it is.
LEMMA SlabResizeSeen ==
  ASSUME SlabInv, SlabInv', NEW b \in slabLive, NEW size \in Nat,
         slabLive' = (slabLive \ {b}) \cup {[b EXCEPT !.len = size]}
  PROVE  Slab!Contract!Resize
<1> DEFINE n == [b EXCEPT !.len = size]
           others == slabLive \ {b}
           B == {Seen(d) : d \in others}
<1>1. b \in Slab!Block
  BY DEF SlabInv, SlabGood
<1>2. n.slab = b.slab /\ n.pos = b.pos /\ slabLive' = others \cup {n}
  BY <1>1 DEF Slab!Block
<1> HIDE DEF n
<1>3. n \notin others
  <2>1. ASSUME NEW d \in others
        PROVE  d # n
    <3>1. Slab!Place(d) # Slab!Place(b)
      BY PlacesDiffer DEF SlabInv
    <3> QED
      BY <1>2, <3>1 DEF Slab!Place
  <2> QED
    BY <2>1
<1>4. SlabGood(slabs', header', others \cup {n})
  BY <1>2 DEF SlabInv
<1> HIDE DEF others
<1>5. Seen(n) \in Slab!Contract!Block /\ Slab!Contract!ClearOf(Seen(n), B)
  BY <1>3, <1>4, NewSeen
<1>6. Slab!Blocks \ {Seen(b)} = B
  <2>1. \A d \in others : Seen(d) # Seen(b)
    BY SeenApart DEF SlabInv, others
  <2> QED
    BY <2>1, SlabBlocksSeen DEF others
<1>7. Slab!Blocks' = B \cup {Seen(n)} /\ Seen(b) \in Slab!Blocks
  BY <1>2, SlabBlocksSeen
<1>8. Slab!Contract!SamePlace(Seen(b), Seen(n))
  BY <1>2 DEF Slab!Contract!SamePlace, Seen
<1> HIDE DEF B
<1> QED
  BY <1>5, <1>6, <1>7, <1>8 DEF Slab!Contract!Resize

\* Every step of the slabs is a step of the contract, or changes no block.
LEMMA SlabRefines == SlabInv /\ [Slab!Next]_slabVars => [Slab!Contract!Next]_(Slab!Blocks)
<1> SUFFICES ASSUME SlabInv, [Slab!Next]_slabVars
             PROVE  [Slab!Contract!Next]_(Slab!Blocks)
  OBVIOUS
<1>0. SlabInv'
  BY SlabInvNext
<1>1. SlabSizes \subseteq Nat /\ SlabAligns \subseteq Nat
  BY SlabConstants
<1>2. ASSUME NEW size \in SlabSizes, NEW align \in SlabAligns, Slab!Alloc(size, align)
      PROVE  Slab!Contract!Next
  <2>1. PICK a \in Slab!Allocs(size, align) :
          slabs' = a.slabs /\ header' = a.header /\ slabLive' = slabLive \cup {a.block}
    BY <1>2 DEF Slab!Alloc
  <2> DEFINE n == a.block
  <2>2. SlabGood(a.slabs, a.header, slabLive \cup {n}) /\ n \notin slabLive
    BY <1>1, AllocGood DEF Joins
  <2> HIDE DEF n
  <2>3. /\ Seen(n) \in Slab!Contract!Block /\ Seen(n) \notin Slab!Blocks
        /\ Slab!Contract!ClearOf(Seen(n), Slab!Blocks)
    BY <2>2, NewSeen, SlabBlocksSeen
  <2>4. Slab!Blocks' = Slab!Blocks \cup {Seen(n)}
    BY <2>1, SlabBlocksSeen DEF n
  <2>5. Slab!Contract!Obtain
    BY <2>3, <2>4 DEF Slab!Contract!Obtain
  <2> QED
    BY <2>5 DEF Slab!Contract!Next
<1>3. CASE UNCHANGED slabVars
  BY <1>3 DEF slabVars, Slab!Blocks
<1>4. ASSUME NEW b \in slabLive, NEW size \in SlabSizes,
             Slab!GrowInPlace(b, size) \/ Slab!Shrink(b, size)
      PROVE  Slab!Contract!Next
  <2>1. slabLive' = (slabLive \ {b}) \cup {[b EXCEPT !.len = size]} /\ size \in Nat
    BY <1>1, <1>4, GrowInPlaceGood, ShrinkGood
  <2> QED
    BY <1>0, <2>1, SlabResizeSeen DEF Slab!Contract!Next
<1>5. ASSUME NEW b \in slabLive, NEW size \in SlabSizes, NEW align \in SlabAligns,
             Slab!GrowByMove(b, size, align)
      PROVE  Slab!Contract!Next
  <2>1. PICK a \in Slab!Allocs(size, align) : slabLive' = (slabLive \cup {a.block}) \ {b}
    BY <1>5 DEF Slab!GrowByMove
  <2> DEFINE n == a.block
  <2>2. SlabGood(a.slabs, a.header, slabLive \cup {n}) /\ n \notin slabLive
    BY <1>1, AllocGood DEF Joins
  <2>3. slabLive' = (slabLive \cup {n}) \ {b}
    BY <2>1
  <2> HIDE DEF n
  <2>4. /\ Seen(n) \in Slab!Contract!Block /\ Seen(n) \notin Slab!Blocks
        /\ Slab!Contract!ClearOf(Seen(n), Slab!Blocks)
    BY <2>2, NewSeen, SlabBlocksSeen
  <2>5. Seen(b) \in Slab!Blocks /\ n # b
    BY <2>2, SlabBlocksSeen
  <2>6. \A d \in slabLive \ {b} : Seen(d) # Seen(b)
    BY SeenApart DEF SlabInv
  <2>7. Slab!Blocks' = (Slab!Blocks \ {Seen(b)}) \cup {Seen(n)}
    BY <2>3, <2>5, <2>6, SlabBlocksSeen
  <2>8. Slab!Contract!ClearOf(Seen(n), Slab!Blocks \ {Seen(b)})
    BY <2>4 DEF Slab!Contract!ClearOf
  <2>9. Slab!Contract!Resize
    BY <2>4, <2>5, <2>7, <2>8 DEF Slab!Contract!Resize
  <2> QED
    BY <2>9 DEF Slab!Contract!Next
<1>6. ASSUME slabLive' \subseteq slabLive
      PROVE  Slab!Contract!Next
  <2>1. Slab!Blocks' \subseteq Slab!Blocks
    BY <1>6, SlabBlocksSeen
  <2> QED
    BY <2>1 DEF Slab!Contract!Release, Slab!Contract!Next
<1>7. ASSUME NEW b \in slabLive, Slab!Free(b)
      PROVE  Slab!Contract!Next
  BY <1>6, <1>7 DEF Slab!Free
<1>8. CASE Slab!Destroy
  BY <1>6, <1>8 DEF Slab!Destroy
<1>9. ASSUME NEW size \in SlabSizes, NEW align \in SlabAligns, Slab!AllocFails(size, align)
      PROVE  UNCHANGED Slab!Blocks
  BY <1>9 DEF Slab!AllocFails, Slab!vars, Slab!Blocks
<1> QED
  BY <1>2, <1>3, <1>4, <1>5, <1>7, <1>8, <1>9 DEF Slab!Next

\* Seen through the blocks its clients hold, the slab allocator is an allocator.
LEMMA SlabImplementsContract == MCSpec => Slab!ImplementsContract
<1>1. MCInit => Slab!Contract!Init
  BY DEF MCInit, Slab!Init, Slab!Contract!Init, Slab!Blocks
<1> QED
  BY <1>1, SlabInvAlways, SlabStep, SlabRefines, PTL
     DEF MCSpec, Slab!ImplementsContract, Slab!Contract!Spec

-----------------------------------------------------------------------------
(* Recursive functions                                                     *)

\* A function that is defined by what comes next, step after step, exists.
Follows(g, N, start, step) ==
  g[0] = start /\ \A i \in 1 .. N : g[i] = step[<<i, g[i - 1]>>]

LEMMA RecursionExists ==
  ASSUME NEW N \in Nat, NEW T, NEW start \in T, NEW step \in [(1 .. N) \X T -> T]
  PROVE  \E g \in [0 .. N -> T] : Follows(g, N, start, step)
<1> DEFINE P(n) == \E g \in [0 .. n -> T] : Follows(g, n, start, step)
           Bad == {n \in 0 .. N : ~P(n)}
<1>1. SUFFICES ASSUME Bad # {} PROVE FALSE
  <2>1. N \in 0 .. N
    OBVIOUS
  <2> QED
    BY <2>1
<1>2. PICK x \in Bad : \A y \in Bad : x <= y
  <2>1. Bad \subseteq Nat
    OBVIOUS
  <2> HIDE DEF Bad
  <2> QED
    BY <1>1, <2>1, LeastOf
<1>3. CASE x = 0
  <2> DEFINE g == [i \in 0 .. 0 |-> start]
  <2>1. g \in [0 .. 0 -> T] /\ Follows(g, 0, start, step)
    BY DEF Follows
  <2> QED
    BY <1>2, <1>3, <2>1
<1>4. CASE x # 0
  <2>1. x - 1 \in 0 .. N /\ ~(x <= x - 1) /\ x \in 1 .. N
    BY <1>2, <1>4
  <2>2. x - 1 \notin Bad
    BY <1>2, <2>1
  <2>3. P(x - 1)
    BY <2>1, <2>2
  <2>4. PICK g \in [0 .. x - 1 -> T] : Follows(g, x - 1, start, step)
    BY <2>3
  <2> DEFINE h == [i \in 0 .. x |-> IF i = x THEN step[<<x, g[x - 1]>>] ELSE g[i]]
  <2>5. step[<<x, g[x - 1]>>] \in T
    <3>1. g[x - 1] \in T
      BY <2>1, <2>4
    <3> QED
      BY <2>1, <3>1
  <2>6. h \in [0 .. x -> T]
    <3>1. \A i \in 0 .. x : i # x => i \in 0 .. x - 1
      BY <2>1
    <3> QED
      BY <2>4, <2>5, <3>1
  <2>7. h[0] = start
    BY <2>1, <2>4 DEF Follows
  <2>8. ASSUME NEW i \in 1 .. x
        PROVE  h[i] = step[<<i, h[i - 1]>>]
    <3>1. i - 1 \in 0 .. x /\ i - 1 # x /\ i \in 0 .. x
      BY <2>1
    <3>2. h[i - 1] = g[i - 1]
      BY <3>1
    <3>3. CASE i = x
      BY <3>1, <3>2, <3>3
    <3>4. CASE i # x
      <4>1. i \in 1 .. x - 1
        BY <2>1, <3>4
      <4> QED
        BY <2>4, <3>1, <3>2, <3>4, <4>1 DEF Follows
    <3> QED
      BY <3>3, <3>4
  <2> HIDE DEF h
  <2>9. Follows(h, x, start, step)
    BY <2>7, <2>8 DEF Follows
  <2>10. P(x)
    BY <2>6, <2>9
  <2> QED
    BY <1>2, <2>10
<1> QED
  BY <1>3, <1>4

-----------------------------------------------------------------------------
(* Powers of two                                                           *)

Doubles(g, n) == g[0] = 1 /\ \A i \in 1 .. n : g[i] = 2 * g[i - 1]

LEMMA DoublesExist == \A n \in Nat : \E g \in [0 .. n -> Nat] : Doubles(g, n)
<1> SUFFICES ASSUME NEW n \in Nat PROVE \E g \in [0 .. n -> Nat] : Doubles(g, n)
  OBVIOUS
<1> DEFINE step == [p \in (1 .. n) \X Nat |-> 2 * p[2]]
<1>1. step \in [(1 .. n) \X Nat -> Nat]
  OBVIOUS
<1>2. \A i \in 1 .. n, m \in Nat : step[<<i, m>>] = 2 * m
  OBVIOUS
<1> HIDE DEF step
<1>3. PICK g \in [0 .. n -> Nat] : Follows(g, n, 1, step)
  BY <1>1, RecursionExists
<1>4. ASSUME NEW i \in 1 .. n
      PROVE  g[i] = 2 * g[i - 1]
  <2>1. i - 1 \in 0 .. n
    OBVIOUS
  <2>2. g[i - 1] \in Nat
    BY <2>1
  <2> QED
    BY <1>2, <1>3, <2>2 DEF Follows
<1>5. Doubles(g, n)
  BY <1>3, <1>4 DEF Follows, Doubles
<1> QED
  BY <1>5

LEMMA DoublesAgree ==
  ASSUME NEW m \in Nat, NEW n \in Nat, NEW g, NEW h, Doubles(g, m), Doubles(h, n),
         NEW i \in Nat, i <= m, i <= n
  PROVE  g[i] = h[i]
<1> DEFINE Bad == {j \in 0 .. i : g[j] # h[j]}
<1>1. SUFFICES ASSUME Bad # {} PROVE FALSE
  <2>1. i \in 0 .. i
    OBVIOUS
  <2> QED
    BY <2>1
<1>2. PICK x \in Bad : \A y \in Bad : x <= y
  <2>1. Bad \subseteq Nat
    OBVIOUS
  <2> HIDE DEF Bad
  <2> QED
    BY <1>1, <2>1, LeastOf
<1>3. x # 0
  BY <1>2 DEF Doubles
<1>4. x - 1 \in 0 .. i /\ ~(x <= x - 1) /\ x \in 1 .. m /\ x \in 1 .. n
  BY <1>2, <1>3
<1>5. g[x - 1] = h[x - 1]
  BY <1>2, <1>4
<1>6. g[x] = h[x]
  BY <1>4, <1>5 DEF Doubles
<1> QED
  BY <1>2, <1>6

LEMMA Pow2Is == Pow2 = [n \in Nat |-> IF n = 0 THEN 1 ELSE 2 * Pow2[n - 1]]
<1> DEFINE G(n) == CHOOSE g \in [0 .. n -> Nat] : Doubles(g, n)
           f == [n \in Nat |-> G(n)[n]]
<1>1. \A n \in Nat : Doubles(G(n), n)
  BY DoublesExist
<1>2. ASSUME NEW n \in Nat
      PROVE  f[n] = IF n = 0 THEN 1 ELSE 2 * f[n - 1]
  <2> HIDE DEF G
  <2>1. CASE n = 0
    BY <1>1, <2>1 DEF Doubles
  <2>2. CASE n # 0
    <3>1. n - 1 \in Nat /\ n \in 1 .. n /\ n - 1 <= n /\ n - 1 <= n - 1
      BY <2>2
    <3>2. G(n)[n] = 2 * G(n)[n - 1]
      BY <1>1, <3>1 DEF Doubles
    <3>3. G(n)[n - 1] = G(n - 1)[n - 1]
      BY <1>1, <3>1, DoublesAgree
    <3> QED
      BY <2>2, <3>1, <3>2, <3>3
  <2> QED
    BY <2>1, <2>2
<1>3. f = [n \in Nat |-> IF n = 0 THEN 1 ELSE 2 * f[n - 1]]
  <2> HIDE DEF G
  <2>1. f = [n \in Nat |-> f[n]]
    BY Zenon
  <2> HIDE DEF f
  <2> QED
    BY <1>2, <2>1
<1> HIDE DEF f
<1>4. \E h : h = [n \in Nat |-> IF n = 0 THEN 1 ELSE 2 * h[n - 1]]
  BY <1>3
<1> QED
  BY <1>4, Zenon DEF Pow2

LEMMA Pow2Facts ==
  /\ Pow2[0] = 1
  /\ \A n \in Nat : Pow2[n] \in Nat /\ n < Pow2[n] /\ Pow2[n + 1] = 2 * Pow2[n]
<1>1. Pow2[0] = 1 /\ \A n \in Nat : n # 0 => Pow2[n] = 2 * Pow2[n - 1]
  <2>1. 0 \in Nat
    OBVIOUS
  <2> QED
    BY <2>1, Pow2Is
<1> DEFINE Bad == {n \in Nat : ~(Pow2[n] \in Nat /\ n < Pow2[n])}
<1>2. Bad = {}
  <2>1. SUFFICES ASSUME Bad # {} PROVE FALSE
    OBVIOUS
  <2>2. PICK x \in Bad : \A y \in Bad : x <= y
    <3>1. Bad \subseteq Nat
      OBVIOUS
    <3> HIDE DEF Bad
    <3> QED
      BY <2>1, <3>1, LeastOf
  <2>3. x \in Nat /\ ~(Pow2[x] \in Nat /\ x < Pow2[x])
    BY <2>2
  <2>4. x # 0
    BY <1>1, <2>3
  <2>5. x - 1 \in Nat /\ ~(x <= x - 1)
    BY <2>3, <2>4
  <2>6. Pow2[x - 1] \in Nat /\ x - 1 < Pow2[x - 1]
    BY <2>2, <2>5
  <2>7. Pow2[x] = 2 * Pow2[x - 1]
    BY <1>1, <2>3, <2>4
  <2> QED
    BY <2>3, <2>4, <2>6, <2>7
<1>3. \A n \in Nat : Pow2[n + 1] = 2 * Pow2[n]
  <2>1. TAKE n \in Nat
  <2>2. n + 1 \in Nat /\ n + 1 # 0 /\ (n + 1) - 1 = n
    OBVIOUS
  <2> QED
    BY <1>1, <2>2
<1> QED
  BY <1>1, <1>2, <1>3

LEMMA NextPow2Facts ==
  ASSUME NEW x \in Nat
  PROVE  NextPow2(x) \in Nat /\ NextPow2(x) > 0 /\ x <= NextPow2(x)
<1>1. \A n \in Nat : Pow2[n] \in Nat /\ n < Pow2[n] /\ Pow2[n + 1] = 2 * Pow2[n]
  BY Pow2Facts
<1>2. PICK n \in 0 .. x : x <= Pow2[n] /\ (Pow2[n] = 1 \/ Pow2[n] \div 2 < x)
  <2> DEFINE T == {n \in Nat : x <= Pow2[n]}
  <2>1. x \in T
    BY <1>1
  <2>2. PICK n \in T : \A y \in T : n <= y
    <3>1. T \subseteq Nat /\ T # {}
      BY <2>1
    <3> HIDE DEF T
    <3> QED
      BY <3>1, LeastOf
  <2>3. n \in 0 .. x
    BY <2>1, <2>2
  <2>4. CASE n = 0
    BY <2>2, <2>3, <2>4, Pow2Facts
  <2>5. CASE n # 0
    <3>1. n - 1 \in Nat /\ ~(n <= n - 1) /\ (n - 1) + 1 = n
      BY <2>3, <2>5
    <3>2. ~(x <= Pow2[n - 1])
      BY <2>2, <3>1
    <3>3. Pow2[n] = 2 * Pow2[n - 1] /\ Pow2[n - 1] \in Nat
      <4>1. Pow2[(n - 1) + 1] = 2 * Pow2[n - 1]
        BY <1>1, <3>1
      <4> QED
        BY <1>1, <3>1, <4>1
    <3>4. Pow2[n] \div 2 = Pow2[n - 1]
      BY <3>3
    <3> QED
      BY <2>2, <2>3, <3>2, <3>3, <3>4
  <2> QED
    BY <2>4, <2>5
<1>3. PICK m \in 0 .. x : NextPow2(x) = Pow2[m] /\ x <= NextPow2(x)
  BY <1>2 DEF NextPow2
<1> QED
  BY <1>1, <1>3

\* The object size of a request is no smaller than the request.
LEMMA ObjectSizeFacts ==
  ASSUME NEW size \in Nat, NEW align \in Nat
  PROVE  ObjectSize(size, align) \in Nat /\ ObjectSize(size, align) > 0
         /\ size <= ObjectSize(size, align)
<1> DEFINE x == IF size > align THEN size ELSE align
<1>1. x \in Nat /\ size <= x
  OBVIOUS
<1> HIDE DEF x
<1>2. NextPow2(x) \in Nat /\ NextPow2(x) > 0 /\ x <= NextPow2(x)
  BY <1>1, NextPow2Facts
<1> QED
  BY <1>1, <1>2 DEF ObjectSize, x

-----------------------------------------------------------------------------
(* Doubly linked lists of nodes                                            *)

\* Nodes N are linked from first to last, in the order of their ranks.
Ranked(nodes, N, first, last, rank) ==
  /\ rank \in [N -> Nat]
  /\ N = {} => first = Null /\ last = Null
  /\ N # {} => first \in N /\ last \in N
  /\ \A r \in N :
       /\ (nodes[r].prev = Null) <=> (r = first)
       /\ (nodes[r].next = Null) <=> (r = last)
       /\ nodes[r].prev # Null =>
            /\ nodes[r].prev \in N /\ nodes[nodes[r].prev].next = r
            /\ rank[nodes[r].prev] < rank[r]
       /\ nodes[r].next # Null =>
            nodes[r].next \in N /\ nodes[nodes[r].next].prev = r

Linked(nodes, N, first, last) == \E rank \in [N -> Nat] : Ranked(nodes, N, first, last, rank)

LEMMA RegionFinite ==
  /\ Null \notin Region /\ IsFiniteSet(Region) /\ Cardinality(Region) = MaxRegions
  /\ MaxRegions \in Nat
  /\ \A S : S \subseteq Region => /\ IsFiniteSet(S) /\ Cardinality(S) \in Nat
                                  /\ Cardinality(S) <= MaxRegions
<1>1. MaxRegions \in Nat
  BY RegionsAssumption
<1>2. IsFiniteSet(Region) /\ Cardinality(Region) = MaxRegions /\ Null \notin Region
  BY <1>1, FS_Interval DEF Region, Null
<1>3. ASSUME NEW S, S \subseteq Region
      PROVE  IsFiniteSet(S) /\ Cardinality(S) \in Nat /\ Cardinality(S) <= MaxRegions
  BY <1>2, <1>3, FS_Subset, FS_CardinalityType
<1> QED
  BY <1>1, <1>2, <1>3

\* What a walk visited after n steps.
Visits(visited, nodes, first) ==
  visited = [n \in 0 .. MaxRegions |->
               IF n = 0 THEN {first} \ {Null}
               ELSE visited[n - 1] \cup ({nodes[r].next : r \in visited[n - 1]} \ {Null})]

LEMMA WalkVisits ==
  ASSUME NEW nodes, NEW N, NEW first, first \in N \cup {Null}, N \subseteq Region,
         \A r \in N : nodes[r].next \in N \cup {Null}
  PROVE  \E visited : Visits(visited, nodes, first) /\ Walk(nodes, first) = visited[MaxRegions]
<1> DEFINE start == {first} \ {Null}
           step == [p \in (1 .. MaxRegions) \X SUBSET N |->
                      p[2] \cup ({nodes[r].next : r \in p[2]} \ {Null})]
<1>1. MaxRegions \in Nat
  BY RegionFinite
<1>2. start \in SUBSET N
  OBVIOUS
<1>3. step \in [(1 .. MaxRegions) \X SUBSET N -> SUBSET N]
  OBVIOUS
<1>4. \A i \in 1 .. MaxRegions, S \in SUBSET N :
         step[<<i, S>>] = S \cup ({nodes[r].next : r \in S} \ {Null})
  OBVIOUS
<1> HIDE DEF start, step
<1>5. PICK g \in [0 .. MaxRegions -> SUBSET N] : Follows(g, MaxRegions, start, step)
  BY <1>1, <1>2, <1>3, RecursionExists
<1>6. ASSUME NEW n \in 0 .. MaxRegions
      PROVE  g[n] = IF n = 0 THEN {first} \ {Null}
                    ELSE g[n - 1] \cup ({nodes[r].next : r \in g[n - 1]} \ {Null})
  <2>1. CASE n = 0
    BY <1>5, <2>1 DEF Follows, start
  <2>2. CASE n # 0
    <3>1. n \in 1 .. MaxRegions /\ n - 1 \in 0 .. MaxRegions
      BY <1>1, <2>2
    <3>2. g[n - 1] \in SUBSET N /\ g[n] = step[<<n, g[n - 1]>>]
      BY <1>5, <3>1 DEF Follows
    <3> QED
      BY <1>4, <2>2, <3>1, <3>2
  <2> QED
    BY <2>1, <2>2
<1>7. Visits(g, nodes, first)
  BY <1>6 DEF Visits
<1> DEFINE w == CHOOSE visited : Visits(visited, nodes, first)
<1>8. Visits(w, nodes, first)
  BY <1>7
<1>9. Walk(nodes, first) = w[MaxRegions]
  BY Zenon DEF Walk, Visits
<1> HIDE DEF w
<1> QED
  BY <1>8, <1>9

\* A walk from the first node of a list visits its nodes.
LEMMA WalkIs ==
  ASSUME NEW nodes, NEW N, NEW first, NEW last, N \subseteq Region,
         Linked(nodes, N, first, last)
  PROVE  Walk(nodes, first) = N
<1> PICK rank \in [N -> Nat] : Ranked(nodes, N, first, last, rank)
  BY DEF Linked
<1>1. /\ first \in N \cup {Null} /\ (N # {} => first \in N)
      /\ \A r \in N : /\ nodes[r].next \in N \cup {Null}
                      /\ r # first => /\ nodes[r].prev \in N /\ nodes[nodes[r].prev].next = r
                                      /\ rank[nodes[r].prev] < rank[r]
  BY DEF Ranked
<1>2. MaxRegions \in Nat /\ Null \notin N
  BY RegionFinite
<1>3. PICK v : Visits(v, nodes, first) /\ Walk(nodes, first) = v[MaxRegions]
  BY <1>1, WalkVisits
<1>4. v[0] = {first} \ {Null}
  BY <1>2, <1>3 DEF Visits
<1>5. \A n \in 0 .. MaxRegions : n # 0 =>
         v[n] = v[n - 1] \cup ({nodes[r].next : r \in v[n - 1]} \ {Null})
  BY <1>3 DEF Visits
\* After n steps all nodes have been visited, or more than n.
<1> DEFINE P(n) == v[n] \subseteq N /\ (v[n] = N \/ Cardinality(v[n]) >= n + 1)
           Bad == {n \in 0 .. MaxRegions : ~P(n)}
<1>6. Bad = {}
  <2>1. SUFFICES ASSUME Bad # {} PROVE FALSE
    OBVIOUS
  <2>2. PICK n \in Bad : \A m \in Bad : n <= m
    <3>1. Bad \subseteq Nat
      OBVIOUS
    <3> HIDE DEF Bad
    <3> QED
      BY <2>1, <3>1, LeastOf
  <2>3. n \in 0 .. MaxRegions /\ ~P(n)
    BY <2>2
  <2>4. CASE n = 0
    <3>1. CASE N = {}
      BY <1>1, <1>4, <2>3, <2>4, <3>1
    <3>2. CASE N # {}
      <4>1. v[0] = {first} /\ first \in N
        BY <1>1, <1>2, <1>4, <3>2
      <4>2. Cardinality({first}) = 1
        BY FS_Singleton
      <4> QED
        BY <2>3, <2>4, <4>1, <4>2
    <3> QED
      BY <3>1, <3>2
  <2>5. CASE n # 0
    <3>1. n - 1 \in 0 .. MaxRegions /\ ~(n <= n - 1)
      BY <1>2, <2>3, <2>5
    <3>2. P(n - 1)
      <4>1. n - 1 \notin Bad
        BY <2>2, <3>1
      <4> QED
        BY <3>1, <4>1
    <3> DEFINE V == v[n - 1]
    <3>3. v[n] = V \cup ({nodes[r].next : r \in V} \ {Null}) /\ V \subseteq N
      BY <1>5, <2>3, <2>5, <3>2
    <3>4. v[n] \subseteq N
      BY <1>1, <3>3
    <3>5. V # N
      BY <2>3, <3>3, <3>4
    <3>6. Cardinality(V) >= n
      BY <2>3, <3>2, <3>5
    <3> HIDE DEF V
    <3>7. PICK y \in N \ V : \A z \in N \ V : rank[y] <= rank[z]
      <4> DEFINE R == {rank[z] : z \in N \ V}
      <4>1. R \subseteq Nat
        OBVIOUS
      <4>2. N \ V # {}
        BY <3>3, <3>5
      <4>3. R # {}
        BY <4>2
      <4> HIDE DEF R
      <4>4. PICK x \in R : \A m \in R : x <= m
        BY <4>1, <4>3, LeastOf
      <4> QED
        BY <4>4 DEF R
    <3>8. y \in v[n]
      <4>1. first \in V
        <5> DEFINE T == {m \in 0 .. MaxRegions : first \notin v[m]}
        <5>1. T = {}
          <6>1. SUFFICES ASSUME T # {} PROVE FALSE
            OBVIOUS
          <6>2. PICK m \in T : \A k \in T : m <= k
            <7>1. T \subseteq Nat
              OBVIOUS
            <7> HIDE DEF T
            <7> QED
              BY <6>1, <7>1, LeastOf
          <6>3. m # 0
            BY <1>1, <1>2, <1>4, <3>7, <6>2
          <6>4. m - 1 \in 0 .. MaxRegions /\ ~(m <= m - 1)
            BY <1>2, <6>2, <6>3
          <6>5. first \in v[m - 1]
            BY <6>2, <6>4
          <6> QED
            BY <1>5, <6>2, <6>3, <6>5
        <5> QED
          BY <3>1, <5>1 DEF V
      <4>2. y # first
        BY <3>7, <4>1
      <4> DEFINE p == nodes[y].prev
      <4>3. p \in N /\ nodes[p].next = y /\ rank[p] < rank[y]
        BY <1>1, <3>7, <4>2
      <4> HIDE DEF p
      <4>4. p \in V
        <5>1. rank[p] \in Nat /\ rank[y] \in Nat
          BY <3>7, <4>3
        <5>2. ~(rank[y] <= rank[p])
          BY <4>3, <5>1
        <5> QED
          BY <3>7, <4>3, <5>2
      <4>5. y # Null
        BY <1>2, <3>7
      <4> QED
        BY <3>3, <4>3, <4>4, <4>5
    <3>9. Cardinality(v[n]) >= n + 1
      <4>1. IsFiniteSet(V) /\ IsFiniteSet(v[n]) /\ Cardinality(V) \in Nat /\ Cardinality(v[n]) \in Nat
        BY <3>3, <3>4, RegionFinite
      <4>2. Cardinality(V \cup {y}) = Cardinality(V) + 1
        BY <3>7, <4>1, FS_AddElement
      <4>3. V \cup {y} \subseteq v[n]
        BY <3>3, <3>8
      <4>4. Cardinality(V \cup {y}) <= Cardinality(v[n])
        BY <4>1, <4>3, FS_Subset
      <4> QED
        BY <2>3, <3>6, <4>1, <4>2, <4>4
    <3> QED
      BY <2>3, <3>4, <3>9
  <2> QED
    BY <2>4, <2>5
<1>7. P(MaxRegions)
  BY <1>2, <1>6
<1>8. v[MaxRegions] = N
  <2>1. SUFFICES ASSUME v[MaxRegions] # N PROVE FALSE
    OBVIOUS
  <2>2. v[MaxRegions] \subseteq Region /\ Cardinality(v[MaxRegions]) >= MaxRegions + 1
    BY <1>7, <2>1
  <2>3. Cardinality(v[MaxRegions]) \in Nat /\ Cardinality(v[MaxRegions]) <= MaxRegions
    BY <2>2, RegionFinite
  <2> QED
    BY <1>2, <2>2, <2>3
<1> QED
  BY <1>3, <1>8

\* A list depends on the links of its nodes only.
LEMMA SameLinks ==
  ASSUME NEW nodes, NEW nodes2, NEW N, NEW first, NEW last, Linked(nodes, N, first, last),
         \A r \in N : nodes2[r].prev = nodes[r].prev /\ nodes2[r].next = nodes[r].next
  PROVE  Linked(nodes2, N, first, last)
<1> PICK rank \in [N -> Nat] : Ranked(nodes, N, first, last, rank)
  BY DEF Linked
<1>1. Ranked(nodes2, N, first, last, rank)
  BY DEF Ranked
<1> QED
  BY <1>1 DEF Linked

\* A node without neighbours is the only one.
LEMMA AloneLinks ==
  ASSUME NEW nodes, NEW N, NEW first, NEW last, Linked(nodes, N, first, last),
         Null \notin N, NEW r \in N, nodes[r].prev = Null, nodes[r].next = Null
  PROVE  N = {r}
<1> PICK rank \in [N -> Nat] : Ranked(nodes, N, first, last, rank)
  BY DEF Linked
<1>1. SUFFICES ASSUME N \ {r} # {} PROVE FALSE
  OBVIOUS
<1>2. PICK y \in N \ {r} : \A z \in N \ {r} : rank[y] <= rank[z]
  <2> DEFINE R == {rank[z] : z \in N \ {r}}
  <2>1. R \subseteq Nat
    OBVIOUS
  <2>2. R # {}
    BY <1>1
  <2>3. PICK x \in R : \A m \in R : x <= m
    <3> HIDE DEF R
    <3> QED
      BY <2>1, <2>2, LeastOf
  <2> QED
    BY <2>3
<1>3. r = first /\ nodes[y].prev # Null
  BY <1>2 DEF Ranked
<1> DEFINE p == nodes[y].prev
<1>4. p \in N /\ nodes[p].next = y /\ rank[p] < rank[y] /\ y # Null
  <2>1. y # Null
    BY <1>2
  <2> QED
    BY <1>2, <1>3, <2>1 DEF Ranked
<1> HIDE DEF p
<1>5. p # r
  BY <1>4
<1> QED
  BY <1>2, <1>4, <1>5

\* A node r is put at the end of a list of nodes N, ...
Appends(nodes, nodes2, N, last, r) ==
  /\ r \notin N /\ r # Null /\ Null \notin N
  /\ nodes2[r].prev = last /\ nodes2[r].next = Null
  /\ \A q \in N : /\ nodes2[q].prev = nodes[q].prev
                  /\ nodes2[q].next = IF q = last THEN r ELSE nodes[q].next

\* ... or in front of it, ...
Prepends(nodes, nodes2, N, first, r) ==
  /\ r \notin N /\ r # Null /\ Null \notin N
  /\ nodes2[r].prev = Null /\ nodes2[r].next = first
  /\ \A q \in N : /\ nodes2[q].prev = IF q = first THEN r ELSE nodes[q].prev
                  /\ nodes2[q].next = nodes[q].next

\* ... or leaves it.
Removes(nodes, nodes2, N, r) ==
  /\ r \in N /\ Null \notin N
  /\ \A q \in N \ {r} :
       /\ nodes2[q].prev = IF q = nodes[r].next THEN nodes[r].prev ELSE nodes[q].prev
       /\ nodes2[q].next = IF q = nodes[r].prev THEN nodes[r].next ELSE nodes[q].next

LEMMA AppendLinks ==
  ASSUME NEW nodes, NEW nodes2, NEW N, NEW first, NEW last, Linked(nodes, N, first, last),
         NEW r, Appends(nodes, nodes2, N, last, r)
  PROVE  Linked(nodes2, N \cup {r}, IF last = Null THEN r ELSE first, r)
<1> USE DEF Appends
<1> PICK rank \in [N -> Nat] : Ranked(nodes, N, first, last, rank)
  BY DEF Linked
<1> DEFINE rank2 == [q \in N \cup {r} |->
                       IF q # r THEN rank[q] ELSE IF last = Null THEN 0 ELSE rank[last] + 1]
           first2 == IF last = Null THEN r ELSE first
<1>1. /\ N = {} => first = Null /\ last = Null
      /\ N # {} => first \in N /\ last \in N
  BY DEF Ranked
<1>2. rank2 \in [N \cup {r} -> Nat]
  BY <1>1
<1>3. /\ \A q \in N : rank2[q] = rank[q]
      /\ last # Null => rank[last] < rank2[r]
  BY <1>1
<1> HIDE DEF rank2
<1>4. ASSUME NEW q \in N
      PROVE  /\ (nodes2[q].prev = Null) <=> (q = first2)
             /\ nodes2[q].next # Null
             /\ nodes2[q].prev # Null =>
                  /\ nodes2[q].prev \in N /\ nodes2[nodes2[q].prev].next = q
                  /\ rank2[nodes2[q].prev] < rank2[q]
             /\ nodes2[q].next \in N \cup {r} /\ nodes2[nodes2[q].next].prev = q
  <2>1. last # Null /\ last \in N /\ first2 = first
    BY <1>1
  <2>2. /\ (nodes[q].prev = Null) <=> (q = first)
        /\ (nodes[q].next = Null) <=> (q = last)
        /\ nodes[q].prev # Null =>
             /\ nodes[q].prev \in N /\ nodes[nodes[q].prev].next = q
             /\ rank[nodes[q].prev] < rank[q]
        /\ nodes[q].next # Null => nodes[q].next \in N /\ nodes[nodes[q].next].prev = q
    BY DEF Ranked
  <2>3. nodes[last].next = Null
    BY <2>1 DEF Ranked
  <2>4. nodes[q].prev # Null => nodes[q].prev # last
    <3>1. ASSUME nodes[q].prev = last PROVE FALSE
      BY <2>1, <2>2, <2>3, <3>1
    <3> QED
      BY <3>1
  <2>5. /\ nodes2[q].prev # Null =>
             /\ nodes2[q].prev \in N /\ nodes2[nodes2[q].prev].next = q
             /\ rank2[nodes2[q].prev] < rank2[q]
    BY <1>3, <2>2, <2>4
  <2>6. CASE q = last
    BY <2>1, <2>2, <2>5, <2>6
  <2>7. CASE q # last
    BY <2>1, <2>2, <2>5, <2>7
  <2> QED
    BY <2>6, <2>7
<1>5. /\ (nodes2[r].prev = Null) <=> (r = first2)
      /\ nodes2[r].prev # Null => /\ nodes2[r].prev \in N /\ nodes2[nodes2[r].prev].next = r
                                  /\ rank2[nodes2[r].prev] < rank2[r]
  BY <1>1, <1>3
<1>6. first2 \in N \cup {r}
  BY <1>1
<1> HIDE DEF first2
<1>7. Ranked(nodes2, N \cup {r}, first2, r, rank2)
  BY <1>2, <1>4, <1>5, <1>6 DEF Ranked
<1> QED
  BY <1>2, <1>7 DEF Linked, first2

LEMMA PrependLinks ==
  ASSUME NEW nodes, NEW nodes2, NEW N, NEW first, NEW last, Linked(nodes, N, first, last),
         NEW r, Prepends(nodes, nodes2, N, first, r)
  PROVE  Linked(nodes2, N \cup {r}, r, IF first = Null THEN r ELSE last)
<1> USE DEF Prepends
<1> PICK rank \in [N -> Nat] : Ranked(nodes, N, first, last, rank)
  BY DEF Linked
<1> DEFINE rank2 == [q \in N \cup {r} |-> IF q # r THEN rank[q] + 1 ELSE 0]
           last2 == IF first = Null THEN r ELSE last
<1>1. /\ N = {} => first = Null /\ last = Null
      /\ N # {} => first \in N /\ last \in N
  BY DEF Ranked
<1>2. rank2 \in [N \cup {r} -> Nat]
  OBVIOUS
<1>3. /\ \A q \in N : rank2[q] = rank[q] + 1
      /\ rank2[r] = 0
  OBVIOUS
<1> HIDE DEF rank2
<1>4. ASSUME NEW q \in N
      PROVE  /\ (nodes2[q].next = Null) <=> (q = last2)
             /\ nodes2[q].prev # Null /\ nodes2[q].prev \in N \cup {r}
             /\ nodes2[nodes2[q].prev].next = q /\ rank2[nodes2[q].prev] < rank2[q]
             /\ nodes2[q].next # Null =>
                  nodes2[q].next \in N \cup {r} /\ nodes2[nodes2[q].next].prev = q
  <2>1. first # Null /\ first \in N /\ last2 = last
    BY <1>1
  <2>2. /\ (nodes[q].prev = Null) <=> (q = first)
        /\ (nodes[q].next = Null) <=> (q = last)
        /\ nodes[q].prev # Null =>
             /\ nodes[q].prev \in N /\ nodes[nodes[q].prev].next = q
             /\ rank[nodes[q].prev] < rank[q]
        /\ nodes[q].next # Null => nodes[q].next \in N /\ nodes[nodes[q].next].prev = q
    BY DEF Ranked
  <2>3. nodes[first].prev = Null
    BY <2>1 DEF Ranked
  <2>4. nodes[q].next # Null => nodes[q].next # first
    <3>1. ASSUME nodes[q].next = first PROVE FALSE
      BY <2>1, <2>2, <2>3, <3>1
    <3> QED
      BY <3>1
  <2>5. nodes2[q].next # Null =>
          nodes2[q].next \in N \cup {r} /\ nodes2[nodes2[q].next].prev = q
    BY <2>2, <2>4
  <2>6. CASE q = first
    BY <1>3, <2>1, <2>2, <2>5, <2>6
  <2>7. CASE q # first
    BY <1>3, <2>1, <2>2, <2>5, <2>7
  <2> QED
    BY <2>6, <2>7
<1>5. /\ (nodes2[r].next = Null) <=> (r = last2)
      /\ nodes2[r].next # Null => nodes2[r].next \in N /\ nodes2[nodes2[r].next].prev = r
  BY <1>1
<1>6. last2 \in N \cup {r}
  BY <1>1
<1>7. \A q \in N \cup {r} : nodes2[q].prev = Null <=> q = r
  BY <1>4
<1> HIDE DEF last2
<1>8. Ranked(nodes2, N \cup {r}, r, last2, rank2)
  BY <1>2, <1>4, <1>5, <1>6, <1>7 DEF Ranked
<1> QED
  BY <1>2, <1>8 DEF Linked, last2

LEMMA RemoveLinks ==
  ASSUME NEW nodes, NEW nodes2, NEW N, NEW first, NEW last, Linked(nodes, N, first, last),
         NEW r, Removes(nodes, nodes2, N, r)
  PROVE  Linked(nodes2, N \ {r}, IF nodes[r].prev = Null THEN nodes[r].next ELSE first,
                                 IF nodes[r].next = Null THEN nodes[r].prev ELSE last)
<1> USE DEF Removes
<1> PICK rank \in [N -> Nat] : Ranked(nodes, N, first, last, rank)
  BY DEF Linked
<1> DEFINE rank2 == [q \in N \ {r} |-> rank[q]]
           prev == nodes[r].prev
           next == nodes[r].next
           first2 == IF prev = Null THEN next ELSE first
           last2 == IF next = Null THEN prev ELSE last
<1>1. \A q \in N :
        /\ (nodes[q].prev = Null) <=> (q = first)
        /\ (nodes[q].next = Null) <=> (q = last)
        /\ nodes[q].prev # Null =>
             /\ nodes[q].prev \in N /\ nodes[nodes[q].prev].next = q
             /\ rank[nodes[q].prev] < rank[q]
        /\ nodes[q].next # Null => nodes[q].next \in N /\ nodes[nodes[q].next].prev = q
  BY DEF Ranked
<1>2. first \in N /\ last \in N
  BY DEF Ranked
<1>3. /\ prev # Null => prev \in N /\ prev # r /\ nodes[prev].next = r /\ rank[prev] < rank[r]
      /\ next # Null => next \in N /\ next # r /\ nodes[next].prev = r /\ rank[r] < rank[next]
  <2>1. \A q \in N : rank[q] \in Nat /\ ~(rank[q] < rank[q])
    OBVIOUS
  <2>2. prev # Null => prev \in N /\ prev # r /\ nodes[prev].next = r /\ rank[prev] < rank[r]
    BY <1>1, <2>1
  <2>3. next # Null => next \in N /\ nodes[next].prev = r /\ r # Null
    BY <1>1
  <2>4. next # Null => rank[r] < rank[next] /\ next # r
    BY <1>1, <2>1, <2>3
  <2> QED
    BY <2>2, <2>3, <2>4
<1>4. prev = Null /\ next = Null => N = {r}
  BY AloneLinks
<1>5. rank2 \in [N \ {r} -> Nat] /\ \A q \in N \ {r} : rank2[q] = rank[q]
  OBVIOUS
<1>6. \A q \in N \ {r} :
        /\ nodes2[q].prev = IF q = next THEN prev ELSE nodes[q].prev
        /\ nodes2[q].next = IF q = prev THEN next ELSE nodes[q].next
  OBVIOUS
<1>7. (prev = Null <=> r = first) /\ (next = Null <=> r = last)
  BY <1>1
<1> HIDE DEF rank2, prev, next
<1>8. N \ {r} = {} => first2 = Null /\ last2 = Null
  BY <1>3
<1>9. N \ {r} # {} => first2 \in N \ {r} /\ last2 \in N \ {r}
  BY <1>2, <1>3, <1>4, <1>7
<1>10. ASSUME NEW q \in N \ {r}
       PROVE  /\ (nodes2[q].prev = Null) <=> (q = first2)
              /\ nodes2[q].prev # Null =>
                   /\ nodes2[q].prev \in N \ {r} /\ nodes2[nodes2[q].prev].next = q
                   /\ rank2[nodes2[q].prev] < rank2[q]
  <2>1. CASE q = next
    <3>1. nodes2[q].prev = prev /\ q # Null /\ q # first
      BY <1>1, <1>3, <1>6, <2>1
    <3>2. CASE prev = Null
      BY <2>1, <3>1, <3>2
    <3>3. CASE prev # Null
      <4>1. prev \in N \ {r} /\ nodes2[prev].next = q
        BY <1>3, <1>6, <2>1, <3>3
      <4>2. rank[prev] < rank[q]
        <5>1. rank[prev] \in Nat /\ rank[r] \in Nat /\ rank[q] \in Nat
          BY <4>1
        <5> QED
          BY <1>3, <2>1, <3>1, <3>3, <5>1
      <4>3. first2 = first
        BY <3>3
      <4> QED
        BY <1>5, <3>1, <3>3, <4>1, <4>2, <4>3
    <3> QED
      BY <3>2, <3>3
  <2>2. CASE q # next
    <3>1. nodes2[q].prev = nodes[q].prev
      BY <1>6, <2>2
    <3>2. q = first2 <=> q = first
      BY <1>7, <2>2
    <3>3. nodes[q].prev # Null =>
            /\ nodes[q].prev \in N \ {r} /\ nodes2[nodes[q].prev].next = q
            /\ rank[nodes[q].prev] < rank[q]
      <4>1. SUFFICES ASSUME nodes[q].prev # Null
                     PROVE  /\ nodes[q].prev \in N \ {r} /\ nodes2[nodes[q].prev].next = q
                            /\ rank[nodes[q].prev] < rank[q]
        OBVIOUS
      <4>2. nodes[q].prev \in N /\ nodes[nodes[q].prev].next = q
            /\ rank[nodes[q].prev] < rank[q]
        BY <1>1, <4>1
      <4>3. nodes[q].prev # r
        BY <2>2, <4>2 DEF next
      <4>4. nodes[q].prev # prev
        BY <1>3, <4>1, <4>2
      <4> QED
        BY <1>6, <4>2, <4>3, <4>4
    <3>4. (nodes2[q].prev = Null) <=> (q = first2)
      BY <1>1, <3>1, <3>2
    <3> QED
      BY <1>5, <3>1, <3>3, <3>4
  <2> QED
    BY <2>1, <2>2
<1>11. ASSUME NEW q \in N \ {r}
       PROVE  /\ (nodes2[q].next = Null) <=> (q = last2)
              /\ nodes2[q].next # Null =>
                   nodes2[q].next \in N \ {r} /\ nodes2[nodes2[q].next].prev = q
  <2>1. CASE q = prev
    <3>1. nodes2[q].next = next /\ q # Null /\ q # last
      BY <1>1, <1>3, <1>6, <2>1
    <3>2. CASE next = Null
      BY <2>1, <3>1, <3>2
    <3>3. CASE next # Null
      BY <1>3, <1>6, <2>1, <3>1, <3>3
    <3> QED
      BY <3>2, <3>3
  <2>2. CASE q # prev
    <3>1. nodes2[q].next = nodes[q].next
      BY <1>6, <2>2
    <3>2. q = last2 <=> q = last
      BY <1>7, <2>2
    <3>3. nodes[q].next # Null =>
            nodes[q].next \in N \ {r} /\ nodes2[nodes[q].next].prev = q
      <4>1. SUFFICES ASSUME nodes[q].next # Null
                     PROVE  nodes[q].next \in N \ {r} /\ nodes2[nodes[q].next].prev = q
        OBVIOUS
      <4>2. nodes[q].next \in N /\ nodes[nodes[q].next].prev = q
        BY <1>1, <4>1
      <4>3. nodes[q].next # r
        BY <2>2, <4>2 DEF prev
      <4>4. nodes[q].next # next
        BY <1>3, <4>1, <4>2
      <4> QED
        BY <1>6, <4>2, <4>3, <4>4
    <3>4. (nodes2[q].next = Null) <=> (q = last2)
      BY <1>1, <3>1, <3>2
    <3> QED
      BY <3>1, <3>3, <3>4
  <2> QED
    BY <2>1, <2>2
<1> HIDE DEF first2, last2
<1>12. Ranked(nodes2, N \ {r}, first2, last2, rank2)
  BY <1>5, <1>8, <1>9, <1>10, <1>11 DEF Ranked
<1> QED
  BY <1>5, <1>12 DEF Linked, first2, last2, prev, next

-----------------------------------------------------------------------------
(* Buckets and their slots                                                 *)

LEMMA PoolConstants ==
  BucketSize \in Nat /\ BucketSize > 0 /\ Sizes \subseteq Nat /\ Aligns \subseteq Nat
BY BucketAssumption, LayoutAssumption

\* The first of some numbers.
LEMMA FirstIs ==
  ASSUME NEW T, T \subseteq Nat, T # {}
  PROVE  First(T) \in T
<1>1. \E x \in T : \A y \in T : x <= y
  BY LeastOf
<1> QED
  BY <1>1 DEF First

LEMMA ClassFacts ==
  ASSUME NEW obj \in Classes
  PROVE  /\ obj \in Nat /\ obj > 0 /\ obj <= BucketSize
         /\ SlotCount(obj) \in Nat /\ SlotCount(obj) > 0 /\ SlotCount(obj) <= BucketSize
<1>1. PICK s \in Sizes, a \in Aligns : obj = ObjectSize(s, a) /\ IsSmall(obj)
  BY DEF Classes
<1>2. obj \in Nat /\ obj > 0
  BY <1>1, PoolConstants, ObjectSizeFacts
<1>3. obj <= BucketSize
  BY <1>1 DEF IsSmall
<1> DEFINE q == BucketSize \div obj
<1>4. q \in Nat /\ q <= BucketSize
  BY <1>2, PoolConstants
<1>5. SlotCount(obj) = IF q = 0 THEN 1 ELSE q
  BY DEF SlotCount
<1> HIDE DEF q
<1>6. SlotCount(obj) \in Nat /\ SlotCount(obj) > 0 /\ SlotCount(obj) <= BucketSize
  BY <1>4, <1>5, PoolConstants
<1> QED
  BY <1>2, <1>3, <1>6

\* A small request is served by a class that is large enough.
LEMMA RequestClass ==
  ASSUME NEW size \in Sizes, NEW align \in Aligns, size # 0, IsSmall(ObjectSize(size, align))
  PROVE  ObjectSize(size, align) \in Classes /\ size <= ObjectSize(size, align)
<1>1. size \in Nat /\ align \in Nat /\ size <= ObjectSize(size, align)
  BY PoolConstants, ObjectSizeFacts
<1> QED
  BY <1>1 DEF Classes

\* The slots of a bucket do not overlap, and their offset tells which they are.
LEMMA SlotOffsets ==
  ASSUME NEW obj \in Nat, obj > 0, NEW s \in Nat, NEW t \in Nat
  PROVE  /\ s * obj \in Nat /\ (s * obj) \div obj = s
         /\ s < t => s * obj + obj <= t * obj
         /\ s * obj = t * obj => s = t
<1>1. s * obj \in Nat /\ t * obj \in Nat
  OBVIOUS
<1>2. (s * obj) \div obj = s
  <2> DEFINE x == s * obj
             q == x \div obj
  <2>1. q \in Nat /\ q * obj <= x /\ x < q * obj + obj
    <3> HIDE DEF x
    <3> QED
      BY <1>1 DEF x
  <2> HIDE DEF q
  <2>2. q * obj = s * obj \/ q < s \/ q > s
    BY <2>1
  <2> QED
    BY <2>1
<1>3. ASSUME NEW i \in Nat, NEW j \in Nat, i < j
      PROVE  i * obj + obj <= j * obj
  <2>1. PICK n \in Nat : j = i + 1 + n
    <3>1. j - i - 1 \in Nat /\ j = i + 1 + (j - i - 1)
      BY <1>3
    <3> QED
      BY <3>1
  <2>2. j * obj = i * obj + obj + n * obj /\ n * obj \in Nat /\ i * obj \in Nat
    BY <2>1
  <2> QED
    BY <2>2
<1>4. s * obj = t * obj => s = t
  <2>1. ASSUME s < t PROVE s * obj # t * obj
    BY <1>1, <1>3, <2>1
  <2>2. ASSUME t < s PROVE s * obj # t * obj
    BY <1>1, <1>3, <2>2
  <2> QED
    BY <2>1, <2>2
<1> QED
  BY <1>1, <1>2, <1>3, <1>4

-----------------------------------------------------------------------------
(* The inductive invariant of the general-purpose allocator                *)

GpaRecord ==
  [heads : [Classes -> Region \cup {Null}], tails : [Classes -> Region \cup {Null}],
   largeAllocs : Region \cup {Null}, node : UNION {[D -> Node] : D \in SUBSET Region},
   held : Int]

BucketsIn(nodes) == {r \in DOMAIN nodes : nodes[r].slice = Null}
RecordsIn(nodes) == DOMAIN nodes \ BucketsIn(nodes)
OfClass(nodes, obj) == {r \in BucketsIn(nodes) : nodes[r].obj = obj}

ListsGood(nodes, heads, tails, large) ==
  /\ \A obj \in Classes : Linked(nodes, OfClass(nodes, obj), heads[obj], tails[obj])
  /\ \E last : Linked(nodes, RecordsIn(nodes), large, last)

\* A bucket of a class counts its slots.
BucketGood(k) ==
  /\ k.obj \in Classes
  /\ k.used \subseteq 0 .. SlotCount(k.obj) - 1
  /\ k.count = Cardinality(k.used)

NodesGood(nodes) ==
  /\ \A r \in BucketsIn(nodes) : BucketGood(nodes[r])
  /\ \A r \in RecordsIn(nodes) : nodes[r].slice \in Region \ DOMAIN nodes
  /\ \A r, q \in RecordsIn(nodes) : nodes[r].slice = nodes[q].slice => r = q

\* Block b is slot s of bucket k.
IsSlot(k, s, b) == b.pos = s * k.obj /\ b.len <= k.obj

InUsedSlot(nodes, b) ==
  b.region \in BucketsIn(nodes) /\ \E s \in nodes[b.region].used : IsSlot(nodes[b.region], s, b)

UnderRecord(nodes, b) ==
  b.pos = 0 /\ \E r \in RecordsIn(nodes) : nodes[r].slice = b.region

GpaBlock == [region : Region, pos : Nat, len : Nat]

BlocksGood(nodes, lv) ==
  /\ lv \subseteq GpaBlock
  /\ \A b \in lv : InUsedSlot(nodes, b) \/ UnderRecord(nodes, b)
  /\ \A b, d \in lv : b.region = d.region /\ b.pos = d.pos => b = d
  /\ \A r \in BucketsIn(nodes) : \A s \in nodes[r].used :
       \E b \in lv : b.region = r /\ b.pos = s * nodes[r].obj
  /\ \A r \in RecordsIn(nodes) : \E b \in lv : b.region = nodes[r].slice

\* An empty bucket, but for x, is the only one of its class.
EmptyAlone(nodes, x) ==
  \A r, q \in BucketsIn(nodes) :
     r # x /\ nodes[r].count = 0 /\ nodes[q].obj = nodes[r].obj => q = r

\* Allocator g, whose clients hold the blocks lv, is as it should be, except that
\* bucket x may be empty.
GpaGood(g, lv, x) ==
  /\ g \in GpaRecord
  /\ ListsGood(g.node, g.heads, g.tails, g.largeAllocs)
  /\ NodesGood(g.node)
  /\ BlocksGood(g.node, lv)
  /\ EmptyAlone(g.node, x)
  /\ g.held = 2 * Cardinality(DOMAIN g.node)

GpaInv == GpaGood(gpa, live, Null)

\* What is known of an allocator's nodes.
LEMMA NodeFacts ==
  ASSUME NEW g \in GpaRecord
  PROVE  /\ DOMAIN g.node \subseteq Region /\ g.node \in [DOMAIN g.node -> Node]
         /\ \A r \in DOMAIN g.node : g.node[r] \in Node /\ r # Null
         /\ g.heads \in [Classes -> Region \cup {Null}]
         /\ g.tails \in [Classes -> Region \cup {Null}]
         /\ g.largeAllocs \in Region \cup {Null} /\ g.held \in Int
<1>1. PICK D \in SUBSET Region : g.node \in [D -> Node]
  BY DEF GpaRecord
<1>2. Null \notin Region
  BY RegionFinite
<1> QED
  BY <1>1, <1>2 DEF GpaRecord

\* A list's first and last nodes are on it.
LEMMA LinkedEnds ==
  ASSUME NEW nodes, NEW N, NEW first, NEW last, Linked(nodes, N, first, last)
  PROVE  /\ N = {} => first = Null /\ last = Null
         /\ N # {} => first \in N /\ last \in N
         /\ \A r \in N : /\ (nodes[r].prev = Null) <=> (r = first)
                         /\ (nodes[r].next = Null) <=> (r = last)
                         /\ nodes[r].prev # Null => nodes[r].prev \in N
                         /\ nodes[r].next # Null => nodes[r].next \in N
BY DEF Linked, Ranked

\* A node with other contents, whose links and kind are the same.
SameShape(nodes, nodes2) ==
  /\ DOMAIN nodes2 = DOMAIN nodes
  /\ \A r \in DOMAIN nodes :
       /\ nodes2[r].prev = nodes[r].prev /\ nodes2[r].next = nodes[r].next
       /\ nodes2[r].obj = nodes[r].obj
       /\ nodes2[r].slice = Null <=> nodes[r].slice = Null

LEMMA SameShapeLists ==
  ASSUME NEW nodes, NEW nodes2, SameShape(nodes, nodes2)
  PROVE  /\ BucketsIn(nodes2) = BucketsIn(nodes) /\ RecordsIn(nodes2) = RecordsIn(nodes)
         /\ \A obj : OfClass(nodes2, obj) = OfClass(nodes, obj)
         /\ \A heads, tails, large :
              ListsGood(nodes, heads, tails, large) => ListsGood(nodes2, heads, tails, large)
<1>1. BucketsIn(nodes2) = BucketsIn(nodes) /\ RecordsIn(nodes2) = RecordsIn(nodes)
  BY DEF SameShape, BucketsIn, RecordsIn
<1>2. \A obj : OfClass(nodes2, obj) = OfClass(nodes, obj)
  BY <1>1 DEF SameShape, OfClass, BucketsIn
<1>3. ASSUME NEW heads, NEW tails, NEW large, ListsGood(nodes, heads, tails, large)
      PROVE  ListsGood(nodes2, heads, tails, large)
  <2>1. ASSUME NEW obj \in Classes
        PROVE  Linked(nodes2, OfClass(nodes2, obj), heads[obj], tails[obj])
    <3>1. Linked(nodes, OfClass(nodes, obj), heads[obj], tails[obj])
      BY <1>3 DEF ListsGood
    <3>2. \A r \in OfClass(nodes, obj) :
             nodes2[r].prev = nodes[r].prev /\ nodes2[r].next = nodes[r].next
      BY DEF SameShape, OfClass, BucketsIn
    <3>3. Linked(nodes2, OfClass(nodes, obj), heads[obj], tails[obj])
      BY <3>1, <3>2, SameLinks
    <3> QED
      BY <1>2, <3>3
  <2>2. PICK last : Linked(nodes, RecordsIn(nodes), large, last)
    BY <1>3 DEF ListsGood
  <2>3. \A r \in RecordsIn(nodes) :
           nodes2[r].prev = nodes[r].prev /\ nodes2[r].next = nodes[r].next
    BY DEF SameShape, RecordsIn
  <2>4. Linked(nodes2, RecordsIn(nodes2), large, last)
    BY <1>1, <2>2, <2>3, SameLinks
  <2> QED
    BY <2>1, <2>4 DEF ListsGood
<1> QED
  BY <1>1, <1>2, <1>3

-----------------------------------------------------------------------------
(* Slots, buckets and large objects that are given out                     *)

\* What an allocation a makes of allocator g.
Obtains(g, lv, a) ==
  /\ GpaGood(a.gpa, lv \cup {a.block}, Null)
  /\ a.block \notin lv
  /\ BucketsIn(g.node) \subseteq BucketsIn(a.gpa.node)

\* Two blocks of a bucket are in different slots.
LEMMA TakenGood ==
  ASSUME NEW g, NEW lv, NEW r \in BucketsIn(g.node), NEW x \in {r, Null}, GpaGood(g, lv, x),
         g.node[r].count # SlotCount(g.node[r].obj),
         NEW size \in Nat, size <= g.node[r].obj
  PROVE  Obtains(g, lv, Taken(g, r, size))
<1> DEFINE nodes == g.node
           k == nodes[r]
           s == FreeSlot(k)
           a == Taken(g, r, size)
           nodes2 == a.gpa.node
           n == SlotCount(k.obj)
<1>1. g \in GpaRecord /\ r \in DOMAIN nodes /\ k \in Node
  <2>1. g \in GpaRecord
    BY DEF GpaGood
  <2> QED
    BY <2>1, NodeFacts DEF BucketsIn
<1>2. BucketGood(k) /\ k.slice = Null
  BY DEF GpaGood, NodesGood, BucketsIn
<1>3. k.obj \in Nat /\ k.obj > 0 /\ n \in Nat /\ n > 0 /\ n <= BucketSize /\ k.obj \in Classes
  BY <1>2, ClassFacts DEF BucketGood
<1>4. /\ IsFiniteSet(k.used) /\ Cardinality(k.used) \in Nat /\ k.count = Cardinality(k.used)
      /\ k.used \subseteq 0 .. n - 1
  BY <1>2, <1>3, SlotsFinite DEF BucketGood
<1>5. s \in 0 .. n - 1 /\ s \notin k.used
  <2> DEFINE T == (0 .. n - 1) \ k.used
  <2>1. T # {}
    <3>1. SUFFICES ASSUME T = {} PROVE FALSE
      OBVIOUS
    <3>2. k.used = 0 .. n - 1
      BY <1>4, <3>1
    <3>3. Cardinality(0 .. n - 1) = n
      <4> HIDE DEF n
      <4> QED
        BY <1>3, CountBelow
    <3> QED
      BY <1>4, <3>2, <3>3
  <2>2. T \subseteq Nat /\ s = First(T)
    BY DEF FreeSlot
  <2> HIDE DEF T, s
  <2>3. s \in T
    BY <2>1, <2>2, FirstIs
  <2> QED
    BY <2>3 DEF T
<1> HIDE DEF s
<1>6. a.block = [region |-> r, pos |-> s * k.obj, len |-> size]
  BY DEF Taken, s
<1>7. /\ a.gpa = [g EXCEPT !.node[r].used = @ \cup {s}, !.node[r].count = @ + 1]
      /\ a.gpa = [g EXCEPT !.node[r].used = k.used \cup {s}, !.node[r].count = k.count + 1]
  BY DEF Taken, s
<1>8. /\ DOMAIN nodes2 = DOMAIN nodes
      /\ nodes2[r].prev = k.prev /\ nodes2[r].next = k.next /\ nodes2[r].obj = k.obj
      /\ nodes2[r].slice = k.slice
      /\ nodes2[r].used = k.used \cup {s} /\ nodes2[r].count = k.count + 1
      /\ nodes2[r] \in Node
      /\ \A q \in DOMAIN nodes : q # r => nodes2[q] = nodes[q]
  <2>1. /\ nodes2 = [nodes EXCEPT ![r] = [k EXCEPT !.used = k.used \cup {s}, !.count = k.count + 1]]
    BY <1>1, <1>7 DEF GpaRecord
  <2>2. k.used \cup {s} \subseteq 0 .. BucketSize - 1 /\ k.count + 1 \in Nat
    BY <1>3, <1>4, <1>5, PoolConstants
  <2>3. [k EXCEPT !.used = k.used \cup {s}, !.count = k.count + 1] \in Node
    BY <1>1, <2>2 DEF Node
  <2> QED
    BY <1>1, <2>1, <2>3 DEF Node
<1>9. /\ a.gpa.heads = g.heads /\ a.gpa.tails = g.tails /\ a.gpa.largeAllocs = g.largeAllocs
      /\ a.gpa.held = g.held /\ a.gpa \in GpaRecord
  <2>1. /\ a.gpa.heads = g.heads /\ a.gpa.tails = g.tails /\ a.gpa.largeAllocs = g.largeAllocs
        /\ a.gpa.held = g.held
        /\ a.gpa = [heads |-> g.heads, tails |-> g.tails, largeAllocs |-> g.largeAllocs,
                    node |-> nodes2, held |-> g.held]
    BY <1>1, <1>7 DEF GpaRecord
  <2>2. nodes2 \in [DOMAIN nodes -> Node]
    <3>1. nodes2 = [q \in DOMAIN nodes |-> nodes2[q]]
      BY <1>1, <1>7 DEF GpaRecord
    <3> QED
      BY <1>1, <1>8, <3>1, NodeFacts
  <2> QED
    BY <1>1, <2>1, <2>2, NodeFacts DEF GpaRecord
<1> DEFINE b == a.block
           lv2 == lv \cup {b}
<1>10. b \in GpaBlock /\ b.region = r /\ b.pos = s * k.obj /\ b.len = size
  <2>1. s * k.obj \in Nat /\ r \in Region
    BY <1>1, <1>3, <1>5, NodeFacts
  <2> QED
    BY <1>6, <2>1 DEF GpaBlock
<1> HIDE DEF k, a, nodes2, b
<1>11. SameShape(nodes, nodes2)
  BY <1>8 DEF SameShape, k
<1>12. /\ ListsGood(nodes2, a.gpa.heads, a.gpa.tails, a.gpa.largeAllocs)
       /\ BucketsIn(nodes2) = BucketsIn(nodes) /\ RecordsIn(nodes2) = RecordsIn(nodes)
       /\ r \in BucketsIn(nodes) /\ r \notin RecordsIn(nodes)
  <2>1. ListsGood(nodes, g.heads, g.tails, g.largeAllocs)
    BY DEF GpaGood
  <2> QED
    BY <1>9, <1>11, <2>1, SameShapeLists DEF RecordsIn
<1>13. NodesGood(nodes2)
  <2>1. BucketGood(nodes2[r])
    <3>1. Cardinality(k.used \cup {s}) = k.count + 1
      BY <1>4, <1>5, FS_AddElement
    <3>2. k.used \cup {s} \subseteq 0 .. n - 1
      BY <1>4, <1>5
    <3> QED
      BY <1>3, <1>8, <3>1, <3>2 DEF BucketGood
  <2>2. ASSUME NEW q \in BucketsIn(nodes2) PROVE BucketGood(nodes2[q])
    BY <1>8, <1>12, <2>1 DEF GpaGood, NodesGood, BucketsIn
  <2>3. \A q \in RecordsIn(nodes2) : nodes2[q] = nodes[q] /\ q \in RecordsIn(nodes)
    BY <1>8, <1>12 DEF RecordsIn
  <2>4. \A q \in RecordsIn(nodes2) : nodes2[q].slice \in Region \ DOMAIN nodes2
    BY <1>8, <2>3 DEF GpaGood, NodesGood
  <2>5. \A p, q \in RecordsIn(nodes2) : nodes2[p].slice = nodes2[q].slice => p = q
    BY <2>3 DEF GpaGood, NodesGood
  <2> QED
    BY <2>2, <2>4, <2>5 DEF NodesGood
<1>14. ASSUME NEW d \in lv
       PROVE  d.region = r => d.pos # s * k.obj
  <2>1. SUFFICES ASSUME d.region = r PROVE d.pos # s * k.obj
    OBVIOUS
  <2>2. InUsedSlot(nodes, d)
    BY <1>1, <2>1 DEF GpaGood, BlocksGood, UnderRecord, NodesGood
  <2>3. PICK t \in k.used : d.pos = t * k.obj
    BY <2>1, <2>2 DEF InUsedSlot, IsSlot, k
  <2>4. t \in Nat /\ s \in Nat /\ t # s
    BY <1>3, <1>4, <1>5, <2>3
  <2> QED
    BY <1>3, <2>3, <2>4, SlotOffsets
<1>15. b \notin lv
  BY <1>10, <1>14
<1>16. BlocksGood(nodes2, lv2)
  <2>1. lv2 \subseteq GpaBlock
    BY <1>10 DEF GpaGood, BlocksGood
  <2>2. InUsedSlot(nodes2, b)
    BY <1>8, <1>10, <1>12 DEF InUsedSlot, IsSlot, k
  <2>3. ASSUME NEW d \in lv
        PROVE  InUsedSlot(nodes2, d) \/ UnderRecord(nodes2, d)
    <3>1. InUsedSlot(nodes, d) \/ UnderRecord(nodes, d)
      BY DEF GpaGood, BlocksGood
    <3>2. CASE InUsedSlot(nodes, d)
      <4>1. d.region \in BucketsIn(nodes2) /\ d.region \in DOMAIN nodes
        BY <1>12, <3>2 DEF InUsedSlot, BucketsIn
      <4>2. \A t \in nodes[d.region].used :
              IsSlot(nodes[d.region], t, d) => t \in nodes2[d.region].used
                                              /\ IsSlot(nodes2[d.region], t, d)
        BY <1>8, <4>1 DEF IsSlot, k
      <4> QED
        BY <3>2, <4>1, <4>2 DEF InUsedSlot
    <3>3. CASE UnderRecord(nodes, d)
      BY <1>8, <1>12, <3>3 DEF UnderRecord, RecordsIn
    <3> QED
      BY <3>1, <3>2, <3>3
  <2>4. \A d, e \in lv2 : d.region = e.region /\ d.pos = e.pos => d = e
    <3>1. \A d, e \in lv : d.region = e.region /\ d.pos = e.pos => d = e
      BY DEF GpaGood, BlocksGood
    <3> QED
      BY <1>10, <1>14, <3>1
  <2>5. ASSUME NEW q \in BucketsIn(nodes2), NEW t \in nodes2[q].used
        PROVE  \E d \in lv2 : d.region = q /\ d.pos = t * nodes2[q].obj
    <3>1. CASE q = r /\ t = s
      BY <1>8, <1>10, <3>1
    <3>2. CASE ~(q = r /\ t = s)
      <4>1. q \in BucketsIn(nodes) /\ t \in nodes[q].used /\ nodes2[q].obj = nodes[q].obj
        BY <1>8, <1>12, <3>2 DEF BucketsIn, k
      <4>2. \E d \in lv : d.region = q /\ d.pos = t * nodes[q].obj
        BY <4>1 DEF GpaGood, BlocksGood
      <4> QED
        BY <4>1, <4>2
    <3> QED
      BY <3>1, <3>2
  <2>6. ASSUME NEW q \in RecordsIn(nodes2)
        PROVE  \E d \in lv2 : d.region = nodes2[q].slice
    <3>1. q \in RecordsIn(nodes) /\ nodes2[q] = nodes[q]
      BY <1>8, <1>12 DEF RecordsIn
    <3>2. \E d \in lv : d.region = nodes[q].slice
      BY <3>1 DEF GpaGood, BlocksGood
    <3> QED
      BY <3>1, <3>2
  <2> QED
    BY <2>1, <2>2, <2>3, <2>4, <2>5, <2>6 DEF BlocksGood
<1>17. EmptyAlone(nodes2, Null)
  <2>1. EmptyAlone(nodes, x)
    BY DEF GpaGood
  <2>2. nodes2[r].count # 0
    BY <1>4, <1>8
  <2>3. \A q \in BucketsIn(nodes) : nodes2[q].obj = nodes[q].obj
                                    /\ (q # r => nodes2[q].count = nodes[q].count)
    BY <1>8 DEF BucketsIn, k
  <2>4. \A q \in BucketsIn(nodes) : q # Null
    BY <1>1, NodeFacts DEF BucketsIn
  <2> QED
    BY <1>12, <2>1, <2>2, <2>3, <2>4 DEF EmptyAlone
<1>18. a.gpa.held = 2 * Cardinality(DOMAIN nodes2)
  BY <1>8, <1>9 DEF GpaGood
<1>19. GpaGood(a.gpa, lv2, Null)
  BY <1>9, <1>12, <1>13, <1>16, <1>17, <1>18 DEF GpaGood, nodes2
<1> QED
  BY <1>12, <1>15, <1>19 DEF Obtains, a, b, nodes2

\* Node q has the same contents in nodes2, whatever its links are.
SameData(nodes, nodes2, q) ==
  /\ q \in DOMAIN nodes /\ q \in DOMAIN nodes2
  /\ nodes2[q].obj = nodes[q].obj /\ nodes2[q].used = nodes[q].used
  /\ nodes2[q].count = nodes[q].count /\ nodes2[q].slice = nodes[q].slice

\* What a node that joins a list changes, ...
LEMMA LinkFacts ==
  ASSUME NEW g \in GpaRecord, NEW r \in Region \ DOMAIN g.node, NEW k \in Node
  PROVE  LET nodes2 == Link(g.node, r, k)
         IN  /\ nodes2 \in [DOMAIN g.node \cup {r} -> Node]
             /\ nodes2[r] = k
             /\ \A q \in DOMAIN g.node :
                  /\ SameData(g.node, nodes2, q)
                  /\ nodes2[q].next = IF q = k.prev THEN r ELSE g.node[q].next
                  /\ nodes2[q].prev = IF q = k.next THEN r ELSE g.node[q].prev
<1> DEFINE nodes == g.node
           nodes2 == Link(g.node, r, k)
<1>1. \A q \in DOMAIN nodes : nodes[q] \in Node
  BY NodeFacts
<1>2. /\ DOMAIN nodes2 = DOMAIN nodes \cup {r} /\ nodes2[r] = k
      /\ nodes2 = [q \in DOMAIN nodes \cup {r} |-> nodes2[q]]
  BY DEF Link
<1>3. ASSUME NEW q \in DOMAIN nodes
      PROVE  /\ nodes2[q] \in Node
             /\ SameData(nodes, nodes2, q)
             /\ nodes2[q].next = IF q = k.prev THEN r ELSE nodes[q].next
             /\ nodes2[q].prev = IF q = k.next THEN r ELSE nodes[q].prev
  <2>1. nodes2[q] = [nodes[q] EXCEPT !.next = IF q = k.prev THEN r ELSE @,
                                     !.prev = IF q = k.next THEN r ELSE @]
    BY DEF Link
  <2>2. nodes[q] \in Node
    BY <1>1
  <2> QED
    BY <1>2, <2>1, <2>2 DEF Node, SameData
<1> HIDE DEF nodes2
<1>4. nodes2 \in [DOMAIN nodes \cup {r} -> Node]
  BY <1>2, <1>3
<1> QED
  BY <1>2, <1>3, <1>4 DEF nodes2

\* ... and one that leaves it.
LEMMA UnlinkFacts ==
  ASSUME NEW g \in GpaRecord, NEW r \in DOMAIN g.node
  PROVE  LET nodes2 == Unlink(g.node, r)
             k == g.node[r]
         IN  /\ nodes2 \in [DOMAIN g.node \ {r} -> Node]
             /\ \A q \in DOMAIN g.node \ {r} :
                  /\ SameData(g.node, nodes2, q)
                  /\ nodes2[q].next = IF q = k.prev THEN k.next ELSE g.node[q].next
                  /\ nodes2[q].prev = IF q = k.next THEN k.prev ELSE g.node[q].prev
<1> DEFINE nodes == g.node
           nodes2 == Unlink(g.node, r)
           k == nodes[r]
<1>1. \A q \in DOMAIN nodes : nodes[q] \in Node
  BY NodeFacts
<1>2. /\ DOMAIN nodes2 = DOMAIN nodes \ {r}
      /\ nodes2 = [q \in DOMAIN nodes \ {r} |-> nodes2[q]]
  BY DEF Unlink
<1>3. ASSUME NEW q \in DOMAIN nodes \ {r}
      PROVE  /\ nodes2[q] \in Node
             /\ SameData(nodes, nodes2, q)
             /\ nodes2[q].next = IF q = k.prev THEN k.next ELSE nodes[q].next
             /\ nodes2[q].prev = IF q = k.next THEN k.prev ELSE nodes[q].prev
  <2>1. nodes2[q] = [nodes[q] EXCEPT !.next = IF q = k.prev THEN k.next ELSE @,
                                     !.prev = IF q = k.next THEN k.prev ELSE @]
    BY DEF Unlink
  <2>2. nodes[q] \in Node /\ k \in Node
    BY <1>1
  <2> QED
    BY <1>2, <2>1, <2>2 DEF Node, SameData
<1> HIDE DEF nodes2, k
<1>4. nodes2 \in [DOMAIN nodes \ {r} -> Node]
  BY <1>2, <1>3
<1> QED
  BY <1>2, <1>3, <1>4 DEF nodes2, k

\* A block stays where it is while the contents of its node do.
LEMMA PlaceKept ==
  ASSUME NEW nodes, NEW nodes2, NEW b
  PROVE  /\ InUsedSlot(nodes, b) /\ SameData(nodes, nodes2, b.region) => InUsedSlot(nodes2, b)
         /\ \A r \in RecordsIn(nodes) :
              b.pos = 0 /\ nodes[r].slice = b.region /\ SameData(nodes, nodes2, r)
              => UnderRecord(nodes2, b)
<1>1. InUsedSlot(nodes, b) /\ SameData(nodes, nodes2, b.region) => InUsedSlot(nodes2, b)
  BY DEF InUsedSlot, IsSlot, SameData, BucketsIn
<1>2. ASSUME NEW r \in RecordsIn(nodes), SameData(nodes, nodes2, r)
      PROVE  r \in RecordsIn(nodes2) /\ nodes2[r].slice = nodes[r].slice
  BY <1>2 DEF RecordsIn, BucketsIn, SameData
<1> QED
  BY <1>1, <1>2 DEF UnderRecord

\* A free region is none of the allocator's.
LEMMA FreeFacts ==
  ASSUME NEW g \in GpaRecord, NEW r \in Free(g)
  PROVE  /\ r \in Region /\ r # Null /\ r \notin DOMAIN g.node
         /\ \A q \in DOMAIN g.node : g.node[q].slice # r
BY RegionFinite DEF Free

LEMMA FreshIs ==
  ASSUME NEW g \in GpaRecord
  PROVE  /\ HasRoom(g, 1) => Fresh(g) \in Free(g)
         /\ HasRoom(g, 2) => /\ Fresh(g) \in Free(g)
                             /\ First(Free(g) \ {Fresh(g)}) \in Free(g) \ {Fresh(g)}
<1> DEFINE R == Free(g)
<1>1. R \subseteq Region /\ R \subseteq Nat
  BY DEF Free, Region
<1>2. IsFiniteSet(R) /\ Cardinality(R) \in Nat
  BY <1>1, RegionFinite
<1>3. R = {} => Cardinality(R) = 0
  BY FS_EmptySet
<1>4. (HasRoom(g, 1) => Cardinality(R) >= 1) /\ (HasRoom(g, 2) => Cardinality(R) >= 2)
  BY DEF HasRoom
<1>5. Fresh(g) = First(R)
  BY DEF Fresh
<1> HIDE DEF R
<1>6. Cardinality(R) >= 1 => First(R) \in R
  <2>1. Cardinality(R) >= 1 => R # {}
    BY <1>3
  <2> QED
    BY <1>1, <2>1, FirstIs
<1>7. ASSUME Cardinality(R) >= 2
      PROVE  R \ {First(R)} # {}
  <2>1. SUFFICES ASSUME R \ {First(R)} = {} PROVE FALSE
    OBVIOUS
  <2>2. First(R) \in R
    BY <1>2, <1>6, <1>7
  <2>3. R = {First(R)}
    BY <2>1, <2>2
  <2> QED
    BY <1>7, <2>3, FS_Singleton
<1>8. Cardinality(R) >= 2 => First(R \ {First(R)}) \in R \ {First(R)}
  BY <1>1, <1>7, FirstIs
<1> QED
  BY <1>2, <1>4, <1>5, <1>6, <1>8 DEF R

\* A new bucket r of class obj, still empty.
Adds(g, lv, obj, r, w) ==
  /\ GpaGood(w, lv, r)
  /\ r \in BucketsIn(w.node) /\ w.node[r].obj = obj /\ w.node[r].count = 0
  /\ BucketsIn(g.node) \subseteq BucketsIn(w.node)

\* No bucket of a class has a free slot when the first one has none and an empty
\* one would be alone.
LEMMA WithBucketGood ==
  ASSUME NEW g, NEW lv, GpaGood(g, lv, Null), NEW obj \in Classes,
         NeedsBucket(g, obj), HasRoom(g, 1)
  PROVE  Adds(g, lv, obj, Fresh(g), WithBucket(g, obj))
<1> DEFINE nodes == g.node
           r == Fresh(g)
           tail == g.tails[obj]
           head == g.heads[obj]
           k == Bucket(tail, obj)
           w == WithBucket(g, obj)
           nodes2 == Link(nodes, r, k)
           N == OfClass(nodes, obj)
<1>1. g \in GpaRecord
  BY DEF GpaGood
<1>2. r \in Region /\ r # Null /\ r \notin DOMAIN nodes /\ \A q \in DOMAIN nodes : nodes[q].slice # r
  BY <1>1, FreshIs, FreeFacts
<1>3. obj \in Nat /\ obj > 0 /\ SlotCount(obj) > 0 /\ SlotCount(obj) \in Nat
  BY ClassFacts
<1>4. /\ w.node = nodes2 /\ w.heads = [g.heads EXCEPT ![obj] = IF tail = Null THEN r ELSE @]
      /\ w.tails = [g.tails EXCEPT ![obj] = r]
      /\ w.largeAllocs = g.largeAllocs /\ w.held = g.held + 2
      /\ w = [heads |-> w.heads, tails |-> w.tails, largeAllocs |-> w.largeAllocs,
              node |-> w.node, held |-> w.held]
  <2>1. w = [g EXCEPT !.node = nodes2, !.heads[obj] = IF tail = Null THEN r ELSE @,
                      !.tails[obj] = r, !.held = @ + 2]
    BY Zenon DEF WithBucket
  <2> HIDE DEF w, nodes2, r, k
  <2> QED
    BY <1>1, <2>1 DEF GpaRecord
<1>5. g.heads \in [Classes -> Region \cup {Null}] /\ g.tails \in [Classes -> Region \cup {Null}]
      /\ DOMAIN nodes \subseteq Region /\ g.largeAllocs \in Region \cup {Null} /\ g.held \in Int
      /\ \A q \in DOMAIN nodes : q # Null
  BY <1>1, NodeFacts
<1>6. /\ k \in Node /\ k.prev = tail /\ k.next = Null /\ k.obj = obj /\ k.used = {}
      /\ k.count = 0 /\ k.slice = Null
  BY <1>3, <1>5 DEF Bucket, Node
<1> HIDE DEF k, r, w
<1>7. /\ nodes2 \in [DOMAIN nodes \cup {r} -> Node] /\ nodes2[r] = k
      /\ \A q \in DOMAIN nodes : /\ SameData(nodes, nodes2, q)
                                 /\ nodes2[q].next = IF q = tail THEN r ELSE nodes[q].next
                                 /\ nodes2[q].prev = IF q = Null THEN r ELSE nodes[q].prev
  <2>1. r \in Region \ DOMAIN g.node
    BY <1>2
  <2>2. /\ nodes2 \in [DOMAIN g.node \cup {r} -> Node] /\ nodes2[r] = k
        /\ \A q \in DOMAIN g.node : /\ SameData(g.node, nodes2, q)
                                    /\ nodes2[q].next = IF q = k.prev THEN r ELSE nodes[q].next
                                    /\ nodes2[q].prev = IF q = k.next THEN r ELSE nodes[q].prev
    BY <1>1, <1>6, <2>1, LinkFacts
  <2> HIDE DEF nodes2
  <2> QED
    BY <1>6, <2>2
<1> HIDE DEF nodes2
<1>8. /\ \A q \in DOMAIN nodes : nodes2[q].prev = nodes[q].prev /\ SameData(nodes, nodes2, q)
      /\ DOMAIN nodes2 = DOMAIN nodes \cup {r}
      /\ BucketsIn(nodes2) = BucketsIn(nodes) \cup {r} /\ RecordsIn(nodes2) = RecordsIn(nodes)
      /\ r \notin BucketsIn(nodes) /\ r \notin RecordsIn(nodes)
  <2>1. \A q \in DOMAIN nodes : nodes2[q].prev = nodes[q].prev /\ SameData(nodes, nodes2, q)
    BY <1>5, <1>7
  <2>2. DOMAIN nodes2 = DOMAIN nodes \cup {r} /\ nodes2[r].slice = Null
    BY <1>6, <1>7
  <2>3. \A q \in DOMAIN nodes : nodes2[q].slice = nodes[q].slice
    BY <2>1 DEF SameData
  <2> QED
    BY <1>2, <2>1, <2>2, <2>3 DEF BucketsIn, RecordsIn
<1>9. w \in GpaRecord
  <2>1. w.node \in UNION {[D -> Node] : D \in SUBSET Region}
    BY <1>2, <1>4, <1>5, <1>7, SMTT(30)
  <2> QED
    BY <1>2, <1>4, <1>5, <2>1 DEF GpaRecord
<1>10. ListsGood(nodes, g.heads, g.tails, g.largeAllocs)
  BY DEF GpaGood
<1>11. ListsGood(nodes2, w.heads, w.tails, w.largeAllocs)
  <2>1. Linked(nodes, N, head, tail)
    BY <1>10 DEF ListsGood
  <2>2. N \subseteq BucketsIn(nodes) /\ N \subseteq DOMAIN nodes /\ Null \notin N /\ r \notin N
    BY <1>5, <1>8 DEF OfClass, BucketsIn
  <2>3. tail \in N \/ tail = Null
    BY <2>1, LinkedEnds
  <2>4. Linked(nodes2, N \cup {r}, IF tail = Null THEN r ELSE head, r)
    <3>1. nodes2[r].prev = tail /\ nodes2[r].next = Null
      BY <1>6, <1>7
    <3>2. \A q \in N : /\ nodes2[q].prev = nodes[q].prev
                       /\ nodes2[q].next = IF q = tail THEN r ELSE nodes[q].next
      BY <1>7, <1>8, <2>2
    <3> HIDE DEF N, tail, head
    <3>3. Appends(nodes, nodes2, N, tail, r)
      BY <1>2, <2>2, <3>1, <3>2 DEF Appends
    <3> QED
      BY <2>1, <3>3, AppendLinks
  <2>5. OfClass(nodes2, obj) = N \cup {r}
    BY <1>6, <1>7, <1>8 DEF OfClass, SameData, BucketsIn
  <2>6. ASSUME NEW c \in Classes, c # obj
        PROVE  Linked(nodes2, OfClass(nodes2, c), w.heads[c], w.tails[c])
    <3>1. Linked(nodes, OfClass(nodes, c), g.heads[c], g.tails[c])
      BY <1>10 DEF ListsGood
    <3>2. OfClass(nodes2, c) = OfClass(nodes, c)
      BY <1>6, <1>7, <1>8, <2>6 DEF OfClass, SameData, BucketsIn
    <3>3. \A q \in OfClass(nodes, c) : q \in DOMAIN nodes /\ q # tail
      BY <1>5, <2>3, <2>6 DEF OfClass, BucketsIn
    <3>4. \A q \in OfClass(nodes, c) :
            nodes2[q].prev = nodes[q].prev /\ nodes2[q].next = nodes[q].next
      BY <1>7, <1>8, <3>3
    <3>5. w.heads[c] = g.heads[c] /\ w.tails[c] = g.tails[c]
      BY <1>4, <1>5, <2>6
    <3> QED
      BY <3>1, <3>2, <3>4, <3>5, SameLinks
  <2>7. w.heads[obj] = (IF tail = Null THEN r ELSE head) /\ w.tails[obj] = r
    BY <1>4, <1>5
  <2>8. \A c \in Classes : Linked(nodes2, OfClass(nodes2, c), w.heads[c], w.tails[c])
    BY <2>4, <2>5, <2>6, <2>7
  <2>9. PICK last : Linked(nodes, RecordsIn(nodes), g.largeAllocs, last)
    BY <1>10 DEF ListsGood
  <2>10. \A q \in RecordsIn(nodes) : q \in DOMAIN nodes /\ q # tail
    BY <1>5, <2>2, <2>3 DEF RecordsIn
  <2>11. \A q \in RecordsIn(nodes) :
            nodes2[q].prev = nodes[q].prev /\ nodes2[q].next = nodes[q].next
    BY <1>7, <1>8, <2>10
  <2>12. Linked(nodes2, RecordsIn(nodes2), w.largeAllocs, last)
    BY <1>4, <1>8, <2>9, <2>11, SameLinks
  <2> QED
    BY <2>8, <2>12 DEF ListsGood
<1>12. NodesGood(nodes2)
  <2>1. BucketGood(nodes2[r])
    BY <1>6, <1>7, FS_EmptySet DEF BucketGood
  <2>2. \A q \in BucketsIn(nodes) : BucketGood(nodes[q]) /\ SameData(nodes, nodes2, q)
    BY <1>8 DEF GpaGood, NodesGood, BucketsIn
  <2>3. \A q \in BucketsIn(nodes2) : BucketGood(nodes2[q])
    BY <1>8, <2>1, <2>2 DEF SameData, BucketGood
  <2>4. \A q \in RecordsIn(nodes) : nodes2[q].slice = nodes[q].slice /\ q \in DOMAIN nodes
    BY <1>8 DEF SameData, RecordsIn
  <2>5. \A q \in RecordsIn(nodes2) : nodes2[q].slice \in Region \ DOMAIN nodes2
    BY <1>2, <1>8, <2>4 DEF GpaGood, NodesGood
  <2>6. \A p, q \in RecordsIn(nodes2) : nodes2[p].slice = nodes2[q].slice => p = q
    BY <1>8, <2>4 DEF GpaGood, NodesGood
  <2> QED
    BY <2>3, <2>5, <2>6 DEF NodesGood
<1>13. BlocksGood(nodes2, lv)
  <2>1. BlocksGood(nodes, lv)
    BY DEF GpaGood
  <2>2. ASSUME NEW b \in lv
        PROVE  InUsedSlot(nodes2, b) \/ UnderRecord(nodes2, b)
    <3>1. CASE InUsedSlot(nodes, b)
      BY <1>8, <3>1, PlaceKept DEF InUsedSlot, BucketsIn
    <3>2. CASE UnderRecord(nodes, b)
      BY <1>8, <3>2, PlaceKept DEF UnderRecord, RecordsIn
    <3> QED
      BY <2>1, <3>1, <3>2 DEF BlocksGood
  <2>3. ASSUME NEW q \in BucketsIn(nodes2), NEW t \in nodes2[q].used
        PROVE  \E b \in lv : b.region = q /\ b.pos = t * nodes2[q].obj
    <3>1. q \in BucketsIn(nodes) /\ SameData(nodes, nodes2, q)
      BY <1>6, <1>7, <1>8 DEF BucketsIn
    <3> QED
      BY <2>1, <3>1 DEF BlocksGood, SameData
  <2>4. \A q \in RecordsIn(nodes2) : \E b \in lv : b.region = nodes2[q].slice
    BY <1>8, <2>1 DEF BlocksGood, SameData, RecordsIn
  <2> QED
    BY <2>1, <2>2, <2>3, <2>4 DEF BlocksGood
<1>14. EmptyAlone(nodes2, r)
  <2>1. EmptyAlone(nodes, Null)
    BY DEF GpaGood
  <2>2. ASSUME NEW q \in N
        PROVE  nodes[q].count # 0
    <3>1. Linked(nodes, N, head, tail)
      BY <1>10 DEF ListsGood
    <3>2. head \in N /\ head # Null
      <4>1. head \in N
        BY <3>1, LinkedEnds
      <4> QED
        BY <1>5, <4>1 DEF OfClass, BucketsIn
    <3>3. nodes[head].count = SlotCount(obj)
      BY <3>2 DEF NeedsBucket
    <3>4. nodes[q].count = 0 => head = q
      BY <1>5, <2>1, <3>2 DEF EmptyAlone, OfClass, BucketsIn
    <3> QED
      BY <1>3, <3>3, <3>4
  <2>3. ASSUME NEW p \in BucketsIn(nodes2), NEW q \in BucketsIn(nodes2),
               p # r, nodes2[p].count = 0, nodes2[q].obj = nodes2[p].obj
        PROVE  q = p
    <3>1. p \in BucketsIn(nodes) /\ p \in DOMAIN nodes /\ SameData(nodes, nodes2, p)
      BY <1>8, <2>3 DEF BucketsIn
    <3>2. nodes[p].count = 0 /\ nodes[p].obj = nodes2[p].obj
      BY <2>3, <3>1 DEF SameData
    <3>3. nodes[p].obj # obj
      BY <2>2, <3>1, <3>2 DEF OfClass
    <3>4. q # r
      BY <1>6, <1>7, <2>3, <3>2, <3>3
    <3>5. q \in BucketsIn(nodes) /\ nodes[q].obj = nodes2[q].obj
      BY <1>8, <3>4 DEF SameData, BucketsIn
    <3> QED
      BY <1>5, <2>1, <2>3, <3>1, <3>2, <3>5 DEF EmptyAlone
  <2> QED
    BY <2>3 DEF EmptyAlone
<1>15. w.held = 2 * Cardinality(DOMAIN nodes2)
  <2>1. IsFiniteSet(DOMAIN nodes) /\ Cardinality(DOMAIN nodes) \in Nat
    BY <1>5, RegionFinite
  <2>2. Cardinality(DOMAIN nodes \cup {r}) = Cardinality(DOMAIN nodes) + 1
    BY <1>2, <2>1, FS_AddElement
  <2>3. g.held = 2 * Cardinality(DOMAIN nodes)
    BY DEF GpaGood
  <2> QED
    BY <1>4, <1>8, <2>1, <2>2, <2>3
<1>16. GpaGood(w, lv, r)
  BY <1>4, <1>9, <1>11, <1>12, <1>13, <1>14, <1>15 DEF GpaGood
<1> QED
  BY <1>4, <1>6, <1>7, <1>8, <1>16 DEF Adds, w, r

\* A large object is a block of its own, and its record the first of the list.
LEMMA LargeGood ==
  ASSUME NEW g, NEW lv, GpaGood(g, lv, Null), NEW size \in Nat, NEW a \in LargeAllocs(g, size)
  PROVE  Obtains(g, lv, a)
<1> DEFINE nodes == g.node
           slice == Fresh(g)
           r == First(Free(g) \ {slice})
           head == g.largeAllocs
           k == Record(head, slice)
           w == a.gpa
           b == a.block
           nodes2 == Link(nodes, r, k)
           N == RecordsIn(nodes)
<1>1. g \in GpaRecord
  BY DEF GpaGood
<1>2. HasRoom(g, 2)
  BY DEF LargeAllocs
<1>3. /\ w = [g EXCEPT !.node = nodes2, !.largeAllocs = r, !.held = @ + 2]
      /\ b = [region |-> slice, pos |-> 0, len |-> size]
  <2>1. a \in {[gpa |-> [g EXCEPT !.node = nodes2, !.largeAllocs = r, !.held = @ + 2],
                block |-> [region |-> slice, pos |-> 0, len |-> size]]}
    BY <1>2, Zenon DEF LargeAllocs
  <2> HIDE DEF nodes2, r, slice
  <2> QED
    BY <2>1
<1>4. /\ r \in Region /\ r # Null /\ r \notin DOMAIN nodes
      /\ slice \in Region /\ slice # Null /\ slice \notin DOMAIN nodes /\ slice # r
      /\ \A q \in DOMAIN nodes : nodes[q].slice # r /\ nodes[q].slice # slice
  <2>1. slice \in Free(g) /\ r \in Free(g) /\ slice # r
    BY <1>1, <1>2, FreshIs
  <2> HIDE DEF slice, r
  <2> QED
    BY <1>1, <2>1, FreeFacts
<1>5. /\ DOMAIN nodes \subseteq Region /\ head \in Region \cup {Null} /\ g.held \in Int
      /\ g.heads \in [Classes -> Region \cup {Null}] /\ g.tails \in [Classes -> Region \cup {Null}]
      /\ \A q \in DOMAIN nodes : q # Null
  BY <1>1, NodeFacts
<1>6. /\ k \in Node /\ k.prev = Null /\ k.next = head /\ k.slice = slice
  BY <1>4, <1>5 DEF Record, Node
<1> HIDE DEF k, r, slice, w, b
<1>7. /\ nodes2 \in [DOMAIN nodes \cup {r} -> Node] /\ nodes2[r] = k
      /\ \A q \in DOMAIN nodes : /\ SameData(nodes, nodes2, q)
                                 /\ nodes2[q].next = nodes[q].next
                                 /\ nodes2[q].prev = IF q = head THEN r ELSE nodes[q].prev
  <2>1. r \in Region \ DOMAIN g.node
    BY <1>4
  <2>2. /\ nodes2 \in [DOMAIN g.node \cup {r} -> Node] /\ nodes2[r] = k
        /\ \A q \in DOMAIN g.node : /\ SameData(g.node, nodes2, q)
                                    /\ nodes2[q].next = IF q = k.prev THEN r ELSE nodes[q].next
                                    /\ nodes2[q].prev = IF q = k.next THEN r ELSE nodes[q].prev
    BY <1>1, <1>6, <2>1, LinkFacts, SMTT(30)
  <2> HIDE DEF nodes2
  <2> QED
    BY <1>5, <1>6, <2>2
<1>8. /\ w.node = nodes2 /\ w.heads = g.heads /\ w.tails = g.tails
      /\ w.largeAllocs = r /\ w.held = g.held + 2
      /\ w = [heads |-> w.heads, tails |-> w.tails, largeAllocs |-> w.largeAllocs,
              node |-> w.node, held |-> w.held]
  <2> HIDE DEF nodes2
  <2> QED
    BY <1>1, <1>3 DEF GpaRecord
<1>9. b \in GpaBlock /\ b.region = slice /\ b.pos = 0
  BY <1>3, <1>4 DEF GpaBlock
<1> HIDE DEF nodes2
<1>10. /\ \A q \in DOMAIN nodes : SameData(nodes, nodes2, q)
       /\ DOMAIN nodes2 = DOMAIN nodes \cup {r}
       /\ BucketsIn(nodes2) = BucketsIn(nodes) /\ RecordsIn(nodes2) = N \cup {r}
       /\ r \notin BucketsIn(nodes) /\ r \notin N
  <2>1. DOMAIN nodes2 = DOMAIN nodes \cup {r} /\ nodes2[r].slice # Null
    BY <1>4, <1>6, <1>7
  <2>2. \A q \in DOMAIN nodes : nodes2[q].slice = nodes[q].slice /\ SameData(nodes, nodes2, q)
    BY <1>7 DEF SameData
  <2> QED
    BY <1>4, <2>1, <2>2 DEF BucketsIn, RecordsIn
<1>11. w \in GpaRecord
  <2>1. w.node \in UNION {[D -> Node] : D \in SUBSET Region}
    BY <1>4, <1>5, <1>7, <1>8
  <2> QED
    BY <1>4, <1>5, <1>8, <2>1 DEF GpaRecord
<1>12. ListsGood(nodes2, w.heads, w.tails, w.largeAllocs)
  <2>1. ListsGood(nodes, g.heads, g.tails, g.largeAllocs)
    BY DEF GpaGood
  <2>2. PICK last : Linked(nodes, N, head, last)
    BY <2>1 DEF ListsGood
  <2>3. N \subseteq DOMAIN nodes /\ Null \notin N /\ (head \in N \/ head = Null)
    BY <1>5, <2>2, LinkedEnds DEF RecordsIn
  <2>4. Linked(nodes2, N \cup {r}, r, IF head = Null THEN r ELSE last)
    <3>1. nodes2[r].prev = Null /\ nodes2[r].next = head
      BY <1>6, <1>7
    <3>2. \A q \in N : /\ nodes2[q].prev = IF q = head THEN r ELSE nodes[q].prev
                       /\ nodes2[q].next = nodes[q].next
      BY <1>7, <2>3
    <3> HIDE DEF N, head
    <3>3. Prepends(nodes, nodes2, N, head, r)
      BY <1>4, <1>10, <2>3, <3>1, <3>2 DEF Prepends
    <3> QED
      BY <2>2, <3>3, PrependLinks
  <2>5. ASSUME NEW c \in Classes
        PROVE  Linked(nodes2, OfClass(nodes2, c), w.heads[c], w.tails[c])
    <3>1. Linked(nodes, OfClass(nodes, c), g.heads[c], g.tails[c])
      BY <2>1 DEF ListsGood
    <3>2. OfClass(nodes2, c) = OfClass(nodes, c)
      BY <1>10 DEF OfClass, SameData, BucketsIn
    <3>3. \A q \in OfClass(nodes, c) : q \in DOMAIN nodes /\ q # head
      BY <1>5, <2>3 DEF OfClass, BucketsIn, RecordsIn
    <3>4. \A q \in OfClass(nodes, c) :
            nodes2[q].prev = nodes[q].prev /\ nodes2[q].next = nodes[q].next
      BY <1>7, <3>3
    <3> QED
      BY <1>8, <3>1, <3>2, <3>4, SameLinks
  <2> QED
    BY <1>8, <1>10, <2>4, <2>5 DEF ListsGood
<1>13. NodesGood(nodes2)
  <2>1. \A q \in BucketsIn(nodes) : BucketGood(nodes[q]) /\ SameData(nodes, nodes2, q)
    BY <1>10 DEF GpaGood, NodesGood, BucketsIn
  <2>2. \A q \in BucketsIn(nodes2) : BucketGood(nodes2[q])
    BY <1>10, <2>1 DEF SameData, BucketGood
  <2>3. \A q \in N : nodes2[q].slice = nodes[q].slice /\ q \in DOMAIN nodes
    BY <1>10 DEF SameData, RecordsIn
  <2>4. nodes2[r].slice = slice
    BY <1>6, <1>7
  <2>5. \A q \in N : nodes[q].slice \in Region \ DOMAIN nodes
    BY DEF GpaGood, NodesGood
  <2>6. \A q \in RecordsIn(nodes2) : nodes2[q].slice \in Region \ DOMAIN nodes2
    BY <1>4, <1>10, <2>3, <2>4, <2>5
  <2>7. \A p, q \in N : nodes[p].slice = nodes[q].slice => p = q
    BY DEF GpaGood, NodesGood
  <2>8. \A p, q \in RecordsIn(nodes2) : nodes2[p].slice = nodes2[q].slice => p = q
    BY <1>4, <1>10, <2>3, <2>4, <2>7
  <2> QED
    BY <2>2, <2>6, <2>8 DEF NodesGood
<1>14. BlocksGood(nodes, lv)
  BY DEF GpaGood
<1>15. ASSUME NEW d \in lv
       PROVE  d.region # slice
  <2>1. CASE InUsedSlot(nodes, d)
    BY <1>4, <2>1 DEF InUsedSlot, BucketsIn
  <2>2. CASE UnderRecord(nodes, d)
    BY <1>4, <2>2 DEF UnderRecord, RecordsIn
  <2> QED
    BY <1>14, <2>1, <2>2 DEF BlocksGood
<1>16. BlocksGood(nodes2, lv \cup {b})
  <2>1. UnderRecord(nodes2, b)
    BY <1>6, <1>7, <1>9, <1>10 DEF UnderRecord
  <2>2. ASSUME NEW d \in lv
        PROVE  InUsedSlot(nodes2, d) \/ UnderRecord(nodes2, d)
    <3>1. CASE InUsedSlot(nodes, d)
      BY <1>10, <3>1, PlaceKept DEF InUsedSlot, BucketsIn
    <3>2. CASE UnderRecord(nodes, d)
      BY <1>10, <3>2, PlaceKept DEF UnderRecord, RecordsIn
    <3> QED
      BY <1>14, <3>1, <3>2 DEF BlocksGood
  <2>3. ASSUME NEW q \in BucketsIn(nodes2), NEW t \in nodes2[q].used
        PROVE  \E d \in lv : d.region = q /\ d.pos = t * nodes2[q].obj
    <3>1. q \in BucketsIn(nodes) /\ SameData(nodes, nodes2, q)
      BY <1>10 DEF BucketsIn
    <3> QED
      BY <1>14, <3>1 DEF BlocksGood, SameData
  <2>4. \A q \in N : \E d \in lv : d.region = nodes2[q].slice
    BY <1>10, <1>14 DEF BlocksGood, SameData, RecordsIn
  <2>5. nodes2[r].slice = b.region
    BY <1>6, <1>7, <1>9
  <2>6. \A d, e \in lv \cup {b} : d.region = e.region /\ d.pos = e.pos => d = e
    BY <1>9, <1>14, <1>15 DEF BlocksGood
  <2>7. lv \cup {b} \subseteq GpaBlock
    BY <1>9, <1>14 DEF BlocksGood
  <2> QED
    BY <1>10, <2>1, <2>2, <2>3, <2>4, <2>5, <2>6, <2>7 DEF BlocksGood
<1>17. EmptyAlone(nodes2, Null)
  <2>1. EmptyAlone(nodes, Null)
    BY DEF GpaGood
  <2>2. \A q \in BucketsIn(nodes) : SameData(nodes, nodes2, q)
    BY <1>10 DEF BucketsIn
  <2> QED
    BY <1>10, <2>1, <2>2 DEF EmptyAlone, SameData
<1>18. w.held = 2 * Cardinality(DOMAIN nodes2)
  <2>1. IsFiniteSet(DOMAIN nodes) /\ Cardinality(DOMAIN nodes) \in Nat
    BY <1>5, RegionFinite
  <2>2. Cardinality(DOMAIN nodes \cup {r}) = Cardinality(DOMAIN nodes) + 1
    BY <1>4, <2>1, FS_AddElement
  <2>3. g.held = 2 * Cardinality(DOMAIN nodes)
    BY DEF GpaGood
  <2> QED
    BY <1>8, <1>10, <2>1, <2>2, <2>3
<1>19. GpaGood(w, lv \cup {b}, Null)
  BY <1>8, <1>11, <1>12, <1>13, <1>16, <1>17, <1>18 DEF GpaGood
<1>20. b \notin lv
  BY <1>9, <1>15
<1> QED
  BY <1>8, <1>10, <1>19, <1>20 DEF Obtains, w, b

\* Whatever size is asked for, an allocation gives a block nobody holds.
LEMMA GpaAllocGood ==
  ASSUME NEW g, NEW lv, GpaGood(g, lv, Null), NEW size \in Sizes, NEW align \in Aligns,
         NEW a \in Allocs(g, size, align)
  PROVE  Obtains(g, lv, a)
<1> DEFINE obj == ObjectSize(size, align)
           head == g.heads[obj]
<1>1. size # 0 /\ size \in Nat
  BY PoolConstants DEF Allocs
<1>2. CASE IsSmall(obj)
  <2>1. obj \in Classes /\ size <= obj /\ a \in SmallAllocs(g, size, obj)
    BY <1>1, <1>2, RequestClass DEF Allocs
  <2> HIDE DEF obj
  <2>2. CASE ~NeedsBucket(g, obj)
    <3>1. a = Taken(g, head, size)
      BY <2>1, <2>2 DEF SmallAllocs
    <3>2. head # Null /\ g.node[head].count # SlotCount(obj)
      BY <2>2 DEF NeedsBucket
    <3>3. Linked(g.node, OfClass(g.node, obj), head, g.tails[obj])
      BY <2>1 DEF GpaGood, ListsGood
    <3>4. head \in OfClass(g.node, obj)
      BY <3>2, <3>3, LinkedEnds
    <3>5. head \in BucketsIn(g.node) /\ g.node[head].obj = obj
      BY <3>4 DEF OfClass
    <3> HIDE DEF head
    <3> QED
      BY <1>1, <2>1, <3>1, <3>2, <3>5, TakenGood
  <2>3. CASE NeedsBucket(g, obj)
    <3> DEFINE w == WithBucket(g, obj)
               r == Fresh(g)
    <3>1. HasRoom(g, 1) /\ a = Taken(w, r, size)
      BY <2>1, <2>3 DEF SmallAllocs
    <3>2. Adds(g, lv, obj, r, w)
      BY <2>1, <2>3, <3>1, WithBucketGood
    <3> HIDE DEF w, r
    <3>3. /\ GpaGood(w, lv, r) /\ r \in BucketsIn(w.node) /\ w.node[r].obj = obj
          /\ w.node[r].count # SlotCount(w.node[r].obj)
          /\ BucketsIn(g.node) \subseteq BucketsIn(w.node)
      BY <2>1, <3>2, ClassFacts DEF Adds
    <3>4. Obtains(w, lv, Taken(w, r, size))
      BY <1>1, <2>1, <3>3, TakenGood
    <3> QED
      BY <3>1, <3>3, <3>4 DEF Obtains
  <2> QED
    BY <2>2, <2>3
<1>3. CASE ~IsSmall(obj)
  <2>1. a \in LargeAllocs(g, size)
    BY <1>1, <1>3 DEF Allocs
  <2> QED
    BY <1>1, <2>1, LargeGood
<1> QED
  BY <1>2, <1>3

-----------------------------------------------------------------------------
(* Slots, buckets and large objects that are given back                    *)

\* Allocator g with a slot of bucket r cleared.
Cleared(g, r, s) == [g EXCEPT !.node[r].used  = @ \ {s},
                              !.node[r].count = IF @ > 0 THEN @ - 1 ELSE @]

LEMMA ClearedGood ==
  ASSUME NEW g, NEW lv, GpaGood(g, lv, Null), NEW b \in lv, b.region \in BucketsIn(g.node)
  PROVE  LET r == b.region
             h == Cleared(g, r, b.pos \div g.node[r].obj)
         IN  GpaGood(h, lv \ {b}, r) /\ r \in BucketsIn(h.node)
<1> DEFINE nodes == g.node
           r == b.region
           k == nodes[r]
           s == b.pos \div k.obj
           h == Cleared(g, r, s)
           nodes2 == h.node
           n == SlotCount(k.obj)
           lv2 == lv \ {b}
<1>1. g \in GpaRecord /\ r \in DOMAIN nodes /\ k \in Node
  <2>1. g \in GpaRecord
    BY DEF GpaGood
  <2> QED
    BY <2>1, NodeFacts DEF BucketsIn
<1>2. BucketGood(k) /\ k.slice = Null
  BY DEF GpaGood, NodesGood, BucketsIn
<1>3. k.obj \in Nat /\ k.obj > 0 /\ n \in Nat /\ n > 0 /\ n <= BucketSize /\ k.obj \in Classes
  BY <1>2, ClassFacts DEF BucketGood
<1>4. /\ IsFiniteSet(k.used) /\ Cardinality(k.used) \in Nat /\ k.count = Cardinality(k.used)
      /\ k.used \subseteq 0 .. n - 1
  BY <1>2, <1>3, SlotsFinite DEF BucketGood
<1>5. BlocksGood(nodes, lv) /\ b \in GpaBlock
  BY DEF GpaGood, BlocksGood
<1>6. \A d \in lv : d.region = r => InUsedSlot(nodes, d)
  BY <1>1, <1>5 DEF GpaGood, BlocksGood, UnderRecord, NodesGood
<1>7. s \in k.used /\ b.pos = s * k.obj /\ s \in Nat
  <2>1. PICK t \in k.used : b.pos = t * k.obj
    BY <1>6 DEF InUsedSlot, IsSlot
  <2>2. t \in Nat
    BY <1>3, <1>4
  <2>3. (t * k.obj) \div k.obj = t
    BY <1>3, <2>2, SlotOffsets
  <2> QED
    BY <2>1, <2>2, <2>3
<1> HIDE DEF s
<1>8. IsFiniteSet(k.used \ {s}) /\ Cardinality(k.used \ {s}) = k.count - 1 /\ k.count > 0
      /\ k.used \ {s} \subseteq 0 .. n - 1 /\ Cardinality(k.used \ {s}) \in Nat
  <2>1. Cardinality(k.used \ {s}) = Cardinality(k.used) - 1
    BY <1>4, <1>7, FS_RemoveElement
  <2>2. k.used \ {s} \subseteq 0 .. n - 1
    BY <1>4
  <2>3. IsFiniteSet(k.used \ {s}) /\ Cardinality(k.used \ {s}) \in Nat
    BY <1>3, <2>2, SlotsFinite
  <2> QED
    BY <1>4, <2>1, <2>2, <2>3
<1>9. h = [g EXCEPT !.node[r].used = k.used \ {s}, !.node[r].count = k.count - 1]
  BY <1>8 DEF Cleared
<1>10. nodes2 = [nodes EXCEPT ![r] = [k EXCEPT !.used = k.used \ {s}, !.count = k.count - 1]]
  <2> HIDE DEF h
  <2> QED
    BY <1>1, <1>9 DEF GpaRecord
<1> HIDE DEF h
<1>11. /\ DOMAIN nodes2 = DOMAIN nodes
       /\ nodes2[r].prev = k.prev /\ nodes2[r].next = k.next /\ nodes2[r].obj = k.obj
       /\ nodes2[r].slice = k.slice
       /\ nodes2[r].used = k.used \ {s} /\ nodes2[r].count = k.count - 1
       /\ nodes2[r] \in Node
       /\ \A q \in DOMAIN nodes : q # r => nodes2[q] = nodes[q]
  <2>1. k.used \ {s} \subseteq 0 .. BucketSize - 1 /\ k.count - 1 \in Nat
    BY <1>3, <1>4, <1>8, PoolConstants
  <2>2. [k EXCEPT !.used = k.used \ {s}, !.count = k.count - 1] \in Node
    BY <1>1, <2>1 DEF Node
  <2> HIDE DEF nodes2
  <2> QED
    BY <1>1, <1>10, <2>2 DEF Node
<1>12. /\ h.heads = g.heads /\ h.tails = g.tails /\ h.largeAllocs = g.largeAllocs
       /\ h.held = g.held /\ h \in GpaRecord
  <2>1. /\ h.heads = g.heads /\ h.tails = g.tails /\ h.largeAllocs = g.largeAllocs
        /\ h.held = g.held
        /\ h = [heads |-> g.heads, tails |-> g.tails, largeAllocs |-> g.largeAllocs,
                node |-> nodes2, held |-> g.held]
    BY <1>1, <1>9 DEF GpaRecord
  <2>2. nodes2 \in [DOMAIN nodes -> Node]
    <3>1. nodes2 = [q \in DOMAIN nodes |-> nodes2[q]]
      BY <1>1, <1>10
    <3> HIDE DEF nodes2
    <3> QED
      BY <1>1, <1>11, <3>1, NodeFacts
  <2> HIDE DEF nodes2
  <2> QED
    BY <1>1, <2>1, <2>2, NodeFacts DEF GpaRecord
<1> HIDE DEF k, nodes2
<1>13. SameShape(nodes, nodes2)
  BY <1>11 DEF SameShape, k
<1>14. /\ ListsGood(nodes2, h.heads, h.tails, h.largeAllocs)
       /\ BucketsIn(nodes2) = BucketsIn(nodes) /\ RecordsIn(nodes2) = RecordsIn(nodes)
       /\ r \in BucketsIn(nodes) /\ r \notin RecordsIn(nodes)
  <2>1. ListsGood(nodes, g.heads, g.tails, g.largeAllocs)
    BY DEF GpaGood
  <2> QED
    BY <1>12, <1>13, <2>1, SameShapeLists DEF RecordsIn
<1>15. NodesGood(nodes2)
  <2>1. BucketGood(nodes2[r])
    BY <1>3, <1>8, <1>11 DEF BucketGood
  <2>2. ASSUME NEW q \in BucketsIn(nodes2) PROVE BucketGood(nodes2[q])
    BY <1>11, <1>14, <2>1 DEF GpaGood, NodesGood, BucketsIn
  <2>3. \A q \in RecordsIn(nodes2) : nodes2[q] = nodes[q] /\ q \in RecordsIn(nodes)
    BY <1>11, <1>14 DEF RecordsIn
  <2>4. \A q \in RecordsIn(nodes2) : nodes2[q].slice \in Region \ DOMAIN nodes2
    BY <1>11, <2>3 DEF GpaGood, NodesGood
  <2>5. \A p, q \in RecordsIn(nodes2) : nodes2[p].slice = nodes2[q].slice => p = q
    BY <2>3 DEF GpaGood, NodesGood
  <2> QED
    BY <2>2, <2>4, <2>5 DEF NodesGood
<1>16. BlocksGood(nodes2, lv2)
  <2>1. ASSUME NEW d \in lv2
        PROVE  InUsedSlot(nodes2, d) \/ UnderRecord(nodes2, d)
    <3>1. InUsedSlot(nodes, d) \/ UnderRecord(nodes, d)
      BY <1>5 DEF BlocksGood
    <3>2. CASE InUsedSlot(nodes, d)
      <4>1. d.region \in BucketsIn(nodes2) /\ d.region \in DOMAIN nodes
        BY <1>14, <3>2 DEF InUsedSlot, BucketsIn
      <4>2. PICK t \in nodes[d.region].used : IsSlot(nodes[d.region], t, d)
        BY <3>2 DEF InUsedSlot
      <4>3. CASE d.region = r
        <5>1. d.pos # b.pos
          BY <1>5, <4>3 DEF BlocksGood
        <5>2. t # s
          BY <1>7, <4>2, <4>3, <5>1 DEF IsSlot, k
        <5>3. t \in nodes2[d.region].used /\ IsSlot(nodes2[d.region], t, d)
          BY <1>11, <4>2, <4>3, <5>2 DEF IsSlot, k
        <5> QED
          BY <4>1, <5>3 DEF InUsedSlot
      <4>4. CASE d.region # r
        BY <1>11, <4>1, <4>2, <4>4 DEF InUsedSlot
      <4> QED
        BY <4>3, <4>4
    <3>3. CASE UnderRecord(nodes, d)
      BY <1>11, <1>14, <3>3 DEF UnderRecord, RecordsIn
    <3> QED
      BY <3>1, <3>2, <3>3
  <2>2. ASSUME NEW q \in BucketsIn(nodes2), NEW t \in nodes2[q].used
        PROVE  \E d \in lv2 : d.region = q /\ d.pos = t * nodes2[q].obj
    <3>1. q \in BucketsIn(nodes) /\ t \in nodes[q].used /\ nodes2[q].obj = nodes[q].obj
          /\ (q = r => t # s /\ t \in k.used)
      BY <1>11, <1>14 DEF BucketsIn, k
    <3>2. PICK d \in lv : d.region = q /\ d.pos = t * nodes[q].obj
      BY <1>5, <3>1 DEF BlocksGood
    <3>3. d # b
      <4>1. CASE q = r
        <5>1. t \in Nat
          BY <1>3, <1>4, <3>1, <4>1
        <5>2. t * k.obj # s * k.obj
          BY <1>3, <1>7, <3>1, <4>1, <5>1, SlotOffsets
        <5> QED
          BY <1>7, <3>2, <4>1, <5>2 DEF k
      <4>2. CASE q # r
        BY <3>2, <4>2
      <4> QED
        BY <4>1, <4>2
    <3> QED
      BY <3>1, <3>2, <3>3
  <2>3. ASSUME NEW q \in RecordsIn(nodes2)
        PROVE  \E d \in lv2 : d.region = nodes2[q].slice
    <3>1. q \in RecordsIn(nodes) /\ nodes2[q] = nodes[q]
      BY <1>11, <1>14 DEF RecordsIn
    <3>2. PICK d \in lv : d.region = nodes[q].slice
      BY <1>5, <3>1 DEF BlocksGood
    <3>3. nodes[q].slice # r
      BY <1>1, <3>1 DEF GpaGood, NodesGood
    <3> QED
      BY <3>1, <3>2, <3>3
  <2>4. lv2 \subseteq GpaBlock /\ \A d, e \in lv2 : d.region = e.region /\ d.pos = e.pos => d = e
    BY <1>5 DEF BlocksGood
  <2> QED
    BY <2>1, <2>2, <2>3, <2>4 DEF BlocksGood
<1>17. EmptyAlone(nodes2, r)
  <2>1. EmptyAlone(nodes, Null)
    BY DEF GpaGood
  <2>2. \A q \in BucketsIn(nodes) : nodes2[q].obj = nodes[q].obj
                                    /\ (q # r => nodes2[q].count = nodes[q].count)
    BY <1>11 DEF BucketsIn, k
  <2>3. \A q \in BucketsIn(nodes) : q # Null
    BY <1>1, NodeFacts DEF BucketsIn
  <2> QED
    BY <1>14, <2>1, <2>2, <2>3 DEF EmptyAlone
<1>18. h.held = 2 * Cardinality(DOMAIN nodes2)
  BY <1>11, <1>12 DEF GpaGood
<1>19. GpaGood(h, lv2, r)
  BY <1>12, <1>14, <1>15, <1>16, <1>17, <1>18 DEF GpaGood, nodes2
<1> QED
  BY <1>14, <1>19 DEF h, nodes2, s, k

\* An empty bucket that leaves its list.
LEMMA WithoutBucketGood ==
  ASSUME NEW g, NEW lv, NEW r \in BucketsIn(g.node), GpaGood(g, lv, r), g.node[r].count = 0
  PROVE  GpaGood(WithoutBucket(g, r), lv, Null)
<1> DEFINE nodes == g.node
           k == nodes[r]
           obj == k.obj
           w == WithoutBucket(g, r)
           nodes2 == Unlink(nodes, r)
           N == OfClass(nodes, obj)
           head == g.heads[obj]
           tail == g.tails[obj]
<1>1. g \in GpaRecord /\ r \in DOMAIN nodes /\ k \in Node /\ k.slice = Null
  <2>1. g \in GpaRecord
    BY DEF GpaGood
  <2> QED
    BY <2>1, NodeFacts DEF BucketsIn
<1>2. k.used = {} /\ obj \in Classes
  <2>1. BucketGood(k)
    BY DEF GpaGood, NodesGood
  <2>2. IsFiniteSet(k.used) /\ Cardinality(k.used) = 0 /\ obj \in Classes
    BY <2>1, ClassFacts, SlotsFinite DEF BucketGood
  <2> QED
    BY <2>2, FS_EmptySet
<1>3. /\ w.node = nodes2
      /\ w.heads = [g.heads EXCEPT ![obj] = IF k.prev = Null THEN k.next ELSE @]
      /\ w.tails = [g.tails EXCEPT ![obj] = IF k.next = Null THEN k.prev ELSE @]
      /\ w.largeAllocs = g.largeAllocs /\ w.held = g.held - 2
      /\ w = [heads |-> w.heads, tails |-> w.tails, largeAllocs |-> w.largeAllocs,
              node |-> w.node, held |-> w.held]
  <2>1. w = [g EXCEPT !.node = nodes2, !.heads[obj] = IF k.prev = Null THEN k.next ELSE @,
                      !.tails[obj] = IF k.next = Null THEN k.prev ELSE @, !.held = @ - 2]
    BY Zenon DEF WithoutBucket
  <2> HIDE DEF w, nodes2, k
  <2> QED
    BY <1>1, <2>1 DEF GpaRecord
<1>4. g.heads \in [Classes -> Region \cup {Null}] /\ g.tails \in [Classes -> Region \cup {Null}]
      /\ DOMAIN nodes \subseteq Region /\ g.largeAllocs \in Region \cup {Null} /\ g.held \in Int
      /\ \A q \in DOMAIN nodes : q # Null
  BY <1>1, NodeFacts
<1>5. k.prev \in Region \cup {Null} /\ k.next \in Region \cup {Null}
  BY <1>1 DEF Node
<1> HIDE DEF w
<1>6. /\ nodes2 \in [DOMAIN nodes \ {r} -> Node]
      /\ \A q \in DOMAIN nodes \ {r} :
           /\ SameData(nodes, nodes2, q)
           /\ nodes2[q].next = IF q = k.prev THEN k.next ELSE nodes[q].next
           /\ nodes2[q].prev = IF q = k.next THEN k.prev ELSE nodes[q].prev
  BY <1>1, UnlinkFacts
<1> HIDE DEF nodes2
<1>7. /\ DOMAIN nodes2 = DOMAIN nodes \ {r}
      /\ BucketsIn(nodes2) = BucketsIn(nodes) \ {r} /\ RecordsIn(nodes2) = RecordsIn(nodes)
      /\ r \notin RecordsIn(nodes)
  <2>1. \A q \in DOMAIN nodes \ {r} : nodes2[q].slice = nodes[q].slice
    BY <1>6 DEF SameData
  <2> QED
    BY <1>1, <1>6, <2>1 DEF BucketsIn, RecordsIn
<1>8. w \in GpaRecord
  <2>1. w.node \in UNION {[D -> Node] : D \in SUBSET Region}
    BY <1>3, <1>4, <1>6, SMTT(30)
  <2> HIDE DEF k
  <2> QED
    BY <1>2, <1>3, <1>4, <1>5, <2>1 DEF GpaRecord
<1> HIDE DEF k
<1>9. ListsGood(nodes, g.heads, g.tails, g.largeAllocs)
  BY DEF GpaGood
<1>10. /\ Linked(nodes, N, head, tail) /\ r \in N
       /\ N \subseteq BucketsIn(nodes) /\ N \subseteq DOMAIN nodes /\ Null \notin N
  BY <1>2, <1>4, <1>9 DEF ListsGood, OfClass, BucketsIn, k
<1>11. k.prev \in N \cup {Null} /\ k.next \in N \cup {Null}
  BY <1>10, LinkedEnds DEF k
<1>12. ListsGood(nodes2, w.heads, w.tails, w.largeAllocs)
  <2>1. Linked(nodes2, N \ {r}, IF k.prev = Null THEN k.next ELSE head,
                                IF k.next = Null THEN k.prev ELSE tail)
    <3>1. Removes(nodes, nodes2, N, r)
      BY <1>6, <1>10 DEF Removes, k
    <3> HIDE DEF N, head, tail
    <3> QED
      BY <1>10, <3>1, RemoveLinks DEF k
  <2>2. OfClass(nodes2, obj) = N \ {r}
    BY <1>6, <1>7 DEF OfClass, SameData, BucketsIn
  <2>3. ASSUME NEW c \in Classes, c # obj
        PROVE  Linked(nodes2, OfClass(nodes2, c), w.heads[c], w.tails[c])
    <3>1. Linked(nodes, OfClass(nodes, c), g.heads[c], g.tails[c])
      BY <1>9 DEF ListsGood
    <3>2. \A q \in OfClass(nodes, c) :
            q \in DOMAIN nodes /\ q # r /\ q # k.prev /\ q # k.next
      BY <1>4, <1>11, <2>3 DEF OfClass, BucketsIn, k
    <3>3. OfClass(nodes2, c) = OfClass(nodes, c)
      BY <1>6, <1>7, <3>2 DEF OfClass, SameData, BucketsIn
    <3>4. \A q \in OfClass(nodes, c) :
            nodes2[q].prev = nodes[q].prev /\ nodes2[q].next = nodes[q].next
      BY <1>6, <3>2
    <3>5. w.heads[c] = g.heads[c] /\ w.tails[c] = g.tails[c]
      BY <1>3, <1>4, <2>3
    <3> QED
      BY <3>1, <3>3, <3>4, <3>5, SameLinks
  <2>4. /\ w.heads[obj] = IF k.prev = Null THEN k.next ELSE head
        /\ w.tails[obj] = IF k.next = Null THEN k.prev ELSE tail
    BY <1>2, <1>3, <1>4
  <2>5. \A c \in Classes : Linked(nodes2, OfClass(nodes2, c), w.heads[c], w.tails[c])
    BY <2>1, <2>2, <2>3, <2>4
  <2>6. PICK last : Linked(nodes, RecordsIn(nodes), g.largeAllocs, last)
    BY <1>9 DEF ListsGood
  <2>7. \A q \in RecordsIn(nodes) : q \in DOMAIN nodes /\ q # r /\ q # k.prev /\ q # k.next
    BY <1>4, <1>7, <1>10, <1>11 DEF RecordsIn
  <2>8. \A q \in RecordsIn(nodes) :
           nodes2[q].prev = nodes[q].prev /\ nodes2[q].next = nodes[q].next
    BY <1>6, <2>7
  <2>9. Linked(nodes2, RecordsIn(nodes2), w.largeAllocs, last)
    BY <1>3, <1>7, <2>6, <2>8, SameLinks
  <2> QED
    BY <2>5, <2>9 DEF ListsGood
<1>13. NodesGood(nodes2)
  <2>1. \A q \in BucketsIn(nodes2) : BucketGood(nodes[q]) /\ SameData(nodes, nodes2, q)
    BY <1>6, <1>7 DEF GpaGood, NodesGood, BucketsIn
  <2>2. \A q \in BucketsIn(nodes2) : BucketGood(nodes2[q])
    BY <2>1 DEF SameData, BucketGood
  <2>3. \A q \in RecordsIn(nodes) : nodes2[q].slice = nodes[q].slice
    BY <1>6, <1>7 DEF SameData, RecordsIn
  <2>4. \A q \in RecordsIn(nodes2) : nodes2[q].slice \in Region \ DOMAIN nodes2
    BY <1>7, <2>3 DEF GpaGood, NodesGood
  <2>5. \A p, q \in RecordsIn(nodes2) : nodes2[p].slice = nodes2[q].slice => p = q
    BY <1>7, <2>3 DEF GpaGood, NodesGood
  <2> QED
    BY <2>2, <2>4, <2>5 DEF NodesGood
<1>14. BlocksGood(nodes2, lv)
  <2>1. BlocksGood(nodes, lv)
    BY DEF GpaGood
  <2>2. ASSUME NEW b \in lv
        PROVE  InUsedSlot(nodes2, b) \/ UnderRecord(nodes2, b)
    <3>1. CASE InUsedSlot(nodes, b)
      <4>1. b.region # r /\ b.region \in DOMAIN nodes
        BY <1>2, <3>1 DEF InUsedSlot, BucketsIn, k
      <4> QED
        BY <1>6, <3>1, <4>1, PlaceKept
    <3>2. CASE UnderRecord(nodes, b)
      BY <1>6, <1>7, <3>2, PlaceKept DEF UnderRecord, RecordsIn
    <3> QED
      BY <2>1, <3>1, <3>2 DEF BlocksGood
  <2>3. ASSUME NEW q \in BucketsIn(nodes2), NEW t \in nodes2[q].used
        PROVE  \E b \in lv : b.region = q /\ b.pos = t * nodes2[q].obj
    <3>1. q \in BucketsIn(nodes) /\ SameData(nodes, nodes2, q)
      BY <1>6, <1>7 DEF BucketsIn
    <3> QED
      BY <2>1, <3>1 DEF BlocksGood, SameData
  <2>4. \A q \in RecordsIn(nodes2) : \E b \in lv : b.region = nodes2[q].slice
    BY <1>6, <1>7, <2>1 DEF BlocksGood, SameData, RecordsIn
  <2> QED
    BY <2>1, <2>2, <2>3, <2>4 DEF BlocksGood
<1>15. EmptyAlone(nodes2, Null)
  <2>1. EmptyAlone(nodes, r)
    BY DEF GpaGood
  <2>2. \A q \in BucketsIn(nodes2) : q \in BucketsIn(nodes) /\ q # r /\ SameData(nodes, nodes2, q)
    BY <1>6, <1>7 DEF BucketsIn
  <2> QED
    BY <2>1, <2>2 DEF EmptyAlone, SameData
<1>16. w.held = 2 * Cardinality(DOMAIN nodes2)
  <2>1. IsFiniteSet(DOMAIN nodes) /\ Cardinality(DOMAIN nodes) \in Nat
    BY <1>4, RegionFinite
  <2>2. Cardinality(DOMAIN nodes \ {r}) = Cardinality(DOMAIN nodes) - 1
    BY <1>1, <2>1, FS_RemoveElement
  <2>3. g.held = 2 * Cardinality(DOMAIN nodes)
    BY DEF GpaGood
  <2> QED
    BY <1>3, <1>7, <2>1, <2>2, <2>3
<1>17. GpaGood(w, lv, Null)
  BY <1>3, <1>8, <1>12, <1>13, <1>14, <1>15, <1>16 DEF GpaGood
<1> QED
  BY <1>17 DEF w

\* A bucket that is empty but alone, or is not empty, may stay.
LEMMA EmptyMayStay ==
  ASSUME NEW g, NEW lv, NEW r \in BucketsIn(g.node), GpaGood(g, lv, r),
         g.node[r].count # 0 \/ Alone(g, r)
  PROVE  GpaGood(g, lv, Null)
<1> DEFINE nodes == g.node
           N == OfClass(nodes, nodes[r].obj)
<1>1. EmptyAlone(nodes, r)
  BY DEF GpaGood
<1>2. ASSUME Alone(g, r)
      PROVE  N = {r}
  <2>1. Linked(nodes, N, g.heads[nodes[r].obj], g.tails[nodes[r].obj])
    BY DEF GpaGood, ListsGood, NodesGood, BucketGood
  <2>2. r \in N /\ Null \notin N
    BY NodeFacts DEF GpaGood, OfClass, BucketsIn
  <2>3. g.heads[nodes[r].obj] = r /\ nodes[r].next = Null
    BY <1>2 DEF Alone
  <2>4. nodes[r].prev = Null
    BY <2>1, <2>2, <2>3, LinkedEnds
  <2> HIDE DEF N
  <2> QED
    BY <2>1, <2>2, <2>3, <2>4, AloneLinks
<1>3. ASSUME NEW q \in BucketsIn(nodes), nodes[q].obj = nodes[r].obj, Alone(g, r)
      PROVE  q = r
  BY <1>2, <1>3 DEF OfClass
<1>4. EmptyAlone(nodes, Null)
  BY <1>1, <1>3 DEF EmptyAlone
<1> QED
  BY <1>4 DEF GpaGood

LEMMA FreedSmallGood ==
  ASSUME NEW g, NEW lv, GpaGood(g, lv, Null), NEW b \in lv, b.region \in BucketsIn(g.node)
  PROVE  GpaGood(FreedSmall(g, b), lv \ {b}, Null)
<1> DEFINE r == b.region
           h == Cleared(g, r, b.pos \div g.node[r].obj)
<1>1. GpaGood(h, lv \ {b}, r) /\ r \in BucketsIn(h.node)
  BY ClearedGood
<1>2. FreedSmall(g, b) = IF h.node[r].count = 0 /\ ~Alone(h, r) THEN WithoutBucket(h, r) ELSE h
  BY Zenon DEF FreedSmall, Cleared
<1> HIDE DEF h, r
<1> QED
  BY <1>1, <1>2, WithoutBucketGood, EmptyMayStay

\* A large object and its record are given back.
LEMMA FreedLargeGood ==
  ASSUME NEW g, NEW lv, GpaGood(g, lv, Null), NEW b \in lv,
         NEW r \in RecordsIn(g.node), g.node[r].slice = b.region
  PROVE  GpaGood(FreedLarge(g, r), lv \ {b}, Null)
<1> DEFINE nodes == g.node
           k == nodes[r]
           w == FreedLarge(g, r)
           nodes2 == Unlink(nodes, r)
           N == RecordsIn(nodes)
           head == g.largeAllocs
           lv2 == lv \ {b}
<1>1. g \in GpaRecord /\ r \in DOMAIN nodes /\ k \in Node /\ k.slice # Null
  BY NodeFacts DEF GpaGood, RecordsIn, BucketsIn
<1>2. /\ w.node = nodes2
      /\ w.heads = g.heads /\ w.tails = g.tails
      /\ w.largeAllocs = (IF k.prev = Null THEN k.next ELSE head) /\ w.held = g.held - 2
      /\ w = [heads |-> w.heads, tails |-> w.tails, largeAllocs |-> w.largeAllocs,
              node |-> w.node, held |-> w.held]
  <2>1. w = [g EXCEPT !.node = nodes2, !.largeAllocs = IF k.prev = Null THEN k.next ELSE @,
                      !.held = @ - 2]
    BY Zenon DEF FreedLarge
  <2> HIDE DEF w, nodes2, k
  <2> QED
    BY <1>1, <2>1 DEF GpaRecord
<1>3. g.heads \in [Classes -> Region \cup {Null}] /\ g.tails \in [Classes -> Region \cup {Null}]
      /\ DOMAIN nodes \subseteq Region /\ head \in Region \cup {Null} /\ g.held \in Int
      /\ \A q \in DOMAIN nodes : q # Null
  BY <1>1, NodeFacts
<1>4. k.prev \in Region \cup {Null} /\ k.next \in Region \cup {Null}
  BY <1>1 DEF Node
<1> HIDE DEF w
<1>5. /\ nodes2 \in [DOMAIN nodes \ {r} -> Node]
      /\ \A q \in DOMAIN nodes \ {r} :
           /\ SameData(nodes, nodes2, q)
           /\ nodes2[q].next = IF q = k.prev THEN k.next ELSE nodes[q].next
           /\ nodes2[q].prev = IF q = k.next THEN k.prev ELSE nodes[q].prev
  BY <1>1, UnlinkFacts
<1> HIDE DEF nodes2
<1>6. /\ DOMAIN nodes2 = DOMAIN nodes \ {r}
      /\ BucketsIn(nodes2) = BucketsIn(nodes) /\ RecordsIn(nodes2) = N \ {r}
      /\ r \notin BucketsIn(nodes)
  <2>1. \A q \in DOMAIN nodes \ {r} : nodes2[q].slice = nodes[q].slice
    BY <1>5 DEF SameData
  <2> QED
    BY <1>1, <1>5, <2>1 DEF BucketsIn, RecordsIn
<1>7. w \in GpaRecord
  <2>1. w.node \in UNION {[D -> Node] : D \in SUBSET Region}
    BY <1>2, <1>3, <1>5
  <2> HIDE DEF k
  <2> QED
    BY <1>2, <1>3, <1>4, <2>1 DEF GpaRecord
<1> HIDE DEF k
<1>8. ListsGood(nodes, g.heads, g.tails, g.largeAllocs)
  BY DEF GpaGood
<1>9. ListsGood(nodes2, w.heads, w.tails, w.largeAllocs)
  <2>1. PICK last : Linked(nodes, N, head, last)
    BY <1>8 DEF ListsGood
  <2>2. r \in N /\ Null \notin N /\ N \subseteq DOMAIN nodes
    BY <1>3 DEF RecordsIn
  <2>3. k.prev \in N \cup {Null} /\ k.next \in N \cup {Null}
    BY <2>1, <2>2, LinkedEnds DEF k
  <2>4. Linked(nodes2, N \ {r}, IF k.prev = Null THEN k.next ELSE head,
                                IF k.next = Null THEN k.prev ELSE last)
    <3>1. Removes(nodes, nodes2, N, r)
      BY <1>5, <2>2 DEF Removes, k
    <3> HIDE DEF N, head
    <3> QED
      BY <2>1, <3>1, RemoveLinks DEF k
  <2>5. ASSUME NEW c \in Classes
        PROVE  Linked(nodes2, OfClass(nodes2, c), w.heads[c], w.tails[c])
    <3>1. Linked(nodes, OfClass(nodes, c), g.heads[c], g.tails[c])
      BY <1>8 DEF ListsGood
    <3>2. \A q \in OfClass(nodes, c) :
            q \in DOMAIN nodes /\ q # r /\ q # k.prev /\ q # k.next
      BY <1>3, <1>6, <2>3 DEF OfClass, BucketsIn, RecordsIn
    <3>3. OfClass(nodes2, c) = OfClass(nodes, c)
      BY <1>5, <1>6, <3>2 DEF OfClass, SameData, BucketsIn
    <3>4. \A q \in OfClass(nodes, c) :
            nodes2[q].prev = nodes[q].prev /\ nodes2[q].next = nodes[q].next
      BY <1>5, <3>2
    <3> QED
      BY <1>2, <3>1, <3>3, <3>4, SameLinks
  <2> QED
    BY <1>2, <1>6, <2>4, <2>5 DEF ListsGood
<1>10. NodesGood(nodes2)
  <2>1. \A q \in BucketsIn(nodes2) : BucketGood(nodes[q]) /\ SameData(nodes, nodes2, q)
    BY <1>5, <1>6 DEF GpaGood, NodesGood, BucketsIn
  <2>2. \A q \in BucketsIn(nodes2) : BucketGood(nodes2[q])
    BY <2>1 DEF SameData, BucketGood
  <2>3. \A q \in N \ {r} : nodes2[q].slice = nodes[q].slice
    BY <1>5 DEF SameData, RecordsIn
  <2>4. \A q \in RecordsIn(nodes2) : nodes2[q].slice \in Region \ DOMAIN nodes2
    BY <1>6, <2>3 DEF GpaGood, NodesGood
  <2>5. \A p, q \in RecordsIn(nodes2) : nodes2[p].slice = nodes2[q].slice => p = q
    BY <1>6, <2>3 DEF GpaGood, NodesGood
  <2> QED
    BY <2>2, <2>4, <2>5 DEF NodesGood
<1>11. BlocksGood(nodes, lv)
  BY DEF GpaGood
<1>12. \A q \in DOMAIN nodes : q # b.region
  BY DEF GpaGood, NodesGood
<1>13. \A d \in lv : d.region = b.region => d.pos = 0
  BY <1>11, <1>12 DEF BlocksGood, InUsedSlot, UnderRecord, BucketsIn
<1>14. \A d \in lv2 : d.region # b.region
  BY <1>11, <1>13 DEF BlocksGood
<1>15. BlocksGood(nodes2, lv2)
  <2>1. ASSUME NEW d \in lv2
        PROVE  InUsedSlot(nodes2, d) \/ UnderRecord(nodes2, d)
    <3>1. CASE InUsedSlot(nodes, d)
      BY <1>5, <1>6, <3>1, PlaceKept DEF InUsedSlot, BucketsIn
    <3>2. CASE UnderRecord(nodes, d)
      <4>1. PICK q \in N : d.pos = 0 /\ nodes[q].slice = d.region
        BY <3>2 DEF UnderRecord
      <4>2. q # r /\ q \in DOMAIN nodes
        BY <1>14, <4>1 DEF RecordsIn
      <4> QED
        BY <1>5, <4>1, <4>2, PlaceKept
    <3> QED
      BY <1>11, <3>1, <3>2 DEF BlocksGood
  <2>2. ASSUME NEW q \in BucketsIn(nodes2), NEW t \in nodes2[q].used
        PROVE  \E d \in lv2 : d.region = q /\ d.pos = t * nodes2[q].obj
    <3>1. q \in BucketsIn(nodes) /\ SameData(nodes, nodes2, q) /\ q # b.region
      BY <1>5, <1>6, <1>12 DEF BucketsIn
    <3> QED
      BY <1>11, <3>1 DEF BlocksGood, SameData
  <2>3. ASSUME NEW q \in RecordsIn(nodes2)
        PROVE  \E d \in lv2 : d.region = nodes2[q].slice
    <3>1. q \in N /\ q # r /\ nodes2[q].slice = nodes[q].slice
      BY <1>5, <1>6 DEF SameData, RecordsIn
    <3>2. PICK d \in lv : d.region = nodes[q].slice
      BY <1>11, <3>1 DEF BlocksGood
    <3>3. nodes[q].slice # b.region
      BY <3>1 DEF GpaGood, NodesGood
    <3> QED
      BY <3>1, <3>2, <3>3
  <2> QED
    BY <1>11, <2>1, <2>2, <2>3 DEF BlocksGood
<1>16. EmptyAlone(nodes2, Null)
  <2>1. EmptyAlone(nodes, Null)
    BY DEF GpaGood
  <2>2. \A q \in BucketsIn(nodes) : SameData(nodes, nodes2, q)
    BY <1>5, <1>6 DEF BucketsIn
  <2> QED
    BY <1>6, <2>1, <2>2 DEF EmptyAlone, SameData
<1>17. w.held = 2 * Cardinality(DOMAIN nodes2)
  <2>1. IsFiniteSet(DOMAIN nodes) /\ Cardinality(DOMAIN nodes) \in Nat
    BY <1>3, RegionFinite
  <2>2. Cardinality(DOMAIN nodes \ {r}) = Cardinality(DOMAIN nodes) - 1
    BY <1>1, <2>1, FS_RemoveElement
  <2>3. g.held = 2 * Cardinality(DOMAIN nodes)
    BY DEF GpaGood
  <2> QED
    BY <1>2, <1>6, <2>1, <2>2, <2>3
<1>18. GpaGood(w, lv2, Null)
  BY <1>2, <1>7, <1>9, <1>10, <1>15, <1>16, <1>17 DEF GpaGood
<1> QED
  BY <1>18 DEF w

-----------------------------------------------------------------------------
(* The steps of the general-purpose allocator                              *)

\* The walks over its lists find every bucket and every record.
LEMMA FoundIs ==
  ASSUME GpaInv
  PROVE  /\ FoundBuckets(gpa) = BucketsIn(gpa.node) /\ FoundLarge(gpa) = RecordsIn(gpa.node)
         /\ \A obj \in Classes : Walk(gpa.node, gpa.heads[obj]) = OfClass(gpa.node, obj)
<1> DEFINE nodes == gpa.node
<1>1. GpaGood(gpa, live, Null)
  BY DEF GpaInv
<1>2. DOMAIN nodes \subseteq Region
  BY <1>1, NodeFacts DEF GpaGood
<1>3. ASSUME NEW obj \in Classes
      PROVE  Walk(nodes, gpa.heads[obj]) = OfClass(nodes, obj)
  <2>1. Linked(nodes, OfClass(nodes, obj), gpa.heads[obj], gpa.tails[obj])
    BY <1>1 DEF GpaGood, ListsGood
  <2>2. OfClass(nodes, obj) \subseteq Region
    BY <1>2 DEF OfClass, BucketsIn
  <2> QED
    BY <2>1, <2>2, WalkIs
<1>4. FoundLarge(gpa) = RecordsIn(nodes)
  <2>1. PICK last : Linked(nodes, RecordsIn(nodes), gpa.largeAllocs, last)
    BY <1>1 DEF GpaGood, ListsGood
  <2>2. RecordsIn(nodes) \subseteq Region
    BY <1>2 DEF RecordsIn
  <2> QED
    BY <2>1, <2>2, WalkIs DEF FoundLarge
<1>5. \A r \in BucketsIn(nodes) : nodes[r].obj \in Classes
  BY <1>1 DEF GpaGood, NodesGood, BucketGood
<1>6. FoundBuckets(gpa) = BucketsIn(nodes)
  <2>1. FoundBuckets(gpa) = UNION {OfClass(nodes, obj) : obj \in Classes}
    BY <1>3 DEF FoundBuckets
  <2> QED
    BY <1>5, <2>1 DEF OfClass
<1> QED
  BY <1>3, <1>4, <1>6

\* What is behind a block.
LEMMA BehindBlock ==
  ASSUME GpaInv, NEW b \in live
  PROVE  /\ InBucket(b) <=> b.region \in BucketsIn(gpa.node)
         /\ InBucket(b) => InUsedSlot(gpa.node, b)
         /\ ~InBucket(b) => RecordsOf(b) # {} /\ UnderRecord(gpa.node, b)
         /\ \A r \in RecordsOf(b) : /\ ~InBucket(b)
                                    /\ r \in RecordsIn(gpa.node)
                                    /\ gpa.node[r].slice = b.region
<1> DEFINE nodes == gpa.node
<1>1. InBucket(b) <=> b.region \in BucketsIn(nodes)
  BY FoundIs DEF InBucket
<1>2. RecordsOf(b) = IF InBucket(b) THEN {}
                     ELSE {r \in RecordsIn(nodes) : nodes[r].slice = b.region}
  BY FoundIs DEF RecordsOf
<1>3. InUsedSlot(nodes, b) \/ UnderRecord(nodes, b)
  BY DEF GpaInv, GpaGood, BlocksGood
<1>4. InBucket(b) => InUsedSlot(nodes, b)
  BY <1>1, <1>3 DEF GpaInv, GpaGood, NodesGood, UnderRecord, BucketsIn
<1>5. ~InBucket(b) => RecordsOf(b) # {} /\ UnderRecord(nodes, b)
  BY <1>1, <1>2, <1>3 DEF InUsedSlot, UnderRecord
<1> QED
  BY <1>1, <1>2, <1>4, <1>5

LEMMA NothingHeld ==
  ASSUME NEW g, g = [heads |-> [obj \in Classes |-> Null], tails |-> [obj \in Classes |-> Null],
                     largeAllocs |-> Null, node |-> <<>>, held |-> 0]
  PROVE  GpaGood(g, {}, Null)
<1>1. /\ g.node = <<>> /\ DOMAIN g.node = {} /\ g.largeAllocs = Null /\ g.held = 0
      /\ \A obj \in Classes : g.heads[obj] = Null /\ g.tails[obj] = Null
  OBVIOUS
<1>2. BucketsIn(g.node) = {} /\ RecordsIn(g.node) = {} /\ \A obj : OfClass(g.node, obj) = {}
  BY <1>1 DEF BucketsIn, RecordsIn, OfClass
<1>3. \A nodes : Linked(nodes, {}, Null, Null)
  <2>1. TAKE nodes
  <2> DEFINE rank == [r \in {} |-> 0]
  <2>2. rank \in [{} -> Nat]
    OBVIOUS
  <2> HIDE DEF rank
  <2>3. Ranked(nodes, {}, Null, Null, rank)
    BY <2>2 DEF Ranked
  <2> QED
    BY <2>2, <2>3 DEF Linked
<1>4. ListsGood(g.node, g.heads, g.tails, g.largeAllocs)
  BY <1>1, <1>2, <1>3 DEF ListsGood
<1>5. NodesGood(g.node) /\ BlocksGood(g.node, {}) /\ EmptyAlone(g.node, Null)
  BY <1>2 DEF NodesGood, BlocksGood, EmptyAlone
<1>6. g.held = 2 * Cardinality(DOMAIN g.node)
  BY <1>1, FS_EmptySet
<1>7. g \in GpaRecord
  <2>1. <<>> \in [{} -> Node]
    OBVIOUS
  <2>2. <<>> \in UNION {[D -> Node] : D \in SUBSET Region}
    BY <2>1
  <2> DEFINE none == [obj \in Classes |-> Null]
             nodes == <<>>
  <2>3. none \in [Classes -> Region \cup {Null}] /\ 0 \in Int /\ Null \in Region \cup {Null}
    OBVIOUS
  <2>4. g = [heads |-> none, tails |-> none, largeAllocs |-> Null, node |-> nodes, held |-> 0]
        /\ nodes \in UNION {[D -> Node] : D \in SUBSET Region}
    BY <2>2
  <2> HIDE DEF none, nodes
  <2> QED
    BY <2>3, <2>4 DEF GpaRecord
<1> QED
  BY <1>4, <1>5, <1>6, <1>7 DEF GpaGood

LEMMA GpaInvInit == Init => GpaInv
BY NothingHeld DEF Init, Empty, GpaInv

\* A block that is resized where it is.
LEMMA ResizedGood ==
  ASSUME GpaInv, NEW b \in live, NEW size \in Nat,
         InBucket(b) => size <= gpa.node[b.region].obj
  PROVE  GpaGood(gpa, (live \ {b}) \cup {[b EXCEPT !.len = size]}, Null)
<1> DEFINE nodes == gpa.node
           n == [b EXCEPT !.len = size]
           others == live \ {b}
<1>1. BlocksGood(nodes, live) /\ b \in GpaBlock
  BY DEF GpaInv, GpaGood, BlocksGood
<1>2. n \in GpaBlock /\ n.region = b.region /\ n.pos = b.pos /\ n.len = size
  BY <1>1 DEF GpaBlock
<1> HIDE DEF n
<1>3. InUsedSlot(nodes, n) \/ UnderRecord(nodes, n)
  <2>1. CASE InBucket(b)
    BY <1>2, <2>1, BehindBlock DEF InUsedSlot, IsSlot
  <2>2. CASE ~InBucket(b)
    BY <1>2, <2>2, BehindBlock DEF UnderRecord
  <2> QED
    BY <2>1, <2>2
<1>4. BlocksGood(nodes, others \cup {n})
  <2>1. \A d, e \in others \cup {n} : d.region = e.region /\ d.pos = e.pos => d = e
    BY <1>1, <1>2 DEF BlocksGood
  <2>2. \A d \in live : \E e \in others \cup {n} : e.region = d.region /\ e.pos = d.pos
    BY <1>2
  <2>3. \A r \in BucketsIn(nodes) : \A s \in nodes[r].used :
           \E e \in others \cup {n} : e.region = r /\ e.pos = s * nodes[r].obj
    <3>1. TAKE r \in BucketsIn(nodes)
    <3> TAKE s \in nodes[r].used
    <3>2. PICK d \in live : d.region = r /\ d.pos = s * nodes[r].obj
      BY <1>1 DEF BlocksGood
    <3> QED
      BY <2>2, <3>2
  <2>4. \A r \in RecordsIn(nodes) : \E e \in others \cup {n} : e.region = nodes[r].slice
    <3>1. TAKE r \in RecordsIn(nodes)
    <3>2. PICK d \in live : d.region = nodes[r].slice
      BY <1>1 DEF BlocksGood
    <3> QED
      BY <2>2, <3>2
  <2> QED
    BY <1>1, <1>2, <1>3, <2>1, <2>3, <2>4 DEF BlocksGood
<1> QED
  BY <1>4 DEF GpaInv, GpaGood, n

\* A large object that moves.
LEMMA MovedGood ==
  ASSUME GpaInv, NEW b \in live, NEW r \in RecordsOf(b), HasRoom(gpa, 1), NEW size \in Nat
  PROVE  LET n == [region |-> Fresh(gpa), pos |-> 0, len |-> size]
         IN  /\ GpaGood([gpa EXCEPT !.node[r].slice = Fresh(gpa)], (live \ {b}) \cup {n}, Null)
             /\ n \in GpaBlock /\ \A d \in live : d.region # n.region
<1> DEFINE nodes == gpa.node
           k == nodes[r]
           f == Fresh(gpa)
           n == [region |-> f, pos |-> 0, len |-> size]
           w == [gpa EXCEPT !.node[r].slice = f]
           nodes2 == w.node
           lv2 == (live \ {b}) \cup {n}
<1>1. GpaGood(gpa, live, Null) /\ gpa \in GpaRecord
  BY DEF GpaInv, GpaGood
<1>2. r \in RecordsIn(nodes) /\ k.slice = b.region /\ ~InBucket(b)
  BY BehindBlock
<1>3. r \in DOMAIN nodes /\ k \in Node /\ k.slice # Null
  BY <1>1, <1>2, NodeFacts DEF RecordsIn, BucketsIn
<1>4. f \in Region /\ f # Null /\ f \notin DOMAIN nodes /\ \A q \in DOMAIN nodes : nodes[q].slice # f
  BY <1>1, FreshIs, FreeFacts
<1> HIDE DEF f
<1>5. nodes2 = [nodes EXCEPT ![r] = [k EXCEPT !.slice = f]]
  BY <1>1 DEF GpaRecord
<1>6. /\ DOMAIN nodes2 = DOMAIN nodes
      /\ nodes2[r].prev = k.prev /\ nodes2[r].next = k.next /\ nodes2[r].obj = k.obj
      /\ nodes2[r].slice = f /\ nodes2[r] \in Node
      /\ \A q \in DOMAIN nodes : q # r => nodes2[q] = nodes[q]
  <2>1. [k EXCEPT !.slice = f] \in Node
    BY <1>3, <1>4 DEF Node
  <2> HIDE DEF nodes2
  <2> QED
    BY <1>3, <1>5, <2>1 DEF Node
<1>7. /\ w.heads = gpa.heads /\ w.tails = gpa.tails /\ w.largeAllocs = gpa.largeAllocs
      /\ w.held = gpa.held /\ w \in GpaRecord
  <2>1. /\ w.heads = gpa.heads /\ w.tails = gpa.tails /\ w.largeAllocs = gpa.largeAllocs
        /\ w.held = gpa.held
        /\ w = [heads |-> gpa.heads, tails |-> gpa.tails, largeAllocs |-> gpa.largeAllocs,
                node |-> nodes2, held |-> gpa.held]
    BY <1>1 DEF GpaRecord
  <2>2. nodes2 \in [DOMAIN nodes -> Node]
    <3>1. nodes2 = [q \in DOMAIN nodes |-> nodes2[q]]
      BY <1>5
    <3> HIDE DEF nodes2
    <3> QED
      BY <1>1, <1>6, <3>1, NodeFacts
  <2> HIDE DEF nodes2, w
  <2> QED
    BY <1>1, <2>1, <2>2, NodeFacts DEF GpaRecord
<1>8. n \in GpaBlock /\ n.region = f /\ n.pos = 0
  BY <1>4 DEF GpaBlock
<1> HIDE DEF w, nodes2, k, n
<1>9. SameShape(nodes, nodes2)
  BY <1>3, <1>4, <1>6 DEF SameShape, k
<1>10. /\ ListsGood(nodes2, w.heads, w.tails, w.largeAllocs)
       /\ BucketsIn(nodes2) = BucketsIn(nodes) /\ RecordsIn(nodes2) = RecordsIn(nodes)
       /\ r \notin BucketsIn(nodes)
  <2>1. ListsGood(nodes, gpa.heads, gpa.tails, gpa.largeAllocs)
    BY <1>1 DEF GpaGood
  <2> QED
    BY <1>2, <1>7, <1>9, <2>1, SameShapeLists DEF RecordsIn
<1>11. \A q \in BucketsIn(nodes) : nodes2[q] = nodes[q] /\ q # r
  BY <1>6, <1>10 DEF BucketsIn
<1>12. \A q \in RecordsIn(nodes) : q # r => nodes2[q] = nodes[q]
  BY <1>6 DEF RecordsIn
<1>13. NodesGood(nodes) /\ BlocksGood(nodes, live) /\ EmptyAlone(nodes, Null)
  BY <1>1 DEF GpaGood
<1>14. NodesGood(nodes2)
  <2>1. \A q \in BucketsIn(nodes2) : BucketGood(nodes2[q])
    BY <1>10, <1>11, <1>13 DEF NodesGood
  <2>2. \A q \in RecordsIn(nodes2) : nodes2[q].slice \in Region \ DOMAIN nodes2
    BY <1>4, <1>6, <1>10, <1>12, <1>13 DEF NodesGood
  <2>3. \A q \in RecordsIn(nodes) : q # r => nodes2[q].slice # f
    BY <1>4, <1>12 DEF RecordsIn
  <2>4. \A p, q \in RecordsIn(nodes2) : nodes2[p].slice = nodes2[q].slice => p = q
    BY <1>6, <1>10, <1>12, <1>13, <2>3 DEF NodesGood
  <2> QED
    BY <2>1, <2>2, <2>4 DEF NodesGood
<1>15. \A d \in live : d.region # f
  <2>1. TAKE d \in live
  <2>2. CASE InUsedSlot(nodes, d)
    BY <1>4, <2>2 DEF InUsedSlot, BucketsIn
  <2>3. CASE UnderRecord(nodes, d)
    BY <1>4, <2>3 DEF UnderRecord, RecordsIn
  <2> QED
    BY <1>13, <2>2, <2>3 DEF BlocksGood
<1>16. \A d \in live \ {b} : d.region # b.region
  <2>1. b.region \notin DOMAIN nodes
    BY <1>2, <1>13 DEF NodesGood, k
  <2>2. \A d \in live : d.region = b.region => d.pos = 0
    BY <1>13, <2>1 DEF BlocksGood, InUsedSlot, UnderRecord, BucketsIn
  <2> QED
    BY <1>13, <2>2 DEF BlocksGood
<1>17. BlocksGood(nodes2, lv2)
  <2>1. ASSUME NEW d \in live \ {b}
        PROVE  InUsedSlot(nodes2, d) \/ UnderRecord(nodes2, d)
    <3>1. CASE InUsedSlot(nodes, d)
      BY <1>10, <1>11, <3>1 DEF InUsedSlot
    <3>2. CASE UnderRecord(nodes, d)
      <4>1. PICK q \in RecordsIn(nodes) : d.pos = 0 /\ nodes[q].slice = d.region
        BY <3>2 DEF UnderRecord
      <4>2. q # r
        BY <1>2, <1>16, <4>1 DEF k
      <4> QED
        BY <1>10, <1>12, <4>1, <4>2 DEF UnderRecord
    <3> QED
      BY <1>13, <3>1, <3>2 DEF BlocksGood
  <2>2. UnderRecord(nodes2, n)
    BY <1>2, <1>6, <1>8, <1>10 DEF UnderRecord
  <2>3. \A d, e \in lv2 : d.region = e.region /\ d.pos = e.pos => d = e
    BY <1>8, <1>13, <1>15 DEF BlocksGood
  <2>4. ASSUME NEW q \in BucketsIn(nodes2), NEW t \in nodes2[q].used
        PROVE  \E d \in lv2 : d.region = q /\ d.pos = t * nodes2[q].obj
    <3>1. q \in BucketsIn(nodes) /\ nodes2[q] = nodes[q]
      BY <1>10, <1>11
    <3>2. PICK d \in live : d.region = q /\ d.pos = t * nodes[q].obj
      BY <1>13, <3>1 DEF BlocksGood
    <3>3. d # b
      BY <1>2, <1>13, <3>1, <3>2 DEF NodesGood, BucketsIn, k
    <3> QED
      BY <3>1, <3>2, <3>3
  <2>5. ASSUME NEW q \in RecordsIn(nodes2)
        PROVE  \E d \in lv2 : d.region = nodes2[q].slice
    <3>1. CASE q = r
      BY <1>6, <1>8, <3>1
    <3>2. CASE q # r
      <4>1. q \in RecordsIn(nodes) /\ nodes2[q] = nodes[q]
        BY <1>10, <1>12, <3>2
      <4>2. PICK d \in live : d.region = nodes[q].slice
        BY <1>13, <4>1 DEF BlocksGood
      <4>3. d # b
        BY <1>2, <1>13, <3>2, <4>1, <4>2 DEF NodesGood, k
      <4> QED
        BY <4>1, <4>2, <4>3
    <3> QED
      BY <3>1, <3>2
  <2>6. lv2 \subseteq GpaBlock
    BY <1>8, <1>13 DEF BlocksGood
  <2> QED
    BY <2>1, <2>2, <2>3, <2>4, <2>5, <2>6 DEF BlocksGood
<1>18. EmptyAlone(nodes2, Null)
  BY <1>10, <1>11, <1>13 DEF EmptyAlone
<1>19. w.held = 2 * Cardinality(DOMAIN nodes2)
  BY <1>1, <1>6, <1>7 DEF GpaGood
<1>20. GpaGood(w, lv2, Null)
  BY <1>7, <1>10, <1>14, <1>17, <1>18, <1>19 DEF GpaGood, nodes2
<1> QED
  BY <1>8, <1>15, <1>20 DEF n, w, f

\* Sizes and alignments are natural numbers; what is left of the steps is said in
\* one place, since the contract needs it too.
GpaResizes(b, size) ==
  /\ gpa' = gpa
  /\ live' = (live \ {b}) \cup {[b EXCEPT !.len = size]}
  /\ InBucket(b) => size <= gpa.node[b.region].obj

LEMMA ResizeSteps ==
  ASSUME GpaInv, NEW b \in live, NEW size, ResizeInSlot(b, size) \/ ResizeLarge(b, size)
  PROVE  GpaResizes(b, size)
BY BehindBlock DEF ResizeInSlot, ResizeLarge, GpaResizes

\* A request whose second block is refused leaves the allocator as it was.
LEMMA RefusalGivesBack == ASSUME NEW g \in GpaRecord PROVE SecondRefused(g) = g
<1>1. g = [f \in DOMAIN g |-> g[f]] /\ "held" \in DOMAIN g /\ g["held"] \in Int
  BY DEF GpaRecord
<1> DEFINE a == [g EXCEPT !["held"] = g["held"] + 1]
           b == [a EXCEPT !["held"] = a["held"] - 1]
<1>2. DOMAIN a = DOMAIN g /\ a["held"] = g["held"] + 1 /\ \A f \in DOMAIN g : f # "held" => a[f] = g[f]
  BY <1>1
<1>3. DOMAIN b = DOMAIN a /\ b = [f \in DOMAIN a |-> IF f = "held" THEN a["held"] - 1 ELSE a[f]]
  BY <1>1
<1> HIDE DEF a
<1>4. b["held"] = g["held"]
  BY <1>1, <1>2, <1>3
<1>5. \A f \in DOMAIN g : b[f] = g[f]
  BY <1>2, <1>3, <1>4
<1>6. b = g
  BY <1>1, <1>2, <1>3, <1>5
<1> QED
  BY <1>6 DEF a, SecondRefused, GivenBack, Obtained

LEMMA GpaInvNext == GpaInv /\ [Next]_vars => GpaInv'
<1> SUFFICES ASSUME GpaInv, [Next]_vars PROVE GpaInv'
  OBVIOUS
<1>1. GpaGood(gpa, live, Null) /\ Sizes \subseteq Nat
  BY PoolConstants DEF GpaInv
<1>2. ASSUME NEW size \in Sizes, NEW align \in Aligns, Alloc(size, align)
      PROVE  GpaInv'
  <2>1. PICK a \in Allocs(gpa, size, align) : gpa' = a.gpa /\ live' = live \cup {a.block}
    BY <1>2 DEF Alloc
  <2>2. Obtains(gpa, live, a)
    BY <1>1, GpaAllocGood
  <2> QED
    BY <2>1, <2>2 DEF Obtains, GpaInv
<1>3. CASE UNCHANGED vars
  BY <1>3 DEF vars, GpaInv
<1>4. ASSUME NEW size \in Sizes, NEW align \in Aligns, AllocFails(size, align)
      PROVE  GpaInv'
  <2>1. SecondRefused(gpa) = gpa
    BY <1>1, RefusalGivesBack DEF GpaGood
  <2> QED
    BY <1>3, <1>4, <2>1 DEF AllocFails, vars
<1>5. ASSUME NEW b \in live, NEW size \in Sizes, ResizeInSlot(b, size) \/ ResizeLarge(b, size)
      PROVE  GpaInv'
  <2>1. GpaResizes(b, size)
    BY <1>5, ResizeSteps
  <2>2. GpaGood(gpa, (live \ {b}) \cup {[b EXCEPT !.len = size]}, Null)
    BY <1>1, <2>1, ResizedGood DEF GpaResizes
  <2> QED
    BY <2>1, <2>2 DEF GpaResizes, GpaInv
<1>6. ASSUME NEW b \in live, NEW size \in Sizes, MoveLarge(b, size)
      PROVE  GpaInv'
  <2>1. PICK r \in RecordsOf(b) : gpa' = [gpa EXCEPT !.node[r].slice = Fresh(gpa)]
    BY <1>6 DEF MoveLarge
  <2>2. HasRoom(gpa, 1) /\ live' = (live \ {b}) \cup {[region |-> Fresh(gpa), pos |-> 0, len |-> size]}
    BY <1>6 DEF MoveLarge
  <2> DEFINE n == [region |-> Fresh(gpa), pos |-> 0, len |-> size]
             w == [gpa EXCEPT !.node[r].slice = Fresh(gpa)]
  <2>3. GpaGood(w, (live \ {b}) \cup {n}, Null)
    BY <1>1, <2>2, MovedGood
  <2>4. gpa' = w /\ live' = (live \ {b}) \cup {n}
    BY <2>1, <2>2
  <2> HIDE DEF w, n
  <2> QED
    BY <2>3, <2>4 DEF GpaInv
<1>7. ASSUME NEW b \in live, NEW size \in Sizes, NEW align \in Aligns, GrowByMove(b, size, align)
      PROVE  GpaInv'
  <2>1. PICK a \in Allocs(gpa, size, align) :
          gpa' = FreedSmall(a.gpa, b) /\ live' = (live \cup {a.block}) \ {b}
    BY <1>7 DEF GrowByMove
  <2>2. Obtains(gpa, live, a)
    BY <1>1, GpaAllocGood
  <2>3. b.region \in BucketsIn(a.gpa.node)
    BY <1>7, <2>2, BehindBlock DEF GrowByMove, Obtains
  <2>4. GpaGood(FreedSmall(a.gpa, b), (live \cup {a.block}) \ {b}, Null)
    BY <2>2, <2>3, FreedSmallGood DEF Obtains
  <2> QED
    BY <2>1, <2>4 DEF GpaInv
<1>8. ASSUME NEW b \in live, FreeSmall(b)
      PROVE  GpaInv'
  <2>1. GpaGood(FreedSmall(gpa, b), live \ {b}, Null)
    BY <1>1, <1>8, BehindBlock, FreedSmallGood DEF FreeSmall
  <2> QED
    BY <1>8, <2>1 DEF FreeSmall, GpaInv
<1>9. ASSUME NEW b \in live, FreeLarge(b)
      PROVE  GpaInv'
  <2>1. PICK r \in RecordsOf(b) : gpa' = FreedLarge(gpa, r) /\ live' = live \ {b}
    BY <1>9 DEF FreeLarge
  <2>2. GpaGood(FreedLarge(gpa, r), live \ {b}, Null)
    BY <1>1, BehindBlock, FreedLargeGood
  <2> QED
    BY <2>1, <2>2 DEF GpaInv
<1>10. CASE Destroy
  <2>1. FoundBuckets(gpa) \cup FoundLarge(gpa) = DOMAIN gpa.node
    BY FoundIs DEF BucketsIn, RecordsIn
  <2>2. gpa.held = 2 * Cardinality(DOMAIN gpa.node) /\ gpa.held \in Int
    BY <1>1, NodeFacts DEF GpaGood
  <2>3. gpa' = [heads |-> [obj \in Classes |-> Null], tails |-> [obj \in Classes |-> Null],
                largeAllocs |-> Null, node |-> <<>>,
                held |-> gpa.held - 2 * Cardinality(DOMAIN gpa.node)] /\ live' = {}
    BY <1>10, <2>1 DEF Destroy, Empty
  <2>4. gpa.held - 2 * Cardinality(DOMAIN gpa.node) = 0
    BY <2>2
  <2> QED
    BY <2>3, <2>4, NothingHeld DEF GpaInv
<1> QED
  BY <1>2, <1>3, <1>4, <1>5, <1>6, <1>7, <1>8, <1>9, <1>10 DEF Next

\* In a run of both allocators each step is one of this one or leaves it alone.
LEMMA GpaStep == [MCNext]_<<active, vars, slabVars>> => [Next]_vars
BY DEF MCNext, vars

LEMMA GpaInvAlways == MCSpec => []GpaInv
<1>1. MCInit => GpaInv
  BY GpaInvInit DEF MCInit
<1> QED
  BY <1>1, GpaStep, GpaInvNext, PTL DEF MCSpec

LEMMA BucketsAre == Buckets = BucketsIn(gpa.node) /\ Records = RecordsIn(gpa.node)
BY DEF Buckets, Records, BucketsIn, RecordsIn

LEMMA GpaTyped == GpaInv => TypeOK
<1> SUFFICES ASSUME GpaInv PROVE TypeOK
  OBVIOUS
<1> DEFINE nodes == gpa.node
<1>1. GpaGood(gpa, live, Null) /\ gpa \in GpaRecord
  BY DEF GpaInv, GpaGood
<1>2. /\ DOMAIN nodes \subseteq Region /\ \A r \in DOMAIN nodes : nodes[r] \in Node
      /\ gpa.heads \in [Classes -> Region \cup {Null}]
      /\ gpa.tails \in [Classes -> Region \cup {Null}]
  BY <1>1, NodeFacts
<1>3. gpa.held \in Nat
  <2>1. Cardinality(DOMAIN nodes) \in Nat
    BY <1>2, RegionFinite
  <2> QED
    BY <1>1, <2>1 DEF GpaGood
<1>4. ASSUME NEW obj \in Classes
      PROVE  gpa.heads[obj] \in DOMAIN nodes \cup {Null} /\ gpa.tails[obj] \in DOMAIN nodes \cup {Null}
  <2>1. Linked(nodes, OfClass(nodes, obj), gpa.heads[obj], gpa.tails[obj])
    BY <1>1 DEF GpaGood, ListsGood
  <2> QED
    BY <2>1, LinkedEnds DEF OfClass, BucketsIn
<1>5. gpa.largeAllocs \in Records \cup {Null}
  <2>1. \E last : Linked(nodes, RecordsIn(nodes), gpa.largeAllocs, last)
    BY <1>1 DEF GpaGood, ListsGood
  <2> QED
    BY <2>1, LinkedEnds, BucketsAre
<1>6. \A r \in Buckets : /\ nodes[r].obj \in Classes
                         /\ nodes[r].used \subseteq 0 .. SlotCount(nodes[r].obj) - 1
  BY <1>1, BucketsAre DEF GpaGood, NodesGood, BucketGood
<1>7. \A b \in live : b.region \in Region /\ b.pos \in Nat /\ b.len \in Nat
  BY <1>1 DEF GpaGood, BlocksGood, GpaBlock
<1> QED
  BY <1>2, <1>3, <1>4, <1>5, <1>6, <1>7 DEF TypeOK

LEMMA LinkedIsList ==
  ASSUME NEW N, NEW first, NEW last, Linked(gpa.node, N, first, last), N \subseteq Region
  PROVE  IsList(N, first, last)
<1>1. Walk(gpa.node, first) = N
  BY WalkIs
<1>2. /\ N = {} => first = Null /\ last = Null
      /\ \A r \in N :
           /\ (gpa.node[r].prev = Null) <=> (r = first)
           /\ (gpa.node[r].next = Null) <=> (r = last)
           /\ gpa.node[r].prev # Null =>
                gpa.node[r].prev \in N /\ gpa.node[gpa.node[r].prev].next = r
           /\ gpa.node[r].next # Null =>
                gpa.node[r].next \in N /\ gpa.node[gpa.node[r].next].prev = r
  BY DEF Linked, Ranked
<1> QED
  BY <1>1, <1>2 DEF IsList

\* However buckets and large objects come and go (cu_gpa_alloc_small,
\* cu_gpa_free_small, cu_gpa_alloc_large, cu_gpa_free_large), a walk over the list of
\* a class or of the records meets all of them, and the links point both ways.
THEOREM GpaListsLinked == MCSpec => []ListsLinked
<1>1. GpaInv => ListsLinked
  <2> SUFFICES ASSUME GpaInv PROVE ListsLinked
    OBVIOUS
  <2>1. ListsGood(gpa.node, gpa.heads, gpa.tails, gpa.largeAllocs) /\ DOMAIN gpa.node \subseteq Region
    BY NodeFacts DEF GpaInv, GpaGood
  <2>2. ASSUME NEW obj \in Classes
        PROVE  IsList({r \in Buckets : gpa.node[r].obj = obj}, gpa.heads[obj], gpa.tails[obj])
    <3>1. {r \in Buckets : gpa.node[r].obj = obj} = OfClass(gpa.node, obj)
      BY BucketsAre DEF OfClass
    <3>2. OfClass(gpa.node, obj) \subseteq Region
      BY <2>1 DEF OfClass, BucketsIn
    <3> QED
      BY <2>1, <3>1, <3>2, LinkedIsList DEF ListsGood
  <2>3. \E last \in Records \cup {Null} : IsList(Records, gpa.largeAllocs, last)
    <3>1. PICK last : Linked(gpa.node, RecordsIn(gpa.node), gpa.largeAllocs, last)
      BY <2>1 DEF ListsGood
    <3>2. RecordsIn(gpa.node) \subseteq Region
      BY <2>1 DEF RecordsIn
    <3>3. IsList(Records, gpa.largeAllocs, last) /\ last \in Records \cup {Null}
      BY <3>1, <3>2, LinkedIsList, LinkedEnds, BucketsAre
    <3> QED
      BY <3>3
  <2> QED
    BY <2>2, <2>3, GpaTyped DEF ListsLinked
<1> QED
  BY <1>1, GpaInvAlways, PTL

\* A block that is freed or resized is found (cu_gpa_find_bucket, cu_gpa_find_large);
\* the bitmap of a bucket marks the slots of live blocks, and no others.
THEOREM GpaSlotsAreBlocks == MCSpec => []SlotsAreBlocks
<1>1. GpaInv => SlotsAreBlocks
  <2> SUFFICES ASSUME GpaInv PROVE SlotsAreBlocks
    OBVIOUS
  <2> DEFINE nodes == gpa.node
  <2>1. NodesGood(nodes) /\ BlocksGood(nodes, live)
    BY DEF GpaInv, GpaGood
  <2>2. \A b \in live : InBucket(b) \/ RecordsOf(b) # {}
    BY BehindBlock
  <2>3. ASSUME NEW r \in Buckets
        PROVE  LET k == nodes[r] IN
               /\ k.count = Cardinality(k.used)
               /\ {s * k.obj : s \in k.used} = {b.pos : b \in {d \in live : d.region = r}}
               /\ \A b \in live : b.region = r => b.len <= k.obj
    <3> DEFINE k == nodes[r]
    <3>1. r \in BucketsIn(nodes) /\ k.count = Cardinality(k.used)
      BY <2>1, BucketsAre DEF NodesGood, BucketGood
    <3>2. \A b \in live : b.region = r => \E s \in k.used : b.pos = s * k.obj /\ b.len <= k.obj
      <4>1. TAKE b \in live
      <4>2. b.region = r => InUsedSlot(nodes, b)
        BY <3>1, BehindBlock
      <4> QED
        BY <4>2 DEF InUsedSlot, IsSlot
    <3>3. \A s \in k.used : \E b \in live : b.region = r /\ b.pos = s * k.obj
      BY <2>1, <3>1 DEF BlocksGood
    <3> HIDE DEF k
    <3>4. {s * k.obj : s \in k.used} = {b.pos : b \in {d \in live : d.region = r}}
      BY <3>2, <3>3
    <3>5. \A b \in live : b.region = r => b.len <= k.obj
      BY <3>2
    <3> QED
      BY <3>1, <3>4, <3>5 DEF k
  <2>4. \A r \in Records : \E b \in live : b.region = nodes[r].slice
    BY <2>1, BucketsAre DEF BlocksGood
  <2> QED
    BY <2>2, <2>3, <2>4 DEF SlotsAreBlocks
<1> QED
  BY <1>1, GpaInvAlways, PTL

\* An empty bucket is kept only if it is alone (cu_gpa_free_small), and destroying
\* the allocator gives back every block it holds (cu_GPAllocator_destroy).
THEOREM GpaNothingHoarded == MCSpec => []NothingHoarded
<1>1. GpaInv => NothingHoarded
  <2> SUFFICES ASSUME GpaInv PROVE NothingHoarded
    OBVIOUS
  <2>1. FoundBuckets(gpa) \cup FoundLarge(gpa) = DOMAIN gpa.node
    BY FoundIs DEF BucketsIn, RecordsIn
  <2>2. GpaGood(gpa, live, Null)
    BY DEF GpaInv
  <2>3. \A r \in Buckets : r # Null
    BY <2>2, NodeFacts DEF GpaGood, Buckets
  <2>4. \A r, q \in Buckets :
           gpa.node[r].count = 0 /\ gpa.node[q].obj = gpa.node[r].obj => q = r
    BY <2>2, <2>3, BucketsAre DEF GpaGood, EmptyAlone
  <2>5. gpa.held = 2 * Cardinality(FoundBuckets(gpa) \cup FoundLarge(gpa))
    BY <2>1, <2>2 DEF GpaGood
  <2> QED
    BY <2>4, <2>5 DEF NothingHoarded
<1> QED
  BY <1>1, GpaInvAlways, PTL

-----------------------------------------------------------------------------
(* The general-purpose allocator implements the allocator contract         *)

LEMMA GpaBlocksApart ==
  ASSUME NEW g, NEW lv, GpaGood(g, lv, Null), NEW b \in lv, NEW d \in lv, b # d
  PROVE  Contract!Disjoint(b, d)
<1> DEFINE nodes == g.node
<1>1. BlocksGood(nodes, lv) /\ NodesGood(nodes) /\ b \in GpaBlock /\ d \in GpaBlock
  BY DEF GpaGood, BlocksGood
<1>2. SUFFICES ASSUME b.region = d.region
               PROVE  b.pos + b.len <= d.pos \/ d.pos + d.len <= b.pos
  BY DEF Contract!Disjoint
<1>3. b.pos # d.pos
  BY <1>1, <1>2 DEF BlocksGood
<1>4. InUsedSlot(nodes, b) /\ InUsedSlot(nodes, d)
  BY <1>1, <1>2, <1>3 DEF BlocksGood, NodesGood, InUsedSlot, UnderRecord, BucketsIn
<1> DEFINE k == nodes[b.region]
           n == SlotCount(k.obj)
<1>5. k.obj \in Nat /\ k.obj > 0 /\ n \in Nat /\ k.used \subseteq 0 .. n - 1
  BY <1>1, <1>4, ClassFacts DEF NodesGood, BucketGood, InUsedSlot
<1>6. PICK s \in k.used, t \in k.used : /\ b.pos = s * k.obj /\ b.len <= k.obj
                                        /\ d.pos = t * k.obj /\ d.len <= k.obj
  BY <1>2, <1>4 DEF InUsedSlot, IsSlot
<1>7. s \in Nat /\ t \in Nat /\ s # t
  BY <1>3, <1>5, <1>6
<1> DEFINE o == k.obj
           x == s * o
           y == t * o
<1>8. x \in Nat /\ y \in Nat /\ o \in Nat /\ (x + o <= y \/ y + o <= x)
  <2>1. s < t \/ t < s
    BY <1>7
  <2> QED
    BY <1>5, <1>7, <2>1, SlotOffsets
<1>9. b.pos = x /\ d.pos = y /\ b.len <= o /\ d.len <= o /\ b.len \in Nat /\ d.len \in Nat
  BY <1>1, <1>6 DEF GpaBlock
<1> HIDE DEF x, y, o
<1> QED
  BY <1>8, <1>9

\* A block that comes in addition is clear of the others.
LEMMA GpaNewClear ==
  ASSUME NEW g, NEW lv, NEW n, GpaGood(g, lv \cup {n}, Null), n \notin lv
  PROVE  n \in Contract!Block /\ Contract!ClearOf(n, lv)
<1>1. n \in GpaBlock
  BY DEF GpaGood, BlocksGood
<1>2. Region \subseteq Nat
  BY DEF Region
<1>3. n \in Contract!Block
  BY <1>1, <1>2 DEF GpaBlock, Contract!Block
<1>4. \A b \in lv : Contract!Disjoint(b, n)
  BY GpaBlocksApart
<1> QED
  BY <1>3, <1>4 DEF Contract!ClearOf

\* Every step is a step of the contract, or changes no block.
LEMMA GpaRefines == GpaInv /\ [Next]_vars => [Contract!Next]_live
<1> SUFFICES ASSUME GpaInv, [Next]_vars PROVE [Contract!Next]_live
  OBVIOUS
<1>1. GpaGood(gpa, live, Null) /\ Sizes \subseteq Nat
  BY PoolConstants DEF GpaInv
<1>2. ASSUME NEW size \in Sizes, NEW align \in Aligns, Alloc(size, align)
      PROVE  Contract!Next
  <2>1. PICK a \in Allocs(gpa, size, align) : gpa' = a.gpa /\ live' = live \cup {a.block}
    BY <1>2 DEF Alloc
  <2> DEFINE n == a.block
  <2>2. GpaGood(a.gpa, live \cup {n}, Null) /\ n \notin live
    BY <1>1, GpaAllocGood DEF Obtains
  <2> HIDE DEF n
  <2>3. n \in Contract!Block /\ Contract!ClearOf(n, live)
    BY <2>2, GpaNewClear
  <2>4. n \in live' \ live /\ live' = live \cup {n}
    BY <2>1, <2>2 DEF n
  <2> QED
    BY <2>3, <2>4 DEF Contract!Obtain, Contract!Next
<1>3. CASE UNCHANGED vars
  BY <1>3 DEF vars
<1>4. ASSUME NEW size \in Sizes, NEW align \in Aligns, AllocFails(size, align)
      PROVE  UNCHANGED live
  BY <1>4 DEF AllocFails
<1>5. ASSUME NEW b \in live, NEW size \in Sizes, ResizeInSlot(b, size) \/ ResizeLarge(b, size)
      PROVE  Contract!Next
  <2> DEFINE n == [b EXCEPT !.len = size]
             others == live \ {b}
  <2>1. live' = others \cup {n}
    BY <1>5, ResizeSteps DEF GpaResizes
  <2>2. GpaGood(gpa, others \cup {n}, Null)
    BY <1>1, <1>5, ResizeSteps, ResizedGood DEF GpaResizes
  <2>3. n.region = b.region /\ n.pos = b.pos
    BY <1>1 DEF GpaGood, BlocksGood, GpaBlock
  <2> HIDE DEF n
  <2>4. n \notin others
    BY <1>1, <2>3 DEF GpaGood, BlocksGood
  <2>5. n \in Contract!Block /\ Contract!ClearOf(n, others)
    BY <2>2, <2>4, GpaNewClear
  <2>6. Contract!Resize
    BY <2>1, <2>3, <2>5 DEF Contract!Resize, Contract!SamePlace
  <2> QED
    BY <2>6 DEF Contract!Next
<1>6. ASSUME NEW b \in live, NEW size \in Sizes, MoveLarge(b, size)
      PROVE  Contract!Next
  <2> DEFINE n == [region |-> Fresh(gpa), pos |-> 0, len |-> size]
  <2>1. RecordsOf(b) # {} /\ HasRoom(gpa, 1) /\ live' = (live \ {b}) \cup {n}
    BY <1>6 DEF MoveLarge
  <2>2. n \in GpaBlock /\ \A d \in live : d.region # n.region
    BY <1>1, <2>1, MovedGood
  <2> HIDE DEF n
  <2>3. n \in Contract!Block
    <3>1. Region \subseteq Nat
      BY DEF Region
    <3> QED
      BY <2>2, <3>1 DEF GpaBlock, Contract!Block
  <2>4. Contract!ClearOf(n, live) /\ ~Contract!SamePlace(b, n)
    BY <2>2 DEF Contract!ClearOf, Contract!Disjoint, Contract!SamePlace
  <2>5. Contract!Resize
    BY <2>1, <2>3, <2>4 DEF Contract!Resize
  <2> QED
    BY <2>5 DEF Contract!Next
<1>7. ASSUME NEW b \in live, NEW size \in Sizes, NEW align \in Aligns, GrowByMove(b, size, align)
      PROVE  Contract!Next
  <2>1. PICK a \in Allocs(gpa, size, align) : live' = (live \cup {a.block}) \ {b}
    BY <1>7 DEF GrowByMove
  <2> DEFINE n == a.block
  <2>2. GpaGood(a.gpa, live \cup {n}, Null) /\ n \notin live
    BY <1>1, GpaAllocGood DEF Obtains
  <2>3. live' = (live \cup {n}) \ {b}
    BY <2>1
  <2> HIDE DEF n
  <2>4. n \in Contract!Block /\ Contract!ClearOf(n, live)
    BY <2>2, GpaNewClear
  <2>5. live' = (live \ {b}) \cup {n} /\ Contract!ClearOf(n, live \ {b})
    BY <2>2, <2>3, <2>4 DEF Contract!ClearOf
  <2>6. Contract!Resize
    BY <2>4, <2>5 DEF Contract!Resize
  <2> QED
    BY <2>6 DEF Contract!Next
<1>8. ASSUME live' \subseteq live
      PROVE  Contract!Next
  BY <1>8 DEF Contract!Release, Contract!Next
<1>9. ASSUME NEW b \in live, FreeSmall(b) \/ FreeLarge(b)
      PROVE  Contract!Next
  BY <1>8, <1>9 DEF FreeSmall, FreeLarge
<1>10. CASE Destroy
  BY <1>8, <1>10 DEF Destroy
<1> QED
  BY <1>2, <1>3, <1>4, <1>5, <1>6, <1>7, <1>9, <1>10 DEF Next

LEMMA GpaImplementsContract == MCSpec => ImplementsContract
<1>1. MCInit => Contract!Init
  BY DEF MCInit, Init, Contract!Init
<1> QED
  BY <1>1, GpaInvAlways, GpaStep, GpaRefines, PTL DEF MCSpec, ImplementsContract, Contract!Spec

\* Both allocators give their clients bytes nobody else holds, whether a block is
\* new, is resized in its slots or moves (cu_slab_alloc, cu_slab_grow, cu_slab_shrink,
\* cu_gpa_alloc, cu_gpa_grow, cu_gpa_shrink).
THEOREM PoolsAreAllocators == MCSpec => AreAllocators
BY SlabImplementsContract, GpaImplementsContract, PTL DEF AreAllocators
=============================================================================
