------------------------ MODULE ArenaAllocatorProofs ------------------------
(***************************************************************************)
(* Proofs about ArenaAllocator, for every header size, chunk size, set of  *)
(* layouts and number of chunks.  IInv is inductive; the operations are    *)
(* compositions of a few steps on (chunk list, headers, blocks), so the    *)
(* invariant is stated for such a triple (Good) and one lemma per step     *)
(* shows that the step preserves it.                                       *)
(***************************************************************************)
EXTENDS ArenaAllocator, TLAPS

\* IInv of a chunk list cs, headers hd and blocks lv.
GoodTypes(cs, hd, lv) ==
  /\ cs \in Seq(Chunk)
  /\ \A q \in DOMAIN hd : hd[q] \in Nat
  /\ lv \subseteq Block
  /\ \A b \in lv : b.chunk \in DOMAIN cs

GoodBounds(cs, lv) ==
  /\ \A t \in DOMAIN cs : cs[t].used <= cs[t].size
  /\ \A b \in lv : HeaderSize <= b.pos /\ b.pos + b.len <= cs[b.chunk].used

GoodHeaders(hd, lv) ==
  \A b \in lv :
    /\ <<b.chunk, b.pos>> \in DOMAIN hd
    /\ hd[<<b.chunk, b.pos>>] + HeaderSize <= b.pos

GoodPops(hd, lv) ==
  \A b, d \in lv :
    (b # d /\ b.chunk = d.chunk) =>
      \/ d.pos + d.len <= hd[<<b.chunk, b.pos>>]
      \/ b.pos + b.len <= hd[<<d.chunk, d.pos>>]

Good(cs, hd, lv) ==
  GoodTypes(cs, hd, lv) /\ GoodBounds(cs, lv) /\ GoodHeaders(hd, lv) /\ GoodPops(hd, lv)

\* The invariant is Good of the arena's own chunks, headers and blocks.
LEMMA GoodIsIInv == IInv <=> Good(chunks, header, live)
  BY DEF IInv, TypeOK, WithinChunk, HeadersIntact, PopIsSafe, End, Place,
         Good, GoodTypes, GoodBounds, GoodHeaders, GoodPops

\* The same of the next state.
LEMMA GoodIsIInvPrime == Good(chunks', header', live') => IInv'
  BY DEF IInv, TypeOK, WithinChunk, HeadersIntact, PopIsSafe, End, Place,
     Good, GoodTypes, GoodBounds, GoodHeaders, GoodPops

-----------------------------------------------------------------------------
(* Layout arithmetic                                                       *)

\* CU_ALIGN_UP rounds up, by less than the alignment.
LEMMA AlignUpBounds ==
  ASSUME NEW x \in Nat, NEW a \in Nat \ {0}
  PROVE  /\ AlignUp(x, a) \in Nat
         /\ x <= AlignUp(x, a)
         /\ AlignUp(x, a) <= x + a - 1
<1> DEFINE y == x + a - 1
<1>1. y \in Nat
  OBVIOUS
<1>2. y % a \in 0 .. a - 1
  BY <1>1
<1>3. AlignUp(x, a) = y - (y % a)
  BY DEF AlignUp
<1> HIDE DEF y
<1>4. y = x + a - 1
  BY DEF y
<1> QED
  BY <1>1, <1>2, <1>3, <1>4

\* A block starts at least a header above "used".
LEMMA StartBounds ==
  ASSUME NEW c \in Chunk, NEW align \in Nat
  PROVE  /\ Start(c, align) \in Nat
         /\ c.used + HeaderSize <= Start(c, align)
         /\ Start(c, align) <= c.used + HeaderSize + EffAlign(align) - 1
<1>1. EffAlign(align) \in Nat \ {0}
  BY DEF EffAlign
<1>2. c.used + HeaderSize \in Nat
  BY HeaderSizeAssumption DEF Chunk
<1> QED
  BY <1>1, <1>2, AlignUpBounds DEF Start

\* A fresh chunk has room for the request it is made for.
LEMMA NewChunkFits ==
  ASSUME NEW size \in Nat, NEW align \in Nat
  PROVE  /\ NewChunk(size, align) \in Chunk
         /\ Fits(NewChunk(size, align), size, align)
<1> DEFINE c == NewChunk(size, align)
<1>1. EffAlign(align) \in Nat \ {0}
  BY DEF EffAlign
<1>2. c \in Chunk
  BY <1>1, HeaderSizeAssumption, ChunkSizeAssumption DEF NewChunk, Needed, Chunk
<1>3. c.used = 0 /\ Needed(size, align) <= c.size
  BY <1>1, HeaderSizeAssumption, ChunkSizeAssumption DEF NewChunk, Needed
<1>4. Start(c, align) \in Nat /\ Start(c, align) <= HeaderSize + EffAlign(align) - 1
  BY <1>1, <1>2, <1>3, StartBounds, HeaderSizeAssumption
<1>5. c.size \in Nat
  BY <1>2 DEF Chunk
<1>6. Start(c, align) + size <= c.size
  BY <1>1, <1>3, <1>4, <1>5, HeaderSizeAssumption DEF Needed
<1> QED
  BY <1>2, <1>6 DEF Fits

-----------------------------------------------------------------------------
(* The steps preserve the invariant                                        *)

\* When b is on top of its chunk, popping it uncovers every other block.
LEMMA TopIsAbove ==
  ASSUME NEW cs, NEW hd, NEW lv, Good(cs, hd, lv),
         NEW b \in lv, NEW d \in lv, d # b, d.chunk = b.chunk, OnTop(cs, b)
  PROVE  d.pos + d.len <= hd[<<b.chunk, b.pos>>]
<1>1. b \in Block /\ d \in Block
  BY DEF Good, GoodTypes
<1>2. hd[<<d.chunk, d.pos>>] \in Nat /\ hd[<<d.chunk, d.pos>>] + HeaderSize <= d.pos
  BY DEF Good, GoodTypes, GoodHeaders
<1>3. d.pos + d.len <= b.pos + b.len
  BY DEF Good, GoodBounds, OnTop, End
<1>4. ~(b.pos + b.len <= hd[<<d.chunk, d.pos>>])
  BY <1>1, <1>2, <1>3, HeaderSizeAssumption DEF Block
<1> QED
  BY <1>4 DEF Good, GoodPops

\* The chunk list may get a new empty chunk.
LEMMA AppendGood ==
  ASSUME NEW cs, NEW hd, NEW lv, Good(cs, hd, lv), NEW c \in Chunk, c.used = 0
  PROVE  Good(Append(cs, c), hd, lv)
<1>1. cs \in Seq(Chunk)
  BY DEF Good, GoodTypes
<1>2. /\ Append(cs, c) \in Seq(Chunk)
      /\ DOMAIN Append(cs, c) = DOMAIN cs \cup {Len(cs) + 1}
      /\ \A t \in DOMAIN cs : Append(cs, c)[t] = cs[t]
      /\ Append(cs, c)[Len(cs) + 1] = c
  BY <1>1
<1>3. c.used <= c.size
  BY DEF Chunk
<1>4. GoodTypes(Append(cs, c), hd, lv)
  BY <1>2 DEF Good, GoodTypes
<1>5. GoodBounds(Append(cs, c), lv)
  BY <1>2, <1>3 DEF Good, GoodTypes, GoodBounds
<1> QED
  BY <1>4, <1>5 DEF Good

\* Changing the "used" mark of one chunk.
LEMMA SetUsed ==
  ASSUME NEW cs \in Seq(Chunk), NEW t \in DOMAIN cs, NEW u \in Nat
  PROVE  LET ds == [cs EXCEPT ![t].used = u] IN
         /\ ds \in Seq(Chunk)
         /\ DOMAIN ds = DOMAIN cs
         /\ ds[t].used = u
         /\ ds[t].size = cs[t].size
         /\ \A v \in DOMAIN cs : v # t => ds[v] = cs[v]
<1> DEFINE ds == [cs EXCEPT ![t].used = u]
<1>1. cs \in [1 .. Len(cs) -> Chunk] /\ DOMAIN cs = 1 .. Len(cs) /\ Len(cs) \in Nat
  OBVIOUS
<1>2. cs[t] \in Chunk
  BY <1>1
<1>3. /\ [cs[t] EXCEPT !.used = u] \in Chunk
      /\ [cs[t] EXCEPT !.used = u].used = u
      /\ [cs[t] EXCEPT !.used = u].size = cs[t].size
  BY <1>2 DEF Chunk
<1>4. ds = [cs EXCEPT ![t] = [cs[t] EXCEPT !.used = u]]
  OBVIOUS
<1>5. ds \in [1 .. Len(cs) -> Chunk] /\ DOMAIN ds = DOMAIN cs
  BY <1>1, <1>3, <1>4
<1>6. ds \in Seq(Chunk)
  BY <1>1, <1>5
<1> QED
  BY <1>1, <1>3, <1>4, <1>5, <1>6

\* Bumping a chunk that has room over a new block.
LEMMA BumpGood ==
  ASSUME NEW cs, NEW hd, NEW lv, Good(cs, hd, lv),
         NEW t \in DOMAIN cs, NEW size \in Nat, NEW align \in Nat,
         Fits(cs[t], size, align)
  PROVE  LET n == NewBlock(cs, t, size, align) IN
         /\ Good(Bump(cs, t, size, align), BumpHeader(cs, hd, t, size, align), lv \cup {n})
         /\ n \notin lv
         /\ n \in Block
         /\ \A b \in lv : b.chunk = t => b.pos + b.len + HeaderSize <= n.pos
<1> DEFINE n  == NewBlock(cs, t, size, align)
           s  == Start(cs[t], align)
           ds == Bump(cs, t, size, align)
           gd == BumpHeader(cs, hd, t, size, align)
           mv == lv \cup {n}
<1>1. cs \in Seq(Chunk) /\ t \in 1 .. Len(cs) /\ cs[t] \in Chunk
  BY DEF Good, GoodTypes
<1>2. s \in Nat /\ cs[t].used + HeaderSize <= s
  BY <1>1, StartBounds
<1>3. EffAlign(align) \in Nat
  BY DEF EffAlign
<1>4. /\ n \in Block
      /\ n.chunk = t /\ n.pos = s /\ n.len = size
  BY <1>1, <1>2, <1>3 DEF NewBlock, Block
<1>5. /\ cs[t].used \in Nat /\ cs[t].size \in Nat
      /\ s + size \in Nat
      /\ s + size <= cs[t].size
  BY <1>1, <1>2 DEF Chunk, Fits
<1>6. /\ ds \in Seq(Chunk)
      /\ DOMAIN ds = DOMAIN cs
      /\ ds[t].used = s + size
      /\ ds[t].size = cs[t].size
      /\ \A v \in DOMAIN cs : v # t => ds[v] = cs[v]
  BY <1>1, <1>5, SetUsed DEF Bump
<1>7. ASSUME NEW b \in lv
      PROVE  /\ b \in Block /\ b.chunk \in DOMAIN cs
             /\ b.pos + b.len <= cs[b.chunk].used
             /\ HeaderSize <= b.pos
             /\ b.chunk = t => b.pos + b.len <= cs[t].used
  BY DEF Good, GoodTypes, GoodBounds
<1>8. \A b \in lv : b.chunk = t => b.pos + b.len + HeaderSize <= s
  BY <1>2, <1>5, <1>7, HeaderSizeAssumption DEF Block
<1>9. n \notin lv
  BY <1>2, <1>4, <1>8, HeaderSizeAssumption DEF Block
<1>10. /\ <<t, s>> \in DOMAIN gd /\ gd[<<t, s>>] = cs[t].used
       /\ \A b \in lv : /\ <<b.chunk, b.pos>> \in DOMAIN gd
                        /\ gd[<<b.chunk, b.pos>>] = hd[<<b.chunk, b.pos>>]
       /\ \A q \in DOMAIN gd : gd[q] \in Nat
  <2> DEFINE od == Overwrite(hd, t, s - HeaderSize, s + size)
  <2>1. gd = PutHeader(od, <<t, s>>, cs[t].used)
    BY DEF BumpHeader
  <2>2. ASSUME NEW b \in lv
        PROVE  /\ <<b.chunk, b.pos>> \in DOMAIN od
               /\ od[<<b.chunk, b.pos>>] = hd[<<b.chunk, b.pos>>]
               /\ <<b.chunk, b.pos>> # <<t, s>>
    <3>1. <<b.chunk, b.pos>> \in DOMAIN hd
      BY DEF Good, GoodHeaders
    <3>2. b.chunk # t \/ b.pos <= s - HeaderSize
      BY <1>2, <1>7, <1>8, HeaderSizeAssumption DEF Block
    <3>3. b.chunk # t \/ b.pos # s
      BY <1>2, <1>7, <3>2, HeaderSizeAssumption DEF Block
    <3> QED
      BY <3>1, <3>2, <3>3 DEF Overwrite
  <2>3. \A q \in DOMAIN od : od[q] \in Nat
    BY DEF Overwrite, Good, GoodTypes
  <2> QED
    BY <1>5, <2>1, <2>2, <2>3 DEF PutHeader
<1> HIDE DEF n, s, ds, gd
<1>11. GoodTypes(ds, gd, mv)
  BY <1>4, <1>6, <1>7, <1>10 DEF GoodTypes
<1>12. GoodBounds(ds, mv)
  <2>1. \A v \in DOMAIN ds : ds[v].used <= ds[v].size
    BY <1>5, <1>6 DEF Good, GoodBounds
  <2>2. HeaderSize <= n.pos /\ n.pos + n.len <= ds[n.chunk].used
    BY <1>2, <1>4, <1>5, <1>6, HeaderSizeAssumption
  <2>3. ASSUME NEW b \in lv
        PROVE  HeaderSize <= b.pos /\ b.pos + b.len <= ds[b.chunk].used
    <3>1. CASE b.chunk = t
      BY <1>2, <1>5, <1>6, <1>7, <3>1, HeaderSizeAssumption DEF Block
    <3>2. CASE b.chunk # t
      BY <1>6, <1>7, <3>2
    <3> QED
      BY <3>1, <3>2
  <2> QED
    BY <2>1, <2>2, <2>3 DEF GoodBounds
<1>13. GoodHeaders(gd, mv)
  BY <1>2, <1>4, <1>10 DEF Good, GoodHeaders
<1>14. GoodPops(gd, mv)
  BY <1>4, <1>7, <1>10 DEF Good, GoodPops
<1>15. Good(ds, gd, mv)
  BY <1>11, <1>12, <1>13, <1>14 DEF Good
<1> QED
  BY <1>4, <1>8, <1>9, <1>15 DEF n, s, ds, gd

\* Freeing a block: popped if it is on top, forgotten in any case.
LEMMA FreedGood ==
  ASSUME NEW cs, NEW hd, NEW lv, Good(cs, hd, lv), NEW b \in lv
  PROVE  Good(Freed(cs, hd, b), Forget(hd, b), lv \ {b})
<1> DEFINE ds == Freed(cs, hd, b)
           gd == Forget(hd, b)
           mv == lv \ {b}
           p  == hd[<<b.chunk, b.pos>>]
<1>1. /\ cs \in Seq(Chunk) /\ b \in Block
      /\ b.chunk \in DOMAIN cs
      /\ cs[b.chunk] \in Chunk
      /\ p \in Nat /\ p + HeaderSize <= b.pos
  BY DEF Good, GoodTypes, GoodHeaders
<1>2. /\ ds \in Seq(Chunk)
      /\ DOMAIN ds = DOMAIN cs
      /\ \A v \in DOMAIN cs : v # b.chunk => ds[v] = cs[v]
      /\ ds[b.chunk].size = cs[b.chunk].size
      /\ ds[b.chunk].used = IF OnTop(cs, b) THEN p ELSE cs[b.chunk].used
  <2>1. CASE OnTop(cs, b)
    BY <1>1, <2>1, SetUsed DEF Freed, Place
  <2>2. CASE ~OnTop(cs, b)
    BY <1>1, <2>2 DEF Freed
  <2> QED
    BY <2>1, <2>2
<1>3. ASSUME NEW d \in mv
      PROVE  <<d.chunk, d.pos>> # <<b.chunk, b.pos>>
  <2>1. CASE d.chunk = b.chunk
    <3>1. \/ d.pos + d.len <= hd[<<b.chunk, b.pos>>]
          \/ b.pos + b.len <= hd[<<d.chunk, d.pos>>]
      BY <2>1 DEF Good, GoodPops
    <3>2. d \in Block /\ hd[<<d.chunk, d.pos>>] \in Nat
          /\ hd[<<d.chunk, d.pos>>] + HeaderSize <= d.pos
      BY DEF Good, GoodTypes, GoodHeaders
    <3>3. d.pos # b.pos
      BY <1>1, <3>1, <3>2, HeaderSizeAssumption, SMTT(30) DEF Block
    <3> QED
      BY <3>3
  <2> QED
    BY <2>1
<1>4. \A d \in mv : /\ <<d.chunk, d.pos>> \in DOMAIN gd
                    /\ gd[<<d.chunk, d.pos>>] = hd[<<d.chunk, d.pos>>]
  BY <1>3 DEF Forget, Place, Good, GoodHeaders
<1>5. \A q \in DOMAIN gd : gd[q] \in Nat
  BY DEF Forget, Good, GoodTypes
<1>6. GoodTypes(ds, gd, mv)
  BY <1>2, <1>5 DEF Good, GoodTypes
<1>7. GoodBounds(ds, mv)
  <2>1. ASSUME NEW v \in DOMAIN ds
        PROVE  ds[v].used <= ds[v].size
    <3>1. cs[v] \in Chunk /\ cs[v].used <= cs[v].size
      BY <1>1, <1>2 DEF Good, GoodBounds
    <3>2. b.pos + b.len <= cs[b.chunk].used
      BY DEF Good, GoodBounds
    <3>3. CASE v = b.chunk
      <4>1. p <= cs[v].used
        BY <1>1, <3>1, <3>2, <3>3, HeaderSizeAssumption, SMTT(30) DEF Chunk, Block
      <4>2. ds[v].size = cs[v].size /\ ds[v].used \in {p, cs[v].used}
        BY <1>2, <3>3
      <4> QED
        BY <1>1, <3>1, <4>1, <4>2, SMTT(30) DEF Chunk
    <3>4. CASE v # b.chunk
      BY <1>2, <3>1, <3>4
    <3> QED
      BY <3>3, <3>4
  <2>2. ASSUME NEW d \in mv
        PROVE  HeaderSize <= d.pos /\ d.pos + d.len <= ds[d.chunk].used
    <3>1. d.chunk \in DOMAIN cs /\ HeaderSize <= d.pos /\ d.pos + d.len <= cs[d.chunk].used
      BY DEF Good, GoodTypes, GoodBounds
    <3>2. CASE d.chunk # b.chunk \/ ~OnTop(cs, b)
      BY <1>2, <3>1, <3>2
    <3>3. CASE d.chunk = b.chunk /\ OnTop(cs, b)
      BY <1>2, <3>1, <3>3, TopIsAbove
    <3> QED
      BY <3>2, <3>3
  <2> QED
    BY <2>1, <2>2 DEF GoodBounds
<1>8. GoodHeaders(gd, mv)
  BY <1>4 DEF Good, GoodHeaders
<1>9. GoodPops(gd, mv)
  BY <1>4 DEF Good, GoodPops
<1> QED
  BY <1>6, <1>7, <1>8, <1>9 DEF Good

\* Resizing the block on top of a chunk where it is.  The headers of the other
\* blocks and its own stay as they are.
LEMMA ResizeGood ==
  ASSUME NEW cs, NEW hd, NEW lv, Good(cs, hd, lv), NEW b \in lv, OnTop(cs, b),
         NEW size \in Nat, b.pos + size <= cs[b.chunk].size,
         NEW gd,
         \A q \in DOMAIN gd : gd[q] \in Nat,
         \A d \in lv : /\ <<d.chunk, d.pos>> \in DOMAIN gd
                       /\ gd[<<d.chunk, d.pos>>] = hd[<<d.chunk, d.pos>>]
  PROVE  Good([cs EXCEPT ![b.chunk].used = b.pos + size], gd,
              (lv \ {b}) \cup {[b EXCEPT !.len = size]})
<1> DEFINE ds == [cs EXCEPT ![b.chunk].used = b.pos + size]
           n  == [b EXCEPT !.len = size]
           mv == (lv \ {b}) \cup {n}
<1>1. /\ cs \in Seq(Chunk) /\ b \in Block /\ b.chunk \in DOMAIN cs
      /\ b.pos \in Nat /\ b.pos + size \in Nat
      /\ HeaderSize <= b.pos
  BY DEF Good, GoodTypes, GoodBounds, Block
<1>2. n \in Block /\ n.chunk = b.chunk /\ n.pos = b.pos /\ n.len = size
  BY <1>1 DEF Block
<1>3. /\ ds \in Seq(Chunk)
      /\ DOMAIN ds = DOMAIN cs
      /\ ds[b.chunk].used = b.pos + size
      /\ ds[b.chunk].size = cs[b.chunk].size
      /\ \A v \in DOMAIN cs : v # b.chunk => ds[v] = cs[v]
  BY <1>1, SetUsed
<1> HIDE DEF ds, n
<1>4. ASSUME NEW d \in lv \ {b}, d.chunk = b.chunk
      PROVE  d.pos + d.len <= hd[<<b.chunk, b.pos>>]
  BY <1>4, TopIsAbove
<1>5. /\ hd[<<b.chunk, b.pos>>] \in Nat
      /\ hd[<<b.chunk, b.pos>>] + HeaderSize <= b.pos
  BY DEF Good, GoodTypes, GoodHeaders
<1>6. GoodTypes(ds, gd, mv)
  BY <1>1, <1>2, <1>3 DEF Good, GoodTypes
<1>7. GoodBounds(ds, mv)
  <2>1. \A v \in DOMAIN ds : ds[v].used <= ds[v].size
    BY <1>3 DEF Good, GoodBounds
  <2>2. n.pos + n.len <= ds[n.chunk].used /\ HeaderSize <= n.pos
    BY <1>1, <1>2, <1>3
  <2>3. ASSUME NEW d \in lv \ {b}
        PROVE  HeaderSize <= d.pos /\ d.pos + d.len <= ds[d.chunk].used
    <3>1. /\ d \in Block /\ d.chunk \in DOMAIN cs /\ HeaderSize <= d.pos
          /\ d.pos + d.len <= cs[d.chunk].used
      BY DEF Good, GoodTypes, GoodBounds
    <3>2. CASE d.chunk = b.chunk
      <4>1. d.pos + d.len <= hd[<<b.chunk, b.pos>>]
        BY <1>4, <3>2
      <4>2. d.pos + d.len <= b.pos + size
        <5>1. d.pos + d.len \in Nat
          BY <3>1 DEF Block
        <5>2. b.pos \in Nat
          BY <1>1
        <5>3. hd[<<b.chunk, b.pos>>] <= b.pos
          BY <1>5, <5>2, HeaderSizeAssumption
        <5> QED
          BY <1>5, <4>1, <5>1, <5>2, <5>3
      <4>3. ds[d.chunk].used = b.pos + size
        BY <1>3, <3>2
      <4> QED
        BY <3>1, <4>2, <4>3
    <3>3. CASE d.chunk # b.chunk
      BY <1>3, <3>1, <3>3
    <3> QED
      BY <3>2, <3>3
  <2> QED
    BY <2>1, <2>2, <2>3 DEF GoodBounds
<1>8. GoodHeaders(gd, mv)
  BY <1>2 DEF Good, GoodHeaders
<1>9. GoodPops(gd, mv)
  BY <1>2, <1>4 DEF Good, GoodPops
<1>10. Good(ds, gd, mv)
  BY <1>6, <1>7, <1>8, <1>9 DEF Good
<1> QED
  BY <1>10 DEF ds, n

\* A request is served from a chunk of a good list that has room for it.
LEMMA PlacementGood ==
  ASSUME Good(chunks, header, live), NEW size \in Nat, NEW align \in Nat,
         NEW p \in Placements(size, align)
  PROVE  /\ Good(p[1], header, live)
         /\ p[2] \in DOMAIN p[1]
         /\ Fits(p[1][p[2]], size, align)
<1>1. CASE Fitting(size, align) # {}
  BY <1>1 DEF Placements, Fitting
<1>2. CASE Fitting(size, align) = {}
  <2> DEFINE c == NewChunk(size, align)
  <2>1. p = <<Append(chunks, c), Len(chunks) + 1>>
    BY <1>2 DEF Placements
  <2>2. c \in Chunk /\ Fits(c, size, align) /\ c.used = 0
    BY NewChunkFits DEF NewChunk
  <2>3. chunks \in Seq(Chunk)
    BY DEF Good, GoodTypes
  <2> HIDE DEF c
  <2>4. /\ Len(chunks) + 1 \in DOMAIN Append(chunks, c)
        /\ Append(chunks, c)[Len(chunks) + 1] = c
    BY <2>2, <2>3
  <2> QED
    BY <2>1, <2>2, <2>4, AppendGood
<1> QED
  BY <1>1, <1>2

-----------------------------------------------------------------------------
(* The operations                                                          *)

\* An arena without chunks is in order.
LEMMA InitGood == Init => IInv
  BY DEF Init, IInv, TypeOK, WithinChunk, HeadersIntact, PopIsSafe

\* An allocation preserves the invariant, and its new block is a header above
\* every other block of its chunk.
LEMMA AllocStep ==
  ASSUME IInv, NEW size \in Sizes, NEW align \in Aligns, Alloc(size, align)
  PROVE  /\ IInv'
         /\ \E n \in Block :
              /\ live' = live \cup {n}
              /\ \A b \in live : b.chunk = n.chunk => b.pos + b.len + HeaderSize <= n.pos
<1>1. Good(chunks, header, live) /\ size \in Nat /\ align \in Nat
  BY GoodIsIInv, SizesAssumption, AlignsAssumption
<1>2. PICK p \in Placements(size, align) :
        /\ chunks' = Bump(p[1], p[2], size, align)
        /\ header' = BumpHeader(p[1], header, p[2], size, align)
        /\ live' = live \cup {NewBlock(p[1], p[2], size, align)}
  BY DEF Alloc
<1>3. /\ Good(p[1], header, live) /\ p[2] \in DOMAIN p[1]
      /\ Fits(p[1][p[2]], size, align)
  BY <1>1, PlacementGood
<1> DEFINE n == NewBlock(p[1], p[2], size, align)
<1>4. /\ Good(chunks', header', live')
      /\ n \in Block
      /\ \A b \in live : b.chunk = p[2] => b.pos + b.len + HeaderSize <= n.pos
  BY <1>1, <1>2, <1>3, BumpGood
<1>5. n.chunk = p[2]
  BY DEF NewBlock
<1>6. IInv'
  BY <1>4, GoodIsIInvPrime
<1> QED
  BY <1>2, <1>4, <1>5, <1>6

\* So does a grow that moves the block.
LEMMA GrowByMoveStep ==
  ASSUME IInv, NEW b \in live, NEW size \in Sizes, NEW align \in Aligns,
         GrowByMove(b, size, align)
  PROVE  /\ IInv'
         /\ \E n \in Block :
              /\ live' = (live \ {b}) \cup {n}
              /\ \A d \in live : d.chunk = n.chunk => d.pos + d.len + HeaderSize <= n.pos
<1>1. Good(chunks, header, live) /\ size \in Nat /\ align \in Nat
  BY GoodIsIInv, SizesAssumption, AlignsAssumption
<1>2. PICK p \in Placements(size, align) :
        LET cs == Bump(p[1], p[2], size, align)
            hd == BumpHeader(p[1], header, p[2], size, align)
        IN /\ chunks' = Freed(cs, hd, b)
           /\ header' = Forget(hd, b)
           /\ live' = (live \cup {NewBlock(p[1], p[2], size, align)}) \ {b}
  BY DEF GrowByMove
<1> DEFINE n  == NewBlock(p[1], p[2], size, align)
           cs == Bump(p[1], p[2], size, align)
           hd == BumpHeader(p[1], header, p[2], size, align)
<1>3. /\ Good(p[1], header, live) /\ p[2] \in DOMAIN p[1]
      /\ Fits(p[1][p[2]], size, align)
  BY <1>1, PlacementGood
<1>4. /\ Good(cs, hd, live \cup {n})
      /\ n \in Block /\ n \notin live
      /\ \A d \in live : d.chunk = p[2] => d.pos + d.len + HeaderSize <= n.pos
  BY <1>1, <1>3, BumpGood
<1>5. Good(Freed(cs, hd, b), Forget(hd, b), (live \cup {n}) \ {b})
  BY <1>4, FreedGood
<1>6. IInv'
  BY <1>2, <1>5, GoodIsIInvPrime
<1>7. n.chunk = p[2]
  BY DEF NewBlock
<1>8. live' = (live \ {b}) \cup {n}
  BY <1>2, <1>4
<1> QED
  BY <1>4, <1>6, <1>7, <1>8

\* A block on top of its chunk grows up to the end of the chunk.
LEMMA GrowInPlaceStep ==
  ASSUME IInv, NEW b \in live, NEW size \in Sizes, GrowInPlace(b, size)
  PROVE  IInv'
<1>1. Good(chunks, header, live) /\ size \in Nat
  BY GoodIsIInv, SizesAssumption
<1> DEFINE gd == Overwrite(header, b.chunk, b.pos, b.pos + size)
<1>2. /\ b \in Block /\ b.chunk \in DOMAIN chunks
      /\ chunks[b.chunk] \in Chunk
      /\ chunks[b.chunk].used = b.pos + b.len
      /\ size <= b.len + (chunks[b.chunk].size - chunks[b.chunk].used)
  BY DEF IInv, TypeOK, GrowInPlace, RoomInPlace, OnTop, End
<1>3. b.pos + size <= chunks[b.chunk].size
  BY <1>1, <1>2 DEF Block, Chunk
<1>4. \A q \in DOMAIN gd : gd[q] \in Nat
  BY DEF IInv, TypeOK, Overwrite
<1>5. ASSUME NEW d \in live
      PROVE  /\ <<d.chunk, d.pos>> \in DOMAIN gd
             /\ gd[<<d.chunk, d.pos>>] = header[<<d.chunk, d.pos>>]
  <2>1. <<d.chunk, d.pos>> \in DOMAIN header /\ d \in Block
    BY <1>1 DEF Good, GoodTypes, GoodHeaders
  <2>2. d.chunk # b.chunk \/ d.pos <= b.pos
    <3>1. CASE d # b /\ d.chunk = b.chunk
      <4>1. d.pos + d.len <= header[<<b.chunk, b.pos>>]
        BY <1>1, <3>1, TopIsAbove DEF GrowInPlace, RoomInPlace
      <4>2. /\ header[<<b.chunk, b.pos>>] \in Nat
            /\ header[<<b.chunk, b.pos>>] + HeaderSize <= b.pos
        BY <1>1 DEF Good, GoodTypes, GoodHeaders
      <4> QED
        BY <1>2, <2>1, <4>1, <4>2, HeaderSizeAssumption DEF Block
    <3>2. CASE d = b
      BY <1>2, <3>2 DEF Block
    <3> QED
      BY <3>1, <3>2
  <2> QED
    BY <2>1, <2>2 DEF Overwrite
<1>6. Good(chunks', header', live')
  BY <1>1, <1>3, <1>4, <1>5, ResizeGood DEF GrowInPlace, RoomInPlace
<1> QED
  BY <1>6, GoodIsIInvPrime

\* A block is cut short, and the chunk's mark lowered if it was on top.
LEMMA ShrinkToStep ==
  ASSUME IInv, NEW b \in live, NEW size \in Sizes, ShrinkTo(b, size)
  PROVE  IInv'
<1>1. Good(chunks, header, live) /\ size \in Nat
  BY GoodIsIInv, SizesAssumption
<1>2. /\ b \in Block /\ b.chunk \in DOMAIN chunks
      /\ chunks[b.chunk] \in Chunk
      /\ b.pos + b.len <= chunks[b.chunk].used
      /\ chunks[b.chunk].used <= chunks[b.chunk].size
      /\ size <= b.len
  BY <1>1 DEF Good, GoodTypes, GoodBounds, ShrinkTo
<1>3. /\ \A q \in DOMAIN header : header[q] \in Nat
      /\ \A d \in live : <<d.chunk, d.pos>> \in DOMAIN header
  BY <1>1 DEF Good, GoodTypes, GoodHeaders
<1>4. CASE OnTop(chunks, b)
  <2>1. b.pos + size <= chunks[b.chunk].size
    BY <1>1, <1>2 DEF Block, Chunk
  <2>2. Good(chunks', header', live')
    BY <1>1, <1>3, <1>4, <2>1, ResizeGood DEF ShrinkTo
  <2> QED
    BY <2>2, GoodIsIInvPrime
<1>5. CASE ~OnTop(chunks, b)
  <2> DEFINE n == [b EXCEPT !.len = size]
  <2>1. /\ n \in Block /\ n.chunk = b.chunk /\ n.pos = b.pos /\ n.len = size
        /\ n.pos + n.len <= b.pos + b.len
    BY <1>1, <1>2 DEF Block
  <2>2. chunks' = chunks /\ header' = header /\ live' = (live \ {b}) \cup {n}
    BY <1>5 DEF ShrinkTo
  <2> HIDE DEF n
  <2>3. GoodTypes(chunks, header, live')
    BY <1>1, <1>2, <2>1, <2>2 DEF Good, GoodTypes
  <2>4. GoodBounds(chunks, live')
    <3>1. n.pos + n.len <= chunks[n.chunk].used /\ HeaderSize <= n.pos
      <4>1. HeaderSize <= b.pos
        BY <1>1 DEF Good, GoodBounds
      <4> QED
        BY <1>1, <1>2, <2>1, <4>1 DEF Block, Chunk
    <3> QED
      BY <1>1, <2>2, <3>1 DEF Good, GoodBounds
  <2>5. GoodHeaders(header, live')
    BY <1>1, <2>1, <2>2 DEF Good, GoodHeaders
  <2>6. GoodPops(header, live')
    <3>1. ASSUME NEW d \in live, d # b, d.chunk = b.chunk
          PROVE  \/ d.pos + d.len <= header[<<n.chunk, n.pos>>]
                 \/ n.pos + n.len <= header[<<d.chunk, d.pos>>]
      <4>1. \/ d.pos + d.len <= header[<<b.chunk, b.pos>>]
            \/ b.pos + b.len <= header[<<d.chunk, d.pos>>]
        BY <1>1, <3>1 DEF Good, GoodPops
      <4>2. header[<<d.chunk, d.pos>>] \in Nat
        BY <1>3
      <4> QED
        BY <1>1, <1>2, <2>1, <4>1, <4>2 DEF Block
    <3> QED
      BY <1>1, <2>1, <2>2, <3>1 DEF Good, GoodPops
  <2>7. Good(chunks', header', live')
    BY <2>2, <2>3, <2>4, <2>5, <2>6 DEF Good
  <2> QED
    BY <2>7, GoodIsIInvPrime
<1> QED
  BY <1>4, <1>5

\* A block is freed wherever it is.
LEMMA FreeStep ==
  ASSUME IInv, NEW b \in live, Free(b)
  PROVE  IInv'
<1>1. Good(Freed(chunks, header, b), Forget(header, b), live \ {b})
  BY GoodIsIInv, FreedGood
<1> QED
  BY <1>1, GoodIsIInvPrime DEF Free

\* Shrinking to nothing is shrinking to an empty block, then freeing: the free
\* pops that empty block only if the block was empty before.
LEMMA ShrinkToNothingStep ==
  ASSUME IInv, NEW b \in live, ShrinkToNothing(b)
  PROVE  IInv'
<1>1. Good(chunks, header, live)
  BY GoodIsIInv
<1>2. CASE ~OnTop(chunks, b)
  <2>1. Free(b)
    BY <1>2 DEF ShrinkToNothing, Free
  <2> QED
    BY <2>1, FreeStep
<1>3. CASE OnTop(chunks, b)
  <2> DEFINE cs == [chunks EXCEPT ![b.chunk].used = b.pos]
             hd == header
  <2>1. /\ b \in Block /\ b.chunk \in DOMAIN chunks /\ chunks \in Seq(Chunk)
        /\ chunks[b.chunk] \in Chunk
        /\ b.pos + b.len = chunks[b.chunk].used
        /\ chunks[b.chunk].used <= chunks[b.chunk].size
    BY <1>1, <1>3 DEF Good, GoodTypes, GoodBounds, OnTop, End
  <2>2. /\ cs \in Seq(Chunk)
        /\ DOMAIN cs = DOMAIN chunks
        /\ cs[b.chunk].used = b.pos
        /\ cs[b.chunk].size = chunks[b.chunk].size
        /\ \A v \in DOMAIN chunks : v # b.chunk => cs[v] = chunks[v]
    <3>1. b.pos \in Nat
      BY <2>1 DEF Block
    <3> QED
      BY <2>1, <3>1, SetUsed
  <2>3. CASE b.len = 0
    <3>1. cs = chunks
      <4>1. chunks[b.chunk].used = b.pos
        BY <2>1, <2>3 DEF Block
      <4>2. [chunks[b.chunk] EXCEPT !.used = b.pos] = chunks[b.chunk]
        BY <2>1, <4>1 DEF Chunk
      <4> QED
        BY <2>1, <4>2
    <3>2. Free(b)
      BY <1>3, <3>1 DEF ShrinkToNothing, Free
    <3> QED
      BY <3>2, FreeStep
  <2>4. CASE b.len # 0
    <3>1. Freed(cs, header, b) = cs
      BY <2>1, <2>2, <2>4 DEF Freed, OnTop, End, Block
    <3>2. Good(chunks, Forget(header, b), live \ {b})
      <4>1. Good(Freed(chunks, header, b), Forget(header, b), live \ {b})
        BY <1>1, FreedGood
      <4>2. GoodTypes(chunks, Forget(header, b), live \ {b})
        BY <1>1, <4>1 DEF Good, GoodTypes
      <4>3. GoodBounds(chunks, live \ {b})
        BY <1>1 DEF Good, GoodBounds
      <4> QED
        BY <4>1, <4>2, <4>3 DEF Good
    <3>3. GoodBounds(cs, live \ {b})
      <4>1. \A v \in DOMAIN cs : cs[v].used <= cs[v].size
        <5>1. b.pos <= chunks[b.chunk].size
          BY <2>1 DEF Block, Chunk
        <5> QED
          BY <1>1, <2>2, <5>1 DEF Good, GoodBounds
      <4>2. ASSUME NEW d \in live \ {b}
            PROVE  HeaderSize <= d.pos /\ d.pos + d.len <= cs[d.chunk].used
        <5>1. /\ d \in Block /\ d.chunk \in DOMAIN chunks /\ HeaderSize <= d.pos
              /\ d.pos + d.len <= chunks[d.chunk].used
          BY <1>1 DEF Good, GoodTypes, GoodBounds
        <5>2. CASE d.chunk = b.chunk
          <6>1. d.pos + d.len <= header[<<b.chunk, b.pos>>]
            BY <1>1, <1>3, <5>2, TopIsAbove
          <6>2. /\ header[<<b.chunk, b.pos>>] \in Nat
                /\ header[<<b.chunk, b.pos>>] + HeaderSize <= b.pos
            BY <1>1 DEF Good, GoodTypes, GoodHeaders
          <6>3. d.pos + d.len <= b.pos
            BY <2>1, <5>1, <6>1, <6>2, HeaderSizeAssumption, SMTT(30) DEF Block
          <6>4. cs[d.chunk].used = b.pos
            BY <2>2, <5>2
          <6> QED
            BY <5>1, <6>3, <6>4
        <5>3. CASE d.chunk # b.chunk
          BY <2>2, <5>1, <5>3
        <5> QED
          BY <5>2, <5>3
      <4> QED
        BY <4>1, <4>2 DEF GoodBounds
    <3>4. Good(cs, Forget(header, b), live \ {b})
      BY <2>2, <3>2, <3>3 DEF Good, GoodTypes
    <3>5. chunks' = cs /\ header' = Forget(header, b) /\ live' = live \ {b}
      BY <1>3, <3>1 DEF ShrinkToNothing
    <3> QED
      BY <3>4, <3>5, GoodIsIInvPrime
  <2> QED
    BY <2>3, <2>4
<1> QED
  BY <1>2, <1>3

\* A destroyed arena is as one that was never used.
LEMMA DestroyStep == Destroy => IInv'
  BY DEF Destroy, IInv, TypeOK, WithinChunk, HeadersIntact, PopIsSafe

\* The invariant is inductive.
LEMMA NextGood == IInv /\ [Next]_vars => IInv'
<1> SUFFICES ASSUME IInv, [Next]_vars
             PROVE  IInv'
  OBVIOUS
<1>1. ASSUME NEW size \in Sizes, NEW align \in Aligns, Alloc(size, align)
      PROVE  IInv'
  BY <1>1, AllocStep
<1>2. CASE UNCHANGED vars
  BY <1>2 DEF vars, IInv, TypeOK, WithinChunk, HeadersIntact, PopIsSafe, End, Place
<1>3. ASSUME NEW b \in live, NEW size \in Sizes, GrowInPlace(b, size)
      PROVE  IInv'
  BY <1>3, GrowInPlaceStep
<1>4. ASSUME NEW b \in live, NEW size \in Sizes, NEW align \in Aligns,
             GrowByMove(b, size, align)
      PROVE  IInv'
  BY <1>4, GrowByMoveStep
<1>5. ASSUME NEW b \in live, NEW size \in Sizes, ShrinkTo(b, size)
      PROVE  IInv'
  BY <1>5, ShrinkToStep
<1>6. ASSUME NEW b \in live, ShrinkToNothing(b)
      PROVE  IInv'
  BY <1>6, ShrinkToNothingStep
<1>7. ASSUME NEW b \in live, Free(b)
      PROVE  IInv'
  BY <1>7, FreeStep
<1>8. CASE Destroy
  BY <1>8, DestroyStep
<1> QED
  BY <1>1, <1>2, <1>3, <1>4, <1>5, <1>6, <1>7, <1>8 DEF Next, AllocFails

\* The arena's invariant holds in every reachable state.
THEOREM ArenaInvariant == Spec => []IInv
  BY InitGood, NextGood, PTL DEF Spec

\* Pops that are safe keep blocks apart by a header.
LEMMA GoodBlocksApart == IInv => BlocksApart
<1> SUFFICES ASSUME IInv, NEW b \in live, NEW d \in live, b # d, b.chunk = d.chunk
             PROVE  End(b) <= d.pos - HeaderSize \/ End(d) <= b.pos - HeaderSize
  BY DEF BlocksApart
<1>1. b \in Block /\ d \in Block
  BY DEF IInv, TypeOK
<1>2. /\ header[Place(b)] \in Nat /\ header[Place(b)] + HeaderSize <= b.pos
      /\ header[Place(d)] \in Nat /\ header[Place(d)] + HeaderSize <= d.pos
  BY DEF IInv, TypeOK, HeadersIntact
<1>3. End(d) <= header[Place(b)] \/ End(b) <= header[Place(d)]
  BY DEF IInv, PopIsSafe
<1> QED
  BY <1>1, <1>2, <1>3, HeaderSizeAssumption DEF Block, End

\* Blocks lie in their chunks and share no byte, with their headers counted in: a
\* client that fills its blocks destroys neither another client's data nor a
\* header the arena will follow when a block is freed.
THEOREM ArenaSafety ==
  Spec => [](TypeOK /\ WithinChunk /\ HeadersIntact /\ BlocksApart /\ PopIsSafe)
<1>1. IInv => TypeOK /\ WithinChunk /\ HeadersIntact /\ BlocksApart /\ PopIsSafe
  BY GoodBlocksApart DEF IInv
<1> QED
  BY <1>1, ArenaInvariant, PTL

-----------------------------------------------------------------------------
(* The arena implements the allocator contract                             *)

Img(b) == [region |-> b.chunk, pos |-> b.pos, len |-> b.len]

\* What the contract sees of the arena's blocks.
LEMMA BlocksIsImg == Blocks = {Img(b) : b \in live} /\ Blocks' = {Img(b) : b \in live'}
  BY DEF Blocks, Img

\* The contract sees blocks.
LEMMA ImgType == ASSUME NEW b \in Block PROVE Img(b) \in Contract!Block
  BY DEF Block, Img, Contract!Block

\* Two live blocks of the arena are two blocks of the contract.
LEMMA ImgInjective ==
  ASSUME IInv, NEW b \in live, NEW d \in live, b # d
  PROVE  Img(b) # Img(d) /\ Contract!Disjoint(Img(b), Img(d))
<1>1. BlocksApart /\ b \in Block /\ d \in Block
  BY GoodBlocksApart DEF IInv, TypeOK
<1>2. CASE b.chunk # d.chunk
  BY <1>2 DEF Img, Contract!Disjoint
<1>3. CASE b.chunk = d.chunk
  <2>1. End(b) <= d.pos - HeaderSize \/ End(d) <= b.pos - HeaderSize
    BY <1>1, <1>3 DEF BlocksApart
  <2>2. b.pos # d.pos /\ (b.pos + b.len <= d.pos \/ d.pos + d.len <= b.pos)
    BY <1>1, <2>1, HeaderSizeAssumption DEF Block, End
  <2> QED
    BY <2>2 DEF Img, Contract!Disjoint
<1> QED
  BY <1>2, <1>3

\* Replacing a live block where it is keeps it clear of the others.
LEMMA ResizeInPlaceRefines ==
  ASSUME IInv, IInv', NEW b \in live, NEW n \in Block,
         n.chunk = b.chunk, n.pos = b.pos, live' = (live \ {b}) \cup {n}
  PROVE  Contract!Resize
<1>1. ASSUME NEW d \in live \ {b}
      PROVE  Contract!Disjoint(Img(d), Img(n)) /\ Img(d) # Img(b)
  <2>1. Img(b) # Img(d) /\ Contract!Disjoint(Img(b), Img(d))
    BY ImgInjective
  <2>2. CASE d.chunk # b.chunk
    BY <2>1, <2>2 DEF Img, Contract!Disjoint
  <2>3. CASE d.chunk = b.chunk
    <3>1. d \in Block /\ b \in Block
      BY DEF IInv, TypeOK
    <3>2. d # n
      <4>1. header[Place(d)] \in Nat /\ header[Place(b)] \in Nat
            /\ header[Place(d)] + HeaderSize <= d.pos
            /\ header[Place(b)] + HeaderSize <= b.pos
        BY DEF IInv, TypeOK, HeadersIntact
      <4>2. End(d) <= header[Place(b)] \/ End(b) <= header[Place(d)]
        BY <2>3 DEF IInv, PopIsSafe
      <4>3. d.pos # b.pos
        BY <3>1, <4>1, <4>2, HeaderSizeAssumption DEF Block, End
      <4> QED
        BY <4>3
    <3>3. End(d)' <= n.pos - HeaderSize \/ n.pos + n.len <= d.pos - HeaderSize
      <4>1. BlocksApart'
        <5>1. IInv' => BlocksApart'
          BY GoodBlocksApart, PTL
        <5> QED
          BY <5>1
      <4> QED
        BY <2>3, <3>2, <4>1 DEF BlocksApart, End
    <3>4. d.pos + d.len <= n.pos \/ n.pos + n.len <= d.pos
      BY <3>1, <3>3, HeaderSizeAssumption DEF Block, End
    <3> QED
      BY <2>1, <3>4 DEF Img, Contract!Disjoint
  <2> QED
    BY <2>2, <2>3
<1>2. Img(b) \in Blocks /\ Img(n) \in Blocks'
  BY BlocksIsImg
<1>3. Blocks' = (Blocks \ {Img(b)}) \cup {Img(n)}
  BY <1>1, BlocksIsImg
<1>4. Contract!SamePlace(Img(b), Img(n))
  BY DEF Contract!SamePlace, Img
<1>5. Contract!ClearOf(Img(n), Blocks \ {Img(b)})
  <2>1. ASSUME NEW x \in Blocks \ {Img(b)}
        PROVE  Contract!Disjoint(x, Img(n))
    <3>1. PICK d \in live : x = Img(d)
      BY BlocksIsImg
    <3>2. d # b
      BY <3>1
    <3> QED
      BY <1>1, <3>1, <3>2
  <2> QED
    BY <2>1 DEF Contract!ClearOf
<1> QED
  BY <1>2, <1>3, <1>4, <1>5, ImgType DEF Contract!Resize

\* A block that is a header above every other block of its chunk is clear of all.
LEMMA AboveIsClear ==
  ASSUME IInv, NEW n \in Block,
         \A d \in live : d.chunk = n.chunk => d.pos + d.len + HeaderSize <= n.pos
  PROVE  /\ Contract!ClearOf(Img(n), Blocks)
         /\ Img(n) \notin Blocks
<1>1. ASSUME NEW x \in Blocks
      PROVE  Contract!Disjoint(x, Img(n)) /\ x # Img(n)
  <2>1. PICK d \in live : x = Img(d)
    BY BlocksIsImg
  <2>2. d \in Block
    BY DEF IInv, TypeOK
  <2>3. d.chunk = n.chunk => d.pos + d.len <= n.pos /\ d.pos # n.pos
    BY <2>2, HeaderSizeAssumption DEF Block
  <2> QED
    BY <2>1, <2>3 DEF Img, Contract!Disjoint
<1> QED
  BY <1>1 DEF Contract!ClearOf

\* Blocks that only disappear are released.
LEMMA ReleaseRefines ==
  ASSUME live' \subseteq live
  PROVE  Contract!Release
  BY BlocksIsImg DEF Contract!Release

\* A block replaced by one above every other block of its chunk is resized.
LEMMA MoveRefines ==
  ASSUME IInv, NEW b \in live, NEW n \in Block,
         live' = (live \ {b}) \cup {n},
         \A d \in live : d.chunk = n.chunk => d.pos + d.len + HeaderSize <= n.pos
  PROVE  Contract!Resize
<1>1. Contract!ClearOf(Img(n), Blocks)
  BY AboveIsClear
<1>2. Img(b) \in Blocks /\ Img(n) \in Blocks'
  BY BlocksIsImg
<1>3. \A d \in live \ {b} : Img(d) # Img(b)
  BY ImgInjective
<1>4. Blocks' = (Blocks \ {Img(b)}) \cup {Img(n)}
  BY <1>3, BlocksIsImg
<1>5. Contract!ClearOf(Img(n), Blocks \ {Img(b)})
  BY <1>1 DEF Contract!ClearOf
<1> QED
  BY <1>1, <1>2, <1>4, <1>5, ImgType DEF Contract!Resize

\* Every step of the arena is a step of the contract, or changes no block.
LEMMA StepRefines == IInv /\ IInv' /\ [Next]_vars => [Contract!Next]_Blocks
<1> SUFFICES ASSUME IInv, IInv', [Next]_vars
             PROVE  [Contract!Next]_Blocks
  OBVIOUS
<1>1. ASSUME NEW size \in Sizes, NEW align \in Aligns, Alloc(size, align)
      PROVE  Contract!Next
  <2>1. PICK n \in Block :
          /\ live' = live \cup {n}
          /\ \A d \in live : d.chunk = n.chunk => d.pos + d.len + HeaderSize <= n.pos
    BY <1>1, AllocStep
  <2>2. Contract!ClearOf(Img(n), Blocks) /\ Img(n) \notin Blocks
    BY <2>1, AboveIsClear
  <2>3. Blocks' = Blocks \cup {Img(n)}
    BY <2>1, BlocksIsImg
  <2>4. Contract!Obtain
    BY <2>2, <2>3, ImgType DEF Contract!Obtain
  <2> QED
    BY <2>4 DEF Contract!Next
<1>2. CASE UNCHANGED vars
  BY <1>2 DEF vars, Blocks
<1>3. ASSUME NEW b \in live, NEW size \in Sizes,
             GrowInPlace(b, size) \/ ShrinkTo(b, size)
      PROVE  Contract!Next
  <2> DEFINE n == [b EXCEPT !.len = size]
  <2>1. n \in Block /\ n.chunk = b.chunk /\ n.pos = b.pos
    BY SizesAssumption DEF IInv, TypeOK, Block
  <2>2. live' = (live \ {b}) \cup {n}
    BY <1>3 DEF GrowInPlace, ShrinkTo
  <2> QED
    BY <2>1, <2>2, ResizeInPlaceRefines DEF Contract!Next
<1>4. ASSUME NEW b \in live, NEW size \in Sizes, NEW align \in Aligns,
             GrowByMove(b, size, align)
      PROVE  Contract!Next
  BY <1>4, GrowByMoveStep, MoveRefines DEF Contract!Next
<1>5. ASSUME NEW b \in live, ShrinkToNothing(b) \/ Free(b)
      PROVE  Contract!Next
  BY <1>5, ReleaseRefines DEF ShrinkToNothing, Free, Contract!Next
<1>6. CASE Destroy
  BY <1>6, ReleaseRefines DEF Destroy, Contract!Next
<1> QED
  BY <1>1, <1>2, <1>3, <1>4, <1>5, <1>6 DEF Next, AllocFails

\* Seen through the blocks its clients hold, the arena is an allocator.
THEOREM ArenaImplementsContract == Spec => ImplementsContract
<1>1. Init => Contract!Init
  BY DEF Init, Contract!Init, Blocks
<1> QED
  BY <1>1, StepRefines, ArenaInvariant, PTL DEF Spec, ImplementsContract, Contract!Spec
=============================================================================
