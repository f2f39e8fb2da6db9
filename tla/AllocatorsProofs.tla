-------------------------- MODULE AllocatorsProofs --------------------------
(***************************************************************************)
(* Proofs about the allocators that serve from one memory (MCAllocators),  *)
(* for memories, headers, pages, alignments and layouts of every size.     *)
(*                                                                         *)
(* Fixed buffer: WithinBuffer and HeadersIntact are inductive together;    *)
(* the second says that the blocks form a stack, with each header below    *)
(* its block and above every block that is lower.  Mapped pages: no two    *)
(* blocks share a page (PageInv).  malloc: raw blocks lie apart, and the   *)
(* words in front of the blocks lead to one each (CInv).                   *)
(*                                                                         *)
(* WebAssembly memory: WInv says that there are stacks of slots f[k], one  *)
(* for each size, which the links in the memory spell out, and that blocks *)
(* with their headers, the slots of the stacks and the rests of the pages  *)
(* that are being cut have no word in common (WGood).  Addresses and sizes *)
(* are tied by powers of two: pages and slots are, so that slots fill a    *)
(* page and the cutting of it ends at its end.                             *)
(***************************************************************************)
EXTENDS MCAllocators, FiniteSetTheorems, NaturalsInduction, WellFoundedInduction, TLAPS

-----------------------------------------------------------------------------
(* The allocator over a fixed buffer                                       *)

IInv == WithinBuffer /\ HeadersIntact

-----------------------------------------------------------------------------
(* Layout arithmetic                                                       *)

\* CU_ALIGN_UP rounds up.
LEMMA AlignUpBounds ==
  ASSUME NEW x \in Nat, NEW a \in Nat \ {0}
  PROVE  AlignUp(x, a) \in Nat /\ x <= AlignUp(x, a) /\ AlignUp(x, a) <= x + a - 1
<1> DEFINE y == x + a - 1
<1>1. y \in Nat /\ y % a \in 0 .. a - 1
  OBVIOUS
<1>2. AlignUp(x, a) = y - (y % a)
  BY DEF AlignUp
<1>3. y = x + a - 1
  OBVIOUS
<1> HIDE DEF y
<1> QED
  BY <1>1, <1>2, <1>3

\* A new block starts at least a header above the mark.
LEMMA StartBounds ==
  ASSUME NEW u \in Nat, NEW align \in Nat
  PROVE  Start(u, align) \in Nat /\ u + HeaderSize <= Start(u, align)
<1>1. ReqAlign(align) \in Nat \ {0}
  BY HeaderAssumption DEF ReqAlign
<1>2. u + HeaderSize \in Nat
  BY HeaderAssumption
<1> QED
  BY <1>1, <1>2, AlignUpBounds DEF Start

-----------------------------------------------------------------------------
(* Steps of the operations                                                 *)

\* What the invariant says of a single block, and of the other ones.
LEMMA BlockFacts ==
  ASSUME IInv, NEW b \in live
  PROVE  /\ b.pos \in Nat /\ b.len \in Nat /\ b \in Block /\ used \in Nat
         /\ b.pos \in DOMAIN header /\ header[b.pos] \in Nat
         /\ header[b.pos] + HeaderSize <= b.pos
         /\ HeaderSize <= b.pos /\ b.pos + b.len <= used /\ used <= Length
         /\ \A d \in live \ {b} :
              d.pos + d.len <= header[b.pos] \/ b.pos < d.pos
  BY DEF IInv, WithinBuffer, TypeOK, HeadersIntact, Block, End

\* The blocks under the top one end below the mark its header restores.
LEMMA UnderTheTop ==
  ASSUME IInv, NEW b \in live, End(b) = used, NEW d \in live, d # b
  PROVE  d.pos < b.pos /\ d.pos + d.len <= header[b.pos]
<1>1. ~(b.pos < d.pos)
  BY BlockFacts, HeaderAssumption DEF End
<1> QED
  BY <1>1, BlockFacts, HeaderAssumption

\* A block put on top, perhaps in place of another one, keeps the invariant.
LEMMA PutOnTop ==
  ASSUME IInv, NEW size \in Nat, NEW align \in Nat, Fits(size, align),
         NEW gone \in SUBSET live,
         used' = Start(used, align) + size,
         live' = (live \ gone) \cup {NewBlock(size, align)},
         header' \in {NewHeader(size, align)} \cup
                     {Forget(NewHeader(size, align), b) : b \in gone}
  PROVE  IInv'
<1> DEFINE n == NewBlock(size, align)
<1>1. used \in Nat
  BY DEF IInv, WithinBuffer, TypeOK
<1>2. Start(used, align) \in Nat /\ used + HeaderSize <= Start(used, align)
  BY <1>1, StartBounds
<1>3. n = [pos |-> Start(used, align), len |-> size] /\ n \in Block
      /\ n.pos = Start(used, align) /\ n.len = size
      /\ live' = (live \ gone) \cup {n}
  BY <1>2 DEF NewBlock, Block
<1> HIDE DEF n
<1>4. /\ n.pos \in DOMAIN header' /\ header'[n.pos] = used
      /\ \A s \in DOMAIN header' \ {n.pos} : s \in DOMAIN header /\ header'[s] = header[s]
      /\ \A d \in live \ gone : d.pos \in DOMAIN header' /\ header'[d.pos] = header[d.pos]
  <2> DEFINE hs == Overwrite(header, n.pos - HeaderSize, n.pos + size)
             hd == NewHeader(size, align)
  <2>1. hd = [s \in DOMAIN hs \cup {n.pos} |-> IF s = n.pos THEN used ELSE hs[s]]
    BY <1>3 DEF NewHeader
  <2>2. \A s \in DOMAIN hs : s \in DOMAIN header /\ hs[s] = header[s]
    BY DEF Overwrite
  <2>3. ASSUME NEW d \in live
        PROVE  d.pos \in DOMAIN hs /\ d.pos # n.pos
    BY <1>2, <1>3, BlockFacts, HeaderAssumption DEF Overwrite
  <2> HIDE DEF hs
  <2>4. /\ n.pos \in DOMAIN hd /\ hd[n.pos] = used
        /\ \A s \in DOMAIN hd \ {n.pos} : s \in DOMAIN header /\ hd[s] = header[s]
        /\ \A d \in live : d.pos \in DOMAIN hd /\ hd[d.pos] = header[d.pos]
    BY <2>1, <2>2, <2>3
  <2> HIDE DEF hd
  <2>5. CASE header' = hd
    BY <2>4, <2>5
  <2>6. ASSUME NEW b \in gone, header' = Forget(hd, b)
        PROVE  <1>4
    <3>1. \A d \in live \ gone : d.pos # b.pos
      BY BlockFacts, HeaderAssumption
    <3>2. b.pos # n.pos
      BY <2>3
    <3> QED
      BY <2>4, <2>6, <3>1, <3>2 DEF Forget
  <2> QED
    BY <2>5, <2>6 DEF hd
<1>5. n.pos + size <= Length /\ used' = n.pos + size
  BY <1>3 DEF Fits
<1>6. TypeOK'
  BY <1>1, <1>2, <1>3, <1>4, <1>5 DEF IInv, WithinBuffer, TypeOK
<1>7. WithinBuffer'
  <2>1. ASSUME NEW d \in live'
        PROVE  HeaderSize <= d.pos /\ d.pos + d.len <= used'
    BY <1>1, <1>2, <1>3, <1>5, BlockFacts, HeaderAssumption
  <2> QED
    BY <1>5, <1>6, <2>1 DEF WithinBuffer, End
<1>8. HeadersIntact'
  <2>1. ASSUME NEW b \in live', NEW d \in live', d # b
        PROVE  d.pos + d.len <= header'[b.pos] \/ b.pos < d.pos
    <3>1. CASE b = n
      <4>1. d \in live
        BY <1>3, <2>1, <3>1
      <4>2. d.pos + d.len <= used
        BY <4>1, BlockFacts
      <4> QED
        BY <1>4, <3>1, <4>2
    <3>2. CASE b # n /\ d = n
      BY <1>1, <1>2, <1>3, <2>1, <3>2, BlockFacts, HeaderAssumption
    <3>3. CASE b # n /\ d # n
      <4>1. b \in live \ gone /\ d \in live
        BY <1>3, <3>3
      <4>2. d.pos + d.len <= header[b.pos] \/ b.pos < d.pos
        BY <2>1, <4>1, BlockFacts
      <4> QED
        BY <1>4, <4>1, <4>2
    <3> QED
      BY <3>1, <3>2, <3>3
  <2>2. ASSUME NEW b \in live'
        PROVE  b.pos \in DOMAIN header' /\ header'[b.pos] + HeaderSize <= b.pos
    BY <1>2, <1>3, <1>4, BlockFacts
  <2> QED
    BY <2>1, <2>2 DEF HeadersIntact, End
<1> QED
  BY <1>7, <1>8 DEF IInv

\* The top block may end anywhere in the buffer.
LEMMA ResizeTheTop ==
  ASSUME IInv, NEW b \in live, NEW size \in Nat, End(b) = used, b.pos + size <= Length,
         used' = b.pos + size,
         live' = (live \ {b}) \cup {[b EXCEPT !.len = size]},
         header' = header \/ header' = Overwrite(header, b.pos, b.pos + size)
  PROVE  IInv'
<1> DEFINE n == [b EXCEPT !.len = size]
<1>1. n \in Block /\ n.pos = b.pos /\ n.len = size
  BY BlockFacts DEF Block
<1> HIDE DEF n
<1>2. /\ \A s \in DOMAIN header' : s \in DOMAIN header /\ header'[s] = header[s]
      /\ \A d \in live : d.pos \in DOMAIN header'
  BY BlockFacts, UnderTheTop DEF Overwrite
<1>3. TypeOK'
  BY <1>1, <1>2, BlockFacts DEF IInv, WithinBuffer, TypeOK, n
<1>4. WithinBuffer'
  <2>1. ASSUME NEW d \in live'
        PROVE  HeaderSize <= d.pos /\ d.pos + d.len <= used'
    <3>1. CASE d = n
      BY <1>1, <3>1, BlockFacts
    <3>2. CASE d # n
      BY <3>2, BlockFacts, UnderTheTop, HeaderAssumption DEF n
    <3> QED
      BY <3>1, <3>2
  <2> QED
    BY <1>3, <2>1 DEF WithinBuffer, End
<1>5. HeadersIntact'
  <2>1. ASSUME NEW c \in live'
        PROVE  c.pos \in DOMAIN header' /\ header'[c.pos] = header[c.pos]
               /\ header'[c.pos] + HeaderSize <= c.pos
    BY <1>1, <1>2, BlockFacts DEF n
  <2>2. ASSUME NEW c \in live', NEW d \in live', d # c
        PROVE  d.pos + d.len <= header'[c.pos] \/ c.pos < d.pos
    <3>1. CASE c = n
      BY <1>1, <2>1, <2>2, <3>1, UnderTheTop DEF n
    <3>2. CASE c # n /\ d = n
      BY <1>1, <2>2, <3>2, UnderTheTop DEF n
    <3>3. CASE c # n /\ d # n
      BY <2>1, <2>2, <3>3, BlockFacts DEF n
    <3> QED
      BY <3>1, <3>2, <3>3
  <2> QED
    BY <2>1, <2>2 DEF HeadersIntact, End
<1> QED
  BY <1>4, <1>5 DEF IInv

\* A block is freed: the top one is popped, another one is only forgotten.
LEMMA FreeStep ==
  ASSUME IInv, NEW b \in live, Free(b)
  PROVE  IInv'
<1>1. live' = live \ {b} /\ header' = Forget(header, b)
  BY DEF Free
<1>2. \A d \in live' : d.pos \in DOMAIN header' /\ header'[d.pos] = header[d.pos]
  BY <1>1, BlockFacts, HeaderAssumption DEF Forget
<1>3. used' \in Nat /\ used' <= Length /\ \A d \in live' : d.pos + d.len <= used'
  <2>1. CASE End(b) = used
    <3>1. used' = header[b.pos] /\ header[b.pos] \in Nat
      BY <2>1, BlockFacts DEF Free
    <3>2. header[b.pos] <= Length
      BY BlockFacts, HeaderAssumption, LengthAssumption
    <3>3. \A d \in live' : d.pos + d.len <= header[b.pos]
      BY <1>1, <2>1, UnderTheTop
    <3> QED
      BY <3>1, <3>2, <3>3
  <2>2. CASE End(b) # used
    BY <1>1, <2>2, BlockFacts DEF Free
  <2> QED
    BY <2>1, <2>2
<1>4. TypeOK'
  BY <1>1, <1>3 DEF IInv, WithinBuffer, TypeOK, Forget
<1>5. WithinBuffer'
  BY <1>1, <1>3, <1>4, BlockFacts DEF WithinBuffer, End
<1>6. HeadersIntact'
  BY <1>1, <1>2, BlockFacts DEF HeadersIntact, End
<1> QED
  BY <1>5, <1>6 DEF IInv

\* A new block never ends where the block it replaces ended: the copy of a grown
\* block stays on top.
LEMMA MovedStaysOnTop ==
  ASSUME IInv, NEW b \in live, NEW size \in Nat \ {0}, NEW align \in Nat
  PROVE  AfterMove(b, Start(used, align) + size) = Start(used, align) + size
<1>1. Start(used, align) \in Nat /\ used + HeaderSize <= Start(used, align)
  BY BlockFacts, StartBounds
<1> QED
  BY <1>1, BlockFacts, HeaderAssumption DEF AfterMove, End

-----------------------------------------------------------------------------
(* The invariant is inductive                                              *)

LEMMA InitGood == Init => IInv
  BY LengthAssumption DEF Init, IInv, WithinBuffer, TypeOK, HeadersIntact

LEMMA NextGood == IInv /\ [Next]_vars => IInv'
<1> SUFFICES ASSUME IInv, [Next]_vars
             PROVE  IInv'
  OBVIOUS
<1> USE LayoutAssumption
<1>1. ASSUME NEW size \in Sizes, NEW align \in Aligns, Alloc(size, align)
      PROVE  IInv'
  <2>1. live' = (live \ {}) \cup {NewBlock(size, align)}
    BY <1>1 DEF Alloc
  <2> QED
    BY <1>1, <2>1, PutOnTop DEF Alloc
<1>2. CASE UNCHANGED vars
  BY <1>2 DEF vars, IInv, WithinBuffer, TypeOK, HeadersIntact, End
<1>3. ASSUME NEW b \in live, NEW size \in Sizes, GrowInPlace(b, size)
      PROVE  IInv'
  <2>1. End(b) = used /\ used' = b.pos + size /\ b.pos + size <= Length
    BY <1>3, BlockFacts, LengthAssumption DEF GrowInPlace, RoomInPlace, End
  <2> QED
    BY <1>3, <2>1, ResizeTheTop DEF GrowInPlace
<1>4. ASSUME NEW b \in live, NEW size \in Sizes, ShrinkInPlace(b, size)
      PROVE  IInv'
  <2>1. End(b) = used /\ used' = b.pos + size /\ b.pos + size <= Length
    BY <1>4, BlockFacts, LengthAssumption DEF ShrinkInPlace, End
  <2> QED
    BY <1>4, <2>1, ResizeTheTop DEF ShrinkInPlace
<1>5. ASSUME NEW b \in live, NEW size \in Sizes, NEW align \in Aligns,
             GrowByMove(b, size, align) \/ ShrinkByMove(b, size, align)
      PROVE  IInv'
  <2>1. /\ size # 0 /\ Fits(size, align) /\ used' = Start(used, align) + size
        /\ header' = Forget(NewHeader(size, align), b)
        /\ live' = (live \cup {NewBlock(size, align)}) \ {b}
    BY <1>5, MovedStaysOnTop DEF GrowByMove, ShrinkByMove
  <2>2. NewBlock(size, align) # b
    <3>1. used + HeaderSize <= Start(used, align) /\ Start(used, align) \in Nat
      BY BlockFacts, StartBounds
    <3> QED
      BY <3>1, BlockFacts, HeaderAssumption DEF NewBlock
  <2>3. live' = (live \ {b}) \cup {NewBlock(size, align)}
    BY <2>1, <2>2
  <2> QED
    BY <2>1, <2>3, PutOnTop
<1>6. ASSUME NEW b \in live, Free(b)
      PROVE  IInv'
  BY <1>6, FreeStep
<1>7. CASE Reset
  BY <1>7, LengthAssumption DEF Reset, IInv, WithinBuffer, TypeOK, HeadersIntact
<1> QED
  BY <1>1, <1>2, <1>3, <1>4, <1>5, <1>6, <1>7 DEF Next, AllocFails

\* No block reaches past the mark, nor the mark past the caller's buffer,
\* whichever way blocks are grown, moved, shrunk and popped.
THEOREM FixedWithinBuffer == Spec => []WithinBuffer
<1>1. IInv => WithinBuffer
  BY DEF IInv
<1> QED
  BY <1>1, InitGood, NextGood, PTL DEF Spec

\* The header of a live block is never written over by a client, and freeing the
\* block puts the mark back above every block that stays.
THEOREM FixedHeadersIntact == Spec => []HeadersIntact
<1>1. IInv => HeadersIntact
  BY DEF IInv
<1> QED
  BY <1>1, InitGood, NextGood, PTL DEF Spec

-----------------------------------------------------------------------------
(* The buffer implements the allocator contract                            *)

Img(b) == [region |-> 0, pos |-> b.pos, len |-> b.len]

\* What the contract sees of the buffer's blocks.
LEMMA BlocksIsImg ==
  Blocks = {Img(b) : b \in live} /\ Blocks' = {Img(b) : b \in live'}
  BY DEF Blocks, Img

\* The contract sees blocks.
LEMMA ImgType == ASSUME NEW b \in Block PROVE Img(b) \in Contract!Block
  BY DEF Block, Img, Contract!Block

\* Two live blocks are two blocks of the contract, and share no byte.
LEMMA ImgInjective ==
  ASSUME IInv, NEW b \in live, NEW d \in live, b # d
  PROVE  Img(b) # Img(d) /\ Contract!Disjoint(Img(b), Img(d))
<1>1. /\ b.pos \in Nat /\ d.pos \in Nat /\ b.len \in Nat /\ d.len \in Nat
      /\ header[b.pos] \in Nat /\ header[d.pos] \in Nat
      /\ header[b.pos] + HeaderSize <= b.pos /\ header[d.pos] + HeaderSize <= d.pos
      /\ d.pos + d.len <= header[b.pos] \/ b.pos < d.pos
      /\ b.pos + b.len <= header[d.pos] \/ d.pos < b.pos
  BY BlockFacts
<1>2. b.pos # d.pos /\ (b.pos + b.len <= d.pos \/ d.pos + d.len <= b.pos)
  BY <1>1, HeaderAssumption
<1> QED
  BY <1>2 DEF Img, Contract!Disjoint

\* A block above the mark is clear of all.
LEMMA AboveIsClear ==
  ASSUME IInv, NEW n \in Block, used < n.pos
  PROVE  Contract!ClearOf(Img(n), Blocks) /\ Img(n) \notin Blocks
<1>1. ASSUME NEW x \in Blocks
      PROVE  Contract!Disjoint(x, Img(n)) /\ x # Img(n)
  <2>1. PICK d \in live : x = Img(d)
    BY BlocksIsImg
  <2>2. d.pos + d.len <= n.pos /\ d.pos # n.pos
    BY BlockFacts DEF Block
  <2> QED
    BY <2>1, <2>2 DEF Img, Contract!Disjoint
<1> QED
  BY <1>1 DEF Contract!ClearOf

\* The top block resized where it is stays clear of the others, which are below.
LEMMA TopRefines ==
  ASSUME IInv, NEW b \in live, NEW size \in Nat, End(b) = used,
         live' = (live \ {b}) \cup {[b EXCEPT !.len = size]}
  PROVE  Contract!Resize
<1> DEFINE n == [b EXCEPT !.len = size]
<1>1. n \in Block /\ n.pos = b.pos /\ live' = (live \ {b}) \cup {n}
  BY BlockFacts DEF Block
<1> HIDE DEF n
<1>2. ASSUME NEW d \in live \ {b}
      PROVE  Contract!Disjoint(Img(d), Img(n)) /\ Img(d) # Img(b)
  <2>1. d.pos + d.len <= n.pos
    BY <1>1, BlockFacts, UnderTheTop, HeaderAssumption
  <2> QED
    BY <2>1, ImgInjective DEF Img, Contract!Disjoint
<1>3. Img(b) \in Blocks /\ Img(n) \in Blocks'
  BY <1>1, BlocksIsImg
<1>4. Blocks' = (Blocks \ {Img(b)}) \cup {Img(n)}
  BY <1>1, <1>2, BlocksIsImg
<1>5. Contract!SamePlace(Img(b), Img(n))
  BY <1>1 DEF Contract!SamePlace, Img
<1>6. Contract!ClearOf(Img(n), Blocks \ {Img(b)})
  <2>1. ASSUME NEW x \in Blocks \ {Img(b)}
        PROVE  Contract!Disjoint(x, Img(n))
    <3>1. PICK d \in live : x = Img(d) /\ d # b
      BY BlocksIsImg
    <3> QED
      BY <1>2, <3>1
  <2> QED
    BY <2>1 DEF Contract!ClearOf
<1> QED
  BY <1>1, <1>3, <1>4, <1>5, <1>6, ImgType DEF Contract!Resize

\* A new block is put above the mark.
LEMMA NewIsAbove ==
  ASSUME IInv, NEW size \in Nat, NEW align \in Nat
  PROVE  NewBlock(size, align) \in Block /\ used < NewBlock(size, align).pos
<1>1. used \in Nat
  BY DEF IInv, WithinBuffer, TypeOK
<1>2. Start(used, align) \in Nat /\ used + HeaderSize <= Start(used, align)
  BY <1>1, StartBounds
<1> QED
  BY <1>1, <1>2, HeaderAssumption DEF NewBlock, Block

\* Every step of the buffer is a step of the contract, or changes no block.
LEMMA StepRefines == IInv /\ [Next]_vars => [Contract!Next]_Blocks
<1> SUFFICES ASSUME IInv, [Next]_vars
             PROVE  [Contract!Next]_Blocks
  OBVIOUS
<1> USE LayoutAssumption
<1>1. ASSUME NEW size \in Sizes, NEW align \in Aligns, Alloc(size, align)
      PROVE  Contract!Next
  <2> DEFINE n == NewBlock(size, align)
  <2>1. Contract!ClearOf(Img(n), Blocks) /\ Img(n) \notin Blocks /\ n \in Block
    BY NewIsAbove, AboveIsClear
  <2>2. Blocks' = Blocks \cup {Img(n)}
    BY <1>1, BlocksIsImg DEF Alloc
  <2> HIDE DEF n
  <2>3. Contract!Obtain
    BY <2>1, <2>2, ImgType DEF Contract!Obtain
  <2> QED
    BY <2>3 DEF Contract!Next
<1>2. CASE UNCHANGED vars
  BY <1>2 DEF vars, Blocks
<1>3. ASSUME NEW b \in live, NEW size \in Sizes,
             GrowInPlace(b, size) \/ ShrinkInPlace(b, size)
      PROVE  Contract!Next
  BY <1>3, TopRefines DEF GrowInPlace, RoomInPlace, ShrinkInPlace, Contract!Next
<1>4. ASSUME NEW b \in live, NEW size \in Sizes, NEW align \in Aligns,
             GrowByMove(b, size, align) \/ ShrinkByMove(b, size, align)
      PROVE  Contract!Next
  <2> DEFINE n == NewBlock(size, align)
  <2>1. Contract!ClearOf(Img(n), Blocks) /\ n \in Block /\ used < n.pos
    BY NewIsAbove, AboveIsClear
  <2>2. live' = (live \cup {n}) \ {b}
    BY <1>4 DEF GrowByMove, ShrinkByMove
  <2> HIDE DEF n
  <2>3. n # b
    BY <2>1, BlockFacts
  <2>4. Img(b) \in Blocks /\ Img(n) \in Blocks'
    BY <2>2, <2>3, BlocksIsImg
  <2>5. \A d \in live \ {b} : Img(d) # Img(b)
    BY ImgInjective
  <2>6. Blocks' = (Blocks \ {Img(b)}) \cup {Img(n)}
    BY <2>2, <2>3, <2>5, BlocksIsImg
  <2>7. Contract!ClearOf(Img(n), Blocks \ {Img(b)})
    BY <2>1 DEF Contract!ClearOf
  <2> QED
    BY <2>1, <2>4, <2>6, <2>7, ImgType DEF Contract!Resize, Contract!Next
<1>5. ASSUME NEW b \in live, Free(b)
      PROVE  Contract!Next
  <2>1. live' \subseteq live
    BY <1>5 DEF Free
  <2> QED
    BY <2>1, BlocksIsImg DEF Contract!Release, Contract!Next
<1>6. CASE Reset
  <2>1. live' \subseteq live
    BY <1>6 DEF Reset
  <2> QED
    BY <2>1, BlocksIsImg DEF Contract!Release, Contract!Next
<1> QED
  BY <1>1, <1>2, <1>3, <1>4, <1>5, <1>6 DEF Next, AllocFails

\* Seen through the blocks its clients hold, the buffer is an allocator: blocks
\* are obtained and resized over bytes nobody else holds.
THEOREM FixedImplementsContract == Spec => ImplementsContract
<1>1. Init => Contract!Init
  BY DEF Init, Contract!Init, Blocks
<1> QED
  BY <1>1, StepRefines, InitGood, NextGood, PTL
     DEF Spec, ImplementsContract, Contract!Spec

-----------------------------------------------------------------------------
(* The allocator over mmap                                                 *)

LEMMA PageConstants ==
  /\ PageSize \in Nat /\ PageSize > 0 /\ MaxPages \in Nat
  /\ \A s \in PageSizes : s \in Nat
BY InstancesOK DEF Page!ConstantsOK

\* The first byte of a page.
PageAt(i) == i * PageSize

LEMMA PageOrder ==
  ASSUME NEW i \in Nat, NEW j \in Nat, i <= j
  PROVE  PageAt(i) \in Nat /\ PageAt(j) \in Nat /\ PageAt(i) <= PageAt(j)
<1>1. PICK n \in Nat : j = i + n
  <2>1. j - i \in Nat /\ j = i + (j - i)
    OBVIOUS
  <2> QED
    BY <2>1
<1>2. /\ j * PageSize = i * PageSize + n * PageSize
      /\ n * PageSize \in Nat /\ i * PageSize \in Nat
  BY <1>1, PageConstants
<1> QED
  BY <1>2 DEF PageAt

LEMMA PageType == \A i \in Nat : PageAt(i) \in Nat
BY PageOrder

LEMMA PageSum ==
  ASSUME NEW i \in Nat, NEW n \in Nat
  PROVE  PageAt(i + n) = PageAt(i) + PageAt(n)
BY PageConstants DEF PageAt

\* A size is rounded up to pages.
LEMMA PagesOfBounds ==
  ASSUME NEW size \in Nat
  PROVE  /\ Page!PagesOf(size) \in Nat
         /\ size <= PageAt(Page!PagesOf(size))
         /\ PageAt(Page!PagesOf(size)) < size + PageSize
<1> DEFINE q == Page!PagesOf(size)
<1>1. q = (size + PageSize - 1) \div PageSize
  BY DEF Page!PagesOf
<1>2. size + PageSize - 1 \in Nat
  BY PageConstants
<1>3. /\ q \in Nat
      /\ q * PageSize <= size + PageSize - 1
      /\ size + PageSize - 1 < q * PageSize + PageSize
  BY <1>1, <1>2, PageConstants
<1> HIDE DEF q
<1>4. PageAt(q) <= size + PageSize - 1 /\ size + PageSize - 1 < PageAt(q) + PageSize
  BY <1>3 DEF PageAt
<1>5. PageAt(q) \in Nat
  BY <1>3, PageOrder
<1> QED
  BY <1>3, <1>4, <1>5, PageConstants DEF q

\* Whether a client hands back the length it asked for or the one it got, the same
\* pages are covered.
LEMMA LengthsCoverAlike ==
  ASSUME NEW size \in Nat, size # 0, NEW n \in Page!Lengths(size)
  PROVE  /\ n \in Nat /\ n # 0 /\ Page!PagesOf(n) = Page!PagesOf(size)
         /\ Page!PagesOf(size) > 0
<1> DEFINE k == Page!PagesOf(size)
<1>1. k \in Nat /\ size <= PageAt(k) /\ PageAt(k) < size + PageSize
  BY PagesOfBounds
<1>2. k > 0
  <2>1. PageAt(0) = 0
    BY PageConstants DEF PageAt
  <2> QED
    BY <1>1, <2>1
<1>3. CASE n = size
  BY <1>1, <1>2, <1>3
<1>4. CASE n = PageAt(k)
  <2> DEFINE m == Page!PagesOf(n)
  <2>1. n \in Nat /\ n # 0
    BY <1>1, <1>4, PageOrder, PageConstants
  <2>2. m \in Nat /\ n <= PageAt(m) /\ PageAt(m) < n + PageSize
    BY <2>1, PagesOfBounds
  <2>3. PageAt(m) \in Nat /\ PageAt(k) \in Nat
    BY <1>1, <2>2, PageOrder
  <2>4. ~(m < k)
    <3>1. ASSUME m < k PROVE FALSE
      <4>1. k - m \in Nat /\ k - m >= 1 /\ k = m + (k - m)
        BY <1>1, <2>2, <3>1
      <4>2. PageAt(k) = PageAt(m) + PageAt(k - m)
        BY <2>2, <4>1, PageSum
      <4>3. PageAt(1) <= PageAt(k - m) /\ PageAt(k - m) \in Nat /\ PageAt(1) = PageSize
        BY <4>1, PageOrder, PageConstants DEF PageAt
      <4> QED
        BY <1>4, <2>2, <2>3, <4>2, <4>3, PageConstants
    <3> QED
      BY <3>1
  <2>5. ~(m > k)
    <3>1. ASSUME m > k PROVE FALSE
      <4>1. m - k \in Nat /\ m - k >= 1 /\ m = k + (m - k)
        BY <1>1, <2>2, <3>1
      <4>2. PageAt(m) = PageAt(k) + PageAt(m - k)
        BY <1>1, <4>1, PageSum
      <4>3. PageAt(1) <= PageAt(m - k) /\ PageAt(m - k) \in Nat /\ PageAt(1) = PageSize
        BY <4>1, PageOrder, PageConstants DEF PageAt
      <4> QED
        BY <1>4, <2>2, <2>3, <4>2, <4>3, PageConstants
    <3> QED
      BY <3>1
  <2>6. m = k
    BY <1>1, <2>2, <2>4, <2>5
  <2> QED
    BY <1>2, <2>1, <2>6
<1>5. PageSize * k = PageAt(k)
  <2> HIDE DEF k
  <2> QED
    BY <1>1, PageConstants DEF PageAt
<1> QED
  BY <1>3, <1>4, <1>5 DEF Page!Lengths

PagesOfBlock(b) == Page!Covered(b.page, b.len)

\* Each mapped page is one block's, whichever length the client knows.
PageInv ==
  /\ pageLive \subseteq Page!Block
  /\ \A b \in pageLive : b.len # 0
  /\ \A b, c \in pageLive : b # c => PagesOfBlock(b) \cap PagesOfBlock(c) = {}
  /\ mapped = UNION {PagesOfBlock(b) : b \in pageLive}

LEMMA BlockHasPages ==
  ASSUME NEW b \in Page!Block, b.len # 0
  PROVE  /\ b.page \in PagesOfBlock(b)
         /\ Page!PagesOf(b.len) \in Nat
         /\ PagesOfBlock(b) = b.page .. b.page + Page!PagesOf(b.len) - 1
<1>1. b.len \in Nat /\ b.page \in Nat /\ b.len \in Page!Lengths(b.len)
  BY DEF Page!Block, Page!Lengths
<1>2. Page!PagesOf(b.len) \in Nat /\ Page!PagesOf(b.len) > 0
  BY <1>1, LengthsCoverAlike, PagesOfBounds
<1> QED
  BY <1>1, <1>2 DEF PagesOfBlock, Page!Covered

\* A new mapping holds a block that shares no page with the others.
LEMMA MappingIsNew ==
  ASSUME PageInv, NEW size \in PageSizes, size # 0, NEW p \in Page!Room(size),
         NEW n \in Page!Lengths(size)
  PROVE  LET new == [page |-> p, len |-> n] IN
         /\ new \in Page!Block /\ new.len # 0
         /\ PagesOfBlock(new) = Page!Covered(p, size)
         /\ \A b \in pageLive : PagesOfBlock(b) \cap PagesOfBlock(new) = {}
         /\ new \notin pageLive
<1> DEFINE new == [page |-> p, len |-> n]
<1>1. /\ size \in Nat /\ n \in Nat /\ n # 0
      /\ Page!PagesOf(n) = Page!PagesOf(size)
  BY PageConstants, LengthsCoverAlike
<1>2. p \in Nat /\ Page!Covered(p, size) \cap mapped = {}
  BY DEF Page!Room
<1>3. new \in Page!Block /\ new.len # 0 /\ new.page = p /\ new.len = n
  BY <1>1, <1>2 DEF Page!Block
<1> HIDE DEF new
<1>4. PagesOfBlock(new) = Page!Covered(p, size)
  BY <1>1, <1>3 DEF PagesOfBlock, Page!Covered
<1>5. \A b \in pageLive : PagesOfBlock(b) \cap PagesOfBlock(new) = {}
  BY <1>2, <1>4 DEF PageInv
<1>6. new \notin pageLive
  BY <1>3, <1>5, BlockHasPages
<1> QED
  BY <1>3, <1>4, <1>5, <1>6 DEF new

LEMMA PageInvInit == Page!Init => PageInv
BY DEF Page!Init, PageInv

LEMMA PageInvNext == PageInv /\ [Page!Next]_pageVars => PageInv'
<1> SUFFICES ASSUME PageInv, [Page!Next]_pageVars PROVE PageInv'
  OBVIOUS
<1>1. CASE UNCHANGED pageVars
  BY <1>1 DEF PageInv, pageVars, PagesOfBlock, Page!Covered, Page!PagesOf
<1>2. ASSUME NEW size \in PageSizes, Page!Alloc(size)
      PROVE  PageInv'
  <2>1. PICK p \in Page!Room(size), n \in Page!Lengths(size) :
          /\ mapped' = mapped \cup Page!Covered(p, size)
          /\ pageLive' = pageLive \cup {[page |-> p, len |-> n]}
    BY <1>2 DEF Page!Alloc
  <2> DEFINE new == [page |-> p, len |-> n]
  <2>2. /\ new \in Page!Block /\ new.len # 0
        /\ PagesOfBlock(new) = Page!Covered(p, size)
        /\ \A b \in pageLive : PagesOfBlock(b) \cap PagesOfBlock(new) = {}
    BY <1>2, MappingIsNew DEF Page!Alloc
  <2>3. pageLive' = pageLive \cup {new}
    BY <2>1
  <2> HIDE DEF new
  <2> QED
    BY <2>1, <2>2, <2>3 DEF PageInv
<1>3. CASE Page!Fails
  BY <1>1, <1>3 DEF Page!Fails, Page!vars, pageVars
<1>4. ASSUME NEW b \in pageLive, NEW size \in PageSizes, Page!Resize(b, size)
      PROVE  PageInv'
  <2>1. PICK p \in Page!Room(size), n \in Page!Lengths(size) :
          /\ mapped' = (mapped \cup Page!Covered(p, size)) \ Page!Unmapped(b)
          /\ pageLive' = (pageLive \cup {[page |-> p, len |-> n]}) \ {b}
    BY <1>4 DEF Page!Resize
  <2> DEFINE new == [page |-> p, len |-> n]
  <2>2. /\ new \in Page!Block /\ new.len # 0
        /\ PagesOfBlock(new) = Page!Covered(p, size)
        /\ \A c \in pageLive : PagesOfBlock(c) \cap PagesOfBlock(new) = {}
        /\ new \notin pageLive
    BY <1>4, MappingIsNew DEF Page!Resize
  <2>3. pageLive' = (pageLive \cup {new}) \ {b}
    BY <2>1
  <2>4. Page!Unmapped(b) = PagesOfBlock(b)
    BY DEF Page!Unmapped, PagesOfBlock
  <2> HIDE DEF new
  <2> QED
    BY <2>1, <2>2, <2>3, <2>4 DEF PageInv
<1>5. ASSUME NEW b \in pageLive, Page!Free(b)
      PROVE  PageInv'
  <2>1. Page!Unmapped(b) = PagesOfBlock(b)
    BY DEF Page!Unmapped, PagesOfBlock
  <2> QED
    BY <1>5, <2>1 DEF PageInv, Page!Free
<1> QED
  BY <1>1, <1>2, <1>3, <1>4, <1>5 DEF Page!Next

\* In a run of all of them each step is one of the pages or leaves them alone.
LEMMA PageStep ==
  [MCNext]_<<active, vars, wasmVars, cVars, pageVars>> => [Page!Next]_pageVars
BY DEF MCNext, pageVars

LEMMA PageInvAlways == MCSpec => []PageInv
<1>1. MCInit => PageInv
  BY PageInvInit DEF MCInit
<1> QED
  BY <1>1, PageStep, PageInvNext, PTL DEF MCSpec

-----------------------------------------------------------------------------
(* Mappings seen through the contract                                      *)

PageImg(b) == [region |-> 0, pos |-> b.page * PageSize, len |-> b.len]

LEMMA PageImgFacts ==
  ASSUME NEW b \in Page!Block
  PROVE  /\ PageImg(b) \in Page!Contract!Block
         /\ PageImg(b).region = 0 /\ PageImg(b).len = b.len
         /\ PageImg(b).pos = PageAt(b.page) /\ PageAt(b.page) \in Nat
BY PageConstants DEF PageImg, PageAt, Page!Block, Page!Contract!Block

\* Blocks on pages of their own share no byte.
LEMMA PagesApart ==
  ASSUME NEW b \in Page!Block, NEW c \in Page!Block, b.len # 0, c.len # 0,
         PagesOfBlock(b) \cap PagesOfBlock(c) = {}
  PROVE  Page!Contract!Disjoint(PageImg(b), PageImg(c)) /\ PageImg(b) # PageImg(c)
<1>1. /\ b.page \in Nat /\ c.page \in Nat /\ b.len \in Nat /\ c.len \in Nat
      /\ b.len > 0 /\ c.len > 0
  BY DEF Page!Block
<1> DEFINE m == Page!PagesOf(b.len)
           n == Page!PagesOf(c.len)
<1>2. /\ m \in Nat /\ n \in Nat
      /\ b.page \in PagesOfBlock(b) /\ c.page \in PagesOfBlock(c)
      /\ PagesOfBlock(b) = b.page .. b.page + m - 1
      /\ PagesOfBlock(c) = c.page .. c.page + n - 1
  BY BlockHasPages
<1>3. b.len <= PageAt(m) /\ c.len <= PageAt(n)
  BY <1>1, PagesOfBounds
<1> HIDE DEF m, n
<1>4. b.page + m <= c.page \/ c.page + n <= b.page
  BY <1>1, <1>2
<1>5. /\ PageAt(b.page + m) = PageAt(b.page) + PageAt(m)
      /\ PageAt(c.page + n) = PageAt(c.page) + PageAt(n)
      /\ PageAt(b.page) \in Nat /\ PageAt(c.page) \in Nat
      /\ PageAt(m) \in Nat /\ PageAt(n) \in Nat
  BY <1>1, <1>2, PageSum, PageType
<1>6. /\ b.page + m <= c.page => PageAt(b.page + m) <= PageAt(c.page)
      /\ c.page + n <= b.page => PageAt(c.page + n) <= PageAt(b.page)
  <2>1. b.page + m \in Nat /\ c.page + n \in Nat
    BY <1>1, <1>2
  <2> QED
    BY <1>1, <2>1, PageOrder
<1>7. \/ PageAt(b.page) + b.len <= PageAt(c.page)
      \/ PageAt(c.page) + c.len <= PageAt(b.page)
  BY <1>1, <1>3, <1>4, <1>5, <1>6
<1> QED
  BY <1>1, <1>5, <1>7, PageImgFacts DEF Page!Contract!Disjoint

LEMMA PageBlocksIs == Page!Blocks = {PageImg(b) : b \in pageLive}
BY DEF Page!Blocks, PageImg

LEMMA PageStepRefines ==
  PageInv /\ [Page!Next]_pageVars => [Page!Contract!Next]_(Page!Blocks)
<1> SUFFICES ASSUME PageInv, [Page!Next]_pageVars
             PROVE  [Page!Contract!Next]_(Page!Blocks)
  OBVIOUS
<1>1. Page!Blocks' = {PageImg(b) : b \in pageLive'}
  BY DEF Page!Blocks, PageImg
<1>2. CASE UNCHANGED pageVars
  BY <1>2 DEF pageVars, Page!Blocks
<1>3. ASSUME NEW size \in PageSizes, size # 0, NEW p \in Page!Room(size),
             NEW n \in Page!Lengths(size)
      PROVE  LET new == [page |-> p, len |-> n] IN
             /\ new \notin pageLive
             /\ PageImg(new) \in Page!Contract!Block
             /\ PageImg(new) \notin Page!Blocks
             /\ Page!Contract!ClearOf(PageImg(new), Page!Blocks)
  <2> DEFINE new == [page |-> p, len |-> n]
  <2>1. /\ new \in Page!Block /\ new.len # 0 /\ new \notin pageLive
        /\ \A b \in pageLive : PagesOfBlock(b) \cap PagesOfBlock(new) = {}
    BY <1>3, MappingIsNew
  <2> HIDE DEF new
  <2>2. \A b \in pageLive :
           Page!Contract!Disjoint(PageImg(b), PageImg(new)) /\ PageImg(b) # PageImg(new)
    BY <2>1, PagesApart DEF PageInv
  <2>3. PageImg(new) \in Page!Contract!Block
    BY <2>1, PageImgFacts
  <2> QED
    BY <2>1, <2>2, <2>3, PageBlocksIs DEF Page!Contract!ClearOf, new
<1>4. ASSUME NEW size \in PageSizes, Page!Alloc(size)
      PROVE  Page!Contract!Next
  <2>1. PICK p \in Page!Room(size), n \in Page!Lengths(size) :
          pageLive' = pageLive \cup {[page |-> p, len |-> n]}
    BY <1>4 DEF Page!Alloc
  <2> DEFINE new == [page |-> p, len |-> n]
  <2>2. /\ PageImg(new) \in Page!Contract!Block
        /\ PageImg(new) \notin Page!Blocks
        /\ Page!Contract!ClearOf(PageImg(new), Page!Blocks)
    BY <1>3, <1>4 DEF Page!Alloc
  <2>3. pageLive' = pageLive \cup {new}
    BY <2>1
  <2> HIDE DEF new
  <2>4. Page!Blocks' = Page!Blocks \cup {PageImg(new)}
    BY <1>1, <2>3, PageBlocksIs
  <2>5. Page!Contract!Obtain
    BY <2>2, <2>4 DEF Page!Contract!Obtain
  <2> QED
    BY <2>5 DEF Page!Contract!Next
<1>5. CASE Page!Fails
  BY <1>2, <1>5 DEF Page!Fails, Page!vars, pageVars
<1>6. ASSUME NEW b \in pageLive, NEW size \in PageSizes, Page!Resize(b, size)
      PROVE  Page!Contract!Next
  <2>1. PICK p \in Page!Room(size), n \in Page!Lengths(size) :
          pageLive' = (pageLive \cup {[page |-> p, len |-> n]}) \ {b}
    BY <1>6 DEF Page!Resize
  <2> DEFINE new == [page |-> p, len |-> n]
  <2>2. /\ new \notin pageLive
        /\ PageImg(new) \in Page!Contract!Block
        /\ Page!Contract!ClearOf(PageImg(new), Page!Blocks)
    BY <1>3, <1>6 DEF Page!Resize
  <2>3. pageLive' = (pageLive \ {b}) \cup {new}
    BY <2>1, <2>2
  <2> HIDE DEF new
  <2>4. \A c \in pageLive : c # b => PageImg(c) # PageImg(b)
    BY PagesApart DEF PageInv
  <2>5. Page!Blocks' = (Page!Blocks \ {PageImg(b)}) \cup {PageImg(new)}
    BY <1>1, <2>3, <2>4, PageBlocksIs
  <2>6. PageImg(b) \in Page!Blocks /\ PageImg(new) \in Page!Blocks'
    BY <2>5, PageBlocksIs
  <2>7. Page!Contract!ClearOf(PageImg(new), Page!Blocks \ {PageImg(b)})
    BY <2>2 DEF Page!Contract!ClearOf
  <2>8. Page!Contract!Resize
    BY <2>2, <2>5, <2>6, <2>7 DEF Page!Contract!Resize
  <2> QED
    BY <2>8 DEF Page!Contract!Next
<1>7. ASSUME NEW b \in pageLive, Page!Free(b)
      PROVE  Page!Contract!Next
  <2>1. pageLive' \subseteq pageLive
    BY <1>7 DEF Page!Free
  <2>2. Page!Blocks' \subseteq Page!Blocks
    BY <1>1, <2>1, PageBlocksIs
  <2> QED
    BY <2>2 DEF Page!Contract!Release, Page!Contract!Next
<1> QED
  BY <1>2, <1>4, <1>5, <1>6, <1>7 DEF Page!Next

\* The system's pages are an allocator, for any page size and number of pages.
LEMMA PageImplementsContract == MCSpec => Page!ImplementsContract
<1>1. MCInit => Page!Contract!Init
  BY DEF MCInit, Page!Init, Page!Contract!Init, Page!Blocks
<1> QED
  BY <1>1, PageStep, PageStepRefines, PageInvAlways, PTL
     DEF MCSpec, Page!ImplementsContract, Page!Contract!Spec

-----------------------------------------------------------------------------
(* The allocator over malloc                                               *)

LEMMA CConstants ==
  /\ WordSize \in Nat /\ WordSize > 0 /\ RawAlign \in Nat /\ RawAlign > 0 /\ MemSize \in Nat
  /\ \A s \in CSizes : s \in Nat
  /\ \A a \in CAligns : a \in Nat
BY InstancesOK DEF C!ConstantsOK

LEMMA CAlignUpBounds ==
  ASSUME NEW x \in Nat, NEW a \in Nat, a > 0
  PROVE  C!AlignUp(x, a) \in Nat /\ x <= C!AlignUp(x, a) /\ C!AlignUp(x, a) <= x + a - 1
BY AlignUpBounds DEF AlignUp, C!AlignUp

\* The block aligned in a raw block, and the word in front of it, lie inside.
LEMMA AlignedInRaw ==
  ASSUME NEW size \in CSizes, NEW align \in CAligns, NEW r \in Nat
  PROVE  /\ C!Aligned(r, align) \in Nat /\ C!Total(size, align) \in Nat
         /\ r + WordSize <= C!Aligned(r, align)
         /\ C!Aligned(r, align) + size <= r + C!Total(size, align)
<1>1. C!Alignment(align) \in Nat /\ C!Alignment(align) > 0
  BY CConstants DEF C!Alignment
<1>2. r + WordSize \in Nat /\ size \in Nat
  BY CConstants
<1> DEFINE a == C!Alignment(align)
<1>3. /\ C!Aligned(r, align) = C!AlignUp(r + WordSize, a)
      /\ C!Total(size, align) = size + a - 1 + WordSize
  BY DEF C!Aligned, C!Total
<1> HIDE DEF a
<1>4. /\ C!AlignUp(r + WordSize, a) \in Nat
      /\ r + WordSize <= C!AlignUp(r + WordSize, a)
      /\ C!AlignUp(r + WordSize, a) <= r + WordSize + a - 1
  BY <1>1, <1>2, CAlignUpBounds DEF a
<1>5. a \in Nat /\ a > 0
  BY <1>1 DEF a
<1> QED
  BY <1>2, <1>3, <1>4, <1>5, CConstants

\* The raw blocks R lie apart.
RawsApart(R) ==
  /\ \A r \in DOMAIN R : r \in Nat /\ R[r] \in Nat
  /\ \A q, r \in DOMAIN R : q # r => C!Apart(q, R[q], r, R[r])

\* The block b has its own raw block in R, named by the word in front of it.
InRaw(R, S, b) ==
  /\ b \in C!Block
  /\ b.pos \in DOMAIN S /\ S[b.pos] \in DOMAIN R
  /\ S[b.pos] + WordSize <= b.pos
  /\ b.pos + b.len <= S[b.pos] + R[S[b.pos]]

\* What is known of raw blocks R, words S and blocks L, before and after each call.
CGood(R, S, L) ==
  /\ RawsApart(R)
  /\ \A b \in L : InRaw(R, S, b)
  /\ \A b, c \in L : S[b.pos] = S[c.pos] => b = c
  /\ DOMAIN R = {S[b.pos] : b \in L}

CInv == CGood(raws, stored, cLive)

\* Blocks are known by where they are.
LEMMA OneAtAPlace ==
  ASSUME NEW R, NEW S, NEW L, CGood(R, S, L), NEW b \in L, NEW c \in L, b.pos = c.pos
  PROVE  b = c
BY DEF CGood

\* The words of other blocks survive when one is stored in a raw block and the
\* block behind it is filled.
LEMMA StoreKeeps ==
  ASSUME NEW S, NEW pos \in Nat, NEW n \in Nat, NEW r,
         NEW p \in DOMAIN S, C!Apart(p - WordSize, WordSize, pos - WordSize, n + WordSize)
  PROVE  p \in DOMAIN C!Store(S, pos, n, r) /\ (p # pos => C!Store(S, pos, n, r)[p] = S[p])
<1> DEFINE o == C!Overwritten(S, pos - WordSize, pos + n)
<1>1. (pos + n) - (pos - WordSize) = n + WordSize
  BY CConstants
<1>2. p \in DOMAIN o /\ o[p] = S[p]
  BY <1>1 DEF C!Overwritten
<1>3. C!Store(S, pos, n, r) = [x \in DOMAIN o \cup {pos} |-> IF x = pos THEN r ELSE o[x]]
  BY DEF C!Store
<1> HIDE DEF o
<1> QED
  BY <1>2, <1>3

LEMMA StoreAt ==
  ASSUME NEW S, NEW pos, NEW n, NEW r
  PROVE  pos \in DOMAIN C!Store(S, pos, n, r) /\ C!Store(S, pos, n, r)[pos] = r
BY DEF C!Store

\* Raw blocks that are left, and the one added where there is room.
LEMMA WithRaw ==
  ASSUME NEW R, RawsApart(R), NEW r \in Nat, NEW n \in Nat,
         \A q \in DOMAIN R : C!Apart(r, n, q, R[q])
  PROVE  /\ RawsApart(C!With(R, r, n))
         /\ DOMAIN C!With(R, r, n) = DOMAIN R \cup {r}
         /\ C!With(R, r, n)[r] = n
         /\ \A q \in DOMAIN R \ {r} : C!With(R, r, n)[q] = R[q]
<1>1. C!With(R, r, n) = [y \in DOMAIN R \cup {r} |-> IF y = r THEN n ELSE R[y]]
  BY DEF C!With
<1>2. \A q \in DOMAIN R \ {r} : C!With(R, r, n)[q] = R[q]
  BY <1>1
<1>3. DOMAIN C!With(R, r, n) = DOMAIN R \cup {r} /\ C!With(R, r, n)[r] = n
  BY <1>1
<1> HIDE <1>1
<1>4. RawsApart(C!With(R, r, n))
  BY <1>2, <1>3 DEF RawsApart, C!Apart
<1> QED
  BY <1>2, <1>3, <1>4

\* Without a block and its raw block what is known still holds.
LEMMA ReleaseGood ==
  ASSUME NEW R, NEW S, NEW L, CGood(R, S, L), NEW b \in L
  PROVE  CGood(C!Without(R, S[b.pos]), C!Without(S, b.pos), L \ {b})
<1> DEFINE R2 == C!Without(R, S[b.pos])
           S2 == C!Without(S, b.pos)
<1>1. /\ DOMAIN R2 = DOMAIN R \ {S[b.pos]} /\ \A q \in DOMAIN R2 : R2[q] = R[q]
      /\ DOMAIN S2 = DOMAIN S \ {b.pos} /\ \A p \in DOMAIN S2 : S2[p] = S[p]
  BY DEF C!Without
<1> HIDE DEF R2, S2
<1>2. \A c \in L \ {b} : c.pos # b.pos /\ S[c.pos] # S[b.pos]
  BY DEF CGood
<1>3. RawsApart(R2)
  BY <1>1 DEF CGood, RawsApart
<1>4. \A c \in L \ {b} : InRaw(R2, S2, c) /\ S2[c.pos] = S[c.pos]
  BY <1>1, <1>2 DEF CGood, InRaw
<1>5. DOMAIN R2 = {S2[c.pos] : c \in L \ {b}}
  <2>1. DOMAIN R = {S[c.pos] : c \in L}
    BY DEF CGood
  <2> QED
    BY <1>1, <1>2, <1>4, <2>1
<1>6. \A c, d \in L \ {b} : S2[c.pos] = S2[d.pos] => c = d
  BY <1>4 DEF CGood
<1> QED
  BY <1>3, <1>4, <1>5, <1>6 DEF CGood, R2, S2

\* The block a call puts into a raw block that has room for it.
NewC(size, align, r) == [pos |-> C!Aligned(r, align), len |-> size]

\* With a new raw block, aligned block and word, too.
LEMMA AddGood ==
  ASSUME NEW R, NEW S, NEW L, CGood(R, S, L), NEW size \in CSizes, NEW align \in CAligns,
         NEW r \in Nat, \A q \in DOMAIN R : C!Apart(r, C!Total(size, align), q, R[q])
  PROVE  LET n == NewC(size, align, r) IN
         /\ CGood(C!With(R, r, C!Total(size, align)), C!Store(S, n.pos, size, r), L \cup {n})
         /\ n \in C!Block
         /\ \A c \in L : c.pos # n.pos /\ (c.pos + c.len <= n.pos \/ n.pos + n.len <= c.pos)
<1> DEFINE total == C!Total(size, align)
           n  == NewC(size, align, r)
           R2 == C!With(R, r, total)
           S2 == C!Store(S, n.pos, size, r)
<1>1. /\ n.pos \in Nat /\ total \in Nat /\ size \in Nat
      /\ r + WordSize <= n.pos /\ n.pos + size <= r + total
      /\ n.len = size /\ n \in C!Block
  BY AlignedInRaw, CConstants DEF NewC, C!Block
<1>2. \A q \in DOMAIN R : C!Apart(r, total, q, R[q])
  OBVIOUS
<1> HIDE DEF total
<1>3. /\ RawsApart(R2) /\ DOMAIN R2 = DOMAIN R \cup {r} /\ R2[r] = total
      /\ \A q \in DOMAIN R \ {r} : R2[q] = R[q]
  <2>1. RawsApart(R) /\ total \in Nat
    BY <1>1 DEF CGood
  <2> HIDE DEF n
  <2> QED
    BY <1>2, <2>1, WithRaw
<1>4. n.pos \in DOMAIN S2 /\ S2[n.pos] = r
  BY StoreAt
<1> HIDE DEF n
<1>5. ASSUME NEW c \in L
      PROVE  /\ S[c.pos] # r /\ c.pos # n.pos
             /\ c.pos + c.len <= n.pos \/ n.pos + size <= c.pos
             /\ C!Apart(c.pos - WordSize, WordSize, n.pos - WordSize, size + WordSize)
  <2>1. InRaw(R, S, c) /\ RawsApart(R)
    BY DEF CGood
  <2> DEFINE q == S[c.pos]
  <2>2. /\ c.pos \in Nat /\ c.len \in Nat /\ q \in Nat /\ R[q] \in Nat
        /\ q + WordSize <= c.pos /\ c.pos + c.len <= q + R[q]
        /\ r + total <= q \/ q + R[q] <= r
    BY <1>2, <2>1 DEF InRaw, RawsApart, C!Apart, C!Block
  <2> HIDE DEF q
  <2>3. /\ q # r /\ c.pos # n.pos
        /\ c.pos + c.len <= n.pos \/ n.pos + size <= c.pos
    BY <1>1, <2>2, CConstants
  <2>4. C!Apart(c.pos - WordSize, WordSize, n.pos - WordSize, size + WordSize)
    BY <1>1, <2>2, CConstants DEF C!Apart
  <2> QED
    BY <2>3, <2>4 DEF q
<1>6. ASSUME NEW c \in L
      PROVE  c.pos \in DOMAIN S2 /\ S2[c.pos] = S[c.pos]
  <2>1. c.pos \in DOMAIN S
    BY DEF CGood, InRaw
  <2> QED
    BY <1>1, <1>5, <2>1, StoreKeeps
<1> HIDE DEF R2, S2
<1>7. \A c \in L : InRaw(R2, S2, c)
  BY <1>3, <1>5, <1>6 DEF CGood, InRaw
<1>8. InRaw(R2, S2, n)
  BY <1>1, <1>3, <1>4 DEF InRaw
<1>9. \A c, d \in L \cup {n} : S2[c.pos] = S2[d.pos] => c = d
  BY <1>4, <1>5, <1>6 DEF CGood
<1>10. DOMAIN R2 = {S2[c.pos] : c \in L \cup {n}}
  <2>1. DOMAIN R = {S[c.pos] : c \in L}
    BY DEF CGood
  <2> QED
    BY <1>3, <1>4, <1>6, <2>1
<1>11. CGood(R2, S2, L \cup {n})
  BY <1>3, <1>7, <1>8, <1>9, <1>10 DEF CGood
<1> QED
  BY <1>1, <1>5, <1>11 DEF R2, S2, n, total

\* Where malloc finds room it is apart from the raw blocks there are.
LEMMA RoomIsApart ==
  ASSUME NEW Q \in SUBSET DOMAIN raws, NEW n \in Nat, NEW r \in C!Room(Q, n)
  PROVE  r \in Nat /\ \A q \in Q : C!Apart(r, n, q, raws[q])
<1>1. PICK k \in 1 .. MemSize \div RawAlign : r = RawAlign * k
  BY DEF C!Room
<1>2. r \in Nat
  BY <1>1, CConstants
<1> QED
  BY <1>2 DEF C!Room

\* A block that takes the place of b in a raw block that keeps clear of the others.
LEMMA ResizedGood ==
  ASSUME CInv, NEW b \in cLive, NEW size \in CSizes, NEW align \in CAligns,
         NEW r \in Nat,
         \A q \in DOMAIN raws \ {stored[b.pos]} : C!Apart(r, C!Total(size, align), q, raws[q]),
         C!Resized(b, size, align, r)
  PROVE  LET n == NewC(size, align, r) IN
         /\ CInv' /\ n \in C!Block /\ cLive' = (cLive \ {b}) \cup {n}
         /\ \A c \in cLive \ {b} :
              c.pos # n.pos /\ (c.pos + c.len <= n.pos \/ n.pos + n.len <= c.pos)
<1> DEFINE n == NewC(size, align, r)
           R == C!Without(raws, stored[b.pos])
           S == C!Without(stored, b.pos)
<1>1. CGood(R, S, cLive \ {b})
  BY ReleaseGood DEF CInv
<1>2. \A q \in DOMAIN R : C!Apart(r, C!Total(size, align), q, R[q])
  BY DEF C!Without
<1> HIDE DEF R, S
<1>3. /\ CGood(C!With(R, r, C!Total(size, align)), C!Store(S, n.pos, size, r),
               (cLive \ {b}) \cup {n})
      /\ n \in C!Block
      /\ \A c \in cLive \ {b} :
           c.pos # n.pos /\ (c.pos + c.len <= n.pos \/ n.pos + n.len <= c.pos)
  BY <1>1, <1>2, AddGood
<1>4. /\ raws' = C!With(R, r, C!Total(size, align))
      /\ stored' = C!Store(S, n.pos, size, r)
      /\ cLive' = (cLive \ {b}) \cup {n}
  BY DEF C!Resized, R, S, NewC
<1> HIDE DEF n
<1>5. CInv'
  BY <1>3, <1>4 DEF CInv
<1> QED
  BY <1>3, <1>4, <1>5 DEF n

\* Both ways to resize find such a raw block.
LEMMA ResizeGood ==
  ASSUME CInv, NEW b \in cLive, NEW size \in CSizes, NEW align \in CAligns,
         C!ResizeByRealloc(b, size, align) \/ C!ResizeByAlloc(b, size, align)
  PROVE  /\ CInv'
         /\ \E n \in C!Block :
              /\ cLive' = (cLive \ {b}) \cup {n}
              /\ \A c \in cLive \ {b} :
                   c.pos # n.pos /\ (c.pos + c.len <= n.pos \/ n.pos + n.len <= c.pos)
<1>1. C!Total(size, align) \in Nat
  BY AlignedInRaw
<1>2. CASE C!ResizeByRealloc(b, size, align)
  <2>1. PICK r \in C!Room(DOMAIN raws \ {stored[b.pos]}, C!Total(size, align)) :
          C!Resized(b, size, align, r)
    BY <1>2 DEF C!ResizeByRealloc, C!Reallocated
  <2>2. /\ r \in Nat
        /\ \A q \in DOMAIN raws \ {stored[b.pos]} : C!Apart(r, C!Total(size, align), q, raws[q])
    BY <1>1, RoomIsApart
  <2> QED
    BY <2>1, <2>2, ResizedGood
<1>3. CASE C!ResizeByAlloc(b, size, align)
  <2>1. PICK r \in C!Room(DOMAIN raws, C!Total(size, align)) :
          C!Resized(b, size, align, r)
    BY <1>3 DEF C!ResizeByAlloc
  <2>2. r \in Nat /\ \A q \in DOMAIN raws : C!Apart(r, C!Total(size, align), q, raws[q])
    BY <1>1, RoomIsApart
  <2> QED
    BY <2>1, <2>2, ResizedGood
<1> QED
  BY <1>2, <1>3

LEMMA AllocCGood ==
  ASSUME CInv, NEW size \in CSizes, NEW align \in CAligns, C!Alloc(size, align)
  PROVE  /\ CInv'
         /\ \E n \in C!Block :
              /\ cLive' = cLive \cup {n}
              /\ \A c \in cLive :
                   c.pos # n.pos /\ (c.pos + c.len <= n.pos \/ n.pos + n.len <= c.pos)
<1>1. PICK r \in C!Room(DOMAIN raws, C!Total(size, align)) :
        LET pos == C!Aligned(r, align)
        IN  /\ raws' = C!With(raws, r, C!Total(size, align))
            /\ stored' = C!Store(stored, pos, size, r)
            /\ cLive' = cLive \cup {[pos |-> pos, len |-> size]}
  BY DEF C!Alloc
<1>2. C!Total(size, align) \in Nat
  BY AlignedInRaw
<1>3. r \in Nat /\ \A q \in DOMAIN raws : C!Apart(r, C!Total(size, align), q, raws[q])
  BY <1>2, RoomIsApart
<1> DEFINE n == NewC(size, align, r)
<1>4. /\ raws' = C!With(raws, r, C!Total(size, align))
      /\ stored' = C!Store(stored, n.pos, size, r)
      /\ cLive' = cLive \cup {n}
  BY <1>1 DEF NewC
<1>5. /\ CGood(C!With(raws, r, C!Total(size, align)), C!Store(stored, n.pos, size, r),
               cLive \cup {n})
      /\ n \in C!Block
      /\ \A c \in cLive :
           c.pos # n.pos /\ (c.pos + c.len <= n.pos \/ n.pos + n.len <= c.pos)
  BY <1>3, AddGood DEF CInv
<1> HIDE DEF n
<1>6. CInv'
  BY <1>4, <1>5 DEF CInv
<1> QED
  BY <1>4, <1>5, <1>6

LEMMA CInvInit == C!Init => CInv
<1> SUFFICES ASSUME C!Init PROVE CInv
  OBVIOUS
<1>1. DOMAIN raws = {} /\ cLive = {}
  BY DEF C!Init
<1> QED
  BY <1>1 DEF CInv, CGood, RawsApart

LEMMA CInvNext == CInv /\ [C!Next]_cVars => CInv'
<1> SUFFICES ASSUME CInv, [C!Next]_cVars PROVE CInv'
  OBVIOUS
<1>1. CASE UNCHANGED cVars
  BY <1>1 DEF cVars, CInv
<1>2. ASSUME NEW size \in CSizes, NEW align \in CAligns, C!Alloc(size, align)
      PROVE  CInv'
  BY <1>2, AllocCGood
<1>3. CASE C!Fails
  BY <1>1, <1>3 DEF C!Fails, C!vars, cVars
<1>4. ASSUME NEW b \in cLive, NEW size \in CSizes, NEW align \in CAligns,
             C!ResizeByRealloc(b, size, align) \/ C!ResizeByAlloc(b, size, align)
      PROVE  CInv'
  BY <1>4, ResizeGood
<1>5. ASSUME NEW b \in cLive, C!Free(b)
      PROVE  CInv'
  <2>1. CGood(C!Without(raws, stored[b.pos]), C!Without(stored, b.pos), cLive \ {b})
    BY ReleaseGood DEF CInv
  <2> QED
    BY <1>5, <2>1 DEF C!Free, CInv
<1> QED
  BY <1>1, <1>2, <1>3, <1>4, <1>5 DEF C!Next

LEMMA CStep ==
  [MCNext]_<<active, vars, wasmVars, cVars, pageVars>> => [C!Next]_cVars
BY DEF MCNext, cVars

LEMMA CInvAlways == MCSpec => []CInv
<1>1. MCInit => CInv
  BY CInvInit DEF MCInit
<1> QED
  BY <1>1, CStep, CInvNext, PTL DEF MCSpec

-----------------------------------------------------------------------------
(* Raw blocks seen through the contract                                    *)

CImg(b) == [region |-> 0, pos |-> b.pos, len |-> b.len]

LEMMA CBlocksIs == C!Blocks = {CImg(b) : b \in cLive}
BY DEF C!Blocks, CImg

LEMMA CImgApart ==
  ASSUME NEW n \in C!Block, NEW L,
         \A c \in L : c.pos # n.pos /\ (c.pos + c.len <= n.pos \/ n.pos + n.len <= c.pos)
  PROVE  /\ CImg(n) \in C!Contract!Block
         /\ C!Contract!ClearOf(CImg(n), {CImg(c) : c \in L})
         /\ CImg(n) \notin {CImg(c) : c \in L}
<1>1. /\ CImg(n) = [region |-> 0, pos |-> n.pos, len |-> n.len]
      /\ n.pos \in Nat /\ n.len \in Nat
  BY DEF CImg, C!Block
<1>2. CImg(n) \in C!Contract!Block
  BY <1>1 DEF C!Contract!Block
<1>3. ASSUME NEW c \in L
      PROVE  C!Contract!Disjoint(CImg(c), CImg(n)) /\ CImg(c) # CImg(n)
  BY DEF CImg, C!Contract!Disjoint
<1> QED
  BY <1>2, <1>3 DEF C!Contract!ClearOf

LEMMA CStepRefines ==
  CInv /\ [C!Next]_cVars => [C!Contract!Next \/ C!Contract!Slide]_(C!Blocks)
<1> SUFFICES ASSUME CInv, [C!Next]_cVars
             PROVE  [C!Contract!Next \/ C!Contract!Slide]_(C!Blocks)
  OBVIOUS
<1>1. C!Blocks' = {CImg(b) : b \in cLive'}
  BY DEF C!Blocks, CImg
<1>2. CASE UNCHANGED cVars
  BY <1>2 DEF cVars, C!Blocks
<1>3. ASSUME NEW size \in CSizes, NEW align \in CAligns, C!Alloc(size, align)
      PROVE  C!Contract!Next
  <2>1. PICK n \in C!Block :
          /\ cLive' = cLive \cup {n}
          /\ \A c \in cLive :
               c.pos # n.pos /\ (c.pos + c.len <= n.pos \/ n.pos + n.len <= c.pos)
    BY <1>3, AllocCGood
  <2>2. /\ CImg(n) \in C!Contract!Block /\ CImg(n) \notin C!Blocks
        /\ C!Contract!ClearOf(CImg(n), C!Blocks)
    BY <2>1, CImgApart, CBlocksIs
  <2>3. C!Blocks' = C!Blocks \cup {CImg(n)}
    BY <1>1, <2>1, CBlocksIs
  <2>4. C!Contract!Obtain
    BY <2>2, <2>3 DEF C!Contract!Obtain
  <2> QED
    BY <2>4 DEF C!Contract!Next
<1>4. CASE C!Fails
  BY <1>2, <1>4 DEF C!Fails, C!vars, cVars
<1>5. ASSUME NEW b \in cLive, NEW size \in CSizes, NEW align \in CAligns,
             C!ResizeByRealloc(b, size, align) \/ C!ResizeByAlloc(b, size, align)
      PROVE  C!Contract!Slide
  <2>1. PICK n \in C!Block :
          /\ cLive' = (cLive \ {b}) \cup {n}
          /\ \A c \in cLive \ {b} :
               c.pos # n.pos /\ (c.pos + c.len <= n.pos \/ n.pos + n.len <= c.pos)
    BY <1>5, ResizeGood
  <2>2. \A c \in cLive \ {b} : CImg(c) # CImg(b)
    <3>1. \A c \in cLive \ {b} : c.pos # b.pos
      BY OneAtAPlace DEF CInv
    <3> QED
      BY <3>1 DEF CImg
  <2>3. C!Blocks \ {CImg(b)} = {CImg(c) : c \in cLive \ {b}}
    BY <2>2, CBlocksIs
  <2>4. /\ CImg(n) \in C!Contract!Block
        /\ C!Contract!ClearOf(CImg(n), C!Blocks \ {CImg(b)})
    BY <2>1, <2>3, CImgApart
  <2>5. C!Blocks' = (C!Blocks \ {CImg(b)}) \cup {CImg(n)}
    BY <1>1, <2>1, <2>3
  <2>6. CImg(b) \in C!Blocks /\ CImg(n) \in C!Blocks'
    BY <2>5, CBlocksIs
  <2> QED
    BY <2>4, <2>5, <2>6 DEF C!Contract!Slide
<1>6. ASSUME NEW b \in cLive, C!Free(b)
      PROVE  C!Contract!Next
  <2>1. cLive' \subseteq cLive
    BY <1>6 DEF C!Free
  <2>2. C!Blocks' \subseteq C!Blocks
    BY <1>1, <2>1, CBlocksIs
  <2> QED
    BY <2>2 DEF C!Contract!Release, C!Contract!Next
<1> QED
  BY <1>2, <1>3, <1>4, <1>5, <1>6 DEF C!Next

LEMMA CImplementsContract == MCSpec => C!ImplementsContract
<1>1. MCInit => C!Contract!Init
  BY DEF MCInit, C!Init, C!Contract!Init, C!Blocks
<1> QED
  BY <1>1, CStep, CStepRefines, CInvAlways, PTL
     DEF MCSpec, C!ImplementsContract, C!Contract!SlidingSpec

-----------------------------------------------------------------------------
\* The word in front of a block leads to a raw block that holds both and is its own
\* (cu_CAllocator_Grow and the others of allocator.c), and the pages that are mapped
\* are those of blocks, for both lengths a client may hand back (page.c).
THEOREM SystemMemoryIsOwned == MCSpec => []SystemMemoryOwned
<1>1. CInv => C!RawBlocksOwned
  BY DEF CInv, CGood, InRaw, C!RawBlocksOwned
<1>2. PageInv => Page!MappedIsHeld
  BY DEF PageInv, PagesOfBlock, Page!MappedIsHeld
<1> QED
  BY <1>1, <1>2, CInvAlways, PageInvAlways, PTL DEF SystemMemoryOwned

-----------------------------------------------------------------------------
(* Powers of two                                                           *)

\* The least number of a set.
LEMMA LeastOf ==
  ASSUME NEW T, T \subseteq Nat, T # {}
  PROVE  \E x \in T : \A y \in T : x <= y
<1> DEFINE R == {p \in Nat \X Nat : p[1] < p[2]}
<1>1. IsWellFoundedOn(R, Nat)
  <2>1. R = OpToRel(<, Nat)
    BY Zenon DEF OpToRel
  <2> QED
    BY <2>1, NatLessThanWellFounded, Zenon
<1>2. \A x, y \in Nat : y < x => <<y, x>> \in R
  OBVIOUS
<1> HIDE DEF R
<1>3. PICK x \in T : \A y \in T : ~ (<<y, x>> \in R)
  BY <1>1, WFMin
<1>4. ASSUME NEW y \in T
      PROVE  x <= y
  <2>1. x \in Nat /\ y \in Nat
    OBVIOUS
  <2>2. ~(y < x)
    BY <1>2, <1>3, <2>1
  <2> QED
    BY <2>1, <2>2
<1> QED
  BY <1>3, <1>4

Two(k) == Wasm!Pow2[k]

Doubles(g, n) == g[0] = 1 /\ \A i \in 1 .. n : g[i] = 2 * g[i - 1]

LEMMA DoublesExist == \A n \in Nat : \E g \in [0 .. n -> Nat] : Doubles(g, n)
<1> DEFINE P(n) == \E g \in [0 .. n -> Nat] : Doubles(g, n)
           Bad == {n \in Nat : ~P(n)}
<1>1. SUFFICES ASSUME Bad # {} PROVE FALSE
  OBVIOUS
<1>2. PICK x \in Bad : \A y \in Bad : x <= y
  <2>1. Bad \subseteq Nat
    OBVIOUS
  <2> HIDE DEF Bad
  <2> QED
    BY <1>1, <2>1, LeastOf
<1>3. CASE x = 0
  <2> DEFINE g == [i \in 0 .. 0 |-> 1]
  <2>1. g \in [0 .. 0 -> Nat] /\ Doubles(g, 0)
    BY DEF Doubles
  <2> QED
    BY <1>2, <1>3, <2>1
<1>4. CASE x # 0
  <2>1. x - 1 \in Nat /\ ~(x <= x - 1)
    BY <1>2, <1>4
  <2>2. P(x - 1)
    BY <1>2, <2>1
  <2>3. PICK g \in [0 .. x - 1 -> Nat] : Doubles(g, x - 1)
    BY <2>2
  <2> DEFINE h == [i \in 0 .. x |-> IF i = x THEN 2 * g[x - 1] ELSE g[i]]
  <2>4. g[x - 1] \in Nat /\ \A i \in 0 .. x : i # x => i \in 0 .. x - 1 /\ g[i] \in Nat
    BY <2>1, <2>3
  <2>5. h \in [0 .. x -> Nat]
    BY <2>4
  <2>6. h[0] = 1 /\ \A i \in 1 .. x : h[i] = 2 * h[i - 1]
    BY <1>4, <2>1, <2>3, <2>4 DEF Doubles
  <2> HIDE DEF h
  <2>7. P(x)
    BY <2>5, <2>6 DEF Doubles
  <2> QED
    BY <1>2, <2>7
<1> QED
  BY <1>3, <1>4

LEMMA DoublesAgree ==
  ASSUME NEW m \in Nat, NEW n \in Nat, NEW g, NEW h, Doubles(g, m), Doubles(h, n),
         NEW i \in Nat, i <= m, i <= n
  PROVE  g[i] = h[i]
<1> DEFINE Bad == {j \in 0 .. i : g[j] # h[j]}
<1>1. SUFFICES ASSUME Bad # {} PROVE FALSE
  <2>1. i \in 0 .. i
    OBVIOUS
  <2> QED
    BY <2>1
<1>2. PICK x \in Bad : \A y \in Bad : x <= y
  <2>1. Bad \subseteq Nat
    OBVIOUS
  <2> HIDE DEF Bad
  <2> QED
    BY <1>1, <2>1, LeastOf
<1>3. x # 0
  BY <1>2 DEF Doubles
<1>4. x - 1 \in 0 .. i /\ ~(x <= x - 1) /\ x \in 1 .. m /\ x \in 1 .. n
  BY <1>2, <1>3
<1>5. g[x - 1] = h[x - 1]
  BY <1>2, <1>4
<1>6. g[x] = h[x]
  BY <1>4, <1>5 DEF Doubles
<1> QED
  BY <1>2, <1>6

LEMMA Pow2Is ==
  Wasm!Pow2 = [n \in Nat |-> IF n = 0 THEN 1 ELSE 2 * Wasm!Pow2[n - 1]]
<1> DEFINE G(n) == CHOOSE g \in [0 .. n -> Nat] : Doubles(g, n)
           f == [n \in Nat |-> G(n)[n]]
<1>1. \A n \in Nat : Doubles(G(n), n)
  BY DoublesExist
<1>2. ASSUME NEW n \in Nat
      PROVE  f[n] = IF n = 0 THEN 1 ELSE 2 * f[n - 1]
  <2> HIDE DEF G
  <2>1. CASE n = 0
    BY <1>1, <2>1 DEF Doubles
  <2>2. CASE n # 0
    <3>1. n - 1 \in Nat /\ n \in 1 .. n /\ n - 1 <= n /\ n - 1 <= n - 1
      BY <2>2
    <3>2. G(n)[n] = 2 * G(n)[n - 1]
      BY <1>1, <3>1 DEF Doubles
    <3>3. G(n)[n - 1] = G(n - 1)[n - 1]
      BY <1>1, <3>1, DoublesAgree
    <3> QED
      BY <2>2, <3>1, <3>2, <3>3
  <2> QED
    BY <2>1, <2>2
<1>3. f = [n \in Nat |-> IF n = 0 THEN 1 ELSE 2 * f[n - 1]]
  <2> HIDE DEF G
  <2>1. f = [n \in Nat |-> f[n]]
    BY Zenon
  <2> HIDE DEF f
  <2> QED
    BY <1>2, <2>1
<1> HIDE DEF f
<1>4. \E h : h = [n \in Nat |-> IF n = 0 THEN 1 ELSE 2 * h[n - 1]]
  BY <1>3
<1> QED
  BY <1>4, Zenon DEF Wasm!Pow2

LEMMA TwoFacts ==
  /\ Two(0) = 1
  /\ \A n \in Nat : Two(n) \in Nat /\ n < Two(n) /\ Two(n + 1) = 2 * Two(n)
<1>1. Two(0) = 1 /\ \A n \in Nat : n # 0 => Two(n) = 2 * Two(n - 1)
  <2>1. 0 \in Nat
    OBVIOUS
  <2> QED
    BY <2>1, Pow2Is DEF Two
<1> DEFINE Bad == {n \in Nat : ~(Two(n) \in Nat /\ n < Two(n))}
<1>2. Bad = {}
  <2>1. SUFFICES ASSUME Bad # {} PROVE FALSE
    OBVIOUS
  <2>2. PICK x \in Bad : \A y \in Bad : x <= y
    <3>1. Bad \subseteq Nat
      OBVIOUS
    <3> HIDE DEF Bad
    <3> QED
      BY <2>1, <3>1, LeastOf
  <2>3. x \in Nat /\ ~(Two(x) \in Nat /\ x < Two(x))
    BY <2>2
  <2>4. x # 0
    BY <1>1, <2>3
  <2>5. x - 1 \in Nat /\ ~(x <= x - 1)
    BY <2>3, <2>4
  <2>6. Two(x - 1) \in Nat /\ x - 1 < Two(x - 1)
    BY <2>2, <2>5
  <2>7. Two(x) = 2 * Two(x - 1)
    BY <1>1, <2>3, <2>4
  <2> QED
    BY <2>3, <2>4, <2>6, <2>7
<1>3. \A n \in Nat : Two(n + 1) = 2 * Two(n)
  <2>1. TAKE n \in Nat
  <2>2. n + 1 \in Nat /\ n + 1 # 0 /\ (n + 1) - 1 = n
    OBVIOUS
  <2> QED
    BY <1>1, <2>2
<1> QED
  BY <1>1, <1>2, <1>3

\* Powers multiply as their exponents add.
LEMMA TwoSum ==
  ASSUME NEW i \in Nat, NEW n \in Nat
  PROVE  Two(i + n) = Two(i) * Two(n)
<1> DEFINE Bad == {m \in Nat : Two(i + m) # Two(i) * Two(m)}
<1>1. SUFFICES ASSUME Bad # {} PROVE FALSE
  OBVIOUS
<1>2. PICK x \in Bad : \A y \in Bad : x <= y
  <2>1. Bad \subseteq Nat
    OBVIOUS
  <2> HIDE DEF Bad
  <2> QED
    BY <1>1, <2>1, LeastOf
<1>3. Two(0) = 1 /\ \A m \in Nat : Two(m) \in Nat /\ Two(m + 1) = 2 * Two(m)
  BY TwoFacts
<1> HIDE DEF Two
<1>4. x # 0
  BY <1>2, <1>3
<1>5. x - 1 \in Nat /\ ~(x <= x - 1) /\ (x - 1) + 1 = x /\ (i + (x - 1)) + 1 = i + x
      /\ i + (x - 1) \in Nat
  BY <1>2, <1>4
<1>6. Two(i + (x - 1)) = Two(i) * Two(x - 1)
  BY <1>2, <1>5
<1>7. Two(i + x) = 2 * Two(i + (x - 1)) /\ Two(x) = 2 * Two(x - 1)
  BY <1>3, <1>5
<1>8. Two(i) \in Nat /\ Two(x - 1) \in Nat
  BY <1>3, <1>5
<1>9. Two(i) * (2 * Two(x - 1)) = 2 * (Two(i) * Two(x - 1))
  BY <1>8
<1> QED
  BY <1>2, <1>6, <1>7, <1>9

LEMMA TwoMonotone ==
  ASSUME NEW i \in Nat, NEW j \in Nat, i <= j
  PROVE  Two(i) <= Two(j)
<1>1. j - i \in Nat /\ j = i + (j - i)
  OBVIOUS
<1> DEFINE a == Two(i)
           b == Two(j - i)
<1>2. Two(j) = a * b /\ a \in Nat /\ b \in Nat /\ b >= 1
  <2>1. Two(j) = a * b
    BY <1>1, TwoSum
  <2>2. a \in Nat /\ b \in Nat /\ j - i < b
    BY <1>1, TwoFacts
  <2> QED
    BY <1>1, <2>1, <2>2
<1> HIDE DEF a, b
<1>3. a <= a * b
  BY <1>2
<1> QED
  BY <1>2, <1>3 DEF a

LEMMA TwoStrict ==
  ASSUME NEW i \in Nat, NEW j \in Nat, i < j
  PROVE  2 * Two(i) <= Two(j) /\ Two(i) < Two(j)
<1>1. i + 1 \in Nat /\ i + 1 <= j
  OBVIOUS
<1>2. Two(i + 1) <= Two(j)
  BY <1>1, TwoMonotone
<1>3. Two(i + 1) = 2 * Two(i) /\ Two(i) \in Nat /\ Two(j) \in Nat /\ i < Two(i)
  BY TwoFacts
<1> QED
  BY <1>2, <1>3

\* cu_log2_usize of a power of two.
LEMMA Log2Is ==
  ASSUME NEW k \in Nat
  PROVE  Wasm!Log2(Two(k)) = k
<1> DEFINE x == Two(k)
           Q(j) == Wasm!Pow2[j] <= x /\ x < Wasm!Pow2[j + 1]
<1>1. x \in Nat /\ k < x /\ Two(k + 1) = 2 * x
  BY TwoFacts
<1>2. k \in 0 .. x /\ Q(k)
  BY <1>1 DEF Two
<1>3. ASSUME NEW j \in 0 .. x, Q(j)
      PROVE  j = k
  <2>1. j \in Nat /\ k \in Nat
    BY <1>1
  <2>2. ~(k < j)
    <3>1. Two(j) <= x /\ Two(j) \in Nat
      BY <1>3, <2>1, TwoFacts DEF Two
    <3> QED
      BY <1>1, <2>1, <3>1, TwoStrict
  <2>3. ~(j < k)
    <3>1. x < Two(j + 1) /\ Two(j + 1) \in Nat
      BY <1>3, <2>1, TwoFacts DEF Two
    <3>2. j < k => Two(j + 1) <= x
      BY <2>1, TwoMonotone
    <3> QED
      BY <1>1, <3>1, <3>2
  <2> QED
    BY <2>1, <2>2, <2>3
<1>4. Wasm!Log2(x) = CHOOSE j \in 0 .. x : Q(j)
  BY DEF Wasm!Log2
<1> HIDE DEF x, Q
<1>5. Wasm!Log2(x) \in 0 .. x /\ Q(Wasm!Log2(x))
  BY <1>2, <1>4
<1>6. Wasm!Log2(x) = k
  BY <1>3, <1>5
<1> QED
  BY <1>6 DEF x

\* cu_next_pow2 is the least power that is large enough.
LEMMA NextPow2Is ==
  ASSUME NEW x \in Nat
  PROVE  \E k \in Nat : /\ Wasm!NextPow2(x) = Two(k) /\ x <= Two(k)
                        /\ \A j \in Nat : x <= Two(j) => k <= j
<1> DEFINE Q(k) == Wasm!Pow2[k] >= x /\ (k = 0 \/ Wasm!Pow2[k - 1] < x)
           T == {k \in Nat : x <= Two(k)}
<1>1. x \in T
  BY TwoFacts
<1>2. PICK m \in T : \A y \in T : m <= y
  <2>1. T \subseteq Nat /\ T # {}
    BY <1>1
  <2> HIDE DEF T
  <2> QED
    BY <2>1, LeastOf
<1>3. m \in Nat /\ m \in 0 .. x /\ x <= Two(m) /\ Two(m) \in Nat
  BY <1>1, <1>2, TwoFacts
<1>4. Q(m)
  <2>1. ASSUME m # 0 PROVE Two(m - 1) < x
    <3>1. m - 1 \in Nat /\ ~(m <= m - 1)
      BY <1>3, <2>1
    <3>2. Two(m - 1) \in Nat /\ ~(x <= Two(m - 1))
      BY <1>2, <3>1, TwoFacts
    <3> QED
      BY <3>2
  <2> QED
    BY <1>3, <2>1 DEF Two
<1> DEFINE k == CHOOSE i \in 0 .. x : Q(i)
<1>5. k \in 0 .. x /\ Q(k)
  <2>1. \E i \in 0 .. x : Q(i)
    BY <1>3, <1>4
  <2> HIDE DEF Q
  <2> QED
    BY <2>1
<1>6. Wasm!NextPow2(x) = Two(k)
  BY Zenon DEF Wasm!NextPow2, Two
<1> HIDE DEF k
<1>7. k \in Nat /\ x <= Two(k) /\ (k = 0 \/ Two(k - 1) < x)
  BY <1>5, TwoFacts DEF Two
<1>8. ASSUME NEW j \in Nat, x <= Two(j)
      PROVE  k <= j
  <2>1. SUFFICES ASSUME j < k PROVE FALSE
    BY <1>7
  <2>2. k # 0 /\ k - 1 \in Nat /\ j <= k - 1
    BY <1>7, <2>1
  <2>3. Two(j) <= Two(k - 1) /\ Two(j) \in Nat /\ Two(k - 1) \in Nat
    BY <2>2, TwoMonotone, TwoFacts
  <2> QED
    BY <1>7, <1>8, <2>2, <2>3
<1> QED
  BY <1>6, <1>7, <1>8

-----------------------------------------------------------------------------
(* Pages and the sizes of slots                                            *)

\* The exponent of the page size: slots of less are small.
PageLog == Wasm!Log2(WasmPageSize)

\* The exponents of slots: the lists of small ones, and those of pages.
SmallK == MinClass .. PageLog - 1
BigK   == PageLog .. PageLog + BigClassCount - 1
SlotK  == MinClass .. PageLog + BigClassCount - 1

LEMMA WasmConstants ==
  /\ WordSize \in Nat /\ WordSize > 0 /\ WasmHeaderSize \in Nat /\ MinClass \in Nat
  /\ Two(MinClass) <= WasmHeaderSize + WordSize
  /\ InitialPages \in Nat /\ InitialPages > 0 /\ WasmMaxPages \in Nat
  /\ BigClassCount \in Nat
  /\ \A s \in WasmSizes : s \in Nat
  /\ \A a \in WasmAligns : a \in Nat
BY InstancesOK DEF Wasm!ConstantsOK, Two

LEMMA PageIsTwo ==
  /\ PageLog \in Nat /\ MinClass < PageLog /\ WasmPageSize = Two(PageLog)
  /\ WasmPageSize \in Nat /\ WasmPageSize > 0 /\ Wasm!ClassCount = PageLog - MinClass
<1>1. PICK k \in 0 .. WasmPageSize : k > MinClass /\ WasmPageSize = Two(k)
  BY InstancesOK DEF Wasm!ConstantsOK, Two
<1>2. WasmPageSize \in Nat
  BY InstancesOK DEF Wasm!ConstantsOK
<1>3. k \in Nat
  BY <1>1, <1>2
<1>4. PageLog = k
  BY <1>1, <1>3, Log2Is DEF PageLog
<1>5. k < Two(k)
  BY <1>3, TwoFacts
<1>6. Wasm!ClassCount = PageLog - MinClass
  BY DEF Wasm!ClassCount, PageLog
<1> QED
  BY <1>1, <1>2, <1>3, <1>4, <1>5, <1>6

LEMMA SlotKFacts ==
  /\ SlotK = SmallK \cup BigK
  /\ \A k \in SmallK : k \in Nat /\ k < PageLog /\ k - MinClass \in 0 .. Wasm!ClassCount - 1
  /\ \A k \in BigK : k \in Nat /\ ~(k < PageLog) /\ k - PageLog \in 0 .. BigClassCount - 1
  /\ \A k \in SlotK : k \in Nat /\ Two(k) \in Nat /\ Two(k) > 0
<1>1. \A k \in SlotK : k \in Nat
  BY PageIsTwo, WasmConstants DEF SlotK
<1>2. \A k \in SlotK : Two(k) \in Nat /\ Two(k) > 0
  <2>1. TAKE k \in SlotK
  <2>2. k \in Nat /\ k < Two(k) /\ Two(k) \in Nat
    BY <1>1, TwoFacts
  <2> QED
    BY <2>2
<1> QED
  BY <1>1, <1>2, PageIsTwo, WasmConstants DEF SlotK, SmallK, BigK

\* Where a page starts.
WPage(q) == q * WasmPageSize

IsPage(a) == \E q \in Nat : a = WPage(q)

LEMMA WPageFacts ==
  /\ WPage(0) = 0 /\ WPage(1) = WasmPageSize
  /\ \A q \in Nat : WPage(q) \in Nat
  /\ \A q, n \in Nat : WPage(q + n) = WPage(q) + WPage(n)
  /\ \A q \in Nat : q > 0 => WPage(q) > 0
<1>1. WasmPageSize \in Nat /\ WasmPageSize > 0
  BY PageIsTwo
<1>2. WPage(0) = 0 /\ WPage(1) = WasmPageSize
  BY <1>1 DEF WPage
<1>3. \A q \in Nat : WPage(q) \in Nat
  BY <1>1 DEF WPage
<1>4. \A q, n \in Nat : WPage(q + n) = WPage(q) + WPage(n)
  BY <1>1 DEF WPage
<1>5. ASSUME NEW q \in Nat, q > 0 PROVE WPage(q) > 0
  <2>1. q - 1 \in Nat /\ q = (q - 1) + 1 /\ 1 \in Nat
    BY <1>5
  <2>2. WPage(q) = WPage(q - 1) + WPage(1)
    BY <1>4, <2>1
  <2> QED
    BY <1>1, <1>2, <1>3, <2>1, <2>2
<1> QED
  BY <1>2, <1>3, <1>4, <1>5

LEMMA WPageNext ==
  ASSUME NEW q \in Nat
  PROVE  /\ WPage(q) \in Nat /\ WPage(q + 1) \in Nat /\ WasmPageSize \in Nat
         /\ WasmPageSize > 0 /\ WPage(q + 1) = WPage(q) + WasmPageSize
<1>1. 1 \in Nat /\ q + 1 \in Nat
  OBVIOUS
<1>2. WPage(q + 1) = WPage(q) + WPage(1)
  BY <1>1, WPageFacts
<1> QED
  BY <1>1, <1>2, WPageFacts, PageIsTwo

LEMMA WPageMonotone ==
  ASSUME NEW q \in Nat, NEW r \in Nat, q <= r
  PROVE  WPage(q) <= WPage(r)
<1>1. r - q \in Nat /\ r = q + (r - q)
  OBVIOUS
<1>2. WPage(r) = WPage(q) + WPage(r - q) /\ WPage(q) \in Nat /\ WPage(r - q) \in Nat
  BY <1>1, WPageFacts
<1> QED
  BY <1>2

\* A run of pages is a slot.
LEMMA WPageTwo ==
  ASSUME NEW i \in Nat
  PROVE  WPage(Two(i)) = Two(PageLog + i)
<1>1. Two(i) \in Nat /\ Two(PageLog) \in Nat
  BY TwoFacts, PageIsTwo
<1>2. Two(PageLog + i) = Two(PageLog) * Two(i)
  BY TwoSum, PageIsTwo
<1>3. WPage(Two(i)) = Two(i) * Two(PageLog)
  BY PageIsTwo, Zenon DEF WPage
<1> DEFINE a == Two(i)
           b == Two(PageLog)
<1>4. a * b = b * a
  <2> HIDE DEF a, b
  <2>1. a \in Nat /\ b \in Nat
    BY <1>1 DEF a, b
  <2> QED
    BY <2>1
<1> QED
  BY <1>2, <1>3, <1>4

\* Multiples of the page size, and what lies between them.
LEMMA PageRest ==
  ASSUME NEW q \in Nat, NEW t \in Nat, t < WasmPageSize
  PROVE  (WPage(q) + t) % WasmPageSize = t
<1> DEFINE p == WasmPageSize
           x == WPage(q) + t
           d == x \div p
           r == x % p
<1>1. p \in Nat /\ p > 0 /\ x \in Nat
  <2>1. WPage(q) \in Nat
    BY WPageFacts
  <2> QED
    BY <2>1, PageIsTwo
<1>2. x = q * p + t
  BY DEF WPage
<1> HIDE DEF p, x
<1>3. d \in Nat /\ r \in Nat /\ r < p /\ x = d * p + r
  BY <1>1
<1> HIDE DEF d, r
<1>4. t < p /\ q \in Nat /\ t \in Nat
  BY DEF p
<1>5. ~(d < q)
  <2>1. SUFFICES ASSUME d < q PROVE FALSE
    OBVIOUS
  <2>2. PICK n \in Nat : q = d + 1 + n
    <3>1. q - d - 1 \in Nat /\ q = d + 1 + (q - d - 1)
      BY <1>3, <2>1
    <3> QED
      BY <3>1
  <2>3. q * p = d * p + p + n * p /\ n * p \in Nat /\ d * p \in Nat
    BY <1>1, <1>3, <2>2
  <2> QED
    BY <1>1, <1>2, <1>3, <1>4, <2>3
<1>6. ~(q < d)
  <2>1. SUFFICES ASSUME q < d PROVE FALSE
    OBVIOUS
  <2>2. PICK n \in Nat : d = q + 1 + n
    <3>1. d - q - 1 \in Nat /\ d = q + 1 + (d - q - 1)
      BY <1>3, <2>1
    <3> QED
      BY <3>1
  <2>3. d * p = q * p + p + n * p /\ n * p \in Nat /\ q * p \in Nat
    BY <1>1, <1>3, <2>2
  <2> QED
    BY <1>1, <1>2, <1>3, <1>4, <2>3
<1>7. d = q
  BY <1>3, <1>5, <1>6
<1>8. q * p \in Nat
  BY <1>1
<1> QED
  BY <1>2, <1>3, <1>4, <1>7, <1>8 DEF r, x, p

LEMMA PageMod ==
  ASSUME NEW a \in Nat
  PROVE  IsPage(a) <=> a % WasmPageSize = 0
<1>1. ASSUME IsPage(a) PROVE a % WasmPageSize = 0
  <2>1. PICK q \in Nat : a = WPage(q)
    BY <1>1 DEF IsPage
  <2>2. (WPage(q) + 0) % WasmPageSize = 0
    BY PageRest, PageIsTwo
  <2> QED
    BY <2>1, <2>2, WPageFacts
<1>2. ASSUME a % WasmPageSize = 0 PROVE IsPage(a)
  <2> DEFINE q == a \div WasmPageSize
  <2>1. q \in Nat /\ a = q * WasmPageSize + (a % WasmPageSize) /\ q * WasmPageSize \in Nat
    BY PageIsTwo
  <2> HIDE DEF q
  <2>2. a = WPage(q)
    BY <1>2, <2>1 DEF WPage
  <2> QED
    BY <2>1, <2>2 DEF IsPage
<1> QED
  BY <1>1, <1>2

\* The end of the page that was begun.
PageEnd(a) == Wasm!AlignUp(a, WasmPageSize)

LEMMA PageEndIs ==
  ASSUME NEW q \in Nat, NEW a \in Nat, WPage(q) < a, a < WPage(q + 1)
  PROVE  PageEnd(a) = WPage(q + 1) /\ ~IsPage(a) /\ a % WasmPageSize # 0
<1> DEFINE p == WasmPageSize
           t == a - WPage(q)
<1>1. p \in Nat /\ p > 0 /\ WPage(q) \in Nat /\ WPage(q + 1) \in Nat
      /\ WPage(q + 1) = WPage(q) + p
  BY WPageNext
<1> HIDE DEF p
<1>2. t \in Nat /\ t > 0 /\ t < p /\ a = WPage(q) + t
  BY <1>1
<1> HIDE DEF t
<1>3. a % p = t
  BY <1>2, PageRest DEF p
<1>4. t - 1 \in Nat /\ t - 1 < p /\ a + p - 1 = WPage(q + 1) + (t - 1)
  BY <1>1, <1>2
<1>5. (a + p - 1) % p = t - 1
  BY <1>4, PageRest DEF p
<1>6. PageEnd(a) = (a + p - 1) - ((a + p - 1) % p)
  BY DEF PageEnd, Wasm!AlignUp, p
<1>7. PageEnd(a) = WPage(q + 1)
  BY <1>1, <1>2, <1>4, <1>5, <1>6
<1> QED
  BY <1>2, <1>3, <1>7, PageMod DEF p

\* The first byte of the j-th slot of a page.
SlotAt(j, k) == j * Two(k)

LEMMA SlotAtFacts ==
  ASSUME NEW k \in Nat
  PROVE  /\ SlotAt(0, k) = 0 /\ SlotAt(1, k) = Two(k)
         /\ \A j \in Nat : SlotAt(j, k) \in Nat /\ SlotAt(j + 1, k) = SlotAt(j, k) + Two(k)
         /\ \A i, j \in Nat : i <= j => SlotAt(i, k) <= SlotAt(j, k)
<1> DEFINE s == Two(k)
<1>1. s \in Nat
  BY TwoFacts
<1> HIDE DEF s
<1>2. \A j \in Nat : SlotAt(j, k) = j * s
  BY DEF SlotAt, s
<1>3. SlotAt(0, k) = 0 /\ SlotAt(1, k) = s
  BY <1>1, <1>2
<1>4. \A j \in Nat : j * s \in Nat /\ (j + 1) * s = j * s + s
  BY <1>1
<1>5. \A j \in Nat : SlotAt(j, k) \in Nat /\ SlotAt(j + 1, k) = SlotAt(j, k) + s
  <2>1. TAKE j \in Nat
  <2>2. j + 1 \in Nat
    OBVIOUS
  <2> QED
    BY <1>2, <1>4, <2>2
<1>6. ASSUME NEW i \in Nat, NEW j \in Nat, i <= j
      PROVE  SlotAt(i, k) <= SlotAt(j, k)
  <2>1. PICK n \in Nat : j = i + n
    <3>1. j - i \in Nat /\ j = i + (j - i)
      BY <1>6
    <3> QED
      BY <3>1
  <2>2. j * s = i * s + n * s /\ n * s \in Nat /\ i * s \in Nat
    BY <1>1, <2>1
  <2> QED
    BY <1>2, <2>2
<1> QED
  BY <1>3, <1>5, <1>6 DEF s

\* A page is so many small slots, and two at least.
LEMMA PageOfSlots ==
  ASSUME NEW k \in SmallK
  PROVE  /\ \E m \in Nat : WasmPageSize = SlotAt(m, k)
         /\ 2 * Two(k) <= WasmPageSize
<1>1. k \in Nat /\ k < PageLog /\ PageLog \in Nat
  BY SlotKFacts, PageIsTwo
<1>2. PageLog - k \in Nat /\ PageLog = (PageLog - k) + k
  BY <1>1
<1>3. Two(PageLog) = Two(PageLog - k) * Two(k)
  BY <1>1, <1>2, TwoSum
<1>4. Two(PageLog - k) \in Nat
  BY <1>2, TwoFacts
<1>5. 2 * Two(k) <= Two(PageLog)
  BY <1>1, TwoStrict
<1>6. WasmPageSize = SlotAt(Two(PageLog - k), k)
  BY <1>3, PageIsTwo DEF SlotAt
<1> QED
  BY <1>4, <1>5, <1>6, PageIsTwo

\* Slots of a class are cut from a page as far as a: all of it, or so many.
CutTo(a, k) ==
  \/ IsPage(a)
  \/ \E q, j \in Nat : /\ a = WPage(q) + SlotAt(j, k)
                       /\ 0 < SlotAt(j, k) /\ SlotAt(j, k) < WasmPageSize

\* The next slot fits into the page.
LEMMA CutNext ==
  ASSUME NEW k \in SmallK, NEW a \in Nat, CutTo(a, k), a % WasmPageSize # 0
  PROVE  /\ PageEnd(a) \in Nat /\ a + Two(k) <= PageEnd(a)
         /\ a + Two(k) \in Nat /\ CutTo(a + Two(k), k)
         /\ (a + Two(k)) % WasmPageSize # 0 => PageEnd(a + Two(k)) = PageEnd(a)
<1>1. k \in Nat /\ Two(k) \in Nat /\ Two(k) > 0 /\ WasmPageSize \in Nat
  BY SlotKFacts, PageIsTwo
<1>2. ~IsPage(a)
  BY PageMod
<1>3. PICK q \in Nat, j \in Nat :
        a = WPage(q) + SlotAt(j, k) /\ 0 < SlotAt(j, k) /\ SlotAt(j, k) < WasmPageSize
  BY <1>2 DEF CutTo
<1>4. PICK m \in Nat : WasmPageSize = SlotAt(m, k)
  BY PageOfSlots
<1>5. /\ SlotAt(j, k) \in Nat /\ SlotAt(j + 1, k) = SlotAt(j, k) + Two(k)
      /\ SlotAt(j + 1, k) \in Nat
      /\ m <= j => SlotAt(m, k) <= SlotAt(j, k)
      /\ j + 1 <= m => SlotAt(j + 1, k) <= SlotAt(m, k)
  <2>1. j + 1 \in Nat
    OBVIOUS
  <2> QED
    BY <1>1, <2>1, SlotAtFacts
<1>6. j + 1 <= m
  BY <1>1, <1>3, <1>4, <1>5
<1>7. SlotAt(j + 1, k) <= WasmPageSize
  BY <1>4, <1>5, <1>6
<1>8. /\ WPage(q) \in Nat /\ WPage(q + 1) \in Nat
      /\ WPage(q + 1) = WPage(q) + WasmPageSize
  BY WPageNext
<1>9. PageEnd(a) = WPage(q + 1)
  BY <1>3, <1>5, <1>8, <1>1, PageEndIs
<1>10. a + Two(k) = WPage(q) + SlotAt(j + 1, k)
  BY <1>1, <1>3, <1>5, <1>8
<1>11. CASE SlotAt(j + 1, k) = WasmPageSize
  <2>1. a + Two(k) = WPage(q + 1)
    BY <1>8, <1>10, <1>11
  <2>2. IsPage(a + Two(k))
    BY <2>1 DEF IsPage
  <2> QED
    BY <1>8, <1>9, <2>1, <2>2, PageMod DEF CutTo
<1>12. CASE SlotAt(j + 1, k) # WasmPageSize
  <2>1. 0 < SlotAt(j + 1, k) /\ SlotAt(j + 1, k) < WasmPageSize /\ j + 1 \in Nat
    BY <1>1, <1>5, <1>7, <1>12
  <2>2. CutTo(a + Two(k), k)
    BY <1>10, <2>1 DEF CutTo
  <2>3. /\ a + Two(k) \in Nat /\ WPage(q) < a + Two(k) /\ a + Two(k) < WPage(q + 1)
    BY <1>5, <1>8, <1>10, <1>1, <2>1
  <2>4. PageEnd(a + Two(k)) = WPage(q + 1)
    BY <2>3, PageEndIs
  <2> QED
    BY <1>8, <1>9, <2>2, <2>3, <2>4
<1> QED
  BY <1>11, <1>12

\* The first slot of a page leaves a rest.
LEMMA CutFirst ==
  ASSUME NEW k \in SmallK, NEW a \in Nat, IsPage(a)
  PROVE  /\ a + Two(k) \in Nat /\ CutTo(a + Two(k), k)
         /\ (a + Two(k)) % WasmPageSize # 0
         /\ PageEnd(a + Two(k)) = a + WasmPageSize
<1>1. k \in Nat /\ Two(k) \in Nat /\ Two(k) > 0 /\ 2 * Two(k) <= WasmPageSize
      /\ WasmPageSize \in Nat
  BY SlotKFacts, PageOfSlots, PageIsTwo
<1>2. PICK q \in Nat : a = WPage(q)
  BY DEF IsPage
<1>3. WPage(q) \in Nat /\ WPage(q + 1) = WPage(q) + WasmPageSize
  BY WPageNext
<1>4. SlotAt(1, k) = Two(k)
  BY <1>1, SlotAtFacts
<1>5. CutTo(a + Two(k), k)
  <2>1. 0 < SlotAt(1, k) /\ SlotAt(1, k) < WasmPageSize /\ a + Two(k) = WPage(q) + SlotAt(1, k)
    BY <1>1, <1>2, <1>4
  <2> QED
    BY <2>1 DEF CutTo
<1>6. a + Two(k) \in Nat /\ WPage(q) < a + Two(k) /\ a + Two(k) < WPage(q + 1)
  BY <1>1, <1>2, <1>3
<1>7. PageEnd(a + Two(k)) = WPage(q + 1) /\ (a + Two(k)) % WasmPageSize # 0
  BY <1>6, PageEndIs
<1> QED
  BY <1>2, <1>3, <1>5, <1>6, <1>7

-----------------------------------------------------------------------------
(* Layouts                                                                 *)

\* The header fits in front of an aligned block.
LEMMA OffsetBounds ==
  ASSUME NEW align \in WasmAligns
  PROVE  Wasm!UserOffset(align) \in Nat /\ WasmHeaderSize <= Wasm!UserOffset(align)
<1> DEFINE a == IF align = 0 THEN 1 ELSE align
<1>1. a \in Nat \ {0}
  BY WasmConstants
<1>2. Wasm!UserOffset(align) = AlignUp(WasmHeaderSize, a)
  BY DEF Wasm!UserOffset, Wasm!AlignUp, AlignUp
<1> HIDE DEF a
<1> QED
  BY <1>1, <1>2, AlignUpBounds, WasmConstants

\* The slot for a layout has an exponent in the range of the lists.
SlotLog(size, align) == Wasm!Log2(Wasm!SlotSize(size, align))

\* Small layouts take a small slot; others take a run of pages, Two(i) of them, that
\* is at least as long as the slot the header will name.
LEMMA LayoutFacts ==
  ASSUME NEW size \in WasmSizes, NEW align \in WasmAligns
  PROVE  LET k == SlotLog(size, align)
             needed == Wasm!Needed(size, align)
         IN  /\ k \in SlotK /\ Wasm!SlotSize(size, align) = Two(k)
             /\ needed \in Nat /\ needed <= Two(k)
             /\ needed = Wasm!UserOffset(align) + size + WordSize
             /\ Wasm!IsSmall(Two(k)) <=> k \in SmallK
             /\ Wasm!Class(Two(k)) = k - MinClass
             /\ \E i \in 0 .. BigClassCount - 1 :
                  Wasm!Pages(needed) = Two(i) /\ k <= PageLog + i
<1> DEFINE needed == Wasm!Needed(size, align)
<1>1. /\ needed \in Nat /\ needed = Wasm!UserOffset(align) + size + WordSize
      /\ WasmHeaderSize + WordSize <= needed
  BY OffsetBounds, WasmConstants DEF Wasm!Needed
<1> HIDE DEF needed
<1>2. PICK k \in Nat : /\ Wasm!NextPow2(needed) = Two(k) /\ needed <= Two(k)
                       /\ \A j \in Nat : needed <= Two(j) => k <= j
  BY <1>1, NextPow2Is
<1>3. Wasm!SlotSize(size, align) = Two(k)
  BY <1>2 DEF Wasm!SlotSize, needed
<1>4. k = SlotLog(size, align)
  BY <1>2, <1>3, Log2Is DEF SlotLog
<1>5. MinClass <= k
  <2>1. SUFFICES ASSUME k < MinClass PROVE FALSE
    BY <1>2, WasmConstants
  <2>2. Two(k) < Two(MinClass) /\ Two(k) \in Nat /\ Two(MinClass) \in Nat
    BY <1>2, <2>1, TwoStrict, TwoFacts, WasmConstants
  <2> QED
    BY <1>1, <1>2, <2>2, WasmConstants
<1> DEFINE x == needed + WasmPageSize + WordSize - 1
           d == x \div WasmPageSize
<1>6. x \in Nat /\ d \in Nat /\ needed <= WPage(d) /\ WPage(d) \in Nat
  <2>1. x \in Nat /\ x = needed + WasmPageSize + WordSize - 1
    BY <1>1, PageIsTwo, WasmConstants
  <2> HIDE DEF x
  <2>2. d \in Nat /\ d * WasmPageSize \in Nat /\ x < d * WasmPageSize + WasmPageSize
    BY <2>1, PageIsTwo
  <2> HIDE DEF d
  <2>3. x < WPage(d) + WasmPageSize /\ WPage(d) \in Nat
    BY <2>2 DEF WPage
  <2> QED
    BY <1>1, <2>1, <2>2, <2>3, PageIsTwo, WasmConstants
<1>7. Wasm!Pages(needed) = Wasm!NextPow2(d)
  BY DEF Wasm!Pages
<1> HIDE DEF x, d
<1>8. PICK i \in Nat : Wasm!NextPow2(d) = Two(i) /\ d <= Two(i)
  BY <1>6, NextPow2Is
<1>9. k <= PageLog + i
  <2>1. WPage(d) <= WPage(Two(i)) /\ WPage(Two(i)) = Two(PageLog + i) /\ Two(i) \in Nat
    BY <1>6, <1>8, WPageMonotone, WPageTwo, TwoFacts
  <2>2. PageLog + i \in Nat /\ Two(PageLog + i) \in Nat
    BY <1>8, PageIsTwo, TwoFacts
  <2>3. needed <= Two(PageLog + i)
    BY <1>1, <1>6, <2>1, <2>2
  <2> QED
    BY <1>2, <2>2, <2>3
<1>10. i \in 0 .. BigClassCount - 1
  <2>1. Two(i) < Two(BigClassCount)
    BY <1>7, <1>8, InstancesOK DEF Wasm!ConstantsOK, Two, needed
  <2>2. ~(BigClassCount <= i)
    <3>1. SUFFICES ASSUME BigClassCount <= i PROVE FALSE
      OBVIOUS
    <3>2. Two(BigClassCount) <= Two(i) /\ Two(BigClassCount) \in Nat /\ Two(i) \in Nat
      BY <1>8, <3>1, TwoMonotone, TwoFacts, WasmConstants
    <3> QED
      BY <2>1, <3>2
  <2> QED
    BY <1>8, <2>2, WasmConstants
<1>11. k \in SlotK
  BY <1>2, <1>5, <1>9, <1>10, PageIsTwo, WasmConstants DEF SlotK
<1>12. Wasm!Class(Two(k)) = k - MinClass
  BY <1>2, Log2Is DEF Wasm!Class
<1>13. Wasm!IsSmall(Two(k)) <=> k \in SmallK
  BY <1>2, <1>5, <1>12, PageIsTwo, WasmConstants DEF Wasm!IsSmall, SmallK
<1> QED
  BY <1>1, <1>2, <1>3, <1>4, <1>7, <1>8, <1>9, <1>10, <1>11, <1>12, <1>13 DEF needed

\* The class of a slot that is freed.
LEMMA ClassOfSlot ==
  ASSUME NEW k \in SlotK
  PROVE  /\ Wasm!IsSmall(Two(k)) <=> k \in SmallK
         /\ Wasm!Class(Two(k)) = k - MinClass
         /\ k \in BigK => Wasm!Log2(Two(k) \div WasmPageSize) = k - PageLog
<1>1. k \in Nat /\ MinClass <= k
  BY SlotKFacts, WasmConstants, PageIsTwo DEF SlotK
<1>2. Wasm!Class(Two(k)) = k - MinClass
  BY <1>1, Log2Is DEF Wasm!Class
<1>3. Wasm!IsSmall(Two(k)) <=> k \in SmallK
  BY <1>1, <1>2, PageIsTwo, WasmConstants DEF Wasm!IsSmall, SmallK
<1>4. ASSUME k \in BigK
      PROVE  Wasm!Log2(Two(k) \div WasmPageSize) = k - PageLog
  <2> DEFINE i == k - PageLog
             n == Two(i)
             x == Two(k)
             d == x \div WasmPageSize
  <2>1. i \in Nat /\ k = PageLog + i
    BY <1>1, <1>4, SlotKFacts, PageIsTwo
  <2>2. x = WPage(n) /\ n \in Nat
    BY <2>1, WPageTwo, TwoFacts
  <2>3. x = n * WasmPageSize
    BY <2>2 DEF WPage
  <2> HIDE DEF n, x
  <2>4. d = n
    <3>1. x \in Nat /\ WasmPageSize \in Nat /\ WasmPageSize > 0
      BY <2>2, WPageFacts, PageIsTwo
    <3>2. d \in Nat /\ d * WasmPageSize <= x /\ x < d * WasmPageSize + WasmPageSize
          /\ d * WasmPageSize \in Nat
      BY <3>1
    <3> HIDE DEF d
    <3>3. WPage(d) <= WPage(n) /\ WPage(n) < WPage(d) + WasmPageSize
      BY <2>2, <3>2 DEF WPage
    <3>4. WPage(n) < WPage(d + 1)
      BY <3>2, <3>3, WPageNext
    <3>5. ~(d + 1 <= n)
      <4>1. SUFFICES ASSUME d + 1 <= n PROVE FALSE
        OBVIOUS
      <4>2. d + 1 \in Nat
        BY <3>2
      <4>3. WPage(d + 1) <= WPage(n) /\ WPage(d + 1) \in Nat /\ WPage(n) \in Nat
        BY <2>2, <4>1, <4>2, WPageMonotone, WPageFacts
      <4> QED
        BY <3>4, <4>3
    <3>6. ~(n + 1 <= d)
      <4>1. SUFFICES ASSUME n + 1 <= d PROVE FALSE
        OBVIOUS
      <4>2. n + 1 \in Nat
        BY <2>2
      <4>3. WPage(n + 1) <= WPage(d) /\ WPage(n + 1) = WPage(n) + WasmPageSize
        BY <2>2, <3>2, <4>1, <4>2, WPageMonotone, WPageNext
      <4>4. WPage(n) \in Nat /\ WPage(d) \in Nat
        BY <2>2, <3>2, WPageFacts
      <4> QED
        BY <3>1, <3>3, <4>3, <4>4
    <3> QED
      BY <2>2, <3>2, <3>5, <3>6
  <2> HIDE DEF d
  <2>5. Wasm!Log2(n) = i
    BY <2>1, Log2Is DEF n
  <2> QED
    BY <2>4, <2>5 DEF d, x
<1> QED
  BY <1>2, <1>3, <1>4

-----------------------------------------------------------------------------
(* The heap over WebAssembly memory                                        *)

\* The head of the list of slots of a size, and how far its page has been cut.
Top(h, k) == IF k \in SmallK THEN h.frees[k - MinClass] ELSE h.bigFrees[k - PageLog]
NextAddr(h, k) == h.nextAddrs[k - MinClass]

LinkOf(a, k) == a + Two(k) - WordSize

WHeap(h) ==
  /\ h = [pages |-> h.pages, nextAddrs |-> h.nextAddrs, frees |-> h.frees,
          bigFrees |-> h.bigFrees, node |-> h.node, header |-> h.header]
  /\ h.pages \in Nat /\ InitialPages <= h.pages
  /\ h.nextAddrs \in [0 .. Wasm!ClassCount - 1 -> Nat]
  /\ h.frees \in [0 .. Wasm!ClassCount - 1 -> Nat]
  /\ h.bigFrees \in [0 .. BigClassCount - 1 -> Nat]

\* The list of slots of Two(k) words is f[k], from f[k][n[k]] down to f[k][1].
Listed(h, f, k, i) ==
  /\ WordSize <= Two(k)
  /\ LinkOf(f[k][i], k) \in DOMAIN h.node
  /\ h.node[LinkOf(f[k][i], k)] = f[k][i - 1]
  /\ k \in BigK => IsPage(f[k][i])

SlotAddr(h, b) == b.pos - (h.header[b.pos].offset + WasmHeaderSize)
SlotLen(h, b)  == h.header[b.pos].slot

\* A block has its header, and leaves the last word of its slot alone.
Held(h, b) ==
  /\ b \in Wasm!Block /\ b.pos \in DOMAIN h.header
  /\ h.header[b.pos].offset \in Nat /\ SlotAddr(h, b) \in Nat
  /\ b.pos + b.len + WordSize <= SlotAddr(h, b) + SlotLen(h, b)
  /\ \E k \in SlotK : SlotLen(h, b) = Two(k) /\ (k \in BigK => IsPage(SlotAddr(h, b)))

\* The parts of the memory somebody owns.
BlockPart(h, b) == [owner |-> <<0, b.pos, b.len>>, lo |-> SlotAddr(h, b),
                    hi |-> SlotAddr(h, b) + SlotLen(h, b)]
FreePart(f, k, i) == [owner |-> <<1, k, i>>, lo |-> f[k][i], hi |-> f[k][i] + Two(k)]
RestPart(h, k) == [owner |-> <<2, k, 0>>, lo |-> NextAddr(h, k), hi |-> PageEnd(NextAddr(h, k))]

HasRest(h, k) == NextAddr(h, k) % WasmPageSize # 0

BlockParts(h, L) == {BlockPart(h, b) : b \in L}
FreeParts(f, n)  == {FreePart(f, s[1], s[2]) : s \in {t \in SlotK \X Nat : t[2] \in 1 .. n[t[1]]}}
RestParts(h)     == {RestPart(h, k) : k \in {j \in SmallK : HasRest(h, j)}}

WParts(h, L, f, n) == BlockParts(h, L) \cup FreeParts(f, n) \cup RestParts(h)

InMemory(h, p) == /\ p.lo \in Nat /\ p.hi \in Nat
                  /\ WPage(InitialPages) <= p.lo /\ p.hi <= WPage(h.pages)

Off(p, a, z) == p.hi <= a \/ z <= p.lo

Disj(P) == \A p, q \in P : p = q \/ Off(p, q.lo, q.hi)

WGood(h, L, f, n) ==
  /\ WHeap(h) /\ IsFiniteSet(DOMAIN h.node)
  /\ f \in [SlotK -> [Nat -> Nat]] /\ n \in [SlotK -> Nat]
  /\ \A k \in SlotK : f[k][0] = 0 /\ Top(h, k) = f[k][n[k]]
  /\ \A k \in SlotK : \A i \in 1 .. n[k] : Listed(h, f, k, i)
  /\ \A b \in L : Held(h, b)
  /\ \A k \in SmallK : CutTo(NextAddr(h, k), k)
  /\ \A p \in WParts(h, L, f, n) : InMemory(h, p)
  /\ Disj(WParts(h, L, f, n))

\* Nobody owns a word from a to z.
Clear(h, L, f, n, a, z) == \A p \in WParts(h, L, f, n) : Off(p, a, z)

LEMMA PartsAre ==
  ASSUME NEW h, NEW L, NEW f, NEW n
  PROVE  /\ \A b \in L : BlockPart(h, b) \in WParts(h, L, f, n)
         /\ \A k \in SlotK : \A i \in 1 .. n[k] : FreePart(f, k, i) \in WParts(h, L, f, n)
         /\ \A k \in SmallK : HasRest(h, k) => RestPart(h, k) \in WParts(h, L, f, n)
         /\ \A p \in WParts(h, L, f, n) :
              \/ \E b \in L : p = BlockPart(h, b)
              \/ \E k \in SlotK : \E i \in 1 .. n[k] : p = FreePart(f, k, i)
              \/ \E k \in SmallK : HasRest(h, k) /\ p = RestPart(h, k)
<1>1. \A p : p \in BlockParts(h, L) <=> \E b \in L : p = BlockPart(h, b)
  BY DEF BlockParts
<1>2. \A p : p \in FreeParts(f, n) <=> \E k \in SlotK : \E i \in 1 .. n[k] : p = FreePart(f, k, i)
  <2>1. ASSUME NEW k \in SlotK, NEW i \in 1 .. n[k]
        PROVE  FreePart(f, k, i) \in FreeParts(f, n)
    <3>1. i \in Nat
      OBVIOUS
    <3>2. <<k, i>> \in SlotK \X Nat /\ <<k, i>>[1] = k /\ <<k, i>>[2] = i
      BY <3>1
    <3> QED
      BY <3>2 DEF FreeParts
  <2>2. ASSUME NEW p \in FreeParts(f, n)
        PROVE  \E k \in SlotK : \E i \in 1 .. n[k] : p = FreePart(f, k, i)
    BY DEF FreeParts
  <2> QED
    BY <2>1, <2>2
<1>3. \A p : p \in RestParts(h) <=> \E k \in SmallK : HasRest(h, k) /\ p = RestPart(h, k)
  BY DEF RestParts
<1> QED
  BY <1>1, <1>2, <1>3 DEF WParts

\* Parts of one owner are one part.
LEMMA PartsDiffer ==
  ASSUME NEW h, NEW f
  PROVE  /\ \A b, d \in Wasm!Block : b # d => BlockPart(h, b) # BlockPart(h, d)
         /\ \A k, j \in SlotK, i, m \in Nat :
              FreePart(f, k, i) = FreePart(f, j, m) => k = j /\ i = m
         /\ \A b, k, i : BlockPart(h, b) # FreePart(f, k, i)
         /\ \A g, b, k : BlockPart(h, b) # RestPart(g, k)
         /\ \A k, j, i : FreePart(f, k, i) # RestPart(h, j)
         /\ \A k, j : RestPart(h, k) = RestPart(h, j) => k = j
<1>1. \A b, d \in Wasm!Block : b # d => <<0, b.pos, b.len>> # <<0, d.pos, d.len>>
  BY DEF Wasm!Block
<1> QED
  BY <1>1 DEF BlockPart, FreePart, RestPart

\* g is what is left of h, with the blocks S and m[k] slots in each list.
Leaves(h, L, f, n, g, S, m) ==
  /\ S \subseteq L /\ m \in [SlotK -> Nat]
  /\ WHeap(g) /\ IsFiniteSet(DOMAIN g.node) /\ h.pages <= g.pages
  /\ g.nextAddrs = h.nextAddrs
  /\ \A k \in SlotK : m[k] <= n[k] /\ Top(g, k) = f[k][m[k]]
  /\ \A k \in SlotK : \A i \in 1 .. m[k] :
       /\ LinkOf(f[k][i], k) \in DOMAIN g.node
       /\ g.node[LinkOf(f[k][i], k)] = h.node[LinkOf(f[k][i], k)]
  /\ \A b \in S : b.pos \in DOMAIN g.header /\ g.header[b.pos] = h.header[b.pos]

\* What is left of a good heap is good: lists that lost slots from their heads, blocks
\* that went away, words that were written where nobody has anything.
LEMMA LeftGood ==
  ASSUME NEW h, NEW L, NEW f, NEW n, WGood(h, L, f, n),
         NEW g, NEW S, NEW m, Leaves(h, L, f, n, g, S, m)
  PROVE  /\ WGood(g, S, f, m)
         /\ WParts(g, S, f, m) \subseteq WParts(h, L, f, n)
         /\ \A b \in S : BlockPart(g, b) = BlockPart(h, b)
<1>1. \A k \in SlotK : \A i \in 1 .. m[k] : i \in 1 .. n[k]
  BY DEF WGood, Leaves
<1>2. \A k : NextAddr(g, k) = NextAddr(h, k)
  BY DEF NextAddr, Leaves
<1>3. \A b \in S : SlotAddr(g, b) = SlotAddr(h, b) /\ SlotLen(g, b) = SlotLen(h, b)
  BY DEF SlotAddr, SlotLen, Leaves
<1>4. \A b \in S : BlockPart(g, b) = BlockPart(h, b)
  BY <1>3 DEF BlockPart
<1>5. \A k : RestPart(g, k) = RestPart(h, k) /\ (HasRest(g, k) <=> HasRest(h, k))
  BY <1>2 DEF RestPart, HasRest
<1>6. WParts(g, S, f, m) \subseteq WParts(h, L, f, n)
  <2>1. SUFFICES ASSUME NEW p \in WParts(g, S, f, m) PROVE p \in WParts(h, L, f, n)
    OBVIOUS
  <2>2. CASE \E b \in S : p = BlockPart(g, b)
    BY <1>4, <2>2, PartsAre DEF Leaves
  <2>3. CASE \E k \in SlotK : \E i \in 1 .. m[k] : p = FreePart(f, k, i)
    BY <1>1, <2>3, PartsAre
  <2>4. CASE \E k \in SmallK : HasRest(g, k) /\ p = RestPart(g, k)
    BY <1>5, <2>4, PartsAre
  <2> QED
    BY <2>2, <2>3, <2>4, PartsAre
<1>7. \A k \in SlotK : \A i \in 1 .. m[k] : Listed(g, f, k, i)
  BY <1>1 DEF WGood, Listed, Leaves
<1>8. \A b \in S : Held(g, b)
  BY <1>3 DEF WGood, Held, Leaves
<1>9. \A p \in WParts(g, S, f, m) : InMemory(g, p)
  <2>1. WPage(h.pages) <= WPage(g.pages) /\ WPage(h.pages) \in Nat /\ WPage(g.pages) \in Nat
    BY WPageMonotone, WPageFacts DEF WGood, WHeap, Leaves
  <2>2. TAKE p \in WParts(g, S, f, m)
  <2>3. InMemory(h, p)
    BY <1>6 DEF WGood
  <2> QED
    BY <2>1, <2>3 DEF InMemory
<1>10. Disj(WParts(g, S, f, m))
  BY <1>6 DEF WGood, Disj
<1>11. \A k \in SlotK : f[k][0] = 0
  BY DEF WGood
<1>12. \A k \in SmallK : CutTo(NextAddr(g, k), k)
  BY <1>2 DEF WGood
<1> QED
  BY <1>4, <1>6, <1>7, <1>8, <1>9, <1>10, <1>11, <1>12 DEF WGood, Leaves

\* What a part keeps of its owner: the words of headers and links lie in it.
LEMMA PartWords ==
  ASSUME NEW h, NEW L, NEW f, NEW n, WGood(h, L, f, n)
  PROVE  /\ \A b \in L :
              /\ b.pos \in Nat /\ b.len \in Nat
              /\ BlockPart(h, b).lo \in Nat /\ BlockPart(h, b).hi \in Nat
              /\ BlockPart(h, b).lo + WasmHeaderSize <= b.pos
              /\ b.pos + b.len + WordSize <= BlockPart(h, b).hi
              /\ WPage(InitialPages) <= BlockPart(h, b).lo
              /\ BlockPart(h, b).hi <= WPage(h.pages)
         /\ \A k \in SlotK : \A i \in 1 .. n[k] :
              /\ f[k][i] \in Nat /\ f[k][i] # 0 /\ f[k][i - 1] \in Nat
              /\ FreePart(f, k, i).lo = f[k][i] /\ FreePart(f, k, i).hi = f[k][i] + Two(k)
              /\ f[k][i] + Two(k) \in Nat
              /\ f[k][i] <= LinkOf(f[k][i], k) /\ LinkOf(f[k][i], k) \in Nat
              /\ LinkOf(f[k][i], k) + WordSize = f[k][i] + Two(k)
              /\ WPage(InitialPages) <= f[k][i] /\ f[k][i] + Two(k) <= WPage(h.pages)
<1>0. WPage(InitialPages) \in Nat /\ WPage(InitialPages) > 0
  BY WPageFacts, WasmConstants
<1>1. ASSUME NEW b \in L
      PROVE  /\ b.pos \in Nat /\ b.len \in Nat
             /\ BlockPart(h, b).lo \in Nat /\ BlockPart(h, b).hi \in Nat
             /\ BlockPart(h, b).lo + WasmHeaderSize <= b.pos
             /\ b.pos + b.len + WordSize <= BlockPart(h, b).hi
             /\ WPage(InitialPages) <= BlockPart(h, b).lo
             /\ BlockPart(h, b).hi <= WPage(h.pages)
  <2>1. Held(h, b) /\ InMemory(h, BlockPart(h, b))
    BY PartsAre DEF WGood
  <2>2. /\ b.pos \in Nat /\ b.len \in Nat /\ h.header[b.pos].offset \in Nat
        /\ b.pos + b.len + WordSize <= SlotAddr(h, b) + SlotLen(h, b)
    BY <2>1 DEF Held, Wasm!Block
  <2>3. BlockPart(h, b).lo = SlotAddr(h, b) /\ BlockPart(h, b).hi = SlotAddr(h, b) + SlotLen(h, b)
    BY DEF BlockPart
  <2>4. SlotAddr(h, b) + WasmHeaderSize <= b.pos
    BY <2>2, WasmConstants DEF SlotAddr
  <2> QED
    BY <2>1, <2>2, <2>3, <2>4 DEF InMemory
<1>2. ASSUME NEW k \in SlotK, NEW i \in 1 .. n[k]
      PROVE  /\ f[k][i] \in Nat /\ f[k][i] # 0 /\ f[k][i - 1] \in Nat
             /\ FreePart(f, k, i).lo = f[k][i] /\ FreePart(f, k, i).hi = f[k][i] + Two(k)
             /\ f[k][i] + Two(k) \in Nat
             /\ f[k][i] <= LinkOf(f[k][i], k) /\ LinkOf(f[k][i], k) \in Nat
             /\ LinkOf(f[k][i], k) + WordSize = f[k][i] + Two(k)
             /\ WPage(InitialPages) <= f[k][i] /\ f[k][i] + Two(k) <= WPage(h.pages)
  <2>1. n[k] \in Nat /\ f[k] \in [Nat -> Nat]
    BY DEF WGood
  <2>2. i \in Nat /\ i - 1 \in Nat
    BY <2>1
  <2>3. f[k][i] \in Nat /\ f[k][i - 1] \in Nat
    BY <2>1, <2>2
  <2>4. InMemory(h, FreePart(f, k, i)) /\ WordSize <= Two(k)
    BY PartsAre DEF WGood, Listed
  <2>5. FreePart(f, k, i).lo = f[k][i] /\ FreePart(f, k, i).hi = f[k][i] + Two(k)
    BY DEF FreePart
  <2>6. Two(k) \in Nat
    BY SlotKFacts
  <2> QED
    BY <1>0, <2>3, <2>4, <2>5, <2>6, WasmConstants DEF InMemory, LinkOf
<1> QED
  BY <1>1, <1>2

-----------------------------------------------------------------------------
(* Words that are written                                                  *)

\* g is h as far as the arrays and the size of the memory go.
SameArrays(g, h) == /\ g.pages = h.pages /\ g.nextAddrs = h.nextAddrs
                    /\ g.frees = h.frees /\ g.bigFrees = h.bigFrees

LEMMA SameTops ==
  ASSUME NEW g, NEW h, SameArrays(g, h)
  PROVE  \A k : Top(g, k) = Top(h, k) /\ NextAddr(g, k) = NextAddr(h, k)
BY DEF SameArrays, Top, NextAddr

LEMMA OverwrittenIs ==
  ASSUME NEW h, WHeap(h), NEW lo, NEW hi
  PROVE  LET o == Wasm!Overwritten(h, lo, hi)
         IN  /\ WHeap(o) /\ SameArrays(o, h)
             /\ DOMAIN o.node = {x \in DOMAIN h.node : x + WordSize <= lo \/ hi <= x}
             /\ \A x \in DOMAIN o.node : o.node[x] = h.node[x]
             /\ DOMAIN o.header =
                  {p \in DOMAIN h.header : p <= lo \/ hi <= p - WasmHeaderSize}
             /\ \A p \in DOMAIN o.header : o.header[p] = h.header[p]
<1> DEFINE nodes == {x \in DOMAIN h.node : x + WordSize <= lo \/ hi <= x}
           headers == {p \in DOMAIN h.header : p <= lo \/ hi <= p - WasmHeaderSize}
           o == Wasm!Overwritten(h, lo, hi)
<1>1. o = [h EXCEPT !.node = [x \in nodes |-> h.node[x]],
                    !.header = [p \in headers |-> h.header[p]]]
  BY DEF Wasm!Overwritten, WHeap
<1> HIDE DEF nodes, headers
<1>2. o = [pages |-> h.pages, nextAddrs |-> h.nextAddrs, frees |-> h.frees,
           bigFrees |-> h.bigFrees, node |-> [x \in nodes |-> h.node[x]],
           header |-> [p \in headers |-> h.header[p]]]
  BY <1>1 DEF WHeap
<1> HIDE DEF o
<1>3. /\ o.pages = h.pages /\ o.nextAddrs = h.nextAddrs /\ o.frees = h.frees
      /\ o.bigFrees = h.bigFrees /\ o.node = [x \in nodes |-> h.node[x]]
      /\ o.header = [p \in headers |-> h.header[p]]
  BY <1>2
<1>4. WHeap(o) /\ SameArrays(o, h)
  BY <1>2, <1>3 DEF WHeap, SameArrays
<1> QED
  BY <1>3, <1>4 DEF o, nodes, headers

LEMMA UnlinkedIs ==
  ASSUME NEW h, WHeap(h), NEW x
  PROVE  LET u == Wasm!Unlinked(h, x)
         IN  /\ WHeap(u) /\ SameArrays(u, h) /\ u.header = h.header
             /\ DOMAIN u.node = DOMAIN h.node \ {x}
             /\ \A y \in DOMAIN u.node : u.node[y] = h.node[y]
<1> DEFINE u == Wasm!Unlinked(h, x)
           nodes == DOMAIN h.node \ {x}
<1>1. u = [h EXCEPT !.node = [y \in nodes |-> h.node[y]]]
  BY DEF Wasm!Unlinked, WHeap
<1> HIDE DEF nodes
<1>2. u = [pages |-> h.pages, nextAddrs |-> h.nextAddrs, frees |-> h.frees,
           bigFrees |-> h.bigFrees, node |-> [y \in nodes |-> h.node[y]],
           header |-> h.header]
  BY <1>1 DEF WHeap
<1> HIDE DEF u
<1>3. /\ u.pages = h.pages /\ u.nextAddrs = h.nextAddrs /\ u.frees = h.frees
      /\ u.bigFrees = h.bigFrees /\ u.node = [y \in nodes |-> h.node[y]]
      /\ u.header = h.header
  BY <1>2
<1>4. WHeap(u) /\ SameArrays(u, h)
  BY <1>2, <1>3 DEF WHeap, SameArrays
<1> QED
  BY <1>3, <1>4 DEF u, nodes

LEMMA LinkedIs ==
  ASSUME NEW h, WHeap(h), NEW x, NEW next
  PROVE  LET g == Wasm!Linked(h, x, next)
             o == Wasm!Overwritten(h, x, x + WordSize)
         IN  /\ WHeap(g) /\ SameArrays(g, h) /\ g.header = o.header
             /\ DOMAIN g.node = DOMAIN o.node \cup {x} /\ g.node[x] = next
             /\ \A y \in DOMAIN o.node : y # x => g.node[y] = o.node[y]
<1> DEFINE g == Wasm!Linked(h, x, next)
           o == Wasm!Overwritten(h, x, x + WordSize)
           nodes == DOMAIN o.node \cup {x}
           node == [y \in nodes |-> IF y = x THEN next ELSE o.node[y]]
<1>1. WHeap(o) /\ SameArrays(o, h)
  BY OverwrittenIs
<1>2. g = [o EXCEPT !.node = [y \in DOMAIN @ \cup {x} |-> IF y = x THEN next ELSE @[y]]]
  BY DEF Wasm!Linked
<1> HIDE DEF g, o
<1>3. g = [o EXCEPT !.node = node]
  BY <1>1, <1>2 DEF WHeap
<1> HIDE DEF node
<1>4. g = [pages |-> o.pages, nextAddrs |-> o.nextAddrs, frees |-> o.frees,
           bigFrees |-> o.bigFrees, node |-> node, header |-> o.header]
  BY <1>1, <1>3 DEF WHeap
<1>5. /\ g.pages = o.pages /\ g.nextAddrs = o.nextAddrs /\ g.frees = o.frees
      /\ g.bigFrees = o.bigFrees /\ g.node = node /\ g.header = o.header
  BY <1>4
<1>6. WHeap(g) /\ SameArrays(g, h)
  BY <1>1, <1>4, <1>5 DEF WHeap, SameArrays
<1>7. DOMAIN node = nodes /\ \A y \in nodes : node[y] = IF y = x THEN next ELSE o.node[y]
  BY DEF node
<1> QED
  BY <1>5, <1>6, <1>7 DEF g, o

\* g is h after words from lo to hi were written, between a and z, and perhaps the
\* header of a block that starts there.
Written(h, L, a, z, lo, hi, g) ==
  /\ a \in Nat /\ z \in Nat /\ a < z /\ lo \in Nat /\ hi \in Nat /\ a <= lo /\ hi <= z
  /\ WHeap(g) /\ IsFiniteSet(DOMAIN g.node) /\ h.pages <= g.pages
  /\ g.nextAddrs = h.nextAddrs /\ \A k \in SlotK : Top(g, k) = Top(h, k)
  /\ \A x \in DOMAIN h.node :
       x + WordSize <= lo \/ hi <= x => x \in DOMAIN g.node /\ g.node[x] = h.node[x]
  /\ \A b \in L :
       /\ b.pos \in DOMAIN h.header
       /\ b.pos <= lo \/ hi <= b.pos - WasmHeaderSize
       /\ ~(a <= b.pos /\ b.pos < z)
       => b.pos \in DOMAIN g.header /\ g.header[b.pos] = h.header[b.pos]

\* Words that are written where nobody has anything change nothing for anybody.
LEMMA WrittenGood ==
  ASSUME NEW h, NEW L, NEW f, NEW n, WGood(h, L, f, n),
         NEW a, NEW z, Clear(h, L, f, n, a, z),
         NEW lo, NEW hi, NEW g, Written(h, L, a, z, lo, hi, g)
  PROVE  /\ WGood(g, L, f, n)
         /\ WParts(g, L, f, n) \subseteq WParts(h, L, f, n)
<1>1. \A k \in SlotK : n[k] <= n[k] /\ Top(g, k) = f[k][n[k]]
  BY DEF WGood, Written
<1>2. ASSUME NEW k \in SlotK, NEW i \in 1 .. n[k]
      PROVE  /\ LinkOf(f[k][i], k) \in DOMAIN g.node
             /\ g.node[LinkOf(f[k][i], k)] = h.node[LinkOf(f[k][i], k)]
  <2>1. /\ f[k][i] \in Nat /\ f[k][i] <= LinkOf(f[k][i], k) /\ LinkOf(f[k][i], k) \in Nat
        /\ LinkOf(f[k][i], k) + WordSize = f[k][i] + Two(k)
        /\ FreePart(f, k, i).lo = f[k][i] /\ FreePart(f, k, i).hi = f[k][i] + Two(k)
    BY PartWords
  <2>2. LinkOf(f[k][i], k) \in DOMAIN h.node
    BY DEF WGood, Listed
  <2>3. Off(FreePart(f, k, i), a, z)
    BY PartsAre DEF Clear
  <2>4. LinkOf(f[k][i], k) + WordSize <= lo \/ hi <= LinkOf(f[k][i], k)
    BY <2>1, <2>3, WasmConstants DEF Off, Written
  <2> QED
    BY <2>2, <2>4 DEF Written
<1>3. ASSUME NEW b \in L
      PROVE  b.pos \in DOMAIN g.header /\ g.header[b.pos] = h.header[b.pos]
  <2>1. b.pos \in DOMAIN h.header
    BY DEF WGood, Held
  <2>2. Off(BlockPart(h, b), a, z)
    BY PartsAre DEF Clear
  <2>3. /\ b.pos \in Nat /\ b.len \in Nat
        /\ BlockPart(h, b).lo \in Nat /\ BlockPart(h, b).hi \in Nat
        /\ BlockPart(h, b).lo + WasmHeaderSize <= b.pos
        /\ b.pos + b.len + WordSize <= BlockPart(h, b).hi
    BY PartWords
  <2>4. b.pos <= lo \/ hi <= b.pos - WasmHeaderSize
    BY <2>2, <2>3, WasmConstants DEF Off, Written
  <2>5. ~(a <= b.pos /\ b.pos < z)
    BY <2>2, <2>3, WasmConstants DEF Off, Written
  <2> QED
    BY <2>1, <2>4, <2>5 DEF Written
<1>4. n \in [SlotK -> Nat] /\ L \in SUBSET L
  BY DEF WGood
<1>5. \A k \in SlotK : \A i \in 1 .. n[k] :
        /\ LinkOf(f[k][i], k) \in DOMAIN g.node
        /\ g.node[LinkOf(f[k][i], k)] = h.node[LinkOf(f[k][i], k)]
  BY <1>2
<1>6. \A b \in L : b.pos \in DOMAIN g.header /\ g.header[b.pos] = h.header[b.pos]
  BY <1>3
<1> QED
  <2>1. Leaves(h, L, f, n, g, L, n)
    BY <1>1, <1>4, <1>5, <1>6 DEF Leaves, Written
  <2> QED
    BY <2>1, LeftGood

\* A slot nobody owns.
Taken(h, L, f, n, a, k) ==
  /\ WGood(h, L, f, n)
  /\ k \in SlotK /\ a \in Nat /\ (k \in BigK => IsPage(a))
  /\ WPage(InitialPages) <= a /\ a + Two(k) <= WPage(h.pages)
  /\ Clear(h, L, f, n, a, a + Two(k))

\* A block gets a slot nobody owns.
LEMMA AddBlock ==
  ASSUME NEW h, NEW L, NEW f, NEW n, NEW a, NEW k, Taken(h, L, f, n, a, k),
         NEW b \in Wasm!Block, b.pos \in DOMAIN h.header,
         h.header[b.pos].offset \in Nat, SlotAddr(h, b) = a, SlotLen(h, b) = Two(k),
         b.pos + b.len + WordSize <= a + Two(k)
  PROVE  WGood(h, L \cup {b}, f, n)
<1>1. WGood(h, L, f, n) /\ k \in SlotK /\ a \in Nat /\ Two(k) \in Nat
  BY SlotKFacts DEF Taken
<1> DEFINE p == BlockPart(h, b)
<1>2. p.lo = a /\ p.hi = a + Two(k)
  BY DEF BlockPart
<1>3. InMemory(h, p)
  BY <1>1, <1>2 DEF InMemory, Taken
<1>4. \A q \in WParts(h, L, f, n) : Off(q, p.lo, p.hi) /\ Off(p, q.lo, q.hi)
  BY <1>2 DEF Taken, Clear, Off
<1>5. WParts(h, L \cup {b}, f, n) = WParts(h, L, f, n) \cup {p}
  <2>1. BlockParts(h, L \cup {b}) = BlockParts(h, L) \cup {p}
    BY DEF BlockParts
  <2> HIDE DEF p
  <2> QED
    BY <2>1 DEF WParts
<1> HIDE DEF p
<1>6. \A q \in WParts(h, L \cup {b}, f, n) : InMemory(h, q)
  BY <1>1, <1>3, <1>5 DEF WGood
<1>7. Disj(WParts(h, L \cup {b}, f, n))
  BY <1>1, <1>4, <1>5 DEF WGood, Disj
<1>8. Held(h, b)
  BY <1>1 DEF Held, Taken
<1>9. \A c \in L \cup {b} : Held(h, c)
  BY <1>1, <1>8 DEF WGood
<1> QED
  BY <1>1, <1>6, <1>7, <1>9 DEF WGood

\* A slot stays nobody's, and a shorter one at its start is.
LEMMA TakenStays ==
  ASSUME NEW h, NEW L, NEW f, NEW n, NEW a, NEW k, Taken(h, L, f, n, a, k),
         NEW g, NEW S, NEW m, WGood(g, S, f, m), h.pages <= g.pages,
         WParts(g, S, f, m) \subseteq WParts(h, L, f, n)
  PROVE  Taken(g, S, f, m, a, k)
<1>1. /\ WPage(h.pages) <= WPage(g.pages) /\ WPage(h.pages) \in Nat /\ WPage(g.pages) \in Nat
  BY WPageMonotone, WPageFacts DEF WGood, WHeap, Taken
<1>2. Clear(g, S, f, m, a, a + Two(k))
  BY DEF Taken, Clear
<1>3. a + Two(k) \in Nat
  BY SlotKFacts DEF Taken
<1> QED
  BY <1>1, <1>2, <1>3 DEF Taken

LEMMA TakenStart ==
  ASSUME NEW h, NEW L, NEW f, NEW n, NEW a, NEW k, Taken(h, L, f, n, a, k),
         NEW j \in SlotK, j <= k
  PROVE  Taken(h, L, f, n, a, j)
<1>1. /\ k \in SlotK /\ a \in Nat /\ Two(j) \in Nat /\ Two(k) \in Nat
      /\ j \in Nat /\ k \in Nat
  BY SlotKFacts DEF Taken
<1>2. Two(j) <= Two(k)
  BY <1>1, TwoMonotone
<1>3. j \in BigK => k \in BigK
  BY <1>1, SlotKFacts, PageIsTwo DEF BigK, SlotK
<1>4. \A p \in WParts(h, L, f, n) : Off(p, a, a + Two(j))
  <2>1. TAKE p \in WParts(h, L, f, n)
  <2>2. Off(p, a, a + Two(k)) /\ p.lo \in Nat
    BY DEF Taken, Clear, WGood, InMemory
  <2> QED
    BY <1>1, <1>2, <2>2 DEF Off
<1>5. a + Two(j) <= WPage(h.pages)
  <2>1. WPage(h.pages) \in Nat /\ a + Two(k) <= WPage(h.pages)
    BY WPageFacts DEF Taken, WGood, WHeap
  <2> QED
    BY <1>1, <1>2, <2>1
<1> QED
  BY <1>1, <1>3, <1>4, <1>5 DEF Taken, Clear

-----------------------------------------------------------------------------
(* cu_wasm_alloc: the slot                                                 *)

\* The lists' heads, one array as the other.
LEMMA TopIs ==
  /\ \A h : \A k \in SmallK : Top(h, k) = h.frees[k - MinClass]
  /\ \A h : \A k \in BigK : Top(h, k) = h.bigFrees[k - PageLog]
BY SlotKFacts DEF Top

\* The word of a link is in nobody else's slot.
LEMMA LinksDiffer ==
  ASSUME NEW h, NEW L, NEW f, NEW n, WGood(h, L, f, n),
         NEW k \in SlotK, NEW i \in 1 .. n[k], NEW j \in SlotK, NEW m \in 1 .. n[j],
         ~(k = j /\ i = m)
  PROVE  LinkOf(f[k][i], k) # LinkOf(f[j][m], j)
<1>1. n[k] \in Nat /\ n[j] \in Nat
  BY DEF WGood
<1>2. i \in Nat /\ m \in Nat
  BY <1>1
<1>3. FreePart(f, k, i) # FreePart(f, j, m)
  BY <1>2, PartsDiffer
<1>4. Off(FreePart(f, k, i), FreePart(f, j, m).lo, FreePart(f, j, m).hi)
  BY <1>3, PartsAre DEF WGood, Disj
<1>5. /\ FreePart(f, k, i).lo = f[k][i] /\ FreePart(f, k, i).hi = f[k][i] + Two(k)
      /\ FreePart(f, j, m).lo = f[j][m] /\ FreePart(f, j, m).hi = f[j][m] + Two(j)
      /\ f[k][i] \in Nat /\ f[j][m] \in Nat
      /\ f[k][i] <= LinkOf(f[k][i], k) /\ LinkOf(f[k][i], k) \in Nat
      /\ LinkOf(f[k][i], k) + WordSize = f[k][i] + Two(k)
      /\ f[j][m] <= LinkOf(f[j][m], j) /\ LinkOf(f[j][m], j) \in Nat
      /\ LinkOf(f[j][m], j) + WordSize = f[j][m] + Two(j)
  BY PartWords
<1> QED
  BY <1>4, <1>5, WasmConstants DEF Off

\* The slot at the head of a list is taken off it.
LEMMA PopGood ==
  ASSUME NEW h, NEW L, NEW f, NEW n, WGood(h, L, f, n), NEW k \in SlotK, Top(h, k) # 0,
         NEW g, WHeap(g), g.pages = h.pages, g.nextAddrs = h.nextAddrs, g.header = h.header,
         DOMAIN g.node = DOMAIN h.node \ {LinkOf(Top(h, k), k)},
         \A x \in DOMAIN g.node : g.node[x] = h.node[x],
         Top(g, k) = h.node[LinkOf(Top(h, k), k)],
         \A j \in SlotK : j # k => Top(g, j) = Top(h, j)
  PROVE  \E m : Taken(g, L, f, m, Top(h, k), k)
<1> DEFINE t == n[k]
           m == [n EXCEPT ![k] = n[k] - 1]
<1>1. /\ n \in [SlotK -> Nat] /\ t \in Nat /\ Top(h, k) = f[k][t] /\ f[k][0] = 0
      /\ \A j \in SlotK : Top(h, j) = f[j][n[j]]
  BY DEF WGood
<1>2. t # 0 /\ t \in 1 .. n[k] /\ t - 1 \in Nat
  BY <1>1
<1>3. m \in [SlotK -> Nat] /\ m[k] = t - 1 /\ \A j \in SlotK : j # k => m[j] = n[j]
  BY <1>1, <1>2
<1> HIDE DEF m
<1>4. \A j \in SlotK : n[j] \in Nat /\ m[j] \in Nat /\ m[j] <= n[j]
  BY <1>1, <1>2, <1>3
<1>5. /\ Listed(h, f, k, t) /\ f[k][t] \in Nat
      /\ FreePart(f, k, t).lo = f[k][t] /\ FreePart(f, k, t).hi = f[k][t] + Two(k)
      /\ WPage(InitialPages) <= f[k][t] /\ f[k][t] + Two(k) <= WPage(h.pages)
  BY <1>2, PartWords DEF WGood
<1>6. \A j \in SlotK : Top(g, j) = f[j][m[j]]
  BY <1>1, <1>3, <1>5 DEF Listed
<1>7. ASSUME NEW j \in SlotK, NEW i \in 1 .. m[j]
      PROVE  /\ LinkOf(f[j][i], j) \in DOMAIN g.node
             /\ g.node[LinkOf(f[j][i], j)] = h.node[LinkOf(f[j][i], j)]
  <2>1. i \in 1 .. n[j] /\ ~(j = k /\ i = t)
    BY <1>2, <1>3, <1>4
  <2>2. LinkOf(f[j][i], j) # LinkOf(f[k][t], k)
    BY <1>2, <2>1, LinksDiffer
  <2>3. LinkOf(f[j][i], j) \in DOMAIN h.node
    BY <2>1 DEF WGood, Listed
  <2> QED
    BY <1>1, <2>2, <2>3
<1>8. \A b \in L : b.pos \in DOMAIN g.header /\ g.header[b.pos] = h.header[b.pos]
  BY DEF WGood, Held
<1>9. IsFiniteSet(DOMAIN g.node)
  <2>1. IsFiniteSet(DOMAIN h.node) /\ DOMAIN g.node \in SUBSET DOMAIN h.node
    BY DEF WGood
  <2> QED
    BY <2>1, FS_Subset
<1>10. h.pages <= g.pages
  BY DEF WHeap
<1>11. Leaves(h, L, f, n, g, L, m)
  BY <1>3, <1>4, <1>6, <1>7, <1>8, <1>9, <1>10 DEF Leaves
<1>12. /\ WGood(g, L, f, m)
       /\ WParts(g, L, f, m) \subseteq WParts(h, L, f, n)
       /\ \A b \in L : BlockPart(g, b) = BlockPart(h, b)
  BY <1>11, LeftGood
<1>13. ASSUME NEW p \in WParts(g, L, f, m)
       PROVE  p # FreePart(f, k, t)
  <2>1. CASE \E b \in L : p = BlockPart(g, b)
    <3>1. PICK b \in L : p = BlockPart(g, b)
      BY <2>1
    <3>2. BlockPart(g, b) # FreePart(f, k, t)
      BY PartsDiffer
    <3> QED
      BY <3>1, <3>2
  <2>2. CASE \E j \in SlotK : \E i \in 1 .. m[j] : p = FreePart(f, j, i)
    <3>0. PICK j \in SlotK : \E i \in 1 .. m[j] : p = FreePart(f, j, i)
      BY <2>2
    <3>1. PICK i \in 1 .. m[j] : p = FreePart(f, j, i)
      BY <3>0
    <3>2. i \in Nat /\ t \in Nat /\ ~(j = k /\ i = t)
      BY <1>1, <1>3, <1>4
    <3> QED
      BY <3>1, <3>2, PartsDiffer
  <2>3. CASE \E j \in SmallK : HasRest(g, j) /\ p = RestPart(g, j)
    BY <2>3, PartsDiffer
  <2> QED
    BY <2>1, <2>2, <2>3, PartsAre
<1>14. FreePart(f, k, t) \in WParts(h, L, f, n)
  BY <1>2, PartsAre
<1>15. Clear(g, L, f, m, f[k][t], f[k][t] + Two(k))
  <2>1. SUFFICES ASSUME NEW p \in WParts(g, L, f, m)
                 PROVE  Off(p, f[k][t], f[k][t] + Two(k))
    BY DEF Clear
  <2>2. p \in WParts(h, L, f, n) /\ p # FreePart(f, k, t)
    BY <1>12, <1>13
  <2>3. Off(p, FreePart(f, k, t).lo, FreePart(f, k, t).hi)
    BY <1>14, <2>2 DEF WGood, Disj
  <2> QED
    BY <1>5, <2>3
<1>16. Taken(g, L, f, m, Top(h, k), k)
  BY <1>1, <1>5, <1>12, <1>15 DEF Taken, Listed
<1> QED
  BY <1>16

\* The memory grows.
LEMMA GrowGood ==
  ASSUME NEW h, NEW L, NEW f, NEW n, WGood(h, L, f, n), NEW i \in Nat,
         PageLog + i \in SlotK,
         NEW g, WHeap(g), g.pages = h.pages + Two(i), g.nextAddrs = h.nextAddrs,
         g.header = h.header, g.node = h.node, \A j \in SlotK : Top(g, j) = Top(h, j)
  PROVE  Taken(g, L, f, n, WPage(h.pages), PageLog + i)
<1>1. h.pages \in Nat /\ g.pages \in Nat /\ InitialPages <= h.pages /\ Two(i) \in Nat
  BY TwoFacts DEF WGood, WHeap
<1>2. h.pages <= g.pages
  BY <1>1
<1>3. WPage(g.pages) = WPage(h.pages) + Two(PageLog + i) /\ WPage(h.pages) \in Nat
  BY <1>1, WPageFacts, WPageTwo
<1>4. WPage(InitialPages) <= WPage(h.pages)
  BY <1>1, WPageMonotone, WasmConstants
<1>5. /\ n \in [SlotK -> Nat] /\ \A j \in SlotK : n[j] \in Nat /\ n[j] <= n[j]
      /\ \A j \in SlotK : Top(g, j) = f[j][n[j]]
  BY DEF WGood
<1>6. \A j \in SlotK : \A m \in 1 .. n[j] : LinkOf(f[j][m], j) \in DOMAIN g.node
  BY DEF WGood, Listed
<1>7. \A b \in L : b.pos \in DOMAIN g.header /\ g.header[b.pos] = h.header[b.pos]
  BY DEF WGood, Held
<1>8. IsFiniteSet(DOMAIN g.node)
  BY DEF WGood
<1>9. Leaves(h, L, f, n, g, L, n)
  BY <1>2, <1>5, <1>6, <1>7, <1>8 DEF Leaves
<1>10. WGood(g, L, f, n) /\ WParts(g, L, f, n) \subseteq WParts(h, L, f, n)
  BY <1>9, LeftGood
<1>11. Clear(g, L, f, n, WPage(h.pages), WPage(h.pages) + Two(PageLog + i))
  <2>1. SUFFICES ASSUME NEW p \in WParts(g, L, f, n)
                 PROVE  Off(p, WPage(h.pages), WPage(h.pages) + Two(PageLog + i))
    BY DEF Clear
  <2>2. InMemory(h, p)
    BY <1>10 DEF WGood
  <2> QED
    BY <2>2 DEF InMemory, Off
<1>12. WPage(h.pages) + Two(PageLog + i) <= WPage(g.pages)
  <2>1. WPage(g.pages) \in Nat
    BY <1>1, WPageFacts
  <2> QED
    BY <1>3, <2>1
<1> QED
  BY <1>1, <1>3, <1>4, <1>10, <1>11, <1>12 DEF Taken, IsPage

\* One entry of an array of the heap is set, or the memory grows.
LEMMA SetBig ==
  ASSUME NEW h, WHeap(h), NEW c \in 0 .. BigClassCount - 1, NEW v \in Nat
  PROVE  LET g == [h EXCEPT !.bigFrees[c] = v]
         IN  /\ WHeap(g) /\ g.pages = h.pages /\ g.nextAddrs = h.nextAddrs
             /\ g.frees = h.frees /\ g.bigFrees = [h.bigFrees EXCEPT ![c] = v]
             /\ g.node = h.node /\ g.header = h.header
<1> DEFINE g == [h EXCEPT !.bigFrees[c] = v]
           bigs == [h.bigFrees EXCEPT ![c] = v]
<1>1. bigs \in [0 .. BigClassCount - 1 -> Nat]
  BY DEF WHeap
<1> HIDE DEF bigs
<1>2. g = [pages |-> h.pages, nextAddrs |-> h.nextAddrs, frees |-> h.frees,
           bigFrees |-> bigs, node |-> h.node, header |-> h.header]
  BY DEF WHeap, bigs
<1> HIDE DEF g
<1>3. /\ g.pages = h.pages /\ g.nextAddrs = h.nextAddrs /\ g.frees = h.frees
      /\ g.bigFrees = bigs /\ g.node = h.node /\ g.header = h.header
  BY <1>2
<1>4. WHeap(g)
  BY <1>1, <1>2, <1>3 DEF WHeap
<1> QED
  BY <1>3, <1>4 DEF g, bigs

LEMMA SetFree ==
  ASSUME NEW h, WHeap(h), NEW c \in 0 .. Wasm!ClassCount - 1, NEW v \in Nat
  PROVE  LET g == [h EXCEPT !.frees[c] = v]
         IN  /\ WHeap(g) /\ g.pages = h.pages /\ g.nextAddrs = h.nextAddrs
             /\ g.frees = [h.frees EXCEPT ![c] = v] /\ g.bigFrees = h.bigFrees
             /\ g.node = h.node /\ g.header = h.header
<1> DEFINE g == [h EXCEPT !.frees[c] = v]
           frs == [h.frees EXCEPT ![c] = v]
<1>1. frs \in [0 .. Wasm!ClassCount - 1 -> Nat]
  BY DEF WHeap
<1> HIDE DEF frs
<1>2. g = [pages |-> h.pages, nextAddrs |-> h.nextAddrs, frees |-> frs,
           bigFrees |-> h.bigFrees, node |-> h.node, header |-> h.header]
  BY DEF WHeap, frs
<1> HIDE DEF g
<1>3. /\ g.pages = h.pages /\ g.nextAddrs = h.nextAddrs /\ g.frees = frs
      /\ g.bigFrees = h.bigFrees /\ g.node = h.node /\ g.header = h.header
  BY <1>2
<1>4. WHeap(g)
  BY <1>1, <1>2, <1>3 DEF WHeap
<1> QED
  BY <1>3, <1>4 DEF g, frs

LEMMA SetNext ==
  ASSUME NEW h, WHeap(h), NEW c \in 0 .. Wasm!ClassCount - 1, NEW v \in Nat
  PROVE  LET g == [h EXCEPT !.nextAddrs[c] = v]
         IN  /\ WHeap(g) /\ g.pages = h.pages
             /\ g.nextAddrs = [h.nextAddrs EXCEPT ![c] = v]
             /\ g.frees = h.frees /\ g.bigFrees = h.bigFrees
             /\ g.node = h.node /\ g.header = h.header
<1> DEFINE g == [h EXCEPT !.nextAddrs[c] = v]
           nexts == [h.nextAddrs EXCEPT ![c] = v]
<1>1. nexts \in [0 .. Wasm!ClassCount - 1 -> Nat]
  BY DEF WHeap
<1> HIDE DEF nexts
<1>2. g = [pages |-> h.pages, nextAddrs |-> nexts, frees |-> h.frees,
           bigFrees |-> h.bigFrees, node |-> h.node, header |-> h.header]
  BY DEF WHeap, nexts
<1> HIDE DEF g
<1>3. /\ g.pages = h.pages /\ g.nextAddrs = nexts /\ g.frees = h.frees
      /\ g.bigFrees = h.bigFrees /\ g.node = h.node /\ g.header = h.header
  BY <1>2
<1>4. WHeap(g)
  BY <1>1, <1>2, <1>3 DEF WHeap
<1> QED
  BY <1>3, <1>4 DEF g, nexts

LEMMA SetPages ==
  ASSUME NEW h, WHeap(h), NEW x \in Nat
  PROVE  LET g == [h EXCEPT !.pages = @ + x]
         IN  /\ WHeap(g) /\ g.pages = h.pages + x /\ g.nextAddrs = h.nextAddrs
             /\ g.frees = h.frees /\ g.bigFrees = h.bigFrees
             /\ g.node = h.node /\ g.header = h.header
<1> DEFINE g == [h EXCEPT !.pages = @ + x]
<1>1. g = [pages |-> h.pages + x, nextAddrs |-> h.nextAddrs, frees |-> h.frees,
           bigFrees |-> h.bigFrees, node |-> h.node, header |-> h.header]
  BY DEF WHeap
<1>2. h.pages \in Nat /\ InitialPages \in Nat /\ InitialPages <= h.pages
  BY WasmConstants DEF WHeap
<1>3. h.pages + x \in Nat /\ InitialPages <= h.pages + x
  BY <1>2
<1> HIDE DEF g
<1>4. /\ g.pages = h.pages + x /\ g.nextAddrs = h.nextAddrs /\ g.frees = h.frees
      /\ g.bigFrees = h.bigFrees /\ g.node = h.node /\ g.header = h.header
  BY <1>1
<1>5. WHeap(g)
  BY <1>1, <1>3, <1>4 DEF WHeap
<1> QED
  BY <1>4, <1>5 DEF g

\* The link in a run of pages, and in a small slot.
LEMMA LinkIs ==
  /\ \A a, k : Wasm!Link(a, Two(k)) = LinkOf(a, k)
  /\ \A i \in Nat : Two(i) * WasmPageSize = Two(PageLog + i)
<1>1. \A i \in Nat : Two(i) * WasmPageSize = Two(PageLog + i)
  BY WPageTwo DEF WPage
<1> QED
  BY <1>1 DEF Wasm!Link, LinkOf

\* alloc_big_pages.
LEMMA TakePagesGood ==
  ASSUME NEW h, NEW L, NEW f, NEW n, WGood(h, L, f, n), NEW i \in 0 .. BigClassCount - 1
  PROVE  LET t == Wasm!TakePages(h, Two(i))
         IN  t.addr # 0 => /\ \E m : Taken(t.heap, L, f, m, t.addr, PageLog + i)
                           /\ t.heap.nextAddrs = h.nextAddrs
<1> DEFINE t == Wasm!TakePages(h, Two(i))
           k == PageLog + i
           top == h.bigFrees[i]
           link == LinkOf(top, k)
<1>1. /\ i \in Nat /\ k \in BigK /\ k \in SlotK /\ k - PageLog = i
      /\ Wasm!Log2(Two(i)) = i /\ Top(h, k) = top /\ WHeap(h)
      /\ Wasm!Link(top, Two(i) * WasmPageSize) = link
  <2>1. i \in Nat /\ k \in BigK /\ k \in SlotK /\ k - PageLog = i
    BY PageIsTwo, WasmConstants DEF BigK, SlotK
  <2>2. Top(h, k) = top
    BY <2>1, TopIs
  <2> QED
    BY <2>1, <2>2, Log2Is, LinkIs DEF WGood
<1>2. CASE top # 0
  <2> DEFINE h1 == [h EXCEPT !.bigFrees[i] = h.node[link]]
             g == Wasm!Unlinked(h1, link)
  <2>1. t = [addr |-> top, heap |-> g]
    BY <1>1, <1>2 DEF Wasm!TakePages
  <2>2. h.node[link] \in Nat
    <3>1. n[k] \in Nat /\ f[k][0] = 0 /\ top = f[k][n[k]]
      BY <1>1 DEF WGood
    <3>2. n[k] \in 1 .. n[k]
      BY <1>2, <3>1
    <3>3. Listed(h, f, k, n[k]) /\ f[k][n[k] - 1] \in Nat
      BY <1>1, <3>2, PartWords DEF WGood
    <3> QED
      BY <3>1, <3>3 DEF Listed
  <2>3. /\ WHeap(h1) /\ h1.pages = h.pages /\ h1.nextAddrs = h.nextAddrs
        /\ h1.frees = h.frees /\ h1.bigFrees = [h.bigFrees EXCEPT ![i] = h.node[link]]
        /\ h1.node = h.node /\ h1.header = h.header
    BY <1>1, <2>2, SetBig
  <2> HIDE DEF h1
  <2>4. /\ WHeap(g) /\ SameArrays(g, h1) /\ g.header = h1.header
        /\ DOMAIN g.node = DOMAIN h1.node \ {link}
        /\ \A y \in DOMAIN g.node : g.node[y] = h1.node[y]
    BY <2>3, UnlinkedIs
  <2> HIDE DEF g
  <2>5. /\ g.pages = h.pages /\ g.nextAddrs = h.nextAddrs /\ g.header = h.header
        /\ g.frees = h.frees /\ g.bigFrees = [h.bigFrees EXCEPT ![i] = h.node[link]]
        /\ DOMAIN g.node = DOMAIN h.node \ {link}
        /\ \A y \in DOMAIN g.node : g.node[y] = h.node[y]
    BY <2>3, <2>4 DEF SameArrays
  <2>6. Top(g, k) = h.node[link]
    <3>1. Top(g, k) = g.bigFrees[i] /\ i \in DOMAIN h.bigFrees
      BY <1>1, TopIs DEF WHeap
    <3> QED
      BY <2>5, <3>1
  <2>7. ASSUME NEW j \in SlotK, j # k
        PROVE  Top(g, j) = Top(h, j)
    <3>1. CASE j \in SmallK
      BY <2>5, <3>1, TopIs
    <3>2. CASE j \in BigK
      <4>1. j - PageLog # i
        BY <2>7, SlotKFacts, PageIsTwo
      <4>2. Top(g, j) = g.bigFrees[j - PageLog] /\ Top(h, j) = h.bigFrees[j - PageLog]
        BY <3>2, TopIs
      <4>3. j - PageLog \in DOMAIN h.bigFrees
        BY <1>1, <3>2, SlotKFacts DEF WHeap
      <4> QED
        BY <2>5, <4>1, <4>2, <4>3
    <3> QED
      BY <3>1, <3>2, SlotKFacts
  <2>8. \E m : Taken(g, L, f, m, Top(h, k), k)
    BY <1>1, <1>2, <2>4, <2>5, <2>6, <2>7, PopGood
  <2> QED
    BY <1>1, <2>1, <2>5, <2>8
<1>3. CASE top = 0 /\ h.pages + Two(i) <= WasmMaxPages
  <2> DEFINE g == [h EXCEPT !.pages = @ + Two(i)]
  <2>1. t = [addr |-> WPage(h.pages), heap |-> g]
    BY <1>1, <1>3 DEF Wasm!TakePages, WPage
  <2>2. /\ WHeap(g) /\ g.pages = h.pages + Two(i) /\ g.nextAddrs = h.nextAddrs
        /\ g.frees = h.frees /\ g.bigFrees = h.bigFrees
        /\ g.node = h.node /\ g.header = h.header
    BY <1>1, SetPages, TwoFacts
  <2> HIDE DEF g
  <2>3. \A j \in SlotK : Top(g, j) = Top(h, j)
    BY <2>2 DEF Top
  <2>4. Taken(g, L, f, n, WPage(h.pages), k)
    BY <1>1, <2>2, <2>3, GrowGood
  <2> QED
    BY <2>1, <2>2, <2>4
<1>4. CASE top = 0 /\ ~(h.pages + Two(i) <= WasmMaxPages)
  <2>1. t = [addr |-> 0, heap |-> h]
    BY <1>1, <1>4 DEF Wasm!TakePages
  <2> QED
    BY <2>1
<1> QED
  BY <1>2, <1>3, <1>4

\* The next slot of a class is cut from a to e, which is nobody else's.
LEMMA CutGood ==
  ASSUME NEW h, NEW L, NEW f, NEW n, WGood(h, L, f, n), NEW k \in SmallK,
         NEW a \in Nat, NEW e \in Nat, a + Two(k) <= e, CutTo(a + Two(k), k),
         (a + Two(k)) % WasmPageSize # 0 => PageEnd(a + Two(k)) = e,
         WPage(InitialPages) <= a, e <= WPage(h.pages),
         \A p \in WParts(h, L, f, n) : p # RestPart(h, k) => Off(p, a, e)
  PROVE  Taken([h EXCEPT !.nextAddrs[k - MinClass] = a + Two(k)], L, f, n, a, k)
<1> DEFINE z == a + Two(k)
           g == [h EXCEPT !.nextAddrs[k - MinClass] = z]
<1>1. k \in SlotK /\ k \in Nat /\ k < PageLog /\ k - MinClass \in 0 .. Wasm!ClassCount - 1
      /\ Two(k) \in Nat /\ Two(k) > 0 /\ z \in Nat /\ a < z
  <2>1. k \in SlotK /\ k \in Nat /\ k < PageLog /\ k - MinClass \in 0 .. Wasm!ClassCount - 1
    BY SlotKFacts
  <2>2. Two(k) \in Nat /\ Two(k) > 0
    BY <2>1, SlotKFacts
  <2> QED
    BY <2>1, <2>2
<1>2. z <= e /\ CutTo(z, k) /\ (z % WasmPageSize # 0 => PageEnd(z) = e)
  OBVIOUS
<1>3. WHeap(h)
  BY DEF WGood
<1> HIDE DEF z
<1>4. /\ WHeap(g) /\ g.pages = h.pages
      /\ g.nextAddrs = [h.nextAddrs EXCEPT ![k - MinClass] = z]
      /\ g.frees = h.frees /\ g.bigFrees = h.bigFrees
      /\ g.node = h.node /\ g.header = h.header
  BY <1>1, <1>3, SetNext
<1> HIDE DEF g
<1>5. /\ NextAddr(g, k) = z
      /\ \A j \in SmallK : j # k => NextAddr(g, j) = NextAddr(h, j)
  <2>1. DOMAIN h.nextAddrs = 0 .. Wasm!ClassCount - 1
    BY <1>3 DEF WHeap
  <2>2. \A j \in SmallK :
          j # k => j - MinClass # k - MinClass /\ j - MinClass \in 0 .. Wasm!ClassCount - 1
    BY <1>1, SlotKFacts, WasmConstants
  <2> QED
    BY <1>1, <1>4, <2>1, <2>2 DEF NextAddr
<1>6. BlockParts(g, L) = BlockParts(h, L)
  BY <1>4 DEF BlockParts, BlockPart, SlotAddr, SlotLen
<1>7. ASSUME NEW p \in WParts(g, L, f, n)
      PROVE  (p \in WParts(h, L, f, n) /\ p # RestPart(h, k))
             \/ (HasRest(g, k) /\ p = RestPart(g, k))
  <2>1. CASE \E b \in L : p = BlockPart(g, b)
    <3>1. PICK b \in L : p = BlockPart(g, b)
      BY <2>1
    <3>2. p = BlockPart(h, b)
      BY <1>4, <3>1 DEF BlockPart, SlotAddr, SlotLen
    <3> QED
      BY <3>2, PartsAre, PartsDiffer
  <2>2. CASE \E j \in SlotK : \E i \in 1 .. n[j] : p = FreePart(f, j, i)
    BY <2>2, PartsAre, PartsDiffer
  <2>3. CASE \E j \in SmallK : HasRest(g, j) /\ p = RestPart(g, j)
    <3>1. PICK j \in SmallK : HasRest(g, j) /\ p = RestPart(g, j)
      BY <2>3
    <3>2. CASE j # k
      <4>1. RestPart(g, j) = RestPart(h, j) /\ HasRest(h, j)
        BY <1>5, <3>1, <3>2 DEF RestPart, HasRest
      <4>2. RestPart(h, j) \in WParts(h, L, f, n)
        BY <4>1, PartsAre
      <4>3. RestPart(h, j) # RestPart(h, k)
        BY <3>2, PartsDiffer
      <4> QED
        BY <3>1, <4>1, <4>2, <4>3
    <3> QED
      BY <3>1, <3>2
  <2> QED
    BY <2>1, <2>2, <2>3, PartsAre
<1>8. HasRest(g, k) => RestPart(g, k).lo = z /\ RestPart(g, k).hi = e
  BY <1>2, <1>5 DEF HasRest, RestPart
<1>9. ASSUME NEW p \in WParts(g, L, f, n), NEW q \in WParts(g, L, f, n)
      PROVE  p = q \/ Off(p, q.lo, q.hi)
  <2>1. CASE p \in WParts(h, L, f, n) /\ q \in WParts(h, L, f, n)
    BY <2>1 DEF WGood, Disj
  <2>2. CASE HasRest(g, k) /\ p = RestPart(g, k) /\ q \in WParts(h, L, f, n) /\ q # RestPart(h, k)
    <3>1. Off(q, a, e) /\ q.lo \in Nat /\ q.hi \in Nat
      BY <2>2 DEF WGood, InMemory
    <3> QED
      BY <1>1, <1>8, <2>2, <3>1 DEF Off
  <2>3. CASE HasRest(g, k) /\ q = RestPart(g, k) /\ p \in WParts(h, L, f, n) /\ p # RestPart(h, k)
    <3>1. Off(p, a, e) /\ p.lo \in Nat /\ p.hi \in Nat
      BY <2>3 DEF WGood, InMemory
    <3> QED
      BY <1>1, <1>8, <2>3, <3>1 DEF Off
  <2> QED
    BY <1>7, <2>1, <2>2, <2>3
<1>10. ASSUME NEW p \in WParts(g, L, f, n)
       PROVE  InMemory(g, p) /\ Off(p, a, z)
  <2>0. WPage(InitialPages) \in Nat /\ WPage(h.pages) \in Nat
    BY <1>3, WPageFacts, WasmConstants DEF WHeap
  <2>1. CASE p \in WParts(h, L, f, n) /\ p # RestPart(h, k)
    <3>1. InMemory(h, p) /\ Off(p, a, e)
      BY <2>1 DEF WGood
    <3> QED
      BY <1>1, <1>2, <1>4, <3>1 DEF InMemory, Off
  <2>2. CASE HasRest(g, k) /\ p = RestPart(g, k)
    BY <1>1, <1>2, <1>4, <1>8, <2>0, <2>2 DEF InMemory, Off
  <2> QED
    BY <1>7, <2>1, <2>2
<1>11. \A j \in SmallK : CutTo(NextAddr(g, j), j)
  BY <1>2, <1>5 DEF WGood
<1>12. \A b \in L : Held(g, b)
  BY <1>4 DEF WGood, Held, SlotAddr, SlotLen
<1>13. /\ \A j \in SlotK : f[j][0] = 0 /\ Top(g, j) = f[j][n[j]]
       /\ \A j \in SlotK : \A i \in 1 .. n[j] : Listed(g, f, j, i)
  BY <1>4 DEF WGood, Listed, Top
<1>14. WGood(g, L, f, n)
  BY <1>4, <1>9, <1>10, <1>11, <1>12, <1>13 DEF WGood, Disj
<1>15. Clear(g, L, f, n, a, z)
  BY <1>10 DEF Clear
<1>16. WPage(InitialPages) <= a /\ z <= WPage(g.pages)
  <2>1. WPage(h.pages) \in Nat
    BY <1>3, WPageFacts DEF WHeap
  <2> QED
    BY <1>1, <1>2, <1>4, <2>1
<1>17. k \notin BigK
  BY <1>1, SlotKFacts
<1>18. Taken(g, L, f, n, a, k)
  BY <1>1, <1>14, <1>15, <1>16, <1>17 DEF Taken, z
<1> QED
  BY <1>18 DEF g, z

\* The slot cu_wasm_alloc takes below a page.
LEMMA TakeSmallGood ==
  ASSUME NEW h, NEW L, NEW f, NEW n, WGood(h, L, f, n), NEW k \in SmallK,
         BigClassCount > 0
  PROVE  LET t == Wasm!TakeSmall(h, Two(k))
         IN  t.addr # 0 => \E m : Taken(t.heap, L, f, m, t.addr, k)
<1> DEFINE t == Wasm!TakeSmall(h, Two(k))
           c == k - MinClass
           top == h.frees[c]
           next == h.nextAddrs[c]
           link == LinkOf(top, k)
           page == Wasm!TakePages(h, 1)
<1>1. /\ k \in SlotK /\ k \in Nat /\ k < PageLog /\ c \in 0 .. Wasm!ClassCount - 1
      /\ Wasm!Class(Two(k)) = c /\ Wasm!Link(top, Two(k)) = link
      /\ Top(h, k) = top /\ NextAddr(h, k) = next /\ WHeap(h) /\ Two(k) \in Nat
      /\ next \in Nat
  <2>1. k \in SlotK /\ k \in Nat /\ k < PageLog /\ c \in 0 .. Wasm!ClassCount - 1
    BY SlotKFacts
  <2>2. WHeap(h)
    BY DEF WGood
  <2>3. next \in Nat
    BY <2>1, <2>2 DEF WHeap
  <2> QED
    BY <2>1, <2>2, <2>3, ClassOfSlot, LinkIs, TopIs, SlotKFacts DEF NextAddr
<1>2. t = IF top # 0
          THEN [addr |-> top,
                heap |-> Wasm!Unlinked([h EXCEPT !.frees[c] = h.node[link]], link)]
          ELSE IF next % WasmPageSize # 0
          THEN [addr |-> next, heap |-> [h EXCEPT !.nextAddrs[c] = @ + Two(k)]]
          ELSE IF page.addr # 0
          THEN [addr |-> page.addr,
                heap |-> [page.heap EXCEPT !.nextAddrs[c] = page.addr + Two(k)]]
          ELSE page
  BY <1>1 DEF Wasm!TakeSmall
<1> HIDE DEF t
<1>3. CASE top # 0
  <2> DEFINE h1 == [h EXCEPT !.frees[c] = h.node[link]]
             g == Wasm!Unlinked(h1, link)
  <2>1. t = [addr |-> top, heap |-> g]
    BY <1>2, <1>3
  <2>2. h.node[link] \in Nat
    <3>1. n[k] \in Nat /\ f[k][0] = 0 /\ top = f[k][n[k]]
      BY <1>1 DEF WGood
    <3>2. n[k] \in 1 .. n[k]
      BY <1>3, <3>1
    <3>3. Listed(h, f, k, n[k]) /\ f[k][n[k] - 1] \in Nat
      BY <1>1, <3>2, PartWords DEF WGood
    <3> QED
      BY <3>1, <3>3 DEF Listed
  <2>3. /\ WHeap(h1) /\ h1.pages = h.pages /\ h1.nextAddrs = h.nextAddrs
        /\ h1.frees = [h.frees EXCEPT ![c] = h.node[link]] /\ h1.bigFrees = h.bigFrees
        /\ h1.node = h.node /\ h1.header = h.header
    BY <1>1, <2>2, SetFree
  <2> HIDE DEF h1
  <2>4. /\ WHeap(g) /\ SameArrays(g, h1) /\ g.header = h1.header
        /\ DOMAIN g.node = DOMAIN h1.node \ {link}
        /\ \A y \in DOMAIN g.node : g.node[y] = h1.node[y]
    BY <2>3, UnlinkedIs
  <2> HIDE DEF g
  <2>5. /\ g.pages = h.pages /\ g.nextAddrs = h.nextAddrs /\ g.header = h.header
        /\ g.frees = [h.frees EXCEPT ![c] = h.node[link]] /\ g.bigFrees = h.bigFrees
        /\ DOMAIN g.node = DOMAIN h.node \ {link}
        /\ \A y \in DOMAIN g.node : g.node[y] = h.node[y]
    BY <2>3, <2>4 DEF SameArrays
  <2>6. Top(g, k) = h.node[link]
    <3>1. Top(g, k) = g.frees[c] /\ c \in DOMAIN h.frees
      BY <1>1, TopIs DEF WHeap
    <3> QED
      BY <2>5, <3>1
  <2>7. ASSUME NEW j \in SlotK, j # k
        PROVE  Top(g, j) = Top(h, j)
    <3>1. CASE j \in BigK
      BY <2>5, <3>1, TopIs
    <3>2. CASE j \in SmallK
      <4>1. j - MinClass # c
        BY <1>1, <2>7, SlotKFacts, WasmConstants
      <4>2. Top(g, j) = g.frees[j - MinClass] /\ Top(h, j) = h.frees[j - MinClass]
        BY <3>2, TopIs
      <4>3. j - MinClass \in DOMAIN h.frees
        BY <1>1, <3>2, SlotKFacts DEF WHeap
      <4> QED
        BY <2>5, <4>1, <4>2, <4>3
    <3> QED
      BY <3>1, <3>2, SlotKFacts
  <2>8. \E m : Taken(g, L, f, m, Top(h, k), k)
    BY <1>1, <1>3, <2>4, <2>5, <2>6, <2>7, PopGood
  <2> QED
    BY <1>1, <2>1, <2>8 DEF t
<1>4. CASE top = 0 /\ next % WasmPageSize # 0
  <2> DEFINE e == PageEnd(next)
  <2>1. t = [addr |-> next, heap |-> [h EXCEPT !.nextAddrs[c] = next + Two(k)]]
    BY <1>1, <1>2, <1>4 DEF WHeap
  <2>2. CutTo(next, k)
    BY <1>1 DEF WGood
  <2>3. /\ e \in Nat /\ next + Two(k) <= e /\ CutTo(next + Two(k), k)
        /\ (next + Two(k)) % WasmPageSize # 0 => PageEnd(next + Two(k)) = e
    BY <1>1, <1>4, <2>2, CutNext
  <2>4. /\ RestPart(h, k) \in WParts(h, L, f, n)
        /\ RestPart(h, k).lo = next /\ RestPart(h, k).hi = e
    BY <1>1, <1>4, PartsAre DEF HasRest, RestPart
  <2> HIDE DEF e
  <2>5. WPage(InitialPages) <= next /\ e <= WPage(h.pages)
    BY <2>4 DEF WGood, InMemory
  <2>6. \A p \in WParts(h, L, f, n) : p # RestPart(h, k) => Off(p, next, e)
    BY <2>4 DEF WGood, Disj
  <2>7. Taken([h EXCEPT !.nextAddrs[c] = next + Two(k)], L, f, n, next, k)
    BY <1>1, <2>3, <2>5, <2>6, CutGood
  <2> QED
    BY <2>1, <2>7 DEF t
<1>5. CASE top = 0 /\ next % WasmPageSize = 0 /\ page.addr # 0
  <2> DEFINE g == page.heap
             a == page.addr
             e == a + WasmPageSize
  <2>1. t = [addr |-> a, heap |-> [g EXCEPT !.nextAddrs[c] = a + Two(k)]]
    BY <1>2, <1>5
  <2>2. 1 = Two(0) /\ 0 \in 0 .. BigClassCount - 1 /\ PageLog + 0 = PageLog
    <3>1. 1 = Two(0)
      BY TwoFacts
    <3> QED
      BY <3>1, PageIsTwo, WasmConstants
  <2>3. PICK m : Taken(g, L, f, m, a, PageLog) /\ g.nextAddrs = h.nextAddrs
    BY <1>5, <2>2, TakePagesGood
  <2> HIDE DEF g, a
  <2>4. /\ WGood(g, L, f, m) /\ PageLog \in SlotK /\ PageLog \in BigK /\ a \in Nat /\ IsPage(a)
        /\ WPage(InitialPages) <= a /\ e <= WPage(g.pages)
        /\ Clear(g, L, f, m, a, e)
    <3>1. PageLog \in SlotK => PageLog \in BigK
      BY SlotKFacts
    <3> QED
      BY <2>3, <3>1, PageIsTwo DEF Taken
  <2>5. /\ a + Two(k) \in Nat /\ CutTo(a + Two(k), k)
        /\ (a + Two(k)) % WasmPageSize # 0
        /\ PageEnd(a + Two(k)) = e
    BY <2>4, CutFirst
  <2>6. e \in Nat /\ a + Two(k) <= e
    <3>1. 2 * Two(k) <= WasmPageSize /\ WasmPageSize \in Nat
      BY PageOfSlots, PageIsTwo
    <3> QED
      BY <1>1, <2>4, <3>1
  <2>7. ~HasRest(g, k)
    BY <1>5, <2>3 DEF HasRest, NextAddr
  <2>8. \A p \in WParts(g, L, f, m) : p # RestPart(g, k) => Off(p, a, e)
    BY <2>4 DEF Clear
  <2> HIDE DEF e
  <2>9. Taken([g EXCEPT !.nextAddrs[c] = a + Two(k)], L, f, m, a, k)
    BY <1>1, <2>4, <2>5, <2>6, <2>7, <2>8, CutGood
  <2> QED
    BY <2>1, <2>9 DEF t
<1>6. CASE top = 0 /\ next % WasmPageSize = 0 /\ page.addr = 0
  BY <1>2, <1>6 DEF t
<1> QED
  BY <1>3, <1>4, <1>5, <1>6

LEMMA TakeGood ==
  ASSUME NEW h, NEW L, NEW f, NEW n, WGood(h, L, f, n),
         NEW size \in WasmSizes, NEW align \in WasmAligns
  PROVE  LET t == Wasm!Take(h, size, align)
         IN  t.addr # 0 => \E m : Taken(t.heap, L, f, m, t.addr, SlotLog(size, align))
<1> DEFINE t == Wasm!Take(h, size, align)
           k == SlotLog(size, align)
<1>1. /\ k \in SlotK /\ Wasm!SlotSize(size, align) = Two(k)
      /\ Wasm!IsSmall(Two(k)) <=> k \in SmallK
      /\ \E i \in 0 .. BigClassCount - 1 :
           Wasm!Pages(Wasm!Needed(size, align)) = Two(i) /\ k <= PageLog + i
  BY LayoutFacts
<1> HIDE DEF k
<1>2. PICK i \in 0 .. BigClassCount - 1 :
        Wasm!Pages(Wasm!Needed(size, align)) = Two(i) /\ k <= PageLog + i
  BY <1>1
<1>3. BigClassCount > 0
  BY <1>2, WasmConstants
<1>4. CASE k \in SmallK
  <2>1. t = Wasm!TakeSmall(h, Two(k))
    BY <1>1, <1>4 DEF Wasm!Take
  <2> QED
    BY <1>3, <1>4, <2>1, TakeSmallGood DEF k
<1>5. CASE k \notin SmallK
  <2>1. t = Wasm!TakePages(h, Two(i))
    BY <1>1, <1>2, <1>5 DEF Wasm!Take
  <2>2. ASSUME t.addr # 0
        PROVE  \E m : Taken(t.heap, L, f, m, t.addr, k)
    <3>1. PICK m : Taken(t.heap, L, f, m, t.addr, PageLog + i)
      BY <2>1, <2>2, TakePagesGood
    <3>2. Taken(t.heap, L, f, m, t.addr, k)
      BY <1>1, <1>2, <3>1, TakenStart
    <3> QED
      BY <3>2
  <2> QED
    BY <2>2 DEF k
<1> QED
  BY <1>4, <1>5

\* Nobody's block begins in a slot nobody owns.
LEMMA TakenFree ==
  ASSUME NEW h, NEW L, NEW f, NEW n, NEW a, NEW k, Taken(h, L, f, n, a, k), NEW b \in L
  PROVE  ~(a <= b.pos /\ b.pos < a + Two(k))
<1>1. WGood(h, L, f, n) /\ a \in Nat /\ Two(k) \in Nat
  BY SlotKFacts DEF Taken
<1>2. Off(BlockPart(h, b), a, a + Two(k))
  BY PartsAre DEF Taken, Clear
<1>3. /\ b.pos \in Nat /\ b.len \in Nat
      /\ BlockPart(h, b).lo \in Nat /\ BlockPart(h, b).hi \in Nat
      /\ BlockPart(h, b).lo + WasmHeaderSize <= b.pos
      /\ b.pos + b.len + WordSize <= BlockPart(h, b).hi
  BY <1>1, PartWords
<1> QED
  BY <1>1, <1>2, <1>3, WasmConstants DEF Off

LEMMA SetHeader ==
  ASSUME NEW o, WHeap(o), NEW hd, NEW g, g = [o EXCEPT !.header = hd]
  PROVE  WHeap(g) /\ SameArrays(g, o) /\ g.node = o.node /\ g.header = hd
<1>1. g = [pages |-> o.pages, nextAddrs |-> o.nextAddrs, frees |-> o.frees,
           bigFrees |-> o.bigFrees, node |-> o.node, header |-> hd]
  BY DEF WHeap
<1>2. /\ g.pages = o.pages /\ g.nextAddrs = o.nextAddrs /\ g.frees = o.frees
      /\ g.bigFrees = o.bigFrees /\ g.node = o.node /\ g.header = hd
  BY <1>1
<1> QED
  BY <1>1, <1>2 DEF WHeap, SameArrays

\* cu_wasm_alloc.
LEMMA AllocWGood ==
  ASSUME NEW h, NEW L, NEW f, NEW n, WGood(h, L, f, n),
         NEW size \in WasmSizes, NEW align \in WasmAligns, Wasm!Allocated(h, size, align).ok
  PROVE  LET new == Wasm!Allocated(h, size, align)
         IN  /\ new.block \in Wasm!Block /\ new.block \notin L
             /\ \E m : WGood(new.heap, L \cup {new.block}, f, m)
<1> DEFINE t == Wasm!Take(h, size, align)
           k == SlotLog(size, align)
           slot == Wasm!SlotSize(size, align)
           a == t.addr
           offset == Wasm!UserOffset(align)
           pos == a + offset
           lo == pos - WasmHeaderSize
           hi == pos + size
           r == [offset |-> offset - WasmHeaderSize, slot |-> slot]
           o == Wasm!Overwritten(t.heap, lo, hi)
           g == [o EXCEPT !.header =
                   [p \in DOMAIN @ \cup {pos} |-> IF p = pos THEN r ELSE @[p]]]
           b == [pos |-> pos, len |-> size]
           new == Wasm!Allocated(h, size, align)
<1>1. new = [ok |-> size # 0 /\ a # 0, block |-> b, heap |-> g]
  BY DEF Wasm!Allocated
<1>2. new.ok
  OBVIOUS
<1>3. a # 0 /\ new.block = b /\ new.heap = g
  <2> HIDE DEF a, b, g, new
  <2> QED
    BY <1>1, <1>2
<1>4. PICK m : Taken(t.heap, L, f, m, a, k)
  BY <1>3, TakeGood
<1> HIDE DEF t, a, new, k, slot, offset
<1>5. /\ k \in SlotK /\ slot = Two(k) /\ Two(k) \in Nat
      /\ offset \in Nat /\ WasmHeaderSize <= offset /\ size \in Nat
      /\ offset + size + WordSize <= Two(k)
  BY LayoutFacts, OffsetBounds, SlotKFacts, WasmConstants DEF k, slot, offset
<1>6. WGood(t.heap, L, f, m) /\ WHeap(t.heap) /\ a \in Nat
  BY <1>4 DEF Taken, WGood
<1>7. /\ a + Two(k) \in Nat /\ lo \in Nat /\ hi \in Nat /\ pos \in Nat
      /\ a <= lo /\ hi <= a + Two(k)
      /\ a <= pos /\ pos < a + Two(k) /\ a < a + Two(k)
      /\ pos + size + WordSize <= a + Two(k) /\ pos - (r.offset + WasmHeaderSize) = a
      /\ r.offset \in Nat /\ r.slot = Two(k)
  BY <1>5, <1>6, WasmConstants
<1>8. b \in Wasm!Block /\ b.pos = pos /\ b.len = size
  BY <1>5, <1>7 DEF Wasm!Block
<1> HIDE DEF pos, lo, hi, r, b
<1>9. /\ WHeap(o) /\ SameArrays(o, t.heap)
      /\ DOMAIN o.node = {x \in DOMAIN t.heap.node : x + WordSize <= lo \/ hi <= x}
      /\ \A x \in DOMAIN o.node : o.node[x] = t.heap.node[x]
      /\ DOMAIN o.header = {p \in DOMAIN t.heap.header : p <= lo \/ hi <= p - WasmHeaderSize}
      /\ \A p \in DOMAIN o.header : o.header[p] = t.heap.header[p]
  BY <1>6, OverwrittenIs
<1> HIDE DEF o
<1> DEFINE hd == [p \in DOMAIN o.header \cup {pos} |-> IF p = pos THEN r ELSE o.header[p]]
<1>10. g = [o EXCEPT !.header = hd]
  BY <1>9 DEF WHeap
<1>11. /\ DOMAIN hd = DOMAIN o.header \cup {pos} /\ hd[pos] = r
       /\ \A p \in DOMAIN o.header : p # pos => hd[p] = o.header[p]
  OBVIOUS
<1> HIDE DEF g, hd
<1>12. /\ WHeap(g) /\ SameArrays(g, o) /\ g.node = o.node
       /\ DOMAIN g.header = DOMAIN o.header \cup {pos} /\ g.header[pos] = r
       /\ \A p \in DOMAIN o.header : p # pos => g.header[p] = o.header[p]
  BY <1>9, <1>10, <1>11, SetHeader
<1>13. g.pages = t.heap.pages /\ g.nextAddrs = t.heap.nextAddrs
       /\ g.frees = t.heap.frees /\ g.bigFrees = t.heap.bigFrees
  BY <1>9, <1>12 DEF SameArrays
<1>14. IsFiniteSet(DOMAIN g.node)
  <2>1. IsFiniteSet(DOMAIN t.heap.node)
    BY <1>6 DEF WGood
  <2>2. DOMAIN g.node \in SUBSET DOMAIN t.heap.node
    BY <1>9, <1>12
  <2> QED
    BY <2>1, <2>2, FS_Subset
<1>15. /\ t.heap.pages <= g.pages
       /\ \A j \in SlotK : Top(g, j) = Top(t.heap, j)
       /\ \A x \in DOMAIN t.heap.node :
            x + WordSize <= lo \/ hi <= x => x \in DOMAIN g.node /\ g.node[x] = t.heap.node[x]
  <2>1. t.heap.pages \in Nat
    BY <1>6 DEF WHeap
  <2> QED
    BY <1>9, <1>12, <1>13, <2>1 DEF Top
<1>16. \A c \in L :
         /\ c.pos \in DOMAIN t.heap.header
         /\ c.pos <= lo \/ hi <= c.pos - WasmHeaderSize
         /\ ~(a <= c.pos /\ c.pos < a + Two(k))
         => c.pos \in DOMAIN g.header /\ g.header[c.pos] = t.heap.header[c.pos]
  BY <1>7, <1>9, <1>12
<1>17. Clear(t.heap, L, f, m, a, a + Two(k))
  BY <1>4 DEF Taken
<1>18. WGood(g, L, f, m) /\ WParts(g, L, f, m) \subseteq WParts(t.heap, L, f, m)
  <2>1. Written(t.heap, L, a, a + Two(k), lo, hi, g)
    BY <1>6, <1>7, <1>12, <1>13, <1>14, <1>15, <1>16 DEF Written
  <2> QED
    BY <1>6, <1>17, <2>1, WrittenGood
<1>19. Taken(g, L, f, m, a, k)
  BY <1>4, <1>15, <1>18, TakenStays
<1>20. /\ b.pos \in DOMAIN g.header /\ g.header[b.pos].offset \in Nat
       /\ SlotAddr(g, b) = a /\ SlotLen(g, b) = Two(k)
       /\ b.pos + b.len + WordSize <= a + Two(k)
  BY <1>7, <1>8, <1>12 DEF SlotAddr, SlotLen
<1>21. WGood(g, L \cup {b}, f, m)
  BY <1>8, <1>19, <1>20, AddBlock
<1>22. b \notin L
  BY <1>7, <1>8, <1>19, TakenFree
<1> QED
  BY <1>3, <1>8, <1>21, <1>22 DEF new

-----------------------------------------------------------------------------
(* cu_wasm_free and the resizes                                            *)

\* A block that goes leaves its slot to nobody.
LEMMA DropGood ==
  ASSUME NEW h, NEW L, NEW f, NEW n, WGood(h, L, f, n), NEW b \in L,
         NEW g, WHeap(g), SameArrays(g, h), g.node = h.node,
         \A c \in L \ {b} : c.pos \in DOMAIN g.header /\ g.header[c.pos] = h.header[c.pos]
  PROVE  \E k \in SlotK : /\ SlotLen(h, b) = Two(k)
                          /\ Taken(g, L \ {b}, f, n, SlotAddr(h, b), k)
<1>1. Held(h, b)
  BY DEF WGood
<1>2. PICK k \in SlotK : /\ SlotLen(h, b) = Two(k)
                         /\ k \in BigK => IsPage(SlotAddr(h, b))
  BY <1>1 DEF Held
<1> DEFINE S == L \ {b}
           a == SlotAddr(h, b)
           z == a + Two(k)
           p == BlockPart(h, b)
<1>3. a \in Nat /\ Two(k) \in Nat /\ p.lo = a /\ p.hi = z
  BY <1>1, <1>2, SlotKFacts DEF Held, BlockPart
<1>11. /\ S \subseteq L /\ \A c \in S : c # b
       /\ \A c \in S : c.pos \in DOMAIN g.header /\ g.header[c.pos] = h.header[c.pos]
  OBVIOUS
<1> HIDE DEF S
<1>4. p \in WParts(h, L, f, n)
  BY PartsAre
<1>5. g.pages = h.pages /\ h.pages \in Nat /\ h.pages <= g.pages
  BY DEF WGood, WHeap, SameArrays
<1>6. Leaves(h, L, f, n, g, S, n)
  <2>1. /\ S \subseteq L /\ n \in [SlotK -> Nat] /\ IsFiniteSet(DOMAIN g.node)
        /\ g.nextAddrs = h.nextAddrs
    BY <1>11 DEF WGood, SameArrays
  <2>2. \A j \in SlotK : n[j] <= n[j] /\ Top(g, j) = f[j][n[j]]
    BY SameTops DEF WGood
  <2>3. \A j \in SlotK : \A i \in 1 .. n[j] : LinkOf(f[j][i], j) \in DOMAIN g.node
    BY DEF WGood, Listed
  <2> QED
    BY <1>5, <1>11, <2>1, <2>2, <2>3 DEF Leaves
<1>7. /\ WGood(g, S, f, n)
      /\ WParts(g, S, f, n) \subseteq WParts(h, L, f, n)
      /\ \A c \in S : BlockPart(g, c) = BlockPart(h, c)
  BY <1>6, LeftGood
<1> HIDE DEF a, z, p
<1>8. ASSUME NEW q \in WParts(g, S, f, n)
      PROVE  Off(q, a, z)
  <2>1. q # p
    <3>1. CASE \E c \in S : q = BlockPart(g, c)
      <4>1. PICK c \in S : q = BlockPart(g, c)
        BY <3>1
      <4>2. c \in Wasm!Block /\ b \in Wasm!Block /\ c # b
        BY <1>11 DEF WGood, Held
      <4> QED
        BY <1>7, <4>1, <4>2, PartsDiffer DEF p
    <3>2. CASE \E j \in SlotK : \E i \in 1 .. n[j] : q = FreePart(f, j, i)
      BY <3>2, PartsDiffer DEF p
    <3>3. CASE \E j \in SmallK : HasRest(g, j) /\ q = RestPart(g, j)
      BY <3>3, PartsDiffer DEF p
    <3> QED
      BY <3>1, <3>2, <3>3, PartsAre
  <2>2. q \in WParts(h, L, f, n)
    BY <1>7
  <2>3. Off(q, p.lo, p.hi)
    BY <1>4, <2>1, <2>2 DEF WGood, Disj
  <2> QED
    BY <1>3, <2>3
<1>9. WPage(InitialPages) <= a /\ z <= WPage(g.pages)
  <2>1. InMemory(h, p)
    BY <1>4 DEF WGood
  <2> QED
    BY <1>3, <1>5, <2>1 DEF InMemory
<1>10. Taken(g, S, f, n, a, k)
  BY <1>2, <1>3, <1>7, <1>8, <1>9 DEF Taken, Clear, a, z
<1> QED
  BY <1>2, <1>10 DEF a, S

\* A slot is put at the head of its list.
LEMMA PushGood ==
  ASSUME NEW h, NEW S, NEW f, NEW n, NEW a, NEW k, Taken(h, S, f, n, a, k),
         WordSize <= Two(k), LinkOf(a, k) \in DOMAIN h.node,
         h.node[LinkOf(a, k)] = Top(h, k),
         NEW g, WHeap(g), g.pages = h.pages, g.nextAddrs = h.nextAddrs,
         g.node = h.node, g.header = h.header,
         Top(g, k) = a, \A j \in SlotK : j # k => Top(g, j) = Top(h, j)
  PROVE  \E f2, n2 : WGood(g, S, f2, n2)
<1> DEFINE t == n[k]
           u == n[k] + 1
           f2 == [f EXCEPT ![k] = [f[k] EXCEPT ![u] = a]]
           n2 == [n EXCEPT ![k] = u]
           p == FreePart(f2, k, u)
<1>1. /\ WGood(h, S, f, n) /\ k \in SlotK /\ a \in Nat /\ Two(k) \in Nat
      /\ k \in BigK => IsPage(a)
  BY SlotKFacts DEF Taken
<1>2. /\ f \in [SlotK -> [Nat -> Nat]] /\ n \in [SlotK -> Nat] /\ t \in Nat
      /\ \A j \in SlotK : f[j] \in [Nat -> Nat] /\ n[j] \in Nat
  BY <1>1 DEF WGood
<1>3. u \in Nat /\ u = t + 1 /\ u # 0
  BY <1>2
<1> HIDE DEF u
<1>4. /\ f2[k] = [f[k] EXCEPT ![u] = a] /\ \A j \in SlotK : j # k => f2[j] = f[j]
      /\ n2[k] = u /\ \A j \in SlotK : j # k => n2[j] = n[j]
      /\ n2 \in [SlotK -> Nat]
  BY <1>1, <1>2, <1>3
<1>5. [f[k] EXCEPT ![u] = a] \in [Nat -> Nat]
  BY <1>1, <1>2, <1>3
<1>6. f2 \in [SlotK -> [Nat -> Nat]]
  BY <1>1, <1>2, <1>5
<1> HIDE DEF f2, n2
<1>7. f2[k][u] = a /\ \A j \in SlotK, i \in Nat : ~(j = k /\ i = u) => f2[j][i] = f[j][i]
  BY <1>1, <1>2, <1>3, <1>4
<1>8. ASSUME NEW j \in SlotK, NEW i \in 1 .. n2[j]
      PROVE  \/ j = k /\ i = u
             \/ /\ i \in 1 .. n[j] /\ i \in Nat /\ i - 1 \in Nat
                /\ f2[j][i] = f[j][i] /\ f2[j][i - 1] = f[j][i - 1]
  <2>1. CASE j = k
    <3>1. i \in 1 .. u
      BY <1>4, <2>1
    <3>2. i = u \/ i \in 1 .. t
      <4>1. t \in Nat /\ u = t + 1
        BY <1>2, <1>3
      <4> HIDE DEF t
      <4> QED
        BY <3>1, <4>1
    <3>3. i \in 1 .. t => i \in Nat /\ i - 1 \in Nat /\ i # u /\ i - 1 # u
      BY <1>2, <1>3
    <3> QED
      BY <1>7, <2>1, <3>2, <3>3
  <2>2. CASE j # k
    <3>1. i \in 1 .. n[j] /\ n[j] \in Nat
      BY <1>2, <1>4, <2>2
    <3>2. i \in Nat /\ i - 1 \in Nat
      BY <3>1
    <3> QED
      BY <1>7, <2>2, <3>1, <3>2
  <2> QED
    BY <2>1, <2>2
<1>9. p.lo = a /\ p.hi = a + Two(k)
  BY <1>7 DEF FreePart
<1> HIDE DEF p
<1>10. ASSUME NEW q \in WParts(g, S, f2, n2)
       PROVE  q \in WParts(h, S, f, n) \/ q = p
  <2>1. CASE \E c \in S : q = BlockPart(g, c)
    <3>1. PICK c \in S : q = BlockPart(g, c)
      BY <2>1
    <3>2. q = BlockPart(h, c)
      BY <3>1 DEF BlockPart, SlotAddr, SlotLen
    <3> QED
      BY <3>2, PartsAre
  <2>2. CASE \E j \in SlotK : \E i \in 1 .. n2[j] : q = FreePart(f2, j, i)
    <3>1. PICK j \in SlotK : \E i \in 1 .. n2[j] : q = FreePart(f2, j, i)
      BY <2>2
    <3>2. PICK i \in 1 .. n2[j] : q = FreePart(f2, j, i)
      BY <3>1
    <3>3. CASE j = k /\ i = u
      BY <3>2, <3>3 DEF p
    <3>4. CASE i \in 1 .. n[j] /\ f2[j][i] = f[j][i]
      <4>1. q = FreePart(f, j, i)
        BY <3>2, <3>4 DEF FreePart
      <4> QED
        BY <3>4, <4>1, PartsAre
    <3> QED
      BY <1>8, <3>3, <3>4
  <2>3. CASE \E j \in SmallK : HasRest(g, j) /\ q = RestPart(g, j)
    <3>1. PICK j \in SmallK : HasRest(g, j) /\ q = RestPart(g, j)
      BY <2>3
    <3>2. HasRest(h, j) /\ q = RestPart(h, j)
      BY <3>1 DEF HasRest, RestPart, NextAddr
    <3> QED
      BY <3>2, PartsAre
  <2> QED
    BY <2>1, <2>2, <2>3, PartsAre
<1>11. ASSUME NEW q \in WParts(h, S, f, n)
       PROVE  Off(q, p.lo, p.hi) /\ Off(p, q.lo, q.hi)
  <2>1. Off(q, a, a + Two(k))
    BY DEF Taken, Clear
  <2> QED
    BY <1>9, <2>1 DEF Off
<1>12. Disj(WParts(g, S, f2, n2))
  <2>1. Disj(WParts(h, S, f, n))
    BY <1>1 DEF WGood
  <2> QED
    BY <1>10, <1>11, <2>1 DEF Disj
<1>13. ASSUME NEW q \in WParts(g, S, f2, n2)
       PROVE  InMemory(g, q)
  <2>1. CASE q \in WParts(h, S, f, n)
    BY <1>1, <2>1 DEF WGood, InMemory
  <2>2. CASE q = p
    <3>1. WPage(InitialPages) <= a /\ a + Two(k) <= WPage(h.pages) /\ a + Two(k) \in Nat
      BY <1>1 DEF Taken
    <3> QED
      BY <1>1, <1>9, <2>2, <3>1 DEF InMemory
  <2> QED
    BY <1>10, <2>1, <2>2
<1>14. ASSUME NEW j \in SlotK
       PROVE  f2[j][0] = 0 /\ Top(g, j) = f2[j][n2[j]]
  <2>1. 0 \in Nat /\ f[j][0] = 0 /\ Top(h, j) = f[j][n[j]]
    BY <1>1 DEF WGood
  <2>2. f2[j][0] = 0
    BY <1>3, <1>7, <2>1
  <2>3. Top(g, j) = f2[j][n2[j]]
    BY <1>2, <1>4, <1>7, <2>1
  <2> QED
    BY <2>2, <2>3
<1>15. ASSUME NEW j \in SlotK, NEW i \in 1 .. n2[j]
       PROVE  Listed(g, f2, j, i)
  <2>1. CASE j = k /\ i = u
    <3>1. Top(h, k) = f[k][t] /\ u - 1 = t /\ t # u
      BY <1>1, <1>2, <1>3 DEF WGood
    <3>2. f2[k][u - 1] = f[k][t]
      BY <1>1, <1>2, <1>7, <3>1
    <3> QED
      BY <1>1, <1>7, <2>1, <3>1, <3>2 DEF Listed
  <2>2. CASE i \in 1 .. n[j] /\ f2[j][i] = f[j][i] /\ f2[j][i - 1] = f[j][i - 1]
    <3>1. Listed(h, f, j, i)
      BY <1>1, <2>2 DEF WGood
    <3> QED
      BY <2>2, <3>1 DEF Listed
  <2> QED
    BY <1>8, <2>1, <2>2
<1>16. \A c \in S : Held(g, c)
  BY <1>1 DEF WGood, Held, SlotAddr, SlotLen
<1>17. (\A j \in SmallK : CutTo(NextAddr(g, j), j)) /\ IsFiniteSet(DOMAIN g.node)
  BY <1>1 DEF WGood, NextAddr
<1>18. WGood(g, S, f2, n2)
  BY <1>4, <1>6, <1>12, <1>13, <1>14, <1>15, <1>16, <1>17 DEF WGood
<1> QED
  BY <1>18

\* cu_wasm_free.
LEMMA FreeWGood ==
  ASSUME NEW h, NEW L, NEW f, NEW n, WGood(h, L, f, n), NEW b \in L
  PROVE  \E f2, n2 : WGood(Wasm!Freed(h, b), L \ {b}, f2, n2)
<1> DEFINE S == L \ {b}
           a == SlotAddr(h, b)
           left == {p \in DOMAIN h.header : p # b.pos}
           hd == [p \in left |-> h.header[p]]
           gone == [h EXCEPT !.header = hd]
<1>1. /\ Held(h, b) /\ WHeap(h)
      /\ \A c \in S : c \in L /\ c \in Wasm!Block /\ c.pos \in DOMAIN h.header
  BY DEF WGood, Held
<1>2. \A c \in S : c.pos # b.pos
  <2>1. TAKE c \in S
  <2>2. c # b /\ c \in Wasm!Block /\ b \in Wasm!Block
    BY <1>1 DEF Held
  <2>3. BlockPart(h, c) # BlockPart(h, b)
    BY <2>2, PartsDiffer
  <2>4. Off(BlockPart(h, c), BlockPart(h, b).lo, BlockPart(h, b).hi)
    BY <1>1, <2>3, PartsAre DEF WGood, Disj
  <2>5. /\ b.pos \in Nat /\ b.len \in Nat /\ c.pos \in Nat /\ c.len \in Nat
        /\ BlockPart(h, b).lo \in Nat /\ BlockPart(h, b).hi \in Nat
        /\ BlockPart(h, b).lo + WasmHeaderSize <= b.pos
        /\ b.pos + b.len + WordSize <= BlockPart(h, b).hi
        /\ BlockPart(h, c).lo \in Nat /\ BlockPart(h, c).hi \in Nat
        /\ BlockPart(h, c).lo + WasmHeaderSize <= c.pos
        /\ c.pos + c.len + WordSize <= BlockPart(h, c).hi
    BY <1>1, PartWords
  <2> QED
    BY <2>4, <2>5, WasmConstants DEF Off
<1>3. DOMAIN hd = left /\ \A p \in left : hd[p] = h.header[p]
  OBVIOUS
<1>4. [h EXCEPT !.header = [p \in DOMAIN @ \ {b.pos} |-> @[p]]] = gone
  <2>1. DOMAIN h.header \ {b.pos} = left
    OBVIOUS
  <2>2. [h EXCEPT !.header = [p \in DOMAIN @ \ {b.pos} |-> @[p]]]
         = [h EXCEPT !.header = [p \in DOMAIN h.header \ {b.pos} |-> h.header[p]]]
    BY <1>1 DEF WHeap
  <2> HIDE DEF left
  <2> QED
    BY <2>1, <2>2
<1> DEFINE gn == gone
<1>5. gn = [h EXCEPT !.header = hd]
  OBVIOUS
<1> HIDE DEF hd, gn
<1>6. WHeap(gn) /\ SameArrays(gn, h) /\ gn.node = h.node /\ gn.header = hd
  BY <1>1, <1>5, SetHeader
<1>7. \A c \in S : c.pos \in DOMAIN gn.header /\ gn.header[c.pos] = h.header[c.pos]
  BY <1>1, <1>2, <1>3, <1>6
<1>8. PICK k \in SlotK : SlotLen(h, b) = Two(k) /\ Taken(gn, S, f, n, a, k)
  BY <1>6, <1>7, DropGood
<1> HIDE DEF S, a
<1>9. /\ WGood(gn, S, f, n) /\ a \in Nat /\ Two(k) \in Nat /\ WordSize <= Two(k)
      /\ k \in BigK => IsPage(a)
  <2>1. /\ b.pos \in Nat /\ b.len \in Nat /\ BlockPart(h, b).lo \in Nat
        /\ BlockPart(h, b).lo + WasmHeaderSize <= b.pos
        /\ b.pos + b.len + WordSize <= BlockPart(h, b).hi
    BY PartWords
  <2>2. BlockPart(h, b).lo = a /\ BlockPart(h, b).hi = a + Two(k)
    BY <1>8 DEF BlockPart, a
  <2>3. Two(k) \in Nat
    BY SlotKFacts
  <2> QED
    BY <1>8, <2>1, <2>2, <2>3, WasmConstants DEF Taken
<1> DEFINE x == LinkOf(a, k)
           top == Top(h, k)
           z == a + Two(k)
           o == Wasm!Overwritten(gn, x, x + WordSize)
           l == Wasm!Linked(gn, x, top)
<1>10. /\ x \in Nat /\ x + WordSize = z /\ a <= x /\ a < z /\ z \in Nat
  BY <1>9, WasmConstants DEF LinkOf
<1> HIDE DEF x, z
<1>11. /\ WHeap(o) /\ SameArrays(o, gn)
       /\ DOMAIN o.node = {y \in DOMAIN gn.node : y + WordSize <= x \/ x + WordSize <= y}
       /\ \A y \in DOMAIN o.node : o.node[y] = gn.node[y]
       /\ DOMAIN o.header =
            {p \in DOMAIN gn.header : p <= x \/ x + WordSize <= p - WasmHeaderSize}
       /\ \A p \in DOMAIN o.header : o.header[p] = gn.header[p]
  BY <1>6, OverwrittenIs
<1>12. /\ WHeap(l) /\ SameArrays(l, gn) /\ l.header = o.header
       /\ DOMAIN l.node = DOMAIN o.node \cup {x} /\ l.node[x] = top
       /\ \A y \in DOMAIN o.node : y # x => l.node[y] = o.node[y]
  BY <1>6, LinkedIs
<1> HIDE DEF o, l
<1>13. Written(gn, S, a, z, x, z, l)
  <2>1. IsFiniteSet(DOMAIN l.node)
    <3>1. IsFiniteSet(DOMAIN gn.node)
      BY <1>9 DEF WGood
    <3>2. DOMAIN o.node \in SUBSET DOMAIN gn.node
      BY <1>11
    <3>3. IsFiniteSet(DOMAIN o.node)
      BY <3>1, <3>2, FS_Subset
    <3>4. IsFiniteSet(DOMAIN o.node \cup {x})
      BY <3>3, FS_AddElement
    <3> QED
      BY <1>12, <3>4
  <2>2. gn.pages <= l.pages /\ l.nextAddrs = gn.nextAddrs /\ \A j \in SlotK : Top(l, j) = Top(gn, j)
    <3>1. gn.pages \in Nat /\ l.pages = gn.pages /\ l.nextAddrs = gn.nextAddrs
      BY <1>6, <1>12 DEF WHeap, SameArrays
    <3> QED
      BY <1>12, <3>1, SameTops
  <2>3. ASSUME NEW y \in DOMAIN gn.node, y + WordSize <= x \/ z <= y
        PROVE  y \in DOMAIN l.node /\ l.node[y] = gn.node[y]
    <3>1. y \in DOMAIN o.node
      BY <1>10, <1>11, <2>3
    <3>2. y # x
      BY <1>10, <2>3, WasmConstants
    <3> QED
      BY <1>11, <1>12, <3>1, <3>2
  <2>4. \A c \in S : /\ c.pos \in DOMAIN gn.header
                     /\ c.pos <= x \/ z <= c.pos - WasmHeaderSize
                     => c.pos \in DOMAIN l.header /\ l.header[c.pos] = gn.header[c.pos]
    BY <1>10, <1>11, <1>12
  <2> QED
    BY <1>9, <1>10, <1>12, <2>1, <2>2, <2>3, <2>4 DEF Written
<1>14. Clear(gn, S, f, n, a, z)
  BY <1>8 DEF Taken, z
<1>15. WGood(l, S, f, n) /\ WParts(l, S, f, n) \subseteq WParts(gn, S, f, n)
  BY <1>9, <1>13, <1>14, WrittenGood
<1>16. Taken(l, S, f, n, a, k)
  <2>1. gn.pages <= l.pages
    BY <1>13 DEF Written
  <2> QED
    BY <1>8, <1>15, <2>1, TakenStays
<1>17. Top(l, k) = top /\ x \in DOMAIN l.node /\ l.node[x] = Top(l, k)
  <2>1. Top(l, k) = Top(gn, k) /\ Top(gn, k) = Top(h, k)
    BY <1>6, <1>12, SameTops
  <2> QED
    BY <1>12, <2>1
<1> DEFINE c == IF k \in SmallK THEN k - MinClass ELSE k - PageLog
           g == Wasm!Freed(h, b)
<1>18. g = IF k \in SmallK THEN [l EXCEPT !.frees[c] = a] ELSE [l EXCEPT !.bigFrees[c] = a]
  <2>1. Wasm!SlotOf(h, b) = [addr |-> a, size |-> Two(k)]
    BY <1>8 DEF Wasm!SlotOf, SlotAddr, SlotLen, a
  <2>2. Wasm!SlotOf(h, b).addr = a /\ Wasm!SlotOf(h, b).size = Two(k)
    BY <2>1
  <2>3. /\ Wasm!IsSmall(Two(k)) <=> k \in SmallK
        /\ Wasm!Class(Two(k)) = k - MinClass
        /\ k \in BigK => Wasm!Log2(Two(k) \div WasmPageSize) = k - PageLog
    BY ClassOfSlot
  <2>4. Wasm!Link(a, Two(k)) = x
    BY LinkIs DEF x
  <2>5. k \in SmallK \/ k \in BigK
    BY SlotKFacts
  <2>6. CASE k \in SmallK
    <3>1. h.frees[c] = top
      BY <2>6, TopIs
    <3> QED
      BY <1>4, <2>2, <2>3, <2>4, <2>6, <3>1 DEF Wasm!Freed, gn, l
  <2>7. CASE k \notin SmallK
    <3>1. h.bigFrees[c] = top
      BY <2>5, <2>7, TopIs
    <3> QED
      BY <1>4, <2>2, <2>3, <2>4, <2>5, <2>7, <3>1 DEF Wasm!Freed, gn, l
  <2> QED
    BY <2>6, <2>7
<1> HIDE DEF g
<1>19. /\ WHeap(g) /\ g.pages = l.pages /\ g.nextAddrs = l.nextAddrs
       /\ g.node = l.node /\ g.header = l.header
       /\ Top(g, k) = a /\ \A j \in SlotK : j # k => Top(g, j) = Top(l, j)
  <2>1. WHeap(l)
    BY <1>12
  <2>2. CASE k \in SmallK
    <3>1. c \in 0 .. Wasm!ClassCount - 1 /\ c = k - MinClass
      BY <2>2, SlotKFacts
    <3>2. /\ WHeap(g) /\ g.pages = l.pages /\ g.nextAddrs = l.nextAddrs
          /\ g.frees = [l.frees EXCEPT ![c] = a] /\ g.bigFrees = l.bigFrees
          /\ g.node = l.node /\ g.header = l.header
      BY <1>9, <1>18, <2>1, <2>2, <3>1, SetFree
    <3> HIDE DEF c
    <3>3. c \in DOMAIN l.frees
      BY <2>1, <3>1 DEF WHeap
    <3>4. Top(g, k) = a
      BY <2>2, <3>1, <3>2, <3>3, TopIs
    <3>5. ASSUME NEW j \in SlotK, j # k PROVE Top(g, j) = Top(l, j)
      <4>1. CASE j \in SmallK
        <5>1. j - MinClass # c /\ j - MinClass \in DOMAIN l.frees
          <6>1. /\ j \in Nat /\ k \in Nat /\ MinClass \in Nat
                /\ j - MinClass \in 0 .. Wasm!ClassCount - 1
            BY <4>1, SlotKFacts, WasmConstants
          <6>2. DOMAIN l.frees = 0 .. Wasm!ClassCount - 1
            BY <2>1 DEF WHeap
          <6> QED
            BY <3>1, <3>5, <6>1, <6>2
        <5>2. Top(g, j) = g.frees[j - MinClass] /\ Top(l, j) = l.frees[j - MinClass]
          BY <4>1, TopIs
        <5> QED
          BY <3>2, <5>1, <5>2
      <4>2. CASE j \in BigK
        BY <3>2, <4>2, TopIs
      <4> QED
        BY <4>1, <4>2, SlotKFacts
    <3> QED
      BY <3>2, <3>4, <3>5
  <2>3. CASE k \notin SmallK
    <3>1. c \in 0 .. BigClassCount - 1 /\ c = k - PageLog /\ k \in BigK
      BY <2>3, SlotKFacts
    <3>2. /\ WHeap(g) /\ g.pages = l.pages /\ g.nextAddrs = l.nextAddrs
          /\ g.frees = l.frees /\ g.bigFrees = [l.bigFrees EXCEPT ![c] = a]
          /\ g.node = l.node /\ g.header = l.header
      BY <1>9, <1>18, <2>1, <2>3, <3>1, SetBig
    <3> HIDE DEF c
    <3>3. c \in DOMAIN l.bigFrees
      BY <2>1, <3>1 DEF WHeap
    <3>4. Top(g, k) = a
      BY <3>1, <3>2, <3>3, TopIs
    <3>5. ASSUME NEW j \in SlotK, j # k PROVE Top(g, j) = Top(l, j)
      <4>1. CASE j \in BigK
        <5>1. j - PageLog # c /\ j - PageLog \in DOMAIN l.bigFrees
          <6>1. j \in Nat /\ k \in Nat /\ PageLog \in Nat /\ j - PageLog \in 0 .. BigClassCount - 1
            BY <4>1, SlotKFacts, PageIsTwo
          <6>2. DOMAIN l.bigFrees = 0 .. BigClassCount - 1
            BY <2>1 DEF WHeap
          <6> QED
            BY <3>1, <3>5, <6>1, <6>2
        <5>2. Top(g, j) = g.bigFrees[j - PageLog] /\ Top(l, j) = l.bigFrees[j - PageLog]
          BY <4>1, TopIs
        <5> QED
          BY <3>2, <5>1, <5>2
      <4>2. CASE j \in SmallK
        BY <3>2, <4>2, TopIs
      <4> QED
        BY <4>1, <4>2, SlotKFacts
    <3> QED
      BY <3>2, <3>4, <3>5
  <2> QED
    BY <2>2, <2>3
<1>20. \E f2, n2 : WGood(g, S, f2, n2)
  BY <1>9, <1>16, <1>17, <1>19, PushGood DEF x
<1> QED
  BY <1>20 DEF g, S

\* A resize in place, of the block b to size bytes.
LEMMA ResizeWGood ==
  ASSUME NEW h, NEW L, NEW f, NEW n, WGood(h, L, f, n), NEW b \in L, NEW size \in Nat,
         h.header[b.pos].offset + WasmHeaderSize + size + WordSize <= h.header[b.pos].slot
  PROVE  WGood(Wasm!Overwritten(h, b.pos, b.pos + size),
               (L \ {b}) \cup {[b EXCEPT !.len = size]}, f, n)
<1> DEFINE S == L \ {b}
           a == SlotAddr(h, b)
           lo == b.pos
           hi == b.pos + size
           g == Wasm!Overwritten(h, lo, hi)
           d == [b EXCEPT !.len = size]
<1>1. Held(h, b) /\ WHeap(h) /\ b \in Wasm!Block /\ h.header[b.pos].offset \in Nat
      /\ b.pos \in DOMAIN h.header
  BY DEF WGood, Held
<1>2. \A c \in S : c.pos \in DOMAIN h.header /\ h.header[c.pos] = h.header[c.pos]
  BY DEF WGood, Held
<1>3. SameArrays(h, h)
  BY DEF SameArrays
<1>4. PICK k \in SlotK : SlotLen(h, b) = Two(k) /\ Taken(h, S, f, n, a, k)
  BY <1>1, <1>2, <1>3, DropGood
<1>5. d \in Wasm!Block /\ d.pos = b.pos /\ d.len = size
  BY <1>1 DEF Wasm!Block
<1>6. Two(k) \in Nat /\ b.pos \in Nat /\ a \in Nat /\ a + Two(k) \in Nat
  BY <1>1, <1>4, SlotKFacts DEF Taken, Wasm!Block
<1>7. /\ a <= lo /\ lo \in Nat /\ hi \in Nat /\ hi + WordSize <= a + Two(k) /\ a < a + Two(k)
  <2>1. /\ h.header[b.pos].offset + WasmHeaderSize + size + WordSize <= Two(k)
        /\ a = b.pos - (h.header[b.pos].offset + WasmHeaderSize)
    BY <1>4 DEF SlotAddr, SlotLen
  <2> QED
    BY <1>1, <1>6, <2>1, WasmConstants
<1>8. /\ WHeap(g) /\ SameArrays(g, h)
      /\ DOMAIN g.node = {x \in DOMAIN h.node : x + WordSize <= lo \/ hi <= x}
      /\ \A x \in DOMAIN g.node : g.node[x] = h.node[x]
      /\ DOMAIN g.header = {p \in DOMAIN h.header : p <= lo \/ hi <= p - WasmHeaderSize}
      /\ \A p \in DOMAIN g.header : g.header[p] = h.header[p]
  BY <1>1, OverwrittenIs
<1> HIDE DEF g, S, d
<1>9. Written(h, S, a, a + Two(k), lo, hi, g)
  <2>1. IsFiniteSet(DOMAIN g.node)
    <3>1. IsFiniteSet(DOMAIN h.node) /\ DOMAIN g.node \in SUBSET DOMAIN h.node
      BY <1>8 DEF WGood
    <3> QED
      BY <3>1, FS_Subset
  <2>2. h.pages <= g.pages /\ g.nextAddrs = h.nextAddrs /\ \A j \in SlotK : Top(g, j) = Top(h, j)
    BY <1>1, <1>8, SameTops DEF WHeap, SameArrays
  <2>3. hi <= a + Two(k)
    BY <1>6, <1>7, WasmConstants
  <2> QED
    BY <1>6, <1>7, <1>8, <2>1, <2>2, <2>3 DEF Written
<1>10. WGood(h, S, f, n) /\ Clear(h, S, f, n, a, a + Two(k))
  BY <1>4 DEF Taken
<1>11. WGood(g, S, f, n) /\ WParts(g, S, f, n) \subseteq WParts(h, S, f, n)
  BY <1>9, <1>10, WrittenGood
<1>12. Taken(g, S, f, n, a, k)
  <2>1. h.pages <= g.pages
    BY <1>9 DEF Written
  <2> QED
    BY <1>4, <1>11, <2>1, TakenStays
<1>13. b.pos \in DOMAIN g.header /\ g.header[b.pos] = h.header[b.pos]
  BY <1>1, <1>6, <1>8
<1>14. /\ d.pos \in DOMAIN g.header /\ g.header[d.pos].offset \in Nat
       /\ SlotAddr(g, d) = a /\ SlotLen(g, d) = Two(k)
       /\ d.pos + d.len + WordSize <= a + Two(k)
  BY <1>1, <1>4, <1>5, <1>7, <1>13 DEF SlotAddr, SlotLen
<1>15. WGood(g, S \cup {d}, f, n)
  BY <1>5, <1>12, <1>14, AddBlock
<1> QED
  BY <1>15 DEF g, S, d

-----------------------------------------------------------------------------
(* What is always true of the memory                                       *)

WInv == \E f, n : WGood(heap, wasmLive, f, n)

LEMMA WInvInit == Wasm!Init => WInv
<1> SUFFICES ASSUME Wasm!Init PROVE WInv
  OBVIOUS
<1> DEFINE f == [k \in SlotK |-> [i \in Nat |-> 0]]
           n == [k \in SlotK |-> 0]
<1>1. /\ heap = [pages     |-> InitialPages,
                 nextAddrs |-> [c \in 0 .. Wasm!ClassCount - 1 |-> 0],
                 frees     |-> [c \in 0 .. Wasm!ClassCount - 1 |-> 0],
                 bigFrees  |-> [c \in 0 .. BigClassCount - 1 |-> 0],
                 node      |-> <<>>, header |-> <<>>]
      /\ wasmLive = {}
  BY DEF Wasm!Init
<1>2. /\ heap.pages = InitialPages
      /\ heap.nextAddrs = [c \in 0 .. Wasm!ClassCount - 1 |-> 0]
      /\ heap.frees = [c \in 0 .. Wasm!ClassCount - 1 |-> 0]
      /\ heap.bigFrees = [c \in 0 .. BigClassCount - 1 |-> 0]
      /\ heap.node = <<>> /\ heap.header = <<>>
  BY <1>1
<1>3. WHeap(heap)
  <2>1. heap = [pages |-> heap.pages, nextAddrs |-> heap.nextAddrs, frees |-> heap.frees,
                bigFrees |-> heap.bigFrees, node |-> heap.node, header |-> heap.header]
    BY <1>1
  <2> QED
    BY <1>2, <2>1, WasmConstants DEF WHeap
<1>4. DOMAIN heap.node = {}
  BY <1>2
<1>5. f \in [SlotK -> [Nat -> Nat]] /\ n \in [SlotK -> Nat]
      /\ \A k \in SlotK : n[k] = 0 /\ f[k][0] = 0 /\ f[k][n[k]] = 0
  OBVIOUS
<1> HIDE DEF f, n
<1>6. ASSUME NEW k \in SlotK PROVE Top(heap, k) = 0
  <2>1. CASE k \in SmallK
    <3>1. Top(heap, k) = heap.frees[k - MinClass]
      BY <2>1, TopIs
    <3>2. k - MinClass \in 0 .. Wasm!ClassCount - 1
      BY <2>1, SlotKFacts
    <3> QED
      BY <1>2, <3>1, <3>2
  <2>2. CASE k \in BigK
    <3>1. Top(heap, k) = heap.bigFrees[k - PageLog]
      BY <2>2, TopIs
    <3>2. k - PageLog \in 0 .. BigClassCount - 1
      BY <2>2, SlotKFacts
    <3> QED
      BY <1>2, <3>1, <3>2
  <2> QED
    BY <2>1, <2>2, SlotKFacts
<1>7. ASSUME NEW k \in SmallK PROVE NextAddr(heap, k) = 0
  BY <1>2, SlotKFacts DEF NextAddr
<1>8. IsPage(0) /\ 0 % WasmPageSize = 0
  <2>1. 0 \in Nat /\ WPage(0) = 0
    BY WPageFacts
  <2> QED
    BY <2>1, PageMod DEF IsPage
<1>9. \A k \in SmallK : CutTo(NextAddr(heap, k), k) /\ ~HasRest(heap, k)
  BY <1>7, <1>8 DEF CutTo, HasRest
<1>10. WParts(heap, wasmLive, f, n) = {}
  <2>1. ASSUME NEW p \in WParts(heap, wasmLive, f, n) PROVE FALSE
    <3>1. CASE \E b \in wasmLive : p = BlockPart(heap, b)
      BY <1>1, <3>1
    <3>2. CASE \E k \in SlotK : \E i \in 1 .. n[k] : p = FreePart(f, k, i)
      BY <1>5, <3>2
    <3>3. CASE \E k \in SmallK : HasRest(heap, k) /\ p = RestPart(heap, k)
      BY <1>9, <3>3
    <3> QED
      BY <3>1, <3>2, <3>3, PartsAre
  <2> QED
    BY <2>1
<1>11. IsFiniteSet(DOMAIN heap.node)
  BY <1>4, FS_EmptySet
<1>12. /\ \A k \in SlotK : f[k][0] = 0 /\ Top(heap, k) = f[k][n[k]]
       /\ \A k \in SlotK : 1 .. n[k] = {}
  BY <1>5, <1>6
<1>13. /\ \A p \in WParts(heap, wasmLive, f, n) : InMemory(heap, p)
       /\ Disj(WParts(heap, wasmLive, f, n))
  BY <1>10 DEF Disj
<1>14. \A k \in SlotK : \A i \in 1 .. n[k] : Listed(heap, f, k, i)
  BY <1>12
<1>15. WGood(heap, wasmLive, f, n)
  BY <1>1, <1>3, <1>5, <1>9, <1>11, <1>12, <1>13, <1>14 DEF WGood
<1> QED
  BY <1>15 DEF WInv

LEMMA WInvNext == WInv /\ [Wasm!Next]_wasmVars => WInv'
<1> SUFFICES ASSUME WInv, [Wasm!Next]_wasmVars
             PROVE  \E f, n : WGood(heap', wasmLive', f, n)
  <2>1. WInv' = \E f, n : WGood(heap', wasmLive', f, n)
    BY DEF WInv, WGood, WHeap, Listed, Held, SlotAddr, SlotLen, WParts, BlockParts,
           BlockPart, RestParts, RestPart, HasRest, NextAddr, Top, InMemory
  <2> QED
    BY <2>1
<1>1. PICK f, n : WGood(heap, wasmLive, f, n)
  BY DEF WInv
<1>2. CASE UNCHANGED <<heap, wasmLive>>
  BY <1>1, <1>2
<1>3. ASSUME NEW size \in WasmSizes, NEW align \in WasmAligns, Wasm!Alloc(size, align)
      PROVE  \E f2, n2 : WGood(heap', wasmLive', f2, n2)
  <2>1. /\ Wasm!Allocated(heap, size, align).ok
        /\ heap' = Wasm!Allocated(heap, size, align).heap
        /\ wasmLive' = wasmLive \cup {Wasm!Allocated(heap, size, align).block}
    BY <1>3 DEF Wasm!Alloc
  <2> QED
    BY <1>1, <2>1, AllocWGood
<1>4. ASSUME NEW b \in wasmLive, NEW size \in WasmSizes, NEW align \in WasmAligns,
             Wasm!ResizeInPlace(b, size, align)
      PROVE  \E f2, n2 : WGood(heap', wasmLive', f2, n2)
  <2>1. /\ heap' = Wasm!Overwritten(heap, b.pos, b.pos + size)
        /\ wasmLive' = (wasmLive \ {b}) \cup {[b EXCEPT !.len = size]}
        /\ heap.header[b.pos].offset + WasmHeaderSize + size + WordSize <= heap.header[b.pos].slot
        /\ size \in Nat
    BY <1>4, WasmConstants DEF Wasm!ResizeInPlace, Wasm!FitsSlot
  <2> QED
    BY <1>1, <2>1, ResizeWGood
<1>5. ASSUME NEW b \in wasmLive, NEW size \in WasmSizes, NEW align \in WasmAligns,
             Wasm!ResizeByMove(b, size, align)
      PROVE  \E f2, n2 : WGood(heap', wasmLive', f2, n2)
  <2> DEFINE new == Wasm!Allocated(heap, size, align)
  <2>1. /\ new.ok /\ heap' = Wasm!Freed(new.heap, b)
        /\ wasmLive' = (wasmLive \cup {new.block}) \ {b}
    BY <1>5 DEF Wasm!ResizeByMove
  <2>2. PICK m : WGood(new.heap, wasmLive \cup {new.block}, f, m)
    BY <1>1, <2>1, AllocWGood
  <2> HIDE DEF new
  <2>3. b \in wasmLive \cup {new.block}
    OBVIOUS
  <2> QED
    BY <2>1, <2>2, <2>3, FreeWGood
<1>6. ASSUME NEW b \in wasmLive, Wasm!Free(b)
      PROVE  \E f2, n2 : WGood(heap', wasmLive', f2, n2)
  <2>1. heap' = Wasm!Freed(heap, b) /\ wasmLive' = wasmLive \ {b}
    BY <1>6 DEF Wasm!Free
  <2> QED
    BY <1>1, <2>1, FreeWGood
<1> QED
  BY <1>2, <1>3, <1>4, <1>5, <1>6
     DEF wasmVars, Wasm!Next, Wasm!vars, Wasm!AllocFails, Wasm!ResizeTraps

LEMMA WStep == [MCNext]_<<active, vars, wasmVars, cVars, pageVars>> => [Wasm!Next]_wasmVars
BY DEF MCNext, wasmVars

LEMMA WInvAlways == MCSpec => []WInv
<1>1. MCInit => WInv
  BY WInvInit DEF MCInit
<1> QED
  BY <1>1, WStep, WInvNext, PTL DEF MCSpec

-----------------------------------------------------------------------------
(* The blocks seen through the contract                                    *)

\* Two blocks have no byte in common, and no place.
LEMMA WApart ==
  ASSUME NEW h, NEW L, NEW f, NEW n, WGood(h, L, f, n), NEW b \in L, NEW c \in L, b # c
  PROVE  b.pos # c.pos /\ (b.pos + b.len <= c.pos \/ c.pos + c.len <= b.pos)
<1>1. b \in Wasm!Block /\ c \in Wasm!Block
  BY DEF WGood, Held
<1>2. BlockPart(h, c) # BlockPart(h, b)
  BY <1>1, PartsDiffer
<1>3. Off(BlockPart(h, c), BlockPart(h, b).lo, BlockPart(h, b).hi)
  BY <1>2, PartsAre DEF WGood, Disj
<1>4. /\ b.pos \in Nat /\ b.len \in Nat /\ c.pos \in Nat /\ c.len \in Nat
      /\ BlockPart(h, b).lo \in Nat /\ BlockPart(h, b).hi \in Nat
      /\ BlockPart(h, b).lo + WasmHeaderSize <= b.pos
      /\ b.pos + b.len + WordSize <= BlockPart(h, b).hi
      /\ BlockPart(h, c).lo \in Nat /\ BlockPart(h, c).hi \in Nat
      /\ BlockPart(h, c).lo + WasmHeaderSize <= c.pos
      /\ c.pos + c.len + WordSize <= BlockPart(h, c).hi
  BY PartWords
<1> QED
  BY <1>3, <1>4, WasmConstants DEF Off

WImg(b) == [region |-> 0, pos |-> b.pos, len |-> b.len]

LEMMA WBlocksIs == Wasm!Blocks = {WImg(b) : b \in wasmLive}
BY DEF Wasm!Blocks, WImg

LEMMA WImgApart ==
  ASSUME NEW e \in Wasm!Block, NEW L,
         \A c \in L : c.pos # e.pos /\ (c.pos + c.len <= e.pos \/ e.pos + e.len <= c.pos)
  PROVE  /\ WImg(e) \in Wasm!Contract!Block
         /\ Wasm!Contract!ClearOf(WImg(e), {WImg(c) : c \in L})
         /\ WImg(e) \notin {WImg(c) : c \in L}
<1>1. /\ WImg(e) = [region |-> 0, pos |-> e.pos, len |-> e.len]
      /\ e.pos \in Nat /\ e.len \in Nat
  BY DEF WImg, Wasm!Block
<1>2. WImg(e) \in Wasm!Contract!Block
  BY <1>1 DEF Wasm!Contract!Block
<1>3. ASSUME NEW c \in L
      PROVE  Wasm!Contract!Disjoint(WImg(c), WImg(e)) /\ WImg(c) # WImg(e)
  BY DEF WImg, Wasm!Contract!Disjoint
<1> QED
  BY <1>2, <1>3 DEF Wasm!Contract!ClearOf

\* What is allocated is clear of every block.
LEMMA AllocApart ==
  ASSUME NEW h, NEW L, NEW f, NEW n, WGood(h, L, f, n),
         NEW size \in WasmSizes, NEW align \in WasmAligns, Wasm!Allocated(h, size, align).ok
  PROVE  LET e == Wasm!Allocated(h, size, align).block
         IN  /\ e \in Wasm!Block
             /\ \A c \in L : c.pos # e.pos /\ (c.pos + c.len <= e.pos \/ e.pos + e.len <= c.pos)
<1> DEFINE new == Wasm!Allocated(h, size, align)
           e == new.block
<1>1. e \in Wasm!Block /\ e \notin L /\ \E m : WGood(new.heap, L \cup {e}, f, m)
  BY AllocWGood
<1> HIDE DEF new
<1>2. PICK m : WGood(new.heap, L \cup {e}, f, m)
  BY <1>1
<1>3. ASSUME NEW c \in L
      PROVE  c.pos # e.pos /\ (c.pos + c.len <= e.pos \/ e.pos + e.len <= c.pos)
  <2>1. c \in L \cup {e} /\ e \in L \cup {e} /\ c # e
    BY <1>1
  <2> QED
    BY <1>2, <2>1, WApart
<1> QED
  BY <1>1, <1>3 DEF new

LEMMA WStepRefines ==
  WInv /\ [Wasm!Next]_wasmVars => [Wasm!Contract!Next]_(Wasm!Blocks)
<1> SUFFICES ASSUME WInv, [Wasm!Next]_wasmVars PROVE [Wasm!Contract!Next]_(Wasm!Blocks)
  OBVIOUS
<1>1. PICK f, n : WGood(heap, wasmLive, f, n)
  BY DEF WInv
<1>2. Wasm!Blocks' = {WImg(b) : b \in wasmLive'}
  BY DEF Wasm!Blocks, WImg
<1>3. CASE wasmLive' = wasmLive
  BY <1>3 DEF Wasm!Blocks
<1>4. ASSUME NEW size \in WasmSizes, NEW align \in WasmAligns, Wasm!Alloc(size, align)
      PROVE  Wasm!Contract!Next
  <2> DEFINE e == Wasm!Allocated(heap, size, align).block
  <2>1. Wasm!Allocated(heap, size, align).ok /\ wasmLive' = wasmLive \cup {e}
    BY <1>4 DEF Wasm!Alloc
  <2>2. /\ e \in Wasm!Block
        /\ \A c \in wasmLive :
             c.pos # e.pos /\ (c.pos + c.len <= e.pos \/ e.pos + e.len <= c.pos)
    BY <1>1, <2>1, AllocApart
  <2> HIDE DEF e
  <2>3. /\ WImg(e) \in Wasm!Contract!Block /\ WImg(e) \notin Wasm!Blocks
        /\ Wasm!Contract!ClearOf(WImg(e), Wasm!Blocks)
    BY <2>2, WImgApart, WBlocksIs
  <2>4. Wasm!Blocks' = Wasm!Blocks \cup {WImg(e)}
    BY <1>2, <2>1, WBlocksIs
  <2>5. Wasm!Contract!Obtain
    BY <2>3, <2>4 DEF Wasm!Contract!Obtain
  <2> QED
    BY <2>5 DEF Wasm!Contract!Next
<1>5. \A b \in wasmLive : \A c \in wasmLive \ {b} :
        c.pos # b.pos /\ (c.pos + c.len <= b.pos \/ b.pos + b.len <= c.pos)
  <2>1. TAKE b \in wasmLive
  <2>2. TAKE c \in wasmLive \ {b}
  <2>3. c \in wasmLive /\ c # b
    OBVIOUS
  <2> QED
    BY <1>1, <2>3, WApart
<1>6. ASSUME NEW b \in wasmLive
      PROVE  Wasm!Blocks \ {WImg(b)} = {WImg(c) : c \in wasmLive \ {b}} /\ WImg(b) \in Wasm!Blocks
  <2>1. \A c \in wasmLive \ {b} : WImg(c) # WImg(b)
    BY <1>5 DEF WImg
  <2> QED
    BY <2>1, WBlocksIs
<1>7. ASSUME NEW b \in wasmLive, NEW size \in WasmSizes, NEW align \in WasmAligns,
             Wasm!ResizeInPlace(b, size, align)
      PROVE  Wasm!Contract!Next
  <2> DEFINE d == [b EXCEPT !.len = size]
  <2>1. /\ wasmLive' = (wasmLive \ {b}) \cup {d}
        /\ heap.header[b.pos].offset + WasmHeaderSize + size + WordSize <= heap.header[b.pos].slot
        /\ size \in Nat
    BY <1>7, WasmConstants DEF Wasm!ResizeInPlace, Wasm!FitsSlot
  <2>2. b \in Wasm!Block
    BY <1>1 DEF WGood, Held
  <2>3. d \in Wasm!Block /\ d.pos = b.pos
    BY <2>1, <2>2 DEF Wasm!Block
  <2>4. WGood(Wasm!Overwritten(heap, b.pos, b.pos + size), (wasmLive \ {b}) \cup {d}, f, n)
    BY <1>1, <2>1, ResizeWGood
  <2> HIDE DEF d
  <2>5. ASSUME NEW c \in wasmLive \ {b}
        PROVE  c.pos # d.pos /\ (c.pos + c.len <= d.pos \/ d.pos + d.len <= c.pos)
    <3>1. c.pos # d.pos
      BY <1>5, <2>3
    <3>2. /\ c \in (wasmLive \ {b}) \cup {d} /\ d \in (wasmLive \ {b}) \cup {d} /\ c # d
      BY <3>1
    <3> QED
      BY <2>4, <3>2, WApart
  <2>6. /\ WImg(d) \in Wasm!Contract!Block
        /\ Wasm!Contract!ClearOf(WImg(d), Wasm!Blocks \ {WImg(b)})
    <3>1. /\ WImg(d) \in Wasm!Contract!Block
          /\ Wasm!Contract!ClearOf(WImg(d), {WImg(c) : c \in wasmLive \ {b}})
      BY <2>3, <2>5, WImgApart
    <3> QED
      BY <1>6, <3>1
  <2>7. Wasm!Blocks' = (Wasm!Blocks \ {WImg(b)}) \cup {WImg(d)}
    BY <1>2, <1>6, <2>1
  <2>8. Wasm!Contract!SamePlace(WImg(b), WImg(d))
    BY <2>3 DEF WImg, Wasm!Contract!SamePlace
  <2>9. WImg(b) \in Wasm!Blocks /\ WImg(d) \in Wasm!Blocks'
    BY <1>6, <2>7
  <2>10. Wasm!Contract!Resize
    BY <2>6, <2>7, <2>8, <2>9 DEF Wasm!Contract!Resize
  <2> QED
    BY <2>10 DEF Wasm!Contract!Next
<1>8. ASSUME NEW b \in wasmLive, NEW size \in WasmSizes, NEW align \in WasmAligns,
             Wasm!ResizeByMove(b, size, align)
      PROVE  Wasm!Contract!Next
  <2> DEFINE e == Wasm!Allocated(heap, size, align).block
  <2>1. Wasm!Allocated(heap, size, align).ok /\ wasmLive' = (wasmLive \cup {e}) \ {b}
    BY <1>8 DEF Wasm!ResizeByMove
  <2>2. /\ e \in Wasm!Block
        /\ \A c \in wasmLive :
             c.pos # e.pos /\ (c.pos + c.len <= e.pos \/ e.pos + e.len <= c.pos)
    BY <1>1, <2>1, AllocApart
  <2> HIDE DEF e
  <2>3. /\ WImg(e) \in Wasm!Contract!Block
        /\ Wasm!Contract!ClearOf(WImg(e), Wasm!Blocks)
    BY <2>2, WImgApart, WBlocksIs
  <2>4. e # b
    BY <2>2
  <2>5. wasmLive' = (wasmLive \ {b}) \cup {e}
    BY <2>1, <2>4
  <2>6. Wasm!Blocks' = (Wasm!Blocks \ {WImg(b)}) \cup {WImg(e)}
    BY <1>2, <1>6, <2>5
  <2>7. ~Wasm!Contract!SamePlace(WImg(b), WImg(e))
    BY <2>2 DEF WImg, Wasm!Contract!SamePlace
  <2>8. WImg(b) \in Wasm!Blocks /\ WImg(e) \in Wasm!Blocks'
    BY <1>6, <2>6
  <2>9. Wasm!Contract!Resize
    BY <2>3, <2>6, <2>7, <2>8 DEF Wasm!Contract!Resize
  <2> QED
    BY <2>9 DEF Wasm!Contract!Next
<1>9. ASSUME NEW b \in wasmLive, Wasm!Free(b)
      PROVE  Wasm!Contract!Next
  <2>1. wasmLive' \subseteq wasmLive
    BY <1>9 DEF Wasm!Free
  <2>2. Wasm!Blocks' \subseteq Wasm!Blocks
    BY <1>2, <2>1, WBlocksIs
  <2> QED
    BY <2>2 DEF Wasm!Contract!Release, Wasm!Contract!Next
<1> QED
  BY <1>3, <1>4, <1>7, <1>8, <1>9
     DEF wasmVars, Wasm!Next, Wasm!vars, Wasm!AllocFails, Wasm!ResizeTraps

LEMMA WasmImplementsContract == MCSpec => Wasm!ImplementsContract
<1>1. MCInit => Wasm!Contract!Init
  BY DEF MCInit, Wasm!Init, Wasm!Contract!Init, Wasm!Blocks
<1> QED
  BY <1>1, WStep, WStepRefines, WInvAlways, PTL
     DEF MCSpec, Wasm!ImplementsContract, Wasm!Contract!Spec

-----------------------------------------------------------------------------
(* The lists                                                               *)

Follow(list, top, slot) ==
  list = [n \in Nat |-> IF n = 0 THEN top ELSE Wasm!After(slot)[list[n - 1]]]

LEMMA WasmCardinality == \A S : Wasm!Cardinality(S) = Cardinality(S)
BY Zenon DEF Wasm!Cardinality, Cardinality

LEMMA FollowAgree ==
  ASSUME NEW top, NEW slot, NEW g, Follow(g, top, slot), NEW w, Follow(w, top, slot)
  PROVE  \A m \in Nat : w[m] = g[m]
<1> DEFINE Bad == {m \in Nat : w[m] # g[m]}
<1>1. SUFFICES ASSUME Bad # {} PROVE FALSE
  OBVIOUS
<1>2. PICK x \in Bad : \A y \in Bad : x <= y
  <2>1. Bad \subseteq Nat
    OBVIOUS
  <2> HIDE DEF Bad
  <2> QED
    BY <1>1, <2>1, LeastOf
<1>3. x \in Nat /\ w[x] # g[x]
  BY <1>2
<1>4. /\ w[x] = IF x = 0 THEN top ELSE Wasm!After(slot)[w[x - 1]]
      /\ g[x] = IF x = 0 THEN top ELSE Wasm!After(slot)[g[x - 1]]
  BY <1>3 DEF Follow
<1>5. x # 0
  BY <1>3, <1>4
<1>6. x - 1 \in Nat /\ ~(x <= x - 1)
  BY <1>3, <1>5
<1>7. w[x - 1] = g[x - 1]
  BY <1>2, <1>6
<1> QED
  BY <1>3, <1>4, <1>5, <1>7

LEMMA ListFollows ==
  ASSUME NEW top, NEW slot, NEW g, Follow(g, top, slot)
  PROVE  Wasm!List(top, slot) = {g[n] : n \in 0 .. Cardinality(DOMAIN heap.node)}
<1> DEFINE w == CHOOSE list : Follow(list, top, slot)
           M == 0 .. Cardinality(DOMAIN heap.node)
<1>1. Follow(w, top, slot)
  OBVIOUS
<1>2. Wasm!List(top, slot) = {w[n] : n \in M}
  <2>1. Wasm!List(top, slot) = {w[n] : n \in 0 .. Wasm!Cardinality(DOMAIN heap.node)}
    BY Zenon DEF Wasm!List, Follow
  <2>2. Wasm!Cardinality(DOMAIN heap.node) = Cardinality(DOMAIN heap.node)
    BY WasmCardinality
  <2> QED
    BY <2>1, <2>2
<1> HIDE DEF w
<1>3. \A m \in Nat : w[m] = g[m]
  BY <1>1, FollowAgree
<1>4. M \subseteq Nat
  OBVIOUS
<1> HIDE DEF M
<1>5. {w[m] : m \in M} = {g[m] : m \in M}
  BY <1>3, <1>4
<1> QED
  BY <1>2, <1>5 DEF M

\* A list is no longer than there are links.
LEMMA ListShort ==
  ASSUME NEW h, NEW L, NEW f, NEW n, WGood(h, L, f, n), NEW k \in SlotK
  PROVE  Cardinality(DOMAIN h.node) \in Nat /\ n[k] <= Cardinality(DOMAIN h.node)
<1> DEFINE S == 1 .. n[k]
           T == DOMAIN h.node
           e == [i \in S |-> LinkOf(f[k][i], k)]
<1>1. n[k] \in Nat /\ IsFiniteSet(T)
  BY DEF WGood
<1>2. IsFiniteSet(S) /\ Cardinality(S) = n[k]
  <2>1. 1 \in Int /\ n[k] \in Int
    BY <1>1
  <2>2. IsFiniteSet(S) /\ Cardinality(S) = IF 1 > n[k] THEN 0 ELSE n[k] - 1 + 1
    BY <2>1, FS_Interval
  <2> QED
    BY <1>1, <2>2
<1>3. Cardinality(T) \in Nat
  BY <1>1, FS_CardinalityType
<1>4. e \in [S -> T]
  BY DEF WGood, Listed
<1>5. \A i, j \in S : i # j => e[i] # e[j]
  BY LinksDiffer
<1> HIDE DEF S, T, e
<1>6. ~(Cardinality(T) < Cardinality(S))
  <2>1. SUFFICES ASSUME Cardinality(T) < Cardinality(S) PROVE FALSE
    OBVIOUS
  <2>2. \E i, j \in S : i # j /\ e[i] = e[j]
    BY <1>1, <1>2, <1>4, <2>1, FS_PigeonHole
  <2> QED
    BY <1>5, <2>2
<1> QED
  BY <1>1, <1>2, <1>3, <1>6 DEF T

\* The list of a size is f[k], down to 0.
LEMMA ListIs ==
  ASSUME NEW L, NEW f, NEW n, WGood(heap, L, f, n), NEW k \in SlotK
  PROVE  /\ 0 \in Wasm!List(Top(heap, k), Two(k))
         /\ \A x \in Wasm!List(Top(heap, k), Two(k)) :
              x = 0 \/ \E i \in 1 .. n[k] : x = f[k][i]
<1> DEFINE t == n[k]
           g == [m \in Nat |-> IF m <= t THEN f[k][t - m] ELSE 0]
           top == Top(heap, k)
           After == Wasm!After(Two(k))
           C0 == Cardinality(DOMAIN heap.node)
<1>1. /\ t \in Nat /\ top = f[k][t] /\ f[k][0] = 0 /\ C0 \in Nat /\ t <= C0
  BY ListShort DEF WGood
<1>2. After[0] = 0
  <2>1. 0 \in Nat
    OBVIOUS
  <2> QED
    BY <2>1 DEF Wasm!After
<1>3. \A i \in 1 .. t : f[k][i] \in Nat /\ f[k][i] # 0 /\ After[f[k][i]] = f[k][i - 1]
  <2>1. TAKE i \in 1 .. t
  <2>2. f[k][i] \in Nat /\ f[k][i] # 0
    BY PartWords
  <2>3. /\ LinkOf(f[k][i], k) \in DOMAIN heap.node
        /\ heap.node[LinkOf(f[k][i], k)] = f[k][i - 1]
    BY DEF WGood, Listed
  <2>4. Wasm!Link(f[k][i], Two(k)) = LinkOf(f[k][i], k)
    BY LinkIs
  <2> QED
    BY <2>2, <2>3, <2>4 DEF Wasm!After
<1> HIDE DEF t, top, After, C0
<1>4. ASSUME NEW m \in Nat
      PROVE  g[m] = IF m = 0 THEN top ELSE After[g[m - 1]]
  <2>1. CASE m = 0
    BY <1>1, <2>1
  <2>2. CASE m # 0 /\ m <= t
    <3>1. m - 1 \in Nat /\ m - 1 <= t /\ t - (m - 1) \in 1 .. t /\ (t - (m - 1)) - 1 = t - m
      BY <1>1, <2>2
    <3>2. g[m - 1] = f[k][t - (m - 1)] /\ g[m] = f[k][t - m]
      BY <2>2, <3>1
    <3>3. After[f[k][t - (m - 1)]] = f[k][t - m]
      BY <1>3, <3>1
    <3> QED
      BY <2>2, <3>2, <3>3
  <2>3. CASE m = t + 1
    <3>1. m # 0 /\ m - 1 \in Nat /\ m - 1 <= t /\ t - (m - 1) = 0 /\ ~(m <= t)
      BY <1>1, <2>3
    <3>2. g[m - 1] = 0 /\ g[m] = 0
      BY <1>1, <3>1
    <3> QED
      BY <1>2, <3>1, <3>2
  <2>4. CASE m > t + 1
    <3>1. m # 0 /\ m - 1 \in Nat /\ ~(m - 1 <= t) /\ ~(m <= t)
      BY <1>1, <2>4
    <3>2. g[m - 1] = 0 /\ g[m] = 0
      BY <3>1
    <3> QED
      BY <1>2, <3>1, <3>2
  <2> QED
    BY <1>1, <2>1, <2>2, <2>3, <2>4
<1>5. Follow(g, top, Two(k))
  <2>1. g = [m \in Nat |-> g[m]]
    BY Zenon
  <2> HIDE DEF g
  <2> QED
    BY <1>4, <2>1 DEF Follow, After
<1>6. Wasm!List(top, Two(k)) = {g[m] : m \in 0 .. C0}
  <2> HIDE DEF g
  <2> QED
    BY <1>5, ListFollows DEF C0
<1>7. 0 \in {g[m] : m \in 0 .. C0}
  <2>1. t \in 0 .. C0 /\ t <= t /\ t - t = 0
    BY <1>1
  <2>2. g[t] = 0
    BY <1>1, <2>1
  <2> HIDE DEF g
  <2> QED
    BY <2>1, <2>2
<1>8. ASSUME NEW x \in {g[m] : m \in 0 .. C0}
      PROVE  x = 0 \/ \E i \in 1 .. t : x = f[k][i]
  <2>1. PICK m \in 0 .. C0 : x = g[m]
    BY <1>8
  <2>2. m \in Nat
    BY <1>1
  <2>3. CASE m <= t
    <3>1. x = f[k][t - m] /\ (t - m = 0 \/ t - m \in 1 .. t)
      BY <1>1, <2>1, <2>2, <2>3
    <3> QED
      BY <1>1, <3>1
  <2>4. CASE ~(m <= t)
    BY <2>1, <2>2, <2>4
  <2> QED
    BY <2>3, <2>4
<1> QED
  BY <1>6, <1>7, <1>8 DEF top, t

-----------------------------------------------------------------------------
(* Slots have one owner each                                               *)

\* The record Wasm!Parts has for a part.
OwnerOf(o) ==
  IF o[1] = 0 THEN <<"block", o[2]>>
  ELSE IF o[1] = 2 THEN <<"rest", o[2] - MinClass>>
  ELSE IF o[2] \in SmallK THEN <<"free", o[2] - MinClass>>
  ELSE <<"pages", o[2] - PageLog>>

Shows(q) == [owner |-> OwnerOf(q.owner), lo |-> q.lo, hi |-> q.hi]

LEMMA ShowsParts ==
  /\ \A h, b : Shows(BlockPart(h, b)) =
       [owner |-> <<"block", b.pos>>, lo |-> SlotAddr(h, b), hi |-> SlotAddr(h, b) + SlotLen(h, b)]
  /\ \A f, i : \A k \in SmallK : Shows(FreePart(f, k, i)) =
       [owner |-> <<"free", k - MinClass>>, lo |-> f[k][i], hi |-> f[k][i] + Two(k)]
  /\ \A f, i : \A k \in BigK : Shows(FreePart(f, k, i)) =
       [owner |-> <<"pages", k - PageLog>>, lo |-> f[k][i], hi |-> f[k][i] + Two(k)]
  /\ \A h, k : Shows(RestPart(h, k)) =
       [owner |-> <<"rest", k - MinClass>>, lo |-> NextAddr(h, k), hi |-> PageEnd(NextAddr(h, k))]
<1>1. /\ \A x, y : OwnerOf(<<0, x, y>>) = <<"block", x>>
      /\ \A k \in SmallK : \A i : OwnerOf(<<1, k, i>>) = <<"free", k - MinClass>>
      /\ \A k : \A i : k \notin SmallK => OwnerOf(<<1, k, i>>) = <<"pages", k - PageLog>>
      /\ \A k : OwnerOf(<<2, k, 0>>) = <<"rest", k - MinClass>>
  BY DEF OwnerOf
<1>2. \A k \in BigK : k \notin SmallK
  BY SlotKFacts
<1> QED
  BY <1>1, <1>2 DEF Shows, BlockPart, FreePart, RestPart

\* The exponents of the classes of slots.
LEMMA ClassSlots ==
  ASSUME NEW h, WHeap(h)
  PROVE  /\ \A c \in DOMAIN h.frees :
              /\ c + MinClass \in SmallK /\ c + MinClass \in SlotK
              /\ (c + MinClass) - MinClass = c /\ Top(h, c + MinClass) = h.frees[c]
              /\ Wasm!Pow2[c + MinClass] = Two(c + MinClass)
         /\ \A c \in DOMAIN h.bigFrees :
              /\ c + PageLog \in BigK /\ c + PageLog \in SlotK
              /\ (c + PageLog) - PageLog = c /\ Top(h, c + PageLog) = h.bigFrees[c]
              /\ Wasm!Pow2[c] * WasmPageSize = Two(c + PageLog)
         /\ \A c \in DOMAIN h.nextAddrs :
              /\ c + MinClass \in SmallK
              /\ (c + MinClass) - MinClass = c /\ NextAddr(h, c + MinClass) = h.nextAddrs[c]
<1>1. /\ DOMAIN h.frees = 0 .. (PageLog - MinClass) - 1
      /\ DOMAIN h.nextAddrs = 0 .. (PageLog - MinClass) - 1
      /\ DOMAIN h.bigFrees = 0 .. BigClassCount - 1
      /\ PageLog \in Nat /\ MinClass \in Nat /\ BigClassCount \in Nat
  BY PageIsTwo, WasmConstants DEF WHeap
<1>2. ASSUME NEW c \in 0 .. (PageLog - MinClass) - 1
      PROVE  c + MinClass \in SmallK /\ (c + MinClass) - MinClass = c /\ c + MinClass \in SlotK
  BY <1>1, <1>2, SlotKFacts DEF SmallK
<1>3. ASSUME NEW c \in 0 .. BigClassCount - 1
      PROVE  /\ c + PageLog \in BigK /\ (c + PageLog) - PageLog = c /\ c + PageLog \in SlotK
             /\ Wasm!Pow2[c] * WasmPageSize = Two(c + PageLog)
  <2>1. /\ c \in Nat /\ c + PageLog \in BigK
        /\ (c + PageLog) - PageLog = c /\ c + PageLog = PageLog + c
    BY <1>1 DEF BigK
  <2>2. Two(c) * WasmPageSize = Two(PageLog + c)
    BY <2>1, LinkIs
  <2> QED
    BY <2>1, <2>2, SlotKFacts DEF Two
<1>4. \A c \in 0 .. BigClassCount - 1 : Top(h, c + PageLog) = h.bigFrees[c]
  <2>1. TAKE c \in 0 .. BigClassCount - 1
  <2>2. Top(h, c + PageLog) = h.bigFrees[(c + PageLog) - PageLog]
    BY <1>3, TopIs
  <2> QED
    BY <1>3, <2>2
<1>5. \A c \in 0 .. (PageLog - MinClass) - 1 : Top(h, c + MinClass) = h.frees[c]
  <2>1. TAKE c \in 0 .. (PageLog - MinClass) - 1
  <2>2. Top(h, c + MinClass) = h.frees[(c + MinClass) - MinClass]
    BY <1>2, TopIs
  <2> QED
    BY <1>2, <2>2
<1>6. \A c \in 0 .. (PageLog - MinClass) - 1 : NextAddr(h, c + MinClass) = h.nextAddrs[c]
  BY <1>2 DEF NextAddr
<1>7. \A k : Wasm!Pow2[k] = Two(k)
  BY DEF Two
<1> QED
  BY <1>1, <1>2, <1>3, <1>4, <1>5, <1>6, <1>7

LEMMA SlotOfIs ==
  \A b : /\ Wasm!SlotOf(heap, b).addr = SlotAddr(heap, b)
         /\ Wasm!SlotOf(heap, b).size = SlotLen(heap, b)
BY DEF Wasm!SlotOf, SlotAddr, SlotLen

LEMMA WPartsCases ==
  ASSUME NEW p \in Wasm!Parts
  PROVE  \/ \E b \in wasmLive :
              p = [owner |-> <<"block", b.pos>>, lo |-> SlotAddr(heap, b),
                   hi |-> SlotAddr(heap, b) + SlotLen(heap, b)]
         \/ \E c \in DOMAIN heap.frees :
              \E addr \in Wasm!List(heap.frees[c], Wasm!Pow2[c + MinClass]) \ {0} :
                p = [owner |-> <<"free", c>>, lo |-> addr, hi |-> addr + Wasm!Pow2[c + MinClass]]
         \/ \E c \in DOMAIN heap.bigFrees :
              \E addr \in Wasm!List(heap.bigFrees[c], Wasm!Pow2[c] * WasmPageSize) \ {0} :
                p = [owner |-> <<"pages", c>>, lo |-> addr,
                     hi |-> addr + Wasm!Pow2[c] * WasmPageSize]
         \/ \E c \in DOMAIN heap.nextAddrs :
              /\ heap.nextAddrs[c] % WasmPageSize # 0
              /\ p = [owner |-> <<"rest", c>>, lo |-> heap.nextAddrs[c],
                      hi |-> PageEnd(heap.nextAddrs[c])]
<1> DEFINE SlotsOf(c) == Wasm!List(heap.frees[c], Wasm!Pow2[c + MinClass]) \ {0}
           RunsOf(c)  == Wasm!List(heap.bigFrees[c], Wasm!Pow2[c] * WasmPageSize) \ {0}
           Slot(c, x) == [owner |-> <<"free", c>>, lo |-> x, hi |-> x + Wasm!Pow2[c + MinClass]]
           Run(c, x)  == [owner |-> <<"pages", c>>, lo |-> x,
                          hi |-> x + Wasm!Pow2[c] * WasmPageSize]
           Rest(c) == [owner |-> <<"rest", c>>, lo |-> heap.nextAddrs[c],
                       hi |-> PageEnd(heap.nextAddrs[c])]
           Cut(c) == heap.nextAddrs[c] % WasmPageSize # 0
           Whole(b) == [owner |-> <<"block", b.pos>>, lo |-> Wasm!SlotOf(heap, b).addr,
                        hi |-> Wasm!SlotOf(heap, b).addr + Wasm!SlotOf(heap, b).size]
<1>1. p \in {Whole(b) : b \in wasmLive}
           \cup (UNION {{Slot(c, x) : x \in SlotsOf(c)} : c \in DOMAIN heap.frees})
           \cup (UNION {{Run(c, x) : x \in RunsOf(c)} : c \in DOMAIN heap.bigFrees})
           \cup {Rest(c) : c \in {d \in DOMAIN heap.nextAddrs : Cut(d)}}
  BY Zenon DEF Wasm!Parts, PageEnd
<1>2. \A b : Whole(b) = [owner |-> <<"block", b.pos>>, lo |-> SlotAddr(heap, b),
                         hi |-> SlotAddr(heap, b) + SlotLen(heap, b)]
  BY SlotOfIs
<1> HIDE DEF SlotsOf, RunsOf, Slot, Run, Rest, Whole, Cut
<1>3. \/ \E b \in wasmLive : p = Whole(b)
      \/ \E c \in DOMAIN heap.frees : \E x \in SlotsOf(c) : p = Slot(c, x)
      \/ \E c \in DOMAIN heap.bigFrees : \E x \in RunsOf(c) : p = Run(c, x)
      \/ \E c \in DOMAIN heap.nextAddrs : Cut(c) /\ p = Rest(c)
  BY <1>1
<1> QED
  BY <1>2, <1>3 DEF SlotsOf, RunsOf, Slot, Run, Rest, Cut

\* What Wasm!Parts has are parts of a good heap.
LEMMA PartShown ==
  ASSUME NEW f, NEW n, WGood(heap, wasmLive, f, n), NEW p \in Wasm!Parts
  PROVE  \E q \in WParts(heap, wasmLive, f, n) : p = Shows(q)
<1>1. WHeap(heap)
  BY DEF WGood
<1>2. ASSUME NEW b \in wasmLive,
             p = [owner |-> <<"block", b.pos>>, lo |-> SlotAddr(heap, b),
                  hi |-> SlotAddr(heap, b) + SlotLen(heap, b)]
      PROVE  \E q \in WParts(heap, wasmLive, f, n) : p = Shows(q)
  <2>1. BlockPart(heap, b) \in WParts(heap, wasmLive, f, n) /\ p = Shows(BlockPart(heap, b))
    BY <1>2, PartsAre, ShowsParts
  <2> QED
    BY <2>1
<1>3. ASSUME NEW k \in SlotK, NEW x \in Wasm!List(Top(heap, k), Two(k)) \ {0}
      PROVE  \E i : /\ FreePart(f, k, i) \in WParts(heap, wasmLive, f, n)
                    /\ x = f[k][i]
  <2>1. PICK i \in 1 .. n[k] : x = f[k][i]
    BY ListIs
  <2> QED
    BY <2>1, PartsAre
<1>4. ASSUME NEW c \in DOMAIN heap.frees,
             NEW x \in Wasm!List(heap.frees[c], Wasm!Pow2[c + MinClass]) \ {0},
             p = [owner |-> <<"free", c>>, lo |-> x, hi |-> x + Wasm!Pow2[c + MinClass]]
      PROVE  \E q \in WParts(heap, wasmLive, f, n) : p = Shows(q)
  <2> DEFINE k == c + MinClass
  <2>1. /\ k \in SmallK /\ k \in SlotK /\ k - MinClass = c /\ Top(heap, k) = heap.frees[c]
        /\ Wasm!Pow2[k] = Two(k)
    BY <1>1, ClassSlots
  <2>2. x \in Wasm!List(Top(heap, k), Two(k)) \ {0}
    BY <2>1
  <2>3. p = [owner |-> <<"free", k - MinClass>>, lo |-> x, hi |-> x + Two(k)]
    BY <1>4, <2>1
  <2> HIDE DEF k
  <2>4. PICK i : FreePart(f, k, i) \in WParts(heap, wasmLive, f, n) /\ x = f[k][i]
    BY <1>3, <2>1, <2>2
  <2>5. p = Shows(FreePart(f, k, i))
    BY <2>1, <2>3, <2>4, ShowsParts
  <2> QED
    BY <2>4, <2>5
<1>5. ASSUME NEW c \in DOMAIN heap.bigFrees,
             NEW x \in Wasm!List(heap.bigFrees[c], Wasm!Pow2[c] * WasmPageSize) \ {0},
             p = [owner |-> <<"pages", c>>, lo |-> x, hi |-> x + Wasm!Pow2[c] * WasmPageSize]
      PROVE  \E q \in WParts(heap, wasmLive, f, n) : p = Shows(q)
  <2> DEFINE k == c + PageLog
  <2>1. /\ k \in BigK /\ k \in SlotK /\ k - PageLog = c /\ Top(heap, k) = heap.bigFrees[c]
        /\ Wasm!Pow2[c] * WasmPageSize = Two(k)
    BY <1>1, ClassSlots
  <2>2. x \in Wasm!List(Top(heap, k), Two(k)) \ {0}
    BY <2>1
  <2>3. p = [owner |-> <<"pages", k - PageLog>>, lo |-> x, hi |-> x + Two(k)]
    BY <1>5, <2>1
  <2> HIDE DEF k
  <2>4. PICK i : FreePart(f, k, i) \in WParts(heap, wasmLive, f, n) /\ x = f[k][i]
    BY <1>3, <2>1, <2>2
  <2>5. p = Shows(FreePart(f, k, i))
    BY <2>1, <2>3, <2>4, ShowsParts
  <2> QED
    BY <2>4, <2>5
<1>6. ASSUME NEW c \in DOMAIN heap.nextAddrs, heap.nextAddrs[c] % WasmPageSize # 0,
             p = [owner |-> <<"rest", c>>, lo |-> heap.nextAddrs[c],
                  hi |-> PageEnd(heap.nextAddrs[c])]
      PROVE  \E q \in WParts(heap, wasmLive, f, n) : p = Shows(q)
  <2> DEFINE k == c + MinClass
  <2>1. k \in SmallK /\ k - MinClass = c /\ NextAddr(heap, k) = heap.nextAddrs[c]
    BY <1>1, ClassSlots
  <2> HIDE DEF k
  <2>2. RestPart(heap, k) \in WParts(heap, wasmLive, f, n)
    BY <1>6, <2>1, PartsAre DEF HasRest
  <2>3. p = Shows(RestPart(heap, k))
    BY <1>6, <2>1, ShowsParts
  <2> QED
    BY <2>2, <2>3
<1> QED
  BY <1>2, <1>4, <1>5, <1>6, WPartsCases

LEMMA SlotsAreApart == WInv => SlotsApart
<1> SUFFICES ASSUME WInv PROVE SlotsApart
  OBVIOUS
<1>1. PICK f, n : WGood(heap, wasmLive, f, n)
  BY DEF WInv
<1> DEFINE P == WParts(heap, wasmLive, f, n)
<1>2. WHeap(heap) /\ (\A q \in P : InMemory(heap, q)) /\ Disj(P)
  BY <1>1 DEF WGood
<1>3. \A p \in Wasm!Parts : \E q \in P : p = Shows(q)
  BY <1>1, PartShown
<1> HIDE DEF P
<1>4. \A b \in wasmLive : b.pos \in DOMAIN heap.header
  BY <1>1 DEF WGood, Held
<1>5. ASSUME NEW b \in wasmLive
      PROVE  b.pos + b.len <= Wasm!Link(Wasm!SlotOf(heap, b).addr, Wasm!SlotOf(heap, b).size)
  <2>1. Held(heap, b)
    BY <1>1 DEF WGood
  <2>2. /\ b.pos \in Nat /\ b.len \in Nat /\ SlotAddr(heap, b) \in Nat
        /\ SlotLen(heap, b) \in Nat
        /\ b.pos + b.len + WordSize <= SlotAddr(heap, b) + SlotLen(heap, b)
    BY <2>1, SlotKFacts DEF Held, Wasm!Block
  <2> QED
    BY <2>2, SlotOfIs, WasmConstants DEF Wasm!Link
<1>6. ASSUME NEW p \in Wasm!Parts
      PROVE  InitialPages * WasmPageSize <= p.lo /\ p.hi <= heap.pages * WasmPageSize
  <2>1. PICK q \in P : p = Shows(q)
    BY <1>3
  <2>2. p.lo = q.lo /\ p.hi = q.hi
    BY <2>1 DEF Shows
  <2>3. InMemory(heap, q)
    BY <1>2
  <2> QED
    BY <2>2, <2>3 DEF InMemory, WPage
<1>7. ASSUME NEW p \in Wasm!Parts, NEW o \in Wasm!Parts
      PROVE  p = o \/ p.hi <= o.lo \/ o.hi <= p.lo
  <2>1. PICK q \in P : p = Shows(q)
    BY <1>3
  <2>2. PICK r \in P : o = Shows(r)
    BY <1>3
  <2>3. p.lo = q.lo /\ p.hi = q.hi /\ o.lo = r.lo /\ o.hi = r.hi
    BY <2>1, <2>2 DEF Shows
  <2>4. q = r \/ Off(q, r.lo, r.hi)
    BY <1>2 DEF Disj
  <2> QED
    BY <2>1, <2>2, <2>3, <2>4 DEF Off
<1>8. \A c \in DOMAIN heap.frees : 0 \in Wasm!List(heap.frees[c], Wasm!Pow2[c + MinClass])
  <2>1. TAKE c \in DOMAIN heap.frees
  <2>2. /\ c + MinClass \in SlotK /\ Top(heap, c + MinClass) = heap.frees[c]
        /\ Wasm!Pow2[c + MinClass] = Two(c + MinClass)
    BY <1>2, ClassSlots
  <2>3. 0 \in Wasm!List(Top(heap, c + MinClass), Two(c + MinClass))
    BY <1>1, <2>2, ListIs
  <2> QED
    BY <2>2, <2>3
<1>9. \A c \in DOMAIN heap.bigFrees :
        0 \in Wasm!List(heap.bigFrees[c], Wasm!Pow2[c] * WasmPageSize)
  <2>1. TAKE c \in DOMAIN heap.bigFrees
  <2>2. /\ c + PageLog \in SlotK /\ Top(heap, c + PageLog) = heap.bigFrees[c]
        /\ Wasm!Pow2[c] * WasmPageSize = Two(c + PageLog)
    BY <1>2, ClassSlots
  <2>3. 0 \in Wasm!List(Top(heap, c + PageLog), Two(c + PageLog))
    BY <1>1, <2>2, ListIs
  <2> QED
    BY <2>2, <2>3
<1> QED
  BY <1>4, <1>5, <1>6, <1>7, <1>8, <1>9 DEF SlotsApart, Wasm!SlotsApart

\* wasmallocator.c never gives two owners a byte of its memory: the slots of blocks,
\* the slots that wait in the lists of small sizes and of pages, and what no slot was
\* cut from yet of a page lie apart, within the pages the program grew; a block finds
\* its header and leaves the link word of its slot alone; lists end.
THEOREM WasmSlotsApart == MCSpec => []SlotsApart
BY WInvAlways, SlotsAreApart, PTL

\* Whatever they are asked for, in any order, the allocators over WebAssembly memory
\* (wasmallocator.c), malloc (allocator.c) and mmap (page.c) are allocators: what they
\* give out shares no byte with a block, a resize leaves a block in its place or moves
\* it clear of the others, and blocks that are given back free their own memory only.
\* With malloc, a block that is resized may slide over its own old bytes.
THEOREM AllocatorsImplementContract == MCSpec => AreAllocators
BY WasmImplementsContract, CImplementsContract, PageImplementsContract DEF AreAllocators
=============================================================================
